------------------------- MODULE MC_LegacyAdoption -------------------------
(* Two operators that adopt and repeat, two other sessions: participating DDL,
   which publishes and grants, the legacy migrator, which takes the two tables in
   the order opposite to an adoption's, and DDL on one table alone. *)
EXTENDS LegacyAdoption, TLC

CONSTANTS op1, op2, s1, s2

Job(locks, breaks, repairs) == [locks |-> locks, breaks |-> breaks, repairs |-> repairs]

maintenance == <<"maintenance", "exclusive">>
Expose == Job(<<maintenance, <<"schema", "exclusive">> >>, {"audit_published", "events_granted"}, {})
Repair == Job(<<maintenance>>, {}, {"audit_published", "platform_granted"})
Migrate == Job(<< <<"events", "exclusive">>, <<"ledger", "row_exclusive">> >>,
               {"events_altered", "history_diverged"}, {})
DropEvents == Job(<< <<"events", "exclusive">> >>, {"events_missing"}, {})
DropLedger == Job(<< <<"ledger", "exclusive">> >>, {"ledger_missing"}, {})

MCAdopters == {op1, op2}
MCSessions == {s1, s2}
MCJobs == {Expose, Repair, Migrate, DropEvents, DropLedger}
LiveJobs == {Expose, Migrate}
Unfit == {{}, {"missing", "events_missing"}, {"platform_granted", "ledger_granted"}}
Exact == {{}}

ActorSymmetry == Permutations(MCAdopters) \cup Permutations(MCSessions)
=============================================================================
