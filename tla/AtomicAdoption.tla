--------------------------- MODULE AtomicAdoption ---------------------------
(***************************************************************************)
(* What adopt_legacy promises: an adoption looks at the database and takes *)
(* it over, or refuses it, in one step.  LegacyAdoption implements it with *)
(* some twenty statements, each of which sees what other sessions have     *)
(* committed by then.                                                      *)
(***************************************************************************)
EXTENDS Naturals, Sequences

CONSTANTS
  Adopters,       \* operators running adopt_legacy
  Jobs,           \* the transactions of other sessions
  InitialFaults   \* the databases adoption may meet

VARIABLES
  faults,    \* the ways in which the database is not an exact legacy deployment
  outcome    \* adopter -> what its last adoption was answered with

vars == <<faults, outcome>>

\* What an adoption looks for and how it refuses what it finds, in the order
\* of the code.
Verdicts ==
  << <<"missing", "MissingOwnedSchema">>,
     <<"foreign_owner", "OwnershipMismatch">>,
     <<"over_granted", "UnexpectedPrivileges">>,
     <<"commented", "SchemaShapeDiverged">>,
     <<"audit_published", "SchemaShapeDiverged">>,
     <<"platform_published", "LegacyLedgerDiverged">>,
     <<"managed", "AlreadyManaged">>,
     <<"ledger_missing", "LegacyLedgerMissing">>,
     <<"ledger_replaced", "LegacyLedgerMissing">>,
     <<"platform_missing", "MissingOwnedSchema">>,
     <<"platform_foreign", "OwnershipMismatch">>,
     <<"platform_granted", "UnexpectedPrivileges">>,
     <<"platform_commented", "LegacyLedgerDiverged">>,
     <<"ledger_replaced", "LegacyLedgerDiverged">>,
     <<"ledger_altered", "LegacyLedgerDiverged">>,
     <<"ledger_foreign", "OwnershipMismatch">>,
     <<"ledger_granted", "UnexpectedPrivileges">>,
     <<"history_diverged", "LegacyLedgerDiverged">>,
     <<"extra_relation", "SchemaShapeDiverged">>,
     <<"events_missing", "SchemaShapeDiverged">>,
     <<"events_altered", "SchemaShapeDiverged">>,
     <<"extra_object", "SchemaShapeDiverged">>,
     <<"events_foreign", "OwnershipMismatch">>,
     <<"events_granted", "UnexpectedPrivileges">> >>

\* A refusal need not have seen what it was looked for under no lock: the
\* ledger may go between the look at its kind and the look at its schema.  It
\* is replaced after that look if its shape is what refuses it.
Overlooked(i) ==
  {Verdicts[i][1]} \cup
  IF Verdicts[i][1] \in {"platform_missing", "platform_foreign", "platform_granted",
                         "platform_commented"}
  THEN {"ledger_missing", "ledger_replaced"} ELSE {}

Init ==
  /\ faults \in InitialFaults
  /\ outcome = [a \in Adopters |-> "none"]

Running(a) == outcome[a] = "running"

Tell(a, answer) == outcome' = [outcome EXCEPT ![a] = answer]

Begin(a) ==
  /\ ~ Running(a)
  /\ Tell(a, "running")
  /\ UNCHANGED faults

\* An exact legacy database becomes a managed one.
Adopt(a) ==
  /\ Running(a)
  /\ faults = {}
  /\ faults' = {"managed"}
  /\ Tell(a, "Adopted") \/ Tell(a, "Database")

\* Any other is refused for the first of its faults.
Refuse(a) ==
  /\ Running(a)
  /\ \E i \in DOMAIN Verdicts :
       /\ Verdicts[i][1] \in faults
       /\ \A j \in 1 .. i - 1 : Verdicts[j][1] \notin faults \ Overlooked(i)
       /\ Tell(a, Verdicts[i][2])
  /\ UNCHANGED faults

Fail(a) ==
  /\ Running(a)
  /\ Tell(a, "Database")
  /\ UNCHANGED faults

Change(j) ==
  /\ faults' = (faults \ j.repairs) \cup j.breaks
  /\ UNCHANGED outcome

Setup ==
  /\ "missing" \in faults
  /\ faults' = (faults \ {"missing", "events_missing"}) \cup {"managed"}
  /\ UNCHANGED outcome

Next ==
  \/ \E a \in Adopters : Begin(a) \/ Adopt(a) \/ Refuse(a) \/ Fail(a)
  \/ \E j \in Jobs : Change(j)
  \/ Setup

Spec == Init /\ [][Next]_vars
=============================================================================
