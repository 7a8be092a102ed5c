--------------------------- MODULE LegacyAdoption ---------------------------
(***************************************************************************)
(* AuditLogOperator::adopt_legacy: one PostgreSQL transaction that takes   *)
(* over an audit_log schema left by the legacy package, if and only if it  *)
(* is exactly the one that package created.  The transaction is some       *)
(* twenty statements under READ COMMITTED; each statement reads the        *)
(* catalog as it is when the statement runs, so what an early statement    *)
(* verified is still true at the commit only if a lock keeps it true.      *)
(*                                                                         *)
(* Beside the adopters - operators may start several, and repeat them -    *)
(* there are sessions that run other transactions: participating DDL       *)
(* actors, which first take the maintenance lock, and the legacy service   *)
(* and its migrator, which know nothing of it and only take the relation   *)
(* locks of the statements they run.                                       *)
(*                                                                         *)
(* The database is abstracted to its faults: the ways in which it is not   *)
(* an exact, unmanaged legacy deployment.  Every check of the code looks   *)
(* for some of them.  A table that is not there is missing, something else *)
(* under its name replaces it; it is altered when its shape diverges,      *)
(* foreign when its owner does (ALTER TABLE OWNER also changes the owner   *)
(* of its row type, which is part of the shape), granted when it or one of *)
(* its columns has an access list.                                         *)
(***************************************************************************)
EXTENDS Naturals, Sequences, FiniteSets

CONSTANTS
  Adopters,       \* operators running adopt_legacy
  Sessions,       \* other database sessions
  Jobs,           \* the transactions those sessions run
  InitialFaults,  \* the databases adoption may meet
  None            \* no job

\* audit_log, the publications of it and of platform, and the managed ledger;
\* platform; its table schema_migrations, the legacy ledger; audit_log.events.
Faults ==
  { "missing", "foreign_owner", "over_granted", "commented", "audit_published",
    "platform_published", "managed", "extra_relation", "extra_object",
    "platform_missing", "platform_foreign", "platform_granted", "platform_commented",
    "ledger_missing", "ledger_replaced", "ledger_altered", "ledger_foreign", "ledger_granted",
    "history_diverged",
    "events_missing", "events_altered", "events_foreign", "events_granted" }

Locks == {"maintenance", "schema", "ledger", "events"}
Modes == {"row_exclusive", "share", "exclusive"}

ASSUME AdoptionAssumption ==
  /\ Adopters \cap Sessions = {}
  /\ None \notin Jobs
  /\ InitialFaults \subseteq SUBSET Faults
  /\ \A j \in Jobs : /\ j.locks \in Seq(Locks \X Modes)
                     /\ j.locks # <<>>
                     /\ j.breaks \cup j.repairs \subseteq Faults \ {"managed", "missing"}

VARIABLES
  faults,    \* the committed state of the database
  held,      \* the locks held: [lock, by, mode]
  pc,        \* adopter -> the statement it is about to run
  outcome,   \* adopter -> what its last adoption was answered with
  job,       \* session -> the transaction it is running
  got        \* session -> how many of its locks it has taken

vars == <<faults, held, pc, outcome, job, got>>

-----------------------------------------------------------------------------
(* Locks: two advisory locks, and the relation locks of the two tables. *)

\* SHARE and ROW EXCLUSIVE conflict with each other but not with themselves.
Conflicts(m, n) == m = "exclusive" \/ n = "exclusive" \/ m # n

Grantable(x, lock, mode) ==
  \A h \in held : h.lock = lock /\ h.by # x => ~ Conflicts(h.mode, mode)

\* (mutant: session-level advisory locks, which outlive their transaction)
ReleaseRelations(x) == held' = {h \in held : h.by # x \/ h.lock \in {"maintenance", "schema"}}

\* Every lock ends with its transaction, however that ends.
Release(x) == held' = {h \in held : h.by # x}

Take(x, lock, mode) ==
  /\ Grantable(x, lock, mode)
  /\ held' = held \cup {[lock |-> lock, by |-> x, mode |-> mode]}

-----------------------------------------------------------------------------
(* The statements of an adoption. *)

Advance(a, next) == pc' = [pc EXCEPT ![a] = next]

LockThen(a, here, lock, mode, next) ==
  /\ pc[a] = here
  /\ Take(a, lock, mode)
  /\ Advance(a, next)
  /\ UNCHANGED <<faults, outcome, job, got>>

\* The transaction ends, and the operator is told how.
End(a, answer) ==
  /\ pc' = [pc EXCEPT ![a] = "idle"]
  /\ outcome' = [outcome EXCEPT ![a] = answer]
  /\ Release(a)

\* One check: the first fault found, in the order of the code, refuses.
Verify(a, here, checks, next) ==
  /\ pc[a] = here
  /\ LET found == {i \in DOMAIN checks : checks[i][1] \in faults}
     IN  IF found = {}
         THEN Advance(a, next) /\ UNCHANGED <<held, outcome>>
         ELSE \E i \in found : (\A j \in found : i <= j) /\ End(a, checks[i][2])
  /\ UNCHANGED <<faults, job, got>>

\* A statement fails, the connection is lost or the operator is stopped:
\* PostgreSQL rolls the transaction back.
Fail(a) ==
  /\ pc[a] # "idle"
  /\ End(a, "Database")
  /\ UNCHANGED <<faults, job, got>>

BeginAdoption(a) ==
  /\ pc[a] = "idle"
  /\ Advance(a, "first_lock")
  /\ outcome' = [outcome EXCEPT ![a] = "running"]
  /\ UNCHANGED <<faults, held, job, got>>

\* (mutant: the order in which the two advisory locks are taken)
SchemaLockFirst == <<"schema", "maintenance">>

AdvisoryOrder == <<"maintenance", "schema">>

AcquireFirstLock(a) == LockThen(a, "first_lock", AdvisoryOrder[1], "exclusive", "second_lock")
AcquireSecondLock(a) == LockThen(a, "second_lock", AdvisoryOrder[2], "exclusive", "owner_and_acl")

VerifySchemaOwnerAndAcl(a) ==
  Verify(a, "owner_and_acl",
         << <<"missing", "MissingOwnedSchema">>, <<"foreign_owner", "OwnershipMismatch">>,
            <<"over_granted", "UnexpectedPrivileges">>, <<"commented", "SchemaShapeDiverged">> >>,
         "audit_publication")

\* A publication of all tables exposes both schemas.
RefusePublication(a) ==
  \/ Verify(a, "audit_publication", << <<"audit_published", "SchemaShapeDiverged">> >>,
            "platform_publication")
  \/ Verify(a, "platform_publication", << <<"platform_published", "LegacyLedgerDiverged">> >>,
            "unmanaged")

\* (mutant: the ledger is looked for only at the end)
LookForLedgerLater(a) ==
  /\ pc[a] = "unmanaged"
  /\ Advance(a, "ledger_kind")
  /\ UNCHANGED <<faults, held, outcome, job, got>>

RefuseManagedSchema(a) ==
  Verify(a, "unmanaged", << <<"managed", "AlreadyManaged">> >>, "ledger_kind")

\* The kind of the ledger, then everything about its schema.
InspectLegacyLedger(a) ==
  \/ Verify(a, "ledger_kind",
            << <<"ledger_missing", "LegacyLedgerMissing">>,
               <<"ledger_replaced", "LegacyLedgerMissing">> >>,
            "platform_owner_and_acl")
  \/ Verify(a, "platform_owner_and_acl",
            << <<"platform_missing", "MissingOwnedSchema">>,
               <<"platform_foreign", "OwnershipMismatch">>,
               <<"platform_granted", "UnexpectedPrivileges">>,
               <<"platform_commented", "LegacyLedgerDiverged">> >>,
            "ledger_lock")

\* LOCK TABLE on a ledger dropped after its kind was read is an error (and may
\* be one, see Fail, on what has replaced it).
LockLegacyLedger(a) ==
  \/ /\ "ledger_missing" \notin faults
     /\ LockThen(a, "ledger_lock", "ledger", "share", "ledger_shape")
  \/ pc[a] = "ledger_lock" /\ "ledger_missing" \in faults /\ Fail(a)

VerifyLegacyLedger(a) ==
  \/ Verify(a, "ledger_shape",
            << <<"ledger_replaced", "LegacyLedgerDiverged">>,
               <<"ledger_altered", "LegacyLedgerDiverged">> >>,
            "ledger_owner_and_acl")
  \/ Verify(a, "ledger_owner_and_acl",
            << <<"ledger_foreign", "OwnershipMismatch">>,
               <<"ledger_granted", "UnexpectedPrivileges">> >>,
            "history")

VerifyLegacyHistory(a) ==
  Verify(a, "history", << <<"history_diverged", "LegacyLedgerDiverged">> >>, "inventory")

VerifyInventory(a) ==
  Verify(a, "inventory",
         << <<"extra_relation", "SchemaShapeDiverged">>,
            <<"events_missing", "SchemaShapeDiverged">> >>,
         "events_lock")

\* (mutant: the table is verified without being locked)
LeaveAuditTableUnlocked(a) ==
  /\ pc[a] = "events_lock"
  /\ Advance(a, "events_shape")
  /\ UNCHANGED <<faults, held, outcome, job, got>>

LockAuditTable(a) ==
  \/ /\ "events_missing" \notin faults
     /\ LockThen(a, "events_lock", "events", "exclusive", "events_shape")
  \/ pc[a] = "events_lock" /\ "events_missing" \in faults /\ Fail(a)

VerifyAuditTable(a) ==
  \/ Verify(a, "events_shape", << <<"events_altered", "SchemaShapeDiverged">> >>, "extra_objects")
  \/ Verify(a, "extra_objects", << <<"extra_object", "SchemaShapeDiverged">> >>,
            "events_owner_and_acl")
  \/ Verify(a, "events_owner_and_acl",
            << <<"events_foreign", "OwnershipMismatch">>,
               <<"events_granted", "UnexpectedPrivileges">> >>,
            "audit_publication_again")

RecheckPublication(a) ==
  \/ Verify(a, "audit_publication_again", << <<"audit_published", "SchemaShapeDiverged">> >>,
            "platform_publication_again")
  \/ Verify(a, "platform_publication_again", << <<"platform_published", "LegacyLedgerDiverged">> >>,
            "unmanaged_again")

RecheckManagedSchema(a) ==
  Verify(a, "unmanaged_again", << <<"managed", "AlreadyManaged">> >>, "create_ledger")

\* CREATE TABLE fails if a ledger has been committed meanwhile; the table is
\* seen by nobody else before the commit.
CreateManagedLedger(a) ==
  Verify(a, "create_ledger", << <<"managed", "Database">> >>, "ledger_acl")

\* Default privileges would have granted access to the new ledger.
VerifyTableOwnerAndAcl(a) ==
  Verify(a, "ledger_acl", << <<"over_granted", "UnexpectedPrivileges">> >>, "record")

RecordCurrentMigration(a) ==
  /\ pc[a] = "record"
  /\ Advance(a, "commit")
  /\ UNCHANGED <<faults, held, outcome, job, got>>

\* (mutant: the transaction is dropped instead of committed)
CommitForgotten(a) ==
  /\ pc[a] = "commit"
  /\ End(a, "Adopted")
  /\ UNCHANGED <<faults, job, got>>

\* (mutant: a commit whose answer was lost is tried again)
CommitAgain(a) ==
  /\ pc[a] = "commit"
  /\ faults' = faults \cup {"managed"}
  /\ End(a, "Adopted") \/ (Release(a) /\ UNCHANGED <<pc, outcome>>)
  /\ UNCHANGED <<job, got>>

\* The answer to the commit may be lost.
Commit(a) ==
  /\ pc[a] = "commit"
  /\ faults' = faults \cup {"managed"}
  /\ End(a, "Adopted") \/ End(a, "Database")
  /\ UNCHANGED <<job, got>>

-----------------------------------------------------------------------------
(* The other sessions, and the schema operator of lenso-postgres-kit. *)

BeginJob(s, j) ==
  /\ job[s] = None
  /\ job' = [job EXCEPT ![s] = j]
  /\ UNCHANGED <<faults, held, pc, outcome, got>>

LockForJob(s) ==
  /\ job[s] # None
  /\ got[s] < Len(job[s].locks)
  /\ LET next == job[s].locks[got[s] + 1] IN Take(s, next[1], next[2])
  /\ got' = [got EXCEPT ![s] = @ + 1]
  /\ UNCHANGED <<faults, pc, outcome, job>>

EndJob(s) ==
  /\ job' = [job EXCEPT ![s] = None]
  /\ got' = [got EXCEPT ![s] = 0]
  /\ Release(s)

CommitJob(s) ==
  /\ job[s] # None
  /\ got[s] = Len(job[s].locks)
  /\ faults' = (faults \ job[s].repairs) \cup job[s].breaks
  /\ EndJob(s)
  /\ UNCHANGED <<pc, outcome>>

RollBackJob(s) ==
  /\ job[s] # None
  /\ EndJob(s)
  /\ UNCHANGED <<faults, pc, outcome>>

\* setup creates the schema with its ledger, under the schema lock, when the
\* schema is absent; otherwise it changes nothing.
Setup ==
  /\ "missing" \in faults
  /\ \A h \in held : h.lock # "schema"
  /\ faults' = (faults \ {"missing", "events_missing"}) \cup {"managed"}
  /\ UNCHANGED <<held, pc, outcome, job, got>>

-----------------------------------------------------------------------------
(* Deadlocks, which PostgreSQL finds and breaks by failing a transaction. *)

Actors == Adopters \cup Sessions

\* The lock an actor asks for next, as a set of at most one <<lock, mode>>.
Wanted(x) ==
  IF x \in Adopters
  THEN CASE pc[x] = "first_lock"  -> {<<AdvisoryOrder[1], "exclusive">>}
         [] pc[x] = "second_lock" -> {<<AdvisoryOrder[2], "exclusive">>}
         [] pc[x] = "ledger_lock" /\ "ledger_missing" \notin faults -> {<<"ledger", "share">>}
         [] pc[x] = "events_lock" /\ "events_missing" \notin faults -> {<<"events", "exclusive">>}
         [] OTHER -> {}
  ELSE IF job[x] = None \/ got[x] = Len(job[x].locks)
       THEN {} ELSE {job[x].locks[got[x] + 1]}

Blocks(y, x) ==
  \E w \in Wanted(x), h \in held :
    h.by = y /\ y # x /\ h.lock = w[1] /\ Conflicts(h.mode, w[2])

Deadlocked(D) == D # {} /\ \A x \in D : \E y \in D : Blocks(y, x)

\* A smallest such set is a cycle; one transaction of it is failed.
DeadlockVictim(x) ==
  /\ \E D \in SUBSET Actors : /\ x \in D /\ Deadlocked(D)
                              /\ \A C \in SUBSET D : Deadlocked(C) => C = D
  /\ IF x \in Adopters THEN Fail(x) ELSE RollBackJob(x)

-----------------------------------------------------------------------------

Init ==
  /\ faults \in InitialFaults
  /\ held = {}
  /\ pc = [a \in Adopters |-> "idle"]
  /\ outcome = [a \in Adopters |-> "none"]
  /\ job = [s \in Sessions |-> None]
  /\ got = [s \in Sessions |-> 0]

\* The statements of one adoption, up to its commit.
Statement(a) ==
  \/ AcquireFirstLock(a)    \/ AcquireSecondLock(a)    \/ VerifySchemaOwnerAndAcl(a)
  \/ RefusePublication(a)   \/ RefuseManagedSchema(a)  \/ InspectLegacyLedger(a)
  \/ LockLegacyLedger(a)    \/ VerifyLegacyLedger(a)   \/ VerifyLegacyHistory(a)
  \/ VerifyInventory(a)     \/ LockAuditTable(a)       \/ VerifyAuditTable(a)
  \/ RecheckPublication(a)  \/ RecheckManagedSchema(a) \/ CreateManagedLedger(a)
  \/ VerifyTableOwnerAndAcl(a) \/ RecordCurrentMigration(a) \/ Commit(a)

Next ==
  \/ \E a \in Adopters : BeginAdoption(a)
  \/ \E a \in Adopters : Statement(a)
  \/ \E a \in Adopters : Fail(a)
  \/ \E s \in Sessions, j \in Jobs : BeginJob(s, j)
  \/ \E s \in Sessions : LockForJob(s)
  \/ \E s \in Sessions : CommitJob(s)
  \/ \E s \in Sessions : RollBackJob(s)
  \/ Setup

Spec == Init /\ [][Next]_vars

\* Statements that can run do run; a lock that becomes free again and again is
\* granted, as lock queues are served in order; deadlocks are detected.
FairSpec ==
  /\ Spec
  /\ \A a \in Adopters : SF_vars(Statement(a))
  /\ \A s \in Sessions : SF_vars(LockForJob(s)) /\ WF_vars(CommitJob(s))
  /\ WF_vars(\E x \in Actors : DeadlockVictim(x))

-----------------------------------------------------------------------------
(* Properties. *)

Phases ==
  { "idle", "first_lock", "second_lock", "owner_and_acl", "audit_publication",
    "platform_publication", "unmanaged", "ledger_kind", "platform_owner_and_acl",
    "ledger_lock", "ledger_shape", "ledger_owner_and_acl", "history", "inventory",
    "events_lock", "events_shape", "extra_objects", "events_owner_and_acl",
    "audit_publication_again", "platform_publication_again", "unmanaged_again",
    "create_ledger", "ledger_acl", "record", "commit" }

Refusals == { "MissingOwnedSchema", "OwnershipMismatch", "UnexpectedPrivileges", "AlreadyManaged",
              "LegacyLedgerMissing", "LegacyLedgerDiverged", "SchemaShapeDiverged" }

\* Types, and: outside a transaction nobody holds a lock.
TypeOK ==
  /\ faults \subseteq Faults
  /\ held \subseteq [lock : Locks, by : Actors, mode : Modes]
  /\ pc \in [Adopters -> Phases]
  /\ outcome \in [Adopters -> Refusals \cup {"none", "running", "Adopted", "Database"}]
  /\ \A a \in Adopters : pc[a] # "idle" <=> outcome[a] = "running"
  /\ job \in [Sessions -> Jobs \cup {None}]
  /\ got \in [Sessions -> Nat]
  /\ \A s \in Sessions : IF job[s] = None THEN got[s] = 0 ELSE got[s] <= Len(job[s].locks)
  /\ \A h \in held : IF h.by \in Adopters THEN pc[h.by] # "idle" ELSE job[h.by] # None

\* The lock that keeps a fault from appearing while an adopter holds it: the
\* relation lock of the table where every statement that brings the fault about
\* takes a conflicting one.  GRANT takes none.
GuardOf(f) ==
  CASE f \in {"ledger_missing", "ledger_replaced", "ledger_altered", "ledger_foreign",
              "history_diverged"} -> "ledger"
    [] f \in {"events_missing", "events_altered", "events_foreign"} -> "events"
    [] OTHER -> "maintenance"

\* The operator protocol: whoever changes the catalog takes the maintenance
\* lock first, except that a statement on one of the two tables may rely on the
\* relation lock it takes anyway.  GRANT on a table, which takes no relation
\* lock, and CREATE INDEX on the ledger, which takes no more than SHARE, are not
\* among those statements.
ASSUME JobsFollowProtocol ==
  \A j \in Jobs, f \in Faults : f \in j.breaks =>
    \/ \E i \in DOMAIN j.locks : j.locks[i] = <<"maintenance", "exclusive">>
    \/ \E i \in DOMAIN j.locks : /\ j.locks[i][1] = GuardOf(f)
                                 /\ j.locks[i][2] \in {"row_exclusive", "exclusive"}
                                 /\ GuardOf(f) # "maintenance"

\* "Only an exact unmanaged legacy schema receives the Plugin ledger" (README):
\* whatever other sessions committed between the checks, at the very commit
\* that makes the database managed it has no fault at all, in the shape, the
\* owner or the access lists of either schema and either table, in their
\* publications or in the legacy history.
AdoptionIsExact ==
  [][\A a \in Adopters : pc[a] = "commit" /\ pc'[a] = "idle" /\ "managed" \in faults' \ faults
       => faults = {}]_vars

\* The ledger is created at most once: an adoption never commits on a database
\* that another adoption, or setup, has made managed.
AdoptedOnce ==
  \A a \in Adopters : pc[a] \in {"ledger_acl", "record", "commit"} =>
    /\ "managed" \notin faults
    /\ \A b \in Adopters \ {a} : pc[b] \notin {"ledger_acl", "record", "commit"}

\* What an operator is told about the ledger is so, and stays so.
OutcomeIsTrue ==
  \A a \in Adopters : outcome[a] \in {"Adopted", "AlreadyManaged"} => "managed" \in faults

\* Adopters and participating sessions never deadlock among themselves: in a
\* deadlock there is a session that did not start with the maintenance lock
\* (which pg_advisory_xact_lock only takes exclusively).
ParticipantsNeverDeadlock ==
  \A D \in SUBSET Actors : Deadlocked(D) =>
    \E s \in D \cap Sessions : job[s].locks[1] # <<"maintenance", "exclusive">>

\* An adoption, with all its statements, locks, failures and whatever other
\* sessions commit between them, is one atomic step: it takes over an exact
\* database, or it refuses it for the fault that the code looks for first, as
\* the database is when it refuses.
Promise == INSTANCE AtomicAdoption
AdoptsAtomically == Promise!Spec

\* Every adoption ends, and every other transaction does.
AdoptionsEnd == \A a \in Adopters : pc[a] # "idle" ~> pc[a] = "idle"
LegacyWritersGoOn == \A s \in Sessions : job[s] # None ~> job[s] = None
=============================================================================
