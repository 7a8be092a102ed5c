------------------------ MODULE LegacyAdoption_proofs ------------------------
(***************************************************************************)
(* Proofs about LegacyAdoption, for any number of operators and sessions,  *)
(* any database to start from and any transactions that follow the         *)
(* protocol.                                                               *)
(*                                                                         *)
(* The argument is about locks.  Whoever has found a fault absent holds a  *)
(* lock, from before it looked until its transaction ends, that everybody  *)
(* who could bring the fault back must hold at its commit; and two locks   *)
(* that are held together do not conflict.                                 *)
(***************************************************************************)
EXTENDS LegacyAdoption, TLAPS

-----------------------------------------------------------------------------
(* The phases of an adoption after each of its statements. *)

AfterEventsLock ==
  { "events_shape", "extra_objects", "events_owner_and_acl", "audit_publication_again",
    "platform_publication_again", "unmanaged_again", "create_ledger", "ledger_acl", "record", "commit" }
AfterInventory == {"events_lock"} \cup AfterEventsLock
AfterHistory == {"inventory"} \cup AfterInventory
AfterLedgerOwner == {"history"} \cup AfterHistory
AfterLedgerShape == {"ledger_owner_and_acl"} \cup AfterLedgerOwner
AfterLedgerLock == {"ledger_shape"} \cup AfterLedgerShape
AfterPlatformOwner == {"ledger_lock"} \cup AfterLedgerLock
AfterLedgerKind == {"platform_owner_and_acl"} \cup AfterPlatformOwner
AfterUnmanaged == {"ledger_kind"} \cup AfterLedgerKind
AfterPlatformPublication == {"unmanaged"} \cup AfterUnmanaged
AfterAuditPublication == {"platform_publication"} \cup AfterPlatformPublication
AfterOwnerAndAcl == {"audit_publication"} \cup AfterAuditPublication
AfterSecondLock == {"owner_and_acl"} \cup AfterOwnerAndAcl
AfterFirstLock == {"second_lock"} \cup AfterSecondLock

\* The phases in which an adopter holds a lock, and in which mode.
After(lock) ==
  CASE lock = "maintenance" -> AfterFirstLock
    [] lock = "schema"      -> AfterSecondLock
    [] lock = "ledger"      -> AfterLedgerLock
    [] lock = "events"      -> AfterEventsLock

ModeOf(lock) == IF lock = "ledger" THEN "share" ELSE "exclusive"

\* The phases in which a fault has been found absent for good: under a lock
\* that keeps it absent.  A ledger counts as there once it is locked, and as a
\* table once its shape has been read.
Cleared(f) ==
  CASE f \in {"missing", "foreign_owner", "over_granted", "commented"} -> AfterOwnerAndAcl
    [] f = "audit_published"    -> AfterAuditPublication
    [] f = "platform_published" -> AfterPlatformPublication
    [] f = "managed"            -> AfterUnmanaged
    [] f \in {"platform_missing", "platform_foreign", "platform_granted",
              "platform_commented"} -> AfterPlatformOwner
    [] f = "ledger_missing"     -> AfterLedgerLock
    [] f \in {"ledger_replaced", "ledger_altered"} -> AfterLedgerShape
    [] f \in {"ledger_foreign", "ledger_granted"} -> AfterLedgerOwner
    [] f = "history_diverged"   -> AfterHistory
    [] f = "extra_relation"     -> AfterInventory
    [] f = "events_missing"     -> AfterEventsLock
    [] f = "events_altered"     -> AfterEventsLock \ {"events_shape"}
    [] f = "extra_object"       -> AfterEventsLock \ {"events_shape", "extra_objects"}
    [] f \in {"events_foreign", "events_granted"} ->
         AfterEventsLock \ {"events_shape", "extra_objects", "events_owner_and_acl"}

-----------------------------------------------------------------------------
(* The invariant. *)

\* Locks exclude.
LocksExclude ==
  \A h, k \in held : h.lock = k.lock /\ h.by # k.by => ~ Conflicts(h.mode, k.mode)

\* An adopter keeps every lock it has taken until it ends, and holds none
\* before its first.
AdoptersHold ==
  /\ \A a \in Adopters, lock \in Locks : pc[a] \in After(lock) =>
       [lock |-> lock, by |-> a, mode |-> ModeOf(lock)] \in held
  /\ \A h \in held : h.by \in Adopters => pc[h.by] \in AfterFirstLock

\* So does every other session.
SessionsHold ==
  /\ \A s \in Sessions : job[s] # None => \A i \in 1 .. got[s] :
       [lock |-> job[s].locks[i][1], by |-> s, mode |-> job[s].locks[i][2]] \in held
  /\ \A h \in held : h.by \in Sessions => got[h.by] > 0

\* What an adopter has found absent is still absent.
VerifiedStaysTrue == \A a \in Adopters : \A f \in faults : pc[a] \notin Cleared(f)

IInv ==
  TypeOK /\ LocksExclude /\ AdoptersHold /\ SessionsHold /\ VerifiedStaysTrue /\ OutcomeIsTrue

-----------------------------------------------------------------------------
(* The steps of an adopter, by what they do to its locks and findings. *)

\* It takes a lock, on a table that is there.
Takes(a) ==
  \E lock \in Locks, next \in Phases :
    /\ pc[a] # "idle" /\ next \in AfterFirstLock
    /\ \A l \in Locks \ {lock} : next \in After(l) => pc[a] \in After(l)
    /\ \A f \in faults : next \in Cleared(f) => pc[a] \in Cleared(f)
    /\ Take(a, lock, ModeOf(lock))
    /\ Advance(a, next)
    /\ UNCHANGED <<faults, outcome, job, got>>

\* It goes on with the locks it has, having found some faults absent.
Passes(a) ==
  \E next \in Phases :
    /\ pc[a] # "idle" /\ next # "idle"
    /\ pc[a] \in AfterFirstLock => next \in AfterFirstLock
    /\ \A l \in Locks : next \in After(l) => pc[a] \in After(l)
    /\ \A f \in faults : next \in Cleared(f) => pc[a] \in Cleared(f)
    /\ Advance(a, next)
    /\ UNCHANGED <<faults, held, outcome, job, got>>

\* An answer that refuses the database for the first of its faults.
FirstFault(answer) ==
  \E k \in DOMAIN Promise!Verdicts :
    /\ Promise!Verdicts[k][1] \in faults
    /\ \A j \in 1 .. k - 1 : Promise!Verdicts[j][1] \notin faults \ Promise!Overlooked(k)
    /\ answer = Promise!Verdicts[k][2]

\* It ends without having changed anything, and tells the truth about it.
Ends(a) ==
  \E answer \in Refusals \cup {"Database"} :
    /\ pc[a] # "idle"
    /\ answer = "AlreadyManaged" => "managed" \in faults
    /\ answer = "Database" \/ FirstFault(answer)
    /\ End(a, answer)
    /\ UNCHANGED <<faults, job, got>>

\* A check leads from one phase to the next with the locks it has; the faults
\* that count as cleared in the next are those it has looked for.
Checks(here, checks, next) ==
  /\ here \in AfterSecondLock /\ next \in AfterSecondLock
  /\ \A l \in Locks : next \in After(l) => here \in After(l)
  /\ \A f \in Faults : next \in Cleared(f) =>
       here \in Cleared(f) \/ \E i \in DOMAIN checks : checks[i][1] = f
  /\ \E n \in Nat : DOMAIN checks = 1 .. n

\* A lock statement leads from one phase to the next; what counts as cleared
\* then is cleared already, but for the table it locks, which is there.
Locking(here, lock, next, gone) ==
  /\ here # "idle" /\ lock \in Locks /\ next \in Phases \cap AfterFirstLock
  /\ \A l \in Locks \ {lock} : next \in After(l) => here \in After(l)
  /\ \A f \in Faults \ gone : next \in Cleared(f) => here \in Cleared(f)

\* The checks are those that follow the first p of the promise, and what these
\* look for is cleared already, or overlooked, or looked for again first.
Resumes(here, checks, p) ==
  /\ p \in Nat
  /\ \A i \in DOMAIN checks : /\ i + p \in DOMAIN Promise!Verdicts
                              /\ Promise!Verdicts[i + p] = checks[i]
                              /\ checks[i][2] \in Refusals
                              /\ checks[i][2] = "AlreadyManaged" => checks[i][1] = "managed"
  /\ \A j \in 1 .. p : \/ here \in Cleared(Promise!Verdicts[j][1])
                       \/ \A i \in DOMAIN checks :
                            Promise!Verdicts[j][1] \in Promise!Overlooked(i + p)
                       \/ 1 \in DOMAIN checks /\ Promise!Verdicts[j][1] = checks[1][1]

\* What the checks look for is cleared already.
Repeats(here, checks) == \A i \in DOMAIN checks : here \in Cleared(checks[i][1])

\* The phases after a lock are phases of a transaction.
LEMMA PhaseFacts ==
  /\ AfterFirstLock \subseteq Phases \ {"idle", "first_lock"}
  /\ AfterSecondLock \subseteq AfterFirstLock
  /\ \A lock \in Locks : After(lock) \subseteq AfterFirstLock
  /\ \A f \in Faults : Cleared(f) \subseteq AfterSecondLock
  /\ \A f \in Faults : GuardOf(f) \in Locks /\ Cleared(f) \subseteq After(GuardOf(f))
  /\ \A f \in Faults : "commit" \in Cleared(f)
<1> USE DEF Phases, AfterFirstLock, AfterSecondLock, AfterOwnerAndAcl, AfterAuditPublication,
        AfterPlatformPublication, AfterUnmanaged, AfterLedgerKind, AfterPlatformOwner,
        AfterLedgerLock, AfterLedgerShape, AfterLedgerOwner, AfterHistory, AfterInventory,
        AfterEventsLock
<1>1. AfterFirstLock \subseteq Phases \ {"idle", "first_lock"} /\ AfterSecondLock \subseteq AfterFirstLock
  OBVIOUS
<1>2. \A lock \in Locks : After(lock) \subseteq AfterFirstLock
  BY DEF Locks, After
<1>3. \A f \in Faults : Cleared(f) \subseteq AfterSecondLock
  BY DEF Faults, Cleared
<1>4. \A f \in Faults : GuardOf(f) \in Locks /\ Cleared(f) \subseteq After(GuardOf(f))
  BY DEF Faults, GuardOf, Locks, After, Cleared
<1>5. \A f \in Faults : "commit" \in Cleared(f)
  BY DEF Faults, Cleared
<1> QED
  BY <1>1, <1>2, <1>3, <1>4, <1>5

\* A check that finds nothing passes.
LEMMA NothingFoundPasses ==
  ASSUME TypeOK, NEW a \in Adopters, NEW here, NEW checks, NEW next,
         Checks(here, checks, next), Verify(a, here, checks, next),
         \A i \in DOMAIN checks : checks[i][1] \notin faults
  PROVE  Passes(a)
<1>1. /\ pc[a] = here
      /\ Advance(a, next)
      /\ UNCHANGED <<faults, held, outcome, job, got>>
  BY DEF Verify
<1>2. /\ here \in AfterFirstLock /\ here # "idle"
      /\ next \in AfterFirstLock /\ next # "idle" /\ next \in Phases
  BY PhaseFacts DEF Checks
<1>3. \A f \in faults : next \in Cleared(f) => here \in Cleared(f)
  BY DEF Checks, TypeOK
<1> QED
  BY <1>1, <1>2, <1>3 DEF Passes, Checks

\* A check either passes or ends the transaction, with the answer that the
\* whole list of checks gives on the database as it is now.
LEMMA VerifyPassesOrEnds ==
  ASSUME TypeOK, VerifiedStaysTrue, NEW a \in Adopters, NEW here, NEW checks, NEW next, NEW p,
         Checks(here, checks, next), Resumes(here, checks, p), Verify(a, here, checks, next)
  PROVE  Passes(a) \/ Ends(a)
<1> DEFINE found == {i \in DOMAIN checks : checks[i][1] \in faults}
<1>1. CASE found = {}
  BY <1>1, NothingFoundPasses
<1>2. CASE found # {}
  <2>1. /\ pc[a] = here /\ here # "idle"
        /\ UNCHANGED <<faults, job, got>>
    BY PhaseFacts DEF Verify, Checks
  <2>2. PICK i \in found : (\A j \in found : i <= j) /\ End(a, checks[i][2])
    BY <1>2 DEF Verify
  <2>3. \A j \in DOMAIN checks : j < i => checks[j][1] \notin faults
    BY <2>2 DEF Checks
  <2>4. /\ i \in Nat \ {0} /\ p \in Nat /\ i + p \in DOMAIN Promise!Verdicts
        /\ Promise!Verdicts[i + p] = checks[i]
    BY DEF Checks, Resumes
  <2>5. ASSUME NEW j \in 1 .. i + p - 1, Promise!Verdicts[j][1] \in faults
        PROVE  Promise!Verdicts[j][1] \in Promise!Overlooked(i + p)
    <3>1. CASE j <= p
      <4>1. here \notin Cleared(Promise!Verdicts[j][1])
        BY <2>1, <2>5 DEF VerifiedStaysTrue
      <4>2. CASE 1 \in DOMAIN checks /\ Promise!Verdicts[j][1] = checks[1][1]
        <5>1. i = 1
          BY <2>3, <2>4, <2>5, <4>2
        <5> QED
          BY <2>4, <4>2, <5>1 DEF Promise!Overlooked
      <4>3. CASE \A k \in DOMAIN checks : Promise!Verdicts[j][1] \in Promise!Overlooked(k + p)
        BY <4>3
      <4> QED
        BY <2>4, <3>1, <4>1, <4>2, <4>3 DEF Resumes
    <3>2. CASE j > p
      <4>1. j - p \in Nat \ {0} /\ j - p < i /\ (j - p) + p = j
        BY <2>4, <3>2
      <4>2. j - p \in DOMAIN checks
        BY <2>4, <4>1 DEF Checks
      <4> QED
        BY <2>3, <2>5, <4>1, <4>2 DEF Resumes
    <3> QED
      BY <2>4, <3>1, <3>2
  <2>6. FirstFault(checks[i][2])
    BY <2>4, <2>5 DEF FirstFault
  <2>7. /\ checks[i][2] \in Refusals
        /\ checks[i][2] = "AlreadyManaged" => "managed" \in faults
    BY DEF Resumes
  <2> QED
    BY <2>1, <2>2, <2>6, <2>7 DEF Ends
<1> QED
  BY <1>1, <1>2

\* A check that is repeated under the locks of the first one always passes.
LEMMA RepeatedCheckFindsNothing ==
  ASSUME TypeOK, VerifiedStaysTrue, NEW a \in Adopters, NEW here, NEW checks, NEW next,
         Checks(here, checks, next), Repeats(here, checks), Verify(a, here, checks, next)
  PROVE  Passes(a)
BY NothingFoundPasses DEF Verify, Repeats, VerifiedStaysTrue

\* The second look at publications and at the ledger, the creation of the
\* ledger and the look at its privileges repeat checks.
LEMMA RepeatedChecksPass ==
  ASSUME TypeOK, VerifiedStaysTrue, NEW a \in Adopters,
         \/ RecheckPublication(a) \/ RecheckManagedSchema(a)
         \/ CreateManagedLedger(a) \/ VerifyTableOwnerAndAcl(a)
  PROVE  Passes(a)
<1> USE DEF Phases, AfterFirstLock, AfterSecondLock, AfterOwnerAndAcl, AfterAuditPublication,
        AfterPlatformPublication, AfterUnmanaged, AfterLedgerKind, AfterPlatformOwner,
        AfterLedgerLock, AfterLedgerShape, AfterLedgerOwner, AfterHistory, AfterInventory,
        AfterEventsLock,
        Faults, Locks, Refusals, After, Cleared, Checks
<1>1. CASE RecheckPublication(a)
  <2> DEFINE first == << <<"audit_published", "SchemaShapeDiverged">> >>
             second == << <<"platform_published", "LegacyLedgerDiverged">> >>
  <2>1. Checks("audit_publication_again", first, "platform_publication_again")
    OBVIOUS
  <2>2. Repeats("audit_publication_again", first)
    BY DEF Repeats
  <2>3. Checks("platform_publication_again", second, "unmanaged_again")
    OBVIOUS
  <2>4. Repeats("platform_publication_again", second)
    BY DEF Repeats
  <2> HIDE DEF Checks
  <2> QED
    BY <1>1, <2>1, <2>2, <2>3, <2>4, RepeatedCheckFindsNothing DEF RecheckPublication
<1>2. CASE RecheckManagedSchema(a)
  <2> DEFINE checks == << <<"managed", "AlreadyManaged">> >>
  <2>1. Checks("unmanaged_again", checks, "create_ledger")
    OBVIOUS
  <2>2. Repeats("unmanaged_again", checks)
    BY DEF Repeats
  <2> HIDE DEF Checks
  <2> QED
    BY <1>2, <2>1, <2>2, RepeatedCheckFindsNothing DEF RecheckManagedSchema
<1>3. CASE CreateManagedLedger(a)
  <2> DEFINE checks == << <<"managed", "Database">> >>
  <2>1. Checks("create_ledger", checks, "ledger_acl")
    OBVIOUS
  <2>2. Repeats("create_ledger", checks)
    BY DEF Repeats
  <2> HIDE DEF Checks
  <2> QED
    BY <1>3, <2>1, <2>2, RepeatedCheckFindsNothing DEF CreateManagedLedger
<1>4. CASE VerifyTableOwnerAndAcl(a)
  <2> DEFINE checks == << <<"over_granted", "UnexpectedPrivileges">> >>
  <2>1. Checks("ledger_acl", checks, "record")
    OBVIOUS
  <2>2. Repeats("ledger_acl", checks)
    BY DEF Repeats
  <2> HIDE DEF Checks
  <2> QED
    BY <1>4, <2>1, <2>2, RepeatedCheckFindsNothing DEF VerifyTableOwnerAndAcl
<1> QED
  BY <1>1, <1>2, <1>3, <1>4

\* A statement that is granted a lock.
LEMMA LockTaken ==
  ASSUME TypeOK, NEW a \in Adopters, NEW here, NEW lock, NEW next, NEW gone,
         Locking(here, lock, next, gone), gone \cap faults = {},
         LockThen(a, here, lock, ModeOf(lock), next)
  PROVE  Takes(a)
<1>1. \A f \in faults : next \in Cleared(f) => here \in Cleared(f)
  BY DEF Locking, TypeOK
<1>2. /\ pc[a] = here
      /\ Take(a, lock, ModeOf(lock))
      /\ Advance(a, next)
      /\ UNCHANGED <<faults, outcome, job, got>>
  BY DEF LockThen
<1> QED
  BY <1>1, <1>2 DEF Locking, Takes

\* A statement that fails ends the transaction.
LEMMA FailEnds ==
  ASSUME NEW a \in Adopters, Fail(a)
  PROVE  Ends(a)
BY DEF Fail, Ends

\* Every statement of an adoption is of one of these kinds, or its commit.
LEMMA StatementKinds ==
  ASSUME TypeOK, VerifiedStaysTrue, NEW a \in Adopters, Statement(a)
  PROVE  Takes(a) \/ Passes(a) \/ Ends(a) \/ Commit(a)
<1> USE DEF Phases, AfterFirstLock, AfterSecondLock, AfterOwnerAndAcl, AfterAuditPublication,
        AfterPlatformPublication, AfterUnmanaged, AfterLedgerKind, AfterPlatformOwner,
        AfterLedgerLock, AfterLedgerShape, AfterLedgerOwner, AfterHistory, AfterInventory,
        AfterEventsLock,
        Faults, Locks, Refusals, After, Cleared, Checks
<1>1. ASSUME AcquireFirstLock(a) \/ AcquireSecondLock(a) \/ LockLegacyLedger(a) \/ LockAuditTable(a)
      PROVE  Takes(a) \/ Ends(a)
  <2>1. CASE AcquireFirstLock(a)
    <3>1. Locking("first_lock", "maintenance", "second_lock", {})
      BY DEF Locking
    <3> HIDE DEF Phases, AfterFirstLock, Faults, Locks, After, Cleared
    <3>2. LockThen(a, "first_lock", "maintenance", ModeOf("maintenance"), "second_lock")
      BY <2>1 DEF AcquireFirstLock, AdvisoryOrder, ModeOf
    <3> QED
      BY <3>1, <3>2, LockTaken
  <2>2. CASE AcquireSecondLock(a)
    <3>1. Locking("second_lock", "schema", "owner_and_acl", {})
      BY DEF Locking
    <3> HIDE DEF Phases, AfterFirstLock, Faults, Locks, After, Cleared
    <3>2. LockThen(a, "second_lock", "schema", ModeOf("schema"), "owner_and_acl")
      BY <2>2 DEF AcquireSecondLock, AdvisoryOrder, ModeOf
    <3> QED
      BY <3>1, <3>2, LockTaken
  <2>3. CASE LockLegacyLedger(a)
    <3>1. Locking("ledger_lock", "ledger", "ledger_shape", {"ledger_missing"})
      BY DEF Locking
    <3> HIDE DEF Phases, AfterFirstLock, Faults, Locks, After, Cleared
    <3>2. CASE "ledger_missing" \notin faults /\ LockThen(a, "ledger_lock", "ledger", ModeOf("ledger"), "ledger_shape")
      BY <3>1, <3>2, LockTaken
    <3> QED
      BY <2>3, <3>2, FailEnds DEF LockLegacyLedger, ModeOf
  <2>4. CASE LockAuditTable(a)
    <3>1. Locking("events_lock", "events", "events_shape", {"events_missing"})
      BY DEF Locking
    <3> HIDE DEF Phases, AfterFirstLock, Faults, Locks, After, Cleared
    <3>2. CASE "events_missing" \notin faults /\ LockThen(a, "events_lock", "events", ModeOf("events"), "events_shape")
      BY <3>1, <3>2, LockTaken
    <3> QED
      BY <2>4, <3>2, FailEnds DEF LockAuditTable, ModeOf
  <2> QED
    BY <1>1, <2>1, <2>2, <2>3, <2>4
<1>2. CASE VerifySchemaOwnerAndAcl(a)
  <2> DEFINE checks ==
    << <<"missing", "MissingOwnedSchema">>, <<"foreign_owner", "OwnershipMismatch">>,
       <<"over_granted", "UnexpectedPrivileges">>, <<"commented", "SchemaShapeDiverged">> >>
  <2>1. Checks("owner_and_acl", checks, "audit_publication")
    OBVIOUS
  <2>2. Resumes("owner_and_acl", checks, 0)
    BY DEF Resumes, Promise!Verdicts
  <2> HIDE DEF Checks
  <2> QED
    BY <1>2, <2>1, <2>2, VerifyPassesOrEnds DEF VerifySchemaOwnerAndAcl
<1>3. CASE RefusePublication(a)
  <2> DEFINE first == << <<"audit_published", "SchemaShapeDiverged">> >>
             second == << <<"platform_published", "LegacyLedgerDiverged">> >>
  <2>1. Checks("audit_publication", first, "platform_publication")
    OBVIOUS
  <2>2. Resumes("audit_publication", first, 4)
    BY DEF Resumes, Promise!Verdicts
  <2>3. Checks("platform_publication", second, "unmanaged")
    OBVIOUS
  <2>4. Resumes("platform_publication", second, 5)
    BY DEF Resumes, Promise!Verdicts
  <2> HIDE DEF Checks
  <2> QED
    BY <1>3, <2>1, <2>2, <2>3, <2>4, VerifyPassesOrEnds DEF RefusePublication
<1>4. CASE RefuseManagedSchema(a)
  <2> DEFINE checks == << <<"managed", "AlreadyManaged">> >>
  <2>1. Checks("unmanaged", checks, "ledger_kind")
    OBVIOUS
  <2>2. Resumes("unmanaged", checks, 6)
    BY DEF Resumes, Promise!Verdicts
  <2> HIDE DEF Checks
  <2> QED
    BY <1>4, <2>1, <2>2, VerifyPassesOrEnds DEF RefuseManagedSchema
<1>5. CASE InspectLegacyLedger(a)
  <2> DEFINE first ==
               << <<"ledger_missing", "LegacyLedgerMissing">>,
                  <<"ledger_replaced", "LegacyLedgerMissing">> >>
             second ==
               << <<"platform_missing", "MissingOwnedSchema">>,
                  <<"platform_foreign", "OwnershipMismatch">>,
                  <<"platform_granted", "UnexpectedPrivileges">>,
                  <<"platform_commented", "LegacyLedgerDiverged">> >>
  <2>1. Checks("ledger_kind", first, "platform_owner_and_acl")
    OBVIOUS
  <2>2. Resumes("ledger_kind", first, 7)
    BY DEF Resumes, Promise!Verdicts, Promise!Overlooked
  <2>3. Checks("platform_owner_and_acl", second, "ledger_lock")
    OBVIOUS
  <2>4. Resumes("platform_owner_and_acl", second, 9)
    BY DEF Resumes, Promise!Verdicts, Promise!Overlooked
  <2> HIDE DEF Checks
  <2> QED
    BY <1>5, <2>1, <2>2, <2>3, <2>4, VerifyPassesOrEnds DEF InspectLegacyLedger
<1>6. CASE VerifyLegacyLedger(a)
  <2> DEFINE first ==
               << <<"ledger_replaced", "LegacyLedgerDiverged">>,
                  <<"ledger_altered", "LegacyLedgerDiverged">> >>
             second ==
               << <<"ledger_foreign", "OwnershipMismatch">>,
                  <<"ledger_granted", "UnexpectedPrivileges">> >>
  <2>1. Checks("ledger_shape", first, "ledger_owner_and_acl")
    OBVIOUS
  <2>2. Resumes("ledger_shape", first, 13)
    BY DEF Resumes, Promise!Verdicts, Promise!Overlooked
  <2>3. Checks("ledger_owner_and_acl", second, "history")
    OBVIOUS
  <2>4. Resumes("ledger_owner_and_acl", second, 15)
    BY DEF Resumes, Promise!Verdicts, Promise!Overlooked
  <2> HIDE DEF Checks
  <2> QED
    BY <1>6, <2>1, <2>2, <2>3, <2>4, VerifyPassesOrEnds DEF VerifyLegacyLedger
<1>7. CASE VerifyLegacyHistory(a)
  <2> DEFINE checks ==
               << <<"history_diverged", "LegacyLedgerDiverged">> >>
  <2>1. Checks("history", checks, "inventory")
    OBVIOUS
  <2>2. Resumes("history", checks, 17)
    BY DEF Resumes, Promise!Verdicts, Promise!Overlooked
  <2> HIDE DEF Checks
  <2> QED
    BY <1>7, <2>1, <2>2, VerifyPassesOrEnds DEF VerifyLegacyHistory
<1>8. CASE VerifyInventory(a)
  <2> DEFINE checks ==
               << <<"extra_relation", "SchemaShapeDiverged">>,
                  <<"events_missing", "SchemaShapeDiverged">> >>
  <2>1. Checks("inventory", checks, "events_lock")
    OBVIOUS
  <2>2. Resumes("inventory", checks, 18)
    BY DEF Resumes, Promise!Verdicts, Promise!Overlooked
  <2> HIDE DEF Checks
  <2> QED
    BY <1>8, <2>1, <2>2, VerifyPassesOrEnds DEF VerifyInventory
<1>9. CASE VerifyAuditTable(a)
  <2> DEFINE first ==
               << <<"events_altered", "SchemaShapeDiverged">> >>
             second ==
               << <<"extra_object", "SchemaShapeDiverged">> >>
             third ==
               << <<"events_foreign", "OwnershipMismatch">>,
                  <<"events_granted", "UnexpectedPrivileges">> >>
  <2>1. Checks("events_shape", first, "extra_objects")
    OBVIOUS
  <2>2. Resumes("events_shape", first, 20)
    BY DEF Resumes, Promise!Verdicts, Promise!Overlooked
  <2>3. Checks("extra_objects", second, "events_owner_and_acl")
    OBVIOUS
  <2>4. Resumes("extra_objects", second, 21)
    BY DEF Resumes, Promise!Verdicts, Promise!Overlooked
  <2>5. Checks("events_owner_and_acl", third, "audit_publication_again")
    OBVIOUS
  <2>6. Resumes("events_owner_and_acl", third, 22)
    BY DEF Resumes, Promise!Verdicts, Promise!Overlooked
  <2> HIDE DEF Checks
  <2> QED
    BY <1>9, <2>1, <2>2, <2>3, <2>4, <2>5, <2>6, VerifyPassesOrEnds DEF VerifyAuditTable
<1>10. CASE RecheckPublication(a) \/ RecheckManagedSchema(a) \/ CreateManagedLedger(a)
             \/ VerifyTableOwnerAndAcl(a)
  BY <1>10, RepeatedChecksPass
<1>11. CASE RecordCurrentMigration(a)
  <2>1. \A f \in faults : "commit" \in Cleared(f) => "record" \in Cleared(f)
    BY DEF TypeOK
  <2>2. /\ pc[a] = "record" /\ "commit" \in Phases
        /\ Advance(a, "commit")
        /\ UNCHANGED <<faults, held, outcome, job, got>>
    BY <1>11 DEF RecordCurrentMigration
  <2>3. \A l \in Locks : "commit" \in After(l) => "record" \in After(l)
    OBVIOUS
  <2> HIDE DEF After, Cleared, Faults, Locks, Phases
  <2> QED
    BY <2>1, <2>2, <2>3 DEF Passes
<1> QED
  BY <1>1, <1>2, <1>3, <1>4, <1>5, <1>6, <1>7, <1>8, <1>9, <1>10, <1>11 DEF Statement

-----------------------------------------------------------------------------
(* The invariant is inductive. *)

\* The invariant holds before anybody has begun.
LEMMA InitIInv == Init => IInv
<1> SUFFICES ASSUME Init PROVE IInv
  OBVIOUS
<1>1. TypeOK
  BY AdoptionAssumption DEF Init, TypeOK, Phases
<1>2. \A a \in Adopters : pc[a] \notin AfterFirstLock
  BY PhaseFacts DEF Init
<1>3. AdoptersHold
  BY <1>2, PhaseFacts DEF Init, AdoptersHold
<1>4. VerifiedStaysTrue
  BY <1>1, <1>2, PhaseFacts DEF VerifiedStaysTrue, TypeOK
<1> QED
  BY <1>1, <1>3, <1>4 DEF Init, IInv, LocksExclude, SessionsHold, OutcomeIsTrue

\* A lock that is granted conflicts with none that is held.
LEMMA TakeExcludes ==
  ASSUME LocksExclude, NEW x, NEW lock, NEW mode, Take(x, lock, mode)
  PROVE  LocksExclude'
<1>1. \A m, n : Conflicts(m, n) <=> Conflicts(n, m)
  BY DEF Conflicts
<1> QED
  BY <1>1 DEF LocksExclude, Take, Grantable

\* An adopter that begins has no lock and has found nothing.
LEMMA BeginKeepsIInv ==
  ASSUME IInv, NEW a \in Adopters, BeginAdoption(a)
  PROVE  IInv'
<1> USE DEF IInv, TypeOK
<1>1. /\ pc[a] = "idle"
      /\ pc' = [pc EXCEPT ![a] = "first_lock"]
      /\ outcome' = [outcome EXCEPT ![a] = "running"]
      /\ UNCHANGED <<faults, held, job, got>>
  BY DEF BeginAdoption, Advance
<1>2. "first_lock" \in Phases \ AfterFirstLock /\ "idle" \notin AfterFirstLock
  BY PhaseFacts DEF Phases
<1>3. TypeOK'
  BY <1>1, <1>2, AdoptionAssumption
<1>4. AdoptersHold'
  BY <1>1, <1>2, PhaseFacts DEF AdoptersHold
<1>5. VerifiedStaysTrue'
  BY <1>1, <1>2, PhaseFacts DEF VerifiedStaysTrue
<1> QED
  BY <1>1, <1>3, <1>4, <1>5 DEF LocksExclude, SessionsHold, OutcomeIsTrue

\* An adopter that takes a lock.
LEMMA TakesKeepIInv ==
  ASSUME IInv, NEW a \in Adopters, Takes(a)
  PROVE  IInv'
<1>1. PICK lock \in Locks, next \in Phases :
        /\ pc[a] # "idle" /\ next \in AfterFirstLock
        /\ \A l \in Locks \ {lock} : next \in After(l) => pc[a] \in After(l)
        /\ \A f \in faults : next \in Cleared(f) => pc[a] \in Cleared(f)
        /\ Take(a, lock, ModeOf(lock))
        /\ pc' = [pc EXCEPT ![a] = next]
        /\ UNCHANGED <<faults, outcome, job, got>>
  BY DEF Takes, Advance
<1> USE DEF IInv, TypeOK
<1> DEFINE taken == [lock |-> lock, by |-> a, mode |-> ModeOf(lock)]
<1>2. held' = held \cup {taken} /\ a \notin Sessions /\ next # "idle"
  BY <1>1, PhaseFacts, AdoptionAssumption DEF Take
<1>3. TypeOK'
  BY <1>1, <1>2 DEF ModeOf, Modes, Actors
<1>4. LocksExclude'
  BY <1>1, TakeExcludes
<1>5. AdoptersHold'
  BY <1>1, <1>2 DEF AdoptersHold
<1>6. SessionsHold'
  BY <1>1, <1>2 DEF SessionsHold
<1>7. VerifiedStaysTrue'
  BY <1>1 DEF VerifiedStaysTrue
<1>8. OutcomeIsTrue'
  BY <1>1 DEF OutcomeIsTrue
<1> QED
  BY <1>3, <1>4, <1>5, <1>6, <1>7, <1>8

\* An adopter whose check passes.
LEMMA PassesKeepIInv ==
  ASSUME IInv, NEW a \in Adopters, Passes(a)
  PROVE  IInv'
<1> USE DEF IInv, TypeOK
<1>1. PICK next \in Phases :
        /\ pc[a] # "idle" /\ next # "idle"
        /\ pc[a] \in AfterFirstLock => next \in AfterFirstLock
        /\ \A l \in Locks : next \in After(l) => pc[a] \in After(l)
        /\ \A f \in faults : next \in Cleared(f) => pc[a] \in Cleared(f)
        /\ pc' = [pc EXCEPT ![a] = next]
        /\ UNCHANGED <<faults, held, outcome, job, got>>
  BY DEF Passes, Advance
<1>2. TypeOK'
  BY <1>1
<1>3. AdoptersHold'
  BY <1>1 DEF AdoptersHold
<1>4. VerifiedStaysTrue'
  BY <1>1 DEF VerifiedStaysTrue
<1> QED
  BY <1>1, <1>2, <1>3, <1>4 DEF LocksExclude, SessionsHold, OutcomeIsTrue

\* A transaction that ends gives its locks back, and nobody else's.
LEMMA EndKeepsLocks ==
  ASSUME IInv, NEW a \in Adopters, NEW answer, End(a, answer), UNCHANGED <<job, got>>
  PROVE  LocksExclude' /\ AdoptersHold' /\ SessionsHold'
<1> USE DEF IInv, TypeOK
<1>1. /\ pc' = [pc EXCEPT ![a] = "idle"]
      /\ held' = {h \in held : h.by # a}
      /\ a \notin Sessions
  BY AdoptionAssumption DEF End, Release
<1>2. \A lock \in Locks : "idle" \notin After(lock)
  BY PhaseFacts
<1>3. AdoptersHold'
  BY <1>1, <1>2 DEF AdoptersHold
<1>4. SessionsHold'
  BY <1>1 DEF SessionsHold
<1> QED
  BY <1>1, <1>3, <1>4 DEF LocksExclude

\* An adoption that ends without having committed.
LEMMA EndsKeepIInv ==
  ASSUME IInv, NEW a \in Adopters, Ends(a)
  PROVE  IInv'
<1> USE DEF IInv, TypeOK
<1>1. PICK answer \in Refusals \cup {"Database"} :
        /\ answer = "AlreadyManaged" => "managed" \in faults
        /\ End(a, answer)
        /\ UNCHANGED <<faults, job, got>>
  BY DEF Ends
<1>2. /\ pc' = [pc EXCEPT ![a] = "idle"]
      /\ outcome' = [outcome EXCEPT ![a] = answer]
      /\ held' = {h \in held : h.by # a}
  BY <1>1 DEF End, Release
<1>3. TypeOK'
  BY <1>1, <1>2 DEF Refusals, Phases
<1>4. VerifiedStaysTrue'
  BY <1>1, <1>2, PhaseFacts DEF VerifiedStaysTrue
<1>5. OutcomeIsTrue'
  BY <1>1, <1>2 DEF OutcomeIsTrue, Refusals
<1> QED
  BY <1>1, <1>3, <1>4, <1>5, EndKeepsLocks

\* Whoever holds the maintenance lock exclusively holds it alone.
LEMMA MaintenanceIsExclusive ==
  ASSUME LocksExclude, AdoptersHold, NEW a \in Adopters, NEW b \in Adopters,
         pc[a] \in AfterFirstLock, pc[b] \in AfterFirstLock
  PROVE  a = b
<1>1. \A x \in {a, b} : [lock |-> "maintenance", by |-> x, mode |-> "exclusive"] \in held
  BY DEF AdoptersHold, After, ModeOf, Locks
<1> QED
  BY <1>1 DEF LocksExclude, Conflicts

\* The commit of an adoption: no other adopter has found the schema unmanaged,
\* for all that have looked hold the maintenance lock.
LEMMA CommitKeepsIInv ==
  ASSUME IInv, NEW a \in Adopters, Commit(a)
  PROVE  IInv'
<1> USE DEF IInv, TypeOK
<1>1. PICK answer \in {"Adopted", "Database"} : End(a, answer)
  BY DEF Commit
<1>2. /\ pc[a] = "commit"
      /\ faults' = faults \cup {"managed"}
      /\ pc' = [pc EXCEPT ![a] = "idle"]
      /\ outcome' = [outcome EXCEPT ![a] = answer]
      /\ held' = {h \in held : h.by # a}
      /\ UNCHANGED <<job, got>>
  BY <1>1 DEF Commit, End, Release
<1>3. TypeOK'
  BY <1>2 DEF Faults, Phases
<1>4. VerifiedStaysTrue'
  <2>1. pc[a] \in AfterFirstLock
    BY <1>2, PhaseFacts DEF Faults
  <2>2. \A b \in Adopters \ {a} : pc[b] \notin Cleared("managed")
    BY <2>1, PhaseFacts, MaintenanceIsExclusive DEF Faults
  <2>3. \A f \in Faults : "idle" \notin Cleared(f)
    BY PhaseFacts
  <2> QED
    BY <1>2, <1>3, <2>2, <2>3 DEF VerifiedStaysTrue
<1>5. OutcomeIsTrue'
  BY <1>2 DEF OutcomeIsTrue
<1> QED
  BY <1>1, <1>2, <1>3, <1>4, <1>5, EndKeepsLocks

-----------------------------------------------------------------------------
(* The other sessions. *)

\* The lock statements of a transaction.
LEMMA JobLocks ==
  ASSUME NEW j \in Jobs, NEW i \in 1 .. Len(j.locks)
  PROVE  j.locks[i][1] \in Locks /\ j.locks[i][2] \in Modes
BY AdoptionAssumption

\* A session begins its transaction, and has no lock yet.
LEMMA BeginJobKeepsIInv ==
  ASSUME IInv, NEW s \in Sessions, NEW j \in Jobs, BeginJob(s, j)
  PROVE  IInv'
<1> USE DEF IInv, TypeOK
<1>1. /\ job[s] = None /\ got[s] = 0
      /\ job' = [job EXCEPT ![s] = j]
      /\ UNCHANGED <<faults, held, pc, outcome, got>>
  BY DEF BeginJob
<1>2. j # None /\ Len(j.locks) \in Nat
  BY AdoptionAssumption
<1>3. TypeOK'
  BY <1>1, <1>2
<1>4. SessionsHold'
  BY <1>1, <1>2 DEF SessionsHold
<1> QED
  BY <1>1, <1>3, <1>4 DEF LocksExclude, AdoptersHold, VerifiedStaysTrue, OutcomeIsTrue

\* It takes its next lock.
LEMMA LockForJobKeepsIInv ==
  ASSUME IInv, NEW s \in Sessions, LockForJob(s)
  PROVE  IInv'
<1> USE DEF IInv, TypeOK
<1> DEFINE n == got[s] + 1
           lock == job[s].locks[n][1]
           mode == job[s].locks[n][2]
<1>1. /\ job[s] # None /\ got[s] < Len(job[s].locks)
      /\ Take(s, lock, mode)
      /\ got' = [got EXCEPT ![s] = n]
      /\ UNCHANGED <<faults, pc, outcome, job>>
  BY DEF LockForJob
<1>2. job[s] \in Jobs /\ Len(job[s].locks) \in Nat /\ n \in 1 .. Len(job[s].locks)
  BY <1>1, AdoptionAssumption
<1>3. lock \in Locks /\ mode \in Modes
  BY <1>2, JobLocks
<1>4. held' = held \cup {[lock |-> lock, by |-> s, mode |-> mode]} /\ s \notin Adopters
  BY <1>1, AdoptionAssumption DEF Take
<1>5. TypeOK'
  BY <1>1, <1>2, <1>3, <1>4 DEF Actors
<1>6. LocksExclude'
  BY <1>1, TakeExcludes
<1>7. AdoptersHold'
  BY <1>1, <1>4 DEF AdoptersHold
<1>8. SessionsHold'
  BY <1>1, <1>2, <1>4 DEF SessionsHold
<1> QED
  BY <1>1, <1>5, <1>6, <1>7, <1>8 DEF VerifiedStaysTrue, OutcomeIsTrue

\* A transaction of a session that ends gives its locks back.
LEMMA EndJobKeepsLocks ==
  ASSUME IInv, NEW s \in Sessions, EndJob(s), UNCHANGED pc
  PROVE  LocksExclude' /\ AdoptersHold' /\ SessionsHold'
<1> USE DEF IInv, TypeOK
<1>1. /\ job' = [job EXCEPT ![s] = None]
      /\ got' = [got EXCEPT ![s] = 0]
      /\ held' = {h \in held : h.by # s}
      /\ s \notin Adopters
  BY AdoptionAssumption DEF EndJob, Release
<1>2. AdoptersHold'
  BY <1>1 DEF AdoptersHold
<1>3. SessionsHold'
  BY <1>1 DEF SessionsHold
<1> QED
  BY <1>1, <1>2, <1>3 DEF LocksExclude

\* It is rolled back.
LEMMA RollBackJobKeepsIInv ==
  ASSUME IInv, NEW s \in Sessions, RollBackJob(s)
  PROVE  IInv'
<1> USE DEF IInv, TypeOK
<1>1. /\ job' = [job EXCEPT ![s] = None]
      /\ got' = [got EXCEPT ![s] = 0]
      /\ held' = {h \in held : h.by # s}
      /\ UNCHANGED <<faults, pc, outcome>>
      /\ s \notin Adopters
  BY AdoptionAssumption DEF RollBackJob, EndJob, Release
<1>2. TypeOK'
  BY <1>1
<1> QED
  BY <1>1, <1>2, EndJobKeepsLocks DEF RollBackJob, VerifiedStaysTrue, OutcomeIsTrue

\* What a session breaks at its commit, no adopter has found absent: the
\* session holds the lock under which an adopter would have looked.
LEMMA BreaksNothingVerified ==
  ASSUME IInv, NEW s \in Sessions, job[s] # None, got[s] = Len(job[s].locks),
         NEW f \in job[s].breaks, NEW a \in Adopters
  PROVE  pc[a] \notin Cleared(f)
<1> USE DEF IInv, TypeOK
<1>1. job[s] \in Jobs /\ f \in Faults /\ a # s
  BY AdoptionAssumption
<1>2. DOMAIN job[s].locks = 1 .. got[s]
  BY <1>1, AdoptionAssumption
<1>3. SUFFICES ASSUME pc[a] \in Cleared(f) PROVE FALSE
  OBVIOUS
<1>4. CASE \E i \in DOMAIN job[s].locks : job[s].locks[i] = <<"maintenance", "exclusive">>
  <2>1. [lock |-> "maintenance", by |-> s, mode |-> "exclusive"] \in held
    BY <1>2, <1>4 DEF SessionsHold
  <2>2. pc[a] \in After("maintenance")
    BY <1>1, <1>3, PhaseFacts DEF After
  <2>3. [lock |-> "maintenance", by |-> a, mode |-> "exclusive"] \in held
    BY <2>2 DEF AdoptersHold, Locks, ModeOf
  <2> QED
    BY <1>1, <2>1, <2>3 DEF LocksExclude, Conflicts
<1>5. ASSUME NEW i \in DOMAIN job[s].locks,
             job[s].locks[i][1] = GuardOf(f),
             job[s].locks[i][2] \in {"row_exclusive", "exclusive"}
      PROVE  FALSE
  <2>1. [lock |-> GuardOf(f), by |-> s, mode |-> job[s].locks[i][2]] \in held
    BY <1>2, <1>5 DEF SessionsHold
  <2>2. [lock |-> GuardOf(f), by |-> a, mode |-> ModeOf(GuardOf(f))] \in held
    BY <1>1, <1>3, PhaseFacts DEF AdoptersHold
  <2> QED
    BY <1>1, <1>5, <2>1, <2>2 DEF LocksExclude, Conflicts, ModeOf
<1> QED
  BY <1>1, <1>4, <1>5, JobsFollowProtocol

\* It commits.
LEMMA CommitJobKeepsIInv ==
  ASSUME IInv, NEW s \in Sessions, CommitJob(s)
  PROVE  IInv'
<1> USE DEF IInv, TypeOK
<1>1. /\ job[s] # None
      /\ job' = [job EXCEPT ![s] = None]
      /\ got' = [got EXCEPT ![s] = 0]
      /\ held' = {h \in held : h.by # s}
      /\ faults' = (faults \ job[s].repairs) \cup job[s].breaks
      /\ UNCHANGED <<pc, outcome>>
      /\ s \notin Adopters
  BY AdoptionAssumption DEF CommitJob, EndJob, Release
<1>2. job[s].breaks \cup job[s].repairs \subseteq Faults \ {"managed", "missing"}
  BY <1>1, AdoptionAssumption
<1>3. TypeOK'
  BY <1>1, <1>2
<1>4. VerifiedStaysTrue'
  BY <1>1, BreaksNothingVerified DEF CommitJob, VerifiedStaysTrue
<1>5. OutcomeIsTrue'
  BY <1>1, <1>2 DEF OutcomeIsTrue
<1> QED
  BY <1>1, <1>3, <1>4, <1>5, EndJobKeepsLocks DEF CommitJob

\* setup creates a managed schema only where there is none, and nobody has
\* found a schema that is not there.
LEMMA SetupKeepsIInv ==
  ASSUME IInv, Setup
  PROVE  IInv'
<1> USE DEF IInv, TypeOK
<1>1. /\ "missing" \in faults
      /\ faults' = (faults \ {"missing", "events_missing"}) \cup {"managed"}
      /\ UNCHANGED <<held, pc, outcome, job, got>>
  BY DEF Setup
<1>2. Cleared("managed") \subseteq Cleared("missing")
  BY DEF Cleared, AfterUnmanaged, AfterPlatformPublication, AfterAuditPublication, AfterOwnerAndAcl
<1>3. TypeOK'
  BY <1>1 DEF Faults
<1>4. VerifiedStaysTrue'
  BY <1>1, <1>2 DEF VerifiedStaysTrue
<1> QED
  BY <1>1, <1>3, <1>4 DEF LocksExclude, AdoptersHold, SessionsHold, OutcomeIsTrue

\* Every step, and every stuttering step, preserves the invariant.
LEMMA IInvStep == IInv /\ [Next]_vars => IInv'
<1> SUFFICES ASSUME IInv, [Next]_vars PROVE IInv'
  OBVIOUS
<1>1. ASSUME NEW a \in Adopters, BeginAdoption(a) PROVE IInv'
  BY <1>1, BeginKeepsIInv
<1>2. ASSUME NEW a \in Adopters, Statement(a) PROVE IInv'
  <2>1. Takes(a) \/ Passes(a) \/ Ends(a) \/ Commit(a)
    BY <1>2, StatementKinds DEF IInv
  <2> QED
    BY <2>1, TakesKeepIInv, PassesKeepIInv, EndsKeepIInv, CommitKeepsIInv
<1>3. ASSUME NEW a \in Adopters, Fail(a) PROVE IInv'
  BY <1>3, FailEnds, EndsKeepIInv
<1>4. ASSUME NEW s \in Sessions, NEW j \in Jobs, BeginJob(s, j) PROVE IInv'
  BY <1>4, BeginJobKeepsIInv
<1>5. ASSUME NEW s \in Sessions, LockForJob(s) PROVE IInv'
  BY <1>5, LockForJobKeepsIInv
<1>6. ASSUME NEW s \in Sessions, CommitJob(s) PROVE IInv'
  BY <1>6, CommitJobKeepsIInv
<1>7. ASSUME NEW s \in Sessions, RollBackJob(s) PROVE IInv'
  BY <1>7, RollBackJobKeepsIInv
<1>8. CASE Setup
  BY <1>8, SetupKeepsIInv
<1>9. CASE UNCHANGED vars
  BY <1>9 DEF vars, IInv, TypeOK, LocksExclude, AdoptersHold, SessionsHold, VerifiedStaysTrue,
              OutcomeIsTrue
<1> QED
  BY <1>1, <1>2, <1>3, <1>4, <1>5, <1>6, <1>7, <1>8, <1>9 DEF Next

\* The inductive invariant holds in every reachable state.
THEOREM Invariant == Spec => []IInv
  BY InitIInv, IInvStep, PTL DEF Spec

-----------------------------------------------------------------------------
(* What follows. *)

\* Types, and outside a transaction nobody holds a lock.
THEOREM TypeCorrect == Spec => []TypeOK
<1>1. IInv => TypeOK
  BY DEF IInv
<1> QED
  BY <1>1, Invariant, PTL

\* "Adopted" and "AlreadyManaged" are never told of a database without a
\* ledger, then or later.
THEOREM OutcomesAreTrue == Spec => []OutcomeIsTrue
<1>1. IInv => OutcomeIsTrue
  BY DEF IInv
<1> QED
  BY <1>1, Invariant, PTL

\* No two adopters are past their last look for a ledger, and whoever is past
\* it is on a database that has none.
THEOREM AdoptedAtMostOnce == Spec => []AdoptedOnce
<1>1. ASSUME IInv PROVE AdoptedOnce
  <2> DEFINE Late == {"ledger_acl", "record", "commit"}
  <2>1. Late \subseteq AfterFirstLock /\ Late \subseteq Cleared("managed")
    BY DEF Cleared, AfterFirstLock, AfterSecondLock, AfterOwnerAndAcl, AfterAuditPublication,
           AfterPlatformPublication, AfterUnmanaged, AfterLedgerKind, AfterPlatformOwner,
           AfterLedgerLock, AfterLedgerShape, AfterLedgerOwner, AfterHistory, AfterInventory,
           AfterEventsLock
  <2>2. ASSUME NEW a \in Adopters, pc[a] \in Late PROVE "managed" \notin faults
    BY <1>1, <2>1, <2>2 DEF IInv, VerifiedStaysTrue
  <2>3. ASSUME NEW a \in Adopters, pc[a] \in Late, NEW b \in Adopters \ {a} PROVE pc[b] \notin Late
    BY <1>1, <2>1, <2>3, MaintenanceIsExclusive DEF IInv
  <2> QED
    BY <2>2, <2>3 DEF AdoptedOnce
<1> QED
  BY <1>1, Invariant, PTL

\* Whoever holds a lock although all its deadlock partners follow the protocol
\* holds the maintenance lock exclusively; there is one such actor at most, so
\* nobody in the deadlock can block it.
THEOREM ParticipantsAreDeadlockFree == Spec => []ParticipantsNeverDeadlock
<1>1. ASSUME IInv PROVE ParticipantsNeverDeadlock
  <2> USE <1>1 DEF IInv
  <2> SUFFICES ASSUME NEW D \in SUBSET Actors, Deadlocked(D),
                      \A s \in D \cap Sessions : job[s].locks[1] = <<"maintenance", "exclusive">>
               PROVE  FALSE
    BY DEF ParticipantsNeverDeadlock
  <2>1. ASSUME NEW x \in D, NEW y \in D, Blocks(y, x)
        PROVE  [lock |-> "maintenance", by |-> y, mode |-> "exclusive"] \in held /\ y # x
    <3>1. y # x /\ \E h \in held : h.by = y
      BY <2>1 DEF Blocks
    <3>2. CASE y \in Adopters
      BY <3>1, <3>2 DEF AdoptersHold, After, ModeOf, Locks
    <3>3. CASE y \in Sessions
      <4>1. got[y] > 0 /\ job[y] # None /\ got[y] \in Nat
        BY <3>1, <3>3, AdoptionAssumption DEF SessionsHold, TypeOK
      <4>2. 1 \in 1 .. got[y]
        BY <4>1
      <4> QED
        BY <3>1, <3>3, <4>1, <4>2 DEF SessionsHold
    <3> QED
      BY <3>1, <3>2, <3>3 DEF Actors
  <2>2. PICK x \in D : TRUE
    BY DEF Deadlocked
  <2>3. PICK y \in D : Blocks(y, x)
    BY DEF Deadlocked
  <2>4. PICK z \in D : Blocks(z, y)
    BY DEF Deadlocked
  <2> QED
    BY <2>1, <2>3, <2>4 DEF LocksExclude, Conflicts
<1> QED
  BY <1>1, Invariant, PTL

\* An adopter about to commit has found every fault absent, and each is absent
\* still.
LEMMA NothingIsWrongAtCommit ==
  ASSUME IInv, NEW a \in Adopters, pc[a] = "commit"
  PROVE  faults = {}
BY PhaseFacts DEF IInv, TypeOK, VerifiedStaysTrue

\* The database an adoption takes over is exactly the one the legacy package
\* left, at the moment of the commit, whatever other sessions did meanwhile.
THEOREM AdoptionsAreExact == Spec => AdoptionIsExact
<1>1. IInv => [\A a \in Adopters :
                 pc[a] = "commit" /\ pc'[a] = "idle" /\ "managed" \in faults' \ faults
                   => faults = {}]_vars
  BY NothingIsWrongAtCommit
<1> QED
  BY <1>1, Invariant, PTL DEF AdoptionIsExact

-----------------------------------------------------------------------------
(* LegacyAdoption implements AtomicAdoption. *)

\* The databases adoption may meet are the same.
LEMMA InitRefines == Init => Promise!Init
BY DEF Init, Promise!Init

\* A statement is invisible, refuses the database as it is, or adopts it.
LEMMA StatementRefines ==
  ASSUME IInv, NEW a \in Adopters, Statement(a)
  PROVE  [Promise!Next]_<<faults, outcome>>
<1> USE DEF IInv, TypeOK
<1>1. CASE Takes(a) \/ Passes(a)
  BY <1>1 DEF Takes, Passes
<1>2. CASE Ends(a)
  <2>1. PICK answer \in Refusals \cup {"Database"} :
          /\ pc[a] # "idle"
          /\ answer = "Database" \/ FirstFault(answer)
          /\ outcome' = [outcome EXCEPT ![a] = answer]
          /\ UNCHANGED faults
    BY <1>2 DEF Ends, End
  <2>2. Promise!Running(a)
    BY <2>1 DEF Promise!Running
  <2>3. CASE answer = "Database"
    BY <2>1, <2>2, <2>3 DEF Promise!Next, Promise!Fail, Promise!Tell
  <2>4. CASE FirstFault(answer)
    <3>1. Promise!Refuse(a)
      BY <2>1, <2>2, <2>4 DEF FirstFault, Promise!Refuse, Promise!Tell
    <3> QED
      BY <3>1 DEF Promise!Next
  <2> QED
    BY <2>1, <2>3, <2>4
<1>3. CASE Commit(a)
  <2>1. /\ faults = {}
        /\ faults' = faults \cup {"managed"}
        /\ \/ outcome' = [outcome EXCEPT ![a] = "Adopted"]
           \/ outcome' = [outcome EXCEPT ![a] = "Database"]
    BY <1>3, NothingIsWrongAtCommit DEF Commit, End
  <2>2. Promise!Running(a)
    BY <1>3 DEF Commit, Promise!Running
  <2>3. Promise!Adopt(a)
    BY <2>1, <2>2 DEF Promise!Adopt, Promise!Tell
  <2> QED
    BY <2>3 DEF Promise!Next
<1> QED
  BY <1>1, <1>2, <1>3, StatementKinds

\* Every other step is invisible, a commit of another session, or setup.
LEMMA StepRefines == IInv /\ [Next]_vars => [Promise!Next]_<<faults, outcome>>
<1> SUFFICES ASSUME IInv, [Next]_vars PROVE [Promise!Next]_<<faults, outcome>>
  OBVIOUS
<1> USE DEF IInv, TypeOK
<1>1. ASSUME NEW a \in Adopters, BeginAdoption(a) PROVE [Promise!Next]_<<faults, outcome>>
  BY <1>1 DEF BeginAdoption, Promise!Next, Promise!Begin, Promise!Running, Promise!Tell
<1>2. ASSUME NEW a \in Adopters, Statement(a) PROVE [Promise!Next]_<<faults, outcome>>
  BY <1>2, StatementRefines
<1>3. ASSUME NEW a \in Adopters, Fail(a) PROVE [Promise!Next]_<<faults, outcome>>
  BY <1>3 DEF Fail, End, Promise!Next, Promise!Fail, Promise!Running, Promise!Tell
<1>4. ASSUME NEW s \in Sessions, NEW j \in Jobs, BeginJob(s, j)
      PROVE  [Promise!Next]_<<faults, outcome>>
  BY <1>4 DEF BeginJob
<1>5. ASSUME NEW s \in Sessions, LockForJob(s) PROVE [Promise!Next]_<<faults, outcome>>
  BY <1>5 DEF LockForJob
<1>6. ASSUME NEW s \in Sessions, CommitJob(s) PROVE [Promise!Next]_<<faults, outcome>>
  <2>1. job[s] \in Jobs /\ Promise!Change(job[s])
    BY <1>6 DEF CommitJob, Promise!Change
  <2> QED
    BY <2>1 DEF Promise!Next
<1>7. ASSUME NEW s \in Sessions, RollBackJob(s) PROVE [Promise!Next]_<<faults, outcome>>
  BY <1>7 DEF RollBackJob
<1>8. CASE Setup
  BY <1>8 DEF Setup, Promise!Next, Promise!Setup
<1>9. CASE UNCHANGED vars
  BY <1>9 DEF vars
<1> QED
  BY <1>1, <1>2, <1>3, <1>4, <1>5, <1>6, <1>7, <1>8, <1>9 DEF Next

\* The twenty statements of an adoption are as good as one: whatever happens
\* between them, its effect and its answer are those of an adoption that reads
\* and takes over the database in one step.
THEOREM AdoptionIsAtomic == Spec => AdoptsAtomically
<1>1. Spec => Promise!Init /\ [][Promise!Next]_<<faults, outcome>>
  BY InitRefines, StepRefines, Invariant, PTL DEF Spec
<1> QED
  BY <1>1 DEF AdoptsAtomically, Promise!Spec, Promise!vars

\* Breaking a deadlock, which FairSpec asks for, is a step of the model: one
\* adoption fails or one transaction is rolled back.
LEMMA DeadlockVictimIsAStep ==
  ASSUME NEW x \in Actors, DeadlockVictim(x)
  PROVE  Next
BY DEF Actors, DeadlockVictim, Next

\* The repeated checks of publications and of the ledger, the CREATE TABLE and
\* the look at the new table's privileges never refuse what the first checks
\* let through: the locks see to that.
THEOREM RepeatedChecksNeverRefuse ==
  Spec => [][\A a \in Adopters :
               \/ RecheckPublication(a) \/ RecheckManagedSchema(a)
               \/ CreateManagedLedger(a) \/ VerifyTableOwnerAndAcl(a)
                 => pc'[a] # "idle"]_vars
<1>1. IInv => [\A a \in Adopters :
                 \/ RecheckPublication(a) \/ RecheckManagedSchema(a)
                 \/ CreateManagedLedger(a) \/ VerifyTableOwnerAndAcl(a)
                   => pc'[a] # "idle"]_vars
  <2> SUFFICES ASSUME IInv, NEW a \in Adopters,
                      \/ RecheckPublication(a) \/ RecheckManagedSchema(a)
                      \/ CreateManagedLedger(a) \/ VerifyTableOwnerAndAcl(a)
               PROVE  pc'[a] # "idle"
    OBVIOUS
  <2>1. Passes(a)
    BY RepeatedChecksPass DEF IInv
  <2> QED
    BY <2>1 DEF Passes, Advance, IInv, TypeOK
<1> QED
  BY <1>1, Invariant, PTL
=============================================================================
