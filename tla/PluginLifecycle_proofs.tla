----------------------- MODULE PluginLifecycle_proofs -----------------------
(***************************************************************************)
(* Proofs about PluginLifecycle, for any number of calls and pools and any *)
(* size of a pool.                                                         *)
(*                                                                         *)
(* The properties speak of the pool that is live and of a deactivation     *)
(* that has returned; whether they are kept depends on what becomes of the *)
(* pool prepare still holds and of the calls on pools that are not live.   *)
(***************************************************************************)
EXTENDS PluginLifecycle, FiniteSetTheorems, TLAPS

\* The pool prepare has opened is its own: no call, no check and no close has
\* seen it yet.
PreparedIsNew ==
  /\ prepare = "resolving" => opened < MaxPools
  /\ prepare = "verifying" => opened # NoPool /\ opened \notin verified \cup closed

\* A deactivation waits for a pool that was in service.
ClosingWasChecked == deactivate = "closing" => closing \in verified

\* A statement runs on the live pool, on one somebody gave up, or on the one a
\* deactivation waits for.  A call that waits may also wait for a closed pool:
\* that is all it will ever do with it.
CallsAreAccounted ==
  \A c \in Calls :
    /\ phase[c] = "running" => \/ pool[c] = live
                               \/ pool[c] \in strays
                               \/ deactivate = "closing" /\ pool[c] = closing
    /\ phase[c] = "waiting" => pool[c] = live \/ pool[c] \in strays \cup closed

IInv == TypeOK /\ LiveIsOpen /\ PreparedIsNew /\ ClosingWasChecked /\ CallsAreAccounted

-----------------------------------------------------------------------------
(* The connections in use. *)

\* The calls that run on a pool are finitely many.
LEMMA InUseFinite ==
  ASSUME NEW p
  PROVE  IsFiniteSet(InUse(p)) /\ Cardinality(InUse(p)) \in Nat
<1>1. InUse(p) \in SUBSET Calls
  BY DEF InUse
<1> QED
  BY <1>1, FS_Subset, FS_CardinalityType, LifecycleAssumption

\* Calls that stop running leave no pool with more connections in use.
LEMMA InUseShrinks ==
  ASSUME \A p \in Pools : Cardinality(InUse(p)) <= PoolSize,
         \A p \in Pools : InUse(p)' \subseteq InUse(p)
  PROVE  \A p \in Pools : Cardinality(InUse(p)') <= PoolSize
<1> TAKE p \in Pools
<1>1. InUse(p)' \in SUBSET InUse(p)
  OBVIOUS
<1>2. Cardinality(InUse(p)') <= Cardinality(InUse(p)) /\ IsFiniteSet(InUse(p)')
  BY <1>1, InUseFinite, FS_Subset
<1>3. Cardinality(InUse(p)') \in Nat
  BY <1>2, FS_CardinalityType
<1> QED
  BY <1>2, <1>3, InUseFinite, LifecycleAssumption

-----------------------------------------------------------------------------
(* The invariant. *)

LEMMA InitIInv == Init => IInv
<1> SUFFICES ASSUME Init PROVE IInv
  OBVIOUS
<1>1. \A p \in Pools : InUse(p) = {}
  BY DEF Init, InUse
<1>2. \A p \in Pools : Cardinality(InUse(p)) <= PoolSize
  BY <1>1, FS_EmptySet, LifecycleAssumption
<1>3. TypeOK
  BY <1>2, LifecycleAssumption DEF Init, TypeOK, NoPool
<1> QED
  BY <1>3 DEF Init, IInv, LiveIsOpen, PreparedIsNew, ClosingWasChecked, CallsAreAccounted, NoPool

\* What prepare does, up to the moment its pool is live.
LEMMA PrepareKeepsIInv ==
  ASSUME IInv, StartPrepare \/ OpenPool \/ VerifyAndInstall \/ PrepareFails \/ Publish
  PROVE  IInv'
<1> USE LifecycleAssumption DEF IInv, TypeOK, Pools, NoPool
<1>1. UNCHANGED callVars
  BY DEF StartPrepare, OpenPool, VerifyAndInstall, PrepareFails, Publish
<1>2. \A p \in Pools : InUse(p)' = InUse(p)
  BY <1>1 DEF callVars, InUse
<1>3. CASE StartPrepare
  BY <1>1, <1>2, <1>3
     DEF StartPrepare, callVars, LiveIsOpen, PreparedIsNew, ClosingWasChecked, CallsAreAccounted
<1>4. CASE OpenPool
  BY <1>1, <1>2, <1>4
     DEF OpenPool, callVars, LiveIsOpen, PreparedIsNew, ClosingWasChecked, CallsAreAccounted
<1>5. CASE VerifyAndInstall
  <2>1. CASE exposed
    <3>1. /\ closed' = closed \cup {opened}
          /\ prepare = "verifying" /\ prepare' = "idle"
          /\ UNCHANGED <<live, opened, exposed, verified, callVars, deactivate, closing, strays>>
      BY <1>5, <2>1 DEF VerifyAndInstall
    <3>2. opened \in 1 .. opened /\ opened \notin verified
      BY <3>1 DEF PreparedIsNew
    <3>3. TypeOK'
      BY <1>1, <1>2, <3>1, <3>2 DEF callVars
    <3>4. CallsAreAccounted'
      BY <1>1, <3>1 DEF callVars, CallsAreAccounted
    <3> QED
      BY <3>1, <3>2, <3>3, <3>4 DEF LiveIsOpen, PreparedIsNew, ClosingWasChecked
  <2>2. CASE ~ exposed
    <3>1. /\ verified' = verified \cup {opened}
          /\ live' = opened
          /\ strays' = IF live = NoPool THEN strays ELSE strays \cup {live}
          /\ prepare = "verifying" /\ prepare' = "idle"
          /\ UNCHANGED <<opened, closed, exposed, callVars, deactivate, closing>>
      BY <1>5, <2>2 DEF VerifyAndInstall
    <3>2. opened \in Pools /\ opened \notin verified \cup closed
      BY <3>1 DEF PreparedIsNew
    <3>3. strays' \subseteq verified'
      BY <3>1 DEF LiveIsOpen
    <3>4. TypeOK'
      BY <1>1, <1>2, <3>1, <3>2, <3>3 DEF callVars
    <3>5. CallsAreAccounted'
      BY <1>1, <3>1 DEF callVars, CallsAreAccounted
    <3> QED
      BY <3>1, <3>2, <3>4, <3>5 DEF LiveIsOpen, PreparedIsNew, ClosingWasChecked
  <2> QED
    BY <2>1, <2>2
<1>6. CASE PrepareFails
  BY <1>1, <1>2, <1>6
     DEF PrepareFails, callVars, LiveIsOpen, PreparedIsNew, ClosingWasChecked, CallsAreAccounted
<1>7. CASE Publish
  BY <1>1, <1>2, <1>7
     DEF Publish, callVars, LiveIsOpen, PreparedIsNew, ClosingWasChecked, CallsAreAccounted
<1> QED
  BY <1>3, <1>4, <1>5, <1>6, <1>7

\* A call clones the live handle; ends; or waits for its second connection.
LEMMA CallsKeepIInv ==
  ASSUME IInv, NEW c \in Calls,
         StartCall(c) \/ AcquireFails(c) \/ StatementEnds(c) \/ Cancel(c)
  PROVE  IInv'
<1> USE DEF IInv, TypeOK, Pools, NoPool
<1>1. UNCHANGED <<live, prepare, opened, closed, exposed, verified, deactivate, closing, strays>>
  BY DEF StartCall, AcquireFails, StatementEnds, Cancel
<1>2. CASE phase[c] = "idle" /\ live # NoPool /\ phase' = [phase EXCEPT ![c] = "waiting"]
            /\ pool' = [pool EXCEPT ![c] = live] /\ UNCHANGED statement
  <2>1. \A p \in Pools : InUse(p)' \subseteq InUse(p)
    BY <1>2 DEF InUse
  <2>2. \A p \in Pools : Cardinality(InUse(p)') <= PoolSize
    BY <2>1, InUseShrinks
  <2>3. TypeOK'
    BY <1>1, <1>2, <2>2 DEF LiveIsOpen
  <2>4. CallsAreAccounted'
    BY <1>1, <1>2 DEF CallsAreAccounted
  <2> QED
    BY <1>1, <2>3, <2>4 DEF LiveIsOpen, PreparedIsNew, ClosingWasChecked
<1>3. CASE End(c)
  <2>1. \A p \in Pools : InUse(p)' \subseteq InUse(p)
    BY <1>3 DEF End, InUse
  <2>2. \A p \in Pools : Cardinality(InUse(p)') <= PoolSize
    BY <2>1, InUseShrinks
  <2>3. TypeOK'
    BY <1>1, <1>3, <2>2 DEF End
  <2>4. CallsAreAccounted'
    BY <1>1, <1>3 DEF End, CallsAreAccounted
  <2> QED
    BY <1>1, <2>3, <2>4 DEF LiveIsOpen, PreparedIsNew, ClosingWasChecked
<1>4. CASE /\ phase[c] = "running"
           /\ statement' = [statement EXCEPT ![c] = 2]
           /\ phase' = [phase EXCEPT ![c] = "waiting"]
           /\ UNCHANGED pool
  <2>1. \A p \in Pools : InUse(p)' \subseteq InUse(p)
    BY <1>4 DEF InUse
  <2>2. \A p \in Pools : Cardinality(InUse(p)') <= PoolSize
    BY <2>1, InUseShrinks
  <2>3. TypeOK'
    BY <1>1, <1>4, <2>2
  <2>4. CallsAreAccounted'
    BY <1>1, <1>4 DEF CallsAreAccounted
  <2> QED
    BY <1>1, <2>3, <2>4 DEF LiveIsOpen, PreparedIsNew, ClosingWasChecked
<1> QED
  BY <1>2, <1>3, <1>4 DEF StartCall, AcquireFails, StatementEnds, Cancel

\* A connection is handed out only by an open pool that has one left.
LEMMA AcquireKeepsIInv ==
  ASSUME IInv, NEW c \in Calls, Acquire(c)
  PROVE  IInv'
<1> USE DEF IInv, TypeOK, Pools, NoPool
<1>1. UNCHANGED <<live, prepare, opened, closed, exposed, verified, pool, statement,
                  deactivate, closing, strays>>
  BY DEF Acquire
<1>2. \A p \in Pools : InUse(p)' = IF p = pool[c] THEN InUse(p) \cup {c} ELSE InUse(p)
  BY DEF Acquire, InUse
<1>3. \A p \in Pools : Cardinality(InUse(p)') <= PoolSize
  <2> TAKE p \in Pools
  <2>1. CASE p = pool[c]
    <3>1. IsFiniteSet(InUse(p)) /\ Cardinality(InUse(p)) \in Nat
      BY InUseFinite
    <3>2. c \notin InUse(p)
      BY DEF Acquire, InUse
    <3>3. Cardinality(InUse(p) \cup {c}) = Cardinality(InUse(p)) + 1
      BY <3>1, <3>2, FS_AddElement
    <3>4. Cardinality(InUse(p)) < PoolSize
      BY <2>1 DEF Acquire
    <3>5. InUse(p)' = InUse(p) \cup {c}
      BY <1>2, <2>1
    <3> QED
      BY <3>1, <3>3, <3>4, <3>5, LifecycleAssumption
  <2>2. CASE p # pool[c]
    BY <1>2, <2>2
  <2> QED
    BY <2>1, <2>2
<1>4. TypeOK'
  BY <1>1, <1>3 DEF Acquire
<1>5. CallsAreAccounted'
  BY <1>1 DEF Acquire, CallsAreAccounted
<1> QED
  BY <1>1, <1>4, <1>5 DEF LiveIsOpen, PreparedIsNew, ClosingWasChecked

\* The live pool becomes the one deactivate waits for; when it stops waiting,
\* nothing runs there, or the pool has been given up.
LEMMA DeactivateKeepsIInv ==
  ASSUME IInv, Deactivate \/ CloseReturns \/ DeactivateIsDropped
  PROVE  IInv'
<1> USE DEF IInv, TypeOK, Pools, NoPool
<1>1. UNCHANGED callVars
  BY DEF Deactivate, CloseReturns, DeactivateIsDropped
<1>2. \A p \in Pools : InUse(p)' = InUse(p)
  BY <1>1 DEF callVars, InUse
<1>3. CASE Deactivate
  BY <1>1, <1>2, <1>3
     DEF Deactivate, callVars, LiveIsOpen, PreparedIsNew, ClosingWasChecked, CallsAreAccounted
<1>4. CASE CloseReturns
  BY <1>1, <1>2, <1>4
     DEF CloseReturns, callVars, InUse, LiveIsOpen, PreparedIsNew, ClosingWasChecked, CallsAreAccounted
<1>5. CASE DeactivateIsDropped
  BY <1>1, <1>2, <1>5
     DEF DeactivateIsDropped, callVars, LiveIsOpen, PreparedIsNew, ClosingWasChecked, CallsAreAccounted
<1> QED
  BY <1>3, <1>4, <1>5

LEMMA IInvStep == IInv /\ [Next]_vars => IInv'
<1> SUFFICES ASSUME IInv, [Next]_vars PROVE IInv'
  OBVIOUS
<1>1. CASE Next
  BY <1>1, PrepareKeepsIInv, CallsKeepIInv, AcquireKeepsIInv, DeactivateKeepsIInv DEF Next
<1>2. CASE UNCHANGED vars
  BY <1>2 DEF vars, callVars, IInv, TypeOK, Pools, InUse, LiveIsOpen, PreparedIsNew,
              ClosingWasChecked, CallsAreAccounted
<1> QED
  BY <1>1, <1>2

-----------------------------------------------------------------------------
(* The theorems. *)

\* The strengthening holds of every behaviour.
THEOREM Invariant == Spec => []IInv
<1>1. Init => IInv
  BY InitIInv
<1>2. IInv /\ [Next]_vars => IInv'
  BY IInvStep
<1> QED
  BY <1>1, <1>2, PTL DEF Spec

\* Every variable has its type: in particular a call has the handle of a pool
\* that was checked, and no pool hands out more connections than it has.
THEOREM TypeCorrect == Spec => []TypeOK
<1>1. IInv => TypeOK
  BY DEF IInv
<1> QED
  BY <1>1, Invariant, PTL

\* Whatever prepares and deactivations overlap, service() clones the handle of
\* an open pool whose publication check passed.
THEOREM OpenPools == Spec => []LiveIsOpen
<1>1. IInv => LiveIsOpen
  BY DEF IInv
<1> QED
  BY <1>1, Invariant, PTL

\* After deactivate has returned only pools that nobody waited for still run a
\* statement.
THEOREM QuietAfterDeactivation == Spec => []DeactivatedIsQuiet
<1>1. IInv => DeactivatedIsQuiet
  BY DEF IInv, TypeOK, CallsAreAccounted, DeactivatedIsQuiet, Pools, NoPool
<1> QED
  BY <1>1, Invariant, PTL
=============================================================================
