--------------------------- MODULE PluginLifecycle ---------------------------
(***************************************************************************)
(* The life of one PostgreSQL Plugin Instance: prepare opens and verifies  *)
(* a connection pool and puts it into the Instance's state, every call of  *)
(* the Capability clones the handle that is there when it starts, and      *)
(* deactivate takes the handle out and closes the pool under the calls     *)
(* that still have it.                                                     *)
(*                                                                         *)
(* The executor is single-threaded: what stands between two awaits is one  *)
(* step.  All of these futures can be dropped at an await by a timeout or  *)
(* a cancellation.  Nothing in the Plugin forbids a second prepare, a      *)
(* prepare during a deactivation or the reverse, so nothing here does.     *)
(*                                                                         *)
(* The pool is sqlx's (external): close() refuses those who wait for a     *)
(* connection, and completes when the connections in use are back; a pool  *)
(* whose last handle is dropped is closed.  A call that finds no prepared  *)
(* store fails at once with Unprepared, which changes nothing here.        *)
(***************************************************************************)
EXTENDS Naturals, FiniteSets

CONSTANTS
  Calls,      \* invocations that may be under way at once
  PoolSize,   \* connections of one pool
  MaxPools    \* bound: how many pools are ever opened

ASSUME LifecycleAssumption ==
  /\ IsFiniteSet(Calls)
  /\ PoolSize \in Nat \ {0}
  /\ MaxPools \in Nat \ {0}

Pools == 1 .. MaxPools
NoPool == 0

VARIABLES
  live,       \* the prepared store of the Instance, or NoPool
  prepare,    \* where a prepare stands
  opened,     \* how many pools were opened; the last one is prepare's
  closed,     \* pools that were told to close
  exposed,    \* is the schema in a schema-wide or database-wide publication?
  verified,   \* history: pools whose check found no such publication
  phase,      \* call -> where it stands
  pool,       \* call -> the pool whose handle it cloned
  statement,  \* call -> which of its statements it is at
  deactivate, \* where a deactivate stands
  closing,    \* the pool the last deactivate took out
  strays      \* history: pools given up without waiting for their calls

callVars == <<phase, pool, statement>>
vars == <<live, prepare, opened, closed, exposed, verified, callVars,
          deactivate, closing, strays>>

InUse(p) == {c \in Calls : phase[c] = "running" /\ pool[c] = p}

TypeOK ==
  /\ live \in Pools \cup {NoPool}
  /\ prepare \in {"idle", "resolving", "verifying"}
  /\ opened \in 0 .. MaxPools
  /\ closed \subseteq 1 .. opened
  /\ verified \subseteq 1 .. opened
  /\ strays \subseteq verified
  /\ exposed \in BOOLEAN
  /\ phase \in [Calls -> {"idle", "waiting", "running"}]
  /\ pool \in [Calls -> Pools \cup {NoPool}]
  /\ statement \in [Calls -> 1 .. 2]
  /\ \A c \in Calls : IF phase[c] = "idle" THEN pool[c] = NoPool ELSE pool[c] \in verified
  /\ \A p \in Pools : Cardinality(InUse(p)) <= PoolSize
  /\ deactivate \in {"idle", "closing", "returned"}
  /\ deactivate = "closing" => closing \in closed

-----------------------------------------------------------------------------
(* prepare *)

StartPrepare ==
  /\ prepare = "idle"
  /\ opened < MaxPools
  /\ prepare' = "resolving"
  /\ UNCHANGED <<live, opened, closed, exposed, verified, callVars, deactivate, closing, strays>>

\* The secret is resolved, and OwnedPostgres::prepare connects and finds the
\* managed schema.
OpenPool ==
  /\ prepare = "resolving"
  /\ prepare' = "verifying"
  /\ opened' = opened + 1
  /\ UNCHANGED <<live, closed, exposed, verified, callVars, deactivate, closing, strays>>

\* (mutant: the pool is installed before it is checked)
InstallUnchecked ==
  /\ prepare = "verifying"
  /\ live' = opened
  /\ strays' = IF live = NoPool THEN strays ELSE strays \cup {live}
  /\ prepare' = "idle"
  /\ UNCHANGED <<opened, closed, exposed, verified, callVars, deactivate, closing>>

\* The publication check.  A second prepare has replaced the first store by
\* the time it answers that the generation was prepared more than once.
VerifyAndInstall ==
  /\ prepare = "verifying"
  /\ prepare' = "idle"
  /\ IF exposed
     THEN /\ closed' = closed \cup {opened}
          /\ UNCHANGED <<live, verified, strays>>
     ELSE /\ verified' = verified \cup {opened}
          /\ live' = opened
          /\ strays' = IF live = NoPool THEN strays ELSE strays \cup {live}
          /\ UNCHANGED closed
  /\ UNCHANGED <<opened, exposed, callVars, deactivate, closing>>

\* The secret is refused, storage is unavailable, the future is dropped: the
\* only handle of a pool that was opened goes with it.
PrepareFails ==
  /\ prepare # "idle"
  /\ prepare' = "idle"
  /\ closed' = IF prepare = "verifying" THEN closed \cup {opened} ELSE closed
  /\ UNCHANGED <<live, opened, exposed, verified, callVars, deactivate, closing, strays>>

\* Somebody creates or drops a publication; nobody tells the Plugin.
Publish ==
  /\ exposed' = ~ exposed
  /\ UNCHANGED <<live, prepare, opened, closed, verified, callVars, deactivate, closing, strays>>

-----------------------------------------------------------------------------
(* Calls.  get_event and list_events are one statement, append_event one or *)
(* two; each of them waits for a connection of its own.                     *)

\* (mutant: a call that ends keeps its handle)
EndKeepingHandle(c) ==
  /\ phase' = [phase EXCEPT ![c] = "idle"]
  /\ statement' = [statement EXCEPT ![c] = 1]
  /\ UNCHANGED pool

End(c) ==
  /\ phase' = [phase EXCEPT ![c] = "idle"]
  /\ statement' = [statement EXCEPT ![c] = 1]
  /\ pool' = [pool EXCEPT ![c] = NoPool]

StartCall(c) ==
  /\ phase[c] = "idle"
  /\ live # NoPool
  /\ phase' = [phase EXCEPT ![c] = "waiting"]
  /\ pool' = [pool EXCEPT ![c] = live]
  /\ UNCHANGED <<live, prepare, opened, closed, exposed, verified, statement,
                 deactivate, closing, strays>>

Acquire(c) ==
  /\ phase[c] = "waiting"
  /\ pool[c] \notin closed
  /\ Cardinality(InUse(pool[c])) < PoolSize
  /\ phase' = [phase EXCEPT ![c] = "running"]
  /\ UNCHANGED <<live, prepare, opened, closed, exposed, verified, pool, statement,
                 deactivate, closing, strays>>

\* (mutant: a call waits for its connection as long as it takes)
AcquireFailsIfClosed(c) ==
  /\ phase[c] = "waiting"
  /\ pool[c] \in closed
  /\ End(c)
  /\ UNCHANGED <<live, prepare, opened, closed, exposed, verified, deactivate, closing, strays>>

\* PoolClosed, or the acquire timeout.
AcquireFails(c) ==
  /\ phase[c] = "waiting"
  /\ End(c)
  /\ UNCHANGED <<live, prepare, opened, closed, exposed, verified, deactivate, closing, strays>>

\* (mutant: an append that finds its id taken inserts again)
StatementEndsRetrying(c) ==
  /\ phase[c] = "running"
  /\ \/ End(c)
     \/ phase' = [phase EXCEPT ![c] = "waiting"] /\ UNCHANGED <<pool, statement>>
  /\ UNCHANGED <<live, prepare, opened, closed, exposed, verified, deactivate, closing, strays>>

\* The statement has succeeded or failed, and its connection is given back.
StatementEnds(c) ==
  /\ phase[c] = "running"
  /\ \/ End(c)
     \/ /\ statement[c] = 1
        /\ statement' = [statement EXCEPT ![c] = 2]
        /\ phase' = [phase EXCEPT ![c] = "waiting"]
        /\ UNCHANGED pool
  /\ UNCHANGED <<live, prepare, opened, closed, exposed, verified, deactivate, closing, strays>>

Cancel(c) ==
  /\ phase[c] # "idle"
  /\ End(c)
  /\ UNCHANGED <<live, prepare, opened, closed, exposed, verified, deactivate, closing, strays>>

-----------------------------------------------------------------------------
(* deactivate *)

\* (mutants: the pool is closed and stays in the state; the state is kept until
\* the calls under way are done)
DeactivateClosesFirst ==
  /\ deactivate # "closing"
  /\ live # NoPool
  /\ closed' = closed \cup {live}
  /\ closing' = live
  /\ deactivate' = "closing"
  /\ UNCHANGED <<live, prepare, opened, exposed, verified, callVars, strays>>

DeactivateDrains ==
  /\ deactivate # "closing"
  /\ live # NoPool
  /\ closing' = live
  /\ deactivate' = "closing"
  /\ UNCHANGED <<live, prepare, opened, closed, exposed, verified, callVars, strays>>

Deactivate ==
  /\ deactivate # "closing"
  /\ IF live = NoPool
     THEN deactivate' = "returned" /\ UNCHANGED <<live, closed, closing>>
     ELSE /\ live' = NoPool
          /\ closed' = closed \cup {live}
          /\ closing' = live
          /\ deactivate' = "closing"
  /\ UNCHANGED <<prepare, opened, exposed, verified, callVars, strays>>

\* (mutant: nobody waits for the pool to close)
CloseReturnsAtOnce ==
  /\ deactivate = "closing"
  /\ deactivate' = "returned"
  /\ UNCHANGED <<live, prepare, opened, closed, exposed, verified, callVars, closing, strays>>

CloseReturns ==
  /\ deactivate = "closing"
  /\ InUse(closing) = {}
  /\ deactivate' = "returned"
  /\ UNCHANGED <<live, prepare, opened, closed, exposed, verified, callVars, closing, strays>>

\* The future is dropped before the pool has closed.
DeactivateIsDropped ==
  /\ deactivate = "closing"
  /\ deactivate' = "idle"
  /\ strays' = strays \cup {closing}
  /\ UNCHANGED <<live, prepare, opened, closed, exposed, verified, callVars, closing>>

-----------------------------------------------------------------------------

Init ==
  /\ live = NoPool
  /\ prepare = "idle"
  /\ opened = 0
  /\ closed = {}
  /\ exposed \in BOOLEAN
  /\ verified = {}
  /\ phase = [c \in Calls |-> "idle"]
  /\ pool = [c \in Calls |-> NoPool]
  /\ statement = [c \in Calls |-> 1]
  /\ deactivate = "idle"
  /\ closing = NoPool
  /\ strays = {}

Next ==
  \/ StartPrepare
  \/ OpenPool
  \/ VerifyAndInstall
  \/ PrepareFails
  \/ Publish
  \/ \E c \in Calls : StartCall(c)
  \/ \E c \in Calls : Acquire(c)
  \/ \E c \in Calls : AcquireFails(c)
  \/ \E c \in Calls : StatementEnds(c)
  \/ \E c \in Calls : Cancel(c)
  \/ Deactivate
  \/ CloseReturns
  \/ DeactivateIsDropped

Spec == Init /\ [][Next]_vars

\* Futures that are not dropped are polled: a call that waits gets a connection
\* or runs into the acquire timeout, a statement ends, close() completes.
FairSpec ==
  /\ Spec
  /\ \A c \in Calls : WF_vars(Acquire(c) \/ AcquireFails(c)) /\ WF_vars(StatementEnds(c))
  /\ WF_vars(CloseReturns)

-----------------------------------------------------------------------------
(* Properties. *)

\* What a call is handed is open and was checked: "deactivate closes the owned
\* pool after removing the prepared generation from live state"
\* (docs/plugin-card.md), whatever prepares and deactivations overlap.
LiveIsOpen == live # NoPool => live \in verified /\ live \notin closed

\* Once deactivate has returned, and until something is prepared again, no
\* statement of this Instance runs - but on a pool that a second prepare
\* replaced or whose deactivation was dropped, which nobody waited for.
DeactivatedIsQuiet ==
  deactivate = "returned" /\ live = NoPool =>
    \A c \in Calls : phase[c] = "running" => pool[c] \in strays

\* Every call ends, with or without a pool.
CallsEnd == \A c \in Calls : phase[c] # "idle" ~> phase[c] = "idle"

\* A deactivation that closes a pool does not wait for ever, though calls go on
\* arriving.
DeactivationEnds == deactivate = "closing" ~> deactivate # "closing"

\* A pool that was given up loses its last handle.
StraysEnd == \A p \in Pools : p \in strays ~> \A c \in Calls : pool[c] # p
=============================================================================
