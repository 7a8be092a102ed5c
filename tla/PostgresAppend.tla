--------------------------- MODULE PostgresAppend ---------------------------
(***************************************************************************)
(* append_event as the PostgreSQL Plugin performs it.  Every Plugin        *)
(* Instance (a "provider") handles one request at a time; several          *)
(* Instances, in several processes, share one audit_log.events table, and  *)
(* nothing but the table's primary key coordinates them.                   *)
(*                                                                         *)
(* One append is four steps with an await between any two of them:         *)
(*                                                                         *)
(*   BeginAppend      AuditService::append_event authorizes, validates,    *)
(*                    redacts, chooses the id and sends the INSERT         *)
(*   ExecuteInsert    PostgreSQL runs INSERT .. ON CONFLICT DO NOTHING     *)
(*   FallbackSelect   no row came back: a second statement reads the row   *)
(*                    that is there and compares it with the intent        *)
(*   Reply            the stored event is projected onto the wire          *)
(*                                                                         *)
(* Abandon is everything that can end an append between them: a failed     *)
(* statement, a lost connection, a cancelled invocation, a crash.  An      *)
(* INSERT that had reached the server may still commit afterwards, at any  *)
(* time (OrphanCommits): the reason unavailable() says that "a dispatched  *)
(* append may have committed".  Requests are not consumed, so a caller     *)
(* that retries, with or without a key, is covered.                        *)
(***************************************************************************)
EXTENDS AuditEvidence

CONSTANTS
  Providers,   \* Plugin Instances serving the Capability
  None         \* no event in flight

VARIABLES
  rows,        \* audit_log.events
  clock,       \* the database clock: the default of created_at
  pc,          \* provider -> where its append_event call stands
  req,         \* provider -> the request it is serving
  event,       \* provider -> the NewAuditEvent built from it
  stored,      \* provider -> the StoredEvent read from the table
  orphans,     \* INSERTs whose provider no longer waits for them
  serial,      \* how many fresh ids have been drawn
  acks,        \* history: stored events that callers were answered with
  conflicts    \* history: requests answered with idempotency_conflict

vars == <<rows, clock, pc, req, event, stored, orphans, serial, acks, conflicts>>

Phases == {"idle", "insert", "select", "reply"}

TypeOK ==
  /\ rows \subseteq Row
  /\ clock \in 0 .. MaxClock
  /\ pc \in [Providers -> Phases]
  /\ req \in [Providers -> Requests \cup {None}]
  /\ event \in [Providers -> Event \cup {None}]
  /\ stored \in [Providers -> StoredEvent \cup {None}]
  /\ \A p \in Providers :
       /\ pc[p] # "idle" => req[p] \in Requests /\ event[p] \in Event
       /\ pc[p] = "reply" => stored[p] \in StoredEvent
  /\ orphans \subseteq Event
  /\ serial \in 0 .. MaxFresh
  /\ acks \subseteq Acknowledgement
  /\ conflicts \subseteq Requests

-----------------------------------------------------------------------------
(* The repository's statements. *)

\* (mutant: occurred_at is compared as it was sent)
NotTruncated(e) == e

\* occurred_at is cut to microseconds before anything is sent or compared.
Truncated(e) == [e EXCEPT !.at = Micros(e.at)]

\* The row the INSERT writes; created_at takes its default, now().
InsertedRow(e) ==
  [id |-> e.id, source |-> e.source, body |-> e.body, meta |-> e.meta,
   at |-> Micros(e.at), created |-> clock]

\* map_event_row: the stored event of a row.
MapEventRow(row) ==
  [id |-> row.id, source |-> row.source, body |-> row.body,
   meta |-> Projected(row.meta), at |-> row.at, created |-> row.created]

\* StoredEvent::from_event: what the append expects to find, its metadata
\* never enveloped.
FromEvent(e, created) ==
  [id |-> e.id, source |-> e.source, body |-> e.body,
   meta |-> [envelope |-> "none", value |-> e.meta],
   at |-> e.at, created |-> created]

RowsWithId(id) == {row \in rows : row.id = id}

\* (mutants: an INSERT without its conflict clause, and one that updates)
InsertAlways(e) == rows' = rows \cup {InsertedRow(e)}
InsertOrUpdate(e) == rows' = (rows \ RowsWithId(e.id)) \cup {InsertedRow(e)}

\* insert into audit_log.events .. on conflict (id) do nothing
InsertOnConflictDoNothing(e) ==
  rows' = IF RowsWithId(e.id) = {} THEN rows \cup {InsertedRow(e)} ELSE rows

-----------------------------------------------------------------------------
(* The steps of one append. *)

\* (mutant: the call's state is dropped, its phase is not)
FinishKeepingPhase(p) ==
  /\ req' = [req EXCEPT ![p] = None]
  /\ event' = [event EXCEPT ![p] = None]
  /\ stored' = [stored EXCEPT ![p] = None]
  /\ UNCHANGED pc

Finish(p) ==
  /\ pc' = [pc EXCEPT ![p] = "idle"]
  /\ req' = [req EXCEPT ![p] = None]
  /\ event' = [event EXCEPT ![p] = None]
  /\ stored' = [stored EXCEPT ![p] = None]

BeginAppend(p, r) ==
  /\ pc[p] = "idle"
  /\ AuthorizedWriter(r)
  /\ ValidRequest(r)
  /\ r.key = NoKey => serial < MaxFresh
  /\ serial' = IF r.key = NoKey THEN serial + 1 ELSE serial
  /\ req' = [req EXCEPT ![p] = r]
  /\ event' = [event EXCEPT ![p] = Truncated(NewAuditEvent(r, serial'))]
  /\ pc' = [pc EXCEPT ![p] = "insert"]
  /\ UNCHANGED <<rows, clock, stored, orphans, acks, conflicts>>

ExecuteInsert(p) ==
  /\ pc[p] = "insert"
  /\ InsertOnConflictDoNothing(event[p])
  /\ IF RowsWithId(event[p].id) = {}
     THEN /\ stored' = [stored EXCEPT ![p] = MapEventRow(InsertedRow(event[p]))]
          /\ pc' = [pc EXCEPT ![p] = "reply"]
     ELSE /\ pc' = [pc EXCEPT ![p] = "select"]
          /\ UNCHANGED stored
  /\ UNCHANGED <<clock, req, event, orphans, serial, acks, conflicts>>

\* (mutant: whatever row is there answers the append)
ReplaysAnything(e, row) == TRUE

\* The comparison takes created_at from the row, everything else from the
\* request: equal is a replay, different a conflict.  A row that is gone would
\* be InvalidStoredValue, answered as unavailable.
Replays(e, row) == MapEventRow(row) = FromEvent(e, row.created)

\* (mutant: different evidence is tried again instead of refused)
FallbackSelectRetries(p) ==
  /\ pc[p] = "select"
  /\ \E row \in RowsWithId(event[p].id) :
       IF Replays(event[p], row)
       THEN /\ stored' = [stored EXCEPT ![p] = MapEventRow(row)]
            /\ pc' = [pc EXCEPT ![p] = "reply"]
       ELSE /\ pc' = [pc EXCEPT ![p] = "insert"]
            /\ UNCHANGED stored
  /\ UNCHANGED <<rows, clock, req, event, orphans, serial, acks, conflicts>>

FallbackSelect(p) ==
  /\ pc[p] = "select"
  /\ IF RowsWithId(event[p].id) = {}
     THEN Finish(p) /\ UNCHANGED conflicts
     ELSE \E row \in RowsWithId(event[p].id) :
            IF Replays(event[p], row)
            THEN /\ stored' = [stored EXCEPT ![p] = MapEventRow(row)]
                 /\ pc' = [pc EXCEPT ![p] = "reply"]
                 /\ UNCHANGED <<req, event, conflicts>>
            ELSE /\ conflicts' = conflicts \cup {req[p]}
                 /\ Finish(p)
  /\ UNCHANGED <<rows, clock, orphans, serial, acks>>

\* A stored event the wire refuses is answered with a Runtime failure, after
\* the evidence became durable.
Reply(p) ==
  /\ pc[p] = "reply"
  /\ acks' = IF Projectable(stored[p])
             THEN acks \cup {[req |-> req[p], event |-> stored[p]]}
             ELSE acks
  /\ Finish(p)
  /\ UNCHANGED <<rows, clock, orphans, serial, conflicts>>

Abandon(p) ==
  /\ pc[p] # "idle"
  /\ Finish(p)
  /\ \/ UNCHANGED orphans
     \/ pc[p] = "insert" /\ orphans' = orphans \cup {event[p]}
  /\ UNCHANGED <<rows, clock, serial, acks, conflicts>>

\* (mutant: a cancelled call cleans up the row it may have written)
OrphanCleansUp(e) ==
  /\ rows' = rows \ RowsWithId(e.id)
  /\ orphans' = orphans \ {e}
  /\ UNCHANGED <<clock, pc, req, event, stored, serial, acks, conflicts>>

OrphanCommits(e) ==
  /\ InsertOnConflictDoNothing(e)
  /\ orphans' = orphans \ {e}
  /\ UNCHANGED <<clock, pc, req, event, stored, serial, acks, conflicts>>

OrphanIsLost(e) ==
  /\ orphans' = orphans \ {e}
  /\ UNCHANGED <<rows, clock, pc, req, event, stored, serial, acks, conflicts>>

Tick ==
  /\ clock < MaxClock
  /\ clock' = clock + 1
  /\ UNCHANGED <<rows, pc, req, event, stored, orphans, serial, acks, conflicts>>

-----------------------------------------------------------------------------

Init ==
  /\ rows = {}
  /\ clock = 0
  /\ pc = [p \in Providers |-> "idle"]
  /\ req = [p \in Providers |-> None]
  /\ event = [p \in Providers |-> None]
  /\ stored = [p \in Providers |-> None]
  /\ orphans = {}
  /\ serial = 0
  /\ acks = {}
  /\ conflicts = {}

Next ==
  \/ \E p \in Providers, r \in Requests : BeginAppend(p, r)
  \/ \E p \in Providers : ExecuteInsert(p)
  \/ \E p \in Providers : FallbackSelect(p)
  \/ \E p \in Providers : Reply(p)
  \/ \E p \in Providers : Abandon(p)
  \/ \E e \in orphans : OrphanCommits(e)
  \/ \E e \in orphans : OrphanIsLost(e)
  \/ Tick

Spec == Init /\ [][Next]_vars

\* The Runtime polls a provider's future until it completes: a statement that
\* was sent is executed, and an answer that is ready is given.
Progress(p) == ExecuteInsert(p) \/ FallbackSelect(p) \/ Reply(p)

FairSpec == Spec /\ \A p \in Providers : WF_vars(Progress(p))

-----------------------------------------------------------------------------
(* Properties. *)

\* At most one row per id, so at most one event per (source, key), however the
\* INSERTs of several Instances, retries and orphans interleave.
OneRowPerId ==
  \A row1, row2 \in rows : row1.id = row2.id => row1 = row2

\* Every row is the sanitized evidence of a request an authorized writer sent:
\* attributed to that writer, filed under its own id, never holding a secret.
RowsAreGenuine ==
  \A row \in rows : \E r \in Requests :
    /\ r.caller \in WriterInstances
    /\ r.body \notin InvalidBodies
    /\ HoldsEvidenceOf(row, r)
    /\ \E n \in 0 .. serial : row.id = NewAuditEvent(r, n).id

\* An event a writer was answered with is in the table, byte for byte as it was
\* answered, and is the evidence that writer asked to keep.
AcknowledgedIsDurable ==
  \A a \in acks : \E row \in rows :
    /\ a.event = MapEventRow(row)
    /\ HoldsEvidenceOf(row, a.req)
    /\ a.req.key # NoKey => row.id = StableEventId(a.req.caller, a.req.key)

\* Replaying a key returns the original row: all answers to one caller and key
\* are the same event, created_at included, and another caller using the same
\* key has an event of its own.
OneEventPerKey ==
  \A a, b \in acks :
    a.req.key # NoKey /\ b.req.key = a.req.key
      => (a.event = b.event <=> a.req.caller = b.req.caller)

\* idempotency_conflict is never spurious: the caller's key holds different
\* evidence (or evidence whose metadata uses a reserved key, which a replay
\* does not recognise).  An unkeyed append never conflicts.
ConflictIsJustified ==
  \A r \in conflicts :
    /\ r.key # NoKey
    /\ \E row \in rows :
         /\ row.id = StableEventId(r.caller, r.key)
         /\ ~ HoldsEvidenceOf(row, r) \/ RedactedAs[r.meta] \in Reserved

\* The second statement always finds the row that made the first return none.
FallbackFindsRow ==
  \A p \in Providers : pc[p] = "select" => RowsWithId(event[p].id) # {}

-----------------------------------------------------------------------------
(* The inductive invariant: what the steps in between know. *)

Derived(e, r) ==
  /\ AuthorizedWriter(r)
  /\ ValidRequest(r)
  /\ \E n \in 0 .. serial : e = Truncated(NewAuditEvent(r, n))

\* What is on its way to the table was derived from a request.
DispatchedIsGenuine ==
  /\ \A p \in Providers : pc[p] # "idle" => Derived(event[p], req[p])
  /\ \A e \in orphans : \E r \in Requests : Derived(e, r)

\* A fresh id that is still to be inserted is nobody else's.
FreshIdsAreUnused ==
  \A p \in Providers : pc[p] = "insert" /\ req[p].key = NoKey =>
    /\ RowsWithId(event[p].id) = {}
    /\ \A e \in orphans : e.id # event[p].id
    /\ \A q \in Providers \ {p} : pc[q] = "insert" => event[q].id # event[p].id

\* Only a keyed append reaches the second statement.
SelectIsKeyed == \A p \in Providers : pc[p] = "select" => req[p].key # NoKey

\* The event about to be answered is in the table.
StoredIsDurable ==
  \A p \in Providers : pc[p] = "reply" => \E row \in rows :
    /\ row.id = event[p].id
    /\ stored[p] = MapEventRow(row)
    /\ HoldsEvidenceOf(row, req[p])

IInv ==
  /\ TypeOK
  /\ OneRowPerId
  /\ DispatchedIsGenuine
  /\ RowsAreGenuine
  /\ FreshIdsAreUnused
  /\ SelectIsKeyed
  /\ FallbackFindsRow
  /\ StoredIsDurable
  /\ AcknowledgedIsDurable
  /\ ConflictIsJustified

-----------------------------------------------------------------------------
(* Action properties, refinement, liveness. *)

\* No step changes or removes evidence.
AppendOnly == [][rows \subseteq rows']_rows

\* The promise of the Capability, with the table as the log.
Promise == INSTANCE AuditLog WITH
  log <- rows, Kept <- Truncated, ReadBack <- Projected, Unrecognised <- Reserved, Misread <- {}

\* The two statements, the orphans and the retries together behave like one log
\* that records evidence atomically (README, "Capability": append "durably
\* appends and returns the stored event").
KeepsPromise == Promise!Spec

\* Every append that begins also ends.
AppendsEnd == \A p \in Providers : pc[p] # "idle" ~> pc[p] = "idle"

\* "Replaying identical sanitized evidence returns the original row"
\* (docs/management-security.md): a conflict means different evidence.
IdenticalReplayNeverConflicts ==
  \A r \in conflicts, row \in rows :
    row.id = StableEventId(r.caller, r.key) => ~ HoldsEvidenceOf(row, r)
=============================================================================
