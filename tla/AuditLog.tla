------------------------------ MODULE AuditLog ------------------------------
(***************************************************************************)
(* The promise of lenso.audit-log@1, independent of any store: evidence is *)
(* appended and never changed, a writer that is answered with an event     *)
(* finds exactly that event in the log, and idempotency_conflict means     *)
(* that the key already holds other evidence.  PostgresAppend and D1Store  *)
(* implement it; the parameters say what a store does to the data it       *)
(* keeps.                                                                  *)
(***************************************************************************)
EXTENDS AuditEvidence

CONSTANTS
  Kept(_),       \* what a store keeps of an event
  ReadBack(_),   \* metadata of a row as its readers get it
  Unrecognised,  \* metadata a store may fail to recognise when it is replayed
  Misread        \* metadata a store may fail to recognise at once

VARIABLES
  log,        \* the rows of evidence that exist
  acks,       \* the acknowledgements writers have received
  conflicts   \* the requests answered with idempotency_conflict

vars == <<log, acks, conflicts>>

\* The row is the evidence the request asked to keep.
Holds(row, r) ==
  LET event == Kept(NewAuditEvent(r, 0))
  IN  /\ row.source = event.source
      /\ row.body = event.body
      /\ row.meta = event.meta
      /\ row.at = event.at

Init ==
  /\ log = {}
  /\ acks = {}
  /\ conflicts = {}

\* An authorized writer's evidence becomes durable, under an id not in use.
Record(r, serial, now) ==
  LET event == Kept(NewAuditEvent(r, serial))
  IN  /\ AuthorizedWriter(r)
      /\ ValidRequest(r)
      /\ \A row \in log : row.id # event.id
      /\ log' = log \cup {[id |-> event.id, source |-> event.source,
                           body |-> event.body, meta |-> event.meta,
                           at |-> event.at, created |-> now]}
      /\ UNCHANGED <<acks, conflicts>>

\* A writer learns that its evidence is in the log, and reads it as stored.
Acknowledge(r, row) ==
  /\ row \in log
  /\ Holds(row, r)
  /\ r.key # NoKey => row.id = StableEventId(r.caller, r.key)
  /\ acks' = acks \cup
       {[req |-> r, event |-> [id |-> row.id, source |-> row.source,
                               body |-> row.body, meta |-> ReadBack(row.meta),
                               at |-> row.at, created |-> row.created]]}
  /\ UNCHANGED <<log, conflicts>>

\* A writer learns that its key holds different evidence - or its own, if the
\* store cannot tell.
Refuse(r) ==
  /\ \/ /\ r.key # NoKey
        /\ \E row \in log :
             /\ row.id = StableEventId(r.caller, r.key)
             /\ ~ Holds(row, r) \/ RedactedAs[r.meta] \in Unrecognised
     \/ /\ r.key = NoKey
        /\ RedactedAs[r.meta] \in Misread
        /\ \E row \in log : Holds(row, r)
  /\ conflicts' = conflicts \cup {r}
  /\ UNCHANGED <<log, acks>>

Next ==
  \/ \E r \in Requests, serial \in 0 .. MaxFresh, now \in 0 .. MaxClock : Record(r, serial, now)
  \/ \E r \in Requests, row \in log : Acknowledge(r, row)
  \/ \E r \in Requests : Refuse(r)

Spec == Init /\ [][Next]_vars
=============================================================================
