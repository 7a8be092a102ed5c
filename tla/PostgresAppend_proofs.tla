------------------------ MODULE PostgresAppend_proofs ------------------------
(***************************************************************************)
(* Proofs about PostgresAppend, for any number of Plugin Instances,        *)
(* callers, keys, requests and clock readings.                             *)
(***************************************************************************)
EXTENDS PostgresAppend, TLAPS

-----------------------------------------------------------------------------
(* Facts about the vocabulary. *)

\* Cutting an instant to its microsecond yields an instant, and cutting it
\* again changes nothing: the core cuts before the column does.
LEMMA MicrosIdempotent ==
  ASSUME NEW t \in Instants
  PROVE  Micros(t) \in Instants /\ Micros(Micros(t)) = Micros(t)
BY DEF Micros, Instants

\* The event of a request is an Event whose metadata is redacted, and whose id
\* is the stable one exactly when the request has a key.
LEMMA EventOfRequest ==
  ASSUME NEW r \in Requests, NEW n \in 0 .. MaxFresh
  PROVE  LET e == Truncated(NewAuditEvent(r, n))
         IN  /\ e \in Event
             /\ e.id = NewAuditEvent(r, n).id
             /\ e.source = r.caller
             /\ e.body = r.body
             /\ e.meta = RedactedAs[r.meta]
             /\ e.at = Micros(r.at)
             /\ Micros(e.at) = e.at
             /\ r.key # NoKey => e.id = StableEventId(r.caller, r.key)
             /\ r.key = NoKey => e.id = FreshId(r.caller, n)
<1>1. /\ r.caller \in Callers
      /\ r.key \in Keys \cup {NoKey}
      /\ r.body \in Bodies
      /\ r.meta \in Metas
      /\ r.at \in Times
  BY RequestsAssumption DEF Request
<1>2. r.at \in Instants
  BY <1>1, EvidenceAssumption
<1>3. RedactedAs[r.meta] \in Metas
  BY <1>1, EvidenceAssumption
<1>4. 0 \in 0 .. MaxFresh
  BY EvidenceAssumption
<1> DEFINE e == Truncated(NewAuditEvent(r, n))
<1>5. e = [id     |-> IF r.key = NoKey THEN FreshId(r.caller, n)
                                       ELSE StableEventId(r.caller, r.key),
           source |-> r.caller, body |-> r.body,
           meta   |-> RedactedAs[r.meta], at |-> Micros(r.at)]
  BY DEF Truncated, NewAuditEvent
<1>6. e.id \in EventIds
  BY <1>1, <1>4, <1>5 DEF EventIds, FreshId, StableEventId
<1>7. e \in Event
  BY <1>1, <1>2, <1>3, <1>5, <1>6, MicrosIdempotent DEF Event
<1>8. Micros(e.at) = e.at
  BY <1>2, <1>5, MicrosIdempotent
<1>9. e.id = NewAuditEvent(r, n).id
  BY <1>5 DEF NewAuditEvent
<1> QED
  BY <1>5, <1>7, <1>8, <1>9

\* The row of an Event is a Row, and what map_event_row makes of a Row is a
\* StoredEvent.
LEMMA RowOfEvent ==
  ASSUME clock \in 0 .. MaxClock, NEW e \in Event
  PROVE  InsertedRow(e) \in Row
BY MicrosIdempotent DEF InsertedRow, Row, Event

LEMMA StoredEventOfRow ==
  ASSUME NEW row \in Row
  PROVE  MapEventRow(row) \in StoredEvent
BY DEF MapEventRow, Row, StoredEvent, Projected, Envelopes

-----------------------------------------------------------------------------
(* Type correctness. *)

\* Every step, and every stuttering step, preserves TypeOK.
LEMMA TypeOKStep == TypeOK /\ [Next]_vars => TypeOK'
<1> SUFFICES ASSUME TypeOK, [Next]_vars PROVE TypeOK'
  OBVIOUS
<1> USE DEF TypeOK, Phases
<1>1. ASSUME NEW p \in Providers, NEW r \in Requests, BeginAppend(p, r)
      PROVE  TypeOK'
  <2>1. serial' \in 0 .. MaxFresh
    BY <1>1, EvidenceAssumption DEF BeginAppend
  <2>2. Truncated(NewAuditEvent(r, serial')) \in Event
    BY <2>1, EventOfRequest
  <2> QED
    BY <1>1, <2>1, <2>2 DEF BeginAppend
<1>2. ASSUME NEW p \in Providers, ExecuteInsert(p)
      PROVE  TypeOK'
  <2>1. event[p] \in Event
    BY <1>2 DEF ExecuteInsert
  <2>2. InsertedRow(event[p]) \in Row
    BY <2>1, RowOfEvent
  <2>3. MapEventRow(InsertedRow(event[p])) \in StoredEvent
    BY <2>2, StoredEventOfRow
  <2>4. rows' \subseteq Row
    BY <1>2, <2>2 DEF ExecuteInsert, InsertOnConflictDoNothing
  <2> QED
    BY <1>2, <2>3, <2>4 DEF ExecuteInsert
<1>3. ASSUME NEW p \in Providers, FallbackSelect(p)
      PROVE  TypeOK'
  <2>1. CASE Finish(p) /\ conflicts' \in {conflicts, conflicts \cup {req[p]}}
    BY <1>3, <2>1 DEF FallbackSelect, Finish
  <2>2. ASSUME NEW row \in RowsWithId(event[p].id),
               stored' = [stored EXCEPT ![p] = MapEventRow(row)],
               pc' = [pc EXCEPT ![p] = "reply"],
               UNCHANGED <<req, event, conflicts>>
        PROVE  TypeOK'
    <3>1. MapEventRow(row) \in StoredEvent
      BY StoredEventOfRow DEF RowsWithId
    <3> QED
      BY <1>3, <2>2, <3>1 DEF FallbackSelect
  <2> QED
    BY <1>3, <2>1, <2>2 DEF FallbackSelect
<1>4. ASSUME NEW p \in Providers, Reply(p)
      PROVE  TypeOK'
  <2>1. acks' \subseteq Acknowledgement
    BY <1>4 DEF Reply, Acknowledgement
  <2> QED
    BY <1>4, <2>1 DEF Reply, Finish
<1>5. ASSUME NEW p \in Providers, Abandon(p)
      PROVE  TypeOK'
  <2>1. orphans' \subseteq Event
    BY <1>5 DEF Abandon
  <2> QED
    BY <1>5, <2>1 DEF Abandon, Finish
<1>6. ASSUME NEW e \in orphans, OrphanCommits(e)
      PROVE  TypeOK'
  <2>1. InsertedRow(e) \in Row
    BY RowOfEvent
  <2>2. rows' \subseteq Row
    BY <1>6, <2>1 DEF OrphanCommits, InsertOnConflictDoNothing
  <2> QED
    BY <1>6, <2>2 DEF OrphanCommits
<1>7. ASSUME NEW e \in orphans, OrphanIsLost(e)
      PROVE  TypeOK'
  BY <1>7 DEF OrphanIsLost
<1>8. CASE Tick
  BY <1>8, EvidenceAssumption DEF Tick
<1>9. CASE UNCHANGED vars
  BY <1>9 DEF vars
<1> QED
  BY <1>1, <1>2, <1>3, <1>4, <1>5, <1>6, <1>7, <1>8, <1>9 DEF Next

\* In every reachable state the provider's phase, request, event and stored
\* event agree, and the table and the histories hold well-formed values.
THEOREM TypeCorrect == Spec => []TypeOK
<1>1. Init => TypeOK
  BY EvidenceAssumption DEF Init, TypeOK, Phases
<1> QED
  BY <1>1, TypeOKStep, PTL DEF Spec

-----------------------------------------------------------------------------
(* What a dispatched event and its row carry over from the request. *)

LEMMA DerivedEvent ==
  ASSUME TypeOK, NEW r \in Requests, NEW e, Derived(e, r)
  PROVE  /\ e \in Event
         /\ HoldsEvidenceOf(InsertedRow(e), r)
         /\ \E n \in 0 .. serial : e.id = NewAuditEvent(r, n).id
         /\ r.key # NoKey => e.id = StableEventId(r.caller, r.key)
<1>1. PICK n \in 0 .. serial : e = Truncated(NewAuditEvent(r, n))
  BY DEF Derived
<1>2. n \in 0 .. MaxFresh
  BY EvidenceAssumption DEF TypeOK
<1>3. /\ e \in Event
      /\ e.id = NewAuditEvent(r, n).id
      /\ e.source = r.caller
      /\ e.body = r.body
      /\ e.meta = RedactedAs[r.meta]
      /\ Micros(e.at) = Micros(r.at)
      /\ r.key # NoKey => e.id = StableEventId(r.caller, r.key)
  BY <1>1, <1>2, EventOfRequest
<1>4. HoldsEvidenceOf(InsertedRow(e), r)
  BY <1>3 DEF HoldsEvidenceOf, InsertedRow
<1> QED
  BY <1>3, <1>4

\* The ids in use carry serials up to serial, so the next one is new.
LEMMA NextSerialIsUnused ==
  ASSUME TypeOK, NEW r \in Requests, NEW other \in Requests, r.key = NoKey,
         NEW n \in 0 .. serial
  PROVE  NewAuditEvent(other, n).id # FreshId(r.caller, serial + 1)
<1>1. n # serial + 1
  BY EvidenceAssumption DEF TypeOK
<1>2. NewAuditEvent(other, n).id = IF other.key = NoKey
                                   THEN <<other.caller, NoKey, n>>
                                   ELSE <<other.caller, other.key, 0>>
  BY DEF NewAuditEvent, FreshId, StableEventId
<1> QED
  BY <1>1, <1>2 DEF FreshId

\* Inserting a derived event, by a provider or by an orphaned statement.
LEMMA InsertKeepsTable ==
  ASSUME IInv, NEW r \in Requests, NEW e, Derived(e, r),
         InsertOnConflictDoNothing(e), serial' = serial
  PROVE  /\ rows \subseteq rows'
         /\ RowsWithId(e.id)' # {}
         /\ \A row \in rows' : row \in rows \/ row.id = e.id
         /\ OneRowPerId'
         /\ RowsAreGenuine'
<1>1. /\ HoldsEvidenceOf(InsertedRow(e), r)
      /\ \E n \in 0 .. serial : InsertedRow(e).id = NewAuditEvent(r, n).id
  BY DerivedEvent DEF IInv, InsertedRow
<1>2. InsertedRow(e).id = e.id
  BY DEF InsertedRow
<1>3. rows' = IF RowsWithId(e.id) = {} THEN rows \cup {InsertedRow(e)} ELSE rows
  BY DEF InsertOnConflictDoNothing
<1>4. OneRowPerId'
  BY <1>2, <1>3 DEF OneRowPerId, RowsWithId, IInv
<1>5. RowsAreGenuine'
  BY <1>1, <1>3 DEF RowsAreGenuine, IInv, Derived, AuthorizedWriter, ValidRequest
<1>6. RowsWithId(e.id)' # {}
  BY <1>2, <1>3 DEF RowsWithId
<1> QED
  BY <1>2, <1>3, <1>4, <1>5, <1>6

-----------------------------------------------------------------------------
(* The inductive invariant. *)

LEMMA IInvInit == Init => IInv
<1> SUFFICES ASSUME Init PROVE IInv
  OBVIOUS
<1>1. TypeOK
  BY EvidenceAssumption DEF Init, TypeOK, Phases
<1> QED
  BY <1>1 DEF Init, IInv, OneRowPerId, DispatchedIsGenuine, RowsAreGenuine,
     FreshIdsAreUnused, SelectIsKeyed, FallbackFindsRow, StoredIsDurable,
     AcknowledgedIsDurable, ConflictIsJustified

\* A new request of an idle provider: nothing durable changes, and a fresh id
\* is nobody else's.
LEMMA BeginAppendKeepsIInv ==
  ASSUME IInv, TypeOK', NEW p \in Providers, NEW r \in Requests, BeginAppend(p, r)
  PROVE  IInv'
<1>0. PICK new : new = Truncated(NewAuditEvent(r, serial'))
  OBVIOUS
<1>1. /\ serial \in Nat /\ serial' \in 0 .. MaxFresh /\ serial <= serial'
      /\ r.key = NoKey => serial' = serial + 1
      /\ 0 .. serial \subseteq 0 .. serial'
  BY EvidenceAssumption DEF BeginAppend, IInv, TypeOK
<1>2. \A x \in Event, y \in Requests : Derived(x, y) => Derived(x, y)'
  BY <1>1 DEF Derived
<1>3. Derived(new, r)'
  BY <1>0, <1>1 DEF Derived, BeginAppend
<1>4. /\ pc' = [pc EXCEPT ![p] = "insert"]
      /\ req' = [req EXCEPT ![p] = r]
      /\ event' = [event EXCEPT ![p] = new]
      /\ UNCHANGED <<rows, clock, stored, orphans, acks, conflicts>>
  BY <1>0 DEF BeginAppend
<1>5. DispatchedIsGenuine'
  BY <1>2, <1>3, <1>4 DEF DispatchedIsGenuine, IInv, TypeOK
<1>6. RowsAreGenuine'
  BY <1>1, <1>4 DEF RowsAreGenuine, IInv
<1>7. r.key = NoKey => new.id = FreshId(r.caller, serial + 1)
  BY <1>0, <1>1, EventOfRequest
<1>8. r.key = NoKey => /\ \A row \in rows : row.id # new.id
                       /\ \A e \in orphans : e.id # new.id
                       /\ \A q \in Providers \ {p} : pc[q] = "insert" => event[q].id # new.id
  <2> SUFFICES ASSUME r.key = NoKey
               PROVE  /\ \A row \in rows : row.id # new.id
                      /\ \A e \in orphans : e.id # new.id
                      /\ \A q \in Providers \ {p} : pc[q] = "insert" => event[q].id # new.id
    OBVIOUS
  <2>1. \A row \in rows : row.id # new.id
    BY <1>7, NextSerialIsUnused DEF RowsAreGenuine, IInv
  <2>2. ASSUME NEW e \in orphans
        PROVE  e.id # new.id
    <3>1. PICK y \in Requests : Derived(e, y)
      BY DEF DispatchedIsGenuine, IInv
    <3> QED
      BY <1>7, <3>1, DerivedEvent, NextSerialIsUnused DEF IInv
  <2>3. ASSUME NEW q \in Providers \ {p}, pc[q] = "insert"
        PROVE  event[q].id # new.id
    <3>1. req[q] \in Requests /\ Derived(event[q], req[q])
      BY <2>3 DEF DispatchedIsGenuine, IInv, TypeOK
    <3> QED
      BY <1>7, <3>1, DerivedEvent, NextSerialIsUnused DEF IInv
  <2> QED
    BY <2>1, <2>2, <2>3
<1>9. FreshIdsAreUnused'
  <2> SUFFICES ASSUME NEW q \in Providers, pc'[q] = "insert", req'[q].key = NoKey
               PROVE  /\ RowsWithId(event[q].id)' = {}
                      /\ \A e \in orphans' : e.id # event'[q].id
                      /\ \A o \in Providers \ {q} : pc'[o] = "insert" => event'[o].id # event'[q].id
    BY DEF FreshIdsAreUnused
  <2>1. CASE q = p
    BY <1>4, <1>8, <2>1 DEF IInv, TypeOK, RowsWithId
  <2>2. CASE q # p
    <3>1. pc[q] = "insert" /\ req[q].key = NoKey /\ event'[q] = event[q]
      BY <1>4, <2>2 DEF IInv, TypeOK
    <3>2. new.id # event[q].id
      <4>1. CASE r.key = NoKey
        BY <1>8, <2>2, <3>1, <4>1
      <4>2. CASE r.key # NoKey
        <5>1. new.id = StableEventId(r.caller, r.key)
          BY <1>0, <1>1, <4>2, EventOfRequest
        <5>2. req[q] \in Requests /\ Derived(event[q], req[q])
          BY <3>1 DEF DispatchedIsGenuine, IInv, TypeOK
        <5>3. PICK n \in 0 .. serial : event[q].id = NewAuditEvent(req[q], n).id
          BY <5>2, DerivedEvent DEF IInv
        <5>4. event[q].id = FreshId(req[q].caller, n)
          BY <3>1, <5>3 DEF NewAuditEvent
        <5> QED
          BY <4>2, <5>1, <5>4 DEF StableEventId, FreshId
      <4> QED
        BY <4>1, <4>2
    <3> QED
      BY <1>4, <3>1, <3>2 DEF IInv, TypeOK, FreshIdsAreUnused, RowsWithId
  <2> QED
    BY <2>1, <2>2
<1>10. SelectIsKeyed' /\ FallbackFindsRow' /\ StoredIsDurable'
  BY <1>4 DEF SelectIsKeyed, FallbackFindsRow, StoredIsDurable, RowsWithId, IInv, TypeOK
<1>11. OneRowPerId' /\ AcknowledgedIsDurable' /\ ConflictIsJustified'
  BY <1>4 DEF OneRowPerId, AcknowledgedIsDurable, ConflictIsJustified, IInv
<1> QED
  BY <1>5, <1>6, <1>9, <1>10, <1>11 DEF IInv

\* What an insertion leaves as it was: everything recorded about rows that
\* were there before.
LEMMA InsertKeepsHistory ==
  ASSUME IInv, rows \subseteq rows', UNCHANGED <<acks, conflicts>>
  PROVE  AcknowledgedIsDurable' /\ ConflictIsJustified'
BY DEF IInv, AcknowledgedIsDurable, ConflictIsJustified

\* The INSERT of a provider returned its row, or found another one.
LEMMA ExecuteInsertKeepsIInv ==
  ASSUME IInv, TypeOK', NEW p \in Providers, ExecuteInsert(p)
  PROVE  IInv'
<1>1. /\ pc[p] = "insert" /\ UNCHANGED <<clock, req, event, orphans, serial, acks, conflicts>>
      /\ InsertOnConflictDoNothing(event[p])
  BY DEF ExecuteInsert
<1>2. req[p] \in Requests /\ Derived(event[p], req[p])
  BY <1>1 DEF IInv, TypeOK, DispatchedIsGenuine
<1>3. /\ rows \subseteq rows'
      /\ RowsWithId(event[p].id)' # {}
      /\ \A row \in rows' : row \in rows \/ row.id = event[p].id
      /\ OneRowPerId'
      /\ RowsAreGenuine'
  <2>1. RowsWithId(event[p].id)' = {row \in rows' : row.id = event[p].id}
    BY <1>1 DEF RowsWithId
  <2> QED
    BY <1>1, <1>2, <2>1, InsertKeepsTable DEF RowsWithId
<1>4. DispatchedIsGenuine'
  BY <1>1 DEF ExecuteInsert, IInv, TypeOK, DispatchedIsGenuine, Derived
<1>5. \A q \in Providers : q # p => pc'[q] = pc[q] /\ stored'[q] = stored[q]
  BY DEF ExecuteInsert, IInv, TypeOK
<1>6. FreshIdsAreUnused'
  <2> SUFFICES ASSUME NEW q \in Providers, pc'[q] = "insert", req'[q].key = NoKey
               PROVE  /\ RowsWithId(event[q].id)' = {}
                      /\ \A e \in orphans' : e.id # event'[q].id
                      /\ \A o \in Providers \ {q} : pc'[o] = "insert" => event'[o].id # event'[q].id
    BY DEF FreshIdsAreUnused
  <2>1. q # p
    BY <1>1 DEF ExecuteInsert, IInv, TypeOK
  <2>2. pc[q] = "insert" /\ req[q].key = NoKey /\ event[p].id # event[q].id
    BY <1>1, <1>5, <2>1 DEF IInv, FreshIdsAreUnused
  <2>3. RowsWithId(event[q].id)' = {}
    BY <1>1, <1>3, <2>2 DEF IInv, FreshIdsAreUnused, RowsWithId
  <2> QED
    BY <1>1, <1>5, <2>1, <2>2, <2>3 DEF ExecuteInsert, IInv, TypeOK, FreshIdsAreUnused
<1>7. SelectIsKeyed' /\ FallbackFindsRow'
  <2> SUFFICES ASSUME NEW q \in Providers, pc'[q] = "select"
               PROVE  req'[q].key # NoKey /\ RowsWithId(event[q].id)' # {}
    BY DEF SelectIsKeyed, FallbackFindsRow
  <2>1. CASE q = p
    BY <1>1, <1>3, <2>1 DEF ExecuteInsert, IInv, TypeOK, FreshIdsAreUnused
  <2>2. CASE q # p
    BY <1>1, <1>3, <1>5, <2>2 DEF IInv, SelectIsKeyed, FallbackFindsRow, RowsWithId
  <2> QED
    BY <2>1, <2>2
<1>8. StoredIsDurable'
  <2> SUFFICES ASSUME NEW q \in Providers, pc'[q] = "reply"
               PROVE  \E row \in rows' : /\ row.id = event[q].id
                                         /\ stored'[q] = MapEventRow(row)
                                         /\ HoldsEvidenceOf(row, req[q])
    BY <1>1 DEF StoredIsDurable
  <2>1. CASE q = p
    <3>1. RowsWithId(event[p].id) = {}
      BY <1>1, <2>1 DEF ExecuteInsert, IInv, TypeOK
    <3>2. stored'[p] = MapEventRow(InsertedRow(event[p]))
      BY <3>1 DEF ExecuteInsert, IInv, TypeOK
    <3>3. InsertedRow(event[p]) \in rows'
      BY <1>1, <3>1 DEF InsertOnConflictDoNothing
    <3>4. HoldsEvidenceOf(InsertedRow(event[p]), req[p]) /\ InsertedRow(event[p]).id = event[p].id
      BY <1>2, DerivedEvent DEF IInv, InsertedRow
    <3> QED
      BY <2>1, <3>2, <3>3, <3>4
  <2>2. CASE q # p
    BY <1>3, <1>5, <2>2 DEF IInv, StoredIsDurable
  <2> QED
    BY <2>1, <2>2
<1>9. AcknowledgedIsDurable' /\ ConflictIsJustified'
  BY <1>1, <1>3, InsertKeepsHistory
<1> QED
  BY <1>3, <1>4, <1>6, <1>7, <1>8, <1>9 DEF IInv

\* A provider that goes idle takes nothing back.
LEMMA FinishKeepsFlight ==
  ASSUME IInv, TypeOK', NEW p \in Providers, Finish(p),
         UNCHANGED <<rows, serial>>, orphans' = orphans
  PROVE  /\ OneRowPerId' /\ DispatchedIsGenuine' /\ RowsAreGenuine'
         /\ FreshIdsAreUnused' /\ SelectIsKeyed' /\ FallbackFindsRow' /\ StoredIsDurable'
<1>1. /\ pc' = [pc EXCEPT ![p] = "idle"] /\ req' = [req EXCEPT ![p] = None]
      /\ event' = [event EXCEPT ![p] = None] /\ stored' = [stored EXCEPT ![p] = None]
  BY DEF Finish
<1>2. \A q \in Providers : pc'[q] # "idle" =>
        /\ q # p /\ pc[q] = pc'[q] /\ req'[q] = req[q]
        /\ event'[q] = event[q] /\ stored'[q] = stored[q]
  BY <1>1 DEF IInv, TypeOK
<1>3. DispatchedIsGenuine' /\ RowsAreGenuine'
  BY <1>2 DEF IInv, DispatchedIsGenuine, RowsAreGenuine, Derived
<1>4. FreshIdsAreUnused'
  BY <1>2 DEF IInv, FreshIdsAreUnused, RowsWithId
<1>5. OneRowPerId' /\ SelectIsKeyed' /\ FallbackFindsRow' /\ StoredIsDurable'
  BY <1>2 DEF IInv, OneRowPerId, SelectIsKeyed, FallbackFindsRow, StoredIsDurable, RowsWithId
<1> QED
  BY <1>3, <1>4, <1>5

\* A row found under an event's id replays it exactly when it holds the
\* evidence of the request and its metadata is not reserved.
LEMMA ReplaysIffHoldsEvidence ==
  ASSUME IInv, NEW p \in Providers, pc[p] # "idle",
         NEW row \in RowsWithId(event[p].id)
  PROVE  Replays(event[p], row) <=> /\ HoldsEvidenceOf(row, req[p])
                                   /\ RedactedAs[req[p].meta] \notin Reserved
<1>1. req[p] \in Requests /\ Derived(event[p], req[p])
  BY DEF IInv, TypeOK, DispatchedIsGenuine
<1>2. PICK n \in 0 .. MaxFresh : event[p] = Truncated(NewAuditEvent(req[p], n))
  BY <1>1, EvidenceAssumption DEF Derived, IInv, TypeOK
<1>3. /\ event[p].source = req[p].caller
      /\ event[p].body = req[p].body
      /\ event[p].meta = RedactedAs[req[p].meta]
      /\ event[p].at = Micros(req[p].at)
  BY <1>1, <1>2, EventOfRequest
<1>4. row \in rows /\ row.id = event[p].id
  BY DEF RowsWithId
<1>5. Replays(event[p], row) <=> /\ row.source = event[p].source
                                 /\ row.body = event[p].body
                                 /\ row.meta = event[p].meta
                                 /\ row.meta \notin Reserved
                                 /\ row.at = event[p].at
  <2> DEFINE found == MapEventRow(row)
             wanted == FromEvent(event[p], row.created)
  <2>1. /\ found.source = row.source /\ found.body = row.body /\ found.at = row.at
        /\ found.meta = Projected(row.meta)
    BY DEF MapEventRow
  <2>2. /\ wanted.source = event[p].source /\ wanted.body = event[p].body
        /\ wanted.at = event[p].at
        /\ wanted.meta = [envelope |-> "none", value |-> event[p].meta]
    BY DEF FromEvent
  <2>3. Projected(row.meta) = [envelope |-> "none", value |-> event[p].meta]
          <=> row.meta = event[p].meta /\ row.meta \notin Reserved
    BY DEF Projected
  <2>4. found = wanted <=> /\ found.source = wanted.source
                           /\ found.body = wanted.body
                           /\ found.meta = wanted.meta
                           /\ found.at = wanted.at
    BY <1>4 DEF MapEventRow, FromEvent
  <2> HIDE DEF found, wanted
  <2>5. found = wanted <=> /\ row.source = event[p].source
                           /\ row.body = event[p].body
                           /\ row.meta = event[p].meta
                           /\ row.meta \notin Reserved
                           /\ row.at = event[p].at
    BY <2>1, <2>2, <2>3, <2>4
  <2> QED
    BY <2>5 DEF Replays, found, wanted
<1> QED
  BY <1>3, <1>5 DEF HoldsEvidenceOf

\* The second statement decides between a replay and a conflict.
LEMMA FallbackSelectKeepsIInv ==
  ASSUME IInv, TypeOK', NEW p \in Providers, FallbackSelect(p)
  PROVE  IInv'
<1>1. /\ pc[p] = "select" /\ UNCHANGED <<rows, clock, orphans, serial, acks>>
      /\ RowsWithId(event[p].id) # {}
  BY DEF FallbackSelect, IInv, FallbackFindsRow
<1>2. PICK row \in RowsWithId(event[p].id) :
        IF Replays(event[p], row)
        THEN /\ stored' = [stored EXCEPT ![p] = MapEventRow(row)]
             /\ pc' = [pc EXCEPT ![p] = "reply"]
             /\ UNCHANGED <<req, event, conflicts>>
        ELSE /\ conflicts' = conflicts \cup {req[p]}
             /\ Finish(p)
  BY <1>1 DEF FallbackSelect
<1>3. row \in rows /\ row.id = event[p].id
  BY DEF RowsWithId
<1>4. AcknowledgedIsDurable'
  BY <1>1 DEF IInv, AcknowledgedIsDurable
<1>5. CASE Replays(event[p], row)
  <2>1. HoldsEvidenceOf(row, req[p])
    BY <1>1, <1>5, ReplaysIffHoldsEvidence
  <2>2. /\ stored' = [stored EXCEPT ![p] = MapEventRow(row)]
        /\ pc' = [pc EXCEPT ![p] = "reply"]
        /\ UNCHANGED <<req, event, conflicts>>
    BY <1>2, <1>5
  <2>3. \A q \in Providers : q # p => pc'[q] = pc[q] /\ stored'[q] = stored[q]
    BY <2>2 DEF IInv, TypeOK
  <2>4. pc'[p] = "reply" /\ stored'[p] = MapEventRow(row)
    BY <2>2 DEF IInv, TypeOK
  <2>5. StoredIsDurable'
    BY <1>1, <1>3, <2>1, <2>2, <2>3, <2>4 DEF IInv, StoredIsDurable
  <2>6. DispatchedIsGenuine' /\ RowsAreGenuine' /\ OneRowPerId' /\ ConflictIsJustified'
    BY <1>1, <2>2, <2>3 DEF IInv, DispatchedIsGenuine, RowsAreGenuine, OneRowPerId,
                            ConflictIsJustified, Derived
  <2>7. FreshIdsAreUnused' /\ SelectIsKeyed' /\ FallbackFindsRow'
    BY <1>1, <2>2, <2>3, <2>4 DEF IInv, FreshIdsAreUnused, SelectIsKeyed,
                                  FallbackFindsRow, RowsWithId
  <2> QED
    BY <1>4, <2>5, <2>6, <2>7 DEF IInv
<1>6. CASE ~ Replays(event[p], row)
  <2>1. conflicts' = conflicts \cup {req[p]} /\ Finish(p)
    BY <1>2, <1>6
  <2>2. ~ HoldsEvidenceOf(row, req[p]) \/ RedactedAs[req[p].meta] \in Reserved
    BY <1>1, <1>6, ReplaysIffHoldsEvidence
  <2>3. req[p].key # NoKey /\ req[p] \in Requests /\ Derived(event[p], req[p])
    BY <1>1 DEF IInv, SelectIsKeyed, TypeOK, DispatchedIsGenuine
  <2>4. row.id = StableEventId(req[p].caller, req[p].key)
    BY <1>3, <2>3, DerivedEvent DEF IInv
  <2>5. ConflictIsJustified'
    BY <1>1, <1>3, <2>1, <2>2, <2>3, <2>4 DEF IInv, ConflictIsJustified
  <2> QED
    BY <1>1, <1>4, <2>1, <2>5, FinishKeepsFlight DEF IInv
<1> QED
  BY <1>5, <1>6

\* A provider answers with the event it read.
LEMMA ReplyKeepsIInv ==
  ASSUME IInv, TypeOK', NEW p \in Providers, Reply(p)
  PROVE  IInv'
<1>1. /\ pc[p] = "reply" /\ Finish(p) /\ UNCHANGED <<rows, clock, orphans, serial, conflicts>>
      /\ acks' \subseteq acks \cup {[req |-> req[p], event |-> stored[p]]}
  BY DEF Reply
<1>2. PICK row \in rows : /\ row.id = event[p].id
                          /\ stored[p] = MapEventRow(row)
                          /\ HoldsEvidenceOf(row, req[p])
  BY <1>1 DEF IInv, StoredIsDurable
<1>3. req[p] \in Requests /\ Derived(event[p], req[p])
  BY <1>1 DEF IInv, TypeOK, DispatchedIsGenuine
<1>4. req[p].key # NoKey => row.id = StableEventId(req[p].caller, req[p].key)
  BY <1>2, <1>3, DerivedEvent DEF IInv
<1>5. AcknowledgedIsDurable'
  BY <1>1, <1>2, <1>4 DEF IInv, AcknowledgedIsDurable
<1>6. ConflictIsJustified'
  BY <1>1 DEF IInv, ConflictIsJustified
<1> QED
  BY <1>1, <1>5, <1>6, FinishKeepsFlight DEF IInv

\* An append that ends early leaves at most its own INSERT behind.
LEMMA AbandonKeepsIInv ==
  ASSUME IInv, TypeOK', NEW p \in Providers, Abandon(p)
  PROVE  IInv'
<1>1. /\ pc[p] # "idle" /\ Finish(p) /\ UNCHANGED <<rows, clock, serial, acks, conflicts>>
      /\ \/ orphans' = orphans
         \/ pc[p] = "insert" /\ orphans' = orphans \cup {event[p]}
  BY DEF Abandon
<1>2. AcknowledgedIsDurable' /\ ConflictIsJustified'
  BY <1>1, InsertKeepsHistory
<1>3. CASE orphans' = orphans
  BY <1>1, <1>2, <1>3, FinishKeepsFlight DEF IInv
<1>4. CASE pc[p] = "insert" /\ orphans' = orphans \cup {event[p]}
  <2>1. \A q \in Providers : pc'[q] # "idle" =>
          /\ q # p /\ pc[q] = pc'[q] /\ req'[q] = req[q]
          /\ event'[q] = event[q] /\ stored'[q] = stored[q]
    BY <1>1 DEF Finish, IInv, TypeOK
  <2>2. req[p] \in Requests /\ Derived(event[p], req[p])
    BY <1>1 DEF IInv, TypeOK, DispatchedIsGenuine
  <2>3. DispatchedIsGenuine'
    BY <1>1, <1>4, <2>1, <2>2 DEF IInv, DispatchedIsGenuine, Derived
  <2>4. FreshIdsAreUnused'
    BY <1>1, <1>4, <2>1 DEF IInv, FreshIdsAreUnused, RowsWithId
  <2>5. OneRowPerId' /\ RowsAreGenuine'
    BY <1>1 DEF IInv, OneRowPerId, RowsAreGenuine
  <2>6. SelectIsKeyed' /\ FallbackFindsRow' /\ StoredIsDurable'
    BY <1>1, <2>1 DEF IInv, SelectIsKeyed, FallbackFindsRow, StoredIsDurable, RowsWithId
  <2> QED
    BY <1>2, <2>3, <2>4, <2>5, <2>6 DEF IInv
<1> QED
  BY <1>1, <1>3, <1>4

\* An INSERT nobody waits for commits, or finds its id taken.
LEMMA OrphanCommitsKeepsIInv ==
  ASSUME IInv, TypeOK', NEW e \in orphans, OrphanCommits(e)
  PROVE  IInv'
<1>1. /\ InsertOnConflictDoNothing(e) /\ orphans' = orphans \ {e}
      /\ UNCHANGED <<clock, pc, req, event, stored, serial, acks, conflicts>>
  BY DEF OrphanCommits
<1>2. PICK r \in Requests : Derived(e, r)
  BY DEF IInv, DispatchedIsGenuine
<1>3. /\ rows \subseteq rows'
      /\ \A row \in rows' : row \in rows \/ row.id = e.id
      /\ OneRowPerId'
      /\ RowsAreGenuine'
  BY <1>1, <1>2, InsertKeepsTable
<1>4. DispatchedIsGenuine'
  BY <1>1 DEF IInv, DispatchedIsGenuine, Derived
<1>5. FreshIdsAreUnused'
  BY <1>1, <1>3 DEF IInv, FreshIdsAreUnused, RowsWithId
<1>6. SelectIsKeyed' /\ FallbackFindsRow' /\ StoredIsDurable'
  BY <1>1, <1>3 DEF IInv, SelectIsKeyed, FallbackFindsRow, StoredIsDurable, RowsWithId
<1>7. AcknowledgedIsDurable' /\ ConflictIsJustified'
  BY <1>1, <1>3, InsertKeepsHistory
<1> QED
  BY <1>3, <1>4, <1>5, <1>6, <1>7 DEF IInv

\* An INSERT that never runs, the clock, and stuttering change no evidence.
LEMMA OtherStepsKeepIInv ==
  ASSUME IInv, TypeOK', orphans' \subseteq orphans,
         UNCHANGED <<rows, pc, req, event, stored, serial, acks, conflicts>>
  PROVE  IInv'
BY DEF IInv, OneRowPerId, DispatchedIsGenuine, RowsAreGenuine, FreshIdsAreUnused,
   SelectIsKeyed, FallbackFindsRow, StoredIsDurable, AcknowledgedIsDurable,
   ConflictIsJustified, Derived, RowsWithId

LEMMA IInvStep == IInv /\ [Next]_vars => IInv'
<1> SUFFICES ASSUME IInv, [Next]_vars PROVE IInv'
  OBVIOUS
<1>0. TypeOK'
  BY TypeOKStep DEF IInv
<1>1. ASSUME NEW p \in Providers, NEW r \in Requests, BeginAppend(p, r) PROVE IInv'
  BY <1>0, <1>1, BeginAppendKeepsIInv
<1>2. ASSUME NEW p \in Providers, ExecuteInsert(p) PROVE IInv'
  BY <1>0, <1>2, ExecuteInsertKeepsIInv
<1>3. ASSUME NEW p \in Providers, FallbackSelect(p) PROVE IInv'
  BY <1>0, <1>3, FallbackSelectKeepsIInv
<1>4. ASSUME NEW p \in Providers, Reply(p) PROVE IInv'
  BY <1>0, <1>4, ReplyKeepsIInv
<1>5. ASSUME NEW p \in Providers, Abandon(p) PROVE IInv'
  BY <1>0, <1>5, AbandonKeepsIInv
<1>6. ASSUME NEW e \in orphans, OrphanCommits(e) PROVE IInv'
  BY <1>0, <1>6, OrphanCommitsKeepsIInv
<1>7. ASSUME NEW e \in orphans, OrphanIsLost(e) PROVE IInv'
  BY <1>0, <1>7, OtherStepsKeepIInv DEF OrphanIsLost
<1>8. CASE Tick
  BY <1>0, <1>8, OtherStepsKeepIInv DEF Tick
<1>9. CASE UNCHANGED vars
  BY <1>0, <1>9, OtherStepsKeepIInv DEF vars
<1> QED
  BY <1>1, <1>2, <1>3, <1>4, <1>5, <1>6, <1>7, <1>8, <1>9 DEF Next

\* The inductive invariant holds in every reachable state.
THEOREM Invariant == Spec => []IInv
BY IInvInit, IInvStep, PTL DEF Spec

-----------------------------------------------------------------------------
(* The safety properties. *)

\* One row per id, whatever the interleaving of INSERTs.
THEOREM UniqueRows == Spec => []OneRowPerId
BY Invariant, PTL DEF IInv

\* No row is forged, misattributed or unredacted.
THEOREM GenuineRows == Spec => []RowsAreGenuine
BY Invariant, PTL DEF IInv

\* An answered append is durable and reads back as it was answered.
THEOREM DurableAnswers == Spec => []AcknowledgedIsDurable
BY Invariant, PTL DEF IInv

\* Every idempotency_conflict has a cause in the table.
THEOREM JustifiedConflicts == Spec => []ConflictIsJustified
BY Invariant, PTL DEF IInv

\* The read after ON CONFLICT DO NOTHING cannot miss.
THEOREM FallbackReads == Spec => []FallbackFindsRow
BY Invariant, PTL DEF IInv

\* A caller's key stands for one event, and only for that caller's.
THEOREM StableKeys == Spec => []OneEventPerKey
<1>1. IInv => OneEventPerKey
  <2> SUFFICES ASSUME IInv, NEW a \in acks, NEW b \in acks,
                      a.req.key # NoKey, b.req.key = a.req.key
               PROVE  a.event = b.event <=> a.req.caller = b.req.caller
    BY DEF OneEventPerKey
  <2>1. PICK row1 \in rows : /\ a.event = MapEventRow(row1)
                             /\ row1.source = a.req.caller
                             /\ row1.id = StableEventId(a.req.caller, a.req.key)
    BY DEF IInv, AcknowledgedIsDurable, HoldsEvidenceOf
  <2>2. PICK row2 \in rows : /\ b.event = MapEventRow(row2)
                             /\ row2.source = b.req.caller
                             /\ row2.id = StableEventId(b.req.caller, b.req.key)
    BY DEF IInv, AcknowledgedIsDurable, HoldsEvidenceOf
  <2>3. a.req.caller = b.req.caller => row1 = row2
    BY <2>1, <2>2 DEF IInv, OneRowPerId
  <2>4. a.event.source = row1.source /\ b.event.source = row2.source
    BY <2>1, <2>2 DEF MapEventRow
  <2> QED
    BY <2>1, <2>2, <2>3, <2>4
<1> QED
  BY <1>1, Invariant, PTL

\* No step removes or rewrites evidence.
THEOREM NothingIsLost == Spec => AppendOnly
<1>1. [Next]_vars => [rows \subseteq rows']_rows
  <2> SUFFICES ASSUME [Next]_vars PROVE rows \subseteq rows'
    OBVIOUS
  <2> USE DEF InsertOnConflictDoNothing
  <2> QED
    BY DEF Next, vars, BeginAppend, ExecuteInsert, FallbackSelect, Reply, Abandon,
       OrphanCommits, OrphanIsLost, Tick
<1> QED
  BY <1>1, PTL DEF Spec, AppendOnly

-----------------------------------------------------------------------------
(* PostgresAppend implements AuditLog: the log is the table.  INSERTs that  *)
(* write a row map to Record, answers to Acknowledge and Refuse, everything *)
(* else to a stutter.                                                       *)

\* The abstract log and the Plugin speak the same vocabulary.
LEMMA SameVocabulary ==
  /\ \A r, n : Promise!NewAuditEvent(r, n) = NewAuditEvent(r, n)
  /\ \A r : Promise!AuthorizedWriter(r) <=> AuthorizedWriter(r)
  /\ \A r : Promise!ValidRequest(r) <=> ValidRequest(r)
  /\ \A row, r : Promise!Holds(row, r) <=> HoldsEvidenceOf(row, r)
  /\ \A s, k : Promise!StableEventId(s, k) = StableEventId(s, k)
BY DEF Promise!NewAuditEvent, NewAuditEvent, Promise!AuthorizedWriter, AuthorizedWriter,
       Promise!ValidRequest, ValidRequest, Promise!Holds, HoldsEvidenceOf, Truncated,
       Promise!StableEventId, StableEventId, Promise!FreshId, FreshId

\* An INSERT, awaited or orphaned, records evidence or changes nothing.
LEMMA InsertIsRecord ==
  ASSUME IInv, NEW r \in Requests, NEW e, Derived(e, r),
         InsertOnConflictDoNothing(e), UNCHANGED <<acks, conflicts>>
  PROVE  [Promise!Next]_(Promise!vars)
<1>1. PICK n \in 0 .. serial : e = Truncated(NewAuditEvent(r, n))
  BY DEF Derived
<1>2. n \in 0 .. MaxFresh /\ clock \in 0 .. MaxClock
  BY EvidenceAssumption DEF IInv, TypeOK
<1>3. CASE RowsWithId(e.id) = {}
  <2>1. InsertedRow(e) = [id |-> e.id, source |-> e.source, body |-> e.body,
                          meta |-> e.meta, at |-> e.at, created |-> clock]
    <3>1. e.at = Micros(r.at) /\ Micros(e.at) = Micros(r.at)
      BY <1>1, <1>2, EventOfRequest, MicrosIdempotent
    <3> QED
      BY <3>1 DEF InsertedRow
  <2>2. rows' = rows \cup {InsertedRow(e)}
    BY <1>3 DEF InsertOnConflictDoNothing
  <2>3. \A row \in rows : row.id # e.id
    BY <1>3 DEF RowsWithId
  <2>4. Promise!Record(r, n, clock)
    BY <1>1, <2>1, <2>2, <2>3, SameVocabulary DEF Promise!Record, Derived
  <2> QED
    BY <1>2, <2>4 DEF Promise!Next
<1>4. CASE RowsWithId(e.id) # {}
  BY <1>4 DEF InsertOnConflictDoNothing, Promise!vars
<1> QED
  BY <1>3, <1>4

\* The two-statement append over a shared table, with its orphans and retries,
\* is an implementation of the abstract log.
THEOREM ImplementsAuditLog == Spec => KeepsPromise
<1>1. Init => Promise!Init
  BY DEF Init, Promise!Init
<1>2. IInv /\ IInv' /\ [Next]_vars => [Promise!Next]_(Promise!vars)
  <2> SUFFICES ASSUME IInv, IInv', [Next]_vars
               PROVE  [Promise!Next]_(Promise!vars)
    OBVIOUS
  <2>1. ASSUME NEW p \in Providers, ExecuteInsert(p)
        PROVE  [Promise!Next]_(Promise!vars)
    <3>1. req[p] \in Requests /\ Derived(event[p], req[p])
      BY <2>1 DEF ExecuteInsert, IInv, TypeOK, DispatchedIsGenuine
    <3> QED
      BY <2>1, <3>1, InsertIsRecord DEF ExecuteInsert
  <2>2. ASSUME NEW e \in orphans, OrphanCommits(e)
        PROVE  [Promise!Next]_(Promise!vars)
    <3>1. PICK r \in Requests : Derived(e, r)
      BY DEF IInv, DispatchedIsGenuine
    <3> QED
      BY <2>2, <3>1, InsertIsRecord DEF OrphanCommits
  <2>3. ASSUME NEW p \in Providers, FallbackSelect(p)
        PROVE  [Promise!Next]_(Promise!vars)
    <3>1. CASE UNCHANGED conflicts
      BY <2>3, <3>1 DEF FallbackSelect, Promise!vars
    <3>2. CASE conflicts' = conflicts \cup {req[p]} /\ conflicts' # conflicts
      <4>1. req[p] \in Requests
        BY <2>3 DEF FallbackSelect, IInv, TypeOK
      <4>2. Promise!Refuse(req[p])
        BY <2>3, <3>2, SameVocabulary
           DEF FallbackSelect, IInv, ConflictIsJustified, Promise!Refuse
      <4> QED
        BY <4>1, <4>2 DEF Promise!Next
    <3> QED
      BY <2>3, <3>1, <3>2 DEF FallbackSelect
  <2>4. ASSUME NEW p \in Providers, Reply(p)
        PROVE  [Promise!Next]_(Promise!vars)
    <3>1. CASE acks' = acks
      BY <2>4, <3>1 DEF Reply, Promise!vars
    <3>2. CASE acks' = acks \cup {[req |-> req[p], event |-> stored[p]]}
      <4>1. req[p] \in Requests /\ Derived(event[p], req[p])
        BY <2>4 DEF Reply, IInv, TypeOK, DispatchedIsGenuine
      <4>2. PICK row \in rows : /\ row.id = event[p].id
                                /\ stored[p] = MapEventRow(row)
                                /\ HoldsEvidenceOf(row, req[p])
        BY <2>4 DEF Reply, IInv, StoredIsDurable
      <4>3. req[p].key # NoKey => row.id = StableEventId(req[p].caller, req[p].key)
        BY <4>1, <4>2, DerivedEvent DEF IInv
      <4>4. Promise!Acknowledge(req[p], row)
        BY <2>4, <3>2, <4>2, <4>3, SameVocabulary DEF Reply, MapEventRow, Promise!Acknowledge
      <4> QED
        BY <4>1, <4>4 DEF Promise!Next
    <3> QED
      BY <2>4, <3>1, <3>2 DEF Reply
  <2>5. CASE UNCHANGED <<rows, acks, conflicts>>
    BY <2>5 DEF Promise!vars
  <2> QED
    BY <2>1, <2>2, <2>3, <2>4, <2>5
       DEF Next, vars, BeginAppend, Abandon, OrphanIsLost, Tick
<1> QED
  BY <1>1, <1>2, Invariant, PTL DEF Spec, KeepsPromise, Promise!Spec
=============================================================================
