--------------------------- MODULE D1Store_proofs ---------------------------
(***************************************************************************)
(* Proofs about D1Store and the setup it stands on (D1Schema), for any     *)
(* number of isolates, operators, callers, keys, requests and clock        *)
(* readings.                                                               *)
(***************************************************************************)
EXTENDS D1Store, TLAPS

-----------------------------------------------------------------------------
(* The schema. *)

\* A setup that has seen a ledger, or has run its batch, finds one.
SetupHasSeenLedger ==
  \A o \in Operators : setup[o] \in {"checkVersion", "verify"} => ledger # 0

SchemaIInv == SchemaTypeOK /\ SetupIsTrue /\ SetupHasSeenLedger

\* The schema is absent, and no setup has begun.
LEMMA SchemaInitIInv == SchemaInit => SchemaIInv
BY DEF SchemaInit, SchemaIInv, SchemaTypeOK, SetupIsTrue, SetupHasSeenLedger, Tables,
       SetupPhases, Ended, SchemaVersion, NewerVersion

\* Every statement of a setup, and everything others do to the schema, keeps
\* the invariant, and leaves alone a schema that has a ledger.
LEMMA SchemaStep ==
  ASSUME SchemaIInv, SchemaNext
  PROVE  SchemaIInv' /\ (ledger # 0 => UNCHANGED <<ledger, table>>)
<1> USE DEF SchemaIInv, SchemaTypeOK, SetupIsTrue, SetupHasSeenLedger, Tables,
            SetupPhases, Ended, SchemaVersion, NewerVersion, Goto
<1>1. ASSUME NEW o \in Operators, InspectLedger(o)
      PROVE  SchemaIInv' /\ UNCHANGED <<ledger, table>>
  BY <1>1 DEF InspectLedger
<1>2. ASSUME NEW o \in Operators, CheckTable(o)
      PROVE  SchemaIInv' /\ UNCHANGED <<ledger, table>>
  BY <1>2 DEF CheckTable
<1>3. ASSUME NEW o \in Operators, CheckVersion(o)
      PROVE  SchemaIInv' /\ UNCHANGED <<ledger, table>>
  BY <1>3 DEF CheckVersion
<1>4. ASSUME NEW o \in Operators, RunDDL(o)
      PROVE  SchemaIInv' /\ (ledger # 0 => UNCHANGED <<ledger, table>>)
  BY <1>4 DEF RunDDL
<1>5. ASSUME NEW o \in Operators, VerifyVersion(o)
      PROVE  SchemaIInv' /\ UNCHANGED <<ledger, table>>
  BY <1>5 DEF VerifyVersion
<1>6. ASSUME NEW o \in Operators, SetupFails(o)
      PROVE  SchemaIInv' /\ UNCHANGED <<ledger, table>>
  BY <1>6 DEF SetupFails
<1>7. CASE ForeignTable
  BY <1>7 DEF ForeignTable
<1>8. CASE NewerRelease
  BY <1>8 DEF NewerRelease
<1> QED
  BY <1>1, <1>2, <1>3, <1>4, <1>5, <1>6, <1>7, <1>8 DEF SchemaNext

-----------------------------------------------------------------------------
(* Events and rows. *)

\* The event of a request and the row of that event are well-formed; what the
\* row holds is the evidence of the request as JavaScript keeps it.
LEMMA RowOfRequest ==
  ASSUME NEW r \in Requests, NEW n \in 0 .. MaxFresh, NEW now \in 0 .. MaxClock
  PROVE  LET e   == NewAuditEvent(r, n)
             row == EventRow(e, now)
         IN  /\ e \in Event
             /\ row \in Row
             /\ e.id = (IF r.key = NoKey THEN FreshId(r.caller, n)
                                         ELSE StableEventId(r.caller, r.key))
             /\ e.source = r.caller /\ e.body = r.body
             /\ e.meta = RedactedAs[r.meta] /\ e.at = r.at
             /\ row.id = e.id
             /\ row.meta \in Metas /\ AsJavaScript[row.meta] = row.meta
             /\ Promise!Holds(row, r)
<1>1. /\ r.caller \in Callers /\ r.key \in Keys \cup {NoKey} /\ r.body \in Bodies
      /\ r.meta \in Metas /\ r.at \in Instants
  BY RequestsAssumption, EvidenceAssumption DEF Request
<1>2. RedactedAs[r.meta] \in Metas
  BY <1>1, EvidenceAssumption
<1>3. /\ AsJavaScript[RedactedAs[r.meta]] \in Metas
      /\ AsJavaScript[AsJavaScript[RedactedAs[r.meta]]] = AsJavaScript[RedactedAs[r.meta]]
  BY <1>2, D1Assumption
<1> DEFINE e == NewAuditEvent(r, n)
           row == EventRow(e, now)
<1>4. e = [id |-> IF r.key = NoKey THEN FreshId(r.caller, n) ELSE StableEventId(r.caller, r.key),
           source |-> r.caller, body |-> r.body, meta |-> RedactedAs[r.meta], at |-> r.at]
  BY DEF NewAuditEvent
<1>5. e.id \in EventIds
  BY <1>1, <1>4, EvidenceAssumption DEF EventIds, FreshId, StableEventId
<1>6. e \in Event
  BY <1>1, <1>2, <1>4, <1>5 DEF Event
<1>7. row = [id |-> e.id, source |-> e.source, body |-> e.body,
             meta |-> AsJavaScript[e.meta], at |-> e.at, created |-> now]
  BY <1>4 DEF EventRow, InJavaScript
<1>8. row \in Row
  BY <1>1, <1>3, <1>4, <1>5, <1>7 DEF Row
<1>9. Promise!Holds(row, r)
  BY <1>4, <1>7 DEF Promise!Holds, Promise!NewAuditEvent, InJavaScript
<1> QED
  BY <1>3, <1>4, <1>6, <1>7, <1>8, <1>9

\* What an isolate reads back is a StoredEvent.
LEMMA DecodedIsStoredEvent ==
  ASSUME NEW row \in Row
  PROVE  DecodedEvent(row) \in StoredEvent
BY DEF DecodedEvent, Bare, Row, StoredEvent, Envelopes

\* INSERT .. ON CONFLICT DO NOTHING adds one row at most, and takes none away.
LEMMA InsertAdds ==
  ASSUME NEW row, InsertOnConflictDoNothing(row)
  PROVE  rows \subseteq rows' /\ rows' \subseteq rows \cup {row}
BY DEF InsertOnConflictDoNothing

\* The clock reading and the serial number of a new call.
LEMMA BeginAppendDraws ==
  ASSUME serial \in 0 .. MaxFresh,
         NEW w \in Workers, NEW r \in Requests, NEW now \in Readings[w], BeginAppend(w, r, now)
  PROVE  /\ now \in 0 .. MaxClock
         /\ serial \in Nat /\ serial' \in 0 .. MaxFresh
         /\ 0 .. serial \subseteq 0 .. serial' /\ serial' \in 0 .. serial'
         /\ r.key = NoKey => serial' = serial + 1
<1>1. Readings[w] \in SUBSET (0 .. MaxClock)
  BY D1Assumption
<1>2. MaxFresh \in Nat
  BY EvidenceAssumption
<1>3. /\ r.key = NoKey => serial < MaxFresh /\ serial' = serial + 1
      /\ r.key # NoKey => serial' = serial
  BY DEF BeginAppend
<1>4. serial \in Nat /\ serial' \in 0 .. MaxFresh /\ serial <= serial'
  BY <1>2, <1>3
<1> QED
  BY <1>1, <1>2, <1>3, <1>4

-----------------------------------------------------------------------------
(* Type correctness. *)

\* Every step, and every stuttering step, preserves TypeOK.
LEMMA TypeOKStep == TypeOK /\ SchemaIInv /\ [Next]_vars => TypeOK'
<1> SUFFICES ASSUME TypeOK, SchemaIInv, [Next]_vars PROVE TypeOK'
  OBVIOUS
<1> USE DEF TypeOK, Phases, schemaVars, SchemaTypeOK
<1>1. ASSUME NEW w \in Workers, Prepare(w)
      PROVE  TypeOK'
  BY <1>1 DEF Prepare, callVars
<1>2. ASSUME NEW w \in Workers, NEW r \in Requests, NEW now \in Readings[w], BeginAppend(w, r, now)
      PROVE  TypeOK'
  <2>1. serial' \in 0 .. MaxFresh /\ now \in 0 .. MaxClock
    BY <1>2, BeginAppendDraws
  <2>2. /\ NewAuditEvent(r, serial') \in Event
        /\ EventRow(NewAuditEvent(r, serial'), now) \in Row
    BY <2>1, RowOfRequest
  <2> QED
    BY <1>2, <2>1, <2>2 DEF BeginAppend
<1>3. ASSUME NEW w \in Workers, ExecuteBatch(w)
      PROVE  TypeOK'
  <2>1. CASE table = "owned"
    <3>1. rows \subseteq rows' /\ rows' \subseteq Row
      BY <1>3, <2>1, InsertAdds DEF ExecuteBatch
    <3>2. PICK row \in rows' : stored' = [stored EXCEPT ![w] = row]
      BY <1>3, <2>1 DEF ExecuteBatch
    <3> QED
      BY <1>3, <2>1, <3>1, <3>2 DEF ExecuteBatch
  <2>2. CASE table # "owned"
    BY <1>3, <2>2 DEF ExecuteBatch, Finish
  <2> QED
    BY <2>1, <2>2
<1>4. ASSUME NEW w \in Workers, Answer(w)
      PROVE  TypeOK'
  <2>1. acks' \subseteq [req : Requests, event : StoredEvent] /\ conflicts' \subseteq Requests
    BY <1>4, DecodedIsStoredEvent DEF Answer
  <2> QED
    BY <1>4, <2>1 DEF Answer, Finish
<1>5. ASSUME NEW w \in Workers, Abandon(w)
      PROVE  TypeOK'
  <2>1. orphans' \subseteq Row
    BY <1>5 DEF Abandon
  <2> QED
    BY <1>5, <2>1 DEF Abandon, Finish
<1>6. ASSUME NEW row \in orphans, OrphanCommits(row)
      PROVE  TypeOK'
  <2>1. rows \subseteq rows' /\ rows' \subseteq Row
    BY <1>6, InsertAdds DEF OrphanCommits
  <2> QED
    BY <1>6, <2>1 DEF OrphanCommits, callVars
<1>7. CASE SetupStep
  <2>1. SchemaTypeOK'
    BY <1>7, SchemaStep DEF SetupStep, SchemaIInv
  <2> QED
    BY <1>7, <2>1 DEF SetupStep, callVars
<1>8. CASE UNCHANGED vars
  BY <1>8 DEF vars, callVars
<1> QED
  BY <1>1, <1>2, <1>3, <1>4, <1>5, <1>6, <1>7, <1>8 DEF Next

-----------------------------------------------------------------------------
(* The invariant. *)

\* The row is what an authorized writer's valid request asked to keep.
Derived(row, r) ==
  /\ AuthorizedWriter(r)
  /\ ValidRequest(r)
  /\ \E n \in 0 .. serial, now \in 0 .. MaxClock : row = EventRow(NewAuditEvent(r, n), now)

\* A call in flight carries the event of its request and the row of that event.
DispatchedIsGenuine ==
  \A w \in Workers : pc[w] \in {"batch", "receipt"} =>
    /\ AuthorizedWriter(req[w])
    /\ ValidRequest(req[w])
    /\ \E n \in 0 .. serial, now \in 0 .. MaxClock :
         /\ event[w] = NewAuditEvent(req[w], n)
         /\ submitted[w] = EventRow(event[w], now)

\* Every row, stored or on its way, is somebody's evidence.
RowsAreGenuine == \A row \in rows \cup orphans : \E r \in Requests : Derived(row, r)

\* The random id of an unkeyed append is in no row, in no batch on its way and
\* in nobody else's batch.
FreshIdsAreUnused ==
  \A w \in Workers : pc[w] = "batch" /\ req[w].key = NoKey =>
    /\ \A row \in rows \cup orphans : row.id # submitted[w].id
    /\ \A v \in Workers \ {w} : pc[v] = "batch" => submitted[v].id # submitted[w].id

\* A receipt holds the row under the id that was submitted; without a key that
\* is the very row.
ReceiptIsStored ==
  \A w \in Workers : pc[w] = "receipt" =>
    /\ stored[w].id = submitted[w].id
    /\ req[w].key = NoKey => stored[w] = submitted[w]

\* A batch that nobody waits for was submitted by an isolate that was prepared.
OrphansAreManaged == orphans # {} => ledger = SchemaVersion

IInv ==
  /\ TypeOK
  /\ SchemaIInv
  /\ ServesManagedSchema
  /\ OrphansAreManaged
  /\ DispatchedIsGenuine
  /\ RowsAreGenuine
  /\ FreshIdsAreUnused
  /\ ReceiptIsStored

-----------------------------------------------------------------------------
(* It is inductive. *)

\* Before anything has run.
LEMMA InitIInv == Init => IInv
<1> SUFFICES ASSUME Init PROVE IInv
  OBVIOUS
<1>1. SchemaIInv
  BY SchemaInitIInv DEF Init
<1>2. TypeOK
  BY <1>1, EvidenceAssumption DEF Init, TypeOK, Phases, SchemaIInv
<1> QED
  BY <1>1, <1>2 DEF Init, IInv, ServesManagedSchema, OrphansAreManaged, DispatchedIsGenuine,
                    RowsAreGenuine, FreshIdsAreUnused, ReceiptIsStored

\* The row of a call in flight.
LEMMA SubmittedRow ==
  ASSUME IInv, NEW w \in Workers, pc[w] \in {"batch", "receipt"}
  PROVE  /\ req[w] \in Requests
         /\ Derived(submitted[w], req[w])
         /\ submitted[w].id = event[w].id
         /\ Promise!Holds(submitted[w], req[w])
         /\ event[w].source = req[w].caller /\ event[w].body = req[w].body
         /\ event[w].meta = RedactedAs[req[w].meta] /\ event[w].at = req[w].at
         /\ req[w].key # NoKey => event[w].id = StableEventId(req[w].caller, req[w].key)
<1>1. PICK n \in 0 .. serial, now \in 0 .. MaxClock :
        /\ event[w] = NewAuditEvent(req[w], n)
        /\ submitted[w] = EventRow(event[w], now)
  BY DEF IInv, DispatchedIsGenuine
<1>2. req[w] \in Requests /\ n \in 0 .. MaxFresh
  BY EvidenceAssumption DEF IInv, TypeOK
<1>3. Derived(submitted[w], req[w])
  BY <1>1 DEF IInv, DispatchedIsGenuine, Derived
<1> QED
  BY <1>1, <1>2, <1>3, RowOfRequest

\* A random id that has not been drawn yet is in no genuine row.
LEMMA NextSerialIsUnused ==
  ASSUME TypeOK, NEW r \in Requests, NEW other \in Requests, r.key = NoKey,
         NEW row, Derived(row, other)
  PROVE  row.id # FreshId(r.caller, serial + 1)
<1>1. PICK n \in 0 .. serial, now \in 0 .. MaxClock : row = EventRow(NewAuditEvent(other, n), now)
  BY DEF Derived
<1>2. n \in 0 .. MaxFresh /\ n # serial + 1
  BY EvidenceAssumption DEF TypeOK
<1>3. row.id = IF other.key = NoKey THEN <<other.caller, NoKey, n>> ELSE <<other.caller, other.key, 0>>
  BY <1>1, <1>2, RowOfRequest DEF FreshId, StableEventId
<1> QED
  BY <1>2, <1>3 DEF FreshId

\* A new call: nothing durable changes, and a fresh id is nobody else's.
LEMMA BeginAppendKeepsIInv ==
  ASSUME IInv, TypeOK', NEW w \in Workers, NEW r \in Requests, NEW now \in Readings[w],
         BeginAppend(w, r, now)
  PROVE  IInv'
<1> DEFINE e   == NewAuditEvent(r, serial')
           new == EventRow(e, now)
<1>1. /\ pc[w] = "idle" /\ AuthorizedWriter(r) /\ ValidRequest(r)
      /\ pc' = [pc EXCEPT ![w] = "batch"]
      /\ req' = [req EXCEPT ![w] = r]
      /\ event' = [event EXCEPT ![w] = e]
      /\ submitted' = [submitted EXCEPT ![w] = new]
      /\ UNCHANGED <<rows, stored, orphans, acks, conflicts, ledger, table, setup>>
  BY DEF BeginAppend, schemaVars
<1>2. /\ serial \in Nat /\ serial' \in 0 .. MaxFresh /\ now \in 0 .. MaxClock
      /\ 0 .. serial \subseteq 0 .. serial' /\ serial' \in 0 .. serial'
      /\ r.key = NoKey => serial' = serial + 1
  BY BeginAppendDraws DEF IInv, TypeOK
<1>3. \A v \in Workers : v # w => /\ pc'[v] = pc[v] /\ req'[v] = req[v]
                                  /\ event'[v] = event[v] /\ submitted'[v] = submitted[v]
  BY <1>1 DEF IInv, TypeOK
<1>4. pc'[w] = "batch" /\ req'[w] = r /\ event'[w] = e /\ submitted'[w] = new
  BY <1>1 DEF IInv, TypeOK
<1>5. new.id = (IF r.key = NoKey THEN FreshId(r.caller, serial') ELSE StableEventId(r.caller, r.key))
  BY <1>2, RowOfRequest
<1>6. \A row, x : Derived(row, x) => Derived(row, x)'
  BY <1>2 DEF Derived
<1> HIDE DEF new
<1>7. DispatchedIsGenuine'
  BY <1>1, <1>2, <1>3, <1>4 DEF IInv, DispatchedIsGenuine, new
<1> HIDE DEF e
<1>8. RowsAreGenuine'
  BY <1>1, <1>6 DEF IInv, RowsAreGenuine
<1>9. r.key = NoKey => \A x \in Requests : \A row : Derived(row, x) => row.id # new.id
  BY <1>2, <1>5, NextSerialIsUnused DEF IInv
<1>10. ASSUME NEW x \in Requests, NEW row, Derived(row, x), x.key = NoKey, r.key # NoKey
       PROVE  row.id # new.id
  <2>1. PICK n \in 0 .. serial, t \in 0 .. MaxClock : row = EventRow(NewAuditEvent(x, n), t)
    BY <1>10 DEF Derived
  <2>2. n \in 0 .. MaxFresh
    BY EvidenceAssumption DEF IInv, TypeOK
  <2>3. row.id = FreshId(x.caller, n)
    BY <1>10, <2>1, <2>2, RowOfRequest
  <2> QED
    BY <1>5, <1>10, <2>3 DEF FreshId, StableEventId
<1>11. FreshIdsAreUnused'
  <2> SUFFICES ASSUME NEW v \in Workers, pc'[v] = "batch", req'[v].key = NoKey
               PROVE  /\ \A row \in rows \cup orphans : row.id # submitted'[v].id
                      /\ \A u \in Workers \ {v} : pc'[u] = "batch" => submitted'[u].id # submitted'[v].id
    BY <1>1 DEF FreshIdsAreUnused
  <2>1. \A u \in Workers : u # w /\ pc[u] = "batch" => Derived(submitted[u], req[u]) /\ req[u] \in Requests
    BY SubmittedRow
  <2>2. CASE v = w
    BY <1>3, <1>4, <1>9, <2>1, <2>2 DEF IInv, RowsAreGenuine
  <2>3. CASE v # w
    <3>1. submitted[v].id # new.id
      BY <1>3, <1>9, <1>10, <2>1, <2>3
    <3> QED
      BY <1>3, <1>4, <2>3, <3>1 DEF IInv, FreshIdsAreUnused
  <2> QED
    BY <2>2, <2>3
<1>12. ReceiptIsStored'
  BY <1>1, <1>3, <1>4 DEF IInv, ReceiptIsStored
<1>13. ServesManagedSchema' /\ OrphansAreManaged' /\ SchemaIInv'
  BY <1>1, <1>3 DEF IInv, ServesManagedSchema, OrphansAreManaged, SchemaIInv, SchemaTypeOK,
                    SetupIsTrue, SetupHasSeenLedger
<1> QED
  BY <1>7, <1>8, <1>11, <1>12, <1>13 DEF IInv

\* What an insertion of a genuine row does to the table.
LEMMA InsertKeepsTable ==
  ASSUME IInv, TypeOK', NEW row, NEW r \in Requests, Derived(row, r), table = "owned",
         orphans # {} \/ \E w \in Workers : pc[w] # "unprepared",
         InsertOnConflictDoNothing(row), orphans' \subseteq orphans,
         UNCHANGED <<serial, ledger, table, setup>>
  PROVE  /\ RowsAreGenuine'
         /\ OrphansAreManaged' /\ SchemaIInv'
         /\ rows' # {} => ledger' = SchemaVersion /\ table' = "owned"
<1>1. \A x, y : Derived(x, y) => Derived(x, y)'
  BY DEF Derived
<1>2. RowsAreGenuine'
  BY <1>1, InsertAdds DEF IInv, RowsAreGenuine
<1>3. ledger = SchemaVersion
  BY DEF IInv, OrphansAreManaged, ServesManagedSchema
<1>4. OrphansAreManaged' /\ SchemaIInv'
  BY <1>3 DEF IInv, OrphansAreManaged, SchemaIInv, SchemaTypeOK, SetupIsTrue, SetupHasSeenLedger
<1> QED
  BY <1>2, <1>3, <1>4

\* A batch runs: the row is inserted unless its id is taken, and read back.
LEMMA ExecuteBatchKeepsIInv ==
  ASSUME IInv, TypeOK', NEW w \in Workers, ExecuteBatch(w), table = "owned"
  PROVE  IInv'
<1>1. /\ pc[w] = "batch"
      /\ InsertOnConflictDoNothing(submitted[w])
      /\ pc' = [pc EXCEPT ![w] = "receipt"]
      /\ UNCHANGED <<req, event, submitted, orphans, serial, acks, conflicts, ledger, table, setup>>
  BY DEF ExecuteBatch, schemaVars
<1>2. PICK row \in rows' : row.id = submitted[w].id /\ stored' = [stored EXCEPT ![w] = row]
  BY DEF ExecuteBatch
<1>3. \A v \in Workers : v # w => pc'[v] = pc[v] /\ stored'[v] = stored[v]
  BY <1>1, <1>2 DEF IInv, TypeOK
<1>4. pc'[w] = "receipt" /\ stored'[w] = row
  BY <1>1, <1>2 DEF IInv, TypeOK
<1>5. req[w] \in Requests /\ Derived(submitted[w], req[w])
  BY <1>1, SubmittedRow
<1>6. /\ RowsAreGenuine' /\ OrphansAreManaged' /\ SchemaIInv'
      /\ rows' # {} => ledger' = SchemaVersion /\ table' = "owned"
  BY <1>1, <1>5, InsertKeepsTable
<1>7. DispatchedIsGenuine'
  BY <1>1, <1>3, <1>4 DEF IInv, DispatchedIsGenuine
<1>8. FreshIdsAreUnused'
  <2> SUFFICES ASSUME NEW v \in Workers, pc'[v] = "batch", req[v].key = NoKey
               PROVE  /\ \A x \in rows' \cup orphans : x.id # submitted[v].id
                      /\ \A u \in Workers \ {v} : pc'[u] = "batch" => submitted[u].id # submitted[v].id
    BY <1>1 DEF FreshIdsAreUnused
  <2>1. v # w /\ pc[v] = "batch"
    BY <1>3, <1>4
  <2>2. submitted[w].id # submitted[v].id
    BY <1>1, <2>1 DEF IInv, FreshIdsAreUnused
  <2> QED
    BY <1>1, <1>3, <1>4, <2>1, <2>2, InsertAdds DEF IInv, FreshIdsAreUnused
<1>9. ReceiptIsStored'
  <2>1. req[w].key = NoKey => row = submitted[w]
    BY <1>1, <1>2, InsertAdds DEF IInv, FreshIdsAreUnused
  <2> QED
    BY <1>1, <1>2, <1>3, <1>4, <2>1 DEF IInv, ReceiptIsStored
<1>10. ServesManagedSchema'
  BY <1>1, <1>3, <1>4, <1>6 DEF IInv, ServesManagedSchema
<1> QED
  BY <1>6, <1>7, <1>8, <1>9, <1>10 DEF IInv

\* A call that ends takes nothing back, and leaves its batch behind at most.
LEMMA FinishKeepsIInv ==
  ASSUME IInv, TypeOK', NEW w \in Workers, pc[w] \in {"batch", "receipt"}, Finish(w),
         UNCHANGED <<rows, serial, ledger, table, setup>>,
         orphans' = orphans \/ (pc[w] = "batch" /\ orphans' = orphans \cup {submitted[w]})
  PROVE  IInv'
<1>1. /\ pc' = [pc EXCEPT ![w] = "idle"]
      /\ req' = [req EXCEPT ![w] = None]
      /\ event' = [event EXCEPT ![w] = None]
      /\ submitted' = [submitted EXCEPT ![w] = None]
      /\ stored' = [stored EXCEPT ![w] = None]
  BY DEF Finish
<1>2. \A v \in Workers : v # w =>
        /\ pc'[v] = pc[v] /\ req'[v] = req[v] /\ event'[v] = event[v]
        /\ submitted'[v] = submitted[v] /\ stored'[v] = stored[v]
  BY <1>1 DEF IInv, TypeOK
<1>3. pc'[w] = "idle"
  BY <1>1 DEF IInv, TypeOK
<1>4. req[w] \in Requests /\ Derived(submitted[w], req[w])
  BY SubmittedRow
<1>5. \A x, y : Derived(x, y) => Derived(x, y)'
  BY DEF Derived
<1>6. DispatchedIsGenuine'
  BY <1>2, <1>3 DEF IInv, DispatchedIsGenuine
<1>7. RowsAreGenuine'
  BY <1>4, <1>5 DEF IInv, RowsAreGenuine
<1>8. FreshIdsAreUnused'
  BY <1>2, <1>3 DEF IInv, FreshIdsAreUnused
<1>9. ReceiptIsStored'
  BY <1>2, <1>3 DEF IInv, ReceiptIsStored
<1>10. ledger = SchemaVersion
  BY DEF IInv, ServesManagedSchema
<1>11. ServesManagedSchema' /\ OrphansAreManaged' /\ SchemaIInv'
  BY <1>2, <1>10 DEF IInv, ServesManagedSchema, OrphansAreManaged, SchemaIInv, SchemaTypeOK,
                     SetupIsTrue, SetupHasSeenLedger
<1> QED
  BY <1>6, <1>7, <1>8, <1>9, <1>11 DEF IInv

\* A batch nobody waits for commits.
LEMMA OrphanCommitsKeepsIInv ==
  ASSUME IInv, TypeOK', NEW row \in orphans, OrphanCommits(row)
  PROVE  IInv'
<1>1. /\ table = "owned" /\ InsertOnConflictDoNothing(row) /\ orphans' = orphans \ {row}
      /\ UNCHANGED <<pc, req, event, submitted, stored, serial, acks, conflicts, ledger, table, setup>>
  BY DEF OrphanCommits, callVars, schemaVars
<1>2. PICK r \in Requests : Derived(row, r)
  BY DEF IInv, RowsAreGenuine
<1>3. /\ RowsAreGenuine' /\ OrphansAreManaged' /\ SchemaIInv'
      /\ rows' # {} => ledger' = SchemaVersion /\ table' = "owned"
  BY <1>1, <1>2, InsertKeepsTable
<1>4. FreshIdsAreUnused'
  BY <1>1, InsertAdds DEF IInv, FreshIdsAreUnused
<1>5. DispatchedIsGenuine' /\ ReceiptIsStored'
  BY <1>1 DEF IInv, DispatchedIsGenuine, ReceiptIsStored
<1>6. ServesManagedSchema'
  BY <1>1, <1>3 DEF IInv, ServesManagedSchema
<1> QED
  BY <1>3, <1>4, <1>5, <1>6 DEF IInv

\* An isolate is prepared on a ledger of this release, which has its table.
LEMMA PrepareKeepsIInv ==
  ASSUME IInv, TypeOK', NEW w \in Workers, Prepare(w)
  PROVE  IInv'
<1>1. /\ pc[w] = "unprepared" /\ ledger = SchemaVersion
      /\ pc' = [pc EXCEPT ![w] = "idle"]
      /\ UNCHANGED <<rows, req, event, submitted, stored, orphans, serial, ledger, table, setup>>
  BY DEF Prepare, Ready, callVars, schemaVars
<1>2. \A v \in Workers : pc'[v] = IF v = w THEN "idle" ELSE pc[v]
  BY <1>1 DEF IInv, TypeOK
<1>3. table \in {"owned", "lookalike"}
  BY <1>1 DEF IInv, SchemaIInv, SetupIsTrue, SchemaVersion
<1>4. ServesManagedSchema' /\ OrphansAreManaged' /\ SchemaIInv'
  BY <1>1, <1>3 DEF IInv, ServesManagedSchema, OrphansAreManaged, SchemaIInv, SchemaTypeOK,
                    SetupIsTrue, SetupHasSeenLedger
<1>5. DispatchedIsGenuine' /\ RowsAreGenuine' /\ FreshIdsAreUnused' /\ ReceiptIsStored'
  BY <1>1, <1>2 DEF IInv, DispatchedIsGenuine, RowsAreGenuine, FreshIdsAreUnused, ReceiptIsStored,
                    Derived
<1> QED
  BY <1>4, <1>5 DEF IInv

\* setup runs next to the isolates, and does nothing once one is prepared.
LEMMA SetupKeepsIInv ==
  ASSUME IInv, TypeOK', SetupStep
  PROVE  IInv'
<1>1. UNCHANGED <<rows, pc, req, event, submitted, stored, orphans, serial, acks, conflicts>>
  BY DEF SetupStep, callVars
<1>2. SchemaIInv' /\ (ledger # 0 => UNCHANGED <<ledger, table>>)
  BY SchemaStep DEF SetupStep, IInv
<1>3. ServesManagedSchema' /\ OrphansAreManaged'
  BY <1>1, <1>2 DEF IInv, ServesManagedSchema, OrphansAreManaged, SchemaVersion
<1>4. DispatchedIsGenuine' /\ RowsAreGenuine' /\ FreshIdsAreUnused' /\ ReceiptIsStored'
  BY <1>1 DEF IInv, DispatchedIsGenuine, RowsAreGenuine, FreshIdsAreUnused, ReceiptIsStored, Derived
<1> QED
  BY <1>2, <1>3, <1>4 DEF IInv

\* Every step, and every stuttering step, preserves the invariant.
LEMMA IInvStep == IInv /\ [Next]_vars => IInv'
<1> SUFFICES ASSUME IInv, [Next]_vars PROVE IInv'
  OBVIOUS
<1>0. TypeOK'
  BY TypeOKStep DEF IInv
<1>1. ASSUME NEW w \in Workers, Prepare(w) PROVE IInv'
  BY <1>0, <1>1, PrepareKeepsIInv
<1>2. ASSUME NEW w \in Workers, NEW r \in Requests, NEW now \in Readings[w], BeginAppend(w, r, now)
      PROVE  IInv'
  BY <1>0, <1>2, BeginAppendKeepsIInv
<1>3. ASSUME NEW w \in Workers, ExecuteBatch(w) PROVE IInv'
  <2>1. CASE table = "owned"
    BY <1>0, <1>3, <2>1, ExecuteBatchKeepsIInv
  <2>2. CASE table # "owned"
    BY <1>0, <1>3, <2>2, FinishKeepsIInv DEF ExecuteBatch, schemaVars
  <2> QED
    BY <2>1, <2>2
<1>4. ASSUME NEW w \in Workers, Answer(w) PROVE IInv'
  BY <1>0, <1>4, FinishKeepsIInv DEF Answer, schemaVars
<1>5. ASSUME NEW w \in Workers, Abandon(w) PROVE IInv'
  BY <1>0, <1>5, FinishKeepsIInv DEF Abandon, schemaVars
<1>6. ASSUME NEW row \in orphans, OrphanCommits(row) PROVE IInv'
  BY <1>0, <1>6, OrphanCommitsKeepsIInv
<1>7. CASE SetupStep
  BY <1>0, <1>7, SetupKeepsIInv
<1>8. CASE UNCHANGED vars
  BY <1>0, <1>8 DEF vars, callVars, schemaVars, IInv, SchemaIInv, SchemaTypeOK, SetupIsTrue,
     SetupHasSeenLedger, ServesManagedSchema, OrphansAreManaged, DispatchedIsGenuine,
     RowsAreGenuine, FreshIdsAreUnused, ReceiptIsStored, Derived
<1> QED
  BY <1>1, <1>2, <1>3, <1>4, <1>5, <1>6, <1>7, <1>8 DEF Next

\* The inductive invariant holds in every reachable state.
THEOREM Invariant == Spec => []IInv
BY InitIInv, IInvStep, PTL DEF Spec

-----------------------------------------------------------------------------
(* The properties. *)

\* Request, event, submitted and stored row of a call agree with its phase.
THEOREM TypeCorrect == Spec => []TypeOK
BY Invariant, PTL DEF IInv

\* A ledger has a table with the columns of its index, and a setup that ended
\* told the truth about the ledger, whatever other operators, releases and
\* foreign tables came in between.  The table may be a look-alike that came in
\* between, too.
THEOREM SetupsAreTrue == Spec => []SetupIsTrue
BY Invariant, PTL DEF IInv, SchemaIInv

\* Isolates serve under the ledger of this release only, over its table or a
\* look-alike that a setup took over; evidence is kept in its own table only.
THEOREM ServesOnlyManaged == Spec => []ServesManagedSchema
BY Invariant, PTL DEF IInv

\* Once there is a ledger, no setup and no other release changes the schema.
THEOREM SchemaIsKept == Spec => ManagedSchemaIsKept
<1>1. IInv /\ [Next]_vars => [ledger # 0 => UNCHANGED <<ledger, table>>]_schemaVars
  <2> SUFFICES ASSUME IInv, Next PROVE UNCHANGED schemaVars \/ (ledger # 0 => UNCHANGED <<ledger, table>>)
    BY DEF vars
  <2>1. CASE SetupStep
    BY <2>1, SchemaStep DEF SetupStep, IInv
  <2>2. CASE ~ SetupStep
    BY <2>2 DEF Next, Prepare, BeginAppend, ExecuteBatch, Answer, Abandon, OrphanCommits
  <2> QED
    BY <2>1, <2>2
<1> QED
  BY <1>1, Invariant, PTL DEF Spec, ManagedSchemaIsKept

-----------------------------------------------------------------------------
(* D1Store implements AuditLog: the log is audit_events.  Batches that      *)
(* write a row map to Record, answers to Acknowledge and Refuse, everything *)
(* else to a stutter.                                                       *)

\* The abstract log and the adapter speak the same vocabulary.
LEMMA SameVocabulary ==
  /\ \A r, n : Promise!NewAuditEvent(r, n) = NewAuditEvent(r, n)
  /\ \A r : Promise!AuthorizedWriter(r) <=> AuthorizedWriter(r)
  /\ \A r : Promise!ValidRequest(r) <=> ValidRequest(r)
  /\ \A s, k : Promise!StableEventId(s, k) = StableEventId(s, k)
BY DEF Promise!NewAuditEvent, NewAuditEvent, Promise!AuthorizedWriter, AuthorizedWriter,
       Promise!ValidRequest, ValidRequest, Promise!StableEventId, StableEventId,
       Promise!FreshId, FreshId

\* A batch, awaited or late, records evidence or changes nothing.
LEMMA InsertIsRecord ==
  ASSUME IInv, NEW r \in Requests, NEW row, Derived(row, r),
         InsertOnConflictDoNothing(row), UNCHANGED <<acks, conflicts>>
  PROVE  [Promise!Next]_(Promise!vars)
<1>1. PICK n \in 0 .. serial, now \in 0 .. MaxClock : row = EventRow(NewAuditEvent(r, n), now)
  BY DEF Derived
<1>2. n \in 0 .. MaxFresh
  BY EvidenceAssumption DEF IInv, TypeOK
<1>3. CASE RowsWithId(row.id) = {}
  <2>1. rows' = rows \cup {row} /\ \A other \in rows : other.id # row.id
    BY <1>3 DEF InsertOnConflictDoNothing, RowsWithId
  <2>2. row.id = InJavaScript(NewAuditEvent(r, n)).id
    BY <1>1 DEF EventRow
  <2>3. Promise!Record(r, n, now)
    BY <1>1, <2>1, <2>2, SameVocabulary DEF Promise!Record, Derived, EventRow
  <2> QED
    BY <1>2, <2>3 DEF Promise!Next
<1>4. CASE RowsWithId(row.id) # {}
  BY <1>4 DEF InsertOnConflictDoNothing, Promise!vars
<1> QED
  BY <1>3, <1>4

\* What holds the evidence of a request, field by field.
LEMMA HoldsFields ==
  ASSUME NEW r \in Requests, NEW row
  PROVE  Promise!Holds(row, r) <=> /\ row.source = r.caller
                                   /\ row.body = r.body
                                   /\ row.meta = AsJavaScript[RedactedAs[r.meta]]
                                   /\ row.at = r.at
BY DEF Promise!Holds, Promise!NewAuditEvent, InJavaScript

\* The comparison in Rust succeeds exactly when the row found under the id
\* holds the evidence and JavaScript has not changed its metadata.
LEMMA ReplaysIffHolds ==
  ASSUME IInv, NEW w \in Workers, pc[w] = "receipt"
  PROVE  Replays(w) <=> /\ Promise!Holds(stored[w], req[w])
                        /\ RedactedAs[req[w].meta] \notin Reshaped
<1>1. /\ req[w] \in Requests
      /\ submitted[w].id = event[w].id
      /\ event[w].source = req[w].caller /\ event[w].body = req[w].body
      /\ event[w].meta = RedactedAs[req[w].meta] /\ event[w].at = req[w].at
  BY SubmittedRow
<1>2. stored[w] \in rows /\ stored[w].id = event[w].id
  BY <1>1 DEF IInv, TypeOK, ReceiptIsStored
<1>3. RedactedAs[req[w].meta] \in Metas
  BY <1>1, RequestsAssumption, EvidenceAssumption DEF Request
<1>4. AsJavaScript[stored[w].meta] = stored[w].meta
  <2>1. PICK r \in Requests, n \in 0 .. serial, now \in 0 .. MaxClock :
          stored[w] = EventRow(NewAuditEvent(r, n), now)
    BY <1>2 DEF IInv, RowsAreGenuine, Derived
  <2>2. n \in 0 .. MaxFresh
    BY EvidenceAssumption DEF IInv, TypeOK
  <2> QED
    BY <2>1, <2>2, RowOfRequest
<1>5. Replays(w) <=> /\ stored[w].source = event[w].source
                     /\ stored[w].body = event[w].body
                     /\ stored[w].meta = event[w].meta
                     /\ stored[w].at = event[w].at
  <2> DEFINE found == DecodedEvent(stored[w])
             wanted == FromEvent(event[w], stored[w].created)
  <2>1. /\ found.source = stored[w].source /\ found.body = stored[w].body
        /\ found.at = stored[w].at /\ found.meta = Bare(stored[w].meta)
    BY DEF DecodedEvent
  <2>2. /\ wanted.source = event[w].source /\ wanted.body = event[w].body
        /\ wanted.at = event[w].at /\ wanted.meta = Bare(event[w].meta)
    BY DEF FromEvent
  <2>3. Bare(stored[w].meta) = Bare(event[w].meta) <=> stored[w].meta = event[w].meta
    BY DEF Bare
  <2>4. found = wanted <=> /\ found.source = wanted.source
                           /\ found.body = wanted.body
                           /\ found.meta = wanted.meta
                           /\ found.at = wanted.at
    BY <1>2 DEF DecodedEvent, FromEvent
  <2> HIDE DEF found, wanted
  <2>5. found = wanted <=> /\ stored[w].source = event[w].source
                           /\ stored[w].body = event[w].body
                           /\ stored[w].meta = event[w].meta
                           /\ stored[w].at = event[w].at
    BY <2>1, <2>2, <2>3, <2>4
  <2> QED
    BY <2>5 DEF Replays, found, wanted
<1>6. RedactedAs[req[w].meta] \in Reshaped
        <=> AsJavaScript[RedactedAs[req[w].meta]] # RedactedAs[req[w].meta]
  BY <1>3 DEF Reshaped
<1> QED
  BY <1>1, <1>4, <1>5, <1>6, HoldsFields

\* An answer acknowledges what the log holds, or refuses with cause.
LEMMA AnswerIsPromised ==
  ASSUME IInv, NEW w \in Workers, Answer(w)
  PROVE  [Promise!Next]_(Promise!vars)
<1>1. pc[w] = "receipt" /\ UNCHANGED rows
  BY DEF Answer
<1>2. /\ req[w] \in Requests
      /\ stored[w] \in rows
      /\ req[w].key # NoKey => stored[w].id = StableEventId(req[w].caller, req[w].key)
      /\ req[w].key = NoKey => Promise!Holds(stored[w], req[w])
  BY <1>1, SubmittedRow DEF IInv, TypeOK, ReceiptIsStored
<1>3. CASE Replays(w)
  <2>1. Promise!Holds(stored[w], req[w]) /\ UNCHANGED conflicts
    BY <1>1, <1>3, ReplaysIffHolds DEF Answer
  <2>2. CASE acks' = acks
    BY <1>1, <2>1, <2>2 DEF Promise!vars
  <2>3. CASE acks' = acks \cup {[req |-> req[w], event |-> DecodedEvent(stored[w])]}
    <3>1. Promise!Acknowledge(req[w], stored[w])
      BY <1>1, <1>2, <2>1, <2>3, SameVocabulary DEF Promise!Acknowledge, DecodedEvent
    <3> QED
      BY <1>2, <3>1 DEF Promise!Next
  <2> QED
    BY <1>3, <2>2, <2>3 DEF Answer
<1>4. CASE ~ Replays(w)
  <2>1. conflicts' = conflicts \cup {req[w]} /\ UNCHANGED acks
    BY <1>4 DEF Answer
  <2>2. ~ Promise!Holds(stored[w], req[w]) \/ RedactedAs[req[w].meta] \in Reshaped
    BY <1>1, <1>4, ReplaysIffHolds
  <2>3. Promise!Refuse(req[w])
    BY <1>1, <1>2, <2>1, <2>2, SameVocabulary DEF Promise!Refuse
  <2> QED
    BY <1>2, <2>3 DEF Promise!Next
<1> QED
  BY <1>3, <1>4

\* One batch per append, on any number of isolates with clocks of their own,
\* with lost receipts, late batches and a setup next to them, is an
\* implementation of the abstract log.
THEOREM ImplementsAuditLog == Spec => KeepsPromise
<1>1. Init => Promise!Init
  BY DEF Init, Promise!Init
<1>2. IInv /\ [Next]_vars => [Promise!Next]_(Promise!vars)
  <2> SUFFICES ASSUME IInv, [Next]_vars
               PROVE  [Promise!Next]_(Promise!vars)
    OBVIOUS
  <2>1. ASSUME NEW w \in Workers, ExecuteBatch(w)
        PROVE  [Promise!Next]_(Promise!vars)
    <3>1. req[w] \in Requests /\ Derived(submitted[w], req[w])
      BY <2>1, SubmittedRow DEF ExecuteBatch
    <3>2. CASE table = "owned"
      BY <2>1, <3>1, <3>2, InsertIsRecord DEF ExecuteBatch
    <3>3. CASE table # "owned"
      BY <2>1, <3>3 DEF ExecuteBatch, Promise!vars
    <3> QED
      BY <3>2, <3>3
  <2>2. ASSUME NEW row \in orphans, OrphanCommits(row)
        PROVE  [Promise!Next]_(Promise!vars)
    <3>1. PICK r \in Requests : Derived(row, r)
      BY DEF IInv, RowsAreGenuine
    <3> QED
      BY <2>2, <3>1, InsertIsRecord DEF OrphanCommits
  <2>3. ASSUME NEW w \in Workers, Answer(w)
        PROVE  [Promise!Next]_(Promise!vars)
    BY <2>3, AnswerIsPromised
  <2>4. CASE UNCHANGED <<rows, acks, conflicts>>
    BY <2>4 DEF Promise!vars
  <2> QED
    BY <2>1, <2>2, <2>3, <2>4 DEF Next, vars, Prepare, BeginAppend, Abandon, SetupStep
<1> QED
  BY <1>1, <1>2, Invariant, PTL DEF Spec, KeepsPromise, Promise!Spec

-----------------------------------------------------------------------------
(* What that means for a writer of the D1 store: the theorems about the    *)
(* promise, read with audit_events as the log.                             *)

Promised == INSTANCE AuditLog_proofs WITH
  log <- rows, Kept <- InJavaScript, ReadBack <- Bare,
  Unrecognised <- Reshaped, Misread <- Reshaped

LEMMA PromiseIsPromised == KeepsPromise => Promised!Spec
<1>1. Promise!Init <=> Promised!Init
  BY DEF Promise!Init, Promised!Init
<1>2. [Promise!Next]_(Promise!vars) => [Promised!Next]_(Promised!vars)
  BY DEF Promise!Next, Promise!Record, Promise!Acknowledge, Promise!Refuse, Promise!Holds,
         Promised!Next, Promised!Record, Promised!Acknowledge, Promised!Refuse, Promised!Holds,
         Promise!NewAuditEvent, Promise!FreshId, Promise!StableEventId,
         Promise!AuthorizedWriter, Promise!ValidRequest,
         Promised!NewAuditEvent, Promised!FreshId, Promised!StableEventId,
         Promised!AuthorizedWriter, Promised!ValidRequest, Promise!vars, Promised!vars
<1> QED
  BY <1>1, <1>2, PTL DEF KeepsPromise, Promise!Spec, Promised!Spec

\* Whatever isolates, lost receipts and late batches do, a writer of the D1
\* store that was answered finds its evidence in audit_events from then on.
THEOREM AnswersAreDurable == Spec => []Promised!AnswersAreInTheLog
<1>1. Promised!Spec => []Promised!AnswersAreInTheLog
  BY Promised!AnswersAreDurable, EvidenceAssumption, RequestsAssumption
  DEF Promised!Request, Request, Promised!Instants, Instants
<1> QED
  BY <1>1, ImplementsAuditLog, PromiseIsPromised, PTL

\* All retries of a keyed append are answered with one event.
THEOREM KeysNameEvents == Spec => []Promised!OneEventPerKey
<1>1. Promised!Spec => []Promised!OneEventPerKey
  BY Promised!KeysNameEvents, EvidenceAssumption, RequestsAssumption
  DEF Promised!Request, Request, Promised!Instants, Instants
<1> QED
  BY <1>1, ImplementsAuditLog, PromiseIsPromised, PTL
=============================================================================
