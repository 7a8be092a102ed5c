------------------------------- MODULE D1Store -------------------------------
(***************************************************************************)
(* append_event as the D1 Plugin performs it.  The policy is that of the   *)
(* core (AuditEvidence); the storage is JavaScript.  A Worker isolate is   *)
(* prepared once, by the readiness check, and then serves one call at a    *)
(* time:                                                                   *)
(*                                                                         *)
(*   Prepare       readiness(): the ledger holds this release's version    *)
(*   BeginAppend   the core decides and builds the event; the adapter      *)
(*                 passes it to JavaScript, stamps created_at with the     *)
(*                 isolate's own clock and submits a batch                 *)
(*   ExecuteBatch  D1 runs INSERT .. ON CONFLICT DO NOTHING and a SELECT   *)
(*                 of the row in one transaction                           *)
(*   Answer        the receipt is decoded, compared with the request in    *)
(*                 Rust and projected                                      *)
(*                                                                         *)
(* Abandon is everything that ends a call in between: a thrown statement,  *)
(* a lost or malformed receipt, a row that does not decode, an event scope *)
(* that closed, an isolate that was evicted (another one is prepared by    *)
(* the same check, on a ledger that never goes back).  A batch that was    *)
(* submitted may commit afterwards (OrphanCommits).                        *)
(*                                                                         *)
(* Unlike PostgresAppend, this store keeps nanoseconds, compares every     *)
(* append with what it reads back, the first one included, and hands       *)
(* metadata out as it is, without an envelope.  What it keeps is what      *)
(* JavaScript keeps: AsJavaScript, external.                               *)
(***************************************************************************)
EXTENDS AuditEvidence, D1Schema, FiniteSets

CONSTANTS
  Workers,        \* isolates serving the Plugin
  Readings,       \* worker -> what its clock may say when it stamps an event
  MaxOrphans,     \* bound: batches on their way that no worker waits for
  None,           \* no event in flight
  AsJavaScript    \* a metadata object after JavaScript (1.0 becomes 1)

ASSUME D1Assumption ==
  /\ Readings \in [Workers -> SUBSET (0 .. MaxClock)]
  /\ AsJavaScript \in [Metas -> Metas]
  /\ \A m \in Metas : AsJavaScript[AsJavaScript[m]] = AsJavaScript[m]

VARIABLES
  rows,        \* audit_events
  pc,          \* worker -> where it stands
  req,         \* worker -> the request it is serving
  event,       \* worker -> the NewAuditEvent built from it
  submitted,   \* worker -> the row its batch would insert
  stored,      \* worker -> the row its receipt holds
  orphans,     \* rows of batches whose worker no longer waits for them
  serial,      \* how many random UUIDs have been drawn
  acks,        \* history: stored events that callers were answered with
  conflicts    \* history: requests answered with idempotency_conflict

callVars == <<req, event, submitted, stored>>
vars == <<rows, pc, callVars, orphans, serial, acks, conflicts, schemaVars>>

Phases == {"unprepared", "idle", "batch", "receipt"}

TypeOK ==
  /\ SchemaTypeOK
  /\ rows \subseteq Row
  /\ pc \in [Workers -> Phases]
  /\ req \in [Workers -> Requests \cup {None}]
  /\ event \in [Workers -> Event \cup {None}]
  /\ submitted \in [Workers -> Row \cup {None}]
  /\ stored \in [Workers -> Row \cup {None}]
  /\ \A w \in Workers :
       /\ pc[w] \in {"batch", "receipt"} => /\ req[w] \in Requests
                                            /\ event[w] \in Event
                                            /\ submitted[w] \in Row
       /\ pc[w] = "receipt" => stored[w] \in rows
       /\ pc[w] \in {"unprepared", "idle"} => req[w] = None
  /\ orphans \subseteq Row
  /\ serial \in 0 .. MaxFresh
  /\ acks \subseteq [req : Requests, event : StoredEvent]
  /\ conflicts \subseteq Requests

-----------------------------------------------------------------------------
(* What the adapter does to data. *)

\* The event as the store keeps it: through serde_wasm_bindgen and
\* JSON.stringify.
InJavaScript(e) == [e EXCEPT !.meta = AsJavaScript[e.meta]]

\* The row of an event; created_at is chosen before the batch is sent.
EventRow(e, now) ==
  LET kept == InJavaScript(e)
  IN  [id |-> kept.id, source |-> kept.source, body |-> kept.body,
       meta |-> kept.meta, at |-> kept.at, created |-> now]

\* Metadata as it is decoded, and as from_event makes it: never enveloped.
Bare(m) == [envelope |-> "none", value |-> m]

DecodedEvent(row) ==
  [id |-> row.id, source |-> row.source, body |-> row.body,
   meta |-> Bare(row.meta), at |-> row.at, created |-> row.created]

FromEvent(e, created) ==
  [id |-> e.id, source |-> e.source, body |-> e.body,
   meta |-> Bare(e.meta), at |-> e.at, created |-> created]

RowsWithId(id) == {row \in rows : row.id = id}

\* (mutant: INSERT OR REPLACE)
InsertOrReplace(row) == rows' = (rows \ RowsWithId(row.id)) \cup {row}

InsertOnConflictDoNothing(row) ==
  rows' = IF RowsWithId(row.id) = {} THEN rows \cup {row} ELSE rows

-----------------------------------------------------------------------------
(* The steps of a worker. *)

\* (mutant: a call that ends keeps its request)
FinishKeepingRequest(w) ==
  /\ pc' = [pc EXCEPT ![w] = "idle"]
  /\ UNCHANGED callVars

Finish(w) ==
  /\ pc' = [pc EXCEPT ![w] = "idle"]
  /\ req' = [req EXCEPT ![w] = None]
  /\ event' = [event EXCEPT ![w] = None]
  /\ submitted' = [submitted EXCEPT ![w] = None]
  /\ stored' = [stored EXCEPT ![w] = None]

Prepare(w) ==
  /\ pc[w] = "unprepared"
  /\ Ready
  /\ pc' = [pc EXCEPT ![w] = "idle"]
  /\ UNCHANGED <<rows, callVars, orphans, serial, acks, conflicts, schemaVars>>

BeginAppend(w, r, now) ==
  /\ pc[w] = "idle"
  /\ AuthorizedWriter(r)
  /\ ValidRequest(r)
  /\ r.key = NoKey => serial < MaxFresh
  /\ serial' = IF r.key = NoKey THEN serial + 1 ELSE serial
  /\ req' = [req EXCEPT ![w] = r]
  /\ event' = [event EXCEPT ![w] = NewAuditEvent(r, serial')]
  /\ submitted' = [submitted EXCEPT ![w] = EventRow(NewAuditEvent(r, serial'), now)]
  /\ pc' = [pc EXCEPT ![w] = "batch"]
  /\ UNCHANGED <<rows, stored, orphans, acks, conflicts, schemaVars>>

\* The batch of a table that lacks a column throws.
ExecuteBatch(w) ==
  /\ pc[w] = "batch"
  /\ IF table = "owned"
     THEN /\ InsertOnConflictDoNothing(submitted[w])
          /\ \E row \in rows' : /\ row.id = submitted[w].id
                                /\ stored' = [stored EXCEPT ![w] = row]
          /\ pc' = [pc EXCEPT ![w] = "receipt"]
          /\ UNCHANGED <<req, event, submitted>>
     ELSE Finish(w) /\ UNCHANGED rows
  /\ UNCHANGED <<orphans, serial, acks, conflicts, schemaVars>>

Replays(w) == DecodedEvent(stored[w]) = FromEvent(event[w], stored[w].created)

\* (mutant: what the receipt holds is answered without a comparison)
AnswerUnchecked(w) ==
  /\ pc[w] = "receipt"
  /\ acks' = acks \cup {[req |-> req[w], event |-> DecodedEvent(stored[w])]}
  /\ Finish(w)
  /\ UNCHANGED <<rows, orphans, serial, conflicts, schemaVars>>

Answer(w) ==
  /\ pc[w] = "receipt"
  /\ \/ /\ Replays(w)
        /\ acks' = IF Projectable(DecodedEvent(stored[w]))
                   THEN acks \cup {[req |-> req[w], event |-> DecodedEvent(stored[w])]}
                   ELSE acks
        /\ UNCHANGED conflicts
     \/ /\ ~ Replays(w)
        /\ conflicts' = conflicts \cup {req[w]}
        /\ UNCHANGED acks
  /\ Finish(w)
  /\ UNCHANGED <<rows, orphans, serial, schemaVars>>

Abandon(w) ==
  /\ pc[w] \in {"batch", "receipt"}
  /\ Finish(w)
  /\ \/ UNCHANGED orphans
     \/ /\ pc[w] = "batch"
        /\ Cardinality(orphans) < MaxOrphans
        /\ orphans' = orphans \cup {submitted[w]}
  /\ UNCHANGED <<rows, serial, acks, conflicts, schemaVars>>

OrphanCommits(row) ==
  /\ table = "owned"
  /\ InsertOnConflictDoNothing(row)
  /\ orphans' = orphans \ {row}
  /\ UNCHANGED <<pc, callVars, serial, acks, conflicts, schemaVars>>

SetupStep ==
  /\ SchemaNext
  /\ UNCHANGED <<rows, pc, callVars, orphans, serial, acks, conflicts>>

-----------------------------------------------------------------------------

Init ==
  /\ SchemaInit
  /\ rows = {}
  /\ pc = [w \in Workers |-> "unprepared"]
  /\ req = [w \in Workers |-> None]
  /\ event = [w \in Workers |-> None]
  /\ submitted = [w \in Workers |-> None]
  /\ stored = [w \in Workers |-> None]
  /\ orphans = {}
  /\ serial = 0
  /\ acks = {}
  /\ conflicts = {}

Next ==
  \/ \E w \in Workers : Prepare(w)
  \/ \E w \in Workers, r \in Requests : \E now \in Readings[w] : BeginAppend(w, r, now)
  \/ \E w \in Workers : ExecuteBatch(w)
  \/ \E w \in Workers : Answer(w)
  \/ \E w \in Workers : Abandon(w)
  \/ \E row \in orphans : OrphanCommits(row)
  \/ SetupStep

Spec == Init /\ [][Next]_vars

-----------------------------------------------------------------------------
(* Properties. *)

\* A worker serves only under the ledger of this release - readiness is checked
\* once, and no setup takes the ledger or its table away afterwards - and
\* evidence exists only in this release's own table.  The exception: over a
\* look-alike that a setup has taken over (SetupIsTrue) workers serve too, and
\* every append to it fails.
ServesManagedSchema ==
  /\ \A w \in Workers : pc[w] # "unprepared" =>
       ledger = SchemaVersion /\ table \in {"owned", "lookalike"}
  /\ rows # {} => ledger = SchemaVersion /\ table = "owned"

\* Metadata JavaScript changes: such an append is refused although its
\* evidence was recorded, be it new or replayed.
Reshaped == {m \in Metas : AsJavaScript[m] # m}

Promise == INSTANCE AuditLog WITH
  log <- rows, Kept <- InJavaScript, ReadBack <- Bare,
  Unrecognised <- Reshaped, Misread <- Reshaped

\* The second implementation of the Capability: with one batch per append,
\* skewed clocks, receipts lost after the commit, batches that commit late and
\* a setup next to it, audit_events behaves like the abstract log.
KeepsPromise == Promise!Spec
=============================================================================
