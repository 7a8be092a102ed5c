---------------------------- MODULE AuditEvidence ----------------------------
(***************************************************************************)
(* The vocabulary of crates/lenso-audit-log-core: what a writer may ask,   *)
(* which event the core derives from it, how an event is kept in a row and *)
(* read back from it.  Everything here is a pure function of its inputs;   *)
(* the stores (PostgresAppend, D1Store) and the promise they keep         *)
(* (AuditLog) are state machines over these values.                        *)
(*                                                                         *)
(* Data is abstracted to what the properties tell apart.  A "body" stands  *)
(* for every field that is validated once and copied unchanged (event      *)
(* name, action, outcome, severity, actor, scope, resource, request        *)
(* context, reason).  A "meta" stands for one metadata object; what        *)
(* redaction and the legacy envelope do to real JSON trees and to their    *)
(* sizes is the subject of module EvidencePipeline.                        *)
(***************************************************************************)
EXTENDS Naturals

Instants == Nat \X Nat   \* <<microsecond, nanoseconds into it>>

CONSTANTS
  Callers,          \* Plugin Instances that can invoke the Capability
  WriterInstances,  \* the configured writer_instances
  Keys,             \* idempotency keys
  NoKey,            \* the absent idempotency_key
  Bodies,           \* the copied fields of a request
  InvalidBodies,    \* the bodies that break a length or charset bound
  Metas,            \* metadata objects
  RedactedAs,       \* what redact_metadata makes of each metadata object
  Reserved,         \* metadata objects holding a legacy envelope key
  Unwirable,        \* redacted metadata whose projection breaks a wire bound
  Times,            \* the occurred_at instants of requests
  Requests,         \* the requests callers send: inputs, retried at will
  MaxFresh,         \* bound: how many fresh (unkeyed) ids are drawn
  MaxClock          \* bound: the last reading of the clock behind created_at

ASSUME EvidenceAssumption ==
  /\ WriterInstances \subseteq Callers
  /\ NoKey \notin Keys
  /\ RedactedAs \in [Metas -> Metas]
  /\ \A m \in Metas : RedactedAs[RedactedAs[m]] = RedactedAs[m]
  /\ Times \subseteq Instants
  /\ MaxFresh \in Nat
  /\ MaxClock \in Nat

-----------------------------------------------------------------------------
(* Requests and ids. *)

Request ==
  [caller : Callers, key : Keys \cup {NoKey}, body : Bodies, meta : Metas, at : Times]

ASSUME RequestsAssumption == Requests \subseteq Request

\* An id is a triple: (caller, key, 0) for a keyed append, whose SHA-256 over
\* the length-prefixed source and key is taken to be injective, and
\* (caller, NoKey, serial) for a UUIDv7, which is never drawn twice.
EventIds == Callers \X (Keys \cup {NoKey}) \X (0 .. MaxFresh)

\* (mutant: one id drawn for all unkeyed appends)
SameFreshId(source, serial) == <<source, NoKey, 1>>

StableEventId(source, key) == <<source, key, 0>>
FreshId(source, serial) == <<source, NoKey, serial>>

\* (mutant: any caller may write)
AnyCaller(r) == TRUE

AuthorizedWriter(r) == r.caller \in WriterInstances

ValidRequest(r) == r.body \notin InvalidBodies

-----------------------------------------------------------------------------
(* Events and rows. *)

\* The event the core hands to the store: the source is the invocation's
\* caller, never a field of the request, and the metadata is redacted.
NewAuditEvent(r, serial) ==
  [id     |-> IF r.key = NoKey THEN FreshId(r.caller, serial)
                               ELSE StableEventId(r.caller, r.key),
   source |-> r.caller,
   body   |-> r.body,
   meta   |-> RedactedAs[r.meta],
   at     |-> r.at]

Event == [id : EventIds, source : Callers, body : Bodies, meta : Metas, at : Instants]

\* An instant cut to the microsecond it lies in, which is the precision of a
\* timestamptz column.
Micros(t) == <<t[1], 0>>

Row == [id : EventIds, source : Callers, body : Bodies, meta : Metas,
        at : Instants, created : 0 .. MaxClock]

\* Metadata as a reader gets it: the column's value, or that value wrapped
\* under a reserved key.
Envelopes == {"none", "_lenso_legacy_value"}

Projected(m) ==
  [envelope |-> IF m \in Reserved THEN "_lenso_legacy_value" ELSE "none", value |-> m]

StoredEvent ==
  [id : EventIds, source : Callers, body : Bodies,
   meta : [envelope : Envelopes, value : Metas], at : Instants, created : 0 .. MaxClock]

\* StoredEvent::project refuses what the wire does not admit.  Of the fields
\* from_request_with_id has validated, only two can be refused then: metadata
\* that has grown, and an occurred_at that has no four-digit year in UTC.  The
\* Instants here all have one; EvidencePipeline has those that have none.
Projectable(stored) == stored.meta.value \notin Unwirable

-----------------------------------------------------------------------------
(* What it means for a row to hold the evidence of a request. *)

\* "Identical sanitized evidence": the same copied fields, the same redacted
\* metadata and the same microsecond.
HoldsEvidenceOf(row, r) ==
  /\ row.source = r.caller
  /\ row.body = r.body
  /\ row.meta = RedactedAs[r.meta]
  /\ row.at = Micros(r.at)

\* Acknowledgement: the stored event a writer was answered with.
Acknowledgement == [req : Requests, event : StoredEvent]
=============================================================================
