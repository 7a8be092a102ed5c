-------------------------- MODULE EvidencePipeline --------------------------
(***************************************************************************)
(* The path of one event's data: from the request's metadata object and    *)
(* occurred_at, through the bounds check and redaction of the core, into   *)
(* the table, out of it through the legacy envelope, over the wire bound   *)
(* of the Capability, to the consumer that recovers what was stored.       *)
(* Rows written by the legacy package take the second half of the path;    *)
(* the D1 store, which has no legacy, takes it without the envelope.       *)
(*                                                                         *)
(* A JSON value is the function from the paths in it to what stands there. *)
(* A path is the sequence of names and indexes that leads to a place, the  *)
(* empty one to the value itself:                                          *)
(*   <<"key", k>>                       to the property k of an object     *)
(*   <<"item", i>>                      to the i-th item of an array       *)
(* and at a place stands one of                                            *)
(*   [t |-> "obj"], [t |-> "arr"]       an object, an array                *)
(*   [t |-> "num", portable |-> b]      a number, portable or not          *)
(*   [t |-> "str", chars |-> n]         a string of n characters           *)
(*   [t |-> "redacted", chars |-> 10]   the string "[redacted]"            *)
(*   [t |-> "text", of |-> v, chars |-> n]   a string: the JSON text of v  *)
(* Sizes are counted as serde_json encodes them; the limits are constants, *)
(* so that a small instance reaches every one of them.                     *)
(***************************************************************************)
EXTENDS Integers, Sequences, FiniteSets, FiniteSetsExt, SequencesExt

CONSTANTS
  KeyChars,        \* the characters of every property name
  SensitiveKeys,   \* the names is_sensitive_key recognises
  ValueKey,        \* LEGACY_METADATA_VALUE_KEY
  TextKey,         \* LEGACY_METADATA_PORTABLE_JSON_KEY
  MaxBytes, MaxItems, MaxDepth, MaxKeyChars, MaxNodes, MaxStringChars,
  AppendRequests,  \* [metadata, year, shift] of the appends that arrive
  LegacyRows       \* [metadata, year, shift] of rows the legacy package left

VARIABLES
  store,    \* "postgres" or "d1"
  origin,   \* "append" or "legacy"
  stage,    \* how far the event is
  asked,    \* what the writer sent, or the legacy row holds
  column,   \* the metadata column
  wire      \* the metadata a consumer is answered with

vars == <<store, origin, stage, asked, column, wire>>

-----------------------------------------------------------------------------
(* JSON values. *)

Nothing == <<>>   \* no value: there is no place in it, not even a first

Key(k) == <<"key", k>>
Steps == ({"key"} \X DOMAIN KeyChars) \cup ({"item"} \X (Nat \ {0}))

Object == [t |-> "obj"]
Redacted == [t |-> "redacted", chars |-> 10]

IsNode(n) ==
  \/ n \in {Object, [t |-> "arr"], Redacted}
  \/ n \in [t : {"num"}, portable : BOOLEAN] \cup [t : {"str"}, chars : Nat]
  \/ n.t = "text"

\* Every place is inside an object, by name, or inside an array, after the
\* items before it.
IsJson(v) ==
  /\ v = [p \in DOMAIN v |-> v[p]]
  /\ IsFiniteSet(DOMAIN v)
  /\ <<>> \in DOMAIN v
  /\ \A p \in DOMAIN v : p \in Seq(Steps) /\ IsNode(v[p])
  /\ \A p \in DOMAIN v \ {<<>>} :
       /\ Front(p) \in DOMAIN v
       /\ v[Front(p)].t = IF Last(p)[1] = "key" THEN "obj" ELSE "arr"
       /\ Last(p)[1] = "item" /\ Last(p)[2] > 1 =>
            Append(Front(p), <<"item", Last(p)[2] - 1>>) \in DOMAIN v

IsJsonObject(v) == IsJson(v) /\ v[<<>>] = Object

\* Appends bring objects, the column of a legacy row holds any JSON value; no
\* reserved name is one that is_sensitive_key recognises; "[redacted]" is a
\* string the wire admits.
ASSUME PipelineAssumption ==
  /\ KeyChars \in [DOMAIN KeyChars -> Nat]
  /\ {ValueKey, TextKey} \subseteq DOMAIN KeyChars \ SensitiveKeys
  /\ ValueKey # TextKey
  /\ MaxStringChars >= Redacted.chars
  /\ {MaxBytes, MaxItems, MaxDepth, MaxKeyChars, MaxNodes, MaxStringChars} \subseteq Nat
  /\ \A e \in AppendRequests :
       IsJsonObject(e.metadata) /\ \A p \in DOMAIN e.metadata : e.metadata[p].t # "text"
  /\ \A e \in LegacyRows :
       IsJson(e.metadata) /\ \A p \in DOMAIN e.metadata : e.metadata[p].t # "text"

-----------------------------------------------------------------------------
(* Measures of a JSON value. *)

Children(v, p) == {q \in DOMAIN v \ {<<>>} : Front(q) = p}

Commas(n) == IF n = 0 THEN 0 ELSE n - 1

NameBytes(p) == IF p # <<>> /\ Last(p)[1] = "key" THEN KeyChars[Last(p)[2]] + 3 ELSE 0

\* A string inside a JSON text has its quotes escaped, which only makes the
\* text longer: Bytes is exact but for that.
NodeBytes(v, p) ==
  CASE v[p].t = "num"            -> 1
    [] v[p].t \in {"obj", "arr"} -> 2 + Commas(Cardinality(Children(v, p)))
    [] OTHER                     -> 2 + v[p].chars

Bytes(v) == MapThenSumSet(LAMBDA p : NameBytes(p) + NodeBytes(v, p), DOMAIN v)

EncodesWithinLimit(v) == Bytes(v) <= MaxBytes

-----------------------------------------------------------------------------
(* The wire bounds. *)

WithinItemBounds(v, p) ==
  /\ v[p].t \in {"obj", "arr"} => Cardinality(Children(v, p)) <= MaxItems
  /\ p # <<>> /\ Last(p)[1] = "key" => KeyChars[Last(p)[2]] <= MaxKeyChars
  /\ v[p].t \in {"str", "redacted", "text"} => v[p].chars <= MaxStringChars

IsPortable(v) == \A p \in DOMAIN v : v[p].t = "num" => v[p].portable

MetadataWithinWireBounds(v) ==
  /\ Cardinality(DOMAIN v) <= MaxNodes
  /\ \A p \in DOMAIN v : Len(p) <= MaxDepth /\ WithinItemBounds(v, p)
  /\ IsPortable(v)
  /\ EncodesWithinLimit(v)

FourDigitYears == 0 .. 9999

\* occurred_at is written with a four-digit year in some offset; in UTC its
\* year may be the next or the previous one.
ValidWireTimestamp(e) == e.year + e.shift \in FourDigitYears

-----------------------------------------------------------------------------
(* Redaction and the legacy envelope. *)

\* Some name of the first n steps of a path is sensitive.
Sensitive(p, n) == \E i \in 1 .. n : p[i] \in {Key(k) : k \in SensitiveKeys}

\* (mutant: objects inside arrays are not visited)
RedactObjectsOnly(v) ==
  LET Seen(p, n) == \E i \in 1 .. n : /\ p[i] \in {Key(k) : k \in SensitiveKeys}
                                      /\ \A j \in 1 .. i : p[j][1] = "key"
  IN  [p \in {q \in DOMAIN v : ~ Seen(q, Len(q) - 1)} |->
         IF Seen(p, Len(p)) THEN Redacted ELSE v[p]]

\* The value under a sensitive name is replaced as a whole, at any depth.
RedactMetadata(v) ==
  [p \in {q \in DOMAIN v : ~ Sensitive(q, Len(q) - 1)} |->
     IF Sensitive(p, Len(p)) THEN Redacted ELSE v[p]]

Names(v) == {p[1] : p \in {q \in DOMAIN v : Len(q) = 1}}

\* The object whose only property is key, and the value of an object's key.
Envelope(key, v) ==
  [p \in {<<>>} \cup {<<Key(key)>> \o q : q \in DOMAIN v} |->
     IF p = <<>> THEN Object ELSE v[Tail(p)]]
ValueOf(key, v) ==
  [q \in {Tail(p) : p \in {r \in DOMAIN v \ {<<>>} : Head(r) = Key(key)}} |->
     v[<<Key(key)>> \o q]]

JsonText(v) == [p \in {<<>>} |-> [t |-> "text", of |-> v, chars |-> Bytes(v)]]

\* (mutant: only values that are not objects are wrapped)
WrapNonObjects(v) ==
  IF ~ IsPortable(v) THEN Envelope(TextKey, JsonText(v))
  ELSE IF v[<<>>] = Object THEN v
  ELSE Envelope(ValueKey, v)

HoldsReservedName(v) == Names(v) \cap {Key(ValueKey), Key(TextKey)} # {}

ProjectStoredMetadata(v) ==
  IF ~ IsPortable(v) THEN Envelope(TextKey, JsonText(v))
  ELSE IF v[<<>>] = Object /\ ~ HoldsReservedName(v) THEN v
  ELSE Envelope(ValueKey, v)

\* recover_legacy_metadata, and "None means ... should be used as-is".  Any
\* string under TextKey is decoded; one that is not the text of a value fails.
RecoverLegacyMetadata(v) ==
  LET text == v[<<Key(TextKey)>>]
  IN  CASE Names(v) = {Key(ValueKey)} -> ValueOf(ValueKey, v)
        [] Names(v) = {Key(TextKey)} /\ text.t = "text" -> text.of
        [] Names(v) = {Key(TextKey)} /\ text.t \in {"str", "redacted"} -> Nothing
        [] OTHER -> v

\* Metadata as the store hands it out: map_event_row projects it, the D1 store
\* decodes event_json as it is.
HandedOut(v) == IF store = "d1" THEN v ELSE ProjectStoredMetadata(v)

-----------------------------------------------------------------------------
(* The path. *)

Init ==
  /\ \/ /\ store \in {"postgres", "d1"} /\ origin = "append"
        /\ asked \in AppendRequests /\ stage = "asked"
     \/ /\ store = "postgres" /\ origin = "legacy"
        /\ asked \in LegacyRows /\ stage = "stored"
  /\ column = IF origin = "legacy" THEN asked.metadata ELSE Nothing
  /\ wire = Nothing

\* (mutant: only the encoded size is checked)
AcceptBySize ==
  /\ origin = "append" /\ stage = "asked"
  /\ EncodesWithinLimit(asked.metadata)
  /\ column' = RedactMetadata(asked.metadata)
  /\ stage' = "stored"
  /\ UNCHANGED <<store, origin, asked, wire>>

\* from_request_with_id checks the bounds, then redacts; the row is durable.
Accept ==
  /\ origin = "append" /\ stage = "asked"
  /\ MetadataWithinWireBounds(asked.metadata)
  /\ column' = RedactMetadata(asked.metadata)
  /\ stage' = "stored"
  /\ UNCHANGED <<store, origin, asked, wire>>

Refuse ==
  /\ origin = "append" /\ stage = "asked"
  /\ ~ MetadataWithinWireBounds(asked.metadata)
  /\ stage' = "invalid_event"
  /\ UNCHANGED <<store, origin, asked, column, wire>>

\* (mutant: a refused projection is still handed on)
AnswerLeaks ==
  /\ stage = "stored"
  /\ wire' = HandedOut(column)
  /\ stage' = IF MetadataWithinWireBounds(wire') /\ ValidWireTimestamp(asked)
              THEN "answered" ELSE "projection_failed"
  /\ UNCHANGED <<store, origin, asked, column>>

\* The stored event, then StoredEvent::project, which fails closed.
Answer ==
  /\ stage = "stored"
  /\ LET projected == HandedOut(column)
     IN  IF MetadataWithinWireBounds(projected) /\ ValidWireTimestamp(asked)
         THEN wire' = projected /\ stage' = "answered"
         ELSE wire' = Nothing /\ stage' = "projection_failed"
  /\ UNCHANGED <<store, origin, asked, column>>

Next == Accept \/ Refuse \/ Answer

Spec == Init /\ [][Next]_vars

-----------------------------------------------------------------------------
(* Properties. *)

TypeOK ==
  /\ \/ store \in {"postgres", "d1"} /\ origin = "append" /\ asked \in AppendRequests
     \/ store = "postgres" /\ origin = "legacy" /\ asked \in LegacyRows
  /\ stage \in {"asked", "invalid_event", "stored", "answered", "projection_failed"}
  /\ column = Nothing \/ IsJson(column)
  /\ wire = Nothing \/ IsJsonObject(wire)
  /\ stage \in {"asked", "invalid_event"} <=> column = Nothing
  /\ stage = "answered" <=> wire # Nothing

\* Nothing under a sensitive name, at any depth, of an object or of an array,
\* survives in the table or reaches a consumer of appended evidence.
HoldsNoSecret(v) ==
  \A p \in DOMAIN v \ {<<>>} : Last(p) \in {Key(k) : k \in SensitiveKeys} => v[p] = Redacted

SecretsAreRedacted == origin = "append" => HoldsNoSecret(column) /\ HoldsNoSecret(wire)

\* An object a consumer of the D1 store takes for an envelope.
LooksEnveloped(v) ==
  \/ Names(v) = {Key(ValueKey)}
  \/ Names(v) = {Key(TextKey)} /\ v[<<Key(TextKey)>>].t \in {"str", "redacted"}

\* A consumer recovers exactly what the table holds, whatever JSON value a
\* legacy row holds and whatever reserved names an object uses - but for the
\* objects on D1 that look like an envelope, which it cannot recover.
ProjectionIsLossless ==
  stage = "answered" =>
    (RecoverLegacyMetadata(wire) = column <=> ~ (store = "d1" /\ LooksEnveloped(column)))

\* An appended event that is durable and cannot be answered has grown: in
\* bytes, because redaction made it longer, or by an envelope, because it uses
\* a reserved name - or its instant is in no four-digit year.  Redaction never
\* makes anything deeper or wider, and other appends are always answered.  (The
\* numbers here come back from the store as they went in; what JavaScript makes
\* of numbers on D1 is modelled in AuditEvidence.)
OnlyGrowthFails ==
  origin = "append" /\ stage = "projection_failed" =>
    \/ ~ EncodesWithinLimit(column)
    \/ store = "postgres" /\ HoldsReservedName(column)
    \/ ~ ValidWireTimestamp(asked)

\* "Before storage, metadata must encode to at most 64 KiB"
\* (docs/plugin-card.md): what is stored respects the limit.
StoredWithinLimit ==
  origin = "append" /\ stage = "stored" => EncodesWithinLimit(column)

\* "append_event durably appends and returns the stored event" (README.md):
\* evidence that became durable can be answered.
StoredIsAnswered ==
  origin = "append" => stage # "projection_failed"
=============================================================================
