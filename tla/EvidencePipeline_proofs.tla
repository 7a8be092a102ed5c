----------------------- MODULE EvidencePipeline_proofs -----------------------
(***************************************************************************)
(* Proofs about EvidencePipeline, for JSON values of any shape and size    *)
(* and any limits.                                                         *)
(***************************************************************************)
EXTENDS EvidencePipeline, FiniteSetTheorems, SequenceTheorems, TLAPS

-----------------------------------------------------------------------------
(* Paths. *)

\* The last step of a path and the path without it.
LEMMA PathFacts ==
  ASSUME NEW p \in Seq(Steps), p # <<>>
  PROVE  /\ Len(p) \in Nat \ {0}
         /\ Front(p) \in Seq(Steps) /\ Len(Front(p)) = Len(p) - 1
         /\ \A i \in 1 .. Len(p) - 1 : Front(p)[i] = p[i]
         /\ Last(p) = p[Len(p)] /\ Last(p) \in Steps
<1> DEFINE n == Len(p) - 1
<1>1. n \in Nat /\ Len(p) = n + 1 /\ Len(p) \in Nat \ {0}
  OBVIOUS
<1>2. Front(p) = SubSeq(p, 1, n)
  BY DEF Front
<1> HIDE DEF n
<1>3. \A i \in 1 .. n : p[i] \in Steps
  BY <1>1
<1>4. SubSeq(p, 1, n) \in Seq(Steps) /\ Len(SubSeq(p, 1, n)) = n
  BY <1>1, <1>3, SubSeqProperties
<1>5. \A i \in 1 .. n : SubSeq(p, 1, n)[i] = p[i]
  BY <1>1, <1>3
<1>6. Last(p) = p[Len(p)] /\ Last(p) \in Steps
  BY <1>1 DEF Last
<1> QED
  BY <1>1, <1>2, <1>4, <1>5, <1>6 DEF n

\* One more step at the beginning of a path.
LEMMA PrefixFacts ==
  ASSUME NEW s \in Steps, NEW q \in Seq(Steps)
  PROVE  LET p == <<s>> \o q
         IN  /\ p \in Seq(Steps) /\ p # <<>> /\ Len(p) = Len(q) + 1
             /\ Head(p) = s /\ Tail(p) = q /\ p[1] = s
             /\ q = <<>> => p = <<s>> /\ Front(p) = <<>> /\ Last(p) = s
             /\ q # <<>> => Front(p) = <<s>> \o Front(q) /\ Last(p) = Last(q)
             /\ \A step \in Steps : Append(p, step) = <<s>> \o Append(q, step)
<1> DEFINE p == <<s>> \o q
<1>1. p \in Seq(Steps) /\ p # <<>> /\ Len(p) = Len(q) + 1
  OBVIOUS
<1>2. Head(p) = s /\ Tail(p) = q /\ p[1] = s
  OBVIOUS
<1>3. q = <<>> => p = <<s>> /\ Front(p) = <<>> /\ Last(p) = s
  BY DEF Front, Last
<1>4. q # <<>> => Front(p) = <<s>> \o Front(q) /\ Last(p) = Last(q)
  BY DEF Front, Last
<1>5. \A step \in Steps : Append(p, step) = <<s>> \o Append(q, step)
  OBVIOUS
<1> QED
  BY <1>1, <1>2, <1>3, <1>4, <1>5

\* A prefix leaves the last step of a path alone.
LEMMA LastOfPrefixed ==
  ASSUME NEW s \in Steps, NEW q \in Seq(Steps), q # <<>>
  PROVE  Front(<<s>> \o q) = <<s>> \o Front(q) /\ Last(<<s>> \o q) = Last(q)
BY PrefixFacts

\* A path that begins with a step.
LEMMA SuffixFacts ==
  ASSUME NEW p \in Seq(Steps), p # <<>>
  PROVE  Head(p) \in Steps /\ Tail(p) \in Seq(Steps) /\ p = <<Head(p)>> \o Tail(p)
OBVIOUS

-----------------------------------------------------------------------------
(* Redaction. *)

\* Only the steps of a path matter for its sensitivity.
LEMMA SensitiveFacts ==
  ASSUME NEW p \in Seq(Steps), p # <<>>
  PROVE  /\ Sensitive(p, Len(p)) <=>
              Sensitive(p, Len(p) - 1) \/ Last(p) \in {Key(k) : k \in SensitiveKeys}
         /\ Sensitive(Front(p), Len(Front(p))) <=> Sensitive(p, Len(p) - 1)
         /\ Sensitive(Front(p), Len(Front(p)) - 1) => Sensitive(p, Len(p) - 1)
         /\ \A step \in Steps :
              LET q == Append(Front(p), step)
              IN  Sensitive(q, Len(q) - 1) <=> Sensitive(p, Len(p) - 1)
<1> DEFINE n == Len(p) - 1
<1>1. n \in Nat /\ Len(p) = n + 1
  BY PathFacts
<1>2. Front(p) \in Seq(Steps) /\ Len(Front(p)) = n /\ \A i \in 1 .. n : Front(p)[i] = p[i]
  BY PathFacts
<1>3. Last(p) = p[n + 1]
  BY PathFacts, <1>1
<1> HIDE DEF n
<1>4. Sensitive(p, n + 1) <=> Sensitive(p, n) \/ Last(p) \in {Key(k) : k \in SensitiveKeys}
  BY <1>1, <1>3 DEF Sensitive
<1>5. Sensitive(Front(p), n) <=> Sensitive(p, n)
  BY <1>1, <1>2 DEF Sensitive
<1>6. Sensitive(Front(p), n - 1) => Sensitive(p, n)
  BY <1>1, <1>2 DEF Sensitive
<1>7. ASSUME NEW step \in Steps
      PROVE  LET q == Append(Front(p), step)
             IN  Sensitive(q, Len(q) - 1) <=> Sensitive(p, n)
  <2> DEFINE q == Append(Front(p), step)
  <2>1. Len(q) - 1 = n /\ \A i \in 1 .. n : q[i] = p[i]
    BY <1>1, <1>2
  <2> HIDE DEF q
  <2>2. Sensitive(q, Len(q) - 1) <=> Sensitive(p, n)
    BY <1>1, <2>1 DEF Sensitive
  <2> QED
    BY <2>2 DEF q
<1> QED
  BY <1>1, <1>2, <1>4, <1>5, <1>6, <1>7 DEF n

\* What redaction leaves of a value, and where.
LEMMA RedactFacts ==
  ASSUME NEW v
  PROVE  LET r == RedactMetadata(v)
         IN  /\ r = [p \in DOMAIN r |-> r[p]]
             /\ DOMAIN r = {q \in DOMAIN v : ~ Sensitive(q, Len(q) - 1)}
             /\ DOMAIN r \subseteq DOMAIN v
             /\ \A p \in DOMAIN r : r[p] = IF Sensitive(p, Len(p)) THEN Redacted ELSE v[p]
BY DEF RedactMetadata

\* Redaction makes a JSON value of a JSON value, of the same kind at the top.
LEMMA RedactIsJson ==
  ASSUME NEW v, IsJson(v)
  PROVE  IsJson(RedactMetadata(v)) /\ RedactMetadata(v)[<<>>] = v[<<>>]
<1> DEFINE r == RedactMetadata(v)
<1>1. /\ r = [p \in DOMAIN r |-> r[p]]
      /\ DOMAIN r = {q \in DOMAIN v : ~ Sensitive(q, Len(q) - 1)}
      /\ DOMAIN r \subseteq DOMAIN v
      /\ \A p \in DOMAIN r : r[p] = IF Sensitive(p, Len(p)) THEN Redacted ELSE v[p]
  BY RedactFacts
<1> HIDE DEF r
<1>2. IsFiniteSet(DOMAIN r)
  BY <1>1, FS_Subset DEF IsJson
<1>3. <<>> \in DOMAIN r /\ r[<<>>] = v[<<>>]
  BY <1>1 DEF IsJson, Sensitive
<1>4. \A p \in DOMAIN r : p \in Seq(Steps) /\ IsNode(r[p])
  BY <1>1 DEF IsJson, IsNode
<1>5. ASSUME NEW p \in DOMAIN r \ {<<>>}
      PROVE  /\ Front(p) \in DOMAIN r
             /\ r[Front(p)].t = IF Last(p)[1] = "key" THEN "obj" ELSE "arr"
             /\ Last(p)[1] = "item" /\ Last(p)[2] > 1 =>
                  Append(Front(p), <<"item", Last(p)[2] - 1>>) \in DOMAIN r
  <2>1. p \in Seq(Steps) /\ p # <<>> /\ p \in DOMAIN v /\ ~ Sensitive(p, Len(p) - 1)
    BY <1>1 DEF IsJson
  <2>2. /\ Front(p) \in DOMAIN v
        /\ v[Front(p)].t = IF Last(p)[1] = "key" THEN "obj" ELSE "arr"
        /\ Last(p)[1] = "item" /\ Last(p)[2] > 1 =>
             Append(Front(p), <<"item", Last(p)[2] - 1>>) \in DOMAIN v
    BY <2>1 DEF IsJson
  <2>3. Front(p) \in DOMAIN r /\ r[Front(p)] = v[Front(p)]
    BY <1>1, <2>1, <2>2, SensitiveFacts
  <2>4. ASSUME Last(p)[1] = "item", Last(p)[2] > 1
        PROVE  Append(Front(p), <<"item", Last(p)[2] - 1>>) \in DOMAIN r
    <3>1. <<"item", Last(p)[2] - 1>> \in Steps
      BY <2>1, <2>4, PathFacts DEF Steps
    <3> QED
      BY <1>1, <2>1, <2>2, <2>4, <3>1, SensitiveFacts
  <2> QED
    BY <2>2, <2>3, <2>4
<1> QED
  BY <1>1, <1>2, <1>3, <1>4, <1>5 DEF IsJson, r

\* Nothing under a sensitive name survives redaction.
LEMMA RedactedHoldsNoSecret ==
  ASSUME NEW v, IsJson(v)
  PROVE  HoldsNoSecret(RedactMetadata(v))
<1> DEFINE r == RedactMetadata(v)
<1>1. /\ DOMAIN r \subseteq DOMAIN v
      /\ \A p \in DOMAIN r : r[p] = IF Sensitive(p, Len(p)) THEN Redacted ELSE v[p]
  BY RedactFacts
<1> HIDE DEF r
<1>2. ASSUME NEW p \in DOMAIN r \ {<<>>}, Last(p) \in {Key(k) : k \in SensitiveKeys}
      PROVE  r[p] = Redacted
  <2>1. p \in Seq(Steps) /\ p # <<>>
    BY <1>1 DEF IsJson
  <2> QED
    BY <1>1, <1>2, <2>1, SensitiveFacts
<1> QED
  BY <1>2 DEF HoldsNoSecret, r

\* Redaction makes nothing deeper, wider or less portable, and only its own
\* strings are longer than what they replace.
LEMMA RedactKeepsBounds ==
  ASSUME NEW v, IsJson(v), MetadataWithinWireBounds(v), EncodesWithinLimit(RedactMetadata(v))
  PROVE  MetadataWithinWireBounds(RedactMetadata(v))
<1> DEFINE r == RedactMetadata(v)
<1>1. /\ DOMAIN r \subseteq DOMAIN v
      /\ \A p \in DOMAIN r : r[p] = IF Sensitive(p, Len(p)) THEN Redacted ELSE v[p]
  BY RedactFacts
<1>2. EncodesWithinLimit(r)
  OBVIOUS
<1> HIDE DEF r
<1>3. IsFiniteSet(DOMAIN v)
  BY DEF IsJson
<1>4. Cardinality(DOMAIN r) <= MaxNodes
  <2>1. Cardinality(DOMAIN r) <= Cardinality(DOMAIN v) /\ IsFiniteSet(DOMAIN r)
    BY <1>1, <1>3, FS_Subset
  <2>2. Cardinality(DOMAIN r) \in Nat /\ Cardinality(DOMAIN v) \in Nat /\ MaxNodes \in Nat
    BY <1>3, <2>1, FS_CardinalityType, PipelineAssumption
  <2> QED
    BY <2>1, <2>2 DEF MetadataWithinWireBounds
<1>5. ASSUME NEW p \in DOMAIN r
      PROVE  Len(p) <= MaxDepth /\ WithinItemBounds(r, p)
  <2>1. Len(p) <= MaxDepth /\ WithinItemBounds(v, p)
    BY <1>1 DEF MetadataWithinWireBounds
  <2>2. r[p] = Redacted \/ r[p] = v[p]
    BY <1>1
  <2>3. ASSUME r[p].t \in {"obj", "arr"} PROVE Cardinality(Children(r, p)) <= MaxItems
    <3>1. r[p] = v[p]
      BY <2>2, <2>3 DEF Redacted
    <3>2. Children(r, p) \subseteq Children(v, p) /\ Children(v, p) \subseteq DOMAIN v
      BY <1>1 DEF Children
    <3>3. IsFiniteSet(Children(v, p))
      BY <1>3, <3>2, FS_Subset
    <3>4. Cardinality(Children(r, p)) <= Cardinality(Children(v, p)) /\ IsFiniteSet(Children(r, p))
      BY <3>2, <3>3, FS_Subset
    <3>5. /\ Cardinality(Children(r, p)) \in Nat /\ Cardinality(Children(v, p)) \in Nat
          /\ MaxItems \in Nat
      BY <3>3, <3>4, FS_CardinalityType, PipelineAssumption
    <3>6. Cardinality(Children(v, p)) <= MaxItems
      BY <2>1, <2>3, <3>1 DEF WithinItemBounds
    <3> QED
      BY <3>4, <3>5, <3>6
  <2>4. p # <<>> /\ Last(p)[1] = "key" => KeyChars[Last(p)[2]] <= MaxKeyChars
    BY <2>1 DEF WithinItemBounds
  <2>5. ASSUME r[p].t \in {"str", "redacted", "text"} PROVE r[p].chars <= MaxStringChars
    BY <2>1, <2>2, <2>5, PipelineAssumption DEF WithinItemBounds
  <2> QED
    BY <2>1, <2>3, <2>4, <2>5 DEF WithinItemBounds
<1>6. IsPortable(r)
  BY <1>1 DEF MetadataWithinWireBounds, IsPortable, Redacted
<1> QED
  BY <1>2, <1>4, <1>5, <1>6 DEF MetadataWithinWireBounds, r

-----------------------------------------------------------------------------
(* The envelope. *)

\* Reserved names are names of properties, and lead nowhere sensitive.
LEMMA ReservedKeys ==
  /\ Key(ValueKey) \in Steps /\ Key(TextKey) \in Steps
  /\ Key(ValueKey) # Key(TextKey)
  /\ Key(ValueKey) \notin {Key(k) : k \in SensitiveKeys}
  /\ Key(TextKey) \notin {Key(k) : k \in SensitiveKeys}
BY PipelineAssumption DEF Key, Steps

\* The places of an envelope.
LEMMA EnvelopeFacts ==
  ASSUME NEW v, IsJson(v), NEW key, Key(key) \in Steps
  PROVE  LET w == Envelope(key, v)
         IN  /\ w = [p \in DOMAIN w |-> w[p]]
             /\ DOMAIN w = {<<>>} \cup {<<Key(key)>> \o q : q \in DOMAIN v}
             /\ w[<<>>] = Object
             /\ \A q \in DOMAIN v : w[<<Key(key)>> \o q] = v[q]
<1> DEFINE w == Envelope(key, v)
<1>1. /\ w = [p \in DOMAIN w |-> w[p]]
      /\ DOMAIN w = {<<>>} \cup {<<Key(key)>> \o q : q \in DOMAIN v}
      /\ w[<<>>] = Object
  BY DEF Envelope
<1>2. ASSUME NEW q \in DOMAIN v
      PROVE  w[<<Key(key)>> \o q] = v[q]
  <2>1. <<Key(key)>> \o q # <<>> /\ Tail(<<Key(key)>> \o q) = q
    BY PrefixFacts DEF IsJson
  <2> QED
    BY <2>1 DEF Envelope
<1> QED
  BY <1>1, <1>2

\* An envelope is a JSON object.
LEMMA EnvelopeIsJson ==
  ASSUME NEW v, IsJson(v), NEW key, Key(key) \in Steps
  PROVE  IsJsonObject(Envelope(key, v))
<1> DEFINE w == Envelope(key, v)
           inner == {<<Key(key)>> \o q : q \in DOMAIN v}
<1>1. /\ w = [p \in DOMAIN w |-> w[p]]
      /\ DOMAIN w = {<<>>} \cup inner
      /\ w[<<>>] = Object
      /\ \A q \in DOMAIN v : w[<<Key(key)>> \o q] = v[q]
  BY EnvelopeFacts
<1> HIDE DEF w
<1>2. IsFiniteSet(DOMAIN w)
  <2> DEFINE f == [q \in DOMAIN v |-> <<Key(key)>> \o q]
  <2>1. f \in Surjection(DOMAIN v, inner)
    BY DEF Surjection
  <2>2. IsFiniteSet(inner)
    BY <2>1, FS_Surjection DEF IsJson
  <2> HIDE DEF inner
  <2>3. IsFiniteSet({<<>>} \cup inner)
    BY <2>2, FS_AddElement, inner \cup {<<>>} = {<<>>} \cup inner
  <2> QED
    BY <1>1, <2>3
<1>3. \A p \in DOMAIN w \ {<<>>} : \E q \in DOMAIN v : p = <<Key(key)>> \o q
  BY <1>1
<1>4. \A p \in DOMAIN w : p \in Seq(Steps) /\ IsNode(w[p])
  <2>1. ASSUME NEW q \in DOMAIN v
        PROVE  <<Key(key)>> \o q \in Seq(Steps) /\ IsNode(w[<<Key(key)>> \o q])
    BY <1>1, PrefixFacts DEF IsJson
  <2>2. <<>> \in Seq(Steps) /\ IsNode(w[<<>>])
    BY <1>1 DEF IsNode
  <2> QED
    BY <1>3, <2>1, <2>2
<1>5. ASSUME NEW p \in DOMAIN w \ {<<>>}
      PROVE  /\ Front(p) \in DOMAIN w
             /\ w[Front(p)].t = IF Last(p)[1] = "key" THEN "obj" ELSE "arr"
             /\ Last(p)[1] = "item" /\ Last(p)[2] > 1 =>
                  Append(Front(p), <<"item", Last(p)[2] - 1>>) \in DOMAIN w
  <2>1. PICK q \in DOMAIN v : p = <<Key(key)>> \o q
    BY <1>3
  <2>2. q \in Seq(Steps)
    BY DEF IsJson
  <2>3. CASE q = <<>>
    <3>1. Front(p) = <<>> /\ Last(p) = Key(key)
      BY <2>1, <2>2, <2>3, PrefixFacts
    <3>2. Last(p)[1] = "key"
      BY <3>1 DEF Key
    <3> QED
      BY <1>1, <3>1, <3>2 DEF Object
  <2>4. CASE q # <<>>
    <3>1. Front(p) = <<Key(key)>> \o Front(q) /\ Last(p) = Last(q)
      <4>1. /\ Front(<<Key(key)>> \o q) = <<Key(key)>> \o Front(q)
            /\ Last(<<Key(key)>> \o q) = Last(q)
        BY <2>2, <2>4, LastOfPrefixed
      <4> QED
        BY <2>1, <4>1
    <3>2. /\ Front(q) \in DOMAIN v
          /\ v[Front(q)].t = IF Last(q)[1] = "key" THEN "obj" ELSE "arr"
          /\ Last(q)[1] = "item" /\ Last(q)[2] > 1 =>
               Append(Front(q), <<"item", Last(q)[2] - 1>>) \in DOMAIN v
      BY <2>4 DEF IsJson
    <3>3. Front(p) \in DOMAIN w /\ w[Front(p)] = v[Front(q)]
      BY <1>1, <3>1, <3>2
    <3>4. ASSUME Last(p)[1] = "item", Last(p)[2] > 1
          PROVE  Append(Front(p), <<"item", Last(p)[2] - 1>>) \in DOMAIN w
      <4> DEFINE step == <<"item", Last(p)[2] - 1>>
      <4>1. step \in Steps
        BY <2>2, <2>4, <3>1, <3>4, PathFacts DEF Steps
      <4>2. Front(q) \in Seq(Steps)
        BY <2>2, <2>4, PathFacts
      <4>3. Append(Front(q), step) \in DOMAIN v
        BY <3>1, <3>2, <3>4
      <4> HIDE DEF step
      <4>4. Append(Front(p), step) = <<Key(key)>> \o Append(Front(q), step)
        <5>1. \A st \in Steps : Append(<<Key(key)>> \o Front(q), st)
                                  = <<Key(key)>> \o Append(Front(q), st)
          BY <4>2, PrefixFacts
        <5> QED
          BY <3>1, <4>1, <5>1
      <4>5. Append(Front(p), step) \in DOMAIN w
        BY <1>1, <4>3, <4>4
      <4> QED
        BY <4>5 DEF step
    <3> QED
      BY <3>1, <3>2, <3>3, <3>4
  <2> QED
    BY <2>3, <2>4
<1>6. <<>> \in DOMAIN w
  BY <1>1
<1>7. IsJson(w)
  BY <1>1, <1>2, <1>4, <1>5, <1>6 DEF IsJson
<1> QED
  BY <1>1, <1>7 DEF IsJsonObject, w

\* An envelope has one property, and its value is what was put into it.
LEMMA EnvelopeHolds ==
  ASSUME NEW v, IsJson(v), NEW key, Key(key) \in Steps
  PROVE  /\ Names(Envelope(key, v)) = {Key(key)}
         /\ ValueOf(key, Envelope(key, v)) = v
         /\ Envelope(key, v)[<<Key(key)>>] = v[<<>>]
<1> DEFINE w == Envelope(key, v)
<1>1. /\ w = [p \in DOMAIN w |-> w[p]]
      /\ DOMAIN w = {<<>>} \cup {<<Key(key)>> \o q : q \in DOMAIN v}
      /\ w[<<>>] = Object
      /\ \A q \in DOMAIN v : w[<<Key(key)>> \o q] = v[q]
  BY EnvelopeFacts
<1> HIDE DEF w
<1>2. ASSUME NEW q \in DOMAIN v
      PROVE  LET p == <<Key(key)>> \o q
             IN  /\ p # <<>> /\ Head(p) = Key(key) /\ Tail(p) = q /\ p[1] = Key(key)
                 /\ q = <<>> => p = <<Key(key)>>
  <2>1. q \in Seq(Steps)
    BY DEF IsJson
  <2> QED
    BY <2>1, PrefixFacts
<1>3. <<>> \in DOMAIN v
  BY DEF IsJson
<1>4. <<Key(key)>> \in DOMAIN w /\ w[<<Key(key)>>] = v[<<>>]
  BY <1>1, <1>2, <1>3
<1>5. Names(w) = {Key(key)}
  <2>1. \A p \in DOMAIN w : Len(p) = 1 => p[1] = Key(key)
    BY <1>1, <1>2
  <2>2. Len(<<Key(key)>>) = 1 /\ <<Key(key)>>[1] = Key(key)
    OBVIOUS
  <2> QED
    BY <1>4, <2>1, <2>2 DEF Names
<1>6. {Tail(p) : p \in {r \in DOMAIN w \ {<<>>} : Head(r) = Key(key)}} = DOMAIN v
  <2> DEFINE tails == {Tail(p) : p \in {r \in DOMAIN w \ {<<>>} : Head(r) = Key(key)}}
  <2>1. ASSUME NEW q \in DOMAIN v PROVE q \in tails
    <3>1. /\ <<Key(key)>> \o q \in DOMAIN w \ {<<>>}
          /\ Head(<<Key(key)>> \o q) = Key(key) /\ Tail(<<Key(key)>> \o q) = q
      BY <1>1, <1>2
    <3> QED
      BY <3>1
  <2>2. ASSUME NEW p \in DOMAIN w \ {<<>>} PROVE Tail(p) \in DOMAIN v
    <3>1. PICK q \in DOMAIN v : p = <<Key(key)>> \o q
      BY <1>1
    <3> QED
      BY <1>2, <3>1
  <2> QED
    BY <2>1, <2>2
<1>7. ValueOf(key, w) = [q \in DOMAIN v |-> v[q]]
  BY <1>1, <1>6 DEF ValueOf
<1>8. v = [q \in DOMAIN v |-> v[q]]
  BY DEF IsJson
<1> QED
  BY <1>4, <1>5, <1>7, <1>8 DEF w

\* No value is a part of itself: it has more places than its part.
LEMMA PartIsNotWhole ==
  ASSUME NEW v, IsJson(v), NEW key
  PROVE  ValueOf(key, v) # v
<1> SUFFICES ASSUME ValueOf(key, v) = v PROVE FALSE
  OBVIOUS
<1> DEFINE S == DOMAIN v
           f == [q \in S |-> <<Key(key)>> \o q]
<1>1. IsFiniteSet(S) /\ <<>> \in S
  BY DEF IsJson
<1>2. S = {Tail(p) : p \in {r \in S \ {<<>>} : Head(r) = Key(key)}}
  <2>1. DOMAIN ValueOf(key, v) = {Tail(p) : p \in {r \in S \ {<<>>} : Head(r) = Key(key)}}
    BY DEF ValueOf
  <2> QED
    BY <2>1
<1>3. ASSUME NEW q \in S
      PROVE  <<Key(key)>> \o q \in S \ {<<>>} /\ Tail(<<Key(key)>> \o q) = q
  <2>1. PICK p \in S \ {<<>>} : Head(p) = Key(key) /\ q = Tail(p)
    BY <1>2
  <2>2. p \in Seq(Steps) /\ p # <<>>
    BY <2>1 DEF IsJson
  <2> QED
    BY <2>1, <2>2, SuffixFacts
<1>4. f \in [S -> S \ {<<>>}]
  BY <1>3
<1>5. /\ IsFiniteSet(S \ {<<>>})
      /\ Cardinality(S \ {<<>>}) = Cardinality(S) - 1
      /\ Cardinality(S) \in Nat
  BY <1>1, FS_RemoveElement, FS_CardinalityType
<1>6. \E x, y \in S : x # y /\ f[x] = f[y]
  <2> HIDE DEF f, S
  <2> QED
    BY <1>1, <1>4, <1>5, FS_PigeonHole
<1> QED
  BY <1>3, <1>6

\* An envelope under a reserved name hides no secret.
LEMMA EnvelopeHoldsNoSecret ==
  ASSUME NEW v, IsJson(v), HoldsNoSecret(v),
         NEW key, Key(key) \in Steps, Key(key) \notin {Key(k) : k \in SensitiveKeys}
  PROVE  HoldsNoSecret(Envelope(key, v))
<1> DEFINE w == Envelope(key, v)
<1>1. /\ w = [p \in DOMAIN w |-> w[p]]
      /\ DOMAIN w = {<<>>} \cup {<<Key(key)>> \o q : q \in DOMAIN v}
      /\ w[<<>>] = Object
      /\ \A q \in DOMAIN v : w[<<Key(key)>> \o q] = v[q]
  BY EnvelopeFacts
<1> HIDE DEF w
<1>2. ASSUME NEW p \in DOMAIN w \ {<<>>}, Last(p) \in {Key(k) : k \in SensitiveKeys}
      PROVE  w[p] = Redacted
  <2>1. PICK q \in DOMAIN v : p = <<Key(key)>> \o q
    BY <1>1
  <2>2. q \in Seq(Steps)
    BY DEF IsJson
  <2>3. CASE q = <<>>
    <3>1. Last(p) = Key(key)
      BY <2>1, <2>2, <2>3, PrefixFacts
    <3> QED
      BY <1>2, <3>1
  <2>4. CASE q # <<>>
    <3>1. Last(p) = Last(q)
      BY <2>1, <2>2, <2>4, LastOfPrefixed
    <3> QED
      BY <1>1, <1>2, <2>1, <2>4, <3>1 DEF HoldsNoSecret
  <2> QED
    BY <2>3, <2>4
<1> QED
  BY <1>2 DEF HoldsNoSecret, w

\* The text of a value is a JSON value: a string.
LEMMA JsonTextFacts ==
  ASSUME NEW v
  PROVE  /\ IsJson(JsonText(v)) /\ HoldsNoSecret(JsonText(v))
         /\ JsonText(v)[<<>>].t = "text" /\ JsonText(v)[<<>>].of = v
<1> DEFINE w == JsonText(v)
<1>1. DOMAIN w = {<<>>} /\ w = [p \in DOMAIN w |-> w[p]]
      /\ w[<<>>].t = "text" /\ w[<<>>].of = v
  BY DEF JsonText
<1> HIDE DEF w
<1>2. IsFiniteSet(DOMAIN w)
  BY <1>1, FS_Singleton
<1>3. IsJson(w)
  BY <1>1, <1>2 DEF IsJson, IsNode
<1> QED
  BY <1>1, <1>3 DEF HoldsNoSecret, w

-----------------------------------------------------------------------------
(* Projection and recovery. *)

\* What the stores hand out is a JSON object without secrets.
LEMMA ProjectedFacts ==
  ASSUME NEW v, IsJson(v)
  PROVE  /\ IsJsonObject(ProjectStoredMetadata(v))
         /\ HoldsNoSecret(v) => HoldsNoSecret(ProjectStoredMetadata(v))
<1>1. CASE ~ IsPortable(v)
  BY <1>1, JsonTextFacts, ReservedKeys, EnvelopeIsJson, EnvelopeHoldsNoSecret
  DEF ProjectStoredMetadata
<1>2. CASE IsPortable(v) /\ v[<<>>] = Object /\ ~ HoldsReservedName(v)
  BY <1>2 DEF ProjectStoredMetadata, IsJsonObject
<1>3. CASE IsPortable(v) /\ ~ (v[<<>>] = Object /\ ~ HoldsReservedName(v))
  BY <1>3, ReservedKeys, EnvelopeIsJson, EnvelopeHoldsNoSecret DEF ProjectStoredMetadata
<1> QED
  BY <1>1, <1>2, <1>3

\* recover_legacy_metadata undoes project_stored_metadata, for every value.
LEMMA RecoveryInvertsProjection ==
  ASSUME NEW v, IsJson(v)
  PROVE  RecoverLegacyMetadata(ProjectStoredMetadata(v)) = v
<1>1. CASE ~ IsPortable(v)
  <2> DEFINE w == Envelope(TextKey, JsonText(v))
  <2>1. ProjectStoredMetadata(v) = w
    BY <1>1 DEF ProjectStoredMetadata
  <2>2. Names(w) = {Key(TextKey)} /\ w[<<Key(TextKey)>>] = JsonText(v)[<<>>]
    BY JsonTextFacts, ReservedKeys, EnvelopeHolds
  <2> HIDE DEF w
  <2>3. w[<<Key(TextKey)>>].t = "text" /\ w[<<Key(TextKey)>>].of = v
    BY <2>2, JsonTextFacts
  <2>4. Names(w) # {Key(ValueKey)}
    BY <2>2, ReservedKeys
  <2> QED
    BY <2>1, <2>2, <2>3, <2>4 DEF RecoverLegacyMetadata
<1>2. CASE IsPortable(v) /\ v[<<>>] = Object /\ ~ HoldsReservedName(v)
  <2>1. ProjectStoredMetadata(v) = v
    BY <1>2 DEF ProjectStoredMetadata
  <2>2. Names(v) # {Key(ValueKey)} /\ Names(v) # {Key(TextKey)}
    BY <1>2 DEF HoldsReservedName
  <2> QED
    BY <2>1, <2>2 DEF RecoverLegacyMetadata
<1>3. CASE IsPortable(v) /\ ~ (v[<<>>] = Object /\ ~ HoldsReservedName(v))
  <2>1. ProjectStoredMetadata(v) = Envelope(ValueKey, v)
    BY <1>3 DEF ProjectStoredMetadata
  <2>2. /\ Names(Envelope(ValueKey, v)) = {Key(ValueKey)}
        /\ ValueOf(ValueKey, Envelope(ValueKey, v)) = v
    BY ReservedKeys, EnvelopeHolds
  <2>3. Names(Envelope(ValueKey, v)) # {Key(TextKey)}
    BY <2>2, ReservedKeys
  <2> QED
    BY <2>1, <2>2, <2>3 DEF RecoverLegacyMetadata
<1> QED
  BY <1>1, <1>2, <1>3

\* Without an envelope, what a consumer recovers is what was stored unless it
\* looks like one.
LEMMA RecoveryOfBare ==
  ASSUME NEW v, IsJson(v), \A p \in DOMAIN v : v[p].t # "text"
  PROVE  RecoverLegacyMetadata(v) = v <=> ~ LooksEnveloped(v)
<1> DEFINE text == v[<<Key(TextKey)>>]
<1>1. CASE Names(v) = {Key(ValueKey)}
  <2>1. Names(v) # {Key(TextKey)}
    BY <1>1, ReservedKeys
  <2>2. RecoverLegacyMetadata(v) = ValueOf(ValueKey, v)
    BY <1>1, <2>1 DEF RecoverLegacyMetadata
  <2> QED
    BY <1>1, <2>2, PartIsNotWhole DEF LooksEnveloped
<1>2. CASE Names(v) = {Key(TextKey)}
  <2>1. Names(v) # {Key(ValueKey)}
    BY <1>2, ReservedKeys
  <2>2. <<Key(TextKey)>> \in DOMAIN v
    <3>1. PICK p \in DOMAIN v : Len(p) = 1 /\ p[1] = Key(TextKey)
      BY <1>2 DEF Names
    <3>2. p \in Seq(Steps)
      BY DEF IsJson
    <3>3. p = <<Key(TextKey)>>
      BY <3>1, <3>2
    <3> QED
      BY <3>3
  <2>3. text.t # "text"
    BY <2>2
  <2>4. v # Nothing
    BY DEF IsJson, Nothing
  <2> HIDE DEF text
  <2>5. CASE text.t \in {"str", "redacted"}
    BY <1>2, <2>1, <2>3, <2>4, <2>5 DEF RecoverLegacyMetadata, LooksEnveloped, text
  <2>6. CASE text.t \notin {"str", "redacted"}
    BY <1>2, <2>1, <2>3, <2>6 DEF RecoverLegacyMetadata, LooksEnveloped, text
  <2> QED
    BY <2>5, <2>6
<1>3. CASE Names(v) # {Key(ValueKey)} /\ Names(v) # {Key(TextKey)}
  BY <1>3 DEF RecoverLegacyMetadata, LooksEnveloped
<1> QED
  BY <1>1, <1>2, <1>3

-----------------------------------------------------------------------------
(* The path. *)

\* How the column and the answer came about.
ColumnIsRedacted ==
  /\ origin = "legacy" => column = asked.metadata
  /\ origin = "append" /\ column # Nothing =>
       MetadataWithinWireBounds(asked.metadata) /\ column = RedactMetadata(asked.metadata)

WireIsProjection ==
  /\ stage = "answered" =>
       /\ wire = HandedOut(column)
       /\ MetadataWithinWireBounds(wire) /\ ValidWireTimestamp(asked)
  /\ stage = "projection_failed" =>
       ~ (MetadataWithinWireBounds(HandedOut(column)) /\ ValidWireTimestamp(asked))

IInv == TypeOK /\ ColumnIsRedacted /\ WireIsProjection

\* What may be asked.
LEMMA AskedFacts ==
  ASSUME TypeOK
  PROVE  /\ IsJson(asked.metadata)
         /\ \A p \in DOMAIN asked.metadata : asked.metadata[p].t # "text"
         /\ origin = "append" => IsJsonObject(asked.metadata)
         /\ store = "d1" => origin = "append"
BY PipelineAssumption DEF TypeOK, IsJsonObject

\* A JSON value is something.
LEMMA JsonIsSomething == \A v : IsJson(v) => v # Nothing
BY DEF IsJson, Nothing

\* Redacting what was asked gives a JSON object without texts in it.
LEMMA RedactedAsked ==
  ASSUME TypeOK, origin = "append"
  PROVE  LET r == RedactMetadata(asked.metadata)
         IN  /\ IsJsonObject(r) /\ HoldsNoSecret(r)
             /\ \A p \in DOMAIN r : r[p].t # "text"
<1> DEFINE v == asked.metadata
           r == RedactMetadata(v)
<1>1. IsJsonObject(v) /\ IsJson(v) /\ \A p \in DOMAIN v : v[p].t # "text"
  BY AskedFacts DEF IsJsonObject
<1>2. IsJson(r) /\ r[<<>>] = v[<<>>] /\ HoldsNoSecret(r)
  BY <1>1, RedactIsJson, RedactedHoldsNoSecret
<1>3. \A p \in DOMAIN r : p \in DOMAIN v /\ (r[p] = Redacted \/ r[p] = v[p])
  BY RedactFacts
<1> QED
  BY <1>1, <1>2, <1>3 DEF IsJsonObject, Redacted

\* The invariant holds at the beginning: of an append, nothing is stored.
LEMMA InitIInv == Init => IInv
<1> SUFFICES ASSUME Init PROVE IInv
  OBVIOUS
<1>1. CASE origin = "append"
  BY <1>1 DEF Init, IInv, TypeOK, ColumnIsRedacted, WireIsProjection
<1>2. CASE origin = "legacy"
  <2>1. IsJson(asked.metadata) /\ asked.metadata # Nothing
    BY <1>2, JsonIsSomething, PipelineAssumption DEF Init
  <2> QED
    BY <1>2, <2>1 DEF Init, IInv, TypeOK, ColumnIsRedacted, WireIsProjection
<1> QED
  BY <1>1, <1>2 DEF Init

\* What a store hands out is a JSON object.
LEMMA HandedOutFacts ==
  ASSUME IInv, column # Nothing
  PROVE  /\ IsJsonObject(HandedOut(column))
         /\ HoldsNoSecret(column) => HoldsNoSecret(HandedOut(column))
<1>1. IsJson(column)
  BY DEF IInv, TypeOK
<1>2. CASE store = "d1"
  <2>1. IsJsonObject(column)
    BY <1>2, AskedFacts, RedactedAsked DEF IInv, ColumnIsRedacted
  <2> QED
    BY <1>2, <2>1 DEF HandedOut
<1>3. CASE store # "d1"
  BY <1>1, <1>3, ProjectedFacts DEF HandedOut
<1> QED
  BY <1>2, <1>3

\* Every step preserves the invariant.
LEMMA IInvStep == IInv /\ [Next]_vars => IInv'
<1> SUFFICES ASSUME IInv, [Next]_vars PROVE IInv'
  OBVIOUS
<1>1. CASE Accept
  <2>1. IsJson(column') /\ column' # Nothing
    BY <1>1, RedactedAsked, JsonIsSomething DEF Accept, IInv, IsJsonObject
  <2>2. TypeOK'
    BY <1>1, <2>1 DEF Accept, IInv, TypeOK
  <2>3. ColumnIsRedacted'
    BY <1>1 DEF Accept, IInv, ColumnIsRedacted
  <2>4. WireIsProjection'
    BY <1>1 DEF Accept, WireIsProjection
  <2> QED
    BY <2>2, <2>3, <2>4 DEF IInv
<1>2. CASE Refuse
  <2>1. TypeOK'
    BY <1>2 DEF Refuse, IInv, TypeOK
  <2>2. ColumnIsRedacted' /\ WireIsProjection'
    BY <1>2 DEF Refuse, IInv, ColumnIsRedacted, WireIsProjection
  <2> QED
    BY <2>1, <2>2 DEF IInv
<1>3. CASE Answer
  <2>1. column # Nothing
    BY <1>3 DEF Answer, IInv, TypeOK
  <2>2. IsJsonObject(HandedOut(column)) /\ HandedOut(column) # Nothing
    BY <2>1, HandedOutFacts, JsonIsSomething DEF IsJsonObject
  <2>3. HandedOut(column)' = HandedOut(column)
    BY <1>3 DEF Answer, HandedOut
  <2>4. \/ /\ MetadataWithinWireBounds(HandedOut(column)) /\ ValidWireTimestamp(asked)
           /\ wire' = HandedOut(column) /\ stage' = "answered"
        \/ /\ ~ (MetadataWithinWireBounds(HandedOut(column)) /\ ValidWireTimestamp(asked))
           /\ wire' = Nothing /\ stage' = "projection_failed"
    BY <1>3 DEF Answer
  <2>5. TypeOK'
    BY <1>3, <2>2, <2>4 DEF Answer, IInv, TypeOK
  <2>6. ColumnIsRedacted'
    BY <1>3 DEF Answer, IInv, ColumnIsRedacted
  <2>7. WireIsProjection'
    BY <1>3, <2>3, <2>4 DEF Answer, WireIsProjection
  <2> QED
    BY <2>5, <2>6, <2>7 DEF IInv
<1>4. CASE UNCHANGED vars
  BY <1>4 DEF vars, IInv, TypeOK, ColumnIsRedacted, WireIsProjection, HandedOut
<1> QED
  BY <1>1, <1>2, <1>3, <1>4 DEF Next

\* The inductive invariant holds in every reachable state.
THEOREM Invariant == Spec => []IInv
BY InitIInv, IInvStep, PTL DEF Spec

\* What is stored is a JSON value, what is answered a JSON object.
THEOREM TypeCorrect == Spec => []TypeOK
<1>1. IInv => TypeOK
  BY DEF IInv
<1> QED
  BY <1>1, Invariant, PTL

\* Nothing under a sensitive name, at any depth, is stored or answered.
THEOREM NoSecretSurvives == Spec => []SecretsAreRedacted
<1>1. ASSUME IInv PROVE SecretsAreRedacted
  <2> SUFFICES ASSUME origin = "append"
               PROVE  HoldsNoSecret(column) /\ HoldsNoSecret(wire)
    BY DEF SecretsAreRedacted
  <2>1. HoldsNoSecret(Nothing)
    BY DEF HoldsNoSecret, Nothing
  <2>2. HoldsNoSecret(column)
    BY <1>1, <2>1, RedactedAsked DEF IInv, ColumnIsRedacted
  <2>3. HoldsNoSecret(wire)
    <3>1. CASE wire = Nothing
      BY <2>1, <3>1
    <3>2. CASE wire # Nothing
      <4>1. wire = HandedOut(column) /\ column # Nothing
        BY <1>1, <3>2 DEF IInv, TypeOK, WireIsProjection
      <4> QED
        BY <1>1, <2>2, <4>1, HandedOutFacts
    <3> QED
      BY <3>1, <3>2
  <2> QED
    BY <2>2, <2>3
<1> QED
  BY <1>1, Invariant, PTL

\* A consumer recovers exactly what is stored, with the one exception of D1.
THEOREM NothingIsLostOnTheWire == Spec => []ProjectionIsLossless
<1>1. ASSUME IInv PROVE ProjectionIsLossless
  <2> SUFFICES ASSUME stage = "answered"
               PROVE  RecoverLegacyMetadata(wire) = column
                        <=> ~ (store = "d1" /\ LooksEnveloped(column))
    BY DEF ProjectionIsLossless
  <2>1. wire = HandedOut(column) /\ column # Nothing /\ IsJson(column)
    BY <1>1 DEF IInv, TypeOK, WireIsProjection
  <2>2. CASE store = "d1"
    <3>1. \A p \in DOMAIN column : column[p].t # "text"
      BY <1>1, <2>1, <2>2, AskedFacts, RedactedAsked DEF IInv, ColumnIsRedacted
    <3> QED
      BY <2>1, <2>2, <3>1, RecoveryOfBare DEF HandedOut
  <2>3. CASE store # "d1"
    BY <2>1, <2>3, RecoveryInvertsProjection DEF HandedOut
  <2> QED
    BY <2>2, <2>3
<1> QED
  BY <1>1, Invariant, PTL

\* Durable evidence is answered, unless redaction lengthened it, a reserved
\* name had it enveloped, or its instant is in no four-digit year.
THEOREM FailuresHaveGrown == Spec => []OnlyGrowthFails
<1>1. ASSUME IInv PROVE OnlyGrowthFails
  <2> SUFFICES ASSUME origin = "append", stage = "projection_failed",
                      EncodesWithinLimit(column),
                      ~ (store = "postgres" /\ HoldsReservedName(column)),
                      ValidWireTimestamp(asked)
               PROVE  FALSE
    BY DEF OnlyGrowthFails
  <2> DEFINE v == asked.metadata
  <2>1. /\ MetadataWithinWireBounds(v) /\ column = RedactMetadata(v)
        /\ ~ MetadataWithinWireBounds(HandedOut(column))
    BY <1>1 DEF IInv, TypeOK, ColumnIsRedacted, WireIsProjection
  <2>3. IsJson(v) /\ IsJsonObject(column)
    BY <1>1, <2>1, AskedFacts, RedactedAsked DEF IInv
  <2>4. MetadataWithinWireBounds(column)
    BY <2>1, <2>3, RedactKeepsBounds
  <2>5. HandedOut(column) = column
    BY <1>1, <2>3, <2>4
    DEF HandedOut, ProjectStoredMetadata, MetadataWithinWireBounds, IsJsonObject, IInv, TypeOK
  <2> QED
    BY <2>1, <2>4, <2>5
<1> QED
  BY <1>1, Invariant, PTL
=============================================================================
