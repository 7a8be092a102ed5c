------------------------ MODULE MC_EvidencePipeline ------------------------
(* Every metadata object of at most two names over values of depth one, with
   limits small enough that each of them is met and exceeded. *)
EXTENDS EvidencePipeline

MCKeyChars ==
  [note |-> 4, token |-> 5, wide |-> 31,
   _lenso_legacy_value |-> 19, _lenso_legacy_portable_json |-> 27]
AllNames == DOMAIN MCKeyChars

Leaf(node) == [p \in {<<>>} |-> node]
Branch(node, parts) ==
  [p \in {<<>>} \cup UNION {{<<s>> \o q : q \in DOMAIN parts[s]} : s \in DOMAIN parts} |->
     IF p = <<>> THEN node ELSE parts[Head(p)][Tail(p)]]

Leaves == {Leaf([t |-> "num", portable |-> b]) : b \in BOOLEAN}
            \cup {Leaf([t |-> "str", chars |-> n]) : n \in {1, 40}}

ArrayOf(n, v) == Branch([t |-> "arr"], [s \in {"item"} \X (1 .. n) |-> v])
Arrays(values) == {ArrayOf(n, v) : n \in {0, 1, 3}, v \in values}
ObjectOf(fields) == Branch(Object, [s \in {Key(k) : k \in DOMAIN fields} |-> fields[s[2]]])
Objects(values, n) ==
  {ObjectOf(f) :
     f \in UNION {[ks -> values] : ks \in {k \in SUBSET AllNames : Cardinality(k) <= n}}}

Small == Leaves \cup Arrays(Leaves) \cup Objects(Leaves, 1)
          \cup Arrays({ObjectOf([token |-> Leaf([t |-> "str", chars |-> 1])])})
MCObjects == Objects(Small, 1) \cup Objects(Leaves, 2)
              \cup {ObjectOf([note |-> v, token |-> w]) : v, w \in Small}

On(metadata, year, shift) == [metadata |-> metadata, year |-> year, shift |-> shift]
Plain == ObjectOf([note |-> Leaf([t |-> "str", chars |-> 1])])

\* New Year's Eve in another offset, at both ends of the four-digit years.
MCTimes == {On(Plain, year, shift) : year \in {0, 2024, 9999}, shift \in {-1, 0, 1}}
MetadataRequests == {On(m, 2024, 0) : m \in MCObjects}
MCAppendRequests == MetadataRequests \cup MCTimes
MCLegacyRows == {On(v, 2024, 0) : v \in MCObjects \cup Small} \cup MCTimes
=============================================================================
