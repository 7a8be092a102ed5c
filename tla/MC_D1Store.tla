----------------------------- MODULE MC_D1Store -----------------------------
(* Two isolates, two operators running setup at once, one key under
   contention and an unkeyed append. *)
EXTENDS D1Store, TLC

CONSTANTS w1, w2, o1, o2, support, k1, filed, closed, float, integer

MCWorkers == {w1, w2}
MCOperators == {o1, o2}
MCMetas == {float, integer}
noon == <<1, 0>>

MCRedactedAs == [m \in MCMetas |-> m]
\* 1.0 and 1 are one number in JavaScript.
MCAsJavaScript == [m \in MCMetas |-> IF m = float THEN integer ELSE m]
MCTimes == {noon}

Ask(caller, key, body, meta, at) ==
  [caller |-> caller, key |-> key, body |-> body, meta |-> meta, at |-> at]

\* Two intents under one key, one of them with a number JavaScript changes, and
\* such an append without a key.  Refused callers and requests are the core's
\* business and MC_PostgresAppend's.
MCRequests ==
  { Ask(support, k1, filed, float, noon),
    Ask(support, k1, closed, integer, noon),
    Ask(support, NoKey, filed, float, noon) }

\* The isolates' clocks disagree.
MCReadings == [w \in MCWorkers |-> IF w = w1 THEN {0} ELSE {1}]

OperatorSymmetry == Permutations(MCOperators)
=============================================================================
