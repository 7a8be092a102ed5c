------------------------- MODULE MC_PostgresAppend -------------------------
(* Small instances of PostgresAppend: two Plugin Instances, two writers that
   share a key, one caller that is not a writer. *)
EXTENDS PostgresAppend, TLC

CONSTANTS p1, p2, support, billing, viewer, k1, filed, closed, blank,
          plain, tokenA, tokenB, masked, legacy, huge

MCProviders == {p1, p2}
MCCallers == {support, billing, viewer}
MCWriters == {support, billing}
MCBodies == {filed, closed, blank}
MCInvalid == {blank}
MCMetas == {plain, tokenA, tokenB, masked, legacy, huge}
\* Two instants of the same microsecond.
noon == <<1, 0>>
justAfter == <<1, 1>>
MCTimes == {noon, justAfter}

MCRedactedAs == [m \in MCMetas |-> IF m \in {tokenA, tokenB} THEN masked ELSE m]

Ask(caller, key, body, meta, at) ==
  [caller |-> caller, key |-> key, body |-> body, meta |-> meta, at |-> at]

\* One key under contention: a replay that differs only in a secret and below a
\* microsecond, a changed intent, a second writer, and callers to be refused.
KeyedRequests ==
  { Ask(support, k1, filed, tokenA, noon),
    Ask(support, k1, filed, tokenB, justAfter),
    Ask(support, k1, closed, plain, noon),
    Ask(billing, k1, filed, tokenA, noon),
    Ask(viewer,  k1, filed, plain, noon),
    Ask(billing, k1, blank, plain, noon) }

\* An unkeyed append that is retried, next to a key under which reserved
\* metadata and metadata that outgrows the wire bound when redacted contend.
RetriedRequests ==
  { Ask(support, NoKey, filed, plain, noon),
    Ask(support, k1, filed, legacy, noon),
    Ask(support, k1, closed, huge, noon) }

ProviderSymmetry == Permutations(MCProviders)
=============================================================================
