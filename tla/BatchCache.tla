---- MODULE BatchCache ----
(***************************************************************************)
(* What the magazine allocator of tcpsplit/magazine.c promises its users,  *)
(* without magazines, stacks, counters or locks.                           *)
(*                                                                         *)
(* Every pair (a CPU in one context) has a private cache of fewer than     *)
(* 2 * Batch elements.  Elements move between caches only through the      *)
(* depot, and only in whole batches: a cache that would reach 2 * Batch    *)
(* elements gives Batch of them away, a cache that is empty may fetch one  *)
(* batch.  Each call is atomic.                                            *)
(***************************************************************************)
EXTENDS Integers, FiniteSets

CONSTANTS Pairs, Elems, Batch

VARIABLES cache,   \* cache[p]: the elements pair p can hand out on its own
          depot,   \* the batches any pair can fetch
          held     \* the elements the users have

vars == <<cache, depot, held>>

Init ==
    /\ cache = [p \in Pairs |-> {}]
    /\ depot = {}
    /\ held = Elems

\* An allocation served by the pair's own cache.
Alloc(p) ==
    \E e \in cache[p] :
        /\ cache' = [cache EXCEPT ![p] = @ \ {e}]
        /\ held' = held \cup {e}
        /\ UNCHANGED depot

\* An allocation served by a batch of the depot: only an empty cache does so.
AllocFromDepot(p) ==
    /\ cache[p] = {}
    /\ \E b \in depot : \E e \in b :
        /\ depot' = depot \ {b}
        /\ cache' = [cache EXCEPT ![p] = b \ {e}]
        /\ held' = held \cup {e}

\* A free that stays in the pair's own cache.
Free(p) ==
    /\ Cardinality(cache[p]) < 2 * Batch - 1
    /\ \E e \in held :
        /\ cache' = [cache EXCEPT ![p] = @ \cup {e}]
        /\ held' = held \ {e}
        /\ UNCHANGED depot

\* A free that would fill the cache: one batch goes to the depot.
FreeToDepot(p) ==
    /\ Cardinality(cache[p]) = 2 * Batch - 1
    /\ \E e \in held : \E b \in SUBSET (cache[p] \cup {e}) :
        /\ Cardinality(b) = Batch
        /\ depot' = depot \cup {b}
        /\ cache' = [cache EXCEPT ![p] = (@ \cup {e}) \ b]
        /\ held' = held \ {e}

Next == \E p \in Pairs : Alloc(p) \/ AllocFromDepot(p) \/ Free(p) \/ FreeToDepot(p)

Spec == Init /\ [][Next]_vars
====
