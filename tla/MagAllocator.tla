---- MODULE MagAllocator ----
(***************************************************************************)
(* The magazine allocator of tcpsplit/magazine.c and lib/magazine.h.       *)
(*                                                                         *)
(* Every CPU owns two magazine pairs, one for process context (0) and one  *)
(* for softirq context (1).  A magazine is a stack of MAG_DEPTH element    *)
(* pointers; how many of its slots are in use is kept in the pair, not in  *)
(* the magazine.  Full and empty magazines are exchanged with a depot that *)
(* all CPUs share under allocator->lock.                                   *)
(*                                                                         *)
(* mag_alloc_elem and mag_free_elem run with interrupts off, so a CPU is   *)
(* inside at most one of them and nothing else touches its pairs.  A call  *)
(* is one action when it stays in the pair; when it needs the depot it is  *)
(* two: the part before the lock, and the part from the lock to the end.   *)
(* Other CPUs run between the two.                                         *)
(***************************************************************************)
EXTENDS Integers, Sequences

CONSTANTS Cpus,           \* the possible CPUs
          Contexts,       \* of a pair: process context 0, softirq context 1
          Elems,          \* the elements handed out (struct pool_elem)
          SpareMags,      \* the magazines kzalloc can still provide
          MAG_DEPTH,      \* slots of a magazine
          CountMod,       \* 2^16: full_count and empty_count are uint16_t
          KzallocMayFail, \* whether kzalloc(GFP_ATOMIC) can return NULL
          NULL

VARIABLES stack,       \* stack[m][i]: slot i of magazine m, stale ones included
          mags,        \* mags[p][i]: the two magazines of pair p
          count,       \* count[p][i]: how many slots of mags[p][i] are in use
          full_list, empty_list,     \* the depot: newest magazine first
          full_count, empty_count,   \* the depot's counters
          fresh,       \* the magazines kzalloc has not handed out yet
          op,          \* op[c]: the depot call CPU c is waiting to make
          held,        \* the elements the allocator's users hold
          panic        \* "none", or why the kernel stopped

depotVars == <<full_list, empty_list, full_count, empty_count, fresh>>
magVars == <<stack, mags, count, depotVars, op, held, panic>>

Pairs == Cpus \X Contexts
PairMags == Cpus \X Contexts \X {0, 1}
Mags == PairMags \cup SpareMags
Slots == 0 .. (MAG_DEPTH - 1)
Idle == [call |-> "idle", ctx |-> NULL, elem |-> NULL]
Ops == [call : {"idle", "alloc", "free"}, ctx : Contexts \cup {NULL}, elem : Elems \cup {NULL}]

ASSUME MagConstants ==
    /\ MAG_DEPTH \in Nat \ {0}
    /\ CountMod \in Nat \ {0}
    /\ KzallocMayFail \in BOOLEAN
    /\ Contexts \subseteq {0, 1}
    /\ PairMags \cap SpareMags = {}
    /\ NULL \notin Mags
    /\ NULL \notin Elems

\* mag_allocator_init and init_mag_pair: two zeroed magazines in every pair
\* and an empty depot.  The elements start with the allocator's user.
MagInit ==
    /\ stack = [m \in Mags |-> [i \in Slots |-> NULL]]
    /\ mags = [p \in Pairs |-> [i \in {0, 1} |-> <<p[1], p[2], i>>]]
    /\ count = [p \in Pairs |-> [i \in {0, 1} |-> 0]]
    /\ full_list = <<>>
    /\ empty_list = <<>>
    /\ full_count = 0
    /\ empty_count = 0
    /\ fresh = SpareMags
    /\ op = [c \in Cpus |-> Idle]
    /\ panic = "none"

\* The two counters of a pair added up.
mag_pair_count(ct) == ct[0] + ct[1]

\* Mutant: an exchange that copies the second entry over the first.
swap_mags_copies(f) == [i \in {0, 1} |-> f[1]]

\* Both mag_ptr[] and count[] are exchanged by three XORs each.
swap_mags(f) == [i \in {0, 1} |-> f[1 - i]]

\* Mutant: the swap after the last element of a magazine is forgotten.
mag_pair_alloc_no_swap(mg, ct) ==
    IF ct[0] = 0
    THEN [elem |-> NULL, mags |-> mg, count |-> ct]
    ELSE [elem |-> stack[mg[0]][ct[0] - 1], mags |-> mg, count |-> [ct EXCEPT ![0] = @ - 1]]

\* Mutant: the magazines are exchanged, their counts are not.
mag_pair_alloc_half_swap(mg, ct) ==
    IF ct[0] = 0
    THEN [elem |-> NULL, mags |-> mg, count |-> ct]
    ELSE [elem |-> stack[mg[0]][ct[0] - 1], count |-> [ct EXCEPT ![0] = @ - 1],
          mags |-> IF ct[0] = 1 THEN swap_mags(mg) ELSE mg]

\* mag_pair_alloc on a pair with magazines mg and counts ct: the element it
\* returns and the pair it leaves behind.
mag_pair_alloc(mg, ct) ==
    IF ct[0] = 0
    THEN [elem |-> NULL, mags |-> mg, count |-> ct]
    ELSE LET n == ct[0] - 1
             e == stack[mg[0]][n]
             dec == [ct EXCEPT ![0] = n]
         IN  IF n = 0
             THEN [elem |-> e, mags |-> swap_mags(mg), count |-> swap_mags(dec)]
             ELSE [elem |-> e, mags |-> mg, count |-> dec]

\* The magazine of a pair that mag_pair_free writes to.
FreeIdx(ct) == IF ct[0] = MAG_DEPTH THEN 1 ELSE 0

\* The magazine of a pair that mag_allocator_switch_full gives to the depot.
FullIdx(ct) == IF ct[1] = MAG_DEPTH THEN 1 ELSE 0

\* The magazine of a pair that mag_allocator_switch_empty refills.
EmptyIdx(ct) == IF ct[0] # 0 THEN 1 ELSE 0

\* Mutants: the depot is called one element too late, or one magazine too soon.
BothFull_late(ct) == mag_pair_count(ct) > 2 * MAG_DEPTH
BothFull_soon(ct) == ct[0] = MAG_DEPTH

\* Whether mag_free_elem hands a magazine to the depot after its free.
BothFull(ct) == mag_pair_count(ct) = 2 * MAG_DEPTH

\* The element a call returns is now its user's.
Take(e) == held' = held \cup ({e} \ {NULL})

\* mag_alloc_elem when the pair has elements: no lock is taken.
AllocLocal(c, x, e) ==
    LET p == <<c, x>>
        r == mag_pair_alloc(mags[p], count[p])
    IN  /\ panic = "none"
        /\ op[c] = Idle
        /\ mag_pair_count(count[p]) # 0
        /\ e = r.elem
        /\ mags' = [mags EXCEPT ![p] = r.mags]
        /\ count' = [count EXCEPT ![p] = r.count]
        /\ Take(e)
        /\ UNCHANGED <<stack, depotVars, op, panic>>

\* mag_alloc_elem when the pair is empty: up to the lock of
\* mag_allocator_switch_empty.
AllocNeedsDepot(c, x) ==
    /\ panic = "none"
    /\ op[c] = Idle
    /\ mag_pair_count(count[<<c, x>>]) = 0
    /\ op' = [op EXCEPT ![c] = [call |-> "alloc", ctx |-> x, elem |-> NULL]]
    /\ UNCHANGED <<stack, mags, count, depotVars, held, panic>>

\* mag_allocator_switch_empty under the lock when the depot has a full
\* magazine, then the rest of mag_alloc_elem.
switch_empty(c, e) ==
    LET p == <<c, op[c].ctx>>
        idx == EmptyIdx(count[p])
        r == mag_pair_alloc([mags[p] EXCEPT ![idx] = Head(full_list)],
                            [count[p] EXCEPT ![idx] = MAG_DEPTH])
    IN  /\ panic = "none"
        /\ op[c].call = "alloc"
        /\ full_count # 0
        /\ mags[p][idx] # NULL
        /\ empty_list' = <<mags[p][idx]>> \o empty_list
        /\ empty_count' = (empty_count + 1) % CountMod
        /\ full_list' = Tail(full_list)
        /\ full_count' = full_count - 1
        /\ e = r.elem
        /\ mags' = [mags EXCEPT ![p] = r.mags]
        /\ count' = [count EXCEPT ![p] = r.count]
        /\ Take(e)
        /\ op' = [op EXCEPT ![c] = Idle]
        /\ UNCHANGED <<stack, fresh, panic>>

\* Mutant: full_count, a signed counter now, is decremented before it is tested.
switch_empty_fails_early_dec(c) ==
    /\ panic = "none"
    /\ op[c].call = "alloc"
    /\ full_count = 0
    /\ full_count' = full_count - 1
    /\ op' = [op EXCEPT ![c] = Idle]
    /\ UNCHANGED <<stack, mags, count, full_list, empty_list, empty_count, fresh, held, panic>>

\* The same with a depot that has no full magazine ("may fail, it's ok"):
\* the pair is still empty and mag_alloc_elem returns NULL.
switch_empty_fails(c) ==
    /\ panic = "none"
    /\ op[c].call = "alloc"
    /\ full_count = 0
    /\ op' = [op EXCEPT ![c] = Idle]
    /\ UNCHANGED <<stack, mags, count, depotVars, held, panic>>

\* mag_free_elem up to the test for two full magazines: the assertion and the
\* store of mag_pair_free.  The element is out of its user's hands once the
\* call returns: here, or after switch_full.
Free(c, x, e) ==
    LET p == <<c, x>>
        idx == FreeIdx(count[p])
        m == mags[p][idx]
        ct == [count[p] EXCEPT ![idx] = @ + 1]
    IN  /\ panic = "none"
        /\ op[c] = Idle
        /\ e \in held
        /\ m # NULL
        /\ IF count[p][0] < MAG_DEPTH \/ count[p][1] < MAG_DEPTH
           THEN /\ stack' = [stack EXCEPT ![m] = [@ EXCEPT ![count[p][idx]] = e]]
                /\ count' = [count EXCEPT ![p] = ct]
                /\ IF BothFull(ct)
                   THEN /\ op' = [op EXCEPT ![c] = [call |-> "free", ctx |-> x, elem |-> e]]
                        /\ UNCHANGED held
                   ELSE /\ held' = held \ {e}
                        /\ UNCHANGED op
                /\ UNCHANGED panic
           ELSE /\ panic' = "assert"
                /\ UNCHANGED <<stack, count, op, held>>
        /\ UNCHANGED <<mags, depotVars>>

\* mag_allocator_switch_full: its assertion, its critical section and the
\* reset of the count.  An unchecked kzalloc may leave NULL in the pair.
switch_full(c) ==
    LET p == <<c, op[c].ctx>>
        idx == FullIdx(count[p])
    IN  /\ panic = "none"
        /\ op[c].call = "free"
        /\ IF count[p][idx] = MAG_DEPTH
           THEN /\ full_list' = <<mags[p][idx]>> \o full_list
                /\ full_count' = (full_count + 1) % CountMod
                /\ \/ /\ empty_count # 0
                      /\ mags' = [mags EXCEPT ![p] = [@ EXCEPT ![idx] = Head(empty_list)]]
                      /\ empty_list' = Tail(empty_list)
                      /\ empty_count' = empty_count - 1
                      /\ UNCHANGED fresh
                   \/ /\ empty_count = 0
                      /\ \E m \in fresh \cup (IF KzallocMayFail THEN {NULL} ELSE {}) :
                            /\ mags' = [mags EXCEPT ![p] = [@ EXCEPT ![idx] = m]]
                            /\ fresh' = fresh \ {m}
                      /\ UNCHANGED <<empty_list, empty_count>>
                /\ count' = [count EXCEPT ![p] = [@ EXCEPT ![idx] = 0]]
                /\ held' = held \ {op[c].elem}
                /\ op' = [op EXCEPT ![c] = Idle]
                /\ UNCHANGED panic
           ELSE /\ panic' = "assert"
                /\ UNCHANGED <<mags, count, depotVars, held, op>>
        /\ UNCHANGED stack

\* mag_pair_free stores through a NULL magazine pointer.
FreeNullMag(c, x) ==
    /\ panic = "none"
    /\ op[c] = Idle
    /\ held # {}
    /\ mags[<<c, x>>][FreeIdx(count[<<c, x>>])] = NULL
    /\ panic' = "null_mag"
    /\ UNCHANGED <<stack, mags, count, depotVars, op, held>>

\* mag_allocator_switch_empty links a NULL magazine into the empty list.
SwitchEmptyNullMag(c) ==
    LET p == <<c, op[c].ctx>>
    IN  /\ panic = "none"
        /\ op[c].call = "alloc"
        /\ full_count # 0
        /\ mags[p][EmptyIdx(count[p])] = NULL
        /\ panic' = "null_mag"
        /\ UNCHANGED <<stack, mags, count, depotVars, op, held>>

----
(* The allocator under every sequence of calls its users could make: any   *)
(* CPU allocates or frees, in either context, at any time.                 *)

\* Elements that are not being freed by a call under way.
Freeable == held \ {op[c].elem : c \in Cpus}

Init == MagInit /\ held = Elems

mag_alloc_elem(c) ==
    \/ \E x \in Contexts, e \in Elems \cup {NULL} : AllocLocal(c, x, e)
    \/ \E x \in Contexts : AllocNeedsDepot(c, x)
    \/ \E e \in Elems \cup {NULL} : switch_empty(c, e)
    \/ switch_empty_fails(c)
    \/ SwitchEmptyNullMag(c)

mag_free_elem(c) ==
    \/ \E x \in Contexts, e \in Freeable : Free(c, x, e)
    \/ \E x \in Contexts : FreeNullMag(c, x)
    \/ switch_full(c)

Next == \E c \in Cpus : mag_alloc_elem(c) \/ mag_free_elem(c)

Spec == Init /\ [][Next]_magVars

----
(* Correctness.                                                            *)

\* A place an element can be taken from: a slot below the count of a pair's
\* magazine, or any slot of a magazine on the full list.
InPair(m, i) == \E p \in Pairs, k \in {0, 1} : mags[p][k] = m /\ i < count[p][k]
InFull(m) == \E j \in DOMAIN full_list : full_list[j] = m
Occupied(m, i) == InPair(m, i) \/ InFull(m)

\* Every variable keeps the shape of the C type behind it.
TypeOK ==
    /\ stack \in [Mags -> [Slots -> Elems \cup {NULL}]]
    /\ mags \in [Pairs -> [{0, 1} -> Mags \cup {NULL}]]
    /\ count \in [Pairs -> [{0, 1} -> 0 .. MAG_DEPTH]]
    /\ full_list \in Seq(Mags)
    /\ empty_list \in Seq(Mags)
    /\ full_count \in 0 .. (CountMod - 1)
    /\ empty_count \in 0 .. (CountMod - 1)
    /\ fresh \in SUBSET SpareMags
    /\ op \in [Cpus -> Ops]
    /\ held \in SUBSET Elems
    /\ panic \in {"none", "assert", "null_mag"}

\* magazine.c:89 and :102: whatever the users do, and even after a failed
\* kzalloc, neither assert of the free path can panic the machine.
AssertsHold == panic # "assert"

\* magazine.c:78, "Make sure that, if there are elems in the pair, idx 0 has
\* them": a pair never hides its elements behind an empty first magazine, so
\* mag_alloc_elem does not return NULL while its own pair has elements.
FirstHasElems == \A p \in Pairs : count[p][0] = 0 => count[p][1] = 0

\* No element is handed out twice or stored twice: an element sits in at most
\* one slot that an allocation can read, that slot holds a real element, and
\* it is not one some user holds (one being freed is both, until the call
\* returns).
ElemsUnique ==
    /\ \A m, n \in Mags : \A i, j \in Slots :
          Occupied(m, i) /\ Occupied(n, j) /\ stack[m][i] = stack[n][j] => m = n /\ i = j
    /\ \A m \in Mags : \A i \in Slots :
          Occupied(m, i) => stack[m][i] \in (Elems \ Freeable)

\* Nothing is lost: an element its users do not hold is in a slot some
\* allocation can reach.
ElemsKept ==
    \A e \in Elems \ held : \E m \in Mags : \E i \in Slots :
        Occupied(m, i) /\ stack[m][i] = e

\* Across the CPUs every element is accounted for: in one slot or with one
\* user, never with two and never lost.
ElemsAccounted == ElemsUnique /\ ElemsKept

\* A magazine is in one place only: once in one pair, once in one depot list
\* or still unallocated; two CPUs never push and pop the same stack.
MagsUnique ==
    /\ \A p, q \in Pairs : \A i, k \in {0, 1} :
          mags[p][i] = mags[q][k] /\ mags[p][i] # NULL => p = q /\ i = k
    /\ \A i, j \in DOMAIN full_list : full_list[i] = full_list[j] => i = j
    /\ \A i, j \in DOMAIN empty_list : empty_list[i] = empty_list[j] => i = j
    /\ \A i \in DOMAIN full_list, j \in DOMAIN empty_list : full_list[i] # empty_list[j]
    /\ \A p \in Pairs, k \in {0, 1} :
          /\ \A i \in DOMAIN full_list : full_list[i] # mags[p][k]
          /\ \A i \in DOMAIN empty_list : empty_list[i] # mags[p][k]
          /\ mags[p][k] \notin fresh
    /\ \A i \in DOMAIN full_list : full_list[i] \notin fresh
    /\ \A i \in DOMAIN empty_list : empty_list[i] \notin fresh

\* The uint16_t counters agree with the lists modulo their width, so a
\* counter that is not zero never makes list_entry read an empty list, even
\* after a counter wrapped.
DepotCounts ==
    /\ full_count = Len(full_list) % CountMod
    /\ empty_count = Len(empty_list) % CountMod

----
(* The allocator implements BatchCache: a pair's cache is what its two     *)
(* magazines hold below their counts, less an element whose free is still  *)
(* waiting for the lock; a batch is what a magazine of the full list holds. *)

Contents(m, n) == {stack[m][i] : i \in 0 .. (n - 1)}

CacheOf(p) ==
    (Contents(mags[p][0], count[p][0]) \cup Contents(mags[p][1], count[p][1]))
        \ (IF op[p[1]].ctx = p[2] THEN {op[p[1]].elem} ELSE {})

BC == INSTANCE BatchCache WITH
    Batch <- MAG_DEPTH,
    cache <- [p \in Pairs |-> CacheOf(p)],
    depot <- {Contents(full_list[j], MAG_DEPTH) : j \in DOMAIN full_list}

\* Every call of mag_alloc_elem and mag_free_elem takes effect at one instant
\* and does there what BatchCache says, whatever the interleaving of the CPUs.
ImplementsBatchCache == BC!Spec
====
