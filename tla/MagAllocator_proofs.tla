---- MODULE MagAllocator_proofs ----
(***************************************************************************)
(* Proofs about MagAllocator, for any number of CPUs, elements, magazines, *)
(* any magazine depth and any width of the depot counters: its invariants, *)
(* and that it implements BatchCache.                                      *)
(***************************************************************************)
EXTENDS MagAllocator, FiniteSetTheorems, TLAPS

----
(* The inductive invariant.                                                *)

\* A counter never claims more magazines than its list holds.
NotOverdrawn ==
    /\ full_count <= Len(full_list)
    /\ empty_count <= Len(empty_list)

\* The two counts of a pair outside and inside a depot call, and what a CPU
\* that is waiting for the lock remembers.
PairOK(p) ==
    /\ count[p][0] = 0 => count[p][1] = 0
    /\ count[p][1] = MAG_DEPTH => op[p[1]].call = "free" /\ op[p[1]].ctx = p[2]
    /\ \A k \in {0, 1} : mags[p][k] = NULL => count[p][k] = 0

OpOK(c) ==
    \/ op[c] = Idle
    \/ /\ op[c].call = "alloc"
       /\ op[c].ctx \in Contexts
       /\ op[c].elem = NULL
       /\ count[<<c, op[c].ctx>>][0] = 0
       /\ count[<<c, op[c].ctx>>][1] = 0
    \/ /\ op[c].call = "free"
       /\ op[c].ctx \in Contexts
       /\ op[c].elem \in held
       /\ count[<<c, op[c].ctx>>][0] = MAG_DEPTH
       /\ count[<<c, op[c].ctx>>][1] = MAG_DEPTH

CountsOK ==
    /\ \A p \in Pairs : PairOK(p)
    /\ \A c \in Cpus : OpOK(c)
    /\ \A c, d \in Cpus : c # d /\ op[c].elem # NULL => op[d].elem # op[c].elem

IInv == TypeOK /\ AssertsHold /\ NotOverdrawn /\ CountsOK /\ MagsUnique

----
(* Facts about the operators the actions are built from.                   *)

\* The slots and counters in terms of arithmetic the provers can use.
LEMMA DepthFacts ==
    /\ MAG_DEPTH \in Nat /\ MAG_DEPTH > 0
    /\ CountMod \in Nat /\ CountMod > 0
    /\ NULL \notin Mags /\ NULL \notin Elems
    /\ Contexts \subseteq {0, 1}
    /\ \A c \in Cpus, x \in Contexts : <<c, x>> \in Pairs
BY MagConstants DEF Pairs

\* Incrementing a counter that is below its modulus.
LEMMA CounterInc ==
    ASSUME NEW n \in 0 .. (CountMod - 1)
    PROVE  /\ (n + 1) % CountMod \in 0 .. (CountMod - 1)
           /\ (n + 1) % CountMod <= n + 1
<1>1. CASE n + 1 = CountMod
  <2>1. (n + 1) % CountMod = 0
    BY <1>1, DepthFacts
  <2> QED BY <2>1, DepthFacts
<1>2. CASE n + 1 < CountMod
  <2>1. (n + 1) % CountMod = n + 1
    BY <1>2, DepthFacts
  <2> QED BY <2>1, <1>2, DepthFacts
<1> QED BY <1>1, <1>2, DepthFacts

\* list_add puts a magazine in front of a list.
LEMMA ListAdd ==
    ASSUME NEW S, NEW m \in S, NEW s \in Seq(S)
    PROVE  /\ <<m>> \o s \in Seq(S)
           /\ Len(<<m>> \o s) = Len(s) + 1
           /\ (<<m>> \o s)[1] = m
           /\ \A i \in 1 .. Len(s) : (<<m>> \o s)[i + 1] = s[i]
           /\ \A i \in 2 .. (Len(s) + 1) : (<<m>> \o s)[i] = s[i - 1]
OBVIOUS

\* list_del_init takes the first magazine off a list.
LEMMA ListDel ==
    ASSUME NEW S, NEW s \in Seq(S), Len(s) # 0
    PROVE  /\ Tail(s) \in Seq(S)
           /\ Len(Tail(s)) = Len(s) - 1
           /\ Head(s) \in S
           /\ Head(s) = s[1]
           /\ \A i \in 1 .. (Len(s) - 1) : Tail(s)[i] = s[i + 1]
OBVIOUS

----
(* The initial state.                                                      *)

\* mag_allocator_init, whatever the allocator's user has to begin with.
LEMMA MagInitIInv == MagInit /\ held \in SUBSET Elems => IInv
<1> SUFFICES ASSUME MagInit, held \in SUBSET Elems PROVE IInv
  OBVIOUS
<1> USE DepthFacts DEF MagInit
<1>1. PairMags \subseteq Mags
  BY DEF Mags
<1>2. \A p \in Pairs, i \in {0, 1} : mags[p][i] = <<p[1], p[2], i>> /\ mags[p][i] \in PairMags
  BY DEF Pairs, PairMags
<1>3. TypeOK
  <2>1. stack \in [Mags -> [Slots -> Elems \cup {NULL}]]
    OBVIOUS
  <2>2. mags \in [Pairs -> [{0, 1} -> Mags \cup {NULL}]]
    BY <1>1, <1>2
  <2>3. count \in [Pairs -> [{0, 1} -> 0 .. MAG_DEPTH]]
    OBVIOUS
  <2>4. op \in [Cpus -> Ops]
    BY DEF Idle, Ops
  <2> QED BY <2>1, <2>2, <2>3, <2>4 DEF TypeOK
<1>4. CountsOK
  BY DEF CountsOK, PairOK, OpOK, Pairs, Idle
<1>5. MagsUnique
  <2>1. \A p, q \in Pairs : \A i, k \in {0, 1} : mags[p][i] = mags[q][k] => p = q /\ i = k
    <3>1. \A p \in Pairs : p = <<p[1], p[2]>>
      BY DEF Pairs
    <3>2. SUFFICES ASSUME NEW p \in Pairs, NEW q \in Pairs, NEW i \in {0, 1}, NEW k \in {0, 1},
                          <<p[1], p[2], i>> = <<q[1], q[2], k>>
                   PROVE  p = q /\ i = k
      BY <1>2
    <3>3. p[1] = q[1] /\ p[2] = q[2] /\ i = k
      BY <3>2
    <3> QED BY <3>1, <3>3
  <2>2. \A p \in Pairs, k \in {0, 1} : mags[p][k] \notin fresh
    BY <1>2, MagConstants
  <2> QED BY <2>1, <2>2 DEF MagsUnique
<1> QED BY <1>3, <1>4, <1>5 DEF IInv, AssertsHold, NotOverdrawn

\* mag_allocator_init leaves pairs and depot in order.
LEMMA InitIInv == Init => IInv
BY MagInitIInv DEF Init

----
(* One lemma per action.                                                   *)

\* mag_pair_alloc on a pair whose first magazine is in use: the element is the
\* top of that magazine, and the pair keeps its magazines and its shape.
LEMMA PairAllocResult ==
    ASSUME NEW mg \in [{0, 1} -> Mags \cup {NULL}],
           NEW ct \in [{0, 1} -> 0 .. MAG_DEPTH],
           ct[0] # 0
    PROVE  LET r == mag_pair_alloc(mg, ct)
           IN  /\ r.elem = stack[mg[0]][ct[0] - 1]
               /\ r.mags \in [{0, 1} -> Mags \cup {NULL}]
               /\ r.count \in [{0, 1} -> 0 .. MAG_DEPTH]
               /\ \/ /\ ct[0] = 1
                     /\ r.mags[0] = mg[1] /\ r.mags[1] = mg[0]
                     /\ r.count[0] = ct[1] /\ r.count[1] = 0
                  \/ /\ ct[0] > 1
                     /\ r.mags = mg
                     /\ r.count[0] = ct[0] - 1 /\ r.count[1] = ct[1]
<1> DEFINE dec == [ct EXCEPT ![0] = ct[0] - 1]
<1>1. ct[0] \in 1 .. MAG_DEPTH /\ ct[1] \in 0 .. MAG_DEPTH
  BY DepthFacts
<1>2. dec \in [{0, 1} -> 0 .. MAG_DEPTH] /\ dec[0] = ct[0] - 1 /\ dec[1] = ct[1]
  BY <1>1, DepthFacts
<1> HIDE DEF dec
<1>3. \A f \in [{0, 1} -> Mags \cup {NULL}] :
        /\ swap_mags(f) \in [{0, 1} -> Mags \cup {NULL}]
        /\ swap_mags(f)[0] = f[1] /\ swap_mags(f)[1] = f[0]
  BY DEF swap_mags
<1>4. \A f \in [{0, 1} -> 0 .. MAG_DEPTH] :
        /\ swap_mags(f) \in [{0, 1} -> 0 .. MAG_DEPTH]
        /\ swap_mags(f)[0] = f[1] /\ swap_mags(f)[1] = f[0]
  BY DEF swap_mags
<1>5. CASE ct[0] = 1
  <2>1. mag_pair_alloc(mg, ct) = [elem |-> stack[mg[0]][ct[0] - 1],
                                  mags |-> swap_mags(mg), count |-> swap_mags(dec)]
    BY <1>5 DEF mag_pair_alloc, dec
  <2> QED BY <2>1, <1>2, <1>3, <1>4, <1>5
<1>6. CASE ct[0] > 1
  <2>1. mag_pair_alloc(mg, ct) = [elem |-> stack[mg[0]][ct[0] - 1], mags |-> mg, count |-> dec]
    BY <1>1, <1>6 DEF mag_pair_alloc, dec
  <2> QED BY <2>1, <1>2, <1>6
<1> QED BY <1>1, <1>5, <1>6

\* A CPU that is in no depot call: its pairs are within the resting bounds.
LEMMA RestingPair ==
    ASSUME IInv, NEW c \in Cpus, NEW x \in Contexts, op[c] = Idle
    PROVE  /\ count[<<c, x>>][0] \in 0 .. MAG_DEPTH
           /\ count[<<c, x>>][1] \in 0 .. (MAG_DEPTH - 1)
           /\ count[<<c, x>>][0] = 0 => count[<<c, x>>][1] = 0
<1>1. <<c, x>> \in Pairs /\ <<c, x>>[1] = c
  BY DepthFacts
<1>2. PairOK(<<c, x>>)
  BY <1>1 DEF IInv, CountsOK
<1> QED BY <1>1, <1>2, DepthFacts DEF IInv, TypeOK, PairOK, Idle

\* mag_alloc_elem served by the pair keeps IInv.
LEMMA AllocLocalIInv ==
    ASSUME IInv, NEW c \in Cpus, NEW x \in Contexts, NEW e, AllocLocal(c, x, e)
    PROVE  IInv'
<1> DEFINE p == <<c, x>>
           r == mag_pair_alloc(mags[p], count[p])
<1>1. p \in Pairs /\ p[1] = c /\ p[2] = x
  BY DepthFacts
<1>2. mags[p] \in [{0, 1} -> Mags \cup {NULL}] /\ count[p] \in [{0, 1} -> 0 .. MAG_DEPTH]
  BY <1>1 DEF IInv, TypeOK
<1>3. op[c] = Idle /\ mag_pair_count(count[p]) # 0 /\ e = r.elem
      /\ mags' = [mags EXCEPT ![p] = r.mags] /\ count' = [count EXCEPT ![p] = r.count]
      /\ held' = held \cup ({e} \ {NULL})
      /\ UNCHANGED <<stack, full_list, empty_list, full_count, empty_count, fresh, op, panic>>
  BY DEF AllocLocal, Take, depotVars
<1>4. count[p][0] # 0 /\ count[p][1] < MAG_DEPTH
  BY <1>1, <1>2, <1>3, RestingPair, DepthFacts DEF mag_pair_count
<1>5. /\ r.elem = stack[mags[p][0]][count[p][0] - 1]
      /\ r.mags \in [{0, 1} -> Mags \cup {NULL}]
      /\ r.count \in [{0, 1} -> 0 .. MAG_DEPTH]
      /\ \/ /\ count[p][0] = 1
            /\ r.mags[0] = mags[p][1] /\ r.mags[1] = mags[p][0]
            /\ r.count[0] = count[p][1] /\ r.count[1] = 0
         \/ /\ count[p][0] > 1
            /\ r.mags = mags[p]
            /\ r.count[0] = count[p][0] - 1 /\ r.count[1] = count[p][1]
  BY <1>2, <1>4, PairAllocResult
<1> HIDE DEF r
<1>6. mags[p][0] \in Mags /\ count[p][0] - 1 \in Slots
  <2>1. PairOK(p)
    BY <1>1 DEF IInv, CountsOK
  <2> QED BY <1>2, <1>4, <2>1, DepthFacts DEF PairOK, Slots
<1>7. e \in Elems \cup {NULL}
  BY <1>3, <1>5, <1>6 DEF IInv, TypeOK
<1>8. /\ mags'[p] = r.mags /\ count'[p] = r.count
      /\ \A q \in Pairs : q # p => mags'[q] = mags[q] /\ count'[q] = count[q]
  BY <1>1, <1>3 DEF IInv, TypeOK
<1>9. TypeOK'
  BY <1>1, <1>3, <1>5, <1>7 DEF IInv, TypeOK
<1>10. CountsOK'
  <2>1. ASSUME NEW q \in Pairs PROVE PairOK(q)'
    <3>1. PairOK(q)
      BY DEF IInv, CountsOK
    <3>2. CASE q = p
      BY <1>2, <1>3, <1>4, <1>5, <1>8, <3>1, <3>2, DepthFacts DEF PairOK
    <3>3. CASE q # p
      BY <1>3, <1>8, <3>1, <3>3 DEF PairOK
    <3> QED BY <3>2, <3>3
  <2>2. ASSUME NEW d \in Cpus PROVE OpOK(d)'
    <3>1. OpOK(d)
      BY DEF IInv, CountsOK
    <3>2. CASE d = c
      BY <1>3, <3>2 DEF OpOK
    <3>3. CASE d # c
      <4>1. op[d].ctx \in Contexts => <<d, op[d].ctx>> \in Pairs /\ <<d, op[d].ctx>> # p
        BY <3>3, DepthFacts
      <4> QED BY <1>3, <1>8, <3>1, <4>1 DEF OpOK
    <3> QED BY <3>2, <3>3
  <2> QED BY <1>3, <2>1, <2>2 DEF IInv, CountsOK
<1>11. MagsUnique'
  <2>1. \A q \in Pairs, k \in {0, 1} : \E j \in {0, 1} :
           mags'[q][k] = mags[q][j] /\ (mags'[q] = mags[q] => j = k)
                                  /\ (mags'[q] # mags[q] => q = p /\ j = 1 - k)
    BY <1>5, <1>8
  <2>2. MagsUnique
    BY DEF IInv
  <2>3. \A q1, q2 \in Pairs : \A i, k \in {0, 1} :
          mags'[q1][i] = mags'[q2][k] /\ mags'[q1][i] # NULL => q1 = q2 /\ i = k
    BY <2>1, <2>2 DEF MagsUnique
  <2> QED BY <1>3, <2>1, <2>2, <2>3 DEF MagsUnique
<1> QED BY <1>3, <1>9, <1>10, <1>11 DEF IInv, AssertsHold, NotOverdrawn

\* mag_alloc_elem that goes on to wait for the lock keeps IInv.
LEMMA AllocNeedsDepotIInv ==
    ASSUME IInv, NEW c \in Cpus, NEW x \in Contexts, AllocNeedsDepot(c, x)
    PROVE  IInv'
<1> DEFINE p == <<c, x>>
<1>1. p \in Pairs /\ p[1] = c /\ p[2] = x
  BY DepthFacts
<1>2. op[c] = Idle /\ op' = [op EXCEPT ![c] = [call |-> "alloc", ctx |-> x, elem |-> NULL]]
      /\ UNCHANGED <<stack, mags, count, full_list, empty_list, full_count, empty_count, fresh,
                     held, panic>>
  BY DEF AllocNeedsDepot, depotVars
<1>3. count[p][0] = 0 /\ count[p][1] = 0
  BY <1>2, RestingPair, DepthFacts DEF AllocNeedsDepot, mag_pair_count
<1>4. TypeOK'
  BY <1>2 DEF IInv, TypeOK, Ops
<1>5. \A d \in Cpus : op'[d] = IF d = c THEN [call |-> "alloc", ctx |-> x, elem |-> NULL] ELSE op[d]
  BY <1>2 DEF IInv, TypeOK
<1>6. CountsOK'
  <2>1. ASSUME NEW q \in Pairs PROVE PairOK(q)'
    <3>1. PairOK(q) /\ q[1] \in Cpus
      BY DEF IInv, CountsOK, Pairs
    <3>2. count[q][1] = MAG_DEPTH => q[1] # c
      BY <1>2, <3>1 DEF PairOK, Idle
    <3> QED BY <1>2, <1>5, <3>1, <3>2 DEF PairOK
  <2>2. ASSUME NEW d \in Cpus PROVE OpOK(d)'
    <3>1. OpOK(d)
      BY DEF IInv, CountsOK
    <3> QED BY <1>2, <1>3, <1>5, <3>1 DEF OpOK
  <2> QED BY <1>5, <2>1, <2>2 DEF IInv, CountsOK
<1> QED BY <1>2, <1>4, <1>6 DEF IInv, AssertsHold, NotOverdrawn, MagsUnique

\* mag_allocator_switch_empty that finds no full magazine keeps IInv.
LEMMA SwitchEmptyFailsIInv ==
    ASSUME IInv, NEW c \in Cpus, switch_empty_fails(c)
    PROVE  IInv'
<1>1. op[c].call = "alloc" /\ op' = [op EXCEPT ![c] = Idle]
      /\ UNCHANGED <<stack, mags, count, full_list, empty_list, full_count, empty_count, fresh,
                     held, panic>>
  BY DEF switch_empty_fails, depotVars
<1>2. TypeOK'
  BY <1>1 DEF IInv, TypeOK, Ops, Idle
<1>3. \A d \in Cpus : op'[d] = IF d = c THEN Idle ELSE op[d]
  BY <1>1 DEF IInv, TypeOK
<1>4. CountsOK'
  <2>1. ASSUME NEW q \in Pairs PROVE PairOK(q)'
    <3>1. PairOK(q) /\ q[1] \in Cpus
      BY DEF IInv, CountsOK, Pairs
    <3>2. count[q][1] = MAG_DEPTH => q[1] # c
      BY <1>1, <3>1 DEF PairOK
    <3> QED BY <1>1, <1>3, <3>1, <3>2 DEF PairOK
  <2>2. ASSUME NEW d \in Cpus PROVE OpOK(d)'
    <3>1. OpOK(d)
      BY DEF IInv, CountsOK
    <3> QED BY <1>1, <1>3, <3>1 DEF OpOK
  <2> QED BY <1>3, <2>1, <2>2 DEF IInv, CountsOK, Idle
<1> QED BY <1>1, <1>2, <1>4 DEF IInv, AssertsHold, NotOverdrawn, MagsUnique

\* The first magazine of the full list is fetched into an empty pair: what the
\* pair is when mag_pair_alloc has taken its top element.
LEMMA SwitchEmptyPair ==
    ASSUME IInv, NEW c \in Cpus, NEW e, switch_empty(c, e)
    PROVE  LET p == <<c, op[c].ctx>>
           IN  /\ p \in Pairs /\ p[1] = c /\ p[2] = op[c].ctx /\ op[c].call = "alloc"
               /\ count[p][0] = 0 /\ count[p][1] = 0
               /\ mags[p][0] \in Mags
               /\ Len(full_list) # 0 /\ full_list[1] \in Mags
               /\ e = stack[full_list[1]][MAG_DEPTH - 1]
               /\ mags'[p] \in [{0, 1} -> Mags \cup {NULL}]
               /\ count'[p] \in [{0, 1} -> 0 .. MAG_DEPTH]
               /\ \/ /\ MAG_DEPTH = 1
                     /\ mags'[p][0] = mags[p][1] /\ mags'[p][1] = full_list[1]
                     /\ count'[p][0] = 0 /\ count'[p][1] = 0
                  \/ /\ MAG_DEPTH > 1
                     /\ mags'[p][0] = full_list[1] /\ mags'[p][1] = mags[p][1]
                     /\ count'[p][0] = MAG_DEPTH - 1 /\ count'[p][1] = 0
               /\ \A q \in Pairs : q # p => mags'[q] = mags[q] /\ count'[q] = count[q]
               /\ empty_list' = <<mags[p][0]>> \o empty_list
               /\ mags' \in [Pairs -> [{0, 1} -> Mags \cup {NULL}]]
               /\ count' \in [Pairs -> [{0, 1} -> 0 .. MAG_DEPTH]]
<1> DEFINE p == <<c, op[c].ctx>>
           mg == [mags[p] EXCEPT ![0] = Head(full_list)]
           ct == [count[p] EXCEPT ![0] = MAG_DEPTH]
           r == mag_pair_alloc(mg, ct)
<1>1. OpOK(c) /\ op[c].call = "alloc"
  BY DEF IInv, CountsOK, switch_empty
<1>2. op[c].ctx \in Contexts /\ count[p][0] = 0 /\ count[p][1] = 0
  BY <1>1 DEF OpOK, Idle
<1>3. p \in Pairs /\ p[1] = c /\ p[2] = op[c].ctx
  BY <1>2, DepthFacts
<1>4. mags[p] \in [{0, 1} -> Mags \cup {NULL}] /\ count[p] \in [{0, 1} -> 0 .. MAG_DEPTH]
  BY <1>3 DEF IInv, TypeOK
<1>5. EmptyIdx(count[p]) = 0
  BY <1>2 DEF EmptyIdx
<1>6. /\ full_count # 0 /\ mags[p][0] # NULL
      /\ empty_list' = <<mags[p][0]>> \o empty_list
      /\ e = r.elem
      /\ mags' = [mags EXCEPT ![p] = r.mags]
      /\ count' = [count EXCEPT ![p] = r.count]
  BY <1>5 DEF switch_empty
<1>7. Len(full_list) # 0 /\ full_list \in Seq(Mags)
  BY <1>6, DepthFacts DEF IInv, NotOverdrawn, TypeOK
<1>8. Head(full_list) = full_list[1] /\ Head(full_list) \in Mags
  BY <1>7, ListDel
<1>9. mg \in [{0, 1} -> Mags \cup {NULL}] /\ mg[0] = full_list[1] /\ mg[1] = mags[p][1]
  BY <1>4, <1>8
<1>10. ct \in [{0, 1} -> 0 .. MAG_DEPTH] /\ ct[0] = MAG_DEPTH /\ ct[1] = 0
  BY <1>2, <1>4, DepthFacts
<1> HIDE DEF mg, ct
<1>11. /\ r.elem = stack[mg[0]][ct[0] - 1]
       /\ r.mags \in [{0, 1} -> Mags \cup {NULL}]
       /\ r.count \in [{0, 1} -> 0 .. MAG_DEPTH]
       /\ \/ /\ ct[0] = 1
             /\ r.mags[0] = mg[1] /\ r.mags[1] = mg[0]
             /\ r.count[0] = ct[1] /\ r.count[1] = 0
          \/ /\ ct[0] > 1
             /\ r.mags = mg
             /\ r.count[0] = ct[0] - 1 /\ r.count[1] = ct[1]
  BY <1>9, <1>10, PairAllocResult, DepthFacts
<1> HIDE DEF r
<1>12. mags'[p] = r.mags /\ count'[p] = r.count
       /\ \A q \in Pairs : q # p => mags'[q] = mags[q] /\ count'[q] = count[q]
  BY <1>3, <1>6 DEF IInv, TypeOK
<1>13. mags' \in [Pairs -> [{0, 1} -> Mags \cup {NULL}]]
       /\ count' \in [Pairs -> [{0, 1} -> 0 .. MAG_DEPTH]]
  BY <1>6, <1>11 DEF IInv, TypeOK
<1>14. e = stack[full_list[1]][MAG_DEPTH - 1]
  BY <1>6, <1>9, <1>10, <1>11
<1> QED BY <1>1, <1>2, <1>3, <1>4, <1>6, <1>7, <1>8, <1>9, <1>10, <1>11, <1>12, <1>13, <1>14

\* mag_allocator_switch_empty that swaps in a full magazine keeps IInv.
LEMMA SwitchEmptyIInv ==
    ASSUME IInv, NEW c \in Cpus, NEW e, switch_empty(c, e)
    PROVE  IInv'
<1> DEFINE p == <<c, op[c].ctx>>
<1>1. /\ p \in Pairs /\ p[1] = c /\ p[2] = op[c].ctx /\ op[c].call = "alloc"
      /\ count[p][0] = 0 /\ count[p][1] = 0
      /\ mags[p][0] \in Mags
      /\ Len(full_list) # 0 /\ full_list[1] \in Mags
      /\ e = stack[full_list[1]][MAG_DEPTH - 1]
      /\ \/ /\ MAG_DEPTH = 1
            /\ mags'[p][0] = mags[p][1] /\ mags'[p][1] = full_list[1]
            /\ count'[p][0] = 0 /\ count'[p][1] = 0
         \/ /\ MAG_DEPTH > 1
            /\ mags'[p][0] = full_list[1] /\ mags'[p][1] = mags[p][1]
            /\ count'[p][0] = MAG_DEPTH - 1 /\ count'[p][1] = 0
      /\ \A q \in Pairs : q # p => mags'[q] = mags[q] /\ count'[q] = count[q]
      /\ empty_list' = <<mags[p][0]>> \o empty_list
      /\ mags' \in [Pairs -> [{0, 1} -> Mags \cup {NULL}]]
      /\ count' \in [Pairs -> [{0, 1} -> 0 .. MAG_DEPTH]]
  BY SwitchEmptyPair
<1>2. /\ full_count # 0
      /\ empty_count' = (empty_count + 1) % CountMod
      /\ full_list' = Tail(full_list)
      /\ full_count' = full_count - 1
      /\ held' = held \cup ({e} \ {NULL})
      /\ op' = [op EXCEPT ![c] = Idle]
      /\ UNCHANGED <<stack, fresh, panic>>
  BY DEF switch_empty, Take
<1>3. full_list \in Seq(Mags) /\ empty_list \in Seq(Mags)
  BY DEF IInv, TypeOK
<1>4. /\ full_list' \in Seq(Mags) /\ Len(full_list') = Len(full_list) - 1
      /\ \A i \in 1 .. (Len(full_list) - 1) : full_list'[i] = full_list[i + 1]
  BY <1>1, <1>2, <1>3, ListDel
<1>5. /\ empty_list' \in Seq(Mags) /\ Len(empty_list') = Len(empty_list) + 1
      /\ empty_list'[1] = mags[p][0]
      /\ \A i \in 2 .. (Len(empty_list) + 1) : empty_list'[i] = empty_list[i - 1]
  BY <1>1, <1>3, ListAdd
<1>6. empty_count' \in 0 .. (CountMod - 1) /\ empty_count' <= empty_count + 1
  BY <1>2, CounterInc DEF IInv, TypeOK
<1>7. e \in Elems \cup {NULL}
  BY <1>1, DepthFacts DEF IInv, TypeOK, Slots
<1>8. TypeOK'
  BY <1>1, <1>2, <1>4, <1>5, <1>6, <1>7, DepthFacts DEF IInv, TypeOK, Ops, Idle
<1>9. NotOverdrawn'
  BY <1>2, <1>3, <1>4, <1>5, <1>6, DepthFacts DEF IInv, TypeOK, NotOverdrawn
<1>10. \A d \in Cpus : op'[d] = IF d = c THEN Idle ELSE op[d]
  BY <1>2 DEF IInv, TypeOK
<1>11. CountsOK'
  <2>1. ASSUME NEW q \in Pairs PROVE PairOK(q)'
    <3>1. PairOK(q) /\ q[1] \in Cpus
      BY DEF IInv, CountsOK, Pairs
    <3>2. CASE q = p
      BY <1>1, <1>2, <3>1, <3>2, DepthFacts DEF PairOK
    <3>3. CASE q # p
      <4>1. count[q][1] = MAG_DEPTH => q[1] # c
        BY <1>1, <3>1 DEF PairOK
      <4> QED BY <1>1, <1>10, <3>1, <3>3, <4>1 DEF PairOK
    <3> QED BY <3>2, <3>3
  <2>2. ASSUME NEW d \in Cpus PROVE OpOK(d)'
    <3>1. OpOK(d)
      BY DEF IInv, CountsOK
    <3>2. CASE d = c
      BY <1>10, <3>2 DEF OpOK
    <3>3. CASE d # c
      <4>1. op[d].ctx \in Contexts => <<d, op[d].ctx>> \in Pairs /\ <<d, op[d].ctx>> # p
        BY <3>3, DepthFacts
      <4> QED BY <1>1, <1>2, <1>10, <3>1, <3>3, <4>1 DEF OpOK
    <3> QED BY <3>2, <3>3
  <2> QED BY <1>10, <2>1, <2>2 DEF IInv, CountsOK, Idle
<1>12. MagsUnique'
  <2>1. MagsUnique
    BY DEF IInv
  <2> DEFINE N == Len(full_list)
             E == Len(empty_list)
  <2>2. DOMAIN full_list = 1 .. N /\ DOMAIN full_list' = 1 .. (N - 1)
        /\ DOMAIN empty_list = 1 .. E /\ DOMAIN empty_list' = 1 .. (E + 1)
        /\ N \in Nat /\ E \in Nat
    BY <1>3, <1>4, <1>5
  <2>3. \A q \in Pairs, k \in {0, 1} :
          \/ mags'[q][k] = full_list[1] /\ q = p /\ k = (IF MAG_DEPTH = 1 THEN 1 ELSE 0)
          \/ mags'[q][k] = mags[q][1] /\ q = p /\ k = (IF MAG_DEPTH = 1 THEN 0 ELSE 1)
          \/ mags'[q][k] = mags[q][k] /\ q # p
    <3> SUFFICES ASSUME NEW q \in Pairs, NEW k \in {0, 1}, q = p
                 PROVE  \/ mags'[p][k] = full_list[1] /\ k = (IF MAG_DEPTH = 1 THEN 1 ELSE 0)
                        \/ mags'[p][k] = mags[p][1] /\ k = (IF MAG_DEPTH = 1 THEN 0 ELSE 1)
      BY <1>1
    <3>1. CASE MAG_DEPTH = 1
      BY <1>1, <3>1
    <3>2. CASE MAG_DEPTH > 1
      BY <1>1, <3>2, DepthFacts
    <3> QED BY <3>1, <3>2, DepthFacts
  <2>4. 1 \in DOMAIN full_list
    BY <1>1, <2>2
  <2>5. \A q1, q2 \in Pairs : \A i, k \in {0, 1} :
          mags'[q1][i] = mags'[q2][k] /\ mags'[q1][i] # NULL => q1 = q2 /\ i = k
    <3>1. \A q \in Pairs, k \in {0, 1} : mags[q][k] # full_list[1]
      BY <2>1, <2>4 DEF MagsUnique
    <3>2. \A q \in Pairs, k \in {0, 1} : mags[q][k] = mags[p][1] /\ mags[q][k] # NULL => q = p
      BY <1>1, <2>1 DEF MagsUnique
    <3>3. \A q1, q2 \in Pairs : \A i, k \in {0, 1} :
            mags[q1][i] = mags[q2][k] /\ mags[q1][i] # NULL => q1 = q2 /\ i = k
      BY <2>1 DEF MagsUnique
    <3> QED BY <2>3, <3>1, <3>2, <3>3
  <2>6. \A i \in DOMAIN full_list' : i + 1 \in DOMAIN full_list /\ full_list'[i] = full_list[i + 1]
                                     /\ i + 1 # 1
    BY <1>4, <2>2
  <2>7. \A i \in DOMAIN empty_list' :
          \/ i = 1 /\ empty_list'[i] = mags[p][0]
          \/ i - 1 \in DOMAIN empty_list /\ empty_list'[i] = empty_list[i - 1]
    <3> SUFFICES ASSUME NEW i \in 1 .. (E + 1), i # 1
                 PROVE  i - 1 \in 1 .. E /\ empty_list'[i] = empty_list[i - 1]
      BY <1>5, <2>2
    <3>1. i \in 2 .. (E + 1)
      BY <2>2
    <3> QED BY <1>5, <2>2, <3>1
  <2>8. \A i, j \in DOMAIN full_list' : full_list'[i] = full_list'[j] => i = j
    BY <2>1, <2>2, <2>6 DEF MagsUnique
  <2>9. \A i, j \in DOMAIN empty_list' : empty_list'[i] = empty_list'[j] => i = j
    <3> SUFFICES ASSUME NEW i \in DOMAIN empty_list', NEW j \in DOMAIN empty_list',
                        empty_list'[i] = empty_list'[j]
                 PROVE  i = j
      OBVIOUS
    <3>1. i \in Int /\ j \in Int
      BY <2>2
    <3>2. \A n \in DOMAIN empty_list : empty_list[n] # mags[p][0]
      BY <1>1, <2>1 DEF MagsUnique
    <3>3. i - 1 \in DOMAIN empty_list /\ j - 1 \in DOMAIN empty_list
             /\ empty_list[i - 1] = empty_list[j - 1] => i = j
      BY <2>1, <3>1 DEF MagsUnique
    <3> QED BY <2>7, <3>2, <3>3
  <2>10. \A i \in DOMAIN full_list', j \in DOMAIN empty_list' : full_list'[i] # empty_list'[j]
    BY <1>1, <2>1, <2>6, <2>7 DEF MagsUnique
  <2>11. \A q \in Pairs, k \in {0, 1} :
          /\ \A i \in DOMAIN full_list' : full_list'[i] # mags'[q][k]
          /\ mags'[q][k] \notin fresh'
    BY <1>1, <1>2, <2>1, <2>3, <2>4, <2>6 DEF MagsUnique
  <2>12. \A q \in Pairs, k \in {0, 1} : \A i \in DOMAIN empty_list' : empty_list'[i] # mags'[q][k]
    <3> SUFFICES ASSUME NEW q \in Pairs, NEW k \in {0, 1}, NEW i \in DOMAIN empty_list'
                 PROVE  empty_list'[i] # mags'[q][k]
      OBVIOUS
    <3>1. mags'[q][k] = full_list[1] \/ \E l \in {0, 1} : mags'[q][k] = mags[q][l] /\ (q = p => l = 1)
      BY <2>3
    <3>2. mags[p][0] # full_list[1] /\ \A l \in {0, 1} : (q = p => l = 1) => mags[p][0] # mags[q][l]
      BY <1>1, <2>1, <2>4, DepthFacts DEF MagsUnique
    <3>3. \A j \in DOMAIN empty_list : empty_list[j] # full_list[1] /\ \A l \in {0, 1} : empty_list[j] # mags[q][l]
      BY <2>1, <2>4 DEF MagsUnique
    <3> QED BY <2>7, <3>1, <3>2, <3>3
  <2>13. /\ \A i \in DOMAIN full_list' : full_list'[i] \notin fresh'
         /\ \A i \in DOMAIN empty_list' : empty_list'[i] \notin fresh'
    BY <1>1, <1>2, <2>1, <2>6, <2>7 DEF MagsUnique
  <2> QED BY <2>5, <2>8, <2>9, <2>10, <2>11, <2>12, <2>13 DEF MagsUnique
<1> QED BY <1>2, <1>8, <1>9, <1>11, <1>12 DEF IInv, AssertsHold

\* A free never meets a pair with two full magazines (the assert of
\* mag_pair_free), and fills the slot above the ones in use.
LEMMA FreeStep ==
    ASSUME IInv, NEW c \in Cpus, NEW x \in Contexts, NEW e \in Freeable, Free(c, x, e)
    PROVE  LET p == <<c, x>>
               idx == FreeIdx(count[p])
               m == mags[p][idx]
           IN  /\ p \in Pairs /\ p[1] = c /\ p[2] = x /\ op[c] = Idle
               /\ idx \in {0, 1} /\ m \in Mags /\ count[p][idx] \in Slots
               /\ idx = 0 => count[p][1] = 0 \/ count[p][0] # 0
               /\ idx = 1 => count[p][0] = MAG_DEPTH
               /\ count[p][1] < MAG_DEPTH
               /\ stack' = [stack EXCEPT ![m] = [@ EXCEPT ![count[p][idx]] = e]]
               /\ count'[p][idx] = count[p][idx] + 1
               /\ count'[p][1 - idx] = count[p][1 - idx]
               /\ \A q \in Pairs : q # p => count'[q] = count[q]
               /\ count' \in [Pairs -> [{0, 1} -> 0 .. MAG_DEPTH]]
               /\ \/ /\ idx = 1 /\ count[p][1] = MAG_DEPTH - 1
                     /\ op' = [op EXCEPT ![c] = [call |-> "free", ctx |-> x, elem |-> e]]
                     /\ held' = held
                  \/ /\ ~(idx = 1 /\ count[p][1] = MAG_DEPTH - 1)
                     /\ op' = op
                     /\ held' = held \ {e}
               /\ UNCHANGED <<mags, full_list, empty_list, full_count, empty_count, fresh, panic>>
<1> DEFINE p == <<c, x>>
           idx == FreeIdx(count[p])
           m == mags[p][idx]
           ct == [count[p] EXCEPT ![idx] = count[p][idx] + 1]
<1>1. p \in Pairs /\ p[1] = c /\ p[2] = x
  BY DepthFacts
<1>2. op[c] = Idle /\ m # NULL
  BY DEF Free
<1>3. /\ count[p] \in [{0, 1} -> 0 .. MAG_DEPTH] /\ mags[p] \in [{0, 1} -> Mags \cup {NULL}]
  BY <1>1 DEF IInv, TypeOK
<1>4. count[p][1] \in 0 .. (MAG_DEPTH - 1) /\ (count[p][0] = 0 => count[p][1] = 0)
  BY <1>2, RestingPair
<1>5. /\ idx \in {0, 1}
      /\ idx = 0 => count[p][0] # MAG_DEPTH
      /\ idx = 1 => count[p][0] = MAG_DEPTH
  BY DEF FreeIdx
<1>6. count[p][idx] \in Slots
  BY <1>3, <1>4, <1>5, DepthFacts DEF Slots
<1>7. m \in Mags
  BY <1>2, <1>3, <1>5
<1>8. /\ stack' = [stack EXCEPT ![m] = [@ EXCEPT ![count[p][idx]] = e]]
      /\ count' = [count EXCEPT ![p] = ct]
      /\ IF BothFull(ct)
         THEN /\ op' = [op EXCEPT ![c] = [call |-> "free", ctx |-> x, elem |-> e]]
              /\ held' = held
         ELSE /\ held' = held \ {e}
              /\ op' = op
      /\ UNCHANGED <<mags, full_list, empty_list, full_count, empty_count, fresh, panic>>
  BY <1>4, DepthFacts DEF Free, depotVars
<1>9. /\ ct \in [{0, 1} -> 0 .. MAG_DEPTH]
      /\ ct[idx] = count[p][idx] + 1 /\ ct[1 - idx] = count[p][1 - idx]
  BY <1>3, <1>5, <1>6, DepthFacts DEF Slots
<1>10. BothFull(ct) <=> idx = 1 /\ count[p][1] = MAG_DEPTH - 1
  BY <1>3, <1>4, <1>5, <1>6, <1>9, DepthFacts DEF BothFull, mag_pair_count, Slots
<1> HIDE DEF ct, idx
<1>12. /\ count'[p] = ct
       /\ \A q \in Pairs : q # p => count'[q] = count[q]
       /\ count' \in [Pairs -> [{0, 1} -> 0 .. MAG_DEPTH]]
  BY <1>1, <1>8, <1>9 DEF IInv, TypeOK
<1>13. count[p][1] < MAG_DEPTH
  BY <1>4, DepthFacts
<1> QED BY <1>1, <1>2, <1>4, <1>5, <1>6, <1>7, <1>8, <1>9, <1>10, <1>12, <1>13 DEF idx

\* mag_free_elem up to the test for two full magazines keeps IInv.
LEMMA FreeIInv ==
    ASSUME IInv, NEW c \in Cpus, NEW x \in Contexts, NEW e \in Freeable, Free(c, x, e)
    PROVE  IInv'
<1> DEFINE p == <<c, x>>
           idx == FreeIdx(count[p])
           m == mags[p][idx]
           new == [call |-> "free", ctx |-> x, elem |-> e]
<1>1. /\ p \in Pairs /\ p[1] = c /\ p[2] = x /\ op[c] = Idle
      /\ idx \in {0, 1} /\ m \in Mags /\ count[p][idx] \in Slots
      /\ idx = 0 => count[p][1] = 0 \/ count[p][0] # 0
      /\ idx = 1 => count[p][0] = MAG_DEPTH
      /\ count[p][1] < MAG_DEPTH
      /\ stack' = [stack EXCEPT ![m] = [@ EXCEPT ![count[p][idx]] = e]]
      /\ count'[p][idx] = count[p][idx] + 1
      /\ count'[p][1 - idx] = count[p][1 - idx]
      /\ \A q \in Pairs : q # p => count'[q] = count[q]
      /\ count' \in [Pairs -> [{0, 1} -> 0 .. MAG_DEPTH]]
      /\ \/ /\ idx = 1 /\ count[p][1] = MAG_DEPTH - 1
            /\ op' = [op EXCEPT ![c] = new]
            /\ held' = held
         \/ /\ ~(idx = 1 /\ count[p][1] = MAG_DEPTH - 1)
            /\ op' = op
            /\ held' = held \ {e}
      /\ UNCHANGED <<mags, full_list, empty_list, full_count, empty_count, fresh, panic>>
  BY FreeStep
<1> HIDE DEF idx, m
<1>2. e \in Elems /\ e \in held /\ (\A d \in Cpus : op[d].elem # e)
      /\ count[p][0] \in 0 .. MAG_DEPTH /\ count[p][1] \in 0 .. MAG_DEPTH
  BY <1>1 DEF IInv, TypeOK, Freeable
<1>3. TypeOK'
  <2>1. stack' \in [Mags -> [Slots -> Elems \cup {NULL}]]
    BY <1>1, <1>2 DEF IInv, TypeOK
  <2>2. op' \in [Cpus -> Ops]
    <3>1. new \in Ops
      BY <1>2 DEF Ops
    <3> QED BY <1>1, <3>1 DEF IInv, TypeOK
  <2> QED BY <1>1, <1>2, <2>1, <2>2 DEF IInv, TypeOK
<1>4. \A d \in Cpus : op'[d] = IF d = c /\ idx = 1 /\ count[p][1] = MAG_DEPTH - 1 THEN new ELSE op[d]
  BY <1>1 DEF IInv, TypeOK
<1>5. CountsOK'
  <2>1. ASSUME NEW q \in Pairs PROVE PairOK(q)'
    <3>1. PairOK(q) /\ q[1] \in Cpus
      BY DEF IInv, CountsOK, Pairs
    <3>2. CASE q = p
      <4>1. CASE idx = 0
        <5>1. count'[p][0] = count[p][0] + 1 /\ count'[p][1] = count[p][1]
          BY <1>1, <4>1
        <5>2. mags'[p][0] # NULL
          BY <1>1, <4>1, DepthFacts DEF m
        <5> QED BY <1>1, <1>2, <3>1, <3>2, <5>1, <5>2, DepthFacts DEF PairOK
      <4>2. CASE idx = 1
        <5>1. count'[p][0] = MAG_DEPTH /\ count'[p][1] = count[p][1] + 1
          BY <1>1, <4>2
        <5>2. mags'[p][1] # NULL
          BY <1>1, <4>2, DepthFacts DEF m
        <5>3. count'[p][1] = MAG_DEPTH => op'[c] = new
          BY <1>2, <1>4, <4>2, <5>1, DepthFacts
        <5> QED BY <1>1, <1>2, <3>1, <3>2, <5>1, <5>2, <5>3, DepthFacts DEF PairOK
      <4> QED BY <1>1, <4>1, <4>2
    <3>3. CASE q # p
      <4>1. count[q][1] = MAG_DEPTH => q[1] # c
        BY <1>1, <3>1 DEF PairOK, Idle
      <4> QED BY <1>1, <1>4, <3>1, <3>3, <4>1 DEF PairOK
    <3> QED BY <3>2, <3>3
  <2>2. ASSUME NEW d \in Cpus PROVE OpOK(d)'
    <3>1. OpOK(d)
      BY DEF IInv, CountsOK
    <3>2. CASE d = c /\ idx = 1 /\ count[p][1] = MAG_DEPTH - 1
      <4>1. op'[d] = new /\ e \in held'
        BY <1>1, <1>2, <1>4, <3>2
      <4>2. count'[p][0] = MAG_DEPTH /\ count'[p][1] = MAG_DEPTH
        BY <1>1, <3>2, DepthFacts
      <4> QED BY <3>2, <4>1, <4>2 DEF OpOK
    <3>3. CASE d = c /\ ~(idx = 1 /\ count[p][1] = MAG_DEPTH - 1)
      BY <1>1, <1>4, <3>3 DEF OpOK
    <3>4. CASE d # c
      <4>1. op[d].ctx \in Contexts => <<d, op[d].ctx>> \in Pairs /\ <<d, op[d].ctx>> # p
        BY <3>4, DepthFacts
      <4> QED BY <1>1, <1>2, <1>4, <3>1, <3>4, <4>1 DEF OpOK
    <3> QED BY <3>2, <3>3, <3>4
  <2>3. \A d, f \in Cpus : d # f /\ op'[d].elem # NULL => op'[f].elem # op'[d].elem
    BY <1>2, <1>4 DEF IInv, CountsOK
  <2> QED BY <2>1, <2>2, <2>3 DEF CountsOK
<1> QED BY <1>1, <1>3, <1>5 DEF IInv, AssertsHold, NotOverdrawn, MagsUnique

\* The second magazine, full, goes to the depot (the assert of
\* mag_allocator_switch_full holds) and another one, or NULL, takes its place.
LEMMA SwitchFullStep ==
    ASSUME IInv, NEW c \in Cpus, switch_full(c)
    PROVE  LET p == <<c, op[c].ctx>>
           IN  /\ p \in Pairs /\ p[1] = c /\ p[2] = op[c].ctx
               /\ op[c].call = "free" /\ op[c].elem \in held
               /\ count[p][0] = MAG_DEPTH /\ count[p][1] = MAG_DEPTH
               /\ mags[p][0] \in Mags /\ mags[p][1] \in Mags
               /\ full_list' = <<mags[p][1]>> \o full_list
               /\ full_count' = (full_count + 1) % CountMod
               /\ \E m \in Mags \cup {NULL} :
                    /\ mags' = [mags EXCEPT ![p] = [@ EXCEPT ![1] = m]]
                    /\ \/ /\ Len(empty_list) # 0 /\ m = Head(empty_list)
                          /\ empty_list' = Tail(empty_list)
                          /\ empty_count # 0 /\ empty_count' = empty_count - 1
                          /\ fresh' = fresh
                       \/ /\ m \in fresh \cup {NULL}
                          /\ fresh' = fresh \ {m}
                          /\ UNCHANGED <<empty_list, empty_count>>
               /\ count' = [count EXCEPT ![p] = [@ EXCEPT ![1] = 0]]
               /\ held' = held \ {op[c].elem}
               /\ op' = [op EXCEPT ![c] = Idle]
               /\ UNCHANGED <<stack, panic>>
<1> DEFINE p == <<c, op[c].ctx>>
<1>1. OpOK(c) /\ op[c].call = "free"
  BY DEF IInv, CountsOK, switch_full
<1>2. op[c].ctx \in Contexts /\ op[c].elem \in held
      /\ count[p][0] = MAG_DEPTH /\ count[p][1] = MAG_DEPTH
  BY <1>1 DEF OpOK, Idle
<1>3. p \in Pairs /\ p[1] = c /\ p[2] = op[c].ctx
  BY <1>2, DepthFacts
<1>4. mags[p][0] \in Mags /\ mags[p][1] \in Mags
  <2>1. PairOK(p) /\ mags[p] \in [{0, 1} -> Mags \cup {NULL}]
    BY <1>3 DEF IInv, CountsOK, TypeOK
  <2> QED BY <1>2, <2>1, DepthFacts DEF PairOK
<1>5. FullIdx(count[p]) = 1
  BY <1>2 DEF FullIdx
<1>6. /\ full_list' = <<mags[p][1]>> \o full_list
      /\ full_count' = (full_count + 1) % CountMod
      /\ \/ /\ empty_count # 0
            /\ mags' = [mags EXCEPT ![p] = [@ EXCEPT ![1] = Head(empty_list)]]
            /\ empty_list' = Tail(empty_list)
            /\ empty_count' = empty_count - 1
            /\ fresh' = fresh
         \/ /\ empty_count = 0
            /\ \E m \in fresh \cup (IF KzallocMayFail THEN {NULL} ELSE {}) :
                  /\ mags' = [mags EXCEPT ![p] = [@ EXCEPT ![1] = m]]
                  /\ fresh' = fresh \ {m}
            /\ empty_list' = empty_list /\ empty_count' = empty_count
      /\ count' = [count EXCEPT ![p] = [@ EXCEPT ![1] = 0]]
      /\ held' = held \ {op[c].elem}
      /\ op' = [op EXCEPT ![c] = Idle]
      /\ UNCHANGED <<stack, panic>>
  BY <1>2, <1>5 DEF switch_full, depotVars
<1>7. \E m \in Mags \cup {NULL} :
        /\ mags' = [mags EXCEPT ![p] = [@ EXCEPT ![1] = m]]
        /\ \/ /\ Len(empty_list) # 0 /\ m = Head(empty_list)
              /\ empty_list' = Tail(empty_list)
              /\ empty_count # 0 /\ empty_count' = empty_count - 1
              /\ fresh' = fresh
           \/ /\ m \in fresh \cup {NULL}
              /\ fresh' = fresh \ {m}
              /\ UNCHANGED <<empty_list, empty_count>>
  <2>1. CASE empty_count # 0
    <3>1. Len(empty_list) # 0 /\ empty_list \in Seq(Mags)
      BY <2>1, DepthFacts DEF IInv, NotOverdrawn, TypeOK
    <3>2. Head(empty_list) \in Mags
      BY <3>1, ListDel
    <3> QED BY <1>6, <2>1, <3>1, <3>2
  <2>2. CASE empty_count = 0
    <3>1. fresh \subseteq Mags
      BY DEF IInv, TypeOK, Mags
    <3>2. PICK m \in fresh \cup (IF KzallocMayFail THEN {NULL} ELSE {}) :
                  /\ mags' = [mags EXCEPT ![p] = [@ EXCEPT ![1] = m]]
                  /\ fresh' = fresh \ {m}
      BY <1>6, <2>2
    <3>3. m \in fresh \cup {NULL}
      BY <3>2
    <3> QED BY <1>6, <2>2, <3>1, <3>2, <3>3
  <2> QED BY <2>1, <2>2
<1> QED BY <1>1, <1>2, <1>3, <1>4, <1>6, <1>7

\* mag_allocator_switch_full keeps IInv.
LEMMA SwitchFullIInv ==
    ASSUME IInv, NEW c \in Cpus, switch_full(c)
    PROVE  IInv'
<1> DEFINE p == <<c, op[c].ctx>>
<1>1. /\ p \in Pairs /\ p[1] = c /\ p[2] = op[c].ctx
      /\ op[c].call = "free" /\ op[c].elem \in held
      /\ count[p][0] = MAG_DEPTH /\ count[p][1] = MAG_DEPTH
      /\ mags[p][0] \in Mags /\ mags[p][1] \in Mags
      /\ full_list' = <<mags[p][1]>> \o full_list
      /\ full_count' = (full_count + 1) % CountMod
      /\ count' = [count EXCEPT ![p] = [@ EXCEPT ![1] = 0]]
      /\ held' = held \ {op[c].elem}
      /\ op' = [op EXCEPT ![c] = Idle]
      /\ UNCHANGED <<stack, panic>>
  BY SwitchFullStep
<1>2. PICK m \in Mags \cup {NULL} :
        /\ mags' = [mags EXCEPT ![p] = [@ EXCEPT ![1] = m]]
        /\ \/ /\ Len(empty_list) # 0 /\ m = Head(empty_list)
              /\ empty_list' = Tail(empty_list)
              /\ empty_count # 0 /\ empty_count' = empty_count - 1
              /\ fresh' = fresh
           \/ /\ m \in fresh \cup {NULL}
              /\ fresh' = fresh \ {m}
              /\ UNCHANGED <<empty_list, empty_count>>
  BY SwitchFullStep
<1>3. full_list \in Seq(Mags) /\ empty_list \in Seq(Mags)
  BY DEF IInv, TypeOK
<1>4. /\ full_list' \in Seq(Mags) /\ Len(full_list') = Len(full_list) + 1
      /\ full_list'[1] = mags[p][1]
      /\ \A i \in 2 .. (Len(full_list) + 1) : full_list'[i] = full_list[i - 1]
  BY <1>1, <1>3, ListAdd
<1>5. full_count' \in 0 .. (CountMod - 1) /\ full_count' <= full_count + 1
  BY <1>1, CounterInc DEF IInv, TypeOK
<1>6. /\ mags'[p][0] = mags[p][0] /\ mags'[p][1] = m
      /\ \A q \in Pairs : q # p => mags'[q] = mags[q]
      /\ mags' \in [Pairs -> [{0, 1} -> Mags \cup {NULL}]]
  <2> DEFINE mg == [mags[p] EXCEPT ![1] = m]
  <2>1. mg \in [{0, 1} -> Mags \cup {NULL}] /\ mg[0] = mags[p][0] /\ mg[1] = m
    <3>1. mags[p] \in [{0, 1} -> Mags \cup {NULL}]
      BY <1>1 DEF IInv, TypeOK
    <3> QED BY <3>1
  <2>2. mags' = [mags EXCEPT ![p] = mg]
    BY <1>2
  <2> HIDE DEF mg
  <2> QED BY <1>1, <2>1, <2>2 DEF IInv, TypeOK
<1>7. /\ count'[p][0] = MAG_DEPTH /\ count'[p][1] = 0
      /\ \A q \in Pairs : q # p => count'[q] = count[q]
      /\ count' \in [Pairs -> [{0, 1} -> 0 .. MAG_DEPTH]]
  <2> DEFINE ct == [count[p] EXCEPT ![1] = 0]
  <2>1. ct \in [{0, 1} -> 0 .. MAG_DEPTH] /\ ct[0] = MAG_DEPTH /\ ct[1] = 0
    <3>1. count[p] \in [{0, 1} -> 0 .. MAG_DEPTH]
      BY <1>1 DEF IInv, TypeOK
    <3>2. count[p][0] = MAG_DEPTH /\ 0 \in 0 .. MAG_DEPTH
      BY <1>1, DepthFacts
    <3> QED BY <3>1, <3>2
  <2>2. count' = [count EXCEPT ![p] = ct]
    BY <1>1
  <2> HIDE DEF ct
  <2> QED BY <1>1, <2>1, <2>2 DEF IInv, TypeOK
<1>8. /\ empty_list' \in Seq(Mags)
      /\ empty_count' \in 0 .. (CountMod - 1) /\ empty_count' <= Len(empty_list')
      /\ fresh' \subseteq fresh
      /\ \A i \in DOMAIN empty_list' : \E j \in DOMAIN empty_list :
            /\ empty_list'[i] = empty_list[j]
            /\ j = i + (IF empty_list' = empty_list THEN 0 ELSE 1)
      /\ m # NULL => /\ m \notin fresh'
                     /\ \A i \in DOMAIN empty_list' : empty_list'[i] # m
                     /\ \A i \in DOMAIN full_list : full_list[i] # m
                     /\ \A q \in Pairs, k \in {0, 1} : mags[q][k] # m
  <2>1. CASE /\ Len(empty_list) # 0 /\ m = Head(empty_list)
             /\ empty_list' = Tail(empty_list)
             /\ empty_count # 0 /\ empty_count' = empty_count - 1
             /\ fresh' = fresh
    <3>1. /\ empty_list' \in Seq(Mags) /\ Len(empty_list') = Len(empty_list) - 1
          /\ m = empty_list[1] /\ Len(empty_list) \in Nat
          /\ \A i \in 1 .. (Len(empty_list) - 1) : empty_list'[i] = empty_list[i + 1]
      BY <1>3, <2>1, ListDel
    <3>2. /\ DOMAIN empty_list = 1 .. Len(empty_list)
          /\ DOMAIN empty_list' = 1 .. (Len(empty_list) - 1)
          /\ empty_list' # empty_list
      <4>1. Len(empty_list') # Len(empty_list)
        BY <3>1
      <4> QED BY <1>3, <3>1, <4>1
    <3>3. 1 \in DOMAIN empty_list
      <4>1. Len(empty_list) \in Nat /\ Len(empty_list) # 0
        BY <2>1, <3>1
      <4> QED BY <3>2, <4>1
    <3>4. \A i \in DOMAIN empty_list' : i + 1 \in DOMAIN empty_list
                                        /\ empty_list'[i] = empty_list[i + 1] /\ i + 1 # 1
      BY <3>1, <3>2
    <3>5. MagsUnique
      BY DEF IInv
    <3>6. empty_count' \in 0 .. (CountMod - 1) /\ empty_count' <= Len(empty_list')
      BY <2>1, <3>1, DepthFacts DEF IInv, TypeOK, NotOverdrawn
    <3>7. \A i \in DOMAIN empty_list' : empty_list'[i] # m
      BY <3>1, <3>3, <3>4, <3>5 DEF MagsUnique
    <3>8. /\ m \notin fresh'
          /\ \A i \in DOMAIN full_list : full_list[i] # m
          /\ \A q \in Pairs, k \in {0, 1} : mags[q][k] # m
      BY <2>1, <3>1, <3>3, <3>5 DEF MagsUnique
    <3> QED BY <2>1, <3>1, <3>2, <3>4, <3>6, <3>7, <3>8
  <2>2. CASE /\ m \in fresh \cup {NULL}
             /\ fresh' = fresh \ {m}
             /\ UNCHANGED <<empty_list, empty_count>>
    <3>1. \A i \in DOMAIN empty_list' : i \in DOMAIN empty_list /\ i = i + 0
      BY <1>3, <2>2
    <3>2. empty_list' \in Seq(Mags)
          /\ empty_count' \in 0 .. (CountMod - 1) /\ empty_count' <= Len(empty_list')
      BY <2>2 DEF IInv, TypeOK, NotOverdrawn
    <3>3. m # NULL => /\ m \notin fresh'
                      /\ \A i \in DOMAIN empty_list' : empty_list'[i] # m
                      /\ \A i \in DOMAIN full_list : full_list[i] # m
                      /\ \A q \in Pairs, k \in {0, 1} : mags[q][k] # m
      BY <2>2 DEF IInv, MagsUnique
    <3> QED BY <2>2, <3>1, <3>2, <3>3
  <2> QED BY <1>2, <2>1, <2>2
<1>9. TypeOK'
  BY <1>1, <1>4, <1>5, <1>6, <1>7, <1>8 DEF IInv, TypeOK, Ops, Idle
<1>10. NotOverdrawn'
  BY <1>1, <1>3, <1>4, <1>5, <1>8, DepthFacts DEF IInv, TypeOK, NotOverdrawn
<1>11. \A d \in Cpus : op'[d] = IF d = c THEN Idle ELSE op[d]
  BY <1>1 DEF IInv, TypeOK
<1>12. CountsOK'
  <2>1. ASSUME NEW q \in Pairs PROVE PairOK(q)'
    <3>1. PairOK(q) /\ q[1] \in Cpus
      BY DEF IInv, CountsOK, Pairs
    <3>2. CASE q = p
      BY <1>1, <1>6, <1>7, <3>2, DepthFacts DEF PairOK
    <3>3. CASE q # p
      <4>1. q[1] = c => count[q][1] # MAG_DEPTH
        <5>1. q = <<q[1], q[2]>>
          BY DEF Pairs
        <5> QED BY <1>1, <3>1, <3>3, <5>1 DEF PairOK
      <4> QED BY <1>6, <1>7, <1>11, <3>1, <3>3, <4>1 DEF PairOK
    <3> QED BY <3>2, <3>3
  <2>2. ASSUME NEW d \in Cpus PROVE OpOK(d)'
    <3>1. OpOK(d)
      BY DEF IInv, CountsOK
    <3>2. CASE d = c
      BY <1>11, <3>2 DEF OpOK
    <3>3. CASE d # c
      <4>1. op[d].ctx \in Contexts => <<d, op[d].ctx>> \in Pairs /\ <<d, op[d].ctx>> # p
        BY <3>3, DepthFacts
      <4>2. op[c].elem # NULL => op[d].elem # op[c].elem
        BY <3>3 DEF IInv, CountsOK
      <4>3. op[c].elem # NULL
        BY <1>1, DepthFacts DEF IInv, TypeOK
      <4> QED BY <1>1, <1>7, <1>11, <3>1, <3>3, <4>1, <4>2, <4>3 DEF OpOK
    <3> QED BY <3>2, <3>3
  <2> QED BY <1>11, <2>1, <2>2 DEF IInv, CountsOK, Idle
<1>13. MagsUnique'
  <2>1. MagsUnique
    BY DEF IInv
  <2>2. /\ DOMAIN full_list = 1 .. Len(full_list) /\ DOMAIN full_list' = 1 .. (Len(full_list) + 1)
        /\ Len(full_list) \in Nat
        /\ DOMAIN empty_list \subseteq Int /\ DOMAIN empty_list' \subseteq Int
    BY <1>3, <1>4, <1>8
  <2>3. \A i \in DOMAIN full_list' :
          \/ i = 1 /\ full_list'[i] = mags[p][1]
          \/ i - 1 \in DOMAIN full_list /\ full_list'[i] = full_list[i - 1]
    <3> SUFFICES ASSUME NEW i \in DOMAIN full_list', i # 1
                 PROVE  i - 1 \in DOMAIN full_list /\ full_list'[i] = full_list[i - 1]
      BY <1>4
    <3>1. i \in 2 .. (Len(full_list) + 1)
      BY <2>2
    <3> QED BY <1>4, <2>2, <3>1
  <2>4. \A q \in Pairs, k \in {0, 1} :
          \/ mags'[q][k] = m /\ q = p /\ k = 1
          \/ mags'[q][k] = mags[q][k] /\ ~(q = p /\ k = 1)
    BY <1>6
  <2>5. \A q1, q2 \in Pairs : \A i, k \in {0, 1} :
          mags'[q1][i] = mags'[q2][k] /\ mags'[q1][i] # NULL => q1 = q2 /\ i = k
    BY <1>8, <2>1, <2>4 DEF MagsUnique
  <2>6. \A i, j \in DOMAIN full_list' : full_list'[i] = full_list'[j] => i = j
    <3> SUFFICES ASSUME NEW i \in DOMAIN full_list', NEW j \in DOMAIN full_list',
                        full_list'[i] = full_list'[j]
                 PROVE  i = j
      OBVIOUS
    <3>1. i \in Int /\ j \in Int
      BY <2>2
    <3>2. \A n \in DOMAIN full_list : full_list[n] # mags[p][1]
      BY <1>1, <2>1 DEF MagsUnique
    <3>3. i - 1 \in DOMAIN full_list /\ j - 1 \in DOMAIN full_list
             /\ full_list[i - 1] = full_list[j - 1] => i = j
      BY <2>1, <3>1 DEF MagsUnique
    <3> QED BY <2>3, <3>2, <3>3
  <2>7. \A i, j \in DOMAIN empty_list' : empty_list'[i] = empty_list'[j] => i = j
    <3> SUFFICES ASSUME NEW i \in DOMAIN empty_list', NEW j \in DOMAIN empty_list',
                        empty_list'[i] = empty_list'[j]
                 PROVE  i = j
      OBVIOUS
    <3> PICK s \in {0, 1} : s = IF empty_list' = empty_list THEN 0 ELSE 1
      OBVIOUS
    <3>1. i + s \in DOMAIN empty_list /\ empty_list'[i] = empty_list[i + s]
      BY <1>8
    <3>2. j + s \in DOMAIN empty_list /\ empty_list'[j] = empty_list[j + s]
      BY <1>8
    <3>3. i \in Int /\ j \in Int /\ s \in Int
      BY <2>2
    <3>4. i + s = j + s
      BY <2>1, <3>1, <3>2 DEF MagsUnique
    <3> QED BY <3>3, <3>4
  <2>8. \A j \in DOMAIN empty_list' : \E k \in DOMAIN empty_list : empty_list'[j] = empty_list[k]
    BY <1>8
  <2>9. \A i \in DOMAIN full_list', j \in DOMAIN empty_list' : full_list'[i] # empty_list'[j]
    BY <1>1, <2>1, <2>3, <2>8 DEF MagsUnique
  <2>10. \A q \in Pairs, k \in {0, 1} :
          /\ \A i \in DOMAIN full_list' : full_list'[i] # mags'[q][k]
          /\ \A i \in DOMAIN empty_list' : empty_list'[i] # mags'[q][k]
          /\ mags'[q][k] \notin fresh'
    <3> SUFFICES ASSUME NEW q \in Pairs, NEW k \in {0, 1}
                 PROVE  /\ \A i \in DOMAIN full_list' : full_list'[i] # mags'[q][k]
                        /\ \A i \in DOMAIN empty_list' : empty_list'[i] # mags'[q][k]
                        /\ mags'[q][k] \notin fresh'
      OBVIOUS
    <3>1. CASE q = p /\ k = 1 /\ m # NULL
      <4>1. mags'[q][k] = m
        BY <2>4, <3>1
      <4>2. /\ m \notin fresh'
            /\ \A i \in DOMAIN empty_list' : empty_list'[i] # m
            /\ \A i \in DOMAIN full_list : full_list[i] # m
            /\ mags[p][1] # m
        BY <1>1, <1>8, <3>1
      <4>3. \A i \in DOMAIN full_list' :
              full_list'[i] = mags[p][1] \/ \E j \in DOMAIN full_list : full_list'[i] = full_list[j]
        BY <2>3
      <4> QED BY <4>1, <4>2, <4>3
    <3>2. CASE q = p /\ k = 1 /\ m = NULL
      <4>1. \A i \in DOMAIN full_list' : full_list'[i] \in Mags
        BY <1>4
      <4>2. \A i \in DOMAIN empty_list' : empty_list'[i] \in Mags
        BY <1>8
      <4>3. fresh' \subseteq Mags
        BY <1>8 DEF IInv, TypeOK, Mags
      <4> QED BY <1>6, <3>2, <4>1, <4>2, <4>3, DepthFacts
    <3>3. CASE ~(q = p /\ k = 1)
      <4>1. mags'[q][k] = mags[q][k]
        BY <2>4, <3>3
      <4>2. mags[q][k] # mags[p][1]
        BY <1>1, <2>1, <3>3, DepthFacts DEF MagsUnique
      <4> QED BY <1>8, <2>1, <2>3, <2>8, <4>1, <4>2 DEF MagsUnique
    <3> QED BY <3>1, <3>2, <3>3
  <2>11. /\ \A i \in DOMAIN full_list' : full_list'[i] \notin fresh'
         /\ \A i \in DOMAIN empty_list' : empty_list'[i] \notin fresh'
    BY <1>1, <1>8, <2>1, <2>3, <2>8 DEF MagsUnique
  <2> QED BY <2>5, <2>6, <2>7, <2>9, <2>10, <2>11 DEF MagsUnique
<1> QED BY <1>1, <1>9, <1>10, <1>12, <1>13 DEF IInv, AssertsHold

\* The two steps that meet a NULL magazine change nothing but panic.
LEMMA NullMagIInv ==
    ASSUME IInv, NEW c \in Cpus,
           SwitchEmptyNullMag(c) \/ \E x \in Contexts : FreeNullMag(c, x)
    PROVE  IInv'
<1>1. panic' = "null_mag"
      /\ UNCHANGED <<stack, mags, count, full_list, empty_list, full_count, empty_count, fresh,
                     op, held>>
  BY DEF SwitchEmptyNullMag, FreeNullMag, depotVars
<1> QED BY <1>1 DEF IInv, TypeOK, AssertsHold, NotOverdrawn, CountsOK, PairOK, OpOK, MagsUnique

\* Every step keeps IInv.
LEMMA NextIInv == IInv /\ [Next]_magVars => IInv'
<1> SUFFICES ASSUME IInv, [Next]_magVars PROVE IInv'
  OBVIOUS
<1>1. ASSUME NEW c \in Cpus, mag_alloc_elem(c) PROVE IInv'
  BY <1>1, AllocLocalIInv, AllocNeedsDepotIInv, SwitchEmptyIInv, SwitchEmptyFailsIInv, NullMagIInv
     DEF mag_alloc_elem
<1>2. ASSUME NEW c \in Cpus, mag_free_elem(c) PROVE IInv'
  BY <1>2, FreeIInv, SwitchFullIInv, NullMagIInv DEF mag_free_elem
<1>3. CASE UNCHANGED magVars
  BY <1>3 DEF IInv, TypeOK, AssertsHold, NotOverdrawn, CountsOK, PairOK, OpOK, MagsUnique,
              magVars, depotVars
<1> QED BY <1>1, <1>2, <1>3 DEF Next

----
(* Where the elements are.                                                 *)

\* A slot that an allocation can read, and how a step may change the set of
\* these slots: by nothing, by taking one away or by adding one.
SameSlots == \A n \in Mags, j \in Slots : Occupied(n, j)' <=> Occupied(n, j)
LessSlot(m, i) == \A n \in Mags, j \in Slots : Occupied(n, j)' <=> Occupied(n, j) /\ ~(n = m /\ j = i)
MoreSlot(m, i) == \A n \in Mags, j \in Slots : Occupied(n, j)' <=> Occupied(n, j) \/ (n = m /\ j = i)

\* No free that waits for the lock has stored its element in magazine m.
NotBeingFreed(m) == \A d \in Cpus : op[d].call = "free" => m # mags[<<d, op[d].ctx>>][1]

\* mag_alloc_elem served by the pair pops the first magazine, and exchanges the
\* two when that leaves the first one empty.
LEMMA AllocLocalStep ==
    ASSUME IInv, NEW c \in Cpus, NEW x \in Contexts, NEW e, AllocLocal(c, x, e)
    PROVE  LET p == <<c, x>>
               m == mags[p][0]
               n == count[p][0]
           IN  /\ p \in Pairs /\ op[c] = Idle
               /\ m \in Mags /\ n \in 1 .. MAG_DEPTH /\ e = stack[m][n - 1]
               /\ \/ /\ n = 1
                     /\ mags'[p][0] = mags[p][1] /\ mags'[p][1] = m
                     /\ count'[p][0] = count[p][1] /\ count'[p][1] = 0
                  \/ /\ n > 1
                     /\ mags'[p][0] = m /\ mags'[p][1] = mags[p][1]
                     /\ count'[p][0] = n - 1 /\ count'[p][1] = count[p][1]
               /\ \A q \in Pairs : q # p => mags'[q] = mags[q] /\ count'[q] = count[q]
               /\ held' = held \cup ({e} \ {NULL})
               /\ UNCHANGED <<stack, full_list, op>>
<1> DEFINE p == <<c, x>>
           r == mag_pair_alloc(mags[p], count[p])
           m == mags[p][0]
           n == count[p][0]
<1>1. p \in Pairs /\ p[1] = c /\ p[2] = x
  BY DepthFacts
<1>2. mags[p] \in [{0, 1} -> Mags \cup {NULL}] /\ count[p] \in [{0, 1} -> 0 .. MAG_DEPTH]
  BY <1>1 DEF IInv, TypeOK
<1>3. op[c] = Idle /\ mag_pair_count(count[p]) # 0 /\ e = r.elem
      /\ mags' = [mags EXCEPT ![p] = r.mags] /\ count' = [count EXCEPT ![p] = r.count]
      /\ held' = held \cup ({e} \ {NULL})
      /\ UNCHANGED <<stack, full_list, op>>
  BY DEF AllocLocal, Take, depotVars
<1>4. n # 0
  BY <1>1, <1>2, <1>3, RestingPair, DepthFacts DEF mag_pair_count
<1>5. /\ r.elem = stack[m][n - 1]
      /\ \/ /\ n = 1
            /\ r.mags[0] = mags[p][1] /\ r.mags[1] = m
            /\ r.count[0] = count[p][1] /\ r.count[1] = 0
         \/ /\ n > 1
            /\ r.mags = mags[p]
            /\ r.count[0] = n - 1 /\ r.count[1] = count[p][1]
  BY <1>2, <1>4, PairAllocResult
<1> HIDE DEF r
<1>6. m \in Mags /\ n \in 1 .. MAG_DEPTH
  <2>1. PairOK(p)
    BY <1>1 DEF IInv, CountsOK
  <2> QED BY <1>2, <1>4, <2>1, DepthFacts DEF PairOK
<1>7. /\ mags'[p] = r.mags /\ count'[p] = r.count
      /\ \A q \in Pairs : q # p => mags'[q] = mags[q] /\ count'[q] = count[q]
  BY <1>1, <1>3 DEF IInv, TypeOK
<1> QED BY <1>1, <1>3, <1>5, <1>6, <1>7

\* An allocation served by the pair empties the slot its element was in.
LEMMA AllocLocalSlots ==
    ASSUME IInv, NEW c \in Cpus, NEW x \in Contexts, NEW e, AllocLocal(c, x, e)
    PROVE  /\ \E m \in Mags, i \in Slots : Occupied(m, i) /\ stack[m][i] = e
                                         /\ LessSlot(m, i) /\ NotBeingFreed(m)
           /\ held' = held \cup ({e} \ {NULL})
           /\ UNCHANGED <<stack, op>>
<1> DEFINE p == <<c, x>>
           m == mags[p][0]
           n == count[p][0]
           i == n - 1
<1>1. /\ p \in Pairs /\ op[c] = Idle
      /\ m \in Mags /\ n \in 1 .. MAG_DEPTH /\ e = stack[m][n - 1]
      /\ \/ /\ n = 1
            /\ mags'[p][0] = mags[p][1] /\ mags'[p][1] = m
            /\ count'[p][0] = count[p][1] /\ count'[p][1] = 0
         \/ /\ n > 1
            /\ mags'[p][0] = m /\ mags'[p][1] = mags[p][1]
            /\ count'[p][0] = n - 1 /\ count'[p][1] = count[p][1]
      /\ \A q \in Pairs : q # p => mags'[q] = mags[q] /\ count'[q] = count[q]
      /\ held' = held \cup ({e} \ {NULL})
      /\ UNCHANGED <<stack, full_list, op>>
  BY AllocLocalStep
<1>2. mags[p] \in [{0, 1} -> Mags \cup {NULL}] /\ count[p] \in [{0, 1} -> 0 .. MAG_DEPTH]
  BY <1>1 DEF IInv, TypeOK
<1>6. m \in Mags /\ i \in Slots /\ i + 1 = n
  BY <1>1, DepthFacts DEF Slots
<1>8. Occupied(m, i)
  BY <1>1, <1>2, DepthFacts DEF Occupied, InPair
<1>9. ASSUME NEW b \in Mags, NEW j \in Slots
      PROVE  Occupied(b, j)' <=> Occupied(b, j) /\ ~(b = m /\ j = i)
  <2>1. MagsUnique /\ b # NULL /\ j \in Nat
    BY DepthFacts DEF IInv, Slots
  <2>2. InFull(b)' <=> InFull(b)
    BY <1>1 DEF InFull
  <2>3. InFull(b) => b # m
    BY <1>1, <2>1 DEF InFull, MagsUnique
  <2>4. ASSUME InPair(b, j)' PROVE InPair(b, j) /\ ~(b = m /\ j = i)
    <3>1. PICK q \in Pairs, k \in {0, 1} : mags'[q][k] = b /\ j < count'[q][k]
      BY <2>4 DEF InPair
    <3>2. CASE q # p
      BY <1>1, <2>1, <3>1, <3>2 DEF InPair, MagsUnique
    <3>3. CASE q = p
      BY <1>1, <1>2, <1>6, <2>1, <3>1, <3>3, DepthFacts DEF InPair, MagsUnique
    <3> QED BY <3>2, <3>3
  <2>5. ASSUME InPair(b, j), ~(b = m /\ j = i) PROVE InPair(b, j)'
    <3>1. PICK q \in Pairs, k \in {0, 1} : mags[q][k] = b /\ j < count[q][k]
      BY <2>5 DEF InPair
    <3>2. CASE q # p
      BY <1>1, <3>1, <3>2 DEF InPair
    <3>3. CASE q = p
      BY <1>1, <1>2, <1>6, <2>1, <2>5, <3>1, <3>3, DepthFacts DEF InPair
    <3> QED BY <3>2, <3>3
  <2> QED BY <2>2, <2>3, <2>4, <2>5 DEF Occupied
<1>10. ASSUME NEW d \in Cpus, op[d].call = "free" PROVE m # mags[<<d, op[d].ctx>>][1]
  <2>1. OpOK(d) /\ d # c
    BY <1>1, <1>10 DEF IInv, CountsOK, Idle
  <2>2. <<d, op[d].ctx>> \in Pairs /\ <<d, op[d].ctx>> # p
    BY <1>10, <2>1, DepthFacts DEF OpOK, Idle
  <2> QED BY <1>1, <1>6, <2>2, DepthFacts DEF IInv, MagsUnique
<1> QED BY <1>1, <1>6, <1>8, <1>9, <1>10 DEF LessSlot, NotBeingFreed

\* An allocation served by the depot empties the top slot of the magazine that
\* it fetches; the other slots of that magazine stay in reach.
LEMMA SwitchEmptySlots ==
    ASSUME IInv, NEW c \in Cpus, NEW e, switch_empty(c, e)
    PROVE  /\ \E m \in Mags, i \in Slots : Occupied(m, i) /\ stack[m][i] = e
                                         /\ LessSlot(m, i) /\ NotBeingFreed(m)
           /\ held' = held \cup ({e} \ {NULL})
           /\ op[c].elem = NULL /\ op' = [op EXCEPT ![c] = Idle]
           /\ stack' = stack
<1> DEFINE p == <<c, op[c].ctx>>
           m == full_list[1]
           i == MAG_DEPTH - 1
<1>0. /\ p \in Pairs /\ p[1] = c /\ p[2] = op[c].ctx /\ op[c].call = "alloc"
      /\ count[p][0] = 0 /\ count[p][1] = 0
      /\ mags[p][0] \in Mags
      /\ Len(full_list) # 0 /\ full_list[1] \in Mags
      /\ e = stack[full_list[1]][MAG_DEPTH - 1]
      /\ \/ /\ MAG_DEPTH = 1
            /\ mags'[p][0] = mags[p][1] /\ mags'[p][1] = full_list[1]
            /\ count'[p][0] = 0 /\ count'[p][1] = 0
         \/ /\ MAG_DEPTH > 1
            /\ mags'[p][0] = full_list[1] /\ mags'[p][1] = mags[p][1]
            /\ count'[p][0] = MAG_DEPTH - 1 /\ count'[p][1] = 0
      /\ \A q \in Pairs : q # p => mags'[q] = mags[q] /\ count'[q] = count[q]
      /\ empty_list' = <<mags[p][0]>> \o empty_list
      /\ mags' \in [Pairs -> [{0, 1} -> Mags \cup {NULL}]]
      /\ count' \in [Pairs -> [{0, 1} -> 0 .. MAG_DEPTH]]
  BY SwitchEmptyPair
<1>1. /\ p \in Pairs
      /\ count[p][0] = 0 /\ count[p][1] = 0
      /\ Len(full_list) # 0 /\ full_list[1] \in Mags
      /\ e = stack[full_list[1]][MAG_DEPTH - 1]
      /\ \/ /\ MAG_DEPTH = 1
            /\ mags'[p][0] = mags[p][1] /\ mags'[p][1] = full_list[1]
            /\ count'[p][0] = 0 /\ count'[p][1] = 0
         \/ /\ MAG_DEPTH > 1
            /\ mags'[p][0] = full_list[1] /\ mags'[p][1] = mags[p][1]
            /\ count'[p][0] = MAG_DEPTH - 1 /\ count'[p][1] = 0
      /\ \A q \in Pairs : q # p => mags'[q] = mags[q] /\ count'[q] = count[q]
  BY <1>0
<1>2. /\ full_list' = Tail(full_list)
      /\ held' = held \cup ({e} \ {NULL})
      /\ op' = [op EXCEPT ![c] = Idle]
      /\ stack' = stack
  BY DEF switch_empty, Take
<1>3. op[c].elem = NULL
  <2>1. OpOK(c) /\ op[c].call = "alloc"
    BY DEF IInv, CountsOK, switch_empty
  <2> QED BY <2>1 DEF OpOK, Idle
<1>4. full_list \in Seq(Mags) /\ MagsUnique
  BY DEF IInv, TypeOK
<1>5. /\ DOMAIN full_list' = 1 .. (Len(full_list) - 1) /\ DOMAIN full_list = 1 .. Len(full_list)
      /\ 1 \in DOMAIN full_list /\ Len(full_list) \in Nat
      /\ \A k \in 1 .. (Len(full_list) - 1) : full_list'[k] = full_list[k + 1]
  <2>1. /\ Tail(full_list) \in Seq(Mags) /\ Len(Tail(full_list)) = Len(full_list) - 1
        /\ \A k \in 1 .. (Len(full_list) - 1) : Tail(full_list)[k] = full_list[k + 1]
    BY <1>1, <1>4, ListDel
  <2> QED BY <1>1, <1>2, <1>4, <2>1
<1>6. ASSUME NEW n \in Mags PROVE InFull(n)' <=> InFull(n) /\ n # m
  <2>1. ASSUME InFull(n)' PROVE InFull(n) /\ n # m
    <3>1. PICK k \in DOMAIN full_list' : full_list'[k] = n
      BY <2>1 DEF InFull
    <3>2. k + 1 \in DOMAIN full_list /\ full_list[k + 1] = n /\ k + 1 # 1
      BY <1>5, <3>1
    <3> QED BY <1>4, <1>5, <3>2 DEF InFull, MagsUnique
  <2>2. ASSUME InFull(n), n # m PROVE InFull(n)'
    <3>1. PICK k \in DOMAIN full_list : full_list[k] = n
      BY <2>2 DEF InFull
    <3>2. k - 1 \in 1 .. (Len(full_list) - 1) /\ (k - 1) + 1 = k
      BY <1>5, <2>2, <3>1
    <3>3. full_list'[k - 1] = n
      BY <1>5, <3>1, <3>2
    <3> QED BY <1>5, <3>2, <3>3 DEF InFull
  <2> QED BY <2>1, <2>2
<1>7. m \in Mags /\ i \in Slots /\ Occupied(m, i)
  BY <1>1, <1>5, DepthFacts DEF Occupied, InFull, Slots
<1>8. ASSUME NEW n \in Mags, NEW j \in Slots
      PROVE  Occupied(n, j)' <=> Occupied(n, j) /\ ~(n = m /\ j = i)
  <2>1. j \in Nat /\ j <= MAG_DEPTH - 1
    BY DepthFacts DEF Slots
  <2>2. CASE n = m
    <3>1. InFull(n) /\ ~InFull(n)'
      BY <1>5, <1>6, <2>2 DEF InFull
    <3>2. \A q \in Pairs, k \in {0, 1} : mags[q][k] # m
      BY <1>4, <1>5 DEF MagsUnique
    <3>3. InPair(n, j)' <=> j < MAG_DEPTH - 1
      BY <1>1, <2>1, <2>2, <3>2, DepthFacts DEF InPair
    <3> QED BY <2>1, <2>2, <3>1, <3>3, DepthFacts DEF Occupied
  <2>3. CASE n # m
    <3>1. ASSUME InPair(n, j)' PROVE InPair(n, j)
      BY <1>1, <2>1, <2>3, <3>1 DEF InPair
    <3>2. ASSUME InPair(n, j) PROVE InPair(n, j)'
      BY <1>1, <2>1, <2>3, <3>2 DEF InPair
    <3> QED BY <1>6, <2>3, <3>1, <3>2 DEF Occupied
  <2> QED BY <2>2, <2>3
<1>9. ASSUME NEW d \in Cpus, op[d].call = "free" PROVE m # mags[<<d, op[d].ctx>>][1]
  <2>1. OpOK(d)
    BY DEF IInv, CountsOK
  <2>2. op[d].ctx \in Contexts
    BY <1>9, <2>1 DEF OpOK, Idle
  <2>3. <<d, op[d].ctx>> \in Pairs
    BY <2>2, DepthFacts
  <2> QED BY <1>4, <1>5, <2>3 DEF MagsUnique
<1> QED BY <1>1, <1>2, <1>3, <1>7, <1>8, <1>9 DEF LessSlot, NotBeingFreed

\* A free fills a slot that no allocation could read before.
LEMMA FreeSlots ==
    ASSUME IInv, NEW c \in Cpus, NEW x \in Contexts, NEW e \in Freeable, Free(c, x, e)
    PROVE  /\ \E m \in Mags, i \in Slots :
                /\ ~Occupied(m, i) /\ MoreSlot(m, i)
                /\ stack'[m][i] = e
                /\ \A n \in Mags, j \in Slots : ~(n = m /\ j = i) => stack'[n][j] = stack[n][j]
           /\ op[c] = Idle
           /\ \/ op' = [op EXCEPT ![c] = [call |-> "free", ctx |-> x, elem |-> e]] /\ held' = held
              \/ op' = op /\ held' = held \ {e}
<1> DEFINE p == <<c, x>>
           idx == FreeIdx(count[p])
           m == mags[p][idx]
           i == count[p][idx]
<1>1. /\ p \in Pairs /\ op[c] = Idle
      /\ idx \in {0, 1} /\ m \in Mags /\ i \in Slots
      /\ stack' = [stack EXCEPT ![m] = [@ EXCEPT ![i] = e]]
      /\ count'[p][idx] = i + 1
      /\ count'[p][1 - idx] = count[p][1 - idx]
      /\ \A q \in Pairs : q # p => count'[q] = count[q]
      /\ \/ op' = [op EXCEPT ![c] = [call |-> "free", ctx |-> x, elem |-> e]] /\ held' = held
         \/ op' = op /\ held' = held \ {e}
      /\ UNCHANGED <<mags, full_list>>
  BY FreeStep
<1> HIDE DEF idx
<1>2. MagsUnique /\ i \in Nat /\ m # NULL
  BY <1>1, DepthFacts DEF IInv, Slots
<1>3. \A q \in Pairs, k \in {0, 1} : mags[q][k] = m => q = p /\ k = idx
  BY <1>1, <1>2 DEF MagsUnique
<1>4. ~InFull(m)
  BY <1>1, <1>2 DEF MagsUnique, InFull
<1>5. ~Occupied(m, i)
  BY <1>1, <1>2, <1>3, <1>4 DEF Occupied, InPair
<1>6. stack'[m][i] = e /\ \A n \in Mags, j \in Slots : ~(n = m /\ j = i) => stack'[n][j] = stack[n][j]
  BY <1>1 DEF IInv, TypeOK
<1>7. ASSUME NEW n \in Mags, NEW j \in Slots
      PROVE  Occupied(n, j)' <=> Occupied(n, j) \/ (n = m /\ j = i)
  <2>1. j \in Nat /\ (InFull(n)' <=> InFull(n))
    BY <1>1, DepthFacts DEF Slots, InFull
  <2>2. CASE n = m
    <3>1. InPair(n, j)' <=> j < i + 1
      BY <1>1, <1>3, <2>2 DEF InPair
    <3>2. InPair(n, j) <=> j < i
      BY <1>1, <1>3, <2>2 DEF InPair
    <3> QED BY <1>2, <2>1, <2>2, <3>1, <3>2 DEF Occupied
  <2>3. CASE n # m
    <3>1. \A q \in Pairs, k \in {0, 1} : mags[q][k] = n => count'[q][k] = count[q][k]
      BY <1>1, <2>3
    <3>2. InPair(n, j)' <=> InPair(n, j)
      BY <1>1, <3>1 DEF InPair
    <3> QED BY <2>1, <2>3, <3>2 DEF Occupied
  <2> QED BY <2>2, <2>3
<1> QED BY <1>1, <1>5, <1>6, <1>7 DEF MoreSlot

\* A full magazine stays in reach when it moves to the depot, and the one that
\* takes its place has no slot in use.
LEMMA SwitchFullSlots ==
    ASSUME IInv, NEW c \in Cpus, switch_full(c)
    PROVE  /\ SameSlots /\ stack' = stack
           /\ op[c].elem \in held /\ held' = held \ {op[c].elem}
           /\ op' = [op EXCEPT ![c] = Idle]
<1> DEFINE p == <<c, op[c].ctx>>
<1>1. /\ p \in Pairs
      /\ op[c].elem \in held
      /\ count[p][0] = MAG_DEPTH /\ count[p][1] = MAG_DEPTH
      /\ mags[p][0] \in Mags /\ mags[p][1] \in Mags
      /\ full_list' = <<mags[p][1]>> \o full_list
      /\ count' = [count EXCEPT ![p] = [@ EXCEPT ![1] = 0]]
      /\ held' = held \ {op[c].elem}
      /\ op' = [op EXCEPT ![c] = Idle]
      /\ stack' = stack
  BY SwitchFullStep
<1>2. PICK m \in Mags \cup {NULL} : mags' = [mags EXCEPT ![p] = [@ EXCEPT ![1] = m]]
  BY SwitchFullStep
<1>3. full_list \in Seq(Mags) /\ MagsUnique
  BY DEF IInv, TypeOK
<1>4. mags[p] \in [{0, 1} -> Mags \cup {NULL}] /\ count[p] \in [{0, 1} -> 0 .. MAG_DEPTH]
  BY <1>1 DEF IInv, TypeOK
<1>5. /\ mags'[p][0] = mags[p][0] /\ count'[p][0] = MAG_DEPTH /\ count'[p][1] = 0
      /\ \A q \in Pairs : q # p => mags'[q] = mags[q] /\ count'[q] = count[q]
  <2>1. mags'[p] = [mags[p] EXCEPT ![1] = m] /\ count'[p] = [count[p] EXCEPT ![1] = 0]
        /\ \A q \in Pairs : q # p => mags'[q] = mags[q] /\ count'[q] = count[q]
    BY <1>1, <1>2 DEF IInv, TypeOK
  <2> QED BY <1>1, <1>4, <2>1
<1>6. ASSUME NEW n \in Mags PROVE InFull(n)' <=> InFull(n) \/ n = mags[p][1]
  <2> DEFINE new == <<mags[p][1]>> \o full_list
  <2>1. /\ new \in Seq(Mags) /\ Len(new) = Len(full_list) + 1 /\ Len(full_list) \in Nat
        /\ new[1] = mags[p][1]
        /\ \A k \in 1 .. Len(full_list) : new[k + 1] = full_list[k]
        /\ \A k \in 2 .. (Len(full_list) + 1) : new[k] = full_list[k - 1]
    BY <1>1, <1>3, ListAdd
  <2>2. DOMAIN new = 1 .. (Len(full_list) + 1) /\ DOMAIN full_list = 1 .. Len(full_list)
    BY <1>3, <2>1
  <2> HIDE DEF new
  <2>3. ASSUME NEW k \in DOMAIN new, new[k] = n PROVE InFull(n) \/ n = mags[p][1]
    <3>1. CASE k = 1
      BY <2>1, <2>3, <3>1
    <3>2. CASE k # 1
      <4>1. k \in 2 .. (Len(full_list) + 1) /\ k - 1 \in DOMAIN full_list
        BY <2>1, <2>2, <3>2
      <4>2. full_list[k - 1] = n
        BY <2>1, <2>3, <4>1
      <4> QED BY <4>1, <4>2 DEF InFull
    <3> QED BY <3>1, <3>2
  <2>4. ASSUME NEW k \in DOMAIN full_list, full_list[k] = n PROVE k + 1 \in DOMAIN new /\ new[k + 1] = n
    BY <2>1, <2>2, <2>4
  <2>5. 1 \in DOMAIN new
    BY <2>1, <2>2
  <2> QED BY <1>1, <2>1, <2>3, <2>4, <2>5 DEF InFull, new
<1>7. ASSUME NEW n \in Mags, NEW j \in Slots PROVE Occupied(n, j)' <=> Occupied(n, j)
  <2>1. j \in Nat /\ j < MAG_DEPTH
    BY DepthFacts DEF Slots
  <2>2. CASE n = mags[p][1]
    BY <1>1, <1>6, <2>1, <2>2 DEF Occupied, InPair
  <2>3. CASE n # mags[p][1]
    <3>1. ASSUME InPair(n, j)' PROVE InPair(n, j)
      <4>1. PICK q \in Pairs, k \in {0, 1} : mags'[q][k] = n /\ j < count'[q][k]
        BY <3>1 DEF InPair
      <4>2. ~(q = p /\ k = 1)
        BY <1>5, <2>1, <4>1
      <4>3. mags[q][k] = n /\ j < count[q][k]
        BY <1>1, <1>5, <4>1, <4>2
      <4> QED BY <4>3 DEF InPair
    <3>2. ASSUME InPair(n, j) PROVE InPair(n, j)'
      <4>1. PICK q \in Pairs, k \in {0, 1} : mags[q][k] = n /\ j < count[q][k]
        BY <3>2 DEF InPair
      <4>2. mags'[q][k] = n /\ j < count'[q][k]
        BY <1>1, <1>5, <2>3, <4>1
      <4> QED BY <4>2 DEF InPair
    <3> QED BY <1>6, <2>3, <3>1, <3>2 DEF Occupied
  <2> QED BY <2>2, <2>3
<1> QED BY <1>1, <1>7 DEF SameSlots

\* The calls that move nothing and the panics: every slot stays as it is.
LEMMA QuietSlots ==
    ASSUME IInv, NEW c \in Cpus,
           \/ \E x \in Contexts : AllocNeedsDepot(c, x)
           \/ switch_empty_fails(c)
           \/ SwitchEmptyNullMag(c)
           \/ \E x \in Contexts : FreeNullMag(c, x)
    PROVE  /\ SameSlots /\ stack' = stack /\ held' = held
           /\ \A d \in Cpus : op'[d].elem = op[d].elem
<1>1. /\ UNCHANGED <<stack, mags, count, full_list, held>>
      /\ \/ \E x \in Contexts :
              op[c] = Idle /\ op' = [op EXCEPT ![c] = [call |-> "alloc", ctx |-> x, elem |-> NULL]]
         \/ op[c].call = "alloc" /\ op' = [op EXCEPT ![c] = Idle]
         \/ op' = op
  BY DEF AllocNeedsDepot, switch_empty_fails, SwitchEmptyNullMag, FreeNullMag, depotVars
<1>2. op[c].call = "alloc" => op[c].elem = NULL
  <2>1. OpOK(c)
    BY DEF IInv, CountsOK
  <2> QED BY <2>1 DEF OpOK, Idle
<1>3. \A d \in Cpus : op'[d].elem = op[d].elem
  <2>1. op \in [Cpus -> Ops] /\ Idle.elem = NULL
    BY DEF IInv, TypeOK, Idle
  <2>2. CASE \E x \in Contexts :
               op[c] = Idle /\ op' = [op EXCEPT ![c] = [call |-> "alloc", ctx |-> x, elem |-> NULL]]
    BY <2>1, <2>2
  <2>3. CASE op[c].call = "alloc" /\ op' = [op EXCEPT ![c] = Idle]
    BY <1>2, <2>1, <2>3
  <2>4. CASE op' = op
    BY <2>4
  <2> QED BY <1>1, <2>2, <2>3, <2>4
<1>4. SameSlots
  BY <1>1 DEF SameSlots, Occupied, InPair, InFull
<1> QED BY <1>1, <1>3, <1>4

\* The element of a free that waits for the lock is on top of the pair's second
\* magazine.
OpStored ==
    \A c \in Cpus : op[c].call = "free" => stack[mags[<<c, op[c].ctx>>][1]][MAG_DEPTH - 1] = op[c].elem

\* A free that waits for the lock: both magazines of its pair are full.
LEMMA WaitingFree ==
    ASSUME IInv, NEW d \in Cpus, op[d].call = "free"
    PROVE  LET q == <<d, op[d].ctx>>
           IN  /\ q \in Pairs /\ op[d].ctx \in Contexts /\ op[d].elem \in held
               /\ mags[q][1] \in Mags /\ MAG_DEPTH - 1 \in Slots
               /\ Occupied(mags[q][1], MAG_DEPTH - 1)
<1> DEFINE q == <<d, op[d].ctx>>
<1>1. OpOK(d)
  BY DEF IInv, CountsOK
<1>2. q \in Pairs /\ op[d].ctx \in Contexts /\ op[d].elem \in held /\ count[q][1] = MAG_DEPTH
  <2>1. op[d].ctx \in Contexts /\ op[d].elem \in held /\ count[q][1] = MAG_DEPTH
    BY <1>1 DEF OpOK, Idle
  <2> QED BY <2>1, DepthFacts
<1>3. PairOK(q) /\ mags[q] \in [{0, 1} -> Mags \cup {NULL}]
  BY <1>2 DEF IInv, TypeOK, CountsOK
<1>4. mags[q][1] \in Mags /\ MAG_DEPTH - 1 \in Slots
  BY <1>2, <1>3, DepthFacts DEF PairOK, Slots
<1>5. Occupied(mags[q][1], MAG_DEPTH - 1)
  BY <1>2, DepthFacts DEF Occupied, InPair
<1> QED BY <1>2, <1>4, <1>5

\* The steps of a CPU leave the pairs and the calls of the others alone, and it
\* waits for the lock with a free only right after it stored the element.
LEMMA OthersKeepOpStored ==
    ASSUME IInv, OpStored, NEW c \in Cpus, op'[c].call # "free",
           \A d \in Cpus : d # c => op'[d] = op[d] /\ \A x \in Contexts : mags'[<<d, x>>] = mags[<<d, x>>],
           \A m \in Mags, i \in Slots : Occupied(m, i) => stack'[m][i] = stack[m][i]
    PROVE  OpStored'
<1> SUFFICES ASSUME NEW d \in Cpus, op'[d].call = "free"
             PROVE  stack'[mags'[<<d, op'[d].ctx>>][1]][MAG_DEPTH - 1] = op'[d].elem
  BY DEF OpStored
<1>1. d # c /\ op'[d] = op[d] /\ op[d].call = "free"
  OBVIOUS
<1>2. op[d].ctx \in Contexts /\ mags[<<d, op[d].ctx>>][1] \in Mags /\ MAG_DEPTH - 1 \in Slots
      /\ Occupied(mags[<<d, op[d].ctx>>][1], MAG_DEPTH - 1)
  BY <1>1, WaitingFree
<1>3. stack[mags[<<d, op[d].ctx>>][1]][MAG_DEPTH - 1] = op[d].elem
  BY <1>1 DEF OpStored
<1>4. mags'[<<d, op[d].ctx>>] = mags[<<d, op[d].ctx>>]
  BY <1>1, <1>2
<1> QED BY <1>1, <1>2, <1>3, <1>4

\* Every step keeps OpStored.
LEMMA NextOpStored ==
    ASSUME IInv, OpStored, NEW c \in Cpus,
           \/ \E x \in Contexts, e \in Elems \cup {NULL} : AllocLocal(c, x, e)
           \/ \E x \in Contexts : AllocNeedsDepot(c, x) \/ FreeNullMag(c, x)
           \/ \E e \in Elems \cup {NULL} : switch_empty(c, e)
           \/ switch_empty_fails(c) \/ SwitchEmptyNullMag(c)
           \/ \E x \in Contexts, e \in Freeable : Free(c, x, e)
           \/ switch_full(c)
    PROVE  OpStored'
<1>t. op \in [Cpus -> Ops] /\ mags \in [Pairs -> [{0, 1} -> Mags \cup {NULL}]] /\ Idle.call = "idle"
  BY DEF IInv, TypeOK, Idle
<1>p. \A d \in Cpus, x, y \in Contexts : d # c => <<d, x>> \in Pairs /\ <<d, x>> # <<c, y>>
  BY DepthFacts
<1>1. CASE \E x \in Contexts, e \in Elems \cup {NULL} : AllocLocal(c, x, e)
  <2>1. PICK x \in Contexts : /\ op[c] = Idle /\ UNCHANGED <<stack, op>>
                             /\ \E mg : mags' = [mags EXCEPT ![<<c, x>>] = mg]
    BY <1>1 DEF AllocLocal
  <2> QED BY <1>t, <1>p, <2>1, OthersKeepOpStored
<1>2. CASE (\E x \in Contexts : AllocNeedsDepot(c, x)) \/ switch_empty_fails(c)
  <2>1. /\ \/ op' = [op EXCEPT ![c] = Idle]
           \/ \E x \in Contexts : op' = [op EXCEPT ![c] = [call |-> "alloc", ctx |-> x, elem |-> NULL]]
        /\ UNCHANGED <<stack, mags>>
    BY <1>2 DEF AllocNeedsDepot, switch_empty_fails
  <2> QED BY <1>t, <2>1, OthersKeepOpStored
<1>3. CASE (\E x \in Contexts : FreeNullMag(c, x)) \/ SwitchEmptyNullMag(c)
  BY <1>3 DEF FreeNullMag, SwitchEmptyNullMag, OpStored
<1>4. CASE \E e \in Elems \cup {NULL} : switch_empty(c, e)
  <2>1. op[c].ctx \in Contexts
    <3>1. OpOK(c) /\ op[c].call = "alloc"
      BY <1>4 DEF IInv, CountsOK, switch_empty
    <3> QED BY <3>1 DEF OpOK, Idle
  <2>2. PICK mg : mags' = [mags EXCEPT ![<<c, op[c].ctx>>] = mg]
                  /\ op' = [op EXCEPT ![c] = Idle] /\ stack' = stack
    BY <1>4 DEF switch_empty
  <2> QED BY <1>t, <1>p, <2>1, <2>2, OthersKeepOpStored
<1>5. CASE switch_full(c)
  <2>1. op[c].ctx \in Contexts
    BY <1>5, WaitingFree DEF switch_full
  <2>2. PICK mg : mags' = [mags EXCEPT ![<<c, op[c].ctx>>] = mg]
    BY <1>5, SwitchFullStep
  <2>3. op' = [op EXCEPT ![c] = Idle] /\ stack' = stack
    BY <1>5, SwitchFullSlots
  <2> QED BY <1>t, <1>p, <2>1, <2>2, <2>3, OthersKeepOpStored
<1>6. CASE \E x \in Contexts, e \in Freeable : Free(c, x, e)
  <2> PICK x \in Contexts, e \in Freeable : Free(c, x, e)
    BY <1>6
  <2> DEFINE p == <<c, x>>
             idx == FreeIdx(count[p])
             m == mags[p][idx]
  <2>1. /\ p \in Pairs /\ op[c] = Idle
        /\ idx \in {0, 1} /\ m \in Mags /\ count[p][idx] \in Slots
        /\ stack' = [stack EXCEPT ![m] = [@ EXCEPT ![count[p][idx]] = e]]
        /\ \/ /\ idx = 1 /\ count[p][1] = MAG_DEPTH - 1
              /\ op' = [op EXCEPT ![c] = [call |-> "free", ctx |-> x, elem |-> e]]
           \/ op' = op
        /\ mags' = mags
    BY FreeStep
  <2> HIDE DEF idx
  <2>2. ASSUME NEW d \in Cpus, d # c, op[d].call = "free"
        PROVE  stack'[mags[<<d, op[d].ctx>>][1]][MAG_DEPTH - 1] = op[d].elem
    <3>1. <<d, op[d].ctx>> \in Pairs /\ <<d, op[d].ctx>> # p /\ mags[<<d, op[d].ctx>>][1] \in Mags
      BY <2>2, WaitingFree
    <3>2. mags[<<d, op[d].ctx>>][1] # m
      BY <2>1, <3>1, DepthFacts DEF IInv, MagsUnique
    <3> QED BY <2>1, <2>2, <3>1, <3>2 DEF OpStored, IInv, TypeOK
  <2>3. CASE op' = op
    BY <1>t, <2>1, <2>2, <2>3 DEF OpStored
  <2>4. CASE idx = 1 /\ count[p][1] = MAG_DEPTH - 1
             /\ op' = [op EXCEPT ![c] = [call |-> "free", ctx |-> x, elem |-> e]]
    <3>1. op'[c] = [call |-> "free", ctx |-> x, elem |-> e] /\ \A d \in Cpus : d # c => op'[d] = op[d]
      BY <1>t, <2>4
    <3>2. stack'[m][MAG_DEPTH - 1] = e /\ m = mags[p][1]
      BY <2>1, <2>4 DEF IInv, TypeOK
    <3> QED BY <2>1, <2>2, <3>1, <3>2 DEF OpStored
  <2> QED BY <2>1, <2>3, <2>4
<1> QED BY <1>1, <1>2, <1>3, <1>4, <1>5, <1>6

\* Every element no user may free is in a slot: so ElemsKept, and the element of
\* a free that waits for the lock is stored already.
AllStored ==
    \A e \in Elems \ Freeable : \E m \in Mags, i \in Slots : Occupied(m, i) /\ stack[m][i] = e

\* A step that empties the slot of the element it returns.
LEMMA TakenElems ==
    ASSUME IInv, ElemsUnique, OpStored,
           NEW m \in Mags, NEW i \in Slots, Occupied(m, i), LessSlot(m, i), NotBeingFreed(m),
           stack' = stack, held' = held \cup ({stack[m][i]} \ {NULL}),
           \A d \in Cpus : op'[d].elem = op[d].elem
    PROVE  /\ ElemsUnique' /\ (AllStored => AllStored')
           /\ stack[m][i] \in Elems \ held
           /\ \A n \in Mags, j \in Slots : Occupied(n, j)' => stack'[n][j] # stack[m][i]
<1> DEFINE e == stack[m][i]
<1>1. e \in Elems /\ e \notin Freeable
  BY DEF ElemsUnique
<1>2. ASSUME NEW d \in Cpus PROVE op[d].elem # e
  <2>1. CASE op[d].call = "free"
    <3>1. op[d].ctx \in Contexts /\ mags[<<d, op[d].ctx>>][1] \in Mags /\ MAG_DEPTH - 1 \in Slots
          /\ Occupied(mags[<<d, op[d].ctx>>][1], MAG_DEPTH - 1)
      BY <2>1, WaitingFree
    <3>2. stack[mags[<<d, op[d].ctx>>][1]][MAG_DEPTH - 1] = op[d].elem /\ mags[<<d, op[d].ctx>>][1] # m
      BY <2>1 DEF OpStored, NotBeingFreed
    <3> QED BY <3>1, <3>2 DEF ElemsUnique
  <2>2. CASE op[d].call # "free"
    <3>1. OpOK(d)
      BY DEF IInv, CountsOK
    <3>2. op[d].elem = NULL
      BY <2>2, <3>1 DEF OpOK, Idle
    <3> QED BY <1>1, <3>2, DepthFacts
  <2> QED BY <2>1, <2>2
<1>3. Freeable' = Freeable \cup {e} /\ e \notin held
  BY <1>1, <1>2, DepthFacts DEF Freeable
<1>4. \A n \in Mags, j \in Slots : Occupied(n, j)' => Occupied(n, j) /\ stack[n][j] # e
  BY DEF LessSlot, ElemsUnique
<1>5. ElemsUnique'
  BY <1>3, <1>4 DEF ElemsUnique
<1>6. ASSUME AllStored, NEW f \in Elems, f \notin Freeable'
      PROVE  \E n \in Mags, j \in Slots : Occupied(n, j)' /\ stack'[n][j] = f
  <2>1. PICK n \in Mags, j \in Slots : Occupied(n, j) /\ stack[n][j] = f
    BY <1>3, <1>6 DEF AllStored
  <2> QED BY <1>3, <1>6, <2>1 DEF LessSlot
<1> QED BY <1>1, <1>3, <1>4, <1>5, <1>6 DEF AllStored

\* mag_alloc_elem returns an element that nobody holds and that is in no slot
\* afterwards; it never returns NULL from a pair or a depot with elements.
LEMMA AllocElems ==
    ASSUME IInv, ElemsUnique, OpStored, NEW c \in Cpus, NEW e,
           (\E x \in Contexts : AllocLocal(c, x, e)) \/ switch_empty(c, e)
    PROVE  /\ ElemsUnique' /\ (AllStored => AllStored')
           /\ e \in Elems \ held /\ held' = held \cup {e}
           /\ \A n \in Mags, j \in Slots : Occupied(n, j)' => Occupied(n, j) /\ stack'[n][j] # e
           /\ \E m \in Mags, i \in Slots : Occupied(m, i) /\ stack[m][i] = e
           /\ stack' = stack
           /\ \A d \in Cpus : op'[d].elem = op[d].elem
<1>1. /\ \E m \in Mags, i \in Slots : Occupied(m, i) /\ stack[m][i] = e /\ LessSlot(m, i) /\ NotBeingFreed(m)
      /\ held' = held \cup ({e} \ {NULL})
      /\ stack' = stack
      /\ op' = op \/ (op[c].elem = NULL /\ op' = [op EXCEPT ![c] = Idle])
  BY AllocLocalSlots, SwitchEmptySlots
<1>2. \A d \in Cpus : op'[d].elem = op[d].elem
  <2>1. op \in [Cpus -> Ops] /\ Idle.elem = NULL
    BY DEF IInv, TypeOK, Idle
  <2> QED BY <1>1, <2>1
<1>3. PICK m \in Mags, i \in Slots :
         Occupied(m, i) /\ stack[m][i] = e /\ LessSlot(m, i) /\ NotBeingFreed(m)
  BY <1>1
<1>4. /\ ElemsUnique' /\ (AllStored => AllStored')
      /\ stack[m][i] \in Elems \ held
      /\ \A n \in Mags, j \in Slots : Occupied(n, j)' => stack'[n][j] # stack[m][i]
  BY <1>1, <1>2, <1>3, TakenElems
<1> QED BY <1>1, <1>2, <1>3, <1>4, DepthFacts DEF LessSlot

\* mag_free_elem up to the lock stores the element once.
LEMMA FreeElems ==
    ASSUME IInv, ElemsUnique, NEW c \in Cpus, NEW x \in Contexts, NEW e \in Freeable, Free(c, x, e)
    PROVE  ElemsUnique' /\ (AllStored => AllStored') /\ Freeable' = Freeable \ {e}
<1>1. /\ \E m \in Mags, i \in Slots :
           /\ ~Occupied(m, i) /\ MoreSlot(m, i)
           /\ stack'[m][i] = e
           /\ \A n \in Mags, j \in Slots : ~(n = m /\ j = i) => stack'[n][j] = stack[n][j]
      /\ op[c] = Idle
      /\ \/ op' = [op EXCEPT ![c] = [call |-> "free", ctx |-> x, elem |-> e]] /\ held' = held
         \/ op' = op /\ held' = held \ {e}
  BY FreeSlots
<1>2. PICK m \in Mags, i \in Slots :
         /\ ~Occupied(m, i) /\ MoreSlot(m, i)
         /\ stack'[m][i] = e
         /\ \A n \in Mags, j \in Slots : ~(n = m /\ j = i) => stack'[n][j] = stack[n][j]
  BY <1>1
<1>3. op \in [Cpus -> Ops] /\ held \subseteq Elems /\ Idle.elem = NULL /\ NULL \notin Elems
  BY DepthFacts DEF IInv, TypeOK, Idle
<1>4. Freeable' = Freeable \ {e} /\ e \in Elems
  <2>1. CASE op' = op /\ held' = held \ {e}
    BY <1>3, <2>1 DEF Freeable
  <2>2. CASE op' = [op EXCEPT ![c] = [call |-> "free", ctx |-> x, elem |-> e]] /\ held' = held
    <3>1. op'[c].elem = e /\ op[c].elem = NULL /\ \A d \in Cpus : d # c => op'[d].elem = op[d].elem
      BY <1>1, <1>3, <2>2
    <3>2. \A f : f \in Freeable' <=> f \in Freeable /\ f # e
      BY <1>3, <2>2, <3>1 DEF Freeable
    <3> QED BY <1>3, <3>2 DEF Freeable
  <2> QED BY <1>1, <2>1, <2>2
<1>5. \A n \in Mags, j \in Slots : Occupied(n, j) => Occupied(n, j)' /\ stack'[n][j] = stack[n][j] /\ stack[n][j] # e
  BY <1>2 DEF MoreSlot, ElemsUnique
<1>6. \A n \in Mags, j \in Slots : Occupied(n, j)' => Occupied(n, j) \/ (n = m /\ j = i)
  BY <1>2 DEF MoreSlot
<1>7. ElemsUnique'
  BY <1>2, <1>4, <1>5, <1>6 DEF ElemsUnique
<1>8. ASSUME AllStored, NEW f \in Elems, f \notin Freeable'
      PROVE  \E n \in Mags, j \in Slots : Occupied(n, j)' /\ stack'[n][j] = f
  <2>1. CASE f = e
    BY <1>2, <2>1 DEF MoreSlot
  <2>2. CASE f # e
    BY <1>4, <1>5, <1>8, <2>2 DEF AllStored
  <2> QED BY <2>1, <2>2
<1> QED BY <1>4, <1>7, <1>8 DEF AllStored

\* The other steps leave every element where it is.
LEMMA QuietElems ==
    ASSUME IInv, ElemsUnique, NEW c \in Cpus,
           \/ \E x \in Contexts : AllocNeedsDepot(c, x) \/ FreeNullMag(c, x)
           \/ switch_empty_fails(c) \/ SwitchEmptyNullMag(c) \/ switch_full(c)
    PROVE  /\ ElemsUnique' /\ (AllStored => AllStored')
           /\ Freeable' = Freeable /\ SameSlots /\ stack' = stack
<1>1. SameSlots /\ stack' = stack /\ Freeable' = Freeable
  <2>1. CASE switch_full(c)
    <3>1. /\ SameSlots /\ stack' = stack
          /\ op[c].elem \in held /\ held' = held \ {op[c].elem}
          /\ op' = [op EXCEPT ![c] = Idle]
      BY <2>1, SwitchFullSlots
    <3>2. op \in [Cpus -> Ops] /\ Idle.elem = NULL /\ held \subseteq Elems /\ NULL \notin Elems
      BY DepthFacts DEF IInv, TypeOK, Idle
    <3>3. op'[c].elem = NULL /\ \A d \in Cpus : d # c => op'[d].elem = op[d].elem
      BY <3>1, <3>2
    <3>4. \A f : f \in Freeable' <=> f \in Freeable
      BY <3>1, <3>2, <3>3 DEF Freeable
    <3> QED BY <3>1, <3>4 DEF Freeable
  <2>2. CASE ~switch_full(c)
    <3>1. /\ SameSlots /\ stack' = stack /\ held' = held
          /\ \A d \in Cpus : op'[d].elem = op[d].elem
      BY <2>2, QuietSlots
    <3> QED BY <3>1 DEF Freeable
  <2> QED BY <2>1, <2>2
<1> QED BY <1>1 DEF ElemsUnique, AllStored, SameSlots

----
(* The counters of the depot.                                              *)

\* Division with remainder, and the remainder it leaves.
LEMMA DivMod ==
    ASSUME NEW M \in Int, M > 0, NEW n \in Int
    PROVE  \E d \in Int, r \in 0 .. (M - 1) : n = M * d + r /\ n % M = r
<1>1. n = M * (n \div M) + (n % M)
  BY SMTT(60)
<1>2. n \div M \in Int /\ n % M \in 0 .. (M - 1)
  OBVIOUS
<1> QED BY <1>1, <1>2

\* The remainder of M * d + r is r.
LEMMA ModOf ==
    ASSUME NEW M \in Int, M > 0, NEW d \in Int, NEW r \in 0 .. (M - 1)
    PROVE  (M * d + r) % M = r
BY SMTT(30)

\* A number below M is its own remainder, and M leaves none.
LEMMA SmallMod ==
    ASSUME NEW M \in Int, M > 0, NEW r \in 0 .. M
    PROVE  r % M = IF r = M THEN 0 ELSE r
OBVIOUS

\* Incrementing a remainder: the uint16_t arithmetic of a counter.
LEMMA ModInc ==
    ASSUME NEW M \in Int, M > 0, NEW n \in Int
    PROVE ((n % M) + 1) % M = (n + 1) % M
<1>1. PICK d \in Int, r \in 0 .. (M - 1) : n = M * d + r /\ n % M = r
  BY DivMod
<1>2. CASE r = M - 1
  <2>1. n + 1 = M * (d + 1) + 0
    BY <1>1, <1>2
  <2>2. (M * (d + 1) + 0) % M = 0
    <3>1. d + 1 \in Int /\ 0 \in 0 .. (M - 1)
      OBVIOUS
    <3> QED BY <3>1, ModOf
  <2>3. (r + 1) % M = 0
    <3>1. r + 1 = M
      BY <1>2
    <3> QED BY <3>1, SmallMod
  <2> QED BY <1>1, <2>1, <2>2, <2>3
<1>3. CASE r # M - 1
  <2>1. r + 1 \in 0 .. (M - 1)
    BY <1>3
  <2>2. (M * d + (r + 1)) % M = r + 1
    BY <2>1, ModOf
  <2>3. n + 1 = M * d + (r + 1)
    BY <1>1
  <2>4. (r + 1) % M = r + 1
    BY <2>1, SmallMod
  <2> QED BY <1>1, <2>2, <2>3, <2>4
<1> QED BY <1>2, <1>3

\* Decrementing one.
LEMMA ModDec ==
    ASSUME NEW M \in Int, M > 0, NEW n \in Int, n % M # 0
    PROVE (n % M) - 1 = (n - 1) % M
<1>1. PICK d \in Int, r \in 0 .. (M - 1) : n = M * d + r /\ n % M = r
  BY DivMod
<1>2. r - 1 \in 0 .. (M - 1)
  BY <1>1
<1>3. (M * d + (r - 1)) % M = r - 1
  BY <1>2, ModOf
<1>4. n - 1 = M * d + (r - 1)
  BY <1>1
<1> QED BY <1>1, <1>3, <1>4

\* Both counters follow their lists modulo CountMod, wrap-around included.
LEMMA NextDepotCounts == IInv /\ DepotCounts /\ [Next]_magVars => DepotCounts'
<1> SUFFICES ASSUME IInv, DepotCounts, [Next]_magVars PROVE DepotCounts'
  OBVIOUS
<1> DEFINE F == Len(full_list)
           E == Len(empty_list)
<1>t. full_list \in Seq(Mags) /\ empty_list \in Seq(Mags) /\ F \in Int /\ E \in Int
      /\ CountMod \in Int /\ CountMod > 0
  BY DepthFacts DEF IInv, TypeOK
<1>1. ASSUME NEW c \in Cpus, NEW e, switch_empty(c, e) PROVE DepotCounts'
  <2>1. /\ Len(full_list) # 0
        /\ empty_list' = <<mags[<<c, op[c].ctx>>][0]>> \o empty_list
        /\ mags[<<c, op[c].ctx>>][0] \in Mags
    BY <1>1, SwitchEmptyPair
  <2>2. /\ full_count # 0 /\ full_count' = full_count - 1
        /\ empty_count' = (empty_count + 1) % CountMod
        /\ full_list' = Tail(full_list)
    BY <1>1 DEF switch_empty
  <2>3. Len(full_list') = F - 1 /\ Len(empty_list') = E + 1
    BY <1>t, <2>1, <2>2, ListAdd, ListDel
  <2>4. full_count' = (F - 1) % CountMod
    BY <1>t, <2>2, ModDec DEF DepotCounts
  <2>5. empty_count' = (E + 1) % CountMod
    BY <1>t, <2>2, ModInc DEF DepotCounts
  <2> QED BY <2>3, <2>4, <2>5 DEF DepotCounts
<1>2. ASSUME NEW c \in Cpus, switch_full(c) PROVE DepotCounts'
  <2>1. /\ mags[<<c, op[c].ctx>>][1] \in Mags
        /\ full_list' = <<mags[<<c, op[c].ctx>>][1]>> \o full_list
        /\ full_count' = (full_count + 1) % CountMod
    BY <1>2, SwitchFullStep
  <2>2. \/ /\ Len(empty_list) # 0 /\ empty_list' = Tail(empty_list)
           /\ empty_count # 0 /\ empty_count' = empty_count - 1
        \/ UNCHANGED <<empty_list, empty_count>>
    BY <1>2, SwitchFullStep
  <2>3. Len(full_list') = F + 1
    BY <1>t, <2>1, ListAdd
  <2>4. full_count' = (F + 1) % CountMod
    BY <1>t, <2>1, ModInc DEF DepotCounts
  <2>5. CASE Len(empty_list) # 0 /\ empty_list' = Tail(empty_list)
             /\ empty_count # 0 /\ empty_count' = empty_count - 1
    <3>1. Len(empty_list') = E - 1
      BY <1>t, <2>5, ListDel
    <3>2. empty_count' = (E - 1) % CountMod
      BY <1>t, <2>5, ModDec DEF DepotCounts
    <3> QED BY <2>3, <2>4, <3>1, <3>2 DEF DepotCounts
  <2>6. CASE UNCHANGED <<empty_list, empty_count>>
    BY <2>3, <2>4, <2>6 DEF DepotCounts
  <2> QED BY <2>2, <2>5, <2>6
<1>3. CASE UNCHANGED depotVars
  BY <1>3 DEF depotVars, DepotCounts
<1>4. ASSUME NEW c \in Cpus, mag_alloc_elem(c) PROVE DepotCounts'
  <2>1. (\E e : switch_empty(c, e)) \/ UNCHANGED depotVars
    BY <1>4 DEF mag_alloc_elem, AllocLocal, AllocNeedsDepot, switch_empty_fails, SwitchEmptyNullMag
  <2> QED BY <1>1, <1>3, <2>1
<1>5. ASSUME NEW c \in Cpus, mag_free_elem(c) PROVE DepotCounts'
  <2>1. switch_full(c) \/ UNCHANGED depotVars
    BY <1>5 DEF mag_free_elem, Free, FreeNullMag
  <2> QED BY <1>2, <1>3, <2>1
<1> QED BY <1>3, <1>4, <1>5 DEF Next, magVars

\* The allocator's state is consistent: no element is in two places and a free
\* that waits for the lock has stored its element.
RInv == IInv /\ ElemsUnique /\ OpStored

\* The inductive invariant behind ElemsAccounted: an element is in one slot that
\* an allocation can reach, with one user, or with a free that waits for the lock.
EInv == IInv /\ ElemsUnique /\ AllStored /\ OpStored

\* At first every element is with a user.
LEMMA InitEInv == Init => EInv
<1> SUFFICES ASSUME Init PROVE EInv
  OBVIOUS
<1>1. \A m \in Mags, i \in Slots : ~Occupied(m, i)
  BY DepthFacts DEF Init, MagInit, Occupied, InPair, InFull, Slots
<1>2. Freeable = Elems /\ \A c \in Cpus : op[c].call # "free"
  BY DepthFacts DEF Init, MagInit, Freeable, Idle
<1> QED BY <1>1, <1>2, InitIInv DEF EInv, ElemsUnique, AllStored, OpStored

\* Every call keeps it: a pop takes one slot out of use and its element to a
\* user, a push brings one in, the depot moves whole magazines.
LEMMA NextEInv == EInv /\ [Next]_magVars => EInv'
<1> SUFFICES ASSUME EInv, [Next]_magVars PROVE EInv'
  OBVIOUS
<1>1. IInv'
  BY NextIInv DEF EInv
<1>2. CASE UNCHANGED magVars
  BY <1>1, <1>2 DEF EInv, magVars, depotVars, ElemsUnique, AllStored, OpStored, Freeable, Occupied,
                    InPair, InFull
<1>3. ASSUME NEW c \in Cpus, mag_alloc_elem(c) PROVE EInv'
  <2>1. OpStored'
    BY <1>3, NextOpStored DEF EInv, mag_alloc_elem
  <2>2. ElemsUnique' /\ AllStored'
    BY <1>3, AllocElems, QuietElems DEF EInv, mag_alloc_elem
  <2> QED BY <1>1, <2>1, <2>2 DEF EInv
<1>4. ASSUME NEW c \in Cpus, mag_free_elem(c) PROVE EInv'
  <2>1. OpStored'
    BY <1>4, NextOpStored DEF EInv, mag_free_elem
  <2>2. ElemsUnique' /\ AllStored'
    BY <1>4, FreeElems, QuietElems DEF EInv, mag_free_elem
  <2> QED BY <1>1, <2>1, <2>2 DEF EInv
<1> QED BY <1>2, <1>3, <1>4 DEF Next

----
(* The results.                                                            *)

\* Type correctness: the variables keep their C types in every behaviour.
THEOREM TypeCorrect == Spec => []TypeOK
<1>1. IInv => TypeOK
  BY DEF IInv
<1> QED BY InitIInv, NextIInv, <1>1, PTL DEF Spec

\* magazine.c:89 and :102: no assert of the free path can fail, for any number
\* of CPUs and elements and any pattern of kzalloc failures.
THEOREM AssertsNeverFail == Spec => []AssertsHold
<1>1. IInv => AssertsHold
  BY DEF IInv
<1> QED BY InitIInv, NextIInv, <1>1, PTL DEF Spec

\* magazine.c:78: a pair with elements has some in its first magazine.
THEOREM FirstMagazineServes == Spec => []FirstHasElems
<1>1. IInv => FirstHasElems
  BY DEF IInv, CountsOK, PairOK, FirstHasElems
<1> QED BY InitIInv, NextIInv, <1>1, PTL DEF Spec

\* A magazine is never in two places: no two CPUs share a stack.
THEOREM MagazinesApart == Spec => []MagsUnique
<1>1. IInv => MagsUnique
  BY DEF IInv
<1> QED BY InitIInv, NextIInv, <1>1, PTL DEF Spec

\* For any CPUs, elements and magazines, and any kzalloc failures: an element is
\* in one slot or with one user, never in two places and never lost, however the
\* calls of the CPUs interleave.
THEOREM ElementsAccounted == Spec => []ElemsAccounted
<1>1. EInv => ElemsAccounted
  BY DEF EInv, ElemsAccounted, ElemsKept, AllStored, Freeable
<1> QED BY <1>1, InitEInv, NextEInv, PTL DEF Spec

\* The 16-bit counters of the depot equal the lengths of its lists modulo their
\* width, also after any number of wrap-arounds.
THEOREM DepotCountsRight == Spec => []DepotCounts
<1>1. Init => IInv /\ DepotCounts
  <2>1. Init => DepotCounts
    BY DepthFacts DEF Init, MagInit, DepotCounts
  <2> QED BY <2>1, InitIInv
<1>2. IInv /\ DepotCounts /\ [Next]_magVars => (IInv /\ DepotCounts)'
  BY NextIInv, NextDepotCounts
<1> QED BY <1>1, <1>2, PTL DEF Spec

----
(* What a pair and a magazine hold, as sets.                               *)

\* What the two magazines of a pair hold below their counts.
PairElems(p) == Contents(mags[p][0], count[p][0]) \cup Contents(mags[p][1], count[p][1])

\* n slots with different elements hold n elements.
LEMMA ContentsCard ==
    ASSUME NEW m, NEW n \in Nat,
           \A i, j \in 0 .. (n - 1) : stack[m][i] = stack[m][j] => i = j
    PROVE  IsFiniteSet(Contents(m, n)) /\ Cardinality(Contents(m, n)) = n
<1> DEFINE f == [i \in 0 .. (n - 1) |-> stack[m][i]]
<1>1. f \in Bijection(0 .. (n - 1), Contents(m, n))
  <2>1. f \in [0 .. (n - 1) -> Contents(m, n)]
    BY DEF Contents
  <2>2. IsInjective(f)
    BY DEF IsInjective
  <2>3. \A e \in Contents(m, n) : \E i \in 0 .. (n - 1) : f[i] = e
    BY DEF Contents
  <2> QED BY <2>1, <2>2, <2>3 DEF Bijection, Injection, Surjection
<1>2. ExistsBijection(0 .. (n - 1), Contents(m, n))
  BY <1>1 DEF ExistsBijection
<1>3. IsFiniteSet(0 .. (n - 1)) /\ Cardinality(0 .. (n - 1)) = n
  BY FS_Interval
<1> QED BY <1>2, <1>3, FS_Bijection

\* The slots of a pair are all different from one another.
LEMMA PairSlots ==
    ASSUME RInv, NEW p \in Pairs, NEW k \in {0, 1}, NEW l \in {0, 1},
           NEW i \in 0 .. (count[p][k] - 1), NEW j \in 0 .. (count[p][l] - 1),
           stack[mags[p][k]][i] = stack[mags[p][l]][j]
    PROVE  k = l /\ i = j
<1>1. count[p] \in [{0, 1} -> 0 .. MAG_DEPTH] /\ mags[p] \in [{0, 1} -> Mags \cup {NULL}] /\ PairOK(p)
  BY DEF RInv, IInv, TypeOK, CountsOK
<1>2. mags[p][k] \in Mags /\ mags[p][l] \in Mags /\ i \in Slots /\ j \in Slots
  BY <1>1, DepthFacts DEF PairOK, Slots
<1>3. Occupied(mags[p][k], i) /\ Occupied(mags[p][l], j)
  BY <1>1, DepthFacts DEF Occupied, InPair
<1>4. mags[p][k] = mags[p][l] /\ i = j
  BY <1>2, <1>3 DEF RInv, ElemsUnique
<1> QED BY <1>2, <1>4, DepthFacts DEF RInv, IInv, MagsUnique

\* A pair holds as many elements as its two counts say.
LEMMA PairCard ==
    ASSUME RInv, NEW p \in Pairs
    PROVE  /\ IsFiniteSet(PairElems(p))
           /\ Cardinality(PairElems(p)) = count[p][0] + count[p][1]
           /\ \A k \in {0, 1} : /\ IsFiniteSet(Contents(mags[p][k], count[p][k]))
                                /\ Cardinality(Contents(mags[p][k], count[p][k])) = count[p][k]
           /\ Contents(mags[p][0], count[p][0]) \cap Contents(mags[p][1], count[p][1]) = {}
<1>1. count[p][0] \in Nat /\ count[p][1] \in Nat
  BY DepthFacts DEF RInv, IInv, TypeOK
<1>2. \A k \in {0, 1} : /\ IsFiniteSet(Contents(mags[p][k], count[p][k]))
                        /\ Cardinality(Contents(mags[p][k], count[p][k])) = count[p][k]
  BY <1>1, PairSlots, ContentsCard
<1>3. Contents(mags[p][0], count[p][0]) \cap Contents(mags[p][1], count[p][1]) = {}
  BY PairSlots DEF Contents
<1>4. /\ IsFiniteSet(PairElems(p))
      /\ Cardinality(PairElems(p)) = count[p][0] + count[p][1] - Cardinality({})
  BY <1>2, <1>3, FS_Union DEF PairElems
<1>5. Cardinality({}) = 0
  BY FS_EmptySet
<1> QED BY <1>1, <1>2, <1>3, <1>4, <1>5

\* BatchCache counts with its own copy of FiniteSets.
LEMMA SameCardinality == \A S : BC!Cardinality(S) = Cardinality(S)
BY DEF BC!Cardinality, Cardinality

\* The abstract variables.
Caches == [p \in Pairs |-> CacheOf(p)]
Batches == {Contents(full_list[j], MAG_DEPTH) : j \in DOMAIN full_list}

\* The CPU of pair p waits for the lock with a free that filled the pair.
Waits(p) == op[p[1]].call = "free" /\ op[p[1]].ctx = p[2]

\* The elements of a pair are elements that no user may free.
LEMMA PairElemsFacts ==
    ASSUME RInv, NEW p \in Pairs
    PROVE  /\ PairElems(p) \subseteq Elems \ Freeable
           /\ CacheOf(p) = IF Waits(p) THEN PairElems(p) \ {op[p[1]].elem} ELSE PairElems(p)
<1>1. count[p] \in [{0, 1} -> 0 .. MAG_DEPTH] /\ mags[p] \in [{0, 1} -> Mags \cup {NULL}] /\ PairOK(p)
      /\ p[1] \in Cpus
  BY DEF RInv, IInv, TypeOK, CountsOK, Pairs
<1>2. ASSUME NEW k \in {0, 1}, NEW i \in 0 .. (count[p][k] - 1)
      PROVE  stack[mags[p][k]][i] \in Elems \ Freeable
  <2>1. mags[p][k] \in Mags /\ i \in Slots
    BY <1>1, DepthFacts DEF PairOK, Slots
  <2>2. Occupied(mags[p][k], i)
    BY <1>1, DepthFacts DEF Occupied, InPair
  <2> QED BY <2>1, <2>2 DEF RInv, ElemsUnique
<1>3. PairElems(p) \subseteq Elems \ Freeable
  BY <1>2 DEF PairElems, Contents
<1>4. ~Waits(p) /\ op[p[1]].ctx = p[2] => op[p[1]].elem = NULL
  <2>1. OpOK(p[1])
    BY <1>1 DEF RInv, IInv, CountsOK
  <2> QED BY <2>1 DEF OpOK, Waits, Idle
<1>5. NULL \notin PairElems(p)
  BY <1>3, DepthFacts
<1>6. CacheOf(p) = PairElems(p) \ (IF op[p[1]].ctx = p[2] THEN {op[p[1]].elem} ELSE {})
  BY DEF CacheOf, PairElems
<1> QED BY <1>3, <1>4, <1>5, <1>6 DEF Waits

\* What the abstract cache of a pair holds.
CacheShape == \A p \in Pairs :
    CacheOf(p) = IF Waits(p) THEN PairElems(p) \ {op[p[1]].elem} ELSE PairElems(p)

\* RInv gives it.
LEMMA CacheShapes == RInv => CacheShape
BY PairElemsFacts DEF CacheShape

\* The same after a step.
LEMMA CacheShapesAfter == RInv' => CacheShape'
BY CacheShapes, PTL

\* A step that leaves the magazines and the counts of a pair alone, and writes to
\* no slot in use, leaves what the pair holds.
LEMMA PairFrame ==
    ASSUME RInv, NEW p \in Pairs, mags'[p] = mags[p], count'[p] = count[p],
           \A m \in Mags, i \in Slots : Occupied(m, i) => stack'[m][i] = stack[m][i]
    PROVE  PairElems(p)' = PairElems(p)
<1>1. count[p] \in [{0, 1} -> 0 .. MAG_DEPTH] /\ mags[p] \in [{0, 1} -> Mags \cup {NULL}] /\ PairOK(p)
  BY DEF RInv, IInv, TypeOK, CountsOK
<1>2. ASSUME NEW k \in {0, 1}, NEW i \in 0 .. (count[p][k] - 1)
      PROVE  stack'[mags[p][k]][i] = stack[mags[p][k]][i]
  <2>1. mags[p][k] \in Mags /\ i \in Slots
    BY <1>1, DepthFacts DEF PairOK, Slots
  <2>2. Occupied(mags[p][k], i)
    BY <1>1, DepthFacts DEF Occupied, InPair
  <2> QED BY <2>1, <2>2
<1>3. \A k \in {0, 1} : Contents(mags[p][k], count[p][k])' = Contents(mags[p][k], count[p][k])
  BY <1>2 DEF Contents
<1> QED BY <1>3 DEF PairElems

\* The same for the batches of the depot.
LEMMA BatchFrame ==
    ASSUME RInv, full_list' = full_list,
           \A m \in Mags, i \in Slots : Occupied(m, i) => stack'[m][i] = stack[m][i]
    PROVE  Batches' = Batches
<1>1. \A j \in DOMAIN full_list : full_list[j] \in Mags
  BY DEF RInv, IInv, TypeOK
<1>2. \A j \in DOMAIN full_list, i \in 0 .. (MAG_DEPTH - 1) : stack'[full_list[j]][i] = stack[full_list[j]][i]
  BY <1>1 DEF Occupied, InFull, Slots
<1>3. \A j \in DOMAIN full_list : Contents(full_list[j], MAG_DEPTH)' = Contents(full_list[j], MAG_DEPTH)
  BY <1>2 DEF Contents
<1> QED BY <1>3 DEF Batches

\* Two states with the same caches, batches and holders are the same to a user.
LEMMA Stutter ==
    ASSUME \A q \in Pairs : CacheOf(q)' = CacheOf(q), Batches' = Batches, held' = held
    PROVE  UNCHANGED BC!vars
<1>1. Caches' = Caches
  BY DEF Caches
<1> QED BY <1>1 DEF BC!vars, Caches, Batches

\* A step that changes the cache of one pair.
LEMMA OneCache ==
    ASSUME NEW p \in Pairs, NEW S, CacheOf(p)' = S,
           \A q \in Pairs : q # p => CacheOf(q)' = CacheOf(q)
    PROVE  Caches' = [Caches EXCEPT ![p] = S] /\ Caches[p] = CacheOf(p)
BY DEF Caches

----
(* One lemma per action.                                                   *)

\* One slot less: the element above the new count is gone.
LEMMA PopContents ==
    ASSUME NEW m, NEW n \in Nat \ {0},
           \A i, j \in 0 .. (n - 1) : stack[m][i] = stack[m][j] => i = j
    PROVE  /\ Contents(m, n - 1) = Contents(m, n) \ {stack[m][n - 1]}
           /\ stack[m][n - 1] \in Contents(m, n)
<1>1. \A i : i \in 0 .. (n - 1) <=> i \in 0 .. ((n - 1) - 1) \/ i = n - 1
  OBVIOUS
<1>2. \A i \in 0 .. ((n - 1) - 1) : stack[m][i] # stack[m][n - 1]
  <2> SUFFICES ASSUME NEW i \in 0 .. ((n - 1) - 1), stack[m][i] = stack[m][n - 1] PROVE FALSE
    OBVIOUS
  <2>1. i \in 0 .. (n - 1) /\ n - 1 \in 0 .. (n - 1) /\ i # n - 1
    OBVIOUS
  <2> QED BY <2>1
<1>3. ASSUME NEW e, e \in Contents(m, n - 1) PROVE e \in Contents(m, n) \ {stack[m][n - 1]}
  BY <1>1, <1>2, <1>3 DEF Contents
<1>4. ASSUME NEW e, e \in Contents(m, n) \ {stack[m][n - 1]} PROVE e \in Contents(m, n - 1)
  <2>1. PICK i \in 0 .. (n - 1) : e = stack[m][i]
    BY <1>4 DEF Contents
  <2>2. i \in 0 .. ((n - 1) - 1)
    BY <1>1, <1>4, <2>1
  <2> QED BY <2>1, <2>2 DEF Contents
<1>5. stack[m][n - 1] \in Contents(m, n)
  BY DEF Contents
<1> QED BY <1>3, <1>4, <1>5

\* No slot holds nothing.
LEMMA NoContents == \A m : Contents(m, 0) = {}
BY DEF Contents

\* mag_alloc_elem served by the pair.
LEMMA AllocLocalImplements ==
    ASSUME RInv, RInv', NEW c \in Cpus, NEW x \in Contexts, NEW e, AllocLocal(c, x, e)
    PROVE  BC!Alloc(<<c, x>>)
<1> DEFINE p == <<c, x>>
           m == mags[p][0]
           n == count[p][0]
<1>1. /\ p \in Pairs /\ op[c] = Idle
      /\ m \in Mags /\ n \in 1 .. MAG_DEPTH /\ e = stack[m][n - 1]
      /\ \/ /\ n = 1
            /\ mags'[p][0] = mags[p][1] /\ mags'[p][1] = m
            /\ count'[p][0] = count[p][1] /\ count'[p][1] = 0
         \/ /\ n > 1
            /\ mags'[p][0] = m /\ mags'[p][1] = mags[p][1]
            /\ count'[p][0] = n - 1 /\ count'[p][1] = count[p][1]
      /\ \A q \in Pairs : q # p => mags'[q] = mags[q] /\ count'[q] = count[q]
      /\ held' = held \cup ({e} \ {NULL})
      /\ UNCHANGED <<stack, full_list, op>>
  BY AllocLocalStep DEF RInv
<1>2. Contents(m, n - 1) = Contents(m, n) \ {e} /\ e \in Contents(m, n)
  <2>1. \A i, j \in 0 .. (n - 1) : stack[m][i] = stack[m][j] => i = j
    BY <1>1, PairSlots
  <2>2. n \in Nat \ {0}
    BY <1>1, DepthFacts
  <2> QED BY <1>1, <2>1, <2>2, PopContents
<1>3. Contents(m, n) \cap Contents(mags[p][1], count[p][1]) = {}
  BY <1>1, PairCard
<1>4. PairElems(p)' = Contents(m, n - 1) \cup Contents(mags[p][1], count[p][1])
  <2>1. \A a, b : Contents(a, b)' = Contents(a, b)
    BY <1>1 DEF Contents
  <2>2. PairElems(p)' = Contents(mags'[p][0], count'[p][0]) \cup Contents(mags'[p][1], count'[p][1])
    BY <1>1 DEF PairElems, Contents
  <2>3. CASE n = 1
    BY <1>1, <2>2, <2>3, NoContents
  <2>4. CASE n > 1
    BY <1>1, <2>2, <2>4
  <2> QED BY <1>1, <2>3, <2>4
<1>5. PairElems(p)' = PairElems(p) \ {e} /\ e \in PairElems(p)
  BY <1>2, <1>3, <1>4 DEF PairElems
<1>6. e \in Elems
  BY <1>1, <1>5, PairElemsFacts
<1>7. \A q \in Pairs : Waits(q)' <=> Waits(q)
  BY <1>1 DEF Waits
<1>8. CacheOf(p) = PairElems(p) /\ CacheOf(p)' = PairElems(p)'
  <2>1. ~Waits(p)
    BY <1>1 DEF Waits, Idle
  <2>2. ~Waits(p)'
    BY <1>1, <1>7, <2>1
  <2> QED BY <1>1, <2>1, <2>2, CacheShapes, CacheShapesAfter DEF CacheShape
<1>9. ASSUME NEW q \in Pairs, q # p PROVE CacheOf(q)' = CacheOf(q)
  <2>1. PairElems(q)' = PairElems(q)
    BY <1>1, <1>9, PairFrame
  <2> QED BY <1>1, <1>7, <2>1, CacheShapes, CacheShapesAfter DEF CacheShape
<1>10. Batches' = Batches
  BY <1>1, BatchFrame
<1>11. Caches' = [Caches EXCEPT ![p] = CacheOf(p) \ {e}] /\ Caches[p] = CacheOf(p)
  <2>1. CacheOf(p)' = CacheOf(p) \ {e}
    BY <1>5, <1>8
  <2> QED BY <1>1, <1>9, <2>1, OneCache
<1>12. held' = held \cup {e}
  BY <1>1, <1>6, DepthFacts
<1> QED BY <1>5, <1>8, <1>10, <1>11, <1>12 DEF BC!Alloc, Caches, Batches

\* The slots of the depot's full magazines are all different from one another.
LEMMA FullSlots ==
    ASSUME RInv, NEW j \in DOMAIN full_list, NEW k \in DOMAIN full_list,
           NEW i \in 0 .. (MAG_DEPTH - 1), NEW l \in 0 .. (MAG_DEPTH - 1),
           stack[full_list[j]][i] = stack[full_list[k]][l]
    PROVE  j = k /\ i = l
<1>1. full_list[j] \in Mags /\ full_list[k] \in Mags
  BY DEF RInv, IInv, TypeOK
<1>2. Occupied(full_list[j], i) /\ Occupied(full_list[k], l)
  BY DEF Occupied, InFull
<1>3. full_list[j] = full_list[k] /\ i = l
  BY <1>1, <1>2 DEF RInv, ElemsUnique, Slots
<1> QED BY <1>3 DEF RInv, IInv, MagsUnique

\* The pair a depot allocation works on, as SwitchEmptyPair describes it.
LEMMA SwitchEmptyAt ==
    ASSUME IInv, NEW c \in Cpus, NEW e, switch_empty(c, e)
    PROVE  \E p \in Pairs :
      /\ p = <<c, op[c].ctx>> /\ p[1] = c /\ p[2] = op[c].ctx /\ op[c].call = "alloc"
      /\ count[p][0] = 0 /\ count[p][1] = 0
      /\ Len(full_list) # 0 /\ full_list[1] \in Mags
      /\ e = stack[full_list[1]][MAG_DEPTH - 1]
      /\ \/ /\ MAG_DEPTH = 1
            /\ count'[p][0] = 0 /\ count'[p][1] = 0
         \/ /\ MAG_DEPTH > 1
            /\ mags'[p][0] = full_list[1]
            /\ count'[p][0] = MAG_DEPTH - 1 /\ count'[p][1] = 0
      /\ \A q \in Pairs : q # p => mags'[q] = mags[q] /\ count'[q] = count[q]
<1> DEFINE p == <<c, op[c].ctx>>
<1>1. /\ p \in Pairs /\ p[1] = c /\ p[2] = op[c].ctx /\ op[c].call = "alloc"
      /\ count[p][0] = 0 /\ count[p][1] = 0
      /\ mags[p][0] \in Mags
      /\ Len(full_list) # 0 /\ full_list[1] \in Mags
      /\ e = stack[full_list[1]][MAG_DEPTH - 1]
      /\ \/ /\ MAG_DEPTH = 1
            /\ mags'[p][0] = mags[p][1] /\ mags'[p][1] = full_list[1]
            /\ count'[p][0] = 0 /\ count'[p][1] = 0
         \/ /\ MAG_DEPTH > 1
            /\ mags'[p][0] = full_list[1] /\ mags'[p][1] = mags[p][1]
            /\ count'[p][0] = MAG_DEPTH - 1 /\ count'[p][1] = 0
      /\ \A q \in Pairs : q # p => mags'[q] = mags[q] /\ count'[q] = count[q]
      /\ empty_list' = <<mags[p][0]>> \o empty_list
      /\ mags' \in [Pairs -> [{0, 1} -> Mags \cup {NULL}]]
      /\ count' \in [Pairs -> [{0, 1} -> 0 .. MAG_DEPTH]]
  BY SwitchEmptyPair
<1> HIDE DEF p
<1> QED BY <1>1 DEF p

\* mag_alloc_elem served by a magazine of the depot.
LEMMA SwitchEmptyImplements ==
    ASSUME RInv, RInv', NEW c \in Cpus, NEW e, switch_empty(c, e)
    PROVE  \E p \in Pairs : BC!AllocFromDepot(p)
<1>i. IInv
  BY DEF RInv
<1>s. PICK p \in Pairs :
      /\ p = <<c, op[c].ctx>> /\ p[1] = c /\ p[2] = op[c].ctx /\ op[c].call = "alloc"
      /\ count[p][0] = 0 /\ count[p][1] = 0
      /\ Len(full_list) # 0 /\ full_list[1] \in Mags
      /\ e = stack[full_list[1]][MAG_DEPTH - 1]
      /\ \/ /\ MAG_DEPTH = 1
            /\ count'[p][0] = 0 /\ count'[p][1] = 0
         \/ /\ MAG_DEPTH > 1
            /\ mags'[p][0] = full_list[1]
            /\ count'[p][0] = MAG_DEPTH - 1 /\ count'[p][1] = 0
      /\ \A q \in Pairs : q # p => mags'[q] = mags[q] /\ count'[q] = count[q]
  BY <1>i, SwitchEmptyAt
<1>m. PICK m : m = full_list[1]
  OBVIOUS
<1> DEFINE b == Contents(m, MAG_DEPTH)
<1>0. p \in Pairs /\ p[1] = c /\ p[2] = op[c].ctx /\ op[c].call = "alloc"
  BY <1>s
<1>f. Len(full_list) # 0 /\ m \in Mags /\ e = stack[m][MAG_DEPTH - 1]
  BY <1>s, <1>m
<1>q. \A q \in Pairs : q # p => mags'[q] = mags[q] /\ count'[q] = count[q]
  BY <1>s
<1>1. /\ full_list' = Tail(full_list)
      /\ held' = held \cup ({e} \ {NULL})
      /\ op' = [op EXCEPT ![c] = Idle]
      /\ stack' = stack
  BY DEF switch_empty, Take
<1>2. full_list \in Seq(Mags) /\ op \in [Cpus -> Ops]
  BY DEF RInv, IInv, TypeOK
<1>3. /\ DOMAIN full_list' = 1 .. (Len(full_list) - 1) /\ DOMAIN full_list = 1 .. Len(full_list)
      /\ 1 \in DOMAIN full_list /\ Len(full_list) \in Nat
      /\ \A k \in 1 .. (Len(full_list) - 1) : full_list'[k] = full_list[k + 1]
  <2>1. /\ Tail(full_list) \in Seq(Mags) /\ Len(Tail(full_list)) = Len(full_list) - 1
        /\ \A k \in 1 .. (Len(full_list) - 1) : Tail(full_list)[k] = full_list[k + 1]
    BY <1>f, <1>2, ListDel
  <2> QED BY <1>f, <1>1, <1>2, <2>1
<1>c. \A a, n : Contents(a, n)' = Contents(a, n)
  BY <1>1 DEF Contents
<1>4. Contents(m, MAG_DEPTH - 1) = b \ {e} /\ e \in b
  <2>1. \A i, j \in 0 .. (MAG_DEPTH - 1) : stack[m][i] = stack[m][j] => i = j
    BY <1>m, <1>3, FullSlots
  <2>2. MAG_DEPTH \in Nat \ {0}
    BY DepthFacts
  <2> QED BY <1>f, <2>1, <2>2, PopContents
<1>5. \A q \in Pairs : /\ q # p => (Waits(q)' <=> Waits(q))
                       /\ Waits(q) => op'[q[1]].elem = op[q[1]].elem
                       /\ q = p => ~Waits(q) /\ ~Waits(q)'
  <2>1. \A d \in Cpus : op'[d] = IF d = c THEN Idle ELSE op[d]
    BY <1>1, <1>2
  <2>2. \A q \in Pairs : q[1] \in Cpus /\ (Waits(q) => q[1] # c)
    BY <1>0 DEF Pairs, Waits
  <2>3. \A q \in Pairs : Waits(q)' => q[1] # c
    BY <2>1 DEF Pairs, Waits, Idle
  <2>4. \A q \in Pairs : q[1] # c => op'[q[1]] = op[q[1]]
    BY <2>1, <2>2
  <2> QED BY <1>0, <2>2, <2>3, <2>4 DEF Waits
<1>6. CacheOf(p) = {}
  <2>1. PairElems(p) = {}
    BY <1>s, NoContents DEF PairElems
  <2> QED BY <1>0, <1>5, <2>1, CacheShapes DEF CacheShape
<1>7. CacheOf(p)' = b \ {e}
  <2>1. PairElems(p)' = Contents(mags'[p][0], count'[p][0]) \cup Contents(mags'[p][1], count'[p][1])
    BY <1>1 DEF PairElems, Contents
  <2>2. CASE MAG_DEPTH = 1
    <3>1. PairElems(p)' = {}
      BY <1>s, <2>1, <2>2, NoContents
    <3>2. b \ {e} = {}
      BY <1>4, <2>2, NoContents
    <3> QED BY <1>0, <1>5, <3>1, <3>2, CacheShapesAfter DEF CacheShape
  <2>3. CASE MAG_DEPTH > 1
    <3>1. mags'[p][0] = m /\ count'[p][0] = MAG_DEPTH - 1 /\ count'[p][1] = 0
      BY <1>s, <1>m, <2>3
    <3>2. PairElems(p)' = Contents(m, MAG_DEPTH - 1)
      BY <2>1, <3>1, NoContents
    <3> QED BY <1>0, <1>4, <1>5, <3>2, CacheShapesAfter DEF CacheShape
  <2> QED BY <2>2, <2>3, DepthFacts
<1>8. ASSUME NEW q \in Pairs, q # p PROVE CacheOf(q)' = CacheOf(q)
  <2>1. PairElems(q)' = PairElems(q)
    BY <1>q, <1>1, <1>8, PairFrame
  <2> QED BY <1>5, <1>8, <2>1, CacheShapes, CacheShapesAfter DEF CacheShape
<1>9. Batches' = Batches \ {b}
  <2>1. Batches' = {Contents(full_list'[k], MAG_DEPTH) : k \in DOMAIN full_list'}
    BY <1>1 DEF Batches, Contents
  <2>2. ASSUME NEW k \in DOMAIN full_list, k # 1 PROVE Contents(full_list[k], MAG_DEPTH) # b
    <3>1. 0 \in 0 .. (MAG_DEPTH - 1)
      BY DepthFacts
    <3>2. stack[full_list[k]][0] \in Contents(full_list[k], MAG_DEPTH)
      BY <3>1 DEF Contents
    <3>3. ASSUME NEW i \in 0 .. (MAG_DEPTH - 1) PROVE stack[full_list[k]][0] # stack[m][i]
      BY <1>m, <1>3, <2>2, <3>1, FullSlots
    <3>4. stack[full_list[k]][0] \notin b
      BY <3>3 DEF Contents
    <3> QED BY <3>2, <3>4
  <2> HIDE DEF b
  <2>3. ASSUME NEW S, S \in Batches' PROVE S \in Batches \ {b}
    <3>1. PICK k \in 1 .. (Len(full_list) - 1) : S = Contents(full_list'[k], MAG_DEPTH)
      BY <1>3, <2>1, <2>3
    <3>2. k + 1 \in DOMAIN full_list /\ k + 1 # 1 /\ full_list'[k] = full_list[k + 1]
      BY <1>3, <3>1
    <3> QED BY <2>2, <3>1, <3>2 DEF Batches
  <2>4. ASSUME NEW S, S \in Batches, S # b PROVE S \in Batches'
    <3>1. PICK k \in DOMAIN full_list : S = Contents(full_list[k], MAG_DEPTH)
      BY <2>4 DEF Batches
    <3>2. k # 1
      BY <1>m, <2>4, <3>1 DEF b
    <3>3. k - 1 \in 1 .. (Len(full_list) - 1) /\ (k - 1) + 1 = k
      BY <1>3, <3>1, <3>2
    <3>4. full_list'[k - 1] = full_list[k] /\ k - 1 \in DOMAIN full_list'
      BY <1>3, <3>3
    <3> QED BY <2>1, <3>1, <3>4
  <2> QED BY <2>3, <2>4
<1>10. b \in Batches
  BY <1>m, <1>3 DEF Batches
<1>11. e \in Elems
  <2>1. Occupied(m, MAG_DEPTH - 1) /\ MAG_DEPTH - 1 \in Slots
    BY <1>m, <1>3, DepthFacts DEF Occupied, InFull, Slots
  <2> QED BY <1>f, <2>1 DEF RInv, ElemsUnique
<1>12. held' = held \cup {e}
  BY <1>1, <1>11, DepthFacts
<1> HIDE DEF b
<1>13. Caches' = [Caches EXCEPT ![p] = b \ {e}] /\ Caches[p] = CacheOf(p)
  BY <1>0, <1>7, <1>8, OneCache
<1>14. BC!AllocFromDepot(p)
  BY <1>4, <1>6, <1>9, <1>10, <1>12, <1>13 DEF BC!AllocFromDepot, Caches, Batches
<1> QED BY <1>14

\* One slot more: st is the stacks after the store of e on top of n slots.
LEMMA PushContents ==
    ASSUME NEW m, NEW n \in Nat, NEW e, NEW st, st[m][n] = e,
           \A j \in 0 .. (n - 1) : st[m][j] = stack[m][j]
    PROVE  {st[m][j] : j \in 0 .. ((n + 1) - 1)} = Contents(m, n) \cup {e}
<1>1. \A j : j \in 0 .. ((n + 1) - 1) <=> j \in 0 .. (n - 1) \/ j = n
  OBVIOUS
<1>2. ASSUME NEW f, f \in {st[m][j] : j \in 0 .. ((n + 1) - 1)} PROVE f \in Contents(m, n) \cup {e}
  BY <1>1, <1>2 DEF Contents
<1>3. ASSUME NEW f, f \in Contents(m, n) \cup {e} PROVE f \in {st[m][j] : j \in 0 .. ((n + 1) - 1)}
  BY <1>1, <1>3 DEF Contents
<1> QED BY <1>2, <1>3

\* The slot mag_pair_free writes to: it is in no use, and its pair has that much
\* more afterwards.
FreeStores(c, x, e, idx, m, i) ==
    LET p == <<c, x>>
    IN  /\ p \in Pairs /\ p[1] = c /\ p[2] = x /\ op[c] = Idle
        /\ mags[p][idx] = m /\ count[p][idx] = i /\ ~Occupied(m, i)
        /\ stack' = [stack EXCEPT ![m] = [@ EXCEPT ![i] = e]]
        /\ count'[p][idx] = i + 1
        /\ count'[p][1 - idx] = count[p][1 - idx]
        /\ \A q \in Pairs : q # p => count'[q] = count[q]
        /\ mags' = mags /\ full_list' = full_list
        /\ \/ /\ op' = [op EXCEPT ![c] = [call |-> "free", ctx |-> x, elem |-> e]]
              /\ held' = held
           \/ /\ count[p][0] + count[p][1] < 2 * MAG_DEPTH - 1
              /\ op' = op
              /\ held' = held \ {e}

\* A free writes to such a slot.
LEMMA FreeAt ==
    ASSUME RInv, NEW c \in Cpus, NEW x \in Contexts, NEW e \in Freeable, Free(c, x, e)
    PROVE  \E idx \in {0, 1}, m \in Mags, i \in Slots : FreeStores(c, x, e, idx, m, i)
<1> DEFINE p == <<c, x>>
           idx == FreeIdx(count[p])
           m == mags[p][idx]
<1>i. IInv
  BY DEF RInv
<1>0. /\ p \in Pairs /\ p[1] = c /\ p[2] = x /\ op[c] = Idle
      /\ idx \in {0, 1} /\ m \in Mags /\ count[p][idx] \in Slots
      /\ idx = 0 => count[p][1] = 0 \/ count[p][0] # 0
      /\ idx = 1 => count[p][0] = MAG_DEPTH
      /\ count[p][1] < MAG_DEPTH
      /\ stack' = [stack EXCEPT ![m] = [@ EXCEPT ![count[p][idx]] = e]]
      /\ count'[p][idx] = count[p][idx] + 1
      /\ count'[p][1 - idx] = count[p][1 - idx]
      /\ \A q \in Pairs : q # p => count'[q] = count[q]
      /\ count' \in [Pairs -> [{0, 1} -> 0 .. MAG_DEPTH]]
      /\ \/ /\ idx = 1 /\ count[p][1] = MAG_DEPTH - 1
            /\ op' = [op EXCEPT ![c] = [call |-> "free", ctx |-> x, elem |-> e]]
            /\ held' = held
         \/ /\ ~(idx = 1 /\ count[p][1] = MAG_DEPTH - 1)
            /\ op' = op
            /\ held' = held \ {e}
      /\ UNCHANGED <<mags, full_list, empty_list, full_count, empty_count, fresh, panic>>
  BY <1>i, FreeStep
<1> HIDE DEF idx
<1>1. count[p] \in [{0, 1} -> 0 .. MAG_DEPTH]
  BY <1>0 DEF RInv, IInv, TypeOK
<1>2. ~Occupied(m, count[p][idx])
  <2>1. m # NULL
    BY <1>0, DepthFacts
  <2>2. \A q \in Pairs, k \in {0, 1} : mags[q][k] = m => q = p /\ k = idx
    BY <1>0, <2>1 DEF RInv, IInv, MagsUnique
  <2>3. ~InFull(m)
    BY <1>0 DEF RInv, IInv, MagsUnique, InFull
  <2>4. ~InPair(m, count[p][idx])
    <3>1. ~(count[p][idx] < count[p][idx])
      BY <1>0, DepthFacts DEF Slots
    <3> QED BY <2>2, <3>1 DEF InPair
  <2> QED BY <2>3, <2>4 DEF Occupied
<1>3. ~(idx = 1 /\ count[p][1] = MAG_DEPTH - 1) => count[p][0] + count[p][1] < 2 * MAG_DEPTH - 1
  <2>1. /\ count[p][0] \in 0 .. MAG_DEPTH /\ count[p][1] \in 0 .. MAG_DEPTH
        /\ idx \in {0, 1} /\ count[p][idx] \in 0 .. (MAG_DEPTH - 1)
        /\ count[p][1] < MAG_DEPTH /\ MAG_DEPTH \in Nat
    BY <1>0, <1>1, DepthFacts DEF Slots
  <2>2. CASE idx = 0
    BY <2>1, <2>2
  <2>3. CASE idx = 1
    BY <2>1, <2>3
  <2> QED BY <2>1, <2>2, <2>3
<1>4. UNCHANGED <<mags, full_list>>
  BY <1>0
<1>5. count[p][idx] \in Slots /\ m \in Mags /\ idx \in {0, 1}
  BY <1>0
<1>6. FreeStores(c, x, e, idx, m, count[p][idx])
  BY <1>0, <1>2, <1>3, <1>4 DEF FreeStores
<1> HIDE DEF m, p
<1> QED BY <1>5, <1>6

\* mag_free_elem up to the lock: a free that stays in the pair, or nothing yet.
LEMMA FreeImplements ==
    ASSUME RInv, RInv', NEW c \in Cpus, NEW x \in Contexts, NEW e \in Freeable, Free(c, x, e)
    PROVE  (\E p \in Pairs : BC!Free(p)) \/ UNCHANGED BC!vars
<1> DEFINE p == <<c, x>>
           new == [call |-> "free", ctx |-> x, elem |-> e]
<1>p. PICK idx \in {0, 1}, m \in Mags, i \in Slots : FreeStores(c, x, e, idx, m, i)
  BY FreeAt
<1>0. /\ p \in Pairs /\ p[1] = c /\ p[2] = x /\ op[c] = Idle
      /\ mags[p][idx] = m /\ count[p][idx] = i /\ ~Occupied(m, i)
      /\ stack' = [stack EXCEPT ![m] = [@ EXCEPT ![i] = e]]
      /\ count'[p][idx] = i + 1
      /\ count'[p][1 - idx] = count[p][1 - idx]
      /\ \A q \in Pairs : q # p => count'[q] = count[q]
      /\ mags' = mags /\ full_list' = full_list
      /\ \/ /\ op' = [op EXCEPT ![c] = new]
            /\ held' = held
         \/ /\ count[p][0] + count[p][1] < 2 * MAG_DEPTH - 1
            /\ op' = op
            /\ held' = held \ {e}
  BY <1>p DEF FreeStores
<1>1. /\ count[p] \in [{0, 1} -> 0 .. MAG_DEPTH] /\ mags[p] \in [{0, 1} -> Mags \cup {NULL}]
      /\ PairOK(p) /\ op \in [Cpus -> Ops]
      /\ stack \in [Mags -> [Slots -> Elems \cup {NULL}]]
  BY <1>0 DEF RInv, IInv, TypeOK, CountsOK
<1>2. p \in Pairs /\ p[1] = c /\ p[2] = x /\ op[c] = Idle /\ i \in Nat /\ i < MAG_DEPTH /\ MAG_DEPTH \in Nat
  BY <1>0, DepthFacts DEF Slots
<1>3. stack'[m][i] = e /\ \A n \in Mags, j \in Slots : ~(n = m /\ j = i) => stack'[n][j] = stack[n][j]
  BY <1>0, <1>1
<1>4. \A n \in Mags, j \in Slots : Occupied(n, j) => stack'[n][j] = stack[n][j]
  BY <1>0, <1>3
<1>c. PICK k : k = count[p][1 - idx]
  OBVIOUS
<1>n. PICK n : n = mags[p][1 - idx]
  OBVIOUS
<1>5. {stack'[m][j] : j \in 0 .. ((i + 1) - 1)} = Contents(m, i) \cup {e}
  <2>1. \A j \in 0 .. (i - 1) : j \in Slots /\ j # i
    BY <1>2 DEF Slots
  <2>2. \A j \in 0 .. (i - 1) : stack'[m][j] = stack[m][j]
    BY <1>3, <2>1
  <2> QED BY <1>2, <1>3, <2>2, PushContents
<1>6. {stack'[n][j] : j \in 0 .. (k - 1)} = Contents(n, k)
  <2>0. 1 - idx \in {0, 1} /\ k \in 0 .. MAG_DEPTH
    BY <1>1, <1>c
  <2>1. ASSUME NEW j \in 0 .. (k - 1)
        PROVE  stack'[n][j] = stack[n][j]
    <3>1. n \in Mags /\ j \in Slots
      BY <1>1, <1>2, <1>c, <1>n, <2>0 DEF PairOK, Slots
    <3>2. InPair(n, j)
      BY <1>2, <1>c, <1>n, <2>0 DEF InPair
    <3> QED BY <1>4, <3>1, <3>2 DEF Occupied
  <2> QED BY <2>1 DEF Contents
<1>7. PairElems(p) = Contents(m, i) \cup Contents(n, k)
  <2>1. CASE idx = 0
    BY <1>0, <1>c, <1>n, <2>1 DEF PairElems
  <2>2. CASE idx = 1
    BY <1>0, <1>c, <1>n, <2>2 DEF PairElems
  <2> QED BY <2>1, <2>2
<1>8. PairElems(p)' = {stack'[m][j] : j \in 0 .. ((i + 1) - 1)} \cup {stack'[n][j] : j \in 0 .. (k - 1)}
  <2>1. /\ mags'[p][idx] = m /\ count'[p][idx] = i + 1
        /\ mags'[p][1 - idx] = n /\ count'[p][1 - idx] = k
    BY <1>0, <1>c, <1>n
  <2>2. CASE idx = 0
    <3>1. mags'[p][0] = m /\ count'[p][0] = i + 1 /\ mags'[p][1] = n /\ count'[p][1] = k
      BY <2>1, <2>2
    <3> QED BY <3>1 DEF PairElems, Contents
  <2>3. CASE idx = 1
    <3>1. mags'[p][1] = m /\ count'[p][1] = i + 1 /\ mags'[p][0] = n /\ count'[p][0] = k
      BY <2>1, <2>3
    <3> QED BY <3>1 DEF PairElems, Contents
  <2> QED BY <2>2, <2>3
<1>9. PairElems(p)' = PairElems(p) \cup {e}
  BY <1>5, <1>6, <1>7, <1>8
<1>10. e \notin PairElems(p) /\ CacheOf(p) = PairElems(p)
  <2>1. ~Waits(p)
    BY <1>2 DEF Waits, Idle
  <2> QED BY <1>2, <2>1, PairElemsFacts
<1> HIDE DEF new
<1>11. ASSUME NEW q \in Pairs, q # p PROVE CacheOf(q)' = CacheOf(q)
  <2>1. mags'[q] = mags[q] /\ count'[q] = count[q]
    BY <1>0, <1>11
  <2>2. PairElems(q)' = PairElems(q)
    BY <1>4, <2>1, PairFrame
  <2>3. (Waits(q)' <=> Waits(q)) /\ (Waits(q) => op'[q[1]].elem = op[q[1]].elem)
    <3>1. q[1] \in Cpus /\ (q[1] = c => q[2] # x /\ ~Waits(q))
      BY <1>2, <1>11 DEF Pairs, Waits, Idle
    <3>2. op' = op \/ op' = [op EXCEPT ![c] = new]
      BY <1>0
    <3>3. \A d \in Cpus : d # c => op'[d] = op[d]
      BY <1>1, <3>2
    <3>4. op'[c] = op[c] \/ op'[c] = new
      BY <1>1, <3>2
    <3> QED BY <3>1, <3>3, <3>4 DEF Waits, new
  <2> QED BY <2>2, <2>3, CacheShapes, CacheShapesAfter DEF CacheShape
<1>12. Batches' = Batches
  BY <1>0, <1>4, BatchFrame
<1>13. CASE op' = [op EXCEPT ![c] = new] /\ held' = held
  <2>1. op'[c] = new
    BY <1>1, <1>13
  <2>2. Waits(p)' /\ op'[p[1]].elem = e
    BY <1>2, <2>1 DEF Waits, new
  <2>3. CacheOf(p)' = PairElems(p)' \ {e}
    BY <1>2, <2>2, CacheShapesAfter DEF CacheShape
  <2>4. CacheOf(p)' = CacheOf(p)
    BY <1>9, <1>10, <2>3
  <2> QED BY <1>11, <1>12, <1>13, <2>4, Stutter
<1>14. CASE count[p][0] + count[p][1] < 2 * MAG_DEPTH - 1 /\ op' = op /\ held' = held \ {e}
  <2>1. ~Waits(p)'
    BY <1>2, <1>14 DEF Waits, Idle
  <2>2. CacheOf(p)' = CacheOf(p) \cup {e}
    BY <1>2, <1>9, <1>10, <2>1, CacheShapesAfter DEF CacheShape
  <2>3. Cardinality(CacheOf(p)) < 2 * MAG_DEPTH - 1
    BY <1>2, <1>10, <1>14, PairCard
  <2>4. Caches' = [Caches EXCEPT ![p] = CacheOf(p) \cup {e}] /\ Caches[p] = CacheOf(p)
    BY <1>2, <1>11, <2>2, OneCache
  <2>5. e \in held
    BY DEF Freeable
  <2> HIDE DEF p
  <2>6. held' = held \ {e} /\ Cardinality(Caches[p]) < 2 * MAG_DEPTH - 1
    BY <1>14, <2>3, <2>4
  <2>7. Caches' = [Caches EXCEPT ![p] = Caches[p] \cup {e}]
    BY <2>4
  <2>8. BC!Free(p)
    BY <1>12, <2>5, <2>6, <2>7, SameCardinality DEF BC!Free, Caches, Batches
  <2> QED BY <1>2, <2>8
<1> QED BY <1>0, <1>13, <1>14

\* What mag_allocator_switch_full does to the pair and to the depot's full list.
LEMMA SwitchFullAt ==
    ASSUME RInv, NEW c \in Cpus, switch_full(c)
    PROVE  \E p \in Pairs, m \in Mags :
             /\ p[1] = c /\ p[2] = op[c].ctx
             /\ op[c].call = "free" /\ op[c].elem \in held
             /\ count[p][0] = MAG_DEPTH /\ count[p][1] = MAG_DEPTH
             /\ mags[p][1] = m /\ full_list' = <<m>> \o full_list
             /\ mags'[p][0] = mags[p][0] /\ count'[p][0] = MAG_DEPTH /\ count'[p][1] = 0
             /\ \A q \in Pairs : q # p => mags'[q] = mags[q] /\ count'[q] = count[q]
             /\ held' = held \ {op[c].elem}
             /\ op' = [op EXCEPT ![c] = Idle]
             /\ stack' = stack
<1> DEFINE p == <<c, op[c].ctx>>
<1>i. IInv
  BY DEF RInv
<1>1. /\ p \in Pairs /\ p[1] = c /\ p[2] = op[c].ctx
      /\ op[c].call = "free" /\ op[c].elem \in held
      /\ count[p][0] = MAG_DEPTH /\ count[p][1] = MAG_DEPTH
      /\ mags[p][0] \in Mags /\ mags[p][1] \in Mags
      /\ full_list' = <<mags[p][1]>> \o full_list
      /\ count' = [count EXCEPT ![p] = [@ EXCEPT ![1] = 0]]
      /\ held' = held \ {op[c].elem}
      /\ op' = [op EXCEPT ![c] = Idle]
      /\ stack' = stack
  BY <1>i, SwitchFullStep
<1>2. PICK m \in Mags \cup {NULL} : mags' = [mags EXCEPT ![p] = [@ EXCEPT ![1] = m]]
  BY <1>i, SwitchFullStep
<1> HIDE DEF p
<1>3. /\ mags \in [Pairs -> [{0, 1} -> Mags \cup {NULL}]]
      /\ count \in [Pairs -> [{0, 1} -> 0 .. MAG_DEPTH]]
  BY <1>i DEF IInv, TypeOK
<1>4. mags'[p] = [mags[p] EXCEPT ![1] = m] /\ count'[p] = [count[p] EXCEPT ![1] = 0]
      /\ \A q \in Pairs : q # p => mags'[q] = mags[q] /\ count'[q] = count[q]
  BY <1>1, <1>2, <1>3
<1>5. mags[p] \in [{0, 1} -> Mags \cup {NULL}] /\ count[p] \in [{0, 1} -> 0 .. MAG_DEPTH]
  BY <1>1, <1>3
<1>6. mags'[p][0] = mags[p][0] /\ count'[p][0] = MAG_DEPTH /\ count'[p][1] = 0
  BY <1>1, <1>4, <1>5
<1> QED BY <1>1, <1>4, <1>6

\* mag_free_elem whose free filled the pair, from the lock on.
LEMMA SwitchFullImplements ==
    ASSUME RInv, RInv', NEW c \in Cpus, switch_full(c)
    PROVE  \E p \in Pairs : BC!FreeToDepot(p)
<1>s. PICK p \in Pairs, m \in Mags :
             /\ p[1] = c /\ p[2] = op[c].ctx
             /\ op[c].call = "free" /\ op[c].elem \in held
             /\ count[p][0] = MAG_DEPTH /\ count[p][1] = MAG_DEPTH
             /\ mags[p][1] = m /\ full_list' = <<m>> \o full_list
             /\ mags'[p][0] = mags[p][0] /\ count'[p][0] = MAG_DEPTH /\ count'[p][1] = 0
             /\ \A q \in Pairs : q # p => mags'[q] = mags[q] /\ count'[q] = count[q]
             /\ held' = held \ {op[c].elem}
             /\ op' = [op EXCEPT ![c] = Idle]
             /\ stack' = stack
  BY SwitchFullAt
<1>e. PICK e : e = op[c].elem
  OBVIOUS
<1>a. PICK a : a = mags[p][0]
  OBVIOUS
<1> DEFINE b == Contents(m, MAG_DEPTH)
           rest == Contents(a, MAG_DEPTH)
<1>0. p[1] = c /\ p[2] = op[c].ctx /\ op[c].call = "free" /\ e \in held /\ held' = held \ {e}
  BY <1>s, <1>e
<1>1. full_list' = <<m>> \o full_list /\ op' = [op EXCEPT ![c] = Idle] /\ stack' = stack
  BY <1>s
<1>2. full_list \in Seq(Mags) /\ op \in [Cpus -> Ops] /\ MAG_DEPTH \in Nat
  BY DepthFacts DEF RInv, IInv, TypeOK
<1>3. PairElems(p) = rest \cup b
  BY <1>s, <1>a DEF PairElems
<1>4. /\ IsFiniteSet(PairElems(p)) /\ Cardinality(PairElems(p)) = 2 * MAG_DEPTH
      /\ Cardinality(b) = MAG_DEPTH /\ rest \cap b = {}
  <2>1. Cardinality(PairElems(p)) = count[p][0] + count[p][1] /\ IsFiniteSet(PairElems(p))
    BY PairCard
  <2>2. Cardinality(Contents(mags[p][1], count[p][1])) = count[p][1]
    BY PairCard
  <2>3. Contents(mags[p][0], count[p][0]) \cap Contents(mags[p][1], count[p][1]) = {}
    BY PairCard
  <2>4. count[p][0] = MAG_DEPTH /\ count[p][1] = MAG_DEPTH /\ mags[p][1] = m
    BY <1>s
  <2> QED BY <1>2, <1>a, <2>1, <2>2, <2>3, <2>4
<1>5. e \in PairElems(p)
  <2>1. <<c, op[c].ctx>> = p
    BY <1>0 DEF Pairs
  <2>2. stack[m][MAG_DEPTH - 1] = e
    BY <1>s, <1>0, <1>e, <2>1 DEF RInv, OpStored
  <2>3. MAG_DEPTH - 1 \in 0 .. (MAG_DEPTH - 1)
    BY DepthFacts
  <2>4. e \in b
    BY <2>2, <2>3 DEF Contents
  <2> QED BY <1>3, <2>4
<1> HIDE DEF b, rest
<1>6. Waits(p) /\ ~Waits(p)'
  <2>1. op'[c] = Idle
    BY <1>1, <1>2
  <2> QED BY <1>0, <2>1 DEF Waits, Idle
<1>7. CacheOf(p) = PairElems(p) \ {e}
  BY <1>0, <1>e, <1>6, CacheShapes DEF CacheShape
<1>8. Cardinality(CacheOf(p)) = 2 * MAG_DEPTH - 1 /\ CacheOf(p) \cup {e} = rest \cup b
  <2>1. Cardinality(PairElems(p) \ {e}) = Cardinality(PairElems(p)) - 1
    BY <1>4, <1>5, FS_RemoveElement
  <2>2. Cardinality(CacheOf(p)) = 2 * MAG_DEPTH - 1
    BY <1>4, <1>7, <2>1
  <2>3. CacheOf(p) \cup {e} = rest \cup b
    BY <1>3, <1>5, <1>7
  <2> QED BY <2>2, <2>3
<1>9. CacheOf(p)' = rest
  <2>1. PairElems(p)' = Contents(mags'[p][0], count'[p][0]) \cup Contents(mags'[p][1], count'[p][1])
    BY <1>1 DEF PairElems, Contents
  <2>2. PairElems(p)' = rest
    BY <1>s, <1>a, <2>1, NoContents DEF rest
  <2> QED BY <1>6, <2>2, CacheShapesAfter DEF CacheShape
<1>10. ASSUME NEW q \in Pairs, q # p PROVE CacheOf(q)' = CacheOf(q)
  <2>1. mags'[q] = mags[q] /\ count'[q] = count[q]
    BY <1>s, <1>10
  <2>2. PairElems(q)' = PairElems(q)
    BY <1>1, <2>1, PairFrame
  <2>3. q[1] \in Cpus /\ (q[1] = c => q[2] # op[c].ctx)
    BY <1>0, <1>10 DEF Pairs
  <2>4. \A d \in Cpus : op'[d] = IF d = c THEN Idle ELSE op[d]
    BY <1>1, <1>2
  <2>5. (Waits(q)' <=> Waits(q)) /\ (Waits(q) => op'[q[1]].elem = op[q[1]].elem)
    BY <2>3, <2>4 DEF Waits, Idle
  <2> QED BY <2>2, <2>5, CacheShapes, CacheShapesAfter DEF CacheShape
<1>11. Batches' = Batches \cup {b}
  <2>1. /\ full_list' \in Seq(Mags) /\ Len(full_list') = Len(full_list) + 1
        /\ full_list'[1] = m
        /\ \A k \in 2 .. (Len(full_list) + 1) : full_list'[k] = full_list[k - 1]
    BY <1>1, <1>2, ListAdd
  <2>2. /\ DOMAIN full_list' = 1 .. (Len(full_list) + 1) /\ DOMAIN full_list = 1 .. Len(full_list)
        /\ Len(full_list) \in Nat
    BY <1>2, <2>1
  <2>3. Batches' = {Contents(full_list'[k], MAG_DEPTH) : k \in DOMAIN full_list'}
    BY <1>1 DEF Batches, Contents
  <2>4. ASSUME NEW S, S \in Batches' PROVE S \in Batches \cup {b}
    <3>1. PICK k \in 1 .. (Len(full_list) + 1) : S = Contents(full_list'[k], MAG_DEPTH)
      BY <2>2, <2>3, <2>4
    <3>2. CASE k = 1
      BY <2>1, <3>1, <3>2 DEF b
    <3>3. CASE k # 1
      <4>1. k \in 2 .. (Len(full_list) + 1) /\ k - 1 \in DOMAIN full_list
        BY <2>2, <3>1, <3>3
      <4>2. S = Contents(full_list[k - 1], MAG_DEPTH)
        BY <2>1, <3>1, <4>1
      <4> QED BY <4>1, <4>2 DEF Batches
    <3> QED BY <3>2, <3>3
  <2>5. b \in Batches'
    <3>1. 1 \in DOMAIN full_list'
      BY <2>2
    <3> QED BY <2>1, <2>3, <3>1 DEF b
  <2>6. ASSUME NEW S, S \in Batches PROVE S \in Batches'
    <3>1. PICK k \in 1 .. Len(full_list) : S = Contents(full_list[k], MAG_DEPTH)
      BY <2>2, <2>6 DEF Batches
    <3>2. k + 1 \in 2 .. (Len(full_list) + 1) /\ (k + 1) - 1 = k /\ k + 1 \in DOMAIN full_list'
      BY <2>2, <3>1
    <3>3. full_list'[k + 1] = full_list[k]
      BY <2>1, <3>2
    <3> QED BY <2>3, <3>1, <3>2, <3>3
  <2> QED BY <2>4, <2>5, <2>6
<1>12. /\ Caches' = [Caches EXCEPT ![p] = (Caches[p] \cup {e}) \ b]
       /\ Caches[p] = CacheOf(p)
  <2>1. Caches' = [Caches EXCEPT ![p] = rest] /\ Caches[p] = CacheOf(p)
    BY <1>9, <1>10, OneCache
  <2>2. (CacheOf(p) \cup {e}) \ b = rest
    BY <1>4, <1>8
  <2> QED BY <2>1, <2>2
<1>13. /\ Cardinality(Caches[p]) = 2 * MAG_DEPTH - 1
       /\ b \in SUBSET (Caches[p] \cup {e})
       /\ Cardinality(b) = MAG_DEPTH
  BY <1>4, <1>8, <1>12
<1>14. BC!FreeToDepot(p)
  BY <1>0, <1>11, <1>12, <1>13, SameCardinality DEF BC!FreeToDepot, Caches, Batches
<1> QED BY <1>14

\* The calls that end without an element, the part of a call before the lock and
\* the panics change nothing a user can see.
LEMMA QuietImplements ==
    ASSUME RInv, RInv', NEW c \in Cpus,
           \/ \E x \in Contexts : AllocNeedsDepot(c, x)
           \/ switch_empty_fails(c)
           \/ SwitchEmptyNullMag(c)
           \/ \E x \in Contexts : FreeNullMag(c, x)
    PROVE  UNCHANGED BC!vars
<1>1. /\ UNCHANGED <<stack, mags, count, full_list, held>>
      /\ \/ \E x \in Contexts :
              op[c] = Idle /\ op' = [op EXCEPT ![c] = [call |-> "alloc", ctx |-> x, elem |-> NULL]]
         \/ op[c].call = "alloc" /\ op' = [op EXCEPT ![c] = Idle]
         \/ op' = op
  BY DEF AllocNeedsDepot, switch_empty_fails, SwitchEmptyNullMag, FreeNullMag, depotVars
<1>2. op \in [Cpus -> Ops]
  BY DEF RInv, IInv, TypeOK
<1>3. /\ \A d \in Cpus : d # c => op'[d] = op[d]
      /\ op'[c] = op[c] \/ (op[c].call # "free" /\ op'[c].call # "free")
  <2>1. CASE \E x \in Contexts :
               op[c] = Idle /\ op' = [op EXCEPT ![c] = [call |-> "alloc", ctx |-> x, elem |-> NULL]]
    <3>1. PICK x \in Contexts :
               op[c] = Idle /\ op' = [op EXCEPT ![c] = [call |-> "alloc", ctx |-> x, elem |-> NULL]]
      BY <2>1
    <3>2. op'[c].call = "alloc" /\ \A d \in Cpus : d # c => op'[d] = op[d]
      BY <1>2, <3>1
    <3> QED BY <3>1, <3>2 DEF Idle
  <2>2. CASE op[c].call = "alloc" /\ op' = [op EXCEPT ![c] = Idle]
    BY <1>2, <2>2 DEF Idle
  <2> QED BY <1>1, <2>1, <2>2
<1>4. ASSUME NEW q \in Pairs PROVE CacheOf(q)' = CacheOf(q)
  <2>1. q[1] \in Cpus
    BY DEF Pairs
  <2>2. (Waits(q)' <=> Waits(q)) /\ (Waits(q) => op'[q[1]].elem = op[q[1]].elem)
    BY <1>3, <2>1 DEF Waits
  <2>3. PairElems(q)' = PairElems(q)
    BY <1>1, PairFrame
  <2> QED BY <2>2, <2>3, CacheShapes, CacheShapesAfter DEF CacheShape
<1>5. Batches' = Batches
  BY <1>1, BatchFrame
<1> QED BY <1>1, <1>4, <1>5, Stutter

\* mag_allocator_init leaves empty caches and an empty depot.
LEMMA InitImplements == Init => BC!Init
<1> SUFFICES ASSUME Init PROVE BC!Init
  OBVIOUS
<1>1. full_list = <<>> /\ held = Elems
  BY DEF Init, MagInit
<1>2. ASSUME NEW p \in Pairs PROVE CacheOf(p) = {}
  <2>1. count[p][0] = 0 /\ count[p][1] = 0
    BY DEF Init, MagInit
  <2> QED BY <2>1, NoContents DEF CacheOf
<1>3. Caches = [p \in Pairs |-> {}]
  BY <1>2 DEF Caches
<1>4. Batches = {}
  BY <1>1 DEF Batches
<1> QED BY <1>1, <1>3, <1>4 DEF BC!Init, Caches, Batches

\* Every step of the allocator is a call of BatchCache, or none.
LEMMA NextImplements ==
    ASSUME RInv, RInv', [Next]_magVars
    PROVE  [BC!Next]_(BC!vars)
<1>1. CASE UNCHANGED magVars
  BY <1>1 DEF magVars, depotVars, BC!vars, CacheOf, Contents
<1>2. ASSUME NEW c \in Cpus, mag_alloc_elem(c) PROVE [BC!Next]_(BC!vars)
  <2>1. ASSUME NEW x \in Contexts, NEW e \in Elems \cup {NULL}, AllocLocal(c, x, e)
        PROVE  \E p \in Pairs : BC!Alloc(p)
    <3>1. BC!Alloc(<<c, x>>)
      BY <2>1, AllocLocalImplements
    <3>2. <<c, x>> \in Pairs
      BY DEF Pairs
    <3> QED BY <3>1, <3>2
  <2>2. ASSUME NEW e \in Elems \cup {NULL}, switch_empty(c, e)
        PROVE  \E p \in Pairs : BC!AllocFromDepot(p)
    BY <2>2, SwitchEmptyImplements
  <2>3. CASE \/ \E x \in Contexts : AllocNeedsDepot(c, x)
             \/ switch_empty_fails(c)
             \/ SwitchEmptyNullMag(c)
    BY <2>3, QuietImplements
  <2> QED BY <1>2, <2>1, <2>2, <2>3 DEF mag_alloc_elem, BC!Next
<1>3. ASSUME NEW c \in Cpus, mag_free_elem(c) PROVE [BC!Next]_(BC!vars)
  <2>1. ASSUME NEW x \in Contexts, NEW e \in Freeable, Free(c, x, e)
        PROVE  (\E p \in Pairs : BC!Free(p)) \/ UNCHANGED BC!vars
    BY <2>1, FreeImplements
  <2>2. ASSUME switch_full(c) PROVE \E p \in Pairs : BC!FreeToDepot(p)
    BY <2>2, SwitchFullImplements
  <2>3. CASE \E x \in Contexts : FreeNullMag(c, x)
    BY <2>3, QuietImplements
  <2> QED BY <1>3, <2>1, <2>2, <2>3 DEF mag_free_elem, BC!Next
<1> QED BY <1>1, <1>2, <1>3 DEF Next

----
(* The result.                                                             *)

\* For any CPUs, elements, magazines and depth, and any kzalloc failures: each
\* call of mag_alloc_elem and mag_free_elem takes effect at one instant and does
\* there what BatchCache says, however the calls of the CPUs interleave.
THEOREM RefinesBatchCache == Spec => ImplementsBatchCache
<1>1. Init => EInv /\ BC!Init
  BY InitEInv, InitImplements
<1>2. EInv /\ [Next]_magVars => EInv'
  BY NextEInv
<1>3. EInv /\ EInv' /\ [Next]_magVars => [BC!Next]_(BC!vars)
  <2>1. EInv => RInv
    BY DEF EInv, RInv
  <2>2. EInv' => RInv'
    BY DEF EInv, RInv
  <2> QED BY <2>1, <2>2, NextImplements
<1> QED BY <1>1, <1>2, <1>3, PTL DEF Spec, ImplementsBatchCache, BC!Spec
====
