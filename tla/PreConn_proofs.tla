---- MODULE PreConn_proofs ----
(***************************************************************************)
(* Proofs about PreConn.  A connection that was put into the pool of a     *)
(* next hop is in one list or with one task, whatever refills, commands    *)
(* and SYNs do side by side.  And the pairs of QpPair, when R tasks use    *)
(* such connections: what their early sockets break, and what still holds. *)
(***************************************************************************)
EXTENDS PreConn, QpPair_proofs, FiniteSetTheorems, SequenceTheorems, WellFoundedInduction, TLAPS

JobPlaces == {"none", "connect", "insert", "add", "pooled", "failed"}
RefillPlaces == {"none", "start", "loop", "done"}
Jobs == [pc : JobPlaces, ip : Hops \cup {NULL}, cpu : Cpus \cup {NULL}]
Refills == [pc : RefillPlaces, ip : Hops \cup {NULL}, node : BOOLEAN, todo : SUBSET Cpus]

\* A task or a refill job that is under way knows its next hop and its CPUs.
JobOK(n) == job[n].pc \in {"connect", "insert", "add"} => job[n].ip \in Hops /\ job[n].cpu \in Cpus
RefillOK(j) ==
    /\ refill[j].pc \in {"start", "loop"} => refill[j].ip \in Hops
    /\ refill[j].todo \subseteq Cpus

PoolType ==
    /\ pool \in [Hops -> [Cpus -> Seq(Conns)]]
    /\ len \in [Hops -> [Cpus -> Nat]]
    /\ job \in [Conns -> Jobs]
    /\ refill \in [Pre \cup Cmds -> Refills]
    /\ conn \in [Pre -> Conns \cup {NULL}]
    /\ \A n \in Conns : JobOK(n)
    /\ \A j \in Pre \cup Cmds : RefillOK(j)

\* The places of a list.
Spots(h, c) == 1 .. Len(pool[h][c])
InList(n) == \E h \in Hops, c \in Cpus : \E i \in Spots(h, c) : pool[h][c][i] = n

\* Every connection in a list was put there by its task, and is there once.
ListsOK ==
    /\ \A h \in Hops, c \in Cpus : len[h][c] = Len(pool[h][c])
    /\ \A h \in Hops, c \in Cpus : \A i \in Spots(h, c) : job[pool[h][c][i]].pc = "pooled"
    /\ \A h, g \in Hops, c, d \in Cpus : \A i \in Spots(h, c), j \in Spots(g, d) :
          pool[h][c][i] = pool[g][d][j] => h = g /\ c = d /\ i = j

\* A connection that was taken is in no list and with one task, and a task that
\* has not asked for one has none.
TakenOK ==
    /\ \A t \in Pre : conn[t] # NULL => job[conn[t]].pc = "pooled" /\ ~InList(conn[t])
    /\ \A t, u \in Pre : conn[t] # NULL /\ conn[t] = conn[u] => t = u
    /\ \A t \in Pre : refill[t].pc = "none" => conn[t] = NULL

\* None is lost.
NoneLost == \A n \in Conns : job[n].pc = "pooled" => InList(n) \/ \E t \in Pre : conn[t] = n

PoolInv == PoolType /\ ListsOK /\ TakenOK /\ NoneLost

\* What is assumed of the constants, as the proofs use it.
LEMMA Constants ==
    /\ NULL \notin Conns /\ IsFiniteSet(Conns)
    /\ \A t \in Pre : t \in Rs /\ t \in Tasks /\ hop[t] \in Hops /\ Cpu(t) \in Cpus
BY PreConstants DEF Tasks

\* At first all pools are empty.
LEMMA InitPoolInv == PreInit => PoolInv
<1> SUFFICES ASSUME PreInit PROVE PoolInv
  OBVIOUS
<1> USE Constants, EmptySeq DEF PreInit, NoJob, NoRefill
<1>1. PoolType
  <2>1. /\ pool \in [Hops -> [Cpus -> Seq(Conns)]]
        /\ len \in [Hops -> [Cpus -> Nat]]
        /\ conn \in [Pre -> Conns \cup {NULL}]
    OBVIOUS
  <2>2. /\ job \in [Conns -> Jobs]
        /\ \A n \in Conns : JobOK(n)
    BY DEF Jobs, JobPlaces, JobOK
  <2>3. NoRefill \in Refills
    BY DEF Refills, RefillPlaces
  <2>4. refill \in [Pre \cup Cmds -> Refills]
    BY <2>3, Zenon
  <2>5. \A j \in Pre \cup Cmds : RefillOK(j)
    BY DEF RefillOK
  <2> QED BY <2>1, <2>2, <2>4, <2>5 DEF PoolType
<1>2. \A h \in Hops, c \in Cpus : pool[h][c] = <<>> /\ len[h][c] = 0 /\ Spots(h, c) = {}
  BY DEF Spots
<1>3. ListsOK
  BY <1>2 DEF ListsOK
<1>4. TakenOK /\ NoneLost
  BY DEF TakenOK, NoneLost
<1> QED BY <1>1, <1>3, <1>4 DEF PoolInv

\* A step that touches no list and pools no connection.
LEMMA SameLists ==
    ASSUME PoolInv, PoolType', UNCHANGED <<pool, len, conn>>,
           \A n \in Conns : job'[n].pc = "pooled" <=> job[n].pc = "pooled",
           \A t \in Pre : refill'[t].pc = "none" => refill[t].pc = "none"
    PROVE  PoolInv'
<1>1. \A n \in Conns : InList(n)' <=> InList(n)
  BY DEF InList, Spots
<1>2. \A h \in Hops, c \in Cpus : \A i \in Spots(h, c) : pool[h][c][i] \in Conns
  BY DEF PoolInv, PoolType, Spots
<1>3. ListsOK'
  BY <1>2 DEF PoolInv, ListsOK, Spots
<1>4. TakenOK'
  <2>1. \A t \in Pre : conn[t] # NULL => conn[t] \in Conns
    BY DEF PoolInv, PoolType
  <2> QED BY <1>1, <2>1 DEF PoolInv, TakenOK
<1>5. NoneLost'
  BY <1>1 DEF PoolInv, NoneLost
<1> QED BY <1>3, <1>4, <1>5 DEF PoolInv

\* A prealloc_connection task that goes on keeps its next hop and its CPU.
LEMMA JobGotoType ==
    ASSUME job \in [Conns -> Jobs], NEW n \in Conns, NEW place \in JobPlaces, JobGoto(n, place)
    PROVE  /\ job' \in [Conns -> Jobs]
           /\ job'[n].pc = place /\ job'[n].ip = job[n].ip /\ job'[n].cpu = job[n].cpu
           /\ \A k \in Conns : k # n => job'[k] = job[k]
<1>1. job' = [job EXCEPT ![n] = [job[n] EXCEPT !.pc = place]]
  BY DEF JobGoto
<1>2. job[n] \in Jobs
  OBVIOUS
<1>3. [job[n] EXCEPT !.pc = place] \in Jobs
  BY <1>2 DEF Jobs
<1>4. /\ [job[n] EXCEPT !.pc = place].pc = place
      /\ [job[n] EXCEPT !.pc = place].ip = job[n].ip
      /\ [job[n] EXCEPT !.pc = place].cpu = job[n].cpu
  BY <1>2 DEF Jobs
<1> QED BY <1>1, <1>3, <1>4

\* Task n goes on, or gives up.
LEMMA JobStep ==
    ASSUME PoolInv, NEW n \in Conns, UNCHANGED <<pool, len, conn, refill>>,
           job[n].pc \in {"connect", "insert"},
           GiveUp(n) \/ JobGoto(n, "add") \/ JobGoto(n, "insert")
    PROVE  PoolInv'
<1> USE Constants
<1>0. PoolType
  BY DEF PoolInv
<1>1. job' \in [Conns -> Jobs]
  <2>1. CASE GiveUp(n)
    BY <1>0, <2>1 DEF GiveUp, NoJob, PoolType, Jobs, JobPlaces
  <2>2. CASE JobGoto(n, "add") \/ JobGoto(n, "insert")
    BY <1>0, <2>2, JobGotoType DEF PoolType, JobPlaces
  <2> QED BY <2>1, <2>2
<1>2. /\ \A k \in Conns : k # n => job'[k] = job[k]
      /\ \/ job'[n].pc = "failed"
         \/ job'[n].pc \in {"add", "insert"} /\ job'[n].ip = job[n].ip /\ job'[n].cpu = job[n].cpu
  <2>1. CASE GiveUp(n)
    BY <1>0, <2>1 DEF GiveUp, NoJob, PoolType
  <2>2. CASE JobGoto(n, "add") \/ JobGoto(n, "insert")
    BY <1>0, <2>2, JobGotoType DEF PoolType, JobPlaces
  <2> QED BY <2>1, <2>2
<1>3. \A k \in Conns : JobOK(k)'
  BY <1>0, <1>2 DEF PoolType, JobOK
<1>4. PoolType'
  BY <1>0, <1>1, <1>3 DEF PoolType, RefillOK
<1>5. \A k \in Conns : job'[k].pc = "pooled" <=> job[k].pc = "pooled"
  BY <1>2
<1> QED BY <1>4, <1>5, SameLists

\* add_preconn_qp: one place more, and the connection there was in no list.
LEMMA AddPoolInv ==
    ASSUME PoolInv, NEW n \in Conns, add_preconn_qp(n)
    PROVE  PoolInv'
<1> USE Constants
<1>0. PoolType /\ ListsOK /\ TakenOK /\ NoneLost
  BY DEF PoolInv
<1>1. PICK h \in Hops, c \in Cpus : h = job[n].ip /\ c = job[n].cpu
  BY <1>0 DEF add_preconn_qp, PoolType, JobOK
<1>2. /\ job[n].pc = "add"
      /\ pool' = [pool EXCEPT ![h][c] = <<n>> \o pool[h][c]]
      /\ len' = [len EXCEPT ![h][c] = len[h][c] + 1]
      /\ JobGoto(n, "pooled")
      /\ UNCHANGED <<refill, conn>>
  BY <1>1 DEF add_preconn_qp
<1> DEFINE l == pool[h][c]
<1>3. l \in Seq(Conns) /\ <<n>> \in Seq(Conns) /\ Len(<<n>>) = 1 /\ <<n>>[1] = n
  BY <1>0 DEF PoolType
<1>4. /\ <<n>> \o l \in Seq(Conns) /\ Len(<<n>> \o l) = Len(l) + 1 /\ (<<n>> \o l)[1] = n
      /\ \A i \in 1 .. Len(l) : (<<n>> \o l)[i + 1] = l[i]
  BY <1>3
<1>5. /\ pool' \in [Hops -> [Cpus -> Seq(Conns)]]
      /\ pool'[h][c] = <<n>> \o l
      /\ \A g \in Hops, d \in Cpus : g # h \/ d # c => pool'[g][d] = pool[g][d]
  BY <1>0, <1>2, <1>4 DEF PoolType
<1>6. /\ len' \in [Hops -> [Cpus -> Nat]]
      /\ len'[h][c] = len[h][c] + 1
      /\ \A g \in Hops, d \in Cpus : g # h \/ d # c => len'[g][d] = len[g][d]
  BY <1>0, <1>2 DEF PoolType
<1>7. /\ job' \in [Conns -> Jobs] /\ job'[n].pc = "pooled"
      /\ \A k \in Conns : k # n => job'[k] = job[k]
  BY <1>0, <1>2, JobGotoType DEF PoolType, JobPlaces
<1>8. PoolType'
  <2>1. \A k \in Conns : JobOK(k)'
    BY <1>0, <1>7 DEF PoolType, JobOK
  <2> QED BY <1>0, <1>2, <1>5, <1>6, <1>7, <2>1 DEF PoolType, RefillOK
<1>9. Len(l) \in Nat /\ \A g \in Hops, d \in Cpus : Len(pool[g][d]) \in Nat /\ pool[g][d] \in Seq(Conns)
  BY <1>0, <1>3 DEF PoolType
<1> HIDE DEF l
\* Where connection k is now, other than n, it was before, one place earlier.
<1>10. \A g \in Hops, d \in Cpus : \A i \in Spots(g, d)' :
          \/ g = h /\ d = c /\ i = 1 /\ pool'[g][d][i] = n
          \/ g = h /\ d = c /\ i - 1 \in Spots(g, d) /\ pool'[g][d][i] = pool[g][d][i - 1]
          \/ (g # h \/ d # c) /\ i \in Spots(g, d) /\ pool'[g][d][i] = pool[g][d][i]
  <2> SUFFICES ASSUME NEW g \in Hops, NEW d \in Cpus, NEW i \in Spots(g, d)'
               PROVE  \/ g = h /\ d = c /\ i = 1 /\ pool'[g][d][i] = n
                      \/ g = h /\ d = c /\ i - 1 \in Spots(g, d) /\ pool'[g][d][i] = pool[g][d][i - 1]
                      \/ (g # h \/ d # c) /\ i \in Spots(g, d) /\ pool'[g][d][i] = pool[g][d][i]
    OBVIOUS
  <2>1. CASE g = h /\ d = c
    <3>1. i \in 1 .. (Len(l) + 1) /\ pool'[g][d] = <<n>> \o l /\ pool[g][d] = l
      BY <1>4, <1>5, <2>1 DEF Spots, l
    <3>2. i = 1 \/ (i - 1 \in 1 .. Len(l) /\ (i - 1) + 1 = i)
      BY <1>9, <3>1
    <3> QED BY <1>4, <2>1, <3>1, <3>2 DEF Spots
  <2>2. CASE g # h \/ d # c
    BY <1>5, <2>2 DEF Spots
  <2> QED BY <2>1, <2>2
\* And no place is lost.
<1>11. \A g \in Hops, d \in Cpus : \A i \in Spots(g, d) :
          \E j \in Spots(g, d)' : pool'[g][d][j] = pool[g][d][i]
  <2> SUFFICES ASSUME NEW g \in Hops, NEW d \in Cpus, NEW i \in Spots(g, d)
               PROVE  \E j \in Spots(g, d)' : pool'[g][d][j] = pool[g][d][i]
    OBVIOUS
  <2>1. CASE g = h /\ d = c
    <3>1. i \in 1 .. Len(l) /\ pool'[g][d] = <<n>> \o l /\ pool[g][d] = l
      BY <1>5, <2>1 DEF Spots, l
    <3>2. i + 1 \in Spots(g, d)'
      BY <1>4, <1>9, <3>1 DEF Spots
    <3> QED BY <1>4, <3>1, <3>2
  <2>2. CASE g # h \/ d # c
    BY <1>5, <2>2 DEF Spots
  <2> QED BY <2>1, <2>2
<1>12. 1 \in Spots(h, c)' /\ pool'[h][c][1] = n
  BY <1>4, <1>5, <1>9 DEF Spots
<1>13. \A k \in Conns : InList(k)' <=> InList(k) \/ k = n
  <2>1. \A k \in Conns : InList(k)' => InList(k) \/ k = n
    BY <1>10 DEF InList
  <2>2. \A k \in Conns : InList(k) \/ k = n => InList(k)'
    BY <1>11, <1>12 DEF InList
  <2> QED BY <2>1, <2>2
<1>14. \A g \in Hops, d \in Cpus : \A i \in Spots(g, d) : pool[g][d][i] \in Conns /\ pool[g][d][i] # n
  <2>1. \A g \in Hops, d \in Cpus : \A i \in Spots(g, d) : pool[g][d][i] \in Conns
    BY <1>9 DEF Spots
  <2> QED BY <1>0, <1>2, <2>1 DEF ListsOK
<1>15. ListsOK'
  <2>1. \A g \in Hops, d \in Cpus : len'[g][d] = Len(pool'[g][d])
    <3> SUFFICES ASSUME NEW g \in Hops, NEW d \in Cpus PROVE len'[g][d] = Len(pool'[g][d])
      OBVIOUS
    <3>1. CASE g = h /\ d = c
      <4>1. len[h][c] = Len(l)
        BY <1>0 DEF ListsOK, l
      <4> QED BY <1>4, <1>5, <1>6, <3>1, <4>1
    <3>2. CASE g # h \/ d # c
      <4>1. pool'[g][d] = pool[g][d] /\ len'[g][d] = len[g][d]
        BY <1>5, <1>6, <3>2
      <4>2. len[g][d] = Len(pool[g][d])
        BY <1>0 DEF ListsOK
      <4> QED BY <4>1, <4>2
    <3> QED BY <3>1, <3>2
  <2>2. \A g \in Hops, d \in Cpus : \A i \in Spots(g, d)' : job'[pool'[g][d][i]].pc = "pooled"
    BY <1>0, <1>7, <1>10, <1>14 DEF ListsOK
  <2>3. ASSUME NEW f \in Hops, NEW g \in Hops, NEW d \in Cpus, NEW e \in Cpus,
               NEW i \in Spots(f, d)', NEW j \in Spots(g, e)', pool'[f][d][i] = pool'[g][e][j]
        PROVE  f = g /\ d = e /\ i = j
    <3>1. i \in Nat /\ j \in Nat
      BY DEF Spots
    <3>2. CASE pool'[f][d][i] = n
      <4>1. f = h /\ d = c /\ i = 1
        BY <1>10, <1>14, <3>2
      <4>2. pool'[g][e][j] = n
        BY <2>3, <3>2
      <4>3. g = h /\ e = c /\ j = 1
        BY <1>10, <1>14, <4>2
      <4> QED BY <4>1, <4>3
    <3>3. CASE pool'[f][d][i] # n
      <4>1. PICK a \in Spots(f, d) : /\ pool'[f][d][i] = pool[f][d][a]
                                     /\ a = IF f = h /\ d = c THEN i - 1 ELSE i
        BY <1>10, <3>3
      <4>2. PICK b \in Spots(g, e) : /\ pool'[g][e][j] = pool[g][e][b]
                                     /\ b = IF g = h /\ e = c THEN j - 1 ELSE j
        BY <1>10, <2>3, <3>3
      <4>3. pool[f][d][a] = pool[g][e][b]
        BY <2>3, <4>1, <4>2
      <4>4. f = g /\ d = e /\ a = b
        BY <1>0, <4>3 DEF ListsOK
      <4> QED BY <3>1, <4>1, <4>2, <4>4
    <3> QED BY <3>2, <3>3
  <2> QED BY <2>1, <2>2, <2>3 DEF ListsOK
<1>16. \A t \in Pre : conn[t] # NULL => conn[t] \in Conns /\ conn[t] # n
  BY <1>0, <1>2 DEF TakenOK, PoolType
<1>17. TakenOK'
  BY <1>0, <1>2, <1>7, <1>13, <1>16 DEF TakenOK
<1>18. NoneLost'
  BY <1>0, <1>2, <1>7, <1>13 DEF NoneLost
<1> QED BY <1>8, <1>15, <1>17, <1>18 DEF PoolInv

\* A task starts its refill job.
LEMMA StartType ==
    ASSUME PoolType, NEW t \in Pre, StartRefill(t)
    PROVE  /\ refill' \in [Pre \cup Cmds -> Refills] /\ refill'[t].pc = "start"
           /\ \A j \in Pre \cup Cmds : RefillOK(j)'
           /\ \A u \in Pre : u # t => refill'[u] = refill[u]
<1> DEFINE new == [NoRefill EXCEPT !.pc = "start", !.ip = hop[t]]
<1>1. NoRefill \in Refills /\ NoRefill.todo = {}
  BY DEF NoRefill, Refills, RefillPlaces
<1>2. new \in Refills
  BY <1>1, Constants DEF Refills, RefillPlaces
<1>3. new.pc = "start" /\ new.ip = hop[t] /\ new.todo = {}
  BY <1>1 DEF Refills
<1>4. refill' = [refill EXCEPT ![t] = new] /\ refill \in [Pre \cup Cmds -> Refills]
  BY DEF StartRefill, PoolType
<1> HIDE DEF new
<1>5. /\ refill' \in [Pre \cup Cmds -> Refills] /\ refill'[t] = new
      /\ \A j \in Pre \cup Cmds : j # t => refill'[j] = refill[j]
  BY <1>2, <1>4
<1>6. \A j \in Pre \cup Cmds : RefillOK(j)'
  BY <1>3, <1>5, Constants DEF PoolType, RefillOK
<1> QED BY <1>3, <1>5, <1>6

\* alloc_prexeisting_conn takes the first place of a list; the task had none.
LEMMA TakePoolInv ==
    ASSUME PoolInv, NEW t \in Pre, AllocConn(t)
    PROVE  PoolInv'
<1> USE Constants
<1>0. PoolType /\ ListsOK /\ TakenOK /\ NoneLost
  BY DEF PoolInv
<1>1. PICK h \in Hops, c \in Cpus : h = hop[t] /\ c = Cpu(t)
  OBVIOUS
<1> DEFINE l == pool[h][c]
<1>2. /\ refill[t].pc = "none" /\ l # <<>>
      /\ pool' = [pool EXCEPT ![h][c] = Tail(l)]
      /\ len' = [len EXCEPT ![h][c] = len[h][c] - 1]
      /\ conn' = [conn EXCEPT ![t] = Head(l)]
      /\ StartRefill(t)
      /\ job' = job
  BY <1>1 DEF AllocConn, TakeFirst
<1>3. l \in Seq(Conns)
  BY <1>0 DEF PoolType
<1>4. /\ Len(l) \in Nat \ {0} /\ Head(l) \in Conns /\ Head(l) = l[1]
      /\ Tail(l) \in Seq(Conns) /\ Len(Tail(l)) = Len(l) - 1
      /\ \A i \in 1 .. (Len(l) - 1) : Tail(l)[i] = l[i + 1]
  BY <1>2, <1>3
<1>5. /\ pool' \in [Hops -> [Cpus -> Seq(Conns)]]
      /\ pool'[h][c] = Tail(l)
      /\ \A g \in Hops, d \in Cpus : g # h \/ d # c => pool'[g][d] = pool[g][d]
  BY <1>0, <1>2, <1>4 DEF PoolType
<1>6. /\ len[h][c] = Len(l)
      /\ len' \in [Hops -> [Cpus -> Nat]]
      /\ len'[h][c] = Len(l) - 1
      /\ \A g \in Hops, d \in Cpus : g # h \/ d # c => len'[g][d] = len[g][d]
  <2>1. len[h][c] = Len(l)
    BY <1>0 DEF ListsOK
  <2>2. len[h][c] - 1 \in Nat
    BY <1>4, <2>1
  <2> QED BY <1>0, <1>2, <2>1, <2>2 DEF PoolType
<1>n. PICK n \in Conns : n = Head(l)
  BY <1>4
<1>7. /\ conn' \in [Pre -> Conns \cup {NULL}] /\ conn'[t] = n
      /\ \A u \in Pre : u # t => conn'[u] = conn[u]
  BY <1>0, <1>2, <1>n DEF PoolType
<1>8. /\ refill' \in [Pre \cup Cmds -> Refills] /\ refill'[t].pc = "start"
      /\ \A j \in Pre \cup Cmds : RefillOK(j)'
      /\ \A u \in Pre : u # t => refill'[u] = refill[u]
  BY <1>0, <1>2, StartType
<1>9. PoolType'
  BY <1>0, <1>2, <1>5, <1>6, <1>7, <1>8 DEF PoolType, JobOK
<1>10. \A g \in Hops, d \in Cpus : pool[g][d] \in Seq(Conns) /\ Len(pool[g][d]) \in Nat
  BY <1>0 DEF PoolType
<1> HIDE DEF l
\* What is in a list now was there before, one place further.
<1>11. \A g \in Hops, d \in Cpus : \A i \in Spots(g, d)' :
          \/ g = h /\ d = c /\ i + 1 \in Spots(g, d) /\ pool'[g][d][i] = pool[g][d][i + 1]
          \/ (g # h \/ d # c) /\ i \in Spots(g, d) /\ pool'[g][d][i] = pool[g][d][i]
  <2> SUFFICES ASSUME NEW g \in Hops, NEW d \in Cpus, NEW i \in Spots(g, d)'
               PROVE  \/ g = h /\ d = c /\ i + 1 \in Spots(g, d) /\ pool'[g][d][i] = pool[g][d][i + 1]
                      \/ (g # h \/ d # c) /\ i \in Spots(g, d) /\ pool'[g][d][i] = pool[g][d][i]
    OBVIOUS
  <2>1. CASE g = h /\ d = c
    <3>1. i \in 1 .. (Len(l) - 1) /\ pool'[g][d] = Tail(l) /\ pool[g][d] = l
      BY <1>4, <1>5, <2>1 DEF Spots, l
    <3>2. i + 1 \in Spots(g, d)
      BY <1>4, <3>1 DEF Spots
    <3> QED BY <1>4, <2>1, <3>1, <3>2
  <2>2. CASE g # h \/ d # c
    BY <1>5, <2>2 DEF Spots
  <2> QED BY <2>1, <2>2
<1>12. 1 \in Spots(h, c) /\ pool[h][c][1] = n
  BY <1>4, <1>n DEF Spots, l
\* And what was there is, but for the connection that was taken.
<1>14. \A g \in Hops, d \in Cpus : \A i \in Spots(g, d) :
          pool[g][d][i] # n => \E j \in Spots(g, d)' : pool'[g][d][j] = pool[g][d][i]
  <2> SUFFICES ASSUME NEW g \in Hops, NEW d \in Cpus, NEW i \in Spots(g, d), pool[g][d][i] # n
               PROVE  \E j \in Spots(g, d)' : pool'[g][d][j] = pool[g][d][i]
    OBVIOUS
  <2>1. CASE g = h /\ d = c
    <3>1. i \in 1 .. Len(l) /\ pool'[g][d] = Tail(l) /\ pool[g][d] = l
      BY <1>5, <2>1 DEF Spots, l
    <3>2. i # 1
      BY <1>12, <2>1
    <3>3. i - 1 \in 1 .. (Len(l) - 1) /\ (i - 1) + 1 = i
      BY <1>4, <3>1, <3>2
    <3>4. i - 1 \in Spots(g, d)'
      BY <1>4, <3>1, <3>3 DEF Spots
    <3> QED BY <1>4, <3>1, <3>3, <3>4
  <2>2. CASE g # h \/ d # c
    BY <1>5, <2>2 DEF Spots
  <2> QED BY <2>1, <2>2
<1>15. \A g, f \in Hops, d, e \in Cpus : \A i \in Spots(g, d), j \in Spots(f, e) :
          pool[g][d][i] = pool[f][e][j] => g = f /\ d = e /\ i = j
  BY <1>0 DEF ListsOK
<1>16. ~InList(n)'
  <2> SUFFICES ASSUME NEW g \in Hops, NEW d \in Cpus, NEW i \in Spots(g, d)', pool'[g][d][i] = n
               PROVE  FALSE
    BY DEF InList
  <2>0. i \in Nat /\ i > 0
    BY DEF Spots
  <2>1. CASE g = h /\ d = c
    <3>1. i + 1 \in Spots(h, c) /\ pool[h][c][i + 1] = n
      BY <1>11, <2>1
    <3>2. i + 1 = 1
      BY <1>12, <1>15, <3>1
    <3> QED BY <2>0, <3>2
  <2>2. CASE g # h \/ d # c
    <3>1. i \in Spots(g, d) /\ pool[g][d][i] = n
      BY <1>11, <2>2
    <3> QED BY <1>12, <1>15, <2>2, <3>1
  <2> QED BY <2>1, <2>2
<1>17. \A k \in Conns : InList(k)' <=> InList(k) /\ k # n
  <2>1. \A k \in Conns : InList(k)' => InList(k)
    BY <1>11 DEF InList
  <2>2. \A k \in Conns : InList(k) /\ k # n => InList(k)'
    BY <1>14 DEF InList
  <2> QED BY <1>16, <2>1, <2>2
<1>18. ListsOK'
  <2>1. ASSUME NEW g \in Hops, NEW d \in Cpus PROVE len'[g][d] = Len(pool'[g][d])
    <3>1. CASE g = h /\ d = c
      BY <1>4, <1>5, <1>6, <3>1
    <3>2. CASE g # h \/ d # c
      <4>1. pool'[g][d] = pool[g][d] /\ len'[g][d] = len[g][d]
        BY <1>5, <1>6, <3>2
      <4>2. len[g][d] = Len(pool[g][d])
        BY <1>0 DEF ListsOK
      <4> QED BY <4>1, <4>2
    <3> QED BY <3>1, <3>2
  <2>2. \A g \in Hops, d \in Cpus : \A i \in Spots(g, d)' : job'[pool'[g][d][i]].pc = "pooled"
    <3>1. \A g \in Hops, d \in Cpus : \A i \in Spots(g, d)' :
             \E j \in Spots(g, d) : pool'[g][d][i] = pool[g][d][j]
      BY <1>11
    <3>2. \A g \in Hops, d \in Cpus : \A j \in Spots(g, d) : job[pool[g][d][j]].pc = "pooled"
      BY <1>0 DEF ListsOK
    <3>3. ASSUME NEW g \in Hops, NEW d \in Cpus, NEW i \in Spots(g, d)' PROVE job'[pool'[g][d][i]].pc = "pooled"
      <4>1. PICK j \in Spots(g, d) : pool'[g][d][i] = pool[g][d][j]
        BY <3>1
      <4> QED BY <1>2, <3>2, <4>1
    <3> QED BY <3>3
  <2>3. ASSUME NEW f \in Hops, NEW g \in Hops, NEW d \in Cpus, NEW e \in Cpus,
               NEW i \in Spots(f, d)', NEW j \in Spots(g, e)', pool'[f][d][i] = pool'[g][e][j]
        PROVE  f = g /\ d = e /\ i = j
    <3>1. i \in Nat /\ j \in Nat
      BY DEF Spots
    <3>2. PICK a \in Spots(f, d) : /\ pool'[f][d][i] = pool[f][d][a]
                                   /\ a = IF f = h /\ d = c THEN i + 1 ELSE i
      BY <1>11
    <3>3. PICK b \in Spots(g, e) : /\ pool'[g][e][j] = pool[g][e][b]
                                   /\ b = IF g = h /\ e = c THEN j + 1 ELSE j
      BY <1>11
    <3>4. pool[f][d][a] = pool[g][e][b]
      BY <2>3, <3>2, <3>3
    <3>5. f = g /\ d = e /\ a = b
      BY <1>15, <3>4
    <3> QED BY <3>1, <3>2, <3>3, <3>5
  <2> QED BY <2>1, <2>2, <2>3 DEF ListsOK
<1>19. InList(n) /\ job[n].pc = "pooled"
  BY <1>0, <1>12 DEF ListsOK, InList
<1>20. \A u \in Pre : conn[u] # NULL => conn[u] \in Conns /\ conn[u] # n
  BY <1>0, <1>19 DEF TakenOK, PoolType
<1>21. conn[t] = NULL
  BY <1>0, <1>2 DEF TakenOK
<1>22. TakenOK'
  <2>1. \A u \in Pre : conn'[u] # NULL => job'[conn'[u]].pc = "pooled" /\ ~InList(conn[u])'
    <3>1. \A u \in Pre : conn[u] # NULL => job[conn[u]].pc = "pooled" /\ ~InList(conn[u])
      BY <1>0 DEF TakenOK
    <3>2. \A k \in Conns : InList(k)' => InList(k) /\ k # n
      BY <1>17
    <3>3. ASSUME NEW u \in Pre, conn'[u] # NULL PROVE job'[conn'[u]].pc = "pooled" /\ ~InList(conn[u])'
      <4>1. PICK k \in Conns : k = conn'[u]
        BY <1>7, <1>20, <3>3
      <4>2. job'[k].pc = "pooled" /\ ~InList(k)'
        BY <1>2, <1>7, <1>19, <1>20, <3>1, <3>2, <3>3, <4>1
      <4> QED BY <4>1, <4>2 DEF InList
    <3> QED BY <3>3
  <2>2. \A u, v \in Pre : conn'[u] # NULL /\ conn'[u] = conn'[v] => u = v
    BY <1>0, <1>7, <1>20 DEF TakenOK
  <2>3. \A u \in Pre : refill'[u].pc = "none" => conn'[u] = NULL
    BY <1>0, <1>7, <1>8 DEF TakenOK
  <2> QED BY <2>1, <2>2, <2>3 DEF TakenOK
<1>23. NoneLost'
  <2> SUFFICES ASSUME NEW k \in Conns, job'[k].pc = "pooled"
               PROVE  InList(k)' \/ \E u \in Pre : conn'[u] = k
    BY DEF NoneLost
  <2>1. InList(k) \/ \E u \in Pre : conn[u] = k
    BY <1>0, <1>2 DEF NoneLost
  <2>2. \A u \in Pre : conn[u] = k => conn'[u] = k
    BY <1>7, <1>21
  <2> QED BY <1>7, <1>17, <2>1, <2>2
<1> QED BY <1>9, <1>18, <1>22, <1>23 DEF PoolInv

\* A refill job starts or goes on; connections may be started by it.
LEMMA RefillPoolInv ==
    ASSUME PoolInv, NEW j \in Pre \cup Cmds, NEW r \in Refills,
           UNCHANGED <<pool, len, conn>>, refill' = [refill EXCEPT ![j] = r],
           r.pc # "none", r.pc \in {"start", "loop"} => r.ip \in Hops,
           job' = job \/ \E h \in Hops, c \in Cpus : Spawn(h, c)
    PROVE  PoolInv'
<1> USE Constants
<1>0. PoolType
  BY DEF PoolInv
<1>1. /\ refill' \in [Pre \cup Cmds -> Refills] /\ refill'[j] = r
      /\ \A i \in Pre \cup Cmds : i # j => refill'[i] = refill[i]
  BY <1>0 DEF PoolType
<1>2. \A i \in Pre \cup Cmds : RefillOK(i)'
  <2>1. r.todo \subseteq Cpus
    BY DEF Refills
  <2> QED BY <1>0, <1>1, <2>1 DEF PoolType, RefillOK
<1>3. /\ job' \in [Conns -> Jobs]
      /\ \A n \in Conns : JobOK(n)'
      /\ \A n \in Conns : job'[n].pc = "pooled" <=> job[n].pc = "pooled"
  <2>1. CASE job' = job
    BY <1>0, <2>1 DEF PoolType, JobOK
  <2>2. CASE \E h \in Hops, c \in Cpus : Spawn(h, c)
    <3>1. PICK h \in Hops, c \in Cpus, ns \in SUBSET {n \in Conns : job[n].pc = "none"} :
            job' = [n \in Conns |-> IF n \in ns THEN [pc |-> "connect", ip |-> h, cpu |-> c] ELSE job[n]]
      BY <2>2 DEF Spawn
    <3>2. [pc |-> "connect", ip |-> h, cpu |-> c] \in Jobs
      BY DEF Jobs, JobPlaces
    <3>3. ASSUME NEW n \in Conns
          PROVE  /\ job'[n] \in Jobs /\ JobOK(n)' /\ (job'[n].pc = "pooled" <=> job[n].pc = "pooled")
      <4>1. CASE n \in ns
        <5>1. job'[n] = [pc |-> "connect", ip |-> h, cpu |-> c] /\ job[n].pc = "none"
          BY <3>1, <4>1
        <5> QED BY <3>2, <5>1 DEF JobOK
      <4>2. CASE n \notin ns
        <5>1. job'[n] = job[n] /\ job[n] \in Jobs /\ JobOK(n)
          BY <1>0, <3>1, <4>2 DEF PoolType
        <5> QED BY <5>1 DEF JobOK
      <4> QED BY <4>1, <4>2
    <3>4. job' \in [Conns -> Jobs]
      <4>1. \A n \in Conns : job'[n] \in Jobs
        BY <3>3
      <4>2. job' = [n \in Conns |-> job'[n]]
        BY <3>1
      <4> QED BY <4>1, <4>2
    <3> QED BY <3>3, <3>4
  <2> QED BY <2>1, <2>2
<1>4. PoolType'
  BY <1>0, <1>1, <1>2, <1>3 DEF PoolType
<1>5. \A t \in Pre : refill'[t].pc = "none" => refill[t].pc = "none"
  BY <1>1
<1> QED BY <1>3, <1>4, <1>5, SameLists

\* Records of refill jobs.
LEMMA RefillRecords ==
    ASSUME NEW h \in Hops
    PROVE  /\ [pc |-> "loop", ip |-> h, node |-> FALSE, todo |-> Cpus] \in Refills
           /\ [NoRefill EXCEPT !.pc = "done"] \in Refills /\ [NoRefill EXCEPT !.pc = "done"].pc = "done"
           /\ [NoRefill EXCEPT !.pc = "start", !.ip = h] \in Refills
           /\ [NoRefill EXCEPT !.pc = "start", !.ip = h].pc = "start"
           /\ [NoRefill EXCEPT !.pc = "start", !.ip = h].ip = h
<1>1. NoRefill \in Refills
  BY DEF NoRefill, Refills, RefillPlaces
<1>2. [pc |-> "loop", ip |-> h, node |-> FALSE, todo |-> Cpus] \in Refills
  BY DEF Refills, RefillPlaces
<1> QED BY <1>1, <1>2 DEF Refills, RefillPlaces

\* A step that leaves the pool alone.
LEMMA SamePools ==
    ASSUME PoolInv, UNCHANGED <<pool, len, job, refill, conn>>
    PROVE  PoolInv'
<1>1. PoolType'
  BY DEF PoolInv, PoolType, JobOK, RefillOK
<1> QED BY <1>1, SameLists

\* The pool's own steps.
LEMMA PoolStepInv ==
    ASSUME PoolInv, PoolStep
    PROVE  PoolInv'
<1> USE Constants
<1>0. PoolType
  BY DEF PoolInv
<1>1. ASSUME NEW n \in Conns, PreallocFails(n) \/ get_rb_preconn(n) \/ NoPreconnMemory(n) \/ add_rb_preconn(n)
      PROVE  PoolInv'
  BY <1>1, JobStep DEF PreallocFails, get_rb_preconn, NoPreconnMemory, add_rb_preconn
<1>2. ASSUME NEW n \in Conns, InitPreconnFails(n) PROVE PoolInv'
  <2>1. UNCHANGED <<preconn_root, pool, len, job, refill, conn>>
    BY <1>2 DEF InitPreconnFails, poolVars
  <2> QED BY <2>1, SamePools
<1>3. ASSUME NEW j \in Cmds, preconn_proc_command(j) PROVE PoolInv'
  <2>1. PICK h \in Hops : preconn_write_cb(j, h)
    BY <1>3 DEF preconn_proc_command
  <2> QED BY <2>1, RefillPoolInv, RefillRecords DEF preconn_write_cb
<1>4. ASSUME NEW j \in Pre \cup Cmds, prealloc_connection_pool(j) PROVE PoolInv'
  <2> DEFINE r == [refill[j] EXCEPT !.pc = "loop", !.node = refill[j].ip \in preconn_root, !.todo = Cpus]
  <2>1. refill[j] \in Refills /\ refill[j].ip \in Hops
    BY <1>0, <1>4 DEF PoolType, RefillOK, prealloc_connection_pool
  <2>2. refill' = [refill EXCEPT ![j] = r] /\ UNCHANGED <<pool, len, job, conn>>
    BY <1>0, <1>4 DEF prealloc_connection_pool, PoolType
  <2>3. (refill[j].ip \in preconn_root) \in BOOLEAN
    OBVIOUS
  <2>4. r \in Refills /\ r.pc = "loop" /\ r.ip = refill[j].ip
    BY <2>1, <2>3 DEF Refills, RefillPlaces
  <2> HIDE DEF r
  <2> QED BY <2>1, <2>2, <2>4, RefillPoolInv
<1>5. ASSUME NEW j \in Pre \cup Cmds, RefillCpu(j) PROVE PoolInv'
  <2>0. refill[j] \in Refills /\ refill[j].ip \in Hops /\ refill[j].pc = "loop" /\ refill[j].todo \subseteq Cpus
    BY <1>0, <1>5 DEF PoolType, RefillOK, RefillCpu
  <2>1. PICK c \in refill[j].todo :
          /\ IF BelowMax(j, c) THEN Spawn(refill[j].ip, c) ELSE UNCHANGED job
          /\ refill' = [refill EXCEPT ![j] =
                           IF refill[j].todo = {c} THEN [NoRefill EXCEPT !.pc = "done"]
                           ELSE [refill[j] EXCEPT !.todo = refill[j].todo \ {c}]]
    BY <1>5, Zenon DEF RefillCpu
  <2>6. \/ refill' = [refill EXCEPT ![j] = [NoRefill EXCEPT !.pc = "done"]]
        \/ refill' = [refill EXCEPT ![j] = [refill[j] EXCEPT !.todo = refill[j].todo \ {c}]]
    <3>1. CASE refill[j].todo = {c}
      BY <2>1, <3>1, Zenon
    <3>2. CASE refill[j].todo # {c}
      BY <2>1, <3>2, Zenon
    <3> QED BY <3>1, <3>2
  <2>2. UNCHANGED <<pool, len, conn>>
    BY <1>5 DEF RefillCpu
  <2>3. /\ [refill[j] EXCEPT !.todo = refill[j].todo \ {c}] \in Refills
        /\ [refill[j] EXCEPT !.todo = refill[j].todo \ {c}].pc = "loop"
        /\ [refill[j] EXCEPT !.todo = refill[j].todo \ {c}].ip \in Hops
    BY <2>0 DEF Refills
  <2>4. /\ [NoRefill EXCEPT !.pc = "done"] \in Refills /\ [NoRefill EXCEPT !.pc = "done"].pc = "done"
    BY <2>0, RefillRecords
  <2>5. job' = job \/ \E h \in Hops, d \in Cpus : Spawn(h, d)
    BY <2>0, <2>1, Zenon
  <2> QED BY <2>6, <2>2, <2>3, <2>4, <2>5, RefillPoolInv
<1> QED
  BY <1>1, <1>2, <1>3, <1>4, <1>5, AddPoolInv DEF PoolStep

\* An R task's steps: only the two that ask the pool for a connection matter.
LEMMA PreStepInv ==
    ASSUME PoolInv, NEW t \in Pre, PreStep(t)
    PROVE  PoolInv'
<1>1. ASSUME AllocEmpty(t) PROVE PoolInv'
  <2>1. hop[t] \in Hops
    BY Constants
  <2>2. /\ UNCHANGED <<pool, len, job, conn>>
        /\ refill' = [refill EXCEPT ![t] = [NoRefill EXCEPT !.pc = "start", !.ip = hop[t]]]
    BY <1>1 DEF AllocEmpty, StartRefill
  <2> QED BY <2>1, <2>2, RefillRecords, RefillPoolInv
<1>2. ASSUME UNCHANGED poolVars PROVE PoolInv'
  <2>1. UNCHANGED <<pool, len, job, refill, conn>>
    BY <1>2 DEF poolVars
  <2> QED BY <2>1, SamePools
<1>3. ASSUME NoListner(t) \/ PreStart(t) \/ Forward(t) \/ ForwardFails(t) \/ ForwardStale(t)
             \/ Fallback(t) \/ PreCheck(t)
      PROVE  UNCHANGED poolVars
  BY <1>3, Zenon DEF NoListner, PreStart, Forward, ForwardFails, ForwardStale, Fallback, PreCheck
<1> QED
  BY <1>1, <1>2, <1>3, TakePoolInv, Zenon DEF PreStep

\* Every step keeps PoolInv.
LEMMA NextPoolInv == PoolInv /\ [PreNext]_preVars => PoolInv'
<1> SUFFICES ASSUME PoolInv, [PreNext]_preVars PROVE PoolInv'
  OBVIOUS
<1>1. CASE PoolStep
  BY <1>1, PoolStepInv
<1>2. ASSUME NEW t \in Tasks, PlainStep(t) PROVE PoolInv'
  <2>1. UNCHANGED <<pool, len, job, refill, conn>>
    BY <1>2 DEF PlainStep, poolVars
  <2> QED BY <2>1, SamePools
<1>3. ASSUME NEW t \in Pre, PreStep(t) PROVE PoolInv'
  BY <1>3, PreStepInv
<1>4. CASE UNCHANGED preVars
  <2>1. UNCHANGED <<pool, len, job, refill, conn>>
    BY <1>4 DEF preVars, poolVars
  <2> QED BY <2>1, SamePools
<1> QED
  BY <1>1, <1>2, <1>3, <1>4 DEF PreNext

\* No list is longer than there are connections: it holds none twice.
LEMMA ListsBounded ==
    ASSUME PoolInv, NEW h \in Hops, NEW c \in Cpus
    PROVE  Len(pool[h][c]) \in Nat /\ Len(pool[h][c]) <= Cardinality(Conns)
<1> DEFINE l == pool[h][c]
<1>1. l \in Seq(Conns) /\ Len(l) \in Nat
  BY DEF PoolInv, PoolType
<1>2. l \in [1 .. Len(l) -> Conns]
  BY <1>1
<1>3. \A i, j \in 1 .. Len(l) : l[i] = l[j] => i = j
  BY DEF PoolInv, ListsOK, Spots
<1> HIDE DEF l
<1>4. l \in Injection(1 .. Len(l), Conns)
  BY <1>2, <1>3 DEF Injection, IsInjective
<1>5. Cardinality(1 .. Len(l)) <= Cardinality(Conns)
  BY <1>4, FS_Injection, Constants
<1>6. Cardinality(1 .. Len(l)) = Len(l)
  <2>1. ASSUME NEW k \in Nat PROVE Cardinality(1 .. k) = k
    <3>1. 1 \in Int /\ k \in Int
      OBVIOUS
    <3>2. Cardinality(1 .. k) = IF 1 > k THEN 0 ELSE k - 1 + 1
      BY <3>1, FS_Interval
    <3> QED BY <3>2
  <2> QED BY <1>1, <2>1
<1> QED
  BY <1>1, <1>5, <1>6 DEF l

\* PoolInv speaks of places, PooledOnce counts them.
LEMMA InvPooledOnce == PoolInv => PooledOnce
<1> SUFFICES ASSUME PoolInv PROVE PooledOnce
  OBVIOUS
<1>0. PoolType /\ ListsOK /\ TakenOK /\ NoneLost
  BY DEF PoolInv
<1>1. ASSUME NEW n \in Conns
      PROVE  /\ ListPlaces(n) # {} <=> InList(n)
             /\ \A p, r \in ListPlaces(n) : p = r
             /\ \A t, u \in Takers(n) : t = u
             /\ InList(n) => Takers(n) = {}
             /\ job[n].pc = "pooled" <=> InList(n) \/ Takers(n) # {}
  <2>1. ASSUME NEW h \in Hops, NEW c \in Cpus, NEW i \in Spots(h, c), pool[h][c][i] = n
        PROVE  <<h, c, i>> \in ListPlaces(n)
    <3>1. i \in 1 .. Cardinality(Conns)
      <4>1. Cardinality(Conns) \in Nat
        BY Constants, FS_CardinalityType
      <4> QED BY <2>1, <4>1, ListsBounded DEF Spots
    <3>2. i <= Len(pool[h][c])
      BY <2>1, ListsBounded DEF Spots
    <3> QED BY <2>1, <3>1, <3>2 DEF ListPlaces
  <2>2. ASSUME NEW p \in ListPlaces(n)
        PROVE  /\ p = <<p[1], p[2], p[3]>> /\ p[1] \in Hops /\ p[2] \in Cpus
               /\ p[3] \in Spots(p[1], p[2]) /\ pool[p[1]][p[2]][p[3]] = n
    <3>1. /\ p = <<p[1], p[2], p[3]>> /\ p[1] \in Hops /\ p[2] \in Cpus
          /\ p[3] \in 1 .. Cardinality(Conns)
          /\ p[3] <= Len(pool[p[1]][p[2]]) /\ pool[p[1]][p[2]][p[3]] = n
      BY DEF ListPlaces
    <3>2. Cardinality(Conns) \in Nat
      BY Constants, FS_CardinalityType
    <3> QED BY <3>1, <3>2, ListsBounded DEF Spots
  <2>3. ListPlaces(n) # {} <=> InList(n)
    <3>1. ASSUME NEW p \in ListPlaces(n) PROVE InList(n)
      BY <2>2 DEF InList
    <3>2. ASSUME InList(n) PROVE ListPlaces(n) # {}
      <4>1. PICK h \in Hops, c \in Cpus : \E i \in Spots(h, c) : pool[h][c][i] = n
        BY <3>2 DEF InList
      <4>2. PICK i \in Spots(h, c) : pool[h][c][i] = n
        BY <4>1
      <4>3. <<h, c, i>> \in ListPlaces(n)
        BY <2>1, <4>2
      <4> QED BY <4>3
    <3> QED BY <3>1, <3>2
  <2>4. \A p, r \in ListPlaces(n) : p = r
    <3> SUFFICES ASSUME NEW p \in ListPlaces(n), NEW r \in ListPlaces(n) PROVE p = r
      OBVIOUS
    <3>1. p[1] = r[1] /\ p[2] = r[2] /\ p[3] = r[3]
      BY <1>0, <2>2 DEF ListsOK
    <3> QED BY <2>2, <3>1
  <2>5. n # NULL
    BY Constants
  <2>6. /\ \A t, u \in Takers(n) : t = u
        /\ InList(n) => Takers(n) = {}
    BY <1>0, <2>5 DEF TakenOK, Takers
  <2>7. InList(n) => job[n].pc = "pooled"
    BY <1>0 DEF ListsOK, InList
  <2>8. job[n].pc = "pooled" <=> InList(n) \/ Takers(n) # {}
    BY <1>0, <2>5, <2>7 DEF TakenOK, NoneLost, Takers
  <2> QED BY <2>3, <2>4, <2>6, <2>8
<1>2. ASSUME NEW S, \A x, y \in S : x = y
      PROVE  Cardinality(S) = IF S = {} THEN 0 ELSE 1
  <2>1. CASE S = {}
    BY <2>1, FS_EmptySet
  <2>2. CASE S # {}
    <3>1. PICK x : x \in S
      BY <2>2
    <3>2. S = {x}
      BY <1>2, <3>1
    <3> QED BY <2>2, <3>2, FS_Singleton
  <2> QED BY <2>1, <2>2
<1>3. ASSUME NEW n \in Conns
      PROVE  Cardinality(ListPlaces(n)) + Cardinality(Takers(n))
                = (IF job[n].pc = "pooled" THEN 1 ELSE 0)
  <2>1. /\ Cardinality(ListPlaces(n)) = IF ListPlaces(n) = {} THEN 0 ELSE 1
        /\ Cardinality(Takers(n)) = IF Takers(n) = {} THEN 0 ELSE 1
    BY <1>1, <1>2
  <2> QED BY <1>1, <2>1
<1> QED
  BY <1>0, <1>3 DEF PooledOnce, ListsOK

\* A connection of the pool is in one list or with one task, for any number of
\* next hops, CPUs, tasks and commands and in every interleaving: the lists are
\* only changed with preemption disabled, by tasks of the CPU they belong to.
THEOREM PoolsKeepConnections == PreSpec => []PooledOnce
<1>1. PreSpec => []PoolInv
  BY InitPoolInv, NextPoolInv, PTL DEF PreSpec
<1> QED
  BY <1>1, InvPooledOnce, PTL
----
(* The pairs, when R tasks use connections of the pool, on a kernel that   *)
(* does not preempt.                                                       *)

\* The R tasks with a connection from a pool, and where one of them sends the
\* four-tuple ahead: its socket is in a QP of the tree, it has no reference and
\* it may sleep.
Pooled == {t \in Pre : conn[t] # NULL}
Forwarding == {"forward", "fallback"}
PreWay == UnderWay \cup Forwarding
PreAttached == Attached \cup Forwarding

PreType ==
    /\ pc \in [Tasks -> {"start", "accepted", "taken", "done"} \cup PreWay]
    /\ qp \in [Tasks -> Tasks \cup {NULL}]
    /\ mem \in [Tasks -> {"none", "live", "freed"}]
    /\ ref_cnt \in [Tasks -> Int]
    /\ tx \in [Tasks -> SockPtr] /\ rx \in [Tasks -> SockPtr]
    /\ tree \subseteq Tasks
    /\ sock \in [Tasks -> {"none", "open", "eof", "shut", "released"}]
    /\ src \in [Tasks -> Tasks \cup {NULL}] /\ dst \in [Tasks -> Tasks \cup {NULL}]
    /\ \A t \in Tasks : pc[t] \in PreWay => qp[t] \in Tasks

\* Which task can be where.
PreKinds ==
    /\ \A t \in Tasks : pc[t] = "connect" => t \in Rs
    /\ \A t \in Tasks : pc[t] = "accepted" => t \in Ls
    /\ \A t \in Tasks : pc[t] \in {"taken"} \cup Forwarding => t \in Pooled
    /\ \A t \in Pooled : pc[t] \notin {"start", "connect"}

\* As QpOwned and OwnQp of QpPair; the QP of a connection has its socket in tx.
PreOwned ==
    /\ \A q \in tree : qp[q] = q
    /\ \A t \in Tasks : pc[t] \in PreWay => qp[qp[t]] = qp[t] /\ Cpu(qp[t]) = Cpu(t)
    /\ \A t \in Tasks : pc[t] \in {"start", "accepted", "taken", "join", "adopt"} => qp[t] # t
PreOwnQp ==
    /\ \A t \in Ls : pc[t] \in {"accepted", "join", "adopt"} => rx[t] = t
    /\ \A t \in Rs : pc[t] \in {"join", "adopt"} => tx[t] = IF t \in Pooled THEN t ELSE ERR
    /\ \A t \in Tasks : pc[t] = "taken" => tx[t] = t
    /\ \A t \in Tasks : pc[t] \in {"start", "taken"} => rx[t] = NULL
    /\ \A t \in Tasks : pc[t] \in {"accepted", "taken"} => mem[t] = "live"
    /\ \A t \in Tasks : pc[t] \in {"start", "accepted"} => tx[t] = NULL

\* The connection in q can be used by its L task before its R task holds a
\* reference, or after the R task has ended without one.
Exposed(q) == tx[q] \in Pooled /\ pc[tx[q]] \in Forwarding \cup {"ready", "get_go", "done"}

\* Slots and tasks are in step; while a QP is in the tree only the L task of an
\* exposed connection has got beyond the wait.
PreSlots ==
    /\ \A l \in Ls : pc[l] \in PreAttached => rx[qp[l]] = l
    /\ \A r \in Rs : pc[r] \in PreAttached => tx[qp[r]] = r
    /\ \A r \in Rs : pc[r] = "connect" => tx[qp[r]] = ERR
    /\ \A r, s \in Rs : pc[r] = "connect" /\ pc[s] = "connect" /\ qp[r] = qp[s] => r = s
    /\ \A q \in Tasks : rx[q] \in Ls \cup {NULL} /\ tx[q] \in Rs \cup {NULL, ERR}
    /\ \A q \in Tasks : qp[q] = q /\ rx[q] # NULL => qp[rx[q]] = q /\ pc[rx[q]] \in PreAttached \cup {"done"}
    /\ \A q \in Tasks : qp[q] = q /\ tx[q] \in Rs => qp[tx[q]] = q /\ pc[tx[q]] \in PreAttached \cup {"done"}
    /\ \A q \in tree : tx[q] \in Rs => pc[tx[q]] \in InTree \cup {"wait"} \/ Exposed(q)
    /\ \A q \in tree : rx[q] # NULL =>
          \/ pc[rx[q]] \in InTree \cup {"wait"}
          \/ pc[rx[q]] \in {"check", "half_duplex", "no_mem", "done"} /\ Exposed(q)

\* What each place implies about the peer's socket and the tree.
PrePlaces ==
    /\ \A t \in Tasks : pc[t] \in InTree \cup Forwarding => qp[t] \in tree
    /\ \A t \in Tasks : pc[t] = "adopt" => Mine(t) = NULL
    /\ \A t \in Tasks : pc[t] \in {"get_wait", "timeout", "timeout_put"} => IS_ERR_OR_NULL(Peer(t))
    /\ \A t \in Tasks : pc[t] \in {"get_go", "check", "half_duplex", "no_mem"} => ~IS_ERR_OR_NULL(Peer(t))
    /\ \A t \in Tasks : pc[t] = "timeout_put" => qp[t] \notin tree
    /\ \A t \in Tasks : pc[t] \in {"check", "half_duplex", "no_mem"} =>
          qp[t] \notin tree \/ (t \in Ls /\ Exposed(qp[t]))
    /\ \A t \in Tasks : pc[t] = "wait" /\ qp[t] \notin tree => ~IS_ERR_OR_NULL(Peer(t))
    /\ \A r \in Rs : pc[r] = "connect" =>
          qp[r] \in tree \/ mem[qp[r]] = "freed" \/ \E u \in Tasks : pc[u] = "timeout_put" /\ qp[u] = qp[r]
    /\ \A t \in Tasks : pc[t] = "half_duplex" => src[t] = t /\ dst[t] = Peer(t)

\* ref_cnt counts the holders.  A QP in the tree is alive, unless its L task came,
\* copied and gave the only reference back.
Dead(q) == rx[q] # NULL /\ pc[rx[q]] = "done"
PreRefs ==
    /\ \A q \in Tasks : ref_cnt[q] = (IF LHolds(q) THEN 1 ELSE 0) + (IF RHolds(q) THEN 1 ELSE 0)
    /\ \A t \in Tasks : pc[t] \in Holds => mem[qp[t]] = "live"
    /\ \A q \in tree : ref_cnt[q] < 2 /\ mem[q] = IF Dead(q) THEN "freed" ELSE "live"

\* The tree holds no two QPs that compare equal, and what a task found compares
\* equal to its own key.
PreKeys ==
    /\ \A p, q \in tree : Cpu(p) = Cpu(q) /\ SameKey(key[p], key[q]) => p = q
    /\ \A t \in Tasks : pc[t] \in {"join", "adopt"} \cup Forwarding => SameKey(key[t], key[qp[t]])

\* A QP that was linked and not freed has the sockets in its slots.  Whatever else
\* is left of a task that ended is a connection from a pool.
PreSocks ==
    /\ \A q \in Tasks : qp[q] = q /\ mem[q] = "live" =>
          (rx[q] # NULL => sock[rx[q]] \in Here) /\ (tx[q] \in Rs => sock[tx[q]] \in Here)
    /\ \A t \in Ls : pc[t] \in {"accepted", "join", "adopt"} => sock[t] \in Here
    /\ \A t \in Pooled : pc[t] \in {"taken", "join", "adopt"} => sock[t] \in Here
    /\ \A t \in Rs \ Pooled : pc[t] \in {"start", "join", "adopt", "connect"} => sock[t] = "none"
    /\ \A t \in Ls : pc[t] = "start" => sock[t] = "none"
    /\ \A t \in Tasks \ Pooled : pc[t] = "done" /\ sock[t] \in Here =>
          \E u \in Tasks : pc[u] \in Holds /\ Peer(u) = t

\* de_tree_qp erases only nodes that are linked.
OnlyLinkedErased == oops # "rb_erase"

PairInv == PreType /\ OneBusy /\ PreKinds /\ PreOwned /\ PreOwnQp /\ PreSlots /\ PrePlaces /\ PreRefs

\* What the constants and the scheduler give to every step.
PreSetting ==
    /\ PairInv
    /\ Ls \cap Rs = {} /\ Tasks = Ls \cup Rs /\ Pooled \subseteq Rs
    /\ NULL \notin Tasks /\ ERR \notin Tasks /\ NULL # ERR
    /\ \A t, u \in Tasks : MayRun(t) /\ u # t /\ Cpu(u) = Cpu(t) => pc[u] \notin Busy
    /\ \A t \in Tasks : \A q \in Found(t) : q \in tree /\ Cpu(q) = Cpu(t)

----
(* The steps, as they act on the pairs.                                    *)

\* Nothing but the memory of a crash, an end of stream or, with the crash, a late
\* connect.
Quiet ==
    /\ UNCHANGED <<pc, qp, mem, ref_cnt, tx, rx, tree, src, dst>> /\ Pooled' = Pooled
    /\ \/ sock' = sock
       \/ \E t \in Tasks : sock[t] = "open" /\ sock' = [sock EXCEPT ![t] = "eof"]
       \/ oops' # "none" /\ \E t \in Tasks : sock' = [sock EXCEPT ![t] = "open"]

\* The task goes on and leaves everything else alone.
Move(t, from, to) ==
    /\ pc[t] = from /\ MayRun(t) /\ Goto(t, to)
    /\ UNCHANGED <<qp, mem, ref_cnt, tx, rx, tree, sock, src, dst>>

\* It links its QP, or finds another one.
Links(t, next) ==
    /\ Found(t) = {} /\ Goto(t, next)
    /\ tree' = tree \cup {t} /\ qp' = [qp EXCEPT ![t] = t]
Finds(t) ==
    /\ Goto(t, "join") /\ tree' = tree
    /\ \E q \in Found(t) : qp' = [qp EXCEPT ![t] = q]

\* It takes a connection from a pool.
Takes(t) ==
    /\ pc[t] = "start" /\ MayRun(t) /\ Goto(t, "taken") /\ Pooled' = Pooled \cup {t}
    /\ mem' = [mem EXCEPT ![t] = "live"] /\ tx' = [tx EXCEPT ![t] = t]
    /\ \E s \in {"open", "eof"} : sock' = [sock EXCEPT ![t] = s]
    /\ UNCHANGED <<qp, ref_cnt, rx, tree, src, dst>>

\* It starts to copy, or gives its reference back.
Copies(t) ==
    /\ pc[t] = "check" /\ MayRun(t) /\ Goto(t, "half_duplex")
    /\ src' = [src EXCEPT ![t] = t] /\ dst' = [dst EXCEPT ![t] = Peer(t)]
    /\ UNCHANGED <<qp, mem, ref_cnt, tx, rx, tree, sock>>
Puts(t) == pc[t] \in {"timeout_put", "half_duplex"} /\ PutAndEnd(t)

LMove(t) ==
    /\ t \in Ls
    /\ Accept(t) \/ LSetupFails(t) \/ LStart(t)
RMove(t) ==
    /\ t \in Rs \ Pooled
    /\ RStart(t) \/ RConnect(t) \/ RConnectFails(t)
PooledMove(t) ==
    /\ t \in Pooled
    /\ \/ PreStart(t) \/ Move(t, "taken", "done") \/ Move(t, "forward", "ready")
       \/ Move(t, "forward", "fallback") \/ Move(t, "fallback", "done")
PairMove(t) ==
    \/ RDrop(t) \/ JoinTest(t) \/ AdoptTo(t, IF t \in Pooled THEN "forward" ELSE "connect")
    \/ ReadyTest(t) \/ get_qp(t) \/ WaitDone(t) \/ WaitTimeout(t) \/ TimeoutDeTree(t)
    \/ Copies(t) \/ HalfDuplexNoMem(t) \/ Puts(t)
PairStep(t) ==
    \/ t \in Rs \ Pooled /\ Takes(t)
    \/ Pooled' = Pooled /\ (LMove(t) \/ RMove(t) \/ PooledMove(t) \/ PairMove(t))

\* The setting follows from the invariant.
LEMMA PreStepFacts ==
    ASSUME ~Preempt, PairInv
    PROVE  PreSetting
BY QpConstants, PreConstants DEF PreSetting, PairInv, Tasks, MayRun, Found, Pooled

\* Only alloc_prexeisting_conn changes who has a connection.
LEMMA SamePooled ==
    ASSUME UNCHANGED conn
    PROVE  Pooled' = Pooled
BY DEF Pooled

\* Steps of the pool and its jobs.
LEMMA PoolStepQuiet ==
    ASSUME PoolStep
    PROVE  Quiet
<1>1. UNCHANGED <<pc, qp, qpVars, sock, src, dst, conn>>
  BY DEF PoolStep, PreallocFails, get_rb_preconn, NoPreconnMemory, InitPreconnFails, add_rb_preconn,
         add_preconn_qp, preconn_proc_command, preconn_write_cb, prealloc_connection_pool, RefillCpu,
         vars, poolVars
<1> QED BY <1>1, SamePooled DEF Quiet, qpVars

\* What half_duplex is given: the socket of the task and that of its peer.
LEMMA CheckCopies ==
    ASSUME PreSetting, NEW t \in Tasks, Check(t) \/ PreCheck(t)
    PROVE  Copies(t)
<1> USE DEF PreSetting, PairInv
<1>1. pc[t] = "check" /\ MayRun(t) /\ Live(t)
  BY DEF Check, PreCheck
<1>2. qp[t] \in Tasks
  BY <1>1 DEF PreType, PreWay, UnderWay, Busy
<1>3. Mine(t) = t /\ ~IS_ERR_OR_NULL(Peer(t))
  BY <1>1, <1>2 DEF PreSlots, PrePlaces, PreAttached, Attached, Holds, Mine
<1>4. ~IS_ERR_OR_NULL(tx[qp[t]]) /\ ~IS_ERR_OR_NULL(rx[qp[t]])
  BY <1>3 DEF Mine, Peer, IS_ERR_OR_NULL
<1>5. CASE Check(t)
  BY <1>1, <1>3, <1>4, <1>5 DEF Check, Copies, qpVars
<1>6. CASE PreCheck(t)
  BY <1>1, <1>3, <1>6 DEF PreCheck, Copies, qpVars
<1> QED BY <1>5, <1>6

\* The steps that both kinds of R tasks and the L tasks share.
LEMMA SharedSteps ==
    ASSUME PreSetting, NEW t \in Tasks, UNCHANGED conn,
           \/ RDrop(t) \/ JoinTest(t) \/ ReadyTest(t) \/ get_qp(t) \/ WaitDone(t) \/ WaitTimeout(t)
           \/ TimeoutDeTree(t) \/ TimeoutPut(t) \/ HalfDuplexEnds(t) \/ StaleAccess(t) \/ Environment(t)
    PROVE  Quiet \/ PairStep(t)
<1>1. Pooled' = Pooled
  BY SamePooled
<1>2. CASE RDrop(t) \/ JoinTest(t) \/ ReadyTest(t) \/ get_qp(t) \/ WaitDone(t) \/ WaitTimeout(t)
           \/ TimeoutDeTree(t) \/ HalfDuplexNoMem(t)
  BY <1>1, <1>2 DEF PairStep, PairMove
<1>3. CASE TimeoutPut(t) \/ HalfDuplexSendFails(t)
  BY <1>1, <1>3 DEF PairStep, PairMove, Puts, TimeoutPut, HalfDuplexSendFails
<1>4. CASE StaleAccess(t)
  BY <1>1, <1>4 DEF StaleAccess, Quiet, qpVars
<1>5. CASE PeerCloses(t)
  BY <1>1, <1>5 DEF PeerCloses, Quiet, qpVars
<1>6. CASE HalfDuplexEnds(t)
  <2>1. CASE PutAndEnd(t)
    BY <1>1, <1>6, <2>1 DEF PairStep, PairMove, Puts, HalfDuplexEnds
  <2>2. CASE ~PutAndEnd(t)
    BY <1>1, <1>6, <2>2 DEF HalfDuplexEnds, Quiet, qpVars
  <2> QED BY <2>1, <2>2
<1> QED BY <1>2, <1>3, <1>4, <1>5, <1>6 DEF Environment

\* A task of QpPair, or an R task that found no connection.
LEMMA PlainSteps ==
    ASSUME PreSetting, NEW t \in Tasks, PlainStep(t)
    PROVE  Quiet \/ PairStep(t)
<1>0. t \notin Pooled /\ UNCHANGED conn /\ (t \in Ls \/ t \in Rs)
  BY DEF PlainStep, poolVars, Pooled, Tasks
<1>1. Pooled' = Pooled
  BY <1>0, SamePooled
<1>2. CASE t \in Ls /\ (Accept(t) \/ LSetupFails(t) \/ LStart(t))
  BY <1>1, <1>2 DEF PairStep, LMove
<1>3. CASE t \in Rs /\ (RStart(t) \/ RConnect(t) \/ RConnectFails(t))
  BY <1>0, <1>1, <1>3 DEF PairStep, RMove
<1>4. CASE LDrop(t)
  BY <1>1, <1>4 DEF LDrop, Quiet, qpVars
<1>5. CASE RLateConnect(t)
  BY <1>1, <1>5 DEF RLateConnect, Quiet, qpVars
<1>6. CASE Adopt(t)
  BY <1>0, <1>1, <1>6 DEF Adopt, PairStep, PairMove
<1>7. CASE Check(t)
  BY <1>1, <1>7, CheckCopies DEF PairStep, PairMove
<1>8. CASE \/ RDrop(t) \/ JoinTest(t) \/ ReadyTest(t) \/ get_qp(t) \/ WaitDone(t) \/ WaitTimeout(t)
           \/ TimeoutDeTree(t) \/ TimeoutPut(t) \/ HalfDuplexEnds(t) \/ StaleAccess(t) \/ Environment(t)
  BY <1>0, <1>8, SharedSteps
<1> QED BY <1>2, <1>3, <1>4, <1>5, <1>6, <1>7, <1>8 DEF PlainStep, Step, LStep, RStep

\* alloc_prexeisting_conn: the task had no connection and has one now.
LEMMA AllocTakes ==
    ASSUME PoolInv, NEW t \in Pre, AllocConn(t)
    PROVE  t \in Rs \ Pooled /\ Takes(t)
<1>1. hop[t] \in Hops /\ Cpu(t) \in Cpus /\ t \in Rs /\ NULL \notin Conns
  BY Constants
<1> DEFINE l == pool[hop[t]][Cpu(t)]
<1>2. l \in Seq(Conns) /\ l # <<>> /\ conn \in [Pre -> Conns \cup {NULL}]
  BY <1>1 DEF PoolInv, PoolType, AllocConn
<1>3. Head(l) \in Conns
  BY <1>2, HeadTailProperties
<1>4. conn' = [conn EXCEPT ![t] = Head(l)] /\ refill[t].pc = "none"
  BY DEF AllocConn, TakeFirst
<1>5. conn[t] = NULL
  BY <1>4 DEF PoolInv, TakenOK
<1>6. Pooled' = Pooled \cup {t}
  BY <1>1, <1>2, <1>3, <1>4 DEF Pooled
<1> QED
  BY <1>1, <1>5, <1>6 DEF AllocConn, TakeFirst, Takes, Pooled

\* An R task with a connection, or one that asks for it.
LEMMA PooledSteps ==
    ASSUME PreSetting, PoolInv, NEW t \in Pre, PreStep(t)
    PROVE  Quiet \/ PairStep(t)
<1>0. t \in Tasks
  BY Constants
<1>1. CASE AllocEmpty(t)
  BY <1>1, SamePooled DEF AllocEmpty, Quiet, vars, qpVars
<1>2. CASE AllocConn(t)
  BY <1>2, AllocTakes DEF PairStep
<1>3. ASSUME NoListner(t) \/ PreStart(t) \/ Forward(t) \/ ForwardFails(t) \/ ForwardStale(t) \/ Fallback(t)
      PROVE  t \in Pooled /\ Pooled' = Pooled
  <2>1. UNCHANGED conn /\ pc[t] \in {"taken", "forward", "fallback"}
    BY <1>3 DEF NoListner, PreStart, Forward, ForwardFails, ForwardStale, Fallback, poolVars
  <2> QED BY <1>0, <2>1, SamePooled DEF PreSetting, PairInv, PreKinds, Forwarding
<1>4. CASE NoListner(t)
  BY <1>3, <1>4 DEF NoListner, PairStep, PooledMove, Move, qpVars
<1>5. CASE PreStart(t)
  BY <1>3, <1>5 DEF PairStep, PooledMove
<1>6. CASE Forward(t)
  BY <1>3, <1>6 DEF Forward, PairStep, PooledMove, Move, qpVars
<1>7. CASE ForwardFails(t)
  BY <1>3, <1>7 DEF ForwardFails, PairStep, PooledMove, Move, qpVars
<1>8. CASE ForwardStale(t)
  BY <1>3, <1>8 DEF ForwardStale, Quiet, qpVars
<1>9. CASE Fallback(t)
  <2>1. CASE Goto(t, "done")
    BY <1>3, <1>9, <2>1 DEF Fallback, PairStep, PooledMove, Move, qpVars
  <2>2. CASE oops' = "stale_qp" /\ UNCHANGED pc
    BY <1>3, <1>9, <2>2 DEF Fallback, Quiet, qpVars
  <2> QED BY <1>9, <2>1, <2>2 DEF Fallback
<1>10. ASSUME conn[t] # NULL, UNCHANGED conn
       PROVE  t \in Pooled /\ Pooled' = Pooled
  BY <1>10, SamePooled DEF Pooled
<1>11. CASE conn[t] # NULL /\ PreCheck(t)
  BY <1>0, <1>10, <1>11, CheckCopies DEF PreCheck, poolVars, PairStep, PairMove
<1>12. CASE conn[t] # NULL /\ UNCHANGED poolVars /\ AdoptTo(t, "forward")
  BY <1>10, <1>12 DEF poolVars, PairStep, PairMove
<1>13. CASE /\ UNCHANGED poolVars
            /\ \/ RDrop(t) \/ JoinTest(t) \/ ReadyTest(t) \/ get_qp(t) \/ WaitDone(t) \/ WaitTimeout(t)
               \/ TimeoutDeTree(t) \/ TimeoutPut(t) \/ HalfDuplexEnds(t) \/ StaleAccess(t) \/ Environment(t)
  BY <1>0, <1>13, SharedSteps DEF poolVars
<1> QED
  BY <1>1, <1>2, <1>4, <1>5, <1>6, <1>7, <1>8, <1>9, <1>11, <1>12, <1>13 DEF PreStep

\* Every step is one of these.
LEMMA PairSteps ==
    ASSUME ~Preempt, PairInv, PoolInv, [PreNext]_preVars
    PROVE  Quiet \/ \E t \in Tasks : PairStep(t)
<1>1. PreSetting
  BY PreStepFacts
<1>2. CASE PoolStep
  BY <1>2, PoolStepQuiet
<1>3. ASSUME NEW t \in Tasks, PlainStep(t) PROVE Quiet \/ PairStep(t)
  BY <1>1, <1>3, PlainSteps
<1>4. ASSUME NEW t \in Pre, PreStep(t) PROVE t \in Tasks /\ (Quiet \/ PairStep(t))
  BY <1>1, <1>4, PooledSteps, Constants
<1>5. CASE UNCHANGED preVars
  BY <1>5, SamePooled DEF preVars, vars, qpVars, poolVars, Quiet
<1> QED BY <1>2, <1>3, <1>4, <1>5 DEF PreNext

----
(* get_qp, wait_event and put_qp on the pairs.                             *)

\* Steps that take or give back no reference leave the count right.
LEMMA PreRefsFrame ==
    ASSUME PreSetting, ref_cnt' = ref_cnt, tree' \subseteq tree,
           \A u \in Tasks : (pc'[u] \in Holds <=> pc[u] \in Holds) /\ (pc[u] \in Holds => qp'[u] = qp[u]),
           \A q \in tree : Dead(q)' <=> Dead(q),
           \A q \in Tasks : mem'[q] = mem[q] \/ (q \notin tree /\ \A u \in Tasks : pc[u] \in Holds => qp[u] # q)
    PROVE  PreRefs'
<1> USE DEF PreSetting, PairInv
<1>1. \A q \in Tasks : (LHolds(q)' <=> LHolds(q)) /\ (RHolds(q)' <=> RHolds(q))
  BY DEF LHolds, RHolds
<1>2. \A q \in Tasks : ref_cnt'[q] = (IF LHolds(q)' THEN 1 ELSE 0) + (IF RHolds(q)' THEN 1 ELSE 0)
  BY <1>1 DEF PreRefs
<1>3. \A u \in Tasks : pc'[u] \in Holds => mem'[qp'[u]] = "live"
  BY DEF PreType, PreRefs, Holds, PreWay, UnderWay, Busy
<1>4. \A q \in tree' : ref_cnt'[q] < 2 /\ mem'[q] = IF Dead(q)' THEN "freed" ELSE "live"
  BY DEF PreType, PreRefs
<1> QED BY <1>2, <1>3, <1>4 DEF PreRefs

\* The task in the other slot of a QP in the tree, when no task of the CPU is
\* between two sleeps but t: it waits, or it is an L task that copies already, or
\* an R task that holds no reference.
LEMMA PeerInTree ==
    ASSUME PreSetting, NEW t \in Tasks, MayRun(t), pc[t] \in {"get_go", "wait"}, qp[t] \in tree,
           mem[qp[t]] = "live", ~IS_ERR_OR_NULL(Peer(t))
    PROVE  LET u == Peer(t)
           IN  /\ u \in Tasks /\ (u \in Ls <=> t \in Rs) /\ qp[u] = qp[t]
               /\ \/ pc[u] = "wait"
                  \/ t \in Rs /\ pc[t] = "get_go" /\ pc[u] \in {"half_duplex", "no_mem"}
                  \/ t \in Ls /\ u \in Pooled /\ pc[u] \in Forwarding \cup {"done"}
<1> DEFINE q == qp[t]
           u == Peer(t)
<1> USE DEF PreSetting, PairInv
<1>1. q \in Tasks /\ qp[q] = q
  BY DEF PreType, PreOwned
<1>2. u \in Tasks /\ (u \in Ls <=> t \in Rs) /\ qp[u] = q
  BY <1>1 DEF PreSlots, Peer, IS_ERR_OR_NULL
<1>3. ASSUME pc[u] \in Busy PROVE FALSE
  BY <1>2, <1>3 DEF PreOwned, PreWay, UnderWay, Busy
<1>4. CASE t \in Rs
  <2>1. tx[q] = t /\ rx[q] = u /\ u # NULL
    BY <1>1, <1>2, <1>4 DEF PreSlots, PreAttached, Attached, Holds, Peer
  <2>2. ~Dead(q)
    BY <1>1 DEF PreRefs
  <2>3. pc[u] \in InTree \cup {"wait"} \/ (pc[u] \in {"check", "half_duplex", "no_mem"} /\ pc[t] # "wait")
    BY <2>1, <2>2 DEF PreSlots, Exposed, Forwarding, Dead
  <2> QED BY <1>2, <1>3, <1>4, <2>3 DEF InTree, Busy
<1>5. CASE t \in Ls
  <2>1. tx[q] = u /\ u \in Rs
    BY <1>2, <1>5 DEF Peer
  <2>2. pc[u] \in InTree \cup {"wait"} \/ Exposed(q)
    BY <2>1 DEF PreSlots
  <2> QED BY <1>2, <1>3, <1>5, <2>1, <2>2 DEF InTree, Busy, Exposed, Forwarding
<1> QED BY <1>4, <1>5

\* get_qp: the second reference takes the QP out of the tree, where it was.  An L
\* task that finds an exposed connection takes the first one and goes on.
Gets(t) ==
    LET q == qp[t]
        second == IF t \in Ls THEN RHolds(q) ELSE LHolds(q)
    IN  /\ q \in tree /\ mem[q] = "live" /\ pc[t] \in {"get_wait", "get_go"} /\ MayRun(t)
        /\ pc' = [pc EXCEPT ![t] = IF pc[t] = "get_wait" THEN "wait" ELSE "check"]
        /\ ref_cnt' = [ref_cnt EXCEPT ![q] = IF second THEN 2 ELSE 1]
        /\ tree' = IF second THEN tree \ {q} ELSE tree
        /\ IF t \in Ls THEN ~LHolds(q) ELSE ~RHolds(q)
        /\ second => pc[t] = "get_go"
        /\ pc[t] = "get_go" /\ ~second => t \in Ls /\ Exposed(q) /\ pc[tx[q]] \in Forwarding \cup {"done"}
        /\ UNCHANGED <<qp, mem, tx, rx, sock, src, dst, oops>>

\* The setting makes the step such.
LEMMA PreGetEffect ==
    ASSUME PreSetting, NEW t \in Tasks, get_qp(t)
    PROVE  Gets(t)
<1> DEFINE q == qp[t]
           u == Peer(t)
           second == IF t \in Ls THEN RHolds(q) ELSE LHolds(q)
<1> USE DEF PreSetting, PairInv
<1>1. pc[t] \in {"get_wait", "get_go"} /\ q \in tree /\ q \in Tasks /\ mem[q] = "live" /\ MayRun(t)
  BY DEF get_qp, Live, PrePlaces, InTree, PreType
<1>2. \A v \in Tasks : pc[v] \in Holds /\ qp[v] = q => v = u /\ v # t
  BY <1>1 DEF PreSlots, PreAttached, Attached, Holds, Peer
<1>3. IF t \in Ls THEN ~LHolds(q) ELSE ~RHolds(q)
  BY <1>1 DEF LHolds, RHolds, PreSlots, PreAttached, Attached, Holds
<1>4. pc[t] = "get_wait" => ~second
  BY <1>2 DEF PrePlaces, IS_ERR_OR_NULL, LHolds, RHolds
<1>5. ASSUME pc[t] = "get_go", ~second
      PROVE  t \in Ls /\ Exposed(q) /\ pc[tx[q]] \in Forwarding \cup {"done"}
  <2>1. ~IS_ERR_OR_NULL(u)
    BY <1>5 DEF PrePlaces
  <2>2. /\ u \in Tasks /\ (u \in Ls <=> t \in Rs) /\ qp[u] = q
        /\ \/ pc[u] = "wait"
           \/ t \in Rs /\ pc[u] \in {"half_duplex", "no_mem"}
           \/ t \in Ls /\ u \in Pooled /\ pc[u] \in Forwarding \cup {"done"}
    BY <1>1, <1>5, <2>1, PeerInTree
  <2>3. pc[u] \notin Holds
    BY <1>5, <2>2 DEF LHolds, RHolds
  <2> QED BY <2>2, <2>3 DEF Holds, Exposed, Peer
<1>6. ref_cnt[q] = IF second THEN 1 ELSE 0
  BY <1>1, <1>3 DEF PreRefs
<1>7. /\ pc' = [pc EXCEPT ![t] = IF pc[t] = "get_wait" THEN "wait" ELSE "check"]
      /\ ref_cnt' = [ref_cnt EXCEPT ![q] = IF second THEN 2 ELSE 1]
      /\ tree' = IF second THEN tree \ {q} ELSE tree
      /\ UNCHANGED <<qp, mem, tx, rx, sock, src, dst, oops>>
  <2>1. CASE second
    BY <1>1, <1>6, <2>1 DEF get_qp, Goto, de_tree_qp, PreType
  <2>2. CASE ~second
    BY <1>1, <1>6, <2>2 DEF get_qp, Goto, PreType
  <2> QED BY <2>1, <2>2
<1> QED BY <1>1, <1>3, <1>4, <1>5, <1>7 DEF Gets

\* wait_event ends with the QP still in the tree only in an L task, when its peer
\* has an exposed connection.
Wakes(t) ==
    /\ pc[t] = "wait" /\ MayRun(t) /\ qp[t] \in Tasks /\ ~IS_ERR_OR_NULL(Peer(t))
    /\ pc' = [pc EXCEPT ![t] = "check"]
    /\ UNCHANGED <<qp, mem, ref_cnt, tx, rx, tree, sock, src, dst>>
    /\ qp[t] \in tree => t \in Ls /\ Exposed(qp[t])

\* The setting makes the step such.
LEMMA PreWaitEffect ==
    ASSUME PreSetting, NEW t \in Tasks, WaitDone(t)
    PROVE  Wakes(t)
<1> DEFINE q == qp[t]
           u == Peer(t)
<1> USE DEF PreSetting, PairInv
<1>1. /\ pc[t] = "wait" /\ MayRun(t) /\ q \in Tasks /\ ~IS_ERR_OR_NULL(u) /\ mem[q] = "live"
      /\ pc' = [pc EXCEPT ![t] = "check"]
      /\ UNCHANGED <<qp, mem, ref_cnt, tx, rx, tree, sock, src, dst>>
  BY DEF WaitDone, Live, Goto, qpVars, PreType, PreWay, UnderWay
<1>2. ASSUME q \in tree PROVE t \in Ls /\ Exposed(q)
  <2>1. /\ u \in Tasks /\ (u \in Ls <=> t \in Rs) /\ qp[u] = q
        /\ \/ pc[u] = "wait"
           \/ t \in Ls /\ u \in Pooled /\ pc[u] \in Forwarding \cup {"done"}
    BY <1>1, <1>2, PeerInTree
  <2>2. CASE pc[u] = "wait"
    <3>1. LHolds(q) /\ RHolds(q)
      BY <1>1, <2>1, <2>2 DEF LHolds, RHolds, Holds
    <3> QED BY <1>1, <1>2, <3>1 DEF PreRefs
  <2>3. CASE t \in Ls /\ u \in Pooled /\ pc[u] \in Forwarding \cup {"done"}
    BY <2>3 DEF Exposed, Peer
  <2> QED BY <2>1, <2>2, <2>3
<1> QED BY <1>1, <1>2 DEF Wakes

\* put_qp: the task holds one of the references to a QP that is alive.  In the
\* tree it is the only one.
PutsBack(t) ==
    LET q == qp[t]
    IN  /\ q \in Tasks /\ mem[q] = "live" /\ t \in {rx[q], tx[q]} /\ pc[t] \in {"timeout_put", "half_duplex"}
        /\ \A u \in Tasks : pc[u] \in Holds /\ qp[u] = q /\ (u \in Ls <=> t \in Ls) => u = t
        /\ pc[t] = "timeout_put" => ref_cnt[q] = 1 /\ q \notin tree
        /\ q \in tree => ref_cnt[q] = 1 /\ t \in Ls /\ rx[q] = t /\ Exposed(q)
        /\ pc' = [pc EXCEPT ![t] = "done"]
        /\ ref_cnt' = [ref_cnt EXCEPT ![q] = @ - 1]
        /\ mem' = IF ref_cnt[q] = 1 THEN [mem EXCEPT ![q] = "freed"] ELSE mem
        /\ UNCHANGED <<qp, tx, rx, tree, src, dst, oops>>

\* The setting makes the step such.
LEMMA PrePutEffect ==
    ASSUME PreSetting, NEW t \in Tasks, Puts(t)
    PROVE  PutsBack(t)
<1> DEFINE q == qp[t]
<1> USE DEF PreSetting, PairInv
<1>1. pc[t] \in {"timeout_put", "half_duplex"} /\ q \in Tasks /\ mem[q] = "live"
  BY DEF Puts, PreType, PreRefs, PreWay, UnderWay, Busy, Holds
<1>2. /\ \A u \in Tasks : pc[u] \in Holds /\ qp[u] = q /\ (u \in Ls <=> t \in Ls) => u = t
      /\ t \in Ls => rx[q] = t
      /\ t \in Rs => tx[q] = t
  BY <1>1 DEF PreSlots, PreAttached, Attached, Holds
<1>3. IF t \in Ls THEN LHolds(q) ELSE RHolds(q)
  BY <1>1 DEF LHolds, RHolds, Holds
<1>4. ASSUME pc[t] = "timeout_put" PROVE ref_cnt[q] = 1 /\ q \notin tree
  <2>1. Peer(t) \in {NULL, ERR} /\ q \notin tree
    BY <1>4 DEF PrePlaces, IS_ERR_OR_NULL
  <2>2. \A u \in Tasks : pc[u] \in Holds /\ qp[u] = q => u = t
    BY <1>2, <2>1 DEF PreSlots, PreAttached, Attached, Holds, Peer
  <2>3. IF t \in Ls THEN ~RHolds(q) ELSE ~LHolds(q)
    BY <2>2 DEF LHolds, RHolds
  <2> QED BY <1>1, <1>3, <2>1, <2>3 DEF PreRefs
<1>5. ASSUME q \in tree PROVE ref_cnt[q] = 1 /\ t \in Ls /\ Exposed(q)
  <2>1. t \in Ls /\ Exposed(q)
    BY <1>1, <1>4, <1>5 DEF PrePlaces
  <2>2. ~RHolds(q)
    BY <1>1, <2>1 DEF RHolds, Exposed, Forwarding, PreSlots, PreAttached, Attached, Holds
  <2> QED BY <1>1, <1>3, <2>1, <2>2 DEF PreRefs
<1>6. ref_cnt[q] = 1 => ref_cnt[q] - 1 = 0
  OBVIOUS
<1>7. /\ pc' = [pc EXCEPT ![t] = "done"]
      /\ ref_cnt' = [ref_cnt EXCEPT ![q] = @ - 1]
      /\ mem' = IF ref_cnt[q] = 1 THEN [mem EXCEPT ![q] = "freed"] ELSE mem
      /\ UNCHANGED <<qp, tx, rx, tree, src, dst, oops>>
  BY <1>1, <1>6 DEF Puts, PutAndEnd, put_qp, Goto, PreType
<1> QED BY <1>1, <1>2, <1>4, <1>5, <1>7 DEF PutsBack

\* AdoptTo: the direction is free in a QP of the tree that is alive, and the users
\* of that QP sleep.  Nobody uses the task's own QP, which is freed.
Adopts(t) ==
    LET q == qp[t]
    IN  /\ pc[t] = "adopt" /\ MayRun(t)
        /\ q \in tree /\ q \in Tasks /\ qp[q] = q /\ q # t /\ mem[q] = "live" /\ Mine(t) = NULL
        /\ t \notin tree /\ \A u \in Tasks : pc[u] \in PreWay => qp[u] # t
        /\ \A u \in Tasks : u # t /\ pc[u] \in PreWay /\ qp[u] = q =>
              IF t \in Ls THEN u \in Rs /\ pc[u] \in {"wait", "connect"} \cup Forwarding
                          ELSE u \in Ls /\ pc[u] = "wait"
        /\ IF t \in Ls THEN rx' = [rx EXCEPT ![q] = t] /\ tx' = tx
                       ELSE rx' = rx /\ tx' = [tx EXCEPT ![q] = IF t \in Pooled THEN t ELSE ERR]
        /\ pc' = [pc EXCEPT ![t] = IF t \in Ls THEN "ready" ELSE IF t \in Pooled THEN "forward" ELSE "connect"]
        /\ mem' = [mem EXCEPT ![t] = "freed"]
        /\ UNCHANGED <<qp, ref_cnt, tree, sock, src, dst>>

\* The setting makes the step such.
LEMMA PreAdoptEffect ==
    ASSUME PreSetting, NEW t \in Tasks, AdoptTo(t, IF t \in Pooled THEN "forward" ELSE "connect")
    PROVE  Adopts(t)
<1> DEFINE q == qp[t]
<1> USE DEF PreSetting, PairInv
<1>1. pc[t] = "adopt" /\ MayRun(t) /\ mem[q] = "live" /\ q \in tree /\ q \in Tasks
  BY DEF AdoptTo, Live, PrePlaces, InTree, PreType
<1>2. qp[q] = q /\ q # t /\ Mine(t) = NULL
  BY <1>1 DEF PreOwned, PrePlaces
<1>3. t \notin tree /\ \A u \in Tasks : pc[u] \in PreWay => qp[u] # t
  BY <1>1 DEF PreOwned
<1>4. ASSUME NEW u \in Tasks, u # t, pc[u] \in PreWay, qp[u] = q
      PROVE  IF t \in Ls THEN u \in Rs /\ pc[u] \in {"wait", "connect"} \cup Forwarding
                         ELSE u \in Ls /\ pc[u] = "wait"
  <2>1. pc[u] \notin Busy
    BY <1>1, <1>4 DEF PreOwned, PreWay, UnderWay, Busy
  <2>2. CASE t \in Ls
    <3>1. rx[q] = NULL /\ u \notin Ls
      BY <1>1, <1>2, <1>4, <2>1, <2>2
      DEF Mine, PreSlots, PreKinds, PreWay, UnderWay, PreAttached, Attached, Holds, Busy
    <3>2. pc[u] \notin {"check", "half_duplex", "no_mem"}
      BY <1>4, <2>2, <3>1 DEF PrePlaces, Peer, IS_ERR_OR_NULL
    <3> QED BY <1>4, <2>1, <2>2, <3>1, <3>2 DEF PreWay, UnderWay, Busy
  <2>3. CASE t \in Rs
    <3>1. tx[q] = NULL /\ u \notin Rs
      BY <1>1, <1>2, <1>4, <2>1, <2>3
      DEF Mine, PreSlots, PreWay, UnderWay, PreAttached, Attached, Holds, Busy
    <3>2. pc[u] \notin {"check", "half_duplex", "no_mem"}
      BY <1>4, <2>3, <3>1 DEF PrePlaces, Peer, IS_ERR_OR_NULL
    <3> QED BY <1>4, <2>1, <2>3, <3>1, <3>2 DEF PreWay, UnderWay, Busy, PreKinds
  <2> QED BY <2>2, <2>3
<1>5. IF t \in Ls THEN rx[t] = t ELSE tx[t] = IF t \in Pooled THEN t ELSE ERR
  BY <1>1 DEF PreOwnQp
<1>6. /\ IF t \in Ls THEN rx' = [rx EXCEPT ![q] = t] /\ tx' = tx
                     ELSE rx' = rx /\ tx' = [tx EXCEPT ![q] = IF t \in Pooled THEN t ELSE ERR]
      /\ pc' = [pc EXCEPT ![t] = IF t \in Ls THEN "ready" ELSE IF t \in Pooled THEN "forward" ELSE "connect"]
      /\ mem' = [mem EXCEPT ![t] = "freed"]
      /\ UNCHANGED <<qp, ref_cnt, tree, sock, src, dst>>
  BY <1>5 DEF AdoptTo, Goto
<1> QED BY <1>1, <1>2, <1>3, <1>4, <1>6 DEF Adopts


\* AdoptTo takes no reference, and frees a QP that nobody refers to.
LEMMA AdoptPreRefs ==
    ASSUME PreSetting, NEW t \in Tasks, Adopts(t)
    PROVE  PreRefs'
<1> USE DEF PreSetting, PairInv, PreType
<1>1. /\ pc[t] = "adopt" /\ t \notin tree /\ pc' = [pc EXCEPT ![t] = pc'[t]]
      /\ pc'[t] \in {"ready", "forward", "connect"}
      /\ UNCHANGED <<qp, ref_cnt, tree>> /\ mem' = [mem EXCEPT ![t] = "freed"]
  BY DEF Adopts
<1>2. \A u \in Tasks : (pc'[u] \in Holds <=> pc[u] \in Holds)
  BY <1>1 DEF Holds
<1>3. \A u \in Tasks : pc[u] \in Holds => qp[u] # t
  BY DEF Adopts, PreWay, UnderWay, Busy, Holds
<1>4. \A u \in Tasks : pc'[u] = "done" <=> pc[u] = "done"
  BY <1>1
<1>5. ASSUME NEW q \in tree PROVE Dead(q)' <=> Dead(q)
  <2>1. q \in Tasks /\ rx[q] \in Tasks \cup {NULL}
    BY DEF PreSlots
  <2>2. CASE rx' = rx
    BY <1>4, <2>1, <2>2 DEF Dead
  <2>3. CASE t \in Ls
    BY <1>1, <1>4, <2>1, <2>3 DEF Adopts, Dead, Mine
  <2> QED BY <2>2, <2>3 DEF Adopts
<1>6. \A q \in Tasks : mem'[q] = mem[q] \/ (q \notin tree /\ \A u \in Tasks : pc[u] \in Holds => qp[u] # q)
  BY <1>1, <1>3
<1> HIDE DEF PreSetting, PairInv, PreType
<1> QED BY <1>1, <1>2, <1>5, <1>6, PreRefsFrame

----
(* The sockets: put_qp and AdoptTo.                                        *)

\* put_qp shuts both sockets while the peer holds the other reference and releases
\* them when nobody does.
LEMMA PutPreSocks ==
    ASSUME PreSetting, PreSocks, NEW t \in Tasks, Puts(t), PutsBack(t), Pooled' = Pooled
    PROVE  PreSocks'
<1> DEFINE q == qp[t]
           mine == {tx[q], rx[q]} \cap Tasks
<1> USE DEF PreSetting, PairInv
<1>1. /\ q \in Tasks /\ mem[q] = "live" /\ t \in mine /\ pc[t] \in Holds /\ qp[q] = q
      /\ \A u \in Tasks : pc[u] \in Holds /\ qp[u] = q /\ (u \in Ls <=> t \in Ls) => u = t
      /\ pc' = [pc EXCEPT ![t] = "done"]
      /\ mem' = IF ref_cnt[q] = 1 THEN [mem EXCEPT ![q] = "freed"] ELSE mem
      /\ UNCHANGED <<qp, tx, rx>>
      /\ pc \in [Tasks -> {"start", "accepted", "taken", "done"} \cup PreWay]
      /\ mem \in [Tasks -> {"none", "live", "freed"}]
  BY DEF PutsBack, Holds, PreOwned, PreWay, UnderWay, Busy, PreType
<1>2. \A u \in mine : qp[u] = q /\ pc[u] \in PreAttached \cup {"done"}
  BY <1>1 DEF PreSlots
<1>3. \A p \in Tasks : p # q /\ qp[p] = p => rx[p] \notin mine /\ tx[p] \notin mine
  BY <1>1, <1>2 DEF PreSlots
<1>4. \A u \in Tasks : pc[u] \in Holds /\ Peer(u) \in mine => qp[u] = q
  BY <1>2 DEF PreSlots, PreType, PreOwned, PreWay, UnderWay, Holds, Peer
<1>5. \A u \in Tasks : Peer(u)' = Peer(u) /\ (u # t => pc'[u] = pc[u])
  BY <1>1 DEF Peer
<1>6. pc'[t] = "done"
  BY <1>1
<1>7. \A u \in mine : pc[u] \notin {"start", "accepted", "taken", "join", "adopt", "connect"}
  BY <1>2 DEF PreAttached, Attached, Holds, Forwarding
<1>8. CASE ref_cnt[q] = 1
  <2>1. sock' = [u \in Tasks |-> IF u \in mine THEN "released" ELSE sock[u]]
    BY <1>8 DEF Puts, PutAndEnd, put_qp
  <2>2. mem' = [mem EXCEPT ![q] = "freed"]
    BY <1>1, <1>8
  <2>3. \A p \in Tasks : qp'[p] = p /\ mem'[p] = "live" =>
          (rx'[p] # NULL => sock'[rx'[p]] \in Here) /\ (tx'[p] \in Rs => sock'[tx'[p]] \in Here)
    <3> SUFFICES ASSUME NEW p \in Tasks, qp[p] = p, mem'[p] = "live"
                 PROVE  (rx[p] # NULL => sock'[rx[p]] \in Here) /\ (tx[p] \in Rs => sock'[tx[p]] \in Here)
      BY <1>1
    <3>1. p # q /\ mem[p] = "live"
      BY <1>1, <2>2
    <3> QED BY <1>3, <2>1, <3>1 DEF PreSocks, PreSlots
  <2>4. \A u \in Tasks : u \notin mine => sock'[u] = sock[u] /\ pc'[u] = pc[u]
    BY <1>1, <1>5, <2>1
  <2>5. \A u \in mine : sock'[u] = "released" /\ pc'[u] \notin {"start", "accepted", "taken", "join", "adopt", "connect"}
    BY <1>5, <1>6, <1>7, <2>1
  <2>6. ASSUME NEW v \in Tasks \ Pooled, pc'[v] = "done", sock'[v] \in Here
        PROVE  \E u \in Tasks : pc'[u] \in Holds /\ Peer(u)' = v
    <3>1. v \notin mine /\ pc[v] = "done" /\ sock[v] \in Here
      BY <2>4, <2>5, <2>6 DEF Here
    <3>2. PICK u \in Tasks : pc[u] \in Holds /\ Peer(u) = v
      BY <3>1 DEF PreSocks
    <3>3. u # t
      BY <3>1, <3>2 DEF Peer
    <3> QED BY <1>5, <3>2, <3>3
  <2> QED BY <2>3, <2>4, <2>5, <2>6 DEF PreSocks
<1>9. CASE ref_cnt[q] # 1
  <2>1. sock' = [u \in Tasks |-> IF u \in mine THEN "shut" ELSE sock[u]] /\ mem' = mem
    BY <1>1, <1>9 DEF Puts, PutAndEnd, put_qp
  <2>2. PICK w \in Tasks : pc[w] \in Holds /\ qp[w] = q /\ w # t /\ (w \in Ls <=> t \in Rs)
    BY <1>1, <1>9 DEF PreRefs, LHolds, RHolds
  <2>3. Peer(w) = t /\ Peer(t) = w /\ mine = {t, w}
    BY <1>1, <2>2 DEF Peer, PreSlots, PreAttached, Attached, Holds
  <2>4. \A u \in Tasks : sock[u] \in Here => sock'[u] \in Here
    BY <2>1 DEF Here
  <2>5. \A p \in Tasks : qp'[p] = p /\ mem'[p] = "live" =>
          (rx'[p] # NULL => sock'[rx'[p]] \in Here) /\ (tx'[p] \in Rs => sock'[tx'[p]] \in Here)
    <3> SUFFICES ASSUME NEW p \in Tasks, qp[p] = p, mem[p] = "live"
                 PROVE  (rx[p] # NULL => sock'[rx[p]] \in Here) /\ (tx[p] \in Rs => sock'[tx[p]] \in Here)
      BY <1>1, <2>1
    <3> QED BY <2>4 DEF PreSocks, PreSlots
  <2>6. \A u \in Tasks : u \notin mine => sock'[u] = sock[u] /\ pc'[u] = pc[u]
    BY <1>1, <1>5, <2>1
  <2>7. \A u \in mine : pc'[u] \notin {"start", "accepted", "taken", "join", "adopt", "connect"}
    BY <1>5, <1>6, <1>7
  <2>8. ASSUME NEW v \in Tasks \ Pooled, pc'[v] = "done", sock'[v] \in Here
        PROVE  \E u \in Tasks : pc'[u] \in Holds /\ Peer(u)' = v
    <3>1. CASE v = t
      BY <1>5, <2>2, <2>3, <3>1
    <3>2. CASE v # t
      <4>1. pc[v] = "done" /\ v \notin mine
        BY <1>5, <2>2, <2>3, <2>8, <3>2 DEF Holds
      <4>2. PICK u \in Tasks : pc[u] \in Holds /\ Peer(u) = v
        BY <2>6, <2>8, <4>1 DEF PreSocks
      <4>3. u # t
        BY <2>3, <4>1, <4>2
      <4> QED BY <1>5, <4>2, <4>3
    <3> QED BY <3>1, <3>2
  <2> QED BY <2>5, <2>6, <2>7, <2>8 DEF PreSocks
<1> QED BY <1>8, <1>9

\* A connection that is adopted is there.
LEMMA AdoptPreSocks ==
    ASSUME PreSetting, PreSocks, NEW t \in Pooled, Adopts(t), Pooled' = Pooled
    PROVE  PreSocks'
<1> DEFINE q == qp[t]
<1> USE DEF PreSetting, PairInv
<1>1. /\ t \in Rs /\ t \notin Ls /\ t \in Tasks /\ q \in Tasks /\ q # t /\ qp[q] = q /\ mem[q] = "live"
      /\ pc[t] = "adopt" /\ tx[q] = NULL
      /\ rx' = rx /\ tx' = [tx EXCEPT ![q] = t]
      /\ pc' = [pc EXCEPT ![t] = "forward"]
      /\ mem' = [mem EXCEPT ![t] = "freed"]
      /\ UNCHANGED <<qp, sock>>
      /\ pc \in [Tasks -> {"start", "accepted", "taken", "done"} \cup PreWay]
      /\ mem \in [Tasks -> {"none", "live", "freed"}]
      /\ tx \in [Tasks -> SockPtr]
  BY DEF Adopts, Mine, PreType
<1>2. sock[t] \in Here
  BY <1>1 DEF PreSocks
<1>3. \A p \in Tasks : qp[p] = p /\ mem'[p] = "live" =>
        (rx[p] # NULL => sock[rx[p]] \in Here) /\ (tx'[p] \in Rs => sock[tx'[p]] \in Here)
  BY <1>1, <1>2 DEF PreSocks
<1>4. \A u \in Tasks : u # t => pc'[u] = pc[u]
  BY <1>1
<1>5. pc'[t] = "forward"
  BY <1>1
<1>6. ASSUME NEW v \in Tasks \ Pooled, pc'[v] = "done", sock[v] \in Here
      PROVE  \E u \in Tasks : pc'[u] \in Holds /\ Peer(u)' = v
  <2>1. pc[v] = "done"
    BY <1>4, <1>6
  <2>2. PICK u \in Tasks : pc[u] \in Holds /\ Peer(u) = v
    BY <1>6, <2>1 DEF PreSocks
  <2>3. u # t /\ qp[u] \in Tasks
    BY <1>1, <2>2 DEF Holds, PreType, PreWay, UnderWay
  <2>4. Peer(u)' = v
    BY <1>1, <2>2, <2>3 DEF Peer
  <2> QED BY <1>4, <2>2, <2>3, <2>4
<1>7. \A u \in Tasks : pc'[u] # "forward" => pc'[u] = pc[u]
  BY <1>4, <1>5
<1> QED BY <1>1, <1>3, <1>6, <1>7 DEF PreSocks

----
(* One lemma per part of the invariant, one case per step.                 *)

\* The cases: qp_exists links the QP of the task or finds another one.
LEMMA PairStepCases ==
    ASSUME PreSetting, NEW t \in Tasks, PairStep(t)
    PROVE  \/ t \in Rs \ Pooled /\ Takes(t)
           \/ /\ Pooled' = Pooled
              /\ \/ t \in Ls /\ Accept(t)
                 \/ t \in Ls /\ LSetupFails(t)
                 \/ t \in Ls /\ LStart(t) /\ Links(t, "ready")
                 \/ t \in Ls /\ LStart(t) /\ Finds(t)
                 \/ t \in Rs \ Pooled /\ RStart(t) /\ Links(t, "connect")
                 \/ t \in Rs \ Pooled /\ RStart(t) /\ Finds(t)
                 \/ t \in Rs \ Pooled /\ RConnect(t)
                 \/ t \in Rs \ Pooled /\ RConnectFails(t)
                 \/ t \in Pooled /\ PreStart(t) /\ Links(t, "forward")
                 \/ t \in Pooled /\ PreStart(t) /\ Finds(t)
                 \/ t \in Pooled /\ Move(t, "taken", "done")
                 \/ t \in Pooled /\ Move(t, "forward", "ready")
                 \/ t \in Pooled /\ Move(t, "forward", "fallback")
                 \/ t \in Pooled /\ Move(t, "fallback", "done")
                 \/ RDrop(t)
                 \/ JoinTest(t)
                 \/ t \in Ls /\ Adopts(t)
                 \/ t \in Rs \ Pooled /\ Adopts(t)
                 \/ t \in Pooled /\ Adopts(t)
                 \/ ReadyTest(t)
                 \/ Gets(t)
                 \/ Wakes(t)
                 \/ WaitTimeout(t)
                 \/ TimeoutDeTree(t)
                 \/ Copies(t)
                 \/ HalfDuplexNoMem(t)
                 \/ Puts(t) /\ PutsBack(t)
<1>1. \A next : add_rb_data(t, next) => Links(t, next) \/ Finds(t)
  BY DEF add_rb_data, Links, Finds
<1>2. t \in Ls \/ t \in Rs \ Pooled \/ t \in Pooled
  BY DEF PreSetting
<1>3. t \in Ls => t \notin Pooled
  BY DEF PreSetting
<1>4. CASE t \in Rs \ Pooled /\ Takes(t)
  BY <1>4
<1>5. CASE Pooled' = Pooled /\ LMove(t)
  BY <1>1, <1>5 DEF LMove, LStart
<1>6. CASE Pooled' = Pooled /\ RMove(t)
  BY <1>1, <1>6 DEF RMove, RStart
<1>7. CASE Pooled' = Pooled /\ PooledMove(t)
  BY <1>1, <1>7 DEF PooledMove, PreStart
<1>8. CASE Pooled' = Pooled /\ PairMove(t)
  BY <1>2, <1>3, <1>8, PreAdoptEffect, PreGetEffect, PreWaitEffect, PrePutEffect DEF PairMove
<1> QED BY <1>4, <1>5, <1>6, <1>7, <1>8 DEF PairStep

\* Types: a task that links or finds a QP has one.
LEMMA NextPreType ==
    ASSUME PreSetting, NEW t \in Tasks, PairStep(t)
    PROVE  PreType'
<1> USE DEF PreSetting, PairInv, PreType, SockPtr, PreWay, UnderWay, Forwarding, PreAttached, Attached, Holds, InTree, Busy, PreKinds, PreOwned, PreSlots, PrePlaces
<1>1. CASE t \in Ls /\ Accept(t) /\ Pooled' = Pooled
  BY <1>1 DEF Accept, Goto, qpVars, Mine, Peer, IS_ERR_OR_NULL, Live, Exposed, Dead
<1>2. CASE t \in Ls /\ LSetupFails(t) /\ Pooled' = Pooled
  BY <1>2 DEF LSetupFails, Goto, qpVars, Mine, Peer, IS_ERR_OR_NULL, Live, Exposed, Dead
<1>3. CASE t \in Ls /\ LStart(t) /\ Links(t, "ready") /\ Pooled' = Pooled
  BY <1>3 DEF LStart, Links, Goto, qpVars, Mine, Peer, IS_ERR_OR_NULL, Live, Exposed, Dead
<1>4. CASE t \in Ls /\ LStart(t) /\ Finds(t) /\ Pooled' = Pooled
  BY <1>4 DEF LStart, Finds, Goto, qpVars, Mine, Peer, IS_ERR_OR_NULL, Live, Exposed, Dead
<1>5. CASE t \in Rs \ Pooled /\ RStart(t) /\ Links(t, "connect") /\ Pooled' = Pooled
  BY <1>5 DEF RStart, Links, Goto, qpVars, Mine, Peer, IS_ERR_OR_NULL, Live, Exposed, Dead
<1>6. CASE t \in Rs \ Pooled /\ RStart(t) /\ Finds(t) /\ Pooled' = Pooled
  BY <1>6 DEF RStart, Finds, Goto, qpVars, Mine, Peer, IS_ERR_OR_NULL, Live, Exposed, Dead
<1>7. CASE t \in Rs \ Pooled /\ RConnect(t) /\ Pooled' = Pooled
  BY <1>7 DEF RConnect, Goto, qpVars, Mine, Peer, IS_ERR_OR_NULL, Live, Exposed, Dead
<1>8. CASE t \in Rs \ Pooled /\ RConnectFails(t) /\ Pooled' = Pooled
  BY <1>8 DEF RConnectFails, Goto, qpVars, Mine, Peer, IS_ERR_OR_NULL, Live, Exposed, Dead
<1>9. CASE t \in Rs \ Pooled /\ Takes(t)
  BY <1>9 DEF Takes, Goto, qpVars, Mine, Peer, IS_ERR_OR_NULL, Live, Exposed, Dead
<1>10. CASE t \in Pooled /\ PreStart(t) /\ Links(t, "forward") /\ Pooled' = Pooled
  BY <1>10 DEF PreStart, Links, Goto, qpVars, Mine, Peer, IS_ERR_OR_NULL, Live, Exposed, Dead
<1>11. CASE t \in Pooled /\ PreStart(t) /\ Finds(t) /\ Pooled' = Pooled
  BY <1>11 DEF PreStart, Finds, Goto, qpVars, Mine, Peer, IS_ERR_OR_NULL, Live, Exposed, Dead
<1>12. CASE t \in Pooled /\ Move(t, "taken", "done") /\ Pooled' = Pooled
  BY <1>12 DEF Move, Goto, qpVars, Mine, Peer, IS_ERR_OR_NULL, Live, Exposed, Dead
<1>13. CASE t \in Pooled /\ Move(t, "forward", "ready") /\ Pooled' = Pooled
  BY <1>13 DEF Move, Goto, qpVars, Mine, Peer, IS_ERR_OR_NULL, Live, Exposed, Dead
<1>14. CASE t \in Pooled /\ Move(t, "forward", "fallback") /\ Pooled' = Pooled
  BY <1>14 DEF Move, Goto, qpVars, Mine, Peer, IS_ERR_OR_NULL, Live, Exposed, Dead
<1>15. CASE t \in Pooled /\ Move(t, "fallback", "done") /\ Pooled' = Pooled
  BY <1>15 DEF Move, Goto, qpVars, Mine, Peer, IS_ERR_OR_NULL, Live, Exposed, Dead
<1>16. CASE RDrop(t) /\ Pooled' = Pooled
  BY <1>16 DEF RDrop, Goto, qpVars, Mine, Peer, IS_ERR_OR_NULL, Live, Exposed, Dead
<1>17. CASE JoinTest(t) /\ Pooled' = Pooled
  BY <1>17 DEF JoinTest, Goto, qpVars, Mine, Peer, IS_ERR_OR_NULL, Live, Exposed, Dead
<1>18. CASE t \in Ls /\ Adopts(t) /\ Pooled' = Pooled
  BY <1>18 DEF Adopts, Goto, qpVars, Mine, Peer, IS_ERR_OR_NULL, Live, Exposed, Dead
<1>19. CASE t \in Rs \ Pooled /\ Adopts(t) /\ Pooled' = Pooled
  BY <1>19 DEF Adopts, Goto, qpVars, Mine, Peer, IS_ERR_OR_NULL, Live, Exposed, Dead
<1>20. CASE t \in Pooled /\ Adopts(t) /\ Pooled' = Pooled
  BY <1>20 DEF Adopts, Goto, qpVars, Mine, Peer, IS_ERR_OR_NULL, Live, Exposed, Dead
<1>21. CASE ReadyTest(t) /\ Pooled' = Pooled
  BY <1>21 DEF ReadyTest, Goto, qpVars, Mine, Peer, IS_ERR_OR_NULL, Live, Exposed, Dead
<1>22. CASE Gets(t) /\ Pooled' = Pooled
  BY <1>22 DEF Gets, Goto, qpVars, Mine, Peer, IS_ERR_OR_NULL, Live, Exposed, Dead
<1>23. CASE Wakes(t) /\ Pooled' = Pooled
  BY <1>23 DEF Wakes, Goto, qpVars, Mine, Peer, IS_ERR_OR_NULL, Live, Exposed, Dead
<1>24. CASE WaitTimeout(t) /\ Pooled' = Pooled
  BY <1>24 DEF WaitTimeout, Goto, qpVars, Mine, Peer, IS_ERR_OR_NULL, Live, Exposed, Dead
<1>25. CASE TimeoutDeTree(t) /\ Pooled' = Pooled
  BY <1>25 DEF TimeoutDeTree, de_tree_qp, Goto, qpVars, Mine, Peer, IS_ERR_OR_NULL, Live, Exposed, Dead
<1>26. CASE Copies(t) /\ Pooled' = Pooled
  BY <1>26 DEF Copies, Goto, qpVars, Mine, Peer, IS_ERR_OR_NULL, Live, Exposed, Dead
<1>27. CASE HalfDuplexNoMem(t) /\ Pooled' = Pooled
  BY <1>27 DEF HalfDuplexNoMem, Goto, qpVars, Mine, Peer, IS_ERR_OR_NULL, Live, Exposed, Dead
<1>28. CASE Puts(t) /\ PutsBack(t) /\ Pooled' = Pooled
  <2>1. sock' \in [Tasks -> {"none", "open", "eof", "shut", "released"}]
    BY <1>28 DEF Puts, PutAndEnd, put_qp
  <2> QED BY <1>28, <2>1 DEF PutsBack
<1> HIDE DEF PreSetting, PairInv, PreType, SockPtr, PreWay, UnderWay, Forwarding, PreAttached, Attached, Holds, InTree, Busy, PreKinds, PreOwned, PreSlots, PrePlaces
<1> QED
  BY <1>1, <1>2, <1>3, <1>4, <1>5, <1>6, <1>7, <1>8, <1>9, <1>10, <1>11, <1>12, <1>13, <1>14, <1>15, <1>16, <1>17, <1>18, <1>19, <1>20, <1>21, <1>22, <1>23, <1>24, <1>25, <1>26, <1>27, <1>28,
     PairStepCases

\* One task at a time is between two sleeps on a CPU.
LEMMA NextPreBusy ==
    ASSUME PreSetting, NEW t \in Tasks, PairStep(t)
    PROVE  OneBusy'
<1> USE DEF PreSetting, PairInv, PreType, SockPtr, PreWay, UnderWay, Forwarding, PreAttached, Attached, Holds, InTree, Busy, OneBusy
<1>1. CASE t \in Ls /\ Accept(t) /\ Pooled' = Pooled
  BY <1>1 DEF Accept, Goto, qpVars, Mine, Peer, IS_ERR_OR_NULL, Live, Exposed, Dead
<1>2. CASE t \in Ls /\ LSetupFails(t) /\ Pooled' = Pooled
  BY <1>2 DEF LSetupFails, Goto, qpVars, Mine, Peer, IS_ERR_OR_NULL, Live, Exposed, Dead
<1>3. CASE t \in Ls /\ LStart(t) /\ Links(t, "ready") /\ Pooled' = Pooled
  BY <1>3 DEF LStart, Links, Goto, qpVars, Mine, Peer, IS_ERR_OR_NULL, Live, Exposed, Dead
<1>4. CASE t \in Ls /\ LStart(t) /\ Finds(t) /\ Pooled' = Pooled
  BY <1>4 DEF LStart, Finds, Goto, qpVars, Mine, Peer, IS_ERR_OR_NULL, Live, Exposed, Dead
<1>5. CASE t \in Rs \ Pooled /\ RStart(t) /\ Links(t, "connect") /\ Pooled' = Pooled
  BY <1>5 DEF RStart, Links, Goto, qpVars, Mine, Peer, IS_ERR_OR_NULL, Live, Exposed, Dead
<1>6. CASE t \in Rs \ Pooled /\ RStart(t) /\ Finds(t) /\ Pooled' = Pooled
  BY <1>6 DEF RStart, Finds, Goto, qpVars, Mine, Peer, IS_ERR_OR_NULL, Live, Exposed, Dead
<1>7. CASE t \in Rs \ Pooled /\ RConnect(t) /\ Pooled' = Pooled
  BY <1>7 DEF RConnect, Goto, qpVars, Mine, Peer, IS_ERR_OR_NULL, Live, Exposed, Dead
<1>8. CASE t \in Rs \ Pooled /\ RConnectFails(t) /\ Pooled' = Pooled
  BY <1>8 DEF RConnectFails, Goto, qpVars, Mine, Peer, IS_ERR_OR_NULL, Live, Exposed, Dead
<1>9. CASE t \in Rs \ Pooled /\ Takes(t)
  BY <1>9 DEF Takes, Goto, qpVars, Mine, Peer, IS_ERR_OR_NULL, Live, Exposed, Dead
<1>10. CASE t \in Pooled /\ PreStart(t) /\ Links(t, "forward") /\ Pooled' = Pooled
  BY <1>10 DEF PreStart, Links, Goto, qpVars, Mine, Peer, IS_ERR_OR_NULL, Live, Exposed, Dead
<1>11. CASE t \in Pooled /\ PreStart(t) /\ Finds(t) /\ Pooled' = Pooled
  BY <1>11 DEF PreStart, Finds, Goto, qpVars, Mine, Peer, IS_ERR_OR_NULL, Live, Exposed, Dead
<1>12. CASE t \in Pooled /\ Move(t, "taken", "done") /\ Pooled' = Pooled
  BY <1>12 DEF Move, Goto, qpVars, Mine, Peer, IS_ERR_OR_NULL, Live, Exposed, Dead
<1>13. CASE t \in Pooled /\ Move(t, "forward", "ready") /\ Pooled' = Pooled
  BY <1>13 DEF Move, Goto, qpVars, Mine, Peer, IS_ERR_OR_NULL, Live, Exposed, Dead
<1>14. CASE t \in Pooled /\ Move(t, "forward", "fallback") /\ Pooled' = Pooled
  BY <1>14 DEF Move, Goto, qpVars, Mine, Peer, IS_ERR_OR_NULL, Live, Exposed, Dead
<1>15. CASE t \in Pooled /\ Move(t, "fallback", "done") /\ Pooled' = Pooled
  BY <1>15 DEF Move, Goto, qpVars, Mine, Peer, IS_ERR_OR_NULL, Live, Exposed, Dead
<1>16. CASE RDrop(t) /\ Pooled' = Pooled
  BY <1>16 DEF RDrop, Goto, qpVars, Mine, Peer, IS_ERR_OR_NULL, Live, Exposed, Dead
<1>17. CASE JoinTest(t) /\ Pooled' = Pooled
  BY <1>17 DEF JoinTest, Goto, qpVars, Mine, Peer, IS_ERR_OR_NULL, Live, Exposed, Dead
<1>18. CASE t \in Ls /\ Adopts(t) /\ Pooled' = Pooled
  BY <1>18 DEF Adopts, Goto, qpVars, Mine, Peer, IS_ERR_OR_NULL, Live, Exposed, Dead
<1>19. CASE t \in Rs \ Pooled /\ Adopts(t) /\ Pooled' = Pooled
  BY <1>19 DEF Adopts, Goto, qpVars, Mine, Peer, IS_ERR_OR_NULL, Live, Exposed, Dead
<1>20. CASE t \in Pooled /\ Adopts(t) /\ Pooled' = Pooled
  BY <1>20 DEF Adopts, Goto, qpVars, Mine, Peer, IS_ERR_OR_NULL, Live, Exposed, Dead
<1>21. CASE ReadyTest(t) /\ Pooled' = Pooled
  BY <1>21 DEF ReadyTest, Goto, qpVars, Mine, Peer, IS_ERR_OR_NULL, Live, Exposed, Dead
<1>22. CASE Gets(t) /\ Pooled' = Pooled
  BY <1>22 DEF Gets, Goto, qpVars, Mine, Peer, IS_ERR_OR_NULL, Live, Exposed, Dead
<1>23. CASE Wakes(t) /\ Pooled' = Pooled
  BY <1>23 DEF Wakes, Goto, qpVars, Mine, Peer, IS_ERR_OR_NULL, Live, Exposed, Dead
<1>24. CASE WaitTimeout(t) /\ Pooled' = Pooled
  BY <1>24 DEF WaitTimeout, Goto, qpVars, Mine, Peer, IS_ERR_OR_NULL, Live, Exposed, Dead
<1>25. CASE TimeoutDeTree(t) /\ Pooled' = Pooled
  BY <1>25 DEF TimeoutDeTree, de_tree_qp, Goto, qpVars, Mine, Peer, IS_ERR_OR_NULL, Live, Exposed, Dead
<1>26. CASE Copies(t) /\ Pooled' = Pooled
  BY <1>26 DEF Copies, Goto, qpVars, Mine, Peer, IS_ERR_OR_NULL, Live, Exposed, Dead
<1>27. CASE HalfDuplexNoMem(t) /\ Pooled' = Pooled
  BY <1>27 DEF HalfDuplexNoMem, Goto, qpVars, Mine, Peer, IS_ERR_OR_NULL, Live, Exposed, Dead
<1>28. CASE Puts(t) /\ PutsBack(t) /\ Pooled' = Pooled
  BY <1>28 DEF PutsBack, Goto, qpVars, Mine, Peer, IS_ERR_OR_NULL, Live, Exposed, Dead
<1> HIDE DEF PreSetting, PairInv, PreType, SockPtr, PreWay, UnderWay, Forwarding, PreAttached, Attached, Holds, InTree, Busy, OneBusy
<1> QED
  BY <1>1, <1>2, <1>3, <1>4, <1>5, <1>6, <1>7, <1>8, <1>9, <1>10, <1>11, <1>12, <1>13, <1>14, <1>15, <1>16, <1>17, <1>18, <1>19, <1>20, <1>21, <1>22, <1>23, <1>24, <1>25, <1>26, <1>27, <1>28,
     PairStepCases

\* Tasks stay in the places of their kind.
LEMMA NextPreKinds ==
    ASSUME PreSetting, NEW t \in Tasks, PairStep(t)
    PROVE  PreKinds'
<1> USE DEF PreSetting, PairInv, PreType, SockPtr, PreWay, UnderWay, Forwarding, PreAttached, Attached, Holds, InTree, Busy, PreKinds
<1>1. CASE t \in Ls /\ Accept(t) /\ Pooled' = Pooled
  BY <1>1 DEF Accept, Goto, qpVars, Mine, Peer, IS_ERR_OR_NULL, Live, Exposed, Dead
<1>2. CASE t \in Ls /\ LSetupFails(t) /\ Pooled' = Pooled
  BY <1>2 DEF LSetupFails, Goto, qpVars, Mine, Peer, IS_ERR_OR_NULL, Live, Exposed, Dead
<1>3. CASE t \in Ls /\ LStart(t) /\ Links(t, "ready") /\ Pooled' = Pooled
  BY <1>3 DEF LStart, Links, Goto, qpVars, Mine, Peer, IS_ERR_OR_NULL, Live, Exposed, Dead
<1>4. CASE t \in Ls /\ LStart(t) /\ Finds(t) /\ Pooled' = Pooled
  BY <1>4 DEF LStart, Finds, Goto, qpVars, Mine, Peer, IS_ERR_OR_NULL, Live, Exposed, Dead
<1>5. CASE t \in Rs \ Pooled /\ RStart(t) /\ Links(t, "connect") /\ Pooled' = Pooled
  BY <1>5 DEF RStart, Links, Goto, qpVars, Mine, Peer, IS_ERR_OR_NULL, Live, Exposed, Dead
<1>6. CASE t \in Rs \ Pooled /\ RStart(t) /\ Finds(t) /\ Pooled' = Pooled
  BY <1>6 DEF RStart, Finds, Goto, qpVars, Mine, Peer, IS_ERR_OR_NULL, Live, Exposed, Dead
<1>7. CASE t \in Rs \ Pooled /\ RConnect(t) /\ Pooled' = Pooled
  BY <1>7 DEF RConnect, Goto, qpVars, Mine, Peer, IS_ERR_OR_NULL, Live, Exposed, Dead
<1>8. CASE t \in Rs \ Pooled /\ RConnectFails(t) /\ Pooled' = Pooled
  BY <1>8 DEF RConnectFails, Goto, qpVars, Mine, Peer, IS_ERR_OR_NULL, Live, Exposed, Dead
<1>9. CASE t \in Rs \ Pooled /\ Takes(t)
  BY <1>9 DEF Takes, Goto, qpVars, Mine, Peer, IS_ERR_OR_NULL, Live, Exposed, Dead
<1>10. CASE t \in Pooled /\ PreStart(t) /\ Links(t, "forward") /\ Pooled' = Pooled
  BY <1>10 DEF PreStart, Links, Goto, qpVars, Mine, Peer, IS_ERR_OR_NULL, Live, Exposed, Dead
<1>11. CASE t \in Pooled /\ PreStart(t) /\ Finds(t) /\ Pooled' = Pooled
  BY <1>11 DEF PreStart, Finds, Goto, qpVars, Mine, Peer, IS_ERR_OR_NULL, Live, Exposed, Dead
<1>12. CASE t \in Pooled /\ Move(t, "taken", "done") /\ Pooled' = Pooled
  BY <1>12 DEF Move, Goto, qpVars, Mine, Peer, IS_ERR_OR_NULL, Live, Exposed, Dead
<1>13. CASE t \in Pooled /\ Move(t, "forward", "ready") /\ Pooled' = Pooled
  BY <1>13 DEF Move, Goto, qpVars, Mine, Peer, IS_ERR_OR_NULL, Live, Exposed, Dead
<1>14. CASE t \in Pooled /\ Move(t, "forward", "fallback") /\ Pooled' = Pooled
  BY <1>14 DEF Move, Goto, qpVars, Mine, Peer, IS_ERR_OR_NULL, Live, Exposed, Dead
<1>15. CASE t \in Pooled /\ Move(t, "fallback", "done") /\ Pooled' = Pooled
  BY <1>15 DEF Move, Goto, qpVars, Mine, Peer, IS_ERR_OR_NULL, Live, Exposed, Dead
<1>16. CASE RDrop(t) /\ Pooled' = Pooled
  BY <1>16 DEF RDrop, Goto, qpVars, Mine, Peer, IS_ERR_OR_NULL, Live, Exposed, Dead
<1>17. CASE JoinTest(t) /\ Pooled' = Pooled
  BY <1>17 DEF JoinTest, Goto, qpVars, Mine, Peer, IS_ERR_OR_NULL, Live, Exposed, Dead
<1>18. CASE t \in Ls /\ Adopts(t) /\ Pooled' = Pooled
  BY <1>18 DEF Adopts, Goto, qpVars, Mine, Peer, IS_ERR_OR_NULL, Live, Exposed, Dead
<1>19. CASE t \in Rs \ Pooled /\ Adopts(t) /\ Pooled' = Pooled
  BY <1>19 DEF Adopts, Goto, qpVars, Mine, Peer, IS_ERR_OR_NULL, Live, Exposed, Dead
<1>20. CASE t \in Pooled /\ Adopts(t) /\ Pooled' = Pooled
  BY <1>20 DEF Adopts, Goto, qpVars, Mine, Peer, IS_ERR_OR_NULL, Live, Exposed, Dead
<1>21. CASE ReadyTest(t) /\ Pooled' = Pooled
  BY <1>21 DEF ReadyTest, Goto, qpVars, Mine, Peer, IS_ERR_OR_NULL, Live, Exposed, Dead
<1>22. CASE Gets(t) /\ Pooled' = Pooled
  BY <1>22 DEF Gets, Goto, qpVars, Mine, Peer, IS_ERR_OR_NULL, Live, Exposed, Dead
<1>23. CASE Wakes(t) /\ Pooled' = Pooled
  BY <1>23 DEF Wakes, Goto, qpVars, Mine, Peer, IS_ERR_OR_NULL, Live, Exposed, Dead
<1>24. CASE WaitTimeout(t) /\ Pooled' = Pooled
  BY <1>24 DEF WaitTimeout, Goto, qpVars, Mine, Peer, IS_ERR_OR_NULL, Live, Exposed, Dead
<1>25. CASE TimeoutDeTree(t) /\ Pooled' = Pooled
  BY <1>25 DEF TimeoutDeTree, de_tree_qp, Goto, qpVars, Mine, Peer, IS_ERR_OR_NULL, Live, Exposed, Dead
<1>26. CASE Copies(t) /\ Pooled' = Pooled
  BY <1>26 DEF Copies, Goto, qpVars, Mine, Peer, IS_ERR_OR_NULL, Live, Exposed, Dead
<1>27. CASE HalfDuplexNoMem(t) /\ Pooled' = Pooled
  BY <1>27 DEF HalfDuplexNoMem, Goto, qpVars, Mine, Peer, IS_ERR_OR_NULL, Live, Exposed, Dead
<1>28. CASE Puts(t) /\ PutsBack(t) /\ Pooled' = Pooled
  BY <1>28 DEF PutsBack, Goto, qpVars, Mine, Peer, IS_ERR_OR_NULL, Live, Exposed, Dead
<1> HIDE DEF PreSetting, PairInv, PreType, SockPtr, PreWay, UnderWay, Forwarding, PreAttached, Attached, Holds, InTree, Busy, PreKinds
<1> QED
  BY <1>1, <1>2, <1>3, <1>4, <1>5, <1>6, <1>7, <1>8, <1>9, <1>10, <1>11, <1>12, <1>13, <1>14, <1>15, <1>16, <1>17, <1>18, <1>19, <1>20, <1>21, <1>22, <1>23, <1>24, <1>25, <1>26, <1>27, <1>28,
     PairStepCases

\* A task uses its own QP, once linked, or one it found in the tree of its CPU.
LEMMA NextPreOwned ==
    ASSUME PreSetting, NEW t \in Tasks, PairStep(t)
    PROVE  PreOwned'
<1> USE DEF PreSetting, PairInv, PreType, SockPtr, PreWay, UnderWay, Forwarding, PreAttached, Attached, Holds, InTree, Busy, PreKinds, PreOwned
<1>1. CASE t \in Ls /\ Accept(t) /\ Pooled' = Pooled
  BY <1>1 DEF Accept, Goto, qpVars, Mine, Peer, IS_ERR_OR_NULL, Live, Exposed, Dead
<1>2. CASE t \in Ls /\ LSetupFails(t) /\ Pooled' = Pooled
  BY <1>2 DEF LSetupFails, Goto, qpVars, Mine, Peer, IS_ERR_OR_NULL, Live, Exposed, Dead
<1>3. CASE t \in Ls /\ LStart(t) /\ Links(t, "ready") /\ Pooled' = Pooled
  BY <1>3 DEF LStart, Links, Goto, qpVars, Mine, Peer, IS_ERR_OR_NULL, Live, Exposed, Dead
<1>4. CASE t \in Ls /\ LStart(t) /\ Finds(t) /\ Pooled' = Pooled
  BY <1>4 DEF LStart, Finds, Goto, qpVars, Mine, Peer, IS_ERR_OR_NULL, Live, Exposed, Dead
<1>5. CASE t \in Rs \ Pooled /\ RStart(t) /\ Links(t, "connect") /\ Pooled' = Pooled
  BY <1>5 DEF RStart, Links, Goto, qpVars, Mine, Peer, IS_ERR_OR_NULL, Live, Exposed, Dead
<1>6. CASE t \in Rs \ Pooled /\ RStart(t) /\ Finds(t) /\ Pooled' = Pooled
  BY <1>6 DEF RStart, Finds, Goto, qpVars, Mine, Peer, IS_ERR_OR_NULL, Live, Exposed, Dead
<1>7. CASE t \in Rs \ Pooled /\ RConnect(t) /\ Pooled' = Pooled
  BY <1>7 DEF RConnect, Goto, qpVars, Mine, Peer, IS_ERR_OR_NULL, Live, Exposed, Dead
<1>8. CASE t \in Rs \ Pooled /\ RConnectFails(t) /\ Pooled' = Pooled
  BY <1>8 DEF RConnectFails, Goto, qpVars, Mine, Peer, IS_ERR_OR_NULL, Live, Exposed, Dead
<1>9. CASE t \in Rs \ Pooled /\ Takes(t)
  BY <1>9 DEF Takes, Goto, qpVars, Mine, Peer, IS_ERR_OR_NULL, Live, Exposed, Dead
<1>10. CASE t \in Pooled /\ PreStart(t) /\ Links(t, "forward") /\ Pooled' = Pooled
  BY <1>10 DEF PreStart, Links, Goto, qpVars, Mine, Peer, IS_ERR_OR_NULL, Live, Exposed, Dead
<1>11. CASE t \in Pooled /\ PreStart(t) /\ Finds(t) /\ Pooled' = Pooled
  BY <1>11 DEF PreStart, Finds, Goto, qpVars, Mine, Peer, IS_ERR_OR_NULL, Live, Exposed, Dead
<1>12. CASE t \in Pooled /\ Move(t, "taken", "done") /\ Pooled' = Pooled
  BY <1>12 DEF Move, Goto, qpVars, Mine, Peer, IS_ERR_OR_NULL, Live, Exposed, Dead
<1>13. CASE t \in Pooled /\ Move(t, "forward", "ready") /\ Pooled' = Pooled
  BY <1>13 DEF Move, Goto, qpVars, Mine, Peer, IS_ERR_OR_NULL, Live, Exposed, Dead
<1>14. CASE t \in Pooled /\ Move(t, "forward", "fallback") /\ Pooled' = Pooled
  BY <1>14 DEF Move, Goto, qpVars, Mine, Peer, IS_ERR_OR_NULL, Live, Exposed, Dead
<1>15. CASE t \in Pooled /\ Move(t, "fallback", "done") /\ Pooled' = Pooled
  BY <1>15 DEF Move, Goto, qpVars, Mine, Peer, IS_ERR_OR_NULL, Live, Exposed, Dead
<1>16. CASE RDrop(t) /\ Pooled' = Pooled
  BY <1>16 DEF RDrop, Goto, qpVars, Mine, Peer, IS_ERR_OR_NULL, Live, Exposed, Dead
<1>17. CASE JoinTest(t) /\ Pooled' = Pooled
  BY <1>17 DEF JoinTest, Goto, qpVars, Mine, Peer, IS_ERR_OR_NULL, Live, Exposed, Dead
<1>18. CASE t \in Ls /\ Adopts(t) /\ Pooled' = Pooled
  BY <1>18 DEF Adopts, Goto, qpVars, Mine, Peer, IS_ERR_OR_NULL, Live, Exposed, Dead
<1>19. CASE t \in Rs \ Pooled /\ Adopts(t) /\ Pooled' = Pooled
  BY <1>19 DEF Adopts, Goto, qpVars, Mine, Peer, IS_ERR_OR_NULL, Live, Exposed, Dead
<1>20. CASE t \in Pooled /\ Adopts(t) /\ Pooled' = Pooled
  BY <1>20 DEF Adopts, Goto, qpVars, Mine, Peer, IS_ERR_OR_NULL, Live, Exposed, Dead
<1>21. CASE ReadyTest(t) /\ Pooled' = Pooled
  BY <1>21 DEF ReadyTest, Goto, qpVars, Mine, Peer, IS_ERR_OR_NULL, Live, Exposed, Dead
<1>22. CASE Gets(t) /\ Pooled' = Pooled
  BY <1>22 DEF Gets, Goto, qpVars, Mine, Peer, IS_ERR_OR_NULL, Live, Exposed, Dead
<1>23. CASE Wakes(t) /\ Pooled' = Pooled
  BY <1>23 DEF Wakes, Goto, qpVars, Mine, Peer, IS_ERR_OR_NULL, Live, Exposed, Dead
<1>24. CASE WaitTimeout(t) /\ Pooled' = Pooled
  BY <1>24 DEF WaitTimeout, Goto, qpVars, Mine, Peer, IS_ERR_OR_NULL, Live, Exposed, Dead
<1>25. CASE TimeoutDeTree(t) /\ Pooled' = Pooled
  BY <1>25 DEF TimeoutDeTree, de_tree_qp, Goto, qpVars, Mine, Peer, IS_ERR_OR_NULL, Live, Exposed, Dead
<1>26. CASE Copies(t) /\ Pooled' = Pooled
  BY <1>26 DEF Copies, Goto, qpVars, Mine, Peer, IS_ERR_OR_NULL, Live, Exposed, Dead
<1>27. CASE HalfDuplexNoMem(t) /\ Pooled' = Pooled
  BY <1>27 DEF HalfDuplexNoMem, Goto, qpVars, Mine, Peer, IS_ERR_OR_NULL, Live, Exposed, Dead
<1>28. CASE Puts(t) /\ PutsBack(t) /\ Pooled' = Pooled
  BY <1>28 DEF PutsBack, Goto, qpVars, Mine, Peer, IS_ERR_OR_NULL, Live, Exposed, Dead
<1> HIDE DEF PreSetting, PairInv, PreType, SockPtr, PreWay, UnderWay, Forwarding, PreAttached, Attached, Holds, InTree, Busy, PreKinds, PreOwned
<1> QED
  BY <1>1, <1>2, <1>3, <1>4, <1>5, <1>6, <1>7, <1>8, <1>9, <1>10, <1>11, <1>12, <1>13, <1>14, <1>15, <1>16, <1>17, <1>18, <1>19, <1>20, <1>21, <1>22, <1>23, <1>24, <1>25, <1>26, <1>27, <1>28,
     PairStepCases

\* Nobody touches a QP that is not linked but the task it belongs to.
LEMMA NextPreOwnQp ==
    ASSUME PreSetting, NEW t \in Tasks, PairStep(t)
    PROVE  PreOwnQp'
<1> USE DEF PreSetting, PairInv, PreType, SockPtr, PreWay, UnderWay, Forwarding, PreAttached, Attached, Holds, InTree, Busy, PreKinds, PreOwned, PreOwnQp
<1>1. CASE t \in Ls /\ Accept(t) /\ Pooled' = Pooled
  BY <1>1 DEF Accept, Goto, qpVars, Mine, Peer, IS_ERR_OR_NULL, Live, Exposed, Dead
<1>2. CASE t \in Ls /\ LSetupFails(t) /\ Pooled' = Pooled
  BY <1>2 DEF LSetupFails, Goto, qpVars, Mine, Peer, IS_ERR_OR_NULL, Live, Exposed, Dead
<1>3. CASE t \in Ls /\ LStart(t) /\ Links(t, "ready") /\ Pooled' = Pooled
  BY <1>3 DEF LStart, Links, Goto, qpVars, Mine, Peer, IS_ERR_OR_NULL, Live, Exposed, Dead
<1>4. CASE t \in Ls /\ LStart(t) /\ Finds(t) /\ Pooled' = Pooled
  BY <1>4 DEF LStart, Finds, Goto, qpVars, Mine, Peer, IS_ERR_OR_NULL, Live, Exposed, Dead
<1>5. CASE t \in Rs \ Pooled /\ RStart(t) /\ Links(t, "connect") /\ Pooled' = Pooled
  BY <1>5 DEF RStart, Links, Goto, qpVars, Mine, Peer, IS_ERR_OR_NULL, Live, Exposed, Dead
<1>6. CASE t \in Rs \ Pooled /\ RStart(t) /\ Finds(t) /\ Pooled' = Pooled
  BY <1>6 DEF RStart, Finds, Goto, qpVars, Mine, Peer, IS_ERR_OR_NULL, Live, Exposed, Dead
<1>7. CASE t \in Rs \ Pooled /\ RConnect(t) /\ Pooled' = Pooled
  BY <1>7 DEF RConnect, Goto, qpVars, Mine, Peer, IS_ERR_OR_NULL, Live, Exposed, Dead
<1>8. CASE t \in Rs \ Pooled /\ RConnectFails(t) /\ Pooled' = Pooled
  BY <1>8 DEF RConnectFails, Goto, qpVars, Mine, Peer, IS_ERR_OR_NULL, Live, Exposed, Dead
<1>9. CASE t \in Rs \ Pooled /\ Takes(t)
  BY <1>9 DEF Takes, Goto, qpVars, Mine, Peer, IS_ERR_OR_NULL, Live, Exposed, Dead
<1>10. CASE t \in Pooled /\ PreStart(t) /\ Links(t, "forward") /\ Pooled' = Pooled
  BY <1>10 DEF PreStart, Links, Goto, qpVars, Mine, Peer, IS_ERR_OR_NULL, Live, Exposed, Dead
<1>11. CASE t \in Pooled /\ PreStart(t) /\ Finds(t) /\ Pooled' = Pooled
  BY <1>11 DEF PreStart, Finds, Goto, qpVars, Mine, Peer, IS_ERR_OR_NULL, Live, Exposed, Dead
<1>12. CASE t \in Pooled /\ Move(t, "taken", "done") /\ Pooled' = Pooled
  BY <1>12 DEF Move, Goto, qpVars, Mine, Peer, IS_ERR_OR_NULL, Live, Exposed, Dead
<1>13. CASE t \in Pooled /\ Move(t, "forward", "ready") /\ Pooled' = Pooled
  BY <1>13 DEF Move, Goto, qpVars, Mine, Peer, IS_ERR_OR_NULL, Live, Exposed, Dead
<1>14. CASE t \in Pooled /\ Move(t, "forward", "fallback") /\ Pooled' = Pooled
  BY <1>14 DEF Move, Goto, qpVars, Mine, Peer, IS_ERR_OR_NULL, Live, Exposed, Dead
<1>15. CASE t \in Pooled /\ Move(t, "fallback", "done") /\ Pooled' = Pooled
  BY <1>15 DEF Move, Goto, qpVars, Mine, Peer, IS_ERR_OR_NULL, Live, Exposed, Dead
<1>16. CASE RDrop(t) /\ Pooled' = Pooled
  BY <1>16 DEF RDrop, Goto, qpVars, Mine, Peer, IS_ERR_OR_NULL, Live, Exposed, Dead
<1>17. CASE JoinTest(t) /\ Pooled' = Pooled
  BY <1>17 DEF JoinTest, Goto, qpVars, Mine, Peer, IS_ERR_OR_NULL, Live, Exposed, Dead
<1>18. CASE t \in Ls /\ Adopts(t) /\ Pooled' = Pooled
  BY <1>18 DEF Adopts, Goto, qpVars, Mine, Peer, IS_ERR_OR_NULL, Live, Exposed, Dead
<1>19. CASE t \in Rs \ Pooled /\ Adopts(t) /\ Pooled' = Pooled
  BY <1>19 DEF Adopts, Goto, qpVars, Mine, Peer, IS_ERR_OR_NULL, Live, Exposed, Dead
<1>20. CASE t \in Pooled /\ Adopts(t) /\ Pooled' = Pooled
  BY <1>20 DEF Adopts, Goto, qpVars, Mine, Peer, IS_ERR_OR_NULL, Live, Exposed, Dead
<1>21. CASE ReadyTest(t) /\ Pooled' = Pooled
  BY <1>21 DEF ReadyTest, Goto, qpVars, Mine, Peer, IS_ERR_OR_NULL, Live, Exposed, Dead
<1>22. CASE Gets(t) /\ Pooled' = Pooled
  BY <1>22 DEF Gets, Goto, qpVars, Mine, Peer, IS_ERR_OR_NULL, Live, Exposed, Dead
<1>23. CASE Wakes(t) /\ Pooled' = Pooled
  BY <1>23 DEF Wakes, Goto, qpVars, Mine, Peer, IS_ERR_OR_NULL, Live, Exposed, Dead
<1>24. CASE WaitTimeout(t) /\ Pooled' = Pooled
  BY <1>24 DEF WaitTimeout, Goto, qpVars, Mine, Peer, IS_ERR_OR_NULL, Live, Exposed, Dead
<1>25. CASE TimeoutDeTree(t) /\ Pooled' = Pooled
  BY <1>25 DEF TimeoutDeTree, de_tree_qp, Goto, qpVars, Mine, Peer, IS_ERR_OR_NULL, Live, Exposed, Dead
<1>26. CASE Copies(t) /\ Pooled' = Pooled
  BY <1>26 DEF Copies, Goto, qpVars, Mine, Peer, IS_ERR_OR_NULL, Live, Exposed, Dead
<1>27. CASE HalfDuplexNoMem(t) /\ Pooled' = Pooled
  BY <1>27 DEF HalfDuplexNoMem, Goto, qpVars, Mine, Peer, IS_ERR_OR_NULL, Live, Exposed, Dead
<1>28. CASE Puts(t) /\ PutsBack(t) /\ Pooled' = Pooled
  BY <1>28 DEF PutsBack, Goto, qpVars, Mine, Peer, IS_ERR_OR_NULL, Live, Exposed, Dead
<1> HIDE DEF PreSetting, PairInv, PreType, SockPtr, PreWay, UnderWay, Forwarding, PreAttached, Attached, Holds, InTree, Busy, PreKinds, PreOwned, PreOwnQp
<1> QED
  BY <1>1, <1>2, <1>3, <1>4, <1>5, <1>6, <1>7, <1>8, <1>9, <1>10, <1>11, <1>12, <1>13, <1>14, <1>15, <1>16, <1>17, <1>18, <1>19, <1>20, <1>21, <1>22, <1>23, <1>24, <1>25, <1>26, <1>27, <1>28,
     PairStepCases

\* add_rb_data, AdoptTo and RConnect keep the slots of a QP and its tasks in step.
LEMMA NextPreSlots ==
    ASSUME PreSetting, NEW t \in Tasks, PairStep(t)
    PROVE  PreSlots'
<1> USE DEF PreSetting, PairInv, PreType, SockPtr, PreWay, UnderWay, Forwarding, PreAttached, Attached, Holds, InTree, Busy, PreKinds, PreOwned, PreOwnQp, PreSlots, PrePlaces
<1>1. CASE t \in Ls /\ Accept(t) /\ Pooled' = Pooled
  BY <1>1 DEF Accept, Goto, qpVars, Mine, Peer, IS_ERR_OR_NULL, Live, Exposed, Dead
<1>2. CASE t \in Ls /\ LSetupFails(t) /\ Pooled' = Pooled
  BY <1>2 DEF LSetupFails, Goto, qpVars, Mine, Peer, IS_ERR_OR_NULL, Live, Exposed, Dead
<1>3. CASE t \in Ls /\ LStart(t) /\ Links(t, "ready") /\ Pooled' = Pooled
  BY <1>3 DEF LStart, Links, Goto, qpVars, Mine, Peer, IS_ERR_OR_NULL, Live, Exposed, Dead
<1>4. CASE t \in Ls /\ LStart(t) /\ Finds(t) /\ Pooled' = Pooled
  BY <1>4 DEF LStart, Finds, Goto, qpVars, Mine, Peer, IS_ERR_OR_NULL, Live, Exposed, Dead
<1>5. CASE t \in Rs \ Pooled /\ RStart(t) /\ Links(t, "connect") /\ Pooled' = Pooled
  BY <1>5 DEF RStart, Links, Goto, qpVars, Mine, Peer, IS_ERR_OR_NULL, Live, Exposed, Dead
<1>6. CASE t \in Rs \ Pooled /\ RStart(t) /\ Finds(t) /\ Pooled' = Pooled
  BY <1>6 DEF RStart, Finds, Goto, qpVars, Mine, Peer, IS_ERR_OR_NULL, Live, Exposed, Dead
<1>7. CASE t \in Rs \ Pooled /\ RConnect(t) /\ Pooled' = Pooled
  BY <1>7 DEF RConnect, Goto, qpVars, Mine, Peer, IS_ERR_OR_NULL, Live, Exposed, Dead
<1>8. CASE t \in Rs \ Pooled /\ RConnectFails(t) /\ Pooled' = Pooled
  BY <1>8 DEF RConnectFails, Goto, qpVars, Mine, Peer, IS_ERR_OR_NULL, Live, Exposed, Dead
<1>9. CASE t \in Rs \ Pooled /\ Takes(t)
  BY <1>9 DEF Takes, Goto, qpVars, Mine, Peer, IS_ERR_OR_NULL, Live, Exposed, Dead
<1>10. CASE t \in Pooled /\ PreStart(t) /\ Links(t, "forward") /\ Pooled' = Pooled
  BY <1>10 DEF PreStart, Links, Goto, qpVars, Mine, Peer, IS_ERR_OR_NULL, Live, Exposed, Dead
<1>11. CASE t \in Pooled /\ PreStart(t) /\ Finds(t) /\ Pooled' = Pooled
  BY <1>11 DEF PreStart, Finds, Goto, qpVars, Mine, Peer, IS_ERR_OR_NULL, Live, Exposed, Dead
<1>12. CASE t \in Pooled /\ Move(t, "taken", "done") /\ Pooled' = Pooled
  BY <1>12 DEF Move, Goto, qpVars, Mine, Peer, IS_ERR_OR_NULL, Live, Exposed, Dead
<1>13. CASE t \in Pooled /\ Move(t, "forward", "ready") /\ Pooled' = Pooled
  BY <1>13 DEF Move, Goto, qpVars, Mine, Peer, IS_ERR_OR_NULL, Live, Exposed, Dead
<1>14. CASE t \in Pooled /\ Move(t, "forward", "fallback") /\ Pooled' = Pooled
  BY <1>14 DEF Move, Goto, qpVars, Mine, Peer, IS_ERR_OR_NULL, Live, Exposed, Dead
<1>15. CASE t \in Pooled /\ Move(t, "fallback", "done") /\ Pooled' = Pooled
  BY <1>15 DEF Move, Goto, qpVars, Mine, Peer, IS_ERR_OR_NULL, Live, Exposed, Dead
<1>16. CASE RDrop(t) /\ Pooled' = Pooled
  BY <1>16 DEF RDrop, Goto, qpVars, Mine, Peer, IS_ERR_OR_NULL, Live, Exposed, Dead
<1>17. CASE JoinTest(t) /\ Pooled' = Pooled
  BY <1>17 DEF JoinTest, Goto, qpVars, Mine, Peer, IS_ERR_OR_NULL, Live, Exposed, Dead
<1>18. CASE t \in Ls /\ Adopts(t) /\ Pooled' = Pooled
  BY <1>18 DEF Adopts, Goto, qpVars, Mine, Peer, IS_ERR_OR_NULL, Live, Exposed, Dead
<1>19. CASE t \in Rs \ Pooled /\ Adopts(t) /\ Pooled' = Pooled
  BY <1>19 DEF Adopts, Goto, qpVars, Mine, Peer, IS_ERR_OR_NULL, Live, Exposed, Dead
<1>20. CASE t \in Pooled /\ Adopts(t) /\ Pooled' = Pooled
  BY <1>20 DEF Adopts, Goto, qpVars, Mine, Peer, IS_ERR_OR_NULL, Live, Exposed, Dead
<1>21. CASE ReadyTest(t) /\ Pooled' = Pooled
  BY <1>21 DEF ReadyTest, Goto, qpVars, Mine, Peer, IS_ERR_OR_NULL, Live, Exposed, Dead
<1>22. CASE Gets(t) /\ Pooled' = Pooled
  BY <1>22 DEF Gets, Goto, qpVars, Mine, Peer, IS_ERR_OR_NULL, Live, Exposed, Dead
<1>23. CASE Wakes(t) /\ Pooled' = Pooled
  BY <1>23 DEF Wakes, Goto, qpVars, Mine, Peer, IS_ERR_OR_NULL, Live, Exposed, Dead
<1>24. CASE WaitTimeout(t) /\ Pooled' = Pooled
  BY <1>24 DEF WaitTimeout, Goto, qpVars, Mine, Peer, IS_ERR_OR_NULL, Live, Exposed, Dead
<1>25. CASE TimeoutDeTree(t) /\ Pooled' = Pooled
  BY <1>25 DEF TimeoutDeTree, de_tree_qp, Goto, qpVars, Mine, Peer, IS_ERR_OR_NULL, Live, Exposed, Dead
<1>26. CASE Copies(t) /\ Pooled' = Pooled
  BY <1>26 DEF Copies, Goto, qpVars, Mine, Peer, IS_ERR_OR_NULL, Live, Exposed, Dead
<1>27. CASE HalfDuplexNoMem(t) /\ Pooled' = Pooled
  BY <1>27 DEF HalfDuplexNoMem, Goto, qpVars, Mine, Peer, IS_ERR_OR_NULL, Live, Exposed, Dead
<1>28. CASE Puts(t) /\ PutsBack(t) /\ Pooled' = Pooled
  BY <1>28 DEF PutsBack, Goto, qpVars, Mine, Peer, IS_ERR_OR_NULL, Live, Exposed, Dead
<1> HIDE DEF PreSetting, PairInv, PreType, SockPtr, PreWay, UnderWay, Forwarding, PreAttached, Attached, Holds, InTree, Busy, PreKinds, PreOwned, PreOwnQp, PreSlots, PrePlaces
<1> QED
  BY <1>1, <1>2, <1>3, <1>4, <1>5, <1>6, <1>7, <1>8, <1>9, <1>10, <1>11, <1>12, <1>13, <1>14, <1>15, <1>16, <1>17, <1>18, <1>19, <1>20, <1>21, <1>22, <1>23, <1>24, <1>25, <1>26, <1>27, <1>28,
     PairStepCases

\* The peer's socket appears and the QP leaves the tree as wait_qp_ready expects,
\* but for an exposed connection.
LEMMA NextPrePlaces ==
    ASSUME PreSetting, NEW t \in Tasks, PairStep(t)
    PROVE  PrePlaces'
<1> USE DEF PreSetting, PairInv, PreType, SockPtr, PreWay, UnderWay, Forwarding, PreAttached, Attached, Holds, InTree, Busy, OneBusy, PreKinds, PreOwned, PreOwnQp, PreSlots, PrePlaces, PreRefs
<1>1. CASE t \in Ls /\ Accept(t) /\ Pooled' = Pooled
  BY <1>1 DEF Accept, Goto, qpVars, Mine, Peer, IS_ERR_OR_NULL, Live, Exposed, Dead
<1>2. CASE t \in Ls /\ LSetupFails(t) /\ Pooled' = Pooled
  BY <1>2 DEF LSetupFails, Goto, qpVars, Mine, Peer, IS_ERR_OR_NULL, Live, Exposed, Dead
<1>3. CASE t \in Ls /\ LStart(t) /\ Links(t, "ready") /\ Pooled' = Pooled
  BY <1>3 DEF LStart, Links, Goto, qpVars, Mine, Peer, IS_ERR_OR_NULL, Live, Exposed, Dead
<1>4. CASE t \in Ls /\ LStart(t) /\ Finds(t) /\ Pooled' = Pooled
  BY <1>4 DEF LStart, Finds, Goto, qpVars, Mine, Peer, IS_ERR_OR_NULL, Live, Exposed, Dead
<1>5. CASE t \in Rs \ Pooled /\ RStart(t) /\ Links(t, "connect") /\ Pooled' = Pooled
  BY <1>5 DEF RStart, Links, Goto, qpVars, Mine, Peer, IS_ERR_OR_NULL, Live, Exposed, Dead
<1>6. CASE t \in Rs \ Pooled /\ RStart(t) /\ Finds(t) /\ Pooled' = Pooled
  BY <1>6 DEF RStart, Finds, Goto, qpVars, Mine, Peer, IS_ERR_OR_NULL, Live, Exposed, Dead
<1>7. CASE t \in Rs \ Pooled /\ RConnect(t) /\ Pooled' = Pooled
  BY <1>7 DEF RConnect, Goto, qpVars, Mine, Peer, IS_ERR_OR_NULL, Live, Exposed, Dead
<1>8. CASE t \in Rs \ Pooled /\ RConnectFails(t) /\ Pooled' = Pooled
  BY <1>8 DEF RConnectFails, Goto, qpVars, Mine, Peer, IS_ERR_OR_NULL, Live, Exposed, Dead
<1>9. CASE t \in Rs \ Pooled /\ Takes(t)
  BY <1>9 DEF Takes, Goto, qpVars, Mine, Peer, IS_ERR_OR_NULL, Live, Exposed, Dead
<1>10. CASE t \in Pooled /\ PreStart(t) /\ Links(t, "forward") /\ Pooled' = Pooled
  BY <1>10 DEF PreStart, Links, Goto, qpVars, Mine, Peer, IS_ERR_OR_NULL, Live, Exposed, Dead
<1>11. CASE t \in Pooled /\ PreStart(t) /\ Finds(t) /\ Pooled' = Pooled
  BY <1>11 DEF PreStart, Finds, Goto, qpVars, Mine, Peer, IS_ERR_OR_NULL, Live, Exposed, Dead
<1>12. CASE t \in Pooled /\ Move(t, "taken", "done") /\ Pooled' = Pooled
  BY <1>12 DEF Move, Goto, qpVars, Mine, Peer, IS_ERR_OR_NULL, Live, Exposed, Dead
<1>13. CASE t \in Pooled /\ Move(t, "forward", "ready") /\ Pooled' = Pooled
  BY <1>13 DEF Move, Goto, qpVars, Mine, Peer, IS_ERR_OR_NULL, Live, Exposed, Dead
<1>14. CASE t \in Pooled /\ Move(t, "forward", "fallback") /\ Pooled' = Pooled
  BY <1>14 DEF Move, Goto, qpVars, Mine, Peer, IS_ERR_OR_NULL, Live, Exposed, Dead
<1>15. CASE t \in Pooled /\ Move(t, "fallback", "done") /\ Pooled' = Pooled
  BY <1>15 DEF Move, Goto, qpVars, Mine, Peer, IS_ERR_OR_NULL, Live, Exposed, Dead
<1>16. CASE RDrop(t) /\ Pooled' = Pooled
  BY <1>16 DEF RDrop, Goto, qpVars, Mine, Peer, IS_ERR_OR_NULL, Live, Exposed, Dead
<1>17. CASE JoinTest(t) /\ Pooled' = Pooled
  BY <1>17 DEF JoinTest, Goto, qpVars, Mine, Peer, IS_ERR_OR_NULL, Live, Exposed, Dead
<1>18. CASE t \in Ls /\ Adopts(t) /\ Pooled' = Pooled
  BY <1>18 DEF Adopts, Goto, qpVars, Mine, Peer, IS_ERR_OR_NULL, Live, Exposed, Dead
<1>19. CASE t \in Rs \ Pooled /\ Adopts(t) /\ Pooled' = Pooled
  BY <1>19 DEF Adopts, Goto, qpVars, Mine, Peer, IS_ERR_OR_NULL, Live, Exposed, Dead
<1>20. CASE t \in Pooled /\ Adopts(t) /\ Pooled' = Pooled
  BY <1>20 DEF Adopts, Goto, qpVars, Mine, Peer, IS_ERR_OR_NULL, Live, Exposed, Dead
<1>21. CASE ReadyTest(t) /\ Pooled' = Pooled
  BY <1>21 DEF ReadyTest, Goto, qpVars, Mine, Peer, IS_ERR_OR_NULL, Live, Exposed, Dead
<1>22. CASE Gets(t) /\ Pooled' = Pooled
  <2> DEFINE q == qp[t]
  <2>1. \A u \in Tasks : u # t /\ pc[u] \in PreWay /\ qp[u] = q => pc[u] \notin Busy
    BY <1>22 DEF Gets
  <2>2. CASE pc[t] = "get_wait"
    BY <1>22, <2>2 DEF Gets, Mine, Peer, Exposed
  <2>3. CASE pc[t] = "get_go" /\ tree' = tree
    <3>1. q \in tree /\ t \in Ls /\ Exposed(q) /\ Exposed(q)' /\ pc' = [pc EXCEPT ![t] = "check"]
      BY <1>22, <2>3 DEF Gets, Exposed
    <3>2. \A p \in Tasks : p # q /\ Exposed(p) => Exposed(p)' \/ p \notin tree
      BY <1>22, <2>3, <3>1 DEF Gets, Exposed
    <3> QED BY <1>22, <2>3, <3>1, <3>2 DEF Gets, Mine, Peer, IS_ERR_OR_NULL
  <2>4. CASE pc[t] = "get_go" /\ tree' = tree \ {q}
    <3>1. q \in tree /\ pc' = [pc EXCEPT ![t] = "check"] /\ UNCHANGED <<qp, mem, tx, rx, src, dst>>
      BY <1>22, <2>4 DEF Gets
    <3>2. \A u \in Tasks : u # t /\ pc[u] \in PreWay /\ qp[u] = q => pc[u] \notin Forwarding
      BY <1>22, <2>4, <3>1 DEF Gets, RHolds, LHolds
    <3>3. \A u \in Tasks : u # t /\ pc[u] = "wait" /\ qp[u] = q => ~IS_ERR_OR_NULL(Peer(u))
      BY <2>4, <3>1 DEF Peer, IS_ERR_OR_NULL
    <3>4. \A p \in Tasks : p # q /\ qp[p] = p /\ Exposed(p) => Exposed(p)'
      BY <1>22, <2>4, <3>1 DEF Exposed
    <3> QED BY <2>1, <2>4, <3>1, <3>2, <3>3, <3>4 DEF Mine, Peer, IS_ERR_OR_NULL
  <2> QED BY <1>22, <2>2, <2>3, <2>4 DEF Gets
<1>23. CASE Wakes(t) /\ Pooled' = Pooled
  BY <1>23 DEF Wakes, Goto, qpVars, Mine, Peer, IS_ERR_OR_NULL, Live, Exposed, Dead
<1>24. CASE WaitTimeout(t) /\ Pooled' = Pooled
  BY <1>24 DEF WaitTimeout, Goto, qpVars, Mine, Peer, IS_ERR_OR_NULL, Live, Exposed, Dead
<1>25. CASE TimeoutDeTree(t) /\ Pooled' = Pooled
  BY <1>25 DEF TimeoutDeTree, de_tree_qp, Goto, qpVars, Mine, Peer, IS_ERR_OR_NULL, Live, Exposed, Dead
<1>26. CASE Copies(t) /\ Pooled' = Pooled
  BY <1>26 DEF Copies, Goto, qpVars, Mine, Peer, IS_ERR_OR_NULL, Live, Exposed, Dead
<1>27. CASE HalfDuplexNoMem(t) /\ Pooled' = Pooled
  BY <1>27 DEF HalfDuplexNoMem, Goto, qpVars, Mine, Peer, IS_ERR_OR_NULL, Live, Exposed, Dead
<1>28. CASE Puts(t) /\ PutsBack(t) /\ Pooled' = Pooled
  BY <1>28 DEF PutsBack, Goto, qpVars, Mine, Peer, IS_ERR_OR_NULL, Live, Exposed, Dead
<1> HIDE DEF PreSetting, PairInv, PreType, SockPtr, PreWay, UnderWay, Forwarding, PreAttached, Attached, Holds, InTree, Busy, OneBusy, PreKinds, PreOwned, PreOwnQp, PreSlots, PrePlaces, PreRefs
<1> QED
  BY <1>1, <1>2, <1>3, <1>4, <1>5, <1>6, <1>7, <1>8, <1>9, <1>10, <1>11, <1>12, <1>13, <1>14, <1>15, <1>16, <1>17, <1>18, <1>19, <1>20, <1>21, <1>22, <1>23, <1>24, <1>25, <1>26, <1>27, <1>28,
     PairStepCases

\* get_qp and put_qp count the holders; the last one frees what no one else holds.
LEMMA NextPreRefs ==
    ASSUME PreSetting, NEW t \in Tasks, PairStep(t)
    PROVE  PreRefs'
<1> USE DEF PreSetting, PairInv, PreType, SockPtr, PreWay, UnderWay, Forwarding, PreAttached, Attached, Holds, InTree, Busy, OneBusy, PreKinds, PreOwned, PreOwnQp, PreSlots, PrePlaces, PreRefs
<1>1. CASE t \in Ls /\ Accept(t) /\ Pooled' = Pooled
  BY <1>1 DEF Accept, Goto, qpVars, Mine, Peer, IS_ERR_OR_NULL, Live, Exposed, Dead, LHolds, RHolds
<1>2. CASE t \in Ls /\ LSetupFails(t) /\ Pooled' = Pooled
  BY <1>2 DEF LSetupFails, Goto, qpVars, Mine, Peer, IS_ERR_OR_NULL, Live, Exposed, Dead, LHolds, RHolds
<1>3. CASE t \in Ls /\ LStart(t) /\ Links(t, "ready") /\ Pooled' = Pooled
  BY <1>3 DEF LStart, Links, Goto, qpVars, Mine, Peer, IS_ERR_OR_NULL, Live, Exposed, Dead, LHolds, RHolds
<1>4. CASE t \in Ls /\ LStart(t) /\ Finds(t) /\ Pooled' = Pooled
  BY <1>4 DEF LStart, Finds, Goto, qpVars, Mine, Peer, IS_ERR_OR_NULL, Live, Exposed, Dead, LHolds, RHolds
<1>5. CASE t \in Rs \ Pooled /\ RStart(t) /\ Links(t, "connect") /\ Pooled' = Pooled
  BY <1>5 DEF RStart, Links, Goto, qpVars, Mine, Peer, IS_ERR_OR_NULL, Live, Exposed, Dead, LHolds, RHolds
<1>6. CASE t \in Rs \ Pooled /\ RStart(t) /\ Finds(t) /\ Pooled' = Pooled
  BY <1>6 DEF RStart, Finds, Goto, qpVars, Mine, Peer, IS_ERR_OR_NULL, Live, Exposed, Dead, LHolds, RHolds
<1>7. CASE t \in Rs \ Pooled /\ RConnect(t) /\ Pooled' = Pooled
  BY <1>7 DEF RConnect, Goto, qpVars, Mine, Peer, IS_ERR_OR_NULL, Live, Exposed, Dead, LHolds, RHolds
<1>8. CASE t \in Rs \ Pooled /\ RConnectFails(t) /\ Pooled' = Pooled
  BY <1>8 DEF RConnectFails, Goto, qpVars, Mine, Peer, IS_ERR_OR_NULL, Live, Exposed, Dead, LHolds, RHolds
<1>9. CASE t \in Rs \ Pooled /\ Takes(t)
  BY <1>9 DEF Takes, Goto, qpVars, Mine, Peer, IS_ERR_OR_NULL, Live, Exposed, Dead, LHolds, RHolds
<1>10. CASE t \in Pooled /\ PreStart(t) /\ Links(t, "forward") /\ Pooled' = Pooled
  BY <1>10 DEF PreStart, Links, Goto, qpVars, Mine, Peer, IS_ERR_OR_NULL, Live, Exposed, Dead, LHolds, RHolds
<1>11. CASE t \in Pooled /\ PreStart(t) /\ Finds(t) /\ Pooled' = Pooled
  BY <1>11 DEF PreStart, Finds, Goto, qpVars, Mine, Peer, IS_ERR_OR_NULL, Live, Exposed, Dead, LHolds, RHolds
<1>12. CASE t \in Pooled /\ Move(t, "taken", "done") /\ Pooled' = Pooled
  BY <1>12 DEF Move, Goto, qpVars, Mine, Peer, IS_ERR_OR_NULL, Live, Exposed, Dead, LHolds, RHolds
<1>13. CASE t \in Pooled /\ Move(t, "forward", "ready") /\ Pooled' = Pooled
  BY <1>13 DEF Move, Goto, qpVars, Mine, Peer, IS_ERR_OR_NULL, Live, Exposed, Dead, LHolds, RHolds
<1>14. CASE t \in Pooled /\ Move(t, "forward", "fallback") /\ Pooled' = Pooled
  BY <1>14 DEF Move, Goto, qpVars, Mine, Peer, IS_ERR_OR_NULL, Live, Exposed, Dead, LHolds, RHolds
<1>15. CASE t \in Pooled /\ Move(t, "fallback", "done") /\ Pooled' = Pooled
  BY <1>15 DEF Move, Goto, qpVars, Mine, Peer, IS_ERR_OR_NULL, Live, Exposed, Dead, LHolds, RHolds
<1>16. CASE RDrop(t) /\ Pooled' = Pooled
  BY <1>16 DEF RDrop, Goto, qpVars, Mine, Peer, IS_ERR_OR_NULL, Live, Exposed, Dead, LHolds, RHolds
<1>17. CASE JoinTest(t) /\ Pooled' = Pooled
  BY <1>17 DEF JoinTest, Goto, qpVars, Mine, Peer, IS_ERR_OR_NULL, Live, Exposed, Dead, LHolds, RHolds
<1>18. CASE t \in Ls /\ Adopts(t) /\ Pooled' = Pooled
  BY <1>18, AdoptPreRefs
<1>19. CASE t \in Rs \ Pooled /\ Adopts(t) /\ Pooled' = Pooled
  BY <1>19, AdoptPreRefs
<1>20. CASE t \in Pooled /\ Adopts(t) /\ Pooled' = Pooled
  BY <1>20, AdoptPreRefs
<1>21. CASE ReadyTest(t) /\ Pooled' = Pooled
  BY <1>21 DEF ReadyTest, Goto, qpVars, Mine, Peer, IS_ERR_OR_NULL, Live, Exposed, Dead, LHolds, RHolds
<1>22. CASE Gets(t) /\ Pooled' = Pooled
  BY <1>22 DEF Gets, Goto, qpVars, Mine, Peer, IS_ERR_OR_NULL, Live, Exposed, Dead, LHolds, RHolds
<1>23. CASE Wakes(t) /\ Pooled' = Pooled
  BY <1>23 DEF Wakes, Goto, qpVars, Mine, Peer, IS_ERR_OR_NULL, Live, Exposed, Dead, LHolds, RHolds
<1>24. CASE WaitTimeout(t) /\ Pooled' = Pooled
  BY <1>24 DEF WaitTimeout, Goto, qpVars, Mine, Peer, IS_ERR_OR_NULL, Live, Exposed, Dead, LHolds, RHolds
<1>25. CASE TimeoutDeTree(t) /\ Pooled' = Pooled
  BY <1>25 DEF TimeoutDeTree, de_tree_qp, Goto, qpVars, Mine, Peer, IS_ERR_OR_NULL, Live, Exposed, Dead, LHolds, RHolds
<1>26. CASE Copies(t) /\ Pooled' = Pooled
  BY <1>26 DEF Copies, Goto, qpVars, Mine, Peer, IS_ERR_OR_NULL, Live, Exposed, Dead, LHolds, RHolds
<1>27. CASE HalfDuplexNoMem(t) /\ Pooled' = Pooled
  BY <1>27 DEF HalfDuplexNoMem, Goto, qpVars, Mine, Peer, IS_ERR_OR_NULL, Live, Exposed, Dead, LHolds, RHolds
<1>28. CASE Puts(t) /\ PutsBack(t) /\ Pooled' = Pooled
  BY <1>28 DEF PutsBack, Goto, qpVars, Mine, Peer, IS_ERR_OR_NULL, Live, Exposed, Dead, LHolds, RHolds
<1> HIDE DEF PreSetting, PairInv, PreType, SockPtr, PreWay, UnderWay, Forwarding, PreAttached, Attached, Holds, InTree, Busy, OneBusy, PreKinds, PreOwned, PreOwnQp, PreSlots, PrePlaces, PreRefs
<1> QED
  BY <1>1, <1>2, <1>3, <1>4, <1>5, <1>6, <1>7, <1>8, <1>9, <1>10, <1>11, <1>12, <1>13, <1>14, <1>15, <1>16, <1>17, <1>18, <1>19, <1>20, <1>21, <1>22, <1>23, <1>24, <1>25, <1>26, <1>27, <1>28,
     PairStepCases

\* put_qp releases the sockets of a QP with the QP; until then they are there.
LEMMA NextPreSocks ==
    ASSUME PreSetting, NEW t \in Tasks, PairStep(t), PreSocks
    PROVE  PreSocks'
<1> USE DEF PreSetting, PairInv, PreType, SockPtr, PreWay, UnderWay, Forwarding, PreAttached, Attached, Holds, InTree, Busy, PreKinds, PreOwned, PreOwnQp, PreSlots, PrePlaces, PreRefs, PreSocks, Here
<1>1. CASE t \in Ls /\ Accept(t) /\ Pooled' = Pooled
  BY <1>1 DEF Accept, Goto, qpVars, Mine, Peer, IS_ERR_OR_NULL, Live, Exposed, Dead
<1>2. CASE t \in Ls /\ LSetupFails(t) /\ Pooled' = Pooled
  BY <1>2 DEF LSetupFails, Goto, qpVars, Mine, Peer, IS_ERR_OR_NULL, Live, Exposed, Dead
<1>3. CASE t \in Ls /\ LStart(t) /\ Links(t, "ready") /\ Pooled' = Pooled
  BY <1>3 DEF LStart, Links, Goto, qpVars, Mine, Peer, IS_ERR_OR_NULL, Live, Exposed, Dead
<1>4. CASE t \in Ls /\ LStart(t) /\ Finds(t) /\ Pooled' = Pooled
  BY <1>4 DEF LStart, Finds, Goto, qpVars, Mine, Peer, IS_ERR_OR_NULL, Live, Exposed, Dead
<1>5. CASE t \in Rs \ Pooled /\ RStart(t) /\ Links(t, "connect") /\ Pooled' = Pooled
  BY <1>5 DEF RStart, Links, Goto, qpVars, Mine, Peer, IS_ERR_OR_NULL, Live, Exposed, Dead
<1>6. CASE t \in Rs \ Pooled /\ RStart(t) /\ Finds(t) /\ Pooled' = Pooled
  BY <1>6 DEF RStart, Finds, Goto, qpVars, Mine, Peer, IS_ERR_OR_NULL, Live, Exposed, Dead
<1>7. CASE t \in Rs \ Pooled /\ RConnect(t) /\ Pooled' = Pooled
  BY <1>7 DEF RConnect, Goto, qpVars, Mine, Peer, IS_ERR_OR_NULL, Live, Exposed, Dead
<1>8. CASE t \in Rs \ Pooled /\ RConnectFails(t) /\ Pooled' = Pooled
  BY <1>8 DEF RConnectFails, Goto, qpVars, Mine, Peer, IS_ERR_OR_NULL, Live, Exposed, Dead
<1>9. CASE t \in Rs \ Pooled /\ Takes(t)
  BY <1>9 DEF Takes, Goto, qpVars, Mine, Peer, IS_ERR_OR_NULL, Live, Exposed, Dead
<1>10. CASE t \in Pooled /\ PreStart(t) /\ Links(t, "forward") /\ Pooled' = Pooled
  BY <1>10 DEF PreStart, Links, Goto, qpVars, Mine, Peer, IS_ERR_OR_NULL, Live, Exposed, Dead
<1>11. CASE t \in Pooled /\ PreStart(t) /\ Finds(t) /\ Pooled' = Pooled
  BY <1>11 DEF PreStart, Finds, Goto, qpVars, Mine, Peer, IS_ERR_OR_NULL, Live, Exposed, Dead
<1>12. CASE t \in Pooled /\ Move(t, "taken", "done") /\ Pooled' = Pooled
  BY <1>12 DEF Move, Goto, qpVars, Mine, Peer, IS_ERR_OR_NULL, Live, Exposed, Dead
<1>13. CASE t \in Pooled /\ Move(t, "forward", "ready") /\ Pooled' = Pooled
  BY <1>13 DEF Move, Goto, qpVars, Mine, Peer, IS_ERR_OR_NULL, Live, Exposed, Dead
<1>14. CASE t \in Pooled /\ Move(t, "forward", "fallback") /\ Pooled' = Pooled
  BY <1>14 DEF Move, Goto, qpVars, Mine, Peer, IS_ERR_OR_NULL, Live, Exposed, Dead
<1>15. CASE t \in Pooled /\ Move(t, "fallback", "done") /\ Pooled' = Pooled
  BY <1>15 DEF Move, Goto, qpVars, Mine, Peer, IS_ERR_OR_NULL, Live, Exposed, Dead
<1>16. CASE RDrop(t) /\ Pooled' = Pooled
  BY <1>16 DEF RDrop, Goto, qpVars, Mine, Peer, IS_ERR_OR_NULL, Live, Exposed, Dead
<1>17. CASE JoinTest(t) /\ Pooled' = Pooled
  BY <1>17 DEF JoinTest, Goto, qpVars, Mine, Peer, IS_ERR_OR_NULL, Live, Exposed, Dead
<1>18. CASE t \in Ls /\ Adopts(t) /\ Pooled' = Pooled
  BY <1>18 DEF Adopts, Goto, qpVars, Mine, Peer, IS_ERR_OR_NULL, Live, Exposed, Dead
<1>19. CASE t \in Rs \ Pooled /\ Adopts(t) /\ Pooled' = Pooled
  BY <1>19 DEF Adopts, Goto, qpVars, Mine, Peer, IS_ERR_OR_NULL, Live, Exposed, Dead
<1>20. CASE t \in Pooled /\ Adopts(t) /\ Pooled' = Pooled
  BY <1>20, AdoptPreSocks
<1>21. CASE ReadyTest(t) /\ Pooled' = Pooled
  BY <1>21 DEF ReadyTest, Goto, qpVars, Mine, Peer, IS_ERR_OR_NULL, Live, Exposed, Dead
<1>22. CASE Gets(t) /\ Pooled' = Pooled
  BY <1>22 DEF Gets, Goto, qpVars, Mine, Peer, IS_ERR_OR_NULL, Live, Exposed, Dead
<1>23. CASE Wakes(t) /\ Pooled' = Pooled
  BY <1>23 DEF Wakes, Goto, qpVars, Mine, Peer, IS_ERR_OR_NULL, Live, Exposed, Dead
<1>24. CASE WaitTimeout(t) /\ Pooled' = Pooled
  BY <1>24 DEF WaitTimeout, Goto, qpVars, Mine, Peer, IS_ERR_OR_NULL, Live, Exposed, Dead
<1>25. CASE TimeoutDeTree(t) /\ Pooled' = Pooled
  BY <1>25 DEF TimeoutDeTree, de_tree_qp, Goto, qpVars, Mine, Peer, IS_ERR_OR_NULL, Live, Exposed, Dead
<1>26. CASE Copies(t) /\ Pooled' = Pooled
  BY <1>26 DEF Copies, Goto, qpVars, Mine, Peer, IS_ERR_OR_NULL, Live, Exposed, Dead
<1>27. CASE HalfDuplexNoMem(t) /\ Pooled' = Pooled
  BY <1>27 DEF HalfDuplexNoMem, Goto, qpVars, Mine, Peer, IS_ERR_OR_NULL, Live, Exposed, Dead
<1>28. CASE Puts(t) /\ PutsBack(t) /\ Pooled' = Pooled
  BY <1>28, PutPreSocks
<1> HIDE DEF PreSetting, PairInv, PreType, SockPtr, PreWay, UnderWay, Forwarding, PreAttached, Attached, Holds, InTree, Busy, PreKinds, PreOwned, PreOwnQp, PreSlots, PrePlaces, PreRefs, PreSocks, Here
<1> QED
  BY <1>1, <1>2, <1>3, <1>4, <1>5, <1>6, <1>7, <1>8, <1>9, <1>10, <1>11, <1>12, <1>13, <1>14, <1>15, <1>16, <1>17, <1>18, <1>19, <1>20, <1>21, <1>22, <1>23, <1>24, <1>25, <1>26, <1>27, <1>28,
     PairStepCases

----
(* The keys.                                                               *)

\* The order of the naturals as a set of pairs.
Below == {ss \in Nat \X Nat : ss[1] < ss[2]}

\* A set of naturals has a least element.
LEMMA LeastNatural ==
    ASSUME NEW T, T \subseteq Nat, T # {}
    PROVE  \E x \in T : \A y \in T : x <= y
<1>1. OpToRel(<, Nat) = Below
  BY Zenon DEF OpToRel, Below
<1>2. IsWellFoundedOn(Below, Nat)
  BY <1>1, NatLessThanWellFounded, Zenon
<1>3. PICK x \in T : \A y \in T : ~(<<y, x>> \in Below)
  BY <1>2, WFMin
<1>4. \A y \in T : ~(y < x)
  BY <1>3 DEF Below
<1> QED BY <1>4

\* strncmp stops at the first NUL of both: up to there the keys are the same.
LEMMA SameKeyPrefix ==
    ASSUME NEW a, NEW b, SameKey(a, b), NEW i \in 1 .. RB_KEY_LENGTH, \A j \in 1 .. (i - 1) : b[j] # 0
    PROVE  \A j \in 1 .. (i - 1) : a[j] # 0
<1> DEFINE T == {j \in 1 .. (i - 1) : a[j] = 0}
<1> SUFFICES ASSUME T # {} PROVE FALSE
  OBVIOUS
<1>1. T \subseteq Nat
  OBVIOUS
<1>2. PICK x \in T : \A y \in T : x <= y
  BY <1>1, LeastNatural
<1>3. x \in 1 .. RB_KEY_LENGTH /\ \A j \in 1 .. (x - 1) : a[j] # 0
  BY <1>2, QpConstants
<1>4. a[x] = b[x]
  BY <1>3 DEF SameKey
<1> QED BY <1>2, <1>4

\* Comparing equal does not depend on which key is compared with which.
LEMMA SameKeySymmetric ==
    ASSUME NEW a, NEW b, SameKey(a, b)
    PROVE  SameKey(b, a)
<1> SUFFICES ASSUME NEW i \in 1 .. RB_KEY_LENGTH, \A j \in 1 .. (i - 1) : b[j] # 0
             PROVE  b[i] = a[i]
  BY DEF SameKey
<1>1. \A j \in 1 .. (i - 1) : a[j] # 0
  BY SameKeyPrefix
<1> QED BY <1>1 DEF SameKey

\* Two keys that compare equal to a third one compare equal.
LEMMA SameKeyTransitive ==
    ASSUME NEW a, NEW b, NEW c, SameKey(a, b), SameKey(b, c)
    PROVE  SameKey(a, c)
<1>1. SameKey(b, a)
  BY SameKeySymmetric
<1> SUFFICES ASSUME NEW i \in 1 .. RB_KEY_LENGTH, \A j \in 1 .. (i - 1) : a[j] # 0
             PROVE  a[i] = c[i]
  BY DEF SameKey
<1>2. \A j \in 1 .. (i - 1) : b[j] # 0
  BY <1>1, SameKeyPrefix
<1> QED BY <1>2 DEF SameKey

\* A QP is linked only where none compares equal to it.
LEMMA NextPreKeys ==
    ASSUME PreSetting, PreKeys, NEW t \in Tasks, PairStep(t)
    PROVE  PreKeys'
<1> DEFINE K == {"join", "adopt"} \cup Forwarding
<1>0. tree \subseteq Tasks /\ pc \in [Tasks -> {"start", "accepted", "taken", "done"} \cup PreWay]
      /\ qp \in [Tasks -> Tasks \cup {NULL}]
  BY DEF PreSetting, PairInv, PreType
<1>1. ASSUME tree' \subseteq tree, \A u \in Tasks : pc'[u] \in K => pc[u] \in K /\ qp'[u] = qp[u]
      PROVE  PreKeys'
  BY <1>1 DEF PreKeys
<1>2. ASSUME NEW next, Links(t, next) PROVE PreKeys'
  <2>1. \A q \in tree : Cpu(q) = Cpu(t) => ~SameKey(key[t], key[q]) /\ ~SameKey(key[q], key[t])
    BY <1>2, SameKeySymmetric DEF Links, Found
  <2>2. \A p, q \in tree' : Cpu(p) = Cpu(q) /\ SameKey(key[p], key[q]) => p = q
    BY <1>2, <2>1 DEF Links, PreKeys
  <2>3. SameKey(key[t], key[t])
    BY DEF SameKey
  <2>4. \A u \in Tasks : pc'[u] \in K => SameKey(key[u], key[qp'[u]])
    BY <1>0, <1>2, <2>3 DEF Links, Goto, PreKeys
  <2> QED BY <2>2, <2>4 DEF PreKeys
<1>3. CASE Finds(t)
  <2>1. \A u \in Tasks : pc'[u] \in K => SameKey(key[u], key[qp'[u]])
    BY <1>0, <1>3 DEF Finds, Found, Goto, PreKeys
  <2> QED BY <1>3, <2>1 DEF Finds, PreKeys
<1> USE <1>0 DEF Forwarding, Goto, qpVars
<1>4. CASE Accept(t) \/ LSetupFails(t) \/ RConnect(t) \/ RConnectFails(t) \/ Takes(t)
  BY <1>1, <1>4 DEF Accept, LSetupFails, RConnect, RConnectFails, Takes
<1>5. CASE t \in Pooled /\ \/ Move(t, "taken", "done") \/ Move(t, "forward", "ready")
                           \/ Move(t, "forward", "fallback") \/ Move(t, "fallback", "done")
  BY <1>1, <1>5 DEF Move
<1>6. CASE RDrop(t) \/ JoinTest(t) \/ ReadyTest(t)
  BY <1>1, <1>6 DEF RDrop, JoinTest, ReadyTest
<1>7. CASE Adopts(t)
  BY <1>1, <1>7 DEF Adopts
<1>8. CASE Gets(t) \/ Wakes(t)
  BY <1>1, <1>8 DEF Gets, Wakes
<1>9. CASE WaitTimeout(t) \/ TimeoutDeTree(t)
  BY <1>1, <1>9 DEF WaitTimeout, TimeoutDeTree, de_tree_qp
<1>10. CASE Copies(t) \/ HalfDuplexNoMem(t) \/ PutsBack(t)
  BY <1>1, <1>10 DEF Copies, HalfDuplexNoMem, PutsBack
<1> HIDE <1>0 DEF Forwarding, Goto, qpVars
<1> QED BY <1>2, <1>3, <1>4, <1>5, <1>6, <1>7, <1>8, <1>9, <1>10, PairStepCases

----
(* The whole invariant.                                                    *)

PreInv ==
    /\ PoolInv /\ PairInv /\ PreKeys
    /\ oops = "none" => PreSocks
    /\ OnlyLinkedErased

\* Steps that leave the pairs alone keep what is said of them.
LEMMA QuietPairs ==
    ASSUME PairInv, PreKeys, Quiet
    PROVE  PairInv' /\ PreKeys'
<1> USE DEF Quiet, PairInv
<1>1. PreKeys'
  BY DEF PreKeys
<1>2. (PreKinds /\ PreOwned /\ PreOwnQp)'
  BY DEF PreKinds, PreOwned, PreOwnQp
<1>3. PreSlots'
  BY DEF PreSlots, Exposed
<1>4. PrePlaces'
  BY DEF PrePlaces, Exposed, Mine, Peer
<1>5. PreRefs'
  BY DEF PreRefs, Dead, LHolds, RHolds
<1>6. OneBusy'
  BY DEF OneBusy
<1>7. PreType'
  BY DEF PreType
<1> QED BY <1>1, <1>2, <1>3, <1>4, <1>5, <1>6, <1>7

\* An end of stream leaves the socket there; other changes to it end the run.
LEMMA QuietSocks ==
    ASSUME PairInv, PreSocks, Quiet, oops' = "none"
    PROVE  PreSocks'
<1>1. \A t \in Tasks : /\ sock'[t] \in Here <=> sock[t] \in Here
                       /\ sock'[t] = "none" <=> sock[t] = "none"
  BY DEF Quiet, PairInv, PreType, Here
<1>2. \A t \in Tasks : Peer(t)' = Peer(t)
  BY DEF Quiet, Peer
<1>3. \A q \in Tasks : rx[q] \in Tasks \cup {NULL}
  BY DEF PairInv, PreSlots, Tasks
<1>4. (\A q \in Tasks : qp[q] = q /\ mem[q] = "live" =>
          (rx[q] # NULL => sock[rx[q]] \in Here) /\ (tx[q] \in Rs => sock[tx[q]] \in Here))'
  BY <1>1, <1>3 DEF PreSocks, Quiet, Tasks
<1>5. (\A t \in Tasks \ Pooled : pc[t] = "done" /\ sock[t] \in Here =>
          \E u \in Tasks : pc[u] \in Holds /\ Peer(u) = t)'
  BY <1>1, <1>2 DEF PreSocks, Quiet
<1>6. Pooled \subseteq Tasks
  BY Constants DEF Pooled
<1> QED BY <1>1, <1>4, <1>5, <1>6 DEF PreSocks, Quiet, Tasks

\* Before the first SYN there is nothing.
LEMMA InitPreInv == PreInit => PreInv
<1> SUFFICES ASSUME PreInit PROVE PreInv
  OBVIOUS
<1>1. PoolInv
  BY InitPoolInv
<1>2. Pooled = {}
  BY DEF Pooled, PreInit
<1> USE QpConstants DEF PreInit, Init
<1>3. PreType /\ OneBusy /\ PreKinds /\ PreOwned /\ PreOwnQp
  BY <1>2 DEF PreType, OneBusy, PreKinds, PreOwned, PreOwnQp, SockPtr, PreWay, UnderWay, Busy, Forwarding, Tasks
<1>4. PreSlots /\ PrePlaces
  BY <1>2 DEF PreSlots, PrePlaces, PreAttached, Attached, Holds, InTree, Forwarding, Tasks
<1>5. PreRefs
  BY DEF PreRefs, LHolds, RHolds, Holds, Tasks
<1>6. PreKeys /\ PreSocks /\ OnlyLinkedErased
  BY <1>2 DEF PreKeys, PreSocks, OnlyLinkedErased, Forwarding, Here, Tasks
<1> QED BY <1>1, <1>3, <1>4, <1>5, <1>6 DEF PreInv, PairInv

\* Every step starts from a kernel that is up.
LEMMA PreStepsNeedAKernel == PreNext => oops = "none"
<1>1. PoolStep => oops = "none"
  BY DEF PoolStep, PreallocFails, get_rb_preconn, NoPreconnMemory, InitPreconnFails, add_rb_preconn,
         add_preconn_qp, preconn_proc_command, preconn_write_cb, prealloc_connection_pool, RefillCpu
<1>2. ASSUME NEW t \in Tasks, PlainStep(t) PROVE oops = "none"
  BY <1>2, StepsNeedAKernel DEF PlainStep, Next
<1>3. ASSUME NEW t \in Pre, PreStep(t) PROVE oops = "none"
  BY <1>3
  DEF PreStep, AllocEmpty, AllocConn, NoListner, PreStart, Forward, ForwardFails, ForwardStale, Fallback,
      PreCheck, RDrop, JoinTest, AdoptTo, ReadyTest, get_qp, WaitDone, WaitTimeout, TimeoutDeTree, TimeoutPut,
      HalfDuplexEnds, StaleAccess, Environment, HalfDuplexNoMem, HalfDuplexSendFails, PeerCloses, MayRun
<1> QED BY <1>1, <1>2, <1>3 DEF PreNext

\* The tree is changed through get_qp and after a time-out, with the QP in it.
LEMMA NextLinkedErased ==
    ASSUME PreSetting, OnlyLinkedErased, PreNext
    PROVE  OnlyLinkedErased'
<1> USE DEF OnlyLinkedErased
<1>1. ASSUME NEW t \in Tasks, get_qp(t) PROVE oops' # "rb_erase"
  BY <1>1, PreGetEffect DEF Gets
<1>2. ASSUME NEW t \in Tasks, TimeoutDeTree(t) PROVE oops' # "rb_erase"
  <2>1. qp[t] \in tree
    BY <1>2 DEF TimeoutDeTree, PreSetting, PairInv, PrePlaces, InTree
  <2> QED BY <1>2, <2>1 DEF TimeoutDeTree, de_tree_qp
<1>3. CASE PoolStep
  BY <1>3 DEF PoolStep, PreallocFails, get_rb_preconn, NoPreconnMemory, InitPreconnFails, add_rb_preconn,
         add_preconn_qp, preconn_proc_command, preconn_write_cb, prealloc_connection_pool, RefillCpu, vars
<1>4. ASSUME NEW t \in Tasks, PlainStep(t) PROVE oops' # "rb_erase"
  BY <1>1, <1>2, <1>4
  DEF PlainStep, Step, Environment, LStep, RStep, Accept, LSetupFails, LStart, LDrop, RStart, RDrop, RConnect,
      RLateConnect, RConnectFails, JoinTest, Adopt, AdoptTo, ReadyTest, WaitDone, WaitTimeout, TimeoutPut, PutAndEnd,
      Check, HalfDuplexEnds, StaleAccess, HalfDuplexNoMem, HalfDuplexSendFails, PeerCloses
<1>5. ASSUME NEW t \in Pre, PreStep(t) PROVE oops' # "rb_erase"
  <2>1. t \in Tasks
    BY Constants
  <2> QED
    BY <1>1, <1>2, <1>5, <2>1
    DEF PreStep, AllocEmpty, AllocConn, TakeFirst, NoListner, PreStart, Forward, ForwardFails, ForwardStale, Fallback,
        PreCheck, RDrop, JoinTest, AdoptTo, ReadyTest, WaitDone, WaitTimeout, TimeoutPut, PutAndEnd,
        HalfDuplexEnds, StaleAccess, Environment, HalfDuplexNoMem, HalfDuplexSendFails, PeerCloses, vars
<1> QED BY <1>3, <1>4, <1>5 DEF PreNext

\* Every step keeps the invariant.
LEMMA NextPreInv ==
    ASSUME ~Preempt
    PROVE  PreInv /\ [PreNext]_preVars => PreInv'
<1> SUFFICES ASSUME PreInv, [PreNext]_preVars PROVE PreInv'
  OBVIOUS
<1> USE DEF PreInv
<1>1. PoolInv'
  BY NextPoolInv
<1>2. PreSetting
  BY PreStepFacts
<1>3. OnlyLinkedErased'
  BY <1>2, NextLinkedErased DEF preVars, vars, OnlyLinkedErased
<1>4. oops' = "none" => oops = "none"
  BY PreStepsNeedAKernel DEF preVars, vars
<1>5. CASE Quiet
  BY <1>1, <1>3, <1>4, <1>5, QuietPairs, QuietSocks
<1>6. CASE \E t \in Tasks : PairStep(t)
  <2> PICK t \in Tasks : PairStep(t)
    BY <1>6
  <2>1. PreType' /\ OneBusy' /\ PreKinds' /\ PreOwned' /\ PreOwnQp'
    BY <1>2, NextPreType, NextPreBusy, NextPreKinds, NextPreOwned, NextPreOwnQp
  <2>2. PreSlots' /\ PrePlaces' /\ PreRefs'
    BY <1>2, NextPreSlots, NextPrePlaces, NextPreRefs
  <2>3. PreKeys'
    BY <1>2, NextPreKeys
  <2>4. oops' = "none" => PreSocks'
    BY <1>2, <1>4, NextPreSocks
  <2> QED BY <1>1, <1>3, <2>1, <2>2, <2>3, <2>4 DEF PairInv
<1> QED BY <1>5, <1>6, PairSteps

\* It holds throughout.
LEMMA SpecPreInv ==
    ASSUME ~Preempt
    PROVE  PreSpec => []PreInv
<1>1. PreInit => PreInv
  BY InitPreInv
<1>2. PreInv /\ [PreNext]_preVars => PreInv'
  BY NextPreInv
<1> QED BY <1>1, <1>2, PTL DEF PreSpec

----
(* What follows.                                                           *)

\* On a kernel that does not preempt, for any tasks, keys, CPUs and pools: a task
\* that cannot send the four-tuple ahead finds the QP with its own connection, and
\* nothing else, when it calls start_new_connection_syn.
THEOREM FallbackIsADoubleSyn ==
    ASSUME ~Preempt
    PROVE  PreSpec => []FallbackFindsItself
<1>1. PreSpec => []PreInv
  BY SpecPreInv
<1>2. ASSUME PreInv PROVE FallbackFindsItself
  <2> SUFFICES ASSUME NEW t \in Pre, pc[t] = "fallback"
               PROVE  Found(t) = {qp[t]} /\ tx[qp[t]] = t
    BY DEF FallbackFindsItself
  <2> USE <1>2 DEF PreInv, PairInv
  <2>1. t \in Rs /\ t \in Tasks
    BY Constants
  <2>2. qp[t] \in tree /\ Cpu(qp[t]) = Cpu(t) /\ tx[qp[t]] = t
    BY <2>1 DEF PrePlaces, PreOwned, PreSlots, PreWay, PreAttached, Forwarding
  <2>3. SameKey(key[t], key[qp[t]])
    BY <2>1 DEF PreKeys, Forwarding
  <2>4. ASSUME NEW q \in Found(t) PROVE q = qp[t]
    <3>1. q \in tree /\ Cpu(q) = Cpu(t) /\ SameKey(key[t], key[q])
      BY <2>4 DEF Found
    <3>2. SameKey(key[q], key[qp[t]])
      BY <2>3, <3>1, SameKeySymmetric, SameKeyTransitive
    <3> QED BY <2>2, <3>1, <3>2 DEF PreKeys
  <2> QED BY <2>2, <2>3, <2>4 DEF Found
<1> QED BY <1>1, <1>2, PTL

\* On a kernel that does not preempt, for any tasks, keys, CPUs and pools: a QP in
\* the tree waits for a reference, and is alive unless it holds a connection from
\* a pool; no second reference and no time-out erases a node that is not in it.
THEOREM PendingUnlessPooled ==
    ASSUME ~Preempt
    PROVE  PreSpec => []OnlyPreConnsDangle
<1>1. PreSpec => []PreInv
  BY SpecPreInv
<1>2. ASSUME PreInv PROVE OnlyPreConnsDangle
  <2> SUFFICES ASSUME NEW q \in tree
               PROVE  ref_cnt[q] < 2 /\ (mem[q] = "live" \/ (tx[q] \in Pre /\ conn[tx[q]] # NULL))
    BY <1>2 DEF OnlyPreConnsDangle, PreInv, OnlyLinkedErased
  <2> USE <1>2 DEF PreInv, PairInv
  <2>1. ref_cnt[q] < 2 /\ mem[q] = IF Dead(q) THEN "freed" ELSE "live"
    BY DEF PreRefs
  <2>2. ASSUME Dead(q) PROVE Exposed(q)
    BY <2>2 DEF Dead, PreSlots, InTree
  <2> QED BY <2>1, <2>2 DEF Exposed, Pooled
<1> QED BY <1>1, <1>2, PTL

\* On a kernel that does not preempt, for any tasks, keys, CPUs and pools: the QP
\* and the sockets of a task in half_duplex are there until it gives its reference
\* back.
THEOREM CopiesAreProtected ==
    ASSUME ~Preempt
    PROVE  PreSpec => []CopyingIsProtected
<1>1. PreSpec => []PreInv
  BY SpecPreInv
<1>2. ASSUME PreInv PROVE CopyingIsProtected
  <2> SUFFICES ASSUME oops = "none", NEW t \in Tasks, pc[t] = "half_duplex"
               PROVE  mem[qp[t]] = "live" /\ sock[src[t]] # "released" /\ sock[dst[t]] # "released"
    BY DEF CopyingIsProtected
  <2> USE <1>2 DEF PreInv, PairInv
  <2>1. mem[qp[t]] = "live" /\ qp[t] \in Tasks /\ qp[qp[t]] = qp[t]
    BY DEF PreRefs, PreType, PreOwned, PreWay, UnderWay, Holds
  <2>2. src[t] = t /\ dst[t] = Peer(t) /\ ~IS_ERR_OR_NULL(Peer(t)) /\ Mine(t) = t
    BY DEF PrePlaces, PreSlots, PreAttached, Attached, Holds, Mine, Tasks
  <2>3. rx[qp[t]] # NULL /\ tx[qp[t]] \in Rs /\ {t, Peer(t)} = {rx[qp[t]], tx[qp[t]]}
    BY <2>1, <2>2, QpConstants DEF Mine, Peer, IS_ERR_OR_NULL, PreSlots, Tasks
  <2>4. sock[t] \in Here /\ sock[Peer(t)] \in Here
    BY <2>1, <2>3 DEF PreSocks
  <2> QED BY <2>1, <2>2, <2>4 DEF Here
<1> QED BY <1>1, <1>2, PTL

\* On a kernel that does not preempt, for any tasks, keys, CPUs and pools: only
\* connections from a pool are left open when all tasks have ended.
THEOREM OthersAreReleased ==
    ASSUME ~Preempt
    PROVE  PreSpec => []OnlyPooledConnsLeak
<1>1. PreSpec => []PreInv
  BY SpecPreInv
<1>2. ASSUME PreInv PROVE OnlyPooledConnsLeak
  <2> SUFFICES ASSUME oops = "none", \A t \in Tasks : pc[t] \in {"start", "done"},
                      NEW t \in Tasks, sock[t] \in Here
               PROVE  t \in Pooled
    BY DEF OnlyPooledConnsLeak, Here, Pooled
  <2>1. PreSocks
    BY <1>2 DEF PreInv
  <2> QED BY <2>1 DEF PreSocks, Holds, Here, Tasks
<1> QED BY <1>1, <1>2, PTL

\* On a kernel that does not preempt, for any tasks, keys, CPUs and pools: the two
\* references of a QP are all it ever gets, with connections from a pool too.
THEOREM PooledRefCounts ==
    ASSUME ~Preempt
    PROVE  PreSpec => []RefCountPossible
<1>1. PreSpec => []PreInv
  BY SpecPreInv
<1>2. PreInv => RefCountPossible
  BY DEF PreInv, PairInv, PreRefs, RefCountPossible
<1> QED BY <1>1, <1>2, PTL

\* On a kernel that does not preempt, for any tasks, keys, CPUs and pools: a task
\* reads its own socket, and tasks that share a socket are the two directions of
\* one QP, with connections from a pool too.
THEOREM PooledDirectionsApart ==
    ASSUME ~Preempt
    PROVE  PreSpec => []NoCrossTalk
<1>1. PreSpec => []PreInv
  BY SpecPreInv
<1>2. ASSUME PreInv PROVE NoCrossTalk
  <2> SUFFICES ASSUME NEW t \in Tasks, NEW u \in Tasks, pc[t] = "half_duplex", pc[u] = "half_duplex"
               PROVE  /\ src[t] = t
                      /\ t # u /\ {src[t], dst[t]} \cap {src[u], dst[u]} # {}
                           => qp[t] = qp[u] /\ src[t] = dst[u] /\ dst[t] = src[u]
    BY DEF NoCrossTalk
  <2>1. PreSetting
    BY <1>2, PreStepFacts DEF PreInv
  <2> USE <2>1 DEF PreSetting, PairInv
  <2>2. src[t] = t /\ src[u] = u /\ dst[t] = Peer(t) /\ dst[u] = Peer(u)
    BY DEF PrePlaces
  <2>3. \A v \in {t, u} : /\ qp[v] \in Tasks /\ qp[qp[v]] = qp[v]
                          /\ Peer(v) \in Tasks /\ qp[Peer(v)] = qp[v]
                          /\ (v \in Ls <=> Peer(v) \in Rs)
    BY DEF PrePlaces, PreSlots, PreType, PreOwned, PreWay, UnderWay, Peer, IS_ERR_OR_NULL
  <2>4. ASSUME t # u, qp[t] = qp[u]
        PROVE  Peer(t) = u /\ Peer(u) = t
    BY <2>4 DEF PreSlots, PreAttached, Attached, Holds, Peer
  <2> QED BY <2>2, <2>3, <2>4
<1> QED BY <1>1, <1>2, PTL
====
