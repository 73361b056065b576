---- MODULE ThreadPool_proofs ----
(***************************************************************************)
(* Proofs about the kthread pool, for any number of CPUs, threads, runners *)
(* and magazines, any depth, and any failures of kzalloc, kmem_cache_alloc *)
(* and kthread_create.                                                     *)
(***************************************************************************)
EXTENDS ThreadPool, MagAllocator_proofs

----
(* The inductive invariant: who has which thread.                          *)

\* Thread e can be handed out by an allocation, now or after the free of it
\* that waits for the lock.
Stored(e) == \E m \in Mags, i \in Slots : Occupied(m, i) /\ stack[m][i] = e

Quiet == {"asleep", "schedule", "err_ptr"}
TPcs == Quiet \cup {"none", "running", "task", "reuse", "depot"}

\* Runner r has taken a thread from the pool and not woken it yet.
HasThread(r) == run[r].pc \in {"assign", "bind"}

PoolTypeOK ==
    /\ pool_task \in [Elems -> Runners \cup {NULL}]
    /\ tpc \in [Elems -> TPcs]
    /\ tcpu \in [Elems -> Cpus \cup {NULL}]
    /\ unint \in [Elems -> BOOLEAN]
    /\ run \in [Runners -> [pc : {"idle", "alloc", "depot", "assign", "bind"},
                            cpu : Cpus \cup {NULL}, ctx : Contexts \cup {NULL},
                            elem : Elems \cup {NULL}]]
    /\ job \in [Runners -> {"none", "dropped", "assigned", "running"}]
    /\ refil \in [pc : {"read", "loop", "free", "depot", "returned", "interruptible", "asleep"},
                  count : Nat, elem : Elems \cup {NULL}]
    /\ pool_err \in {"none", "err_ptr"}

\* What the pool knows of a thread in each place of pipe_loop_task.
ThreadOK(e) ==
    /\ tpc[e] = "none" => e \notin held /\ ~Stored(e) /\ pool_task[e] = NULL
    /\ tpc[e] \in {"running", "task"} => e \in Freeable /\ pool_task[e] # NULL
    /\ tpc[e] = "reuse" => e \in Freeable /\ pool_task[e] = NULL
    /\ tpc[e] = "depot" => tcpu[e] \in Cpus /\ op[tcpu[e]].elem = e
    /\ tpc[e] \in Quiet \cup {"reuse", "depot"} => unint[e]

\* A thread in the pool has no job and is not awake.
PooledOK(e) == Stored(e) => tpc[e] \in Quiet \cup {"depot"} /\ pool_task[e] = NULL

\* A runner past the allocation has a sleeping thread to itself.
RunnerOK(r) ==
    /\ run[r].pc # "idle" => run[r].cpu \in Cpus /\ run[r].ctx \in Contexts
    /\ run[r].pc \in {"alloc", "depot", "assign"} => job[r] = "none"
    /\ HasThread(r) => run[r].elem \in Freeable /\ tpc[run[r].elem] \in Quiet
    /\ run[r].pc = "assign" => pool_task[run[r].elem] = NULL
    /\ run[r].pc = "bind" => pool_task[run[r].elem] = r
    /\ \A s \in Runners : s # r /\ HasThread(s) /\ HasThread(r) => run[s].elem # run[r].elem

\* So has the refill thread, until the thread it created is in the pool.
RefilOK ==
    /\ refil.pc = "free" => /\ refil.elem \in Freeable
                            /\ tpc[refil.elem] \in Quiet /\ pool_task[refil.elem] = NULL
                            /\ \A r \in Runners : HasThread(r) => run[r].elem # refil.elem
    /\ refil.pc = "depot" => /\ refil.elem \in held \ Freeable
                             /\ tpc[refil.elem] \in Quiet
    /\ refil.pc \in {"free", "depot"} => refil.elem \in Elems

\* A thread and its job know each other.
JobOK ==
    /\ \A e \in Elems : pool_task[e] # NULL =>
          job[pool_task[e]] = (IF tpc[e] = "task" THEN "running" ELSE "assigned")
    /\ \A e, f \in Elems : pool_task[e] # NULL /\ pool_task[e] = pool_task[f] => e = f
    /\ \A r \in Runners : job[r] \in {"assigned", "running"} => \E e \in Elems : pool_task[e] = r

PInv ==
    /\ RInv /\ PoolTypeOK
    /\ \A e \in Elems : ThreadOK(e) /\ PooledOK(e)
    /\ \A r \in Runners : RunnerOK(r)
    /\ RefilOK /\ JobOK

----
(* What the allocator's calls do to its users.                             *)

\* The calls under way on the CPUs, by the element they free.
SameOps == \A d \in Cpus : op'[d].elem = op[d].elem

\* An allocation returns e.
Gives(e) ==
    /\ e \in Elems \ held /\ Stored(e)
    /\ held' = held \cup {e} /\ Freeable' = Freeable \cup {e}
    /\ \A f \in Elems : Stored(f)' => Stored(f) /\ f # e
    /\ SameOps

\* A free of e on CPU c returns, or waits for the lock.
Accepts(c, e) ==
    /\ held' = held \/ (held' = held \ {e} /\ op'[c] = Idle)
    /\ Freeable' = Freeable \ {e}
    /\ \A f \in Elems : Stored(f)' => Stored(f) \/ f = e
    /\ op[c].elem = NULL /\ (op'[c] = Idle \/ op'[c].elem = e)
    /\ \A d \in Cpus : d # c => op'[d].elem = op[d].elem

\* The end of a free that waited for the lock on CPU c.
Completes(c) ==
    /\ held' = held \ {op[c].elem} /\ Freeable' = Freeable
    /\ \A f \in Elems : Stored(f)' => Stored(f)
    /\ \A d \in Cpus : d # c => op'[d].elem = op[d].elem

\* Nothing a user can tell.
Nothing ==
    /\ held' = held /\ Freeable' = Freeable
    /\ \A f \in Elems : Stored(f)' => Stored(f)
    /\ SameOps

\* A CPU in the middle of a call frees an element that is held, or none.
LEMMA OpElems ==
    ASSUME RInv
    PROVE  \A d \in Cpus : op[d].elem = NULL \/ op[d].elem \in held
<1> SUFFICES ASSUME NEW d \in Cpus PROVE op[d].elem = NULL \/ op[d].elem \in held
  OBVIOUS
<1>1. OpOK(d)
  BY DEF RInv, IInv, CountsOK
<1> QED BY <1>1 DEF OpOK, Idle

\* mag_alloc_elem that returns an element.
LEMMA AllocGives ==
    ASSUME RInv, NEW c \in Cpus, NEW e,
           (\E x \in Contexts : AllocLocal(c, x, e)) \/ switch_empty(c, e)
    PROVE  RInv' /\ Gives(e)
<1>1. IInv /\ ElemsUnique /\ OpStored
  BY DEF RInv
<1>2. /\ ElemsUnique'
      /\ e \in Elems \ held /\ held' = held \cup {e}
      /\ \A n \in Mags, j \in Slots : Occupied(n, j)' => Occupied(n, j) /\ stack'[n][j] # e
      /\ \E m \in Mags, i \in Slots : Occupied(m, i) /\ stack[m][i] = e
      /\ stack' = stack
      /\ \A d \in Cpus : op'[d].elem = op[d].elem
  BY <1>1, AllocElems
<1>3. IInv'
  BY <1>1, AllocLocalIInv, SwitchEmptyIInv
<1>4. OpStored'
  BY <1>1, <1>2, NextOpStored
<1>5. Freeable' = Freeable \cup {e}
  <2>1. \A d \in Cpus : op[d].elem # e
    BY <1>2, OpElems, DepthFacts
  <2> QED BY <1>2, <2>1 DEF Freeable
<1>6. Stored(e) /\ \A f \in Elems : Stored(f)' => Stored(f) /\ f # e
  BY <1>2 DEF Stored
<1> QED BY <1>1, <1>2, <1>3, <1>4, <1>5, <1>6 DEF RInv, Gives, SameOps

\* mag_free_elem up to the lock.
LEMMA FreeAccepts ==
    ASSUME RInv, NEW c \in Cpus, NEW x \in Contexts, NEW e \in Freeable, Free(c, x, e)
    PROVE  RInv' /\ Accepts(c, e)
<1>1. IInv /\ ElemsUnique /\ OpStored /\ op \in [Cpus -> Ops]
  BY DEF RInv, IInv, TypeOK
<1>2. IInv' /\ ElemsUnique' /\ OpStored' /\ Freeable' = Freeable \ {e}
  BY <1>1, FreeIInv, FreeElems, NextOpStored
<1>3. PICK m \in Mags, i \in Slots :
                /\ ~Occupied(m, i) /\ MoreSlot(m, i)
                /\ stack'[m][i] = e
                /\ \A n \in Mags, j \in Slots : ~(n = m /\ j = i) => stack'[n][j] = stack[n][j]
  BY <1>1, FreeSlots
<1>4. /\ op[c] = Idle
      /\ \/ op' = [op EXCEPT ![c] = [call |-> "free", ctx |-> x, elem |-> e]] /\ held' = held
         \/ op' = op /\ held' = held \ {e}
  BY <1>1, FreeSlots
<1>5. \A f \in Elems : Stored(f)' => Stored(f) \/ f = e
  BY <1>3 DEF Stored, MoreSlot
<1>6. /\ op[c].elem = NULL /\ (op'[c] = Idle \/ op'[c].elem = e)
      /\ \A d \in Cpus : d # c => op'[d].elem = op[d].elem
      /\ held' = held \/ (held' = held \ {e} /\ op'[c] = Idle)
  <2>1. CASE op' = [op EXCEPT ![c] = [call |-> "free", ctx |-> x, elem |-> e]] /\ held' = held
    BY <1>1, <1>4, <2>1 DEF Idle
  <2>2. CASE op' = op /\ held' = held \ {e}
    BY <1>4, <2>2 DEF Idle
  <2> QED BY <1>4, <2>1, <2>2
<1> QED BY <1>2, <1>5, <1>6 DEF RInv, Accepts

\* mag_free_elem from the lock on.
LEMMA SwitchFullCompletes ==
    ASSUME RInv, NEW c \in Cpus, switch_full(c)
    PROVE  RInv' /\ Completes(c)
<1>1. IInv /\ ElemsUnique /\ OpStored /\ op \in [Cpus -> Ops]
  BY DEF RInv, IInv, TypeOK
<1>2. /\ ElemsUnique' /\ Freeable' = Freeable /\ SameSlots /\ stack' = stack
  BY <1>1, QuietElems
<1>3. IInv' /\ OpStored'
  BY <1>1, SwitchFullIInv, NextOpStored
<1>4. /\ op[c].elem \in held /\ held' = held \ {op[c].elem}
      /\ op' = [op EXCEPT ![c] = Idle]
  BY <1>1, SwitchFullSlots
<1>5. \A d \in Cpus : d # c => op'[d].elem = op[d].elem
  BY <1>1, <1>4
<1>6. \A f \in Elems : Stored(f)' => Stored(f)
  BY <1>2 DEF Stored, SameSlots
<1> QED BY <1>2, <1>3, <1>4, <1>5, <1>6 DEF RInv, Completes

\* mag_alloc_elem before the lock, and one that finds the depot empty.
LEMMA QuietNothing ==
    ASSUME RInv, NEW c \in Cpus,
           (\E x \in Contexts : AllocNeedsDepot(c, x)) \/ switch_empty_fails(c)
    PROVE  RInv' /\ Nothing
<1>1. IInv /\ ElemsUnique /\ OpStored
  BY DEF RInv
<1>2. /\ ElemsUnique' /\ Freeable' = Freeable /\ SameSlots /\ stack' = stack
  BY <1>1, QuietElems
<1>3. IInv' /\ OpStored'
  BY <1>1, AllocNeedsDepotIInv, SwitchEmptyFailsIInv, NextOpStored
<1>4. held' = held /\ \A d \in Cpus : op'[d].elem = op[d].elem
  BY <1>1, QuietSlots
<1>5. \A f \in Elems : Stored(f)' => Stored(f)
  BY <1>2 DEF Stored, SameSlots
<1> QED BY <1>2, <1>3, <1>4, <1>5 DEF RInv, Nothing, SameOps

\* A step that leaves the allocator alone.
LEMMA MagSame ==
    ASSUME RInv, UNCHANGED magVars
    PROVE  RInv' /\ Nothing
<1>1. UNCHANGED <<stack, mags, count, full_list, empty_list, full_count, empty_count, fresh, op, held, panic>>
  BY DEF magVars, depotVars
<1>2. IInv'
  BY NextIInv DEF RInv
<1>3. ElemsUnique' /\ OpStored'
  BY <1>1 DEF RInv, ElemsUnique, OpStored, Freeable, Occupied, InPair, InFull
<1>4. Freeable' = Freeable /\ \A f \in Elems : Stored(f)' => Stored(f)
  BY <1>1 DEF Freeable, Stored, Occupied, InPair, InFull
<1> QED BY <1>1, <1>2, <1>3, <1>4 DEF RInv, Nothing, SameOps

\* kthread_create makes an element that no one had.
LEMMA CreateGives ==
    ASSUME RInv, NEW e \in Elems, e \notin held, ~Stored(e),
           held' = held \cup {e}, UNCHANGED <<stack, mags, count, depotVars, op, panic>>
    PROVE  /\ RInv' /\ Freeable' = Freeable \cup {e}
           /\ \A f \in Elems : Stored(f)' => Stored(f)
           /\ SameOps
<1>1. UNCHANGED <<stack, mags, count, full_list, empty_list, full_count, empty_count, fresh, op, panic>>
  BY DEF depotVars
<1>2. \A d \in Cpus : OpOK(d)
  BY DEF RInv, IInv, CountsOK
<1>3. \A d \in Cpus : op[d].elem = NULL \/ op[d].elem \in held
  BY OpElems
<1>4. Freeable' = Freeable \cup {e}
  BY <1>1, <1>3, DepthFacts DEF Freeable
<1>5. IInv'
  <2>1. TypeOK' /\ AssertsHold' /\ NotOverdrawn'
    BY <1>1 DEF RInv, IInv, TypeOK, AssertsHold, NotOverdrawn
  <2>2. \A p \in Pairs : PairOK(p)'
    BY <1>1 DEF RInv, IInv, CountsOK, PairOK
  <2>3. \A d \in Cpus : OpOK(d)'
    BY <1>1, <1>2 DEF OpOK
  <2>4. CountsOK'
    BY <1>1, <2>2, <2>3 DEF RInv, IInv, CountsOK
  <2>5. MagsUnique'
    BY <1>1 DEF RInv, IInv, MagsUnique
  <2> QED BY <2>1, <2>4, <2>5 DEF IInv
<1>6. \A m \in Mags, i \in Slots : Occupied(m, i)' <=> Occupied(m, i)
  BY <1>1 DEF Occupied, InPair, InFull
<1>7. ElemsUnique' /\ OpStored'
  BY <1>1, <1>4, <1>6 DEF RInv, ElemsUnique, OpStored, Stored
<1>8. \A f \in Elems : Stored(f)' => Stored(f)
  BY <1>1, <1>6 DEF Stored
<1> QED BY <1>1, <1>4, <1>5, <1>7, <1>8 DEF RInv, SameOps

----
(* Every step keeps the invariant.                                         *)

\* A held element that no call is freeing is not in the pool.
LEMMA FreeableNotStored ==
    ASSUME RInv, NEW e \in Elems, Stored(e)
    PROVE  e \notin Freeable
BY DEF RInv, ElemsUnique, Stored

\* The refill thread between two threads it creates, and a step of no actor.
LEMMA RefillQuietPInv ==
    ASSUME PInv, UNCHANGED <<magVars, threadVars, run, job, pool_err>>,
           refil' \in [pc : {"read", "loop", "free", "depot", "returned", "interruptible", "asleep"},
                       count : Nat, elem : Elems \cup {NULL}],
           refil'.pc \in {"free", "depot"} => refil' = refil
    PROVE  PInv'
<1>1. RInv' /\ Nothing
  BY MagSame DEF PInv
<1>2. UNCHANGED <<pool_task, tpc, tcpu, unint, run, job, pool_err>>
  BY DEF threadVars
<1>3. PoolTypeOK'
  BY <1>2 DEF PInv, PoolTypeOK
<1>4. ASSUME NEW e \in Elems PROVE ThreadOK(e)'
  BY <1>1, <1>2 DEF PInv, ThreadOK, Nothing, SameOps
<1>5. ASSUME NEW e \in Elems PROVE PooledOK(e)'
  BY <1>1, <1>2 DEF PInv, PooledOK, Nothing
<1>6. ASSUME NEW r \in Runners PROVE RunnerOK(r)'
  BY <1>1, <1>2 DEF PInv, RunnerOK, HasThread, Nothing
<1>7. RefilOK'
  BY <1>1, <1>2 DEF PInv, RefilOK, HasThread, Nothing
<1>8. JobOK'
  BY <1>2 DEF PInv, JobOK
<1> QED BY <1>1, <1>3, <1>4, <1>5, <1>6, <1>7, <1>8 DEF PInv

\* RefillRead, RefillReturn, RefillSetState and RefillSchedule.
LEMMA RefillIdlePInv ==
    ASSUME PInv, RefillRead \/ RefillReturn \/ RefillSetState \/ RefillSchedule
    PROVE  PInv'
<1>1. UNCHANGED <<magVars, threadVars, run, job, pool_err>>
  BY DEF RefillRead, RefillReturn, RefillSetState, RefillSchedule
<1>2. refil \in [pc : {"read", "loop", "free", "depot", "returned", "interruptible", "asleep"},
                 count : Nat, elem : Elems \cup {NULL}]
  BY DEF PInv, PoolTypeOK
<1>3. RefillCount \in Nat
  <2>1. pool_size \in Nat /\ full_count \in Nat /\ MAG_DEPTH \in Nat
    BY PoolConstants, DepthFacts DEF PInv, RInv, IInv, TypeOK
  <2>2. full_count * MAG_DEPTH \in Int
    BY <2>1
  <2> QED BY <2>1, <2>2 DEF RefillCount
<1>4. /\ refil' \in [pc : {"read", "loop", "free", "depot", "returned", "interruptible", "asleep"},
                     count : Nat, elem : Elems \cup {NULL}]
      /\ refil'.pc \notin {"free", "depot"}
  <2>1. CASE RefillRead
    BY <1>2, <1>3, <2>1 DEF RefillRead
  <2>2. CASE RefillReturn
    BY <1>2, <2>2 DEF RefillReturn
  <2>3. CASE RefillSetState
    BY <1>2, <2>3 DEF RefillSetState
  <2>4. CASE RefillSchedule
    BY <1>2, <2>4 DEF RefillSchedule
  <2> QED BY <2>1, <2>2, <2>3, <2>4
<1> QED BY <1>1, <1>4, RefillQuietPInv

\* refill_pool creates a thread.
LEMMA RefillCreatePInv ==
    ASSUME PInv, NEW e \in Elems, RefillCreate(e)
    PROVE  PInv'
<1>1. /\ refil.pc = "loop" /\ refil.count > 0 /\ tpc[e] = "none"
      /\ \E v \in {"asleep", "err_ptr"} : tpc' = [tpc EXCEPT ![e] = v]
      /\ unint' = [unint EXCEPT ![e] = TRUE]
      /\ pool_task' = [pool_task EXCEPT ![e] = NULL]
      /\ held' = held \cup {e}
      /\ refil' = [pc |-> "free", count |-> refil.count - 1, elem |-> e]
      /\ UNCHANGED <<stack, mags, count, depotVars, op, panic>>
      /\ UNCHANGED <<tcpu, run, job, pool_err>>
  BY DEF RefillCreate
<1>2. RInv /\ PoolTypeOK /\ RefilOK /\ JobOK /\ ThreadOK(e)
  BY DEF PInv
<1>3. e \notin held /\ ~Stored(e) /\ pool_task[e] = NULL
  BY <1>1, <1>2 DEF ThreadOK
<1>4. /\ RInv' /\ Freeable' = Freeable \cup {e}
      /\ \A f \in Elems : Stored(f)' => Stored(f)
      /\ SameOps
  BY <1>1, <1>2, <1>3, CreateGives
<1>5. /\ \A f \in Elems : f # e => tpc'[f] = tpc[f] /\ unint'[f] = unint[f]
      /\ tpc'[e] \in {"asleep", "err_ptr"} /\ unint'[e] = TRUE /\ pool_task' = pool_task
  BY <1>1, <1>2, <1>3 DEF PoolTypeOK
<1>6. PoolTypeOK'
  <2>1. tpc' \in [Elems -> TPcs] /\ unint' \in [Elems -> BOOLEAN]
    BY <1>1, <1>2 DEF PoolTypeOK, TPcs, Quiet
  <2>2. refil'.count \in Nat /\ refil' \in [pc : {"free"}, count : Int, elem : Elems \cup {NULL}]
    BY <1>1, <1>2 DEF PoolTypeOK
  <2> QED BY <1>1, <1>2, <1>5, <2>1, <2>2 DEF PoolTypeOK
<1>7. ASSUME NEW f \in Elems PROVE ThreadOK(f)'
  <2>1. ThreadOK(f)
    BY DEF PInv
  <2>2. CASE f = e
    BY <1>3, <1>5, <2>2 DEF ThreadOK, Quiet
  <2>3. CASE f # e
    BY <1>1, <1>4, <1>5, <2>1, <2>3 DEF ThreadOK, SameOps
  <2> QED BY <2>2, <2>3
<1>8. ASSUME NEW f \in Elems PROVE PooledOK(f)'
  <2>1. PooledOK(f)
    BY DEF PInv
  <2> QED BY <1>3, <1>4, <1>5, <2>1 DEF PooledOK
<1>9. ASSUME NEW r \in Runners PROVE RunnerOK(r)' /\ (HasThread(r)' => run'[r].elem # e)
  <2>1. RunnerOK(r)
    BY DEF PInv
  <2>2. HasThread(r) => run[r].elem \in Freeable /\ run[r].elem # e
    BY <1>3, <2>1 DEF RunnerOK, Freeable
  <2>3. Freeable \subseteq Elems
    BY <1>2 DEF RInv, IInv, TypeOK, Freeable
  <2> QED BY <1>1, <1>4, <1>5, <2>1, <2>2, <2>3 DEF RunnerOK, HasThread
<1>10. RefilOK'
  <2>1. e \in Freeable'
    BY <1>4
  <2> QED BY <1>1, <1>3, <1>5, <1>9, <2>1 DEF RefilOK, Quiet
<1>11. JobOK'
  BY <1>1, <1>2, <1>3, <1>5 DEF JobOK
<1> QED BY <1>4, <1>6, <1>7, <1>8, <1>9, <1>10, <1>11 DEF PInv

\* Facts about the users' elements that every step below needs.
LEMMA UserFacts ==
    ASSUME PInv
    PROVE  /\ RInv /\ PoolTypeOK /\ RefilOK /\ JobOK /\ Freeable \subseteq Elems
           /\ \A e \in Elems : ThreadOK(e)
           /\ \A e \in Elems : PooledOK(e)
           /\ \A r \in Runners : RunnerOK(r)
           /\ \A d \in Cpus : op[d].elem \notin Freeable
           /\ op \in [Cpus -> Ops]
<1>1. RInv /\ PoolTypeOK /\ RefilOK /\ JobOK
  BY DEF PInv
<1>2. Freeable \subseteq Elems /\ \A d \in Cpus : op[d].elem \notin Freeable
  BY <1>1 DEF RInv, IInv, TypeOK, Freeable
<1>3. op \in [Cpus -> Ops]
  BY <1>1 DEF RInv, IInv, TypeOK
<1> QED BY <1>1, <1>2, <1>3 DEF PInv

\* mag_free_elem of a new thread.
LEMMA RefillFreePInv ==
    ASSUME PInv, NEW c \in Cpus, RefillFree(c)
    PROVE  PInv'
<1>1. /\ refil.pc = "free" /\ Free(c, 0, refil.elem)
      /\ \/ op'[c] = Idle /\ refil' = [refil EXCEPT !.pc = "loop", !.elem = NULL]
         \/ op'[c] # Idle /\ refil' = [refil EXCEPT !.pc = "depot"]
      /\ UNCHANGED <<pool_task, tpc, tcpu, unint, run, job, pool_err>>
  BY DEF RefillFree, threadVars
<1>2. /\ RInv /\ PoolTypeOK /\ RefilOK /\ JobOK /\ Freeable \subseteq Elems
      /\ \A e \in Elems : ThreadOK(e)
      /\ \A e \in Elems : PooledOK(e)
      /\ \A r \in Runners : RunnerOK(r)
      /\ \A d \in Cpus : op[d].elem \notin Freeable
  BY UserFacts
<1>3. PICK e \in Elems : e = refil.elem
  BY <1>1, <1>2 DEF RefilOK
<1>4. /\ e \in Freeable /\ tpc[e] \in Quiet /\ pool_task[e] = NULL
      /\ \A r \in Runners : HasThread(r) => run[r].elem # e
  BY <1>1, <1>2, <1>3 DEF RefilOK
<1>5. RInv' /\ Accepts(c, e)
  <2>1. Free(c, 0, e)
    BY <1>1, <1>3
  <2>2. 0 \in Contexts
    BY PoolConstants
  <2> QED BY <1>2, <1>4, <2>1, <2>2, FreeAccepts
<1>6. PoolTypeOK'
  BY <1>1, <1>2 DEF PoolTypeOK
<1>7. ASSUME NEW f \in Elems PROVE ThreadOK(f)'
  <2>1. ThreadOK(f) /\ NULL \notin Elems
    BY <1>2, DepthFacts
  <2>2. tpc[f] = "depot" => tcpu[f] \in Cpus /\ tcpu[f] # c
    BY <1>5, <2>1 DEF ThreadOK, Accepts
  <2>3. tpc[f] \in {"none", "running", "task", "reuse"} => f # e
    BY <1>4 DEF Quiet
  <2>4. tpc'[f] = tpc[f] /\ pool_task'[f] = pool_task[f] /\ tcpu'[f] = tcpu[f] /\ unint'[f] = unint[f]
    BY <1>1
  <2> QED BY <1>5, <2>1, <2>2, <2>3, <2>4 DEF ThreadOK, Accepts
<1>8. ASSUME NEW f \in Elems PROVE PooledOK(f)'
  BY <1>1, <1>2, <1>4, <1>5 DEF PooledOK, Accepts
<1>9. ASSUME NEW r \in Runners PROVE RunnerOK(r)'
  <2>1. RunnerOK(r)
    BY <1>2
  <2> QED BY <1>1, <1>4, <1>5, <2>1 DEF RunnerOK, HasThread, Accepts
<1>10. RefilOK'
  <2>1. e \notin Freeable'
    BY <1>5 DEF Accepts
  <2>2. refil'.pc \in {"loop", "depot"} /\ (refil'.pc = "depot" => refil'.elem = e /\ op'[c] # Idle)
    BY <1>1, <1>2, <1>3 DEF PoolTypeOK
  <2>3. op'[c] # Idle => e \in held'
    BY <1>4, <1>5 DEF Accepts, Freeable
  <2> QED BY <1>1, <1>4, <2>1, <2>2, <2>3 DEF RefilOK
<1>11. JobOK'
  BY <1>1, <1>2 DEF JobOK
<1> QED BY <1>5, <1>6, <1>7, <1>8, <1>9, <1>10, <1>11 DEF PInv

\* The end of it, after the lock.
LEMMA RefillDepotPInv ==
    ASSUME PInv, NEW c \in Cpus, RefillDepot(c)
    PROVE  PInv'
<1>1. /\ refil.pc = "depot" /\ op[c].elem = refil.elem /\ switch_full(c)
      /\ refil' = [refil EXCEPT !.pc = "loop", !.elem = NULL]
      /\ UNCHANGED <<pool_task, tpc, tcpu, unint, run, job, pool_err>>
  BY DEF RefillDepot, threadVars
<1>2. /\ RInv /\ PoolTypeOK /\ RefilOK /\ JobOK
      /\ \A e \in Elems : ThreadOK(e)
      /\ \A e \in Elems : PooledOK(e)
      /\ \A r \in Runners : RunnerOK(r)
  BY UserFacts
<1>3. RInv' /\ Completes(c)
  BY <1>1, <1>2, SwitchFullCompletes
<1>4. tpc[op[c].elem] \in Quiet
  BY <1>1, <1>2 DEF RefilOK
<1>5. PoolTypeOK'
  BY <1>1, <1>2 DEF PoolTypeOK
<1>6. ASSUME NEW f \in Elems PROVE ThreadOK(f)'
  <2>1. ThreadOK(f)
    BY <1>2
  <2>2. tpc[f] = "depot" => tcpu[f] \in Cpus /\ tcpu[f] # c
    BY <1>4, <2>1 DEF ThreadOK, Quiet
  <2>3. tpc'[f] = tpc[f] /\ pool_task'[f] = pool_task[f] /\ tcpu'[f] = tcpu[f] /\ unint'[f] = unint[f]
    BY <1>1
  <2> QED BY <1>3, <2>1, <2>2, <2>3 DEF ThreadOK, Completes
<1>7. ASSUME NEW f \in Elems PROVE PooledOK(f)'
  BY <1>1, <1>2, <1>3 DEF PooledOK, Completes
<1>8. ASSUME NEW r \in Runners PROVE RunnerOK(r)'
  BY <1>1, <1>2, <1>3 DEF RunnerOK, HasThread, Completes
<1>9. RefilOK'
  <2>1. refil'.pc = "loop"
    BY <1>1, <1>2 DEF PoolTypeOK
  <2> QED BY <2>1 DEF RefilOK
<1>10. JobOK'
  BY <1>1, <1>2 DEF JobOK
<1> QED BY <1>3, <1>5, <1>6, <1>7, <1>8, <1>9, <1>10 DEF PInv

\* kthread_pool_run is called.
LEMMA RunStartPInv ==
    ASSUME PInv, NEW r \in Runners, NEW c \in Cpus, NEW x \in RunnerContexts, RunStart(r, c, x)
    PROVE  PInv'
<1>1. /\ run[r].pc = "idle" /\ job[r] \in {"none", "dropped"}
      /\ run' = [run EXCEPT ![r] = [pc |-> "alloc", cpu |-> c, ctx |-> x, elem |-> NULL]]
      /\ job' = [job EXCEPT ![r] = "none"]
      /\ refil' = (IF refil.pc \in {"interruptible", "asleep"} THEN [refil EXCEPT !.pc = "read"] ELSE refil)
      /\ UNCHANGED magVars
      /\ UNCHANGED <<pool_task, tpc, tcpu, unint, pool_err>>
  BY DEF RunStart, refill_task_start, threadVars
<1>2. /\ RInv /\ PoolTypeOK /\ RefilOK /\ JobOK
      /\ \A e \in Elems : ThreadOK(e)
      /\ \A e \in Elems : PooledOK(e)
      /\ \A s \in Runners : RunnerOK(s)
  BY UserFacts
<1>3. RInv' /\ Nothing
  BY <1>1, <1>2, MagSame
<1>4. x \in Contexts
  BY PoolConstants
<1>5. /\ run'[r].pc = "alloc" /\ run'[r].cpu = c /\ run'[r].ctx = x /\ job'[r] = "none"
      /\ \A s \in Runners : s # r => run'[s] = run[s] /\ job'[s] = job[s]
  BY <1>1, <1>2 DEF PoolTypeOK
<1>6. PoolTypeOK'
  <2>1. run' \in [Runners -> [pc : {"idle", "alloc", "depot", "assign", "bind"},
                              cpu : Cpus \cup {NULL}, ctx : Contexts \cup {NULL},
                              elem : Elems \cup {NULL}]]
    BY <1>1, <1>2, <1>4 DEF PoolTypeOK
  <2>2. refil' \in [pc : {"read", "loop", "free", "depot", "returned", "interruptible", "asleep"},
                    count : Nat, elem : Elems \cup {NULL}]
    BY <1>1, <1>2 DEF PoolTypeOK
  <2>3. job' \in [Runners -> {"none", "dropped", "assigned", "running"}]
    BY <1>1, <1>2 DEF PoolTypeOK
  <2> QED BY <1>1, <1>2, <2>1, <2>2, <2>3 DEF PoolTypeOK
<1>7. ASSUME NEW e \in Elems PROVE ThreadOK(e)'
  BY <1>1, <1>2, <1>3 DEF ThreadOK, Nothing, SameOps
<1>8. ASSUME NEW e \in Elems PROVE PooledOK(e)'
  BY <1>1, <1>2, <1>3 DEF PooledOK, Nothing
<1>9. \A s \in Runners : HasThread(s)' => HasThread(s) /\ s # r
  BY <1>5 DEF HasThread
<1>10. ASSUME NEW s \in Runners PROVE RunnerOK(s)'
  <2>1. RunnerOK(s)
    BY <1>2
  <2>2. CASE s = r
    BY <1>4, <1>5, <1>9, <2>2 DEF RunnerOK
  <2>3. CASE s # r
    BY <1>1, <1>3, <1>5, <1>9, <2>1, <2>3 DEF RunnerOK, Nothing
  <2> QED BY <2>2, <2>3
<1>11. RefilOK'
  <2>1. refil'.pc \in {"free", "depot"} => refil' = refil
    BY <1>1, <1>2 DEF PoolTypeOK
  <2> QED BY <1>1, <1>2, <1>3, <1>5, <1>9, <2>1 DEF RefilOK, Nothing
<1>12. JobOK'
  <2>1. \A e \in Elems : pool_task[e] # r
    <3>1. \A e \in Elems : pool_task[e] # NULL => job[pool_task[e]] \in {"assigned", "running"}
      BY <1>2 DEF JobOK
    <3> QED BY <1>1, <3>1, PoolConstants
  <2>2. \A e \in Elems : pool_task[e] # NULL => job'[pool_task[e]] = job[pool_task[e]]
    BY <1>2, <1>5, <2>1 DEF PoolTypeOK
  <2> QED BY <1>1, <1>2, <1>5, <2>1, <2>2 DEF JobOK
<1> QED BY <1>3, <1>6, <1>7, <1>8, <1>10, <1>11, <1>12 DEF PInv

\* mag_alloc_elem returns a thread to runner r.
LEMMA RunGetsPInv ==
    ASSUME PInv, NEW r \in Runners, NEW e, run[r].pc \in {"alloc", "depot"},
           (\E x \in Contexts : AllocLocal(run[r].cpu, x, e)) \/ switch_empty(run[r].cpu, e),
           AllocReturns(r, e), UNCHANGED <<threadVars, refil, top_count, pool_err>>
    PROVE  PInv'
<1>1. UNCHANGED <<pool_task, tpc, tcpu, unint, refil, pool_err>>
  BY DEF threadVars
<1>2. /\ RInv /\ PoolTypeOK /\ RefilOK /\ JobOK /\ Freeable \subseteq Elems
      /\ \A f \in Elems : ThreadOK(f)
      /\ \A f \in Elems : PooledOK(f)
      /\ \A s \in Runners : RunnerOK(s)
      /\ \A d \in Cpus : op[d].elem \notin Freeable
  BY UserFacts
<1>3. run[r].cpu \in Cpus /\ run[r].ctx \in Contexts /\ job[r] = "none"
  BY <1>2 DEF RunnerOK
<1>4. RInv' /\ Gives(e)
  BY <1>2, <1>3, AllocGives
<1>5. /\ e \in Elems /\ e \notin held /\ Stored(e) /\ e # NULL
      /\ e \notin Freeable
  BY <1>4, DepthFacts DEF Gives, Freeable
<1>6. tpc[e] \in Quiet /\ pool_task[e] = NULL
  <2>1. tpc[e] # "depot"
    <3>1. \A d \in Cpus : op[d].elem = NULL \/ op[d].elem \in held
      BY <1>2, OpElems
    <3> QED BY <1>2, <1>5, <3>1 DEF ThreadOK
  <2> QED BY <1>2, <1>5, <2>1 DEF PooledOK
<1>7. run' = [run EXCEPT ![r].pc = "assign", ![r].elem = e] /\ job' = job
  BY <1>5 DEF AllocReturns
<1>8. /\ run'[r].pc = "assign" /\ run'[r].elem = e /\ run'[r].cpu = run[r].cpu /\ run'[r].ctx = run[r].ctx
      /\ \A s \in Runners : s # r => run'[s] = run[s]
  BY <1>2, <1>7 DEF PoolTypeOK
<1>9. PoolTypeOK'
  <2>1. run' \in [Runners -> [pc : {"idle", "alloc", "depot", "assign", "bind"},
                              cpu : Cpus \cup {NULL}, ctx : Contexts \cup {NULL},
                              elem : Elems \cup {NULL}]]
    <3>1. run'[r] = [pc |-> "assign", cpu |-> run[r].cpu, ctx |-> run[r].ctx, elem |-> e]
      BY <1>2, <1>7 DEF PoolTypeOK
    <3>2. run'[r] \in [pc : {"idle", "alloc", "depot", "assign", "bind"},
                      cpu : Cpus \cup {NULL}, ctx : Contexts \cup {NULL},
                      elem : Elems \cup {NULL}]
      BY <1>3, <1>5, <3>1
    <3>3. run' = [run EXCEPT ![r] = run'[r]]
      BY <1>2, <1>7 DEF PoolTypeOK
    <3> QED BY <1>2, <3>2, <3>3 DEF PoolTypeOK
  <2> QED BY <1>1, <1>2, <1>7, <2>1 DEF PoolTypeOK
<1>10. ASSUME NEW f \in Elems PROVE ThreadOK(f)'
  <2>1. ThreadOK(f) /\ (f = e => tpc[f] # "none")
    BY <1>2, <1>6 DEF Quiet
  <2>2. tpc'[f] = tpc[f] /\ pool_task'[f] = pool_task[f] /\ tcpu'[f] = tcpu[f] /\ unint'[f] = unint[f]
    BY <1>1
  <2> QED BY <1>4, <2>1, <2>2 DEF ThreadOK, Gives, SameOps
<1>11. ASSUME NEW f \in Elems PROVE PooledOK(f)'
  BY <1>1, <1>2, <1>4 DEF PooledOK, Gives
<1>12. \A s \in Runners : s # r => (HasThread(s)' <=> HasThread(s)) /\ (HasThread(s) => run[s].elem # e)
  <2>1. \A s \in Runners : HasThread(s) => run[s].elem # e
    BY <1>2, <1>5 DEF RunnerOK
  <2> QED BY <1>8, <2>1 DEF HasThread
<1>13. ASSUME NEW s \in Runners PROVE RunnerOK(s)'
  <2>1. RunnerOK(s)
    BY <1>2
  <2>2. CASE s = r
    <3>1. run'[s].pc = "assign" /\ run'[s].elem = e /\ run'[s].cpu \in Cpus /\ run'[s].ctx \in Contexts
      BY <1>3, <1>8, <2>2
    <3>2. e \in Freeable' /\ tpc'[e] \in Quiet /\ pool_task'[e] = NULL /\ job'[s] = "none"
      BY <1>1, <1>3, <1>4, <1>6, <1>7, <2>2 DEF Gives
    <3>3. \A t \in Runners : t # s /\ HasThread(t)' => run'[t].elem # e
      BY <1>8, <1>12, <2>2
    <3> QED BY <3>1, <3>2, <3>3 DEF RunnerOK
  <2>3. CASE s # r
    <3>1. run'[s] = run[s] /\ job'[s] = job[s] /\ (HasThread(s)' <=> HasThread(s))
      BY <1>7, <1>8, <1>12, <2>3
    <3>2. Freeable \subseteq Freeable' /\ tpc' = tpc /\ pool_task' = pool_task
      BY <1>1, <1>4 DEF Gives
    <3>3. ASSUME NEW t \in Runners, t # s, HasThread(t)', HasThread(s)' PROVE run'[t].elem # run'[s].elem
      <4>1. CASE t = r
        BY <1>8, <1>12, <2>3, <3>1, <3>3, <4>1
      <4>2. CASE t # r
        BY <1>8, <1>12, <2>1, <3>1, <3>3, <4>2 DEF RunnerOK
      <4> QED BY <4>1, <4>2
    <3> QED BY <2>1, <3>1, <3>2, <3>3 DEF RunnerOK
  <2> QED BY <2>2, <2>3
<1>14. RefilOK'
  <2>1. refil.pc = "free" => refil.elem # e
    BY <1>2, <1>5 DEF RefilOK
  <2>2. refil.pc = "depot" => refil.elem # e
    BY <1>2, <1>5 DEF RefilOK
  <2>3. \A s \in Runners : s # r => (HasThread(s)' <=> HasThread(s)) /\ run'[s] = run[s]
    BY <1>8, <1>12
  <2> QED BY <1>1, <1>2, <1>4, <1>8, <2>1, <2>2, <2>3 DEF RefilOK, Gives
<1>15. JobOK'
  BY <1>1, <1>2, <1>7 DEF JobOK
<1> QED BY <1>4, <1>9, <1>10, <1>11, <1>13, <1>14, <1>15 DEF PInv

\* A runner goes to the depot, or comes back with nothing.
LEMMA RunWaitsPInv ==
    ASSUME PInv, NEW r \in Runners, run[r].pc \in {"alloc", "depot"}, RInv', Nothing,
           UNCHANGED <<threadVars, refil, top_count, pool_err>>,
           \/ run' = [run EXCEPT ![r].pc = "depot"] /\ job' = job
           \/ run' = [run EXCEPT ![r] = NotRunning] /\ job' = [job EXCEPT ![r] = "dropped"]
    PROVE  PInv'
<1>1. UNCHANGED <<pool_task, tpc, tcpu, unint, refil, pool_err>>
  BY DEF threadVars
<1>2. /\ RInv /\ PoolTypeOK /\ RefilOK /\ JobOK
      /\ \A f \in Elems : ThreadOK(f)
      /\ \A f \in Elems : PooledOK(f)
      /\ \A s \in Runners : RunnerOK(s)
  BY UserFacts
<1>3. /\ \/ run'[r].pc = "depot" /\ run'[r].cpu = run[r].cpu /\ run'[r].ctx = run[r].ctx /\ job'[r] = job[r]
         \/ run'[r].pc = "idle"
      /\ \A s \in Runners : s # r => run'[s] = run[s] /\ job'[s] = job[s]
  BY <1>2 DEF PoolTypeOK, NotRunning
<1>4. PoolTypeOK'
  <2>1. /\ run' \in [Runners -> [pc : {"idle", "alloc", "depot", "assign", "bind"},
                                 cpu : Cpus \cup {NULL}, ctx : Contexts \cup {NULL},
                                 elem : Elems \cup {NULL}]]
        /\ job' \in [Runners -> {"none", "dropped", "assigned", "running"}]
    <3>1. CASE run' = [run EXCEPT ![r].pc = "depot"] /\ job' = job
      BY <1>2, <3>1 DEF PoolTypeOK
    <3>2. CASE run' = [run EXCEPT ![r] = NotRunning] /\ job' = [job EXCEPT ![r] = "dropped"]
      BY <1>2, <3>2 DEF PoolTypeOK, NotRunning
    <3> QED BY <3>1, <3>2
  <2> QED BY <1>1, <1>2, <2>1 DEF PoolTypeOK
<1>5. ASSUME NEW f \in Elems PROVE ThreadOK(f)'
  BY <1>1, <1>2 DEF ThreadOK, Nothing, SameOps
<1>6. ASSUME NEW f \in Elems PROVE PooledOK(f)'
  BY <1>1, <1>2 DEF PooledOK, Nothing
<1>7. \A s \in Runners : HasThread(s)' => HasThread(s) /\ s # r
  BY <1>3 DEF HasThread
<1>8. ASSUME NEW s \in Runners PROVE RunnerOK(s)'
  <2>1. RunnerOK(s)
    BY <1>2
  <2>2. CASE s = r
    BY <1>3, <1>7, <2>1, <2>2 DEF RunnerOK
  <2>3. CASE s # r
    BY <1>1, <1>3, <1>7, <2>1, <2>3 DEF RunnerOK, Nothing
  <2> QED BY <2>2, <2>3
<1>9. RefilOK'
  BY <1>1, <1>2, <1>3, <1>7 DEF RefilOK, Nothing
<1>10. JobOK'
  <2>1. \A e \in Elems : pool_task[e] # r
    <3>1. \A e \in Elems : pool_task[e] # NULL => job[pool_task[e]] \in {"assigned", "running"}
      BY <1>2 DEF JobOK
    <3>2. job[r] = "none"
      BY <1>2 DEF RunnerOK
    <3> QED BY <3>1, <3>2, PoolConstants
  <2>2. \A e \in Elems : pool_task[e] # NULL => job'[pool_task[e]] = job[pool_task[e]]
    BY <1>2, <1>3, <2>1 DEF PoolTypeOK
  <2>3. \A s \in Runners : job'[s] \in {"assigned", "running"} => job[s] = job'[s]
    BY <1>2, <1>3 DEF PoolTypeOK
  <2> QED BY <1>1, <1>2, <2>2, <2>3 DEF JobOK
<1> QED BY <1>4, <1>5, <1>6, <1>8, <1>9, <1>10 DEF PInv

\* A runner gives its thread a job: the thread had none.
LEMMA RunAssignPInv ==
    ASSUME PInv, NEW r \in Runners, RunAssign(r)
    PROVE  PInv'
<1>2. /\ RInv /\ PoolTypeOK /\ RefilOK /\ JobOK /\ Freeable \subseteq Elems
      /\ \A f \in Elems : ThreadOK(f)
      /\ \A f \in Elems : PooledOK(f)
      /\ \A s \in Runners : RunnerOK(s)
  BY UserFacts
<1>p. run[r].pc = "assign"
  BY DEF RunAssign
<1>3. PICK e \in Elems : e = run[r].elem
  BY <1>2, <1>p DEF RunnerOK, HasThread
<1>4. /\ e \in Freeable /\ tpc[e] \in Quiet /\ pool_task[e] = NULL /\ job[r] = "none"
      /\ run[r].cpu \in Cpus /\ run[r].ctx \in Contexts
  BY <1>2, <1>3, <1>p DEF RunnerOK, HasThread
<1>1. /\ pool_err' = pool_err
      /\ pool_task' = [pool_task EXCEPT ![e] = r]
      /\ job' = [job EXCEPT ![r] = "assigned"]
      /\ run' = [run EXCEPT ![r].pc = "bind"]
      /\ UNCHANGED magVars
      /\ UNCHANGED <<tpc, tcpu, unint, refil>>
  BY <1>3, <1>4 DEF RunAssign
<1>5. RInv' /\ Nothing
  BY <1>1, <1>2, MagSame
<1>6. ~Stored(e)
  BY <1>2, <1>4, FreeableNotStored
<1>7. /\ pool_task'[e] = r /\ job'[r] = "assigned"
      /\ \A f \in Elems : f # e => pool_task'[f] = pool_task[f]
      /\ \A s \in Runners : s # r => run'[s] = run[s] /\ job'[s] = job[s]
      /\ run'[r].pc = "bind" /\ run'[r].elem = e /\ run'[r].cpu = run[r].cpu /\ run'[r].ctx = run[r].ctx
  BY <1>1, <1>2, <1>3 DEF PoolTypeOK
<1>8. PoolTypeOK'
  <2>1. run' \in [Runners -> [pc : {"idle", "alloc", "depot", "assign", "bind"},
                              cpu : Cpus \cup {NULL}, ctx : Contexts \cup {NULL},
                              elem : Elems \cup {NULL}]]
    <3> DEFINE R == [pc : {"idle", "alloc", "depot", "assign", "bind"},
                     cpu : Cpus \cup {NULL}, ctx : Contexts \cup {NULL},
                     elem : Elems \cup {NULL}]
    <3>1. run \in [Runners -> R]
      BY <1>2 DEF PoolTypeOK
    <3>2. [run[r] EXCEPT !.pc = "bind"] \in R
      <4>1. run[r] \in R
        BY <3>1
      <4> QED BY <4>1
    <3>3. run' = [run EXCEPT ![r] = [run[r] EXCEPT !.pc = "bind"]]
      BY <1>1
    <3> HIDE DEF R
    <3>4. run' \in [Runners -> R]
      BY <3>1, <3>2, <3>3
    <3> QED BY <3>4 DEF R
  <2>2. job' \in [Runners -> {"none", "dropped", "assigned", "running"}]
    BY <1>1, <1>2 DEF PoolTypeOK
  <2>3. pool_task' \in [Elems -> Runners \cup {NULL}]
    BY <1>1, <1>2 DEF PoolTypeOK
  <2> QED BY <1>1, <1>2, <2>1, <2>2, <2>3 DEF PoolTypeOK
<1>9. ASSUME NEW f \in Elems PROVE ThreadOK(f)'
  <2>1. ThreadOK(f) /\ (f = e => tpc[f] \in Quiet)
    BY <1>2, <1>4
  <2> QED BY <1>1, <1>5, <1>7, <2>1 DEF ThreadOK, Nothing, SameOps, Quiet
<1>10. ASSUME NEW f \in Elems PROVE PooledOK(f)'
  BY <1>1, <1>2, <1>5, <1>6, <1>7 DEF PooledOK, Nothing
<1>11. \A s \in Runners : HasThread(s)' <=> HasThread(s)
  BY <1>7, <1>p DEF HasThread
<1>12. \A s \in Runners : s # r /\ HasThread(s) => run[s].elem # e
  <2>1. HasThread(r)
    BY <1>p DEF HasThread
  <2> QED BY <1>2, <1>3, <2>1 DEF RunnerOK
<1>13. ASSUME NEW s \in Runners PROVE RunnerOK(s)'
  <2>1. RunnerOK(s)
    BY <1>2
  <2>2. CASE s = r
    BY <1>1, <1>4, <1>5, <1>7, <1>11, <1>12, <2>2 DEF RunnerOK, Nothing
  <2>3. CASE s # r
    <3>1. run[s].pc \in {"assign", "bind"} => run[s].elem \in Elems /\ run[s].elem # e
      BY <1>2, <1>12, <2>3 DEF RunnerOK, HasThread
    <3>2. \A t \in Runners : HasThread(t) => run'[t].elem = run[t].elem
      BY <1>3, <1>7
    <3> QED BY <1>1, <1>5, <1>7, <1>11, <2>1, <2>3, <3>1, <3>2 DEF RunnerOK, Nothing
  <2> QED BY <2>2, <2>3
<1>14. RefilOK'
  <2>1. refil.pc = "free" => refil.elem # e
    <3>1. HasThread(r)
      BY <1>p DEF HasThread
    <3> QED BY <1>2, <1>3, <3>1 DEF RefilOK
  <2>2. \A t \in Runners : HasThread(t) => run'[t].elem = run[t].elem
    BY <1>3, <1>7
  <2> QED BY <1>1, <1>2, <1>5, <1>7, <1>11, <2>1, <2>2 DEF RefilOK, Nothing
<1>15. JobOK'
  <2>1. \A f \in Elems : pool_task[f] # r
    <3>1. \A f \in Elems : pool_task[f] # NULL => job[pool_task[f]] \in {"assigned", "running"}
      BY <1>2 DEF JobOK
    <3> QED BY <1>4, <3>1, PoolConstants
  <2>2. \A f \in Elems : f # e /\ pool_task[f] # NULL => job'[pool_task[f]] = job[pool_task[f]]
    BY <1>2, <1>7, <2>1 DEF PoolTypeOK
  <2>3. tpc[e] # "task" /\ tpc' = tpc
    BY <1>1, <1>4 DEF Quiet
  <2>4. \A f \in Elems : pool_task'[f] # NULL =>
          job'[pool_task'[f]] = (IF tpc'[f] = "task" THEN "running" ELSE "assigned")
    BY <1>2, <1>7, <2>2, <2>3 DEF JobOK
  <2>5. \A f, g \in Elems : pool_task'[f] # NULL /\ pool_task'[f] = pool_task'[g] => f = g
    BY <1>2, <1>7, <2>1 DEF JobOK
  <2>6. \A s \in Runners : job'[s] \in {"assigned", "running"} => \E f \in Elems : pool_task'[f] = s
    <3> SUFFICES ASSUME NEW s \in Runners, job'[s] \in {"assigned", "running"}, s # r
                 PROVE  \E f \in Elems : pool_task'[f] = s
      BY <1>7
    <3>1. PICK f \in Elems : pool_task[f] = s
      BY <1>2, <1>7 DEF JobOK
    <3> QED BY <1>4, <1>7, <3>1, PoolConstants
  <2> QED BY <2>4, <2>5, <2>6 DEF JobOK
<1> QED BY <1>5, <1>8, <1>9, <1>10, <1>13, <1>14, <1>15 DEF PInv

\* A runner wakes its thread, or dies on an ERR_PTR.
LEMMA RunBindWakePInv ==
    ASSUME PInv, NEW r \in Runners, RunBindWake(r)
    PROVE  PInv'
<1>2. /\ RInv /\ PoolTypeOK /\ RefilOK /\ JobOK /\ Freeable \subseteq Elems
      /\ \A f \in Elems : ThreadOK(f)
      /\ \A f \in Elems : PooledOK(f)
      /\ \A s \in Runners : RunnerOK(s)
  BY UserFacts
<1>p. run[r].pc = "bind"
  BY DEF RunBindWake
<1>3. PICK e \in Elems : e = run[r].elem
  BY <1>2, <1>p DEF RunnerOK, HasThread
<1>4. e \in Freeable /\ tpc[e] \in Quiet /\ pool_task[e] = r /\ unint[e]
  BY <1>2, <1>3, <1>p DEF RunnerOK, HasThread, ThreadOK
<1>1. /\ \/ /\ tpc[e] = "asleep"
            /\ unint' = [unint EXCEPT ![e] = FALSE]
            /\ tpc' = [tpc EXCEPT ![e] = "running"]
            /\ pool_err' = pool_err
         \/ /\ pool_err' = "err_ptr"
            /\ UNCHANGED <<tpc, unint>>
      /\ run' = [run EXCEPT ![r] = NotRunning]
      /\ UNCHANGED magVars
      /\ UNCHANGED <<pool_task, tcpu, job, refil>>
  BY <1>2, <1>3, <1>4 DEF RunBindWake, WakeUp, PoolTypeOK
<1>5. RInv' /\ Nothing
  BY <1>1, <1>2, MagSame
<1>6. ~Stored(e)
  BY <1>2, <1>4, FreeableNotStored
<1>7. /\ (tpc'[e] = "running" \/ (tpc'[e] = tpc[e] /\ unint'[e] = unint[e]))
      /\ \A f \in Elems : f # e => tpc'[f] = tpc[f] /\ unint'[f] = unint[f]
      /\ \A s \in Runners : s # r => run'[s] = run[s]
      /\ run'[r].pc = "idle"
  BY <1>1, <1>2 DEF PoolTypeOK, NotRunning
<1>8. PoolTypeOK'
  <2>1. run' \in [Runners -> [pc : {"idle", "alloc", "depot", "assign", "bind"},
                              cpu : Cpus \cup {NULL}, ctx : Contexts \cup {NULL},
                              elem : Elems \cup {NULL}]]
    BY <1>1, <1>2 DEF PoolTypeOK, NotRunning
  <2>2. tpc' \in [Elems -> TPcs] /\ unint' \in [Elems -> BOOLEAN] /\ pool_err' \in {"none", "err_ptr"}
    BY <1>1, <1>2 DEF PoolTypeOK, TPcs
  <2> QED BY <1>1, <1>2, <2>1, <2>2 DEF PoolTypeOK
<1>9. ASSUME NEW f \in Elems PROVE ThreadOK(f)'
  <2>1. ThreadOK(f) /\ NULL \notin Runners
    BY <1>2, PoolConstants
  <2>2. CASE f = e /\ tpc'[e] = "running"
    BY <1>1, <1>4, <1>5, <2>1, <2>2 DEF ThreadOK, Nothing, Quiet
  <2>3. CASE tpc'[f] = tpc[f] /\ unint'[f] = unint[f]
    BY <1>1, <1>5, <2>1, <2>3 DEF ThreadOK, Nothing, SameOps
  <2> QED BY <1>7, <2>2, <2>3
<1>10. ASSUME NEW f \in Elems PROVE PooledOK(f)'
  BY <1>1, <1>2, <1>5, <1>6, <1>7 DEF PooledOK, Nothing
<1>11. \A s \in Runners : HasThread(s)' => HasThread(s) /\ s # r
  BY <1>7 DEF HasThread
<1>12. \A s \in Runners : s # r /\ HasThread(s) => run[s].elem # e
  <2>1. HasThread(r)
    BY <1>p DEF HasThread
  <2> QED BY <1>2, <1>3, <2>1 DEF RunnerOK
<1>13. ASSUME NEW s \in Runners PROVE RunnerOK(s)'
  <2>1. RunnerOK(s)
    BY <1>2
  <2>2. CASE s = r
    BY <1>7, <1>11, <2>2 DEF RunnerOK
  <2>3. CASE s # r
    <3>1. HasThread(s) => run[s].elem \in Elems /\ run[s].elem # e
      BY <1>2, <1>12, <2>3 DEF RunnerOK
    <3> QED BY <1>1, <1>5, <1>7, <1>11, <2>1, <2>3, <3>1 DEF RunnerOK, Nothing
  <2> QED BY <2>2, <2>3
<1>14. RefilOK'
  <2>1. refil.pc \in {"free", "depot"} => refil.elem \in Elems /\ refil.elem # e
    <3>1. HasThread(r)
      BY <1>p DEF HasThread
    <3> QED BY <1>2, <1>3, <1>4, <3>1 DEF RefilOK
  <2> QED BY <1>1, <1>2, <1>5, <1>7, <1>11, <2>1 DEF RefilOK, Nothing
<1>15. JobOK'
  <2>1. \A f \in Elems : tpc'[f] = "task" <=> tpc[f] = "task"
    BY <1>1, <1>2, <1>4, <1>7 DEF Quiet
  <2> QED BY <1>1, <1>2, <2>1 DEF JobOK
<1> QED BY <1>5, <1>8, <1>9, <1>10, <1>13, <1>14, <1>15 DEF PInv

\* A woken thread starts its job: it has one.
LEMMA ThreadRunPInv ==
    ASSUME PInv, NEW e \in Elems, ThreadRun(e)
    PROVE  PInv'
<1>2. /\ RInv /\ PoolTypeOK /\ RefilOK /\ JobOK /\ Freeable \subseteq Elems
      /\ \A f \in Elems : ThreadOK(f)
      /\ \A f \in Elems : PooledOK(f)
      /\ \A s \in Runners : RunnerOK(s)
  BY UserFacts
<1>3. tpc[e] = "running" /\ tpc' = [tpc EXCEPT ![e] = "task"]
  BY DEF ThreadRun
<1>4. PICK r \in Runners : r = pool_task[e]
  BY <1>2, <1>3 DEF ThreadOK, PoolTypeOK
<1>5. e \in Freeable /\ pool_task[e] # NULL /\ job[r] = "assigned"
  BY <1>2, <1>3, <1>4 DEF ThreadOK, JobOK
<1>1. /\ job' = [job EXCEPT ![r] = "running"] /\ pool_err' = pool_err
      /\ UNCHANGED magVars
      /\ UNCHANGED <<pool_task, tcpu, unint, run, refil>>
  BY <1>4, <1>5 DEF ThreadRun
<1>6. RInv' /\ Nothing
  BY <1>1, <1>2, MagSame
<1>7. /\ tpc'[e] = "task" /\ job'[r] = "running"
      /\ \A f \in Elems : f # e => tpc'[f] = tpc[f]
      /\ \A s \in Runners : s # r => job'[s] = job[s]
  BY <1>1, <1>2, <1>3 DEF PoolTypeOK
<1>8. PoolTypeOK'
  <2>1. tpc' \in [Elems -> TPcs] /\ job' \in [Runners -> {"none", "dropped", "assigned", "running"}]
    BY <1>1, <1>2, <1>3 DEF PoolTypeOK, TPcs
  <2> QED BY <1>1, <1>2, <2>1 DEF PoolTypeOK
<1>9. ASSUME NEW f \in Elems PROVE ThreadOK(f)'
  <2>1. ThreadOK(f)
    BY <1>2
  <2>2. CASE f = e
    BY <1>1, <1>5, <1>6, <1>7, <2>2 DEF ThreadOK, Nothing, Quiet
  <2>3. CASE f # e
    BY <1>1, <1>6, <1>7, <2>1, <2>3 DEF ThreadOK, Nothing, SameOps
  <2> QED BY <2>2, <2>3
<1>10. ASSUME NEW f \in Elems PROVE PooledOK(f)'
  <2>1. ~Stored(e)
    BY <1>2, <1>5, FreeableNotStored
  <2> QED BY <1>1, <1>2, <1>6, <1>7, <2>1 DEF PooledOK, Nothing
<1>11. ASSUME NEW s \in Runners PROVE RunnerOK(s)'
  <2>1. RunnerOK(s) /\ (HasThread(s)' <=> HasThread(s))
    BY <1>1, <1>2 DEF HasThread
  <2>2. HasThread(s) => run[s].elem \in Elems /\ run[s].elem # e
    BY <1>2, <1>3, <2>1 DEF RunnerOK, Quiet
  <2>3. run[s].pc \in {"alloc", "depot", "assign"} => s # r
    BY <1>5, <2>1 DEF RunnerOK
  <2>4. tpc'[run[s].elem] = tpc[run[s].elem] \/ ~HasThread(s)
    BY <1>7, <2>2
  <2> QED BY <1>1, <1>6, <1>7, <2>1, <2>2, <2>3, <2>4 DEF RunnerOK, HasThread, Nothing
<1>12. RefilOK'
  <2>1. refil.pc \in {"free", "depot"} => refil.elem \in Elems /\ refil.elem # e
    BY <1>2, <1>3 DEF RefilOK, Quiet
  <2> QED BY <1>1, <1>2, <1>6, <1>7, <2>1 DEF RefilOK, Nothing, HasThread
<1>13. JobOK'
  <2>1. \A f \in Elems : f # e => pool_task[f] # r
    BY <1>2, <1>4, <1>5 DEF JobOK
  <2>2. \A f \in Elems : f # e /\ pool_task[f] # NULL => job'[pool_task[f]] = job[pool_task[f]]
    BY <1>2, <1>7, <2>1 DEF PoolTypeOK
  <2>3. \A f \in Elems : pool_task[f] # NULL =>
          job'[pool_task[f]] = (IF tpc'[f] = "task" THEN "running" ELSE "assigned")
    BY <1>2, <1>4, <1>7, <2>2 DEF JobOK
  <2>4. \A s \in Runners : job'[s] \in {"assigned", "running"} => \E f \in Elems : pool_task[f] = s
    BY <1>2, <1>4, <1>7 DEF JobOK
  <2> QED BY <1>1, <1>2, <2>3, <2>4 DEF JobOK
<1> QED BY <1>6, <1>8, <1>9, <1>10, <1>11, <1>12, <1>13 DEF PInv

\* The job is done: the thread forgets it and prepares to sleep.
LEMMA ThreadDonePInv ==
    ASSUME PInv, NEW e \in Elems, ThreadDone(e)
    PROVE  PInv'
<1>2. /\ RInv /\ PoolTypeOK /\ RefilOK /\ JobOK /\ Freeable \subseteq Elems
      /\ \A f \in Elems : ThreadOK(f)
      /\ \A f \in Elems : PooledOK(f)
      /\ \A s \in Runners : RunnerOK(s)
  BY UserFacts
<1>1. /\ tpc[e] = "task"
      /\ tpc' = [tpc EXCEPT ![e] = "reuse"]
      /\ unint' = [unint EXCEPT ![e] = TRUE]
      /\ pool_task' = [pool_task EXCEPT ![e] = NULL]
      /\ job' = [r \in Runners |-> IF pool_task[e] = r THEN "none" ELSE job[r]]
      /\ UNCHANGED magVars
      /\ UNCHANGED <<tcpu, run, refil, pool_err>>
  BY DEF ThreadDone
<1>3. PICK r \in Runners : r = pool_task[e]
  BY <1>1, <1>2 DEF ThreadOK, PoolTypeOK
<1>4. e \in Freeable /\ pool_task[e] # NULL
  BY <1>1, <1>2 DEF ThreadOK
<1>5. RInv' /\ Nothing
  BY <1>1, <1>2, MagSame
<1>6. /\ tpc'[e] = "reuse" /\ unint'[e] = TRUE /\ pool_task'[e] = NULL /\ job'[r] = "none"
      /\ \A f \in Elems : f # e => tpc'[f] = tpc[f] /\ unint'[f] = unint[f] /\ pool_task'[f] = pool_task[f]
      /\ \A s \in Runners : s # r => job'[s] = job[s]
  BY <1>1, <1>2, <1>3 DEF PoolTypeOK
<1>7. PoolTypeOK'
  <2>1. /\ tpc' \in [Elems -> TPcs] /\ unint' \in [Elems -> BOOLEAN]
        /\ pool_task' \in [Elems -> Runners \cup {NULL}]
        /\ job' \in [Runners -> {"none", "dropped", "assigned", "running"}]
    BY <1>1, <1>2 DEF PoolTypeOK, TPcs
  <2> QED BY <1>1, <1>2, <2>1 DEF PoolTypeOK
<1>8. ASSUME NEW f \in Elems PROVE ThreadOK(f)'
  <2>1. ThreadOK(f)
    BY <1>2
  <2>2. CASE f = e
    BY <1>4, <1>5, <1>6, <2>2 DEF ThreadOK, Nothing
  <2>3. CASE f # e
    BY <1>1, <1>5, <1>6, <2>1, <2>3 DEF ThreadOK, Nothing, SameOps
  <2> QED BY <2>2, <2>3
<1>9. ASSUME NEW f \in Elems PROVE PooledOK(f)'
  <2>1. ~Stored(e)
    BY <1>2, <1>4, FreeableNotStored
  <2> QED BY <1>2, <1>5, <1>6, <2>1 DEF PooledOK, Nothing
<1>10. ASSUME NEW s \in Runners PROVE RunnerOK(s)'
  <2>1. RunnerOK(s) /\ (HasThread(s)' <=> HasThread(s))
    BY <1>1, <1>2 DEF HasThread
  <2>2. HasThread(s) => run[s].elem \in Elems /\ run[s].elem # e
    BY <1>1, <1>2, <2>1 DEF RunnerOK, Quiet
  <2>3. HasThread(s) => tpc'[run[s].elem] = tpc[run[s].elem] /\ pool_task'[run[s].elem] = pool_task[run[s].elem]
    BY <1>6, <2>2
  <2>4. job[s] = "none" => job'[s] = "none"
    BY <1>6
  <2> QED BY <1>1, <1>5, <2>1, <2>3, <2>4 DEF RunnerOK, HasThread, Nothing
<1>11. RefilOK'
  <2>1. refil.pc \in {"free", "depot"} => refil.elem \in Elems /\ refil.elem # e
    BY <1>1, <1>2 DEF RefilOK, Quiet
  <2> QED BY <1>1, <1>2, <1>5, <1>6, <2>1 DEF RefilOK, Nothing, HasThread
<1>12. JobOK'
  <2>1. \A f \in Elems : f # e => pool_task[f] # r
    BY <1>2, <1>3, <1>4 DEF JobOK
  <2>2. \A f \in Elems : f # e /\ pool_task[f] # NULL => job'[pool_task[f]] = job[pool_task[f]]
    BY <1>2, <1>6, <2>1 DEF PoolTypeOK
  <2>3. \A f \in Elems : pool_task'[f] # NULL =>
          job'[pool_task'[f]] = (IF tpc'[f] = "task" THEN "running" ELSE "assigned")
    BY <1>2, <1>6, <2>2 DEF JobOK
  <2>4. \A f, g \in Elems : pool_task'[f] # NULL /\ pool_task'[f] = pool_task'[g] => f = g
    BY <1>2, <1>6 DEF JobOK
  <2>5. \A s \in Runners : job'[s] \in {"assigned", "running"} => \E f \in Elems : pool_task'[f] = s
    <3> SUFFICES ASSUME NEW s \in Runners, job'[s] \in {"assigned", "running"}
                 PROVE  \E f \in Elems : pool_task'[f] = s
      OBVIOUS
    <3>1. s # r /\ job[s] \in {"assigned", "running"}
      BY <1>6
    <3>2. PICK f \in Elems : pool_task[f] = s
      BY <1>2, <3>1 DEF JobOK
    <3> QED BY <1>3, <1>6, <3>1, <3>2
  <2> QED BY <2>3, <2>4, <2>5 DEF JobOK
<1> QED BY <1>5, <1>7, <1>8, <1>9, <1>10, <1>11, <1>12 DEF PInv

\* A thread that is done puts itself back into the pool.
LEMMA ReusePInv ==
    ASSUME PInv, NEW e \in Elems, NEW c \in Cpus, kthread_pool_reuse(e, c)
    PROVE  PInv'
<1>1. /\ tpc[e] = "reuse" /\ Free(c, 0, e)
      /\ tpc' = [tpc EXCEPT ![e] = IF op'[c] = Idle THEN "schedule" ELSE "depot"]
      /\ tcpu' = [tcpu EXCEPT ![e] = c]
      /\ UNCHANGED <<pool_task, unint, run, job, refil, pool_err>>
  BY DEF kthread_pool_reuse
<1>2. /\ RInv /\ PoolTypeOK /\ RefilOK /\ JobOK /\ Freeable \subseteq Elems
      /\ \A f \in Elems : ThreadOK(f)
      /\ \A f \in Elems : PooledOK(f)
      /\ \A s \in Runners : RunnerOK(s)
  BY UserFacts
<1>3. e \in Freeable /\ pool_task[e] = NULL /\ unint[e]
  BY <1>1, <1>2 DEF ThreadOK
<1>4. RInv' /\ Accepts(c, e)
  <2>1. 0 \in Contexts
    BY PoolConstants
  <2> QED BY <1>1, <1>2, <1>3, <2>1, FreeAccepts
<1>5. /\ tpc'[e] = (IF op'[c] = Idle THEN "schedule" ELSE "depot") /\ tcpu'[e] = c
      /\ \A f \in Elems : f # e => tpc'[f] = tpc[f] /\ tcpu'[f] = tcpu[f]
  BY <1>1, <1>2 DEF PoolTypeOK
<1>6. PoolTypeOK'
  <2>1. tpc' \in [Elems -> TPcs] /\ tcpu' \in [Elems -> Cpus \cup {NULL}]
    BY <1>1, <1>2 DEF PoolTypeOK, TPcs, Quiet
  <2> QED BY <1>1, <1>2, <2>1 DEF PoolTypeOK
<1>7. ASSUME NEW f \in Elems PROVE ThreadOK(f)'
  <2>1. ThreadOK(f) /\ NULL \notin Elems
    BY <1>2, DepthFacts
  <2>2. CASE f = e
    <3>1. op'[c] # Idle => op'[c].elem = e
      BY <1>4 DEF Accepts
    <3> QED BY <1>1, <1>3, <1>5, <2>2, <3>1 DEF ThreadOK
  <2>3. CASE f # e
    <3>1. tpc[f] = "depot" => tcpu[f] \in Cpus /\ tcpu[f] # c
      BY <1>4, <2>1 DEF ThreadOK, Accepts
    <3>2. /\ tpc'[f] = tpc[f] /\ tcpu'[f] = tcpu[f]
          /\ pool_task'[f] = pool_task[f] /\ unint'[f] = unint[f]
      BY <1>1, <1>5, <2>3
    <3> QED BY <1>4, <2>1, <2>3, <3>1, <3>2 DEF ThreadOK, Accepts
  <2> QED BY <2>2, <2>3
<1>8. ASSUME NEW f \in Elems PROVE PooledOK(f)'
  <2>1. CASE f = e
    BY <1>1, <1>3, <1>5, <2>1 DEF PooledOK, Quiet
  <2>2. CASE f # e
    BY <1>1, <1>2, <1>4, <1>5, <2>2 DEF PooledOK, Accepts
  <2> QED BY <2>1, <2>2
<1>9. ASSUME NEW s \in Runners PROVE RunnerOK(s)'
  <2>1. RunnerOK(s) /\ (HasThread(s)' <=> HasThread(s))
    BY <1>1, <1>2 DEF HasThread
  <2>2. HasThread(s) => run[s].elem \in Elems /\ run[s].elem # e
    BY <1>1, <1>2, <2>1 DEF RunnerOK, Quiet
  <2>3. HasThread(s) => tpc'[run[s].elem] = tpc[run[s].elem]
    BY <1>5, <2>2
  <2> QED BY <1>1, <1>4, <2>1, <2>2, <2>3 DEF RunnerOK, HasThread, Accepts
<1>10. RefilOK'
  <2>1. refil.pc \in {"free", "depot"} => refil.elem \in Elems /\ refil.elem # e
    BY <1>1, <1>2 DEF RefilOK, Quiet
  <2>2. refil.pc \in {"free", "depot"} => tpc'[refil.elem] = tpc[refil.elem]
    BY <1>5, <2>1
  <2> QED BY <1>1, <1>2, <1>4, <2>1, <2>2 DEF RefilOK, Accepts, HasThread
<1>11. JobOK'
  BY <1>1, <1>2, <1>3, <1>5 DEF JobOK
<1> QED BY <1>4, <1>6, <1>7, <1>8, <1>9, <1>10, <1>11 DEF PInv

\* The end of that, after the lock.
LEMMA ReuseDepotPInv ==
    ASSUME PInv, NEW e \in Elems, ReuseDepot(e)
    PROVE  PInv'
<1>2. /\ RInv /\ PoolTypeOK /\ RefilOK /\ JobOK /\ Freeable \subseteq Elems
      /\ \A f \in Elems : ThreadOK(f)
      /\ \A f \in Elems : PooledOK(f)
      /\ \A s \in Runners : RunnerOK(s)
      /\ \A d \in Cpus : op[d].elem \notin Freeable
  BY UserFacts
<1>1. /\ tpc[e] = "depot"
      /\ tpc' = [tpc EXCEPT ![e] = "schedule"]
      /\ UNCHANGED <<pool_task, tcpu, unint, run, job, refil, pool_err>>
  BY DEF ReuseDepot
<1>3. PICK c \in Cpus : c = tcpu[e]
  BY <1>1, <1>2 DEF ThreadOK
<1>4. op[c].elem = e /\ unint[e] /\ e \notin Freeable
  BY <1>1, <1>2, <1>3 DEF ThreadOK
<1>5. RInv' /\ Completes(c)
  BY <1>2, <1>3, SwitchFullCompletes DEF ReuseDepot
<1>6. tpc'[e] = "schedule" /\ \A f \in Elems : f # e => tpc'[f] = tpc[f]
  BY <1>1, <1>2 DEF PoolTypeOK
<1>7. PoolTypeOK'
  <2>1. tpc' \in [Elems -> TPcs]
    BY <1>1, <1>2 DEF PoolTypeOK, TPcs, Quiet
  <2> QED BY <1>1, <1>2, <2>1 DEF PoolTypeOK
<1>8. ASSUME NEW f \in Elems PROVE ThreadOK(f)'
  <2>1. ThreadOK(f)
    BY <1>2
  <2>2. CASE f = e
    BY <1>1, <1>4, <1>6, <2>2 DEF ThreadOK
  <2>3. CASE f # e
    <3>1. tpc[f] = "depot" => tcpu[f] \in Cpus /\ tcpu[f] # c
      BY <1>4, <2>1, <2>3 DEF ThreadOK
    <3>2. /\ tpc'[f] = tpc[f] /\ tcpu'[f] = tcpu[f]
          /\ pool_task'[f] = pool_task[f] /\ unint'[f] = unint[f]
      BY <1>1, <1>6, <2>3
    <3> QED BY <1>5, <2>1, <3>1, <3>2 DEF ThreadOK, Completes
  <2> QED BY <2>2, <2>3
<1>9. ASSUME NEW f \in Elems PROVE PooledOK(f)'
  BY <1>1, <1>2, <1>5, <1>6 DEF PooledOK, Completes, Quiet
<1>10. ASSUME NEW s \in Runners PROVE RunnerOK(s)'
  <2>1. RunnerOK(s) /\ (HasThread(s)' <=> HasThread(s))
    BY <1>1, <1>2 DEF HasThread
  <2>2. HasThread(s) => run[s].elem \in Elems /\ run[s].elem # e
    BY <1>2, <1>4, <2>1 DEF RunnerOK
  <2>3. HasThread(s) => tpc'[run[s].elem] = tpc[run[s].elem]
    BY <1>6, <2>2
  <2> QED BY <1>1, <1>5, <2>1, <2>3 DEF RunnerOK, HasThread, Completes
<1>11. RefilOK'
  <2>1. refil.pc \in {"free", "depot"} => refil.elem \in Elems /\ refil.elem # e
    BY <1>1, <1>2 DEF RefilOK, Quiet
  <2>2. refil.pc \in {"free", "depot"} => tpc'[refil.elem] = tpc[refil.elem]
    BY <1>6, <2>1
  <2> QED BY <1>1, <1>2, <1>4, <1>5, <2>1, <2>2 DEF RefilOK, Completes, HasThread
<1>12. JobOK'
  <2>1. \A f \in Elems : tpc'[f] = "task" <=> tpc[f] = "task"
    BY <1>1, <1>6
  <2> QED BY <1>1, <1>2, <2>1 DEF JobOK
<1> QED BY <1>5, <1>7, <1>8, <1>9, <1>10, <1>11, <1>12 DEF PInv

\* A thread reaches schedule(): nobody woke it before it sleeps.
LEMMA ThreadSchedulePInv ==
    ASSUME PInv, NEW e \in Elems, ThreadSchedule(e)
    PROVE  PInv'
<1>2. /\ RInv /\ PoolTypeOK /\ RefilOK /\ JobOK /\ Freeable \subseteq Elems
      /\ \A f \in Elems : ThreadOK(f)
      /\ \A f \in Elems : PooledOK(f)
      /\ \A s \in Runners : RunnerOK(s)
  BY UserFacts
<1>3. unint[e]
  BY <1>2 DEF ThreadOK, ThreadSchedule, Quiet
<1>1. /\ tpc[e] = "schedule"
      /\ tpc' = [tpc EXCEPT ![e] = "asleep"]
      /\ tcpu' = [tcpu EXCEPT ![e] = NULL]
      /\ UNCHANGED magVars
      /\ UNCHANGED <<pool_task, unint, run, job, refil, pool_err>>
  BY <1>3 DEF ThreadSchedule
<1>4. RInv' /\ Nothing
  BY <1>1, <1>2, MagSame
<1>5. /\ tpc'[e] = "asleep" /\ \A f \in Elems : f # e => tpc'[f] = tpc[f] /\ tcpu'[f] = tcpu[f]
  BY <1>1, <1>2 DEF PoolTypeOK
<1>6. /\ \A f \in Elems : tpc[f] \in Quiet <=> tpc'[f] \in Quiet
      /\ \A f \in Elems : tpc'[f] \notin Quiet => tpc'[f] = tpc[f] /\ tcpu'[f] = tcpu[f]
  BY <1>1, <1>5 DEF Quiet
<1>7. PoolTypeOK'
  <2>1. tpc' \in [Elems -> TPcs] /\ tcpu' \in [Elems -> Cpus \cup {NULL}]
    BY <1>1, <1>2 DEF PoolTypeOK, TPcs, Quiet
  <2> QED BY <1>1, <1>2, <2>1 DEF PoolTypeOK
<1>8. ASSUME NEW f \in Elems PROVE ThreadOK(f)'
  <2>1. ThreadOK(f)
    BY <1>2
  <2>2. CASE f = e
    BY <1>1, <1>3, <1>5, <2>2 DEF ThreadOK
  <2>3. CASE f # e
    BY <1>1, <1>4, <1>5, <2>1, <2>3 DEF ThreadOK, Nothing, SameOps
  <2> QED BY <2>2, <2>3
<1>9. ASSUME NEW f \in Elems PROVE PooledOK(f)'
  BY <1>1, <1>2, <1>4, <1>6 DEF PooledOK, Nothing
<1>10. ASSUME NEW s \in Runners PROVE RunnerOK(s)'
  <2>1. RunnerOK(s) /\ (HasThread(s) => run[s].elem \in Elems)
    BY <1>2 DEF RunnerOK
  <2> QED BY <1>1, <1>4, <1>6, <2>1 DEF RunnerOK, HasThread, Nothing
<1>11. RefilOK'
  BY <1>1, <1>2, <1>4, <1>6 DEF RefilOK, HasThread, Nothing
<1>12. JobOK'
  <2>1. \A f \in Elems : tpc'[f] = "task" <=> tpc[f] = "task"
    BY <1>1, <1>5
  <2> QED BY <1>1, <1>2, <2>1 DEF JobOK
<1> QED BY <1>4, <1>7, <1>8, <1>9, <1>10, <1>11, <1>12 DEF PInv

\* The pool starts empty.
LEMMA PoolInitPInv == PoolInit => PInv
<1> SUFFICES ASSUME PoolInit PROVE PInv
  OBVIOUS
<1>1. MagInit /\ held = {}
  BY DEF PoolInit
<1>2. \A m \in Mags, i \in Slots : ~Occupied(m, i)
  BY <1>1, DepthFacts DEF MagInit, Occupied, InPair, InFull, Slots
<1>3. RInv
  <2>1. IInv
    BY <1>1, MagInitIInv
  <2>2. OpStored
    BY <1>1 DEF MagInit, OpStored, Idle
  <2> QED BY <1>2, <2>1, <2>2 DEF RInv, ElemsUnique
<1>4. PoolTypeOK
  BY DEF PoolInit, PoolTypeOK, TPcs, NotRunning
<1>5. ASSUME NEW e \in Elems PROVE ThreadOK(e) /\ PooledOK(e)
  <2>1. tpc[e] = "none" /\ pool_task[e] = NULL
    BY DEF PoolInit
  <2> QED BY <1>1, <1>2, <2>1 DEF ThreadOK, PooledOK, Stored, Quiet
<1>6. ASSUME NEW r \in Runners PROVE RunnerOK(r)
  <2>1. \A s \in Runners : run[s].pc = "idle"
    BY DEF PoolInit, NotRunning
  <2> QED BY <2>1 DEF RunnerOK, HasThread
<1>7. RefilOK /\ JobOK
  BY DEF PoolInit, RefilOK, JobOK
<1> QED BY <1>3, <1>4, <1>5, <1>6, <1>7 DEF PInv

\* Every step of every actor keeps the invariant.
LEMMA PoolNextPInv == PInv /\ [PoolNext]_poolVars => PInv'
<1> SUFFICES ASSUME PInv, [PoolNext]_poolVars PROVE PInv'
  OBVIOUS
<1>1. CASE UNCHANGED poolVars
  <2>1. UNCHANGED <<magVars, threadVars, run, job, pool_err>> /\ refil' = refil
    BY <1>1 DEF poolVars
  <2>2. refil \in [pc : {"read", "loop", "free", "depot", "returned", "interruptible", "asleep"},
                   count : Nat, elem : Elems \cup {NULL}]
    BY DEF PInv, PoolTypeOK
  <2> QED BY <2>1, <2>2, RefillQuietPInv
<1>2. CASE RefillStep
  BY <1>2, RefillIdlePInv, RefillCreatePInv, RefillFreePInv, RefillDepotPInv DEF RefillStep
<1>3. ASSUME NEW r \in Runners, RunStep(r) PROVE PInv'
  <2>0. RInv /\ RunnerOK(r)
    BY DEF PInv
  <2>1. CASE RunAllocLocal(r)
    <3>1. run[r].pc = "alloc" /\ UNCHANGED <<threadVars, refil, top_count, pool_err>>
      BY <2>1 DEF RunAllocLocal
    <3>2. PICK e \in Elems \cup {NULL} : AllocLocal(run[r].cpu, run[r].ctx, e) /\ AllocReturns(r, e)
      BY <2>1 DEF RunAllocLocal
    <3>3. run[r].ctx \in Contexts
      BY <2>0, <3>1 DEF RunnerOK
    <3> QED BY <3>1, <3>2, <3>3, RunGetsPInv
  <2>2. CASE RunAllocNeedsDepot(r)
    <3>1. /\ run[r].pc = "alloc" /\ AllocNeedsDepot(run[r].cpu, run[r].ctx)
          /\ run' = [run EXCEPT ![r].pc = "depot"] /\ job' = job
          /\ UNCHANGED <<threadVars, refil, top_count, pool_err>>
      BY <2>2 DEF RunAllocNeedsDepot
    <3>2. run[r].cpu \in Cpus /\ run[r].ctx \in Contexts
      BY <2>0, <3>1 DEF RunnerOK
    <3>3. RInv' /\ Nothing
      BY <2>0, <3>1, <3>2, QuietNothing
    <3> QED BY <3>1, <3>3, RunWaitsPInv
  <2>3. CASE RunAllocDepot(r)
    <3>1. run[r].pc = "depot" /\ UNCHANGED <<threadVars, refil, top_count, pool_err>>
      BY <2>3 DEF RunAllocDepot
    <3>2. CASE \E e \in Elems \cup {NULL} : switch_empty(run[r].cpu, e) /\ AllocReturns(r, e)
      BY <3>1, <3>2, RunGetsPInv
    <3>3. CASE switch_empty_fails(run[r].cpu) /\ AllocReturns(r, NULL)
      <4>1. run[r].cpu \in Cpus
        BY <2>0, <3>1 DEF RunnerOK
      <4>2. RInv' /\ Nothing
        BY <2>0, <3>3, <4>1, QuietNothing
      <4>3. run' = [run EXCEPT ![r] = NotRunning] /\ job' = [job EXCEPT ![r] = "dropped"]
        BY <3>3 DEF AllocReturns
      <4> QED BY <3>1, <4>2, <4>3, RunWaitsPInv
    <3> QED BY <2>3, <3>2, <3>3 DEF RunAllocDepot
  <2> QED BY <1>3, <2>1, <2>2, <2>3, RunAssignPInv, RunBindWakePInv DEF RunStep
<1>4. ASSUME NEW r \in Runners, NEW c \in Cpus, NEW x \in RunnerContexts, RunStart(r, c, x) PROVE PInv'
  BY <1>4, RunStartPInv
<1>5. ASSUME NEW e \in Elems, ThreadStep(e) PROVE PInv'
  BY <1>5, ThreadRunPInv, ThreadDonePInv, ReusePInv, ReuseDepotPInv, ThreadSchedulePInv DEF ThreadStep
<1> QED BY <1>1, <1>2, <1>3, <1>4, <1>5 DEF PoolNext

----
(* The refill does not grow the pool for ever: where the idle threads are. *)

\* A thread that was created is with a user, or in the pool for all to see.
KeptOK == \A e \in Elems : tpc[e] # "none" => e \in Freeable \/ Stored(e)

\* The softirq pairs: what is in them came out of one full magazine of the depot,
\* less the element the allocation returned.  Nobody frees in softirq context.
SoftOK == 1 \in Contexts => \A c \in Cpus : count[<<c, 1>>][0] + count[<<c, 1>>][1] < MAG_DEPTH

KInv == PInv /\ KeptOK /\ SoftOK /\ DepotCounts

\* What a step of the pool's actors can do to the allocator.
MagStep ==
    \/ \E c \in Cpus, x \in Contexts, e \in Elems \cup {NULL} : AllocLocal(c, x, e)
    \/ \E c \in Cpus, e \in Elems \cup {NULL} : switch_empty(c, e)
    \/ \E c \in Cpus : (\E x \in Contexts : AllocNeedsDepot(c, x)) \/ switch_empty_fails(c)
    \/ \E c \in Cpus, e \in Freeable : Free(c, 0, e)
    \/ \E c \in Cpus : switch_full(c)
    \/ UNCHANGED magVars

\* kthread_create: an element comes into being with the refill thread.
CreateStep ==
    \E e \in Elems : /\ e \notin held /\ ~Stored(e) /\ held' = held \cup {e}
                     /\ UNCHANGED <<stack, mags, count, depotVars, op, panic>>
                     /\ \A f \in Elems : f # e => tpc'[f] = tpc[f]

\* Only kthread_create makes a thread.
SameThreads == \A e \in Elems : tpc'[e] = "none" <=> tpc[e] = "none"

\* Every step is a call of the allocator, a kthread_create, or neither.
LEMMA PoolMagStep ==
    ASSUME PInv, [PoolNext]_poolVars
    PROVE  (MagStep /\ SameThreads) \/ CreateStep
<1>0. /\ RInv /\ PoolTypeOK /\ RefilOK
      /\ \A f \in Elems : ThreadOK(f)
      /\ \A s \in Runners : RunnerOK(s)
  BY UserFacts
<1>1. CASE UNCHANGED poolVars
  BY <1>1 DEF poolVars, threadVars, MagStep, SameThreads
<1>2. CASE RefillRead \/ RefillReturn \/ RefillSetState \/ RefillSchedule
  BY <1>2 DEF RefillRead, RefillReturn, RefillSetState, RefillSchedule, threadVars, MagStep, SameThreads
<1>3. ASSUME NEW e \in Elems, RefillCreate(e) PROVE CreateStep
  <2>1. /\ tpc[e] = "none" /\ held' = held \cup {e}
        /\ UNCHANGED <<stack, mags, count, depotVars, op, panic>>
        /\ \A f \in Elems : f # e => tpc'[f] = tpc[f]
    BY <1>0, <1>3 DEF RefillCreate, PoolTypeOK
  <2>2. e \notin held /\ ~Stored(e)
    BY <1>0, <2>1 DEF ThreadOK
  <2> QED BY <2>1, <2>2 DEF CreateStep
<1>4. ASSUME NEW c \in Cpus, RefillFree(c) PROVE MagStep /\ SameThreads
  <2>1. refil.elem \in Freeable
    BY <1>0, <1>4 DEF RefillFree, RefilOK
  <2> QED BY <1>4, <2>1 DEF RefillFree, threadVars, MagStep, SameThreads
<1>5. ASSUME NEW c \in Cpus, RefillDepot(c) PROVE MagStep /\ SameThreads
  BY <1>5 DEF RefillDepot, threadVars, MagStep, SameThreads
<1>6. ASSUME NEW r \in Runners, RunAllocLocal(r) PROVE MagStep /\ SameThreads
  <2>1. run[r].cpu \in Cpus /\ run[r].ctx \in Contexts
    BY <1>0, <1>6 DEF RunAllocLocal, RunnerOK
  <2> QED BY <1>6, <2>1 DEF RunAllocLocal, threadVars, MagStep, SameThreads
<1>7. ASSUME NEW r \in Runners, RunAllocNeedsDepot(r) PROVE MagStep /\ SameThreads
  <2>1. run[r].cpu \in Cpus /\ run[r].ctx \in Contexts
    BY <1>0, <1>7 DEF RunAllocNeedsDepot, RunnerOK
  <2> QED BY <1>7, <2>1 DEF RunAllocNeedsDepot, threadVars, MagStep, SameThreads
<1>8. ASSUME NEW r \in Runners, RunAllocDepot(r) PROVE MagStep /\ SameThreads
  <2>1. run[r].cpu \in Cpus
    BY <1>0, <1>8 DEF RunAllocDepot, RunnerOK
  <2> QED BY <1>8, <2>1 DEF RunAllocDepot, threadVars, MagStep, SameThreads
<1>9. ASSUME NEW r \in Runners, RunAssign(r) PROVE MagStep /\ SameThreads
  BY <1>9 DEF RunAssign, MagStep, SameThreads
<1>10. ASSUME NEW r \in Runners, RunBindWake(r) PROVE MagStep /\ SameThreads
  <2>1. UNCHANGED magVars
    BY <1>10 DEF RunBindWake
  <2>2. CASE tpc' = tpc
    BY <2>1, <2>2 DEF MagStep, SameThreads
  <2>3. CASE tpc' = [tpc EXCEPT ![run[r].elem] = IF @ = "asleep" THEN "running" ELSE @]
    BY <1>0, <2>1, <2>3 DEF MagStep, SameThreads, PoolTypeOK
  <2> QED BY <1>10, <2>2, <2>3 DEF RunBindWake, WakeUp
<1>11. ASSUME NEW r \in Runners, NEW c \in Cpus, NEW x \in RunnerContexts, RunStart(r, c, x)
       PROVE  MagStep /\ SameThreads
  BY <1>11 DEF RunStart, threadVars, MagStep, SameThreads
<1>12. ASSUME NEW e \in Elems, ThreadRun(e) \/ ThreadDone(e) \/ ThreadSchedule(e)
       PROVE  MagStep /\ SameThreads
  <2>1. UNCHANGED magVars /\ tpc[e] # "none"
    BY <1>12 DEF ThreadRun, ThreadDone, ThreadSchedule
  <2>2. \E v \in {"task", "reuse", "asleep", "running"} : tpc' = [tpc EXCEPT ![e] = v]
    BY <1>12 DEF ThreadRun, ThreadDone, ThreadSchedule
  <2> QED BY <1>0, <2>1, <2>2 DEF MagStep, SameThreads, PoolTypeOK
<1>13. ASSUME NEW e \in Elems, NEW c \in Cpus, kthread_pool_reuse(e, c) PROVE MagStep /\ SameThreads
  <2>1. tpc[e] = "reuse" /\ e \in Freeable
    BY <1>0, <1>13 DEF kthread_pool_reuse, ThreadOK
  <2>2. \E v \in {"schedule", "depot"} : tpc' = [tpc EXCEPT ![e] = v]
    BY <1>13 DEF kthread_pool_reuse
  <2>3. SameThreads
    BY <1>0, <2>1, <2>2 DEF SameThreads, PoolTypeOK
  <2>4. Free(c, 0, e)
    BY <1>13 DEF kthread_pool_reuse
  <2> QED BY <2>1, <2>3, <2>4 DEF MagStep
<1>14. ASSUME NEW e \in Elems, ReuseDepot(e) PROVE MagStep /\ SameThreads
  <2>1. tpc[e] = "depot" /\ tcpu[e] \in Cpus /\ switch_full(tcpu[e])
    BY <1>0, <1>14 DEF ReuseDepot, ThreadOK
  <2>2. SameThreads
    BY <1>0, <1>14, <2>1 DEF ReuseDepot, SameThreads, PoolTypeOK
  <2> QED BY <2>1, <2>2 DEF MagStep
<1>15. CASE RefillStep
  BY <1>2, <1>3, <1>4, <1>5, <1>15 DEF RefillStep
<1>16. ASSUME NEW r \in Runners, RunStep(r) PROVE MagStep /\ SameThreads
  BY <1>6, <1>7, <1>8, <1>9, <1>10, <1>16 DEF RunStep
<1>17. ASSUME NEW e \in Elems, ThreadStep(e) PROVE MagStep /\ SameThreads
  BY <1>12, <1>13, <1>14, <1>17 DEF ThreadStep
<1> QED BY <1>1, <1>11, <1>15, <1>16, <1>17 DEF PoolNext

\* No call of the allocator loses an element.
LEMMA NothingLost ==
    ASSUME RInv, MagStep, NEW f \in Elems, f \in Freeable \/ Stored(f)
    PROVE  f \in Freeable' \/ Stored(f)'
<1>0. IInv /\ ElemsUnique /\ OpStored
  BY DEF RInv
<1>1. ASSUME NEW c \in Cpus, NEW e \in Elems \cup {NULL},
             (\E x \in Contexts : AllocLocal(c, x, e)) \/ switch_empty(c, e)
      PROVE  f \in Freeable' \/ Stored(f)'
  <2>1. Gives(e)
    BY <1>1, AllocGives
  <2>2. PICK m \in Mags, i \in Slots : stack[m][i] = e /\ LessSlot(m, i)
    BY <1>0, <1>1, AllocLocalSlots, SwitchEmptySlots
  <2>3. stack' = stack
    BY <1>0, <1>1, AllocElems
  <2> QED BY <2>1, <2>2, <2>3 DEF Gives, Stored, LessSlot
<1>2. ASSUME NEW c \in Cpus,
             (\E x \in Contexts : AllocNeedsDepot(c, x)) \/ switch_empty_fails(c) \/ switch_full(c)
      PROVE  f \in Freeable' \/ Stored(f)'
  <2>1. Freeable' = Freeable /\ SameSlots /\ stack' = stack
    BY <1>0, <1>2, QuietElems
  <2> QED BY <2>1 DEF Stored, SameSlots
<1>3. ASSUME NEW c \in Cpus, NEW e \in Freeable, Free(c, 0, e)
      PROVE  f \in Freeable' \/ Stored(f)'
  <2>0. 0 \in Contexts
    BY PoolConstants
  <2>1. Freeable' = Freeable \ {e}
    BY <1>0, <1>3, <2>0, FreeElems
  <2>2. PICK m \in Mags, i \in Slots :
                /\ ~Occupied(m, i) /\ MoreSlot(m, i)
                /\ stack'[m][i] = e
                /\ \A n \in Mags, j \in Slots : ~(n = m /\ j = i) => stack'[n][j] = stack[n][j]
    BY <1>0, <1>3, <2>0, FreeSlots
  <2>3. Stored(e)'
    BY <2>2 DEF Stored, MoreSlot
  <2>4. Stored(f) => Stored(f)'
    BY <2>2 DEF Stored, MoreSlot
  <2> QED BY <2>1, <2>3, <2>4
<1>4. CASE UNCHANGED magVars
  <2>1. UNCHANGED <<stack, mags, count, full_list, op, held>>
    BY <1>4 DEF magVars, depotVars
  <2> QED BY <2>1 DEF Freeable, Stored, Occupied, InPair, InFull
<1> QED BY <1>1, <1>2, <1>3, <1>4 DEF MagStep

\* A softirq pair never has as much as one magazine.
LEMMA SoftStays ==
    ASSUME RInv, SoftOK, MagStep, 1 \in Contexts, NEW d \in Cpus
    PROVE  count'[<<d, 1>>][0] + count'[<<d, 1>>][1] < MAG_DEPTH
<1>0. /\ IInv /\ MAG_DEPTH \in Nat /\ MAG_DEPTH > 0 /\ <<d, 1>> \in Pairs
      /\ count[<<d, 1>>][0] \in Nat /\ count[<<d, 1>>][1] \in Nat
      /\ count[<<d, 1>>][0] + count[<<d, 1>>][1] < MAG_DEPTH
  BY DepthFacts DEF RInv, IInv, TypeOK, SoftOK
<1>1. ASSUME NEW c \in Cpus, NEW x \in Contexts, NEW e \in Elems \cup {NULL}, AllocLocal(c, x, e)
      PROVE  count'[<<d, 1>>][0] + count'[<<d, 1>>][1] < MAG_DEPTH
  <2> DEFINE p == <<c, x>>
  <2>1. /\ count[p][0] \in 1 .. MAG_DEPTH
        /\ \/ count[p][0] = 1 /\ count'[p][0] = count[p][1] /\ count'[p][1] = 0
           \/ count'[p][0] = count[p][0] - 1 /\ count'[p][1] = count[p][1]
        /\ \A q \in Pairs : q # p => count'[q] = count[q]
    BY <1>0, <1>1, AllocLocalStep
  <2>2. CASE p = <<d, 1>>
    BY <1>0, <2>1, <2>2
  <2>3. CASE p # <<d, 1>>
    BY <1>0, <2>1, <2>3
  <2> QED BY <2>2, <2>3
<1>2. ASSUME NEW c \in Cpus, NEW e \in Elems \cup {NULL}, switch_empty(c, e)
      PROVE  count'[<<d, 1>>][0] + count'[<<d, 1>>][1] < MAG_DEPTH
  <2>1. PICK p \in Pairs :
          /\ \/ MAG_DEPTH = 1 /\ count'[p][0] = 0 /\ count'[p][1] = 0
             \/ MAG_DEPTH > 1 /\ count'[p][0] = MAG_DEPTH - 1 /\ count'[p][1] = 0
          /\ \A q \in Pairs : q # p => count'[q] = count[q]
    BY <1>0, <1>2, SwitchEmptyAt
  <2>2. CASE p = <<d, 1>>
    BY <1>0, <2>1, <2>2
  <2>3. CASE p # <<d, 1>>
    BY <1>0, <2>1, <2>3
  <2> QED BY <2>2, <2>3
<1>3. ASSUME NEW c \in Cpus, (\E x \in Contexts : AllocNeedsDepot(c, x)) \/ switch_empty_fails(c)
      PROVE  count'[<<d, 1>>][0] + count'[<<d, 1>>][1] < MAG_DEPTH
  BY <1>0, <1>3 DEF AllocNeedsDepot, switch_empty_fails
<1>4. ASSUME NEW c \in Cpus, NEW e \in Freeable, Free(c, 0, e)
      PROVE  count'[<<d, 1>>][0] + count'[<<d, 1>>][1] < MAG_DEPTH
  <2>0. 0 \in Contexts /\ <<d, 1>> # <<c, 0>>
    BY PoolConstants
  <2>1. \A q \in Pairs : q # <<c, 0>> => count'[q] = count[q]
    <3>1. count \in [Pairs -> [{0, 1} -> 0 .. MAG_DEPTH]]
      BY <1>0 DEF IInv, TypeOK
    <3> QED BY <1>4, <3>1 DEF Free
  <2>2. count'[<<d, 1>>] = count[<<d, 1>>]
    BY <1>0, <2>0, <2>1
  <2> QED BY <1>0, <2>2
<1>5. ASSUME NEW c \in Cpus, switch_full(c)
      PROVE  count'[<<d, 1>>][0] + count'[<<d, 1>>][1] < MAG_DEPTH
  <2>1. \E p \in Pairs, m \in Mags :
          /\ count[p][0] = MAG_DEPTH /\ count[p][1] = MAG_DEPTH
          /\ \A q \in Pairs : q # p => mags'[q] = mags[q] /\ count'[q] = count[q]
    BY <1>5, SwitchFullAt, Zenon
  <2>2. PICK p \in Pairs :
          /\ count[p][0] = MAG_DEPTH /\ count[p][1] = MAG_DEPTH
          /\ \A q \in Pairs : q # p => count'[q] = count[q]
    BY <2>1
  <2>3. p # <<d, 1>>
    BY <1>0, <2>2
  <2>4. count'[<<d, 1>>] = count[<<d, 1>>]
    BY <1>0, <2>2, <2>3
  <2> QED BY <1>0, <2>4
<1>6. CASE UNCHANGED magVars
  BY <1>0, <1>6 DEF magVars
<1> QED BY <1>1, <1>2, <1>3, <1>4, <1>5, <1>6 DEF MagStep

\* An empty pool hides nothing.
LEMMA PoolInitKInv == PoolInit => KInv
<1> SUFFICES ASSUME PoolInit PROVE KInv
  OBVIOUS
<1>1. PInv /\ MagInit
  BY PoolInitPInv DEF PoolInit
<1>2. KeptOK
  BY DEF PoolInit, KeptOK
<1>3. SoftOK
  <2> SUFFICES ASSUME 1 \in Contexts, NEW c \in Cpus
               PROVE  count[<<c, 1>>][0] + count[<<c, 1>>][1] < MAG_DEPTH
    BY DEF SoftOK
  <2>1. <<c, 1>> \in Pairs
    BY DepthFacts
  <2>2. count[<<c, 1>>] = [i \in {0, 1} |-> 0]
    BY <1>1, <2>1 DEF MagInit
  <2>3. count[<<c, 1>>][0] = 0 /\ count[<<c, 1>>][1] = 0
    BY <2>2
  <2> QED BY <2>3, DepthFacts
<1>4. DepotCounts
  <2>1. 0 % CountMod = 0
    BY DepthFacts, SmallMod
  <2> QED BY <1>1, <2>1 DEF MagInit, DepotCounts
<1> QED BY <1>1, <1>2, <1>3, <1>4 DEF KInv

LEMMA PoolNextKInv == KInv /\ [PoolNext]_poolVars => KInv'
<1> SUFFICES ASSUME KInv, [PoolNext]_poolVars PROVE KInv'
  OBVIOUS
<1>1. PInv /\ RInv /\ IInv /\ KeptOK /\ SoftOK /\ DepotCounts
  BY DEF KInv, PInv, RInv
<1>2. PInv'
  BY <1>1, PoolNextPInv
<1>3. CASE MagStep /\ SameThreads
  <2>1. KeptOK'
    <3> SUFFICES ASSUME NEW e \in Elems, tpc'[e] # "none" PROVE e \in Freeable' \/ Stored(e)'
      BY DEF KeptOK
    <3>1. e \in Freeable \/ Stored(e)
      BY <1>1, <1>3 DEF KeptOK, SameThreads
    <3> QED BY <1>1, <1>3, <3>1, NothingLost
  <2>2. SoftOK'
    BY <1>1, <1>3, SoftStays DEF SoftOK
  <2>3. [Next]_magVars
    BY <1>3, PoolConstants DEF MagStep, Next, mag_alloc_elem, mag_free_elem
  <2>4. DepotCounts'
    BY <1>1, <2>3, NextDepotCounts
  <2> QED BY <1>2, <2>1, <2>2, <2>4 DEF KInv
<1>4. CASE CreateStep
  <2>1. PICK e \in Elems : /\ e \notin held /\ ~Stored(e) /\ held' = held \cup {e}
                           /\ UNCHANGED <<stack, mags, count, depotVars, op, panic>>
                           /\ \A f \in Elems : f # e => tpc'[f] = tpc[f]
    BY <1>4 DEF CreateStep
  <2>2. Freeable' = Freeable \cup {e}
    BY <1>1, <2>1, CreateGives
  <2>3. UNCHANGED <<stack, mags, count, full_list, empty_list, full_count, empty_count>>
    BY <2>1 DEF depotVars
  <2>4. \A f \in Elems : Stored(f)' <=> Stored(f)
    BY <2>3 DEF Stored, Occupied, InPair, InFull
  <2>5. KeptOK'
    BY <1>1, <2>1, <2>2, <2>4 DEF KeptOK
  <2>6. SoftOK' /\ DepotCounts'
    BY <1>1, <2>3 DEF SoftOK, DepotCounts
  <2> QED BY <1>2, <2>5, <2>6 DEF KInv
<1> QED BY <1>1, <1>3, <1>4, PoolMagStep

----
(* How many idle threads there can be.                                     *)

\* The places of a pair, those of the second magazine after those in use of the
\* first, and what is in them.
Place(p, n) == IF n < count[p][0] THEN stack[mags[p][0]][n] ELSE stack[mags[p][1]][n - count[p][0]]

\* Places enough for what pairs keep in context x.
Room(x) == IF x = 0 THEN 2 * MAG_DEPTH - 1 ELSE MAG_DEPTH - 1
Hidden(x) == {Place(<<q[1], x>>, q[2]) : q \in Cpus \X (0 .. (Room(x) - 1))}

\* What the magazines of the depot hold.
InDepot == {stack[full_list[q[1]]][q[2]] : q \in (1 .. Len(full_list)) \X Slots}

\* An idle thread is in the depot or in one of those places: the last place of
\* a process-context pair is in use only while the thread in it is still held.
LEMMA IdleThreads ==
    ASSUME KInv, NEW e \in Created \ held
    PROVE  e \in InDepot \/ \E x \in Contexts : e \in Hidden(x)
<1>1. /\ RInv /\ TypeOK /\ OpStored /\ SoftOK /\ e \in Elems /\ e \notin held /\ tpc[e] # "none"
      /\ MAG_DEPTH \in Nat /\ MAG_DEPTH > 0
  BY DepthFacts DEF KInv, PInv, RInv, IInv, Created
<1>2. Stored(e)
  BY <1>1 DEF KInv, KeptOK, Freeable
<1>3. PICK m \in Mags, i \in Slots : Occupied(m, i) /\ stack[m][i] = e
  BY <1>2 DEF Stored
<1>4. CASE InFull(m)
  <2>1. PICK j \in 1 .. Len(full_list) : full_list[j] = m
    BY <1>1, <1>4 DEF InFull, TypeOK
  <2>2. <<j, i>> \in (1 .. Len(full_list)) \X Slots /\ <<j, i>>[1] = j /\ <<j, i>>[2] = i
    OBVIOUS
  <2> QED BY <1>3, <2>1, <2>2 DEF InDepot
<1>5. CASE InPair(m, i)
  <2>1. PICK p \in Pairs, k \in {0, 1} : mags[p][k] = m /\ i < count[p][k]
    BY <1>5 DEF InPair
  <2>2. PICK c \in Cpus, x \in Contexts : p = <<c, x>>
    BY DEF Pairs
  <2>3. /\ count[p][0] \in 0 .. MAG_DEPTH /\ count[p][1] \in 0 .. MAG_DEPTH
        /\ x \in {0, 1} /\ i \in Nat /\ PairOK(p) /\ p[1] = c /\ p[2] = x
    BY <1>1, <2>2, DepthFacts DEF TypeOK, Slots, RInv, IInv, CountsOK
  <2> DEFINE n == IF k = 0 THEN i ELSE count[p][0] + i
  <2>4. n \in Nat /\ n < count[p][0] + count[p][1] /\ Place(p, n) = e
    <3>1. CASE k = 0
      BY <1>3, <2>1, <2>3, <3>1 DEF Place
    <3>2. CASE k = 1
      BY <1>3, <2>1, <2>3, <3>2 DEF Place
    <3> QED BY <3>1, <3>2
  <2>5. n < Room(x)
    <3>1. CASE x = 1
      BY <1>1, <2>2, <2>3, <2>4, <3>1 DEF SoftOK, Room
    <3>2. CASE x = 0
      <4>1. CASE count[p][1] < MAG_DEPTH
        BY <1>1, <2>3, <2>4, <3>2, <4>1 DEF Room
      <4>2. CASE count[p][1] = MAG_DEPTH
        <5>1. op[c].call = "free" /\ op[c].ctx = x
          BY <2>3, <4>2 DEF PairOK
        <5>2. op[c].elem \in held /\ stack[mags[p][1]][MAG_DEPTH - 1] = op[c].elem
          BY <1>1, <2>2, <5>1, WaitingFree DEF OpStored, RInv
        <5>3. ~(k = 1 /\ i = MAG_DEPTH - 1)
          BY <1>1, <1>3, <2>1, <5>2
        <5> QED BY <1>1, <2>1, <2>3, <3>2, <4>2, <5>3 DEF Room
      <4> QED BY <1>1, <2>3, <4>1, <4>2
    <3> QED BY <2>3, <3>1, <3>2
  <2>6. <<c, n>> \in Cpus \X (0 .. (Room(x) - 1)) /\ <<c, n>>[1] = c /\ <<c, n>>[2] = n
    <3>1. Room(x) \in Int
      BY <1>1 DEF Room
    <3> QED BY <2>4, <2>5, <3>1
  <2>7. e \in Hidden(x)
    BY <2>2, <2>4, <2>6 DEF Hidden
  <2> QED BY <2>7
<1> QED BY <1>3, <1>4, <1>5 DEF Occupied

\* A set that a function maps a finite set onto is no larger than that.
LEMMA HiddenBound ==
    ASSUME IsFiniteSet(Cpus), NEW x \in {0, 1}
    PROVE  IsFiniteSet(Hidden(x)) /\ Cardinality(Hidden(x)) <= Cardinality(Cpus) * Room(x)
<1> DEFINE P == Cpus \X (0 .. (Room(x) - 1))
           f == [q \in P |-> Place(<<q[1], x>>, q[2])]
<1>1. Room(x) \in Nat
  BY DepthFacts DEF Room
<1>2. /\ IsFiniteSet(0 .. (Room(x) - 1)) /\ Cardinality(0 .. (Room(x) - 1)) = Room(x)
  <2>1. Room(x) - 1 \in Int /\ (IF 0 > Room(x) - 1 THEN 0 ELSE (Room(x) - 1) - 0 + 1) = Room(x)
    BY <1>1
  <2>2. /\ IsFiniteSet(0 .. (Room(x) - 1))
        /\ Cardinality(0 .. (Room(x) - 1)) = IF 0 > Room(x) - 1 THEN 0 ELSE (Room(x) - 1) - 0 + 1
    BY <2>1, FS_Interval, 0 \in Int
  <2> QED BY <2>1, <2>2
<1>3. IsFiniteSet(P) /\ Cardinality(P) = Cardinality(Cpus) * Room(x)
  BY <1>2, FS_Product
<1>4. f \in Surjection(P, Hidden(x))
  BY DEF Hidden, Surjection
<1> HIDE DEF P, f
<1> QED BY <1>3, <1>4, FS_Surjection

\* The magazines on the full list are full, and no thread is in two of them.
LEMMA DepotBound ==
    ASSUME KInv, IsFiniteSet(Elems), Cardinality(Elems) < CountMod * MAG_DEPTH
    PROVE  /\ IsFiniteSet(InDepot) /\ Cardinality(InDepot) = full_count * MAG_DEPTH
<1> DEFINE P == (1 .. Len(full_list)) \X Slots
           f == [q \in P |-> stack[full_list[q[1]]][q[2]]]
<1>1. /\ RInv /\ full_list \in Seq(Mags) /\ Len(full_list) \in Nat /\ DOMAIN full_list = 1 .. Len(full_list)
      /\ MAG_DEPTH \in Nat /\ MAG_DEPTH > 0 /\ CountMod \in Nat /\ CountMod > 0
  BY DepthFacts DEF KInv, PInv, RInv, IInv, TypeOK
<1>2. /\ IsFiniteSet(1 .. Len(full_list)) /\ Cardinality(1 .. Len(full_list)) = Len(full_list)
      /\ IsFiniteSet(Slots) /\ Cardinality(Slots) = MAG_DEPTH
  <2>1. /\ Len(full_list) \in Int /\ MAG_DEPTH - 1 \in Int
        /\ (IF 1 > Len(full_list) THEN 0 ELSE Len(full_list) - 1 + 1) = Len(full_list)
        /\ (IF 0 > MAG_DEPTH - 1 THEN 0 ELSE (MAG_DEPTH - 1) - 0 + 1) = MAG_DEPTH
    BY <1>1
  <2>2. /\ IsFiniteSet(1 .. Len(full_list))
        /\ Cardinality(1 .. Len(full_list)) = IF 1 > Len(full_list) THEN 0 ELSE Len(full_list) - 1 + 1
    BY <2>1, FS_Interval, 1 \in Int
  <2>3. /\ IsFiniteSet(0 .. (MAG_DEPTH - 1))
        /\ Cardinality(0 .. (MAG_DEPTH - 1)) = IF 0 > MAG_DEPTH - 1 THEN 0 ELSE (MAG_DEPTH - 1) - 0 + 1
    BY <2>1, FS_Interval, 0 \in Int
  <2> QED BY <2>1, <2>2, <2>3 DEF Slots
<1>3. IsFiniteSet(P) /\ Cardinality(P) = Len(full_list) * MAG_DEPTH
  BY <1>2, FS_Product
<1>4. f \in Bijection(P, InDepot)
  <2>1. f \in Surjection(P, InDepot)
    BY DEF InDepot, Surjection
  <2>2. \A q, r \in P : f[q] = f[r] => q = r
    <3> SUFFICES ASSUME NEW q \in P, NEW r \in P, f[q] = f[r] PROVE q = r
      OBVIOUS
    <3>1. /\ q[1] \in DOMAIN full_list /\ r[1] \in DOMAIN full_list
          /\ q[2] \in 0 .. (MAG_DEPTH - 1) /\ r[2] \in 0 .. (MAG_DEPTH - 1)
          /\ stack[full_list[q[1]]][q[2]] = stack[full_list[r[1]]][r[2]]
      BY <1>1 DEF Slots
    <3>2. q[1] = r[1] /\ q[2] = r[2]
      BY <1>1, <3>1, FullSlots
    <3> QED BY <3>2
  <2>3. DOMAIN f = P
    OBVIOUS
  <2>4. IsInjective(f)
    <3> HIDE DEF P, f
    <3> QED BY <2>2, <2>3 DEF IsInjective
  <2> HIDE DEF P, f
  <2> QED BY <2>1, <2>4 DEF Bijection, Injection, Surjection
<1>5. IsFiniteSet(InDepot) /\ Cardinality(InDepot) = Len(full_list) * MAG_DEPTH
  <2> HIDE DEF P, f
  <2>1. ExistsBijection(P, InDepot)
    BY <1>4 DEF ExistsBijection
  <2> QED BY <1>3, <2>1, FS_Bijection
<1>6. Len(full_list) < CountMod
  <2>1. InDepot \subseteq Elems
    <3>1. \A j \in 1 .. Len(full_list), i \in Slots : stack[full_list[j]][i] \in Elems
      <4> SUFFICES ASSUME NEW j \in 1 .. Len(full_list), NEW i \in Slots
                   PROVE  stack[full_list[j]][i] \in Elems
        OBVIOUS
      <4>1. full_list[j] \in Mags /\ Occupied(full_list[j], i)
        BY <1>1 DEF Occupied, InFull
      <4> QED BY <1>1, <4>1 DEF RInv, ElemsUnique
    <3> QED BY <3>1 DEF InDepot
  <2>2. Cardinality(InDepot) <= Cardinality(Elems)
    BY <2>1, FS_Subset
  <2>3. Cardinality(Elems) \in Nat
    BY FS_CardinalityType
  <2>4. Len(full_list) * MAG_DEPTH < CountMod * MAG_DEPTH
    BY <1>1, <1>5, <2>2, <2>3
  <2> QED BY <1>1, <2>4
<1>7. full_count = Len(full_list)
  <2>1. Len(full_list) % CountMod = Len(full_list)
    <3> HIDE DEF P, f
    <3>1. ASSUME NEW n \in Nat, n < CountMod PROVE n % CountMod = n
      <4>1. n \in 0 .. CountMod /\ CountMod \in Int /\ n # CountMod
        BY <1>1, <3>1
      <4>2. n % CountMod = IF n = CountMod THEN 0 ELSE n
        BY <1>1, <4>1, SmallMod
      <4> QED BY <4>1, <4>2
    <3> QED BY <1>1, <1>6, <3>1
  <2> QED BY <2>1 DEF KInv, DepotCounts
<1> QED BY <1>5, <1>7

\* So much for all idle threads.
LEMMA IdleBound ==
    ASSUME KInv, IsFiniteSet(Cpus), IsFiniteSet(Elems), Cardinality(Elems) < CountMod * MAG_DEPTH
    PROVE  /\ Cardinality(Created \ held) \in Nat
           /\ Cardinality(Created \ held) <= full_count * MAG_DEPTH + HiddenInPairs
<1> DEFINE H == Hidden(0) \cup Hidden(1)
           D == InDepot \cup H
           I == Created \ held
<1>1. /\ IsFiniteSet(Hidden(0)) /\ Cardinality(Hidden(0)) <= Cardinality(Cpus) * (2 * MAG_DEPTH - 1)
      /\ IsFiniteSet(Hidden(1)) /\ Cardinality(Hidden(1)) <= Cardinality(Cpus) * (MAG_DEPTH - 1)
  BY HiddenBound DEF Room
<1>2. IsFiniteSet(InDepot) /\ Cardinality(InDepot) = full_count * MAG_DEPTH
  BY DepotBound
<1>3. \A S, T : IsFiniteSet(S) /\ IsFiniteSet(T) =>
        /\ IsFiniteSet(S \cup T) /\ Cardinality(S) \in Nat /\ Cardinality(T) \in Nat
        /\ Cardinality(S \cup T) \in Nat
        /\ Cardinality(S \cup T) <= Cardinality(S) + Cardinality(T)
  <2> SUFFICES ASSUME NEW S, NEW T, IsFiniteSet(S), IsFiniteSet(T)
               PROVE  /\ IsFiniteSet(S \cup T) /\ Cardinality(S) \in Nat /\ Cardinality(T) \in Nat
                      /\ Cardinality(S \cup T) \in Nat
                      /\ Cardinality(S \cup T) <= Cardinality(S) + Cardinality(T)
    OBVIOUS
  <2>1. IsFiniteSet(S \cap T)
    BY FS_Subset
  <2>2. /\ Cardinality(S) \in Nat /\ Cardinality(T) \in Nat /\ Cardinality(S \cap T) \in Nat
    BY <2>1, FS_CardinalityType
  <2>3. /\ IsFiniteSet(S \cup T)
        /\ Cardinality(S \cup T) = Cardinality(S) + Cardinality(T) - Cardinality(S \cap T)
    BY FS_Union
  <2>4. Cardinality(S \cup T) \in Nat
    BY <2>3, FS_CardinalityType
  <2> QED BY <2>2, <2>3, <2>4
<1>4. IsFiniteSet(H) /\ Cardinality(H) \in Nat /\ Cardinality(H) <= Cardinality(Hidden(0)) + Cardinality(Hidden(1))
      /\ Cardinality(Hidden(0)) \in Nat /\ Cardinality(Hidden(1)) \in Nat
  BY <1>1, <1>3
<1>5. IsFiniteSet(D) /\ Cardinality(D) \in Nat /\ Cardinality(D) <= Cardinality(InDepot) + Cardinality(H)
      /\ Cardinality(InDepot) \in Nat
  <2> HIDE DEF H
  <2> QED BY <1>2, <1>3, <1>4
<1>6. I \subseteq D
  BY IdleThreads, DepthFacts
<1>7. IsFiniteSet(I) /\ Cardinality(I) <= Cardinality(D) /\ Cardinality(I) \in Nat
  <2> HIDE DEF I, D
  <2>1. IsFiniteSet(I) /\ Cardinality(I) <= Cardinality(D)
    BY <1>5, <1>6, FS_Subset
  <2> QED BY <2>1, FS_CardinalityType
<1>8. /\ Cardinality(Cpus) * (2 * MAG_DEPTH - 1) + Cardinality(Cpus) * (MAG_DEPTH - 1) = HiddenInPairs
      /\ Cardinality(Cpus) * (2 * MAG_DEPTH - 1) \in Int /\ Cardinality(Cpus) * (MAG_DEPTH - 1) \in Int
  <2>1. Cardinality(Cpus) \in Nat /\ MAG_DEPTH \in Nat
    BY DepthFacts, FS_CardinalityType
  <2> QED BY <2>1 DEF HiddenInPairs
<1> HIDE DEF H, D, I
<1>9. Cardinality(I) <= full_count * MAG_DEPTH + HiddenInPairs
  BY <1>1, <1>2, <1>4, <1>5, <1>7, <1>8
<1> QED BY <1>7, <1>9 DEF I

----
(* The results.                                                            *)

\* thread_pool.c:133 and :37: for any CPUs, threads and callers, in any context,
\* neither "task allocated twice" nor "no pool task" is ever reported.
THEOREM PoolReportsNoError == PoolSpec => []NoPoolErrors
<1>1. PInv => NoPoolErrors
  BY DEF PInv, PoolTypeOK, NoPoolErrors
<1> QED BY <1>1, PoolInitPInv, PoolNextPInv, PTL DEF PoolSpec

\* A job that was given to a thread stays with that thread and no other until
\* the thread is done with it.
THEOREM JobsStay == PoolSpec => []JobStaysWithOneThread
<1>1. ASSUME PInv PROVE JobStaysWithOneThread
  <2> SUFFICES ASSUME NEW r \in Runners, job[r] \in {"assigned", "running"}
               PROVE  \E e \in Elems :
                        /\ pool_task[e] = r
                        /\ \A f \in Elems : pool_task[f] = r => f = e
                        /\ job[r] = "running" <=> tpc[e] = "task"
    BY DEF JobStaysWithOneThread
  <2>0. NULL # r
    BY PoolConstants
  <2>1. JobOK
    BY <1>1 DEF PInv
  <2>2. PICK e \in Elems : pool_task[e] = r
    BY <2>1 DEF JobOK
  <2>3. job[r] = "running" <=> tpc[e] = "task"
    BY <2>0, <2>1, <2>2 DEF JobOK
  <2>4. \A f \in Elems : pool_task[f] = r => f = e
    BY <2>0, <2>1, <2>2 DEF JobOK
  <2> QED BY <2>2, <2>3, <2>4
<1> QED BY <1>1, PoolInitPInv, PoolNextPInv, PTL DEF PoolSpec

\* On top of the pool's actors the allocator keeps its own promises: no assert
\* of magazine.c fails and no thread is in two places.
THEOREM PoolKeepsAllocator == PoolSpec => [](TypeOK /\ AssertsHold /\ MagsUnique /\ ElemsUnique)
<1>1. PInv => TypeOK /\ AssertsHold /\ MagsUnique /\ ElemsUnique
  BY DEF PInv, RInv, IInv
<1> QED BY <1>1, PoolInitPInv, PoolNextPInv, PTL DEF PoolSpec

\* thread_pool.c:56: for any number of CPUs, any depth of the magazines and any
\* pool_size, a pass of refill_pool that creates threads aims at no more idle
\* ones than pool_size and what the pairs of the CPUs hide from full_count.  The
\* assumption is that all threads fit into magazines that the 16 bits of
\* full_count can count: 262144 threads, eight times the kernel's default pid_max.
THEOREM RefillIsBounded ==
    ASSUME IsFiniteSet(Cpus), IsFiniteSet(Elems), Cardinality(Elems) < CountMod * MAG_DEPTH
    PROVE  PoolSpec => RefillTopsUp
<1>1. ASSUME KInv, RefillRead, refil'.count > 0
      PROVE  Cardinality(Created \ held) + refil'.count <= pool_size + HiddenInPairs
  <2>1. /\ Cardinality(Created \ held) \in Nat
        /\ Cardinality(Created \ held) <= full_count * MAG_DEPTH + HiddenInPairs
    BY <1>1, IdleBound
  <2>2. refil'.count = RefillCount
    BY <1>1 DEF RefillRead, KInv, PInv, PoolTypeOK
  <2>3. pool_size \in Nat /\ full_count * MAG_DEPTH \in Int /\ HiddenInPairs \in Int
    <3>1. pool_size \in Nat /\ full_count \in Nat /\ MAG_DEPTH \in Nat /\ Cardinality(Cpus) \in Nat
      BY <1>1, PoolConstants, DepthFacts, FS_CardinalityType DEF KInv, PInv, RInv, IInv, TypeOK
    <3> QED BY <3>1 DEF HiddenInPairs
  <2>4. refil'.count = pool_size - full_count * MAG_DEPTH
    BY <1>1, <2>2, <2>3 DEF RefillCount
  <2> QED BY <2>1, <2>3, <2>4
<1>2. ASSUME KInv, [PoolNext]_poolVars
      PROVE  [RefillRead /\ refil'.count > 0 =>
                Cardinality(Created \ held) + refil'.count <= pool_size + HiddenInPairs]_poolVars
  BY <1>1, <1>2
<1> QED BY <1>2, PoolInitKInv, PoolNextKInv, PTL DEF PoolSpec, RefillTopsUp
====
