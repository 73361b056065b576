---- MODULE ThreadPool ----
(***************************************************************************)
(* The kthread pool of tcpsplit/thread_pool.c on top of the magazine       *)
(* allocator: sleeping kernel threads are the allocator's elements.        *)
(*                                                                         *)
(* Three kinds of actors interleave: runners (callers of kthread_pool_run, *)
(* in process or in softirq context), the pool's threads (pipe_loop_task)  *)
(* and the refill thread.  An element and its thread are one: Elems is the *)
(* set of threads that memory allows (a bound of the model).  A job is     *)
(* named after the runner that submits it.                                 *)
(***************************************************************************)
EXTENDS MagAllocator, FiniteSets

CONSTANTS Runners,        \* the callers of kthread_pool_run
          RunnerContexts, \* the contexts they call it from
          pool_size,      \* the refill target, DEF_CBN_POOL_SIZE
          CreateMayFail   \* whether kthread_create can return an ERR_PTR

VARIABLES pool_task,  \* pool_task[e]: the job given to thread e, or NULL
          tpc,        \* tpc[e]: where thread e is in pipe_loop_task
          tcpu,       \* tcpu[e]: the CPU thread e called mag_free_elem on
          unint,      \* unint[e]: the task state is TASK_UNINTERRUPTIBLE
          run,        \* run[r]: where runner r is in __kthread_pool_run
          job,        \* job[r]: what became of the job of r
          refil,      \* the refill thread
          top_count,  \* threads created so far
          pool_err    \* "none", or the error the pool ran into

threadVars == <<pool_task, tpc, tcpu, unint>>
poolVars == <<magVars, threadVars, run, job, refil, top_count, pool_err>>

ASSUME PoolConstants ==
    /\ pool_size \in Nat
    /\ CreateMayFail \in BOOLEAN
    /\ RunnerContexts \subseteq Contexts
    /\ 0 \in Contexts
    /\ NULL \notin Runners

NotRunning == [pc |-> "idle", cpu |-> NULL, ctx |-> NULL, elem |-> NULL]

\* A CPU in the middle of a softirq: process context is frozen there.
InSoftirq(c) == \E r \in Runners : run[r].pc # "idle" /\ run[r].cpu = c /\ run[r].ctx = 1

\* cbn_kthread_pool_init: an empty allocator and a refill thread that runs.
PoolInit ==
    /\ MagInit
    /\ held = {}
    /\ pool_task = [e \in Elems |-> NULL]
    /\ tpc = [e \in Elems |-> "none"]
    /\ tcpu = [e \in Elems |-> NULL]
    /\ unint = [e \in Elems |-> FALSE]
    /\ run = [r \in Runners |-> NotRunning]
    /\ job = [r \in Runners |-> "none"]
    /\ refil = [pc |-> "read", count |-> 0, elem |-> NULL]
    /\ top_count = 0
    /\ pool_err = "none"

----
(* The refill thread: refil_thread and refill_pool.                        *)

\* Mutant: the depot is not counted.
RefillCount_ignores_depot == pool_size

\* full_count << 2 in the code: MAG_DEPTH is 4 there.
RefillCount == LET n == pool_size - full_count * MAG_DEPTH
               IN  IF n < 0 THEN 0 ELSE n

\* refill_pool reads the depot's counter, once and without the lock.
RefillRead ==
    /\ refil.pc = "read"
    /\ refil' = [refil EXCEPT !.pc = "loop", !.count = RefillCount]
    /\ UNCHANGED <<magVars, threadVars, run, job, top_count, pool_err>>

\* One round of the loop up to mag_free_elem.  kthread_create leaves the new
\* thread asleep in TASK_UNINTERRUPTIBLE.  A failure is an ERR_PTR, which the
\* test for NULL lets through: the element goes into the pool all the same.
RefillCreate(e) ==
    /\ refil.pc = "loop" /\ refil.count > 0
    /\ tpc[e] = "none"
    /\ \/ tpc' = [tpc EXCEPT ![e] = "asleep"]
       \/ CreateMayFail /\ tpc' = [tpc EXCEPT ![e] = "err_ptr"]
    /\ unint' = [unint EXCEPT ![e] = TRUE]
    /\ pool_task' = [pool_task EXCEPT ![e] = NULL]
    /\ held' = held \cup {e}
    /\ refil' = [pc |-> "free", count |-> refil.count - 1, elem |-> e]
    /\ UNCHANGED <<stack, mags, count, depotVars, op, panic, tcpu, run, job, top_count, pool_err>>

\* kmem_cache_alloc fails (no thread is left in the model), or the loop ends.
RefillReturn ==
    /\ refil.pc = "loop"
    /\ refil.count = 0 \/ \A e \in Elems : tpc[e] # "none"
    /\ refil' = [pc |-> "returned", count |-> 0, elem |-> NULL]
    /\ UNCHANGED <<magVars, threadVars, run, job, top_count, pool_err>>

\* mag_free_elem of the new element, then top_count.
RefillFree(c) ==
    /\ refil.pc = "free"
    /\ ~InSoftirq(c)
    /\ Free(c, 0, refil.elem)
    /\ IF op'[c] = Idle
       THEN refil' = [refil EXCEPT !.pc = "loop", !.elem = NULL] /\ top_count' = top_count + 1
       ELSE refil' = [refil EXCEPT !.pc = "depot"] /\ UNCHANGED top_count
    /\ UNCHANGED <<threadVars, run, job, pool_err>>

RefillDepot(c) ==
    /\ refil.pc = "depot"
    /\ op[c].elem = refil.elem
    /\ switch_full(c)
    /\ refil' = [refil EXCEPT !.pc = "loop", !.elem = NULL]
    /\ top_count' = top_count + 1
    /\ UNCHANGED <<threadVars, run, job, pool_err>>

\* set_current_state(TASK_INTERRUPTIBLE): a wake-up before this is lost.
RefillSetState ==
    /\ refil.pc = "returned"
    /\ refil' = [refil EXCEPT !.pc = "interruptible"]
    /\ UNCHANGED <<magVars, threadVars, run, job, top_count, pool_err>>

\* schedule(): asleep until the next wake_up_process.
RefillSchedule ==
    /\ refil.pc = "interruptible"
    /\ refil' = [refil EXCEPT !.pc = "asleep"]
    /\ UNCHANGED <<magVars, threadVars, run, job, top_count, pool_err>>

\* wake_up_process of the refill thread: it starts over, unless it is still
\* running, in which case nothing happens.
refill_task_start ==
    refil' = IF refil.pc \in {"interruptible", "asleep"} THEN [refil EXCEPT !.pc = "read"] ELSE refil

----
(* A runner: kthread_pool_alloc and __kthread_pool_run.                    *)

\* kthread_pool_run is called; kthread_pool_alloc wakes the refill thread.
\* A softirq starts on a CPU only when interrupts are on and none is active.
RunStart(r, c, x) ==
    /\ run[r].pc = "idle" /\ job[r] \in {"none", "dropped"}
    /\ ~InSoftirq(c) /\ op[c] = Idle
    /\ run' = [run EXCEPT ![r] = [pc |-> "alloc", cpu |-> c, ctx |-> x, elem |-> NULL]]
    /\ job' = [job EXCEPT ![r] = "none"]
    /\ refill_task_start
    /\ UNCHANGED <<magVars, threadVars, top_count, pool_err>>

\* Whether runner r may take a step on its CPU.
OnCpu(r) == run[r].ctx = 1 \/ ~InSoftirq(run[r].cpu)

\* mag_alloc_elem returned e: go on, or return ERR_PTR(-ENOMEM).
AllocReturns(r, e) ==
    IF e # NULL
    THEN /\ run' = [run EXCEPT ![r].pc = "assign", ![r].elem = e]
         /\ UNCHANGED job
    ELSE /\ run' = [run EXCEPT ![r] = NotRunning]
         /\ job' = [job EXCEPT ![r] = "dropped"]

RunAllocLocal(r) ==
    /\ run[r].pc = "alloc" /\ OnCpu(r)
    /\ \E e \in Elems \cup {NULL} : AllocLocal(run[r].cpu, run[r].ctx, e) /\ AllocReturns(r, e)
    /\ UNCHANGED <<threadVars, refil, top_count, pool_err>>

RunAllocNeedsDepot(r) ==
    /\ run[r].pc = "alloc" /\ OnCpu(r)
    /\ AllocNeedsDepot(run[r].cpu, run[r].ctx)
    /\ run' = [run EXCEPT ![r].pc = "depot"]
    /\ UNCHANGED <<threadVars, job, refil, top_count, pool_err>>

RunAllocDepot(r) ==
    /\ run[r].pc = "depot"
    /\ \/ \E e \in Elems \cup {NULL} : switch_empty(run[r].cpu, e) /\ AllocReturns(r, e)
       \/ switch_empty_fails(run[r].cpu) /\ AllocReturns(r, NULL)
    /\ UNCHANGED <<threadVars, refil, top_count, pool_err>>

\* The test for a task allocated twice, then pool_task and data.
RunAssign(r) ==
    LET e == run[r].elem
    IN  /\ run[r].pc = "assign" /\ OnCpu(r)
        /\ pool_err' = IF pool_task[e] # NULL THEN "task allocated twice" ELSE pool_err
        /\ pool_task' = [pool_task EXCEPT ![e] = r]
        /\ job' = [job EXCEPT ![r] = "assigned"]
        /\ run' = [run EXCEPT ![r].pc = "bind"]
        /\ UNCHANGED <<magVars, tpc, tcpu, unint, refil, top_count>>

\* wake_up_process of a pool thread.
WakeUp(e) ==
    /\ unint' = [unint EXCEPT ![e] = FALSE]
    /\ tpc' = [tpc EXCEPT ![e] = IF @ = "asleep" THEN "running" ELSE @]

\* Mutant: the caller waits for a thread that was woken, not for one off its CPU.
RunBindWake_spins(r) ==
    LET e == run[r].elem
    IN  /\ run[r].pc = "bind" /\ OnCpu(r)
        /\ ~unint[e]
        /\ WakeUp(e)
        /\ run' = [run EXCEPT ![r] = NotRunning]
        /\ UNCHANGED <<magVars, pool_task, tcpu, job, refil, top_count, pool_err>>

\* kthread_bind_mask spins until the thread is off its CPU; then it is woken.
\* kthread_bind_mask of an ERR_PTR is a wild access.
RunBindWake(r) ==
    LET e == run[r].elem
    IN  /\ run[r].pc = "bind" /\ OnCpu(r)
        /\ \/ /\ tpc[e] = "asleep" \/ ~unint[e]
              /\ WakeUp(e)
              /\ UNCHANGED pool_err
           \/ /\ tpc[e] = "err_ptr"
              /\ pool_err' = "err_ptr"
              /\ UNCHANGED <<tpc, unint>>
        /\ run' = [run EXCEPT ![r] = NotRunning]
        /\ UNCHANGED <<magVars, pool_task, tcpu, job, refil, top_count>>

----
(* A thread of the pool: pipe_loop_task.                                   *)

\* The top of the loop: run the task, or report that there is none.
ThreadRun(e) ==
    /\ tpc[e] = "running"
    /\ tpc' = [tpc EXCEPT ![e] = "task"]
    /\ IF pool_task[e] # NULL
       THEN job' = [job EXCEPT ![pool_task[e]] = "running"] /\ UNCHANGED pool_err
       ELSE pool_err' = "no pool task" /\ UNCHANGED job
    /\ UNCHANGED <<magVars, pool_task, tcpu, unint, run, refil, top_count>>

\* Mutant: pool_task is not cleared.
ThreadDone_keeps_task(e) ==
    /\ tpc[e] = "task"
    /\ tpc' = [tpc EXCEPT ![e] = "reuse"]
    /\ unint' = [unint EXCEPT ![e] = TRUE]
    /\ job' = [r \in Runners |-> IF pool_task[e] = r THEN "none" ELSE job[r]]
    /\ UNCHANGED <<magVars, pool_task, tcpu, run, refil, top_count, pool_err>>

\* The task returned: set_current_state(TASK_UNINTERRUPTIBLE) and
\* pool_task = NULL, both before the element goes back.
ThreadDone(e) ==
    /\ tpc[e] = "task"
    /\ tpc' = [tpc EXCEPT ![e] = "reuse"]
    /\ unint' = [unint EXCEPT ![e] = TRUE]
    /\ pool_task' = [pool_task EXCEPT ![e] = NULL]
    /\ job' = [r \in Runners |-> IF pool_task[e] = r THEN "none" ELSE job[r]]
    /\ UNCHANGED <<magVars, tcpu, run, refil, top_count, pool_err>>

\* kthread_pool_reuse on whatever CPU the thread is, always in process context.
kthread_pool_reuse(e, c) ==
    /\ tpc[e] = "reuse"
    /\ ~InSoftirq(c)
    /\ Free(c, 0, e)
    /\ tpc' = [tpc EXCEPT ![e] = IF op'[c] = Idle THEN "schedule" ELSE "depot"]
    /\ tcpu' = [tcpu EXCEPT ![e] = c]
    /\ UNCHANGED <<pool_task, unint, run, job, refil, top_count, pool_err>>

ReuseDepot(e) ==
    /\ tpc[e] = "depot"
    /\ switch_full(tcpu[e])
    /\ tpc' = [tpc EXCEPT ![e] = "schedule"]
    /\ UNCHANGED <<pool_task, tcpu, unint, run, job, refil, top_count, pool_err>>

\* Mutant: pool_task is cleared after the element went back to the pool.
ThreadSchedule_clears_task(e) ==
    /\ tpc[e] = "schedule"
    /\ ~InSoftirq(tcpu[e])
    /\ tpc' = [tpc EXCEPT ![e] = IF unint[e] THEN "asleep" ELSE "running"]
    /\ tcpu' = [tcpu EXCEPT ![e] = NULL]
    /\ pool_task' = [pool_task EXCEPT ![e] = NULL]
    /\ UNCHANGED <<magVars, unint, run, job, refil, top_count, pool_err>>

\* schedule(): the thread sleeps, unless it was woken since it set its state.
\* A softirq on its CPU keeps it from getting there.
ThreadSchedule(e) ==
    /\ tpc[e] = "schedule"
    /\ ~InSoftirq(tcpu[e])
    /\ tpc' = [tpc EXCEPT ![e] = IF unint[e] THEN "asleep" ELSE "running"]
    /\ tcpu' = [tcpu EXCEPT ![e] = NULL]
    /\ UNCHANGED <<magVars, pool_task, unint, run, job, refil, top_count, pool_err>>

----
Alive == panic = "none" /\ pool_err # "err_ptr"

RefillStep ==
    \/ RefillRead \/ RefillReturn \/ RefillSetState \/ RefillSchedule
    \/ \E e \in Elems : RefillCreate(e)
    \/ \E c \in Cpus : RefillFree(c) \/ RefillDepot(c)

RunStep(r) ==
    \/ RunAllocLocal(r) \/ RunAllocNeedsDepot(r) \/ RunAllocDepot(r)
    \/ RunAssign(r) \/ RunBindWake(r)

ThreadStep(e) ==
    \/ ThreadRun(e) \/ ThreadDone(e)
    \/ \E c \in Cpus : kthread_pool_reuse(e, c)
    \/ ReuseDepot(e) \/ ThreadSchedule(e)

PoolNext ==
    /\ Alive
    /\ \/ RefillStep
       \/ \E r \in Runners : RunStep(r) \/ \E c \in Cpus, x \in RunnerContexts : RunStart(r, c, x)
       \/ \E e \in Elems : ThreadStep(e)

PoolSpec == PoolInit /\ [][PoolNext]_poolVars

\* The scheduler runs every thread that can run, and a task that was started
\* returns.  Strong fairness where a step needs a CPU that other callers of the
\* allocator keep to themselves now and then, for the length of one call with
\* interrupts off.  Nobody has to call kthread_pool_run.
PoolFairness ==
    /\ SF_poolVars(Alive /\ RefillStep)
    /\ \A r \in Runners : SF_poolVars(Alive /\ RunStep(r))
    /\ \A e \in Elems : SF_poolVars(Alive /\ ThreadStep(e))

FairPoolSpec == PoolSpec /\ PoolFairness

----
(* Correctness.                                                            *)

\* thread_pool.c:133 and :37: neither "task allocated twice" nor "no pool task"
\* is ever reported: a thread is in the pool only without a task and awake
\* only with one.
NoPoolErrors == pool_err \notin {"task allocated twice", "no pool task"}

\* A job that was given to a thread stays with that thread, and with no other,
\* until it is done: the clearing of pool_task never hits a new job.
JobStaysWithOneThread ==
    \A r \in Runners :
        job[r] \in {"assigned", "running"} =>
            \E e \in Elems :
                /\ pool_task[e] = r
                /\ \A f \in Elems : pool_task[f] = r => f = e
                /\ job[r] = "running" <=> tpc[e] = "task"

\* The refill tops the pool up, it does not grow it for ever: a pass that
\* creates threads aims at no more idle ones than pool_size and what the pairs
\* keep to themselves.  A softirq pair keeps less: nothing is freed into it.
Created == {e \in Elems : tpc[e] # "none"}
HiddenInPairs == Cardinality(Cpus) * ((2 * MAG_DEPTH - 1) + (MAG_DEPTH - 1))
RefillTopsUp ==
    [][RefillRead /\ refil'.count > 0 =>
          Cardinality(Created \ held) + refil'.count <= pool_size + HiddenInPairs]_poolVars

\* The one hang of the pool: a softirq was handed the very thread it
\* interrupted, between mag_free_elem (thread_pool.c:44) and schedule(), and
\* kthread_bind_mask spins until that thread is off the CPU.
Hung ==
    \E r \in Runners : LET e == run[r].elem
                       IN  /\ run[r].pc = "bind" /\ run[r].ctx = 1
                           /\ tpc[e] = "schedule" /\ tcpu[e] = run[r].cpu /\ unint[e]

\* A job that was given to a thread is run, whatever the order of the wake-up
\* and the thread's way into schedule(), unless the pool hangs as above or
\* stops at an ERR_PTR of kthread_create.
AssignedJobRuns == \A r \in Runners : (job[r] = "assigned" ~> job[r] = "running" \/ Hung \/ ~Alive)

\* kthread_pool_run returns (thread_pool.c:142): the spin in kthread_bind_mask
\* ends for every caller in process context and for every softirq, but for the
\* one that sits on the thread it waits for.
RunnerReturns == \A r \in Runners : (run[r].pc # "idle" ~> run[r].pc = "idle" \/ Hung \/ ~Alive)
====
