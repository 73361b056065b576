---- MODULE PreConn ----
(***************************************************************************)
(* Connections to the next proxy that are opened before they are needed    *)
(* (tcpsplit/conn_pool.c, preconn_rb_tree.h), and the R tasks that use one  *)
(* in place of a connect of their own.                                     *)
(*                                                                         *)
(* For every next hop and CPU there is a list of connected QPs.  Commands  *)
(* and refill jobs start prealloc_connection tasks, which fill the list of *)
(* the CPU they are bound to; an R task takes the newest connection of its *)
(* CPU, joins the tree of QpPair with it and sends the four-tuple ahead.   *)
(*                                                                         *)
(* A pooled connection is named after the task that opened it.  Once an R  *)
(* task t has taken one, its QP and socket are the QP and socket t of      *)
(* QpPair.                                                                 *)
(***************************************************************************)
EXTENDS QpPair, FiniteSets

CONSTANTS Pre,     \* the R tasks that run start_new_pre_connection_syn
          Cmds,    \* the commands written to the proc file conn_pool
          Conns,   \* the prealloc_connection tasks (a bound of the model)
          Hops,    \* the addresses of next proxies
          hop,     \* hop[t]: the next hop the probe of t was routed to
          Cpus,    \* the possible CPUs
          PER_CORE_POOL_MIN, PER_CORE_POOL_MAX

VARIABLES preconn_root, \* the next hops with a node in the tree
          pool, len,    \* pool[h][c], len[h][c]: struct percpu_list, newest first
          job,          \* job[n]: prealloc_connection task n
          refill,       \* refill[j]: the refill job started by task or command j
          conn          \* conn[t]: the connection R task t took from a pool

poolVars == <<preconn_root, pool, len, job, refill, conn>>
preVars == <<vars, poolVars>>

ASSUME PreConstants ==
    /\ Pre \subseteq Rs
    /\ hop \in [Pre -> Hops]
    /\ \A t \in Tasks : Cpu(t) \in Cpus
    /\ PER_CORE_POOL_MIN \in Nat
    /\ PER_CORE_POOL_MAX \in Nat \ {0}
    /\ NULL \notin Conns /\ IsFiniteSet(Conns)
    /\ Cmds \cap Pre = {}

NoJob == [pc |-> "none", ip |-> NULL, cpu |-> NULL]
NoRefill == [pc |-> "none", ip |-> NULL, node |-> FALSE, todo |-> {}]

\* cbn_pre_connect_init: no next hop is known.
PreInit ==
    /\ Init
    /\ preconn_root = {}
    /\ pool = [h \in Hops |-> [c \in Cpus |-> <<>>]]
    /\ len = [h \in Hops |-> [c \in Cpus |-> 0]]
    /\ job = [n \in Conns |-> NoJob]
    /\ refill = [j \in Pre \cup Cmds |-> NoRefill]
    /\ conn = [t \in Pre |-> NULL]

----
(* prealloc_connection: one connection for the pool of its CPU.            *)

JobGoto(n, place) == job' = [job EXCEPT ![n].pc = place]
GiveUp(n) == job' = [job EXCEPT ![n] = [NoJob EXCEPT !.pc = "failed"]]

\* The socket cannot be created, set up or connected: it is released, the QP is
\* not freed.  When creating it failed the pointer that is tested and released
\* was never set.
PreallocFails(n) ==
    /\ oops = "none" /\ job[n].pc = "connect"
    /\ GiveUp(n)
    /\ oops' \in {"none", "uninit_tx"}
    /\ UNCHANGED <<pc, qp, qpVars, sock, src, dst, preconn_root, pool, len, refill, conn>>

\* The socket is connected.  get_rb_preconn looks the node of the next hop up
\* under the read lock, and allocates one when there is none.
get_rb_preconn(n) ==
    /\ oops = "none" /\ job[n].pc = "connect"
    /\ JobGoto(n, IF job[n].ip \in preconn_root THEN "add" ELSE "insert")
    /\ UNCHANGED <<vars, preconn_root, pool, len, refill, conn>>

\* There is no memory for the node: the connection is given up.
NoPreconnMemory(n) ==
    /\ oops = "none" /\ job[n].pc = "insert"
    /\ GiveUp(n)
    /\ UNCHANGED <<vars, preconn_root, pool, len, refill, conn>>

\* There is none for its lists: the node is freed, and used all the same.
InitPreconnFails(n) ==
    /\ oops = "none" /\ job[n].pc = "insert"
    /\ oops' = "freed_preconn"
    /\ UNCHANGED <<pc, qp, qpVars, sock, src, dst, poolVars>>

\* Mutant: a second node replaces the first one and its lists.
add_rb_preconn_replaces(n) ==
    LET h == job[n].ip
    IN  /\ oops = "none" /\ job[n].pc = "insert"
        /\ preconn_root' = preconn_root \cup {h}
        /\ pool' = [pool EXCEPT ![h] = [c \in Cpus |-> <<>>]]
        /\ len' = [len EXCEPT ![h] = [c \in Cpus |-> 0]]
        /\ JobGoto(n, "add")
        /\ UNCHANGED <<vars, refill, conn>>

\* add_rb_preconn under the write lock.  A node that another CPU linked in the
\* meantime is a duplicate: the new one is freed and the connection given up.
add_rb_preconn(n) ==
    /\ oops = "none" /\ job[n].pc = "insert"
    /\ preconn_root' = preconn_root \cup {job[n].ip}
    /\ IF job[n].ip \in preconn_root THEN GiveUp(n) ELSE JobGoto(n, "add")
    /\ UNCHANGED <<vars, pool, len, refill, conn>>

\* add_preconn_qp: list_add and len++ with preemption disabled.
add_preconn_qp(n) ==
    LET h == job[n].ip
        c == job[n].cpu
    IN  /\ oops = "none" /\ job[n].pc = "add"
        /\ pool' = [pool EXCEPT ![h][c] = <<n>> \o @]
        /\ len' = [len EXCEPT ![h][c] = @ + 1]
        /\ JobGoto(n, "pooled")
        /\ UNCHANGED <<vars, preconn_root, refill, conn>>

----
(* prealloc_connection_pool and preconn_write_cb: jobs that fill the pools. *)

\* Up to PER_CORE_POOL_MIN tasks are started on CPU c: kthread_pool_run_cpu may
\* fail, and nobody looks.
Spawn(h, c) ==
    \E ns \in SUBSET {n \in Conns : job[n].pc = "none"} :
        /\ Cardinality(ns) <= PER_CORE_POOL_MIN
        /\ job' = [n \in Conns |-> IF n \in ns THEN [pc |-> "connect", ip |-> h, cpu |-> c]
                                               ELSE job[n]]

\* The pools of a next hop are filled, whatever they hold already.
preconn_write_cb(j, h) ==
    /\ oops = "none" /\ refill[j].pc = "none"
    /\ refill' = [refill EXCEPT ![j] = [pc |-> "loop", ip |-> h, node |-> FALSE, todo |-> Cpus]]
    /\ UNCHANGED <<vars, preconn_root, pool, len, job, conn>>

\* An address is written to the proc file conn_pool; anything else is refused.
preconn_proc_command(j) == \E h \in Hops : preconn_write_cb(j, h)

\* A refill job looks its next hop up, once.
prealloc_connection_pool(j) ==
    /\ oops = "none" /\ refill[j].pc = "start"
    /\ refill' = [refill EXCEPT ![j].pc = "loop",
                                ![j].node = refill[j].ip \in preconn_root,
                                ![j].todo = Cpus]
    /\ UNCHANGED <<vars, preconn_root, pool, len, job, conn>>

\* Whether the pool of CPU c still takes connections, from a length that is
\* read without any lock; without a node the length counts as zero.
BelowMax(j, c) == ~refill[j].node \/ len[refill[j].ip][c] < PER_CORE_POOL_MAX

\* One CPU of the loop.
RefillCpu(j) ==
    /\ oops = "none" /\ refill[j].pc = "loop"
    /\ \E c \in refill[j].todo :
          /\ IF BelowMax(j, c) THEN Spawn(refill[j].ip, c) ELSE UNCHANGED job
          /\ refill' = [refill EXCEPT ![j] =
                           IF refill[j].todo = {c} THEN [NoRefill EXCEPT !.pc = "done"]
                           ELSE [refill[j] EXCEPT !.todo = refill[j].todo \ {c}]]
    /\ UNCHANGED <<vars, preconn_root, pool, len, conn>>

----
(* start_new_pre_connection_syn.                                           *)

\* Every R task starts one refill job, whether it got a connection or not.
StartRefill(t) == refill' = [refill EXCEPT ![t] = [NoRefill EXCEPT !.pc = "start", !.ip = hop[t]]]

\* alloc_prexeisting_conn finds no node or an empty list; the task goes on as
\* start_new_connection_syn.
AllocEmpty(t) ==
    /\ pc[t] = "start" /\ MayRun(t) /\ refill[t].pc = "none"
    /\ hop[t] \notin preconn_root \/ pool[hop[t]][Cpu(t)] = <<>>
    /\ StartRefill(t)
    /\ UNCHANGED <<vars, preconn_root, pool, len, job, conn>>

\* Taking the first entry of list l: its QP becomes the task's own one, with tx
\* connected and rx NULL.  The next hop may have closed it in the meantime.
TakeFirst(t, l) ==
    /\ conn' = [conn EXCEPT ![t] = Head(l)]
    /\ mem' = [mem EXCEPT ![t] = "live"]
    /\ tx' = [tx EXCEPT ![t] = t]
    /\ \E s \in {"open", "eof"} : sock' = [sock EXCEPT ![t] = s]
    /\ StartRefill(t)
    /\ Goto(t, "taken")
    /\ UNCHANGED <<qp, ref_cnt, rx, tree, src, dst, oops, preconn_root, job>>

\* alloc_prexeisting_conn takes the newest connection of its CPU, with
\* preemption disabled.
AllocConn(t) ==
    LET h == hop[t]
        c == Cpu(t)
    IN  /\ pc[t] = "start" /\ MayRun(t) /\ refill[t].pc = "none"
        /\ h \in preconn_root /\ pool[h][c] # <<>>
        /\ pool' = [pool EXCEPT ![h][c] = Tail(@)]
        /\ len' = [len EXCEPT ![h][c] = @ - 1]
        /\ TakeFirst(t, pool[h][c])

\* The tenant's listener is gone: the task ends and keeps its connection.
NoListner(t) ==
    /\ pc[t] = "taken" /\ MayRun(t)
    /\ Goto(t, "done")
    /\ UNCHANGED <<qp, qpVars, sock, src, dst, oops, poolVars>>

\* qp_exists with the connection's QP.
PreStart(t) ==
    /\ pc[t] = "taken" /\ MayRun(t)
    /\ add_rb_data(t, "forward")
    /\ UNCHANGED <<mem, ref_cnt, tx, rx, sock, src, dst, oops, poolVars>>

\* forward_conn_info: the four-tuple is sent to the next hop.  kernel_sendmsg
\* may sleep, and the task holds no reference yet.
Forward(t) ==
    /\ pc[t] = "forward" /\ MayRun(t)
    /\ sock[t] # "released"
    /\ Goto(t, "ready")
    /\ UNCHANGED <<qp, qpVars, sock, src, dst, oops, poolVars>>

\* It fails on a connection that is closed: start_new_connection_syn is called.
ForwardFails(t) ==
    /\ pc[t] = "forward" /\ MayRun(t)
    /\ sock[t] \in {"eof", "shut"}
    /\ Goto(t, "fallback")
    /\ UNCHANGED <<qp, qpVars, sock, src, dst, oops, poolVars>>

\* An L task found the QP, copied, ended and released both sockets meanwhile.
ForwardStale(t) ==
    /\ pc[t] = "forward" /\ MayRun(t)
    /\ sock[t] = "released"
    /\ oops' = "stale_sock"
    /\ UNCHANGED <<pc, qp, qpVars, sock, src, dst, poolVars>>

\* start_new_connection_syn called after the failure: the QP it finds in the
\* tree has this direction already, and the task drops itself as a double SYN.
Fallback(t) ==
    /\ pc[t] = "fallback" /\ MayRun(t)
    /\ \E q \in Found(t) :
          IF mem[q] = "freed"
          THEN oops' = "stale_qp" /\ UNCHANGED pc
          ELSE tx[q] # NULL /\ Goto(t, "done") /\ UNCHANGED oops
    /\ UNCHANGED <<qp, qpVars, sock, src, dst, poolVars>>

\* The sockets are copied without a test, unlike in start_new_connection_syn.
PreCheck(t) ==
    /\ pc[t] = "check" /\ MayRun(t) /\ Live(t)
    /\ src' = [src EXCEPT ![t] = Mine(t)]
    /\ dst' = [dst EXCEPT ![t] = Peer(t)]
    /\ Goto(t, "half_duplex")
    /\ UNCHANGED <<qp, qpVars, sock, oops, poolVars>>

----
PoolStep ==
    \/ \E n \in Conns :
          \/ PreallocFails(n) \/ get_rb_preconn(n) \/ NoPreconnMemory(n)
          \/ InitPreconnFails(n) \/ add_rb_preconn(n) \/ add_preconn_qp(n)
    \/ \E j \in Cmds : preconn_proc_command(j)
    \/ \E j \in Pre \cup Cmds : prealloc_connection_pool(j) \/ RefillCpu(j)

\* A task of QpPair, or an R task that found no connection in the pool.
PlainStep(t) ==
    /\ UNCHANGED poolVars
    /\ Step(t) \/ Environment(t)
    /\ t \in Pre => refill[t].pc # "none" /\ conn[t] = NULL

\* An R task with a connection from the pool.
PreStep(t) ==
    \/ AllocEmpty(t) \/ AllocConn(t) \/ NoListner(t) \/ PreStart(t)
    \/ Forward(t) \/ ForwardFails(t) \/ ForwardStale(t) \/ Fallback(t)
    \/ /\ conn[t] # NULL
       /\ \/ PreCheck(t)
          \/ /\ UNCHANGED poolVars
             /\ \/ RDrop(t) \/ JoinTest(t) \/ AdoptTo(t, "forward")
                \/ ReadyTest(t) \/ get_qp(t) \/ WaitDone(t) \/ WaitTimeout(t)
                \/ TimeoutDeTree(t) \/ TimeoutPut(t) \/ HalfDuplexEnds(t)
                \/ StaleAccess(t) \/ Environment(t)

PreNext == PoolStep \/ (\E t \in Tasks : PlainStep(t)) \/ (\E t \in Pre : PreStep(t))

PreSpec == PreInit /\ [][PreNext]_preVars

----
(* Correctness.                                                            *)

\* Where connection n is: places in lists and tasks that took it.
ListPlaces(n) == {p \in Hops \X Cpus \X (1 .. Cardinality(Conns)) :
                     p[3] <= Len(pool[p[1]][p[2]]) /\ pool[p[1]][p[2]][p[3]] = n}
Takers(n) == {t \in Pre : conn[t] = n}

\* A connection that add_preconn_qp put into a list is in one list or was taken
\* by one R task, whatever refills, commands and SYNs do side by side: none is
\* lost to the pool and none serves two clients.  len is the length of its list,
\* so that PER_CORE_POOL_MAX is compared with what is there.
PooledOnce ==
    /\ \A n \in Conns : Cardinality(ListPlaces(n)) + Cardinality(Takers(n))
                           = (IF job[n].pc = "pooled" THEN 1 ELSE 0)
    /\ \A h \in Hops, c \in Cpus : len[h][c] = Len(pool[h][c])

\* A task that fails to forward finds its own connection in the tree when it
\* falls back (conn_pool.c:150), and nothing else: it never connects anew.
FallbackFindsItself ==
    \A t \in Pre : pc[t] = "fallback" => Found(t) = {qp[t]} /\ tx[qp[t]] = t

\* Only a QP with a connection from a pool can be freed while it is in the
\* tree: its socket is visible before its R task holds a reference.  No QP is
\* erased from the tree twice all the same, in whatever order the references and
\* the time-outs of such a pair come.
OnlyPreConnsDangle ==
    /\ \A q \in tree : ref_cnt[q] < 2 /\ (mem[q] = "live" \/ (tx[q] \in Pre /\ conn[tx[q]] # NULL))
    /\ oops # "rb_erase"

\* What half_duplex copies through is there: the task's reference protects the QP
\* and both sockets, however the pair came about.  A QP that is freed in the tree
\* never takes them from a task that copies.
CopyingIsProtected ==
    oops = "none" => \A t \in Tasks : pc[t] = "half_duplex" =>
        mem[qp[t]] = "live" /\ sock[src[t]] # "released" /\ sock[dst[t]] # "released"

\* When no task is under way, what is left open is a connection from a pool whose
\* R task dropped itself: the clients' sockets and the connections that R tasks
\* opened themselves are released.
OnlyPooledConnsLeak ==
    /\ oops = "none"
    /\ \A t \in Tasks : pc[t] \in {"start", "done"}
    => \A t \in Tasks : sock[t] \in {"open", "eof", "shut"} => t \in Pre /\ conn[t] # NULL
====
