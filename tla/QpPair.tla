---- MODULE QpPair ----
(***************************************************************************)
(* How tcpsplit joins the two halves of a split TCP connection             *)
(* (tcpsplit/split.c, qp.c, rb_data_tree.h).                               *)
(*                                                                         *)
(* An L task (start_new_connection) serves the socket accepted from the    *)
(* client, an R task (start_new_connection_syn) connects to the server.    *)
(* They come in any order and any number and meet in a tree of queue       *)
(* pairs (struct cbn_qp) that is kept per CPU and keyed by the four-tuple. *)
(* Whoever comes second uses the first one's QP; ref_cnt reaches 2, the QP *)
(* leaves the tree and each task copies one direction until its end.       *)
(*                                                                         *)
(* A QP is named after the task it was allocated for, a socket after the   *)
(* task that serves it.  Freed memory is never used again in the model: an *)
(* access to it stops the system and is recorded in oops.                  *)
(***************************************************************************)
EXTENDS Integers, Sequences

CONSTANTS Ls, Rs,         \* the L and the R tasks
          key,            \* key[t]: the bytes of the four-tuple of task t
          RB_KEY_LENGTH,  \* their number
          qp2cpu(_),      \* the CPU of a key: any function of its bytes
          Preempt,        \* a CONFIG_PREEMPT kernel
          NULL, ERR       \* a NULL and an ERR_PTR socket pointer

VARIABLES pc,      \* pc[t]: where task t is
          qp,      \* qp[t]: the task's variable of that name
          mem,     \* mem[q]: "none", "live" or "freed"
          ref_cnt, \* ref_cnt[q]
          tx, rx,  \* tx[q], rx[q]: the two sockets, qp_dir[0] and qp_dir[1]
          tree,    \* the QPs linked into the tree of their CPU
          sock,    \* sock[t]: the state of the socket of task t
          src, dst,\* src[t], dst[t]: what half_duplex of t reads and writes
          oops     \* "none", or the access that brought the kernel down

qpVars == <<mem, ref_cnt, tx, rx, tree>>
vars == <<pc, qp, qpVars, sock, src, dst, oops>>

Tasks == Ls \cup Rs
SockPtr == Tasks \cup {NULL, ERR}

ASSUME QpConstants ==
    /\ Ls \cap Rs = {}
    /\ RB_KEY_LENGTH \in Nat
    /\ key \in [Tasks -> [1 .. RB_KEY_LENGTH -> 0 .. 255]]
    /\ Preempt \in BOOLEAN
    /\ NULL \notin Tasks /\ ERR \notin Tasks /\ NULL # ERR

\* Both tasks of a connection are bound to the CPU of its key: an R task when
\* it is started (addresses2cpu), an L task by sched_setaffinity.
Cpu(t) == qp2cpu(key[t])

\* Mutant: only the last byte is compared.
SameKey_last(a, b) == a[RB_KEY_LENGTH] = b[RB_KEY_LENGTH]

\* strncmp(a, b, RB_KEY_LENGTH) = 0: no byte differs up to the first NUL of a.
SameKey(a, b) ==
    \A i \in 1 .. RB_KEY_LENGTH : (\A j \in 1 .. (i - 1) : a[j] # 0) => a[i] = b[i]

\* The places a task leaves only by itself, without sleeping: on a kernel that
\* does not preempt, no other task of the CPU runs meanwhile.
Busy == {"join", "adopt", "ready", "get_wait", "get_go", "timeout", "timeout_put", "check"}
MayRun(t) ==
    /\ oops = "none"
    /\ Preempt \/ \A u \in Tasks \ {t} : ~(pc[u] \in Busy /\ Cpu(u) = Cpu(t))

Init ==
    /\ pc = [t \in Tasks |-> "start"]
    /\ qp = [t \in Tasks |-> NULL]
    /\ mem = [q \in Tasks |-> "none"]
    /\ ref_cnt = [q \in Tasks |-> 0]
    /\ tx = [q \in Tasks |-> NULL]
    /\ rx = [q \in Tasks |-> NULL]
    /\ tree = {}
    /\ sock = [t \in Tasks |-> "none"]
    /\ src = [t \in Tasks |-> NULL]
    /\ dst = [t \in Tasks |-> NULL]
    /\ oops = "none"

Goto(t, place) == pc' = [pc EXCEPT ![t] = place]
\* Mutant: an ERR_PTR is taken for a socket.
IS_NULL(s) == s = NULL

IS_ERR_OR_NULL(s) == s \in {NULL, ERR}

\* The socket in the other direction, qp_dir[dir ^ 1], and in the task's own.
Peer(t) == IF t \in Ls THEN tx[qp[t]] ELSE rx[qp[t]]
Mine(t) == IF t \in Ls THEN rx[qp[t]] ELSE tx[qp[t]]

\* A task about to use its QP while the QP is there.
Live(t) == mem[qp[t]] = "live"

\* The same after another task freed it.
StaleAccess(t) ==
    /\ pc[t] \in Busy \cup {"wait", "half_duplex"} /\ MayRun(t)
    /\ mem[qp[t]] = "freed"
    /\ oops' = "stale_qp"
    /\ UNCHANGED <<pc, qp, qpVars, sock, src, dst>>

----
(* The environment: TCP.                                                   *)

\* The remote end of an open connection closes it or resets it.
PeerCloses(t) ==
    /\ oops = "none"
    /\ sock[t] = "open"
    /\ sock' = [sock EXCEPT ![t] = "eof"]
    /\ UNCHANGED <<pc, qp, qpVars, src, dst, oops>>

----
(* qp_exists.                                                              *)

\* The QP of the task's CPU whose key compares equal, as add_rb_data finds it.
Found(t) == {q \in tree : Cpu(q) = Cpu(t) /\ SameKey(key[t], key[q])}

\* add_rb_data of the task's own new QP: linked in, or another one found.
\* next is where a task whose QP was linked goes on.
add_rb_data(t, next) ==
    \/ /\ Found(t) = {}
       /\ tree' = tree \cup {t}
       /\ qp' = [qp EXCEPT ![t] = t]
       /\ Goto(t, next)
    \/ \E q \in Found(t) :
       /\ qp' = [qp EXCEPT ![t] = q]
       /\ Goto(t, "join")
       /\ UNCHANGED tree

\* An R task allocates its QP, marks tx as in progress and looks for the peer.
RStart(t) ==
    /\ pc[t] = "start" /\ MayRun(t)
    /\ mem' = [mem EXCEPT ![t] = "live"]
    /\ tx' = [tx EXCEPT ![t] = ERR]
    /\ add_rb_data(t, "connect")
    /\ UNCHANGED <<ref_cnt, rx, sock, src, dst, oops>>

\* A QP was found that this direction is in already: a double SYN.  The R task
\* ends, and its own QP is not freed.
RDrop(t) ==
    /\ t \in Rs /\ pc[t] = "join" /\ MayRun(t)
    /\ Live(t) /\ Mine(t) # NULL
    /\ Goto(t, "done")
    /\ UNCHANGED <<qp, qpVars, sock, src, dst, oops>>

\* The same in an L task: start_new_connection does not look at what qp_exists
\* returned and hands NULL to wait_qp_ready.
LDrop(t) ==
    /\ t \in Ls /\ pc[t] = "join" /\ MayRun(t)
    /\ Live(t) /\ Mine(t) # NULL
    /\ oops' = "null_qp"
    /\ UNCHANGED <<pc, qp, qpVars, sock, src, dst>>

\* Mutant: a direction that is being connected counts as free.
JoinTest_connecting(t) ==
    /\ pc[t] = "join" /\ MayRun(t)
    /\ Live(t) /\ IS_ERR_OR_NULL(Mine(t))
    /\ Goto(t, "adopt")
    /\ UNCHANGED <<qp, qpVars, sock, src, dst, oops>>

\* The direction is free.
JoinTest(t) ==
    /\ pc[t] = "join" /\ MayRun(t)
    /\ Live(t) /\ Mine(t) = NULL
    /\ Goto(t, "adopt")
    /\ UNCHANGED <<qp, qpVars, sock, src, dst, oops>>

\* The other direction was first: its QP is used, the task's own one is freed.
\* next is where an R task goes on.
AdoptTo(t, next) ==
    LET q == qp[t]
    IN  /\ pc[t] = "adopt" /\ MayRun(t) /\ Live(t)
        /\ IF t \in Ls
           THEN rx' = [rx EXCEPT ![q] = rx[t]] /\ UNCHANGED tx /\ Goto(t, "ready")
           ELSE tx' = [tx EXCEPT ![q] = tx[t]] /\ UNCHANGED rx /\ Goto(t, next)
        /\ mem' = [mem EXCEPT ![t] = "freed"]
        /\ UNCHANGED <<qp, ref_cnt, tree, sock, src, dst, oops>>

Adopt(t) == AdoptTo(t, "connect")

----
(* start_new_connection_syn: the socket towards the server.                *)

\* kernel_connect, which may take longer than any time-out of the peer, and
\* qp->tx = tx.
RConnect(t) ==
    /\ pc[t] = "connect" /\ MayRun(t) /\ Live(t)
    /\ sock' = [sock EXCEPT ![t] = "open"]
    /\ tx' = [tx EXCEPT ![qp[t]] = t]
    /\ Goto(t, "ready")
    /\ UNCHANGED <<qp, mem, ref_cnt, rx, tree, src, dst, oops>>

\* The peer timed out meanwhile and freed the QP: qp->tx is written to it.
RLateConnect(t) ==
    /\ pc[t] = "connect" /\ MayRun(t)
    /\ mem[qp[t]] = "freed"
    /\ sock' = [sock EXCEPT ![t] = "open"]
    /\ oops' = "late_connect"
    /\ UNCHANGED <<pc, qp, qpVars, src, dst>>

\* Mutant: the socket is not released when connecting fails.
RConnectFails_leaks(t) ==
    /\ pc[t] = "connect" /\ MayRun(t)
    /\ Goto(t, "done")
    /\ sock' = [sock EXCEPT ![t] = "eof"]
    /\ UNCHANGED <<qp, qpVars, src, dst, oops>>

\* Creating, configuring, binding or connecting the socket fails: it is
\* released, the QP stays as it is.
RConnectFails(t) ==
    /\ pc[t] = "connect" /\ MayRun(t)
    /\ Goto(t, "done")
    /\ sock' = [sock EXCEPT ![t] = "released"]
    /\ UNCHANGED <<qp, qpVars, src, dst, oops>>

----
(* split_server and start_new_connection: the socket from the client.      *)

\* split_server accepts a connection, allocates its QP and starts the L task.
Accept(t) ==
    /\ t \in Ls /\ pc[t] = "start" /\ oops = "none"
    /\ sock' = [sock EXCEPT ![t] = "open"]
    /\ mem' = [mem EXCEPT ![t] = "live"]
    /\ rx' = [rx EXCEPT ![t] = t]
    /\ Goto(t, "accepted")
    /\ UNCHANGED <<qp, ref_cnt, tx, tree, src, dst, oops>>

\* A socket option, the address or the affinity cannot be had: the socket is
\* released, the QP is not freed.
LSetupFails(t) ==
    /\ pc[t] = "accepted" /\ MayRun(t)
    /\ sock' = [sock EXCEPT ![t] = "released"]
    /\ Goto(t, "done")
    /\ UNCHANGED <<qp, qpVars, src, dst, oops>>

LStart(t) ==
    /\ pc[t] = "accepted" /\ MayRun(t)
    /\ tx' = [tx EXCEPT ![t] = NULL]
    /\ add_rb_data(t, "ready")
    /\ UNCHANGED <<mem, ref_cnt, rx, sock, src, dst, oops>>

----
(* wait_qp_ready, get_qp and put_qp.                                       *)

\* The test of the peer's socket.
ReadyTest(t) ==
    /\ pc[t] = "ready" /\ MayRun(t) /\ Live(t)
    /\ Goto(t, IF IS_ERR_OR_NULL(Peer(t)) THEN "get_wait" ELSE "get_go")
    /\ UNCHANGED <<qp, qpVars, sock, src, dst, oops>>

\* rb_erase of a node that is linked; of one that is not it breaks the tree.
de_tree_qp(q) ==
    IF q \in tree THEN tree' = tree \ {q} /\ UNCHANGED oops
                  ELSE oops' = "rb_erase" /\ UNCHANGED tree

\* Mutant: a complete pair stays in the tree.
get_qp_keeps_in_tree(t) ==
    /\ pc[t] \in {"get_wait", "get_go"} /\ MayRun(t) /\ Live(t)
    /\ ref_cnt' = [ref_cnt EXCEPT ![qp[t]] = @ + 1]
    /\ Goto(t, IF pc[t] = "get_wait" THEN "wait" ELSE "check")
    /\ UNCHANGED <<qp, mem, tx, rx, tree, oops, sock, src, dst>>

\* get_qp: the second reference takes the QP out of the tree.
get_qp(t) ==
    LET q == qp[t]
    IN  /\ pc[t] \in {"get_wait", "get_go"} /\ MayRun(t) /\ Live(t)
        /\ ref_cnt' = [ref_cnt EXCEPT ![q] = @ + 1]
        /\ IF ref_cnt[q] + 1 = 2 THEN de_tree_qp(q) ELSE UNCHANGED <<tree, oops>>
        /\ Goto(t, IF pc[t] = "get_wait" THEN "wait" ELSE "check")
        /\ UNCHANGED <<qp, mem, tx, rx, sock, src, dst>>

\* wait_event_interruptible_timeout ends because the peer's socket is there.
WaitDone(t) ==
    /\ pc[t] = "wait" /\ MayRun(t) /\ Live(t)
    /\ ~IS_ERR_OR_NULL(Peer(t))
    /\ Goto(t, "check")
    /\ UNCHANGED <<qp, qpVars, sock, src, dst, oops>>

\* Mutant: the wait has no time-out while the peer's connection is in progress.
WaitTimeout_not_connecting(t) ==
    /\ pc[t] = "wait" /\ MayRun(t) /\ Live(t)
    /\ Peer(t) = NULL
    /\ Goto(t, "timeout")
    /\ UNCHANGED <<qp, qpVars, sock, src, dst, oops>>

\* Mutant: the result of the wait is taken for a time-out whatever it is.
WaitTimeout_always(t) ==
    /\ pc[t] = "wait" /\ MayRun(t) /\ Live(t)
    /\ Goto(t, "timeout")
    /\ UNCHANGED <<qp, qpVars, sock, src, dst, oops>>

\* It ends after QP_TO seconds without it.
WaitTimeout(t) ==
    /\ pc[t] = "wait" /\ MayRun(t) /\ Live(t)
    /\ IS_ERR_OR_NULL(Peer(t))
    /\ Goto(t, "timeout")
    /\ UNCHANGED <<qp, qpVars, sock, src, dst, oops>>

\* The QP is taken out of the tree after the time-out.
TimeoutDeTree(t) ==
    /\ pc[t] = "timeout" /\ MayRun(t) /\ Live(t)
    /\ de_tree_qp(qp[t])
    /\ Goto(t, "timeout_put")
    /\ UNCHANGED <<qp, mem, ref_cnt, tx, rx, sock, src, dst>>

\* Mutant: the first reference given back releases everything.
put_qp_first(q) ==
    /\ sock' = [t \in Tasks |-> IF t \in {tx[q], rx[q]} THEN "released" ELSE sock[t]]
    /\ mem' = [mem EXCEPT ![q] = "freed"]
    /\ ref_cnt' = [ref_cnt EXCEPT ![q] = 0]

\* Mutant: the first reference given back leaves the sockets open.
put_qp_no_shutdown(q) ==
    /\ ref_cnt' = [ref_cnt EXCEPT ![q] = @ - 1]
    /\ IF ref_cnt[q] = 1
       THEN /\ sock' = [t \in Tasks |-> IF t \in {tx[q], rx[q]} THEN "released" ELSE sock[t]]
            /\ mem' = [mem EXCEPT ![q] = "freed"]
       ELSE UNCHANGED <<sock, mem>>

\* Mutant: the last reference releases only tx.
put_qp_tx_only(q) ==
    /\ ref_cnt' = [ref_cnt EXCEPT ![q] = @ - 1]
    /\ sock' = [t \in Tasks |-> IF t = tx[q] /\ ref_cnt[q] = 1 THEN "released"
                               ELSE IF t \in {tx[q], rx[q]} THEN "shut" ELSE sock[t]]
    /\ mem' = [mem EXCEPT ![q] = IF ref_cnt[q] = 1 THEN "freed" ELSE @]

\* put_qp: the last reference releases both sockets and the QP, any other one
\* shuts both sockets down so that the peer task ends too.
put_qp(q) ==
    LET mine == {tx[q], rx[q]} \cap Tasks
    IN  IF ref_cnt[q] = 1
        THEN /\ sock' = [t \in Tasks |-> IF t \in mine THEN "released" ELSE sock[t]]
             /\ mem' = [mem EXCEPT ![q] = "freed"]
             /\ ref_cnt' = [ref_cnt EXCEPT ![q] = 0]
        ELSE /\ sock' = [t \in Tasks |-> IF t \in mine THEN "shut" ELSE sock[t]]
             /\ ref_cnt' = [ref_cnt EXCEPT ![q] = @ - 1]
             /\ UNCHANGED mem

\* The last step of a task that gives its reference back.
PutAndEnd(t) ==
    /\ Live(t)
    /\ put_qp(qp[t])
    /\ Goto(t, "done")
    /\ UNCHANGED <<qp, tx, rx, tree, src, dst, oops>>

TimeoutPut(t) == pc[t] = "timeout_put" /\ MayRun(t) /\ PutAndEnd(t)

----
(* The rest of both tasks: the copy loop.                                  *)

\* The sockets of the QP are copied into the task's struct sockets.  With one
\* of them missing the task ends, an L task without giving its reference back.
Check(t) ==
    LET q == qp[t]
    IN  /\ pc[t] = "check" /\ MayRun(t) /\ Live(t)
        /\ IF ~IS_ERR_OR_NULL(tx[q]) /\ ~IS_ERR_OR_NULL(rx[q])
           THEN /\ src' = [src EXCEPT ![t] = Mine(t)]
                /\ dst' = [dst EXCEPT ![t] = Peer(t)]
                /\ Goto(t, "half_duplex")
                /\ UNCHANGED <<qp, qpVars, sock, oops>>
           ELSE IF t \in Ls
                THEN Goto(t, "done") /\ UNCHANGED <<qp, qpVars, sock, src, dst, oops>>
                ELSE PutAndEnd(t)

\* half_duplex cannot allocate its pages and returns; the reference stays.
HalfDuplexNoMem(t) ==
    /\ pc[t] = "half_duplex" /\ oops = "none"
    /\ Goto(t, "no_mem")
    /\ UNCHANGED <<qp, qpVars, sock, src, dst, oops>>

\* kernel_recvmsg fails or meets the end of the stream.
HalfDuplexEnds(t) ==
    /\ pc[t] = "half_duplex" /\ oops = "none"
    /\ IF sock[src[t]] = "released" \/ sock[dst[t]] = "released"
       THEN /\ oops' = "stale_sock"
            /\ UNCHANGED <<pc, qp, qpVars, sock, src, dst>>
       ELSE /\ sock[src[t]] # "open"
            /\ PutAndEnd(t)

\* kernel_recvmsg returns bytes that kernel_sendmsg cannot send any more.  Until
\* the other end sends some, the task stays blocked in kernel_recvmsg.
HalfDuplexSendFails(t) ==
    /\ pc[t] = "half_duplex" /\ oops = "none"
    /\ sock[src[t]] = "open"
    /\ sock[dst[t]] \in {"eof", "shut"}
    /\ PutAndEnd(t)

----
LStep(t) == Accept(t) \/ LSetupFails(t) \/ LStart(t) \/ LDrop(t)
RStep(t) == RStart(t) \/ RDrop(t) \/ RConnect(t) \/ RLateConnect(t) \/ RConnectFails(t)
Step(t) ==
    \/ t \in Ls /\ LStep(t)
    \/ t \in Rs /\ RStep(t)
    \/ JoinTest(t) \/ Adopt(t) \/ ReadyTest(t) \/ get_qp(t) \/ WaitDone(t) \/ WaitTimeout(t)
    \/ TimeoutDeTree(t) \/ TimeoutPut(t) \/ Check(t) \/ HalfDuplexEnds(t)
    \/ StaleAccess(t)

Environment(t) == HalfDuplexNoMem(t) \/ HalfDuplexSendFails(t) \/ PeerCloses(t)

Next == \E t \in Tasks : Step(t) \/ Environment(t)

Spec == Init /\ [][Next]_vars

\* Started tasks are scheduled, timers fire, connects end one way or the other
\* and a socket at its end lets recvmsg return.  Nothing has to start, no
\* peer has to send or to close and memory need not run out.
Fairness ==
    \A t \in Tasks : WF_vars(pc[t] # "start" /\ Step(t))

FairSpec == Spec /\ Fairness

----
(* Correctness.                                                            *)

\* Every variable keeps the shape of the C type behind it: qp is NULL or a QP,
\* tx and rx are NULL, an ERR_PTR or a socket,
\* and no ERR_PTR of a connection in progress reaches half_duplex.
TypeOK ==
    /\ pc \in [Tasks -> {"start", "accepted", "connect", "wait", "half_duplex", "no_mem", "done"} \cup Busy]
    /\ qp \in [Tasks -> Tasks \cup {NULL}]
    /\ mem \in [Tasks -> {"none", "live", "freed"}]
    /\ ref_cnt \in [Tasks -> Int]
    /\ tx \in [Tasks -> SockPtr]
    /\ rx \in [Tasks -> SockPtr]
    /\ tree \in SUBSET Tasks
    /\ sock \in [Tasks -> {"none", "open", "eof", "shut", "released"}]
    /\ src \in [Tasks -> Tasks \cup {NULL}]
    /\ dst \in [Tasks -> Tasks \cup {NULL}]
    /\ oops \in {"none", "null_qp", "late_connect", "stale_qp", "rb_erase", "stale_sock"}

\* qp.c:50: get_qp never meets an "Impossible QP refcount".
RefCountPossible == \A q \in Tasks : ref_cnt[q] \in 0 .. 2

\* The tree holds QPs that are alive and not yet paired: no freed QP is ever
\* found by add_rb_data, and no third task can find a pair that is complete.
TreeHoldsPendingQps == \A q \in tree : mem[q] = "live" /\ ref_cnt[q] < 2

\* The bytes of one client reach the server connection of the same four-tuple
\* and no other: a task copies between a socket of its own kind and one of the
\* other kind, both of its own four-tuple.
KeyIsolation ==
    \A t \in Tasks : pc[t] = "half_duplex" =>
        /\ {src[t]} \cup {dst[t]} \subseteq {u \in Tasks : key[u] = key[t]}
        /\ src[t] \in Ls <=> t \in Ls
        /\ dst[t] \in Ls <=> t \in Rs

\* A task copies from the socket it serves, and two tasks share a socket only
\* when they are the two directions of one connection.
NoCrossTalk ==
    \A t, u \in Tasks : pc[t] = "half_duplex" /\ pc[u] = "half_duplex" =>
        /\ src[t] = t
        /\ t # u /\ {src[t], dst[t]} \cap {src[u], dst[u]} # {}
              => qp[t] = qp[u] /\ src[t] = dst[u] /\ dst[t] = src[u]

\* A reference protects the sockets: no task copies through a released socket,
\* touches a QP that another one freed, or unlinks a QP that is not linked.
\* Two holes remain: an R task whose peer timed out while it was connecting, and
\* a second L task of a four-tuple.
OnlyKnownFaults == oops \in {"none", "late_connect", "null_qp"}

\* Nothing is left behind: when no task is under way, a socket is still there
\* only if half_duplex ran out of memory.
SocketsReleased ==
    /\ oops = "none"
    /\ \A t \in Tasks : pc[t] \in {"start", "done"}
    => \A t \in Tasks : sock[t] \in {"none", "released"}

\* Nobody waits for ever for a peer that does not come.
WaitEnds == \A t \in Tasks : (pc[t] = "wait" ~> pc[t] # "wait" \/ oops # "none")

\* When one end closes, both tasks of the pair end and both connections are
\* released, unless a task ran out of memory before it started to copy.
CloseTearsDown ==
    \A t \in Tasks :
        (pc[t] = "half_duplex" /\ sock[src[t]] # "open")
            ~> (sock[t] = "released" \/ oops # "none" \/ \E u \in Tasks : pc[u] = "no_mem")

----
(* What a comment of split.c says of the program and the code does not do. *)

\* split.c:490-492: a QP that is found with the own direction in use means a
\* double SYN, another task of the same kind for the same four-tuple.
OnlyDoubleSynsMeet ==
    \A t \in Tasks : pc[t] = "join" => key[qp[t]] = key[t]
====
