---- MODULE PendingConn ----
(***************************************************************************)
(* The far proxy of a pre-established connection (tcpsplit/conn_pool.c):   *)
(* prec_conn_listner_server accepts connections of the near proxy, and     *)
(* start_new_pending_connection waits on each for the address of the       *)
(* server, connects to it and splits into two halves.  The first half      *)
(* copies towards the server and stays on the task's thread, the second    *)
(* one is another job of the thread pool and is handed a pointer to the    *)
(* first one's stack.                                                      *)
(*                                                                         *)
(* Both halves run half_duplex of split.c and share a QP that is in no     *)
(* tree.  Freed memory is not used again: an access to it, or to the stack *)
(* of a function that returned, stops the system and is recorded in oops.  *)
(***************************************************************************)
EXTENDS Naturals

CONSTANT Conns  \* the connections the listener accepts

First == 1
Second == 2
Halves == {First, Second}

VARIABLES server,           \* where prec_conn_listner_server is
          pre_conn_listner, \* it points to the listener on that thread's stack
          lsock,            \* the listening socket
          unload,           \* cbn_pre_connect_end has run
          pc,               \* pc[c][h]: where half h of connection c is
          sock,             \* sock[c][h]: the socket h reads, qp->rx or qp->tx
          data,             \* data[c][h]: bytes wait on that socket
          mem, ref_cnt,     \* the QP of connection c
          oops              \* "none", or the access that brought the kernel down

connVars == <<pc, sock, data, mem, ref_cnt>>
serverVars == <<server, pre_conn_listner, lsock>>
vars == <<serverVars, unload, connVars, oops>>

Other(h) == IF h = First THEN Second ELSE First
Goto(c, h, place) == pc' = [pc EXCEPT ![c][h] = place]

\* cbn_pre_connect_init starts the listener's thread.
Init ==
    /\ server = "start"
    /\ pre_conn_listner = FALSE
    /\ lsock = "none"
    /\ unload = FALSE
    /\ pc = [c \in Conns |-> [h \in Halves |-> "none"]]
    /\ sock = [c \in Conns |-> [h \in Halves |-> "none"]]
    /\ data = [c \in Conns |-> [h \in Halves |-> FALSE]]
    /\ mem = [c \in Conns |-> "none"]
    /\ ref_cnt = [c \in Conns |-> 0]
    /\ oops = "none"

----
(* The environment: TCP.                                                   *)

\* The remote end of a connection sends something.
PeerSends(c, h) ==
    /\ oops = "none" /\ sock[c][h] = "open" /\ ~data[c][h]
    /\ data' = [data EXCEPT ![c][h] = TRUE]
    /\ UNCHANGED <<serverVars, unload, pc, sock, mem, ref_cnt, oops>>

\* The remote end closes or resets it.  What it sent before can be received.
PeerCloses(c, h) ==
    /\ oops = "none" /\ sock[c][h] = "open"
    /\ sock' = [sock EXCEPT ![c][h] = "eof"]
    /\ UNCHANGED <<serverVars, unload, pc, data, mem, ref_cnt, oops>>

----
(* prec_conn_listner_server.                                               *)

\* The socket is created, bound, marked and listens, and the listener on the
\* stack is registered.
ServerListens ==
    /\ oops = "none" /\ server = "start"
    /\ server' = "accept"
    /\ lsock' = "listen"
    /\ pre_conn_listner' = TRUE
    /\ UNCHANGED <<unload, connVars, oops>>

\* One of these fails: the socket is released if there is one.
ServerFails ==
    /\ oops = "none" /\ server = "start"
    /\ server' = "done"
    /\ lsock' \in {"none", "released"}
    /\ UNCHANGED <<pre_conn_listner, unload, connVars, oops>>

\* A connection is accepted and a job started with its QP.  When the pool has
\* no thread, nobody keeps the QP and the socket.
ServerAccepts(c) ==
    /\ oops = "none" /\ server = "accept" /\ lsock = "listen"
    /\ pc[c][First] = "none"
    /\ mem' = [mem EXCEPT ![c] = "live"]
    /\ sock' = [sock EXCEPT ![c][First] = "open"]
    /\ Goto(c, First, "queued") \/ Goto(c, First, "lost")
    /\ UNCHANGED <<serverVars, unload, data, ref_cnt, oops>>

\* The thread ends.  pre_conn_listner goes on pointing to its stack.
ServerReturns ==
    /\ server' = "done"
    /\ lsock' = "released"
    /\ UNCHANGED <<pre_conn_listner, unload, connVars, oops>>

\* kernel_accept fails for want of memory or files ...
AcceptFails == oops = "none" /\ server = "accept" /\ lsock = "listen" /\ ServerReturns

\* Mutant: an error of kernel_accept is ignored.
AcceptShut_retries == oops = "none" /\ server = "accept" /\ lsock = "shut" /\ UNCHANGED vars

\* ... or because the socket was shut down.
AcceptShut == oops = "none" /\ server = "accept" /\ lsock = "shut" /\ ServerReturns

----
(* start_new_pending_connection up to the copying.                         *)

\* A socket towards the server is created.
CreateSocket(c) ==
    /\ oops = "none" /\ pc[c][First] = "queued"
    /\ sock' = [sock EXCEPT ![c][Second] = "created"]
    /\ Goto(c, First, "next_hop")
    /\ UNCHANGED <<serverVars, unload, data, mem, ref_cnt, oops>>

\* preconn_wait_for_next_hop: the near proxy sends the address of the server.
\* A part of it followed by the end of the stream passes for the whole.
NextHopKnown(c) ==
    /\ oops = "none" /\ pc[c][First] = "next_hop" /\ data[c][First]
    /\ data' = [data EXCEPT ![c][First] = FALSE]
    /\ Goto(c, First, "connect")
    /\ UNCHANGED <<serverVars, unload, sock, mem, ref_cnt, oops>>

\* The near proxy closes a connection it never used.
NextHopFails(c) ==
    /\ oops = "none" /\ pc[c][First] = "next_hop"
    /\ ~data[c][First] /\ sock[c][First] # "open"
    /\ Goto(c, First, "failed")
    /\ UNCHANGED <<serverVars, unload, sock, data, mem, ref_cnt, oops>>

\* The socket cannot be created, set up, bound or connected.  No failure of the
\* task releases a socket or the QP.
SetupFails(c) ==
    /\ oops = "none" /\ pc[c][First] \in {"queued", "connect"}
    /\ Goto(c, First, "failed")
    /\ UNCHANGED <<serverVars, unload, sock, data, mem, ref_cnt, oops>>

\* Mutant: one reference for the two halves.
Connect_one_ref(c) ==
    /\ oops = "none" /\ pc[c][First] = "connect"
    /\ sock' = [sock EXCEPT ![c][Second] = "open"]
    /\ ref_cnt' = [ref_cnt EXCEPT ![c] = 1]
    /\ pc' = [pc EXCEPT ![c] = <<"entry", "queued">>]
    /\ UNCHANGED <<serverVars, unload, data, mem, oops>>

\* The server is connected, both references are taken and the second half is
\* handed to the pool, which may have no thread for it.
Connect(c) ==
    /\ oops = "none" /\ pc[c][First] = "connect"
    /\ sock' = [sock EXCEPT ![c][Second] = "open"]
    /\ ref_cnt' = [ref_cnt EXCEPT ![c] = 2]
    /\ \E run \in {"queued", "lost"} : pc' = [pc EXCEPT ![c] = <<"entry", run>>]
    /\ UNCHANGED <<serverVars, unload, data, mem, oops>>

----
(* start_half_duplex and half_duplex.                                      *)

Returned == {"done", "no_mem", "failed", "lost"}

\* The struct sockets of both halves and ptr_pair are on the stack of the first.
FrameLive(c) == pc[c][First] \notin Returned

\* The places from which a half goes on by reading it.
ReadsFrame == {"queued", "top", "send"}

StaleStack(c) ==
    /\ oops = "none" /\ ~FrameLive(c)
    /\ pc[c][Second] \in ReadsFrame
    /\ oops' = "stale_stack"
    /\ UNCHANGED <<serverVars, unload, connVars>>

\* The pool's thread reads the two pointers.
start_half_duplex(c) ==
    /\ oops = "none" /\ FrameLive(c) /\ pc[c][Second] = "queued"
    /\ Goto(c, Second, "entry")
    /\ UNCHANGED <<serverVars, unload, sock, data, mem, ref_cnt, oops>>

\* The affinity is reset and the pages are allocated.
AllocPages(c, h) ==
    /\ oops = "none" /\ pc[c][h] = "entry"
    /\ Goto(c, h, "top")
    /\ UNCHANGED <<serverVars, unload, sock, data, mem, ref_cnt, oops>>

\* There are none: the half returns and keeps its reference.
NoMem(c, h) ==
    /\ oops = "none" /\ pc[c][h] = "entry"
    /\ Goto(c, h, "no_mem")
    /\ UNCHANGED <<serverVars, unload, sock, data, mem, ref_cnt, oops>>

\* kernel_recvmsg is called on sock->rx.
CallRecv(c, h) ==
    /\ oops = "none" /\ FrameLive(c) /\ pc[c][h] = "top"
    /\ IF sock[c][h] = "released"
       THEN oops' = "stale_sock" /\ UNCHANGED pc
       ELSE Goto(c, h, "recv") /\ UNCHANGED oops
    /\ UNCHANGED <<serverVars, unload, sock, data, mem, ref_cnt>>

\* It returns bytes.
RecvBytes(c, h) ==
    /\ oops = "none" /\ pc[c][h] = "recv" /\ data[c][h]
    /\ data' = [data EXCEPT ![c][h] = FALSE]
    /\ Goto(c, h, "send")
    /\ UNCHANGED <<serverVars, unload, sock, mem, ref_cnt, oops>>

\* Mutant: the first half to end leaves the sockets open.
put_qp_no_shutdown(c, h) ==
    /\ ref_cnt' = [ref_cnt EXCEPT ![c] = @ - 1]
    /\ sock' = [sock EXCEPT ![c] = IF ref_cnt[c] = 1 THEN [g \in Halves |-> "released"] ELSE @]
    /\ mem' = [mem EXCEPT ![c] = IF ref_cnt[c] = 1 THEN "freed" ELSE @]
    /\ Goto(c, h, "done")
    /\ UNCHANGED <<serverVars, unload, data, oops>>

\* Mutant: the QP is freed and tx forgotten.
put_qp_forgets_tx(c, h) ==
    /\ ref_cnt' = [ref_cnt EXCEPT ![c] = @ - 1]
    /\ sock' = [sock EXCEPT ![c] = IF ref_cnt[c] = 1 THEN <<"released", "shut">> ELSE <<"shut", "shut">>]
    /\ mem' = [mem EXCEPT ![c] = IF ref_cnt[c] = 1 THEN "freed" ELSE @]
    /\ Goto(c, h, "done")
    /\ UNCHANGED <<serverVars, unload, data, oops>>

\* put_qp and return: the last reference releases both sockets and the QP, the
\* one before it shuts them down.
put_qp(c, h) ==
    IF mem[c] = "freed"
    THEN oops' = "stale_qp" /\ UNCHANGED <<serverVars, unload, connVars>>
    ELSE LET last == ref_cnt[c] = 1
         IN  /\ ref_cnt' = [ref_cnt EXCEPT ![c] = @ - 1]
             /\ sock' = [sock EXCEPT ![c] = [g \in Halves |-> IF last THEN "released" ELSE "shut"]]
             /\ mem' = [mem EXCEPT ![c] = IF last THEN "freed" ELSE @]
             /\ Goto(c, h, "done")
             /\ UNCHANGED <<serverVars, unload, data, oops>>

\* It returns an error or the end of the stream.
RecvEnds(c, h) ==
    /\ oops = "none" /\ pc[c][h] = "recv"
    /\ ~data[c][h] /\ sock[c][h] # "open"
    /\ put_qp(c, h)

\* The bytes are sent to sock->tx and the loop starts anew, ...
SendBytes(c, h) ==
    /\ oops = "none" /\ FrameLive(c) /\ pc[c][h] = "send"
    /\ sock[c][Other(h)] \in {"open", "eof"}
    /\ Goto(c, h, "top")
    /\ UNCHANGED <<serverVars, unload, sock, data, mem, ref_cnt, oops>>

\* ... or they cannot be sent any more.
SendFails(c, h) ==
    /\ oops = "none" /\ FrameLive(c) /\ pc[c][h] = "send"
    /\ IF sock[c][Other(h)] = "released"
       THEN oops' = "stale_sock" /\ UNCHANGED <<serverVars, unload, connVars>>
       ELSE sock[c][Other(h)] \in {"eof", "shut"} /\ put_qp(c, h)

----
(* cbn_pre_connect_end.                                                    *)

\* The listener is shut down; the two lists of connections that follow are
\* always empty, since nothing adds to them.
cbn_pre_connect_end ==
    /\ oops = "none" /\ ~unload
    /\ unload' = TRUE
    /\ IF pre_conn_listner /\ server = "done"
       THEN oops' = "stale_listner" /\ UNCHANGED lsock
       ELSE /\ lsock' = IF pre_conn_listner THEN "shut" ELSE lsock
            /\ UNCHANGED oops
    /\ UNCHANGED <<server, pre_conn_listner, connVars>>

----
\* Steps that follow without anything new from outside.
HalfMoves(c, h) ==
    \/ AllocPages(c, h) \/ CallRecv(c, h) \/ RecvBytes(c, h) \/ RecvEnds(c, h)
    \/ SendBytes(c, h) \/ SendFails(c, h)
ConnMoves(c) ==
    \/ CreateSocket(c) \/ NextHopKnown(c) \/ NextHopFails(c) \/ Connect(c)
    \/ start_half_duplex(c) \/ StaleStack(c)
ServerMoves == ServerListens \/ AcceptShut

Environment ==
    \/ ServerFails \/ AcceptFails \/ cbn_pre_connect_end
    \/ \E c \in Conns : ServerAccepts(c) \/ SetupFails(c)
    \/ \E c \in Conns, h \in Halves : PeerSends(c, h) \/ PeerCloses(c, h) \/ NoMem(c, h)

Next ==
    \/ ServerMoves \/ Environment
    \/ \E c \in Conns : ConnMoves(c) \/ \E h \in Halves : HalfMoves(c, h)

\* Threads are scheduled and blocking calls return once they can; what comes
\* from outside need not come.
Fairness ==
    /\ WF_vars(ServerMoves)
    /\ \A c \in Conns : WF_vars(ConnMoves(c)) /\ \A h \in Halves : WF_vars(HalfMoves(c, h))

Spec == Init /\ [][Next]_vars /\ Fairness

----
(* Correctness.                                                            *)

\* The two references keep the QP and both sockets alive for as long as a half
\* uses them, whichever half ends first and even when one of them never starts:
\* the only memory used too late is a stack.  pre_conn_listner dangles only when
\* the unload comes after the listener's thread has ended.
QpOutlivesHalves ==
    /\ oops \in {"none", "stale_stack", "stale_listner"}
    /\ \A c \in Conns, h \in Halves :
          pc[c][h] \in {"entry", "top", "recv", "send"} => mem[c] = "live" /\ sock[c][h] # "released"

\* What was opened for a connection is released when its halves are done, and
\* what stays open for ever can be told: a task that failed to reach the server
\* or was never given a thread, or a half without pages or thread.
PendingReleased ==
    \A c \in Conns :
        (\A h \in Halves : pc[c][h] \in Returned \cup {"none"}) =>
            \/ \A h \in Halves : sock[c][h] \in {"none", "released"}
            \/ \E h \in Halves : pc[c][h] \in {"failed", "lost", "no_mem"}

\* When either end closes while both halves copy, both halves end and both
\* connections are released.
EitherEndTearsDown ==
    \A c \in Conns :
        ((\A h \in Halves : pc[c][h] = "recv") /\ \E h \in Halves : sock[c][h] # "open")
            ~> (\A h \in Halves : sock[c][h] = "released") \/ oops # "none"

\* Unloading ends the thread that accepts pre-connections and releases its
\* socket, provided that the thread had registered itself by then.
UnloadEndsServer ==
    (unload /\ lsock = "shut") ~> (server = "done" /\ lsock = "released") \/ oops # "none"

----
(* What a comment of conn_pool.c says of the program.                      *)

\* conn_pool.c:357: the first half "Must wait for the other thread to end"
\* before it returns.
FirstHalfReturnsLast ==
    \A c \in Conns : pc[c][Second] \in {"queued", "entry", "top", "recv", "send"} => FrameLive(c)
====
