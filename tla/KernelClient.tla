---- MODULE KernelClient ----
(***************************************************************************)
(* The load generator that runs in the kernel (kernel_client/client.c):    *)
(* two poll threads that send a load when a proc file is written, two      *)
(* servers that accept loads and start a thread for each, and the load and *)
(* unload of the module around them.                                       *)
(*                                                                         *)
(* What is sent is left out.  When the module is gone, or a task that may  *)
(* be gone is used, the system stops and oops says why.                    *)
(***************************************************************************)
EXTENDS Naturals, Sequences

CONSTANTS Pollers, Servers, \* the threads of client_init
          ZServer,          \* the server that reads without copying
          Stops,            \* the order in which client_exit stops the threads
          Conns,            \* the connections made to the servers
          Writes,           \* the writes to proc files
          target            \* target[w]: the thread behind the file

Threads == Pollers \cup Servers

ASSUME ClientConstants ==
    /\ Pollers \cap Servers = {} /\ ZServer \in Servers
    /\ Stops \in Seq(Threads) /\ {Stops[i] : i \in DOMAIN Stops} = Threads
    /\ target \in [Writes -> Pollers]

VARIABLES pc,      \* pc[t]: where a thread is
          asleep,  \* asleep[t]: its state is TASK_INTERRUPTIBLE
          stop,    \* stop[t]: kthread_should_stop
          link,    \* link[p]: the connection a poll thread sends on
          conn,    \* conn[c]: a connection to a server and the thread that serves it
          proc,    \* the proc files are there
          written, \* the writes that were made
          unload,  \* how far client_exit is: 0, or the thread it stops
          oops     \* "none", or what brought the kernel down

vars == <<pc, asleep, stop, link, conn, proc, written, unload, oops>>

Goto(t, place) == pc' = [pc EXCEPT ![t] = place]

\* client_init has started the four threads; the files are still to come.
Init ==
    /\ pc = [t \in Threads |-> IF t \in Pollers THEN "check" ELSE "start"]
    /\ asleep = [t \in Threads |-> FALSE]
    /\ stop = [t \in Threads |-> FALSE]
    /\ link = [p \in Pollers |-> "none"]
    /\ conn = [c \in Conns |-> [at |-> "none", srv |-> ZServer]]
    /\ proc = "none"
    /\ written = {}
    /\ unload = 0
    /\ oops = "none"

\* The end of client_init.
ProcCreated ==
    /\ oops = "none" /\ proc = "none" /\ unload = 0
    /\ proc' = "there"
    /\ UNCHANGED <<pc, asleep, stop, link, conn, written, unload, oops>>

\* It fails and leaves its threads in the memory of a module that is gone.
ProcCreateFails ==
    /\ oops = "none" /\ proc = "none" /\ unload = 0
    /\ oops' = "init_failed"
    /\ UNCHANGED <<pc, asleep, stop, link, conn, proc, written, unload>>

\* client_write wakes the thread behind the file.  A thread that has ended may
\* have been freed.
client_write(w) ==
    /\ oops = "none" /\ proc = "there" /\ w \notin written
    /\ written' = written \cup {w}
    /\ IF pc[target[w]] = "done"
       THEN oops' = "dead_poller" /\ UNCHANGED asleep
       ELSE asleep' = [asleep EXCEPT ![target[w]] = FALSE] /\ UNCHANGED oops
    /\ UNCHANGED <<pc, stop, link, conn, proc, unload>>

----
(* poll_thread and tcp_client.                                             *)

\* Mutant: the loop has no condition.
PollCheck_forever(p) ==
    /\ oops = "none" /\ pc[p] = "check"
    /\ Goto(p, "set_state")
    /\ UNCHANGED <<asleep, stop, link, conn, proc, written, unload, oops>>

\* The condition of the loop.
PollCheck(p) ==
    /\ oops = "none" /\ pc[p] = "check"
    /\ Goto(p, IF stop[p] THEN "done" ELSE "set_state")
    /\ UNCHANGED <<asleep, stop, link, conn, proc, written, unload, oops>>

\* A wake-up between the condition and here is lost.
PollSetState(p) ==
    /\ oops = "none" /\ pc[p] = "set_state"
    /\ asleep' = [asleep EXCEPT ![p] = TRUE]
    /\ Goto(p, "schedule")
    /\ UNCHANGED <<stop, link, conn, proc, written, unload, oops>>

\* The thread runs again once it is woken.
PollWoken(p) ==
    /\ oops = "none" /\ pc[p] = "schedule" /\ ~asleep[p]
    /\ Goto(p, IF stop[p] THEN "check" ELSE "tcp_client")
    /\ UNCHANGED <<asleep, stop, link, conn, proc, written, unload, oops>>

\* tcp_client finds no pages or no socket, and releases a socket that is NULL.
ClientNoSocket(p) ==
    /\ oops = "none" /\ pc[p] = "tcp_client"
    /\ oops' = "null_sock"
    /\ UNCHANGED <<pc, asleep, stop, link, conn, proc, written, unload>>

\* The server cannot be reached.
ClientNoServer(p) ==
    /\ oops = "none" /\ pc[p] = "tcp_client"
    /\ Goto(p, "check")
    /\ UNCHANGED <<asleep, stop, link, conn, proc, written, unload, oops>>

ClientConnects(p) ==
    /\ oops = "none" /\ pc[p] = "tcp_client"
    /\ link' = [link EXCEPT ![p] = "open"]
    /\ Goto(p, "send_loop")
    /\ UNCHANGED <<asleep, stop, conn, proc, written, unload, oops>>

\* send_loop comes to its end on a connection that stays.
SendLoopEnds(p) ==
    /\ oops = "none" /\ pc[p] = "send_loop" /\ link[p] = "open"
    /\ link' = [link EXCEPT ![p] = "none"]
    /\ Goto(p, "check")
    /\ UNCHANGED <<asleep, stop, conn, proc, written, unload, oops>>

\* The server closes or resets it: from now on every send fails and is tried
\* again, with no look at kthread_should_stop.
LinkDies(p) ==
    /\ oops = "none" /\ link[p] = "open"
    /\ link' = [link EXCEPT ![p] = "dead"]
    /\ UNCHANGED <<pc, asleep, stop, conn, proc, written, unload, oops>>

----
(* split_server, split_server_z and the threads they start.                *)

ServerListens(s) ==
    /\ oops = "none" /\ pc[s] = "start"
    /\ Goto(s, "accept")
    /\ UNCHANGED <<asleep, stop, link, conn, proc, written, unload, oops>>

\* The socket cannot be set up, or kernel_accept fails: the thread ends.
ServerFails(s) ==
    /\ oops = "none" /\ pc[s] \in {"start", "accept"}
    /\ Goto(s, "done")
    /\ UNCHANGED <<asleep, stop, link, conn, proc, written, unload, oops>>

Arrives(c, s) ==
    /\ oops = "none" /\ conn[c].at = "none" /\ pc[s] = "accept"
    /\ conn' = [conn EXCEPT ![c] = [at |-> "backlog", srv |-> s]]
    /\ UNCHANGED <<pc, asleep, stop, link, proc, written, unload, oops>>

Waiting(s) == {c \in Conns : conn[c] = [at |-> "backlog", srv |-> s]}

\* A connection is accepted and given a thread of its own, if there is one to be
\* had.  Only then does the server look at kthread_should_stop: a wake-up does
\* not end kernel_accept.
ServerAccepts(s) ==
    /\ oops = "none" /\ pc[s] = "accept"
    /\ \E c \in Waiting(s), at \in {"recv", "lost"} : conn' = [conn EXCEPT ![c].at = at]
    /\ Goto(s, IF stop[s] THEN "done" ELSE "accept")
    /\ UNCHANGED <<asleep, stop, link, proc, written, unload, oops>>

\* start_new_connection reads until the end of the stream and keeps the socket.
\* start_new_connection_z may find nothing to read and nothing to end it, and
\* waits in a circle.
HandlerEnds(c) ==
    /\ oops = "none" /\ conn[c].at = "recv"
    /\ \E at \in {"done"} \cup (IF conn[c].srv = ZServer THEN {"spin"} ELSE {}) :
          conn' = [conn EXCEPT ![c].at = at]
    /\ UNCHANGED <<pc, asleep, stop, link, proc, written, unload, oops>>

----
(* client_exit.                                                            *)

\* Mutant: the files go last.
ExitBegins_keeps_files ==
    /\ oops = "none" /\ unload = 0 /\ proc = "there"
    /\ unload' = 1
    /\ UNCHANGED <<pc, asleep, stop, link, conn, proc, written, oops>>

\* The files are removed, after the writes to them that are under way.
ExitBegins ==
    /\ oops = "none" /\ unload = 0 /\ proc = "there"
    /\ proc' = "gone"
    /\ unload' = 1
    /\ UNCHANGED <<pc, asleep, stop, link, conn, written, oops>>

\* kthread_stop: the flag is set and the thread woken.  A thread that has ended
\* by itself may have been freed.
KthreadStop ==
    /\ oops = "none" /\ unload \in DOMAIN Stops
    /\ LET t == Stops[unload]
       IN  /\ ~stop[t]
           /\ IF pc[t] = "done"
              THEN oops' = "dead_task" /\ UNCHANGED <<stop, asleep>>
              ELSE /\ stop' = [stop EXCEPT ![t] = TRUE]
                   /\ asleep' = [asleep EXCEPT ![t] = FALSE]
                   /\ UNCHANGED oops
    /\ UNCHANGED <<pc, link, conn, proc, written, unload>>

\* It waits for the thread to end.  After the last one the module is gone; the
\* threads of connections are not stopped.
KthreadStopped ==
    /\ oops = "none" /\ unload \in DOMAIN Stops
    /\ stop[Stops[unload]] /\ pc[Stops[unload]] = "done"
    /\ unload' = unload + 1
    /\ oops' = IF unload = Len(Stops) /\ \E c \in Conns : conn[c].at \in {"recv", "spin"}
               THEN "module_gone" ELSE "none"
    /\ UNCHANGED <<pc, asleep, stop, link, conn, proc, written>>

----
PollMoves(p) == PollCheck(p) \/ PollSetState(p) \/ PollWoken(p) \/ ClientNoServer(p) \/ ClientConnects(p) \/ SendLoopEnds(p)
ServerMoves(s) == ServerListens(s) \/ ServerAccepts(s)
ExitMoves == KthreadStop \/ KthreadStopped

Next ==
    \/ ProcCreated \/ ProcCreateFails \/ ExitBegins \/ ExitMoves
    \/ \E w \in Writes : client_write(w)
    \/ \E p \in Pollers : PollMoves(p) \/ ClientNoSocket(p) \/ LinkDies(p)
    \/ \E s \in Servers : ServerMoves(s) \/ ServerFails(s) \/ \E c \in Conns : Arrives(c, s)
    \/ \E c \in Conns : HandlerEnds(c)

\* Threads that can run do, connects and sends on a live connection end, and so
\* does what client_exit waits for.  Nobody has to write, connect or unload.
Fairness ==
    /\ \A p \in Pollers : WF_vars(PollMoves(p))
    /\ \A s \in Servers : WF_vars(ServerMoves(s))
    /\ WF_vars(ExitMoves)

Spec == Init /\ [][Next]_vars /\ Fairness

----
(* Correctness.                                                            *)

\* kthread_stop returns.  A poll thread ends unless the stop came just before it
\* went to sleep or it sends on a connection that died; a server ends as soon as
\* another connection comes.
StoppedThreadsEnd ==
    /\ \A p \in Pollers :
          (stop[p] /\ pc[p] # "set_state" /\ ~asleep[p])
              ~> (pc[p] = "done" \/ (pc[p] = "send_loop" /\ link[p] = "dead") \/ oops # "none")
    /\ \A s \in Servers : (stop[s] /\ Waiting(s) # {}) ~> (pc[s] = "done" \/ oops # "none")

\* No write to a proc file ever wakes a thread that client_exit has stopped, and
\* client_exit does not return before the four threads have ended.  What the
\* module does not guard against is the other ways to go wrong: a failed load, a
\* socket it could not create, a server that ended by itself and the threads of
\* connections.
UnloadOrder ==
    /\ oops \in {"none", "init_failed", "null_sock", "dead_task", "module_gone"}
    /\ unload > Len(Stops) => proc = "gone" /\ \A t \in Threads : pc[t] = "done"
====
