---- MODULE KernelClient_proofs ----
(***************************************************************************)
(* Proof about KernelClient: the order of client_exit.                     *)
(***************************************************************************)
EXTENDS KernelClient, TLAPS

Places == {"check", "set_state", "schedule", "tcp_client", "send_loop", "start", "accept", "done"}

KType ==
    /\ pc \in [Threads -> Places]
    /\ stop \in [Threads -> BOOLEAN]
    /\ unload \in 0 .. Len(Stops) + 1

\* A poll thread ends only when it was stopped, and threads are stopped only
\* after the files are gone: a write finds every poll thread alive.
StopsAfterFiles ==
    /\ unload > 0 => proc = "gone"
    /\ \A t \in Threads : stop[t] => unload > 0
    /\ \A p \in Pollers : pc[p] = "done" => stop[p]

\* client_exit goes on to the next thread when this one has ended.
StoppedInOrder == \A i \in 1 .. Len(Stops) : i < unload => pc[Stops[i]] = "done"

NoDeadPoller == oops \in {"none", "init_failed", "null_sock", "dead_task", "module_gone"}

KInv == KType /\ StopsAfterFiles /\ StoppedInOrder /\ NoDeadPoller

\* The order of client_exit names threads, and all of them.
LEMMA Constants ==
    /\ Len(Stops) \in Nat /\ DOMAIN Stops = 1 .. Len(Stops)
    /\ \A i \in 1 .. Len(Stops) : Stops[i] \in Threads
    /\ \A t \in Threads : \E i \in 1 .. Len(Stops) : Stops[i] = t
    /\ \A w \in Writes : target[w] \in Pollers
    /\ Pollers \subseteq Threads /\ Servers \subseteq Threads /\ Pollers \cap Servers = {}
<1>1. Stops \in Seq(Threads) /\ {Stops[i] : i \in DOMAIN Stops} = Threads
  BY ClientConstants
<1>2. Len(Stops) \in Nat /\ DOMAIN Stops = 1 .. Len(Stops)
  BY <1>1
<1> QED BY <1>1, <1>2, ClientConstants DEF Threads

\* The threads have just been started.
LEMMA InitKInv == Init => KInv
<1> USE Constants
<1> SUFFICES ASSUME Init PROVE KInv
  OBVIOUS
<1>1. KType
  BY DEF Init, KType, Places
<1>2. StopsAfterFiles
  <2>1. \A p \in Pollers : pc[p] = "check"
    BY DEF Init
  <2>2. unload = 0 /\ \A t \in Threads : ~stop[t]
    BY DEF Init
  <2> QED BY <2>1, <2>2 DEF StopsAfterFiles
<1>3. unload = 0 /\ oops = "none"
  BY DEF Init
<1>4. StoppedInOrder
  BY <1>3 DEF StoppedInOrder
<1>5. NoDeadPoller
  BY <1>3 DEF NoDeadPoller
<1> QED BY <1>1, <1>2, <1>4, <1>5 DEF KInv

\* A thread that has not ended goes on; a poll thread ends when it was stopped.
LEMMA ThreadGoesOn ==
    ASSUME KInv, NEW t \in Threads, NEW place \in Places, Goto(t, place), pc[t] # "done",
           t \in Pollers /\ place = "done" => stop[t],
           UNCHANGED <<stop, proc, unload, oops>>
    PROVE  KInv'
<1> USE Constants
<1>1. KType'
  BY DEF KInv, KType, Goto
<1>2. \A u \in Threads : pc'[u] = IF u = t THEN place ELSE pc[u]
  BY DEF KInv, KType, Goto
<1>3. StopsAfterFiles'
  BY <1>2 DEF KInv, StopsAfterFiles
<1>4. StoppedInOrder'
  BY <1>2 DEF KInv, KType, StoppedInOrder
<1> QED BY <1>1, <1>3, <1>4 DEF KInv, NoDeadPoller

\* A step that moves no thread and leaves client_exit where it is.
LEMMA ThreadsStay ==
    ASSUME KInv, UNCHANGED <<pc, stop, unload>>, proc' = proc \/ unload = 0, NoDeadPoller'
    PROVE  KInv'
<1> USE Constants
<1>1. KType'
  BY DEF KInv, KType
<1>2. StopsAfterFiles' /\ StoppedInOrder'
  BY DEF KInv, KType, StopsAfterFiles, StoppedInOrder
<1> QED BY <1>1, <1>2 DEF KInv

\* Every step keeps KInv.
LEMMA NextKInv == KInv /\ [Next]_vars => KInv'
<1> USE Constants
<1> SUFFICES ASSUME KInv, [Next]_vars PROVE KInv'
  OBVIOUS
<1>0. KType /\ StopsAfterFiles /\ StoppedInOrder /\ NoDeadPoller
  BY DEF KInv
<1>1. CASE ProcCreated \/ ProcCreateFails
  BY <1>0, <1>1, ThreadsStay DEF ProcCreated, ProcCreateFails, NoDeadPoller
<1>2. CASE ExitBegins
  <2>1. unload = 0 /\ unload' = 1 /\ proc' = "gone" /\ UNCHANGED <<pc, stop, oops>>
    BY <1>2 DEF ExitBegins
  <2>2. KType'
    BY <1>0, <2>1 DEF KType
  <2>3. StopsAfterFiles' /\ StoppedInOrder' /\ NoDeadPoller'
    BY <1>0, <2>1 DEF StopsAfterFiles, StoppedInOrder, NoDeadPoller
  <2> QED BY <2>2, <2>3 DEF KInv
<1>3. CASE KthreadStop
  <2> DEFINE t == Stops[unload]
  <2>1. t \in Threads /\ unload > 0 /\ UNCHANGED <<pc, proc, unload>>
    BY <1>0, <1>3 DEF KthreadStop, KType
  <2>2. \/ oops' = "dead_task" /\ stop' = stop
        \/ oops' = oops /\ stop' = [stop EXCEPT ![t] = TRUE]
    BY <1>3 DEF KthreadStop
  <2> HIDE DEF t
  <2>3. NoDeadPoller'
    BY <1>0, <2>2 DEF NoDeadPoller
  <2>4. KType'
    BY <1>0, <2>1, <2>2 DEF KType
  <2>5. StopsAfterFiles' /\ StoppedInOrder'
    BY <1>0, <2>1, <2>2 DEF KType, StopsAfterFiles, StoppedInOrder
  <2> QED BY <2>3, <2>4, <2>5 DEF KInv
<1>4. CASE KthreadStopped
  <2>1. /\ unload \in 1 .. Len(Stops) /\ pc[Stops[unload]] = "done" /\ unload' = unload + 1
        /\ oops' \in {"module_gone", "none"} /\ UNCHANGED <<pc, stop, proc>>
    BY <1>4 DEF KthreadStopped
  <2>2. KType'
    BY <1>0, <2>1 DEF KType
  <2>3. StopsAfterFiles' /\ NoDeadPoller'
    BY <1>0, <2>1 DEF KType, StopsAfterFiles, NoDeadPoller
  <2>4. StoppedInOrder'
    BY <1>0, <2>1 DEF KType, StoppedInOrder
  <2> QED BY <2>2, <2>3, <2>4 DEF KInv
<1>5. ASSUME NEW w \in Writes, client_write(w) PROVE KInv'
  <2>1. proc = "there" /\ UNCHANGED <<pc, stop, proc, unload>>
    BY <1>5 DEF client_write
  <2>2. pc[target[w]] # "done"
    BY <1>0, <2>1 DEF KType, StopsAfterFiles
  <2>3. oops' = oops
    BY <1>5, <2>2 DEF client_write
  <2> QED BY <1>0, <2>1, <2>3, ThreadsStay DEF NoDeadPoller
<1>6. ASSUME NEW p \in Pollers, PollMoves(p) \/ ClientNoSocket(p) \/ LinkDies(p) PROVE KInv'
  <2>1. CASE PollCheck(p)
    <3>1. stop[p] \in BOOLEAN
      BY <1>0 DEF KType
    <3> QED BY <2>1, <3>1, ThreadGoesOn DEF PollCheck, Places
  <2>2. CASE PollSetState(p) \/ PollWoken(p) \/ ClientNoServer(p) \/ ClientConnects(p) \/ SendLoopEnds(p)
    BY <2>2, ThreadGoesOn DEF PollSetState, PollWoken, ClientNoServer, ClientConnects, SendLoopEnds, Places
  <2>3. CASE ClientNoSocket(p) \/ LinkDies(p)
    BY <1>0, <2>3, ThreadsStay DEF ClientNoSocket, LinkDies, NoDeadPoller
  <2> QED BY <1>6, <2>1, <2>2, <2>3 DEF PollMoves
<1>7. ASSUME NEW s \in Servers, ServerMoves(s) \/ ServerFails(s) PROVE KInv'
  <2>1. s \in Threads /\ s \notin Pollers
    OBVIOUS
  <2>2. CASE ServerListens(s) \/ ServerFails(s)
    BY <2>1, <2>2, ThreadGoesOn DEF ServerListens, ServerFails, Places
  <2>3. CASE ServerAccepts(s)
    BY <2>1, <2>3, ThreadGoesOn DEF ServerAccepts, Places
  <2> QED BY <1>7, <2>2, <2>3 DEF ServerMoves
<1>8. ASSUME NEW c \in Conns, HandlerEnds(c) \/ \E s \in Servers : Arrives(c, s) PROVE KInv'
  BY <1>0, <1>8, ThreadsStay DEF HandlerEnds, Arrives, NoDeadPoller
<1>9. CASE UNCHANGED vars
  BY <1>0, <1>9, ThreadsStay DEF vars, NoDeadPoller
<1> QED
  BY <1>1, <1>2, <1>3, <1>4, <1>5, <1>6, <1>7, <1>8, <1>9 DEF Next, ExitMoves

\* Whatever the threads, the order in which client_exit stops them and the
\* writes, no write wakes a thread that was stopped and the unload returns only
\* when all threads have ended.
THEOREM UnloadIsOrdered == Spec => []UnloadOrder
<1>1. KInv => UnloadOrder
  BY Constants DEF KInv, KType, StopsAfterFiles, StoppedInOrder, NoDeadPoller, UnloadOrder
<1> QED
  BY <1>1, InitKInv, NextKInv, PTL DEF Spec
====
