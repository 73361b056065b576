---- MODULE Listener_proofs ----
(***************************************************************************)
(* Proofs about Listener: whatever races, the tree of listeners holds live *)
(* ones and one of each tenant; and commands that are kept apart from each *)
(* other and from traffic let nobody meet a listener that is missing, half *)
(* set up or freed.                                                        *)
(***************************************************************************)
EXTENDS Listener, TLAPS

ServerPlaces == {"none", "search", "register", "link", "create", "bind", "probe", "error",
                 "removed", "accept", "done"}
Places == ServerPlaces \cup {"remove", "syn", "join"}

LType ==
    /\ quiet \in BOOLEAN
    /\ at \in [Actors -> Places]
    /\ \A s \in Servers : at[s] \in ServerPlaces
    /\ lst \in [Actors -> Servers \cup {NULL}]
    /\ reg \in SUBSET Servers
    /\ walked \in [Servers -> SUBSET Servers]
    /\ mem \in [Servers -> {"none", "live", "freed"}]
    /\ sock \in [Servers -> {"none", "created", "listen", "shut", "released"}]
    /\ raw \in [Servers -> {"unset", "set"}]

\* How far the life of a listener is, told by its server thread.  A thread that
\* has not linked its node has it to itself; one that accepts has a raw socket.
LifeOK(s) ==
    /\ at[s] \in {"none", "search", "register"} => mem[s] = "none" /\ s \notin reg
    /\ at[s] = "link" => mem[s] = "live" /\ s \notin reg
    /\ at[s] \in {"none", "search", "register", "link"} => sock[s] = "none"
    /\ at[s] = "removed" => mem[s] = "freed"
    /\ at[s] = "accept" => raw[s] = "set"
    /\ at[s] = "done" /\ s \in reg => raw[s] = "set"

LInv == LType /\ RegistryConsistent /\ \A s \in Servers : LifeOK(s)

Commands == Servers \cup Dels
Traffic == Syns \cup Accs
Busy(a) == at[a] \notin {"none", "accept", "done"}

\* What the quiet administrator buys.  One command is under way at a time, ...
OneCommand == \A a, b \in Commands : Busy(a) /\ Busy(b) => a = b

\* ... and none while there is traffic.
NoneInTraffic == \A a \in Commands, b \in Traffic : Busy(a) => at[b] \in {"none", "done"}

\* The server that starts finds the tree as it left it, ...
StartOK(s) ==
    /\ at[s] \in {"register", "link"} => Of(tid[s], reg) = {}
    /\ at[s] = "link" => walked[s] = reg
    /\ at[s] \in {"create", "bind", "probe", "error"} => s \in reg /\ sock[s] # "released"
    /\ at[s] = "accept" /\ sock[s] = "listen" => s \in reg

\* ... the delete command the listener it looked up, ...
DelOK(d) == at[d] = "remove" => lst[d] \in reg

\* ... and a packet or a task the listener it points to or will look up.
TrafficOK(a) ==
    /\ at[a] = "probe" => lst[a] \in Of(tid[a], reg)
    /\ at[a] = "join" => lst[a] \in reg
    /\ at[a] = "syn" => a \in Syns /\ Of(tid[a], reg) # {}

QInv ==
    /\ oops \in {"none", "stale_sock"}
    /\ OneCommand /\ NoneInTraffic
    /\ \A s \in Servers : StartOK(s)
    /\ \A d \in Dels : DelOK(d)
    /\ \A a \in Traffic : TrafficOK(a)

----
(* The registry, whatever races.                                           *)

\* What is assumed of the constants, as the proofs use it.
LEMMA Constants ==
    /\ NULL \notin Actors
    /\ Servers \subseteq Actors /\ Dels \subseteq Actors /\ Syns \subseteq Actors /\ Accs \subseteq Actors
    /\ \A s \in Servers : s \notin Dels /\ s \notin Syns /\ s \notin Accs /\ s # NULL
    /\ \A d \in Dels : d \notin Syns /\ d \notin Accs
    /\ \A y \in Syns : y \notin Accs
BY ListenerConstants DEF Actors

\* No listener is registered yet.
LEMMA InitLInv == Init => LInv
BY Constants DEF Init, LInv, LType, Places, ServerPlaces, RegistryConsistent, LifeOK, Actors

\* Removing a listener: it is unlinked in the step that frees it.
LEMMA RemoveLInv ==
    ASSUME LInv, NEW a \in Actors, NEW s \in Servers \cup {NULL}, NEW next \in {"removed", "done"},
           a \in Servers => a = s /\ at[a] = "error" /\ next = "removed",
           remove_listner_server(a, s, next)
    PROVE  LInv'
<1> USE Constants
<1>1. CASE UNCHANGED <<quiet, at, lst, reg, walked, mem, sock, raw>>
  BY <1>1 DEF LInv, LType, RegistryConsistent, LifeOK
<1>2. CASE s \in reg /\ Shutdown(s) /\ reg' = reg \ {s} /\ mem' = [mem EXCEPT ![s] = "freed"]
           /\ Goto(a, next) /\ UNCHANGED <<quiet, lst, walked, raw, oops>>
  <2>1. LType'
    BY <1>2 DEF LInv, LType, Goto, Shutdown, Places, ServerPlaces
  <2>2. RegistryConsistent'
    BY <1>2 DEF LInv, LType, RegistryConsistent
  <2>3. \A u \in Servers : LifeOK(u)'
    BY <1>2 DEF LInv, LType, LifeOK, Goto, Shutdown, RegistryConsistent
  <2> QED BY <2>1, <2>2, <2>3 DEF LInv
<1> QED
  BY <1>1, <1>2 DEF remove_listner_server, Use

\* One step of the system.
LEMMA NextLInv == LInv /\ [Next]_vars => LInv'
<1> SUFFICES ASSUME LInv, [Next]_vars PROVE LInv'
  OBVIOUS
<1> USE Constants
<1>1. ASSUME NEW s \in Servers, add_server_cb(s) \/ ServerSearch(s) \/ RegisterFails(s) PROVE LInv'
  BY <1>1 DEF LInv, LType, RegistryConsistent, LifeOK, add_server_cb, ServerSearch, RegisterFails, Goto,
     Places, ServerPlaces
<1>2. ASSUME NEW s \in Servers, Register(s) PROVE LInv'
  BY <1>2 DEF LInv, LType, RegistryConsistent, LifeOK, Register, Goto, Places, ServerPlaces
<1>3. ASSUME NEW s \in Servers, add_rb_listner(s) PROVE LInv'
  <2>1. LType'
    BY <1>3 DEF LInv, LType, add_rb_listner, Goto, Places, ServerPlaces
  <2>2. RegistryConsistent'
    <3>1. reg' = reg \/ (reg' = reg \cup {s} /\ Of(tid[s], reg) = {})
      BY <1>3 DEF add_rb_listner
    <3>2. mem[s] = "live" /\ mem' = mem
      BY <1>3 DEF add_rb_listner, LInv, LifeOK
    <3> QED BY <3>1, <3>2 DEF LInv, LType, RegistryConsistent, Of
  <2>3. \A u \in Servers : LifeOK(u)'
    BY <1>3 DEF LInv, LType, LifeOK, add_rb_listner, Goto
  <2> QED BY <2>1, <2>2, <2>3 DEF LInv
<1>4. ASSUME NEW s \in Servers, ServerSocket(s) \/ ServerListen(s) \/ ServerProbe(s) PROVE LInv'
  BY <1>4 DEF LInv, LType, RegistryConsistent, LifeOK, ServerSocket, ServerListen, ServerProbe, Use, Goto,
     Places, ServerPlaces
<1>5. ASSUME NEW s \in Servers, ServerFails(s) PROVE LInv'
  BY <1>5 DEF LInv, LType, RegistryConsistent, LifeOK, ServerFails, Goto, Places, ServerPlaces
<1>6. ASSUME NEW s \in Servers, ServerError(s) PROVE LInv'
  BY <1>6, RemoveLInv DEF ServerError
<1>7. ASSUME NEW s \in Servers, ServerExit(s) \/ AcceptFails(s) PROVE LInv'
  BY <1>7 DEF LInv, LType, RegistryConsistent, LifeOK, ServerExit, AcceptFails, ServerDone, Goto,
     Places, ServerPlaces
<1>8. ASSUME NEW s \in Servers, NEW k \in Accs, ServerAccept(s, k) PROVE LInv'
  BY <1>8 DEF LInv, LType, RegistryConsistent, LifeOK, ServerAccept, Goto, Places, ServerPlaces
<1>9. ASSUME NEW d \in Dels, DelSearch(d) PROVE LInv'
  BY <1>9 DEF LInv, LType, RegistryConsistent, LifeOK, DelSearch, Goto, Of, Places, ServerPlaces
<1>10. ASSUME NEW d \in Dels, DelRemove(d) PROVE LInv'
  <2>1. lst[d] \in Servers \cup {NULL}
    BY DEF LInv, LType
  <2> QED BY <1>10, <2>1, RemoveLInv DEF DelRemove
<1>11. ASSUME NEW y \in Syns, cbn_ingress_hook(y) PROVE LInv'
  BY <1>11 DEF LInv, LType, RegistryConsistent, LifeOK, cbn_ingress_hook, Goto, Of, Places, ServerPlaces
<1>12. ASSUME NEW y \in Syns, start_probe_syn(y) PROVE LInv'
  BY <1>12 DEF LInv, LType, RegistryConsistent, LifeOK, start_probe_syn, cbn_egress_hook, Use, Goto,
     Places, ServerPlaces
<1>13. ASSUME NEW y \in Syns, SynSearch(y) PROVE LInv'
  <2>1. PICK u \in Servers \cup {NULL} : lst' = [lst EXCEPT ![y] = u]
    BY <1>13 DEF SynSearch, Of, LInv, LType
  <2>2. Goto(y, "join") /\ UNCHANGED <<quiet, reg, walked, mem, sock, raw>>
    BY <1>13 DEF SynSearch
  <2> QED
    BY <2>1, <2>2 DEF LInv, LType, RegistryConsistent, LifeOK, Goto, Places, ServerPlaces
<1>14. ASSUME NEW a \in Syns \cup Accs, Join(a) PROVE LInv'
  BY <1>14 DEF LInv, LType, RegistryConsistent, LifeOK, Join, Use, Goto, Places, ServerPlaces
<1>15. CASE UNCHANGED vars
  BY <1>15 DEF vars, LInv, LType, RegistryConsistent, LifeOK
<1> QED
  BY <1>1, <1>2, <1>3, <1>4, <1>5, <1>6, <1>7, <1>8, <1>9, <1>10, <1>11, <1>12, <1>13, <1>14, <1>15
  DEF Next, ServerStep, ServerMoves, cbn_add_server, DelStep, cbn_del_server, SynStep

\* Whatever commands race each other and the traffic, the tree of listeners
\* holds no freed listener and at most one of each tenant.
THEOREM RegistryStaysConsistent == Spec => []RegistryConsistent
<1>1. LInv => RegistryConsistent
  BY DEF LInv
<1> QED BY <1>1, InitLInv, NextLInv, PTL DEF Spec

----
(* The quiet administrator.                                                *)

\* No command is under way yet.
LEMMA InitQInv == Init => QInv
BY Constants DEF Init, QInv, OneCommand, NoneInTraffic, Commands, Traffic, Busy, StartOK, DelOK, TrafficOK, Actors

\* A command may begin: nobody is busy and there is no traffic.
LEMMA CommandAlone ==
    ASSUME quiet, MayCommand
    PROVE  (\A a \in Commands : ~Busy(a)) /\ \A b \in Traffic : at[b] \in {"none", "done"}
BY DEF MayCommand, Settled, NoTraffic, Commands, Traffic, Busy

\* When a command is under way no other one is, and there is no traffic.
LEMMA BusyAlone ==
    ASSUME QInv, NEW a \in Commands, Busy(a)
    PROVE  (\A b \in Commands : b # a => ~Busy(b)) /\ \A b \in Traffic : at[b] \in {"none", "done"}
BY DEF QInv, OneCommand, NoneInTraffic

\* When there is traffic no command is under way.
LEMMA TrafficAlone ==
    ASSUME QInv, NEW a \in Traffic, at[a] \notin {"none", "done"}
    PROVE  \A b \in Commands : ~Busy(b)
BY DEF QInv, NoneInTraffic

\* A server thread that moves on and changes its own listener's state, while
\* nobody else does anything.
LEMMA ServerAlone ==
    ASSUME QInv, LInv, NEW s \in Servers, NEW place \in ServerPlaces,
           \A b \in Commands : b # s => ~Busy(b),
           \A b \in Traffic : at[b] \in {"none", "done"},
           at' = [at EXCEPT ![s] = place], lst' = lst,
           reg' = reg \/ reg' = reg \cup {s},
           \A u \in Servers : u # s => sock'[u] = sock[u] /\ walked'[u] = walked[u],
           oops' \in {"none", "stale_sock"}, StartOK(s)'
    PROVE  QInv'
<1> USE Constants
<1>1. at'[s] = place /\ \A b \in Actors : b # s => at'[b] = at[b]
  BY DEF LInv, LType
<1>2. OneCommand'
  BY <1>1 DEF OneCommand, Busy, Commands
<1>3. NoneInTraffic'
  BY <1>1 DEF NoneInTraffic, Busy, Commands, Traffic
<1>4. \A u \in Servers : StartOK(u)'
  <2> SUFFICES ASSUME NEW u \in Servers, u # s PROVE StartOK(u)'
    OBVIOUS
  <2>1. at'[u] = at[u] /\ ~Busy(u)
    BY <1>1 DEF Commands
  <2> QED BY <2>1 DEF QInv, StartOK, Busy
<1>5. \A d \in Dels : DelOK(d)'
  <2> SUFFICES ASSUME NEW d \in Dels PROVE DelOK(d)'
    OBVIOUS
  <2>1. at'[d] = at[d] /\ ~Busy(d)
    BY <1>1 DEF Commands
  <2> QED BY <2>1 DEF DelOK, Busy
<1>6. \A a \in Traffic : TrafficOK(a)'
  BY <1>1 DEF TrafficOK, Traffic
<1> QED BY <1>2, <1>3, <1>4, <1>5, <1>6 DEF QInv

\* A packet or a task that moves on while no command is under way.
LEMMA TrafficMoves ==
    ASSUME QInv, LInv, NEW a \in Traffic, NEW place \in {"probe", "syn", "join", "done"},
           \A b \in Commands : ~Busy(b),
           at' = [at EXCEPT ![a] = place],
           \A b \in Actors : b # a => lst'[b] = lst[b],
           UNCHANGED <<reg, walked, sock>>,
           oops' \in {"none", "stale_sock"}, TrafficOK(a)'
    PROVE  QInv'
<1> USE Constants
<1>1. at'[a] = place /\ \A b \in Actors : b # a => at'[b] = at[b]
  BY DEF LInv, LType, Traffic
<1>2. \A b \in Commands : b # a /\ at'[b] = at[b] /\ b \in Actors
  BY <1>1 DEF Commands, Traffic
<1>3. OneCommand' /\ NoneInTraffic'
  BY <1>2 DEF OneCommand, NoneInTraffic, Busy
<1>4. \A u \in Servers : StartOK(u)'
  BY <1>2 DEF QInv, StartOK, Commands
<1>5. \A d \in Dels : DelOK(d)'
  BY <1>2 DEF QInv, DelOK, Commands
<1>6. \A b \in Traffic : TrafficOK(b)'
  <2> SUFFICES ASSUME NEW b \in Traffic, b # a PROVE TrafficOK(b)'
    OBVIOUS
  <2>1. at'[b] = at[b] /\ lst'[b] = lst[b]
    BY <1>1 DEF Traffic
  <2> QED BY <2>1 DEF QInv, TrafficOK
<1> QED BY <1>3, <1>4, <1>5, <1>6 DEF QInv

\* The command that removes listener s is alone, the listener is in the tree.
LEMMA RemoveQInv ==
    ASSUME QInv, LInv, NEW a \in Commands, Busy(a), NEW s \in reg, NEW next \in {"removed", "done"},
           a \in Servers => a = s /\ at[a] = "error" /\ next = "removed",
           a \in Dels => next = "done",
           oops = "none",
           remove_listner_server(a, s, next)
    PROVE  QInv'
<1> USE Constants
<1>0. s \in Servers /\ s # NULL /\ mem[s] = "live" /\ a \in Actors
  BY DEF LInv, LType, RegistryConsistent, Commands
<1>1. CASE sock[s] = "released"
  <2>1. oops' = "stale_sock" /\ UNCHANGED <<quiet, at, lst, reg, walked, mem, sock, raw>>
    BY <1>0, <1>1 DEF remove_listner_server, Use
  <2> QED BY <2>1 DEF QInv, OneCommand, NoneInTraffic, Busy, StartOK, DelOK, TrafficOK, Of
<1>2. CASE sock[s] # "released"
  <2>1. /\ Shutdown(s) /\ reg' = reg \ {s} /\ Goto(a, next)
        /\ UNCHANGED <<quiet, lst, walked, raw, oops>>
    BY <1>0, <1>2 DEF remove_listner_server, Use
  <2>2. /\ \A b \in Commands : b # a => ~Busy(b)
        /\ \A b \in Traffic : at[b] \in {"none", "done"}
    BY BusyAlone
  <2>3. at'[a] = next /\ \A b \in Actors : b # a => at'[b] = at[b]
    BY <1>0, <2>1 DEF LInv, LType, Goto
  <2>4. OneCommand'
    BY <2>2, <2>3 DEF OneCommand, Busy, Commands
  <2>5. NoneInTraffic'
    BY <2>2, <2>3 DEF NoneInTraffic, Busy, Commands, Traffic
  <2>6. \A u \in Servers : StartOK(u)'
    <3> SUFFICES ASSUME NEW u \in Servers PROVE StartOK(u)'
      OBVIOUS
    <3>1. CASE u = a
      BY <2>3, <3>1 DEF StartOK
    <3>2. CASE u # a
      <4>1. at'[u] = at[u] /\ ~Busy(u)
        BY <2>2, <2>3, <3>2 DEF Commands
      <4>2. sock'[u] = "listen" => u # s /\ sock[u] = "listen"
        BY <1>0, <2>1 DEF Shutdown, LInv, LType
      <4> QED BY <2>1, <4>1, <4>2 DEF QInv, StartOK, Busy
    <3> QED BY <3>1, <3>2
  <2>7. \A d \in Dels : DelOK(d)'
    BY <2>2, <2>3 DEF DelOK, Busy, Commands
  <2>8. \A b \in Traffic : TrafficOK(b)'
    BY <2>2, <2>3 DEF TrafficOK, Traffic, Commands
  <2> QED BY <2>1, <2>4, <2>5, <2>6, <2>7, <2>8 DEF QInv
<1> QED BY <1>1, <1>2

\* A command begins.
LEMMA CommandQInv ==
    ASSUME QInv, LInv, quiet,
           \/ \E s \in Servers : cbn_add_server(s)
           \/ \E d \in Dels : cbn_del_server(d)
    PROVE  QInv'
<1> USE Constants
<1>1. (\A a \in Commands : ~Busy(a)) /\ \A b \in Traffic : at[b] \in {"none", "done"}
  BY CommandAlone DEF cbn_add_server, cbn_del_server
<1>2. CASE \E s \in Servers : cbn_add_server(s)
  <2>1. PICK s \in Servers : add_server_cb(s)
    BY <1>2 DEF cbn_add_server
  <2>2. at' = [at EXCEPT ![s] = "search"] /\ UNCHANGED <<quiet, lst, reg, walked, mem, sock, raw, oops>>
    BY <2>1 DEF add_server_cb, Goto
  <2>3. StartOK(s)'
    BY <2>2 DEF StartOK, LInv, LType
  <2> QED BY <1>1, <2>2, <2>3, ServerAlone DEF ServerPlaces, QInv
<1>3. CASE \E d \in Dels : cbn_del_server(d)
  <2>1. PICK d \in Dels : DelSearch(d)
    BY <1>3 DEF cbn_del_server
  <2>2. /\ UNCHANGED <<quiet, reg, walked, mem, sock, raw, oops>>
        /\ \A b \in Actors : b # d => at'[b] = at[b] /\ lst'[b] = lst[b]
        /\ at'[d] = "remove" => lst'[d] \in reg
    BY <2>1 DEF DelSearch, Goto, Of, LInv, LType
  <2>3. OneCommand' /\ NoneInTraffic'
    BY <1>1, <2>2 DEF OneCommand, NoneInTraffic, Busy, Commands, Traffic
  <2>4. \A u \in Servers : StartOK(u)'
    BY <2>2 DEF QInv, StartOK
  <2>5. \A e \in Dels : DelOK(e)'
    BY <2>2 DEF QInv, DelOK
  <2>6. \A b \in Traffic : TrafficOK(b)'
    BY <2>2 DEF QInv, TrafficOK, Traffic
  <2> QED BY <2>2, <2>3, <2>4, <2>5, <2>6 DEF QInv
<1> QED BY <1>2, <1>3

\* A server thread starts up.
LEMMA StartQInv ==
    ASSUME QInv, LInv, NEW s \in Servers,
           \/ ServerSearch(s) \/ RegisterFails(s) \/ Register(s) \/ add_rb_listner(s)
           \/ ServerSocket(s) \/ ServerListen(s) \/ ServerProbe(s) \/ ServerFails(s)
           \/ (at[s] = "removed" /\ ServerExit(s))
    PROVE  QInv'
<1> USE Constants
<1>1. s \in Commands /\ Busy(s)
  BY DEF Commands, Busy, ServerSearch, RegisterFails, Register, add_rb_listner, ServerSocket, ServerListen,
     ServerProbe, ServerFails
<1>2. /\ \A b \in Commands : b # s => ~Busy(b)
      /\ \A b \in Traffic : at[b] \in {"none", "done"}
  BY <1>1, BusyAlone
<1>3. CASE ServerSearch(s) \/ RegisterFails(s)
  <2>1. PICK place \in {"register", "done"} :
          /\ at' = [at EXCEPT ![s] = place] /\ UNCHANGED <<quiet, lst, reg, walked, mem, sock, raw, oops>>
          /\ place = "register" => Of(tid[s], reg) = {}
    BY <1>3 DEF ServerSearch, RegisterFails, Goto
  <2>2. StartOK(s)'
    BY <2>1 DEF StartOK, LInv, LType
  <2> QED BY <1>2, <2>1, <2>2, ServerAlone DEF ServerPlaces, QInv
<1>4. CASE Register(s)
  <2>1. /\ at' = [at EXCEPT ![s] = "link"] /\ walked' = [walked EXCEPT ![s] = reg]
        /\ UNCHANGED <<quiet, lst, reg, sock, raw, oops>> /\ at[s] = "register"
    BY <1>4 DEF Register, Goto
  <2>2. StartOK(s)'
    BY <2>1 DEF QInv, StartOK, Of, LInv, LType
  <2>3. \A u \in Servers : u # s => walked'[u] = walked[u]
    BY <2>1 DEF LInv, LType
  <2> QED BY <1>2, <2>1, <2>2, <2>3, ServerAlone DEF ServerPlaces, QInv
<1>5. CASE add_rb_listner(s)
  <2>1. Of(tid[s], walked[s]) = {} /\ walked[s] = reg
    BY <1>5 DEF QInv, StartOK, add_rb_listner
  <2>2. /\ at' = [at EXCEPT ![s] = "create"] /\ walked' = [walked EXCEPT ![s] = {}]
        /\ reg' = reg \cup {s}
        /\ UNCHANGED <<quiet, lst, mem, sock, raw, oops>>
    BY <1>5, <2>1 DEF add_rb_listner, Goto
  <2>3. \A u \in Servers : u # s => walked'[u] = walked[u]
    BY <2>2 DEF LInv, LType
  <2>4. sock[s] # "released"
    BY <1>5 DEF add_rb_listner, LInv, LifeOK
  <2>5. StartOK(s)'
    BY <2>2, <2>4 DEF StartOK, LInv, LType
  <2> QED BY <1>2, <2>2, <2>3, <2>5, ServerAlone DEF ServerPlaces, QInv
<1>6. CASE ServerSocket(s) \/ ServerListen(s) \/ ServerProbe(s)
  <2>1. s \in reg /\ mem[s] = "live" /\ s # NULL
    BY <1>6 DEF QInv, StartOK, ServerSocket, ServerListen, ServerProbe, LInv, RegistryConsistent
  <2>2. PICK place \in {"bind", "probe", "accept"} :
          /\ at' = [at EXCEPT ![s] = place]
          /\ \A u \in Servers : u # s => sock'[u] = sock[u]
          /\ sock'[s] # "released"
          /\ UNCHANGED <<quiet, lst, reg, walked, oops>>
    BY <1>6, <2>1 DEF ServerSocket, ServerListen, ServerProbe, Use, Goto, QInv, StartOK, LInv, LType
  <2>3. StartOK(s)'
    BY <2>1, <2>2 DEF StartOK, LInv, LType
  <2> QED BY <1>2, <2>2, <2>3, ServerAlone DEF ServerPlaces, QInv
<1>7. CASE ServerFails(s)
  <2>1. at' = [at EXCEPT ![s] = "error"] /\ UNCHANGED <<quiet, lst, reg, walked, mem, sock, raw, oops>>
    BY <1>7 DEF ServerFails, Goto
  <2>2. StartOK(s)'
    BY <1>7, <2>1 DEF ServerFails, QInv, StartOK, LInv, LType
  <2> QED BY <1>2, <2>1, <2>2, ServerAlone DEF ServerPlaces, QInv
<1>8. CASE at[s] = "removed" /\ ServerExit(s)
  <2>1. /\ at' = [at EXCEPT ![s] = "done"]
        /\ \A u \in Servers : u # s => sock'[u] = sock[u]
        /\ UNCHANGED <<quiet, lst, reg, walked, mem, raw, oops>>
    BY <1>8 DEF ServerExit, ServerDone, Goto, LInv, LType
  <2>2. StartOK(s)'
    BY <2>1 DEF StartOK, LInv, LType
  <2> QED BY <1>2, <2>1, <2>2, ServerAlone DEF ServerPlaces, QInv
<1> QED BY <1>3, <1>4, <1>5, <1>6, <1>7, <1>8

\* A server thread whose accept loop ends changes nothing that others rely on.
LEMMA AcceptEndsQInv ==
    ASSUME QInv, LInv, NEW s \in Servers, at[s] = "accept", oops = "none", ServerDone(s)
    PROVE  QInv'
<1> USE Constants
<1>1. /\ at' = [at EXCEPT ![s] = "done"]
      /\ \A u \in Servers : u # s => sock'[u] = sock[u]
      /\ UNCHANGED <<quiet, lst, reg, walked, mem, raw, oops>>
  BY DEF ServerDone, Goto, LInv, LType
<1>2. at'[s] = "done" /\ \A b \in Actors : b # s => at'[b] = at[b]
  BY <1>1 DEF LInv, LType
<1>3. \A b \in Actors : Busy(b)' <=> Busy(b)
  BY <1>2 DEF Busy
<1>4. OneCommand'
  BY <1>3 DEF OneCommand, QInv, Commands
<1>5. NoneInTraffic'
  BY <1>2, <1>3 DEF NoneInTraffic, QInv, Commands, Traffic
<1>6. \A u \in Servers : StartOK(u)'
  BY <1>1, <1>2 DEF QInv, StartOK, Of
<1>7. \A d \in Dels : DelOK(d)'
  BY <1>1, <1>2 DEF QInv, DelOK
<1>8. \A b \in Traffic : TrafficOK(b)'
  BY <1>1, <1>2 DEF QInv, TrafficOK, Traffic, Of
<1> QED BY <1>1, <1>4, <1>5, <1>6, <1>7, <1>8 DEF QInv

\* Packets, probes and the tasks that join.
LEMMA TrafficQInv ==
    ASSUME QInv, LInv, quiet,
           \/ \E s \in Servers, k \in Accs : ServerAccept(s, k)
           \/ \E y \in Syns : SynStep(y)
           \/ \E a \in Syns \cup Accs : Join(a)
    PROVE  QInv'
<1> USE Constants
<1>1. CASE \E s \in Servers, k \in Accs : ServerAccept(s, k)
  <2>1. PICK s \in Servers, k \in Accs : ServerAccept(s, k)
    BY <1>1
  <2>2. (\A b \in Commands : ~Busy(b)) /\ s \in reg
    BY <2>1 DEF ServerAccept, Settled, Busy, Commands, QInv, StartOK
  <2>3. PICK place \in {"join", "done"} :
          /\ at' = [at EXCEPT ![k] = place]
          /\ \A b \in Actors : b # k => lst'[b] = lst[b]
          /\ place = "join" => lst'[k] = s
          /\ UNCHANGED <<quiet, reg, walked, mem, sock, raw, oops>>
    BY <2>1 DEF ServerAccept, Goto, LInv, LType
  <2>4. TrafficOK(k)'
    BY <2>2, <2>3 DEF TrafficOK, LInv, LType
  <2> QED BY <2>2, <2>3, <2>4, TrafficMoves DEF Traffic, QInv
<1>2. CASE \E y \in Syns : cbn_ingress_hook(y)
  <2>1. PICK y \in Syns : cbn_ingress_hook(y)
    BY <1>2
  <2>2. \A b \in Commands : ~Busy(b)
    BY <2>1 DEF cbn_ingress_hook, Settled, Busy, Commands
  <2>3. /\ at' = [at EXCEPT ![y] = "probe"]
        /\ \A b \in Actors : b # y => lst'[b] = lst[b]
        /\ lst'[y] \in Of(tid[y], reg)
        /\ UNCHANGED <<quiet, reg, walked, mem, sock, raw, oops>>
    BY <2>1 DEF cbn_ingress_hook, Goto, Of, LInv, LType
  <2>4. TrafficOK(y)'
    BY <2>3 DEF TrafficOK, LInv, LType, Of
  <2> QED BY <2>2, <2>3, <2>4, TrafficMoves DEF Traffic, QInv
<1>3. CASE \E y \in Syns : start_probe_syn(y)
  <2>1. PICK y \in Syns : start_probe_syn(y)
    BY <1>3
  <2>2. lst[y] \in Of(tid[y], reg) /\ y \in Traffic /\ at[y] = "probe"
    BY <2>1 DEF start_probe_syn, QInv, TrafficOK, Traffic
  <2>3. \A b \in Commands : ~Busy(b)
    BY <2>2, TrafficAlone
  <2>4. raw[lst[y]] = "set" /\ mem[lst[y]] = "live" /\ lst[y] # NULL
    BY <2>2, <2>3 DEF Of, Busy, Commands, LInv, LType, LifeOK, RegistryConsistent
  <2>5. PICK place \in {"syn", "done"} :
          /\ at' = [at EXCEPT ![y] = place]
          /\ \A b \in Actors : b # y => lst'[b] = lst[b]
          /\ UNCHANGED <<quiet, reg, walked, mem, sock, raw, oops>>
    BY <2>1, <2>4 DEF start_probe_syn, Use, cbn_egress_hook, Goto, LInv, LType
  <2>6. TrafficOK(y)'
    BY <2>2, <2>5 DEF TrafficOK, LInv, LType, Of
  <2> QED BY <2>2, <2>3, <2>5, <2>6, TrafficMoves DEF QInv
<1>4. CASE \E y \in Syns : SynSearch(y)
  <2>1. PICK y \in Syns : SynSearch(y)
    BY <1>4
  <2>2. Of(tid[y], reg) # {} /\ y \in Traffic /\ at[y] = "syn"
    BY <2>1 DEF SynSearch, QInv, TrafficOK, Traffic
  <2>3. \A b \in Commands : ~Busy(b)
    BY <2>2, TrafficAlone
  <2>4. PICK u \in Of(tid[y], reg) : lst' = [lst EXCEPT ![y] = u]
    BY <2>1, <2>2 DEF SynSearch
  <2>5. at' = [at EXCEPT ![y] = "join"] /\ UNCHANGED <<quiet, reg, walked, mem, sock, raw, oops>>
    BY <2>1 DEF SynSearch, Goto
  <2>6. TrafficOK(y)'
    BY <2>4, <2>5 DEF TrafficOK, LInv, LType, Of
  <2>7. \A b \in Actors : b # y => lst'[b] = lst[b]
    BY <2>4 DEF LInv, LType
  <2> QED BY <2>2, <2>3, <2>5, <2>6, <2>7, TrafficMoves DEF QInv
<1>5. CASE \E a \in Syns \cup Accs : Join(a)
  <2>1. PICK a \in Syns \cup Accs : Join(a)
    BY <1>5
  <2>2. lst[a] \in reg /\ a \in Traffic /\ at[a] = "join"
    BY <2>1 DEF Join, QInv, TrafficOK, Traffic
  <2>3. \A b \in Commands : ~Busy(b)
    BY <2>2, TrafficAlone
  <2>4. mem[lst[a]] = "live" /\ lst[a] # NULL
    BY <2>2 DEF LInv, LType, RegistryConsistent
  <2>5. /\ at' = [at EXCEPT ![a] = "done"]
        /\ \A b \in Actors : b # a => lst'[b] = lst[b]
        /\ UNCHANGED <<quiet, reg, walked, mem, sock, raw, oops>>
    BY <2>1, <2>4 DEF Join, Use, Goto, LInv, LType
  <2>6. TrafficOK(a)'
    BY <2>2, <2>5 DEF TrafficOK, LInv, LType
  <2> QED BY <2>2, <2>3, <2>5, <2>6, TrafficMoves DEF QInv
<1> QED BY <1>1, <1>2, <1>3, <1>4, <1>5 DEF SynStep

\* One step of the system.
LEMMA NextQInv == LInv /\ (quiet => QInv) /\ [Next]_vars => (quiet => QInv)'
<1> SUFFICES ASSUME LInv, quiet => QInv, [Next]_vars, quiet' PROVE QInv'
  OBVIOUS
<1> USE Constants
<1>0. quiet /\ QInv
  BY DEF Next, vars, ServerStep, ServerMoves, cbn_add_server, DelStep, cbn_del_server, SynStep, add_server_cb,
     ServerSearch, Register, RegisterFails, add_rb_listner, ServerSocket, ServerListen, ServerProbe, ServerFails,
     ServerError, ServerExit, AcceptFails, ServerDone, ServerAccept, DelSearch, DelRemove, cbn_ingress_hook,
     start_probe_syn, SynSearch, Join, Use, remove_listner_server
<1>1. ASSUME NEW s \in Servers, ServerError(s) PROVE QInv'
  <2>1. s \in reg /\ s \in Commands /\ Busy(s)
    BY <1>0, <1>1 DEF ServerError, QInv, StartOK, Commands, Busy
  <2> QED BY <1>0, <1>1, <2>1, RemoveQInv DEF ServerError
<1>2. ASSUME NEW d \in Dels, DelRemove(d) PROVE QInv'
  <2>1. lst[d] \in reg /\ d \in Commands /\ Busy(d) /\ oops = "none"
    BY <1>0, <1>2 DEF DelRemove, QInv, DelOK, Commands, Busy
  <2> QED BY <1>0, <1>2, <2>1, RemoveQInv DEF DelRemove
<1>3. ASSUME NEW s \in Servers, ServerExit(s) \/ AcceptFails(s) PROVE QInv'
  BY <1>0, <1>3, StartQInv, AcceptEndsQInv DEF ServerExit, AcceptFails
<1>4. CASE UNCHANGED vars
  BY <1>0, <1>4 DEF vars, QInv, OneCommand, NoneInTraffic, Busy, StartOK, DelOK, TrafficOK, Of
<1> QED
  BY <1>0, <1>1, <1>2, <1>3, <1>4, CommandQInv, StartQInv, TrafficQInv DEF Next, ServerStep, ServerMoves, DelStep

\* While commands are kept apart from each other and from traffic nobody meets
\* a listener that is missing, half set up or freed, but for the socket of a
\* server whose kernel_accept failed.
THEOREM QuietIsSafe == Spec => []QuietCommandsAreSafe
<1>1. LInv /\ (quiet => QInv) => QuietCommandsAreSafe
  BY DEF QInv, QuietCommandsAreSafe
<1> QED BY <1>1, InitLInv, NextLInv, InitQInv, NextQInv, PTL DEF Spec
====
