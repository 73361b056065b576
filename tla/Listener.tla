---- MODULE Listener ----
(***************************************************************************)
(* The tenants' listeners (struct cbn_listner, tcpsplit/split.c) and all   *)
(* who look them up: the server thread of a tenant (split_server), the     *)
(* commands that add and delete one, the ingress hook and the probe it     *)
(* sends (start_probe_syn), and the tasks that join the listener's QP tree.*)
(*                                                                         *)
(* The tree of listeners has no lock.  rb_data_tree.h:76 says that adding  *)
(* a tenant at run time is ill advised; quiet tells whether the            *)
(* administrator keeps to that.                                            *)
(*                                                                         *)
(* A listener is named after the server thread that registers it.  Freed   *)
(* memory is not used again: an access to it stops the system.             *)
(***************************************************************************)
EXTENDS Naturals

CONSTANTS Servers,  \* the split_server threads, one for each add command
          Dels,     \* the delete commands
          Syns,     \* the SYNs of clients
          Accs,     \* the connections that are accepted
          tid,      \* the tenant of a server, a delete command and a SYN
          NULL

Actors == Servers \cup Dels \cup Syns \cup Accs

ASSUME ListenerConstants ==
    /\ NULL \notin Actors
    /\ Servers \cap (Dels \cup Syns \cup Accs) = {}
    /\ Dels \cap (Syns \cup Accs) = {}
    /\ Syns \cap Accs = {}

VARIABLES quiet,  \* commands are given only while there is no traffic
          at,     \* at[a]: where actor a is
          lst,    \* lst[a]: the listener a delete command, a SYN or an L task points to
          reg,    \* listner_root: the listeners linked into the tree
          walked, \* walked[s]: the tree as add_rb_listner of s saw it
          mem,    \* mem[s]: the memory of the listener of s
          sock,   \* sock[s]: the listening socket of s
          raw,    \* raw[s]: the probe socket in the listener of s
          oops    \* "none", or the access that brought the kernel down

vars == <<quiet, at, lst, reg, walked, mem, sock, raw, oops>>

Goto(a, place) == at' = [at EXCEPT ![a] = place]

Init ==
    /\ quiet \in BOOLEAN
    /\ at = [a \in Actors |-> "none"]
    /\ lst = [a \in Actors |-> NULL]
    /\ reg = {}
    /\ walked = [s \in Servers |-> {}]
    /\ mem = [s \in Servers |-> "none"]
    /\ sock = [s \in Servers |-> "none"]
    /\ raw = [s \in Servers |-> "unset"]
    /\ oops = "none"

\* search_rb_listner and the walk of add_rb_listner: the tenant's listeners in
\* tree r.
Of(t, r) == {s \in r : tid[s] = t}

\* No command is under way and no server is starting.
Settled == /\ \A s \in Servers : at[s] \in {"none", "accept", "done"}
           /\ \A d \in Dels : at[d] \in {"none", "done"}
NoTraffic == \A a \in Syns \cup Accs : at[a] \in {"none", "done"}

\* When the administrator gives a command.
MayCommand == quiet => Settled /\ NoTraffic

\* A step that uses listener s, which may be freed by now.
Use(s, Step) ==
    IF s = NULL THEN oops' = "null_listner" /\ UNCHANGED <<quiet, at, lst, reg, walked, mem, sock, raw>>
    ELSE IF mem[s] = "freed" THEN oops' = "stale_listner" /\ UNCHANGED <<quiet, at, lst, reg, walked, mem, sock, raw>>
    ELSE Step

----
(* remove_listner_server.                                                  *)

\* kernel_sock_shutdown: it ends a listening socket and does nothing to one
\* that does not listen yet.
Shutdown(s) == sock' = [sock EXCEPT ![s] = IF @ = "listen" THEN "shut" ELSE @]

\* Mutant: the node stays linked.
remove_listner_server_linked(a, s, next) ==
    Use(s, /\ sock[s] # "released" /\ s \in reg
           /\ Shutdown(s)
           /\ mem' = [mem EXCEPT ![s] = "freed"]
           /\ Goto(a, next)
           /\ UNCHANGED <<quiet, lst, reg, walked, raw, oops>>)

\* Mutant: the socket is not shut down.
remove_listner_server_listens(a, s, next) ==
    Use(s, /\ sock[s] # "released" /\ s \in reg
           /\ reg' = reg \ {s}
           /\ mem' = [mem EXCEPT ![s] = "freed"]
           /\ Goto(a, next)
           /\ UNCHANGED <<quiet, lst, walked, sock, raw, oops>>)

\* The socket is shut down, the node unlinked and the listener freed.  The
\* socket may have been released, and the node may never have been linked.
remove_listner_server(a, s, next) ==
    Use(s, IF sock[s] = "released" \/ s \notin reg
           THEN /\ oops' = IF sock[s] = "released" THEN "stale_sock" ELSE "rb_erase"
                /\ UNCHANGED <<quiet, at, lst, reg, walked, mem, sock, raw>>
           ELSE /\ Shutdown(s)
                /\ reg' = reg \ {s}
                /\ mem' = [mem EXCEPT ![s] = "freed"]
                /\ Goto(a, next)
                /\ UNCHANGED <<quiet, lst, walked, raw, oops>>)

----
(* split_server.                                                           *)

\* add_server_cb starts the server thread.
add_server_cb(s) ==
    /\ oops = "none" /\ at[s] = "none"
    /\ Goto(s, "search")
    /\ UNCHANGED <<quiet, lst, reg, walked, mem, sock, raw, oops>>

\* A well-formed line is written to the proc file cbn_proc; any other one is
\* refused.
cbn_add_server(s) == MayCommand /\ add_server_cb(s)

\* A tenant that has a listener is refused.
ServerSearch(s) ==
    /\ oops = "none" /\ at[s] = "search"
    /\ Goto(s, IF Of(tid[s], reg) = {} THEN "register" ELSE "done")
    /\ UNCHANGED <<quiet, lst, reg, walked, mem, sock, raw, oops>>

\* register_server_sock finds no memory.
RegisterFails(s) ==
    /\ oops = "none" /\ at[s] = "register"
    /\ Goto(s, "done")
    /\ UNCHANGED <<quiet, lst, reg, walked, mem, sock, raw, oops>>

\* It has allocated the listener, its raw socket unset, and add_rb_listner
\* walks down the tree.
Register(s) ==
    /\ oops = "none" /\ at[s] = "register"
    /\ mem' = [mem EXCEPT ![s] = "live"]
    /\ walked' = [walked EXCEPT ![s] = reg]
    /\ Goto(s, "link")
    /\ UNCHANGED <<quiet, lst, reg, sock, raw, oops>>

\* add_rb_listner links the node unless the tenant has one; nobody looks at
\* what it returns.  If the tree changed during the walk the link may corrupt
\* it.
add_rb_listner(s) ==
    /\ oops = "none" /\ at[s] = "link"
    /\ walked' = [walked EXCEPT ![s] = {}]
    /\ \/ /\ reg' = IF Of(tid[s], walked[s]) = {} THEN reg \cup {s} ELSE reg
          /\ Of(tid[s], walked[s]) # {} \/ Of(tid[s], reg) = {}
          /\ Goto(s, "create")
          /\ UNCHANGED oops
       \/ /\ Of(tid[s], walked[s]) = {} /\ walked[s] # reg
          /\ oops' = "tree_race"
          /\ UNCHANGED <<at, reg>>
    /\ UNCHANGED <<quiet, lst, mem, sock, raw>>

\* sock_create_kern, and the socket is stored in the listener.
ServerSocket(s) ==
    /\ oops = "none" /\ at[s] = "create"
    /\ Use(s, /\ sock' = [sock EXCEPT ![s] = "created"]
              /\ Goto(s, "bind")
              /\ UNCHANGED <<quiet, lst, reg, walked, mem, raw, oops>>)

\* The socket is marked, bound and listens; every stage writes the status.
ServerListen(s) ==
    /\ oops = "none" /\ at[s] = "bind"
    /\ Use(s, /\ sock' = [sock EXCEPT ![s] = "listen"]
              /\ Goto(s, "probe")
              /\ UNCHANGED <<quiet, lst, reg, walked, mem, raw, oops>>)

\* craete_prec_conn_probe creates the raw socket.
ServerProbe(s) ==
    /\ oops = "none" /\ at[s] = "probe"
    /\ Use(s, /\ raw' = [raw EXCEPT ![s] = "set"]
              /\ Goto(s, "accept")
              /\ UNCHANGED <<quiet, lst, reg, walked, mem, sock, oops>>)

\* Any of the three stages fails.
ServerFails(s) ==
    /\ oops = "none" /\ at[s] \in {"create", "bind", "probe"}
    /\ Goto(s, "error")
    /\ UNCHANGED <<quiet, lst, reg, walked, mem, sock, raw, oops>>

ServerError(s) ==
    /\ oops = "none" /\ at[s] = "error"
    /\ remove_listner_server(s, s, "removed")

\* The thread ends and releases its socket.
ServerDone(s) ==
    /\ Goto(s, "done")
    /\ sock' = [sock EXCEPT ![s] = IF @ = "none" THEN @ ELSE "released"]
    /\ UNCHANGED <<quiet, lst, reg, walked, mem, raw, oops>>

\* Mutant: every way out of the accept loop removes the listener.
ServerExit_removes(s) ==
    /\ oops = "none"
    /\ at[s] = "removed" \/ (at[s] = "accept" /\ sock[s] = "shut")
    /\ IF at[s] = "removed" THEN ServerDone(s)
       ELSE Goto(s, "error") /\ UNCHANGED <<quiet, lst, reg, walked, mem, sock, raw, oops>>

\* It does so after remove_listner_server, or when kernel_accept returns from a
\* socket that was shut down.
ServerExit(s) ==
    /\ oops = "none"
    /\ at[s] = "removed" \/ (at[s] = "accept" /\ sock[s] = "shut")
    /\ ServerDone(s)

\* And when kernel_accept fails for want of memory or files: the listener stays
\* in the tree and keeps its pointer to the socket.
AcceptFails(s) ==
    /\ oops = "none" /\ at[s] = "accept" /\ sock[s] = "listen"
    /\ ServerDone(s)

\* A connection is accepted and an L task started; when the thread pool is
\* empty the connection is lost.
ServerAccept(s, k) ==
    /\ oops = "none" /\ at[s] = "accept" /\ sock[s] = "listen"
    /\ at[k] = "none" /\ (quiet => Settled)
    /\ \/ Goto(k, "join") /\ lst' = [lst EXCEPT ![k] = s]
       \/ Goto(k, "done") /\ UNCHANGED lst
    /\ UNCHANGED <<quiet, reg, walked, mem, sock, raw, oops>>

----
(* del_server_cb.                                                          *)

\* The tenant's listener is looked up, and removed if there is one.
DelSearch(d) ==
    /\ oops = "none" /\ at[d] = "none"
    /\ \/ \E s \in Of(tid[d], reg) : lst' = [lst EXCEPT ![d] = s] /\ Goto(d, "remove")
       \/ Of(tid[d], reg) = {} /\ Goto(d, "done") /\ UNCHANGED lst
    /\ UNCHANGED <<quiet, reg, walked, mem, sock, raw, oops>>

DelRemove(d) ==
    /\ oops = "none" /\ at[d] = "remove"
    /\ remove_listner_server(d, lst[d], "done")

\* The same for the proc file cbn_del.
cbn_del_server(d) == MayCommand /\ DelSearch(d)

----
(* Hooks, probes and the tasks that use a listener.                        *)

\* cbn_ingress_hook: the SYN of a tenant with a listener is copied into a probe
\* together with a pointer to the listener, and a job is started.
cbn_ingress_hook(y) ==
    /\ oops = "none" /\ at[y] = "none"
    /\ quiet => Settled
    /\ \E s \in Of(tid[y], reg) : lst' = [lst EXCEPT ![y] = s]
    /\ Goto(y, "probe")
    /\ UNCHANGED <<quiet, reg, walked, mem, sock, raw, oops>>

\* cbn_egress_hook catches the probe on its way out, before or after a tunnel
\* wrapped it, drops it and starts the R task.  Without memory or a thread of
\* the pool there is none.
cbn_egress_hook(y) == Goto(y, "syn") \/ Goto(y, "done")

\* start_probe_syn sends the probe on the listener's raw socket.
start_probe_syn(y) ==
    /\ oops = "none" /\ at[y] = "probe"
    /\ Use(lst[y], IF raw[lst[y]] = "unset"
                   THEN oops' = "raw_unset" /\ UNCHANGED <<quiet, at, lst, reg, walked, mem, sock, raw>>
                   ELSE /\ cbn_egress_hook(y)
                        /\ lst' = [lst EXCEPT ![y] = NULL]
                        /\ UNCHANGED <<quiet, reg, walked, mem, sock, raw, oops>>)

\* The R task looks the listener up again, by the mark of the probe.
SynSearch(y) ==
    /\ oops = "none" /\ at[y] = "syn"
    /\ lst' = [lst EXCEPT ![y] = IF Of(tid[y], reg) = {} THEN NULL ELSE CHOOSE s \in Of(tid[y], reg) : TRUE]
    /\ Goto(y, "join")
    /\ UNCHANGED <<quiet, reg, walked, mem, sock, raw, oops>>

\* An R or an L task goes to the listener's tree of QPs, in qp_exists and for
\* the last time in get_qp or after its time-out.
Join(a) ==
    /\ oops = "none" /\ at[a] = "join"
    /\ Use(lst[a], /\ Goto(a, "done")
                   /\ lst' = [lst EXCEPT ![a] = NULL]
                   /\ UNCHANGED <<quiet, reg, walked, mem, sock, raw, oops>>)

----
\* The steps a server thread takes by itself once it is started.
ServerMoves(s) ==
    \/ ServerSearch(s) \/ Register(s) \/ add_rb_listner(s) \/ ServerSocket(s) \/ ServerListen(s)
    \/ ServerProbe(s) \/ ServerError(s) \/ ServerExit(s)
ServerStep(s) ==
    \/ cbn_add_server(s) \/ ServerMoves(s) \/ RegisterFails(s) \/ ServerFails(s) \/ AcceptFails(s)
    \/ \E k \in Accs : ServerAccept(s, k)
DelStep(d) == cbn_del_server(d) \/ DelRemove(d)
SynStep(y) == cbn_ingress_hook(y) \/ start_probe_syn(y) \/ SynSearch(y)

Next ==
    \/ \E s \in Servers : ServerStep(s)
    \/ \E d \in Dels : DelStep(d)
    \/ \E y \in Syns : SynStep(y)
    \/ \E a \in Syns \cup Accs : Join(a)

\* A server thread that can go on does.  Nothing has to be accepted and no
\* command or packet has to come.
Spec == Init /\ [][Next]_vars /\ \A s \in Servers : WF_vars(ServerMoves(s))

----
(* Correctness.                                                            *)

\* Whatever commands race each other: the tree holds no freed listener and at
\* most one of each tenant, so that search_rb_listner has one answer.
RegistryConsistent ==
    /\ \A s \in reg : mem[s] = "live"
    /\ \A s, u \in reg : tid[s] = tid[u] => s = u

\* While commands are kept apart from each other and from traffic nobody meets
\* a listener that is missing, half set up or freed.  One hole is left: a
\* listener whose kernel_accept failed is deleted together with a socket that
\* its thread released long ago.
QuietCommandsAreSafe == quiet => oops \in {"none", "stale_sock"}

\* A server whose listener was removed ends and releases its socket.
DeletedServerEnds ==
    \A s \in Servers :
        mem[s] = "freed" ~> (at[s] = "done" /\ sock[s] \in {"none", "released"}) \/ oops # "none"
====
