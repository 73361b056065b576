---- MODULE QpPair_proofs ----
(***************************************************************************)
(* Proofs about QpPair, for any number of tasks, any keys and any          *)
(* assignment of keys to CPUs, on kernels that preempt and that do not.    *)
(***************************************************************************)
EXTENDS QpPair, TLAPS

\* strncmp tells the four-tuples that occur apart: so it is, for one, when no
\* byte of them is zero.
KeysTellApart == \A t, u \in Tasks : SameKey(key[t], key[u]) => key[t] = key[u]
NulFree == \A t \in Tasks : \A i \in 1 .. RB_KEY_LENGTH : key[t][i] # 0

\* The sockets in a QP belong to tasks of the right kind and of the QP's key.
TxOf(q) == {NULL, ERR} \cup {r \in Rs : key[r] = key[q]}
RxOf(q) == {NULL, ERR} \cup {l \in Ls : key[l] = key[q]}
QpSockets == \A q \in Tasks : tx[q] \in TxOf(q) /\ rx[q] \in RxOf(q)

\* A task that is under way has a QP,
UnderWay == Busy \cup {"connect", "wait", "half_duplex", "no_mem"}
HasQp == \A t \in Tasks : pc[t] \in UnderWay => qp[t] \in Tasks

\* and when strncmp is exact, that QP has the key of the task.
QpOfTask == \A t \in Tasks : pc[t] \in UnderWay => key[qp[t]] = key[t]

\* Only R tasks connect and only L tasks are accepted.
Kinds ==
    /\ \A t \in Tasks : pc[t] = "connect" => t \in Rs
    /\ \A t \in Tasks : pc[t] = "accepted" => t \in Ls

TInv == TypeOK /\ HasQp
KInv == QpSockets /\ QpOfTask /\ Kinds /\ KeyIsolation

----
\* strncmp compares keys without NUL bytes exactly: what add_rb_data takes for
\* the QP of a four-tuple is one.
LEMMA StrncmpExact ==
    ASSUME NEW a \in [1 .. RB_KEY_LENGTH -> 0 .. 255],
           NEW b \in [1 .. RB_KEY_LENGTH -> 0 .. 255],
           \A i \in 1 .. RB_KEY_LENGTH : a[i] # 0,
           SameKey(a, b)
    PROVE  a = b
<1>1. RB_KEY_LENGTH \in Nat
  BY QpConstants
<1>2. ASSUME NEW i \in 1 .. RB_KEY_LENGTH PROVE a[i] = b[i]
  <2>1. \A j \in 1 .. (i - 1) : j \in 1 .. RB_KEY_LENGTH
    BY <1>1
  <2> QED
    BY <2>1 DEF SameKey
<1>3. a = [i \in 1 .. RB_KEY_LENGTH |-> a[i]]
  OBVIOUS
<1>4. b = [i \in 1 .. RB_KEY_LENGTH |-> b[i]]
  OBVIOUS
<1>5. [i \in 1 .. RB_KEY_LENGTH |-> a[i]] = [i \in 1 .. RB_KEY_LENGTH |-> b[i]]
  BY <1>2
<1> QED
  BY <1>3, <1>4, <1>5

\* So four-tuples without a NUL byte are told apart.
LEMMA NulFreeKeys == NulFree => KeysTellApart
<1> SUFFICES ASSUME NulFree, NEW t \in Tasks, NEW u \in Tasks, SameKey(key[t], key[u])
             PROVE  key[t] = key[u]
  BY DEF KeysTellApart
<1>1. key[t] \in [1 .. RB_KEY_LENGTH -> 0 .. 255] /\ key[u] \in [1 .. RB_KEY_LENGTH -> 0 .. 255]
  BY QpConstants
<1>2. \A i \in 1 .. RB_KEY_LENGTH : key[t][i] # 0
  BY DEF NulFree
<1> QED
  BY <1>1, <1>2, StrncmpExact

----
(* Type correctness.                                                       *)

\* No task has started yet.
LEMMA InitTInv == Init => TInv
BY QpConstants DEF Init, TInv, TypeOK, HasQp, UnderWay, Busy, SockPtr

\* Every step keeps TInv.
LEMMA NextTInv == TInv /\ [Next]_vars => TInv'
<1> SUFFICES ASSUME TInv, [Next]_vars PROVE TInv'
  OBVIOUS
<1> USE DEF TInv, TypeOK, HasQp, UnderWay, Busy, SockPtr
<1> CASE UNCHANGED vars
  BY DEF vars, qpVars
<1> CASE Next
  <2> PICK t \in Tasks : Step(t) \/ Environment(t)
    BY DEF Next
  <2>1. CASE Accept(t)
    BY <2>1 DEF Accept, Goto, qpVars
  <2>2. CASE LSetupFails(t)
    BY <2>2 DEF LSetupFails, Goto, qpVars
  <2>3. CASE LStart(t)
    BY <2>3 DEF LStart, Goto, qpVars, add_rb_data, Found
  <2>4. CASE LDrop(t)
    BY <2>4 DEF LDrop, Goto, qpVars
  <2>5. CASE RStart(t)
    BY <2>5 DEF RStart, Goto, qpVars, add_rb_data, Found
  <2>6. CASE RDrop(t)
    BY <2>6 DEF RDrop, Goto, qpVars
  <2>7. CASE RConnect(t)
    BY <2>7 DEF RConnect, Goto, qpVars
  <2>8. CASE RLateConnect(t)
    BY <2>8 DEF RLateConnect, Goto, qpVars
  <2>9. CASE RConnectFails(t)
    BY <2>9 DEF RConnectFails, Goto, qpVars
  <2>10. CASE JoinTest(t)
    BY <2>10 DEF JoinTest, Goto, qpVars
  <2>11. CASE Adopt(t)
    BY <2>11 DEF Adopt, AdoptTo, Goto, qpVars
  <2>12. CASE ReadyTest(t)
    BY <2>12 DEF ReadyTest, Goto, qpVars
  <2>13. CASE get_qp(t)
    BY <2>13 DEF get_qp, Goto, qpVars, de_tree_qp
  <2>14. CASE WaitDone(t)
    BY <2>14 DEF WaitDone, Goto, qpVars
  <2>15. CASE WaitTimeout(t)
    BY <2>15 DEF WaitTimeout, Goto, qpVars
  <2>16. CASE TimeoutDeTree(t)
    BY <2>16 DEF TimeoutDeTree, Goto, qpVars, de_tree_qp
  <2>17. CASE TimeoutPut(t)
    BY <2>17 DEF TimeoutPut, Goto, qpVars, PutAndEnd, put_qp
  <2>18. CASE Check(t)
    BY <2>18 DEF Check, Goto, qpVars, PutAndEnd, put_qp, Mine, Peer, IS_ERR_OR_NULL
  <2>19. CASE HalfDuplexEnds(t)
    BY <2>19 DEF HalfDuplexEnds, Goto, qpVars, PutAndEnd, put_qp
  <2>20. CASE StaleAccess(t)
    BY <2>20 DEF StaleAccess, Goto, qpVars
  <2>21. CASE HalfDuplexNoMem(t)
    BY <2>21 DEF HalfDuplexNoMem, Goto, qpVars
  <2>22. CASE PeerCloses(t)
    BY <2>22 DEF PeerCloses, Goto, qpVars
  <2>23. CASE HalfDuplexSendFails(t)
    BY <2>23 DEF HalfDuplexSendFails, Goto, qpVars, PutAndEnd, put_qp
  <2> QED
    BY <2>1, <2>2, <2>3, <2>4, <2>5, <2>6, <2>7, <2>8, <2>9, <2>10, <2>11, <2>12, <2>13, <2>14, <2>15, <2>16, <2>17, <2>18, <2>19, <2>20, <2>21, <2>22, <2>23
       DEF Step, LStep, RStep, Environment
<1> QED
  OBVIOUS

\* For any tasks and keys, also on a preemptible kernel: the pointers of every
\* task and QP are what their C types say, and a task on its way through
\* wait_qp_ready and half_duplex has a QP.
THEOREM TypeCorrect == Spec => []TypeOK
<1>1. Init => TInv
  BY InitTInv
<1>2. TInv /\ [Next]_vars => TInv'
  BY NextTInv
<1>3. TInv => TypeOK
  BY DEF TInv
<1> QED
  BY <1>1, <1>2, <1>3, PTL DEF Spec

----
(* Isolation of the four-tuples.                                           *)

\* No socket is in a QP yet.
LEMMA InitKInv == Init => KInv
BY QpConstants DEF Init, KInv, QpSockets, TxOf, RxOf, QpOfTask, UnderWay, Busy, Kinds, KeyIsolation

\* Every step keeps KInv.
LEMMA NextKInv ==
    ASSUME KeysTellApart
    PROVE  TInv /\ KInv /\ [Next]_vars => KInv'
<1> SUFFICES ASSUME TInv, KInv, [Next]_vars PROVE KInv'
  OBVIOUS
<1> USE DEF UnderWay, Busy
<1>t. /\ pc \in [Tasks -> {"start", "accepted", "done"} \cup UnderWay]
      /\ qp \in [Tasks -> Tasks \cup {NULL}]
      /\ tx \in [Tasks -> SockPtr] /\ rx \in [Tasks -> SockPtr]
      /\ src \in [Tasks -> Tasks \cup {NULL}] /\ dst \in [Tasks -> Tasks \cup {NULL}]
      /\ tree \subseteq Tasks
      /\ HasQp
  BY DEF TInv, TypeOK
<1>k. QpSockets /\ QpOfTask /\ Kinds /\ KeyIsolation
  BY DEF KInv
<1>c. Ls \cap Rs = {} /\ NULL \notin Tasks /\ ERR \notin Tasks /\ NULL # ERR
  BY QpConstants
<1>f. \A t \in Tasks : \A q \in Found(t) : q \in Tasks /\ key[q] = key[t]
  BY <1>t DEF Found, KeysTellApart
<1>s. SUFFICES QpSockets' /\ QpOfTask' /\ Kinds' /\ KeyIsolation'
  BY DEF KInv
<1> HIDE DEF Busy
<1> USE DEF QpSockets, QpOfTask, Kinds, KeyIsolation, HasQp, TxOf, RxOf, Tasks
<1>1. CASE UNCHANGED vars
  BY <1>1, <1>k DEF vars, qpVars
<1>2. CASE Next
  <2> PICK t \in Tasks : Step(t) \/ Environment(t)
    BY <1>2 DEF Next
  <2>1. CASE Accept(t)
    BY <2>1, <1>t, <1>k, <1>c DEF Accept, Goto, qpVars, Busy
  <2>2. CASE LSetupFails(t)
    BY <2>2, <1>t, <1>k, <1>c DEF LSetupFails, Goto, qpVars, Busy
  <2>3. CASE LStart(t)
    BY <2>3, <1>t, <1>k, <1>c, <1>f DEF LStart, Goto, qpVars, Busy, add_rb_data
  <2>4. CASE LDrop(t)
    BY <2>4, <1>t, <1>k, <1>c DEF LDrop, Goto, qpVars, Busy
  <2>5. CASE t \in Rs /\ RStart(t)
    BY <2>5, <1>t, <1>k, <1>c, <1>f DEF RStart, Goto, qpVars, Busy, add_rb_data
  <2>6. CASE RDrop(t)
    BY <2>6, <1>t, <1>k, <1>c DEF RDrop, Goto, qpVars, Busy
  <2>7. CASE RConnect(t)
    BY <2>7, <1>t, <1>k, <1>c DEF RConnect, Goto, qpVars, Busy
  <2>8. CASE RLateConnect(t)
    BY <2>8, <1>t, <1>k, <1>c DEF RLateConnect, Goto, qpVars, Busy
  <2>9. CASE RConnectFails(t)
    BY <2>9, <1>t, <1>k, <1>c DEF RConnectFails, Goto, qpVars, Busy
  <2>10. CASE JoinTest(t)
    BY <2>10, <1>t, <1>k, <1>c DEF JoinTest, Goto, qpVars, Busy
  <2>11. CASE Adopt(t)
    BY <2>11, <1>t, <1>k, <1>c DEF Adopt, AdoptTo, Goto, qpVars, Busy
  <2>12. CASE ReadyTest(t)
    BY <2>12, <1>t, <1>k, <1>c DEF ReadyTest, Goto, qpVars, Busy
  <2>13. CASE get_qp(t)
    BY <2>13, <1>t, <1>k, <1>c DEF get_qp, Goto, qpVars, Busy, de_tree_qp
  <2>14. CASE WaitDone(t)
    BY <2>14, <1>t, <1>k, <1>c DEF WaitDone, Goto, qpVars, Busy
  <2>15. CASE WaitTimeout(t)
    BY <2>15, <1>t, <1>k, <1>c DEF WaitTimeout, Goto, qpVars, Busy
  <2>16. CASE TimeoutDeTree(t)
    BY <2>16, <1>t, <1>k, <1>c DEF TimeoutDeTree, Goto, qpVars, Busy, de_tree_qp
  <2>17. CASE TimeoutPut(t)
    BY <2>17, <1>t, <1>k, <1>c DEF TimeoutPut, Goto, qpVars, Busy, PutAndEnd
  <2>18. CASE Check(t)
    BY <2>18, <1>t, <1>k, <1>c DEF Check, Goto, qpVars, Busy, PutAndEnd, Mine, Peer, IS_ERR_OR_NULL
  <2>19. CASE HalfDuplexEnds(t)
    BY <2>19, <1>t, <1>k, <1>c DEF HalfDuplexEnds, Goto, qpVars, Busy, PutAndEnd
  <2>20. CASE StaleAccess(t)
    BY <2>20, <1>t, <1>k, <1>c DEF StaleAccess, Goto, qpVars, Busy
  <2>21. CASE HalfDuplexNoMem(t)
    BY <2>21, <1>t, <1>k, <1>c DEF HalfDuplexNoMem, Goto, qpVars, Busy
  <2>22. CASE PeerCloses(t)
    BY <2>22, <1>t, <1>k, <1>c DEF PeerCloses, Goto, qpVars, Busy
  <2>23. CASE HalfDuplexSendFails(t)
    BY <2>23, <1>t, <1>k, <1>c DEF HalfDuplexSendFails, Goto, qpVars, Busy, PutAndEnd
  <2> QED
    BY <2>1, <2>2, <2>3, <2>4, <2>5, <2>6, <2>7, <2>8, <2>9, <2>10, <2>11, <2>12, <2>13, <2>14, <2>15, <2>16, <2>17, <2>18, <2>19, <2>20, <2>21, <2>22, <2>23
       DEF Step, LStep, RStep, Environment
<1> QED
  BY <1>1, <1>2

\* What a client sends reaches the connection to the server of its own
\* four-tuple and no other, whatever the order of L and R tasks, repeated SYNs,
\* failures and time-outs, and also on a preemptible kernel, as long as strncmp
\* (rb_data_tree.h:53) tells the four-tuples apart.
THEOREM KeysIsolated ==
    ASSUME KeysTellApart
    PROVE  Spec => []KeyIsolation
<1>1. Init => TInv /\ KInv
  BY InitTInv, InitKInv
<1>2. TInv /\ KInv /\ [Next]_vars => (TInv /\ KInv)'
  BY NextTInv, NextKInv
<1>3. KInv => KeyIsolation
  BY DEF KInv
<1> QED
  BY <1>1, <1>2, <1>3, PTL DEF Spec

----
(* References and sockets, on a kernel that does not preempt.              *)

\* Where a task holds a reference to its QP, where its socket is in the QP's slot
\* of its direction, and where the QP is still linked into the tree.
Holds == {"wait", "timeout", "timeout_put", "check", "half_duplex", "no_mem"}
Attached == Holds \cup {"ready", "get_wait", "get_go"}
InTree == {"join", "adopt", "ready", "get_wait", "get_go", "timeout"}

\* One task at a time is between two sleeps on a CPU.
OneBusy == \A t, u \in Tasks : pc[t] \in Busy /\ pc[u] \in Busy /\ Cpu(t) = Cpu(u) => t = u

\* A QP in the tree or in use is the one of the task that linked it, and its
\* users run on that task's CPU.
QpOwned ==
    /\ \A q \in tree : qp[q] = q
    /\ \A t \in Tasks : pc[t] \in UnderWay => qp[qp[t]] = qp[t] /\ Cpu(qp[t]) = Cpu(t)
    /\ \A t \in Tasks : pc[t] \in {"start", "accepted", "join", "adopt"} => qp[t] # t

\* What the tasks that have not linked or found a QP yet keep in their own one.
OwnQp ==
    /\ \A t \in Ls : pc[t] \in {"accepted", "join", "adopt"} => rx[t] = t
    /\ \A t \in Rs : pc[t] \in {"join", "adopt"} => tx[t] = ERR
    /\ \A t \in Tasks : pc[t] = "start" => rx[t] = NULL
    /\ \A t \in Tasks : pc[t] = "accepted" => mem[t] = "live"
    /\ \A t \in Tasks : pc[t] \in {"start", "accepted"} => tx[t] = NULL

\* rx and tx name the task they were stored by and that task uses this QP; an R
\* task that connects has reserved tx for itself alone.  While the QP is in the
\* tree neither of its tasks has got beyond the wait.
Slots ==
    /\ \A l \in Ls : pc[l] \in Attached => rx[qp[l]] = l
    /\ \A r \in Rs : pc[r] \in Attached => tx[qp[r]] = r
    /\ \A r \in Rs : pc[r] = "connect" => tx[qp[r]] = ERR
    /\ \A r, s \in Rs : pc[r] = "connect" /\ pc[s] = "connect" /\ qp[r] = qp[s] => r = s
    /\ \A q \in Tasks : rx[q] \in Ls \cup {NULL} /\ tx[q] \in Rs \cup {NULL, ERR}
    /\ \A q \in Tasks : qp[q] = q /\ rx[q] # NULL => qp[rx[q]] = q /\ pc[rx[q]] \in Attached \cup {"done"}
    /\ \A q \in Tasks : qp[q] = q /\ tx[q] \in Rs => qp[tx[q]] = q /\ pc[tx[q]] \in Attached \cup {"done"}
    /\ \A q \in tree : /\ rx[q] # NULL => pc[rx[q]] \in InTree \cup {"wait"}
                       /\ tx[q] \in Rs => pc[tx[q]] \in InTree \cup {"wait"}

\* What each place of wait_qp_ready and half_duplex implies about the peer's
\* socket and the tree, and the sockets half_duplex was given.
Places ==
    /\ \A t \in Tasks : pc[t] \in InTree => qp[t] \in tree
    /\ \A t \in Tasks : pc[t] = "adopt" => Mine(t) = NULL
    /\ \A t \in Tasks : pc[t] \in {"get_wait", "timeout", "timeout_put"} => IS_ERR_OR_NULL(Peer(t))
    /\ \A t \in Tasks : pc[t] \in {"get_go", "check", "half_duplex", "no_mem"} => ~IS_ERR_OR_NULL(Peer(t))
    /\ \A t \in Tasks : pc[t] \in {"timeout_put", "check", "half_duplex", "no_mem"} => qp[t] \notin tree
    /\ \A t \in Tasks : pc[t] = "wait" /\ qp[t] \notin tree => ~IS_ERR_OR_NULL(Peer(t))
    /\ \A r \in Rs : pc[r] = "connect" =>
          qp[r] \in tree \/ mem[qp[r]] = "freed" \/ \E u \in Tasks : pc[u] = "timeout_put" /\ qp[u] = qp[r]
    /\ \A t \in Tasks : pc[t] = "half_duplex" => src[t] = t /\ dst[t] = Peer(t)

\* ref_cnt counts the tasks that hold a reference, at most one of each kind; a QP
\* with a holder or in the tree is alive.
LHolds(q) == \E l \in Ls : pc[l] \in Holds /\ qp[l] = q
RHolds(q) == \E r \in Rs : pc[r] \in Holds /\ qp[r] = q
Refs ==
    /\ \A q \in Tasks : ref_cnt[q] = (IF LHolds(q) THEN 1 ELSE 0) + (IF RHolds(q) THEN 1 ELSE 0)
    /\ \A t \in Tasks : pc[t] \in Holds => mem[qp[t]] = "live"
    /\ \A q \in tree : mem[q] = "live" /\ ref_cnt[q] < 2

QInv == OneBusy /\ Kinds /\ QpOwned /\ OwnQp /\ Slots /\ Places /\ Refs

\* A socket exists from accept or connect on for as long as a task uses it or has
\* a peer that holds a reference; one without either is gone.
Here == {"open", "eof", "shut"}
Socks ==
    /\ \A t \in Tasks : pc[t] \in Attached => sock[t] \in Here
    /\ \A t \in Ls : pc[t] \in {"accepted", "join", "adopt"} => sock[t] \in Here
    /\ \A t \in Tasks : pc[t] \in Holds /\ Peer(t) \in Tasks => sock[Peer(t)] \in Here
    /\ \A t \in Rs : pc[t] \in {"start", "join", "adopt", "connect"} => sock[t] = "none"
    /\ \A t \in Ls : pc[t] = "start" => sock[t] = "none"
    /\ \A t \in Tasks : pc[t] = "done" /\ sock[t] \in Here => \E u \in Tasks : pc[u] \in Holds /\ Peer(u) = t

\* What the types, the constants and the scheduler of a kernel that does not
\* preempt give to every step.
Setting ==
    /\ pc \in [Tasks -> {"start", "accepted", "done"} \cup UnderWay]
    /\ qp \in [Tasks -> Tasks \cup {NULL}]
    /\ mem \in [Tasks -> {"none", "live", "freed"}]
    /\ ref_cnt \in [Tasks -> Int]
    /\ tx \in [Tasks -> SockPtr] /\ rx \in [Tasks -> SockPtr]
    /\ sock \in [Tasks -> {"none", "open", "eof", "shut", "released"}]
    /\ src \in [Tasks -> Tasks \cup {NULL}] /\ dst \in [Tasks -> Tasks \cup {NULL}]
    /\ tree \subseteq Tasks
    /\ \A t \in Tasks : pc[t] \in UnderWay => qp[t] \in Tasks
    /\ Ls \cap Rs = {} /\ Tasks = Ls \cup Rs
    /\ NULL \notin Tasks /\ ERR \notin Tasks /\ NULL # ERR
    /\ \A t, u \in Tasks : MayRun(t) /\ u # t /\ Cpu(u) = Cpu(t) => pc[u] \notin Busy
    /\ \A t \in Tasks : \A q \in Found(t) : q \in tree /\ Cpu(q) = Cpu(t)
    /\ OneBusy /\ Kinds /\ QpOwned /\ OwnQp /\ Slots /\ Places /\ Refs

\* The setting follows from the invariants.
LEMMA StepFacts ==
    ASSUME ~Preempt, TInv, QInv
    PROVE  Setting
BY QpConstants DEF Setting, TInv, TypeOK, HasQp, UnderWay, Tasks, MayRun, Found, QInv

\* Steps that take or give back no reference leave the count right.
LEMMA RefsFrame ==
    ASSUME Setting, ref_cnt' = ref_cnt, tree' \subseteq tree,
           \A u \in Tasks : (pc'[u] \in Holds <=> pc[u] \in Holds) /\ (pc[u] \in Holds => qp'[u] = qp[u]),
           \A q \in Tasks : mem'[q] = mem[q] \/ (q \notin tree /\ \A u \in Tasks : pc[u] \in Holds => qp[u] # q)
    PROVE  Refs'
<1>1. \A q \in Tasks : (LHolds(q)' <=> LHolds(q)) /\ (RHolds(q)' <=> RHolds(q))
  BY DEF LHolds, RHolds, Setting
<1>2. \A q \in Tasks : ref_cnt'[q] = (IF LHolds(q)' THEN 1 ELSE 0) + (IF RHolds(q)' THEN 1 ELSE 0)
  BY <1>1 DEF Setting, Refs
<1>3. \A u \in Tasks : pc'[u] \in Holds => mem'[qp'[u]] = "live"
  BY DEF Setting, Refs, Holds, UnderWay, Busy
<1>4. \A q \in tree' : mem'[q] = "live" /\ ref_cnt'[q] < 2
  BY DEF Setting, Refs
<1> QED BY <1>2, <1>3, <1>4 DEF Refs

\* wait_event returns with the peer's socket only when the pair is complete and
\* has left the tree: the peer is not in the middle of get_qp.
LEMMA WaitDoneOutsideTree ==
    ASSUME ~Preempt, TInv, QInv, NEW t \in Tasks, WaitDone(t)
    PROVE  qp[t] \notin tree
<1> DEFINE q == qp[t]
           u == Peer(t)
<1>f. Setting
  BY StepFacts
<1> USE DEF Setting
<1> SUFFICES ASSUME q \in tree PROVE FALSE
  OBVIOUS
<1>1. pc[t] = "wait" /\ q \in Tasks /\ u \notin {NULL, ERR} /\ MayRun(t)
  BY <1>f DEF WaitDone, UnderWay, IS_ERR_OR_NULL
<1>2. u \in Tasks /\ (u \in Ls <=> t \in Rs) /\ qp[u] = q /\ pc[u] \in InTree \cup {"wait"}
  BY <1>f, <1>1 DEF Slots, QpOwned, Peer
<1>3. u # t /\ Cpu(u) = Cpu(t)
  BY <1>f, <1>1, <1>2 DEF QpOwned, UnderWay, InTree, Busy
<1>4. pc[u] = "wait"
  BY <1>f, <1>1, <1>2, <1>3 DEF InTree, Busy
<1>5. LHolds(q) /\ RHolds(q)
  BY <1>f, <1>1, <1>2, <1>4 DEF LHolds, RHolds, Holds
<1> QED
  BY <1>f, <1>1, <1>5 DEF Refs

\* get_qp of a task that has to wait takes the first reference, that of a task
\* whose peer is there the second one; so rb_erase meets a linked node.
LEMMA GetQpEffect ==
    ASSUME ~Preempt, TInv, QInv, NEW t \in Tasks, get_qp(t)
    PROVE  /\ qp[t] \in tree
           /\ pc' = [pc EXCEPT ![t] = IF pc[t] = "get_wait" THEN "wait" ELSE "check"]
           /\ ref_cnt' = [ref_cnt EXCEPT ![qp[t]] = IF pc[t] = "get_wait" THEN 1 ELSE 2]
           /\ tree' = IF pc[t] = "get_wait" THEN tree ELSE tree \ {qp[t]}
           /\ IF t \in Ls THEN ~LHolds(qp[t]) /\ (RHolds(qp[t]) <=> pc[t] = "get_go")
                          ELSE ~RHolds(qp[t]) /\ (LHolds(qp[t]) <=> pc[t] = "get_go")
           /\ UNCHANGED <<qp, mem, tx, rx, sock, src, dst, oops>>
<1> DEFINE q == qp[t]
           u == Peer(t)
<1>f. Setting
  BY StepFacts
<1> USE DEF Setting
<1>1. pc[t] \in {"get_wait", "get_go"} /\ q \in tree /\ MayRun(t)
  BY <1>f DEF get_qp, Places, InTree
<1>2. \A v \in Tasks : pc[v] \in Holds /\ qp[v] = q => v = u
  <2>1. \A v \in Tasks : pc[v] \in Attached /\ qp[v] = q => v = t \/ v = u
    BY <1>f, <1>1 DEF Slots, Attached, Peer
  <2> QED BY <1>1, <2>1 DEF Holds, Attached
<1>3. (t \in Ls => ~LHolds(q)) /\ (t \in Rs => ~RHolds(q))
  BY <1>f, <1>1 DEF LHolds, RHolds, Slots, Holds, Attached
<1>4. CASE pc[t] = "get_wait"
  <2>1. u \in {NULL, ERR}
    BY <1>f, <1>4 DEF Places, IS_ERR_OR_NULL
  <2>2. ~LHolds(q) /\ ~RHolds(q)
    BY <1>f, <1>2, <2>1 DEF LHolds, RHolds
  <2>3. ref_cnt[q] = 0
    BY <1>f, <1>1, <2>2 DEF Refs
  <2> QED BY <1>f, <1>1, <1>4, <2>2, <2>3 DEF get_qp, Goto
<1>5. CASE pc[t] = "get_go"
  <2>1. u \notin {NULL, ERR}
    BY <1>f, <1>5 DEF Places, IS_ERR_OR_NULL
  <2>2. u \in Tasks /\ (u \in Ls <=> t \in Rs) /\ qp[u] = q /\ pc[u] \in InTree \cup {"wait"}
    BY <1>f, <1>1, <2>1 DEF Slots, QpOwned, Peer
  <2>3. u # t /\ Cpu(u) = Cpu(t)
    BY <1>f, <1>1, <2>2 DEF QpOwned, UnderWay, InTree, Busy
  <2>4. pc[u] = "wait"
    BY <1>f, <1>1, <2>2, <2>3 DEF InTree, Busy
  <2>5. IF t \in Ls THEN ~LHolds(q) /\ RHolds(q) ELSE ~RHolds(q) /\ LHolds(q)
    BY <1>f, <1>3, <2>2, <2>4 DEF LHolds, RHolds, Holds
  <2>6. ref_cnt[q] = 1
    BY <1>f, <1>1, <2>5 DEF Refs
  <2> QED BY <1>f, <1>1, <1>5, <2>5, <2>6 DEF get_qp, Goto, de_tree_qp
<1> QED BY <1>1, <1>4, <1>5

\* put_qp of a task that timed out or has copied to the end: it holds one of the
\* references to a QP that is alive and out of the tree.
LEMMA PutEffect ==
    ASSUME ~Preempt, TInv, QInv, NEW t \in Tasks, pc[t] \in {"timeout_put", "half_duplex"}, PutAndEnd(t)
    PROVE  LET q == qp[t]
           IN  /\ q \in Tasks /\ q \notin tree /\ mem[q] = "live"
               /\ \A u \in Tasks : pc[u] \in Holds /\ qp[u] = q /\ (u \in Ls <=> t \in Ls) => u = t
               /\ pc[t] = "timeout_put" => ref_cnt[q] = 1
               /\ pc' = [pc EXCEPT ![t] = "done"]
               /\ ref_cnt' = [ref_cnt EXCEPT ![q] = @ - 1]
               /\ mem' = IF ref_cnt[q] = 1 THEN [mem EXCEPT ![q] = "freed"] ELSE mem
               /\ UNCHANGED <<qp, tx, rx, tree, src, dst, oops>>
<1> DEFINE q == qp[t]
<1>f. Setting
  BY StepFacts
<1> USE DEF Setting
<1>1. q \in Tasks /\ q \notin tree /\ mem[q] = "live"
  BY <1>f DEF Places, Refs, UnderWay, Busy, Holds
<1>2. \A u \in Tasks : pc[u] \in Holds /\ qp[u] = q /\ (u \in Ls <=> t \in Ls) => u = t
  BY <1>f DEF Slots, Attached, Holds
<1>3. ASSUME pc[t] = "timeout_put" PROVE ref_cnt[q] = 1
  <2>1. Peer(t) \in {NULL, ERR}
    BY <1>f, <1>3 DEF Places, IS_ERR_OR_NULL
  <2>2. \A u \in Tasks : pc[u] \in Holds /\ qp[u] = q => u = t
    BY <1>f, <1>2, <2>1 DEF Slots, Attached, Holds, Peer
  <2>3. IF t \in Ls THEN LHolds(q) /\ ~RHolds(q) ELSE RHolds(q) /\ ~LHolds(q)
    BY <1>f, <1>3, <2>2 DEF LHolds, RHolds, Holds
  <2> QED BY <1>f, <1>1, <2>3 DEF Refs
<1>4. /\ pc' = [pc EXCEPT ![t] = "done"]
      /\ ref_cnt' = [ref_cnt EXCEPT ![q] = @ - 1]
      /\ mem' = IF ref_cnt[q] = 1 THEN [mem EXCEPT ![q] = "freed"] ELSE mem
      /\ UNCHANGED <<qp, tx, rx, tree, src, dst, oops>>
  BY <1>f, <1>1 DEF PutAndEnd, put_qp, Goto
<1> QED BY <1>1, <1>2, <1>3, <1>4

\* put_qp leaves a count that is right for the holders that remain.
LEMMA PutRefs ==
    ASSUME ~Preempt, TInv, QInv, NEW t \in Tasks, pc[t] \in {"timeout_put", "half_duplex"}, PutAndEnd(t)
    PROVE  Refs'
<1> DEFINE q == qp[t]
<1>f. Setting
  BY StepFacts
<1> USE DEF Setting
<1>1. q \in Tasks /\ q \notin tree /\ mem[q] = "live"
  BY PutEffect
<1>2. \A u \in Tasks : pc[u] \in Holds /\ qp[u] = q /\ (u \in Ls <=> t \in Ls) => u = t
  BY PutEffect
<1>3. /\ pc' = [pc EXCEPT ![t] = "done"] /\ UNCHANGED <<qp, tree>>
      /\ ref_cnt' = [ref_cnt EXCEPT ![q] = @ - 1]
      /\ mem' = IF ref_cnt[q] = 1 THEN [mem EXCEPT ![q] = "freed"] ELSE mem
  BY PutEffect
<1>4. \A p \in Tasks : p # q => (LHolds(p)' <=> LHolds(p)) /\ (RHolds(p)' <=> RHolds(p))
  BY <1>f, <1>3 DEF LHolds, RHolds, Holds
<1>5. IF t \in Ls THEN LHolds(q) /\ ~LHolds(q)' /\ (RHolds(q)' <=> RHolds(q))
                  ELSE RHolds(q) /\ ~RHolds(q)' /\ (LHolds(q)' <=> LHolds(q))
  BY <1>f, <1>2, <1>3 DEF LHolds, RHolds, Holds
<1>6. \A p \in Tasks : ref_cnt'[p] = (IF LHolds(p)' THEN 1 ELSE 0) + (IF RHolds(p)' THEN 1 ELSE 0)
  BY <1>f, <1>1, <1>3, <1>4, <1>5 DEF Refs
<1>7. ASSUME NEW u \in Tasks, pc'[u] \in Holds PROVE mem'[qp'[u]] = "live"
  <2>1. pc[u] \in Holds /\ u # t
    BY <1>f, <1>3, <1>7 DEF Holds
  <2>2. CASE qp[u] = q
    <3>1. LHolds(q) /\ RHolds(q)
      BY <1>f, <1>2, <2>1, <2>2 DEF LHolds, RHolds, Holds
    <3>2. ref_cnt[q] = 2
      BY <1>f, <1>1, <3>1 DEF Refs
    <3> QED BY <1>1, <1>3, <2>2, <3>2
  <2>3. CASE qp[u] # q
    BY <1>f, <1>3, <2>1, <2>3 DEF Refs, UnderWay, Holds, Busy
  <2> QED BY <2>2, <2>3
<1>8. \A p \in tree : mem'[p] = "live" /\ ref_cnt'[p] < 2
  BY <1>f, <1>1, <1>3 DEF Refs
<1> QED BY <1>3, <1>6, <1>7, <1>8 DEF Refs

\* put_qp leaves the QP's tree and slots alone: who connects late finds it freed.
LEMMA PutPlaces ==
    ASSUME ~Preempt, TInv, QInv, NEW t \in Tasks, pc[t] \in {"timeout_put", "half_duplex"}, PutAndEnd(t)
    PROVE  Places'
<1>f. Setting
  BY StepFacts
<1> USE DEF Setting
<1>1. /\ qp[t] \in Tasks
      /\ pc[t] = "timeout_put" => mem' = [mem EXCEPT ![qp[t]] = "freed"]
      /\ mem' = mem \/ mem' = [mem EXCEPT ![qp[t]] = "freed"]
      /\ pc' = [pc EXCEPT ![t] = "done"]
      /\ UNCHANGED <<qp, tx, rx, tree, src, dst>>
  BY PutEffect
<1>2. ASSUME NEW r \in Rs, pc'[r] = "connect"
      PROVE  qp'[r] \in tree' \/ mem'[qp'[r]] = "freed" \/ \E u \in Tasks : pc'[u] = "timeout_put" /\ qp'[u] = qp'[r]
  <2>1. pc[r] = "connect" /\ qp[r] \in Tasks
    BY <1>f, <1>1, <1>2 DEF UnderWay
  <2>2. CASE qp[r] \in tree \/ mem[qp[r]] = "freed"
    BY <1>f, <1>1, <2>1, <2>2
  <2>3. CASE \E u \in Tasks : pc[u] = "timeout_put" /\ qp[u] = qp[r]
    BY <1>f, <1>1, <2>1, <2>3
  <2> QED BY <1>f, <2>1, <2>2, <2>3 DEF Places
<1> QED BY <1>f, <1>1, <1>2 DEF Places, InTree, Mine, Peer, IS_ERR_OR_NULL

\* put_qp shuts both sockets while the peer holds the other reference and releases
\* them when nobody does.
LEMMA PutSocks ==
    ASSUME ~Preempt, TInv, QInv, Socks, NEW t \in Tasks, pc[t] \in {"timeout_put", "half_duplex"}, PutAndEnd(t)
    PROVE  Socks'
<1> DEFINE q == qp[t]
           mine == {tx[q], rx[q]} \cap Tasks
<1>f. Setting
  BY StepFacts
<1> USE DEF Setting
<1>1. /\ q \in Tasks /\ q \notin tree
      /\ \A u \in Tasks : pc[u] \in Holds /\ qp[u] = q /\ (u \in Ls <=> t \in Ls) => u = t
      /\ pc' = [pc EXCEPT ![t] = "done"]
      /\ UNCHANGED <<qp, tx, rx>>
  BY PutEffect
<1>2. t \in mine /\ \A u \in mine : qp[u] = q /\ pc[u] \in Attached \cup {"done"}
  BY <1>f, <1>1 DEF Slots, QpOwned, UnderWay, Attached, Holds, Busy
<1>3. \A u \in mine : pc[u] \in Holds \cup {"done"}
  BY <1>f, <1>1, <1>2 DEF Places, Attached, InTree
<1>4. \A u \in Tasks : pc[u] \in Holds /\ Peer(u) \in mine => qp[u] = q
  BY <1>f, <1>2 DEF Slots, QpOwned, UnderWay, Attached, Holds, Busy, Peer
<1>5. \A u \in Tasks : Peer(u)' = Peer(u)
  BY <1>1 DEF Peer
<1>6. CASE ref_cnt[q] = 1
  <2>1. sock' = [u \in Tasks |-> IF u \in mine THEN "released" ELSE sock[u]]
    BY <1>6 DEF PutAndEnd, put_qp
  <2>2. \A u \in Tasks : pc[u] \in Holds /\ qp[u] = q => u = t
    BY <1>f, <1>1, <1>6 DEF Refs, LHolds, RHolds, Holds
  <2>3. \A u \in mine : pc'[u] = "done" /\ sock'[u] = "released"
    BY <1>f, <1>1, <1>2, <1>3, <2>1, <2>2
  <2>4. \A u \in Tasks : u \notin mine => sock'[u] = sock[u] /\ pc'[u] = pc[u]
    BY <1>f, <1>1, <1>2, <2>1
  <2>5. \A u \in Tasks : pc'[u] \in Holds => pc[u] \in Holds /\ Peer(u) \notin mine
    BY <1>f, <1>1, <1>4, <2>2 DEF Holds
  <2>6. ASSUME NEW v \in Tasks, pc'[v] = "done", sock'[v] \in Here
        PROVE  \E u \in Tasks : pc'[u] \in Holds /\ Peer(u)' = v
    <3>1. v \notin mine /\ pc[v] = "done" /\ sock[v] \in Here
      BY <2>3, <2>4, <2>6 DEF Here
    <3>2. PICK u \in Tasks : pc[u] \in Holds /\ Peer(u) = v
      BY <3>1 DEF Socks
    <3>3. u # t
      BY <1>f, <3>1, <3>2 DEF Peer
    <3> QED BY <1>f, <1>1, <1>5, <3>2, <3>3
  <2> QED BY <1>f, <1>5, <2>3, <2>4, <2>5, <2>6 DEF Socks, Attached, Holds
<1>7. CASE ref_cnt[q] # 1
  <2>1. sock' = [u \in Tasks |-> IF u \in mine THEN "shut" ELSE sock[u]]
    BY <1>7 DEF PutAndEnd, put_qp
  <2>2. PICK w \in Tasks : pc[w] \in Holds /\ qp[w] = q /\ w # t /\ (w \in Ls <=> t \in Rs)
    BY <1>f, <1>1, <1>7 DEF Refs, LHolds, RHolds, Holds
  <2>3. Peer(w) = t /\ Peer(t) = w
    BY <1>f, <2>2 DEF Peer, Slots, Attached, Holds
  <2>4. \A u \in Tasks : sock[u] \in Here => sock'[u] \in Here
    BY <2>1 DEF Here
  <2>5. \A u \in Tasks : u # t => pc'[u] = pc[u]
    BY <1>f, <1>1
  <2>6. \A u \in Tasks : u \notin mine => sock'[u] = sock[u]
    BY <2>1
  <2>7. ASSUME NEW v \in Tasks, pc'[v] = "done", sock'[v] \in Here
        PROVE  \E u \in Tasks : pc'[u] \in Holds /\ Peer(u)' = v
    <3>1. CASE v = t
      BY <1>5, <2>2, <2>3, <2>5, <3>1
    <3>2. CASE v # t
      <4>1. pc[v] = "done" /\ v # w
        BY <2>2, <2>5, <2>7, <3>2 DEF Holds
      <4>2. v \notin mine
        BY <1>f, <1>1, <2>2, <2>3, <3>2, <4>1 DEF Peer, Slots, Attached, Holds
      <4>3. PICK u \in Tasks : pc[u] \in Holds /\ Peer(u) = v
        BY <2>6, <2>7, <4>1, <4>2 DEF Socks
      <4>4. u # t
        BY <2>3, <4>1, <4>3
      <4> QED BY <1>5, <2>5, <4>3, <4>4
    <3> QED BY <3>1, <3>2
  <2>8. pc'[t] = "done"
    BY <1>f, <1>1
  <2> QED BY <1>f, <1>2, <1>5, <2>4, <2>5, <2>6, <2>7, <2>8 DEF Socks, Attached, Holds
<1> QED BY <1>6, <1>7

\* A task starts to run only when no other one of its CPU is between two sleeps.
LEMMA NextOneBusy ==
    ASSUME ~Preempt, TInv, QInv, Next
    PROVE  OneBusy'
<1> USE DEF Setting, OneBusy, UnderWay, Holds, Attached, InTree, Busy
<1>f. Setting
  BY StepFacts
<1> PICK t \in Tasks : Step(t) \/ Environment(t)
  BY DEF Next
<1>1. CASE t \in Ls /\ Accept(t)
  BY <1>1, <1>f DEF Accept, Goto, qpVars
<1>2. CASE t \in Ls /\ LSetupFails(t)
  BY <1>2, <1>f DEF LSetupFails, Goto, qpVars
<1>3. CASE t \in Ls /\ LStart(t)
  BY <1>3, <1>f DEF LStart, add_rb_data, Goto, qpVars
<1>4. CASE LDrop(t)
  BY <1>4, <1>f DEF LDrop, Goto, qpVars
<1>5. CASE t \in Rs /\ RStart(t)
  BY <1>5, <1>f DEF RStart, add_rb_data, Goto, qpVars
<1>6. CASE RDrop(t)
  BY <1>6, <1>f DEF RDrop, Goto, qpVars
<1>7. CASE t \in Rs /\ RConnect(t)
  BY <1>7, <1>f DEF RConnect, Goto, qpVars
<1>8. CASE RLateConnect(t)
  BY <1>8, <1>f DEF RLateConnect, Goto, qpVars
<1>9. CASE t \in Rs /\ RConnectFails(t)
  BY <1>9, <1>f DEF RConnectFails, Goto, qpVars
<1>10. CASE JoinTest(t)
  BY <1>10, <1>f DEF JoinTest, Goto, qpVars
<1>11. CASE Adopt(t)
  BY <1>11, <1>f DEF Adopt, AdoptTo, Goto, qpVars
<1>12. CASE ReadyTest(t)
  BY <1>12, <1>f DEF ReadyTest, Goto, qpVars
<1>13. CASE get_qp(t)
  BY <1>13, <1>f DEF get_qp, de_tree_qp, Goto, qpVars
<1>14. CASE WaitDone(t)
  BY <1>14, <1>f DEF WaitDone, Goto, qpVars
<1>15. CASE WaitTimeout(t)
  BY <1>15, <1>f DEF WaitTimeout, Goto, qpVars
<1>16. CASE TimeoutDeTree(t)
  BY <1>16, <1>f DEF TimeoutDeTree, de_tree_qp, Goto, qpVars
<1>17. CASE TimeoutPut(t)
  BY <1>17, <1>f DEF TimeoutPut, PutAndEnd, Goto, qpVars
<1>18. CASE Check(t)
  BY <1>18, <1>f DEF Check, PutAndEnd, Goto, qpVars
<1>19. CASE HalfDuplexEnds(t)
  BY <1>19, <1>f DEF HalfDuplexEnds, PutAndEnd, Goto, qpVars
<1>20. CASE StaleAccess(t)
  BY <1>20, <1>f DEF StaleAccess, Goto, qpVars
<1>21. CASE HalfDuplexNoMem(t)
  BY <1>21, <1>f DEF HalfDuplexNoMem, Goto, qpVars
<1>22. CASE PeerCloses(t)
  BY <1>22, <1>f DEF PeerCloses, Goto, qpVars
<1>23. CASE HalfDuplexSendFails(t)
  BY <1>23, <1>f DEF HalfDuplexSendFails, PutAndEnd, Goto, qpVars
<1> QED
  BY <1>1, <1>2, <1>3, <1>4, <1>5, <1>6, <1>7, <1>8, <1>9, <1>10, <1>11, <1>12, <1>13, <1>14, <1>15, <1>16, <1>17, <1>18, <1>19, <1>20, <1>21, <1>22, <1>23, <1>f DEF Step, LStep, RStep, Environment

\* L tasks stay out of the places of R tasks and the other way round.
LEMMA NextKinds ==
    ASSUME ~Preempt, TInv, QInv, Next
    PROVE  Kinds'
<1> USE DEF Setting, Kinds, UnderWay, Holds, Attached, InTree, Busy
<1>f. Setting
  BY StepFacts
<1> PICK t \in Tasks : Step(t) \/ Environment(t)
  BY DEF Next
<1>1. CASE t \in Ls /\ Accept(t)
  BY <1>1, <1>f DEF Accept, Goto, qpVars
<1>2. CASE t \in Ls /\ LSetupFails(t)
  BY <1>2, <1>f DEF LSetupFails, Goto, qpVars
<1>3. CASE t \in Ls /\ LStart(t)
  BY <1>3, <1>f DEF LStart, add_rb_data, Goto, qpVars
<1>4. CASE LDrop(t)
  BY <1>4, <1>f DEF LDrop, Goto, qpVars
<1>5. CASE t \in Rs /\ RStart(t)
  BY <1>5, <1>f DEF RStart, add_rb_data, Goto, qpVars
<1>6. CASE RDrop(t)
  BY <1>6, <1>f DEF RDrop, Goto, qpVars
<1>7. CASE t \in Rs /\ RConnect(t)
  BY <1>7, <1>f DEF RConnect, Goto, qpVars
<1>8. CASE RLateConnect(t)
  BY <1>8, <1>f DEF RLateConnect, Goto, qpVars
<1>9. CASE t \in Rs /\ RConnectFails(t)
  BY <1>9, <1>f DEF RConnectFails, Goto, qpVars
<1>10. CASE JoinTest(t)
  BY <1>10, <1>f DEF JoinTest, Goto, qpVars
<1>11. CASE Adopt(t)
  BY <1>11, <1>f DEF Adopt, AdoptTo, Goto, qpVars
<1>12. CASE ReadyTest(t)
  BY <1>12, <1>f DEF ReadyTest, Goto, qpVars
<1>13. CASE get_qp(t)
  BY <1>13, <1>f DEF get_qp, de_tree_qp, Goto, qpVars
<1>14. CASE WaitDone(t)
  BY <1>14, <1>f DEF WaitDone, Goto, qpVars
<1>15. CASE WaitTimeout(t)
  BY <1>15, <1>f DEF WaitTimeout, Goto, qpVars
<1>16. CASE TimeoutDeTree(t)
  BY <1>16, <1>f DEF TimeoutDeTree, de_tree_qp, Goto, qpVars
<1>17. CASE TimeoutPut(t)
  BY <1>17, <1>f DEF TimeoutPut, PutAndEnd, Goto, qpVars
<1>18. CASE Check(t)
  BY <1>18, <1>f DEF Check, PutAndEnd, Goto, qpVars
<1>19. CASE HalfDuplexEnds(t)
  BY <1>19, <1>f DEF HalfDuplexEnds, PutAndEnd, Goto, qpVars
<1>20. CASE StaleAccess(t)
  BY <1>20, <1>f DEF StaleAccess, Goto, qpVars
<1>21. CASE HalfDuplexNoMem(t)
  BY <1>21, <1>f DEF HalfDuplexNoMem, Goto, qpVars
<1>22. CASE PeerCloses(t)
  BY <1>22, <1>f DEF PeerCloses, Goto, qpVars
<1>23. CASE HalfDuplexSendFails(t)
  BY <1>23, <1>f DEF HalfDuplexSendFails, PutAndEnd, Goto, qpVars
<1> QED
  BY <1>1, <1>2, <1>3, <1>4, <1>5, <1>6, <1>7, <1>8, <1>9, <1>10, <1>11, <1>12, <1>13, <1>14, <1>15, <1>16, <1>17, <1>18, <1>19, <1>20, <1>21, <1>22, <1>23, <1>f DEF Step, LStep, RStep, Environment

\* A task uses its own QP, once linked, or one it found in the tree of its CPU.
LEMMA NextQpOwned ==
    ASSUME ~Preempt, TInv, QInv, Next
    PROVE  QpOwned'
<1> USE DEF Setting, QpOwned, UnderWay, Holds, Attached, InTree, Busy
<1>f. Setting
  BY StepFacts
<1> PICK t \in Tasks : Step(t) \/ Environment(t)
  BY DEF Next
<1>1. CASE t \in Ls /\ Accept(t)
  BY <1>1, <1>f DEF Accept, Goto, qpVars, Mine, Peer, IS_ERR_OR_NULL, Live, LHolds, RHolds
<1>2. CASE t \in Ls /\ LSetupFails(t)
  BY <1>2, <1>f DEF LSetupFails, Goto, qpVars, Mine, Peer, IS_ERR_OR_NULL, Live, LHolds, RHolds
<1>3. CASE t \in Ls /\ LStart(t)
  BY <1>3, <1>f DEF LStart, add_rb_data, Goto, qpVars, Mine, Peer, IS_ERR_OR_NULL, Live, LHolds, RHolds
<1>4. CASE LDrop(t)
  BY <1>4, <1>f DEF LDrop, Goto, qpVars, Mine, Peer, IS_ERR_OR_NULL, Live, LHolds, RHolds
<1>5. CASE t \in Rs /\ RStart(t)
  BY <1>5, <1>f DEF RStart, add_rb_data, Goto, qpVars, Mine, Peer, IS_ERR_OR_NULL, Live, LHolds, RHolds
<1>6. CASE RDrop(t)
  BY <1>6, <1>f DEF RDrop, Goto, qpVars, Mine, Peer, IS_ERR_OR_NULL, Live, LHolds, RHolds
<1>7. CASE t \in Rs /\ RConnect(t)
  BY <1>7, <1>f DEF RConnect, Goto, qpVars, Mine, Peer, IS_ERR_OR_NULL, Live, LHolds, RHolds
<1>8. CASE RLateConnect(t)
  BY <1>8, <1>f DEF RLateConnect, Goto, qpVars, Mine, Peer, IS_ERR_OR_NULL, Live, LHolds, RHolds
<1>9. CASE t \in Rs /\ RConnectFails(t)
  BY <1>9, <1>f DEF RConnectFails, Goto, qpVars, Mine, Peer, IS_ERR_OR_NULL, Live, LHolds, RHolds
<1>10. CASE JoinTest(t)
  BY <1>10, <1>f DEF JoinTest, Goto, qpVars, Mine, Peer, IS_ERR_OR_NULL, Live, LHolds, RHolds
<1>11. CASE Adopt(t)
  BY <1>11, <1>f DEF Adopt, AdoptTo, Goto, qpVars, Mine, Peer, IS_ERR_OR_NULL, Live, LHolds, RHolds
<1>12. CASE ReadyTest(t)
  BY <1>12, <1>f DEF ReadyTest, Goto, qpVars, Mine, Peer, IS_ERR_OR_NULL, Live, LHolds, RHolds
<1>13. CASE get_qp(t)
  BY <1>13, <1>f DEF get_qp, de_tree_qp, Goto, qpVars, Mine, Peer, IS_ERR_OR_NULL, Live, LHolds, RHolds
<1>14. CASE WaitDone(t)
  BY <1>14, <1>f DEF WaitDone, Goto, qpVars, Mine, Peer, IS_ERR_OR_NULL, Live, LHolds, RHolds
<1>15. CASE WaitTimeout(t)
  BY <1>15, <1>f DEF WaitTimeout, Goto, qpVars, Mine, Peer, IS_ERR_OR_NULL, Live, LHolds, RHolds
<1>16. CASE TimeoutDeTree(t)
  BY <1>16, <1>f DEF TimeoutDeTree, de_tree_qp, Goto, qpVars, Mine, Peer, IS_ERR_OR_NULL, Live, LHolds, RHolds
<1>17. CASE TimeoutPut(t)
  BY <1>17, <1>f DEF TimeoutPut, PutAndEnd, put_qp, Goto, qpVars, Mine, Peer, IS_ERR_OR_NULL, Live, LHolds, RHolds
<1>18. CASE Check(t)
  BY <1>18, <1>f DEF Check, PutAndEnd, put_qp, Goto, qpVars, Mine, Peer, IS_ERR_OR_NULL, Live, LHolds, RHolds
<1>19. CASE HalfDuplexEnds(t)
  BY <1>19, <1>f DEF HalfDuplexEnds, PutAndEnd, put_qp, Goto, qpVars, Mine, Peer, IS_ERR_OR_NULL, Live, LHolds, RHolds
<1>20. CASE StaleAccess(t)
  BY <1>20, <1>f DEF StaleAccess, Goto, qpVars, Mine, Peer, IS_ERR_OR_NULL, Live, LHolds, RHolds
<1>21. CASE HalfDuplexNoMem(t)
  BY <1>21, <1>f DEF HalfDuplexNoMem, Goto, qpVars, Mine, Peer, IS_ERR_OR_NULL, Live, LHolds, RHolds
<1>22. CASE PeerCloses(t)
  BY <1>22, <1>f DEF PeerCloses, Goto, qpVars, Mine, Peer, IS_ERR_OR_NULL, Live, LHolds, RHolds
<1>23. CASE HalfDuplexSendFails(t)
  BY <1>23, <1>f DEF HalfDuplexSendFails, PutAndEnd, put_qp, Goto, qpVars, Mine, Peer, IS_ERR_OR_NULL, Live, LHolds, RHolds
<1> QED
  BY <1>1, <1>2, <1>3, <1>4, <1>5, <1>6, <1>7, <1>8, <1>9, <1>10, <1>11, <1>12, <1>13, <1>14, <1>15, <1>16, <1>17, <1>18, <1>19, <1>20, <1>21, <1>22, <1>23, <1>f DEF Step, LStep, RStep, Environment

\* Nobody touches a QP that is not linked but the task that allocated it.
LEMMA NextOwnQp ==
    ASSUME ~Preempt, TInv, QInv, Next
    PROVE  OwnQp'
<1> USE DEF Setting, QpOwned, OwnQp, Kinds, UnderWay, Holds, Attached, InTree, Busy
<1>f. Setting
  BY StepFacts
<1> PICK t \in Tasks : Step(t) \/ Environment(t)
  BY DEF Next
<1>1. CASE t \in Ls /\ Accept(t)
  BY <1>1, <1>f DEF Accept, Goto, qpVars, Mine, Peer, IS_ERR_OR_NULL, Live, LHolds, RHolds
<1>2. CASE t \in Ls /\ LSetupFails(t)
  BY <1>2, <1>f DEF LSetupFails, Goto, qpVars, Mine, Peer, IS_ERR_OR_NULL, Live, LHolds, RHolds
<1>3. CASE t \in Ls /\ LStart(t)
  BY <1>3, <1>f DEF LStart, add_rb_data, Goto, qpVars, Mine, Peer, IS_ERR_OR_NULL, Live, LHolds, RHolds
<1>4. CASE LDrop(t)
  BY <1>4, <1>f DEF LDrop, Goto, qpVars, Mine, Peer, IS_ERR_OR_NULL, Live, LHolds, RHolds
<1>5. CASE t \in Rs /\ RStart(t)
  BY <1>5, <1>f DEF RStart, add_rb_data, Goto, qpVars, Mine, Peer, IS_ERR_OR_NULL, Live, LHolds, RHolds
<1>6. CASE RDrop(t)
  BY <1>6, <1>f DEF RDrop, Goto, qpVars, Mine, Peer, IS_ERR_OR_NULL, Live, LHolds, RHolds
<1>7. CASE t \in Rs /\ RConnect(t)
  BY <1>7, <1>f DEF RConnect, Goto, qpVars, Mine, Peer, IS_ERR_OR_NULL, Live, LHolds, RHolds
<1>8. CASE RLateConnect(t)
  BY <1>8, <1>f DEF RLateConnect, Goto, qpVars, Mine, Peer, IS_ERR_OR_NULL, Live, LHolds, RHolds
<1>9. CASE t \in Rs /\ RConnectFails(t)
  BY <1>9, <1>f DEF RConnectFails, Goto, qpVars, Mine, Peer, IS_ERR_OR_NULL, Live, LHolds, RHolds
<1>10. CASE JoinTest(t)
  BY <1>10, <1>f DEF JoinTest, Goto, qpVars, Mine, Peer, IS_ERR_OR_NULL, Live, LHolds, RHolds
<1>11. CASE Adopt(t)
  BY <1>11, <1>f DEF Adopt, AdoptTo, Goto, qpVars, Mine, Peer, IS_ERR_OR_NULL, Live, LHolds, RHolds
<1>12. CASE ReadyTest(t)
  BY <1>12, <1>f DEF ReadyTest, Goto, qpVars, Mine, Peer, IS_ERR_OR_NULL, Live, LHolds, RHolds
<1>13. CASE get_qp(t)
  BY <1>13, <1>f DEF get_qp, de_tree_qp, Goto, qpVars, Mine, Peer, IS_ERR_OR_NULL, Live, LHolds, RHolds
<1>14. CASE WaitDone(t)
  BY <1>14, <1>f DEF WaitDone, Goto, qpVars, Mine, Peer, IS_ERR_OR_NULL, Live, LHolds, RHolds
<1>15. CASE WaitTimeout(t)
  BY <1>15, <1>f DEF WaitTimeout, Goto, qpVars, Mine, Peer, IS_ERR_OR_NULL, Live, LHolds, RHolds
<1>16. CASE TimeoutDeTree(t)
  BY <1>16, <1>f DEF TimeoutDeTree, de_tree_qp, Goto, qpVars, Mine, Peer, IS_ERR_OR_NULL, Live, LHolds, RHolds
<1>17. CASE TimeoutPut(t)
  BY <1>17, <1>f DEF TimeoutPut, PutAndEnd, put_qp, Goto, qpVars, Mine, Peer, IS_ERR_OR_NULL, Live, LHolds, RHolds
<1>18. CASE Check(t)
  BY <1>18, <1>f DEF Check, PutAndEnd, put_qp, Goto, qpVars, Mine, Peer, IS_ERR_OR_NULL, Live, LHolds, RHolds
<1>19. CASE HalfDuplexEnds(t)
  BY <1>19, <1>f DEF HalfDuplexEnds, PutAndEnd, put_qp, Goto, qpVars, Mine, Peer, IS_ERR_OR_NULL, Live, LHolds, RHolds
<1>20. CASE StaleAccess(t)
  BY <1>20, <1>f DEF StaleAccess, Goto, qpVars, Mine, Peer, IS_ERR_OR_NULL, Live, LHolds, RHolds
<1>21. CASE HalfDuplexNoMem(t)
  BY <1>21, <1>f DEF HalfDuplexNoMem, Goto, qpVars, Mine, Peer, IS_ERR_OR_NULL, Live, LHolds, RHolds
<1>22. CASE PeerCloses(t)
  BY <1>22, <1>f DEF PeerCloses, Goto, qpVars, Mine, Peer, IS_ERR_OR_NULL, Live, LHolds, RHolds
<1>23. CASE HalfDuplexSendFails(t)
  BY <1>23, <1>f DEF HalfDuplexSendFails, PutAndEnd, put_qp, Goto, qpVars, Mine, Peer, IS_ERR_OR_NULL, Live, LHolds, RHolds
<1> QED
  BY <1>1, <1>2, <1>3, <1>4, <1>5, <1>6, <1>7, <1>8, <1>9, <1>10, <1>11, <1>12, <1>13, <1>14, <1>15, <1>16, <1>17, <1>18, <1>19, <1>20, <1>21, <1>22, <1>23, <1>f DEF Step, LStep, RStep, Environment

\* add_rb_data, Adopt and RConnect keep the slots of a QP and its tasks in step.
LEMMA NextSlots ==
    ASSUME ~Preempt, TInv, QInv, Next
    PROVE  Slots'
<1> USE DEF Setting, Kinds, QpOwned, OwnQp, Slots, Places, UnderWay, Holds, Attached, InTree, Busy
<1>f. Setting
  BY StepFacts
<1> PICK t \in Tasks : Step(t) \/ Environment(t)
  BY DEF Next
<1>1. CASE t \in Ls /\ Accept(t)
  BY <1>1, <1>f DEF Accept, Goto, qpVars, Mine, Peer, IS_ERR_OR_NULL, Live, LHolds, RHolds
<1>2. CASE t \in Ls /\ LSetupFails(t)
  BY <1>2, <1>f DEF LSetupFails, Goto, qpVars, Mine, Peer, IS_ERR_OR_NULL, Live, LHolds, RHolds
<1>3. CASE t \in Ls /\ LStart(t)
  <2>1. CASE tree' = tree \cup {t} /\ qp' = [qp EXCEPT ![t] = t] /\ Goto(t, "ready")
    BY <1>3, <2>1, <1>f DEF LStart, Goto, qpVars, Mine, Peer, IS_ERR_OR_NULL, Live, LHolds, RHolds
  <2>2. CASE \E q \in Found(t) : qp' = [qp EXCEPT ![t] = q] /\ Goto(t, "join") /\ tree' = tree
    BY <1>3, <2>2, <1>f DEF LStart, Goto, qpVars, Mine, Peer, IS_ERR_OR_NULL, Live, LHolds, RHolds
  <2> QED
    BY <1>3, <2>1, <2>2 DEF LStart, add_rb_data
<1>4. CASE LDrop(t)
  BY <1>4, <1>f DEF LDrop, Goto, qpVars, Mine, Peer, IS_ERR_OR_NULL, Live, LHolds, RHolds
<1>5. CASE t \in Rs /\ RStart(t)
  <2>1. CASE tree' = tree \cup {t} /\ qp' = [qp EXCEPT ![t] = t] /\ Goto(t, "connect")
    BY <1>5, <2>1, <1>f DEF RStart, Goto, qpVars, Mine, Peer, IS_ERR_OR_NULL, Live, LHolds, RHolds
  <2>2. CASE \E q \in Found(t) : qp' = [qp EXCEPT ![t] = q] /\ Goto(t, "join") /\ tree' = tree
    BY <1>5, <2>2, <1>f DEF RStart, Goto, qpVars, Mine, Peer, IS_ERR_OR_NULL, Live, LHolds, RHolds
  <2> QED
    BY <1>5, <2>1, <2>2 DEF RStart, add_rb_data
<1>6. CASE RDrop(t)
  BY <1>6, <1>f DEF RDrop, Goto, qpVars, Mine, Peer, IS_ERR_OR_NULL, Live, LHolds, RHolds
<1>7. CASE t \in Rs /\ RConnect(t)
  BY <1>7, <1>f DEF RConnect, Goto, qpVars, Mine, Peer, IS_ERR_OR_NULL, Live, LHolds, RHolds
<1>8. CASE RLateConnect(t)
  BY <1>8, <1>f DEF RLateConnect, Goto, qpVars, Mine, Peer, IS_ERR_OR_NULL, Live, LHolds, RHolds
<1>9. CASE t \in Rs /\ RConnectFails(t)
  BY <1>9, <1>f DEF RConnectFails, Goto, qpVars, Mine, Peer, IS_ERR_OR_NULL, Live, LHolds, RHolds
<1>10. CASE JoinTest(t)
  BY <1>10, <1>f DEF JoinTest, Goto, qpVars, Mine, Peer, IS_ERR_OR_NULL, Live, LHolds, RHolds
<1>11. CASE Adopt(t)
  <2>1. CASE t \in Ls
    BY <1>11, <2>1, <1>f DEF Adopt, AdoptTo, Goto, qpVars, Mine, Peer, IS_ERR_OR_NULL, Live, LHolds, RHolds
  <2>2. CASE t \in Rs
    BY <1>11, <2>2, <1>f, SMTT(30) DEF Adopt, AdoptTo, Goto, qpVars, Mine, Peer, IS_ERR_OR_NULL, Live, LHolds, RHolds
  <2> QED
    BY <2>1, <2>2, <1>f
<1>12. CASE ReadyTest(t)
  BY <1>12, <1>f DEF ReadyTest, Goto, qpVars, Mine, Peer, IS_ERR_OR_NULL, Live, LHolds, RHolds
<1>13. CASE get_qp(t)
  <2>1. /\ qp[t] \in tree /\ pc[t] \in {"get_wait", "get_go"}
        /\ pc' = [pc EXCEPT ![t] = IF pc[t] = "get_wait" THEN "wait" ELSE "check"]
        /\ tree' = IF pc[t] = "get_wait" THEN tree ELSE tree \ {qp[t]}
        /\ UNCHANGED <<qp, mem, tx, rx>>
    BY <1>13, GetQpEffect DEF get_qp
  <2>2. CASE pc[t] = "get_wait"
    BY <1>f, <2>1, <2>2
  <2>3. CASE pc[t] = "get_go"
    BY <1>f, <2>1, <2>3
  <2> QED BY <2>1, <2>2, <2>3
<1>14. CASE WaitDone(t)
  <2>1. /\ pc[t] = "wait" /\ qp[t] \notin tree
        /\ pc' = [pc EXCEPT ![t] = "check"]
        /\ UNCHANGED <<qp, mem, tx, rx, tree>>
    BY <1>14, WaitDoneOutsideTree DEF WaitDone, Goto, qpVars
  <2> QED
    BY <1>f, <2>1
<1>15. CASE WaitTimeout(t)
  BY <1>15, <1>f DEF WaitTimeout, Goto, qpVars, Mine, Peer, IS_ERR_OR_NULL, Live, LHolds, RHolds
<1>16. CASE TimeoutDeTree(t)
  BY <1>16, <1>f DEF TimeoutDeTree, de_tree_qp, Goto, qpVars, Mine, Peer, IS_ERR_OR_NULL, Live, LHolds, RHolds
<1>17. CASE TimeoutPut(t)
  BY <1>17, <1>f DEF TimeoutPut, PutAndEnd, put_qp, Goto, qpVars, Mine, Peer, IS_ERR_OR_NULL, Live, LHolds, RHolds
<1>18. CASE Check(t)
  BY <1>18, <1>f DEF Check, PutAndEnd, put_qp, Goto, qpVars, Mine, Peer, IS_ERR_OR_NULL, Live, LHolds, RHolds
<1>19. CASE HalfDuplexEnds(t)
  BY <1>19, <1>f, SMTT(30) DEF HalfDuplexEnds, PutAndEnd, put_qp, Goto, qpVars, Mine, Peer, IS_ERR_OR_NULL, Live, LHolds, RHolds
<1>20. CASE StaleAccess(t)
  BY <1>20, <1>f DEF StaleAccess, Goto, qpVars, Mine, Peer, IS_ERR_OR_NULL, Live, LHolds, RHolds
<1>21. CASE HalfDuplexNoMem(t)
  BY <1>21, <1>f DEF HalfDuplexNoMem, Goto, qpVars, Mine, Peer, IS_ERR_OR_NULL, Live, LHolds, RHolds
<1>22. CASE PeerCloses(t)
  BY <1>22, <1>f DEF PeerCloses, Goto, qpVars, Mine, Peer, IS_ERR_OR_NULL, Live, LHolds, RHolds
<1>23. CASE HalfDuplexSendFails(t)
  BY <1>23, <1>f DEF HalfDuplexSendFails, PutAndEnd, put_qp, Goto, qpVars, Mine, Peer, IS_ERR_OR_NULL, Live, LHolds, RHolds
<1> QED
  BY <1>1, <1>2, <1>3, <1>4, <1>5, <1>6, <1>7, <1>8, <1>9, <1>10, <1>11, <1>12, <1>13, <1>14, <1>15, <1>16, <1>17, <1>18, <1>19, <1>20, <1>21, <1>22, <1>23, <1>f DEF Step, LStep, RStep, Environment

\* The peer's socket appears and the QP leaves the tree as wait_qp_ready expects.
LEMMA NextPlaces ==
    ASSUME ~Preempt, TInv, QInv, Next
    PROVE  Places'
<1> USE DEF Setting, OneBusy, Kinds, QpOwned, OwnQp, Slots, Places, Refs, UnderWay, Holds, Attached, InTree, Busy
<1>f. Setting
  BY StepFacts
<1> PICK t \in Tasks : Step(t) \/ Environment(t)
  BY DEF Next
<1>1. CASE t \in Ls /\ Accept(t)
  BY <1>1, <1>f DEF Accept, Goto, qpVars, Mine, Peer, IS_ERR_OR_NULL, Live, LHolds, RHolds
<1>2. CASE t \in Ls /\ LSetupFails(t)
  BY <1>2, <1>f DEF LSetupFails, Goto, qpVars, Mine, Peer, IS_ERR_OR_NULL, Live, LHolds, RHolds
<1>3. CASE t \in Ls /\ LStart(t)
  <2>1. CASE tree' = tree \cup {t} /\ qp' = [qp EXCEPT ![t] = t] /\ Goto(t, "ready")
    BY <1>3, <2>1, <1>f DEF LStart, Goto, qpVars, Mine, Peer, IS_ERR_OR_NULL, Live, LHolds, RHolds
  <2>2. CASE \E q \in Found(t) : qp' = [qp EXCEPT ![t] = q] /\ Goto(t, "join") /\ tree' = tree
    BY <1>3, <2>2, <1>f DEF LStart, Goto, qpVars, Mine, Peer, IS_ERR_OR_NULL, Live, LHolds, RHolds
  <2> QED
    BY <1>3, <2>1, <2>2 DEF LStart, add_rb_data
<1>4. CASE LDrop(t)
  BY <1>4, <1>f DEF LDrop, Goto, qpVars, Mine, Peer, IS_ERR_OR_NULL, Live, LHolds, RHolds
<1>5. CASE t \in Rs /\ RStart(t)
  <2>1. CASE tree' = tree \cup {t} /\ qp' = [qp EXCEPT ![t] = t] /\ Goto(t, "connect")
    BY <1>5, <2>1, <1>f DEF RStart, Goto, qpVars, Mine, Peer, IS_ERR_OR_NULL, Live, LHolds, RHolds
  <2>2. CASE \E q \in Found(t) : qp' = [qp EXCEPT ![t] = q] /\ Goto(t, "join") /\ tree' = tree
    BY <1>5, <2>2, <1>f DEF RStart, Goto, qpVars, Mine, Peer, IS_ERR_OR_NULL, Live, LHolds, RHolds
  <2> QED
    BY <1>5, <2>1, <2>2 DEF RStart, add_rb_data
<1>6. CASE RDrop(t)
  BY <1>6, <1>f DEF RDrop, Goto, qpVars, Mine, Peer, IS_ERR_OR_NULL, Live, LHolds, RHolds
<1>7. CASE t \in Rs /\ RConnect(t)
  <2>1. tx[qp[t]] = ERR /\ qp[t] \in Tasks /\ t \notin Ls
    BY <1>7, <1>f DEF RConnect
  <2>2. \A u \in Tasks : u # t /\ pc[u] \in UnderWay /\ qp[u] = qp[t] => u \in Ls /\ pc[u] \in {"wait"}
    BY <1>7, <1>f, <2>1 DEF RConnect, Peer, IS_ERR_OR_NULL
  <2>3. \A u \in Tasks : /\ pc[u] \in UnderWay /\ qp[u] # qp[t] => tx'[qp[u]] = tx[qp[u]] /\ rx'[qp[u]] = rx[qp[u]]
                         /\ u # t => pc'[u] = pc[u]
    BY <1>7, <1>f, <2>1 DEF RConnect, Goto
  <2>4. tx'[qp[t]] = t /\ pc'[t] = "ready" /\ UNCHANGED <<qp, rx, tree, src, dst>>
    BY <1>7, <1>f, <2>1 DEF RConnect, Goto
  <2>5. qp[t] \in tree
    BY <1>7, <1>f, <2>1 DEF RConnect, Live
  <2>6. \A u \in Tasks : pc'[u] \in UnderWay =>
          \/ u = t /\ pc'[u] = "ready" /\ qp'[u] \in tree'
          \/ u # t /\ qp[u] = qp[t] /\ pc'[u] = "wait" /\ pc[u] = "wait" /\ qp'[u] \in tree'
          \/ u # t /\ qp[u] # qp[t] /\ pc'[u] = pc[u] /\ Mine(u)' = Mine(u) /\ Peer(u)' = Peer(u)
    BY <1>f, <2>2, <2>3, <2>4, <2>5 DEF Mine, Peer
  <2>7. mem' = mem
    BY <1>7 DEF RConnect
  <2>8. \A r \in Rs : pc'[r] = "connect" =>
          qp'[r] \in tree' \/ mem'[qp'[r]] = "freed" \/ \E u \in Tasks : pc'[u] = "timeout_put" /\ qp'[u] = qp'[r]
    <3> SUFFICES ASSUME NEW r \in Rs, pc'[r] = "connect", qp'[r] \notin tree', mem'[qp'[r]] # "freed"
                 PROVE  \E u \in Tasks : pc'[u] = "timeout_put" /\ qp'[u] = qp'[r]
      OBVIOUS
    <3>1. r \in Tasks /\ r # t /\ pc[r] = "connect"
      BY <1>f, <2>3, <2>4
    <3>2. PICK u \in Tasks : pc[u] = "timeout_put" /\ qp[u] = qp[r]
      BY <1>f, <2>4, <2>7, <3>1
    <3> QED BY <1>7, <2>3, <2>4, <3>2 DEF RConnect
  <2>9. /\ \A u \in Tasks : pc'[u] \in InTree => qp'[u] \in tree'
        /\ \A u \in Tasks : pc'[u] = "adopt" => Mine(u)' = NULL
        /\ \A u \in Tasks : pc'[u] \in {"get_wait", "timeout", "timeout_put"} => IS_ERR_OR_NULL(Peer(u))'
        /\ \A u \in Tasks : pc'[u] \in {"get_go", "check", "half_duplex", "no_mem"} => ~IS_ERR_OR_NULL(Peer(u))'
        /\ \A u \in Tasks : pc'[u] \in {"timeout_put", "check", "half_duplex", "no_mem"} => qp'[u] \notin tree'
    BY <1>f, <2>4, <2>6 DEF IS_ERR_OR_NULL
  <2>10. /\ \A u \in Tasks : pc'[u] = "wait" /\ qp'[u] \notin tree' => ~IS_ERR_OR_NULL(Peer(u))'
         /\ \A u \in Tasks : pc'[u] = "half_duplex" => src'[u] = u /\ dst'[u] = Peer(u)'
    BY <1>f, <2>4, <2>6 DEF IS_ERR_OR_NULL
  <2> QED
    BY <2>8, <2>9, <2>10
<1>8. CASE RLateConnect(t)
  BY <1>8, <1>f DEF RLateConnect, Goto, qpVars, Mine, Peer, IS_ERR_OR_NULL, Live, LHolds, RHolds
<1>9. CASE t \in Rs /\ RConnectFails(t)
  BY <1>9, <1>f DEF RConnectFails, Goto, qpVars, Mine, Peer, IS_ERR_OR_NULL, Live, LHolds, RHolds
<1>10. CASE JoinTest(t)
  BY <1>10, <1>f DEF JoinTest, Goto, qpVars, Mine, Peer, IS_ERR_OR_NULL, Live, LHolds, RHolds
<1>11. CASE Adopt(t)
  BY <1>11, <1>f DEF Adopt, AdoptTo, Goto, qpVars, Mine, Peer, IS_ERR_OR_NULL, Live, LHolds, RHolds
<1>12. CASE ReadyTest(t)
  BY <1>12, <1>f DEF ReadyTest, Goto, qpVars, Mine, Peer, IS_ERR_OR_NULL, Live, LHolds, RHolds
<1>13. CASE get_qp(t)
  <2>1. /\ qp[t] \in tree /\ pc[t] \in {"get_wait", "get_go"}
        /\ pc' = [pc EXCEPT ![t] = IF pc[t] = "get_wait" THEN "wait" ELSE "check"]
        /\ tree' = IF pc[t] = "get_wait" THEN tree ELSE tree \ {qp[t]}
        /\ UNCHANGED <<qp, mem, tx, rx, src, dst>>
    BY <1>13, GetQpEffect DEF get_qp
  <2>2. \A u \in Tasks : u # t /\ pc[u] \in UnderWay /\ qp[u] = qp[t] => pc[u] \notin Busy
    BY <1>13, <1>f DEF get_qp
  <2>3. CASE pc[t] = "get_wait"
    BY <1>f, <2>1, <2>3 DEF Mine, Peer
  <2>4. CASE pc[t] = "get_go"
    BY <1>f, <2>1, <2>2, <2>4 DEF Mine, Peer, IS_ERR_OR_NULL
  <2> QED BY <2>1, <2>3, <2>4
<1>14. CASE WaitDone(t)
  BY <1>14, <1>f, SMTT(30), WaitDoneOutsideTree DEF WaitDone, Goto, qpVars, Mine, Peer, IS_ERR_OR_NULL, Live, LHolds, RHolds
<1>15. CASE WaitTimeout(t)
  BY <1>15, <1>f DEF WaitTimeout, Goto, qpVars, Mine, Peer, IS_ERR_OR_NULL, Live, LHolds, RHolds
<1>16. CASE TimeoutDeTree(t)
  BY <1>16, <1>f DEF TimeoutDeTree, de_tree_qp, Goto, qpVars, Mine, Peer, IS_ERR_OR_NULL, Live, LHolds, RHolds
<1>17. CASE TimeoutPut(t)
  <2>1. CASE PutAndEnd(t)
    BY <1>17, <2>1, <1>f, PutPlaces DEF TimeoutPut, Busy
  <2>2. CASE UNCHANGED <<pc, qp, qpVars, src, dst>>
    BY <2>2, <1>f DEF Goto, qpVars, Mine, Peer, IS_ERR_OR_NULL, Live, LHolds, RHolds
  <2> QED
    BY <1>17, <2>1, <2>2 DEF TimeoutPut, qpVars
<1>18. CASE Check(t)
  <2>1. ~IS_ERR_OR_NULL(tx[qp[t]]) /\ ~IS_ERR_OR_NULL(rx[qp[t]]) /\ Mine(t) = t /\ qp[t] \in Tasks
    BY <1>18, <1>f DEF Check, Mine, Peer, IS_ERR_OR_NULL
  <2>2. /\ pc[t] = "check" /\ pc' = [pc EXCEPT ![t] = "half_duplex"]
        /\ src' = [src EXCEPT ![t] = t] /\ dst' = [dst EXCEPT ![t] = Peer(t)]
        /\ UNCHANGED <<qp, qpVars>>
    BY <1>18, <2>1 DEF Check, Goto
  <2> QED
    BY <1>f, <2>1, <2>2 DEF qpVars, Mine, Peer
<1>19. CASE HalfDuplexEnds(t)
  <2>1. CASE PutAndEnd(t)
    BY <1>19, <2>1, <1>f, PutPlaces DEF HalfDuplexEnds, Busy
  <2>2. CASE UNCHANGED <<pc, qp, qpVars, src, dst>>
    BY <2>2, <1>f DEF Goto, qpVars, Mine, Peer, IS_ERR_OR_NULL, Live, LHolds, RHolds
  <2> QED
    BY <1>19, <2>1, <2>2 DEF HalfDuplexEnds, qpVars
<1>20. CASE StaleAccess(t)
  BY <1>20, <1>f DEF StaleAccess, Goto, qpVars, Mine, Peer, IS_ERR_OR_NULL, Live, LHolds, RHolds
<1>21. CASE HalfDuplexNoMem(t)
  BY <1>21, <1>f DEF HalfDuplexNoMem, Goto, qpVars, Mine, Peer, IS_ERR_OR_NULL, Live, LHolds, RHolds
<1>22. CASE PeerCloses(t)
  BY <1>22, <1>f DEF PeerCloses, Goto, qpVars, Mine, Peer, IS_ERR_OR_NULL, Live, LHolds, RHolds
<1>23. CASE HalfDuplexSendFails(t)
  <2>1. CASE PutAndEnd(t)
    BY <1>23, <2>1, <1>f, PutPlaces DEF HalfDuplexSendFails, Busy
  <2>2. CASE UNCHANGED <<pc, qp, qpVars, src, dst>>
    BY <2>2, <1>f DEF Goto, qpVars, Mine, Peer, IS_ERR_OR_NULL, Live, LHolds, RHolds
  <2> QED
    BY <1>23, <2>1, <2>2 DEF HalfDuplexSendFails, qpVars
<1> QED
  BY <1>1, <1>2, <1>3, <1>4, <1>5, <1>6, <1>7, <1>8, <1>9, <1>10, <1>11, <1>12, <1>13, <1>14, <1>15, <1>16, <1>17, <1>18, <1>19, <1>20, <1>21, <1>22, <1>23, <1>f DEF Step, LStep, RStep, Environment

\* get_qp and put_qp count the holders; the last one frees what no one else uses.
LEMMA NextRefs ==
    ASSUME ~Preempt, TInv, QInv, Next
    PROVE  Refs'
<1> USE DEF Setting, OneBusy, Kinds, QpOwned, OwnQp, Slots, Places, Refs, UnderWay, Holds, Attached, InTree, Busy
<1>f. Setting
  BY StepFacts
<1> PICK t \in Tasks : Step(t) \/ Environment(t)
  BY DEF Next
<1>1. CASE t \in Ls /\ Accept(t)
  BY <1>1, <1>f DEF Accept, Goto, qpVars, Mine, Peer, IS_ERR_OR_NULL, Live, LHolds, RHolds
<1>2. CASE t \in Ls /\ LSetupFails(t)
  BY <1>2, <1>f DEF LSetupFails, Goto, qpVars, Mine, Peer, IS_ERR_OR_NULL, Live, LHolds, RHolds
<1>3. CASE t \in Ls /\ LStart(t)
  <2>1. CASE tree' = tree \cup {t} /\ qp' = [qp EXCEPT ![t] = t] /\ Goto(t, "ready")
    BY <1>3, <2>1, <1>f DEF LStart, Goto, qpVars, Mine, Peer, IS_ERR_OR_NULL, Live, LHolds, RHolds
  <2>2. CASE \E q \in Found(t) : qp' = [qp EXCEPT ![t] = q] /\ Goto(t, "join") /\ tree' = tree
    BY <1>3, <2>2, <1>f, SMTT(30) DEF LStart, Goto, qpVars, Mine, Peer, IS_ERR_OR_NULL, Live, LHolds, RHolds
  <2> QED
    BY <1>3, <2>1, <2>2 DEF LStart, add_rb_data
<1>4. CASE LDrop(t)
  BY <1>4, <1>f DEF LDrop, Goto, qpVars, Mine, Peer, IS_ERR_OR_NULL, Live, LHolds, RHolds
<1>5. CASE t \in Rs /\ RStart(t)
  <2>1. CASE tree' = tree \cup {t} /\ qp' = [qp EXCEPT ![t] = t] /\ Goto(t, "connect")
    BY <1>5, <2>1, <1>f DEF RStart, Goto, qpVars, Mine, Peer, IS_ERR_OR_NULL, Live, LHolds, RHolds
  <2>2. CASE \E q \in Found(t) : qp' = [qp EXCEPT ![t] = q] /\ Goto(t, "join") /\ tree' = tree
    BY <1>5, <2>2, <1>f DEF RStart, Goto, qpVars, Mine, Peer, IS_ERR_OR_NULL, Live, LHolds, RHolds
  <2> QED
    BY <1>5, <2>1, <2>2 DEF RStart, add_rb_data
<1>6. CASE RDrop(t)
  BY <1>6, <1>f DEF RDrop, Goto, qpVars, Mine, Peer, IS_ERR_OR_NULL, Live, LHolds, RHolds
<1>7. CASE t \in Rs /\ RConnect(t)
  BY <1>7, <1>f DEF RConnect, Goto, qpVars, Mine, Peer, IS_ERR_OR_NULL, Live, LHolds, RHolds
<1>8. CASE RLateConnect(t)
  BY <1>8, <1>f DEF RLateConnect, Goto, qpVars, Mine, Peer, IS_ERR_OR_NULL, Live, LHolds, RHolds
<1>9. CASE t \in Rs /\ RConnectFails(t)
  <2>1. pc[t] = "connect" /\ pc' = [pc EXCEPT ![t] = "done"] /\ UNCHANGED <<qp, mem, ref_cnt, tree>>
    BY <1>9 DEF RConnectFails, Goto, qpVars
  <2> QED
    BY <1>f, <2>1, RefsFrame
<1>10. CASE JoinTest(t)
  BY <1>10, <1>f DEF JoinTest, Goto, qpVars, Mine, Peer, IS_ERR_OR_NULL, Live, LHolds, RHolds
<1>11. CASE Adopt(t)
  <2>1. /\ pc[t] = "adopt" /\ pc' \in {[pc EXCEPT ![t] = "ready"], [pc EXCEPT ![t] = "connect"]}
        /\ mem' = [mem EXCEPT ![t] = "freed"] /\ UNCHANGED <<qp, ref_cnt, tree>>
    BY <1>11 DEF Adopt, AdoptTo, Goto
  <2>2. t \notin tree /\ \A u \in Tasks : pc[u] \in Holds => qp[u] # t
    BY <1>f, <2>1
  <2> QED
    BY <1>f, <2>1, <2>2, RefsFrame
<1>12. CASE ReadyTest(t)
  BY <1>12, <1>f DEF ReadyTest, Goto, qpVars, Mine, Peer, IS_ERR_OR_NULL, Live, LHolds, RHolds
<1>13. CASE get_qp(t)
  <2> DEFINE q == qp[t]
  <2>1. /\ q \in tree /\ pc[t] \in {"get_wait", "get_go"}
        /\ pc' = [pc EXCEPT ![t] = IF pc[t] = "get_wait" THEN "wait" ELSE "check"]
        /\ ref_cnt' = [ref_cnt EXCEPT ![q] = IF pc[t] = "get_wait" THEN 1 ELSE 2]
        /\ tree' = IF pc[t] = "get_wait" THEN tree ELSE tree \ {q}
        /\ UNCHANGED <<qp, mem>>
    BY <1>13, GetQpEffect DEF get_qp
  <2>2. IF t \in Ls THEN ~LHolds(q) /\ (RHolds(q) <=> pc[t] = "get_go")
                    ELSE ~RHolds(q) /\ (LHolds(q) <=> pc[t] = "get_go")
    BY <1>13, GetQpEffect
  <2>3. \A p \in Tasks : p # q => (LHolds(p)' <=> LHolds(p)) /\ (RHolds(p)' <=> RHolds(p))
    BY <1>f, <2>1 DEF LHolds, RHolds
  <2>4. IF t \in Ls THEN LHolds(q)' /\ (RHolds(q)' <=> RHolds(q))
                    ELSE RHolds(q)' /\ (LHolds(q)' <=> LHolds(q))
    BY <1>f, <2>1 DEF LHolds, RHolds
  <2>5. \A p \in Tasks : ref_cnt'[p] = (IF LHolds(p)' THEN 1 ELSE 0) + (IF RHolds(p)' THEN 1 ELSE 0)
    BY <1>f, <2>1, <2>2, <2>3, <2>4
  <2>6. \A u \in Tasks : pc'[u] \in Holds => mem'[qp'[u]] = "live"
    BY <1>f, <2>1
  <2>7. \A p \in tree' : mem'[p] = "live" /\ ref_cnt'[p] < 2
    BY <1>f, <2>1
  <2> QED BY <2>5, <2>6, <2>7
<1>14. CASE WaitDone(t)
  BY <1>14, <1>f DEF WaitDone, Goto, qpVars, Mine, Peer, IS_ERR_OR_NULL, Live, LHolds, RHolds
<1>15. CASE WaitTimeout(t)
  BY <1>15, <1>f DEF WaitTimeout, Goto, qpVars, Mine, Peer, IS_ERR_OR_NULL, Live, LHolds, RHolds
<1>16. CASE TimeoutDeTree(t)
  BY <1>16, <1>f DEF TimeoutDeTree, de_tree_qp, Goto, qpVars, Mine, Peer, IS_ERR_OR_NULL, Live, LHolds, RHolds
<1>17. CASE TimeoutPut(t)
  <2>1. CASE PutAndEnd(t)
    BY <1>17, <2>1, <1>f, PutRefs DEF TimeoutPut, Busy
  <2>2. CASE UNCHANGED <<pc, qp, qpVars>>
    BY <2>2, <1>f DEF Goto, qpVars, Mine, Peer, IS_ERR_OR_NULL, Live, LHolds, RHolds
  <2> QED
    BY <1>17, <2>1, <2>2 DEF TimeoutPut, qpVars
<1>18. CASE Check(t)
  <2>1. ~IS_ERR_OR_NULL(tx[qp[t]]) /\ ~IS_ERR_OR_NULL(rx[qp[t]])
    BY <1>18, <1>f DEF Check, Mine, Peer, IS_ERR_OR_NULL
  <2>2. pc[t] = "check" /\ pc' = [pc EXCEPT ![t] = "half_duplex"] /\ UNCHANGED <<qp, mem, ref_cnt, tree>>
    BY <1>18, <2>1 DEF Check, Goto, qpVars
  <2> QED
    BY <1>f, <2>2, RefsFrame
<1>19. CASE HalfDuplexEnds(t)
  <2>1. CASE PutAndEnd(t)
    BY <1>19, <2>1, <1>f, PutRefs DEF HalfDuplexEnds, Busy
  <2>2. CASE UNCHANGED <<pc, qp, qpVars>>
    BY <2>2, <1>f DEF Goto, qpVars, Mine, Peer, IS_ERR_OR_NULL, Live, LHolds, RHolds
  <2> QED
    BY <1>19, <2>1, <2>2 DEF HalfDuplexEnds, qpVars
<1>20. CASE StaleAccess(t)
  BY <1>20, <1>f DEF StaleAccess, Goto, qpVars, Mine, Peer, IS_ERR_OR_NULL, Live, LHolds, RHolds
<1>21. CASE HalfDuplexNoMem(t)
  BY <1>21, <1>f DEF HalfDuplexNoMem, Goto, qpVars, Mine, Peer, IS_ERR_OR_NULL, Live, LHolds, RHolds
<1>22. CASE PeerCloses(t)
  BY <1>22, <1>f DEF PeerCloses, Goto, qpVars, Mine, Peer, IS_ERR_OR_NULL, Live, LHolds, RHolds
<1>23. CASE HalfDuplexSendFails(t)
  <2>1. CASE PutAndEnd(t)
    BY <1>23, <2>1, <1>f, PutRefs DEF HalfDuplexSendFails, Busy
  <2>2. CASE UNCHANGED <<pc, qp, qpVars>>
    BY <2>2, <1>f DEF Goto, qpVars, Mine, Peer, IS_ERR_OR_NULL, Live, LHolds, RHolds
  <2> QED
    BY <1>23, <2>1, <2>2 DEF HalfDuplexSendFails, qpVars
<1> QED
  BY <1>1, <1>2, <1>3, <1>4, <1>5, <1>6, <1>7, <1>8, <1>9, <1>10, <1>11, <1>12, <1>13, <1>14, <1>15, <1>16, <1>17, <1>18, <1>19, <1>20, <1>21, <1>22, <1>23, <1>f DEF Step, LStep, RStep, Environment

\* No step releases a socket that a task or the holder of a reference still uses.
LEMMA NextSocks ==
    ASSUME ~Preempt, TInv, QInv, Next, Socks, oops' = "none"
    PROVE  Socks'
<1> USE DEF Setting, Kinds, QpOwned, OwnQp, Slots, Places, Socks, Here, UnderWay, Holds, Attached, InTree, Busy
<1>f. Setting
  BY StepFacts
<1> PICK t \in Tasks : Step(t) \/ Environment(t)
  BY DEF Next
<1>1. CASE t \in Ls /\ Accept(t)
  BY <1>1, <1>f DEF Accept, Goto, qpVars, Mine, Peer, IS_ERR_OR_NULL, Live, LHolds, RHolds
<1>2. CASE t \in Ls /\ LSetupFails(t)
  BY <1>2, <1>f DEF LSetupFails, Goto, qpVars, Mine, Peer, IS_ERR_OR_NULL, Live, LHolds, RHolds
<1>3. CASE t \in Ls /\ LStart(t)
  <2>1. CASE tree' = tree \cup {t} /\ qp' = [qp EXCEPT ![t] = t] /\ Goto(t, "ready")
    BY <1>3, <2>1, <1>f DEF LStart, Goto, qpVars, Mine, Peer, IS_ERR_OR_NULL, Live, LHolds, RHolds
  <2>2. CASE \E q \in Found(t) : qp' = [qp EXCEPT ![t] = q] /\ Goto(t, "join") /\ tree' = tree
    BY <1>3, <2>2, <1>f DEF LStart, Goto, qpVars, Mine, Peer, IS_ERR_OR_NULL, Live, LHolds, RHolds
  <2> QED
    BY <1>3, <2>1, <2>2 DEF LStart, add_rb_data
<1>4. CASE LDrop(t)
  BY <1>4, <1>f DEF LDrop, Goto, qpVars, Mine, Peer, IS_ERR_OR_NULL, Live, LHolds, RHolds
<1>5. CASE t \in Rs /\ RStart(t)
  <2>1. CASE tree' = tree \cup {t} /\ qp' = [qp EXCEPT ![t] = t] /\ Goto(t, "connect")
    BY <1>5, <2>1, <1>f DEF RStart, Goto, qpVars, Mine, Peer, IS_ERR_OR_NULL, Live, LHolds, RHolds
  <2>2. CASE \E q \in Found(t) : qp' = [qp EXCEPT ![t] = q] /\ Goto(t, "join") /\ tree' = tree
    BY <1>5, <2>2, <1>f DEF RStart, Goto, qpVars, Mine, Peer, IS_ERR_OR_NULL, Live, LHolds, RHolds
  <2> QED
    BY <1>5, <2>1, <2>2 DEF RStart, add_rb_data
<1>6. CASE RDrop(t)
  BY <1>6, <1>f DEF RDrop, Goto, qpVars, Mine, Peer, IS_ERR_OR_NULL, Live, LHolds, RHolds
<1>7. CASE t \in Rs /\ RConnect(t)
  BY <1>7, <1>f DEF RConnect, Goto, qpVars, Mine, Peer, IS_ERR_OR_NULL, Live, LHolds, RHolds
<1>8. CASE RLateConnect(t)
  BY <1>8, <1>f DEF RLateConnect, Goto, qpVars, Mine, Peer, IS_ERR_OR_NULL, Live, LHolds, RHolds
<1>9. CASE t \in Rs /\ RConnectFails(t)
  BY <1>9, <1>f DEF RConnectFails, Goto, qpVars, Mine, Peer, IS_ERR_OR_NULL, Live, LHolds, RHolds
<1>10. CASE JoinTest(t)
  BY <1>10, <1>f DEF JoinTest, Goto, qpVars, Mine, Peer, IS_ERR_OR_NULL, Live, LHolds, RHolds
<1>11. CASE Adopt(t)
  BY <1>11, <1>f DEF Adopt, AdoptTo, Goto, qpVars, Mine, Peer, IS_ERR_OR_NULL, Live, LHolds, RHolds
<1>12. CASE ReadyTest(t)
  BY <1>12, <1>f DEF ReadyTest, Goto, qpVars, Mine, Peer, IS_ERR_OR_NULL, Live, LHolds, RHolds
<1>13. CASE get_qp(t)
  <2>1. /\ qp[t] \in tree /\ pc[t] \in {"get_wait", "get_go"}
        /\ pc' = [pc EXCEPT ![t] = IF pc[t] = "get_wait" THEN "wait" ELSE "check"]
        /\ UNCHANGED <<qp, tx, rx, sock>>
    BY <1>13, GetQpEffect DEF get_qp
  <2> QED
    BY <1>f, <2>1 DEF Peer
<1>14. CASE WaitDone(t)
  BY <1>14, <1>f DEF WaitDone, Goto, qpVars, Mine, Peer, IS_ERR_OR_NULL, Live, LHolds, RHolds
<1>15. CASE WaitTimeout(t)
  BY <1>15, <1>f DEF WaitTimeout, Goto, qpVars, Mine, Peer, IS_ERR_OR_NULL, Live, LHolds, RHolds
<1>16. CASE TimeoutDeTree(t)
  BY <1>16, <1>f DEF TimeoutDeTree, de_tree_qp, Goto, qpVars, Mine, Peer, IS_ERR_OR_NULL, Live, LHolds, RHolds
<1>17. CASE TimeoutPut(t)
  BY <1>17, <1>f, PutSocks DEF TimeoutPut
<1>18. CASE Check(t)
  <2>1. ~IS_ERR_OR_NULL(tx[qp[t]]) /\ ~IS_ERR_OR_NULL(rx[qp[t]])
    BY <1>18, <1>f DEF Check, Mine, Peer, IS_ERR_OR_NULL
  <2>2. /\ pc[t] = "check" /\ pc' = [pc EXCEPT ![t] = "half_duplex"]
        /\ UNCHANGED <<qp, qpVars, sock>>
    BY <1>18, <2>1 DEF Check, Goto
  <2> QED
    BY <1>f, <2>1, <2>2 DEF qpVars, Peer
<1>19. CASE HalfDuplexEnds(t)
  BY <1>19, <1>f, PutSocks DEF HalfDuplexEnds
<1>20. CASE StaleAccess(t)
  BY <1>20, <1>f DEF StaleAccess, Goto, qpVars, Mine, Peer, IS_ERR_OR_NULL, Live, LHolds, RHolds
<1>21. CASE HalfDuplexNoMem(t)
  BY <1>21, <1>f DEF HalfDuplexNoMem, Goto, qpVars, Mine, Peer, IS_ERR_OR_NULL, Live, LHolds, RHolds
<1>22. CASE PeerCloses(t)
  BY <1>22, <1>f DEF PeerCloses, Goto, qpVars, Mine, Peer, IS_ERR_OR_NULL, Live, LHolds, RHolds
<1>23. CASE HalfDuplexSendFails(t)
  BY <1>23, <1>f, PutSocks DEF HalfDuplexSendFails
<1> QED
  BY <1>1, <1>2, <1>3, <1>4, <1>5, <1>6, <1>7, <1>8, <1>9, <1>10, <1>11, <1>12, <1>13, <1>14, <1>15, <1>16, <1>17, <1>18, <1>19, <1>20, <1>21, <1>22, <1>23, <1>f DEF Step, LStep, RStep, Environment

\* Whatever a task does with its QP in these places, the QP is alive: it is in
\* the tree or the task holds a reference.
LEMMA NoStaleQp ==
    ASSUME ~Preempt, TInv, QInv, NEW t \in Tasks, pc[t] \in Busy \cup {"wait", "half_duplex"}
    PROVE  mem[qp[t]] = "live"
<1>f. Setting
  BY StepFacts
<1>1. CASE pc[t] \in InTree
  BY <1>f, <1>1 DEF Setting, Places, Refs
<1>2. CASE pc[t] \in Holds
  BY <1>f, <1>2 DEF Setting, Refs
<1> QED BY <1>1, <1>2 DEF Busy, InTree, Holds

\* No step touches a freed QP or a released socket, or unlinks what is not linked.
LEMMA NextFaults ==
    ASSUME ~Preempt, TInv, QInv, Socks, Next, OnlyKnownFaults
    PROVE  OnlyKnownFaults'
<1>f. Setting
  BY StepFacts
<1> PICK t \in Tasks : Step(t) \/ Environment(t)
  BY DEF Next
<1>1. ~StaleAccess(t)
  BY NoStaleQp DEF StaleAccess
<1>2. CASE get_qp(t)
  BY <1>2, GetQpEffect DEF OnlyKnownFaults
<1>3. CASE TimeoutDeTree(t)
  <2>1. qp[t] \in tree
    BY <1>3, <1>f DEF TimeoutDeTree, Setting, Places, InTree
  <2> QED BY <1>3, <2>1 DEF TimeoutDeTree, de_tree_qp, OnlyKnownFaults
<1>4. CASE HalfDuplexEnds(t)
  <2>1. pc[t] = "half_duplex" /\ src[t] = t /\ dst[t] = Peer(t) /\ Peer(t) \in Tasks
    BY <1>4, <1>f DEF HalfDuplexEnds, Setting, Places, IS_ERR_OR_NULL, Peer, SockPtr, UnderWay, Busy
  <2>2. sock[src[t]] # "released" /\ sock[dst[t]] # "released"
    BY <2>1 DEF Socks, Attached, Holds, Here
  <2> QED BY <1>4, <2>2 DEF HalfDuplexEnds, PutAndEnd, OnlyKnownFaults
<1>5. CASE UNCHANGED oops
  BY <1>5 DEF OnlyKnownFaults
<1>6. CASE LDrop(t) \/ RLateConnect(t)
  BY <1>6 DEF LDrop, RLateConnect, OnlyKnownFaults
<1> QED
  BY <1>1, <1>2, <1>3, <1>4, <1>5, <1>6
  DEF Step, Environment, LStep, RStep, Accept, LSetupFails, LStart, RStart, RDrop, RConnect,
      RConnectFails, JoinTest, Adopt, AdoptTo, ReadyTest, WaitDone, WaitTimeout, TimeoutPut, PutAndEnd,
      Check, HalfDuplexNoMem, HalfDuplexSendFails, PeerCloses

\* The inductive invariant of a kernel that does not preempt; what it says of the
\* sockets holds until an oops.
NInv == TInv /\ QInv /\ (oops = "none" => Socks) /\ OnlyKnownFaults

\* It holds before the first SYN.
LEMMA InitNInv == Init => NInv
<1> SUFFICES ASSUME Init PROVE NInv
  OBVIOUS
<1> USE DEF Init
<1>1. TInv
  BY InitTInv
<1>2. OneBusy /\ Kinds /\ QpOwned /\ OwnQp /\ Slots /\ Places
  BY QpConstants DEF OneBusy, Kinds, QpOwned, OwnQp, Slots, Places, Busy, UnderWay, Attached, Holds, InTree, Tasks
<1>3. Refs
  BY DEF Refs, LHolds, RHolds, Holds, Tasks
<1>4. Socks /\ OnlyKnownFaults
  BY DEF Socks, OnlyKnownFaults, Attached, Holds, Here, Tasks
<1> QED BY <1>1, <1>2, <1>3, <1>4 DEF NInv, QInv

\* Every step starts from a kernel that is up.
LEMMA StepsNeedAKernel == Next => oops = "none"
BY DEF Next, Step, Environment, LStep, RStep, Accept, LSetupFails, LStart, LDrop, RStart, RDrop, RConnect,
       RLateConnect, RConnectFails, JoinTest, Adopt, AdoptTo, ReadyTest, get_qp, WaitDone, WaitTimeout,
       TimeoutDeTree, TimeoutPut, Check, HalfDuplexEnds, StaleAccess, HalfDuplexNoMem, HalfDuplexSendFails,
       PeerCloses, MayRun

\* Every step keeps it.
LEMMA NextNInv ==
    ASSUME ~Preempt
    PROVE  NInv /\ [Next]_vars => NInv'
<1> SUFFICES ASSUME NInv, [Next]_vars PROVE NInv'
  OBVIOUS
<1>1. TInv'
  BY NextTInv DEF NInv
<1>2. CASE Next
  <2>1. TInv /\ QInv /\ Socks /\ OnlyKnownFaults
    BY <1>2, StepsNeedAKernel DEF NInv
  <2>2. OneBusy' /\ Kinds' /\ QpOwned' /\ OwnQp'
    BY <1>2, <2>1, NextOneBusy, NextKinds, NextQpOwned, NextOwnQp
  <2>3. Slots' /\ Places' /\ Refs'
    BY <1>2, <2>1, NextSlots, NextPlaces, NextRefs
  <2>4. oops' = "none" => Socks'
    BY <1>2, <2>1, NextSocks
  <2>5. OnlyKnownFaults'
    BY <1>2, <2>1, NextFaults
  <2> QED BY <1>1, <2>2, <2>3, <2>4, <2>5 DEF NInv, QInv
<1>3. CASE UNCHANGED vars
  <2>1. OneBusy' /\ Kinds' /\ QpOwned' /\ OwnQp' /\ Slots'
    BY <1>3 DEF vars, qpVars, NInv, QInv, OneBusy, Kinds, QpOwned, OwnQp, Slots
  <2>2. Places'
    BY <1>3 DEF vars, qpVars, NInv, QInv, Places, Mine, Peer, IS_ERR_OR_NULL
  <2>3. Refs'
    BY <1>3 DEF vars, qpVars, NInv, QInv, Refs, LHolds, RHolds
  <2>4. (oops' = "none" => Socks') /\ OnlyKnownFaults'
    BY <1>3 DEF vars, qpVars, NInv, Socks, OnlyKnownFaults, Peer
  <2> QED BY <1>1, <2>1, <2>2, <2>3, <2>4 DEF NInv, QInv
<1> QED BY <1>2, <1>3

\* It holds throughout.
LEMMA SpecNInv ==
    ASSUME ~Preempt
    PROVE  Spec => []NInv
<1>1. Init => NInv
  BY InitNInv
<1>2. NInv /\ [Next]_vars => NInv'
  BY NextNInv
<1> QED BY <1>1, <1>2, PTL DEF Spec

\* On a kernel that does not preempt, for any tasks, keys and CPUs:
\* get_qp never takes a third reference and put_qp never gives back one too many,
\* so qp.c's "Impossible QP refcount" is never printed.
THEOREM RefCountsPossible ==
    ASSUME ~Preempt
    PROVE  Spec => []RefCountPossible
<1>1. Spec => []NInv
  BY SpecNInv
<1>2. NInv => RefCountPossible
  BY DEF NInv, QInv, Refs, RefCountPossible
<1> QED BY <1>1, <1>2, PTL

\* On a kernel that does not preempt, for any tasks, keys and CPUs:
\* what add_rb_data finds is alive and waits for its peer; a complete pair is
\* never found by a third task.
THEOREM TreeHoldsPending ==
    ASSUME ~Preempt
    PROVE  Spec => []TreeHoldsPendingQps
<1>1. Spec => []NInv
  BY SpecNInv
<1>2. NInv => TreeHoldsPendingQps
  BY DEF NInv, QInv, Refs, TreeHoldsPendingQps
<1> QED BY <1>1, <1>2, PTL

\* On a kernel that does not preempt, for any tasks, keys and CPUs:
\* half_duplex of a task reads the task's own socket, and tasks that share a
\* socket are the two directions of one QP.
THEOREM DirectionsApart ==
    ASSUME ~Preempt
    PROVE  Spec => []NoCrossTalk
<1>1. Spec => []NInv
  BY SpecNInv
<1>2. ASSUME NInv PROVE NoCrossTalk
  <2> SUFFICES ASSUME NEW t \in Tasks, NEW u \in Tasks, pc[t] = "half_duplex", pc[u] = "half_duplex"
               PROVE  /\ src[t] = t
                      /\ t # u /\ {src[t], dst[t]} \cap {src[u], dst[u]} # {}
                           => qp[t] = qp[u] /\ src[t] = dst[u] /\ dst[t] = src[u]
    BY DEF NoCrossTalk
  <2>f. Setting
    BY <1>2, StepFacts DEF NInv
  <2> USE DEF Setting
  <2>1. src[t] = t /\ src[u] = u /\ dst[t] = Peer(t) /\ dst[u] = Peer(u)
    BY <2>f DEF Places
  <2>2. \A v \in {t, u} : /\ qp[v] \in Tasks /\ qp[qp[v]] = qp[v]
                          /\ Peer(v) \in Tasks /\ qp[Peer(v)] = qp[v]
                          /\ (v \in Ls <=> Peer(v) \in Rs)
    BY <2>f DEF Places, Slots, QpOwned, UnderWay, Busy, Peer, IS_ERR_OR_NULL
  <2>3. ASSUME t # u, qp[t] = qp[u]
        PROVE  Peer(t) = u /\ Peer(u) = t
    BY <2>f, <2>3 DEF Slots, Attached, Holds, Peer
  <2> QED BY <2>1, <2>2, <2>3
<1> QED BY <1>1, <1>2, PTL

\* On a kernel that does not preempt, for any tasks, keys and CPUs:
\* the only faults are a connect that outlasts its peer's time-out and the NULL
\* QP of a second L task of a four-tuple; references protect every other access
\* to a QP or a socket.
THEOREM NoOtherFaults ==
    ASSUME ~Preempt
    PROVE  Spec => []OnlyKnownFaults
<1>1. Spec => []NInv
  BY SpecNInv
<1>2. NInv => OnlyKnownFaults
  BY DEF NInv
<1> QED BY <1>1, <1>2, PTL

\* On a kernel that does not preempt, for any tasks, keys and CPUs:
\* when all tasks have ended every socket is released, whatever failed on the way,
\* unless the kernel went down or half_duplex ran out of memory.
THEOREM AllSocketsReleased ==
    ASSUME ~Preempt
    PROVE  Spec => []SocketsReleased
<1>1. Spec => []NInv
  BY SpecNInv
<1>2. ASSUME NInv PROVE SocketsReleased
  <2> SUFFICES ASSUME oops = "none", \A t \in Tasks : pc[t] \in {"start", "done"}, NEW t \in Tasks
               PROVE  sock[t] \in {"none", "released"}
    BY DEF SocketsReleased
  <2>1. Socks /\ sock[t] \in {"none", "released"} \cup Here
    BY <1>2 DEF NInv, TInv, TypeOK, Here
  <2> QED BY <2>1 DEF Socks, Holds, Tasks, Here
<1> QED BY <1>1, <1>2, PTL
====
