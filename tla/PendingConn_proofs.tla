---- MODULE PendingConn_proofs ----
(***************************************************************************)
(* Proofs about PendingConn: the two references keep the QP and the two    *)
(* sockets of a pre-established connection alive for as long as a half     *)
(* uses them, and the last one to go releases them.                        *)
(***************************************************************************)
EXTENDS PendingConn, TLAPS

Copying == {"entry", "top", "recv", "send"}
Places == {"none", "queued", "lost", "next_hop", "connect", "failed", "done", "no_mem"} \cup Copying
Socks == {"none", "created", "open", "eof", "shut", "released"}

PType ==
    /\ pc \in [Conns -> [Halves -> Places]]
    /\ sock \in [Conns -> [Halves -> Socks]]
    /\ data \in [Conns -> [Halves -> BOOLEAN]]
    /\ mem \in [Conns -> {"none", "live", "freed"}]
    /\ ref_cnt \in [Conns -> 0 .. 2]
    /\ oops \in {"none", "stale_stack", "stale_listner"}

\* The connection has not been accepted.
Fresh(c) ==
    /\ pc[c][First] = "none" /\ pc[c][Second] = "none"
    /\ mem[c] = "none"
    /\ sock[c][First] = "none" /\ sock[c][Second] = "none"

\* The task waits for the next hop, connects to the server or has failed to.
SettingUp(c) ==
    /\ pc[c][First] \in {"queued", "lost", "next_hop", "connect", "failed"} /\ pc[c][Second] = "none"
    /\ mem[c] = "live"
    /\ sock[c][First] \in {"open", "eof"}
    /\ sock[c][Second] \in {"none", "created"}

\* The two halves copy: every half that has not called put_qp holds one of the
\* two references.
Split(c) ==
    /\ pc[c][First] \in Copying \cup {"done", "no_mem"}
    /\ pc[c][Second] \in Copying \cup {"queued", "lost", "done", "no_mem"}
    /\ \/ /\ ref_cnt[c] = 2 /\ mem[c] = "live"
          /\ \A h \in Halves : pc[c][h] # "done" /\ sock[c][h] \in {"open", "eof"}
       \/ /\ ref_cnt[c] = 1 /\ mem[c] = "live"
          /\ \A h \in Halves : sock[c][h] = "shut"
          /\ \E h \in Halves : pc[c][h] = "done" /\ pc[c][Other(h)] # "done"
       \/ /\ ref_cnt[c] = 0 /\ mem[c] = "freed"
          /\ \A h \in Halves : pc[c][h] = "done" /\ sock[c][h] = "released"

ConnOK(c) == Fresh(c) \/ SettingUp(c) \/ Split(c)

PInv == PType /\ \A c \in Conns : ConnOK(c)

\* There are two halves.
LEMMA HalfFacts == First \in Halves /\ Second \in Halves /\ First # Second
                   /\ Other(First) = Second /\ Other(Second) = First /\ Halves = {First, Second}
BY DEF First, Second, Halves, Other

\* The places of two halves written as a pair.
LEMMA PairOfPlaces ==
    ASSUME NEW p \in Places, NEW q \in Places
    PROVE  <<p, q>> \in [Halves -> Places] /\ <<p, q>>[First] = p /\ <<p, q>>[Second] = q
<1>1. <<p, q>> = [h \in Halves |-> IF h = First THEN p ELSE q]
  BY DEF First, Second, Halves
<1> QED BY <1>1, HalfFacts DEF First, Second

\* Bytes are taken from a socket.
LEMMA DataTaken ==
    ASSUME data \in [Conns -> [Halves -> BOOLEAN]], NEW c \in Conns, NEW h \in Halves
    PROVE  [data EXCEPT ![c][h] = FALSE] \in [Conns -> [Halves -> BOOLEAN]]
<1>1. data[c] \in [Halves -> BOOLEAN] /\ FALSE \in BOOLEAN
  OBVIOUS
<1>2. [data[c] EXCEPT ![h] = FALSE] \in [Halves -> BOOLEAN]
  BY <1>1, Zenon
<1> QED BY <1>2, Zenon

\* No connection has come yet.
LEMMA InitPInv == Init => PInv
BY HalfFacts DEF Init, PInv, PType, Places, Socks, ConnOK, Fresh

\* A step of connection c leaves the others alone.
LEMMA OneConn ==
    ASSUME PInv, NEW c \in Conns, PType',
           \A d \in Conns : d # c => pc'[d] = pc[d] /\ sock'[d] = sock[d] /\ mem'[d] = mem[d]
                                     /\ ref_cnt'[d] = ref_cnt[d],
           ConnOK(c)'
    PROVE  PInv'
BY DEF PInv, ConnOK, Fresh, SettingUp, Split

\* Half h of connection c goes to another place and nothing else of c changes.
LEMMA GotoPInv ==
    ASSUME PInv, NEW c \in Conns, NEW h \in Halves, NEW place \in Places,
           Goto(c, h, place), UNCHANGED <<sock, mem, ref_cnt, oops>>,
           data' \in [Conns -> [Halves -> BOOLEAN]],
           ConnOK(c)'
    PROVE  PInv'
<1>1. PType'
  BY DEF PInv, PType, Goto
<1>2. \A d \in Conns : d # c => pc'[d] = pc[d]
  BY DEF PInv, PType, Goto
<1> QED BY <1>1, <1>2, OneConn

\* The listener's own steps and the unload touch no connection.
LEMMA ServerPInv ==
    ASSUME PInv, ServerMoves \/ ServerFails \/ AcceptFails \/ cbn_pre_connect_end \/ UNCHANGED vars
    PROVE  PInv'
<1>1. UNCHANGED connVars /\ (oops' = oops \/ oops' = "stale_listner")
  BY DEF ServerMoves, ServerListens, AcceptShut, ServerReturns, ServerFails, AcceptFails, cbn_pre_connect_end, vars
<1>2. PType' /\ UNCHANGED <<pc, sock, mem, ref_cnt>>
  BY <1>1 DEF connVars, PInv, PType
<1> QED BY <1>2 DEF PInv, ConnOK, Fresh, SettingUp, Split

\* What the remote ends do.
LEMMA PeerPInv ==
    ASSUME PInv, NEW c \in Conns, NEW h \in Halves, PeerSends(c, h) \/ PeerCloses(c, h)
    PROVE  PInv'
<1> USE HalfFacts
<1>1. CASE PeerSends(c, h)
  <2>1. PType' /\ UNCHANGED <<pc, sock, mem, ref_cnt>>
    BY <1>1 DEF PeerSends, PInv, PType
  <2> QED BY <2>1 DEF PInv, ConnOK, Fresh, SettingUp, Split
<1>2. CASE PeerCloses(c, h)
  <2>1. sock[c][h] = "open" /\ UNCHANGED <<pc, data, mem, ref_cnt, oops>> /\ sock' = [sock EXCEPT ![c][h] = "eof"]
    BY <1>2 DEF PeerCloses
  <2>2. PType'
    BY <2>1 DEF PInv, PType, Socks
  <2>3. sock'[c][h] = "eof" /\ (\A g \in Halves : g # h => sock'[c][g] = sock[c][g])
        /\ \A d \in Conns : d # c => sock'[d] = sock[d]
    BY <2>1 DEF PInv, PType
  <2>4. SettingUp(c) \/ Split(c)
    BY <2>1 DEF PInv, ConnOK, Fresh
  <2>5. ConnOK(c)'
    BY <2>1, <2>3, <2>4 DEF ConnOK, SettingUp, Split
  <2> QED BY <2>1, <2>2, <2>3, <2>5, OneConn
<1> QED BY <1>1, <1>2

\* A connection is accepted.
LEMMA AcceptPInv ==
    ASSUME PInv, NEW c \in Conns, ServerAccepts(c)
    PROVE  PInv'
<1> USE HalfFacts
<1>1. PICK place \in {"queued", "lost"} :
        /\ Goto(c, First, place)
        /\ mem' = [mem EXCEPT ![c] = "live"]
        /\ sock' = [sock EXCEPT ![c][First] = "open"]
        /\ UNCHANGED <<data, ref_cnt, oops>>
  BY DEF ServerAccepts
<1>2. PType'
  BY <1>1 DEF PInv, PType, Places, Socks, Goto
<1>3. Fresh(c)
  BY DEF ServerAccepts, PInv, ConnOK, SettingUp, Split, Copying
<1>4. /\ pc'[c][First] = place /\ pc'[c][Second] = pc[c][Second]
      /\ sock'[c][First] = "open" /\ sock'[c][Second] = sock[c][Second] /\ mem'[c] = "live"
      /\ \A d \in Conns : d # c => pc'[d] = pc[d] /\ sock'[d] = sock[d] /\ mem'[d] = mem[d]
  BY <1>1 DEF PInv, PType, Goto
<1>5. ConnOK(c)'
  BY <1>3, <1>4 DEF Fresh, ConnOK, SettingUp
<1> QED BY <1>1, <1>2, <1>4, <1>5, OneConn

\* The task sets the connection up, or fails to.
LEMMA SetupPInv ==
    ASSUME PInv, NEW c \in Conns,
           CreateSocket(c) \/ NextHopKnown(c) \/ NextHopFails(c) \/ SetupFails(c) \/ Connect(c)
    PROVE  PInv'
<1> USE HalfFacts
<1>0. SettingUp(c)
  BY DEF CreateSocket, NextHopKnown, NextHopFails, SetupFails, Connect, PInv, ConnOK, Fresh, Split, Copying
<1>1. CASE CreateSocket(c)
  <2>1. PType'
    BY <1>1 DEF CreateSocket, PInv, PType, Places, Socks, Goto
  <2>2. /\ pc'[c][First] = "next_hop" /\ pc'[c][Second] = pc[c][Second]
        /\ sock'[c][First] = sock[c][First] /\ sock'[c][Second] = "created"
        /\ UNCHANGED <<mem, ref_cnt>>
        /\ \A d \in Conns : d # c => pc'[d] = pc[d] /\ sock'[d] = sock[d]
    BY <1>1 DEF CreateSocket, PInv, PType, Goto
  <2>3. ConnOK(c)'
    BY <1>0, <2>2 DEF ConnOK, SettingUp
  <2> QED BY <2>1, <2>2, <2>3, OneConn
<1>2. CASE NextHopKnown(c) \/ NextHopFails(c) \/ SetupFails(c)
  <2>1. PICK place \in {"connect", "failed"} :
          Goto(c, First, place) /\ UNCHANGED <<sock, mem, ref_cnt, oops>>
    BY <1>2 DEF NextHopKnown, NextHopFails, SetupFails
  <2>2. data' \in [Conns -> [Halves -> BOOLEAN]]
    <3>1. data' = data \/ data' = [data EXCEPT ![c][First] = FALSE]
      BY <1>2 DEF NextHopKnown, NextHopFails, SetupFails
    <3>2. data \in [Conns -> [Halves -> BOOLEAN]]
      BY DEF PInv, PType
    <3>3. [data EXCEPT ![c][First] = FALSE] \in [Conns -> [Halves -> BOOLEAN]]
      BY <3>2, DataTaken
    <3> QED BY <3>1, <3>2, <3>3, Zenon
  <2>3. pc'[c][First] = place /\ pc'[c][Second] = pc[c][Second]
    BY <2>1 DEF Goto, PInv, PType
  <2>4. ConnOK(c)'
    BY <1>0, <2>1, <2>3 DEF ConnOK, SettingUp
  <2> QED BY <2>1, <2>2, <2>4, GotoPInv DEF Places
<1>3. CASE Connect(c)
  <2>1. PICK run \in {"queued", "lost"} : pc' = [pc EXCEPT ![c] = <<"entry", run>>]
    BY <1>3 DEF Connect
  <2>2. /\ pc'[c] \in [Halves -> Places] /\ pc'[c][First] = "entry" /\ pc'[c][Second] = run
    BY <2>1, PairOfPlaces DEF Places, Copying, PInv, PType
  <2>3. pc' \in [Conns -> [Halves -> Places]] /\ \A d \in Conns : d # c => pc'[d] = pc[d]
    BY <2>1, <2>2 DEF PInv, PType
  <2>4. /\ sock' \in [Conns -> [Halves -> Socks]] /\ ref_cnt' \in [Conns -> 0 .. 2]
        /\ ref_cnt'[c] = 2 /\ sock'[c][First] = sock[c][First] /\ sock'[c][Second] = "open"
        /\ \A d \in Conns : d # c => sock'[d] = sock[d] /\ ref_cnt'[d] = ref_cnt[d]
        /\ UNCHANGED <<data, mem, oops>>
    <3>1. /\ sock' = [sock EXCEPT ![c][Second] = "open"] /\ ref_cnt' = [ref_cnt EXCEPT ![c] = 2]
          /\ UNCHANGED <<data, mem, oops>>
      BY <1>3 DEF Connect
    <3>2. /\ sock' \in [Conns -> [Halves -> Socks]]
          /\ sock'[c][First] = sock[c][First] /\ sock'[c][Second] = "open"
          /\ \A d \in Conns : d # c => sock'[d] = sock[d]
      BY <3>1 DEF PInv, PType, Socks
    <3>3. /\ ref_cnt' \in [Conns -> 0 .. 2] /\ ref_cnt'[c] = 2
          /\ \A d \in Conns : d # c => ref_cnt'[d] = ref_cnt[d]
      BY <3>1 DEF PInv, PType
    <3> QED BY <3>1, <3>2, <3>3
  <2>5. PType'
    BY <2>3, <2>4 DEF PInv, PType
  <2>6. ConnOK(c)'
    BY <1>0, <2>2, <2>4 DEF ConnOK, SettingUp, Split, Copying
  <2> QED BY <2>3, <2>4, <2>5, <2>6, OneConn
<1> QED BY <1>1, <1>2, <1>3

\* A half that goes on copying, or ends for want of pages, keeps its reference.
LEMMA CopyPInv ==
    ASSUME PInv, NEW c \in Conns, NEW h \in Halves,
           \/ h = Second /\ start_half_duplex(c)
           \/ AllocPages(c, h) \/ NoMem(c, h) \/ CallRecv(c, h) \/ RecvBytes(c, h) \/ SendBytes(c, h)
    PROVE  PInv'
<1> USE HalfFacts
<1>1. /\ pc[c][h] \in Copying \cup {"queued"} /\ (h = First => pc[c][h] # "queued")
      /\ Split(c)
  BY DEF start_half_duplex, AllocPages, NoMem, CallRecv, RecvBytes, SendBytes, PInv, ConnOK, Fresh, SettingUp,
     Split, Copying
<1>2. sock[c][h] # "released"
  BY <1>1 DEF Split, Copying
<1>3. PICK place \in Copying \cup {"no_mem"} :
        Goto(c, h, place) /\ UNCHANGED <<sock, mem, ref_cnt, oops>>
  BY <1>2 DEF start_half_duplex, AllocPages, NoMem, CallRecv, RecvBytes, SendBytes, Copying
<1>4. data' \in [Conns -> [Halves -> BOOLEAN]]
  <2>1. data' = data \/ data' = [data EXCEPT ![c][h] = FALSE]
    BY DEF start_half_duplex, AllocPages, NoMem, CallRecv, RecvBytes, SendBytes
  <2>2. data \in [Conns -> [Halves -> BOOLEAN]]
    BY DEF PInv, PType
  <2>3. [data EXCEPT ![c][h] = FALSE] \in [Conns -> [Halves -> BOOLEAN]]
    BY <2>2, DataTaken
  <2> QED BY <2>1, <2>2, <2>3, Zenon
<1>5. pc'[c][h] = place /\ \A g \in Halves : g # h => pc'[c][g] = pc[c][g]
  BY <1>3 DEF Goto, PInv, PType
<1>6. ConnOK(c)'
  <2>1. pc[c][h] # "done" /\ place # "done"
    BY <1>1 DEF Copying
  <2>2. \A g \in Halves : pc'[c][g] = "done" <=> pc[c][g] = "done"
    BY <1>5, <2>1
  <2>3. /\ pc'[c][First] \in Copying \cup {"done", "no_mem"}
        /\ pc'[c][Second] \in Copying \cup {"queued", "lost", "done", "no_mem"}
    BY <1>1, <1>5 DEF Split
  <2>4. \A g \in Halves : Other(g) \in Halves
    OBVIOUS
  <2> QED BY <1>1, <1>3, <2>2, <2>3, <2>4 DEF ConnOK, Split
<1> QED BY <1>3, <1>4, <1>6, GotoPInv DEF Places

\* A half that ends gives its reference back: the first one shuts the sockets
\* down, the second one releases them.
LEMMA PutPInv ==
    ASSUME PInv, NEW c \in Conns, NEW h \in Halves, RecvEnds(c, h) \/ SendFails(c, h)
    PROVE  PInv'
<1> USE HalfFacts
<1>1. pc[c][h] \in {"recv", "send"} /\ Split(c)
  BY DEF RecvEnds, SendFails, PInv, ConnOK, Fresh, SettingUp
<1>2. ref_cnt[c] \in {1, 2} /\ mem[c] = "live" /\ sock[c][Other(h)] # "released"
  BY <1>1 DEF Split
<1>3. put_qp(c, h)
  BY <1>2 DEF RecvEnds, SendFails
<1> DEFINE last == ref_cnt[c] = 1
<1>4. /\ ref_cnt' = [ref_cnt EXCEPT ![c] = @ - 1]
      /\ sock' = [sock EXCEPT ![c] = [g \in Halves |-> IF last THEN "released" ELSE "shut"]]
      /\ mem' = [mem EXCEPT ![c] = IF last THEN "freed" ELSE @]
      /\ Goto(c, h, "done")
      /\ UNCHANGED <<data, oops>>
  BY <1>2, <1>3 DEF put_qp
<1>5. /\ ref_cnt' \in [Conns -> 0 .. 2] /\ ref_cnt'[c] = ref_cnt[c] - 1
      /\ \A d \in Conns : d # c => ref_cnt'[d] = ref_cnt[d]
  BY <1>2, <1>4 DEF PInv, PType
<1>6. /\ sock' \in [Conns -> [Halves -> Socks]]
      /\ \A g \in Halves : sock'[c][g] = IF last THEN "released" ELSE "shut"
      /\ \A d \in Conns : d # c => sock'[d] = sock[d]
  <2>1. [g \in Halves |-> IF last THEN "released" ELSE "shut"] \in [Halves -> Socks]
    BY DEF Socks
  <2> QED BY <1>4, <2>1 DEF PInv, PType
<1>7. /\ mem' \in [Conns -> {"none", "live", "freed"}] /\ mem'[c] = IF last THEN "freed" ELSE "live"
      /\ \A d \in Conns : d # c => mem'[d] = mem[d]
  BY <1>2, <1>4 DEF PInv, PType
<1>8. /\ pc' \in [Conns -> [Halves -> Places]] /\ pc'[c][h] = "done"
      /\ \A g \in Halves : g # h => pc'[c][g] = pc[c][g]
      /\ \A d \in Conns : d # c => pc'[d] = pc[d]
  BY <1>4 DEF Goto, Places, PInv, PType
<1>9. PType'
  BY <1>4, <1>5, <1>6, <1>7, <1>8 DEF PInv, PType
<1>10. ConnOK(c)'
  <2>1. /\ pc'[c][First] \in Copying \cup {"done", "no_mem"}
        /\ pc'[c][Second] \in Copying \cup {"queued", "lost", "done", "no_mem"}
    BY <1>1, <1>8 DEF Split
  <2>2. CASE ref_cnt[c] = 2
    <3>1. pc'[c][Other(h)] # "done" /\ ref_cnt'[c] = 1 /\ ~last
      BY <1>1, <1>5, <1>8, <2>2 DEF Split
    <3> HIDE DEF last
    <3> QED BY <1>6, <1>7, <1>8, <2>1, <3>1 DEF ConnOK, Split
  <2>3. CASE ref_cnt[c] = 1
    <3>1. pc[c][Other(h)] = "done"
      BY <1>1, <2>3 DEF Split
    <3>2. (\A g \in Halves : pc'[c][g] = "done") /\ ref_cnt'[c] = 0 /\ last
      BY <1>5, <1>8, <2>3, <3>1
    <3> HIDE DEF last
    <3> QED BY <1>6, <1>7, <2>1, <3>2 DEF ConnOK, Split
  <2> QED BY <1>2, <2>2, <2>3
<1> QED BY <1>5, <1>6, <1>7, <1>8, <1>9, <1>10, OneConn

\* Every step keeps PInv.
LEMMA NextPInv == PInv /\ [Next]_vars => PInv'
<1> SUFFICES ASSUME PInv, [Next]_vars PROVE PInv'
  OBVIOUS
<1>1. ASSUME NEW c \in Conns, StaleStack(c) PROVE PInv'
  <2>1. PType' /\ UNCHANGED <<pc, sock, mem, ref_cnt>>
    BY <1>1 DEF StaleStack, connVars, PInv, PType
  <2> QED BY <2>1 DEF PInv, ConnOK, Fresh, SettingUp, Split
<1> QED
  BY <1>1, ServerPInv, PeerPInv, AcceptPInv, SetupPInv, CopyPInv, PutPInv, HalfFacts
  DEF Next, Environment, ConnMoves, HalfMoves

\* The two references keep the QP and the sockets alive for as long as a half
\* uses them: no half ever uses a freed QP or a released socket.
THEOREM ReferencesHold == Spec => []QpOutlivesHalves
<1>1. PInv => QpOutlivesHalves
  BY HalfFacts DEF PInv, PType, ConnOK, Fresh, SettingUp, Split, QpOutlivesHalves
<1> QED BY <1>1, InitPInv, NextPInv, PTL DEF Spec

\* What was opened for a connection is released when both halves are done, and
\* stays open only after a failure that can be named.
THEOREM ReleasedAtTheEnd == Spec => []PendingReleased
<1>1. PInv => PendingReleased
  BY HalfFacts DEF PInv, ConnOK, Fresh, SettingUp, Split, Copying, Returned, PendingReleased
<1> QED BY <1>1, InitPInv, NextPInv, PTL DEF Spec
====
