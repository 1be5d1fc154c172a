-------------------------- MODULE TransportProofs ---------------------------
(***************************************************************************)
(* Proofs about TransportService, for any number of network loops,         *)
(* descriptors and attempts: an attempt to connect is answered once, and   *)
(* connect_cb_ comes before anything else is said of a connection that its *)
(* own loop attached.                                                      *)
(***************************************************************************)
EXTENDS TransportService, FiniteSetTheorems, SequenceTheorems, TLAPS

\* The callback of an attempt that is still to be handled stands for one socket
\* that is opened, and there is one for it.
CallsMatch ==
  \A a \in Agents : \A i \in DOMAIN netCalls[a] :
    netCalls[a][i].kind = "asyncConnect" =>
      /\ sock[netCalls[a][i].fd] = "opened" /\ home[netCalls[a][i].fd] = a
      /\ \A j \in DOMAIN netCalls[a] : netCalls[a][j] = netCalls[a][i] => i = j

\* What the bound on attempts and connections bounds.
Counted == backlog <= opened /\ \A fd \in Fds : attempts[fd] <= opened

\* Of a socket that is not attached the application has not heard but that an
\* attempt failed.
Unheard ==
  \A fd \in Fds : sock[fd] # "attached" =>
    /\ fd \notin told
    /\ \A i \in DOMAIN appCalls :
         appCalls[i] \notin {Call("connected", fd), Call("closed", fd), Call("error", fd)}
    /\ \A a \in Agents : \A i \in DOMAIN receiveQ[a] : receiveQ[a][i] # fd

\* A loop announces what it attached, and that only.
Announcements ==
  \A a \in Agents : \A i \in DOMAIN announcing[a] :
    \E fd \in Fds : /\ announcing[a][i] \in {Call("connected", fd), Call("asyncConnected", fd)}
                    /\ sock[fd] = "attached" /\ builder[fd] = a

\* connect_cb_ was called for the descriptor, or will be when this turn ends.
Known(fd) == fd \in told \/ In(Call("connected", fd), appCalls)

\* Of a connection that its own loop attached nothing is on its way to the
\* application before OnHandleConnected.
KnownFirst ==
  \A fd \in Fds : sock[fd] = "attached" /\ builder[fd] = home[fd] =>
    /\ \A i \in DOMAIN receiveQ[home[fd]] : receiveQ[home[fd]][i] = fd => Known(fd)
    /\ \A i \in DOMAIN appCalls :
         appCalls[i] \in {Call("closed", fd), Call("error", fd)} =>
           fd \in told \/ \E j \in 1..i : appCalls[j] = Call("connected", fd)

\* What the turns of the application's loop add to that: of what is read next, if it
\* was not handed over in this very turn, connect_cb_ was called before.
Turn ==
  /\ \A a \in Agents : handed[a] <= Len(receiveQ[a])
  /\ \A a \in Agents : \A i \in DOMAIN receiveQ[a] : home[receiveQ[a][i]] = a
  /\ \A a \in Agents \ expired : \A i \in 1..handed[a] :
       builder[receiveQ[a][i]] = a => receiveQ[a][i] \in told
  /\ \A fd \in early : sock[fd] = "attached" /\ builder[fd] # home[fd]

IInv ==
  /\ ConnectedFirst /\ AnsweredOnce
  /\ CallsMatch /\ Counted /\ Unheard /\ Announcements /\ KnownFirst /\ Turn

\* The parts of AnsweredOnce.
AnswersCounted ==
  \A fd \in Fds :
    /\ attempts[fd] - answers[fd] =
         (IF sock[fd] \in {"opened", "connecting"} THEN 1 ELSE 0)
           + Pending(fd, appCalls) + Pending(fd, announcing[builder[fd]])
    /\ \A a \in Agents \ {builder[fd]} : Pending(fd, announcing[a]) = 0

\* The part of ConnectedFirst that is not in KnownFirst or Turn.
Announced ==
  \A fd \in Fds : sock[fd] = "attached" =>
    Known(fd) \/ \E a \in Agents : In(Call("connected", fd), announcing[a])

TimersRight ==
  \A a \in Agents : timers[a] = {fd \in Fds : sock[fd] = "connecting" /\ home[fd] = a}

-----------------------------------------------------------------------------
(* Types. *)

LEMMA TypeInit == Init => TypeOK
BY ServiceAssumption DEF Init, TypeOK

LEMMA ReadinessType ==
  ASSUME NEW state, NEW bytes \in BOOLEAN
  PROVE  Readiness(state, bytes) \in SUBSET {"in", "out", "err"}
BY DEF Readiness

LEMMA PushTypes ==
  ASSUME TypeOK, NEW call \in AppCalls, Push(call)
  PROVE  appCalls' \in Seq(AppCalls)
BY DEF TypeOK, Push

LEMMA CallTypes ==
  ASSUME NEW fd \in Fds
  PROVE  /\ \A kind \in Notices : Call(kind, fd) \in AppCalls
         /\ Call("asyncConnect", fd) \in NetCalls
         /\ Call("listened", 0) \in AppCalls /\ Call("listenError", 0) \in AppCalls
         /\ Call("listened", 0) \in NetCalls /\ Call("listen", 0) \in NetCalls
BY DEF Call, AppCalls, NetCalls

\* The types of the objects and the kernel's view, where one socket is deleted or
\* attached.
SocketTypes ==
  /\ \A fd \in Fds : sock[fd] = "none" <=> kernel[fd] = "free"
  /\ sock \in [Fds -> {"none", "opened", "connecting", "attached"}]
  /\ kernel \in [Fds -> {"free", "syn", "up", "closed", "broken"}]
  /\ edges \in [Fds -> SUBSET {"in", "out", "err"}]
  /\ unread \in [Fds -> BOOLEAN]

LEMMA DeleteTypes ==
  ASSUME TypeOK, NEW fd \in Fds, Delete(fd)
  PROVE  SocketTypes'
BY DEF TypeOK, Delete, SocketTypes

LEMMA AddFailsTypes ==
  ASSUME TypeOK, NEW b \in Agents, NEW fd \in Fds, AddFails(b, fd)
  PROVE  channels' \in [Agents -> SUBSET Fds]
<1>1. channels \in [Agents -> SUBSET Fds]
  BY DEF TypeOK
<1>2. [channels EXCEPT ![b] = @ \union {fd}] \in [Agents -> SUBSET Fds]
  BY <1>1
<1> QED
  BY <1>1, <1>2 DEF AddFails

LEMMA AddTypes ==
  ASSUME TypeOK, NEW a \in Agents, NEW b \in Agents, NEW fd \in Fds, NEW notices \in Seq(AppCalls),
         AddTcpSocket(a, b, fd, notices), UNCHANGED unread,
         kernel' \in [Fds -> {"free", "syn", "up", "closed", "broken"}],
         kernel'[fd] # "free", \A g \in Fds \ {fd} : kernel'[g] = kernel[g]
  PROVE  /\ SocketTypes'
         /\ home' \in [Fds -> Agents] /\ builder' \in [Fds -> Agents]
         /\ channels' \in [Agents -> SUBSET Fds]
         /\ announcing' \in [Agents -> Seq(AppCalls)]
<1>1. Readiness(kernel'[fd], unread[fd]) \in SUBSET {"in", "out", "err"}
  BY ReadinessType DEF TypeOK
<1>2. SocketTypes'
  <2>1. edges' \in [Fds -> SUBSET {"in", "out", "err"}]
    BY <1>1 DEF TypeOK, AddTcpSocket
  <2>2. unread' \in [Fds -> BOOLEAN]
    BY DEF TypeOK
  <2>3. /\ sock' \in [Fds -> {"none", "opened", "connecting", "attached"}]
        /\ \A g \in Fds : sock'[g] = "none" <=> kernel'[g] = "free"
    BY DEF TypeOK, AddTcpSocket
  <2> QED
    BY <2>1, <2>2, <2>3 DEF SocketTypes
<1>3. home' \in [Fds -> Agents] /\ builder' \in [Fds -> Agents]
  BY DEF TypeOK, AddTcpSocket
<1>4. channels' \in [Agents -> SUBSET Fds]
  <2>1. channels \in [Agents -> SUBSET Fds] /\ channels' = [channels EXCEPT ![b] = @ \union {fd}]
    BY DEF TypeOK, AddTcpSocket
  <2> QED
    BY <2>1
<1>5. announcing' \in [Agents -> Seq(AppCalls)]
  BY DEF TypeOK, AddTcpSocket
<1> QED
  BY <1>2, <1>3, <1>4, <1>5

LEMMA EdgeTypes ==
  ASSUME TypeOK, NEW fd \in Fds, NEW S \in SUBSET {"in", "out", "err"}, Edge(fd, S)
  PROVE  edges' \in [Fds -> SUBSET {"in", "out", "err"}]
<1>1. \/ edges' = [edges EXCEPT ![fd] = @ \union S]
      \/ edges' = [edges EXCEPT ![fd] = @ \union (S \ {"in"})]
      \/ edges' = [edges EXCEPT ![fd] = @]
  BY DEF Edge
<1>2. edges \in [Fds -> SUBSET {"in", "out", "err"}]
  BY DEF TypeOK
<1>3. edges[fd] \union S \in SUBSET {"in", "out", "err"}
      /\ edges[fd] \union (S \ {"in"}) \in SUBSET {"in", "out", "err"}
  BY <1>2
<1> QED
  BY <1>1, <1>2, <1>3

-----------------------------------------------------------------------------
(* What the types need of the other parts. *)

\* Answers in a sequence of calls can be counted.
LEMMA PendingEmpty == \A fd : Pending(fd, <<>>) = 0
<1> SUFFICES ASSUME NEW fd PROVE Pending(fd, <<>>) = 0
  OBVIOUS
<1>1. {i \in DOMAIN <<>> : <<>>[i] \in Answers(fd)} = {}
  OBVIOUS
<1> QED
  BY <1>1, FS_EmptySet DEF Pending

Places(fd, q) == {i \in DOMAIN q : q[i] \in Answers(fd)}

LEMMA PlacesFinite ==
  ASSUME NEW fd, NEW S, NEW q \in Seq(S)
  PROVE  IsFiniteSet(Places(fd, q)) /\ Pending(fd, q) \in Nat /\ Pending(fd, q) = Cardinality(Places(fd, q))
<1>1. Len(q) \in Nat /\ Places(fd, q) \in SUBSET (1..Len(q))
  BY DEF Places
<1>2. IsFiniteSet(Places(fd, q))
  <2>1. IsFiniteSet(1..Len(q))
    BY <1>1, FS_Interval
  <2> QED
    BY <1>1, <2>1, FS_Subset
<1>3. Pending(fd, q) = Cardinality(Places(fd, q))
  BY DEF Pending, Places
<1> QED
  BY <1>2, <1>3, FS_CardinalityType

\* The wakeup callback of an attempt names a socket that is open.
LEMMA CalledFits ==
  ASSUME IInv, NEW a \in Agents, Called(a, "asyncConnect")
  PROVE  /\ Head(netCalls[a]).fd \in Fds
         /\ Head(netCalls[a]) = Call("asyncConnect", Head(netCalls[a]).fd)
         /\ sock[Head(netCalls[a]).fd] = "opened" /\ home[Head(netCalls[a]).fd] = a
<1>1. netCalls[a] \in Seq(NetCalls) /\ netCalls[a] # <<>> /\ Head(netCalls[a]).kind = "asyncConnect"
  BY DEF IInv, ConnectedFirst, TypeOK, Called
<1>2. Head(netCalls[a]) \in NetCalls /\ Head(netCalls[a]) = netCalls[a][1] /\ 1 \in DOMAIN netCalls[a]
  BY <1>1
<1>3. Head(netCalls[a]).fd \in Fds /\ Head(netCalls[a]) = Call("asyncConnect", Head(netCalls[a]).fd)
  BY <1>1, <1>2 DEF NetCalls, Call
<1> QED
  BY <1>1, <1>2, <1>3 DEF IInv, CallsMatch

LEMMA TypeStep == IInv /\ [Next]_vars => TypeOK'
<1> SUFFICES ASSUME IInv, [Next]_vars PROVE TypeOK'
  OBVIOUS
<1> USE ServiceAssumption
<1>0. TypeOK /\ Counted /\ Turn
  BY DEF IInv, ConnectedFirst
<1>1. CASE Listen
  <2>1. netCalls' \in [Agents -> Seq(NetCalls)]
    <3>1. Call("listen", 0) \in NetCalls
      BY DEF Call, NetCalls
    <3>2. netCalls \in [Agents -> Seq(NetCalls)]
      BY <1>0 DEF TypeOK
    <3>3. netCalls' = [netCalls EXCEPT ![ListenAgent] = Append(@, Call("listen", 0))]
      BY <1>1 DEF Listen, PushNet
    <3> QED
      BY <3>1, <3>2, <3>3
  <2>2. /\ listener' \in {"none", "opened", "listening", "deleted"}
        /\ UNCHANGED <<objects, appCalls, announcing, queues, app, network>>
    BY <1>1 DEF Listen
  <2> QED
    BY <1>0, <2>1, <2>2 DEF TypeOK, objects, queues, app, network
<1>2. ASSUME NEW fd \in Fds, NEW a \in Agents, AsyncConnect(fd, a) PROVE TypeOK'
  <2>1. netCalls' \in [Agents -> Seq(NetCalls)]
    BY <1>0, <1>2, CallTypes DEF AsyncConnect, PushNet, TypeOK
  <2>2. SocketTypes' /\ home' \in [Fds -> Agents]
    BY <1>0, <1>2 DEF AsyncConnect, TypeOK, SocketTypes
  <2>3. attempts' \in [Fds -> 0..MaxOpen] /\ opened' \in 0..MaxOpen
    <3>1. /\ attempts \in [Fds -> 0..MaxOpen] /\ opened \in 0..MaxOpen
          /\ attempts[fd] <= opened /\ opened < MaxOpen
          /\ attempts' = [attempts EXCEPT ![fd] = @ + 1] /\ opened' = opened + 1
      BY <1>0, <1>2 DEF AsyncConnect, TypeOK, Counted
    <3>2. attempts[fd] + 1 \in 0..MaxOpen /\ opened + 1 \in 0..MaxOpen
      BY <3>1
    <3> QED
      BY <3>1, <3>2
  <2>4. UNCHANGED <<builder, channels, timers, unsent, listener, appCalls, announcing, queues, told,
                    answers, turn, edges, unread, backlog, data>>
    BY <1>2 DEF AsyncConnect
  <2> QED
    BY <1>0, <2>1, <2>2, <2>3, <2>4 DEF TypeOK, SocketTypes, queues, turn
<1>3. ASSUME NEW fd \in Fds, NEW a \in Agents, SendMessage(fd, a) PROVE TypeOK'
  <2>1. sendQ' \in [Agents -> Seq(Fds)] /\ data' \in 0..MaxData
    BY <1>0, <1>3 DEF SendMessage, TypeOK
  <2> QED
    BY <1>0, <1>3, <2>1 DEF SendMessage, TypeOK, objects, calls, app
<1>4. CASE DoWakeupCallback
  <2>1. told' \subseteq Fds
    BY <1>0, <1>4 DEF DoWakeupCallback, OnHandleConnected, TypeOK
  <2>2. answers' \in [Fds -> Nat]
    <3>1. \A fd \in Fds : Pending(fd, appCalls) \in Nat /\ answers[fd] \in Nat
      BY <1>0, PlacesFinite DEF TypeOK
    <3>2. answers' = [fd \in Fds |-> answers[fd] + Pending(fd, appCalls)]
      BY <1>4 DEF DoWakeupCallback, OnHandleAnswers
    <3> QED
      BY <3>1, <3>2
  <2>3. appCalls' \in Seq(AppCalls) /\ expired' \subseteq Agents
    BY <1>4 DEF DoWakeupCallback
  <2> QED
    BY <1>0, <1>4, <2>1, <2>2, <2>3 DEF DoWakeupCallback, TypeOK, objects, queues, network
<1>5. ASSUME NEW a \in Agents, OnExporedPendingRead(a) PROVE TypeOK'
  <2>1. /\ receiveQ' \in [Agents -> Seq(Fds)] /\ handed' \in [Agents -> Nat]
        /\ early' \subseteq Fds /\ expired' \subseteq Agents
    <3>1. /\ receiveQ \in [Agents -> Seq(Fds)] /\ handed \in [Agents -> Nat]
          /\ early \subseteq Fds /\ expired \subseteq Agents /\ handed[a] <= Len(receiveQ[a])
      BY <1>0 DEF TypeOK, Turn
    <3>2. /\ receiveQ' = [receiveQ EXCEPT ![a] = SubSeq(@, handed[a] + 1, Len(@))]
          /\ handed' = [handed EXCEPT ![a] = Len(receiveQ[a]) - @]
          /\ early' = early \union ({receiveQ[a][i] : i \in 1..handed[a]} \ told)
          /\ expired' = expired \union {a}
      BY <1>5 DEF OnExporedPendingRead, OnReceiveQueueReady, Expires
    <3>3. SubSeq(receiveQ[a], handed[a] + 1, Len(receiveQ[a])) \in Seq(Fds)
      BY <3>1
    <3>4. Len(receiveQ[a]) - handed[a] \in Nat
      BY <3>1
    <3>5. \A i \in 1..handed[a] : receiveQ[a][i] \in Fds
      BY <3>1
    <3> QED
      BY <3>1, <3>2, <3>3, <3>4, <3>5
  <2> QED
    BY <1>0, <1>5, <2>1
    DEF OnExporedPendingRead, OnReceiveQueueReady, Expires, TypeOK, objects, calls, network
<1>6. CASE OnListenError
  <2>1. appCalls' \in Seq(AppCalls)
    BY <1>0, <1>6, PushTypes, CallTypes DEF OnListenError, Call, AppCalls
  <2> QED
    BY <1>0, <1>6, <2>1 DEF OnListenError, TypeOK, objects, queues, app, network
<1>7. CASE PeerConnects
  <2>1. backlog' \in 0..MaxOpen /\ opened' \in 0..MaxOpen
    <3>1. /\ backlog \in 0..MaxOpen /\ opened \in 0..MaxOpen /\ backlog <= opened /\ opened < MaxOpen
          /\ backlog' = backlog + 1 /\ opened' = opened + 1
      BY <1>0, <1>7 DEF PeerConnects, TypeOK, Counted
    <3> QED
      BY <3>1
  <2> QED
    BY <1>0, <1>7, <2>1 DEF PeerConnects, TypeOK, objects, calls, queues, app
<1>8. ASSUME NEW a \in Agents, Announce(a) PROVE TypeOK'
  <2>1. Head(announcing[a]) \in AppCalls /\ announcing' \in [Agents -> Seq(AppCalls)]
    BY <1>0, <1>8 DEF Announce, TypeOK
  <2>2. appCalls' \in Seq(AppCalls)
    BY <1>0, <1>8, <2>1, PushTypes DEF Announce
  <2> QED
    BY <1>0, <1>8, <2>1, <2>2 DEF Announce, TypeOK, objects, queues, app, network
<1>9. ASSUME NEW a \in Agents, NEW b \in Agents, NEW fd \in Fds, OnListenRead(a, b, fd)
      PROVE  TypeOK'
  <2>1. backlog' \in 0..MaxOpen
    BY <1>0, <1>9 DEF OnListenRead, TypeOK
  <2>2. CASE /\ kernel' = [kernel EXCEPT ![fd] = "up"]
             /\ AddTcpSocket(a, b, fd, <<Call("connected", fd)>>)
             /\ UNCHANGED unread
    <3>1. <<Call("connected", fd)>> \in Seq(AppCalls)
      BY CallTypes DEF Notices
    <3>2. /\ SocketTypes' /\ home' \in [Fds -> Agents] /\ builder' \in [Fds -> Agents]
          /\ channels' \in [Agents -> SUBSET Fds] /\ announcing' \in [Agents -> Seq(AppCalls)]
      <4>1. /\ kernel' \in [Fds -> {"free", "syn", "up", "closed", "broken"}]
            /\ kernel'[fd] # "free" /\ \A g \in Fds \ {fd} : kernel'[g] = kernel[g]
        BY <1>0, <2>2 DEF TypeOK
      <4> QED
        BY <1>0, <2>2, <3>1, <4>1, AddTypes
    <3> QED
      BY <1>0, <1>9, <2>1, <2>2, <3>2 DEF OnListenRead, TypeOK, SocketTypes, queues, app
  <2>3. CASE AddFails(b, fd) /\ Delete(fd) /\ UNCHANGED <<home, builder, announcing>>
    BY <1>0, <1>9, <2>1, <2>3, AddFailsTypes, DeleteTypes
    DEF OnListenRead, TypeOK, SocketTypes, queues, app
  <2> QED
    BY <1>9, <2>2, <2>3 DEF OnListenRead
<1>10. ASSUME NEW a \in Agents, OnHandleListen(a) PROVE TypeOK'
  <2>1. netCalls' \in [Agents -> Seq(NetCalls)] /\ appCalls' \in Seq(AppCalls)
    <3>1. Call("listened", 0) \in NetCalls /\ Call("listenError", 0) \in AppCalls
      BY DEF Call, NetCalls, AppCalls
    <3>2. Tail(netCalls[a]) \in Seq(NetCalls)
      BY <1>0, <1>10 DEF TypeOK, OnHandleListen, Called
    <3>3. Append(Tail(netCalls[a]), Call("listened", 0)) \in Seq(NetCalls)
      BY <3>1, <3>2
    <3>4. netCalls \in [Agents -> Seq(NetCalls)] /\ appCalls \in Seq(AppCalls)
      BY <1>0 DEF TypeOK
    <3>5. \/ netCalls' = [netCalls EXCEPT ![a] = Append(Tail(@), Call("listened", 0))] /\ UNCHANGED appCalls
          \/ netCalls' = [netCalls EXCEPT ![a] = Tail(@)] /\ Push(Call("listenError", 0))
      BY <1>10 DEF OnHandleListen, BuildListenSocket, Done
    <3> QED
      BY <1>0, <3>1, <3>2, <3>3, <3>4, <3>5, PushTypes
  <2> QED
    BY <1>0, <1>10, <2>1 DEF OnHandleListen, BuildListenSocket, TypeOK, objects, queues, app, network
<1>11. ASSUME NEW a \in Agents, OnHandleListened(a) PROVE TypeOK'
  <2>1. netCalls' \in [Agents -> Seq(NetCalls)]
    BY <1>0, <1>11 DEF TypeOK, OnHandleListened, Called, Done
  <2> QED
    BY <1>0, <1>11, <2>1 DEF OnHandleListened, TypeOK, objects, queues, app, network
<1>12. ASSUME NEW a \in Agents, OnHandleAsyncConnect(a) PROVE TypeOK'
  <2> DEFINE fd == Head(netCalls[a]).fd
  <2>1. fd \in Fds /\ sock[fd] = "opened"
    BY <1>12, CalledFits DEF OnHandleAsyncConnect
  <2>2. netCalls' \in [Agents -> Seq(NetCalls)]
    BY <1>0, <1>12 DEF TypeOK, OnHandleAsyncConnect, Called, Done
  <2>3. /\ SocketTypes' /\ appCalls' \in Seq(AppCalls)
        /\ timers' \in [Agents -> SUBSET Fds]
    <3>1. CASE /\ sock' = [sock EXCEPT ![fd] = "connecting"]
               /\ timers' = [timers EXCEPT ![a] = @ \union {fd}]
               /\ edges' = [edges EXCEPT ![fd] = (Readiness(kernel[fd], FALSE) \ {"in"})
                                       \union IF kernel[fd] = "up" THEN {"out"} ELSE {}]
               /\ UNCHANGED <<appCalls, kernel, unread>>
      <4>1. (Readiness(kernel[fd], FALSE) \ {"in"}) \union (IF kernel[fd] = "up" THEN {"out"} ELSE {})
              \in SUBSET {"in", "out", "err"}
        BY ReadinessType
      <4>2. edges' \in [Fds -> SUBSET {"in", "out", "err"}]
        BY <1>0, <3>1, <4>1 DEF TypeOK
      <4>3. /\ sock' \in [Fds -> {"none", "opened", "connecting", "attached"}]
            /\ \A g \in Fds : sock'[g] = "none" <=> kernel'[g] = "free"
        BY <1>0, <2>1, <3>1 DEF TypeOK
      <4>4. timers' \in [Agents -> SUBSET Fds]
        <5>1. /\ timers \in [Agents -> SUBSET Fds]
              /\ timers' = [timers EXCEPT ![a] = @ \union {fd}] /\ fd \in Fds
          BY <1>0, <2>1, <3>1 DEF TypeOK
        <5> HIDE DEF fd
        <5> QED
          BY <5>1
      <4> QED
        BY <1>0, <3>1, <4>2, <4>3, <4>4 DEF TypeOK, SocketTypes
    <3>2. CASE Delete(fd) /\ Push(Call("asyncError", fd)) /\ UNCHANGED timers
      BY <1>0, <2>1, <3>2, DeleteTypes, PushTypes, CallTypes DEF TypeOK, Notices
    <3> QED
      BY <1>12, <3>1, <3>2 DEF OnHandleAsyncConnect
  <2> QED
    BY <1>0, <1>12, <2>2, <2>3 DEF OnHandleAsyncConnect, TypeOK, SocketTypes, queues, app
<1>13. ASSUME NEW a \in Agents, OnSendQueueReady(a) PROVE TypeOK'
  <2>1. sendQ' \in [Agents -> Seq(Fds)] /\ Head(sendQ[a]) \in Fds
    <3>1. sendQ \in [Agents -> Seq(Fds)] /\ sendQ[a] # <<>> /\ sendQ' = [sendQ EXCEPT ![a] = Tail(@)]
      BY <1>0, <1>13 DEF TypeOK, OnSendQueueReady
    <3>2. Tail(sendQ[a]) \in Seq(Fds) /\ Head(sendQ[a]) \in Fds
      BY <3>1
    <3> QED
      <4>1. sendQ' \in [Agents -> Seq(Fds)]
        BY <3>1, <3>2, SMTT(20)
      <4> QED
        BY <3>2, <4>1
  <2>2. unsent' \subseteq Fds
    <3>1. unsent' = unsent \/ \E fd \in Fds : unsent' = unsent \union {fd}
      BY <1>13, <2>1 DEF OnSendQueueReady, ChannelSends, FreedChannelSends
    <3> QED
      BY <1>0, <3>1 DEF TypeOK
  <2> QED
    BY <1>0, <1>13, <2>1, <2>2 DEF OnSendQueueReady, TypeOK, calls, app, network
<1>14. ASSUME NEW a \in Agents, NEW b \in Agents, NEW fd \in Fds, OnAsyncConnectSocketWrite(a, b, fd)
       PROVE  TypeOK'
  <2>1. timers' \in [Agents -> SUBSET Fds]
    BY <1>0, <1>14 DEF OnAsyncConnectSocketWrite, RemoveAsyncConnectSocketTimer, TypeOK
  <2>2. CASE /\ UNCHANGED <<appCalls, kernel, unread>>
             /\ AddTcpSocket(a, b, fd, <<Call("connected", fd), Call("asyncConnected", fd)>>)
    <3>1. <<Call("connected", fd), Call("asyncConnected", fd)>> \in Seq(AppCalls)
      BY CallTypes DEF Notices
    <3>2. kernel[fd] # "free"
      BY <1>0, <1>14 DEF OnAsyncConnectSocketWrite, Event, TypeOK
    <3>3. /\ SocketTypes' /\ home' \in [Fds -> Agents] /\ builder' \in [Fds -> Agents]
          /\ channels' \in [Agents -> SUBSET Fds] /\ announcing' \in [Agents -> Seq(AppCalls)]
      BY <1>0, <2>2, <3>1, <3>2, AddTypes DEF TypeOK
    <3> QED
      BY <1>0, <1>14, <2>1, <2>2, <3>3 DEF OnAsyncConnectSocketWrite, TypeOK, SocketTypes, queues, app
  <2>3. CASE /\ AddFails(b, fd) /\ Delete(fd)
             /\ Push(Call("asyncError", fd))
             /\ UNCHANGED <<home, builder, announcing>>
    <3>1. appCalls' \in Seq(AppCalls)
      BY <1>0, <2>3, PushTypes, CallTypes DEF Notices
    <3> QED
      BY <1>0, <1>14, <2>1, <2>3, <3>1, AddFailsTypes, DeleteTypes
      DEF OnAsyncConnectSocketWrite, TypeOK, SocketTypes, queues, app
  <2> QED
    BY <1>14, <2>2, <2>3 DEF OnAsyncConnectSocketWrite
<1>15. ASSUME NEW a \in Agents, NEW fd \in Fds, OnAsyncConnectError(a, fd) \/ OnAsyncConnectTimeout(a, fd)
       PROVE  TypeOK'
  <2>1. /\ Delete(fd) /\ Push(Call("asyncError", fd))
        /\ timers' = [timers EXCEPT ![a] = @ \ {fd}]
        /\ UNCHANGED <<home, builder, channels, unsent, listener, netCalls, announcing, queues, app,
                       backlog, opened, data>>
    BY <1>15 DEF OnAsyncConnectError, OnAsyncConnectTimeout, RemoveAsyncConnectSocketTimer
  <2>2. SocketTypes' /\ appCalls' \in Seq(AppCalls) /\ timers' \in [Agents -> SUBSET Fds]
    <3>1. SocketTypes' /\ appCalls' \in Seq(AppCalls)
      BY <1>0, <2>1, PushTypes, DeleteTypes, CallTypes DEF Notices
    <3>2. timers' \in [Agents -> SUBSET Fds]
      BY <1>0, <2>1 DEF TypeOK
    <3> QED
      BY <3>1, <3>2
  <2> QED
    BY <1>0, <2>1, <2>2 DEF TypeOK, SocketTypes, queues, app
<1>16. ASSUME NEW a \in Agents, NEW fd \in Fds, OnSocketRead(a, fd) PROVE TypeOK'
  <2>1. /\ edges' \in [Fds -> SUBSET {"in", "out", "err"}]
        /\ unread' \in [Fds -> BOOLEAN]
        /\ receiveQ' \in [Agents -> Seq(Fds)]
    <3>1. edges' \in [Fds -> SUBSET {"in", "out", "err"}]
      BY <1>0, <1>16 DEF OnSocketRead, TakeEdge, TypeOK
    <3>2. unread' \in [Fds -> BOOLEAN]
      BY <1>0, <1>16 DEF OnSocketRead, TypeOK
    <3>3. receiveQ' \in [Agents -> Seq(Fds)]
      <4>1. /\ receiveQ \in [Agents -> Seq(Fds)]
            /\ receiveQ' = receiveQ \/ receiveQ' = [receiveQ EXCEPT ![a] = Append(@, fd)]
        BY <1>0, <1>16 DEF OnSocketRead, TypeOK
      <4>2. Append(receiveQ[a], fd) \in Seq(Fds)
        BY <4>1
      <4> QED
        BY <4>1, <4>2
    <3> QED
      BY <3>1, <3>2, <3>3
  <2>2. appCalls' \in Seq(AppCalls) /\ UNCHANGED objects
    BY <1>0, <1>16, PushTypes, CallTypes DEF OnSocketRead, TypeOK, Notices, CloseTcpSocket
  <2> QED
    BY <1>0, <1>16, <2>1, <2>2 DEF OnSocketRead, TypeOK, objects, app
<1>17. ASSUME NEW a \in Agents, NEW fd \in Fds, OnSocketWrite(a, fd) \/ OnSocketError(a, fd)
       PROVE  TypeOK'
  <2>1. /\ edges' = [edges EXCEPT ![fd] = @ \ {"out"}] \/ edges' = [edges EXCEPT ![fd] = @ \ {"err"}]
        /\ Push(Call("error", fd)) \/ UNCHANGED appCalls
        /\ unsent' = unsent \/ unsent' = unsent \ {fd}
        /\ UNCHANGED <<sock, home, builder, channels, timers, listener, netCalls, announcing, queues,
                       app, kernel, unread, backlog, opened, data>>
    BY <1>17 DEF OnSocketWrite, OnSocketError, TakeEdge, CloseTcpSocket, objects
  <2>2. edges' \in [Fds -> SUBSET {"in", "out", "err"}]
    <3>1. edges \in [Fds -> SUBSET {"in", "out", "err"}]
      BY <1>0 DEF TypeOK
    <3>2. CASE edges' = [edges EXCEPT ![fd] = @ \ {"out"}]
      BY <3>1, <3>2
    <3>3. CASE edges' = [edges EXCEPT ![fd] = @ \ {"err"}]
      BY <3>1, <3>3
    <3> QED
      BY <2>1, <3>2, <3>3
  <2>3. appCalls' \in Seq(AppCalls)
    BY <1>0, <2>1, PushTypes, CallTypes DEF TypeOK, Notices
  <2> QED
    BY <1>0, <2>1, <2>2, <2>3 DEF TypeOK, queues, app
<1>18. ASSUME NEW fd \in Fds,
              PeerAnswers(fd) \/ PeerSends(fd) \/ PeerCloses(fd) \/ PeerBreaks(fd)
       PROVE  TypeOK'
  <2>0. /\ kernel \in [Fds -> {"free", "syn", "up", "closed", "broken"}]
        /\ unread \in [Fds -> BOOLEAN] /\ data \in 0..MaxData
    BY <1>0 DEF TypeOK
  <2>1. edges' \in [Fds -> SUBSET {"in", "out", "err"}]
    BY <1>0, <1>18, EdgeTypes DEF PeerAnswers, PeerSends, PeerCloses, PeerBreaks
  <2>2. /\ kernel' \in [Fds -> {"free", "syn", "up", "closed", "broken"}]
        /\ \A g \in Fds : kernel'[g] = "free" <=> kernel[g] = "free"
        /\ unread' \in [Fds -> BOOLEAN] /\ data' \in 0..MaxData
    <3>1. CASE PeerAnswers(fd)
      BY <2>0, <3>1 DEF PeerAnswers
    <3>2. CASE PeerSends(fd)
      BY <2>0, <3>2 DEF PeerSends
    <3>3. CASE PeerCloses(fd)
      BY <2>0, <3>3 DEF PeerCloses
    <3>4. CASE PeerBreaks(fd)
      BY <2>0, <3>4 DEF PeerBreaks
    <3> QED
      BY <1>18, <3>1, <3>2, <3>3, <3>4
  <2>3. UNCHANGED <<sock, home, builder, channels, timers, unsent, listener, netCalls, appCalls, announcing,
                   receiveQ, sendQ, told, attempts, answers, turn, backlog, opened>>
    BY <1>18 DEF PeerAnswers, PeerSends, PeerCloses, PeerBreaks, objects, calls, queues, app, turn
  <2> QED
    BY <1>0, <2>1, <2>2, <2>3 DEF TypeOK, turn
<1>19. CASE UNCHANGED vars
  BY <1>0, <1>19 DEF vars, TypeOK, objects, calls, queues, app, network
<1> QED
  BY <1>1, <1>2, <1>3, <1>4, <1>5, <1>6, <1>7, <1>8, <1>9, <1>10, <1>11, <1>12, <1>13, <1>14, <1>15,
     <1>16, <1>17, <1>18, <1>19
  DEF Next, AppStep, NetworkStep

-----------------------------------------------------------------------------
(* What happens to sockets: steps that leave them and the attempts alone, and  *)
(* the three ways of an attempt.                                               *)

Quiet == UNCHANGED <<sock, home, builder, timers, attempts>>

\* What is deleted was opened for an attempt, or is not told of at all.
AttemptFails(fd) ==
  /\ sock[fd] \in {"opened", "connecting"}
  /\ sock' = [sock EXCEPT ![fd] = "none"]
  /\ Push(Call("asyncError", fd))
  /\ UNCHANGED <<home, builder, announcing, told, attempts, answers, turn, receiveQ, opened, backlog>>

NeverOpened(fd) ==
  /\ sock[fd] = "none"
  /\ UNCHANGED <<sock, home, builder, announcing, appCalls, told, attempts, answers, turn, receiveQ,
                 opened, timers, netCalls>>

Attaches(a, b, fd, notices) ==
  /\ Ready(a)
  /\ sock' = [sock EXCEPT ![fd] = "attached"]
  /\ home' = [home EXCEPT ![fd] = b]
  /\ builder' = [builder EXCEPT ![fd] = a]
  /\ announcing' = [announcing EXCEPT ![a] = notices]
  /\ UNCHANGED <<appCalls, told, attempts, answers, turn, receiveQ, opened, netCalls>>

Accepts(a, b, fd) ==
  /\ sock[fd] = "none" /\ Attaches(a, b, fd, <<Call("connected", fd)>>) /\ UNCHANGED timers

Connects(a, b, fd) ==
  /\ sock[fd] = "connecting" /\ home[fd] = a
  /\ timers' = [timers EXCEPT ![a] = @ \ {fd}]
  /\ Attaches(a, b, fd, <<Call("connected", fd), Call("asyncConnected", fd)>>)

LEMMA ListenReadSplits ==
  ASSUME IInv, NEW a \in Agents, NEW b \in Agents, NEW fd \in Fds, OnListenRead(a, b, fd)
  PROVE  /\ Accepts(a, b, fd) \/ NeverOpened(fd)
         /\ backlog' = backlog - 1 /\ opened' = opened
<1>1. sock[fd] = "none"
  BY DEF IInv, ConnectedFirst, TypeOK, OnListenRead
<1>2. ASSUME Delete(fd) PROVE sock' = sock
  BY <1>1, <1>2 DEF Delete, IInv, ConnectedFirst, TypeOK
<1> QED
  BY <1>1, <1>2 DEF OnListenRead, Accepts, Attaches, NeverOpened, AddTcpSocket, queues, app, turn

LEMMA ConnectWriteSplits ==
  ASSUME NEW a \in Agents, NEW b \in Agents, NEW fd \in Fds, OnAsyncConnectSocketWrite(a, b, fd)
  PROVE  \/ Connects(a, b, fd) /\ UNCHANGED backlog
         \/ /\ AttemptFails(fd) /\ sock[fd] = "connecting" /\ home[fd] = a
            /\ timers' = [timers EXCEPT ![a] = @ \ {fd}] /\ UNCHANGED netCalls
BY DEF OnAsyncConnectSocketWrite, Event, Connects, Attaches, AddTcpSocket, AttemptFails, Delete,
       RemoveAsyncConnectSocketTimer, queues, app, turn

LEMMA ConnectEnds ==
  ASSUME IInv, NEW a \in Agents, NEW fd \in Fds,
         OnAsyncConnectError(a, fd) \/ OnAsyncConnectTimeout(a, fd)
  PROVE  /\ AttemptFails(fd) /\ sock[fd] = "connecting" /\ home[fd] = a
         /\ timers' = [timers EXCEPT ![a] = @ \ {fd}] /\ UNCHANGED netCalls
<1>1. sock[fd] = "connecting" /\ home[fd] = a
  BY DEF IInv, AnsweredOnce, OnAsyncConnectError, Event, OnAsyncConnectTimeout
<1> QED
  BY <1>1 DEF OnAsyncConnectError, OnAsyncConnectTimeout, AttemptFails, Delete,
              RemoveAsyncConnectSocketTimer, queues, app, turn

LEMMA AsyncConnectSplits ==
  ASSUME IInv, NEW a \in Agents, OnHandleAsyncConnect(a), NEW fd, fd = Head(netCalls[a]).fd
  PROVE  /\ fd \in Fds /\ sock[fd] = "opened" /\ home[fd] = a /\ Done(a)
         /\ \/ /\ sock' = [sock EXCEPT ![fd] = "connecting"]
               /\ timers' = [timers EXCEPT ![a] = @ \union {fd}]
               /\ UNCHANGED <<home, builder, announcing, appCalls, told, attempts, answers, turn, receiveQ,
                              opened, backlog>>
            \/ AttemptFails(fd) /\ UNCHANGED timers
<1>1. fd \in Fds /\ sock[fd] = "opened" /\ home[fd] = a
  BY CalledFits DEF OnHandleAsyncConnect
<1> QED
  BY <1>1 DEF OnHandleAsyncConnect, AttemptFails, Delete, queues, app, turn

LEMMA QuietSteps ==
  ASSUME \/ Listen \/ DoWakeupCallback \/ OnListenError \/ PeerConnects \/ UNCHANGED vars
         \/ \E fd \in Fds : \/ PeerAnswers(fd) \/ PeerSends(fd) \/ PeerCloses(fd) \/ PeerBreaks(fd)
                            \/ \E a \in Agents : SendMessage(fd, a)
         \/ \E a \in Agents :
              \/ Announce(a) \/ OnHandleListen(a) \/ OnHandleListened(a) \/ OnSendQueueReady(a)
              \/ OnExporedPendingRead(a)
              \/ \E fd \in Fds : OnSocketRead(a, fd) \/ OnSocketWrite(a, fd) \/ OnSocketError(a, fd)
  PROVE  Quiet
<1>1. CASE Listen \/ DoWakeupCallback \/ OnListenError \/ PeerConnects \/ UNCHANGED vars
  BY <1>1 DEF Quiet, Listen, DoWakeupCallback, OnListenError, PeerConnects, vars, objects, app
<1>2. ASSUME NEW fd \in Fds,
             \/ PeerAnswers(fd) \/ PeerSends(fd) \/ PeerCloses(fd) \/ PeerBreaks(fd)
             \/ \E a \in Agents : SendMessage(fd, a)
      PROVE  Quiet
  BY <1>2 DEF Quiet, PeerAnswers, PeerSends, PeerCloses, PeerBreaks, SendMessage, objects, app
<1>3. ASSUME NEW a \in Agents,
             \/ Announce(a) \/ OnHandleListen(a) \/ OnHandleListened(a) \/ OnSendQueueReady(a)
             \/ OnExporedPendingRead(a)
      PROVE  Quiet
  BY <1>3 DEF Quiet, Announce, OnHandleListen, OnHandleListened, OnSendQueueReady, OnExporedPendingRead,
              Expires, objects, app
<1>4. ASSUME NEW a \in Agents, NEW fd \in Fds,
             OnSocketRead(a, fd) \/ OnSocketWrite(a, fd) \/ OnSocketError(a, fd)
      PROVE  Quiet
  BY <1>4 DEF Quiet, OnSocketRead, OnSocketWrite, OnSocketError, CloseTcpSocket, objects, app
<1> QED
  BY <1>1, <1>2, <1>3, <1>4

-----------------------------------------------------------------------------
(* Connect timers. *)

LEMMA TimersStep == IInv /\ [Next]_vars => TimersRight'
<1> SUFFICES ASSUME IInv, [Next]_vars PROVE TimersRight'
  OBVIOUS
<1>1. /\ TimersRight
      /\ sock \in [Fds -> {"none", "opened", "connecting", "attached"}] /\ home \in [Fds -> Agents]
      /\ timers \in [Agents -> SUBSET Fds] /\ \A fd \in Fds : sock[fd] = "none" <=> kernel[fd] = "free"
  BY DEF IInv, AnsweredOnce, TimersRight, ConnectedFirst, TypeOK
<1>2. ASSUME Quiet PROVE TimersRight'
  BY <1>1, <1>2 DEF Quiet, TimersRight
<1>3. ASSUME NEW a \in Agents, NEW fd \in Fds, sock[fd] = "connecting", home[fd] = a,
             timers' = [timers EXCEPT ![a] = @ \ {fd}], sock'[fd] # "connecting",
             \A g \in Fds \ {fd} : sock'[g] = sock[g] /\ home'[g] = home[g]
      PROVE  TimersRight'
  BY <1>1, <1>3 DEF TimersRight
<1>4. ASSUME NEW fd \in Fds, sock[fd] # "connecting", sock'[fd] # "connecting", UNCHANGED timers,
             \A g \in Fds \ {fd} : sock'[g] = sock[g] /\ home'[g] = home[g]
      PROVE  TimersRight'
  BY <1>1, <1>4 DEF TimersRight
<1>5. ASSUME NEW fd \in Fds, NEW a \in Agents, AsyncConnect(fd, a) PROVE TimersRight'
  BY <1>1, <1>4, <1>5 DEF AsyncConnect
<1>6. ASSUME NEW a \in Agents, NEW b \in Agents, NEW fd \in Fds, OnListenRead(a, b, fd)
      PROVE  TimersRight'
  <2>1. Accepts(a, b, fd) \/ NeverOpened(fd)
    BY <1>6, ListenReadSplits
  <2> QED
    BY <1>1, <1>4, <2>1 DEF Accepts, Attaches, NeverOpened
<1>7. ASSUME NEW a \in Agents, NEW b \in Agents, NEW fd \in Fds, OnAsyncConnectSocketWrite(a, b, fd)
      PROVE  TimersRight'
  <2>1. \/ Connects(a, b, fd)
        \/ /\ AttemptFails(fd) /\ sock[fd] = "connecting" /\ home[fd] = a
           /\ timers' = [timers EXCEPT ![a] = @ \ {fd}]
    BY <1>7, ConnectWriteSplits
  <2> QED
    BY <1>1, <1>3, <2>1 DEF Connects, Attaches, AttemptFails
<1>8. ASSUME NEW a \in Agents, NEW fd \in Fds, OnAsyncConnectError(a, fd) \/ OnAsyncConnectTimeout(a, fd)
      PROVE  TimersRight'
  <2>1. /\ AttemptFails(fd) /\ sock[fd] = "connecting" /\ home[fd] = a
        /\ timers' = [timers EXCEPT ![a] = @ \ {fd}]
    BY <1>8, ConnectEnds
  <2> QED
    BY <1>1, <1>3, <2>1 DEF AttemptFails
<1>9. ASSUME NEW a \in Agents, OnHandleAsyncConnect(a) PROVE TimersRight'
  <2> DEFINE fd == Head(netCalls[a]).fd
  <2>1. /\ fd \in Fds /\ sock[fd] = "opened" /\ home[fd] = a
        /\ \/ /\ sock' = [sock EXCEPT ![fd] = "connecting"] /\ UNCHANGED home
              /\ timers' = [timers EXCEPT ![a] = @ \union {fd}]
           \/ AttemptFails(fd) /\ UNCHANGED timers
    BY <1>9, AsyncConnectSplits
  <2> HIDE DEF fd
  <2>2. CASE /\ sock' = [sock EXCEPT ![fd] = "connecting"] /\ UNCHANGED home
             /\ timers' = [timers EXCEPT ![a] = @ \union {fd}]
    BY <1>1, <2>1, <2>2 DEF TimersRight
  <2>3. CASE AttemptFails(fd) /\ UNCHANGED timers
    BY <1>1, <1>4, <2>1, <2>3 DEF AttemptFails
  <2> QED
    BY <2>1, <2>2, <2>3
<1> QED
  BY <1>2, <1>5, <1>6, <1>7, <1>8, <1>9, QuietSteps DEF Next, AppStep, NetworkStep

-----------------------------------------------------------------------------
(* What is counted. *)

LEMMA CountedStep == IInv /\ [Next]_vars => Counted'
<1> SUFFICES ASSUME IInv, [Next]_vars PROVE Counted'
  OBVIOUS
<1>1. /\ Counted /\ attempts \in [Fds -> 0..MaxOpen]
      /\ opened \in 0..MaxOpen /\ backlog \in 0..MaxOpen
  BY DEF IInv, ConnectedFirst, TypeOK
<1>2. ASSUME attempts' = attempts, opened' = opened, backlog' \in {backlog, backlog - 1} PROVE Counted'
  BY <1>1, <1>2, ServiceAssumption DEF Counted
<1>3. CASE PeerConnects
  BY <1>1, <1>3, ServiceAssumption DEF Counted, PeerConnects, app
<1>4. ASSUME NEW fd \in Fds, NEW a \in Agents, AsyncConnect(fd, a) PROVE Counted'
  BY <1>1, <1>4, ServiceAssumption DEF Counted, AsyncConnect
<1>5. ASSUME NEW a \in Agents, NEW b \in Agents, NEW fd \in Fds, OnListenRead(a, b, fd) PROVE Counted'
  BY <1>2, <1>5 DEF OnListenRead, app
<1>6. CASE Listen \/ DoWakeupCallback \/ OnListenError \/ UNCHANGED vars
  BY <1>2, <1>6 DEF Listen, DoWakeupCallback, OnListenError, vars, app, network
<1>7. ASSUME NEW fd \in Fds,
             \/ PeerAnswers(fd) \/ PeerSends(fd) \/ PeerCloses(fd) \/ PeerBreaks(fd)
             \/ \E a \in Agents : SendMessage(fd, a)
      PROVE  Counted'
  BY <1>2, <1>7 DEF PeerAnswers, PeerSends, PeerCloses, PeerBreaks, SendMessage, app
<1>8. ASSUME NEW a \in Agents,
             \/ Announce(a) \/ OnHandleListen(a) \/ OnHandleListened(a) \/ OnSendQueueReady(a)
             \/ OnExporedPendingRead(a) \/ OnHandleAsyncConnect(a)
      PROVE  Counted'
  BY <1>2, <1>8 DEF Announce, OnHandleListen, OnHandleListened, OnSendQueueReady, OnExporedPendingRead,
                    Expires, OnHandleAsyncConnect, app, network
<1>9. ASSUME NEW a \in Agents, NEW fd \in Fds,
             \/ OnSocketRead(a, fd) \/ OnSocketWrite(a, fd) \/ OnSocketError(a, fd)
             \/ OnAsyncConnectError(a, fd) \/ OnAsyncConnectTimeout(a, fd)
             \/ \E b \in Agents : OnAsyncConnectSocketWrite(a, b, fd)
      PROVE  Counted'
  BY <1>2, <1>9 DEF OnSocketRead, OnSocketWrite, OnSocketError, OnAsyncConnectError,
                    OnAsyncConnectTimeout, OnAsyncConnectSocketWrite, app
<1> QED
  BY <1>1, <1>3, <1>4, <1>5, <1>6, <1>7, <1>8, <1>9 DEF Next, AppStep, NetworkStep

-----------------------------------------------------------------------------
(* Callbacks of attempts. *)

\* CallsMatch for one loop, where sock and home may be those after a step.
Matches(a, q) ==
  \A i \in DOMAIN q :
    q[i].kind = "asyncConnect" =>
      /\ sock[q[i].fd] = "opened" /\ home[q[i].fd] = a
      /\ \A j \in DOMAIN q : q[j] = q[i] => i = j

LEMMA MatchesTail ==
  ASSUME NEW a, NEW q \in Seq(NetCalls), q # <<>>, Matches(a, q)
  PROVE  /\ Tail(q) \in Seq(NetCalls) /\ Matches(a, Tail(q))
         /\ \A i \in DOMAIN Tail(q) : Tail(q)[i].kind = "asyncConnect" => Tail(q)[i] # Head(q)
<1> DEFINE t == Tail(q)
<1>1. /\ t \in Seq(NetCalls) /\ Head(q) = q[1] /\ 1 \in DOMAIN q
      /\ \A i \in DOMAIN t : i \in Nat \ {0} /\ i + 1 \in DOMAIN q /\ t[i] = q[i + 1]
  OBVIOUS
<1> HIDE DEF t
<1>2. Matches(a, t)
  <2> SUFFICES ASSUME NEW i \in DOMAIN t, t[i].kind = "asyncConnect"
               PROVE  /\ sock[t[i].fd] = "opened" /\ home[t[i].fd] = a
                      /\ \A j \in DOMAIN t : t[j] = t[i] => i = j
    BY DEF Matches
  <2>1. sock[t[i].fd] = "opened" /\ home[t[i].fd] = a
    BY <1>1 DEF Matches
  <2>2. ASSUME NEW j \in DOMAIN t, t[j] = t[i] PROVE i = j
    <3>1. i + 1 = j + 1
      BY <1>1, <2>2 DEF Matches
    <3> QED
      BY <1>1, <3>1
  <2> QED
    BY <2>1, <2>2
<1>3. ASSUME NEW i \in DOMAIN t, t[i].kind = "asyncConnect", t[i] = Head(q) PROVE FALSE
  <2>1. i + 1 = 1
    BY <1>1, <1>3 DEF Matches
  <2> QED
    BY <1>1, <2>1
<1> QED
  BY <1>1, <1>2, <1>3 DEF t

LEMMA MatchesAppend ==
  ASSUME NEW a, NEW q \in Seq(NetCalls), NEW call \in NetCalls, Matches(a, q),
         call.kind = "asyncConnect" =>
           /\ sock[call.fd] = "opened" /\ home[call.fd] = a
           /\ \A i \in DOMAIN q : q[i] # call
  PROVE  Append(q, call) \in Seq(NetCalls) /\ Matches(a, Append(q, call))
<1> DEFINE r == Append(q, call)
<1>1. /\ r \in Seq(NetCalls) /\ Len(r) = Len(q) + 1 /\ r[Len(q) + 1] = call
      /\ \A i \in 1..Len(q) : r[i] = q[i]
  BY AppendProperties
<1>2. DOMAIN r = 1..(Len(q) + 1) /\ DOMAIN q = 1..Len(q) /\ Len(q) \in Nat
  BY <1>1
<1> HIDE DEF r
<1>3. \A i \in DOMAIN r : (i \in DOMAIN q /\ r[i] = q[i]) \/ (i = Len(q) + 1 /\ r[i] = call)
  BY <1>1, <1>2
<1>4. Matches(a, r)
  <2> SUFFICES ASSUME NEW i \in DOMAIN r, r[i].kind = "asyncConnect"
               PROVE  /\ sock[r[i].fd] = "opened" /\ home[r[i].fd] = a
                      /\ \A j \in DOMAIN r : r[j] = r[i] => i = j
    BY DEF Matches
  <2>1. CASE i \in DOMAIN q /\ r[i] = q[i]
    BY <1>3, <2>1 DEF Matches
  <2>2. CASE i = Len(q) + 1 /\ r[i] = call
    BY <1>3, <2>2
  <2> QED
    BY <1>3, <2>1, <2>2
<1> QED
  BY <1>1, <1>4 DEF r

LEMMA CallsStep == IInv /\ [Next]_vars => CallsMatch'
<1> SUFFICES ASSUME IInv, [Next]_vars PROVE CallsMatch'
  OBVIOUS
<1>1. /\ \A a \in Agents : Matches(a, netCalls[a])
      /\ sock \in [Fds -> {"none", "opened", "connecting", "attached"}] /\ home \in [Fds -> Agents]
      /\ netCalls \in [Agents -> Seq(NetCalls)]
      /\ \A fd \in Fds : sock[fd] = "none" <=> kernel[fd] = "free"
  BY DEF IInv, CallsMatch, Matches, ConnectedFirst, TypeOK
<1>2. ASSUME \A a \in Agents : Matches(a, netCalls[a])' PROVE CallsMatch'
  BY <1>2 DEF Matches, CallsMatch
\* A socket that is opened stays so, but for the one of the call that is handled.
<1>3. ASSUME NEW a \in Agents, NEW q \in Seq(NetCalls), Matches(a, q),
             \A i \in DOMAIN q : q[i].kind = "asyncConnect" =>
               sock'[q[i].fd] = sock[q[i].fd] /\ home'[q[i].fd] = home[q[i].fd]
      PROVE  Matches(a, q)'
  BY <1>3 DEF Matches
<1>4. ASSUME UNCHANGED netCalls, NEW fd \in Fds, sock[fd] # "opened",
             \A g \in Fds \ {fd} : sock'[g] = sock[g] /\ home'[g] = home[g]
      PROVE  CallsMatch'
  <2> SUFFICES ASSUME NEW a \in Agents PROVE Matches(a, netCalls[a])'
    BY <1>2
  <2> DEFINE q == netCalls[a]
  <2>1. q \in Seq(NetCalls) /\ Matches(a, q)
    BY <1>1
  <2>2. ASSUME NEW i \in DOMAIN q, q[i].kind = "asyncConnect"
        PROVE  sock'[q[i].fd] = sock[q[i].fd] /\ home'[q[i].fd] = home[q[i].fd]
    <3>1. q[i] \in NetCalls
      BY <2>1
    <3>2. q[i].fd \in Fds
      BY <2>2, <3>1 DEF NetCalls
    <3>3. q[i].fd # fd
      BY <1>4, <2>1, <2>2 DEF Matches
    <3> QED
      BY <1>4, <3>2, <3>3
  <2>3. Matches(a, q)'
    BY <1>3, <1>4, <2>1, <2>2 DEF Matches
  <2> QED
    BY <1>4, <2>3
<1>5. ASSUME NEW a \in Agents, OnHandleAsyncConnect(a) PROVE CallsMatch'
  <2> DEFINE fd == Head(netCalls[a]).fd
  <2>1. /\ fd \in Fds /\ sock[fd] = "opened" /\ home[fd] = a /\ UNCHANGED home
        /\ netCalls' = [netCalls EXCEPT ![a] = Tail(@)]
        /\ \A g \in Fds \ {fd} : sock'[g] = sock[g]
    BY <1>1, <1>5, AsyncConnectSplits DEF AttemptFails, Done
  <2>2. netCalls[a] # <<>> /\ Head(netCalls[a]) = Call("asyncConnect", fd)
    BY <1>5, CalledFits DEF OnHandleAsyncConnect, Called
  <2> HIDE DEF fd
  <2> SUFFICES ASSUME NEW b \in Agents PROVE Matches(b, netCalls[b])'
    BY <1>2
  <2> DEFINE q == netCalls'[b]
  <2>3. /\ q \in Seq(NetCalls) /\ Matches(b, q)
        /\ \A i \in DOMAIN q : q[i].kind = "asyncConnect" => q[i].fd # fd
    <3>1. CASE b = a
      <4>1. /\ q = Tail(netCalls[a]) /\ Tail(netCalls[a]) \in Seq(NetCalls) /\ Matches(a, Tail(netCalls[a]))
            /\ \A i \in DOMAIN Tail(netCalls[a]) :
                 Tail(netCalls[a])[i].kind = "asyncConnect" => Tail(netCalls[a])[i] # Head(netCalls[a])
        BY <1>1, <2>1, <2>2, <3>1, MatchesTail
      <4> HIDE DEF q
      <4>2. q \in Seq(NetCalls) /\ Matches(b, q)
        BY <3>1, <4>1
      <4>3. ASSUME NEW i \in DOMAIN q, q[i].kind = "asyncConnect", q[i].fd = fd PROVE FALSE
        <5>1. q[i] \in NetCalls
          BY <4>2
        <5>2. q[i] = Call("asyncConnect", fd)
          BY <4>3, <5>1 DEF NetCalls, Call
        <5> QED
          BY <2>2, <4>1, <4>3, <5>2
      <4> QED
        BY <4>2, <4>3
    <3>2. CASE b # a
      <4>1. q = netCalls[b] /\ q \in Seq(NetCalls) /\ Matches(b, netCalls[b])
        BY <1>1, <2>1, <3>2
      <4> QED
        BY <2>1, <3>2, <4>1 DEF Matches
    <3> QED
      BY <3>1, <3>2
  <2> HIDE DEF q
  <2>4. ASSUME NEW i \in DOMAIN q, q[i].kind = "asyncConnect"
        PROVE  sock'[q[i].fd] = sock[q[i].fd] /\ home'[q[i].fd] = home[q[i].fd]
    <3>1. q[i] \in NetCalls
      BY <2>3
    <3>2. q[i].fd \in Fds /\ q[i].fd # fd
      BY <2>3, <2>4, <3>1 DEF NetCalls
    <3> QED
      BY <2>1, <3>2
  <2> QED
    BY <2>3, <2>4 DEF Matches, q
<1>6. ASSUME NEW fd \in Fds, NEW a \in Agents, AsyncConnect(fd, a) PROVE CallsMatch'
  <2> DEFINE call == Call("asyncConnect", fd)
  <2>1. /\ sock[fd] = "none" /\ sock' = [sock EXCEPT ![fd] = "opened"] /\ home' = [home EXCEPT ![fd] = a]
        /\ netCalls' = [netCalls EXCEPT ![a] = Append(@, call)]
    BY <1>1, <1>6 DEF AsyncConnect, PushNet
  <2>2. call \in NetCalls /\ call.fd = fd
    BY CallTypes DEF Call
  <2> SUFFICES ASSUME NEW b \in Agents PROVE Matches(b, netCalls[b])'
    BY <1>2
  <2>3. /\ netCalls[b] \in Seq(NetCalls) /\ Matches(b, netCalls[b])
        /\ \A i \in DOMAIN netCalls[b] :
             netCalls[b][i].kind = "asyncConnect" => netCalls[b][i].fd \in Fds \ {fd}
    <3>1. netCalls[b] \in Seq(NetCalls) /\ Matches(b, netCalls[b])
      BY <1>1
    <3>2. ASSUME NEW i \in DOMAIN netCalls[b], netCalls[b][i].kind = "asyncConnect"
          PROVE  netCalls[b][i].fd \in Fds \ {fd}
      <4>1. netCalls[b][i] \in NetCalls
        BY <3>1
      <4> QED
        BY <2>1, <3>1, <3>2, <4>1 DEF NetCalls, Matches
    <3> QED
      BY <3>1, <3>2
  <2>4. ASSUME NEW i \in DOMAIN netCalls[b], netCalls[b][i].kind = "asyncConnect"
        PROVE  /\ sock'[netCalls[b][i].fd] = "opened" /\ home'[netCalls[b][i].fd] = b
               /\ \A j \in DOMAIN netCalls[b] : netCalls[b][j] = netCalls[b][i] => i = j
    BY <1>1, <2>1, <2>3, <2>4 DEF Matches
  <2>5. CASE b = a
    <3> DEFINE q == netCalls[a]
               r == Append(q, call)
    <3>1. /\ r \in Seq(NetCalls) /\ Len(r) = Len(q) + 1 /\ r[Len(q) + 1] = call
          /\ \A i \in 1..Len(q) : r[i] = q[i]
      BY <2>2, <2>3, <2>5, AppendProperties
    <3>2. DOMAIN r = 1..(Len(q) + 1) /\ DOMAIN q = 1..Len(q) /\ Len(q) \in Nat
      BY <2>3, <2>5, <3>1
    <3>3. netCalls'[b] = r /\ sock'[fd] = "opened" /\ home'[fd] = b
      BY <1>1, <2>1, <2>5
    <3> HIDE DEF r, call
    <3>4. \A i \in DOMAIN r : (i \in DOMAIN q /\ r[i] = q[i]) \/ (i = Len(q) + 1 /\ r[i] = call)
      BY <3>1, <3>2
    <3>5. ASSUME NEW i \in DOMAIN r, r[i].kind = "asyncConnect"
          PROVE  /\ sock'[r[i].fd] = "opened" /\ home'[r[i].fd] = b
                 /\ \A j \in DOMAIN r : r[j] = r[i] => i = j
      BY <2>2, <2>3, <2>4, <2>5, <3>3, <3>4, <3>5
    <3> QED
      BY <3>3, <3>5 DEF Matches
  <2>6. CASE b # a
    <3>1. netCalls'[b] = netCalls[b]
      BY <1>1, <2>1, <2>6
    <3> QED
      BY <2>4, <3>1 DEF Matches
  <2> QED
    BY <2>5, <2>6
\* A callback that is not of an attempt comes or goes.
<1>7. ASSUME UNCHANGED <<sock, home>>, NEW a \in Agents, NEW q \in Seq(NetCalls), Matches(a, q),
             netCalls' = [netCalls EXCEPT ![a] = q]
      PROVE  CallsMatch'
  BY <1>1, <1>2, <1>7 DEF Matches
<1>8. CASE Listen
  <2>1. Append(netCalls[ListenAgent], Call("listen", 0)) \in Seq(NetCalls)
        /\ Matches(ListenAgent, Append(netCalls[ListenAgent], Call("listen", 0)))
    BY <1>1, MatchesAppend, ServiceAssumption DEF Call, NetCalls
  <2> QED
    BY <1>7, <1>8, <2>1, ServiceAssumption DEF Listen, PushNet, objects
<1>9. ASSUME NEW a \in Agents, OnHandleListen(a) \/ OnHandleListened(a) PROVE CallsMatch'
  <2>1. netCalls[a] # <<>> /\ UNCHANGED <<sock, home>>
    BY <1>9 DEF OnHandleListen, OnHandleListened, Called, objects
  <2>2. Tail(netCalls[a]) \in Seq(NetCalls) /\ Matches(a, Tail(netCalls[a]))
    BY <1>1, <2>1, MatchesTail
  <2>3. /\ Append(Tail(netCalls[a]), Call("listened", 0)) \in Seq(NetCalls)
        /\ Matches(a, Append(Tail(netCalls[a]), Call("listened", 0)))
    BY <2>2, MatchesAppend DEF Call, NetCalls
  <2>4. \/ netCalls' = [netCalls EXCEPT ![a] = Tail(netCalls[a])]
        \/ netCalls' = [netCalls EXCEPT ![a] = Append(Tail(netCalls[a]), Call("listened", 0))]
    BY <1>9 DEF OnHandleListen, OnHandleListened, BuildListenSocket, Done
  <2> QED
    BY <1>7, <2>1, <2>2, <2>3, <2>4
<1>10. ASSUME UNCHANGED <<sock, home, netCalls>> PROVE CallsMatch'
  BY <1>10 DEF IInv, CallsMatch
<1>11. CASE DoWakeupCallback \/ OnListenError \/ PeerConnects \/ UNCHANGED vars
  BY <1>10, <1>11 DEF DoWakeupCallback, OnListenError, PeerConnects, vars, objects, calls
<1>12. ASSUME NEW fd \in Fds,
              \/ PeerAnswers(fd) \/ PeerSends(fd) \/ PeerCloses(fd) \/ PeerBreaks(fd)
              \/ \E a \in Agents : SendMessage(fd, a)
       PROVE  CallsMatch'
  BY <1>10, <1>12 DEF PeerAnswers, PeerSends, PeerCloses, PeerBreaks, SendMessage, objects, calls
<1>13. ASSUME NEW a \in Agents, Announce(a) \/ OnSendQueueReady(a) \/ OnExporedPendingRead(a)
       PROVE  CallsMatch'
  BY <1>10, <1>13 DEF Announce, OnSendQueueReady, OnExporedPendingRead, Expires, objects, calls
<1>14. ASSUME NEW a \in Agents, NEW fd \in Fds,
              OnSocketRead(a, fd) \/ OnSocketWrite(a, fd) \/ OnSocketError(a, fd)
       PROVE  CallsMatch'
  BY <1>10, <1>14 DEF OnSocketRead, OnSocketWrite, OnSocketError, CloseTcpSocket, objects
<1>15. ASSUME NEW a \in Agents, NEW b \in Agents, NEW fd \in Fds, OnListenRead(a, b, fd)
       PROVE  CallsMatch'
  <2>1. Accepts(a, b, fd) \/ NeverOpened(fd)
    BY <1>15, ListenReadSplits
  <2>2. /\ UNCHANGED netCalls /\ sock[fd] # "opened"
        /\ \A g \in Fds \ {fd} : sock'[g] = sock[g] /\ home'[g] = home[g]
    BY <1>1, <2>1 DEF Accepts, Attaches, NeverOpened
  <2> QED
    BY <1>4, <2>2
<1>16. ASSUME NEW a \in Agents, NEW b \in Agents, NEW fd \in Fds, OnAsyncConnectSocketWrite(a, b, fd)
       PROVE  CallsMatch'
  <2>1. \/ Connects(a, b, fd)
        \/ AttemptFails(fd) /\ sock[fd] = "connecting" /\ UNCHANGED netCalls
    BY <1>16, ConnectWriteSplits
  <2>2. /\ UNCHANGED netCalls /\ sock[fd] # "opened"
        /\ \A g \in Fds \ {fd} : sock'[g] = sock[g] /\ home'[g] = home[g]
    BY <1>1, <2>1 DEF Connects, Attaches, AttemptFails
  <2> QED
    BY <1>4, <2>2
<1>17. ASSUME NEW a \in Agents, NEW fd \in Fds, OnAsyncConnectError(a, fd) \/ OnAsyncConnectTimeout(a, fd)
       PROVE  CallsMatch'
  <2>1. AttemptFails(fd) /\ sock[fd] = "connecting" /\ UNCHANGED netCalls
    BY <1>17, ConnectEnds
  <2>2. \A g \in Fds \ {fd} : sock'[g] = sock[g] /\ home'[g] = home[g]
    BY <1>1, <2>1 DEF AttemptFails
  <2> QED
    BY <1>4, <2>1, <2>2
<1> QED
  BY <1>5, <1>6, <1>8, <1>9, <1>11, <1>12, <1>13, <1>14, <1>15, <1>16, <1>17
  DEF Next, AppStep, NetworkStep

-----------------------------------------------------------------------------
(* What the application hears. *)

Heard == Unheard /\ Announcements /\ Announced /\ KnownFirst

HeardTypes ==
  /\ sock \in [Fds -> {"none", "opened", "connecting", "attached"}]
  /\ home \in [Fds -> Agents] /\ builder \in [Fds -> Agents]
  /\ appCalls \in Seq(AppCalls)
  /\ announcing \in [Agents -> Seq(AppCalls)] /\ receiveQ \in [Agents -> Seq(Fds)]
  /\ told \subseteq Fds

LEMMA HeardOf ==
  IInv <=> TypeOK /\ Heard /\ Turn /\ AnswersCounted /\ TimersRight /\ CallsMatch /\ Counted
BY DEF IInv, ConnectedFirst, AnsweredOnce, AnswersCounted, TimersRight, Heard, Announced, KnownFirst, Known,
       Turn, TypeOK

LEMMA HeardTypesOf == TypeOK => HeardTypes
BY DEF TypeOK, HeardTypes

LEMMA CallsDiffer ==
  ASSUME NEW kind, NEW other, NEW fd, NEW g
  PROVE  Call(kind, fd) = Call(other, g) <=> kind = other /\ fd = g
BY DEF Call

LEMMA Appended ==
  ASSUME NEW S, NEW q \in Seq(S), NEW e \in S, NEW r, r = Append(q, e)
  PROVE  /\ r \in Seq(S) /\ DOMAIN r = 1..(Len(q) + 1) /\ DOMAIN q = 1..Len(q) /\ Len(q) \in Nat
         /\ r[Len(q) + 1] = e /\ \A i \in DOMAIN q : r[i] = q[i]
         /\ \A i \in DOMAIN r : i \in DOMAIN q \/ i = Len(q) + 1
<1>1. /\ r \in Seq(S) /\ Len(r) = Len(q) + 1 /\ r[Len(q) + 1] = e
      /\ \A i \in 1..Len(q) : r[i] = q[i]
  BY AppendProperties
<1> QED
  BY <1>1

LEMMA Shifted ==
  ASSUME NEW S, NEW q \in Seq(S), q # <<>>, NEW t, t = Tail(q)
  PROVE  /\ t \in Seq(S) /\ Head(q) \in S /\ Head(q) = q[1] /\ 1 \in DOMAIN q
         /\ DOMAIN t = 1..(Len(q) - 1) /\ DOMAIN q = 1..Len(q) /\ Len(q) \in Nat \ {0}
         /\ \A i \in DOMAIN t : i + 1 \in DOMAIN q /\ t[i] = q[i + 1]
         /\ \A i \in DOMAIN q : i = 1 \/ (i - 1 \in DOMAIN t /\ t[i - 1] = q[i])
<1>1. /\ t \in Seq(S) /\ Head(q) \in S /\ Head(q) = q[1] /\ 1 \in DOMAIN q /\ Len(t) = Len(q) - 1
      /\ \A i \in 1..Len(t) : t[i] = q[i + 1]
  OBVIOUS
<1>2. DOMAIN t = 1..(Len(q) - 1) /\ DOMAIN q = 1..Len(q) /\ Len(q) \in Nat \ {0}
  BY <1>1
<1> QED
  BY <1>1, <1>2

\* No socket is attached or moved.
SameAttached ==
  \A fd \in Fds :
    /\ sock'[fd] = "attached" <=> sock[fd] = "attached"
    /\ sock[fd] = "attached" => home'[fd] = home[fd] /\ builder'[fd] = builder[fd]

\* What the loops receive is of sockets that are known.
Receives ==
  \A a \in Agents : \A i \in DOMAIN receiveQ'[a] :
    \/ \E j \in DOMAIN receiveQ[a] : receiveQ'[a][i] = receiveQ[a][j]
    \/ \E fd \in Fds : /\ receiveQ'[a][i] = fd /\ sock[fd] = "attached"
                       /\ builder[fd] = home[fd] => Known(fd)

LEMMA AnnouncementsStay ==
  ASSUME HeardTypes, Announcements, SameAttached, UNCHANGED announcing
  PROVE  Announcements'
<1> SUFFICES ASSUME NEW a \in Agents, NEW i \in DOMAIN announcing[a]
             PROVE  \E fd \in Fds :
                      /\ announcing[a][i] \in {Call("connected", fd), Call("asyncConnected", fd)}
                      /\ sock'[fd] = "attached" /\ builder'[fd] = a
  BY DEF Announcements
<1>1. PICK fd \in Fds : /\ announcing[a][i] \in {Call("connected", fd), Call("asyncConnected", fd)}
                        /\ sock[fd] = "attached" /\ builder[fd] = a
  BY DEF Announcements
<1> QED
  BY <1>1 DEF SameAttached

LEMMA HeardReceive ==
  ASSUME HeardTypes, Heard, SameAttached, Receives, UNCHANGED <<appCalls, announcing, told>>
  PROVE  Heard'
<1>1. Unheard'
  <2> SUFFICES ASSUME NEW fd \in Fds, sock'[fd] # "attached"
               PROVE  /\ fd \notin told
                      /\ \A i \in DOMAIN appCalls :
                           appCalls[i] \notin {Call("connected", fd), Call("closed", fd), Call("error", fd)}
                      /\ \A a \in Agents : \A i \in DOMAIN receiveQ'[a] : receiveQ'[a][i] # fd
    BY DEF Unheard
  <2>1. sock[fd] # "attached"
    BY DEF SameAttached
  <2>2. \A a \in Agents : \A j \in DOMAIN receiveQ[a] : receiveQ[a][j] # fd
    BY <2>1 DEF Heard, Unheard
  <2>3. ASSUME NEW a \in Agents, NEW i \in DOMAIN receiveQ'[a] PROVE receiveQ'[a][i] # fd
    BY <2>1, <2>2, <2>3 DEF Receives
  <2> QED
    BY <2>1, <2>3 DEF Heard, Unheard
<1>2. Announcements'
  BY AnnouncementsStay DEF Heard
<1>3. Announced'
  BY DEF Heard, HeardTypes, Announced, Known, SameAttached
<1>4. \A fd \in Fds : Known(fd)' = Known(fd)
  BY DEF Known
<1>5. KnownFirst'
  <2> SUFFICES ASSUME NEW fd \in Fds, sock'[fd] = "attached", builder'[fd] = home'[fd]
               PROVE  /\ \A i \in DOMAIN receiveQ'[home[fd]] : receiveQ'[home[fd]][i] = fd => Known(fd)
                      /\ \A i \in DOMAIN appCalls :
                           appCalls[i] \in {Call("closed", fd), Call("error", fd)} =>
                             fd \in told \/ \E j \in 1..i : appCalls[j] = Call("connected", fd)
    BY <1>4 DEF KnownFirst, SameAttached
  <2>1. sock[fd] = "attached" /\ builder[fd] = home[fd] /\ home[fd] \in Agents
    BY DEF SameAttached, HeardTypes
  <2>2. ASSUME NEW i \in DOMAIN receiveQ'[home[fd]], receiveQ'[home[fd]][i] = fd PROVE Known(fd)
    <3>1. CASE \E j \in DOMAIN receiveQ[home[fd]] : receiveQ'[home[fd]][i] = receiveQ[home[fd]][j]
      BY <2>1, <2>2, <3>1 DEF Heard, KnownFirst
    <3> QED
      BY <2>1, <2>2, <3>1 DEF Receives
  <2> QED
    BY <2>1, <2>2 DEF Heard, KnownFirst
<1> QED
  BY <1>1, <1>2, <1>3, <1>5 DEF Heard

LEMMA HeardPush ==
  ASSUME HeardTypes, Heard, SameAttached, NEW call \in AppCalls, Push(call),
         UNCHANGED <<announcing, receiveQ, told>>,
         \A fd \in Fds : /\ call # Call("connected", fd)
                         /\ call \in {Call("closed", fd), Call("error", fd)} =>
                              sock[fd] = "attached" /\ (builder[fd] = home[fd] => Known(fd))
  PROVE  Heard'
<1> DEFINE r == appCalls'
           n == Len(appCalls)
<1>1. /\ DOMAIN r = 1..(n + 1) /\ DOMAIN appCalls = 1..n /\ n \in Nat
      /\ r[n + 1] = call /\ \A i \in DOMAIN appCalls : r[i] = appCalls[i]
      /\ \A i \in DOMAIN r : i \in DOMAIN appCalls \/ i = n + 1
  BY Appended DEF HeardTypes, Push
<1> HIDE DEF r, n
<1>2. \A fd \in Fds : Known(fd)' <=> Known(fd)
  <2> SUFFICES ASSUME NEW fd \in Fds PROVE In(Call("connected", fd), r) <=> In(Call("connected", fd), appCalls)
    BY DEF Known, r
  <2>1. call # Call("connected", fd)
    OBVIOUS
  <2> QED
    BY <1>1, <2>1 DEF In
<1>3. Unheard'
  <2> SUFFICES ASSUME NEW fd \in Fds, sock'[fd] # "attached"
               PROVE  /\ fd \notin told
                      /\ \A i \in DOMAIN r :
                           r[i] \notin {Call("connected", fd), Call("closed", fd), Call("error", fd)}
                      /\ \A a \in Agents : \A i \in DOMAIN receiveQ[a] : receiveQ[a][i] # fd
    BY DEF Unheard, r
  <2>1. sock[fd] # "attached"
    BY DEF SameAttached
  <2>2. call \notin {Call("connected", fd), Call("closed", fd), Call("error", fd)}
    BY <2>1
  <2>3. \A i \in DOMAIN appCalls :
          appCalls[i] \notin {Call("connected", fd), Call("closed", fd), Call("error", fd)}
    BY <2>1 DEF Heard, Unheard
  <2>4. ASSUME NEW i \in DOMAIN r
        PROVE  r[i] \notin {Call("connected", fd), Call("closed", fd), Call("error", fd)}
    BY <1>1, <2>2, <2>3
  <2> QED
    BY <2>1, <2>4 DEF Heard, Unheard
<1>4. Announcements'
  BY AnnouncementsStay DEF Heard
<1>5. Announced'
  BY <1>2 DEF Heard, HeardTypes, Announced, SameAttached
<1>6. KnownFirst'
  <2> SUFFICES ASSUME NEW fd \in Fds, sock'[fd] = "attached", builder'[fd] = home'[fd]
               PROVE  /\ \A i \in DOMAIN receiveQ[home[fd]] : receiveQ[home[fd]][i] = fd => Known(fd)
                      /\ \A i \in DOMAIN r :
                           r[i] \in {Call("closed", fd), Call("error", fd)} =>
                             fd \in told \/ \E j \in 1..i : r[j] = Call("connected", fd)
    BY <1>2 DEF KnownFirst, SameAttached, r
  <2>1. sock[fd] = "attached" /\ builder[fd] = home[fd] /\ home[fd] \in Agents
    BY DEF SameAttached, HeardTypes
  <2>2. ASSUME NEW i \in DOMAIN appCalls, r[i] \in {Call("closed", fd), Call("error", fd)}
        PROVE  fd \in told \/ \E j \in 1..i : r[j] = Call("connected", fd)
    <3>1. appCalls[i] \in {Call("closed", fd), Call("error", fd)}
      BY <1>1, <2>2
    <3>2. fd \in told \/ \E j \in 1..i : appCalls[j] = Call("connected", fd)
      BY <2>1, <2>2, <3>1 DEF Heard, KnownFirst
    <3>3. \A j \in 1..i : r[j] = appCalls[j]
      BY <1>1, <2>2
    <3> QED
      BY <3>2, <3>3
  <2>3. ASSUME r[n + 1] \in {Call("closed", fd), Call("error", fd)}
        PROVE  fd \in told \/ \E j \in 1..(n + 1) : r[j] = Call("connected", fd)
    <3>1. Known(fd)
      <4>1. call \in {Call("closed", fd), Call("error", fd)}
        BY <1>1, <2>3
      <4>2. sock[fd] = "attached" /\ (builder[fd] = home[fd] => Known(fd))
        BY <4>1
      <4> QED
        BY <2>1, <4>2
    <3>2. ASSUME NEW j \in DOMAIN appCalls, appCalls[j] = Call("connected", fd)
          PROVE  j \in 1..(n + 1) /\ r[j] = Call("connected", fd)
      BY <1>1, <3>2
    <3> QED
      BY <3>1, <3>2 DEF Known, In
  <2> QED
    BY <1>1, <2>1, <2>2, <2>3 DEF Heard, KnownFirst
<1> QED
  BY <1>3, <1>4, <1>5, <1>6 DEF Heard

\* A turn of the application's loop ends.
LEMMA HeardWakeup ==
  ASSUME HeardTypes, Heard, DoWakeupCallback
  PROVE  Heard'
<1>1. /\ appCalls' = <<>> /\ UNCHANGED <<sock, home, builder, announcing, receiveQ>>
      /\ told' = told \union {fd \in Fds : In(Call("connected", fd), appCalls)}
  BY DEF DoWakeupCallback, OnHandleConnected, objects, queues
<1>2. \A fd \in Fds : Known(fd) => fd \in told' /\ Known(fd)'
  BY <1>1 DEF Known
<1>3. Unheard'
  <2>1. ASSUME NEW fd \in Fds, sock[fd] # "attached" PROVE fd \notin told'
    BY <1>1, <2>1 DEF Heard, Unheard, In
  <2>2. DOMAIN appCalls' = {}
    BY <1>1
  <2> QED
    BY <1>1, <2>1, <2>2 DEF Heard, Unheard
<1>4. Announcements'
  BY <1>1, AnnouncementsStay DEF Heard, SameAttached
<1>5. Announced'
  BY <1>1, <1>2 DEF Heard, Announced
<1>6. KnownFirst'
  <2>1. DOMAIN appCalls' = {}
    BY <1>1
  <2> QED
    BY <1>1, <1>2, <2>1 DEF Heard, KnownFirst
<1> QED
  BY <1>3, <1>4, <1>5, <1>6 DEF Heard

\* A loop announces the socket it has attached.
LEMMA HeardAnnounce ==
  ASSUME HeardTypes, Heard, NEW a \in Agents, Announce(a)
  PROVE  Heard'
<1> DEFINE r == appCalls'
           n == Len(appCalls)
           call == Head(announcing[a])
           s == Tail(announcing[a])
<1>1. /\ announcing[a] \in Seq(AppCalls) /\ announcing[a] # <<>> /\ appCalls \in Seq(AppCalls)
      /\ appCalls' = Append(appCalls, call) /\ announcing' = [announcing EXCEPT ![a] = s]
      /\ UNCHANGED <<sock, home, builder, told, receiveQ>>
  BY DEF HeardTypes, Announce, Push, objects, app, queues
<1>2. /\ call \in AppCalls /\ call = announcing[a][1] /\ 1 \in DOMAIN announcing[a]
      /\ \A i \in DOMAIN s : i + 1 \in DOMAIN announcing[a] /\ s[i] = announcing[a][i + 1]
      /\ \A i \in DOMAIN announcing[a] : i = 1 \/ (i - 1 \in DOMAIN s /\ s[i - 1] = announcing[a][i])
  <2> DEFINE q == announcing[a]
  <2>1. q \in Seq(AppCalls) /\ q # <<>> /\ s = Tail(q) /\ call = Head(q)
    BY <1>1
  <2> HIDE DEF q, s, call
  <2>2. /\ Head(q) \in AppCalls /\ Head(q) = q[1] /\ 1 \in DOMAIN q
        /\ \A i \in DOMAIN s : i + 1 \in DOMAIN q /\ s[i] = q[i + 1]
        /\ \A i \in DOMAIN q : i = 1 \/ (i - 1 \in DOMAIN s /\ s[i - 1] = q[i])
    BY <2>1, Shifted
  <2> QED
    BY <2>1, <2>2 DEF q
<1>3. /\ DOMAIN r = 1..(n + 1) /\ DOMAIN appCalls = 1..n /\ n \in Nat
      /\ r[n + 1] = call /\ \A i \in DOMAIN appCalls : r[i] = appCalls[i]
      /\ \A i \in DOMAIN r : i \in DOMAIN appCalls \/ i = n + 1
  BY <1>1, <1>2, Appended
<1>4. announcing'[a] = s /\ \A x \in Agents \ {a} : announcing'[x] = announcing[x]
  BY <1>1 DEF HeardTypes
<1> HIDE DEF r, n, call, s
<1>5. PICK g \in Fds : /\ call \in {Call("connected", g), Call("asyncConnected", g)}
                       /\ sock[g] = "attached" /\ builder[g] = a
  BY <1>2 DEF Heard, Announcements
<1>6. \A fd \in Fds : /\ call \notin {Call("closed", fd), Call("error", fd)}
                      /\ call = Call("connected", fd) => sock[fd] = "attached"
  BY <1>5, CallsDiffer
<1>7. ASSUME NEW fd \in Fds, Known(fd) PROVE Known(fd)'
  BY <1>1, <1>3, <1>7 DEF Known, In, r
<1>8. Unheard'
  <2> SUFFICES ASSUME NEW fd \in Fds, sock[fd] # "attached"
               PROVE  /\ fd \notin told
                      /\ \A i \in DOMAIN r :
                           r[i] \notin {Call("connected", fd), Call("closed", fd), Call("error", fd)}
                      /\ \A x \in Agents : \A i \in DOMAIN receiveQ[x] : receiveQ[x][i] # fd
    BY <1>1 DEF Unheard, r
  <2>1. /\ fd \notin told
        /\ \A i \in DOMAIN appCalls :
             appCalls[i] \notin {Call("connected", fd), Call("closed", fd), Call("error", fd)}
        /\ \A x \in Agents : \A i \in DOMAIN receiveQ[x] : receiveQ[x][i] # fd
    BY DEF Heard, Unheard
  <2>2. call \notin {Call("connected", fd), Call("closed", fd), Call("error", fd)}
    BY <1>6
  <2>3. ASSUME NEW i \in DOMAIN r
        PROVE  r[i] \notin {Call("connected", fd), Call("closed", fd), Call("error", fd)}
    BY <1>3, <2>1, <2>2
  <2> QED
    BY <2>1, <2>3
<1>9. Announcements'
  <2> SUFFICES ASSUME NEW x \in Agents, NEW i \in DOMAIN announcing'[x]
               PROVE  \E fd \in Fds :
                        /\ announcing'[x][i] \in {Call("connected", fd), Call("asyncConnected", fd)}
                        /\ sock[fd] = "attached" /\ builder[fd] = x
    BY <1>1 DEF Announcements
  <2>1. PICK j \in DOMAIN announcing[x] : announcing'[x][i] = announcing[x][j]
    BY <1>2, <1>4
  <2> QED
    BY <2>1 DEF Heard, Announcements
<1>10. Announced'
  <2> SUFFICES ASSUME NEW fd \in Fds, sock[fd] = "attached"
               PROVE  Known(fd)' \/ \E x \in Agents : In(Call("connected", fd), announcing'[x])
    BY <1>1 DEF Announced
  <2>1. CASE Known(fd)
    BY <1>7, <2>1
  <2>2. ASSUME NEW x \in Agents, In(Call("connected", fd), announcing[x])
        PROVE  Known(fd)' \/ In(Call("connected", fd), announcing'[x])
    <3>1. CASE x # a
      BY <1>4, <2>2, <3>1
    <3>2. CASE x = a
      <4>1. PICK i \in DOMAIN announcing[a] : announcing[a][i] = Call("connected", fd)
        BY <2>2, <3>2 DEF In
      <4>2. CASE i = 1
        <5>1. n + 1 \in DOMAIN r /\ r[n + 1] = Call("connected", fd)
          BY <1>2, <1>3, <4>1, <4>2
        <5> QED
          BY <5>1 DEF Known, In, r
      <4>3. CASE i - 1 \in DOMAIN s /\ s[i - 1] = announcing[a][i]
        BY <1>4, <3>2, <4>1, <4>3 DEF In
      <4> QED
        BY <1>2, <4>2, <4>3
    <3> QED
      BY <3>1, <3>2
  <2> QED
    BY <2>1, <2>2 DEF Heard, Announced
<1>11. KnownFirst'
  <2> SUFFICES ASSUME NEW fd \in Fds, sock[fd] = "attached", builder[fd] = home[fd]
               PROVE  /\ \A i \in DOMAIN receiveQ[home[fd]] : receiveQ[home[fd]][i] = fd => Known(fd)'
                      /\ \A i \in DOMAIN r :
                           r[i] \in {Call("closed", fd), Call("error", fd)} =>
                             fd \in told \/ \E j \in 1..i : r[j] = Call("connected", fd)
    BY <1>1 DEF KnownFirst, r
  <2>1. \A i \in DOMAIN receiveQ[home[fd]] : receiveQ[home[fd]][i] = fd => Known(fd)'
    BY <1>7 DEF Heard, KnownFirst
  <2>2. ASSUME NEW i \in DOMAIN r, r[i] \in {Call("closed", fd), Call("error", fd)}
        PROVE  fd \in told \/ \E j \in 1..i : r[j] = Call("connected", fd)
    <3>1. i \in DOMAIN appCalls /\ appCalls[i] \in {Call("closed", fd), Call("error", fd)}
      BY <1>3, <1>6, <2>2
    <3>2. fd \in told \/ \E j \in 1..i : appCalls[j] = Call("connected", fd)
      BY <3>1 DEF Heard, KnownFirst
    <3>3. \A j \in 1..i : r[j] = appCalls[j]
      BY <1>3, <3>1
    <3> QED
      BY <3>2, <3>3
  <2> QED
    BY <2>1, <2>2
<1> QED
  BY <1>8, <1>9, <1>10, <1>11 DEF Heard

\* A socket is attached: nothing was heard of it before.
LEMMA HeardAttach ==
  ASSUME HeardTypes, Heard, NEW a \in Agents, NEW b \in Agents, NEW fd \in Fds,
         sock[fd] # "attached", NEW notices \in Seq(AppCalls), Attaches(a, b, fd, notices),
         In(Call("connected", fd), notices),
         \A i \in DOMAIN notices : notices[i] \in {Call("connected", fd), Call("asyncConnected", fd)}
  PROVE  Heard'
<1>1. /\ sock'[fd] = "attached" /\ builder'[fd] = a /\ home'[fd] = b
      /\ \A g \in Fds \ {fd} : sock'[g] = sock[g] /\ builder'[g] = builder[g] /\ home'[g] = home[g]
      /\ announcing'[a] = notices /\ announcing[a] = <<>>
      /\ \A x \in Agents \ {a} : announcing'[x] = announcing[x]
      /\ UNCHANGED <<appCalls, told, receiveQ>>
  BY DEF HeardTypes, Attaches, Ready
<1>2. /\ fd \notin told
      /\ \A i \in DOMAIN appCalls :
           appCalls[i] \notin {Call("connected", fd), Call("closed", fd), Call("error", fd)}
      /\ \A x \in Agents : \A i \in DOMAIN receiveQ[x] : receiveQ[x][i] # fd
  BY DEF Heard, Unheard
<1>3. \A g \in Fds : Known(g)' = Known(g)
  BY <1>1 DEF Known
<1>4. Unheard'
  <2> SUFFICES ASSUME NEW g \in Fds, sock'[g] # "attached"
               PROVE  /\ g \notin told
                      /\ \A i \in DOMAIN appCalls :
                           appCalls[i] \notin {Call("connected", g), Call("closed", g), Call("error", g)}
                      /\ \A x \in Agents : \A i \in DOMAIN receiveQ[x] : receiveQ[x][i] # g
    BY <1>1 DEF Unheard
  <2>1. sock[g] # "attached"
    BY <1>1
  <2> QED
    BY <2>1 DEF Heard, Unheard
<1>5. Announcements'
  <2> SUFFICES ASSUME NEW x \in Agents, NEW i \in DOMAIN announcing'[x]
               PROVE  \E g \in Fds :
                        /\ announcing'[x][i] \in {Call("connected", g), Call("asyncConnected", g)}
                        /\ sock'[g] = "attached" /\ builder'[g] = x
    BY DEF Announcements
  <2>1. CASE x = a
    BY <1>1, <2>1
  <2>2. CASE x # a
    <3>1. announcing'[x] = announcing[x]
      BY <1>1, <2>2
    <3>2. PICK g \in Fds : /\ announcing[x][i] \in {Call("connected", g), Call("asyncConnected", g)}
                           /\ sock[g] = "attached" /\ builder[g] = x
      BY <3>1 DEF Heard, Announcements
    <3>3. sock'[g] = "attached" /\ builder'[g] = x
      BY <1>1, <3>2
    <3> QED
      BY <3>1, <3>2, <3>3
  <2> QED
    BY <2>1, <2>2
<1>6. Announced'
  <2> SUFFICES ASSUME NEW g \in Fds, sock'[g] = "attached"
               PROVE  Known(g) \/ \E x \in Agents : In(Call("connected", g), announcing'[x])
    BY <1>3 DEF Announced
  <2>1. CASE g = fd
    BY <1>1, <2>1
  <2>2. CASE g # fd
    <3>1. Known(g) \/ \E x \in Agents : In(Call("connected", g), announcing[x])
      BY <1>1, <2>2 DEF Heard, Announced
    <3>2. ASSUME NEW x \in Agents, In(Call("connected", g), announcing[x])
          PROVE  In(Call("connected", g), announcing'[x])
      <4>1. x # a
        BY <1>1, <3>2 DEF In
      <4> QED
        BY <1>1, <3>2, <4>1
    <3> QED
      BY <3>1, <3>2
  <2> QED
    BY <2>1, <2>2
<1>7. KnownFirst'
  <2> SUFFICES ASSUME NEW g \in Fds, sock'[g] = "attached", builder'[g] = home'[g]
               PROVE  /\ \A i \in DOMAIN receiveQ[home'[g]] : receiveQ[home'[g]][i] = g => Known(g)
                      /\ \A i \in DOMAIN appCalls :
                           appCalls[i] \in {Call("closed", g), Call("error", g)} =>
                             g \in told \/ \E j \in 1..i : appCalls[j] = Call("connected", g)
    BY <1>1, <1>3 DEF KnownFirst
  <2>1. CASE g = fd
    BY <1>1, <1>2, <2>1
  <2>2. CASE g # fd
    BY <1>1, <2>2 DEF Heard, KnownFirst
  <2> QED
    BY <2>1, <2>2
<1> QED
  BY <1>4, <1>5, <1>6, <1>7 DEF Heard

\* When the loop that has attached a socket handles it, the socket is announced.
LEMMA KnownWhenReady ==
  ASSUME HeardTypes, Heard, NEW fd \in Fds, sock[fd] = "attached", builder[fd] = home[fd],
         Ready(home[fd])
  PROVE  Known(fd)
<1>1. ASSUME NEW x \in Agents, In(Call("connected", fd), announcing[x]) PROVE FALSE
  <2>1. PICK i \in DOMAIN announcing[x] : announcing[x][i] = Call("connected", fd)
    BY <1>1 DEF In
  <2>2. PICK g \in Fds : /\ announcing[x][i] \in {Call("connected", g), Call("asyncConnected", g)}
                         /\ sock[g] = "attached" /\ builder[g] = x
    BY DEF Heard, Announcements
  <2>3. g = fd
    BY <2>1, <2>2, CallsDiffer
  <2> QED
    BY <2>1, <2>2, <2>3 DEF Ready
<1> QED
  BY <1>1 DEF Heard, Announced

LEMMA HeardFails ==
  ASSUME HeardTypes, Heard, NEW fd \in Fds, AttemptFails(fd)
  PROVE  Heard'
<1>1. Call("asyncError", fd) \in AppCalls
  BY CallTypes DEF Notices
<1>2. SameAttached
  BY DEF AttemptFails, SameAttached, HeardTypes
<1>3. \A g \in Fds : Call("asyncError", fd) \notin {Call("connected", g), Call("closed", g), Call("error", g)}
  BY CallsDiffer
<1> QED
  BY <1>1, <1>2, <1>3, HeardPush DEF AttemptFails

LEMMA HeardStep == IInv /\ [Next]_vars => Heard'
<1> SUFFICES ASSUME IInv, [Next]_vars PROVE Heard'
  OBVIOUS
<1>1. /\ HeardTypes /\ Heard
      /\ \A fd \in Fds : sock[fd] = "none" <=> kernel[fd] = "free"
  BY HeardOf, HeardTypesOf DEF TypeOK
<1>2. ASSUME SameAttached, UNCHANGED <<appCalls, announcing, told, receiveQ>> PROVE Heard'
  BY <1>1, <1>2, HeardReceive DEF Receives
<1>3. ASSUME Quiet PROVE SameAttached
  BY <1>3 DEF Quiet, SameAttached
<1>4. CASE Listen \/ PeerConnects \/ UNCHANGED vars
  <2>1. Quiet
    BY <1>4, QuietSteps
  <2> QED
    BY <1>2, <1>3, <1>4, <2>1 DEF Listen, PeerConnects, vars, calls, queues, app
<1>5. ASSUME NEW fd \in Fds,
             \/ PeerAnswers(fd) \/ PeerSends(fd) \/ PeerCloses(fd) \/ PeerBreaks(fd)
             \/ \E a \in Agents : SendMessage(fd, a)
      PROVE  Heard'
  <2>1. Quiet
    BY <1>5, QuietSteps
  <2> QED
    BY <1>2, <1>3, <1>5, <2>1
    DEF PeerAnswers, PeerSends, PeerCloses, PeerBreaks, SendMessage, calls, queues, app
<1>6. ASSUME NEW a \in Agents, OnHandleListened(a) \/ OnSendQueueReady(a) PROVE Heard'
  <2>1. Quiet
    BY <1>6, QuietSteps
  <2> QED
    BY <1>2, <1>3, <1>6, <2>1 DEF OnHandleListened, OnSendQueueReady, calls, queues, app
<1>7. ASSUME NEW fd \in Fds, NEW a \in Agents, AsyncConnect(fd, a) PROVE Heard'
  <2>1. SameAttached
    BY <1>1, <1>7 DEF AsyncConnect, SameAttached, HeardTypes
  <2> QED
    BY <1>2, <1>7, <2>1 DEF AsyncConnect, queues
<1>8. CASE DoWakeupCallback
  BY <1>1, <1>8, HeardWakeup
<1>9. ASSUME NEW a \in Agents, Announce(a) PROVE Heard'
  BY <1>1, <1>9, HeardAnnounce
<1>10. ASSUME NEW a \in Agents, OnExporedPendingRead(a) PROVE Heard'
  <2>1. SameAttached /\ UNCHANGED <<appCalls, announcing, told>>
    BY <1>3, <1>10, QuietSteps DEF OnExporedPendingRead, Expires, calls
  <2>2. Receives
    <3> SUFFICES ASSUME NEW x \in Agents, NEW i \in DOMAIN receiveQ'[x]
                 PROVE  \E j \in DOMAIN receiveQ[x] : receiveQ'[x][i] = receiveQ[x][j]
      BY DEF Receives
    <3>1. CASE x = a
      <4> DEFINE q == receiveQ[a]
                 n == handed[a]
      <4>1. q \in Seq(Fds) /\ n \in Nat /\ n <= Len(q) /\ receiveQ'[a] = SubSeq(q, n + 1, Len(q))
        BY <1>1, <1>10 DEF HeardTypes, OnExporedPendingRead, IInv, Turn, ConnectedFirst, TypeOK
      <4> HIDE DEF q, n
      <4>2. DOMAIN SubSeq(q, n + 1, Len(q)) = 1..(Len(q) - n)
        BY <4>1
      <4>3. /\ i \in 1..(Len(q) - n) /\ i + n \in DOMAIN q
            /\ SubSeq(q, n + 1, Len(q))[i] = q[i + n]
        BY <3>1, <4>1, <4>2
      <4> QED
        BY <3>1, <4>1, <4>3 DEF q
    <3>2. CASE x # a
      BY <1>1, <1>10, <3>2 DEF HeardTypes, OnExporedPendingRead
    <3> QED
      BY <3>1, <3>2
  <2> QED
    BY <1>1, <2>1, <2>2, HeardReceive
<1>11. ASSUME Quiet, NEW call \in AppCalls, call.kind \in {"listened", "listenError"}, Push(call),
              UNCHANGED <<announcing, receiveQ, told>>
       PROVE  Heard'
  <2>1. \A fd \in Fds : call \notin {Call("connected", fd), Call("closed", fd), Call("error", fd)}
    BY <1>11 DEF Call
  <2> QED
    BY <1>1, <1>3, <1>11, <2>1, HeardPush
<1>12. CASE OnListenError
  <2>1. Call("listened", 0) \in AppCalls /\ Call("listened", 0).kind = "listened"
    BY DEF Call, AppCalls
  <2> QED
    BY <1>11, <1>12, <2>1, QuietSteps DEF OnListenError, queues, app
<1>13. ASSUME NEW a \in Agents, OnHandleListen(a) PROVE Heard'
  <2>1. Call("listenError", 0) \in AppCalls /\ Call("listenError", 0).kind = "listenError"
    BY DEF Call, AppCalls
  <2>2. /\ Quiet /\ UNCHANGED <<announcing, receiveQ, told>>
        /\ UNCHANGED appCalls \/ Push(Call("listenError", 0))
    BY <1>13, QuietSteps DEF OnHandleListen, queues, app
  <2> QED
    BY <1>2, <1>3, <1>11, <2>1, <2>2
<1>14. ASSUME NEW a \in Agents, OnHandleAsyncConnect(a) PROVE Heard'
  <2> DEFINE fd == Head(netCalls[a]).fd
  <2>1. /\ fd \in Fds /\ sock[fd] = "opened"
        /\ \/ /\ sock' = [sock EXCEPT ![fd] = "connecting"]
              /\ UNCHANGED <<home, builder, announcing, appCalls, told, receiveQ>>
           \/ AttemptFails(fd)
    BY <1>14, AsyncConnectSplits
  <2> HIDE DEF fd
  <2>2. CASE /\ sock' = [sock EXCEPT ![fd] = "connecting"]
             /\ UNCHANGED <<home, builder, announcing, appCalls, told, receiveQ>>
    <3>1. SameAttached
      BY <1>1, <2>1, <2>2 DEF SameAttached, HeardTypes
    <3> QED
      BY <1>2, <2>2, <3>1
  <2> QED
    BY <1>1, <2>1, <2>2, HeardFails
<1>15. ASSUME NEW a \in Agents, NEW b \in Agents, NEW fd \in Fds, OnListenRead(a, b, fd) PROVE Heard'
  <2>1. Accepts(a, b, fd) \/ NeverOpened(fd)
    BY <1>15, ListenReadSplits
  <2>2. CASE Accepts(a, b, fd)
    <3> DEFINE notices == <<Call("connected", fd)>>
    <3>1. /\ notices \in Seq(AppCalls) /\ In(Call("connected", fd), notices)
          /\ \A i \in DOMAIN notices : notices[i] \in {Call("connected", fd), Call("asyncConnected", fd)}
      BY CallTypes DEF Notices, In
    <3>2. sock[fd] # "attached" /\ Attaches(a, b, fd, notices)
      BY <2>2 DEF Accepts
    <3> HIDE DEF notices
    <3> QED
      BY <1>1, <3>1, <3>2, HeardAttach
  <2>3. CASE NeverOpened(fd)
    BY <1>2, <2>3 DEF NeverOpened, SameAttached
  <2> QED
    BY <2>1, <2>2, <2>3
<1>16. ASSUME NEW a \in Agents, NEW b \in Agents, NEW fd \in Fds, OnAsyncConnectSocketWrite(a, b, fd)
       PROVE  Heard'
  <2>1. Connects(a, b, fd) \/ AttemptFails(fd)
    BY <1>16, ConnectWriteSplits
  <2>2. CASE Connects(a, b, fd)
    <3> DEFINE notices == <<Call("connected", fd), Call("asyncConnected", fd)>>
    <3>1. /\ notices \in Seq(AppCalls)
          /\ \A i \in DOMAIN notices : notices[i] \in {Call("connected", fd), Call("asyncConnected", fd)}
      BY CallTypes DEF Notices
    <3>2. In(Call("connected", fd), notices)
      <4>1. 1 \in DOMAIN notices /\ notices[1] = Call("connected", fd)
        OBVIOUS
      <4> QED
        BY <4>1 DEF In
    <3>3. sock[fd] # "attached" /\ Attaches(a, b, fd, notices)
      BY <2>2 DEF Connects
    <3> HIDE DEF notices
    <3> QED
      BY <1>1, <3>1, <3>2, <3>3, HeardAttach
  <2> QED
    BY <1>1, <2>1, <2>2, HeardFails
<1>17. ASSUME NEW a \in Agents, NEW fd \in Fds, OnAsyncConnectError(a, fd) \/ OnAsyncConnectTimeout(a, fd)
       PROVE  Heard'
  BY <1>1, <1>17, ConnectEnds, HeardFails
\* A close or an error of a socket, reported by the loop that has it.
<1>18. ASSUME NEW a \in Agents, NEW fd \in Fds, sock[fd] = "attached", home[fd] = a, Ready(a), Quiet,
              NEW kind \in {"closed", "error"}, Push(Call(kind, fd)),
              UNCHANGED <<announcing, receiveQ, told>>
       PROVE  Heard'
  <2>1. Call(kind, fd) \in AppCalls
    BY CallTypes DEF Notices
  <2>2. builder[fd] = home[fd] => Known(fd)
    BY <1>1, <1>18, KnownWhenReady
  <2>3. ASSUME NEW g \in Fds
        PROVE  /\ Call(kind, fd) # Call("connected", g)
               /\ Call(kind, fd) \in {Call("closed", g), Call("error", g)} =>
                    sock[g] = "attached" /\ (builder[g] = home[g] => Known(g))
    <3>1. Call(kind, fd) # Call("connected", g)
      BY CallsDiffer
    <3>2. Call(kind, fd) \in {Call("closed", g), Call("error", g)} => g = fd
      BY CallsDiffer
    <3> QED
      BY <1>18, <2>2, <3>1, <3>2
  <2> DEFINE call == Call(kind, fd)
  <2>4. /\ call \in AppCalls /\ Push(call)
        /\ \A g \in Fds : /\ call # Call("connected", g)
                          /\ call \in {Call("closed", g), Call("error", g)} =>
                               sock[g] = "attached" /\ (builder[g] = home[g] => Known(g))
    BY <1>18, <2>1, <2>3
  <2> HIDE DEF call
  <2> QED
    BY <1>1, <1>3, <1>18, <2>4, HeardPush
<1>19. ASSUME NEW a \in Agents, NEW fd \in Fds, OnSocketRead(a, fd) PROVE Heard'
  <2>1. /\ sock[fd] = "attached" /\ home[fd] = a /\ Ready(a) /\ Quiet
        /\ UNCHANGED <<announcing, told>>
    BY <1>19, QuietSteps DEF OnSocketRead, Event, app
  <2>2. \/ UNCHANGED appCalls /\ receiveQ' = [receiveQ EXCEPT ![a] = Append(@, fd)]
        \/ UNCHANGED receiveQ /\ (Push(Call("closed", fd)) \/ Push(Call("error", fd)))
    BY <1>19 DEF OnSocketRead
  <2>3. CASE UNCHANGED appCalls /\ receiveQ' = [receiveQ EXCEPT ![a] = Append(@, fd)]
    <3>1. builder[fd] = home[fd] => Known(fd)
      BY <1>1, <2>1, KnownWhenReady
    <3>2. receiveQ[a] \in Seq(Fds) /\ receiveQ'[a] = Append(receiveQ[a], fd)
      BY <1>1, <2>3 DEF HeardTypes
    <3>3. \A x \in Agents \ {a} : receiveQ'[x] = receiveQ[x]
      BY <1>1, <2>3 DEF HeardTypes
    <3>4. \A i \in DOMAIN receiveQ'[a] : \/ i \in DOMAIN receiveQ[a] /\ receiveQ'[a][i] = receiveQ[a][i]
                                         \/ receiveQ'[a][i] = fd
      BY <3>2, Appended
    <3>5. Receives
      BY <2>1, <3>1, <3>3, <3>4 DEF Receives
    <3> QED
      BY <1>1, <1>3, <2>1, <2>3, <3>5, HeardReceive
  <2>4. CASE UNCHANGED receiveQ /\ (Push(Call("closed", fd)) \/ Push(Call("error", fd)))
    BY <1>18, <2>1, <2>4
  <2> QED
    BY <2>2, <2>3, <2>4
<1>20. ASSUME NEW a \in Agents, NEW fd \in Fds, OnSocketWrite(a, fd) \/ OnSocketError(a, fd) PROVE Heard'
  <2>1. /\ sock[fd] = "attached" /\ home[fd] = a /\ Ready(a) /\ Quiet
        /\ UNCHANGED <<announcing, told, receiveQ>>
    BY <1>20, QuietSteps DEF OnSocketWrite, OnSocketError, Event, queues, app
  <2>2. UNCHANGED appCalls \/ Push(Call("error", fd))
    BY <1>20 DEF OnSocketWrite, OnSocketError
  <2> QED
    BY <1>2, <1>3, <1>18, <2>1, <2>2
<1> QED
  BY <1>4, <1>5, <1>6, <1>7, <1>8, <1>9, <1>10, <1>12, <1>13, <1>14, <1>15, <1>16, <1>17, <1>19, <1>20
  DEF Next, AppStep, NetworkStep

-----------------------------------------------------------------------------
(* Turns of the application's loop. *)

\* What is attached stays where it is.
Stay ==
  \A fd \in Fds : sock[fd] = "attached" =>
    sock'[fd] = "attached" /\ home'[fd] = home[fd] /\ builder'[fd] = builder[fd]

LEMMA TurnStays ==
  ASSUME HeardTypes, Unheard, Turn, handed \in [Agents -> Nat], early \subseteq Fds, Stay,
         UNCHANGED <<turn, told>>,
         \A a \in Agents :
           /\ Len(receiveQ[a]) <= Len(receiveQ'[a]) /\ Len(receiveQ'[a]) \in Nat
           /\ \A i \in DOMAIN receiveQ[a] : receiveQ'[a][i] = receiveQ[a][i]
           /\ \A i \in DOMAIN receiveQ'[a] \ DOMAIN receiveQ[a] :
                receiveQ'[a][i] \in Fds /\ sock[receiveQ'[a][i]] = "attached" /\ home[receiveQ'[a][i]] = a
  PROVE  Turn'
<1>1. \A a \in Agents : handed[a] \in Nat /\ receiveQ[a] \in Seq(Fds) /\ handed[a] <= Len(receiveQ[a])
  BY DEF HeardTypes, Turn
<1>2. \A a \in Agents : \A i \in DOMAIN receiveQ[a] :
        /\ receiveQ[a][i] \in Fds /\ sock[receiveQ[a][i]] = "attached" /\ home[receiveQ[a][i]] = a
        /\ home'[receiveQ[a][i]] = a /\ builder'[receiveQ[a][i]] = builder[receiveQ[a][i]]
  BY <1>1 DEF Turn, Unheard, Stay
<1>3. \A a \in Agents : handed'[a] <= Len(receiveQ'[a])
  <2> SUFFICES ASSUME NEW a \in Agents PROVE handed'[a] <= Len(receiveQ'[a])
    OBVIOUS
  <2>1. handed'[a] = handed[a] /\ handed[a] \in Nat /\ handed[a] <= Len(receiveQ[a]) /\ Len(receiveQ[a]) \in Nat
    BY <1>1 DEF turn
  <2> QED
    BY <2>1
<1>4. \A a \in Agents : \A i \in DOMAIN receiveQ'[a] : home'[receiveQ'[a][i]] = a
  BY <1>2 DEF Stay
<1>5. ASSUME NEW a \in Agents \ expired', NEW i \in 1..handed'[a], builder'[receiveQ'[a][i]] = a
      PROVE  receiveQ'[a][i] \in told'
  <2>1. a \notin expired /\ i \in 1..handed[a] /\ told' = told
    BY <1>5 DEF turn
  <2>2. i \in DOMAIN receiveQ[a]
    BY <1>1, <2>1
  <2> QED
    BY <1>2, <1>5, <2>1, <2>2 DEF Turn
<1>6. \A fd \in early' : sock'[fd] = "attached" /\ builder'[fd] # home'[fd]
  BY DEF Turn, Stay, turn
<1> QED
  BY <1>3, <1>4, <1>5, <1>6 DEF Turn

\* The callbacks at the end of a turn: what was read or handed over in it is known by
\* then.
LEMMA TurnWakeup ==
  ASSUME IInv, DoWakeupCallback
  PROVE  Turn'
<1>1. /\ UNCHANGED <<sock, home, builder, receiveQ, handed, early>> /\ expired' = {}
      /\ told' = told \union {fd \in Fds : In(Call("connected", fd), appCalls)}
  BY DEF DoWakeupCallback, OnHandleConnected, objects, queues
<1>2. Turn /\ KnownFirst /\ Unheard /\ HeardTypes /\ handed \in [Agents -> Nat]
  BY HeardTypesOf DEF IInv, ConnectedFirst, TypeOK
<1>3. ASSUME NEW a \in Agents, NEW i \in 1..handed[a], builder[receiveQ[a][i]] = a
      PROVE  receiveQ[a][i] \in told'
  <2>1. i \in DOMAIN receiveQ[a] /\ receiveQ[a][i] \in Fds
    <3>1. receiveQ[a] \in Seq(Fds) /\ handed[a] \in Nat /\ handed[a] <= Len(receiveQ[a])
      BY <1>2 DEF Turn, HeardTypes
    <3> QED
      BY <3>1
  <2>2. sock[receiveQ[a][i]] = "attached" /\ home[receiveQ[a][i]] = a
    BY <1>2, <2>1 DEF Unheard, Turn
  <2>3. Known(receiveQ[a][i])
    BY <1>2, <1>3, <2>1, <2>2 DEF KnownFirst
  <2> QED
    BY <1>1, <2>1, <2>3 DEF Known
<1> QED
  BY <1>1, <1>2, <1>3 DEF Turn

\* A queue is read: its messages were handed over in an earlier turn.
LEMMA TurnRead ==
  ASSUME IInv, NEW a \in Agents, OnExporedPendingRead(a)
  PROVE  Turn'
<1> DEFINE q == receiveQ[a]
           n == handed[a]
           r == SubSeq(q, n + 1, Len(q))
<1>1. /\ UNCHANGED <<sock, home, builder, told>> /\ a \notin expired /\ expired' = expired \union {a}
      /\ receiveQ' = [receiveQ EXCEPT ![a] = r] /\ handed' = [handed EXCEPT ![a] = Len(q) - n]
      /\ early' = early \union ({q[i] : i \in 1..n} \ told)
  BY DEF OnExporedPendingRead, OnReceiveQueueReady, Expires, objects
<1>2. Turn /\ Unheard /\ HeardTypes /\ handed \in [Agents -> Nat]
  BY HeardTypesOf DEF IInv, ConnectedFirst, TypeOK
<1>3. q \in Seq(Fds) /\ n \in Nat /\ n <= Len(q) /\ Len(q) \in Nat
  BY <1>2 DEF Turn, HeardTypes
<1>4. /\ receiveQ'[a] = r /\ handed'[a] = Len(q) - n
      /\ \A x \in Agents \ {a} : receiveQ'[x] = receiveQ[x] /\ handed'[x] = handed[x]
  BY <1>1, <1>2 DEF HeardTypes
<1>5. \A i \in DOMAIN q : q[i] \in Fds /\ sock[q[i]] = "attached" /\ home[q[i]] = a
  BY <1>2, <1>3 DEF Unheard, Turn
<1>6. \A i \in 1..n : i \in DOMAIN q /\ (builder[q[i]] = a => q[i] \in told)
  BY <1>1, <1>2, <1>3 DEF Turn
<1> HIDE DEF q, n
<1>7. DOMAIN r = 1..(Len(q) - n) /\ Len(r) = Len(q) - n
  BY <1>3
<1>8. \A i \in DOMAIN r : i + n \in DOMAIN q /\ r[i] = q[i + n]
  BY <1>3, <1>7
<1> HIDE DEF r
<1>9. \A x \in Agents : handed'[x] <= Len(receiveQ'[x])
  <2>1. ASSUME NEW x \in Agents, x # a PROVE handed'[x] <= Len(receiveQ'[x])
    BY <1>2, <1>4, <2>1 DEF Turn
  <2>2. handed'[a] <= Len(receiveQ'[a])
    BY <1>3, <1>4, <1>7
  <2> QED
    BY <2>1, <2>2
<1>10. \A x \in Agents : \A i \in DOMAIN receiveQ'[x] : home'[receiveQ'[x][i]] = x
  <2>1. ASSUME NEW x \in Agents, x # a, NEW i \in DOMAIN receiveQ'[x] PROVE home'[receiveQ'[x][i]] = x
    BY <1>1, <1>2, <1>4, <2>1 DEF Turn
  <2>2. ASSUME NEW i \in DOMAIN receiveQ'[a] PROVE home'[receiveQ'[a][i]] = a
    BY <1>1, <1>4, <1>5, <1>8, <2>2
  <2> QED
    BY <2>1, <2>2
<1>11. \A x \in Agents \ expired' : \A i \in 1..handed'[x] :
         builder'[receiveQ'[x][i]] = x => receiveQ'[x][i] \in told'
  BY <1>1, <1>2, <1>4 DEF Turn
<1>12. \A fd \in early' : sock'[fd] = "attached" /\ builder'[fd] # home'[fd]
  <2>1. ASSUME NEW fd \in early PROVE sock[fd] = "attached" /\ builder[fd] # home[fd]
    BY <1>2 DEF Turn
  <2>2. ASSUME NEW i \in 1..n, q[i] \notin told PROVE sock[q[i]] = "attached" /\ builder[q[i]] # home[q[i]]
    BY <1>5, <1>6, <2>2
  <2> QED
    BY <1>1, <2>1, <2>2
<1> QED
  BY <1>9, <1>10, <1>11, <1>12 DEF Turn

LEMMA TurnStep == IInv /\ [Next]_vars => Turn'
<1> SUFFICES ASSUME IInv, [Next]_vars PROVE Turn'
  OBVIOUS
<1>1. /\ HeardTypes /\ Unheard /\ Turn /\ handed \in [Agents -> Nat] /\ early \subseteq Fds
      /\ \A fd \in Fds : sock[fd] = "none" <=> kernel[fd] = "free"
  BY HeardTypesOf DEF IInv, ConnectedFirst, TypeOK
<1>2. ASSUME Stay, UNCHANGED <<turn, told, receiveQ>> PROVE Turn'
  <2>1. \A a \in Agents : Len(receiveQ[a]) \in Nat
    BY <1>1 DEF HeardTypes
  <2> QED
    BY <1>1, <1>2, <2>1, TurnStays
<1>3. ASSUME Quiet PROVE Stay
  BY <1>3 DEF Quiet, Stay
<1>4. ASSUME NEW fd \in Fds, sock[fd] # "attached",
             \A g \in Fds \ {fd} : sock'[g] = sock[g] /\ home'[g] = home[g] /\ builder'[g] = builder[g]
      PROVE  Stay
  BY <1>4 DEF Stay
<1>5. CASE Listen \/ PeerConnects \/ OnListenError \/ UNCHANGED vars
  <2>1. Quiet
    BY <1>5, QuietSteps
  <2> QED
    BY <1>2, <1>3, <1>5, <2>1 DEF Listen, PeerConnects, OnListenError, vars, queues, app, turn
<1>6. ASSUME NEW fd \in Fds,
             \/ PeerAnswers(fd) \/ PeerSends(fd) \/ PeerCloses(fd) \/ PeerBreaks(fd)
             \/ \E a \in Agents : SendMessage(fd, a)
      PROVE  Turn'
  <2>1. Quiet
    BY <1>6, QuietSteps
  <2> QED
    BY <1>2, <1>3, <1>6, <2>1
    DEF PeerAnswers, PeerSends, PeerCloses, PeerBreaks, SendMessage, queues, app, turn
<1>7. ASSUME NEW a \in Agents,
             Announce(a) \/ OnHandleListen(a) \/ OnHandleListened(a) \/ OnSendQueueReady(a)
      PROVE  Turn'
  <2>1. Quiet
    BY <1>7, QuietSteps
  <2> QED
    BY <1>2, <1>3, <1>7, <2>1
    DEF Announce, OnHandleListen, OnHandleListened, OnSendQueueReady, queues, app, turn
<1>8. ASSUME NEW fd \in Fds, NEW a \in Agents, AsyncConnect(fd, a) PROVE Turn'
  <2>1. Stay
    BY <1>1, <1>4, <1>8 DEF AsyncConnect, HeardTypes
  <2> QED
    BY <1>2, <1>8, <2>1 DEF AsyncConnect, queues, turn
<1>9. CASE DoWakeupCallback
  BY <1>9, TurnWakeup
<1>10. ASSUME NEW a \in Agents, OnExporedPendingRead(a) PROVE Turn'
  BY <1>10, TurnRead
<1>11. ASSUME NEW fd \in Fds, AttemptFails(fd) PROVE Turn'
  <2>1. Stay
    BY <1>1, <1>4, <1>11 DEF AttemptFails, HeardTypes
  <2> QED
    BY <1>2, <1>11, <2>1 DEF AttemptFails
<1>12. ASSUME NEW a \in Agents, NEW b \in Agents, NEW fd \in Fds, NEW notices,
              sock[fd] # "attached", Attaches(a, b, fd, notices)
       PROVE  Turn'
  <2>1. Stay
    BY <1>1, <1>4, <1>12 DEF Attaches, HeardTypes
  <2> QED
    BY <1>2, <1>12, <2>1 DEF Attaches
<1>13. ASSUME NEW a \in Agents, NEW b \in Agents, NEW fd \in Fds, OnListenRead(a, b, fd) PROVE Turn'
  <2>1. Accepts(a, b, fd) \/ NeverOpened(fd)
    BY <1>13, ListenReadSplits
  <2>2. CASE NeverOpened(fd)
    BY <1>2, <2>2 DEF NeverOpened, Stay
  <2> QED
    BY <1>12, <2>1, <2>2 DEF Accepts
<1>14. ASSUME NEW a \in Agents, NEW b \in Agents, NEW fd \in Fds, OnAsyncConnectSocketWrite(a, b, fd)
       PROVE  Turn'
  <2>1. Connects(a, b, fd) \/ AttemptFails(fd)
    BY <1>14, ConnectWriteSplits
  <2> QED
    BY <1>11, <1>12, <2>1 DEF Connects
<1>15. ASSUME NEW a \in Agents, NEW fd \in Fds, OnAsyncConnectError(a, fd) \/ OnAsyncConnectTimeout(a, fd)
       PROVE  Turn'
  BY <1>11, <1>15, ConnectEnds
<1>16. ASSUME NEW a \in Agents, OnHandleAsyncConnect(a) PROVE Turn'
  <2> DEFINE fd == Head(netCalls[a]).fd
  <2>1. /\ fd \in Fds /\ sock[fd] = "opened"
        /\ \/ /\ sock' = [sock EXCEPT ![fd] = "connecting"]
              /\ UNCHANGED <<home, builder, told, turn, receiveQ>>
           \/ AttemptFails(fd)
    BY <1>16, AsyncConnectSplits
  <2> HIDE DEF fd
  <2>2. CASE /\ sock' = [sock EXCEPT ![fd] = "connecting"]
             /\ UNCHANGED <<home, builder, told, turn, receiveQ>>
    <3>1. Stay
      BY <1>1, <1>4, <2>1, <2>2 DEF HeardTypes
    <3> QED
      BY <1>2, <2>2, <3>1
  <2> QED
    BY <1>11, <2>1, <2>2
<1>17. ASSUME NEW a \in Agents, NEW fd \in Fds, OnSocketRead(a, fd) PROVE Turn'
  <2>1. /\ sock[fd] = "attached" /\ home[fd] = a /\ Stay /\ UNCHANGED <<turn, told>>
    BY <1>3, <1>17, QuietSteps DEF OnSocketRead, Event, app, turn
  <2>2. UNCHANGED receiveQ \/ receiveQ' = [receiveQ EXCEPT ![a] = Append(@, fd)]
    BY <1>17 DEF OnSocketRead
  <2>3. CASE receiveQ' = [receiveQ EXCEPT ![a] = Append(@, fd)]
    <3>1. /\ receiveQ[a] \in Seq(Fds) /\ receiveQ'[a] = Append(receiveQ[a], fd)
          /\ \A x \in Agents \ {a} : receiveQ'[x] = receiveQ[x] /\ receiveQ[x] \in Seq(Fds)
      BY <1>1, <2>3 DEF HeardTypes
    <3>2. /\ Len(receiveQ'[a]) = Len(receiveQ[a]) + 1 /\ Len(receiveQ[a]) \in Nat
          /\ \A i \in DOMAIN receiveQ[a] : receiveQ'[a][i] = receiveQ[a][i]
          /\ \A i \in DOMAIN receiveQ'[a] \ DOMAIN receiveQ[a] : receiveQ'[a][i] = fd
      BY <3>1
    <3>3. \A x \in Agents :
            /\ Len(receiveQ[x]) <= Len(receiveQ'[x]) /\ Len(receiveQ'[x]) \in Nat
            /\ \A i \in DOMAIN receiveQ[x] : receiveQ'[x][i] = receiveQ[x][i]
            /\ \A i \in DOMAIN receiveQ'[x] \ DOMAIN receiveQ[x] :
                 receiveQ'[x][i] \in Fds /\ sock[receiveQ'[x][i]] = "attached" /\ home[receiveQ'[x][i]] = x
      <4>1. ASSUME NEW x \in Agents, x # a
            PROVE  receiveQ'[x] = receiveQ[x] /\ Len(receiveQ[x]) \in Nat
        BY <3>1, <4>1
      <4> QED
        BY <2>1, <3>2, <4>1
    <3> QED
      BY <1>1, <2>1, <3>3, TurnStays
  <2> QED
    BY <1>2, <2>1, <2>2, <2>3
<1>18. ASSUME NEW a \in Agents, NEW fd \in Fds, OnSocketWrite(a, fd) \/ OnSocketError(a, fd) PROVE Turn'
  <2>1. Stay /\ UNCHANGED <<turn, told, receiveQ>>
    BY <1>3, <1>18, QuietSteps DEF OnSocketWrite, OnSocketError, queues, app, turn
  <2> QED
    BY <1>2, <2>1
<1> QED
  BY <1>5, <1>6, <1>7, <1>8, <1>9, <1>10, <1>13, <1>14, <1>15, <1>16, <1>17, <1>18
  DEF Next, AppStep, NetworkStep

-----------------------------------------------------------------------------
(* Answers. *)

LEMMA PendingAppend ==
  ASSUME NEW fd, NEW S, NEW q \in Seq(S), NEW e \in S
  PROVE  Pending(fd, Append(q, e)) = Pending(fd, q) + (IF e \in Answers(fd) THEN 1 ELSE 0)
<1> DEFINE r == Append(q, e)
           n == Len(q)
<1>1. /\ r \in Seq(S) /\ DOMAIN r = 1..(n + 1) /\ DOMAIN q = 1..n /\ n \in Nat
      /\ r[n + 1] = e /\ \A i \in DOMAIN q : r[i] = q[i]
      /\ \A i \in DOMAIN r : i \in DOMAIN q \/ i = n + 1
  BY Appended
<1> HIDE DEF r, n
<1>2. /\ IsFiniteSet(Places(fd, q)) /\ Pending(fd, q) = Cardinality(Places(fd, q)) /\ Pending(fd, q) \in Nat
      /\ Pending(fd, r) = Cardinality(Places(fd, r))
  BY <1>1, PlacesFinite
<1>3. CASE e \in Answers(fd)
  <2>1. Places(fd, r) = Places(fd, q) \cup {n + 1}
    BY <1>1, <1>3 DEF Places
  <2>2. n + 1 \notin Places(fd, q)
    BY <1>1 DEF Places
  <2>3. Cardinality(Places(fd, q) \cup {n + 1}) = Cardinality(Places(fd, q)) + 1
    BY <1>2, <2>2, FS_AddElement
  <2> QED
    BY <1>2, <1>3, <2>1, <2>3 DEF r
<1>4. CASE e \notin Answers(fd)
  <2>1. Places(fd, r) = Places(fd, q)
    BY <1>1, <1>4 DEF Places
  <2> QED
    BY <1>2, <1>4, <2>1 DEF r
<1> QED
  BY <1>3, <1>4

LEMMA PendingTail ==
  ASSUME NEW fd, NEW S, NEW q \in Seq(S), q # <<>>
  PROVE  Pending(fd, q) = Pending(fd, Tail(q)) + (IF Head(q) \in Answers(fd) THEN 1 ELSE 0)
<1> DEFINE t == Tail(q)
           P == Places(fd, q)
           T == Places(fd, t)
           f == [i \in T |-> i + 1]
<1>1. /\ t \in Seq(S) /\ Head(q) = q[1] /\ 1 \in DOMAIN q
      /\ DOMAIN t = 1..(Len(q) - 1) /\ DOMAIN q = 1..Len(q) /\ Len(q) \in Nat \ {0}
      /\ \A i \in DOMAIN t : i + 1 \in DOMAIN q /\ t[i] = q[i + 1]
      /\ \A i \in DOMAIN q : i = 1 \/ (i - 1 \in DOMAIN t /\ t[i - 1] = q[i])
  BY Shifted
<1>2. /\ IsFiniteSet(P) /\ IsFiniteSet(T) /\ Pending(fd, q) = Cardinality(P) /\ Pending(fd, q) \in Nat
      /\ Pending(fd, t) = Cardinality(T) /\ Pending(fd, t) \in Nat
  BY <1>1, PlacesFinite
<1> HIDE DEF t
<1>3. f \in Bijection(T, P \ {1})
  <2>1. ASSUME NEW i \in T PROVE i + 1 \in P \ {1} /\ i \in Nat /\ i # 0
    BY <1>1 DEF Places
  <2>2. ASSUME NEW j \in P \ {1} PROVE j - 1 \in T /\ j = (j - 1) + 1
    BY <1>1 DEF Places
  <2>3. f \in [T -> P \ {1}]
    BY <2>1
  <2>4. \A i, j \in T : f[i] = f[j] => i = j
    BY <2>1
  <2>5. \A j \in P \ {1} : \E i \in T : f[i] = j
    BY <2>2
  <2> HIDE DEF f, T, P
  <2> QED
    BY <2>3, <2>4, <2>5 DEF Bijection, Injection, Surjection, IsInjective
<1>4. Cardinality(P \ {1}) = Cardinality(T)
  BY <1>2, <1>3, FS_Bijection DEF ExistsBijection
<1>5. Cardinality(P \ {1}) = IF 1 \in P THEN Cardinality(P) - 1 ELSE Cardinality(P)
  BY <1>2, FS_RemoveElement
<1>6. 1 \in P <=> Head(q) \in Answers(fd)
  BY <1>1 DEF Places
<1> HIDE DEF P, T
<1> QED
  BY <1>2, <1>4, <1>5, <1>6 DEF t

LEMMA AnswersDiffer ==
  ASSUME NEW fd, NEW g, NEW kind
  PROVE  Call(kind, g) \in Answers(fd) <=> kind \in {"asyncConnected", "asyncError"} /\ g = fd
BY CallsDiffer DEF Answers

Waiting(fd) == IF sock[fd] \in {"opened", "connecting"} THEN 1 ELSE 0

LEMMA AnswersStep == IInv /\ [Next]_vars => AnswersCounted'
<1> SUFFICES ASSUME IInv, [Next]_vars PROVE AnswersCounted'
  OBVIOUS
<1>1. /\ HeardTypes /\ Heard /\ AnswersCounted
      /\ attempts \in [Fds -> 0..MaxOpen] /\ answers \in [Fds -> Nat]
      /\ \A fd \in Fds : sock[fd] = "none" <=> kernel[fd] = "free"
  BY HeardOf, HeardTypesOf DEF TypeOK
<1>2. /\ \A fd \in Fds : Pending(fd, appCalls) \in Nat
      /\ \A fd \in Fds : \A a \in Agents : Pending(fd, announcing[a]) \in Nat
  BY <1>1, PlacesFinite DEF HeardTypes
<1>3. \A fd \in Fds : attempts[fd] \in Nat /\ answers[fd] \in Nat /\ builder[fd] \in Agents
  BY <1>1, ServiceAssumption DEF HeardTypes
<1>4. \A fd \in Fds :
        /\ attempts[fd] - answers[fd]
             = Waiting(fd) + Pending(fd, appCalls) + Pending(fd, announcing[builder[fd]])
        /\ \A a \in Agents \ {builder[fd]} : Pending(fd, announcing[a]) = 0
  BY <1>1 DEF AnswersCounted, Waiting
\* It is enough to know the counts of each descriptor.
<1>5. ASSUME \A fd \in Fds :
               /\ attempts'[fd] - answers'[fd]
                    = Waiting(fd)' + Pending(fd, appCalls)' + Pending(fd, announcing[builder[fd]])'
               /\ \A a \in Agents \ {builder'[fd]} : Pending(fd, announcing[a])' = 0
      PROVE  AnswersCounted'
  BY <1>5 DEF AnswersCounted, Waiting
\* Calls that are no answers may be pushed.
<1>6. ASSUME UNCHANGED <<attempts, answers, announcing, builder>>,
             \A fd \in Fds : Waiting(fd)' = Waiting(fd),
             \/ UNCHANGED appCalls
             \/ \E call \in AppCalls : Push(call) /\ \A fd \in Fds : call \notin Answers(fd)
      PROVE  AnswersCounted'
  <2>1. ASSUME NEW fd \in Fds PROVE Pending(fd, appCalls') = Pending(fd, appCalls)
    <3>1. CASE UNCHANGED appCalls
      BY <3>1
    <3>2. ASSUME NEW call \in AppCalls, Push(call), call \notin Answers(fd)
          PROVE  Pending(fd, appCalls') = Pending(fd, appCalls)
      <4>1. appCalls \in Seq(AppCalls) /\ appCalls' = Append(appCalls, call)
        BY <1>1, <3>2 DEF HeardTypes, Push
      <4>2. Pending(fd, Append(appCalls, call))
              = Pending(fd, appCalls) + (IF call \in Answers(fd) THEN 1 ELSE 0)
        BY <4>1, PendingAppend
      <4> QED
        BY <1>2, <3>2, <4>1, <4>2
    <3> QED
      BY <1>6, <3>1, <3>2
  <2>2. ASSUME NEW fd \in Fds
        PROVE  /\ attempts'[fd] - answers'[fd]
                    = Waiting(fd)' + Pending(fd, appCalls)' + Pending(fd, announcing[builder[fd]])'
               /\ \A a \in Agents \ {builder'[fd]} : Pending(fd, announcing[a])' = 0
    BY <1>4, <1>6, <2>1
  <2> QED
    BY <1>5, <2>2
<1>7. ASSUME Quiet PROVE /\ UNCHANGED <<attempts, builder>> /\ \A fd \in Fds : Waiting(fd)' = Waiting(fd)
  BY <1>7 DEF Quiet, Waiting
<1>8. CASE Listen \/ PeerConnects \/ UNCHANGED vars
  <2>1. Quiet
    BY <1>8, QuietSteps
  <2> QED
    BY <1>6, <1>7, <1>8, <2>1 DEF Listen, PeerConnects, vars, calls, app
<1>9. ASSUME NEW fd \in Fds,
             \/ PeerAnswers(fd) \/ PeerSends(fd) \/ PeerCloses(fd) \/ PeerBreaks(fd)
             \/ \E a \in Agents : SendMessage(fd, a)
      PROVE  AnswersCounted'
  <2>1. Quiet
    BY <1>9, QuietSteps
  <2> QED
    BY <1>6, <1>7, <1>9, <2>1 DEF PeerAnswers, PeerSends, PeerCloses, PeerBreaks, SendMessage, calls, app
<1>10. ASSUME NEW a \in Agents, OnHandleListened(a) \/ OnSendQueueReady(a) \/ OnExporedPendingRead(a)
       PROVE  AnswersCounted'
  <2>1. Quiet
    BY <1>10, QuietSteps
  <2> QED
    BY <1>6, <1>7, <1>10, <2>1 DEF OnHandleListened, OnSendQueueReady, OnExporedPendingRead, Expires, calls, app
<1>11. CASE OnListenError
  <2>1. Call("listened", 0) \in AppCalls /\ \A fd \in Fds : Call("listened", 0) \notin Answers(fd)
    <3>1. Call("listened", 0) \in AppCalls
      BY DEF Call, AppCalls
    <3> QED
      BY <3>1, AnswersDiffer
  <2>2. Quiet
    BY <1>11, QuietSteps
  <2> QED
    BY <1>6, <1>7, <1>11, <2>1, <2>2 DEF OnListenError, app
<1>12. ASSUME NEW a \in Agents, OnHandleListen(a) PROVE AnswersCounted'
  <2>1. Call("listenError", 0) \in AppCalls /\ \A fd \in Fds : Call("listenError", 0) \notin Answers(fd)
    <3>1. Call("listenError", 0) \in AppCalls
      BY DEF Call, AppCalls
    <3> QED
      BY <3>1, AnswersDiffer
  <2>2. Quiet
    BY <1>12, QuietSteps
  <2>3. /\ UNCHANGED <<answers, announcing>>
        /\ UNCHANGED appCalls \/ Push(Call("listenError", 0))
    BY <1>12 DEF OnHandleListen, app
  <2> QED
    BY <1>6, <1>7, <2>1, <2>2, <2>3
<1>13. ASSUME NEW a \in Agents, NEW fd \in Fds,
              OnSocketRead(a, fd) \/ OnSocketWrite(a, fd) \/ OnSocketError(a, fd)
       PROVE  AnswersCounted'
  <2>1. ASSUME NEW kind \in {"closed", "error"}
        PROVE  Call(kind, fd) \in AppCalls /\ \A g \in Fds : Call(kind, fd) \notin Answers(g)
    BY CallTypes, AnswersDiffer DEF Notices
  <2>2. Quiet
    BY <1>13, QuietSteps
  <2>3. /\ UNCHANGED <<answers, announcing>>
        /\ UNCHANGED appCalls \/ Push(Call("closed", fd)) \/ Push(Call("error", fd))
    BY <1>13 DEF OnSocketRead, OnSocketWrite, OnSocketError, app
  <2> QED
    BY <1>6, <1>7, <2>1, <2>2, <2>3
<1>14. ASSUME NEW fd \in Fds, NEW a \in Agents, AsyncConnect(fd, a) PROVE AnswersCounted'
  <2>1. /\ sock[fd] = "none" /\ sock' = [sock EXCEPT ![fd] = "opened"]
        /\ attempts' = [attempts EXCEPT ![fd] = @ + 1]
        /\ UNCHANGED <<builder, appCalls, announcing, answers>>
    BY <1>1, <1>14 DEF AsyncConnect
  <2>2. ASSUME NEW g \in Fds
        PROVE  /\ attempts'[g] - answers'[g]
                    = Waiting(g)' + Pending(g, appCalls)' + Pending(g, announcing[builder[g]])'
               /\ \A x \in Agents \ {builder'[g]} : Pending(g, announcing[x])' = 0
    <3>1. /\ Pending(g, appCalls') = Pending(g, appCalls)
          /\ \A x \in Agents : Pending(g, announcing'[x]) = Pending(g, announcing[x])
          /\ builder'[g] = builder[g] /\ answers'[g] = answers[g]
      BY <2>1
    <3>2. CASE g = fd
      <4>1. Waiting(g) = 0 /\ Waiting(g)' = 1 /\ attempts'[g] = attempts[g] + 1
        BY <1>1, <2>1, <3>2 DEF Waiting, HeardTypes
      <4>2. attempts[g] - answers[g] = 0 + Pending(g, appCalls) + Pending(g, announcing[builder[g]])
        BY <1>4, <4>1
      <4>3. attempts'[g] - answers[g] = 1 + Pending(g, appCalls) + Pending(g, announcing[builder[g]])
        BY <1>2, <1>3, <4>1, <4>2
      <4> QED
        BY <1>3, <1>4, <3>1, <4>1, <4>3
    <3>3. CASE g # fd
      <4>1. Waiting(g)' = Waiting(g) /\ attempts'[g] = attempts[g]
        BY <1>1, <2>1, <3>3 DEF Waiting, HeardTypes
      <4> QED
        BY <1>4, <2>1, <3>1, <4>1
    <3> QED
      BY <3>2, <3>3
  <2> QED
    BY <1>5, <2>2
<1>15. ASSUME NEW fd \in Fds, AttemptFails(fd) PROVE AnswersCounted'
  <2>1. /\ sock[fd] \in {"opened", "connecting"} /\ sock' = [sock EXCEPT ![fd] = "none"]
        /\ appCalls \in Seq(AppCalls) /\ appCalls' = Append(appCalls, Call("asyncError", fd))
        /\ UNCHANGED <<builder, announcing, attempts, answers>>
    BY <1>1, <1>15 DEF AttemptFails, Push, HeardTypes
  <2>2. ASSUME NEW g \in Fds
        PROVE  /\ attempts'[g] - answers'[g]
                    = Waiting(g)' + Pending(g, appCalls)' + Pending(g, announcing[builder[g]])'
               /\ \A x \in Agents \ {builder'[g]} : Pending(g, announcing[x])' = 0
    <3>1. /\ \A x \in Agents : Pending(g, announcing'[x]) = Pending(g, announcing[x])
          /\ builder'[g] = builder[g] /\ answers'[g] = answers[g] /\ attempts'[g] = attempts[g]
      BY <2>1
    <3>2. Pending(g, appCalls')
            = Pending(g, appCalls) + (IF Call("asyncError", fd) \in Answers(g) THEN 1 ELSE 0)
      BY <2>1, CallTypes, PendingAppend DEF Notices
    <3>3. Call("asyncError", fd) \in Answers(g) <=> g = fd
      BY AnswersDiffer
    <3>4. CASE g = fd
      <4>1. Waiting(g) = 1 /\ Waiting(g)' = 0
        BY <1>1, <2>1, <3>4 DEF Waiting, HeardTypes
      <4> QED
        BY <1>2, <1>3, <1>4, <2>1, <3>1, <3>2, <3>3, <3>4, <4>1
    <3>5. CASE g # fd
      <4>1. Waiting(g)' = Waiting(g)
        BY <1>1, <2>1, <3>5 DEF Waiting, HeardTypes
      <4> QED
        BY <1>2, <1>4, <2>1, <3>1, <3>2, <3>3, <3>5, <4>1
    <3> QED
      BY <3>4, <3>5
  <2> QED
    BY <1>5, <2>2
<1>16. CASE DoWakeupCallback
  <2>1. /\ appCalls' = <<>> /\ UNCHANGED <<sock, builder, announcing, attempts>>
        /\ answers' = [fd \in Fds |-> answers[fd] + Pending(fd, appCalls)]
    BY <1>16 DEF DoWakeupCallback, OnHandleAnswers, objects
  <2>2. ASSUME NEW g \in Fds
        PROVE  /\ attempts'[g] - answers'[g]
                    = Waiting(g)' + Pending(g, appCalls)' + Pending(g, announcing[builder[g]])'
               /\ \A x \in Agents \ {builder'[g]} : Pending(g, announcing[x])' = 0
    <3>1. /\ \A x \in Agents : Pending(g, announcing'[x]) = Pending(g, announcing[x])
          /\ builder'[g] = builder[g] /\ attempts'[g] = attempts[g] /\ Waiting(g)' = Waiting(g)
      BY <2>1 DEF Waiting
    <3>2. Pending(g, appCalls') = 0 /\ answers'[g] = answers[g] + Pending(g, appCalls)
      BY <2>1, PendingEmpty
    <3>3. Waiting(g) \in Nat
      BY DEF Waiting
    <3>4. attempts[g] - answers[g] = Waiting(g) + Pending(g, appCalls) + Pending(g, announcing[builder[g]])
      BY <1>4
    <3>5. attempts[g] - answers'[g] = Waiting(g) + 0 + Pending(g, announcing[builder[g]])
      BY <1>2, <1>3, <3>2, <3>3, <3>4
    <3>6. \A x \in Agents \ {builder[g]} : Pending(g, announcing'[x]) = 0
      BY <1>4, <3>1
    <3>7. Pending(g, announcing'[builder[g]]) = Pending(g, announcing[builder[g]])
      BY <1>3, <3>1
    <3> QED
      BY <3>1, <3>2, <3>5, <3>6, <3>7
  <2> QED
    BY <1>5, <2>2
<1>17. ASSUME NEW a \in Agents, Announce(a) PROVE AnswersCounted'
  <2> DEFINE call == Head(announcing[a])
             s == Tail(announcing[a])
  <2>1. /\ announcing[a] \in Seq(AppCalls) /\ announcing[a] # <<>> /\ appCalls \in Seq(AppCalls)
        /\ appCalls' = Append(appCalls, call) /\ call \in AppCalls /\ s \in Seq(AppCalls)
        /\ announcing'[a] = s /\ \A x \in Agents \ {a} : announcing'[x] = announcing[x]
        /\ UNCHANGED <<sock, builder, attempts, answers>>
    BY <1>1, <1>17 DEF HeardTypes, Announce, Push, objects, app
  <2>2. ASSUME NEW g \in Fds
        PROVE  /\ attempts'[g] - answers'[g]
                    = Waiting(g)' + Pending(g, appCalls)' + Pending(g, announcing[builder[g]])'
               /\ \A x \in Agents \ {builder'[g]} : Pending(g, announcing[x])' = 0
    <3>1. Pending(g, appCalls') = Pending(g, appCalls) + (IF call \in Answers(g) THEN 1 ELSE 0)
      BY <2>1, PendingAppend
    <3>2. Pending(g, announcing[a]) = Pending(g, s) + (IF call \in Answers(g) THEN 1 ELSE 0)
      BY <2>1, PendingTail
    <3>3. Pending(g, s) \in Nat
      BY <2>1, PlacesFinite
    <3>4. /\ builder'[g] = builder[g] /\ attempts'[g] = attempts[g] /\ Waiting(g)' = Waiting(g)
          /\ answers'[g] = answers[g] /\ Waiting(g) \in Nat
      BY <2>1 DEF Waiting
    <3> HIDE DEF call, s
    <3>5. CASE builder[g] = a
      <4>1. \A x \in Agents \ {a} : Pending(g, announcing'[x]) = 0
        BY <1>4, <2>1, <3>5
      <4>2. Pending(g, announcing'[a]) = Pending(g, s)
        BY <2>1
      <4>3. attempts[g] - answers[g] = Waiting(g) + Pending(g, appCalls) + Pending(g, announcing[a])
        BY <1>4, <3>5
      <4>4. attempts[g] - answers[g] = Waiting(g) + Pending(g, appCalls') + Pending(g, s)
        BY <1>2, <1>3, <3>1, <3>2, <3>3, <3>4, <4>3
      <4> QED
        BY <3>4, <3>5, <4>1, <4>2, <4>4
    <3>6. CASE builder[g] # a
      <4>1. call \notin Answers(g) /\ Pending(g, s) = 0
        BY <1>4, <3>2, <3>3, <3>6
      <4>2. Pending(g, appCalls') = Pending(g, appCalls)
        BY <1>2, <3>1, <4>1
      <4>3. Pending(g, announcing'[builder[g]]) = Pending(g, announcing[builder[g]])
        BY <1>3, <2>1, <3>6
      <4>4. ASSUME NEW x \in Agents \ {builder[g]} PROVE Pending(g, announcing'[x]) = 0
        BY <1>4, <2>1, <4>1
      <4> QED
        BY <1>4, <3>4, <4>2, <4>3, <4>4
    <3> QED
      BY <3>5, <3>6
  <2> QED
    BY <1>5, <2>2
\* A socket is attached: its loop had nothing to announce, and nobody announced it.
<1>18. ASSUME NEW a \in Agents, NEW b \in Agents, NEW fd \in Fds, NEW notices,
              sock[fd] # "attached", Attaches(a, b, fd, notices),
              Pending(fd, notices) = Waiting(fd), \A g \in Fds \ {fd} : Pending(g, notices) = 0
       PROVE  AnswersCounted'
  <2>1. /\ sock'[fd] = "attached" /\ builder'[fd] = a
        /\ \A g \in Fds \ {fd} : sock'[g] = sock[g] /\ builder'[g] = builder[g]
        /\ announcing'[a] = notices /\ announcing[a] = <<>>
        /\ \A x \in Agents \ {a} : announcing'[x] = announcing[x]
        /\ UNCHANGED <<appCalls, attempts, answers>>
    BY <1>1, <1>18 DEF HeardTypes, Attaches, Ready
  <2>2. \A x \in Agents : Pending(fd, announcing[x]) = 0
    <3> SUFFICES ASSUME NEW x \in Agents PROVE Pending(fd, announcing[x]) = 0
      OBVIOUS
    <3>1. ASSUME NEW i \in DOMAIN announcing[x] PROVE announcing[x][i] \notin Answers(fd)
      <4>1. PICK g \in Fds : /\ announcing[x][i] \in {Call("connected", g), Call("asyncConnected", g)}
                             /\ sock[g] = "attached"
        BY <1>1 DEF Heard, Announcements
      <4> QED
        BY <1>18, <4>1, AnswersDiffer
    <3>2. {i \in DOMAIN announcing[x] : announcing[x][i] \in Answers(fd)} = {}
      BY <3>1
    <3> QED
      BY <3>2, FS_EmptySet DEF Pending
  <2>3. ASSUME NEW g \in Fds
        PROVE  /\ attempts'[g] - answers'[g]
                    = Waiting(g)' + Pending(g, appCalls)' + Pending(g, announcing[builder[g]])'
               /\ \A x \in Agents \ {builder'[g]} : Pending(g, announcing[x])' = 0
    <3>1. CASE g = fd
      <4>1. Waiting(g)' = 0 /\ Waiting(g) \in Nat
        BY <2>1, <3>1 DEF Waiting
      <4>2. /\ Pending(g, announcing[builder[g]])' = Waiting(g)
            /\ Pending(g, announcing[builder[g]]) = 0 /\ Pending(g, appCalls') = Pending(g, appCalls)
        BY <1>3, <1>18, <2>1, <2>2, <3>1
      <4>3. ASSUME NEW x \in Agents \ {builder'[g]} PROVE Pending(g, announcing'[x]) = 0
        BY <2>1, <2>2, <3>1
      <4> QED
        BY <1>2, <1>4, <2>1, <4>1, <4>2, <4>3
    <3>2. CASE g # fd
      <4>1. Waiting(g)' = Waiting(g) /\ builder'[g] = builder[g]
        BY <2>1, <3>2 DEF Waiting
      <4>2. Pending(g, announcing[a]) = 0 /\ Pending(g, announcing'[a]) = 0
        BY <1>18, <2>1, <3>2, PendingEmpty
      <4>3. \A x \in Agents : Pending(g, announcing'[x]) = Pending(g, announcing[x])
        BY <2>1, <4>2
      <4> QED
        BY <1>3, <1>4, <2>1, <4>1, <4>3
    <3> QED
      BY <3>1, <3>2
  <2> QED
    BY <1>5, <2>3
<1>19. ASSUME NEW a \in Agents, NEW b \in Agents, NEW fd \in Fds, OnListenRead(a, b, fd)
       PROVE  AnswersCounted'
  <2>1. Accepts(a, b, fd) \/ NeverOpened(fd)
    BY <1>19, ListenReadSplits
  <2>2. CASE Accepts(a, b, fd)
    <3> DEFINE notices == <<Call("connected", fd)>>
    <3>1. ASSUME NEW g \in Fds PROVE Pending(g, notices) = 0
      <4>1. {i \in DOMAIN notices : notices[i] \in Answers(g)} = {}
        BY AnswersDiffer
      <4> QED
        BY <4>1, FS_EmptySet DEF Pending
    <3>2. sock[fd] = "none" /\ Attaches(a, b, fd, notices)
      BY <2>2 DEF Accepts
    <3>3. Waiting(fd) = 0
      BY <3>2 DEF Waiting
    <3> HIDE DEF notices
    <3> QED
      BY <1>18, <3>1, <3>2, <3>3
  <2>3. CASE NeverOpened(fd)
    BY <1>6, <2>3 DEF NeverOpened, Waiting
  <2> QED
    BY <2>1, <2>2, <2>3
<1>20. ASSUME NEW a \in Agents, NEW b \in Agents, NEW fd \in Fds, OnAsyncConnectSocketWrite(a, b, fd)
       PROVE  AnswersCounted'
  <2>1. Connects(a, b, fd) \/ AttemptFails(fd)
    BY <1>20, ConnectWriteSplits
  <2>2. CASE Connects(a, b, fd)
    <3> DEFINE first == <<Call("connected", fd)>>
               notices == <<Call("connected", fd), Call("asyncConnected", fd)>>
    <3>1. ASSUME NEW g \in Fds PROVE Pending(g, notices) = IF g = fd THEN 1 ELSE 0
      <4>1. {i \in DOMAIN first : first[i] \in Answers(g)} = {}
        BY AnswersDiffer
      <4>2. Pending(g, first) = 0
        BY <4>1, FS_EmptySet DEF Pending
      <4>3. first \in Seq(AppCalls) /\ notices = Append(first, Call("asyncConnected", fd))
        BY CallTypes DEF Notices
      <4>4. Pending(g, notices)
              = Pending(g, first) + (IF Call("asyncConnected", fd) \in Answers(g) THEN 1 ELSE 0)
        <5>1. Call("asyncConnected", fd) \in AppCalls
          BY CallTypes DEF Notices
        <5> HIDE DEF first, notices
        <5> QED
          BY <4>3, <5>1, PendingAppend
      <4>5. Call("asyncConnected", fd) \in Answers(g) <=> g = fd
        BY AnswersDiffer
      <4> HIDE DEF first, notices
      <4> QED
        BY <4>2, <4>4, <4>5
    <3>2. sock[fd] = "connecting" /\ Attaches(a, b, fd, notices)
      BY <2>2 DEF Connects
    <3>3. Waiting(fd) = 1
      BY <3>2 DEF Waiting
    <3> HIDE DEF notices
    <3> QED
      BY <1>18, <3>1, <3>2, <3>3
  <2> QED
    BY <1>15, <2>1, <2>2
<1>21. ASSUME NEW a \in Agents, NEW fd \in Fds, OnAsyncConnectError(a, fd) \/ OnAsyncConnectTimeout(a, fd)
       PROVE  AnswersCounted'
  BY <1>15, <1>21, ConnectEnds
<1>22. ASSUME NEW a \in Agents, OnHandleAsyncConnect(a) PROVE AnswersCounted'
  <2> DEFINE fd == Head(netCalls[a]).fd
  <2>1. /\ fd \in Fds /\ sock[fd] = "opened"
        /\ \/ /\ sock' = [sock EXCEPT ![fd] = "connecting"]
              /\ UNCHANGED <<builder, announcing, appCalls, attempts, answers>>
           \/ AttemptFails(fd)
    BY <1>22, AsyncConnectSplits
  <2> HIDE DEF fd
  <2>2. CASE /\ sock' = [sock EXCEPT ![fd] = "connecting"]
             /\ UNCHANGED <<builder, announcing, appCalls, attempts, answers>>
    <3>1. \A g \in Fds : Waiting(g)' = Waiting(g)
      BY <1>1, <2>1, <2>2 DEF Waiting, HeardTypes
    <3> QED
      BY <1>6, <2>2, <3>1
  <2> QED
    BY <1>15, <2>1, <2>2
<1> QED
  BY <1>8, <1>9, <1>10, <1>11, <1>12, <1>13, <1>14, <1>16, <1>17, <1>19, <1>20, <1>21, <1>22
  DEF Next, AppStep, NetworkStep

-----------------------------------------------------------------------------
(* The theorems. *)

LEMMA InvInit == Init => IInv
<1> SUFFICES ASSUME Init PROVE IInv
  OBVIOUS
<1>1. TypeOK
  BY TypeInit
<1>2. Heard
  BY DEF Init, Heard, Unheard, Announcements, Announced, KnownFirst
<1>3. AnswersCounted
  <2>1. \A fd \in Fds : \A a \in Agents : Pending(fd, announcing[a]) = 0 /\ Pending(fd, appCalls) = 0
    BY PendingEmpty DEF Init
  <2> QED
    BY <2>1, ServiceAssumption DEF Init, AnswersCounted
<1>4. TimersRight /\ CallsMatch
  BY ServiceAssumption DEF Init, TimersRight, CallsMatch
<1>5. Counted /\ Turn
  BY DEF Init, Counted, Turn
<1> QED
  BY <1>1, <1>2, <1>3, <1>4, <1>5, HeardOf

\* The inductive invariant: besides what it is for, a callback that was pushed to a
\* network loop for an attempt stands for one socket that waits to be handled by that
\* loop, a loop announces only what it attached, the application has not heard of a
\* socket that is not attached, and a message of a socket that its own loop attached is
\* in a receive queue only behind OnHandleConnected, in the buffer that is read next
\* only behind connect_cb_ or, until the turn that handed it over has ended, behind
\* OnHandleConnected.
THEOREM Inductive == Spec => []IInv
<1>1. IInv /\ [Next]_vars => IInv'
  <2> SUFFICES ASSUME IInv, [Next]_vars PROVE IInv'
    OBVIOUS
  <2>1. TypeOK' /\ TimersRight' /\ Counted' /\ CallsMatch' /\ Heard' /\ Turn' /\ AnswersCounted'
    BY TypeStep, TimersStep, CountedStep, CallsStep, HeardStep, TurnStep, AnswersStep
  <2> QED
    BY <2>1 DEF IInv, ConnectedFirst, AnsweredOnce, AnswersCounted, TimersRight, Heard, Announced,
                KnownFirst, Known, Turn, TypeOK
<1> QED
  BY <1>1, InvInit, PTL DEF Spec

\* receive_cb_ is called for a connection that its own loop attached only after
\* connect_cb_, although a turn of the application's loop runs the timers of its queues
\* before its wakeup callbacks (EventLoop::Loop, MessageQueue::OnExporedPendingRead), and
\* so are the callbacks for its close and its errors (BuildTcpSocket, OnSocketRead).
THEOREM ConnectedFirstCorrect == Spec => []ConnectedFirst
<1>1. IInv => ConnectedFirst
  BY DEF IInv
<1> QED
  BY <1>1, Inductive, PTL

\* An AsyncConnect is answered at most once, whichever of the write, the error and the
\* timer comes first and however often its descriptor is used again, and a connect timer
\* runs for exactly the sockets that are connecting (OnAsyncConnectSocketWrite,
\* OnAsyncConnectError, OnAsyncConnectTimeout).
THEOREM AnsweredOnceCorrect == Spec => []AnsweredOnce
<1>1. IInv => AnsweredOnce
  BY DEF IInv
<1> QED
  BY <1>1, Inductive, PTL

=============================================================================
