------------------------- MODULE TcpSocketAppProofs -------------------------
(***************************************************************************)
(* Proofs about TcpSocketApp, for any descriptors, timers and room in the  *)
(* kernel's buffers, and about the network layer that MCNetwork puts       *)
(* together, whose buffers DynamicBufferProofs speaks of and whose streams *)
(* are read as Framing says.                                               *)
(***************************************************************************)
EXTENDS MCNetwork, WellFoundedInduction, SequenceTheorems, TLAPS

BufferProofs == INSTANCE DynamicBufferProofs WITH Sizes <- EqualSizes

USE DEF Peers

\* What TablesAgree and TimersMatch need besides each other: a read event is handled
\* for the socket it was reported for, never for one that is connecting, and only
\* the listener listens.
EventsFit ==
  /\ "in" \in batch.todo => sockets[batch.fd] # "connecting"
  /\ sockets[Listener] \in {"listen", "none"}
  /\ \A fd \in Peers : sockets[fd] # "listen"

IInv == NothingLeaks /\ TimersMatch /\ EventsFit

-----------------------------------------------------------------------------
(* Types. *)

\* The smaller of two numbers is at most each of them.
LEMMA SmallerBounded ==
  ASSUME NEW m \in Nat, NEW n \in Nat
  PROVE  Smaller(m, n) \in 0..m /\ Smaller(m, n) \in 0..n
BY DEF Smaller

\* The first state has its types.
LEMMA TypeInit == Init => SocketsType
<1> SUFFICES ASSUME Init PROVE SocketsType
  OBVIOUS
<1>1. DOMAIN socketTimer = {} /\ DOMAIN timerSocket = {}
  BY DEF Init, Empty
<1>2. batch \in [fd : Fds, todo : SUBSET {"in", "out", "err"}]
  BY AppAssumption DEF Init, NoBatch
<1>3. room \in [Fds -> 0..Room] /\ opened \in 0..MaxOpen
  BY AppAssumption DEF Init
<1> QED
  BY <1>1, <1>2, <1>3, AppAssumption DEF Init, SocketsType

\* Close() and what is built keep the types of the tables and the kernel.
LEMMA ErasedTypes ==
  ASSUME SocketsType, NEW fd \in Fds, Erased(fd)
  PROVE  /\ sockets' \in [Fds -> {"none", "listen", "connecting", "accepted", "connected"}]
         /\ connections' \subseteq Peers
         /\ kernel' \in [Fds -> {"free", "listening", "syn", "up", "closed", "broken"}]
         /\ edges' \in [Fds -> SUBSET {"in", "out", "err"}]
BY DEF SocketsType, Erased, CloseSocket

LEMMA BuiltTypes ==
  ASSUME SocketsType, NEW fd \in Peers, NEW kind \in {"connecting", "accepted"},
         NEW state \in {"syn", "up"}, Built(fd, kind, state)
  PROVE  /\ sockets' \in [Fds -> {"none", "listen", "connecting", "accepted", "connected"}]
         /\ connections' \subseteq Peers
         /\ kernel' \in [Fds -> {"free", "listening", "syn", "up", "closed", "broken"}]
         /\ edges' \in [Fds -> SUBSET {"in", "out", "err"}]
         /\ unread' \in [Fds -> BOOLEAN]
         /\ room' \in [Fds -> 0..Room]
         /\ unsent' \in [Fds -> Nat]
BY AppAssumption DEF SocketsType, Built, OpenSocket

LEMMA HandledTypes ==
  ASSUME SocketsType, NEW event, Handled(event)
  PROVE  batch' \in [fd : Fds, todo : SUBSET {"in", "out", "err"}]
BY DEF SocketsType, Handled

\* What is written through fits what the kernel takes.
LEMMA SentTypes ==
  ASSUME SocketsType, NEW fd \in Fds, NEW size \in 1..2, Sent(fd, size)
  PROVE  unsent' \in [Fds -> Nat] /\ room' \in [Fds -> 0..Room]
<1> DEFINE taken == IF unsent[fd] = 0 THEN Smaller(size, room[fd]) ELSE 0
<1>1. taken \in 0..size /\ taken \in 0..room[fd]
  <2>1. room[fd] \in Nat /\ size \in Nat
    BY AppAssumption DEF SocketsType
  <2>2. Smaller(size, room[fd]) \in 0..size /\ Smaller(size, room[fd]) \in 0..room[fd]
    BY <2>1, SmallerBounded
  <2> QED
    BY <2>1, <2>2
<1>2. unsent' = [unsent EXCEPT ![fd] = @ + size - taken] /\ room' = [room EXCEPT ![fd] = @ - taken]
  BY DEF Sent
<1> HIDE DEF taken
<1>3. unsent[fd] + size - taken \in Nat /\ room[fd] - taken \in 0..Room
  BY AppAssumption, <1>1 DEF SocketsType
<1> QED
  BY <1>2, <1>3 DEF SocketsType

\* Every step of a run keeps every variable's type.
LEMMA TypeStep ==
  ASSUME SocketsType, TimersMatch, [Next]_vars
  PROVE  SocketsType'
<1> USE AppAssumption
<1>0. NoBatch \in [fd : Fds, todo : SUBSET {"in", "out", "err"}]
  BY DEF NoBatch
<1>1. CASE SkipRemoved
  BY <1>1, <1>0 DEF SkipRemoved, SocketsType, tables, kernelVars
<1>2. CASE Return
  BY <1>2 DEF Return, SocketsType, tables, kernelVars
<1>3. CASE AcceptEnds
  BY <1>3, HandledTypes DEF AcceptEnds, SocketsType, tables, kernelVars
<1>4. CASE OnListenError
  BY <1>4, <1>0, ErasedTypes DEF OnListenError, SocketsType
<1>5. ASSUME NEW fd \in Peers, Accept(fd) PROVE SocketsType'
  <2>1. backlog' \in Nat
    BY <1>5 DEF Accept, SocketsType
  <2>2. CASE /\ Built(fd, "accepted", "up")
             /\ view' = [view EXCEPT ![fd] = "open"] /\ inCallback' = TRUE
    BY <1>5, <2>1, <2>2, BuiltTypes DEF Accept, SocketsType
  <2>3. CASE BuildFails(fd) /\ UNCHANGED <<view, inCallback>>
    BY <1>5, <2>1, <2>3 DEF Accept, SocketsType, BuildFails, tables
  <2> QED
    BY <1>5, <2>2, <2>3 DEF Accept
<1>6. CASE OnConnectWrite
  BY <1>6, HandledTypes DEF OnConnectWrite, SocketsType, RemoveSocketTimer, RestrictTo, Readiness
<1>7. CASE OnConnectError
  BY <1>7, <1>0, ErasedTypes DEF OnConnectError, SocketsType, RemoveSocketTimer, RestrictTo, Failed
<1>8. CASE OnSocketRead
  BY <1>8, HandledTypes DEF OnSocketRead, SocketsType, tables
<1>9. CASE OnSocketReadFails
  BY <1>9, <1>0, ErasedTypes DEF OnSocketReadFails, SocketsType, Failed
<1>10. CASE OnSocketWrite
  <2> DEFINE fd == batch.fd
             taken == Smaller(unsent[fd], room[fd])
  <2>1. fd \in Fds
    BY DEF SocketsType
  <2>2. CASE unsent[fd] > 0 /\ (Dead(fd) \/ room[fd] = 0)
    BY <1>10, <1>0, <2>1, <2>2, ErasedTypes DEF OnSocketWrite, SocketsType, Failed
  <2>3. CASE ~(unsent[fd] > 0 /\ (Dead(fd) \/ room[fd] = 0))
    <3>1. taken \in 0..unsent[fd] /\ taken \in 0..room[fd]
      BY <2>1, SmallerBounded DEF SocketsType
    <3>2. unsent' = [unsent EXCEPT ![fd] = @ - taken] /\ room' = [room EXCEPT ![fd] = @ - taken]
      BY <1>10, <2>3 DEF OnSocketWrite
    <3> HIDE DEF taken
    <3>3. unsent[fd] - taken \in Nat /\ room[fd] - taken \in 0..Room
      BY <2>1, <3>1 DEF SocketsType
    <3>4. unsent' \in [Fds -> Nat] /\ room' \in [Fds -> 0..Room]
      BY <3>2, <3>3 DEF SocketsType
    <3> QED
      BY <1>10, <2>3, <3>4, HandledTypes DEF OnSocketWrite, SocketsType
  <2> QED
    BY <2>2, <2>3
<1>11. CASE OnSocketError
  BY <1>11, <1>0, ErasedTypes DEF OnSocketError, SocketsType, Failed
<1>12. ASSUME NEW fd \in Fds, TakeEvents(fd) PROVE SocketsType'
  BY <1>12 DEF TakeEvents, SocketsType, tables
<1>13. ASSUME NEW t \in Timers, OnConnectTimeout(t) PROVE SocketsType'
  BY <1>13, ErasedTypes DEF OnConnectTimeout, SocketsType, TimersMatch, Failed, RestrictTo
<1>14. ASSUME NEW fd \in Peers, Connect(fd) PROVE SocketsType'
  BY <1>14, BuiltTypes DEF Connect, SocketsType
<1>15. ASSUME NEW fd \in Peers, CloseByApp(fd) PROVE SocketsType'
  BY <1>15, ErasedTypes DEF CloseByApp, SocketsType
<1>16. ASSUME NEW fd \in Peers, NEW t \in Timers, AsyncConnect(fd, t) PROVE SocketsType'
  <2>1. /\ DOMAIN socketTimer' \subseteq Peers /\ DOMAIN timerSocket' \subseteq Timers
        /\ running' \subseteq Timers
    BY <1>16 DEF AsyncConnect, SocketsType, AsyncBuilt, AddSocketTimer
  <2>2. view' \in [Fds -> {"none", "connecting", "open", "closed"}] /\ opened' \in 0..MaxOpen
    BY <1>16 DEF AsyncConnect, SocketsType
  <2> QED
    BY <1>16, <2>1, <2>2, BuiltTypes DEF AsyncConnect, AsyncBuilt, SocketsType
<1>17. ASSUME NEW fd \in Peers, NEW size \in 1..2, SendMessage(fd, size) PROVE SocketsType'
  <2>1. CASE unsent[fd] = 0 /\ Dead(fd)
    BY <1>17, <2>1, ErasedTypes DEF SendMessage, SocketsType, Failed
  <2>2. CASE ~(unsent[fd] = 0 /\ Dead(fd))
    BY <1>17, <2>2, SentTypes DEF SendMessage, SocketsType
  <2> QED
    BY <2>1, <2>2
<1>18. ASSUME NEW fd \in Peers, PeerAnswers(fd) PROVE SocketsType'
  BY <1>18 DEF PeerAnswers, SocketsType, Edge, tables
<1>19. ASSUME NEW fd \in Peers, PeerSends(fd) PROVE SocketsType'
  BY <1>19 DEF PeerSends, SocketsType, Edge, tables
<1>20. ASSUME NEW fd \in Peers, PeerReads(fd) PROVE SocketsType'
  BY <1>20 DEF PeerReads, SocketsType, Edge, tables
<1>21. ASSUME NEW fd \in Peers, PeerCloses(fd) PROVE SocketsType'
  BY <1>21 DEF PeerCloses, SocketsType, Edge, tables
<1>22. ASSUME NEW fd \in Peers, PeerBreaks(fd) PROVE SocketsType'
  BY <1>22 DEF PeerBreaks, SocketsType, Edge, tables
<1>23. CASE PeerConnects
  BY <1>23 DEF PeerConnects, SocketsType, Edge, tables
<1>24. CASE ListenerBreaks
  BY <1>24 DEF ListenerBreaks, SocketsType, Edge, tables
<1>25. CASE UNCHANGED vars
  BY <1>25 DEF SocketsType, vars, tables, kernelVars
<1> QED
  BY <1>1, <1>2, <1>3, <1>4, <1>5, <1>6, <1>7, <1>8, <1>9, <1>10, <1>11, <1>12, <1>13, <1>14, <1>15, <1>16, <1>17, <1>18, <1>19, <1>20, <1>21, <1>22, <1>23, <1>24, <1>25 DEF Next, EventStep

-----------------------------------------------------------------------------
(* The invariant. *)

\* Every step changes the tables, the kernel's descriptor and what the application was told
\* together.
LEMMA TablesStep ==
  ASSUME IInv, [Next]_vars
  PROVE  TablesAgree'
<1> USE DEF IInv, NothingLeaks, SocketsType, TablesAgree, TimersMatch, EventsFit, Handling, Dead
<1>1. CASE SkipRemoved
  BY <1>1 DEF SkipRemoved, tables, kernelVars
<1>2. CASE Return
  BY <1>2 DEF Return, tables, kernelVars
<1>3. CASE AcceptEnds
  BY <1>3 DEF AcceptEnds, tables, kernelVars
<1>4. CASE OnListenError
  BY <1>4 DEF OnListenError, Erased, CloseSocket, Failed
<1>5. ASSUME NEW fd \in Peers, Accept(fd) PROVE TablesAgree'
  BY <1>5 DEF Accept, Built, OpenSocket, BuildFails, tables
<1>6. CASE OnConnectWrite
  BY <1>6 DEF OnConnectWrite, RemoveSocketTimer
<1>7. CASE OnConnectError
  BY <1>7 DEF OnConnectError, Erased, CloseSocket, Failed, RemoveSocketTimer
<1>8. CASE OnSocketRead
  BY <1>8 DEF OnSocketRead, tables
<1>9. CASE OnSocketReadFails
  BY <1>9 DEF OnSocketReadFails, Erased, CloseSocket, Failed
<1>10. CASE OnSocketWrite
  BY <1>10 DEF OnSocketWrite, Erased, CloseSocket, Failed
<1>11. CASE OnSocketError
  BY <1>11 DEF OnSocketError, Erased, CloseSocket, Failed
<1>12. ASSUME NEW fd \in Fds, TakeEvents(fd) PROVE TablesAgree'
  BY <1>12 DEF TakeEvents, tables
<1>13. ASSUME NEW t \in Timers, OnConnectTimeout(t) PROVE TablesAgree'
  BY <1>13 DEF OnConnectTimeout, Erased, CloseSocket, Failed, RestrictTo
<1>14. ASSUME NEW fd \in Peers, Connect(fd) PROVE TablesAgree'
  BY <1>14 DEF Connect, Built, OpenSocket
<1>15. ASSUME NEW fd \in Peers, CloseByApp(fd) PROVE TablesAgree'
  BY <1>15 DEF CloseByApp, Erased, CloseSocket, Failed
<1>16. ASSUME NEW fd \in Peers, NEW t \in Timers, AsyncConnect(fd, t) PROVE TablesAgree'
  BY <1>16 DEF AsyncConnect, AsyncBuilt, Built, OpenSocket, AddSocketTimer
<1>17. ASSUME NEW fd \in Peers, NEW size \in 1..2, SendMessage(fd, size) PROVE TablesAgree'
  BY <1>17 DEF SendMessage, Erased, CloseSocket, Failed
<1>18. ASSUME NEW fd \in Peers, PeerAnswers(fd) PROVE TablesAgree'
  BY <1>18 DEF PeerAnswers, tables
<1>19. ASSUME NEW fd \in Peers, PeerSends(fd) PROVE TablesAgree'
  BY <1>19 DEF PeerSends, tables
<1>20. ASSUME NEW fd \in Peers, PeerReads(fd) PROVE TablesAgree'
  BY <1>20 DEF PeerReads, tables
<1>21. ASSUME NEW fd \in Peers, PeerCloses(fd) PROVE TablesAgree'
  BY <1>21 DEF PeerCloses, tables
<1>22. ASSUME NEW fd \in Peers, PeerBreaks(fd) PROVE TablesAgree'
  BY <1>22 DEF PeerBreaks, tables
<1>23. CASE PeerConnects
  BY <1>23 DEF PeerConnects, tables
<1>24. CASE ListenerBreaks
  BY <1>24 DEF ListenerBreaks, tables
<1>25. CASE UNCHANGED vars
  BY <1>25 DEF vars, tables, kernelVars
<1> QED
  BY <1>1, <1>2, <1>3, <1>4, <1>5, <1>6, <1>7, <1>8, <1>9, <1>10, <1>11, <1>12, <1>13, <1>14, <1>15, <1>16, <1>17, <1>18, <1>19, <1>20, <1>21, <1>22, <1>23, <1>24, <1>25 DEF Next, EventStep

\* No step leaves a read event to a socket that is connecting.
LEMMA EventsFitStep ==
  ASSUME IInv, [Next]_vars
  PROVE  EventsFit'
<1> USE DEF IInv, NothingLeaks, SocketsType, TablesAgree, TimersMatch, EventsFit, Handling, Dead
<1>1. CASE SkipRemoved
  BY <1>1 DEF SkipRemoved, tables, kernelVars, NoBatch
<1>2. CASE Return
  BY <1>2 DEF Return, tables, kernelVars
<1>3. CASE AcceptEnds
  BY <1>3 DEF AcceptEnds, tables, kernelVars, Handled
<1>4. CASE OnListenError
  BY <1>4 DEF OnListenError, Erased, CloseSocket, Failed, NoBatch
<1>5. ASSUME NEW fd \in Peers, Accept(fd) PROVE EventsFit'
  BY <1>5 DEF Accept, Built, OpenSocket, BuildFails, tables
<1>6. CASE OnConnectWrite
  BY <1>6 DEF OnConnectWrite, RemoveSocketTimer, Handled
<1>7. CASE OnConnectError
  BY <1>7 DEF OnConnectError, Erased, CloseSocket, Failed, RemoveSocketTimer, NoBatch
<1>8. CASE OnSocketRead
  BY <1>8 DEF OnSocketRead, tables, Handled
<1>9. CASE OnSocketReadFails
  BY <1>9 DEF OnSocketReadFails, Erased, CloseSocket, Failed, NoBatch
<1>10. CASE OnSocketWrite
  <2>1. \/ Failed(batch.fd) /\ batch' = NoBatch
        \/ Handled("out") /\ UNCHANGED sockets
    BY <1>10 DEF OnSocketWrite
  <2>2. CASE Failed(batch.fd) /\ batch' = NoBatch
    BY <2>2 DEF Failed, Erased, NoBatch
  <2>3. CASE Handled("out") /\ UNCHANGED sockets
    BY <2>3 DEF Handled
  <2> QED
    BY <2>1, <2>2, <2>3
<1>11. CASE OnSocketError
  BY <1>11 DEF OnSocketError, Erased, CloseSocket, Failed, NoBatch
<1>12. ASSUME NEW fd \in Fds, TakeEvents(fd) PROVE EventsFit'
  BY <1>12 DEF TakeEvents, tables, Callbacks
<1>13. ASSUME NEW t \in Timers, OnConnectTimeout(t) PROVE EventsFit'
  <2>1. "in" \notin batch'.todo
    BY <1>13 DEF OnConnectTimeout, Idle
  <2>2. UNCHANGED sockets \/ \E fd \in Fds : sockets' = [sockets EXCEPT ![fd] = "none"]
    BY <1>13 DEF OnConnectTimeout, Failed, Erased
  <2> QED
    BY <2>1, <2>2, AppAssumption
<1>14. ASSUME NEW fd \in Peers, Connect(fd) PROVE EventsFit'
  BY <1>14 DEF Connect, Built, OpenSocket, Idle
<1>15. ASSUME NEW fd \in Peers, CloseByApp(fd) PROVE EventsFit'
  BY <1>15 DEF CloseByApp, Erased, CloseSocket, Failed
<1>16. ASSUME NEW fd \in Peers, NEW t \in Timers, AsyncConnect(fd, t) PROVE EventsFit'
  BY <1>16 DEF AsyncConnect, AsyncBuilt, Built, OpenSocket, AddSocketTimer, Idle
<1>17. ASSUME NEW fd \in Peers, NEW size \in 1..2, SendMessage(fd, size) PROVE EventsFit'
  <2>1. UNCHANGED sockets \/ sockets' = [sockets EXCEPT ![fd] = "none"]
    BY <1>17 DEF SendMessage, Failed, Erased
  <2>2. UNCHANGED batch
    BY <1>17 DEF SendMessage
  <2> QED
    BY <2>1, <2>2, AppAssumption
<1>18. ASSUME NEW fd \in Peers, PeerAnswers(fd) PROVE EventsFit'
  BY <1>18 DEF PeerAnswers, tables
<1>19. ASSUME NEW fd \in Peers, PeerSends(fd) PROVE EventsFit'
  BY <1>19 DEF PeerSends, tables
<1>20. ASSUME NEW fd \in Peers, PeerReads(fd) PROVE EventsFit'
  BY <1>20 DEF PeerReads, tables
<1>21. ASSUME NEW fd \in Peers, PeerCloses(fd) PROVE EventsFit'
  BY <1>21 DEF PeerCloses, tables
<1>22. ASSUME NEW fd \in Peers, PeerBreaks(fd) PROVE EventsFit'
  BY <1>22 DEF PeerBreaks, tables
<1>23. CASE PeerConnects
  BY <1>23 DEF PeerConnects, tables
<1>24. CASE ListenerBreaks
  BY <1>24 DEF ListenerBreaks, tables
<1>25. CASE UNCHANGED vars
  BY <1>25 DEF vars, tables, kernelVars
<1> QED
  BY <1>1, <1>2, <1>3, <1>4, <1>5, <1>6, <1>7, <1>8, <1>9, <1>10, <1>11, <1>12, <1>13, <1>14, <1>15, <1>16, <1>17, <1>18, <1>19, <1>20, <1>21, <1>22, <1>23, <1>24, <1>25 DEF Next, EventStep

\* The timer of an attempt is the one that is removed, and no other.
LEMMA RemoveSocketTimerRemoves ==
  ASSUME SocketsType, TimersMatch, NEW fd \in Peers, sockets[fd] = "connecting",
         RemoveSocketTimer(fd), NEW kind \in {"none", "connected"},
         sockets' = [sockets EXCEPT ![fd] = kind]
  PROVE  TimersMatch'
<1> DEFINE t == socketTimer[fd]
<1>1. fd \in DOMAIN socketTimer
  BY DEF TimersMatch
<1>2. /\ running' = running \ {t}
      /\ timerSocket' = RestrictTo(timerSocket, Timers \ {t})
      /\ socketTimer' = RestrictTo(socketTimer, Fds \ {fd})
  BY <1>1 DEF RemoveSocketTimer
<1>3. running' = DOMAIN timerSocket'
  BY <1>2 DEF RestrictTo, TimersMatch, SocketsType
<1>4. ASSUME NEW u \in running'
      PROVE  /\ timerSocket'[u] \in DOMAIN socketTimer' /\ socketTimer'[timerSocket'[u]] = u
             /\ sockets'[timerSocket'[u]] = "connecting"
  <2>1. u \in running /\ u # t /\ timerSocket'[u] = timerSocket[u]
    BY <1>2, <1>3, <1>4 DEF RestrictTo
  <2>2. timerSocket[u] \in Peers /\ timerSocket[u] # fd
    BY <2>1 DEF TimersMatch, SocketsType
  <2> QED
    BY <1>2, <2>1, <2>2 DEF RestrictTo, TimersMatch, SocketsType
<1>5. ASSUME NEW p \in Peers, sockets'[p] = "connecting"
      PROVE  p \in DOMAIN socketTimer'
  <2>1. CASE kind = "none" \/ kind = "connected"
    BY <1>2, <1>5, <2>1 DEF RestrictTo, TimersMatch, SocketsType
  <2> QED
    BY <2>1
<1> QED
  BY <1>3, <1>4, <1>5 DEF TimersMatch

\* A socket leaves the state of connecting together with its timer.
LEMMA TimersStep ==
  ASSUME IInv, [Next]_vars
  PROVE  TimersMatch'
<1> USE DEF IInv, NothingLeaks, SocketsType, TablesAgree, TimersMatch, EventsFit, Handling, Dead
<1>1. CASE SkipRemoved
  BY <1>1 DEF SkipRemoved, tables, kernelVars
<1>2. CASE Return
  BY <1>2 DEF Return, tables, kernelVars
<1>3. CASE AcceptEnds
  BY <1>3 DEF AcceptEnds, tables, kernelVars
<1>4. CASE OnListenError
  BY <1>4 DEF OnListenError, Erased, CloseSocket, Failed
<1>5. ASSUME NEW fd \in Peers, Accept(fd) PROVE TimersMatch'
  BY <1>5 DEF Accept, Built, OpenSocket, BuildFails, tables
<1>6. CASE OnConnectWrite
  BY <1>6, RemoveSocketTimerRemoves DEF OnConnectWrite
<1>7. CASE OnConnectError
  BY <1>7, RemoveSocketTimerRemoves DEF OnConnectError, Erased, Failed
<1>8. CASE OnSocketRead
  BY <1>8 DEF OnSocketRead, tables
<1>9. CASE OnSocketReadFails
  BY <1>9 DEF OnSocketReadFails, Erased, CloseSocket, Failed
<1>10. CASE OnSocketWrite
  BY <1>10 DEF OnSocketWrite, Erased, CloseSocket, Failed
<1>11. CASE OnSocketError
  BY <1>11 DEF OnSocketError, Erased, CloseSocket, Failed
<1>12. ASSUME NEW fd \in Fds, TakeEvents(fd) PROVE TimersMatch'
  BY <1>12 DEF TakeEvents, tables
<1>13. ASSUME NEW t \in Timers, OnConnectTimeout(t) PROVE TimersMatch'
  BY <1>13 DEF OnConnectTimeout, Erased, CloseSocket, Failed, RestrictTo
<1>14. ASSUME NEW fd \in Peers, Connect(fd) PROVE TimersMatch'
  BY <1>14 DEF Connect, Built, OpenSocket
<1>15. ASSUME NEW fd \in Peers, CloseByApp(fd) PROVE TimersMatch'
  BY <1>15 DEF CloseByApp, Erased, CloseSocket, Failed
<1>16. ASSUME NEW fd \in Peers, NEW t \in Timers, AsyncConnect(fd, t) PROVE TimersMatch'
  BY <1>16 DEF AsyncConnect, AsyncBuilt, Built, OpenSocket, AddSocketTimer
<1>17. ASSUME NEW fd \in Peers, NEW size \in 1..2, SendMessage(fd, size) PROVE TimersMatch'
  BY <1>17 DEF SendMessage, Erased, CloseSocket, Failed
<1>18. ASSUME NEW fd \in Peers, PeerAnswers(fd) PROVE TimersMatch'
  BY <1>18 DEF PeerAnswers, tables
<1>19. ASSUME NEW fd \in Peers, PeerSends(fd) PROVE TimersMatch'
  BY <1>19 DEF PeerSends, tables
<1>20. ASSUME NEW fd \in Peers, PeerReads(fd) PROVE TimersMatch'
  BY <1>20 DEF PeerReads, tables
<1>21. ASSUME NEW fd \in Peers, PeerCloses(fd) PROVE TimersMatch'
  BY <1>21 DEF PeerCloses, tables
<1>22. ASSUME NEW fd \in Peers, PeerBreaks(fd) PROVE TimersMatch'
  BY <1>22 DEF PeerBreaks, tables
<1>23. CASE PeerConnects
  BY <1>23 DEF PeerConnects, tables
<1>24. CASE ListenerBreaks
  BY <1>24 DEF ListenerBreaks, tables
<1>25. CASE UNCHANGED vars
  BY <1>25 DEF vars, tables, kernelVars
<1> QED
  BY <1>1, <1>2, <1>3, <1>4, <1>5, <1>6, <1>7, <1>8, <1>9, <1>10, <1>11, <1>12, <1>13, <1>14, <1>15, <1>16, <1>17, <1>18, <1>19, <1>20, <1>21, <1>22, <1>23, <1>24, <1>25 DEF Next, EventStep

-----------------------------------------------------------------------------
(* Theorems. *)

\* The first state of the program has the invariant.
LEMMA IInvInit == Init => IInv
<1> SUFFICES ASSUME Init PROVE IInv
  OBVIOUS
<1>1. TablesAgree
  BY AppAssumption DEF Init, TablesAgree
<1>2. TimersMatch
  <2>1. running = {} /\ DOMAIN timerSocket = {} /\ \A fd \in Peers : sockets[fd] = "none"
    BY DEF Init, Empty
  <2> QED
    BY <2>1 DEF TimersMatch
<1>3. EventsFit
  BY AppAssumption DEF Init, EventsFit, NoBatch
<1> QED
  BY <1>1, <1>2, <1>3, TypeInit DEF IInv, NothingLeaks

\* Every step keeps it.
LEMMA IInvStep == IInv /\ [Next]_vars => IInv'
<1> SUFFICES ASSUME IInv, [Next]_vars PROVE IInv'
  OBVIOUS
<1> QED
  BY TypeStep, TablesStep, TimersStep, EventsFitStep DEF IInv, NothingLeaks

\* The invariant holds in every run.
THEOREM Inductive == Spec => []IInv
BY IInvInit, IInvStep, PTL DEF Spec

\* No descriptor, table entry or connection is lost or kept beyond its close, and the
\* application is told of every one that opens and that the library closes
\* (TcpSocketApp::Close, the connect and the error handlers).
THEOREM NothingLeaksCorrect == Spec => []NothingLeaks
<1>1. IInv => NothingLeaks
  BY DEF IInv
<1> QED
  BY <1>1, Inductive, PTL

\* A connect timer belongs to the attempt it was started for: it is removed with it
\* and never closes a later owner of the descriptor (OnConnectTimeout).
THEOREM TimersMatchCorrect == Spec => []TimersMatch
<1>1. IInv => TimersMatch
  BY DEF IInv
<1> QED
  BY <1>1, Inductive, PTL

\* A set of naturals has a least one; what holds of 0 and with k of k + 1 holds of all.
LEMMA LeastNat ==
  ASSUME NEW T, T \subseteq Nat, T # {}
  PROVE  \E n \in T : \A m \in T : n <= m
<1> DEFINE R == OpToRel(<, Nat)
<1>1. IsWellFoundedOn(R, Nat)
  BY NatLessThanWellFounded
<1>2. \A x, y \in Nat : x < y => <<x, y>> \in R
  BY DEF OpToRel
<1> HIDE DEF R
<1>3. PICK n \in T : \A y \in T : ~ (<<y, n>> \in R)
  BY <1>1, WFMin
<1>4. ASSUME NEW m \in T PROVE ~(m < n)
  BY <1>2, <1>3, Zenon
<1>5. ASSUME NEW m \in T PROVE n <= m
  BY <1>4
<1> QED
  BY <1>5

LEMMA Induction ==
  ASSUME NEW T, 0 \in T, NEW n \in Nat, \A m \in 0..(n - 1) : m \in T => m + 1 \in T
  PROVE  n \in T
<1> DEFINE U == {m \in 0..n : m \notin T}
<1> SUFFICES ASSUME n \notin T PROVE FALSE
  OBVIOUS
<1>1. U # {} /\ U \subseteq Nat
  OBVIOUS
<1>2. PICK m \in U : \A k \in U : m <= k
  <2> HIDE DEF U
  <2> QED
    BY <1>1, LeastNat
<1>3. m # 0 /\ m - 1 \in 0..(n - 1)
  OBVIOUS
<1>4. m - 1 \in T
  BY <1>2, <1>3
<1> QED
  BY <1>3, <1>4

-----------------------------------------------------------------------------
(* Streams: the buffer a connection's bytes are read into. *)

LEMMA SameSequence ==
  ASSUME NEW S, NEW a \in Seq(S), NEW b \in Seq(S), Len(a) = Len(b), \A i \in 1..Len(a) : a[i] = b[i]
  PROVE  a = b
OBVIOUS

StreamBytes == Stream!BytesOfMessages
StreamProofs == INSTANCE DynamicBufferProofs WITH
  Buffers <- {1}, Sizes <- {[b \in {1} |-> Stream!BufferSize]}, Bytes <- StreamBytes,
  Zero <- <<0, 0>>, MaxReadable <- 0, MaxChunk <- 0, SizeRange <- 8, MaxVector <- 2,
  buf <- [b \in {1} |-> received], queue <- [b \in {1} |-> stream], overrun <- {}

Contents(obj) == Stream!DB!Contents(obj)
AppendBytes(obj, data) == Stream!DB!AppendBytes(obj, data)
ReadBytes(obj, size) == Stream!DB!ReadBytes(obj, size)

\* A buffer whose indexes are in order, and which can grow.
Sound(obj) == StreamProofs!IndexedObject(obj) /\ obj.expand # 0

\* The operations of Framing's buffer are those DynamicBufferProofs speaks of.
LEMMA StreamContents == \A obj : Contents(obj) = StreamProofs!Contents(obj)
BY DEF Contents, Stream!DB!Contents, StreamProofs!Contents

LEMMA StreamReads ==
  ASSUME NEW obj, NEW size
  PROVE  ReadBytes(obj, size) = StreamProofs!ReadBytes(obj, size)
BY DEF ReadBytes, Stream!DB!ReadBytes, StreamProofs!ReadBytes, Stream!DB!Smaller,
   StreamProofs!Smaller, Stream!DB!ReadableBytes, StreamProofs!ReadableBytes

LEMMA StreamAppends ==
  ASSUME NEW obj, NEW data
  PROVE  LET reserved == StreamProofs!ReserveWritableBytes(obj, Len(data))
         IN  AppendBytes(obj, data) =
               StreamProofs!WrittenBytes(StreamProofs!Put(reserved, data), Len(data))
<1>1. \A x : /\ Stream!DB!WritableBytes(x) = StreamProofs!WritableBytes(x)
             /\ Stream!DB!CapacityBytes(x) = StreamProofs!CapacityBytes(x)
  BY DEF Stream!DB!WritableBytes, StreamProofs!WritableBytes, Stream!DB!CapacityBytes,
     StreamProofs!CapacityBytes
<1>2. \A x, n : Stream!DB!Moved(x, n) = StreamProofs!Moved(x, n)
  BY DEF Stream!DB!Moved, StreamProofs!Moved, Stream!DB!Contents, StreamProofs!Contents
<1>3. \A x, n : Stream!DB!ReserveWritableBytes(x, n) = StreamProofs!ReserveWritableBytes(x, n)
  BY <1>1, <1>2, Zenon DEF Stream!DB!ReserveWritableBytes, StreamProofs!ReserveWritableBytes
<1>4. \A x, d : Stream!DB!Put(x, d) = StreamProofs!Put(x, d)
  BY DEF Stream!DB!Put, StreamProofs!Put
<1>5. \A m, n : Stream!DB!Smaller(m, n) = StreamProofs!Smaller(m, n)
  BY DEF Stream!DB!Smaller, StreamProofs!Smaller
<1>6. \A x, n : Stream!DB!WrittenBytes(x, n) = StreamProofs!WrittenBytes(x, n)
  BY <1>1, <1>5, Zenon DEF Stream!DB!WrittenBytes, StreamProofs!WrittenBytes
<1> QED
  BY <1>3, <1>4, <1>6, Zenon DEF AppendBytes, Stream!DB!AppendBytes

\* What is read from the socket is added behind what the buffer has (AppendBytes).
LEMMA AppendedIs ==
  ASSUME NEW obj, Sound(obj), NEW data \in Seq(StreamBytes)
  PROVE  /\ Sound(AppendBytes(obj, data))
         /\ Contents(AppendBytes(obj, data)) = Contents(obj) \o data
<1> DEFINE reserved == StreamProofs!ReserveWritableBytes(obj, Len(data))
           new == StreamProofs!WrittenBytes(StreamProofs!Put(reserved, data), Len(data))
<1>1. Len(data) \in Nat
  OBVIOUS
<1>2. /\ StreamProofs!IndexedObject(reserved) /\ StreamProofs!Contents(reserved) = StreamProofs!Contents(obj)
      /\ StreamProofs!WritableBytes(reserved) >= Len(data) /\ reserved.expand = obj.expand
  BY <1>1, StreamProofs!ReserveIs DEF Sound
<1>3. AppendBytes(obj, data) = new
  BY StreamAppends
<1>4. StreamProofs!WritableBytes(reserved) \in Nat
  BY <1>2, StreamProofs!IndexedFacts
<1>5. Len(data) <= StreamProofs!WritableBytes(reserved)
  BY <1>1, <1>2, <1>4
<1> HIDE DEF reserved
<1>6. /\ StreamProofs!IndexedObject(new)
      /\ StreamProofs!Contents(new) = StreamProofs!Contents(reserved) \o data
      /\ new.expand = reserved.expand
  BY <1>2, <1>5, StreamProofs!WrittenIs
<1> HIDE DEF new
<1> QED
  BY <1>2, <1>3, <1>6, StreamContents DEF Sound

\* What is taken out is the beginning, as far as there is any (ReadBytes).
LEMMA ReadOut ==
  ASSUME NEW obj, Sound(obj), NEW size \in Nat
  PROVE  LET data == Contents(obj)
             end == Stream!DB!Smaller(size, Len(data))
         IN  /\ Sound(ReadBytes(obj, size))
             /\ Contents(ReadBytes(obj, size)) = SubSeq(data, end + 1, Len(data))
<1> DEFINE new == StreamProofs!ReadBytes(obj, size)
           data == StreamProofs!Contents(obj)
<1>1. /\ StreamProofs!IndexedObject(new) /\ new.expand = obj.expand
      /\ StreamProofs!Contents(new) = SubSeq(data, StreamProofs!Smaller(size, Len(data)) + 1, Len(data))
  BY StreamProofs!ReadIs DEF Sound
<1>2. \A m, n : Stream!DB!Smaller(m, n) = StreamProofs!Smaller(m, n)
  BY DEF Stream!DB!Smaller, StreamProofs!Smaller
<1>3. ReadBytes(obj, size) = new /\ Contents(obj) = data /\ Contents(new) = StreamProofs!Contents(new)
  BY StreamReads, StreamContents
<1> HIDE DEF new, data
<1> QED
  BY <1>1, <1>2, <1>3 DEF Sound

\* A connection's buffer is empty at first.
LEMMA NewSound ==
  Sound(Stream!DB!New(Stream!BufferSize)) /\ Contents(Stream!DB!New(Stream!BufferSize)) = <<>>
<1> DEFINE size == Stream!BufferSize
<1>1. size \in [init : Nat \ {0}, expand : Nat \ {0}]
  BY DEF Stream!BufferSize
<1> HIDE DEF size
<1>2. Stream!DB!New(size) = StreamProofs!New(size)
  BY DEF Stream!DB!New, StreamProofs!New
<1>3. /\ StreamProofs!IndexedObject(StreamProofs!New(size))
      /\ StreamProofs!New(size).expand = size.expand
      /\ StreamProofs!Contents(StreamProofs!New(size)) = <<>>
  BY <1>1, StreamProofs!NewIs
<1>4. size.expand # 0
  BY <1>1
<1>5. Sound(Stream!DB!New(size)) /\ Contents(Stream!DB!New(size)) = <<>>
  BY <1>2, <1>3, <1>4, StreamContents DEF Sound
<1> QED
  BY <1>5 DEF size

-----------------------------------------------------------------------------
(* Streams: the loop of OnMessage. *)

\* Bytes of messages that were sent.
SentBytes(a) == a \in Seq(StreamBytes) /\ \A i \in 1..Len(a) : a[i][1] \in 1..Len(sent)

SentType ==
  /\ codec \in {"protobuf", "gateway"}
  /\ sent \in Seq([payload : 0..MaxPayload, kind : Stream!Kinds]) /\ Len(sent) <= MaxMessages

\* A message has a length field and a type.
LEMMA SizeIs ==
  ASSUME SentType, NEW n \in 1..Len(sent)
  PROVE  /\ Stream!Size(n) \in Nat /\ Stream!Size(n) >= 2 /\ n \in Stream!Numbers
         /\ sent[n] \in [payload : 0..MaxPayload, kind : Stream!Kinds]
<1>1. MaxPayload \in Nat /\ MaxMessages \in Nat
  BY NetworkAssumption DEF Stream!FramingConstants
<1>2. sent[n] \in [payload : 0..MaxPayload, kind : Stream!Kinds]
  <2> DEFINE Messages == [payload : 0..MaxPayload, kind : Stream!Kinds]
  <2>1. sent \in Seq(Messages)
    BY DEF SentType
  <2> HIDE DEF Messages
  <2>2. sent[n] \in Messages
    BY <2>1
  <2> QED
    BY <2>2 DEF Messages
<1>3. sent[n].payload \in Nat
  BY <1>1, <1>2
<1>4. Stream!Size(n) \in Nat /\ Stream!Size(n) >= 2
  BY <1>3 DEF Stream!Size, Stream!Header, Stream!Type
<1>5. n \in Stream!Numbers
  BY <1>1 DEF SentType, Stream!Numbers
<1> QED
  BY <1>2, <1>4, <1>5

\* The loop goes on behind the message, and not far behind the bytes there are.
LEMMA NextIs ==
  ASSUME SentType, NEW data, SentBytes(data), NEW at \in Nat, Stream!WholeAt(data, at)
  PROVE  /\ Stream!NumberAt(data, at) \in 1..Len(sent) /\ at < Len(data) /\ Len(data) \in Nat
         /\ at + Stream!Size(Stream!NumberAt(data, at)) <= Len(data)
         /\ Stream!NextStart(data, at) \in (at + 1)..(Len(data) + 1)
         /\ codec = "protobuf" =>
              Stream!NextStart(data, at) = at + Stream!Size(Stream!NumberAt(data, at))
<1> DEFINE n == Stream!NumberAt(data, at)
<1>1. at < Len(data) /\ Stream!Size(n) <= Len(data) - at /\ Len(data) \in Nat
  BY DEF Stream!WholeAt, SentBytes
<1>2. n \in 1..Len(sent)
  BY <1>1 DEF SentBytes, Stream!NumberAt
<1>3. Stream!Size(n) \in Nat /\ Stream!Size(n) >= 2
  BY <1>2, SizeIs
<1>4. Stream!NextStart(data, at) = at + Stream!Size(n) + (IF codec = "gateway" THEN 1 ELSE 0)
  BY DEF Stream!NextStart, Stream!Type
<1> HIDE DEF n
<1>5. codec = "protobuf" => codec # "gateway"
  OBVIOUS
<1>6. Stream!NextStart(data, at) \in (at + 1)..(Len(data) + 1)
  BY <1>1, <1>3, <1>4
<1>7. at + Stream!Size(n) <= Len(data)
  BY <1>1, <1>3
<1>8. codec = "protobuf" => Stream!NextStart(data, at) = at + Stream!Size(n)
  BY <1>3, <1>4, <1>5
<1> QED
  BY <1>1, <1>2, <1>6, <1>7, <1>8 DEF n

\* One turn of the loop.
Turn(data, f, at) ==
  IF Stream!WholeAt(data, at) /\ ~Stream!Unknown(data, at)
  THEN LET n == Stream!NumberAt(data, at)
           rest == f[Stream!NextStart(data, at)]
       IN [rest EXCEPT !.known = (IF sent[n].kind = "known" THEN <<n>> ELSE <<>>) \o @]
  ELSE [known |-> <<>>, end |-> at, refused |-> Stream!WholeAt(data, at)]

\* The recursive definition of ReadFrom has a solution, and so it is one.
LEMMA ReadFromIs ==
  ASSUME SentType, NEW data, SentBytes(data)
  PROVE  Stream!ReadFrom(data) =
           [at \in 0..(Len(data) + 1) |-> Turn(data, Stream!ReadFrom(data), at)]
<1> DEFINE m == Len(data) + 1
           Is(f, k) == f = [at \in (m - k)..m |-> Turn(data, f, at)]
           T == {k \in 0..m : \E f : Is(f, k)}
<1>1. Len(data) \in Nat /\ m \in Nat /\ m - 0 = m
  BY DEF SentBytes
<1>2. ASSUME NEW at \in 0..m, Stream!WholeAt(data, at)
      PROVE  Stream!NextStart(data, at) \in (at + 1)..m
  <2>1. at \in Nat
    BY <1>1
  <2> QED
    BY <1>2, <2>1, NextIs
<1>3. ASSUME NEW at \in 0..m, NEW f, NEW g,
             Stream!WholeAt(data, at) =>
               f[Stream!NextStart(data, at)] = g[Stream!NextStart(data, at)]
      PROVE  Turn(data, f, at) = Turn(data, g, at)
  BY <1>3 DEF Turn
<1>4. 0 \in T
  <2> DEFINE g == [at \in m..m |-> Turn(data, <<>>, at)]
  <2>1. ASSUME NEW at \in m..m PROVE Turn(data, <<>>, at) = Turn(data, g, at)
    <3>1. at \in 0..m /\ ~(\E x \in (at + 1)..m : TRUE)
      BY <1>1
    <3>2. ~Stream!WholeAt(data, at)
      BY <1>2, <3>1
    <3> QED
      BY <1>3, <3>1, <3>2
  <2>2. g = [at \in m..m |-> Turn(data, g, at)]
    BY <2>1, Zenon
  <2> HIDE DEF g
  <2>3. Is(g, 0)
    BY <1>1, <2>2
  <2> HIDE DEF Is
  <2> QED
    BY <1>1, <2>3
<1>5. ASSUME NEW k \in 0..(m - 1), k \in T PROVE k + 1 \in T
  <2>1. PICK f : Is(f, k)
    BY <1>5
  <2> DEFINE l == m - (k + 1)
             g == [at \in l..m |-> IF at = l THEN Turn(data, f, l) ELSE f[at]]
  <2>2. /\ l \in 0..m /\ l..m = {l} \cup ((m - k)..m) /\ l \notin (m - k)..m
        /\ (l + 1)..m = (m - k)..m /\ (m - k)..m \subseteq 0..m /\ l \in l..m
    BY <1>1
  <2>3. \A at \in (m - k)..m : g[at] = f[at] /\ f[at] = Turn(data, f, at)
    BY <2>1, <2>2
  <2>4. ASSUME NEW at \in l..m PROVE Turn(data, f, at) = Turn(data, g, at)
    <3>1. at \in 0..m /\ (at + 1)..m \subseteq (m - k)..m
      BY <1>1
    <3> HIDE DEF g
    <3>2. Stream!WholeAt(data, at) => f[Stream!NextStart(data, at)] = g[Stream!NextStart(data, at)]
      BY <1>2, <2>3, <3>1
    <3> QED
      BY <1>3, <3>1, <3>2
  <2>5. g[l] = Turn(data, f, l)
    BY <2>2
  <2>6. \A at \in l..m : g[at] = Turn(data, g, at)
    <3> HIDE DEF g, l
    <3> QED
      BY <2>2, <2>3, <2>4, <2>5
  <2>7. Is(g, k + 1)
    <3>1. g = [at \in l..m |-> g[at]]
      OBVIOUS
    <3> HIDE DEF g
    <3> QED
      BY <2>6, <3>1
  <2>8. k + 1 \in 0..m
    BY <1>1
  <2> HIDE DEF Is
  <2> QED
    BY <2>7, <2>8
<1>6. \E f : Is(f, m)
  <2>1. m \in T
    <3> HIDE DEF T
    <3> QED
      BY <1>1, <1>4, <1>5, Induction
  <2> HIDE DEF Is
  <2> QED
    BY <2>1
<1>7. \E f : f = [at \in 0..m |-> Turn(data, f, at)]
  <2>1. m - m = 0
    BY <1>1
  <2> QED
    BY <1>6, <2>1
<1> QED
  BY <1>7, Zenon DEF Stream!ReadFrom, Stream!Type, Turn

Ascending(s) == \A i, j \in DOMAIN s : i < j => s[i] < s[j]
Members(s) == {s[i] : i \in DOMAIN s}

\* Two ascending sequences, one after the other.
LEMMA Joined ==
  ASSUME NEW s \in Seq(Nat), NEW t \in Seq(Nat), Ascending(s), Ascending(t),
         \A x \in Members(s), y \in Members(t) : x < y
  PROVE  /\ Ascending(s \o t)
         /\ Members(s \o t) = Members(s) \cup Members(t)
<1> DEFINE u == s \o t
<1>1. /\ u \in Seq(Nat) /\ Len(u) = Len(s) + Len(t) /\ Len(s) \in Nat /\ Len(t) \in Nat
      /\ \A i \in 1..(Len(s) + Len(t)) : u[i] = IF i <= Len(s) THEN s[i] ELSE t[i - Len(s)]
  BY ConcatProperties
<1>2. DOMAIN s = 1..Len(s) /\ DOMAIN t = 1..Len(t) /\ DOMAIN u = 1..Len(u)
  BY <1>1
<1> HIDE DEF u
<1>3. \A i \in DOMAIN s : i \in DOMAIN u /\ u[i] = s[i] /\ s[i] \in Members(s)
  BY <1>1, <1>2 DEF Members
<1>4. \A i \in DOMAIN t : /\ i + Len(s) \in DOMAIN u /\ u[i + Len(s)] = t[i] /\ t[i] \in Members(t)
  <2>1. ASSUME NEW i \in DOMAIN t PROVE i + Len(s) \in DOMAIN u /\ u[i + Len(s)] = t[i]
    <3>1. i \in Nat /\ i >= 1 /\ i <= Len(t)
      BY <1>1, <1>2
    <3>2. i + Len(s) \in 1..(Len(s) + Len(t)) /\ ~(i + Len(s) <= Len(s)) /\ (i + Len(s)) - Len(s) = i
      <4>1. Len(s) \in Nat /\ Len(t) \in Nat
        BY <1>1
      <4> QED
        BY <3>1, <4>1
    <3> QED
      BY <1>1, <1>2, <3>2
  <2> QED
    BY <2>1 DEF Members
<1>5. \A i \in DOMAIN u : \/ i \in DOMAIN s /\ i <= Len(s)
                          \/ i - Len(s) \in DOMAIN t /\ i > Len(s) /\ u[i] = t[i - Len(s)]
  BY <1>1, <1>2
<1>6. Members(u) = Members(s) \cup Members(t)
  <2>1. Members(u) \subseteq Members(s) \cup Members(t)
    BY <1>3, <1>4, <1>5 DEF Members
  <2>2. Members(s) \subseteq Members(u)
    BY <1>3 DEF Members
  <2>3. Members(t) \subseteq Members(u)
    BY <1>4 DEF Members
  <2> QED
    BY <2>1, <2>2, <2>3
<1>7. ASSUME NEW i \in DOMAIN u, NEW j \in DOMAIN u, i < j PROVE u[i] < u[j]
  <2>1. i \in Nat /\ j \in Nat
    BY <1>1, <1>2
  <2>2. CASE j \in DOMAIN s /\ j <= Len(s)
    <3>1. i \in DOMAIN s
      BY <1>1, <1>2, <1>7, <2>1, <2>2
    <3> QED
      BY <1>3, <1>7, <2>2, <3>1 DEF Ascending
  <2>3. CASE j - Len(s) \in DOMAIN t /\ j > Len(s) /\ u[j] = t[j - Len(s)]
    <3>1. CASE i \in DOMAIN s
      <4>1. t[j - Len(s)] \in Members(t) /\ s[i] \in Members(s) /\ u[i] = s[i]
        BY <1>3, <1>4, <2>3, <3>1
      <4> QED
        BY <2>3, <4>1
    <3>2. CASE i - Len(s) \in DOMAIN t /\ u[i] = t[i - Len(s)]
      <4>1. i - Len(s) < j - Len(s)
        BY <1>1, <1>7, <2>1
      <4> QED
        BY <2>3, <3>2, <4>1 DEF Ascending
    <3> QED
      BY <1>5, <3>1, <3>2
  <2> QED
    BY <1>5, <2>2, <2>3
<1> QED
  BY <1>6, <1>7 DEF u, Ascending

Reading(data, at) == Stream!ReadFrom(data)[at]
Readings == [known : Seq(Stream!Numbers), end : Nat, refused : BOOLEAN]
Known(n) == IF sent[n].kind = "known" THEN <<n>> ELSE <<>>

\* The loop ends where no message begins that is whole and of known type.
LEMMA ReadingEnds ==
  ASSUME SentType, NEW data, SentBytes(data), NEW at \in 0..(Len(data) + 1),
         ~(Stream!WholeAt(data, at) /\ ~Stream!Unknown(data, at))
  PROVE  /\ Reading(data, at) \in Readings
         /\ Reading(data, at) = [known |-> <<>>, end |-> at, refused |-> Stream!WholeAt(data, at)]
<1>1. Reading(data, at) = Turn(data, Stream!ReadFrom(data), at)
  BY ReadFromIs, Zenon DEF Reading
<1>2. Turn(data, Stream!ReadFrom(data), at)
        = [known |-> <<>>, end |-> at, refused |-> Stream!WholeAt(data, at)]
  BY Zenon DEF Turn
<1>3. Stream!WholeAt(data, at) \in BOOLEAN
  BY DEF Stream!WholeAt
<1>4. at \in Nat /\ <<>> \in Seq(Stream!Numbers)
  BY DEF SentBytes
<1>5. [known |-> <<>>, end |-> at, refused |-> Stream!WholeAt(data, at)] \in Readings
  BY <1>3, <1>4 DEF Readings
<1> QED
  BY <1>1, <1>2, <1>5

\* Otherwise it goes on behind the message.
LEMMA ReadingGoesOn ==
  ASSUME SentType, NEW data, SentBytes(data), NEW at \in 0..(Len(data) + 1),
         Stream!WholeAt(data, at), ~Stream!Unknown(data, at),
         Reading(data, Stream!NextStart(data, at)) \in Readings
  PROVE  LET n == Stream!NumberAt(data, at)
             rest == Reading(data, Stream!NextStart(data, at))
         IN  /\ Reading(data, at) \in Readings
             /\ Reading(data, at).end = rest.end /\ Reading(data, at).refused = rest.refused
             /\ Reading(data, at).known = Known(n) \o rest.known
<1> DEFINE n == Stream!NumberAt(data, at)
           rest == Reading(data, Stream!NextStart(data, at))
           r == Reading(data, at)
<1>1. r = Turn(data, Stream!ReadFrom(data), at)
  BY ReadFromIs, Zenon DEF Reading
<1>2. r = [rest EXCEPT !.known = Known(n) \o @]
  BY <1>1 DEF Turn, Reading, Known
<1>3. n \in Stream!Numbers
  <2>1. at \in Nat
    BY DEF SentBytes
  <2> QED
    BY <2>1, NextIs, SizeIs
<1> HIDE DEF n, r
<1>4. Known(n) \in Seq(Stream!Numbers)
  BY <1>3 DEF Known
<1>5. rest.known \in Seq(Stream!Numbers) /\ rest \in Readings
  BY DEF Readings
<1>6. Known(n) \o rest.known \in Seq(Stream!Numbers)
  BY <1>4, <1>5, ConcatProperties
<1> HIDE DEF rest
<1>7. /\ r \in Readings /\ r.end = rest.end /\ r.refused = rest.refused
      /\ r.known = Known(n) \o rest.known
  BY <1>2, <1>5, <1>6 DEF Readings
<1> QED
  BY <1>7 DEF n, rest, r

\* What the loop finds, wherever it begins.
LEMMA ReadingType ==
  ASSUME SentType, NEW data, SentBytes(data), NEW at \in 0..(Len(data) + 1)
  PROVE  Reading(data, at) \in Readings
<1> DEFINE m == Len(data) + 1
           T == {k \in Nat : \A a \in 0..m : m - a <= k => Reading(data, a) \in Readings}
<1>1. m \in Nat /\ Len(data) \in Nat
  BY DEF SentBytes
<1>2. ASSUME NEW a \in 0..m,
             \A b \in 0..m : b > a => Reading(data, b) \in Readings
      PROVE  Reading(data, a) \in Readings
  <2>1. CASE Stream!WholeAt(data, a) /\ ~Stream!Unknown(data, a)
    <3>1. a \in Nat
      BY <1>1
    <3>2. Stream!NextStart(data, a) \in (a + 1)..m
      BY <2>1, <3>1, NextIs
    <3>3. Stream!NextStart(data, a) \in 0..m /\ Stream!NextStart(data, a) > a
      BY <1>1, <3>1, <3>2
    <3>4. Reading(data, Stream!NextStart(data, a)) \in Readings
      BY <1>2, <3>3
    <3> QED
      BY <2>1, <3>4, ReadingGoesOn
  <2>2. CASE ~(Stream!WholeAt(data, a) /\ ~Stream!Unknown(data, a))
    BY <2>2, ReadingEnds
  <2> QED
    BY <2>1, <2>2
<1>3. 0 \in T
  <2> SUFFICES ASSUME NEW a \in 0..m, m - a <= 0 PROVE Reading(data, a) \in Readings
    OBVIOUS
  <2>1. ~ \E b \in 0..m : b > a
    BY <1>1
  <2> QED
    BY <1>2, <2>1
<1>4. ASSUME NEW k \in Nat, k \in T PROVE k + 1 \in T
  <2> SUFFICES ASSUME NEW a \in 0..m, m - a <= k + 1 PROVE Reading(data, a) \in Readings
    OBVIOUS
  <2>1. \A b \in 0..m : b > a => m - b <= k
    BY <1>1
  <2> QED
    BY <1>2, <1>4, <2>1
<1>5. m \in T
  <2> HIDE DEF T, m
  <2> QED
    BY <1>1, <1>3, <1>4, Induction
<1>6. m - at <= m /\ at \in 0..m
  BY <1>1
<1> QED
  BY <1>5, <1>6

\* The bytes from somewhere in what was sent to its end.
Chained(a) ==
  /\ SentBytes(a) /\ \A i \in 1..Len(a) : a[i][2] \in 1..Stream!Size(a[i][1])
  /\ \A i \in 1..(Len(a) - 1) :
       a[i + 1] = IF a[i][2] < Stream!Size(a[i][1]) THEN <<a[i][1], a[i][2] + 1>>
                  ELSE <<a[i][1] + 1, 1>>
  /\ a # <<>> => a[Len(a)] = <<Len(sent), Stream!Size(Len(sent))>>

\* Behind p bytes of it a message begins, and which; the next to be sent, at its end.
BeginsAt(a, p) == p < Len(a) => a[p + 1][2] = 1
Following(a, p) == IF p < Len(a) THEN a[p + 1][1] ELSE Len(sent) + 1

\* Behind the bytes of a message the next one begins.
LEMMA FrameIs ==
  ASSUME SentType, NEW a, Chained(a), NEW p \in Nat, p < Len(a), BeginsAt(a, p),
         NEW n, n = a[p + 1][1], p + Stream!Size(n) <= Len(a)
  PROVE  BeginsAt(a, p + Stream!Size(n)) /\ Following(a, p + Stream!Size(n)) = n + 1
<1> DEFINE s == Stream!Size(n)
           T == {k \in Nat : k < s => a[p + k + 1] = <<n, k + 1>>}
<1>1. /\ Len(a) \in Nat /\ a \in Seq(StreamBytes) /\ \A i \in 1..Len(a) : a[i] \in StreamBytes
      /\ Len(sent) \in Nat
  BY DEF Chained, SentBytes, SentType
<1>2. p + 1 \in 1..Len(a)
  BY <1>1
<1>3. n \in 1..Len(sent)
  BY <1>2 DEF Chained, SentBytes
<1>4. s \in Nat /\ s >= 2
  BY <1>3, SizeIs
<1>5. a[p + 1] = <<n, 1>>
  <2>1. a[p + 1] \in StreamBytes
    BY <1>1, <1>2
  <2>2. a[p + 1][2] = 1
    BY DEF BeginsAt
  <2> QED
    BY <2>1, <2>2 DEF StreamBytes, Stream!BytesOfMessages
<1>6. ASSUME NEW i \in 1..(Len(a) - 1), a[i][1] = n
      PROVE  a[i + 1] = IF a[i][2] < s THEN <<n, a[i][2] + 1>> ELSE <<n + 1, 1>>
  BY <1>6 DEF Chained
<1>7. p + s <= Len(a)
  OBVIOUS
<1> HIDE DEF s
<1>8. 0 \in T
  <2>1. p + 0 + 1 = p + 1 /\ <<n, 0 + 1>> = <<n, 1>>
    OBVIOUS
  <2> QED
    BY <1>5, <2>1
<1>9. ASSUME NEW k \in Nat, k \in T PROVE k + 1 \in T
  <2> SUFFICES ASSUME k + 1 < s PROVE a[p + (k + 1) + 1] = <<n, (k + 1) + 1>>
    OBVIOUS
  <2>1. a[p + k + 1] = <<n, k + 1>>
    BY <1>4, <1>9
  <2>2. p + k + 1 \in 1..(Len(a) - 1) /\ p + (k + 1) + 1 = (p + k + 1) + 1 /\ k + 1 < s
    BY <1>1, <1>4, <1>7
  <2>3. a[p + k + 1][1] = n /\ a[p + k + 1][2] = k + 1
    BY <2>1
  <2>4. a[(p + k + 1) + 1] = <<n, (k + 1) + 1>>
    BY <1>6, <2>2, <2>3
  <2> QED
    BY <2>2, <2>4
<1>10. a[p + s] = <<n, s>>
  <2>1. s - 1 \in T
    <3>1. s - 1 \in Nat
      BY <1>4
    <3> HIDE DEF T
    <3> QED
      BY <1>8, <1>9, <3>1, Induction
  <2>2. a[p + (s - 1) + 1] = <<n, (s - 1) + 1>>
    BY <1>4, <2>1
  <2>3. p + (s - 1) + 1 = p + s /\ (s - 1) + 1 = s
    BY <1>4
  <2> QED
    BY <2>2, <2>3
<1>11. a[p + s][1] = n /\ a[p + s][2] = s
  BY <1>10
<1>12. CASE p + s < Len(a)
  <2>1. p + s \in 1..(Len(a) - 1)
    BY <1>1, <1>4, <1>12
  <2>2. a[p + s + 1] = IF a[p + s][2] < s THEN <<n, a[p + s][2] + 1>> ELSE <<n + 1, 1>>
    BY <1>6, <1>11, <2>1
  <2>3. ~(a[p + s][2] < s)
    BY <1>4, <1>11
  <2>4. a[p + s + 1] = <<n + 1, 1>>
    BY <2>2, <2>3
  <2> QED
    BY <1>12, <2>4 DEF BeginsAt, Following, s
<1>13. CASE p + s = Len(a)
  <2>1. a # <<>>
    BY <1>1, <1>2
  <2>2. a[p + s] = <<Len(sent), Stream!Size(Len(sent))>>
    BY <1>13, <2>1 DEF Chained
  <2>3. n = Len(sent)
    BY <1>11, <2>2
  <2>4. ~(p + s < Len(a))
    BY <1>1, <1>13
  <2> QED
    BY <2>3, <2>4 DEF BeginsAt, Following, s
<1> QED
  BY <1>1, <1>4, <1>7, <1>12, <1>13

\* A message that has come whole, in the part of the bytes that has arrived.
LEMMA WholeIs ==
  ASSUME SentType, NEW a, Chained(a), NEW m \in 0..Len(a), NEW data, data = SubSeq(a, 1, m),
         NEW p \in Nat, Stream!WholeAt(data, p)
  PROVE  LET n == Stream!NumberAt(data, p)
         IN  /\ SentBytes(data) /\ Len(data) = m /\ p < m
             /\ n \in 1..Len(sent) /\ n = Following(a, p)
             /\ Stream!Size(n) \in Nat /\ Stream!Size(n) >= 2
             /\ p + Stream!Size(n) \in 0..m /\ p + Stream!Size(n) > p
             /\ BeginsAt(a, p + Stream!Size(n)) /\ Following(a, p + Stream!Size(n)) = n + 1
<1> DEFINE n == Stream!NumberAt(data, p)
<1>1. /\ Len(a) \in Nat /\ a \in Seq(StreamBytes) /\ m \in Nat /\ m <= Len(a)
      /\ \A i \in 1..Len(a) : a[i] \in StreamBytes
  BY DEF Chained, SentBytes
<1>2. data \in Seq(StreamBytes) /\ Len(data) = m /\ \A i \in 1..m : data[i] = a[i]
  BY <1>1
<1>3. SentBytes(data)
  BY <1>1, <1>2 DEF Chained, SentBytes
<1>4. /\ p < m /\ data[p + 1][2] = 1 /\ n \in 1..Len(sent) /\ p + Stream!Size(n) <= m
  BY <1>2, <1>3, NextIs DEF Stream!WholeAt
<1>5. Stream!Size(n) \in Nat /\ Stream!Size(n) >= 2
  BY <1>4, SizeIs
<1>6. n = a[p + 1][1] /\ BeginsAt(a, p) /\ p < Len(a)
  BY <1>1, <1>2, <1>4 DEF Stream!NumberAt, BeginsAt
<1> HIDE DEF n
<1>7. p + Stream!Size(n) <= Len(a)
  BY <1>1, <1>4, <1>5
<1>8. BeginsAt(a, p + Stream!Size(n)) /\ Following(a, p + Stream!Size(n)) = n + 1
  BY <1>6, <1>7, FrameIs
<1>9. n = Following(a, p)
  BY <1>6 DEF Following
<1>10. p + Stream!Size(n) \in 0..m /\ p + Stream!Size(n) > p
  BY <1>1, <1>4, <1>5
<1> QED
  BY <1>2, <1>3, <1>4, <1>5, <1>8, <1>9, <1>10 DEF n

\* From the byte behind p bytes to that behind q the messages s were handed on.
HandedOn(s, first, last) ==
  /\ Ascending(s)
  /\ Members(s) = {n \in first..(last - 1) : sent[n].kind = "known"}

\* The loop of ProtobufCodec hands on what has come whole and ends at the next message.
ReadRight(a, data, p) ==
  LET r == Reading(data, p)
  IN  /\ r.end \in p..Len(data) /\ BeginsAt(a, r.end) /\ Following(a, p) <= Following(a, r.end)
      /\ HandedOn(r.known, Following(a, p), Following(a, r.end))
      /\ r.refused = Stream!WholeAt(data, r.end)
      /\ r.refused => Stream!Unknown(data, r.end)

\* The message that follows was sent or is the next to be.
LEMMA FollowingIs ==
  ASSUME SentType, NEW a, Chained(a), NEW p \in Nat
  PROVE  /\ Following(a, p) \in 1..(Len(sent) + 1)
         /\ Following(a, p) \in Nat /\ Len(sent) \in Nat
<1>1. Len(a) \in Nat /\ Len(sent) \in Nat
  BY DEF Chained, SentBytes, SentType
<1>2. p < Len(a) => p + 1 \in 1..Len(a)
  BY <1>1
<1>3. p < Len(a) => a[p + 1][1] \in 1..Len(sent)
  BY <1>2 DEF Chained, SentBytes
<1> QED
  BY <1>1, <1>3 DEF Following

\* Numbers of messages are naturals.
LEMMA NumbersNat == \A s \in Seq(Stream!Numbers) : s \in Seq(Nat)
<1>1. \A S, U : S \subseteq U => \A s \in Seq(S) : s \in Seq(U)
  OBVIOUS
<1>2. Stream!Numbers \subseteq Nat
  BY DEF Stream!Numbers
<1> QED
  BY <1>1, <1>2

\* A message of known type is handed on, no other.
LEMMA KnownIs ==
  ASSUME SentType, NEW n \in 1..Len(sent)
  PROVE  Known(n) \in Seq(Nat) /\ HandedOn(Known(n), n, n + 1)
<1>1. n \in Nat /\ n..((n + 1) - 1) = {n}
  BY DEF SentType
<1>2. CASE sent[n].kind = "known"
  <2>1. Known(n) = <<n>>
    BY <1>2 DEF Known
  <2>2. Ascending(<<n>>) /\ Members(<<n>>) = {n}
    BY DEF Ascending, Members
  <2> QED
    BY <1>1, <1>2, <2>1, <2>2 DEF HandedOn
<1>3. CASE sent[n].kind # "known"
  <2>1. Known(n) = <<>>
    BY <1>3 DEF Known
  <2>2. Ascending(<<>>) /\ Members(<<>>) = {}
    BY DEF Ascending, Members
  <2> QED
    BY <1>1, <1>3, <2>1, <2>2 DEF HandedOn
<1> QED
  BY <1>2, <1>3

\* What is handed on one after the other.
LEMMA HandedJoined ==
  ASSUME NEW s \in Seq(Nat), NEW t \in Seq(Nat), NEW k \in Nat, NEW l \in Nat, NEW m \in Nat,
         k <= l, l <= m, HandedOn(s, k, l), HandedOn(t, l, m)
  PROVE  HandedOn(s \o t, k, m)
<1>1. \A x \in Members(s), y \in Members(t) : x < y
  <2>1. \A x \in Members(s) : x \in k..(l - 1)
    BY DEF HandedOn
  <2>2. \A y \in Members(t) : y \in l..(m - 1)
    BY DEF HandedOn
  <2> QED
    BY <2>1, <2>2
<1>2. Ascending(s \o t) /\ Members(s \o t) = Members(s) \cup Members(t)
  BY <1>1, Joined DEF HandedOn
<1>3. k..(m - 1) = (k..(l - 1)) \cup (l..(m - 1))
  OBVIOUS
<1>4. Members(s) \cup Members(t) = {n \in k..(m - 1) : sent[n].kind = "known"}
  BY <1>3 DEF HandedOn
<1> QED
  BY <1>2, <1>4 DEF HandedOn

\* Wherever a message begins, the loop of ProtobufCodec is right from there on.
LEMMA ReadsRight ==
  ASSUME SentType, codec = "protobuf", NEW a, Chained(a), NEW m \in 0..Len(a),
         NEW data, data = SubSeq(a, 1, m), NEW p \in 0..m, BeginsAt(a, p)
  PROVE  ReadRight(a, data, p)
<1> DEFINE T == {k \in Nat : \A q \in 0..m : m - q <= k /\ BeginsAt(a, q) => ReadRight(a, data, q)}
<1>1. /\ Len(a) \in Nat /\ a \in Seq(StreamBytes) /\ m \in Nat /\ m <= Len(a)
      /\ \A i \in 1..Len(a) : a[i] \in StreamBytes
  BY DEF Chained, SentBytes
<1>2. SentBytes(data) /\ Len(data) = m
  <2>1. data \in Seq(StreamBytes) /\ Len(data) = m /\ \A i \in 1..m : data[i] = a[i]
    BY <1>1
  <2> QED
    BY <1>1, <2>1 DEF Chained, SentBytes
<1>3. ASSUME NEW q \in 0..m, BeginsAt(a, q),
             \A o \in 0..m : o > q /\ BeginsAt(a, o) => ReadRight(a, data, o)
      PROVE  ReadRight(a, data, q)
  <2> DEFINE r == Reading(data, q)
  <2>0. q \in Nat /\ q \in 0..(Len(data) + 1) /\ q \in q..m
    BY <1>1, <1>2
  <2>1. CASE Stream!WholeAt(data, q) /\ ~Stream!Unknown(data, q)
    <3> DEFINE n == Stream!NumberAt(data, q)
               o == Stream!NextStart(data, q)
               rest == Reading(data, o)
    <3>1. /\ o = q + Stream!Size(n) /\ o \in 0..m /\ o > q /\ BeginsAt(a, o)
          /\ Following(a, q) = n /\ Following(a, o) = n + 1 /\ n \in 1..Len(sent)
      <4>1. o = q + Stream!Size(n)
        BY <1>2, <2>0, <2>1, NextIs
      <4>2. /\ n \in 1..Len(sent) /\ n = Following(a, q)
            /\ q + Stream!Size(n) \in 0..m /\ q + Stream!Size(n) > q
            /\ BeginsAt(a, q + Stream!Size(n)) /\ Following(a, q + Stream!Size(n)) = n + 1
        BY <2>0, <2>1, WholeIs
      <4> QED
        BY <4>1, <4>2
    <3>2. ReadRight(a, data, o)
      BY <1>3, <3>1
    <3>3. rest \in Readings
      <4>1. o \in 0..(Len(data) + 1)
        BY <1>1, <1>2, <3>1
      <4> QED
        BY <1>2, <4>1, ReadingType
    <3>4. r.end = rest.end /\ r.refused = rest.refused /\ r.known = Known(n) \o rest.known
      BY <1>2, <2>0, <2>1, <3>3, ReadingGoesOn
    <3> HIDE DEF n, o, rest, r
    <3>5. rest.end \in o..m /\ rest.end \in q..m /\ rest.end \in Nat
      BY <1>1, <1>2, <2>0, <3>1, <3>2 DEF ReadRight, rest
    <3>6. /\ Following(a, o) <= Following(a, rest.end) /\ BeginsAt(a, rest.end)
          /\ HandedOn(rest.known, Following(a, o), Following(a, rest.end))
          /\ rest.refused = Stream!WholeAt(data, rest.end)
          /\ rest.refused => Stream!Unknown(data, rest.end)
      BY <3>2 DEF ReadRight, rest
    <3>7. Following(a, rest.end) \in Nat /\ n \in Nat
      <4>1. Following(a, rest.end) \in Nat /\ Following(a, q) \in Nat
        BY <2>0, <3>5, FollowingIs
      <4> QED
        BY <3>1, <4>1
    <3>8. Known(n) \in Seq(Nat) /\ HandedOn(Known(n), n, n + 1)
      BY <3>1, KnownIs
    <3>9. rest.known \in Seq(Nat)
      BY <3>3, NumbersNat DEF Readings
    <3>10. HandedOn(Known(n) \o rest.known, n, Following(a, rest.end))
      BY <3>1, <3>6, <3>7, <3>8, <3>9, HandedJoined
    <3>11. n <= Following(a, rest.end)
      BY <3>1, <3>6, <3>7
    <3> QED
      BY <1>2, <3>1, <3>4, <3>5, <3>6, <3>10, <3>11 DEF ReadRight, r
  <2>2. CASE ~(Stream!WholeAt(data, q) /\ ~Stream!Unknown(data, q))
    <3>1. r = [known |-> <<>>, end |-> q, refused |-> Stream!WholeAt(data, q)]
      BY <1>2, <2>0, <2>2, ReadingEnds
    <3>2. r.known = <<>> /\ r.end = q /\ r.refused = Stream!WholeAt(data, q)
      BY <3>1
    <3>3. Following(a, q) \in Nat
      BY <2>0, FollowingIs
    <3>4. Following(a, q)..(Following(a, q) - 1) = {} /\ Following(a, q) <= Following(a, q)
      BY <3>3
    <3>5. HandedOn(<<>>, Following(a, q), Following(a, q))
      BY <3>4 DEF HandedOn, Ascending, Members
    <3> HIDE DEF r
    <3> QED
      BY <1>2, <1>3, <2>0, <2>2, <3>2, <3>4, <3>5 DEF ReadRight, r
  <2> QED
    BY <2>1, <2>2
<1>4. 0 \in T
  <2> SUFFICES ASSUME NEW q \in 0..m, m - q <= 0, BeginsAt(a, q) PROVE ReadRight(a, data, q)
    OBVIOUS
  <2>1. ~ \E o \in 0..m : o > q
    BY <1>1
  <2> QED
    BY <1>3, <2>1
<1>5. ASSUME NEW k \in Nat, k \in T PROVE k + 1 \in T
  <2> SUFFICES ASSUME NEW q \in 0..m, m - q <= k + 1, BeginsAt(a, q) PROVE ReadRight(a, data, q)
    OBVIOUS
  <2>1. \A o \in 0..m : o > q => m - o <= k
    BY <1>1
  <2> QED
    BY <1>3, <1>5, <2>1
<1>6. m \in T
  <2> HIDE DEF T
  <2> QED
    BY <1>1, <1>4, <1>5, Induction
<1>7. m - p <= m
  BY <1>1
<1> QED
  BY <1>6, <1>7

\* The same for what is taken out, by either codec: e bytes of data, the beginning of a.
ReadTo(a, data, e, s, f) ==
  /\ e \in 0..Len(data) /\ BeginsAt(a, e) /\ Following(a, 0) <= Following(a, e)
  /\ HandedOn(s, Following(a, 0), Following(a, e))
  /\ f = Stream!WholeAt(data, e)
  /\ f => Stream!Unknown(data, e)

\* What ReadBytes takes out when it is asked for n of m bytes.
LEMMA SmallerEnd ==
  ASSUME NEW m \in Nat, NEW n \in Nat
  PROVE  /\ Stream!DB!Smaller(n, m) \in 0..m
         /\ n <= m => Stream!DB!Smaller(n, m) = n
         /\ n >= m => Stream!DB!Smaller(n, m) = m
BY DEF Stream!DB!Smaller

\* So it is from the beginning of what the buffer has.
LEMMA ProtobufReads ==
  ASSUME SentType, codec = "protobuf", NEW a, Chained(a), BeginsAt(a, 0),
         NEW m \in 0..Len(a), NEW data, data = SubSeq(a, 1, m)
  PROVE  LET r == Reading(data, 0)
         IN  ReadTo(a, data, Stream!DB!Smaller(r.end, m), r.known, r.refused)
<1> DEFINE r == Reading(data, 0)
           e == Stream!DB!Smaller(r.end, m)
<1>1. Len(a) \in Nat /\ m \in Nat /\ Len(data) = m /\ 0 \in 0..m
  BY DEF Chained, SentBytes
<1>2. ReadRight(a, data, 0)
  BY <1>1, ReadsRight
<1>3. r.end \in 0..m
  BY <1>1, <1>2 DEF ReadRight
<1> HIDE DEF r
<1>4. e = r.end
  <2>1. r.end \in Nat /\ r.end <= m
    BY <1>1, <1>3
  <2> QED
    BY <1>1, <2>1, SmallerEnd
<1> HIDE DEF e
<1> QED
  BY <1>1, <1>2, <1>3, <1>4 DEF ReadRight, ReadTo, r, e

\* The first message, when it has come whole.
LEMMA WholeFirst ==
  ASSUME SentType, NEW a, Chained(a), NEW m \in 0..Len(a), NEW data, data = SubSeq(a, 1, m),
         Stream!WholeAt(data, 0)
  PROVE  LET n == Stream!NumberAt(data, 0)
         IN  /\ n \in 1..Len(sent) /\ n = Following(a, 0)
             /\ Stream!Size(n) \in Nat /\ Stream!Size(n) \in 0..m
             /\ BeginsAt(a, Stream!Size(n)) /\ Following(a, Stream!Size(n)) = n + 1
<1> DEFINE n == Stream!NumberAt(data, 0)
<1>1. PICK z \in Nat : z = 0
  OBVIOUS
<1>2. Stream!WholeAt(data, z) /\ Stream!NumberAt(data, z) = n
  BY <1>1
<1> HIDE DEF n
<1>3. LET o == Stream!NumberAt(data, z)
      IN  /\ o \in 1..Len(sent) /\ o = Following(a, z) /\ Stream!Size(o) \in Nat
          /\ z + Stream!Size(o) \in 0..m
          /\ BeginsAt(a, z + Stream!Size(o)) /\ Following(a, z + Stream!Size(o)) = o + 1
  BY <1>2, WholeIs
<1>4. Stream!Size(n) \in Nat /\ z + Stream!Size(n) = Stream!Size(n)
  BY <1>1, <1>2, <1>3
<1> QED
  BY <1>1, <1>2, <1>3, <1>4 DEF n

\* Codec of the gateway goes on a byte too far, behind all that there is.
LEMMA GatewayReads ==
  ASSUME SentType, codec = "gateway", NEW a, Chained(a), BeginsAt(a, 0),
         NEW m \in 0..Len(a), NEW data, data = SubSeq(a, 1, m),
         \A at \in 0..m : ~(/\ Stream!WholeAt(data, at)
                            /\ at + Stream!Size(Stream!NumberAt(data, at)) < m)
  PROVE  LET r == Reading(data, 0)
         IN  ReadTo(a, data, Stream!DB!Smaller(r.end, m), r.known, r.refused)
<1> DEFINE r == Reading(data, 0)
           e == Stream!DB!Smaller(r.end, m)
<1>1. /\ Len(a) \in Nat /\ a \in Seq(StreamBytes) /\ m \in Nat /\ m <= Len(a)
      /\ \A i \in 1..Len(a) : a[i] \in StreamBytes
  BY DEF Chained, SentBytes
<1>2. SentBytes(data) /\ Len(data) = m
  <2>1. data \in Seq(StreamBytes) /\ Len(data) = m /\ \A i \in 1..m : data[i] = a[i]
    BY <1>1
  <2> QED
    BY <1>1, <2>1 DEF Chained, SentBytes
<1>3. 0 \in 0..(Len(data) + 1) /\ m + 1 \in 0..(Len(data) + 1) /\ 0 \in 0..m /\ m \in 0..m
  BY <1>1, <1>2
<1>4. Following(a, 0) \in Nat
  BY FollowingIs
<1>5. CASE Stream!WholeAt(data, 0)
  <2> DEFINE n == Stream!NumberAt(data, 0)
             rest == Reading(data, Stream!NextStart(data, 0))
  <2>1. /\ n \in 1..Len(sent) /\ n = Following(a, 0) /\ Stream!Size(n) \in Nat
        /\ Stream!Size(n) \in 0..m
        /\ BeginsAt(a, Stream!Size(n)) /\ Following(a, Stream!Size(n)) = n + 1
    BY <1>5, WholeFirst
  <2>2. Stream!Size(n) = m
    <3>1. ~(0 + Stream!Size(n) < m)
      BY <1>3, <1>5
    <3> HIDE DEF n
    <3> QED
      BY <1>1, <2>1, <3>1
  <2>3. ~Stream!Unknown(data, 0)
    <3>1. sent[n].kind \in Stream!Kinds
      BY <2>1, SizeIs
    <3>2. Stream!Kinds = {"known"}
      BY DEF Stream!Kinds
    <3> QED
      BY <3>1, <3>2 DEF Stream!Unknown
  <2>4. Stream!NextStart(data, 0) = m + 1
    <3>1. Stream!NextStart(data, 0) = 0 + Stream!Size(n) + 1
      BY DEF Stream!NextStart, Stream!Type
    <3> HIDE DEF n
    <3> QED
      BY <1>1, <2>2, <3>1
  <2>5. ~Stream!WholeAt(data, m + 1) /\ ~Stream!WholeAt(data, m)
    BY <1>1, <1>2 DEF Stream!WholeAt
  <2>6. rest \in Readings /\ rest.known = <<>> /\ rest.end = m + 1 /\ rest.refused = FALSE
    <3>1. /\ Reading(data, m + 1) \in Readings
          /\ Reading(data, m + 1)
               = [known |-> <<>>, end |-> m + 1, refused |-> Stream!WholeAt(data, m + 1)]
      BY <1>2, <1>3, <2>5, ReadingEnds
    <3>2. rest = Reading(data, m + 1) /\ Stream!WholeAt(data, m + 1) = FALSE
      BY <2>4, <2>5 DEF Stream!WholeAt
    <3> QED
      BY <3>1, <3>2
  <2>7. r.end = rest.end /\ r.refused = rest.refused /\ r.known = Known(n) \o rest.known
    BY <1>2, <1>3, <1>5, <2>3, <2>6, ReadingGoesOn
  <2>8. Known(n) \in Seq(Nat) /\ HandedOn(Known(n), n, n + 1)
    BY <2>1, KnownIs
  <2> HIDE DEF n, rest, r
  <2>9. r.known = Known(n) /\ r.refused = FALSE /\ r.end = m + 1
    BY <2>6, <2>7, <2>8, ConcatEmptySeq
  <2>10. e = m
    BY <1>1, <2>9, SmallerEnd
  <2>11. Following(a, m) = n + 1 /\ BeginsAt(a, m) /\ Following(a, 0) = n
    BY <2>1, <2>2
  <2>12. Following(a, 0) <= Following(a, m)
    BY <1>4, <2>11
  <2> HIDE DEF e
  <2>13. ReadTo(a, data, e, r.known, r.refused)
    <3>1. HandedOn(r.known, Following(a, 0), Following(a, m))
      BY <2>8, <2>9, <2>11
    <3>2. r.refused = Stream!WholeAt(data, m)
      BY <2>5, <2>9 DEF Stream!WholeAt
    <3>3. m \in 0..Len(data) /\ ~r.refused
      BY <1>2, <1>3, <2>9
    <3>4. ReadTo(a, data, m, r.known, r.refused)
      BY <2>11, <2>12, <3>1, <3>2, <3>3 DEF ReadTo
    <3> QED
      BY <2>10, <3>4
  <2> QED
    BY <2>13 DEF e, r
<1>6. CASE ~Stream!WholeAt(data, 0)
  <2>1. r = [known |-> <<>>, end |-> 0, refused |-> Stream!WholeAt(data, 0)]
    BY <1>2, <1>3, <1>6, ReadingEnds
  <2>2. r.known = <<>> /\ r.end = 0 /\ r.refused = Stream!WholeAt(data, 0)
    BY <2>1
  <2>3. Following(a, 0)..(Following(a, 0) - 1) = {} /\ Following(a, 0) <= Following(a, 0)
    BY <1>4
  <2>4. HandedOn(<<>>, Following(a, 0), Following(a, 0))
    BY <2>3 DEF HandedOn, Ascending, Members
  <2> HIDE DEF r
  <2>5. e = 0
    BY <1>1, <2>2, SmallerEnd
  <2> HIDE DEF e
  <2>6. ReadTo(a, data, e, r.known, r.refused)
    <3>1. r.refused = Stream!WholeAt(data, 0) /\ ~r.refused /\ 0 \in 0..Len(data)
      BY <1>2, <1>3, <1>6, <2>2
    <3>2. ReadTo(a, data, 0, r.known, r.refused)
      BY <2>2, <2>3, <2>4, <3>1 DEF ReadTo
    <3> QED
      BY <2>5, <3>2
  <2> QED
    BY <2>6 DEF e, r
<1> QED
  BY <1>5, <1>6

\* What is left when e bytes have been taken out.
Cut(a, m, data, e, rest, left) ==
  /\ m \in 0..Len(a) /\ data = SubSeq(a, 1, m) /\ e \in 0..m
  /\ rest = SubSeq(a, e + 1, Len(a)) /\ left = SubSeq(data, e + 1, m)

LEMMA TakenOut ==
  ASSUME SentType, NEW a, Chained(a), NEW m, NEW data, NEW e, NEW rest, NEW left,
         Cut(a, m, data, e, rest, left)
  PROVE  /\ Chained(rest) /\ Following(rest, 0) = Following(a, e)
         /\ BeginsAt(a, e) => BeginsAt(rest, 0)
         /\ Stream!WholeAt(left, 0) = Stream!WholeAt(data, e)
         /\ Stream!WholeAt(data, e) /\ Stream!Unknown(data, e) => Stream!Unknown(left, 0)
<1> DEFINE L == Len(a)
<1>1. /\ L \in Nat /\ a \in Seq(StreamBytes) /\ m \in Nat /\ m <= L /\ e \in Nat /\ e <= m
      /\ \A i \in 1..L : a[i] \in StreamBytes
  BY DEF Chained, SentBytes, Cut
<1> HIDE DEF L
<1>2. data \in Seq(StreamBytes) /\ Len(data) = m /\ \A i \in 1..m : data[i] = a[i]
  BY <1>1 DEF L, Cut
<1>3. /\ rest \in Seq(StreamBytes) /\ Len(rest) = L - e
      /\ \A i \in 1..(L - e) : rest[i] = a[e + i]
  <2>1. \A i \in (e + 1)..L : a[i] \in StreamBytes
    BY <1>1
  <2>2. /\ SubSeq(a, e + 1, L) \in Seq(StreamBytes)
        /\ Len(SubSeq(a, e + 1, L)) = IF e + 1 <= L THEN L - (e + 1) + 1 ELSE 0
        /\ \A i \in 1..(L - (e + 1) + 1) : SubSeq(a, e + 1, L)[i] = a[(e + 1) + i - 1]
    BY <1>1, <2>1, SubSeqProperties
  <2>3. rest = SubSeq(a, e + 1, L)
    BY DEF L, Cut
  <2> QED
    BY <1>1, <2>2, <2>3
<1>4. Len(left) = m - e /\ \A i \in 1..(m - e) : left[i] = data[e + i]
  <2>1. \A i \in (e + 1)..m : data[i] \in StreamBytes
    BY <1>1, <1>2
  <2>2. /\ Len(SubSeq(data, e + 1, m)) = IF e + 1 <= m THEN m - (e + 1) + 1 ELSE 0
        /\ \A i \in 1..(m - (e + 1) + 1) : SubSeq(data, e + 1, m)[i] = data[(e + 1) + i - 1]
    BY <1>1, <2>1, SubSeqProperties
  <2>3. left = SubSeq(data, e + 1, m)
    BY DEF Cut
  <2> QED
    BY <1>1, <2>2, <2>3
<1>5. Chained(rest)
  <2>1. /\ \A i \in 1..L : a[i][1] \in 1..Len(sent) /\ a[i][2] \in 1..Stream!Size(a[i][1])
        /\ \A i \in 1..(L - 1) :
             a[i + 1] = IF a[i][2] < Stream!Size(a[i][1]) THEN <<a[i][1], a[i][2] + 1>>
                        ELSE <<a[i][1] + 1, 1>>
        /\ a # <<>> => a[L] = <<Len(sent), Stream!Size(Len(sent))>>
    BY DEF Chained, SentBytes, L
  <2>2. \A i \in 1..(L - e) : e + i \in 1..L /\ rest[i] = a[e + i]
    <3>1. \A i \in 1..(L - e) : e + i \in 1..L
      BY <1>1
    <3> QED
      BY <1>3, <3>1
  <2>3. \A i \in 1..Len(rest) : rest[i][1] \in 1..Len(sent) /\ rest[i][2] \in 1..Stream!Size(rest[i][1])
    BY <1>3, <2>1, <2>2
  <2>4. ASSUME NEW i \in 1..(Len(rest) - 1)
        PROVE  rest[i + 1] = IF rest[i][2] < Stream!Size(rest[i][1]) THEN <<rest[i][1], rest[i][2] + 1>>
                             ELSE <<rest[i][1] + 1, 1>>
    <3>1. e + i \in 1..(L - 1) /\ i \in 1..(L - e) /\ i + 1 \in 1..(L - e) /\ e + (i + 1) = (e + i) + 1
      BY <1>1, <1>3
    <3>2. rest[i] = a[e + i] /\ rest[i + 1] = a[(e + i) + 1]
      BY <1>3, <3>1
    <3> QED
      BY <2>1, <3>1, <3>2
  <2>5. ASSUME rest # <<>> PROVE rest[Len(rest)] = <<Len(sent), Stream!Size(Len(sent))>>
    <3>1. Len(rest) # 0
      BY <1>3, <2>5
    <3>2. L - e \in 1..(L - e) /\ e + (L - e) = L /\ L # 0
      BY <1>1, <1>3, <3>1
    <3>3. rest[L - e] = a[L]
      BY <1>3, <3>2
    <3>4. a # <<>>
      <4>1. Len(a) # 0
        BY <3>2 DEF L
      <4> QED
        BY <4>1
    <3> QED
      BY <1>3, <2>1, <3>3, <3>4
  <2> QED
    BY <1>3, <2>3, <2>4, <2>5 DEF Chained, SentBytes
<1>6. e < L => rest[0 + 1] = a[e + 1] /\ 0 < Len(rest)
  <2> SUFFICES ASSUME e < L PROVE rest[0 + 1] = a[e + 1] /\ 0 < Len(rest)
    OBVIOUS
  <2>1. 1 \in 1..(L - e) /\ 0 + 1 = 1
    BY <1>1
  <2> QED
    BY <1>1, <1>3, <2>1
<1>7. ~(e < L) => ~(0 < Len(rest))
  BY <1>1, <1>3
<1>8. Following(rest, 0) = Following(a, e)
  BY <1>6, <1>7 DEF Following, L
<1>9. BeginsAt(a, e) => BeginsAt(rest, 0)
  BY <1>6, <1>7 DEF BeginsAt, L
<1>10. CASE e < m
  <2>1. 1 \in 1..(m - e) /\ 0 + 1 = 1 /\ 0 < m - e
    BY <1>1, <1>10
  <2>2. left[0 + 1] = data[e + 1] /\ 0 < Len(left) /\ e < Len(data)
    BY <1>1, <1>2, <1>4, <1>10, <2>1
  <2>3. Stream!NumberAt(left, 0) = Stream!NumberAt(data, e)
    BY <2>2 DEF Stream!NumberAt
  <2>4. Len(left) - 0 = Len(data) - e
    BY <1>1, <1>2, <1>4
  <2>5. Stream!WholeAt(left, 0) = Stream!WholeAt(data, e)
    BY <2>2, <2>3, <2>4 DEF Stream!WholeAt
  <2> QED
    BY <1>5, <1>8, <1>9, <2>3, <2>5 DEF Stream!Unknown
<1>11. CASE e = m
  <2>1. ~(0 < Len(left)) /\ ~(e < Len(data))
    BY <1>1, <1>2, <1>4, <1>11
  <2>2. Stream!WholeAt(left, 0) = FALSE /\ Stream!WholeAt(data, e) = FALSE
    BY <2>1 DEF Stream!WholeAt
  <2> QED
    BY <1>5, <1>8, <1>9, <2>2
<1> QED
  BY <1>1, <1>10, <1>11

-----------------------------------------------------------------------------
(* Streams: the invariant. *)

Left == Contents(received)
Unread == Left \o stream

StreamTyped ==
  /\ SentType
  /\ stream \in Seq(StreamBytes) /\ Sound(received) /\ Left \in Seq(StreamBytes)
  /\ dispatched \in Seq(Stream!Numbers) /\ merged \in BOOLEAN /\ refused \in BOOLEAN

\* A message begins where the loop ended, and what was before it is handed on.
Right(a, left, s, f) ==
  /\ BeginsAt(a, 0) /\ HandedOn(s, 1, Following(a, 0))
  /\ f = Stream!WholeAt(left, 0)
  /\ f => Stream!Unknown(left, 0)

\* Bytes are taken from the front only, so they are in order also when the framing is lost.
StreamInv ==
  /\ StreamTyped /\ Chained(Unread)
  /\ ~merged \/ codec = "protobuf" => Right(Unread, Left, dispatched, refused)

\* Nothing is sent and nothing received.
LEMMA StreamInit == Stream!Init => StreamInv
<1> SUFFICES ASSUME Stream!Init PROVE StreamInv
  OBVIOUS
<1>1. /\ codec \in {"protobuf", "gateway"} /\ sent = <<>> /\ stream = <<>> /\ dispatched = <<>>
      /\ received = Stream!DB!New(Stream!BufferSize) /\ merged = FALSE /\ refused = FALSE
  BY DEF Stream!Init
<1>2. Sound(received) /\ Left = <<>> /\ Unread = <<>>
  BY <1>1, NewSound DEF Left, Unread
<1>3. SentType
  <2>1. MaxMessages \in Nat /\ Len(<<>>) = 0
    BY NetworkAssumption DEF Stream!FramingConstants
  <2>2. \A S : <<>> \in Seq(S)
    OBVIOUS
  <2>3. 0 <= MaxMessages
    BY <2>1
  <2> QED
    BY <1>1, <2>1, <2>2, <2>3, Zenon DEF SentType
<1>4. StreamTyped
  <2>1. \A S : <<>> \in Seq(S)
    OBVIOUS
  <2> QED
    BY <1>1, <1>2, <1>3, <2>1, Zenon DEF StreamTyped
<1>5. Chained(<<>>)
  BY DEF Chained, SentBytes
<1>6. Following(<<>>, 0) = 1
  BY <1>1 DEF Following
<1>7. HandedOn(<<>>, 1, 1)
  <2>1. 1..(1 - 1) = {}
    OBVIOUS
  <2> QED
    BY <2>1 DEF HandedOn, Ascending, Members
<1>8. BeginsAt(<<>>, 0) /\ Stream!WholeAt(<<>>, 0) = FALSE
  BY DEF BeginsAt, Stream!WholeAt
<1>9. Right(Unread, Left, dispatched, refused)
  BY <1>1, <1>2, <1>6, <1>7, <1>8 DEF Right
<1> QED
  BY <1>2, <1>4, <1>5, <1>9 DEF StreamInv

\* What was sent before stays as it was.
LEMMA SentMore ==
  ASSUME SentType, NEW x \in [payload : 0..MaxPayload, kind : Stream!Kinds],
         Len(sent) < MaxMessages, sent' = Append(sent, x), codec' = codec
  PROVE  /\ SentType' /\ Len(sent)' = Len(sent) + 1 /\ Len(sent) \in Nat
         /\ \A n \in 1..Len(sent) : sent'[n] = sent[n] /\ Stream!Size(n)' = Stream!Size(n)
         /\ sent'[Len(sent) + 1] = x
<1> DEFINE Messages == [payload : 0..MaxPayload, kind : Stream!Kinds]
<1>1. sent \in Seq(Messages) /\ MaxMessages \in Nat
  BY NetworkAssumption DEF SentType, Stream!FramingConstants
<1>2. Messages' = Messages
  BY DEF Stream!Kinds
<1> HIDE DEF Messages
<1>3. /\ sent' \in Seq(Messages) /\ Len(sent') = Len(sent) + 1 /\ Len(sent) \in Nat
      /\ \A n \in 1..Len(sent) : sent'[n] = sent[n]
      /\ sent'[Len(sent) + 1] = x
  BY <1>1 DEF Messages
<1>4. Len(sent') <= MaxMessages
  BY <1>1, <1>3
<1>5. SentType'
  BY <1>2, <1>3, <1>4 DEF SentType, Messages
<1>6. \A n \in 1..Len(sent) : Stream!Size(n)' = Stream!Size(n)
  BY <1>3 DEF Stream!Size
<1> QED
  BY <1>3, <1>5, <1>6

\* The bytes of messages up to the last one, whose sizes are given; with one more.
InOrder(a, size, last) ==
  /\ \A i \in 1..Len(a) : a[i][1] \in 1..last /\ a[i][2] \in 1..size[a[i][1]]
  /\ \A i \in 1..(Len(a) - 1) :
       a[i + 1] = IF a[i][2] < size[a[i][1]] THEN <<a[i][1], a[i][2] + 1>>
                  ELSE <<a[i][1] + 1, 1>>
  /\ a # <<>> => a[Len(a)] = <<last, size[last]>>

\* The s bytes of the message after the last one.
NewBytes(new, s, last, size, S) ==
  /\ last \in Nat /\ s \in Nat /\ s >= 1
  /\ \A n \in 1..(last + 1) : size[n] \in Nat
  /\ size[last + 1] = s
  /\ new \in Seq(S) /\ Len(new) = s /\ \A i \in 1..s : new[i] = <<last + 1, i>>

\* The bytes of one more message continue those there are.
LEMMA OneMore ==
  ASSUME NEW a, NEW new, NEW s, NEW last, NEW size, NEW S,
         NewBytes(new, s, last, size, S), a \in Seq(S), InOrder(a, size, last)
  PROVE  /\ a \o new \in Seq(S) /\ InOrder(a \o new, size, last + 1)
         /\ Len(a \o new) > 0
         /\ a = <<>> => (a \o new)[1] = <<last + 1, 1>>
         /\ a # <<>> => (a \o new)[1] = a[1]
<1> DEFINE n == last + 1
           L == Len(a)
           b == a \o new
<1>0. /\ last \in Nat /\ s \in Nat /\ s >= 1 /\ new \in Seq(S)
      /\ (\A k \in 1..(last + 1) : size[k] \in Nat) /\ size[last + 1] = s
      /\ Len(new) = s /\ \A i \in 1..s : new[i] = <<last + 1, i>>
  BY Zenon DEF NewBytes
<1>1. L \in Nat /\ n \in Nat /\ n \in 1..n /\ 1..last \subseteq 1..n
  BY <1>0
<1>2. /\ \A i \in 1..L : a[i][1] \in 1..last /\ a[i][2] \in 1..size[a[i][1]]
      /\ \A i \in 1..(L - 1) :
           a[i + 1] = IF a[i][2] < size[a[i][1]] THEN <<a[i][1], a[i][2] + 1>>
                      ELSE <<a[i][1] + 1, 1>>
      /\ a # <<>> => a[L] = <<last, size[last]>>
  BY DEF InOrder
<1>3. /\ Len(new) = s /\ s \in Nat /\ s >= 1 /\ size[n] = s
      /\ \A i \in 1..s : new[i] = <<n, i>>
      /\ \A k \in 1..n : size[k] \in Nat
  BY <1>0, Zenon
<1>4. /\ b \in Seq(S) /\ Len(b) = L + s
      /\ \A i \in 1..(L + s) : b[i] = IF i <= L THEN a[i] ELSE new[i - L]
  <2>1. /\ b \in Seq(S) /\ Len(b) = Len(a) + Len(new)
        /\ \A i \in 1..(Len(a) + Len(new)) : b[i] = IF i <= Len(a) THEN a[i] ELSE new[i - Len(a)]
    BY <1>0, ConcatProperties
  <2> HIDE DEF b
  <2> QED
    BY <1>3, <2>1
<1>5. a = <<>> <=> L = 0
  OBVIOUS
<1> HIDE DEF n, L, b
<1>6. \A i \in 1..L : b[i] = a[i]
  BY <1>1, <1>3, <1>4
<1>7. ASSUME NEW i \in 1..s PROVE b[L + i] = <<n, i>>
  <2>1. L + i \in 1..(L + s) /\ ~(L + i <= L) /\ (L + i) - L = i
    BY <1>1, <1>3
  <2> QED
    BY <1>3, <1>4, <2>1
<1>8. ASSUME NEW i \in 1..(L + s), i \notin 1..L PROVE i - L \in 1..s /\ i = L + (i - L)
  BY <1>1, <1>3, <1>8
<1>9. ASSUME NEW i \in 1..(L + s) PROVE b[i][1] \in 1..n /\ b[i][2] \in 1..size[b[i][1]]
  <2>1. CASE i \in 1..L
    BY <1>1, <1>2, <1>6, <2>1
  <2>2. CASE i \notin 1..L
    <3>1. PICK k \in 1..s : i = L + k
      BY <1>8, <2>2
    <3>2. b[i] = <<n, k>>
      BY <1>7, <3>1
    <3>3. size[n] = s
      BY <1>3
    <3> QED
      BY <1>1, <1>3, <3>2, <3>3
  <2> QED
    BY <2>1, <2>2
<1>10. ASSUME NEW i \in 1..(L + s - 1)
       PROVE  b[i + 1] = IF b[i][2] < size[b[i][1]] THEN <<b[i][1], b[i][2] + 1>>
                         ELSE <<b[i][1] + 1, 1>>
  <2>1. CASE i \in 1..(L - 1)
    <3>1. i \in 1..L /\ i + 1 \in 1..L
      BY <1>1, <1>3, <2>1
    <3>2. b[i] = a[i] /\ b[i + 1] = a[i + 1]
      BY <1>6, <3>1
    <3> QED
      BY <1>2, <2>1, <3>2
  <2>2. CASE i = L
    <3>1. L \in 1..L /\ 1 \in 1..s /\ L # 0
      BY <1>1, <1>3, <2>2
    <3>2. b[L] = <<last, size[last]>> /\ b[L + 1] = <<n, 1>> /\ last \in 1..last
      <4>1. a[L] = <<last, size[last]>> /\ a[L][1] \in 1..last
        BY <1>2, <1>5, <3>1
      <4>2. b[L + 1] = <<n, 1>> /\ b[L] = a[L]
        BY <1>6, <1>7, <3>1
      <4> QED
        BY <4>1, <4>2
    <3>3. size[last] \in Nat /\ ~(size[last] < size[last])
      BY <1>1, <1>3, <3>2
    <3> QED
      BY <2>2, <3>2, <3>3 DEF n
  <2>3. CASE i \notin 1..L
    <3>1. PICK k \in 1..s : i = L + k
      <4>1. i \in 1..(L + s)
        BY <1>1, <1>3
      <4> QED
        BY <1>8, <2>3, <4>1
    <3>2. k + 1 \in 1..s /\ i + 1 = L + (k + 1) /\ k < s
      BY <1>1, <1>3, <3>1
    <3>3. b[i] = <<n, k>> /\ b[L + (k + 1)] = <<n, k + 1>>
      BY <1>7, <3>1, <3>2
    <3>4. size[n] = s
      BY <1>3
    <3>5. b[i + 1] = <<n, k + 1>> /\ b[i][1] = n /\ b[i][2] = k
      BY <3>1, <3>2, <3>3
    <3>6. b[i][2] < size[b[i][1]] /\ <<b[i][1], b[i][2] + 1>> = <<n, k + 1>>
      BY <3>2, <3>4, <3>5
    <3> QED
      BY <3>5, <3>6
  <2>4. i \in 1..(L - 1) \/ i = L \/ i \notin 1..L
    BY <1>1, <1>3
  <2> QED
    BY <2>1, <2>2, <2>3, <2>4
<1>11. b[L + s] = <<n, s>> /\ s \in 1..s /\ L + s > 0
  <2>1. s \in 1..s /\ L + s > 0
    BY <1>1, <1>3
  <2> QED
    BY <1>7, <2>1
<1>12. InOrder(b, size, n)
  <2>1. size[n] = s
    BY <1>3
  <2> QED
    <3>1. Len(b) = L + s /\ Len(b) - 1 = L + s - 1
      BY <1>1, <1>3, <1>4
    <3>2. b[Len(b)] = <<n, size[n]>>
      BY <1>11, <2>1, <3>1
    <3> QED
      BY <1>9, <1>10, <3>1, <3>2 DEF InOrder
<1>13. b[1] = IF a = <<>> THEN <<n, 1>> ELSE a[1]
  <2>1. CASE L = 0
    <3>1. 1 \in 1..s /\ L + 1 = 1
      BY <1>3, <2>1
    <3>2. b[L + 1] = <<n, 1>>
      BY <1>7, <3>1
    <3> QED
      BY <1>5, <2>1, <3>1, <3>2
  <2>2. CASE L # 0
    <3>1. 1 \in 1..L
      BY <1>1, <1>3, <2>2
    <3> QED
      BY <1>5, <1>6, <2>2, <3>1
  <2> QED
    BY <2>1, <2>2
<1> QED
  BY <1>4, <1>11, <1>12, <1>13 DEF n, b

\* The stream is cut where a read ends and where the loop ends.
LEMMA CutIs ==
  ASSUME NEW S, NEW l \in Seq(S), NEW t \in Seq(S), NEW k \in 1..Len(t)
  PROVE  /\ l \o SubSeq(t, 1, k) \in Seq(S)
         /\ l \o SubSeq(t, 1, k) = SubSeq(l \o t, 1, Len(l) + k)
         /\ Len(l) + k \in 0..Len(l \o t)
         /\ \A e \in 0..(Len(l) + k) :
              SubSeq(l \o SubSeq(t, 1, k), e + 1, Len(l) + k) \o SubSeq(t, k + 1, Len(t))
                = SubSeq(l \o t, e + 1, Len(l \o t))
<1> DEFINE a == l \o t
           m == Len(l) + k
           n == Len(l) + Len(t)
           f == SubSeq(t, 1, k)
           g == SubSeq(t, k + 1, Len(t))
           d == l \o f
<1>1. /\ Len(l) \in Nat /\ Len(t) \in Nat /\ k \in Nat /\ m \in Nat /\ n \in Nat /\ m <= n
      /\ \A i \in 1..Len(t) : t[i] \in S
  OBVIOUS
<1>2. a \in Seq(S) /\ Len(a) = n /\ \A i \in 1..n : a[i] = IF i <= Len(l) THEN l[i] ELSE t[i - Len(l)]
  BY ConcatProperties
<1>3. f \in Seq(S) /\ Len(f) = k /\ \A i \in 1..k : f[i] = t[i]
  OBVIOUS
<1>4. g \in Seq(S) /\ Len(g) = Len(t) - k /\ \A i \in 1..(Len(t) - k) : g[i] = t[k + i]
  <2>1. \A i \in (k + 1)..Len(t) : t[i] \in S
    BY <1>1
  <2>2. /\ g \in Seq(S) /\ Len(g) = IF k + 1 <= Len(t) THEN Len(t) - (k + 1) + 1 ELSE 0
        /\ \A i \in 1..(Len(t) - (k + 1) + 1) : g[i] = t[(k + 1) + i - 1]
    BY <1>1, <2>1, SubSeqProperties
  <2> HIDE DEF g
  <2> QED
    BY <1>1, <2>2
<1> HIDE DEF f, g
<1>5. d \in Seq(S) /\ Len(d) = m /\ \A i \in 1..m : d[i] = IF i <= Len(l) THEN l[i] ELSE f[i - Len(l)]
  BY <1>3, ConcatProperties
<1> HIDE DEF d, a
<1>6. \A i \in 1..m : d[i] = a[i]
  <2> SUFFICES ASSUME NEW i \in 1..m PROVE d[i] = a[i]
    OBVIOUS
  <2>1. i \in 1..n /\ (~(i <= Len(l)) => i - Len(l) \in 1..k)
    BY <1>1
  <2> QED
    BY <1>2, <1>3, <1>5, <2>1
<1>7. d = SubSeq(a, 1, m)
  <2> DEFINE c == SubSeq(a, 1, m)
  <2>1. c \in Seq(S) /\ Len(c) = m /\ \A i \in 1..m : c[i] = a[i]
    BY <1>1, <1>2
  <2> HIDE DEF c, m
  <2>2. c = d
    BY <1>5, <1>6, <2>1
  <2> QED
    BY <2>2 DEF c
<1>8. ASSUME NEW e \in 0..m PROVE SubSeq(d, e + 1, m) \o g = SubSeq(a, e + 1, n)
  <2> DEFINE u == SubSeq(d, e + 1, m)
             v == SubSeq(a, e + 1, n)
             w == u \o g
  <2>1. e \in Nat /\ e <= m
    BY <1>1
  <2>2. u \in Seq(S) /\ Len(u) = m - e /\ \A i \in 1..(m - e) : u[i] = d[e + i]
    <3>1. \A i \in (e + 1)..m : d[i] \in S
      BY <1>1, <1>5, <2>1
    <3>2. /\ u \in Seq(S) /\ Len(u) = IF e + 1 <= m THEN m - (e + 1) + 1 ELSE 0
          /\ \A i \in 1..(m - (e + 1) + 1) : u[i] = d[(e + 1) + i - 1]
      BY <1>1, <2>1, <3>1, SubSeqProperties
    <3> HIDE DEF u, m
    <3> QED
      BY <1>1, <2>1, <3>2
  <2>3. v \in Seq(S) /\ Len(v) = n - e /\ \A i \in 1..(n - e) : v[i] = a[e + i]
    <3>1. \A i \in (e + 1)..n : a[i] \in S
      BY <1>1, <1>2, <2>1
    <3>2. /\ v \in Seq(S) /\ Len(v) = IF e + 1 <= n THEN n - (e + 1) + 1 ELSE 0
          /\ \A i \in 1..(n - (e + 1) + 1) : v[i] = a[(e + 1) + i - 1]
      BY <1>1, <2>1, <3>1, SubSeqProperties
    <3> HIDE DEF v, n
    <3> QED
      BY <1>1, <2>1, <3>2
  <2> HIDE DEF u, v
  <2>4. /\ w \in Seq(S) /\ Len(w) = (m - e) + (Len(t) - k)
        /\ \A i \in 1..((m - e) + (Len(t) - k)) : w[i] = IF i <= m - e THEN u[i] ELSE g[i - (m - e)]
    <3>1. /\ w \in Seq(S) /\ Len(w) = Len(u) + Len(g)
          /\ \A i \in 1..(Len(u) + Len(g)) : w[i] = IF i <= Len(u) THEN u[i] ELSE g[i - Len(u)]
      BY <1>4, <2>2, ConcatProperties
    <3> HIDE DEF w, m
    <3> QED
      BY <1>4, <2>2, <3>1
  <2> HIDE DEF w
  <2>5. (m - e) + (Len(t) - k) = n - e
    BY <1>1, <2>1
  <2>6. ASSUME NEW i \in 1..(n - e) PROVE w[i] = v[i]
    <3>1. CASE i <= m - e
      <4>1. i \in 1..(m - e) /\ e + i \in 1..m
        BY <1>1, <2>1, <3>1
      <4> QED
        BY <1>6, <2>2, <2>3, <2>4, <2>5, <3>1, <4>1
    <3>2. CASE ~(i <= m - e)
      <4>1. /\ i - (m - e) \in 1..(Len(t) - k) /\ e + i \in 1..n /\ ~(e + i <= Len(l))
            /\ k + (i - (m - e)) = (e + i) - Len(l)
        BY <1>1, <2>1, <3>2
      <4>2. w[i] = g[i - (m - e)] /\ g[i - (m - e)] = t[k + (i - (m - e))]
        BY <1>4, <2>4, <2>5, <3>2, <4>1
      <4>3. v[i] = a[e + i] /\ a[e + i] = t[(e + i) - Len(l)]
        BY <1>2, <2>3, <4>1
      <4> QED
        BY <4>1, <4>2, <4>3
    <3> QED
      BY <3>1, <3>2
  <2>7. w = v
    <3>1. Len(w) = n - e /\ Len(v) = n - e
      BY <2>3, <2>4, <2>5
    <3> HIDE DEF m, n
    <3> QED
      BY <2>3, <2>4, <2>6, <3>1, SameSequence
  <2> QED
    BY <2>7 DEF u, v, w
<1>9. m \in 0..Len(a)
  BY <1>1, <1>2
<1> QED
  BY <1>2, <1>5, <1>7, <1>8, <1>9 DEF a, d, f, g


\* The first of the bytes in the buffer is the first of those not yet taken out.
LEMMA FirstLeft ==
  ASSUME StreamTyped, Chained(Unread), 0 < Len(Left)
  PROVE  Left[1] = Unread[1] /\ Left[1][1] \in 1..Len(sent) /\ 0 < Len(Unread)
<1>1. Left \in Seq(StreamBytes) /\ stream \in Seq(StreamBytes)
  BY DEF StreamTyped
<1>2. /\ Len(Unread) = Len(Left) + Len(stream)
      /\ \A i \in 1..(Len(Left) + Len(stream)) :
           Unread[i] = IF i <= Len(Left) THEN Left[i] ELSE stream[i - Len(Left)]
  BY <1>1, ConcatProperties DEF Unread
<1>3. Len(Left) \in Nat /\ Len(stream) \in Nat /\ 1 <= Len(Left) /\ 1 \in 1..(Len(Left) + Len(stream))
  BY <1>1
<1>4. Left[1] = Unread[1] /\ 1 \in 1..Len(Unread) /\ 0 < Len(Unread)
  BY <1>2, <1>3
<1> QED
  BY <1>4 DEF Chained, SentBytes

\* A message more at the end of the stream: what has arrived is what it was.
LEMMA SendKeeps ==
  ASSUME StreamInv, NEW payload \in 0..MaxPayload, NEW kind \in Stream!Kinds,
         Stream!SendMessage(payload, kind)
  PROVE  StreamInv'
<1>1. PICK last : last = Len(sent)
  OBVIOUS
<1>2. PICK a : a = Unread
  OBVIOUS
<1>3. PICK s : s = 2 + payload
  OBVIOUS
<1>4. PICK new : new = [i \in 1..s |-> <<last + 1, i>>]
  OBVIOUS
<1>5. PICK size : size = [n \in 1..(last + 1) |-> 2 + sent'[n].payload]
  OBVIOUS
<1>6. PICK x : x = [payload |-> payload, kind |-> kind]
  OBVIOUS
<1>7. /\ last < MaxMessages /\ sent' = Append(sent, x) /\ stream' = stream \o new
      /\ codec' = codec /\ received' = received /\ dispatched' = dispatched
      /\ merged' = merged /\ refused' = refused
  <2>1. Stream!Header + Stream!Type + payload = 2 + payload
    BY DEF Stream!Header, Stream!Type
  <2> QED
    BY <1>1, <1>3, <1>4, <1>6, <2>1, Zenon DEF Stream!SendMessage
<1>8. StreamTyped /\ SentType /\ Chained(a) /\ MaxPayload \in Nat /\ MaxMessages \in Nat
  BY <1>2, NetworkAssumption DEF StreamInv, StreamTyped, Stream!FramingConstants
<1>9. x \in [payload : 0..MaxPayload, kind : Stream!Kinds] /\ x.payload = payload
  BY <1>6
<1>10. /\ SentType' /\ Len(sent') = last + 1 /\ last \in Nat
       /\ \A n \in 1..last : sent'[n] = sent[n] /\ Stream!Size(n)' = Stream!Size(n)
       /\ sent'[last + 1] = x
  BY <1>1, <1>7, <1>8, <1>9, SentMore
<1>11. Left' = Left
  BY <1>7 DEF Left, Contents, Stream!DB!Contents
<1>12. \A n \in 1..last : size[n] = Stream!Size(n)
  BY <1>5, <1>10 DEF Stream!Size, Stream!Header, Stream!Type
<1>13. size \in [1..(last + 1) -> Nat] /\ size[last + 1] = s /\ s \in Nat /\ s >= 1
  <2>1. \A n \in 1..last : size[n] \in Nat
    BY <1>1, <1>8, <1>12, SizeIs
  <2>2. last + 1 \in 1..(last + 1) /\ 1..(last + 1) = 1..last \cup {last + 1}
    BY <1>10
  <2>3. size[last + 1] = s /\ s \in Nat /\ s >= 1
    BY <1>3, <1>5, <1>9, <1>10, <2>2
  <2>4. \A n \in 1..(last + 1) : size[n] \in Nat
    BY <2>1, <2>2, <2>3
  <2>5. size = [n \in 1..(last + 1) |-> size[n]]
    BY <1>5
  <2> QED
    BY <2>3, <2>4, <2>5
<1>14. a \in Seq(StreamBytes) /\ InOrder(a, size, last)
  <2>1. /\ a \in Seq(StreamBytes) /\ Len(a) \in Nat
        /\ \A i \in 1..Len(a) : a[i][1] \in 1..last /\ a[i][2] \in 1..Stream!Size(a[i][1])
        /\ \A i \in 1..(Len(a) - 1) :
             a[i + 1] = IF a[i][2] < Stream!Size(a[i][1]) THEN <<a[i][1], a[i][2] + 1>>
                        ELSE <<a[i][1] + 1, 1>>
        /\ a # <<>> => a[Len(a)] = <<last, Stream!Size(last)>>
    BY <1>1, <1>8 DEF Chained, SentBytes
  <2>2. \A i \in 1..Len(a) : size[a[i][1]] = Stream!Size(a[i][1])
    BY <1>12, <2>1
  <2>3. \A i \in 1..(Len(a) - 1) : i \in 1..Len(a)
    BY <2>1
  <2>4. a # <<>> => size[last] = Stream!Size(last)
    <3> SUFFICES ASSUME a # <<>> PROVE size[last] = Stream!Size(last)
      OBVIOUS
    <3>1. Len(a) \in 1..Len(a)
      BY <2>1
    <3>2. a[Len(a)][1] = last
      BY <2>1
    <3> QED
      BY <2>2, <3>1, <3>2
  <2> QED
    BY <2>1, <2>2, <2>3, <2>4 DEF InOrder
<1>15. new \in Seq(StreamBytes)
  <2>1. \A i \in 1..s : <<last + 1, i>> \in StreamBytes
    BY <1>3, <1>7, <1>8, <1>10 DEF StreamBytes, Stream!BytesOfMessages, Stream!Numbers, Stream!Header, Stream!Type
  <2> QED
    BY <1>4, <1>13, <2>1
<1>16. PICK b : b = a \o new
  OBVIOUS
<1>17. /\ b \in Seq(StreamBytes) /\ InOrder(b, size, last + 1) /\ Len(b) > 0
       /\ b[1] = IF a = <<>> THEN <<last + 1, 1>> ELSE a[1]
  <2>1. NewBytes(new, s, last, size, StreamBytes)
    <3>1. \A n \in 1..(last + 1) : size[n] \in Nat
      BY <1>13
    <3>2. Len(new) = s /\ \A i \in 1..s : new[i] = <<last + 1, i>>
      BY <1>4, <1>13
    <3> QED
      BY <1>10, <1>13, <1>15, <3>1, <3>2 DEF NewBytes
  <2>2. /\ a \o new \in Seq(StreamBytes) /\ InOrder(a \o new, size, last + 1)
        /\ Len(a \o new) > 0
        /\ a = <<>> => (a \o new)[1] = <<last + 1, 1>>
        /\ a # <<>> => (a \o new)[1] = a[1]
    BY <1>14, <2>1, OneMore
  <2> QED
    BY <1>16, <2>2
<1>18. Unread' = b
  <2>1. Left \in Seq(StreamBytes) /\ stream \in Seq(StreamBytes)
    BY <1>8 DEF StreamTyped
  <2>2. (Left \o stream) \o new = Left \o (stream \o new)
    BY <1>15, <2>1, ConcatAssociative
  <2> QED
    BY <1>2, <1>7, <1>11, <1>16, <2>2 DEF Unread
<1>19. StreamTyped'
  <2>1. stream' \in Seq(StreamBytes)
    BY <1>7, <1>8, <1>15, ConcatProperties DEF StreamTyped
  <2>2. Sound(received)'
    BY <1>7, <1>8 DEF StreamTyped, Sound, StreamProofs!IndexedObject
  <2> QED
    BY <1>7, <1>8, <1>10, <1>11, <2>1, <2>2 DEF StreamTyped
<1>20. Chained(b)'
  <2>1. \A n \in 1..(last + 1) : 1 + 1 + sent'[n].payload = size[n]
    BY <1>5
  <2>2. /\ \A i \in 1..Len(b) : b[i][1] \in 1..(last + 1) /\ b[i][2] \in 1..size[b[i][1]]
        /\ \A i \in 1..(Len(b) - 1) :
             b[i + 1] = IF b[i][2] < size[b[i][1]] THEN <<b[i][1], b[i][2] + 1>>
                        ELSE <<b[i][1] + 1, 1>>
        /\ b # <<>> => b[Len(b)] = <<last + 1, size[last + 1]>>
    BY <1>17 DEF InOrder
  <2>3. /\ Len(b) \in Nat /\ \A i \in 1..(Len(b) - 1) : i \in 1..Len(b)
        /\ last + 1 \in 1..(last + 1)
    BY <1>10, <1>17
  <2>4. /\ \A i \in 1..Len(b) : b[i][2] \in 1..(1 + 1 + sent'[b[i][1]].payload)
        /\ \A i \in 1..(Len(b) - 1) :
             b[i + 1] = IF b[i][2] < 1 + 1 + sent'[b[i][1]].payload THEN <<b[i][1], b[i][2] + 1>>
                        ELSE <<b[i][1] + 1, 1>>
        /\ b # <<>> => b[Len(b)] = <<last + 1, 1 + 1 + sent'[last + 1].payload>>
    BY <2>1, <2>2, <2>3
  <2>5. b' = b
    OBVIOUS
  <2> QED
    BY <1>10, <1>17, <2>2, <2>4, Zenon
    DEF Chained, SentBytes, Stream!Size, Stream!Header, Stream!Type
<1>21. ASSUME Right(a, Left, dispatched, refused) PROVE Right(b, Left, dispatched, refused)'
  <2>1. /\ BeginsAt(a, 0) /\ HandedOn(dispatched, 1, Following(a, 0))
        /\ refused = Stream!WholeAt(Left, 0) /\ (refused => Stream!Unknown(Left, 0))
    BY <1>21 DEF Right
  <2>2. b[1][2] = 1 /\ 0 < Len(b) /\ b[1][1] = Following(a, 0)
    <3>1. CASE a = <<>>
      BY <1>1, <1>17, <3>1 DEF Following
    <3>2. CASE a # <<>>
      <4>1. 0 < Len(a) /\ 0 + 1 = 1
        BY <1>14, <3>2
      <4> QED
        BY <1>17, <2>1, <3>2, <4>1 DEF Following, BeginsAt
    <3> QED
      BY <3>1, <3>2
  <2>3. PICK f : f = Following(a, 0)
    OBVIOUS
  <2>4. f \in 1..(last + 1) /\ f \in Nat
    BY <1>1, <1>8, <2>3, FollowingIs
  <2>5. Following(b, 0)' = f /\ BeginsAt(b, 0)'
    BY <2>2, <2>3 DEF Following, BeginsAt
  <2>6. HandedOn(dispatched, 1, f)'
    <3>1. \A n \in 1..(f - 1) : sent'[n] = sent[n]
      BY <1>10, <2>4
    <3>2. Ascending(dispatched)' /\ Members(dispatched)' = Members(dispatched)
      BY <1>7, <2>1 DEF HandedOn, Ascending, Members
    <3>3. Members(dispatched) = {n \in 1..(f - 1) : sent[n].kind = "known"}
      BY <2>1, <2>3 DEF HandedOn
    <3>4. {n \in 1..(f - 1) : sent[n].kind = "known"} = {n \in 1..(f - 1) : sent'[n].kind = "known"}
      BY <3>1
    <3> QED
      BY <3>2, <3>3, <3>4 DEF HandedOn
  <2>7. Stream!WholeAt(Left, 0)' = Stream!WholeAt(Left, 0)
    <3>1. 0 < Len(Left) => Left[1][1] \in 1..last
      BY <1>1, <1>2, <1>8, FirstLeft
    <3>2. 0 < Len(Left) => sent'[Left[1][1]] = sent[Left[1][1]]
      BY <1>10, <3>1
    <3>3. 0 + 1 = 1
      OBVIOUS
    <3> QED
      BY <1>11, <3>2, <3>3, Zenon DEF Stream!WholeAt, Stream!NumberAt, Stream!Size
  <2>8. Stream!WholeAt(Left, 0) => Stream!Unknown(Left, 0)' = Stream!Unknown(Left, 0)
    <3> SUFFICES ASSUME Stream!WholeAt(Left, 0)
                 PROVE  Stream!Unknown(Left, 0)' = Stream!Unknown(Left, 0)
      OBVIOUS
    <3>1. Left[1][1] \in 1..last /\ 0 + 1 = 1
      BY <1>1, <1>2, <1>8, FirstLeft DEF Stream!WholeAt
    <3>2. sent'[Left[1][1]] = sent[Left[1][1]]
      BY <1>10, <3>1
    <3> QED
      BY <1>11, <3>1, <3>2, Zenon DEF Stream!Unknown, Stream!NumberAt
  <2>9. Following(b, 0)' = Following(a, 0)
    BY <2>3, <2>5
  <2> QED
    BY <1>7, <2>1, <2>3, <2>5, <2>6, <2>7, <2>8 DEF Right, HandedOn
<1>22. Chained(Unread)'
  BY <1>18, <1>20 DEF Chained, SentBytes
<1>23. ASSUME (~merged \/ codec = "protobuf")' PROVE Right(Unread, Left, dispatched, refused)'
  <2>1. Right(a, Left, dispatched, refused)
    BY <1>2, <1>7, <1>23 DEF StreamInv
  <2>2. Right(b, Left, dispatched, refused)'
    BY <1>21, <2>1
  <2> QED
    BY <1>18, <2>2 DEF Right, BeginsAt, Following, HandedOn
<1> QED
  BY <1>19, <1>22, <1>23 DEF StreamInv

\* A read and the loop of OnMessage: what was taken out is the beginning of what there was.
LEMMA ReadKeeps ==
  ASSUME StreamInv, NEW size \in 1..Len(stream), Stream!OnSocketRead(size)
  PROVE  StreamInv'
<1>1. PICK a : a = Unread
  OBVIOUS
<1>2. PICK new : new = SubSeq(stream, 1, size)
  OBVIOUS
<1>3. PICK buffer : buffer = AppendBytes(received, new)
  OBVIOUS
<1>4. PICK data : data = Contents(buffer)
  OBVIOUS
<1>5. PICK r : r = Reading(data, 0)
  OBVIOUS
<1>6. PICK m : m = Len(Left) + size
  OBVIOUS
<1>7. /\ StreamTyped /\ SentType /\ Chained(a) /\ Left \in Seq(StreamBytes)
      /\ stream \in Seq(StreamBytes) /\ Sound(received)
  BY <1>1 DEF StreamInv, StreamTyped
<1>8. /\ ~refused /\ dispatched' = dispatched \o r.known
      /\ received' = ReadBytes(buffer, r.end) /\ refused' = r.refused
      /\ merged' = (merged \/ \E at \in 0..Len(data) :
                      /\ Stream!WholeAt(data, at)
                      /\ at + Stream!Size(Stream!NumberAt(data, at)) < Len(data))
      /\ stream' = SubSeq(stream, size + 1, Len(stream)) /\ codec' = codec /\ sent' = sent
  <2>1. /\ ~refused /\ Stream!OnMessage(buffer)
        /\ stream' = SubSeq(stream, size + 1, Len(stream)) /\ codec' = codec /\ sent' = sent
    BY <1>2, <1>3 DEF Stream!OnSocketRead, AppendBytes
  <2>2. Stream!DB!Contents(buffer) = data /\ Stream!ReadFrom(data)[0] = r
    BY <1>4, <1>5 DEF Contents, Reading
  <2> QED
    BY <2>1, <2>2, Zenon DEF Stream!OnMessage, ReadBytes
<1>9. new \in Seq(StreamBytes)
  BY <1>2, <1>7
<1>10. Sound(buffer) /\ data = Left \o new
  BY <1>3, <1>4, <1>7, <1>9, AppendedIs DEF Left
<1>11. /\ data \in Seq(StreamBytes) /\ data = SubSeq(a, 1, m) /\ m \in 0..Len(a)
       /\ \A e \in 0..m : SubSeq(data, e + 1, m) \o stream' = SubSeq(a, e + 1, Len(a))
  BY <1>1, <1>2, <1>6, <1>7, <1>8, <1>10, CutIs DEF Unread
<1>12. /\ Len(a) \in Nat /\ m \in Nat /\ m <= Len(a) /\ SentBytes(data) /\ Len(data) = m
  <2>1. /\ Len(a) \in Nat /\ a \in Seq(StreamBytes) /\ m \in Nat /\ m <= Len(a)
        /\ \A i \in 1..Len(a) : a[i] \in StreamBytes /\ a[i][1] \in 1..Len(sent)
    BY <1>7, <1>11 DEF Chained, SentBytes
  <2>2. Len(data) = m /\ \A i \in 1..m : data[i] = a[i]
    BY <1>11, <2>1
  <2>3. \A i \in 1..Len(data) : data[i][1] \in 1..Len(sent)
    BY <2>1, <2>2
  <2> QED
    BY <1>11, <2>1, <2>2, <2>3 DEF SentBytes
<1>13. r \in Readings
  <2>1. 0 \in 0..(Len(data) + 1)
    BY <1>12
  <2> QED
    BY <1>5, <1>7, <1>12, <2>1, ReadingType
<1>14. r.known \in Seq(Stream!Numbers) /\ r.end \in Nat /\ r.refused \in BOOLEAN
  BY <1>13 DEF Readings
<1>15. PICK e : e = Stream!DB!Smaller(r.end, m)
  OBVIOUS
<1>16. PICK left : left = SubSeq(data, e + 1, m)
  OBVIOUS
<1>17. PICK rest : rest = SubSeq(a, e + 1, Len(a))
  OBVIOUS
<1>18. e \in 0..m
  BY <1>12, <1>14, <1>15, SmallerEnd
<1>19. Sound(ReadBytes(buffer, r.end)) /\ Contents(ReadBytes(buffer, r.end)) = left
  BY <1>4, <1>10, <1>12, <1>14, <1>15, <1>16, ReadOut
<1>20. left \in Seq(StreamBytes)
  BY <1>11, <1>12, <1>16, <1>18
<1>21. left \o stream' = rest
  BY <1>11, <1>16, <1>17, <1>18
<1>22. /\ Chained(rest) /\ Following(rest, 0) = Following(a, e)
       /\ BeginsAt(a, e) => BeginsAt(rest, 0)
       /\ Stream!WholeAt(left, 0) = Stream!WholeAt(data, e)
       /\ Stream!WholeAt(data, e) /\ Stream!Unknown(data, e) => Stream!Unknown(left, 0)
  <2>1. Cut(a, m, data, e, rest, left)
    BY <1>11, <1>16, <1>17, <1>18 DEF Cut
  <2> QED
    BY <1>7, <2>1, TakenOut
<1>23. Left' = left
  BY <1>8, <1>19 DEF Left, Contents, Stream!DB!Contents
<1>24. Unread' = rest
  BY <1>21, <1>23 DEF Unread
<1>25. SentType'
  BY <1>7, <1>8 DEF SentType, Stream!Kinds
<1>26. Sound(received)'
  BY <1>8, <1>19 DEF Sound, StreamProofs!IndexedObject
<1>27. dispatched \in Seq(Stream!Numbers) /\ merged \in BOOLEAN
  BY <1>7 DEF StreamTyped
<1>28. StreamTyped'
  <2>1. stream' \in Seq(StreamBytes)
    <3>1. \A i \in (size + 1)..Len(stream) : stream[i] \in StreamBytes
      BY <1>7
    <3>2. size + 1 \in Int /\ Len(stream) \in Int
      BY <1>7
    <3> QED
      BY <1>8, <3>1, <3>2, SubSeqProperties
  <2>2. dispatched' \in Seq(Stream!Numbers)
    BY <1>8, <1>14, <1>27, ConcatProperties
  <2>3. merged' \in BOOLEAN /\ refused' \in BOOLEAN
    BY <1>8, <1>14, <1>27
  <2> QED
    BY <1>20, <1>23, <1>25, <1>26, <2>1, <2>2, <2>3 DEF StreamTyped
<1>29. Chained(Unread)'
  BY <1>8, <1>22, <1>24 DEF Chained, SentBytes, Stream!Size
<1>30. ASSUME Right(a, Left, dispatched, refused), ReadTo(a, data, e, r.known, r.refused)
       PROVE  Right(rest, left, dispatched \o r.known, r.refused)
  <2>1. BeginsAt(a, 0) /\ HandedOn(dispatched, 1, Following(a, 0))
    BY <1>30 DEF Right
  <2>2. /\ BeginsAt(a, e) /\ Following(a, 0) <= Following(a, e)
        /\ HandedOn(r.known, Following(a, 0), Following(a, e))
        /\ r.refused = Stream!WholeAt(data, e)
        /\ r.refused => Stream!Unknown(data, e)
    BY <1>30 DEF ReadTo
  <2>3. /\ Following(a, 0) \in Nat /\ 1 <= Following(a, 0) /\ Following(a, e) \in Nat
    <3>1. /\ Following(a, 0) \in 1..(Len(sent) + 1) /\ Following(a, 0) \in Nat
          /\ Len(sent) \in Nat
      BY <1>7, FollowingIs
    <3>2. e \in Nat
      BY <1>12, <1>18
    <3>3. Following(a, e) \in Nat
      BY <1>7, <3>2, FollowingIs
    <3>4. 1 <= Following(a, 0)
      BY <3>1
    <3> QED
      BY <3>1, <3>3, <3>4
  <2>4. dispatched \in Seq(Nat) /\ r.known \in Seq(Nat)
    BY <1>14, <1>27, NumbersNat
  <2>5. HandedOn(dispatched \o r.known, 1, Following(a, e))
    BY <2>1, <2>2, <2>3, <2>4, HandedJoined
  <2>6. r.refused = Stream!WholeAt(left, 0) /\ (r.refused => Stream!Unknown(left, 0))
    BY <1>22, <2>2
  <2> QED
    BY <1>22, <2>2, <2>5, <2>6 DEF Right
<1>31. ASSUME (~merged \/ codec = "protobuf")' PROVE Right(Unread, Left, dispatched, refused)'
  <2>1. Right(a, Left, dispatched, refused)
    BY <1>1, <1>8, <1>31 DEF StreamInv
  <2>2. BeginsAt(a, 0)
    BY <2>1 DEF Right
  <2>3. ReadTo(a, data, e, r.known, r.refused)
    <3>1. CASE codec = "protobuf"
      BY <1>5, <1>7, <1>11, <1>15, <2>2, <3>1, ProtobufReads
    <3>2. CASE codec # "protobuf"
      <4>1. codec = "gateway"
        BY <1>7, <3>2 DEF SentType
      <4>2. \A at \in 0..m : ~(/\ Stream!WholeAt(data, at)
                               /\ at + Stream!Size(Stream!NumberAt(data, at)) < m)
        BY <1>8, <1>12, <1>31, <3>2
      <4> QED
        BY <1>5, <1>7, <1>11, <1>15, <2>2, <4>1, <4>2, GatewayReads
    <3> QED
      BY <3>1, <3>2
  <2>4. PICK known : known = dispatched \o r.known
    OBVIOUS
  <2>5. PICK f : f = r.refused
    OBVIOUS
  <2>6. Right(rest, left, known, f)
    BY <1>30, <2>1, <2>3, <2>4, <2>5
  <2>7. Right(rest, left, known, f)'
    BY <1>8, <2>6 DEF Right, BeginsAt, Following, HandedOn, Ascending, Members,
       Stream!WholeAt, Stream!Unknown, Stream!NumberAt, Stream!Size
  <2>8. Unread' = rest /\ Left' = left /\ dispatched' = known /\ refused' = f
    BY <1>8, <1>23, <1>24, <2>4, <2>5
  <2> QED
    BY <2>7, <2>8 DEF Right, BeginsAt, Following, HandedOn, Ascending, Members,
       Stream!WholeAt, Stream!Unknown, Stream!NumberAt, Stream!Size
<1> QED
  BY <1>28, <1>29, <1>31 DEF StreamInv

\* What the buffer holds are bytes, and its vector and indexes have their types.
LEMMA StreamTypes == StreamInv => Stream!FramingType
<1> SUFFICES ASSUME StreamInv PROVE Stream!FramingType
  OBVIOUS
<1>1. StreamTyped /\ SentType
  BY DEF StreamInv, StreamTyped
<1>2. received \in Stream!DB!BufferType
  <2>1. received \in StreamProofs!BufferType
    BY <1>1 DEF StreamTyped, Sound, StreamProofs!IndexedObject
  <2> QED
    BY <2>1 DEF StreamProofs!BufferType, Stream!DB!BufferType, StreamBytes
<1> QED
  BY <1>1, <1>2, Zenon DEF StreamTyped, SentType, StreamBytes, Stream!FramingType

\* The invariant has what FramesKept says of the state between two calls.
LEMMA FramesKeptBy == StreamInv => Stream!FramesKept
<1> SUFFICES ASSUME StreamInv, ~merged \/ codec = "protobuf" PROVE Stream!FramesKept
  BY DEF Stream!FramesKept
<1> DEFINE first == IF Left # <<>> THEN Left[1][1]
                    ELSE IF stream # <<>> THEN stream[1][1] ELSE Len(sent) + 1
<1>1. /\ StreamTyped /\ Chained(Unread) /\ BeginsAt(Unread, 0)
      /\ HandedOn(dispatched, 1, Following(Unread, 0))
      /\ refused = Stream!WholeAt(Left, 0)
      /\ refused => Stream!Unknown(Left, 0)
  BY DEF StreamInv, Right
<1>2. Left \in Seq(StreamBytes) /\ stream \in Seq(StreamBytes) /\ refused \in BOOLEAN
  BY <1>1 DEF StreamTyped
<1>3. first = Following(Unread, 0) /\ (Left # <<>> => Left[1][2] = 1)
  <2>1. CASE Left # <<>>
    <3>1. 0 < Len(Left) /\ 0 + 1 = 1
      BY <1>2, <2>1
    <3>2. Left[1] = Unread[1] /\ 0 < Len(Unread)
      BY <1>1, <3>1, FirstLeft
    <3> QED
      BY <1>1, <2>1, <3>1, <3>2 DEF Following, BeginsAt
  <2>2. CASE Left = <<>>
    <3>1. Unread = stream
      BY <1>2, <2>2, ConcatEmptySeq DEF Unread
    <3>2. (0 < Len(stream)) = (stream # <<>>) /\ 0 + 1 = 1
      BY <1>2
    <3> QED
      BY <2>2, <3>1, <3>2, Zenon DEF Following
  <2> QED
    BY <2>1, <2>2
<1> HIDE DEF first
<1>4. /\ \A i, j \in DOMAIN dispatched : i < j => dispatched[i] < dispatched[j]
      /\ {dispatched[i] : i \in DOMAIN dispatched} = {n \in 1..(first - 1) : sent[n].kind = "known"}
  BY <1>1, <1>3, Zenon DEF HandedOn, Ascending, Members
<1>5. /\ refused <=> Stream!WholeAt(Left, 0) /\ Stream!Unknown(Left, 0)
      /\ ~refused => ~Stream!WholeAt(Left, 0)
  BY <1>1, <1>2
<1>6. Stream!DB!Contents(received) = Left
  BY DEF Left, Contents
<1> QED
  BY <1>3, <1>4, <1>5, <1>6, Zenon DEF Stream!FramesKept, first


-----------------------------------------------------------------------------
(* The network layer: its parts stand still while another one runs. *)

\* The objects MCNetwork has are the ones DynamicBufferProofs is about.
LEMMA SameObjects ==
  /\ Buffer!Init => BufferProofs!Init
  /\ Buffer!Next => BufferProofs!Next
  /\ BufferProofs!BufferConstants /\ BufferProofs!SameSizes
<1>1. Buffer!Init => BufferProofs!Init
  BY DEF Buffer!Init, BufferProofs!Init, Buffer!New, BufferProofs!New
<1>2. Buffer!Next => BufferProofs!Next
  BY DEF Buffer!Next, BufferProofs!Next, Buffer!AppendTo, BufferProofs!AppendTo,
     Buffer!Receive, BufferProofs!Receive, Buffer!Consume, BufferProofs!Consume,
     Buffer!Reduce, BufferProofs!Reduce, Buffer!Swap, BufferProofs!Swap, Buffer!Added,
     BufferProofs!Added, Buffer!AppendBytes, BufferProofs!AppendBytes,
     Buffer!ReserveWritableBytes, BufferProofs!ReserveWritableBytes, Buffer!Moved,
     BufferProofs!Moved, Buffer!Contents, BufferProofs!Contents, Buffer!CapacityBytes,
     BufferProofs!CapacityBytes, Buffer!ReadableBytes, BufferProofs!ReadableBytes,
     Buffer!WritableBytes, BufferProofs!WritableBytes, Buffer!Put, BufferProofs!Put,
     Buffer!WrittenBytes, BufferProofs!WrittenBytes, Buffer!ReadBytes,
     BufferProofs!ReadBytes, Buffer!KeptMultiple, BufferProofs!KeptMultiple,
     Buffer!ReducedSize, BufferProofs!ReducedSize, Buffer!SwapWith, BufferProofs!SwapWith,
     Buffer!Smaller, BufferProofs!Smaller, Buffer!Chunks, BufferProofs!Chunks,
     Buffer!BoundedSeq, BufferProofs!BoundedSeq, Buffer!SeqOf, BufferProofs!SeqOf
<1>3. BufferProofs!BufferConstants
  BY NetworkAssumption DEF Buffer!BufferConstants, BufferProofs!BufferConstants
<1>4. BufferProofs!SameSizes
  BY DEF BufferProofs!SameSizes, EqualSizes
<1> QED
  BY <1>1, <1>2, <1>3, <1>4

BInv == BufferProofs!IInv /\ BufferProofs!SizesKept

\* The buffers keep their invariant, whichever part runs.
LEMMA BInvStep == BInv /\ [NetNext]_netVars => BInv'
<1> SUFFICES ASSUME BInv, [NetNext]_netVars PROVE BInv'
  OBVIOUS
<1>1. [BufferProofs!Next]_<<buf, queue, overrun>>
  BY SameObjects DEF NetNext, netVars, bufferVars
<1>2. BufferProofs!IInv' /\ (BufferProofs!SizesKept => BufferProofs!SizesKept')
  BY <1>1, SameObjects, BufferProofs!BufferStep DEF BInv, BufferProofs!vars
<1> QED
  BY <1>2, SameObjects DEF BInv

\* The invariant has what BuffersKept says.
LEMMA BuffersKeptBy == BInv => BuffersKept
<1> SUFFICES ASSUME BInv PROVE BuffersKept
  OBVIOUS
<1>1. BufferProofs!Indexed /\ BufferProofs!ContentsKept /\ BufferProofs!ReducedSafely
  BY DEF BInv, BufferProofs!IInv
<1>2. BufferProofs!Sized
  BY DEF BInv, BufferProofs!SizesKept, BufferProofs!SizedObject, BufferProofs!Sized
<1> QED
  BY <1>1, <1>2
  DEF BuffersKept, Buffer!Indexed, BufferProofs!Indexed, Buffer!ContentsKept,
     BufferProofs!ContentsKept, Buffer!Sized, BufferProofs!Sized, Buffer!BufferType,
     BufferProofs!BufferType, Buffer!CapacityBytes, BufferProofs!CapacityBytes,
     Buffer!Contents, BufferProofs!Contents, Buffer!ReducedSafely, BufferProofs!ReducedSafely,
     Buffer!ReadableBytes, BufferProofs!ReadableBytes

\* In the network layer too, reading a DynamicBuffer gives what was added, it grows
\* and shrinks in steps, and shrinking writes behind its vector only when more is
\* unread than init_size_ (AppendBytes, ReadBytes, ReduceWritableBytes, Swap).
THEOREM BuffersKeptCorrect == NetSpec => []BuffersKept
<1>1. NetInit => BInv
  BY SameObjects, BufferProofs!BufferInit DEF NetInit, BInv
<1> QED
  BY <1>1, BInvStep, BuffersKeptBy, PTL DEF NetSpec

\* And its descriptors, connections and retry timers stay matched, as they do when
\* TcpSocketApp runs alone.
THEOREM NetworkSocketsCorrect == NetSpec => [](NothingLeaks /\ TimersMatch)
<1>1. NetInit => IInv
  BY IInvInit DEF NetInit
<1>2. IInv /\ [NetNext]_netVars => IInv'
  <2>1. [NetNext]_netVars => [Next]_vars
    BY DEF NetNext, netVars
  <2> QED
    BY <2>1, IInvStep
<1>3. IInv => NothingLeaks /\ TimersMatch
  BY DEF IInv
<1> QED
  BY <1>1, <1>2, <1>3, PTL DEF NetSpec

\* The stream stands still while another part of the network layer runs.
LEMMA StreamStep == StreamInv /\ [NetNext]_netVars => StreamInv'
<1> SUFFICES ASSUME StreamInv, [NetNext]_netVars PROVE StreamInv'
  OBVIOUS
<1>1. Stream!Next \/ UNCHANGED streamVars
  BY DEF NetNext, netVars
<1>2. ASSUME NEW payload \in 0..MaxPayload, NEW kind \in Stream!Kinds,
             Stream!SendMessage(payload, kind)
      PROVE  StreamInv'
  BY <1>2, SendKeeps
<1>3. ASSUME NEW size \in 1..Len(stream), Stream!OnSocketRead(size)
      PROVE  StreamInv'
  BY <1>3, ReadKeeps
<1>4. CASE UNCHANGED streamVars
  <2>1. /\ codec' = codec /\ sent' = sent /\ stream' = stream /\ received' = received
        /\ dispatched' = dispatched /\ merged' = merged /\ refused' = refused
    BY <1>4 DEF streamVars
  <2>2. Left' = Left /\ Unread' = Unread
    BY <2>1 DEF Left, Unread, Contents, Stream!DB!Contents
  <2>3. StreamTyped'
    BY <2>1, <2>2 DEF StreamInv, StreamTyped, SentType, Sound, StreamProofs!IndexedObject,
       Stream!Kinds
  <2>4. PICK a : a = Unread
    OBVIOUS
  <2>5. Chained(Unread)'
    <3>1. Chained(a)
      BY <2>4 DEF StreamInv
    <3> QED
      BY <2>1, <2>2, <2>4, <3>1, Zenon DEF Chained, SentBytes, Stream!Size
  <2>6. Right(Unread, Left, dispatched, refused)' = Right(Unread, Left, dispatched, refused)
    <3>1. BeginsAt(Unread, 0)' = BeginsAt(Unread, 0)
      BY <2>2, Zenon DEF BeginsAt
    <3>2. Following(Unread, 0)' = Following(Unread, 0)
      BY <2>1, <2>2, Zenon DEF Following
    <3>3. /\ Stream!WholeAt(Left, 0)' = Stream!WholeAt(Left, 0)
          /\ Stream!Unknown(Left, 0)' = Stream!Unknown(Left, 0)
      BY <2>1, <2>2, Zenon DEF Stream!WholeAt, Stream!Unknown, Stream!NumberAt, Stream!Size
    <3>4. PICK f : f = Following(Unread, 0)
      OBVIOUS
    <3>5. HandedOn(dispatched, 1, f)' = HandedOn(dispatched, 1, f)
      BY <2>1, Zenon DEF HandedOn, Ascending, Members
    <3>6. HandedOn(dispatched, 1, Following(Unread, 0))'
            = HandedOn(dispatched, 1, Following(Unread, 0))
      BY <3>2, <3>4, <3>5, Zenon DEF HandedOn
    <3> QED
      BY <2>1, <3>1, <3>3, <3>6, Zenon DEF Right
  <2> QED
    BY <2>1, <2>3, <2>5, <2>6, Zenon DEF StreamInv
<1> QED
  BY <1>1, <1>2, <1>3, <1>4 DEF Stream!Next

\* However the network cuts the stream, the messages that have arrived whole are handed
\* on once each and in order, and what is left begins the next (ProtobufCodec::OnMessage;
\* Codec::OnMessage while no call finds bytes behind a message).
THEOREM FramesKeptCorrect == NetSpec => []FramesKept
<1>1. NetInit => StreamInv
  BY StreamInit DEF NetInit
<1>2. StreamInv => FramesKept
  BY StreamTypes, FramesKeptBy DEF FramesKept
<1> QED
  BY <1>1, <1>2, StreamStep, PTL DEF NetSpec

=============================================================================
