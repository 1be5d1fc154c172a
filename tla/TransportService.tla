-------------------------- MODULE TransportService --------------------------
(***************************************************************************)
(* mysya/qservice/tcp_service.cc and transport_agent.cc: sockets that are  *)
(* handled by the loops of several network threads and announced to one    *)
(* application loop.                                                       *)
(*                                                                         *)
(* There is an agent for each network loop.  Control travels between the   *)
(* loops as wakeup callbacks (EventLoop: each runs once, in order), data   *)
(* through the agent's two MessageQueues (FIFO).  A handler is one step,   *)
(* except that AddTcpSocket attaches a socket to another thread's loop     *)
(* before it has told the application.                                     *)
(*                                                                         *)
(* How the two ways are ordered depends on the turns of the application    *)
(* loop.  In a turn the timers come first, and with them the receive       *)
(* queues: a queue is read, and then its two buffers are exchanged.  The   *)
(* wakeup callbacks come last, all that there are by then.  A timer that   *)
(* is started in a turn does not expire in it: the loop's timestamp stands *)
(* still, and a queue's timer takes a millisecond at least (an interval    *)
(* that is 0 modulo 2^32 ms is left out).  Messages are not empty.         *)
(*                                                                         *)
(* next_agent_ is read and advanced by several threads without a lock, so  *)
(* any agent may be allocated.  CloseTcpSocket removes a channel only if   *)
(* it is not in channels_: for the sockets it is called for it does        *)
(* nothing, and descriptors come back only from attempts that failed.      *)
(***************************************************************************)
EXTENDS Integers, Sequences, FiniteSets

CONSTANTS Agents,     \* the network loops
          ListenAgent, \* the one that Listen() was allocated
          Fds,        \* descriptors beside the listener's
          MaxOpen,    \* bound on connections and attempts
          MaxData     \* bound on the messages of peers and of the application

ASSUME ServiceAssumption ==
  /\ ListenAgent \in Agents /\ IsFiniteSet(Agents) /\ IsFiniteSet(Fds)
  /\ MaxOpen \in Nat /\ MaxData \in Nat

VARIABLES
  sock,       \* the TcpSocket of each descriptor
  home,       \* the agent that has it
  builder,    \* history: the loop that attached it
  channels,   \* channels_ of each agent
  timers,     \* async_connect_timer_sockets_ and _socket_timers_: who is timed
  listener,   \* the listening socket
  announcing, \* what a network loop has still to push for the socket it attached
  netCalls,   \* wakeup callbacks of each network loop
  appCalls,   \* wakeup callbacks of the application loop
  receiveQ,   \* receive_queue_ of each agent: descriptors
  handed,     \* how many of them are in the buffer that is read next
  sendQ,      \* send_queue_ of each agent
  expired,    \* agents whose receive_queue_ was read in this turn
  early,      \* history: receive_cb_ was called before connect_cb_
  unsent,     \* the write buffers that hold something
  told,       \* the descriptors connect_cb_ was called for
  attempts,   \* AsyncConnect() calls that returned the descriptor
  answers,    \* and the notices that named it
  kernel,     \* the connection as the kernel has it
  edges,      \* readiness epoll has not yet handed out
  unread,     \* bytes of the peer wait
  backlog,    \* connections waiting to be accepted
  opened, data \* bounded counters

objects == <<sock, home, builder, channels, timers, unsent>>
calls == <<netCalls, appCalls, announcing>>
queues == <<receiveQ, sendQ>>
turn == <<handed, expired, early>>
app == <<told, attempts, answers, handed, expired, early>>
network == <<kernel, edges, unread, backlog, opened, data>>
vars == <<objects, listener, calls, queues, app, network>>

Notices == {"connected", "asyncConnected", "asyncError", "closed", "error"}
Call(kind, fd) == [kind |-> kind, fd |-> fd]
AppCalls == [kind : Notices, fd : Fds] \union [kind : {"listened", "listenError"}, fd : {0}]
NetCalls == [kind : {"asyncConnect"}, fd : Fds] \union [kind : {"listen", "listened"}, fd : {0}]

\* Every variable keeps its type, and a descriptor is open exactly as long as a
\* TcpSocket has it: what an attempt or an accepted connection that fails had
\* opened is closed.
TypeOK ==
  /\ \A fd \in Fds : sock[fd] = "none" <=> kernel[fd] = "free"
  /\ sock \in [Fds -> {"none", "opened", "connecting", "attached"}]
  /\ home \in [Fds -> Agents] /\ builder \in [Fds -> Agents]
  /\ channels \in [Agents -> SUBSET Fds] /\ timers \in [Agents -> SUBSET Fds]
  /\ listener \in {"none", "opened", "listening", "deleted"}
  /\ announcing \in [Agents -> Seq(AppCalls)]
  /\ netCalls \in [Agents -> Seq(NetCalls)]
  /\ appCalls \in Seq(AppCalls)
  /\ receiveQ \in [Agents -> Seq(Fds)] /\ sendQ \in [Agents -> Seq(Fds)]
  /\ unsent \subseteq Fds
  /\ told \subseteq Fds
  /\ attempts \in [Fds -> 0..MaxOpen] /\ answers \in [Fds -> Nat]
  /\ kernel \in [Fds -> {"free", "syn", "up", "closed", "broken"}]
  /\ edges \in [Fds -> SUBSET {"in", "out", "err"}]
  /\ unread \in [Fds -> BOOLEAN]
  /\ handed \in [Agents -> Nat]
  /\ expired \subseteq Agents /\ early \subseteq Fds
  /\ opened \in 0..MaxOpen /\ data \in 0..MaxData /\ backlog \in 0..MaxOpen

Init ==
  /\ sock = [fd \in Fds |-> "none"]
  /\ home = [fd \in Fds |-> ListenAgent] /\ builder = home
  /\ channels = [a \in Agents |-> {}] /\ timers = channels
  /\ listener = "none"
  /\ announcing = [a \in Agents |-> <<>>]
  /\ netCalls = announcing /\ receiveQ = announcing /\ sendQ = announcing
  /\ appCalls = <<>>
  /\ unsent = {}
  /\ told = {}
  /\ attempts = [fd \in Fds |-> 0] /\ answers = attempts
  /\ kernel = [fd \in Fds |-> "free"]
  /\ edges = [fd \in Fds |-> {}]
  /\ unread = [fd \in Fds |-> FALSE]
  /\ handed = [a \in Agents |-> 0]
  /\ expired = {} /\ early = {}
  /\ backlog = 0 /\ opened = 0 /\ data = 0

Push(call) == appCalls' = Append(appCalls, call)
PushNet(a, call) == netCalls' = [netCalls EXCEPT ![a] = Append(@, call)]

\* The loop of agent a can begin its next handler.
Ready(a) == announcing[a] = <<>>

\* What epoll reports anew of a socket that is attached.  That a connection can
\* be written is left out: nothing is done about it unless something is unsent.
Readiness(state, bytes) ==
  (IF bytes \/ state \in {"closed", "broken"} THEN {"in"} ELSE {})
    \union (IF state = "broken" THEN {"out", "err"} ELSE {})

\* delete of a TcpSocket: its descriptor is free again.
Delete(fd) ==
  /\ sock' = [sock EXCEPT ![fd] = "none"]
  /\ kernel' = [kernel EXCEPT ![fd] = "free"]
  /\ edges' = [edges EXCEPT ![fd] = {}]
  /\ unread' = [unread EXCEPT ![fd] = FALSE]

-----------------------------------------------------------------------------
(* The application loop *)

Listen ==
  /\ listener = "none"
  /\ listener' = "opened"
  /\ PushNet(ListenAgent, Call("listen", 0))
  /\ UNCHANGED <<objects, appCalls, announcing, queues, app, network>>

\* The socket is connecting before the network loop hears of it.
AsyncConnect(fd, a) ==
  /\ kernel[fd] = "free" /\ opened < MaxOpen
  /\ kernel' = [kernel EXCEPT ![fd] = "syn"]
  /\ sock' = [sock EXCEPT ![fd] = "opened"]
  /\ home' = [home EXCEPT ![fd] = a]
  /\ PushNet(a, Call("asyncConnect", fd))
  /\ attempts' = [attempts EXCEPT ![fd] = @ + 1]
  /\ opened' = opened + 1
  /\ UNCHANGED <<builder, channels, timers, unsent, listener, appCalls, announcing, queues, told,
                 answers, turn, edges, unread, backlog, data>>

\* connect_cb_ names the agent that has the socket, async_connected_cb_ the one
\* that was asked to connect.
SendMessage(fd, a) ==
  /\ fd \in told /\ data < MaxData
  /\ a = home[fd] \/ (answers[fd] > 0 /\ a = builder[fd])
  /\ sendQ' = [sendQ EXCEPT ![a] = Append(@, fd)]
  /\ data' = data + 1
  /\ UNCHANGED <<objects, listener, calls, receiveQ, app, kernel, edges, unread, backlog, opened>>

Answers(fd) == {Call("asyncConnected", fd), Call("asyncError", fd)}

\* Answers on their way to the application.
Pending(fd, seq) == Cardinality({i \in DOMAIN seq : seq[i] \in Answers(fd)})

In(call, seq) == \E i \in DOMAIN seq : seq[i] = call

\* Of the callbacks OnHandleConnected and the like call, what connect_cb_ and the two
\* that answer attempts were called for is kept.
OnHandleConnected == told' = told \union {fd \in Fds : In(Call("connected", fd), appCalls)}
OnHandleAnswers == answers' = [fd \in Fds |-> answers[fd] + Pending(fd, appCalls)]

\* A turn of the loop ends with the wakeup callbacks that there are by now, in order;
\* what the application does in them comes after them.
DoWakeupCallback ==
  /\ appCalls # <<>> \/ expired # {}
  /\ appCalls' = <<>>
  /\ expired' = {}
  /\ OnHandleConnected /\ OnHandleAnswers
  /\ UNCHANGED <<objects, listener, netCalls, announcing, queues, attempts, handed, early, network>>

\* receive_cb_ is called for descriptors.
OnReceiveQueueReady(S) == early' = early \union (S \ told)

\* The timer of an agent's receive_queue_, in a turn in which it has not expired.
Expires(a) ==
  /\ a \notin expired
  /\ receiveQ[a] # <<>>
  /\ expired' = expired \union {a}
  /\ UNCHANGED <<objects, listener, calls, sendQ, told, attempts, answers, network>>

\* Mutant of OnExporedPendingRead: the buffers are exchanged before one is read.
ExchangeThenRead(a) ==
  /\ Expires(a)
  /\ OnReceiveQueueReady({receiveQ[a][i] : i \in 1..Len(receiveQ[a])})
  /\ receiveQ' = [receiveQ EXCEPT ![a] = <<>>]
  /\ handed' = [handed EXCEPT ![a] = 0]

\* One buffer is read, then the other one is handed over.
OnExporedPendingRead(a) ==
  /\ Expires(a)
  /\ OnReceiveQueueReady({receiveQ[a][i] : i \in 1..handed[a]})
  /\ receiveQ' = [receiveQ EXCEPT ![a] = SubSeq(@, handed[a] + 1, Len(@))]
  /\ handed' = [handed EXCEPT ![a] = Len(receiveQ[a]) - @]

-----------------------------------------------------------------------------
(* A network loop: attaching *)

\* The socket is in agent b's loop, then a's loop tells the application.
AddTcpSocket(a, b, fd, notices) ==
  /\ fd \notin channels[b]
  /\ sock' = [sock EXCEPT ![fd] = "attached"]
  /\ home' = [home EXCEPT ![fd] = b]
  /\ builder' = [builder EXCEPT ![fd] = a]
  /\ channels' = [channels EXCEPT ![b] = @ \union {fd}]
  /\ edges' = [edges EXCEPT ![fd] = Readiness(kernel'[fd], unread[fd])]
  /\ announcing' = [announcing EXCEPT ![a] = notices]

\* It fails on a descriptor that is in channels_, or to attach: what it has put
\* into channels_ by then stays there.  Or a socket option could not be set.
AddFails(b, fd) == channels' \in {channels, [channels EXCEPT ![b] = @ \union {fd}]}

Announce(a) ==
  /\ announcing[a] # <<>>
  /\ Push(Head(announcing[a]))
  /\ announcing' = [announcing EXCEPT ![a] = Tail(@)]
  /\ UNCHANGED <<objects, listener, netCalls, queues, app, network>>

OnListenRead(a, b, fd) ==
  /\ Ready(a) /\ a = ListenAgent /\ listener = "listening"
  /\ backlog > 0 /\ kernel[fd] = "free"
  /\ backlog' = backlog - 1
  /\ \/ /\ kernel' = [kernel EXCEPT ![fd] = "up"]
        /\ AddTcpSocket(a, b, fd, <<Call("connected", fd)>>)
        /\ UNCHANGED unread
     \/ AddFails(b, fd) /\ Delete(fd) /\ UNCHANGED <<home, builder, announcing>>
  /\ UNCHANGED <<timers, unsent, listener, netCalls, appCalls, queues, app, opened, data>>

\* The application is told "listened" of a listener that has failed.
OnListenError ==
  /\ Ready(ListenAgent) /\ listener = "listening"
  /\ listener' = "deleted"
  /\ Push(Call("listened", 0))
  /\ UNCHANGED <<objects, netCalls, announcing, queues, app, network>>

-----------------------------------------------------------------------------
(* A network loop: wakeup callbacks *)

Called(a, kind) ==
  /\ Ready(a)
  /\ netCalls[a] # <<>> /\ Head(netCalls[a]).kind = kind

Done(a) == netCalls' = [netCalls EXCEPT ![a] = Tail(@)]

\* The listener is attached to the agent's loop; that it is listening is pushed to
\* that loop again, not to the application's.
BuildListenSocket(a) ==
  /\ listener' = "listening"
  /\ netCalls' = [netCalls EXCEPT ![a] = Append(Tail(@), Call("listened", 0))]

OnHandleListen(a) ==
  /\ Called(a, "listen")
  /\ \/ BuildListenSocket(a) /\ UNCHANGED appCalls
     \/ listener' = "deleted" /\ Push(Call("listenError", 0)) /\ Done(a)
  /\ UNCHANGED <<objects, announcing, queues, app, network>>

OnHandleListened(a) ==
  /\ Called(a, "listened")
  /\ Done(a)
  /\ UNCHANGED <<objects, listener, appCalls, announcing, queues, app, network>>

\* The socket gets its handlers and its timer, or is deleted.
OnHandleAsyncConnect(a) ==
  /\ Called(a, "asyncConnect")
  /\ Done(a)
  /\ LET fd == Head(netCalls[a]).fd
     IN \/ /\ sock' = [sock EXCEPT ![fd] = "connecting"]
           /\ timers' = [timers EXCEPT ![a] = @ \union {fd}]
           /\ edges' = [edges EXCEPT ![fd] = (Readiness(kernel[fd], FALSE) \ {"in"})
                                       \union IF kernel[fd] = "up" THEN {"out"} ELSE {}]
           /\ UNCHANGED <<appCalls, kernel, unread>>
        \/ /\ Delete(fd)
           /\ Push(Call("asyncError", fd))
           /\ UNCHANGED timers
  /\ UNCHANGED <<home, builder, channels, unsent, listener, announcing, queues, app, backlog,
                 opened, data>>

-----------------------------------------------------------------------------
(* A network loop: attempts to connect *)

Event(a, fd, state, event) ==
  /\ Ready(a) /\ home[fd] = a /\ sock[fd] = state
  /\ event \in edges[fd]
  /\ event = "err" => edges[fd] = {"err"}

\* Mutant of RemoveAsyncConnectSocketTimer: the timer is left running.
RemoveAsyncConnectSocketTimerNot(a, fd) == UNCHANGED timers

RemoveAsyncConnectSocketTimer(a, fd) == timers' = [timers EXCEPT ![a] = @ \ {fd}]

\* Whatever came of the attempt, the socket can be written: it is built like an
\* accepted one.
OnAsyncConnectSocketWrite(a, b, fd) ==
  /\ Event(a, fd, "connecting", "out")
  /\ RemoveAsyncConnectSocketTimer(a, fd)
  /\ \/ /\ UNCHANGED <<appCalls, kernel, unread>>
        /\ AddTcpSocket(a, b, fd, <<Call("connected", fd), Call("asyncConnected", fd)>>)
     \/ /\ AddFails(b, fd) /\ Delete(fd)
        /\ Push(Call("asyncError", fd))
        /\ UNCHANGED <<home, builder, announcing>>
  /\ UNCHANGED <<unsent, listener, netCalls, queues, app, backlog, opened, data>>

OnAsyncConnectError(a, fd) ==
  /\ Event(a, fd, "connecting", "err")
  /\ Delete(fd)
  /\ RemoveAsyncConnectSocketTimer(a, fd)
  /\ Push(Call("asyncError", fd))
  /\ UNCHANGED <<home, builder, channels, unsent, listener, netCalls, announcing, queues, app,
                 backlog, opened, data>>

\* Mutant of OnAsyncConnectTimeout: nobody is told.
OnAsyncConnectTimeoutSilent(a, fd) ==
  /\ Ready(a) /\ fd \in timers[a]
  /\ timers' = [timers EXCEPT ![a] = @ \ {fd}]
  /\ Delete(fd)
  /\ UNCHANGED <<home, builder, channels, unsent, listener, calls, queues, app, backlog, opened,
                 data>>

OnAsyncConnectTimeout(a, fd) ==
  /\ Ready(a) /\ fd \in timers[a]
  /\ timers' = [timers EXCEPT ![a] = @ \ {fd}]
  /\ Delete(fd)
  /\ Push(Call("asyncError", fd))
  /\ UNCHANGED <<home, builder, channels, unsent, listener, netCalls, announcing, queues, app,
                 backlog, opened, data>>

-----------------------------------------------------------------------------
(* A network loop: connections *)

\* RemoveTcpSocket finds the channel, and leaves it.
CloseTcpSocket(fd) == fd \in channels[home[fd]] /\ UNCHANGED objects

TakeEdge(fd, event) == edges' = [edges EXCEPT ![fd] = @ \ {event}]

\* receive_decode_cb_ passes a whole message on; nothing to read is a close, and
\* a connection that breaks before it is read is an error.
OnSocketRead(a, fd) ==
  /\ Event(a, fd, "attached", "in")
  /\ TakeEdge(fd, "in")
  /\ IF unread[fd]
     THEN /\ unread' = [unread EXCEPT ![fd] = FALSE]
          /\ receiveQ' = [receiveQ EXCEPT ![a] = Append(@, fd)]
          /\ UNCHANGED <<objects, appCalls>>
     ELSE /\ \/ Push(Call("closed", fd))
             \/ kernel[fd] = "broken" /\ Push(Call("error", fd))
          /\ CloseTcpSocket(fd)
          /\ UNCHANGED <<unread, receiveQ>>
  /\ UNCHANGED <<listener, netCalls, announcing, sendQ, app, kernel, backlog, opened, data>>

\* Writing what waits empties the buffer, or fails.
OnSocketWrite(a, fd) ==
  /\ Ready(a) /\ home[fd] = a /\ sock[fd] = "attached"
  /\ "out" \in edges[fd] \/ (kernel[fd] # "broken" /\ fd \in unsent)
  /\ TakeEdge(fd, "out")
  /\ \/ /\ kernel[fd] # "broken"
        /\ unsent' = unsent \ {fd}
        /\ UNCHANGED <<sock, home, builder, channels, timers, appCalls>>
     \/ /\ kernel[fd] = "broken"
        /\ Push(Call("error", fd))
        /\ CloseTcpSocket(fd)
  /\ UNCHANGED <<listener, netCalls, announcing, queues, app, kernel, unread, backlog, opened, data>>

OnSocketError(a, fd) ==
  /\ Event(a, fd, "attached", "err")
  /\ TakeEdge(fd, "err")
  /\ Push(Call("error", fd))
  /\ CloseTcpSocket(fd)
  /\ UNCHANGED <<listener, netCalls, announcing, queues, app, kernel, unread, backlog, opened, data>>

\* TransportChannel::SendMessage: behind what waits already, or written as far as
\* it goes, and the rest kept for OnSocketWrite; or lost with an error.
ChannelSends(fd) == unsent' \in {unsent, unsent \union {fd}}

\* channels_ has an entry, but AddTcpSocket failed and has freed the channel: lost, or
\* sent by whatever channel has the memory now.
FreedChannelSends == UNCHANGED unsent \/ \E fd \in Fds : sock[fd] = "attached" /\ ChannelSends(fd)

\* A message of the application, for the channel of its descriptor if the agent
\* has one; nobody hears of an error.
OnSendQueueReady(a) ==
  /\ Ready(a) /\ sendQ[a] # <<>>
  /\ sendQ' = [sendQ EXCEPT ![a] = Tail(@)]
  /\ LET fd == Head(sendQ[a])
     IN \/ fd \notin channels[a] /\ UNCHANGED unsent
        \/ fd \in channels[a] /\ IF sock[fd] = "attached" /\ home[fd] = a
                                 THEN ChannelSends(fd) ELSE FreedChannelSends
  /\ UNCHANGED <<sock, home, builder, channels, timers, listener, calls, receiveQ, app, network>>

-----------------------------------------------------------------------------
(* The kernel and the peers *)

\* An edge, if epoll knows the socket.
Edge(fd, S) ==
  edges' = [edges EXCEPT ![fd] =
              CASE sock[fd] = "attached" -> @ \union S
                [] sock[fd] = "connecting" -> @ \union (S \ {"in"})
                [] OTHER -> @]

PeerConnects ==
  /\ listener = "listening" /\ opened < MaxOpen
  /\ backlog' = backlog + 1 /\ opened' = opened + 1
  /\ UNCHANGED <<objects, listener, calls, queues, app, kernel, edges, unread, data>>

\* The kernel may report a failure just before it makes the socket writable.
PeerAnswers(fd) ==
  /\ kernel[fd] = "syn"
  /\ \/ kernel' = [kernel EXCEPT ![fd] = "up"] /\ Edge(fd, {"out"})
     \/ /\ kernel' = [kernel EXCEPT ![fd] = "broken"]
        /\ Edge(fd, {"in", "out", "err"}) \/ Edge(fd, {"err"})
  /\ UNCHANGED <<objects, listener, calls, queues, app, unread, backlog, opened, data>>

PeerSends(fd) ==
  /\ kernel[fd] = "up" /\ data < MaxData
  /\ unread' = [unread EXCEPT ![fd] = TRUE]
  /\ data' = data + 1
  /\ Edge(fd, {"in"})
  /\ UNCHANGED <<objects, listener, calls, queues, app, kernel, backlog, opened>>

PeerCloses(fd) ==
  /\ kernel[fd] = "up"
  /\ kernel' = [kernel EXCEPT ![fd] = "closed"]
  /\ Edge(fd, {"in"})
  /\ UNCHANGED <<objects, listener, calls, queues, app, unread, backlog, opened, data>>

PeerBreaks(fd) ==
  /\ kernel[fd] \in {"up", "closed"}
  /\ kernel' = [kernel EXCEPT ![fd] = "broken"]
  /\ unread' = [unread EXCEPT ![fd] = FALSE]
  /\ Edge(fd, {"in", "out", "err"})
  /\ UNCHANGED <<objects, listener, calls, queues, app, backlog, opened, data>>

-----------------------------------------------------------------------------
AppStep == DoWakeupCallback \/ \E a \in Agents : OnExporedPendingRead(a)

NetworkStep(a) ==
  \/ Announce(a) \/ OnHandleListen(a) \/ OnHandleListened(a) \/ OnHandleAsyncConnect(a)
  \/ OnSendQueueReady(a)
  \/ \E fd \in Fds :
       \/ \E b \in Agents : OnListenRead(a, b, fd) \/ OnAsyncConnectSocketWrite(a, b, fd)
       \/ OnAsyncConnectError(a, fd) \/ OnAsyncConnectTimeout(a, fd)
       \/ OnSocketRead(a, fd) \/ OnSocketWrite(a, fd) \/ OnSocketError(a, fd)

Next ==
  \/ Listen \/ AppStep \/ OnListenError \/ PeerConnects
  \/ \E a \in Agents : NetworkStep(a)
  \/ \E fd \in Fds :
       \/ \E a \in Agents : AsyncConnect(fd, a) \/ SendMessage(fd, a)
       \/ PeerAnswers(fd) \/ PeerSends(fd) \/ PeerCloses(fd) \/ PeerBreaks(fd)

Spec == Init /\ [][Next]_vars

\* The loops run.  A timer's expiry is a step of its loop.
FairSpec == Spec /\ WF_vars(AppStep) /\ \A a \in Agents : WF_vars(NetworkStep(a))

-----------------------------------------------------------------------------
(* Properties *)

\* Every socket that a loop has is announced.  Of one that was attached by its own
\* loop, receive_cb_ is called after connect_cb_, although timers come before wakeup
\* callbacks: a message is read a turn after its buffer was handed over, and the
\* turn that did so ended with what AddTcpSocket had pushed.  Its close and errors
\* come after connect_cb_ too.  (For a socket that another thread attached, this
\* fails.)
ConnectedFirst ==
  /\ TypeOK
  /\ \A fd \in Fds : sock[fd] = "attached" =>
       LET connected == Call("connected", fd)
       IN /\ \/ fd \in told \/ In(connected, appCalls)
             \/ \E a \in Agents : In(connected, announcing[a])
          /\ builder[fd] = home[fd] =>
               /\ fd \notin early
               /\ \A i \in DOMAIN appCalls :
                    appCalls[i] \in {Call("closed", fd), Call("error", fd)} =>
                      fd \in told \/ \E j \in 1..i : appCalls[j] = connected

\* Every AsyncConnect is answered at most once, by async_connected_cb_ or
\* async_connect_error_cb_, whichever of the write, the error and the timer comes
\* first: the attempts not yet answered are the sockets still connecting and the
\* answers on their way, which only the loop that attached the socket announces,
\* and a connect timer runs for exactly the sockets that are connecting, in the
\* loop that handles them.
AnsweredOnce ==
  /\ \A fd \in Fds :
       /\ attempts[fd] - answers[fd] =
            (IF sock[fd] \in {"opened", "connecting"} THEN 1 ELSE 0)
              + Pending(fd, appCalls) + Pending(fd, announcing[builder[fd]])
       /\ \A a \in Agents \ {builder[fd]} : Pending(fd, announcing[a]) = 0
  /\ \A a \in Agents : timers[a] = {fd \in Fds : sock[fd] = "connecting" /\ home[fd] = a}

\* Every AsyncConnect is answered.
AttemptsAnswered == \A fd \in Fds : attempts[fd] # answers[fd] ~> attempts[fd] = answers[fd]

=============================================================================
