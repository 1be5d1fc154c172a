---------------------------- MODULE TcpSocketApp ----------------------------
(***************************************************************************)
(* mysya/ioevent/tcp_socket_app.cc: the sockets of a single-threaded       *)
(* program, by descriptor.  The kernel's part (connections, peers, edge-   *)
(* triggered readiness, room to send) is modelled from how the code uses   *)
(* it; the event loop hands out one descriptor's events at a time, read    *)
(* before write before error, and skips them once it was closed.           *)
(*                                                                         *)
(* The application is the one the repository writes: it closes and sends   *)
(* from callbacks or between events, on descriptors it was told of, and    *)
(* opens sockets between events only.  Bytes are counted, not kept.  A     *)
(* step that fails before a table changes (Open, Connect, options) leaves  *)
(* no trace and is left out.                                               *)
(***************************************************************************)
EXTENDS Naturals, FiniteSets

CONSTANTS Fds,     \* descriptors
          Listener, \* the one that is listened on
          Timers,  \* timer ids
          Room,    \* bytes the kernel takes before it says EAGAIN
          MaxOpen  \* bound on the connections that are opened

ASSUME AppAssumption ==
  /\ Listener \in Fds /\ IsFiniteSet(Fds) /\ IsFiniteSet(Timers)
  /\ Room \in Nat \ {0} /\ MaxOpen \in Nat

Peers == Fds \ {Listener}

VARIABLES
  sockets,     \* sockets_: what each descriptor was built as; its callbacks
  connections, \* connections_
  socketTimer, \* socket_timer_ids_: descriptor -> timer
  timerSocket, \* timer_socket_ids_: timer -> descriptor
  running,     \* the timers the event loop runs
  unsent,      \* bytes in the send buffer of each connection
  batch,       \* the descriptor whose events are handled, those left
  inCallback,  \* a callback of that descriptor has not returned
  view,        \* what the application was told of each descriptor
  kernel,      \* the connection as the kernel has it
  edges,       \* readiness epoll has not yet reported
  unread,      \* bytes of the peer wait
  room,        \* bytes the kernel still takes
  backlog,     \* connections waiting to be accepted
  opened       \* connections opened so far

tables == <<sockets, connections, socketTimer, timerSocket, running>>
kernelVars == <<kernel, edges, unread, room, backlog, opened>>
vars == <<tables, unsent, batch, inCallback, view, kernelVars>>

NoBatch == [fd |-> Listener, todo |-> {}]
RestrictTo(f, S) == [x \in (DOMAIN f) \cap S |-> f[x]]
Empty == [x \in {} |-> Listener]

SocketsType ==
  /\ sockets \in [Fds -> {"none", "listen", "connecting", "accepted", "connected"}]
  /\ connections \subseteq Peers
  /\ DOMAIN socketTimer \subseteq Peers /\ DOMAIN timerSocket \subseteq Timers
  /\ running \subseteq Timers
  /\ unsent \in [Fds -> Nat]
  /\ batch \in [fd : Fds, todo : SUBSET {"in", "out", "err"}]
  /\ inCallback \in BOOLEAN
  /\ view \in [Fds -> {"none", "connecting", "open", "closed"}]
  /\ kernel \in [Fds -> {"free", "listening", "syn", "up", "closed", "broken"}]
  /\ edges \in [Fds -> SUBSET {"in", "out", "err"}]
  /\ unread \in [Fds -> BOOLEAN]
  /\ room \in [Fds -> 0..Room]
  /\ backlog \in Nat /\ opened \in 0..MaxOpen

\* Listen() has run.
Init ==
  /\ sockets = [fd \in Fds |-> IF fd = Listener THEN "listen" ELSE "none"]
  /\ connections = {}
  /\ socketTimer = Empty /\ timerSocket = Empty /\ running = {}
  /\ unsent = [fd \in Fds |-> 0]
  /\ batch = NoBatch
  /\ inCallback = FALSE
  /\ view = [fd \in Fds |-> "none"]
  /\ kernel = [fd \in Fds |-> IF fd = Listener THEN "listening" ELSE "free"]
  /\ edges = [fd \in Fds |-> {}]
  /\ unread = [fd \in Fds |-> FALSE]
  /\ room = [fd \in Fds |-> Room]
  /\ backlog = 0 /\ opened = 0

Idle == batch.todo = {} /\ ~inCallback
Dead(fd) == kernel[fd] = "broken"

\* The callbacks a socket was built with, which are what epoll is asked for;
\* errors are always reported.
Callbacks(fd) ==
  CASE sockets[fd] = "none" -> {}
    [] sockets[fd] \in {"listen", "accepted"} -> {"in", "err"}
    [] sockets[fd] = "connecting" -> {"out", "err"}
    [] sockets[fd] = "connected" -> {"in", "out", "err"}

\* What the kernel reports anew when a socket's interest is changed.
Readiness(fd) ==
  (IF unread[fd] \/ kernel[fd] \in {"closed", "broken"} THEN {"in"} ELSE {})
    \union (IF room[fd] > 0 /\ kernel[fd] # "syn" THEN {"out"} ELSE {})
    \union (IF kernel[fd] = "broken" THEN {"err"} ELSE {})

-----------------------------------------------------------------------------
(* Opening and closing *)

\* TcpSocket: a new descriptor, connected, connecting or accepted.
OpenSocket(fd, state) ==
  /\ kernel' = [kernel EXCEPT ![fd] = state]
  /\ edges' = [edges EXCEPT ![fd] = IF state = "syn" THEN {} ELSE {"out"}]
  /\ unread' = [unread EXCEPT ![fd] = FALSE]
  /\ room' = [room EXCEPT ![fd] = Room]

\* TcpSocket::Close(): detached, and its descriptor is free again.
CloseSocket(fd) ==
  /\ kernel' = [kernel EXCEPT ![fd] = "free"]
  /\ edges' = [edges EXCEPT ![fd] = {}]

\* A socket enters both tables, with an empty send buffer.
Built(fd, kind, state) ==
  /\ OpenSocket(fd, state)
  /\ sockets' = [sockets EXCEPT ![fd] = kind]
  /\ connections' = connections \union {fd}
  /\ unsent' = [unsent EXCEPT ![fd] = 0]

\* Mutant of Erased: the connection is forgotten, its socket is not.
ErasedConnection(fd) ==
  /\ connections' = connections \ {fd}
  /\ UNCHANGED <<sockets, kernel, edges>>

\* Close(): the entries of both tables, and with them the descriptor.  A
\* connect timer stays.
Erased(fd) ==
  /\ connections' = connections \ {fd}
  /\ sockets' = [sockets EXCEPT ![fd] = "none"]
  /\ CloseSocket(fd)

BuildFails(fd) == UNCHANGED <<tables, unsent, kernel, edges, unread, room>>

\* Mutant of AddSocketTimer: the timer does not know its socket.
AddSocketTimerHalf(fd, t) ==
  /\ running' = running \union {t}
  /\ socketTimer' = [x \in DOMAIN socketTimer \union {fd} |-> IF x = fd THEN t ELSE socketTimer[x]]
  /\ UNCHANGED timerSocket

AddSocketTimer(fd, t) ==
  /\ running' = running \union {t}
  /\ timerSocket' = [x \in DOMAIN timerSocket \union {t} |-> IF x = t THEN fd ELSE timerSocket[x]]
  /\ socketTimer' = [x \in DOMAIN socketTimer \union {fd} |-> IF x = fd THEN t ELSE socketTimer[x]]

RemoveSocketTimer(fd) ==
  IF fd \in DOMAIN socketTimer
  THEN /\ running' = running \ {socketTimer[fd]}
       /\ timerSocket' = RestrictTo(timerSocket, Timers \ {socketTimer[fd]})
       /\ socketTimer' = RestrictTo(socketTimer, Fds \ {fd})
  ELSE UNCHANGED <<socketTimer, timerSocket, running>>

\* BuildAsyncConnectSocket(): with a timer for the answer.
AsyncBuilt(fd, t) ==
  /\ Built(fd, "connecting", "syn")
  /\ AddSocketTimer(fd, t)

\* Connect(): blocks, and asks for no event of writing.
Connect(fd) ==
  /\ Idle /\ kernel[fd] = "free" /\ opened < MaxOpen
  /\ Built(fd, "accepted", "up")
  /\ view' = [view EXCEPT ![fd] = "open"]
  /\ opened' = opened + 1
  /\ UNCHANGED <<socketTimer, timerSocket, running, batch, inCallback, backlog>>

AsyncConnect(fd, t) ==
  /\ Idle /\ kernel[fd] = "free" /\ opened < MaxOpen
  /\ t \notin running
  /\ AsyncBuilt(fd, t)
  /\ view' = [view EXCEPT ![fd] = "connecting"]
  /\ opened' = opened + 1
  /\ UNCHANGED <<batch, inCallback, backlog>>

\* The application closes a descriptor it was told of.
CloseByApp(fd) ==
  /\ Idle \/ inCallback
  /\ view[fd] \in {"open", "closed"}
  /\ Erased(fd)
  /\ view' = [view EXCEPT ![fd] = "none"]
  /\ UNCHANGED <<socketTimer, timerSocket, running, unsent, batch, inCallback, unread, room,
                 backlog, opened>>

-----------------------------------------------------------------------------
(* Sending *)

\* error_cb_, then Close().
Failed(fd) ==
  /\ Erased(fd)
  /\ view' = [view EXCEPT ![fd] = "none"]

Smaller(m, n) == IF m < n THEN m ELSE n

\* TcpConnection: written through while nothing waits, appended otherwise.
Sent(fd, size) ==
  LET sent == IF unsent[fd] = 0 THEN Smaller(size, room[fd]) ELSE 0
  IN /\ unsent' = [unsent EXCEPT ![fd] = @ + size - sent]
     /\ room' = [room EXCEPT ![fd] = @ - sent]

\* A write that fails is reported and closes the connection at once.
SendMessage(fd, size) ==
  /\ Idle \/ inCallback
  /\ view[fd] \in {"open", "closed"}
  /\ unsent[fd] + size <= Room + 2
  /\ IF unsent[fd] = 0 /\ Dead(fd)
     THEN Failed(fd) /\ UNCHANGED <<unsent, room>>
     ELSE Sent(fd, size) /\ UNCHANGED <<sockets, connections, kernel, edges, view>>
  /\ UNCHANGED <<socketTimer, timerSocket, running, batch, inCallback, unread, backlog, opened>>

-----------------------------------------------------------------------------
(* Handling events *)

\* epoll_wait reports a descriptor.
TakeEvents(fd) ==
  /\ Idle
  /\ edges[fd] \cap Callbacks(fd) # {}
  /\ batch' = [fd |-> fd, todo |-> edges[fd] \cap Callbacks(fd)]
  /\ edges' = [edges EXCEPT ![fd] = {}]
  /\ UNCHANGED <<tables, unsent, inCallback, view, kernel, unread, room, backlog, opened>>

\* The next event, in the loop's order, of a socket that is still attached.
Handling(event) ==
  /\ ~inCallback
  /\ event \in batch.todo
  /\ event = "out" => "in" \notin batch.todo
  /\ event = "err" => batch.todo = {"err"}
  /\ kernel[batch.fd] # "free"

Handled(event) == batch' = [batch EXCEPT !.todo = @ \ {event}]

SkipRemoved ==
  /\ ~inCallback /\ batch.todo # {}
  /\ kernel[batch.fd] = "free"
  /\ batch' = NoBatch
  /\ UNCHANGED <<tables, unsent, inCallback, view, kernelVars>>

\* The application's callback returns; it may have closed and sent.
Return ==
  /\ inCallback
  /\ inCallback' = FALSE
  /\ UNCHANGED <<tables, unsent, batch, view, kernelVars>>

\* OnListenRead accepts until nothing waits: the event is handled then.
Accept(fd) ==
  /\ Handling("in") /\ sockets[batch.fd] = "listen"
  /\ backlog > 0 /\ kernel[fd] = "free"
  /\ backlog' = backlog - 1
  /\ \/ /\ Built(fd, "accepted", "up")
        /\ view' = [view EXCEPT ![fd] = "open"]
        /\ inCallback' = TRUE
     \/ /\ BuildFails(fd)
        /\ UNCHANGED <<connections, sockets, view, inCallback>>
  /\ UNCHANGED <<socketTimer, timerSocket, running, batch, opened>>

\* Nothing waits, or no descriptor is left: OnListenRead ends either way, and
\* what still waits has no edge until the next peer connects.
AcceptEnds ==
  /\ Handling("in") /\ sockets[batch.fd] = "listen"
  /\ backlog = 0 \/ \A fd \in Peers : kernel[fd] # "free"
  /\ Handled("in")
  /\ UNCHANGED <<tables, unsent, inCallback, view, kernelVars>>

OnListenError ==
  /\ Handling("err") /\ sockets[batch.fd] = "listen"
  /\ Erased(batch.fd)
  /\ batch' = NoBatch
  /\ UNCHANGED <<socketTimer, timerSocket, running, unsent, inCallback, view, unread, room,
                 backlog, opened>>

\* Mutant of OnConnectWrite: the timer of the attempt keeps running.
OnConnectWriteTimed ==
  /\ Handling("out") /\ sockets[batch.fd] = "connecting"
  /\ sockets' = [sockets EXCEPT ![batch.fd] = "connected"]
  /\ edges' = [edges EXCEPT ![batch.fd] = Readiness(batch.fd)]
  /\ view' = [view EXCEPT ![batch.fd] = "open"]
  /\ inCallback' = TRUE
  /\ Handled("out")
  /\ UNCHANGED <<connections, socketTimer, timerSocket, running, unsent, kernel, unread, room,
                 backlog, opened>>

\* The attempt is over, whether it succeeded or not: the socket changes its
\* callbacks, which makes epoll report it again, and is announced.
OnConnectWrite ==
  /\ Handling("out") /\ sockets[batch.fd] = "connecting"
  /\ RemoveSocketTimer(batch.fd)
  /\ sockets' = [sockets EXCEPT ![batch.fd] = "connected"]
  /\ edges' = [edges EXCEPT ![batch.fd] = Readiness(batch.fd)]
  /\ view' = [view EXCEPT ![batch.fd] = "open"]
  /\ inCallback' = TRUE
  /\ Handled("out")
  /\ UNCHANGED <<connections, unsent, kernel, unread, room, backlog, opened>>

OnConnectError ==
  /\ Handling("err") /\ sockets[batch.fd] = "connecting"
  /\ RemoveSocketTimer(batch.fd)
  /\ Failed(batch.fd)
  /\ batch' = NoBatch
  /\ UNCHANGED <<unsent, inCallback, unread, room, backlog, opened>>

\* The timer expires between two batches (it is an event of its own).
OnConnectTimeout(t) ==
  /\ Idle /\ t \in running
  /\ running' = running \ {t}
  /\ IF t \in DOMAIN timerSocket
     THEN LET fd == timerSocket[t]
          IN /\ timerSocket' = RestrictTo(timerSocket, Timers \ {t})
             /\ socketTimer' = RestrictTo(socketTimer, Fds \ {fd})
             /\ IF fd \in connections
                THEN Failed(fd)
                ELSE UNCHANGED <<connections, sockets, kernel, edges, view>>
     ELSE UNCHANGED <<timerSocket, socketTimer, connections, sockets, kernel, edges, view>>
  /\ UNCHANGED <<unsent, batch, inCallback, unread, room, backlog, opened>>

\* One read: a close that waits behind bytes is not seen by it.  Bytes that
\* arrive between ioctl and recv are read too and leave their edge behind.
\* Nothing to read is taken for a close.
OnSocketRead ==
  /\ Handling("in") /\ batch.fd \in connections
  /\ Handled("in")
  /\ unread' = [unread EXCEPT ![batch.fd] = FALSE]
  /\ \/ unread[batch.fd] /\ UNCHANGED <<view, edges>>
     \/ /\ unread[batch.fd] /\ kernel[batch.fd] = "up"
        /\ edges' = [edges EXCEPT ![batch.fd] = @ \union {"in"}]
        /\ UNCHANGED view
     \/ /\ ~unread[batch.fd]
        /\ view' = [view EXCEPT ![batch.fd] = "closed"]
        /\ UNCHANGED edges
  /\ inCallback' = TRUE
  /\ UNCHANGED <<tables, unsent, kernel, room, backlog, opened>>

\* The peer resets between ioctl and recv.
OnSocketReadFails ==
  /\ Handling("in") /\ batch.fd \in connections
  /\ unread[batch.fd]
  /\ Failed(batch.fd)
  /\ batch' = NoBatch
  /\ UNCHANGED <<socketTimer, timerSocket, running, unsent, inCallback, unread, room, backlog,
                 opened>>

\* What waits is written; nothing is an error, EAGAIN included.
OnSocketWrite ==
  /\ Handling("out") /\ sockets[batch.fd] = "connected"
  /\ IF unsent[batch.fd] > 0 /\ (Dead(batch.fd) \/ room[batch.fd] = 0)
     THEN Failed(batch.fd) /\ batch' = NoBatch /\ UNCHANGED <<unsent, room>>
     ELSE LET sent == Smaller(unsent[batch.fd], room[batch.fd])
          IN /\ unsent' = [unsent EXCEPT ![batch.fd] = @ - sent]
             /\ room' = [room EXCEPT ![batch.fd] = @ - sent]
             /\ Handled("out")
             /\ UNCHANGED <<connections, sockets, kernel, edges, view>>
  /\ UNCHANGED <<socketTimer, timerSocket, running, inCallback, unread, backlog, opened>>

OnSocketError ==
  /\ Handling("err") /\ sockets[batch.fd] \in {"accepted", "connected"}
  /\ Failed(batch.fd)
  /\ batch' = NoBatch
  /\ UNCHANGED <<socketTimer, timerSocket, running, unsent, inCallback, unread, room, backlog,
                 opened>>

-----------------------------------------------------------------------------
(* The kernel and the peers *)

\* An edge of the listener or of a socket whose state changes.
Edge(fd, S) == edges' = [edges EXCEPT ![fd] = @ \union S]

PeerConnects ==
  /\ kernel[Listener] = "listening" /\ opened < MaxOpen
  /\ backlog' = backlog + 1 /\ opened' = opened + 1
  /\ Edge(Listener, {"in"})
  /\ UNCHANGED <<tables, unsent, batch, inCallback, view, kernel, unread, room>>

\* An attempt to connect succeeds or is refused; either way it can be written.
PeerAnswers(fd) ==
  /\ kernel[fd] = "syn"
  /\ \/ kernel' = [kernel EXCEPT ![fd] = "up"] /\ Edge(fd, {"out"})
     \/ kernel' = [kernel EXCEPT ![fd] = "broken"] /\ Edge(fd, {"in", "out", "err"})
  /\ UNCHANGED <<tables, unsent, batch, inCallback, view, unread, room, backlog, opened>>

PeerSends(fd) ==
  /\ kernel[fd] = "up" /\ ~unread[fd]
  /\ unread' = [unread EXCEPT ![fd] = TRUE]
  /\ Edge(fd, {"in"})
  /\ UNCHANGED <<tables, unsent, batch, inCallback, view, kernel, room, backlog, opened>>

PeerReads(fd) ==
  /\ kernel[fd] = "up" /\ room[fd] < Room
  /\ room' = [room EXCEPT ![fd] = Room]
  /\ Edge(fd, {"out"})
  /\ UNCHANGED <<tables, unsent, batch, inCallback, view, kernel, unread, backlog, opened>>

PeerCloses(fd) ==
  /\ kernel[fd] = "up"
  /\ kernel' = [kernel EXCEPT ![fd] = "closed"]
  /\ Edge(fd, {"in"})
  /\ UNCHANGED <<tables, unsent, batch, inCallback, view, unread, room, backlog, opened>>

\* A reset, or a network that failed: what waited is gone.
PeerBreaks(fd) ==
  /\ kernel[fd] \in {"up", "closed"}
  /\ kernel' = [kernel EXCEPT ![fd] = "broken"]
  /\ unread' = [unread EXCEPT ![fd] = FALSE]
  /\ Edge(fd, {"in", "out", "err"})
  /\ UNCHANGED <<tables, unsent, batch, inCallback, view, room, backlog, opened>>

ListenerBreaks ==
  /\ kernel[Listener] = "listening"
  /\ Edge(Listener, {"err"})
  /\ UNCHANGED <<tables, unsent, batch, inCallback, view, kernel, unread, room, backlog, opened>>

-----------------------------------------------------------------------------
EventStep ==
  \/ SkipRemoved \/ Return \/ AcceptEnds \/ OnListenError
  \/ \E fd \in Peers : Accept(fd)
  \/ OnConnectWrite \/ OnConnectError \/ OnSocketRead \/ OnSocketReadFails
  \/ OnSocketWrite \/ OnSocketError
  \/ \E fd \in Fds : TakeEvents(fd)

Next ==
  \/ EventStep
  \/ \E t \in Timers : OnConnectTimeout(t)
  \/ \E fd \in Peers :
       \/ Connect(fd) \/ CloseByApp(fd)
       \/ \E t \in Timers : AsyncConnect(fd, t)
       \/ \E size \in 1..2 : SendMessage(fd, size)
       \/ PeerAnswers(fd) \/ PeerSends(fd) \/ PeerReads(fd) \/ PeerCloses(fd) \/ PeerBreaks(fd)
  \/ PeerConnects
  \/ ListenerBreaks

Spec == Init /\ [][Next]_vars

\* The loop handles what epoll reports and callbacks return; a timer that runs
\* expires, however busy the sockets are: the loop comes to it in every turn.
Fair == WF_vars(EventStep) /\ \A t \in Timers : SF_vars(OnConnectTimeout(t))

FairSpec == Spec /\ Fair

-----------------------------------------------------------------------------
(* Properties *)

\* The tables agree with each other, with the descriptors that are open and with
\* what the application was told.
TablesAgree ==
  \A fd \in Peers :
    /\ kernel[fd] # "free" <=> sockets[fd] # "none"
    /\ fd \in connections <=> sockets[fd] # "none"
    /\ view[fd] = "none" <=> sockets[fd] = "none"
    /\ view[fd] = "connecting" <=> sockets[fd] = "connecting"

\* Nothing leaks, a descriptor the kernel hands out again is free, and connection_cb_
\* and error_cb_ tell of every connection that opens and of every one the library
\* closes.  Every variable has its type.
NothingLeaks == SocketsType /\ TablesAgree

\* A connect timer is known by both tables, runs, and is the one of a socket
\* that is still connecting: no later owner of the descriptor is closed by it.
TimersMatch ==
  /\ running = DOMAIN timerSocket
  /\ \A t \in running :
       /\ timerSocket[t] \in DOMAIN socketTimer /\ socketTimer[timerSocket[t]] = t
       /\ sockets[timerSocket[t]] = "connecting"
  /\ \A fd \in Peers : sockets[fd] = "connecting" => fd \in DOMAIN socketTimer

\* Every attempt to connect is answered, by connection_cb_ or error_cb_.
AttemptsAnswered == \A fd \in Peers : view[fd] = "connecting" ~> view[fd] # "connecting"

=============================================================================
