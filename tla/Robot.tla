-------------------------------- MODULE Robot --------------------------------
(* The robot (gateway/robot): commands from its standard input, which is a      *)
(* channel of the loop like its sockets, open connections to gateways, an actor *)
(* for each.                                                                    *)
(*                                                                              *)
(* A command is its words: word[1] what to do; of `run' also the actor and what *)
(* it is to do.  `length' is how many words there are.                          *)
EXTENDS Integers, Sequences, FiniteSets

CONSTANTS
  RobotFds,       \* descriptors of sockets
  Commands,       \* lines that may be typed
  Answers,        \* types of the messages of the gateway
  MaxTyped        \* bound: the lines typed

VARIABLE robot

Nothing == "none"
NoRobot == [loop |-> Nothing]

\* MessageHandler::SetHandlers.  The answer to an action has no handler: it is registered
\* for the type of the request.
HandledTypes == {"login", "combat", "begin", "action_request", "action_sync", "settlement"}

\* What `run' knows, with the words it reads.
Operations == [login |-> 4, combat |-> 4, build |-> 5, move |-> 6]

OpenSockets(r) == {fd \in RobotFds : r.sockets[fd] # "free"}

RobotInit ==
  robot = [loop |-> "running", attached |-> TRUE, pipe |-> << >>, buffered |-> << >>, edge |-> FALSE,
           typed |-> 0, together |-> FALSE, sockets |-> [fd \in RobotFds |-> "free"],
           actors |-> {}, shown |-> Nothing, sent |-> << >>]

Running == robot.loop = "running"

\* What calls Quit: the commands for it, a line that fgets does not give to its end (it is
\* longer than the buffer), and the end of the input of a terminal, for which fgets returns
\* NULL.  (The end of a pipe is EPOLLHUP: the channel has no callback for it.)
Endings == {"quit", "unfinished", "end of input"}

\* Lines arrive at the standard input, one or several at once.
Type(lines) ==
  /\ Running /\ robot.typed + Len(lines) <= MaxTyped
  /\ robot' = [robot EXCEPT !.pipe = @ \o lines, !.typed = @ + Len(lines), !.edge = TRUE,
                            !.together = @ \/ robot.edge \/ Len(lines) > 1]

\* RobotApp::Connect: any free descriptor, or an error.
Connect(r) ==
  {r} \cup {[r EXCEPT !.sockets[fd] = "connecting"] : fd \in RobotFds \ OpenSockets(r)}

\* CommandActorLogin.
CommandActorLogin(r, command) == IF command.length < 3 THEN {r} ELSE Connect(r)

\* Mutant: the actor of a connection that failed stays.
OnErrorKeepsActor(r, fd) == r

\* RobotApp::OnError.
OnError(r, fd) == [r EXCEPT !.actors = @ \ {fd}]

Fail(r, fd) == [OnError(r, fd) EXCEPT !.sockets[fd] = "free"]

\* RobotApp::SendMessage: it is written, or the connection is closed.
SendMessage(r, fd, operation) == {[r EXCEPT !.sent = <<fd, operation>>], Fail(r, fd)}

\* CommandRunCommand.  Words that are not there are read all the same: the robot may end.
CommandRunCommand(r, command) ==
  IF command.length < 3 \/ command.actor \notin r.actors \/ command.operation \notin DOMAIN Operations
  THEN {r}
  ELSE SendMessage(r, command.actor, command.operation)
         \cup (IF command.length < Operations[command.operation] THEN {[r EXCEPT !.loop = "crashed"]} ELSE {})

\* UserCommandHandler::Parse, the commands it knows.
Parsed(r, command) ==
  CASE command.word = "actor_login" -> CommandActorLogin(r, command)
    [] command.word = "run" -> CommandRunCommand(r, command)
    [] OTHER -> {r}

\* RobotApp::OnReadCallback: fgets takes all there is out of the pipe but gives one line,
\* and looks into the pipe again only when it has none left.
OnReadCallback ==
  /\ Running /\ robot.attached /\ robot.edge
  /\ LET lines == IF robot.buffered = << >> THEN robot.pipe ELSE robot.buffered
         r == [robot EXCEPT !.edge = FALSE, !.buffered = Tail(lines),
                            !.pipe = IF robot.buffered = << >> THEN << >> ELSE @]
         command == Head(lines)
     IN robot' \in CASE command.word \in Endings -> {[r EXCEPT !.loop = "ended"]}
                     [] command.word = "daemon" -> {[r EXCEPT !.attached = FALSE]}
                     [] OTHER -> Parsed(r, command)

\* RobotApp::OnConnected.
OnConnected(fd) ==
  /\ Running /\ robot.sockets[fd] = "connecting"
  /\ robot' = [robot EXCEPT !.sockets[fd] = "connected", !.actors = @ \cup {fd}]

\* A connection is refused, times out or breaks.
SocketFails(fd) ==
  /\ Running /\ robot.sockets[fd] # "free"
  /\ robot' = Fail(robot, fd)

\* RobotApp::OnClose: the actor goes; the descriptor is not closed.
OnClose(fd) ==
  /\ Running /\ robot.sockets[fd] \in {"connected", "peer closed"}
  /\ robot' = [robot EXCEPT !.sockets[fd] = "peer closed", !.actors = @ \ {fd}]

\* The handlers, all alike: a message that can be parsed is shown.
Show(r, type) == {r, [r EXCEPT !.shown = type]}

DispatchMessage(r, type) == IF type \in HandledTypes THEN Show(r, type) ELSE {r}

\* RobotApp::OnMessage.
OnMessage(fd, type) ==
  /\ Running /\ robot.sockets[fd] = "connected" /\ fd \in robot.actors
  /\ robot' \in DispatchMessage(robot, type)

RobotNext ==
  \/ \E c \in Commands : Type(<<c>>)
  \/ \E c, d \in Commands : Type(<<c, d>>)
  \/ OnReadCallback
  \/ \E fd \in RobotFds : OnConnected(fd) \/ SocketFails(fd) \/ OnClose(fd)
  \/ \E fd \in RobotFds, type \in Answers : OnMessage(fd, type)

RobotSpec == RobotInit /\ [][RobotNext]_robot

-----------------------------------------------------------------------------
(* Properties *)

\* The actors of a robot are its connections, however they break and whatever takes their
\* descriptors.  Lines that arrive one by one are all handled (of those that arrive together
\* only the first is: fgets takes the others into its buffer, where epoll does not see them).
RobotKept ==
  Running =>
    /\ robot.actors = {fd \in RobotFds : robot.sockets[fd] = "connected"}
    /\ robot.attached /\ ~robot.edge /\ ~robot.together => robot.pipe = << >> /\ robot.buffered = << >>

=============================================================================
