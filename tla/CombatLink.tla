----------------------------- MODULE CombatLink -----------------------------
(***************************************************************************)
(* The connections between the gateway and the combat server: TcpSocketApp *)
(* and ProtobufCodec on both sides (TcpSocketApp, Framing), as two queues  *)
(* of messages in order.  The gateway opens one when it starts; none is    *)
(* opened again, and its number is never used again.                       *)
(***************************************************************************)
EXTENDS Naturals, Sequences, FiniteSets, Functions

CONSTANT MaxSessions   \* bound on the connections: the gateway's starts

ASSUME LinkAssumption == MaxSessions \in Nat \ {0}

VARIABLES
  conn,  \* each connection: "unused", "connecting", "up", "broken"
  down,  \* gateway to combat server
  up     \* combat server to gateway

linkVars == <<conn, down, up>>

Sessions == 1..MaxSessions
Current == CHOOSE s \in Sessions : conn[s] # "unused" /\ \A t \in Sessions : t > s => conn[t] = "unused"

\* What both ends are told of the connection itself.
Opened == [kind |-> "open"]
Ended == [kind |-> "close"]

LinkInit ==
  /\ conn = [s \in Sessions |-> IF s = 1 THEN "connecting" ELSE "unused"]
  /\ down = [s \in Sessions |-> <<>>] /\ up = down

\* What is sent on a broken connection is lost.
Sending(channel, s, messages) ==
  IF conn[s] = "up" THEN [channel EXCEPT ![s] = @ \o messages] ELSE channel

\* A connection ends after what was sent, or takes it along.
Cut(queue, lost) ==
  IF ~lost THEN Append(queue, Ended)
  ELSE IF queue # <<>> /\ Head(queue) = Opened THEN <<Opened, Ended>> ELSE <<Ended>>

Connects ==
  /\ conn[Current] = "connecting"
  /\ \/ /\ conn' = [conn EXCEPT ![Current] = "up"]
        /\ down' = [down EXCEPT ![Current] = <<Opened>>]
        /\ up' = [up EXCEPT ![Current] = <<Opened>>]
     \/ conn' = [conn EXCEPT ![Current] = "broken"] /\ UNCHANGED <<down, up>>

\* (Bound: earlier connections end with their gateway.)
Breaks ==
  /\ Current = MaxSessions
  /\ conn[Current] = "up"
  /\ conn' = [conn EXCEPT ![Current] = "broken"]
  /\ \E lost \in BOOLEAN :
       /\ down' = [down EXCEPT ![Current] = Cut(@, lost)]
       /\ up' = [up EXCEPT ![Current] = Cut(@, lost)]

Received(channel, s, kind) == channel[s] # <<>> /\ Head(channel[s]).kind = kind

=============================================================================
