------------------------------ MODULE Gateway -------------------------------
(***************************************************************************)
(* gateway/server and combat/client: players log in over their connections *)
(* and ask for combats; two who ask are put into one, which is deployed at *)
(* the combat server, joined by both and begun.                            *)
(*                                                                         *)
(* A handler is one step, as everything runs in one event loop.  Warriors, *)
(* buildings and what an action says are left out; so is memory running    *)
(* out.  pending_combats_ is the domain of combats: RemovePending does not *)
(* erase, Deallocate does.                                                 *)
(***************************************************************************)
EXTENDS CombatLink

CONSTANTS Names,      \* what players call themselves
          None,       \* no combat
          MaxRequests \* bound on Combat objects, actions and returns of players in combats

ASSUME GatewayAssumption == IsFiniteSet(Names) /\ MaxRequests \in Nat

VARIABLES
  online,       \* the CombatActors that have an Actor: a connected player
  argent,       \* combat_argent_id_ of each name; 0 if there is no CombatActor
  issued,       \* g_argent_id_allocator_
  combatOf,     \* combat_ of each CombatActor; 0 for NULL
  waitingActors, \* pending_combat_actors_
  combats,      \* the Combat objects, by id
  byArgent,     \* combats_, by combat_argent_id_
  session,      \* the CombatSession; 0 if there is none
  asked,        \* history: names that asked for a combat and have no answer
  made, acted   \* bounded counters

gatewayState == <<online, argent, issued, combatOf, waitingActors, combats, byArgent, session>>
gatewayVars == <<gatewayState, asked, made, acted>>

Sides(id) == {combats[id].left, combats[id].right}

NoCombats == [id \in {} |-> None]

GatewayInit ==
  /\ online = {}
  /\ argent = [n \in Names |-> 0] /\ issued = 0
  /\ combatOf = [n \in Names |-> 0]
  /\ waitingActors = {}
  /\ combats = NoCombats /\ byArgent = NoCombats
  /\ session = 0
  /\ asked = {} /\ made = 0 /\ acted = 0

\* CombatSession::SendMessage: through the codec of the session's connection.
SessionSends(s, messages) == down' = Sending(down, s, messages)

\* GetSessionByServerId(1)->SendMessage(); nothing without a session.
SendDown(messages) == IF session = 0 THEN UNCHANGED down ELSE SessionSends(session, messages)

\* Combat::SendMessage: by the server's id, which a Combat has once it is deployed.
CombatSends(id, messages) == IF combats[id].key = None THEN UNCHANGED down ELSE SendDown(messages)

-----------------------------------------------------------------------------
(* Players *)

RemoveActor(n) == online' = online \ {n}

\* CombatManager::Offline: who waited for an opponent does no longer.
Offline(n) == waitingActors' = waitingActors \ {n}

\* The destructor of Actor lets go of its CombatActor, which stays, with its combat.
DeleteActor(n) == RemoveActor(n) /\ Offline(n) /\ UNCHANGED <<argent, combatOf>>

\* OnClose and OnError.
OnClose(n) ==
  /\ n \in online
  /\ DeleteActor(n)
  /\ asked' = asked \ {n}
  /\ UNCHANGED <<issued, combats, byArgent, session, made, acted, linkVars>>

\* The next argent id, for a name that never logged in before.
AllocateActor(n) == issued' = issued + 1 /\ argent' = [argent EXCEPT ![n] = issued']

\* An Actor without CombatActor gets that of the name, if no Actor has it.  One
\* who has a combat joins it again.
OnMessageLoginRequest(n) ==
  /\ n \notin online
  /\ online' = online \union {n}
  /\ IF argent[n] = 0 THEN AllocateActor(n) ELSE UNCHANGED <<argent, issued>>
  /\ IF combatOf[n] # 0 /\ combats[combatOf[n]].key # None
     THEN /\ made + acted < MaxRequests /\ acted' = acted + 1
          /\ CombatSends(combatOf[n], <<[kind |-> "reconnect", combat |-> combats[combatOf[n]].key, role |-> argent[n]]>>)
     ELSE UNCHANGED <<down, acted>>
  /\ UNCHANGED <<combatOf, waitingActors, combats, byArgent, session, asked, made, conn, up>>

\* A new Combat is pending under its id; each side points to it.
Allocate(left, right) ==
  /\ made' = made + 1
  /\ combats' = [id \in DOMAIN combats \union {made'} |->
                   IF id = made' THEN [left |-> left, right |-> right, key |-> None, connected |-> 0]
                   ELSE combats[id]]
  /\ combatOf' = [combatOf EXCEPT ![left] = made', ![right] = made']

\* SendMessageCombatResponse(actor, false).
Denied(n) == asked' = asked \ {n}

\* The first who asks waits; with the second, who may be the same, a Combat is
\* made.  Without a session only the first waits on, and the Combat stays.
PushCombat(n) ==
  IF waitingActors = {}
  THEN /\ waitingActors' = {n} /\ asked' = asked \union {n}
       /\ UNCHANGED <<combatOf, combats, made, down>>
  ELSE \E right \in waitingActors :
         /\ made + acted < MaxRequests
         /\ Allocate(n, right)
         /\ IF session = 0
            THEN waitingActors' = waitingActors /\ Denied(n)
            ELSE waitingActors' = waitingActors \ {right} /\ asked' = asked \union {n}
         /\ SendDown(<<[kind |-> "deploy", host |-> made', left |-> argent[n], right |-> argent[right]]>>)

OnMessageCombatRequest(n) ==
  /\ n \in online
  /\ PushCombat(n)
  /\ UNCHANGED <<online, argent, issued, byArgent, session, acted, conn, up>>

OnMessageCombatActionRequest(n) ==
  /\ n \in online /\ combatOf[n] # 0 /\ made + acted < MaxRequests
  /\ combats[combatOf[n]].key # None
  /\ acted' = acted + 1
  /\ SendDown(<<[kind |-> "action", role |-> argent[n]]>>)
  /\ UNCHANGED <<gatewayState, asked, made, conn, up>>

-----------------------------------------------------------------------------
(* Combats: the answers of the combat server *)

\* A message on a connection that has no session any more is not dispatched.
HasSession(s) == session = s

Receives(s, kind) == Received(up, s, kind) /\ up' = [up EXCEPT ![s] = Tail(@)]

\* CombatManager::GetPending, of every Combat that is not deallocated.
GetPending(id) == {combats[i] : i \in DOMAIN combats \intersect {id}}

\* What remains of combats_ without a combat.
RemoveCombat(key) == Restrict(byArgent, DOMAIN byArgent \ {key})

AddCombat(key, id) ==
  byArgent' = [k \in DOMAIN byArgent \union {key} |->
                 IF k \in DOMAIN byArgent THEN byArgent[k] ELSE id]

\* Mutant of Deallocate: the CombatActors keep their pointers.
DeallocateOnly(id) ==
  /\ combats' = Restrict(combats, DOMAIN combats \ {id})
  /\ byArgent' = RemoveCombat(combats[id].key)
  /\ UNCHANGED combatOf

\* The destructor of Combat takes it from both actors.
Deallocate(id) ==
  /\ combats' = Restrict(combats, DOMAIN combats \ {id})
  /\ byArgent' = RemoveCombat(combats[id].key)
  /\ combatOf' = [n \in Names |-> IF n \in Sides(id) THEN 0 ELSE combatOf[n]]

\* MessageCombatResponse to those of both sides who are online.
Answer(id) == asked' = asked \ Sides(id)

\* Mutant of Refuse: nobody is told.
RefuseSilently(id) == Deallocate(id) /\ UNCHANGED asked

Refuse(id) == Answer(id) /\ Deallocate(id)

OnMessageCombatDeployResponse(s) ==
  /\ HasSession(s) /\ Receives(s, "deployed")
  /\ LET m == Head(up[s])
         Join(n) == [kind |-> "connect", combat |-> m.combat, role |-> argent[n]]
     IN IF GetPending(m.host) = {}
        THEN UNCHANGED <<combats, byArgent, combatOf, asked, down>>
        ELSE IF m.combat = None
        THEN Refuse(m.host) /\ UNCHANGED down
        ELSE /\ combats' = [combats EXCEPT ![m.host].key = m.combat]
             /\ AddCombat(m.combat, m.host)
             /\ SendDown(<<Join(combats[m.host].left), Join(combats[m.host].right)>>)
             /\ UNCHANGED <<combatOf, asked>>
  /\ UNCHANGED <<online, argent, issued, waitingActors, session, made, acted, conn>>

\* The combat of a message: GetCombat.
Known(m) == m.combat \in DOMAIN byArgent

OnMessageCombatConnectArgentResponse(s) ==
  /\ HasSession(s) /\ Receives(s, "connected")
  /\ LET m == Head(up[s])
         id == byArgent[m.combat]
     IN IF ~Known(m)
        THEN UNCHANGED <<combats, byArgent, combatOf, asked, down>>
        ELSE IF ~m.ok
        THEN Refuse(id) /\ UNCHANGED down
        ELSE /\ combats' = [combats EXCEPT ![id].connected = @ + 1]
             /\ IF combats[id].connected + 1 >= 2
                THEN SendDown(<<[kind |-> "begin", combat |-> m.combat]>>)
                ELSE UNCHANGED down
             /\ UNCHANGED <<byArgent, combatOf, asked>>
  /\ UNCHANGED <<online, argent, issued, waitingActors, session, made, acted, conn>>

OnMessageCombatBeginResponse(s) ==
  /\ HasSession(s) /\ Receives(s, "begun")
  /\ LET m == Head(up[s])
     IN IF ~Known(m) THEN UNCHANGED <<combats, byArgent, combatOf, asked>>
        ELSE IF m.ok THEN Answer(byArgent[m.combat]) /\ UNCHANGED <<combats, byArgent, combatOf>>
        ELSE Refuse(byArgent[m.combat])
  /\ UNCHANGED <<online, argent, issued, waitingActors, session, made, acted, conn, down>>

\* OnMessageCombatReconnectResponse, OnMessageCombatArgentSync: passed on to the
\* players they are for, as far as the combat and they are there.
Forward(s) ==
  /\ HasSession(s) /\ (Receives(s, "reconnected") \/ Receives(s, "sync"))
  /\ UNCHANGED <<gatewayVars, conn, down>>

OnMessageCombatSettlementSync(s) ==
  /\ HasSession(s) /\ Receives(s, "settlement")
  /\ LET m == Head(up[s])
     IN IF Known(m) THEN Deallocate(byArgent[m.combat]) ELSE UNCHANGED <<combats, byArgent, combatOf>>
  /\ UNCHANGED <<online, argent, issued, waitingActors, session, asked, made, acted, conn, down>>

-----------------------------------------------------------------------------
(* The connection to the combat server *)

\* CombatSessions::OnConnected.
OnSessionConnected(s) ==
  /\ Receives(s, "open")
  /\ session' = s
  /\ UNCHANGED <<online, argent, issued, combatOf, waitingActors, combats, byArgent, asked, made,
                 acted, conn, down>>

\* CombatSessions::OnClose and OnError: nobody connects again, the combats stay.
OnSessionClosed(s) ==
  /\ Receives(s, "close")
  /\ session' = 0
  /\ UNCHANGED <<online, argent, issued, combatOf, waitingActors, combats, byArgent, asked, made,
                 acted, conn, down>>

\* The process ends, a new one starts and connects: everything it knew is gone.
Restart ==
  /\ Current < MaxSessions
  /\ conn' = [conn EXCEPT ![Current] = "broken", ![Current + 1] = "connecting"]
  /\ up' = [up EXCEPT ![Current] = <<>>]
  /\ IF conn[Current] = "up"
     THEN \E lost \in BOOLEAN : down' = [down EXCEPT ![Current] = Cut(@, lost)]
     ELSE UNCHANGED down
  /\ online' = {}
  /\ argent' = [n \in Names |-> 0] /\ issued' = 0
  /\ combatOf' = [n \in Names |-> 0]
  /\ waitingActors' = {}
  /\ combats' = NoCombats /\ byArgent' = NoCombats
  /\ session' = 0
  /\ asked' = {}
  /\ UNCHANGED <<made, acted>>

GatewayReceives ==
  \E s \in Sessions :
    \/ OnMessageCombatDeployResponse(s) \/ OnMessageCombatConnectArgentResponse(s)
    \/ OnMessageCombatBeginResponse(s) \/ OnMessageCombatSettlementSync(s) \/ Forward(s)
    \/ OnSessionConnected(s) \/ OnSessionClosed(s)

GatewayNext ==
  \/ \E n \in Names :
       \/ OnMessageLoginRequest(n) \/ OnClose(n)
       \/ OnMessageCombatRequest(n) \/ OnMessageCombatActionRequest(n)
  \/ GatewayReceives
  \/ Restart

-----------------------------------------------------------------------------
(* Properties *)

GatewayType ==
  /\ conn \in [Sessions -> {"unused", "connecting", "up", "broken"}]
  /\ online \subseteq Names
  /\ argent \in [Names -> 0..issued] /\ issued \in 0..Cardinality(Names)
  /\ combatOf \in [Names -> 0..made] /\ made + acted \in 0..MaxRequests
  /\ DOMAIN combats \subseteq 1..made
  /\ \A id \in DOMAIN combats : Sides(id) \subseteq Names /\ combats[id].connected \in Nat
  /\ session \in 0..MaxSessions /\ asked \subseteq Names

\* No pointer of the gateway dangles: a CombatActor's combat exists and has it on
\* one side; who waits for an opponent is online and alone; and combats_ leads to the
\* combat that has the number.
GatewayPointers ==
  /\ \A n \in Names : combatOf[n] # 0 =>
       combatOf[n] \in DOMAIN combats /\ n \in Sides(combatOf[n])
  /\ waitingActors \subseteq online
  /\ Cardinality(waitingActors) <= 1
  /\ \A k \in DOMAIN byArgent :
       byArgent[k] \in DOMAIN combats /\ combats[byArgent[k]].key = k

=============================================================================
