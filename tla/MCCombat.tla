------------------------------ MODULE MCCombat ------------------------------
(* The gateway and the combat server at the two ends of their connections. *)
EXTENDS Gateway, CombatServer

CONSTANT Watched
ASSUME WatchedAssumption == Watched \in Names

\* An answer that says that there is no field has no number.
ASSUME AnswerAssumption == NoField = None /\ None \notin Nat

combatVars == <<gatewayVars, serverVars, linkVars>>

CombatInit == LinkInit /\ GatewayInit /\ ServerInit

CombatReceives ==
  \/ GatewayReceives /\ UNCHANGED serverVars
  \/ ServerReceives /\ UNCHANGED gatewayVars

CombatNext ==
  \/ (Connects \/ Breaks) /\ UNCHANGED <<gatewayVars, serverVars>>
  \/ GatewayNext /\ UNCHANGED serverVars
  \/ ServerNext /\ UNCHANGED gatewayVars

\* Messages are received: one of the event loops runs while one waits.
CombatSpec == CombatInit /\ [][CombatNext]_combatVars /\ WF_combatVars(CombatReceives)

-----------------------------------------------------------------------------
(* Properties *)

\* No pointer dangles, in the gateway and in the combat server.
PointersKept == GatewayType /\ ServerType /\ GatewayPointers /\ ServerPointers

Under(channel, s, kind, k) ==
  \E i \in DOMAIN channel[s] : channel[s][i].kind = kind /\ channel[s][i].combat = k

\* As long as the connection lasts, both ends have the same combats: what the
\* gateway has deployed is a field of this connection or settled by a message on
\* its way, and every field is known to the gateway or announced by a message on
\* its way.  A combat begins only when both roles have joined, which each does once.
InStep ==
  /\ \A id \in DOMAIN combats : combats[id].connected <= 2
  /\ session # 0 /\ conn[session] = "up" =>
    /\ \A k \in DOMAIN byArgent :
         \/ k \in DOMAIN fields /\ fields[k].session = session
         \/ Under(up, session, "settlement", k)
    /\ \A f \in DOMAIN fields : fields[f].session = session =>
         \/ f \in DOMAIN byArgent
         \/ Under(up, session, "deployed", f)
    /\ \A k \in DOMAIN byArgent :
         Under(down, session, "begin", k) \/ (k \in DOMAIN fields /\ fields[k].begun) =>
           combats[byArgent[k]].connected = 2

Paired(n) == n \in asked /\ n \notin waitingActors

\* Who has asked for a combat and got an opponent is told how it went, unless the
\* connection is lost (then nobody is told).  The names are alike: one is watched.
Answered == Paired(Watched) ~> ~Paired(Watched) \/ session = 0

=============================================================================
