---------------------------- MODULE CombatServer ----------------------------
(***************************************************************************)
(* combat/server: sessions with gateways, the fields of their combats and  *)
(* the roles that fight in them.                                           *)
(*                                                                         *)
(* CombatRoleField objects come from a pool and go back to it.  A field    *)
(* returns them as they are: not finalized, still among the roles of their *)
(* session.  What happens on a field is left out: all that is seen of it   *)
(* here is that a begun combat ends.  The pool is taken to be large        *)
(* enough, and memory not to run out.                                      *)
(***************************************************************************)
EXTENDS CombatLink, SequencesExt

CONSTANTS Roles,   \* CombatRoleField objects
          NoField  \* no field

ASSUME RolesAssumption == IsFiniteSet(Roles)

VARIABLES
  sessions,        \* app_sessions_
  sessionFields,   \* connected_combats_ of each session
  sessionRoles,    \* connected_roles_
  fields,          \* combats_ of the CombatFieldManager
  allocated,       \* its ids_
  manager,         \* roles_ of the CombatRoleFieldManager: objects by argent id
  role,            \* the objects
  pool             \* those that are not in use

serverVars == <<sessions, sessionFields, sessionRoles, fields, allocated, manager, role, pool>>

Pooled == CHOOSE seq \in SetToSeqs(Roles) : TRUE

ServerInit ==
  /\ sessions = {}
  /\ sessionFields = [s \in Sessions |-> {}] /\ sessionRoles = sessionFields
  /\ fields = [f \in {} |-> NoField] /\ allocated = 0
  /\ manager = [a \in {} |-> NoField]
  /\ role = [r \in Roles |-> [session |-> 0, field |-> 0]]
  /\ pool = Pooled

SendUp(s, messages) == up' = Sending(up, s, messages)

Takes(s, kind) == s \in sessions /\ Received(down, s, kind) /\ down' = [down EXCEPT ![s] = Tail(@)]

-----------------------------------------------------------------------------
(* Sessions *)

AddSession(s) == sessions' = sessions \union {s}
RemoveSession(s) == sessions' = sessions \ {s}

OnServerConnected(s) ==
  /\ Received(down, s, "open")
  /\ down' = [down EXCEPT ![s] = Tail(@)]
  /\ AddSession(s)
  /\ UNCHANGED <<sessionFields, sessionRoles, fields, allocated, manager, role, pool, conn, up>>

\* Mutant of DeleteSession: its roles are forgotten.
DeleteSessionOnly(s) ==
  /\ fields' = [f \in DOMAIN fields |->
                  IF f \in sessionFields[s] THEN [fields[f] EXCEPT !.session = 0] ELSE fields[f]]
  /\ UNCHANGED role

\* The destructor of AppSession: who knows the session forgets it.
DeleteSession(s) ==
  /\ fields' = [f \in DOMAIN fields |->
                  IF f \in sessionFields[s] THEN [fields[f] EXCEPT !.session = 0] ELSE fields[f]]
  /\ role' = [r \in Roles |->
                IF r \in sessionRoles[s] THEN [role[r] EXCEPT !.session = 0] ELSE role[r]]

OnServerClosed(s) ==
  /\ Takes(s, "close")
  /\ RemoveSession(s)
  /\ DeleteSession(s)
  /\ sessionFields' = [sessionFields EXCEPT ![s] = {}]
  /\ sessionRoles' = [sessionRoles EXCEPT ![s] = {}]
  /\ UNCHANGED <<allocated, manager, pool, conn, up>>

-----------------------------------------------------------------------------
(* Requests of the gateway *)

\* CombatRoleField::Initialize with AddRole, and Finalize.
FreshRole(f) == [session |-> 0, field |-> f]
FinalizedRole == [session |-> 0, field |-> 0]

\* CombatField::Initialize; and what the managers of the fields and the roles do.
NewField(s, roles) == [session |-> s, roles |-> roles, begun |-> FALSE]

AddField(f, field) == fields' = [g \in DOMAIN fields \union {f} |-> IF g = f THEN field ELSE fields[g]]
RemoveField(f) == fields' = Restrict(fields, DOMAIN fields \ {f})

AddRole(roles, a, r) == [b \in DOMAIN roles \union {a} |-> IF b = a THEN r ELSE roles[b]]
RemoveRoles(roles, gone) == Restrict(roles, DOMAIN roles \ gone)

Deployed(host, combat) == <<[kind |-> "deployed", host |-> host, combat |-> combat]>>

\* A role that has a field, or comes twice, cannot come in.  What was set up is
\* taken down: the role that failed is finalized, the one before it is not.
OnMessageCombatDeployRequest(s) ==
  /\ Takes(s, "deploy")
  /\ Len(pool) >= 2   \* (Bound: the pool is large enough.)
  /\ allocated' = allocated + 1
  /\ LET m == Head(down[s])
         first == pool[1]
         second == pool[2]
     IN IF m.left \in DOMAIN manager
        THEN /\ role' = [role EXCEPT ![first] = FinalizedRole]
             /\ pool' = Append(Tail(pool), first)
             /\ SendUp(s, Deployed(m.host, NoField))
             /\ UNCHANGED <<fields, manager, sessionFields>>
        ELSE IF m.right \in DOMAIN manager \union {m.left}
        THEN /\ role' = [role EXCEPT ![first] = FreshRole(allocated'), ![second] = FinalizedRole]
             /\ pool' = Tail(Tail(pool)) \o <<second, first>>
             /\ SendUp(s, Deployed(m.host, NoField))
             /\ UNCHANGED <<fields, manager, sessionFields>>
        ELSE /\ role' = [role EXCEPT ![first] = FreshRole(allocated'), ![second] = FreshRole(allocated')]
             /\ pool' = Tail(Tail(pool))
             /\ manager' = AddRole(AddRole(manager, m.left, first), m.right, second)
             /\ AddField(allocated', NewField(s, {m.left, m.right}))
             /\ sessionFields' = [sessionFields EXCEPT ![s] = @ \union {allocated'}]
             /\ SendUp(s, Deployed(m.host, allocated'))
  /\ UNCHANGED <<sessions, sessionRoles, conn>>

\* SetAppSession: the session the role had before is not told.
SetAppSession(a, s) ==
  /\ role' = [role EXCEPT ![manager[a]].session = s]
  /\ sessionRoles' = [sessionRoles EXCEPT ![s] = @ \union {manager[a]}]

OnMessageCombatConnectArgentRequest(s) ==
  /\ Takes(s, "connect")
  /\ LET m == Head(down[s])
         known == m.role \in DOMAIN manager
     IN /\ IF known THEN SetAppSession(m.role, s) ELSE UNCHANGED <<role, sessionRoles>>
        /\ SendUp(s, <<[kind |-> "connected", combat |-> m.combat, ok |-> known]>>)
  /\ UNCHANGED <<sessions, sessionFields, fields, allocated, manager, pool, conn>>

\* What cannot be found is not answered.
OnMessageCombatReconnectRequest(s) ==
  /\ Takes(s, "reconnect")
  /\ LET m == Head(down[s])
     IN IF m.role \in DOMAIN manager /\ m.combat \in DOMAIN fields
        THEN SetAppSession(m.role, s) /\ SendUp(s, <<[kind |-> "reconnected", combat |-> m.combat]>>)
        ELSE UNCHANGED <<role, sessionRoles, up>>
  /\ UNCHANGED <<sessions, sessionFields, fields, allocated, manager, pool, conn>>

\* The timers of the field start, the settlement among them.
SetTimers(f) == fields' = [fields EXCEPT ![f].begun = TRUE]

OnMessageCombatBeginRequest(s) ==
  /\ Takes(s, "begin")
  /\ LET m == Head(down[s])
         known == m.combat \in DOMAIN fields
     IN /\ IF known THEN SetTimers(m.combat) ELSE UNCHANGED fields
        /\ SendUp(s, <<[kind |-> "begun", combat |-> m.combat, ok |-> known]>>)
  /\ UNCHANGED <<sessions, sessionFields, sessionRoles, allocated, manager, role, pool, conn>>

\* To each role of the field over the session that the role has.
BroadcastMessage(f) ==
  LET To(t) == [i \in 1..Cardinality({a \in fields[f].roles : role[manager[a]].session = t}) |->
                  [kind |-> "sync", combat |-> f]]
  IN up' = [t \in Sessions |-> IF conn[t] = "up" THEN up[t] \o To(t) ELSE up[t]]

\* An action, which is broadcast.
OnMessageCombatArgentRequest(s) ==
  /\ Takes(s, "action")
  /\ LET m == Head(down[s])
     IN IF m.role \in DOMAIN manager THEN BroadcastMessage(role[manager[m.role]].field)
        ELSE UNCHANGED up
  /\ UNCHANGED <<serverVars, conn>>

-----------------------------------------------------------------------------
(* The end of a combat *)

\* The numbers in the order in which an std::set lists them.
InOrder(set) ==
  CHOOSE seq \in SetToSeqs(set) : \A i, j \in DOMAIN seq : i < j => seq[i] < seq[j]

\* CombatField::Finalize, then the field is gone.
Finalize(f) ==
  LET gone == InOrder(fields[f].roles)
  IN /\ RemoveField(f)
     /\ sessionFields' = [s \in Sessions |-> sessionFields[s] \ {f}]
     /\ manager' = RemoveRoles(manager, fields[f].roles)
     /\ pool' = pool \o [i \in DOMAIN gone |-> manager[gone[i]]]

\* CombatField::SendMessage.
SendSettlement(f) ==
  IF fields[f].session = 0 THEN UNCHANGED up
  ELSE SendUp(fields[f].session, <<[kind |-> "settlement", combat |-> f]>>)

\* Mutant of OnRequireCombatSettle: the field has no session any more when the
\* settlement is sent.
SettleAfterFinalize(f) ==
  /\ f \in DOMAIN fields /\ fields[f].begun
  /\ Finalize(f)
  /\ UNCHANGED <<sessions, sessionRoles, allocated, role, linkVars>>

\* By OnTimerSettle, or when one camp has all buildings.
OnRequireCombatSettle(f) ==
  /\ f \in DOMAIN fields /\ fields[f].begun
  /\ SendSettlement(f)
  /\ Finalize(f)
  /\ UNCHANGED <<sessions, sessionRoles, allocated, role, conn, down>>

ServerReceives ==
  \E s \in Sessions :
    \/ OnServerConnected(s) \/ OnServerClosed(s)
    \/ OnMessageCombatDeployRequest(s) \/ OnMessageCombatConnectArgentRequest(s)
    \/ OnMessageCombatReconnectRequest(s) \/ OnMessageCombatBeginRequest(s)
    \/ OnMessageCombatArgentRequest(s)

ServerNext == ServerReceives \/ \E f \in DOMAIN fields : OnRequireCombatSettle(f)

-----------------------------------------------------------------------------
(* Properties *)

InPool == ToSet(pool)
InUse == {manager[a] : a \in DOMAIN manager}

ServerType ==
  /\ sessions \subseteq Sessions
  /\ sessionFields \in [Sessions -> SUBSET (1..allocated)]
  /\ sessionRoles \in [Sessions -> SUBSET Roles]
  /\ \A f \in DOMAIN fields :
       f \in 1..allocated /\ fields[f].session \in Sessions \union {0} /\ fields[f].begun \in BOOLEAN
  /\ role \in [Roles -> [session : Sessions \union {0}, field : 0..allocated]]
  /\ pool \in Seq(Roles)
  /\ InPool \union InUse = Roles /\ InPool \intersect InUse = {} /\ IsInjective(pool)

\* A role that can be found has a field, which has the role: it is the one that
\* the role's actions go to.  Whoever has a session has an open one, which knows
\* of it and will tell it of its end; that holds also for the objects in the pool,
\* which a session still knows.
ServerPointers ==
  /\ \A a \in DOMAIN manager :
       LET f == role[manager[a]].field IN f \in DOMAIN fields /\ a \in fields[f].roles
  /\ \A f \in DOMAIN fields : \A a \in fields[f].roles :
       a \in DOMAIN manager /\ role[manager[a]].field = f
  /\ \A a, b \in DOMAIN manager : manager[a] = manager[b] => a = b
  /\ \A f \in DOMAIN fields : fields[f].session # 0 =>
       fields[f].session \in sessions /\ f \in sessionFields[fields[f].session]
  /\ \A r \in Roles : role[r].session # 0 =>
       role[r].session \in sessions /\ r \in sessionRoles[role[r].session]
  /\ \A s \in Sessions : sessionFields[s] \subseteq DOMAIN fields

=============================================================================
