---------------------------- MODULE CombatProofs -----------------------------
(***************************************************************************)
(* Proofs about the gateway and the combat server at the two ends of their *)
(* connections, for any number of players, roles, connections and combats, *)
(* whatever is lost and however often players come and go or the gateway   *)
(* restarts: no pointer dangles (IInv); and as long as a connection lasts, *)
(* both ends and the messages between them agree on the combats (JInv).    *)
(***************************************************************************)
EXTENDS MCCombat, FiniteSetTheorems, SequenceTheorems, TLAPS

-----------------------------------------------------------------------------
(* Messages on their way. *)

\* A combat is known to the gateway under a number of its own, the host, until the combat
\* server has answered with one of its: these messages have a host.
Hosted == {"deploy", "deployed"}
Hosts(q) == {q[i].host : i \in {j \in DOMAIN q : q[j].kind \in Hosted}}
OnceHosted(q) ==
  \A i, j \in DOMAIN q :
    q[i].kind \in Hosted /\ q[j].kind \in Hosted /\ q[i].host = q[j].host => i = j
Quiet(q) == \A i \in DOMAIN q : q[i].kind \notin Hosted

Keys == Nat \union {None, NoField}

\* Their hosts are among the first n.
DownMessage(n) ==
       [kind : {"open", "close"}]
  \cup [kind : {"deploy"}, host : 1..n, left : Nat, right : Nat]
  \cup [kind : {"connect", "reconnect"}, combat : Keys, role : Nat]
  \cup [kind : {"action"}, role : Nat]
  \cup [kind : {"begin"}, combat : Keys]

UpMessage(n) ==
       [kind : {"open", "close"}]
  \cup [kind : {"deployed"}, host : 1..n, combat : Keys]
  \cup [kind : {"connected", "begun"}, combat : Keys, ok : BOOLEAN]
  \cup [kind : {"reconnected", "sync", "settlement"}, combat : Keys]

LEMMA HostsConcat ==
  ASSUME NEW M, NEW q \in Seq(M), NEW p \in Seq(M)
  PROVE  /\ q \o p \in Seq(M)
         /\ Hosts(q \o p) = Hosts(q) \union Hosts(p)
         /\ OnceHosted(q) /\ OnceHosted(p) /\ Hosts(q) \intersect Hosts(p) = {} => OnceHosted(q \o p)
<1> DEFINE r == q \o p
<1>1. /\ r \in Seq(M) /\ Len(r) = Len(q) + Len(p)
      /\ \A i \in 1..(Len(q) + Len(p)) : r[i] = IF i <= Len(q) THEN q[i] ELSE p[i - Len(q)]
  BY ConcatProperties
<1>2. /\ DOMAIN r = 1..(Len(q) + Len(p)) /\ DOMAIN q = 1..Len(q) /\ DOMAIN p = 1..Len(p)
      /\ Len(q) \in Nat /\ Len(p) \in Nat
  BY <1>1
<1> HIDE DEF r
<1>3. \A i \in DOMAIN q : i \in DOMAIN r /\ r[i] = q[i]
  BY <1>1, <1>2
<1>4. \A i \in DOMAIN p : Len(q) + i \in DOMAIN r /\ r[Len(q) + i] = p[i]
  BY <1>1, <1>2
<1>5. \A i \in DOMAIN r : \/ i \in DOMAIN q
                          \/ i - Len(q) \in DOMAIN p /\ i = Len(q) + (i - Len(q))
  BY <1>2
<1>6. Hosts(r) = Hosts(q) \union Hosts(p)
  <2>1. ASSUME NEW h \in Hosts(r) PROVE h \in Hosts(q) \union Hosts(p)
    <3>1. PICK i \in DOMAIN r : r[i].kind \in Hosted /\ r[i].host = h
      BY <2>1 DEF Hosts
    <3>2. CASE i \in DOMAIN q
      BY <1>3, <3>1, <3>2 DEF Hosts
    <3>3. CASE i - Len(q) \in DOMAIN p /\ i = Len(q) + (i - Len(q))
      BY <1>4, <3>1, <3>3 DEF Hosts
    <3> QED
      BY <1>5, <3>2, <3>3
  <2>2. ASSUME NEW h \in Hosts(q) PROVE h \in Hosts(r)
    BY <1>3, <2>2 DEF Hosts
  <2>3. ASSUME NEW h \in Hosts(p) PROVE h \in Hosts(r)
    BY <1>4, <2>3 DEF Hosts
  <2> QED
    BY <2>1, <2>2, <2>3
<1>7. ASSUME OnceHosted(q), OnceHosted(p), Hosts(q) \intersect Hosts(p) = {} PROVE OnceHosted(r)
  <2> SUFFICES ASSUME NEW i \in DOMAIN r, NEW j \in DOMAIN r,
                      r[i].kind \in Hosted, r[j].kind \in Hosted, r[i].host = r[j].host
               PROVE  i = j
    BY DEF OnceHosted
  <2>1. CASE i \in DOMAIN q /\ j \in DOMAIN q
    BY <1>3, <1>7, <2>1 DEF OnceHosted
  <2>0. ASSUME NEW k \in DOMAIN q, NEW l \in DOMAIN r, l \notin DOMAIN q,
               r[k].kind \in Hosted, r[l].kind \in Hosted, r[k].host = r[l].host
        PROVE  FALSE
    <3>1. q[k] = r[k] /\ l - Len(q) \in DOMAIN p /\ p[l - Len(q)] = r[l]
      BY <1>3, <1>4, <1>5, <2>0
    <3>2. r[k].host \in Hosts(q) /\ r[l].host \in Hosts(p)
      BY <2>0, <3>1 DEF Hosts
    <3> QED
      BY <1>7, <2>0, <3>2
  <2>2. CASE i \in DOMAIN q /\ j \notin DOMAIN q
    BY <2>0, <2>2
  <2>3. CASE i \notin DOMAIN q /\ j \in DOMAIN q
    BY <2>0, <2>3
  <2>4. CASE i \notin DOMAIN q /\ j \notin DOMAIN q
    <3>1. /\ i - Len(q) \in DOMAIN p /\ p[i - Len(q)] = r[i]
          /\ j - Len(q) \in DOMAIN p /\ p[j - Len(q)] = r[j]
      BY <1>4, <1>5, <2>4
    <3>2. i - Len(q) = j - Len(q)
      BY <1>7, <3>1 DEF OnceHosted
    <3> QED
      BY <1>2, <3>2
  <2> QED
    BY <2>1, <2>2, <2>3, <2>4
<1> QED
  BY <1>1, <1>6, <1>7 DEF r

LEMMA HostsTail ==
  ASSUME NEW M, NEW q \in Seq(M), q # <<>>
  PROVE  /\ Tail(q) \in Seq(M) /\ Head(q) \in M
         /\ Hosts(Tail(q)) \subseteq Hosts(q)
         /\ OnceHosted(q) => OnceHosted(Tail(q))
         /\ Head(q).kind \in Hosted =>
              /\ Head(q).host \in Hosts(q)
              /\ OnceHosted(q) => Head(q).host \notin Hosts(Tail(q))
<1>1. /\ Tail(q) \in Seq(M) /\ Head(q) \in M /\ Head(q) = q[1] /\ 1 \in DOMAIN q
      /\ \A i \in DOMAIN Tail(q) : i \in Nat \ {0} /\ i + 1 \in DOMAIN q /\ Tail(q)[i] = q[i + 1]
  OBVIOUS
<1> DEFINE t == Tail(q)
<1> HIDE DEF t
<1>2. Hosts(t) \subseteq Hosts(q)
  BY <1>1 DEF Hosts, t
<1>3. ASSUME OnceHosted(q) PROVE OnceHosted(t)
  <2> SUFFICES ASSUME NEW i \in DOMAIN t, NEW j \in DOMAIN t,
                      t[i].kind \in Hosted, t[j].kind \in Hosted, t[i].host = t[j].host
               PROVE  i = j
    BY DEF OnceHosted
  <2>1. i + 1 = j + 1
    BY <1>1, <1>3 DEF OnceHosted, t
  <2> QED
    BY <1>1, <2>1 DEF t
<1>4. ASSUME Head(q).kind \in Hosted PROVE Head(q).host \in Hosts(q)
  BY <1>1, <1>4 DEF Hosts
<1>5. ASSUME Head(q).kind \in Hosted, OnceHosted(q), Head(q).host \in Hosts(t) PROVE FALSE
  <2>1. PICK i \in DOMAIN t : t[i].kind \in Hosted /\ t[i].host = Head(q).host
    BY <1>5 DEF Hosts
  <2>2. i + 1 = 1
    BY <1>1, <1>5, <2>1 DEF OnceHosted, t
  <2> QED
    BY <1>1, <2>2 DEF t
<1> QED
  BY <1>1, <1>2, <1>3, <1>4, <1>5 DEF t

LEMMA HostsQuiet ==
  ASSUME NEW q, Quiet(q)
  PROVE  Hosts(q) = {} /\ OnceHosted(q)
BY DEF Quiet, Hosts, OnceHosted

-----------------------------------------------------------------------------
(* The gateway. *)

\* The argent ids are counted: no more of them than there are names.
Counted ==
  /\ issued = Cardinality({n \in Names : argent[n] # 0})
  /\ made \in Nat /\ acted \in Nat

GInv == GatewayType /\ GatewayPointers /\ Counted

\* What a step that leaves the combats alone has to keep.
LEMMA CombatsAlone ==
  ASSUME GInv, GatewayType', Counted', UNCHANGED <<combatOf, combats, byArgent>>,
         waitingActors' \subseteq online', Cardinality(waitingActors') <= 1
  PROVE  GInv'
BY DEF GInv, GatewayPointers, Sides

LEMMA WaitingFinite ==
  ASSUME GInv
  PROVE  IsFiniteSet(waitingActors)
BY GatewayAssumption, FS_Subset DEF GInv, GatewayType, GatewayPointers

LEMMA OnCloseInv ==
  ASSUME GInv, NEW n \in Names, OnClose(n)
  PROVE  GInv'
<1>1. /\ online' = online \ {n} /\ waitingActors' = waitingActors \ {n} /\ asked' = asked \ {n}
      /\ UNCHANGED <<argent, combatOf, issued, combats, byArgent, session, made, acted, conn>>
  BY DEF OnClose, DeleteActor, RemoveActor, Offline, linkVars
<1>2. GatewayType' /\ Counted'
  BY <1>1 DEF GInv, GatewayType, Counted, Sides
<1>3. waitingActors' \subseteq online'
  BY <1>1 DEF GInv, GatewayPointers
<1>4. Cardinality(waitingActors') <= 1
  <2>1. Cardinality(waitingActors \ {n}) \in Nat /\ Cardinality(waitingActors \ {n}) <= Cardinality(waitingActors)
    BY WaitingFinite, FS_Subset, FS_CardinalityType
  <2>2. Cardinality(waitingActors) \in Nat /\ Cardinality(waitingActors) <= 1
    BY WaitingFinite, FS_CardinalityType DEF GInv, GatewayPointers
  <2> QED
    BY <1>1, <2>1, <2>2
<1> QED
  BY <1>1, <1>2, <1>3, <1>4, CombatsAlone

LEMMA AllocateActorKeeps ==
  ASSUME GInv, NEW n \in Names, argent[n] = 0, AllocateActor(n)
  PROVE  /\ argent' \in [Names -> 0..issued'] /\ issued' \in 0..Cardinality(Names)
         /\ issued' = Cardinality({m \in Names : argent'[m] # 0})
<1> DEFINE Has == {m \in Names : argent[m] # 0}
<1>1. /\ issued' = issued + 1 /\ argent' = [argent EXCEPT ![n] = issued + 1]
      /\ argent \in [Names -> 0..issued] /\ issued \in Nat /\ issued = Cardinality(Has)
  BY DEF AllocateActor, GInv, GatewayType, Counted
<1>2. argent' \in [Names -> 0..issued']
  BY <1>1
<1>3. {m \in Names : argent'[m] # 0} = Has \union {n}
  BY <1>1
<1>4. IsFiniteSet(Has) /\ n \notin Has /\ Has \union {n} \subseteq Names
  BY GatewayAssumption, FS_Subset
<1> HIDE DEF Has
<1>5. Cardinality(Has \union {n}) = Cardinality(Has) + 1
  BY <1>4, FS_AddElement
<1>6. /\ Cardinality(Has \union {n}) <= Cardinality(Names) /\ Cardinality(Names) \in Nat
  BY <1>4, GatewayAssumption, FS_Subset, FS_CardinalityType
<1> QED
  BY <1>1, <1>2, <1>3, <1>5, <1>6

LEMMA LoginInv ==
  ASSUME GInv, NEW n \in Names, OnMessageLoginRequest(n)
  PROVE  GInv'
<1>1. /\ online' = online \union {n}
      /\ IF argent[n] = 0 THEN AllocateActor(n) ELSE UNCHANGED <<argent, issued>>
      /\ \/ made + acted < MaxRequests /\ acted' = acted + 1
         \/ acted' = acted
      /\ UNCHANGED <<combatOf, waitingActors, combats, byArgent, session, asked, made, conn>>
  BY DEF OnMessageLoginRequest
<1>2. /\ argent' \in [Names -> 0..issued'] /\ issued' \in 0..Cardinality(Names)
      /\ issued' = Cardinality({m \in Names : argent'[m] # 0})
  <2>1. CASE argent[n] = 0
    BY <1>1, <2>1, AllocateActorKeeps
  <2>2. CASE argent[n] # 0
    BY <1>1, <2>2 DEF GInv, GatewayType, Counted
  <2> QED
    BY <2>1, <2>2
<1>3. acted' \in Nat /\ made' + acted' \in 0..MaxRequests
  BY <1>1, GatewayAssumption DEF GInv, GatewayType, Counted
<1>4. GatewayType' /\ Counted'
  BY <1>1, <1>2, <1>3 DEF GInv, GatewayType, Counted, Sides
<1> QED
  BY <1>1, <1>4, CombatsAlone DEF GInv, GatewayPointers

LEMMA PushCombatInv ==
  ASSUME GInv, NEW n \in Names, OnMessageCombatRequest(n)
  PROVE  GInv'
<1>1. /\ n \in online /\ PushCombat(n)
      /\ UNCHANGED <<online, argent, issued, byArgent, session, acted, conn>>
  BY DEF OnMessageCombatRequest
<1>2. CASE waitingActors = {}
  <2>1. /\ waitingActors' = {n} /\ asked' = asked \union {n}
        /\ UNCHANGED <<combatOf, combats, made>>
    BY <1>1, <1>2 DEF PushCombat
  <2>2. Cardinality(waitingActors') <= 1
    <3>1. Cardinality({n}) = 1
      BY FS_Singleton
    <3> QED
      BY <2>1, <3>1
  <2>3. GatewayType' /\ Counted'
    BY <1>1, <2>1 DEF GInv, GatewayType, Counted, Sides
  <2> QED
    BY <1>1, <2>1, <2>2, <2>3, CombatsAlone
<1>3. CASE waitingActors # {}
  <2>1. PICK right \in waitingActors :
          /\ made + acted < MaxRequests /\ Allocate(n, right)
          /\ \/ waitingActors' = waitingActors /\ Denied(n)
             \/ waitingActors' = waitingActors \ {right} /\ asked' = asked \union {n}
    BY <1>1, <1>3 DEF PushCombat
  <2>2. right \in Names
    BY DEF GInv, GatewayType, GatewayPointers
  <2>3. /\ made' = made + 1
        /\ combats' = [id \in DOMAIN combats \union {made'} |->
                         IF id = made' THEN [left |-> n, right |-> right, key |-> None, connected |-> 0]
                         ELSE combats[id]]
        /\ combatOf' = [combatOf EXCEPT ![n] = made', ![right] = made']
    BY <2>1 DEF Allocate
  <2>4. /\ made \in Nat /\ acted \in Nat /\ MaxRequests \in Nat /\ DOMAIN combats \subseteq 1..made
        /\ combatOf \in [Names -> 0..made]
    BY GatewayAssumption DEF GInv, GatewayType, Counted
  <2>5. /\ DOMAIN combats' = DOMAIN combats \union {made'} /\ made' \notin DOMAIN combats
        /\ made' \in Nat \ {0}
        /\ combats'[made'] = [left |-> n, right |-> right, key |-> None, connected |-> 0]
        /\ \A id \in DOMAIN combats : combats'[id] = combats[id]
    BY <2>3, <2>4
  <2>6. \A m \in Names : combatOf'[m] = IF m \in {n, right} THEN made' ELSE combatOf[m]
    BY <2>2, <2>3, <2>4
  <2>7. GatewayType'
    <3>1. combatOf' \in [Names -> 0..made'] /\ made' + acted' \in 0..MaxRequests
      <4>1. made' + acted' \in 0..MaxRequests
        BY <1>1, <2>1, <2>3, <2>4
      <4>2. \A m \in Names : combatOf'[m] \in 0..made'
        BY <2>3, <2>4, <2>6
      <4>3. combatOf' = [m \in Names |-> combatOf'[m]]
        BY <2>3, <2>4
      <4> QED
        BY <4>1, <4>2, <4>3
    <3>2. DOMAIN combats' \subseteq 1..made'
      BY <2>3, <2>4, <2>5
    <3>3. ASSUME NEW id \in DOMAIN combats'
          PROVE  {combats'[id].left, combats'[id].right} \subseteq Names /\ combats'[id].connected \in Nat
      BY <2>2, <2>5 DEF GInv, GatewayType, Sides
    <3>4. asked' \subseteq Names
      BY <2>1 DEF GInv, GatewayType, Denied
    <3> QED
      BY <1>1, <3>1, <3>2, <3>3, <3>4 DEF GInv, GatewayType, Sides
  <2>8. Counted'
    BY <1>1, <2>3, <2>4 DEF GInv, Counted
  <2>9. ASSUME NEW m \in Names, combatOf'[m] # 0
        PROVE  combatOf'[m] \in DOMAIN combats' /\ m \in {combats'[combatOf'[m]].left, combats'[combatOf'[m]].right}
    <3>1. CASE m \in {n, right}
      BY <2>5, <2>6, <3>1
    <3>2. CASE m \notin {n, right}
      BY <2>5, <2>6, <2>9, <3>2 DEF GInv, GatewayPointers, Sides
    <3> QED
      BY <3>1, <3>2
  <2>10. ASSUME NEW k \in DOMAIN byArgent'
         PROVE  byArgent'[k] \in DOMAIN combats' /\ combats'[byArgent'[k]].key = k
    BY <1>1, <2>5 DEF GInv, GatewayPointers
  <2>11. waitingActors' \subseteq online' /\ Cardinality(waitingActors') <= 1
    <3>1. Cardinality(waitingActors \ {right}) \in Nat /\ Cardinality(waitingActors \ {right}) <= Cardinality(waitingActors)
      BY WaitingFinite, FS_Subset, FS_CardinalityType
    <3>2. Cardinality(waitingActors) \in Nat /\ Cardinality(waitingActors) <= 1 /\ waitingActors \subseteq online
      BY WaitingFinite, FS_CardinalityType DEF GInv, GatewayPointers
    <3> QED
      BY <1>1, <2>1, <3>1, <3>2
  <2> QED
    BY <2>7, <2>8, <2>9, <2>10, <2>11 DEF GInv, GatewayPointers, Sides
<1> QED
  BY <1>2, <1>3

LEMMA ActionInv ==
  ASSUME GInv, NEW n, OnMessageCombatActionRequest(n)
  PROVE  GInv'
<1>1. /\ made + acted < MaxRequests /\ acted' = acted + 1
      /\ UNCHANGED <<online, argent, issued, combatOf, waitingActors, combats, byArgent, session>>
      /\ UNCHANGED <<asked, made, conn>>
  BY DEF OnMessageCombatActionRequest, gatewayState
<1>2. GatewayType' /\ Counted'
  BY <1>1, GatewayAssumption DEF GInv, GatewayType, Counted, Sides
<1> QED
  BY <1>1, <1>2, CombatsAlone DEF GInv, GatewayPointers

LEMMA DeallocateInv ==
  ASSUME GInv, NEW id \in DOMAIN combats, Deallocate(id), asked' \subseteq Names,
         UNCHANGED <<online, argent, issued, waitingActors, session, made, acted, conn>>
  PROVE  GInv'
<1>1. /\ combats' = [i \in DOMAIN combats \ {id} |-> combats[i]]
      /\ byArgent' = [k \in DOMAIN byArgent \ {combats[id].key} |-> byArgent[k]]
      /\ combatOf' = [n \in Names |-> IF n \in {combats[id].left, combats[id].right} THEN 0 ELSE combatOf[n]]
  BY DEF Deallocate, Restrict, RemoveCombat, Sides
<1>2. made \in Nat
  BY DEF GInv, Counted
<1>3. GatewayType'
  <2>1. combatOf' \in [Names -> 0..made']
    BY <1>1, <1>2 DEF GInv, GatewayType
  <2> QED
    BY <1>1, <2>1 DEF GInv, GatewayType, Sides
<1>4. Counted'
  BY DEF GInv, Counted
<1>5. ASSUME NEW n \in Names, combatOf'[n] # 0
      PROVE  combatOf'[n] \in DOMAIN combats' /\ n \in {combats'[combatOf'[n]].left, combats'[combatOf'[n]].right}
  <2>1. n \notin {combats[id].left, combats[id].right} /\ combatOf'[n] = combatOf[n]
    BY <1>1, <1>5
  <2>2. combatOf[n] \in DOMAIN combats /\ n \in {combats[combatOf[n]].left, combats[combatOf[n]].right}
    BY <1>5, <2>1 DEF GInv, GatewayPointers, Sides
  <2>3. combatOf[n] # id
    BY <2>1, <2>2
  <2> QED
    BY <1>1, <2>1, <2>2, <2>3
<1>6. ASSUME NEW k \in DOMAIN byArgent'
      PROVE  byArgent'[k] \in DOMAIN combats' /\ combats'[byArgent'[k]].key = k
  <2>1. k \in DOMAIN byArgent /\ k # combats[id].key /\ byArgent'[k] = byArgent[k]
    BY <1>1
  <2>2. byArgent[k] \in DOMAIN combats /\ combats[byArgent[k]].key = k
    BY <2>1 DEF GInv, GatewayPointers
  <2> QED
    BY <1>1, <2>1, <2>2
<1> QED
  BY <1>3, <1>4, <1>5, <1>6 DEF GInv, GatewayPointers, Sides

LEMMA RefuseInv ==
  ASSUME GInv, NEW id \in DOMAIN combats, Refuse(id),
         UNCHANGED <<online, argent, issued, waitingActors, session, made, acted, conn>>
  PROVE  GInv'
<1>1. Deallocate(id) /\ asked' \subseteq Names
  BY DEF Refuse, Answer, GInv, GatewayType
<1> QED
  BY <1>1, DeallocateInv

\* A step that changes nothing of the combats, their actors and their numbers.
LEMMA GatewayIdle ==
  ASSUME GInv, session' \in 0..MaxSessions, asked' \subseteq Names,
         conn' \in [Sessions -> {"unused", "connecting", "up", "broken"}],
         UNCHANGED <<online, argent, issued, combatOf, waitingActors, combats, byArgent, made, acted>>
  PROVE  GInv'
BY DEF GInv, GatewayType, GatewayPointers, Counted, Sides

\* The number that the combat server answers with is new to the Combat: it has none yet.
LEMMA DeployResponseInv ==
  ASSUME GInv, NEW s \in Sessions, OnMessageCombatDeployResponse(s),
         \A k \in DOMAIN byArgent : byArgent[k] # Head(up[s]).host
  PROVE  GInv'
<1> DEFINE m == Head(up[s])
<1>1. UNCHANGED <<online, argent, issued, waitingActors, session, made, acted, conn>>
  BY DEF OnMessageCombatDeployResponse
<1>2. CASE UNCHANGED <<combats, byArgent, combatOf, asked>>
  BY <1>1, <1>2, GatewayIdle DEF GInv, GatewayType
<1>3. CASE m.host \in DOMAIN combats /\ Refuse(m.host)
  BY <1>1, <1>3, RefuseInv
<1>4. CASE /\ m.host \in DOMAIN combats
           /\ combats' = [combats EXCEPT ![m.host].key = m.combat]
           /\ AddCombat(m.combat, m.host)
           /\ UNCHANGED <<combatOf, asked>>
  <2> DEFINE id == m.host  key == m.combat
  <2>1. /\ id \in DOMAIN combats /\ DOMAIN combats' = DOMAIN combats
        /\ combats'[id] = [combats[id] EXCEPT !.key = key]
        /\ \A i \in DOMAIN combats \ {id} : combats'[i] = combats[i]
    BY <1>4
  <2>2. /\ DOMAIN byArgent' = DOMAIN byArgent \union {key}
        /\ \A k \in DOMAIN byArgent : byArgent'[k] = byArgent[k]
        /\ key \notin DOMAIN byArgent => byArgent'[key] = id
    BY <1>4 DEF AddCombat
  <2>3. \A i \in DOMAIN combats : /\ combats'[i].left = combats[i].left
                                  /\ combats'[i].right = combats[i].right
                                  /\ combats'[i].connected = combats[i].connected
    BY <1>4
  <2>4. GatewayType' /\ Counted'
    BY <1>1, <1>4, <2>1, <2>3 DEF GInv, GatewayType, Counted, Sides
  <2>5. ASSUME NEW k \in DOMAIN byArgent'
        PROVE  byArgent'[k] \in DOMAIN combats' /\ combats'[byArgent'[k]].key = k
    <3>1. CASE k \in DOMAIN byArgent
      <4>1. byArgent[k] \in DOMAIN combats /\ combats[byArgent[k]].key = k /\ byArgent[k] # id
        BY <3>1 DEF GInv, GatewayPointers
      <4> QED
        BY <2>1, <2>2, <3>1, <4>1
    <3>2. CASE k \notin DOMAIN byArgent
      <4>1. k = key /\ byArgent'[k] = id
        BY <2>2, <2>5, <3>2
      <4>2. combats'[id].key = key
        BY <2>1, <2>2
      <4> QED
        BY <2>1, <4>1, <4>2
    <3> QED
      BY <3>1, <3>2
  <2> QED
    BY <1>1, <1>4, <2>1, <2>3, <2>4, <2>5 DEF GInv, GatewayPointers, Sides
<1> QED
  BY <1>2, <1>3, <1>4 DEF OnMessageCombatDeployResponse, GetPending

LEMMA ConnectResponseInv ==
  ASSUME GInv, NEW s \in Sessions, OnMessageCombatConnectArgentResponse(s)
  PROVE  GInv'
<1> DEFINE m == Head(up[s])
           id == byArgent[m.combat]
<1>1. UNCHANGED <<online, argent, issued, waitingActors, session, made, acted, conn>>
  BY DEF OnMessageCombatConnectArgentResponse
<1>2. CASE UNCHANGED <<combats, byArgent, combatOf, asked>>
  BY <1>1, <1>2, GatewayIdle DEF GInv, GatewayType
<1>3. CASE Known(m) /\ Refuse(id)
  <2>1. id \in DOMAIN combats
    BY <1>3 DEF Known, GInv, GatewayPointers
  <2> QED
    BY <1>1, <1>3, <2>1, RefuseInv
<1>4. CASE /\ Known(m)
           /\ combats' = [combats EXCEPT ![id].connected = @ + 1]
           /\ UNCHANGED <<byArgent, combatOf, asked>>
  <2>1. id \in DOMAIN combats /\ combats[id].connected \in Nat
    BY <1>4 DEF Known, GInv, GatewayType, GatewayPointers
  <2> HIDE DEF id
  <2>2. DOMAIN combats' = DOMAIN combats
    BY <1>4
  <2>3. \A i \in DOMAIN combats : /\ combats'[i].left = combats[i].left
                                  /\ combats'[i].right = combats[i].right
                                  /\ combats'[i].key = combats[i].key
    BY <1>4
  <2>4. ASSUME NEW i \in DOMAIN combats PROVE combats'[i].connected \in Nat
    <3>1. CASE i = id
      <4>1. combats'[id] = [combats[id] EXCEPT !.connected = @ + 1]
        BY <1>4, <2>1
      <4>2. \/ combats'[id].connected = combats[id].connected + 1
            \/ combats'[id].connected = combats[id].connected
        BY <4>1
      <4> QED
        BY <2>1, <3>1, <4>2
    <3>2. CASE i # id
      BY <1>4, <3>2 DEF GInv, GatewayType
    <3> QED
      BY <3>1, <3>2
  <2>5. GatewayType' /\ Counted'
    BY <1>1, <1>4, <2>2, <2>3, <2>4 DEF GInv, GatewayType, Counted, Sides
  <2> QED
    BY <1>1, <1>4, <2>2, <2>3, <2>5 DEF GInv, GatewayPointers, Sides
<1> QED
  BY <1>2, <1>3, <1>4 DEF OnMessageCombatConnectArgentResponse

LEMMA BeginResponseInv ==
  ASSUME GInv, NEW s \in Sessions, OnMessageCombatBeginResponse(s)
  PROVE  GInv'
<1> DEFINE m == Head(up[s])
           id == byArgent[m.combat]
<1>1. UNCHANGED <<online, argent, issued, waitingActors, session, made, acted, conn>>
  BY DEF OnMessageCombatBeginResponse
<1>2. CASE UNCHANGED <<combats, byArgent, combatOf>> /\ (UNCHANGED asked \/ Answer(id))
  BY <1>1, <1>2, GatewayIdle DEF GInv, GatewayType, Answer
<1>3. CASE Known(m) /\ Refuse(id)
  <2>1. id \in DOMAIN combats
    BY <1>3 DEF Known, GInv, GatewayPointers
  <2> QED
    BY <1>1, <1>3, <2>1, RefuseInv
<1> QED
  BY <1>2, <1>3 DEF OnMessageCombatBeginResponse

LEMMA SettlementInv ==
  ASSUME GInv, NEW s \in Sessions, OnMessageCombatSettlementSync(s)
  PROVE  GInv'
<1> DEFINE m == Head(up[s])
           id == byArgent[m.combat]
<1>1. UNCHANGED <<online, argent, issued, waitingActors, session, asked, made, acted, conn>>
  BY DEF OnMessageCombatSettlementSync
<1>2. CASE UNCHANGED <<combats, byArgent, combatOf>>
  BY <1>1, <1>2, GatewayIdle DEF GInv, GatewayType
<1>3. CASE Known(m) /\ Deallocate(id)
  <2>1. id \in DOMAIN combats /\ asked' \subseteq Names
    BY <1>1, <1>3 DEF Known, GInv, GatewayPointers, GatewayType
  <2> QED
    BY <1>1, <1>3, <2>1, DeallocateInv
<1> QED
  BY <1>2, <1>3 DEF OnMessageCombatSettlementSync

LEMMA RestartInv ==
  ASSUME GInv, Restart
  PROVE  GInv'
<1>1. /\ online' = {} /\ argent' = [n \in Names |-> 0] /\ issued' = 0
      /\ combatOf' = [n \in Names |-> 0] /\ waitingActors' = {}
      /\ DOMAIN combats' = {} /\ DOMAIN byArgent' = {} /\ session' = 0 /\ asked' = {}
      /\ UNCHANGED <<made, acted>>
      /\ conn' = [conn EXCEPT ![Current] = "broken", ![Current + 1] = "connecting"]
  BY DEF Restart, NoCombats
<1>2. conn' \in [Sessions -> {"unused", "connecting", "up", "broken"}]
  BY <1>1 DEF GInv, GatewayType
<1>3. issued' = Cardinality({n \in Names : argent'[n] # 0}) /\ Cardinality(waitingActors') <= 1
      /\ issued' \in 0..Cardinality(Names)
  <2> DEFINE has == {n \in Names : argent'[n] # 0}
  <2>1. has = {}
    BY <1>1
  <2>2. Cardinality({}) = 0 /\ Cardinality(Names) \in Nat
    BY FS_EmptySet, FS_CardinalityType, GatewayAssumption
  <2> HIDE DEF has
  <2>3. issued' = Cardinality(has) /\ Cardinality(waitingActors') <= 1 /\ issued' \in 0..Cardinality(Names)
    BY <1>1, <2>1, <2>2
  <2> QED
    BY <2>3 DEF has
<1>4. GatewayType'
  <2>1. session' \in 0..MaxSessions
    BY <1>1, LinkAssumption
  <2>2. combatOf' \in [Names -> 0..made'] /\ argent' \in [Names -> 0..issued']
    BY <1>1 DEF GInv, Counted
  <2>3. made' + acted' \in 0..MaxRequests
    BY <1>1 DEF GInv, GatewayType
  <2> QED
    BY <1>1, <1>2, <1>3, <2>1, <2>2, <2>3 DEF GatewayType, Sides
<1>5. GatewayPointers'
  BY <1>1, <1>3 DEF GatewayPointers
<1> QED
  BY <1>1, <1>3, <1>4, <1>5 DEF GInv, Counted

LEMMA GatewayStep ==
  ASSUME GInv, GatewayNext,
         \A s \in Sessions : Received(up, s, "deployed") =>
           \A k \in DOMAIN byArgent : byArgent[k] # Head(up[s]).host
  PROVE  GInv'
<1>1. ASSUME NEW n \in Names, OnMessageLoginRequest(n) PROVE GInv'
  BY <1>1, LoginInv
<1>2. ASSUME NEW n \in Names, OnClose(n) PROVE GInv'
  BY <1>2, OnCloseInv
<1>3. ASSUME NEW n \in Names, OnMessageCombatRequest(n) PROVE GInv'
  BY <1>3, PushCombatInv
<1>4. ASSUME NEW n \in Names, OnMessageCombatActionRequest(n) PROVE GInv'
  BY <1>4, ActionInv
<1>5. ASSUME NEW s \in Sessions, OnMessageCombatDeployResponse(s) PROVE GInv'
  <2>1. Received(up, s, "deployed")
    BY <1>5 DEF OnMessageCombatDeployResponse, Receives
  <2> QED
    BY <1>5, <2>1, DeployResponseInv
<1>6. ASSUME NEW s \in Sessions, OnMessageCombatConnectArgentResponse(s) PROVE GInv'
  BY <1>6, ConnectResponseInv
<1>7. ASSUME NEW s \in Sessions, OnMessageCombatBeginResponse(s) PROVE GInv'
  BY <1>7, BeginResponseInv
<1>8. ASSUME NEW s \in Sessions, OnMessageCombatSettlementSync(s) PROVE GInv'
  BY <1>8, SettlementInv
<1>9. ASSUME NEW s \in Sessions, Forward(s) PROVE GInv'
  BY <1>9, GatewayIdle DEF Forward, gatewayVars, gatewayState, GInv, GatewayType
<1>10. ASSUME NEW s \in Sessions, OnSessionConnected(s) \/ OnSessionClosed(s) PROVE GInv'
  <2>1. session' \in 0..MaxSessions
    BY <1>10, LinkAssumption DEF OnSessionConnected, OnSessionClosed, Sessions
  <2> QED
    BY <1>10, <2>1, GatewayIdle DEF OnSessionConnected, OnSessionClosed, GInv, GatewayType
<1>11. CASE Restart
  BY <1>11, RestartInv
<1> QED
  BY <1>1, <1>2, <1>3, <1>4, <1>5, <1>6, <1>7, <1>8, <1>9, <1>10, <1>11
     DEF GatewayNext, GatewayReceives

-----------------------------------------------------------------------------
(* The pool of the combat server. *)

LEMMA TailPool ==
  ASSUME NEW M, NEW q \in Seq(M), q # <<>>, IsInjective(q)
  PROVE  /\ Tail(q) \in Seq(M) /\ Head(q) = q[1] /\ q[1] \in M /\ q[1] \in ToSet(q)
         /\ IsInjective(Tail(q)) /\ ToSet(Tail(q)) = ToSet(q) \ {q[1]}
<1>1. /\ Tail(q) \in Seq(M) /\ Head(q) = q[1] /\ 1 \in DOMAIN q /\ q[1] \in M
      /\ DOMAIN q = 1..Len(q) /\ DOMAIN Tail(q) = 1..(Len(q) - 1) /\ Len(q) \in Nat \ {0}
      /\ \A i \in 1..(Len(q) - 1) : Tail(q)[i] = q[i + 1]
  OBVIOUS
<1> DEFINE t == Tail(q)
<1> HIDE DEF t
<1>2. IsInjective(t)
  BY <1>1 DEF IsInjective, t
<1>3. ASSUME NEW x \in ToSet(t) PROVE x \in ToSet(q) /\ x # q[1]
  BY <1>1, <1>3 DEF ToSet, IsInjective, t
<1>4. ASSUME NEW x \in ToSet(q), x # q[1] PROVE x \in ToSet(t)
  <2>1. PICK i \in 1..Len(q) : q[i] = x
    BY <1>1, <1>4 DEF ToSet
  <2>2. i # 1 /\ i - 1 \in 1..(Len(q) - 1) /\ (i - 1) + 1 = i
    BY <1>1, <1>4, <2>1
  <2>3. i - 1 \in DOMAIN t /\ t[i - 1] = x
    BY <1>1, <2>1, <2>2 DEF t
  <2> QED
    BY <2>3 DEF ToSet
<1>5. q[1] \in ToSet(q)
  BY <1>1 DEF ToSet
<1> QED
  BY <1>1, <1>2, <1>3, <1>4, <1>5 DEF t

LEMMA ConcatPool ==
  ASSUME NEW M, NEW q \in Seq(M), NEW p \in Seq(M), IsInjective(q), IsInjective(p),
         ToSet(q) \intersect ToSet(p) = {}
  PROVE  q \o p \in Seq(M) /\ IsInjective(q \o p) /\ ToSet(q \o p) = ToSet(q) \union ToSet(p)
<1> DEFINE r == q \o p
<1>1. /\ r \in Seq(M) /\ Len(r) = Len(q) + Len(p)
      /\ \A i \in 1..(Len(q) + Len(p)) : r[i] = IF i <= Len(q) THEN q[i] ELSE p[i - Len(q)]
  BY ConcatProperties
<1>2. /\ DOMAIN r = 1..(Len(q) + Len(p)) /\ DOMAIN q = 1..Len(q) /\ DOMAIN p = 1..Len(p)
      /\ Len(q) \in Nat /\ Len(p) \in Nat
  BY <1>1
<1> HIDE DEF r
<1>3. \A i \in DOMAIN q : i \in DOMAIN r /\ r[i] = q[i]
  BY <1>1, <1>2
<1>4. \A i \in DOMAIN p : Len(q) + i \in DOMAIN r /\ r[Len(q) + i] = p[i]
  BY <1>1, <1>2
<1>5. ASSUME NEW i \in DOMAIN r, i \notin DOMAIN q
      PROVE  i - Len(q) \in DOMAIN p /\ p[i - Len(q)] = r[i]
  BY <1>1, <1>2, <1>5
<1>6. ToSet(r) = ToSet(q) \union ToSet(p)
  <2>1. ASSUME NEW x \in ToSet(r) PROVE x \in ToSet(q) \union ToSet(p)
    BY <1>3, <1>5, <2>1 DEF ToSet
  <2>2. ASSUME NEW x \in ToSet(q) \union ToSet(p) PROVE x \in ToSet(r)
    BY <1>3, <1>4, <2>2 DEF ToSet
  <2> QED
    BY <2>1, <2>2
<1>7. IsInjective(r)
  <2> SUFFICES ASSUME NEW i \in DOMAIN r, NEW j \in DOMAIN r, r[i] = r[j]
               PROVE  i = j
    BY DEF IsInjective
  <2>1. ASSUME NEW k \in DOMAIN q, NEW l \in DOMAIN r, l \notin DOMAIN q, r[k] = r[l] PROVE FALSE
    <3>1. r[k] \in ToSet(q) /\ r[l] \in ToSet(p)
      BY <1>3, <1>5, <2>1 DEF ToSet
    <3> QED
      BY <2>1, <3>1
  <2>2. CASE i \in DOMAIN q /\ j \in DOMAIN q
    BY <1>3, <2>2 DEF IsInjective
  <2>3. CASE i \notin DOMAIN q /\ j \notin DOMAIN q
    <3>1. i - Len(q) = j - Len(q)
      BY <1>5, <2>3 DEF IsInjective
    <3> QED
      BY <1>2, <3>1
  <2> QED
    BY <2>1, <2>2, <2>3
<1> QED
  BY <1>1, <1>6, <1>7 DEF r

LEMMA LongPool ==
  ASSUME NEW M, NEW q \in Seq(M), Len(q) >= 1
  PROVE  q # <<>>
BY EmptySeq

LEMMA FunctionSeq ==
  ASSUME NEW M, NEW n \in Nat, NEW f \in [1..n -> M]
  PROVE  f \in Seq(M)
BY SeqDef

LEMMA OnePool ==
  ASSUME NEW M, NEW x \in M
  PROVE  <<x>> \in Seq(M) /\ IsInjective(<<x>>) /\ ToSet(<<x>>) = {x}
BY DEF IsInjective, ToSet

LEMMA TwoPool ==
  ASSUME NEW M, NEW x \in M, NEW y \in M, x # y
  PROVE  <<x, y>> \in Seq(M) /\ IsInjective(<<x, y>>) /\ ToSet(<<x, y>>) = {x, y}
<1>1. /\ <<x, y>> \in Seq(M) /\ DOMAIN <<x, y>> = {1, 2}
      /\ <<x, y>>[1] = x /\ <<x, y>>[2] = y
  OBVIOUS
<1> DEFINE s == <<x, y>>
<1> HIDE DEF s
<1> QED
  BY <1>1 DEF IsInjective, ToSet, s

\* The roles of a field, in order.
LEMMA InOrderFits ==
  ASSUME NEW l \in Nat, NEW r \in Nat, l # r
  PROVE  /\ InOrder({l, r}) \in Seq({l, r}) /\ DOMAIN InOrder({l, r}) = 1..2
         /\ IsInjective(InOrder({l, r})) /\ ToSet(InOrder({l, r})) = {l, r}
<1> DEFINE set == {l, r}
           Sorted(seq) == \A i, j \in DOMAIN seq : i < j => seq[i] < seq[j]
<1>1. Cardinality(set) = 2
  <2>1. IsFiniteSet({l}) /\ Cardinality({l}) = 1 /\ r \notin {l} /\ {l} \cup {r} = set
    BY FS_Singleton
  <2>2. Cardinality({l} \cup {r}) = 1 + 1
    BY <2>1, FS_AddElement
  <2> QED
    BY <2>1, <2>2
<1>2. ASSUME NEW a \in set, NEW b \in set, a < b
      PROVE  \E seq \in SetToSeqs(set) : Sorted(seq)
  <2> DEFINE w == [i \in 1..2 |-> IF i = 1 THEN a ELSE b]
  <2>1. w \in [1..2 -> set] /\ w[1] # w[2] /\ Sorted(w)
    BY <1>2
  <2>2. \A i, j \in 1..2 : i # j => w[i] # w[j]
    BY <2>1
  <2> HIDE DEF w, set
  <2>3. w \in SetToSeqs(set)
    BY <1>1, <2>1, <2>2 DEF SetToSeqs
  <2> QED
    BY <2>1, <2>3
<1>3. \E seq \in SetToSeqs(set) : Sorted(seq)
  <2>1. l < r \/ r < l
    OBVIOUS
  <2> QED
    BY <1>2, <2>1
<1> DEFINE o == InOrder(set)
<1>4. o \in SetToSeqs(set)
  <2> HIDE DEF set
  <2> QED
    BY <1>3 DEF InOrder
<1>5. o \in [1..2 -> set] /\ o[1] # o[2]
  <2> HIDE DEF set, o
  <2> QED
    BY <1>1, <1>4 DEF SetToSeqs
<1> HIDE DEF o
<1>6. o \in Seq(set) /\ DOMAIN o = 1..2
  <2> HIDE DEF set
  <2> QED
    BY <1>5, SeqDef
<1>7. IsInjective(o)
  BY <1>5 DEF IsInjective
<1>8. ToSet(o) = {o[1], o[2]}
  BY <1>5 DEF ToSet
<1>9. ToSet(o) = {l, r}
  BY <1>5, <1>8
<1> QED
  BY <1>6, <1>7, <1>9 DEF o

-----------------------------------------------------------------------------
(* The combat server. *)

\* A field is made for two different roles.
FieldType == [session : Sessions \union {0}, roles : SUBSET Nat, begun : BOOLEAN]

FieldsPaired ==
  /\ allocated \in Nat
  /\ \A f \in DOMAIN fields : fields[f] \in FieldType
  /\ \A f \in DOMAIN fields : \E l, r \in Nat : l # r /\ fields[f].roles = {l, r}

SInv == ServerType /\ ServerPointers /\ FieldsPaired

\* A step that leaves fields, roles and the pool alone.
LEMMA ServerIdle ==
  ASSUME SInv, sessions' \subseteq Sessions, sessions \subseteq sessions',
         UNCHANGED <<sessionFields, sessionRoles, fields, allocated, manager, role, pool>>
  PROVE  SInv'
<1>1. ServerType'
  BY DEF SInv, ServerType, InPool, InUse
<1>2. ServerPointers'
  BY DEF SInv, ServerPointers
<1> QED
  BY <1>1, <1>2 DEF SInv, FieldsPaired

LEMMA ServerClosedInv ==
  ASSUME SInv, NEW s \in Sessions, OnServerClosed(s)
  PROVE  SInv'
<1>1. /\ sessions' = sessions \ {s}
      /\ fields' = [f \in DOMAIN fields |->
                      IF f \in sessionFields[s] THEN [fields[f] EXCEPT !.session = 0] ELSE fields[f]]
      /\ role' = [r \in Roles |->
                    IF r \in sessionRoles[s] THEN [role[r] EXCEPT !.session = 0] ELSE role[r]]
      /\ sessionFields' = [sessionFields EXCEPT ![s] = {}]
      /\ sessionRoles' = [sessionRoles EXCEPT ![s] = {}]
      /\ UNCHANGED <<allocated, manager, pool>>
  BY DEF OnServerClosed, RemoveSession, DeleteSession
<1>2. ServerType /\ ServerPointers /\ FieldsPaired
  BY DEF SInv
<1>3. ASSUME NEW f \in DOMAIN fields
      PROVE  /\ fields'[f].roles = fields[f].roles /\ fields'[f].begun = fields[f].begun
             /\ fields'[f].session = IF f \in sessionFields[s] THEN 0 ELSE fields[f].session
  BY <1>1
<1>4. ASSUME NEW r \in Roles
      PROVE  /\ role'[r].field = role[r].field
             /\ role'[r].session = IF r \in sessionRoles[s] THEN 0 ELSE role[r].session
             /\ role'[r] \in [session : Sessions \union {0}, field : 0..allocated]
  <2>1. role[r] \in [session : Sessions \union {0}, field : 0..allocated]
    BY <1>2 DEF ServerType
  <2> QED
    BY <1>1, <2>1
<1>5. DOMAIN fields' = DOMAIN fields
  BY <1>1
<1>6. ServerType'
  <2>1. role' \in [Roles -> [session : Sessions \union {0}, field : 0..allocated']]
    BY <1>1, <1>4
  <2>2. /\ sessionFields' \in [Sessions -> SUBSET (1..allocated')]
        /\ sessionRoles' \in [Sessions -> SUBSET Roles]
    BY <1>1, <1>2 DEF ServerType
  <2>3. \A f \in DOMAIN fields' :
          f \in 1..allocated' /\ fields'[f].session \in Sessions \union {0} /\ fields'[f].begun \in BOOLEAN
    BY <1>1, <1>2, <1>3, <1>5 DEF ServerType
  <2> QED
    BY <1>1, <1>2, <2>1, <2>2, <2>3 DEF ServerType, InPool, InUse
<1>7. ServerPointers'
  <2>1. \A a \in DOMAIN manager : manager[a] \in Roles
    BY <1>2 DEF ServerType, InUse
  <2>2. \A a \in DOMAIN manager' :
          LET f == role'[manager'[a]].field IN f \in DOMAIN fields' /\ a \in fields'[f].roles
    BY <1>1, <1>2, <1>3, <1>4, <1>5, <2>1 DEF ServerPointers
  <2>3. \A f \in DOMAIN fields' : \A a \in fields'[f].roles :
          a \in DOMAIN manager' /\ role'[manager'[a]].field = f
    BY <1>1, <1>2, <1>3, <1>4, <1>5, <2>1 DEF ServerPointers
  <2>4. \A f \in DOMAIN fields' : fields'[f].session # 0 =>
          fields'[f].session \in sessions' /\ f \in sessionFields'[fields'[f].session]
    <3> SUFFICES ASSUME NEW f \in DOMAIN fields, fields'[f].session # 0
                 PROVE  fields'[f].session \in sessions' /\ f \in sessionFields'[fields'[f].session]
      BY <1>5
    <3>1. fields'[f].session = fields[f].session /\ f \notin sessionFields[s]
      BY <1>3
    <3>2. fields[f].session \in sessions /\ f \in sessionFields[fields[f].session]
      BY <1>2, <3>1 DEF ServerPointers
    <3>3. fields[f].session # s /\ fields[f].session \in Sessions
      BY <1>2, <3>1, <3>2 DEF ServerType
    <3> QED
      BY <1>1, <1>2, <3>1, <3>2, <3>3 DEF ServerType
  <2>5. \A r \in Roles : role'[r].session # 0 =>
          role'[r].session \in sessions' /\ r \in sessionRoles'[role'[r].session]
    <3> SUFFICES ASSUME NEW r \in Roles, role'[r].session # 0
                 PROVE  role'[r].session \in sessions' /\ r \in sessionRoles'[role'[r].session]
      OBVIOUS
    <3>1. role'[r].session = role[r].session /\ r \notin sessionRoles[s]
      BY <1>4
    <3>2. role[r].session \in sessions /\ r \in sessionRoles[role[r].session]
      BY <1>2, <3>1 DEF ServerPointers
    <3>3. role[r].session # s /\ role[r].session \in Sessions
      BY <1>2, <3>1, <3>2 DEF ServerType
    <3> QED
      BY <1>1, <1>2, <3>1, <3>2, <3>3 DEF ServerType
  <2>6. \A t \in Sessions : sessionFields'[t] \subseteq DOMAIN fields'
    BY <1>1, <1>2, <1>5 DEF ServerPointers, ServerType
  <2> QED
    BY <1>1, <1>2, <2>2, <2>3, <2>4, <2>5, <2>6 DEF ServerPointers
<1>8. FieldsPaired'
  <2>1. \A f \in DOMAIN fields' : fields'[f] \in FieldType
    BY <1>1, <1>2 DEF FieldsPaired, FieldType
  <2> QED
    BY <1>1, <1>2, <1>3, <1>5, <2>1 DEF FieldsPaired
<1> QED
  BY <1>6, <1>7, <1>8 DEF SInv

\* A role of the field gets a session, which gets the role.
LEMMA SetAppSessionInv ==
  ASSUME SInv, NEW s \in Sessions, s \in sessions, NEW a \in DOMAIN manager, SetAppSession(a, s),
         UNCHANGED <<sessions, sessionFields, fields, allocated, manager, pool>>
  PROVE  SInv'
<1>1. /\ role' = [role EXCEPT ![manager[a]].session = s]
      /\ sessionRoles' = [sessionRoles EXCEPT ![s] = sessionRoles[s] \union {manager[a]}]
  BY DEF SetAppSession
<1>2. ServerType /\ ServerPointers /\ FieldsPaired
  BY DEF SInv
<1>3. manager[a] \in Roles /\ \A b \in DOMAIN manager : manager[b] \in Roles
  BY <1>2 DEF ServerType, InUse
<1>4. ASSUME NEW r \in Roles
      PROVE  /\ role'[r].field = role[r].field
             /\ role'[r].session = IF r = manager[a] THEN s ELSE role[r].session
             /\ role'[r] \in [session : Sessions \union {0}, field : 0..allocated]
  <2>1. /\ role \in [Roles -> [session : Sessions \union {0}, field : 0..allocated]]
        /\ role[r] \in [session : Sessions \union {0}, field : 0..allocated]
    BY <1>2 DEF ServerType
  <2> QED
    BY <1>1, <2>1
<1>5. role' \in [Roles -> [session : Sessions \union {0}, field : 0..allocated]]
  BY <1>1, <1>2, <1>4 DEF ServerType
<1>6. ServerType'
  BY <1>1, <1>2, <1>3, <1>5 DEF ServerType, InPool, InUse
<1>7. ServerPointers'
  <2>1. \A b \in DOMAIN manager' :
          LET f == role'[manager'[b]].field IN f \in DOMAIN fields' /\ b \in fields'[f].roles
    BY <1>2, <1>3, <1>4 DEF ServerPointers
  <2>2. \A f \in DOMAIN fields' : \A b \in fields'[f].roles :
          b \in DOMAIN manager' /\ role'[manager'[b]].field = f
    BY <1>2, <1>3, <1>4 DEF ServerPointers
  <2>3. \A r \in Roles : role'[r].session # 0 =>
          role'[r].session \in sessions' /\ r \in sessionRoles'[role'[r].session]
    <3> SUFFICES ASSUME NEW r \in Roles, role'[r].session # 0
                 PROVE  role'[r].session \in sessions' /\ r \in sessionRoles'[role'[r].session]
      OBVIOUS
    <3>1. \A t \in Sessions : sessionRoles[t] \subseteq sessionRoles'[t]
      BY <1>1, <1>2 DEF ServerType
    <3>2. CASE r = manager[a]
      BY <1>1, <1>2, <1>4, <3>2 DEF ServerType
    <3>3. CASE r # manager[a]
      BY <1>2, <1>4, <3>1, <3>3 DEF ServerType, ServerPointers
    <3> QED
      BY <3>2, <3>3
  <2> QED
    BY <1>2, <2>1, <2>2, <2>3 DEF ServerPointers
<1> QED
  BY <1>2, <1>6, <1>7 DEF SInv, FieldsPaired

LEMMA BeginRequestInv ==
  ASSUME SInv, NEW f \in DOMAIN fields, SetTimers(f),
         UNCHANGED <<sessions, sessionFields, sessionRoles, allocated, manager, role, pool>>
  PROVE  SInv'
<1>1. fields' = [fields EXCEPT ![f].begun = TRUE]
  BY DEF SetTimers
<1>2. ServerType /\ ServerPointers /\ FieldsPaired
  BY DEF SInv
<1>3. /\ DOMAIN fields' = DOMAIN fields
      /\ \A g \in DOMAIN fields : /\ fields'[g].roles = fields[g].roles
                                  /\ fields'[g].session = fields[g].session
  BY <1>1
<1>4. ASSUME NEW g \in DOMAIN fields PROVE fields'[g] \in FieldType
  <2>1. fields[g] \in FieldType
    BY <1>2 DEF FieldsPaired
  <2>2. CASE g = f
    <3>1. fields'[g] = [fields[g] EXCEPT !.begun = TRUE]
      BY <1>1, <2>2
    <3> QED
      BY <2>1, <3>1 DEF FieldType
  <2>3. CASE g # f
    BY <1>1, <2>1, <2>3
  <2> QED
    BY <2>2, <2>3
<1>5. ServerType'
  BY <1>2, <1>3, <1>4 DEF ServerType, InPool, InUse, FieldType
<1>6. ServerPointers'
  BY <1>2, <1>3 DEF ServerPointers
<1> QED
  BY <1>2, <1>3, <1>4, <1>5, <1>6 DEF SInv, FieldsPaired

\* The first two roles of a pool that has them.
LEMMA PoolHas ==
  ASSUME SInv, Len(pool) >= 2
  PROVE  /\ pool[1] \in InPool /\ pool[2] \in InPool /\ pool[1] # pool[2]
         /\ Tail(pool) \in Seq(Roles) /\ IsInjective(Tail(pool))
         /\ ToSet(Tail(pool)) = InPool \ {pool[1]}
         /\ Tail(Tail(pool)) \in Seq(Roles) /\ IsInjective(Tail(Tail(pool)))
         /\ ToSet(Tail(Tail(pool))) = InPool \ {pool[1], pool[2]}
<1> DEFINE t == Tail(pool)
<1>1. pool \in Seq(Roles) /\ IsInjective(pool) /\ pool # <<>>
  BY DEF SInv, ServerType
<1>2. /\ t \in Seq(Roles) /\ pool[1] \in InPool
      /\ IsInjective(t) /\ ToSet(t) = InPool \ {pool[1]}
  BY <1>1, TailPool DEF InPool
<1>3. t # <<>> /\ t[1] = pool[2]
  <2>1. Len(t) = Len(pool) - 1 /\ \A i \in 1..Len(t) : t[i] = pool[i + 1]
    BY <1>1, HeadTailProperties
  <2>2. Len(t) >= 1 /\ Len(pool) \in Nat
    BY <1>1, <2>1
  <2>3. t # <<>>
    BY <1>2, <2>2, LongPool
  <2>4. 1 \in 1..Len(t)
    BY <2>1, <2>2
  <2>5. t[1] = pool[1 + 1]
    BY <2>1, <2>4
  <2> QED
    BY <2>3, <2>5
<1> HIDE DEF t
<1>4. /\ Tail(t) \in Seq(Roles) /\ t[1] \in ToSet(t)
      /\ IsInjective(Tail(t)) /\ ToSet(Tail(t)) = ToSet(t) \ {t[1]}
  BY <1>2, <1>3, TailPool
<1> QED
  BY <1>2, <1>3, <1>4 DEF t

\* What was set up is taken down again: only roles of the pool have changed.
LEMMA DeployFails ==
  ASSUME SInv, allocated' = allocated + 1,
         NEW first \in InPool, NEW second \in InPool,
         \/ role' = [role EXCEPT ![first] = FinalizedRole]
         \/ role' = [role EXCEPT ![first] = FreshRole(allocated'), ![second] = FinalizedRole],
         pool' \in Seq(Roles), IsInjective(pool'), ToSet(pool') = InPool,
         UNCHANGED <<fields, manager, sessionFields, sessions, sessionRoles>>
  PROVE  SInv'
<1>1. ServerType /\ ServerPointers /\ FieldsPaired
  BY DEF SInv
<1>2. /\ first \in Roles /\ second \in Roles
      /\ \A a \in DOMAIN manager : manager[a] \in Roles /\ manager[a] # first /\ manager[a] # second
  BY <1>1 DEF ServerType, InUse
<1>3. /\ allocated \in Nat /\ 0..allocated \subseteq 0..allocated' /\ 1..allocated \subseteq 1..allocated'
      /\ 0 \in 0..allocated' /\ allocated' \in 0..allocated' /\ allocated' \in Nat
  BY <1>1 DEF FieldsPaired
<1>4. ASSUME NEW r \in Roles
      PROVE  /\ role'[r] \in [session : Sessions \union {0}, field : 0..allocated']
             /\ role'[r] = role[r] \/ role'[r].session = 0
             /\ r \notin {first, second} => role'[r] = role[r]
  <2>1. role \in [Roles -> [session : Sessions \union {0}, field : 0..allocated]]
    BY <1>1 DEF ServerType
  <2>2. role[r] \in [session : Sessions \union {0}, field : 0..allocated']
    BY <1>3, <2>1
  <2>3. /\ FreshRole(allocated') \in [session : Sessions \union {0}, field : 0..allocated']
        /\ FinalizedRole \in [session : Sessions \union {0}, field : 0..allocated']
        /\ FreshRole(allocated').session = 0 /\ FinalizedRole.session = 0
    BY <1>3 DEF FreshRole, FinalizedRole
  <2>4. \/ role'[r] = role[r]
        \/ r \in {first, second} /\ role'[r] \in {FreshRole(allocated'), FinalizedRole}
    BY <2>1
  <2> QED
    BY <2>2, <2>3, <2>4
<1>5. role' \in [Roles -> [session : Sessions \union {0}, field : 0..allocated']]
  BY <1>1, <1>4 DEF ServerType
<1>6. ServerType'
  <2>1. InPool' = InPool /\ InUse' = InUse
    BY DEF InPool, InUse
  <2>2. \A t \in Sessions : sessionFields[t] \subseteq 1..allocated'
    BY <1>1, <1>3 DEF ServerType
  <2>3. sessionFields' \in [Sessions -> SUBSET (1..allocated')]
    BY <1>1, <2>2 DEF ServerType
  <2> QED
    BY <1>1, <1>3, <1>5, <2>1, <2>3 DEF ServerType
<1>7. \A a \in DOMAIN manager : role'[manager[a]] = role[manager[a]]
  BY <1>2, <1>4
<1>8. ServerPointers'
  <2>1. \A a \in DOMAIN manager' :
          LET f == role'[manager'[a]].field IN f \in DOMAIN fields' /\ a \in fields'[f].roles
    BY <1>1, <1>7 DEF ServerPointers
  <2>2. \A f \in DOMAIN fields' : \A a \in fields'[f].roles :
          a \in DOMAIN manager' /\ role'[manager'[a]].field = f
    BY <1>1, <1>7 DEF ServerPointers
  <2>3. \A r \in Roles : role'[r].session # 0 =>
          role'[r].session \in sessions' /\ r \in sessionRoles'[role'[r].session]
    BY <1>1, <1>4 DEF ServerPointers
  <2> QED
    BY <1>1, <2>1, <2>2, <2>3 DEF ServerPointers
<1> QED
  BY <1>1, <1>3, <1>6, <1>8 DEF SInv, FieldsPaired

\* Two roles of the pool come onto a new field, under numbers that nobody has.
LEMMA DeployWorks ==
  ASSUME SInv, allocated' = allocated + 1, NEW s \in Sessions, s \in sessions,
         NEW first \in InPool, NEW second \in InPool, first # second,
         NEW l \in Nat, NEW r \in Nat, l # r, l \notin DOMAIN manager, r \notin DOMAIN manager,
         role' = [role EXCEPT ![first] = FreshRole(allocated'), ![second] = FreshRole(allocated')],
         pool' \in Seq(Roles), IsInjective(pool'), ToSet(pool') = InPool \ {first, second},
         manager' = AddRole(AddRole(manager, l, first), r, second),
         AddField(allocated', NewField(s, {l, r})),
         sessionFields' = [sessionFields EXCEPT ![s] = @ \union {allocated'}],
         UNCHANGED <<sessions, sessionRoles>>
  PROVE  SInv'
<1>1. ServerType /\ ServerPointers /\ FieldsPaired
  BY DEF SInv
<1> DEFINE new == allocated'
           RoleType == [session : Sessions \union {0}, field : 0..new]
<1>2. /\ first \in Roles /\ second \in Roles
      /\ \A a \in DOMAIN manager : manager[a] \in Roles /\ manager[a] # first /\ manager[a] # second
  BY <1>1 DEF ServerType, InUse
<1>3. /\ allocated \in Nat /\ 0..allocated \subseteq 0..new /\ 1..allocated \subseteq 1..new
      /\ new \in 1..new /\ new \in 0..new /\ new \in Nat /\ new \notin 1..allocated
  BY <1>1 DEF FieldsPaired
<1>4. new \notin DOMAIN fields
  BY <1>1, <1>3 DEF ServerType
<1>5. /\ DOMAIN manager' = DOMAIN manager \union {l, r}
      /\ manager'[l] = first /\ manager'[r] = second
      /\ \A a \in DOMAIN manager : manager'[a] = manager[a]
  BY DEF AddRole
<1>6. /\ DOMAIN fields' = DOMAIN fields \union {new}
      /\ fields'[new] = NewField(s, {l, r})
      /\ \A f \in DOMAIN fields : fields'[f] = fields[f]
  BY <1>4 DEF AddField
<1>7. /\ NewField(s, {l, r}).roles = {l, r} /\ NewField(s, {l, r}).session = s
      /\ NewField(s, {l, r}) \in FieldType
  BY DEF NewField, FieldType
<1>8. /\ FreshRole(new) \in RoleType /\ FreshRole(new).session = 0 /\ FreshRole(new).field = new
  BY <1>3 DEF FreshRole
<1>9. ASSUME NEW q \in Roles
      PROVE  /\ role'[q] \in RoleType
             /\ q \in {first, second} => role'[q] = FreshRole(new)
             /\ q \notin {first, second} => role'[q] = role[q]
  <2>1. role \in [Roles -> [session : Sessions \union {0}, field : 0..allocated]]
    BY <1>1 DEF ServerType
  <2>2. role[q] \in RoleType
    BY <1>3, <2>1
  <2>3. role'[q] = IF q \in {first, second} THEN FreshRole(new) ELSE role[q]
    BY <2>1
  <2> QED
    BY <1>8, <2>2, <2>3
<1>10. /\ DOMAIN sessionFields' = Sessions
       /\ sessionFields'[s] = sessionFields[s] \union {new}
       /\ \A t \in Sessions : t # s => sessionFields'[t] = sessionFields[t]
  BY <1>1 DEF ServerType
<1> HIDE DEF new, RoleType
<1>11. ServerType'
  <2>1. sessionFields' \in [Sessions -> SUBSET (1..new)]
    <3>1. \A t \in Sessions : sessionFields[t] \subseteq 1..new
      BY <1>1, <1>3 DEF ServerType
    <3>2. \A t \in Sessions : sessionFields'[t] \subseteq 1..new
      BY <1>3, <1>10, <3>1
    <3>3. sessionFields' = [t \in Sessions |-> sessionFields'[t]]
      BY <1>1 DEF ServerType
    <3> QED
      BY <3>2, <3>3
  <2>2. role' \in [Roles -> RoleType]
    BY <1>1, <1>9 DEF ServerType
  <2>3. ASSUME NEW f \in DOMAIN fields'
        PROVE  f \in 1..new /\ fields'[f].session \in Sessions \union {0} /\ fields'[f].begun \in BOOLEAN
    <3>1. CASE f = new
      BY <1>3, <1>6, <1>7, <3>1 DEF FieldType
    <3>2. CASE f # new
      BY <1>1, <1>3, <1>6, <3>2 DEF ServerType
    <3> QED
      BY <3>1, <3>2
  <2>4. InUse' = InUse \union {first, second}
    BY <1>5 DEF InUse
  <2>5. InPool' = InPool \ {first, second}
    BY DEF InPool
  <2>6. /\ InPool' \union InUse' = Roles /\ InPool' \intersect InUse' = {}
    BY <1>1, <1>2, <2>4, <2>5 DEF ServerType
  <2> QED
    BY <1>1, <2>1, <2>2, <2>3, <2>6 DEF ServerType, new, RoleType
<1>12. ASSUME NEW a \in DOMAIN manager PROVE role'[manager[a]] = role[manager[a]]
  BY <1>2, <1>9
<1>13. /\ \A a \in DOMAIN manager :
            role[manager[a]].field \in DOMAIN fields /\ a \in fields[role[manager[a]].field].roles
       /\ \A f \in DOMAIN fields : \A a \in fields[f].roles :
            a \in DOMAIN manager /\ role[manager[a]].field = f
       /\ \A a, b \in DOMAIN manager : manager[a] = manager[b] => a = b
  BY <1>1 DEF ServerPointers
<1>14. ServerPointers'
  <2>1. ASSUME NEW a \in DOMAIN manager'
        PROVE  role'[manager'[a]].field \in DOMAIN fields' /\ a \in fields'[role'[manager'[a]].field].roles
    <3>1. CASE a \in DOMAIN manager
      <4>1. manager'[a] = manager[a] /\ role'[manager[a]] = role[manager[a]]
        BY <1>5, <1>12, <3>1
      <4>2. PICK f \in DOMAIN fields : f = role[manager[a]].field /\ a \in fields[f].roles
        BY <1>13, <3>1
      <4> QED
        BY <1>6, <4>1, <4>2
    <3>2. CASE a \in {l, r}
      <4>1. manager'[a] \in {first, second}
        BY <1>5, <3>2
      <4>2. role'[manager'[a]].field = new
        BY <1>2, <1>8, <1>9, <4>1
      <4> QED
        BY <1>6, <1>7, <3>2, <4>2
    <3> QED
      BY <1>5, <2>1, <3>1, <3>2
  <2>2. ASSUME NEW f \in DOMAIN fields', NEW a \in fields'[f].roles
        PROVE  a \in DOMAIN manager' /\ role'[manager'[a]].field = f
    <3>1. CASE f \in DOMAIN fields
      <4>1. a \in fields[f].roles
        BY <1>6, <2>2, <3>1
      <4>2. a \in DOMAIN manager /\ role[manager[a]].field = f
        BY <1>13, <3>1, <4>1
      <4>3. manager'[a] = manager[a] /\ role'[manager[a]] = role[manager[a]]
        BY <1>5, <1>12, <4>2
      <4> QED
        BY <1>5, <4>2, <4>3
    <3>2. CASE f = new
      <4>1. a \in {l, r}
        BY <1>6, <1>7, <2>2, <3>2
      <4>2. manager'[a] \in {first, second} /\ a \in DOMAIN manager'
        BY <1>5, <4>1
      <4>3. role'[manager'[a]].field = new
        BY <1>2, <1>8, <1>9, <4>2
      <4> QED
        BY <3>2, <4>2, <4>3
    <3> QED
      BY <1>6, <2>2, <3>1, <3>2
  <2>3. \A a, b \in DOMAIN manager' : manager'[a] = manager'[b] => a = b
    BY <1>2, <1>5, <1>13
  <2>4. ASSUME NEW f \in DOMAIN fields', fields'[f].session # 0
        PROVE  fields'[f].session \in sessions' /\ f \in sessionFields'[fields'[f].session]
    <3>1. CASE f = new
      BY <1>6, <1>7, <1>10, <3>1
    <3>2. CASE f \in DOMAIN fields
      <4>1. /\ fields[f].session \in sessions /\ f \in sessionFields[fields[f].session]
            /\ fields[f].session \in Sessions
        BY <1>1, <1>6, <2>4, <3>2 DEF ServerPointers, ServerType
      <4> QED
        BY <1>6, <1>10, <3>2, <4>1
    <3> QED
      BY <1>6, <2>4, <3>1, <3>2
  <2>5. ASSUME NEW q \in Roles, role'[q].session # 0
        PROVE  role'[q].session \in sessions' /\ q \in sessionRoles'[role'[q].session]
    <3>1. role'[q] = role[q]
      BY <1>8, <1>9, <2>5
    <3> QED
      BY <1>1, <2>5, <3>1 DEF ServerPointers
  <2>6. \A t \in Sessions : sessionFields'[t] \subseteq DOMAIN fields'
    BY <1>1, <1>6, <1>10 DEF ServerPointers
  <2> QED
    BY <2>1, <2>2, <2>3, <2>4, <2>5, <2>6 DEF ServerPointers
<1>15. FieldsPaired'
  <2>1. \A f \in DOMAIN fields' : \E p, q \in Nat : p # q /\ fields'[f].roles = {p, q}
    <3> SUFFICES ASSUME NEW f \in DOMAIN fields'
                 PROVE  \E p, q \in Nat : p # q /\ fields'[f].roles = {p, q}
      OBVIOUS
    <3>1. CASE f = new
      BY <1>6, <1>7, <3>1
    <3>2. CASE f \in DOMAIN fields
      BY <1>1, <1>6, <3>2 DEF FieldsPaired
    <3> QED
      BY <1>6, <3>1, <3>2
  <2>2. \A f \in DOMAIN fields' : fields'[f] \in FieldType
    BY <1>1, <1>6, <1>7 DEF FieldsPaired
  <2> QED
    BY <1>3, <2>1, <2>2 DEF FieldsPaired, new
<1> QED
  BY <1>11, <1>14, <1>15 DEF SInv

LEMMA DeployRequestInv ==
  ASSUME SInv, NEW s \in Sessions, OnMessageCombatDeployRequest(s),
         Head(down[s]).left \in Nat, Head(down[s]).right \in Nat
  PROVE  SInv'
<1> DEFINE m == Head(down[s])
           first == pool[1]
           second == pool[2]
<1>1. /\ s \in sessions /\ Len(pool) >= 2 /\ allocated' = allocated + 1
      /\ UNCHANGED <<sessions, sessionRoles>>
  BY DEF OnMessageCombatDeployRequest, Takes
<1>2. /\ first \in InPool /\ second \in InPool /\ first # second
      /\ Tail(pool) \in Seq(Roles) /\ IsInjective(Tail(pool))
      /\ ToSet(Tail(pool)) = InPool \ {first}
      /\ Tail(Tail(pool)) \in Seq(Roles) /\ IsInjective(Tail(Tail(pool)))
      /\ ToSet(Tail(Tail(pool))) = InPool \ {first, second}
  BY <1>1, PoolHas
<1>3. first \in Roles /\ second \in Roles
  BY <1>2 DEF SInv, ServerType
<1>4. \/ /\ role' = [role EXCEPT ![first] = FinalizedRole]
         /\ pool' = Append(Tail(pool), first)
         /\ UNCHANGED <<fields, manager, sessionFields>>
      \/ /\ role' = [role EXCEPT ![first] = FreshRole(allocated'), ![second] = FinalizedRole]
         /\ pool' = Tail(Tail(pool)) \o <<second, first>>
         /\ UNCHANGED <<fields, manager, sessionFields>>
      \/ /\ m.left \notin DOMAIN manager /\ m.right \notin DOMAIN manager \union {m.left}
         /\ role' = [role EXCEPT ![first] = FreshRole(allocated'), ![second] = FreshRole(allocated')]
         /\ pool' = Tail(Tail(pool))
         /\ manager' = AddRole(AddRole(manager, m.left, first), m.right, second)
         /\ AddField(allocated', NewField(s, {m.left, m.right}))
         /\ sessionFields' = [sessionFields EXCEPT ![s] = @ \union {allocated'}]
  BY DEF OnMessageCombatDeployRequest
<1> DEFINE l == m.left  r == m.right  t == Tail(pool)  tt == Tail(Tail(pool))
<1>5. l \in Nat /\ r \in Nat
  OBVIOUS
<1> HIDE DEF m, first, second, l, r, t, tt
<1>6. CASE /\ role' = [role EXCEPT ![first] = FinalizedRole]
           /\ pool' = Append(Tail(pool), first)
           /\ UNCHANGED <<fields, manager, sessionFields>>
  <2>1. Append(t, first) = t \o <<first>>
    BY <1>2, <1>3, AppendIsConcat DEF t
  <2>2. <<first>> \in Seq(Roles) /\ IsInjective(<<first>>) /\ ToSet(<<first>>) = {first}
    BY <1>3, OnePool
  <2>3. ToSet(t) \intersect ToSet(<<first>>) = {} /\ t \in Seq(Roles) /\ IsInjective(t)
    BY <1>2, <2>2 DEF t
  <2> DEFINE end == <<first>>
  <2>6. end \in Seq(Roles) /\ IsInjective(end) /\ ToSet(end) = {first} /\ pool' = t \o end
    BY <1>6, <2>1, <2>2 DEF t
  <2> HIDE DEF end
  <2>4. pool' \in Seq(Roles) /\ IsInjective(pool') /\ ToSet(pool') = ToSet(t) \union {first}
    <3>1. ToSet(t) \intersect ToSet(end) = {}
      BY <2>2, <2>3, <2>6
    <3>2. t \o end \in Seq(Roles) /\ IsInjective(t \o end) /\ ToSet(t \o end) = ToSet(t) \union ToSet(end)
      BY <2>3, <2>6, <3>1, ConcatPool
    <3> QED
      BY <2>6, <3>2
  <2>5. ToSet(pool') = InPool
    BY <1>2, <2>4 DEF t
  <2> QED
    BY <1>1, <1>2, <1>6, <2>4, <2>5, DeployFails
<1>7. CASE /\ role' = [role EXCEPT ![first] = FreshRole(allocated'), ![second] = FinalizedRole]
           /\ pool' = Tail(Tail(pool)) \o <<second, first>>
           /\ UNCHANGED <<fields, manager, sessionFields>>
  <2>1. /\ <<second, first>> \in Seq(Roles) /\ IsInjective(<<second, first>>)
        /\ ToSet(<<second, first>>) = {second, first}
    BY <1>2, <1>3, TwoPool
  <2>2. ToSet(tt) \intersect ToSet(<<second, first>>) = {} /\ tt \in Seq(Roles) /\ IsInjective(tt)
    BY <1>2, <2>1 DEF tt
  <2> DEFINE end == <<second, first>>
  <2>5. end \in Seq(Roles) /\ IsInjective(end) /\ ToSet(end) = {second, first} /\ pool' = tt \o end
    BY <1>7, <2>1 DEF tt
  <2> HIDE DEF end
  <2>3. pool' \in Seq(Roles) /\ IsInjective(pool') /\ ToSet(pool') = ToSet(tt) \union {second, first}
    <3>1. ToSet(tt) \intersect ToSet(end) = {}
      BY <2>1, <2>2, <2>5
    <3>2. tt \o end \in Seq(Roles) /\ IsInjective(tt \o end) /\ ToSet(tt \o end) = ToSet(tt) \union ToSet(end)
      BY <2>2, <2>5, <3>1, ConcatPool
    <3> QED
      BY <2>5, <3>2
  <2>4. ToSet(pool') = InPool
    BY <1>2, <2>3 DEF tt
  <2> QED
    BY <1>1, <1>2, <1>7, <2>3, <2>4, DeployFails
<1>8. CASE /\ m.left \notin DOMAIN manager /\ m.right \notin DOMAIN manager \union {m.left}
           /\ role' = [role EXCEPT ![first] = FreshRole(allocated'), ![second] = FreshRole(allocated')]
           /\ pool' = Tail(Tail(pool))
           /\ manager' = AddRole(AddRole(manager, m.left, first), m.right, second)
           /\ AddField(allocated', NewField(s, {m.left, m.right}))
           /\ sessionFields' = [sessionFields EXCEPT ![s] = @ \union {allocated'}]
  <2>1. l # r /\ l \notin DOMAIN manager /\ r \notin DOMAIN manager
    BY <1>8 DEF l, r
  <2>2. /\ manager' = AddRole(AddRole(manager, l, first), r, second)
        /\ AddField(allocated', NewField(s, {l, r}))
    BY <1>8 DEF l, r
  <2>3. pool' \in Seq(Roles) /\ IsInjective(pool') /\ ToSet(pool') = InPool \ {first, second}
    BY <1>2, <1>8
  <2> QED
    BY <1>1, <1>2, <1>5, <1>8, <2>1, <2>2, <2>3, DeployWorks
<1> QED
  BY <1>4, <1>6, <1>7, <1>8

\* The end of a field: its roles leave the manager for the pool as they are.
LEMMA FinalizeInv ==
  ASSUME SInv, NEW f \in DOMAIN fields, Finalize(f),
         UNCHANGED <<sessions, sessionRoles, allocated, role>>
  PROVE  SInv'
<1> DEFINE roles == fields[f].roles
           gone == InOrder(roles)
           back == [i \in DOMAIN gone |-> manager[gone[i]]]
<1>1. ServerType /\ ServerPointers /\ FieldsPaired
  BY DEF SInv
<1>2. /\ fields' = [g \in DOMAIN fields \ {f} |-> fields[g]]
      /\ sessionFields' = [s \in Sessions |-> sessionFields[s] \ {f}]
      /\ manager' = [a \in DOMAIN manager \ roles |-> manager[a]]
      /\ pool' = pool \o back
  BY DEF Finalize, RemoveField, RemoveRoles, Restrict
<1>3. PICK l, r \in Nat : l # r /\ roles = {l, r}
  BY <1>1 DEF FieldsPaired
<1>4. /\ gone \in Seq({l, r}) /\ DOMAIN gone = 1..2 /\ IsInjective(gone) /\ ToSet(gone) = roles
  BY <1>3, InOrderFits
<1>5. roles \subseteq DOMAIN manager /\ \A a \in roles : role[manager[a]].field = f
  BY <1>1 DEF ServerPointers
<1>6. /\ \A a \in DOMAIN manager : manager[a] \in Roles
      /\ \A a, b \in DOMAIN manager : manager[a] = manager[b] => a = b
      /\ \A a \in DOMAIN manager :
           role[manager[a]].field \in DOMAIN fields /\ a \in fields[role[manager[a]].field].roles
  BY <1>1 DEF ServerType, InUse, ServerPointers
<1> HIDE DEF gone, roles
<1>7. /\ back \in Seq(Roles) /\ IsInjective(back) /\ ToSet(back) = {manager[a] : a \in roles}
  <2>1. DOMAIN back = 1..2 /\ \A i \in 1..2 : back[i] = manager[gone[i]] /\ gone[i] \in roles
    BY <1>4 DEF ToSet
  <2>2. \A i \in 1..2 : back[i] \in Roles
    BY <1>5, <1>6, <2>1
  <2>3. back \in [1..2 -> Roles]
    BY <1>4, <2>1, <2>2
  <2> HIDE DEF back
  <2>4. back \in Seq(Roles)
    BY <2>3, FunctionSeq
  <2>5. IsInjective(back)
    <3> SUFFICES ASSUME NEW i \in 1..2, NEW j \in 1..2, back[i] = back[j] PROVE i = j
      BY <2>1 DEF IsInjective
    <3>1. gone[i] = gone[j]
      BY <1>5, <1>6, <2>1
    <3> QED
      BY <1>4, <3>1 DEF IsInjective
  <2>6. ToSet(back) = {manager[a] : a \in roles}
    <3>1. ToSet(back) = {manager[gone[i]] : i \in 1..2}
      BY <2>1 DEF ToSet
    <3>2. roles = {gone[i] : i \in 1..2}
      BY <1>4 DEF ToSet
    <3> QED
      BY <3>1, <3>2
  <2> QED
    BY <2>4, <2>5, <2>6
<1>8. ToSet(back) \subseteq InUse
  BY <1>5, <1>7 DEF InUse
<1>9. pool' \in Seq(Roles) /\ IsInjective(pool') /\ InPool' = InPool \union {manager[a] : a \in roles}
  <2>1. pool \in Seq(Roles) /\ IsInjective(pool) /\ ToSet(pool) \intersect ToSet(back) = {}
    BY <1>1, <1>8 DEF ServerType, InPool
  <2> HIDE DEF back
  <2>2. pool \o back \in Seq(Roles) /\ IsInjective(pool \o back) /\ ToSet(pool \o back) = ToSet(pool) \union ToSet(back)
    BY <1>7, <2>1, ConcatPool
  <2> QED
    BY <1>2, <1>7, <2>2 DEF InPool
<1> HIDE DEF back
<1>10. /\ DOMAIN manager' = DOMAIN manager \ roles
       /\ \A a \in DOMAIN manager' : manager'[a] = manager[a]
       /\ DOMAIN fields' = DOMAIN fields \ {f}
       /\ \A g \in DOMAIN fields' : fields'[g] = fields[g]
  BY <1>2
<1>11. InUse' = InUse \ {manager[a] : a \in roles}
  <2>1. ASSUME NEW x \in InUse' PROVE x \in InUse /\ x \notin {manager[a] : a \in roles}
    <3>1. PICK b \in DOMAIN manager' : x = manager'[b]
      BY <2>1 DEF InUse
    <3> QED
      BY <1>5, <1>6, <1>10, <3>1 DEF InUse
  <2>2. ASSUME NEW x \in InUse, x \notin {manager[a] : a \in roles} PROVE x \in InUse'
    <3>1. PICK b \in DOMAIN manager : x = manager[b]
      BY <2>2 DEF InUse
    <3> QED
      BY <1>10, <2>2, <3>1 DEF InUse
  <2> QED
    BY <2>1, <2>2
<1>12. ServerType'
  <2>1. {manager[a] : a \in roles} \subseteq InUse
    BY <1>5 DEF InUse
  <2>2. InPool' \union InUse' = Roles /\ InPool' \intersect InUse' = {}
    BY <1>1, <1>9, <1>11, <2>1 DEF ServerType
  <2>3. sessionFields' \in [Sessions -> SUBSET (1..allocated')]
    BY <1>1, <1>2 DEF ServerType
  <2>4. \A g \in DOMAIN fields' :
          g \in 1..allocated' /\ fields'[g].session \in Sessions \union {0} /\ fields'[g].begun \in BOOLEAN
    BY <1>1, <1>10 DEF ServerType
  <2> QED
    BY <1>1, <1>9, <2>2, <2>3, <2>4 DEF ServerType
<1>13. ServerPointers'
  <2>1. ASSUME NEW a \in DOMAIN manager'
        PROVE  role'[manager'[a]].field \in DOMAIN fields' /\ a \in fields'[role'[manager'[a]].field].roles
    <3>1. PICK g \in DOMAIN fields : g = role[manager[a]].field /\ a \in fields[g].roles
      BY <1>6, <1>10
    <3>2. g # f
      BY <1>10, <3>1 DEF roles
    <3> QED
      BY <1>10, <3>1, <3>2
  <2>2. ASSUME NEW g \in DOMAIN fields', NEW a \in fields'[g].roles
        PROVE  a \in DOMAIN manager' /\ role'[manager'[a]].field = g
    <3>1. g # f /\ g \in DOMAIN fields /\ a \in fields[g].roles
      BY <1>10, <2>2
    <3>2. a \in DOMAIN manager /\ role[manager[a]].field = g
      BY <1>1, <3>1 DEF ServerPointers
    <3>3. a \notin roles
      BY <1>5, <3>1, <3>2
    <3> QED
      BY <1>10, <3>2, <3>3
  <2>3. \A a, b \in DOMAIN manager' : manager'[a] = manager'[b] => a = b
    BY <1>6, <1>10
  <2>4. \A g \in DOMAIN fields' : fields'[g].session # 0 =>
          fields'[g].session \in sessions' /\ g \in sessionFields'[fields'[g].session]
    BY <1>1, <1>2, <1>10 DEF ServerPointers, ServerType
  <2>5. \A s \in Sessions : sessionFields'[s] \subseteq DOMAIN fields'
    BY <1>1, <1>2, <1>10 DEF ServerPointers
  <2> QED
    BY <1>1, <2>1, <2>2, <2>3, <2>4, <2>5 DEF ServerPointers
<1> QED
  BY <1>1, <1>10, <1>12, <1>13 DEF SInv, FieldsPaired

LEMMA ServerStep ==
  ASSUME SInv, ServerNext,
         \A s \in Sessions : Received(down, s, "deploy") =>
           Head(down[s]).left \in Nat /\ Head(down[s]).right \in Nat
  PROVE  SInv'
<1> DEFINE Alone == UNCHANGED <<sessions, sessionFields, fields, allocated, manager, pool>>
<1>1. ASSUME NEW s \in Sessions, OnServerConnected(s) PROVE SInv'
  <2>1. /\ sessions' = sessions \union {s}
        /\ UNCHANGED <<sessionFields, sessionRoles, fields, allocated, manager, role, pool>>
    BY <1>1 DEF OnServerConnected, AddSession
  <2>2. sessions \subseteq Sessions
    BY DEF SInv, ServerType
  <2> QED
    BY <2>1, <2>2, ServerIdle
<1>2. ASSUME NEW s \in Sessions, OnServerClosed(s) PROVE SInv'
  BY <1>2, ServerClosedInv
<1>3. ASSUME NEW s \in Sessions, OnMessageCombatDeployRequest(s) PROVE SInv'
  <2>1. Received(down, s, "deploy")
    BY <1>3 DEF OnMessageCombatDeployRequest, Takes
  <2> QED
    BY <1>3, <2>1, DeployRequestInv
<1>4. ASSUME sessions \subseteq Sessions, Alone, UNCHANGED <<role, sessionRoles>> PROVE SInv'
  BY <1>4, ServerIdle
<1>5. sessions \subseteq Sessions
  BY DEF SInv, ServerType
<1>6. ASSUME NEW s \in Sessions, OnMessageCombatConnectArgentRequest(s) PROVE SInv'
  <2> DEFINE a == Head(down[s]).role
  <2>1. /\ s \in sessions /\ Alone
        /\ \/ a \in DOMAIN manager /\ SetAppSession(a, s)
           \/ UNCHANGED <<role, sessionRoles>>
    BY <1>6 DEF OnMessageCombatConnectArgentRequest, Takes
  <2> HIDE DEF a
  <2> QED
    BY <1>4, <1>5, <2>1, SetAppSessionInv
<1>7. ASSUME NEW s \in Sessions, OnMessageCombatReconnectRequest(s) PROVE SInv'
  <2> DEFINE a == Head(down[s]).role
  <2>1. /\ s \in sessions /\ Alone
        /\ \/ a \in DOMAIN manager /\ SetAppSession(a, s)
           \/ UNCHANGED <<role, sessionRoles>>
    BY <1>7 DEF OnMessageCombatReconnectRequest, Takes
  <2> HIDE DEF a
  <2> QED
    BY <1>4, <1>5, <2>1, SetAppSessionInv
<1>8. ASSUME NEW s \in Sessions, OnMessageCombatBeginRequest(s) PROVE SInv'
  <2> DEFINE f == Head(down[s]).combat
  <2>1. /\ UNCHANGED <<sessions, sessionFields, sessionRoles, allocated, manager, role, pool>>
        /\ \/ f \in DOMAIN fields /\ SetTimers(f)
           \/ UNCHANGED fields
    BY <1>8 DEF OnMessageCombatBeginRequest
  <2> HIDE DEF f
  <2> QED
    BY <1>4, <1>5, <2>1, BeginRequestInv
<1>9. ASSUME NEW s \in Sessions, OnMessageCombatArgentRequest(s) PROVE SInv'
  <2>1. UNCHANGED serverVars
    BY <1>9 DEF OnMessageCombatArgentRequest
  <2> QED
    BY <1>4, <1>5, <2>1 DEF serverVars
<1>10. ASSUME NEW f \in DOMAIN fields, OnRequireCombatSettle(f) PROVE SInv'
  <2>1. Finalize(f) /\ UNCHANGED <<sessions, sessionRoles, allocated, role>>
    BY <1>10 DEF OnRequireCombatSettle
  <2> QED
    BY <2>1, FinalizeInv
<1> QED
  BY <1>1, <1>2, <1>3, <1>6, <1>7, <1>8, <1>9, <1>10 DEF ServerNext, ServerReceives

\* The pool begins with each role once.
LEMMA AllPooled ==
  Pooled \in Seq(Roles) /\ IsInjective(Pooled) /\ ToSet(Pooled) = Roles
<1> DEFINE n == Cardinality(Roles)
<1>1. IsFiniteSet(Roles) /\ n \in Nat /\ Bijection(1..n, Roles) # {}
  BY RolesAssumption, FS_CardinalityType DEF ExistsBijection
<1>2. PICK b : b \in Bijection(1..n, Roles)
  BY <1>1
<1> HIDE DEF n
<1>3. b \in [1..n -> Roles] /\ IsInjective(b)
  BY <1>2 DEF Bijection, Injection
<1>4. SetToSeqs(Roles) = {f \in [1..n -> Roles] : \A i, j \in 1..n : i # j => f[i] # f[j]}
  BY DEF SetToSeqs, n
<1>5. b \in SetToSeqs(Roles)
  BY <1>3, <1>4 DEF IsInjective
<1> DEFINE p == Pooled
<1>6. p \in SetToSeqs(Roles)
  BY <1>5 DEF Pooled
<1> HIDE DEF p
<1>7. p \in [1..n -> Roles] /\ IsInjective(p)
  BY <1>4, <1>6 DEF IsInjective
<1>8. p \in Seq(Roles)
  BY <1>1, <1>7, FunctionSeq
<1>9. Cardinality(1..n) = n
  BY <1>1, FS_Interval
<1>10. p \in Surjection(1..n, Roles)
  <2>1. p \in Injection(1..n, Roles)
    BY <1>7 DEF Injection
  <2>2. Cardinality(1..n) = Cardinality(Roles)
    BY <1>9 DEF n
  <2> QED
    BY <1>1, <2>1, <2>2, FS_Injection
<1>11. ToSet(p) = Roles
  BY <1>7, <1>10 DEF Surjection, ToSet
<1> QED
  BY <1>7, <1>8, <1>11 DEF p

LEMMA ServerStart ==
  ASSUME ServerInit
  PROVE  SInv
<1>1. /\ sessions = {} /\ DOMAIN fields = {} /\ allocated = 0 /\ DOMAIN manager = {}
      /\ sessionFields = [s \in Sessions |-> {}] /\ sessionRoles = [s \in Sessions |-> {}]
      /\ role = [r \in Roles |-> [session |-> 0, field |-> 0]]
      /\ pool = Pooled
  BY DEF ServerInit
<1>2. InUse = {}
  BY <1>1 DEF InUse
<1>3. ServerType
  <2>1. role \in [Roles -> [session : Sessions \union {0}, field : 0..allocated]]
    BY <1>1
  <2>2. InPool \union InUse = Roles /\ InPool \intersect InUse = {}
    BY <1>1, <1>2, AllPooled DEF InPool
  <2> QED
    BY <1>1, <2>1, <2>2, AllPooled DEF ServerType
<1>4. ServerPointers
  BY <1>1 DEF ServerPointers
<1> QED
  BY <1>1, <1>3, <1>4 DEF SInv, FieldsPaired

LEMMA GatewayStart ==
  ASSUME LinkInit, GatewayInit
  PROVE  GInv
<1>1. /\ online = {} /\ argent = [n \in Names |-> 0] /\ issued = 0
      /\ combatOf = [n \in Names |-> 0] /\ waitingActors = {} /\ asked = {}
      /\ DOMAIN combats = {} /\ DOMAIN byArgent = {} /\ session = 0 /\ made = 0 /\ acted = 0
      /\ conn = [s \in Sessions |-> IF s = 1 THEN "connecting" ELSE "unused"]
  BY DEF GatewayInit, LinkInit, NoCombats
<1> DEFINE has == {n \in Names : argent[n] # 0}
<1>2. has = {} /\ Cardinality({}) = 0 /\ Cardinality(Names) \in Nat
  BY <1>1, FS_EmptySet, FS_CardinalityType, GatewayAssumption
<1> HIDE DEF has
<1>3. issued = Cardinality(has) /\ Cardinality(waitingActors) <= 1 /\ issued \in 0..Cardinality(Names)
  BY <1>1, <1>2
<1>4. MaxSessions \in Nat /\ MaxRequests \in Nat
  BY LinkAssumption, GatewayAssumption
<1>5. conn \in [Sessions -> {"unused", "connecting", "up", "broken"}]
  BY <1>1
<1>6. GatewayType
  BY <1>1, <1>3, <1>4, <1>5 DEF GatewayType
<1>7. GatewayPointers
  BY <1>1, <1>3 DEF GatewayPointers
<1> QED
  BY <1>1, <1>3, <1>6, <1>7 DEF GInv, Counted, has

-----------------------------------------------------------------------------
(* What is on its way. *)

Tidy(channel) == \A s \in Sessions : OnceHosted(channel[s])

\* A step that takes messages from a channel, and adds quiet ones.
Quieter(old, new) ==
  \A s \in Sessions : /\ Hosts(new[s]) \subseteq Hosts(old[s])
                      /\ OnceHosted(old[s]) => OnceHosted(new[s])

LEMMA Wider ==
  ASSUME NEW n \in Nat, NEW m \in Nat, n <= m
  PROVE  /\ Seq(DownMessage(n)) \subseteq Seq(DownMessage(m))
         /\ Seq(UpMessage(n)) \subseteq Seq(UpMessage(m))
<1>1. 1..n \subseteq 1..m
  OBVIOUS
<1>2. DownMessage(n) \subseteq DownMessage(m)
  BY <1>1 DEF DownMessage
<1>3. UpMessage(n) \subseteq UpMessage(m)
  BY <1>1 DEF UpMessage
<1> QED
  BY <1>2, <1>3, SeqMonotonic

\* The next message is taken.
Taken(channel, s) == [channel EXCEPT ![s] = Tail(@)]

LEMMA Taking ==
  ASSUME NEW M, NEW channel \in [Sessions -> Seq(M)], NEW s \in Sessions, channel[s] # <<>>,
         NEW new, new = Taken(channel, s)
  PROVE  /\ new \in [Sessions -> Seq(M)] /\ Quieter(channel, new)
         /\ Head(channel[s]) \in M
         /\ \A t \in Sessions : t # s => new[t] = channel[t]
         /\ Head(channel[s]).kind \in Hosted =>
              /\ Head(channel[s]).host \in Hosts(channel[s])
              /\ OnceHosted(channel[s]) => Head(channel[s]).host \notin Hosts(new[s])
<1> DEFINE q == channel[s]
<1>1. q \in Seq(M) /\ q # <<>>
  OBVIOUS
<1>2. new[s] = Tail(q) /\ \A t \in Sessions : t # s => new[t] = channel[t]
  BY DEF Taken
<1> HIDE DEF q
<1>3. /\ Tail(q) \in Seq(M) /\ Head(q) \in M
      /\ Hosts(Tail(q)) \subseteq Hosts(q)
      /\ OnceHosted(q) => OnceHosted(Tail(q))
      /\ Head(q).kind \in Hosted =>
           /\ Head(q).host \in Hosts(q)
           /\ OnceHosted(q) => Head(q).host \notin Hosts(Tail(q))
  BY <1>1, HostsTail
<1>4. new \in [Sessions -> Seq(M)]
  BY <1>3 DEF q, Taken
<1>5. Quieter(channel, new)
  BY <1>2, <1>3 DEF Quieter, q
<1> QED
  BY <1>2, <1>3, <1>4, <1>5 DEF q

LEMMA QuietConcat ==
  ASSUME NEW M, NEW q \in Seq(M), NEW p \in Seq(M), Quiet(p)
  PROVE  /\ q \o p \in Seq(M) /\ Hosts(q \o p) = Hosts(q)
         /\ OnceHosted(q) => OnceHosted(q \o p)
<1>1. Hosts(p) = {} /\ OnceHosted(p)
  BY HostsQuiet
<1>2. Hosts(q) \intersect Hosts(p) = {}
  BY <1>1
<1>3. q \o p \in Seq(M)
  BY HostsConcat
<1>4. Hosts(q \o p) = Hosts(q) \union Hosts(p)
  BY HostsConcat
<1>5. OnceHosted(q) => OnceHosted(q \o p)
  BY <1>1, <1>2, HostsConcat
<1> QED
  BY <1>1, <1>3, <1>4, <1>5

LEMMA SendingQuiet ==
  ASSUME NEW M, NEW channel \in [Sessions -> Seq(M)], NEW s \in Sessions,
         NEW messages \in Seq(M), Quiet(messages),
         NEW new, new = Sending(channel, s, messages)
  PROVE  new \in [Sessions -> Seq(M)] /\ Quieter(channel, new)
<1> DEFINE q == channel[s]
<1>1. q \in Seq(M)
  OBVIOUS
<1> HIDE DEF q
<1>2. /\ q \o messages \in Seq(M) /\ Hosts(q \o messages) = Hosts(q)
      /\ OnceHosted(q) => OnceHosted(q \o messages)
  BY <1>1, QuietConcat
<1>3. CASE new = channel
  BY <1>3 DEF Quieter
<1>4. CASE new = [channel EXCEPT ![s] = q \o messages]
  <2>1. new \in [Sessions -> Seq(M)]
    BY <1>2, <1>4
  <2>2. new[s] = q \o messages /\ \A t \in Sessions : t # s => new[t] = channel[t]
    BY <1>4
  <2>3. Quieter(channel, new)
    BY <1>2, <2>2 DEF Quieter, q
  <2> QED
    BY <2>1, <2>3
<1> QED
  BY <1>3, <1>4 DEF Sending, q

LEMMA SendingHosted ==
  ASSUME NEW M, NEW channel \in [Sessions -> Seq(M)], NEW s \in Sessions,
         NEW p \in Seq(M), NEW h, Hosts(p) \subseteq {h}, OnceHosted(p), h \notin Hosts(channel[s]),
         NEW new, new = Sending(channel, s, p)
  PROVE  /\ new \in [Sessions -> Seq(M)]
         /\ \A t \in Sessions : t # s => new[t] = channel[t]
         /\ Hosts(new[s]) \subseteq Hosts(channel[s]) \union {h}
         /\ OnceHosted(channel[s]) => OnceHosted(new[s])
<1> DEFINE q == channel[s]
<1>1. q \in Seq(M)
  OBVIOUS
<1> HIDE DEF q
<1>3. /\ q \o p \in Seq(M) /\ Hosts(q \o p) = Hosts(q) \union Hosts(p)
      /\ OnceHosted(q) => OnceHosted(q \o p)
  <2>1. Hosts(q) \intersect Hosts(p) = {}
    BY DEF q
  <2>2. q \o p \in Seq(M)
    BY <1>1, HostsConcat
  <2>3. Hosts(q \o p) = Hosts(q) \union Hosts(p)
    BY <1>1, HostsConcat
  <2>4. OnceHosted(q) => OnceHosted(q \o p)
    BY <1>1, <2>1, HostsConcat
  <2> QED
    BY <2>2, <2>3, <2>4
<1>4. CASE new = channel
  BY <1>4
<1>5. CASE new = [channel EXCEPT ![s] = q \o p]
  <2>1. new \in [Sessions -> Seq(M)]
    BY <1>3, <1>5
  <2>2. new[s] = q \o p /\ \A t \in Sessions : t # s => new[t] = channel[t]
    BY <1>5
  <2> QED
    BY <1>3, <2>1, <2>2 DEF q
<1> QED
  BY <1>4, <1>5 DEF Sending, q

LEMMA HostedOne ==
  ASSUME NEW M, NEW m \in M
  PROVE  <<m>> \in Seq(M) /\ Hosts(<<m>>) \subseteq {m.host} /\ OnceHosted(<<m>>)
<1> DEFINE p == <<m>>
<1>1. p \in Seq(M) /\ DOMAIN p = {1} /\ p[1] = m
  OBVIOUS
<1> HIDE DEF p
<1> QED
  BY <1>1 DEF Hosts, OnceHosted, p

LEMMA Ending ==
  ASSUME NEW M, NEW q \in Seq(M), Opened \in M, Ended \in M, NEW lost \in BOOLEAN
  PROVE  /\ Cut(q, lost) \in Seq(M) /\ Hosts(Cut(q, lost)) \subseteq Hosts(q)
         /\ OnceHosted(q) => OnceHosted(Cut(q, lost))
<1> DEFINE e == <<Ended>>  oe == <<Opened, Ended>>
<1>1. e \in Seq(M) /\ Quiet(e)
  BY DEF Quiet, Hosted, Ended
<1>2. oe \in Seq(M) /\ Quiet(oe)
  BY DEF Quiet, Hosted, Ended, Opened
<1>3. Append(q, Ended) = q \o e
  BY AppendIsConcat
<1> HIDE DEF e, oe
<1>4. q \o e \in Seq(M) /\ Hosts(q \o e) = Hosts(q) /\ (OnceHosted(q) => OnceHosted(q \o e))
  BY <1>1, QuietConcat
<1>5. Cut(q, lost) \in {q \o e, e, oe}
  BY <1>3 DEF Cut, e, oe
<1> QED
  BY <1>1, <1>2, <1>4, <1>5, HostsQuiet

CutOff(channel, s, lost) == [channel EXCEPT ![s] = Cut(@, lost)]

LEMMA CutChannel ==
  ASSUME NEW M, NEW channel \in [Sessions -> Seq(M)], Opened \in M, Ended \in M,
         NEW s, NEW lost \in BOOLEAN, NEW new, new = CutOff(channel, s, lost)
  PROVE  new \in [Sessions -> Seq(M)] /\ Quieter(channel, new)
<1>1. CASE s \in Sessions
  <2> DEFINE q == channel[s]  c == Cut(q, lost)
  <2>1. q \in Seq(M)
    BY <1>1
  <2>2. new = [channel EXCEPT ![s] = c]
    BY DEF CutOff
  <2> HIDE DEF q
  <2>3. c \in Seq(M) /\ Hosts(c) \subseteq Hosts(q) /\ (OnceHosted(q) => OnceHosted(c))
    BY <2>1, Ending
  <2> HIDE DEF c
  <2>4. new \in [Sessions -> Seq(M)] /\ new[s] = c /\ \A t \in Sessions : t # s => new[t] = channel[t]
    BY <1>1, <2>2, <2>3
  <2> QED
    BY <2>3, <2>4 DEF Quieter, q
<1>2. CASE s \notin Sessions
  <2>1. new = channel
    BY <1>2 DEF CutOff
  <2> QED
    BY <2>1 DEF Quieter
<1> QED
  BY <1>1, <1>2

\* One queue is replaced by one that is empty or only opened.
LEMMA Cleared ==
  ASSUME NEW M, NEW channel \in [Sessions -> Seq(M)], NEW s, NEW p \in Seq(M), Quiet(p),
         NEW new, new = [channel EXCEPT ![s] = p]
  PROVE  new \in [Sessions -> Seq(M)] /\ Quieter(channel, new)
<1>1. new \in [Sessions -> Seq(M)] /\ \A t \in Sessions : new[t] \in {channel[t], p}
  OBVIOUS
<1>2. Hosts(p) = {} /\ OnceHosted(p)
  BY HostsQuiet
<1> QED
  BY <1>1, <1>2 DEF Quieter

LEMMA QuieterTwice ==
  ASSUME NEW a, NEW b, NEW c, Quieter(a, b), Quieter(b, c)
  PROVE  Quieter(a, c)
BY DEF Quieter

LEMMA QuieterSame ==
  ASSUME NEW a
  PROVE  Quieter(a, a)
BY DEF Quieter

LEMMA QuietOne ==
  ASSUME NEW M, NEW m \in M, m.kind \notin Hosted
  PROVE  <<m>> \in Seq(M) /\ Quiet(<<m>>)
BY DEF Quiet

LEMMA QuietTwo ==
  ASSUME NEW M, NEW m \in M, NEW n \in M, m.kind \notin Hosted, n.kind \notin Hosted
  PROVE  <<m, n>> \in Seq(M) /\ Quiet(<<m, n>>)
<1> DEFINE p == <<m, n>>
<1>1. p \in Seq(M) /\ DOMAIN p = {1, 2} /\ p[1] = m /\ p[2] = n
  OBVIOUS
<1> HIDE DEF p
<1> QED
  BY <1>1 DEF Quiet, p

QueuesFit ==
  /\ down \in [Sessions -> Seq(DownMessage(made))]
  /\ up \in [Sessions -> Seq(UpMessage(made))]

KeysFit == \A id \in DOMAIN combats : combats[id].key \in Keys

\* A host is on its way once, and no more when its combat is deployed.
HostOnce ==
  /\ Tidy(down) /\ Tidy(up)
  /\ \A s, t \in Sessions :
       /\ s # t => Hosts(down[s]) \intersect Hosts(down[t]) = {} /\ Hosts(up[s]) \intersect Hosts(up[t]) = {}
       /\ Hosts(down[s]) \intersect Hosts(up[t]) = {}
  /\ \A s \in Sessions : \A k \in DOMAIN byArgent : byArgent[k] \notin Hosts(down[s]) \union Hosts(up[s])

QInv == QueuesFit /\ KeysFit /\ HostOnce

\* A step that sends nothing that has a host, and deploys nothing.
LEMMA QuietStep ==
  ASSUME HostOnce, QueuesFit', KeysFit', Quieter(down, down'), Quieter(up, up'),
         \A k \in DOMAIN byArgent' : \E j \in DOMAIN byArgent : byArgent'[k] = byArgent[j]
  PROVE  QInv'
<1>1. Tidy(down') /\ Tidy(up')
  BY DEF HostOnce, Tidy, Quieter
<1>2. ASSUME NEW s \in Sessions, NEW t \in Sessions
      PROVE  /\ s # t => Hosts(down'[s]) \intersect Hosts(down'[t]) = {}
             /\ s # t => Hosts(up'[s]) \intersect Hosts(up'[t]) = {}
             /\ Hosts(down'[s]) \intersect Hosts(up'[t]) = {}
  <2>1. /\ Hosts(down'[s]) \subseteq Hosts(down[s]) /\ Hosts(down'[t]) \subseteq Hosts(down[t])
        /\ Hosts(up'[s]) \subseteq Hosts(up[s]) /\ Hosts(up'[t]) \subseteq Hosts(up[t])
    BY DEF Quieter
  <2>2. /\ s # t => Hosts(down[s]) \intersect Hosts(down[t]) = {} /\ Hosts(up[s]) \intersect Hosts(up[t]) = {}
        /\ Hosts(down[s]) \intersect Hosts(up[t]) = {}
    BY DEF HostOnce
  <2> QED
    BY <2>1, <2>2
<1>3. ASSUME NEW s \in Sessions, NEW k \in DOMAIN byArgent'
      PROVE  byArgent'[k] \notin Hosts(down'[s]) \union Hosts(up'[s])
  <2>1. Hosts(down'[s]) \subseteq Hosts(down[s]) /\ Hosts(up'[s]) \subseteq Hosts(up[s])
    BY DEF Quieter
  <2>2. PICK j \in DOMAIN byArgent : byArgent'[k] = byArgent[j]
    OBVIOUS
  <2>3. byArgent[j] \notin Hosts(down[s]) \union Hosts(up[s])
    BY DEF HostOnce
  <2> QED
    BY <2>1, <2>2, <2>3
<1> QED
  BY <1>1, <1>2, <1>3 DEF QInv, HostOnce

LEMMA DownMessages ==
  ASSUME NEW n
  PROVE  /\ Opened \in DownMessage(n) /\ Ended \in DownMessage(n)
         /\ \A k \in Keys, r \in Nat :
              /\ [kind |-> "connect", combat |-> k, role |-> r] \in DownMessage(n)
              /\ [kind |-> "reconnect", combat |-> k, role |-> r] \in DownMessage(n)
              /\ [kind |-> "action", role |-> r] \in DownMessage(n)
              /\ [kind |-> "begin", combat |-> k] \in DownMessage(n)
         /\ \A h \in 1..n, l, r \in Nat :
              [kind |-> "deploy", host |-> h, left |-> l, right |-> r] \in DownMessage(n)
         /\ \A m \in DownMessage(n) :
              /\ m.kind = "deploy" => m.host \in 1..n /\ m.left \in Nat /\ m.right \in Nat
              /\ m.kind \in {"connect", "reconnect", "begin"} => m.combat \in Keys
              /\ m.kind \in Hosted => m.host \in 1..n
BY DEF DownMessage, Opened, Ended, Hosted

LEMMA UpMessages ==
  ASSUME NEW n
  PROVE  /\ Opened \in UpMessage(n) /\ Ended \in UpMessage(n)
         /\ \A k \in Keys, b \in BOOLEAN :
              /\ [kind |-> "connected", combat |-> k, ok |-> b] \in UpMessage(n)
              /\ [kind |-> "begun", combat |-> k, ok |-> b] \in UpMessage(n)
              /\ [kind |-> "reconnected", combat |-> k] \in UpMessage(n)
              /\ [kind |-> "sync", combat |-> k] \in UpMessage(n)
              /\ [kind |-> "settlement", combat |-> k] \in UpMessage(n)
         /\ \A h \in 1..n, k \in Keys : [kind |-> "deployed", host |-> h, combat |-> k] \in UpMessage(n)
         /\ \A m \in UpMessage(n) :
              /\ m.kind = "deployed" => m.host \in 1..n /\ m.combat \in Keys
              /\ m.kind \in Hosted => m.host \in 1..n
BY DEF UpMessage, Opened, Ended, Hosted

\* The hosts on their way are those of combats that were made.
LEMMA HostsMade ==
  ASSUME QueuesFit, NEW s \in Sessions
  PROVE  Hosts(down[s]) \subseteq 1..made /\ Hosts(up[s]) \subseteq 1..made
<1>1. ASSUME NEW i \in DOMAIN down[s] PROVE down[s][i] \in DownMessage(made)
  BY <1>1 DEF QueuesFit
<1>2. ASSUME NEW i \in DOMAIN up[s] PROVE up[s][i] \in UpMessage(made)
  BY <1>2 DEF QueuesFit
<1> QED
  BY <1>1, <1>2, DownMessages, UpMessages DEF Hosts

\* What the gateway receives.
LEMMA Receiving ==
  ASSUME QueuesFit, NEW s \in Sessions, NEW kind, Receives(s, kind)
  PROVE  /\ up' \in [Sessions -> Seq(UpMessage(made))] /\ Quieter(up, up')
         /\ Head(up[s]) \in UpMessage(made) /\ Head(up[s]).kind = kind
<1>1. up[s] # <<>> /\ Head(up[s]).kind = kind /\ up' = [up EXCEPT ![s] = Tail(@)]
  BY DEF Receives, Received
<1>2. up \in [Sessions -> Seq(UpMessage(made))]
  BY DEF QueuesFit
<1> DEFINE M == UpMessage(made)  new == up'  q == up
<1>3. q \in [Sessions -> Seq(M)] /\ q[s] # <<>> /\ new = Taken(q, s)
  BY <1>1, <1>2 DEF Taken
<1> HIDE DEF M, new, q
<1>4. new \in [Sessions -> Seq(M)] /\ Quieter(q, new) /\ Head(q[s]) \in M
  BY <1>3, Taking
<1> QED
  BY <1>1, <1>4 DEF M, new, q

\* What the gateway sends.
LEMMA SendingDown ==
  ASSUME GInv, QueuesFit, NEW messages \in Seq(DownMessage(made)), Quiet(messages), SendDown(messages)
  PROVE  down' \in [Sessions -> Seq(DownMessage(made))] /\ Quieter(down, down')
<1>1. down \in [Sessions -> Seq(DownMessage(made))]
  BY DEF QueuesFit
<1>2. CASE session = 0
  BY <1>1, <1>2, QuieterSame DEF SendDown
<1>3. CASE session # 0
  <2>1. session \in Sessions
    BY <1>3, LinkAssumption DEF GInv, GatewayType, Sessions
  <2>2. down' = Sending(down, session, messages)
    BY <1>3 DEF SendDown, SessionSends
  <2> QED
    BY <1>1, <2>1, <2>2, SendingQuiet
<1> QED
  BY <1>2, <1>3

\* The gateway's end of a step that keeps the combats.
LEMMA GatewayQuiet ==
  ASSUME QInv, UNCHANGED <<combats, byArgent, made>>,
         down' \in [Sessions -> Seq(DownMessage(made))], Quieter(down, down'),
         up' \in [Sessions -> Seq(UpMessage(made))], Quieter(up, up')
  PROVE  QInv'
<1>1. QueuesFit' /\ KeysFit'
  BY DEF QInv, QueuesFit, KeysFit
<1> QED
  BY <1>1, QuietStep DEF QInv

LEMMA LoginQueues ==
  ASSUME GInv, QInv, NEW n \in Names, OnMessageLoginRequest(n)
  PROVE  QInv'
<1>1. UNCHANGED <<combats, byArgent, made, up>> /\ up \in [Sessions -> Seq(UpMessage(made))]
      /\ down \in [Sessions -> Seq(DownMessage(made))]
  BY DEF OnMessageLoginRequest, QInv, QueuesFit
<1>2. CASE UNCHANGED down
  BY <1>1, <1>2, GatewayQuiet, QuieterSame
<1>3. CASE combatOf[n] # 0 /\ combats[combatOf[n]].key # None
           /\ SendDown(<<[kind |-> "reconnect", combat |-> combats[combatOf[n]].key, role |-> argent[n]]>>)
  <2> DEFINE k == combats[combatOf[n]].key
             m == [kind |-> "reconnect", combat |-> k, role |-> argent[n]]
  <2>1. k \in Keys /\ argent[n] \in Nat
    BY <1>3 DEF GInv, GatewayType, GatewayPointers, QInv, KeysFit
  <2>2. m \in DownMessage(made) /\ m.kind \notin Hosted
    BY <2>1, DownMessages DEF Hosted
  <2> HIDE DEF k
  <2>3. SendDown(<<m>>)
    BY <1>3 DEF k
  <2> HIDE DEF m
  <2>4. <<m>> \in Seq(DownMessage(made)) /\ Quiet(<<m>>)
    BY <2>2, QuietOne
  <2>5. down' \in [Sessions -> Seq(DownMessage(made))] /\ Quieter(down, down')
    BY <2>3, <2>4, SendingDown DEF QInv
  <2> QED
    BY <1>1, <2>5, GatewayQuiet, QuieterSame
<1> QED
  BY <1>2, <1>3 DEF OnMessageLoginRequest, CombatSends

LEMMA ActionQueues ==
  ASSUME GInv, QInv, NEW n \in Names, OnMessageCombatActionRequest(n)
  PROVE  QInv'
<1> DEFINE m == [kind |-> "action", role |-> argent[n]]
<1>1. /\ UNCHANGED <<combats, byArgent, made, up>> /\ up \in [Sessions -> Seq(UpMessage(made))]
      /\ SendDown(<<m>>)
  BY DEF OnMessageCombatActionRequest, gatewayState, QInv, QueuesFit
<1>2. m \in DownMessage(made) /\ m.kind \notin Hosted
  <2>1. argent[n] \in Nat /\ None \in Keys
    BY DEF GInv, GatewayType, Keys
  <2> QED
    BY <2>1, DownMessages DEF Hosted
<1> HIDE DEF m
<1>3. <<m>> \in Seq(DownMessage(made)) /\ Quiet(<<m>>)
  BY <1>2, QuietOne
<1>4. down' \in [Sessions -> Seq(DownMessage(made))] /\ Quieter(down, down')
  BY <1>1, <1>3, SendingDown DEF QInv
<1> QED
  BY <1>1, <1>4, GatewayQuiet, QuieterSame

\* A new combat has a host that was never seen.
LEMMA PushCombatQueues ==
  ASSUME GInv, QInv, NEW n \in Names, OnMessageCombatRequest(n)
  PROVE  QInv'
<1>1. /\ n \in online /\ PushCombat(n) /\ UNCHANGED <<argent, byArgent, up>>
  BY DEF OnMessageCombatRequest
<1>2. CASE waitingActors = {}
  <2>1. UNCHANGED <<combats, byArgent, made, down, up>>
    BY <1>1, <1>2 DEF PushCombat
  <2> QED
    BY <2>1, GatewayQuiet, QuieterSame DEF QInv, QueuesFit
<1>3. CASE waitingActors # {}
  <2>1. PICK right \in waitingActors :
          /\ Allocate(n, right)
          /\ SendDown(<<[kind |-> "deploy", host |-> made', left |-> argent[n], right |-> argent[right]]>>)
    BY <1>1, <1>3 DEF PushCombat
  <2> DEFINE m == [kind |-> "deploy", host |-> made', left |-> argent[n], right |-> argent[right]]
  <2>2. made \in Nat /\ made' = made + 1 /\ made' \in 1..made' /\ argent[n] \in Nat /\ argent[right] \in Nat
    BY <2>1 DEF GInv, GatewayType, GatewayPointers, Counted, Allocate
  <2>3. m \in DownMessage(made') /\ m.host = made'
    BY <2>2, DownMessages
  <2>4. SendDown(<<m>>)
    BY <2>1
  <2> HIDE DEF m
  <2>5. /\ down \in [Sessions -> Seq(DownMessage(made'))] /\ up \in [Sessions -> Seq(UpMessage(made'))]
    <3>1. /\ Seq(DownMessage(made)) \subseteq Seq(DownMessage(made'))
          /\ Seq(UpMessage(made)) \subseteq Seq(UpMessage(made'))
      BY <2>2, Wider
    <3> QED
      BY <3>1 DEF QInv, QueuesFit
  <2>6. \A s \in Sessions : made' \notin Hosts(down[s]) /\ made' \notin Hosts(up[s])
    BY <2>2, HostsMade DEF QInv
  <2>7. \A k \in DOMAIN byArgent : byArgent[k] # made'
    BY <2>2 DEF GInv, GatewayType, GatewayPointers
  <2>8. KeysFit'
    <3>1. ASSUME NEW id \in DOMAIN combats' PROVE combats'[id].key \in Keys
      <4>1. /\ id \in DOMAIN combats \union {made'}
            /\ combats'[id] = IF id = made' THEN [left |-> n, right |-> right, key |-> None, connected |-> 0]
                              ELSE combats[id]
        BY <2>1, <3>1 DEF Allocate
      <4> QED
        BY <4>1 DEF QInv, KeysFit, Keys
    <3> QED
      BY <3>1 DEF KeysFit
  <2>9. CASE down' = down
    <3>1. QueuesFit'
      BY <1>1, <2>5, <2>9 DEF QueuesFit
    <3> QED
      BY <1>1, <2>8, <2>9, <3>1, QuietStep, QuieterSame DEF QInv
  <2>10. CASE session \in Sessions /\ down' = Sending(down, session, <<m>>)
    <3>1. /\ down' \in [Sessions -> Seq(DownMessage(made'))]
          /\ \A t \in Sessions : t # session => down'[t] = down[t]
          /\ Hosts(down'[session]) \subseteq Hosts(down[session]) \union {made'}
          /\ OnceHosted(down[session]) => OnceHosted(down'[session])
      <4> DEFINE M == DownMessage(made')  new == down'  p == <<m>>
      <4>1. /\ down \in [Sessions -> Seq(M)] /\ new = Sending(down, session, p)
            /\ m.host \notin Hosts(down[session])
        BY <2>3, <2>5, <2>6, <2>10
      <4>3. p \in Seq(M) /\ Hosts(p) \subseteq {m.host} /\ OnceHosted(p)
        BY <2>3, HostedOne
      <4> HIDE DEF M, new, p
      <4>2. /\ new \in [Sessions -> Seq(M)]
            /\ \A t \in Sessions : t # session => new[t] = down[t]
            /\ Hosts(new[session]) \subseteq Hosts(down[session]) \union {m.host}
            /\ OnceHosted(down[session]) => OnceHosted(new[session])
        <5> DEFINE h == m.host  d == down
        <5> HIDE DEF h, d
        <5>1. /\ d \in [Sessions -> Seq(M)] /\ new = Sending(d, session, p) /\ session \in Sessions
              /\ p \in Seq(M) /\ Hosts(p) \subseteq {h} /\ OnceHosted(p) /\ h \notin Hosts(d[session])
          BY <2>10, <4>1, <4>3 DEF h, d
        <5>2. \A t \in Sessions : t # session => new[t] = d[t]
          BY <5>1 DEF Sending
        <5>3. Hosts(new[session]) \subseteq Hosts(d[session]) \union {h}
          BY <5>1, SendingHosted
        <5>4. new \in [Sessions -> Seq(M)] /\ (OnceHosted(d[session]) => OnceHosted(new[session]))
          BY <5>1, SendingHosted
        <5> QED
          BY <5>2, <5>3, <5>4 DEF h, d
      <4> QED
        BY <2>3, <4>2 DEF M, new
    <3>2. QueuesFit'
      BY <1>1, <2>5, <3>1 DEF QueuesFit
    <3>3. Tidy(down') /\ Tidy(up')
      BY <1>1, <3>1 DEF QInv, HostOnce, Tidy
    <3>4. ASSUME NEW s \in Sessions, NEW t \in Sessions
          PROVE  /\ s # t => Hosts(down'[s]) \intersect Hosts(down'[t]) = {}
                 /\ s # t => Hosts(up'[s]) \intersect Hosts(up'[t]) = {}
                 /\ Hosts(down'[s]) \intersect Hosts(up'[t]) = {}
      <4>1. /\ s # t => Hosts(down[s]) \intersect Hosts(down[t]) = {} /\ Hosts(up[s]) \intersect Hosts(up[t]) = {}
            /\ Hosts(down[s]) \intersect Hosts(up[t]) = {}
        BY DEF QInv, HostOnce
      <4>2. \A r \in Sessions : /\ Hosts(down'[r]) \subseteq Hosts(down[r]) \union {made'}
                                /\ r # session => Hosts(down'[r]) = Hosts(down[r])
                                /\ Hosts(up'[r]) = Hosts(up[r])
        BY <1>1, <3>1
      <4>3. /\ made' \notin Hosts(down[s]) /\ made' \notin Hosts(down[t])
            /\ made' \notin Hosts(up[s]) /\ made' \notin Hosts(up[t])
        BY <2>6
      <4> QED
        BY <4>1, <4>2, <4>3
    <3>5. ASSUME NEW s \in Sessions, NEW k \in DOMAIN byArgent'
          PROVE  byArgent'[k] \notin Hosts(down'[s]) \union Hosts(up'[s])
      BY <1>1, <2>7, <3>1, <3>5 DEF QInv, HostOnce
    <3> QED
      BY <2>8, <3>2, <3>3, <3>4, <3>5 DEF QInv, HostOnce
  <2>11. session \in 0..MaxSessions
    BY DEF GInv, GatewayType
  <2> QED
    BY <2>4, <2>9, <2>10, <2>11, LinkAssumption DEF SendDown, SessionSends, Sessions
<1> QED
  BY <1>2, <1>3

\* A combat that is gone leaves the hosts and the numbers of the others.
LEMMA DeallocateKeeps ==
  ASSUME QInv, NEW id, Deallocate(id)
  PROVE  /\ KeysFit'
         /\ \A k \in DOMAIN byArgent' : \E j \in DOMAIN byArgent : byArgent'[k] = byArgent[j]
<1>1. /\ combats' = [i \in DOMAIN combats \ {id} |-> combats[i]]
      /\ byArgent' = [k \in DOMAIN byArgent \ {combats[id].key} |-> byArgent[k]]
  BY DEF Deallocate, Restrict, RemoveCombat
<1> QED
  BY <1>1 DEF QInv, KeysFit

LEMMA GatewayDeallocates ==
  ASSUME QInv, NEW id, Deallocate(id), UNCHANGED <<made, down>>,
         up' \in [Sessions -> Seq(UpMessage(made))], Quieter(up, up')
  PROVE  QInv'
<1>1. /\ KeysFit'
      /\ \A k \in DOMAIN byArgent' : \E j \in DOMAIN byArgent : byArgent'[k] = byArgent[j]
  BY DeallocateKeeps
<1>2. QueuesFit' /\ Quieter(down, down')
  BY QuieterSame DEF QInv, QueuesFit
<1> QED
  BY <1>1, <1>2, QuietStep DEF QInv

\* The host comes out of its message, and its combat gets the number.
LEMMA DeployResponseQueues ==
  ASSUME GInv, QInv, NEW s \in Sessions, OnMessageCombatDeployResponse(s)
  PROVE  QInv'
<1> DEFINE m == Head(up[s])
           Join(n) == [kind |-> "connect", combat |-> m.combat, role |-> argent[n]]
           sent == <<Join(combats[m.host].left), Join(combats[m.host].right)>>
<1>1. /\ up' \in [Sessions -> Seq(UpMessage(made))] /\ Quieter(up, up')
      /\ m \in UpMessage(made) /\ m.kind = "deployed"
  BY Receiving DEF OnMessageCombatDeployResponse, QInv
<1>2. m.host \in 1..made /\ m.combat \in Keys
  BY <1>1, UpMessages
<1>3. made' = made
  BY DEF OnMessageCombatDeployResponse
<1>4. CASE UNCHANGED <<combats, byArgent, combatOf, asked, down>>
  BY <1>1, <1>3, <1>4, GatewayQuiet, QuieterSame DEF QInv, QueuesFit
<1>5. CASE Refuse(m.host) /\ UNCHANGED down
  <2>1. Deallocate(m.host)
    BY <1>5 DEF Refuse
  <2> QED
    BY <1>1, <1>3, <1>5, <2>1, GatewayDeallocates
<1>6. CASE /\ m.host \in DOMAIN combats
           /\ combats' = [combats EXCEPT ![m.host].key = m.combat]
           /\ AddCombat(m.combat, m.host)
           /\ SendDown(sent)
  <2> DEFINE l == combats[m.host].left  r == combats[m.host].right  h == m.host
  <2>1. argent[l] \in Nat /\ argent[r] \in Nat
    <3>1. l \in Names /\ r \in Names
      BY <1>6 DEF GInv, GatewayType, Sides
    <3>2. \A n \in Names : argent[n] \in Nat
      BY DEF GInv, GatewayType
    <3> HIDE DEF l, r
    <3> QED
      BY <3>1, <3>2
  <2>2. sent \in Seq(DownMessage(made)) /\ Quiet(sent)
    <3>1. Join(l) \in DownMessage(made) /\ Join(r) \in DownMessage(made)
      BY <1>2, <2>1, DownMessages
    <3>2. Join(l).kind \notin Hosted /\ Join(r).kind \notin Hosted
      BY DEF Hosted
    <3> HIDE DEF Join
    <3> QED
      BY <3>1, <3>2, QuietTwo
  <2> HIDE DEF sent
  <2>3. down' \in [Sessions -> Seq(DownMessage(made))] /\ Quieter(down, down')
    BY <1>6, <2>2, SendingDown DEF QInv
  <2>4. QueuesFit'
    BY <1>1, <1>3, <2>3 DEF QueuesFit
  <2>5. KeysFit'
    <3> HIDE DEF m
    <3>1. DOMAIN combats' = DOMAIN combats
      BY <1>6
    <3>2. ASSUME NEW id \in DOMAIN combats PROVE combats'[id].key \in Keys
      <4>1. CASE id = m.host
        <5>1. combats'[id] = [combats[id] EXCEPT !.key = m.combat]
          BY <1>6, <4>1
        <5>2. combats'[id].key = m.combat \/ combats'[id].key = combats[id].key
          BY <5>1
        <5> QED
          BY <1>2, <5>2 DEF QInv, KeysFit
      <4>2. CASE id # m.host
        BY <1>6, <4>2 DEF QInv, KeysFit
      <4> QED
        BY <4>1, <4>2
    <3> QED
      BY <3>1, <3>2 DEF KeysFit
  <2>6. /\ \A k \in DOMAIN byArgent' : byArgent'[k] = h \/ \E j \in DOMAIN byArgent : byArgent'[k] = byArgent[j]
    BY <1>6 DEF AddCombat
  <2>7. \A t \in Sessions : h \notin Hosts(down'[t]) /\ h \notin Hosts(up'[t])
    <3>1. up[s] # <<>> /\ up' = Taken(up, s)
      BY DEF OnMessageCombatDeployResponse, Receives, Received, Taken
    <3>2. h \in Hosts(up[s]) /\ (OnceHosted(up[s]) => h \notin Hosts(up'[s]))
      BY <1>1, <3>1, Taking DEF QInv, QueuesFit, Hosted
    <3>3. h \notin Hosts(up'[s])
      BY <3>2 DEF QInv, HostOnce, Tidy
    <3>4. ASSUME NEW t \in Sessions PROVE h \notin Hosts(down'[t])
      <4>1. Hosts(down[t]) \intersect Hosts(up[s]) = {}
        BY DEF QInv, HostOnce
      <4>2. Hosts(down'[t]) \subseteq Hosts(down[t])
        BY <2>3 DEF Quieter
      <4> QED
        BY <3>2, <4>1, <4>2
    <3>5. ASSUME NEW t \in Sessions, t # s PROVE h \notin Hosts(up'[t])
      <4>1. Hosts(up[t]) \intersect Hosts(up[s]) = {}
        BY <3>5 DEF QInv, HostOnce
      <4>2. Hosts(up'[t]) \subseteq Hosts(up[t])
        BY <1>1 DEF Quieter
      <4> QED
        BY <3>2, <4>1, <4>2
    <3> QED
      BY <3>3, <3>4, <3>5
  <2> HIDE DEF h
  <2>8. Tidy(down') /\ Tidy(up')
    BY <1>1, <2>3 DEF QInv, HostOnce, Tidy, Quieter
  <2>9. ASSUME NEW t \in Sessions, NEW u \in Sessions
        PROVE  /\ t # u => Hosts(down'[t]) \intersect Hosts(down'[u]) = {}
               /\ t # u => Hosts(up'[t]) \intersect Hosts(up'[u]) = {}
               /\ Hosts(down'[t]) \intersect Hosts(up'[u]) = {}
    <3>1. /\ Hosts(down'[t]) \subseteq Hosts(down[t]) /\ Hosts(down'[u]) \subseteq Hosts(down[u])
          /\ Hosts(up'[t]) \subseteq Hosts(up[t]) /\ Hosts(up'[u]) \subseteq Hosts(up[u])
      BY <1>1, <2>3 DEF Quieter
    <3>2. /\ t # u => Hosts(down[t]) \intersect Hosts(down[u]) = {} /\ Hosts(up[t]) \intersect Hosts(up[u]) = {}
          /\ Hosts(down[t]) \intersect Hosts(up[u]) = {}
      BY DEF QInv, HostOnce
    <3> QED
      BY <3>1, <3>2
  <2>10. ASSUME NEW t \in Sessions, NEW k \in DOMAIN byArgent'
         PROVE  byArgent'[k] \notin Hosts(down'[t]) \union Hosts(up'[t])
    <3>1. CASE byArgent'[k] = h
      BY <2>7, <3>1
    <3>2. ASSUME NEW j \in DOMAIN byArgent, byArgent'[k] = byArgent[j]
          PROVE  byArgent'[k] \notin Hosts(down'[t]) \union Hosts(up'[t])
      <4>1. Hosts(down'[t]) \subseteq Hosts(down[t]) /\ Hosts(up'[t]) \subseteq Hosts(up[t])
        BY <1>1, <2>3 DEF Quieter
      <4>2. byArgent[j] \notin Hosts(down[t]) \union Hosts(up[t])
        BY DEF QInv, HostOnce
      <4> QED
        BY <3>2, <4>1, <4>2
    <3> QED
      BY <2>6, <3>1, <3>2
  <2> QED
    BY <2>4, <2>5, <2>8, <2>9, <2>10 DEF QInv, HostOnce
<1> QED
  BY <1>4, <1>5, <1>6 DEF OnMessageCombatDeployResponse, GetPending

LEMMA ConnectResponseQueues ==
  ASSUME GInv, QInv, NEW s \in Sessions, OnMessageCombatConnectArgentResponse(s)
  PROVE  QInv'
<1> DEFINE m == Head(up[s])
           id == byArgent[m.combat]
           sent == <<[kind |-> "begin", combat |-> m.combat]>>
<1>1. /\ up' \in [Sessions -> Seq(UpMessage(made))] /\ Quieter(up, up')
      /\ m \in UpMessage(made) /\ m.kind = "connected"
  BY Receiving DEF OnMessageCombatConnectArgentResponse, QInv
<1>2. made' = made
  BY DEF OnMessageCombatConnectArgentResponse
<1>3. CASE UNCHANGED <<combats, byArgent, down>>
  BY <1>1, <1>2, <1>3, GatewayQuiet, QuieterSame DEF QInv, QueuesFit
<1>4. CASE Refuse(id) /\ UNCHANGED down
  <2>1. Deallocate(id)
    BY <1>4 DEF Refuse
  <2> QED
    BY <1>1, <1>2, <1>4, <2>1, GatewayDeallocates
<1>5. CASE /\ combats' = [combats EXCEPT ![id].connected = @ + 1]
           /\ SendDown(sent) \/ UNCHANGED down
           /\ UNCHANGED byArgent
  <2>1. down' \in [Sessions -> Seq(DownMessage(made))] /\ Quieter(down, down')
    <3>1. CASE SendDown(sent)
      <4> DEFINE b == [kind |-> "begin", combat |-> m.combat]
      <4>1. m.combat \in Keys
        BY <1>1 DEF UpMessage
      <4>2. b \in DownMessage(made) /\ b.kind \notin Hosted
        BY <4>1, DownMessages DEF Hosted
      <4> HIDE DEF b
      <4>3. <<b>> \in Seq(DownMessage(made)) /\ Quiet(<<b>>)
        BY <4>2, QuietOne
      <4>4. SendDown(<<b>>)
        BY <3>1 DEF b
      <4> QED
        BY <4>3, <4>4, SendingDown DEF QInv
    <3>2. CASE UNCHANGED down
      BY <3>2, QuieterSame DEF QInv, QueuesFit
    <3> QED
      BY <1>5, <3>1, <3>2
  <2>2. KeysFit'
    <3> HIDE DEF id
    <3>1. DOMAIN combats' = DOMAIN combats /\ \A i \in DOMAIN combats : combats'[i].key = combats[i].key
      BY <1>5
    <3> QED
      BY <3>1 DEF QInv, KeysFit
  <2>3. QueuesFit'
    BY <1>1, <1>2, <2>1 DEF QueuesFit
  <2> QED
    BY <1>1, <1>5, <2>1, <2>2, <2>3, QuietStep DEF QInv
<1> QED
  BY <1>3, <1>4, <1>5 DEF OnMessageCombatConnectArgentResponse

LEMMA BeginResponseQueues ==
  ASSUME QInv, NEW s \in Sessions, OnMessageCombatBeginResponse(s)
  PROVE  QInv'
<1> DEFINE id == byArgent[Head(up[s]).combat]
<1>1. up' \in [Sessions -> Seq(UpMessage(made))] /\ Quieter(up, up')
  BY Receiving DEF OnMessageCombatBeginResponse, QInv
<1>2. UNCHANGED <<made, down>>
  BY DEF OnMessageCombatBeginResponse
<1>3. CASE UNCHANGED <<combats, byArgent>>
  BY <1>1, <1>2, <1>3, GatewayQuiet, QuieterSame DEF QInv, QueuesFit
<1>4. CASE Refuse(id)
  BY <1>1, <1>2, <1>4, GatewayDeallocates DEF Refuse
<1> QED
  BY <1>3, <1>4 DEF OnMessageCombatBeginResponse

LEMMA SettlementQueues ==
  ASSUME QInv, NEW s \in Sessions, OnMessageCombatSettlementSync(s)
  PROVE  QInv'
<1> DEFINE id == byArgent[Head(up[s]).combat]
<1>1. up' \in [Sessions -> Seq(UpMessage(made))] /\ Quieter(up, up')
  BY Receiving DEF OnMessageCombatSettlementSync, QInv
<1>2. UNCHANGED <<made, down>>
  BY DEF OnMessageCombatSettlementSync
<1>3. CASE UNCHANGED <<combats, byArgent>>
  BY <1>1, <1>2, <1>3, GatewayQuiet, QuieterSame DEF QInv, QueuesFit
<1>4. CASE Deallocate(id)
  BY <1>1, <1>2, <1>4, GatewayDeallocates
<1> QED
  BY <1>3, <1>4 DEF OnMessageCombatSettlementSync

LEMMA RestartQueues ==
  ASSUME QInv, Restart
  PROVE  QInv'
<1>1. /\ UNCHANGED made /\ combats' = NoCombats /\ byArgent' = NoCombats
      /\ up' = [up EXCEPT ![Current] = <<>>]
  BY DEF Restart
<1>2. down \in [Sessions -> Seq(DownMessage(made))] /\ up \in [Sessions -> Seq(UpMessage(made))]
  BY DEF QInv, QueuesFit
<1>3. up' \in [Sessions -> Seq(UpMessage(made))] /\ Quieter(up, up')
  <2> DEFINE e == <<>>
  <2>1. e \in Seq(UpMessage(made)) /\ Quiet(e) /\ up' = [up EXCEPT ![Current] = e]
    BY <1>1 DEF Quiet
  <2> HIDE DEF e
  <2> QED
    BY <1>2, <2>1, Cleared
<1>4. down' \in [Sessions -> Seq(DownMessage(made))] /\ Quieter(down, down')
  <2>1. CASE UNCHANGED down
    BY <1>2, <2>1, QuieterSame
  <2>2. ASSUME NEW lost \in BOOLEAN, down' = [down EXCEPT ![Current] = Cut(@, lost)]
        PROVE  down' \in [Sessions -> Seq(DownMessage(made))] /\ Quieter(down, down')
    <3> DEFINE M == DownMessage(made)
    <3>1. Opened \in M /\ Ended \in M
      BY DownMessages
    <3>2. down \in [Sessions -> Seq(M)] /\ down' = CutOff(down, Current, lost)
      BY <1>2, <2>2 DEF CutOff
    <3> HIDE DEF M
    <3>3. down' \in [Sessions -> Seq(M)] /\ Quieter(down, down')
      BY <3>1, <3>2, CutChannel
    <3> QED
      BY <3>3 DEF M
  <2> QED
    BY <2>1, <2>2 DEF Restart
<1>5. KeysFit' /\ DOMAIN byArgent' = {}
  BY <1>1 DEF KeysFit, NoCombats
<1>6. QueuesFit'
  BY <1>1, <1>3, <1>4 DEF QueuesFit
<1> QED
  BY <1>3, <1>4, <1>5, <1>6, QuietStep DEF QInv

LEMMA GatewayQueues ==
  ASSUME GInv, QInv, GatewayNext
  PROVE  QInv'
<1>1. ASSUME NEW n \in Names, OnMessageLoginRequest(n) PROVE QInv'
  BY <1>1, LoginQueues
<1>2. ASSUME NEW n \in Names, OnClose(n) PROVE QInv'
  <2>1. UNCHANGED <<combats, byArgent, made, down, up>>
    BY <1>2 DEF OnClose, linkVars
  <2> QED
    BY <2>1, GatewayQuiet, QuieterSame DEF QInv, QueuesFit
<1>3. ASSUME NEW n \in Names, OnMessageCombatRequest(n) PROVE QInv'
  BY <1>3, PushCombatQueues
<1>4. ASSUME NEW n \in Names, OnMessageCombatActionRequest(n) PROVE QInv'
  BY <1>4, ActionQueues
<1>5. ASSUME NEW s \in Sessions, OnMessageCombatDeployResponse(s) PROVE QInv'
  BY <1>5, DeployResponseQueues
<1>6. ASSUME NEW s \in Sessions, OnMessageCombatConnectArgentResponse(s) PROVE QInv'
  BY <1>6, ConnectResponseQueues
<1>7. ASSUME NEW s \in Sessions, OnMessageCombatBeginResponse(s) PROVE QInv'
  BY <1>7, BeginResponseQueues
<1>8. ASSUME NEW s \in Sessions, OnMessageCombatSettlementSync(s) PROVE QInv'
  BY <1>8, SettlementQueues
<1>9. ASSUME NEW s \in Sessions, Forward(s) \/ OnSessionConnected(s) \/ OnSessionClosed(s) PROVE QInv'
  <2>1. UNCHANGED <<combats, byArgent, made, down>>
    BY <1>9 DEF Forward, OnSessionConnected, OnSessionClosed, gatewayVars, gatewayState
  <2>2. PICK kind \in {"reconnected", "sync", "open", "close"} : Receives(s, kind)
    BY <1>9 DEF Forward, OnSessionConnected, OnSessionClosed
  <2>3. up' \in [Sessions -> Seq(UpMessage(made))] /\ Quieter(up, up')
    BY <2>2, Receiving DEF QInv
  <2> QED
    BY <2>1, <2>3, GatewayQuiet, QuieterSame DEF QInv, QueuesFit
<1>10. CASE Restart
  BY <1>10, RestartQueues
<1> QED
  BY <1>1, <1>2, <1>3, <1>4, <1>5, <1>6, <1>7, <1>8, <1>9, <1>10 DEF GatewayNext, GatewayReceives

\* What the combat server receives.
LEMMA TakingDown ==
  ASSUME QueuesFit, NEW s \in Sessions, NEW kind, Received(down, s, kind), down' = Taken(down, s)
  PROVE  /\ down' \in [Sessions -> Seq(DownMessage(made))] /\ Quieter(down, down')
         /\ Head(down[s]) \in DownMessage(made) /\ Head(down[s]).kind = kind
<1>1. down[s] # <<>> /\ Head(down[s]).kind = kind
  BY DEF Received
<1> DEFINE M == DownMessage(made)  new == down'  q == down
<1>2. q \in [Sessions -> Seq(M)] /\ q[s] # <<>> /\ new = Taken(q, s)
  BY <1>1 DEF QueuesFit
<1> HIDE DEF M, new, q
<1>3. new \in [Sessions -> Seq(M)] /\ Quieter(q, new) /\ Head(q[s]) \in M
  BY <1>2, Taking
<1> QED
  BY <1>1, <1>3 DEF M, new, q

\* What the combat server sends.
LEMMA SendingUp ==
  ASSUME QueuesFit, NEW s \in Sessions, NEW m \in UpMessage(made), m.kind \notin Hosted, SendUp(s, <<m>>)
  PROVE  up' \in [Sessions -> Seq(UpMessage(made))] /\ Quieter(up, up')
<1> DEFINE p == <<m>>
<1>1. p \in Seq(UpMessage(made)) /\ Quiet(p)
  BY QuietOne
<1>2. up' = Sending(up, s, p) /\ up \in [Sessions -> Seq(UpMessage(made))]
  BY DEF SendUp, QueuesFit
<1> HIDE DEF p
<1> QED
  BY <1>1, <1>2, SendingQuiet

\* The host moves from the request to the response.
LEMMA DeployRequestQueues ==
  ASSUME SInv, QInv, NEW s \in Sessions, OnMessageCombatDeployRequest(s),
         UNCHANGED <<combats, byArgent, made>>
  PROVE  QInv'
<1> DEFINE h == Head(down[s]).host
<1>1. Received(down, s, "deploy") /\ down' = Taken(down, s) /\ down[s] # <<>>
  BY DEF OnMessageCombatDeployRequest, Takes, Taken, Received
<1>2. /\ down' \in [Sessions -> Seq(DownMessage(made))] /\ Quieter(down, down')
      /\ Head(down[s]) \in DownMessage(made) /\ Head(down[s]).kind = "deploy"
  BY <1>1, TakingDown DEF QInv
<1>3. h \in Hosts(down[s]) /\ h \notin Hosts(down'[s]) /\ h \in 1..made
  <2>1. h \in Hosts(down[s]) /\ (OnceHosted(down[s]) => h \notin Hosts(down'[s]))
    BY <1>1, <1>2, Taking DEF QInv, QueuesFit, Hosted
  <2>2. OnceHosted(down[s])
    BY DEF QInv, HostOnce, Tidy
  <2> QED
    BY <1>2, <2>1, <2>2, DownMessages
<1>4. PICK k \in Keys : up' = Sending(up, s, <<[kind |-> "deployed", host |-> h, combat |-> k]>>)
  <2>1. NoField \in Keys /\ allocated' \in Keys
    BY DEF Keys, SInv, FieldsPaired, OnMessageCombatDeployRequest
  <2>2. \/ SendUp(s, Deployed(h, NoField))
        \/ SendUp(s, Deployed(h, allocated'))
    BY DEF OnMessageCombatDeployRequest
  <2> QED
    BY <2>1, <2>2 DEF SendUp, Deployed
<1> DEFINE m == [kind |-> "deployed", host |-> h, combat |-> k]
<1> HIDE DEF h
<1>5. m \in UpMessage(made) /\ m.host = h
  BY <1>3, UpMessages
<1> DEFINE p == <<m>>
<1>6. p \in Seq(UpMessage(made)) /\ Hosts(p) \subseteq {h} /\ OnceHosted(p)
  <2> HIDE DEF m
  <2> QED
    BY <1>5, HostedOne
<1>7. up' = Sending(up, s, p) /\ up \in [Sessions -> Seq(UpMessage(made))]
  BY <1>4 DEF QInv, QueuesFit
<1> HIDE DEF p
<1>8. \A t \in Sessions : h \notin Hosts(up[t])
  BY <1>3 DEF QInv, HostOnce
<1>9. /\ up' \in [Sessions -> Seq(UpMessage(made))]
      /\ \A t \in Sessions : t # s => up'[t] = up[t]
      /\ Hosts(up'[s]) \subseteq Hosts(up[s]) \union {h}
      /\ OnceHosted(up[s]) => OnceHosted(up'[s])
  <2> DEFINE new == up'  M == UpMessage(made)
  <2>1. new = Sending(up, s, p) /\ up \in [Sessions -> Seq(M)] /\ p \in Seq(M) /\ h \notin Hosts(up[s])
    BY <1>6, <1>7, <1>8
  <2> HIDE DEF new, M
  <2>2. \A t \in Sessions : t # s => new[t] = up[t]
    BY <2>1 DEF Sending
  <2>3. Hosts(new[s]) \subseteq Hosts(up[s]) \union {h}
    BY <1>6, <2>1, SendingHosted
  <2>4. new \in [Sessions -> Seq(M)] /\ (OnceHosted(up[s]) => OnceHosted(new[s]))
    BY <1>6, <2>1, SendingHosted
  <2> QED
    BY <2>2, <2>3, <2>4 DEF new, M
<1>10. QueuesFit' /\ KeysFit'
  BY <1>2, <1>9 DEF QueuesFit, QInv, KeysFit
<1>11. Tidy(down') /\ Tidy(up')
  BY <1>2, <1>9 DEF QInv, HostOnce, Tidy, Quieter
<1>12. \A t \in Sessions : h \notin Hosts(down'[t])
  <2>1. ASSUME NEW t \in Sessions, t # s PROVE h \notin Hosts(down'[t])
    <3>1. Hosts(down[t]) \intersect Hosts(down[s]) = {}
      BY <2>1 DEF QInv, HostOnce
    <3>2. Hosts(down'[t]) \subseteq Hosts(down[t])
      BY <1>2 DEF Quieter
    <3> QED
      BY <1>3, <3>1, <3>2
  <2> QED
    BY <1>3, <2>1
<1>13. \A t \in Sessions : /\ Hosts(down'[t]) \subseteq Hosts(down[t])
                           /\ t # s => Hosts(up'[t]) = Hosts(up[t])
                           /\ Hosts(up'[t]) \subseteq Hosts(up[t]) \union {h}
  BY <1>2, <1>9 DEF Quieter
<1>14. ASSUME NEW t \in Sessions, NEW u \in Sessions
       PROVE  /\ t # u => Hosts(down'[t]) \intersect Hosts(down'[u]) = {}
              /\ t # u => Hosts(up'[t]) \intersect Hosts(up'[u]) = {}
              /\ Hosts(down'[t]) \intersect Hosts(up'[u]) = {}
  <2>1. /\ t # u => Hosts(down[t]) \intersect Hosts(down[u]) = {} /\ Hosts(up[t]) \intersect Hosts(up[u]) = {}
        /\ Hosts(down[t]) \intersect Hosts(up[u]) = {}
    BY DEF QInv, HostOnce
  <2>2. h \notin Hosts(down'[t]) /\ h \notin Hosts(up[t]) /\ h \notin Hosts(up[u])
    BY <1>8, <1>12
  <2> QED
    BY <1>13, <2>1, <2>2
<1>15. ASSUME NEW t \in Sessions, NEW j \in DOMAIN byArgent'
       PROVE  byArgent'[j] \notin Hosts(down'[t]) \union Hosts(up'[t])
  <2>1. byArgent'[j] \notin Hosts(down[t]) \union Hosts(up[t]) /\ byArgent'[j] # h
    BY <1>3 DEF QInv, HostOnce
  <2> QED
    BY <1>13, <2>1
<1> QED
  BY <1>10, <1>11, <1>14, <1>15 DEF QInv, HostOnce

\* A broadcast: so many messages to each session as roles of the field have it.
LEMMA BroadcastQuiet ==
  ASSUME SInv, QueuesFit, NEW f \in DOMAIN fields, BroadcastMessage(f)
  PROVE  up' \in [Sessions -> Seq(UpMessage(made))] /\ Quieter(up, up')
<1> DEFINE On(t) == {a \in fields[f].roles : role[manager[a]].session = t}
           To(t) == [i \in 1..Cardinality(On(t)) |-> [kind |-> "sync", combat |-> f]]
<1>1. f \in Keys
  BY DEF SInv, ServerType, FieldsPaired, Keys
<1>2. ASSUME NEW t \in Sessions PROVE To(t) \in Seq(UpMessage(made)) /\ Quiet(To(t))
  <2>1. PICK l, r \in Nat : fields[f].roles = {l, r}
    BY DEF SInv, FieldsPaired
  <2>2. IsFiniteSet({l, r})
    <3>1. IsFiniteSet({l}) /\ {l} \cup {r} = {l, r}
      BY FS_Singleton
    <3> QED
      BY <3>1, FS_AddElement
  <2>3. On(t) \subseteq {l, r}
    BY <2>1
  <2> HIDE DEF On
  <2>4. Cardinality(On(t)) \in Nat
    BY <2>2, <2>3, FS_Subset, FS_CardinalityType
  <2> DEFINE n == Cardinality(On(t))  m == [kind |-> "sync", combat |-> f]
  <2>5. m \in UpMessage(made) /\ m.kind \notin Hosted
    BY <1>1, UpMessages DEF Hosted
  <2> HIDE DEF n, m
  <2>6. /\ To(t) = [i \in 1..n |-> m] /\ n \in Nat
    BY <2>4 DEF n, m
  <2> HIDE DEF To
  <2>7. To(t) \in [1..n -> UpMessage(made)]
    BY <2>5, <2>6
  <2>8. To(t) \in Seq(UpMessage(made))
    BY <2>6, <2>7, FunctionSeq
  <2> QED
    BY <2>5, <2>6, <2>8 DEF Quiet
<1>3. up' = [t \in Sessions |-> IF conn[t] = "up" THEN up[t] \o To(t) ELSE up[t]]
  BY DEF BroadcastMessage
<1> HIDE DEF To
<1>4. ASSUME NEW t \in Sessions
      PROVE  /\ up'[t] \in Seq(UpMessage(made)) /\ Hosts(up'[t]) \subseteq Hosts(up[t])
             /\ OnceHosted(up[t]) => OnceHosted(up'[t])
  <2> DEFINE q == up[t]  p == To(t)
  <2>1. q \in Seq(UpMessage(made)) /\ p \in Seq(UpMessage(made)) /\ Quiet(p)
    BY <1>2 DEF QueuesFit
  <2>2. up'[t] = q \/ up'[t] = q \o p
    BY <1>3
  <2> HIDE DEF q, p
  <2>3. q \o p \in Seq(UpMessage(made)) /\ Hosts(q \o p) = Hosts(q) /\ (OnceHosted(q) => OnceHosted(q \o p))
    BY <2>1, QuietConcat
  <2>4. /\ up'[t] \in Seq(UpMessage(made)) /\ Hosts(up'[t]) \subseteq Hosts(q)
        /\ OnceHosted(q) => OnceHosted(up'[t])
    BY <2>1, <2>2, <2>3
  <2> QED
    BY <2>4 DEF q
<1>5. up' \in [Sessions -> Seq(UpMessage(made))]
  <2>1. up' = [t \in Sessions |-> up'[t]]
    BY <1>3
  <2> QED
    BY <1>4, <2>1
<1> QED
  BY <1>4, <1>5 DEF Quieter

LEMMA ServerQueues ==
  ASSUME SInv, QInv, ServerNext, UNCHANGED <<combats, byArgent, made>>
  PROVE  QInv'
<1>0. QueuesFit /\ up \in [Sessions -> Seq(UpMessage(made))] /\ down \in [Sessions -> Seq(DownMessage(made))]
  BY DEF QInv, QueuesFit
<1>1. ASSUME NEW s \in Sessions, NEW kind, Received(down, s, kind), down' = Taken(down, s),
             up' \in [Sessions -> Seq(UpMessage(made))], Quieter(up, up')
      PROVE  QInv'
  BY <1>0, <1>1, TakingDown, GatewayQuiet
<1>2. ASSUME NEW s \in Sessions, OnServerConnected(s) PROVE QInv'
  <2>1. Received(down, s, "open") /\ down' = Taken(down, s) /\ UNCHANGED up
    BY <1>2 DEF OnServerConnected, Taken
  <2> QED
    BY <1>0, <1>1, <2>1, QuieterSame
<1>3. ASSUME NEW s \in Sessions, OnServerClosed(s) PROVE QInv'
  <2>1. Received(down, s, "close") /\ down' = Taken(down, s) /\ UNCHANGED up
    BY <1>3 DEF OnServerClosed, Takes, Taken
  <2> QED
    BY <1>0, <1>1, <2>1, QuieterSame
<1>4. ASSUME NEW s \in Sessions, OnMessageCombatDeployRequest(s) PROVE QInv'
  BY <1>4, DeployRequestQueues
<1>5. ASSUME NEW s \in Sessions, OnMessageCombatConnectArgentRequest(s) PROVE QInv'
  <2> DEFINE k == Head(down[s]).combat  b == Head(down[s]).role \in DOMAIN manager
             m == [kind |-> "connected", combat |-> k, ok |-> b]
  <2>1. Received(down, s, "connect") /\ down' = Taken(down, s) /\ SendUp(s, <<m>>)
    BY <1>5 DEF OnMessageCombatConnectArgentRequest, Takes, Taken
  <2>2. k \in Keys
    BY <1>0, <2>1, TakingDown, DownMessages
  <2>3. b \in BOOLEAN
    OBVIOUS
  <2> HIDE DEF k, b
  <2>4. m \in UpMessage(made) /\ m.kind \notin Hosted
    BY <2>2, <2>3, UpMessages DEF Hosted
  <2> HIDE DEF m
  <2> QED
    BY <1>0, <1>1, <2>1, <2>4, SendingUp
<1>6. ASSUME NEW s \in Sessions, OnMessageCombatReconnectRequest(s) PROVE QInv'
  <2> DEFINE k == Head(down[s]).combat
             m == [kind |-> "reconnected", combat |-> k]
  <2>1. Received(down, s, "reconnect") /\ down' = Taken(down, s) /\ (SendUp(s, <<m>>) \/ UNCHANGED up)
    BY <1>6 DEF OnMessageCombatReconnectRequest, Takes, Taken
  <2>2. k \in Keys
    BY <1>0, <2>1, TakingDown, DownMessages
  <2> HIDE DEF k
  <2>3. m \in UpMessage(made) /\ m.kind \notin Hosted
    BY <2>2, UpMessages DEF Hosted
  <2> HIDE DEF m
  <2> QED
    BY <1>0, <1>1, <2>1, <2>3, SendingUp, QuieterSame
<1>7. ASSUME NEW s \in Sessions, OnMessageCombatBeginRequest(s) PROVE QInv'
  <2> DEFINE k == Head(down[s]).combat  b == k \in DOMAIN fields
             m == [kind |-> "begun", combat |-> k, ok |-> b]
  <2>1. Received(down, s, "begin") /\ down' = Taken(down, s) /\ SendUp(s, <<m>>)
    BY <1>7 DEF OnMessageCombatBeginRequest, Takes, Taken
  <2>2. k \in Keys
    BY <1>0, <2>1, TakingDown, DownMessages
  <2>3. b \in BOOLEAN
    OBVIOUS
  <2> HIDE DEF k, b
  <2>4. m \in UpMessage(made) /\ m.kind \notin Hosted
    BY <2>2, <2>3, UpMessages DEF Hosted
  <2> HIDE DEF m
  <2> QED
    BY <1>0, <1>1, <2>1, <2>4, SendingUp
<1>8. ASSUME NEW s \in Sessions, OnMessageCombatArgentRequest(s) PROVE QInv'
  <2> DEFINE a == Head(down[s]).role
  <2>1. Received(down, s, "action") /\ down' = Taken(down, s)
    BY <1>8 DEF OnMessageCombatArgentRequest, Takes, Taken
  <2>2. \/ a \in DOMAIN manager /\ BroadcastMessage(role[manager[a]].field)
        \/ UNCHANGED up
    BY <1>8 DEF OnMessageCombatArgentRequest
  <2> HIDE DEF a
  <2>3. CASE UNCHANGED up
    BY <1>0, <1>1, <2>1, <2>3, QuieterSame
  <2>4. CASE a \in DOMAIN manager /\ BroadcastMessage(role[manager[a]].field)
    <3>1. role[manager[a]].field \in DOMAIN fields
      BY <2>4 DEF SInv, ServerPointers
    <3>2. up' \in [Sessions -> Seq(UpMessage(made))] /\ Quieter(up, up')
      BY <1>0, <2>4, <3>1, BroadcastQuiet
    <3> QED
      BY <1>1, <2>1, <3>2
  <2> QED
    BY <2>2, <2>3, <2>4
<1>9. ASSUME NEW f \in DOMAIN fields, OnRequireCombatSettle(f) PROVE QInv'
  <2>1. UNCHANGED down /\ SendSettlement(f)
    BY <1>9 DEF OnRequireCombatSettle
  <2>2. CASE UNCHANGED up
    BY <1>0, <2>1, <2>2, GatewayQuiet, QuieterSame
  <2>3. CASE fields[f].session # 0 /\ SendUp(fields[f].session, <<[kind |-> "settlement", combat |-> f]>>)
    <3> DEFINE s == fields[f].session  m == [kind |-> "settlement", combat |-> f]
    <3>1. s \in Sessions /\ f \in Keys
      BY <2>3 DEF SInv, ServerType, FieldsPaired, Keys
    <3>2. m \in UpMessage(made) /\ m.kind \notin Hosted
      BY <3>1, UpMessages DEF Hosted
    <3>3. SendUp(s, <<m>>)
      BY <2>3
    <3> HIDE DEF s, m
    <3>4. up' \in [Sessions -> Seq(UpMessage(made))] /\ Quieter(up, up')
      BY <1>0, <3>1, <3>2, <3>3, SendingUp
    <3> QED
      BY <1>0, <2>1, <3>4, GatewayQuiet, QuieterSame
  <2> QED
    BY <2>1, <2>2, <2>3 DEF SendSettlement
<1> QED
  BY <1>2, <1>3, <1>4, <1>5, <1>6, <1>7, <1>8, <1>9 DEF ServerNext, ServerReceives

\* The connection itself: it comes up, fails or breaks.
LEMMA LinkQueues ==
  ASSUME GInv, QInv, Connects \/ Breaks, UNCHANGED <<gatewayVars, serverVars>>
  PROVE  GInv' /\ QInv'
<1>0. /\ up \in [Sessions -> Seq(UpMessage(made))] /\ down \in [Sessions -> Seq(DownMessage(made))]
  BY DEF QInv, QueuesFit
<1>1. /\ UNCHANGED <<online, argent, issued, combatOf, waitingActors, combats, byArgent, session>>
      /\ UNCHANGED <<asked, made, acted>>
  BY DEF gatewayVars, gatewayState
<1>2. conn' \in [Sessions -> {"unused", "connecting", "up", "broken"}]
  <2>1. conn \in [Sessions -> {"unused", "connecting", "up", "broken"}]
    BY DEF GInv, GatewayType
  <2>2. conn' = [conn EXCEPT ![Current] = "up"] \/ conn' = [conn EXCEPT ![Current] = "broken"]
    BY DEF Connects, Breaks
  <2> QED
    BY <2>1, <2>2
<1>3. GInv'
  <2>1. session' \in 0..MaxSessions /\ asked' \subseteq Names
    BY <1>1 DEF GInv, GatewayType
  <2> QED
    BY <1>1, <1>2, <2>1, GatewayIdle
<1>4. /\ Opened \in DownMessage(made) /\ Ended \in DownMessage(made)
      /\ Opened \in UpMessage(made) /\ Ended \in UpMessage(made)
  BY DownMessages, UpMessages
<1>5. CASE Connects
  <2>1. CASE UNCHANGED <<down, up>>
    BY <1>0, <1>1, <1>3, <2>1, GatewayQuiet, QuieterSame
  <2> DEFINE p == <<Opened>>
  <2>2. CASE down' = [down EXCEPT ![Current] = p] /\ up' = [up EXCEPT ![Current] = p]
    <3>1. p \in Seq(DownMessage(made)) /\ p \in Seq(UpMessage(made)) /\ Quiet(p)
      BY <1>4 DEF Quiet, Opened, Hosted
    <3> HIDE DEF p
    <3>2. down' \in [Sessions -> Seq(DownMessage(made))] /\ Quieter(down, down')
      BY <1>0, <2>2, <3>1, Cleared
    <3>3. up' \in [Sessions -> Seq(UpMessage(made))] /\ Quieter(up, up')
      BY <1>0, <2>2, <3>1, Cleared
    <3> QED
      BY <1>1, <1>3, <3>2, <3>3, GatewayQuiet
  <2> QED
    BY <1>3, <1>5, <2>1, <2>2 DEF Connects
<1>6. CASE Breaks
  <2>1. PICK lost \in BOOLEAN : down' = CutOff(down, Current, lost) /\ up' = CutOff(up, Current, lost)
    BY <1>6 DEF Breaks, CutOff
  <2>2. down' \in [Sessions -> Seq(DownMessage(made))] /\ Quieter(down, down')
    BY <1>0, <1>4, <2>1, CutChannel
  <2>3. up' \in [Sessions -> Seq(UpMessage(made))] /\ Quieter(up, up')
    BY <1>0, <1>4, <2>1, CutChannel
  <2> QED
    BY <1>1, <1>3, <2>2, <2>3, GatewayQuiet
<1> QED
  BY <1>5, <1>6

-----------------------------------------------------------------------------
(* Together. *)

\* What holds in every state: both ends are in order, and each host is on its way at
\* most once, so that no answer of the combat server gives a number to a combat that
\* has one already.
IInv == GInv /\ SInv /\ QInv

LEMMA QueuesStart ==
  ASSUME LinkInit, GatewayInit
  PROVE  QInv
<1>1. /\ DOMAIN combats = {} /\ DOMAIN byArgent = {}
      /\ down = [s \in Sessions |-> <<>>] /\ up = [s \in Sessions |-> <<>>]
  BY DEF LinkInit, GatewayInit, NoCombats
<1> DEFINE e == <<>>
<1>2. e \in Seq(DownMessage(made)) /\ e \in Seq(UpMessage(made)) /\ Quiet(e)
  BY DEF Quiet
<1>3. down = [s \in Sessions |-> e] /\ up = [s \in Sessions |-> e]
  BY <1>1
<1> HIDE DEF e
<1>4. Hosts(e) = {} /\ OnceHosted(e)
  BY <1>2, HostsQuiet
<1>5. QueuesFit /\ KeysFit
  BY <1>1, <1>2, <1>3 DEF QueuesFit, KeysFit
<1>6. HostOnce
  BY <1>1, <1>3, <1>4 DEF HostOnce, Tidy
<1> QED
  BY <1>5, <1>6 DEF QInv

LEMMA CombatStart ==
  ASSUME CombatInit
  PROVE  IInv
BY GatewayStart, ServerStart, QueuesStart DEF CombatInit, IInv

LEMMA CombatStep ==
  ASSUME IInv, [CombatNext]_combatVars
  PROVE  IInv'
<1>1. CASE UNCHANGED combatVars
  <2>1. /\ UNCHANGED <<online, argent, issued, combatOf, waitingActors, combats, byArgent, session>>
        /\ UNCHANGED <<asked, made, acted>>
        /\ UNCHANGED <<sessions, sessionFields, sessionRoles, fields, allocated, manager, role, pool>>
        /\ UNCHANGED <<conn, down, up>>
    BY <1>1 DEF combatVars, gatewayVars, gatewayState, serverVars, linkVars
  <2>2. GInv'
    BY <2>1, GatewayIdle DEF IInv, GInv, GatewayType
  <2>3. SInv'
    BY <2>1, ServerIdle DEF IInv, SInv, ServerType
  <2>4. QInv'
    BY <2>1, GatewayQuiet, QuieterSame DEF IInv, QInv, QueuesFit
  <2> QED
    BY <2>2, <2>3, <2>4 DEF IInv
<1>2. CASE (Connects \/ Breaks) /\ UNCHANGED <<gatewayVars, serverVars>>
  <2>1. SInv'
    <3>1. UNCHANGED <<sessions, sessionFields, sessionRoles, fields, allocated, manager, role, pool>>
      BY <1>2 DEF serverVars
    <3> QED
      BY <3>1, ServerIdle DEF IInv, SInv, ServerType
  <2>2. GInv' /\ QInv'
    BY <1>2, LinkQueues DEF IInv
  <2> QED
    BY <2>1, <2>2 DEF IInv
<1>3. CASE GatewayNext /\ UNCHANGED serverVars
  <2>1. SInv'
    <3>1. UNCHANGED <<sessions, sessionFields, sessionRoles, fields, allocated, manager, role, pool>>
      BY <1>3 DEF serverVars
    <3> QED
      BY <3>1, ServerIdle DEF IInv, SInv, ServerType
  <2>2. ASSUME NEW s \in Sessions, Received(up, s, "deployed"), NEW k \in DOMAIN byArgent
        PROVE  byArgent[k] # Head(up[s]).host
    <3> DEFINE q == up[s]
    <3>1. q \in Seq(UpMessage(made)) /\ q # <<>> /\ Head(q).kind \in Hosted
      BY <2>2 DEF IInv, QInv, QueuesFit, Received, Hosted
    <3> HIDE DEF q
    <3>2. Head(q).host \in Hosts(q)
      BY <3>1, HostsTail
    <3> QED
      BY <3>2 DEF IInv, QInv, HostOnce, q
  <2>3. GInv'
    BY <1>3, <2>2, GatewayStep DEF IInv
  <2>4. QInv'
    BY <1>3, GatewayQueues DEF IInv
  <2> QED
    BY <2>1, <2>3, <2>4 DEF IInv
<1>4. CASE ServerNext /\ UNCHANGED gatewayVars
  <2>1. /\ UNCHANGED <<online, argent, issued, combatOf, waitingActors, combats, byArgent, session>>
        /\ UNCHANGED <<asked, made, acted>>
    BY <1>4 DEF gatewayVars, gatewayState
  <2>2. UNCHANGED conn
    BY <1>4 DEF ServerNext, ServerReceives, OnServerConnected, OnServerClosed, OnMessageCombatDeployRequest,
                OnMessageCombatConnectArgentRequest, OnMessageCombatReconnectRequest,
                OnMessageCombatBeginRequest, OnMessageCombatArgentRequest, OnRequireCombatSettle
  <2>3. GInv'
    BY <2>1, <2>2, GatewayIdle DEF IInv, GInv, GatewayType
  <2>4. ASSUME NEW s \in Sessions, Received(down, s, "deploy")
        PROVE  Head(down[s]).left \in Nat /\ Head(down[s]).right \in Nat
    <3> DEFINE q == down[s]
    <3>1. q \in Seq(DownMessage(made)) /\ q # <<>> /\ Head(q).kind = "deploy"
      BY <2>4 DEF IInv, QInv, QueuesFit, Received
    <3> HIDE DEF q
    <3>2. Head(q) \in DownMessage(made)
      BY <3>1, HostsTail
    <3> QED
      BY <3>1, <3>2, DownMessages DEF q
  <2>5. SInv'
    BY <1>4, <2>4, ServerStep DEF IInv
  <2>6. QInv'
    BY <1>4, <2>1, ServerQueues DEF IInv
  <2> QED
    BY <2>3, <2>5, <2>6 DEF IInv
<1> QED
  BY <1>1, <1>2, <1>3, <1>4 DEF CombatNext

\* The gateway, the combat server and what is between them are in order in every state.
THEOREM Inductive == CombatSpec => []IInv
<1>1. CombatInit => IInv
  BY CombatStart
<1>2. IInv /\ [CombatNext]_combatVars => IInv'
  BY CombatStep
<1> QED
  BY <1>1, <1>2, PTL DEF CombatSpec

\* No pointer of the gateway or of the combat server dangles: not from an actor to its
\* combat, from a number to its combat, from a session to its fields and roles or from a
\* role to its field, and back, however the connection fails.
THEOREM PointersKeptCorrect == CombatSpec => []PointersKept
<1>1. IInv => PointersKept
  BY DEF IInv, GInv, SInv, PointersKept
<1> QED
  BY <1>1, Inductive, PTL

\* An answer to a deployment comes once: no combat gets a second number.
THEOREM HostOnceCorrect == CombatSpec => []HostOnce
<1>1. IInv => HostOnce
  BY DEF IInv, QInv
<1> QED
  BY <1>1, Inductive, PTL

-----------------------------------------------------------------------------
(* How often a message is on its way. *)

Fits(m, kind, k) == IF m.kind = kind /\ m.combat = k THEN 1 ELSE 0
Found(q, kind, k) == {i \in DOMAIN q : q[i].kind = kind /\ q[i].combat = k}
Times(q, kind, k) == Cardinality(Found(q, kind, k))
Has(q, kind, k) == \E m \in ToSet(q) : m.kind = kind /\ m.combat = k

LEMMA TimesCounts ==
  ASSUME NEW M, NEW q \in Seq(M), NEW kind, NEW k
  PROVE  /\ IsFiniteSet(Found(q, kind, k)) /\ Times(q, kind, k) \in Nat
         /\ Times(q, kind, k) # 0 <=> \E m \in ToSet(q) : m.kind = kind /\ m.combat = k
<1> DEFINE S == Found(q, kind, k)
<1>1. Len(q) \in Nat /\ DOMAIN q = 1..Len(q)
  OBVIOUS
<1>2. S \subseteq 1..Len(q)
  BY <1>1 DEF Found
<1>3. IsFiniteSet(1..Len(q))
  BY <1>1, FS_Interval
<1>4. S # {} <=> \E m \in ToSet(q) : m.kind = kind /\ m.combat = k
  BY DEF Found, ToSet
<1> HIDE DEF S
<1>5. IsFiniteSet(S) /\ Cardinality(S) \in Nat /\ (Cardinality(S) = 0 <=> S = {})
  BY <1>2, <1>3, FS_Subset, FS_CardinalityType, FS_EmptySet
<1> QED
  BY <1>4, <1>5 DEF S, Times

LEMMA TimesConcat ==
  ASSUME NEW M, NEW q \in Seq(M), NEW p \in Seq(M)
  PROVE  /\ q \o p \in Seq(M) /\ ToSet(q \o p) = ToSet(q) \union ToSet(p)
         /\ \A kind, k : Times(q \o p, kind, k) = Times(q, kind, k) + Times(p, kind, k)
<1> DEFINE r == q \o p
<1>1. /\ r \in Seq(M) /\ Len(r) = Len(q) + Len(p)
      /\ \A i \in 1..(Len(q) + Len(p)) : r[i] = IF i <= Len(q) THEN q[i] ELSE p[i - Len(q)]
  BY ConcatProperties
<1>2. /\ DOMAIN r = 1..(Len(q) + Len(p)) /\ DOMAIN q = 1..Len(q) /\ DOMAIN p = 1..Len(p)
      /\ Len(q) \in Nat /\ Len(p) \in Nat
  BY <1>1
<1> HIDE DEF r
<1>3. \A i \in DOMAIN q : i \in DOMAIN r /\ r[i] = q[i]
  BY <1>1, <1>2
<1>4. \A i \in DOMAIN p : Len(q) + i \in DOMAIN r /\ r[Len(q) + i] = p[i] /\ Len(q) + i \notin DOMAIN q
  BY <1>1, <1>2
<1>5. \A i \in DOMAIN r : i \notin DOMAIN q =>
        i - Len(q) \in DOMAIN p /\ i = Len(q) + (i - Len(q)) /\ p[i - Len(q)] = r[i]
  BY <1>1, <1>2
<1>6. ToSet(r) = ToSet(q) \union ToSet(p)
  <2>1. ASSUME NEW x \in ToSet(r) PROVE x \in ToSet(q) \union ToSet(p)
    BY <1>3, <1>5, <2>1 DEF ToSet
  <2>2. ASSUME NEW x \in ToSet(q) \union ToSet(p) PROVE x \in ToSet(r)
    BY <1>3, <1>4, <2>2 DEF ToSet
  <2> QED
    BY <2>1, <2>2
<1>7. ASSUME NEW kind, NEW k
      PROVE  Times(r, kind, k) = Times(q, kind, k) + Times(p, kind, k)
  <2> DEFINE A == Found(q, kind, k)  B == Found(p, kind, k)
             C == {Len(q) + i : i \in B}
             g == [i \in B |-> Len(q) + i]
  <2>1. /\ IsFiniteSet(A) /\ IsFiniteSet(B) /\ Cardinality(A) \in Nat /\ Cardinality(B) \in Nat
    BY TimesCounts DEF Times
  <2>2. Found(r, kind, k) = A \union C
    <3>1. ASSUME NEW i \in Found(r, kind, k) PROVE i \in A \union C
      <4>1. CASE i \in DOMAIN q
        BY <1>3, <3>1, <4>1 DEF Found
      <4>2. CASE i \notin DOMAIN q
        BY <1>5, <3>1, <4>2 DEF Found
      <4> QED
        BY <4>1, <4>2
    <3>2. ASSUME NEW i \in A PROVE i \in Found(r, kind, k)
      BY <1>3, <3>2 DEF Found
    <3>3. ASSUME NEW i \in C PROVE i \in Found(r, kind, k)
      BY <1>4, <3>3 DEF Found
    <3> QED
      BY <3>1, <3>2, <3>3
  <2>3. A \intersect C = {}
    BY <1>4 DEF Found
  <2>4. B \subseteq Nat
    BY <1>2 DEF Found
  <2> HIDE DEF A, B
  <2>5. g \in Bijection(B, C)
    <3>1. g \in [B -> C] /\ \A c \in C : \E i \in B : g[i] = c
      OBVIOUS
    <3>2. IsInjective(g)
      <4> SUFFICES ASSUME NEW a \in B, NEW b \in B, g[a] = g[b] PROVE a = b
        BY DEF IsInjective
      <4>1. a \in Nat /\ b \in Nat /\ Len(q) + a = Len(q) + b
        BY <2>4
      <4> HIDE DEF g, C
      <4> QED
        BY <1>2, <4>1
    <3> HIDE DEF g, C
    <3> QED
      BY <3>1, <3>2 DEF Bijection, Injection, Surjection
  <2>6. IsFiniteSet(C) /\ Cardinality(C) = Cardinality(B)
    <3>1. ExistsBijection(B, C)
      BY <2>5 DEF ExistsBijection
    <3> QED
      BY <2>1, <3>1, FS_Bijection
  <2> HIDE DEF C, g
  <2>7. Cardinality(A \union C) = Cardinality(A) + Cardinality(C) - Cardinality(A \intersect C)
    BY <2>1, <2>6, FS_Union
  <2>8. Cardinality(A \intersect C) = 0
    BY <2>3, FS_EmptySet
  <2> QED
    BY <2>1, <2>2, <2>6, <2>7, <2>8 DEF Times, A, B
<1> QED
  BY <1>1, <1>6, <1>7 DEF r

LEMMA TimesOne ==
  ASSUME NEW M, NEW m \in M
  PROVE  /\ <<m>> \in Seq(M) /\ ToSet(<<m>>) = {m}
         /\ \A kind, k : Times(<<m>>, kind, k) = Fits(m, kind, k)
<1> DEFINE p == <<m>>
<1>1. p \in Seq(M) /\ DOMAIN p = {1} /\ p[1] = m
  OBVIOUS
<1> HIDE DEF p
<1>2. ToSet(p) = {m}
  BY <1>1 DEF ToSet
<1>3. ASSUME NEW kind, NEW k PROVE Times(p, kind, k) = Fits(m, kind, k)
  <2>1. Cardinality({1}) = 1 /\ Cardinality({}) = 0
    BY FS_Singleton, FS_EmptySet
  <2>2. CASE m.kind = kind /\ m.combat = k
    <3>1. Found(p, kind, k) = {1}
      BY <1>1, <2>2 DEF Found
    <3> QED
      BY <2>1, <2>2, <3>1 DEF Times, Fits
  <2>3. CASE ~(m.kind = kind /\ m.combat = k)
    <3>1. Found(p, kind, k) = {}
      BY <1>1, <2>3 DEF Found
    <3> QED
      BY <2>1, <2>3, <3>1 DEF Times, Fits
  <2> QED
    BY <2>2, <2>3
<1> QED
  BY <1>1, <1>2, <1>3 DEF p

LEMMA TimesTail ==
  ASSUME NEW M, NEW q \in Seq(M), q # <<>>
  PROVE  /\ Head(q) \in M /\ Tail(q) \in Seq(M) /\ ToSet(q) = ToSet(Tail(q)) \union {Head(q)}
         /\ \A kind, k : Times(q, kind, k) = Times(Tail(q), kind, k) + Fits(Head(q), kind, k)
<1> DEFINE h == Head(q)  t == Tail(q)  o == <<h>>
<1>1. h \in M /\ t \in Seq(M) /\ o \in Seq(M)
  OBVIOUS
<1>2. q = o \o t
  <2>1. /\ Len(o \o t) = Len(q) /\ o \o t \in Seq(M)
        /\ \A i \in 1..Len(q) : (o \o t)[i] = q[i]
    OBVIOUS
  <2> HIDE DEF o, t
  <2>2. \A i \in 1..Len(q) : q[i] = (o \o t)[i]
    BY <2>1
  <2> QED
    BY <2>1, <2>2, SeqEqual
<1> HIDE DEF h, t
<1>3. ToSet(o) = {h} /\ \A kind, k : Times(o, kind, k) = Fits(h, kind, k)
  BY <1>1, TimesOne
<1> HIDE DEF o
<1>4. /\ ToSet(o \o t) = ToSet(o) \union ToSet(t)
      /\ \A kind, k : Times(o \o t, kind, k) = Times(o, kind, k) + Times(t, kind, k)
  BY <1>1, TimesConcat
<1>5. ASSUME NEW kind, NEW k PROVE Times(q, kind, k) = Times(t, kind, k) + Fits(h, kind, k)
  <2>1. Times(t, kind, k) \in Nat /\ Times(o, kind, k) \in Nat
    BY <1>1, TimesCounts
  <2>2. Times(q, kind, k) = Times(o, kind, k) + Times(t, kind, k) /\ Times(o, kind, k) = Fits(h, kind, k)
    BY <1>2, <1>3, <1>4
  <2> QED
    BY <2>1, <2>2
<1> QED
  BY <1>1, <1>2, <1>3, <1>4, <1>5 DEF h, t

-----------------------------------------------------------------------------
(* The connection that there is. *)

\* The gateway has not heard yet of its connection, which nobody uses then.
Unheard == conn[Current] = "connecting" \/ Opened \in ToSet(up[Current])

\* What the combat server has nothing of.
Unseen(t) ==
  /\ \A f \in DOMAIN fields : fields[f].session # t
  /\ \A r \in Roles : role[r].session # t

Connections ==
  /\ Current \in Sessions /\ conn[Current] # "unused"
  /\ \A t \in Sessions : t > Current => conn[t] = "unused" /\ down[t] = <<>> /\ up[t] = <<>>
  /\ \A t \in Sessions : t < Current => conn[t] = "broken" /\ up[t] = <<>>
  /\ session \in {0, Current}
  /\ conn[Current] = "connecting" => down[Current] = <<>> /\ up[Current] = <<>>
  /\ conn[Current] = "up" => Ended \notin ToSet(down[Current])
  /\ Opened \in ToSet(up[Current]) =>
       up[Current] = IF conn[Current] = "up" THEN <<Opened>> ELSE <<Opened, Ended>>
  /\ Unheard => session = 0 /\ byArgent = NoCombats /\ ToSet(down[Current]) \subseteq {Opened, Ended}
  /\ \A t \in Sessions : t > Current \/ (t = Current /\ Unheard) => Unseen(t)

\* One message is taken from a queue; others are put behind those that are there.
Drops(old, new, m) ==
  /\ ToSet(old) = ToSet(new) \union {m}
  /\ \A kind, k : Times(old, kind, k) = Times(new, kind, k) + Fits(m, kind, k)
Gains(old, new, p) ==
  /\ ToSet(new) = ToSet(old) \union ToSet(p)
  /\ \A kind, k : Times(new, kind, k) = Times(old, kind, k) + Times(p, kind, k)

LEMMA TakenDrops ==
  ASSUME NEW M, NEW channel \in [Sessions -> Seq(M)], NEW s \in Sessions, channel[s] # <<>>,
         NEW new, new = Taken(channel, s)
  PROVE  /\ \A t \in Sessions : t # s => new[t] = channel[t]
         /\ Head(channel[s]) \in M /\ Drops(channel[s], new[s], Head(channel[s]))
<1> DEFINE q == channel[s]
<1>1. q \in Seq(M) /\ q # <<>> /\ new[s] = Tail(q) /\ \A t \in Sessions : t # s => new[t] = channel[t]
  BY DEF Taken
<1> HIDE DEF q
<1>2. /\ Head(q) \in M /\ ToSet(q) = ToSet(Tail(q)) \union {Head(q)}
      /\ \A kind, k : Times(q, kind, k) = Times(Tail(q), kind, k) + Fits(Head(q), kind, k)
  BY <1>1, TimesTail
<1> QED
  BY <1>1, <1>2 DEF Drops, q

LEMMA TakenUp ==
  ASSUME QueuesFit, NEW s \in Sessions, up[s] # <<>>, up' = Taken(up, s)
  PROVE  /\ \A t \in Sessions : t # s => up'[t] = up[t]
         /\ Head(up[s]) \in UpMessage(made) /\ Drops(up[s], up'[s], Head(up[s]))
<1> DEFINE M == UpMessage(made)  new == up'  q == up
<1>1. q \in [Sessions -> Seq(M)] /\ q[s] # <<>> /\ new = Taken(q, s)
  BY DEF QueuesFit
<1> HIDE DEF M, new, q
<1>2. /\ \A t \in Sessions : t # s => new[t] = q[t]
      /\ Head(q[s]) \in M /\ Drops(q[s], new[s], Head(q[s]))
  BY <1>1, TakenDrops
<1> QED
  BY <1>2 DEF M, new, q

LEMMA TakenDown ==
  ASSUME QueuesFit, NEW s \in Sessions, down[s] # <<>>, down' = Taken(down, s)
  PROVE  /\ \A t \in Sessions : t # s => down'[t] = down[t]
         /\ Head(down[s]) \in DownMessage(made) /\ Drops(down[s], down'[s], Head(down[s]))
<1> DEFINE M == DownMessage(made)  new == down'  q == down
<1>1. q \in [Sessions -> Seq(M)] /\ q[s] # <<>> /\ new = Taken(q, s)
  BY DEF QueuesFit
<1> HIDE DEF M, new, q
<1>2. /\ \A t \in Sessions : t # s => new[t] = q[t]
      /\ Head(q[s]) \in M /\ Drops(q[s], new[s], Head(q[s]))
  BY <1>1, TakenDrops
<1> QED
  BY <1>2 DEF M, new, q

LEMMA SentGains ==
  ASSUME NEW M, NEW channel \in [Sessions -> Seq(M)], NEW s \in Sessions, NEW p \in Seq(M),
         NEW new, new = Sending(channel, s, p)
  PROVE  /\ \A t \in Sessions : t # s => new[t] = channel[t]
         /\ conn[s] = "up" => Gains(channel[s], new[s], p)
         /\ conn[s] # "up" => new = channel
<1> DEFINE q == channel[s]
<1>1. q \in Seq(M)
  OBVIOUS
<1>2. /\ conn[s] = "up" => new = [channel EXCEPT ![s] = q \o p]
      /\ conn[s] # "up" => new = channel
  BY DEF Sending
<1>3. conn[s] = "up" => new[s] = q \o p /\ \A t \in Sessions : t # s => new[t] = channel[t]
  BY <1>2
<1> HIDE DEF q
<1>4. Gains(q, q \o p, p)
  BY <1>1, TimesConcat DEF Gains
<1> QED
  BY <1>2, <1>3, <1>4 DEF q

LEMMA ConnectionsKept ==
  ASSUME Connections, UNCHANGED conn, session' \in {0, session},
         \A t \in Sessions : t > Current => down'[t] = <<>>,
         \A t \in Sessions : t # Current => up'[t] = up[t],
         Ended \in ToSet(down'[Current]) => Ended \in ToSet(down[Current]),
         conn[Current] = "connecting" => down'[Current] = <<>>,
         Unheard => /\ up'[Current] = up[Current] /\ byArgent' = byArgent
                    /\ ToSet(down'[Current]) \subseteq ToSet(down[Current]),
         ~Unheard => Opened \notin ToSet(up'[Current]),
         \A t \in Sessions : Unseen(t) /\ (t > Current \/ (t = Current /\ Unheard)) => Unseen(t)'
  PROVE  Connections'
<1>1. Current' = Current
  BY DEF Current
<1>2. Unheard' <=> Unheard
  BY <1>1 DEF Unheard
<1>3. ASSUME NEW t \in Sessions, t > Current \/ (t = Current /\ Unheard) PROVE Unseen(t)'
  BY <1>3 DEF Connections
<1> DEFINE c == Current
<1> HIDE DEF c
<1>4. /\ c \in Sessions /\ conn'[c] # "unused"
      /\ \A t \in Sessions : t > c => conn'[t] = "unused" /\ down'[t] = <<>> /\ up'[t] = <<>>
      /\ \A t \in Sessions : t < c => conn'[t] = "broken" /\ up'[t] = <<>>
      /\ session' \in {0, c}
  BY DEF Connections, c, Sessions
<1>5. /\ conn'[c] = "connecting" => down'[c] = <<>> /\ up'[c] = <<>>
      /\ conn'[c] = "up" => Ended \notin ToSet(down'[c])
      /\ Opened \in ToSet(up'[c]) =>
           up'[c] = IF conn'[c] = "up" THEN <<Opened>> ELSE <<Opened, Ended>>
      /\ Unheard' => session' = 0 /\ byArgent' = NoCombats /\ ToSet(down'[c]) \subseteq {Opened, Ended}
  BY <1>2 DEF Connections, Unheard, c
<1> QED
  BY <1>1, <1>2, <1>3, <1>4, <1>5 DEF Connections, c

\* A step of the gateway, which uses only a connection that it has heard of.
LEMMA GatewayConnections ==
  ASSUME IInv, Connections, UNCHANGED <<conn, fields, role>>, session' \in {0, session},
         \A t \in Sessions : t # session => down'[t] = down[t],
         session # 0 => (Ended \in ToSet(down'[session]) => Ended \in ToSet(down[session])),
         session = 0 => byArgent' = byArgent,
         \/ UNCHANGED up
         \/ \E s \in Sessions : up[s] # <<>> /\ Head(up[s]) # Opened /\ up' = Taken(up, s)
  PROVE  Connections'
<1> DEFINE c == Current
<1>1. /\ c \in Sessions /\ session \in {0, c} /\ (Unheard => session = 0)
      /\ 0 \notin Sessions
  BY DEF Connections, Sessions
<1>2. /\ \A t \in Sessions : t # c => up'[t] = up[t]
      /\ Unheard => up'[c] = up[c]
      /\ ~Unheard => Opened \notin ToSet(up'[c])
  <2>1. CASE UNCHANGED up
    BY <2>1 DEF Unheard
  <2>2. ASSUME NEW s \in Sessions, up[s] # <<>>, Head(up[s]) # Opened, up' = Taken(up, s)
        PROVE  /\ s = c /\ ~Unheard /\ Opened \notin ToSet(up'[c])
               /\ \A t \in Sessions : t # s => up'[t] = up[t]
    <3>1. s = c
      BY <2>2 DEF Connections, Sessions
    <3>2. /\ \A t \in Sessions : t # s => up'[t] = up[t]
          /\ Drops(up[s], up'[s], Head(up[s]))
      BY <2>2, TakenUp DEF IInv, QInv
    <3>3. Opened \notin ToSet(up[c])
      <4>1. CASE Opened \in ToSet(up[c])
        <5>1. up[c] = <<Opened>> \/ up[c] = <<Opened, Ended>>
          BY <4>1 DEF Connections
        <5>2. Head(up[c]) = Opened
          BY <5>1
        <5> QED
          BY <2>2, <3>1, <5>2
      <4> QED
        BY <4>1
    <3>4. ~Unheard
      BY <2>2, <3>1, <3>3 DEF Unheard, Connections
    <3> QED
      BY <3>1, <3>2, <3>3, <3>4 DEF Drops
  <2> QED
    BY <2>1, <2>2
<1>3. \A t \in Sessions : Unseen(t) => Unseen(t)'
  BY DEF Unseen
<1> HIDE DEF c
<1>4. /\ \A t \in Sessions : t > c => down'[t] = <<>>
      /\ conn[c] = "connecting" => down'[c] = <<>>
      /\ Unheard => byArgent' = byArgent /\ ToSet(down'[c]) \subseteq ToSet(down[c])
      /\ Ended \in ToSet(down'[c]) => Ended \in ToSet(down[c])
  BY <1>1 DEF Connections, Unheard, c, Sessions
<1> QED
  BY <1>2, <1>3, <1>4, ConnectionsKept DEF c

\* A step of the combat server, which answers who uses the connection.
LEMMA ServerConnections ==
  ASSUME IInv, Connections, UNCHANGED <<conn, session, byArgent>>,
         \/ UNCHANGED down
         \/ \E s \in Sessions : down[s] # <<>> /\ down' = Taken(down, s),
         \A t \in Sessions : \/ up'[t] = up[t]
                             \/ t = Current /\ ~Unheard /\ Opened \notin ToSet(up'[t]),
         \A t \in Sessions : Unseen(t) /\ (t > Current \/ (t = Current /\ Unheard)) => Unseen(t)'
  PROVE  Connections'
<1> DEFINE c == Current
<1>1. c \in Sessions
  BY DEF Connections
<1>2. \A t \in Sessions : /\ down[t] = <<>> => down'[t] = <<>>
                          /\ ToSet(down'[t]) \subseteq ToSet(down[t])
  <2>1. ASSUME NEW s \in Sessions, down[s] # <<>>, down' = Taken(down, s)
        PROVE  /\ \A t \in Sessions : t # s => down'[t] = down[t]
               /\ ToSet(down'[s]) \subseteq ToSet(down[s])
    <3>1. /\ \A t \in Sessions : t # s => down'[t] = down[t]
          /\ Drops(down[s], down'[s], Head(down[s]))
      BY <2>1, TakenDown DEF IInv, QInv
    <3> QED
      BY <3>1 DEF Drops
  <2> QED
    BY <2>1
<1>3. /\ \A t \in Sessions : t > c => down'[t] = <<>>
      /\ conn[c] = "connecting" => down'[c] = <<>>
      /\ Unheard => ToSet(down'[c]) \subseteq ToSet(down[c])
      /\ Ended \in ToSet(down'[c]) => Ended \in ToSet(down[c])
  BY <1>1, <1>2 DEF Connections
<1>4. /\ \A t \in Sessions : t # c => up'[t] = up[t]
      /\ Unheard => up'[c] = up[c]
      /\ ~Unheard => Opened \notin ToSet(up'[c])
  BY <1>1 DEF Unheard
<1> HIDE DEF c
<1> QED
  BY <1>3, <1>4, ConnectionsKept DEF c

-----------------------------------------------------------------------------
(* What is known of the combats at both ends. *)

\* The numbers of the combats are those that the combat server has given.
Numbers == 1..allocated
Numbered ==
  /\ DOMAIN byArgent \subseteq Numbers
  /\ \A t \in Sessions : \A m \in ToSet(down[t]) : m.kind \in {"connect", "begin"} => m.combat \in Numbers
  /\ \A t \in Sessions : \A m \in ToSet(up[t]) :
       /\ m.kind \in {"connected", "begun", "settlement"} => m.combat \in Numbers
       /\ m.kind = "deployed" => m.combat \in Numbers \/ m.combat = None

\* A combat is begun over the connection that it was deployed over.
Begins ==
  \A t \in Sessions : \A m \in ToSet(down[t]) :
    m.kind = "begin" /\ m.combat \in DOMAIN fields => fields[m.combat].session \in {0, t}

\* A session knows only its own fields.
Owned == \A t \in Sessions : \A f \in sessionFields[t] : fields[f].session = t

\* Who is online or in a combat has an argent id, which no login changes.
Named ==
  /\ \A n \in online : argent[n] # 0
  /\ \A id \in DOMAIN combats : argent[combats[id].left] # 0 /\ argent[combats[id].right] # 0

\* A combat that has a number is found by it; nobody has joined one that has none.
CombatType == [left : Names, right : Names, key : Keys, connected : Nat]
KeyBack ==
  \A id \in DOMAIN combats :
    /\ combats[id] \in CombatType
    /\ combats[id].key # None => combats[id].key \in DOMAIN byArgent /\ byArgent[combats[id].key] = id
    /\ combats[id].connected # 0 => combats[id].key # None

\* Two joins come of a deployment, and each is answered once.
JoinedOf(k) == IF k \in DOMAIN byArgent THEN combats[byArgent[k]].connected ELSE 0
Joins(k) ==
  2 * Times(up[session], "deployed", k) + JoinedOf(k)
    + Times(down[session], "connect", k) + Times(up[session], "connected", k)
Joining ==
  /\ \A id \in DOMAIN combats : combats[id].connected <= 2
  /\ session # 0 => \A k \in Numbers : Joins(k) <= 2
  /\ session # 0 => \A m \in ToSet(up[session]) : m.kind = "deployed" => m.combat \notin DOMAIN byArgent

\* As long as the connection lasts:
Live == session # 0 /\ conn[session] = "up"

\* what the gateway knows is a field of the connection, or its end is on the way;
FieldsKnown ==
  \A k \in DOMAIN byArgent :
     \/ k \in DOMAIN fields /\ fields[k].session = session
     \/ Has(up[session], "settlement", k)

\* what is a field of the connection is known to the gateway, or its deployment is on the way;
FieldsTold ==
  \A f \in DOMAIN fields : fields[f].session = session =>
     f \in DOMAIN byArgent \/ Has(up[session], "deployed", f)

\* what is on the way is right about what it tells.
RolesOf(id) == {argent[combats[id].left], argent[combats[id].right]}
DeployedRight ==
  \A m \in ToSet(up[session]) : m.kind = "deployed" =>
    /\ m.host \in DOMAIN combats
    /\ m.combat # None =>
         /\ m.combat \in DOMAIN fields
         /\ fields[m.combat].session = session /\ ~fields[m.combat].begun
         /\ fields[m.combat].roles = RolesOf(m.host)
DeployRight ==
  \A m \in ToSet(down[session]) : m.kind = "deploy" =>
    /\ m.host \in DOMAIN combats
    /\ m.left = argent[combats[m.host].left] /\ m.right = argent[combats[m.host].right]
ConnectRight ==
  \A m \in ToSet(down[session]) : m.kind = "connect" /\ m.combat \in DOMAIN fields =>
    m.role \in fields[m.combat].roles
Gone ==
  \A m \in ToSet(up[session]) :
    m.kind = "settlement" \/ (m.kind \in {"connected", "begun"} /\ ~m.ok) => m.combat \notin DOMAIN fields
BeginRight ==
  \A m \in ToSet(down[session]) : m.kind = "begin" =>
    /\ ~Has(up[session], "deployed", m.combat)
    /\ m.combat \in DOMAIN byArgent => combats[byArgent[m.combat]].connected = 2
BegunRight ==
  \A k \in DOMAIN byArgent \intersect DOMAIN fields : fields[k].begun => combats[byArgent[k]].connected = 2

LInv ==
  Live => /\ FieldsKnown /\ FieldsTold /\ DeployedRight /\ DeployRight
          /\ ConnectRight /\ Gone /\ BeginRight /\ BegunRight

Ends == Connections /\ Owned /\ Named /\ KeyBack
Ways == Numbered /\ Begins /\ Joining /\ LInv
JInv == Ends /\ Ways

LEMMA TimesFit ==
  ASSUME QueuesFit, NEW t \in Sessions, NEW kind, NEW k
  PROVE  /\ Times(down[t], kind, k) \in Nat /\ Times(up[t], kind, k) \in Nat
         /\ Times(down[t], kind, k) # 0 <=> \E m \in ToSet(down[t]) : m.kind = kind /\ m.combat = k
         /\ Times(up[t], kind, k) # 0 <=> \E m \in ToSet(up[t]) : m.kind = kind /\ m.combat = k
<1> DEFINE q == down[t]  p == up[t]
<1>1. q \in Seq(DownMessage(made)) /\ p \in Seq(UpMessage(made))
  BY DEF QueuesFit
<1> HIDE DEF q, p
<1>2. /\ Times(q, kind, k) \in Nat
      /\ Times(q, kind, k) # 0 <=> \E m \in ToSet(q) : m.kind = kind /\ m.combat = k
  BY <1>1, TimesCounts
<1>3. /\ Times(p, kind, k) \in Nat
      /\ Times(p, kind, k) # 0 <=> \E m \in ToSet(p) : m.kind = kind /\ m.combat = k
  BY <1>1, TimesCounts
<1> QED
  BY <1>2, <1>3 DEF q, p

LEMMA TimesFitNext ==
  ASSUME QueuesFit', NEW t \in Sessions, NEW kind, NEW k
  PROVE  /\ Times(down'[t], kind, k) \in Nat /\ Times(up'[t], kind, k) \in Nat
         /\ Times(down'[t], kind, k) # 0 <=> \E m \in ToSet(down'[t]) : m.kind = kind /\ m.combat = k
         /\ Times(up'[t], kind, k) # 0 <=> \E m \in ToSet(up'[t]) : m.kind = kind /\ m.combat = k
<1> DEFINE q == down'[t]  p == up'[t]
<1>1. q \in Seq(DownMessage(made')) /\ p \in Seq(UpMessage(made'))
  BY DEF QueuesFit
<1> HIDE DEF q, p
<1>2. /\ Times(q, kind, k) \in Nat
      /\ Times(q, kind, k) # 0 <=> \E m \in ToSet(q) : m.kind = kind /\ m.combat = k
  BY <1>1, TimesCounts
<1>3. /\ Times(p, kind, k) \in Nat
      /\ Times(p, kind, k) # 0 <=> \E m \in ToSet(p) : m.kind = kind /\ m.combat = k
  BY <1>1, TimesCounts
<1> QED
  BY <1>2, <1>3 DEF q, p

LEMMA JoinedNat ==
  ASSUME IInv, NEW k
  PROVE  JoinedOf(k) \in Nat
BY DEF JoinedOf, IInv, GInv, GatewayType, GatewayPointers

LEMMA JoinedNatNext ==
  ASSUME IInv', NEW k
  PROVE  JoinedOf(k)' \in Nat
BY DEF JoinedOf, IInv, GInv, GatewayType, GatewayPointers

\* Nothing is on the way about numbers that have not been given.
LEMMA NotNumbered ==
  ASSUME QueuesFit, Numbered, NEW k \in Nat, k \notin Numbers, NEW t \in Sessions
  PROVE  /\ Times(down[t], "connect", k) = 0 /\ Times(up[t], "connected", k) = 0
         /\ Times(up[t], "deployed", k) = 0
         /\ JoinedOf(k) = 0
<1>1. /\ \A m \in ToSet(down[t]) : ~(m.kind = "connect" /\ m.combat = k)
      /\ \A m \in ToSet(up[t]) : ~(m.kind = "connected" /\ m.combat = k)
      /\ \A m \in ToSet(up[t]) : ~(m.kind = "deployed" /\ m.combat = k)
  BY AnswerAssumption DEF Numbered
<1> QED
  BY <1>1, TimesFit DEF Numbered, JoinedOf

-----------------------------------------------------------------------------
(* Steps that tell the other end nothing of the combats. *)

Telling == {"deploy", "deployed", "connect", "connected", "begin", "begun", "settlement"}

\* The same is on the way, but that a combat has begun.
Alike(old, new) ==
  /\ \A m \in ToSet(new) : m.kind \in Telling => m \in ToSet(old)
  /\ \A m \in ToSet(old) : m.kind \in Telling \ {"begun"} => m \in ToSet(new)
  /\ \A kind \in {"deployed", "connect", "connected"} : \A k : Times(new, kind, k) <= Times(old, kind, k)

LEMMA SessionThere ==
  ASSUME IInv, session # 0
  PROVE  session \in Sessions
BY LinkAssumption DEF IInv, GInv, GatewayType, Sessions

LEMMA IdleStep ==
  ASSUME IInv, IInv', Ways, UNCHANGED <<conn, session, combats, byArgent, allocated, fields>>,
         \A t \in Sessions : Alike(down[t], down'[t]) /\ Alike(up[t], up'[t]),
         \A id \in DOMAIN combats : /\ argent'[combats[id].left] = argent[combats[id].left]
                                    /\ argent'[combats[id].right] = argent[combats[id].right]
  PROVE  Ways'
<1>1. /\ \A t \in Sessions : \A m \in ToSet(down'[t]) : m.kind \in Telling => m \in ToSet(down[t])
      /\ \A t \in Sessions : \A m \in ToSet(up'[t]) : m.kind \in Telling => m \in ToSet(up[t])
  BY DEF Alike
<1>2. \A t \in Sessions : \A m \in ToSet(up[t]) : m.kind \in {"deployed", "settlement"} => m \in ToSet(up'[t])
  BY DEF Alike, Telling
<1>3. Numbered'
  BY <1>1 DEF Ways, Numbered, Numbers, Telling
<1>4. Begins'
  BY <1>1 DEF Ways, Begins, Telling
<1>5. Joining'
  <2>1. ASSUME session # 0, NEW k \in Numbers PROVE Joins(k)' <= 2
    <3>1. session \in Sessions
      BY <2>1, SessionThere
    <3>2. /\ Times(up'[session], "deployed", k) <= Times(up[session], "deployed", k)
          /\ Times(down'[session], "connect", k) <= Times(down[session], "connect", k)
          /\ Times(up'[session], "connected", k) <= Times(up[session], "connected", k)
      BY <3>1 DEF Alike
    <3>3. /\ Times(up[session], "deployed", k) \in Nat /\ Times(up'[session], "deployed", k) \in Nat
          /\ Times(down[session], "connect", k) \in Nat /\ Times(down'[session], "connect", k) \in Nat
          /\ Times(up[session], "connected", k) \in Nat /\ Times(up'[session], "connected", k) \in Nat
      BY <3>1, TimesFit, TimesFitNext DEF IInv, QInv
    <3>4. JoinedOf(k)' = JoinedOf(k) /\ JoinedOf(k) \in Nat
      BY JoinedNat DEF JoinedOf
    <3>5. Joins(k) <= 2
      BY <2>1 DEF Ways, Joining
    <3> QED
      BY <3>2, <3>3, <3>4, <3>5 DEF Joins
  <2>2. ASSUME session # 0, NEW m \in ToSet(up'[session]), m.kind = "deployed"
        PROVE  m.combat \notin DOMAIN byArgent
    BY <1>1, <2>2, SessionThere DEF Ways, Joining, Telling
  <2> QED
    BY <2>1, <2>2 DEF Ways, Joining, Numbers
<1>6. LInv'
  <2> SUFFICES ASSUME Live PROVE (FieldsKnown /\ FieldsTold /\ DeployedRight /\ DeployRight
                                    /\ ConnectRight /\ Gone /\ BeginRight /\ BegunRight)'
    BY DEF LInv, Live
  <2> session \in Sessions
    BY SessionThere DEF Live
  <2>0. /\ FieldsKnown /\ FieldsTold /\ DeployedRight /\ DeployRight
        /\ ConnectRight /\ Gone /\ BeginRight /\ BegunRight
    BY DEF Ways, LInv
  <2>1. FieldsKnown'
    BY <1>2, <2>0 DEF FieldsKnown, Has
  <2>2. FieldsTold'
    BY <1>2, <2>0 DEF FieldsTold, Has
  <2>3. DeployedRight'
    BY <1>1, <2>0 DEF DeployedRight, RolesOf, Telling
  <2>4. DeployRight'
    BY <1>1, <2>0 DEF DeployRight, Telling
  <2>5. ConnectRight' /\ Gone'
    BY <1>1, <2>0 DEF ConnectRight, Gone, Telling
  <2>6. BeginRight'
    BY <1>1, <2>0 DEF BeginRight, Has, Telling
  <2>7. BegunRight'
    BY <2>0 DEF BegunRight
  <2> QED
    BY <2>1, <2>2, <2>3, <2>4, <2>5, <2>6, <2>7
<1> QED
  BY <1>3, <1>4, <1>5, <1>6 DEF Ways

\* A step of the gateway that takes a message, and perhaps gives up a combat: none that is
\* on its way, and none that the combat server still has.
LEMMA ShrinkStep ==
  ASSUME IInv, IInv', Ways, NEW s \in Sessions, session = s, up[s] # <<>>, up' = Taken(up, s),
         UNCHANGED <<conn, session, down, argent, allocated, fields>>,
         DOMAIN combats' \subseteq DOMAIN combats, \A id \in DOMAIN combats' : combats'[id] = combats[id],
         DOMAIN byArgent' \subseteq DOMAIN byArgent,
         \A k \in DOMAIN byArgent' : byArgent'[k] = byArgent[k],
         \A id \in DOMAIN combats \ DOMAIN combats' : id \notin Hosts(down[s]) \union Hosts(up'[s]),
         Live => \A k \in DOMAIN byArgent \ DOMAIN byArgent' : k \notin DOMAIN fields,
         Head(up[s]).kind = "settlement" => Head(up[s]).combat \notin DOMAIN byArgent',
         Live /\ Head(up[s]).kind = "deployed" => Head(up[s]).combat = None
  PROVE  Ways'
<1>0. /\ \A t \in Sessions : t # s => up'[t] = up[t]
      /\ Drops(up[s], up'[s], Head(up[s]))
  BY TakenUp DEF IInv, QInv
<1> DEFINE m == Head(up[s])
<1> HIDE DEF m
<1>1. /\ \A t \in Sessions : t # s => up'[t] = up[t]
      /\ Drops(up[s], up'[s], m)
  BY <1>0 DEF m
<1>2. /\ \A t \in Sessions : ToSet(up'[t]) \subseteq ToSet(up[t])
      /\ \A x \in ToSet(up[s]) : x = m \/ x \in ToSet(up'[s])
  BY <1>1 DEF Drops
<1>3. Numbered'
  BY <1>2 DEF Ways, Numbered, Numbers
<1>4. Begins'
  BY DEF Ways, Begins
<1>5. s # 0 /\ \A k \in DOMAIN byArgent' : byArgent'[k] \in DOMAIN combats'
  BY DEF Sessions, IInv, GInv, GatewayPointers
<1>6. Joining'
  <2>1. ASSUME NEW k \in Numbers PROVE Joins(k)' <= 2
    <3>2. /\ Times(up'[s], "deployed", k) <= Times(up[s], "deployed", k)
          /\ Times(up'[s], "connected", k) <= Times(up[s], "connected", k)
          /\ Times(up[s], "deployed", k) \in Nat /\ Times(up'[s], "deployed", k) \in Nat
          /\ Times(down[s], "connect", k) \in Nat
          /\ Times(up[s], "connected", k) \in Nat /\ Times(up'[s], "connected", k) \in Nat
      <4>1. /\ Times(up[s], "deployed", k) \in Nat /\ Times(up'[s], "deployed", k) \in Nat
            /\ Times(down[s], "connect", k) \in Nat
            /\ Times(up[s], "connected", k) \in Nat /\ Times(up'[s], "connected", k) \in Nat
        BY TimesFit, TimesFitNext DEF IInv, QInv
      <4>2. /\ Times(up[s], "deployed", k) = Times(up'[s], "deployed", k) + Fits(m, "deployed", k)
            /\ Times(up[s], "connected", k) = Times(up'[s], "connected", k) + Fits(m, "connected", k)
        BY <1>1 DEF Drops
      <4>3. Fits(m, "deployed", k) \in {0, 1} /\ Fits(m, "connected", k) \in {0, 1}
        BY DEF Fits
      <4> QED
        BY <4>1, <4>2, <4>3
    <3>3. JoinedOf(k)' <= JoinedOf(k) /\ JoinedOf(k) \in Nat /\ JoinedOf(k)' \in Nat
      <4>1. JoinedOf(k) \in Nat /\ JoinedOf(k)' \in Nat
        BY JoinedNat, JoinedNatNext
      <4>2. JoinedOf(k)' = 0 \/ JoinedOf(k)' = JoinedOf(k)
        BY <1>5 DEF JoinedOf
      <4> QED
        BY <4>1, <4>2
    <3>4. Joins(k) <= 2
      BY <1>5 DEF Ways, Joining
    <3>5. /\ Joins(k) = 2 * Times(up[s], "deployed", k) + JoinedOf(k)
                          + Times(down[s], "connect", k) + Times(up[s], "connected", k)
          /\ Joins(k)' = 2 * Times(up'[s], "deployed", k) + JoinedOf(k)'
                          + Times(down[s], "connect", k) + Times(up'[s], "connected", k)
      BY DEF Joins
    <3> QED
      BY <3>2, <3>3, <3>4, <3>5
  <2>2. ASSUME NEW x \in ToSet(up'[s]), x.kind = "deployed"
        PROVE  x.combat \notin DOMAIN byArgent'
    BY <1>2, <1>5, <2>2 DEF Ways, Joining
  <2>3. \A id \in DOMAIN combats' : combats'[id].connected <= 2
    BY DEF Ways, Joining
  <2> QED
    BY <2>1, <2>2, <2>3 DEF Joining, Numbers
<1>7. LInv'
  <2> SUFFICES ASSUME Live PROVE (FieldsKnown /\ FieldsTold /\ DeployedRight /\ DeployRight
                                    /\ ConnectRight /\ Gone /\ BeginRight /\ BegunRight)'
    BY DEF LInv, Live
  <2>0. /\ FieldsKnown /\ FieldsTold /\ DeployedRight /\ DeployRight
        /\ ConnectRight /\ Gone /\ BeginRight /\ BegunRight
    BY DEF Ways, LInv
  <2>1. FieldsKnown'
    <3> SUFFICES ASSUME NEW k \in DOMAIN byArgent', ~(k \in DOMAIN fields /\ fields[k].session = s)
                 PROVE  \E x \in ToSet(up'[s]) : x.kind = "settlement" /\ x.combat = k
      BY DEF FieldsKnown, Has
    <3>1. PICK x \in ToSet(up[s]) : x.kind = "settlement" /\ x.combat = k
      BY <2>0 DEF FieldsKnown, Has
    <3> QED
      BY <1>2, <3>1 DEF m
  <2>2. FieldsTold'
    <3> SUFFICES ASSUME NEW f \in DOMAIN fields, fields[f].session = s, f \notin DOMAIN byArgent'
                 PROVE  \E x \in ToSet(up'[s]) : x.kind = "deployed" /\ x.combat = f
      BY DEF FieldsTold, Has
    <3>1. f \notin DOMAIN byArgent
      OBVIOUS
    <3>2. PICK x \in ToSet(up[s]) : x.kind = "deployed" /\ x.combat = f
      BY <2>0, <3>1 DEF FieldsTold, Has
    <3>3. f # None
      BY AnswerAssumption DEF IInv, SInv, ServerType, FieldsPaired
    <3> QED
      BY <1>2, <3>2, <3>3 DEF m
  <2>3. DeployedRight'
    <3> SUFFICES ASSUME NEW x \in ToSet(up'[s]), x.kind = "deployed"
                 PROVE  /\ x.host \in DOMAIN combats'
                        /\ x.combat # None =>
                             /\ x.combat \in DOMAIN fields
                             /\ fields[x.combat].session = s /\ ~fields[x.combat].begun
                             /\ fields[x.combat].roles = RolesOf(x.host)'
      BY DEF DeployedRight
    <3>1. /\ x.host \in DOMAIN combats
          /\ x.combat # None =>
               /\ x.combat \in DOMAIN fields
               /\ fields[x.combat].session = s /\ ~fields[x.combat].begun
               /\ fields[x.combat].roles = RolesOf(x.host)
      BY <1>2, <2>0 DEF DeployedRight
    <3>2. x.host \in Hosts(up'[s])
      BY DEF Hosts, Hosted, ToSet
    <3> QED
      BY <3>1, <3>2 DEF RolesOf
  <2>4. DeployRight'
    <3> SUFFICES ASSUME NEW x \in ToSet(down[s]), x.kind = "deploy"
                 PROVE  /\ x.host \in DOMAIN combats'
                        /\ x.left = argent[combats'[x.host].left] /\ x.right = argent[combats'[x.host].right]
      BY DEF DeployRight
    <3>1. x.host \in Hosts(down[s])
      BY DEF Hosts, Hosted, ToSet
    <3> QED
      BY <2>0, <3>1 DEF DeployRight
  <2>5. ConnectRight' /\ Gone'
    BY <1>2, <2>0 DEF ConnectRight, Gone
  <2>6. BeginRight'
    BY <1>2, <1>5, <2>0 DEF BeginRight, Has
  <2>7. BegunRight'
    BY <1>5, <2>0 DEF BegunRight
  <2> QED
    BY <2>1, <2>2, <2>3, <2>4, <2>5, <2>6, <2>7
<1> QED
  BY <1>3, <1>4, <1>6, <1>7 DEF Ways

LEMMA AlikeSame ==
  ASSUME QueuesFit, NEW t \in Sessions
  PROVE  Alike(down[t], down[t]) /\ Alike(up[t], up[t])
<1>1. ASSUME NEW kind, NEW k
      PROVE  /\ Times(down[t], kind, k) <= Times(down[t], kind, k)
             /\ Times(up[t], kind, k) <= Times(up[t], kind, k)
  <2>1. Times(down[t], kind, k) \in Nat /\ Times(up[t], kind, k) \in Nat
    BY TimesFit
  <2> QED
    BY <2>1
<1> QED
  BY <1>1 DEF Alike

LEMMA AlikeGains ==
  ASSUME NEW M, NEW old \in Seq(M), NEW p \in Seq(M), NEW new, Gains(old, new, p),
         \A m \in ToSet(p) : m.kind \notin Telling
  PROVE  Alike(old, new)
<1>1. ASSUME NEW kind \in Telling, NEW k PROVE Times(new, kind, k) <= Times(old, kind, k)
  <2>1. Times(p, kind, k) \in Nat /\ Times(old, kind, k) \in Nat
        /\ (Times(p, kind, k) # 0 => \E m \in ToSet(p) : m.kind = kind /\ m.combat = k)
    BY TimesCounts
  <2>2. Times(p, kind, k) = 0
    BY <1>1, <2>1
  <2>3. Times(new, kind, k) = Times(old, kind, k) + Times(p, kind, k)
    BY DEF Gains
  <2> QED
    BY <2>1, <2>2, <2>3
<1>2. {"deployed", "connect", "connected"} \subseteq Telling
  BY DEF Telling
<1> QED
  BY <1>1, <1>2 DEF Alike, Gains

LEMMA AlikeDrops ==
  ASSUME NEW M, NEW old \in Seq(M), NEW new \in Seq(M), NEW m, Drops(old, new, m),
         m.kind \notin Telling \ {"begun"}
  PROVE  Alike(old, new)
<1>1. ASSUME NEW kind, NEW k PROVE Times(new, kind, k) <= Times(old, kind, k)
  <2>1. Times(new, kind, k) \in Nat /\ Times(old, kind, k) \in Nat
    BY TimesCounts
  <2>2. Fits(m, kind, k) \in {0, 1}
    BY DEF Fits
  <2>3. Times(old, kind, k) = Times(new, kind, k) + Fits(m, kind, k)
    BY DEF Drops
  <2> QED
    BY <2>1, <2>2, <2>3
<1> QED
  BY <1>1 DEF Alike, Drops

LEMMA SendsDown ==
  ASSUME IInv, NEW M, down \in [Sessions -> Seq(M)], NEW p \in Seq(M), SendDown(p)
  PROVE  /\ \A t \in Sessions : t # session => down'[t] = down[t]
         /\ Live => Gains(down[session], down'[session], p)
         /\ ~Live => down' = down
<1>1. CASE session = 0
  BY <1>1 DEF SendDown, Live
<1>2. CASE session # 0
  <2> DEFINE new == down'  q == down  s == session
  <2>1. s \in Sessions /\ new = Sending(q, s, p) /\ q \in [Sessions -> Seq(M)]
    BY <1>2, SessionThere DEF SendDown, SessionSends
  <2> HIDE DEF new, q, s
  <2>2. /\ \A t \in Sessions : t # s => new[t] = q[t]
        /\ conn[s] = "up" => Gains(q[s], new[s], p)
        /\ conn[s] # "up" => new = q
    BY ONLY <2>1, p \in Seq(M), SentGains
  <2> QED
    BY <1>2, <2>2 DEF new, q, s, Live
<1> QED
  BY <1>1, <1>2

\* The gateway sends what tells nothing of the combats.
LEMMA SendsQuietly ==
  ASSUME IInv, Connections, NEW m \in DownMessage(made), m.kind \notin Telling \union {"close"},
         SendDown(<<m>>), UNCHANGED up
  PROVE  /\ \A t \in Sessions : Alike(down[t], down'[t]) /\ Alike(up[t], up'[t])
         /\ \A t \in Sessions : t # session => down'[t] = down[t]
         /\ session # 0 => (Ended \in ToSet(down'[session]) => Ended \in ToSet(down[session]))
<1> DEFINE M == DownMessage(made)  p == <<m>>
<1>1. p \in Seq(M) /\ ToSet(p) = {m} /\ down \in [Sessions -> Seq(M)]
  BY TimesOne DEF IInv, QInv, QueuesFit
<1> HIDE DEF M, p
<1>2. /\ \A t \in Sessions : t # session => down'[t] = down[t]
      /\ Live => Gains(down[session], down'[session], p)
      /\ ~Live => down' = down
  BY <1>1, SendsDown DEF p
<1>3. Live => session \in Sessions /\ Alike(down[session], down'[session])
  <2> SUFFICES ASSUME Live PROVE session \in Sessions /\ Alike(down[session], down'[session])
    OBVIOUS
  <2> DEFINE old == down[session]  new == down'[session]
  <2>1. session \in Sessions /\ old \in Seq(M) /\ Gains(old, new, p)
    BY <1>1, <1>2, SessionThere DEF Live
  <2> HIDE DEF old, new
  <2>2. Alike(old, new)
    BY <1>1, <2>1, AlikeGains
  <2> QED
    BY <2>1, <2>2 DEF old, new
<1>4. \A t \in Sessions : Alike(down[t], down[t]) /\ Alike(up[t], up'[t])
  BY AlikeSame DEF IInv, QInv
<1>5. session # 0 => (Ended \in ToSet(down'[session]) => Ended \in ToSet(down[session]))
  BY <1>1, <1>2 DEF Ended, Gains
<1> QED
  BY <1>2, <1>3, <1>4, <1>5

LEMMA CloseJoint ==
  ASSUME IInv, IInv', JInv, NEW n \in Names, OnClose(n), UNCHANGED serverVars
  PROVE  JInv'
<1>1. /\ online' \subseteq online
      /\ UNCHANGED <<conn, down, up, session, combats, byArgent, argent, allocated, fields, role, sessionFields>>
  BY DEF OnClose, DeleteActor, RemoveActor, linkVars, serverVars
<1>2. Connections'
  BY <1>1, GatewayConnections DEF JInv, Ends
<1>3. Owned' /\ Named' /\ KeyBack'
  BY <1>1 DEF JInv, Ends, Owned, Named, KeyBack
<1>4. Ways'
  BY <1>1, IdleStep, AlikeSame DEF JInv, IInv, QInv
<1> QED
  BY <1>2, <1>3, <1>4 DEF JInv, Ends

LEMMA ActionJoint ==
  ASSUME IInv, IInv', JInv, NEW n \in Names, OnMessageCombatActionRequest(n), UNCHANGED serverVars
  PROVE  JInv'
<1> DEFINE m == [kind |-> "action", role |-> argent[n]]
<1>1. /\ SendDown(<<m>>)
      /\ UNCHANGED <<online, conn, up, session, combats, byArgent, argent, allocated, fields, role, sessionFields>>
  BY DEF OnMessageCombatActionRequest, gatewayState, serverVars
<1>2. m \in DownMessage(made) /\ m.kind \notin Telling \union {"close"}
  <2>1. argent[n] \in Nat /\ None \in Keys
    BY DEF IInv, GInv, GatewayType, Keys
  <2> QED
    BY <2>1, DownMessages DEF Telling
<1> HIDE DEF m
<1>3. /\ \A t \in Sessions : Alike(down[t], down'[t]) /\ Alike(up[t], up'[t])
      /\ \A t \in Sessions : t # session => down'[t] = down[t]
      /\ session # 0 => (Ended \in ToSet(down'[session]) => Ended \in ToSet(down[session]))
  BY <1>1, <1>2, SendsQuietly DEF JInv, Ends
<1>4. Connections'
  BY <1>1, <1>3, GatewayConnections DEF JInv, Ends
<1>5. Owned' /\ Named' /\ KeyBack'
  BY <1>1 DEF JInv, Ends, Owned, Named, KeyBack
<1>6. Ways'
  BY <1>1, <1>3, IdleStep DEF JInv
<1> QED
  BY <1>4, <1>5, <1>6 DEF JInv, Ends

\* A login gives an argent id to who has none, who is in no combat.
LEMMA LoginJoint ==
  ASSUME IInv, IInv', JInv, NEW n \in Names, OnMessageLoginRequest(n), UNCHANGED serverVars
  PROVE  JInv'
<1> DEFINE k == combats[combatOf[n]].key
           m == [kind |-> "reconnect", combat |-> k, role |-> argent[n]]
<1>1. /\ online' = online \union {n}
      /\ IF argent[n] = 0 THEN AllocateActor(n) ELSE UNCHANGED <<argent, issued>>
      /\ \/ combatOf[n] # 0 /\ k # None /\ SendDown(<<m>>)
         \/ UNCHANGED down
      /\ UNCHANGED <<conn, up, session, combats, byArgent, allocated, fields, role, sessionFields>>
  BY DEF OnMessageLoginRequest, serverVars, CombatSends
<1>2. /\ argent'[n] # 0
      /\ \A x \in Names : argent[x] # 0 => argent'[x] = argent[x]
  <2>1. argent \in [Names -> 0..issued] /\ issued \in Nat
    BY DEF IInv, GInv, GatewayType
  <2>2. CASE argent[n] = 0
    <3>1. argent' = [argent EXCEPT ![n] = issued + 1]
      BY <1>1, <2>2 DEF AllocateActor
    <3> QED
      BY <2>1, <2>2, <3>1
  <2>3. CASE argent[n] # 0
    BY <1>1, <2>3
  <2> QED
    BY <2>2, <2>3
<1>3. /\ \A t \in Sessions : Alike(down[t], down'[t]) /\ Alike(up[t], up'[t])
      /\ \A t \in Sessions : t # session => down'[t] = down[t]
      /\ session # 0 => (Ended \in ToSet(down'[session]) => Ended \in ToSet(down[session]))
  <2>1. CASE UNCHANGED down
    BY <1>1, <2>1, AlikeSame DEF IInv, QInv
  <2>2. CASE combatOf[n] # 0 /\ k # None /\ SendDown(<<m>>)
    <3>1. k \in Keys /\ argent[n] \in Nat
      BY <2>2 DEF IInv, GInv, GatewayType, GatewayPointers, QInv, KeysFit
    <3>2. m \in DownMessage(made) /\ m.kind \notin Telling \union {"close"}
      BY <3>1, DownMessages DEF Telling
    <3> HIDE DEF k
    <3>3. SendDown(<<m>>)
      BY <2>2
    <3> HIDE DEF m
    <3> QED
      BY <1>1, <3>2, <3>3, SendsQuietly DEF JInv, Ends
  <2> QED
    BY <1>1, <2>1, <2>2
<1> HIDE DEF k, m
<1>4. \A id \in DOMAIN combats : /\ combats[id].left \in Names /\ combats[id].right \in Names
                                 /\ argent[combats[id].left] # 0 /\ argent[combats[id].right] # 0
  BY DEF IInv, GInv, GatewayType, Sides, JInv, Ends, Named
<1>5. Connections'
  BY <1>1, <1>3, GatewayConnections DEF JInv, Ends
<1>6. Owned' /\ KeyBack'
  BY <1>1 DEF JInv, Ends, Owned, KeyBack
<1>7. Named'
  <2>1. \A x \in online' : argent'[x] # 0
    BY <1>1, <1>2 DEF JInv, Ends, Named, IInv, GInv, GatewayType
  <2> QED
    BY <1>1, <1>2, <1>4, <2>1 DEF Named
<1>8. Ways'
  BY <1>1, <1>2, <1>3, <1>4, IdleStep DEF JInv
<1> QED
  BY <1>5, <1>6, <1>7, <1>8 DEF JInv, Ends

\* Two are put into a new combat, which is to be deployed.
LEMMA PairJoint ==
  ASSUME IInv, IInv', JInv, NEW n \in online, NEW right \in waitingActors, Allocate(n, right),
         SendDown(<<[kind |-> "deploy", host |-> made', left |-> argent[n], right |-> argent[right]]>>),
         UNCHANGED <<online, argent, conn, up, session, byArgent, serverVars>>
  PROVE  JInv'
<1> DEFINE m == [kind |-> "deploy", host |-> made', left |-> argent[n], right |-> argent[right]]
           c == made'
<1>1. UNCHANGED <<allocated, fields, role, sessionFields>>
  BY DEF serverVars
<1>2. /\ right \in online /\ argent[n] # 0 /\ argent[right] # 0
      /\ argent[n] \in Nat /\ argent[right] \in Nat
      /\ made \in Nat /\ c = made + 1 /\ DOMAIN combats \subseteq 1..made
  BY DEF IInv, GInv, GatewayType, GatewayPointers, Counted, JInv, Ends, Named, Allocate
<1>3. /\ DOMAIN combats' = DOMAIN combats \union {c} /\ c \notin DOMAIN combats /\ c \in 1..made'
      /\ combats'[c] = [left |-> n, right |-> right, key |-> None, connected |-> 0]
      /\ \A id \in DOMAIN combats : combats'[id] = combats[id]
  BY <1>2 DEF Allocate
<1>4. m \in DownMessage(made') /\ m.kind = "deploy" /\ m.host = c /\ m.left = argent[n] /\ m.right = argent[right]
  BY <1>2, <1>3, DownMessages
<1>5. SendDown(<<m>>)
  OBVIOUS
<1> HIDE DEF m, c
<1>6. /\ \A t \in Sessions : t # session => down'[t] = down[t]
      /\ Live => Gains(down[session], down'[session], <<m>>)
      /\ ~Live => down' = down
      /\ ToSet(<<m>>) = {m}
  <2> DEFINE M == DownMessage(made')  p == <<m>>
  <2>1. p \in Seq(M) /\ ToSet(p) = {m}
    BY <1>4, TimesOne
  <2>2. down \in [Sessions -> Seq(M)]
    <3>1. Seq(DownMessage(made)) \subseteq Seq(DownMessage(made'))
      BY <1>2, Wider DEF c
    <3> QED
      BY <3>1 DEF IInv, QInv, QueuesFit
  <2>3. SendDown(p)
    BY <1>5
  <2> HIDE DEF M, p
  <2>4. /\ \A t \in Sessions : t # session => down'[t] = down[t]
        /\ Live => Gains(down[session], down'[session], p)
        /\ ~Live => down' = down
    BY <2>1, <2>2, <2>3, SendsDown
  <2> QED
    BY <2>1, <2>4 DEF p
<1>7. \A t \in Sessions : \A x \in ToSet(down'[t]) : x \in ToSet(down[t]) \/ (x = m /\ t = session)
  BY <1>6 DEF Gains
<1>8. Connections'
  <2>1. session # 0 => (Ended \in ToSet(down'[session]) => Ended \in ToSet(down[session]))
    BY <1>4, <1>7, SessionThere DEF Ended
  <2> QED
    BY <1>1, <1>6, <2>1, GatewayConnections DEF JInv, Ends
<1>9. Owned' /\ Named' /\ KeyBack'
  <2>1. Owned'
    BY <1>1 DEF JInv, Ends, Owned
  <2>2. Named'
    BY <1>2, <1>3 DEF JInv, Ends, Named
  <2>3. KeyBack'
    <3>1. combats'[c] \in CombatType
      <4>1. n \in Names /\ right \in Names
        BY <1>2 DEF IInv, GInv, GatewayType
      <4> QED
        BY <1>3, <4>1 DEF CombatType, Keys
    <3> QED
      BY <1>3, <3>1 DEF JInv, Ends, KeyBack
  <2> QED
    BY <2>1, <2>2, <2>3
<1>10. Numbered' /\ Begins'
  BY <1>1, <1>4, <1>7 DEF JInv, Ways, Numbered, Numbers, Begins
<1>11. \A k \in DOMAIN byArgent : byArgent[k] \in DOMAIN combats /\ combats'[byArgent[k]] = combats[byArgent[k]]
  BY <1>3 DEF IInv, GInv, GatewayPointers
<1>12. Joining'
  <2>1. ASSUME session # 0, NEW k \in Numbers PROVE Joins(k)' <= 2
    <3>1. session \in Sessions
      BY <2>1, SessionThere
    <3>2. Times(down'[session], "connect", k) = Times(down[session], "connect", k)
      <4>1. CASE Live
        <5> DEFINE p == <<m>>
        <5>1. Times(p, "connect", k) = 0
          <6>1. Times(p, "connect", k) = Fits(m, "connect", k)
            BY <1>4, TimesOne
          <6> QED
            BY <1>4, <6>1 DEF Fits
        <5>2. Times(down'[session], "connect", k) = Times(down[session], "connect", k) + Times(p, "connect", k)
          BY <1>6, <4>1 DEF Gains
        <5>3. Times(down[session], "connect", k) \in Nat
          BY <3>1, TimesFit DEF IInv, QInv
        <5> HIDE DEF p
        <5> QED
          BY <5>1, <5>2, <5>3
      <4>2. CASE ~Live
        BY <1>6, <4>2
      <4> QED
        BY <4>1, <4>2
    <3>3. JoinedOf(k)' = JoinedOf(k)
      BY <1>11 DEF JoinedOf
    <3> QED
      BY <2>1, <3>2, <3>3 DEF JInv, Ways, Joining, Joins
  <2>2. \A id \in DOMAIN combats' : combats'[id].connected <= 2
    BY <1>3 DEF JInv, Ways, Joining
  <2>3. session # 0 => \A x \in ToSet(up[session]) : x.kind = "deployed" => x.combat \notin DOMAIN byArgent
    BY DEF JInv, Ways, Joining
  <2> QED
    BY <1>1, <2>1, <2>2, <2>3 DEF Joining, Numbers
<1>13. LInv'
  <2> SUFFICES ASSUME Live PROVE (FieldsKnown /\ FieldsTold /\ DeployedRight /\ DeployRight
                                    /\ ConnectRight /\ Gone /\ BeginRight /\ BegunRight)'
    BY DEF LInv, Live
  <2> session \in Sessions
    BY SessionThere DEF Live
  <2>0. /\ FieldsKnown /\ FieldsTold /\ DeployedRight /\ DeployRight
        /\ ConnectRight /\ Gone /\ BeginRight /\ BegunRight
    BY DEF JInv, Ways, LInv
  <2>1. FieldsKnown' /\ FieldsTold'
    BY <1>1, <2>0 DEF FieldsKnown, FieldsTold, Has
  <2>2. DeployedRight'
    BY <1>1, <1>3, <2>0 DEF DeployedRight, RolesOf
  <2>3. DeployRight'
    BY <1>3, <1>4, <1>7, <2>0 DEF DeployRight
  <2>4. ConnectRight' /\ Gone'
    BY <1>1, <1>4, <1>7, <2>0 DEF ConnectRight, Gone
  <2>5. BeginRight'
    BY <1>4, <1>7, <1>11, <2>0 DEF BeginRight, Has
  <2>6. BegunRight'
    BY <1>1, <1>11, <2>0 DEF BegunRight
  <2> QED
    BY <2>1, <2>2, <2>3, <2>4, <2>5, <2>6
<1> QED
  BY <1>8, <1>9, <1>10, <1>12, <1>13 DEF JInv, Ends, Ways

LEMMA RequestJoint ==
  ASSUME IInv, IInv', JInv, NEW n \in Names, OnMessageCombatRequest(n), UNCHANGED serverVars
  PROVE  JInv'
<1>1. /\ n \in online /\ PushCombat(n) /\ UNCHANGED <<online, argent, byArgent, session, conn, up>>
      /\ UNCHANGED <<allocated, fields, role, sessionFields>>
  BY DEF OnMessageCombatRequest, serverVars
<1>2. CASE waitingActors = {}
  <2>1. UNCHANGED <<combats, down>>
    BY <1>1, <1>2 DEF PushCombat
  <2>2. Connections'
    BY <1>1, <2>1, GatewayConnections DEF JInv, Ends
  <2>3. Owned' /\ Named' /\ KeyBack'
    BY <1>1, <2>1 DEF JInv, Ends, Owned, Named, KeyBack
  <2>4. Ways'
    BY <1>1, <2>1, IdleStep, AlikeSame DEF JInv, IInv, QInv
  <2> QED
    BY <2>2, <2>3, <2>4 DEF JInv, Ends
<1>3. CASE waitingActors # {}
  <2>1. PICK right \in waitingActors :
          /\ Allocate(n, right)
          /\ SendDown(<<[kind |-> "deploy", host |-> made', left |-> argent[n], right |-> argent[right]]>>)
    BY <1>1, <1>3 DEF PushCombat
  <2> QED
    BY <1>1, <2>1, PairJoint
<1> QED
  BY <1>2, <1>3

\* A combat goes with its number.
LEMMA DeallocateEnds ==
  ASSUME IInv, JInv, NEW id \in DOMAIN combats, Deallocate(id)
  PROVE  /\ DOMAIN combats' \subseteq DOMAIN combats
         /\ \A i \in DOMAIN combats' : combats'[i] = combats[i]
         /\ DOMAIN combats \ DOMAIN combats' = {id}
         /\ DOMAIN byArgent' = DOMAIN byArgent \ {combats[id].key}
         /\ \A k \in DOMAIN byArgent' : byArgent'[k] = byArgent[k]
         /\ KeyBack'
<1>1. /\ combats' = [i \in DOMAIN combats \ {id} |-> combats[i]]
      /\ byArgent' = [k \in DOMAIN byArgent \ {combats[id].key} |-> byArgent[k]]
  <2>1. DOMAIN combats \intersect (DOMAIN combats \ {id}) = DOMAIN combats \ {id}
    OBVIOUS
  <2> QED
    BY <2>1 DEF Deallocate, Restrict, RemoveCombat
<1>2. KeyBack
  BY DEF JInv, Ends
<1>3. KeyBack'
  <2> SUFFICES ASSUME NEW i \in DOMAIN combats'
               PROVE  /\ combats'[i] \in CombatType
                      /\ combats'[i].key # None =>
                           combats'[i].key \in DOMAIN byArgent' /\ byArgent'[combats'[i].key] = i
                      /\ combats'[i].connected # 0 => combats'[i].key # None
    BY DEF KeyBack
  <2>1. i \in DOMAIN combats /\ i # id /\ combats'[i] = combats[i]
    BY <1>1
  <2>2. combats[i].key # None => combats[i].key # combats[id].key
    BY <1>2, <2>1 DEF KeyBack
  <2> QED
    BY <1>1, <1>2, <2>1, <2>2 DEF KeyBack
<1> QED
  BY <1>1, <1>3

\* The gateway takes a message, and perhaps gives up a combat.
LEMMA TakesJoint ==
  ASSUME IInv, IInv', JInv, NEW s \in Sessions, session = s, up[s] # <<>>,
         Head(up[s]).kind # "open", up' = Taken(up, s),
         UNCHANGED <<conn, session, down, argent, online, serverVars>>,
         \/ UNCHANGED <<combats, byArgent>>
         \/ \E id \in DOMAIN combats :
              /\ Deallocate(id) /\ id \notin Hosts(down[s]) \union Hosts(up'[s])
              /\ Live /\ combats[id].key \in DOMAIN byArgent => combats[id].key \notin DOMAIN fields,
         Head(up[s]).kind = "settlement" => Head(up[s]).combat \notin DOMAIN byArgent',
         Live /\ Head(up[s]).kind = "deployed" => Head(up[s]).combat = None
  PROVE  JInv'
<1>1. UNCHANGED <<allocated, fields, role, sessionFields>> /\ s # 0
  BY DEF serverVars, Sessions
<1>2. /\ DOMAIN combats' \subseteq DOMAIN combats /\ \A id \in DOMAIN combats' : combats'[id] = combats[id]
      /\ DOMAIN byArgent' \subseteq DOMAIN byArgent /\ \A k \in DOMAIN byArgent' : byArgent'[k] = byArgent[k]
      /\ \A id \in DOMAIN combats \ DOMAIN combats' : id \notin Hosts(down[s]) \union Hosts(up'[s])
      /\ Live => \A k \in DOMAIN byArgent \ DOMAIN byArgent' : k \notin DOMAIN fields
      /\ KeyBack'
  <2>1. CASE UNCHANGED <<combats, byArgent>>
    BY <2>1 DEF JInv, Ends, KeyBack
  <2>2. CASE ~UNCHANGED <<combats, byArgent>>
    <3>0. PICK id \in DOMAIN combats :
            /\ Deallocate(id) /\ id \notin Hosts(down[s]) \union Hosts(up'[s])
            /\ Live /\ combats[id].key \in DOMAIN byArgent => combats[id].key \notin DOMAIN fields
      BY <2>2
    <3>1. /\ DOMAIN combats' \subseteq DOMAIN combats
          /\ \A i \in DOMAIN combats' : combats'[i] = combats[i]
          /\ DOMAIN combats \ DOMAIN combats' = {id}
          /\ DOMAIN byArgent' = DOMAIN byArgent \ {combats[id].key}
          /\ \A k \in DOMAIN byArgent' : byArgent'[k] = byArgent[k]
          /\ KeyBack'
      BY <3>0, DeallocateEnds
    <3> QED
      BY <3>0, <3>1
  <2> QED
    BY <2>1, <2>2
<1>3. Head(up[s]) # Opened
  BY DEF Opened
<1>4. Connections'
  BY <1>1, <1>3, GatewayConnections DEF JInv, Ends
<1>5. Owned' /\ Named'
  BY <1>1, <1>2 DEF JInv, Ends, Owned, Named
<1>6. Ways'
  BY <1>1, <1>2, ShrinkStep DEF JInv
<1> QED
  BY <1>2, <1>4, <1>5, <1>6 DEF JInv, Ends

\* A message that the gateway takes.
LEMMA Takes1 ==
  ASSUME IInv, NEW s \in Sessions, NEW kind, Receives(s, kind)
  PROVE  /\ up[s] # <<>> /\ up' = Taken(up, s) /\ Head(up[s]).kind = kind
         /\ Head(up[s]) \in UpMessage(made) /\ Head(up[s]) \in ToSet(up[s])
         /\ Drops(up[s], up'[s], Head(up[s]))
         /\ Hosts(up'[s]) \subseteq Hosts(up[s])
<1>1. up[s] # <<>> /\ up' = Taken(up, s) /\ Head(up[s]).kind = kind
  BY DEF Receives, Received, Taken
<1>2. Head(up[s]) \in UpMessage(made) /\ Drops(up[s], up'[s], Head(up[s]))
  BY <1>1, TakenUp DEF IInv, QInv
<1>3. Hosts(up'[s]) \subseteq Hosts(up[s])
  BY Receiving DEF IInv, QInv, Quieter
<1> QED
  BY <1>1, <1>2, <1>3 DEF Drops

\* The gateway gives up a combat that the combat server does not have.
LEMMA GivesUp ==
  ASSUME IInv, IInv', JInv, NEW s \in Sessions, session = s,
         NEW kind \in {"connected", "begun", "settlement"}, Receives(s, kind),
         kind = "settlement" \/ ~Head(up[s]).ok,
         Head(up[s]).combat \in DOMAIN byArgent, Deallocate(byArgent[Head(up[s]).combat]),
         UNCHANGED <<conn, session, down, argent, online, serverVars>>
  PROVE  JInv'
<1> DEFINE m == Head(up[s])  id == byArgent[m.combat]
<1>1. /\ up[s] # <<>> /\ up' = Taken(up, s) /\ m.kind = kind /\ m \in ToSet(up[s])
      /\ Hosts(up'[s]) \subseteq Hosts(up[s])
  BY Takes1
<1>2. id \in DOMAIN combats /\ combats[id].key = m.combat
  BY DEF IInv, GInv, GatewayPointers
<1>3. id \notin Hosts(down[s]) \union Hosts(up'[s])
  BY <1>1 DEF IInv, QInv, HostOnce
<1>4. Live => m.combat \notin DOMAIN fields
  BY <1>1 DEF JInv, Ways, LInv, Gone
<1>5. m.combat \notin DOMAIN byArgent'
  BY <1>2, DeallocateEnds
<1> QED
  BY <1>1, <1>2, <1>3, <1>4, <1>5, TakesJoint

LEMMA ForwardJoint ==
  ASSUME IInv, IInv', JInv, NEW s \in Sessions, Forward(s), UNCHANGED serverVars
  PROVE  JInv'
<1>1. /\ session = s /\ UNCHANGED <<conn, session, down, argent, online, combats, byArgent>>
      /\ Receives(s, "reconnected") \/ Receives(s, "sync")
  BY DEF Forward, HasSession, gatewayVars, gatewayState
<1>2. up[s] # <<>> /\ up' = Taken(up, s) /\ Head(up[s]).kind \in {"reconnected", "sync"}
  BY <1>1, Takes1
<1> QED
  BY <1>1, <1>2, TakesJoint

LEMMA BeginResponseJoint ==
  ASSUME IInv, IInv', JInv, NEW s \in Sessions, OnMessageCombatBeginResponse(s), UNCHANGED serverVars
  PROVE  JInv'
<1>1. /\ session = s /\ UNCHANGED <<conn, session, down, argent, online>> /\ Receives(s, "begun")
      /\ \/ UNCHANGED <<combats, byArgent>>
         \/ /\ Head(up[s]).combat \in DOMAIN byArgent /\ ~Head(up[s]).ok
            /\ Deallocate(byArgent[Head(up[s]).combat])
  BY DEF OnMessageCombatBeginResponse, HasSession, Known, Refuse
<1>2. up[s] # <<>> /\ up' = Taken(up, s) /\ Head(up[s]).kind = "begun"
  BY <1>1, Takes1
<1>3. CASE UNCHANGED <<combats, byArgent>>
  BY <1>1, <1>2, <1>3, TakesJoint
<1>4. CASE ~UNCHANGED <<combats, byArgent>>
  BY <1>1, <1>4, GivesUp
<1> QED
  BY <1>3, <1>4

LEMMA SettlementJoint ==
  ASSUME IInv, IInv', JInv, NEW s \in Sessions, OnMessageCombatSettlementSync(s), UNCHANGED serverVars
  PROVE  JInv'
<1>1. /\ session = s /\ UNCHANGED <<conn, session, down, argent, online>> /\ Receives(s, "settlement")
      /\ IF Head(up[s]).combat \in DOMAIN byArgent
         THEN Deallocate(byArgent[Head(up[s]).combat])
         ELSE UNCHANGED <<combats, byArgent>>
  BY DEF OnMessageCombatSettlementSync, HasSession, Known
<1>2. up[s] # <<>> /\ up' = Taken(up, s) /\ Head(up[s]).kind = "settlement"
  BY <1>1, Takes1
<1>3. CASE Head(up[s]).combat \in DOMAIN byArgent
  BY <1>1, <1>3, GivesUp
<1>4. CASE Head(up[s]).combat \notin DOMAIN byArgent
  BY <1>1, <1>2, <1>4, TakesJoint
<1> QED
  BY <1>3, <1>4

LEMMA PairConcat ==
  ASSUME NEW m, NEW n
  PROVE  <<m>> \o <<n>> = <<m, n>>
<1> DEFINE M == {m, n}  p == <<m>>  q == <<n>>  w == <<m, n>>  v == p \o q
<1>1. w \in Seq(M) /\ Len(w) = 2 /\ w[1] = m /\ w[2] = n
  OBVIOUS
<1>2. p \in Seq(M) /\ q \in Seq(M) /\ Len(p) = 1 /\ Len(q) = 1 /\ p[1] = m /\ q[1] = n
  OBVIOUS
<1> HIDE DEF p, q, w, M
<1>3. v \in Seq(M) /\ Len(v) = 2 /\ v[1] = m /\ v[2] = n
  BY <1>2, ConcatProperties
<1> HIDE DEF v
<1>4. Len(w) = Len(v) /\ \A i \in 1..Len(w) : w[i] = v[i]
  BY <1>1, <1>3
<1>5. w = v
  BY <1>1, <1>3, <1>4, SeqEqual
<1> QED
  BY <1>5 DEF w, v, p, q

LEMMA TimesTwo ==
  ASSUME NEW M, NEW m \in M, NEW n \in M
  PROVE  /\ <<m, n>> \in Seq(M) /\ ToSet(<<m, n>>) = {m, n}
         /\ \A kind, k : Times(<<m, n>>, kind, k) = Fits(m, kind, k) + Fits(n, kind, k)
<1> DEFINE p == <<m>>  q == <<n>>
<1>1. /\ p \in Seq(M) /\ ToSet(p) = {m} /\ \A kind, k : Times(p, kind, k) = Fits(m, kind, k)
  BY TimesOne
<1>2. /\ q \in Seq(M) /\ ToSet(q) = {n} /\ \A kind, k : Times(q, kind, k) = Fits(n, kind, k)
  BY TimesOne
<1>3. <<m, n>> = p \o q
  BY PairConcat
<1> HIDE DEF p, q
<1>4. /\ p \o q \in Seq(M) /\ ToSet(p \o q) = ToSet(p) \union ToSet(q)
      /\ \A kind, k : Times(p \o q, kind, k) = Times(p, kind, k) + Times(q, kind, k)
  BY <1>1, <1>2, TimesConcat
<1> QED
  BY <1>1, <1>2, <1>3, <1>4

\* A combat gets its number, and both sides join it.
LEMMA DeployedJoint ==
  ASSUME IInv, IInv', JInv, NEW s \in Sessions, session = s, Receives(s, "deployed"),
         NEW h \in DOMAIN combats, h = Head(up[s]).host, NEW k, k = Head(up[s]).combat, k # None,
         combats' = [combats EXCEPT ![h].key = k], AddCombat(k, h),
         NEW l, l = [kind |-> "connect", combat |-> k, role |-> argent[combats[h].left]],
         NEW r, r = [kind |-> "connect", combat |-> k, role |-> argent[combats[h].right]],
         SendDown(<<l, r>>),
         UNCHANGED <<conn, session, argent, online, serverVars>>
  PROVE  JInv'
<1> DEFINE m == Head(up[s])
<1>1. UNCHANGED <<allocated, fields, role, sessionFields>> /\ s # 0
  BY DEF serverVars, Sessions
<1>2. /\ up[s] # <<>> /\ up' = Taken(up, s) /\ m.kind = "deployed" /\ m.host = h /\ m.combat = k
      /\ m \in UpMessage(made) /\ m \in ToSet(up[s]) /\ Drops(up[s], up'[s], m)
      /\ \A t \in Sessions : t # s => up'[t] = up[t]
  <2>1. up[s] # <<>> /\ up' = Taken(up, s)
    BY Takes1
  <2>2. \A t \in Sessions : t # s => up'[t] = up[t]
    BY <2>1, TakenUp DEF IInv, QInv
  <2> QED
    BY <2>1, <2>2, Takes1
<1> HIDE DEF m
<1>3. /\ k \in Numbers /\ k \notin DOMAIN byArgent /\ k \in Keys
      /\ combats[h].key = None /\ combats[h].connected = 0
      /\ \A j \in DOMAIN byArgent : byArgent[j] # h
  <2>1. k \in Numbers /\ k \notin DOMAIN byArgent
    BY <1>1, <1>2 DEF JInv, Ways, Numbered, Joining
  <2>2. h \in Hosts(up[s])
    BY <1>2 DEF Hosts, Hosted, ToSet
  <2>3. \A j \in DOMAIN byArgent : byArgent[j] # h
    BY <2>2 DEF IInv, QInv, HostOnce
  <2>4. k \in Keys
    BY <1>2, UpMessages
  <2> QED
    BY <2>1, <2>3, <2>4 DEF JInv, Ends, KeyBack
<1>4. /\ DOMAIN combats' = DOMAIN combats /\ combats'[h].key = k
      /\ \A id \in DOMAIN combats : /\ combats'[id].left = combats[id].left
                                    /\ combats'[id].right = combats[id].right
                                    /\ combats'[id].connected = combats[id].connected
      /\ \A id \in DOMAIN combats : id # h => combats'[id] = combats[id]
      /\ combats'[h] \in CombatType
  <2>1. /\ DOMAIN combats' = DOMAIN combats /\ combats'[h] = [combats[h] EXCEPT !.key = k]
        /\ \A id \in DOMAIN combats : id # h => combats'[id] = combats[id]
    OBVIOUS
  <2> DEFINE old == combats[h]  new == combats'[h]
  <2>2. old \in CombatType /\ new = [old EXCEPT !.key = k]
    BY <2>1 DEF JInv, Ends, KeyBack
  <2> HIDE DEF old, new
  <2>3. /\ new.key = k /\ new.left = old.left /\ new.right = old.right
        /\ new.connected = old.connected /\ new \in CombatType
    BY <1>3, <2>2 DEF CombatType
  <2> QED
    BY <2>1, <2>3 DEF old, new
<1>5. /\ DOMAIN byArgent' = DOMAIN byArgent \union {k} /\ byArgent'[k] = h
      /\ \A j \in DOMAIN byArgent : byArgent'[j] = byArgent[j]
  BY <1>3 DEF AddCombat
<1>6. /\ l \in DownMessage(made) /\ r \in DownMessage(made)
      /\ l.kind = "connect" /\ r.kind = "connect" /\ l.combat = k /\ r.combat = k
      /\ l.role = argent[combats[h].left] /\ r.role = argent[combats[h].right]
  <2>1. argent[combats[h].left] \in Nat /\ argent[combats[h].right] \in Nat
    <3>1. combats[h].left \in Names /\ combats[h].right \in Names
      BY DEF IInv, GInv, GatewayType, Sides
    <3>2. \A n \in Names : argent[n] \in Nat
      BY DEF IInv, GInv, GatewayType
    <3> QED
      BY <3>1, <3>2
  <2> QED
    BY <1>3, <2>1, DownMessages
<1> DEFINE p == <<l, r>>
<1>7. /\ \A t \in Sessions : t # s => down'[t] = down[t]
      /\ Live => Gains(down[s], down'[s], p)
      /\ ~Live => down' = down
      /\ ToSet(p) = {l, r}
      /\ \A x : Times(p, "connect", x) = IF x = k THEN 2 ELSE 0
  <2> DEFINE M == DownMessage(made)
  <2>0. l \in M /\ r \in M /\ down \in [Sessions -> Seq(M)] /\ SendDown(p)
    BY <1>6 DEF IInv, QInv, QueuesFit
  <2> HIDE DEF M
  <2>1. /\ p \in Seq(M) /\ ToSet(p) = {l, r}
        /\ \A kind, x : Times(p, kind, x) = Fits(l, kind, x) + Fits(r, kind, x)
    <3>1. l \in M /\ r \in M
      BY <2>0
    <3> QED
      BY ONLY <3>1, TimesTwo DEF p
  <2>2. down \in [Sessions -> Seq(M)] /\ SendDown(p)
    BY <2>0
  <2> HIDE DEF p
  <2>3. ASSUME NEW x PROVE Times(p, "connect", x) = IF x = k THEN 2 ELSE 0
    <3>1. Times(p, "connect", x) = Fits(l, "connect", x) + Fits(r, "connect", x)
      BY <2>1
    <3>2. /\ Fits(l, "connect", x) = IF x = k THEN 1 ELSE 0
          /\ Fits(r, "connect", x) = IF x = k THEN 1 ELSE 0
      BY <1>6 DEF Fits
    <3> QED
      BY <3>1, <3>2
  <2> QED
    BY <2>1, <2>2, <2>3, SendsDown
<1> HIDE DEF p
<1>8. /\ \A t \in Sessions : \A x \in ToSet(down'[t]) : x \in ToSet(down[t]) \/ (t = s /\ x \in {l, r})
      /\ \A t \in Sessions : ToSet(up'[t]) \subseteq ToSet(up[t])
      /\ \A x \in ToSet(up[s]) : x = m \/ x \in ToSet(up'[s])
  BY <1>2, <1>7 DEF Gains, Drops
<1>9. Connections'
  <2>1. Ended \in ToSet(down'[session]) => Ended \in ToSet(down[session])
    BY <1>6, <1>8 DEF Ended
  <2>2. Head(up[s]) # Opened
    BY <1>2 DEF m, Opened
  <2> QED
    BY <1>1, <1>2, <1>7, <2>1, <2>2, GatewayConnections DEF JInv, Ends
<1>10. Owned' /\ Named' /\ KeyBack'
  <2>1. Owned'
    BY <1>1 DEF JInv, Ends, Owned
  <2>2. Named'
    <3>1. Named
      BY DEF JInv, Ends
    <3>2. argent' = argent /\ online' = online
      OBVIOUS
    <3> QED
      BY ONLY <1>4, <3>1, <3>2 DEF Named
  <2>3. ASSUME NEW id \in DOMAIN combats
        PROVE  /\ combats'[id] \in CombatType
               /\ combats'[id].key # None =>
                    combats'[id].key \in DOMAIN byArgent' /\ byArgent'[combats'[id].key] = id
               /\ combats'[id].connected # 0 => combats'[id].key # None
    <3>1. CASE id = h
      BY <1>4, <1>5, <3>1
    <3>2. CASE id # h
      BY <1>4, <1>5, <3>2 DEF JInv, Ends, KeyBack
    <3> QED
      BY <3>1, <3>2
  <2>4. KeyBack'
    BY <1>4, <2>3 DEF KeyBack
  <2> QED
    BY <2>1, <2>2, <2>4
<1>11. Numbered'
  BY <1>1, <1>3, <1>5, <1>6, <1>8 DEF JInv, Ways, Numbered, Numbers
<1>12. Begins'
  BY <1>1, <1>6, <1>8 DEF JInv, Ways, Begins
<1>13. \A x : JoinedOf(x)' = JoinedOf(x)
  <2>1. ASSUME NEW x PROVE JoinedOf(x)' = JoinedOf(x)
    <3>1. CASE x = k
      BY <1>3, <1>4, <1>5, <3>1 DEF JoinedOf
    <3>2. CASE x # k
      BY <1>4, <1>5, <3>2 DEF JoinedOf, IInv, GInv, GatewayPointers
    <3> QED
      BY <3>1, <3>2
  <2> QED
    BY <2>1
<1>14. ASSUME NEW x \in Numbers
       PROVE  Joins(x)' <= 2 /\ (x = k => Times(up'[s], "deployed", k) = 0)
  <2> DEFINE a == Times(up[s], "deployed", x)    a1 == Times(up'[s], "deployed", x)
             c == Times(down[s], "connect", x)   c1 == Times(down'[s], "connect", x)
             d == Times(up[s], "connected", x)   d1 == Times(up'[s], "connected", x)
             j == JoinedOf(x)
  <2>1. /\ a \in Nat /\ a1 \in Nat /\ c \in Nat /\ c1 \in Nat /\ d \in Nat /\ d1 \in Nat
    BY TimesFit, TimesFitNext DEF IInv, QInv
  <2>2. j \in Nat
    BY JoinedNat
  <2>3. 2 * a + j + c + d <= 2
    BY <1>1 DEF JInv, Ways, Joining, Joins
  <2>4. d = d1 /\ a = a1 + IF x = k THEN 1 ELSE 0
    <3>1. d = d1 + Fits(m, "connected", x) /\ a = a1 + Fits(m, "deployed", x)
      BY <1>2 DEF Drops
    <3> QED
      BY <1>2, <2>1, <3>1 DEF Fits
  <2>5. c1 <= c + IF x = k THEN 2 ELSE 0
    <3> DEFINE n == Times(p, "connect", x)
    <3>1. n = IF x = k THEN 2 ELSE 0
      BY <1>7
    <3>2. c1 = c + n \/ c1 = c
      BY <1>7 DEF Gains
    <3> HIDE DEF n, c, c1
    <3> QED
      BY <2>1, <3>1, <3>2
  <2>6. Joins(x)' = 2 * a1 + j + c1 + d1
    BY <1>13 DEF Joins
  <2> HIDE DEF a, a1, c, c1, d, d1, j
  <2>7. x = k => a1 = 0
    BY <2>1, <2>2, <2>3, <2>4
  <2>8. 2 * a1 + j + c1 + d1 <= 2
    BY <2>1, <2>2, <2>3, <2>4, <2>5
  <2> QED
    BY <2>6, <2>7, <2>8 DEF a1
<1>15. Joining'
  <2>1. \A id \in DOMAIN combats' : combats'[id].connected <= 2
    BY <1>4 DEF JInv, Ways, Joining
  <2>2. ASSUME NEW x \in ToSet(up'[s]), x.kind = "deployed" PROVE x.combat \notin DOMAIN byArgent'
    <3>1. x.combat # k
      <4>1. Times(up'[s], "deployed", k) = 0
        BY <1>3, <1>14
      <4> QED
        BY <2>2, <4>1, TimesFitNext DEF IInv, QInv
    <3>2. x.combat \notin DOMAIN byArgent
      BY <1>1, <1>8, <2>2 DEF JInv, Ways, Joining
    <3> QED
      BY <1>5, <3>1, <3>2
  <2> QED
    BY <1>1, <1>14, <2>1, <2>2 DEF Joining, Numbers
<1>16. LInv'
  <2> SUFFICES ASSUME Live PROVE (FieldsKnown /\ FieldsTold /\ DeployedRight /\ DeployRight
                                    /\ ConnectRight /\ Gone /\ BeginRight /\ BegunRight)'
    BY DEF LInv, Live
  <2>0. /\ FieldsKnown /\ FieldsTold /\ DeployedRight /\ DeployRight
        /\ ConnectRight /\ Gone /\ BeginRight /\ BegunRight
    BY DEF JInv, Ways, LInv
  <2>1. /\ k \in DOMAIN fields /\ fields[k].session = s /\ ~fields[k].begun
        /\ fields[k].roles = RolesOf(h)
    BY <1>2, <2>0 DEF DeployedRight
  <2>2. FieldsKnown'
    <3> SUFFICES ASSUME NEW j \in DOMAIN byArgent', ~(j \in DOMAIN fields /\ fields[j].session = s)
                 PROVE  \E x \in ToSet(up'[s]) : x.kind = "settlement" /\ x.combat = j
      BY <1>1 DEF FieldsKnown, Has
    <3>1. j \in DOMAIN byArgent
      BY <1>5, <2>1
    <3>2. PICK x \in ToSet(up[s]) : x.kind = "settlement" /\ x.combat = j
      BY <2>0, <3>1 DEF FieldsKnown, Has
    <3> QED
      BY <1>2, <1>8, <3>2
  <2>3. FieldsTold'
    <3> SUFFICES ASSUME NEW f \in DOMAIN fields, fields[f].session = s, f \notin DOMAIN byArgent'
                 PROVE  \E x \in ToSet(up'[s]) : x.kind = "deployed" /\ x.combat = f
      BY <1>1 DEF FieldsTold, Has
    <3>1. f \notin DOMAIN byArgent /\ f # k
      BY <1>5
    <3>2. PICK x \in ToSet(up[s]) : x.kind = "deployed" /\ x.combat = f
      BY <2>0, <3>1 DEF FieldsTold, Has
    <3> QED
      BY <1>2, <1>8, <3>1, <3>2
  <2>4. DeployedRight'
    BY <1>1, <1>4, <1>8, <2>0 DEF DeployedRight, RolesOf
  <2>5. DeployRight'
    <3> SUFFICES ASSUME NEW x \in ToSet(down'[s]), x.kind = "deploy"
                 PROVE  /\ x.host \in DOMAIN combats'
                        /\ x.left = argent[combats'[x.host].left] /\ x.right = argent[combats'[x.host].right]
      BY DEF DeployRight
    <3>1. x \in ToSet(down[s])
      BY <1>6, <1>8
    <3>2. /\ x.host \in DOMAIN combats
          /\ x.left = argent[combats[x.host].left] /\ x.right = argent[combats[x.host].right]
      BY <2>0, <3>1 DEF DeployRight
    <3> QED
      BY <1>4, <3>2
  <2>6. ConnectRight'
    <3> SUFFICES ASSUME NEW x \in ToSet(down'[s]), x.kind = "connect", x.combat \in DOMAIN fields
                 PROVE  x.role \in fields[x.combat].roles
      BY <1>1 DEF ConnectRight
    <3>1. CASE x \in ToSet(down[s])
      BY <2>0, <3>1 DEF ConnectRight
    <3>2. CASE x \in {l, r}
      BY <1>6, <2>1, <3>2 DEF RolesOf
    <3> QED
      BY <1>8, <3>1, <3>2
  <2>7. Gone'
    BY <1>1, <1>8, <2>0 DEF Gone
  <2>8. BeginRight'
    <3> SUFFICES ASSUME NEW x \in ToSet(down'[s]), x.kind = "begin"
                 PROVE  /\ ~Has(up'[s], "deployed", x.combat)
                        /\ x.combat \in DOMAIN byArgent' => combats'[byArgent'[x.combat]].connected = 2
      BY DEF BeginRight
    <3>1. x \in ToSet(down[s])
      BY <1>6, <1>8
    <3>2. x.combat # k
      BY <1>2, <2>0, <3>1 DEF BeginRight, Has
    <3>3. ~Has(up'[s], "deployed", x.combat)
      BY <1>8, <2>0, <3>1 DEF BeginRight, Has
    <3>4. x.combat \in DOMAIN byArgent => byArgent[x.combat] \in DOMAIN combats
      BY DEF IInv, GInv, GatewayPointers
    <3>5. x.combat \in DOMAIN byArgent => combats[byArgent[x.combat]].connected = 2
      BY <2>0, <3>1 DEF BeginRight
    <3> QED
      BY <1>4, <1>5, <3>2, <3>3, <3>4, <3>5
  <2>9. BegunRight'
    <3> SUFFICES ASSUME NEW j \in DOMAIN byArgent', j \in DOMAIN fields, fields[j].begun
                 PROVE  combats'[byArgent'[j]].connected = 2
      BY <1>1 DEF BegunRight
    <3>1. j \in DOMAIN byArgent
      BY <1>5, <2>1
    <3>2. byArgent[j] \in DOMAIN combats
      BY <3>1 DEF IInv, GInv, GatewayPointers
    <3>3. combats[byArgent[j]].connected = 2
      BY <2>0, <3>1 DEF BegunRight
    <3> QED
      BY ONLY <1>4, <1>5, <3>1, <3>2, <3>3
  <2> QED
    BY <2>2, <2>3, <2>4, <2>5, <2>6, <2>7, <2>8, <2>9
<1> QED
  BY <1>9, <1>10, <1>11, <1>12, <1>15, <1>16 DEF JInv, Ends, Ways

LEMMA DeployResponseJoint ==
  ASSUME IInv, IInv', JInv, NEW s \in Sessions, OnMessageCombatDeployResponse(s), UNCHANGED serverVars
  PROVE  JInv'
<1> DEFINE m == Head(up[s])
<1>1. session = s /\ Receives(s, "deployed") /\ UNCHANGED <<conn, session, argent, online>>
  BY DEF OnMessageCombatDeployResponse, HasSession
<1>2. /\ up[s] # <<>> /\ up' = Taken(up, s) /\ m.kind = "deployed" /\ m \in ToSet(up[s])
      /\ Hosts(up'[s]) \subseteq Hosts(up[s])
  BY <1>1, Takes1
<1>3. CASE m.host \notin DOMAIN combats
  <2>1. UNCHANGED <<combats, byArgent, down>>
    BY <1>3 DEF OnMessageCombatDeployResponse, GetPending
  <2>2. ~Live
    BY <1>1, <1>2, <1>3 DEF JInv, Ways, LInv, DeployedRight
  <2> QED
    BY <1>1, <1>2, <2>1, <2>2, TakesJoint
<1>4. CASE m.host \in DOMAIN combats /\ m.combat = None
  <2>1. Deallocate(m.host) /\ UNCHANGED down
    BY <1>4 DEF OnMessageCombatDeployResponse, GetPending, Refuse
  <2>2. m.host \in Hosts(up[s]) /\ m.host \notin Hosts(up'[s])
    <3> DEFINE M == UpMessage(made)  q == up  new == up'
    <3>1. q \in [Sessions -> Seq(M)] /\ q[s] # <<>> /\ new = Taken(q, s) /\ Head(q[s]).kind \in Hosted
      BY <1>2 DEF IInv, QInv, QueuesFit, Hosted
    <3> HIDE DEF M, q, new
    <3>2. /\ Head(q[s]).host \in Hosts(q[s])
          /\ OnceHosted(q[s]) => Head(q[s]).host \notin Hosts(new[s])
      BY <3>1, Taking
    <3>3. OnceHosted(up[s])
      BY DEF IInv, QInv, HostOnce, Tidy
    <3> QED
      BY <3>2, <3>3 DEF q, new
  <2>3. m.host \notin Hosts(down[s])
    BY <2>2 DEF IInv, QInv, HostOnce
  <2>4. combats[m.host].key \notin DOMAIN byArgent
    <3>1. ASSUME combats[m.host].key \in DOMAIN byArgent PROVE FALSE
      <4>1. combats[m.host].key # None
        BY <3>1, AnswerAssumption DEF JInv, Ways, Numbered, Numbers
      <4>2. byArgent[combats[m.host].key] = m.host
        BY <1>4, <4>1 DEF JInv, Ends, KeyBack
      <4> QED
        BY <2>2, <3>1, <4>2 DEF IInv, QInv, HostOnce
    <3> QED
      BY <3>1
  <2> QED
    BY <1>1, <1>2, <1>4, <2>1, <2>2, <2>3, <2>4, TakesJoint
<1>5. CASE m.host \in DOMAIN combats /\ m.combat # None
  <2> DEFINE h == m.host  k == m.combat
             l == [kind |-> "connect", combat |-> k, role |-> argent[combats[h].left]]
             r == [kind |-> "connect", combat |-> k, role |-> argent[combats[h].right]]
  <2>1. /\ combats' = [combats EXCEPT ![h].key = k] /\ AddCombat(k, h) /\ SendDown(<<l, r>>)
    BY <1>5 DEF OnMessageCombatDeployResponse, GetPending
  <2> QED
    BY <1>1, <1>5, <2>1, DeployedJoint
<1> QED
  BY <1>3, <1>4, <1>5

\* One side has joined; with the second the combat is to begin.
LEMMA ConnectedJoint ==
  ASSUME IInv, IInv', JInv, NEW s \in Sessions, session = s, Receives(s, "connected"),
         NEW k \in DOMAIN byArgent, k = Head(up[s]).combat, NEW id, id = byArgent[k],
         combats' = [combats EXCEPT ![id].connected = @ + 1],
         NEW b, b = [kind |-> "begin", combat |-> k],
         IF combats[id].connected + 1 >= 2 THEN SendDown(<<b>>) ELSE UNCHANGED down,
         UNCHANGED <<conn, session, argent, online, byArgent, serverVars>>
  PROVE  JInv'
<1> DEFINE m == Head(up[s])
<1>1. UNCHANGED <<allocated, fields, role, sessionFields>> /\ s # 0
  BY DEF serverVars, Sessions
<1>2. /\ up[s] # <<>> /\ up' = Taken(up, s) /\ m.kind = "connected" /\ m.combat = k
      /\ m \in ToSet(up[s]) /\ Drops(up[s], up'[s], m)
      /\ \A t \in Sessions : t # s => up'[t] = up[t]
  <2>1. up[s] # <<>> /\ up' = Taken(up, s)
    BY Takes1
  <2>2. \A t \in Sessions : t # s => up'[t] = up[t]
    BY <2>1, TakenUp DEF IInv, QInv
  <2> QED
    BY <2>1, <2>2, Takes1
<1> HIDE DEF m
<1>3. /\ k \in Numbers /\ id \in DOMAIN combats /\ combats[id].key = k
      /\ \A x \in DOMAIN byArgent : x # k => byArgent[x] \in DOMAIN combats /\ byArgent[x] # id
      /\ k \in Keys /\ k # None
  BY AnswerAssumption DEF JInv, Ways, Numbered, Numbers, IInv, GInv, GatewayPointers, Keys
<1>4. /\ combats[id].connected \in {0, 1} /\ JoinedOf(k) = combats[id].connected
  <2> DEFINE a == Times(up[s], "deployed", k)  c == Times(down[s], "connect", k)
             d == Times(up[s], "connected", k)  j == JoinedOf(k)
  <2>1. a \in Nat /\ c \in Nat /\ d \in Nat
    BY TimesFit DEF IInv, QInv
  <2>2. j \in Nat /\ j = combats[id].connected
    BY JoinedNat DEF JoinedOf
  <2>3. 2 * a + j + c + d <= 2
    BY <1>1, <1>3 DEF JInv, Ways, Joining, Joins
  <2>4. d # 0
    <3>1. Times(up[s], "connected", k) # 0 <=> \E x \in ToSet(up[s]) : x.kind = "connected" /\ x.combat = k
      BY TimesFit DEF IInv, QInv
    <3> QED
      BY <1>2, <3>1
  <2> HIDE DEF a, c, d, j
  <2>5. j \in Nat /\ j <= 1
    BY <2>1, <2>2, <2>3, <2>4
  <2>6. j \in {0, 1}
    BY <2>5
  <2> QED
    BY <2>2, <2>6 DEF j
<1>5. /\ DOMAIN combats' = DOMAIN combats /\ combats'[id].connected = combats[id].connected + 1
      /\ \A i \in DOMAIN combats : /\ combats'[i].left = combats[i].left
                                   /\ combats'[i].right = combats[i].right
                                   /\ combats'[i].key = combats[i].key
                                   /\ combats'[i] \in CombatType
      /\ \A i \in DOMAIN combats : i # id => combats'[i] = combats[i]
  <2>1. /\ DOMAIN combats' = DOMAIN combats
        /\ combats'[id] = [combats[id] EXCEPT !.connected = @ + 1]
        /\ \A i \in DOMAIN combats : i # id => combats'[i] = combats[i]
    BY <1>3
  <2> DEFINE old == combats[id]  new == combats'[id]
  <2>2. old \in CombatType /\ new = [old EXCEPT !.connected = @ + 1]
    BY <1>3, <2>1 DEF JInv, Ends, KeyBack
  <2> HIDE DEF old, new
  <2>3. /\ new.key = old.key /\ new.left = old.left /\ new.right = old.right
        /\ new.connected = old.connected + 1 /\ new \in CombatType
    BY <2>2 DEF CombatType
  <2>4. \A i \in DOMAIN combats : combats[i] \in CombatType
    BY DEF JInv, Ends, KeyBack
  <2> QED
    BY <2>1, <2>3, <2>4 DEF old, new
<1>6. b \in DownMessage(made) /\ b.kind = "begin" /\ b.combat = k
  BY <1>3, DownMessages
<1>7. /\ \A t \in Sessions : t # s => down'[t] = down[t]
      /\ \A t \in Sessions : \A x \in ToSet(down'[t]) :
           \/ x \in ToSet(down[t])
           \/ t = s /\ x = b /\ Live /\ combats[id].connected = 1
      /\ \A x : Times(down'[s], "connect", x) = Times(down[s], "connect", x)
  <2>1. CASE UNCHANGED down
    BY <2>1
  <2>2. CASE ~UNCHANGED down
    <3> DEFINE M == DownMessage(made)  p == <<b>>
    <3>1. /\ p \in Seq(M) /\ ToSet(p) = {b} /\ \A kind, x : Times(p, kind, x) = Fits(b, kind, x)
      BY <1>6, TimesOne
    <3>2. down \in [Sessions -> Seq(M)] /\ SendDown(p) /\ combats[id].connected + 1 >= 2
      BY <2>2 DEF IInv, QInv, QueuesFit
    <3> HIDE DEF M, p
    <3>3. /\ \A t \in Sessions : t # s => down'[t] = down[t]
          /\ Live => Gains(down[s], down'[s], p)
          /\ ~Live => down' = down
      BY <3>1, <3>2, SendsDown
    <3>4. ASSUME NEW x PROVE Times(down'[s], "connect", x) = Times(down[s], "connect", x)
      <4>1. Times(p, "connect", x) = 0
        BY <1>6, <3>1 DEF Fits
      <4>2. Times(down'[s], "connect", x) = Times(down[s], "connect", x) + Times(p, "connect", x)
        BY <2>2, <3>3 DEF Gains
      <4>3. Times(down[s], "connect", x) \in Nat
        BY TimesFit DEF IInv, QInv
      <4> QED
        BY <4>1, <4>2, <4>3
    <3>5. combats[id].connected = 1
      BY <1>4, <3>2
    <3> QED
      BY <2>2, <3>1, <3>3, <3>4, <3>5 DEF Gains
  <2> QED
    BY <2>1, <2>2
<1>8. /\ \A t \in Sessions : ToSet(up'[t]) \subseteq ToSet(up[t])
      /\ \A x \in ToSet(up[s]) : x = m \/ x \in ToSet(up'[s])
  BY <1>2 DEF Drops
<1>9. Connections'
  <2>1. Ended \in ToSet(down'[session]) => Ended \in ToSet(down[session])
    BY <1>6, <1>7 DEF Ended
  <2>2. Head(up[s]) # Opened
    BY <1>2 DEF m, Opened
  <2> QED
    BY <1>1, <1>2, <1>7, <2>1, <2>2, GatewayConnections DEF JInv, Ends
<1>10. Owned' /\ Named' /\ KeyBack'
  <2>1. Owned'
    BY <1>1 DEF JInv, Ends, Owned
  <2>2. Named'
    <3>1. \A i \in DOMAIN combats : argent[combats'[i].left] # 0 /\ argent[combats'[i].right] # 0
      BY <1>5 DEF JInv, Ends, Named
    <3> QED
      BY <1>5, <3>1 DEF JInv, Ends, Named
  <2>3. ASSUME NEW i \in DOMAIN combats
        PROVE  /\ combats'[i] \in CombatType
               /\ combats'[i].key # None =>
                    combats'[i].key \in DOMAIN byArgent' /\ byArgent'[combats'[i].key] = i
               /\ combats'[i].connected # 0 => combats'[i].key # None
    <3>1. CASE i = id
      BY <1>3, <1>5, <3>1
    <3>2. CASE i # id
      BY <1>5, <3>2 DEF JInv, Ends, KeyBack
    <3> QED
      BY <3>1, <3>2
  <2>4. KeyBack'
    BY <1>5, <2>3 DEF KeyBack
  <2> QED
    BY <2>1, <2>2, <2>4
<1>11. Numbered'
  BY <1>1, <1>3, <1>6, <1>7, <1>8 DEF JInv, Ways, Numbered, Numbers
<1>12. Begins'
  <2> SUFFICES ASSUME NEW t \in Sessions, NEW x \in ToSet(down'[t]), x.kind = "begin", x.combat \in DOMAIN fields
               PROVE  fields[x.combat].session \in {0, t}
    BY <1>1 DEF Begins
  <2>1. CASE x \in ToSet(down[t])
    BY <2>1 DEF JInv, Ways, Begins
  <2>2. CASE t = s /\ x = b /\ Live
    BY <1>6, <2>2 DEF JInv, Ways, LInv, FieldsKnown, Gone, Has
  <2> QED
    BY <1>7, <2>1, <2>2
<1>13. /\ JoinedOf(k)' = JoinedOf(k) + 1
       /\ \A x : x # k => JoinedOf(x)' = JoinedOf(x)
  <2>1. JoinedOf(k)' = JoinedOf(k) + 1
    BY <1>4, <1>5 DEF JoinedOf
  <2>2. ASSUME NEW x, x # k PROVE JoinedOf(x)' = JoinedOf(x)
    BY <1>3, <1>5, <2>2 DEF JoinedOf
  <2> QED
    BY <2>1, <2>2
<1>14. ASSUME NEW x \in Numbers PROVE Joins(x)' <= 2
  <2> DEFINE a == Times(up[s], "deployed", x)    a1 == Times(up'[s], "deployed", x)
             c == Times(down[s], "connect", x)   c1 == Times(down'[s], "connect", x)
             d == Times(up[s], "connected", x)   d1 == Times(up'[s], "connected", x)
             j == JoinedOf(x)
  <2>1. /\ a \in Nat /\ a1 \in Nat /\ c \in Nat /\ c1 \in Nat /\ d \in Nat /\ d1 \in Nat
    BY TimesFit, TimesFitNext DEF IInv, QInv
  <2>2. j \in Nat
    BY JoinedNat
  <2>3. 2 * a + j + c + d <= 2
    BY <1>1 DEF JInv, Ways, Joining, Joins
  <2>4. a = a1 /\ d = d1 + IF x = k THEN 1 ELSE 0
    <3>1. d = d1 + Fits(m, "connected", x) /\ a = a1 + Fits(m, "deployed", x)
      BY <1>2 DEF Drops
    <3> QED
      BY <1>2, <2>1, <3>1 DEF Fits
  <2>5. c1 = c
    BY <1>7
  <2>6. Joins(x)' = 2 * a1 + (j + IF x = k THEN 1 ELSE 0) + c1 + d1
    <3>1. JoinedOf(x)' = j + IF x = k THEN 1 ELSE 0
      BY <1>13, <2>2
    <3> QED
      BY <3>1 DEF Joins
  <2> HIDE DEF a, a1, c, c1, d, d1, j
  <2>7. 2 * a1 + (j + IF x = k THEN 1 ELSE 0) + c1 + d1 <= 2
    BY <2>1, <2>2, <2>3, <2>4, <2>5
  <2> QED
    BY <2>6, <2>7
<1>15. Joining'
  <2>1. \A i \in DOMAIN combats' : combats'[i].connected <= 2
    <3> DEFINE n == combats[id].connected
    <3>0. n \in {0, 1} /\ combats'[id].connected = n + 1
      BY <1>4, <1>5
    <3> HIDE DEF n
    <3>1. combats'[id].connected <= 2
      BY <3>0
    <3> QED
      BY <1>5, <3>1 DEF JInv, Ways, Joining
  <2>2. ASSUME NEW x \in ToSet(up'[s]), x.kind = "deployed" PROVE x.combat \notin DOMAIN byArgent'
    BY <1>1, <1>8, <2>2 DEF JInv, Ways, Joining
  <2> QED
    BY <1>1, <1>14, <2>1, <2>2 DEF Joining, Numbers
<1>16. LInv'
  <2> SUFFICES ASSUME Live PROVE (FieldsKnown /\ FieldsTold /\ DeployedRight /\ DeployRight
                                    /\ ConnectRight /\ Gone /\ BeginRight /\ BegunRight)'
    BY DEF LInv, Live
  <2>0. /\ FieldsKnown /\ FieldsTold /\ DeployedRight /\ DeployRight
        /\ ConnectRight /\ Gone /\ BeginRight /\ BegunRight
    BY DEF JInv, Ways, LInv
  <2>2. FieldsKnown'
    <3> SUFFICES ASSUME NEW j \in DOMAIN byArgent, ~(j \in DOMAIN fields /\ fields[j].session = s)
                 PROVE  \E x \in ToSet(up'[s]) : x.kind = "settlement" /\ x.combat = j
      BY <1>1 DEF FieldsKnown, Has
    <3>2. PICK x \in ToSet(up[s]) : x.kind = "settlement" /\ x.combat = j
      BY <2>0 DEF FieldsKnown, Has
    <3> QED
      BY <1>2, <1>8, <3>2
  <2>3. FieldsTold'
    <3> SUFFICES ASSUME NEW f \in DOMAIN fields, fields[f].session = s, f \notin DOMAIN byArgent
                 PROVE  \E x \in ToSet(up'[s]) : x.kind = "deployed" /\ x.combat = f
      BY <1>1 DEF FieldsTold, Has
    <3>2. PICK x \in ToSet(up[s]) : x.kind = "deployed" /\ x.combat = f
      BY <2>0 DEF FieldsTold, Has
    <3> QED
      BY <1>2, <1>8, <3>2
  <2>4. DeployedRight'
    BY <1>1, <1>5, <1>8, <2>0 DEF DeployedRight, RolesOf
  <2>5. DeployRight'
    <3> SUFFICES ASSUME NEW x \in ToSet(down'[s]), x.kind = "deploy"
                 PROVE  /\ x.host \in DOMAIN combats'
                        /\ x.left = argent[combats'[x.host].left] /\ x.right = argent[combats'[x.host].right]
      BY DEF DeployRight
    <3>1. x \in ToSet(down[s])
      BY <1>6, <1>7
    <3>2. /\ x.host \in DOMAIN combats
          /\ x.left = argent[combats[x.host].left] /\ x.right = argent[combats[x.host].right]
      BY <2>0, <3>1 DEF DeployRight
    <3> QED
      BY <1>5, <3>2
  <2>6. ConnectRight' /\ Gone'
    BY <1>1, <1>6, <1>7, <1>8, <2>0 DEF ConnectRight, Gone
  <2>8. BeginRight'
    <3> SUFFICES ASSUME NEW x \in ToSet(down'[s]), x.kind = "begin"
                 PROVE  /\ ~Has(up'[s], "deployed", x.combat)
                        /\ x.combat \in DOMAIN byArgent => combats'[byArgent[x.combat]].connected = 2
      BY DEF BeginRight
    <3>1. CASE x \in ToSet(down[s])
      <4>1. ~Has(up'[s], "deployed", x.combat)
        BY <1>8, <2>0, <3>1 DEF BeginRight, Has
      <4>2. x.combat # k
        BY <1>4, <2>0, <3>1 DEF BeginRight
      <4> QED
        BY <1>3, <1>5, <2>0, <3>1, <4>1, <4>2 DEF BeginRight
    <3>2. CASE x = b /\ combats[id].connected = 1
      <4>1. ~Has(up'[s], "deployed", k)
        BY <1>1, <1>8 DEF JInv, Ways, Joining, Has
      <4> QED
        BY <1>5, <1>6, <3>2, <4>1
    <3> QED
      BY <1>7, <3>1, <3>2
  <2>9. BegunRight'
    <3> SUFFICES ASSUME NEW j \in DOMAIN byArgent, j \in DOMAIN fields, fields[j].begun
                 PROVE  combats'[byArgent[j]].connected = 2
      BY <1>1 DEF BegunRight
    <3>1. combats[byArgent[j]].connected = 2
      BY <2>0 DEF BegunRight
    <3> QED
      BY <1>3, <1>4, <1>5, <3>1
  <2> QED
    BY <2>2, <2>3, <2>4, <2>5, <2>6, <2>8, <2>9
<1> QED
  BY <1>9, <1>10, <1>11, <1>12, <1>15, <1>16 DEF JInv, Ends, Ways

LEMMA ConnectResponseJoint ==
  ASSUME IInv, IInv', JInv, NEW s \in Sessions, OnMessageCombatConnectArgentResponse(s), UNCHANGED serverVars
  PROVE  JInv'
<1> DEFINE m == Head(up[s])  k == m.combat
<1>1. session = s /\ Receives(s, "connected") /\ UNCHANGED <<conn, session, argent, online>>
  BY DEF OnMessageCombatConnectArgentResponse, HasSession
<1>2. /\ up[s] # <<>> /\ up' = Taken(up, s) /\ m.kind = "connected"
  BY <1>1, Takes1
<1>3. CASE k \notin DOMAIN byArgent
  <2>1. UNCHANGED <<combats, byArgent, down>>
    BY <1>3 DEF OnMessageCombatConnectArgentResponse, Known
  <2> QED
    BY <1>1, <1>2, <2>1, TakesJoint
<1>4. CASE k \in DOMAIN byArgent /\ ~m.ok
  <2>1. Deallocate(byArgent[k]) /\ UNCHANGED down
    BY <1>4 DEF OnMessageCombatConnectArgentResponse, Known, Refuse
  <2> QED
    BY <1>1, <1>4, <2>1, GivesUp
<1>5. CASE k \in DOMAIN byArgent /\ m.ok
  <2> DEFINE id == byArgent[k]  b == [kind |-> "begin", combat |-> k]
  <2>1. /\ combats' = [combats EXCEPT ![id].connected = @ + 1] /\ UNCHANGED byArgent
        /\ IF combats[id].connected + 1 >= 2 THEN SendDown(<<b>>) ELSE UNCHANGED down
    BY <1>5 DEF OnMessageCombatConnectArgentResponse, Known
  <2> QED
    BY <1>1, <1>5, <2>1, ConnectedJoint
<1> QED
  BY <1>3, <1>4, <1>5

-----------------------------------------------------------------------------
(* The connection begins and ends. *)

LEMMA CutKeeps ==
  ASSUME NEW M, NEW q \in Seq(M), Opened \in M, Ended \in M, NEW lost \in BOOLEAN
  PROVE  /\ ToSet(Cut(q, lost)) \subseteq ToSet(q) \union {Ended}
         /\ \A kind \in {"deployed", "connect", "connected"} : \A k :
              Times(Cut(q, lost), kind, k) <= Times(q, kind, k)
<1> DEFINE r == Cut(q, lost)
<1>0. ASSUME NEW kind \in {"deployed", "connect", "connected"}, NEW k
      PROVE  Fits(Ended, kind, k) = 0 /\ Fits(Opened, kind, k) = 0 /\ Times(q, kind, k) \in Nat
  <2>1. Fits(Ended, kind, k) = 0 /\ Fits(Opened, kind, k) = 0
    BY DEF Fits, Ended, Opened
  <2> QED
    BY <2>1, TimesCounts
<1>1. CASE ~lost
  <2> DEFINE p == <<Ended>>
  <2>1. r = q \o p
    BY <1>1 DEF Cut
  <2>2. /\ p \in Seq(M) /\ ToSet(p) = {Ended} /\ \A kind, k : Times(p, kind, k) = Fits(Ended, kind, k)
    BY TimesOne
  <2> HIDE DEF p, r
  <2>3. /\ ToSet(q \o p) = ToSet(q) \union ToSet(p)
        /\ \A kind, k : Times(q \o p, kind, k) = Times(q, kind, k) + Times(p, kind, k)
    BY <2>2, TimesConcat
  <2>4. ASSUME NEW kind \in {"deployed", "connect", "connected"}, NEW k
        PROVE  Times(r, kind, k) <= Times(q, kind, k)
    <3>1. Times(r, kind, k) = Times(q, kind, k) + Times(p, kind, k) /\ Times(p, kind, k) = 0
      BY <1>0, <2>1, <2>2, <2>3
    <3> QED
      BY <1>0, <3>1
  <2> QED
    BY <2>1, <2>2, <2>3, <2>4 DEF r
<1>2. CASE lost /\ q # <<>> /\ Head(q) = Opened
  <2>1. r = <<Opened, Ended>>
    BY <1>2 DEF Cut
  <2>2. /\ ToSet(<<Opened, Ended>>) = {Opened, Ended}
        /\ \A kind, k : Times(<<Opened, Ended>>, kind, k) = Fits(Opened, kind, k) + Fits(Ended, kind, k)
    BY TimesTwo
  <2>3. Opened \in ToSet(q)
    BY <1>2, TimesTail
  <2> HIDE DEF r
  <2>4. ASSUME NEW kind \in {"deployed", "connect", "connected"}, NEW k
        PROVE  Times(r, kind, k) <= Times(q, kind, k)
    <3>1. Times(r, kind, k) = Fits(Opened, kind, k) + Fits(Ended, kind, k)
      BY <2>1, <2>2
    <3> QED
      BY <1>0, <3>1
  <2> QED
    BY <2>1, <2>2, <2>3, <2>4 DEF r
<1>3. CASE lost /\ ~(q # <<>> /\ Head(q) = Opened)
  <2>1. r = <<Ended>>
    BY <1>3 DEF Cut
  <2>2. /\ ToSet(<<Ended>>) = {Ended} /\ \A kind, k : Times(<<Ended>>, kind, k) = Fits(Ended, kind, k)
    BY TimesOne
  <2> HIDE DEF r
  <2>4. ASSUME NEW kind \in {"deployed", "connect", "connected"}, NEW k
        PROVE  Times(r, kind, k) <= Times(q, kind, k)
    BY <1>0, <2>1, <2>2
  <2> QED
    BY <2>1, <2>2, <2>4 DEF r
<1> QED
  BY <1>1, <1>2, <1>3

\* Which connection is the last.
LEMMA CurrentNext ==
  ASSUME NEW c \in Sessions, conn'[c] # "unused", \A t \in Sessions : t > c => conn'[t] = "unused"
  PROVE  Current' = c
<1> DEFINE P(s) == conn'[s] # "unused" /\ \A t \in Sessions : t > s => conn'[t] = "unused"
<1>1. \A s \in Sessions : P(s) => s = c
  BY DEF Sessions
<1> QED
  BY <1>1 DEF Current

\* Nothing more is on the way to the combat server than its end, as far as it says anything.
LEMMA QuietEnds ==
  ASSUME JInv, UNCHANGED <<allocated, fields>>,
         DOMAIN byArgent' \subseteq DOMAIN byArgent,
         \A t \in Sessions : /\ ToSet(down'[t]) \subseteq ToSet(down[t]) \union {Opened, Ended}
                             /\ ToSet(up'[t]) \subseteq ToSet(up[t]) \union {Opened, Ended}
  PROVE  Numbered' /\ Begins'
<1>1. Opened.kind = "open" /\ Ended.kind = "close"
  BY DEF Opened, Ended
<1>2. Numbered'
  <2>1. DOMAIN byArgent' \subseteq Numbers'
    BY DEF JInv, Ways, Numbered, Numbers
  <2>2. ASSUME NEW t \in Sessions, NEW m \in ToSet(down'[t]), m.kind \in {"connect", "begin"}
        PROVE  m.combat \in Numbers'
    BY <1>1, <2>2 DEF JInv, Ways, Numbered, Numbers
  <2>3. ASSUME NEW t \in Sessions, NEW m \in ToSet(up'[t])
        PROVE  /\ m.kind \in {"connected", "begun", "settlement"} => m.combat \in Numbers'
               /\ m.kind = "deployed" => m.combat \in Numbers' \/ m.combat = None
    BY <1>1, <2>3 DEF JInv, Ways, Numbered, Numbers
  <2> QED
    BY <2>1, <2>2, <2>3 DEF Numbered
<1>3. Begins'
  BY <1>1 DEF JInv, Ways, Begins
<1> QED
  BY <1>2, <1>3

LEMMA SessionClosedJoint ==
  ASSUME IInv, IInv', JInv, NEW s \in Sessions, OnSessionClosed(s), UNCHANGED serverVars
  PROVE  JInv'
<1>1. /\ Receives(s, "close") /\ session' = 0
      /\ UNCHANGED <<online, argent, combats, byArgent, conn, down, allocated, fields, role, sessionFields>>
  BY DEF OnSessionClosed, serverVars
<1>2. /\ up[s] # <<>> /\ up' = Taken(up, s) /\ Head(up[s]) # Opened
  BY <1>1, Takes1 DEF Opened
<1>3. Connections'
  BY <1>1, <1>2, GatewayConnections DEF JInv, Ends
<1>4. Owned' /\ Named' /\ KeyBack'
  BY <1>1 DEF JInv, Ends, Owned, Named, KeyBack
<1>5. Numbered' /\ Begins'
  <2>1. \A t \in Sessions : ToSet(up'[t]) \subseteq ToSet(up[t])
    BY <1>2, TakenUp DEF IInv, QInv, Drops
  <2> QED
    BY <1>1, <2>1, QuietEnds
<1>6. Joining' /\ LInv'
  BY <1>1 DEF JInv, Ways, Joining, LInv, Live
<1> QED
  BY <1>3, <1>4, <1>5, <1>6 DEF JInv, Ends, Ways

\* The gateway hears of its connection, over which nothing has come and gone yet.
LEMMA SessionConnectedJoint ==
  ASSUME IInv, IInv', JInv, NEW s \in Sessions, OnSessionConnected(s), UNCHANGED serverVars
  PROVE  JInv'
<1>1. /\ Receives(s, "open") /\ session' = s
      /\ UNCHANGED <<online, argent, combats, byArgent, conn, down, allocated, fields, role, sessionFields>>
  BY DEF OnSessionConnected, serverVars
<1>2. /\ up[s] # <<>> /\ up' = Taken(up, s) /\ Head(up[s]) \in ToSet(up[s])
      /\ Head(up[s]).kind = "open" /\ Head(up[s]) \in UpMessage(made)
      /\ up'[s] = Tail(up[s])
      /\ \A t \in Sessions : t # s => up'[t] = up[t]
  <2>1. up[s] # <<>> /\ up' = Taken(up, s)
    BY <1>1, Takes1
  <2>2. \A t \in Sessions : t # s => up'[t] = up[t]
    BY <2>1, TakenUp DEF IInv, QInv
  <2>3. up'[s] = Tail(up[s])
    BY <2>1 DEF Taken, IInv, QInv, QueuesFit
  <2> QED
    BY <1>1, <2>1, <2>2, <2>3, Takes1
<1>3. Head(up[s]) = Opened
  BY <1>2 DEF UpMessage, Opened
<1>4. Connections
  BY DEF JInv, Ends
<1>5. s = Current /\ Unheard /\ s # 0
  <2>1. s = Current
    BY <1>2, <1>4 DEF Connections, Sessions
  <2> QED
    BY <1>2, <1>3, <2>1 DEF Unheard, Sessions
<1>6. /\ conn[s] \notin {"unused", "connecting"}
      /\ session = 0 /\ byArgent = NoCombats /\ ToSet(down[s]) \subseteq {Opened, Ended}
      /\ ToSet(up'[s]) \subseteq {Ended} /\ Unseen(s)
  <2>1. conn[s] \notin {"unused", "connecting"}
    BY <1>2, <1>4, <1>5 DEF Connections
  <2>2. up[s] = <<Opened>> \/ up[s] = <<Opened, Ended>>
    BY <1>2, <1>3, <1>4, <1>5 DEF Connections
  <2>3. up'[s] = <<>> \/ up'[s] = <<Ended>>
    <3>1. Tail(<<Opened>>) = <<>>
      OBVIOUS
    <3>2. Tail(<<Opened, Ended>>) = <<Ended>>
      OBVIOUS
    <3> QED
      BY <1>2, <2>2, <3>1, <3>2
  <2>4. ToSet(up'[s]) \subseteq {Ended}
    BY <2>3 DEF ToSet
  <2> QED
    BY <1>4, <1>5, <2>1, <2>4 DEF Connections
<1>7. Opened.kind = "open" /\ Ended.kind = "close"
  BY DEF Opened, Ended
<1>8. Connections'
  <2>1. Current' = s
    BY <1>1, <1>5 DEF Current
  <2>2. ~Unheard'
    BY <1>1, <1>6, <1>7, <2>1 DEF Unheard
  <2>3. \A t \in Sessions : t > s => Unseen(t)'
    BY <1>1, <1>4, <1>5 DEF Connections, Unseen
  <2>4. /\ \A t \in Sessions : t > s => conn'[t] = "unused" /\ down'[t] = <<>> /\ up'[t] = <<>>
        /\ \A t \in Sessions : t < s => conn'[t] = "broken" /\ up'[t] = <<>>
    BY <1>1, <1>2, <1>4, <1>5 DEF Connections, Sessions
  <2>5. conn'[s] = "up" => Ended \notin ToSet(down'[s])
    BY <1>1, <1>4, <1>5 DEF Connections
  <2> QED
    BY <1>1, <1>6, <1>7, <2>1, <2>2, <2>3, <2>4, <2>5 DEF Connections
<1>9. Owned' /\ Named' /\ KeyBack'
  BY <1>1 DEF JInv, Ends, Owned, Named, KeyBack
<1>10. Numbered' /\ Begins'
  <2>1. \A t \in Sessions : ToSet(up'[t]) \subseteq ToSet(up[t]) \union {Opened, Ended}
    BY <1>2, <1>6
  <2> QED
    BY <1>1, <2>1, QuietEnds
<1>11. Joining'
  <2>1. ASSUME NEW k \in Numbers PROVE Joins(k)' <= 2
    <3>1. Times(up'[s], "deployed", k) = 0 /\ Times(up'[s], "connected", k) = 0 /\ Times(down'[s], "connect", k) = 0
      BY <1>1, <1>6, <1>7, TimesFitNext DEF IInv, QInv
    <3>2. JoinedOf(k)' = 0
      BY <1>1, <1>6 DEF JoinedOf, NoCombats
    <3> QED
      BY <1>1, <3>1, <3>2 DEF Joins
  <2> QED
    BY <1>1, <1>6, <1>7, <2>1 DEF Joining, Numbers, JInv, Ways
<1>12. LInv'
  <2>1. DOMAIN byArgent' = {}
    BY <1>1, <1>6 DEF NoCombats
  <2>2. FieldsKnown' /\ FieldsTold' /\ BegunRight'
    BY <1>1, <1>6, <2>1 DEF FieldsKnown, FieldsTold, BegunRight, Unseen
  <2>3. DeployedRight' /\ DeployRight' /\ ConnectRight' /\ Gone' /\ BeginRight'
    BY <1>1, <1>6, <1>7 DEF DeployedRight, DeployRight, ConnectRight, Gone, BeginRight
  <2> QED
    BY <2>2, <2>3 DEF LInv
<1> QED
  BY <1>8, <1>9, <1>10, <1>11, <1>12 DEF JInv, Ends, Ways

\* A new process knows nothing, and has a connection of its own.
LEMMA RestartJoint ==
  ASSUME IInv, IInv', JInv, Restart, UNCHANGED serverVars
  PROVE  JInv'
<1> DEFINE c == Current
<1>1. /\ session' = 0 /\ online' = {} /\ combats' = NoCombats /\ byArgent' = NoCombats
      /\ conn' = [conn EXCEPT ![c] = "broken", ![c + 1] = "connecting"]
      /\ up' = [up EXCEPT ![c] = <<>>]
      /\ \/ conn[c] = "up" /\ \E lost \in BOOLEAN : down' = CutOff(down, c, lost)
         \/ UNCHANGED down
      /\ UNCHANGED <<allocated, fields, role, sessionFields>>
      /\ c < MaxSessions
  BY DEF Restart, serverVars, CutOff
<1>2. Connections /\ c \in Sessions /\ c + 1 \in Sessions
  <2>1. Connections /\ c \in Sessions
    BY DEF JInv, Ends, Connections
  <2> QED
    BY <1>1, <2>1, LinkAssumption DEF Sessions
<1>3. /\ down \in [Sessions -> Seq(DownMessage(made))] /\ up \in [Sessions -> Seq(UpMessage(made))]
      /\ conn \in [Sessions -> {"unused", "connecting", "up", "broken"}]
  BY DEF IInv, QInv, QueuesFit, GInv, GatewayType
<1>4. /\ \A t \in Sessions : t > c => conn[t] = "unused" /\ down[t] = <<>> /\ up[t] = <<>>
      /\ \A t \in Sessions : t < c => conn[t] = "broken" /\ up[t] = <<>>
      /\ \A t \in Sessions : t > c => Unseen(t)
  BY <1>2 DEF Connections
<1> HIDE DEF c
<1>5. /\ conn'[c + 1] = "connecting" /\ conn'[c] = "broken"
      /\ \A t \in Sessions : t # c /\ t # c + 1 => conn'[t] = conn[t]
      /\ up'[c] = <<>>
      /\ \A t \in Sessions : t # c => up'[t] = up[t] /\ down'[t] = down[t]
      /\ c \in Nat
  <2>1. c \in Nat /\ c + 1 # c
    BY <1>2 DEF Sessions
  <2>2. /\ conn'[c + 1] = "connecting" /\ conn'[c] = "broken"
        /\ \A t \in Sessions : t # c /\ t # c + 1 => conn'[t] = conn[t]
    BY <1>1, <1>2, <1>3, <2>1
  <2>3. up'[c] = <<>> /\ \A t \in Sessions : t # c => up'[t] = up[t]
    BY <1>1, <1>2, <1>3
  <2>4. \A t \in Sessions : t # c => down'[t] = down[t]
    BY <1>1, <1>3 DEF CutOff
  <2> QED
    BY <2>1, <2>2, <2>3, <2>4
<1>6. ToSet(down'[c]) \subseteq ToSet(down[c]) \union {Opened, Ended}
  <2>1. ASSUME NEW lost \in BOOLEAN, down' = CutOff(down, c, lost)
        PROVE  ToSet(down'[c]) \subseteq ToSet(down[c]) \union {Opened, Ended}
    <3>1. down'[c] = Cut(down[c], lost)
      BY <1>2, <1>3, <2>1 DEF CutOff
    <3>2. down[c] \in Seq(DownMessage(made)) /\ Opened \in DownMessage(made) /\ Ended \in DownMessage(made)
      BY <1>2, <1>3, DownMessages
    <3> QED
      BY <3>1, <3>2, CutKeeps
  <2> QED
    BY <1>1, <2>1
<1>7. Connections'
  <2>1. \A t \in Sessions : t > c + 1 => conn'[t] = "unused" /\ down'[t] = <<>> /\ up'[t] = <<>>
    BY <1>4, <1>5 DEF Sessions
  <2>2. \A t \in Sessions : t < c + 1 => conn'[t] = "broken" /\ up'[t] = <<>>
    BY <1>4, <1>5 DEF Sessions
  <2>3. Current' = c + 1
    BY <1>2, <1>5, <2>1, CurrentNext
  <2>4. down'[c + 1] = <<>> /\ up'[c + 1] = <<>>
    BY <1>2, <1>4, <1>5
  <2>5. ToSet(down'[c + 1]) = {} /\ ToSet(up'[c + 1]) = {}
    BY <2>4 DEF ToSet
  <2>6. \A t \in Sessions : t >= c + 1 => Unseen(t)'
    BY <1>1, <1>4, <1>5 DEF Unseen, Sessions
  <2>7. \A t \in Sessions : t > c + 1 \/ (t = c + 1 /\ Unheard') => Unseen(t)'
    BY <1>2, <1>5, <2>6 DEF Sessions
  <2> DEFINE d == c + 1
  <2>8. d \in Sessions /\ conn'[d] = "connecting" /\ session' = 0 /\ byArgent' = NoCombats
    BY <1>1, <1>2, <1>5
  <2> HIDE DEF d
  <2> QED
    BY <2>1, <2>2, <2>3, <2>4, <2>5, <2>7, <2>8 DEF Connections, d
<1>8. Owned' /\ Named' /\ KeyBack'
  <2>1. DOMAIN combats' = {}
    BY <1>1 DEF NoCombats
  <2> QED
    BY <1>1, <2>1 DEF JInv, Ends, Owned, Named, KeyBack
<1>9. Numbered' /\ Begins'
  <2>1. DOMAIN byArgent' \subseteq DOMAIN byArgent
    BY <1>1 DEF NoCombats
  <2>2. \A t \in Sessions : ToSet(up'[t]) \subseteq ToSet(up[t])
    BY <1>5 DEF ToSet
  <2> QED
    BY <1>1, <1>5, <1>6, <2>1, <2>2, QuietEnds
<1>10. Joining' /\ LInv'
  BY <1>1 DEF Joining, LInv, Live, NoCombats
<1> QED
  BY <1>7, <1>8, <1>9, <1>10 DEF JInv, Ends, Ways

LEMMA ConnectsJoint ==
  ASSUME IInv, IInv', JInv, Connects, UNCHANGED <<gatewayVars, serverVars>>
  PROVE  JInv'
<1> DEFINE c == Current
<1>1. /\ conn[c] = "connecting"
      /\ \/ /\ conn' = [conn EXCEPT ![c] = "up"]
            /\ down' = [down EXCEPT ![c] = <<Opened>>] /\ up' = [up EXCEPT ![c] = <<Opened>>]
         \/ conn' = [conn EXCEPT ![c] = "broken"] /\ UNCHANGED <<down, up>>
      /\ UNCHANGED <<session, online, argent, combats, byArgent, allocated, fields, role, sessionFields>>
  BY DEF Connects, gatewayVars, gatewayState, serverVars
<1>2. Connections /\ c \in Sessions
  BY DEF JInv, Ends, Connections
<1>3. /\ down \in [Sessions -> Seq(DownMessage(made))] /\ up \in [Sessions -> Seq(UpMessage(made))]
      /\ conn \in [Sessions -> {"unused", "connecting", "up", "broken"}]
  BY DEF IInv, QInv, QueuesFit, GInv, GatewayType
<1>4. /\ \A t \in Sessions : t > c => conn[t] = "unused" /\ down[t] = <<>> /\ up[t] = <<>>
      /\ \A t \in Sessions : t < c => conn[t] = "broken" /\ up[t] = <<>>
      /\ \A t \in Sessions : t >= c => Unseen(t)
      /\ session = 0 /\ byArgent = NoCombats /\ down[c] = <<>> /\ up[c] = <<>>
  <2>1. Unheard
    BY <1>1 DEF Unheard
  <2> QED
    BY <1>1, <1>2, <2>1 DEF Connections, Sessions
<1> HIDE DEF c
<1>5. /\ \A t \in Sessions : t # c => conn'[t] = conn[t] /\ down'[t] = down[t] /\ up'[t] = up[t]
      /\ \/ conn'[c] = "up" /\ down'[c] = <<Opened>> /\ up'[c] = <<Opened>>
         \/ conn'[c] = "broken" /\ down'[c] = <<>> /\ up'[c] = <<>>
  BY <1>1, <1>2, <1>3, <1>4
<1>6. /\ \/ conn'[c] = "up" /\ up'[c] = <<Opened>> /\ ToSet(down'[c]) = {Opened} /\ ToSet(up'[c]) = {Opened}
         \/ conn'[c] = "broken" /\ ToSet(down'[c]) = {} /\ ToSet(up'[c]) = {}
  BY <1>5 DEF ToSet
<1>7. Connections'
  <2>1. \A t \in Sessions : t > c => conn'[t] = "unused" /\ down'[t] = <<>> /\ up'[t] = <<>>
    BY <1>4, <1>5 DEF Sessions
  <2>2. \A t \in Sessions : t < c => conn'[t] = "broken" /\ up'[t] = <<>>
    BY <1>4, <1>5 DEF Sessions
  <2>3. Current' = c
    BY <1>2, <1>5, <2>1, CurrentNext
  <2>4. \A t \in Sessions : t >= c => Unseen(t)'
    BY <1>1, <1>4 DEF Unseen
  <2>5. \A t \in Sessions : t > c \/ (t = c /\ Unheard') => Unseen(t)'
    BY <1>2, <2>4 DEF Sessions
  <2>6. Opened # Ended
    BY DEF Opened, Ended
  <2> QED
    BY <1>1, <1>2, <1>4, <1>6, <2>1, <2>2, <2>3, <2>5, <2>6 DEF Connections
<1>8. Owned' /\ Named' /\ KeyBack'
  BY <1>1 DEF JInv, Ends, Owned, Named, KeyBack
<1>9. Numbered' /\ Begins'
  BY <1>1, <1>5, <1>6, QuietEnds
<1>10. Joining' /\ LInv'
  BY <1>1, <1>4 DEF Joining, LInv, Live, JInv, Ways
<1> QED
  BY <1>7, <1>8, <1>9, <1>10 DEF JInv, Ends, Ways

LEMMA BreaksJoint ==
  ASSUME IInv, IInv', JInv, Breaks, UNCHANGED <<gatewayVars, serverVars>>
  PROVE  JInv'
<1> DEFINE c == Current
<1>1. /\ conn[c] = "up" /\ conn' = [conn EXCEPT ![c] = "broken"]
      /\ UNCHANGED <<session, online, argent, combats, byArgent, allocated, fields, role, sessionFields>>
  BY DEF Breaks, gatewayVars, gatewayState, serverVars
<1>0. PICK lost \in BOOLEAN : down' = CutOff(down, c, lost) /\ up' = CutOff(up, c, lost)
  BY DEF Breaks, CutOff
<1>2. Connections /\ c \in Sessions
  BY DEF JInv, Ends, Connections
<1>3. /\ down \in [Sessions -> Seq(DownMessage(made))] /\ up \in [Sessions -> Seq(UpMessage(made))]
      /\ conn \in [Sessions -> {"unused", "connecting", "up", "broken"}]
  BY DEF IInv, QInv, QueuesFit, GInv, GatewayType
<1>4. /\ \A t \in Sessions : t > c => conn[t] = "unused" /\ down[t] = <<>> /\ up[t] = <<>>
      /\ \A t \in Sessions : t < c => conn[t] = "broken" /\ up[t] = <<>>
      /\ \A t \in Sessions : t > c => Unseen(t)
      /\ session \in {0, c}
      /\ Unheard <=> Opened \in ToSet(up[c])
      /\ Opened \in ToSet(up[c]) =>
           /\ up[c] = <<Opened>> /\ session = 0 /\ byArgent = NoCombats
           /\ ToSet(down[c]) \subseteq {Opened, Ended} /\ Unseen(c)
  BY <1>1, <1>2 DEF Connections, Unheard
<1> HIDE DEF c
<1>5. /\ \A t \in Sessions : t # c => conn'[t] = conn[t] /\ down'[t] = down[t] /\ up'[t] = up[t]
      /\ conn'[c] = "broken" /\ down'[c] = Cut(down[c], lost) /\ up'[c] = Cut(up[c], lost)
  BY <1>0, <1>1, <1>2, <1>3 DEF CutOff
<1>6. /\ ToSet(down'[c]) \subseteq ToSet(down[c]) \union {Ended}
      /\ \A kind \in {"deployed", "connect", "connected"} : \A k :
           Times(down'[c], kind, k) <= Times(down[c], kind, k)
  <2>1. down[c] \in Seq(DownMessage(made)) /\ Opened \in DownMessage(made) /\ Ended \in DownMessage(made)
    BY <1>2, <1>3, DownMessages
  <2> QED
    BY <1>5, <2>1, CutKeeps
<1>7. /\ ToSet(up'[c]) \subseteq ToSet(up[c]) \union {Ended}
      /\ \A kind \in {"deployed", "connect", "connected"} : \A k :
           Times(up'[c], kind, k) <= Times(up[c], kind, k)
  <2>1. up[c] \in Seq(UpMessage(made)) /\ Opened \in UpMessage(made) /\ Ended \in UpMessage(made)
    BY <1>2, <1>3, UpMessages
  <2> QED
    BY <1>5, <2>1, CutKeeps
<1>8. Opened # Ended /\ Opened.kind = "open" /\ Ended.kind = "close"
  BY DEF Opened, Ended
<1>9. Opened \in ToSet(up'[c]) => up'[c] = <<Opened, Ended>> /\ Opened \in ToSet(up[c])
  <2> SUFFICES ASSUME Opened \in ToSet(up'[c]) PROVE up'[c] = <<Opened, Ended>> /\ Opened \in ToSet(up[c])
    OBVIOUS
  <2>1. Opened \in ToSet(up[c])
    BY <1>7, <1>8
  <2>2. up[c] = <<Opened>>
    BY <1>4, <2>1
  <2>3. Cut(<<Opened>>, lost) = <<Opened, Ended>>
    <3>1. Append(<<Opened>>, Ended) = <<Opened, Ended>>
      <4> DEFINE M == {Opened, Ended}  q == <<Opened>>
      <4>1. q \in Seq(M) /\ Ended \in M /\ q \o <<Ended>> = <<Opened, Ended>>
        BY PairConcat
      <4> HIDE DEF q, M
      <4>2. Append(q, Ended) = q \o <<Ended>>
        BY <4>1, AppendIsConcat
      <4> QED
        BY <4>1, <4>2 DEF q
    <3>2. <<Opened>> # <<>> /\ Head(<<Opened>>) = Opened
      OBVIOUS
    <3> QED
      BY <3>1, <3>2 DEF Cut
  <2> QED
    BY <1>5, <2>1, <2>2, <2>3
<1>10. Connections'
  <2>1. \A t \in Sessions : t > c => conn'[t] = "unused" /\ down'[t] = <<>> /\ up'[t] = <<>>
    BY <1>4, <1>5 DEF Sessions
  <2>2. \A t \in Sessions : t < c => conn'[t] = "broken" /\ up'[t] = <<>>
    BY <1>4, <1>5 DEF Sessions
  <2>3. Current' = c
    BY <1>2, <1>5, <2>1, CurrentNext
  <2>4. Unheard' => Opened \in ToSet(up[c])
    BY <1>5, <1>9, <2>3 DEF Unheard
  <2>5. \A t \in Sessions : t > c \/ (t = c /\ Unheard') => Unseen(t)'
    BY <1>1, <1>4, <2>4 DEF Unseen
  <2>6. Unheard' => session' = 0 /\ byArgent' = NoCombats /\ ToSet(down'[c]) \subseteq {Opened, Ended}
    BY <1>1, <1>4, <1>6, <2>4
  <2> QED
    BY <1>1, <1>2, <1>4, <1>5, <1>9, <2>1, <2>2, <2>3, <2>5, <2>6 DEF Connections
<1>11. Owned' /\ Named' /\ KeyBack'
  BY <1>1 DEF JInv, Ends, Owned, Named, KeyBack
<1>12. Numbered' /\ Begins'
  BY <1>1, <1>5, <1>6, <1>7, QuietEnds
<1>13. Joining'
  <2>1. ASSUME session # 0, NEW k \in Numbers PROVE Joins(k)' <= 2
    <3>1. session = c /\ session' = c
      BY <1>1, <1>4, <2>1
    <3>2. /\ Times(up'[c], "deployed", k) <= Times(up[c], "deployed", k)
          /\ Times(down'[c], "connect", k) <= Times(down[c], "connect", k)
          /\ Times(up'[c], "connected", k) <= Times(up[c], "connected", k)
      BY <1>6, <1>7
    <3>3. /\ Times(up[c], "deployed", k) \in Nat /\ Times(up'[c], "deployed", k) \in Nat
          /\ Times(down[c], "connect", k) \in Nat /\ Times(down'[c], "connect", k) \in Nat
          /\ Times(up[c], "connected", k) \in Nat /\ Times(up'[c], "connected", k) \in Nat
      BY <1>2, TimesFit, TimesFitNext DEF IInv, QInv
    <3>4. JoinedOf(k)' = JoinedOf(k) /\ JoinedOf(k) \in Nat
      BY <1>1, JoinedNat DEF JoinedOf
    <3>5. /\ 2 * Times(up[c], "deployed", k) + JoinedOf(k)
               + Times(down[c], "connect", k) + Times(up[c], "connected", k) <= 2
      BY <2>1, <3>1 DEF JInv, Ways, Joining, Joins
    <3>6. Joins(k)' = 2 * Times(up'[c], "deployed", k) + JoinedOf(k)
               + Times(down'[c], "connect", k) + Times(up'[c], "connected", k)
      BY <3>1, <3>4 DEF Joins
    <3> QED
      BY <3>2, <3>3, <3>4, <3>5, <3>6
  <2>2. ASSUME session # 0, NEW m \in ToSet(up'[session]), m.kind = "deployed"
        PROVE  m.combat \notin DOMAIN byArgent
    BY <1>4, <1>7, <1>8, <2>2 DEF JInv, Ways, Joining
  <2> QED
    BY <1>1, <2>1, <2>2 DEF JInv, Ways, Joining, Numbers
<1>14. LInv'
  <2>1. 0 \notin Sessions
    BY DEF Sessions
  <2> QED
    BY <1>1, <1>4, <1>5, <2>1 DEF LInv, Live
<1> QED
  BY <1>10, <1>11, <1>12, <1>13, <1>14 DEF JInv, Ends, Ways

-----------------------------------------------------------------------------
(* Steps of the combat server. *)

\* The gateway has heard of this connection.
Heard(s) == s < Current \/ (s = Current /\ ~Unheard)

\* Whatever is asked over a connection is asked by who has heard of it.
LEMMA Asked ==
  ASSUME IInv, Connections, NEW s \in Sessions, NEW kind, Received(down, s, kind),
         down' = Taken(down, s)
  PROVE  /\ Head(down[s]).kind = kind /\ Head(down[s]) \in DownMessage(made)
         /\ Head(down[s]) \in ToSet(down[s]) /\ down[s] # <<>>
         /\ \A t \in Sessions : t # s => down'[t] = down[t]
         /\ \A t \in Sessions : ToSet(down'[t]) \subseteq ToSet(down[t])
         /\ Drops(down[s], down'[s], Head(down[s]))
         /\ kind \notin {"open", "close"} => Heard(s)
<1>1. down[s] # <<>> /\ Head(down[s]).kind = kind
  BY DEF Received
<1>2. /\ \A t \in Sessions : t # s => down'[t] = down[t]
      /\ Head(down[s]) \in DownMessage(made) /\ Drops(down[s], down'[s], Head(down[s]))
  BY <1>1, TakenDown DEF IInv, QInv
<1>3. /\ Head(down[s]) \in ToSet(down[s])
      /\ \A t \in Sessions : ToSet(down'[t]) \subseteq ToSet(down[t])
  BY <1>2 DEF Drops
<1>4. kind \notin {"open", "close"} => Heard(s)
  <2>1. ~(s > Current)
    BY <1>1 DEF Connections
  <2>2. Opened.kind = "open" /\ Ended.kind = "close"
    BY DEF Opened, Ended
  <2>3. s = Current /\ kind \notin {"open", "close"} => ~Unheard
    BY <1>1, <1>3, <2>2 DEF Connections
  <2>4. Current \in Sessions
    BY DEF Connections
  <2> QED
    BY <2>1, <2>3, <2>4 DEF Heard, Sessions
<1> QED
  BY <1>1, <1>2, <1>3, <1>4

\* An answer is the last that is on the way, if the connection is up.
LEMMA Answers ==
  ASSUME IInv, Connections, NEW s \in Sessions, Heard(s),
         NEW m \in UpMessage(made), m.kind \notin {"open", "close"}, SendUp(s, <<m>>)
  PROVE  /\ \A t \in Sessions : \/ up'[t] = up[t]
                                \/ t = Current /\ ~Unheard /\ Opened \notin ToSet(up'[t])
         /\ \A t \in Sessions : t # s => up'[t] = up[t]
         /\ conn[s] # "up" => up'[s] = up[s]
         /\ ToSet(up[s]) \subseteq ToSet(up'[s])
         /\ ToSet(up'[s]) \subseteq ToSet(up[s]) \union {m}
         /\ conn[s] = "up" => m \in ToSet(up'[s])
         /\ \A kind, k : \/ Times(up'[s], kind, k) = Times(up[s], kind, k)
                         \/ Times(up'[s], kind, k) = Times(up[s], kind, k) + Fits(m, kind, k)
<1> DEFINE M == UpMessage(made)  p == <<m>>  q == up  new == up'
<1>1. q \in [Sessions -> Seq(M)] /\ new = Sending(q, s, p)
  BY DEF IInv, QInv, QueuesFit, SendUp
<1>2. /\ p \in Seq(M) /\ ToSet(p) = {m} /\ \A kind, k : Times(p, kind, k) = Fits(m, kind, k)
  BY TimesOne
<1> HIDE DEF M, p, q, new
<1>3. \A t \in Sessions : t # s => new[t] = q[t]
  BY ONLY <1>1, <1>2, s \in Sessions, SentGains
<1>4. conn[s] = "up" => Gains(q[s], new[s], p)
  BY ONLY <1>1, <1>2, s \in Sessions, SentGains
<1>5. conn[s] # "up" => new = q
  BY <1>1 DEF Sending
<1>6. conn[s] = "up" => s = Current /\ ~Unheard
  BY DEF Heard, Connections
<1>7. ~Unheard => Opened \notin ToSet(up[Current])
  BY DEF Unheard
<1>8. ASSUME NEW t \in Sessions
      PROVE  new[t] = q[t] \/ (t = Current /\ ~Unheard /\ Opened \notin ToSet(new[t]))
  <2>1. CASE t # s \/ conn[s] # "up"
    BY <1>3, <1>5, <2>1
  <2>2. CASE t = s /\ conn[s] = "up"
    BY <1>2, <1>4, <1>6, <1>7, <2>2 DEF Gains, Opened, q
  <2> QED
    BY <2>1, <2>2
<1>9. /\ ToSet(q[s]) \subseteq ToSet(new[s]) /\ ToSet(new[s]) \subseteq ToSet(q[s]) \union {m}
      /\ conn[s] = "up" => m \in ToSet(new[s])
  BY <1>2, <1>4, <1>5 DEF Gains
<1>10. ASSUME NEW kind, NEW k
       PROVE  \/ Times(new[s], kind, k) = Times(q[s], kind, k)
              \/ Times(new[s], kind, k) = Times(q[s], kind, k) + Fits(m, kind, k)
  BY <1>2, <1>4, <1>5 DEF Gains
<1> QED
  BY <1>3, <1>5, <1>8, <1>9, <1>10 DEF q, new

\* Only who has heard of a connection is seen over it.
LEMMA StillUnseen ==
  ASSUME IInv, NEW s \in Sessions, Heard(s), Current \in Sessions,
         \A f \in DOMAIN fields' : \/ fields'[f].session \in {0, s}
                                   \/ f \in DOMAIN fields /\ fields'[f].session = fields[f].session,
         \A r \in Roles : role'[r].session \in {0, s, role[r].session},
         NEW t \in Sessions, Unseen(t), t > Current \/ (t = Current /\ Unheard)
  PROVE  Unseen(t)'
<1>1. t # s /\ t # 0
  BY DEF Heard, Sessions
<1> QED
  BY <1>1 DEF Unseen

\* What the gateway and the numbers of the combats have to do with it.
LEMMA OthersKept ==
  ASSUME JInv, UNCHANGED gatewayVars
  PROVE  /\ Named' /\ KeyBack'
         /\ UNCHANGED <<session, combats, byArgent, argent, made>>
<1>1. UNCHANGED <<online, argent, combats, byArgent, session, made>>
  BY DEF gatewayVars, gatewayState
<1> QED
  BY <1>1 DEF JInv, Ends, Named, KeyBack

LEMMA ServerConnectedJoint ==
  ASSUME IInv, IInv', JInv, NEW s \in Sessions, OnServerConnected(s), UNCHANGED gatewayVars
  PROVE  JInv'
<1>1. /\ Received(down, s, "open") /\ down' = Taken(down, s)
      /\ UNCHANGED <<sessionFields, fields, allocated, role, conn, up>>
  BY DEF OnServerConnected, Taken
<1>2. Connections
  BY DEF JInv, Ends
<1>3. /\ \A t \in Sessions : t # s => down'[t] = down[t]
      /\ down[s] # <<>> /\ Drops(down[s], down'[s], Head(down[s])) /\ Head(down[s]).kind = "open"
  BY <1>1, <1>2, Asked
<1>4. Named' /\ KeyBack' /\ UNCHANGED <<session, combats, byArgent, argent>>
  BY OthersKept
<1>5. Connections'
  <2>1. \A t \in Sessions : Unseen(t) => Unseen(t)'
    BY <1>1 DEF Unseen
  <2> QED
    BY <1>1, <1>2, <1>3, <1>4, <2>1, ServerConnections
<1>6. Owned'
  BY <1>1 DEF JInv, Ends, Owned
<1>7. Alike(down[s], down'[s])
  <2> DEFINE M == DownMessage(made)  old == down[s]  new == down'[s]  m == Head(down[s])
  <2>1. old \in Seq(M)
    BY DEF IInv, QInv, QueuesFit
  <2>2. new \in Seq(M)
    <3>1. made' = made
      BY OthersKept
    <3> QED
      BY <3>1 DEF IInv, QInv, QueuesFit
  <2>3. Drops(old, new, m) /\ m.kind \notin Telling \ {"begun"}
    BY <1>3 DEF Telling
  <2> HIDE DEF M, old, new, m
  <2>4. Alike(old, new)
    BY <2>1, <2>2, <2>3, AlikeDrops
  <2> QED
    BY <2>4 DEF old, new
<1>8. Ways'
  <2>1. \A t \in Sessions : Alike(down[t], down'[t]) /\ Alike(up[t], up'[t])
    BY <1>1, <1>3, <1>7, AlikeSame DEF IInv, QInv
  <2> QED
    BY <1>1, <1>4, <2>1, IdleStep DEF JInv
<1> QED
  BY <1>4, <1>5, <1>6, <1>8 DEF JInv, Ends

\* A role that joins is told the session over which it does.
LEMMA SessionSet ==
  ASSUME SInv, NEW s \in Sessions, NEW a \in DOMAIN manager, SetAppSession(a, s)
  PROVE  \A r \in Roles : role'[r].session \in {0, s, role[r].session}
<1>1. role' = [role EXCEPT ![manager[a]].session = s]
  BY DEF SetAppSession
<1>2. ASSUME NEW r \in Roles PROVE role'[r].session \in {0, s, role[r].session}
  <2>1. /\ role \in [Roles -> [session : Sessions \union {0}, field : 0..allocated]]
        /\ role[r] \in [session : Sessions \union {0}, field : 0..allocated]
    BY DEF SInv, ServerType
  <2> QED
    BY <1>1, <2>1
<1> QED
  BY <1>2

\* A request that the gateway makes over a connection is handled: what has a session then
\* had it before, or has this one.
LEMMA Handled ==
  ASSUME IInv, JInv, NEW s \in Sessions, NEW kind, Received(down, s, kind), down' = Taken(down, s),
         kind \notin {"open", "close"}, UNCHANGED gatewayVars, UNCHANGED conn,
         NEW m \in UpMessage(made), m.kind \notin {"open", "close"}, SendUp(s, <<m>>) \/ UNCHANGED up,
         \A f \in DOMAIN fields' : \/ fields'[f].session \in {0, s}
                                   \/ f \in DOMAIN fields /\ fields'[f].session = fields[f].session,
         \A r \in Roles : role'[r].session \in {0, s, role[r].session}
  PROVE  Connections'
<1>1. Connections /\ UNCHANGED <<session, byArgent>>
  BY OthersKept DEF JInv, Ends
<1>2. Heard(s) /\ down[s] # <<>>
  BY <1>1, Asked
<1>3. \A t \in Sessions : \/ up'[t] = up[t]
                          \/ t = Current /\ ~Unheard /\ Opened \notin ToSet(up'[t])
  BY <1>1, <1>2, Answers
<1>4. \A t \in Sessions : Unseen(t) /\ (t > Current \/ (t = Current /\ Unheard)) => Unseen(t)'
  BY <1>1, <1>2, StillUnseen DEF Connections
<1> QED
  BY <1>1, <1>2, <1>3, <1>4, ServerConnections

LEMMA AlikeTaken ==
  ASSUME IInv, IInv', made' = made, NEW s \in Sessions, down[s] # <<>>, down' = Taken(down, s),
         Head(down[s]).kind \notin Telling \ {"begun"}
  PROVE  \A t \in Sessions : Alike(down[t], down'[t])
<1>1. /\ \A t \in Sessions : t # s => down'[t] = down[t]
      /\ Drops(down[s], down'[s], Head(down[s]))
  BY TakenDown DEF IInv, QInv
<1> DEFINE M == DownMessage(made)  old == down[s]  new == down'[s]  m == Head(down[s])
<1>2. old \in Seq(M)
  BY DEF IInv, QInv, QueuesFit
<1>3. new \in Seq(M)
  BY DEF IInv, QInv, QueuesFit
<1>4. Drops(old, new, m) /\ m.kind \notin Telling \ {"begun"}
  BY <1>1
<1> HIDE DEF M, old, new, m
<1>5. Alike(old, new)
  BY <1>2, <1>3, <1>4, AlikeDrops
<1> QED
  BY <1>1, <1>5, AlikeSame DEF old, new, IInv, QInv

LEMMA AlikeAnswered ==
  ASSUME IInv, NEW s \in Sessions, NEW m \in UpMessage(made), m.kind \notin Telling, SendUp(s, <<m>>)
  PROVE  \A t \in Sessions : Alike(up[t], up'[t])
<1> DEFINE M == UpMessage(made)  p == <<m>>  q == up  new == up'
<1>1. q \in [Sessions -> Seq(M)] /\ new = Sending(q, s, p)
  BY DEF IInv, QInv, QueuesFit, SendUp
<1>2. p \in Seq(M) /\ ToSet(p) = {m}
  BY TimesOne
<1> HIDE DEF M, p, q, new
<1>3. \A t \in Sessions : t # s => new[t] = q[t]
  BY ONLY <1>1, <1>2, s \in Sessions, SentGains
<1>4. conn[s] = "up" => Gains(q[s], new[s], p)
  BY ONLY <1>1, <1>2, s \in Sessions, SentGains
<1>5. conn[s] # "up" => new = q
  BY <1>1 DEF Sending
<1>6. conn[s] = "up" => Alike(q[s], new[s])
  <2> DEFINE old == q[s]  last == new[s]
  <2>1. old \in Seq(M) /\ \A x \in ToSet(p) : x.kind \notin Telling
    BY <1>1, <1>2
  <2>2. conn[s] = "up" => Gains(old, last, p)
    BY <1>4
  <2> HIDE DEF old, last
  <2>3. conn[s] = "up" => Alike(old, last)
    BY <1>2, <2>1, <2>2, AlikeGains
  <2> QED
    BY <2>3 DEF old, last
<1>7. \A t \in Sessions : Alike(q[t], q[t])
  BY AlikeSame DEF q, IInv, QInv
<1>8. ASSUME NEW t \in Sessions PROVE Alike(q[t], new[t])
  <2>1. CASE t = s /\ conn[s] = "up"
    BY <1>6, <2>1
  <2>2. CASE ~(t = s /\ conn[s] = "up")
    BY <1>3, <1>5, <1>7, <2>2
  <2> QED
    BY <2>1, <2>2
<1> QED
  BY <1>8 DEF q, new

LEMMA ReconnectServed ==
  ASSUME IInv, IInv', JInv, NEW s \in Sessions, OnMessageCombatReconnectRequest(s), UNCHANGED gatewayVars
  PROVE  JInv'
<1> DEFINE x == Head(down[s])  k == x.combat  a == x.role
           m == [kind |-> "reconnected", combat |-> k]
<1>1. /\ Received(down, s, "reconnect") /\ down' = Taken(down, s)
      /\ UNCHANGED <<sessionFields, fields, allocated, conn>>
      /\ \/ a \in DOMAIN manager /\ SetAppSession(a, s) /\ SendUp(s, <<m>>)
         \/ UNCHANGED <<role, up>>
  BY DEF OnMessageCombatReconnectRequest, Takes, Taken
<1>2. Named' /\ KeyBack' /\ UNCHANGED <<session, combats, byArgent, argent, made>>
  BY OthersKept
<1>3. k \in Keys /\ down[s] # <<>> /\ x.kind = "reconnect"
  BY <1>1, TakingDown, DownMessages DEF IInv, QInv, Received
<1>4. m \in UpMessage(made) /\ m.kind \notin Telling \union {"open", "close"}
  BY <1>3, UpMessages DEF Telling
<1> HIDE DEF m, a, k
<1>5. Connections'
  <2>1. \A r \in Roles : role'[r].session \in {0, s, role[r].session}
    BY <1>1, SessionSet DEF IInv
  <2>2. SendUp(s, <<m>>) \/ UNCHANGED up
    BY <1>1
  <2> QED
    BY <1>1, <1>4, <2>1, <2>2, Handled
<1>6. Owned'
  BY <1>1 DEF JInv, Ends, Owned
<1>7. Ways'
  <2>1. \A t \in Sessions : Alike(down[t], down'[t])
    BY <1>1, <1>2, <1>3, AlikeTaken DEF Telling
  <2>2. \A t \in Sessions : Alike(up[t], up'[t])
    BY <1>1, <1>4, AlikeAnswered, AlikeSame DEF IInv, QInv
  <2> QED
    BY <1>1, <1>2, <2>1, <2>2, IdleStep DEF JInv
<1> QED
  BY <1>2, <1>5, <1>6, <1>7 DEF JInv, Ends

\* What is broadcast goes to those who are seen, and tells nothing of the combats.
LEMMA Broadcasts ==
  ASSUME SInv, QueuesFit, NEW f \in DOMAIN fields, BroadcastMessage(f), NEW t \in Sessions
  PROVE  \/ up'[t] = up[t]
         \/ /\ conn[t] = "up" /\ ~Unseen(t)
            /\ \E p \in Seq(UpMessage(made)) :
                 up'[t] = up[t] \o p /\ \A m \in ToSet(p) : m.kind = "sync"
<1> DEFINE On == {a \in fields[f].roles : role[manager[a]].session = t}
           To == [i \in 1..Cardinality(On) |-> [kind |-> "sync", combat |-> f]]
<1>1. up'[t] = IF conn[t] = "up" THEN up[t] \o To ELSE up[t]
  BY DEF BroadcastMessage
<1>2. f \in Keys
  BY DEF SInv, ServerType, FieldsPaired, Keys
<1>3. On \subseteq fields[f].roles /\ (Unseen(t) => On = {})
  BY DEF Unseen, SInv, ServerPointers, ServerType, InUse
<1>4. Cardinality(On) \in Nat
  <2>1. PICK l, r \in Nat : fields[f].roles = {l, r}
    BY DEF SInv, FieldsPaired
  <2>2. IsFiniteSet({l, r})
    <3>1. IsFiniteSet({l}) /\ {l} \cup {r} = {l, r}
      BY FS_Singleton
    <3> QED
      BY <3>1, FS_AddElement
  <2> HIDE DEF On
  <2> QED
    BY <1>3, <2>1, <2>2, FS_Subset, FS_CardinalityType
<1> DEFINE n == Cardinality(On)  m == [kind |-> "sync", combat |-> f]
<1>5. m \in UpMessage(made) /\ m.kind = "sync"
  BY <1>2, UpMessages
<1>6. Unseen(t) => n = 0
  BY <1>3, FS_EmptySet
<1> HIDE DEF n, m, On
<1>7. To = [i \in 1..n |-> m] /\ n \in Nat
  BY <1>4 DEF n, m
<1> HIDE DEF To
<1>8. To \in [1..n -> UpMessage(made)]
  BY <1>5, <1>7
<1>9. To \in Seq(UpMessage(made))
  BY <1>7, <1>8, FunctionSeq
<1>10. \A x \in ToSet(To) : x.kind = "sync"
  BY <1>5, <1>7 DEF ToSet
<1>11. Unseen(t) => up'[t] = up[t]
  <2> SUFFICES ASSUME Unseen(t) PROVE up[t] \o To = up[t]
    BY <1>1
  <2>1. DOMAIN To = {}
    BY <1>6, <1>7
  <2>2. To = <<>>
    BY <1>9, <2>1
  <2> DEFINE q == up[t]
  <2>3. q \in Seq(UpMessage(made))
    BY DEF QueuesFit
  <2> HIDE DEF q
  <2>4. q \o <<>> = q
    BY <2>3
  <2> QED
    BY <2>2, <2>4 DEF q
<1> QED
  BY <1>1, <1>9, <1>10, <1>11

LEMMA ActionServed ==
  ASSUME IInv, IInv', JInv, NEW s \in Sessions, OnMessageCombatArgentRequest(s), UNCHANGED gatewayVars
  PROVE  JInv'
<1> DEFINE x == Head(down[s])  a == x.role  f == role[manager[a]].field
<1>1. /\ Received(down, s, "action") /\ down' = Taken(down, s)
      /\ UNCHANGED <<sessionFields, fields, allocated, role, conn>>
      /\ (a \in DOMAIN manager /\ BroadcastMessage(f)) \/ UNCHANGED up
  BY DEF OnMessageCombatArgentRequest, Takes, Taken, serverVars
<1>2. Named' /\ KeyBack' /\ UNCHANGED <<session, combats, byArgent, argent, made>>
  BY OthersKept
<1>3. Connections /\ down[s] # <<>> /\ x.kind = "action"
  BY <1>1 DEF Received, JInv, Ends
<1>4. a \in DOMAIN manager => f \in DOMAIN fields
  BY DEF IInv, SInv, ServerPointers
<1> HIDE DEF a, f
<1>5. ASSUME NEW t \in Sessions
      PROVE  \/ up'[t] = up[t]
             \/ /\ conn[t] = "up" /\ ~Unseen(t)
                /\ \E p \in Seq(UpMessage(made)) :
                     up'[t] = up[t] \o p /\ \A m \in ToSet(p) : m.kind = "sync"
  BY <1>1, <1>4, Broadcasts DEF IInv, QInv
<1>6. ASSUME NEW t \in Sessions
      PROVE  up'[t] = up[t] \/ (t = Current /\ ~Unheard /\ Opened \notin ToSet(up'[t]))
  <2>1. CASE up'[t] = up[t]
    BY <2>1
  <2>2. CASE up'[t] # up[t]
    <3>1. PICK p \in Seq(UpMessage(made)) : up'[t] = up[t] \o p /\ \A m \in ToSet(p) : m.kind = "sync"
      BY <1>5, <2>2
    <3>2. conn[t] = "up" /\ ~Unseen(t)
      BY <1>5, <2>2
    <3>3. t = Current /\ ~Unheard
      BY <1>3, <3>2 DEF Connections, Sessions
    <3> DEFINE q == up[t]
    <3>4. q \in Seq(UpMessage(made))
      BY DEF IInv, QInv, QueuesFit
    <3> HIDE DEF q
    <3>5. ToSet(q \o p) = ToSet(q) \union ToSet(p)
      BY <3>4, TimesConcat
    <3>6. Opened \notin ToSet(p)
      BY <3>1 DEF Opened
    <3> QED
      BY <3>1, <3>3, <3>5, <3>6 DEF q, Unheard
  <2> QED
    BY <2>1, <2>2
<1>7. Connections'
  <2>1. \A t \in Sessions : Unseen(t) => Unseen(t)'
    BY <1>1 DEF Unseen
  <2> QED
    BY <1>1, <1>2, <1>3, <1>6, <2>1, ServerConnections
<1>8. Owned'
  BY <1>1 DEF JInv, Ends, Owned
<1>9. ASSUME NEW t \in Sessions PROVE Alike(up[t], up'[t])
  <2>1. CASE up'[t] = up[t]
    BY <2>1, AlikeSame DEF IInv, QInv
  <2>2. CASE up'[t] # up[t]
    <3>1. PICK p \in Seq(UpMessage(made)) : up'[t] = up[t] \o p /\ \A m \in ToSet(p) : m.kind = "sync"
      BY <1>5, <2>2
    <3> DEFINE q == up[t]  new == up'[t]
    <3>2. q \in Seq(UpMessage(made)) /\ new = q \o p
      BY <3>1 DEF IInv, QInv, QueuesFit
    <3> HIDE DEF q, new
    <3>3. Gains(q, q \o p, p)
      BY <3>2, TimesConcat DEF Gains
    <3>4. \A m \in ToSet(p) : m.kind \notin Telling
      BY <3>1 DEF Telling
    <3>5. Alike(q, new)
      BY <3>2, <3>3, <3>4, AlikeGains
    <3> QED
      BY <3>5 DEF q, new
  <2> QED
    BY <2>1, <2>2
<1>10. Ways'
  <2>1. \A t \in Sessions : Alike(down[t], down'[t])
    BY <1>1, <1>2, <1>3, AlikeTaken DEF Telling
  <2> QED
    BY <1>1, <1>2, <1>9, <2>1, IdleStep DEF JInv
<1> QED
  BY <1>2, <1>7, <1>8, <1>10 DEF JInv, Ends

LEMMA ConnectServed ==
  ASSUME IInv, IInv', JInv, NEW s \in Sessions, OnMessageCombatConnectArgentRequest(s), UNCHANGED gatewayVars
  PROVE  JInv'
<1> DEFINE x == Head(down[s])  k == x.combat  a == x.role  b == a \in DOMAIN manager
           m == [kind |-> "connected", combat |-> k, ok |-> b]
<1>1. /\ Received(down, s, "connect") /\ down' = Taken(down, s)
      /\ UNCHANGED <<sessionFields, fields, allocated, conn>>
      /\ (a \in DOMAIN manager /\ SetAppSession(a, s)) \/ UNCHANGED role
      /\ SendUp(s, <<m>>)
  BY DEF OnMessageCombatConnectArgentRequest, Takes, Taken
<1>2. Named' /\ KeyBack' /\ UNCHANGED <<session, combats, byArgent, argent, made>>
  BY OthersKept
<1>3. Connections
  BY DEF JInv, Ends
<1>4. /\ x.kind = "connect" /\ x \in DownMessage(made) /\ x \in ToSet(down[s]) /\ down[s] # <<>> /\ Heard(s)
      /\ \A t \in Sessions : t # s => down'[t] = down[t]
      /\ \A t \in Sessions : ToSet(down'[t]) \subseteq ToSet(down[t])
      /\ Drops(down[s], down'[s], x)
  BY <1>1, <1>3, Asked
<1>5. k \in Keys /\ k \in Numbers
  BY <1>4, DownMessages DEF JInv, Ways, Numbered
<1>6. k \in DOMAIN fields /\ s = session /\ Live => b
  BY <1>4 DEF JInv, Ways, LInv, ConnectRight, IInv, SInv, ServerPointers
<1>7. /\ m \in UpMessage(made) /\ m.kind = "connected" /\ m.combat = k
      /\ m.kind \notin {"open", "close"} /\ (~m.ok => ~b)
  <2>1. b \in BOOLEAN
    OBVIOUS
  <2> HIDE DEF b, k
  <2> QED
    BY <1>5, <2>1, UpMessages
<1> HIDE DEF m, b, a, k, x
<1>8. Connections'
  <2>1. \A r \in Roles : role'[r].session \in {0, s, role[r].session}
    BY <1>1, SessionSet DEF IInv
  <2>2. \A f \in DOMAIN fields' : f \in DOMAIN fields /\ fields'[f].session = fields[f].session
    BY <1>1
  <2> QED
    BY <1>1, <1>7, <2>1, <2>2, Handled
<1>9. Owned'
  BY <1>1 DEF JInv, Ends, Owned
<1>10. /\ \A t \in Sessions : t # s => up'[t] = up[t]
       /\ conn[s] # "up" => up'[s] = up[s]
       /\ ToSet(up[s]) \subseteq ToSet(up'[s])
       /\ ToSet(up'[s]) \subseteq ToSet(up[s]) \union {m}
       /\ \A kind, j : \/ Times(up'[s], kind, j) = Times(up[s], kind, j)
                       \/ Times(up'[s], kind, j) = Times(up[s], kind, j) + Fits(m, kind, j)
  <2>1. IInv /\ Connections /\ Heard(s) /\ m \in UpMessage(made) /\ m.kind \notin {"open", "close"} /\ SendUp(s, <<m>>)
    BY <1>1, <1>3, <1>4, <1>7
  <2> QED
    BY ONLY <2>1, s \in Sessions, Answers
<1>11. Numbered'
  BY <1>1, <1>2, <1>4, <1>5, <1>7, <1>10 DEF JInv, Ways, Numbered, Numbers
<1>12. Begins'
  BY <1>1, <1>4 DEF JInv, Ways, Begins
<1>13. Joining'
  <2>1. ASSUME session # 0, NEW j \in Numbers PROVE Joins(j)' <= 2
    <3>0. session \in Sessions
      BY <2>1, SessionThere
    <3>1. JoinedOf(j)' = JoinedOf(j) /\ JoinedOf(j) \in Nat
      BY <1>2, JoinedNat DEF JoinedOf
    <3>2. Joins(j) <= 2
      BY <2>1 DEF JInv, Ways, Joining
    <3>3. CASE s # session
      BY <1>2, <1>4, <1>10, <3>0, <3>1, <3>2, <3>3 DEF Joins
    <3>4. CASE s = session
      <4> DEFINE d == Times(up[s], "deployed", j)   d1 == Times(up'[s], "deployed", j)
                 c == Times(down[s], "connect", j)  c1 == Times(down'[s], "connect", j)
                 e == Times(up[s], "connected", j)  e1 == Times(up'[s], "connected", j)
                 n == JoinedOf(j)  g == IF j = k THEN 1 ELSE 0
      <4>1. d \in Nat /\ d1 \in Nat /\ c \in Nat /\ c1 \in Nat /\ e \in Nat /\ e1 \in Nat
        BY TimesFit, TimesFitNext DEF IInv, QInv
      <4>2. d1 = d
        <5>1. Fits(m, "deployed", j) = 0
          BY <1>7 DEF Fits
        <5> QED
          BY <1>10, <4>1, <5>1
      <4>3. c = c1 + g
        <5>1. c = c1 + Fits(x, "connect", j)
          BY <1>4 DEF Drops
        <5>2. Fits(x, "connect", j) = g
          BY <1>4 DEF Fits, k
        <5> QED
          BY <5>1, <5>2
      <4>4. e1 = e \/ e1 = e + g
        <5>1. Fits(m, "connected", j) = g
          BY <1>7 DEF Fits
        <5> QED
          BY <1>10, <5>1
      <4>5. 2 * d + n + c + e <= 2
        BY <3>2, <3>4 DEF Joins
      <4>6. Joins(j)' = 2 * d1 + JoinedOf(j)' + c1 + e1
        BY <1>2, <3>4 DEF Joins
      <4>7. g \in {0, 1}
        OBVIOUS
      <4> HIDE DEF d, d1, c, c1, e, e1, g, n
      <4>8. 2 * d1 + n + c1 + e1 <= 2
        <5>1. n \in Nat
          BY <3>1 DEF n
        <5> QED
          BY <4>1, <4>2, <4>3, <4>4, <4>5, <4>7, <5>1
      <4> QED
        BY <3>1, <4>6, <4>8 DEF n
    <3> QED
      BY <3>3, <3>4
  <2>2. ASSUME session # 0, NEW y \in ToSet(up'[session]), y.kind = "deployed"
        PROVE  y.combat \notin DOMAIN byArgent
    <3>1. y \in ToSet(up[session])
      BY <1>7, <1>10, <2>2, SessionThere
    <3> QED
      BY <2>2, <3>1 DEF JInv, Ways, Joining
  <2>3. \A id \in DOMAIN combats : combats[id].connected <= 2
    BY DEF JInv, Ways, Joining
  <2> QED
    BY <1>1, <1>2, <2>1, <2>2, <2>3 DEF Joining, Numbers
<1>14. LInv'
  <2> SUFFICES ASSUME Live PROVE (FieldsKnown /\ FieldsTold /\ DeployedRight /\ DeployRight
                                    /\ ConnectRight /\ Gone /\ BeginRight /\ BegunRight)'
    BY <1>1, <1>2 DEF LInv, Live
  <2>0. /\ FieldsKnown /\ FieldsTold /\ DeployedRight /\ DeployRight
        /\ ConnectRight /\ Gone /\ BeginRight /\ BegunRight
    BY DEF JInv, Ways, LInv
  <2>1. /\ session \in Sessions
        /\ ToSet(down'[session]) \subseteq ToSet(down[session])
        /\ ToSet(up[session]) \subseteq ToSet(up'[session])
        /\ \A y \in ToSet(up'[session]) : y \in ToSet(up[session]) \/ (y = m /\ s = session)
    BY <1>4, <1>10, SessionThere DEF Live
  <2>2. FieldsKnown' /\ FieldsTold'
    BY <1>1, <1>2, <2>0, <2>1 DEF FieldsKnown, FieldsTold, Has
  <2>3. DeployedRight' /\ DeployRight'
    BY <1>1, <1>2, <1>7, <2>0, <2>1 DEF DeployedRight, DeployRight, RolesOf
  <2>4. ConnectRight'
    BY <1>1, <1>2, <2>0, <2>1 DEF ConnectRight
  <2>5. Gone'
    BY <1>1, <1>2, <1>6, <1>7, <2>0, <2>1 DEF Gone
  <2>6. BeginRight'
    BY <1>1, <1>2, <1>7, <2>0, <2>1 DEF BeginRight, Has
  <2>7. BegunRight'
    BY <1>1, <1>2, <2>0 DEF BegunRight
  <2> QED
    BY <2>2, <2>3, <2>4, <2>5, <2>6, <2>7
<1> QED
  BY <1>2, <1>8, <1>9, <1>11, <1>12, <1>13, <1>14 DEF JInv, Ends, Ways

\* No more joins than before.
LEMMA NoMoreJoins ==
  ASSUME IInv, IInv', Joining, UNCHANGED <<session, combats, byArgent, allocated>>,
         session # 0 => /\ \A y \in ToSet(up'[session]) : y.kind = "deployed" => y \in ToSet(up[session])
                        /\ \A j : /\ Times(up'[session], "deployed", j) <= Times(up[session], "deployed", j)
                                  /\ Times(down'[session], "connect", j) <= Times(down[session], "connect", j)
                                  /\ Times(up'[session], "connected", j) <= Times(up[session], "connected", j)
  PROVE  Joining'
<1>1. ASSUME session # 0, NEW j \in Numbers PROVE Joins(j)' <= 2
  <2>0. session \in Sessions
    BY <1>1, SessionThere
  <2>1. JoinedOf(j)' = JoinedOf(j) /\ JoinedOf(j) \in Nat
    BY JoinedNat DEF JoinedOf
  <2>2. Joins(j) <= 2
    BY <1>1 DEF Joining
  <2> DEFINE d == Times(up[session], "deployed", j)   d1 == Times(up'[session], "deployed", j)
             c == Times(down[session], "connect", j)  c1 == Times(down'[session], "connect", j)
             e == Times(up[session], "connected", j)  e1 == Times(up'[session], "connected", j)
  <2>3. d \in Nat /\ d1 \in Nat /\ c \in Nat /\ c1 \in Nat /\ e \in Nat /\ e1 \in Nat
    BY <2>0, TimesFit, TimesFitNext DEF IInv, QInv
  <2>4. d1 <= d /\ c1 <= c /\ e1 <= e
    BY <1>1
  <2>5. /\ Joins(j) = 2 * d + JoinedOf(j) + c + e
        /\ Joins(j)' = 2 * d1 + JoinedOf(j)' + c1 + e1
    BY DEF Joins
  <2> HIDE DEF d, d1, c, c1, e, e1
  <2> QED
    BY <2>1, <2>2, <2>3, <2>4, <2>5
<1> QED
  BY <1>1 DEF Joining, Numbers

LEMMA BeginServed ==
  ASSUME IInv, IInv', JInv, NEW s \in Sessions, OnMessageCombatBeginRequest(s), UNCHANGED gatewayVars
  PROVE  JInv'
<1> DEFINE x == Head(down[s])  k == x.combat  b == k \in DOMAIN fields
           m == [kind |-> "begun", combat |-> k, ok |-> b]
<1>1. /\ Received(down, s, "begin") /\ down' = Taken(down, s)
      /\ UNCHANGED <<sessionFields, role, allocated, conn>>
      /\ k \in DOMAIN fields => SetTimers(k)
      /\ k \notin DOMAIN fields => UNCHANGED fields
      /\ SendUp(s, <<m>>)
  <2>1. /\ Received(down, s, "begin") /\ down' = Taken(down, s)
        /\ UNCHANGED <<sessionFields, role, allocated, conn>>
    BY DEF OnMessageCombatBeginRequest, Takes, Taken
  <2>2. /\ IF k \in DOMAIN fields THEN SetTimers(k) ELSE UNCHANGED fields
        /\ SendUp(s, <<m>>)
    BY DEF OnMessageCombatBeginRequest
  <2> QED
    BY <2>1, <2>2
<1>2. Named' /\ KeyBack' /\ UNCHANGED <<session, combats, byArgent, argent, made>>
  BY OthersKept
<1>3. Connections
  BY DEF JInv, Ends
<1>4. /\ x.kind = "begin" /\ x \in DownMessage(made) /\ x \in ToSet(down[s]) /\ down[s] # <<>> /\ Heard(s)
      /\ \A t \in Sessions : t # s => down'[t] = down[t]
      /\ \A t \in Sessions : ToSet(down'[t]) \subseteq ToSet(down[t])
      /\ Drops(down[s], down'[s], x)
  BY <1>1, <1>3, Asked
<1>5. k \in Keys /\ k \in Numbers /\ x.combat = k
  BY <1>4, DownMessages DEF JInv, Ways, Numbered
<1>6. /\ m \in UpMessage(made) /\ m.kind = "begun" /\ m.combat = k
      /\ m.kind \notin {"open", "close"} /\ (~m.ok => k \notin DOMAIN fields)
  <2>1. b \in BOOLEAN
    OBVIOUS
  <2>2. ~b => k \notin DOMAIN fields
    OBVIOUS
  <2> HIDE DEF b, k
  <2> QED
    BY <1>5, <2>1, <2>2, UpMessages
<1>7. /\ DOMAIN fields' = DOMAIN fields
      /\ \A f \in DOMAIN fields : /\ fields'[f].session = fields[f].session
                                  /\ fields'[f].roles = fields[f].roles
                                  /\ f # k => fields'[f] = fields[f]
  <2>1. CASE k \in DOMAIN fields
    <3>1. fields' = [fields EXCEPT ![k].begun = TRUE]
      BY <1>1, <2>1 DEF SetTimers
    <3> HIDE DEF k
    <3> QED
      BY <3>1
  <2>2. CASE k \notin DOMAIN fields
    BY <1>1, <2>2
  <2> QED
    BY <2>1, <2>2
<1> HIDE DEF m, b, k, x
<1>8. Connections'
  <2>1. \A r \in Roles : role'[r].session \in {0, s, role[r].session}
    BY <1>1
  <2>2. \A f \in DOMAIN fields' : f \in DOMAIN fields /\ fields'[f].session = fields[f].session
    BY <1>7
  <2> QED
    BY <1>1, <1>6, <2>1, <2>2, Handled
<1>9. Owned'
  <2>1. \A t \in Sessions : sessionFields[t] \subseteq DOMAIN fields
    BY DEF IInv, SInv, ServerPointers
  <2> QED
    BY <1>1, <1>7, <2>1 DEF JInv, Ends, Owned
<1>10. /\ \A t \in Sessions : t # s => up'[t] = up[t]
       /\ ToSet(up[s]) \subseteq ToSet(up'[s])
       /\ ToSet(up'[s]) \subseteq ToSet(up[s]) \union {m}
       /\ \A kind, j : \/ Times(up'[s], kind, j) = Times(up[s], kind, j)
                       \/ Times(up'[s], kind, j) = Times(up[s], kind, j) + Fits(m, kind, j)
  <2>1. IInv /\ Connections /\ Heard(s) /\ m \in UpMessage(made) /\ m.kind \notin {"open", "close"} /\ SendUp(s, <<m>>)
    BY <1>1, <1>3, <1>4, <1>6
  <2> QED
    BY ONLY <2>1, s \in Sessions, Answers
<1>11. Numbered'
  BY <1>1, <1>2, <1>4, <1>5, <1>6, <1>10 DEF JInv, Ways, Numbered, Numbers
<1>12. Begins'
  BY <1>4, <1>7 DEF JInv, Ways, Begins
<1>13. Joining'
  <2>1. ASSUME session # 0
        PROVE  /\ \A y \in ToSet(up'[session]) : y.kind = "deployed" => y \in ToSet(up[session])
               /\ \A j : /\ Times(up'[session], "deployed", j) <= Times(up[session], "deployed", j)
                         /\ Times(down'[session], "connect", j) <= Times(down[session], "connect", j)
                         /\ Times(up'[session], "connected", j) <= Times(up[session], "connected", j)
    <3>0. session \in Sessions
      BY <2>1, SessionThere
    <3>1. \A y \in ToSet(up'[session]) : y.kind = "deployed" => y \in ToSet(up[session])
      BY <1>6, <1>10, <3>0
    <3>2. ASSUME NEW j
          PROVE  /\ Times(up'[session], "deployed", j) <= Times(up[session], "deployed", j)
                 /\ Times(down'[session], "connect", j) <= Times(down[session], "connect", j)
                 /\ Times(up'[session], "connected", j) <= Times(up[session], "connected", j)
      <4> DEFINE d == Times(up[session], "deployed", j)   d1 == Times(up'[session], "deployed", j)
                 c == Times(down[session], "connect", j)  c1 == Times(down'[session], "connect", j)
                 e == Times(up[session], "connected", j)  e1 == Times(up'[session], "connected", j)
      <4>1. d \in Nat /\ d1 \in Nat /\ c \in Nat /\ c1 \in Nat /\ e \in Nat /\ e1 \in Nat
        BY <3>0, TimesFit, TimesFitNext DEF IInv, QInv
      <4>2. Fits(m, "deployed", j) = 0 /\ Fits(m, "connected", j) = 0 /\ Fits(x, "connect", j) = 0
        BY <1>4, <1>6 DEF Fits
      <4>3. d1 = d \/ d1 = d + 0
        BY <1>10, <3>0, <4>2
      <4>4. e1 = e \/ e1 = e + 0
        BY <1>10, <3>0, <4>2
      <4>5. c1 = c \/ c = c1 + 0
        BY <1>4, <3>0, <4>2 DEF Drops
      <4> HIDE DEF d, d1, c, c1, e, e1
      <4>6. d1 <= d /\ c1 <= c /\ e1 <= e
        BY <4>1, <4>3, <4>4, <4>5
      <4> QED
        BY <4>6 DEF d, d1, c, c1, e, e1
    <3> QED
      BY <3>1, <3>2
  <2> QED
    BY <1>1, <1>2, <2>1, NoMoreJoins DEF JInv, Ways
<1>14. LInv'
  <2> SUFFICES ASSUME Live PROVE (FieldsKnown /\ FieldsTold /\ DeployedRight /\ DeployRight
                                    /\ ConnectRight /\ Gone /\ BeginRight /\ BegunRight)'
    BY <1>1, <1>2 DEF LInv, Live
  <2>0. /\ FieldsKnown /\ FieldsTold /\ DeployedRight /\ DeployRight
        /\ ConnectRight /\ Gone /\ BeginRight /\ BegunRight
    BY DEF JInv, Ways, LInv
  <2>1. /\ session \in Sessions /\ session # 0
        /\ ToSet(down'[session]) \subseteq ToSet(down[session])
        /\ ToSet(up[session]) \subseteq ToSet(up'[session])
        /\ \A y \in ToSet(up'[session]) : y \in ToSet(up[session]) \/ (y = m /\ s = session)
    BY <1>4, <1>10, SessionThere DEF Live
  <2>2. FieldsKnown' /\ FieldsTold'
    BY <1>2, <1>7, <2>0, <2>1 DEF FieldsKnown, FieldsTold, Has
  <2>3. s # session /\ k \in DOMAIN fields => fields[k].session # session
    BY <1>4, <1>5, <2>1 DEF JInv, Ways, Begins
  <2>4. DeployedRight'
    <3> SUFFICES ASSUME NEW y \in ToSet(up'[session]), y.kind = "deployed"
                 PROVE  /\ y.host \in DOMAIN combats
                        /\ y.combat # None =>
                             /\ y.combat \in DOMAIN fields'
                             /\ fields'[y.combat].session = session /\ ~fields'[y.combat].begun
                             /\ fields'[y.combat].roles = RolesOf(y.host)
      BY <1>2 DEF DeployedRight, RolesOf
    <3>1. y \in ToSet(up[session])
      BY <1>6, <2>1
    <3>2. /\ y.host \in DOMAIN combats
          /\ y.combat # None =>
               /\ y.combat \in DOMAIN fields
               /\ fields[y.combat].session = session /\ ~fields[y.combat].begun
               /\ fields[y.combat].roles = RolesOf(y.host)
      BY <2>0, <3>1 DEF DeployedRight
    <3>3. y.combat = k /\ k \in DOMAIN fields => s # session
      BY <1>4, <1>5, <2>0, <3>1 DEF BeginRight, Has
    <3>4. y.combat # None => y.combat # k
      BY <2>3, <3>2, <3>3
    <3> QED
      BY <1>7, <3>2, <3>4
  <2>5. DeployRight'
    BY <1>2, <2>0, <2>1 DEF DeployRight
  <2>6. ConnectRight'
    BY <1>2, <1>7, <2>0, <2>1 DEF ConnectRight
  <2>7. Gone'
    BY <1>2, <1>6, <1>7, <2>0, <2>1 DEF Gone
  <2>8. BeginRight'
    BY <1>2, <1>6, <2>0, <2>1 DEF BeginRight, Has
  <2>9. BegunRight'
    <3> SUFFICES ASSUME NEW j \in DOMAIN byArgent \intersect DOMAIN fields, fields'[j].begun
                 PROVE  combats[byArgent[j]].connected = 2
      BY <1>2, <1>7 DEF BegunRight
    <3>1. CASE j # k
      BY <1>7, <2>0, <3>1 DEF BegunRight
    <3>2. CASE j = k /\ s = session
      BY <1>4, <1>5, <2>0, <3>2 DEF BeginRight
    <3>3. CASE j = k /\ s # session
      BY <2>0, <2>3, <3>3 DEF FieldsKnown, Gone, Has
    <3> QED
      BY <3>1, <3>2, <3>3
  <2> QED
    BY <2>2, <2>4, <2>5, <2>6, <2>7, <2>8, <2>9
<1> QED
  BY <1>2, <1>8, <1>9, <1>11, <1>12, <1>13, <1>14 DEF JInv, Ends, Ways

LEMMA ServerClosedJoint ==
  ASSUME IInv, IInv', JInv, NEW s \in Sessions, OnServerClosed(s), UNCHANGED gatewayVars
  PROVE  JInv'
<1> DEFINE x == Head(down[s])
<1>1. /\ Received(down, s, "close") /\ down' = Taken(down, s)
      /\ UNCHANGED <<allocated, conn, up>> /\ DeleteSession(s)
      /\ sessionFields' = [sessionFields EXCEPT ![s] = {}]
  BY DEF OnServerClosed, Takes, Taken
<1>2. Named' /\ KeyBack' /\ UNCHANGED <<session, combats, byArgent, argent, made>>
  BY OthersKept
<1>3. Connections
  BY DEF JInv, Ends
<1>4. /\ x.kind = "close" /\ x \in DownMessage(made) /\ x \in ToSet(down[s]) /\ down[s] # <<>>
      /\ \A t \in Sessions : t # s => down'[t] = down[t]
      /\ \A t \in Sessions : ToSet(down'[t]) \subseteq ToSet(down[t])
      /\ Drops(down[s], down'[s], x)
  BY <1>1, <1>3, Asked
<1>5. Live => s # session
  <2>1. x = Ended
    BY <1>4 DEF DownMessage, Ended
  <2> QED
    BY <1>3, <1>4, <2>1 DEF Connections, Live
<1> HIDE DEF x
<1>6. sessionFields \in [Sessions -> SUBSET (1..allocated)] /\ \A t \in Sessions : sessionFields[t] \subseteq DOMAIN fields
  BY DEF IInv, SInv, ServerType, ServerPointers
<1>7. /\ DOMAIN fields' = DOMAIN fields
      /\ \A f \in DOMAIN fields :
           /\ fields'[f].roles = fields[f].roles /\ fields'[f].begun = fields[f].begun
           /\ f \in sessionFields[s] => fields[f].session = s /\ fields'[f].session = 0
           /\ f \notin sessionFields[s] => fields'[f] = fields[f]
  <2>1. /\ DOMAIN fields' = DOMAIN fields
        /\ \A f \in DOMAIN fields :
             fields'[f] = IF f \in sessionFields[s] THEN [fields[f] EXCEPT !.session = 0] ELSE fields[f]
    BY <1>1 DEF DeleteSession
  <2>2. ASSUME NEW f \in DOMAIN fields
        PROVE  /\ fields'[f].roles = fields[f].roles /\ fields'[f].begun = fields[f].begun
               /\ f \in sessionFields[s] => fields[f].session = s /\ fields'[f].session = 0
               /\ f \notin sessionFields[s] => fields'[f] = fields[f]
    <3>1. CASE f \in sessionFields[s]
      <4> DEFINE old == fields[f]  new == fields'[f]
      <4>1. old \in FieldType /\ new = [old EXCEPT !.session = 0]
        BY <2>1, <3>1 DEF IInv, SInv, FieldsPaired
      <4>2. old.session = s
        BY <1>6, <3>1 DEF JInv, Ends, Owned
      <4> HIDE DEF old, new
      <4>3. new.roles = old.roles /\ new.begun = old.begun /\ new.session = 0
        BY <4>1 DEF FieldType
      <4> QED
        BY <3>1, <4>2, <4>3 DEF old, new
    <3>2. CASE f \notin sessionFields[s]
      BY <2>1, <3>2
    <3> QED
      BY <3>1, <3>2
  <2> QED
    BY <2>1, <2>2
<1>8. \A r \in Roles : role'[r].session \in {0, role[r].session}
  <2>1. role \in [Roles -> [session : Sessions \union {0}, field : 0..allocated]]
    BY DEF IInv, SInv, ServerType
  <2>2. ASSUME NEW r \in Roles PROVE role'[r].session \in {0, role[r].session}
    <3>1. role'[r] = IF r \in sessionRoles[s] THEN [role[r] EXCEPT !.session = 0] ELSE role[r]
      BY <1>1 DEF DeleteSession
    <3> QED
      BY <2>1, <3>1
  <2> QED
    BY <2>2
<1>9. Connections'
  <2>1. ASSUME NEW t \in Sessions, Unseen(t) PROVE Unseen(t)'
    <3>1. t # 0
      BY DEF Sessions
    <3> QED
      BY <1>7, <1>8, <2>1, <3>1 DEF Unseen
  <2> QED
    BY <1>1, <1>2, <1>3, <1>4, <2>1, ServerConnections
<1>10. Owned'
  <2>1. ASSUME NEW t \in Sessions, NEW f \in sessionFields'[t] PROVE fields'[f].session = t
    <3>1. t # s /\ f \in sessionFields[t]
      BY <1>1, <1>6, <2>1
    <3>2. f \in DOMAIN fields /\ fields[f].session = t
      BY <1>6, <3>1 DEF JInv, Ends, Owned
    <3> QED
      BY <1>7, <3>1, <3>2
  <2> QED
    BY <2>1 DEF Owned
<1>11. Numbered'
  BY <1>1, <1>2, <1>4 DEF JInv, Ways, Numbered, Numbers
<1>12. Begins'
  BY <1>4, <1>7 DEF JInv, Ways, Begins
<1>13. Joining'
  <2>1. ASSUME session # 0, NEW j
        PROVE  /\ Times(up'[session], "deployed", j) <= Times(up[session], "deployed", j)
               /\ Times(down'[session], "connect", j) <= Times(down[session], "connect", j)
               /\ Times(up'[session], "connected", j) <= Times(up[session], "connected", j)
    <3> DEFINE d == Times(up[session], "deployed", j)   d1 == Times(up'[session], "deployed", j)
               c == Times(down[session], "connect", j)  c1 == Times(down'[session], "connect", j)
               e == Times(up[session], "connected", j)  e1 == Times(up'[session], "connected", j)
    <3>0. session \in Sessions
      BY <2>1, SessionThere
    <3>1. d \in Nat /\ d1 \in Nat /\ c \in Nat /\ c1 \in Nat /\ e \in Nat /\ e1 \in Nat
      BY <3>0, TimesFit, TimesFitNext DEF IInv, QInv
    <3>2. Fits(x, "connect", j) = 0
      BY <1>4 DEF Fits
    <3>3. d1 = d /\ e1 = e
      BY <1>1, <1>2
    <3>4. c1 = c \/ c = c1 + 0
      BY <1>4, <3>0, <3>2 DEF Drops
    <3> HIDE DEF d, d1, c, c1, e, e1
    <3>5. d1 <= d /\ c1 <= c /\ e1 <= e
      BY <3>1, <3>3, <3>4
    <3> QED
      BY <3>5 DEF d, d1, c, c1, e, e1
  <2> QED
    BY <1>1, <1>2, <2>1, NoMoreJoins DEF JInv, Ways
<1>14. LInv'
  <2> SUFFICES ASSUME Live PROVE (FieldsKnown /\ FieldsTold /\ DeployedRight /\ DeployRight
                                    /\ ConnectRight /\ Gone /\ BeginRight /\ BegunRight)'
    BY <1>1, <1>2 DEF LInv, Live
  <2>0. /\ FieldsKnown /\ FieldsTold /\ DeployedRight /\ DeployRight
        /\ ConnectRight /\ Gone /\ BeginRight /\ BegunRight
    BY DEF JInv, Ways, LInv
  <2>1. /\ session \in Sessions /\ session # 0 /\ s # session
        /\ down'[session] = down[session] /\ up'[session] = up[session]
    BY <1>1, <1>4, <1>5, SessionThere DEF Live
  <2>2. \A f \in DOMAIN fields : fields'[f].session = session <=> fields[f].session = session
    BY <1>7, <2>1
  <2>3. FieldsKnown' /\ FieldsTold'
    BY <1>2, <1>7, <2>0, <2>1, <2>2 DEF FieldsKnown, FieldsTold, Has
  <2>4. DeployedRight' /\ DeployRight'
    BY <1>2, <1>7, <2>0, <2>1, <2>2 DEF DeployedRight, DeployRight, RolesOf
  <2>5. ConnectRight' /\ Gone' /\ BeginRight'
    BY <1>2, <1>7, <2>0, <2>1 DEF ConnectRight, Gone, BeginRight, Has
  <2>6. BegunRight'
    BY <1>2, <1>7, <2>0 DEF BegunRight
  <2> QED
    BY <2>3, <2>4, <2>5, <2>6
<1> QED
  BY <1>2, <1>9, <1>10, <1>11, <1>12, <1>13, <1>14 DEF JInv, Ends, Ways

LEMMA SettleJoint ==
  ASSUME IInv, IInv', JInv, NEW f \in DOMAIN fields, OnRequireCombatSettle(f), UNCHANGED gatewayVars
  PROVE  JInv'
<1> DEFINE s == fields[f].session  m == [kind |-> "settlement", combat |-> f]
<1>1. /\ fields[f].begun /\ RemoveField(f)
      /\ UNCHANGED <<allocated, role, conn, down>>
      /\ sessionFields' = [t \in Sessions |-> sessionFields[t] \ {f}]
  BY DEF OnRequireCombatSettle, Finalize
<1>2. Named' /\ KeyBack' /\ UNCHANGED <<session, combats, byArgent, argent, made>>
  BY OthersKept
<1>3. Connections
  BY DEF JInv, Ends
<1>4. /\ DOMAIN fields' = DOMAIN fields \ {f}
      /\ \A g \in DOMAIN fields' : fields'[g] = fields[g]
  BY <1>1 DEF RemoveField, Restrict
<1>5. f \in Numbers /\ s \in Sessions \union {0}
  BY DEF IInv, SInv, ServerType, Numbers
<1>6. m \in UpMessage(made) /\ m.kind = "settlement" /\ m.combat = f /\ m.kind \notin {"open", "close"}
  <2>1. f \in Keys
    BY <1>5 DEF Keys, Numbers, IInv, SInv, FieldsPaired
  <2> QED
    BY <2>1, UpMessages
<1>7. s # 0 => s \in Sessions /\ Heard(s)
  <2> SUFFICES ASSUME s # 0 PROVE s \in Sessions /\ Heard(s)
    OBVIOUS
  <2>1. s \in Sessions
    BY <1>5
  <2>2. ~Unseen(s)
    BY DEF Unseen
  <2>3. ~(s > Current \/ (s = Current /\ Unheard))
    BY <1>3, <2>1, <2>2 DEF Connections
  <2>4. s < Current \/ (s = Current /\ ~Unheard)
    <3>1. s \in Nat /\ Current \in Nat
      BY <1>3, <2>1 DEF Connections, Sessions
    <3> HIDE DEF s
    <3> QED
      BY <2>3, <3>1
  <2> QED
    BY <2>1, <2>4 DEF Heard
<1>8. /\ s = 0 => UNCHANGED up
      /\ s # 0 => SendUp(s, <<m>>)
  BY DEF OnRequireCombatSettle, SendSettlement
<1> HIDE DEF m, s
<1>9. /\ \A t \in Sessions : \/ up'[t] = up[t]
                             \/ t = Current /\ ~Unheard /\ Opened \notin ToSet(up'[t])
      /\ \A t \in Sessions : ToSet(up[t]) \subseteq ToSet(up'[t])
      /\ \A t \in Sessions : \A y \in ToSet(up'[t]) : y \in ToSet(up[t]) \/ (y = m /\ t = s)
      /\ s # 0 /\ conn[s] = "up" => m \in ToSet(up'[s])
      /\ \A t \in Sessions, kind \in {"deployed", "connected"} : \A j :
           \/ Times(up'[t], kind, j) = Times(up[t], kind, j)
           \/ Times(up'[t], kind, j) = Times(up[t], kind, j) + 0
  <2>1. CASE s = 0
    BY <1>8, <2>1
  <2>2. CASE s # 0
    <3>1. /\ \A t \in Sessions : \/ up'[t] = up[t]
                                 \/ t = Current /\ ~Unheard /\ Opened \notin ToSet(up'[t])
          /\ \A t \in Sessions : t # s => up'[t] = up[t]
          /\ ToSet(up[s]) \subseteq ToSet(up'[s])
          /\ ToSet(up'[s]) \subseteq ToSet(up[s]) \union {m}
          /\ conn[s] = "up" => m \in ToSet(up'[s])
          /\ \A kind, j : \/ Times(up'[s], kind, j) = Times(up[s], kind, j)
                          \/ Times(up'[s], kind, j) = Times(up[s], kind, j) + Fits(m, kind, j)
      <4>1. /\ IInv /\ Connections /\ s \in Sessions /\ Heard(s)
            /\ m \in UpMessage(made) /\ m.kind \notin {"open", "close"} /\ SendUp(s, <<m>>)
        BY <1>3, <1>6, <1>7, <1>8, <2>2
      <4> QED
        BY ONLY <4>1, Answers
    <3>2. \A kind \in {"deployed", "connected"} : \A j : Fits(m, kind, j) = 0
      BY <1>6 DEF Fits
    <3>3. ASSUME NEW t \in Sessions, NEW kind \in {"deployed", "connected"}, NEW j
          PROVE  \/ Times(up'[t], kind, j) = Times(up[t], kind, j)
                 \/ Times(up'[t], kind, j) = Times(up[t], kind, j) + 0
      BY <3>1, <3>2
    <3>4. ASSUME NEW t \in Sessions
          PROVE  /\ ToSet(up[t]) \subseteq ToSet(up'[t])
                 /\ \A y \in ToSet(up'[t]) : y \in ToSet(up[t]) \/ (y = m /\ t = s)
      BY <3>1
    <3> QED
      BY <3>1, <3>3, <3>4
  <2> QED
    BY <2>1, <2>2
<1>10. Connections'
  <2>1. \A t \in Sessions : Unseen(t) => Unseen(t)'
    BY <1>1, <1>4 DEF Unseen
  <2> QED
    BY <1>1, <1>2, <1>3, <1>9, <2>1, ServerConnections
<1>11. Owned'
  <2>1. \A t \in Sessions : sessionFields[t] \subseteq DOMAIN fields
    BY DEF IInv, SInv, ServerPointers
  <2> QED
    BY <1>1, <1>4, <2>1 DEF JInv, Ends, Owned
<1>12. Numbered'
  BY <1>1, <1>2, <1>5, <1>6, <1>9 DEF JInv, Ways, Numbered, Numbers
<1>13. Begins'
  BY <1>1, <1>4 DEF JInv, Ways, Begins
<1>14. Joining'
  <2>1. ASSUME session # 0
        PROVE  /\ \A y \in ToSet(up'[session]) : y.kind = "deployed" => y \in ToSet(up[session])
               /\ \A j : /\ Times(up'[session], "deployed", j) <= Times(up[session], "deployed", j)
                         /\ Times(down'[session], "connect", j) <= Times(down[session], "connect", j)
                         /\ Times(up'[session], "connected", j) <= Times(up[session], "connected", j)
    <3>0. session \in Sessions
      BY <2>1, SessionThere
    <3>1. \A y \in ToSet(up'[session]) : y.kind = "deployed" => y \in ToSet(up[session])
      BY <1>6, <1>9, <3>0
    <3>2. ASSUME NEW j
          PROVE  /\ Times(up'[session], "deployed", j) <= Times(up[session], "deployed", j)
                 /\ Times(down'[session], "connect", j) <= Times(down[session], "connect", j)
                 /\ Times(up'[session], "connected", j) <= Times(up[session], "connected", j)
      <4> DEFINE d == Times(up[session], "deployed", j)   d1 == Times(up'[session], "deployed", j)
                 c == Times(down[session], "connect", j)  c1 == Times(down'[session], "connect", j)
                 e == Times(up[session], "connected", j)  e1 == Times(up'[session], "connected", j)
      <4>1. d \in Nat /\ d1 \in Nat /\ c \in Nat /\ c1 \in Nat /\ e \in Nat /\ e1 \in Nat
        BY <3>0, TimesFit, TimesFitNext DEF IInv, QInv
      <4>2. c1 = c
        BY <1>1
      <4>3. (d1 = d \/ d1 = d + 0) /\ (e1 = e \/ e1 = e + 0)
        BY <1>9, <3>0
      <4> HIDE DEF d, d1, c, c1, e, e1
      <4>4. d1 <= d /\ c1 <= c /\ e1 <= e
        BY <4>1, <4>2, <4>3
      <4> QED
        BY <4>4 DEF d, d1, c, c1, e, e1
    <3> QED
      BY <3>1, <3>2
  <2> QED
    BY <1>1, <1>2, <2>1, NoMoreJoins DEF JInv, Ways
<1>15. LInv'
  <2> SUFFICES ASSUME Live PROVE (FieldsKnown /\ FieldsTold /\ DeployedRight /\ DeployRight
                                    /\ ConnectRight /\ Gone /\ BeginRight /\ BegunRight)'
    BY <1>1, <1>2 DEF LInv, Live
  <2>0. /\ FieldsKnown /\ FieldsTold /\ DeployedRight /\ DeployRight
        /\ ConnectRight /\ Gone /\ BeginRight /\ BegunRight
    BY DEF JInv, Ways, LInv
  <2>1. /\ session \in Sessions
        /\ ToSet(up[session]) \subseteq ToSet(up'[session])
        /\ \A y \in ToSet(up'[session]) : y \in ToSet(up[session]) \/ y = m
        /\ s = session => m \in ToSet(up'[session])
    BY <1>9, SessionThere DEF Live
  <2>2. FieldsKnown'
    <3> SUFFICES ASSUME NEW k \in DOMAIN byArgent, ~(k \in DOMAIN fields' /\ fields'[k].session = session)
                 PROVE  \E y \in ToSet(up'[session]) : y.kind = "settlement" /\ y.combat = k
      BY <1>2 DEF FieldsKnown, Has
    <3>1. CASE k = f /\ s = session
      BY <1>6, <2>1, <3>1
    <3>2. CASE ~(k = f /\ s = session)
      <4>1. ~(k \in DOMAIN fields /\ fields[k].session = session)
        BY <1>4, <3>2 DEF s
      <4>2. PICK y \in ToSet(up[session]) : y.kind = "settlement" /\ y.combat = k
        BY <2>0, <4>1 DEF FieldsKnown, Has
      <4> QED
        BY <2>1, <4>2
    <3> QED
      BY <3>1, <3>2
  <2>3. FieldsTold'
    BY <1>2, <1>4, <2>0, <2>1 DEF FieldsTold, Has
  <2>4. DeployedRight'
    <3> SUFFICES ASSUME NEW y \in ToSet(up'[session]), y.kind = "deployed"
                 PROVE  /\ y.host \in DOMAIN combats
                        /\ y.combat # None =>
                             /\ y.combat \in DOMAIN fields'
                             /\ fields'[y.combat].session = session /\ ~fields'[y.combat].begun
                             /\ fields'[y.combat].roles = RolesOf(y.host)
      BY <1>2 DEF DeployedRight, RolesOf
    <3>1. y \in ToSet(up[session])
      BY <1>6, <2>1
    <3>2. /\ y.host \in DOMAIN combats
          /\ y.combat # None =>
               /\ y.combat \in DOMAIN fields
               /\ fields[y.combat].session = session /\ ~fields[y.combat].begun
               /\ fields[y.combat].roles = RolesOf(y.host)
      BY <2>0, <3>1 DEF DeployedRight
    <3> QED
      BY <1>1, <1>4, <3>2
  <2>5. DeployRight'
    BY <1>1, <1>2, <2>0 DEF DeployRight
  <2>6. ConnectRight'
    BY <1>1, <1>2, <1>4, <2>0 DEF ConnectRight
  <2>7. Gone'
    BY <1>2, <1>4, <1>6, <2>0, <2>1 DEF Gone
  <2>8. BeginRight'
    BY <1>1, <1>2, <1>6, <2>0, <2>1 DEF BeginRight, Has
  <2>9. BegunRight'
    BY <1>2, <1>4, <2>0 DEF BegunRight
  <2> QED
    BY <2>2, <2>3, <2>4, <2>5, <2>6, <2>7, <2>8, <2>9
<1> QED
  BY <1>2, <1>10, <1>11, <1>12, <1>13, <1>14, <1>15 DEF JInv, Ends, Ways

\* The roles that are set up or finalized have no session.
LEMMA RoleSessions ==
  ASSUME SInv, NEW first \in Roles, NEW second \in Roles, NEW a, NEW b, a.session = 0, b.session = 0,
         role' = [role EXCEPT ![first] = a] \/ role' = [role EXCEPT ![first] = a, ![second] = b]
  PROVE  \A r \in Roles : role'[r].session \in {0, role[r].session}
<1>1. DOMAIN role = Roles
  BY DEF SInv, ServerType
<1>2. ASSUME NEW r \in Roles PROVE role'[r] \in {a, b, role[r]}
  BY <1>1
<1> QED
  BY <1>2

LEMMA DeployOutcome ==
  ASSUME IInv, NEW s \in Sessions, OnMessageCombatDeployRequest(s), NEW x, x = Head(down[s])
  PROVE  /\ Received(down, s, "deploy") /\ down' = Taken(down, s)
         /\ allocated' = allocated + 1 /\ UNCHANGED conn
         /\ \A r \in Roles : role'[r].session \in {0, role[r].session}
         /\ \/ SendUp(s, Deployed(x.host, NoField)) /\ UNCHANGED <<fields, sessionFields>>
            \/ /\ SendUp(s, Deployed(x.host, allocated'))
               /\ AddField(allocated', NewField(s, {x.left, x.right}))
               /\ sessionFields' = [sessionFields EXCEPT ![s] = sessionFields[s] \union {allocated'}]
<1> DEFINE first == pool[1]  second == pool[2]
<1>1. /\ Received(down, s, "deploy") /\ down' = Taken(down, s)
      /\ allocated' = allocated + 1 /\ UNCHANGED conn /\ Len(pool) >= 2
  BY DEF OnMessageCombatDeployRequest, Takes, Taken
<1>2. \/ /\ role' = [role EXCEPT ![first] = FinalizedRole]
         /\ SendUp(s, Deployed(x.host, NoField))
         /\ UNCHANGED <<fields, sessionFields>>
      \/ /\ role' = [role EXCEPT ![first] = FreshRole(allocated'), ![second] = FinalizedRole]
         /\ SendUp(s, Deployed(x.host, NoField))
         /\ UNCHANGED <<fields, sessionFields>>
      \/ /\ role' = [role EXCEPT ![first] = FreshRole(allocated'), ![second] = FreshRole(allocated')]
         /\ AddField(allocated', NewField(s, {x.left, x.right}))
         /\ sessionFields' = [sessionFields EXCEPT ![s] = sessionFields[s] \union {allocated'}]
         /\ SendUp(s, Deployed(x.host, allocated'))
  BY DEF OnMessageCombatDeployRequest
<1>3. first \in Roles /\ second \in Roles
  BY <1>1, PoolHas DEF IInv, SInv, ServerType
<1>4. FinalizedRole.session = 0 /\ FreshRole(allocated').session = 0
  BY DEF FinalizedRole, FreshRole
<1> HIDE DEF first, second
<1>5. \A r \in Roles : role'[r].session \in {0, role[r].session}
  <2> DEFINE a == FreshRole(allocated')  b == FinalizedRole
  <2>1. a.session = 0 /\ b.session = 0
    BY <1>4
  <2>2. \/ role' = [role EXCEPT ![first] = b]
        \/ role' = [role EXCEPT ![first] = a, ![second] = b]
        \/ role' = [role EXCEPT ![first] = a, ![second] = a]
    BY <1>2
  <2> HIDE DEF a, b
  <2>3. CASE role' = [role EXCEPT ![first] = b]
    BY <1>3, <2>1, <2>3, RoleSessions DEF IInv
  <2>4. CASE role' = [role EXCEPT ![first] = a, ![second] = b]
    BY <1>3, <2>1, <2>4, RoleSessions DEF IInv
  <2>5. CASE role' = [role EXCEPT ![first] = a, ![second] = a]
    BY <1>3, <2>1, <2>5, RoleSessions DEF IInv
  <2> QED
    BY <2>2, <2>3, <2>4, <2>5
<1> QED
  BY <1>1, <1>2, <1>5

LEMMA DeployServed ==
  ASSUME IInv, IInv', JInv, NEW s \in Sessions, OnMessageCombatDeployRequest(s), UNCHANGED gatewayVars
  PROVE  JInv'
<1> DEFINE x == Head(down[s])  g == allocated'
<1>1. /\ Received(down, s, "deploy") /\ down' = Taken(down, s)
      /\ g = allocated + 1 /\ UNCHANGED conn
      /\ \A r \in Roles : role'[r].session \in {0, role[r].session}
      /\ \/ SendUp(s, Deployed(x.host, NoField)) /\ UNCHANGED <<fields, sessionFields>>
         \/ /\ SendUp(s, Deployed(x.host, g))
            /\ AddField(g, NewField(s, {x.left, x.right}))
            /\ sessionFields' = [sessionFields EXCEPT ![s] = sessionFields[s] \union {g}]
  BY DeployOutcome
<1>2. Named' /\ KeyBack' /\ UNCHANGED <<session, combats, byArgent, argent, made>>
  BY OthersKept
<1>3. Connections
  BY DEF JInv, Ends
<1>4. /\ x.kind = "deploy" /\ x \in DownMessage(made) /\ x \in ToSet(down[s]) /\ down[s] # <<>> /\ Heard(s)
      /\ \A t \in Sessions : t # s => down'[t] = down[t]
      /\ \A t \in Sessions : ToSet(down'[t]) \subseteq ToSet(down[t])
      /\ Drops(down[s], down'[s], x)
  BY <1>1, <1>3, Asked
<1>5. /\ x.host \in 1..made /\ allocated \in Nat /\ g \in Nat /\ g \notin Numbers
      /\ DOMAIN fields \subseteq Numbers /\ Numbers' = Numbers \union {g}
      /\ sessionFields \in [Sessions -> SUBSET (1..allocated)]
      /\ \A t \in Sessions : sessionFields[t] \subseteq DOMAIN fields
  <2>1. x.host \in 1..made
    BY <1>4, DownMessages
  <2>2. /\ allocated \in Nat /\ DOMAIN fields \subseteq Numbers
        /\ sessionFields \in [Sessions -> SUBSET (1..allocated)]
        /\ \A t \in Sessions : sessionFields[t] \subseteq DOMAIN fields
    BY DEF IInv, SInv, ServerType, ServerPointers, FieldsPaired, Numbers
  <2>3. g \in Nat /\ g \notin Numbers /\ Numbers' = Numbers \union {g}
    BY <1>1, <2>2 DEF Numbers
  <2> QED
    BY <2>1, <2>2, <2>3
<1> HIDE DEF x, g
<1>6. PICK c \in {None, g} :
        /\ SendUp(s, Deployed(x.host, c))
        /\ \/ c = None /\ UNCHANGED <<fields, sessionFields>>
           \/ /\ c = g /\ AddField(g, NewField(s, {x.left, x.right}))
              /\ sessionFields' = [sessionFields EXCEPT ![s] = sessionFields[s] \union {g}]
  BY <1>1, AnswerAssumption
<1>7. c \in Keys /\ c \notin Numbers /\ None \notin Numbers
  BY <1>5, AnswerAssumption DEF Keys, Numbers
<1> DEFINE m == [kind |-> "deployed", host |-> x.host, combat |-> c]
<1>8. /\ m \in UpMessage(made) /\ m.kind = "deployed" /\ m.host = x.host /\ m.combat = c
      /\ m.kind \notin {"open", "close"} /\ SendUp(s, <<m>>)
  BY <1>5, <1>6, <1>7, UpMessages DEF Deployed
<1> HIDE DEF m
<1>9. /\ \A f \in DOMAIN fields : f \in DOMAIN fields' /\ fields'[f] = fields[f]
      /\ \A f \in DOMAIN fields' : f \in DOMAIN fields \/ (f = g /\ c = g)
      /\ c = g => /\ g \in DOMAIN fields' /\ fields'[g].session = s
                  /\ ~fields'[g].begun /\ fields'[g].roles = {x.left, x.right}
  <2>1. CASE c = None
    BY <1>5, <1>6, <2>1, AnswerAssumption
  <2>2. CASE c = g
    <3>1. fields' = [f \in DOMAIN fields \union {g} |->
                       IF f = g THEN NewField(s, {x.left, x.right}) ELSE fields[f]]
      BY <1>5, <1>6, <2>2, AnswerAssumption DEF AddField
    <3>2. /\ NewField(s, {x.left, x.right}).session = s /\ ~NewField(s, {x.left, x.right}).begun
          /\ NewField(s, {x.left, x.right}).roles = {x.left, x.right}
      BY DEF NewField
    <3> QED
      BY <1>5, <2>2, <3>1, <3>2
  <2> QED
    BY <1>6, <2>1, <2>2
<1>10. Connections'
  <2>1. \A f \in DOMAIN fields' : \/ fields'[f].session \in {0, s}
                                  \/ f \in DOMAIN fields /\ fields'[f].session = fields[f].session
    BY <1>9
  <2>2. \A r \in Roles : role'[r].session \in {0, s, role[r].session}
    BY <1>1
  <2> QED
    BY <1>1, <1>8, <2>1, <2>2, Handled
<1>11. Owned'
  <2>1. ASSUME NEW t \in Sessions, NEW f \in sessionFields'[t] PROVE fields'[f].session = t
    <3>1. f \in sessionFields[t] \/ (t = s /\ f = g /\ c = g)
      BY <1>5, <1>6, <2>1
    <3>2. f \in sessionFields[t] => f \in DOMAIN fields /\ fields[f].session = t
      BY <1>5 DEF JInv, Ends, Owned
    <3> QED
      BY <1>9, <3>1, <3>2
  <2> QED
    BY <2>1 DEF Owned
<1>12. /\ \A t \in Sessions : t # s => up'[t] = up[t]
       /\ ToSet(up[s]) \subseteq ToSet(up'[s])
       /\ ToSet(up'[s]) \subseteq ToSet(up[s]) \union {m}
       /\ conn[s] = "up" => m \in ToSet(up'[s])
       /\ \A kind, j : \/ Times(up'[s], kind, j) = Times(up[s], kind, j)
                       \/ Times(up'[s], kind, j) = Times(up[s], kind, j) + Fits(m, kind, j)
  <2>1. IInv /\ Connections /\ Heard(s) /\ m \in UpMessage(made) /\ m.kind \notin {"open", "close"} /\ SendUp(s, <<m>>)
    BY <1>3, <1>4, <1>8
  <2> QED
    BY ONLY <2>1, s \in Sessions, Answers
<1>13. /\ Numbered
       /\ \A t \in Sessions : \A y \in ToSet(up'[t]) : y \in ToSet(up[t]) \/ y = m
  BY <1>12 DEF JInv, Ways
<1>14. Numbered'
  <2>1. DOMAIN byArgent' \subseteq Numbers'
    BY <1>2, <1>5, <1>13 DEF Numbered
  <2>2. ASSUME NEW t \in Sessions, NEW y \in ToSet(down'[t]), y.kind \in {"connect", "begin"}
        PROVE  y.combat \in Numbers'
    BY <1>4, <1>5, <1>13, <2>2 DEF Numbered
  <2>3. ASSUME NEW t \in Sessions, NEW y \in ToSet(up'[t])
        PROVE  /\ y.kind \in {"connected", "begun", "settlement"} => y.combat \in Numbers'
               /\ y.kind = "deployed" => y.combat \in Numbers' \/ y.combat = None
    <3>1. CASE y \in ToSet(up[t])
      BY <1>5, <1>13, <3>1 DEF Numbered
    <3>2. CASE y = m
      BY <1>5, <1>6, <1>8, <3>2
    <3> QED
      BY <1>13, <2>3, <3>1, <3>2
  <2> QED
    BY <2>1, <2>2, <2>3 DEF Numbered
<1>15. Begins'
  <2> SUFFICES ASSUME NEW t \in Sessions, NEW y \in ToSet(down'[t]), y.kind = "begin", y.combat \in DOMAIN fields'
               PROVE  fields'[y.combat].session \in {0, t}
    BY DEF Begins
  <2>1. y \in ToSet(down[t])
    BY <1>4
  <2>2. y.combat \in Numbers
    BY <1>13, <2>1 DEF Numbered
  <2>3. y.combat \in DOMAIN fields
    BY <1>5, <1>9, <2>2
  <2> QED
    BY <1>9, <2>1, <2>3 DEF JInv, Ways, Begins
<1>16. Joining'
  <2>1. ASSUME session # 0, NEW j \in Numbers' PROVE Joins(j)' <= 2
    <3>0. session \in Sessions /\ j \in Nat
      BY <1>5, <2>1, SessionThere DEF Numbers
    <3> DEFINE d == Times(up[session], "deployed", j)   d1 == Times(up'[session], "deployed", j)
               e == Times(down[session], "connect", j)  e1 == Times(down'[session], "connect", j)
               h == Times(up[session], "connected", j)  h1 == Times(up'[session], "connected", j)
               n == JoinedOf(j)
    <3>1. d \in Nat /\ d1 \in Nat /\ e \in Nat /\ e1 \in Nat /\ h \in Nat /\ h1 \in Nat /\ n \in Nat
      BY <3>0, TimesFit, TimesFitNext, JoinedNat DEF IInv, QInv
    <3>2. Joins(j)' = 2 * d1 + n + e1 + h1
      BY <1>2 DEF Joins, JoinedOf
    <3>3. Fits(x, "connect", j) = 0 /\ Fits(m, "connected", j) = 0
          /\ Fits(m, "deployed", j) = IF c = j THEN 1 ELSE 0
      BY <1>4, <1>8 DEF Fits
    <3>4. e1 = e \/ e = e1 + 0
      BY <1>4, <3>0, <3>3 DEF Drops
    <3>5. h1 = h \/ h1 = h + 0
      BY <1>12, <3>0, <3>3
    <3>6. d1 = d \/ d1 = d + Fits(m, "deployed", j)
      BY <1>12, <3>0
    <3>7. j # c => d1 = d \/ d1 = d + 0
      BY <3>3, <3>6
    <3>8. j = c => d1 = d \/ d1 = d + 1
      BY <3>3, <3>6
    <3>9. CASE j \in Numbers
      <4>1. j # c /\ 2 * d + n + e + h <= 2
        BY <1>7, <2>1, <3>9 DEF JInv, Ways, Joining, Joins
      <4> HIDE DEF d, d1, e, e1, h, h1, n
      <4>2. 2 * d1 + n + e1 + h1 <= 2
        BY <3>1, <3>4, <3>5, <3>7, <4>1
      <4> QED
        BY <3>2, <4>2
    <3>10. CASE j \notin Numbers
      <4>1. d = 0 /\ e = 0 /\ h = 0 /\ n = 0
        BY <1>13, <3>0, <3>10, NotNumbered DEF IInv, QInv
      <4> HIDE DEF d, d1, e, e1, h, h1, n
      <4>2. d1 <= 1
        BY <3>1, <3>7, <3>8, <4>1
      <4>3. 2 * d1 + n + e1 + h1 <= 2
        BY <3>1, <3>4, <3>5, <4>1, <4>2
      <4> QED
        BY <3>2, <4>3
    <3> QED
      BY <3>9, <3>10
  <2>2. ASSUME session # 0, NEW y \in ToSet(up'[session]), y.kind = "deployed"
        PROVE  y.combat \notin DOMAIN byArgent
    <3>1. CASE y \in ToSet(up[session])
      BY <2>2, <3>1 DEF JInv, Ways, Joining
    <3>2. CASE y = m
      BY <1>7, <1>8, <1>13, <3>2 DEF Numbered
    <3> QED
      BY <1>13, <2>2, <3>1, <3>2, SessionThere
  <2>3. \A id \in DOMAIN combats : combats[id].connected <= 2
    BY DEF JInv, Ways, Joining
  <2> QED
    BY <1>2, <2>1, <2>2, <2>3 DEF Joining
<1>17. LInv'
  <2> SUFFICES ASSUME Live PROVE (FieldsKnown /\ FieldsTold /\ DeployedRight /\ DeployRight
                                    /\ ConnectRight /\ Gone /\ BeginRight /\ BegunRight)'
    BY <1>1, <1>2 DEF LInv, Live
  <2>0. /\ FieldsKnown /\ FieldsTold /\ DeployedRight /\ DeployRight
        /\ ConnectRight /\ Gone /\ BeginRight /\ BegunRight
    BY DEF JInv, Ways, LInv
  <2>1. /\ session \in Sessions
        /\ ToSet(down'[session]) \subseteq ToSet(down[session])
        /\ ToSet(up[session]) \subseteq ToSet(up'[session])
        /\ \A y \in ToSet(up'[session]) : y \in ToSet(up[session]) \/ (y = m /\ s = session)
        /\ s = session => m \in ToSet(up'[session])
    BY <1>4, <1>12, SessionThere DEF Live
  <2>2. FieldsKnown'
    BY <1>2, <1>9, <2>0, <2>1 DEF FieldsKnown, Has
  <2>3. FieldsTold'
    <3> SUFFICES ASSUME NEW f \in DOMAIN fields', fields'[f].session = session, f \notin DOMAIN byArgent
                 PROVE  \E y \in ToSet(up'[session]) : y.kind = "deployed" /\ y.combat = f
      BY <1>2 DEF FieldsTold, Has
    <3>1. CASE f \in DOMAIN fields
      BY <1>9, <2>0, <2>1, <3>1 DEF FieldsTold, Has
    <3>2. CASE f = g /\ c = g
      BY <1>8, <1>9, <2>1, <3>2
    <3> QED
      BY <1>9, <3>1, <3>2
  <2>4. DeployedRight'
    <3> SUFFICES ASSUME NEW y \in ToSet(up'[session]), y.kind = "deployed"
                 PROVE  /\ y.host \in DOMAIN combats
                        /\ y.combat # None =>
                             /\ y.combat \in DOMAIN fields'
                             /\ fields'[y.combat].session = session /\ ~fields'[y.combat].begun
                             /\ fields'[y.combat].roles = RolesOf(y.host)
      BY <1>2 DEF DeployedRight, RolesOf
    <3>1. CASE y \in ToSet(up[session])
      <4>1. /\ y.host \in DOMAIN combats
            /\ y.combat # None =>
                 /\ y.combat \in DOMAIN fields
                 /\ fields[y.combat].session = session /\ ~fields[y.combat].begun
                 /\ fields[y.combat].roles = RolesOf(y.host)
        BY <2>0, <3>1 DEF DeployedRight
      <4> QED
        BY <1>9, <4>1
    <3>2. CASE y = m /\ s = session
      <4>1. /\ x.host \in DOMAIN combats
            /\ x.left = argent[combats[x.host].left] /\ x.right = argent[combats[x.host].right]
        BY <1>4, <2>0, <3>2 DEF DeployRight
      <4>2. c # None => c = g
        BY <1>6
      <4> QED
        BY <1>8, <1>9, <3>2, <4>1, <4>2 DEF RolesOf
    <3> QED
      BY <2>1, <3>1, <3>2
  <2>5. DeployRight'
    BY <1>2, <2>0, <2>1 DEF DeployRight
  <2>6. ConnectRight'
    <3> SUFFICES ASSUME NEW y \in ToSet(down'[session]), y.kind = "connect", y.combat \in DOMAIN fields'
                 PROVE  y.role \in fields'[y.combat].roles
      BY <1>2 DEF ConnectRight
    <3>1. y \in ToSet(down[session]) /\ y.combat \in Numbers
      BY <1>13, <2>1 DEF Numbered
    <3>2. y.combat \in DOMAIN fields
      BY <1>5, <1>9, <3>1
    <3> QED
      BY <1>9, <2>0, <3>1, <3>2 DEF ConnectRight
  <2>7. Gone'
    <3> SUFFICES ASSUME NEW y \in ToSet(up'[session]),
                        y.kind = "settlement" \/ (y.kind \in {"connected", "begun"} /\ ~y.ok)
                 PROVE  y.combat \notin DOMAIN fields'
      BY <1>2 DEF Gone
    <3>1. y \in ToSet(up[session])
      BY <1>8, <2>1
    <3>2. y.combat \in Numbers
      BY <1>13, <2>1, <3>1 DEF Numbered
    <3> QED
      BY <1>5, <1>9, <2>0, <3>1, <3>2 DEF Gone
  <2>8. BeginRight'
    <3> SUFFICES ASSUME NEW y \in ToSet(down'[session]), y.kind = "begin"
                 PROVE  /\ \A z \in ToSet(up'[session]) : ~(z.kind = "deployed" /\ z.combat = y.combat)
                        /\ y.combat \in DOMAIN byArgent => combats[byArgent[y.combat]].connected = 2
      BY <1>2 DEF BeginRight, Has
    <3>1. y \in ToSet(down[session]) /\ y.combat \in Numbers
      BY <1>13, <2>1 DEF Numbered
    <3> QED
      BY <1>7, <1>8, <2>0, <2>1, <3>1 DEF BeginRight, Has
  <2>9. BegunRight'
    <3>1. DOMAIN byArgent \subseteq Numbers
      BY <1>13 DEF Numbered
    <3> QED
      BY <1>2, <1>5, <1>9, <2>0, <3>1 DEF BegunRight
  <2> QED
    BY <2>2, <2>3, <2>4, <2>5, <2>6, <2>7, <2>8, <2>9
<1> QED
  BY <1>2, <1>10, <1>11, <1>14, <1>15, <1>16, <1>17 DEF JInv, Ends, Ways

-----------------------------------------------------------------------------
(* All steps. *)

LEMMA JointStart ==
  ASSUME CombatInit
  PROVE  JInv
<1>1. /\ conn = [t \in Sessions |-> IF t = 1 THEN "connecting" ELSE "unused"]
      /\ \A t \in Sessions : down[t] = <<>> /\ up[t] = <<>>
      /\ online = {} /\ DOMAIN combats = {} /\ DOMAIN byArgent = {} /\ byArgent = NoCombats
      /\ session = 0 /\ DOMAIN fields = {}
      /\ \A t \in Sessions : sessionFields[t] = {}
      /\ \A r \in Roles : role[r].session = 0
  BY DEF CombatInit, LinkInit, GatewayInit, ServerInit, NoCombats
<1>2. /\ 1 \in Sessions /\ conn[1] = "connecting"
      /\ \A t \in Sessions : t > 1 => conn[t] = "unused"
      /\ \A t \in Sessions : t >= 1 /\ t # 0
  BY <1>1, LinkAssumption DEF Sessions
<1>3. Current = 1
  <2> DEFINE P(s) == conn[s] # "unused" /\ \A t \in Sessions : t > s => conn[t] = "unused"
  <2>1. P(1) /\ \A s \in Sessions : P(s) => s = 1
    BY <1>1, <1>2
  <2> QED
    BY <1>2, <2>1 DEF Current
<1>4. \A t \in Sessions : ToSet(down[t]) = {} /\ ToSet(up[t]) = {}
  <2>1. ToSet(<<>>) = {}
    BY DEF ToSet
  <2> QED
    BY <1>1, <2>1
<1>5. Connections
  <2>1. \A t \in Sessions : Unseen(t)
    BY <1>1, <1>2 DEF Unseen
  <2> QED
    <3> DEFINE c == Current
    <3>1. /\ c \in Sessions /\ conn[c] = "connecting"
          /\ \A t \in Sessions : t > c => conn[t] = "unused"
          /\ \A t \in Sessions : ~(t < c)
      BY <1>2, <1>3 DEF Sessions
    <3> HIDE DEF c
    <3> QED
      BY <1>1, <1>4, <2>1, <3>1 DEF Connections, Unheard, c
<1>6. Owned /\ Named /\ KeyBack
  BY <1>1 DEF Owned, Named, KeyBack
<1>7. Numbered /\ Begins
  BY <1>1, <1>4 DEF Numbered, Begins
<1>8. Joining /\ LInv
  BY <1>1 DEF Joining, LInv, Live
<1> QED
  BY <1>5, <1>6, <1>7, <1>8 DEF JInv, Ends, Ways

LEMMA JointIdle ==
  ASSUME IInv, IInv', JInv, UNCHANGED combatVars
  PROVE  JInv'
<1>1. /\ UNCHANGED <<online, argent, combats, byArgent, session>>
      /\ UNCHANGED <<fields, allocated, role, sessionFields>>
      /\ UNCHANGED <<conn, down, up>>
  BY DEF combatVars, gatewayVars, gatewayState, serverVars, linkVars
<1>2. Current' = Current
  BY <1>1 DEF Current
<1>3. Connections'
  <2>1. Unheard' <=> Unheard
    BY <1>1, <1>2 DEF Unheard
  <2>2. \A t \in Sessions : Unseen(t) => Unseen(t)'
    BY <1>1 DEF Unseen
  <2> QED
    BY <1>1, <1>2, <2>1, <2>2 DEF JInv, Ends, Connections
<1>4. Owned' /\ Named' /\ KeyBack'
  BY <1>1 DEF JInv, Ends, Owned, Named, KeyBack
<1>5. Ways'
  <2>1. \A t \in Sessions : Alike(down[t], down'[t]) /\ Alike(up[t], up'[t])
    BY <1>1, AlikeSame DEF IInv, QInv
  <2> QED
    BY <1>1, <2>1, IdleStep DEF JInv
<1> QED
  BY <1>3, <1>4, <1>5 DEF JInv, Ends

LEMMA JointStep ==
  ASSUME IInv, JInv, [CombatNext]_combatVars
  PROVE  JInv'
<1>0. IInv'
  BY CombatStep
<1>1. CASE UNCHANGED combatVars
  BY <1>0, <1>1, JointIdle
<1>2. CASE (Connects \/ Breaks) /\ UNCHANGED <<gatewayVars, serverVars>>
  BY <1>0, <1>2, ConnectsJoint, BreaksJoint
<1>3. CASE GatewayNext /\ UNCHANGED serverVars
  <2>1. ASSUME NEW n \in Names,
               \/ OnMessageLoginRequest(n) \/ OnClose(n)
               \/ OnMessageCombatRequest(n) \/ OnMessageCombatActionRequest(n)
        PROVE  JInv'
    BY <1>0, <1>3, <2>1, LoginJoint, CloseJoint, RequestJoint, ActionJoint
  <2>2. ASSUME NEW s \in Sessions,
               \/ OnMessageCombatDeployResponse(s) \/ OnMessageCombatConnectArgentResponse(s)
               \/ OnMessageCombatBeginResponse(s) \/ OnMessageCombatSettlementSync(s) \/ Forward(s)
        PROVE  JInv'
    BY <1>0, <1>3, <2>2, DeployResponseJoint, ConnectResponseJoint, BeginResponseJoint,
       SettlementJoint, ForwardJoint
  <2>3. ASSUME NEW s \in Sessions, OnSessionConnected(s) \/ OnSessionClosed(s)
        PROVE  JInv'
    BY <1>0, <1>3, <2>3, SessionConnectedJoint, SessionClosedJoint
  <2>4. CASE Restart
    BY <1>0, <1>3, <2>4, RestartJoint
  <2> QED
    BY <1>3, <2>1, <2>2, <2>3, <2>4 DEF GatewayNext, GatewayReceives
<1>4. CASE ServerNext /\ UNCHANGED gatewayVars
  <2>1. ASSUME NEW s \in Sessions, OnServerConnected(s) \/ OnServerClosed(s)
        PROVE  JInv'
    BY <1>0, <1>4, <2>1, ServerConnectedJoint, ServerClosedJoint
  <2>2. ASSUME NEW s \in Sessions,
               \/ OnMessageCombatDeployRequest(s) \/ OnMessageCombatConnectArgentRequest(s)
               \/ OnMessageCombatReconnectRequest(s) \/ OnMessageCombatBeginRequest(s)
               \/ OnMessageCombatArgentRequest(s)
        PROVE  JInv'
    BY <1>0, <1>4, <2>2, DeployServed, ConnectServed, ReconnectServed, BeginServed, ActionServed
  <2>3. ASSUME NEW f \in DOMAIN fields, OnRequireCombatSettle(f)
        PROVE  JInv'
    BY <1>0, <1>4, <2>3, SettleJoint
  <2> QED
    BY <1>4, <2>1, <2>2, <2>3 DEF ServerNext, ServerReceives
<1> QED
  BY <1>1, <1>2, <1>3, <1>4 DEF CombatNext

\* What is on the way is between the two ends.
LEMMA InStepHolds ==
  ASSUME IInv, JInv
  PROVE  InStep
<1>1. ASSUME NEW kind, NEW k
      PROVE  /\ Has(up[session], kind, k) <=> Under(up, session, kind, k)
             /\ Has(down[session], kind, k) <=> Under(down, session, kind, k)
  BY DEF Has, Under, ToSet
<1>2. \A id \in DOMAIN combats : combats[id].connected <= 2
  BY DEF JInv, Ways, Joining
<1>3. ASSUME Live
      PROVE  /\ \A k \in DOMAIN byArgent :
                  \/ k \in DOMAIN fields /\ fields[k].session = session
                  \/ Under(up, session, "settlement", k)
             /\ \A f \in DOMAIN fields : fields[f].session = session =>
                  f \in DOMAIN byArgent \/ Under(up, session, "deployed", f)
             /\ \A k \in DOMAIN byArgent :
                  Under(down, session, "begin", k) \/ (k \in DOMAIN fields /\ fields[k].begun) =>
                    combats[byArgent[k]].connected = 2
  <2>1. FieldsKnown /\ FieldsTold /\ BeginRight /\ BegunRight
    BY <1>3 DEF JInv, Ways, LInv
  <2>2. \A k \in DOMAIN byArgent : Has(down[session], "begin", k) => combats[byArgent[k]].connected = 2
    BY <2>1 DEF BeginRight, Has
  <2>3. \A k \in DOMAIN byArgent : k \in DOMAIN fields /\ fields[k].begun => combats[byArgent[k]].connected = 2
    BY <2>1 DEF BegunRight
  <2> QED
    BY <1>1, <2>1, <2>2, <2>3 DEF FieldsKnown, FieldsTold
<1> QED
  BY <1>2, <1>3 DEF InStep, Live

\* What the gateway, the combat server and the messages between them say of the combats
\* fits together in every state.
THEOREM JointInductive == CombatSpec => [](IInv /\ JInv)
<1>1. CombatInit => IInv /\ JInv
  BY CombatStart, JointStart
<1>2. IInv /\ JInv /\ [CombatNext]_combatVars => IInv' /\ JInv'
  BY CombatStep, JointStep
<1> QED
  BY <1>1, <1>2, PTL DEF CombatSpec

\* As long as the connection of a session lasts, the combats that the gateway has found a
\* number for and the fields of the combat server are the same, up to a settlement or a
\* deployment that is on its way, and none begins before both roles have joined it; no
\* combat is joined more than twice.  That is for every interleaving of the two servers.
THEOREM InStepCorrect == CombatSpec => []InStep
<1>1. IInv /\ JInv => InStep
  BY InStepHolds
<1> QED
  BY <1>1, JointInductive, PTL

=============================================================================
