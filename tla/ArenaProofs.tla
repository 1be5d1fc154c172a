---------------------------- MODULE ArenaProofs ----------------------------
(***************************************************************************)
(* Proofs about the inside of a combat (Battle), for any map of two camps, *)
(* any ways, ranges, points and supplies and any number of warriors; about *)
(* the scenes of the combats and their pool (ScenePool), for any maps and  *)
(* sites; about the robot that plays combats for tests (Robot); and about  *)
(* the path finding (ScenePath), for any searches: it refines AStar.       *)
(***************************************************************************)
EXTENDS Battle, ScenePath, ScenePool, Robot, WellFoundedInduction, FiniteSetTheorems, SequenceTheorems, TLAPS

-----------------------------------------------------------------------------
(* The battle: the inductive invariant. *)

\* A battle as a record of its parts.
IsBattle(s) ==
  s = [warriors |-> s.warriors, autos |-> s.autos, moves |-> s.moves, ids |-> s.ids,
       grid |-> s.grid, roles |-> s.roles, buildings |-> s.buildings, told |-> s.told,
       toldBuildings |-> s.toldBuildings, observers |-> s.observers,
       dispatching |-> s.dispatching, pending |-> s.pending]

WarriorSet == [role : Roles, hp : 0..MaxHp, pos : Walkable]
AutoSet == [status : {"search", "chase", "attack"}, target : 0..MaxId,
            timers : SUBSET {"search", "attack", "refind"}]
ToldSet == [to : Walkable, target : 0..MaxId]
BuildingSet == [camp : Roles, hp : 0..MaxHp, status : {"host", "retrieve"}, targeted : Int]

\* What holds of a battle also in the middle of an event: the types of what the AI works on.
Types(s) ==
  /\ IsBattle(s)
  /\ s.ids \in Len(Sites)..MaxId
  /\ DOMAIN s.warriors \subseteq (Len(Sites) + 1)..s.ids
  /\ s.warriors \in [DOMAIN s.warriors -> WarriorSet]
  /\ s.moves \in [DOMAIN s.warriors -> Seq(Walkable)]
  /\ DOMAIN s.autos \subseteq DOMAIN s.warriors
  /\ s.autos \in [DOMAIN s.autos -> AutoSet]
  /\ s.told \in [DOMAIN s.told -> ToldSet]
  /\ s.buildings \in [Buildings -> BuildingSet]

\* Where a warrior goes, or stands.
Going(s, w) == MovePaths(s, w)[Len(MovePaths(s, w))]

\* The timers of an auto are those of its status.
TimersRight(s, a) ==
  /\ s.autos[a].status = "search" => s.autos[a].timers = {"search"}
  /\ s.autos[a].status = "chase" => s.autos[a].timers \subseteq {"refind"}
  /\ s.autos[a].status = "attack" => s.autos[a].timers = {"attack"}

\* It observes the target it follows, and will go on to.
Watches(s, a) ==
  s.autos[a].status # "search" =>
    /\ s.autos[a].target # a
    /\ <<s.autos[a].target, a>> \in s.observers /\ <<s.autos[a].target, a>> \notin s.pending

\* The players know where it goes and, in an attack, whom it attacks.
ToldRight(s, a) ==
  a \in DOMAIN s.told =>
    /\ s.told[a].to = Going(s, a)
    /\ s.autos[a].status = "attack" => s.told[a].target = s.autos[a].target

AutoKept(s, a) ==
  /\ Watches(s, a) /\ TimersRight(s, a) /\ ToldRight(s, a)
  /\ s.autos[a].status = "attack" => s.moves[a] = << >>

\* Its target is there and of the other camp.
Opposed(s, a) ==
  s.autos[a].status # "search" =>
    /\ Exists(s, s.autos[a].target)
    /\ CampOf(s, s.autos[a].target) # CampOf(s, a)

\* A building counts those who attack it.
Attackers(s, b) == {a \in DOMAIN s.autos : s.autos[a].status = "attack" /\ s.autos[a].target = b}
Counted(s) == \A b \in Buildings : s.buildings[b].targeted = Cardinality(Attackers(s, b))

\* The AI between two events.
AIKept(s) ==
  /\ \A a \in DOMAIN s.autos : AutoKept(s, a) /\ Opposed(s, a)
  /\ Counted(s)
  /\ ~s.dispatching /\ s.pending = {}

\* The players know the buildings.
BuildingsTold(s) ==
  s.toldBuildings = [b \in Buildings |-> [camp |-> s.buildings[b].camp, status |-> s.buildings[b].status]]

\* The books.
RoleSet == [food : 0..FoodMax, supply : Int, kept : Nat, supplyMax : Int, buildingNum : Int]
OfRole(s, r) == {w \in DOMAIN s.warriors : s.warriors[w].role = r}

SupplyRight(s) == \A r \in Roles : s.roles[r].supply - s.roles[r].kept = SupplyNeed * Cardinality(OfRole(s, r))

CampsRight(s) ==
  \A r \in Roles : /\ Owned(s, r) # {}
                   /\ s.roles[r].supplyMax = SupplyAdd * Cardinality(Owned(s, r))
                   /\ s.roles[r].buildingNum = Cardinality(Owned(s, r))

Cells == (0..Width - 1) \X (0..Height - 1)
GridRight(s) ==
  s.grid = [c \in Cells |-> {w \in DOMAIN s.warriors : s.warriors[w].pos = c}]

InOrder(s) ==
  /\ Types(s) /\ AIKept(s) /\ BuildingsTold(s)
  /\ DOMAIN s.autos = DOMAIN s.warriors /\ DOMAIN s.told = DOMAIN s.warriors
  /\ s.roles \in [Roles -> RoleSet]
  /\ SupplyRight(s) /\ CampsRight(s) /\ GridRight(s)

BattleKept(s) == InOrder(s) /\ \A w \in DOMAIN s.warriors : s.warriors[w].hp > 0

BattleInv ==
  IF Begun THEN BattleKept(battle)
  ELSE battle = [supply |-> battle.supply] /\ battle.supply \in [Roles -> Nat]

-----------------------------------------------------------------------------
(* What the assumptions and the types say of numbers. *)

LEMMA Sizes ==
  /\ Len(Sites) \in Nat /\ Buildings = 1..Len(Sites) /\ MaxId \in Nat /\ MaxId >= Len(Sites)
  /\ MaxHp \in Nat /\ MaxHp > 0 /\ Damage \in Nat /\ Recovery \in Nat /\ AttackRange \in Nat
  /\ SupplyNeed \in Nat /\ SupplyAdd \in Nat
  /\ FoodMax \in Nat /\ FoodNeed \in Nat /\ FoodAdd \in Nat
<1>1. Len(Sites) \in Nat /\ Buildings = 1..Len(Sites)
  <2>1. Sites \in Seq(Walkable)
    BY Zenon, BattleAssumption
  <2> QED
    BY <2>1, LenProperties DEF Buildings
<1>2. MaxId \in Nat /\ MaxId >= Len(Sites)
  BY Zenon, BattleAssumption
<1>3. {MaxHp, Damage, SupplyNeed} \subseteq Nat \ {0}
      /\ {Recovery, AttackRange, FoodMax, FoodNeed, FoodAdd, SupplyAdd} \subseteq Nat
  BY Zenon, BattleAssumption
<1>4. MaxHp \in Nat /\ MaxHp # 0
  BY <1>3, Zenon
<1>5. MaxHp > 0
  BY <1>4
<1> QED
  BY <1>1, <1>2, <1>3, <1>5, Zenon

LEMMA IdsNat ==
  ASSUME NEW s, Types(s)
  PROVE  s.ids \in Len(Sites)..MaxId /\ s.ids \in Nat
<1>1. s.ids \in Len(Sites)..MaxId
  BY Zenon DEF Types
<1> DEFINE m == s.ids
<1>2. m \in Len(Sites)..MaxId /\ Len(Sites) \in Nat /\ MaxId \in Nat
  BY <1>1, Sizes
<1> HIDE DEF m
<1>3. m \in Nat
  BY <1>2
<1> QED
  BY <1>1, <1>3, Zenon DEF m

-----------------------------------------------------------------------------
(* What a handler of the AI may change. *)

\* Between s and t only autos of A have acted.
Acts(s, t, A) ==
  /\ Types(t)
  /\ t.warriors = s.warriors /\ t.ids = s.ids /\ t.grid = s.grid /\ t.roles = s.roles
  /\ t.toldBuildings = s.toldBuildings /\ t.dispatching = s.dispatching
  /\ DOMAIN t.autos = DOMAIN s.autos /\ DOMAIN t.told = DOMAIN s.told
  /\ \A c \in DOMAIN s.autos : c \notin A => t.autos[c] = s.autos[c]
  /\ \A c \in DOMAIN s.warriors : c \notin A => t.moves[c] = s.moves[c]
  /\ \A c \in DOMAIN s.told : c \notin A => t.told[c] = s.told[c]
  /\ \A x, c : c \notin A => (<<x, c>> \in t.observers <=> <<x, c>> \in s.observers)
  /\ \A x, c : c \notin A => (<<x, c>> \in t.pending <=> <<x, c>> \in s.pending)
  /\ ~s.dispatching => t.pending = s.pending
  /\ \A b \in Buildings : /\ t.buildings[b].camp = s.buildings[b].camp
                          /\ t.buildings[b].hp = s.buildings[b].hp
                          /\ t.buildings[b].status = s.buildings[b].status

\* What a observes, and will go on to, is the same but for id.
SameWatch(s, t, a, id) ==
  \A x : x # id => /\ <<x, a>> \in t.observers <=> <<x, a>> \in s.observers
                   /\ <<x, a>> \in t.pending <=> <<x, a>> \in s.pending

\* Nothing but observers.
SameBut(s, t) == t.autos = s.autos /\ t.moves = s.moves /\ t.told = s.told /\ t.buildings = s.buildings

LEMMA ActsSelf ==
  ASSUME NEW s, Types(s), NEW A
  PROVE  Acts(s, s, A)
BY DEF Acts

LEMMA ActsThen ==
  ASSUME NEW s, NEW t, NEW u, NEW A, Acts(s, t, A), Acts(t, u, A)
  PROVE  Acts(s, u, A)
BY DEF Acts

LEMMA ObserveActs ==
  ASSUME NEW s, Types(s), NEW id, NEW a
  PROVE  LET t == Observe(s, id, a)
         IN /\ Acts(s, t, {a}) /\ SameBut(s, t) /\ SameWatch(s, t, a, id)
            /\ <<id, a>> \in t.observers /\ t.pending = s.pending
            /\ \A x : <<x, a>> \in s.observers => <<x, a>> \in t.observers
<1> DEFINE t == Observe(s, id, a)
<1>0. IsBattle(s)
  BY DEF Types
<1>1. /\ IsBattle(t) /\ SameBut(s, t)
      /\ t.warriors = s.warriors /\ t.ids = s.ids /\ t.grid = s.grid /\ t.roles = s.roles
      /\ t.toldBuildings = s.toldBuildings /\ t.dispatching = s.dispatching
      /\ t.observers = s.observers \cup {<<id, a>>} /\ t.pending = s.pending
  BY <1>0 DEF IsBattle, Observe, SameBut
<1> HIDE DEF t
<1>2. Types(t)
  BY <1>1 DEF Types, SameBut
<1>3. SameWatch(s, t, a, id)
  BY <1>1 DEF SameWatch
<1>4. Acts(s, t, {a})
  BY <1>1, <1>2 DEF Acts, SameBut
<1> QED
  BY <1>1, <1>3, <1>4 DEF t

LEMMA UnobserveActs ==
  ASSUME NEW s, Types(s), NEW id, NEW a
  PROVE  LET t == Unobserve(s, id, a)
         IN Acts(s, t, {a}) /\ SameBut(s, t) /\ SameWatch(s, t, a, id)
<1> DEFINE t == Unobserve(s, id, a)
<1>0. IsBattle(s)
  BY DEF Types
<1>1. /\ IsBattle(t) /\ SameBut(s, t)
      /\ t.warriors = s.warriors /\ t.ids = s.ids /\ t.grid = s.grid /\ t.roles = s.roles
      /\ t.toldBuildings = s.toldBuildings /\ t.dispatching = s.dispatching
      /\ \/ t.observers = s.observers \ {<<id, a>>} /\ t.pending = s.pending
         \/ s.dispatching /\ t.observers = s.observers /\ t.pending = s.pending \cup {<<id, a>>}
  <2>1. CASE s.dispatching
    BY <1>0, <2>1 DEF IsBattle, Unobserve, SameBut
  <2>2. CASE ~s.dispatching
    BY <1>0, <2>2 DEF IsBattle, Unobserve, SameBut
  <2> QED
    BY <2>1, <2>2
<1> HIDE DEF t
<1>2. Types(t)
  BY <1>1 DEF Types, SameBut
<1>3. SameWatch(s, t, a, id)
  BY <1>1 DEF SameWatch
<1>4. \A x, c : c # a => /\ <<x, c>> \in t.observers <=> <<x, c>> \in s.observers
                         /\ <<x, c>> \in t.pending <=> <<x, c>> \in s.pending
  BY <1>1
<1>5. Acts(s, t, {a})
  BY <1>1, <1>2, <1>4 DEF Acts, SameBut
<1> QED
  BY <1>1, <1>3, <1>5 DEF t

\* An auto with another status, target or timers, all else the same.
SetAuto(s, t, a, status, target, timers) ==
  /\ t.autos[a].status = status /\ t.autos[a].target = target /\ t.autos[a].timers = timers
  /\ t.moves = s.moves /\ t.told = s.told /\ t.buildings = s.buildings
  /\ t.observers = s.observers /\ t.pending = s.pending

LEMMA SetAutoActs ==
  ASSUME NEW s, Types(s), NEW a \in DOMAIN s.autos, NEW f, f \in AutoSet
  PROVE  LET t == [s EXCEPT !.autos[a] = f]
         IN Acts(s, t, {a}) /\ SetAuto(s, t, a, f.status, f.target, f.timers)
<1> DEFINE t == [s EXCEPT !.autos[a] = f]
<1>0. IsBattle(s)
  BY DEF Types
<1>1. /\ IsBattle(t) /\ t.autos = [s.autos EXCEPT ![a] = f]
      /\ t.moves = s.moves /\ t.told = s.told /\ t.buildings = s.buildings
      /\ t.warriors = s.warriors /\ t.ids = s.ids /\ t.grid = s.grid /\ t.roles = s.roles
      /\ t.toldBuildings = s.toldBuildings /\ t.dispatching = s.dispatching
      /\ t.observers = s.observers /\ t.pending = s.pending
  BY <1>0 DEF IsBattle
<1> HIDE DEF t
<1>2. /\ t.autos[a] = f /\ t.autos \in [DOMAIN s.autos -> AutoSet]
      /\ \A c \in DOMAIN s.autos : c # a => t.autos[c] = s.autos[c]
  BY <1>1 DEF Types
<1>3. Types(t)
  BY <1>1, <1>2 DEF Types
<1>4. Acts(s, t, {a})
  BY <1>1, <1>2, <1>3 DEF Acts
<1> QED
  BY <1>1, <1>2, <1>4 DEF t, SetAuto

\* The timers of an auto.
LEMMA TimerActs ==
  ASSUME NEW s, Types(s), NEW a \in DOMAIN s.autos, NEW timer \in {"search", "attack", "refind"}
  PROVE  /\ LET t == SetTimer(s, a, timer)
            IN /\ Acts(s, t, {a})
               /\ SetAuto(s, t, a, s.autos[a].status, s.autos[a].target, s.autos[a].timers \cup {timer})
         /\ LET t == ResetTimer(s, a, timer)
            IN /\ Acts(s, t, {a})
               /\ SetAuto(s, t, a, s.autos[a].status, s.autos[a].target, s.autos[a].timers \ {timer})
<1>1. s.autos[a] \in AutoSet
  BY DEF Types
<1> DEFINE f == [s.autos[a] EXCEPT !.timers = @ \cup {timer}]
           g == [s.autos[a] EXCEPT !.timers = @ \ {timer}]
<1>2. /\ f \in AutoSet /\ g \in AutoSet
      /\ f.status = s.autos[a].status /\ f.target = s.autos[a].target /\ f.timers = s.autos[a].timers \cup {timer}
      /\ g.status = s.autos[a].status /\ g.target = s.autos[a].target /\ g.timers = s.autos[a].timers \ {timer}
  BY <1>1 DEF AutoSet
<1>3. SetTimer(s, a, timer) = [s EXCEPT !.autos[a] = f] /\ ResetTimer(s, a, timer) = [s EXCEPT !.autos[a] = g]
  BY DEF SetTimer, ResetTimer
<1> HIDE DEF f, g
<1>4. /\ Acts(s, [s EXCEPT !.autos[a] = f], {a})
      /\ SetAuto(s, [s EXCEPT !.autos[a] = f], a, f.status, f.target, f.timers)
  BY <1>2, SetAutoActs
<1>5. /\ Acts(s, [s EXCEPT !.autos[a] = g], {a})
      /\ SetAuto(s, [s EXCEPT !.autos[a] = g], a, g.status, g.target, g.timers)
  BY <1>2, SetAutoActs
<1> QED
  BY <1>2, <1>3, <1>4, <1>5

\* Its status.
LEMMA StatusActs ==
  ASSUME NEW s, Types(s), NEW a \in DOMAIN s.autos, NEW status \in {"search", "chase", "attack"}
  PROVE  LET t == [s EXCEPT !.autos[a].status = status]
         IN Acts(s, t, {a}) /\ SetAuto(s, t, a, status, s.autos[a].target, s.autos[a].timers)
<1>1. s.autos[a] \in AutoSet
  BY DEF Types
<1> DEFINE f == [s.autos[a] EXCEPT !.status = status]
<1>2. /\ f \in AutoSet
      /\ f.status = status /\ f.target = s.autos[a].target /\ f.timers = s.autos[a].timers
  BY <1>1 DEF AutoSet
<1>3. [s EXCEPT !.autos[a].status = status] = [s EXCEPT !.autos[a] = f]
  OBVIOUS
<1> HIDE DEF f
<1>4. /\ Acts(s, [s EXCEPT !.autos[a] = f], {a})
      /\ SetAuto(s, [s EXCEPT !.autos[a] = f], a, f.status, f.target, f.timers)
  BY <1>2, SetAutoActs
<1> QED
  BY <1>2, <1>3, <1>4

\* Its target.
LEMMA TargetActs ==
  ASSUME NEW s, Types(s), NEW a \in DOMAIN s.autos, NEW id \in 0..MaxId
  PROVE  LET t == [s EXCEPT !.autos[a].target = id]
         IN Acts(s, t, {a}) /\ SetAuto(s, t, a, s.autos[a].status, id, s.autos[a].timers)
<1>1. s.autos[a] \in AutoSet
  BY DEF Types
<1> DEFINE f == [s.autos[a] EXCEPT !.target = id]
<1>2. /\ f \in AutoSet
      /\ f.status = s.autos[a].status /\ f.target = id /\ f.timers = s.autos[a].timers
  BY <1>1 DEF AutoSet
<1>3. [s EXCEPT !.autos[a].target = id] = [s EXCEPT !.autos[a] = f]
  OBVIOUS
<1> HIDE DEF f
<1>4. /\ Acts(s, [s EXCEPT !.autos[a] = f], {a})
      /\ SetAuto(s, [s EXCEPT !.autos[a] = f], a, f.status, f.target, f.timers)
  BY <1>2, SetAutoActs
<1> QED
  BY <1>2, <1>3, <1>4

LEMMA ResetTargetActs ==
  ASSUME NEW s, Types(s), NEW a \in DOMAIN s.autos
  PROVE  LET t == ResetTarget(s, a)
         IN /\ Acts(s, t, {a}) /\ SameWatch(s, t, a, s.autos[a].target)
            /\ t.autos[a].status = s.autos[a].status /\ t.autos[a].timers = s.autos[a].timers
            /\ t.autos[a].target = None
            /\ t.moves = s.moves /\ t.told = s.told /\ t.buildings = s.buildings
<1> DEFINE target == s.autos[a].target
<1>1. CASE target = None
  <2>1. ResetTarget(s, a) = s
    BY <1>1 DEF ResetTarget
  <2>2. Acts(s, s, {a}) /\ SameWatch(s, s, a, target)
    BY ActsSelf DEF SameWatch
  <2> QED
    BY <1>1, <2>1, <2>2
<1>2. CASE target # None
  <2> DEFINE u == Unobserve(s, target, a)
             t == [u EXCEPT !.autos[a].target = None]
  <2>1. ResetTarget(s, a) = t
    BY <1>2 DEF ResetTarget
  <2>2. Acts(s, u, {a}) /\ SameBut(s, u) /\ SameWatch(s, u, a, target)
    BY UnobserveActs
  <2>3. Types(u) /\ u.autos = s.autos
    BY <2>2 DEF Acts, SameBut
  <2>4. None \in 0..MaxId
    BY Sizes DEF None
  <2>5. Acts(u, t, {a}) /\ SetAuto(u, t, a, u.autos[a].status, None, u.autos[a].timers)
    <3> HIDE DEF u
    <3> QED
      BY <2>3, <2>4, TargetActs
  <2> HIDE DEF u, t
  <2>6. Acts(s, t, {a})
    BY <2>2, <2>5, ActsThen
  <2> QED
    BY <2>1, <2>2, <2>3, <2>5, <2>6 DEF SetAuto, SameBut, SameWatch
<1> QED
  BY <1>1, <1>2

\* The attackers a building counts.
OnlyCounts(s, t, a, n) ==
  /\ Acts(s, t, {a}) /\ t.autos = s.autos /\ t.moves = s.moves /\ t.told = s.told
  /\ t.observers = s.observers /\ t.pending = s.pending
  /\ \A b \in Buildings :
       t.buildings[b].targeted = s.buildings[b].targeted + IF s.autos[a].target = b THEN n ELSE 0

LEMMA CountTargetedActs ==
  ASSUME NEW s, Types(s), NEW a \in DOMAIN s.autos, NEW n \in Int
  PROVE  OnlyCounts(s, CountTargeted(s, a, n), a, n)
<1> DEFINE target == s.autos[a].target
<1>0. IsBattle(s) /\ s.buildings \in [Buildings -> BuildingSet]
  BY DEF Types
<1>1. CASE target \notin Buildings
  <2>1. CountTargeted(s, a, n) = s
    BY <1>1 DEF CountTargeted
  <2>2. \A b \in Buildings : s.buildings[b].targeted \in Int /\ target # b
    BY <1>0, <1>1 DEF BuildingSet
  <2>3. Acts(s, s, {a})
    BY ActsSelf
  <2> QED
    BY <2>1, <2>2, <2>3 DEF OnlyCounts
<1>2. CASE target \in Buildings
  <2> DEFINE f == [s.buildings[target] EXCEPT !.targeted = @ + n]
             t == [s EXCEPT !.buildings[target] = f]
  <2>1. CountTargeted(s, a, n) = t
    BY <1>2 DEF CountTargeted
  <2>2. s.buildings[target] \in BuildingSet
    BY <1>0, <1>2
  <2>3. /\ f \in BuildingSet /\ f.camp = s.buildings[target].camp /\ f.hp = s.buildings[target].hp
        /\ f.status = s.buildings[target].status /\ f.targeted = s.buildings[target].targeted + n
    BY <2>2 DEF BuildingSet
  <2> HIDE DEF f
  <2>4. /\ IsBattle(t) /\ t.buildings = [s.buildings EXCEPT ![target] = f]
        /\ t.moves = s.moves /\ t.told = s.told /\ t.autos = s.autos
        /\ t.warriors = s.warriors /\ t.ids = s.ids /\ t.grid = s.grid /\ t.roles = s.roles
        /\ t.toldBuildings = s.toldBuildings /\ t.dispatching = s.dispatching
        /\ t.observers = s.observers /\ t.pending = s.pending
    BY <1>0 DEF IsBattle
  <2> HIDE DEF t
  <2>5. /\ t.buildings \in [Buildings -> BuildingSet] /\ t.buildings[target] = f
        /\ \A b \in Buildings : b # target => t.buildings[b] = s.buildings[b]
    BY <1>0, <1>2, <2>3, <2>4
  <2>6. Types(t)
    BY <2>4, <2>5 DEF Types
  <2>7. \A b \in Buildings : t.buildings[b].camp = s.buildings[b].camp /\ t.buildings[b].hp = s.buildings[b].hp
                             /\ t.buildings[b].status = s.buildings[b].status
    BY <2>3, <2>5
  <2>8. Acts(s, t, {a})
    BY <2>4, <2>6, <2>7 DEF Acts
  <2>9. \A b \in Buildings : b # target => t.buildings[b].targeted = s.buildings[b].targeted + 0
    BY <1>0, <2>5 DEF BuildingSet
  <2>10. OnlyCounts(s, t, a, n)
    BY <2>3, <2>4, <2>5, <2>8, <2>9 DEF OnlyCounts
  <2> QED
    BY <2>1, <2>10 DEF t
<1> QED
  BY <1>1, <1>2

\* What the players are told of a warrior, and its way.
LEMMA ToldActs ==
  ASSUME NEW s, Types(s), NEW a, NEW f, a \in DOMAIN s.told => f \in ToldSet
  PROVE  LET t == [s EXCEPT !.told[a] = f]
         IN /\ Acts(s, t, {a}) /\ t.autos = s.autos /\ t.moves = s.moves /\ t.buildings = s.buildings
            /\ t.observers = s.observers /\ t.pending = s.pending
            /\ a \in DOMAIN s.told => t.told[a] = f
<1> DEFINE t == [s EXCEPT !.told[a] = f]
<1>0. IsBattle(s)
  BY DEF Types
<1>1. /\ IsBattle(t) /\ t.told = [s.told EXCEPT ![a] = f]
      /\ t.moves = s.moves /\ t.autos = s.autos /\ t.buildings = s.buildings
      /\ t.warriors = s.warriors /\ t.ids = s.ids /\ t.grid = s.grid /\ t.roles = s.roles
      /\ t.toldBuildings = s.toldBuildings /\ t.dispatching = s.dispatching
      /\ t.observers = s.observers /\ t.pending = s.pending
  BY <1>0 DEF IsBattle
<1> HIDE DEF t
<1>2. s.told \in [DOMAIN s.told -> ToldSet]
  BY DEF Types
<1>3. /\ a \in DOMAIN s.told => t.told[a] = f
      /\ t.told \in [DOMAIN s.told -> ToldSet]
      /\ \A c \in DOMAIN s.told : c # a => t.told[c] = s.told[c]
  BY <1>1, <1>2
<1>4. Types(t)
  BY <1>1, <1>3 DEF Types
<1>5. Acts(s, t, {a})
  BY <1>1, <1>3, <1>4 DEF Acts
<1> QED
  BY <1>1, <1>3, <1>5 DEF t

SetMoves(s, a, m) == [s EXCEPT !.moves[a] = m]

OnlyMoves(s, t, a, m) ==
  /\ Acts(s, t, {a}) /\ t.autos = s.autos /\ t.told = s.told /\ t.buildings = s.buildings
  /\ t.observers = s.observers /\ t.pending = s.pending
  /\ t.moves[a] = m

LEMMA MovesActs ==
  ASSUME NEW s, Types(s), NEW a \in DOMAIN s.warriors, NEW m \in Seq(Walkable)
  PROVE  OnlyMoves(s, SetMoves(s, a, m), a, m)
<1> DEFINE t == SetMoves(s, a, m)
<1>0. IsBattle(s)
  BY DEF Types
<1>1. /\ IsBattle(t) /\ t.moves = [s.moves EXCEPT ![a] = m]
      /\ t.told = s.told /\ t.autos = s.autos /\ t.buildings = s.buildings
      /\ t.warriors = s.warriors /\ t.ids = s.ids /\ t.grid = s.grid /\ t.roles = s.roles
      /\ t.toldBuildings = s.toldBuildings /\ t.dispatching = s.dispatching
      /\ t.observers = s.observers /\ t.pending = s.pending
  BY <1>0 DEF IsBattle, SetMoves
<1> HIDE DEF t
<1>2. s.moves \in [DOMAIN s.warriors -> Seq(Walkable)]
  BY DEF Types
<1>3. /\ t.moves[a] = m /\ t.moves \in [DOMAIN s.warriors -> Seq(Walkable)]
      /\ \A c \in DOMAIN s.warriors : c # a => t.moves[c] = s.moves[c]
  BY <1>1, <1>2
<1>4. Types(t)
  BY <1>1, <1>3 DEF Types
<1>5. Acts(s, t, {a})
  BY <1>1, <1>3, <1>4 DEF Acts
<1>6. OnlyMoves(s, t, a, m)
  BY <1>1, <1>3, <1>5 DEF OnlyMoves
<1> QED
  BY <1>6 DEF t

LEMMA DispatchMoveActionEventActs ==
  ASSUME NEW s, Types(s), NEW a, NEW c \in Walkable
  PROVE  LET t == DispatchMoveActionEvent(s, a, c)
         IN /\ Acts(s, t, {a}) /\ t.autos = s.autos /\ t.moves = s.moves /\ t.buildings = s.buildings
            /\ t.observers = s.observers /\ t.pending = s.pending
            /\ a \in DOMAIN s.told => t.told[a].to = c /\ t.told[a].target = s.told[a].target
<1> DEFINE f == [s.told[a] EXCEPT !.to = c]
<1>1. a \in DOMAIN s.told => f \in ToldSet /\ f.to = c /\ f.target = s.told[a].target
  <2> SUFFICES ASSUME a \in DOMAIN s.told
               PROVE  f \in ToldSet /\ f.to = c /\ f.target = s.told[a].target
    OBVIOUS
  <2>1. s.told[a] \in ToldSet
    BY DEF Types
  <2> QED
    BY <2>1 DEF ToldSet
<1>2. DispatchMoveActionEvent(s, a, c) = [s EXCEPT !.told[a] = f]
  BY DEF DispatchMoveActionEvent
<1> HIDE DEF f
<1>3. LET t == [s EXCEPT !.told[a] = f]
      IN /\ Acts(s, t, {a}) /\ t.autos = s.autos /\ t.moves = s.moves /\ t.buildings = s.buildings
         /\ t.observers = s.observers /\ t.pending = s.pending
         /\ a \in DOMAIN s.told => t.told[a] = f
  BY <1>1, ToldActs
<1> QED
  BY <1>1, <1>2, <1>3

LEMMA TellTargetActs ==
  ASSUME NEW s, Types(s), NEW a \in DOMAIN s.autos
  PROVE  LET t == TellTarget(s, a)
         IN /\ Acts(s, t, {a}) /\ t.autos = s.autos /\ t.moves = s.moves /\ t.buildings = s.buildings
            /\ t.observers = s.observers /\ t.pending = s.pending
            /\ a \in DOMAIN s.told => t.told[a].to = s.told[a].to /\ t.told[a].target = s.autos[a].target
<1> DEFINE target == s.autos[a].target
           f == [s.told[a] EXCEPT !.target = target]
<1>0. target \in 0..MaxId
  BY DEF Types, AutoSet
<1>1. a \in DOMAIN s.told => f \in ToldSet /\ f.to = s.told[a].to /\ f.target = target
  <2> SUFFICES ASSUME a \in DOMAIN s.told
               PROVE  f \in ToldSet /\ f.to = s.told[a].to /\ f.target = target
    OBVIOUS
  <2>1. s.told[a] \in ToldSet
    BY DEF Types
  <2> HIDE DEF target
  <2> QED
    BY <1>0, <2>1 DEF ToldSet
<1>2. TellTarget(s, a) = [s EXCEPT !.told[a] = f]
  BY DEF TellTarget
<1> HIDE DEF f
<1>3. LET t == [s EXCEPT !.told[a] = f]
      IN /\ Acts(s, t, {a}) /\ t.autos = s.autos /\ t.moves = s.moves /\ t.buildings = s.buildings
         /\ t.observers = s.observers /\ t.pending = s.pending
         /\ a \in DOMAIN s.told => t.told[a] = f
  BY <1>1, ToldActs
<1> QED
  BY <1>1, <1>2, <1>3

\* A warrior that stands goes where it is.
LEMMA GoingIs ==
  ASSUME NEW s, NEW w
  PROVE  /\ s.moves[w] = << >> => Going(s, w) = s.warriors[w].pos
         /\ s.moves[w] # << >> => Going(s, w) = s.moves[w][Len(s.moves[w])]
BY DEF Going, MovePaths

LEMMA FinishMoveActs ==
  ASSUME NEW s, Types(s), NEW a \in DOMAIN s.warriors
  PROVE  LET t == FinishMove(s, a)
         IN /\ Acts(s, t, {a}) /\ t.autos = s.autos /\ t.moves[a] = << >> /\ t.buildings = s.buildings
            /\ t.observers = s.observers /\ t.pending = s.pending
            /\ a \in DOMAIN s.told => t.told[a].to = Going(t, a) /\ t.told[a].target = s.told[a].target
<1> DEFINE u == SetMoves(s, a, << >>)
           t == DispatchMoveActionEvent(u, a, s.warriors[a].pos)
<1>1. << >> \in Seq(Walkable) /\ s.warriors[a].pos \in Walkable
  BY DEF Types, WarriorSet
<1>2. FinishMove(s, a) = t
  BY Zenon DEF FinishMove, SetMoves
<1>3. OnlyMoves(s, u, a, << >>)
  BY <1>1, MovesActs
<1> HIDE DEF u
<1>4. /\ u.autos = s.autos /\ u.told = s.told /\ u.buildings = s.buildings
      /\ u.observers = s.observers /\ u.pending = s.pending
      /\ u.moves[a] = << >> /\ Acts(s, u, {a})
  BY <1>3 DEF OnlyMoves
<1>5. Types(u) /\ u.warriors = s.warriors
  BY <1>4 DEF Acts
<1>6. /\ Acts(u, t, {a}) /\ t.autos = u.autos /\ t.moves = u.moves /\ t.buildings = u.buildings
      /\ t.observers = u.observers /\ t.pending = u.pending
      /\ a \in DOMAIN u.told => t.told[a].to = s.warriors[a].pos /\ t.told[a].target = u.told[a].target
  BY <1>1, <1>5, DispatchMoveActionEventActs
<1> HIDE DEF t
<1>7. Acts(s, t, {a})
  BY <1>4, <1>6, ActsThen
<1>8. t.warriors = s.warriors
  BY <1>7 DEF Acts
<1>9. Going(t, a) = s.warriors[a].pos
  BY <1>4, <1>6, <1>8, GoingIs
<1> QED
  BY <1>2, <1>4, <1>6, <1>7, <1>9

LEMMA LockTargetActs ==
  ASSUME NEW s, Types(s), NEW a \in DOMAIN s.autos
  PROVE  LET t == LockTarget(s, a)
         IN /\ Acts(s, t, {a}) /\ t.autos = s.autos /\ t.moves[a] = << >> /\ t.buildings = s.buildings
            /\ t.observers = s.observers /\ t.pending = s.pending
            /\ a \in DOMAIN s.told => t.told[a].to = Going(t, a) /\ t.told[a].target = s.told[a].target
<1>1. a \in DOMAIN s.warriors /\ a \in DOMAIN s.moves
  BY DEF Types
<1>2. LockTarget(s, a) = FinishMove(s, a)
  BY <1>1 DEF LockTarget
<1> DEFINE t == FinishMove(s, a)
<1>3. /\ Acts(s, t, {a}) /\ t.autos = s.autos /\ t.moves[a] = << >> /\ t.buildings = s.buildings
      /\ t.observers = s.observers /\ t.pending = s.pending
      /\ a \in DOMAIN s.told => t.told[a].to = Going(t, a) /\ t.told[a].target = s.told[a].target
  BY <1>1, FinishMoveActs
<1> HIDE DEF t
<1> QED
  BY <1>2, <1>3 DEF t

-----------------------------------------------------------------------------
(* The three states of an auto. *)

\* What an auto contributes to the attackers of a building.
Mine(s, a, b) == IF s.autos[a].status = "attack" /\ s.autos[a].target = b THEN 1 ELSE 0

\* An auto that leaves a state: no timers, and after an attack no target.
Stopped(s, t, a) ==
  /\ Acts(s, t, {a})
  /\ t.autos[a].status = s.autos[a].status /\ t.autos[a].timers = {}
  /\ t.autos[a].target = IF s.autos[a].status = "attack" THEN None ELSE s.autos[a].target
  /\ t.moves = s.moves /\ t.told = s.told
  /\ \A b \in Buildings : t.buildings[b].targeted = s.buildings[b].targeted - Mine(s, a, b)
  /\ \A x : x # a /\ (s.autos[a].status = "attack" => x # s.autos[a].target) =>
       /\ <<x, a>> \in t.observers <=> <<x, a>> \in s.observers
       /\ <<x, a>> \in t.pending <=> <<x, a>> \in s.pending

LEMMA StopAttackIs ==
  ASSUME NEW s, Types(s), NEW a \in DOMAIN s.autos, TimersRight(s, a), s.autos[a].status = "attack"
  PROVE  Stopped(s, StopAttack(s, a), a)
<1> DEFINE u == CountTargeted(s, a, -1)
           v == ResetAttackTimer(u, a)
           t == ResetTarget(v, a)
           target == s.autos[a].target
<1>0. OnlyCounts(s, u, a, -1)
  BY CountTargetedActs
<1> HIDE DEF u
<1>1. /\ Acts(s, u, {a}) /\ u.autos = s.autos /\ u.moves = s.moves /\ u.told = s.told
      /\ u.observers = s.observers /\ u.pending = s.pending
      /\ \A b \in Buildings :
           u.buildings[b].targeted = s.buildings[b].targeted + IF target = b THEN -1 ELSE 0
  BY <1>0 DEF OnlyCounts
<1>2. Types(u) /\ a \in DOMAIN u.autos
  BY <1>1 DEF Acts
<1>3. Acts(u, v, {a}) /\ SetAuto(u, v, a, u.autos[a].status, u.autos[a].target, u.autos[a].timers \ {"attack"})
  <2>1. v = ResetTimer(u, a, "attack")
    BY DEF ResetAttackTimer
  <2> HIDE DEF v
  <2> QED
    BY <1>2, <2>1, TimerActs
<1> HIDE DEF v
<1>4. Types(v) /\ a \in DOMAIN v.autos
  BY <1>2, <1>3 DEF Acts
<1>5. /\ Acts(v, t, {a}) /\ SameWatch(v, t, a, v.autos[a].target)
      /\ t.autos[a].status = v.autos[a].status /\ t.autos[a].timers = v.autos[a].timers
      /\ t.autos[a].target = None
      /\ t.moves = v.moves /\ t.told = v.told /\ t.buildings = v.buildings
  BY <1>4, ResetTargetActs
<1> HIDE DEF t
<1>6. Acts(s, t, {a})
  BY <1>1, <1>3, <1>5, ActsThen
<1>7. /\ t.autos[a].status = s.autos[a].status /\ t.autos[a].timers = {} /\ t.autos[a].target = None
      /\ t.moves = s.moves /\ t.told = s.told /\ t.buildings = u.buildings
      /\ v.autos[a].target = target /\ v.observers = s.observers /\ v.pending = s.pending
  BY <1>1, <1>3, <1>5 DEF SetAuto, TimersRight
<1>8. \A b \in Buildings : t.buildings[b].targeted = s.buildings[b].targeted - Mine(s, a, b)
  <2> SUFFICES ASSUME NEW b \in Buildings
               PROVE  t.buildings[b].targeted = s.buildings[b].targeted - Mine(s, a, b)
    OBVIOUS
  <2>1. s.buildings[b].targeted \in Int
    BY DEF Types, BuildingSet
  <2> QED
    BY <1>1, <1>7, <2>1 DEF Mine
<1>9. \A x : x # target => /\ <<x, a>> \in t.observers <=> <<x, a>> \in s.observers
                           /\ <<x, a>> \in t.pending <=> <<x, a>> \in s.pending
  BY <1>5, <1>7 DEF SameWatch
<1>10. StopAttack(s, a) = t
  BY DEF StopAttack, t, u, v
<1> QED
  BY <1>6, <1>7, <1>8, <1>9, <1>10 DEF Stopped

LEMMA StopTimerIs ==
  ASSUME NEW s, Types(s), NEW a \in DOMAIN s.autos, NEW timer \in {"search", "refind"},
         s.autos[a].timers \subseteq {timer}, s.autos[a].status # "attack"
  PROVE  Stopped(s, ResetTimer(s, a, timer), a)
<1> DEFINE t == ResetTimer(s, a, timer)
<1>1. Acts(s, t, {a}) /\ SetAuto(s, t, a, s.autos[a].status, s.autos[a].target, s.autos[a].timers \ {timer})
  BY TimerActs
<1> HIDE DEF t
<1>2. \A b \in Buildings : s.buildings[b].targeted \in Int /\ Mine(s, a, b) = 0
  BY DEF Types, BuildingSet, Mine
<1>3. Stopped(s, t, a)
  BY <1>1, <1>2 DEF Stopped, SetAuto
<1> QED
  BY <1>3 DEF t

LEMMA StopPresentStatusIs ==
  ASSUME NEW s, Types(s), NEW a \in DOMAIN s.autos, TimersRight(s, a)
  PROVE  Stopped(s, StopPresentStatus(s, a), a)
<1> DEFINE u == CASE s.autos[a].status = "attack" -> StopAttack(s, a)
                  [] s.autos[a].status = "chase" -> StopChase(s, a)
                  [] s.autos[a].status = "search" -> StopSearch(s, a)
           t == Unobserve(u, a, a)
<1>1. Stopped(s, u, a)
  <2>1. CASE s.autos[a].status = "attack"
    BY <2>1, StopAttackIs
  <2>2. CASE s.autos[a].status = "chase"
    <3>1. u = ResetTimer(s, a, "refind")
      BY <2>2 DEF StopChase
    <3> QED
      BY <2>2, <3>1, StopTimerIs DEF TimersRight
  <2>3. CASE s.autos[a].status = "search"
    <3>1. u = ResetTimer(s, a, "search")
      BY <2>3 DEF StopSearch
    <3>2. s.autos[a].timers \subseteq {"search"}
      BY <2>3 DEF TimersRight
    <3> QED
      BY <2>3, <3>1, <3>2, StopTimerIs
  <2>4. s.autos[a].status \in {"search", "chase", "attack"}
    BY DEF Types, AutoSet
  <2> QED
    BY <2>1, <2>2, <2>3, <2>4
<1>2. StopPresentStatus(s, a) = t
  BY DEF StopPresentStatus
<1> HIDE DEF u
<1>3. Types(u)
  BY <1>1 DEF Stopped, Acts
<1>4. Acts(u, t, {a}) /\ SameBut(u, t) /\ SameWatch(u, t, a, a)
  BY <1>3, UnobserveActs
<1> HIDE DEF t
<1>5. Acts(s, t, {a})
  BY <1>1, <1>4, ActsThen DEF Stopped
<1>6. Stopped(s, t, a)
  BY <1>1, <1>4, <1>5 DEF Stopped, SameBut, SameWatch
<1> QED
  BY <1>2, <1>6

\* And one that is in another.
Gone(s, t, a, status) ==
  /\ Acts(s, t, {a})
  /\ t.autos[a].status = status /\ t.autos[a].timers = {}
  /\ t.autos[a].target = IF s.autos[a].status = "attack" THEN None ELSE s.autos[a].target
  /\ t.moves = s.moves /\ t.told = s.told
  /\ \A b \in Buildings : t.buildings[b].targeted = s.buildings[b].targeted - Mine(s, a, b)
  /\ \A x : x # a /\ (s.autos[a].status = "attack" => x # s.autos[a].target) =>
       /\ <<x, a>> \in t.observers <=> <<x, a>> \in s.observers
       /\ <<x, a>> \in t.pending <=> <<x, a>> \in s.pending

LEMMA GotoStatusIs ==
  ASSUME NEW s, Types(s), NEW a \in DOMAIN s.autos, TimersRight(s, a),
         NEW status \in {"search", "chase", "attack"}
  PROVE  Gone(s, GotoStatus(s, a, status), a, status)
<1> DEFINE u == StopPresentStatus(s, a)
           v == [u EXCEPT !.autos[a].status = status]
           t == StartPresentStatus(v, a)
<1>1. Stopped(s, u, a)
  BY StopPresentStatusIs
<1> HIDE DEF u
<1>2. Types(u) /\ a \in DOMAIN u.autos
  BY <1>1 DEF Stopped, Acts
<1>3. Acts(u, v, {a}) /\ SetAuto(u, v, a, status, u.autos[a].target, u.autos[a].timers)
  BY <1>2, StatusActs
<1> HIDE DEF v
<1>4. Types(v)
  BY <1>3 DEF Acts
<1>5. Acts(v, t, {a}) /\ SameBut(v, t) /\ SameWatch(v, t, a, a)
  BY <1>4, ObserveActs DEF StartPresentStatus
<1> HIDE DEF t
<1>6. Acts(s, t, {a})
  BY <1>1, <1>3, <1>5, ActsThen DEF Stopped
<1>7. Gone(s, t, a, status)
  BY <1>1, <1>3, <1>5, <1>6 DEF Stopped, Gone, SetAuto, SameBut, SameWatch
<1>8. GotoStatus(s, a, status) = t
  BY DEF GotoStatus, t, u, v
<1> QED
  BY <1>7, <1>8

-----------------------------------------------------------------------------
(* What the handlers of the AI keep. *)

Handled(s, t, a) ==
  /\ Acts(s, t, {a}) /\ AutoKept(t, a)
  /\ \A b \in Buildings :
       t.buildings[b].targeted - Mine(t, a, b) = s.buildings[b].targeted - Mine(s, a, b)

\* Where a warrior goes depends on its place and its way.
LEMMA GoingSame ==
  ASSUME NEW s, NEW t, NEW w, t.warriors = s.warriors, t.moves[w] = s.moves[w]
  PROVE  Going(t, w) = Going(s, w)
BY DEF Going, MovePaths

\* The end of a chase or an attack.
BackToSearch(s, t, a) == Handled(s, t, a) /\ t.autos[a].status = "search"

LEMMA GotoSearchIs ==
  ASSUME NEW s, Types(s), NEW a \in DOMAIN s.autos, TimersRight(s, a), ToldRight(s, a)
  PROVE  BackToSearch(s, GotoSearch(s, a), a)
<1> DEFINE u == GotoStatus(s, a, "search")
           t == SetTimer(u, a, "search")
<1>1. Gone(s, u, a, "search")
  BY GotoStatusIs
<1> HIDE DEF u
<1>2. Types(u) /\ a \in DOMAIN u.autos
  BY <1>1 DEF Gone, Acts
<1>3. Acts(u, t, {a}) /\ SetAuto(u, t, a, u.autos[a].status, u.autos[a].target, u.autos[a].timers \cup {"search"})
  BY <1>2, TimerActs
<1> HIDE DEF t
<1>4. Acts(s, t, {a})
  BY <1>1, <1>3, ActsThen DEF Gone
<1>5. t.autos[a].status = "search" /\ t.autos[a].timers = {"search"} /\ t.moves = s.moves /\ t.told = s.told
      /\ t.buildings = u.buildings
  BY <1>1, <1>3 DEF Gone, SetAuto
<1>6. Going(t, a) = Going(s, a)
  BY <1>4, <1>5, GoingSame DEF Acts
<1>7. AutoKept(t, a)
  BY <1>5, <1>6 DEF AutoKept, Watches, TimersRight, ToldRight
<1>8. ASSUME NEW b \in Buildings
      PROVE  t.buildings[b].targeted - Mine(t, a, b) = s.buildings[b].targeted - Mine(s, a, b)
  <2>1. s.buildings[b].targeted \in Int /\ Mine(t, a, b) = 0 /\ Mine(s, a, b) \in Int
    BY <1>5 DEF Types, BuildingSet, Mine
  <2> QED
    BY <1>1, <1>5, <2>1 DEF Gone
<1>9. GotoSearch(s, a) = t
  BY DEF GotoSearch, StartSearch, t, u
<1> QED
  BY <1>4, <1>5, <1>7, <1>8, <1>9 DEF Handled, BackToSearch

\* Who chases and has come near enough attacks.
Attacks(s, t, a) == Handled(s, t, a) /\ t.autos[a].status = "attack" /\ t.autos[a].target = s.autos[a].target

LEMMA GotoAttackIs ==
  ASSUME NEW s, Types(s), NEW a \in DOMAIN s.autos, TimersRight(s, a), Watches(s, a),
         s.autos[a].status = "chase"
  PROVE  Attacks(s, GotoAttack(s, a), a)
<1> DEFINE u == GotoStatus(s, a, "attack")
           v == SetTimer(u, a, "attack")
           w == TellTarget(v, a)
           x == LockTarget(w, a)
           t == CountTargeted(x, a, 1)
           target == s.autos[a].target
<1>1. Gone(s, u, a, "attack")
  BY GotoStatusIs
<1>0. GotoAttack(s, a) = t
  BY DEF GotoAttack, StartAttack, SetAttackTimer
<1> HIDE DEF u
<1>2. Types(u) /\ a \in DOMAIN u.autos
  BY <1>1 DEF Gone, Acts
<1>3. Acts(u, v, {a}) /\ SetAuto(u, v, a, u.autos[a].status, u.autos[a].target, u.autos[a].timers \cup {"attack"})
  BY <1>2, TimerActs
<1> HIDE DEF v
<1>4. Types(v) /\ a \in DOMAIN v.autos
  BY <1>2, <1>3 DEF Acts
<1>5. /\ Acts(v, w, {a}) /\ w.autos = v.autos /\ w.moves = v.moves /\ w.buildings = v.buildings
      /\ w.observers = v.observers /\ w.pending = v.pending
      /\ a \in DOMAIN v.told => w.told[a].to = v.told[a].to /\ w.told[a].target = v.autos[a].target
  BY <1>4, TellTargetActs
<1> HIDE DEF w
<1>6. Types(w) /\ a \in DOMAIN w.autos
  BY <1>4, <1>5 DEF Acts
<1>7. /\ Acts(w, x, {a}) /\ x.autos = w.autos /\ x.moves[a] = << >> /\ x.buildings = w.buildings
      /\ x.observers = w.observers /\ x.pending = w.pending
      /\ a \in DOMAIN w.told => x.told[a].to = Going(x, a) /\ x.told[a].target = w.told[a].target
  BY <1>6, LockTargetActs
<1> HIDE DEF x
<1>8. Types(x) /\ a \in DOMAIN x.autos
  BY <1>6, <1>7 DEF Acts
<1>9. OnlyCounts(x, t, a, 1)
  BY <1>8, CountTargetedActs
<1> HIDE DEF t
<1>10. /\ Acts(x, t, {a}) /\ t.autos = x.autos /\ t.moves = x.moves /\ t.told = x.told
       /\ t.observers = x.observers /\ t.pending = x.pending
       /\ \A b \in Buildings :
            t.buildings[b].targeted = x.buildings[b].targeted + IF x.autos[a].target = b THEN 1 ELSE 0
  BY <1>9 DEF OnlyCounts
<1>11. Acts(s, t, {a})
  <2>1. Acts(s, v, {a})
    BY <1>1, <1>3, ActsThen DEF Gone
  <2>2. Acts(s, w, {a})
    BY <2>1, <1>5, ActsThen
  <2>3. Acts(s, x, {a})
    BY <2>2, <1>7, ActsThen
  <2> QED
    BY <2>3, <1>10, ActsThen
<1>12. /\ t.autos[a].status = "attack" /\ t.autos[a].target = target /\ t.autos[a].timers = {"attack"}
       /\ t.moves[a] = << >> /\ t.observers = u.observers /\ t.pending = u.pending
       /\ x.autos[a].target = target /\ x.buildings = u.buildings
  BY <1>1, <1>3, <1>5, <1>7, <1>10 DEF Gone, SetAuto
<1>13. Watches(t, a)
  <2>1. /\ target # a /\ <<target, a>> \in s.observers /\ <<target, a>> \notin s.pending
    BY DEF Watches
  <2>2. /\ <<target, a>> \in u.observers <=> <<target, a>> \in s.observers
        /\ <<target, a>> \in u.pending <=> <<target, a>> \in s.pending
    BY <1>1, <2>1 DEF Gone
  <2> QED
    BY <1>12, <2>1, <2>2 DEF Watches
<1>14. ToldRight(t, a)
  <2>1. DOMAIN t.told = DOMAIN w.told /\ DOMAIN w.told = DOMAIN v.told /\ x.warriors = t.warriors
    BY <1>5, <1>7, <1>10 DEF Acts
  <2>2. Going(t, a) = Going(x, a)
    BY <2>1, <1>10, GoingSame
  <2>3. v.autos[a].target = target
    BY <1>1, <1>3 DEF Gone, SetAuto
  <2> QED
    BY <1>5, <1>7, <1>10, <1>12, <2>1, <2>2, <2>3 DEF ToldRight
<1>15. AutoKept(t, a)
  BY <1>12, <1>13, <1>14 DEF AutoKept, TimersRight
<1>16. ASSUME NEW b \in Buildings
       PROVE  t.buildings[b].targeted - Mine(t, a, b) = s.buildings[b].targeted - Mine(s, a, b)
  <2>1. s.buildings[b].targeted \in Int /\ Mine(s, a, b) = 0
    BY DEF Types, BuildingSet, Mine
  <2>2. u.buildings[b].targeted = s.buildings[b].targeted
    BY <1>1, <2>1 DEF Gone
  <2>3. t.buildings[b].targeted = s.buildings[b].targeted + Mine(t, a, b)
    BY <1>10, <1>12, <2>2 DEF Mine
  <2>4. Mine(t, a, b) \in Int
    BY DEF Mine
  <2> QED
    BY <2>1, <2>3, <2>4
<1> QED
  BY <1>0, <1>11, <1>12, <1>15, <1>16 DEF Handled, Attacks

\* A warrior that is sent somewhere.
OnlyMove(s, t, w) ==
  /\ Acts(s, t, {w}) /\ t.autos = s.autos /\ t.buildings = s.buildings
  /\ t.observers = s.observers /\ t.pending = s.pending
  /\ w \in DOMAIN t.told => t.told[w].to = Going(t, w)

LEMMA OnlyMoveSelf ==
  ASSUME NEW s, Types(s), NEW w, w \in DOMAIN s.told => s.told[w].to = Going(s, w)
  PROVE  OnlyMove(s, s, w)
BY ActsSelf DEF OnlyMove

LEMMA OnlyMoveThen ==
  ASSUME NEW s, NEW t, NEW u, NEW w, OnlyMove(s, t, w), OnlyMove(t, u, w)
  PROVE  OnlyMove(s, u, w)
<1>1. Acts(s, u, {w})
  BY ActsThen DEF OnlyMove
<1> QED
  BY <1>1 DEF OnlyMove

LEMMA StartMoveIs ==
  ASSUME NEW s, Types(s), NEW w \in DOMAIN s.warriors, NEW dest,
         w \in DOMAIN s.told => s.told[w].to = Going(s, w)
  PROVE  OnlyMove(s, StartMove(s, w, dest), w)
<1> DEFINE pos == s.warriors[w].pos
           stopped == IF s.moves[w] # << >> THEN FinishMove(s, w) ELSE s
           way == Routes[pos, dest]
           moving == SetMoves(stopped, w, way)
           moved == DispatchMoveActionEvent(moving, w, dest)
<1>0. /\ StartMove(s, w, dest) = s
      \/ /\ GetWalkable(dest)
         /\ StartMove(s, w, dest) = IF moving.moves[w] = << >> THEN moving ELSE moved
  BY Zenon DEF StartMove, SetMoves
<1>1. OnlyMove(s, s, w)
  BY OnlyMoveSelf
<1>2. ASSUME GetWalkable(dest)
      PROVE  OnlyMove(s, IF moving.moves[w] = << >> THEN moving ELSE moved, w)
  <2>1. dest \in Walkable /\ pos \in Walkable
    BY <1>2 DEF GetWalkable, Types, WarriorSet
  <2>2. way \in Seq(Walkable) /\ (way # << >> => way[Len(way)] = dest)
    BY <2>1, RoutesAssumption
  <2>3. OnlyMove(s, stopped, w) /\ stopped.moves[w] = << >>
    <3>1. CASE s.moves[w] = << >>
      BY <1>1, <3>1
    <3>2. CASE s.moves[w] # << >>
      <4> DEFINE t == FinishMove(s, w)
      <4>1. /\ Acts(s, t, {w}) /\ t.autos = s.autos /\ t.moves[w] = << >> /\ t.buildings = s.buildings
            /\ t.observers = s.observers /\ t.pending = s.pending
            /\ w \in DOMAIN s.told => t.told[w].to = Going(t, w) /\ t.told[w].target = s.told[w].target
        BY FinishMoveActs
      <4>2. stopped = t
        BY <3>2
      <4> HIDE DEF t, stopped
      <4>3. OnlyMove(s, t, w)
        BY <4>1 DEF OnlyMove, Acts
      <4> QED
        BY <4>1, <4>2, <4>3
    <3> QED
      BY <3>1, <3>2
  <2> HIDE DEF stopped, way
  <2>4. Types(stopped) /\ w \in DOMAIN stopped.warriors /\ stopped.warriors = s.warriors
    BY <2>3 DEF OnlyMove, Acts
  <2>5. OnlyMoves(stopped, moving, w, way)
    BY <2>2, <2>4, MovesActs
  <2> HIDE DEF moving
  <2>6. /\ Acts(stopped, moving, {w}) /\ moving.autos = stopped.autos /\ moving.told = stopped.told
        /\ moving.buildings = stopped.buildings /\ moving.observers = stopped.observers
        /\ moving.pending = stopped.pending /\ moving.moves[w] = way
    BY <2>5 DEF OnlyMoves
  <2>7. Types(moving) /\ moving.warriors = s.warriors
    BY <2>4, <2>6 DEF Acts
  <2>8. CASE way = << >>
    <3>1. Going(moving, w) = Going(stopped, w)
      BY <2>3, <2>4, <2>6, <2>7, <2>8, GoingSame
    <3>2. OnlyMove(stopped, moving, w)
      BY <2>3, <2>6, <3>1 DEF OnlyMove
    <3> QED
      BY <2>3, <2>6, <2>8, <3>2, OnlyMoveThen
  <2>9. CASE way # << >>
    <3>1. /\ Acts(moving, moved, {w}) /\ moved.autos = moving.autos /\ moved.moves = moving.moves
          /\ moved.buildings = moving.buildings
          /\ moved.observers = moving.observers /\ moved.pending = moving.pending
          /\ w \in DOMAIN moving.told => moved.told[w].to = dest /\ moved.told[w].target = moving.told[w].target
      BY <2>1, <2>7, DispatchMoveActionEventActs
    <3> HIDE DEF moved
    <3>2. Going(moved, w) = dest
      BY <2>2, <2>6, <2>9, <3>1, GoingIs
    <3>3. Acts(stopped, moved, {w})
      BY <2>6, <3>1, ActsThen
    <3>4. OnlyMove(stopped, moved, w)
      BY <2>6, <3>1, <3>2, <3>3 DEF OnlyMove, Acts
    <3> QED
      BY <2>3, <2>6, <2>9, <3>4, OnlyMoveThen
  <2> QED
    BY <2>8, <2>9
<1> QED
  BY <1>0, <1>1, <1>2

LEMMA OnRequireSceneMoveIs ==
  ASSUME NEW s, Types(s), NEW w \in DOMAIN s.warriors, NEW dest,
         w \in DOMAIN s.told => s.told[w].to = Going(s, w)
  PROVE  OnlyMove(s, OnRequireSceneMove(s, w, dest), w)
BY OnlyMoveSelf, StartMoveIs DEF OnRequireSceneMove

\* For an auto that does not attack this is all there is to keep.
LEMMA MovedHandled ==
  ASSUME NEW s, Types(s), NEW a \in DOMAIN s.autos, AutoKept(s, a), s.autos[a].status # "attack",
         NEW t, OnlyMove(s, t, a)
  PROVE  Handled(s, t, a)
<1>1. /\ Acts(s, t, {a}) /\ t.autos = s.autos /\ t.buildings = s.buildings
      /\ t.observers = s.observers /\ t.pending = s.pending
      /\ a \in DOMAIN t.told => t.told[a].to = Going(t, a)
  BY DEF OnlyMove
<1>2. Watches(t, a) /\ TimersRight(t, a)
  BY <1>1 DEF AutoKept, Watches, TimersRight
<1>3. ToldRight(t, a)
  BY <1>1 DEF ToldRight
<1>4. AutoKept(t, a)
  BY <1>1, <1>2, <1>3 DEF AutoKept
<1>5. \A b \in Buildings : Mine(t, a, b) = Mine(s, a, b)
  BY <1>1 DEF Mine
<1> QED
  BY <1>1, <1>4, <1>5 DEF Handled

\* A chase goes on, or is over; whom it follows is there.
Follows(s, t, a) ==
  /\ Handled(s, t, a)
  /\ t.autos[a].status # "search" =>
       t.autos[a].target = s.autos[a].target /\ Exists(s, s.autos[a].target)

LEMMA NoBuildingZero ==
  /\ None \notin Buildings
  /\ \A s : Types(s) => ~Exists(s, None)
<1>1. Len(Sites) \in Nat /\ Buildings = 1..Len(Sites)
  BY Sizes
<1> QED
  BY <1>1 DEF None, Exists, Types

LEMMA ApproachIs ==
  ASSUME NEW s, Types(s), NEW a \in DOMAIN s.autos, s.autos[a].status = "chase",
         TimersRight(s, a), ToldRight(s, a), s.autos[a].target # None => Watches(s, a)
  PROVE  Follows(s, Approach(s, a), a)
<1> DEFINE target == s.autos[a].target
<1>1. CASE target = None \/ ~Exists(s, target)
  <2>1. ~Reachable(s, a)
    <3>1. GetTargetDistance(s, a) = -1
      BY <1>1 DEF GetTargetDistance
    <3>2. AttackRange \in Nat
      BY Sizes
    <3> QED
      BY <3>1, <3>2 DEF Reachable
  <2>2. Approach(s, a) = GotoSearch(s, a)
    BY <1>1, <2>1 DEF Approach
  <2>3. BackToSearch(s, GotoSearch(s, a), a)
    BY GotoSearchIs
  <2> QED
    BY <2>2, <2>3 DEF BackToSearch, Follows
<1>2. CASE target # None /\ Exists(s, target) /\ Reachable(s, a)
  <2>1. Approach(s, a) = GotoAttack(s, a)
    BY <1>2 DEF Approach
  <2>2. Attacks(s, GotoAttack(s, a), a)
    BY <1>2, GotoAttackIs
  <2> QED
    BY <1>2, <2>1, <2>2 DEF Attacks, Follows
<1>3. CASE target # None /\ Exists(s, target) /\ ~Reachable(s, a)
  <2> DEFINE t == OnRequireSceneMove(s, a, PosOf(s, target))
  <2>1. Approach(s, a) = t
    BY <1>3 DEF Approach
  <2>2. a \in DOMAIN s.warriors /\ (a \in DOMAIN s.told => s.told[a].to = Going(s, a))
    BY DEF Types, ToldRight
  <2>3. OnlyMove(s, t, a)
    BY <2>2, OnRequireSceneMoveIs
  <2> HIDE DEF t
  <2>4. AutoKept(s, a)
    BY <1>3 DEF AutoKept
  <2>5. Handled(s, t, a)
    BY <2>3, <2>4, MovedHandled
  <2> QED
    BY <1>3, <2>1, <2>3, <2>5 DEF OnlyMove, Follows
<1> QED
  BY <1>1, <1>2, <1>3

\* A chase begins; after an attack there is nobody to chase.
Chases(s, t, a) ==
  /\ Handled(s, t, a)
  /\ t.autos[a].status # "search" =>
       /\ s.autos[a].status # "attack"
       /\ t.autos[a].target = s.autos[a].target /\ Exists(s, s.autos[a].target)

LEMMA GotoChaseIs ==
  ASSUME NEW s, Types(s), NEW a \in DOMAIN s.autos, TimersRight(s, a), ToldRight(s, a),
         s.autos[a].status # "attack" =>
           /\ s.autos[a].target # a
           /\ <<s.autos[a].target, a>> \in s.observers /\ <<s.autos[a].target, a>> \notin s.pending
  PROVE  Chases(s, GotoChase(s, a), a)
<1> DEFINE u == GotoStatus(s, a, "chase")
           t == Approach(u, a)
           target == s.autos[a].target
<1>1. Gone(s, u, a, "chase")
  BY GotoStatusIs
<1>2. GotoChase(s, a) = t
  BY DEF GotoChase
<1> HIDE DEF u
<1>3. /\ Acts(s, u, {a}) /\ Types(u) /\ a \in DOMAIN u.autos /\ u.warriors = s.warriors
      /\ DOMAIN u.told = DOMAIN s.told
      /\ u.autos[a].status = "chase" /\ u.autos[a].timers = {} /\ u.moves = s.moves /\ u.told = s.told
  BY <1>1 DEF Gone, Acts
<1>4. TimersRight(u, a)
  BY <1>3 DEF TimersRight
<1>5. ToldRight(u, a)
  <2>1. Going(u, a) = Going(s, a)
    BY <1>3, GoingSame
  <2> QED
    BY <1>3, <2>1 DEF ToldRight
<1>6. s.autos[a].status = "attack" => u.autos[a].target = None
  BY <1>1 DEF Gone
<1>7. s.autos[a].status # "attack" => u.autos[a].target = target /\ Watches(u, a)
  <2> SUFFICES ASSUME s.autos[a].status # "attack" PROVE u.autos[a].target = target /\ Watches(u, a)
    OBVIOUS
  <2>1. u.autos[a].target = target
    BY <1>1 DEF Gone
  <2>2. target # a /\ <<target, a>> \in s.observers /\ <<target, a>> \notin s.pending
    OBVIOUS
  <2>3. /\ <<target, a>> \in u.observers <=> <<target, a>> \in s.observers
        /\ <<target, a>> \in u.pending <=> <<target, a>> \in s.pending
    BY <1>1, <2>2 DEF Gone
  <2> QED
    BY <2>1, <2>2, <2>3 DEF Watches
<1>8. Follows(u, t, a)
  BY <1>3, <1>4, <1>5, <1>6, <1>7, ApproachIs
<1> HIDE DEF t
<1>9. Acts(s, t, {a}) /\ AutoKept(t, a)
  BY <1>3, <1>8, ActsThen DEF Follows, Handled
<1>10. ASSUME NEW b \in Buildings
       PROVE  t.buildings[b].targeted - Mine(t, a, b) = s.buildings[b].targeted - Mine(s, a, b)
  <2>1. s.buildings[b].targeted \in Int /\ Mine(s, a, b) \in Int /\ Mine(u, a, b) = 0
    BY <1>3 DEF Types, BuildingSet, Mine
  <2>2. u.buildings[b].targeted = s.buildings[b].targeted - Mine(s, a, b)
    BY <1>1 DEF Gone
  <2>3. t.buildings[b].targeted - Mine(t, a, b) = u.buildings[b].targeted - Mine(u, a, b)
    BY <1>8 DEF Follows, Handled
  <2> QED
    BY <2>1, <2>2, <2>3
<1>11. t.autos[a].status # "search" =>
         /\ s.autos[a].status # "attack"
         /\ t.autos[a].target = target /\ Exists(s, target)
  <2> SUFFICES ASSUME t.autos[a].status # "search"
               PROVE  /\ s.autos[a].status # "attack"
                      /\ t.autos[a].target = target /\ Exists(s, target)
    OBVIOUS
  <2>1. t.autos[a].target = u.autos[a].target /\ Exists(u, u.autos[a].target)
    BY <1>8 DEF Follows
  <2>2. s.autos[a].status # "attack"
    BY <1>3, <1>6, <2>1, NoBuildingZero
  <2> QED
    BY <1>3, <1>7, <2>1, <2>2 DEF Exists
<1> QED
  BY <1>2, <1>9, <1>10, <1>11 DEF Chases, Handled

-----------------------------------------------------------------------------
(* What an auto does when it is told of an event. *)

LEMMA HandledSelf ==
  ASSUME NEW s, Types(s), NEW a, AutoKept(s, a)
  PROVE  Handled(s, s, a)
BY ActsSelf DEF Handled

\* It keeps its target, or has taken the attacker for one, or has none.
Targets(s, t, a, event) ==
  t.autos[a].status # "search" =>
    \/ /\ s.autos[a].status # "search" /\ t.autos[a].target = s.autos[a].target
       /\ event.type = "lost" => t.autos[a].target # event.of
    \/ event.type = "attacked" /\ a = event.of /\ t.autos[a].target = event.by

Reacts(s, t, a, event) == Handled(s, t, a) /\ Targets(s, t, a, event)

LEMMA MoveStepReacts ==
  ASSUME NEW s, Types(s), NEW a \in DOMAIN s.autos, AutoKept(s, a), NEW event, event.type = "moveStep"
  PROVE  Reacts(s, OnEventSceneMoveStep(s, a, event.of), a, event)
<1> DEFINE w == event.of
<1>0. TimersRight(s, a) /\ ToldRight(s, a) /\ Watches(s, a) /\ s.autos[a].status \in {"search", "chase", "attack"}
  BY DEF AutoKept, Types, AutoSet
<1>1. Reacts(s, s, a, event)
  BY HandledSelf DEF Reacts, Targets
<1>2. CASE s.autos[a].status = "attack"
  <2>1. Chases(s, GotoChase(s, a), a)
    BY <1>0, <1>2, GotoChaseIs
  <2>2. Reacts(s, GotoChase(s, a), a, event)
    BY <1>2, <2>1 DEF Chases, Reacts, Targets
  <2> QED
    BY <1>1, <1>2, <2>2 DEF OnEventSceneMoveStep, MoveStepInAttack
<1>3. CASE s.autos[a].status = "chase"
  <2>1. Reacts(s, GotoAttack(s, a), a, event)
    <3>1. Attacks(s, GotoAttack(s, a), a)
      BY <1>0, <1>3, GotoAttackIs
    <3> QED
      BY <1>3, <3>1 DEF Attacks, Reacts, Targets
  <2>2. Reacts(s, SetRefindPathTimer(s, a), a, event)
    <3> DEFINE t == SetTimer(s, a, "refind")
    <3>1. Acts(s, t, {a}) /\ SetAuto(s, t, a, s.autos[a].status, s.autos[a].target, s.autos[a].timers \cup {"refind"})
      BY TimerActs
    <3> HIDE DEF t
    <3>2. t.warriors = s.warriors /\ DOMAIN t.told = DOMAIN s.told /\ Going(t, a) = Going(s, a)
      BY <3>1, GoingSame DEF Acts, SetAuto
    <3>3. AutoKept(t, a)
      BY <1>0, <1>3, <3>1, <3>2 DEF AutoKept, Watches, TimersRight, ToldRight, SetAuto
    <3>4. \A b \in Buildings : Mine(t, a, b) = Mine(s, a, b)
      BY <3>1 DEF SetAuto, Mine
    <3>5. Handled(s, t, a)
      BY <3>1, <3>3, <3>4 DEF Handled, SetAuto
    <3>6. Reacts(s, t, a, event)
      BY <1>3, <3>1, <3>5 DEF Reacts, Targets, SetAuto
    <3> QED
      BY <3>6 DEF SetRefindPathTimer, t
  <2> QED
    BY <1>1, <1>3, <2>1, <2>2 DEF OnEventSceneMoveStep, MoveStepInChase
<1>4. CASE s.autos[a].status = "search"
  BY <1>1, <1>4 DEF OnEventSceneMoveStep
<1> QED
  BY <1>0, <1>2, <1>3, <1>4

LEMMA LostReacts ==
  ASSUME NEW s, Types(s), NEW a \in DOMAIN s.autos, AutoKept(s, a), NEW event, event.type = "lost"
  PROVE  Reacts(s, OnEventTargetLost(s, a, event.of), a, event)
<1>0. TimersRight(s, a) /\ ToldRight(s, a) /\ s.autos[a].status \in {"search", "chase", "attack"}
  BY DEF AutoKept, Types, AutoSet
<1>1. s.autos[a].status = "search" \/ s.autos[a].target # event.of => Reacts(s, s, a, event)
  BY HandledSelf DEF Reacts, Targets
<1>2. Reacts(s, GotoSearch(s, a), a, event)
  <2>1. BackToSearch(s, GotoSearch(s, a), a)
    BY <1>0, GotoSearchIs
  <2> QED
    BY <2>1 DEF BackToSearch, Reacts, Targets
<1> QED
  BY <1>0, <1>1, <1>2 DEF OnEventTargetLost, LostInAttack, LostInChase

LEMMA AttackedReacts ==
  ASSUME NEW s, Types(s), NEW a \in DOMAIN s.autos, AutoKept(s, a), NEW event, event.type = "attacked",
         event.by \in 0..MaxId, event.by # event.of,
         a = event.of => <<event.by, a>> \notin s.pending
  PROVE  Reacts(s, OnEventCombatAttacked(s, a, event.of, event.by), a, event)
<1> DEFINE by == event.by
<1>1. Reacts(s, s, a, event)
  BY HandledSelf DEF Reacts, Targets
<1>2. CASE s.autos[a].status = "search" /\ a = event.of
  <2> DEFINE u == [s EXCEPT !.autos[a].target = by]
             v == Observe(u, by, a)
             t == GotoChase(v, a)
  <2>1. Acts(s, u, {a}) /\ SetAuto(s, u, a, s.autos[a].status, by, s.autos[a].timers)
    BY TargetActs
  <2>0. OnEventCombatAttacked(s, a, event.of, event.by) = t
    BY <1>2 DEF OnEventCombatAttacked, SetTarget
  <2> HIDE DEF u
  <2>2. Types(u) /\ a \in DOMAIN u.autos
    BY <2>1 DEF Acts
  <2>3. /\ Acts(u, v, {a}) /\ SameBut(u, v)
        /\ <<by, a>> \in v.observers /\ v.pending = u.pending
    BY <2>2, ObserveActs
  <2> HIDE DEF v
  <2>4. Acts(s, v, {a})
    BY <2>1, <2>3, ActsThen
  <2>5. /\ Types(v) /\ a \in DOMAIN v.autos /\ v.warriors = s.warriors /\ DOMAIN v.told = DOMAIN s.told
        /\ v.autos[a].status = "search" /\ v.autos[a].timers = s.autos[a].timers /\ v.autos[a].target = by
        /\ v.moves = s.moves /\ v.told = s.told /\ v.buildings = s.buildings /\ v.pending = s.pending
    BY <1>2, <2>1, <2>3, <2>4 DEF Acts, SetAuto, SameBut
  <2>6. TimersRight(v, a)
    BY <1>2, <2>5 DEF AutoKept, TimersRight
  <2>7. ToldRight(v, a)
    <3>1. Going(v, a) = Going(s, a)
      BY <2>5, GoingSame
    <3> QED
      BY <2>5, <3>1 DEF AutoKept, ToldRight
  <2>8. Chases(v, t, a)
    BY <1>2, <2>3, <2>5, <2>6, <2>7, GotoChaseIs
  <2> HIDE DEF t
  <2>9. Acts(s, t, {a}) /\ AutoKept(t, a)
    BY <2>4, <2>8, ActsThen DEF Chases, Handled
  <2>10. \A b \in Buildings : Mine(v, a, b) = Mine(s, a, b)
    BY <1>2, <2>5 DEF Mine
  <2>11. Handled(s, t, a)
    BY <2>5, <2>8, <2>9, <2>10 DEF Handled, Chases
  <2>12. Reacts(s, t, a, event)
    BY <1>2, <2>5, <2>8, <2>11 DEF Reacts, Targets, Chases
  <2> QED
    BY <2>0, <2>12
<1>3. CASE ~(s.autos[a].status = "search" /\ a = event.of)
  BY <1>1, <1>3 DEF OnEventCombatAttacked
<1> QED
  BY <1>2, <1>3

\* An event as the battle sends it, and an auto that may be attacked will watch the attacker.
Proper(event) ==
  /\ event.type \in {"moveStep", "lost", "attacked"}
  /\ event.type = "attacked" => event.by \in 0..MaxId /\ event.by # event.of

MayWatch(s, a, event) ==
  event.type = "attacked" /\ a = event.of => <<event.by, a>> \notin s.pending

LEMMA OnEventReacts ==
  ASSUME NEW s, Types(s), NEW a \in DOMAIN s.autos, AutoKept(s, a), NEW event, Proper(event),
         MayWatch(s, a, event)
  PROVE  Reacts(s, OnEvent(s, a, event), a, event)
<1>1. CASE event.type = "moveStep"
  <2>1. OnEvent(s, a, event) = OnEventSceneMoveStep(s, a, event.of)
    BY <1>1 DEF OnEvent
  <2> QED
    BY <1>1, <2>1, MoveStepReacts
<1>2. CASE event.type = "lost"
  <2>1. OnEvent(s, a, event) = OnEventTargetLost(s, a, event.of)
    BY <1>2 DEF OnEvent
  <2> QED
    BY <1>2, <2>1, LostReacts
<1>3. CASE event.type = "attacked"
  <2>1. OnEvent(s, a, event) = OnEventCombatAttacked(s, a, event.of, event.by)
    BY <1>3 DEF OnEvent
  <2> QED
    BY <1>3, <2>1, AttackedReacts DEF Proper, MayWatch
<1> QED
  BY <1>1, <1>2, <1>3 DEF Proper

-----------------------------------------------------------------------------
(* Dispatch: every auto that watches is told in turn. *)

\* A set of naturals has a least one; what holds of 0 and with k of k + 1 holds of all.
LEMMA LeastNat ==
  ASSUME NEW T, T \subseteq Nat, T # {}
  PROVE  \E n \in T : \A m \in T : n <= m
<1> DEFINE R == OpToRel(<, Nat)
<1>1. IsWellFoundedOn(R, Nat)
  BY NatLessThanWellFounded
<1>2. \A x, y \in Nat : x < y => <<x, y>> \in R
  BY DEF OpToRel
<1> HIDE DEF R
<1>3. PICK n \in T : \A y \in T : ~ (<<y, n>> \in R)
  BY <1>1, WFMin
<1>4. ASSUME NEW m \in T PROVE ~(m < n)
  BY <1>2, <1>3, Zenon
<1>5. ASSUME NEW m \in T PROVE n <= m
  BY <1>4
<1> QED
  BY <1>5

LEMMA Induction ==
  ASSUME NEW T, 0 \in T, NEW n \in Nat, \A m \in 0..(n - 1) : m \in T => m + 1 \in T
  PROVE  n \in T
<1> DEFINE U == {m \in 0..n : m \notin T}
<1> SUFFICES ASSUME n \notin T PROVE FALSE
  OBVIOUS
<1>1. U # {} /\ U \subseteq Nat
  OBVIOUS
<1>2. PICK m \in U : \A k \in U : m <= k
  <2> HIDE DEF U
  <2> QED
    BY <1>1, LeastNat
<1>3. m # 0 /\ m - 1 \in 0..(n - 1)
  OBVIOUS
<1>4. m - 1 \in T
  BY <1>2, <1>3
<1> QED
  BY <1>3, <1>4

\* The battle when those up to n have been told.
Told(s, event, f, n) ==
  IF n = 0 THEN [s EXCEPT !.dispatching = TRUE]
  ELSE IF n \in Watching(s, event.of) THEN OnEvent(f[n - 1], n, event)
  ELSE f[n - 1]

LEMMA TellingIs ==
  ASSUME NEW s, s.ids \in Nat, NEW event
  PROVE  Telling(s, event) = [n \in 0..s.ids |-> Told(s, event, Telling(s, event), n)]
<1> DEFINE m == s.ids
           Is(f, k) == f = [n \in 0..k |-> Told(s, event, f, n)]
           T == {k \in 0..m : \E f : Is(f, k)}
<1>1. ASSUME NEW n, NEW f, NEW g, n # 0 => f[n - 1] = g[n - 1]
      PROVE  Told(s, event, f, n) = Told(s, event, g, n)
  BY <1>1 DEF Told
<1>2. 0 \in T
  <2> DEFINE g == [n \in 0..0 |-> Told(s, event, <<>>, n)]
  <2>1. \A n \in 0..0 : Told(s, event, <<>>, n) = Told(s, event, g, n)
    BY DEF Told
  <2>2. g = [n \in 0..0 |-> Told(s, event, g, n)]
    BY <2>1, Zenon
  <2> HIDE DEF g
  <2>3. Is(g, 0)
    BY <2>2
  <2> HIDE DEF Is
  <2> QED
    BY <2>3
<1>3. ASSUME NEW k \in 0..(m - 1), k \in T PROVE k + 1 \in T
  <2>1. PICK f : Is(f, k)
    BY <1>3
  <2> DEFINE g == [n \in 0..(k + 1) |-> IF n = k + 1 THEN Told(s, event, f, n) ELSE f[n]]
  <2>2. \A n \in 0..k : g[n] = f[n] /\ f[n] = Told(s, event, f, n)
    <3>1. \A n \in 0..k : f[n] = Told(s, event, f, n)
      BY <2>1
    <3>2. \A n \in 0..k : n \in 0..(k + 1) /\ n # k + 1
      BY <1>3
    <3>3. \A n \in 0..k : g[n] = f[n]
      BY <3>2
    <3> QED
      BY <3>1, <3>3
  <2>3. g[k + 1] = Told(s, event, f, k + 1)
    OBVIOUS
  <2>4. g = [n \in 0..(k + 1) |-> g[n]]
    OBVIOUS
  <2> HIDE DEF g
  <2>5. ASSUME NEW n \in 0..(k + 1) PROVE g[n] = Told(s, event, g, n)
    <3>1. n # 0 => f[n - 1] = g[n - 1]
      BY <2>2
    <3>2. Told(s, event, f, n) = Told(s, event, g, n)
      BY <1>1, <3>1
    <3> QED
      BY <2>2, <2>3, <3>2
  <2>6. Is(g, k + 1)
    BY <2>4, <2>5
  <2> HIDE DEF Is
  <2> QED
    BY <2>6
<1>4. \E f : Is(f, m)
  <2>1. m \in T
    <3> HIDE DEF T
    <3> QED
      BY <1>2, <1>3, Induction
  <2> HIDE DEF Is
  <2> QED
    BY <2>1
<1>5. \E f : f = [n \in 0..m |-> Told(s, event, f, n)]
  BY <1>4
<1> DEFINE t == CHOOSE f : f = [n \in 0..m |-> Told(s, event, f, n)]
<1>6. t = [n \in 0..m |-> Told(s, event, t, n)]
  BY <1>5, Zenon
<1>7. Telling(s, event) = t
  BY Zenon DEF Telling, Told
<1> HIDE DEF t
<1> QED
  BY <1>6, <1>7

LEMMA ActsMore ==
  ASSUME NEW s, NEW t, NEW A, NEW B, Acts(s, t, A), A \subseteq B
  PROVE  Acts(s, t, B)
BY DEF Acts

\* What the others do leaves an auto as it is.
LEMMA ActsKeeps ==
  ASSUME NEW s, Types(s), NEW t, NEW A, Acts(s, t, A), NEW a \in DOMAIN s.autos, a \notin A, AutoKept(s, a)
  PROVE  AutoKept(t, a)
<1>1. a \in DOMAIN s.warriors
  BY DEF Types
<1>2. /\ t.autos[a] = s.autos[a] /\ t.moves[a] = s.moves[a] /\ t.warriors = s.warriors
      /\ DOMAIN t.told = DOMAIN s.told /\ (a \in DOMAIN s.told => t.told[a] = s.told[a])
      /\ \A x : /\ <<x, a>> \in t.observers <=> <<x, a>> \in s.observers
                /\ <<x, a>> \in t.pending <=> <<x, a>> \in s.pending
  BY <1>1 DEF Acts
<1>3. Going(t, a) = Going(s, a)
  BY <1>2, GoingSame
<1>4. Watches(t, a)
  BY <1>2 DEF AutoKept, Watches
<1>5. TimersRight(t, a) /\ ToldRight(t, a)
  BY <1>2, <1>3 DEF AutoKept, TimersRight, ToldRight
<1> QED
  BY <1>2, <1>4, <1>5 DEF AutoKept

\* The attackers of a building are finitely many: its own among them or not.
LEMMA AttackersFinite ==
  ASSUME NEW s, Types(s), NEW b
  PROVE  /\ Attackers(s, b) \subseteq 1..s.ids /\ IsFiniteSet(Attackers(s, b))
         /\ Cardinality(Attackers(s, b)) \in 0..s.ids
<1>1. s.ids \in Nat /\ Len(Sites) \in Nat
  BY Sizes, IdsNat
<1>2. Attackers(s, b) \subseteq 1..s.ids
  BY <1>1 DEF Attackers, Types
<1>3. IsFiniteSet(1..s.ids) /\ Cardinality(1..s.ids) = s.ids
  <2> DEFINE m == s.ids
  <2>1. m \in Int /\ 1 \in Int /\ (IF 1 > m THEN 0 ELSE m - 1 + 1) = m
    BY <1>1
  <2> HIDE DEF m
  <2>2. IsFiniteSet(1..m) /\ Cardinality(1..m) = IF 1 > m THEN 0 ELSE m - 1 + 1
    BY <2>1, FS_Interval
  <2> QED
    BY <2>1, <2>2 DEF m
<1>4. IsFiniteSet(Attackers(s, b)) /\ Cardinality(Attackers(s, b)) <= s.ids
  BY <1>2, <1>3, FS_Subset
<1> QED
  BY <1>1, <1>2, <1>4, FS_CardinalityType

LEMMA AttackersBut ==
  ASSUME NEW s, Types(s), NEW a \in DOMAIN s.autos, NEW b
  PROVE  /\ IsFiniteSet(Attackers(s, b) \ {a})
         /\ Cardinality(Attackers(s, b) \ {a}) = Cardinality(Attackers(s, b)) - Mine(s, a, b)
<1>1. IsFiniteSet(Attackers(s, b)) /\ Cardinality(Attackers(s, b)) \in Int
  BY AttackersFinite
<1>2. Mine(s, a, b) = IF a \in Attackers(s, b) THEN 1 ELSE 0
  BY DEF Mine, Attackers
<1> QED
  BY <1>1, <1>2, FS_RemoveElement

LEMMA CountedKept ==
  ASSUME NEW s, Types(s), Counted(s), NEW a \in DOMAIN s.autos, NEW t, Handled(s, t, a)
  PROVE  Counted(t)
<1>1. /\ Acts(s, t, {a}) /\ Types(t) /\ DOMAIN t.autos = DOMAIN s.autos
      /\ \A c \in DOMAIN s.autos : c # a => t.autos[c] = s.autos[c]
  BY DEF Handled, Acts
<1>2. ASSUME NEW b \in Buildings
      PROVE  t.buildings[b].targeted = Cardinality(Attackers(t, b))
  <2>1. Attackers(t, b) \ {a} = Attackers(s, b) \ {a}
    BY <1>1 DEF Attackers
  <2>2. /\ Cardinality(Attackers(s, b)) - Mine(s, a, b) = Cardinality(Attackers(t, b)) - Mine(t, a, b)
    BY <1>1, <2>1, AttackersBut
  <2>3. /\ Cardinality(Attackers(s, b)) \in Int /\ Cardinality(Attackers(t, b)) \in Int
        /\ Mine(s, a, b) \in Int /\ Mine(t, a, b) \in Int
        /\ t.buildings[b].targeted \in Int
    <3>1. t.ids \in Int /\ s.ids \in Int /\ t.buildings[b].targeted \in Int
      BY <1>1 DEF Types, BuildingSet
    <3>2. Mine(s, a, b) \in Int /\ Mine(t, a, b) \in Int
      BY DEF Mine
    <3> QED
      BY <1>1, <3>1, <3>2, AttackersFinite
  <2>4. s.buildings[b].targeted = Cardinality(Attackers(s, b))
    BY DEF Counted
  <2>5. t.buildings[b].targeted - Mine(t, a, b) = s.buildings[b].targeted - Mine(s, a, b)
    BY DEF Handled
  <2> QED
    BY <2>2, <2>3, <2>4, <2>5
<1> QED
  BY <1>2 DEF Counted

\* The battle while an event is dispatched, of s, when those up to n have been told.
ToldUpTo(s, t, event, n) ==
  /\ Acts([s EXCEPT !.dispatching = TRUE], t, Watching(s, event.of) \cap 1..n)
  /\ Counted(t)
  /\ \A a \in Watching(s, event.of) \cap 1..n : AutoKept(t, a) /\ Targets(s, t, a, event)

\* The AI is in order, and no event is on its way.
Calm(s) ==
  /\ Types(s) /\ Counted(s) /\ ~s.dispatching /\ s.pending = {}
  /\ \A a \in DOMAIN s.autos : AutoKept(s, a)

LEMMA DispatchingIs ==
  ASSUME NEW s, IsBattle(s)
  PROVE  LET t == [s EXCEPT !.dispatching = TRUE]
         IN /\ IsBattle(t) /\ t.autos = s.autos /\ t.moves = s.moves /\ t.told = s.told
            /\ t.warriors = s.warriors /\ t.ids = s.ids /\ t.buildings = s.buildings
            /\ t.observers = s.observers /\ t.pending = s.pending /\ t.grid = s.grid
            /\ t.roles = s.roles /\ t.toldBuildings = s.toldBuildings
<1> DEFINE t(v) == [s EXCEPT !.dispatching = v]
<1>1. ASSUME NEW v
      PROVE  /\ IsBattle(t(v)) /\ t(v).autos = s.autos /\ t(v).moves = s.moves /\ t(v).told = s.told
             /\ t(v).warriors = s.warriors /\ t(v).ids = s.ids /\ t(v).buildings = s.buildings
             /\ t(v).observers = s.observers /\ t(v).pending = s.pending /\ t(v).grid = s.grid
             /\ t(v).roles = s.roles /\ t(v).toldBuildings = s.toldBuildings
  BY DEF IsBattle
<1> QED
  BY <1>1, Zenon

LEMMA ToldNext ==
  ASSUME NEW s, Calm(s), NEW event, Proper(event), NEW n \in 0..(s.ids - 1), NEW t, ToldUpTo(s, t, event, n)
  PROVE  ToldUpTo(s, IF n + 1 \in Watching(s, event.of) THEN OnEvent(t, n + 1, event) ELSE t, event, n + 1)
<1> DEFINE s0 == [s EXCEPT !.dispatching = TRUE]
           W == Watching(s, event.of)
           a == n + 1
<1>0. s.ids \in Nat
  BY Sizes, IdsNat DEF Calm
<1>1. /\ IsBattle(s0) /\ s0.autos = s.autos /\ s0.moves = s.moves /\ s0.told = s.told /\ s0.warriors = s.warriors
      /\ s0.ids = s.ids /\ s0.buildings = s.buildings /\ s0.observers = s.observers /\ s0.pending = s.pending
  BY DispatchingIs DEF Calm, Types
<1>2. ToldUpTo(s, t, event, n) <=>
        /\ Acts(s0, t, W \cap 1..n) /\ Counted(t)
        /\ \A c \in W \cap 1..n : AutoKept(t, c) /\ Targets(s, t, c, event)
  BY DEF ToldUpTo
<1>3. ASSUME NEW u
      PROVE  ToldUpTo(s, u, event, a) <=>
        /\ Acts(s0, u, W \cap 1..a) /\ Counted(u)
        /\ \A c \in W \cap 1..a : AutoKept(u, c) /\ Targets(s, u, c, event)
  BY DEF ToldUpTo
<1>12. Types(s0)
  BY <1>1 DEF Calm, Types
<1>13. \A c \in DOMAIN s0.autos : AutoKept(s0, c)
  <2> SUFFICES ASSUME NEW c \in DOMAIN s.autos PROVE AutoKept(s0, c)
    BY <1>1
  <2>1. AutoKept(s, c)
    BY DEF Calm
  <2>2. Going(s0, c) = Going(s, c)
    BY <1>1, GoingSame
  <2> HIDE DEF s0
  <2>3. Watches(s0, c) /\ TimersRight(s0, c) /\ ToldRight(s0, c)
    BY <1>1, <2>1, <2>2 DEF AutoKept, Watches, TimersRight, ToldRight
  <2> QED
    BY <1>1, <2>1, <2>3 DEF AutoKept
<1>14. W \subseteq DOMAIN s0.autos
  BY <1>1 DEF Watching
<1> HIDE DEF s0, W
<1>4. 1..a = 1..n \cup {a} /\ a \notin 1..n
  BY <1>0
<1>5. CASE a \notin W
  <2>1. W \cap 1..a = W \cap 1..n
    BY <1>4, <1>5
  <2>2. ToldUpTo(s, t, event, a)
    BY <1>2, <1>3, <2>1
  <2> QED
    BY <1>5, <2>2 DEF W
<1>6. CASE a \in W
  <2> DEFINE u == OnEvent(t, a, event)
             A == W \cap 1..n
             B == W \cap 1..a
  <2>1. a \in DOMAIN t.autos /\ Types(t) /\ Acts(s0, t, A) /\ a \notin A /\ a \in DOMAIN s0.autos
    BY <1>2, <1>4, <1>6, <1>14 DEF Acts
  <2>2. AutoKept(t, a)
    BY <1>12, <1>13, <2>1, ActsKeeps
  <2>3. MayWatch(t, a, event)
    <3>1. \A x : <<x, a>> \notin t.pending
      BY <1>1, <2>1 DEF Acts, Calm
    <3> QED
      BY <3>1 DEF MayWatch
  <2>4. Reacts(t, u, a, event)
    BY <2>1, <2>2, <2>3, OnEventReacts
  <2> HIDE DEF u
  <2>5. Acts(t, u, {a}) /\ AutoKept(u, a)
    BY <2>4 DEF Reacts, Handled
  <2>6. Counted(u)
    BY <1>2, <2>1, <2>4, CountedKept DEF Reacts
  <2>7. Acts(s0, u, B)
    <3>1. A \subseteq B /\ {a} \subseteq B
      BY <1>4, <1>6
    <3> HIDE DEF A, B
    <3> QED
      BY <2>1, <2>5, <3>1, ActsMore, ActsThen
  <2>8. ASSUME NEW c \in B PROVE AutoKept(u, c) /\ Targets(s, u, c, event)
    <3>1. CASE c = a
      <4>1. Targets(t, u, a, event)
        BY <2>4 DEF Reacts
      <4>2. t.autos[a] = s.autos[a]
        BY <1>1, <2>1 DEF Acts
      <4>3. Targets(s, u, a, event)
        BY <4>1, <4>2 DEF Targets
      <4> QED
        BY <2>5, <3>1, <4>3
    <3>2. CASE c # a
      <4>1. c \in A /\ c \in DOMAIN t.autos
        BY <1>4, <1>14, <2>1, <2>8, <3>2 DEF Acts
      <4>2. AutoKept(t, c) /\ Targets(s, t, c, event)
        BY <1>2, <4>1
      <4>3. AutoKept(u, c)
        BY <2>1, <2>5, <3>2, <4>1, <4>2, ActsKeeps
      <4>4. u.autos[c] = t.autos[c]
        BY <2>5, <3>2, <4>1 DEF Acts
      <4>5. Targets(s, u, c, event)
        BY <4>2, <4>4 DEF Targets
      <4> QED
        BY <4>3, <4>5
    <3> QED
      BY <3>1, <3>2
  <2>9. ToldUpTo(s, u, event, a)
    BY <1>3, <2>6, <2>7, <2>8
  <2> QED
    BY <1>6, <2>9 DEF u, W
<1> QED
  BY <1>5, <1>6

\* Everything but the AI and what the players know of the warriors.
Same(s, t) ==
  /\ t.warriors = s.warriors /\ t.ids = s.ids /\ t.grid = s.grid /\ t.roles = s.roles
  /\ t.toldBuildings = s.toldBuildings
  /\ DOMAIN t.autos = DOMAIN s.autos /\ DOMAIN t.told = DOMAIN s.told
  /\ \A b \in Buildings : /\ t.buildings[b].camp = s.buildings[b].camp
                          /\ t.buildings[b].hp = s.buildings[b].hp
                          /\ t.buildings[b].status = s.buildings[b].status

\* After an event all is in order again.
Dispatched(s, t, event) ==
  /\ Calm(t) /\ Same(s, t)
  /\ \A a \in DOMAIN s.autos : Targets(s, t, a, event)

LEMMA AllTold ==
  ASSUME NEW s, Calm(s), NEW event, Proper(event)
  PROVE  ToldUpTo(s, Telling(s, event)[s.ids], event, s.ids)
<1> DEFINE f == Telling(s, event)
           T == {n \in 0..s.ids : ToldUpTo(s, f[n], event, n)}
<1>0. s.ids \in Nat
  BY Sizes, IdsNat DEF Calm
<1>1. f = [n \in 0..s.ids |-> Told(s, event, f, n)]
  BY <1>0, TellingIs
<1> HIDE DEF f
<1>2. \A n \in 0..s.ids : f[n] = Told(s, event, f, n)
  BY <1>1
<1>3. 0 \in T
  <2> DEFINE s0 == [s EXCEPT !.dispatching = TRUE]
  <2>1. f[0] = s0
    <3>1. f[0] = Told(s, event, f, 0)
      BY <1>0, <1>2
    <3> QED
      BY <3>1, Zenon DEF Told
  <2>2. /\ IsBattle(s0) /\ s0.autos = s.autos /\ s0.moves = s.moves /\ s0.told = s.told
        /\ s0.warriors = s.warriors /\ s0.ids = s.ids /\ s0.buildings = s.buildings
    BY DispatchingIs DEF Calm, Types
  <2>3. Types(s0) /\ Counted(s0)
    <3> HIDE DEF s0
    <3> QED
      BY <2>2 DEF Calm, Types, Counted, Attackers
  <2>4. Acts(s0, s0, Watching(s, event.of) \cap 1..0)
    BY <2>3, ActsSelf
  <2>5. ToldUpTo(s, s0, event, 0)
    BY <2>3, <2>4 DEF ToldUpTo
  <2> HIDE DEF s0
  <2> QED
    BY <1>0, <2>1, <2>5
<1>4. ASSUME NEW n \in 0..(s.ids - 1), n \in T PROVE n + 1 \in T
  <2>1. f[n + 1] = IF n + 1 \in Watching(s, event.of) THEN OnEvent(f[n], n + 1, event) ELSE f[n]
    <3>1. n + 1 \in 0..s.ids /\ n + 1 # 0 /\ (n + 1) - 1 = n
      BY <1>0
    <3> DEFINE k == n + 1
    <3>2. f[k] = Told(s, event, f, k)
      BY <1>2, <3>1
    <3>3. k # 0 /\ k - 1 = n
      BY <3>1
    <3> HIDE DEF k
    <3>4. f[k] = IF k \in Watching(s, event.of) THEN OnEvent(f[n], k, event) ELSE f[n]
      BY <3>2, <3>3, Zenon DEF Told
    <3> QED
      BY <3>4 DEF k
  <2>2. ToldUpTo(s, f[n], event, n)
    BY <1>4
  <2>3. ToldUpTo(s, f[n + 1], event, n + 1)
    BY <2>1, <2>2, ToldNext
  <2> QED
    BY <1>0, <2>3
<1>5. s.ids \in T
  <2> HIDE DEF T
  <2> QED
    BY <1>0, <1>3, <1>4, Induction
<1> QED
  BY <1>5 DEF f

\* The end of a dispatch.
LEMMA EndsIs ==
  ASSUME NEW s, IsBattle(s)
  PROVE  LET t == [s EXCEPT !.dispatching = FALSE, !.observers = @ \ s.pending, !.pending = {}]
         IN /\ IsBattle(t) /\ t.autos = s.autos /\ t.moves = s.moves /\ t.told = s.told
            /\ t.warriors = s.warriors /\ t.ids = s.ids /\ t.buildings = s.buildings
            /\ t.observers = s.observers \ s.pending /\ t.pending = {} /\ t.grid = s.grid
            /\ t.roles = s.roles /\ t.toldBuildings = s.toldBuildings /\ ~t.dispatching
<1> DEFINE u(v) == [s EXCEPT !.dispatching = v]
           w(v) == [u(v) EXCEPT !.observers = s.observers \ s.pending]
           t(v) == [w(v) EXCEPT !.pending = {}]
<1>1. ASSUME NEW v
      PROVE  /\ IsBattle(t(v)) /\ t(v).autos = s.autos /\ t(v).moves = s.moves /\ t(v).told = s.told
             /\ t(v).warriors = s.warriors /\ t(v).ids = s.ids /\ t(v).buildings = s.buildings
             /\ t(v).observers = s.observers \ s.pending /\ t(v).pending = {} /\ t(v).grid = s.grid
             /\ t(v).roles = s.roles /\ t(v).toldBuildings = s.toldBuildings
             /\ t(v).dispatching = v
  <2> DEFINE x == u(v)
             y == w(v)
  <2>1. /\ IsBattle(x) /\ x.autos = s.autos /\ x.moves = s.moves /\ x.told = s.told
        /\ x.warriors = s.warriors /\ x.ids = s.ids /\ x.buildings = s.buildings
        /\ x.observers = s.observers /\ x.pending = s.pending /\ x.grid = s.grid
        /\ x.roles = s.roles /\ x.toldBuildings = s.toldBuildings
        /\ x.dispatching = v
    BY DEF IsBattle
  <2>2. y = [x EXCEPT !.observers = s.observers \ s.pending] /\ t(v) = [y EXCEPT !.pending = {}]
    OBVIOUS
  <2> HIDE DEF x, u
  <2>3. /\ IsBattle(y) /\ y.autos = s.autos /\ y.moves = s.moves /\ y.told = s.told
        /\ y.warriors = s.warriors /\ y.ids = s.ids /\ y.buildings = s.buildings
        /\ y.observers = s.observers \ s.pending /\ y.grid = s.grid
        /\ y.roles = s.roles /\ y.toldBuildings = s.toldBuildings
        /\ y.dispatching = v
    BY <2>1, <2>2 DEF IsBattle
  <2> HIDE DEF y, w
  <2> DEFINE z == t(v)
  <2> HIDE DEF t, z
  <2>4. /\ IsBattle(z) /\ z.autos = s.autos /\ z.moves = s.moves /\ z.told = s.told
        /\ z.warriors = s.warriors /\ z.ids = s.ids /\ z.buildings = s.buildings
        /\ z.observers = s.observers \ s.pending /\ z.pending = {} /\ z.grid = s.grid
        /\ z.roles = s.roles /\ z.toldBuildings = s.toldBuildings
        /\ z.dispatching = v
    BY <2>2, <2>3 DEF IsBattle, z
  <2> QED
    BY <2>4 DEF z
<1>2. ASSUME NEW v, v = FALSE, t(v).dispatching = v PROVE ~t(v).dispatching
  <2> HIDE DEF t
  <2> QED
    BY <1>2, Zenon
<1>3. ~t(FALSE).dispatching
  <2> HIDE DEF t
  <2> QED
    BY <1>1, <1>2, Zenon
<1>4. t(FALSE) = [s EXCEPT !.dispatching = FALSE, !.observers = @ \ s.pending, !.pending = {}]
  BY Zenon
<1> DEFINE x == [s EXCEPT !.dispatching = FALSE, !.observers = @ \ s.pending, !.pending = {}]
<1> HIDE DEF t
<1>5. t(FALSE) = x
  BY <1>4
<1> HIDE DEF x
<1>6. /\ IsBattle(x) /\ x.autos = s.autos /\ x.moves = s.moves /\ x.told = s.told
      /\ x.warriors = s.warriors /\ x.ids = s.ids /\ x.buildings = s.buildings
      /\ x.observers = s.observers \ s.pending /\ x.pending = {} /\ x.grid = s.grid
      /\ x.roles = s.roles /\ x.toldBuildings = s.toldBuildings /\ ~x.dispatching
  BY <1>1, <1>3, <1>5, Zenon
<1> QED
  BY <1>6, Zenon DEF x

LEMMA DispatchIs ==
  ASSUME NEW s, Calm(s), NEW event, Proper(event)
  PROVE  Dispatched(s, Dispatch(s, event), event)
<1> DEFINE W == Watching(s, event.of)
           s0 == [s EXCEPT !.dispatching = TRUE]
           u == Telling(s, event)[s.ids]
           t == [u EXCEPT !.dispatching = FALSE, !.observers = @ \ u.pending, !.pending = {}]
<1>0. Dispatch(s, event) = t
  BY Zenon DEF Dispatch
<1>1. /\ IsBattle(s0) /\ s0.autos = s.autos /\ s0.moves = s.moves /\ s0.told = s.told
      /\ s0.warriors = s.warriors /\ s0.ids = s.ids /\ s0.buildings = s.buildings
      /\ s0.observers = s.observers /\ s0.pending = s.pending /\ s0.grid = s.grid
      /\ s0.roles = s.roles /\ s0.toldBuildings = s.toldBuildings
  BY DispatchingIs DEF Calm, Types
<1>2. ToldUpTo(s, u, event, s.ids)
  BY AllTold
<1> HIDE DEF u
<1>3. Acts(s0, u, W \cap 1..s.ids) /\ Counted(u)
      /\ \A a \in W \cap 1..s.ids : AutoKept(u, a) /\ Targets(s, u, a, event)
  BY <1>2 DEF ToldUpTo
<1> HIDE DEF s0
<1>4. W \cap 1..s.ids = W /\ W \subseteq DOMAIN s.autos
  <2>1. s.ids \in Nat /\ Len(Sites) \in Nat
    BY Sizes, IdsNat DEF Calm
  <2>2. DOMAIN s.autos \subseteq 1..s.ids
    BY <2>1 DEF Calm, Types
  <2> QED
    BY <2>2 DEF Watching
<1>5. Acts(s0, u, W)
  BY <1>3, <1>4
<1>6. Types(s0)
  BY <1>1 DEF Calm, Types
<1>7. ASSUME NEW a \in DOMAIN s.autos
      PROVE  AutoKept(u, a) /\ Targets(s, u, a, event)
  <2>1. CASE a \in W
    BY <1>3, <1>4, <2>1
  <2>2. CASE a \notin W
    <3>1. AutoKept(s, a)
      BY DEF Calm
    <3>2. AutoKept(s0, a)
      <4>1. Going(s0, a) = Going(s, a)
        BY <1>1, GoingSame
      <4>2. Watches(s0, a) /\ TimersRight(s0, a) /\ ToldRight(s0, a)
        BY <1>1, <3>1, <4>1 DEF AutoKept, Watches, TimersRight, ToldRight
      <4> QED
        BY <1>1, <3>1, <4>2 DEF AutoKept
    <3>3. AutoKept(u, a)
      BY <1>1, <1>5, <1>6, <2>2, <3>2, ActsKeeps
    <3>4. u.autos[a] = s.autos[a]
      BY <1>1, <1>5, <2>2 DEF Acts
    <3>5. s.autos[a].status # "search" => s.autos[a].target # event.of
      BY <2>2, <3>1 DEF AutoKept, Watches, Watching
    <3>6. Targets(s, u, a, event)
      BY <3>4, <3>5 DEF Targets
    <3> QED
      BY <3>3, <3>6
  <2> QED
    BY <2>1, <2>2
<1>8. Types(u) /\ IsBattle(u) /\ Same(s, u)
  BY <1>1, <1>5 DEF Acts, Types, Same
<1>9. /\ IsBattle(t) /\ t.autos = u.autos /\ t.moves = u.moves /\ t.told = u.told
      /\ t.warriors = u.warriors /\ t.ids = u.ids /\ t.buildings = u.buildings
      /\ t.observers = u.observers \ u.pending /\ t.pending = {} /\ t.grid = u.grid
      /\ t.roles = u.roles /\ t.toldBuildings = u.toldBuildings /\ ~t.dispatching
  BY <1>8, EndsIs
<1> HIDE DEF t, W
<1>10. Types(t) /\ Same(s, t)
  BY <1>8, <1>9 DEF Types, Same
<1>11. Counted(t)
  BY <1>3, <1>9 DEF Counted, Attackers
<1>12. ASSUME NEW a \in DOMAIN s.autos
       PROVE  AutoKept(t, a) /\ Targets(s, t, a, event)
  <2>1. Going(t, a) = Going(u, a)
    BY <1>9, GoingSame
  <2>2. Watches(t, a) /\ TimersRight(t, a) /\ ToldRight(t, a)
    BY <1>7, <1>9, <2>1 DEF AutoKept, Watches, TimersRight, ToldRight
  <2> QED
    BY <1>7, <1>9, <2>2 DEF AutoKept, Targets
<1>13. Calm(t)
  BY <1>9, <1>10, <1>11, <1>12 DEF Calm, Same
<1> QED
  BY <1>0, <1>10, <1>12, <1>13 DEF Dispatched

-----------------------------------------------------------------------------
(* An auto that ends. *)

Finalized(s, t, a) ==
  /\ Calm(t)
  /\ t.warriors = s.warriors /\ t.ids = s.ids /\ t.grid = s.grid /\ t.roles = s.roles
  /\ t.toldBuildings = s.toldBuildings /\ DOMAIN t.told = DOMAIN s.told
  /\ DOMAIN t.autos = DOMAIN s.autos \ {a}
  /\ \A c \in DOMAIN t.autos : t.autos[c] = s.autos[c]
  /\ \A b \in Buildings : /\ t.buildings[b].camp = s.buildings[b].camp
                          /\ t.buildings[b].hp = s.buildings[b].hp
                          /\ t.buildings[b].status = s.buildings[b].status

LEMMA FinalizeIs ==
  ASSUME NEW s, Calm(s), NEW a \in DOMAIN s.autos
  PROVE  Finalized(s, FinalizeAuto(s, a), a)
<1> DEFINE u == StopPresentStatus(s, a)
           g == ResetTarget(u, a)
           t == [g EXCEPT !.autos = Without(@, a)]
<1>0. FinalizeAuto(s, a) = t
  BY DEF FinalizeAuto
<1>1. Types(s) /\ AutoKept(s, a) /\ TimersRight(s, a)
  BY DEF Calm, AutoKept
<1>2. Stopped(s, u, a)
  BY <1>1, StopPresentStatusIs
<1> HIDE DEF u
<1>3. /\ Acts(s, u, {a}) /\ Types(u) /\ a \in DOMAIN u.autos
      /\ \A b \in Buildings : u.buildings[b].targeted = s.buildings[b].targeted - Mine(s, a, b)
  BY <1>2 DEF Stopped, Acts
<1>4. Acts(u, g, {a}) /\ g.buildings = u.buildings
  BY <1>3, ResetTargetActs
<1> HIDE DEF g
<1>5. Acts(s, g, {a})
  BY <1>3, <1>4, ActsThen
<1>6. Types(g) /\ IsBattle(g) /\ ~g.dispatching /\ g.pending = {}
  BY <1>5 DEF Acts, Types, Calm
<1>7. /\ IsBattle(t) /\ t.autos = Without(g.autos, a) /\ t.moves = g.moves /\ t.told = g.told
      /\ t.warriors = g.warriors /\ t.ids = g.ids /\ t.grid = g.grid /\ t.roles = g.roles
      /\ t.buildings = g.buildings /\ t.toldBuildings = g.toldBuildings
      /\ t.observers = g.observers /\ t.pending = g.pending /\ t.dispatching = g.dispatching
  BY <1>6 DEF IsBattle
<1> HIDE DEF t
<1>8. /\ DOMAIN t.autos = DOMAIN s.autos \ {a}
      /\ \A c \in DOMAIN t.autos : t.autos[c] = g.autos[c] /\ g.autos[c] = s.autos[c]
  <2>1. DOMAIN g.autos = DOMAIN s.autos /\ \A c \in DOMAIN s.autos : c # a => g.autos[c] = s.autos[c]
    BY <1>5 DEF Acts
  <2>2. /\ DOMAIN t.autos = DOMAIN g.autos \ {a}
        /\ \A c \in DOMAIN g.autos \ {a} : t.autos[c] = g.autos[c]
    BY <1>7 DEF Without
  <2> QED
    BY <2>1, <2>2
<1>9. Types(t)
  <2>1. \A c \in DOMAIN t.autos : t.autos[c] \in AutoSet
    BY <1>6, <1>8, <1>5 DEF Types, Acts
  <2>2. t.autos = [c \in DOMAIN t.autos |-> t.autos[c]]
    BY <1>7 DEF Without
  <2>3. t.autos \in [DOMAIN t.autos -> AutoSet]
    BY <2>1, <2>2
  <2>4. DOMAIN t.autos \subseteq DOMAIN t.warriors
    BY <1>1, <1>5, <1>7, <1>8 DEF Types, Acts
  <2> QED
    BY <1>6, <1>7, <2>3, <2>4 DEF Types
<1>10. ASSUME NEW c \in DOMAIN t.autos
       PROVE  AutoKept(t, c)
  <2>1. c \in DOMAIN s.autos /\ c \notin {a} /\ AutoKept(s, c)
    BY <1>8 DEF Calm
  <2>2. AutoKept(g, c)
    BY <1>1, <1>5, <2>1, ActsKeeps
  <2>3. Going(t, c) = Going(g, c)
    BY <1>7, GoingSame
  <2>4. Watches(t, c) /\ TimersRight(t, c) /\ ToldRight(t, c)
    BY <1>7, <1>8, <2>2, <2>3 DEF AutoKept, Watches, TimersRight, ToldRight
  <2> QED
    BY <1>7, <1>8, <2>2, <2>4 DEF AutoKept
<1>11. Counted(t)
  <2> SUFFICES ASSUME NEW b \in Buildings
               PROVE  t.buildings[b].targeted = Cardinality(Attackers(t, b))
    BY DEF Counted
  <2>1. Attackers(t, b) = Attackers(s, b) \ {a}
    BY <1>8 DEF Attackers
  <2>2. Cardinality(Attackers(s, b) \ {a}) = Cardinality(Attackers(s, b)) - Mine(s, a, b)
    BY <1>1, AttackersBut
  <2>3. s.buildings[b].targeted = Cardinality(Attackers(s, b))
    BY DEF Calm, Counted
  <2> QED
    BY <1>3, <1>4, <1>7, <2>1, <2>2, <2>3
<1>12. Calm(t)
  BY <1>6, <1>7, <1>9, <1>10, <1>11 DEF Calm
<1>13. Finalized(s, t, a)
  BY <1>5, <1>7, <1>8, <1>12 DEF Finalized, Acts
<1> QED
  BY <1>0, <1>13

-----------------------------------------------------------------------------
(* A battle in order stays so. *)

\* What the AI does not read may change.
LEMMA CalmAs ==
  ASSUME NEW s, Calm(s), NEW t, Types(t),
         t.autos = s.autos, t.observers = s.observers, t.pending = s.pending, t.dispatching = s.dispatching,
         \A a \in DOMAIN s.autos : t.moves[a] = s.moves[a] /\ t.warriors[a].pos = s.warriors[a].pos,
         DOMAIN t.told \subseteq DOMAIN s.told, \A a \in DOMAIN t.told : t.told[a] = s.told[a],
         \A b \in Buildings : t.buildings[b].targeted = s.buildings[b].targeted
  PROVE  Calm(t)
<1>1. ASSUME NEW a \in DOMAIN s.autos
      PROVE  AutoKept(t, a)
  <2>1. AutoKept(s, a)
    BY DEF Calm
  <2>2. Going(t, a) = Going(s, a)
    BY DEF Going, MovePaths
  <2>3. Watches(t, a) /\ TimersRight(t, a) /\ ToldRight(t, a)
    BY <2>1, <2>2 DEF AutoKept, Watches, TimersRight, ToldRight
  <2> QED
    BY <2>1, <2>3 DEF AutoKept
<1>2. Counted(t)
  BY DEF Calm, Counted, Attackers
<1> QED
  BY <1>1, <1>2 DEF Calm

LEMMA CalmInOrder ==
  ASSUME NEW s
  PROVE  Types(s) /\ AIKept(s) <=> Calm(s) /\ \A a \in DOMAIN s.autos : Opposed(s, a)
BY Zenon DEF AIKept, Calm

LEMMA SameInOrder ==
  ASSUME NEW s, InOrder(s), NEW t, Calm(t), Same(s, t), \A a \in DOMAIN s.autos : Opposed(t, a)
  PROVE  InOrder(t)
<1>1. Types(t) /\ AIKept(t)
  BY CalmInOrder DEF Same
<1>2. BuildingsTold(t)
  <2>1. \A b \in Buildings : t.buildings[b].camp = s.buildings[b].camp /\ t.buildings[b].status = s.buildings[b].status
    BY DEF Same
  <2> QED
    BY <2>1 DEF BuildingsTold, InOrder, Same
<1>3. SupplyRight(t) /\ t.roles = s.roles
  BY DEF InOrder, Same, SupplyRight, OfRole
<1>4. CampsRight(t)
  <2>1. \A r : Owned(t, r) = Owned(s, r)
    BY DEF Same, Owned
  <2> QED
    BY <1>3, <2>1 DEF InOrder, CampsRight
<1>5. GridRight(t)
  BY DEF InOrder, Same, GridRight
<1> QED
  BY <1>1, <1>2, <1>3, <1>4, <1>5 DEF InOrder, Same

\* A hit on a warrior.
HitOn(s, t, w) ==
  /\ InOrder(t) /\ DOMAIN t.warriors = DOMAIN s.warriors /\ t.buildings = s.buildings
  /\ \A v \in DOMAIN s.warriors : /\ t.warriors[v].role = s.warriors[v].role
                                  /\ t.warriors[v].pos = s.warriors[v].pos
                                  /\ v # w => t.warriors[v] = s.warriors[v]
  /\ t.autos = s.autos

LEMMA HitIs ==
  ASSUME NEW s, InOrder(s), NEW w \in DOMAIN s.warriors
  PROVE  HitOn(s, [s EXCEPT !.warriors[w].hp = Hit(@)], w)
<1> DEFINE f == [s.warriors[w] EXCEPT !.hp = Hit(@)]
           t == [s EXCEPT !.warriors[w] = f]
<1>0. [s EXCEPT !.warriors[w].hp = Hit(@)] = t
  OBVIOUS
<1>1. Types(s) /\ IsBattle(s) /\ Calm(s)
  BY CalmInOrder DEF InOrder, Types
<1>2. f \in WarriorSet /\ f.role = s.warriors[w].role /\ f.pos = s.warriors[w].pos
  <2>1. s.warriors[w] \in WarriorSet
    BY <1>1 DEF Types
  <2>2. Damage \in Nat /\ MaxHp \in Nat
    BY Sizes
  <2>3. Hit(s.warriors[w].hp) \in 0..MaxHp
    BY <2>1, <2>2 DEF Hit, WarriorSet
  <2> QED
    BY <2>1, <2>3 DEF WarriorSet
<1> HIDE DEF f
<1>3. /\ IsBattle(t) /\ t.warriors = [s.warriors EXCEPT ![w] = f]
      /\ t.autos = s.autos /\ t.moves = s.moves /\ t.told = s.told
      /\ t.ids = s.ids /\ t.grid = s.grid /\ t.roles = s.roles
      /\ t.buildings = s.buildings /\ t.toldBuildings = s.toldBuildings
      /\ t.observers = s.observers /\ t.pending = s.pending /\ t.dispatching = s.dispatching
  BY <1>1 DEF IsBattle
<1> HIDE DEF t
<1>4. /\ DOMAIN t.warriors = DOMAIN s.warriors /\ t.warriors \in [DOMAIN s.warriors -> WarriorSet]
      /\ \A v \in DOMAIN s.warriors : v # w => t.warriors[v] = s.warriors[v]
      /\ t.warriors[w] = f
  BY <1>1, <1>2, <1>3 DEF Types
<1>5. Types(t)
  BY <1>1, <1>3, <1>4 DEF Types
<1>6. \A v \in DOMAIN s.warriors : t.warriors[v].role = s.warriors[v].role /\ t.warriors[v].pos = s.warriors[v].pos
  BY <1>2, <1>4
<1>7. Calm(t)
  <2>1. DOMAIN s.autos \subseteq DOMAIN s.warriors
    BY <1>1 DEF Types
  <2> QED
    BY <1>1, <1>3, <1>5, <1>6, <2>1, CalmAs
<1>8. \A a \in DOMAIN t.autos : Opposed(t, a)
  <2> SUFFICES ASSUME NEW a \in DOMAIN s.autos PROVE Opposed(t, a)
    BY <1>3
  <2>1. Opposed(s, a) /\ a \in DOMAIN s.warriors
    BY <1>1 DEF InOrder, AIKept, Types
  <2> QED
    BY <1>3, <1>4, <1>6, <2>1 DEF Opposed, Exists, CampOf
<1>9. Types(t) /\ AIKept(t)
  BY <1>7, <1>8, CalmInOrder
<1>10. BuildingsTold(t) /\ CampsRight(t)
  <2>1. BuildingsTold(t)
    BY <1>3 DEF InOrder, BuildingsTold
  <2>2. \A r : Owned(t, r) = Owned(s, r)
    BY <1>3 DEF Owned
  <2>3. CampsRight(t)
    BY <1>3, <2>2 DEF InOrder, CampsRight
  <2> QED
    BY <2>1, <2>3
<1>11. SupplyRight(t)
  <2>1. \A r : OfRole(t, r) = OfRole(s, r)
    BY <1>4, <1>6 DEF OfRole
  <2> QED
    BY <1>3, <2>1 DEF InOrder, SupplyRight
<1>12. GridRight(t)
  <2>1. \A c : {v \in DOMAIN t.warriors : t.warriors[v].pos = c} = {v \in DOMAIN s.warriors : s.warriors[v].pos = c}
    BY <1>4, <1>6
  <2> QED
    BY <1>3, <2>1 DEF InOrder, GridRight
<1>13. InOrder(t)
  BY <1>3, <1>4, <1>9, <1>10, <1>11, <1>12 DEF InOrder
<1> QED
  BY <1>0, <1>3, <1>4, <1>6, <1>13 DEF HitOn

\* The event of a hit: a warrior that searches turns on its attacker.
LEMMA AttackedInOrder ==
  ASSUME NEW s, InOrder(s), NEW a \in DOMAIN s.warriors, NEW w \in DOMAIN s.warriors,
         CampOf(s, a) # CampOf(s, w)
  PROVE  /\ InOrder(SendEventCombatAttack(s, a, w))
         /\ SendEventCombatAttack(s, a, w).warriors = s.warriors
<1> DEFINE event == [type |-> "attacked", of |-> w, by |-> a]
           t == Dispatch(s, event)
<1>0. SendEventCombatAttack(s, a, w) = t
  BY DEF SendEventCombatAttack
<1>1. event.type = "attacked" /\ event.of = w /\ event.by = a
  OBVIOUS
<1>2. Calm(s) /\ Types(s) /\ \A c \in DOMAIN s.autos : Opposed(s, c)
  BY CalmInOrder DEF InOrder
<1> HIDE DEF event
<1>3. a \in 0..MaxId /\ a # w /\ a \notin Buildings
  <2>1. Len(Sites) \in Nat /\ MaxId \in Nat /\ Buildings = 1..Len(Sites)
    BY Sizes
  <2>2. a \in (Len(Sites) + 1)..s.ids /\ s.ids \in Len(Sites)..MaxId
    BY <1>2 DEF Types
  <2> QED
    BY <2>1, <2>2
<1>4. Proper(event)
  BY <1>1, <1>3 DEF Proper
<1>5. Dispatched(s, t, event)
  BY <1>2, <1>4, DispatchIs
<1> HIDE DEF t
<1>6. Calm(t) /\ Same(s, t)
  BY <1>5 DEF Dispatched
<1>7. ASSUME NEW c \in DOMAIN s.autos
      PROVE  Opposed(t, c)
  <2>1. Targets(s, t, c, event) /\ Opposed(s, c)
    BY <1>2, <1>5 DEF Dispatched
  <2>2. \A x : Exists(s, x) => Exists(t, x) /\ CampOf(t, x) = CampOf(s, x)
    BY <1>6 DEF Same, Exists, CampOf
  <2>3. Exists(s, c) /\ Exists(s, a)
    BY <1>2 DEF Types, Exists
  <2> QED
    BY <1>1, <2>1, <2>2, <2>3 DEF Targets, Opposed
<1>8. InOrder(t)
  BY <1>6, <1>7, SameInOrder
<1> QED
  BY <1>0, <1>6, <1>8 DEF Same

-----------------------------------------------------------------------------
(* The death of a warrior. *)

LEMMA OfRoleFinite ==
  ASSUME NEW s, Types(s), NEW r
  PROVE  IsFiniteSet(OfRole(s, r)) /\ Cardinality(OfRole(s, r)) \in Nat
<1>1. s.ids \in Nat /\ Len(Sites) \in Nat
  BY Sizes, IdsNat
<1>2. OfRole(s, r) \subseteq 1..s.ids
  BY <1>1 DEF OfRole, Types
<1>3. IsFiniteSet(1..s.ids)
  <2> DEFINE m == s.ids
  <2>1. m \in Int
    BY <1>1
  <2> HIDE DEF m
  <2>2. IsFiniteSet(1..m)
    BY <2>1, FS_Interval
  <2> QED
    BY <2>2 DEF m
<1>4. IsFiniteSet(OfRole(s, r))
  BY <1>2, <1>3, FS_Subset
<1> QED
  BY <1>4, FS_CardinalityType

LEMMA Times ==
  ASSUME NEW m \in Int, NEW n \in Int
  PROVE  m * (n - 1) = m * n - m /\ m * (n + 1) = m * n + m
OBVIOUS

\* A role with other supply.
Supplied(s, t, r, n) ==
  /\ IsBattle(t) /\ t.roles \in [Roles -> RoleSet]
  /\ t.roles[r].supply = s.roles[r].supply - n /\ t.roles[r].kept = s.roles[r].kept
  /\ \A q \in Roles : q # r => t.roles[q] = s.roles[q]
  /\ t.roles[r].supplyMax = s.roles[r].supplyMax /\ t.roles[r].buildingNum = s.roles[r].buildingNum
  /\ t.autos = s.autos /\ t.moves = s.moves /\ t.told = s.told
  /\ t.warriors = s.warriors /\ t.ids = s.ids /\ t.grid = s.grid
  /\ t.buildings = s.buildings /\ t.toldBuildings = s.toldBuildings
  /\ t.observers = s.observers /\ t.pending = s.pending /\ t.dispatching = s.dispatching

LEMMA SupplyIs ==
  ASSUME NEW s, IsBattle(s), s.roles \in [Roles -> RoleSet], NEW r \in Roles, NEW n \in Int
  PROVE  Supplied(s, [s EXCEPT !.roles[r].supply = @ - n], r, n)
<1> DEFINE f == [s.roles[r] EXCEPT !.supply = @ - n]
           t == [s EXCEPT !.roles[r] = f]
<1>0. [s EXCEPT !.roles[r].supply = @ - n] = t
  OBVIOUS
<1>1. s.roles[r] \in RoleSet
  OBVIOUS
<1>2. /\ f \in RoleSet /\ f.supply = s.roles[r].supply - n /\ f.kept = s.roles[r].kept
      /\ f.supplyMax = s.roles[r].supplyMax /\ f.buildingNum = s.roles[r].buildingNum
  BY <1>1 DEF RoleSet
<1> HIDE DEF f
<1>3. /\ IsBattle(t) /\ t.roles = [s.roles EXCEPT ![r] = f]
      /\ t.autos = s.autos /\ t.moves = s.moves /\ t.told = s.told
      /\ t.warriors = s.warriors /\ t.ids = s.ids /\ t.grid = s.grid
      /\ t.buildings = s.buildings /\ t.toldBuildings = s.toldBuildings
      /\ t.observers = s.observers /\ t.pending = s.pending /\ t.dispatching = s.dispatching
  BY DEF IsBattle
<1> HIDE DEF t
<1>4. t.roles \in [Roles -> RoleSet] /\ t.roles[r] = f /\ \A q \in Roles : q # r => t.roles[q] = s.roles[q]
  BY <1>2, <1>3
<1>5. Supplied(s, t, r, n)
  BY <1>2, <1>3, <1>4, Zenon DEF Supplied
<1> QED
  BY <1>0, <1>5, Zenon

\* The players are told.
LEMMA TellDeathIs ==
  ASSUME NEW s, IsBattle(s), NEW w
  PROVE  LET t == TellDeath(s, w)
         IN /\ IsBattle(t) /\ DOMAIN t.told = DOMAIN s.told \ {w} /\ t.told = [v \in DOMAIN t.told |-> t.told[v]]
            /\ \A v \in DOMAIN t.told : t.told[v] = s.told[v]
            /\ t.roles = s.roles /\ t.autos = s.autos /\ t.moves = s.moves
            /\ t.warriors = s.warriors /\ t.ids = s.ids /\ t.grid = s.grid
            /\ t.buildings = s.buildings /\ t.toldBuildings = s.toldBuildings
            /\ t.observers = s.observers /\ t.pending = s.pending /\ t.dispatching = s.dispatching
<1> DEFINE f == Without(s.told, w)
           t == [s EXCEPT !.told = f]
<1>0. TellDeath(s, w) = t
  BY DEF TellDeath
<1>1. DOMAIN f = DOMAIN s.told \ {w} /\ f = [v \in DOMAIN f |-> f[v]] /\ \A v \in DOMAIN f : f[v] = s.told[v]
  BY DEF Without
<1> HIDE DEF f
<1>2. /\ IsBattle(t) /\ t.told = f
      /\ t.roles = s.roles /\ t.autos = s.autos /\ t.moves = s.moves
      /\ t.warriors = s.warriors /\ t.ids = s.ids /\ t.grid = s.grid
      /\ t.buildings = s.buildings /\ t.toldBuildings = s.toldBuildings
      /\ t.observers = s.observers /\ t.pending = s.pending /\ t.dispatching = s.dispatching
  BY DEF IsBattle
<1> HIDE DEF t
<1>3. /\ DOMAIN t.told = DOMAIN s.told \ {w} /\ t.told = [v \in DOMAIN t.told |-> t.told[v]]
      /\ \A v \in DOMAIN t.told : t.told[v] = s.told[v]
  BY <1>1, <1>2
<1> QED
  BY <1>0, <1>2, <1>3

\* The scene and then the field lose the warrior.
RemoveFromField(s, w) == [RemoveWarrior(s, w) EXCEPT !.warriors = Without(@, w)]

Removed(s, t, w) ==
  /\ IsBattle(t)
  /\ DOMAIN t.warriors = DOMAIN s.warriors \ {w} /\ t.warriors = [v \in DOMAIN t.warriors |-> t.warriors[v]]
  /\ \A v \in DOMAIN t.warriors : t.warriors[v] = s.warriors[v]
  /\ DOMAIN t.moves = DOMAIN s.moves \ {w} /\ t.moves = [v \in DOMAIN t.moves |-> t.moves[v]]
  /\ \A v \in DOMAIN t.moves : t.moves[v] = s.moves[v]
  /\ t.grid = [s.grid EXCEPT ![s.warriors[w].pos] = @ \ {w}]
  /\ t.roles = s.roles /\ t.autos = s.autos /\ t.told = s.told /\ t.ids = s.ids
  /\ t.buildings = s.buildings /\ t.toldBuildings = s.toldBuildings
  /\ t.observers = s.observers /\ t.pending = s.pending /\ t.dispatching = s.dispatching

LEMMA RemoveFromFieldIs ==
  ASSUME NEW s, IsBattle(s), NEW w
  PROVE  Removed(s, RemoveFromField(s, w), w)
<1> DEFINE m == Without(s.moves, w)
           g == [s.grid EXCEPT ![s.warriors[w].pos] = @ \ {w}]
           ws == Without(s.warriors, w)
           u == [s EXCEPT !.moves = m]
           x == [u EXCEPT !.grid = g]
           t == [x EXCEPT !.warriors = ws]
<1>1. /\ IsBattle(u) /\ u.moves = m
      /\ u.roles = s.roles /\ u.autos = s.autos /\ u.told = s.told
      /\ u.warriors = s.warriors /\ u.ids = s.ids /\ u.grid = s.grid
      /\ u.buildings = s.buildings /\ u.toldBuildings = s.toldBuildings
      /\ u.observers = s.observers /\ u.pending = s.pending /\ u.dispatching = s.dispatching
  <2> HIDE DEF m
  <2> QED
    BY DEF IsBattle
<1>0. RemoveFromField(s, w) = t
  <2>1. RemoveWarrior(s, w) = x
    BY <1>1 DEF RemoveWarrior
  <2>2. x.warriors = s.warriors
    <3> HIDE DEF u, g
    <3> QED
      BY <1>1 DEF IsBattle
  <2> HIDE DEF x
  <2> QED
    BY <2>1, <2>2 DEF RemoveFromField
<1> HIDE DEF u
<1>2. /\ IsBattle(x) /\ x.moves = m /\ x.grid = g
      /\ x.roles = s.roles /\ x.autos = s.autos /\ x.told = s.told
      /\ x.warriors = s.warriors /\ x.ids = s.ids
      /\ x.buildings = s.buildings /\ x.toldBuildings = s.toldBuildings
      /\ x.observers = s.observers /\ x.pending = s.pending /\ x.dispatching = s.dispatching
  <2> HIDE DEF m, g
  <2> QED
    BY <1>1 DEF IsBattle
<1> HIDE DEF x
<1>3. /\ IsBattle(t) /\ t.moves = m /\ t.grid = g
      /\ t.roles = s.roles /\ t.autos = s.autos /\ t.told = s.told
      /\ t.warriors = ws /\ t.ids = s.ids
      /\ t.buildings = s.buildings /\ t.toldBuildings = s.toldBuildings
      /\ t.observers = s.observers /\ t.pending = s.pending /\ t.dispatching = s.dispatching
  <2> HIDE DEF m, g, ws
  <2> QED
    BY <1>2 DEF IsBattle
<1>4. /\ DOMAIN m = DOMAIN s.moves \ {w} /\ m = [v \in DOMAIN m |-> m[v]] /\ \A v \in DOMAIN m : m[v] = s.moves[v]
      /\ DOMAIN ws = DOMAIN s.warriors \ {w} /\ ws = [v \in DOMAIN ws |-> ws[v]]
      /\ \A v \in DOMAIN ws : ws[v] = s.warriors[v]
  BY DEF Without
<1> HIDE DEF t, m, ws
<1>5. Removed(s, t, w)
  BY <1>3, <1>4 DEF Removed
<1> QED
  BY <1>0, <1>5

\* Whoever had lost its target has none, and the others keep theirs.
LEMMA LostIs ==
  ASSUME NEW s, Calm(s), NEW of
  PROVE  LET t == Dispatch(s, [type |-> "lost", of |-> of])
         IN /\ Calm(t) /\ Same(s, t)
            /\ \A c \in DOMAIN s.autos : t.autos[c].status # "search" =>
                 /\ s.autos[c].status # "search"
                 /\ t.autos[c].target = s.autos[c].target /\ t.autos[c].target # of
<1> DEFINE event == [type |-> "lost", of |-> of]
           t == Dispatch(s, event)
<1>1. event.type = "lost" /\ event.of = of
  OBVIOUS
<1> HIDE DEF event
<1>2. Dispatched(s, t, event)
  BY <1>1, DispatchIs DEF Proper
<1> HIDE DEF t
<1>3. /\ Calm(t) /\ Same(s, t)
      /\ \A c \in DOMAIN s.autos : t.autos[c].status # "search" =>
           /\ s.autos[c].status # "search"
           /\ t.autos[c].target = s.autos[c].target /\ t.autos[c].target # of
  BY <1>1, <1>2 DEF Dispatched, Targets
<1> QED
  BY <1>3 DEF event, t

Dead(s, t, w) ==
  /\ InOrder(t) /\ DOMAIN t.warriors = DOMAIN s.warriors \ {w}
  /\ \A v \in DOMAIN t.warriors : t.warriors[v] = s.warriors[v]

\* The AI when a warrior dies: it is not there, nobody follows it.
LostTo(s, t, w) ==
  /\ Calm(t) /\ t.warriors = s.warriors /\ t.ids = s.ids /\ t.grid = s.grid /\ t.toldBuildings = s.toldBuildings
  /\ t.roles \in [Roles -> RoleSet]
  /\ DOMAIN t.autos = DOMAIN s.autos \ {w} /\ DOMAIN t.told = DOMAIN s.told \ {w}
  /\ \A c \in DOMAIN t.autos : t.autos[c].status # "search" =>
       /\ s.autos[c].status # "search" /\ t.autos[c].target = s.autos[c].target /\ t.autos[c].target # w
  /\ \A b \in Buildings : /\ t.buildings[b].camp = s.buildings[b].camp
                          /\ t.buildings[b].status = s.buildings[b].status
  /\ \A q \in Roles :
       /\ t.roles[q].supply = s.roles[q].supply - (IF q = s.warriors[w].role THEN SupplyNeed ELSE 0)
       /\ t.roles[q].kept = s.roles[q].kept
       /\ t.roles[q].supplyMax = s.roles[q].supplyMax /\ t.roles[q].buildingNum = s.roles[q].buildingNum

LEMMA LostToIs ==
  ASSUME NEW s, InOrder(s), NEW w \in DOMAIN s.warriors
  PROVE  LET freed == [s EXCEPT !.roles[s.warriors[w].role].supply = @ - SupplyNeed]
         IN LostTo(s, LoseAuto(TellDeath(freed, w), w), w)
<1> DEFINE r == s.warriors[w].role
           freed == [s EXCEPT !.roles[r].supply = @ - SupplyNeed]
           d1 == TellDeath(freed, w)
           d2 == Dispatch(d1, [type |-> "lost", of |-> w])
           d3 == FinalizeAuto(d2, w)
<1>0. LoseAuto(d1, w) = d3
  BY Zenon DEF LoseAuto
<1>1. Types(s) /\ IsBattle(s) /\ Calm(s) /\ w \in DOMAIN s.autos /\ DOMAIN s.told = DOMAIN s.warriors
      /\ DOMAIN s.autos = DOMAIN s.warriors
  BY CalmInOrder DEF InOrder, Types
<1>2. r \in Roles /\ SupplyNeed \in Int
  BY <1>1, Sizes DEF Types, WarriorSet
<1>3. /\ IsBattle(freed) /\ freed.roles \in [Roles -> RoleSet]
      /\ freed.roles[r].supply = s.roles[r].supply - SupplyNeed /\ freed.roles[r].kept = s.roles[r].kept
      /\ \A q \in Roles : q # r => freed.roles[q] = s.roles[q]
      /\ freed.roles[r].supplyMax = s.roles[r].supplyMax /\ freed.roles[r].buildingNum = s.roles[r].buildingNum
      /\ freed.autos = s.autos /\ freed.moves = s.moves /\ freed.told = s.told
      /\ freed.warriors = s.warriors /\ freed.ids = s.ids /\ freed.grid = s.grid
      /\ freed.buildings = s.buildings /\ freed.toldBuildings = s.toldBuildings
      /\ freed.observers = s.observers /\ freed.pending = s.pending /\ freed.dispatching = s.dispatching
  <2>1. s.roles \in [Roles -> RoleSet]
    BY Zenon DEF InOrder
  <2> HIDE DEF r
  <2>2. Supplied(s, freed, r, SupplyNeed)
    BY <1>1, <1>2, <2>1, SupplyIs, Zenon
  <2> HIDE DEF freed
  <2> QED
    BY <2>2, Zenon DEF Supplied
<1> HIDE DEF freed
<1>4. /\ IsBattle(d1) /\ DOMAIN d1.told = DOMAIN freed.told \ {w} /\ d1.told = [v \in DOMAIN d1.told |-> d1.told[v]]
      /\ \A v \in DOMAIN d1.told : d1.told[v] = freed.told[v]
      /\ d1.roles = freed.roles /\ d1.autos = freed.autos /\ d1.moves = freed.moves
      /\ d1.warriors = freed.warriors /\ d1.ids = freed.ids /\ d1.grid = freed.grid
      /\ d1.buildings = freed.buildings /\ d1.toldBuildings = freed.toldBuildings
      /\ d1.observers = freed.observers /\ d1.pending = freed.pending /\ d1.dispatching = freed.dispatching
  BY <1>3, TellDeathIs
<1> HIDE DEF d1
<1>5. Types(d1)
  <2>1. s.told \in [DOMAIN s.told -> ToldSet]
    BY <1>1 DEF Types
  <2>2. \A v \in DOMAIN d1.told : d1.told[v] \in ToldSet
    BY <1>3, <1>4, <2>1
  <2>3. d1.told \in [DOMAIN d1.told -> ToldSet]
    BY <1>4, <2>2
  <2> QED
    BY <1>1, <1>3, <1>4, <2>3 DEF Types
<1>6. Calm(d1)
  <2>1. /\ d1.autos = s.autos /\ d1.observers = s.observers /\ d1.pending = s.pending
        /\ d1.dispatching = s.dispatching /\ d1.moves = s.moves /\ d1.warriors = s.warriors
        /\ DOMAIN d1.told \subseteq DOMAIN s.told /\ (\A a \in DOMAIN d1.told : d1.told[a] = s.told[a])
        /\ d1.buildings = s.buildings
    BY <1>3, <1>4
  <2> QED
    BY <1>1, <1>5, <2>1, CalmAs
<1>7. /\ Calm(d2) /\ Same(d1, d2)
      /\ \A c \in DOMAIN d1.autos : d2.autos[c].status # "search" =>
           /\ d1.autos[c].status # "search"
           /\ d2.autos[c].target = d1.autos[c].target /\ d2.autos[c].target # w
  BY <1>6, LostIs
<1> HIDE DEF d2
<1>8. w \in DOMAIN d2.autos
  BY <1>1, <1>3, <1>4, <1>7 DEF Same
<1>9. Finalized(d2, d3, w)
  BY <1>7, <1>8, FinalizeIs
<1> HIDE DEF d3
<1>10. /\ d2.warriors = s.warriors /\ d2.ids = s.ids /\ d2.grid = s.grid /\ d2.toldBuildings = s.toldBuildings
       /\ d2.roles = freed.roles /\ DOMAIN d2.autos = DOMAIN s.autos /\ DOMAIN d2.told = DOMAIN s.told \ {w}
       /\ \A b \in Buildings : /\ d2.buildings[b].camp = s.buildings[b].camp
                               /\ d2.buildings[b].status = s.buildings[b].status
  <2>1. /\ d2.warriors = d1.warriors /\ d2.ids = d1.ids /\ d2.grid = d1.grid
        /\ d2.toldBuildings = d1.toldBuildings /\ d2.roles = d1.roles
        /\ DOMAIN d2.autos = DOMAIN d1.autos /\ DOMAIN d2.told = DOMAIN d1.told
        /\ \A b \in Buildings : /\ d2.buildings[b].camp = d1.buildings[b].camp
                                /\ d2.buildings[b].status = d1.buildings[b].status
    BY <1>7, Zenon DEF Same
  <2>2. /\ d1.warriors = s.warriors /\ d1.ids = s.ids /\ d1.grid = s.grid
        /\ d1.toldBuildings = s.toldBuildings /\ d1.roles = freed.roles
        /\ DOMAIN d1.autos = DOMAIN s.autos /\ DOMAIN d1.told = DOMAIN s.told \ {w}
        /\ d1.buildings = s.buildings
    BY <1>3, <1>4
  <2> QED
    BY <2>1, <2>2
<1>11. /\ Calm(d3) /\ d3.warriors = s.warriors /\ d3.ids = s.ids /\ d3.grid = s.grid
       /\ d3.toldBuildings = s.toldBuildings /\ d3.roles = freed.roles
       /\ DOMAIN d3.autos = DOMAIN s.autos \ {w} /\ DOMAIN d3.told = DOMAIN s.told \ {w}
       /\ \A b \in Buildings : /\ d3.buildings[b].camp = s.buildings[b].camp
                               /\ d3.buildings[b].status = s.buildings[b].status
       /\ \A c \in DOMAIN d3.autos : d3.autos[c] = d2.autos[c]
  BY <1>9, <1>10 DEF Finalized
<1>12. ASSUME NEW c \in DOMAIN d3.autos, d3.autos[c].status # "search"
       PROVE  /\ s.autos[c].status # "search" /\ d3.autos[c].target = s.autos[c].target
              /\ d3.autos[c].target # w
  <2>1. c \in DOMAIN d1.autos /\ d3.autos[c] = d2.autos[c] /\ d1.autos = s.autos
    BY <1>3, <1>4, <1>11, <1>12
  <2> QED
    BY <1>7, <1>12, <2>1, Zenon
<1>13. ASSUME NEW q \in Roles
       PROVE  /\ d3.roles[q].supply = s.roles[q].supply - (IF q = r THEN SupplyNeed ELSE 0)
              /\ d3.roles[q].kept = s.roles[q].kept
              /\ d3.roles[q].supplyMax = s.roles[q].supplyMax /\ d3.roles[q].buildingNum = s.roles[q].buildingNum
  <2>1. s.roles[q].supply \in Int
    BY DEF InOrder, RoleSet
  <2> QED
    BY <1>3, <1>11, <2>1
<1>14. LostTo(s, d3, w)
  BY <1>3, <1>11, <1>12, <1>13 DEF LostTo
<1> QED
  BY <1>0, <1>14 DEF d1, freed

LEMMA DeathIs ==
  ASSUME NEW s, InOrder(s), NEW w \in DOMAIN s.warriors
  PROVE  Dead(s, Death(s, w), w)
<1> DEFINE r == s.warriors[w].role
           freed == [s EXCEPT !.roles[r].supply = @ - SupplyNeed]
           d == LoseAuto(TellDeath(freed, w), w)
           t == RemoveFromField(d, w)
<1>0. Death(s, w) = t
  BY Zenon DEF Death, RemoveFromField
<1>1. LostTo(s, d, w)
  BY LostToIs
<1>2. Types(s) /\ DOMAIN s.autos = DOMAIN s.warriors /\ DOMAIN s.told = DOMAIN s.warriors /\ r \in Roles
      /\ \A c \in DOMAIN s.autos : Opposed(s, c)
  BY CalmInOrder DEF InOrder, Types, WarriorSet
<1> HIDE DEF d
<1>3. /\ Calm(d) /\ Types(d) /\ IsBattle(d) /\ d.warriors = s.warriors /\ d.ids = s.ids /\ d.grid = s.grid
      /\ d.toldBuildings = s.toldBuildings
      /\ DOMAIN d.autos = DOMAIN s.warriors \ {w} /\ DOMAIN d.told = DOMAIN s.warriors \ {w}
      /\ \A b \in Buildings : /\ d.buildings[b].camp = s.buildings[b].camp
                              /\ d.buildings[b].status = s.buildings[b].status
  BY <1>1, <1>2 DEF LostTo, Calm, Types
<1>4. Removed(d, t, w)
  BY <1>3, RemoveFromFieldIs
<1> HIDE DEF t
<1>5. /\ DOMAIN t.warriors = DOMAIN s.warriors \ {w} /\ t.warriors = [v \in DOMAIN t.warriors |-> t.warriors[v]]
      /\ \A v \in DOMAIN t.warriors : t.warriors[v] = s.warriors[v]
      /\ DOMAIN d.moves = DOMAIN s.warriors
  BY <1>3, <1>4 DEF Removed, Types
<1>6. Types(t)
  <2>1. t.warriors \in [DOMAIN t.warriors -> WarriorSet]
    BY <1>2, <1>5 DEF Types
  <2>2. t.moves \in [DOMAIN t.warriors -> Seq(Walkable)]
    <3>1. /\ DOMAIN t.moves = DOMAIN t.warriors /\ t.moves = [v \in DOMAIN t.moves |-> t.moves[v]]
          /\ \A v \in DOMAIN t.moves : t.moves[v] = d.moves[v]
      BY <1>4, <1>5 DEF Removed
    <3>2. \A v \in DOMAIN t.moves : t.moves[v] \in Seq(Walkable)
      BY <1>3, <1>5, <3>1 DEF Types
    <3> QED
      BY <3>1, <3>2
  <2>3. /\ IsBattle(t) /\ t.autos = d.autos /\ t.told = d.told /\ t.ids = d.ids /\ t.buildings = d.buildings
    BY <1>4 DEF Removed
  <2>4. DOMAIN t.autos \subseteq DOMAIN t.warriors /\ DOMAIN t.warriors \subseteq DOMAIN s.warriors
    BY <1>3, <1>5, <2>3
  <2> QED
    BY <1>2, <1>3, <2>1, <2>2, <2>3, <2>4 DEF Types
<1>7. Calm(t)
  <2>1. /\ t.autos = d.autos /\ t.observers = d.observers /\ t.pending = d.pending
        /\ t.dispatching = d.dispatching /\ t.told = d.told /\ t.buildings = d.buildings
    BY <1>4 DEF Removed
  <2>2. \A a \in DOMAIN d.autos : t.moves[a] = d.moves[a] /\ t.warriors[a].pos = d.warriors[a].pos
    BY <1>3, <1>4, <1>5 DEF Removed
  <2> QED
    BY <1>3, <1>6, <2>1, <2>2, CalmAs
<1>8. t.autos = d.autos /\ t.told = d.told /\ t.buildings = d.buildings /\ t.roles = d.roles
      /\ t.toldBuildings = s.toldBuildings /\ t.grid = [s.grid EXCEPT ![s.warriors[w].pos] = @ \ {w}]
  BY <1>3, <1>4 DEF Removed
<1>9. ASSUME NEW c \in DOMAIN t.autos
      PROVE  Opposed(t, c)
  <2> SUFFICES ASSUME t.autos[c].status # "search"
               PROVE  Exists(t, t.autos[c].target) /\ CampOf(t, t.autos[c].target) # CampOf(t, c)
    BY DEF Opposed
  <2>1. /\ s.autos[c].status # "search" /\ t.autos[c].target = s.autos[c].target /\ t.autos[c].target # w
    BY <1>1, <1>8 DEF LostTo
  <2>2. Exists(s, s.autos[c].target) /\ CampOf(s, s.autos[c].target) # CampOf(s, c)
    BY <1>2, <1>3, <1>8, <2>1 DEF Opposed
  <2>3. c \in DOMAIN t.warriors
    BY <1>3, <1>5, <1>8
  <2>4. \A x : x # w /\ Exists(s, x) => Exists(t, x) /\ CampOf(t, x) = CampOf(s, x)
    BY <1>3, <1>5, <1>8 DEF Exists, CampOf
  <2>5. c # w /\ Exists(s, c)
    BY <1>5, <2>3 DEF Exists
  <2> QED
    BY <2>1, <2>2, <2>4, <2>5
<1>10. Types(t) /\ AIKept(t)
  BY <1>7, <1>9, CalmInOrder
<1>11. BuildingsTold(t)
  BY <1>3, <1>8 DEF InOrder, BuildingsTold
<1>12. t.roles \in [Roles -> RoleSet]
  BY <1>1, <1>8 DEF LostTo
<1>13. SupplyRight(t)
  <2> SUFFICES ASSUME NEW q \in Roles
               PROVE  t.roles[q].supply - t.roles[q].kept = SupplyNeed * Cardinality(OfRole(t, q))
    BY DEF SupplyRight
  <2> DEFINE n == Cardinality(OfRole(s, q))
  <2>1. IsFiniteSet(OfRole(s, q)) /\ n \in Nat
    BY <1>2, OfRoleFinite
  <2>2. OfRole(t, q) = OfRole(s, q) \ {w}
    BY <1>5 DEF OfRole
  <2>3. w \in OfRole(s, q) <=> q = r
    BY DEF OfRole
  <2>4. Cardinality(OfRole(t, q)) = IF q = r THEN n - 1 ELSE n
    BY <2>1, <2>2, <2>3, FS_RemoveElement
  <2>5. s.roles[q].supply - s.roles[q].kept = SupplyNeed * n
    BY DEF InOrder, SupplyRight
  <2>6. s.roles[q].supply \in Int /\ s.roles[q].kept \in Int /\ SupplyNeed \in Int
    <3>1. s.roles[q] \in RoleSet /\ SupplyNeed \in Int
      <4>1. s.roles \in [Roles -> RoleSet]
        BY Zenon DEF InOrder
      <4> QED
        BY <4>1, Sizes
    <3> QED
      BY <3>1 DEF RoleSet
  <2>7. t.roles[q].supply = s.roles[q].supply - (IF q = r THEN SupplyNeed ELSE 0)
        /\ t.roles[q].kept = s.roles[q].kept
    BY <1>1, <1>8 DEF LostTo
  <2> HIDE DEF n, r
  <2>8. SupplyNeed * (n - 1) = SupplyNeed * n - SupplyNeed /\ SupplyNeed * n \in Int
    BY <2>1, <2>6, Times
  <2> QED
    BY <2>4, <2>5, <2>6, <2>7, <2>8
<1>14. CampsRight(t)
  <2>1. \A q : Owned(t, q) = Owned(s, q)
    BY <1>3, <1>8 DEF Owned
  <2>2. \A q \in Roles : t.roles[q].supplyMax = s.roles[q].supplyMax /\ t.roles[q].buildingNum = s.roles[q].buildingNum
    BY <1>1, <1>8 DEF LostTo
  <2> QED
    BY <2>1, <2>2 DEF InOrder, CampsRight
<1>15. GridRight(t)
  <2> DEFINE pos == s.warriors[w].pos
             At(u, c) == {v \in DOMAIN u.warriors : u.warriors[v].pos = c}
  <2>1. s.grid = [c \in Cells |-> At(s, c)]
    BY DEF InOrder, GridRight
  <2>2. \A c : At(t, c) = IF c = pos THEN At(s, c) \ {w} ELSE At(s, c)
    BY <1>5
  <2> HIDE DEF At
  <2>3. t.grid = [c \in Cells |-> IF c = pos THEN At(s, pos) \ {w} ELSE At(s, c)]
    <3> HIDE DEF pos, At
    <3>1. t.grid = [s.grid EXCEPT ![pos] = @ \ {w}] 
      BY <1>8 DEF pos
    <3> QED
      BY <2>1, <3>1
  <2>4. t.grid = [c \in Cells |-> At(t, c)]
    BY <2>2, <2>3
  <2> QED
    BY <2>4 DEF GridRight, At
<1>16. InOrder(t)
  BY <1>3, <1>5, <1>8, <1>10, <1>11, <1>12, <1>13, <1>14, <1>15 DEF InOrder
<1> QED
  BY <1>0, <1>5, <1>16 DEF Dead

LEMMA AttackWarriorKeeps ==
  ASSUME NEW s, BattleKept(s), NEW a \in DOMAIN s.warriors, NEW w \in DOMAIN s.warriors,
         CampOf(s, a) # CampOf(s, w)
  PROVE  BattleKept(AttackWarrior(s, a, w))
<1> DEFINE h == [s EXCEPT !.warriors[w].hp = Hit(@)]
           t == SendEventCombatAttack(h, a, w)
<1>0. AttackWarrior(s, a, w) = IF t.warriors[w].hp <= 0 THEN Death(t, w) ELSE t
  BY Zenon DEF AttackWarrior
<1>1. InOrder(s) /\ \A v \in DOMAIN s.warriors : s.warriors[v].hp > 0
  BY DEF BattleKept
<1>2. HitOn(s, h, w)
  BY <1>1, HitIs
<1> HIDE DEF h
<1>3. /\ InOrder(h) /\ DOMAIN h.warriors = DOMAIN s.warriors /\ CampOf(h, a) # CampOf(h, w)
      /\ \A v \in DOMAIN h.warriors : v # w => h.warriors[v].hp > 0
  BY <1>1, <1>2 DEF HitOn, CampOf
<1>4. InOrder(t) /\ t.warriors = h.warriors
  BY <1>3, AttackedInOrder
<1> HIDE DEF t
<1>5. CASE t.warriors[w].hp <= 0
  <2>1. Dead(t, Death(t, w), w)
    BY <1>3, <1>4, DeathIs
  <2>2. BattleKept(Death(t, w))
    BY <1>3, <1>4, <2>1 DEF Dead, BattleKept
  <2> QED
    BY <1>0, <1>5, <2>2
<1>6. CASE ~(t.warriors[w].hp <= 0)
  <2>1. t.warriors[w].hp \in Int
    BY <1>3, <1>4 DEF InOrder, Types, WarriorSet
  <2>2. BattleKept(t)
    BY <1>3, <1>4, <1>6, <2>1 DEF BattleKept
  <2> QED
    BY <1>0, <1>6, <2>2
<1> QED
  BY <1>5, <1>6

-----------------------------------------------------------------------------
(* Buildings that are hit, recover, or go over. *)

\* One building is other than it was, but for who attacks it.
Rebuilt(s, t, b, f) ==
  /\ IsBattle(t) /\ t.buildings = [s.buildings EXCEPT ![b] = f]
  /\ t.warriors = s.warriors /\ t.autos = s.autos /\ t.moves = s.moves /\ t.told = s.told
  /\ t.ids = s.ids /\ t.grid = s.grid /\ t.roles = s.roles
  /\ t.toldBuildings = s.toldBuildings
  /\ t.observers = s.observers /\ t.pending = s.pending /\ t.dispatching = s.dispatching

LEMMA RebuiltIs ==
  ASSUME NEW s, IsBattle(s), NEW b, NEW f
  PROVE  Rebuilt(s, [s EXCEPT !.buildings[b] = f], b, f)
BY DEF IsBattle, Rebuilt

LEMMA RebuiltCalm ==
  ASSUME NEW s, Calm(s), NEW t, NEW b \in Buildings, NEW f, Rebuilt(s, t, b, f),
         f \in BuildingSet, f.targeted = s.buildings[b].targeted
  PROVE  /\ Calm(t) /\ t.buildings[b] = f
         /\ \A c \in Buildings : c # b => t.buildings[c] = s.buildings[c]
<1>0. Types(s) /\ s.buildings \in [Buildings -> BuildingSet]
  BY DEF Calm, Types
<1>1. /\ t.buildings \in [Buildings -> BuildingSet] /\ t.buildings[b] = f
      /\ \A c \in Buildings : c # b => t.buildings[c] = s.buildings[c]
  BY <1>0 DEF Rebuilt
<1>2. Types(t)
  BY <1>0, <1>1 DEF Types, Rebuilt
<1>3. \A c \in Buildings : t.buildings[c].targeted = s.buildings[c].targeted
  BY <1>1
<1>4. Calm(t)
  BY <1>2, <1>3, CalmAs DEF Rebuilt
<1> QED
  BY <1>1, <1>4

\* Points are nobody's business but the building's.
LEMMA PointsInOrder ==
  ASSUME NEW s, InOrder(s), NEW b \in Buildings, NEW n \in 0..MaxHp
  PROVE  LET t == [s EXCEPT !.buildings[b].hp = n]
         IN /\ InOrder(t) /\ t.warriors = s.warriors /\ t.autos = s.autos /\ t.buildings[b].hp = n
            /\ t.buildings[b].camp = s.buildings[b].camp /\ t.buildings[b].status = s.buildings[b].status
            /\ t.roles = s.roles
            /\ \A c \in Buildings : t.buildings[c].camp = s.buildings[c].camp
<1> DEFINE f == [s.buildings[b] EXCEPT !.hp = n]
           t == [s EXCEPT !.buildings[b] = f]
<1>0. [s EXCEPT !.buildings[b].hp = n] = t
  OBVIOUS
<1>1. Types(s) /\ IsBattle(s) /\ Calm(s) /\ \A a \in DOMAIN s.autos : Opposed(s, a)
  BY CalmInOrder DEF InOrder, Types
<1>2. /\ f \in BuildingSet /\ f.hp = n /\ f.targeted = s.buildings[b].targeted
      /\ f.camp = s.buildings[b].camp /\ f.status = s.buildings[b].status
  <2>1. s.buildings[b] \in BuildingSet
    BY <1>1 DEF Types
  <2> QED
    BY <2>1 DEF BuildingSet
<1> HIDE DEF f
<1>3. Rebuilt(s, t, b, f)
  BY <1>1, RebuiltIs
<1> HIDE DEF t
<1>4. Calm(t) /\ t.buildings[b] = f /\ \A c \in Buildings : c # b => t.buildings[c] = s.buildings[c]
  BY <1>1, <1>2, <1>3, RebuiltCalm
<1>5. /\ t.warriors = s.warriors /\ t.autos = s.autos /\ t.told = s.told /\ t.grid = s.grid
      /\ t.roles = s.roles /\ t.toldBuildings = s.toldBuildings
  BY <1>3 DEF Rebuilt
<1>6. \A c \in Buildings : /\ t.buildings[c].camp = s.buildings[c].camp
                           /\ t.buildings[c].status = s.buildings[c].status
  BY <1>2, <1>4
<1>7. ASSUME NEW a \in DOMAIN t.autos PROVE Opposed(t, a)
  <2>1. Opposed(s, a)
    BY <1>1, <1>5
  <2> QED
    BY <1>5, <1>6, <2>1 DEF Opposed, Exists, CampOf
<1>8. Types(t) /\ AIKept(t)
  BY <1>4, <1>7, CalmInOrder
<1>9. BuildingsTold(t)
  BY <1>5, <1>6 DEF InOrder, BuildingsTold
<1>10. CampsRight(t)
  <2>1. \A q : Owned(t, q) = Owned(s, q)
    BY <1>6 DEF Owned
  <2> QED
    BY <1>5, <2>1 DEF InOrder, CampsRight
<1>11. SupplyRight(t) /\ GridRight(t)
  BY <1>5 DEF InOrder, SupplyRight, OfRole, GridRight
<1>12. InOrder(t)
  BY <1>5, <1>8, <1>9, <1>10, <1>11 DEF InOrder
<1> QED
  BY <1>0, <1>2, <1>4, <1>5, <1>6, <1>12

-----------------------------------------------------------------------------
(* A building goes over to another camp. *)

\* What a role keeps when buildings come and go.
SameBooks(role, other) ==
  other.supply = role.supply /\ other.kept = role.kept /\ other.food = role.food

\* The roles are told of their buildings.
ChangeHostIs(s, t, camp, b) ==
  /\ IsBattle(t) /\ Calm(t)
  /\ t.warriors = s.warriors /\ t.autos = s.autos /\ t.told = s.told /\ t.grid = s.grid
  /\ t.toldBuildings = s.toldBuildings /\ t.ids = s.ids
  /\ t.roles \in [Roles -> RoleSet]
  /\ \A c \in Buildings : /\ t.buildings[c].camp = IF c = b THEN camp ELSE s.buildings[c].camp
                          /\ t.buildings[c].hp = s.buildings[c].hp
                          /\ t.buildings[c].status = s.buildings[c].status
  /\ \A q \in Roles :
       /\ SameBooks(s.roles[q], t.roles[q])
       /\ t.roles[q].buildingNum = (s.roles[q].buildingNum + (IF q = camp THEN 1 ELSE 0))
                                   - (IF q = s.buildings[b].camp THEN 1 ELSE 0)

\* The roles are others.
LEMMA RolesIs ==
  ASSUME NEW s, Calm(s), NEW roles, NEW t, t = [s EXCEPT !.roles = roles]
  PROVE  /\ IsBattle(t) /\ Calm(t) /\ t.roles = roles
         /\ t.warriors = s.warriors /\ t.autos = s.autos /\ t.told = s.told /\ t.grid = s.grid
         /\ t.toldBuildings = s.toldBuildings /\ t.ids = s.ids /\ t.buildings = s.buildings
<1>1. IsBattle(s) /\ Types(s)
  BY DEF Calm, Types
<1>2. /\ IsBattle(t) /\ t.roles = roles
      /\ t.warriors = s.warriors /\ t.autos = s.autos /\ t.told = s.told /\ t.grid = s.grid
      /\ t.toldBuildings = s.toldBuildings /\ t.ids = s.ids /\ t.buildings = s.buildings
      /\ t.moves = s.moves
      /\ t.observers = s.observers /\ t.pending = s.pending /\ t.dispatching = s.dispatching
  BY <1>1 DEF IsBattle
<1>3. Types(t)
  BY <1>1, <1>2 DEF Types
<1>4. Calm(t)
  BY <1>2, <1>3, CalmAs
<1> QED
  BY <1>2, <1>4

LEMMA ChangeHostRight ==
  ASSUME NEW s, InOrder(s), NEW b \in Buildings, NEW camp \in Roles
  PROVE  ChangeHostIs(s, ChangeHost(s, camp, b), camp, b)
<1> DEFINE old == s.buildings[b].camp
           Num(q) == (s.roles[q].buildingNum + (IF q = camp THEN 1 ELSE 0)) - (IF q = old THEN 1 ELSE 0)
           roles == [q \in Roles |-> [s.roles[q] EXCEPT !.buildingNum = Num(q)]]
           f == [s.buildings[b] EXCEPT !.camp = camp]
           u == [s EXCEPT !.buildings[b] = f]
           t == [u EXCEPT !.roles = roles]
<1>1. Types(s) /\ IsBattle(s) /\ Calm(s) /\ s.roles \in [Roles -> RoleSet]
  BY CalmInOrder DEF InOrder, Types
<1>0. ChangeHost(s, camp, b) = t
  <2>1. [s EXCEPT !.buildings[b].camp = camp] = u
    OBVIOUS
  <2>2. u.roles = s.roles
    <3> HIDE DEF f
    <3> QED
      BY <1>1 DEF IsBattle
  <2> HIDE DEF u
  <2> QED
    BY <2>1, <2>2 DEF ChangeHost
<1>2. /\ f \in BuildingSet /\ f.hp = s.buildings[b].hp /\ f.targeted = s.buildings[b].targeted
      /\ f.camp = camp /\ f.status = s.buildings[b].status
  <2>1. s.buildings[b] \in BuildingSet
    BY <1>1 DEF Types
  <2> QED
    BY <2>1 DEF BuildingSet
<1> HIDE DEF f
<1>3. Rebuilt(s, u, b, f)
  BY <1>1, RebuiltIs
<1> HIDE DEF u
<1>4. Calm(u) /\ u.buildings[b] = f /\ \A c \in Buildings : c # b => u.buildings[c] = s.buildings[c]
  BY <1>1, <1>2, <1>3, RebuiltCalm
<1>5. ASSUME NEW q \in Roles
      PROVE  roles[q] \in RoleSet /\ SameBooks(s.roles[q], roles[q]) /\ roles[q].buildingNum = Num(q)
  <2>1. s.roles[q] \in RoleSet
    BY <1>1
  <2>2. Num(q) \in Int
    BY <2>1 DEF RoleSet
  <2>3. roles[q] = [s.roles[q] EXCEPT !.buildingNum = Num(q)]
    OBVIOUS
  <2> HIDE DEF Num, roles
  <2> QED
    BY <2>1, <2>2, <2>3 DEF RoleSet, SameBooks
<1>6. roles \in [Roles -> RoleSet]
  <2>1. roles = [q \in Roles |-> roles[q]]
    OBVIOUS
  <2> HIDE DEF roles
  <2> QED
    BY <1>5, <2>1
<1>7. /\ IsBattle(t) /\ Calm(t) /\ t.roles = roles
      /\ t.warriors = u.warriors /\ t.autos = u.autos /\ t.told = u.told /\ t.grid = u.grid
      /\ t.toldBuildings = u.toldBuildings /\ t.ids = u.ids /\ t.buildings = u.buildings
  <2> HIDE DEF roles
  <2> QED
    BY <1>4, RolesIs
<1> HIDE DEF t, roles
<1>8. \A c \in Buildings : /\ t.buildings[c].camp = IF c = b THEN camp ELSE s.buildings[c].camp
                           /\ t.buildings[c].hp = s.buildings[c].hp
                           /\ t.buildings[c].status = s.buildings[c].status
  BY <1>2, <1>4, <1>7
<1>9. ChangeHostIs(s, t, camp, b)
  BY <1>3, <1>5, <1>6, <1>7, <1>8 DEF ChangeHostIs, Rebuilt
<1> QED
  BY <1>0, <1>9

\* What the players know of a building.
Shown(t, u, b, f) ==
  /\ IsBattle(u) /\ u.toldBuildings = [t.toldBuildings EXCEPT ![b] = f]
  /\ u.warriors = t.warriors /\ u.autos = t.autos /\ u.moves = t.moves /\ u.told = t.told
  /\ u.ids = t.ids /\ u.grid = t.grid /\ u.roles = t.roles /\ u.buildings = t.buildings
  /\ u.observers = t.observers /\ u.pending = t.pending /\ u.dispatching = t.dispatching

LEMMA ShownIs ==
  ASSUME NEW t, Calm(t), NEW b, NEW f
  PROVE  Calm([t EXCEPT !.toldBuildings[b] = f]) /\ Shown(t, [t EXCEPT !.toldBuildings[b] = f], b, f)
<1> DEFINE u == [t EXCEPT !.toldBuildings[b] = f]
<1>1. IsBattle(t) /\ Types(t)
  BY DEF Calm, Types
<1>2. Shown(t, u, b, f)
  BY <1>1 DEF Shown, IsBattle
<1> HIDE DEF u
<1>3. Types(u)
  BY <1>1, <1>2 DEF Types, Shown
<1>4. Calm(u)
  BY <1>2, <1>3, CalmAs DEF Shown
<1> QED
  BY <1>2, <1>4 DEF u

LEMMA OwnedFinite ==
  ASSUME NEW s, NEW r
  PROVE  IsFiniteSet(Owned(s, r)) /\ Cardinality(Owned(s, r)) \in Nat
<1>1. Len(Sites) \in Nat /\ Buildings = 1..Len(Sites)
  BY Sizes
<1>2. IsFiniteSet(Buildings)
  BY <1>1, FS_Interval
<1>3. Owned(s, r) \subseteq Buildings
  BY DEF Owned
<1>4. IsFiniteSet(Owned(s, r))
  BY <1>2, <1>3, FS_Subset
<1> QED
  BY <1>4, FS_CardinalityType

\* The limits of the roles, if all have buildings.
Allocated(s, t) ==
  /\ IsBattle(t) /\ Calm(t) /\ t.roles \in [Roles -> RoleSet]
  /\ t.warriors = s.warriors /\ t.autos = s.autos /\ t.told = s.told /\ t.grid = s.grid
  /\ t.toldBuildings = s.toldBuildings /\ t.ids = s.ids /\ t.buildings = s.buildings
  /\ \A q \in Roles :
       /\ SameBooks(s.roles[q], t.roles[q]) /\ t.roles[q].buildingNum = s.roles[q].buildingNum
       /\ (\A r \in Roles : Owned(s, r) # {}) =>
            t.roles[q].supplyMax = SupplyAdd * Cardinality(Owned(s, q))

LEMMA AllocateIs ==
  ASSUME NEW s, Calm(s), s.roles \in [Roles -> RoleSet]
  PROVE  Allocated(s, AllocateBuildingSupply(s))
<1> DEFINE Limit(q) == SupplyAdd * Cardinality(Owned(s, q))
           roles == [q \in Roles |-> IF Served(s, q) THEN [s.roles[q] EXCEPT !.supplyMax = Limit(q)] ELSE s.roles[q]]
           t == [s EXCEPT !.roles = roles]
<1>0. AllocateBuildingSupply(s) = t
  BY DEF AllocateBuildingSupply
<1>1. ASSUME NEW q \in Roles
      PROVE  /\ roles[q] \in RoleSet /\ SameBooks(s.roles[q], roles[q])
             /\ roles[q].buildingNum = s.roles[q].buildingNum
             /\ Served(s, q) => roles[q].supplyMax = Limit(q)
  <2>1. s.roles[q] \in RoleSet
    OBVIOUS
  <2>2. Limit(q) \in Int
    <3>1. SupplyAdd \in Nat /\ Cardinality(Owned(s, q)) \in Nat
      BY Sizes, OwnedFinite
    <3> QED
      BY <3>1
  <2>3. roles[q] = IF Served(s, q) THEN [s.roles[q] EXCEPT !.supplyMax = Limit(q)] ELSE s.roles[q]
    OBVIOUS
  <2> HIDE DEF Limit, roles
  <2> QED
    BY <2>1, <2>2, <2>3 DEF RoleSet, SameBooks
<1>2. roles \in [Roles -> RoleSet]
  <2>1. roles = [q \in Roles |-> roles[q]]
    OBVIOUS
  <2> HIDE DEF roles
  <2> QED
    BY <1>1, <2>1
<1> HIDE DEF roles
<1>3. /\ IsBattle(t) /\ Calm(t) /\ t.roles = roles
      /\ t.warriors = s.warriors /\ t.autos = s.autos /\ t.told = s.told /\ t.grid = s.grid
      /\ t.toldBuildings = s.toldBuildings /\ t.ids = s.ids /\ t.buildings = s.buildings
  BY RolesIs
<1> HIDE DEF t
<1>4. (\A r \in Roles : Owned(s, r) # {}) => \A q \in Roles : Served(s, q)
  BY DEF Served
<1>5. Allocated(s, t)
  BY <1>1, <1>2, <1>3, <1>4 DEF Allocated
<1> QED
  BY <1>0, <1>5

\* A building is host, or to be retrieved, and the players are told.
Switched(s, t, b) ==
  /\ Calm(t) /\ BuildingsTold(t)
  /\ t.warriors = s.warriors /\ t.autos = s.autos /\ t.ids = s.ids /\ t.grid = s.grid
  /\ t.roles = s.roles /\ t.told = s.told
  /\ \A c \in Buildings : /\ t.buildings[c].camp = s.buildings[c].camp /\ t.buildings[c].hp = s.buildings[c].hp

LEMMA SwitchStatusIs ==
  ASSUME NEW s, Calm(s), BuildingsTold(s), NEW b \in Buildings, NEW status \in {"host", "retrieve"}
  PROVE  Switched(s, SwitchStatus(s, b, status), b)
<1> DEFINE f == [s.buildings[b] EXCEPT !.status = status]
           u == [s EXCEPT !.buildings[b] = f]
           g == [u.toldBuildings[b] EXCEPT !.status = u.buildings[b].status]
           t == [u EXCEPT !.toldBuildings[b] = g]
<1>0. SwitchStatus(s, b, status) = t
  <2>1. [s EXCEPT !.buildings[b].status = status] = u
    OBVIOUS
  <2> HIDE DEF u
  <2> QED
    BY <2>1 DEF SwitchStatus, TellStatus
<1>1. IsBattle(s) /\ s.buildings[b] \in BuildingSet
  BY DEF Calm, Types
<1>2. /\ f \in BuildingSet /\ f.hp = s.buildings[b].hp /\ f.targeted = s.buildings[b].targeted
      /\ f.camp = s.buildings[b].camp /\ f.status = status
  BY <1>1 DEF BuildingSet
<1> HIDE DEF f
<1>3. Rebuilt(s, u, b, f)
  BY <1>1, RebuiltIs
<1> HIDE DEF u
<1>4. Calm(u) /\ u.buildings[b] = f /\ \A c \in Buildings : c # b => u.buildings[c] = s.buildings[c]
  BY <1>2, <1>3, RebuiltCalm
<1>5. Calm(t) /\ Shown(u, t, b, g)
  <2> HIDE DEF g
  <2> QED
    BY <1>4, ShownIs
<1>6. g = [camp |-> u.buildings[b].camp, status |-> u.buildings[b].status]
  <2>1. u.toldBuildings[b] = [camp |-> s.buildings[b].camp, status |-> s.buildings[b].status]
    BY <1>3 DEF Rebuilt, BuildingsTold
  <2> QED
    BY <1>2, <1>4, <2>1
<1> HIDE DEF t, g
<1>7. BuildingsTold(t)
  <2>1. /\ t.toldBuildings = [u.toldBuildings EXCEPT ![b] = g] /\ t.buildings = u.buildings
        /\ u.toldBuildings = [c \in Buildings |-> [camp |-> s.buildings[c].camp, status |-> s.buildings[c].status]]
    BY <1>3, <1>5 DEF Shown, Rebuilt, BuildingsTold
  <2>2. t.toldBuildings = [c \in Buildings |-> IF c = b THEN g
                             ELSE [camp |-> s.buildings[c].camp, status |-> s.buildings[c].status]]
    BY <2>1
  <2> QED
    BY <1>4, <1>6, <2>1, <2>2 DEF BuildingsTold
<1>8. \A c \in Buildings : t.buildings[c].camp = s.buildings[c].camp /\ t.buildings[c].hp = s.buildings[c].hp
  BY <1>2, <1>4, <1>5 DEF Shown
<1>9. Switched(s, t, b)
  BY <1>3, <1>5, <1>7, <1>8 DEF Switched, Shown, Rebuilt
<1> QED
  BY <1>0, <1>9

Converted(s, t, camp, b) ==
  /\ Calm(t) /\ BuildingsTold(t)
  /\ t.warriors = s.warriors /\ t.ids = s.ids /\ t.grid = s.grid /\ t.roles \in [Roles -> RoleSet]
  /\ DOMAIN t.autos = DOMAIN s.autos /\ DOMAIN t.told = DOMAIN s.told
  /\ \A c \in DOMAIN s.autos : t.autos[c].status # "search" =>
       /\ s.autos[c].status # "search"
       /\ t.autos[c].target = s.autos[c].target /\ t.autos[c].target # b
  /\ \A c \in Buildings : /\ t.buildings[c].camp = IF c = b THEN camp ELSE s.buildings[c].camp
                          /\ t.buildings[c].hp = s.buildings[c].hp
  /\ \A q \in Roles :
       /\ SameBooks(s.roles[q], t.roles[q])
       /\ t.roles[q].buildingNum = (s.roles[q].buildingNum + (IF q = camp THEN 1 ELSE 0))
                                   - (IF q = s.buildings[b].camp THEN 1 ELSE 0)
       /\ (\A r \in Roles : Owned(t, r) # {}) =>
            t.roles[q].supplyMax = SupplyAdd * Cardinality(Owned(t, q))

LEMMA ConvertCampIs ==
  ASSUME NEW s, InOrder(s), NEW b \in Buildings, NEW camp \in Roles
  PROVE  Converted(s, ConvertCamp(s, camp, b), camp, b)
<1> DEFINE u1 == ChangeHost(s, camp, b)
           u2 == AllocateBuildingSupply(u1)
           g == [u2.toldBuildings[b] EXCEPT !.camp = u2.buildings[b].camp]
           u3 == [u2 EXCEPT !.toldBuildings[b] = g]
           u4 == Dispatch(u3, [type |-> "lost", of |-> b])
           t == Retrieve(u4, b)
<1>0. ConvertCamp(s, camp, b) = t
  <2>1. TellCamp(u2, b) = u3
    BY DEF TellCamp
  <2> HIDE DEF u3, u2
  <2> QED
    BY <2>1, Zenon DEF ConvertCamp, LoseBuilding, u2
<1>1. ChangeHostIs(s, u1, camp, b)
  BY ChangeHostRight
<1> HIDE DEF u1
<1>2. /\ IsBattle(u1) /\ Calm(u1) /\ u1.roles \in [Roles -> RoleSet]
      /\ u1.warriors = s.warriors /\ u1.autos = s.autos /\ u1.told = s.told /\ u1.grid = s.grid
      /\ u1.toldBuildings = s.toldBuildings /\ u1.ids = s.ids
      /\ \A c \in Buildings : /\ u1.buildings[c].camp = IF c = b THEN camp ELSE s.buildings[c].camp
                              /\ u1.buildings[c].hp = s.buildings[c].hp
                              /\ u1.buildings[c].status = s.buildings[c].status
  BY <1>1 DEF ChangeHostIs
<1>3. Allocated(u1, u2)
  BY <1>2, AllocateIs
<1> HIDE DEF u2
<1>4. Calm(u2) /\ u2.roles \in [Roles -> RoleSet]
      /\ u2.warriors = s.warriors /\ u2.autos = s.autos /\ u2.told = s.told /\ u2.grid = s.grid
      /\ u2.toldBuildings = s.toldBuildings /\ u2.ids = s.ids /\ u2.buildings = u1.buildings
  BY <1>2, <1>3 DEF Allocated
<1>5. Calm(u3) /\ Shown(u2, u3, b, g)
  <2> HIDE DEF g
  <2> QED
    BY <1>4, ShownIs
<1>6. g = [camp |-> camp, status |-> s.buildings[b].status]
  <2>1. u2.toldBuildings[b] = [camp |-> s.buildings[b].camp, status |-> s.buildings[b].status]
    BY <1>4 DEF InOrder, BuildingsTold
  <2>2. u2.buildings[b].camp = camp
    BY <1>2, <1>4
  <2> QED
    BY <2>1, <2>2
<1> HIDE DEF u3, g
<1>7. /\ u3.warriors = s.warriors /\ u3.autos = s.autos /\ u3.told = s.told /\ u3.grid = s.grid /\ u3.ids = s.ids
      /\ u3.buildings = u1.buildings /\ u3.roles = u2.roles /\ BuildingsTold(u3)
  <2>1. /\ u3.warriors = s.warriors /\ u3.autos = s.autos /\ u3.told = s.told /\ u3.grid = s.grid /\ u3.ids = s.ids
        /\ u3.buildings = u1.buildings /\ u3.roles = u2.roles
        /\ u3.toldBuildings = [s.toldBuildings EXCEPT ![b] = g]
    BY <1>4, <1>5 DEF Shown
  <2>2. s.toldBuildings = [c \in Buildings |-> [camp |-> s.buildings[c].camp, status |-> s.buildings[c].status]]
    BY DEF InOrder, BuildingsTold
  <2>3. u3.toldBuildings = [c \in Buildings |-> IF c = b THEN g
                              ELSE [camp |-> s.buildings[c].camp, status |-> s.buildings[c].status]]
    BY <2>1, <2>2
  <2>4. BuildingsTold(u3)
    BY <1>2, <1>6, <2>1, <2>3 DEF BuildingsTold
  <2> QED
    BY <2>1, <2>4
<1>8. /\ Calm(u4) /\ Same(u3, u4)
      /\ \A c \in DOMAIN u3.autos : u4.autos[c].status # "search" =>
           /\ u3.autos[c].status # "search"
           /\ u4.autos[c].target = u3.autos[c].target /\ u4.autos[c].target # b
  BY <1>5, LostIs
<1> HIDE DEF u4
<1>9. BuildingsTold(u4)
  <2>1. u3.toldBuildings = [c \in Buildings |-> [camp |-> u3.buildings[c].camp, status |-> u3.buildings[c].status]]
    BY <1>7 DEF BuildingsTold
  <2> QED
    BY <1>8, <2>1 DEF BuildingsTold, Same
<1>10. Switched(u4, t, b)
  <2>1. Switched(u4, u4, b)
    BY <1>8, <1>9 DEF Switched
  <2>2. Switched(u4, SwitchStatus(u4, b, "retrieve"), b)
    BY <1>8, <1>9, SwitchStatusIs
  <2> QED
    BY <2>1, <2>2 DEF Retrieve
<1> HIDE DEF t
<1>11. /\ Calm(t) /\ BuildingsTold(t) /\ t.warriors = s.warriors /\ t.ids = s.ids /\ t.grid = s.grid
       /\ t.roles = u2.roles /\ DOMAIN t.autos = DOMAIN s.autos /\ DOMAIN t.told = DOMAIN s.told
       /\ t.autos = u4.autos
       /\ \A c \in Buildings : /\ t.buildings[c].camp = u1.buildings[c].camp
                               /\ t.buildings[c].hp = u1.buildings[c].hp
  BY <1>7, <1>8, <1>10 DEF Switched, Same
<1>12. \A q : Owned(t, q) = Owned(u1, q)
  BY <1>11 DEF Owned
<1>13. ASSUME NEW q \in Roles
       PROVE  /\ SameBooks(s.roles[q], t.roles[q])
              /\ t.roles[q].buildingNum = (s.roles[q].buildingNum + (IF q = camp THEN 1 ELSE 0))
                                          - (IF q = s.buildings[b].camp THEN 1 ELSE 0)
              /\ (\A r \in Roles : Owned(t, r) # {}) =>
                   t.roles[q].supplyMax = SupplyAdd * Cardinality(Owned(t, q))
  <2>1. /\ SameBooks(s.roles[q], u1.roles[q])
        /\ u1.roles[q].buildingNum = (s.roles[q].buildingNum + (IF q = camp THEN 1 ELSE 0))
                                     - (IF q = s.buildings[b].camp THEN 1 ELSE 0)
    BY <1>1 DEF ChangeHostIs
  <2>2. /\ SameBooks(u1.roles[q], u2.roles[q]) /\ u2.roles[q].buildingNum = u1.roles[q].buildingNum
        /\ (\A r \in Roles : Owned(u1, r) # {}) =>
             u2.roles[q].supplyMax = SupplyAdd * Cardinality(Owned(u1, q))
    BY <1>3 DEF Allocated
  <2> QED
    BY <1>11, <1>12, <2>1, <2>2 DEF SameBooks
<1>14. ASSUME NEW c \in DOMAIN s.autos, t.autos[c].status # "search"
       PROVE  /\ s.autos[c].status # "search"
              /\ t.autos[c].target = s.autos[c].target /\ t.autos[c].target # b
  BY <1>7, <1>8, <1>11, <1>14
<1>15. Converted(s, t, camp, b)
  <2>1. \A c \in Buildings : /\ t.buildings[c].camp = IF c = b THEN camp ELSE s.buildings[c].camp
                             /\ t.buildings[c].hp = s.buildings[c].hp
    BY <1>2, <1>11
  <2> QED
    BY <1>4, <1>11, <1>13, <1>14, <2>1 DEF Converted
<1> QED
  BY <1>0, <1>15

\* The battle goes on when both camps have buildings.
LEMMA ConvertedInOrder ==
  ASSUME NEW s, InOrder(s), NEW b \in Buildings, NEW camp \in Roles, camp # s.buildings[b].camp,
         NEW t, Converted(s, t, camp, b), ~OneCamp(t)
  PROVE  InOrder(t)
<1>1. Calm(s) /\ Types(s) /\ \A c \in DOMAIN s.autos : Opposed(s, c)
  BY CalmInOrder DEF InOrder
<1>2. /\ Calm(t) /\ Types(t) /\ BuildingsTold(t) /\ t.warriors = s.warriors /\ t.grid = s.grid
      /\ t.roles \in [Roles -> RoleSet] /\ DOMAIN t.autos = DOMAIN s.autos /\ DOMAIN t.told = DOMAIN s.told
      /\ \A c \in Buildings : t.buildings[c].camp = IF c = b THEN camp ELSE s.buildings[c].camp
  BY DEF Converted, Calm
<1>3. ASSUME NEW c \in DOMAIN s.autos
      PROVE  Opposed(t, c)
  <2> SUFFICES ASSUME t.autos[c].status # "search"
               PROVE  Exists(t, t.autos[c].target) /\ CampOf(t, t.autos[c].target) # CampOf(t, c)
    BY DEF Opposed
  <2>1. /\ s.autos[c].status # "search" /\ t.autos[c].target = s.autos[c].target /\ t.autos[c].target # b
    BY DEF Converted
  <2>2. Exists(s, s.autos[c].target) /\ CampOf(s, s.autos[c].target) # CampOf(s, c)
    BY <1>1, <2>1 DEF Opposed
  <2>3. \A x : x # b /\ Exists(s, x) => Exists(t, x) /\ CampOf(t, x) = CampOf(s, x)
    BY <1>2 DEF Exists, CampOf
  <2>4. c # b /\ Exists(s, c)
    <3>1. Len(Sites) \in Nat /\ Buildings = 1..Len(Sites)
      BY Sizes
    <3>2. c \in DOMAIN s.warriors /\ c \in (Len(Sites) + 1)..s.ids /\ s.ids \in Int
      BY <1>1, <3>1 DEF Types
    <3> QED
      BY <3>1, <3>2 DEF Exists
  <2> QED
    BY <2>1, <2>2, <2>3, <2>4
<1>4. Types(t) /\ AIKept(t)
  BY <1>2, <1>3, CalmInOrder
<1>5. SupplyRight(t)
  <2>1. \A q : OfRole(t, q) = OfRole(s, q)
    BY <1>2 DEF OfRole
  <2>2. \A q \in Roles : t.roles[q].supply = s.roles[q].supply /\ t.roles[q].kept = s.roles[q].kept
    BY DEF Converted, SameBooks
  <2> QED
    BY <2>1, <2>2 DEF InOrder, SupplyRight
<1>6. GridRight(t)
  BY <1>2 DEF InOrder, GridRight
<1>7. \A q \in Roles : Owned(t, q) # {}
  <2>1. PICK x \in Buildings, y \in Buildings : t.buildings[x].camp # t.buildings[y].camp
    BY DEF OneCamp
  <2>2. t.buildings[x].camp \in Roles /\ t.buildings[y].camp \in Roles
    BY <1>2 DEF Types, BuildingSet
  <2>3. \A q \in Roles : q = t.buildings[x].camp \/ q = t.buildings[y].camp
    BY <2>1, <2>2, CampsAssumption
  <2> QED
    BY <2>3 DEF Owned
<1>8. ASSUME NEW q \in Roles
      PROVE  t.roles[q].buildingNum = Cardinality(Owned(t, q))
  <2> DEFINE old == s.buildings[b].camp
             n == Cardinality(Owned(s, q))
  <2>1. s.roles[q].buildingNum = n
    BY DEF InOrder, CampsRight
  <2>2. IsFiniteSet(Owned(s, q)) /\ n \in Nat
    BY OwnedFinite
  <2>3. t.roles[q].buildingNum = (n + (IF q = camp THEN 1 ELSE 0)) - (IF q = old THEN 1 ELSE 0)
    BY <2>1 DEF Converted
  <2>4. CASE q = camp
    <3>1. Owned(t, q) = Owned(s, q) \cup {b} /\ b \notin Owned(s, q)
      BY <1>2, <2>4 DEF Owned
    <3>2. Cardinality(Owned(t, q)) = n + 1
      BY <2>2, <3>1, FS_AddElement
    <3> QED
      BY <2>2, <2>3, <2>4, <3>2
  <2>5. CASE q = old
    <3>1. Owned(t, q) = Owned(s, q) \ {b} /\ b \in Owned(s, q)
      BY <1>2, <2>5 DEF Owned
    <3>2. Cardinality(Owned(t, q)) = n - 1
      BY <2>2, <3>1, FS_RemoveElement
    <3> QED
      BY <2>2, <2>3, <2>5, <3>2
  <2>6. CASE q # camp /\ q # old
    <3>1. Owned(t, q) = Owned(s, q)
      BY <1>2, <2>6 DEF Owned
    <3> QED
      BY <2>2, <2>3, <2>6, <3>1
  <2> QED
    BY <2>4, <2>5, <2>6
<1>9. CampsRight(t)
  BY <1>7, <1>8 DEF CampsRight, Converted
<1> QED
  BY <1>2, <1>4, <1>5, <1>6, <1>9 DEF InOrder

-----------------------------------------------------------------------------
(* The actions of one warrior. *)

LEMMA HandledCalm ==
  ASSUME NEW s, Calm(s), NEW a \in DOMAIN s.autos, NEW t, Handled(s, t, a)
  PROVE  Calm(t) /\ Same(s, t)
<1>1. Types(s) /\ Acts(s, t, {a})
  BY DEF Calm, Handled
<1>2. Types(t) /\ ~t.dispatching /\ t.pending = {} /\ Same(s, t)
  BY <1>1 DEF Calm, Acts, Same
<1>3. Counted(t)
  BY <1>1, CountedKept DEF Calm
<1>4. ASSUME NEW c \in DOMAIN t.autos PROVE AutoKept(t, c)
  <2>1. CASE c = a
    BY <2>1 DEF Handled
  <2>2. CASE c # a
    <3>1. c \in DOMAIN s.autos /\ AutoKept(s, c) /\ c \notin {a}
      BY <1>2, <2>2 DEF Same, Calm
    <3> QED
      BY <1>1, <3>1, ActsKeeps
  <2> QED
    BY <2>1, <2>2
<1> QED
  BY <1>2, <1>3, <1>4 DEF Calm

LEMMA ActKeeps ==
  ASSUME NEW s, BattleKept(s), NEW a \in DOMAIN s.autos, NEW t, Handled(s, t, a),
         t.autos[a].status # "search" =>
           Exists(s, t.autos[a].target) /\ CampOf(s, t.autos[a].target) # CampOf(s, a)
  PROVE  BattleKept(t)
<1>1. InOrder(s) /\ Calm(s) /\ \A c \in DOMAIN s.autos : Opposed(s, c)
  BY CalmInOrder DEF BattleKept, InOrder
<1>2. Calm(t) /\ Same(s, t)
  BY <1>1, HandledCalm
<1>3. \A x : /\ Exists(s, x) => Exists(t, x) /\ CampOf(t, x) = CampOf(s, x)
  BY <1>2 DEF Same, Exists, CampOf
<1>4. ASSUME NEW c \in DOMAIN s.autos PROVE Opposed(t, c)
  <2>0. Exists(s, c)
    BY <1>1 DEF Calm, Types, Exists
  <2>1. CASE c = a
    BY <1>3, <2>0, <2>1 DEF Opposed
  <2>2. CASE c # a
    <3>1. t.autos[c] = s.autos[c] /\ Opposed(s, c)
      BY <1>1, <2>2 DEF Handled, Acts
    <3> QED
      BY <1>3, <2>0, <3>1 DEF Opposed
  <2> QED
    BY <2>1, <2>2
<1>5. InOrder(t)
  BY <1>1, <1>2, <1>4, SameInOrder
<1> QED
  BY <1>2, <1>5 DEF BattleKept, Same

LEMMA KeptParts ==
  ASSUME NEW s, BattleKept(s)
  PROVE  /\ InOrder(s) /\ Calm(s) /\ Types(s) /\ IsBattle(s)
         /\ DOMAIN s.autos = DOMAIN s.warriors /\ DOMAIN s.told = DOMAIN s.warriors
         /\ \A a \in DOMAIN s.autos : Opposed(s, a) /\ AutoKept(s, a)
BY CalmInOrder DEF BattleKept, InOrder, Calm, Types

\* A warrior is sent somewhere.
LEMMA MoveKeeps ==
  ASSUME NEW s, BattleKept(s), NEW w \in DOMAIN s.warriors, NEW dest
  PROVE  BattleKept(OnRequireSceneMove(s, w, dest))
<1> DEFINE t == OnRequireSceneMove(s, w, dest)
<1>1. /\ Calm(s) /\ Types(s) /\ w \in DOMAIN s.autos /\ w \in DOMAIN s.told
      /\ Opposed(s, w) /\ AutoKept(s, w)
  BY KeptParts
<1>2. CASE s.autos[w].status = "attack"
  <2>1. t = s
    BY <1>2 DEF OnRequireSceneMove, OnVoteSceneMove
  <2> QED
    BY <2>1
<1>3. CASE s.autos[w].status # "attack"
  <2>1. s.told[w].to = Going(s, w)
    BY <1>1 DEF AutoKept, ToldRight
  <2>2. OnlyMove(s, t, w)
    BY <1>1, <2>1, OnRequireSceneMoveIs
  <2> HIDE DEF t
  <2>3. Handled(s, t, w)
    BY <1>1, <1>3, <2>2, MovedHandled
  <2>4. t.autos[w] = s.autos[w]
    BY <2>2 DEF OnlyMove
  <2>5. BattleKept(t)
    BY <1>1, <2>3, <2>4, ActKeeps DEF Opposed
  <2> QED
    BY <2>5 DEF t
<1> QED
  BY <1>2, <1>3

\* A warrior searches and has found somebody.
LEMMA SearchKeeps ==
  ASSUME NEW s, BattleKept(s), NEW a \in DOMAIN s.autos, "search" \in s.autos[a].timers,
         NEW id, Exists(s, id), CampOf(s, id) # CampOf(s, a)
  PROVE  BattleKept(GotoChase(SetTarget(s, a, id), a))
<1> DEFINE event == [type |-> "attacked", of |-> a, by |-> id]
           t == GotoChase(SetTarget(s, a, id), a)
<1>0. event.type = "attacked" /\ event.of = a /\ event.by = id
  OBVIOUS
<1> HIDE DEF event
<1>1. Calm(s) /\ Types(s) /\ AutoKept(s, a)
  BY KeptParts
<1>2. s.autos[a].status = "search"
  <2>1. TimersRight(s, a) /\ s.autos[a].status \in {"search", "chase", "attack"}
    BY <1>1 DEF AutoKept, Types, AutoSet
  <2> QED
    BY <2>1 DEF TimersRight
<1>3. id \in 0..MaxId /\ id # a
  <2>1. Len(Sites) \in Nat /\ Buildings = 1..Len(Sites) /\ MaxId \in Nat /\ MaxId >= Len(Sites)
    BY Sizes
  <2>2. DOMAIN s.warriors \subseteq (Len(Sites) + 1)..s.ids /\ s.ids \in Len(Sites)..MaxId
    BY <1>1 DEF Types
  <2> QED
    BY <2>1, <2>2 DEF Exists
<1>4. <<event.by, a>> \notin s.pending
  BY <1>1 DEF Calm
<1>5. OnEventCombatAttacked(s, a, event.of, event.by) = t
  BY <1>0, <1>2 DEF OnEventCombatAttacked
<1> HIDE DEF t
<1>6. Reacts(s, t, a, event)
  <2>1. Reacts(s, OnEventCombatAttacked(s, a, event.of, event.by), a, event)
    BY <1>0, <1>1, <1>3, <1>4, AttackedReacts
  <2> QED
    BY <1>5, <2>1
<1>7. Handled(s, t, a) /\ (t.autos[a].status # "search" => t.autos[a].target = id)
  BY <1>0, <1>2, <1>6 DEF Reacts, Targets
<1>8. BattleKept(t)
  BY <1>7, ActKeeps
<1> QED
  BY <1>8 DEF t

\* A chase looks for its way again.
LEMMA RefindKeeps ==
  ASSUME NEW s, BattleKept(s), NEW a \in DOMAIN s.autos, "refind" \in s.autos[a].timers
  PROVE  BattleKept(Approach([s EXCEPT !.autos[a].timers = @ \ {"refind"}], a))
<1> DEFINE u == ResetTimer(s, a, "refind")
           t == Approach(u, a)
<1>0. [s EXCEPT !.autos[a].timers = @ \ {"refind"}] = u
  BY DEF ResetTimer
<1>1. Calm(s) /\ Types(s) /\ AutoKept(s, a) /\ Opposed(s, a) /\ TimersRight(s, a)
  BY KeptParts DEF AutoKept
<1>2. s.autos[a].status = "chase"
  <2>1. s.autos[a].status \in {"search", "chase", "attack"}
    BY <1>1 DEF Types, AutoSet
  <2> QED
    BY <1>1, <2>1 DEF TimersRight
<1>3. Acts(s, u, {a}) /\ SetAuto(s, u, a, s.autos[a].status, s.autos[a].target, s.autos[a].timers \ {"refind"})
  BY <1>1, TimerActs
<1> HIDE DEF u
<1>4. AutoKept(u, a)
  <2>1. Going(u, a) = Going(s, a) /\ DOMAIN u.told = DOMAIN s.told
    BY <1>3, GoingSame DEF Acts, SetAuto
  <2> QED
    BY <1>1, <1>2, <1>3, <2>1 DEF AutoKept, Watches, TimersRight, ToldRight, SetAuto
<1>5. Handled(s, u, a)
  <2>1. \A b \in Buildings : Mine(u, a, b) = Mine(s, a, b)
    BY <1>3 DEF SetAuto, Mine
  <2> QED
    BY <1>3, <1>4, <2>1 DEF Handled, SetAuto
<1>6. BattleKept(u)
  BY <1>1, <1>3, <1>5, ActKeeps DEF Opposed, SetAuto
<1>7. Types(u) /\ a \in DOMAIN u.autos /\ Opposed(u, a) /\ u.autos[a].status = "chase"
  BY <1>2, <1>3, <1>6, KeptParts DEF Acts, SetAuto
<1>8. Follows(u, t, a)
  BY <1>4, <1>7, ApproachIs DEF AutoKept
<1> HIDE DEF t
<1>9. BattleKept(t)
  BY <1>6, <1>7, <1>8, ActKeeps DEF Follows, Opposed
<1> QED
  BY <1>0, <1>9 DEF t

\* A hit on a building: the battle goes on, or is over with the supply of the roles.
HitBuilding(t, b) ==
  IF t.buildings[b].hp <= 0 /\ OneCamp(t) THEN \A r \in Roles : t.roles[r].supply \in Nat
  ELSE BattleKept(t)

LEMMA SupplyNat ==
  ASSUME NEW s, InOrder(s), NEW r \in Roles
  PROVE  s.roles[r].supply \in Nat
<1> DEFINE n == Cardinality(OfRole(s, r))
<1>1. n \in Nat /\ SupplyNeed \in Nat
  BY OfRoleFinite, Sizes DEF InOrder
<1>2. s.roles[r].supply - s.roles[r].kept = SupplyNeed * n
  BY DEF InOrder, SupplyRight
<1>3. s.roles[r].supply \in Int /\ s.roles[r].kept \in Nat
  BY DEF InOrder, RoleSet
<1> HIDE DEF n
<1>4. SupplyNeed * n \in Nat
  BY <1>1
<1> QED
  BY <1>2, <1>3, <1>4

LEMMA AttackBuildingIs ==
  ASSUME NEW s, BattleKept(s), NEW a \in DOMAIN s.autos, NEW b \in Buildings,
         CampOf(s, b) # CampOf(s, a)
  PROVE  HitBuilding(AttackBuilding(s, a, b), b)
<1> DEFINE n == Hit(s.buildings[b].hp)
           h == [s EXCEPT !.buildings[b].hp = n]
           camp == h.warriors[a].role
           t == ConvertCamp(h, camp, b)
<1>0. AttackBuilding(s, a, b) = IF h.buildings[b].hp <= 0 THEN t ELSE h
  <2>1. h.warriors = s.warriors
    <3>1. IsBattle(s)
      BY KeptParts
    <3> HIDE DEF n
    <3> QED
      BY <3>1 DEF IsBattle
  <2> QED
    BY <2>1, Zenon DEF AttackBuilding
<1>1. Types(s) /\ InOrder(s) /\ a \in DOMAIN s.warriors /\ a \notin Buildings
  <2>1. Types(s) /\ InOrder(s) /\ a \in DOMAIN s.warriors
    BY KeptParts
  <2>2. Len(Sites) \in Nat /\ Buildings = 1..Len(Sites)
    BY Sizes
  <2>3. a \in (Len(Sites) + 1)..s.ids /\ s.ids \in Int
    BY <2>1, <2>2 DEF Types
  <2> QED
    BY <2>1, <2>2, <2>3
<1>2. n \in 0..MaxHp
  <2>1. s.buildings[b].hp \in 0..MaxHp
    BY <1>1 DEF Types, BuildingSet
  <2>2. Damage \in Nat /\ MaxHp \in Nat
    BY Sizes
  <2> QED
    BY <2>1, <2>2 DEF Hit
<1> HIDE DEF n
<1>3. /\ InOrder(h) /\ h.warriors = s.warriors /\ h.buildings[b].hp = n
      /\ h.buildings[b].camp = s.buildings[b].camp
  BY <1>1, <1>2, PointsInOrder
<1> HIDE DEF h
<1>4. camp \in Roles /\ camp # h.buildings[b].camp
  BY <1>1, <1>3 DEF Types, WarriorSet, CampOf
<1>5. CASE h.buildings[b].hp <= 0
  <2>1. Converted(h, t, camp, b)
    BY <1>3, <1>4, ConvertCampIs
  <2> HIDE DEF t, camp
  <2>2. t.buildings[b].hp = h.buildings[b].hp /\ t.warriors = h.warriors
    BY <2>1 DEF Converted
  <2>3. CASE OneCamp(t)
    <3>1. \A r \in Roles : t.roles[r].supply = h.roles[r].supply
      BY <2>1 DEF Converted, SameBooks
    <3>2. \A r \in Roles : t.roles[r].supply \in Nat
      BY <1>3, <3>1, SupplyNat
    <3>3. HitBuilding(t, b)
      BY <1>5, <2>2, <2>3, <3>2 DEF HitBuilding
    <3> QED
      BY <1>0, <1>5, <3>3
  <2>4. CASE ~OneCamp(t)
    <3>1. InOrder(t)
      BY <1>3, <1>4, <2>1, <2>4, ConvertedInOrder
    <3>2. BattleKept(t)
      BY <1>3, <2>2, <3>1 DEF BattleKept
    <3>3. HitBuilding(t, b)
      BY <2>4, <3>2 DEF HitBuilding
    <3> QED
      BY <1>0, <1>5, <3>3
  <2> QED
    BY <2>3, <2>4
<1>6. CASE ~(h.buildings[b].hp <= 0)
  <2>1. BattleKept(h)
    BY <1>3 DEF BattleKept
  <2>2. HitBuilding(h, b)
    BY <1>6, <2>1 DEF HitBuilding
  <2> QED
    BY <1>0, <1>6, <2>2
<1> QED
  BY <1>5, <1>6

\* A step of a move.
Step(s, w) ==
  LET left == [s EXCEPT !.grid[s.warriors[w].pos] = @ \ {w}]
      next == Head(s.moves[w])
  IN [left EXCEPT !.grid[next] = @ \cup {w}, !.warriors[w].pos = next, !.moves[w] = Tail(@)]

Stepped(s, t, w) ==
  /\ IsBattle(t)
  /\ t.warriors = [s.warriors EXCEPT ![w].pos = Head(s.moves[w])]
  /\ t.moves = [s.moves EXCEPT ![w] = Tail(s.moves[w])]
  /\ t.grid = [[s.grid EXCEPT ![s.warriors[w].pos] = @ \ {w}] EXCEPT ![Head(s.moves[w])] = @ \cup {w}]
  /\ t.autos = s.autos /\ t.told = s.told /\ t.ids = s.ids /\ t.roles = s.roles
  /\ t.buildings = s.buildings /\ t.toldBuildings = s.toldBuildings
  /\ t.observers = s.observers /\ t.pending = s.pending /\ t.dispatching = s.dispatching

LEMMA SteppedIs ==
  ASSUME NEW s, IsBattle(s), NEW w
  PROVE  Stepped(s, Step(s, w), w)
<1> DEFINE next == Head(s.moves[w])
           left == [s EXCEPT !.grid[s.warriors[w].pos] = @ \ {w}]
           g == [left.grid EXCEPT ![next] = @ \cup {w}]
           ws == [left.warriors EXCEPT ![w].pos = next]
           m == [left.moves EXCEPT ![w] = Tail(left.moves[w])]
           u == [left EXCEPT !.grid = g]
           x == [u EXCEPT !.warriors = ws]
           y == [x EXCEPT !.moves = m]
           t == [left EXCEPT !.grid[next] = @ \cup {w}, !.warriors[w].pos = next, !.moves[w] = Tail(@)]
<1>1. /\ IsBattle(left) /\ left.grid = [s.grid EXCEPT ![s.warriors[w].pos] = @ \ {w}]
      /\ left.roles = s.roles /\ left.autos = s.autos /\ left.told = s.told
      /\ left.warriors = s.warriors /\ left.ids = s.ids /\ left.moves = s.moves
      /\ left.buildings = s.buildings /\ left.toldBuildings = s.toldBuildings
      /\ left.observers = s.observers /\ left.pending = s.pending /\ left.dispatching = s.dispatching
  BY DEF IsBattle
<1>0. Step(s, w) = t
  BY DEF Step
<1> HIDE DEF left
<1>2. /\ IsBattle(u) /\ u.grid = g
      /\ u.roles = s.roles /\ u.autos = s.autos /\ u.told = s.told
      /\ u.warriors = s.warriors /\ u.ids = s.ids /\ u.moves = s.moves
      /\ u.buildings = s.buildings /\ u.toldBuildings = s.toldBuildings
      /\ u.observers = s.observers /\ u.pending = s.pending /\ u.dispatching = s.dispatching
  <2> HIDE DEF g
  <2> QED
    BY <1>1 DEF IsBattle
<1>3. t = y
  <2>1. u.warriors = left.warriors /\ u.moves = left.moves
    BY <1>1, <1>2
  <2>2. x.moves = u.moves
    <3> HIDE DEF u, ws
    <3> QED
      BY <1>2 DEF IsBattle
  <2> QED
    BY <2>1, <2>2
<1> HIDE DEF t, u
<1>4. /\ IsBattle(x) /\ x.grid = g
      /\ x.roles = s.roles /\ x.autos = s.autos /\ x.told = s.told
      /\ x.warriors = ws /\ x.ids = s.ids /\ x.moves = s.moves
      /\ x.buildings = s.buildings /\ x.toldBuildings = s.toldBuildings
      /\ x.observers = s.observers /\ x.pending = s.pending /\ x.dispatching = s.dispatching
  <2> HIDE DEF g, ws
  <2> QED
    BY <1>2 DEF IsBattle
<1> HIDE DEF x
<1>5. /\ IsBattle(y) /\ y.grid = g
      /\ y.roles = s.roles /\ y.autos = s.autos /\ y.told = s.told
      /\ y.warriors = ws /\ y.ids = s.ids /\ y.moves = m
      /\ y.buildings = s.buildings /\ y.toldBuildings = s.toldBuildings
      /\ y.observers = s.observers /\ y.pending = s.pending /\ y.dispatching = s.dispatching
  <2> HIDE DEF g, ws, m
  <2> QED
    BY <1>4 DEF IsBattle
<1> HIDE DEF y
<1>6. Stepped(s, y, w)
  BY <1>1, <1>5 DEF Stepped
<1> QED
  BY <1>0, <1>3, <1>6

LEMMA StepCalm ==
  ASSUME NEW s, BattleKept(s), NEW w \in DOMAIN s.warriors, s.moves[w] # << >>,
         NEW t, Stepped(s, t, w)
  PROVE  /\ Calm(t) /\ DOMAIN t.warriors = DOMAIN s.warriors
         /\ \A v \in DOMAIN s.warriors :
              /\ t.warriors[v].role = s.warriors[v].role /\ t.warriors[v].hp = s.warriors[v].hp
              /\ t.warriors[v].pos = IF v = w THEN Head(s.moves[w]) ELSE s.warriors[v].pos
         /\ Head(s.moves[w]) \in Walkable
<1> DEFINE m == s.moves[w]
           f == [s.warriors[w] EXCEPT !.pos = Head(m)]
<1>1. /\ Calm(s) /\ Types(s) /\ w \in DOMAIN s.autos /\ AutoKept(s, w) /\ DOMAIN s.told = DOMAIN s.warriors
      /\ s.warriors[w] \in WarriorSet /\ m \in Seq(Walkable)
      /\ \A a \in DOMAIN s.autos : AutoKept(s, a) /\ a \in DOMAIN s.warriors
  BY KeptParts DEF Types
<1>2. Head(m) \in Walkable /\ Tail(m) \in Seq(Walkable) /\ Len(m) \in Nat /\ m # << >>
  BY <1>1
<1>3. f \in WarriorSet /\ f.role = s.warriors[w].role /\ f.hp = s.warriors[w].hp /\ f.pos = Head(m)
  <2> HIDE DEF m
  <2> QED
    BY <1>1, <1>2 DEF WarriorSet
<1>4. /\ t.warriors = [s.warriors EXCEPT ![w] = f] /\ t.moves = [s.moves EXCEPT ![w] = Tail(m)]
      /\ IsBattle(t) /\ t.autos = s.autos /\ t.told = s.told /\ t.ids = s.ids
      /\ t.buildings = s.buildings
      /\ t.observers = s.observers /\ t.pending = s.pending /\ t.dispatching = s.dispatching
  BY DEF Stepped
<1> HIDE DEF m, f
<1>5. /\ t.warriors \in [DOMAIN s.warriors -> WarriorSet] /\ DOMAIN t.warriors = DOMAIN s.warriors
      /\ t.warriors[w] = f /\ \A v \in DOMAIN s.warriors : v # w => t.warriors[v] = s.warriors[v]
  BY <1>1, <1>3, <1>4 DEF Types
<1>6. /\ t.moves \in [DOMAIN s.warriors -> Seq(Walkable)]
      /\ t.moves[w] = Tail(m) /\ \A v \in DOMAIN s.warriors : v # w => t.moves[v] = s.moves[v]
  BY <1>1, <1>2, <1>4 DEF Types
<1>7. Types(t)
  BY <1>1, <1>4, <1>5, <1>6 DEF Types
<1>8. Going(t, w) = Going(s, w)
  <2>1. Going(s, w) = m[Len(m)]
    BY GoingIs DEF m
  <2>2. CASE Tail(m) = << >>
    <3>1. Len(m) = 1 /\ Head(m) = m[1]
      <4> DEFINE k == Len(Tail(m))
                 l == Len(m)
      <4>1. k = l - 1
        BY <1>1, <1>2, HeadTailProperties
      <4>2. k = 0
        BY <2>2, EmptySeq
      <4>3. l = 1
        <5>1. l \in Nat
          BY <1>2
        <5> HIDE DEF k, l
        <5> QED
          BY <4>1, <4>2, <5>1
      <4>4. Head(m) = m[1]
        BY <1>1, <1>2, <4>3
      <4> QED
        BY <4>3, <4>4
    <3>2. Going(t, w) = Head(m)
      <4>1. t.moves[w] = << >> /\ t.warriors[w].pos = Head(m)
        BY <1>3, <1>5, <1>6, <2>2
      <4> QED
        BY <4>1, GoingIs
    <3> QED
      BY <2>1, <3>1, <3>2
  <2>3. CASE Tail(m) # << >>
    <3>1. /\ Len(Tail(m)) = Len(m) - 1 /\ Len(m) > 1
          /\ \A i \in 1..(Len(m) - 1) : Tail(m)[i] = m[i + 1]
      BY <1>1, <1>2, <2>3
    <3>2. Tail(m)[Len(Tail(m))] = m[Len(m)]
      BY <1>2, <3>1
    <3>3. Going(t, w) = Tail(m)[Len(Tail(m))]
      BY <1>6, <2>3, GoingIs
    <3> QED
      BY <2>1, <3>2, <3>3
  <2> QED
    BY <2>2, <2>3
<1>9. s.autos[w].status # "attack"
  BY <1>1, <1>2 DEF AutoKept, m
<1>10. ASSUME NEW a \in DOMAIN t.autos PROVE AutoKept(t, a)
  <2>1. AutoKept(s, a) /\ a \in DOMAIN s.warriors
    BY <1>1, <1>4
  <2>2. Going(t, a) = Going(s, a)
    <3>1. CASE a = w
      BY <1>8, <3>1
    <3>2. CASE a # w
      BY <1>5, <1>6, <2>1, <3>2 DEF Going, MovePaths
    <3> QED
      BY <3>1, <3>2
  <2>3. t.autos[a].status = "attack" => t.moves[a] = << >>
    BY <1>4, <1>6, <1>9, <2>1 DEF AutoKept
  <2>4. Watches(t, a) /\ TimersRight(t, a) /\ ToldRight(t, a)
    BY <1>4, <2>1, <2>2 DEF AutoKept, Watches, TimersRight, ToldRight
  <2> QED
    BY <2>3, <2>4 DEF AutoKept
<1>11. Counted(t)
  BY <1>1, <1>4 DEF Calm, Counted, Attackers
<1>12. Calm(t)
  BY <1>1, <1>4, <1>7, <1>10, <1>11 DEF Calm
<1>13. ASSUME NEW v \in DOMAIN s.warriors
       PROVE  /\ t.warriors[v].role = s.warriors[v].role /\ t.warriors[v].hp = s.warriors[v].hp
              /\ t.warriors[v].pos = IF v = w THEN Head(m) ELSE s.warriors[v].pos
  BY <1>3, <1>5
<1> QED
  BY <1>2, <1>5, <1>12, <1>13 DEF m

LEMMA StepInOrder ==
  ASSUME NEW s, BattleKept(s), NEW w \in DOMAIN s.warriors, s.moves[w] # << >>
  PROVE  BattleKept(Step(s, w))
<1> DEFINE t == Step(s, w)
           next == Head(s.moves[w])
           pos == s.warriors[w].pos
<1>1. InOrder(s) /\ Types(s) /\ IsBattle(s) /\ \A c \in DOMAIN s.autos : Opposed(s, c)
  BY KeptParts
<1>2. Stepped(s, t, w)
  BY <1>1, SteppedIs
<1> HIDE DEF t
<1>3. /\ Calm(t) /\ DOMAIN t.warriors = DOMAIN s.warriors
      /\ \A v \in DOMAIN s.warriors :
           /\ t.warriors[v].role = s.warriors[v].role /\ t.warriors[v].hp = s.warriors[v].hp
           /\ t.warriors[v].pos = IF v = w THEN next ELSE s.warriors[v].pos
      /\ next \in Walkable
  BY <1>2, StepCalm
<1> HIDE DEF next
<1>4. /\ t.autos = s.autos /\ t.told = s.told /\ t.roles = s.roles
      /\ t.buildings = s.buildings /\ t.toldBuildings = s.toldBuildings
  BY <1>2 DEF Stepped
<1>5. ASSUME NEW a \in DOMAIN t.autos PROVE Opposed(t, a)
  <2>1. Opposed(s, a) /\ a \in DOMAIN s.warriors
    BY <1>1, <1>4 DEF Types
  <2> QED
    BY <1>3, <1>4, <2>1 DEF Opposed, Exists, CampOf
<1>6. Types(t) /\ AIKept(t)
  BY <1>3, <1>5, CalmInOrder
<1>7. BuildingsTold(t)
  BY <1>1, <1>4 DEF InOrder, BuildingsTold
<1>8. SupplyRight(t)
  <2>1. \A q : OfRole(t, q) = OfRole(s, q)
    BY <1>3 DEF OfRole
  <2> QED
    BY <1>1, <1>4, <2>1 DEF InOrder, SupplyRight
<1>9. CampsRight(t)
  <2>1. \A q : Owned(t, q) = Owned(s, q)
    BY <1>4 DEF Owned
  <2> QED
    BY <1>1, <1>4, <2>1 DEF InOrder, CampsRight
<1>10. GridRight(t)
  <2> DEFINE At(u, c) == {v \in DOMAIN u.warriors : u.warriors[v].pos = c}
  <2>1. s.grid = [c \in Cells |-> At(s, c)]
    BY <1>1 DEF InOrder, GridRight
  <2>2. \A c : At(t, c) = (At(s, c) \ {w}) \cup (IF c = next THEN {w} ELSE {})
    BY <1>3
  <2>3. w \in At(s, pos) /\ \A c : c # pos => w \notin At(s, c)
    OBVIOUS
  <2>4. next \in Cells /\ pos \in Cells
    <3>1. pos \in Walkable /\ Walkable \subseteq Cells
      BY <1>1, BattleAssumption DEF Types, WarriorSet, Cells
    <3> QED
      BY <1>3, <3>1
  <2>5. t.grid = [[s.grid EXCEPT ![pos] = @ \ {w}] EXCEPT ![next] = @ \cup {w}]
    BY <1>2 DEF Stepped, next
  <2> HIDE DEF At, pos
  <2> DEFINE left == [s.grid EXCEPT ![pos] = @ \ {w}]
  <2>6. left = [c \in Cells |-> At(s, c) \ {w}]
    BY <2>1, <2>3, <2>4
  <2>7. t.grid = [left EXCEPT ![next] = @ \cup {w}]
    BY <2>5
  <2> HIDE DEF left
  <2>8. t.grid = [c \in Cells |-> (At(s, c) \ {w}) \cup (IF c = next THEN {w} ELSE {})]
    BY <2>4, <2>6, <2>7
  <2>9. t.grid = [c \in Cells |-> At(t, c)]
    BY <2>2, <2>8
  <2> QED
    BY <2>9 DEF GridRight, At
<1>11. InOrder(t)
  BY <1>1, <1>3, <1>4, <1>6, <1>7, <1>8, <1>9, <1>10 DEF InOrder
<1>12. BattleKept(t)
  BY <1>3, <1>11 DEF BattleKept
<1> QED
  BY <1>12 DEF t

LEMMA MoveStepKeeps ==
  ASSUME NEW s, BattleKept(s), NEW w
  PROVE  BattleKept(Dispatch(s, [type |-> "moveStep", of |-> w]))
<1> DEFINE event == [type |-> "moveStep", of |-> w]
           t == Dispatch(s, event)
<1>1. event.type = "moveStep" /\ event.of = w
  OBVIOUS
<1> HIDE DEF event
<1>2. Calm(s) /\ InOrder(s) /\ Types(s) /\ \A c \in DOMAIN s.autos : Opposed(s, c)
  BY KeptParts
<1>3. Dispatched(s, t, event)
  BY <1>1, <1>2, DispatchIs DEF Proper
<1> HIDE DEF t
<1>4. Calm(t) /\ Same(s, t)
  BY <1>3 DEF Dispatched
<1>5. ASSUME NEW c \in DOMAIN s.autos PROVE Opposed(t, c)
  <2>1. Targets(s, t, c, event) /\ Opposed(s, c)
    BY <1>2, <1>3 DEF Dispatched
  <2>2. \A x : Exists(s, x) => Exists(t, x) /\ CampOf(t, x) = CampOf(s, x)
    BY <1>4 DEF Same, Exists, CampOf
  <2>3. Exists(s, c)
    BY <1>2 DEF Types, Exists
  <2> QED
    BY <1>1, <2>1, <2>2, <2>3 DEF Targets, Opposed
<1>6. InOrder(t)
  BY <1>2, <1>4, <1>5, SameInOrder
<1>7. BattleKept(t)
  BY <1>4, <1>6 DEF BattleKept, Same
<1> QED
  BY <1>7 DEF t, event

-----------------------------------------------------------------------------
(* A new warrior. *)

\* An id is used up.
LEMMA IdsIs ==
  ASSUME NEW s, IsBattle(s), NEW n
  PROVE  LET t == [s EXCEPT !.ids = n]
         IN /\ IsBattle(t) /\ t.ids = n
            /\ t.warriors = s.warriors /\ t.autos = s.autos /\ t.moves = s.moves /\ t.told = s.told
            /\ t.grid = s.grid /\ t.roles = s.roles
            /\ t.buildings = s.buildings /\ t.toldBuildings = s.toldBuildings
            /\ t.observers = s.observers /\ t.pending = s.pending /\ t.dispatching = s.dispatching
BY DEF IsBattle

LEMMA IdKeeps ==
  ASSUME NEW s, BattleKept(s), s.ids < MaxId
  PROVE  BattleKept([s EXCEPT !.ids = s.ids + 1])
<1> DEFINE n == s.ids + 1
           t == [s EXCEPT !.ids = n]
<1>1. InOrder(s) /\ Calm(s) /\ Types(s) /\ IsBattle(s)
      /\ \A a \in DOMAIN s.autos : Opposed(s, a)
  BY KeptParts
<1>2. n \in Len(Sites)..MaxId /\ 1..s.ids \subseteq 1..n /\ (Len(Sites) + 1)..s.ids \subseteq (Len(Sites) + 1)..n
  <2>1. s.ids \in Len(Sites)..MaxId /\ Len(Sites) \in Nat /\ MaxId \in Nat
    BY <1>1, Sizes DEF Types
  <2> QED
    BY <2>1
<1> HIDE DEF n
<1>3. /\ IsBattle(t) /\ t.ids = n
      /\ t.warriors = s.warriors /\ t.autos = s.autos /\ t.moves = s.moves /\ t.told = s.told
      /\ t.grid = s.grid /\ t.roles = s.roles
      /\ t.buildings = s.buildings /\ t.toldBuildings = s.toldBuildings
      /\ t.observers = s.observers /\ t.pending = s.pending /\ t.dispatching = s.dispatching
  BY <1>1, IdsIs
<1> HIDE DEF t
<1>4. Types(t)
  BY <1>1, <1>2, <1>3 DEF Types
<1>5. Calm(t)
  BY <1>1, <1>3, <1>4, CalmAs
<1>6. \A a \in DOMAIN t.autos : Opposed(t, a)
  BY <1>1, <1>3 DEF Opposed, Exists, CampOf
<1>7. Types(t) /\ AIKept(t)
  BY <1>5, <1>6, CalmInOrder
<1>8. BuildingsTold(t) /\ SupplyRight(t)
  BY <1>1, <1>3 DEF InOrder, BuildingsTold, SupplyRight, OfRole
<1>9. CampsRight(t)
  <2>1. \A q : Owned(t, q) = Owned(s, q)
    BY <1>3 DEF Owned
  <2> QED
    BY <1>1, <1>3, <2>1 DEF InOrder, CampsRight
<1>10. GridRight(t)
  BY <1>1, <1>3 DEF InOrder, GridRight
<1>11. InOrder(t)
  BY <1>1, <1>3, <1>7, <1>8, <1>9, <1>10 DEF InOrder
<1>12. BattleKept(t)
  BY <1>3, <1>11 DEF BattleKept
<1> QED
  BY <1>12 DEF t, n

\* The record of a battle with one more warrior, w of role r on cell c.
Paid(role) == [role EXCEPT !.food = @ - FoodNeed, !.supply = @ + SupplyNeed]
NewAuto == [status |-> "search", target |-> None, timers |-> {"search"}]

Built(s, t, w, r, c) ==
  /\ IsBattle(t) /\ t.ids = w
  /\ t.warriors = With(s.warriors, w, [role |-> r, hp |-> MaxHp, pos |-> c])
  /\ t.moves = With(s.moves, w, << >>)
  /\ t.grid = [s.grid EXCEPT ![c] = @ \cup {w}]
  /\ t.told = With(s.told, w, [to |-> c, target |-> None])
  /\ t.autos = With(s.autos, w, NewAuto)
  /\ t.observers = s.observers \cup {<<w, w>>}
  /\ t.roles = [s.roles EXCEPT ![r] = Paid(@)]
  /\ t.buildings = s.buildings /\ t.toldBuildings = s.toldBuildings
  /\ t.pending = s.pending /\ t.dispatching = s.dispatching

BuildOf(s, w, r) ==
  [s EXCEPT !.ids = w, !.warriors = With(@, w, FreshWarrior(r)),
            !.roles[r].food = @ - FoodNeed, !.roles[r].supply = @ + SupplyNeed]

\* In the field.
LEMMA BuildOfIs ==
  ASSUME NEW s, IsBattle(s), s.roles \in [Roles -> RoleSet], NEW w, NEW r \in Roles
  PROVE  LET t == BuildOf(s, w, r)
         IN /\ IsBattle(t) /\ t.ids = w
            /\ t.warriors = With(s.warriors, w, FreshWarrior(r))
            /\ t.roles = [s.roles EXCEPT ![r] = Paid(@)]
            /\ t.autos = s.autos /\ t.moves = s.moves /\ t.told = s.told /\ t.grid = s.grid
            /\ t.buildings = s.buildings /\ t.toldBuildings = s.toldBuildings
            /\ t.observers = s.observers /\ t.pending = s.pending /\ t.dispatching = s.dispatching
<1> DEFINE ws == With(s.warriors, w, FreshWarrior(r))
           f == [s.roles[r] EXCEPT !.food = @ - FoodNeed]
           g == Paid(s.roles[r])
           u1 == [s EXCEPT !.ids = w]
           u2 == [u1 EXCEPT !.warriors = ws]
           u3 == [u2 EXCEPT !.roles[r].food = s.roles[r].food - FoodNeed]
           u4 == [u3 EXCEPT !.roles[r].supply = s.roles[r].supply + SupplyNeed]
<1>0. BuildOf(s, w, r) = u4
  BY Zenon DEF BuildOf
<1>1. /\ IsBattle(u1) /\ u1.ids = w
      /\ u1.warriors = s.warriors /\ u1.autos = s.autos /\ u1.moves = s.moves /\ u1.told = s.told
      /\ u1.grid = s.grid /\ u1.roles = s.roles
      /\ u1.buildings = s.buildings /\ u1.toldBuildings = s.toldBuildings
      /\ u1.observers = s.observers /\ u1.pending = s.pending /\ u1.dispatching = s.dispatching
  BY IdsIs
<1> HIDE DEF u1
<1>2. /\ IsBattle(u2) /\ u2.ids = w /\ u2.warriors = ws
      /\ u2.autos = s.autos /\ u2.moves = s.moves /\ u2.told = s.told
      /\ u2.grid = s.grid /\ u2.roles = s.roles
      /\ u2.buildings = s.buildings /\ u2.toldBuildings = s.toldBuildings
      /\ u2.observers = s.observers /\ u2.pending = s.pending /\ u2.dispatching = s.dispatching
  <2> HIDE DEF ws
  <2> QED
    BY <1>1 DEF IsBattle
<1> HIDE DEF u2, ws
<1>3. u3 = [u2 EXCEPT !.roles[r] = f]
  BY <1>2
<1>4. f.supply = s.roles[r].supply /\ g = [f EXCEPT !.supply = s.roles[r].supply + SupplyNeed]
  <2>1. s.roles[r] \in RoleSet
    OBVIOUS
  <2> QED
    BY <2>1 DEF RoleSet, Paid
<1> HIDE DEF u3, f, g
<1>5. /\ IsBattle(u3) /\ u3.ids = w /\ u3.warriors = ws
      /\ u3.autos = s.autos /\ u3.moves = s.moves /\ u3.told = s.told
      /\ u3.grid = s.grid /\ u3.roles = [s.roles EXCEPT ![r] = f]
      /\ u3.buildings = s.buildings /\ u3.toldBuildings = s.toldBuildings
      /\ u3.observers = s.observers /\ u3.pending = s.pending /\ u3.dispatching = s.dispatching
  BY <1>2, <1>3 DEF IsBattle
<1>6. u3.roles[r] = f
  BY <1>5
<1>7. u4 = [u3 EXCEPT !.roles[r] = g]
  BY <1>4, <1>6
<1> HIDE DEF u4
<1>8. /\ IsBattle(u4) /\ u4.ids = w /\ u4.warriors = ws
      /\ u4.autos = s.autos /\ u4.moves = s.moves /\ u4.told = s.told
      /\ u4.grid = s.grid /\ u4.roles = [u3.roles EXCEPT ![r] = g]
      /\ u4.buildings = s.buildings /\ u4.toldBuildings = s.toldBuildings
      /\ u4.observers = s.observers /\ u4.pending = s.pending /\ u4.dispatching = s.dispatching
  BY <1>5, <1>7 DEF IsBattle
<1>9. u4.roles = [s.roles EXCEPT ![r] = g]
  BY <1>5, <1>8
<1> QED
  BY <1>0, <1>8, <1>9 DEF ws, g

\* In the scene.
Placed(s, t, ws, w, r, c) ==
  /\ IsBattle(t) /\ t.warriors = With(ws, w, [role |-> r, hp |-> MaxHp, pos |-> c])
  /\ t.moves = With(s.moves, w, << >>) /\ t.grid = [s.grid EXCEPT ![c] = @ \cup {w}]
  /\ t.ids = s.ids /\ t.roles = s.roles /\ t.autos = s.autos /\ t.told = s.told
  /\ t.buildings = s.buildings /\ t.toldBuildings = s.toldBuildings
  /\ t.observers = s.observers /\ t.pending = s.pending /\ t.dispatching = s.dispatching

LEMMA OnRequireSceneBuildIs ==
  ASSUME NEW s, IsBattle(s), NEW w, NEW r, NEW c, NEW ws, s.warriors = With(ws, w, FreshWarrior(r))
  PROVE  Placed(s, OnRequireSceneBuild(s, w, c), ws, w, r, c)
<1> DEFINE f == [role |-> r, hp |-> MaxHp, pos |-> c]
           u == [s EXCEPT !.warriors[w].pos = c]
           m == With(u.moves, w, << >>)
           x == [u EXCEPT !.moves = m]
           t == [x EXCEPT !.grid[c] = @ \cup {w}]
<1>1. s.warriors[w] = FreshWarrior(r) /\ [s.warriors[w] EXCEPT !.pos = c] = f
  BY DEF With, FreshWarrior
<1>2. u = [s EXCEPT !.warriors[w] = f]
  BY <1>1
<1>3. /\ IsBattle(u) /\ u.warriors = [s.warriors EXCEPT ![w] = f]
      /\ u.moves = s.moves /\ u.grid = s.grid
      /\ u.ids = s.ids /\ u.roles = s.roles /\ u.autos = s.autos /\ u.told = s.told
      /\ u.buildings = s.buildings /\ u.toldBuildings = s.toldBuildings
      /\ u.observers = s.observers /\ u.pending = s.pending /\ u.dispatching = s.dispatching
  <2> HIDE DEF u, f
  <2> QED
    BY <1>2 DEF IsBattle
<1>4. u.warriors = With(ws, w, f) /\ u.warriors[w].pos = c
  <2>1. f.pos = c
    OBVIOUS
  <2> HIDE DEF f, u
  <2>2. u.warriors = With(ws, w, f)
    BY <1>3 DEF With
  <2>3. u.warriors[w] = f
    BY <2>2 DEF With
  <2> QED
    BY <2>1, <2>2, <2>3
<1> HIDE DEF f, u
<1>5. /\ IsBattle(x) /\ x.warriors = u.warriors
      /\ x.moves = m /\ x.grid = s.grid
      /\ x.ids = s.ids /\ x.roles = s.roles /\ x.autos = s.autos /\ x.told = s.told
      /\ x.buildings = s.buildings /\ x.toldBuildings = s.toldBuildings
      /\ x.observers = s.observers /\ x.pending = s.pending /\ x.dispatching = s.dispatching
  <2> HIDE DEF m
  <2> QED
    BY <1>3 DEF IsBattle
<1>6. OnRequireSceneBuild(s, w, c) = t
  <2>1. OnRequireSceneBuild(s, w, c) = AddWarrior(u, w)
    BY DEF OnRequireSceneBuild, u
  <2>2. x.grid = u.grid
    BY <1>3, <1>5
  <2> QED
    BY <1>4, <2>1, <2>2 DEF AddWarrior
<1> HIDE DEF x
<1>7. /\ IsBattle(t) /\ t.warriors = u.warriors
      /\ t.moves = m /\ t.grid = [s.grid EXCEPT ![c] = @ \cup {w}]
      /\ t.ids = s.ids /\ t.roles = s.roles /\ t.autos = s.autos /\ t.told = s.told
      /\ t.buildings = s.buildings /\ t.toldBuildings = s.toldBuildings
      /\ t.observers = s.observers /\ t.pending = s.pending /\ t.dispatching = s.dispatching
  <2> HIDE DEF m
  <2> QED
    BY <1>5 DEF IsBattle
<1> HIDE DEF t
<1>8. m = With(s.moves, w, << >>)
  BY <1>3
<1>9. Placed(s, t, ws, w, r, c)
  BY <1>4, <1>7, <1>8 DEF f, Placed
<1> QED
  BY <1>6, <1>9

\* A map by id with one more.
Extended(f, g, D, S, id, v) ==
  /\ DOMAIN g = D \cup {id} /\ g \in [D \cup {id} -> S] /\ g[id] = v
  /\ \A i \in D : i # id => g[i] = f[i]

LEMMA WithIs ==
  ASSUME NEW S, NEW D, NEW f \in [D -> S], NEW id, NEW v \in S
  PROVE  Extended(f, With(f, id, v), D, S, id, v)
BY DEF With, Extended

LEMMA AutosIs ==
  ASSUME NEW s, IsBattle(s), NEW f
  PROVE  LET t == [s EXCEPT !.autos = f]
         IN /\ IsBattle(t) /\ t.autos = f
            /\ t.warriors = s.warriors /\ t.moves = s.moves /\ t.grid = s.grid
            /\ t.ids = s.ids /\ t.roles = s.roles /\ t.told = s.told
            /\ t.buildings = s.buildings /\ t.toldBuildings = s.toldBuildings
            /\ t.observers = s.observers /\ t.pending = s.pending /\ t.dispatching = s.dispatching
BY DEF IsBattle

\* The players and the AI are told.
LEMMA BuiltIs ==
  ASSUME NEW s, IsBattle(s), s.roles \in [Roles -> RoleSet], NEW r \in Roles, NEW w, NEW c,
         w \notin DOMAIN s.autos
  PROVE  Built(s, DispatchBuildActionEvent(OnRequireSceneBuild(BuildOf(s, w, r), w, c), w, c), w, r, c)
<1> DEFINE x0 == BuildOf(s, w, r)
           x == OnRequireSceneBuild(x0, w, c)
           fresh == [status |-> "search", target |-> None, timers |-> {}]
           tell == With(x.told, w, [to |-> c, target |-> None])
           y == [x EXCEPT !.told = tell]
           as == With(y.autos, w, fresh)
           z == [y EXCEPT !.autos = as]
           ob == z.observers \cup {<<w, w>>}
           u == [z EXCEPT !.observers = ob]
           t == [u EXCEPT !.autos[w] = NewAuto]
<1>1. /\ IsBattle(x0) /\ x0.ids = w
      /\ x0.warriors = With(s.warriors, w, FreshWarrior(r))
      /\ x0.roles = [s.roles EXCEPT ![r] = Paid(@)]
      /\ x0.autos = s.autos /\ x0.moves = s.moves /\ x0.told = s.told /\ x0.grid = s.grid
      /\ x0.buildings = s.buildings /\ x0.toldBuildings = s.toldBuildings
      /\ x0.observers = s.observers /\ x0.pending = s.pending /\ x0.dispatching = s.dispatching
  BY BuildOfIs
<1> HIDE DEF x0
<1>2. /\ IsBattle(x) /\ x.warriors = With(s.warriors, w, [role |-> r, hp |-> MaxHp, pos |-> c])
      /\ x.moves = With(x0.moves, w, << >>) /\ x.grid = [x0.grid EXCEPT ![c] = @ \cup {w}]
      /\ x.ids = x0.ids /\ x.roles = x0.roles /\ x.autos = x0.autos /\ x.told = x0.told
      /\ x.buildings = x0.buildings /\ x.toldBuildings = x0.toldBuildings
      /\ x.observers = x0.observers /\ x.pending = x0.pending /\ x.dispatching = x0.dispatching
  <2>1. Placed(x0, x, s.warriors, w, r, c)
    BY <1>1, OnRequireSceneBuildIs
  <2> QED
    BY <2>1 DEF Placed
<1> HIDE DEF x
<1>3. /\ IsBattle(y) /\ y.told = tell
      /\ y.warriors = x.warriors /\ y.moves = x.moves /\ y.grid = x.grid
      /\ y.ids = x.ids /\ y.roles = x.roles /\ y.autos = x.autos
      /\ y.buildings = x.buildings /\ y.toldBuildings = x.toldBuildings
      /\ y.observers = x.observers /\ y.pending = x.pending /\ y.dispatching = x.dispatching
  <2> HIDE DEF tell
  <2> QED
    BY <1>2 DEF IsBattle
<1>4. TellBuild(x, w, c) = y
  BY DEF TellBuild
<1> HIDE DEF y, tell
<1>5. /\ IsBattle(z) /\ z.autos = as
      /\ z.warriors = y.warriors /\ z.moves = y.moves /\ z.grid = y.grid
      /\ z.ids = y.ids /\ z.roles = y.roles /\ z.told = y.told
      /\ z.buildings = y.buildings /\ z.toldBuildings = y.toldBuildings
      /\ z.observers = y.observers /\ z.pending = y.pending /\ z.dispatching = y.dispatching
  <2>1. IsBattle(y)
    BY <1>3
  <2> HIDE DEF as
  <2> QED
    BY <2>1, AutosIs
<1>6. BuildAuto(y, w) = SetTimer(Observe(z, w, w), w, "search")
  <2>1. w \notin DOMAIN y.autos
    BY <1>1, <1>2, <1>3
  <2> QED
    BY <2>1, Zenon DEF BuildAuto, FreshAuto, StartSearch, StartPresentStatus
<1> HIDE DEF z
<1>7. Observe(z, w, w) = u
  BY DEF Observe
<1>8. /\ IsBattle(u) /\ u.observers = ob
      /\ u.warriors = z.warriors /\ u.moves = z.moves /\ u.grid = z.grid
      /\ u.ids = z.ids /\ u.roles = z.roles /\ u.told = z.told /\ u.autos = z.autos
      /\ u.buildings = z.buildings /\ u.toldBuildings = z.toldBuildings
      /\ u.pending = z.pending /\ u.dispatching = z.dispatching
  <2> HIDE DEF ob
  <2> QED
    BY <1>5 DEF IsBattle
<1> HIDE DEF u
<1>9. SetTimer(u, w, "search") = t
  <2>1. u.autos[w] = fresh
    BY <1>5, <1>8 DEF With
  <2>2. [u.autos[w] EXCEPT !.timers = @ \cup {"search"}] = NewAuto
    BY <2>1 DEF NewAuto
  <2> HIDE DEF fresh
  <2> QED
    BY <2>2 DEF SetTimer
<1>10. /\ IsBattle(t) /\ t.autos = [u.autos EXCEPT ![w] = NewAuto]
       /\ t.warriors = u.warriors /\ t.moves = u.moves /\ t.grid = u.grid
       /\ t.ids = u.ids /\ t.roles = u.roles /\ t.told = u.told
       /\ t.buildings = u.buildings /\ t.toldBuildings = u.toldBuildings
       /\ t.observers = u.observers /\ t.pending = u.pending /\ t.dispatching = u.dispatching
  <2>1. ASSUME NEW f
        PROVE  LET v == [u EXCEPT !.autos[w] = f]
               IN /\ IsBattle(v) /\ v.autos = [u.autos EXCEPT ![w] = f]
                  /\ v.warriors = u.warriors /\ v.moves = u.moves /\ v.grid = u.grid
                  /\ v.ids = u.ids /\ v.roles = u.roles /\ v.told = u.told
                  /\ v.buildings = u.buildings /\ v.toldBuildings = u.toldBuildings
                  /\ v.observers = u.observers /\ v.pending = u.pending /\ v.dispatching = u.dispatching
    BY <1>8 DEF IsBattle
  <2> QED
    BY <2>1
<1> HIDE DEF t
<1>11. t.autos = With(s.autos, w, NewAuto)
  <2>1. u.autos = With(s.autos, w, fresh)
    BY <1>1, <1>2, <1>3, <1>5, <1>8
  <2> HIDE DEF fresh
  <2> QED
    BY <1>10, <2>1 DEF With
<1>12. t.told = With(s.told, w, [to |-> c, target |-> None]) /\ t.observers = s.observers \cup {<<w, w>>}
  BY <1>1, <1>2, <1>3, <1>5, <1>8, <1>10 DEF tell, ob
<1>13. Built(s, t, w, r, c)
  BY <1>1, <1>2, <1>3, <1>5, <1>8, <1>10, <1>11, <1>12 DEF Built
<1>14. DispatchBuildActionEvent(x, w, c) = t
  BY <1>4, <1>6, <1>7, <1>9 DEF DispatchBuildActionEvent
<1> QED
  BY <1>13, <1>14 DEF x, x0

LEMMA BuiltTypes ==
  ASSUME NEW s, Types(s), s.ids < MaxId, NEW r \in Roles, NEW c \in Walkable,
         NEW w, w = s.ids + 1, NEW t, Built(s, t, w, r, c)
  PROVE  /\ w \notin DOMAIN s.warriors /\ w \notin Buildings /\ Types(t)
         /\ DOMAIN t.warriors = DOMAIN s.warriors \cup {w} /\ DOMAIN t.autos = DOMAIN s.autos \cup {w}
         /\ DOMAIN t.told = DOMAIN s.told \cup {w}
         /\ t.warriors[w] = [role |-> r, hp |-> MaxHp, pos |-> c]
         /\ t.moves[w] = << >> /\ t.autos[w] = NewAuto /\ t.told[w] = [to |-> c, target |-> None]
         /\ \A v \in DOMAIN s.warriors : v # w /\ t.warriors[v] = s.warriors[v] /\ t.moves[v] = s.moves[v]
         /\ \A v \in DOMAIN s.autos : t.autos[v] = s.autos[v]
         /\ \A v \in DOMAIN s.told : v # w => t.told[v] = s.told[v]
<1>1. /\ Len(Sites) \in Nat /\ MaxId \in Nat /\ Buildings = 1..Len(Sites) /\ MaxHp \in Nat
      /\ s.ids \in Len(Sites)..MaxId
  BY Sizes DEF Buildings, Types
<1>2. DOMAIN s.warriors \subseteq (Len(Sites) + 1)..s.ids
  BY DEF Types
<1>3. /\ w \notin DOMAIN s.warriors /\ w \notin Buildings /\ w \in Len(Sites)..MaxId
      /\ DOMAIN s.warriors \cup {w} \subseteq (Len(Sites) + 1)..w
  BY <1>1, <1>2
<1>4. /\ s.warriors \in [DOMAIN s.warriors -> WarriorSet] /\ s.moves \in [DOMAIN s.warriors -> Seq(Walkable)]
      /\ s.autos \in [DOMAIN s.autos -> AutoSet] /\ s.told \in [DOMAIN s.told -> ToldSet]
      /\ DOMAIN s.moves = DOMAIN s.warriors /\ DOMAIN s.autos \subseteq DOMAIN s.warriors
  BY DEF Types
<1>5. /\ [role |-> r, hp |-> MaxHp, pos |-> c] \in WarriorSet /\ << >> \in Seq(Walkable)
      /\ NewAuto \in AutoSet /\ [to |-> c, target |-> None] \in ToldSet
  <2>1. MaxHp \in 0..MaxHp /\ None \in 0..MaxId
    BY <1>1 DEF None
  <2> QED
    BY <2>1 DEF WarriorSet, AutoSet, NewAuto, ToldSet
<1> DEFINE f == [role |-> r, hp |-> MaxHp, pos |-> c]
           g == [to |-> c, target |-> None]
<1>6. /\ t.warriors = With(s.warriors, w, f) /\ t.moves = With(s.moves, w, << >>)
      /\ t.autos = With(s.autos, w, NewAuto) /\ t.told = With(s.told, w, g)
      /\ IsBattle(t) /\ t.ids = w /\ t.buildings = s.buildings
  BY DEF Built
<1>7. f \in WarriorSet /\ g \in ToldSet
  BY <1>5
<1> HIDE DEF f, g
<1>8. /\ DOMAIN t.warriors = DOMAIN s.warriors \cup {w} /\ t.warriors \in [DOMAIN s.warriors \cup {w} -> WarriorSet]
      /\ t.warriors[w] = f /\ \A v \in DOMAIN s.warriors : v # w => t.warriors[v] = s.warriors[v]
  <2>1. Extended(s.warriors, t.warriors, DOMAIN s.warriors, WarriorSet, w, f)
    BY <1>4, <1>6, <1>7, WithIs
  <2> QED
    BY <2>1 DEF Extended
<1>9. /\ DOMAIN t.moves = DOMAIN s.warriors \cup {w} /\ t.moves \in [DOMAIN s.warriors \cup {w} -> Seq(Walkable)]
      /\ t.moves[w] = << >> /\ \A v \in DOMAIN s.warriors : v # w => t.moves[v] = s.moves[v]
  <2>0. s.moves \in [DOMAIN s.warriors -> Seq(Walkable)] /\ << >> \in Seq(Walkable)
    BY <1>4, <1>5
  <2> DEFINE S == Seq(Walkable)
             e == << >>
  <2>2. s.moves \in [DOMAIN s.warriors -> S] /\ e \in S
    BY <2>0
  <2> HIDE DEF S, e
  <2>3. Extended(s.moves, With(s.moves, w, e), DOMAIN s.warriors, S, w, e)
    BY <2>2, WithIs
  <2>1. Extended(s.moves, t.moves, DOMAIN s.warriors, Seq(Walkable), w, << >>)
    BY <1>6, <2>3 DEF S, e
  <2> QED
    BY <2>1 DEF Extended
<1>10. /\ DOMAIN t.autos = DOMAIN s.autos \cup {w} /\ t.autos \in [DOMAIN s.autos \cup {w} -> AutoSet]
       /\ t.autos[w] = NewAuto /\ \A v \in DOMAIN s.autos : v # w => t.autos[v] = s.autos[v]
  <2>1. Extended(s.autos, t.autos, DOMAIN s.autos, AutoSet, w, NewAuto)
    BY <1>4, <1>5, <1>6, WithIs
  <2> QED
    BY <2>1 DEF Extended
<1>11. /\ DOMAIN t.told = DOMAIN s.told \cup {w} /\ t.told \in [DOMAIN s.told \cup {w} -> ToldSet]
       /\ t.told[w] = g /\ \A v \in DOMAIN s.told : v # w => t.told[v] = s.told[v]
  <2>1. Extended(s.told, t.told, DOMAIN s.told, ToldSet, w, g)
    BY <1>4, <1>6, <1>7, WithIs
  <2> QED
    BY <2>1 DEF Extended
<1>12. Types(t)
  BY <1>3, <1>4, <1>6, <1>8, <1>9, <1>10, <1>11 DEF Types
<1> QED
  BY <1>3, <1>4, <1>8, <1>9, <1>10, <1>11, <1>12 DEF f, g

LEMMA BuiltKeeps ==
  ASSUME NEW s, BattleKept(s), s.ids < MaxId, NEW r \in Roles, s.roles[r].food >= FoodNeed,
         NEW c \in Walkable, NEW w, w = s.ids + 1, NEW t, Built(s, t, w, r, c)
  PROVE  BattleKept(t)
<1>1. /\ InOrder(s) /\ Calm(s) /\ Types(s)
      /\ DOMAIN s.autos = DOMAIN s.warriors /\ DOMAIN s.told = DOMAIN s.warriors
      /\ \A a \in DOMAIN s.autos : Opposed(s, a) /\ AutoKept(s, a)
  BY KeptParts
<1>2. /\ w \notin DOMAIN s.warriors /\ w \notin Buildings /\ Types(t)
      /\ DOMAIN t.warriors = DOMAIN s.warriors \cup {w} /\ DOMAIN t.autos = DOMAIN s.autos \cup {w}
      /\ DOMAIN t.told = DOMAIN s.told \cup {w}
      /\ t.warriors[w] = [role |-> r, hp |-> MaxHp, pos |-> c]
      /\ t.moves[w] = << >> /\ t.autos[w] = NewAuto /\ t.told[w] = [to |-> c, target |-> None]
      /\ \A v \in DOMAIN s.warriors : v # w /\ t.warriors[v] = s.warriors[v] /\ t.moves[v] = s.moves[v]
      /\ \A v \in DOMAIN s.autos : t.autos[v] = s.autos[v]
      /\ \A v \in DOMAIN s.told : v # w => t.told[v] = s.told[v]
  BY <1>1, BuiltTypes
<1>3. /\ t.grid = [s.grid EXCEPT ![c] = @ \cup {w}] /\ t.observers = s.observers \cup {<<w, w>>}
      /\ t.roles = [s.roles EXCEPT ![r] = Paid(@)]
      /\ t.buildings = s.buildings /\ t.toldBuildings = s.toldBuildings
      /\ t.pending = s.pending /\ t.dispatching = s.dispatching
  BY DEF Built
<1>4. t.warriors[w].role = r /\ t.warriors[w].hp = MaxHp /\ t.warriors[w].pos = c
      /\ t.autos[w].status = "search" /\ t.autos[w].timers = {"search"} /\ t.told[w].to = c
  BY <1>2 DEF NewAuto
<1>5. ASSUME NEW a \in DOMAIN t.autos PROVE AutoKept(t, a)
  <2>1. CASE a = w
    <3>1. Going(t, w) = c
      BY <1>2, <1>4, GoingIs
    <3> QED
      BY <1>4, <2>1, <3>1 DEF AutoKept, Watches, TimersRight, ToldRight
  <2>2. CASE a # w
    <3>1. /\ AutoKept(s, a) /\ a \in DOMAIN s.warriors /\ t.autos[a] = s.autos[a]
          /\ t.moves[a] = s.moves[a] /\ t.told[a] = s.told[a] /\ t.warriors[a] = s.warriors[a] /\ a \in DOMAIN s.told
      BY <1>1, <1>2, <2>2
    <3>2. Going(t, a) = Going(s, a)
      BY <3>1 DEF Going, MovePaths
    <3>3. Watches(t, a)
      BY <1>3, <3>1 DEF AutoKept, Watches
    <3>4. TimersRight(t, a) /\ ToldRight(t, a)
      BY <3>1, <3>2 DEF AutoKept, TimersRight, ToldRight
    <3> QED
      BY <3>1, <3>3, <3>4 DEF AutoKept
  <2> QED
    BY <2>1, <2>2
<1>6. Counted(t)
  <2>1. \A b : Attackers(t, b) = Attackers(s, b)
    BY <1>2, <1>4 DEF Attackers
  <2> QED
    BY <1>1, <1>3, <2>1 DEF Calm, Counted
<1>7. Calm(t)
  BY <1>1, <1>2, <1>3, <1>5, <1>6 DEF Calm
<1>8. ASSUME NEW a \in DOMAIN t.autos PROVE Opposed(t, a)
  <2>1. CASE a = w
    BY <1>4, <2>1 DEF Opposed
  <2>2. CASE a # w
    <3>1. Opposed(s, a) /\ t.autos[a] = s.autos[a] /\ Exists(s, a)
      BY <1>1, <1>2, <2>2 DEF Exists
    <3>2. \A x : Exists(s, x) => Exists(t, x) /\ CampOf(t, x) = CampOf(s, x)
      BY <1>2, <1>3 DEF Exists, CampOf
    <3> QED
      BY <3>1, <3>2 DEF Opposed
  <2> QED
    BY <2>1, <2>2
<1>9. Types(t) /\ AIKept(t)
  BY <1>7, <1>8, CalmInOrder
<1>10. BuildingsTold(t)
  BY <1>1, <1>3 DEF InOrder, BuildingsTold
<1>11. /\ Paid(s.roles[r]) \in RoleSet
       /\ Paid(s.roles[r]).supply = s.roles[r].supply + SupplyNeed
       /\ Paid(s.roles[r]).kept = s.roles[r].kept
       /\ Paid(s.roles[r]).supplyMax = s.roles[r].supplyMax
       /\ Paid(s.roles[r]).buildingNum = s.roles[r].buildingNum
  <2>1. s.roles[r] \in RoleSet
    BY <1>1 DEF InOrder
  <2>2. FoodMax \in Nat /\ FoodNeed \in Nat /\ SupplyNeed \in Nat
    BY Sizes
  <2>3. s.roles[r].food - FoodNeed \in 0..FoodMax /\ s.roles[r].supply + SupplyNeed \in Int
    BY <2>1, <2>2 DEF RoleSet
  <2> QED
    BY <2>1, <2>3 DEF RoleSet, Paid
<1>12. /\ t.roles \in [Roles -> RoleSet] /\ t.roles[r] = Paid(s.roles[r])
       /\ \A q \in Roles : q # r => t.roles[q] = s.roles[q]
  BY <1>1, <1>3, <1>11 DEF InOrder
<1>13. SupplyRight(t)
  <2> SUFFICES ASSUME NEW q \in Roles
               PROVE  t.roles[q].supply - t.roles[q].kept = SupplyNeed * Cardinality(OfRole(t, q))
    BY DEF SupplyRight
  <2> DEFINE n == Cardinality(OfRole(s, q))
  <2>1. s.roles[q].supply - s.roles[q].kept = SupplyNeed * n
    BY <1>1 DEF InOrder, SupplyRight
  <2>2. IsFiniteSet(OfRole(s, q)) /\ n \in Nat /\ SupplyNeed \in Nat
    BY <1>1, OfRoleFinite, Sizes
  <2>3. CASE q # r
    <3>1. OfRole(t, q) = OfRole(s, q)
      BY <1>2, <1>4, <2>3 DEF OfRole
    <3> QED
      BY <1>12, <2>1, <2>3, <3>1
  <2>4. CASE q = r
    <3>1. OfRole(t, q) = OfRole(s, q) \cup {w} /\ w \notin OfRole(s, q)
      BY <1>2, <1>4, <2>4 DEF OfRole
    <3>2. Cardinality(OfRole(t, q)) = n + 1
      BY <2>2, <3>1, FS_AddElement
    <3>3. SupplyNeed * (n + 1) = SupplyNeed * n + SupplyNeed
      <4> HIDE DEF n
      <4> QED
        BY <2>2, Times
    <3>4. t.roles[q].supply = s.roles[q].supply + SupplyNeed /\ t.roles[q].kept = s.roles[q].kept
      BY <1>11, <1>12, <2>4
    <3>5. s.roles[q].supply \in Int /\ s.roles[q].kept \in Int
      BY <1>1 DEF InOrder, RoleSet
    <3>6. t.roles[q].supply - t.roles[q].kept = SupplyNeed * (n + 1)
      <4> HIDE DEF n
      <4> DEFINE k == SupplyNeed * n
      <4>1. k \in Int /\ s.roles[q].supply - s.roles[q].kept = k /\ SupplyNeed * (n + 1) = k + SupplyNeed
        BY <2>1, <2>2, <3>3
      <4> HIDE DEF k
      <4> QED
        BY <2>2, <3>4, <3>5, <4>1
    <3> QED
      BY <3>2, <3>6
  <2> QED
    BY <2>3, <2>4
<1>14. CampsRight(t)
  <2>1. \A q : Owned(t, q) = Owned(s, q)
    BY <1>3 DEF Owned
  <2>2. \A q \in Roles : t.roles[q].supplyMax = s.roles[q].supplyMax /\ t.roles[q].buildingNum = s.roles[q].buildingNum
    BY <1>11, <1>12
  <2> QED
    BY <1>1, <2>1, <2>2 DEF InOrder, CampsRight
<1>15. GridRight(t)
  <2> DEFINE At(x, d) == {v \in DOMAIN x.warriors : x.warriors[v].pos = d}
  <2>1. s.grid = [d \in Cells |-> At(s, d)]
    BY <1>1 DEF InOrder, GridRight
  <2>2. \A d : At(t, d) = At(s, d) \cup (IF d = c THEN {w} ELSE {})
    BY <1>2, <1>4
  <2>3. c \in Cells
    BY BattleAssumption DEF Cells
  <2> HIDE DEF At
  <2>4. t.grid = [d \in Cells |-> IF d = c THEN At(s, d) \cup {w} ELSE At(s, d)]
    <3>1. t.grid = [s.grid EXCEPT ![c] = s.grid[c] \cup {w}]
      BY <1>3
    <3> QED
      BY <2>1, <2>3, <3>1
  <2>5. \A d : At(t, d) = IF d = c THEN At(s, d) \cup {w} ELSE At(s, d)
    BY <2>2
  <2>6. t.grid = [d \in Cells |-> At(t, d)]
    BY <2>4, <2>5, Zenon
  <2> QED
    BY <2>6 DEF GridRight, At
<1>16. DOMAIN t.autos = DOMAIN t.warriors /\ DOMAIN t.told = DOMAIN t.warriors
  BY <1>1, <1>2
<1>17. InOrder(t)
  BY <1>9, <1>10, <1>12, <1>13, <1>14, <1>15, <1>16 DEF InOrder
<1>18. \A v \in DOMAIN t.warriors : t.warriors[v].hp > 0
  <2>1. MaxHp > 0 /\ MaxHp \in Nat
    BY Sizes
  <2> QED
    BY <1>2, <1>4, <2>1 DEF BattleKept
<1> QED
  BY <1>17, <1>18 DEF BattleKept

-----------------------------------------------------------------------------
(* Buildings recover, and the roles get food. *)

\* The battle when the buildings up to n have recovered.
RecoveredOf(s, f, n) == IF n = 0 THEN s ELSE RecoverBuilding(f[n - 1], n)

LEMMA RecoveringIs ==
  ASSUME NEW s
  PROVE  Recovering(s) = [n \in 0..Len(Sites) |-> RecoveredOf(s, Recovering(s), n)]
<1> DEFINE m == Len(Sites)
           Is(f, k) == f = [n \in 0..k |-> RecoveredOf(s, f, n)]
           T == {k \in 0..m : \E f : Is(f, k)}
<1>0. m \in Nat
  BY Sizes
<1>1. ASSUME NEW n, NEW f, NEW g, n # 0 => f[n - 1] = g[n - 1]
      PROVE  RecoveredOf(s, f, n) = RecoveredOf(s, g, n)
  BY <1>1 DEF RecoveredOf
<1>2. 0 \in T
  <2> DEFINE g == [n \in 0..0 |-> RecoveredOf(s, <<>>, n)]
  <2>1. \A n \in 0..0 : RecoveredOf(s, <<>>, n) = RecoveredOf(s, g, n)
    BY DEF RecoveredOf
  <2>2. g = [n \in 0..0 |-> RecoveredOf(s, g, n)]
    BY <2>1, Zenon
  <2> HIDE DEF g
  <2>3. Is(g, 0)
    BY <2>2
  <2> HIDE DEF Is, m
  <2> QED
    BY <1>0, <2>3
<1>3. ASSUME NEW k \in 0..(m - 1), k \in T PROVE k + 1 \in T
  <2>1. PICK f : Is(f, k)
    BY <1>3
  <2> DEFINE g == [n \in 0..(k + 1) |-> IF n = k + 1 THEN RecoveredOf(s, f, n) ELSE f[n]]
  <2>2. \A n \in 0..k : g[n] = f[n] /\ f[n] = RecoveredOf(s, f, n)
    BY <2>1
  <2>3. g[k + 1] = RecoveredOf(s, f, k + 1)
    OBVIOUS
  <2>4. g = [n \in 0..(k + 1) |-> g[n]]
    OBVIOUS
  <2> HIDE DEF g
  <2>5. ASSUME NEW n \in 0..(k + 1) PROVE g[n] = RecoveredOf(s, g, n)
    <3>1. n # 0 => f[n - 1] = g[n - 1]
      BY <2>2
    <3>2. RecoveredOf(s, f, n) = RecoveredOf(s, g, n)
      BY <1>1, <3>1
    <3> QED
      BY <2>2, <2>3, <3>2
  <2>6. Is(g, k + 1)
    BY <2>4, <2>5
  <2> HIDE DEF Is, m
  <2> QED
    BY <1>0, <2>6
<1>4. \E f : Is(f, m)
  <2>1. m \in T
    <3> HIDE DEF T, m
    <3> QED
      BY <1>0, <1>2, <1>3, Induction
  <2> HIDE DEF Is
  <2> QED
    BY <2>1
<1>5. \E f : f = [n \in 0..m |-> RecoveredOf(s, f, n)]
  BY <1>4
<1> DEFINE t == CHOOSE f : f = [n \in 0..m |-> RecoveredOf(s, f, n)]
<1>6. t = [n \in 0..m |-> RecoveredOf(s, t, n)]
  BY <1>5, Zenon
<1>7. Recovering(s) = t
  BY Zenon DEF Recovering, RecoveredOf
<1> HIDE DEF t
<1> QED
  BY <1>6, <1>7

\* What recovering leaves as it is.
Recovered(s, t) == InOrder(t) /\ t.warriors = s.warriors

LEMMA RecoverBuildingIs ==
  ASSUME NEW s, InOrder(s), NEW b \in Buildings
  PROVE  Recovered(s, RecoverBuilding(s, b))
<1> DEFINE n == Least(s.buildings[b].hp + Recovery, MaxHp)
           u == [s EXCEPT !.buildings[b].hp = n]
<1>1. RecoverBuilding(s, b) \in {s, u, SwitchStatus(u, b, "host")}
  BY DEF RecoverBuilding, RecoveryHp, OnRecoverHp
<1>2. n \in 0..MaxHp
  <2>1. s.buildings[b].hp \in 0..MaxHp
    BY DEF InOrder, Types, BuildingSet
  <2>2. Recovery \in Nat /\ MaxHp \in Nat
    BY Sizes
  <2> QED
    BY <2>1, <2>2 DEF Least
<1> HIDE DEF n
<1>3. InOrder(u) /\ u.warriors = s.warriors
  BY <1>2, PointsInOrder
<1> HIDE DEF u
<1> DEFINE t == SwitchStatus(u, b, "host")
<1>4. Calm(u) /\ BuildingsTold(u) /\ \A a \in DOMAIN u.autos : Opposed(u, a)
  BY <1>3, CalmInOrder DEF InOrder
<1>5. Switched(u, t, b)
  BY <1>4, SwitchStatusIs
<1> HIDE DEF t
<1>6. InOrder(t)
  <2>1. /\ Calm(t) /\ BuildingsTold(t)
        /\ t.warriors = u.warriors /\ t.autos = u.autos /\ t.ids = u.ids /\ t.grid = u.grid
        /\ t.roles = u.roles /\ t.told = u.told
        /\ \A c \in Buildings : t.buildings[c].camp = u.buildings[c].camp
    BY <1>5 DEF Switched
  <2>2. ASSUME NEW a \in DOMAIN t.autos PROVE Opposed(t, a)
    <3>1. Opposed(u, a) /\ a \in DOMAIN u.warriors
      BY <1>4, <2>1 DEF Calm, Types
    <3> QED
      BY <2>1, <3>1 DEF Opposed, Exists, CampOf
  <2>3. Types(t) /\ AIKept(t)
    BY <2>1, <2>2, CalmInOrder
  <2>4. CampsRight(t)
    <3>1. \A q : Owned(t, q) = Owned(u, q)
      BY <2>1 DEF Owned
    <3> QED
      BY <1>3, <2>1, <3>1 DEF InOrder, CampsRight
  <2>5. SupplyRight(t) /\ GridRight(t)
    BY <1>3, <2>1 DEF InOrder, SupplyRight, OfRole, GridRight
  <2> QED
    BY <1>3, <2>1, <2>3, <2>4, <2>5 DEF InOrder
<1>7. Recovered(s, t)
  BY <1>3, <1>5, <1>6 DEF Recovered, Switched
<1>8. Recovered(s, s) /\ Recovered(s, u)
  BY <1>3 DEF Recovered
<1> QED
  BY <1>1, <1>7, <1>8 DEF t

LEMMA RecoveringKeeps ==
  ASSUME NEW s, InOrder(s)
  PROVE  Recovered(s, Recovering(s)[Len(Sites)])
<1> DEFINE m == Len(Sites)
           f == Recovering(s)
           T == {k \in 0..m : Recovered(s, f[k])}
<1>1. m \in Nat /\ Buildings = 1..m
  BY Sizes
<1>2. f = [n \in 0..m |-> RecoveredOf(s, f, n)]
  BY RecoveringIs
<1> HIDE DEF m, f
<1>3. \A n \in 0..m : f[n] = RecoveredOf(s, f, n)
  BY <1>2
<1>4. f[0] = s
  BY <1>1, <1>3 DEF RecoveredOf
<1>5. 0 \in T
  BY <1>1, <1>4 DEF Recovered
<1>6. ASSUME NEW k \in 0..(m - 1), k \in T PROVE k + 1 \in T
  <2> DEFINE b == k + 1
  <2>1. b \in 1..m /\ b \in 0..m /\ b # 0 /\ b - 1 = k
    BY <1>1
  <2>2. InOrder(f[k]) /\ f[k].warriors = s.warriors
    BY <1>6 DEF Recovered
  <2> HIDE DEF b
  <2>3. f[b] = RecoverBuilding(f[k], b)
    BY <1>3, <2>1 DEF RecoveredOf
  <2>4. Recovered(f[k], f[b])
    BY <1>1, <2>1, <2>2, <2>3, RecoverBuildingIs
  <2>5. b \in T
    BY <2>1, <2>2, <2>4 DEF Recovered
  <2> QED
    BY <2>5 DEF b
<1>7. m \in T
  <2> HIDE DEF T
  <2> QED
    BY <1>1, <1>5, <1>6, Induction
<1> QED
  BY <1>7 DEF m, f

LEMMA FoodKeeps ==
  ASSUME NEW s, BattleKept(s), NEW roles, NEW t, t = [s EXCEPT !.roles = roles],
         roles \in [Roles -> RoleSet],
         \A q \in Roles : /\ roles[q].supply = s.roles[q].supply /\ roles[q].kept = s.roles[q].kept
                          /\ roles[q].supplyMax = s.roles[q].supplyMax
                          /\ roles[q].buildingNum = s.roles[q].buildingNum
  PROVE  BattleKept(t)
<1>1. InOrder(s) /\ Calm(s) /\ \A a \in DOMAIN s.autos : Opposed(s, a)
  BY KeptParts
<1>2. /\ IsBattle(t) /\ Calm(t) /\ t.roles = roles
      /\ t.warriors = s.warriors /\ t.autos = s.autos /\ t.told = s.told /\ t.grid = s.grid
      /\ t.toldBuildings = s.toldBuildings /\ t.ids = s.ids /\ t.buildings = s.buildings
  BY <1>1, RolesIs
<1>3. \A a \in DOMAIN t.autos : Opposed(t, a)
  BY <1>1, <1>2 DEF Opposed, Exists, CampOf
<1>4. Types(t) /\ AIKept(t)
  BY <1>2, <1>3, CalmInOrder
<1>5. BuildingsTold(t) /\ GridRight(t)
  BY <1>1, <1>2 DEF InOrder, BuildingsTold, GridRight
<1>6. SupplyRight(t)
  <2>1. \A q : OfRole(t, q) = OfRole(s, q)
    BY <1>2 DEF OfRole
  <2> QED
    BY <1>1, <1>2, <2>1 DEF InOrder, SupplyRight
<1>7. CampsRight(t)
  <2>1. \A q : Owned(t, q) = Owned(s, q)
    BY <1>2 DEF Owned
  <2> QED
    BY <1>1, <1>2, <2>1 DEF InOrder, CampsRight
<1>8. InOrder(t)
  BY <1>1, <1>2, <1>4, <1>5, <1>6, <1>7 DEF InOrder
<1> QED
  BY <1>2, <1>8 DEF BattleKept

LEMMA RecoverKeeps ==
  ASSUME NEW s, BattleKept(s)
  PROVE  LET u == Recovering(s)[Len(Sites)]
         IN BattleKept([u EXCEPT !.roles = [r \in Roles |->
              IF Served(s, r) THEN IncFood(@[r], FoodAdd * Cardinality(Owned(s, r))) ELSE @[r]]])
<1> DEFINE u == Recovering(s)[Len(Sites)]
           More(r) == FoodAdd * Cardinality(Owned(s, r))
           roles == [r \in Roles |-> IF Served(s, r) THEN IncFood(u.roles[r], More(r)) ELSE u.roles[r]]
<1>1. Recovered(s, u)
  BY RecoveringKeeps, KeptParts
<1> HIDE DEF u
<1>2. BattleKept(u)
  BY <1>1 DEF Recovered, BattleKept
<1>3. ASSUME NEW r \in Roles
      PROVE  /\ roles[r] \in RoleSet
             /\ roles[r].supply = u.roles[r].supply /\ roles[r].kept = u.roles[r].kept
             /\ roles[r].supplyMax = u.roles[r].supplyMax
             /\ roles[r].buildingNum = u.roles[r].buildingNum
  <2>1. u.roles[r] \in RoleSet
    BY <1>2 DEF BattleKept, InOrder
  <2>2. More(r) \in Nat
    <3>1. FoodAdd \in Nat /\ Cardinality(Owned(s, r)) \in Nat
      BY Sizes, OwnedFinite
    <3> QED
      BY <3>1
  <2>3. FoodMax \in Nat
    BY Sizes
  <2>4. roles[r] = IF Served(s, r) THEN IncFood(u.roles[r], More(r)) ELSE u.roles[r]
    OBVIOUS
  <2> HIDE DEF More, roles
  <2>5. Least(FoodMax, u.roles[r].food + More(r)) \in 0..FoodMax
    BY <2>1, <2>2, <2>3 DEF Least, RoleSet
  <2>6. LET role == IncFood(u.roles[r], More(r))
        IN /\ role \in RoleSet
           /\ role.supply = u.roles[r].supply /\ role.kept = u.roles[r].kept
           /\ role.supplyMax = u.roles[r].supplyMax /\ role.buildingNum = u.roles[r].buildingNum
    BY <2>1, <2>5 DEF IncFood, RoleSet
  <2> QED
    BY <2>1, <2>4, <2>6
<1>4. roles \in [Roles -> RoleSet]
  <2>1. roles = [r \in Roles |-> roles[r]]
    OBVIOUS
  <2> HIDE DEF roles
  <2> QED
    BY <1>3, <2>1
<1>5. BattleKept([u EXCEPT !.roles = roles])
  <2> HIDE DEF roles
  <2> QED
    BY <1>2, <1>3, <1>4, FoodKeeps
<1> QED
  BY <1>5 DEF u

-----------------------------------------------------------------------------
(* A battle that begins. *)

\* A battle of its parts.
OfParts(s, ws, as, ms, n, g, rs, bs, ts, tb, obs, d, p) ==
  s = [warriors |-> ws, autos |-> as, moves |-> ms, ids |-> n, grid |-> g, roles |-> rs,
       buildings |-> bs, told |-> ts, toldBuildings |-> tb, observers |-> obs,
       dispatching |-> d, pending |-> p]

HasParts(s, ws, as, ms, n, g, rs, bs, ts, tb, obs, d, p) ==
  /\ IsBattle(s) /\ s.warriors = ws /\ s.autos = as /\ s.moves = ms /\ s.ids = n /\ s.grid = g
  /\ s.roles = rs /\ s.buildings = bs /\ s.told = ts /\ s.toldBuildings = tb
  /\ s.observers = obs /\ s.dispatching = d /\ s.pending = p

LEMMA OfPartsIs ==
  ASSUME NEW s, NEW ws, NEW as, NEW ms, NEW n, NEW g, NEW rs, NEW bs, NEW ts, NEW tb, NEW obs, NEW d, NEW p,
         OfParts(s, ws, as, ms, n, g, rs, bs, ts, tb, obs, d, p)
  PROVE  HasParts(s, ws, as, ms, n, g, rs, bs, ts, tb, obs, d, p)
BY DEF OfParts, HasParts, IsBattle

LEMMA FreshBuildingIs ==
  ASSUME NEW b \in Buildings
  PROVE  /\ FreshBuilding(b) \in BuildingSet
         /\ FreshBuilding(b).camp = Owners[b] /\ FreshBuilding(b).status = "host"
         /\ FreshBuilding(b).targeted = 0
<1>1. Owners[b] \in Roles /\ MaxHp \in Nat
  BY BattleAssumption DEF Buildings
<1> QED
  BY <1>1 DEF FreshBuilding, FreshBuildingField, BuildingSet

LEMMA FreshRoleIs ==
  ASSUME NEW r \in Roles, NEW n \in Nat
  PROVE  /\ FreshRole(r, n) \in RoleSet /\ FreshRole(r, n).supply = n /\ FreshRole(r, n).kept = n
         /\ FreshRole(r, n).buildingNum = Cardinality({b \in Buildings : Owners[b] = r})
<1> DEFINE S == {b \in Buildings : Owners[b] = r}
<1>1. Cardinality(S) \in Int /\ FoodMax \in Nat
  <2>1. Len(Sites) \in Nat /\ Buildings = 1..Len(Sites) /\ FoodMax \in Nat
    BY Sizes
  <2>2. IsFiniteSet(Buildings)
    BY <2>1, FS_Interval
  <2>3. S \subseteq Buildings
    OBVIOUS
  <2>4. IsFiniteSet(S)
    BY <2>2, <2>3, FS_Subset
  <2> QED
    BY <2>1, <2>4, FS_CardinalityType
<1>2. FreshRole(r, n) = [food |-> FoodMax, supply |-> n, kept |-> n, supplyMax |-> 0,
                         buildingNum |-> Cardinality(S)]
  BY DEF FreshRole
<1> DEFINE k == Cardinality(S)
<1>3. k = Cardinality(S)
  OBVIOUS
<1> HIDE DEF k
<1> QED
  BY <1>1, <1>2, <1>3 DEF RoleSet

\* Before the limits of the roles are counted.
LEMMA FreshCalm ==
  ASSUME NEW supply \in [Roles -> Nat], NEW s,
         OfParts(s, << >>, << >>, << >>, Len(Sites), [c \in Cells |-> {}],
                 [r \in Roles |-> FreshRole(r, supply[r])], [b \in Buildings |-> FreshBuilding(b)], << >>,
                 [b \in Buildings |-> [camp |-> Owners[b], status |-> "host"]], {}, FALSE, {})
  PROVE  /\ Calm(s) /\ DOMAIN s.warriors = {} /\ DOMAIN s.autos = {} /\ DOMAIN s.told = {}
         /\ s.grid = [c \in Cells |-> {}]
         /\ s.roles = [r \in Roles |-> FreshRole(r, supply[r])] /\ s.roles \in [Roles -> RoleSet]
         /\ s.buildings = [b \in Buildings |-> FreshBuilding(b)] /\ BuildingsTold(s)
<1>1. /\ IsBattle(s) /\ s.warriors = << >> /\ s.autos = << >> /\ s.moves = << >> /\ s.ids = Len(Sites)
      /\ s.grid = [c \in Cells |-> {}] /\ s.roles = [r \in Roles |-> FreshRole(r, supply[r])]
      /\ s.buildings = [b \in Buildings |-> FreshBuilding(b)] /\ s.told = << >>
      /\ s.toldBuildings = [b \in Buildings |-> [camp |-> Owners[b], status |-> "host"]]
      /\ s.observers = {} /\ s.dispatching = FALSE /\ s.pending = {}
  <2>1. HasParts(s, << >>, << >>, << >>, Len(Sites), [c \in Cells |-> {}],
                 [r \in Roles |-> FreshRole(r, supply[r])], [b \in Buildings |-> FreshBuilding(b)], << >>,
                 [b \in Buildings |-> [camp |-> Owners[b], status |-> "host"]], {}, FALSE, {})
    BY OfPartsIs, Zenon
  <2> QED
    BY <2>1, Zenon DEF HasParts
<1>2. DOMAIN << >> = {}
  OBVIOUS
<1>3. \A S : << >> \in [{} -> S]
  OBVIOUS
<1>4. s.roles \in [Roles -> RoleSet]
  <2>1. \A r \in Roles : FreshRole(r, supply[r]) \in RoleSet
    BY FreshRoleIs
  <2> QED
    BY <1>1, <2>1
<1>5. s.buildings \in [Buildings -> BuildingSet]
  BY <1>1, FreshBuildingIs
<1>6. BuildingsTold(s)
  BY <1>1, FreshBuildingIs DEF BuildingsTold
<1>7. s.ids \in Len(Sites)..MaxId
  BY <1>1, Sizes
<1>8. DOMAIN s.warriors = {} /\ DOMAIN s.autos = {} /\ DOMAIN s.told = {}
  BY <1>1, <1>2
<1>9. Types(s)
  BY <1>1, <1>3, <1>5, <1>7, <1>8 DEF Types
<1>10. Counted(s)
  <2>1. \A b : Attackers(s, b) = {}
    BY <1>8 DEF Attackers
  <2>2. \A b \in Buildings : s.buildings[b].targeted = 0
    BY <1>1, FreshBuildingIs
  <2> QED
    BY <2>1, <2>2, FS_EmptySet DEF Counted
<1>11. ~s.dispatching
  BY <1>1, Zenon
<1>12. Calm(s)
  BY <1>1, <1>8, <1>9, <1>10, <1>11 DEF Calm
<1> QED
  BY <1>1, <1>4, <1>6, <1>8, <1>12

LEMMA FreshBattleKept ==
  ASSUME NEW supply \in [Roles -> Nat]
  PROVE  BattleKept(FreshBattle(supply))
<1> DEFINE s == [warriors |-> << >>, autos |-> << >>, moves |-> << >>, ids |-> Len(Sites),
                 grid |-> [c \in (0..Width - 1) \X (0..Height - 1) |-> {}],
                 roles |-> [r \in Roles |-> FreshRole(r, supply[r])],
                 buildings |-> [b \in Buildings |-> FreshBuilding(b)],
                 told |-> << >>,
                 toldBuildings |-> [b \in Buildings |-> [camp |-> Owners[b], status |-> "host"]],
                 observers |-> {}, dispatching |-> FALSE, pending |-> {}]
           t == AllocateBuildingSupply(s)
<1>0. FreshBattle(supply) = t
  BY DEF FreshBattle
<1>1. OfParts(s, << >>, << >>, << >>, Len(Sites), [c \in Cells |-> {}],
              [r \in Roles |-> FreshRole(r, supply[r])], [b \in Buildings |-> FreshBuilding(b)], << >>,
              [b \in Buildings |-> [camp |-> Owners[b], status |-> "host"]], {}, FALSE, {})
  BY Zenon DEF OfParts, Cells
<1> HIDE DEF s
<1>2. /\ Calm(s) /\ DOMAIN s.warriors = {} /\ DOMAIN s.autos = {} /\ DOMAIN s.told = {}
      /\ s.grid = [c \in Cells |-> {}]
      /\ s.roles = [r \in Roles |-> FreshRole(r, supply[r])] /\ s.roles \in [Roles -> RoleSet]
      /\ s.buildings = [b \in Buildings |-> FreshBuilding(b)] /\ BuildingsTold(s)
  BY <1>1, FreshCalm
<1>3. Allocated(s, t)
  BY <1>2, AllocateIs
<1> HIDE DEF t
<1>4. /\ Calm(t) /\ t.roles \in [Roles -> RoleSet]
      /\ t.warriors = s.warriors /\ t.autos = s.autos /\ t.told = s.told /\ t.grid = s.grid
      /\ t.toldBuildings = s.toldBuildings /\ t.buildings = s.buildings
  BY <1>3 DEF Allocated
<1>5. ASSUME NEW r \in Roles
      PROVE  /\ Owned(s, r) = {b \in Buildings : Owners[b] = r} /\ Owned(s, r) # {} /\ Owned(t, r) = Owned(s, r)
  <2>1. Owned(s, r) = {b \in Buildings : Owners[b] = r}
    BY <1>2, FreshBuildingIs DEF Owned
  <2>2. Owned(s, r) # {}
    BY <2>1, CampsAssumption DEF Buildings
  <2> QED
    BY <1>4, <2>1, <2>2 DEF Owned
<1>6. ASSUME NEW r \in Roles
      PROVE  /\ t.roles[r].supplyMax = SupplyAdd * Cardinality(Owned(s, r))
             /\ t.roles[r].buildingNum = Cardinality(Owned(s, r))
             /\ t.roles[r].supply = supply[r] /\ t.roles[r].kept = supply[r]
  <2>1. /\ SameBooks(s.roles[r], t.roles[r]) /\ t.roles[r].buildingNum = s.roles[r].buildingNum
        /\ t.roles[r].supplyMax = SupplyAdd * Cardinality(Owned(s, r))
    BY <1>3, <1>5 DEF Allocated
  <2>2. s.roles[r] = FreshRole(r, supply[r]) /\ supply[r] \in Nat
    BY <1>2
  <2> QED
    BY <1>5, <2>1, <2>2, FreshRoleIs DEF SameBooks
<1>7. CampsRight(t)
  BY <1>5, <1>6 DEF CampsRight
<1>8. SupplyRight(t)
  <2> SUFFICES ASSUME NEW r \in Roles
               PROVE  t.roles[r].supply - t.roles[r].kept = SupplyNeed * Cardinality(OfRole(t, r))
    BY DEF SupplyRight
  <2>1. OfRole(t, r) = {}
    BY <1>2, <1>4 DEF OfRole
  <2>2. Cardinality(OfRole(t, r)) = 0
    BY <2>1, FS_EmptySet
  <2>3. supply[r] \in Nat /\ SupplyNeed \in Nat
    BY Sizes
  <2> QED
    BY <1>6, <2>2, <2>3
<1>9. GridRight(t)
  <2>1. \A c : {w \in DOMAIN t.warriors : t.warriors[w].pos = c} = {}
    BY <1>2, <1>4
  <2> QED
    BY <1>2, <1>4, <2>1 DEF GridRight
<1>10. Types(t) /\ AIKept(t)
  <2>1. \A a \in DOMAIN t.autos : Opposed(t, a)
    BY <1>2, <1>4
  <2> QED
    BY <1>4, <2>1, CalmInOrder
<1>11. BuildingsTold(t)
  BY <1>2, <1>4 DEF BuildingsTold
<1>12. InOrder(t)
  BY <1>2, <1>4, <1>7, <1>8, <1>9, <1>10, <1>11 DEF InOrder
<1>13. BattleKept(t)
  BY <1>2, <1>4, <1>12 DEF BattleKept
<1> QED
  BY <1>0, <1>13

-----------------------------------------------------------------------------
(* The actions. *)

LEMMA KeptAfter ==
  ASSUME BattleKept(battle')
  PROVE  BattleInv'
<1>1. Begun'
  BY DEF BattleKept, InOrder, Types, IsBattle, Begun
<1> QED
  BY <1>1 DEF BattleInv

LEMMA SettledAfter ==
  ASSUME NEW s, \A r \in Roles : s.roles[r].supply \in Nat, battle' = Settled(s)
  PROVE  BattleInv'
<1> DEFINE f == [r \in Roles |-> s.roles[r].supply]
<1>1. f \in [Roles -> Nat]
  OBVIOUS
<1>2. battle' = [supply |-> f]
  BY DEF Settled
<1> HIDE DEF f
<1>3. battle'.supply = f /\ ~Begun'
  BY <1>2 DEF Begun
<1> QED
  BY <1>1, <1>2, <1>3 DEF BattleInv

LEMMA BuildActionKeeps ==
  ASSUME BattleKept(battle), NEW r \in Roles, NEW b \in Buildings, DoBuildAction(r, b)
  PROVE  BattleInv'
<1> DEFINE w == battle.ids + 1
<1>1. /\ battle.ids < MaxId /\ battle.roles[r].food >= FoodNeed
      /\ \/ \E c \in NearlyWalkable(Sites[b]) :
              battle' = DispatchBuildActionEvent(OnRequireSceneBuild(BuildOf(battle, w, r), w, c), w, c)
         \/ battle' = [battle EXCEPT !.ids = w]
  BY Zenon DEF DoBuildAction, BuildOf
<1>2. CASE battle' = [battle EXCEPT !.ids = w]
  <2>1. BattleKept([battle EXCEPT !.ids = w])
    BY <1>1, IdKeeps
  <2> HIDE DEF w
  <2> QED
    BY <1>2, <2>1, KeptAfter
<1>3. ASSUME NEW c \in NearlyWalkable(Sites[b]),
             battle' = DispatchBuildActionEvent(OnRequireSceneBuild(BuildOf(battle, w, r), w, c), w, c)
      PROVE  BattleInv'
  <2>1. c \in Walkable
    BY DEF NearlyWalkable, GetWalkable
  <2>2. /\ IsBattle(battle) /\ Types(battle) /\ battle.roles \in [Roles -> RoleSet]
        /\ DOMAIN battle.autos = DOMAIN battle.warriors
    BY KeptParts DEF InOrder
  <2>3. w \notin DOMAIN battle.autos
    <3>1. DOMAIN battle.autos \subseteq (Len(Sites) + 1)..battle.ids /\ battle.ids \in Int
      BY <2>2, Sizes DEF Types
    <3> QED
      BY <3>1
  <2>4. w = battle.ids + 1
    OBVIOUS
  <2> DEFINE t == DispatchBuildActionEvent(OnRequireSceneBuild(BuildOf(battle, w, r), w, c), w, c)
  <2>5. battle' = t
    BY <1>3
  <2> HIDE DEF w
  <2>6. Built(battle, t, w, r, c)
    BY <2>2, <2>3, BuiltIs
  <2> HIDE DEF t
  <2>7. BattleKept(t)
    BY <1>1, <2>1, <2>4, <2>6, BuiltKeeps
  <2> QED
    BY <2>5, <2>7, KeptAfter
<1> QED
  BY <1>1, <1>2, <1>3

LEMMA MoveTimerKeeps ==
  ASSUME BattleKept(battle), NEW w, OnMoveTimer(w)
  PROVE  BattleInv'
<1> DEFINE t == Dispatch(Step(battle, w), [type |-> "moveStep", of |-> w])
<1>1. w \in DOMAIN battle.moves /\ battle.moves[w] # << >> /\ battle' = t
  BY Zenon DEF OnMoveTimer, Step
<1>2. w \in DOMAIN battle.warriors
  BY <1>1, KeptParts DEF Types
<1>3. BattleKept(Step(battle, w))
  BY <1>1, <1>2, StepInOrder
<1>4. BattleKept(t)
  BY <1>3, MoveStepKeeps
<1> HIDE DEF t
<1> QED
  BY <1>1, <1>4, KeptAfter

LEMMA SearchTimerKeeps ==
  ASSUME BattleKept(battle), NEW a, OnTimerSearch(a)
  PROVE  BattleInv'
<1> DEFINE Foes(S) == {id \in S : CampOf(battle, id) # CampOf(battle, a)}
           First(S) == FirstNeighbors(battle, PosOf(battle, a), Foes(S))
<1>1. /\ a \in DOMAIN battle.autos /\ "search" \in battle.autos[a].timers
      /\ \E id \in First(DOMAIN battle.warriors) \cup First(Buildings) :
           battle' = GotoChase(SetTarget(battle, a, id), a)
  BY DEF OnTimerSearch
<1>2. \A S : First(S) \subseteq Foes(S)
  BY DEF FirstNeighbors
<1> HIDE DEF First
<1>3. PICK id \in First(DOMAIN battle.warriors) \cup First(Buildings) :
        battle' = GotoChase(SetTarget(battle, a, id), a)
  BY <1>1
<1>4. Exists(battle, id) /\ CampOf(battle, id) # CampOf(battle, a)
  BY <1>2 DEF Exists
<1>5. BattleKept(GotoChase(SetTarget(battle, a, id), a))
  BY <1>1, <1>4, SearchKeeps
<1> QED
  BY <1>3, <1>5, KeptAfter

LEMMA RefindTimerKeeps ==
  ASSUME BattleKept(battle), NEW a, OnTimerRefindPath(a)
  PROVE  BattleInv'
<1> DEFINE t == Approach([battle EXCEPT !.autos[a].timers = @ \ {"refind"}], a)
<1>1. a \in DOMAIN battle.autos /\ "refind" \in battle.autos[a].timers /\ battle' = t
  BY DEF OnTimerRefindPath
<1>2. BattleKept(t)
  BY <1>1, RefindKeeps
<1> HIDE DEF t
<1> QED
  BY <1>1, <1>2, KeptAfter

LEMMA AttackTimerKeeps ==
  ASSUME BattleKept(battle), NEW a, OnTimerAttack(a)
  PROVE  BattleInv'
<1> DEFINE target == battle.autos[a].target
           after == IF target \in Buildings THEN AttackBuilding(battle, a, target)
                    ELSE AttackWarrior(battle, a, target)
<1>1. /\ a \in DOMAIN battle.autos /\ "attack" \in battle.autos[a].timers /\ Exists(battle, target)
      /\ IF target \in Buildings /\ after.buildings[target].hp <= 0 /\ OneCamp(after)
         THEN battle' = Settled(after)
         ELSE battle' = after
  BY Zenon DEF OnTimerAttack
<1>2. /\ Types(battle) /\ DOMAIN battle.autos = DOMAIN battle.warriors
      /\ TimersRight(battle, a) /\ Opposed(battle, a)
  BY <1>1, KeptParts DEF AutoKept
<1>3. battle.autos[a].status = "attack"
  <2>1. battle.autos[a].status \in {"search", "chase", "attack"}
    BY <1>1, <1>2 DEF Types, AutoSet
  <2> QED
    BY <1>1, <1>2, <2>1 DEF TimersRight
<1>4. CampOf(battle, target) # CampOf(battle, a)
  BY <1>2, <1>3 DEF Opposed
<1>5. CASE target \in Buildings
  <2>1. after = AttackBuilding(battle, a, target)
    BY <1>5
  <2> HIDE DEF after, target
  <2>2. HitBuilding(after, target)
    BY <1>1, <1>4, <1>5, <2>1, AttackBuildingIs
  <2>3. CASE after.buildings[target].hp <= 0 /\ OneCamp(after)
    BY <1>1, <1>5, <2>2, <2>3, SettledAfter DEF HitBuilding
  <2>4. CASE ~(after.buildings[target].hp <= 0 /\ OneCamp(after))
    <3>1. BattleKept(after) /\ battle' = after
      BY <1>1, <2>2, <2>4 DEF HitBuilding
    <3> QED
      BY <3>1, KeptAfter
  <2> QED
    BY <2>3, <2>4
<1>6. CASE target \notin Buildings
  <2>1. after = AttackWarrior(battle, a, target) /\ target \in DOMAIN battle.warriors /\ a \in DOMAIN battle.warriors
    BY <1>1, <1>2, <1>6 DEF Exists
  <2> HIDE DEF after, target
  <2>2. BattleKept(after)
    BY <1>4, <2>1, AttackWarriorKeeps
  <2>3. battle' = after
    BY <1>1, <1>6
  <2> QED
    BY <2>2, <2>3, KeptAfter
<1> QED
  BY <1>5, <1>6

LEMMA BattleInitInv ==
  ASSUME BattleInit
  PROVE  BattleInv
<1> DEFINE supply == [r \in Roles |-> 0]
<1>1. supply \in [Roles -> Nat] /\ battle = FreshBattle(supply)
  BY DEF BattleInit
<1> HIDE DEF supply
<1>2. BattleKept(battle)
  BY <1>1, FreshBattleKept
<1>3. Begun
  BY <1>2 DEF BattleKept, InOrder, Types, IsBattle, Begun
<1> QED
  BY <1>2, <1>3 DEF BattleInv

LEMMA BattleInvStep ==
  ASSUME BattleInv, [BattleNext]_battle
  PROVE  BattleInv'
<1>1. CASE DoAction
  <2>1. BattleKept(battle)
    BY <1>1 DEF DoAction, DoBuildAction, BattleInv
  <2>2. CASE \E r \in Roles, b \in Buildings : DoBuildAction(r, b)
    BY <2>1, <2>2, BuildActionKeeps
  <2>3. ASSUME NEW w \in DOMAIN battle.warriors, NEW dest, DoMoveAction(w, dest)
        PROVE  BattleInv'
    <3> DEFINE t == OnRequireSceneMove(battle, w, dest)
    <3>1. battle' = t
      BY <2>3 DEF DoMoveAction
    <3>2. BattleKept(t)
      BY <2>1, MoveKeeps
    <3> HIDE DEF t
    <3> QED
      BY <3>1, <3>2, KeptAfter
  <2> QED
    BY <1>1, <2>2, <2>3 DEF DoAction
<1>2. CASE Begun /\ \E w \in DOMAIN battle.warriors :
                      OnMoveTimer(w) \/ OnTimerSearch(w) \/ OnTimerRefindPath(w) \/ OnTimerAttack(w)
  <2>1. BattleKept(battle)
    BY <1>2 DEF BattleInv
  <2> QED
    BY <1>2, <2>1, MoveTimerKeeps, SearchTimerKeeps, RefindTimerKeeps, AttackTimerKeeps
<1>3. CASE OnTimerResourceRecover
  <2> DEFINE u == Recovering(battle)[Len(Sites)]
             t == [u EXCEPT !.roles = [r \in Roles |->
                     IF Served(battle, r) THEN IncFood(@[r], FoodAdd * Cardinality(Owned(battle, r)))
                     ELSE @[r]]]
  <2>1. Begun /\ battle' = t
    BY <1>3, Zenon DEF OnTimerResourceRecover
  <2>2. BattleKept(t)
    BY <2>1, RecoverKeeps DEF BattleInv
  <2> HIDE DEF t
  <2> QED
    BY <2>1, <2>2, KeptAfter
<1>4. CASE OnTimerSettle
  <2>1. BattleKept(battle) /\ battle' = Settled(battle)
    BY <1>4 DEF OnTimerSettle, BattleInv
  <2>2. \A r \in Roles : battle.roles[r].supply \in Nat
    BY <2>1, SupplyNat DEF BattleKept
  <2> QED
    BY <2>1, <2>2, SettledAfter
<1>5. CASE NewBattle
  <2>1. battle.supply \in [Roles -> Nat] /\ battle' = FreshBattle(battle.supply)
    BY <1>5 DEF NewBattle, BattleInv
  <2>2. BattleKept(battle')
    BY <2>1, FreshBattleKept
  <2> QED
    BY <2>2, KeptAfter
<1>6. CASE UNCHANGED battle
  BY <1>6 DEF BattleInv, Begun
<1> QED
  BY <1>1, <1>2, <1>3, <1>4, <1>5, <1>6 DEF BattleNext

-----------------------------------------------------------------------------
(* What the invariant says. *)

LEMMA KeptWatched ==
  ASSUME BattleInv
  PROVE  TargetsWatched
<1> SUFFICES ASSUME Begun
             PROVE  /\ PlayersTold
                    /\ \A a \in DOMAIN battle.autos :
                         LET auto == battle.autos[a]
                         IN /\ auto.status # "search" =>
                                 /\ Exists(battle, auto.target) /\ <<auto.target, a>> \in battle.observers
                                 /\ CampOf(battle, auto.target) # CampOf(battle, a)
                            /\ auto.status = "search" => auto.timers = {"search"}
                            /\ auto.status = "chase" => auto.timers \subseteq {"refind"}
                            /\ auto.status = "attack" => auto.timers = {"attack"} /\ battle.moves[a] = << >>
                    /\ \A b \in Buildings : battle.buildings[b].targeted = Cardinality(Attackers(battle, b))
  BY DEF TargetsWatched, Attackers
<1>1. BattleKept(battle)
  BY DEF BattleInv
<1>2. /\ InOrder(battle) /\ Calm(battle)
      /\ DOMAIN battle.autos = DOMAIN battle.warriors /\ DOMAIN battle.told = DOMAIN battle.warriors
      /\ \A a \in DOMAIN battle.autos : Opposed(battle, a) /\ AutoKept(battle, a)
  BY <1>1, KeptParts
<1>3. PlayersTold
  <2> DEFINE warriors == [w \in DOMAIN battle.warriors |->
                            [to |-> MovePaths(battle, w)[Len(MovePaths(battle, w))],
                             target |-> AttackingTarget(battle, w)]]
             buildings == [b \in Buildings |-> [camp |-> battle.buildings[b].camp,
                                                status |-> battle.buildings[b].status]]
  <2>1. StatusImage(battle).warriors = warriors /\ StatusImage(battle).buildings = buildings
    BY DEF StatusImage
  <2>2. ASSUME NEW w \in DOMAIN battle.warriors
        PROVE  battle.told[w].to = warriors[w].to /\ warriors[w].target \in {None, battle.told[w].target}
    <3>1. /\ battle.told[w].to = Going(battle, w)
          /\ battle.autos[w].status = "attack" => battle.told[w].target = battle.autos[w].target
      BY <1>2 DEF AutoKept, ToldRight
    <3>2. warriors[w].to = Going(battle, w) /\ warriors[w].target = AttackingTarget(battle, w)
      BY DEF Going
    <3> HIDE DEF warriors
    <3> QED
      BY <3>1, <3>2 DEF AttackingTarget
  <2>3. DOMAIN warriors = DOMAIN battle.told
    BY <1>2
  <2>4. battle.toldBuildings = buildings
    BY <1>2 DEF InOrder, BuildingsTold
  <2> HIDE DEF warriors, buildings
  <2> QED
    BY <1>2, <2>1, <2>2, <2>3, <2>4 DEF PlayersTold
<1>4. ASSUME NEW a \in DOMAIN battle.autos
      PROVE  LET auto == battle.autos[a]
             IN /\ auto.status # "search" =>
                     /\ Exists(battle, auto.target) /\ <<auto.target, a>> \in battle.observers
                     /\ CampOf(battle, auto.target) # CampOf(battle, a)
                /\ auto.status = "search" => auto.timers = {"search"}
                /\ auto.status = "chase" => auto.timers \subseteq {"refind"}
                /\ auto.status = "attack" => auto.timers = {"attack"} /\ battle.moves[a] = << >>
  BY <1>2 DEF AutoKept, Opposed, Watches, TimersRight
<1>5. \A b \in Buildings : battle.buildings[b].targeted = Cardinality(Attackers(battle, b))
  BY <1>2 DEF Calm, Counted
<1> QED
  BY <1>3, <1>4, <1>5

LEMMA KeptType ==
  ASSUME BattleInv
  PROVE  BattleType
<1>1. CASE ~Begun
  BY <1>1 DEF BattleInv, BattleType
<1>2. CASE Begun
  <2>1. BattleKept(battle)
    BY <1>2 DEF BattleInv
  <2>2. /\ Types(battle) /\ Calm(battle) /\ DOMAIN battle.autos = DOMAIN battle.warriors
    BY <2>1, KeptParts
  <2>3. /\ DOMAIN battle.warriors \subseteq (Len(Sites) + 1)..battle.ids /\ battle.ids \in Nat
        /\ battle.ids <= MaxId /\ MaxId \in Nat
        /\ DOMAIN battle.moves = DOMAIN battle.warriors
        /\ battle.autos \in [DOMAIN battle.warriors -> AutoSet]
    <3>1. battle.ids \in Len(Sites)..MaxId /\ battle.ids \in Nat
      BY <2>2, IdsNat
    <3>2. battle.ids <= MaxId /\ MaxId \in Nat
      BY <3>1, Sizes
    <3>3. /\ DOMAIN battle.warriors \subseteq (Len(Sites) + 1)..battle.ids
          /\ battle.moves \in [DOMAIN battle.warriors -> Seq(Walkable)]
          /\ battle.autos \in [DOMAIN battle.autos -> AutoSet]
      BY <2>2, Zenon DEF Types
    <3> QED
      BY <2>2, <3>1, <3>2, <3>3, Zenon
  <2>4. battle.warriors \in [DOMAIN battle.warriors -> [role : Roles, hp : 1..MaxHp, pos : Walkable]]
    <3>1. ASSUME NEW w \in DOMAIN battle.warriors
          PROVE  battle.warriors[w] \in [role : Roles, hp : 1..MaxHp, pos : Walkable]
      <4>1. battle.warriors[w] \in WarriorSet /\ battle.warriors[w].hp > 0
        BY <2>1, <2>2 DEF Types, BattleKept
      <4> QED
        BY <4>1 DEF WarriorSet
    <3>2. battle.warriors = [w \in DOMAIN battle.warriors |-> battle.warriors[w]]
      BY <2>2 DEF Types
    <3> QED
      BY <3>1, <3>2
  <2>5. battle.buildings \in [Buildings -> [camp : Roles, hp : 0..MaxHp,
                                            status : {"host", "retrieve"}, targeted : 0..MaxId]]
    <3>1. ASSUME NEW b \in Buildings
          PROVE  battle.buildings[b] \in [camp : Roles, hp : 0..MaxHp,
                                          status : {"host", "retrieve"}, targeted : 0..MaxId]
      <4>1. battle.buildings[b] \in BuildingSet
        BY <2>2 DEF Types
      <4>2. battle.buildings[b].targeted = Cardinality(Attackers(battle, b))
        BY <2>2 DEF Calm, Counted
      <4>3. Cardinality(Attackers(battle, b)) \in 0..battle.ids
        BY <2>2, AttackersFinite
      <4>4. battle.buildings[b].targeted \in 0..MaxId
        BY <2>3, <4>2, <4>3
      <4> QED
        BY <4>1, <4>4 DEF BuildingSet
    <3>2. battle.buildings = [b \in Buildings |-> battle.buildings[b]]
      BY <2>2 DEF Types
    <3> QED
      BY <3>1, <3>2
  <2>6. ~battle.dispatching /\ battle.pending = {}
    BY <2>2, Zenon DEF Calm
  <2> QED
    BY <1>2, <2>2, <2>3, <2>4, <2>5, <2>6 DEF BattleType, AutoSet
<1> QED
  BY <1>1, <1>2

LEMMA KeptBooks ==
  ASSUME BattleInv
  PROVE  BooksBalance
<1>1. BattleType
  BY KeptType
<1>2. ASSUME Begun
      PROVE  /\ \A r \in Roles :
                  LET role == battle.roles[r]
                      owned == Cardinality(Owned(battle, r))
                  IN /\ role.supply - role.kept = SupplyNeed * Cardinality(OfRole(battle, r))
                     /\ role.supplyMax = SupplyAdd * owned /\ role.buildingNum = owned
                     /\ role.food \in 0..FoodMax
             /\ \A c \in DOMAIN battle.grid :
                  battle.grid[c] = {w \in DOMAIN battle.warriors : battle.warriors[w].pos = c}
  <2>1. InOrder(battle)
    BY <1>2 DEF BattleInv, BattleKept
  <2>2. \A r \in Roles : battle.roles[r].food \in 0..FoodMax
    BY <2>1 DEF InOrder, RoleSet
  <2>3. \A c \in DOMAIN battle.grid :
          battle.grid[c] = {w \in DOMAIN battle.warriors : battle.warriors[w].pos = c}
    BY <2>1 DEF InOrder, GridRight
  <2> QED
    BY <2>1, <2>2, <2>3 DEF InOrder, SupplyRight, CampsRight
<1> QED
  BY <1>1, <1>2 DEF BooksBalance, OfRole

\* A warrior of the battle that chases or attacks is an observer of its target, which is
\* there and of the other camp, and it has the timers of its status, whatever is
\* dispatched to whom meanwhile (EventObserver::Dispatch and PendingRemove under
\* AutoStatus::DispatchEvent); a building counts its attackers, and the actions broadcast
\* to the players have told them what CombatField::ExportStatusImage shows.
THEOREM TargetsWatchedCorrect == BattleSpec => []TargetsWatched
<1>1. BattleInit => BattleInv
  BY BattleInitInv
<1>2. BattleInv /\ [BattleNext]_battle => BattleInv'
  BY BattleInvStep
<1>3. BattleInv => TargetsWatched
  BY KeptWatched
<1> QED
  BY <1>1, <1>2, <1>3, PTL DEF BattleSpec

\* The supply, the limits, the buildings and the food of CombatRoleField are those of what
\* its camp has, through building, dying, and buildings that go over to the other camp
\* (CombatField::AllocateBuildingSupply), and the grids of the scene hold the warriors
\* where they are.
THEOREM BooksBalanceCorrect == BattleSpec => []BooksBalance
<1>1. BattleInit => BattleInv
  BY BattleInitInv
<1>2. BattleInv /\ [BattleNext]_battle => BattleInv'
  BY BattleInvStep
<1>3. BattleInv => BooksBalance
  BY KeptBooks
<1> QED
  BY <1>1, <1>2, <1>3, PTL DEF BattleSpec

-----------------------------------------------------------------------------
(* The scenes and their pool (ScenePool), for any maps, sites and number   *)
(* of combats.                                                             *)

\* A scene as a record of its parts.
IsScene(s) ==
  s = [map |-> s.map, first |-> s.first, width |-> s.width, height |-> s.height,
       walkable |-> s.walkable, grids |-> s.grids, nodes |-> s.nodes,
       buildings |-> s.buildings, timer |-> s.timer]

Nodes == (Int \X Int) \X BOOLEAN

\* The nodes begin with those of the map a scene was first allocated for.
NodesFirst(s) ==
  s.first # NoMap =>
    LET first == NodesOf(SceneConfs[s.first])
    IN Len(first) <= Len(s.nodes) /\ \A i \in DOMAIN first : s.nodes[i] = first[i]

\* What holds of every scene once it was allocated, wherever it is.
SceneKept(s) ==
  /\ IsScene(s)
  /\ s.nodes \in Seq(Nodes)
  /\ s.map # NoMap => /\ s.map \in DOMAIN SceneConfs
                      /\ s.width = SceneConfs[s.map].width
                      /\ s.walkable = SceneConfs[s.map].walkable
  /\ s.first = NoMap => s.nodes = << >>
  /\ s.first # NoMap => s.first \in DOMAIN SceneConfs
  /\ NodesFirst(s)

\* A scene in the pool.
Waiting(s) == SceneKept(s) /\ s.buildings = {} /\ s.timer = FALSE
Waits(p) == \E S : p \in Seq(S) /\ \A s \in S : Waiting(s)

\* A scene of a combat on a map, with the first n of its buildings.
Holds(s, map, sites, n) ==
  /\ SceneKept(s) /\ s.timer = TRUE /\ s.buildings = 1..n
  /\ map \in DOMAIN SceneConfs =>
       /\ s.map = map
       /\ \A c \in DOMAIN s.grids : s.grids[c] = {b \in 1..n : sites[b] = c}

Combats == [map : CombatMaps, sites : CombatSites, lasts : BOOLEAN]

SceneInv ==
  /\ \E n \in Nat : fields \in [1..n -> Combats]
  /\ \A id \in DOMAIN scenes :
       /\ id \in DOMAIN fields /\ fields[id].lasts = TRUE
       /\ Holds(scenes[id], fields[id].map, fields[id].sites, Len(fields[id].sites))
  /\ Waits(pool)

\* Cells are counted along the rows of a map, as Scene::GetNode finds them.
LEMMA CellsCounted ==
  ASSUME NEW w \in Nat, NEW h \in Nat, NEW i \in 1..(w * h)
  PROVE  /\ (i - 1) % w \in Int /\ (i - 1) \div w \in Int
         /\ ((i - 1) \div w) * w + ((i - 1) % w) + 1 = i
<1>1. w > 0
  <2>1. CASE w = 0
    <3>1. w * h = 0
      BY <2>1
    <3> QED
      BY <3>1
  <2> QED
    BY <2>1
<1> QED
  BY <1>1

\* The nodes of a map are a sequence, as long as the map has cells.
LEMMA NodesOfIs ==
  ASSUME NEW map \in DOMAIN SceneConfs
  PROVE  LET conf == SceneConfs[map]
         IN /\ NodesOf(conf) \in Seq(Nodes)
            /\ DOMAIN NodesOf(conf) = DOMAIN CellsOf(conf)
            /\ \A i \in DOMAIN CellsOf(conf) :
                 NodesOf(conf)[i] = <<CellsOf(conf)[i], CellsOf(conf)[i] \in conf.walkable>>
<1> DEFINE conf == SceneConfs[map]
           w == conf.width
           h == conf.height
           n == w * h
<1>1. w \in Nat /\ h \in Nat
  BY SceneAssumption
<1>2. n \in Nat
  <2> HIDE DEF w, h
  <2> QED
    BY <1>1
<1>3. ASSUME NEW i \in 1..n PROVE CellsOf(conf)[i] \in Int \X Int
  <2>1. CellsOf(conf)[i] = <<(i - 1) % w, (i - 1) \div w>>
    BY DEF CellsOf
  <2> HIDE DEF w, h, conf
  <2> QED
    BY <1>1, <2>1, CellsCounted
<1>4. DOMAIN CellsOf(conf) = 1..n
  BY DEF CellsOf
<1> HIDE DEF n, w, h, conf
<1>5. NodesOf(conf) = [i \in 1..n |-> <<CellsOf(conf)[i], CellsOf(conf)[i] \in conf.walkable>>]
  BY <1>4 DEF NodesOf
<1>6. NodesOf(conf) \in [1..n -> Nodes]
  <2>1. ASSUME NEW i \in 1..n
        PROVE  <<CellsOf(conf)[i], CellsOf(conf)[i] \in conf.walkable>> \in Nodes
    <3>1. (CellsOf(conf)[i] \in conf.walkable) \in BOOLEAN
      OBVIOUS
    <3> QED
      BY <1>3, <3>1, Zenon DEF Nodes
  <2> QED
    BY <1>5, <2>1, Zenon
<1>7. NodesOf(conf) \in Seq(Nodes)
  BY <1>2, <1>6, SeqDef
<1>8. DOMAIN NodesOf(conf) = 1..n /\ \A i \in 1..n :
        NodesOf(conf)[i] = <<CellsOf(conf)[i], CellsOf(conf)[i] \in conf.walkable>>
  BY <1>5, Zenon
<1> QED
  BY <1>4, <1>7, <1>8, Zenon DEF conf

\* A scene that was never allocated.
LEMMA NewSceneWaits == Waiting(NewScene)
<1>1. IsScene(NewScene) /\ NewScene.buildings = {} /\ NewScene.timer = FALSE
      /\ NewScene.map = NoMap /\ NewScene.first = NoMap /\ NewScene.nodes = << >>
  BY DEF IsScene, NewScene
<1> HIDE DEF NewScene
<1> QED
  BY <1>1 DEF Waiting, SceneKept, NodesFirst

\* Scene::Allocate appends nodes behind those of the first map, and empties the grids.
LEMMA AllocateKeeps ==
  ASSUME NEW s, Waiting(s), NEW map, NEW t, t = AllocateScene(s, map)
  PROVE  /\ Waiting(t)
         /\ map \in DOMAIN SceneConfs =>
              t.map = map /\ \A c \in DOMAIN t.grids : t.grids[c] = {}
<1>1. CASE map \notin DOMAIN SceneConfs
  BY <1>1 DEF AllocateScene
<1>2. CASE map \in DOMAIN SceneConfs
  <2> DEFINE conf == SceneConfs[map]
             more == NodesOf(conf)
             empty == [c \in Range(CellsOf(conf)) |-> {}]
             first == IF s.first = NoMap THEN map ELSE s.first
  <2>1. t = [s EXCEPT !.map = map, !.first = first,
                      !.width = conf.width, !.height = conf.height, !.walkable = conf.walkable,
                      !.grids = empty, !.nodes = s.nodes \o more]
    BY <1>2, Zenon DEF AllocateScene
  <2>2. \A c \in DOMAIN empty : empty[c] = {}
    OBVIOUS
  <2>3. more \in Seq(Nodes) /\ s.nodes \in Seq(Nodes) /\ IsScene(s)
    BY <1>2, NodesOfIs DEF Waiting, SceneKept
  <2>4. first \in DOMAIN SceneConfs /\ first # NoMap
    BY <1>2, SceneAssumption DEF Waiting, SceneKept
  <2> HIDE DEF conf, more, empty
  <2>5. /\ s.nodes \o more \in Seq(Nodes)
        /\ Len(s.nodes \o more) = Len(s.nodes) + Len(more)
        /\ Len(s.nodes) \in Nat /\ Len(more) \in Nat
        /\ DOMAIN s.nodes = 1..Len(s.nodes) /\ DOMAIN more = 1..Len(more)
        /\ \A i \in 1..Len(s.nodes) : (s.nodes \o more)[i] = s.nodes[i]
        /\ s.nodes = << >> => s.nodes \o more = more
    BY <2>3, ConcatProperties, ConcatEmptySeq, LenProperties
  <2>6. /\ IsScene(t) /\ t.map = map /\ t.first = first
        /\ t.width = conf.width /\ t.walkable = conf.walkable
        /\ t.grids = empty /\ t.nodes = s.nodes \o more
        /\ t.buildings = s.buildings /\ t.timer = s.timer
    <3> HIDE DEF first
    <3> QED
      BY <2>1, <2>3 DEF IsScene
  <2>7. NodesFirst(t)
    <3>1. CASE s.first = NoMap
      <4>1. s.nodes = << >> /\ t.first = map
        BY <2>6, <3>1 DEF Waiting, SceneKept
      <4> QED
        BY <2>5, <2>6, <4>1 DEF NodesFirst, more, conf
    <3>2. CASE s.first # NoMap
      <4> DEFINE old == NodesOf(SceneConfs[s.first])
      <4>1. t.first = s.first /\ Len(old) <= Len(s.nodes) /\ \A i \in DOMAIN old : s.nodes[i] = old[i]
        BY <2>6, <3>2 DEF Waiting, SceneKept, NodesFirst
      <4>2. old \in Seq(Nodes)
        BY <3>2, NodesOfIs DEF Waiting, SceneKept
      <4> HIDE DEF old
      <4>3. Len(old) \in Nat /\ DOMAIN old = 1..Len(old)
        BY <4>2, LenProperties
      <4> DEFINE both == s.nodes \o more
      <4>4. both = t.nodes /\ Len(both) = Len(s.nodes) + Len(more)
            /\ \A i \in 1..Len(s.nodes) : both[i] = s.nodes[i]
        BY <2>5, <2>6, Zenon
      <4> HIDE DEF both
      <4>5. Len(old) <= Len(s.nodes) /\ Len(s.nodes) \in Nat /\ Len(more) \in Nat
        BY <2>5, <4>1, Zenon
      <4>6. Len(both) = Len(s.nodes) + Len(more)
        BY <4>4, Zenon
      <4>7. Len(old) <= Len(both)
        BY <4>3, <4>5, <4>6
      <4>8. ASSUME NEW i \in DOMAIN old PROVE both[i] = old[i]
        <5>1. i \in 1..Len(s.nodes)
          BY <4>3, <4>5
        <5> QED
          BY <4>1, <4>4, <5>1, Zenon
      <4> QED
        BY <4>1, <4>4, <4>7, <4>8 DEF NodesFirst, old
    <3> QED
      BY <3>1, <3>2
  <2>8. SceneKept(t)
    <3> HIDE DEF first
    <3> QED
      BY <1>2, <2>4, <2>5, <2>6, <2>7 DEF SceneKept, conf
  <2> QED
    BY <2>2, <2>6, <2>8 DEF Waiting
<1> QED
  BY <1>1, <1>2

\* What follows a map and its nodes only, is kept by changes of the rest.
LEMMA RestChanges ==
  ASSUME NEW s, SceneKept(s), NEW t, IsScene(t), t.map = s.map, t.first = s.first,
         t.width = s.width, t.walkable = s.walkable, t.nodes = s.nodes
  PROVE  SceneKept(t)
BY DEF SceneKept, NodesFirst

\* The scene when the buildings up to n were tried.
AddedOf(scene, sites, refused, f, n) ==
  IF n = 0 THEN [placed |-> 0, scene |-> scene]
  ELSE IF f[n - 1].placed = n - 1 /\ OnMap(f[n - 1].scene, sites[n]) /\ n # refused
  THEN [placed |-> n, scene |-> AddBuilding(f[n - 1].scene, n, sites[n])]
  ELSE f[n - 1]

LEMMA AddingIs ==
  ASSUME NEW scene, NEW sites, NEW refused, Len(sites) \in Nat
  PROVE  Adding(scene, sites, refused) = [n \in 0..Len(sites) |-> AddedOf(scene, sites, refused, Adding(scene, sites, refused), n)]
<1> DEFINE m == Len(sites)
           Is(f, k) == f = [n \in 0..k |-> AddedOf(scene, sites, refused, f, n)]
           T == {k \in 0..m : \E f : Is(f, k)}
<1>0. m \in Nat
  OBVIOUS
<1>1. ASSUME NEW n, NEW f, NEW g, n # 0 => f[n - 1] = g[n - 1]
      PROVE  AddedOf(scene, sites, refused, f, n) = AddedOf(scene, sites, refused, g, n)
  BY <1>1 DEF AddedOf
<1>2. 0 \in T
  <2> DEFINE g == [n \in 0..0 |-> AddedOf(scene, sites, refused, <<>>, n)]
  <2>1. \A n \in 0..0 : AddedOf(scene, sites, refused, <<>>, n) = AddedOf(scene, sites, refused, g, n)
    BY DEF AddedOf
  <2>2. g = [n \in 0..0 |-> AddedOf(scene, sites, refused, g, n)]
    BY <2>1, Zenon
  <2> HIDE DEF g
  <2>3. Is(g, 0)
    BY <2>2
  <2> HIDE DEF Is, m
  <2> QED
    BY <1>0, <2>3
<1>3. ASSUME NEW k \in 0..(m - 1), k \in T PROVE k + 1 \in T
  <2>1. PICK f : Is(f, k)
    BY <1>3
  <2> DEFINE g == [n \in 0..(k + 1) |-> IF n = k + 1 THEN AddedOf(scene, sites, refused, f, n) ELSE f[n]]
  <2>2. \A n \in 0..k : g[n] = f[n] /\ f[n] = AddedOf(scene, sites, refused, f, n)
    BY <2>1
  <2>3. g[k + 1] = AddedOf(scene, sites, refused, f, k + 1)
    OBVIOUS
  <2>4. g = [n \in 0..(k + 1) |-> g[n]]
    OBVIOUS
  <2> HIDE DEF g
  <2>5. ASSUME NEW n \in 0..(k + 1) PROVE g[n] = AddedOf(scene, sites, refused, g, n)
    <3>1. n # 0 => f[n - 1] = g[n - 1]
      BY <2>2
    <3>2. AddedOf(scene, sites, refused, f, n) = AddedOf(scene, sites, refused, g, n)
      BY <1>1, <3>1
    <3> QED
      BY <2>2, <2>3, <3>2
  <2>6. Is(g, k + 1)
    BY <2>4, <2>5
  <2> HIDE DEF Is, m
  <2> QED
    BY <1>0, <2>6
<1>4. \E f : Is(f, m)
  <2>1. m \in T
    <3> HIDE DEF T, m
    <3> QED
      BY <1>0, <1>2, <1>3, Induction
  <2> HIDE DEF Is
  <2> QED
    BY <2>1
<1>5. \E f : f = [n \in 0..m |-> AddedOf(scene, sites, refused, f, n)]
  BY <1>4
<1> DEFINE t == CHOOSE f : f = [n \in 0..m |-> AddedOf(scene, sites, refused, f, n)]
<1>6. t = [n \in 0..m |-> AddedOf(scene, sites, refused, t, n)]
  BY <1>5, Zenon
<1>7. Adding(scene, sites, refused) = t
  BY Zenon DEF Adding, AddedOf
<1> HIDE DEF t
<1> QED
  BY <1>6, <1>7

\* A building more.
LEMMA AddBuildingHolds ==
  ASSUME NEW map, NEW sites, NEW n \in Nat \ {0}, NEW s, Holds(s, map, sites, n - 1),
         NEW t, t = AddBuilding(s, n, sites[n])
  PROVE  Holds(t, map, sites, n)
<1> DEFINE grids == [s.grids EXCEPT ![sites[n]] = @ \cup {n}]
<1>1. IsScene(s)
  BY DEF Holds, SceneKept
<1>2. t = [s EXCEPT !.buildings = s.buildings \cup {n}, !.grids = grids]
  BY <1>1 DEF AddBuilding, IsScene
<1>3. \A c \in DOMAIN grids :
        c \in DOMAIN s.grids /\ grids[c] = IF c = sites[n] THEN s.grids[c] \cup {n} ELSE s.grids[c]
  OBVIOUS
<1> HIDE DEF grids
<1>4. /\ IsScene(t) /\ t.buildings = s.buildings \cup {n} /\ t.grids = grids
      /\ t.map = s.map /\ t.first = s.first /\ t.width = s.width /\ t.walkable = s.walkable
      /\ t.nodes = s.nodes /\ t.timer = s.timer
  BY <1>1, <1>2 DEF IsScene
<1>5. SceneKept(t)
  BY <1>4, RestChanges DEF Holds
<1>6. t.buildings = 1..n
  <2>1. s.buildings = 1..(n - 1)
    BY DEF Holds
  <2>2. 1..(n - 1) \cup {n} = 1..n
    OBVIOUS
  <2> QED
    BY <1>4, <2>1, <2>2
<1>7. ASSUME map \in DOMAIN SceneConfs, NEW c \in DOMAIN grids
      PROVE  grids[c] = {b \in 1..n : sites[b] = c}
  <2>1. s.grids[c] = {b \in 1..(n - 1) : sites[b] = c}
    BY <1>3, <1>7 DEF Holds
  <2>2. \A b : b \in 1..n <=> b \in 1..(n - 1) \/ b = n
    OBVIOUS
  <2> QED
    BY <1>3, <1>7, <2>1, <2>2
<1> QED
  BY <1>4, <1>5, <1>6, <1>7 DEF Holds

\* The buildings that have a place are on the grids.
LEMMA AddBuildingsHolds ==
  ASSUME NEW map, NEW sites, Len(sites) \in Nat, NEW refused, NEW s, Holds(s, map, sites, 0)
  PROVE  LET added == AddBuildings(s, sites, refused)
         IN added.placed \in Nat /\ Holds(added.scene, map, sites, added.placed)
<1> DEFINE m == Len(sites)
           f == Adding(s, sites, refused)
           T == {k \in 0..m : f[k].placed \in Nat /\ Holds(f[k].scene, map, sites, f[k].placed)}
<1>1. \A k \in 0..m : f[k] = AddedOf(s, sites, refused, f, k)
  <2> DEFINE g == [n \in 0..m |-> AddedOf(s, sites, refused, f, n)]
  <2>1. f = g
    BY AddingIs
  <2>2. \A k \in 0..m : g[k] = AddedOf(s, sites, refused, f, k)
    OBVIOUS
  <2> HIDE DEF f, g, m
  <2> QED
    BY <2>1, <2>2
<1> HIDE DEF f, m
<1>2. m \in Nat
  BY DEF m
<1>3. 0 \in T
  <2>1. 0 \in 0..m
    BY <1>2
  <2>2. f[0] = [placed |-> 0, scene |-> s]
    BY <1>1, <2>1, Zenon DEF AddedOf
  <2>3. f[0].placed = 0 /\ f[0].scene = s
    BY <2>2
  <2> QED
    BY <2>1, <2>3
<1>4. ASSUME NEW k \in 0..(m - 1), k \in T PROVE k + 1 \in T
  <2>1. PICK n \in 0..m : n = k + 1 /\ n - 1 = k /\ n # 0 /\ n \in Nat \ {0} /\ k \in Nat
    BY <1>2
  <2>2. f[n] = AddedOf(s, sites, refused, f, n)
    BY <1>1, <2>1, Zenon
  <2>3. f[k].placed \in Nat /\ Holds(f[k].scene, map, sites, f[k].placed)
    BY <1>4
  <2>4. f[n].placed \in Nat /\ Holds(f[n].scene, map, sites, f[n].placed)
    <3>1. CASE f[n - 1].placed = n - 1 /\ OnMap(f[n - 1].scene, sites[n]) /\ n # refused
      <4>1. f[n] = [placed |-> n, scene |-> AddBuilding(f[n - 1].scene, n, sites[n])]
        BY <2>1, <2>2, <3>1, Zenon DEF AddedOf
      <4>2. f[n].placed = n /\ f[n].scene = AddBuilding(f[n - 1].scene, n, sites[n])
        BY <4>1
      <4>3. Holds(f[n - 1].scene, map, sites, n - 1)
        BY <2>1, <2>3, <3>1, Zenon
      <4>4. Holds(f[n].scene, map, sites, n)
        BY <2>1, <4>2, <4>3, AddBuildingHolds, Zenon
      <4> QED
        BY <2>1, <4>2, <4>4
    <3>2. CASE ~(f[n - 1].placed = n - 1 /\ OnMap(f[n - 1].scene, sites[n]) /\ n # refused)
      <4>1. f[n] = f[n - 1]
        BY <2>1, <2>2, <3>2, Zenon DEF AddedOf
      <4> QED
        BY <2>1, <2>3, <4>1, Zenon
    <3> QED
      BY <3>1, <3>2
  <2> QED
    BY <2>1, <2>4
<1>5. m \in T
  <2> HIDE DEF T
  <2> QED
    BY <1>2, <1>3, <1>4, Induction
<1> QED
  BY <1>5 DEF AddBuildings, f, m


\* Scene::Initialize of what was allocated.
LEMMA InitializeHolds ==
  ASSUME NEW s, Waiting(s), NEW map, NEW sites,
         map \in DOMAIN SceneConfs => s.map = map /\ \A c \in DOMAIN s.grids : s.grids[c] = {},
         NEW t, t = InitializeScene(s)
  PROVE  Holds(t, map, sites, 0)
<1>1. IsScene(s) /\ SceneKept(s) /\ s.buildings = {}
  BY DEF Waiting, SceneKept
<1>2. /\ IsScene(t) /\ t.timer = TRUE /\ t.buildings = {} /\ t.grids = s.grids
      /\ t.map = s.map /\ t.first = s.first /\ t.width = s.width /\ t.walkable = s.walkable
      /\ t.nodes = s.nodes
  <2>1. PICK on : on = TRUE /\ t = [s EXCEPT !.timer = on]
    BY Zenon DEF InitializeScene
  <2>2. /\ IsScene(t) /\ t.timer = on /\ t.buildings = s.buildings /\ t.grids = s.grids
        /\ t.map = s.map /\ t.first = s.first /\ t.width = s.width /\ t.walkable = s.walkable
        /\ t.nodes = s.nodes
    BY <1>1, <2>1 DEF IsScene
  <2> QED
    BY <1>1, <2>1, <2>2, Zenon
<1>3. SceneKept(t)
  BY <1>1, <1>2, RestChanges
<1>4. 1..0 = {}
  OBVIOUS
<1>5. ASSUME map \in DOMAIN SceneConfs, NEW c \in DOMAIN t.grids
      PROVE  t.grids[c] = {b \in 1..0 : sites[b] = c}
  BY <1>2, <1>4, <1>5
<1> QED
  BY <1>2, <1>3, <1>4, <1>5 DEF Holds

\* Scene::Finalize: a scene may go back to the pool.
LEMMA FinalizeWaits ==
  ASSUME NEW s, SceneKept(s), NEW t, t = FinalizeScene(s)
  PROVE  Waiting(t)
<1>1. IsScene(s)
  BY DEF SceneKept
<1>2. /\ IsScene(t) /\ t.timer = FALSE /\ t.buildings = {}
      /\ t.map = s.map /\ t.first = s.first /\ t.width = s.width /\ t.walkable = s.walkable
      /\ t.nodes = s.nodes
  <2>1. PICK off, none : off = FALSE /\ none = {} /\ t = [s EXCEPT !.timer = off, !.buildings = none]
    BY Zenon DEF FinalizeScene
  <2>2. /\ IsScene(t) /\ t.timer = off /\ t.buildings = none
        /\ t.map = s.map /\ t.first = s.first /\ t.width = s.width /\ t.walkable = s.walkable
        /\ t.nodes = s.nodes
    BY <1>1, <2>1 DEF IsScene
  <2> QED
    BY <2>1, <2>2, Zenon
<1>3. SceneKept(t)
  BY <1>2, RestChanges
<1> QED
  BY <1>2, <1>3 DEF Waiting

\* SceneManager::Deallocate.
LEMMA DeallocateWaits ==
  ASSUME NEW p, Waits(p), NEW s, Waiting(s)
  PROVE  Waits(Deallocate(p, s))
<1>1. PICK S : p \in Seq(S) /\ \A w \in S : Waiting(w)
  BY DEF Waits
<1> DEFINE both == S \cup {s}
<1>2. \A w \in both : Waiting(w)
  BY <1>1
<1>3. S \subseteq both /\ s \in both
  OBVIOUS
<1> HIDE DEF both
<1>4. p \in Seq(both)
  <2>1. Len(p) \in Nat /\ p \in [1..Len(p) -> S]
    BY <1>1, LenProperties
  <2>2. p \in [1..Len(p) -> both]
    BY <2>1, <1>3
  <2> QED
    BY <2>1, <2>2, SeqDef
<1>5. Append(p, s) \in Seq(both)
  BY <1>3, <1>4, AppendProperties
<1> QED
  BY <1>2, <1>5, Zenon DEF Waits, Deallocate

\* SceneManager::Allocate.
LEMMA AllocateWaits ==
  ASSUME Waits(pool), NEW map, NEW taken, taken = Allocate(map)
  PROVE  /\ Waits(taken.pool) /\ Waiting(taken.scene)
         /\ map \in DOMAIN SceneConfs =>
              taken.scene.map = map /\ \A c \in DOMAIN taken.scene.grids : taken.scene.grids[c] = {}
<1>1. CASE pool = << >>
  <2>1. taken.scene = AllocateScene(NewScene, map) /\ taken.pool = pool
    BY <1>1 DEF Allocate
  <2> QED
    BY <2>1, NewSceneWaits, AllocateKeeps
<1>2. CASE pool # << >>
  <2>1. taken.scene = AllocateScene(Head(pool), map) /\ taken.pool = Tail(pool)
    BY <1>2 DEF Allocate
  <2>2. PICK S : pool \in Seq(S) /\ \A w \in S : Waiting(w)
    BY DEF Waits
  <2>3. Head(pool) \in S /\ Tail(pool) \in Seq(S)
    BY <1>2, <2>2, HeadTailProperties
  <2>4. Waits(Tail(pool))
    BY <2>2, <2>3, Zenon DEF Waits
  <2> QED
    BY <2>1, <2>2, <2>3, <2>4, AllocateKeeps
<1> QED
  BY <1>1, <1>2

LEMMA SceneInvInit == SceneInit => SceneInv
<1> SUFFICES ASSUME SceneInit PROVE SceneInv
  OBVIOUS
<1>1. fields \in [1..0 -> Combats]
  BY DEF SceneInit
<1>2. DOMAIN scenes = {}
  BY DEF SceneInit
<1>3. Waits(pool)
  <2> DEFINE S == {}
  <2>1. pool \in Seq(S) /\ \A s \in S : Waiting(s)
    BY EmptySeq DEF SceneInit
  <2> HIDE DEF S
  <2> QED
    BY <2>1, Zenon DEF Waits
<1> QED
  BY <1>1, <1>2, <1>3 DEF SceneInv

\* A combat begins: its scene is new, or comes from the pool.
LEMMA CombatBeginKeeps ==
  ASSUME SceneInv, NEW map \in CombatMaps, NEW sites \in CombatSites, OnEventCombatBegin(map, sites)
  PROVE  SceneInv'
<1>1. PICK n \in Nat : fields \in [1..n -> Combats]
  BY DEF SceneInv
<1>2. PICK id : id = n + 1 /\ id \in Nat /\ id = Cardinality(DOMAIN fields) + 1
  <2>1. Cardinality(1..n) = n
    BY FS_Interval
  <2>2. DOMAIN fields = 1..n
    BY <1>1
  <2> QED
    BY <2>1, <2>2
<1>3. PICK taken : taken = Allocate(map)
  OBVIOUS
<1>4. PICK combat : combat = [map |-> map, sites |-> sites, lasts |-> TRUE]
  OBVIOUS
<1>5. PICK refused, added :
        /\ added = AddBuildings(InitializeScene(taken.scene), sites, refused)
        /\ fields' = [k \in 1..id |-> IF k = id THEN combat ELSE fields[k]]
        /\ IF added.placed = Len(sites)
           THEN /\ scenes' = [k \in DOMAIN scenes \cup {id} |-> IF k = id THEN added.scene ELSE scenes[k]]
                /\ pool' = taken.pool
           ELSE /\ pool' = Deallocate(taken.pool, FinalizeScene(added.scene))
                /\ UNCHANGED scenes
  BY <1>2, <1>3, <1>4, Zenon DEF OnEventCombatBegin
<1>6. combat \in Combats /\ combat.map = map /\ combat.sites = sites /\ combat.lasts = TRUE
  BY <1>4 DEF Combats
<1>7. fields' \in [1..id -> Combats]
  <2>1. ASSUME NEW k \in 1..id, k # id PROVE k \in 1..n
    BY <1>2, <2>1
  <2> QED
    BY <1>1, <1>5, <1>6, <2>1
<1>8. fields'[id] = combat /\ \A k \in DOMAIN fields : k \in DOMAIN fields' /\ k # id /\ fields'[k] = fields[k]
  <2>1. DOMAIN fields = 1..n /\ id \in 1..id /\ \A k \in 1..n : k \in 1..id /\ k # id
    BY <1>1, <1>2
  <2> QED
    BY <1>5, <2>1
<1>9. Waits(pool)
  BY DEF SceneInv
<1>10. /\ Waits(taken.pool) /\ Waiting(taken.scene)
       /\ map \in DOMAIN SceneConfs =>
            taken.scene.map = map /\ \A c \in DOMAIN taken.scene.grids : taken.scene.grids[c] = {}
  BY <1>3, <1>9, AllocateWaits
<1>11. Len(sites) \in Nat
  BY SceneAssumption
<1>12. Holds(InitializeScene(taken.scene), map, sites, 0)
  BY <1>10, InitializeHolds
<1>13. added.placed \in Nat /\ Holds(added.scene, map, sites, added.placed)
  BY <1>5, <1>11, <1>12, AddBuildingsHolds
<1>14. \A k \in DOMAIN scenes :
         /\ k \in DOMAIN fields /\ fields[k].lasts = TRUE
         /\ Holds(scenes[k], fields[k].map, fields[k].sites, Len(fields[k].sites))
  BY DEF SceneInv
<1>15. CASE added.placed = Len(sites)
  <2>1. scenes' = [k \in DOMAIN scenes \cup {id} |-> IF k = id THEN added.scene ELSE scenes[k]]
        /\ pool' = taken.pool
    BY <1>5, <1>15
  <2>2. ASSUME NEW k \in DOMAIN scenes'
        PROVE  /\ k \in DOMAIN fields' /\ fields'[k].lasts = TRUE
               /\ Holds(scenes'[k], fields'[k].map, fields'[k].sites, Len(fields'[k].sites))
    <3>1. CASE k = id
      <4>1. scenes'[k] = added.scene /\ fields'[k] = combat /\ k \in DOMAIN fields'
        BY <1>2, <1>7, <1>8, <2>1, <3>1
      <4> QED
        BY <1>6, <1>13, <1>15, <4>1, Zenon
    <3>2. CASE k # id
      <4>1. k \in DOMAIN scenes /\ scenes'[k] = scenes[k]
        BY <2>1, <3>2
      <4> QED
        BY <1>8, <1>14, <4>1, Zenon
    <3> QED
      BY <3>1, <3>2
  <2>3. Waits(pool')
    BY <1>10, <2>1
  <2> QED
    BY <1>2, <1>7, <2>2, <2>3, Zenon DEF SceneInv, Waits
<1>16. CASE added.placed # Len(sites)
  <2>1. scenes' = scenes /\ pool' = Deallocate(taken.pool, FinalizeScene(added.scene))
    BY <1>5, <1>16
  <2>2. Waiting(FinalizeScene(added.scene))
    BY <1>13, FinalizeWaits DEF Holds
  <2>3. Waits(pool')
    BY <1>10, <2>1, <2>2, DeallocateWaits
  <2>4. ASSUME NEW k \in DOMAIN scenes'
        PROVE  /\ k \in DOMAIN fields' /\ fields'[k].lasts = TRUE
               /\ Holds(scenes'[k], fields'[k].map, fields'[k].sites, Len(fields'[k].sites))
    BY <1>8, <1>14, <2>1, Zenon
  <2> QED
    BY <1>2, <1>7, <2>3, <2>4, Zenon DEF SceneInv, Waits
<1> QED
  BY <1>15, <1>16

\* A combat is settled: its scene, if it had one, goes to the pool.
LEMMA CombatSettleKeeps ==
  ASSUME SceneInv, NEW id \in DOMAIN fields, OnEventCombatSettle(id)
  PROVE  SceneInv'
<1>1. PICK n \in Nat : fields \in [1..n -> Combats]
  BY DEF SceneInv
<1>2. PICK over : over = FALSE /\ fields' = [fields EXCEPT ![id].lasts = over]
  BY Zenon DEF OnEventCombatSettle
<1>3. fields' \in [1..n -> Combats] /\ \A k \in DOMAIN fields : k # id => fields'[k] = fields[k]
  <2>1. over \in BOOLEAN
    BY <1>2
  <2>2. fields[id] \in Combats
    BY <1>1
  <2>3. [fields[id] EXCEPT !.lasts = over] \in Combats
    BY <2>1, <2>2 DEF Combats
  <2>4. fields' = [fields EXCEPT ![id] = [fields[id] EXCEPT !.lasts = over]]
    BY <1>2
  <2> QED
    BY <1>1, <2>3, <2>4
<1>4. \A k \in DOMAIN scenes :
        /\ k \in DOMAIN fields /\ fields[k].lasts = TRUE
        /\ Holds(scenes[k], fields[k].map, fields[k].sites, Len(fields[k].sites))
  BY DEF SceneInv
<1>5. Waits(pool)
  BY DEF SceneInv
<1>6. PICK rest : rest = [k \in DOMAIN scenes \ {id} |-> scenes[k]]
  OBVIOUS
<1>7. scenes' = rest \/ (id \notin DOMAIN scenes /\ scenes' = scenes)
  BY <1>6 DEF OnEventCombatSettle
<1>8. ASSUME NEW k \in DOMAIN scenes'
      PROVE  k \in DOMAIN scenes /\ k # id /\ scenes'[k] = scenes[k]
  BY <1>6, <1>7
<1>9. \A k \in DOMAIN scenes' :
        /\ k \in DOMAIN fields' /\ fields'[k].lasts = TRUE
        /\ Holds(scenes'[k], fields'[k].map, fields'[k].sites, Len(fields'[k].sites))
  <2>1. DOMAIN fields' = DOMAIN fields
    BY <1>1, <1>3
  <2> QED
    BY <1>3, <1>4, <1>8, <2>1, Zenon
<1>10. Waits(pool')
  <2>1. CASE id \in DOMAIN scenes
    <3>1. Waiting(FinalizeScene(scenes[id]))
      BY <1>4, <2>1, FinalizeWaits DEF Holds
    <3>2. pool' = Deallocate(pool, FinalizeScene(scenes[id]))
      BY <2>1 DEF OnEventCombatSettle
    <3> QED
      BY <1>5, <3>1, <3>2, DeallocateWaits
  <2>2. CASE id \notin DOMAIN scenes
    BY <1>5, <2>2 DEF OnEventCombatSettle
  <2> QED
    BY <2>1, <2>2
<1> QED
  BY <1>1, <1>3, <1>9, <1>10, Zenon DEF SceneInv, Waits

\* What waits in the pool or belongs to a combat is as ScenesReady says.
LEMMA SceneInvReady == SceneInv => ScenesReady
<1> SUFFICES ASSUME SceneInv PROVE ScenesReady
  OBVIOUS
<1> DEFINE Ready(id, scene, conf) ==
             /\ fields[id].lasts /\ scene.timer /\ scene.buildings = DOMAIN fields[id].sites
             /\ fields[id].map \in DOMAIN SceneConfs =>
                  /\ scene.map = fields[id].map /\ scene.walkable = conf.walkable
                  /\ \A c \in DOMAIN scene.grids :
                       scene.grids[c] = {b \in scene.buildings : fields[id].sites[b] = c}
             /\ scene.map # NoMap /\ scene.first = scene.map =>
                  \A i \in DOMAIN CellsOf(conf) :
                    LET c == CellsOf(conf)[i] IN NodeAt(scene, c) = <<c, c \in conf.walkable>>
<1>1. ASSUME NEW i \in DOMAIN pool PROVE pool[i].buildings = {} /\ ~pool[i].timer
  <2>1. PICK S : pool \in Seq(S) /\ \A s \in S : Waiting(s)
    BY DEF SceneInv, Waits
  <2>2. pool[i] \in S
    BY <2>1, ElementOfSeq, LenProperties
  <2> QED
    BY <2>1, <2>2, Zenon DEF Waiting
<1>2. ASSUME NEW id \in DOMAIN scenes, NEW scene, scene = scenes[id],
             NEW conf, conf = SceneConfs[scene.map]
      PROVE  Ready(id, scene, conf)
  <2>1. id \in DOMAIN fields /\ fields[id].lasts = TRUE
        /\ Holds(scene, fields[id].map, fields[id].sites, Len(fields[id].sites))
    BY <1>2 DEF SceneInv
  <2>2. SceneKept(scene) /\ scene.timer = TRUE
        /\ scene.buildings = 1..Len(fields[id].sites)
    BY <2>1 DEF Holds
  <2>3. DOMAIN fields[id].sites = 1..Len(fields[id].sites)
    <3>1. fields[id] \in Combats
      BY <2>1 DEF SceneInv
    <3>2. fields[id].sites \in Seq(Int \X Int)
      BY <3>1, SceneAssumption DEF Combats
    <3> QED
      BY <3>2, LenProperties
  <2>4. ASSUME fields[id].map \in DOMAIN SceneConfs
        PROVE  /\ scene.map = fields[id].map /\ scene.walkable = conf.walkable
               /\ \A c \in DOMAIN scene.grids :
                    scene.grids[c] = {b \in scene.buildings : fields[id].sites[b] = c}
    <3>1. /\ scene.map = fields[id].map
          /\ \A c \in DOMAIN scene.grids :
               scene.grids[c] = {b \in 1..Len(fields[id].sites) : fields[id].sites[b] = c}
      BY <2>1, <2>4, Zenon DEF Holds
    <3>2. scene.map # NoMap
      BY <2>4, <3>1, SceneAssumption
    <3>3. scene.walkable = conf.walkable
      BY <1>2, <2>2, <3>2, Zenon DEF SceneKept
    <3> QED
      BY <2>2, <3>1, <3>3, Zenon
  <2>5. ASSUME scene.map # NoMap, scene.first = scene.map, NEW i \in DOMAIN CellsOf(conf),
               NEW c, c = CellsOf(conf)[i]
        PROVE  NodeAt(scene, c) = <<c, c \in conf.walkable>>
    <3>1. scene.map \in DOMAIN SceneConfs /\ scene.width = conf.width /\ NodesFirst(scene)
      BY <1>2, <2>2, <2>5, Zenon DEF SceneKept
    <3>2. scene.nodes[i] = <<c, c \in conf.walkable>>
      <4>1. /\ DOMAIN NodesOf(conf) = DOMAIN CellsOf(conf)
            /\ NodesOf(conf)[i] = <<c, c \in conf.walkable>>
        BY <1>2, <2>5, <3>1, NodesOfIs
      <4>2. scene.nodes[i] = NodesOf(conf)[i]
        BY <1>2, <2>5, <3>1, <4>1, Zenon DEF NodesFirst
      <4> QED
        BY <4>1, <4>2
    <3>3. c[2] * scene.width + c[1] + 1 = i
      <4>1. PICK w \in Nat, h \in Nat : w = conf.width /\ h = conf.height
        BY <1>2, <3>1, SceneAssumption
      <4>2. c = <<(i - 1) % w, (i - 1) \div w>> /\ i \in 1..(w * h)
        BY <2>5, <4>1 DEF CellsOf
      <4>3. c[1] = (i - 1) % w /\ c[2] = (i - 1) \div w
        BY <4>2
      <4>4. ((i - 1) \div w) * w + ((i - 1) % w) + 1 = i
        BY <4>2, CellsCounted
      <4> QED
        BY <3>1, <4>1, <4>3, <4>4, Zenon
    <3> QED
      BY <3>2, <3>3, Zenon DEF NodeAt
  <2> QED
    BY <2>1, <2>2, <2>3, <2>4, <2>5, Zenon
<1>3. \A id \in DOMAIN scenes : Ready(id, scenes[id], SceneConfs[scenes[id].map])
  <2> HIDE DEF Ready
  <2> QED
    BY <1>2
<1> QED
  BY <1>1, <1>3 DEF ScenesReady

\* A combat on a known map has the scene of that map, with its own buildings on the grids and
\* on nothing else, however often the scene went through the pool: Scene::Allocate makes new
\* grids where Scene::Finalize left the old ones, and the path finding sees the map when the
\* nodes that Allocate appended to are its own.  Scenes of the pool have no timer.
THEOREM ScenesReadyCorrect == SceneSpec => []ScenesReady
<1>1. SceneInv /\ [SceneNext]_sceneVars => SceneInv'
  <2> SUFFICES ASSUME SceneInv, [SceneNext]_sceneVars PROVE SceneInv'
    OBVIOUS
  <2>1. CASE \E map \in CombatMaps, sites \in CombatSites : OnEventCombatBegin(map, sites)
    BY <2>1, CombatBeginKeeps
  <2>2. CASE \E id \in DOMAIN fields : OnEventCombatSettle(id)
    BY <2>2, CombatSettleKeeps
  <2>3. CASE UNCHANGED sceneVars
    BY <2>3 DEF SceneInv, sceneVars
  <2> QED
    BY <2>1, <2>2, <2>3 DEF SceneNext
<1> QED
  BY <1>1, SceneInvInit, SceneInvReady, PTL DEF SceneSpec

-----------------------------------------------------------------------------
(* The robot (Robot), for any number of connections, any commands and any  *)
(* number of lines.                                                        *)

\* A robot as a record of its parts.
IsRobot(r) ==
  r = [loop |-> r.loop, attached |-> r.attached, pipe |-> r.pipe, buffered |-> r.buffered,
       edge |-> r.edge, typed |-> r.typed, together |-> r.together, sockets |-> r.sockets,
       actors |-> r.actors, shown |-> r.shown, sent |-> r.sent]

\* The actors are the connections.
ActorsRight(r) ==
  /\ r.sockets \in [RobotFds -> {"free", "connecting", "connected", "peer closed"}]
  /\ r.actors = {fd \in RobotFds : r.sockets[fd] = "connected"}

\* Lines that came one by one wait in the pipe only, one at a time, and epoll says so.
LinesRight(r) ==
  /\ r.pipe \in Seq(Commands) /\ r.buffered \in Seq(Commands)
  /\ r.edge \in BOOLEAN /\ r.together \in BOOLEAN /\ r.attached \in BOOLEAN
  /\ r.edge => r.pipe # << >>
  /\ r.attached /\ ~r.together =>
       r.buffered = << >> /\ Len(r.pipe) <= 1 /\ (~r.edge => r.pipe = << >>)

RobotInv == IsRobot(robot) /\ ActorsRight(robot) /\ LinesRight(robot)

\* Of the lines a handler of the gateway or of a socket changes nothing.
SameLines(r, s) ==
  s.pipe = r.pipe /\ s.buffered = r.buffered /\ s.edge = r.edge /\ s.together = r.together
    /\ s.attached = r.attached

\* A connection that fails takes its actor along (RobotApp::OnError).
LEMMA FailKeeps ==
  ASSUME NEW r, IsRobot(r), ActorsRight(r), NEW fd \in RobotFds
  PROVE  LET s == Fail(r, fd) IN IsRobot(s) /\ ActorsRight(s) /\ SameLines(r, s)
<1> DEFINE s == Fail(r, fd)
<1>1. s = [r EXCEPT !.actors = @ \ {fd}, !.sockets[fd] = "free"]
  BY DEF Fail, OnError, IsRobot
<1>2. s.actors = r.actors \ {fd} /\ s.sockets = [r.sockets EXCEPT ![fd] = "free"]
      /\ IsRobot(s) /\ SameLines(r, s)
  BY <1>1 DEF IsRobot, SameLines
<1>3. ActorsRight(s)
  BY <1>2 DEF ActorsRight
<1> QED BY <1>2, <1>3

\* A command leaves the actors right, and the lines alone (UserCommandHandler::Parse).
LEMMA CommandKeeps ==
  ASSUME NEW r, IsRobot(r), ActorsRight(r), NEW command, NEW s \in Parsed(r, command)
  PROVE  IsRobot(s) /\ ActorsRight(s) /\ SameLines(r, s)
<1>1. ASSUME NEW fd \in RobotFds \ OpenSockets(r), s = [r EXCEPT !.sockets[fd] = "connecting"]
      PROVE  IsRobot(s) /\ ActorsRight(s) /\ SameLines(r, s)
  <2>1. s.actors = r.actors /\ s.sockets = [r.sockets EXCEPT ![fd] = "connecting"]
        /\ IsRobot(s) /\ SameLines(r, s)
    BY <1>1 DEF IsRobot, SameLines
  <2>2. r.sockets[fd] = "free"
    BY <1>1 DEF OpenSockets
  <2>3. \A x \in RobotFds : s.sockets[x] = "connected" <=> r.sockets[x] = "connected"
    BY <2>1, <2>2 DEF ActorsRight
  <2>4. s.sockets \in [RobotFds -> {"free", "connecting", "connected", "peer closed"}]
    BY <2>1 DEF ActorsRight
  <2>5. ActorsRight(s)
    BY <2>1, <2>3, <2>4 DEF ActorsRight
  <2> QED BY <2>1, <2>5
<1>2. CASE command.word = "actor_login"
  <2>1. s = r \/ \E fd \in RobotFds \ OpenSockets(r) : s = [r EXCEPT !.sockets[fd] = "connecting"]
    BY <1>2 DEF Parsed, CommandActorLogin, Connect
  <2> QED BY <1>1, <2>1 DEF SameLines
<1>3. CASE command.word = "run"
  <2>1. \/ s = r
        \/ /\ command.actor \in r.actors
           /\ \/ s = [r EXCEPT !.sent = <<command.actor, command.operation>>]
              \/ s = Fail(r, command.actor)
              \/ s = [r EXCEPT !.loop = "crashed"]
    BY <1>3 DEF Parsed, CommandRunCommand, SendMessage
  <2>2. command.actor \in r.actors => command.actor \in RobotFds
    BY DEF ActorsRight
  <2>3. ASSUME \/ s = [r EXCEPT !.sent = <<command.actor, command.operation>>]
               \/ s = [r EXCEPT !.loop = "crashed"]
        PROVE  IsRobot(s) /\ ActorsRight(s) /\ SameLines(r, s)
    BY <2>3 DEF IsRobot, ActorsRight, SameLines
  <2> QED BY <2>1, <2>2, <2>3, FailKeeps DEF SameLines
<1>4. CASE command.word # "actor_login" /\ command.word # "run"
  BY <1>4 DEF Parsed, SameLines
<1> QED BY <1>2, <1>3, <1>4

\* The initial state.
LEMMA RobotInvInit == RobotInit => RobotInv
BY DEF RobotInit, RobotInv, IsRobot, ActorsRight, LinesRight

\* Lines arrive.
LEMMA TypeKeeps ==
  ASSUME RobotInv, NEW lines \in Seq(Commands), lines # << >>, Type(lines)
  PROVE  RobotInv'
<1>1. robot' = [robot EXCEPT !.pipe = robot.pipe \o lines, !.typed = robot.typed + Len(lines),
                             !.edge = TRUE, !.together = robot.together \/ robot.edge \/ Len(lines) > 1]
  BY DEF Type
<1>2. robot'.pipe = robot.pipe \o lines /\ robot'.buffered = robot.buffered
      /\ robot'.edge = TRUE /\ robot'.attached = robot.attached
      /\ robot'.together = (robot.together \/ robot.edge \/ Len(lines) > 1)
      /\ robot'.sockets = robot.sockets /\ robot'.actors = robot.actors /\ IsRobot(robot')
  BY <1>1 DEF RobotInv, IsRobot
<1>3. ActorsRight(robot')
  BY <1>2 DEF RobotInv, ActorsRight
<1>4. /\ robot.pipe \in Seq(Commands) /\ robot.pipe \o lines \in Seq(Commands)
      /\ Len(robot.pipe \o lines) = Len(robot.pipe) + Len(lines)
      /\ Len(lines) \in Nat \ {0} /\ robot.pipe \o lines # << >>
  BY DEF RobotInv, LinesRight
<1>5. LinesRight(robot')
  <2>1. robot'.together \in BOOLEAN
    BY <1>2
  <2>2. ~robot'.together => ~robot.together /\ ~robot.edge /\ ~(Len(lines) > 1)
    BY <1>2
  <2>3. robot'.attached /\ ~robot'.together => robot'.buffered = << >> /\ Len(robot'.pipe) <= 1
    BY <1>2, <1>4, <2>2 DEF RobotInv, LinesRight
  <2> QED BY <1>2, <1>4, <2>1, <2>3 DEF RobotInv, LinesRight
<1> QED BY <1>2, <1>3, <1>5 DEF RobotInv

\* The robot reads a line and handles it.
LEMMA ReadCallbackKeeps ==
  ASSUME RobotInv, OnReadCallback
  PROVE  RobotInv'
<1> DEFINE lines == IF robot.buffered = << >> THEN robot.pipe ELSE robot.buffered
<1> DEFINE command == Head(lines)
<1>1. PICK left, rest, r :
        /\ left = IF robot.buffered = << >> THEN << >> ELSE robot.pipe
        /\ rest = Tail(lines)
        /\ r = [robot EXCEPT !.edge = FALSE, !.buffered = rest, !.pipe = left]
        /\ robot.attached /\ robot.edge
        /\ \/ robot' = [r EXCEPT !.loop = "ended"]
           \/ robot' = [r EXCEPT !.attached = FALSE]
           \/ robot' \in Parsed(r, command)
  BY DEF OnReadCallback
<1>2. lines \in Seq(Commands) /\ lines # << >> /\ left \in Seq(Commands)
  BY <1>1 DEF RobotInv, LinesRight
<1>3. rest \in Seq(Commands) /\ Len(rest) = Len(lines) - 1
  BY <1>1, <1>2
<1> HIDE DEF lines, command
<1>4. /\ IsRobot(r) /\ r.edge = FALSE /\ r.buffered = rest /\ r.pipe = left
      /\ r.attached = robot.attached /\ r.together = robot.together
      /\ r.sockets = robot.sockets /\ r.actors = robot.actors
  <2>1. r = [robot EXCEPT !.edge = FALSE, !.buffered = rest, !.pipe = left]
    BY <1>1
  <2>2. IsRobot(robot)
    BY DEF RobotInv
  <2> QED BY <2>1, <2>2 DEF IsRobot
<1>5. ActorsRight(r)
  BY <1>4 DEF RobotInv, ActorsRight
<1>6. ~robot.together => rest = << >> /\ left = << >>
  BY <1>1, <1>2, <1>3 DEF RobotInv, LinesRight, lines
<1>7. LinesRight(r)
  <2>1. r.attached \in BOOLEAN /\ r.together \in BOOLEAN
    BY <1>4 DEF RobotInv, LinesRight
  <2>2. r.attached /\ ~r.together => rest = << >> /\ left = << >>
    BY <1>4, <1>6
  <2>3. r.pipe \in Seq(Commands) /\ r.buffered \in Seq(Commands)
    BY <1>2, <1>3, <1>4
  <2>4. Len(<< >>) <= 1
    OBVIOUS
  <2>5. r.attached /\ ~r.together =>
          r.buffered = << >> /\ Len(r.pipe) <= 1 /\ (~r.edge => r.pipe = << >>)
    BY <1>4, <2>2, <2>4, Zenon
  <2>6. r.edge \in BOOLEAN /\ (r.edge => r.pipe # << >>)
    BY <1>4, Zenon
  <2> QED BY <2>1, <2>3, <2>5, <2>6, Zenon DEF LinesRight
<1>8. CASE robot' = [r EXCEPT !.loop = "ended"] \/ robot' = [r EXCEPT !.attached = FALSE]
  <2>1. IsRobot(robot') /\ robot'.sockets = r.sockets /\ robot'.actors = r.actors
        /\ robot'.pipe = r.pipe /\ robot'.buffered = r.buffered /\ robot'.edge = r.edge
        /\ robot'.together = r.together /\ robot'.attached \in {r.attached, FALSE}
    BY <1>4, <1>8 DEF IsRobot
  <2> QED BY <1>5, <1>7, <2>1 DEF RobotInv, ActorsRight, LinesRight
<1>9. CASE robot' \in Parsed(r, command)
  <2>1. IsRobot(robot') /\ ActorsRight(robot') /\ SameLines(r, robot')
    BY <1>4, <1>5, <1>9, CommandKeeps
  <2> QED BY <1>7, <2>1 DEF RobotInv, LinesRight, SameLines
<1> QED BY <1>1, <1>8, <1>9

\* The events of a connection, and the messages of the gateway.
LEMMA ConnectionKeeps ==
  ASSUME RobotInv, NEW fd \in RobotFds,
         \/ OnConnected(fd) \/ SocketFails(fd) \/ OnClose(fd)
         \/ \E type \in Answers : OnMessage(fd, type)
  PROVE  RobotInv'
<1>1. CASE OnConnected(fd)
  <2>1. robot' = [robot EXCEPT !.sockets[fd] = "connected", !.actors = @ \cup {fd}]
    BY <1>1 DEF OnConnected
  <2>2. IsRobot(robot') /\ SameLines(robot, robot')
        /\ robot'.sockets = [robot.sockets EXCEPT ![fd] = "connected"]
        /\ robot'.actors = robot.actors \cup {fd}
    BY <2>1 DEF RobotInv, IsRobot, SameLines
  <2> DEFINE states == {"free", "connecting", "connected", "peer closed"}
  <2>3. robot.sockets \in [RobotFds -> states]
        /\ robot.actors = {x \in RobotFds : robot.sockets[x] = "connected"}
    BY DEF RobotInv, ActorsRight
  <2>4. robot'.sockets \in [RobotFds -> states]
        /\ \A x \in RobotFds : robot'.sockets[x] = IF x = fd THEN "connected" ELSE robot.sockets[x]
    BY <2>2, <2>3
  <2>5. robot'.actors = {x \in RobotFds : robot'.sockets[x] = "connected"}
    BY <2>2, <2>3, <2>4
  <2>6. ActorsRight(robot')
    BY <2>4, <2>5 DEF ActorsRight
  <2> QED BY <2>2, <2>6 DEF RobotInv, LinesRight, SameLines
<1>2. CASE SocketFails(fd)
  BY <1>2, FailKeeps DEF SocketFails, RobotInv, LinesRight, SameLines
<1>3. CASE OnClose(fd)
  <2>1. robot' = [robot EXCEPT !.sockets[fd] = "peer closed", !.actors = @ \ {fd}]
    BY <1>3 DEF OnClose
  <2>2. IsRobot(robot') /\ SameLines(robot, robot')
        /\ robot'.sockets = [robot.sockets EXCEPT ![fd] = "peer closed"]
        /\ robot'.actors = robot.actors \ {fd}
    BY <2>1 DEF RobotInv, IsRobot, SameLines
  <2>3. ActorsRight(robot')
    BY <2>2 DEF RobotInv, ActorsRight
  <2> QED BY <2>2, <2>3 DEF RobotInv, LinesRight, SameLines
<1>4. ASSUME NEW type \in Answers, OnMessage(fd, type) PROVE RobotInv'
  <2>1. robot' = robot \/ robot' = [robot EXCEPT !.shown = type]
    BY <1>4 DEF OnMessage, DispatchMessage, Show
  <2> QED BY <2>1 DEF RobotInv, IsRobot, ActorsRight, LinesRight
<1> QED BY <1>1, <1>2, <1>3, <1>4

\* The robot's actors are its connections, and lines that arrive one by one are all
\* handled (RobotApp::OnConnected, OnClose, OnError, OnReadCallback).
THEOREM RobotKeptCorrect == RobotSpec => []RobotKept
<1>1. ASSUME RobotInv, [RobotNext]_robot PROVE RobotInv'
  <2>1. ASSUME NEW c \in Commands, Type(<<c>>) PROVE RobotInv'
    BY <1>1, <2>1, TypeKeeps, <<c>> \in Seq(Commands)
  <2>2. ASSUME NEW c \in Commands, NEW d \in Commands, Type(<<c, d>>) PROVE RobotInv'
    BY <1>1, <2>2, TypeKeeps, <<c, d>> \in Seq(Commands)
  <2>3. CASE UNCHANGED robot
    BY <1>1, <2>3 DEF RobotInv
  <2> QED BY <1>1, <2>1, <2>2, <2>3, ReadCallbackKeeps, ConnectionKeeps DEF RobotNext
<1>2. RobotInv => RobotKept
  BY DEF RobotInv, ActorsRight, LinesRight, RobotKept
<1> QED BY <1>1, <1>2, RobotInvInit, PTL DEF RobotSpec

-----------------------------------------------------------------------------
(* The path finding (ScenePath), for any searches: its heap is the open set *)
(* of AStar.                                                               *)

\* A search as a record of its parts.
IsSearch(s) ==
  s = [walk |-> s.walk, begin |-> s.begin, end |-> s.end, list |-> s.list, size |-> s.size,
       at |-> s.at, closed |-> s.closed, g |-> s.g, f |-> s.f, parent |-> s.parent]

SearchTypes(s) ==
  /\ IsSearch(s)
  /\ s.walk \subseteq Int \X Int /\ s.end \in Int \X Int
  /\ s.list \in Seq(s.walk) /\ s.size \in 0..Len(s.list)
  /\ s.at \in [s.walk -> Nat] /\ s.closed \subseteq s.walk
  /\ s.g \in [s.walk -> Int] /\ s.f \in [s.walk -> Int]
  /\ s.parent \in [s.walk -> s.walk \cup {NoCell}]

OpenNodes(s) == {s.list[i] : i \in 1..s.size}
Cost(s, i) == s.f[s.list[i]]

\* Every node is on the list once and those behind the first know where.
Places(s) ==
  /\ \A i, j \in 1..s.size : s.list[i] = s.list[j] => i = j
  /\ \A i \in 2..s.size : s.at[s.list[i]] = i
  /\ \A c \in s.walk : s.at[c] # 0 <=> \E i \in 1..s.size : s.list[i] = c

\* The first may know the place it was moved from: then it is one of its own children's, or
\* that place is beyond the list and the node is still there.
FirstPlace(s) ==
  s.size > 0 =>
    /\ s.at[s.list[1]] \in 1..3 /\ s.at[s.list[1]] <= Len(s.list)
    /\ s.at[s.list[1]] > s.size => s.list[s.at[s.list[1]]] = s.list[1]

\* What the nodes on the list cost is in order, but for the node at i that is on its way
\* up, or down.
Costs(s) == [k \in 1..s.size |-> Cost(s, k)]
AboveIn(F, n, i) == \A j \in 2..n : j \div 2 = i /\ i >= 2 => F[i \div 2] <= F[j]
RisesIn(F, n, i) == (\A j \in 2..n : j # i => F[j \div 2] <= F[j]) /\ AboveIn(F, n, i)
FallsIn(F, n, i) == (\A j \in 2..n : j \div 2 # i => F[j \div 2] <= F[j]) /\ AboveIn(F, n, i)
SwapsIn(F, G, n, i, j) == \A k \in 1..n : G[k] = IF k = j THEN F[i] ELSE IF k = i THEN F[j] ELSE F[k]

RisesAt(s, i) == RisesIn(Costs(s), s.size, i)
FallsAt(s, i) == FallsIn(Costs(s), s.size, i)
Heap(s) == \A j \in 2..s.size : Cost(s, j \div 2) <= Cost(s, j)

\* What is open costs its way and the estimate.
CostsRight(s) == \A c \in OpenNodes(s) : s.f[c] = s.g[c] + HeuristicCostEstimate(c, s.end)

ListKept(s) == SearchTypes(s) /\ Places(s) /\ FirstPlace(s) /\ Heap(s)
SearchKept(s) == ListKept(s) /\ CostsRight(s)

\* Sorting moves nodes on the list only.
Sorted(s, t) ==
  /\ t.walk = s.walk /\ t.begin = s.begin /\ t.end = s.end /\ t.size = s.size
  /\ t.closed = s.closed /\ t.g = s.g /\ t.f = s.f /\ t.parent = s.parent
  /\ Len(t.list) = Len(s.list) /\ OpenNodes(t) = OpenNodes(s)

\* The root rounded down exists (HeursiticConstEstimate).
LEMMA EstimateIsInt ==
  ASSUME NEW c \in Int \X Int, NEW d \in Int \X Int
  PROVE  HeuristicCostEstimate(c, d) \in Int
<1> DEFINE x == c[1] - d[1]
           y == c[2] - d[2]
           square == 100 * (x * x + y * y)
           T == {k \in Nat : (k + 1) * (k + 1) > square}
<1>1. square \in Nat
  <2>1. x \in Int /\ y \in Int
    OBVIOUS
  <2> HIDE DEF x, y
  <2>2. \A z \in Int : z * z \in Nat
    OBVIOUS
  <2>3. x * x \in Nat /\ y * y \in Nat
    BY <2>1, <2>2
  <2> QED
    BY <2>3
<1> HIDE DEF square
<1>2. T # {} /\ T \subseteq Nat
  <2>1. (square + 1) * (square + 1) > square
    <3>1. (square + 1) * (square + 1) = square * square + square + square + 1 /\ square * square \in Nat
      BY <1>1
    <3> QED
      BY <1>1, <3>1
  <2> QED
    BY <1>1, <2>1
<1>3. PICK k \in T : \A m \in T : k <= m
  <2> HIDE DEF T
  <2> QED
    BY <1>2, LeastNat
<1>4. k \in Nat /\ (k + 1) * (k + 1) > square
  OBVIOUS
<1>5. k * k <= square
  <2>1. CASE k = 0
    BY <1>1, <2>1
  <2>2. CASE k # 0
    <3>1. k - 1 \in Nat /\ (k - 1) + 1 = k
      BY <1>4, <2>2
    <3>2. k - 1 \notin T
      BY <1>3, <1>4, <3>1
    <3>3. ~(k * k > square)
      BY <3>1, <3>2
    <3>4. k * k \in Int
      BY <1>4
    <3> QED
      BY <1>1, <3>3, <3>4
  <2> QED
    BY <2>1, <2>2
<1>6. k \in 0..square
  <2>1. k <= k * k /\ k * k \in Int
    <3>1. k = 0 \/ k * k = k + k * (k - 1)
      BY <1>4
    <3>2. k = 0 \/ k * (k - 1) >= 0
      BY <1>4
    <3> QED
      BY <1>4, <3>1, <3>2
  <2> QED
    BY <1>1, <1>4, <1>5, <2>1
<1>7. \E m \in 0..square : m * m <= square /\ (m + 1) * (m + 1) > square
  BY <1>4, <1>5, <1>6
<1>8. HeuristicCostEstimate(c, d) = CHOOSE m \in 0..square : m * m <= square /\ (m + 1) * (m + 1) > square
  BY Zenon DEF HeuristicCostEstimate, square, x, y
<1>9. HeuristicCostEstimate(c, d) \in 0..square
  <2> DEFINE h == CHOOSE m \in 0..square : m * m <= square /\ (m + 1) * (m + 1) > square
  <2>1. h \in 0..square
    BY <1>7, Zenon
  <2> QED
    BY <1>8, <2>1, Zenon
<1> QED
  BY <1>1, <1>9

\* The first of a heap costs least.
LEMMA FirstIsLeast ==
  ASSUME NEW n \in Nat, NEW F \in [1..n -> Int], NEW b \in Nat \ {0}, NEW v \in Int,
         \A j \in 1..n : j \in b..(2 * b - 1) => v <= F[j],
         \A j \in 1..n : j >= 2 * b => F[j \div 2] <= F[j]
  PROVE  \A j \in 1..n : j >= b => v <= F[j]
<1> DEFINE T == {m \in 0..n : \A j \in 1..n : j >= b /\ j <= m => v <= F[j]}
<1>1. 0 \in T
  OBVIOUS
<1>2. ASSUME NEW m \in 0..(n - 1), m \in T PROVE m + 1 \in T
  <2>1. ASSUME m + 1 >= b PROVE v <= F[m + 1]
    <3>1. CASE m + 1 < 2 * b
      BY <2>1, <3>1
    <3>2. CASE m + 1 >= 2 * b
      <4> DEFINE p == (m + 1) \div 2
      <4>1. p \in Int /\ p >= b /\ p <= m /\ p \in 1..n
        BY <3>2
      <4>2. F[p] <= F[m + 1]
        BY <3>2
      <4> HIDE DEF p
      <4>3. v <= F[p]
        BY <1>2, <4>1
      <4>4. F[p] \in Int /\ F[m + 1] \in Int
        BY <4>1
      <4> QED
        BY <4>2, <4>3, <4>4
    <3> QED
      BY <3>1, <3>2
  <2>2. ASSUME NEW j \in 1..n, j >= b, j <= m + 1 PROVE v <= F[j]
    <3>1. j = m + 1 \/ j <= m
      BY <2>2
    <3> QED
      BY <1>2, <2>1, <2>2, <3>1
  <2> QED
    BY <2>2
<1>3. n \in T
  <2> HIDE DEF T
  <2> QED
    BY <1>1, <1>2, Induction
<1> QED
  BY <1>3

-----------------------------------------------------------------------------
(* The loops, turn by turn. *)

LEMMA RisingIs ==
  ASSUME NEW s, NEW i, i \in Nat
  PROVE  Rising(s, i) = [k \in 0..i |-> IF k = 0 THEN [in |-> s, index |-> i] ELSE Rise(Rising(s, i)[k - 1])]
<1> DEFINE m == i
           Of(f, k) == IF k = 0 THEN [in |-> s, index |-> i] ELSE Rise(f[k - 1])
           Is(f, k) == f = [n \in 0..k |-> Of(f, n)]
           T == {k \in 0..m : \E f : Is(f, k)}
<1>0. m \in Nat
  OBVIOUS
<1>1. ASSUME NEW n, NEW f, NEW g, n # 0 => f[n - 1] = g[n - 1] PROVE Of(f, n) = Of(g, n)
  BY <1>1
<1>2. 0 \in T
  <2> DEFINE g == [n \in 0..0 |-> [in |-> s, index |-> i]]
  <2>1. \A n \in 0..0 : Of(g, n) = [in |-> s, index |-> i]
    OBVIOUS
  <2>2. g = [n \in 0..0 |-> Of(g, n)]
    BY <2>1, Zenon
  <2> HIDE DEF g, Of
  <2>3. Is(g, 0)
    BY <2>2
  <2> HIDE DEF Is, m
  <2> QED
    BY <1>0, <2>3
<1>3. ASSUME NEW k \in 0..(m - 1), k \in T PROVE k + 1 \in T
  <2> HIDE DEF Of
  <2>1. PICK f : Is(f, k)
    BY <1>3
  <2> DEFINE g == [n \in 0..(k + 1) |-> IF n = k + 1 THEN Of(f, n) ELSE f[n]]
  <2>2. \A n \in 0..k : g[n] = f[n] /\ f[n] = Of(f, n)
    <3>1. \A n \in 0..k : f[n] = Of(f, n)
      BY <2>1
    <3>2. \A n \in 0..k : n \in 0..(k + 1) /\ n # k + 1
      BY <1>0
    <3>3. \A n \in 0..k : g[n] = f[n]
      BY <3>2
    <3> QED
      BY <3>1, <3>3
  <2>3. g[k + 1] = Of(f, k + 1)
    OBVIOUS
  <2>4. g = [n \in 0..(k + 1) |-> g[n]]
    OBVIOUS
  <2> HIDE DEF g
  <2>5. ASSUME NEW n \in 0..(k + 1) PROVE g[n] = Of(g, n)
    <3>1. n # 0 => f[n - 1] = g[n - 1]
      BY <1>0, <2>2
    <3>2. Of(f, n) = Of(g, n)
      BY <1>1, <3>1
    <3> QED
      BY <1>0, <2>2, <2>3, <3>2
  <2>6. Is(g, k + 1)
    BY <2>4, <2>5
  <2> HIDE DEF Is, m
  <2> QED
    BY <1>0, <2>6
<1>4. \E f : Is(f, m)
  <2>1. m \in T
    <3> HIDE DEF T, m
    <3> QED
      BY <1>0, <1>2, <1>3, Induction
  <2> HIDE DEF Is
  <2> QED
    BY <2>1
<1> DEFINE t == CHOOSE f : f = [n \in 0..m |-> Of(f, n)]
<1>5. t = [n \in 0..m |-> Of(t, n)]
  BY <1>4, Zenon
<1>6. Rising(s, i) = t
  BY Zenon DEF Rising
<1> HIDE DEF t
<1> QED
  BY <1>5, <1>6

LEMMA FallingIs ==
  ASSUME NEW s, NEW i, s.size \in Nat
  PROVE  Falling(s, i) = [k \in 0..s.size |-> IF k = 0 THEN [in |-> s, index |-> i] ELSE Fall(Falling(s, i)[k - 1])]
<1> DEFINE m == s.size
           Of(f, k) == IF k = 0 THEN [in |-> s, index |-> i] ELSE Fall(f[k - 1])
           Is(f, k) == f = [n \in 0..k |-> Of(f, n)]
           T == {k \in 0..m : \E f : Is(f, k)}
<1>0. m \in Nat
  OBVIOUS
<1>1. ASSUME NEW n, NEW f, NEW g, n # 0 => f[n - 1] = g[n - 1] PROVE Of(f, n) = Of(g, n)
  BY <1>1
<1>2. 0 \in T
  <2> DEFINE g == [n \in 0..0 |-> [in |-> s, index |-> i]]
  <2>1. \A n \in 0..0 : Of(g, n) = [in |-> s, index |-> i]
    OBVIOUS
  <2>2. g = [n \in 0..0 |-> Of(g, n)]
    BY <2>1, Zenon
  <2> HIDE DEF g, Of
  <2>3. Is(g, 0)
    BY <2>2
  <2> HIDE DEF Is, m
  <2> QED
    BY <1>0, <2>3
<1>3. ASSUME NEW k \in 0..(m - 1), k \in T PROVE k + 1 \in T
  <2> HIDE DEF Of
  <2>1. PICK f : Is(f, k)
    BY <1>3
  <2> DEFINE g == [n \in 0..(k + 1) |-> IF n = k + 1 THEN Of(f, n) ELSE f[n]]
  <2>2. \A n \in 0..k : g[n] = f[n] /\ f[n] = Of(f, n)
    <3>1. \A n \in 0..k : f[n] = Of(f, n)
      BY <2>1
    <3>2. \A n \in 0..k : n \in 0..(k + 1) /\ n # k + 1
      BY <1>0
    <3>3. \A n \in 0..k : g[n] = f[n]
      BY <3>2
    <3> QED
      BY <3>1, <3>3
  <2>3. g[k + 1] = Of(f, k + 1)
    OBVIOUS
  <2>4. g = [n \in 0..(k + 1) |-> g[n]]
    OBVIOUS
  <2> HIDE DEF g
  <2>5. ASSUME NEW n \in 0..(k + 1) PROVE g[n] = Of(g, n)
    <3>1. n # 0 => f[n - 1] = g[n - 1]
      BY <1>0, <2>2
    <3>2. Of(f, n) = Of(g, n)
      BY <1>1, <3>1
    <3> QED
      BY <1>0, <2>2, <2>3, <3>2
  <2>6. Is(g, k + 1)
    BY <2>4, <2>5
  <2> HIDE DEF Is, m
  <2> QED
    BY <1>0, <2>6
<1>4. \E f : Is(f, m)
  <2>1. m \in T
    <3> HIDE DEF T, m
    <3> QED
      BY <1>0, <1>2, <1>3, Induction
  <2> HIDE DEF Is
  <2> QED
    BY <2>1
<1> DEFINE t == CHOOSE f : f = [n \in 0..m |-> Of(f, n)]
<1>5. t = [n \in 0..m |-> Of(t, n)]
  BY <1>4, Zenon
<1>6. Falling(s, i) = t
  BY Zenon DEF Falling
<1> HIDE DEF t
<1> QED
  BY <1>5, <1>6

LEMMA VisitingIs ==
  ASSUME NEW s, NEW c
  PROVE  Visiting(s, c) = [k \in 0..9 |-> IF k = 0 THEN s ELSE IF k \in DOMAIN GetNeighborNodes(s.walk, c)
                            THEN Visit(Visiting(s, c)[k - 1], c, GetNeighborNodes(s.walk, c)[k])
                            ELSE Visiting(s, c)[k - 1]]
<1> DEFINE m == 9
           nodes == GetNeighborNodes(s.walk, c)
           Of(f, k) == IF k = 0 THEN s ELSE IF k \in DOMAIN nodes THEN Visit(f[k - 1], c, nodes[k]) ELSE f[k - 1]
           Is(f, k) == f = [n \in 0..k |-> Of(f, n)]
           T == {k \in 0..m : \E f : Is(f, k)}
<1>0. m \in Nat
  OBVIOUS
<1>1. ASSUME NEW n, NEW f, NEW g, n # 0 => f[n - 1] = g[n - 1] PROVE Of(f, n) = Of(g, n)
  BY <1>1
<1>2. 0 \in T
  <2> DEFINE g == [n \in 0..0 |-> s]
  <2>1. \A n \in 0..0 : Of(g, n) = s
    OBVIOUS
  <2>2. g = [n \in 0..0 |-> Of(g, n)]
    BY <2>1, Zenon
  <2> HIDE DEF g, Of
  <2>3. Is(g, 0)
    BY <2>2
  <2> HIDE DEF Is, m
  <2> QED
    BY <1>0, <2>3
<1>3. ASSUME NEW k \in 0..(m - 1), k \in T PROVE k + 1 \in T
  <2> HIDE DEF Of
  <2>1. PICK f : Is(f, k)
    BY <1>3
  <2> DEFINE g == [n \in 0..(k + 1) |-> IF n = k + 1 THEN Of(f, n) ELSE f[n]]
  <2>2. \A n \in 0..k : g[n] = f[n] /\ f[n] = Of(f, n)
    <3>1. \A n \in 0..k : f[n] = Of(f, n)
      BY <2>1
    <3>2. \A n \in 0..k : n \in 0..(k + 1) /\ n # k + 1
      BY <1>0
    <3>3. \A n \in 0..k : g[n] = f[n]
      BY <3>2
    <3> QED
      BY <3>1, <3>3
  <2>3. g[k + 1] = Of(f, k + 1)
    OBVIOUS
  <2>4. g = [n \in 0..(k + 1) |-> g[n]]
    OBVIOUS
  <2> HIDE DEF g
  <2>5. ASSUME NEW n \in 0..(k + 1) PROVE g[n] = Of(g, n)
    <3>1. n # 0 => f[n - 1] = g[n - 1]
      BY <1>0, <2>2
    <3>2. Of(f, n) = Of(g, n)
      BY <1>1, <3>1
    <3> QED
      BY <1>0, <2>2, <2>3, <3>2
  <2>6. Is(g, k + 1)
    BY <2>4, <2>5
  <2> HIDE DEF Is, m
  <2> QED
    BY <1>0, <2>6
<1>4. \E f : Is(f, m)
  <2>1. m \in T
    <3> HIDE DEF T, m
    <3> QED
      BY <1>0, <1>2, <1>3, Induction
  <2> HIDE DEF Is
  <2> QED
    BY <2>1
<1> DEFINE t == CHOOSE f : f = [n \in 0..m |-> Of(f, n)]
<1>5. t = [n \in 0..m |-> Of(t, n)]
  BY <1>4, Zenon
<1>6. Visiting(s, c) = t
  BY Zenon DEF Visiting
<1> HIDE DEF t
<1> QED
  BY <1>5, <1>6

-----------------------------------------------------------------------------
(* Two nodes change places. *)

Swapped(s, i, j, t) ==
  /\ SearchTypes(t)
  /\ t.walk = s.walk /\ t.begin = s.begin /\ t.end = s.end /\ t.size = s.size
  /\ t.closed = s.closed /\ t.g = s.g /\ t.f = s.f /\ t.parent = s.parent
  /\ Len(t.list) = Len(s.list)
  /\ \A k \in 1..Len(s.list) : t.list[k] = IF k = j THEN s.list[i] ELSE IF k = i THEN s.list[j] ELSE s.list[k]
  /\ \A c \in s.walk : t.at[c] = IF c = s.list[j] THEN i ELSE IF c = s.list[i] THEN j ELSE s.at[c]

LEMMA SwapIs ==
  ASSUME NEW s, SearchTypes(s), NEW i \in 1..Len(s.list), NEW j \in 1..Len(s.list),
         NEW t, t = SwapNodes(s, i, j)
  PROVE  Swapped(s, i, j, t)
<1> DEFINE list == [s.list EXCEPT ![i] = s.list[j], ![j] = s.list[i]]
           at == [s.at EXCEPT ![s.list[i]] = j, ![s.list[j]] = i]
<1>1. /\ IsSearch(s) /\ s.list \in Seq(s.walk) /\ s.at \in [s.walk -> Nat]
  BY Zenon DEF SearchTypes
<1>2. Len(s.list) \in Nat /\ s.list \in [1..Len(s.list) -> s.walk]
  BY <1>1, LenProperties
<1>3. s.list[i] \in s.walk /\ s.list[j] \in s.walk /\ i \in Nat /\ j \in Nat
  BY <1>2
<1>4. list \in [1..Len(s.list) -> s.walk]
      /\ \A k \in 1..Len(s.list) : list[k] = IF k = j THEN s.list[i] ELSE IF k = i THEN s.list[j] ELSE s.list[k]
  BY <1>2, <1>3
<1>5. at \in [s.walk -> Nat]
      /\ \A c \in s.walk : at[c] = IF c = s.list[j] THEN i ELSE IF c = s.list[i] THEN j ELSE s.at[c]
  BY <1>1, <1>3
<1>6. t = [s EXCEPT !.list = list, !.at = at]
  BY Zenon DEF SwapNodes
<1> HIDE DEF list, at
<1>7. list \in Seq(s.walk) /\ Len(list) = Len(s.list)
  <2>1. PICK n, L, W : n = Len(s.list) /\ L = list /\ W = s.walk
    OBVIOUS
  <2>2. n \in Nat /\ L \in [1..n -> W]
    BY <1>2, <1>4, <2>1
  <2>3. L \in Seq(W)
    BY <2>2, SeqDef
  <2>4. Len(L) \in Nat /\ DOMAIN L = 1..Len(L) /\ DOMAIN L = 1..n
    BY <2>2, <2>3, LenProperties
  <2>5. Len(L) = n
    BY <2>2, <2>4
  <2> QED
    BY <2>1, <2>3, <2>5
<1>8. /\ IsSearch(t) /\ t.list = list /\ t.at = at
      /\ t.walk = s.walk /\ t.begin = s.begin /\ t.end = s.end /\ t.size = s.size
      /\ t.closed = s.closed /\ t.g = s.g /\ t.f = s.f /\ t.parent = s.parent
  BY <1>1, <1>6 DEF IsSearch
<1>9. SearchTypes(t)
  <2>1. s.walk \subseteq Int \X Int /\ s.end \in Int \X Int /\ s.size \in 0..Len(s.list)
        /\ s.closed \subseteq s.walk /\ s.g \in [s.walk -> Int] /\ s.f \in [s.walk -> Int]
        /\ s.parent \in [s.walk -> s.walk \cup {NoCell}]
    BY Zenon DEF SearchTypes
  <2> QED
    BY <1>5, <1>7, <1>8, <2>1, Zenon DEF SearchTypes
<1> QED
  BY <1>4, <1>5, <1>7, <1>8, <1>9, Zenon DEF Swapped

\* What the list of a search is made of.
LEMMA ListIs ==
  ASSUME NEW s, SearchTypes(s)
  PROVE  /\ Len(s.list) \in Nat /\ s.size \in Nat /\ s.size <= Len(s.list)
         /\ 1..s.size \subseteq 1..Len(s.list)
         /\ \A k \in 1..Len(s.list) : s.list[k] \in s.walk
         /\ \A k \in 1..Len(s.list) : Cost(s, k) \in Int
<1>1. s.list \in Seq(s.walk) /\ s.size \in 0..Len(s.list) /\ s.f \in [s.walk -> Int]
  BY Zenon DEF SearchTypes
<1>2. Len(s.list) \in Nat /\ s.list \in [1..Len(s.list) -> s.walk]
  BY <1>1, LenProperties
<1> DEFINE m == Len(s.list)
           n == s.size
<1>3. m \in Nat /\ n \in 0..m
  BY <1>1, <1>2
<1> HIDE DEF m, n
<1>4. n \in Nat /\ n <= m /\ 1..n \subseteq 1..m
  BY <1>3
<1> QED
  BY <1>1, <1>2, <1>4 DEF m, n, Cost

LEMMA CostsAre ==
  ASSUME NEW s, SearchTypes(s)
  PROVE  Costs(s) \in [1..s.size -> Int] /\ s.size \in Nat
<1>1. s.size \in Nat /\ \A k \in 1..s.size : Cost(s, k) \in Int
  BY ListIs
<1> QED
  BY <1>1 DEF Costs

\* Nodes of the list that change places know where they are.
LEMMA SwapKeeps ==
  ASSUME NEW s, SearchTypes(s), Places(s), NEW i \in 1..s.size, NEW j \in 1..s.size, i < j,
         NEW t, t = SwapNodes(s, i, j)
  PROVE  /\ SearchTypes(t) /\ Places(t) /\ Sorted(s, t)
         /\ i = 1 \/ FirstPlace(s) => FirstPlace(t)
         /\ SwapsIn(Costs(s), Costs(t), s.size, i, j)
         /\ Costs(t) \in [1..s.size -> Int]
<1>1. PICK n, m, L, A, old : /\ n = s.size /\ m = Len(s.list) /\ L = t.list /\ A = t.at /\ old = s.list
  OBVIOUS
<1>2. n \in Nat /\ m \in Nat /\ n <= m /\ i \in 1..n /\ j \in 1..n /\ 1..n \subseteq 1..m /\ i \in 1..m /\ j \in 1..m
      /\ i # j /\ i \in Nat /\ j \in Nat
  BY <1>1, ListIs
<1>3. /\ SearchTypes(t)
      /\ t.walk = s.walk /\ t.begin = s.begin /\ t.end = s.end /\ t.size = s.size
      /\ t.closed = s.closed /\ t.g = s.g /\ t.f = s.f /\ t.parent = s.parent
      /\ Len(t.list) = Len(s.list)
      /\ \A k \in 1..m : L[k] = IF k = j THEN old[i] ELSE IF k = i THEN old[j] ELSE old[k]
      /\ \A c \in s.walk : A[c] = IF c = old[j] THEN i ELSE IF c = old[i] THEN j ELSE s.at[c]
  <2>1. i \in 1..Len(s.list) /\ j \in 1..Len(s.list)
    BY <1>1, <1>2
  <2>2. Swapped(s, i, j, t)
    BY <2>1, SwapIs
  <2> QED
    BY <1>1, <2>2 DEF Swapped
<1>4. \A k \in 1..m : old[k] \in s.walk
  BY <1>1, ListIs
<1>5. /\ \A k, l \in 1..n : old[k] = old[l] => k = l
      /\ \A k \in 2..n : s.at[old[k]] = k
      /\ \A c \in s.walk : s.at[c] # 0 <=> \E k \in 1..n : old[k] = c
  BY <1>1, Zenon DEF Places
<1>6. \A k, l \in 1..n : L[k] = L[l] => k = l
  BY <1>2, <1>3, <1>5
<1>7. \A k \in 2..n : A[L[k]] = k
  <2> SUFFICES ASSUME NEW k \in 2..n PROVE A[L[k]] = k
    OBVIOUS
  <2>1. k \in 1..n /\ k \in 1..m /\ old[i] # old[j]
    BY <1>2, <1>5
  <2>2. CASE k = j
    BY <1>2, <1>3, <1>4, <2>1, <2>2
  <2>3. CASE k = i
    BY <1>2, <1>3, <1>4, <2>1, <2>3
  <2>4. CASE k # i /\ k # j
    <3>1. L[k] = old[k] /\ old[k] # old[i] /\ old[k] # old[j] /\ old[k] \in s.walk
      BY <1>2, <1>3, <1>4, <1>5, <2>1, <2>4
    <3> QED
      BY <1>3, <1>5, <3>1
  <2> QED
    BY <2>2, <2>3, <2>4
<1>8. \A c : (\E k \in 1..n : L[k] = c) <=> (\E k \in 1..n : old[k] = c)
  <2>1. L[i] = old[j] /\ L[j] = old[i] /\ \A k \in 1..n : k # i /\ k # j => L[k] = old[k]
    BY <1>2, <1>3
  <2> QED
    BY <1>2, <2>1
<1>9. \A c \in s.walk : A[c] # 0 <=> \E k \in 1..n : L[k] = c
  <2> SUFFICES ASSUME NEW c \in s.walk PROVE A[c] # 0 <=> \E k \in 1..n : old[k] = c
    BY <1>8
  <2>1. CASE c = old[i] \/ c = old[j]
    <3>1. A[c] # 0
      BY <1>2, <1>3, <2>1
    <3> QED
      BY <1>2, <2>1, <3>1
  <2>2. CASE c # old[i] /\ c # old[j]
    BY <1>3, <1>5, <2>2
  <2> QED
    BY <2>1, <2>2
<1>10. Places(t)
  <2>1. t.size = n /\ t.list = L /\ t.at = A /\ t.walk = s.walk
    BY <1>1, <1>3
  <2> QED
    BY <1>6, <1>7, <1>9, <2>1 DEF Places
<1>11. OpenNodes(t) = OpenNodes(s)
  <2>1. OpenNodes(t) = {L[k] : k \in 1..n} /\ OpenNodes(s) = {old[k] : k \in 1..n}
    <3>1. t.size = n /\ t.list = L /\ s.size = n /\ s.list = old
      BY <1>1, <1>3
    <3> QED
      BY <3>1, Zenon DEF OpenNodes
  <2>2. \A c : c \in {L[k] : k \in 1..n} <=> c \in {old[k] : k \in 1..n}
    <3>1. \A c : c \in {L[k] : k \in 1..n} <=> \E k \in 1..n : L[k] = c
      OBVIOUS
    <3>2. \A c : c \in {old[k] : k \in 1..n} <=> \E k \in 1..n : old[k] = c
      OBVIOUS
    <3> QED
      BY <1>8, <3>1, <3>2, Zenon
  <2> QED
    BY <2>1, <2>2
<1>12. ASSUME i = 1 \/ FirstPlace(s) PROVE FirstPlace(t)
  <2>1. CASE i = 1
    <3>1. L[1] = old[j] /\ A[old[j]] = 1 /\ n > 0
      BY <1>2, <1>3, <1>4, <2>1
    <3>2. A[L[1]] \in 1..3 /\ A[L[1]] <= m /\ ~(A[L[1]] > n)
      BY <1>2, <3>1
    <3> QED
      BY <1>1, <1>3, <3>2, Zenon DEF FirstPlace
  <2>2. CASE i # 1
    <3>1. 1 \in 1..m /\ 1 \in 1..n /\ j # 1 /\ n > 0
      BY <1>2, <2>2
    <3>2. L[1] = old[1] /\ old[1] # old[i] /\ old[1] # old[j]
      BY <1>2, <1>3, <1>5, <2>2, <3>1
    <3>3. A[L[1]] = s.at[old[1]]
      BY <1>3, <1>4, <3>1, <3>2
    <3>4. PICK k : k = s.at[old[1]] /\ k \in 1..3 /\ k <= m /\ (k > n => old[k] = old[1])
      BY <1>1, <1>12, <2>2, <3>1 DEF FirstPlace
    <3>5. k > n => L[k] = L[1]
      <4>1. k > n => k \in 1..m /\ k # i /\ k # j
        BY <1>2, <3>4
      <4> QED
        BY <1>3, <3>2, <3>4, <4>1
    <3>6. A[L[1]] = k
      BY <3>3, <3>4
    <3> QED
      BY <1>1, <1>3, <3>4, <3>5, <3>6, Zenon DEF FirstPlace
  <2> QED
    BY <2>1, <2>2
<1>13. SwapsIn(Costs(s), Costs(t), n, i, j)
  <2>1. \A k \in 1..n : Cost(t, k) = IF k = j THEN Cost(s, i) ELSE IF k = i THEN Cost(s, j) ELSE Cost(s, k)
    BY <1>1, <1>2, <1>3 DEF Cost
  <2> QED
    BY <1>1, <1>2, <1>3, <2>1 DEF Costs, SwapsIn
<1>14. Costs(t) \in [1..n -> Int]
  BY <1>1, <1>3, CostsAre
<1>15. Sorted(s, t)
  BY <1>3, <1>11, Zenon DEF Sorted
<1> QED
  BY <1>1, <1>3, <1>10, <1>12, <1>13, <1>14, <1>15, Zenon

-----------------------------------------------------------------------------
(* A turn of the loops: the place that is out of order moves, and order remains elsewhere. *)

RisesTo(n, F, G, i, b) ==
  /\ n \in Nat /\ F \in [1..n -> Int] /\ G \in [1..n -> Int] /\ i \in 2..n /\ b = i \div 2
  /\ F[i] <= F[b] /\ SwapsIn(F, G, n, b, i) /\ RisesIn(F, n, i)

LEMMA RiseOrder ==
  ASSUME NEW n, NEW F, NEW G, NEW i, NEW b, RisesTo(n, F, G, i, b)
  PROVE  RisesIn(G, n, b)
<1> n \in Nat /\ F \in [1..n -> Int] /\ G \in [1..n -> Int] /\ i \in 2..n /\ b = i \div 2 /\ F[i] <= F[b]
  BY DEF RisesTo
<1>0. /\ \A k \in 1..n : G[k] = IF k = i THEN F[b] ELSE IF k = b THEN F[i] ELSE F[k]
      /\ \A j \in 2..n : j # i => F[j \div 2] <= F[j]
      /\ \A j \in 2..n : j \div 2 = i => F[b] <= F[j]
  BY DEF RisesTo, SwapsIn, RisesIn, AboveIn
<1>1. b \in 1..n /\ b < i /\ b # i
  OBVIOUS
<1>2. ASSUME NEW j \in 2..n, j # b PROVE G[j \div 2] <= G[j]
  <2>1. PICK h : h = j \div 2
    OBVIOUS
  <2>2. h \in 1..n /\ h < j /\ j \in 1..n
    BY <2>1
  <2>3. CASE j = i
    BY <1>0, <1>1, <2>1, <2>2, <2>3
  <2>4. CASE j # i /\ h = i
    <3>1. F[b] <= F[j] /\ G[h] = F[b] /\ G[j] = F[j]
      BY <1>0, <1>1, <1>2, <2>1, <2>2, <2>4
    <3> QED
      BY <2>1, <3>1
  <2>5. CASE j # i /\ h = b
    <3>1. F[b] <= F[j] /\ G[h] = F[i] /\ G[j] = F[j]
      BY <1>0, <1>1, <1>2, <2>1, <2>2, <2>5
    <3>2. F[b] \in Int /\ F[j] \in Int /\ F[i] \in Int
      BY <1>0, <1>1, <2>2
    <3> QED
      BY <2>1, <3>1, <3>2
  <2>6. CASE j # i /\ h # i /\ h # b
    <3>1. F[h] <= F[j] /\ G[h] = F[h] /\ G[j] = F[j]
      BY <1>0, <1>1, <1>2, <2>1, <2>2, <2>6
    <3> QED
      BY <2>1, <3>1
  <2> QED
    BY <2>3, <2>4, <2>5, <2>6
<1>3. ASSUME NEW j \in 2..n, j \div 2 = b, b >= 2 PROVE G[b \div 2] <= G[j]
  <2>1. PICK h : h = b \div 2
    OBVIOUS
  <2>2. h \in 1..n /\ h # b /\ h # i /\ b \in 2..n /\ j \in 1..n /\ j # b
    BY <1>0, <1>1, <1>3, <2>1
  <2>3. G[h] = F[h] /\ F[h] <= F[b]
    BY <1>0, <1>1, <2>1, <2>2
  <2>4. CASE j = i
    BY <1>0, <1>1, <2>1, <2>2, <2>3, <2>4
  <2>5. CASE j # i
    <3>1. F[b] <= F[j] /\ G[j] = F[j]
      BY <1>0, <1>3, <2>2, <2>5
    <3>2. F[b] \in Int /\ F[j] \in Int /\ F[h] \in Int
      BY <2>2
    <3> QED
      BY <2>1, <2>3, <3>1, <3>2
  <2> QED
    BY <2>4, <2>5
<1> QED
  BY <1>2, <1>3 DEF RisesIn, AboveIn

FallsTo(n, F, G, i, c) ==
  /\ n \in Nat /\ F \in [1..n -> Int] /\ G \in [1..n -> Int] /\ i \in 1..n /\ c \in 1..n
  /\ c \div 2 = i /\ F[c] <= F[i] /\ (\A j \in 2..n : j \div 2 = i => F[c] <= F[j])
  /\ SwapsIn(F, G, n, i, c) /\ FallsIn(F, n, i)

LEMMA FallOrder ==
  ASSUME NEW n, NEW F, NEW G, NEW i, NEW c, FallsTo(n, F, G, i, c)
  PROVE  FallsIn(G, n, c)
<1> /\ n \in Nat /\ F \in [1..n -> Int] /\ G \in [1..n -> Int] /\ i \in 1..n /\ c \in 1..n
    /\ c \div 2 = i /\ F[c] <= F[i] /\ \A j \in 2..n : j \div 2 = i => F[c] <= F[j]
  BY DEF FallsTo
<1>0. /\ \A k \in 1..n : G[k] = IF k = c THEN F[i] ELSE IF k = i THEN F[c] ELSE F[k]
      /\ \A j \in 2..n : j \div 2 # i => F[j \div 2] <= F[j]
      /\ \A j \in 2..n : j \div 2 = i /\ i >= 2 => F[i \div 2] <= F[j]
  BY DEF FallsTo, SwapsIn, FallsIn, AboveIn
<1>1. c \in 2..n /\ i < c /\ i # c
  OBVIOUS
<1>2. ASSUME NEW j \in 2..n, j \div 2 # c PROVE G[j \div 2] <= G[j]
  <2>1. PICK h : h = j \div 2
    OBVIOUS
  <2>2. h \in 1..n /\ h < j /\ h # c /\ j \in 1..n
    BY <1>2, <2>1
  <2>3. CASE j = c
    BY <1>0, <1>1, <2>1, <2>2, <2>3
  <2>4. CASE j # c /\ h = i
    <3>1. F[c] <= F[j] /\ G[h] = F[c] /\ G[j] = F[j]
      BY <1>0, <1>1, <2>1, <2>2, <2>4
    <3> QED
      BY <2>1, <3>1
  <2>5. CASE j = i
    <3>1. i >= 2 /\ c \in 2..n /\ h = i \div 2 /\ c \div 2 = i
      BY <1>1, <2>1, <2>5
    <3>2. F[i \div 2] <= F[c]
      BY <1>0, <3>1
    <3>3. G[h] = F[h] /\ G[j] = F[c]
      BY <1>0, <1>1, <2>2, <2>5
    <3> QED
      BY <2>1, <3>1, <3>2, <3>3
  <2>6. CASE j # c /\ j # i /\ h # i
    <3>1. F[h] <= F[j] /\ G[h] = F[h] /\ G[j] = F[j]
      BY <1>0, <1>1, <2>1, <2>2, <2>6
    <3> QED
      BY <2>1, <3>1
  <2> QED
    BY <2>3, <2>4, <2>5, <2>6
<1>3. ASSUME NEW j \in 2..n, j \div 2 = c PROVE G[c \div 2] <= G[j]
  <2>1. j \in 1..n /\ j # c /\ j # i
    BY <1>0, <1>1, <1>3
  <2>2. G[i] = F[c] /\ G[j] = F[j] /\ F[c] <= F[j]
    BY <1>0, <1>1, <1>3, <2>1
  <2> QED
    BY <2>2
<1> QED
  BY <1>1, <1>2, <1>3 DEF FallsIn, AboveIn

\* Sorting keeps what holds of the nodes and their places.
Kept(s, t) == SearchTypes(t) /\ Places(t) /\ Sorted(s, t)

LEMMA RiseKeeps ==
  ASSUME NEW s, SearchTypes(s), Places(s), FirstPlace(s), NEW i \in 1..s.size, RisesAt(s, i),
         NEW pos, pos = [in |-> s, index |-> i], NEW p, p = Rise(pos), p # pos
  PROVE  /\ Kept(s, p.in) /\ FirstPlace(p.in)
         /\ p = [in |-> p.in, index |-> p.index] /\ p.index \in 1..s.size /\ p.index <= i - 1
         /\ RisesAt(p.in, p.index)
<1>1. PICK n, b, t : n = s.size /\ b = i \div 2 /\ t = SwapNodes(s, b, i)
  OBVIOUS
<1>2. n \in Nat /\ 1..n \subseteq 1..Len(s.list)
  BY <1>1, ListIs
<1>3. p = [in |-> t, index |-> b] /\ b # 0 /\ ~Less(s, b, i)
  <2>1. pos.in = s /\ pos.index = i
    OBVIOUS
  <2> QED
    BY <1>1, <2>1 DEF Rise
<1>4. i \in 2..n /\ b \in 1..n /\ b < i /\ b <= i - 1
  BY <1>1, <1>2, <1>3
<1>5. /\ SearchTypes(t) /\ Places(t) /\ Sorted(s, t) /\ FirstPlace(t)
      /\ SwapsIn(Costs(s), Costs(t), n, b, i) /\ Costs(t) \in [1..n -> Int]
  BY <1>1, <1>4, SwapKeeps
<1>6. Costs(s) \in [1..n -> Int] /\ t.size = n
  BY <1>1, <1>5, CostsAre DEF Sorted
<1>7. Costs(s)[i] <= Costs(s)[b]
  <2>1. Costs(s)[i] = Cost(s, i) /\ Costs(s)[b] = Cost(s, b) /\ Costs(s)[i] \in Int /\ Costs(s)[b] \in Int
    <3>1. Costs(s)[i] = Cost(s, i) /\ Costs(s)[b] = Cost(s, b)
      BY <1>1, <1>4 DEF Costs
    <3> QED
      BY <1>4, <1>6, <3>1
  <2>2. ~(Cost(s, b) < Cost(s, i))
    BY <1>3 DEF Less, Cost
  <2> QED
    BY <2>1, <2>2
<1>8. RisesIn(Costs(t), n, b)
  <2>1. RisesIn(Costs(s), n, i)
    BY <1>1 DEF RisesAt
  <2>2. PICK F, G : F = Costs(s) /\ G = Costs(t)
    OBVIOUS
  <2>3. F \in [1..n -> Int] /\ G \in [1..n -> Int] /\ F[i] <= F[b] /\ SwapsIn(F, G, n, b, i) /\ RisesIn(F, n, i)
    BY <1>5, <1>6, <1>7, <2>1, <2>2
  <2>4. n \in Nat /\ i \in 2..n /\ b = i \div 2
    BY <1>1, <1>2, <1>4
  <2>5. RisesIn(G, n, b)
    <3>1. RisesTo(n, F, G, i, b)
      BY <2>3, <2>4, Zenon DEF RisesTo
    <3> QED
      BY <3>1, RiseOrder, Zenon
  <2> QED
    BY <2>2, <2>5, Zenon
<1>9. p.in = t /\ p.index = b
  BY <1>3
<1> QED
  BY <1>1, <1>3, <1>4, <1>5, <1>6, <1>8, <1>9 DEF Kept, RisesAt

LEMMA FallKeeps ==
  ASSUME NEW s, SearchTypes(s), Places(s), NEW i \in 1..s.size, FallsAt(s, i), i = 1 \/ FirstPlace(s),
         NEW pos, pos = [in |-> s, index |-> i], NEW p, p = Fall(pos), p # pos
  PROVE  /\ Kept(s, p.in) /\ FirstPlace(p.in)
         /\ p = [in |-> p.in, index |-> p.index] /\ p.index \in 1..s.size /\ p.index >= i + 1
         /\ FallsAt(p.in, p.index)
<1>1. PICK n, c, t : /\ n = s.size /\ t = SwapNodes(s, i, c)
                     /\ c = IF 2 * i + 1 <= n /\ Less(s, 2 * i + 1, 2 * i) THEN 2 * i + 1 ELSE 2 * i
  OBVIOUS
<1>2. n \in Nat /\ 1..n \subseteq 1..Len(s.list) /\ i \in 1..n
  BY <1>1, ListIs
<1>3. p = [in |-> t, index |-> c] /\ 2 * i <= n /\ ~Less(s, i, c)
  <2>1. pos.in = s /\ pos.index = i
    OBVIOUS
  <2>2. pos.in.size = n
    BY <1>1, <2>1
  <2>3. p = IF 2 * i > n \/ Less(s, i, c) THEN pos ELSE [in |-> t, index |-> c]
    BY <1>1, <2>1, <2>2, Zenon DEF Fall
  <2> QED
    BY <1>2, <2>3
<1>4. c \in {2 * i, 2 * i + 1} /\ c \in 1..n /\ i < c /\ c >= i + 1 /\ c \div 2 = i
  <2>1. c = 2 * i \/ (c = 2 * i + 1 /\ 2 * i + 1 <= n)
    BY <1>1, Zenon
  <2>2. 2 * i <= n /\ n \in Nat /\ i \in 1..n
    BY <1>2, <1>3
  <2> QED
    BY <2>1, <2>2
<1>5. /\ SearchTypes(t) /\ Places(t) /\ Sorted(s, t) /\ FirstPlace(t)
      /\ SwapsIn(Costs(s), Costs(t), n, i, c) /\ Costs(t) \in [1..n -> Int]
  BY <1>1, <1>2, <1>4, SwapKeeps
<1>6. Costs(s) \in [1..n -> Int] /\ t.size = n
  BY <1>1, <1>5, CostsAre DEF Sorted
<1>7. \A k \in 1..n : Costs(s)[k] = Cost(s, k) /\ Cost(s, k) \in Int
  <2>1. \A k \in 1..n : Costs(s)[k] = Cost(s, k)
    BY <1>1 DEF Costs
  <2> QED
    BY <1>6, <2>1
<1>8. Cost(s, c) <= Cost(s, i)
  <2>1. ~(Cost(s, i) < Cost(s, c))
    BY <1>3 DEF Less, Cost
  <2> QED
    BY <1>2, <1>4, <1>7, <2>1
<1>9. ASSUME NEW j \in 2..n, j \div 2 = i PROVE Cost(s, c) <= Cost(s, j)
  <2>1. j \in {2 * i, 2 * i + 1} /\ j \in 1..n
    BY <1>2, <1>9
  <2>2. CASE j = c
    BY <1>7, <2>1, <2>2
  <2>3. CASE j # c /\ j = 2 * i
    <3>1. c = 2 * i + 1 /\ Less(s, c, j)
      BY <1>1, <1>2, <1>4, <2>3
    <3>2. Cost(s, c) < Cost(s, j)
      BY <3>1 DEF Less, Cost
    <3> QED
      BY <1>4, <1>7, <2>1, <3>2
  <2>4. CASE j # c /\ j = 2 * i + 1
    <3>1. c = 2 * i /\ ~Less(s, j, c)
      BY <1>1, <1>2, <1>4, <2>1, <2>4
    <3>2. ~(Cost(s, j) < Cost(s, c))
      BY <3>1 DEF Less, Cost
    <3> QED
      BY <1>4, <1>7, <2>1, <3>2
  <2> QED
    BY <2>1, <2>2, <2>3, <2>4
<1>10. FallsIn(Costs(t), n, c)
  <2>1. FallsIn(Costs(s), n, i)
    BY <1>1 DEF FallsAt
  <2>2. PICK F, G : F = Costs(s) /\ G = Costs(t)
    OBVIOUS
  <2>3. F[c] <= F[i] /\ \A j \in 2..n : j \div 2 = i => F[c] <= F[j]
    <3>1. \A j \in 2..n : j \in 1..n
      OBVIOUS
    <3> QED
      BY <1>2, <1>4, <1>7, <1>8, <1>9, <2>2, <3>1
  <2>4. FallsTo(n, F, G, i, c)
    BY <1>2, <1>4, <1>5, <1>6, <2>1, <2>2, <2>3, Zenon DEF FallsTo
  <2> QED
    BY <2>2, <2>4, FallOrder, Zenon
<1>11. p.in = t /\ p.index = c
  BY <1>3
<1> QED
  BY <1>1, <1>3, <1>4, <1>5, <1>6, <1>10, <1>11 DEF Kept, FallsAt

-----------------------------------------------------------------------------
(* The loops: a list that is in order but for a place is in order after them. *)

LEMMA KeptOn ==
  ASSUME NEW s, NEW t, NEW u, Kept(s, t), Kept(t, u)
  PROVE  Kept(s, u)
BY DEF Kept, Sorted

LEMMA KeptAll ==
  ASSUME NEW s, SearchTypes(s), Places(s)
  PROVE  Kept(s, s)
BY DEF Kept, Sorted

LEMMA KeptSize ==
  ASSUME NEW s, NEW t, Kept(s, t)
  PROVE  t.size = s.size /\ SearchTypes(t) /\ Places(t)
BY DEF Kept, Sorted

\* A place is in order when it does not rise, or fall.
LEMMA RiseEnds ==
  ASSUME NEW s, SearchTypes(s), NEW i \in 1..s.size, RisesAt(s, i), NEW pos, pos = [in |-> s, index |-> i],
         Rise(pos) = pos
  PROVE  Heap(s)
<1>1. PICK n, b, t : n = s.size /\ b = i \div 2 /\ t = SwapNodes(s, b, i)
  OBVIOUS
<1>2. n \in Nat /\ i \in 1..n /\ \A k \in 1..n : Costs(s)[k] = Cost(s, k) /\ Cost(s, k) \in Int
  <2>1. Costs(s) \in [1..n -> Int] /\ n \in Nat
    BY <1>1, CostsAre
  <2>2. \A k \in 1..n : Costs(s)[k] = Cost(s, k)
    BY <1>1 DEF Costs
  <2> QED
    BY <1>1, <2>1, <2>2
<1>3. b = 0 \/ Less(s, b, i)
  <2>1. pos.in = s /\ pos.index = i
    OBVIOUS
  <2>2. pos = IF b = 0 \/ Less(s, b, i) THEN pos ELSE [in |-> t, index |-> b]
    BY <1>1, <2>1, Zenon DEF Rise
  <2>3. b # i
    BY <1>1, <1>2
  <2> QED
    BY <2>2, <2>3
<1>4. ASSUME NEW j \in 2..n PROVE Cost(s, j \div 2) <= Cost(s, j)
  <2>1. j \div 2 \in 1..n /\ j \in 1..n
    BY <1>2
  <2>2. CASE j = i
    <3>1. Cost(s, b) < Cost(s, i)
      BY <1>1, <1>2, <1>3, <2>2 DEF Less, Cost
    <3> QED
      BY <1>1, <1>2, <2>1, <2>2, <3>1
  <2>3. CASE j # i
    <3>1. Costs(s)[j \div 2] <= Costs(s)[j]
      BY <1>1, <2>3 DEF RisesAt, RisesIn
    <3> QED
      BY <1>2, <2>1, <3>1
  <2> QED
    BY <2>2, <2>3
<1> QED
  BY <1>1, <1>4 DEF Heap

LEMMA FallEnds ==
  ASSUME NEW s, SearchTypes(s), NEW i \in 1..s.size, FallsAt(s, i), NEW pos, pos = [in |-> s, index |-> i],
         Fall(pos) = pos
  PROVE  Heap(s)
<1>1. PICK n, c, t : /\ n = s.size /\ t = SwapNodes(s, i, c)
                     /\ c = IF 2 * i + 1 <= n /\ Less(s, 2 * i + 1, 2 * i) THEN 2 * i + 1 ELSE 2 * i
  OBVIOUS
<1>2. n \in Nat /\ i \in 1..n /\ \A k \in 1..n : Costs(s)[k] = Cost(s, k) /\ Cost(s, k) \in Int
  <2>1. Costs(s) \in [1..n -> Int] /\ n \in Nat
    BY <1>1, CostsAre
  <2>2. \A k \in 1..n : Costs(s)[k] = Cost(s, k)
    BY <1>1 DEF Costs
  <2> QED
    BY <1>1, <2>1, <2>2
<1>3. 2 * i > n \/ Less(s, i, c)
  <2>1. pos.in = s /\ pos.index = i
    OBVIOUS
  <2>2. pos.in.size = n
    BY <1>1, <2>1
  <2>3. pos = IF 2 * i > n \/ Less(s, i, c) THEN pos ELSE [in |-> t, index |-> c]
    BY <1>1, <2>1, <2>2, Zenon DEF Fall
  <2>4. c = 2 * i \/ c = 2 * i + 1
    BY <1>1, Zenon
  <2>5. c # i
    BY <1>2, <2>4
  <2> QED
    BY <2>3, <2>5
<1>4. ASSUME NEW j \in 2..n PROVE Cost(s, j \div 2) <= Cost(s, j)
  <2>1. j \div 2 \in 1..n /\ j \in 1..n
    BY <1>2
  <2>2. CASE j \div 2 = i
    <3>1. j \in {2 * i, 2 * i + 1} /\ 2 * i <= n
      BY <1>2, <2>2
    <3>2. Cost(s, i) < Cost(s, c)
      BY <1>2, <1>3, <3>1 DEF Less, Cost
    <3>3. c = j \/ (c = 2 * i /\ j = 2 * i + 1 /\ ~Less(s, j, c)) \/ (c = 2 * i + 1 /\ j = 2 * i /\ Less(s, c, j))
      BY <1>1, <1>2, <2>1, <3>1
    <3>4. c \in 1..n
      BY <1>1, <1>2, <2>1, <3>1
    <3>5. c = j \/ ~(Cost(s, j) < Cost(s, c)) \/ Cost(s, c) < Cost(s, j)
      BY <3>3 DEF Less, Cost
    <3> QED
      BY <1>2, <2>1, <2>2, <3>2, <3>4, <3>5
  <2>3. CASE j \div 2 # i
    <3>1. Costs(s)[j \div 2] <= Costs(s)[j]
      BY <1>1, <2>3 DEF FallsAt, FallsIn
    <3> QED
      BY <1>2, <2>1, <3>1
  <2> QED
    BY <2>2, <2>3
<1> QED
  BY <1>1, <1>4 DEF Heap

\* What turn k of the loop up has made of s, from place i.
Risen(s, i, p, k) ==
  /\ p = [in |-> p.in, index |-> p.index] /\ Kept(s, p.in) /\ FirstPlace(p.in)
  /\ p.index \in 1..s.size /\ RisesAt(p.in, p.index) /\ (Rise(p) = p \/ p.index <= i - k)

LEMMA SiftUpKeeps ==
  ASSUME NEW s, SearchTypes(s), Places(s), FirstPlace(s), NEW i \in 1..s.size, RisesAt(s, i),
         NEW t, t = SiftUp(s, i)
  PROVE  Kept(s, t) /\ FirstPlace(t) /\ Heap(t)
<1>1. PICK n, R : n = s.size /\ R = Rising(s, i)
  OBVIOUS
<1>2. n \in Nat /\ i \in Nat /\ i >= 1
  <2>1. s.size \in Nat
    BY ListIs
  <2> QED
    BY <1>1, <2>1
<1>3. R[0] = [in |-> s, index |-> i] /\ \A k \in 0..(i - 1) : R[k + 1] = Rise(R[k])
  <2>1. R = [k \in 0..i |-> IF k = 0 THEN [in |-> s, index |-> i] ELSE Rise(R[k - 1])]
    BY <1>1, <1>2, RisingIs
  <2>2. \A k \in 0..(i - 1) : k + 1 \in 0..i /\ k + 1 # 0 /\ (k + 1) - 1 = k
    BY <1>2
  <2>3. 0 \in 0..i
    BY <1>2
  <2>4. R[0] = [in |-> s, index |-> i]
    BY <2>1, <2>3
  <2>5. \A k \in 0..(i - 1) : R[k + 1] = Rise(R[(k + 1) - 1])
    BY <2>1, <2>2
  <2> QED
    BY <2>2, <2>4, <2>5
<1> DEFINE T == {k \in 0..i : Risen(s, i, R[k], k)}
<1>4. 0 \in T
  <2>1. PICK p : p = R[0]
    OBVIOUS
  <2>2. p = [in |-> s, index |-> i] /\ p.in = s /\ p.index = i
    BY <1>3, <2>1
  <2>3. p = [in |-> p.in, index |-> p.index] /\ p.index <= i - 0
    BY <1>2, <2>2
  <2>4. Risen(s, i, p, 0)
    BY <2>2, <2>3, KeptAll DEF Risen
  <2> QED
    BY <1>2, <2>1, <2>4
<1>5. ASSUME NEW k \in 0..(i - 1), k \in T PROVE k + 1 \in T
  <2>1. PICK p, q : p = R[k] /\ q = R[k + 1]
    OBVIOUS
  <2>2. q = Rise(p) /\ Risen(s, i, p, k)
    BY <1>3, <1>5, <2>1
  <2>3. CASE q = p
    <3>1. Risen(s, i, p, k + 1)
      BY <2>2, <2>3, Zenon DEF Risen
    <3>2. k + 1 \in 0..i
      BY <1>2
    <3> QED
      BY <2>1, <2>3, <3>1, <3>2
  <2>4. CASE q # p
    <3>1. PICK u, j : u = p.in /\ j = p.index
      OBVIOUS
    <3>2. p = [in |-> u, index |-> j] /\ Kept(s, u) /\ FirstPlace(u) /\ j \in 1..s.size /\ RisesAt(u, j)
          /\ j <= i - k
      BY <2>2, <2>4, <3>1 DEF Risen
    <3>3. u.size = s.size /\ SearchTypes(u) /\ Places(u)
      BY <3>2, KeptSize
    <3>4. /\ Kept(u, q.in) /\ FirstPlace(q.in) /\ q = [in |-> q.in, index |-> q.index]
          /\ q.index \in 1..s.size /\ q.index <= j - 1 /\ RisesAt(q.in, q.index)
      BY <2>2, <2>4, <3>2, <3>3, RiseKeeps
    <3>5. Kept(s, q.in)
      BY <3>2, <3>4, KeptOn
    <3>6. q.index <= i - (k + 1)
      <4>1. q.index \in Int /\ j \in Int
        BY <1>1, <1>2, <3>2, <3>4
      <4> QED
        BY <1>2, <3>2, <3>4, <4>1
    <3> QED
      BY <1>2, <2>1, <3>4, <3>5, <3>6 DEF Risen
  <2> QED
    BY <2>3, <2>4
<1>6. i \in T
  <2> HIDE DEF T
  <2> QED
    BY <1>2, <1>4, <1>5, Induction
<1>7. PICK p : p = R[i] /\ Risen(s, i, p, i)
  BY <1>6
<1>8. PICK j : j = p.index
  OBVIOUS
<1>9. /\ p = [in |-> t, index |-> j] /\ Kept(s, t) /\ FirstPlace(t) /\ j \in 1..n /\ RisesAt(t, j)
      /\ (Rise(p) = p \/ j <= i - i)
  <2>1. t = p.in
    BY <1>1, <1>7 DEF SiftUp
  <2> QED
    BY <1>1, <1>7, <1>8, <2>1, Zenon DEF Risen
<1>10. Rise(p) = p
  BY <1>2, <1>9
<1>11. t.size = n /\ SearchTypes(t)
  BY <1>1, <1>9, KeptSize
<1> QED
  BY <1>9, <1>10, <1>11, RiseEnds

\* What turn k of the loop down has made of s, from the first place.
Fallen(s, p, k) ==
  /\ p = [in |-> p.in, index |-> p.index] /\ Kept(s, p.in)
  /\ p = [in |-> s, index |-> 1] \/ FirstPlace(p.in)
  /\ p.index \in 1..s.size /\ FallsAt(p.in, p.index) /\ (Fall(p) = p \/ p.index >= k + 1)

LEMMA SiftDownKeeps ==
  ASSUME NEW s, SearchTypes(s), Places(s), s.size # 0, FallsAt(s, 1), NEW t, t = SiftDown(s, 1)
  PROVE  /\ Kept(s, t) /\ Heap(t)
         /\ FirstPlace(t) \/ (t = s /\ Fall([in |-> s, index |-> 1]) = [in |-> s, index |-> 1])
<1>1. PICK n, R : n = s.size /\ R = Falling(s, 1)
  OBVIOUS
<1>2. n \in Nat /\ n >= 1 /\ s.size \in Nat /\ 1 \in 1..s.size
  <2>1. s.size \in Nat
    BY ListIs
  <2> QED
    BY <1>1, <2>1
<1>3. R[0] = [in |-> s, index |-> 1] /\ \A k \in 0..(n - 1) : R[k + 1] = Fall(R[k])
  <2>1. R = [k \in 0..n |-> IF k = 0 THEN [in |-> s, index |-> 1] ELSE Fall(R[k - 1])]
    BY <1>1, <1>2, FallingIs
  <2>2. \A k \in 0..(n - 1) : k + 1 \in 0..n /\ k + 1 # 0 /\ (k + 1) - 1 = k
    BY <1>2
  <2>3. 0 \in 0..n
    BY <1>2
  <2>4. R[0] = [in |-> s, index |-> 1]
    BY <2>1, <2>3
  <2>5. \A k \in 0..(n - 1) : R[k + 1] = Fall(R[(k + 1) - 1])
    BY <2>1, <2>2
  <2> QED
    BY <2>2, <2>4, <2>5
<1> DEFINE T == {k \in 0..n : Fallen(s, R[k], k)}
<1>4. 0 \in T
  <2>1. PICK p : p = R[0]
    OBVIOUS
  <2>2. p = [in |-> s, index |-> 1] /\ p.in = s /\ p.index = 1
    BY <1>3, <2>1
  <2>3. p = [in |-> p.in, index |-> p.index] /\ p.index >= 0 + 1
    BY <1>2, <2>2
  <2>4. Fallen(s, p, 0)
    BY <1>2, <2>2, <2>3, KeptAll DEF Fallen
  <2> QED
    BY <1>2, <2>1, <2>4
<1>5. ASSUME NEW k \in 0..(n - 1), k \in T PROVE k + 1 \in T
  <2>1. PICK p, q : p = R[k] /\ q = R[k + 1]
    OBVIOUS
  <2>2. q = Fall(p) /\ Fallen(s, p, k) /\ k + 1 \in 0..n
    BY <1>2, <1>3, <1>5, <2>1
  <2>3. CASE q = p
    <3>1. Fallen(s, p, k + 1)
      BY <2>2, <2>3, Zenon DEF Fallen
    <3> QED
      BY <2>1, <2>2, <2>3, <3>1
  <2>4. CASE q # p
    <3>1. PICK u, j : u = p.in /\ j = p.index
      OBVIOUS
    <3>2. p = [in |-> u, index |-> j] /\ Kept(s, u) /\ j \in 1..s.size /\ FallsAt(u, j) /\ j >= k + 1
          /\ (p = [in |-> s, index |-> 1] \/ FirstPlace(u))
      BY <2>2, <2>4, <3>1 DEF Fallen
    <3>3. u.size = s.size /\ SearchTypes(u) /\ Places(u)
      BY <3>2, KeptSize
    <3>4. j = 1 \/ FirstPlace(u)
      BY <3>1, <3>2
    <3>5. /\ Kept(u, q.in) /\ FirstPlace(q.in) /\ q = [in |-> q.in, index |-> q.index]
          /\ q.index \in 1..s.size /\ q.index >= j + 1 /\ FallsAt(q.in, q.index)
      BY <2>2, <2>4, <3>2, <3>3, <3>4, FallKeeps
    <3>6. Kept(s, q.in)
      BY <3>2, <3>5, KeptOn
    <3>7. q.index >= (k + 1) + 1
      <4>1. q.index \in Int /\ j \in Int
        BY <1>1, <1>2, <3>2, <3>5
      <4> QED
        BY <1>2, <3>2, <3>5, <4>1
    <3>8. Fallen(s, q, k + 1)
      BY <3>5, <3>6, <3>7, Zenon DEF Fallen
    <3> QED
      BY <2>1, <2>2, <3>8
  <2> QED
    BY <2>3, <2>4
<1>6. n \in T
  <2> HIDE DEF T
  <2> QED
    BY <1>2, <1>4, <1>5, Induction
<1>7. PICK p : p = R[n] /\ Fallen(s, p, n)
  BY <1>6
<1>8. PICK j : j = p.index
  OBVIOUS
<1>9. /\ p = [in |-> t, index |-> j] /\ Kept(s, t) /\ j \in 1..n /\ FallsAt(t, j)
      /\ p = [in |-> s, index |-> 1] \/ FirstPlace(t)
      /\ (Fall(p) = p \/ j >= n + 1)
  <2>1. t = p.in
    BY <1>1, <1>7 DEF SiftDown
  <2> QED
    BY <1>1, <1>7, <1>8, <2>1, Zenon DEF Fallen
<1>10. Fall(p) = p
  BY <1>2, <1>9
<1>11. t.size = n /\ SearchTypes(t)
  BY <1>1, <1>9, KeptSize
<1>12. Heap(t)
  BY <1>9, <1>10, <1>11, FallEnds
<1>13. p = [in |-> s, index |-> 1] => t = s
  BY <1>9
<1> QED
  BY <1>9, <1>10, <1>12, <1>13

-----------------------------------------------------------------------------
(* The operations on the open list. *)

\* What remains of a search when its open list changes.
SameNodes(s, t) ==
  /\ t.walk = s.walk /\ t.begin = s.begin /\ t.end = s.end
  /\ t.closed = s.closed /\ t.g = s.g /\ t.f = s.f /\ t.parent = s.parent

LEMMA KeptSame ==
  ASSUME NEW s, NEW t, NEW u, SameNodes(s, t), Kept(t, u), FirstPlace(u), Heap(u)
  PROVE  SameNodes(s, u) /\ OpenNodes(u) = OpenNodes(t) /\ ListKept(u)
BY DEF Kept, Sorted, SameNodes, ListKept

\* The first node of the list costs least.
LEMMA FirstCostsLeast ==
  ASSUME NEW s, ListKept(s), s.size # 0
  PROVE  /\ s.list[1] \in OpenNodes(s) /\ s.list[1] \in s.walk
         /\ \A d \in OpenNodes(s) : s.f[s.list[1]] <= s.f[d]
<1>1. SearchTypes(s) /\ Heap(s)
  BY DEF ListKept
<1>2. PICK n : n = s.size
  OBVIOUS
<1>3. n \in Nat /\ 1 \in 1..n /\ Costs(s) \in [1..n -> Int] /\ s.list[1] \in s.walk
  <2>1. s.size \in Nat /\ 1..s.size \subseteq 1..Len(s.list) /\ Costs(s) \in [1..s.size -> Int]
        /\ \A k \in 1..Len(s.list) : s.list[k] \in s.walk
    BY <1>1, ListIs, CostsAre
  <2> QED
    BY <1>2, <2>1
<1>4. \A k \in 1..n : Costs(s)[k] = Cost(s, k)
  BY <1>2 DEF Costs
<1>5. \A j \in 1..n : j >= 2 * 1 => Costs(s)[j \div 2] <= Costs(s)[j]
  <2>1. ASSUME NEW j \in 1..n, j >= 2 * 1 PROVE Costs(s)[j \div 2] <= Costs(s)[j]
    <3>1. j \in 2..n /\ j \div 2 \in 1..n
      BY <1>3, <2>1
    <3>2. Cost(s, j \div 2) <= Cost(s, j)
      BY <1>1, <1>2, <3>1 DEF Heap
    <3> QED
      BY <1>4, <3>1, <3>2
  <2> QED
    BY <2>1
<1>6. \A j \in 1..n : j >= 1 => Costs(s)[1] <= Costs(s)[j]
  <2>1. PICK F, v : F = Costs(s) /\ v = F[1]
    OBVIOUS
  <2>2. F \in [1..n -> Int] /\ v \in Int /\ 1 \in Nat \ {0} /\ \A j \in 1..n : j >= 2 * 1 => F[j \div 2] <= F[j]
    BY <1>3, <1>5, <2>1
  <2>3. \A j \in 1..n : j \in 1..(2 * 1 - 1) => v <= F[j]
    BY <2>1, <2>2
  <2>4. \A j \in 1..n : j >= 1 => v <= F[j]
    BY <1>3, <2>2, <2>3, FirstIsLeast
  <2> QED
    BY <2>1, <2>4
<1>7. ASSUME NEW j \in 1..n PROVE s.f[s.list[1]] <= s.f[s.list[j]]
  <2>1. Costs(s)[1] <= Costs(s)[j]
    BY <1>3, <1>6
  <2> QED
    BY <1>3, <1>4, <2>1 DEF Cost
<1> QED
  BY <1>2, <1>3, <1>7 DEF OpenNodes

\* The list without its first node, the last one in its place.
Popped(s) == [s EXCEPT !.at[s.list[1]] = 0, !.list[1] = s.list[s.size], !.size = @ - 1]

PoppedWell(s, d) ==
  /\ SearchTypes(d) /\ SameNodes(s, d) /\ d.size = s.size - 1 /\ Len(d.list) = Len(s.list)
  /\ \A k \in 1..Len(s.list) : d.list[k] = IF k = 1 THEN s.list[s.size] ELSE s.list[k]
  /\ \A c \in s.walk : d.at[c] = IF c = s.list[1] THEN 0 ELSE s.at[c]

LEMMA PoppedIs ==
  ASSUME NEW s, SearchTypes(s), s.size # 0, NEW d, d = Popped(s)
  PROVE  PoppedWell(s, d)
<1> DEFINE list == [s.list EXCEPT ![1] = s.list[s.size]]
           at == [s.at EXCEPT ![s.list[1]] = 0]
           size == s.size - 1
<1>1. /\ IsSearch(s) /\ s.list \in Seq(s.walk) /\ s.at \in [s.walk -> Nat] /\ s.size \in 0..Len(s.list)
  BY Zenon DEF SearchTypes
<1>2. Len(s.list) \in Nat /\ s.list \in [1..Len(s.list) -> s.walk] /\ 1 \in 1..Len(s.list) /\ s.size \in 1..Len(s.list)
  <2>1. Len(s.list) \in Nat /\ s.list \in [1..Len(s.list) -> s.walk]
    BY <1>1, LenProperties
  <2> QED
    BY <1>1, <2>1
<1>3. s.list[1] \in s.walk /\ s.list[s.size] \in s.walk
  BY <1>2
<1>4. list \in [1..Len(s.list) -> s.walk]
      /\ \A k \in 1..Len(s.list) : list[k] = IF k = 1 THEN s.list[s.size] ELSE s.list[k]
  BY <1>2, <1>3
<1>5. at \in [s.walk -> Nat] /\ \A c \in s.walk : at[c] = IF c = s.list[1] THEN 0 ELSE s.at[c]
  BY <1>1, <1>3
<1>6. d = [s EXCEPT !.at = at, !.list = list, !.size = size]
  BY DEF Popped
<1>7. size \in 0..Len(s.list)
  BY <1>2
<1> HIDE DEF list, at, size
<1>8. list \in Seq(s.walk) /\ Len(list) = Len(s.list)
  BY <1>2, <1>4, SeqDef, LenProperties
<1>9. /\ IsSearch(d) /\ d.list = list /\ d.at = at /\ d.size = size
      /\ d.walk = s.walk /\ d.begin = s.begin /\ d.end = s.end
      /\ d.closed = s.closed /\ d.g = s.g /\ d.f = s.f /\ d.parent = s.parent
  BY <1>1, <1>6 DEF IsSearch
<1>10. SearchTypes(d)
  <2>1. s.walk \subseteq Int \X Int /\ s.end \in Int \X Int
        /\ s.closed \subseteq s.walk /\ s.g \in [s.walk -> Int] /\ s.f \in [s.walk -> Int]
        /\ s.parent \in [s.walk -> s.walk \cup {NoCell}]
    BY Zenon DEF SearchTypes
  <2> QED
    BY <1>5, <1>7, <1>8, <1>9, <2>1, Zenon DEF SearchTypes
<1>11. size = s.size - 1
  BY DEF size
<1> QED
  BY <1>4, <1>5, <1>8, <1>9, <1>10, <1>11, Zenon DEF PoppedWell, SameNodes

LEMMA FallingStarts ==
  ASSUME NEW s, s.size \in Nat
  PROVE  Falling(s, 1)[0] = [in |-> s, index |-> 1]
<1>1. PICK n, R : n = s.size /\ R = Falling(s, 1)
  OBVIOUS
<1>2. R = [k \in 0..n |-> IF k = 0 THEN [in |-> s, index |-> 1] ELSE Fall(R[k - 1])]
  BY <1>1, FallingIs
<1>3. 0 \in 0..n
  BY <1>1
<1> QED
  BY <1>1, <1>2, <1>3

LEMMA EmptyFalls ==
  ASSUME NEW s, s.size = 0, NEW t, t = SiftDown(s, 1)
  PROVE  t = s
<1>1. s.size \in Nat
  OBVIOUS
<1>2. Falling(s, 1)[0] = [in |-> s, index |-> 1]
  BY <1>1, FallingStarts
<1> QED
  BY <1>2 DEF SiftDown

LEMMA DeleteKeeps ==
  ASSUME NEW s, ListKept(s), s.size # 0, NEW t, t = DeleteMinFScoreNodeInOpenList(s)
  PROVE  SameNodes(s, t) /\ ListKept(t) /\ OpenNodes(t) = OpenNodes(s) \ {s.list[1]}
<1>0. SearchTypes(s) /\ Places(s) /\ FirstPlace(s) /\ Heap(s)
  BY DEF ListKept
<1>1. PICK n, m, len, L, A, d : /\ n = s.size /\ m = n - 1 /\ len = Len(s.list) /\ L = s.list /\ A = s.at
                                /\ d = Popped(s)
  OBVIOUS
<1>2. n \in Nat /\ n >= 1 /\ m \in Nat /\ len \in Nat /\ n <= len /\ 1..n \subseteq 1..len
      /\ \A k \in 1..len : L[k] \in s.walk
  <2>1. s.size \in Nat /\ Len(s.list) \in Nat /\ s.size <= Len(s.list)
        /\ \A k \in 1..Len(s.list) : s.list[k] \in s.walk
    BY <1>0, ListIs
  <2> QED
    BY <1>1, <2>1
<1>3. /\ SearchTypes(d) /\ SameNodes(s, d) /\ d.size = m /\ Len(d.list) = len
      /\ \A k \in 1..len : d.list[k] = IF k = 1 THEN L[n] ELSE L[k]
      /\ \A c \in s.walk : d.at[c] = IF c = L[1] THEN 0 ELSE A[c]
  <2>1. PoppedWell(s, d)
    BY <1>0, <1>1, PoppedIs
  <2> QED
    BY <1>1, <2>1 DEF PoppedWell
<1>4. t = SiftDown(d, 1)
  BY <1>1 DEF DeleteMinFScoreNodeInOpenList, Popped
<1>5. /\ \A k, l \in 1..n : L[k] = L[l] => k = l
      /\ \A k \in 2..n : A[L[k]] = k
      /\ \A c \in s.walk : A[c] # 0 <=> \E k \in 1..n : L[k] = c
  BY <1>0, <1>1 DEF Places
<1>6. \A k \in 1..m : d.list[k] = (IF k = 1 THEN L[n] ELSE L[k]) /\ d.list[k] # L[1]
  <2> SUFFICES ASSUME NEW k \in 1..m PROVE d.list[k] = (IF k = 1 THEN L[n] ELSE L[k]) /\ d.list[k] # L[1]
    OBVIOUS
  <2>1. k \in 1..n /\ k \in 1..len /\ 1 \in 1..n /\ n \in 1..n /\ n # 1
    BY <1>1, <1>2
  <2> QED
    BY <1>3, <1>5, <2>1
<1>7. Places(d)
  <2>1. \A k, l \in 1..m : d.list[k] = d.list[l] => k = l
    <3> SUFFICES ASSUME NEW k \in 1..m, NEW l \in 1..m, d.list[k] = d.list[l] PROVE k = l
      OBVIOUS
    <3>1. k \in 1..n /\ l \in 1..n /\ n \in 1..n /\ k # n /\ l # n
      BY <1>1, <1>2
    <3> QED
      BY <1>5, <1>6, <3>1
  <2>2. \A k \in 2..m : d.at[d.list[k]] = k
    <3> SUFFICES ASSUME NEW k \in 2..m PROVE d.at[d.list[k]] = k
      OBVIOUS
    <3>1. k \in 1..m /\ k \in 2..n /\ k \in 1..len /\ k # 1
      BY <1>1, <1>2
    <3>2. d.list[k] = L[k] /\ L[k] # L[1] /\ L[k] \in s.walk
      BY <1>2, <1>6, <3>1
    <3> QED
      BY <1>3, <1>5, <3>1, <3>2
  <2>3. \A c \in s.walk : d.at[c] # 0 <=> \E k \in 1..m : d.list[k] = c
    <3> SUFFICES ASSUME NEW c \in s.walk PROVE d.at[c] # 0 <=> \E k \in 1..m : d.list[k] = c
      OBVIOUS
    <3>1. CASE c = L[1]
      BY <1>3, <1>6, <3>1
    <3>2. CASE c # L[1]
      <4>1. d.at[c] = A[c]
        BY <1>3, <3>2
      <4>2. ASSUME NEW k \in 1..n, L[k] = c PROVE \E l \in 1..m : d.list[l] = c
        <5>1. k # 1
          BY <3>2, <4>2
        <5>2. CASE k = n
          <6>1. 1 \in 1..m
            BY <1>1, <1>2, <5>1, <5>2
          <6> QED
            BY <1>6, <4>2, <5>2, <6>1
        <5>3. CASE k # n
          <6>1. k \in 1..m
            BY <1>1, <1>2, <5>3
          <6> QED
            BY <1>6, <4>2, <5>1, <6>1
        <5> QED
          BY <5>2, <5>3
      <4>3. ASSUME NEW k \in 1..m, d.list[k] = c PROVE \E l \in 1..n : L[l] = c
        <5>1. k \in 1..n /\ n \in 1..n
          BY <1>1, <1>2
        <5> QED
          BY <1>6, <4>3, <5>1
      <4> QED
        BY <1>5, <4>1, <4>2, <4>3
    <3> QED
      BY <3>1, <3>2
  <2>4. d.walk = s.walk
    BY <1>3 DEF SameNodes
  <2> QED
    BY <1>3, <2>1, <2>2, <2>3, <2>4 DEF Places
<1>8. OpenNodes(d) = OpenNodes(s) \ {L[1]}
  <2>1. OpenNodes(d) = {d.list[k] : k \in 1..m} /\ OpenNodes(s) = {L[k] : k \in 1..n}
    BY <1>1, <1>3 DEF OpenNodes
  <2>2. ASSUME NEW k \in 1..m PROVE d.list[k] \in {L[l] : l \in 1..n} \ {L[1]}
    <3>1. k \in 1..n /\ n \in 1..n
      BY <1>1, <1>2
    <3> QED
      BY <1>6, <3>1
  <2>3. ASSUME NEW k \in 1..n, L[k] # L[1] PROVE \E l \in 1..m : d.list[l] = L[k]
    <3>1. k # 1
      BY <2>3
    <3>2. CASE k = n
      <4>1. 1 \in 1..m
        BY <1>1, <1>2, <3>1, <3>2
      <4> QED
        BY <1>6, <3>2, <4>1
    <3>3. CASE k # n
      <4>1. k \in 1..m
        BY <1>1, <1>2, <3>3
      <4> QED
        BY <1>6, <3>1, <4>1
    <3> QED
      BY <3>2, <3>3
  <2> QED
    BY <2>1, <2>2, <2>3
<1>9. CASE m = 0
  <2>1. d.size \in Nat /\ d.size = 0
    BY <1>3, <1>9
  <2>2. t = d
    BY <1>4, <2>1, EmptyFalls
  <2>3. FirstPlace(d) /\ Heap(d)
    BY <2>1 DEF FirstPlace, Heap
  <2> QED
    BY <1>1, <1>3, <1>7, <1>8, <2>2, <2>3 DEF ListKept
<1>10. CASE m # 0
  <2>1. n >= 2 /\ 1 \in 1..m /\ 1 \in 1..n /\ n \in 1..n /\ n \in 2..n /\ 1 \in 1..len /\ n \in 1..len /\ d.size # 0
    BY <1>1, <1>2, <1>3, <1>10
  <2>2. Costs(s) \in [1..n -> Int] /\ Costs(d) \in [1..m -> Int]
    BY <1>0, <1>1, <1>3, CostsAre
  <2>3. /\ \A k \in 1..n : Costs(s)[k] = s.f[L[k]]
        /\ \A k \in 1..m : Costs(d)[k] = s.f[d.list[k]]
    <3>1. d.f = s.f
      BY <1>3 DEF SameNodes
    <3> QED
      BY <1>1, <1>3, <3>1 DEF Costs, Cost
  <2>4. \A k \in 2..m : k \in 1..m /\ k \in 1..n /\ Costs(d)[k] = Costs(s)[k]
    <3> SUFFICES ASSUME NEW k \in 2..m PROVE k \in 1..m /\ k \in 1..n /\ Costs(d)[k] = Costs(s)[k]
      OBVIOUS
    <3>1. k \in 1..m /\ k \in 1..n /\ k # 1
      BY <1>1, <1>2
    <3> QED
      BY <1>6, <2>3, <3>1
  <2>5. \A j \in 2..n : Costs(s)[j \div 2] <= Costs(s)[j]
    <3> SUFFICES ASSUME NEW j \in 2..n PROVE Costs(s)[j \div 2] <= Costs(s)[j]
      OBVIOUS
    <3>1. j \div 2 \in 1..n /\ j \in 1..n
      BY <1>2
    <3>2. Cost(s, j \div 2) <= Cost(s, j)
      BY <1>0, <1>1 DEF Heap
    <3> QED
      BY <1>1, <2>3, <3>1, <3>2 DEF Cost
  <2>6. FallsAt(d, 1)
    <3>1. ASSUME NEW j \in 2..m, j \div 2 # 1 PROVE Costs(d)[j \div 2] <= Costs(d)[j]
      <4>1. j \div 2 \in 2..m /\ j \in 2..n
        BY <1>1, <1>2, <3>1
      <4> QED
        BY <2>4, <2>5, <4>1
    <3>2. AboveIn(Costs(d), m, 1)
      BY DEF AboveIn
    <3> QED
      BY <1>3, <3>1, <3>2 DEF FallsAt, FallsIn
  <2>7. /\ Kept(d, t) /\ Heap(t)
        /\ FirstPlace(t) \/ (t = d /\ Fall([in |-> d, index |-> 1]) = [in |-> d, index |-> 1])
    BY <1>3, <1>4, <1>7, <2>1, <2>6, SiftDownKeeps
  <2>8. ASSUME Fall([in |-> d, index |-> 1]) = [in |-> d, index |-> 1] PROVE n \in {2, 3}
    <3>1. PICK c, u : /\ u = SwapNodes(d, 1, c)
                      /\ c = IF 2 * 1 + 1 <= m /\ Less(d, 2 * 1 + 1, 2 * 1) THEN 2 * 1 + 1 ELSE 2 * 1
      OBVIOUS
    <3> PICK pos : pos = [in |-> d, index |-> 1]
      OBVIOUS
    <3>2. pos.in = d /\ pos.index = 1 /\ pos.in.size = m
      <4>1. pos.in = d /\ pos.index = 1
        OBVIOUS
      <4> QED
        BY <1>3, <4>1
    <3>3. pos = IF 2 * 1 > m \/ Less(d, 1, c) THEN pos ELSE [in |-> u, index |-> c]
      BY <2>8, <3>1, <3>2, Zenon DEF Fall
    <3>4. c = 2 * 1 \/ c = 2 * 1 + 1
      BY <3>1, Zenon
    <3>5. c \in {2, 3} /\ c # 1
      BY <3>4
    <3>6. 2 > m \/ Less(d, 1, c)
      BY <3>2, <3>3, <3>5
    <3> SUFFICES ASSUME n >= 4 PROVE FALSE
      BY <1>2, <2>1
    <3>7. m >= 3 /\ 2 \in 2..m /\ 3 \in 2..m /\ 2 \in 1..n /\ 3 \in 1..n
      BY <1>1, <1>2
    <3>8. Less(d, 1, c) /\ c = IF Less(d, 3, 2) THEN 3 ELSE 2
      BY <1>2, <3>1, <3>6, <3>7
    <3>9. \A i, j \in 1..m : Less(d, i, j) <=> Costs(d)[i] < Costs(d)[j]
      BY <1>3, <2>3 DEF Less, SameNodes
    <3>10. PICK F, v : F = Costs(s) /\ v = F[c]
      OBVIOUS
    <3>11. v \in Int /\ v <= F[2] /\ v <= F[3] /\ F \in [1..n -> Int]
      <4>1. Less(d, 3, 2) <=> F[3] < F[2]
        BY <2>4, <3>7, <3>9, <3>10
      <4>2. F[2] \in Int /\ F[3] \in Int
        BY <2>2, <3>7, <3>10
      <4> QED
        BY <2>2, <3>8, <3>10, <4>1, <4>2
    <3>12. \A j \in 1..n : j >= 2 => v <= F[j]
      <4>1. \A j \in 1..n : j \in 2..(2 * 2 - 1) => v <= F[j]
        <5>1. \A j \in 1..n : j \in 2..(2 * 2 - 1) => j = 2 \/ j = 3
          BY <1>2
        <5> QED
          BY <3>11, <5>1
      <4>2. \A j \in 1..n : j >= 2 * 2 => F[j \div 2] <= F[j]
        <5>1. \A j \in 1..n : j >= 2 * 2 => j \in 2..n
          BY <1>2
        <5> QED
          BY <2>5, <3>10, <5>1
      <4>3. 2 \in Nat \ {0}
        OBVIOUS
      <4> QED
        BY <1>2, <3>11, <4>1, <4>2, <4>3, FirstIsLeast
    <3>13. Costs(d)[1] < Costs(d)[c] /\ Costs(d)[c] = v
      BY <2>1, <2>4, <3>5, <3>7, <3>8, <3>9, <3>10
    <3>14. Costs(d)[1] = F[n]
      BY <1>6, <2>1, <2>3, <3>10
    <3>15. v <= F[n] /\ F[n] \in Int
      BY <1>2, <2>1, <3>11, <3>12
    <3> QED
      BY <3>11, <3>13, <3>14, <3>15
  <2>9. n \in {2, 3} => FirstPlace(d)
    <3>1. ASSUME n \in {2, 3} PROVE FirstPlace(d)
      <4>1. d.list[1] = L[n] /\ d.list[n] = L[n] /\ L[n] # L[1] /\ L[n] \in s.walk
        BY <1>2, <1>3, <1>5, <2>1
      <4>2. d.at[d.list[1]] = n
        BY <1>3, <1>5, <2>1, <4>1
      <4>3. n \in 1..3 /\ n <= len
        BY <1>2, <3>1
      <4> QED
        BY <1>3, <4>1, <4>2, <4>3 DEF FirstPlace
    <3> QED
      BY <3>1
  <2>10. FirstPlace(t)
    BY <2>7, <2>8, <2>9
  <2> QED
    BY <1>1, <1>3, <1>8, <2>7, <2>10, KeptSame
<1> QED
  BY <1>9, <1>10

\* The list with a node more, at its end.
Pushed(s, c) ==
  LET n == s.size + 1
      list == IF n > Len(s.list) THEN Append(s.list, c) ELSE [s.list EXCEPT ![n] = c]
  IN [s EXCEPT !.list = list, !.size = n, !.at[c] = n]

PushedWell(s, c, d) ==
  /\ SearchTypes(d) /\ SameNodes(s, d) /\ d.size = s.size + 1 /\ Len(s.list) <= Len(d.list)
  /\ d.list[d.size] = c /\ \A k \in 1..Len(s.list) : k # d.size => d.list[k] = s.list[k]
  /\ \A e \in s.walk : d.at[e] = IF e = c THEN d.size ELSE s.at[e]

LEMMA PushedIs ==
  ASSUME NEW s, SearchTypes(s), NEW c \in s.walk, NEW d, d = Pushed(s, c)
  PROVE  PushedWell(s, c, d)
<1>1. PICK n, len, L, list, at :
        /\ n = s.size + 1 /\ len = Len(s.list) /\ L = s.list /\ at = [s.at EXCEPT ![c] = n]
        /\ list = IF n > len THEN Append(L, c) ELSE [L EXCEPT ![n] = c]
  OBVIOUS
<1>2. /\ IsSearch(s) /\ s.list \in Seq(s.walk) /\ s.at \in [s.walk -> Nat] /\ s.size \in 0..Len(s.list)
  BY Zenon DEF SearchTypes
<1>3. len \in Nat /\ n \in Nat /\ n >= 1 /\ n <= len + 1 /\ L \in Seq(s.walk) /\ L \in [1..len -> s.walk]
  <2>1. Len(s.list) \in Nat /\ s.list \in [1..Len(s.list) -> s.walk]
    BY <1>2, LenProperties
  <2> QED
    BY <1>1, <1>2, <2>1
<1>4. /\ list \in Seq(s.walk) /\ len <= Len(list) /\ n <= Len(list) /\ Len(list) \in Nat
      /\ list[n] = c /\ \A k \in 1..len : k # n => list[k] = L[k]
  <2>1. CASE n > len
    <3>1. list = Append(L, c) /\ n = len + 1
      BY <1>1, <1>3, <2>1
    <3>2. list \in Seq(s.walk) /\ Len(list) = len + 1 /\ list[len + 1] = c /\ \A k \in 1..len : list[k] = L[k]
      <4>1. /\ Append(L, c) \in Seq(s.walk) /\ Len(Append(L, c)) = Len(L) + 1
            /\ (\A k \in 1..Len(L) : Append(L, c)[k] = L[k]) /\ Append(L, c)[Len(L) + 1] = c
        BY <1>3, AppendProperties
      <4>2. Len(L) = len
        BY <1>1
      <4> QED
        BY <3>1, <4>1, <4>2
    <3> QED
      BY <1>3, <3>1, <3>2
  <2>2. CASE ~(n > len)
    <3>1. list = [L EXCEPT ![n] = c] /\ n \in 1..len
      BY <1>1, <1>3, <2>2
    <3>2. list \in [1..len -> s.walk] /\ list[n] = c /\ \A k \in 1..len : k # n => list[k] = L[k]
      BY <1>3, <3>1
    <3>3. list \in Seq(s.walk) /\ Len(list) = len
      BY <1>3, <3>2, SeqDef, LenProperties
    <3> QED
      BY <1>3, <3>1, <3>2, <3>3
  <2> QED
    BY <2>1, <2>2
<1>5. at \in [s.walk -> Nat] /\ \A e \in s.walk : at[e] = IF e = c THEN n ELSE s.at[e]
  BY <1>1, <1>2, <1>3
<1>6. d = [s EXCEPT !.list = list, !.size = n, !.at = at]
  BY <1>1, Zenon DEF Pushed
<1>7. n \in 0..Len(list)
  BY <1>3, <1>4
<1>8. /\ IsSearch(d) /\ d.list = list /\ d.at = at /\ d.size = n
      /\ d.walk = s.walk /\ d.begin = s.begin /\ d.end = s.end
      /\ d.closed = s.closed /\ d.g = s.g /\ d.f = s.f /\ d.parent = s.parent
  BY <1>2, <1>6 DEF IsSearch
<1>9. SearchTypes(d)
  <2>1. s.walk \subseteq Int \X Int /\ s.end \in Int \X Int
        /\ s.closed \subseteq s.walk /\ s.g \in [s.walk -> Int] /\ s.f \in [s.walk -> Int]
        /\ s.parent \in [s.walk -> s.walk \cup {NoCell}]
    BY Zenon DEF SearchTypes
  <2> QED
    BY <1>4, <1>5, <1>7, <1>8, <2>1, Zenon DEF SearchTypes
<1>10. SameNodes(s, d)
  BY <1>8 DEF SameNodes
<1> QED
  BY <1>1, <1>4, <1>5, <1>8, <1>9, <1>10 DEF PushedWell

LEMMA InsertKeeps ==
  ASSUME NEW s, ListKept(s), NEW c \in s.walk, s.at[c] = 0, NEW t, t = InsertOpenList(s, c)
  PROVE  SameNodes(s, t) /\ ListKept(t) /\ OpenNodes(t) = OpenNodes(s) \cup {c}
<1>0. SearchTypes(s) /\ Places(s) /\ FirstPlace(s) /\ Heap(s)
  BY DEF ListKept
<1>1. PICK n, m, len, L, A, d : /\ m = s.size /\ n = m + 1 /\ len = Len(s.list) /\ L = s.list /\ A = s.at
                                /\ d = Pushed(s, c)
  OBVIOUS
<1>2. n \in Nat /\ n >= 1 /\ m \in Nat /\ len \in Nat /\ m <= len /\ 1..m \subseteq 1..len /\ n = m + 1 /\ n \in 1..n
      /\ \A k \in 1..len : L[k] \in s.walk
  <2>1. s.size \in Nat /\ Len(s.list) \in Nat /\ s.size <= Len(s.list)
        /\ \A k \in 1..Len(s.list) : s.list[k] \in s.walk
    BY <1>0, ListIs
  <2> QED
    BY <1>1, <2>1
<1>3. /\ SearchTypes(d) /\ SameNodes(s, d) /\ d.size = n /\ len <= Len(d.list)
      /\ d.list[n] = c /\ (\A k \in 1..len : k # n => d.list[k] = L[k])
      /\ \A e \in s.walk : d.at[e] = IF e = c THEN n ELSE A[e]
  <2>1. PushedWell(s, c, d)
    BY <1>0, <1>1, PushedIs
  <2> QED
    BY <1>1, <2>1 DEF PushedWell
<1>4. t = SiftUp(d, n)
  BY <1>1 DEF InsertOpenList, Pushed
<1>5. /\ \A k, l \in 1..m : L[k] = L[l] => k = l
      /\ \A k \in 2..m : A[L[k]] = k
      /\ \A e \in s.walk : A[e] # 0 <=> \E k \in 1..m : L[k] = e
  BY <1>0, <1>1 DEF Places
<1>6. \A k \in 1..m : d.list[k] = L[k] /\ L[k] # c /\ L[k] \in s.walk /\ k \in 1..n /\ k # n /\ k \in 1..len
  <2> SUFFICES ASSUME NEW k \in 1..m
               PROVE d.list[k] = L[k] /\ L[k] # c /\ L[k] \in s.walk /\ k \in 1..n /\ k # n /\ k \in 1..len
    OBVIOUS
  <2>1. k \in 1..n /\ k # n /\ k \in 1..len
    BY <1>2
  <2>2. L[k] # c
    BY <1>1, <1>5
  <2> QED
    BY <1>2, <1>3, <2>1, <2>2
<1>7. Places(d)
  <2>1. \A k \in 1..n : k = n \/ k \in 1..m
    BY <1>2
  <2>2. \A k, l \in 1..n : d.list[k] = d.list[l] => k = l
    BY <1>3, <1>5, <1>6, <2>1
  <2>3. \A k \in 2..n : d.at[d.list[k]] = k
    <3> SUFFICES ASSUME NEW k \in 2..n PROVE d.at[d.list[k]] = k
      OBVIOUS
    <3>1. k = n \/ (k \in 2..m /\ k \in 1..m)
      BY <1>2
    <3> QED
      BY <1>3, <1>5, <1>6, <3>1
  <2>4. \A e \in s.walk : d.at[e] # 0 <=> \E k \in 1..n : d.list[k] = e
    <3> SUFFICES ASSUME NEW e \in s.walk PROVE d.at[e] # 0 <=> \E k \in 1..n : d.list[k] = e
      OBVIOUS
    <3>1. CASE e = c
      BY <1>2, <1>3, <3>1
    <3>2. CASE e # c
      BY <1>3, <1>5, <1>6, <2>1, <3>2
    <3> QED
      BY <3>1, <3>2
  <2>5. d.walk = s.walk
    BY <1>3 DEF SameNodes
  <2> QED
    BY <1>3, <2>2, <2>3, <2>4, <2>5 DEF Places
<1>8. OpenNodes(d) = OpenNodes(s) \cup {c}
  <2>1. OpenNodes(d) = {d.list[k] : k \in 1..n} /\ OpenNodes(s) = {L[k] : k \in 1..m}
    BY <1>1, <1>3 DEF OpenNodes
  <2>2. \A k \in 1..n : k = n \/ k \in 1..m
    BY <1>2
  <2> QED
    BY <1>2, <1>3, <1>6, <2>1, <2>2
<1>9. FirstPlace(d)
  <2>1. CASE m = 0
    <3>1. n = 1 /\ d.list[1] = c /\ d.at[c] = 1
      BY <1>2, <1>3, <2>1
    <3>2. 1 \in 1..3 /\ 1 <= Len(d.list) /\ ~(1 > 1)
      <4>1. d.size \in Nat /\ Len(d.list) \in Nat /\ d.size <= Len(d.list)
        BY <1>3, ListIs
      <4> QED
        BY <1>3, <3>1, <4>1
    <3> QED
      BY <1>3, <3>1, <3>2 DEF FirstPlace
  <2>2. CASE m # 0
    <3>1. 1 \in 1..m
      BY <1>2, <2>2
    <3>2. d.list[1] = L[1] /\ d.at[L[1]] = A[L[1]]
      BY <1>3, <1>6, <3>1
    <3>3. PICK k : k = A[L[1]]
      OBVIOUS
    <3>4. k \in 1..3 /\ k <= len /\ (k > m => L[k] = L[1])
      BY <1>0, <1>1, <1>2, <2>2, <3>3 DEF FirstPlace
    <3>5. k > n => d.list[k] = L[1]
      <4>1. k > n => k > m /\ k \in 1..len /\ k # n
        BY <1>2, <3>4
      <4> QED
        BY <1>3, <3>4, <4>1
    <3>6. k <= Len(d.list)
      <4>1. Len(d.list) \in Nat
        BY <1>3, ListIs
      <4> QED
        BY <1>2, <1>3, <3>4, <4>1
    <3> QED
      BY <1>3, <3>2, <3>3, <3>4, <3>5, <3>6 DEF FirstPlace
  <2> QED
    BY <2>1, <2>2
<1>10. RisesAt(d, n)
  <2>1. \A k \in 1..m : k \in 1..n /\ Costs(d)[k] = Cost(s, k)
    <3>1. d.f = s.f
      BY <1>3 DEF SameNodes
    <3> QED
      BY <1>1, <1>3, <1>6, <3>1 DEF Costs, Cost
  <2>2. ASSUME NEW j \in 2..n, j # n PROVE Costs(d)[j \div 2] <= Costs(d)[j]
    <3>1. j \in 2..m /\ j \in 1..m /\ j \div 2 \in 1..m
      BY <1>2, <2>2
    <3>2. Cost(s, j \div 2) <= Cost(s, j)
      BY <1>0, <1>1, <3>1 DEF Heap
    <3> QED
      BY <2>1, <3>1, <3>2
  <2>3. AboveIn(Costs(d), n, n)
    <3>1. \A j \in 2..n : j \div 2 # n
      BY <1>2
    <3> QED
      BY <3>1 DEF AboveIn
  <2> QED
    BY <1>3, <2>2, <2>3 DEF RisesAt, RisesIn
<1>11. Kept(d, t) /\ FirstPlace(t) /\ Heap(t)
  BY <1>2, <1>3, <1>4, <1>7, <1>9, <1>10, SiftUpKeeps
<1> QED
  BY <1>3, <1>8, <1>11, KeptSame

\* A node that rises no more, after the first turn.
LEMMA RisesOnce ==
  ASSUME NEW s, NEW i, i \in Nat, i # 0, NEW q, q = Rise([in |-> s, index |-> i]), Rise(q) = q
  PROVE  SiftUp(s, i) = q.in
<1>1. PICK R : R = Rising(s, i)
  OBVIOUS
<1>2. R[0] = [in |-> s, index |-> i] /\ \A k \in 0..(i - 1) : R[k + 1] = Rise(R[k])
  <2>1. R = [k \in 0..i |-> IF k = 0 THEN [in |-> s, index |-> i] ELSE Rise(R[k - 1])]
    BY <1>1, RisingIs
  <2>2. \A k \in 0..(i - 1) : k + 1 \in 0..i /\ k + 1 # 0 /\ (k + 1) - 1 = k
    OBVIOUS
  <2>3. 0 \in 0..i
    OBVIOUS
  <2>4. R[0] = [in |-> s, index |-> i]
    BY <2>1, <2>3
  <2>5. \A k \in 0..(i - 1) : R[k + 1] = Rise(R[(k + 1) - 1])
    BY <2>1, <2>2
  <2> QED
    BY <2>2, <2>4, <2>5
<1> DEFINE T == {k \in 0..i : k = 0 \/ R[k] = q}
<1>3. 0 \in T
  OBVIOUS
<1>4. ASSUME NEW k \in 0..(i - 1), k \in T PROVE k + 1 \in T
  <2>1. R[k + 1] = Rise(R[k])
    BY <1>2
  <2>2. R[k + 1] = q
    <3>1. CASE k = 0
      BY <1>2, <2>1, <3>1
    <3>2. CASE k # 0
      <4>1. R[k] = q
        BY <1>4, <3>2
      <4> QED
        BY <2>1, <4>1
    <3> QED
      BY <3>1, <3>2
  <2>3. k + 1 \in 0..i
    OBVIOUS
  <2> QED
    BY <2>2, <2>3
<1>5. i \in T
  <2> HIDE DEF T
  <2> QED
    BY <1>3, <1>4, Induction
<1>6. R[i] = q
  BY <1>5
<1> QED
  BY <1>1, <1>6 DEF SiftUp

\* A search of which a node costs less now.
Cheaper(s, c, u) ==
  /\ SearchTypes(u) /\ u.walk = s.walk /\ u.list = s.list /\ u.size = s.size /\ u.at = s.at
  /\ u.f[c] < s.f[c] /\ \A e \in s.walk : e # c => u.f[e] = s.f[e]

LEMMA CheaperKeeps ==
  ASSUME NEW s, NEW c, NEW u, Cheaper(s, c, u), Places(s), FirstPlace(s)
  PROVE  SearchTypes(u) /\ Places(u) /\ FirstPlace(u)
BY DEF Cheaper, Places, FirstPlace

\* A node behind the first is where it knows.
LEMMA ResortsBehind ==
  ASSUME NEW s, ListKept(s), NEW i \in 2..s.size, NEW c, c = s.list[i], NEW u, Cheaper(s, c, u)
  PROVE  u.at[c] = i /\ RisesAt(u, i)
<1>1. SearchTypes(s) /\ Places(s) /\ FirstPlace(s) /\ Heap(s)
  BY DEF ListKept
<1>2. /\ SearchTypes(u) /\ u.list = s.list /\ u.size = s.size /\ u.at = s.at /\ u.f[c] < s.f[c]
      /\ \A e \in s.walk : e # c => u.f[e] = s.f[e]
  BY DEF Cheaper
<1>3. PICK n, L : n = s.size /\ L = s.list
  OBVIOUS
<1>4. n \in Nat /\ i \in 1..n /\ i \in 2..n /\ \A k \in 1..n : L[k] \in s.walk
  <2>1. s.size \in Nat /\ 1..s.size \subseteq 1..Len(s.list) /\ \A k \in 1..Len(s.list) : s.list[k] \in s.walk
    BY <1>1, ListIs
  <2> QED
    BY <1>3, <2>1
<1>5. s.at[c] = i /\ \A k, l \in 1..n : L[k] = L[l] => k = l
  BY <1>1, <1>3 DEF Places
<1>6. PICK F, G : F = Costs(s) /\ G = Costs(u)
  OBVIOUS
<1>7. F \in [1..n -> Int] /\ G \in [1..n -> Int]
  BY <1>1, <1>2, <1>3, <1>6, CostsAre
<1>8. G[i] <= F[i] /\ \A k \in 1..n : k # i => G[k] = F[k]
  <2>1. \A k \in 1..n : F[k] = s.f[L[k]] /\ G[k] = u.f[L[k]]
    BY <1>2, <1>3, <1>6 DEF Costs, Cost
  <2>2. \A k \in 1..n : k # i => L[k] # c
    BY <1>3, <1>4, <1>5
  <2>3. G[i] < F[i]
    BY <1>2, <1>3, <1>4, <2>1
  <2>4. G[i] <= F[i]
    BY <1>4, <1>7, <2>3
  <2> QED
    BY <1>2, <1>4, <2>1, <2>2, <2>4
<1>9. \A j \in 2..n : j \in 1..n /\ j \div 2 \in 1..n /\ F[j \div 2] <= F[j]
  <2> SUFFICES ASSUME NEW j \in 2..n PROVE j \in 1..n /\ j \div 2 \in 1..n /\ F[j \div 2] <= F[j]
    OBVIOUS
  <2>1. j \in 1..n /\ j \div 2 \in 1..n
    BY <1>4
  <2>2. Cost(s, j \div 2) <= Cost(s, j)
    BY <1>1, <1>3 DEF Heap
  <2> QED
    BY <1>3, <1>6, <2>1, <2>2 DEF Costs
<1>10. ASSUME NEW j \in 2..n, j # i PROVE G[j \div 2] <= G[j]
  <2>1. PICK h : h = j \div 2
    OBVIOUS
  <2>2. h \in 1..n /\ j \in 1..n /\ F[h] <= F[j] /\ G[j] = F[j]
    BY <1>8, <1>9, <1>10, <2>1
  <2>3. G[h] <= F[h]
    BY <1>4, <1>7, <1>8, <2>2
  <2> QED
    BY <1>7, <2>1, <2>2, <2>3
<1>11. ASSUME NEW j \in 2..n, j \div 2 = i PROVE G[i \div 2] <= G[j]
  <2>1. PICK h : h = i \div 2
    OBVIOUS
  <2>2. h \in 1..n /\ j \in 1..n /\ F[h] <= F[i] /\ F[i] <= F[j] /\ h # i /\ j # i
    BY <1>4, <1>9, <1>11, <2>1
  <2>3. G[h] = F[h] /\ G[j] = F[j]
    BY <1>8, <2>2
  <2> QED
    BY <1>4, <1>7, <2>1, <2>2, <2>3
<1>12. RisesIn(G, n, i)
  BY <1>10, <1>11 DEF RisesIn, AboveIn
<1> QED
  BY <1>2, <1>3, <1>5, <1>6, <1>12 DEF RisesAt

\* The first is where it belongs, wherever it is looked for.
LEMMA ResortsFirst ==
  ASSUME NEW s, ListKept(s), s.size # 0, NEW c, c = s.list[1], NEW u, Cheaper(s, c, u), NEW t, t = ResortOpenList(u, c)
  PROVE  Kept(u, t) /\ FirstPlace(t) /\ Heap(t)
<1>1. SearchTypes(s) /\ Places(s) /\ FirstPlace(s) /\ Heap(s)
  BY DEF ListKept
<1>2. /\ SearchTypes(u) /\ u.list = s.list /\ u.size = s.size /\ u.at = s.at /\ u.f[c] < s.f[c]
      /\ \A e \in s.walk : e # c => u.f[e] = s.f[e]
  BY DEF Cheaper
<1>3. Places(u) /\ FirstPlace(u)
  BY <1>1, CheaperKeeps
<1>4. PICK n, len, L, k : n = s.size /\ len = Len(s.list) /\ L = s.list /\ k = u.at[c]
  OBVIOUS
<1>5. n \in Nat /\ n >= 1 /\ len \in Nat /\ n <= len /\ 1 \in 1..n /\ 1 \in 1..len /\ 1..n \subseteq 1..len
      /\ \A j \in 1..len : L[j] \in s.walk
  <2>1. s.size \in Nat /\ Len(s.list) \in Nat /\ s.size <= Len(s.list)
        /\ \A j \in 1..Len(s.list) : s.list[j] \in s.walk
    BY <1>1, ListIs
  <2> QED
    BY <1>4, <2>1
<1>6. k \in 1..3 /\ k <= len /\ k \in 1..len /\ (k > n => L[k] = L[1])
  <2>1. k \in 1..3 /\ k <= len /\ (k > n => L[k] = L[1])
    BY <1>1, <1>2, <1>4, <1>5 DEF FirstPlace
  <2> QED
    BY <1>5, <2>1
<1>7. \A j, l \in 1..n : L[j] = L[l] => j = l
  BY <1>1, <1>4 DEF Places
<1>8. PICK F, G : F = Costs(s) /\ G = Costs(u)
  OBVIOUS
<1>9. F \in [1..n -> Int] /\ G \in [1..n -> Int]
  BY <1>1, <1>2, <1>4, <1>8, CostsAre
<1>10. /\ \A j \in 1..n : F[j] = s.f[L[j]] /\ G[j] = u.f[L[j]]
       /\ G[1] < F[1] /\ \A j \in 1..n : j # 1 => G[j] = F[j]
  <2>1. \A j \in 1..n : F[j] = s.f[L[j]] /\ G[j] = u.f[L[j]]
    BY <1>2, <1>4, <1>8 DEF Costs, Cost
  <2>2. \A j \in 1..n : j # 1 => L[j] # c
    BY <1>4, <1>5, <1>7
  <2> QED
    BY <1>2, <1>4, <1>5, <2>1, <2>2
<1>11. \A j \in 2..n : j \in 1..n /\ j \div 2 \in 1..n /\ F[j \div 2] <= F[j]
  <2> SUFFICES ASSUME NEW j \in 2..n PROVE j \in 1..n /\ j \div 2 \in 1..n /\ F[j \div 2] <= F[j]
    OBVIOUS
  <2>1. j \in 1..n /\ j \div 2 \in 1..n
    BY <1>5
  <2>2. Cost(s, j \div 2) <= Cost(s, j)
    BY <1>1, <1>4 DEF Heap
  <2> QED
    BY <1>4, <1>8, <2>1, <2>2 DEF Costs
<1>12. ASSUME NEW j \in 2..n PROVE G[j \div 2] <= G[j]
  <2>1. PICK h : h = j \div 2
    OBVIOUS
  <2>2. h \in 1..n /\ j \in 1..n /\ F[h] <= F[j] /\ G[j] = F[j]
    BY <1>10, <1>11, <2>1
  <2>3. G[h] = F[h] \/ (h = 1 /\ G[h] < F[h])
    BY <1>10, <2>2
  <2>4. F[h] \in Int /\ G[h] \in Int /\ F[j] \in Int
    BY <1>9, <2>2
  <2> QED
    BY <2>1, <2>2, <2>3, <2>4
<1>13. Heap(u)
  <2>1. \A j \in 2..n : Cost(u, j \div 2) <= Cost(u, j)
    BY <1>2, <1>4, <1>8, <1>11, <1>12 DEF Costs
  <2> QED
    BY <1>2, <1>4, <2>1 DEF Heap
<1>14. PICK b, v, p, q : b = k \div 2 /\ v = SwapNodes(u, b, k) /\ p = [in |-> u, index |-> k] /\ q = Rise(p)
  OBVIOUS
<1>15. q = IF b = 0 \/ Less(u, b, k) THEN p ELSE [in |-> v, index |-> b]
  <2>1. p.in = u /\ p.index = k
    BY <1>14
  <2> QED
    BY <1>14, <2>1, Zenon DEF Rise
<1>16. b = 0 \/ b = 1
  BY <1>6, <1>14
<1>17. CASE k <= n
  <2>1. b = 0 \/ Less(u, b, k)
    <3>1. ASSUME b = 1 PROVE Less(u, b, k)
      <4>1. k \in 2..n /\ k \in 1..n /\ k \div 2 = 1
        BY <1>6, <1>14, <1>17, <3>1
      <4>2. F[1] <= F[k] /\ G[k] = F[k] /\ G[1] < F[1]
        BY <1>10, <1>11, <4>1
      <4>3. G[1] < G[k]
        <5>1. F[1] \in Int /\ G[1] \in Int /\ F[k] \in Int
          BY <1>5, <1>9, <4>1
        <5> QED
          BY <4>2, <5>1
      <4>4. G[1] = u.f[u.list[1]] /\ G[k] = u.f[u.list[k]]
        <5>1. \A j \in 1..n : G[j] = u.f[u.list[j]]
          BY <1>2, <1>8, <1>4 DEF Costs, Cost
        <5> QED
          BY <1>5, <4>1, <5>1, Zenon
      <4> QED
        BY <3>1, <4>3, <4>4 DEF Less
    <3> QED
      BY <1>16, <3>1
  <2>2. q = p
    BY <1>15, <2>1
  <2>3. t = q.in
    <3>1. Rise(q) = q /\ k \in Nat /\ k # 0
      BY <1>6, <1>14, <2>2
    <3>2. t = SiftUp(u, k)
      BY <1>4 DEF ResortOpenList
    <3> QED
      BY <1>14, <3>1, <3>2, RisesOnce
  <2>4. t = u
    BY <1>14, <2>2, <2>3
  <2> QED
    BY <1>2, <1>3, <1>13, <2>4, KeptAll
<1>18. CASE k > n
  <2>1. b = 1 /\ L[k] = L[1] /\ k # 1
    BY <1>5, <1>6, <1>14, <1>18
  <2>2. ~Less(u, b, k)
    <3>1. u.f[L[1]] \in Int
      BY <1>5, <1>9, <1>10
    <3> QED
      BY <1>2, <1>4, <2>1, <3>1 DEF Less
  <2>3. q = [in |-> v, index |-> 1]
    BY <1>15, <2>1, <2>2
  <2>4. Rise(q) = q
    <3>1. q.index = 1 /\ 1 \div 2 = 0
      BY <2>3
    <3> QED
      BY <3>1 DEF Rise
  <2>5. t = v
    <3>1. k \in Nat /\ k # 0
      BY <1>6
    <3>2. t = SiftUp(u, k)
      BY <1>4 DEF ResortOpenList
    <3>3. SiftUp(u, k) = q.in
      BY <1>14, <2>4, <3>1, RisesOnce
    <3> QED
      BY <2>3, <3>2, <3>3
  <2>6. Swapped(u, 1, k, v)
    <3>1. 1 \in 1..Len(u.list) /\ k \in 1..Len(u.list) /\ v = SwapNodes(u, 1, k)
      BY <1>2, <1>4, <1>5, <1>6, <1>14, <2>1
    <3> QED
      BY <1>2, <3>1, SwapIs
  <2>7. /\ SearchTypes(v) /\ SameNodes(u, v) /\ v.size = n /\ Len(v.list) = len
        /\ \A j \in 1..len : v.list[j] = L[j]
        /\ \A e \in u.walk : v.at[e] = IF e = L[1] THEN 1 ELSE u.at[e]
    BY <1>2, <1>4, <2>1, <2>6 DEF Swapped, SameNodes
  <2>8. \A j \in 1..n : j \in 1..len
    BY <1>5
  <2>9. Places(v)
    <3>1. /\ \A j \in 2..n : u.at[L[j]] = j
          /\ \A e \in u.walk : u.at[e] # 0 <=> \E j \in 1..n : L[j] = e
      BY <1>2, <1>3, <1>4 DEF Places
    <3>2. \A j, l \in 1..n : v.list[j] = v.list[l] => j = l
      BY <1>7, <2>7, <2>8
    <3>3. \A j \in 2..n : v.at[v.list[j]] = j
      <4> SUFFICES ASSUME NEW j \in 2..n PROVE v.at[v.list[j]] = j
        OBVIOUS
      <4>1. j \in 1..n /\ j # 1 /\ j \in 1..len
        BY <1>5
      <4>2. v.list[j] = L[j] /\ L[j] # L[1] /\ L[j] \in s.walk
        BY <1>5, <1>7, <2>7, <4>1
      <4>3. s.walk = u.walk
        BY DEF Cheaper
      <4> QED
        BY <2>7, <3>1, <4>2, <4>3
    <3>4. \A e \in u.walk : v.at[e] # 0 <=> \E j \in 1..n : v.list[j] = e
      <4> SUFFICES ASSUME NEW e \in u.walk PROVE v.at[e] # 0 <=> \E j \in 1..n : L[j] = e
        BY <2>7, <2>8
      <4>1. CASE e = L[1]
        BY <1>5, <2>7, <4>1
      <4>2. CASE e # L[1]
        BY <2>7, <3>1, <4>2
      <4> QED
        BY <4>1, <4>2
    <3>5. v.walk = u.walk
      BY <2>7 DEF SameNodes
    <3> QED
      BY <2>7, <3>2, <3>3, <3>4, <3>5 DEF Places
  <2>10. OpenNodes(v) = OpenNodes(u)
    <3>1. OpenNodes(v) = {v.list[j] : j \in 1..n} /\ OpenNodes(u) = {L[j] : j \in 1..n}
      BY <1>2, <1>4, <2>7 DEF OpenNodes
    <3> QED
      BY <2>7, <2>8, <3>1
  <2>11. FirstPlace(v)
    <3>1. v.list[1] = L[1] /\ v.at[L[1]] = 1
      <4>1. L[1] \in u.walk
        BY <1>5 DEF Cheaper
      <4> QED
        BY <1>5, <2>7, <4>1
    <3>2. 1 \in 1..3 /\ 1 <= len /\ ~(1 > n)
      BY <1>5
    <3> QED
      BY <2>7, <3>1, <3>2 DEF FirstPlace
  <2>12. Heap(v)
    <3>1. \A j \in 1..n : Cost(v, j) = Cost(u, j)
      BY <1>2, <1>4, <2>7, <2>8 DEF Cost, SameNodes
    <3>2. \A j \in 2..n : j \in 1..n /\ j \div 2 \in 1..n
      BY <1>5
    <3> QED
      BY <1>2, <1>4, <1>13, <2>7, <3>1, <3>2 DEF Heap
  <2>13. Sorted(u, v)
    BY <1>2, <1>4, <2>7, <2>10 DEF Sorted, SameNodes
  <2> QED
    BY <2>5, <2>7, <2>9, <2>11, <2>12, <2>13 DEF Kept
<1> QED
  BY <1>5, <1>6, <1>17, <1>18

LEMMA ResortKeeps ==
  ASSUME NEW s, ListKept(s), NEW c \in s.walk, s.at[c] # 0, NEW u, Cheaper(s, c, u), NEW t, t = ResortOpenList(u, c)
  PROVE  SameNodes(u, t) /\ ListKept(t) /\ OpenNodes(t) = OpenNodes(s)
<1>1. SearchTypes(s) /\ Places(s) /\ FirstPlace(s)
  BY DEF ListKept
<1>2. SearchTypes(u) /\ Places(u) /\ FirstPlace(u) /\ u.size = s.size /\ u.list = s.list
  BY <1>1, CheaperKeeps DEF Cheaper
<1>3. PICK i \in 1..s.size : s.list[i] = c
  BY <1>1 DEF Places
<1>4. s.size \in Nat
  BY <1>1, ListIs
<1>5. Kept(u, t) /\ FirstPlace(t) /\ Heap(t)
  <2>1. CASE i = 1
    BY <1>3, <1>4, <2>1, ResortsFirst
  <2>2. CASE i # 1
    <3>1. i \in 2..s.size
      BY <1>4, <2>2
    <3>2. u.at[c] = i /\ RisesAt(u, i)
      BY <1>3, <3>1, ResortsBehind
    <3>3. t = SiftUp(u, i) /\ i \in 1..u.size
      BY <1>2, <3>2 DEF ResortOpenList
    <3> QED
      BY <1>2, <3>2, <3>3, SiftUpKeeps
  <2> QED
    BY <2>1, <2>2
<1>6. SameNodes(u, u)
  BY DEF SameNodes
<1>7. OpenNodes(u) = OpenNodes(s)
  BY <1>2 DEF OpenNodes
<1> QED
  BY <1>5, <1>6, <1>7, KeptSame

-----------------------------------------------------------------------------
(* A neighbour is visited, and all of them are. *)

Via(s, c, d) == s.g[c] + NeighborGCost(c, d)
Better(s, c, d) == d \in s.closed \/ d \in OpenNodes(s) => Via(s, c, d) < s.g[d]

\* The way to d over c is taken.
Taken(s, c, d) ==
  [s EXCEPT !.parent[d] = c, !.g[d] = Via(s, c, d), !.f[d] = Via(s, c, d) + HeuristicCostEstimate(d, s.end)]

TakenWell(s, c, d, u) ==
  /\ SearchTypes(u) /\ u.walk = s.walk /\ u.begin = s.begin /\ u.end = s.end /\ u.closed = s.closed
  /\ u.list = s.list /\ u.size = s.size /\ u.at = s.at
  /\ u.parent = [s.parent EXCEPT ![d] = c] /\ u.g = [s.g EXCEPT ![d] = Via(s, c, d)]
  /\ u.f = [s.f EXCEPT ![d] = Via(s, c, d) + HeuristicCostEstimate(d, s.end)]

LEMMA ViaIsInt ==
  ASSUME NEW s, SearchTypes(s), NEW c \in s.walk, NEW d \in s.walk
  PROVE  Via(s, c, d) \in Int /\ HeuristicCostEstimate(d, s.end) \in Int
<1>1. s.g \in [s.walk -> Int] /\ s.walk \subseteq Int \X Int /\ s.end \in Int \X Int
  BY Zenon DEF SearchTypes
<1>2. NeighborGCost(c, d) \in Int
  BY DEF NeighborGCost
<1>3. HeuristicCostEstimate(d, s.end) \in Int
  BY <1>1, EstimateIsInt
<1>4. s.g[c] \in Int
  BY <1>1
<1> QED
  BY <1>2, <1>3, <1>4 DEF Via

LEMMA TakenIs ==
  ASSUME NEW s, SearchTypes(s), NEW c \in s.walk, NEW d \in s.walk, NEW u, u = Taken(s, c, d)
  PROVE  TakenWell(s, c, d, u)
<1>1. PICK v, h, parent, g, f :
        /\ v = Via(s, c, d) /\ h = HeuristicCostEstimate(d, s.end)
        /\ parent = [s.parent EXCEPT ![d] = c] /\ g = [s.g EXCEPT ![d] = v] /\ f = [s.f EXCEPT ![d] = v + h]
  OBVIOUS
<1>2. v \in Int /\ h \in Int
  BY <1>1, ViaIsInt
<1>3. /\ IsSearch(s) /\ s.parent \in [s.walk -> s.walk \cup {NoCell}] /\ s.g \in [s.walk -> Int] /\ s.f \in [s.walk -> Int]
  BY Zenon DEF SearchTypes
<1>4. parent \in [s.walk -> s.walk \cup {NoCell}] /\ g \in [s.walk -> Int] /\ f \in [s.walk -> Int]
  BY <1>1, <1>2, <1>3
<1>5. u = [s EXCEPT !.parent = parent, !.g = g, !.f = f]
  BY <1>1, Zenon DEF Taken
<1>6. /\ IsSearch(u) /\ u.parent = parent /\ u.g = g /\ u.f = f
      /\ u.walk = s.walk /\ u.begin = s.begin /\ u.end = s.end /\ u.closed = s.closed
      /\ u.list = s.list /\ u.size = s.size /\ u.at = s.at
  BY <1>3, <1>5 DEF IsSearch
<1>7. SearchTypes(u)
  <2>1. s.walk \subseteq Int \X Int /\ s.end \in Int \X Int /\ s.closed \subseteq s.walk
        /\ s.list \in Seq(s.walk) /\ s.size \in 0..Len(s.list) /\ s.at \in [s.walk -> Nat]
    BY Zenon DEF SearchTypes
  <2> QED
    BY <1>4, <1>6, <2>1, Zenon DEF SearchTypes
<1> QED
  BY <1>1, <1>6, <1>7, Zenon DEF TakenWell

\* What is on the list knows it is.
LEMMA OpenKnow ==
  ASSUME NEW s, Places(s), NEW d \in s.walk
  PROVE  s.at[d] # 0 <=> d \in OpenNodes(s)
<1>1. s.at[d] # 0 <=> \E i \in 1..s.size : s.list[i] = d
  BY DEF Places
<1> QED
  BY <1>1 DEF OpenNodes

Visited(s, c, d, t) ==
  /\ t.walk = s.walk /\ t.begin = s.begin /\ t.end = s.end /\ t.closed = s.closed
  /\ OpenNodes(t) = OpenNodes(s) \cup {d}
  /\ t.parent = [s.parent EXCEPT ![d] = c] /\ t.g = [s.g EXCEPT ![d] = Via(s, c, d)]
  /\ t.f = [s.f EXCEPT ![d] = Via(s, c, d) + HeuristicCostEstimate(d, s.end)]

LEMMA TakenKeeps ==
  ASSUME NEW s, SearchKept(s), NEW c \in s.walk, NEW d \in s.walk, NEW u, TakenWell(s, c, d, u),
         NEW t, SameNodes(u, t), ListKept(t), OpenNodes(t) = OpenNodes(s) \cup {d}
  PROVE  SearchKept(t) /\ Visited(s, c, d, t)
<1>1. SearchTypes(s) /\ CostsRight(s) /\ SearchTypes(t)
  BY DEF SearchKept, ListKept
<1>2. Visited(s, c, d, t)
  BY Zenon DEF TakenWell, SameNodes, Visited
<1>3. s.g \in [s.walk -> Int] /\ s.f \in [s.walk -> Int] /\ t.walk = s.walk
  BY <1>1, <1>2, Zenon DEF SearchTypes, Visited
<1>4. PICK v, h : v = Via(s, c, d) /\ h = HeuristicCostEstimate(d, s.end)
  OBVIOUS
<1>5. t.g = [s.g EXCEPT ![d] = v] /\ t.f = [s.f EXCEPT ![d] = v + h] /\ t.end = s.end
  BY <1>2, <1>4 DEF Visited
<1>6. OpenNodes(s) \subseteq s.walk
  <2>1. 1..s.size \subseteq 1..Len(s.list) /\ \A k \in 1..Len(s.list) : s.list[k] \in s.walk
    BY <1>1, ListIs
  <2> QED
    BY <2>1 DEF OpenNodes
<1>7. CostsRight(t)
  <2> SUFFICES ASSUME NEW e \in OpenNodes(t) PROVE t.f[e] = t.g[e] + HeuristicCostEstimate(e, t.end)
    BY DEF CostsRight
  <2>1. CASE e = d
    BY <1>3, <1>4, <1>5, <2>1
  <2>2. CASE e # d
    <3>1. e \in OpenNodes(s) /\ e \in s.walk
      BY <1>6, <2>2
    <3>2. s.f[e] = s.g[e] + HeuristicCostEstimate(e, s.end)
      BY <1>1, <3>1 DEF CostsRight
    <3> QED
      BY <1>3, <1>5, <2>2, <3>1, <3>2
  <2> QED
    BY <2>1, <2>2
<1> QED
  BY <1>2, <1>7 DEF SearchKept

LEMMA VisitKeeps ==
  ASSUME NEW s, SearchKept(s), NEW c \in s.walk, NEW d \in s.walk, NEW t, t = Visit(s, c, d)
  PROVE  IF Better(s, c, d) THEN SearchKept(t) /\ Visited(s, c, d, t) ELSE t = s
<1>1. PICK v, u : v = Via(s, c, d) /\ u = Taken(s, c, d)
  OBVIOUS
<1>2. SearchTypes(s) /\ Places(s) /\ FirstPlace(s) /\ Heap(s) /\ CostsRight(s) /\ ListKept(s)
  BY DEF SearchKept, ListKept
<1>3. t = IF d \in s.closed /\ v >= s.g[d] THEN s
          ELSE IF ~(s.at[d] # 0) THEN InsertOpenList(u, d)
          ELSE IF v < s.g[d] THEN ResortOpenList(u, d)
          ELSE s
  BY <1>1 DEF Visit, Via, Taken
<1>4. v \in Int /\ HeuristicCostEstimate(d, s.end) \in Int /\ s.g[d] \in Int /\ s.f \in [s.walk -> Int]
  <2>1. s.g \in [s.walk -> Int] /\ s.f \in [s.walk -> Int]
    BY <1>2, Zenon DEF SearchTypes
  <2> QED
    BY <1>1, <1>2, <2>1, ViaIsInt
<1>5. s.at[d] # 0 <=> d \in OpenNodes(s)
  BY <1>2, OpenKnow
<1>6. TakenWell(s, c, d, u)
  BY <1>1, <1>2, TakenIs
<1>7. SearchTypes(u) /\ u.walk = s.walk /\ u.list = s.list /\ u.size = s.size /\ u.at = s.at
      /\ u.f = [s.f EXCEPT ![d] = v + HeuristicCostEstimate(d, s.end)]
  BY <1>1, <1>6 DEF TakenWell
<1>8. \A e \in s.walk : e # d => u.f[e] = s.f[e]
  BY <1>4, <1>7
<1>9. CASE ~Better(s, c, d)
  <2>1. (d \in s.closed \/ d \in OpenNodes(s)) /\ ~(v < s.g[d])
    BY <1>1, <1>9 DEF Better
  <2>2. v >= s.g[d]
    BY <1>4, <2>1
  <2> QED
    BY <1>3, <1>5, <1>9, <2>1, <2>2
<1>10. CASE Better(s, c, d) /\ d \notin OpenNodes(s)
  <2>1. ~(d \in s.closed /\ v >= s.g[d])
    <3>1. d \in s.closed => v < s.g[d]
      BY <1>1, <1>10 DEF Better
    <3> QED
      BY <1>4, <3>1
  <2>2. t = InsertOpenList(u, d) /\ s.at[d] = 0
    BY <1>3, <1>5, <1>10, <2>1
  <2>3. ListKept(u)
    <3>1. Places(u) /\ FirstPlace(u)
      BY <1>2, <1>7 DEF Places, FirstPlace
    <3>2. \A k \in 1..s.size : Cost(u, k) = Cost(s, k)
      <4>1. \A k \in 1..s.size : s.list[k] # d
        BY <1>10 DEF OpenNodes
      <4>2. \A k \in 1..s.size : s.list[k] \in s.walk
        BY <1>2, ListIs
      <4> QED
        BY <1>7, <1>8, <4>1, <4>2 DEF Cost
    <3>3. \A j \in 2..s.size : j \in 1..s.size /\ j \div 2 \in 1..s.size
      <4>1. s.size \in Nat
        BY <1>2, ListIs
      <4> QED
        BY <4>1
    <3>4. Heap(u)
      BY <1>2, <1>7, <3>2, <3>3 DEF Heap
    <3> QED
      BY <1>7, <3>1, <3>4 DEF ListKept
  <2>4. SameNodes(u, t) /\ ListKept(t) /\ OpenNodes(t) = OpenNodes(u) \cup {d}
    BY <1>7, <2>2, <2>3, InsertKeeps
  <2>5. OpenNodes(u) = OpenNodes(s)
    BY <1>7 DEF OpenNodes
  <2> QED
    BY <1>6, <1>10, <2>4, <2>5, TakenKeeps
<1>11. CASE Better(s, c, d) /\ d \in OpenNodes(s)
  <2>1. v < s.g[d]
    BY <1>1, <1>11 DEF Better
  <2>2. t = ResortOpenList(u, d) /\ s.at[d] # 0
    BY <1>3, <1>4, <1>5, <1>11, <2>1
  <2>3. Cheaper(s, d, u)
    <3>1. s.f[d] = s.g[d] + HeuristicCostEstimate(d, s.end)
      BY <1>2, <1>11 DEF CostsRight
    <3>2. u.f[d] = v + HeuristicCostEstimate(d, s.end)
      BY <1>4, <1>7
    <3>3. u.f[d] < s.f[d]
      BY <1>4, <2>1, <3>1, <3>2
    <3> QED
      BY <1>7, <1>8, <3>3 DEF Cheaper
  <2>4. SameNodes(u, t) /\ ListKept(t) /\ OpenNodes(t) = OpenNodes(s)
    BY <1>2, <2>2, <2>3, ResortKeeps
  <2>5. OpenNodes(t) = OpenNodes(s) \cup {d}
    BY <1>11, <2>4
  <2> QED
    BY <1>6, <1>11, <2>4, <2>5, TakenKeeps
<1> QED
  BY <1>9, <1>10, <1>11

\* What s has become when the ways over c to the nodes of B have been taken.
Reaches(s, c, B, t) ==
  /\ t.walk = s.walk /\ t.begin = s.begin /\ t.end = s.end /\ t.closed = s.closed \cup {c}
  /\ OpenNodes(t) = (OpenNodes(s) \ {c}) \cup B
  /\ t.g = [d \in s.walk |-> IF d \in B THEN Via(s, c, d) ELSE s.g[d]]
  /\ t.f = [d \in s.walk |-> IF d \in B THEN Via(s, c, d) + HeuristicCostEstimate(d, s.end) ELSE s.f[d]]
  /\ t.parent = [d \in s.walk |-> IF d \in B THEN c ELSE s.parent[d]]

LEMMA ReachesOn ==
  ASSUME NEW s, NEW c \in s.walk, NEW B, NEW x, SearchKept(x), Reaches(s, c, B, x),
         NEW d \in s.walk, d # c, d \notin B, c \notin B, NEW y, y = Visit(x, c, d)
  PROVE  SearchKept(y) /\ Reaches(s, c, IF Better(s, c, d) THEN B \cup {d} ELSE B, y)
<1>1. /\ x.walk = s.walk /\ x.begin = s.begin /\ x.end = s.end /\ x.closed = s.closed \cup {c}
      /\ OpenNodes(x) = (OpenNodes(s) \ {c}) \cup B
      /\ x.g = [e \in s.walk |-> IF e \in B THEN Via(s, c, e) ELSE s.g[e]]
      /\ x.f = [e \in s.walk |-> IF e \in B THEN Via(s, c, e) + HeuristicCostEstimate(e, s.end) ELSE s.f[e]]
      /\ x.parent = [e \in s.walk |-> IF e \in B THEN c ELSE s.parent[e]]
  BY DEF Reaches
<1>2. x.g[c] = s.g[c] /\ x.g[d] = s.g[d]
  BY <1>1
<1>3. Via(x, c, d) = Via(s, c, d)
  BY <1>2 DEF Via
<1>4. Better(x, c, d) <=> Better(s, c, d)
  BY <1>1, <1>2, <1>3 DEF Better
<1>5. IF Better(x, c, d) THEN SearchKept(y) /\ Visited(x, c, d, y) ELSE y = x
  BY <1>1, VisitKeeps
<1>6. CASE ~Better(s, c, d)
  BY <1>4, <1>5, <1>6
<1>7. CASE Better(s, c, d)
  <2>1. SearchKept(y) /\ Visited(x, c, d, y)
    BY <1>4, <1>5, <1>7
  <2>2. PICK v, h : v = Via(s, c, d) /\ h = HeuristicCostEstimate(d, s.end)
    OBVIOUS
  <2>3. /\ y.walk = s.walk /\ y.begin = s.begin /\ y.end = s.end /\ y.closed = s.closed \cup {c}
        /\ OpenNodes(y) = OpenNodes(x) \cup {d}
        /\ y.parent = [x.parent EXCEPT ![d] = c] /\ y.g = [x.g EXCEPT ![d] = v] /\ y.f = [x.f EXCEPT ![d] = v + h]
    BY <1>1, <1>3, <2>1, <2>2 DEF Visited
  <2>4. OpenNodes(y) = (OpenNodes(s) \ {c}) \cup (B \cup {d})
    BY <1>1, <2>3
  <2>5. y.g = [e \in s.walk |-> IF e \in B \cup {d} THEN Via(s, c, e) ELSE s.g[e]]
    BY <1>1, <2>2, <2>3
  <2>6. y.f = [e \in s.walk |-> IF e \in B \cup {d} THEN Via(s, c, e) + HeuristicCostEstimate(e, s.end) ELSE s.f[e]]
    BY <1>1, <2>2, <2>3
  <2>7. y.parent = [e \in s.walk |-> IF e \in B \cup {d} THEN c ELSE s.parent[e]]
    BY <1>1, <2>3
  <2>8. Reaches(s, c, B \cup {d}, y)
    BY <2>3, <2>4, <2>5, <2>6, <2>7, Zenon DEF Reaches
  <2> QED
    BY <1>7, <2>1, <2>8
<1> QED
  BY <1>6, <1>7

\* The neighbours, place by place.
LEMMA NodesAre ==
  ASSUME NEW walk, walk \subseteq Int \X Int, NEW c \in walk, NEW nodes, nodes = GetNeighborNodes(walk, c)
  PROVE  /\ DOMAIN nodes \subseteq 1..9
         /\ \A i \in DOMAIN nodes : nodes[i] \in walk /\ nodes[i] # c
         /\ \A i, j \in DOMAIN nodes : nodes[i] = nodes[j] => i = j
         /\ {nodes[i] : i \in DOMAIN nodes} = Open!GetNeighborNodes(walk, c)
<1>1. PICK a, b : c = <<a, b>> /\ a \in Int /\ b \in Int
  OBVIOUS
<1> DEFINE around == [i \in 1..9 |-> <<(c[1] - 1) + ((i - 1) % 3), (c[2] - 1) + ((i - 1) \div 3)>>]
           D == {k \in 1..9 : around[k] # c /\ around[k] \in walk}
<1>2. nodes = [i \in D |-> around[i]]
  BY DEF GetNeighborNodes
<1>3. \A i \in 1..9 : around[i] = <<(a - 1) + ((i - 1) % 3), (b - 1) + ((i - 1) \div 3)>>
  BY <1>1
<1> HIDE DEF around
<1>4. DOMAIN nodes = D /\ \A i \in D : nodes[i] = around[i] /\ i \in 1..9 /\ around[i] # c /\ around[i] \in walk
  BY <1>2
<1>5. ASSUME NEW i \in 1..9 PROVE /\ (i - 1) % 3 \in 0..2 /\ (i - 1) \div 3 \in 0..2
                                  /\ i = 1 + ((i - 1) % 3) + 3 * ((i - 1) \div 3)
  OBVIOUS
<1>6. ASSUME NEW i \in 1..9, NEW j \in 1..9, around[i] = around[j] PROVE i = j
  <2>1. PICK x, y, z, w : x = (i - 1) % 3 /\ y = (i - 1) \div 3 /\ z = (j - 1) % 3 /\ w = (j - 1) \div 3
    OBVIOUS
  <2>2. /\ x \in 0..2 /\ y \in 0..2 /\ i = 1 + x + 3 * y
        /\ z \in 0..2 /\ w \in 0..2 /\ j = 1 + z + 3 * w
    BY <1>5, <2>1
  <2>3. <<(a - 1) + x, (b - 1) + y>> = <<(a - 1) + z, (b - 1) + w>>
    BY <1>3, <1>6, <2>1
  <2> QED
    BY <1>1, <2>2, <2>3
<1>7. ASSUME NEW d \in walk, d # c, d[1] - c[1] \in -1..1, d[2] - c[2] \in -1..1 PROVE \E i \in D : around[i] = d
  <2>1. PICK x, y : d = <<x, y>> /\ x \in Int /\ y \in Int
    OBVIOUS
  <2>2. PICK p, q : p = x - a + 1 /\ q = y - b + 1 /\ p \in 0..2 /\ q \in 0..2
    <3>1. x - a \in -1..1 /\ y - b \in -1..1
      BY <1>1, <1>7, <2>1
    <3> QED
      BY <1>1, <2>1, <3>1
  <2>3. PICK i : i = 1 + p + 3 * q
    OBVIOUS
  <2>4. i \in 1..9 /\ (i - 1) % 3 = p /\ (i - 1) \div 3 = q
    BY <2>2, <2>3
  <2>5. (a - 1) + p = x /\ (b - 1) + q = y
    BY <1>1, <2>1, <2>2
  <2>6. around[i] = d
    BY <1>3, <2>1, <2>4, <2>5
  <2> QED
    BY <1>7, <2>4, <2>6
<1>8. ASSUME NEW i \in D PROVE around[i][1] - c[1] \in -1..1 /\ around[i][2] - c[2] \in -1..1
  <2>1. PICK x, y : x = (i - 1) % 3 /\ y = (i - 1) \div 3 /\ x \in 0..2 /\ y \in 0..2
    BY <1>5
  <2>2. around[i][1] = (a - 1) + x /\ around[i][2] = (b - 1) + y
    BY <1>3, <2>1
  <2>3. c[1] = a /\ c[2] = b
    BY <1>1
  <2> QED
    BY <1>1, <2>1, <2>2, <2>3
<1>9. {nodes[i] : i \in DOMAIN nodes} = {around[i] : i \in D}
  BY <1>4
<1>10. {around[i] : i \in D} = Open!GetNeighborNodes(walk, c)
  BY <1>4, <1>7, <1>8 DEF Open!GetNeighborNodes
<1> HIDE DEF D
<1>11. DOMAIN nodes \subseteq 1..9
  BY <1>4
<1>12. \A i \in DOMAIN nodes : nodes[i] \in walk /\ nodes[i] # c
  BY <1>4
<1>13. \A i, j \in DOMAIN nodes : nodes[i] = nodes[j] => i = j
  <2>1. \A i \in DOMAIN nodes : i \in 1..9 /\ nodes[i] = around[i]
    BY <1>4
  <2> QED
    BY <1>6, <2>1
<1> QED
  BY <1>9, <1>10, <1>11, <1>12, <1>13, Zenon

LEMMA VisitingKeeps ==
  ASSUME NEW s, SearchTypes(s), NEW c \in s.walk, NEW w, SearchKept(w), Reaches(s, c, {}, w),
         NEW t, t = Visiting(w, c)[9]
  PROVE  SearchKept(t) /\ Reaches(s, c, {d \in Open!GetNeighborNodes(s.walk, c) : Better(s, c, d)}, t)
<1>1. PICK V, nodes : V = Visiting(w, c) /\ nodes = GetNeighborNodes(s.walk, c)
  OBVIOUS
<1> DEFINE B(k) == {nodes[i] : i \in {m \in DOMAIN nodes : m <= k}} \cap {d \in s.walk : Better(s, c, d)}
           T == {k \in 0..9 : SearchKept(V[k]) /\ Reaches(s, c, B(k), V[k])}
<1>2. w.walk = s.walk
  BY DEF Reaches
<1>3. V[0] = w /\ \A k \in 0..(9 - 1) : V[k + 1] = IF k + 1 \in DOMAIN nodes THEN Visit(V[k], c, nodes[k + 1]) ELSE V[k]
  <2>1. V = [k \in 0..9 |-> IF k = 0 THEN w ELSE IF k \in DOMAIN nodes THEN Visit(V[k - 1], c, nodes[k]) ELSE V[k - 1]]
    BY <1>1, <1>2, VisitingIs
  <2>2. \A k \in 0..(9 - 1) : k + 1 \in 0..9 /\ k + 1 # 0 /\ (k + 1) - 1 = k
    OBVIOUS
  <2>3. V[0] = w
    BY <2>1
  <2>4. \A k \in 0..(9 - 1) : V[k + 1] = IF k + 1 \in DOMAIN nodes THEN Visit(V[(k + 1) - 1], c, nodes[k + 1]) ELSE V[(k + 1) - 1]
    BY <2>1, <2>2
  <2> QED
    BY <2>2, <2>3, <2>4
<1>4. /\ DOMAIN nodes \subseteq 1..9
      /\ \A i \in DOMAIN nodes : nodes[i] \in s.walk /\ nodes[i] # c
      /\ \A i, j \in DOMAIN nodes : nodes[i] = nodes[j] => i = j
      /\ {nodes[i] : i \in DOMAIN nodes} = Open!GetNeighborNodes(s.walk, c)
  <2>1. s.walk \subseteq Int \X Int
    BY Zenon DEF SearchTypes
  <2> QED
    BY <1>1, <2>1, NodesAre
<1>5. 0 \in T
  <2>1. B(0) = {}
    BY <1>4
  <2> HIDE DEF B
  <2> QED
    BY <1>3, <2>1
<1>6. ASSUME NEW k \in 0..(9 - 1), k \in T PROVE k + 1 \in T
  <2>1. k + 1 \in 0..9 /\ SearchKept(V[k]) /\ Reaches(s, c, B(k), V[k])
    BY <1>6
  <2>2. CASE k + 1 \notin DOMAIN nodes
    <3>1. V[k + 1] = V[k]
      BY <1>3, <2>2
    <3>2. B(k + 1) = B(k)
      <4>1. \A m \in DOMAIN nodes : m <= k + 1 <=> m <= k
        BY <1>4, <2>2
      <4> QED
        BY <4>1
    <3> HIDE DEF B
    <3> QED
      BY <2>1, <3>1, <3>2
  <2>3. CASE k + 1 \in DOMAIN nodes
    <3>1. PICK d, x, y : d = nodes[k + 1] /\ x = V[k] /\ y = V[k + 1]
      OBVIOUS
    <3>2. d \in s.walk /\ d # c /\ y = Visit(x, c, d)
      BY <1>3, <1>4, <2>3, <3>1
    <3>3. d \notin B(k)
      <4>1. \A m \in DOMAIN nodes : m <= k => nodes[m] # d
        BY <1>4, <2>3, <3>1
      <4> QED
        BY <4>1
    <3>4. c \notin B(k)
      BY <1>4
    <3>5. B(k + 1) = IF Better(s, c, d) THEN B(k) \cup {d} ELSE B(k)
      <4>1. \A m \in DOMAIN nodes : m <= k + 1 <=> m <= k \/ m = k + 1
        BY <1>4
      <4>2. {nodes[i] : i \in {m \in DOMAIN nodes : m <= k + 1}} = {nodes[i] : i \in {m \in DOMAIN nodes : m <= k}} \cup {d}
        BY <2>3, <3>1, <4>1
      <4> QED
        BY <3>2, <4>2
    <3> HIDE DEF B
    <3>6. PICK b, e : b = B(k) /\ e = IF Better(s, c, d) THEN b \cup {d} ELSE b
      OBVIOUS
    <3>7. SearchKept(x) /\ Reaches(s, c, b, x) /\ d \notin b /\ c \notin b
      BY <2>1, <3>1, <3>3, <3>4, <3>6
    <3>8. SearchKept(y) /\ Reaches(s, c, e, y)
      BY <3>2, <3>6, <3>7, ReachesOn
    <3>9. B(k + 1) = e
      BY <3>5, <3>6
    <3> QED
      BY <2>1, <3>1, <3>8, <3>9
  <2> QED
    BY <2>2, <2>3
<1>7. 9 \in T
  <2> HIDE DEF T
  <2> QED
    BY <1>5, <1>6, Induction
<1>8. B(9) = {d \in Open!GetNeighborNodes(s.walk, c) : Better(s, c, d)}
  <2>1. {nodes[i] : i \in {m \in DOMAIN nodes : m <= 9}} = {nodes[i] : i \in DOMAIN nodes}
    BY <1>4
  <2>2. \A d \in Open!GetNeighborNodes(s.walk, c) : d \in s.walk
    BY <1>4
  <2> QED
    BY <1>4, <2>1, <2>2
<1> HIDE DEF B
<1> QED
  BY <1>1, <1>7, <1>8

\* What AStar sees of a search.
Seen(s) ==
  [walk |-> s.walk, begin |-> s.begin, end |-> s.end, open |-> OpenNodes(s), closed |-> s.closed,
   g |-> s.g, f |-> s.f, parent |-> s.parent]

LEMMA ExpandKeeps ==
  ASSUME NEW s, SearchKept(s), ~SearchDone(s), NEW c, c = s.list[1], NEW t, t = Expand(s)
  PROVE  SearchKept(t) /\ c \in Open!Least(Seen(s)) \ {s.end} /\ Seen(t) = Open!Expand(Seen(s), c)
<1>1. SearchTypes(s) /\ ListKept(s) /\ CostsRight(s)
  BY DEF SearchKept, ListKept
<1>2. s.size # 0 /\ c # s.end
  BY DEF SearchDone
<1>3. c \in OpenNodes(s) /\ c \in s.walk /\ \A d \in OpenNodes(s) : s.f[c] <= s.f[d]
  BY <1>1, <1>2, FirstCostsLeast
<1>4. PICK u, w : u = DeleteMinFScoreNodeInOpenList(s) /\ w = [u EXCEPT !.closed = @ \cup {c}]
  OBVIOUS
<1>5. SameNodes(s, u) /\ ListKept(u) /\ OpenNodes(u) = OpenNodes(s) \ {c}
  BY <1>1, <1>2, <1>4, DeleteKeeps
<1>6. /\ IsSearch(w) /\ w.closed = u.closed \cup {c} /\ w.walk = u.walk /\ w.begin = u.begin /\ w.end = u.end
      /\ w.list = u.list /\ w.size = u.size /\ w.at = u.at /\ w.g = u.g /\ w.f = u.f /\ w.parent = u.parent
  <2>1. IsSearch(u)
    BY <1>5 DEF ListKept, SearchTypes
  <2> QED
    BY <1>4, <2>1 DEF IsSearch
<1>7. /\ w.walk = s.walk /\ w.begin = s.begin /\ w.end = s.end /\ w.closed = s.closed \cup {c}
      /\ w.g = s.g /\ w.f = s.f /\ w.parent = s.parent /\ OpenNodes(w) = OpenNodes(s) \ {c}
  <2>1. OpenNodes(w) = OpenNodes(u)
    BY <1>6 DEF OpenNodes
  <2> QED
    BY <1>5, <1>6, <2>1 DEF SameNodes
<1>8. SearchKept(w)
  <2>1. SearchTypes(w)
    <3>1. /\ u.walk \subseteq Int \X Int /\ u.end \in Int \X Int
          /\ u.list \in Seq(u.walk) /\ u.size \in 0..Len(u.list)
          /\ u.at \in [u.walk -> Nat] /\ u.closed \subseteq u.walk
          /\ u.g \in [u.walk -> Int] /\ u.f \in [u.walk -> Int]
          /\ u.parent \in [u.walk -> u.walk \cup {NoCell}]
      BY <1>5, Zenon DEF ListKept, SearchTypes
    <3>2. w.closed \subseteq w.walk
      BY <1>3, <1>6, <1>7, <3>1
    <3> QED
      BY <1>6, <3>1, <3>2, Zenon DEF SearchTypes
  <2>2. Places(w) /\ FirstPlace(w) /\ Heap(w)
    BY <1>5, <1>6 DEF ListKept, Places, FirstPlace, Heap, Cost
  <2>3. CostsRight(w)
    BY <1>1, <1>7 DEF CostsRight
  <2> QED
    BY <2>1, <2>2, <2>3 DEF SearchKept, ListKept
<1>9. Reaches(s, c, {}, w)
  <2>1. s.g \in [s.walk -> Int] /\ s.f \in [s.walk -> Int] /\ s.parent \in [s.walk -> s.walk \cup {NoCell}]
    BY <1>1, Zenon DEF SearchTypes
  <2>2. /\ s.g = [d \in s.walk |-> IF d \in {} THEN Via(s, c, d) ELSE s.g[d]]
        /\ s.f = [d \in s.walk |-> IF d \in {} THEN Via(s, c, d) + HeuristicCostEstimate(d, s.end) ELSE s.f[d]]
        /\ s.parent = [d \in s.walk |-> IF d \in {} THEN c ELSE s.parent[d]]
    BY <2>1
  <2>3. OpenNodes(w) = (OpenNodes(s) \ {c}) \cup {}
    BY <1>7
  <2> QED
    BY <1>7, <2>2, <2>3 DEF Reaches
<1>10. t = Visiting(w, c)[9]
  BY <1>4 DEF Expand
<1> DEFINE B == {d \in Open!GetNeighborNodes(s.walk, c) : Better(s, c, d)}
<1>11. SearchKept(t) /\ Reaches(s, c, B, t)
  BY <1>1, <1>3, <1>8, <1>9, <1>10, VisitingKeeps
<1>12. PICK a : a = Seen(s)
  OBVIOUS
<1>13. /\ a.walk = s.walk /\ a.begin = s.begin /\ a.end = s.end /\ a.open = OpenNodes(s) /\ a.closed = s.closed
       /\ a.g = s.g /\ a.f = s.f /\ a.parent = s.parent
  BY <1>12 DEF Seen
<1>14. \A d : Open!ViaCost(a, c, d) = Via(s, c, d)
  BY <1>13 DEF Open!ViaCost, Via, Open!NeighborGCost, NeighborGCost
<1>15. \A d, e : Open!HeuristicCostEstimate(d, e) = HeuristicCostEstimate(d, e)
  BY DEF Open!HeuristicCostEstimate, HeuristicCostEstimate
<1>16. Open!Opens(a, c) \cup Open!Resorts(a, c) = B
  BY <1>13, <1>14 DEF Open!Opens, Open!Resorts, Better
<1>17. Open!Expand(a, c) =
         [walk |-> s.walk, begin |-> s.begin, end |-> s.end, open |-> (OpenNodes(s) \ {c}) \cup B,
          closed |-> s.closed \cup {c},
          g |-> [d \in s.walk |-> IF d \in B THEN Via(s, c, d) ELSE s.g[d]],
          f |-> [d \in s.walk |-> IF d \in B THEN Via(s, c, d) + HeuristicCostEstimate(d, s.end) ELSE s.f[d]],
          parent |-> [d \in s.walk |-> IF d \in B THEN c ELSE s.parent[d]]]
  <2> HIDE DEF B
  <2>1. PICK g, f, parent :
          /\ g = [d \in s.walk |-> IF d \in B THEN Via(s, c, d) ELSE s.g[d]]
          /\ f = [d \in s.walk |-> IF d \in B THEN Via(s, c, d) + HeuristicCostEstimate(d, s.end) ELSE s.f[d]]
          /\ parent = [d \in s.walk |-> IF d \in B THEN c ELSE s.parent[d]]
    OBVIOUS
  <2>2. /\ g = [d \in a.walk |-> IF d \in B THEN Open!ViaCost(a, c, d) ELSE a.g[d]]
        /\ f = [d \in a.walk |-> IF d \in B THEN g[d] + Open!HeuristicCostEstimate(d, a.end) ELSE a.f[d]]
        /\ parent = [d \in a.walk |-> IF d \in B THEN c ELSE a.parent[d]]
    BY <1>13, <1>14, <1>15, <2>1
  <2>3. Open!Expand(a, c) = [Open!Close(a, c) EXCEPT !.open = @ \cup B, !.g = g, !.f = f, !.parent = parent]
    BY <1>16, <2>2 DEF Open!Expand
  <2>4. Open!Close(a, c) = [a EXCEPT !.open = @ \ {c}, !.closed = @ \cup {c}]
    BY DEF Open!Close
  <2>5. a = [walk |-> s.walk, begin |-> s.begin, end |-> s.end, open |-> OpenNodes(s), closed |-> s.closed,
             g |-> s.g, f |-> s.f, parent |-> s.parent]
    BY <1>12 DEF Seen
  <2>6. PICK h : h = Open!Close(a, c)
    OBVIOUS
  <2>7. h = [walk |-> s.walk, begin |-> s.begin, end |-> s.end, open |-> OpenNodes(s) \ {c},
             closed |-> s.closed \cup {c}, g |-> s.g, f |-> s.f, parent |-> s.parent]
    BY <2>4, <2>5, <2>6
  <2>8. Open!Expand(a, c) = [h EXCEPT !.open = @ \cup B, !.g = g, !.f = f, !.parent = parent]
    BY <2>3, <2>6, Zenon
  <2>9. Open!Expand(a, c) =
          [walk |-> s.walk, begin |-> s.begin, end |-> s.end, open |-> (OpenNodes(s) \ {c}) \cup B,
           closed |-> s.closed \cup {c}, g |-> g, f |-> f, parent |-> parent]
    BY <2>7, <2>8
  <2> QED
    BY <2>1, <2>9, Zenon
<1>18. Seen(t) = Open!Expand(a, c)
  <2> HIDE DEF B
  <2> QED
    BY <1>11, <1>17, Zenon DEF Seen, Reaches
<1>19. c \in Open!Least(a) \ {s.end}
  BY <1>2, <1>3, <1>13 DEF Open!Least
<1> QED
  BY <1>11, <1>12, <1>18, <1>19

LEMMA SearchBegins ==
  ASSUME NEW walk, walk \subseteq Int \X Int, NEW begin \in walk, NEW end \in Int \X Int,
         NEW t, t = SearchBegin(walk, begin, end)
  PROVE  SearchKept(t)
<1>1. PICK h, zero, f, parent :
        /\ h = HeuristicCostEstimate(begin, end) /\ zero = [c \in walk |-> 0]
        /\ f = [zero EXCEPT ![begin] = h] /\ parent = [c \in walk |-> NoCell]
  OBVIOUS
<1>2. h \in Int
  BY <1>1, EstimateIsInt
<1>3. PICK s : s = [walk |-> walk, begin |-> begin, end |-> end, list |-> << >>, size |-> 0,
                    at |-> zero, closed |-> {}, g |-> zero, f |-> f, parent |-> parent]
  OBVIOUS
<1>4. /\ IsSearch(s) /\ s.walk = walk /\ s.end = end /\ s.list = << >> /\ s.size = 0
      /\ s.at = zero /\ s.closed = {} /\ s.g = zero /\ s.f = f /\ s.parent = parent
  BY <1>3 DEF IsSearch
<1>5. t = InsertOpenList(s, begin)
  BY <1>1, <1>3 DEF SearchBegin
<1>6. /\ zero \in [walk -> Nat] /\ zero \in [walk -> Int] /\ f \in [walk -> Int]
      /\ parent \in [walk -> walk \cup {NoCell}]
  BY <1>1, <1>2
<1>7. OpenNodes(s) = {} /\ 1..s.size = {} /\ 2..s.size = {} /\ ~(s.size > 0)
  BY <1>4 DEF OpenNodes
<1>8. ListKept(s)
  <2>1. s.list \in Seq(s.walk) /\ s.size \in 0..Len(s.list)
    BY <1>4
  <2>2. SearchTypes(s)
    BY <1>4, <1>6, <2>1 DEF SearchTypes
  <2>3. \A c \in s.walk : s.at[c] = 0
    BY <1>1, <1>4
  <2>4. Places(s) /\ FirstPlace(s) /\ Heap(s)
    BY <1>7, <2>3, Zenon DEF Places, FirstPlace, Heap
  <2> QED
    BY <2>2, <2>4 DEF ListKept
<1>9. begin \in s.walk /\ s.at[begin] = 0
  BY <1>1, <1>4
<1>10. SameNodes(s, t) /\ ListKept(t) /\ OpenNodes(t) = {begin}
  BY <1>5, <1>7, <1>8, <1>9, InsertKeeps
<1>11. CostsRight(t)
  <2>1. t.g = zero /\ t.f = f /\ t.end = end
    BY <1>4, <1>10 DEF SameNodes
  <2>2. f[begin] = h /\ zero[begin] = 0
    BY <1>1
  <2>3. h = 0 + h
    BY <1>2
  <2> QED
    BY <1>1, <1>10, <2>1, <2>2, <2>3 DEF CostsRight
<1> QED
  BY <1>10, <1>11 DEF SearchKept

\* In every search of a scene the open list is a heap whose costs and positions can be relied
\* on: what InsertOpenList, DeleteMinFScoreNodeInOpenList and ResortOpenList leave behind.
THEOREM SearchKeptCorrect == SearchSpec => []SearchKept(search)
<1>1. SearchInit => SearchKept(search)
  <2> SUFFICES ASSUME NEW q \in Searches, search = SearchBegin(q[1], q[2], q[3])
               PROVE  SearchKept(search)
    BY DEF SearchInit
  <2>1. q[1] \subseteq Int \X Int /\ q[2] \in q[1] /\ q[3] \in Int \X Int
    BY SearchAssumption
  <2> QED
    BY <2>1, SearchBegins
<1>2. SearchKept(search) /\ [SearchNext]_search => SearchKept(search)'
  <2> SUFFICES ASSUME SearchKept(search), [SearchNext]_search PROVE SearchKept(search')
    BY DEF SearchKept, ListKept, CostsRight, SearchTypes, IsSearch, Places, FirstPlace, Heap, Cost, OpenNodes
  <2>1. CASE search' = search
    BY <2>1
  <2>2. CASE SearchNext
    <3>1. ~SearchDone(search) /\ search' = Expand(search)
      BY <2>2 DEF SearchNext
    <3> QED
      BY <3>1, ExpandKeeps
  <2> QED
    BY <2>1, <2>2
<1> QED
  BY <1>1, <1>2, PTL DEF SearchSpec

\* The binary heap of Scene (InsertOpenList, DeleteMinFScoreNodeInOpenList, ResortOpenList)
\* is in order and every node but the first knows its position in it.
THEOREM OpenListKeptCorrect == SearchSpec => []OpenListKept
<1>1. SearchKept(search) => OpenListKept
  <2> SUFFICES ASSUME SearchKept(search) PROVE OpenListKept
    OBVIOUS
  <2>1. Places(search) /\ Heap(search)
    BY DEF SearchKept, ListKept
  <2> QED
    BY <2>1 DEF OpenListKept, Places, Heap, Cost
<1> QED
  BY <1>1, SearchKeptCorrect, PTL

\* An iteration of Scene::SearchPath with its heap is a step of A* with a set: it takes a
\* node of the least f, and opens, closes and connects what AStar does.
THEOREM SearchIsAStarCorrect == SearchSpec => SearchIsAStar
<1>1. SearchKept(search) /\ [SearchNext]_search => [search # NoSearch => Open!AStarNext]_search
  <2> SUFFICES ASSUME SearchKept(search), SearchNext PROVE Open!AStarNext
    OBVIOUS
  <2>1. PICK c : c = search.list[1]
    OBVIOUS
  <2>2. ~SearchDone(search) /\ search' = Expand(search)
    BY DEF SearchNext
  <2>3. /\ c \in Open!Least(Seen(search)) \ {search.end}
        /\ Seen(search') = Open!Expand(Seen(search), c)
    BY <2>1, <2>2, ExpandKeeps
  <2>4. Seen(search).end = search.end
    BY DEF Seen
  <2> QED
    BY <2>3, <2>4 DEF Open!AStarNext, Seen, OpenNodes
<1> QED
  BY <1>1, SearchKeptCorrect, PTL DEF SearchSpec, SearchIsAStar

=============================================================================
