------------------------- MODULE TimingWheelProofs --------------------------
(***************************************************************************)
(* Proofs about TimingWheel, for wheels of any number and size, any clock  *)
(* and any timers: where a timer is listed, that the wheels implement      *)
(* TimerService, that no timer is overdue and that repeated ones keep      *)
(* their distance.                                                         *)
(***************************************************************************)
EXTENDS TimingWheel, WellFoundedInduction, SequenceTheorems, TLAPS

-----------------------------------------------------------------------------
(* Spans. *)

\* What induction over the wheels rests on: a set of numbers has a least one.
LEMMA LeastNat ==
  ASSUME NEW T, T \subseteq Nat, T # {}
  PROVE  \E n \in T : \A m \in T : n <= m
<1> DEFINE R == OpToRel(<, Nat)
<1>1. IsWellFoundedOn(R, Nat)
  BY NatLessThanWellFounded
<1>2. \A x, y \in Nat : x < y => <<x, y>> \in R
  BY DEF OpToRel
<1> HIDE DEF R
<1>3. PICK n \in T : \A y \in T : ~ (<<y, n>> \in R)
  BY <1>1, WFMin
<1>4. ASSUME NEW m \in T PROVE ~(m < n)
  BY <1>2, <1>3, Zenon
<1>5. ASSUME NEW m \in T PROVE n <= m
  BY <1>4
<1> QED
  BY <1>5

LEMMA Induction ==
  ASSUME NEW T, 0 \in T, NEW n \in Nat, \A m \in 0..(n - 1) : m \in T => m + 1 \in T
  PROVE  n \in T
<1> DEFINE U == {m \in 0..n : m \notin T}
<1> SUFFICES ASSUME n \notin T PROVE FALSE
  OBVIOUS
<1>1. U # {} /\ U \subseteq Nat
  OBVIOUS
<1>2. PICK m \in U : \A k \in U : m <= k
  <2> HIDE DEF U
  <2> QED
    BY <1>1, LeastNat
<1>3. m # 0 /\ m - 1 \in 0..(n - 1)
  OBVIOUS
<1>4. m - 1 \in T
  BY <1>2, <1>3
<1> QED
  BY <1>3, <1>4

LEMMA BucketNumType ==
  /\ NumWheels \in Nat \ {0}
  /\ \A i \in Wheels : BucketNum[i] \in Nat \ {0}
BY TimingWheelAssumption DEF NumWheels, Wheels

\* The recursive definition of Span has a solution, and so it is one.
LEMMA SpanDef ==
  Span = [i \in 0..NumWheels |-> IF i = 0 THEN 1 ELSE Span[i - 1] * BucketNum[i]]
<1> DEFINE Is(f, n) == f = [i \in 0..n |-> IF i = 0 THEN 1 ELSE f[i - 1] * BucketNum[i]]
           T == {n \in 0..NumWheels : \E f : Is(f, n)}
<1>1. 0 \in T
  <2>1. Is([i \in 0..0 |-> 1], 0)
    OBVIOUS
  <2>2. 0 \in 0..NumWheels
    BY BucketNumType
  <2> HIDE DEF Is
  <2> QED
    BY <2>1, <2>2
<1>2. ASSUME NEW m \in 0..(NumWheels - 1), m \in T
      PROVE  m + 1 \in T
  <2>1. PICK f : Is(f, m)
    BY <1>2
  <2> DEFINE g == [i \in 0..(m + 1) |-> IF i = m + 1 THEN f[m] * BucketNum[m + 1] ELSE f[i]]
  <2>2. \A i \in 0..(m + 1) : g[i] = IF i = 0 THEN 1 ELSE g[i - 1] * BucketNum[i]
    BY <2>1
  <2>3. Is(g, m + 1)
    BY <2>2
  <2>4. m + 1 \in 0..NumWheels
    BY BucketNumType
  <2> HIDE DEF Is
  <2> QED
    BY <2>3, <2>4
<1>3. \E f : Is(f, NumWheels)
  <2> HIDE DEF Is
  <2>1. NumWheels \in T
    <3> HIDE DEF T
    <3> QED
      BY <1>1, <1>2, BucketNumType, Induction
  <2> QED
    BY <2>1
<1> QED
  BY <1>3 DEF Span

\* Spans are positive and grow from wheel to wheel.
LEMMA SpanGrows ==
  /\ Span[0] = 1
  /\ \A i \in 0..NumWheels : Span[i] \in Nat \ {0}
  /\ \A i \in Wheels : Span[i] = Span[i - 1] * BucketNum[i] /\ Span[i - 1] <= Span[i]
<1>1. /\ Span[0] = 1
      /\ \A i \in Wheels : Span[i] = Span[i - 1] * BucketNum[i]
  BY SpanDef, BucketNumType DEF Wheels
<1> DEFINE T == {n \in Nat : n <= NumWheels => Span[n] \in Nat \ {0}}
<1>2. 0 \in T
  BY <1>1
<1>3. ASSUME NEW m \in Nat, m \in T PROVE m + 1 \in T
  <2> SUFFICES ASSUME m + 1 <= NumWheels PROVE Span[m + 1] \in Nat \ {0}
    OBVIOUS
  <2>1. Span[m] \in Nat \ {0} /\ m + 1 \in Wheels
    BY <1>3, BucketNumType DEF Wheels
  <2>2. Span[m + 1] = Span[m] * BucketNum[m + 1] /\ BucketNum[m + 1] \in Nat \ {0}
    BY <1>1, <2>1, BucketNumType
  <2>3. \A a, b \in Nat \ {0} : a * b \in Nat \ {0}
    OBVIOUS
  <2> QED
    BY <2>1, <2>2, <2>3
<1>4. ASSUME NEW n \in Nat PROVE n \in T
  <2> HIDE DEF T
  <2> QED
    BY <1>2, <1>3, Induction
<1>5. \A i \in 0..NumWheels : Span[i] \in Nat \ {0}
  BY <1>4, BucketNumType
<1>6. ASSUME NEW i \in Wheels PROVE Span[i - 1] <= Span[i]
  <2>1. \A a, b \in Nat \ {0} : a <= a * b
    OBVIOUS
  <2> QED
    BY <1>1, <1>5, <2>1, BucketNumType DEF Wheels
<1> QED
  BY <1>1, <1>5, <1>6

LEMMA SpanWithin ==
  ASSUME NEW i \in 0..NumWheels
  PROVE  Span[i] <= Span[NumWheels]
<1> DEFINE T == {n \in Nat : n <= NumWheels => Span[NumWheels - n] <= Span[NumWheels]}
<1>1. 0 \in T
  BY SpanGrows, BucketNumType
<1>2. ASSUME NEW m \in Nat, m \in T PROVE m + 1 \in T
  <2> SUFFICES ASSUME m + 1 <= NumWheels PROVE Span[NumWheels - (m + 1)] <= Span[NumWheels]
    OBVIOUS
  <2>1. /\ NumWheels - m \in Wheels /\ NumWheels - m - 1 = NumWheels - (m + 1)
        /\ NumWheels - m - 1 \in 0..NumWheels /\ NumWheels \in 0..NumWheels
        /\ NumWheels - m \in 0..NumWheels
    BY BucketNumType DEF Wheels
  <2>2. Span[NumWheels - m - 1] <= Span[NumWheels - m] /\ Span[NumWheels - m] <= Span[NumWheels]
    BY <1>2, <2>1, SpanGrows
  <2>3. \A a, b, c \in Nat : a <= b /\ b <= c => a <= c
    OBVIOUS
  <2> QED
    BY <2>1, <2>2, <2>3, SpanGrows
<1>3. ASSUME NEW n \in Nat PROVE n \in T
  <2> HIDE DEF T
  <2> QED
    BY <1>1, <1>2, Induction
<1>4. NumWheels - i \in Nat /\ NumWheels - i <= NumWheels /\ NumWheels - (NumWheels - i) = i
  BY BucketNumType
<1> QED
  BY <1>3, <1>4

\* There is a wheel for every distance that the last one spans.
LEMMA WheelForFits ==
  ASSUME NEW n \in Nat, n < Span[NumWheels]
  PROVE  /\ WheelFor(n) \in Wheels
         /\ n < Span[WheelFor(n)]
         /\ \A j \in 1..(WheelFor(n) - 1) : n >= Span[j]
<1> DEFINE T == {i \in Wheels : n < Span[i]}
<1>1. T # {} /\ T \subseteq Nat
  BY BucketNumType DEF Wheels
<1>2. PICK i \in T : \A j \in T : i <= j
  <2> HIDE DEF T
  <2> QED
    BY <1>1, LeastNat
<1>3. ASSUME NEW j \in 1..(i - 1) PROVE n >= Span[j]
  <2>1. j \in Wheels /\ j < i
    BY <1>2, BucketNumType DEF Wheels
  <2>2. ~(n < Span[j]) /\ Span[j] \in Nat
    BY <1>2, <2>1, SpanGrows DEF Wheels
  <2> QED
    BY <2>2
<1> QED
  BY <1>2, <1>3 DEF WheelFor

-----------------------------------------------------------------------------
(* Placing a timer. *)

\* The recursive sum in Turned has a solution, for any positions of the wheels.
LEMMA TurnedDef ==
  ASSUME NEW c, NEW m \in Nat
  PROVE  \E f : f = [j \in 0..m |-> IF j = 0 THEN 0 ELSE f[j - 1] + (c[j] * Span[j - 1])]
<1> DEFINE Is(f, n) ==
             f = [j \in 0..n |-> IF j = 0 THEN 0 ELSE f[j - 1] + (c[j] * Span[j - 1])]
           T == {n \in Nat : \E f : Is(f, n)}
<1>1. 0 \in T
  <2>1. Is([j \in 0..0 |-> 0], 0)
    OBVIOUS
  <2> HIDE DEF Is
  <2> QED
    BY <2>1
<1>2. ASSUME NEW k \in 0..(m - 1), k \in T
      PROVE  k + 1 \in T
  <2>1. PICK f : Is(f, k)
    BY <1>2
  <2> DEFINE g == [j \in 0..(k + 1) |->
                     IF j = k + 1 THEN f[k] + (c[k + 1] * Span[k]) ELSE f[j]]
  <2>2. \A j \in 0..(k + 1) : g[j] = IF j = 0 THEN 0 ELSE g[j - 1] + (c[j] * Span[j - 1])
    BY <2>1
  <2>3. Is(g, k + 1)
    BY <2>2
  <2> HIDE DEF Is
  <2> QED
    BY <2>3
<1>3. m \in T
  <2> HIDE DEF T
  <2> QED
    BY <1>1, <1>2, Induction
<1> QED
  BY <1>3

\* The wheels below a wheel have turned less than one of its steps.
LEMMA TurnedBounded ==
  ASSUME \A i \in Wheels : current[i] \in 0..(BucketNum[i] - 1), NEW i \in Wheels
  PROVE  Turned(i) \in 0..(Span[i - 1] - 1)
<1> DEFINE Is(f) ==
             f = [j \in 0..(i - 1) |-> IF j = 0 THEN 0 ELSE f[j - 1] + (current[j] * Span[j - 1])]
           sum == CHOOSE f : Is(f)
<1>1. Turned(i) = sum[i - 1]
  BY DEF Turned
<1>2. Is(sum)
  <2>1. \E f : Is(f)
    <3>1. i - 1 \in Nat
      BY BucketNumType DEF Wheels
    <3> QED
      BY <3>1, TurnedDef
  <2> HIDE DEF Is
  <2> QED
    BY <2>1
<1> HIDE DEF sum
<1>3. /\ sum[0] = 0
      /\ \A j \in 1..(i - 1) : sum[j] = sum[j - 1] + (current[j] * Span[j - 1])
  BY <1>2, BucketNumType DEF Wheels
<1> DEFINE T == {n \in Nat : n <= i - 1 => sum[n] \in 0..(Span[n] - 1)}
<1>4. 0 \in T
  BY <1>3, SpanGrows
<1>5. ASSUME NEW m \in Nat, m \in T PROVE m + 1 \in T
  <2> SUFFICES ASSUME m + 1 <= i - 1 PROVE sum[m + 1] \in 0..(Span[m + 1] - 1)
    OBVIOUS
  <2>1. /\ m + 1 \in 1..(i - 1) /\ m + 1 \in Wheels /\ m \in 0..NumWheels /\ m + 1 - 1 = m
        /\ m <= i - 1
    BY BucketNumType DEF Wheels
  <2>2. /\ sum[m] \in 0..(Span[m] - 1)
        /\ sum[m + 1] = sum[m] + (current[m + 1] * Span[m])
        /\ Span[m + 1] = Span[m] * BucketNum[m + 1] /\ Span[m] \in Nat \ {0}
        /\ BucketNum[m + 1] \in Nat \ {0} /\ current[m + 1] \in 0..(BucketNum[m + 1] - 1)
    BY <1>3, <1>5, <2>1, SpanGrows, BucketNumType
  <2>3. \A a, b \in Nat \ {0} : \A c \in 0..(b - 1), r \in 0..(a - 1) :
          r + (c * a) \in 0..((a * b) - 1)
    <3> SUFFICES ASSUME NEW a \in Nat \ {0}, NEW b \in Nat \ {0},
                        NEW c \in 0..(b - 1), NEW r \in 0..(a - 1)
                 PROVE  r + (c * a) \in 0..((a * b) - 1)
      OBVIOUS
    <3>1. (c + 1) * a <= b * a
      OBVIOUS
    <3>2. c * a \in Nat /\ (c + 1) * a = (c * a) + a
      OBVIOUS
    <3> QED
      BY <3>1, <3>2
  <2> QED
    BY <2>2, <2>3
<1>6. ASSUME NEW n \in Nat PROVE n \in T
  <2> HIDE DEF T
  <2> QED
    BY <1>4, <1>5, Induction
<1>7. i - 1 \in Nat
  BY BucketNumType DEF Wheels
<1> QED
  BY <1>1, <1>6, <1>7

\* The bucket is one of the wheel, wherever the wheel stands.
LEMMA BucketForFits ==
  ASSUME \A i \in Wheels : current[i] \in 0..(BucketNum[i] - 1), NEW i \in Wheels, NEW n \in Nat
  PROVE  BucketFor(i, n) \in 0..(BucketNum[i] - 1)
<1>1. BucketNum[i] \in Nat \ {0} /\ current[i] \in Nat /\ Span[i - 1] \in Nat \ {0}
  BY BucketNumType, SpanGrows DEF Wheels
<1>2. n \div Span[i - 1] \in Nat
  BY <1>1
<1>3. ((n \div Span[i - 1]) + current[i]) % BucketNum[i] \in 0..(BucketNum[i] - 1)
  BY <1>1, <1>2
<1> QED
  BY <1>1, <1>3 DEF BucketFor

\* A timer that is placed has a wheel and a bucket, and what it has to undo is again a
\* distance that the wheels span.
LEMMA PlacedFits ==
  ASSUME \A i \in Wheels : current[i] \in 0..(BucketNum[i] - 1),
         NEW t \in TimerType, NEW n \in Nat, n < Span[NumWheels]
  PROVE  /\ Placed(t, n) \in TimerType
         /\ Placed(t, n).wheel \in Wheels
         /\ Placed(t, n).bucket \in 0..(BucketNum[Placed(t, n).wheel] - 1)
         /\ Placed(t, n).undo < Span[NumWheels]
         /\ \A f \in {"expireAt", "ticks", "calls"} : Placed(t, n)[f] = t[f]
<1> DEFINE i == WheelFor(n)
<1>1. i \in Wheels /\ n < Span[i] /\ \A j \in 1..(i - 1) : n >= Span[j]
  BY WheelForFits
<1> HIDE DEF i
<1>2. /\ i - 1 \in 0..NumWheels /\ i \in 0..NumWheels
      /\ Span[i - 1] \in Nat \ {0} /\ Span[i] = Span[i - 1] * BucketNum[i] /\ Span[i] <= Span[NumWheels]
      /\ BucketNum[i] \in Nat \ {0} /\ Span[i] \in Nat \ {0} /\ Span[NumWheels] \in Nat
  BY <1>1, BucketNumType, SpanGrows, SpanWithin DEF Wheels
<1>3. Turned(i) \in 0..(Span[i - 1] - 1) /\ BucketFor(i, n) \in 0..(BucketNum[i] - 1)
  BY <1>1, TurnedBounded, BucketForFits
<1>4. n % Span[i - 1] \in 0..(Span[i - 1] - 1)
  BY <1>2
<1>5. Turned(i) + (n % Span[i - 1]) < Span[NumWheels]
  <2>1. CASE i = 1
    <3>1. Span[i - 1] = 1
      BY <2>1, SpanGrows
    <3>2. Turned(i) = 0 /\ n % Span[i - 1] = 0
      BY <1>3, <1>4, <3>1
    <3> QED
      BY <3>2, TimingWheelAssumption, <1>2
  <2>2. CASE i > 1
    <3>1. Span[i - 1] <= n
      BY <1>1, <2>2, BucketNumType DEF Wheels
    <3>2. Span[i - 1] < Span[i - 1] * BucketNum[i]
      BY <1>1, <1>2, <3>1
    <3>3. BucketNum[i] >= 2
      BY <1>2, <3>2
    <3>4. Span[i - 1] * 2 <= Span[i - 1] * BucketNum[i]
      BY <1>2, <3>3
    <3> QED
      BY <1>2, <1>3, <1>4, <3>4
  <2> QED
    BY <1>1, <2>1, <2>2 DEF Wheels
<1>6. Placed(t, n) = [t EXCEPT !.wheel = i, !.bucket = BucketFor(i, n),
                               !.undo = Turned(i) + (n % Span[i - 1])]
  BY DEF Placed, i
<1>7. Turned(i) + (n % Span[i - 1]) \in Nat /\ BucketFor(i, n) \in Nat
  BY <1>2, <1>3, <1>4
<1> QED
  BY <1>1, <1>3, <1>5, <1>6, <1>7 DEF TimerType

-----------------------------------------------------------------------------
(* Lists of timers. *)

Once(s) == \A k, l \in DOMAIN s : s[k] = s[l] => k = l
In(s, x) == \E k \in DOMAIN s : s[k] = x

LEMMA AppendOnce ==
  ASSUME NEW s \in Seq(Ids), NEW x \in Ids, Once(s), ~In(s, x)
  PROVE  /\ Append(s, x) \in Seq(Ids) /\ Once(Append(s, x))
         /\ \A y : In(Append(s, x), y) <=> In(s, y) \/ y = x
<1>1. Append(s, x) \in Seq(Ids) /\ Once(Append(s, x))
  BY DEF Once, In
<1>2. ASSUME NEW y PROVE In(Append(s, x), y) <=> In(s, y) \/ y = x
  <2>1. ASSUME In(s, y) PROVE In(Append(s, x), y)
    BY <2>1 DEF In
  <2>2. In(Append(s, x), x)
    <3>1. Len(s) + 1 \in DOMAIN Append(s, x) /\ Append(s, x)[Len(s) + 1] = x
      OBVIOUS
    <3> QED
      BY <3>1 DEF In
  <2>3. ASSUME In(Append(s, x), y) PROVE In(s, y) \/ y = x
    BY <2>3 DEF In
  <2> QED
    BY <2>1, <2>2, <2>3
<1> QED
  BY <1>1, <1>2

LEMMA TailOnce ==
  ASSUME NEW s \in Seq(Ids), s # <<>>, Once(s)
  PROVE  /\ Tail(s) \in Seq(Ids) /\ Once(Tail(s)) /\ Head(s) \in Ids /\ In(s, Head(s))
         /\ \A y : In(Tail(s), y) <=> In(s, y) /\ y # Head(s)
<1>1. Tail(s) \in Seq(Ids) /\ Head(s) \in Ids /\ In(s, Head(s))
  BY DEF In
<1>2. /\ DOMAIN s = 1..Len(s) /\ DOMAIN Tail(s) = 1..(Len(s) - 1) /\ Len(s) \in Nat \ {0}
      /\ \A k \in 1..(Len(s) - 1) : Tail(s)[k] = s[k + 1]
      /\ Head(s) = s[1]
  OBVIOUS
<1>3. Once(Tail(s))
  BY <1>2 DEF Once
<1>4. ASSUME NEW y, In(Tail(s), y) PROVE In(s, y) /\ y # Head(s)
  BY <1>2, <1>4 DEF Once, In
<1>5. ASSUME NEW y, In(s, y), y # Head(s) PROVE In(Tail(s), y)
  <2>1. PICK k \in 1..Len(s) : s[k] = y
    BY <1>2, <1>5 DEF In
  <2>2. k # 1 /\ k - 1 \in DOMAIN Tail(s) /\ Tail(s)[k - 1] = y
    BY <1>2, <1>5, <2>1
  <2> QED
    BY <2>2 DEF In
<1> QED
  BY <1>1, <1>3, <1>4, <1>5

\* What Wheel::RemoveTimer leaves.
LEMMA RemoveOnce ==
  ASSUME NEW s \in Seq(Ids), NEW x, Once(s)
  PROVE  /\ RemoveFirst(s, x) \in Seq(Ids) /\ Once(RemoveFirst(s, x))
         /\ \A y : In(RemoveFirst(s, x), y) <=> In(s, y) /\ y # x
         /\ ~In(s, x) => RemoveFirst(s, x) = s
<1>1. CASE ~In(s, x)
  <2>1. RemoveFirst(s, x) = s
    BY <1>1 DEF RemoveFirst, In
  <2> QED
    BY <1>1, <2>1 DEF In
<1>2. CASE In(s, x)
  <2>1. PICK i \in 1..Len(s) : s[i] = x
    BY <1>2 DEF In
  <2>2. {k \in 1..Len(s) : s[k] = x} = {i}
    BY <2>1 DEF Once
  <2>3. SelectInSeq(s, LAMBDA v : v = x) = i
    BY <2>1, <2>2 DEF SelectInSeq, Min
  <2>4. RemoveFirst(s, x) = SubSeq(s, 1, i - 1) \o SubSeq(s, i + 1, Len(s))
    BY <2>1, <2>3 DEF RemoveFirst, RemoveAt
  <2> DEFINE r == SubSeq(s, 1, i - 1) \o SubSeq(s, i + 1, Len(s))
  <2>5. Len(s) \in Nat /\ DOMAIN s = 1..Len(s)
    OBVIOUS
  <2>6. /\ r \in Seq(Ids) /\ Len(r) = Len(s) - 1 /\ DOMAIN r = 1..(Len(s) - 1)
        /\ \A k \in 1..(Len(s) - 1) : r[k] = IF k < i THEN s[k] ELSE s[k + 1]
    <3> DEFINE p == SubSeq(s, 1, i - 1)
               q == SubSeq(s, i + 1, Len(s))
    <3>1. /\ p \in Seq(Ids) /\ Len(p) = i - 1
          /\ q \in Seq(Ids) /\ Len(q) = Len(s) - i
          /\ \A k \in 1..(i - 1) : p[k] = s[k]
          /\ \A k \in 1..(Len(s) - i) : q[k] = s[i + k]
      OBVIOUS
    <3> HIDE DEF p, q
    <3>2. /\ p \o q \in Seq(Ids) /\ Len(p \o q) = Len(p) + Len(q)
          /\ \A k \in 1..(Len(p) + Len(q)) :
               (p \o q)[k] = IF k <= Len(p) THEN p[k] ELSE q[k - Len(p)]
      BY <3>1, ConcatProperties
    <3>3. DOMAIN (p \o q) = 1..Len(p \o q)
      BY <3>2
    <3>4. ASSUME NEW k \in 1..(Len(s) - 1)
          PROVE  (p \o q)[k] = IF k < i THEN s[k] ELSE s[k + 1]
      <4>0. k < i \/ k >= i
        BY <2>5
      <4>1. (p \o q)[k] = IF k <= i - 1 THEN p[k] ELSE q[k - (i - 1)]
        BY <3>1, <3>2
      <4>2. CASE k < i
        BY <3>1, <4>1, <4>2
      <4>3. CASE k >= i
        <5>1. k - (i - 1) \in 1..(Len(s) - i) /\ i + (k - (i - 1)) = k + 1 /\ ~(k <= i - 1)
          BY <4>3
        <5>2. q[k - (i - 1)] = s[k + 1]
          BY <3>1, <5>1
        <5> QED
          BY <4>1, <4>3, <5>1, <5>2
      <4> QED
        BY <4>0, <4>2, <4>3
    <3>5. Len(p \o q) = Len(s) - 1
      BY <3>1, <3>2
    <3> QED
      BY <3>2, <3>3, <3>4, <3>5 DEF p, q
  <2> HIDE DEF r
  <2>7. Once(r)
    <3> SUFFICES ASSUME NEW k \in 1..(Len(s) - 1), NEW l \in 1..(Len(s) - 1), r[k] = r[l]
                 PROVE  k = l
      BY <2>6 DEF Once
    <3>1. \A m, n \in 1..Len(s) : s[m] = s[n] => m = n
      BY <2>5 DEF Once
    <3>2. /\ k \in 1..Len(s) /\ k + 1 \in 1..Len(s) /\ l \in 1..Len(s) /\ l + 1 \in 1..Len(s)
      BY <2>5
    <3>3. r[k] = (IF k < i THEN s[k] ELSE s[k + 1]) /\ r[l] = (IF l < i THEN s[l] ELSE s[l + 1])
      BY <2>6
    <3> k \in Int /\ l \in Int /\ i \in Int
      BY <2>5
    <3>4. CASE k < i /\ l < i
      BY <3>1, <3>2, <3>3, <3>4
    <3>5. CASE k < i /\ l >= i
      <4>1. s[k] = s[l + 1]
        <5>1. ~(l < i)
          BY <3>5
        <5> QED
          BY <3>3, <3>5, <5>1
      <4> QED
        BY <3>1, <3>2, <3>5, <4>1
    <3>6. CASE k >= i /\ l < i
      <4>1. s[k + 1] = s[l]
        <5>1. ~(k < i)
          BY <3>6
        <5> QED
          BY <3>3, <3>6, <5>1
      <4> QED
        BY <3>1, <3>2, <3>6, <4>1
    <3>7. CASE k >= i /\ l >= i
      <4>1. s[k + 1] = s[l + 1]
        <5>1. ~(k < i) /\ ~(l < i)
          BY <3>7
        <5> QED
          BY <3>3, <3>7, <5>1
      <4> QED
        BY <3>1, <3>2, <4>1
    <3> QED
      BY <3>4, <3>5, <3>6, <3>7
  <2>8. ASSUME NEW y, In(r, y) PROVE In(s, y) /\ y # x
    BY <2>1, <2>6, <2>5, <2>8 DEF Once, In
  <2>9. ASSUME NEW y, In(s, y), y # x PROVE In(r, y)
    <3>1. PICK k \in 1..Len(s) : s[k] = y
      BY <2>5, <2>9 DEF In
    <3>2. CASE k < i
      BY SMTT(20), <2>1, <2>6, <2>5, <3>1, <3>2 DEF In
    <3>3. CASE k > i
      <4>1. k - 1 \in DOMAIN r /\ r[k - 1] = y
        BY <2>1, <2>6, <2>5, <3>1, <3>3
      <4> QED
        BY <4>1 DEF In
    <3> QED
      BY <2>1, <2>9, <3>1, <3>2, <3>3
  <2> QED
    BY <1>2, <2>4, <2>6, <2>7, <2>8, <2>9 DEF r
<1> QED
  BY <1>1, <1>2

\* The lists of the buckets hold the given timers, each once and where it says.
ListsType(lists) ==
  DOMAIN lists = Wheels /\ \A i \in Wheels : lists[i] \in [0..(BucketNum[i] - 1) -> Seq(Ids)]

Fits(lists, live, tm) ==
  /\ ListsType(lists)
  /\ \A i \in Wheels : \A b \in 0..(BucketNum[i] - 1) :
       /\ Once(lists[i][b])
       /\ \A id \in Ids : In(lists[i][b], id) <=> id \in live /\ tm[id].wheel = i /\ tm[id].bucket = b

LEMMA FitsList ==
  ASSUME NEW lists, NEW live, NEW tm, Fits(lists, live, tm),
         NEW i \in Wheels, NEW b \in 0..(BucketNum[i] - 1)
  PROVE  /\ lists[i][b] \in Seq(Ids) /\ Once(lists[i][b])
         /\ \A id \in Ids : In(lists[i][b], id) <=> id \in live /\ tm[id].wheel = i /\ tm[id].bucket = b
<1>1. lists[i] \in [0..(BucketNum[i] - 1) -> Seq(Ids)]
  BY DEF Fits, ListsType
<1>2. lists[i][b] \in Seq(Ids)
  BY <1>1
<1> QED
  BY <1>2 DEF Fits

LEMMA ListsUpdate ==
  ASSUME NEW lists, ListsType(lists), NEW i \in Wheels, NEW b \in 0..(BucketNum[i] - 1),
         NEW s \in Seq(Ids)
  PROVE  LET new == [lists EXCEPT ![i][b] = s]
         IN /\ ListsType(new) /\ new[i][b] = s
            /\ \A j \in Wheels : \A c \in 0..(BucketNum[j] - 1) :
                 j # i \/ c # b => new[j][c] = lists[j][c]
BY DEF ListsType

LEMMA EnlistFits ==
  ASSUME NEW lists, NEW live, NEW tm, Fits(lists, live, tm), NEW id \in Ids \ live,
         NEW t, t.wheel \in Wheels, t.bucket \in 0..(BucketNum[t.wheel] - 1)
  PROVE  Fits(Enlist(lists, id, t), live \union {id},
              [j \in live \union {id} |-> IF j = id THEN t ELSE tm[j]])
<1> DEFINE i == t.wheel  b == t.bucket
           new == Enlist(lists, id, t)
           both == live \union {id}
           tn == [j \in both |-> IF j = id THEN t ELSE tm[j]]
<1>1. lists[i][b] \in Seq(Ids) /\ Once(lists[i][b]) /\ ~In(lists[i][b], id)
  BY DEF Fits, ListsType
<1>2. /\ Append(lists[i][b], id) \in Seq(Ids) /\ Once(Append(lists[i][b], id))
      /\ \A y : In(Append(lists[i][b], id), y) <=> In(lists[i][b], y) \/ y = id
  BY <1>1, AppendOnce
<1>3. new = [lists EXCEPT ![i][b] = Append(lists[i][b], id)]
  BY DEF Enlist, Fits, ListsType
<1>4. /\ ListsType(new) /\ new[i][b] = Append(lists[i][b], id)
      /\ \A j \in Wheels : \A c \in 0..(BucketNum[j] - 1) :
           j # i \/ c # b => new[j][c] = lists[j][c]
  <2>1. ListsType(lists) /\ i \in Wheels /\ b \in 0..(BucketNum[i] - 1)
    BY DEF Fits
  <2> DEFINE list == Append(lists[i][b], id)
             n == [lists EXCEPT ![i][b] = list]
  <2>2. list \in Seq(Ids)
    BY <1>2
  <2> HIDE DEF i, b, list
  <2>3. /\ ListsType(n) /\ n[i][b] = list
        /\ \A j \in Wheels : \A c \in 0..(BucketNum[j] - 1) :
             j # i \/ c # b => n[j][c] = lists[j][c]
    BY <2>1, <2>2, ListsUpdate
  <2> HIDE DEF n
  <2> QED
    BY <1>3, <2>3 DEF list, n
<1>5. ASSUME NEW j \in Wheels, NEW c \in 0..(BucketNum[j] - 1)
      PROVE  /\ Once(new[j][c])
             /\ \A x \in Ids : In(new[j][c], x) <=> x \in both /\ tn[x].wheel = j /\ tn[x].bucket = c
  <2> HIDE DEF new
  <2>1. CASE j = i /\ c = b
    <3>1. Once(new[j][c]) /\ \A x \in Ids : In(new[j][c], x) <=> In(lists[j][c], x) \/ x = id
      BY <1>2, <1>4, <2>1
    <3>2. \A x \in Ids : In(lists[j][c], x) <=> x \in live /\ tm[x].wheel = j /\ tm[x].bucket = c
      BY DEF Fits
    <3>3. /\ tn[id].wheel = j /\ tn[id].bucket = c
          /\ \A x \in live : tn[x] = tm[x]
      BY <2>1
    <3> HIDE DEF tn, i, b
    <3> QED
      BY <3>1, <3>2, <3>3
  <2>2. CASE j # i \/ c # b
    BY <1>4, <2>2 DEF Fits
  <2> QED
    BY <2>1, <2>2
<1> HIDE DEF new, tn, both
<1> QED
  BY <1>4, <1>5 DEF Fits, new, tn, both

\* Of a list that has lost a timer, in whichever way.
LEMMA LostFits ==
  ASSUME NEW lists, NEW live, NEW tm, Fits(lists, live, tm),
         NEW i \in Wheels, NEW b \in 0..(BucketNum[i] - 1), NEW id \in Ids, In(lists[i][b], id),
         NEW s \in Seq(Ids), Once(s), \A y : In(s, y) <=> In(lists[i][b], y) /\ y # id
  PROVE  Fits([lists EXCEPT ![i][b] = s], live \ {id}, tm)
<1> DEFINE new == [lists EXCEPT ![i][b] = s]
<1>1. /\ ListsType(new) /\ new[i][b] = s
      /\ \A j \in Wheels : \A c \in 0..(BucketNum[j] - 1) :
           j # i \/ c # b => new[j][c] = lists[j][c]
  BY ListsUpdate DEF Fits
<1> HIDE DEF new
<1>2. ASSUME NEW j \in Wheels, NEW c \in 0..(BucketNum[j] - 1)
      PROVE  /\ Once(new[j][c])
             /\ \A x \in Ids : In(new[j][c], x) <=>
                               x \in live \ {id} /\ tm[x].wheel = j /\ tm[x].bucket = c
  <2>1. CASE j = i /\ c = b
    BY <1>1, <2>1 DEF Fits
  <2>2. CASE j # i \/ c # b
    BY <1>1, <2>2 DEF Fits
  <2> QED
    BY <2>1, <2>2
<1> QED
  BY <1>1, <1>2 DEF Fits, new

-----------------------------------------------------------------------------
(* The inductive invariant. *)

\* What AddWheel needs of a timer whenever it is called, and what RemoveTimer needs to
\* find it: its distances are spanned by the wheels and its bucket is one of its wheel.
TimerFits(t) ==
  /\ t \in TimerType
  /\ t.ticks < Span[NumWheels] /\ t.undo < Span[NumWheels]
  /\ t.calls # 0
  /\ t.bucket \in 0..(BucketNum[t.wheel] - 1)

InRange == \A id \in Live : TimerFits(timers[id])

\* A callback runs exactly in the phase of that name; the drained bucket is one of the wheel.
Cursor ==
  /\ phase = "callback" <=> firing # 0
  /\ drained \in 0..(BucketNum[wheel] - 1)

IInv == TypeOK /\ Placement /\ InRange /\ Cursor

\* Lists and timers that go together, for the intermediate lists of a step as well.
Kept(lists, live, tm) ==
  /\ live \subseteq Ids
  /\ Fits(lists, live, tm)
  /\ \A id \in live : TimerFits(tm[id])

LEMMA KeptNow ==
  ASSUME IInv
  PROVE  Kept(bucket, Live, timers)
<1>1. Live \subseteq Ids
  BY TimingWheelAssumption DEF IInv, TypeOK, Ids
<1>2. ListsType(bucket)
  BY DEF IInv, TypeOK, ListsType
<1>3. ASSUME NEW i \in Wheels PROVE DOMAIN bucket[i] = 0..(BucketNum[i] - 1)
  BY <1>2 DEF ListsType
<1>4. ASSUME NEW i \in Wheels, NEW b \in 0..(BucketNum[i] - 1)
      PROVE  /\ Once(bucket[i][b])
             /\ \A id \in Ids : In(bucket[i][b], id)
                                 <=> id \in Live /\ timers[id].wheel = i /\ timers[id].bucket = b
  <2>1. b \in DOMAIN bucket[i]
    BY <1>3
  <2>2. /\ \A k, l \in DOMAIN bucket[i][b] : bucket[i][b][k] = bucket[i][b][l] => k = l
        /\ \A id \in Ids :
             (\E k \in DOMAIN bucket[i][b] : bucket[i][b][k] = id)
               <=> id \in Live /\ timers[id].wheel = i /\ timers[id].bucket = b
    BY <2>1 DEF IInv, Placement
  <2> QED
    BY <2>2 DEF Once, In
<1>5. Fits(bucket, Live, timers)
  BY <1>2, <1>4 DEF Fits
<1> QED
  BY <1>1, <1>5 DEF Kept, IInv, InRange

LEMMA KeptNext ==
  ASSUME Kept(bucket', Live', timers')
  PROVE  Placement' /\ InRange' /\ ListsType(bucket')
<1>1. ListsType(bucket')
  BY DEF Kept, Fits
<1>2. ASSUME NEW i \in Wheels PROVE DOMAIN bucket'[i] = 0..(BucketNum[i] - 1)
  BY <1>1 DEF ListsType
<1>3. Placement'
  <2> SUFFICES ASSUME NEW i \in Wheels, NEW b \in DOMAIN bucket'[i]
               PROVE  /\ \A k, l \in DOMAIN bucket'[i][b] : bucket'[i][b][k] = bucket'[i][b][l] => k = l
                      /\ \A id \in Ids :
                           (\E k \in DOMAIN bucket'[i][b] : bucket'[i][b][k] = id)
                             <=> id \in Live' /\ timers'[id].wheel = i /\ timers'[id].bucket = b
    BY DEF Placement
  <2>1. b \in 0..(BucketNum[i] - 1)
    BY <1>2
  <2>2. /\ Once(bucket'[i][b])
        /\ \A id \in Ids : In(bucket'[i][b], id)
                            <=> id \in Live' /\ timers'[id].wheel = i /\ timers'[id].bucket = b
    BY <2>1 DEF Kept, Fits
  <2> QED
    BY <2>2 DEF Once, In
<1> QED
  BY <1>1, <1>3 DEF Kept, InRange

\* A timer that AddWheel puts among others.
LEMMA AddWheelKeeps ==
  ASSUME TypeOK, NEW lists, NEW live \in SUBSET Live, Kept(lists, live, timers),
         NEW id \in Ids \ live, Live \union {id} = live \union {id},
         NEW t \in TimerType, t.calls # 0, t.ticks < Span[NumWheels],
         NEW n \in Nat, n < Span[NumWheels], AddWheel(lists, id, t, n)
  PROVE  /\ Live' = Live \union {id} /\ timers' \in [Live' -> TimerType]
         /\ Kept(bucket', Live', timers')
         /\ \A j \in live : timers'[j] = timers[j]
         /\ \A f \in {"expireAt", "ticks", "calls"} : timers'[id][f] = t[f]
<1> DEFINE p == Placed(t, n)
<1>1. \A i \in Wheels : current[i] \in 0..(BucketNum[i] - 1)
  BY DEF TypeOK
<1>2. /\ p \in TimerType /\ p.wheel \in Wheels /\ p.bucket \in 0..(BucketNum[p.wheel] - 1)
      /\ p.undo < Span[NumWheels]
      /\ \A f \in {"expireAt", "ticks", "calls"} : p[f] = t[f]
  BY <1>1, PlacedFits
<1>3. /\ timers' = [i \in live \union {id} |-> IF i = id THEN p ELSE timers[i]]
      /\ bucket' = Enlist(lists, id, p)
  BY DEF AddWheel
<1> HIDE DEF p
<1>4. Fits(bucket', live \union {id}, timers')
  BY <1>2, <1>3, EnlistFits DEF Kept
<1>5. TimerFits(p)
  <2>1. p.ticks = t.ticks /\ p.calls = t.calls
    BY <1>2
  <2> QED
    BY <1>2, <2>1 DEF TimerFits
<1>6. Live' = live \union {id} /\ timers'[id] = p /\ \A j \in live : timers'[j] = timers[j]
  BY <1>3 DEF Live
<1>7. \A j \in live : TimerFits(timers[j])
  BY DEF Kept
<1>8. Live' \subseteq Ids
  BY <1>6 DEF Kept
<1>9. \A j \in Live' : TimerFits(timers'[j])
  BY <1>5, <1>6, <1>7
<1>10. Kept(bucket', Live', timers')
  BY <1>4, <1>6, <1>8, <1>9 DEF Kept
<1>11. timers' \in [Live' -> TimerType]
  BY <1>3, <1>6, <1>9 DEF TimerFits
<1> QED
  BY <1>2, <1>6, <1>10, <1>11

\* The timer at the front of the drained bucket is live and has been taken out.
LEMMA PoppedKeeps ==
  ASSUME IInv, Drained # <<>>
  PROVE  /\ Head(Drained) \in Live /\ Head(Drained) \in Ids
         /\ timers[Head(Drained)].wheel = wheel /\ timers[Head(Drained)].bucket = drained
         /\ Kept(Popped, Live \ {Head(Drained)}, timers)
<1> DEFINE id == Head(Drained)
<1>1. Kept(bucket, Live, timers)
  BY KeptNow
<1>2. wheel \in Wheels /\ drained \in 0..(BucketNum[wheel] - 1)
  BY DEF IInv, TypeOK, Cursor
<1>3. Drained \in Seq(Ids) /\ Once(Drained)
  BY <1>1, <1>2, FitsList DEF Kept, Drained
<1>4. /\ Tail(Drained) \in Seq(Ids) /\ Once(Tail(Drained)) /\ id \in Ids /\ In(Drained, id)
      /\ \A y : In(Tail(Drained), y) <=> In(Drained, y) /\ y # id
  BY <1>3, TailOnce
<1>5. id \in Live /\ timers[id].wheel = wheel /\ timers[id].bucket = drained
  BY <1>1, <1>2, <1>4 DEF Kept, Fits, Drained
<1> DEFINE s == Tail(Drained)
<1>6. Popped = [bucket EXCEPT ![wheel][drained] = s]
  BY <1>1, <1>2 DEF Popped, Drained, Kept, Fits, ListsType
<1> HIDE DEF id, s
<1>7. Fits([bucket EXCEPT ![wheel][drained] = s], Live \ {id}, timers)
  BY <1>1, <1>2, <1>4, LostFits DEF Kept, s, Drained
<1> QED
  BY <1>1, <1>4, <1>5, <1>6, <1>7 DEF Kept, id

LEMMA DelistKeeps ==
  ASSUME NEW id \in Live, Kept(bucket, Live, timers)
  PROVE  Kept(Delist(bucket, id, timers[id]), Live \ {id}, timers)
<1> DEFINE i == timers[id].wheel
           b == timers[id].bucket
           s == RemoveFirst(bucket[i][b], id)
<1>1. i \in Wheels /\ b \in 0..(BucketNum[i] - 1) /\ id \in Ids
  BY DEF Kept, TimerFits, TimerType
<1>2. bucket[i][b] \in Seq(Ids) /\ Once(bucket[i][b]) /\ In(bucket[i][b], id)
  BY <1>1, FitsList DEF Kept
<1>3. s \in Seq(Ids) /\ Once(s) /\ \A y : In(s, y) <=> In(bucket[i][b], y) /\ y # id
  BY <1>2, RemoveOnce
<1>4. Delist(bucket, id, timers[id]) = [bucket EXCEPT ![i][b] = s]
  BY <1>1 DEF Delist, Kept, Fits, ListsType
<1> HIDE DEF i, b, s
<1>5. Fits([bucket EXCEPT ![i][b] = s], Live \ {id}, timers)
  BY <1>1, <1>2, <1>3, LostFits DEF Kept
<1> QED
  BY <1>4, <1>5 DEF Kept

\* Nothing is left to take out of a bucket that was popped.
LEMMA DelistAbsent ==
  ASSUME NEW lists, NEW live, Kept(lists, live, timers), NEW id \in Ids \ live, NEW t,
         t.wheel \in Wheels, t.bucket \in 0..(BucketNum[t.wheel] - 1)
  PROVE  Kept(Delist(lists, id, t), live, timers)
<1> DEFINE i == t.wheel  b == t.bucket
<1>1. lists[i][b] \in Seq(Ids) /\ Once(lists[i][b]) /\ ~In(lists[i][b], id)
  BY FitsList DEF Kept
<1>2. RemoveFirst(lists[i][b], id) = lists[i][b]
  BY <1>1, RemoveOnce
<1> DEFINE s == lists[i][b]
           new == [lists EXCEPT ![i][b] = s]
<1>3. Delist(lists, id, t) = new
  BY <1>2 DEF Delist, Kept, Fits, ListsType
<1>4. /\ i \in Wheels /\ b \in 0..(BucketNum[i] - 1) /\ ListsType(lists) /\ s \in Seq(Ids)
  BY <1>1 DEF Kept, Fits
<1> HIDE DEF i, b, s
<1>5. /\ ListsType(new) /\ new[i][b] = s
      /\ \A j \in Wheels : \A c \in 0..(BucketNum[j] - 1) :
           j # i \/ c # b => new[j][c] = lists[j][c]
  BY <1>4, ListsUpdate
<1> HIDE DEF new
<1>6. \A j \in Wheels : \A c \in 0..(BucketNum[j] - 1) : new[j][c] = lists[j][c]
  BY <1>5 DEF s
<1>7. Fits(new, live, timers)
  BY <1>5, <1>6 DEF Kept, Fits
<1> QED
  BY <1>3, <1>7 DEF Kept

-----------------------------------------------------------------------------
(* The invariant is inductive. *)

LEMMA InitInv ==
  ASSUME Init
  PROVE  IInv
<1>1. Live = {}
  BY DEF Init, Live
<1>2. 0 \in 0..MaxClock /\ 0 \in 0..MaxTimers /\ 1 \in Wheels
      /\ 0 \in (1 - TickUnits)..(TickUnits - 1)
      /\ \A i \in Wheels : 0 \in 0..(BucketNum[i] - 1)
  BY TimingWheelAssumption, BucketNumType DEF Wheels
<1>3. \A i \in Wheels : bucket[i] = [b \in 0..(BucketNum[i] - 1) |-> <<>>]
  BY DEF Init
<1>4. \A i \in Wheels : bucket[i] \in [0..(BucketNum[i] - 1) -> Seq(Ids)]
  <2>1. <<>> \in Seq(Ids)
    OBVIOUS
  <2> QED
    BY <1>3, <2>1
<1>5. TypeOK
  <2>1. timers \in [Live -> TimerType] /\ since \in [Live -> Nat \union {-1}]
    BY <1>1 DEF Init, Live
  <2>2. DOMAIN bucket = Wheels /\ DOMAIN current = Wheels
    BY DEF Init
  <2>3. \A i \in Wheels : current[i] \in 0..(BucketNum[i] - 1)
    BY <1>2 DEF Init
  <2> QED
    BY <1>1, <1>2, <1>4, <2>1, <2>2, <2>3 DEF Init, TypeOK
<1>6. Placement
  <2> SUFFICES ASSUME NEW i \in Wheels, NEW b \in DOMAIN bucket[i]
               PROVE  /\ \A k, l \in DOMAIN bucket[i][b] : bucket[i][b][k] = bucket[i][b][l] => k = l
                      /\ \A id \in Ids :
                           (\E k \in DOMAIN bucket[i][b] : bucket[i][b][k] = id)
                             <=> id \in Live /\ timers[id].wheel = i /\ timers[id].bucket = b
    BY DEF Placement
  <2>1. bucket[i][b] = <<>>
    BY <1>3
  <2>2. DOMAIN bucket[i][b] = {}
    BY <2>1
  <2> QED
    BY <1>1, <2>2
<1>7. InRange
  BY <1>1 DEF InRange
<1>8. Cursor
  BY <1>2 DEF Init, Cursor
<1> QED
  BY <1>5, <1>6, <1>7, <1>8 DEF IInv

\* What is left to show when a step changed timers and lists but nothing else.
LEMMA ListsStep ==
  ASSUME IInv, Kept(bucket', Live', timers'), Live' \subseteq 1..started',
         timers' \in [Live' -> TimerType], since' \in [Live' -> Nat \union {-1}],
         started' \in 0..MaxTimers, firing' \in 0..MaxTimers,
         phase' \in {"idle", "tick", "drain", "callback"}, phase' = "callback" <=> firing' # 0,
         UNCHANGED <<clockVars, current, drainVars>>
  PROVE  IInv'
<1>1. Placement' /\ InRange' /\ ListsType(bucket')
  BY KeptNext
<1>2. TypeOK'
  BY <1>1 DEF ListsType, IInv, TypeOK, clockVars, drainVars
<1>3. Cursor'
  BY DEF IInv, Cursor, drainVars
<1> QED
  BY <1>1, <1>2, <1>3 DEF IInv

\* And when it left timers and lists alone.
LEMMA OtherStep ==
  ASSUME IInv, UNCHANGED <<timers, bucket, started>>, TypeOK', Cursor'
  PROVE  IInv'
<1>1. Placement'
  BY DEF IInv, Placement, Live
<1>2. InRange'
  BY DEF IInv, InRange, Live
<1> QED
  BY <1>1, <1>2 DEF IInv

LEMMA AddTimerInv ==
  ASSUME IInv, NEW ms \in Expires, NEW calls \in CallTimes, AddTimer(ms, calls)
  PROVE  IInv'
<1> DEFINE id == started + 1
           t == [expireAt |-> now + ms, ticks |-> TicksOf(ms), calls |-> calls,
                 undo |-> 0, wheel |-> 1, bucket |-> 0]
<1>1. /\ started < MaxTimers /\ started' = id /\ AddWheel(bucket, id, t, TicksOf(ms))
      /\ since' = [i \in Live \union {id} |-> IF i = id THEN -1 ELSE since[i]]
      /\ UNCHANGED <<clockVars, current, phase, drainVars, firing>>
  BY DEF AddTimer
<1>2. TypeOK
  BY DEF IInv
<1>3. ms \in Nat /\ TicksOf(ms) \in Nat /\ TicksOf(ms) < Span[NumWheels]
  <2>1. ms \in Nat /\ TicksOf(ms) < Span[NumWheels]
    BY TimingWheelAssumption
  <2>2. TicksOf(ms) \in Nat
    <3>1. TickUnits \in Nat \ {0}
      BY TimingWheelAssumption
    <3>2. ms \div TickUnits \in Nat
      BY <2>1, <3>1
    <3> QED
      BY <3>2 DEF TicksOf
  <2> QED
    BY <2>1, <2>2
<1>4. id \in Ids \ Live /\ id \in 1..started' /\ started' \in 0..MaxTimers /\ Live \subseteq 1..started'
  BY <1>1, <1>2, TimingWheelAssumption DEF TypeOK, Ids
<1>5. t \in TimerType /\ t.calls # 0 /\ t.ticks < Span[NumWheels]
  <2>1. now + ms \in Nat /\ calls \in Int \ {0} /\ 1 \in Wheels
    BY <1>2, <1>3, TimingWheelAssumption, BucketNumType DEF TypeOK, Wheels
  <2> QED
    BY <1>3, <2>1 DEF TimerType
<1> HIDE DEF id, t
<1>6. /\ Live' = Live \union {id} /\ timers' \in [Live' -> TimerType]
      /\ Kept(bucket', Live', timers')
  BY <1>1, <1>2, <1>3, <1>4, <1>5, KeptNow, AddWheelKeeps
<1>7. since' \in [Live' -> Nat \union {-1}]
  BY <1>1, <1>2, <1>6 DEF TypeOK
<1>8. /\ firing' \in 0..MaxTimers /\ phase' \in {"idle", "tick", "drain", "callback"}
      /\ phase' = "callback" <=> firing' # 0
  BY <1>1 DEF IInv, TypeOK, Cursor
<1> QED
  BY <1>1, <1>4, <1>6, <1>7, <1>8, ListsStep

LEMMA RemoveTimerInv ==
  ASSUME IInv, NEW id, RemoveTimer(id)
  PROVE  IInv'
<1>1. /\ id \in Live /\ bucket' = Delist(bucket, id, timers[id])
      /\ timers' = [i \in Live \ {id} |-> timers[i]]
      /\ since' = [i \in Live \ {id} |-> since[i]]
      /\ UNCHANGED <<clockVars, current, started, phase, drainVars, firing>>
  BY DEF RemoveTimer, Forget
<1>2. TypeOK
  BY DEF IInv
<1>3. Live' = Live \ {id}
  BY <1>1 DEF Live
<1>4. Kept(bucket', Live \ {id}, timers)
  BY <1>1, KeptNow, DelistKeeps
<1>5. \A j \in Live \ {id} : timers'[j] = timers[j]
  BY <1>1
<1>6. Kept(bucket', Live', timers')
  BY <1>3, <1>4, <1>5 DEF Kept, Fits
<1>7. timers' \in [Live' -> TimerType] /\ since' \in [Live' -> Nat \union {-1}]
  BY <1>1, <1>2, <1>3 DEF TypeOK
<1>8. /\ Live' \subseteq 1..started' /\ started' \in 0..MaxTimers /\ firing' \in 0..MaxTimers
      /\ phase' \in {"idle", "tick", "drain", "callback"}
      /\ phase' = "callback" <=> firing' # 0
  BY <1>1, <1>3 DEF IInv, TypeOK, Cursor
<1> QED
  BY <1>1, <1>6, <1>7, <1>8, ListsStep

\* The timer at the front is put back into the wheels, n ticks from now.
LEMMA PutBack ==
  ASSUME IInv, Drained # <<>>, NEW t \in TimerType, t.calls # 0, t.ticks < Span[NumWheels],
         NEW n \in Nat, n < Span[NumWheels], AddWheel(Popped, Head(Drained), t, n)
  PROVE  /\ Live' = Live /\ timers' \in [Live' -> TimerType]
         /\ Kept(bucket', Live', timers')
         /\ \A j \in Live \ {Head(Drained)} : timers'[j] = timers[j]
         /\ \A f \in {"expireAt", "ticks", "calls"} : timers'[Head(Drained)][f] = t[f]
<1> DEFINE id == Head(Drained)
           live == Live \ {id}
<1>1. id \in Live /\ id \in Ids /\ Kept(Popped, live, timers)
  BY PoppedKeeps
<1>2. TypeOK /\ live \in SUBSET Live /\ id \in Ids \ live /\ Live \union {id} = live \union {id}
  BY <1>1 DEF IInv
<1> HIDE DEF id, live
<1>3. /\ Live' = Live \union {id} /\ timers' \in [Live' -> TimerType]
      /\ Kept(bucket', Live', timers')
      /\ \A j \in live : timers'[j] = timers[j]
      /\ \A f \in {"expireAt", "ticks", "calls"} : timers'[id][f] = t[f]
  BY <1>1, <1>2, AddWheelKeeps DEF id
<1> QED
  BY <1>1, <1>2, <1>3 DEF id, live

\* A timer that is called back for the last time is dropped from the lists and the timers.
LEMMA UsedUp ==
  ASSUME IInv, Drained # <<>>,
         bucket' = Delist(Popped, Head(Drained), timers[Head(Drained)]), Forget(Head(Drained))
  PROVE  /\ Live' = Live \ {Head(Drained)} /\ timers' \in [Live' -> TimerType]
         /\ Kept(bucket', Live', timers')
         /\ \A j \in Live' : timers'[j] = timers[j]
<1> DEFINE id == Head(Drained)
<1>1. id \in Live /\ id \in Ids /\ Kept(Popped, Live \ {id}, timers)
  BY PoppedKeeps
<1>2. timers[id].wheel \in Wheels /\ timers[id].bucket \in 0..(BucketNum[timers[id].wheel] - 1)
  BY <1>1 DEF IInv, InRange, TimerFits, TimerType
<1> HIDE DEF id
<1>3. Kept(bucket', Live \ {id}, timers)
  BY <1>1, <1>2, DelistAbsent DEF id
<1>4. /\ timers' = [i \in Live \ {id} |-> timers[i]] /\ Live' = Live \ {id}
      /\ \A j \in Live' : timers'[j] = timers[j]
  BY DEF Forget, Live, id
<1>5. Kept(bucket', Live', timers')
  BY <1>3, <1>4 DEF Kept, Fits
<1> QED
  BY <1>4, <1>5 DEF id, IInv, TypeOK

LEMMA DrainUndoInv ==
  ASSUME IInv, DrainUndo
  PROVE  IInv'
<1> DEFINE id == Head(Drained)
<1>1. /\ Drained # <<>> /\ timers[id].undo > 0
      /\ AddWheel(Popped, id, timers[id], timers[id].undo)
      /\ UNCHANGED <<clockVars, current, started, phase, drainVars, firing, since>>
  BY DEF DrainUndo
<1>2. id \in Live /\ TimerFits(timers[id])
  BY <1>1, PoppedKeeps DEF IInv, InRange
<1>3. timers[id].undo \in Nat
  BY <1>2 DEF TimerFits, TimerType
<1>4. Live' = Live /\ timers' \in [Live' -> TimerType] /\ Kept(bucket', Live', timers')
  BY <1>1, <1>2, <1>3, PutBack DEF TimerFits
<1>5. /\ Live' \subseteq 1..started' /\ started' \in 0..MaxTimers /\ firing' \in 0..MaxTimers
      /\ phase' \in {"idle", "tick", "drain", "callback"}
      /\ phase' = "callback" <=> firing' # 0
      /\ since' \in [Live' -> Nat \union {-1}]
  BY <1>1, <1>4 DEF IInv, TypeOK, Cursor
<1> QED
  BY <1>1, <1>4, <1>5, ListsStep

LEMMA DrainEarlyInv ==
  ASSUME IInv, DrainEarly
  PROVE  IInv'
<1> DEFINE id == Head(Drained)
<1>1. /\ Drained # <<>> /\ AddWheel(Popped, id, timers[id], 1)
      /\ UNCHANGED <<clockVars, current, started, phase, drainVars, firing, since>>
  BY DEF DrainEarly
<1>2. id \in Live /\ TimerFits(timers[id])
  BY <1>1, PoppedKeeps DEF IInv, InRange
<1>3. 1 \in Nat /\ 1 < Span[NumWheels]
  BY TimingWheelAssumption, SpanGrows, BucketNumType
<1>4. Live' = Live /\ timers' \in [Live' -> TimerType] /\ Kept(bucket', Live', timers')
  BY <1>1, <1>2, <1>3, PutBack DEF TimerFits
<1>5. /\ Live' \subseteq 1..started' /\ started' \in 0..MaxTimers /\ firing' \in 0..MaxTimers
      /\ phase' \in {"idle", "tick", "drain", "callback"}
      /\ phase' = "callback" <=> firing' # 0
      /\ since' \in [Live' -> Nat \union {-1}]
  BY <1>1, <1>4 DEF IInv, TypeOK, Cursor
<1> QED
  BY <1>1, <1>4, <1>5, ListsStep

\* The two outcomes of a callback: the timer is put back or used up.
LEMMA DrainFireCases ==
  ASSUME IInv, DrainFire
  PROVE  LET id == Head(Drained)
             t == timers[id]
             called == IF t.calls < 0 THEN t ELSE [t EXCEPT !.calls = @ - 1]
         IN  /\ Drained # <<>> /\ id \in Live /\ id \in Ids /\ TimerFits(t)
             /\ now >= t.expireAt /\ firing' = id /\ phase' = "callback"
             /\ UNCHANGED <<clockVars, current, started, drainVars>>
             /\ \/ /\ called.calls # 0 /\ Live' = Live
                   /\ since' = [since EXCEPT ![id] = 0]
                   /\ \A j \in Live \ {id} : timers'[j] = timers[j]
                   /\ \A f \in {"expireAt", "ticks", "calls"} : timers'[id][f] = called[f]
                \/ /\ called.calls = 0 /\ Live' = Live \ {id}
                   /\ since' = [i \in Live \ {id} |-> since[i]]
                   /\ \A j \in Live' : timers'[j] = timers[j]
             /\ timers' \in [Live' -> TimerType]
             /\ Kept(bucket', Live', timers')
<1> DEFINE id == Head(Drained)
           t == timers[id]
           called == IF t.calls < 0 THEN t ELSE [t EXCEPT !.calls = @ - 1]
<1>1. /\ Drained # <<>> /\ now >= t.expireAt /\ firing' = id /\ phase' = "callback"
      /\ UNCHANGED <<clockVars, current, started, drainVars>>
      /\ IF called.calls # 0
           THEN AddWheel(Popped, id, called, t.ticks) /\ since' = [since EXCEPT ![id] = 0]
           ELSE bucket' = Delist(Popped, id, t) /\ Forget(id)
  BY DEF DrainFire
<1>2. id \in Live /\ id \in Ids /\ TimerFits(t)
  BY <1>1, PoppedKeeps DEF IInv, InRange
<1>3. called \in TimerType /\ called.ticks = t.ticks /\ t.ticks \in Nat
  BY <1>2 DEF TimerFits, TimerType
<1>4. t.ticks < Span[NumWheels]
  BY <1>2 DEF TimerFits
<1> HIDE DEF called
<1>5. CASE called.calls # 0
  <2>1. /\ Live' = Live /\ timers' \in [Live' -> TimerType] /\ Kept(bucket', Live', timers')
        /\ \A j \in Live \ {id} : timers'[j] = timers[j]
        /\ \A f \in {"expireAt", "ticks", "calls"} : timers'[id][f] = called[f]
    BY <1>1, <1>3, <1>4, <1>5, PutBack
  <2> QED
    BY <1>1, <1>2, <1>5, <2>1 DEF called
<1>6. CASE called.calls = 0
  <2>1. /\ Live' = Live \ {id} /\ timers' \in [Live' -> TimerType]
        /\ Kept(bucket', Live', timers') /\ \A j \in Live' : timers'[j] = timers[j]
    BY <1>1, <1>6, UsedUp
  <2>2. since' = [i \in Live \ {id} |-> since[i]]
    BY <1>1, <1>6 DEF Forget
  <2> QED
    BY <1>1, <1>2, <1>6, <2>1, <2>2 DEF called
<1> QED
  BY <1>5, <1>6

LEMMA DrainFireInv ==
  ASSUME IInv, DrainFire
  PROVE  IInv'
<1> DEFINE id == Head(Drained)
<1>1. /\ id \in Live /\ id \in Ids /\ firing' = id /\ phase' = "callback"
      /\ UNCHANGED <<clockVars, current, started, drainVars>>
      /\ \/ Live' = Live /\ since' = [since EXCEPT ![id] = 0]
         \/ Live' = Live \ {id} /\ since' = [i \in Live \ {id} |-> since[i]]
      /\ timers' \in [Live' -> TimerType]
      /\ Kept(bucket', Live', timers')
  BY DrainFireCases
<1> HIDE DEF id
<1>2. /\ Live' \subseteq 1..started' /\ started' \in 0..MaxTimers
      /\ since' \in [Live' -> Nat \union {-1}]
  <2>1. /\ Live \subseteq 1..started /\ started \in 0..MaxTimers
        /\ since \in [Live -> Nat \union {-1}]
    BY DEF IInv, TypeOK
  <2>2. CASE Live' = Live /\ since' = [since EXCEPT ![id] = 0]
    BY <1>1, <2>1, <2>2
  <2>3. CASE Live' = Live \ {id} /\ since' = [i \in Live \ {id} |-> since[i]]
    BY <1>1, <2>1, <2>3
  <2> QED
    BY <1>1, <2>2, <2>3
<1>3. firing' \in 0..MaxTimers /\ firing' # 0
  BY <1>1, TimingWheelAssumption DEF Ids
<1> QED
  BY <1>1, <1>2, <1>3, ListsStep

\* Uncounted is an int, so what is left of it counts less than a tick.
LEMMA OnReadInv ==
  ASSUME IInv, OnRead
  PROVE  IInv'
<1>1. /\ phase = "idle" /\ phase' = "tick"
      /\ ticksLeft' = (IF Uncounted < 0 THEN 0 ELSE Quotient(Uncounted, TickUnits))
      /\ undo' = Remainder(Uncounted, TickUnits)
      /\ UNCHANGED <<now, timestamp, timers, bucket, current, started, wheel, drained, firing, since>>
  BY DEF OnRead
<1>2. TypeOK /\ Cursor /\ TickUnits \in Nat \ {0}
  BY TimingWheelAssumption DEF IInv
<1>3. Uncounted \in Int
  <2>1. /\ undo \in Int /\ now \in Int /\ timestamp \in Int /\ IntLimit \in Nat
        /\ 2 * IntLimit \in Nat \ {0}
    BY <1>2, TimingWheelAssumption DEF TypeOK
  <2> DEFINE x == undo + Abs(now - timestamp)
  <2>2. x \in Int
    BY <2>1 DEF Abs
  <2> HIDE DEF x
  <2>3. (x + IntLimit) % (2 * IntLimit) \in Int
    BY <2>1, <2>2
  <2> QED
    BY <2>1, <2>3 DEF Uncounted, ToInt, x
<1> DEFINE u == Uncounted
<1> HIDE DEF u
<1>4. u \in Int
  BY <1>3 DEF u
<1>5. Remainder(u, TickUnits) \in (1 - TickUnits)..(TickUnits - 1)
  BY <1>2, <1>4 DEF Remainder
<1>6. u >= 0 => Quotient(u, TickUnits) \in Nat
  BY <1>2, <1>4 DEF Quotient
<1>7. ticksLeft' \in Nat
  <2>1. ticksLeft' = (IF u < 0 THEN 0 ELSE Quotient(u, TickUnits))
    BY <1>1 DEF u
  <2> QED
    BY <1>4, <1>6, <2>1
<1>8. undo' \in (1 - TickUnits)..(TickUnits - 1)
  BY <1>1, <1>5 DEF u
<1>9. TypeOK'
  BY <1>1, <1>2, <1>7, <1>8 DEF TypeOK, Live
<1>10. Cursor'
  BY <1>1, <1>2 DEF Cursor
<1> QED
  BY <1>1, <1>9, <1>10, OtherStep

\* The next wheel is entered at the bucket where it stands, and moves on.
LEMMA EnterWheelKeeps ==
  ASSUME IInv, NEW i \in Wheels, EnterWheel(i)
  PROVE  /\ wheel' \in Wheels /\ drained' \in 0..(BucketNum[wheel'] - 1) /\ phase' = "drain"
         /\ DOMAIN current' = Wheels
         /\ \A j \in Wheels : current'[j] \in 0..(BucketNum[j] - 1)
<1>1. /\ wheel' = i /\ drained' = current[i] /\ phase' = "drain"
      /\ current' = [current EXCEPT ![i] = (current[i] + 1) % BucketNum[i]]
  BY DEF EnterWheel
<1>2. DOMAIN current = Wheels /\ \A j \in Wheels : current[j] \in 0..(BucketNum[j] - 1)
  BY DEF IInv, TypeOK
<1>3. (current[i] + 1) % BucketNum[i] \in 0..(BucketNum[i] - 1)
  BY <1>2, BucketNumType
<1> QED
  BY <1>1, <1>2, <1>3

LEMMA BeginTickInv ==
  ASSUME IInv, BeginTick
  PROVE  IInv'
<1>1. /\ phase = "tick" /\ ticksLeft > 0 /\ ticksLeft' = ticksLeft - 1 /\ EnterWheel(1)
      /\ since' = [id \in Live |-> IF since[id] \in 0..MaxSince THEN since[id] + 1 ELSE since[id]]
      /\ UNCHANGED <<clockVars, timers, bucket, started, firing>>
  BY DEF BeginTick
<1>2. TypeOK /\ Cursor /\ 1 \in Wheels
  BY BucketNumType DEF IInv, Wheels
<1>3. /\ wheel' \in Wheels /\ drained' \in 0..(BucketNum[wheel'] - 1) /\ phase' = "drain"
      /\ DOMAIN current' = Wheels
      /\ \A j \in Wheels : current'[j] \in 0..(BucketNum[j] - 1)
  BY <1>1, <1>2, EnterWheelKeeps
<1>4. since' \in [Live' -> Nat \union {-1}]
  <2>1. Live' = Live /\ since \in [Live -> Nat \union {-1}]
    BY <1>1, <1>2 DEF Live, TypeOK
  <2>2. \A n \in Nat \union {-1} : (IF n \in 0..MaxSince THEN n + 1 ELSE n) \in Nat \union {-1}
    OBVIOUS
  <2> QED
    BY <1>1, <2>1, <2>2
<1>5. TypeOK'
  <2>1. ticksLeft' \in Nat
    BY <1>1, <1>2 DEF TypeOK
  <2>2. drained' \in Nat
    BY <1>3, BucketNumType
  <2> QED
    BY <1>1, <1>2, <1>3, <1>4, <2>1, <2>2 DEF TypeOK, Live, clockVars
<1>6. Cursor'
  BY <1>1, <1>2, <1>3 DEF Cursor
<1> QED
  BY <1>1, <1>5, <1>6, OtherStep

LEMMA LeaveWheelInv ==
  ASSUME IInv, LeaveWheel
  PROVE  IInv'
<1>1. /\ phase = "drain"
      /\ UNCHANGED <<clockVars, timers, bucket, started, ticksLeft, firing, since>>
      /\ \/ wheel < NumWheels /\ EnterWheel(wheel + 1)
         \/ phase' = "tick" /\ wheel' = 1 /\ drained' = 0 /\ UNCHANGED current
  BY DEF LeaveWheel
<1>2. TypeOK /\ Cursor /\ 1 \in Wheels
  BY BucketNumType DEF IInv, Wheels
<1>3. /\ wheel' \in Wheels /\ drained' \in 0..(BucketNum[wheel'] - 1)
      /\ phase' \in {"drain", "tick"}
      /\ DOMAIN current' = Wheels
      /\ \A j \in Wheels : current'[j] \in 0..(BucketNum[j] - 1)
  <2>1. CASE wheel < NumWheels /\ EnterWheel(wheel + 1)
    <3>1. wheel + 1 \in Wheels
      BY <1>2, <2>1, BucketNumType DEF TypeOK, Wheels
    <3> QED
      BY <2>1, <3>1, EnterWheelKeeps
  <2>2. CASE phase' = "tick" /\ wheel' = 1 /\ drained' = 0 /\ UNCHANGED current
    <3>1. 0 \in 0..(BucketNum[1] - 1)
      BY <1>2, BucketNumType
    <3> QED
      BY <1>2, <2>2, <3>1 DEF TypeOK
  <2> QED
    BY <1>1, <2>1, <2>2
<1>4. TypeOK'
  <2>1. drained' \in Nat
    BY <1>3, BucketNumType
  <2> QED
    BY <1>1, <1>2, <1>3, <2>1 DEF TypeOK, Live, clockVars
<1>5. Cursor'
  BY <1>1, <1>2, <1>3 DEF Cursor
<1> QED
  BY <1>1, <1>4, <1>5, OtherStep

LEMMA StepInv ==
  ASSUME IInv, [Next]_vars
  PROVE  IInv'
<1>1. CASE UNCHANGED vars
  <2>1. /\ UNCHANGED <<timers, bucket, started>>
        /\ UNCHANGED <<clockVars, current, phase, drainVars, firing, since>>
    BY <1>1 DEF vars
  <2>2. TypeOK' /\ Cursor'
    BY <2>1 DEF IInv, TypeOK, Cursor, Live, clockVars, drainVars
  <2> QED
    BY <2>1, <2>2, OtherStep
<1>2. ASSUME NEW ms \in Expires, NEW calls \in CallTimes, AddTimer(ms, calls) PROVE IInv'
  BY <1>2, AddTimerInv
<1>3. ASSUME NEW id, RemoveTimer(id) PROVE IInv'
  BY <1>3, RemoveTimerInv
<1>4. ASSUME NEW d \in Steps, Advance(d) PROVE IInv'
  <2>1. /\ now' \in 0..MaxClock
        /\ UNCHANGED <<timestamp, undo, timers, bucket, current, started, phase, drainVars,
                       firing, since>>
    BY <1>4 DEF Advance
  <2>2. TypeOK' /\ Cursor'
    BY <2>1 DEF IInv, TypeOK, Cursor, Live, drainVars
  <2> QED
    BY <2>1, <2>2, OtherStep
<1>5. CASE OnRead
  BY <1>5, OnReadInv
<1>6. CASE BeginTick
  BY <1>6, BeginTickInv
<1>7. CASE EndRead
  <2>1. TypeOK' /\ Cursor'
    BY <1>7 DEF IInv, TypeOK, Cursor, Live, EndRead, drainVars
  <2> QED
    BY <1>7, <2>1, OtherStep DEF EndRead
<1>8. CASE DrainUndo
  BY <1>8, DrainUndoInv
<1>9. CASE DrainEarly
  BY <1>9, DrainEarlyInv
<1>10. CASE DrainFire
  BY <1>10, DrainFireInv
<1>11. CASE CallbackReturn
  <2>1. TypeOK' /\ Cursor'
    <3>1. 0 \in 0..MaxTimers
      BY TimingWheelAssumption
    <3> QED
      BY <1>11, <3>1 DEF IInv, TypeOK, Cursor, Live, CallbackReturn, clockVars, drainVars
  <2> QED
    BY <1>11, <2>1, OtherStep DEF CallbackReturn
<1>12. CASE LeaveWheel
  BY <1>12, LeaveWheelInv
<1> QED
  BY <1>1, <1>2, <1>3, <1>4, <1>5, <1>6, <1>7, <1>8, <1>9, <1>10, <1>11, <1>12
     DEF Next, Calls, OnExpired

\* The timers, their lists and the wheels keep their shape in every behaviour.
THEOREM Inductive == SafeSpec => []IInv
<1>1. Init => IInv
  BY InitInv
<1>2. IInv /\ [Next]_vars => IInv'
  BY StepInv
<1> QED
  BY <1>1, <1>2, PTL DEF SafeSpec

\* Whatever AddTimer, RemoveTimer and OnExpired do, with any wheels, clock and callbacks,
\* every bucket index is one of its wheel, every wheel position is in range and undo_nsec_
\* stays less than a tick: no list is looked up outside buckets_.
THEOREM TypeCorrect == Spec => []TypeOK
<1>1. IInv => TypeOK
  BY DEF IInv
<1> QED
  BY <1>1, Inductive, PTL DEF Spec

\* A live timer is always listed exactly once, where its wheel_ and bucket_ say, and nothing
\* else is listed: RemoveTimer finds what it deletes and OnExpired pops no freed timer,
\* through every cascade and every start and stop from within a callback.
THEOREM PlacementCorrect == Spec => []Placement
<1>1. IInv => Placement
  BY DEF IInv
<1> QED
  BY <1>1, Inductive, PTL DEF Spec

-----------------------------------------------------------------------------
(* The wheels implement TimerService. *)

\* What the refinement mapping gives the abstract timers.
due == [id \in Live |-> timers[id].expireAt]
owed == [id \in Live |-> timers[id].calls]
serviceVars == <<now, due, owed, 1..started, firing>>

LEMMA ServiceInit ==
  ASSUME Init
  PROVE  Service!Init
<1>1. Live = {} /\ 1..started = {} /\ now \in 0..MaxClock /\ firing = 0
  BY TimingWheelAssumption DEF Init, Live
<1> QED
  BY <1>1 DEF Service!Init

\* A step that leaves the expiry and the calls of every timer alone leaves due and owed alone.
LEMMA SameTimers ==
  ASSUME Live' = Live,
         \A j \in Live : timers'[j].expireAt = timers[j].expireAt /\ timers'[j].calls = timers[j].calls
  PROVE  due' = due /\ owed' = owed
BY DEF due, owed

\* A timer that goes away takes its due and owed along.
LEMMA OneLess ==
  ASSUME NEW id, Live' = Live \ {id},
         \A j \in Live' : timers'[j].expireAt = timers[j].expireAt /\ timers'[j].calls = timers[j].calls
  PROVE  due' = Service!Without(due, id) /\ owed' = Service!Without(owed, id)
BY DEF due, owed, Service!Without

LEMMA ServiceStart ==
  ASSUME IInv, NEW ms \in Expires, NEW calls \in CallTimes, AddTimer(ms, calls),
         NEW id, id = started + 1
  PROVE  Service!Start(id)
<1> DEFINE t == [expireAt |-> now + ms, ticks |-> TicksOf(ms), calls |-> calls,
                 undo |-> 0, wheel |-> 1, bucket |-> 0]
<1>1. /\ started' = id /\ AddWheel(bucket, id, t, TicksOf(ms))
      /\ UNCHANGED <<clockVars, firing>>
  BY DEF AddTimer
<1>2. /\ started \in Nat /\ Live \subseteq 1..started /\ now \in Nat /\ ms \in Nat /\ calls # 0
  BY TimingWheelAssumption DEF IInv, TypeOK
<1>3. timers' = [i \in Live \union {id} |-> IF i = id THEN Placed(t, TicksOf(ms)) ELSE timers[i]]
  BY <1>1 DEF AddWheel
<1>4. /\ Live' = Live \union {id} /\ id \notin Live
      /\ \A j \in Live : timers'[j] = timers[j]
      /\ timers'[id] = Placed(t, TicksOf(ms))
  BY <1>2, <1>3 DEF Live
<1>5. timers'[id].expireAt = now + ms /\ timers'[id].calls = calls
  BY <1>4 DEF Placed
<1>6. /\ id \notin 1..started /\ 1..started' = 1..started \union {id}
  BY <1>1, <1>2
<1>7. due'[id] >= now /\ owed'[id] # 0
  BY <1>2, <1>4, <1>5 DEF due, owed
<1>8. \A j \in Live : due'[j] = due[j] /\ owed'[j] = owed[j]
  BY <1>4 DEF due, owed
<1>9. /\ DOMAIN due = Live /\ DOMAIN due' = Live' /\ DOMAIN owed' = Live'
  BY DEF due, owed
<1> HIDE DEF t
<1> QED
  BY <1>1, <1>4, <1>6, <1>7, <1>8, <1>9 DEF Service!Start, Service!Live, due, owed, clockVars

LEMMA ServiceStop ==
  ASSUME IInv, NEW id, RemoveTimer(id)
  PROVE  id \in Ids /\ Service!Stop(id)
<1>1. /\ id \in Live /\ timers' = [i \in Live \ {id} |-> timers[i]]
      /\ UNCHANGED <<now, started, firing>>
  BY DEF RemoveTimer, Forget, clockVars
<1>2. Live' = Live \ {id} /\ \A j \in Live' : timers'[j] = timers[j]
  BY <1>1 DEF Live
<1>3. due' = Service!Without(due, id) /\ owed' = Service!Without(owed, id)
  BY <1>2, OneLess
<1>4. id \in Ids
  BY <1>1, TimingWheelAssumption DEF IInv, TypeOK, Ids
<1> QED
  BY <1>1, <1>3, <1>4 DEF Service!Stop, due, owed

LEMMA ServiceFire ==
  ASSUME IInv, DrainFire, NEW id, id = Head(Drained)
  PROVE  id \in Ids /\ Service!Fire(id)
<1> DEFINE t == timers[id]
           called == IF t.calls < 0 THEN t ELSE [t EXCEPT !.calls = @ - 1]
<1>1. /\ id \in Live /\ id \in Ids /\ TimerFits(t) /\ now >= t.expireAt /\ firing' = id
      /\ UNCHANGED <<clockVars, current, started, drainVars>>
      /\ \/ /\ called.calls # 0 /\ Live' = Live
            /\ \A j \in Live \ {id} : timers'[j] = timers[j]
            /\ \A f \in {"expireAt", "ticks", "calls"} : timers'[id][f] = called[f]
         \/ /\ called.calls = 0 /\ Live' = Live \ {id}
            /\ \A j \in Live' : timers'[j] = timers[j]
  BY DrainFireCases
<1>2. firing = 0
  BY DEF IInv, Cursor, DrainFire
<1>3. t \in TimerType /\ t.calls \in Int /\ t.calls # 0 /\ t.expireAt \in Nat /\ now \in Nat
  BY SMTT(20), <1>1, TimingWheelAssumption DEF TimerFits, TimerType, IInv, TypeOK
<1>4. called.expireAt = t.expireAt /\ called.calls = IF t.calls < 0 THEN t.calls ELSE t.calls - 1
  BY <1>3 DEF TimerType
<1>5. due[id] = t.expireAt /\ owed[id] = t.calls /\ DOMAIN due = Live /\ DOMAIN owed = Live
  BY <1>1 DEF due, owed
<1> HIDE DEF t, called
<1>6. CASE /\ called.calls # 0 /\ Live' = Live
           /\ \A j \in Live \ {id} : timers'[j] = timers[j]
           /\ \A f \in {"expireAt", "ticks", "calls"} : timers'[id][f] = called[f]
  <2>1. timers'[id].expireAt = t.expireAt /\ timers'[id].calls = called.calls
    BY <1>4, <1>6
  <2>2. owed[id] # 1
    BY <1>3, <1>4, <1>5, <1>6
  <2>3. due' = due
    BY <1>1, <1>6, <2>1 DEF due, t
  <2>4. owed' = IF owed[id] < 0 THEN owed ELSE [owed EXCEPT ![id] = owed[id] - 1]
    <3>1. \A j \in Live : owed'[j] = IF j = id THEN called.calls ELSE owed[j]
      BY <1>1, <1>6, <2>1 DEF owed
    <3>2. owed' = [j \in Live |-> owed'[j]] /\ owed = [j \in Live |-> owed[j]]
      BY <1>6 DEF owed
    <3> HIDE DEF owed
    <3>3. CASE owed[id] < 0
      BY <1>4, <1>5, <3>1, <3>2, <3>3
    <3>4. CASE ~(owed[id] < 0)
      BY <1>4, <1>5, <3>1, <3>2, <3>4
    <3> QED
      BY <3>3, <3>4
  <2> QED
    BY <1>1, <1>2, <1>3, <1>5, <2>2, <2>3, <2>4
       DEF Service!Fire, Service!Live, due, owed, clockVars, t
<1>7. CASE /\ called.calls = 0 /\ Live' = Live \ {id}
           /\ \A j \in Live' : timers'[j] = timers[j]
  <2>1. owed[id] = 1
    BY <1>3, <1>4, <1>5, <1>7
  <2>2. due' = Service!Without(due, id) /\ owed' = Service!Without(owed, id)
    BY <1>7, OneLess
  <2> QED
    BY <1>1, <1>2, <1>3, <1>5, <2>1, <2>2
       DEF Service!Fire, Service!Live, due, owed, clockVars, t
<1> QED
  BY <1>1, <1>6, <1>7

\* A timer that is only put elsewhere on the wheels is due when it was, as often as before.
LEMMA ServiceMoved ==
  ASSUME IInv, Drained # <<>>, NEW n \in Nat, n < Span[NumWheels],
         AddWheel(Popped, Head(Drained), timers[Head(Drained)], n)
  PROVE  due' = due /\ owed' = owed
<1> DEFINE id == Head(Drained)
<1>1. id \in Live /\ TimerFits(timers[id])
  BY PoppedKeeps DEF IInv, InRange
<1>2. /\ Live' = Live /\ \A j \in Live \ {id} : timers'[j] = timers[j]
      /\ \A f \in {"expireAt", "ticks", "calls"} : timers'[id][f] = timers[id][f]
  BY <1>1, PutBack DEF TimerFits
<1> HIDE DEF id
<1>3. \A j \in Live : timers'[j].expireAt = timers[j].expireAt /\ timers'[j].calls = timers[j].calls
  BY <1>2
<1> QED
  BY <1>2, <1>3, SameTimers

LEMMA ServiceStep ==
  ASSUME IInv, IInv', [Next]_vars
  PROVE  [Service!Next]_serviceVars
<1> DEFINE stutter == UNCHANGED serviceVars
<1>1. ASSUME UNCHANGED <<now, timers, started, firing>> PROVE stutter
  BY <1>1 DEF serviceVars, due, owed, Live
<1>2. CASE UNCHANGED vars
  BY <1>1, <1>2 DEF vars, clockVars
<1>3. ASSUME NEW ms \in Expires, NEW calls \in CallTimes, AddTimer(ms, calls) PROVE Service!Next
  <2>1. PICK id \in Ids : id = started + 1
    BY <1>3, TimingWheelAssumption DEF AddTimer, IInv, TypeOK, Ids
  <2>2. Service!Start(id)
    BY <1>3, <2>1, ServiceStart
  <2> QED
    BY <2>2 DEF Service!Next
<1>4. ASSUME NEW id, RemoveTimer(id) PROVE Service!Next
  BY <1>4, ServiceStop DEF Service!Next
<1>5. ASSUME NEW d \in Steps, Advance(d) PROVE Service!Next
  <2>1. now' \in 0..MaxClock /\ UNCHANGED <<timers, started, firing>>
    BY <1>5 DEF Advance
  <2> QED
    BY <2>1 DEF Service!Next, Service!Clock, due, owed, Live
<1>6. CASE OnRead
  BY <1>1, <1>6 DEF OnRead
<1>7. CASE BeginTick
  BY <1>1, <1>7 DEF BeginTick, clockVars
<1>8. CASE EndRead
  BY <1>1, <1>8 DEF EndRead
<1>9. CASE DrainUndo
  <2> DEFINE id == Head(Drained)
  <2>1. /\ Drained # <<>> /\ AddWheel(Popped, id, timers[id], timers[id].undo)
        /\ UNCHANGED <<clockVars, started, firing>>
    BY <1>9 DEF DrainUndo
  <2>2. timers[id].undo \in Nat /\ timers[id].undo < Span[NumWheels]
    BY <2>1, PoppedKeeps DEF IInv, InRange, TimerFits, TimerType
  <2>3. due' = due /\ owed' = owed
    BY <2>1, <2>2, ServiceMoved
  <2> QED
    BY <2>1, <2>3 DEF serviceVars, clockVars
<1>10. CASE DrainEarly
  <2>1. /\ Drained # <<>> /\ AddWheel(Popped, Head(Drained), timers[Head(Drained)], 1)
        /\ UNCHANGED <<clockVars, started, firing>>
    BY <1>10 DEF DrainEarly
  <2>2. 1 \in Nat /\ 1 < Span[NumWheels]
    BY TimingWheelAssumption, SpanGrows, BucketNumType
  <2>3. due' = due /\ owed' = owed
    BY <2>1, <2>2, ServiceMoved
  <2> QED
    BY <2>1, <2>3 DEF serviceVars, clockVars
<1>11. CASE DrainFire
  <2>1. PICK id : id = Head(Drained)
    OBVIOUS
  <2>2. id \in Ids /\ Service!Fire(id)
    BY <1>11, <2>1, ServiceFire
  <2> QED
    BY <2>2 DEF Service!Next
<1>12. CASE CallbackReturn
  <2>1. /\ firing # 0 /\ firing' = 0 /\ UNCHANGED <<now, timers, started>>
    BY <1>12 DEF CallbackReturn, clockVars, IInv, Cursor
  <2> QED
    BY <2>1 DEF Service!Next, Service!Return, due, owed, Live
<1>13. CASE LeaveWheel
  BY <1>1, <1>13 DEF LeaveWheel, clockVars
<1> QED
  BY <1>2, <1>3, <1>4, <1>5, <1>6, <1>7, <1>8, <1>9, <1>10, <1>11, <1>12, <1>13
     DEF Next, Calls, OnExpired

\* Seen from StartTimer, StopTimer and the callbacks, the wheels are a set of timers: none is
\* called back before its expire_ms, more often than its call_times or after it was stopped,
\* and one callback runs at a time, for every size of the wheels and every clock.
THEOREM ServiceCorrect == Spec => ServiceSpec
<1>1. Init => Service!Init
  BY ServiceInit
<1>2. IInv /\ IInv' /\ [Next]_vars => [Service!Next]_(Service!serviceVars)
  BY ServiceStep DEF Service!serviceVars, serviceVars, due, owed
<1> QED
  BY <1>1, <1>2, Inductive, PTL DEF Spec, SafeSpec, ServiceSpec, Service!Spec

-----------------------------------------------------------------------------
(* Where the wheels stand. *)

\* How many ticks the wheels below i have turned, of any positions c.
TurnedOf(c, i) ==
  LET sum[j \in 0..(i - 1)] == IF j = 0 THEN 0 ELSE sum[j - 1] + (c[j] * Span[j - 1])
  IN  sum[i - 1]

Positions(c) == DOMAIN c = Wheels /\ \A i \in Wheels : c[i] \in 0..(BucketNum[i] - 1)

\* The sum of m wheels, as a function of m.
LEMMA TurnedSteps ==
  ASSUME NEW c, Positions(c)
  PROVE  /\ TurnedOf(c, 1) = 0
         /\ \A i \in Wheels : TurnedOf(c, i) \in Int
         /\ \A i \in Wheels : i + 1 \in Wheels =>
              TurnedOf(c, i + 1) = TurnedOf(c, i) + (c[i] * Span[i - 1])
<1> DEFINE Is(f, m) == f = [j \in 0..m |-> IF j = 0 THEN 0 ELSE f[j - 1] + (c[j] * Span[j - 1])]
           s(m) == CHOOSE f : Is(f, m)
<1>1. ASSUME NEW m \in Nat PROVE Is(s(m), m)
  <2>1. \E f : Is(f, m)
    BY TurnedDef
  <2> HIDE DEF Is
  <2> QED
    BY <2>1
<1>2. ASSUME NEW i \in Wheels PROVE i - 1 \in Nat /\ i \in Nat /\ TurnedOf(c, i) = s(i - 1)[i - 1]
  BY DEF TurnedOf, Wheels
<1> HIDE DEF s
<1>3. ASSUME NEW m \in Nat
      PROVE  /\ s(m)[0] = 0
             /\ \A j \in 1..m : s(m)[j] = s(m)[j - 1] + (c[j] * Span[j - 1])
  BY <1>1
<1> HIDE DEF Is
<1>4. ASSUME NEW i \in Wheels, NEW j \in 1..i
      PROVE  c[j] * Span[j - 1] \in Int
  <2>1. j \in Wheels /\ j - 1 \in 0..NumWheels
    BY BucketNumType DEF Wheels
  <2>2. c[j] \in Int /\ Span[j - 1] \in Int
    BY <2>1, BucketNumType, SpanGrows DEF Positions
  <2> QED
    BY <2>2
<1>5. ASSUME NEW i \in Wheels PROVE s(i - 1)[i - 1] \in Int /\ s(i)[i - 1] = s(i - 1)[i - 1]
  <2> DEFINE T == {j \in Nat : j <= i - 1 => s(i - 1)[j] \in Int /\ s(i)[j] = s(i - 1)[j]}
  <2>1. 0 \in T
    BY <1>2, <1>3
  <2>2. ASSUME NEW j \in Nat, j \in T PROVE j + 1 \in T
    <3> SUFFICES ASSUME j + 1 <= i - 1
                 PROVE  s(i - 1)[j + 1] \in Int /\ s(i)[j + 1] = s(i - 1)[j + 1]
      OBVIOUS
    <3>1. i \in Nat /\ i - 1 \in Nat /\ j + 1 \in 1..(i - 1) /\ j + 1 \in 1..i /\ j + 1 - 1 = j /\ j <= i - 1
      BY <1>2
    <3>2. s(i - 1)[j] \in Int /\ s(i)[j] = s(i - 1)[j]
      BY <2>2, <3>1
    <3>3. c[j + 1] * Span[j] \in Int
      BY <1>4, <3>1
    <3>4. /\ s(i - 1)[j + 1] = s(i - 1)[j] + (c[j + 1] * Span[j])
          /\ s(i)[j + 1] = s(i)[j] + (c[j + 1] * Span[j])
      BY <1>3, <3>1
    <3> QED
      BY <3>2, <3>3, <3>4
  <2>3. i - 1 \in T
    <3>1. i - 1 \in Nat
      BY <1>2
    <3> HIDE DEF T
    <3> QED
      BY <2>1, <2>2, <3>1, Induction
  <2> QED
    BY <2>3
<1>6. TurnedOf(c, 1) = 0
  <2>1. 1 \in Wheels
    BY BucketNumType DEF Wheels
  <2> QED
    BY <1>2, <1>3, <2>1
<1>7. ASSUME NEW i \in Wheels, i + 1 \in Wheels
      PROVE  TurnedOf(c, i + 1) = TurnedOf(c, i) + (c[i] * Span[i - 1])
  <2>1. /\ i \in Nat /\ i \in 1..i
        /\ TurnedOf(c, i + 1) = s(i)[i] /\ TurnedOf(c, i) = s(i - 1)[i - 1]
    BY <1>2, <1>7 DEF Wheels
  <2>2. s(i)[i] = s(i)[i - 1] + (c[i] * Span[i - 1])
    BY <1>3, <2>1
  <2> QED
    BY <1>5, <2>1, <2>2
<1> QED
  BY <1>2, <1>5, <1>6, <1>7

LEMMA WheelInduction ==
  ASSUME NEW T, 1 \in T, \A i \in Wheels : i + 1 \in Wheels /\ i \in T => i + 1 \in T
  PROVE  \A i \in Wheels : i \in T
<1> DEFINE U == {m \in Nat : m + 1 \in Wheels => m + 1 \in T}
<1>1. 0 \in U
  OBVIOUS
<1>2. ASSUME NEW m \in Nat, m \in U PROVE m + 1 \in U
  <2> SUFFICES ASSUME m + 1 + 1 \in Wheels PROVE m + 1 + 1 \in T
    OBVIOUS
  <2>1. m + 1 \in Wheels
    BY BucketNumType DEF Wheels
  <2> QED
    BY <1>2, <2>1
<1>3. ASSUME NEW m \in Nat PROVE m \in U
  <2> HIDE DEF U
  <2> QED
    BY <1>1, <1>2, Induction
<1>4. ASSUME NEW i \in Wheels PROVE i \in T
  <2>1. i - 1 \in Nat /\ i - 1 + 1 = i
    BY BucketNumType DEF Wheels
  <2> QED
    BY <1>3, <2>1
<1> QED
  BY <1>4

\* One wheel moves: those above it notice.
LEMMA TurnedMoves ==
  ASSUME NEW c, Positions(c), NEW w \in Wheels, NEW v \in 0..(BucketNum[w] - 1)
  PROVE  \A i \in Wheels :
           TurnedOf([c EXCEPT ![w] = v], i) =
             TurnedOf(c, i) + (IF w < i THEN (v - c[w]) * Span[w - 1] ELSE 0)
<1> DEFINE d == [c EXCEPT ![w] = v]
<1>1. Positions(d) /\ d[w] = v /\ \A i \in Wheels \ {w} : d[i] = c[i]
  BY DEF Positions
<1> HIDE DEF d
<1> DEFINE T == {i \in Wheels : TurnedOf(d, i) =
                   TurnedOf(c, i) + (IF w < i THEN (v - c[w]) * Span[w - 1] ELSE 0)}
<1>2. 1 \in T
  BY <1>1, TurnedSteps, BucketNumType DEF Wheels
<1>3. ASSUME NEW i \in Wheels, i + 1 \in Wheels, i \in T PROVE i + 1 \in T
  <2>1. /\ TurnedOf(c, i + 1) = TurnedOf(c, i) + (c[i] * Span[i - 1])
        /\ TurnedOf(d, i + 1) = TurnedOf(d, i) + (d[i] * Span[i - 1])
        /\ TurnedOf(c, i) \in Int
    BY <1>1, <1>3, TurnedSteps
  <2>2. /\ i \in Nat /\ w \in Nat /\ c[i] \in Int /\ c[w] \in Int /\ v \in Int
        /\ Span[i - 1] \in Int /\ Span[w - 1] \in Int
    BY BucketNumType, SpanGrows DEF Wheels, Positions
  <2>3. TurnedOf(d, i) = TurnedOf(c, i) + (IF w < i THEN (v - c[w]) * Span[w - 1] ELSE 0)
    BY <1>3
  <2>4. CASE i = w
    <3>1. (v - c[w]) * Span[w - 1] = (v * Span[w - 1]) - (c[w] * Span[w - 1])
      BY <2>2
    <3>2. v * Span[w - 1] \in Int /\ c[w] * Span[w - 1] \in Int
      BY <2>2
    <3>3. w < i + 1 /\ ~(w < i)
      BY <2>2, <2>4
    <3> QED
      BY <1>1, <1>3, <2>1, <2>3, <2>4, <3>1, <3>2, <3>3
  <2>5. CASE i # w
    <3>1. d[i] = c[i] /\ (w < i <=> w < i + 1)
      BY <1>1, <2>2, <2>5
    <3>2. c[i] * Span[i - 1] \in Int /\ (v - c[w]) * Span[w - 1] \in Int
      BY <2>2
    <3> HIDE DEF T
    <3>3. TurnedOf(d, i + 1) = TurnedOf(c, i + 1) + (IF w < i + 1 THEN (v - c[w]) * Span[w - 1] ELSE 0)
      BY <2>1, <2>3, <3>1, <3>2
    <3> QED
      BY <1>3, <3>3 DEF T
  <2> QED
    BY <2>4, <2>5
<1>4. \A i \in Wheels : i \in T
  <2> HIDE DEF T
  <2> QED
    BY <1>2, <1>3, WheelInduction
<1> QED
  BY <1>4 DEF d

LEMMA TurnedNone ==
  ASSUME NEW c, Positions(c), NEW w \in Wheels, \A j \in 1..(w - 1) : c[j] = 0
  PROVE  TurnedOf(c, w) = 0
<1> DEFINE T == {i \in Wheels : i <= w => TurnedOf(c, i) = 0}
<1>1. 1 \in T
  BY TurnedSteps, BucketNumType DEF Wheels
<1>2. ASSUME NEW i \in Wheels, i + 1 \in Wheels, i \in T PROVE i + 1 \in T
  <2> SUFFICES ASSUME i + 1 <= w PROVE TurnedOf(c, i + 1) = 0
    BY <1>2
  <2>1. i \in 1..(w - 1) /\ i <= w
    BY BucketNumType DEF Wheels
  <2>2. c[i] = 0 /\ TurnedOf(c, i) = 0 /\ Span[i - 1] \in Int
    BY <1>2, <2>1, SpanGrows, BucketNumType DEF Wheels
  <2> QED
    BY <1>2, <2>2, TurnedSteps
<1>3. \A i \in Wheels : i \in T
  <2> HIDE DEF T
  <2> QED
    BY <1>1, <1>2, WheelInduction
<1> QED
  BY <1>3, BucketNumType DEF Wheels

-----------------------------------------------------------------------------
(* How far away the drain of a bucket is. *)

\* Steps of wheel i, whose position is c[i], until bucket b is the current one.
GapOf(c, i, b) == IF b >= c[i] THEN b - c[i] ELSE b - c[i] + BucketNum[i]

\* Ticks until bucket b of wheel i has been drained, with no wheel about to be entered.
FarOf(c, i, b) == ((GapOf(c, i, b) + 1) * Span[i - 1]) - TurnedOf(c, i)

LEMMA GapRange ==
  ASSUME NEW c, Positions(c), NEW i \in Wheels, NEW b \in 0..(BucketNum[i] - 1)
  PROVE  GapOf(c, i, b) \in 0..(BucketNum[i] - 1)
BY BucketNumType DEF Positions, GapOf

LEMMA SpansAt ==
  ASSUME NEW i \in Wheels
  PROVE  /\ i \in Nat /\ i - 1 \in 0..NumWheels /\ i \in 0..NumWheels
         /\ Span[i - 1] \in Nat \ {0} /\ Span[i] \in Nat \ {0} /\ BucketNum[i] \in Nat \ {0}
         /\ Span[i] = Span[i - 1] * BucketNum[i]
BY SpanGrows, BucketNumType DEF Wheels

\* Wheel w, whose finer wheels have just wrapped, is entered at its current bucket and moves
\* on from position c to d.
Moves(c, d, w) ==
  /\ \A j \in 1..(w - 1) : c[j] = 0
  /\ d = [c EXCEPT ![w] = (c[w] + 1) % BucketNum[w]]

\* Every other bucket of w and of the coarser wheels comes nearer by a step of w, the one a
\* wrap of w announces included.
Nearer(c, d, w, i, b) ==
  /\ FarOf(c, i, b) \in Int /\ FarOf(d, i, b) \in Int
  /\ i < w => FarOf(d, i, b) = FarOf(c, i, b)
  /\ i = w /\ b = c[w] => FarOf(c, i, b) = Span[w - 1]
  /\ i = w /\ b # c[w] => FarOf(d, i, b) = FarOf(c, i, b) - Span[w - 1]
  /\ i > w => FarOf(d, i, b) - (IF d[w] = 0 THEN Span[w] ELSE 0) = FarOf(c, i, b) - Span[w - 1]

LEMMA Enters ==
  ASSUME NEW c, Positions(c), NEW w \in Wheels, NEW d, Moves(c, d, w),
         NEW i \in Wheels, NEW b \in 0..(BucketNum[i] - 1)
  PROVE  Nearer(c, d, w, i, b)
<1>0. (\A j \in 1..(w - 1) : c[j] = 0) /\ d = [c EXCEPT ![w] = (c[w] + 1) % BucketNum[w]]
  BY DEF Moves
<1> DEFINE v == (c[w] + 1) % BucketNum[w]
<1>1. /\ c[w] \in 0..(BucketNum[w] - 1) /\ v \in 0..(BucketNum[w] - 1)
      /\ v = IF c[w] = BucketNum[w] - 1 THEN 0 ELSE c[w] + 1
  BY SpansAt DEF Positions
<1>2. Positions(d) /\ d[w] = v /\ \A j \in Wheels \ {w} : d[j] = c[j]
  BY <1>0, <1>1 DEF Positions
<1> HIDE DEF v
<1>3. /\ TurnedOf(d, i) = TurnedOf(c, i) + (IF w < i THEN (v - c[w]) * Span[w - 1] ELSE 0)
      /\ TurnedOf(c, i) \in Int /\ TurnedOf(d, i) \in Int
  <2>1. d = [c EXCEPT ![w] = v]
    BY <1>0 DEF v
  <2>2. TurnedOf([c EXCEPT ![w] = v], i) =
             TurnedOf(c, i) + (IF w < i THEN (v - c[w]) * Span[w - 1] ELSE 0)
    BY <1>1, TurnedMoves
  <2> QED
    BY <1>2, <2>1, <2>2, TurnedSteps
<1>4. GapOf(c, i, b) \in Int /\ GapOf(d, i, b) \in Int
  BY <1>2, GapRange
<1>5. FarOf(c, i, b) \in Int /\ FarOf(d, i, b) \in Int
  <2>1. Span[i - 1] \in Int
    BY SpansAt
  <2> QED
    BY <1>3, <1>4, <2>1 DEF FarOf
<1>6. ASSUME i < w PROVE FarOf(d, i, b) = FarOf(c, i, b)
  <2>1. d[i] = c[i] /\ ~(w < i)
    BY <1>2, <1>6, SpansAt
  <2> QED
    BY <1>3, <2>1 DEF FarOf, GapOf
<1>7. ASSUME i = w, b = c[w] PROVE FarOf(c, i, b) = Span[w - 1]
  <2>1. TurnedOf(c, w) = 0
    BY <1>0, TurnedNone
  <2>2. GapOf(c, i, b) = 0
    BY <1>1, <1>7 DEF GapOf
  <2> QED
    BY <1>7, <2>1, <2>2, SpansAt DEF FarOf
<1>8. ASSUME i = w, b # c[w] PROVE FarOf(d, i, b) = FarOf(c, i, b) - Span[w - 1]
  <2>1. GapOf(d, i, b) = GapOf(c, i, b) - 1
    <3> DEFINE m == BucketNum[w]  x == c[w]
    <3>1. /\ m \in Nat \ {0} /\ x \in 0..(m - 1) /\ b \in 0..(m - 1) /\ b # x
          /\ v = IF x = m - 1 THEN 0 ELSE x + 1
      BY <1>1, <1>8, SpansAt
    <3>2. /\ GapOf(c, i, b) = IF b >= x THEN b - x ELSE b - x + m
          /\ GapOf(d, i, b) = IF b >= v THEN b - v ELSE b - v + m
      BY <1>2, <1>8 DEF GapOf
    <3> HIDE DEF m, x, v
    <3>3. CASE x = m - 1
      <4>1. v = 0 /\ ~(b >= x) /\ b >= v
        BY <3>1, <3>3
      <4> QED
        BY <3>1, <3>2, <3>3, <4>1
    <3>4. CASE x # m - 1
      <4>1. v = x + 1
        BY <3>1, <3>4
      <4>2. b >= x <=> b >= v
        BY <3>1, <4>1
      <4> QED
        BY <3>1, <3>2, <4>1, <4>2
    <3> QED
      BY <3>3, <3>4
  <2>2. TurnedOf(d, i) = TurnedOf(c, i)
    BY <1>3, <1>8, SpansAt
  <2> DEFINE g == GapOf(c, i, b)  s == Span[w - 1]
  <2>3. g \in Int /\ s \in Int
    BY <1>4, SpansAt
  <2>4. FarOf(c, i, b) = ((g + 1) * s) - TurnedOf(c, i)
    BY <1>8 DEF FarOf
  <2>5. FarOf(d, i, b) = ((g - 1 + 1) * s) - TurnedOf(c, i)
    BY <1>8, <2>1, <2>2 DEF FarOf
  <2> HIDE DEF g, s
  <2>6. (g + 1) * s = (g * s) + s /\ (g - 1 + 1) * s = g * s /\ g * s \in Int
    BY <2>3
  <2> QED
    BY <1>3, <2>3, <2>4, <2>5, <2>6 DEF s
<1>9. ASSUME i > w
      PROVE  FarOf(d, i, b) - (IF d[w] = 0 THEN Span[w] ELSE 0) = FarOf(c, i, b) - Span[w - 1]
  <2>1. w < i /\ i # w /\ GapOf(d, i, b) = GapOf(c, i, b)
    BY <1>2, <1>9, SpansAt DEF GapOf
  <2> DEFINE s == Span[w - 1]  n == BucketNum[w]  x == (GapOf(c, i, b) + 1) * Span[i - 1]
  <2>2. s \in Nat \ {0} /\ n \in Nat \ {0} /\ Span[w] = s * n
    BY SpansAt
  <2>3. x \in Int
    BY <1>4, SpansAt
  <2>4. FarOf(c, i, b) = x - TurnedOf(c, i) /\ FarOf(d, i, b) = x - TurnedOf(d, i)
    BY <2>1 DEF FarOf
  <2>5. TurnedOf(d, i) = TurnedOf(c, i) + ((v - c[w]) * s)
    BY <1>3, <2>1
  <2>6. c[w] \in Int /\ v = IF c[w] = n - 1 THEN 0 ELSE c[w] + 1
    BY <1>1
  <2>7. d[w] = v
    BY <1>2
  <2> HIDE DEF s, n, x, v
  <2>8. CASE c[w] = n - 1
    <3>1. v = 0 /\ (v - c[w]) * s = s - (s * n)
      <4>1. v = 0 /\ v - c[w] = 1 - n
        BY <2>2, <2>6, <2>8
      <4>2. (1 - n) * s = s - (s * n)
        BY <2>2
      <4> QED
        BY <4>1, <4>2
    <3>2. s * n \in Int
      BY <2>2
    <3>3. FarOf(d, i, b) - (s * n) = FarOf(c, i, b) - s
      BY <1>3, <2>2, <2>3, <2>4, <2>5, <3>1, <3>2
    <3> QED
      BY <2>2, <2>7, <3>1, <3>3 DEF s
  <2>9. CASE c[w] # n - 1
    <3>1. v = c[w] + 1 /\ v # 0
      BY <1>1, <2>6, <2>9
    <3>2. (v - c[w]) * s = s
      <4>1. v - c[w] = 1
        BY <2>6, <3>1
      <4> QED
        BY <2>2, <4>1
    <3>3. FarOf(d, i, b) = FarOf(c, i, b) - s
      BY <1>3, <2>2, <2>3, <2>4, <2>5, <3>2
    <3> QED
      BY <1>5, <2>7, <3>1, <3>3 DEF s
  <2> QED
    BY <2>8, <2>9
<1> QED
  BY <1>5, <1>6, <1>7, <1>8, <1>9 DEF Nearer

\* What a timer has left to undo is what its bucket leaves over.
LEMMA PlacedFar ==
  ASSUME \A i \in Wheels : current[i] \in 0..(BucketNum[i] - 1), DOMAIN current = Wheels,
         NEW t \in TimerType, NEW n \in Nat \ {0}, n < Span[NumWheels]
  PROVE  FarOf(current, Placed(t, n).wheel, Placed(t, n).bucket) + Placed(t, n).undo = n
<1> DEFINE i == WheelFor(n)
<1>1. i \in Wheels /\ n < Span[i] /\ \A j \in 1..(i - 1) : n >= Span[j]
  BY WheelForFits
<1>2. Placed(t, n) = [t EXCEPT !.wheel = i, !.bucket = BucketFor(i, n),
                               !.undo = Turned(i) + (n % Span[i - 1])]
  BY DEF Placed
<1>3. /\ Placed(t, n).wheel = i /\ Placed(t, n).bucket = BucketFor(i, n)
      /\ Placed(t, n).undo = Turned(i) + (n % Span[i - 1])
  BY <1>2 DEF TimerType
<1> HIDE DEF i
<1> DEFINE s == Span[i - 1]  m == BucketNum[i]  c == current[i]  q == n \div s
<1>4. s \in Nat \ {0} /\ m \in Nat \ {0} /\ Span[i] = s * m /\ c \in 0..(m - 1)
  BY <1>1, SpansAt
<1>5. n >= s
  <2>1. CASE i = 1
    BY <2>1, SpanGrows
  <2>2. CASE i # 1
    <3>1. i - 1 \in 1..(i - 1)
      BY <1>1, <2>2, SpansAt DEF Wheels
    <3> QED
      BY <1>1, <3>1
  <2> QED
    BY <2>1, <2>2
<1>6. Positions(current) /\ Turned(i) = TurnedOf(current, i)
  BY DEF Positions, Turned, TurnedOf
<1>7. TurnedOf(current, i) \in Int
  BY <1>1, <1>6, TurnedSteps
<1>8. FarOf(current, i, BucketFor(i, n)) = ((GapOf(current, i, BucketFor(i, n)) + 1) * s) - TurnedOf(current, i)
  BY DEF FarOf
<1>9. /\ BucketFor(i, n) = IF (q + c) % m > 0 THEN ((q + c) % m) - 1 ELSE m - 1
      /\ \A b : GapOf(current, i, b) = IF b >= c THEN b - c ELSE b - c + m
  BY DEF BucketFor, GapOf
<1>10. n < s * m
  BY <1>1, <1>4
<1> HIDE DEF s, m, c
<1>11. q \in 1..(m - 1) /\ n = (q * s) + (n % s)
  <2>1. q \in Nat /\ n % s \in 0..(s - 1) /\ n = (s * q) + (n % s)
    BY <1>4
  <2>2. q >= 1
    <3> HIDE DEF q
    <3> QED
      BY <1>4, <1>5, <2>1
  <2>3. q < m
    <3> HIDE DEF q
    <3>1. SUFFICES ASSUME q >= m PROVE FALSE
      BY <1>4, <2>1
    <3>2. s * q >= s * m
      BY <1>4, <2>1, <3>1
    <3> QED
      BY <1>4, <1>10, <2>1, <3>2
  <2>4. s * q = q * s
    BY <1>4, <2>1
  <2> QED
    BY <1>4, <2>1, <2>2, <2>3, <2>4
<1> HIDE DEF q
<1>12. GapOf(current, i, BucketFor(i, n)) = q - 1
  <2>1. (q + c) % m = IF q + c < m THEN q + c ELSE q + c - m
    BY <1>4, <1>11
  <2> DEFINE b == BucketFor(i, n)
  <2>2. CASE q + c < m
    <3>1. b = q + c - 1
      BY <1>4, <1>9, <1>11, <2>1, <2>2
    <3> HIDE DEF b
    <3>2. GapOf(current, i, b) = q - 1
      BY <1>4, <1>9, <1>11, <3>1
    <3> QED
      BY <3>2 DEF b
  <2>3. CASE q + c = m
    <3>1. b = m - 1
      BY <1>4, <1>9, <1>11, <2>1, <2>3
    <3> HIDE DEF b
    <3>2. GapOf(current, i, b) = q - 1
      BY <1>4, <1>9, <1>11, <2>3, <3>1
    <3> QED
      BY <3>2 DEF b
  <2>4. CASE q + c > m
    <3>1. b = q + c - m - 1
      BY <1>4, <1>9, <1>11, <2>1, <2>4
    <3> HIDE DEF b
    <3>2. GapOf(current, i, b) = q - 1
      BY <1>4, <1>9, <1>11, <2>4, <3>1
    <3> QED
      BY <3>2 DEF b
  <2> QED
    BY <1>4, <1>11, <2>2, <2>3, <2>4
<1>13. FarOf(current, i, BucketFor(i, n)) = (q * s) - TurnedOf(current, i)
  <2>1. q - 1 + 1 = q
    BY <1>11
  <2> QED
    BY <1>8, <1>12, <2>1
<1>14. q * s \in Int /\ n % s \in Int
  BY <1>4, <1>11
<1> QED
  BY <1>3, <1>6, <1>7, <1>11, <1>13, <1>14 DEF s

-----------------------------------------------------------------------------
(* Timers are in time. *)

\* A bucket is being drained, which comes between the ticks of OnExpired.
Draining == phase \in {"drain", "callback"}

\* Then the finer wheels than the one that is drained have wrapped, and it has moved on.
Turning ==
  Draining => /\ \A j \in 1..(wheel - 1) : current[j] = 0
              /\ current[wheel] = (drained + 1) % BucketNum[wheel]

\* Ticks until bucket b of wheel i has been drained: none if that goes on, and when the
\* wheel that is drained has wrapped, the coarser ones move within the same tick.
Carry(i) == IF Draining /\ i > wheel /\ current[wheel] = 0 THEN Span[wheel] ELSE 0
TicksTo(i, b) ==
  IF Draining /\ i = wheel /\ b = drained THEN 0 ELSE FarOf(current, i, b) - Carry(i)

\* Ticks until a timer is looked at with no ticks to undo.
Left(id) == TicksTo(timers[id].wheel, timers[id].bucket) + timers[id].undo

\* The moment that the ticks counted so far amount to.
WheelTime == IF phase = "idle" THEN timestamp - undo ELSE now - undo - (ticksLeft * TickUnits)

InTime(id) ==
  since[id] = -1 => WheelTime + (Left(id) * TickUnits) <= timers[id].expireAt + TickUnits

\* What the clock leaves over is part of a tick.
Steady == undo >= 0 /\ timestamp <= now

OInv == Steady /\ \A id \in Live : InTime(id)

\* The clock is not set back, and OnExpired comes before undo_nsec_ overflows.
ClockKept == now' >= now
GapsHeld == now - timestamp <= IntLimit - TickUnits

LEMMA PositionsNow ==
  ASSUME IInv
  PROVE  Positions(current)
BY DEF IInv, TypeOK, Positions

LEMMA FarPositive ==
  ASSUME IInv, NEW i \in Wheels, NEW b \in 0..(BucketNum[i] - 1)
  PROVE  FarOf(current, i, b) \in Nat \ {0}
<1>1. \A j \in Wheels : current[j] \in 0..(BucketNum[j] - 1)
  BY DEF IInv, TypeOK
<1>2. Turned(i) \in 0..(Span[i - 1] - 1) /\ Turned(i) = TurnedOf(current, i)
  BY <1>1, TurnedBounded DEF Turned, TurnedOf
<1> DEFINE g == GapOf(current, i, b)  s == Span[i - 1]
<1>3. g \in Nat /\ s \in Nat \ {0}
  BY PositionsNow, GapRange, SpansAt
<1>4. FarOf(current, i, b) = ((g + 1) * s) - TurnedOf(current, i)
  BY DEF FarOf
<1>5. TurnedOf(current, i) \in 0..(s - 1)
  BY <1>2
<1> HIDE DEF g, s
<1>6. (g + 1) * s >= s /\ (g + 1) * s \in Nat
  <2>1. (g + 1) * s = (g * s) + s /\ g * s \in Nat
    BY <1>3
  <2> QED
    BY <1>3, <2>1
<1> QED
  BY <1>3, <1>4, <1>5, <1>6

LEMMA CarryRange ==
  ASSUME IInv, NEW i
  PROVE  Carry(i) \in Nat
<1>1. wheel \in Wheels
  BY DEF IInv, TypeOK
<1> QED
  BY <1>1, SpansAt DEF Carry

LEMMA TicksToBounds ==
  ASSUME IInv, NEW i \in Wheels, NEW b \in 0..(BucketNum[i] - 1)
  PROVE  /\ TicksTo(i, b) \in Int /\ TicksTo(i, b) <= FarOf(current, i, b)
         /\ ~Draining => TicksTo(i, b) >= 1
<1>1. FarOf(current, i, b) \in Nat \ {0} /\ Carry(i) \in Nat /\ (~Draining => Carry(i) = 0)
  BY FarPositive, CarryRange DEF Carry
<1> QED
  BY <1>1 DEF TicksTo

LEMMA TimerAt ==
  ASSUME IInv, NEW id \in Live
  PROVE  /\ timers[id] \in TimerType /\ timers[id].wheel \in Wheels
         /\ timers[id].bucket \in 0..(BucketNum[timers[id].wheel] - 1)
         /\ timers[id].undo \in Nat /\ timers[id].expireAt \in Nat
         /\ timers[id].undo < Span[NumWheels]
         /\ Left(id) \in Int /\ (~Draining => Left(id) >= 1)
<1>1. /\ timers[id] \in TimerType /\ timers[id].undo < Span[NumWheels]
      /\ timers[id].bucket \in 0..(BucketNum[timers[id].wheel] - 1)
  BY DEF IInv, InRange, TimerFits
<1>2. timers[id].wheel \in Wheels /\ timers[id].undo \in Nat /\ timers[id].expireAt \in Nat
  BY <1>1 DEF TimerType
<1> DEFINE x == TicksTo(timers[id].wheel, timers[id].bucket)
<1>3. x \in Int /\ (~Draining => x >= 1)
  BY <1>1, <1>2, TicksToBounds
<1>4. Left(id) = x + timers[id].undo
  BY DEF Left
<1> HIDE DEF x
<1>5. Left(id) \in Int /\ (~Draining => Left(id) >= 1)
  BY <1>2, <1>3, <1>4
<1> QED
  BY <1>1, <1>2, <1>5

\* Wherever the wheels stand, a timer that AddWheel puts n ticks away is no further.
LEMMA PlacedInTime ==
  ASSUME IInv, NEW t \in TimerType, NEW n \in Nat \ {0}, n < Span[NumWheels],
         NEW p, p = Placed(t, n)
  PROVE  TicksTo(p.wheel, p.bucket) + p.undo <= n
<1>1. DOMAIN current = Wheels /\ \A i \in Wheels : current[i] \in 0..(BucketNum[i] - 1)
  BY DEF IInv, TypeOK
<1>2. /\ p \in TimerType /\ p.wheel \in Wheels /\ p.bucket \in 0..(BucketNum[p.wheel] - 1)
  BY <1>1, PlacedFits
<1>3. FarOf(current, p.wheel, p.bucket) + p.undo = n
  BY <1>1, PlacedFar
<1>4. /\ TicksTo(p.wheel, p.bucket) \in Int
      /\ TicksTo(p.wheel, p.bucket) <= FarOf(current, p.wheel, p.bucket)
      /\ FarOf(current, p.wheel, p.bucket) \in Nat
  BY <1>2, TicksToBounds, FarPositive
<1>5. p.undo \in Nat
  BY <1>2 DEF TimerType
<1> QED
  BY <1>3, <1>4, <1>5

LEMMA WheelTimeRange ==
  ASSUME IInv, Steady
  PROVE  WheelTime \in Int /\ WheelTime <= now
<1>1. /\ now \in Nat /\ timestamp \in Nat /\ undo \in Nat /\ ticksLeft \in Nat
      /\ TickUnits \in Nat \ {0} /\ timestamp <= now
  BY TimingWheelAssumption DEF IInv, TypeOK, Steady
<1>2. ticksLeft * TickUnits \in Nat
  BY <1>1
<1> QED
  BY <1>1, <1>2 DEF WheelTime

\* A timer stays in time when the wheels' time moves on no more than it comes nearer.
LEMMA StaysInTime ==
  ASSUME IInv, Steady, NEW id \in Live, InTime(id),
         since'[id] = -1 => since[id] = -1, timers'[id].expireAt = timers[id].expireAt,
         NEW k \in Nat, WheelTime' = WheelTime + (k * TickUnits), Left(id)' = Left(id) - k
  PROVE  InTime(id)'
<1> SUFFICES ASSUME since'[id] = -1
             PROVE  WheelTime' + (Left(id)' * TickUnits) <= timers'[id].expireAt + TickUnits
  BY DEF InTime
<1>1. WheelTime + (Left(id) * TickUnits) <= timers[id].expireAt + TickUnits
  BY DEF InTime
<1>2. Left(id) \in Int /\ timers[id].expireAt \in Nat /\ WheelTime \in Int /\ TickUnits \in Nat \ {0}
  BY TimerAt, WheelTimeRange, TimingWheelAssumption
<1>3. Left(id)' \in Int
  BY <1>2
<1> DEFINE x == Left(id)  y == Left(id)'  w == WheelTime  v == WheelTime'
           e == timers[id].expireAt  u == TickUnits
<1>4. /\ x \in Int /\ y \in Int /\ w \in Int /\ e \in Nat /\ u \in Nat \ {0}
      /\ v = w + (k * u) /\ y <= x - k /\ w + (x * u) <= e + u
  BY <1>1, <1>2, <1>3
<1> HIDE DEF x, y, w, v, e, u
<1>5. v + (y * u) <= e + u
  <2>1. y * u <= (x - k) * u
    BY <1>4
  <2>2. (x - k) * u = (x * u) - (k * u)
    BY <1>4
  <2>3. k * u \in Int /\ x * u \in Int /\ y * u \in Int
    BY <1>4
  <2> QED
    BY <1>4, <2>1, <2>2, <2>3
<1> QED
  BY <1>5 DEF x, y, w, v, e, u

\* The wheels stand where they stood.
LEMMA SameView ==
  ASSUME UNCHANGED <<current, wheel, drained>>, Draining' <=> Draining
  PROVE  \A i, b : TicksTo(i, b)' = TicksTo(i, b)
<1>1. \A i : Carry(i)' = Carry(i)
  BY DEF Carry
<1> QED
  BY <1>1 DEF TicksTo

\* A step that moves neither the wheels nor their time leaves the timers it does not touch.
LEMMA OthersInTime ==
  ASSUME IInv, Steady, UNCHANGED <<current, wheel, drained>>, Draining' <=> Draining,
         WheelTime' = WheelTime, NEW id \in Live, InTime(id),
         timers'[id] = timers[id], since'[id] = since[id]
  PROVE  InTime(id)'
<1>1. Left(id)' = Left(id)
  BY SameView DEF Left
<1>2. WheelTime \in Int /\ Left(id) \in Int /\ TickUnits \in Int
  BY TimerAt, WheelTimeRange, TimingWheelAssumption
<1>3. 0 \in Nat /\ WheelTime' = WheelTime + (0 * TickUnits) /\ Left(id)' = Left(id) - 0
  BY <1>1, <1>2
<1> QED
  BY <1>3, StaysInTime

\* A timer that is put n ticks away, n counted from its moment and rounded up, is in time.
LEMMA PutInTime ==
  ASSUME IInv, Steady, UNCHANGED <<current, wheel, drained>>, Draining' <=> Draining,
         WheelTime' = WheelTime, NEW id, NEW t \in TimerType,
         NEW n \in Nat \ {0}, n < Span[NumWheels], timers'[id] = Placed(t, n),
         WheelTime + (n * TickUnits) <= t.expireAt + TickUnits
  PROVE  InTime(id)'
<1> DEFINE p == Placed(t, n)
<1>1. /\ p \in TimerType /\ p.wheel \in Wheels /\ p.bucket \in 0..(BucketNum[p.wheel] - 1)
      /\ p.expireAt = t.expireAt
  <2>1. \A i \in Wheels : current[i] \in 0..(BucketNum[i] - 1)
    BY DEF IInv, TypeOK
  <2> QED
    BY <2>1, PlacedFits
<1> DEFINE x == TicksTo(p.wheel, p.bucket) + p.undo  w == WheelTime  u == TickUnits
           e == t.expireAt
<1>2. TicksTo(p.wheel, p.bucket) \in Int /\ p.undo \in Nat
  BY <1>1, TicksToBounds DEF TimerType
<1>3. x \in Int /\ x <= n
  <2>1. TicksTo(p.wheel, p.bucket) + p.undo <= n
    BY PlacedInTime
  <2> HIDE DEF p
  <2> QED
    BY <1>2, <2>1
<1>4. Left(id)' = x /\ timers'[id].expireAt = e
  <2>1. \A i, b : TicksTo(i, b)' = TicksTo(i, b)
    BY SameView
  <2>2. timers'[id] = p
    OBVIOUS
  <2> HIDE DEF p
  <2> QED
    BY <1>1, <2>1, <2>2 DEF Left
<1>5. w \in Int /\ u \in Nat \ {0} /\ e \in Nat
  BY WheelTimeRange, TimingWheelAssumption DEF TimerType
<1>6. WheelTime' = w /\ w + (n * u) <= e + u
  OBVIOUS
<1> HIDE DEF p, x, w, u, e
<1>7. w + (x * u) <= e + u
  <2>1. x * u <= n * u /\ x * u \in Int /\ n * u \in Int
    BY <1>3, <1>5
  <2> QED
    BY <1>5, <1>6, <2>1
<1> QED
  BY <1>4, <1>6, <1>7 DEF InTime, u

LEMMA SameTime ==
  ASSUME UNCHANGED clockVars, UNCHANGED ticksLeft, phase' = "idle" <=> phase = "idle"
  PROVE  WheelTime' = WheelTime
BY DEF WheelTime, clockVars

\* What a step leaves alone of the rest of the invariant.
LEMMA SameClock ==
  ASSUME OInv, UNCHANGED clockVars
  PROVE  Steady'
BY DEF OInv, Steady, clockVars

LEMMA TicksOfBounds ==
  ASSUME NEW ms \in Nat \ {0}
  PROVE  /\ TicksOf(ms) \in Nat \ {0}
         /\ TicksOf(ms) * TickUnits < ms + TickUnits
<1> DEFINE u == TickUnits  q == ms \div u  r == ms % u
<1>1. u \in Nat \ {0}
  BY TimingWheelAssumption
<1>2. TicksOf(ms) = q + (IF r > 0 THEN 1 ELSE 0)
  BY DEF TicksOf
<1> HIDE DEF u
<1>3. q \in Nat /\ r \in 0..(u - 1) /\ ms = (u * q) + r
  BY <1>1
<1> HIDE DEF q, r
<1>4. CASE r = 0
  <2>1. TicksOf(ms) = q /\ u * q = ms /\ q * u = u * q
    BY <1>1, <1>2, <1>3, <1>4
  <2>2. q # 0
    BY <1>1, <2>1
  <2> QED
    BY <1>1, <1>3, <2>1, <2>2 DEF u
<1>5. CASE r > 0
  <2>1. TicksOf(ms) = q + 1
    BY <1>2, <1>5
  <2>2. (q + 1) * u = (u * q) + u /\ u * q \in Nat
    BY <1>1, <1>3
  <2> QED
    BY <1>1, <1>3, <1>5, <2>1, <2>2 DEF u
<1> QED
  BY <1>3, <1>4, <1>5

LEMMA AddTimerInTime ==
  ASSUME IInv, OInv, 0 \notin Expires,
         NEW ms \in Expires, NEW calls \in CallTimes, AddTimer(ms, calls)
  PROVE  OInv'
<1>0. PICK id : id = started + 1
  OBVIOUS
<1> DEFINE n == TicksOf(ms)
           t == [expireAt |-> now + ms, ticks |-> n, calls |-> calls,
                 undo |-> 0, wheel |-> 1, bucket |-> 0]
<1>1. /\ timers' = [i \in Live \union {id} |-> IF i = id THEN Placed(t, n) ELSE timers[i]]
      /\ since' = [i \in Live \union {id} |-> IF i = id THEN -1 ELSE since[i]]
      /\ UNCHANGED clockVars /\ UNCHANGED <<current, wheel, drained>>
      /\ UNCHANGED ticksLeft /\ UNCHANGED phase
  BY <1>0 DEF AddTimer, AddWheel, drainVars
<1>2. ms \in Nat \ {0} /\ n < Span[NumWheels] /\ now \in Nat /\ TickUnits \in Nat \ {0}
  BY TimingWheelAssumption DEF IInv, TypeOK
<1>3. n \in Nat \ {0} /\ n * TickUnits < ms + TickUnits
  BY <1>2, TicksOfBounds
<1>4. id \notin Live /\ started \in Nat
  BY <1>0, TimingWheelAssumption DEF IInv, TypeOK
<1>5. t \in TimerType /\ t.expireAt = now + ms
  <2>1. now + ms \in Nat /\ calls \in Int /\ 1 \in Wheels
    BY <1>2, TimingWheelAssumption, BucketNumType DEF Wheels
  <2> HIDE DEF n
  <2> QED
    BY <1>3, <2>1 DEF TimerType
<1>6. /\ Live' = Live \union {id} /\ timers'[id] = Placed(t, n)
      /\ \A j \in Live : timers'[j] = timers[j] /\ since'[j] = since[j]
  BY <1>1, <1>4 DEF Live
<1>7. Steady /\ (Draining' <=> Draining) /\ WheelTime' = WheelTime
  BY <1>1, SameTime DEF OInv, Draining
<1>8. Steady'
  BY <1>1, <1>7, SameClock
<1> HIDE DEF n, t
<1>9. InTime(id)'
  <2>1. WheelTime \in Int /\ WheelTime <= now
    BY <1>7, WheelTimeRange
  <2>2. WheelTime + (n * TickUnits) <= t.expireAt + TickUnits
    <3>1. n * TickUnits \in Nat
      BY <1>2, <1>3
    <3> QED
      BY <1>2, <1>3, <1>5, <2>1, <3>1
  <2> QED
    BY <1>1, <1>2, <1>3, <1>5, <1>6, <1>7, <2>2, PutInTime DEF n
<1>10. ASSUME NEW j \in Live PROVE InTime(j)'
  BY <1>1, <1>6, <1>7, OthersInTime DEF OInv
<1> QED
  BY <1>6, <1>8, <1>9, <1>10 DEF OInv

LEMMA DrainingStep ==
  ASSUME OInv, Draining, Draining', UNCHANGED clockVars, UNCHANGED <<current, drainVars>>
  PROVE  /\ Steady /\ WheelTime' = WheelTime /\ Steady'
         /\ UNCHANGED <<current, wheel, drained>>
         /\ WheelTime = now - undo - (ticksLeft * TickUnits)
<1>1. UNCHANGED <<current, wheel, drained, ticksLeft>>
  BY DEF drainVars
<1>2. phase # "idle" /\ phase' # "idle"
  BY DEF Draining
<1>3. Steady' /\ WheelTime' = WheelTime
  BY <1>1, <1>2, SameClock, SameTime
<1> QED
  BY <1>1, <1>2, <1>3 DEF OInv, WheelTime

LEMMA DrainUndoInTime ==
  ASSUME IInv, OInv, DrainUndo
  PROVE  OInv'
<1>0. PICK id : id = Head(Drained)
  OBVIOUS
<1> DEFINE n == timers[id].undo
<1>1. /\ phase = "drain" /\ phase' = "drain" /\ Drained # <<>> /\ n > 0
      /\ timers' = [i \in Live \union {id} |-> IF i = id THEN Placed(timers[id], n) ELSE timers[i]]
      /\ UNCHANGED clockVars /\ UNCHANGED <<current, drainVars>> /\ UNCHANGED since
  BY <1>0 DEF DrainUndo, AddWheel, drainVars
<1>2. /\ id \in Live /\ timers[id].wheel = wheel /\ timers[id].bucket = drained
  BY <1>0, <1>1, PoppedKeeps
<1>3. timers[id] \in TimerType /\ n \in Nat \ {0} /\ n < Span[NumWheels] /\ timers[id].expireAt \in Nat
  BY <1>1, <1>2, TimerAt
<1>4. Live' = Live /\ timers'[id] = Placed(timers[id], n) /\ \A j \in Live \ {id} : timers'[j] = timers[j]
  BY <1>1, <1>2 DEF Live
<1>5. Draining /\ Draining'
  BY <1>1 DEF Draining
<1>6. /\ Steady /\ WheelTime' = WheelTime /\ Steady'
      /\ UNCHANGED <<current, wheel, drained>>
  BY <1>1, <1>5, DrainingStep
<1>7. Left(id) = n
  <2>1. TicksTo(timers[id].wheel, timers[id].bucket) = 0
    BY <1>2, <1>5 DEF TicksTo
  <2> QED
    BY <1>3, <2>1 DEF Left
<1> HIDE DEF n
<1>8. InTime(id)'
  <2>1. CASE since[id] = -1
    <3>1. InTime(id)
      BY <1>2 DEF OInv
    <3>2. WheelTime + (n * TickUnits) <= timers[id].expireAt + TickUnits
      BY <1>7, <2>1, <3>1 DEF InTime
    <3> QED
      BY <1>3, <1>4, <1>5, <1>6, <3>2, PutInTime
  <2>2. CASE since[id] # -1
    BY <1>1, <2>2 DEF InTime
  <2> QED
    BY <2>1, <2>2
<1>9. ASSUME NEW j \in Live \ {id} PROVE InTime(j)'
  BY <1>1, <1>4, <1>5, <1>6, OthersInTime DEF OInv
<1> QED
  BY <1>4, <1>6, <1>8, <1>9 DEF OInv

LEMMA DrainEarlyInTime ==
  ASSUME IInv, OInv, DrainEarly
  PROVE  OInv'
<1>0. PICK id : id = Head(Drained)
  OBVIOUS
<1>1. /\ phase = "drain" /\ phase' = "drain" /\ Drained # <<>> /\ now < timers[id].expireAt
      /\ timers' = [i \in Live \union {id} |-> IF i = id THEN Placed(timers[id], 1) ELSE timers[i]]
      /\ UNCHANGED clockVars /\ UNCHANGED <<current, drainVars>> /\ UNCHANGED since
  BY <1>0 DEF DrainEarly, AddWheel, drainVars
<1>2. id \in Live
  BY <1>0, <1>1, PoppedKeeps
<1>3. timers[id] \in TimerType /\ timers[id].expireAt \in Nat
  BY <1>1, <1>2, TimerAt
<1>4. Live' = Live /\ timers'[id] = Placed(timers[id], 1) /\ \A j \in Live \ {id} : timers'[j] = timers[j]
  BY <1>1, <1>2 DEF Live
<1>5. Draining /\ Draining'
  BY <1>1 DEF Draining
<1>6. /\ Steady /\ WheelTime' = WheelTime /\ Steady'
      /\ UNCHANGED <<current, wheel, drained>>
  BY <1>1, <1>5, DrainingStep
<1>7. InTime(id)'
  <2>1. 1 \in Nat \ {0} /\ 1 < Span[NumWheels] /\ TickUnits \in Nat \ {0} /\ now \in Nat
    BY TimingWheelAssumption, SpanGrows, BucketNumType DEF IInv, TypeOK
  <2>2. WheelTime \in Int /\ WheelTime <= now
    BY <1>6, WheelTimeRange
  <2>3. WheelTime + (1 * TickUnits) <= timers[id].expireAt + TickUnits
    BY <1>1, <1>3, <2>1, <2>2
  <2> QED
    BY <1>3, <1>4, <1>5, <1>6, <2>1, <2>3, PutInTime
<1>8. ASSUME NEW j \in Live \ {id} PROVE InTime(j)'
  BY <1>1, <1>4, <1>5, <1>6, OthersInTime DEF OInv
<1> QED
  BY <1>4, <1>6, <1>7, <1>8 DEF OInv

LEMMA DrainFireInTime ==
  ASSUME IInv, OInv, DrainFire
  PROVE  OInv'
<1>0. PICK id : id = Head(Drained)
  OBVIOUS
<1>1. /\ id \in Live /\ phase' = "callback"
      /\ UNCHANGED <<clockVars, current, drainVars>>
      /\ \/ /\ Live' = Live /\ since' = [since EXCEPT ![id] = 0]
            /\ \A j \in Live \ {id} : timers'[j] = timers[j]
         \/ /\ Live' = Live \ {id} /\ since' = [i \in Live \ {id} |-> since[i]]
            /\ \A j \in Live' : timers'[j] = timers[j]
  BY <1>0, DrainFireCases
<1>2. Draining /\ Draining'
  BY <1>1 DEF Draining, DrainFire
<1>3. /\ Steady /\ WheelTime' = WheelTime /\ Steady'
      /\ UNCHANGED <<current, wheel, drained>>
  BY <1>1, <1>2, DrainingStep
<1>4. DOMAIN since = Live
  BY DEF IInv, TypeOK
<1>5. /\ Live' \subseteq Live
      /\ \A j \in Live' \ {id} : timers'[j] = timers[j] /\ since'[j] = since[j]
      /\ id \in Live' => since'[id] = 0
  BY <1>1, <1>4
<1>6. ASSUME NEW j \in Live' \ {id} PROVE InTime(j)'
  BY <1>2, <1>3, <1>5, OthersInTime DEF OInv
<1>7. ASSUME id \in Live' PROVE InTime(id)'
  BY <1>5, <1>7 DEF InTime
<1> QED
  BY <1>3, <1>6, <1>7 DEF OInv

\* Timers and lists are left alone: it is enough to see how far each timer has come.
LEMMA CloserInTime ==
  ASSUME IInv, OInv, UNCHANGED timers, \A id \in Live : since'[id] = -1 => since[id] = -1,
         NEW k \in Nat, WheelTime' = WheelTime + (k * TickUnits),
         \A id \in Live : Left(id)' = Left(id) - k
  PROVE  \A id \in Live' : InTime(id)'
<1>1. Live' = Live
  BY DEF Live
<1>2. ASSUME NEW id \in Live PROVE InTime(id)'
  BY StaysInTime DEF OInv
<1> QED
  BY <1>1, <1>2

LEMMA AdvanceInTime ==
  ASSUME IInv, OInv, NEW d \in Steps, Advance(d), ClockKept
  PROVE  OInv'
<1>1. /\ phase = "idle" /\ phase' = "idle" /\ now' >= now /\ now' \in Int
      /\ UNCHANGED <<timestamp, undo, timers, current, wheel, drained, since>>
  BY DEF Advance, ClockKept, drainVars
<1>2. now \in Int /\ timestamp \in Int
  BY DEF IInv, TypeOK
<1>3. Steady'
  BY <1>1, <1>2 DEF OInv, Steady
<1>4. (Draining' <=> Draining) /\ WheelTime' = WheelTime
  BY <1>1 DEF Draining, WheelTime
<1>5. ASSUME NEW j \in Live PROVE InTime(j)'
  BY <1>1, <1>4, OthersInTime DEF OInv
<1> QED
  BY <1>1, <1>3, <1>5 DEF OInv, Live

LEMMA RemoveTimerInTime ==
  ASSUME IInv, OInv, NEW id, RemoveTimer(id)
  PROVE  OInv'
<1>1. /\ timers' = [i \in Live \ {id} |-> timers[i]] /\ since' = [i \in Live \ {id} |-> since[i]]
      /\ UNCHANGED clockVars /\ UNCHANGED <<current, wheel, drained>>
      /\ UNCHANGED ticksLeft /\ UNCHANGED phase
  BY DEF RemoveTimer, Forget, drainVars
<1>2. Steady /\ (Draining' <=> Draining) /\ WheelTime' = WheelTime
  BY <1>1, SameTime DEF OInv, Draining
<1>3. Steady'
  BY <1>1, <1>2, SameClock
<1>4. Live' = Live \ {id}
  BY <1>1 DEF Live
<1>5. ASSUME NEW j \in Live \ {id} PROVE InTime(j)'
  BY <1>1, <1>2, <1>5, OthersInTime DEF OInv
<1> QED
  BY <1>3, <1>4, <1>5 DEF OInv

\* The ticks that OnExpired counts and what is left over are the time since the last one.
LEMMA OnReadInTime ==
  ASSUME IInv, OInv, OnRead, GapsHeld
  PROVE  OInv'
<1>1. /\ phase = "idle" /\ phase' = "tick"
      /\ ticksLeft' = (IF Uncounted < 0 THEN 0 ELSE Quotient(Uncounted, TickUnits))
      /\ undo' = Remainder(Uncounted, TickUnits)
      /\ UNCHANGED <<now, timestamp, timers, current, wheel, drained, since>>
  BY DEF OnRead
<1> DEFINE u == TickUnits  x == undo + (now - timestamp)
<1>2. /\ u \in Nat \ {0} /\ IntLimit \in Nat /\ undo \in 0..(u - 1) /\ now \in Nat
      /\ timestamp \in Nat /\ timestamp <= now /\ now - timestamp <= IntLimit - u
  BY TimingWheelAssumption DEF IInv, TypeOK, OInv, Steady, GapsHeld
<1>3. x \in 0..(IntLimit - 1)
  BY <1>2
<1>4. Uncounted = x
  <2>1. Abs(now - timestamp) = now - timestamp
    BY <1>2 DEF Abs
  <2>2. Uncounted = ((x + IntLimit) % (2 * IntLimit)) - IntLimit
    BY <2>1 DEF Uncounted, ToInt
  <2> HIDE DEF x
  <2>3. (x + IntLimit) % (2 * IntLimit) = x + IntLimit
    BY <1>2, <1>3
  <2> QED
    BY <1>2, <1>3, <2>2, <2>3
<1> HIDE DEF u, x
<1>5. /\ ticksLeft' = x \div u /\ undo' = x % u
  <2>1. ~(x < 0)
    BY <1>3
  <2> QED
    BY <1>1, <1>4, <2>1 DEF Quotient, Remainder, u
<1>6. /\ x = (u * (x \div u)) + (x % u) /\ x % u \in 0..(u - 1) /\ x \div u \in Nat
  BY <1>2, <1>3
<1>7. WheelTime' = WheelTime
  <2>1. WheelTime = timestamp - undo
    BY <1>1 DEF WheelTime
  <2>2. WheelTime' = now - (x % u) - ((x \div u) * u)
    BY <1>1, <1>5 DEF WheelTime, u
  <2> DEFINE q == x \div u  r == x % u
  <2>3. q \in Nat /\ r \in Nat /\ x = (u * q) + r
    BY <1>6
  <2>4. WheelTime' = now - r - (q * u)
    BY <2>2
  <2> HIDE DEF q, r
  <2>5. q * u = u * q /\ u * q \in Nat
    BY <1>2, <2>3
  <2>6. x = undo + (now - timestamp)
    BY DEF x
  <2>7. WheelTime' = timestamp - undo + (timestamp - timestamp)
    BY <1>2, <2>3, <2>4, <2>5, <2>6
  <2> QED
    BY <1>2, <2>1, <2>7
<1>8. ~Draining /\ ~Draining'
  BY <1>1 DEF Draining
<1>9. Steady'
  BY <1>1, <1>2, <1>5, <1>6, <1>8 DEF Steady
<1>10. ASSUME NEW j \in Live PROVE InTime(j)'
  BY <1>1, <1>7, <1>8, OthersInTime DEF OInv
<1> QED
  BY <1>1, <1>9, <1>10 DEF OInv, Live

\* A tick begins: every bucket is one tick nearer, that of wheel 1 which is drained and, if
\* it wraps, those of the wheels that move in the same tick.
LEMMA BeginTickNearer ==
  ASSUME IInv, BeginTick
  PROVE  \A id \in Live : Left(id)' = Left(id) - 1
<1>1. /\ phase = "tick" /\ phase' = "drain"
      /\ wheel' = 1 /\ drained' = current[1]
      /\ current' = [current EXCEPT ![1] = (current[1] + 1) % BucketNum[1]]
      /\ UNCHANGED timers
  BY DEF BeginTick, EnterWheel
<1>2. ~Draining /\ Draining' /\ 1 \in Wheels /\ Positions(current) /\ Span[0] = 1
  BY <1>1, PositionsNow, SpanGrows, BucketNumType DEF Draining, Wheels
<1>3. ASSUME NEW i \in Wheels, NEW b \in 0..(BucketNum[i] - 1)
      PROVE  TicksTo(i, b)' = TicksTo(i, b) - 1
  <2>1. TicksTo(i, b) = FarOf(current, i, b)
    <3>1. TicksTo(i, b) = FarOf(current, i, b) - 0
      BY <1>2 DEF TicksTo, Carry
    <3> QED
      BY <3>1, FarPositive
  <2>2. TicksTo(i, b)' =
          IF i = 1 /\ b = current[1] THEN 0
          ELSE FarOf(current', i, b) - (IF i > 1 /\ current'[1] = 0 THEN Span[1] ELSE 0)
    BY <1>1, <1>2 DEF TicksTo, Carry
  <2>3. Nearer(current, current', 1, i, b)
    <3>1. Positions(current) /\ Moves(current, current', 1) /\ 1 \in Wheels
      BY <1>1, <1>2 DEF Moves
    <3> QED
      BY <3>1, Enters
  <2>4. i = 1 \/ i > 1
    BY DEF Wheels
  <2>5. CASE i = 1 /\ b = current[1]
    BY <1>2, <2>1, <2>2, <2>3, <2>5 DEF Nearer
  <2>6. CASE i = 1 /\ b # current[1]
    BY <1>2, <2>1, <2>2, <2>3, <2>6 DEF Nearer
  <2>7. CASE i > 1
    <3>1. i # 1
      BY <2>7
    <3> QED
      BY <1>2, <2>1, <2>2, <2>3, <2>7, <3>1 DEF Nearer
  <2> QED
    BY <2>4, <2>5, <2>6, <2>7
<1>4. ASSUME NEW id \in Live PROVE Left(id)' = Left(id) - 1
  <2>1. PICK i, b : i = timers[id].wheel /\ b = timers[id].bucket
    OBVIOUS
  <2>2. /\ i \in Wheels /\ b \in 0..(BucketNum[i] - 1) /\ timers[id].undo \in Nat
    BY <2>1, TimerAt
  <2>3. TicksTo(i, b)' = TicksTo(i, b) - 1 /\ TicksTo(i, b) \in Int
    BY <1>3, <2>2, TicksToBounds
  <2>4. Left(id)' = TicksTo(i, b)' + timers[id].undo /\ Left(id) = TicksTo(i, b) + timers[id].undo
    BY <1>1, <2>1 DEF Left, TicksTo, Carry
  <2> QED
    BY <2>2, <2>3, <2>4
<1> QED
  BY <1>4

LEMMA BeginTickInTime ==
  ASSUME IInv, OInv, BeginTick
  PROVE  OInv'
<1>1. /\ phase = "tick" /\ phase' = "drain" /\ ticksLeft' = ticksLeft - 1
      /\ since' = [id \in Live |-> IF since[id] \in 0..MaxSince THEN since[id] + 1 ELSE since[id]]
      /\ UNCHANGED clockVars /\ UNCHANGED timers
  BY DEF BeginTick, EnterWheel
<1>2. \A id \in Live : Left(id)' = Left(id) - 1
  BY BeginTickNearer
<1>3. WheelTime' = WheelTime + (1 * TickUnits)
  <2>1. /\ now \in Int /\ undo \in Int /\ ticksLeft \in Nat /\ TickUnits \in Nat
    BY TimingWheelAssumption DEF IInv, TypeOK
  <2>2. /\ WheelTime = now - undo - (ticksLeft * TickUnits)
        /\ WheelTime' = now - undo - ((ticksLeft - 1) * TickUnits)
    BY <1>1 DEF WheelTime, clockVars
  <2>3. (ticksLeft - 1) * TickUnits = (ticksLeft * TickUnits) - TickUnits /\ ticksLeft * TickUnits \in Int
    BY <2>1
  <2> QED
    BY <2>1, <2>2, <2>3
<1>4. \A id \in Live : since'[id] = -1 => since[id] = -1
  <2>1. since \in [Live -> Nat \union {-1}]
    BY DEF IInv, TypeOK
  <2> QED
    BY <1>1, <2>1
<1>5. \A id \in Live' : InTime(id)'
  BY <1>1, <1>2, <1>3, <1>4, CloserInTime
<1>6. Steady'
  BY <1>1 DEF OInv, Steady, clockVars
<1> QED
  BY <1>5, <1>6 DEF OInv

LEMMA EndReadInTime ==
  ASSUME IInv, OInv, EndRead
  PROVE  OInv'
<1>1. /\ phase = "tick" /\ phase' = "idle" /\ ticksLeft = 0 /\ timestamp' = now
      /\ UNCHANGED <<now, undo, timers, current, wheel, drained, since>>
  BY DEF EndRead, drainVars
<1>2. now \in Int /\ undo \in Int /\ TickUnits \in Int
  BY TimingWheelAssumption DEF IInv, TypeOK
<1>3. WheelTime' = WheelTime
  <2>1. WheelTime = now - undo - (0 * TickUnits) /\ WheelTime' = now - undo
    BY <1>1 DEF WheelTime
  <2> QED
    BY <1>2, <2>1
<1>4. ~Draining /\ ~Draining'
  BY <1>1 DEF Draining
<1>5. Steady'
  BY <1>1, <1>2, <1>4 DEF OInv, Steady
<1>6. ASSUME NEW j \in Live PROVE InTime(j)'
  BY <1>1, <1>3, <1>4, OthersInTime DEF OInv
<1> QED
  BY <1>1, <1>5, <1>6 DEF OInv, Live

LEMMA CallbackReturnInTime ==
  ASSUME IInv, OInv, CallbackReturn
  PROVE  OInv'
<1>1. /\ phase = "callback" /\ phase' = "drain" /\ UNCHANGED <<timers, since>>
      /\ UNCHANGED clockVars /\ UNCHANGED <<current, drainVars>>
  BY DEF CallbackReturn
<1>2. Draining /\ Draining'
  BY <1>1 DEF Draining
<1>3. /\ Steady /\ WheelTime' = WheelTime /\ Steady'
      /\ UNCHANGED <<current, wheel, drained>>
  BY <1>1, <1>2, DrainingStep
<1>4. ASSUME NEW j \in Live PROVE InTime(j)'
  BY <1>1, <1>2, <1>3, OthersInTime DEF OInv
<1> QED
  BY <1>1, <1>3, <1>4 DEF OInv, Live

\* No timer lies in the bucket that has been drained.
LEMMA DrainedEmpty ==
  ASSUME IInv, Drained = <<>>, NEW id \in Live
  PROVE  ~(timers[id].wheel = wheel /\ timers[id].bucket = drained)
<1>1. wheel \in Wheels /\ drained \in 0..(BucketNum[wheel] - 1) /\ id \in Ids
  BY TimingWheelAssumption DEF IInv, TypeOK, Cursor, Ids
<1>2. ~In(bucket[wheel][drained], id)
  BY DEF Drained, In
<1> QED
  BY <1>1, <1>2, KeptNow, FitsList DEF Kept

LEMMA NextWheelSame ==
  ASSUME IInv, Turning, LeaveWheel, current[wheel] = 0, wheel < NumWheels
  PROVE  \A id \in Live : Left(id)' = Left(id)
<1>0. PICK w : w = wheel + 1
  OBVIOUS
<1>1. /\ phase = "drain" /\ phase' = "drain" /\ Drained = <<>>
      /\ wheel' = w /\ drained' = current[w]
      /\ current' = [current EXCEPT ![w] = (current[w] + 1) % BucketNum[w]]
      /\ UNCHANGED timers
  BY <1>0 DEF LeaveWheel, EnterWheel
<1>2. /\ Draining /\ Draining' /\ wheel \in Wheels /\ w \in Wheels /\ Positions(current)
      /\ w \in Nat /\ wheel \in Nat /\ wheel = w - 1
  <2>1. wheel \in Wheels
    BY DEF IInv, TypeOK
  <2> QED
    BY <1>0, <1>1, <2>1, PositionsNow, BucketNumType DEF Draining, Wheels
<1>3. \A j \in 1..(w - 1) : current[j] = 0
  <2>1. \A j \in 1..(wheel - 1) : current[j] = 0
    BY <1>2 DEF Turning
  <2> QED
    BY <1>2, <2>1
<1>5. ASSUME NEW i \in Wheels, NEW b \in 0..(BucketNum[i] - 1), ~(i = wheel /\ b = drained)
      PROVE  TicksTo(i, b)' = TicksTo(i, b)
  <2>1. TicksTo(i, b) = FarOf(current, i, b) - (IF i > wheel THEN Span[wheel] ELSE 0)
    BY <1>2, <1>5 DEF TicksTo, Carry
  <2>2. TicksTo(i, b)' =
          IF i = w /\ b = current[w] THEN 0
          ELSE FarOf(current', i, b) - (IF i > w /\ current'[w] = 0 THEN Span[w] ELSE 0)
    BY <1>1, <1>2 DEF TicksTo, Carry
  <2>3. Nearer(current, current', w, i, b)
    <3>1. Positions(current) /\ Moves(current, current', w) /\ w \in Wheels
      BY <1>1, <1>2, <1>3 DEF Moves
    <3> QED
      BY <3>1, Enters
  <2>4. i \in Nat /\ Span[w - 1] = Span[wheel] /\ Span[w - 1] \in Int
    BY <1>2, SpansAt
  <2>5. CASE i < w
    <3>1. ~(i > wheel) /\ i # w /\ ~(i > w)
      BY <1>2, <2>4, <2>5
    <3> QED
      BY <2>1, <2>2, <2>3, <2>5, <3>1 DEF Nearer
  <2>6. CASE i = w
    <3>1. i > wheel /\ ~(i > w)
      BY <1>2, <2>4, <2>6
    <3> QED
      BY <2>1, <2>2, <2>3, <2>4, <2>6, <3>1 DEF Nearer
  <2>7. CASE i > w
    <3>1. i > wheel /\ i # w
      BY <1>2, <2>4, <2>7
    <3> QED
      BY <2>1, <2>2, <2>3, <2>4, <2>7, <3>1 DEF Nearer
  <2> QED
    BY <1>2, <2>4, <2>5, <2>6, <2>7
<1>6. ASSUME NEW id \in Live PROVE Left(id)' = Left(id)
  <2>1. PICK i, b : i = timers[id].wheel /\ b = timers[id].bucket
    OBVIOUS
  <2>2. i \in Wheels /\ b \in 0..(BucketNum[i] - 1) /\ ~(i = wheel /\ b = drained)
    BY <1>1, <2>1, TimerAt, DrainedEmpty
  <2>3. TicksTo(i, b)' = TicksTo(i, b)
    BY <1>5, <2>2
  <2>4. Left(id)' = TicksTo(i, b)' + timers[id].undo /\ Left(id) = TicksTo(i, b) + timers[id].undo
    BY <1>1, <2>1 DEF Left, TicksTo, Carry
  <2> QED
    BY <2>3, <2>4
<1> QED
  BY <1>6

LEMMA LastWheelSame ==
  ASSUME IInv, LeaveWheel, ~(current[wheel] = 0 /\ wheel < NumWheels)
  PROVE  \A id \in Live : Left(id)' = Left(id)
<1>1. /\ phase = "drain" /\ phase' = "tick" /\ Drained = <<>> /\ UNCHANGED current
      /\ UNCHANGED timers
  BY DEF LeaveWheel
<1>2. Draining /\ ~Draining' /\ wheel \in Wheels
  BY <1>1 DEF Draining, IInv, TypeOK
<1>4. ASSUME NEW i \in Wheels, NEW b \in 0..(BucketNum[i] - 1), ~(i = wheel /\ b = drained)
      PROVE  TicksTo(i, b)' = TicksTo(i, b)
  <2>1. ~(i > wheel /\ current[wheel] = 0)
    BY <1>2, BucketNumType DEF Wheels
  <2>2. TicksTo(i, b) = FarOf(current, i, b) - 0 /\ TicksTo(i, b)' = FarOf(current, i, b) - 0
    BY <1>1, <1>2, <1>4, <2>1 DEF TicksTo, Carry
  <2> QED
    BY <2>2
<1>5. ASSUME NEW id \in Live PROVE Left(id)' = Left(id)
  <2>1. PICK i, b : i = timers[id].wheel /\ b = timers[id].bucket
    OBVIOUS
  <2>2. i \in Wheels /\ b \in 0..(BucketNum[i] - 1) /\ ~(i = wheel /\ b = drained)
    BY <1>1, <2>1, TimerAt, DrainedEmpty
  <2>3. TicksTo(i, b)' = TicksTo(i, b)
    BY <1>4, <2>2
  <2>4. Left(id)' = TicksTo(i, b)' + timers[id].undo /\ Left(id) = TicksTo(i, b) + timers[id].undo
    BY <1>1, <2>1 DEF Left, TicksTo, Carry
  <2> QED
    BY <2>3, <2>4
<1> QED
  BY <1>5

LEMMA LeaveWheelInTime ==
  ASSUME IInv, OInv, Turning, LeaveWheel
  PROVE  OInv'
<1>1. /\ phase = "drain" /\ phase' # "idle" /\ UNCHANGED clockVars
      /\ UNCHANGED <<timers, ticksLeft, since>>
  BY DEF LeaveWheel, EnterWheel
<1>2. WheelTime' = WheelTime + (0 * TickUnits)
  <2>1. WheelTime' = WheelTime
    BY <1>1, SameTime
  <2> QED
    BY <2>1, WheelTimeRange, TimingWheelAssumption DEF OInv
<1>3. \A id \in Live : Left(id)' = Left(id) - 0
  BY NextWheelSame, LastWheelSame, TimerAt
<1>4. \A id \in Live' : InTime(id)'
  BY <1>1, <1>2, <1>3, CloserInTime
<1>5. Steady'
  BY <1>1, SameClock
<1> QED
  BY <1>4, <1>5 DEF OInv

\* The wheels turn in step.
LEMMA TurningStep ==
  ASSUME IInv, Turning, [Next]_vars
  PROVE  Turning'
<1>1. ASSUME UNCHANGED <<phase, current, wheel, drained>> PROVE Turning'
  BY <1>1 DEF Turning, Draining
<1>2. ASSUME Draining, UNCHANGED <<current, wheel, drained>> PROVE Turning'
  BY <1>2 DEF Turning
<1>3. ASSUME ~Draining' PROVE Turning'
  BY <1>3 DEF Turning
<1>4. ASSUME NEW ms \in Expires, NEW calls \in CallTimes, AddTimer(ms, calls) PROVE Turning'
  BY <1>1, <1>4 DEF AddTimer, drainVars
<1>5. ASSUME NEW id, RemoveTimer(id) PROVE Turning'
  BY <1>1, <1>5 DEF RemoveTimer, drainVars
<1>6. ASSUME NEW d \in Steps, Advance(d) PROVE Turning'
  BY <1>1, <1>6 DEF Advance, drainVars
<1>7. CASE OnRead \/ EndRead
  BY <1>3, <1>7 DEF OnRead, EndRead, Draining
<1>8. CASE DrainUndo \/ DrainEarly \/ DrainFire \/ CallbackReturn
  BY <1>2, <1>8 DEF DrainUndo, DrainEarly, DrainFire, CallbackReturn, Draining, drainVars
<1>9. CASE BeginTick
  <2>1. /\ wheel' = 1 /\ drained' = current[1]
        /\ current' = [current EXCEPT ![1] = (current[1] + 1) % BucketNum[1]]
    BY <1>9 DEF BeginTick, EnterWheel
  <2>2. 1 \in Wheels /\ DOMAIN current = Wheels
    BY BucketNumType DEF Wheels, IInv, TypeOK
  <2> QED
    BY <2>1, <2>2 DEF Turning
<1>10. CASE LeaveWheel
  <2>1. CASE current[wheel] = 0 /\ wheel < NumWheels
    <3>1. PICK w : w = wheel + 1
      OBVIOUS
    <3>2. /\ phase = "drain" /\ wheel' = w /\ drained' = current[w]
          /\ current' = [current EXCEPT ![w] = (current[w] + 1) % BucketNum[w]]
      BY <1>10, <2>1, <3>1 DEF LeaveWheel, EnterWheel
    <3>3. wheel \in Nat /\ w \in Wheels /\ w - 1 = wheel /\ DOMAIN current = Wheels
      BY <2>1, <3>1, BucketNumType DEF Wheels, IInv, TypeOK
    <3>4. \A j \in 1..(w - 1) : current[j] = 0
      BY <2>1, <3>2, <3>3 DEF Turning, Draining
    <3>5. \A j \in 1..(w - 1) : j \in Wheels /\ j # w
      BY <3>3, BucketNumType DEF Wheels
    <3> QED
      BY <3>2, <3>3, <3>4, <3>5 DEF Turning
  <2>2. CASE ~(current[wheel] = 0 /\ wheel < NumWheels)
    BY <1>3, <1>10, <2>2 DEF LeaveWheel, Draining
  <2> QED
    BY <2>1, <2>2
<1>11. CASE UNCHANGED vars
  BY <1>1, <1>11 DEF vars, drainVars
<1> QED
  BY <1>4, <1>5, <1>6, <1>7, <1>8, <1>9, <1>10, <1>11 DEF Next, Calls, OnExpired

LEMMA Turns == SafeSpec => []Turning
<1>1. Init => Turning
  BY DEF Init, Turning, Draining
<1>2. IInv /\ Turning /\ [Next]_vars => Turning'
  BY TurningStep
<1> QED
  BY <1>1, <1>2, Inductive, PTL DEF SafeSpec

LEMMA StepInTime ==
  ASSUME IInv, OInv, Turning, 0 \notin Expires, GapsHeld, [Next]_vars, [ClockKept]_vars
  PROVE  OInv'
<1>1. CASE UNCHANGED vars
  <2>1. /\ UNCHANGED <<timers, since, phase, current, wheel, drained, ticksLeft>>
        /\ UNCHANGED clockVars
    BY <1>1 DEF vars, drainVars
  <2>2. (Draining' <=> Draining) /\ WheelTime' = WheelTime
    BY <2>1, SameTime DEF Draining
  <2>3. Steady' /\ Steady
    BY <2>1, <2>2, SameClock DEF OInv
  <2>4. ASSUME NEW j \in Live PROVE InTime(j)'
    BY <2>1, <2>2, <2>3, OthersInTime DEF OInv
  <2> QED
    BY <2>1, <2>3, <2>4 DEF OInv, Live
<1>2. ASSUME NEW ms \in Expires, NEW calls \in CallTimes, AddTimer(ms, calls) PROVE OInv'
  BY <1>2, AddTimerInTime
<1>3. ASSUME NEW id, RemoveTimer(id) PROVE OInv'
  BY <1>3, RemoveTimerInTime
<1>4. ASSUME NEW d \in Steps, Advance(d) PROVE OInv'
  <2>1. now \in Int
    BY DEF IInv, TypeOK
  <2>2. ClockKept
    BY <2>1 DEF ClockKept, vars, clockVars
  <2> QED
    BY <1>4, <2>2, AdvanceInTime
<1>5. CASE OnRead
  BY <1>5, OnReadInTime
<1>6. CASE BeginTick
  BY <1>6, BeginTickInTime
<1>7. CASE EndRead
  BY <1>7, EndReadInTime
<1>8. CASE DrainUndo
  BY <1>8, DrainUndoInTime
<1>9. CASE DrainEarly
  BY <1>9, DrainEarlyInTime
<1>10. CASE DrainFire
  BY <1>10, DrainFireInTime
<1>11. CASE CallbackReturn
  BY <1>11, CallbackReturnInTime
<1>12. CASE LeaveWheel
  BY <1>12, LeaveWheelInTime
<1> QED
  BY <1>1, <1>2, <1>3, <1>4, <1>5, <1>6, <1>7, <1>8, <1>9, <1>10, <1>11, <1>12
     DEF Next, Calls, OnExpired

LEMMA InitInTime ==
  ASSUME Init
  PROVE  OInv
BY DEF Init, OInv, Steady, Live

\* Between two batches of events every timer that is still due has at least a tick to go.
LEMMA InTimeNotOverdue ==
  ASSUME IInv, OInv
  PROVE  NoneOverdue
<1>1. TypeOK
  BY DEF IInv
<1>2. ASSUME phase = "idle", now = timestamp, NEW id \in Live, since[id] = -1
      PROVE  now < timers[id].expireAt + TickUnits
  <2> DEFINE x == Left(id)  u == TickUnits  e == timers[id].expireAt
  <2>1. x \in Int /\ x >= 1 /\ e \in Nat
    BY <1>2, TimerAt DEF Draining
  <2>2. u \in Nat \ {0} /\ now \in Nat /\ undo \in 0..(u - 1)
    BY TimingWheelAssumption DEF IInv, TypeOK, OInv, Steady
  <2>3. now - undo + (x * u) <= e + u
    BY <1>2 DEF OInv, InTime, WheelTime
  <2> HIDE DEF x, u, e
  <2>4. x * u >= u /\ x * u \in Int
    BY <2>1, <2>2
  <2>5. now < e + u
    BY <2>1, <2>2, <2>3, <2>4
  <2> QED
    BY <2>5 DEF u, e
<1> QED
  BY <1>1, <1>2 DEF NoneOverdue

\* However a timer travels from wheel to wheel and whenever it was started in a turn of them,
\* OnExpired leaves none behind that is a whole tick past its expire timestamp and was not
\* called back, for wheels of any sizes, timers of any times but 0, gaps between two OnExpired
\* of any length that undo_nsec_ can hold, and a clock that is not set back.
THEOREM NoneOverdueCorrect ==
  ASSUME 0 \notin Expires
  PROVE  Spec /\ [][ClockKept]_vars /\ []GapsHeld => []NoneOverdue
<1>1. Init => OInv
  BY InitInTime
<1>2. IInv /\ Turning /\ OInv /\ GapsHeld /\ [Next]_vars /\ [ClockKept]_vars => OInv'
  BY StepInTime
<1>3. IInv /\ OInv => NoneOverdue
  BY InTimeNotOverdue
<1> QED
  BY <1>1, <1>2, <1>3, Inductive, Turns, PTL DEF Spec, SafeSpec

-----------------------------------------------------------------------------
(* Repeated timers keep their distance. *)

\* Since the last callback and until the next one it is ticks ticks, or at most so many for
\* those that the first wheel cannot hold; only a first callback has to wait for the clock.
OnTime(id) ==
  since[id] # -1 =>
    /\ now >= timers[id].expireAt
    /\ timers[id].ticks < BucketNum[1] =>
         timers[id].undo = 0 /\ since[id] + Left(id) = timers[id].ticks
    /\ since[id] + Left(id) <= timers[id].ticks

RInv == \A id \in Live : timers[id].ticks > 0 /\ OnTime(id)

\* A timer that the first wheel can hold is put exactly n ticks away, and never into the
\* bucket that is drained.
LEMMA PlacedExactly ==
  ASSUME IInv, Turning, NEW t \in TimerType, NEW n \in Nat \ {0}, n < Span[NumWheels],
         n < BucketNum[1], NEW p, p = Placed(t, n)
  PROVE  p.undo = 0 /\ TicksTo(p.wheel, p.bucket) = n
<1>1. DOMAIN current = Wheels /\ \A i \in Wheels : current[i] \in 0..(BucketNum[i] - 1)
  BY DEF IInv, TypeOK
<1>2. /\ 1 \in Wheels /\ wheel \in Wheels /\ BucketNum[1] \in Nat /\ Span[0] = 1
      /\ Span[1] = BucketNum[1]
  <2>1. 1 \in Wheels /\ wheel \in Wheels
    BY BucketNumType DEF Wheels, IInv, TypeOK
  <2>2. Span[1] = Span[1 - 1] * BucketNum[1] /\ Span[0] = 1 /\ BucketNum[1] \in Nat
    BY <2>1, SpansAt, SpanGrows
  <2> QED
    BY <2>1, <2>2
<1>3. WheelFor(n) = 1
  <2> DEFINE i == WheelFor(n)
  <2>1. i \in Wheels /\ \A j \in 1..(i - 1) : n >= Span[j]
    BY WheelForFits
  <2> HIDE DEF i
  <2>2. ASSUME i # 1 PROVE FALSE
    <3>1. 1 \in 1..(i - 1)
      BY <2>1, <2>2, BucketNumType DEF Wheels
    <3>2. n >= Span[1]
      BY <2>1, <3>1
    <3> QED
      BY <1>2, <3>2
  <2> QED
    BY <2>2 DEF i
<1>4. /\ p \in TimerType /\ p.bucket \in 0..(BucketNum[p.wheel] - 1)
      /\ FarOf(current, p.wheel, p.bucket) + p.undo = n
  BY <1>1, PlacedFits, PlacedFar
<1>5. TurnedOf(current, 1) = 0 /\ Turned(1) = TurnedOf(current, 1)
  BY PositionsNow, TurnedSteps DEF Turned, TurnedOf
<1>6. p.wheel = 1 /\ p.undo = 0
  <2>1. p = [t EXCEPT !.wheel = 1, !.bucket = BucketFor(1, n),
                      !.undo = Turned(1) + (n % Span[1 - 1])]
    BY <1>3 DEF Placed
  <2>2. n % Span[1 - 1] = 0
    BY <1>2
  <2> QED
    BY <1>5, <2>1, <2>2 DEF TimerType
<1> DEFINE b == p.bucket
<1>7. b \in 0..(BucketNum[1] - 1) /\ FarOf(current, 1, b) = n
  <2>1. FarOf(current, 1, b) \in Nat
    BY <1>2, <1>4, <1>6, FarPositive
  <2> QED
    BY <1>4, <1>6, <2>1
<1>8. GapOf(current, 1, b) = n - 1
  <2>1. FarOf(current, 1, b) = ((GapOf(current, 1, b) + 1) * Span[1 - 1]) - TurnedOf(current, 1)
    BY DEF FarOf
  <2>2. GapOf(current, 1, b) \in Int
    BY <1>2, <1>7, PositionsNow, GapRange
  <2> QED
    BY <1>2, <1>5, <1>7, <2>1, <2>2
<1> HIDE DEF b
<1>9. ASSUME Draining, wheel = 1, b = drained PROVE FALSE
  <2> DEFINE m == BucketNum[1]
  <2>1. current[1] = (b + 1) % m /\ m \in Nat \ {0} /\ b \in 0..(m - 1)
    BY <1>2, <1>7, <1>9, SpansAt DEF Turning
  <2>2. GapOf(current, 1, b) = IF b >= current[1] THEN b - current[1] ELSE b - current[1] + m
    BY DEF GapOf
  <2>3. n < m
    OBVIOUS
  <2> HIDE DEF m
  <2>4. current[1] = IF b = m - 1 THEN 0 ELSE b + 1
    BY <2>1
  <2>5. GapOf(current, 1, b) = m - 1
    BY <2>1, <2>2, <2>4
  <2> QED
    BY <1>8, <2>1, <2>3, <2>5
<1>10. TicksTo(1, b) = n
  <2>1. ~(1 > wheel)
    BY <1>2 DEF Wheels
  <2>2. TicksTo(1, b) = FarOf(current, 1, b) - 0
    BY <1>9, <2>1 DEF TicksTo, Carry
  <2> QED
    BY <1>7, <2>2
<1> QED
  BY <1>6, <1>10 DEF b

\* What is left of a timer that is put n ticks away.
LEMMA PutLeft ==
  ASSUME IInv, UNCHANGED <<current, wheel, drained>>, Draining' <=> Draining,
         NEW id, NEW t \in TimerType, NEW n \in Nat \ {0}, n < Span[NumWheels],
         timers'[id] = Placed(t, n)
  PROVE  /\ Left(id)' \in Int /\ Left(id)' <= n
         /\ Turning /\ n < BucketNum[1] => timers'[id].undo = 0 /\ Left(id)' = n
         /\ timers'[id].expireAt = t.expireAt /\ timers'[id].ticks = t.ticks
<1>1. PICK p : p = Placed(t, n)
  OBVIOUS
<1>2. /\ p \in TimerType /\ p.wheel \in Wheels /\ p.bucket \in 0..(BucketNum[p.wheel] - 1)
      /\ p.expireAt = t.expireAt /\ p.ticks = t.ticks
  <2>1. \A i \in Wheels : current[i] \in 0..(BucketNum[i] - 1)
    BY DEF IInv, TypeOK
  <2> QED
    BY <1>1, <2>1, PlacedFits
<1>3. TicksTo(p.wheel, p.bucket) \in Int /\ p.undo \in Nat
  BY <1>2, TicksToBounds DEF TimerType
<1>4. TicksTo(p.wheel, p.bucket) + p.undo <= n
  BY <1>1, PlacedInTime
<1>5. Left(id)' = TicksTo(p.wheel, p.bucket) + p.undo
  <2>1. \A i, b : TicksTo(i, b)' = TicksTo(i, b)
    BY SameView
  <2> QED
    BY <1>1, <2>1 DEF Left
<1>6. ASSUME Turning, n < BucketNum[1] PROVE p.undo = 0 /\ TicksTo(p.wheel, p.bucket) = n
  BY <1>1, <1>6, PlacedExactly
<1> QED
  BY <1>1, <1>2, <1>3, <1>4, <1>5, <1>6

\* A timer that is left alone comes nearer by as much as is counted.
LEMMA StaysOnTime ==
  ASSUME IInv, NEW id \in Live, OnTime(id), timers'[id] = timers[id],
         now' \in Int, now' >= now, NEW k \in Nat, Left(id)' = Left(id) - k,
         since'[id] # -1 => since[id] # -1 /\ since'[id] = since[id] + k
  PROVE  OnTime(id)'
<1> SUFFICES ASSUME since'[id] # -1 PROVE OnTime(id)'
  BY DEF OnTime
<1>1. /\ Left(id) \in Int /\ since[id] \in Nat /\ timers[id].expireAt \in Nat /\ now \in Int
      /\ timers[id].ticks \in Nat
  <2>1. since[id] \in Nat \union {-1} /\ since[id] # -1 /\ now \in Int
    BY DEF IInv, TypeOK
  <2>2. timers[id] \in TimerType /\ Left(id) \in Int /\ timers[id].expireAt \in Nat
    BY TimerAt
  <2> QED
    BY <2>1, <2>2 DEF TimerType
<1>2. /\ now >= timers[id].expireAt
      /\ timers[id].ticks < BucketNum[1] =>
           timers[id].undo = 0 /\ since[id] + Left(id) = timers[id].ticks
      /\ since[id] + Left(id) <= timers[id].ticks
  BY DEF OnTime
<1>3. since'[id] + Left(id)' = since[id] + Left(id)
  BY <1>1
<1>4. now' >= timers[id].expireAt
  BY <1>1, <1>2
<1> QED
  BY <1>2, <1>3, <1>4 DEF OnTime

\* No timer is touched, and none comes nearer.
LEMMA AllOnTime ==
  ASSUME IInv, RInv, UNCHANGED timers, UNCHANGED since, now' \in Int, now' >= now,
         \A id \in Live : Left(id)' = Left(id)
  PROVE  RInv'
<1>1. ASSUME NEW id \in Live PROVE timers'[id].ticks > 0 /\ OnTime(id)'
  <2>1. OnTime(id) /\ timers[id].ticks > 0
    BY DEF RInv
  <2>2. Left(id) \in Int /\ since[id] \in Int
    BY TimerAt DEF IInv, TypeOK
  <2>3. 0 \in Nat /\ Left(id)' = Left(id) - 0 /\ since'[id] = since[id] + 0
    BY <2>2
  <2> QED
    BY <2>1, <2>3, StaysOnTime
<1> QED
  BY <1>1 DEF RInv, Live

\* A step that moves the wheels nowhere leaves the timers it does not touch on time.
LEMMA OthersOnTime ==
  ASSUME IInv, RInv, UNCHANGED <<current, wheel, drained>>, Draining' <=> Draining,
         now' = now, NEW id \in Live, timers'[id] = timers[id], since'[id] = since[id]
  PROVE  timers'[id].ticks > 0 /\ OnTime(id)'
<1>1. Left(id)' = Left(id)
  BY SameView DEF Left
<1>2. OnTime(id) /\ timers[id].ticks > 0
  BY DEF RInv
<1>3. Left(id) \in Int /\ since[id] \in Int /\ now \in Int
  BY TimerAt DEF IInv, TypeOK
<1>4. /\ 0 \in Nat /\ Left(id)' = Left(id) - 0 /\ since'[id] = since[id] + 0
      /\ now' \in Int /\ now' >= now
  BY <1>1, <1>3
<1> QED
  BY <1>2, <1>4, StaysOnTime

LEMMA AddTimerOnTime ==
  ASSUME IInv, RInv, 0 \notin Expires,
         NEW ms \in Expires, NEW calls \in CallTimes, AddTimer(ms, calls)
  PROVE  RInv'
<1>0. PICK id : id = started + 1
  OBVIOUS
<1> DEFINE n == TicksOf(ms)
           t == [expireAt |-> now + ms, ticks |-> n, calls |-> calls,
                 undo |-> 0, wheel |-> 1, bucket |-> 0]
<1>1. /\ timers' = [i \in Live \union {id} |-> IF i = id THEN Placed(t, n) ELSE timers[i]]
      /\ since' = [i \in Live \union {id} |-> IF i = id THEN -1 ELSE since[i]]
      /\ UNCHANGED now /\ UNCHANGED <<current, wheel, drained>> /\ UNCHANGED phase
  BY <1>0 DEF AddTimer, AddWheel, drainVars, clockVars
<1>2. id \notin Live
  BY <1>0, TimingWheelAssumption DEF IInv, TypeOK
<1>3. Placed(t, n).ticks = n
  BY DEF Placed
<1>4. n > 0
  <2>1. ms \in Nat \ {0}
    BY TimingWheelAssumption
  <2>2. n \in Nat \ {0}
    BY <2>1, TicksOfBounds
  <2> HIDE DEF n
  <2> QED
    BY <2>2
<1> HIDE DEF n, t
<1>5. /\ Live' = Live \union {id} /\ timers'[id].ticks > 0 /\ since'[id] = -1
      /\ \A j \in Live : timers'[j] = timers[j] /\ since'[j] = since[j]
  BY <1>1, <1>2, <1>3, <1>4 DEF Live
<1>6. ASSUME NEW j \in Live PROVE timers'[j].ticks > 0 /\ OnTime(j)'
  BY <1>1, <1>5, OthersOnTime DEF Draining
<1>7. OnTime(id)'
  BY <1>5 DEF OnTime
<1> QED
  BY <1>5, <1>6, <1>7 DEF RInv

LEMMA DrainUndoOnTime ==
  ASSUME IInv, RInv, DrainUndo
  PROVE  RInv'
<1>0. PICK id : id = Head(Drained)
  OBVIOUS
<1>1. PICK n : n = timers[id].undo
  OBVIOUS
<1>2. /\ phase = "drain" /\ phase' = "drain" /\ Drained # <<>> /\ n > 0
      /\ timers' = [i \in Live \union {id} |-> IF i = id THEN Placed(timers[id], n) ELSE timers[i]]
      /\ UNCHANGED now /\ UNCHANGED <<current, wheel, drained>> /\ UNCHANGED since
  BY <1>0, <1>1 DEF DrainUndo, AddWheel, drainVars, clockVars
<1>3. id \in Live /\ timers[id].wheel = wheel /\ timers[id].bucket = drained
  BY <1>0, <1>2, PoppedKeeps
<1>4. timers[id] \in TimerType /\ n \in Nat \ {0} /\ n < Span[NumWheels]
  BY <1>1, <1>2, <1>3, TimerAt
<1>5. /\ Live' = Live /\ timers'[id] = Placed(timers[id], n)
      /\ \A j \in Live \ {id} : timers'[j] = timers[j]
  BY <1>2, <1>3 DEF Live
<1>6. Draining /\ Draining'
  BY <1>2 DEF Draining
<1>7. /\ Left(id)' \in Int /\ Left(id)' <= n
      /\ timers'[id].expireAt = timers[id].expireAt /\ timers'[id].ticks = timers[id].ticks
  BY <1>2, <1>4, <1>5, <1>6, PutLeft
<1>8. Left(id) = n
  <2>1. TicksTo(timers[id].wheel, timers[id].bucket) = 0
    BY <1>3, <1>6 DEF TicksTo
  <2> QED
    BY <1>1, <1>4, <2>1 DEF Left
<1>9. timers'[id].ticks > 0 /\ OnTime(id)'
  <2>1. timers[id].ticks > 0 /\ OnTime(id)
    BY <1>3 DEF RInv
  <2>2. CASE since[id] = -1
    BY <1>2, <1>7, <2>1, <2>2 DEF OnTime
  <2>3. CASE since[id] # -1
    <3>1. /\ since[id] + n <= timers[id].ticks /\ ~(timers[id].ticks < BucketNum[1])
          /\ now >= timers[id].expireAt
      BY <1>1, <1>2, <1>8, <2>1, <2>3 DEF OnTime
    <3>2. since[id] \in Int /\ timers[id].ticks \in Int
      BY <1>3, <1>4 DEF IInv, TypeOK, TimerType
    <3>3. since[id] + Left(id)' <= timers[id].ticks
      BY <1>4, <1>7, <3>1, <3>2
    <3> QED
      BY <1>2, <1>7, <2>1, <3>1, <3>3 DEF OnTime
  <2> QED
    BY <2>2, <2>3
<1>10. ASSUME NEW j \in Live \ {id} PROVE timers'[j].ticks > 0 /\ OnTime(j)'
  BY <1>2, <1>5, <1>6, OthersOnTime
<1> QED
  BY <1>5, <1>9, <1>10 DEF RInv

\* Only timers that have not been called back yet have to wait for the clock.
LEMMA DrainEarlyOnTime ==
  ASSUME IInv, RInv, DrainEarly
  PROVE  RInv'
<1>0. PICK id : id = Head(Drained)
  OBVIOUS
<1>1. /\ phase = "drain" /\ phase' = "drain" /\ Drained # <<>> /\ now < timers[id].expireAt
      /\ timers' = [i \in Live \union {id} |-> IF i = id THEN Placed(timers[id], 1) ELSE timers[i]]
      /\ UNCHANGED now /\ UNCHANGED <<current, wheel, drained>> /\ UNCHANGED since
  BY <1>0 DEF DrainEarly, AddWheel, drainVars, clockVars
<1>2. id \in Live
  BY <1>0, <1>1, PoppedKeeps
<1>3. /\ Live' = Live /\ timers'[id].ticks = timers[id].ticks
      /\ \A j \in Live \ {id} : timers'[j] = timers[j]
  <2>1. timers'[id] = Placed(timers[id], 1) /\ timers[id] \in TimerType
    BY <1>1, <1>2, TimerAt
  <2> QED
    BY <1>1, <1>2, <2>1 DEF Live, Placed, TimerType
<1>4. Draining /\ Draining'
  BY <1>1 DEF Draining
<1>5. timers'[id].ticks > 0 /\ OnTime(id)'
  <2>1. timers[id].ticks > 0 /\ OnTime(id) /\ now \in Int /\ timers[id].expireAt \in Int
    <3>1. timers[id].ticks > 0 /\ OnTime(id)
      BY <1>2 DEF RInv
    <3>2. now \in Nat
      BY DEF IInv, TypeOK
    <3>3. timers[id].expireAt \in Nat
      BY <1>2, TimerAt
    <3> QED
      BY <3>1, <3>2, <3>3
  <2>2. since[id] = -1
    BY <1>1, <2>1 DEF OnTime
  <2> QED
    BY <1>1, <1>3, <2>1, <2>2 DEF OnTime
<1>6. ASSUME NEW j \in Live \ {id} PROVE timers'[j].ticks > 0 /\ OnTime(j)'
  BY <1>1, <1>3, <1>4, OthersOnTime
<1> QED
  BY <1>3, <1>5, <1>6 DEF RInv

LEMMA DrainFireOnTime ==
  ASSUME IInv, Turning, RInv, DrainFire
  PROVE  RInv'
<1>0. PICK id : id = Head(Drained)
  OBVIOUS
<1>1. PICK t : t = timers[id]
  OBVIOUS
<1> DEFINE called == IF t.calls < 0 THEN t ELSE [t EXCEPT !.calls = @ - 1]
<1>2. /\ id \in Live /\ TimerFits(t) /\ phase' = "callback" /\ now >= t.expireAt
      /\ UNCHANGED <<clockVars, current, drainVars>>
      /\ \/ /\ called.calls # 0 /\ Live' = Live /\ since' = [since EXCEPT ![id] = 0]
            /\ \A j \in Live \ {id} : timers'[j] = timers[j]
         \/ /\ Live' = Live \ {id} /\ since' = [i \in Live \ {id} |-> since[i]]
            /\ \A j \in Live' : timers'[j] = timers[j]
  BY <1>0, <1>1, DrainFireCases
<1>3. Draining /\ Draining' /\ UNCHANGED <<current, wheel, drained>> /\ UNCHANGED now
  BY <1>2 DEF Draining, DrainFire, drainVars, clockVars
<1>4. DOMAIN since = Live
  BY DEF IInv, TypeOK
<1>5. called \in TimerType /\ called.ticks = t.ticks /\ called.expireAt = t.expireAt
  BY <1>2 DEF TimerFits, TimerType
<1>6. t.ticks \in Nat \ {0} /\ t.ticks < Span[NumWheels]
  BY <1>1, <1>2 DEF TimerFits, TimerType, RInv
<1>7. called.calls # 0 => timers'[id] = Placed(called, t.ticks)
  BY <1>0, <1>1, <1>2 DEF DrainFire, AddWheel
<1> HIDE DEF called
<1>8. ASSUME NEW j \in Live', j # id PROVE timers'[j].ticks > 0 /\ OnTime(j)'
  <2>1. j \in Live /\ timers'[j] = timers[j] /\ since'[j] = since[j]
    BY <1>2, <1>4, <1>8
  <2> QED
    BY <1>3, <2>1, OthersOnTime
<1>9. ASSUME id \in Live' PROVE timers'[id].ticks > 0 /\ OnTime(id)'
  <2>1. since'[id] = 0 /\ timers'[id] = Placed(called, t.ticks)
    BY <1>2, <1>4, <1>7, <1>9
  <2>2. /\ Left(id)' \in Int /\ Left(id)' <= t.ticks
        /\ t.ticks < BucketNum[1] => timers'[id].undo = 0 /\ Left(id)' = t.ticks
        /\ timers'[id].expireAt = t.expireAt /\ timers'[id].ticks = t.ticks
    BY <1>3, <1>5, <1>6, <2>1, PutLeft
  <2>3. 0 + Left(id)' = Left(id)'
    BY <2>2
  <2> QED
    BY <1>2, <1>3, <1>6, <2>1, <2>2, <2>3 DEF OnTime
<1> QED
  BY <1>8, <1>9 DEF RInv

LEMMA BeginTickOnTime ==
  ASSUME IInv, RInv, BeginTick
  PROVE  RInv'
<1>1. /\ phase = "tick"
      /\ since' = [id \in Live |-> IF since[id] \in 0..MaxSince THEN since[id] + 1 ELSE since[id]]
      /\ UNCHANGED now /\ UNCHANGED timers
  BY DEF BeginTick, clockVars
<1>2. ASSUME NEW id \in Live PROVE timers'[id].ticks > 0 /\ OnTime(id)'
  <2>1. OnTime(id) /\ timers[id].ticks > 0 /\ now \in Int
    BY DEF RInv, IInv, TypeOK
  <2>2. since[id] # -1 => since[id] \in 0..MaxSince
    <3> SUFFICES ASSUME since[id] # -1 PROVE since[id] \in 0..MaxSince
      OBVIOUS
    <3>1. since[id] \in Nat /\ since[id] + Left(id) <= timers[id].ticks
      BY <2>1 DEF OnTime, IInv, TypeOK
    <3>2. Left(id) \in Int /\ Left(id) >= 1
      BY <1>1, TimerAt DEF Draining
    <3>3. /\ timers[id].ticks \in Nat /\ timers[id].ticks < Span[NumWheels]
          /\ Span[NumWheels] \in Nat
      BY SpanGrows, BucketNumType DEF IInv, InRange, TimerFits, TimerType
    <3> QED
      BY <3>1, <3>2, <3>3 DEF MaxSince
  <2>3. since'[id] # -1 => since[id] # -1 /\ since'[id] = since[id] + 1
    BY <1>1, <2>2
  <2>4. Left(id)' = Left(id) - 1
    BY BeginTickNearer
  <2>5. 1 \in Nat /\ now' \in Int /\ now' >= now /\ timers'[id] = timers[id]
    BY <1>1, <2>1
  <2> QED
    BY <2>1, <2>3, <2>4, <2>5, StaysOnTime
<1> QED
  BY <1>1, <1>2 DEF RInv, Live

LEMMA StepOnTime ==
  ASSUME IInv, IInv', Turning, RInv, 0 \notin Expires, [Next]_vars, [ClockKept]_vars
  PROVE  RInv'
<1>0. now \in Int /\ now' \in Int /\ now' >= now
  BY DEF IInv, TypeOK, ClockKept, vars, clockVars
<1>1. ASSUME UNCHANGED <<timers, since, current, wheel, drained>>, Draining' <=> Draining
      PROVE  RInv'
  <2>1. \A id \in Live : Left(id)' = Left(id)
    BY <1>1, SameView DEF Left
  <2> QED
    BY <1>0, <1>1, <2>1, AllOnTime
<1>2. CASE UNCHANGED vars
  BY <1>1, <1>2 DEF vars, drainVars, Draining
<1>3. ASSUME NEW ms \in Expires, NEW calls \in CallTimes, AddTimer(ms, calls) PROVE RInv'
  BY <1>3, AddTimerOnTime
<1>4. ASSUME NEW id, RemoveTimer(id) PROVE RInv'
  <2>1. /\ timers' = [i \in Live \ {id} |-> timers[i]] /\ since' = [i \in Live \ {id} |-> since[i]]
        /\ UNCHANGED <<current, wheel, drained, phase, now>>
    BY <1>4 DEF RemoveTimer, Forget, drainVars, clockVars
  <2>2. Live' = Live \ {id}
    BY <2>1 DEF Live
  <2>3. ASSUME NEW j \in Live \ {id} PROVE timers'[j].ticks > 0 /\ OnTime(j)'
    BY <2>1, <2>3, OthersOnTime DEF Draining
  <2> QED
    BY <2>2, <2>3 DEF RInv
<1>5. ASSUME NEW d \in Steps, Advance(d) PROVE RInv'
  BY <1>1, <1>5 DEF Advance, drainVars, Draining
<1>6. CASE OnRead
  BY <1>1, <1>6 DEF OnRead, Draining
<1>7. CASE BeginTick
  BY <1>7, BeginTickOnTime
<1>8. CASE EndRead
  BY <1>1, <1>8 DEF EndRead, drainVars, Draining
<1>9. CASE DrainUndo
  BY <1>9, DrainUndoOnTime
<1>10. CASE DrainEarly
  BY <1>10, DrainEarlyOnTime
<1>11. CASE DrainFire
  BY <1>11, DrainFireOnTime
<1>12. CASE CallbackReturn
  BY <1>1, <1>12 DEF CallbackReturn, drainVars, Draining
<1>13. CASE LeaveWheel
  <2>1. UNCHANGED <<timers, since>>
    BY <1>13 DEF LeaveWheel
  <2>2. \A id \in Live : Left(id)' = Left(id)
    BY <1>13, NextWheelSame, LastWheelSame
  <2> QED
    BY <1>0, <2>1, <2>2, AllOnTime
<1> QED
  BY <1>2, <1>3, <1>4, <1>5, <1>6, <1>7, <1>8, <1>9, <1>10, <1>11, <1>12, <1>13
     DEF Next, Calls, OnExpired

LEMMA InitOnTime ==
  ASSUME Init
  PROVE  RInv
BY DEF Init, RInv, Live

\* What RepeatsOnTime says of a step.
Repeats ==
  firing' \notin {0, firing} /\ since[firing'] # -1 =>
    LET gap == since[firing']
        ticks == timers[firing'].ticks
    IN  IF ticks < BucketNum[1] THEN gap = ticks ELSE gap <= ticks

LEMMA OnTimeRepeats ==
  ASSUME IInv, RInv, [Next]_vars
  PROVE  [Repeats]_vars
<1> SUFFICES ASSUME firing' \notin {0, firing}, since[firing'] # -1
             PROVE  Repeats
  BY DEF Repeats
<1>1. DrainFire
  BY DEF Next, Calls, OnExpired, AddTimer, RemoveTimer, Advance, OnRead, BeginTick, EndRead,
         DrainUndo, DrainEarly, CallbackReturn, LeaveWheel, vars
<1>2. PICK id : id = Head(Drained)
  OBVIOUS
<1>3. /\ phase = "drain" /\ Drained # <<>> /\ timers[id].undo = 0 /\ firing' = id
  BY <1>1, <1>2 DEF DrainFire
<1>4. id \in Live /\ timers[id].wheel = wheel /\ timers[id].bucket = drained
  BY <1>2, <1>3, PoppedKeeps
<1>5. Left(id) = 0
  <2>1. TicksTo(timers[id].wheel, timers[id].bucket) = 0
    BY <1>3, <1>4 DEF TicksTo, Draining
  <2> QED
    BY <1>3, <2>1 DEF Left
<1>6. since[id] \in Int /\ OnTime(id)
  <2>1. OnTime(id)
    BY <1>4 DEF RInv
  <2>2. since[id] \in Nat \union {-1}
    BY <1>4 DEF IInv, TypeOK
  <2> QED
    BY <2>1, <2>2
<1>7. since[id] + Left(id) = since[id]
  BY <1>5, <1>6
<1> QED
  BY <1>3, <1>6, <1>7 DEF Repeats, OnTime

\* A timer that is called back again and again and fits the first wheel is called back
\* exactly every expire_tick_counts ticks, a longer one never later, whatever callbacks start
\* and stop and whatever the sizes of the wheels, if the clock is not set back: the next
\* round is counted from the tick of the callback and does not look at expire_timestamp_.
THEOREM RepeatsOnTimeCorrect ==
  ASSUME 0 \notin Expires
  PROVE  Spec /\ [][ClockKept]_vars => RepeatsOnTime
<1>1. Init => RInv
  BY InitOnTime
<1>2. IInv /\ IInv' /\ Turning /\ RInv /\ [Next]_vars /\ [ClockKept]_vars => RInv'
  BY StepOnTime
<1>3. IInv /\ RInv /\ [Next]_vars => [Repeats]_vars
  BY OnTimeRepeats
<1>4. RepeatsOnTime <=> [][Repeats]_vars
  BY DEF RepeatsOnTime, Repeats
<1> QED
  BY <1>1, <1>2, <1>3, <1>4, Inductive, Turns, PTL DEF Spec, SafeSpec

=============================================================================
