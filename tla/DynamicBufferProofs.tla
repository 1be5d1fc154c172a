------------------------ MODULE DynamicBufferProofs -------------------------
(***************************************************************************)
(* Proofs about DynamicBuffer, for any sizes of the objects: reading gives *)
(* what was added, the indexes stay in the vector, the vector grows and    *)
(* shrinks in steps, and shrinking one that has no more than init_size_    *)
(* bytes never writes behind it.                                           *)
(***************************************************************************)
EXTENDS DynamicBuffer, SequenceTheorems, TLAPS

Memory == Bytes \union {Zero}

\* Indexed, for one object.
IndexedObject(obj) ==
  /\ obj \in BufferType
  /\ obj.read <= obj.write
  /\ obj.write <= CapacityBytes(obj)
  /\ obj.read = obj.write => obj.read = 0

\* Sized, for one object whose steps are positive.
SizedObject(obj) ==
  /\ CapacityBytes(obj) >= obj.init
  /\ (CapacityBytes(obj) - obj.init) % obj.expand = 0
  /\ \/ CapacityBytes(obj) = obj.init
     \/ CapacityBytes(obj) <= MaxReadable + MaxChunk + obj.expand

\* The sizes of an object that can be made and can grow.
Usable(obj) ==
  /\ obj.init # 0 /\ obj.init <= MaxVector
  /\ obj.expand # 0 /\ MaxReadable + MaxChunk + obj.expand <= MaxVector

-----------------------------------------------------------------------------
(* Arithmetic. *)

LEMMA SmallerIs ==
  ASSUME NEW m \in Nat, NEW n \in Nat
  PROVE  /\ Smaller(m, n) \in Nat /\ Smaller(m, n) <= m /\ Smaller(m, n) <= n
         /\ m <= n => Smaller(m, n) = m
         /\ n <= m => Smaller(m, n) = n
BY DEF Smaller

LEMMA Division ==
  ASSUME NEW n \in Nat, NEW e \in Nat \ {0}
  PROVE  /\ n \div e \in Nat /\ n % e \in 0..(e - 1)
         /\ n = e * (n \div e) + (n % e)
OBVIOUS

LEMMA ProductPositive ==
  ASSUME NEW e \in Nat, NEW k \in Nat
  PROVE  e * k \in Nat /\ (k >= 1 => e * k >= e)
OBVIOUS

\* A multiple of the step leaves no remainder.
LEMMA Multiple ==
  ASSUME NEW n \in Nat, NEW k \in Nat, NEW e \in Nat \ {0}, n % e = 0
  PROVE  (n + e * k) % e = 0
<1> DEFINE m == n + e * k
           q == n \div e
           p == m \div e
           r == m % e
<1>1. q \in Nat /\ n = e * q
  BY Division
<1>2. e * k \in Nat
  BY ProductPositive
<1>3. m \in Nat
  BY <1>2
<1>4. p \in Nat /\ r \in 0..(e - 1) /\ m = e * p + r
  BY <1>3, Division
<1>5. m = e * (q + k)
  BY <1>1
<1> HIDE DEF m, q, p, r
<1>6. CASE p >= q + k + 1
  <2>1. PICK d \in Nat : p = q + k + d /\ d >= 1
    <3>1. p - (q + k) \in Nat /\ p - (q + k) >= 1 /\ p = q + k + (p - (q + k))
      BY <1>1, <1>4, <1>6
    <3> QED
      BY <3>1
  <2>2. e * p = e * (q + k) + e * d
    BY <1>1, <2>1
  <2>3. e * d >= e /\ e * d \in Nat
    BY <2>1, ProductPositive
  <2>4. e * (q + k) \in Nat
    BY <1>1, ProductPositive
  <2> QED
    BY <1>4, <1>5, <2>2, <2>3, <2>4
<1>7. CASE p + 1 <= q + k
  <2>1. PICK d \in Nat : q + k = p + d /\ d >= 1
    <3>1. (q + k) - p \in Nat /\ (q + k) - p >= 1 /\ q + k = p + ((q + k) - p)
      BY <1>1, <1>4, <1>7
    <3> QED
      BY <3>1
  <2>2. e * (q + k) = e * p + e * d
    BY <1>4, <2>1
  <2>3. e * d >= e /\ e * d \in Nat
    BY <2>1, ProductPositive
  <2>4. e * p \in Nat
    BY <1>4, ProductPositive
  <2> QED
    BY <1>4, <1>5, <2>2, <2>3, <2>4
<1>8. CASE p = q + k
  <2>1. e * p \in Nat
    BY <1>4, ProductPositive
  <2> QED
    BY <1>4, <1>5, <1>8, <2>1 DEF m, r
<1> QED
  BY <1>1, <1>4, <1>6, <1>7, <1>8

InSteps(c, i, e) == (c - i) % e = 0

LEMMA MultipleAbove ==
  ASSUME NEW c \in Nat, NEW i \in Nat, NEW k \in Nat, NEW e \in Nat \ {0}, c >= i, InSteps(c, i, e),
         NEW y, y = c + e * k
  PROVE  InSteps(y, i, e)
<1> DEFINE n == c - i
           x == e * k
<1>1. n \in Nat /\ n % e = 0 /\ c = n + i
  BY DEF InSteps
<1>2. x \in Nat
  BY ProductPositive
<1> HIDE DEF n
<1>3. (n + e * k) % e = 0
  BY <1>1, Multiple
<1>4. y - i = n + x
  <2>1. y = c + x
    OBVIOUS
  <2> HIDE DEF x
  <2> QED
    BY <1>1, <1>2, <2>1
<1> QED
  BY <1>3, <1>4 DEF InSteps

LEMMA ZeroRemainder ==
  ASSUME NEW e \in Nat \ {0}
  PROVE  0 % e = 0
<1>1. 0 \div e \in Nat /\ 0 % e \in 0..(e - 1) /\ 0 = e * (0 \div e) + (0 % e)
  BY Division
<1>2. e * (0 \div e) \in Nat
  BY <1>1, ProductPositive
<1> QED
  BY <1>1, <1>2

\* A size_t that does not reach the range is what it is, one that does not go a
\* range below zero wraps once.
LEMMA Wraps ==
  ASSUME NEW s \in Nat \ {0}
  PROVE  /\ \A x \in Nat : x % s \in Nat /\ x % s < s
         /\ \A x \in Nat, h \in Nat : x < s => (x + s * h) % s = x
         /\ \A x \in Nat : x < s => x % s = x
         /\ \A q \in Nat : q >= 1 /\ q <= s => (0 - q) % s = s - q
<1>1. \A x \in Nat : x % s \in Nat /\ x % s < s
  BY Division
<1>2. ASSUME NEW x \in Nat, x < s PROVE x % s = x
  <2> DEFINE p == x \div s
  <2>1. p \in Nat /\ x % s \in 0..(s - 1) /\ x = s * p + (x % s)
    BY Division
  <2>2. s * p \in Nat /\ (p >= 1 => s * p >= s)
    BY <2>1, ProductPositive
  <2>3. p = 0
    <3> HIDE DEF p
    <3> QED
      BY <1>2, <2>1, <2>2
  <2> HIDE DEF p
  <2>4. s * p = 0
    BY <2>3
  <2> QED
    BY <2>1, <2>4
<1>3. ASSUME NEW x \in Nat, NEW h \in Nat, x < s PROVE (x + s * h) % s = x
  <2> DEFINE y == x + s * h
             p == y \div s
             r == y % s
  <2>1. s * h \in Nat /\ y \in Nat
    BY ProductPositive
  <2>2. p \in Nat /\ r \in 0..(s - 1) /\ y = s * p + r
    BY <2>1, Division
  <2>3. s * p + r = x + s * h
    BY <2>2
  <2> HIDE DEF y, p, r
  <2>4. CASE p >= h + 1
    <3>1. PICK d \in Nat : p = h + d /\ d >= 1
      <4>1. p - h \in Nat /\ p - h >= 1 /\ p = h + (p - h)
        BY <2>2, <2>4
      <4> QED
        BY <4>1
    <3>2. s * p = s * h + s * d /\ s * d >= s /\ s * d \in Nat
      BY <3>1, ProductPositive
    <3> QED
      BY <1>3, <2>1, <2>2, <2>3, <3>2
  <2>5. CASE h >= p + 1
    <3>1. PICK d \in Nat : h = p + d /\ d >= 1
      <4>1. h - p \in Nat /\ h - p >= 1 /\ h = p + (h - p)
        BY <2>2, <2>5
      <4> QED
        BY <4>1
    <3>2. s * h = s * p + s * d /\ s * d >= s /\ s * d \in Nat /\ s * p \in Nat
      BY <2>2, <3>1, ProductPositive
    <3> QED
      BY <1>3, <2>1, <2>2, <2>3, <3>2
  <2>6. CASE p = h
    BY <2>1, <2>2, <2>3, <2>6 DEF r, y
  <2> QED
    BY <2>2, <2>4, <2>5, <2>6
<1>4. ASSUME NEW q \in Nat, q >= 1, q <= s PROVE (0 - q) % s = s - q
  <2> DEFINE y == 0 - q
             p == y \div s
             r == y % s
  <2>1. p \in Int /\ r \in 0..(s - 1) /\ y = s * p + r
    OBVIOUS
  <2>2. r - q \in Int
    BY <1>4, <2>1
  <2>3. s * (p + 1) = s * p + s
    BY <2>1
  <2>4. s * p \in Int /\ s * p = 0 - q - r
    BY <2>1
  <2> HIDE DEF y, p, r
  <2>5. CASE p + 1 >= 1
    <3>1. p \in Nat
      BY <2>1, <2>5
    <3>2. s * p \in Nat
      BY <3>1, ProductPositive
    <3> QED
      BY <1>4, <2>1, <2>4, <3>2
  <2>6. CASE p + 1 <= 0 - 1
    <3>1. PICK d \in Nat : p = 0 - 1 - d /\ d >= 1
      <4>1. 0 - 1 - p \in Nat /\ 0 - 1 - p >= 1 /\ p = 0 - 1 - (0 - 1 - p)
        BY <2>1, <2>6
      <4> QED
        BY <4>1
    <3>2. s * p = 0 - s - s * d /\ s * d >= s /\ s * d \in Nat
      BY <3>1, ProductPositive
    <3> QED
      BY <1>4, <2>1, <2>4, <3>2
  <2>7. CASE p + 1 = 0
    <3>1. p = 0 - 1
      BY <2>1, <2>7
    <3>2. s * p = 0 - s
      BY <3>1
    <3> QED
      BY <1>4, <2>1, <2>4, <3>2 DEF r, y
  <2> QED
    BY <2>1, <2>5, <2>6, <2>7
<1> QED
  BY <1>1, <1>2, <1>3, <1>4

LEMMA Halves ==
  ASSUME NEW n \in Nat
  PROVE  /\ n \div 2 \in Nat /\ 2 * (n \div 2) <= n
         /\ n % 2 = 0 => n = 2 * (n \div 2)
         /\ n = 2 * (n \div 2) \/ n = 2 * (n \div 2) + 1
OBVIOUS

LEMMA Times ==
  ASSUME NEW e \in Nat \ {0}, NEW d \in Nat
  PROVE  e * d \in Nat /\ d <= e * d
<1>1. PICK f \in Nat : e = 1 + f
  <2>1. e - 1 \in Nat /\ e = 1 + (e - 1)
    OBVIOUS
  <2> QED
    BY <2>1
<1>2. e * d = d + f * d /\ f * d \in Nat
  BY <1>1
<1> QED
  BY <1>1, <1>2, ProductPositive

\* Half of the steps there is room for in n bytes, and init_size_, are a vector that
\* does not reach the range.
LEMMA HalfKept ==
  ASSUME NEW s \in Nat \ {0}, NEW i \in Nat, NEW e \in Nat \ {0}, NEW d \in Nat, NEW n \in Nat,
         n < s, 4 * i <= s, e * d <= n, NEW k \in Nat, 2 * k <= d
  PROVE  e * k \in Nat /\ e * k <= n /\ (i + k * e) % s = i + e * k
<1>1. PICK g \in Nat : d = 2 * k + g
  <2>1. d - 2 * k \in Nat /\ d = 2 * k + (d - 2 * k)
    OBVIOUS
  <2> QED
    BY <2>1
<1>2. e * d = 2 * (e * k) + e * g /\ e * k = k * e
  BY <1>1
<1>3. e * k \in Nat /\ e * g \in Nat /\ e * d \in Nat
  BY <1>1, ProductPositive
<1> DEFINE m == e * k
<1>4. m \in Nat /\ 2 * m <= n
  <2> DEFINE l == e * d
             o == e * g
  <2>1. l = 2 * m + o /\ m \in Nat /\ o \in Nat /\ l <= n /\ l \in Nat
    BY <1>2, <1>3
  <2> HIDE DEF l, m, o
  <2> QED
    BY <2>1
<1> HIDE DEF m
<1>5. i + m \in Nat /\ i + m < s
  BY <1>4
<1>6. (i + m) % s = i + m
  BY <1>5, Wraps
<1> QED
  BY <1>2, <1>4, <1>6 DEF m

\* A negative difference becomes half of the range, less a few steps: times
\* expand_size_, that is a vector shorter than init_size_ or longer than any.
LEMMA KeptOfWrapped ==
  ASSUME NEW s \in Nat \ {0}, s % 2 = 0, NEW v \in Nat, 4 * v <= s,
         NEW i \in Nat \ {0}, NEW e \in Nat \ {0}, NEW q \in Nat, q >= 1, i + e * q <= v,
         NEW k, k = ((0 - q) % s) \div 2
  PROVE  (i + k * e) % s \in Nat /\ ((i + k * e) % s < i \/ (i + k * e) % s > v)
<1> DEFINE h == s \div 2
           u == q - q \div 2
<1>1. h \in Nat /\ s = 2 * h
  BY Halves
<1>2. u \in Nat /\ u >= 1 /\ u <= q /\ (q = 2 * u \/ q = 2 * u - 1)
  <2>1. /\ q \div 2 \in Nat /\ 2 * (q \div 2) <= q
        /\ q = 2 * (q \div 2) \/ q = 2 * (q \div 2) + 1
    BY Halves
  <2> QED
    BY <2>1
<1> HIDE DEF h, u
<1>3. e * q \in Nat /\ q <= e * q
  BY Times
<1>4. q <= v /\ q <= s
  <2> DEFINE l == e * q
  <2>1. l \in Nat /\ q <= l /\ i + l <= v
    BY <1>3
  <2> HIDE DEF l
  <2> QED
    BY <2>1
<1>5. k = h - u /\ k \in Nat
  <2>1. (0 - q) % s = s - q
    BY <1>4, Wraps
  <2>2. s - q \in Nat /\ k = (s - q) \div 2
    BY <1>4, <2>1
  <2>3. s - q = 2 * k \/ s - q = 2 * k + 1
    BY <2>2, Halves
  <2>4. k \in Nat
    BY <2>2, Halves
  <2> QED
    BY <1>1, <1>2, <2>3, <2>4
<1> DEFINE t == e * u
<1>6. t \in Nat /\ t >= 1 /\ i + t <= v
  <2>1. PICK g \in Nat : q = u + g
    <3>1. q - u \in Nat /\ q = u + (q - u)
      BY <1>2
    <3> QED
      BY <3>1
  <2>2. e * q = e * u + e * g /\ e * u \in Nat /\ e * g \in Nat /\ e * u >= e
    BY <1>2, <2>1, ProductPositive
  <2> DEFINE l == e * q
             o == e * g
  <2>3. l = t + o /\ t \in Nat /\ o \in Nat /\ t >= e /\ i + l <= v
    BY <2>2
  <2> HIDE DEF l, o, t
  <2> QED
    BY <2>3
<1> DEFINE m == k * e
           size == i + m
<1>7. m = e * h - t
  BY <1>1, <1>2, <1>5
<1> HIDE DEF t, m, size
<1>8. i + k * e = size
  BY DEF m, size
<1>9. PICK f \in Nat : e = 2 * f \/ e = 2 * f + 1
  BY Halves
<1>10. CASE e = 2 * f
  <2>1. e * h = s * f
    BY <1>1, <1>9, <1>10
  <2>2. f >= 1
    BY <1>9, <1>10
  <2>3. CASE t <= i
    <3>1. i - t \in Nat /\ i - t < s /\ i - t < i
      BY <1>6, <2>3
    <3>2. s * f \in Nat
      BY <1>9, ProductPositive
    <3>3. size = (i - t) + s * f
      <4>1. PICK o \in Nat : o = s * f
        BY <3>2
      <4>2. e * h = o
        BY <2>1, <3>2, <4>1
      <4>3. m = o - t
        BY <1>6, <1>7, <4>2
      <4> QED
        BY <1>6, <4>1, <4>3 DEF size
    <3>4. size % s = i - t
      BY <1>9, <3>1, <3>3, Wraps
    <3> QED
      BY <1>8, <3>1, <3>4
  <2>4. CASE t > i
    <3>1. s + i - t \in Nat /\ s + i - t < s /\ s + i - t > v
      BY <1>6, <2>4
    <3>2. PICK g \in Nat : f = 1 + g
      <4>1. f - 1 \in Nat /\ f = 1 + (f - 1)
        BY <1>9, <2>2
      <4> QED
        BY <4>1
    <3>3. s * f = s + s * g /\ s * g \in Nat
      BY <3>2, ProductPositive
    <3>4. size = (s + i - t) + s * g
      <4>1. PICK o \in Nat : o = s * g
        BY <3>3
      <4>2. e * h = s + o
        BY <2>1, <3>3, <4>1
      <4>3. m = s + o - t
        BY <1>6, <1>7, <4>2
      <4> QED
        BY <1>6, <4>1, <4>3 DEF size
    <3>5. size % s = s + i - t
      BY <3>1, <3>2, <3>4, Wraps
    <3> QED
      BY <1>8, <3>1, <3>5
  <2> QED
    BY <1>6, <2>3, <2>4
<1>11. CASE e = 2 * f + 1
  <2>1. e * h = s * f + h
    BY <1>1, <1>9, <1>11
  <2>2. s * f \in Nat
    BY <1>9, ProductPositive
  <2>3. h + i - t \in Nat /\ h + i - t < s /\ h + i - t > v
    BY <1>1, <1>6
  <2>4. size = (h + i - t) + s * f
    <3>1. PICK o \in Nat : o = s * f
      BY <2>2
    <3>2. e * h = o + h
      BY <2>1, <3>1
    <3>3. m = o + h - t
      BY <1>1, <1>6, <1>7, <3>2
    <3> QED
      BY <1>1, <1>6, <3>1, <3>3 DEF size
  <2>5. size % s = h + i - t
    BY <1>9, <2>3, <2>4, Wraps
  <2> QED
    BY <1>8, <2>3, <2>5
<1> QED
  BY <1>9, <1>10, <1>11

\* What ReserveWritableBytes adds is enough, and by at most a step too much.
LEMMA Grown ==
  ASSUME NEW d \in Nat, NEW e \in Nat \ {0}
  PROVE  /\ d \div e + 1 \in Nat /\ e * (d \div e + 1) \in Nat
         /\ e * (d \div e + 1) >= d /\ e * (d \div e + 1) <= d + e
<1> DEFINE q == d \div e
           r == d % e
<1>1. q \in Nat /\ r \in 0..(e - 1) /\ d = e * q + r
  BY Division
<1> HIDE DEF q, r
<1>2. e * (q + 1) = e * q + e
  BY <1>1
<1>3. e * q \in Nat
  BY <1>1, ProductPositive
<1>4. q + 1 \in Nat /\ e * (q + 1) \in Nat /\ e * (q + 1) >= d /\ e * (q + 1) <= d + e
  BY <1>1, <1>2, <1>3
<1> QED
  BY <1>4 DEF q

-----------------------------------------------------------------------------
(* What is in an object. *)

LEMMA IndexedFacts ==
  ASSUME NEW obj, IndexedObject(obj)
  PROVE  /\ obj \in BufferType /\ obj.mem \in Seq(Memory) /\ CapacityBytes(obj) = Len(obj.mem)
         /\ obj.init \in Nat /\ obj.expand \in Nat /\ obj.read \in Nat /\ obj.write \in Nat
         /\ obj.read <= obj.write /\ obj.write <= CapacityBytes(obj) /\ CapacityBytes(obj) \in Nat
         /\ ReadableBytes(obj) = obj.write - obj.read /\ ReadableBytes(obj) \in Nat
         /\ WritableBytes(obj) = CapacityBytes(obj) - obj.write /\ WritableBytes(obj) \in Nat
BY DEF IndexedObject, BufferType, Memory, CapacityBytes, ReadableBytes, WritableBytes

LEMMA ContentsFacts ==
  ASSUME NEW obj, IndexedObject(obj)
  PROVE  /\ Contents(obj) \in Seq(Memory)
         /\ Len(Contents(obj)) = ReadableBytes(obj)
         /\ \A i \in 1..ReadableBytes(obj) : Contents(obj)[i] = obj.mem[obj.read + i]
<1> DEFINE m == obj.mem
           c == Contents(obj)
<1>1. /\ m \in Seq(Memory) /\ obj.read \in Nat /\ obj.write \in Nat /\ obj.read <= obj.write
      /\ obj.write <= Len(m) /\ ReadableBytes(obj) = obj.write - obj.read
  BY IndexedFacts
<1>2. \A i \in (obj.read + 1)..obj.write : m[i] \in Memory
  BY <1>1
<1>3. c = SubSeq(m, obj.read + 1, obj.write) /\ obj.read + 1 \in Int /\ obj.write \in Int
  BY <1>1 DEF Contents
<1> HIDE DEF c, m
<1>4. /\ c \in Seq(Memory)
      /\ Len(c) = IF obj.read + 1 <= obj.write THEN obj.write - (obj.read + 1) + 1 ELSE 0
      /\ \A i \in 1..(obj.write - (obj.read + 1) + 1) : c[i] = m[(obj.read + 1) + i - 1]
  BY <1>2, <1>3, SubSeqProperties
<1>5. Len(c) = obj.write - obj.read /\ obj.write - (obj.read + 1) + 1 = obj.write - obj.read
  BY <1>1, <1>4
<1>6. \A i \in 1..(obj.write - obj.read) : (obj.read + 1) + i - 1 = obj.read + i
  BY <1>1
<1> QED
  BY <1>1, <1>4, <1>5, <1>6 DEF c, m

\* Sequences of the same length and elements are the same.
LEMMA SameContents ==
  ASSUME NEW obj, IndexedObject(obj), NEW S, NEW q \in Seq(S), Len(q) = ReadableBytes(obj),
         \A i \in 1..ReadableBytes(obj) : obj.mem[obj.read + i] = q[i]
  PROVE  Contents(obj) = q
<1> DEFINE c == Contents(obj)
<1>1. /\ c \in Seq(Memory) /\ Len(c) = Len(q) /\ \A i \in 1..Len(q) : c[i] = q[i]
      /\ Len(q) \in Nat
  BY ContentsFacts
<1> HIDE DEF c
<1>2. c \in [1..Len(q) -> Memory] /\ q \in [1..Len(q) -> S]
  BY <1>1
<1>3. c = q
  BY <1>1, <1>2
<1> QED
  BY <1>3 DEF c

LEMMA NewIs ==
  ASSUME NEW size \in [init : Nat \ {0}, expand : Nat \ {0}]
  PROVE  /\ IndexedObject(New(size)) /\ SizedObject(New(size)) /\ Contents(New(size)) = <<>>
         /\ New(size).expand = size.expand /\ New(size).init = size.init
<1> DEFINE obj == New(size)
<1>1. size.init \in Nat \ {0} /\ size.expand \in Nat \ {0}
  OBVIOUS
<1>2. /\ obj.mem \in Seq(Memory) /\ Len(obj.mem) = size.init /\ obj.init = size.init
      /\ obj.expand = size.expand /\ obj.read = 0 /\ obj.write = 0
      /\ obj \in [mem : Seq(Memory), init : Nat, expand : Nat, read : Nat, write : Nat]
  <2> DEFINE f == [i \in 1..size.init |-> Zero]
  <2>1. f \in [1..size.init -> Memory]
    BY DEF Memory
  <2>2. f \in Seq(Memory) /\ Len(f) = size.init
    BY <1>1, <2>1
  <2>3. obj = [mem |-> f, init |-> size.init, expand |-> size.expand, read |-> 0, write |-> 0]
    BY DEF New
  <2> HIDE DEF f, obj
  <2> QED
    BY <1>1, <2>2, <2>3
<1> HIDE DEF obj
<1>3. IndexedObject(obj)
  BY <1>1, <1>2 DEF IndexedObject, BufferType, CapacityBytes, Memory
<1>4. SizedObject(obj)
  <2>1. 0 % size.expand = 0
    BY <1>1, ZeroRemainder
  <2> QED
    BY <1>1, <1>2, <2>1 DEF SizedObject, CapacityBytes
<1>5. Contents(obj) = <<>>
  <2>1. ReadableBytes(obj) = 0
    BY <1>2 DEF ReadableBytes
  <2> QED
    BY <1>3, <2>1, ContentsFacts
<1> QED
  BY <1>2, <1>3, <1>4, <1>5 DEF obj

LEMMA MovedIs ==
  ASSUME NEW obj, IndexedObject(obj), NEW size \in Nat, size >= ReadableBytes(obj)
  PROVE  /\ IndexedObject(Moved(obj, size)) /\ Contents(Moved(obj, size)) = Contents(obj)
         /\ CapacityBytes(Moved(obj, size)) = size /\ Moved(obj, size).write = ReadableBytes(obj)
         /\ Moved(obj, size).read = 0
         /\ Moved(obj, size).init = obj.init /\ Moved(obj, size).expand = obj.expand
<1> DEFINE c == Contents(obj)
           n == ReadableBytes(obj)
           f == [i \in 1..size |-> IF i <= Len(c) THEN c[i] ELSE Zero]
           new == Moved(obj, size)
<1>1. c \in Seq(Memory) /\ Len(c) = n /\ n \in Nat
  BY ContentsFacts, IndexedFacts
<1>2. new = [obj EXCEPT !.mem = f, !.read = 0, !.write = Len(c)]
  BY DEF Moved
<1>3. obj \in [mem : Seq(Memory), init : Nat, expand : Nat, read : Nat, write : Nat]
  BY DEF IndexedObject, BufferType, Memory
<1>4. f \in [1..size -> Memory]
  <2>1. \A i \in 1..size : (IF i <= Len(c) THEN c[i] ELSE Zero) \in Memory
    <3> SUFFICES ASSUME NEW i \in 1..size PROVE (IF i <= Len(c) THEN c[i] ELSE Zero) \in Memory
      OBVIOUS
    <3>1. CASE i <= Len(c)
      BY <1>1, <3>1
    <3>2. CASE ~ (i <= Len(c))
      BY <3>2 DEF Memory
    <3> QED
      BY <3>1, <3>2
  <2> HIDE DEF c
  <2> QED
    BY <2>1
<1>5. \A i \in 1..size : i <= n => f[i] = c[i]
  BY <1>1
<1> HIDE DEF f, c, n
<1>6. f \in Seq(Memory) /\ Len(f) = size
  BY <1>4
<1>7. /\ new \in [mem : Seq(Memory), init : Nat, expand : Nat, read : Nat, write : Nat]
      /\ new.mem = f /\ new.read = 0 /\ new.write = n /\ new.init = obj.init /\ new.expand = obj.expand
  <2>1. obj = [mem |-> obj.mem, init |-> obj.init, expand |-> obj.expand,
               read |-> obj.read, write |-> obj.write]
        /\ obj.init \in Nat /\ obj.expand \in Nat
    BY <1>3
  <2>2. new = [mem |-> f, init |-> obj.init, expand |-> obj.expand, read |-> 0, write |-> n]
    BY <1>1, <1>2, <1>3
  <2> HIDE DEF new
  <2> QED
    BY <1>1, <1>6, <2>1, <2>2
<1> HIDE DEF new
<1>8. size >= n
  BY DEF n
<1>9. IndexedObject(new) /\ CapacityBytes(new) = size /\ ReadableBytes(new) = n
  BY <1>1, <1>6, <1>7, <1>8 DEF IndexedObject, BufferType, Memory, CapacityBytes, ReadableBytes
<1>10. \A i \in 1..n : new.mem[new.read + i] = c[i]
  BY <1>1, <1>5, <1>7, <1>8
<1>11. Contents(new) = c
  BY <1>1, <1>9, <1>10, SameContents
<1> QED
  BY <1>7, <1>9, <1>11 DEF new, c, n

LEMMA ReserveIs ==
  ASSUME NEW obj, IndexedObject(obj), obj.expand # 0, NEW size \in Nat
  PROVE  /\ IndexedObject(ReserveWritableBytes(obj, size))
         /\ Contents(ReserveWritableBytes(obj, size)) = Contents(obj)
         /\ WritableBytes(ReserveWritableBytes(obj, size)) >= size
         /\ ReserveWritableBytes(obj, size).init = obj.init
         /\ ReserveWritableBytes(obj, size).expand = obj.expand
         /\ (/\ SizedObject(obj) /\ size <= MaxChunk /\ ReadableBytes(obj) <= MaxReadable
             /\ MaxChunk \in Nat /\ MaxReadable \in Nat)
            => SizedObject(ReserveWritableBytes(obj, size))
<1> DEFINE cap == CapacityBytes(obj)
           n == ReadableBytes(obj)
           w == WritableBytes(obj)
           free == obj.read + w
           k == (size - free) \div obj.expand + 1
           added == IF free < size THEN obj.expand * k ELSE 0
           new == ReserveWritableBytes(obj, size)
<1>1. /\ cap \in Nat /\ n \in Nat /\ obj.read \in Nat /\ obj.write \in Nat /\ obj.expand \in Nat \ {0}
      /\ n = obj.write - obj.read /\ obj.write <= cap /\ w = cap - obj.write /\ w \in Nat
      /\ obj.init \in Nat
  BY IndexedFacts
<1>2. new = IF w >= size THEN obj ELSE Moved(obj, cap + added)
  BY DEF ReserveWritableBytes
<1> HIDE DEF cap, n, w
<1>3. free \in Nat /\ free + n = cap
  BY <1>1
<1> HIDE DEF new
<1>4. CASE w >= size
  BY <1>2, <1>4 DEF new, w
<1>5. CASE w < size
  <2> HIDE DEF free
  <2>1. free < size => /\ added = obj.expand * k /\ k \in Nat /\ added \in Nat
                       /\ added >= size - free /\ added <= size - free + obj.expand
    <3> SUFFICES ASSUME free < size
        PROVE  /\ added = obj.expand * k /\ k \in Nat /\ added \in Nat
               /\ added >= size - free /\ added <= size - free + obj.expand
      OBVIOUS
    <3>1. size - free \in Nat
      BY <1>3
    <3>2. /\ k \in Nat /\ obj.expand * k \in Nat
          /\ obj.expand * k >= size - free /\ obj.expand * k <= size - free + obj.expand
      BY <1>1, <3>1, Grown
    <3>3. added = obj.expand * k
      OBVIOUS
    <3> HIDE DEF added, k
    <3> QED
      BY <3>2, <3>3
  <2>2. ~ (free < size) => added = 0
    OBVIOUS
  <2>3. free \in Nat /\ free + n = cap
    BY <1>3
  <2> HIDE DEF added, k
  <2>4. added \in Nat /\ free + added >= size
    BY <2>1, <2>2, <2>3
  <2>5. new = Moved(obj, cap + added)
    BY <1>1, <1>2, <1>5
  <2>6. cap + added \in Nat /\ cap + added >= n
    BY <1>1, <2>3, <2>4
  <2>7. /\ IndexedObject(new) /\ Contents(new) = Contents(obj) /\ CapacityBytes(new) = cap + added
        /\ new.write = n /\ new.init = obj.init /\ new.expand = obj.expand
    BY <2>5, <2>6, MovedIs DEF n
  <2>8. WritableBytes(new) >= size
    <3>1. WritableBytes(new) = (cap + added) - n
      BY <2>7 DEF WritableBytes
    <3> QED
      BY <1>1, <2>3, <2>4, <3>1
  <2>9. ASSUME SizedObject(obj), size <= MaxChunk, n <= MaxReadable, MaxChunk \in Nat, MaxReadable \in Nat
        PROVE  SizedObject(new)
    <3>1. /\ cap >= obj.init /\ (cap - obj.init) % obj.expand = 0
          /\ cap = obj.init \/ cap <= MaxReadable + MaxChunk + obj.expand
      BY <2>9 DEF SizedObject, cap
    <3>2. CASE free < size
      <4>1. cap + added <= MaxReadable + MaxChunk + obj.expand
        BY <1>1, <2>1, <2>3, <2>9, <3>2
      <4>2. InSteps(cap + added, obj.init, obj.expand)
        <5>1. /\ k \in Nat /\ obj.expand \in Nat \ {0} /\ cap \in Nat /\ obj.init \in Nat
              /\ cap >= obj.init /\ InSteps(cap, obj.init, obj.expand)
              /\ cap + added = cap + obj.expand * k
          BY <1>1, <2>1, <3>1, <3>2 DEF InSteps
        <5> QED
          BY <5>1, MultipleAbove
      <4>3. ((cap + added) - obj.init) % obj.expand = 0 /\ cap + added >= obj.init
        BY <1>1, <2>4, <3>1, <4>2 DEF InSteps
      <4> QED
        BY <2>7, <4>1, <4>3 DEF SizedObject
    <3>3. CASE ~ (free < size)
      <4>1. cap + added = cap
        BY <1>1, <2>2, <3>3
      <4>2. CapacityBytes(new) = cap
        BY <2>7, <4>1
      <4> QED
        BY <2>7, <3>1, <4>2 DEF SizedObject
    <3> QED
      BY <3>2, <3>3
  <2> QED
    BY <2>7, <2>8, <2>9 DEF new, n
<1> QED
  BY <1>1, <1>4, <1>5

-----------------------------------------------------------------------------
(* Adding and reading. *)

\* What is written behind the contents, where there is room for it, follows them.
LEMMA WrittenIs ==
  ASSUME NEW obj, IndexedObject(obj), NEW data \in Seq(Bytes), Len(data) <= WritableBytes(obj)
  PROVE  LET new == WrittenBytes(Put(obj, data), Len(data))
         IN  /\ IndexedObject(new) /\ Contents(new) = Contents(obj) \o data
             /\ CapacityBytes(new) = CapacityBytes(obj)
             /\ new.init = obj.init /\ new.expand = obj.expand
<1> DEFINE n == Len(data)
           c == Contents(obj)
           r == ReadableBytes(obj)
           cap == CapacityBytes(obj)
           mem == [i \in DOMAIN obj.mem |->
                     IF i \in (obj.write + 1)..(obj.write + n) THEN data[i - obj.write] ELSE obj.mem[i]]
           put == Put(obj, data)
           new == WrittenBytes(Put(obj, data), Len(data))
<1>1. /\ obj.mem \in Seq(Memory) /\ cap = Len(obj.mem) /\ cap \in Nat
      /\ obj.init \in Nat /\ obj.expand \in Nat /\ obj.read \in Nat /\ obj.write \in Nat
      /\ obj.read <= obj.write /\ obj.write <= cap /\ r = obj.write - obj.read /\ r \in Nat
      /\ WritableBytes(obj) = cap - obj.write /\ n \in Nat /\ obj.write + n <= cap
      /\ obj.read = obj.write => obj.read = 0
  BY IndexedFacts DEF IndexedObject
<1>2. c \in Seq(Memory) /\ Len(c) = r /\ \A i \in 1..r : c[i] = obj.mem[obj.read + i]
  BY ContentsFacts
<1> HIDE DEF c, r, cap
<1>3. obj = [mem |-> obj.mem, init |-> obj.init, expand |-> obj.expand,
             read |-> obj.read, write |-> obj.write]
  BY IndexedFacts DEF BufferType
<1>4. put = [mem |-> mem, init |-> obj.init, expand |-> obj.expand,
             read |-> obj.read, write |-> obj.write]
  BY <1>3 DEF Put
<1>5. mem \in Seq(Memory) /\ Len(mem) = cap
  <2>1. DOMAIN obj.mem = 1..cap
    BY <1>1
  <2>2. \A i \in 1..cap :
          (IF i \in (obj.write + 1)..(obj.write + n) THEN data[i - obj.write] ELSE obj.mem[i]) \in Memory
    <3> SUFFICES ASSUME NEW i \in 1..cap
        PROVE (IF i \in (obj.write + 1)..(obj.write + n) THEN data[i - obj.write] ELSE obj.mem[i]) \in Memory
      OBVIOUS
    <3>1. obj.mem[i] \in Memory
      BY <1>1
    <3>2. i \in (obj.write + 1)..(obj.write + n) => data[i - obj.write] \in Memory
      <4> SUFFICES ASSUME i \in (obj.write + 1)..(obj.write + n) PROVE data[i - obj.write] \in Bytes
        BY DEF Memory
      <4>1. i - obj.write \in 1..n
        <5>1. obj.write \in Nat /\ n \in Nat /\ i \in Int
          BY <1>1
        <5> QED
          BY <5>1
      <4> QED
        BY <4>1
    <3> QED
      BY <3>1, <3>2
  <2>3. mem \in [1..cap -> Memory]
    BY <2>1, <2>2
  <2> HIDE DEF mem
  <2> QED
    <3>1. cap \in Nat
      BY <1>1
    <3> QED
      BY <2>3, <3>1
<1>6. /\ \A i \in 1..obj.write : mem[i] = obj.mem[i]
      /\ \A i \in 1..n : mem[obj.write + i] = data[i]
  <2>1. DOMAIN obj.mem = 1..cap
    BY <1>1
  <2>2. ASSUME NEW i \in 1..obj.write PROVE mem[i] = obj.mem[i]
    <3>1. i \in DOMAIN obj.mem /\ i \notin (obj.write + 1)..(obj.write + n)
      BY <1>1, <2>1
    <3> QED
      BY <3>1
  <2>3. ASSUME NEW i \in 1..n PROVE mem[obj.write + i] = data[i]
    <3>1. /\ obj.write + i \in DOMAIN obj.mem /\ obj.write + i \in (obj.write + 1)..(obj.write + n)
          /\ (obj.write + i) - obj.write = i
      <4>1. obj.write \in Nat /\ n \in Nat /\ cap \in Nat /\ obj.write + n <= cap
        BY <1>1
      <4>2. obj.write + i \in 1..cap
        BY <4>1
      <4> QED
        BY <2>1, <4>1, <4>2
    <3> QED
      BY <3>1
  <2> QED
    BY <2>2, <2>3
<1> HIDE DEF mem
<1>7. /\ put.mem = mem /\ put.init = obj.init /\ put.expand = obj.expand
      /\ put.read = obj.read /\ put.write = obj.write
  BY <1>4
<1> HIDE DEF put, n
<1>8. WritableBytes(put) = cap - obj.write /\ n <= cap - obj.write
  BY <1>1, <1>5, <1>7 DEF WritableBytes, CapacityBytes
<1>9. Smaller(n, WritableBytes(put)) = n
  <2> DEFINE w == WritableBytes(put)
  <2>1. w \in Nat /\ n \in Nat /\ n <= w
    BY <1>1, <1>8
  <2> HIDE DEF w
  <2>2. Smaller(n, w) = n
    BY <2>1, SmallerIs
  <2> QED
    BY <2>2 DEF w
<1>10. new = [mem |-> mem, init |-> obj.init, expand |-> obj.expand,
              read |-> obj.read, write |-> obj.write + n]
  BY <1>4, <1>9 DEF WrittenBytes, put, n
<1> HIDE DEF new
<1>11. /\ new.mem = mem /\ new.init = obj.init /\ new.expand = obj.expand
       /\ new.read = obj.read /\ new.write = obj.write + n
       /\ new \in [mem : Seq(Memory), init : Nat, expand : Nat, read : Nat, write : Nat]
  BY <1>1, <1>5, <1>10
<1>12. IndexedObject(new) /\ CapacityBytes(new) = cap /\ ReadableBytes(new) = r + n
  <2>1. obj.read = obj.write + n => obj.read = 0
    BY <1>1
  <2> QED
    BY <1>1, <1>5, <1>11, <2>1 DEF IndexedObject, BufferType, Memory, CapacityBytes, ReadableBytes
<1>13. data \in Seq(Memory) /\ n = Len(data)
  BY DEF Memory, n
<1>14. /\ c \o data \in Seq(Memory) /\ Len(c \o data) = r + n
       /\ \A i \in 1..(r + n) : (c \o data)[i] = IF i <= r THEN c[i] ELSE data[i - r]
  <2>1. /\ c \o data \in Seq(Memory) /\ Len(c \o data) = Len(c) + Len(data)
        /\ \A i \in 1..(Len(c) + Len(data)) :
             (c \o data)[i] = IF i <= Len(c) THEN c[i] ELSE data[i - Len(c)]
    BY <1>2, <1>13, ConcatProperties
  <2> QED
    BY <1>2, <1>13, <2>1
<1>15. ASSUME NEW i \in 1..(r + n) PROVE new.mem[new.read + i] = (c \o data)[i]
  <2>1. CASE i <= r
    <3>1. obj.read + i \in 1..obj.write /\ i \in 1..r
      <4>1. obj.read \in Nat /\ obj.write = obj.read + r /\ r \in Nat /\ n \in Nat
        BY <1>1
      <4> QED
        BY <2>1, <4>1
    <3>2. mem[obj.read + i] = obj.mem[obj.read + i] /\ c[i] = obj.mem[obj.read + i]
      BY <1>2, <1>6, <3>1
    <3> QED
      BY <1>11, <1>14, <2>1, <3>2
  <2>2. CASE ~ (i <= r)
    <3>1. obj.read + i = obj.write + (i - r) /\ i - r \in 1..n
      <4>1. obj.read \in Nat /\ obj.write = obj.read + r /\ r \in Nat /\ n \in Nat
        BY <1>1
      <4>2. i \in Nat /\ i > r /\ i <= r + n
        BY <2>2, <4>1
      <4> QED
        BY <4>1, <4>2
    <3>2. mem[obj.read + i] = data[i - r]
      BY <1>6, <3>1
    <3> QED
      BY <1>11, <1>14, <2>2, <3>2
  <2> QED
    BY <2>1, <2>2
<1>16. Contents(new) = c \o data
  <2> DEFINE q == c \o data
  <2>1. q \in Seq(Memory) /\ Len(q) = ReadableBytes(new)
    BY <1>12, <1>14
  <2>2. \A i \in 1..ReadableBytes(new) : new.mem[new.read + i] = q[i]
    BY <1>12, <1>15
  <2> HIDE DEF q
  <2>3. Contents(new) = q
    BY <1>12, <2>1, <2>2, SameContents
  <2> QED
    BY <2>3 DEF q
<1> QED
  BY <1>11, <1>12, <1>16 DEF new, c, cap

\* Reading takes from the front, and from an object that was emptied nothing is lost.
LEMMA ReadIs ==
  ASSUME NEW obj, IndexedObject(obj), NEW size \in Nat
  PROVE  LET new == ReadBytes(obj, size)
             c == Contents(obj)
         IN  /\ IndexedObject(new)
             /\ Contents(new) = SubSeq(c, Smaller(size, Len(c)) + 1, Len(c))
             /\ CapacityBytes(new) = CapacityBytes(obj)
             /\ new.init = obj.init /\ new.expand = obj.expand
<1> DEFINE c == Contents(obj)
           r == ReadableBytes(obj)
           s == Smaller(size, r)
           q == SubSeq(c, s + 1, r)
           new == ReadBytes(obj, size)
<1>1. /\ obj.mem \in Seq(Memory) /\ CapacityBytes(obj) = Len(obj.mem) /\ CapacityBytes(obj) \in Nat
      /\ obj.init \in Nat /\ obj.expand \in Nat /\ obj.read \in Nat /\ obj.write \in Nat
      /\ obj.read <= obj.write /\ obj.write <= CapacityBytes(obj)
      /\ r = obj.write - obj.read /\ r \in Nat
  BY IndexedFacts
<1>2. obj = [mem |-> obj.mem, init |-> obj.init, expand |-> obj.expand,
             read |-> obj.read, write |-> obj.write]
  BY IndexedFacts DEF BufferType
<1>3. c \in Seq(Memory) /\ Len(c) = r /\ \A i \in 1..r : c[i] = obj.mem[obj.read + i]
  BY ContentsFacts
<1>4. s \in Nat /\ s <= r
  BY <1>1, SmallerIs
<1>5. new = IF obj.read + s = obj.write
            THEN [mem |-> obj.mem, init |-> obj.init, expand |-> obj.expand, read |-> 0, write |-> 0]
            ELSE [mem |-> obj.mem, init |-> obj.init, expand |-> obj.expand,
                  read |-> obj.read + s, write |-> obj.write]
  <2>1. new = IF obj.read + s = obj.write THEN [obj EXCEPT !.read = 0, !.write = 0]
              ELSE [obj EXCEPT !.read = obj.read + s]
    BY DEF ReadBytes
  <2> HIDE DEF new, s
  <2>2. [obj EXCEPT !.read = 0, !.write = 0]
          = [mem |-> obj.mem, init |-> obj.init, expand |-> obj.expand, read |-> 0, write |-> 0]
    <3> DEFINE x == 0
    <3> HIDE DEF x
    <3> DEFINE o == [obj EXCEPT !.read = x]
    <3>1. o = [mem |-> obj.mem, init |-> obj.init, expand |-> obj.expand, read |-> x, write |-> obj.write]
      BY IndexedFacts DEF BufferType
    <3>2. [obj EXCEPT !.read = x, !.write = x] = [o EXCEPT !.write = x]
      OBVIOUS
    <3> HIDE DEF o
    <3> QED
      BY <3>1, <3>2 DEF x
  <2>3. [obj EXCEPT !.read = obj.read + s]
          = [mem |-> obj.mem, init |-> obj.init, expand |-> obj.expand,
             read |-> obj.read + s, write |-> obj.write]
    <3> DEFINE x == obj.read + s
    <3> HIDE DEF x
    <3>1. [obj EXCEPT !.read = x]
            = [mem |-> obj.mem, init |-> obj.init, expand |-> obj.expand, read |-> x, write |-> obj.write]
      BY IndexedFacts DEF BufferType
    <3> QED
      BY <3>1 DEF x
  <2> QED
    BY <2>1, <2>2, <2>3
<1> HIDE DEF new, s, c, r
<1>6. q \in Seq(Memory) /\ Len(q) = r - s /\ \A i \in 1..(r - s) : q[i] = c[s + i]
  <2>1. \A i \in (s + 1)..r : c[i] \in Memory
    BY <1>1, <1>3, <1>4
  <2>2. s + 1 \in Int /\ r \in Int
    BY <1>1, <1>4
  <2>3. /\ q \in Seq(Memory) /\ Len(q) = IF s + 1 <= r THEN r - (s + 1) + 1 ELSE 0
        /\ \A i \in 1..(r - (s + 1) + 1) : q[i] = c[(s + 1) + i - 1]
    BY <2>1, <2>2, SubSeqProperties
  <2>4. Len(q) = r - s /\ r - (s + 1) + 1 = r - s
    BY <1>1, <1>4, <2>3
  <2>5. \A i \in 1..(r - s) : (s + 1) + i - 1 = s + i
    BY <1>1, <1>4
  <2> QED
    BY <2>3, <2>4, <2>5
<1> HIDE DEF q
<1>7. CASE obj.read + s = obj.write
  <2>1. /\ new.mem = obj.mem /\ new.init = obj.init /\ new.expand = obj.expand
        /\ new.read = 0 /\ new.write = 0
        /\ new \in [mem : Seq(Memory), init : Nat, expand : Nat, read : Nat, write : Nat]
    BY <1>1, <1>5, <1>7
  <2>2. IndexedObject(new) /\ CapacityBytes(new) = CapacityBytes(obj) /\ ReadableBytes(new) = 0
    BY <1>1, <2>1 DEF IndexedObject, BufferType, Memory, CapacityBytes, ReadableBytes
  <2>3. Len(q) = 0
    BY <1>1, <1>4, <1>6, <1>7
  <2>4. Len(q) = ReadableBytes(new) /\ \A i \in 1..ReadableBytes(new) : FALSE
    BY <2>2, <2>3
  <2>5. Contents(new) = q
    BY <1>6, <2>2, <2>4, SameContents
  <2> QED
    BY <1>3, <2>1, <2>2, <2>5 DEF new, q, s, c, r
<1>8. CASE obj.read + s # obj.write
  <2>1. /\ new.mem = obj.mem /\ new.init = obj.init /\ new.expand = obj.expand
        /\ new.read = obj.read + s /\ new.write = obj.write
        /\ new \in [mem : Seq(Memory), init : Nat, expand : Nat, read : Nat, write : Nat]
    BY <1>1, <1>4, <1>5, <1>8
  <2>2. IndexedObject(new) /\ CapacityBytes(new) = CapacityBytes(obj) /\ ReadableBytes(new) = r - s
    BY <1>1, <1>4, <1>8, <2>1 DEF IndexedObject, BufferType, Memory, CapacityBytes, ReadableBytes
  <2>3. ASSUME NEW i \in 1..ReadableBytes(new) PROVE new.mem[new.read + i] = q[i]
    <3>1. i \in 1..(r - s) /\ s + i \in 1..r /\ (obj.read + s) + i = obj.read + (s + i)
      BY <1>1, <1>4, <2>2
    <3>2. q[i] = c[s + i] /\ c[s + i] = obj.mem[obj.read + (s + i)]
      BY <1>3, <1>6, <3>1
    <3> QED
      BY <2>1, <3>1, <3>2
  <2>4. Contents(new) = q
    BY <1>6, <2>2, <2>3, SameContents
  <2> QED
    BY <1>3, <2>1, <2>2, <2>4 DEF new, q, s, c, r
<1> QED
  BY <1>7, <1>8

-----------------------------------------------------------------------------
(* Shrinking. *)

\* A vector in steps is no longer than any that can be allocated.
LEMMA SizedShort ==
  ASSUME BufferConstants, NEW obj, IndexedObject(obj), Usable(obj), SizedObject(obj)
  PROVE  CapacityBytes(obj) <= MaxVector
<1>1. MaxVector \in Nat /\ MaxReadable \in Nat /\ MaxChunk \in Nat
  BY DEF BufferConstants
<1>2. CapacityBytes(obj) \in Nat /\ obj.init \in Nat /\ obj.expand \in Nat
  BY IndexedFacts
<1> QED
  BY <1>1, <1>2 DEF Usable, SizedObject

\* The first branch of ReduceWritableBytes: there is room for what is unread, and a
\* vector that was in steps stays so.
LEMMA ReducedLess ==
  ASSUME BufferConstants, NEW obj, IndexedObject(obj), Usable(obj),
         ReadableBytes(obj) <= obj.init
  PROVE  /\ ReducedSize(obj) \in Nat /\ ReducedSize(obj) >= ReadableBytes(obj)
         /\ SizedObject(obj) => \E k \in Nat : /\ ReducedSize(obj) = obj.init + obj.expand * k
                                              /\ ReducedSize(obj) <= CapacityBytes(obj)
<1> DEFINE cap == CapacityBytes(obj)
           r == ReadableBytes(obj)
           i == obj.init
           e == obj.expand
           s == SizeRange
           x == (cap - i) % s
           k == (x \div e) \div 2
           size == ReducedSize(obj)
<1>1. /\ cap \in Nat /\ r \in Nat /\ i \in Nat /\ e \in Nat \ {0} /\ r <= i /\ i # 0
      /\ i <= MaxVector
  BY IndexedFacts DEF Usable
<1>2. s \in Nat /\ MaxVector \in Nat /\ 4 * MaxVector <= s
  BY DEF BufferConstants
<1>3. size = (i + k * e) % s
  BY DEF ReducedSize, KeptMultiple
<1>4. SizedObject(obj) => cap >= i /\ cap <= MaxVector
  BY SizedShort DEF SizedObject
<1> HIDE DEF cap, r, i, e, s, size
<1>5. s \in Nat \ {0} /\ 4 * i <= s
  BY <1>1, <1>2
<1>6. x \in Nat /\ x < s
  BY <1>1, <1>5
<1>7. cap >= i /\ cap <= MaxVector => x = cap - i
  <2> SUFFICES ASSUME cap >= i, cap <= MaxVector PROVE x = cap - i
    OBVIOUS
  <2>1. cap - i \in Nat /\ cap - i < s
    BY <1>1, <1>2
  <2> QED
    BY <1>5, <2>1, Wraps
<1> HIDE DEF x, k
<1>8. k \in Nat /\ e * k \in Nat /\ e * k <= x /\ size = i + e * k
  <2>1. k = (x \div e) \div 2
    BY DEF k
  <2>2. /\ x \div e \in Nat /\ x % e \in 0..(e - 1) /\ x = e * (x \div e) + (x % e)
        /\ k \in Nat /\ 2 * k <= x \div e
    BY <1>1, <1>6, <2>1, Division, Halves
  <2>3. PICK d \in Nat : d = x \div e
    BY <2>2
  <2>4. e * d \in Nat /\ x = e * d + (x % e)
    BY <1>1, <2>2, <2>3, ProductPositive
  <2>5. e * d <= x
    BY <1>6, <2>2, <2>4
  <2>6. e * k \in Nat /\ e * k <= x /\ (i + k * e) % s = i + e * k
    BY <1>1, <1>5, <1>6, <2>2, <2>3, <2>5, HalfKept
  <2> QED
    BY <1>3, <2>2, <2>6
<1>9. PICK m \in Nat : m = e * k
  BY <1>8
<1>10. size \in Nat /\ size >= r /\ (x = cap - i => size <= cap)
  BY <1>1, <1>6, <1>8, <1>9
<1> QED
  BY <1>4, <1>7, <1>8, <1>10 DEF size, i, e, cap, r

\* The second branch: a vector with room for what is unread that can be allocated is
\* in steps, and no longer than the one before, if that was so.
LEMMA ReducedMore ==
  ASSUME BufferConstants, NEW obj, IndexedObject(obj), Usable(obj),
         ReadableBytes(obj) > obj.init, ReadableBytes(obj) <= MaxReadable
  PROVE  /\ ReducedSize(obj) \in Nat
         /\ SizedObject(obj) /\ ReducedSize(obj) \in ReadableBytes(obj)..MaxVector
            => \E k \in Nat : /\ ReducedSize(obj) = obj.init + obj.expand * k
                             /\ ReducedSize(obj) <= CapacityBytes(obj)
<1> DEFINE cap == CapacityBytes(obj)
           r == ReadableBytes(obj)
           i == obj.init
           e == obj.expand
           s == SizeRange
           v == MaxVector
           n == cap - r
           a == n \div e
           p == (r - i + e) \div e
           d == a - p
           k == (d % s) \div 2
           size == ReducedSize(obj)
<1>1. /\ cap \in Nat /\ r \in Nat /\ i \in Nat \ {0} /\ e \in Nat \ {0} /\ r > i /\ r <= cap
      /\ i <= v
  BY IndexedFacts DEF Usable
<1>2. s \in Nat /\ s % 2 = 0 /\ v \in Nat /\ 4 * v <= s
  BY DEF BufferConstants
<1>3. r + e <= v
  <2>1. MaxReadable \in Nat /\ MaxChunk \in Nat
    BY DEF BufferConstants
  <2>2. r <= MaxReadable /\ MaxReadable + MaxChunk + e <= v
    BY DEF Usable
  <2> QED
    BY <1>1, <1>2, <2>1, <2>2
<1>4. size = (i + k * e) % s
  <2>1. KeptMultiple(obj) = k
    <3>1. ~ (r <= i)
      BY <1>1
    <3> QED
      BY <3>1 DEF KeptMultiple
  <2> QED
    BY <2>1 DEF ReducedSize
<1>5. SizedObject(obj) => cap <= v
  BY SizedShort
<1> HIDE DEF cap, r, i, e, s, v, size
<1>6. s \in Nat \ {0} /\ 4 * i <= s
  BY <1>1, <1>2
<1>7. a \in Nat /\ n \in Nat /\ n % e \in 0..(e - 1) /\ n = e * a + (n % e)
  <2>1. n \in Nat
    BY <1>1
  <2> QED
    BY <1>1, <2>1, Division
<1>8. /\ p \in Nat /\ r - i + e \in Nat
      /\ (r - i + e) % e \in 0..(e - 1) /\ r - i + e = e * p + ((r - i + e) % e)
  <2>1. r - i + e \in Nat
    BY <1>1
  <2> QED
    BY <1>1, <2>1, Division
<1> HIDE DEF n, a, p
<1>9. d \in Int /\ d % s \in 0..(s - 1) /\ k \in Nat
  <2>1. d \in Int
    BY <1>7, <1>8
  <2> HIDE DEF d
  <2>2. d % s \in 0..(s - 1)
    BY <1>6, <2>1
  <2> QED
    BY <1>6, <2>1, <2>2, Halves
<1> HIDE DEF k
<1>10. size \in Nat
  <2>1. k * e \in Nat
    BY <1>1, <1>9, ProductPositive
  <2>2. i + k * e \in Nat
    BY <1>1, <2>1
  <2> QED
    BY <1>4, <1>6, <2>2, Wraps
<1>11. CASE d >= 0
  <2>1. d \in Nat
    BY <1>9, <1>11
  <2>2. e * d <= n
    <3>1. a = d + p
      BY <1>7, <1>8
    <3> HIDE DEF d
    <3>2. e * a = e * d + e * p /\ e * d \in Nat /\ e * p \in Nat
      BY <1>1, <1>8, <2>1, <3>1, ProductPositive
    <3>3. PICK l \in Nat, o \in Nat : l = e * d /\ o = e * p
      BY <3>2
    <3>4. e * a = l + o
      BY <3>2, <3>3
    <3> QED
      BY <1>7, <3>3, <3>4
  <2>3. ASSUME cap <= v PROVE size = i + e * k /\ size <= cap
    <3>1. n < s
      BY <1>1, <1>2, <2>3 DEF n
    <3>2. d <= n /\ d < s
      <4> HIDE DEF d
      <4> QED
        BY <1>1, <1>6, <1>7, <2>1, <2>2, <3>1, Times
    <3>3. d % s = d
      <4> HIDE DEF d
      <4> QED
        BY <1>6, <2>1, <3>2, Wraps
    <3>4. 2 * k <= d
      BY <2>1, <3>3, Halves DEF k
    <3>5. e * k \in Nat /\ e * k <= n /\ (i + k * e) % s = i + e * k
      <4> HIDE DEF d
      <4> QED
        BY <1>1, <1>6, <1>7, <1>9, <2>1, <2>2, <3>1, <3>4, HalfKept
    <3>6. PICK m \in Nat : m = e * k
      BY <3>5
    <3> QED
      BY <1>1, <1>4, <3>5, <3>6 DEF n
  <2> QED
    BY <1>5, <1>9, <1>10, <2>3 DEF size, i, e, cap
<1>12. CASE ~ (d >= 0)
  <2> DEFINE q == p - a
  <2>1. q \in Nat /\ q >= 1 /\ d = 0 - q
    BY <1>7, <1>8, <1>12
  <2>2. i + e * q <= v
    <3>1. PICK l \in Nat : l = e * q
      BY <1>1, <2>1, ProductPositive
    <3>2. p = q + a
      BY <1>7, <1>8
    <3> HIDE DEF q
    <3>3. e * p = e * q + e * a /\ e * a \in Nat
      BY <1>1, <1>7, <2>1, <3>2, ProductPositive
    <3>4. PICK o \in Nat : o = e * a
      BY <3>3
    <3>5. e * p = l + o
      BY <3>1, <3>3, <3>4
    <3>6. l <= r - i + e
      BY <1>8, <3>5
    <3> QED
      BY <1>1, <1>2, <1>3, <3>1, <3>6
  <2>3. k = ((0 - q) % s) \div 2
    BY <2>1 DEF k
  <2> HIDE DEF q, d
  <2>4. size < i \/ size > v
    BY <1>1, <1>2, <1>4, <1>6, <2>1, <2>2, <2>3, KeptOfWrapped
  <2>5. ~ (size \in r..v)
    BY <1>1, <1>2, <1>10, <2>4
  <2> QED
    BY <1>10, <2>5 DEF size, r, v
<1> QED
  BY <1>11, <1>12

\* Moved to the vector of that size, an object keeps its contents, and its vector
\* stays in steps.
LEMMA ReduceIs ==
  ASSUME BufferConstants, NEW obj, IndexedObject(obj), Usable(obj), ReadableBytes(obj) <= MaxReadable,
         NEW size, size = ReducedSize(obj), size \in ReadableBytes(obj)..MaxVector,
         NEW new, new = Moved(obj, size)
  PROVE  /\ IndexedObject(new) /\ Contents(new) = Contents(obj)
         /\ new.init = obj.init /\ new.expand = obj.expand
         /\ SizedObject(obj) => SizedObject(new)
<1>1. /\ CapacityBytes(obj) \in Nat /\ ReadableBytes(obj) \in Nat
      /\ obj.init \in Nat /\ obj.expand \in Nat \ {0}
  BY IndexedFacts DEF Usable
<1>2. MaxReadable \in Nat /\ MaxChunk \in Nat
  BY DEF BufferConstants
<1>3. size \in Nat /\ size >= ReadableBytes(obj)
  BY <1>1
<1>4. /\ IndexedObject(new) /\ Contents(new) = Contents(obj) /\ CapacityBytes(new) = size
      /\ new.init = obj.init /\ new.expand = obj.expand
  BY <1>3, MovedIs
<1>5. ASSUME SizedObject(obj) PROVE SizedObject(new)
  <2>1. PICK k \in Nat : size = obj.init + obj.expand * k /\ size <= CapacityBytes(obj)
    BY <1>1, <1>5, ReducedLess, ReducedMore
  <2>2. InSteps(obj.init, obj.init, obj.expand)
    <3>1. obj.init - obj.init = 0
      BY <1>1
    <3> QED
      BY <1>1, <3>1, ZeroRemainder DEF InSteps
  <2>3. InSteps(size, obj.init, obj.expand)
    <3>1. obj.init \in Nat /\ obj.expand \in Nat \ {0} /\ obj.init >= obj.init
      BY <1>1
    <3> QED
      BY <2>1, <2>2, <3>1, MultipleAbove
  <2>4. size >= obj.init
    <3>1. obj.expand * k \in Nat
      BY <1>1, ProductPositive
    <3> QED
      BY <1>1, <2>1, <3>1
  <2>5. size = obj.init \/ size <= MaxReadable + MaxChunk + obj.expand
    <3>1. \/ CapacityBytes(obj) = obj.init
          \/ CapacityBytes(obj) <= MaxReadable + MaxChunk + obj.expand
      BY <1>5 DEF SizedObject
    <3>2. size <= CapacityBytes(obj)
      BY <2>1
    <3> QED
      BY <1>1, <1>2, <1>3, <2>4, <3>1, <3>2
  <2> QED
    BY <1>4, <2>3, <2>4, <2>5 DEF SizedObject, InSteps
<1> QED
  BY <1>4, <1>5

LEMMA SizedBy ==
  ASSUME NEW obj, SizedObject(obj), NEW new, CapacityBytes(new) = CapacityBytes(obj),
         new.init = obj.init, new.expand = obj.expand
  PROVE  SizedObject(new)
BY DEF SizedObject

LEMMA SwappedIs ==
  ASSUME NEW obj, IndexedObject(obj), NEW other, IndexedObject(other)
  PROVE  LET new == SwapWith(obj, other)
         IN  /\ IndexedObject(new) /\ Contents(new) = Contents(other)
             /\ CapacityBytes(new) = CapacityBytes(other)
             /\ new.init = obj.init /\ new.expand = other.expand
<1> DEFINE new == SwapWith(obj, other)
           i == obj.init
<1>1. i \in Nat
  BY IndexedFacts
<1>2. new = [other EXCEPT !.init = i]
  BY DEF SwapWith
<1> HIDE DEF i, new
<1>3. /\ new \in BufferType /\ new.mem = other.mem /\ new.init = i /\ new.expand = other.expand
      /\ new.read = other.read /\ new.write = other.write
  BY <1>1, <1>2 DEF IndexedObject, BufferType
<1>4. IndexedObject(new) /\ CapacityBytes(new) = CapacityBytes(other)
  BY <1>3 DEF IndexedObject, CapacityBytes
<1>5. Contents(new) = Contents(other)
  BY <1>3 DEF Contents
<1> QED
  BY <1>3, <1>4, <1>5 DEF new, i

-----------------------------------------------------------------------------
(* The objects in use. *)

\* The inductive invariant: Indexed, ContentsKept and ReducedSafely with what they
\* need, that an object has sizes it can grow with and that nobody left more than
\* MaxReadable in it.
IInv ==
  /\ buf \in [Buffers -> BufferType]
  /\ queue \in [Buffers -> Seq(Bytes)]
  /\ \A b \in Buffers : Usable(buf[b]) /\ Len(queue[b]) <= MaxReadable
  /\ Indexed
  /\ ContentsKept
  /\ overrun \subseteq Buffers /\ ReducedSafely

\* Sized, for objects that have the same sizes.
SizesKept ==
  /\ \A b \in Buffers : SizedObject(buf[b])
  /\ \A b, c \in Buffers : buf[b].init = buf[c].init /\ buf[b].expand = buf[c].expand

\* The program makes all its objects with the same sizes.
SameSizes == \A sizes \in Sizes : \A b, c \in Buffers : sizes[b] = sizes[c]

LEMMA ChunksAre ==
  ASSUME BufferConstants, NEW data \in Chunks
  PROVE  data \in Seq(Bytes) /\ Len(data) \in Nat /\ Len(data) <= MaxChunk
<1>1. PICK m \in 0..MaxChunk : data \in [1..m -> Bytes]
  BY DEF Chunks, BoundedSeq, SeqOf
<1>2. m \in Nat /\ m <= MaxChunk
  BY <1>1 DEF BufferConstants
<1> QED
  BY <1>1, <1>2

LEMMA InUse ==
  ASSUME IInv, NEW b \in Buffers
  PROVE  /\ IndexedObject(buf[b]) /\ Usable(buf[b]) /\ buf[b].expand # 0
         /\ queue[b] \in Seq(Bytes) /\ Contents(buf[b]) = queue[b]
         /\ ReadableBytes(buf[b]) = Len(queue[b]) /\ Len(queue[b]) <= MaxReadable
<1>1. IndexedObject(buf[b]) /\ Usable(buf[b]) /\ Contents(buf[b]) = queue[b]
      /\ queue[b] \in Seq(Bytes) /\ Len(queue[b]) <= MaxReadable
  BY DEF IInv, Indexed, IndexedObject, ContentsKept
<1>2. Len(Contents(buf[b])) = ReadableBytes(buf[b])
  BY <1>1, ContentsFacts
<1> QED
  BY <1>1, <1>2 DEF Usable

\* A step that puts a new object and a new queue in one place.
LEMMA OneChanges ==
  ASSUME IInv, NEW b \in Buffers, NEW new, NEW q \in Seq(Bytes),
         IndexedObject(new), Contents(new) = q, Len(q) <= MaxReadable,
         new.init = buf[b].init, new.expand = buf[b].expand, SizedObject(buf[b]) => SizedObject(new),
         buf' = [buf EXCEPT ![b] = new], queue' = [queue EXCEPT ![b] = q], overrun' = {}
  PROVE  IInv' /\ (SizesKept => SizesKept')
<1>1. new \in BufferType
  BY DEF IndexedObject
<1>2. buf' \in [Buffers -> BufferType] /\ queue' \in [Buffers -> Seq(Bytes)]
  BY <1>1 DEF IInv
<1>3. buf'[b] = new /\ queue'[b] = q
  BY DEF IInv
<1>4. \A c \in Buffers \ {b} : buf'[c] = buf[c] /\ queue'[c] = queue[c]
  BY DEF IInv
<1>5. ASSUME NEW c \in Buffers
      PROVE  /\ IndexedObject(buf'[c]) /\ Usable(buf'[c]) /\ Contents(buf'[c]) = queue'[c]
             /\ Len(queue'[c]) <= MaxReadable
             /\ buf'[c].init = buf[c].init /\ buf'[c].expand = buf[c].expand
             /\ SizedObject(buf[c]) => SizedObject(buf'[c])
  <2>1. CASE c = b
    <3>1. Usable(new)
      BY InUse DEF Usable
    <3> QED
      BY <1>3, <2>1, <3>1
  <2>2. CASE c # b
    BY <1>4, <2>2, InUse
  <2> QED
    BY <2>1, <2>2
<1>6. Indexed'
  BY <1>5 DEF Indexed, IndexedObject, CapacityBytes
<1>7. ContentsKept'
  BY <1>5 DEF ContentsKept, Contents
<1>8. IInv'
  BY <1>2, <1>5, <1>6, <1>7 DEF IInv, Usable, ReducedSafely
<1>9. SizesKept => SizesKept'
  <2> SUFFICES ASSUME SizesKept PROVE SizesKept'
    OBVIOUS
  <2>1. \A c \in Buffers : SizedObject(buf'[c])
    BY <1>5 DEF SizesKept
  <2>2. \A c, d \in Buffers : buf'[c].init = buf'[d].init /\ buf'[c].expand = buf'[d].expand
    BY <1>5 DEF SizesKept
  <2> QED
    BY <2>1, <2>2 DEF SizesKept, SizedObject, CapacityBytes
<1> QED
  BY <1>8, <1>9

LEMMA BufferInit == BufferConstants /\ Init => IInv /\ (SameSizes => SizesKept)
<1> SUFFICES ASSUME BufferConstants, Init PROVE IInv /\ (SameSizes => SizesKept)
  OBVIOUS
<1>1. PICK sizes \in Sizes : buf = [b \in Buffers |-> New(sizes[b])]
  BY DEF Init
<1>2. ASSUME NEW b \in Buffers
      PROVE  /\ queue[b] = <<>> /\ IndexedObject(buf[b]) /\ Contents(buf[b]) = queue[b]
             /\ SizedObject(buf[b]) /\ buf[b].init = sizes[b].init /\ buf[b].expand = sizes[b].expand
             /\ buf[b] \in BufferType /\ Usable(buf[b])
  <2>1. buf[b] = New(sizes[b]) /\ queue[b] = <<>>
    BY <1>1 DEF Init
  <2>2. sizes[b] \in [init : Nat \ {0}, expand : Nat \ {0}]
    BY <1>1 DEF BufferConstants
  <2>3. /\ IndexedObject(buf[b]) /\ SizedObject(buf[b]) /\ Contents(buf[b]) = queue[b]
        /\ buf[b].init = sizes[b].init /\ buf[b].expand = sizes[b].expand
    BY <2>1, <2>2, NewIs
  <2>4. Usable(buf[b])
    <3>1. /\ sizes[b].init <= MaxVector /\ MaxReadable + MaxChunk + sizes[b].expand <= MaxVector
          /\ sizes[b].init # 0 /\ sizes[b].expand # 0
      BY <1>1, <2>2 DEF BufferConstants
    <3> QED
      BY <2>3, <3>1 DEF Usable
  <2> QED
    BY <2>1, <2>3, <2>4 DEF IndexedObject
<1>3. buf \in [Buffers -> BufferType] /\ queue \in [Buffers -> Seq(Bytes)]
  <2>1. queue \in [Buffers -> Seq(Bytes)]
    BY DEF Init
  <2>2. buf = [b \in Buffers |-> buf[b]]
    BY <1>1
  <2>3. buf \in [Buffers -> BufferType]
    BY <1>2, <2>2
  <2> QED
    BY <2>1, <2>3
<1>4. \A b \in Buffers : Len(queue[b]) <= MaxReadable
  BY <1>2 DEF BufferConstants
<1>5. Indexed /\ ContentsKept
  BY <1>2 DEF Indexed, IndexedObject, ContentsKept
<1>6. overrun \subseteq Buffers /\ ReducedSafely
  BY DEF Init, ReducedSafely
<1>7. IInv
  BY <1>2, <1>3, <1>4, <1>5, <1>6 DEF IInv
<1>8. SameSizes => SizesKept
  BY <1>1, <1>2 DEF SizesKept, SameSizes
<1> QED
  BY <1>7, <1>8

\* AppendBytes and Receive alike: room is made, and the data is written into it.
LEMMA AddedTo ==
  ASSUME BufferConstants, IInv, NEW b \in Buffers, NEW data \in Chunks, NEW size \in Nat,
         size <= MaxChunk, Len(data) <= WritableBytes(ReserveWritableBytes(buf[b], size)),
         Added(b, data), overrun = {},
         buf' = [buf EXCEPT ![b] = WrittenBytes(Put(ReserveWritableBytes(buf[b], size), data), Len(data))]
  PROVE  IInv' /\ (SizesKept => SizesKept')
<1> DEFINE room == ReserveWritableBytes(buf[b], size)
           new == WrittenBytes(Put(room, data), Len(data))
           q == queue[b] \o data
<1>1. /\ IndexedObject(buf[b]) /\ buf[b].expand # 0 /\ queue[b] \in Seq(Bytes)
      /\ Contents(buf[b]) = queue[b] /\ ReadableBytes(buf[b]) <= MaxReadable
  BY InUse
<1>2. data \in Seq(Bytes)
  BY ChunksAre
<1>3. MaxChunk \in Nat /\ MaxReadable \in Nat
  BY DEF BufferConstants
<1>4. /\ IndexedObject(room) /\ Contents(room) = queue[b]
      /\ room.init = buf[b].init /\ room.expand = buf[b].expand
      /\ SizedObject(buf[b]) => SizedObject(room)
  BY <1>1, <1>3, ReserveIs
<1>5. buf' = [buf EXCEPT ![b] = new] /\ queue' = [queue EXCEPT ![b] = q] /\ Len(data) <= WritableBytes(room)
      /\ Len(queue[b]) + Len(data) <= MaxReadable
  BY DEF Added
<1> HIDE DEF room
<1>6. /\ IndexedObject(new) /\ Contents(new) = q /\ CapacityBytes(new) = CapacityBytes(room)
      /\ new.init = buf[b].init /\ new.expand = buf[b].expand
  <2>1. /\ IndexedObject(new) /\ Contents(new) = Contents(room) \o data
        /\ CapacityBytes(new) = CapacityBytes(room)
        /\ new.init = room.init /\ new.expand = room.expand
    BY <1>2, <1>4, <1>5, WrittenIs
  <2> HIDE DEF new
  <2> QED
    BY <1>4, <2>1
<1>7. q \in Seq(Bytes) /\ Len(q) <= MaxReadable
  BY <1>1, <1>2, <1>5
<1> HIDE DEF new, q
<1>8. SizedObject(buf[b]) => SizedObject(new)
  BY <1>4, <1>6, SizedBy
<1>9. overrun' = {}
  BY DEF Added
<1> QED
  BY <1>1, <1>5, <1>6, <1>7, <1>8, <1>9, OneChanges

LEMMA AppendKeeps ==
  ASSUME BufferConstants, IInv, NEW b \in Buffers, NEW data \in Chunks, AppendTo(b, data),
         overrun = {}
  PROVE  IInv' /\ (SizesKept => SizesKept')
<1>1. Len(data) \in Nat /\ Len(data) <= MaxChunk
  BY ChunksAre
<1>2. IndexedObject(buf[b]) /\ buf[b].expand # 0
  BY InUse
<1>3. Len(data) <= WritableBytes(ReserveWritableBytes(buf[b], Len(data)))
  <2> DEFINE room == WritableBytes(ReserveWritableBytes(buf[b], Len(data)))
  <2>1. room >= Len(data)
    BY <1>1, <1>2, ReserveIs
  <2>2. room \in Nat
    BY <1>1, <1>2, ReserveIs, IndexedFacts
  <2> HIDE DEF room
  <2>3. Len(data) <= room
    BY <1>1, <2>1, <2>2
  <2> QED
    BY <2>3 DEF room
<1>4. /\ Added(b, data)
      /\ buf' = [buf EXCEPT ![b] =
                  WrittenBytes(Put(ReserveWritableBytes(buf[b], Len(data)), data), Len(data))]
  BY DEF AppendTo, AppendBytes
<1> QED
  BY <1>1, <1>3, <1>4, AddedTo

LEMMA ReceiveKeeps ==
  ASSUME BufferConstants, IInv, NEW b \in Buffers, NEW data \in Chunks, NEW size \in 1..MaxChunk,
         Receive(b, size, data),
         overrun = {}
  PROVE  IInv' /\ (SizesKept => SizesKept')
<1>1. size \in Nat /\ size <= MaxChunk
  BY DEF BufferConstants
<1>2. /\ Added(b, data) /\ Len(data) <= WritableBytes(ReserveWritableBytes(buf[b], size))
      /\ buf' = [buf EXCEPT ![b] =
                  WrittenBytes(Put(ReserveWritableBytes(buf[b], size), data), Len(data))]
  BY DEF Receive
<1> QED
  BY <1>1, <1>2, AddedTo

LEMMA ConsumeKeeps ==
  ASSUME BufferConstants, IInv, NEW b \in Buffers, NEW size \in 0..(MaxReadable + 1), Consume(b, size),
         overrun = {}
  PROVE  IInv' /\ (SizesKept => SizesKept')
<1> DEFINE new == ReadBytes(buf[b], size)
           n == Len(queue[b])
           s == Smaller(size, n)
           q == SubSeq(queue[b], s + 1, n)
<1>1. /\ IndexedObject(buf[b]) /\ buf[b].expand # 0 /\ queue[b] \in Seq(Bytes)
      /\ Contents(buf[b]) = queue[b] /\ n <= MaxReadable
  BY InUse
<1>2. size \in Nat
  BY DEF BufferConstants
<1>3. buf' = [buf EXCEPT ![b] = new] /\ queue' = [queue EXCEPT ![b] = q]
  BY <1>1 DEF Consume, IInv
<1>4. /\ IndexedObject(new) /\ Contents(new) = q /\ CapacityBytes(new) = CapacityBytes(buf[b])
      /\ new.init = buf[b].init /\ new.expand = buf[b].expand
  <2>1. /\ IndexedObject(new)
        /\ Contents(new) = SubSeq(Contents(buf[b]), Smaller(size, Len(Contents(buf[b]))) + 1,
                                  Len(Contents(buf[b])))
        /\ CapacityBytes(new) = CapacityBytes(buf[b])
        /\ new.init = buf[b].init /\ new.expand = buf[b].expand
    BY <1>1, <1>2, ReadIs
  <2> HIDE DEF new
  <2> QED
    BY <1>1, <2>1
<1>5. q \in Seq(Bytes) /\ Len(q) <= MaxReadable
  <2>1. n \in Nat /\ MaxReadable \in Nat
    BY <1>1 DEF BufferConstants
  <2>2. s \in Nat /\ s <= n
    BY <1>2, <2>1, SmallerIs
  <2>3. \A i \in (s + 1)..n : queue[b][i] \in Bytes
    <3> HIDE DEF s
    <3> QED
      BY <1>1, <2>2
  <2> HIDE DEF s
  <2>4. s + 1 \in Int /\ n \in Int
    BY <2>1, <2>2
  <2> HIDE DEF n
  <2>5. q \in Seq(Bytes) /\ Len(q) = IF s + 1 <= n THEN n - (s + 1) + 1 ELSE 0
    BY <2>3, <2>4, SubSeqProperties
  <2> QED
    BY <1>1, <2>1, <2>2, <2>5
<1> HIDE DEF new, q
<1>6. SizedObject(buf[b]) => SizedObject(new)
  BY <1>4, SizedBy
<1>7. overrun' = {}
  BY DEF Consume
<1> QED
  BY <1>1, <1>3, <1>4, <1>5, <1>6, <1>7, OneChanges

LEMMA ReduceKeeps ==
  ASSUME BufferConstants, IInv, NEW b \in Buffers, Reduce(b), overrun = {}
  PROVE  IInv' /\ (SizesKept => SizesKept')
<1> DEFINE size == ReducedSize(buf[b])
           q == queue[b]
<1>1. /\ IndexedObject(buf[b]) /\ Usable(buf[b]) /\ q \in Seq(Bytes)
      /\ Contents(buf[b]) = q /\ Len(q) <= MaxReadable /\ ReadableBytes(buf[b]) <= MaxReadable
  BY InUse
<1>2. queue' = queue /\ queue' = [queue EXCEPT ![b] = q]
  BY DEF Reduce, IInv
<1>3. CASE size > MaxVector /\ UNCHANGED <<buf, overrun>>
  BY <1>2, <1>3
  DEF IInv, Indexed, ContentsKept, ReducedSafely, Contents, CapacityBytes, ReadableBytes,
      SizesKept, SizedObject, Usable
<1>4. CASE /\ size \in ReadableBytes(buf[b])..MaxVector
           /\ buf' = [buf EXCEPT ![b] = Moved(@, size)]
           /\ UNCHANGED overrun
  <2> DEFINE new == Moved(buf[b], size)
  <2>1. buf' = [buf EXCEPT ![b] = new] /\ overrun' = {}
    BY <1>4 DEF IInv
  <2>2. size \in ReadableBytes(buf[b])..MaxVector
    BY <1>4
  <2> HIDE DEF size
  <2>3. /\ IndexedObject(new) /\ Contents(new) = Contents(buf[b])
        /\ new.init = buf[b].init /\ new.expand = buf[b].expand
        /\ SizedObject(buf[b]) => SizedObject(new)
    BY <1>1, <2>2, ReduceIs DEF size
  <2> HIDE DEF new, q
  <2> QED
    BY <1>1, <1>2, <2>1, <2>3, OneChanges
<1>5. CASE size < ReadableBytes(buf[b]) /\ overrun' = {b} /\ UNCHANGED buf
  <2>1. /\ buf[b].init \in Nat /\ ReadableBytes(buf[b]) \in Nat
    BY <1>1, IndexedFacts
  <2>2. ReadableBytes(buf[b]) > buf[b].init
    <3> SUFFICES ASSUME ReadableBytes(buf[b]) <= buf[b].init PROVE FALSE
      BY <2>1
    <3>1. size \in Nat /\ size >= ReadableBytes(buf[b])
      BY <1>1, ReducedLess
    <3> QED
      BY <1>5, <2>1, <3>1
  <2>3. ReducedSafely'
    BY <1>5, <2>2 DEF ReducedSafely, ReadableBytes
  <2> QED
    BY <1>2, <1>5, <2>3
    DEF IInv, Indexed, ContentsKept, Contents, CapacityBytes, SizesKept, SizedObject, Usable
<1> QED
  BY <1>3, <1>4, <1>5 DEF Reduce

\* Swap exchanges everything but the size an object was made with, which makes no
\* difference when all have the same.
LEMMA SwapKeeps ==
  ASSUME BufferConstants, IInv, NEW b \in Buffers, NEW c \in Buffers \ {b}, Swap(b, c),
         overrun = {}
  PROVE  IInv' /\ (SizesKept => SizesKept')
<1> DEFINE x == SwapWith(buf[b], buf[c])
           y == SwapWith(buf[c], buf[b])
<1>1. /\ IndexedObject(buf[b]) /\ Usable(buf[b]) /\ queue[b] \in Seq(Bytes)
      /\ Contents(buf[b]) = queue[b] /\ Len(queue[b]) <= MaxReadable
  BY InUse
<1>2. /\ IndexedObject(buf[c]) /\ Usable(buf[c]) /\ queue[c] \in Seq(Bytes)
      /\ Contents(buf[c]) = queue[c] /\ Len(queue[c]) <= MaxReadable
  BY InUse
<1>3. /\ IndexedObject(x) /\ Contents(x) = Contents(buf[c]) /\ CapacityBytes(x) = CapacityBytes(buf[c])
      /\ x.init = buf[b].init /\ x.expand = buf[c].expand
  BY <1>1, <1>2, SwappedIs
<1>4. /\ IndexedObject(y) /\ Contents(y) = Contents(buf[b]) /\ CapacityBytes(y) = CapacityBytes(buf[b])
      /\ y.init = buf[c].init /\ y.expand = buf[b].expand
  BY <1>1, <1>2, SwappedIs
<1>5. /\ buf' = [buf EXCEPT ![b] = x, ![c] = y]
      /\ queue' = [queue EXCEPT ![b] = queue[c], ![c] = queue[b]]
  BY DEF Swap
<1> HIDE DEF x, y
<1>6. /\ buf'[b] = x /\ buf'[c] = y /\ queue'[b] = queue[c] /\ queue'[c] = queue[b]
      /\ \A d \in Buffers \ {b, c} : buf'[d] = buf[d] /\ queue'[d] = queue[d]
      /\ overrun' = {}
  BY <1>5 DEF IInv, Swap
<1>7. buf' \in [Buffers -> BufferType] /\ queue' \in [Buffers -> Seq(Bytes)]
  BY <1>1, <1>2, <1>3, <1>4, <1>5 DEF IInv, IndexedObject
<1>8. ASSUME NEW d \in Buffers
      PROVE  /\ IndexedObject(buf'[d]) /\ Usable(buf'[d]) /\ Contents(buf'[d]) = queue'[d]
             /\ Len(queue'[d]) <= MaxReadable
  <2>1. CASE d = b
    BY <1>1, <1>2, <1>3, <1>6, <2>1 DEF Usable
  <2>2. CASE d = c
    BY <1>1, <1>2, <1>4, <1>6, <2>2 DEF Usable
  <2>3. CASE d \notin {b, c}
    <3>1. buf'[d] = buf[d] /\ queue'[d] = queue[d]
      BY <1>6, <2>3
    <3> QED
      BY <3>1, InUse
  <2> QED
    BY <2>1, <2>2, <2>3
<1>9. IInv'
  <2>1. Indexed'
    BY <1>8 DEF Indexed, IndexedObject, CapacityBytes
  <2>2. ContentsKept'
    BY <1>8 DEF ContentsKept, Contents
  <2> QED
    BY <1>6, <1>7, <1>8, <2>1, <2>2 DEF IInv, Usable, ReducedSafely
<1>10. ASSUME SizesKept PROVE SizesKept'
  <2>1. /\ SizedObject(buf[b]) /\ SizedObject(buf[c])
        /\ buf[b].init = buf[c].init /\ buf[b].expand = buf[c].expand
    BY <1>10 DEF SizesKept
  <2>2. SizedObject(x) /\ SizedObject(y)
    BY <1>3, <1>4, <2>1, SizedBy
  <2>3. ASSUME NEW d \in Buffers
        PROVE  SizedObject(buf'[d]) /\ buf'[d].init = buf[d].init /\ buf'[d].expand = buf[d].expand
    <3>1. CASE d = b
      BY <1>3, <1>6, <2>1, <2>2, <3>1
    <3>2. CASE d = c
      BY <1>4, <1>6, <2>1, <2>2, <3>2
    <3>3. CASE d \notin {b, c}
      BY <1>6, <1>10, <3>3 DEF SizesKept
    <3> QED
      BY <3>1, <3>2, <3>3
  <2>4. \A d, f \in Buffers : buf'[d].init = buf'[f].init /\ buf'[d].expand = buf'[f].expand
    BY <1>10, <2>3 DEF SizesKept
  <2> QED
    BY <2>3, <2>4 DEF SizesKept, SizedObject, CapacityBytes
<1> QED
  BY <1>9, <1>10

LEMMA BufferStep ==
  ASSUME BufferConstants, IInv, [Next]_vars
  PROVE  IInv' /\ (SizesKept => SizesKept')
<1>1. ASSUME overrun = {}, NEW b \in Buffers, NEW data \in Chunks, AppendTo(b, data)
      PROVE  IInv' /\ (SizesKept => SizesKept')
  BY <1>1, AppendKeeps
<1>2. ASSUME overrun = {}, NEW b \in Buffers, NEW size \in 1..MaxChunk, NEW data \in Chunks,
             Receive(b, size, data)
      PROVE  IInv' /\ (SizesKept => SizesKept')
  BY <1>2, ReceiveKeeps
<1>3. ASSUME overrun = {}, NEW b \in Buffers, NEW size \in 0..(MaxReadable + 1), Consume(b, size)
      PROVE  IInv' /\ (SizesKept => SizesKept')
  BY <1>3, ConsumeKeeps
<1>4. ASSUME overrun = {}, NEW b \in Buffers, Reduce(b)
      PROVE  IInv' /\ (SizesKept => SizesKept')
  BY <1>4, ReduceKeeps
<1>5. ASSUME overrun = {}, NEW b \in Buffers, NEW c \in Buffers \ {b}, Swap(b, c)
      PROVE  IInv' /\ (SizesKept => SizesKept')
  BY <1>5, SwapKeeps
<1>6. ASSUME UNCHANGED vars
      PROVE  IInv' /\ (SizesKept => SizesKept')
  <2>1. buf' = buf /\ queue' = queue /\ overrun' = overrun
    BY <1>6 DEF vars
  <2> QED
    BY <2>1
    DEF IInv, Indexed, ContentsKept, ReducedSafely, Contents, CapacityBytes, ReadableBytes,
        SizesKept, SizedObject, Usable
<1> QED
  BY <1>1, <1>2, <1>3, <1>4, <1>5, <1>6 DEF Next

-----------------------------------------------------------------------------
(* The theorems. *)

\* What reading gives is what was added, in order, and the indexes stay in the
\* vector, whatever the sizes of the objects are and however AppendBytes, the reads
\* of a socket, ReadBytes, ReduceWritableBytes and Swap follow each other; and
\* ReduceWritableBytes, whose size_t arithmetic may wrap, writes behind a vector only
\* when more is unread than init_size_.
THEOREM ContentsCorrect ==
  ASSUME BufferConstants
  PROVE  Spec => [](Indexed /\ ContentsKept /\ ReducedSafely)
<1>1. Init => IInv
  BY BufferInit
<1>2. IInv /\ [Next]_vars => IInv'
  BY BufferStep
<1>3. IInv => Indexed /\ ContentsKept /\ ReducedSafely
  BY DEF IInv
<1> QED
  BY <1>1, <1>2, <1>3, PTL DEF Spec

\* Every vector is init_size_ and a multiple of expand_size_ and no larger than the
\* unread bytes, the chunk at hand and a step: what ReserveWritableBytes,
\* ReduceWritableBytes and Swap promise, for objects made with the same sizes.  A
\* vector whose size wrapped cannot be allocated or cannot take what is unread.
THEOREM SizedCorrect ==
  ASSUME BufferConstants, SameSizes
  PROVE  Spec => []Sized
<1>1. Init => IInv /\ SizesKept
  BY BufferInit
<1>2. IInv /\ SizesKept /\ [Next]_vars => IInv' /\ SizesKept'
  BY BufferStep
<1>3. SizesKept => Sized
  BY DEF SizesKept, Sized, SizedObject
<1> QED
  BY <1>1, <1>2, <1>3, PTL DEF Spec

=============================================================================
