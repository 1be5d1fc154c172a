------------------------- MODULE MessageQueueProofs -------------------------
(***************************************************************************)
(* Proofs about MessageQueue, for any number of producers, messages and    *)
(* timer settings.                                                         *)
(***************************************************************************)
EXTENDS MessageQueue, SequenceTheorems, TLAPS

-----------------------------------------------------------------------------
(* Sequences. *)

\* Moving the head of the second part to the end of the first one changes nothing.
LEMMA MoveHead ==
  ASSUME NEW S, NEW s \in Seq(S), NEW t \in Seq(S), t # <<>>
  PROVE  Append(s, Head(t)) \o Tail(t) = s \o t
OBVIOUS

\* The first of three parts of a sequence is a prefix of it.
LEMMA FirstPart ==
  ASSUME NEW S, NEW s \in Seq(S), NEW t \in Seq(S), NEW u \in Seq(S)
  PROVE  StartsWith((s \o t) \o u, s)
BY DEF StartsWith

\* After the first part comes the head of the second one.
LEMMA NextOfParts ==
  ASSUME NEW S, NEW s \in Seq(S), NEW t \in Seq(S), NEW u \in Seq(S), t # <<>>
  PROVE  /\ Len(s) < Len((s \o t) \o u)
         /\ ((s \o t) \o u)[Len(s) + 1] = Head(t)
OBVIOUS

-----------------------------------------------------------------------------
(* Types. *)

\* The interval chosen for the timer lies between 0 and the maximum, also when
\* the 32-bit computation wraps.
LEMMA NextExpiredBounded ==
  ASSUME NEW num \in Nat, NEW distance \in Nat, NEW expired \in Nat
  PROVE  NextExpired(num, distance, expired) \in 0..MaxExpire
<1>1. (expired * 2 + 1) % Width \in Nat
  BY MessageQueueAssumption
<1>2. CASE num = 0
  BY <1>1, <1>2, MessageQueueAssumption DEF NextExpired
<1>3. CASE num # 0
  <2>1. distance \div num + 1 \in Nat
    BY <1>3
  <2>2. (distance \div num + 1) % Width \in Nat
    BY <2>1, MessageQueueAssumption
  <2> QED BY <1>3, <2>2, MessageQueueAssumption DEF NextExpired
<1> QED BY <1>2, <1>3

LEMMA TypeInit == Init => TypeOK
<1> SUFFICES ASSUME Init PROVE TypeOK
  OBVIOUS
<1>1. pendingReadExpired \in 0..MaxExpire
  BY NextExpiredBounded, MessageQueueAssumption DEF Init
<1>2. <<>> \in Seq(Elements)
  OBVIOUS
<1>3. buffer \in [Buffers -> Seq(Elements)] /\ producer \in Buffers /\ consumer \in Buffers
  BY <1>2 DEF Init, Buffers
<1>4. /\ pc \in [Producers -> {"idle", "counted", "locked"}]
      /\ element \in [Producers -> Elements \union {<<>>}]
      /\ target \in [Producers -> Buffers]
      /\ \A p \in Producers : pc[p] = "idle"
  BY DEF Init, Buffers
<1>5. pushes \in 0..MaxPush /\ pendingReadNum \in Nat
  BY MessageQueueAssumption DEF Init
<1>6. pushed \in Seq(Elements) /\ delivered \in Seq(Elements)
  BY <1>2 DEF Init
<1> QED BY <1>1, <1>3, <1>4, <1>5, <1>6 DEF Init, TypeOK

LEMMA TypeStep == TypeOK /\ [Next]_vars => TypeOK'
<1> SUFFICES ASSUME TypeOK, [Next]_vars PROVE TypeOK'
  OBVIOUS
<1> USE DEF TypeOK, pushVars, bufferVars, timerVars, Buffers
<1>1. ASSUME NEW p \in Producers, PushCount(p) PROVE TypeOK'
  <2>1. pushes + 1 \in 1..MaxPush
    BY <1>1, MessageQueueAssumption DEF PushCount
  <2>2. PICK n \in Sizes : element' = [element EXCEPT ![p] = [size |-> n, push |-> pushes + 1]]
    BY <1>1 DEF PushCount
  <2>3. [size |-> n, push |-> pushes + 1] \in Elements
    BY <2>1 DEF Elements
  <2> QED BY <1>1, <2>1, <2>2, <2>3 DEF PushCount
<1>2. ASSUME NEW p \in Producers, PushLock(p) PROVE TypeOK'
  BY <1>2 DEF PushLock
<1>3. ASSUME NEW p \in Producers, PushWrite(p) PROVE TypeOK'
  <2>1. element[p] \in Elements
    BY <1>3 DEF PushWrite
  <2>2. Append(buffer[target[p]], element[p]) \in Seq(Elements)
    BY <2>1, AppendProperties
  <2>3. Append(pushed, element[p]) \in Seq(Elements)
    BY <2>1, AppendProperties
  <2> QED BY <1>3, <2>2, <2>3 DEF PushWrite
<1>4. ASSUME ReadStart PROVE TypeOK'
  <2>1. PICK distance \in IF readBefore THEN Distances ELSE {EpochDistance} :
          pendingReadExpired' = NextExpired(pendingReadNum, distance, pendingReadExpired)
    BY <1>4 DEF ReadStart, SetPendingReadTimer
  <2>2. distance \in Nat
    BY MessageQueueAssumption
  <2>3. pendingReadExpired \in Nat
    BY MessageQueueAssumption
  <2>4. pendingReadExpired' \in 0..MaxExpire
    BY <2>1, <2>2, <2>3, NextExpiredBounded
  <2> QED BY <1>4, <2>4 DEF ReadStart, SetPendingReadTimer
<1>5. ASSUME ReadReset PROVE TypeOK'
  BY <1>5 DEF ReadReset
<1>6. ASSUME ReadPop PROVE TypeOK'
  <2>1. /\ Head(buffer[consumer]) \in Elements
        /\ Tail(buffer[consumer]) \in Seq(Elements)
    BY <1>6, HeadTailProperties DEF ReadPop
  <2>2. Append(delivered, Head(buffer[consumer])) \in Seq(Elements)
    BY <2>1, AppendProperties
  <2> QED BY <1>6, <2>1, <2>2 DEF ReadPop
<1>7. ASSUME ReadEmpty PROVE TypeOK'
  BY <1>7 DEF ReadEmpty
<1>8. ASSUME Exchange PROVE TypeOK'
  BY <1>8 DEF Exchange
<1>9. CASE UNCHANGED vars
  BY <1>9 DEF vars
<1> QED BY <1>1, <1>2, <1>3, <1>4, <1>5, <1>6, <1>7, <1>8, <1>9 DEF Next, Push, Read

\* The types of the queue's state hold whatever the constants are: the timer's
\* interval in particular stays within the maximum although it is computed in
\* 32 bits from a clock that may jump.
THEOREM TypeCorrect == SafeSpec => []TypeOK
BY TypeInit, TypeStep, PTL DEF SafeSpec

-----------------------------------------------------------------------------
(* The two buffers and write_mutex_, for messages of any size. *)

LEMMA LockingInit == Init => Locking
BY DEF Init, Locking

LEMMA LockingStep == TypeOK /\ Locking /\ [Next]_vars => Locking'
<1> SUFFICES ASSUME TypeOK, Locking, [Next]_vars PROVE Locking'
  OBVIOUS
<1> USE DEF TypeOK, Locking, pushVars, bufferVars, timerVars
<1>1. ASSUME NEW p \in Producers, PushCount(p) PROVE Locking'
  BY <1>1 DEF PushCount
<1>2. ASSUME NEW p \in Producers, PushLock(p) PROVE Locking'
  <2>1. \A q \in Producers : pc[q] # "locked"
    BY <1>2, MessageQueueAssumption DEF PushLock
  <2> QED BY <1>2, <2>1 DEF PushLock
<1>3. ASSUME NEW p \in Producers, PushWrite(p) PROVE Locking'
  <2>1. \A q \in Producers \ {p} : pc[q] # "locked"
    BY <1>3 DEF PushWrite
  <2> QED BY <1>3, <2>1 DEF PushWrite
<1>4. CASE ReadStart
  BY <1>4 DEF ReadStart
<1>5. CASE ReadReset
  BY <1>5 DEF ReadReset
<1>6. CASE ReadPop
  BY <1>6 DEF ReadPop
<1>7. CASE ReadEmpty
  BY <1>7 DEF ReadEmpty
<1>8. CASE Exchange
  <2>1. \A q \in Producers : pc[q] # "locked"
    BY <1>8, MessageQueueAssumption DEF Exchange
  <2> QED BY <1>8, <2>1 DEF Exchange
<1>9. CASE UNCHANGED vars
  BY <1>9 DEF vars
<1> QED BY <1>1, <1>2, <1>3, <1>4, <1>5, <1>6, <1>7, <1>8, <1>9 DEF Next, Push, Read

\* The consumer, who takes no lock to read, never reads the buffer a producer is
\* copying into: the pointers are only exchanged while nobody owns write_mutex_.
THEOREM WriterNotReadCorrect == SafeSpec => []WriterNotRead
<1>1. Locking => WriterNotRead
  BY DEF Locking, WriterNotRead
<1> QED BY <1>1, TypeInit, TypeStep, LockingInit, LockingStep, PTL DEF SafeSpec

-----------------------------------------------------------------------------
(* The order of delivery, when no message is empty. *)

NoEmptyMessage == 0 \notin Sizes

LEMMA HandOverInit == Init => HandOver
<1> SUFFICES ASSUME Init PROVE HandOver
  OBVIOUS
<1>1. (<<>> \o <<>>) \o <<>> = <<>>
  <2>1. <<>> \in Seq(Elements)
    OBVIOUS
  <2> QED BY <2>1, ConcatEmptySeq
<1> QED BY <1>1, LockingInit DEF Init, HandOver, Buffers

LEMMA HandOverStep ==
  ASSUME NoEmptyMessage, TypeOK, HandOver, [Next]_vars
  PROVE  HandOver'
<1>1. Locking'
  BY LockingStep DEF HandOver
<1> DEFINE front == delivered \o buffer[consumer]
<1>2. /\ delivered \in Seq(Elements) /\ pushed \in Seq(Elements)
      /\ buffer[consumer] \in Seq(Elements) /\ buffer[producer] \in Seq(Elements)
      /\ producer \in Buffers /\ consumer \in Buffers /\ producer # consumer
      /\ pushed = front \o buffer[producer]
      /\ buffer \in [Buffers -> Seq(Elements)]
  BY DEF TypeOK, HandOver, Locking
<1>3. front \in Seq(Elements)
  BY <1>2, ConcatProperties
<1> DEFINE Kept == UNCHANGED <<pushed, delivered, buffer, producer, consumer>>
<1>4. ASSUME Kept, readPc' = "exchange" => readPc = "exchange" \/ buffer[consumer] = <<>>
      PROVE  HandOver'
  BY <1>1, <1>4 DEF HandOver
<1> USE DEF pushVars, bufferVars, timerVars
<1>5. ASSUME NEW p \in Producers, PushCount(p) PROVE HandOver'
  BY <1>4, <1>5 DEF PushCount
<1>6. ASSUME NEW p \in Producers, PushLock(p) PROVE HandOver'
  BY <1>4, <1>6 DEF PushLock
<1>7. ASSUME NEW p \in Producers, PushWrite(p) PROVE HandOver'
  <2>1. element[p] \in Elements /\ target[p] = producer
    BY <1>7 DEF PushWrite, TypeOK, HandOver, Locking
  <2>2. /\ buffer'[producer] = Append(buffer[producer], element[p])
        /\ buffer'[consumer] = buffer[consumer]
    BY <1>2, <1>7, <2>1 DEF PushWrite
  <2>3. pushed' = front \o buffer'[producer]
    <3>1. pushed' = Append(front \o buffer[producer], element[p])
      BY <1>2, <1>7 DEF PushWrite
    <3>2. buffer[producer] \in Seq(Elements)
      BY <1>2
    <3>3. \A s, t \in Seq(Elements) : \A e \in Elements : Append(s \o t, e) = s \o Append(t, e)
      OBVIOUS
    <3> QED BY ZenonT(30), <1>3, <2>1, <2>2, <3>1, <3>2, <3>3
  <2>4. UNCHANGED <<producer, consumer, delivered, readPc>>
    BY <1>7 DEF PushWrite
  <2> QED BY <1>1, <2>2, <2>3, <2>4 DEF HandOver
<1>8. CASE ReadStart
  BY <1>4, <1>8 DEF ReadStart
<1>9. CASE ReadReset
  BY <1>4, <1>9 DEF ReadReset
<1>10. CASE ReadPop
  <2>1. /\ Head(buffer[consumer]) \in Elements
        /\ Append(delivered, Head(buffer[consumer])) \o Tail(buffer[consumer]) = front
    BY <1>2, <1>10, HeadTailProperties, MoveHead DEF ReadPop
  <2>2. Head(buffer[consumer]).size > 0
    <3>1. \A n \in Sizes : n > 0
      BY MessageQueueAssumption DEF NoEmptyMessage
    <3>2. Head(buffer[consumer]).size \in Sizes
      BY <2>1 DEF Elements
    <3> QED BY <3>1, <3>2
  <2>3. /\ delivered' = Append(delivered, Head(buffer[consumer]))
        /\ readPc' = "pop"
        /\ UNCHANGED <<pushed, producer, consumer>>
    BY <1>10, <2>2 DEF ReadPop
  <2>4. /\ buffer'[consumer] = Tail(buffer[consumer])
        /\ buffer'[producer] = buffer[producer]
    BY <1>2, <1>10 DEF ReadPop
  <2> QED BY <1>1, <1>2, <2>1, <2>3, <2>4 DEF HandOver
<1>11. CASE ReadEmpty
  BY <1>4, <1>11 DEF ReadEmpty
<1>12. CASE Exchange
  <2>1. buffer[consumer] = <<>>
    BY <1>12 DEF Exchange, HandOver
  <2>2. /\ consumer' = producer /\ producer' = consumer
        /\ readPc' = "idle"
        /\ UNCHANGED <<buffer, pushed, delivered>>
    BY <1>12 DEF Exchange
  <2>3. front = delivered
    BY <1>2, <2>1, ConcatEmptySeq
  <2>4. delivered \o buffer[producer] \in Seq(Elements)
    BY <1>2, ConcatProperties
  <2>5. (delivered \o buffer[producer]) \o <<>> = delivered \o buffer[producer]
    BY <2>4, ConcatEmptySeq
  <2> QED BY <1>1, <1>2, <2>1, <2>2, <2>3, <2>5 DEF HandOver
<1>13. CASE UNCHANGED vars
  BY <1>4, <1>13 DEF vars
<1> QED BY <1>5, <1>6, <1>7, <1>8, <1>9, <1>10, <1>11, <1>12, <1>13 DEF Next, Push, Read

\* At any moment the messages pushed are those delivered, those in the buffer
\* that is read and those in the buffer that is written, in that order: nothing
\* is lost, doubled or overtaken in the exchange of the buffers.
THEOREM HandOverCorrect ==
  ASSUME NoEmptyMessage
  PROVE  SafeSpec => []HandOver
<1>1. TypeOK /\ HandOver /\ [Next]_vars => HandOver'
  BY HandOverStep
<1> QED BY <1>1, TypeInit, TypeStep, HandOverInit, PTL DEF SafeSpec

LEMMA HandOverInOrder == TypeOK /\ HandOver => FifoOrder
<1> SUFFICES ASSUME TypeOK, HandOver PROVE FifoOrder
  OBVIOUS
<1>1. /\ delivered \in Seq(Elements)
      /\ buffer[consumer] \in Seq(Elements) /\ buffer[producer] \in Seq(Elements)
  BY DEF TypeOK
<1>2. pushed = (delivered \o buffer[consumer]) \o buffer[producer]
  BY DEF HandOver
<1> QED BY <1>1, <1>2, FirstPart DEF FifoOrder

\* Messages reach read_cb_ in the order in which they were pushed, without a gap.
THEOREM FifoOrderCorrect ==
  ASSUME NoEmptyMessage
  PROVE  SafeSpec => []FifoOrder
<1>1. SafeSpec => []HandOver
  BY HandOverCorrect
<1> QED BY <1>1, TypeCorrect, HandOverInOrder, PTL

\* The buffer that becomes the one to be written was read empty.
THEOREM ExchangeHandsOverEmptyCorrect ==
  ASSUME NoEmptyMessage
  PROVE  SafeSpec => ExchangeHandsOverEmpty
<1> DEFINE Emptied == producer' # producer => buffer[consumer] = <<>>
<1>1. HandOver /\ [Next]_vars => [Emptied]_vars
  <2> SUFFICES ASSUME HandOver, Next, producer' # producer PROVE buffer[consumer] = <<>>
    OBVIOUS
  <2>1. Exchange
    BY DEF Next, Push, Read, PushCount, PushLock, PushWrite, ReadStart, ReadReset, ReadPop,
           ReadEmpty, bufferVars
  <2> QED BY <2>1 DEF Exchange, HandOver
<1>2. SafeSpec => []HandOver
  BY HandOverCorrect
<1> QED BY <1>1, <1>2, PTL DEF SafeSpec, ExchangeHandsOverEmpty

-----------------------------------------------------------------------------
(* Messages of any size, the empty ones included: each is delivered once. *)

NoTwice(s) == \A i, j \in 1..Len(s) : s[i].push = s[j].push => i = j
NotIn(s, n) == \A i \in 1..Len(s) : s[i].push # n
Apart(s, t) == \A i \in 1..Len(s) : NotIn(t, s[i].push)
UpTo(s, n) == \A i \in 1..Len(s) : s[i].push <= n

\* A call of Push that has not written its element yet is the only one with its number.
InFlight(p) == pc[p] # "idle"

\* The number of an element occurs in one place only: in a producer, in one of the two
\* buffers or among the elements delivered, however often Exchange() turns a buffer
\* that was not read empty into the one that is written.
OnePlace ==
  /\ NoTwice(delivered) /\ UpTo(delivered, pushes)
  /\ \A b \in Buffers :
       NoTwice(buffer[b]) /\ UpTo(buffer[b], pushes) /\ Apart(delivered, buffer[b])
  /\ Apart(buffer[1], buffer[2])
  /\ \A p \in Producers : InFlight(p) =>
       /\ element[p].push <= pushes
       /\ NotIn(delivered, element[p].push)
       /\ \A b \in Buffers : NotIn(buffer[b], element[p].push)
       /\ \A q \in Producers : InFlight(q) /\ element[q].push = element[p].push => p = q

\* What an appended element adds.
LEMMA AppendApart ==
  ASSUME NEW s \in Seq(Elements), NEW e \in Elements, NEW n \in Nat
  PROVE  /\ NoTwice(s) /\ NotIn(s, e.push) => NoTwice(Append(s, e))
         /\ UpTo(s, n) /\ e.push <= n => UpTo(Append(s, e), n)
         /\ \A m : NotIn(s, m) /\ m # e.push => NotIn(Append(s, e), m)
BY DEF NoTwice, NotIn, UpTo

\* What the head of a sequence without repetitions leaves behind.
LEMMA TailApart ==
  ASSUME NEW s \in Seq(Elements), s # <<>>, NEW n
  PROVE  /\ NoTwice(s) => NoTwice(Tail(s)) /\ NotIn(Tail(s), Head(s).push)
         /\ UpTo(s, n) => UpTo(Tail(s), n) /\ Head(s).push <= n
         /\ \A m : NotIn(s, m) => NotIn(Tail(s), m) /\ m # Head(s).push
BY DEF NoTwice, NotIn, UpTo

LEMMA ApartSymmetric ==
  ASSUME NEW s, NEW t
  PROVE  Apart(s, t) <=> Apart(t, s)
BY DEF Apart, NotIn

LEMMA ApartTail ==
  ASSUME NEW s \in Seq(Elements), NEW t \in Seq(Elements), t # <<>>, Apart(s, t)
  PROVE  Apart(s, Tail(t)) /\ NotIn(s, Head(t).push)
BY DEF Apart, NotIn

LEMMA ApartAppend ==
  ASSUME NEW s \in Seq(Elements), NEW t \in Seq(Elements), NEW e \in Elements,
         Apart(s, t), NotIn(s, e.push)
  PROVE  Apart(s, Append(t, e))
BY DEF Apart, NotIn

LEMMA OnePlaceInit == Init => OnePlace
BY DEF Init, OnePlace, NoTwice, UpTo, Apart, NotIn, InFlight, Buffers

LEMMA OnePlaceStep == TypeOK /\ OnePlace /\ [Next]_vars => OnePlace'
<1> SUFFICES ASSUME TypeOK, OnePlace, [Next]_vars PROVE OnePlace'
  OBVIOUS
<1> USE DEF pushVars, bufferVars, timerVars
<1>1. ASSUME NEW p \in Producers, PushCount(p) PROVE OnePlace'
  <2>1. /\ pushes' = pushes + 1 /\ pushes \in Nat
        /\ element'[p].push = pushes + 1
        /\ \A q \in Producers \ {p} : element'[q] = element[q] /\ (InFlight(q)' <=> InFlight(q))
        /\ UNCHANGED <<delivered, buffer>>
    BY <1>1, MessageQueueAssumption DEF PushCount, TypeOK, InFlight
  <2>2. \A q \in Producers \ {p} : InFlight(q) => element[q].push <= pushes /\ element[q].push \in Nat
    BY DEF OnePlace, TypeOK, Elements, InFlight
  <2>3. ASSUME NEW s \in Seq(Elements), UpTo(s, pushes)
        PROVE  UpTo(s, pushes + 1) /\ NotIn(s, pushes + 1)
    <3>1. \A i \in 1..Len(s) : s[i].push \in Nat /\ s[i].push <= pushes
      <4>1. \A i \in 1..Len(s) : s[i] \in Elements
        BY <2>3
      <4> QED
        BY <2>3, <4>1, MessageQueueAssumption DEF UpTo, Elements
    <3> QED
      BY <2>1, <3>1 DEF UpTo, NotIn
  <2>4. /\ \A b \in Buffers : buffer[b] \in Seq(Elements)
        /\ delivered \in Seq(Elements)
    BY DEF TypeOK
  <2>5. /\ UpTo(delivered, pushes') /\ NotIn(delivered, pushes')
        /\ \A b \in Buffers : UpTo(buffer[b], pushes') /\ NotIn(buffer[b], pushes')
    BY <2>1, <2>3, <2>4 DEF OnePlace
  <2>6. ASSUME NEW q \in Producers, InFlight(q)'
        PROVE  /\ element'[q].push <= pushes'
               /\ NotIn(delivered, element'[q].push)
               /\ \A b \in Buffers : NotIn(buffer[b], element'[q].push)
               /\ \A r \in Producers : InFlight(r)' /\ element'[r].push = element'[q].push => q = r
    <3>1. CASE q = p
      BY <2>1, <2>2, <2>5, <2>6, <3>1 DEF OnePlace
    <3>2. CASE q # p
      BY <2>1, <2>2, <2>6, <3>2 DEF OnePlace
    <3> QED
      BY <3>1, <3>2
  <2> QED
    BY <2>1, <2>5, <2>6 DEF OnePlace
<1>2. ASSUME NEW p \in Producers, PushLock(p) PROVE OnePlace'
  BY <1>2 DEF PushLock, OnePlace, InFlight, TypeOK
<1>3. ASSUME NEW p \in Producers, PushWrite(p) PROVE OnePlace'
  <2> DEFINE b == target[p]  e == element[p]
  <2>1. /\ b \in Buffers /\ e \in Elements /\ InFlight(p) /\ pushes \in Nat
        /\ delivered \in Seq(Elements) /\ \A c \in Buffers : buffer[c] \in Seq(Elements)
    BY <1>3 DEF PushWrite, TypeOK, InFlight
  <2>2. /\ buffer'[b] = Append(buffer[b], e)
        /\ \A c \in Buffers \ {b} : buffer'[c] = buffer[c]
        /\ \A q \in Producers : InFlight(q)' <=> InFlight(q) /\ q # p
        /\ UNCHANGED <<delivered, element, pushes>>
    BY <1>3 DEF PushWrite, TypeOK, InFlight
  <2>3. /\ e.push <= pushes /\ NotIn(delivered, e.push)
        /\ \A c \in Buffers : NotIn(buffer[c], e.push)
        /\ \A q \in Producers \ {p} : InFlight(q) => element[q].push # e.push
    BY <2>1 DEF OnePlace
  <2>4. NoTwice(buffer'[b]) /\ UpTo(buffer'[b], pushes) /\ Apart(delivered, buffer'[b])
    BY <2>1, <2>2, <2>3, AppendApart, ApartAppend DEF OnePlace
  <2>5. Apart(buffer'[1], buffer'[2])
    <3>1. CASE b = 1
      <4>1. buffer[1] \in Seq(Elements) /\ buffer[2] \in Seq(Elements) /\ NotIn(buffer[2], e.push)
        BY <2>1, <2>3 DEF Buffers
      <4>2. Apart(buffer[2], buffer[1])
        BY ApartSymmetric DEF OnePlace
      <4>3. Apart(buffer[2], Append(buffer[1], e))
        BY <2>1, <4>1, <4>2, ApartAppend
      <4>4. buffer'[1] = Append(buffer[1], e) /\ buffer'[2] = buffer[2]
        BY <2>2, <3>1 DEF Buffers
      <4> QED
        BY <4>3, <4>4, ApartSymmetric
    <3>2. CASE b = 2
      <4>1. buffer[1] \in Seq(Elements) /\ buffer[2] \in Seq(Elements) /\ NotIn(buffer[1], e.push)
        BY <2>1, <2>3 DEF Buffers
      <4>2. Apart(buffer[1], Append(buffer[2], e))
        BY <2>1, <4>1, ApartAppend DEF OnePlace
      <4>3. buffer'[2] = Append(buffer[2], e) /\ buffer'[1] = buffer[1]
        BY <2>2, <3>2 DEF Buffers
      <4> QED
        BY <4>2, <4>3
    <3> QED
      BY <2>1, <3>1, <3>2 DEF Buffers
  <2>6. ASSUME NEW q \in Producers, InFlight(q)', NEW c \in Buffers
        PROVE  NotIn(buffer'[c], element[q].push)
    <3>1. InFlight(q) /\ element[q].push # e.push /\ NotIn(buffer[c], element[q].push)
      BY <2>2, <2>3, <2>6 DEF OnePlace
    <3>2. CASE c = b
      BY <2>1, <2>2, <3>1, <3>2, AppendApart
    <3>3. CASE c # b
      BY <2>2, <3>1, <3>3
    <3> QED
      BY <3>2, <3>3
  <2> QED
    BY <2>1, <2>2, <2>4, <2>5, <2>6 DEF OnePlace
<1>4. CASE ReadStart
  BY <1>4 DEF ReadStart, OnePlace, InFlight
<1>5. CASE ReadReset
  BY <1>5 DEF ReadReset, OnePlace, InFlight
<1>6. CASE ReadPop
  <2> DEFINE b == consumer  e == Head(buffer[b])
  <2>1. /\ b \in Buffers /\ buffer[b] # <<>> /\ pushes \in Nat
        /\ delivered \in Seq(Elements) /\ \A c \in Buffers : buffer[c] \in Seq(Elements)
    BY <1>6 DEF ReadPop, TypeOK
  <2>2. e \in Elements
    BY <2>1, HeadTailProperties
  <2>3. /\ buffer'[b] = Tail(buffer[b])
        /\ \A c \in Buffers \ {b} : buffer'[c] = buffer[c]
        /\ delivered' = delivered \/ delivered' = Append(delivered, e)
        /\ UNCHANGED <<pc, element, pushes>>
    BY <1>6 DEF ReadPop, TypeOK
  <2>4. /\ NoTwice(buffer'[b]) /\ UpTo(buffer'[b], pushes) /\ NotIn(buffer'[b], e.push)
        /\ e.push <= pushes /\ Apart(delivered, buffer'[b]) /\ NotIn(delivered, e.push)
    BY <2>1, <2>3, TailApart, ApartTail DEF OnePlace
  <2>5. /\ Apart(buffer'[1], buffer'[2])
        /\ \A c \in Buffers : NotIn(buffer'[c], e.push)
    <3>1. CASE b = 1
      BY <2>1, <2>3, <2>4, <3>1, ApartTail, ApartSymmetric DEF OnePlace, Buffers
    <3>2. CASE b = 2
      BY <2>1, <2>3, <2>4, <3>2, ApartTail DEF OnePlace, Buffers
    <3> QED
      BY <2>1, <3>1, <3>2 DEF Buffers
  <2>6. \A c \in Buffers : NoTwice(buffer'[c]) /\ UpTo(buffer'[c], pushes) /\ Apart(delivered, buffer'[c])
    BY <2>1, <2>3, <2>4 DEF OnePlace
  <2>7. /\ NoTwice(delivered') /\ UpTo(delivered', pushes)
        /\ \A c \in Buffers : Apart(delivered', buffer'[c])
    <3>1. CASE delivered' = delivered
      BY <2>6, <3>1 DEF OnePlace
    <3>2. CASE delivered' = Append(delivered, e)
      <4>1. ASSUME NEW c \in Buffers PROVE Apart(buffer'[c], delivered')
        <5>1. Apart(buffer'[c], delivered) /\ NotIn(buffer'[c], e.push)
          BY <2>5, <2>6, ApartSymmetric
        <5>2. buffer'[c] \in Seq(Elements)
          <6>1. Tail(buffer[b]) \in Seq(Elements)
            BY <2>1, HeadTailProperties
          <6> QED
            BY <2>1, <2>3, <6>1
        <5> QED
          BY <2>1, <2>2, <3>2, <5>1, <5>2, ApartAppend
      <4> QED
        BY <2>1, <2>2, <2>4, <3>2, <4>1, AppendApart, ApartSymmetric DEF OnePlace
    <3> QED
      BY <2>3, <3>1, <3>2
  <2>8. ASSUME NEW p \in Producers, InFlight(p)
        PROVE  /\ NotIn(delivered', element[p].push)
               /\ \A c \in Buffers : NotIn(buffer'[c], element[p].push)
    <3>1. element[p].push # e.push /\ NotIn(Tail(buffer[b]), element[p].push)
      BY <2>1, <2>8, TailApart DEF OnePlace
    <3> QED
      BY <2>1, <2>2, <2>3, <2>8, <3>1, AppendApart DEF OnePlace
  <2>9. \A p \in Producers : InFlight(p)' <=> InFlight(p)
    BY <2>3 DEF InFlight
  <2> QED
    BY <2>3, <2>5, <2>6, <2>7, <2>8, <2>9 DEF OnePlace
<1>7. CASE ReadEmpty
  BY <1>7 DEF ReadEmpty, OnePlace, InFlight
<1>8. CASE Exchange
  BY <1>8 DEF Exchange, OnePlace, InFlight
<1>9. CASE UNCHANGED vars
  BY <1>9 DEF vars, OnePlace, InFlight
<1> QED
  BY <1>1, <1>2, <1>3, <1>4, <1>5, <1>6, <1>7, <1>8, <1>9 DEF Next, Push, Read

\* No message reaches read_cb_ twice, whatever sizes are pushed: an empty one ends a
\* reading early, but what it leaves behind stays in its buffer until it is read.
THEOREM NoDuplicateDeliveryCorrect == SafeSpec => []NoDuplicateDelivery
<1>1. OnePlace => NoDuplicateDelivery
  BY DEF OnePlace, NoTwice, NoDuplicateDelivery
<1> QED
  BY <1>1, TypeInit, TypeStep, OnePlaceInit, OnePlaceStep, PTL DEF SafeSpec

-----------------------------------------------------------------------------
(* The abstract channel. *)

\* Every step of the queue is a Send, a Receive or no step of the channel.
LEMMA ChannelStep ==
  ASSUME NoEmptyMessage, TypeOK, HandOver, [Next]_vars
  PROVE  [Channel!Next]_Channel!fifoVars
<1> USE DEF Channel!fifoVars
<1>1. ASSUME NEW p \in Producers, PushWrite(p) PROVE Channel!Next
  <2>1. element[p] \in Elements
    BY <1>1 DEF PushWrite, TypeOK
  <2>2. Channel!Send(element[p])
    BY <1>1 DEF PushWrite, Channel!Send
  <2> QED BY <2>1, <2>2 DEF Channel!Next
<1>2. CASE ReadPop
  <2>1. /\ delivered \in Seq(Elements)
        /\ buffer[consumer] \in Seq(Elements) /\ buffer[consumer] # <<>>
        /\ buffer[producer] \in Seq(Elements)
        /\ pushed = (delivered \o buffer[consumer]) \o buffer[producer]
    BY <1>2 DEF TypeOK, HandOver, ReadPop
  <2>2. Head(buffer[consumer]).size > 0
    <3>1. Head(buffer[consumer]) \in Elements
      BY <2>1
    <3>2. \A n \in Sizes : n > 0
      BY MessageQueueAssumption DEF NoEmptyMessage
    <3> QED BY <3>1, <3>2 DEF Elements
  <2>3. Len(delivered) < Len(pushed) /\ pushed[Len(delivered) + 1] = Head(buffer[consumer])
    BY <2>1, NextOfParts
  <2>4. delivered' = Append(delivered, Head(buffer[consumer])) /\ UNCHANGED pushed
    BY <1>2, <2>2 DEF ReadPop
  <2>5. Channel!Receive
    BY <2>3, <2>4 DEF Channel!Receive
  <2> QED BY <2>5 DEF Channel!Next
<1>3. CASE UNCHANGED vars
  BY <1>3 DEF vars
<1>4. ASSUME ~ReadPop, \A p \in Producers : ~PushWrite(p), Next
      PROVE  UNCHANGED <<pushed, delivered>>
  BY <1>4 DEF Next, Push, Read, PushCount, PushLock, ReadStart, ReadReset, ReadEmpty, Exchange
<1> QED BY <1>1, <1>2, <1>3, <1>4

\* The queue implements the channel that delivers in order and at most once.
THEOREM ChannelSafe ==
  ASSUME NoEmptyMessage
  PROVE  SafeSpec => Channel!SafeSpec
<1>1. Init => Channel!Init
  BY DEF Init, Channel!Init
<1>2. TypeOK /\ HandOver /\ [Next]_vars => [Channel!Next]_Channel!fifoVars
  BY ChannelStep
<1>3. SafeSpec => []HandOver
  BY HandOverCorrect
<1> QED BY <1>1, <1>2, <1>3, TypeCorrect, PTL DEF SafeSpec, Channel!SafeSpec
=============================================================================
