---------------------------- MODULE MessageQueue ----------------------------
(***************************************************************************)
(* mysya/qservice/message_queue.cc: the queue that carries messages from   *)
(* the producer threads to the thread of the consumer's event loop.        *)
(*                                                                         *)
(* Two buffers are used in turn.  Push appends to *producer_ under         *)
(* write_mutex_; a one-shot timer of the consumer's loop runs              *)
(* OnExporedPendingRead, which re-arms itself, reads *consumer_ empty      *)
(* without write_mutex_ and then exchanges the two pointers under it.      *)
(*                                                                         *)
(* One action per step of a thread that another thread can observe.  The   *)
(* consumer's loop calls the timer back at any moment after it was armed;  *)
(* the number of milliseconds it waits is kept, its passing is not.        *)
(***************************************************************************)
EXTENDS Naturals, Sequences, FiniteSets

CONSTANTS Producers,    \* threads that call Push
          Sizes,        \* sizes, in bytes, of the messages they push
          MaxPush,      \* bound: number of calls of Push in a behaviour
          MaxExpire,    \* max_pending_read_expired_mesec_ (10 in TransportAgent)
          Distances,    \* milliseconds between two readings of the queue
          EpochDistance,\* milliseconds from the zero Timestamp to the first one
          Width         \* 2^32, the modulus of uint32_t pending_read_expired_msec_

NoThread == "none"       \* write_mutex_ is free

ASSUME MessageQueueAssumption ==
  /\ NoThread \notin Producers
  /\ Sizes \subseteq Nat
  /\ MaxPush \in Nat
  /\ MaxExpire \in Nat \ {0}
  /\ Distances \subseteq Nat
  /\ EpochDistance \in Nat
  /\ Width \in Nat \ {0}

Buffers == {1, 2}       \* buffer1_ and buffer2_

\* A MessageQueueElement: its size_ and, for host_ and data_, the number of
\* the call of Push that made it.
Elements == [size : Sizes, push : 1..MaxPush]

VARIABLES
  pushes,               \* calls of Push so far (bounds the model, numbers elements)
  pc,                   \* where each producer is in Push
  element,              \* the element each producer pushes
  target,               \* *producer_ as each producer resolved it
  writeMutex,           \* the owner of write_mutex_
  buffer,               \* contents of buffer1_ and buffer2_
  producer,             \* producer_: the buffer that is written
  consumer,             \* consumer_: the buffer that is read
  pendingReadNum,       \* pending_read_num_
  pendingReadExpired,   \* pending_read_expired_msec_
  readBefore,           \* read_timestamp_ has been set
  timerArmed,           \* pending_read_timer_id_ is a live timer
  readPc,               \* where the consumer's thread is in OnExporedPendingRead
  pushed,               \* history: elements in the order they were appended
  delivered             \* history: elements given to read_cb_, in order

pushVars == <<pushes, pc, element, target>>
bufferVars == <<writeMutex, buffer, producer, consumer>>
timerVars == <<pendingReadExpired, readBefore, timerArmed>>
vars == <<pushVars, bufferVars, pendingReadNum, timerVars, readPc, pushed, delivered>>

TypeOK ==
  /\ pushes \in 0..MaxPush
  /\ pc \in [Producers -> {"idle", "counted", "locked"}]
  /\ element \in [Producers -> Elements \union {<<>>}]
  /\ target \in [Producers -> Buffers]
  /\ writeMutex \in Producers \union {NoThread}
  /\ buffer \in [Buffers -> Seq(Elements)]
  /\ producer \in Buffers
  /\ consumer \in Buffers
  /\ pendingReadNum \in Nat
  /\ pendingReadExpired \in 0..MaxExpire
  /\ readBefore \in BOOLEAN
  /\ timerArmed \in BOOLEAN
  /\ readPc \in {"idle", "reset", "pop", "exchange"}
  /\ pushed \in Seq(Elements)
  /\ delivered \in Seq(Elements)
  /\ \A p \in Producers : pc[p] # "idle" => element[p] \in Elements

\* Mutant of NextExpired: the interval is not cut to the maximum.
NextExpiredUncapped(num, distance, expired) ==
  IF num = 0 THEN (expired * 2 + 1) % Width ELSE (distance \div num + 1) % Width

\* The interval SetPendingReadTimer chooses after "distance" milliseconds in
\* which "num" pushes were counted, from the interval it chose before.
NextExpired(num, distance, expired) ==
  LET wanted == IF num = 0 THEN (expired * 2 + 1) % Width
                           ELSE (distance \div num + 1) % Width
  IN  IF wanted > MaxExpire THEN MaxExpire ELSE wanted

\* The constructor: both buffers empty, buffer2_ written and buffer1_ read;
\* SetPendingReadTimer doubles the initial interval and cuts it to the maximum.
Init ==
  /\ pushes = 0
  /\ pc = [p \in Producers |-> "idle"]
  /\ element = [p \in Producers |-> <<>>]
  /\ target = [p \in Producers |-> 2]
  /\ writeMutex = NoThread
  /\ buffer = [b \in Buffers |-> <<>>]
  /\ producer = 2
  /\ consumer = 1
  /\ pendingReadNum = 0
  /\ pendingReadExpired = NextExpired(0, EpochDistance, MaxExpire)
  /\ readBefore = FALSE
  /\ timerArmed = TRUE
  /\ readPc = "idle"
  /\ pushed = <<>>
  /\ delivered = <<>>

-----------------------------------------------------------------------------
(* Push, run by a producer. *)

\* fetch_add on pending_read_num_, before the lock.
PushCount(p) ==
  /\ pc[p] = "idle"
  /\ pushes < MaxPush
  /\ pushes' = pushes + 1
  /\ \E n \in Sizes : element' = [element EXCEPT ![p] = [size |-> n, push |-> pushes + 1]]
  /\ pc' = [pc EXCEPT ![p] = "counted"]
  /\ pendingReadNum' = pendingReadNum + 1
  /\ UNCHANGED <<target, bufferVars, timerVars, readPc, pushed, delivered>>

\* LockGuard lock_write; from here on producer_ is the buffer it writes.
PushLock(p) ==
  /\ pc[p] = "counted"
  /\ writeMutex = NoThread
  /\ writeMutex' = p
  /\ target' = [target EXCEPT ![p] = producer]
  /\ pc' = [pc EXCEPT ![p] = "locked"]
  /\ UNCHANGED <<pushes, element, buffer, producer, consumer, pendingReadNum,
                 timerVars, readPc, pushed, delivered>>

\* The element is written and the guard releases the mutex.
PushWrite(p) ==
  /\ pc[p] = "locked"
  /\ buffer' = [buffer EXCEPT ![target[p]] = Append(@, element[p])]
  /\ pushed' = Append(pushed, element[p])
  /\ writeMutex' = NoThread
  /\ pc' = [pc EXCEPT ![p] = "idle"]
  /\ UNCHANGED <<pushes, element, target, producer, consumer, pendingReadNum,
                 timerVars, readPc, delivered>>

-----------------------------------------------------------------------------
(* OnExporedPendingRead, run by the consumer's loop. *)

\* Mutant of SetPendingReadTimer: an idle queue is not polled again.
SetPendingReadTimerIfPending ==
  /\ \E distance \in IF readBefore THEN Distances ELSE {EpochDistance} :
       pendingReadExpired' = NextExpired(pendingReadNum, distance, pendingReadExpired)
  /\ timerArmed' = (pendingReadNum > 0)

\* SetPendingReadTimer loads pending_read_num_ and arms the timer.
SetPendingReadTimer ==
  /\ \E distance \in IF readBefore THEN Distances ELSE {EpochDistance} :
       pendingReadExpired' = NextExpired(pendingReadNum, distance, pendingReadExpired)
  /\ timerArmed' = TRUE

\* The one-shot timer expires; the handler arms the next one first.
ReadStart ==
  /\ readPc = "idle"
  /\ timerArmed
  /\ SetPendingReadTimer
  /\ readPc' = "reset"
  /\ UNCHANGED <<pushVars, bufferVars, pendingReadNum, readBefore, pushed, delivered>>

\* pending_read_num_.store(0), read_timestamp_, and read_mutex_, which only
\* this handler takes.
ReadReset ==
  /\ readPc = "reset"
  /\ pendingReadNum' = 0
  /\ readBefore' = TRUE
  /\ readPc' = "pop"
  /\ UNCHANGED <<pushVars, bufferVars, pendingReadExpired, timerArmed, pushed, delivered>>

\* Mutant of ReadPop: the element is not taken off the buffer (no ReadBytes).
ReadPopKeep ==
  /\ readPc = "pop"
  /\ buffer[consumer] # <<>>
  /\ Len(delivered) < MaxPush
  /\ delivered' = Append(delivered, Head(buffer[consumer]))
  /\ readPc' = "exchange"
  /\ UNCHANGED <<pushVars, bufferVars, pendingReadNum, timerVars, pushed>>

\* Mutant of ReadPop: one element is read per timer.
ReadPopOne ==
  /\ readPc = "pop"
  /\ buffer[consumer] # <<>>
  /\ buffer' = [buffer EXCEPT ![consumer] = Tail(@)]
  /\ delivered' = Append(delivered, Head(buffer[consumer]))
  /\ readPc' = "exchange"
  /\ UNCHANGED <<pushVars, writeMutex, producer, consumer, pendingReadNum, timerVars, pushed>>

\* Pop, then read_cb_ unless the size Pop returned is not positive: an element
\* of size 0 is taken from the buffer and ends the loop as an empty buffer does.
ReadPop ==
  /\ readPc = "pop"
  /\ buffer[consumer] # <<>>
  /\ buffer' = [buffer EXCEPT ![consumer] = Tail(@)]
  /\ IF Head(buffer[consumer]).size > 0
       THEN /\ delivered' = Append(delivered, Head(buffer[consumer]))
            /\ UNCHANGED readPc
       ELSE /\ readPc' = "exchange"
            /\ UNCHANGED delivered
  /\ UNCHANGED <<pushVars, writeMutex, producer, consumer, pendingReadNum, timerVars, pushed>>

\* Pop finds the buffer empty.
ReadEmpty ==
  /\ readPc = "pop"
  /\ buffer[consumer] = <<>>
  /\ readPc' = "exchange"
  /\ UNCHANGED <<pushVars, bufferVars, pendingReadNum, timerVars, pushed, delivered>>

\* Mutant of Exchange: the pointers are exchanged without write_mutex_.
ExchangeUnlocked ==
  /\ readPc = "exchange"
  /\ consumer' = producer
  /\ producer' = consumer
  /\ readPc' = "idle"
  /\ UNCHANGED <<pushVars, writeMutex, buffer, pendingReadNum, timerVars, pushed, delivered>>

\* LockGuard lock_write; Exchange(); the handler returns.
Exchange ==
  /\ readPc = "exchange"
  /\ writeMutex = NoThread
  /\ consumer' = producer
  /\ producer' = consumer
  /\ readPc' = "idle"
  /\ UNCHANGED <<pushVars, writeMutex, buffer, pendingReadNum, timerVars, pushed, delivered>>

-----------------------------------------------------------------------------
Push(p) == PushCount(p) \/ PushLock(p) \/ PushWrite(p)

Read == ReadStart \/ ReadReset \/ ReadPop \/ ReadEmpty \/ Exchange

Next == Read \/ \E p \in Producers : Push(p)

SafeSpec == Init /\ [][Next]_vars

\* The consumer's loop keeps running (its timerfd ticks every 10 ms), and a
\* thread inside Push is not descheduled for ever.  Nobody has to call Push.
Fairness ==
  /\ WF_vars(Read)
  /\ \A p \in Producers : WF_vars(PushLock(p) \/ PushWrite(p))

Spec == SafeSpec /\ Fairness

-----------------------------------------------------------------------------
(* Properties. *)

StartsWith(s, t) == Len(t) <= Len(s) /\ \A i \in 1..Len(t) : t[i] = s[i]

\* Messages reach read_cb_ in the order in which Push appended them, with no
\* gap: what was delivered is a prefix of what was pushed.  It depends on the
\* buffer being read empty before it is exchanged and on Push keeping
\* write_mutex_ between resolving producer_ and the end of the copy.
FifoOrder == StartsWith(pushed, delivered)

\* While a producer copies its element, the buffer it copies into is not the
\* one that Pop reads without write_mutex_.
WriterNotRead ==
  \A p \in Producers : pc[p] = "locked" => target[p] = producer /\ target[p] # consumer

\* Between two readings the next one is always scheduled: nobody else arms the
\* timer, so a reading that did not would silence the queue for ever.
PollingNeverStops == readPc = "idle" => timerArmed

\* A producer that is copying owns write_mutex_ and writes to *producer_, which
\* is never the buffer that is read.
Locking ==
  /\ producer # consumer
  /\ \A p \in Producers : pc[p] = "locked" => writeMutex = p /\ target[p] = producer

\* Why FifoOrder holds: the elements pushed are those delivered, then those of
\* the buffer that is read, then those of the buffer that is written, in order;
\* when the buffers are about to be exchanged the first of them is empty.
HandOver ==
  /\ Locking
  /\ readPc = "exchange" => buffer[consumer] = <<>>
  /\ pushed = (delivered \o buffer[consumer]) \o buffer[producer]

\* No element is delivered twice, whatever sizes are pushed (OnExporedPendingRead
\* leaves elements behind in a buffer that is then written again).
NoDuplicateDelivery ==
  \A i, j \in 1..Len(delivered) : delivered[i] = delivered[j] => i = j

\* Exchange() never turns a buffer with unread elements into the one that is
\* written: newer elements would be appended behind a reversed hand-over, and
\* an element waits for at most two readings because of it.
ExchangeHandsOverEmpty ==
  [][producer' # producer => buffer[consumer] = <<>>]_vars

\* The queue implements the abstract channel, its progress included.
Channel == INSTANCE Fifo WITH sent <- pushed, received <- delivered
ChannelSpec == Channel!Spec

\* Every element that is not empty is delivered once it was appended, also when
\* empty ones end readings early.
EventuallyDelivered ==
  \A n \in 1..MaxPush :
    (\E i \in DOMAIN pushed : pushed[i].push = n /\ pushed[i].size > 0)
      ~> (\E i \in DOMAIN delivered : delivered[i].push = n)
=============================================================================
