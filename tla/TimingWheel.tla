---------------------------- MODULE TimingWheel -----------------------------
(***************************************************************************)
(* mysya/ioevent/timing_wheel.cc: the timers of one event loop.            *)
(*                                                                         *)
(* A timer lies in a bucket of the finest wheel whose span exceeds its     *)
(* distance in ticks; what the wheel's step leaves over is kept as the     *)
(* timer's undo ticks.  Each tick drains the current bucket of wheel 1     *)
(* and, whenever a wheel wraps, the current bucket of the next one: a      *)
(* timer with undo ticks goes to a finer wheel, one that is not yet        *)
(* expired by the clock waits one more tick, the others are called back.   *)
(* Everything runs in the loop's thread, so the grain is one timer taken   *)
(* from a bucket; callbacks may start and stop timers, also themselves.    *)
(*                                                                         *)
(* Wheels are numbered from 1, buckets from 0 as in the code.  Time is     *)
(* counted in units of which a tick has TickUnits.                         *)
(***************************************************************************)
EXTENDS Integers, Sequences, FiniteSets, SequencesExt

CONSTANTS BucketNum,    \* kTimingWheelBucketNum: <<256, 64, 64, 64, 64>>
          TickUnits,    \* tick_ms_ (10 ms), in units of the clock
          Expires,      \* durations timers are started with
          CallTimes,    \* call_times they are started with
          Steps,        \* how far the clock moves between two batches of events
          IntLimit,     \* undo_nsec_ is an int: it holds -IntLimit..IntLimit-1
          MaxTimers,    \* bound: timers started in a behaviour
          MaxClock      \* bound: the clock stays in 0..MaxClock

NumWheels == Len(BucketNum)
Wheels == 1..NumWheels
Ids == 1..MaxTimers

\* Ticks in one turn of wheel i; the step of wheel i is the span of wheel i-1.
Span[i \in 0..NumWheels] == IF i = 0 THEN 1 ELSE Span[i - 1] * BucketNum[i]

\* Mutant of TicksOf: rounded down.
TicksOfFloor(ms) == ms \div TickUnits

\* Ticks of a timer of ms time units: rounded up to whole ticks.
TicksOf(ms) == (ms \div TickUnits) + (IF ms % TickUnits > 0 THEN 1 ELSE 0)

\* Bound of the history since: more ticks than any timer asks for.
MaxSince == Span[NumWheels]

\* An int of milliseconds stays below the span of the last wheel, and so does a tick.
ASSUME TimingWheelAssumption ==
  /\ BucketNum \in Seq(Nat \ {0}) /\ NumWheels > 0 /\ Span[NumWheels] > 1
  /\ TickUnits \in Nat \ {0}
  /\ Expires \subseteq Nat /\ \A ms \in Expires : TicksOf(ms) < Span[NumWheels]
  /\ CallTimes \subseteq Int \ {0}
  /\ Steps \subseteq Int
  /\ IntLimit \in Nat /\ IntLimit > TickUnits
  /\ MaxTimers \in Nat
  /\ MaxClock \in Nat

VARIABLES
  now,                  \* EventLoop::timestamp_
  timestamp,            \* timestamp_: the clock at the last OnExpired
  undo,                 \* undo_nsec_: time not yet counted as a tick
  timers,               \* timers_: id -> Timer, for the live timers
  bucket,               \* buckets_ of each wheel: lists of timer ids
  current,              \* current_bucket_ of each wheel
  started,              \* TimerIdAllocator::id_
  phase,                \* where OnExpired is
  ticksLeft,            \* undo_tick_counts of OnExpired
  wheel, drained,       \* the wheel and bucket that are drained
  firing,               \* the timer whose callback runs, or 0
  since                 \* history: live timers: ticks since the last callback, or -1

clockVars == <<now, timestamp, undo>>
drainVars == <<ticksLeft, wheel, drained>>
vars == <<clockVars, timers, bucket, current, started, phase, drainVars, firing,
          since>>

Live == DOMAIN timers

TimerType == [expireAt : Nat, ticks : Nat, calls : Int, undo : Nat,
              wheel : Wheels, bucket : Nat]

TypeOK ==
  /\ now \in 0..MaxClock
  /\ timestamp \in 0..MaxClock
  /\ undo \in (1 - TickUnits)..(TickUnits - 1)
  /\ Live \subseteq 1..started
  /\ timers \in [Live -> TimerType]
  /\ DOMAIN bucket = Wheels /\ DOMAIN current = Wheels
  /\ \A i \in Wheels : bucket[i] \in [0..(BucketNum[i] - 1) -> Seq(Ids)]
  /\ \A i \in Wheels : current[i] \in 0..(BucketNum[i] - 1)
  /\ started \in 0..MaxTimers
  /\ phase \in {"idle", "tick", "drain", "callback"}
  /\ ticksLeft \in Nat
  /\ wheel \in Wheels
  /\ drained \in Nat
  /\ firing \in 0..MaxTimers
  /\ since \in [Live -> Nat \union {-1}]

Init ==
  /\ now = 0 /\ timestamp = 0 /\ undo = 0
  /\ timers = [id \in {} |-> 0]
  /\ bucket = [i \in Wheels |-> [b \in 0..(BucketNum[i] - 1) |-> <<>>]]
  /\ current = [i \in Wheels |-> 0]
  /\ started = 0
  /\ phase = "idle" /\ ticksLeft = 0 /\ wheel = 1 /\ drained = 0
  /\ firing = 0
  /\ since = [id \in {} |-> 0]

-----------------------------------------------------------------------------
(* Placing a timer. *)

\* The wheel for a distance of n ticks.
WheelFor(n) == CHOOSE i \in Wheels : n < Span[i] /\ \A j \in 1..(i - 1) : n >= Span[j]

\* Mutant of BucketFor: one bucket too far.
BucketForLate(i, n) == ((n \div Span[i - 1]) + current[i]) % BucketNum[i]

\* The bucket of wheel i that is drained after n ticks, by the wheel's position.
BucketFor(i, n) ==
  LET b == ((n \div Span[i - 1]) + current[i]) % BucketNum[i]
  IN  IF b > 0 THEN b - 1 ELSE BucketNum[i] - 1

\* Mutant of Turned: wheel i itself is counted.
TurnedThrough(i) ==
  LET sum[j \in 0..i] == IF j = 0 THEN 0 ELSE sum[j - 1] + (current[j] * Span[j - 1])
  IN  sum[i]

\* Ticks the wheels below i have already turned since their last wrap.
Turned(i) ==
  LET sum[j \in 0..(i - 1)] == IF j = 0 THEN 0 ELSE sum[j - 1] + (current[j] * Span[j - 1])
  IN  sum[i - 1]

\* The timer t as AddWheel leaves it, n ticks from here.
Placed(t, n) ==
  LET i == WheelFor(n)
  IN  [t EXCEPT !.wheel = i, !.bucket = BucketFor(i, n),
                !.undo = Turned(i) + (n % Span[i - 1])]

\* Bucket lists with a timer put at the end of its bucket, or taken out of it: the
\* first of its id, as Wheel::RemoveTimer looks no further.
Enlist(lists, id, t) == [lists EXCEPT ![t.wheel][t.bucket] = Append(@, id)]
Delist(lists, id, t) == [lists EXCEPT ![t.wheel][t.bucket] = RemoveFirst(@, id)]

\* AddWheel(timer, n), the timer being t before and the lists being lists.
AddWheel(lists, id, t, n) ==
  /\ timers' = [i \in Live \union {id} |-> IF i = id THEN Placed(t, n) ELSE timers[i]]
  /\ bucket' = Enlist(lists, id, Placed(t, n))

Forget(id) ==
  /\ timers' = [i \in Live \ {id} |-> timers[i]]
  /\ since' = [i \in Live \ {id} |-> since[i]]

-----------------------------------------------------------------------------
(* Calls from the loop's other callbacks and from timer callbacks. *)

Callable == phase \in {"idle", "callback"}

AddTimer(ms, calls) ==
  /\ Callable
  /\ started < MaxTimers
  /\ LET id == started + 1
         t == [expireAt |-> now + ms, ticks |-> TicksOf(ms), calls |-> calls,
               undo |-> 0, wheel |-> 1, bucket |-> 0]
     IN  /\ started' = id
         /\ AddWheel(bucket, id, t, TicksOf(ms))
         /\ since' = [i \in Live \union {id} |-> IF i = id THEN -1 ELSE since[i]]
  /\ UNCHANGED <<clockVars, current, phase, drainVars, firing>>

\* Mutant of RemoveTimer: without RemoveWheel.
RemoveTimerKeep(id) ==
  /\ Callable
  /\ id \in Live
  /\ Forget(id)
  /\ UNCHANGED <<clockVars, bucket, current, started, phase, drainVars, firing>>

\* A timer that is not in timers_ is ignored.
RemoveTimer(id) ==
  /\ Callable
  /\ id \in Live
  /\ bucket' = Delist(bucket, id, timers[id])
  /\ Forget(id)
  /\ UNCHANGED <<clockVars, current, started, phase, drainVars, firing>>

\* epoll_wait returns and the loop reads the real-time clock, which may jump.
Advance(d) ==
  /\ phase = "idle"
  /\ now + d \in 0..MaxClock
  /\ now' = now + d
  /\ UNCHANGED <<timestamp, undo, timers, bucket, current, started, phase, drainVars,
                 firing, since>>

-----------------------------------------------------------------------------
(* OnRead and OnExpired, in the loop's thread. *)

Abs(x) == IF x < 0 THEN -x ELSE x

\* x as an int of the model: two's complement with 2 * IntLimit values.
ToInt(x) == ((x + IntLimit) % (2 * IntLimit)) - IntLimit

\* Division and remainder of C++: the quotient is truncated towards zero.
Quotient(x, y) == IF x < 0 THEN -((-x) \div y) ELSE x \div y
Remainder(x, y) == IF x < 0 THEN -((-x) % y) ELSE x % y

Uncounted == ToInt(undo + Abs(now - timestamp))

\* The timerfd is readable: OnExpired counts the ticks since the last time.
OnRead ==
  /\ phase = "idle"
  /\ ticksLeft' = IF Uncounted < 0 THEN 0 ELSE Quotient(Uncounted, TickUnits)
  /\ undo' = Remainder(Uncounted, TickUnits)
  /\ phase' = "tick"
  /\ UNCHANGED <<now, timestamp, timers, bucket, current, started, wheel, drained,
                 firing, since>>

\* Wheel::OnExpired of wheel i begins: its current bucket will be drained.
EnterWheel(i) ==
  /\ wheel' = i
  /\ drained' = current[i]
  /\ current' = [current EXCEPT ![i] = (@ + 1) % BucketNum[i]]
  /\ phase' = "drain"

BeginTick ==
  /\ phase = "tick"
  /\ ticksLeft > 0
  /\ ticksLeft' = ticksLeft - 1
  /\ since' = [id \in Live |-> IF since[id] \in 0..MaxSince THEN since[id] + 1 ELSE since[id]]
  /\ EnterWheel(1)
  /\ UNCHANGED <<clockVars, timers, bucket, started, firing>>

EndRead ==
  /\ phase = "tick"
  /\ ticksLeft = 0
  /\ timestamp' = now
  /\ phase' = "idle"
  /\ UNCHANGED <<now, undo, timers, bucket, current, started, drainVars, firing, since>>

\* The timer at the front of the drained bucket is popped.
Drained == bucket[wheel][drained]
Popped == [bucket EXCEPT ![wheel][drained] = Tail(@)]

DrainUndo ==
  /\ phase = "drain"
  /\ Drained # <<>>
  /\ LET id == Head(Drained)
     IN  /\ timers[id].undo > 0
         /\ AddWheel(Popped, id, timers[id], timers[id].undo)
  /\ UNCHANGED <<clockVars, current, started, phase, drainVars, firing, since>>

\* Its ticks are over but the clock has not reached it: one more tick.
DrainEarly ==
  /\ phase = "drain"
  /\ Drained # <<>>
  /\ LET id == Head(Drained)
     IN  /\ timers[id].undo = 0
         /\ now < timers[id].expireAt
         /\ AddWheel(Popped, id, timers[id], 1)
  /\ UNCHANGED <<clockVars, current, started, phase, drainVars, firing, since>>

\* Mutant of DrainFire: the clock is not compared with the timer.
DrainFireUnchecked ==
  /\ phase = "drain"
  /\ Drained # <<>>
  /\ LET id == Head(Drained)
         t == timers[id]
         called == IF t.calls < 0 THEN t ELSE [t EXCEPT !.calls = @ - 1]
     IN  /\ t.undo = 0
         /\ firing' = id
         /\ IF called.calls # 0
              THEN /\ AddWheel(Popped, id, called, t.ticks)
                   /\ since' = [since EXCEPT ![id] = 0]
              ELSE /\ bucket' = Delist(Popped, id, t)
                   /\ Forget(id)
  /\ phase' = "callback"
  /\ UNCHANGED <<clockVars, current, started, drainVars>>

\* It is expired: put back for its next call, or deleted, then called back.
DrainFire ==
  /\ phase = "drain"
  /\ Drained # <<>>
  /\ LET id == Head(Drained)
         t == timers[id]
         called == IF t.calls < 0 THEN t ELSE [t EXCEPT !.calls = @ - 1]
     IN  /\ t.undo = 0
         /\ now >= t.expireAt
         /\ firing' = id
         /\ IF called.calls # 0
              THEN /\ AddWheel(Popped, id, called, t.ticks)
                   /\ since' = [since EXCEPT ![id] = 0]
              ELSE /\ bucket' = Delist(Popped, id, t)
                   /\ Forget(id)
  /\ phase' = "callback"
  /\ UNCHANGED <<clockVars, current, started, drainVars>>

CallbackReturn ==
  /\ phase = "callback"
  /\ phase' = "drain"
  /\ firing' = 0
  /\ UNCHANGED <<clockVars, timers, bucket, current, started, drainVars, since>>

\* The bucket is empty: the next wheel if this one wrapped, else the next tick.
LeaveWheel ==
  /\ phase = "drain"
  /\ Drained = <<>>
  /\ IF current[wheel] = 0 /\ wheel < NumWheels
       THEN EnterWheel(wheel + 1)
       ELSE phase' = "tick" /\ wheel' = 1 /\ drained' = 0 /\ UNCHANGED current
  /\ UNCHANGED <<clockVars, timers, bucket, started, ticksLeft, firing, since>>

-----------------------------------------------------------------------------
Calls ==
  \/ \E ms \in Expires, calls \in CallTimes : AddTimer(ms, calls)
  \/ \E id \in 1..started : RemoveTimer(id)

OnExpired == \/ BeginTick \/ EndRead \/ DrainUndo \/ DrainEarly \/ DrainFire
             \/ CallbackReturn \/ LeaveWheel

Next == Calls \/ OnRead \/ OnExpired \/ \E d \in Steps : Advance(d)

SafeSpec == Init /\ [][Next]_vars

\* OnExpired is a function of the loop's thread: once called it keeps running.
Spec == SafeSpec /\ WF_vars(OnExpired)

-----------------------------------------------------------------------------
(* Properties. *)

\* A live timer is listed once, in the bucket its wheel_ and bucket_ name, and
\* nothing else is listed.  RemoveTimer finds a timer by these two fields and
\* then deletes it: were it listed elsewhere, OnExpired would read freed memory.
Placement ==
  \A i \in Wheels : \A b \in DOMAIN bucket[i] :
    LET list == bucket[i][b]
    IN /\ \A k, l \in DOMAIN list : list[k] = list[l] => k = l
       /\ \A id \in Ids : (\E k \in DOMAIN list : list[k] = id)
                             <=> id \in Live /\ timers[id].wheel = i /\ timers[id].bucket = b

\* Right after OnExpired, a timer that has not been called back is not a whole
\* tick past its moment, however it travelled through the wheels, whenever it
\* was started in between two ticks and however many ticks were made up for.
\* (For a clock that is not set back, gaps an int of nanoseconds can hold and timers
\* of at least one tick: one of none waits for a whole turn of the first wheel.)
NoneOverdue ==
  /\ TypeOK
  /\ phase = "idle" /\ now = timestamp =>
       \A id \in Live : since[id] = -1 => now < timers[id].expireAt + TickUnits

\* A repeating timer that the first wheel can hold is called back exactly every
\* expire_tick_counts ticks.  For longer ones this is only a bound from above:
\* one that is put back while its wheel's successor still has to be drained in
\* the same tick comes round a whole turn early.
\* (For a clock that is not set back and timers of at least one tick.)
RepeatsOnTime ==
  [][firing' \notin {0, firing} /\ since[firing'] # -1 =>
       LET gap == since[firing']
           ticks == timers[firing'].ticks
       IN  IF ticks < BucketNum[1] THEN gap = ticks ELSE gap <= ticks]_vars

\* OnExpired comes to an end: what callbacks and repeating timers add does not
\* refill the bucket that is drained.  (For timers of at least one tick.)
DrainEnds == phase = "drain" ~> phase = "idle"

\* The wheels implement a set of timers: none is called back before its moment,
\* more often than asked for or after it was stopped.
Service == INSTANCE TimerService WITH
  Times <- 0..MaxClock,
  due <- [id \in Live |-> timers[id].expireAt],
  owed <- [id \in Live |-> timers[id].calls],
  used <- 1..started,
  running <- firing
ServiceSpec == Service!Spec
=============================================================================
