------------------------------ MODULE Timestamp ------------------------------
(* mysya/util/timestamp.cc: points in time as seconds and nanoseconds, which    *)
(* loops compare, timers and queues move on and measure.  A clock is read, or   *)
(* set to a number of milliseconds, copied, and moved on again and again; what  *)
(* time it really is runs along as one number.  No caller moves a Timestamp     *)
(* back.                                                                        *)
EXTENDS Integers

CONSTANTS
  Milli, Micro, Nano,   \* milliseconds in a second, ...: 1000 in the code
  MaxSecond,            \* bound on the seconds
  Delays                \* milliseconds that are added

TimestampConstants ==
  /\ {Milli, Micro, Nano} \subseteq Nat \ {0} /\ MaxSecond \in Nat /\ Delays \subseteq Nat

VARIABLES
  stamp, other,         \* two Timestamps: [second, nanosecond]
  instant, otherInstant \* history: the nanoseconds they stand for

stampVars == <<stamp, other, instant, otherInstant>>

InMilli == Micro * Nano
InSecond == Milli * InMilli

\* Timestamp::SetNow, from clock_gettime.
SetNow ==
  \E second \in 0..MaxSecond, nanosecond \in 0..InSecond - 1 :
    /\ stamp' = [second |-> second, nanosecond |-> nanosecond]
    /\ instant' = second * InSecond + nanosecond

\* operator=(millisecond).
SetMillisecond ==
  \E millisecond \in Delays :
    /\ stamp' = [second |-> millisecond \div Milli, nanosecond |-> (millisecond % Milli) * InMilli]
    /\ instant' = millisecond * InMilli

\* operator+=.
Plus(t, millisecond) ==
  LET second == t.second + millisecond \div Milli
      nanosecond == t.nanosecond + (millisecond % Milli) * InMilli
  IN IF nanosecond > InSecond
     THEN [second |-> second + 1, nanosecond |-> nanosecond - InSecond]
     ELSE [second |-> second, nanosecond |-> nanosecond]

Add ==
  \E millisecond \in Delays :
    /\ stamp.second <= MaxSecond
    /\ stamp' = Plus(stamp, millisecond)
    /\ instant' = instant + millisecond * InMilli

\* operator=(other).
Assign == other' = stamp /\ otherInstant' = instant

\* operator<.
Before(t, u) ==
  IF t.second # u.second THEN t.second < u.second ELSE t.nanosecond < u.nanosecond

\* Division as in C++, which rounds towards zero.
Quotient(a, b) == IF a >= 0 THEN a \div b ELSE -((-a) \div b)

\* The seconds between, and the nanoseconds, of the later one.
SecondsBetween(t, u) == IF Before(t, u) THEN u.second - t.second ELSE t.second - u.second
NanosBetween(t, u) ==
  IF Before(t, u) THEN u.nanosecond - t.nanosecond ELSE t.nanosecond - u.nanosecond

DistanceSecond(t, u) == IF t.second > u.second THEN t.second - u.second ELSE u.second - t.second
DistanceMillisecond(t, u) == SecondsBetween(t, u) * Milli + Quotient(NanosBetween(t, u), InMilli)
DistanceMicroSecond(t, u) ==
  SecondsBetween(t, u) * Milli * Micro + Quotient(NanosBetween(t, u), Nano)
DistanceNanoSecond(t, u) == SecondsBetween(t, u) * InSecond + NanosBetween(t, u)

StampInit ==
  /\ stamp = [second |-> 0, nanosecond |-> 0] /\ other = stamp
  /\ instant = 0 /\ otherInstant = 0

StampNext ==
  \/ (SetNow \/ SetMillisecond \/ Add) /\ UNCHANGED <<other, otherInstant>>
  \/ Assign /\ UNCHANGED <<stamp, instant>>

-----------------------------------------------------------------------------
(* Properties *)

\* The distance in ns of the two instants.
Apart == IF instant < otherInstant THEN otherInstant - instant ELSE instant - otherInstant

\* However often it is moved on, a Timestamp is the instant it should be; it may end with a
\* whole second of nanoseconds, but never more, and then still comes before what is later
\* and never before what is earlier.  What is measured is right up to one unit, to either
\* side, as the rest may be rounded up; whole seconds do not look at it.
TimesKept ==
  /\ instant = stamp.second * InSecond + stamp.nanosecond
  /\ stamp.nanosecond \in 0..InSecond
  /\ instant < otherInstant => Before(stamp, other)
  /\ Before(stamp, other) => instant <= otherInstant
  /\ DistanceNanoSecond(stamp, other) = Apart
  /\ LET milli == DistanceMillisecond(stamp, other) * InMilli - Apart
         micro == DistanceMicroSecond(stamp, other) * Nano - Apart
         second == DistanceSecond(stamp, other) * InSecond - Apart
     IN /\ -InMilli < milli /\ milli < InMilli /\ -Nano < micro /\ micro < Nano
        /\ -InSecond <= second /\ second <= InSecond

=============================================================================
