---------------------------- MODULE TimerService ----------------------------
(***************************************************************************)
(* What StartTimer and StopTimer of an event loop promise, without wheels, *)
(* buckets or ticks: a set of live timers, each with the moment before     *)
(* which it must not be called back and the number of callbacks it still   *)
(* owes.  A stopped or used-up timer is never called back; at most one     *)
(* callback runs at a time.  TimingWheel implements it.                    *)
(***************************************************************************)
EXTENDS Integers

CONSTANTS Ids,          \* timer ids
          Times         \* readings of the clock

VARIABLES now,          \* the loop's clock
          due,          \* live timers: id -> earliest first callback
          owed,         \* live timers: id -> callbacks left, negative: no end
          used,         \* ids handed out so far
          running       \* the timer whose callback runs, or 0

serviceVars == <<now, due, owed, used, running>>

Live == DOMAIN due

Without(f, id) == [i \in DOMAIN f \ {id} |-> f[i]]
With(f, id, v) == [i \in DOMAIN f \union {id} |-> IF i = id THEN v ELSE f[i]]

Init ==
  /\ now \in Times
  /\ due = [i \in {} |-> 0]
  /\ owed = [i \in {} |-> 0]
  /\ used = {}
  /\ running = 0

Clock == now' \in Times /\ UNCHANGED <<due, owed, used, running>>

Start(id) ==
  /\ id \notin used
  /\ used' = used \union {id}
  /\ DOMAIN due' = Live \union {id}
  /\ DOMAIN owed' = Live \union {id}
  /\ due'[id] >= now
  /\ owed'[id] # 0
  /\ \A i \in Live : due'[i] = due[i] /\ owed'[i] = owed[i]
  /\ UNCHANGED <<now, running>>

Stop(id) ==
  /\ due' = Without(due, id)
  /\ owed' = Without(owed, id)
  /\ UNCHANGED <<now, used, running>>

\* The last callback a timer owes ends it before the callback runs.
Fire(id) ==
  /\ running = 0
  /\ id \in Live
  /\ due[id] <= now
  /\ running' = id
  /\ IF owed[id] = 1
       THEN due' = Without(due, id) /\ owed' = Without(owed, id)
       ELSE /\ UNCHANGED due
            /\ owed' = IF owed[id] < 0 THEN owed ELSE [owed EXCEPT ![id] = @ - 1]
  /\ UNCHANGED <<now, used>>

Return == running # 0 /\ running' = 0 /\ UNCHANGED <<now, due, owed, used>>

Next ==
  \/ Clock
  \/ Return
  \/ \E id \in Ids : Start(id) \/ Stop(id) \/ Fire(id)

Spec == Init /\ [][Next]_serviceVars
=============================================================================
