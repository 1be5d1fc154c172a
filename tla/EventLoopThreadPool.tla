------------------------ MODULE EventLoopThreadPool ------------------------
(***************************************************************************)
(* mysya/qservice/event_loop_thread_pool.cc and mysya/ioevent/thread.cc:   *)
(* the pool starts a thread per event loop; Quit ends the loops and joins  *)
(* the threads, the destructor quits and deletes them.                     *)
(*                                                                         *)
(* Of a loop only what ends it is kept (module EventLoop has the rest):    *)
(* quit_, its eventfd and the 10 ms tick of its timing wheel.  A step is   *)
(* what a thread does under Thread's mutex_; Join() alone blocks while it  *)
(* holds it, in pthread_join.                                              *)
(***************************************************************************)
EXTENDS Naturals

CONSTANT NumThreads \* thread_num

ASSUME PoolAssumption == NumThreads \in Nat \ {0}

Workers == 1..NumThreads

VARIABLES
  pc,           \* where the pool's owner is: constructor, Quit, destructor
  current,      \* the thread it is at
  destroying,   \* Quit was called by the destructor
  poolQuit,     \* quit_ of the pool
  next,         \* current_ of the pool, modulo the number of threads
  freed,        \* the EventLoopThreads that were deleted
  started,      \* started_ of each Thread
  joined,       \* joined_ of each Thread
  at,           \* where each thread is, in StartThread and Loop
  loopQuit,     \* quit_ of each loop
  woken         \* whether the eventfd of each loop is readable

ownerVars == <<pc, current, destroying, poolQuit, next, freed>>
threadVars == <<started, joined, at>>
loopVars == <<loopQuit, woken>>
poolVars == <<ownerVars, threadVars, loopVars>>

PoolTypeOK ==
  /\ pc \in {"start", "threw", "serve", "wakeup", "quit", "wait", "join", "delete", "done"}
  /\ current \in 1..(NumThreads + 1)
  /\ destroying \in BOOLEAN
  /\ poolQuit \in BOOLEAN
  /\ next \in 0..(NumThreads - 1)
  /\ freed \subseteq Workers
  /\ started \in [Workers -> BOOLEAN]
  /\ joined \in [Workers -> BOOLEAN]
  /\ at \in [Workers -> {"none", "created", "entry", "check", "epoll", "ended", "last", "gone"}]
  /\ loopQuit \in [Workers -> BOOLEAN]
  /\ woken \in [Workers -> BOOLEAN]

PoolInit ==
  /\ pc = "start"
  /\ current = 1
  /\ destroying = FALSE
  /\ poolQuit = FALSE
  /\ next = 0
  /\ freed = {}
  /\ started = [i \in Workers |-> FALSE]
  /\ joined = [i \in Workers |-> FALSE]
  /\ at = [i \in Workers |-> "none"]
  /\ loopQuit = [i \in Workers |-> FALSE]
  /\ woken = [i \in Workers |-> FALSE]

-----------------------------------------------------------------------------
(* Thread *)

\* Join() holds mutex_ while it waits for the thread to be gone.
Locked(i) == pc = "join" /\ current = i

\* The thread begins.
StartThread(i) ==
  /\ at[i] = "created"
  /\ ~Locked(i)
  /\ started' = [started EXCEPT ![i] = TRUE]
  /\ at' = [at EXCEPT ![i] = "entry"]
  /\ UNCHANGED <<ownerVars, joined, loopVars>>

\* thread_func_ returned.
EndThread(i) ==
  /\ at[i] = "ended"
  /\ ~Locked(i)
  /\ started' = [started EXCEPT ![i] = FALSE]
  /\ at' = [at EXCEPT ![i] = "last"]
  /\ UNCHANGED <<ownerVars, joined, loopVars>>

\* The thread leaves StartThread, and the object with it.
Leave(i) ==
  /\ at[i] = "last"
  /\ at' = [at EXCEPT ![i] = "gone"]
  /\ UNCHANGED <<ownerVars, started, joined, loopVars>>

-----------------------------------------------------------------------------
(* The thread's loop *)

\* Loop() begins by clearing quit_, set or not.
EnterLoop(i) ==
  /\ at[i] = "entry"
  /\ loopQuit' = [loopQuit EXCEPT ![i] = FALSE]
  /\ at' = [at EXCEPT ![i] = "check"]
  /\ UNCHANGED <<ownerVars, started, joined, woken>>

LoopCheck(i) ==
  /\ at[i] = "check"
  /\ at' = [at EXCEPT ![i] = IF loopQuit[i] THEN "ended" ELSE "epoll"]
  /\ UNCHANGED <<ownerVars, started, joined, loopVars>>

\* epoll_wait returns because of the eventfd, which OnWakeupRead empties.
Woken(i) ==
  /\ at[i] = "epoll"
  /\ woken[i]
  /\ woken' = [woken EXCEPT ![i] = FALSE]
  /\ at' = [at EXCEPT ![i] = "check"]
  /\ UNCHANGED <<ownerVars, started, joined, loopQuit>>

\* epoll_wait returns because of the timing wheel's timerfd.
Tick(i) ==
  /\ at[i] = "epoll"
  /\ at' = [at EXCEPT ![i] = "check"]
  /\ UNCHANGED <<ownerVars, started, joined, loopVars>>

-----------------------------------------------------------------------------
(* The pool *)

\* The owner's place in the constructor once the current thread is started.
Started == IF current = NumThreads THEN "serve" ELSE "start"

\* Thread::Start: mutex_ is held until pthread_create and started_ are done.
Start ==
  /\ pc = "start"
  /\ at' = [at EXCEPT ![current] = "created"]
  /\ started' = [started EXCEPT ![current] = TRUE]
  /\ pc' = Started
  /\ current' = current + 1
  /\ UNCHANGED <<destroying, poolQuit, next, freed, joined, loopVars>>

\* pthread_create fails: the constructor throws, its unique_ptr deletes the
\* thread it was at, and those before it run on.
StartFails ==
  /\ pc = "start"
  /\ freed' = freed \union {current}
  /\ pc' = "threw"
  /\ UNCHANGED <<current, destroying, poolQuit, next, threadVars, loopVars>>

\* Mutant: current_ is used without the modulo.
AllocateUnwrapped ==
  /\ pc = "serve"
  /\ ~poolQuit
  /\ next' = next + 1
  /\ UNCHANGED <<pc, current, destroying, poolQuit, freed, threadVars, loopVars>>

Allocate ==
  /\ pc = "serve"
  /\ ~poolQuit
  /\ next' = (next + 1) % NumThreads
  /\ UNCHANGED <<pc, current, destroying, poolQuit, freed, threadVars, loopVars>>

\* Mutant: quit_ is set before the threads are joined.
QuitFlagFirst ==
  /\ pc = "serve"
  /\ ~poolQuit
  /\ poolQuit' = TRUE
  /\ pc' = "wakeup"
  /\ current' = 1
  /\ UNCHANGED <<destroying, next, freed, threadVars, loopVars>>

\* Quit(), by the owner or by the destructor; the second one returns at once.
QuitPool ==
  /\ pc = "serve"
  /\ ~poolQuit
  /\ pc' = "wakeup"
  /\ current' = 1
  /\ UNCHANGED <<destroying, poolQuit, next, freed, threadVars, loopVars>>

DestroyPool ==
  /\ pc = "serve"
  /\ destroying' = TRUE
  /\ pc' = IF poolQuit THEN "delete" ELSE "wakeup"
  /\ current' = 1
  /\ UNCHANGED <<poolQuit, next, freed, threadVars, loopVars>>

QuitWakeup ==
  /\ pc = "wakeup"
  /\ woken' = [woken EXCEPT ![current] = TRUE]
  /\ pc' = "quit"
  /\ UNCHANGED <<current, destroying, poolQuit, next, freed, threadVars, loopQuit>>

QuitLoop ==
  /\ pc = "quit"
  /\ loopQuit' = [loopQuit EXCEPT ![current] = TRUE]
  /\ pc' = "wait"
  /\ UNCHANGED <<current, destroying, poolQuit, next, freed, threadVars, woken>>

\* Mutant: pthread_join is called without waiting for started_ to be cleared.
JoinAtOnce ==
  /\ pc = "wait"
  /\ pc' = "join"
  /\ UNCHANGED <<current, destroying, poolQuit, next, freed, threadVars, loopVars>>

\* Join(): the condition variable, until started_ is cleared.
JoinWait ==
  /\ pc = "wait"
  /\ ~started[current]
  /\ pc' = "join"
  /\ UNCHANGED <<current, destroying, poolQuit, next, freed, threadVars, loopVars>>

\* Where Quit() goes on once its last thread is joined.
AfterQuit == IF destroying THEN "delete" ELSE "serve"

\* Mutant: started_ cleared is taken for the end of the thread.
JoinStartedOnly ==
  /\ pc = "join"
  /\ joined' = [joined EXCEPT ![current] = TRUE]
  /\ IF current < NumThreads
     THEN /\ pc' = "wakeup"
          /\ current' = current + 1
          /\ UNCHANGED poolQuit
     ELSE /\ pc' = AfterQuit
          /\ current' = 1
          /\ poolQuit' = TRUE
  /\ UNCHANGED <<destroying, next, freed, started, at, loopVars>>

\* Join(): pthread_join returns (the pool joins no thread twice: joined_ is false).
Join ==
  /\ pc = "join"
  /\ at[current] = "gone"
  /\ joined' = [joined EXCEPT ![current] = TRUE]
  /\ IF current < NumThreads
     THEN /\ pc' = "wakeup"
          /\ current' = current + 1
          /\ UNCHANGED poolQuit
     ELSE /\ pc' = AfterQuit
          /\ current' = 1
          /\ poolQuit' = TRUE
  /\ UNCHANGED <<destroying, next, freed, started, at, loopVars>>

\* The destructor's loop of deletes.
Delete ==
  /\ pc = "delete"
  /\ freed' = freed \union {current}
  /\ current' = current + 1
  /\ pc' = IF current = NumThreads THEN "done" ELSE "delete"
  /\ UNCHANGED <<destroying, poolQuit, next, threadVars, loopVars>>

-----------------------------------------------------------------------------
ThreadStep(i) ==
  StartThread(i) \/ EndThread(i) \/ Leave(i)
    \/ EnterLoop(i) \/ LoopCheck(i) \/ Woken(i) \/ Tick(i)

QuitStep == QuitWakeup \/ QuitLoop \/ JoinWait \/ Join \/ Delete

PoolNext ==
  \/ Start \/ StartFails \/ Allocate \/ QuitPool \/ DestroyPool \/ QuitStep
  \/ \E i \in Workers : ThreadStep(i)

PoolSpec == PoolInit /\ [][PoolNext]_poolVars

\* Threads are scheduled, the timerfd is periodic, and an owner inside Quit
\* or the destructor goes on; nobody has to call them.
FairPoolSpec == PoolSpec /\ WF_poolVars(QuitStep) /\ \A i \in Workers : WF_poolVars(ThreadStep(i))

-----------------------------------------------------------------------------
(* Properties *)

\* A thread that may still touch its EventLoopThread.
Running(i) == at[i] \notin {"none", "gone"}

\* No EventLoopThread is deleted before its thread has left StartThread, be it
\* by the destructor or by a constructor that throws: Thread::Join waits for
\* more than started_, which a thread clears while it is inside the object.
NoUseAfterDelete == PoolTypeOK /\ \A i \in freed : ~Running(i)

\* Once quit_ of the pool is set no thread runs: Quit() sets it last, and a
\* second Quit() that returns at once may rely on it.
QuitMeansEnded == poolQuit => \A i \in Workers : ~Running(i)

Entered(i) == at[i] \notin {"none", "created", "entry"}

\* A Quit() that finds every thread inside Loop() returns: the wakeup that
\* precedes the flag may be spent before the flag is seen, then the next tick
\* ends the loop, and Join() never holds the mutex_ the thread needs to end.
\* (A thread that enters Loop() after the flag was set clears it, and Quit()
\* waits for ever: the premise is needed.)
QuitReturns ==
  (pc = "wakeup" /\ current = 1 /\ \A i \in Workers : Entered(i)) ~> poolQuit

=============================================================================
