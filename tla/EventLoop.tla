----------------------------- MODULE EventLoop -----------------------------
(***************************************************************************)
(* mysya/ioevent/event_loop.cc and event_channel.cc: one event loop, the   *)
(* channels attached to it and the callbacks other threads push to it.     *)
(*                                                                         *)
(* A channel is named by its address: epoll hands the loop a pointer, and  *)
(* a channel that is destroyed leaves its memory, attach_id_ included, to  *)
(* be read by the loop until another channel is built there.               *)
(*                                                                         *)
(* What a callback does is up to the application: while one runs, the      *)
(* handler actions below may be taken any number of times before it        *)
(* returns.  epoll_ctl is assumed to succeed.                              *)
(***************************************************************************)
EXTENDS Naturals, Sequences, FiniteSets

CONSTANTS Channels,     \* addresses of event channels
          Timer,        \* the channel of the timing wheel, always attached
          Wakeup,       \* wakeup_event_channel_, always attached
          Threads,      \* threads that push callbacks, the loop's own included
          Loop,         \* the thread that runs Loop()
          Quitters,     \* the threads that may call Quit()
          BuildCallbacks, \* the callbacks channels are built with
          MaxAttach,    \* bound: attach ids
          MaxPush       \* bound: calls of PushWakeupCallback

ASSUME EventLoopAssumption ==
  /\ IsFiniteSet(Channels)
  /\ Timer \in Channels
  /\ Wakeup \notin Channels
  /\ Loop \in Threads
  /\ Quitters \subseteq Threads
  /\ BuildCallbacks \subseteq SUBSET {"read", "write", "error"}
  /\ MaxAttach \in Nat \ {0}
  /\ MaxPush \in Nat

\* The order in which Loop() handles what epoll reports of one descriptor.
Kinds == <<"read", "write", "error">>
KindSet == {"read", "write", "error"}

Pushes == 1..MaxPush

VARIABLES
  phase,        \* where the loop is in Loop()
  quit,         \* quit_
  alive,        \* the channels that exist
  attached,     \* those whose event_loop_ is this loop
  attachId,     \* attach_id_, also of memory whose channel is gone
  callbacks,    \* the callbacks each channel has
  lastId,       \* the last id AttachIdAllocator gave
  removed,      \* removed_event_channels_
  batch,        \* what is left of active_events_: pointer, registration, events
  counter,      \* the eventfd's counter is not zero
  edge,         \* a write to the eventfd that epoll has not reported
  wakeupCbs,    \* wakeup_cbs_
  running,      \* cbs: the callbacks DoWakeupCallback still has to run
  pushPc,       \* where each thread is in PushWakeupCallback
  pushed,       \* history: pushed callbacks, in order
  ran           \* history: callbacks run, in order

channelVars == <<alive, attached, attachId, callbacks, lastId, removed>>
wakeupVars == <<counter, edge, wakeupCbs, running, pushPc, pushed, ran>>
vars == <<phase, quit, channelVars, batch, wakeupVars>>

Reports == [channel : Channels \union {Wakeup}, registration : 0..MaxAttach,
            events : SUBSET KindSet]

TypeOK ==
  /\ phase \in {"start", "check", "wait", "dispatch", "callback", "run", "wakeup", "ended"}
  /\ quit \in BOOLEAN
  /\ alive \subseteq Channels
  /\ attached \subseteq alive
  /\ attachId \in [Channels -> 0..MaxAttach]
  /\ callbacks \in [Channels -> SUBSET KindSet]
  /\ lastId \in 1..MaxAttach
  /\ removed \subseteq 1..lastId
  /\ batch \in Seq(Reports)
  /\ counter \in BOOLEAN
  /\ edge \in BOOLEAN
  /\ wakeupCbs \in Seq(Pushes)
  /\ running \in Seq(Pushes)
  /\ pushPc \in [Threads -> {"idle", "pushed"}]
  /\ pushed \in Seq(Pushes)
  /\ ran \in Seq(Pushes)

\* The constructor attaches the timer's and the wakeup channel; Loop() is
\* called later, by the thread that runs the loop.
Init ==
  /\ phase = "start"
  /\ quit = FALSE
  /\ alive = {Timer}
  /\ attached = {Timer}
  /\ attachId = [c \in Channels |-> IF c = Timer THEN 1 ELSE 0]
  /\ callbacks = [c \in Channels |-> IF c = Timer THEN {"read"} ELSE {}]
  /\ lastId = 1
  /\ removed = {}
  /\ batch = <<>>
  /\ counter = FALSE
  /\ edge = FALSE
  /\ wakeupCbs = <<>>
  /\ running = <<>>
  /\ pushPc = [t \in Threads |-> "idle"]
  /\ pushed = <<>>
  /\ ran = <<>>

-----------------------------------------------------------------------------
(* Channels: what a callback of the application may do with them. *)

\* Code of the application runs in the loop's thread.
InCallback == phase \in {"callback", "wakeup"} /\ pushPc[Loop] = "idle"

\* Mutant of Detach: the id is forgotten.
DetachForgets(c) == UNCHANGED removed

\* RemoveEventChannel: the id of a registration that ended is remembered.
Detach(c) == removed' = removed \union {attachId[c]}

\* Mutant of Attach: an attached channel keeps its id.
AttachKeepsId(c) ==
  /\ lastId < MaxAttach
  /\ attached' = attached \union {c}
  /\ IF c \in attached THEN Detach(c) /\ UNCHANGED <<lastId, attachId>>
     ELSE /\ UNCHANGED removed
          /\ lastId' = lastId + 1
          /\ attachId' = [attachId EXCEPT ![c] = lastId']

\* AttachEventLoop: an attached channel is detached first; the new registration
\* gets an id that no other had (seconds in the upper half of the id and a
\* count in the lower one, which 2^32 registrations do not exhaust).
Attach(c) ==
  /\ lastId < MaxAttach
  /\ IF c \in attached THEN Detach(c) ELSE UNCHANGED removed
  /\ attached' = attached \union {c}
  /\ lastId' = lastId + 1
  /\ attachId' = [attachId EXCEPT ![c] = lastId']

\* A channel is built in free memory, gets its callbacks and is attached, as
\* TcpSocketApp::Build...Socket does.
Build(c) ==
  /\ InCallback
  /\ c \notin alive
  /\ alive' = alive \union {c}
  /\ \E cbs \in BuildCallbacks : callbacks' = [callbacks EXCEPT ![c] = cbs]
  /\ Attach(c)
  /\ UNCHANGED <<phase, quit, batch, wakeupVars>>

AttachEventLoop(c) ==
  /\ InCallback
  /\ c \in alive \ {Timer}
  /\ Attach(c)
  /\ UNCHANGED <<phase, quit, alive, callbacks, batch, wakeupVars>>

DetachEventLoop(c) ==
  /\ InCallback
  /\ c \in attached \ {Timer}
  /\ Detach(c)
  /\ attached' = attached \ {c}
  /\ UNCHANGED <<phase, quit, alive, attachId, callbacks, lastId, batch, wakeupVars>>

\* Mutant of Destroy: an attached channel is not detached.
DestroyAttached(c) ==
  /\ InCallback
  /\ c \in alive \ {Timer}
  /\ alive' = alive \ {c}
  /\ UNCHANGED <<phase, quit, attached, attachId, callbacks, lastId, removed, batch,
                 wakeupVars>>

\* ~TcpSocket closes the socket, which detaches it, before its channel goes.
Destroy(c) ==
  /\ InCallback
  /\ c \in alive \ attached
  /\ alive' = alive \ {c}
  /\ UNCHANGED <<phase, quit, attached, attachId, callbacks, lastId, removed, batch,
                 wakeupVars>>

\* Set...Callback and Reset...Callback; an attached channel is updated in epoll.
ChangeCallback(c) ==
  /\ InCallback
  /\ c \in alive \ {Timer}
  /\ \E k \in KindSet :
       \E cbs \in {callbacks[c] \union {k}, callbacks[c] \ {k}} :
         callbacks' = [callbacks EXCEPT ![c] = cbs]
  /\ UNCHANGED <<phase, quit, alive, attached, attachId, lastId, removed, batch, wakeupVars>>

-----------------------------------------------------------------------------
(* PushWakeupCallback and Quit, by any thread. *)

\* The loop's own thread calls them from a callback.
MayCall(t) == t = Loop => InCallback

\* Under wakeup_mutex_ the callback is appended.
PushCallback(t) ==
  /\ MayCall(t)
  /\ pushPc[t] = "idle"
  /\ Len(pushed) < MaxPush
  /\ LET cb == Len(pushed) + 1
     IN  wakeupCbs' = Append(wakeupCbs, cb) /\ pushed' = Append(pushed, cb)
  /\ pushPc' = [pushPc EXCEPT ![t] = "pushed"]
  /\ UNCHANGED <<phase, quit, channelVars, batch, counter, edge, running, ran>>

\* Mutant of PushWakeup: the loop's own thread need not be woken.
PushWakeupForeign(t) ==
  /\ pushPc[t] = "pushed"
  /\ counter' = (counter \/ t # Loop)
  /\ edge' = (edge \/ t # Loop)
  /\ pushPc' = [pushPc EXCEPT ![t] = "idle"]
  /\ UNCHANGED <<phase, quit, channelVars, batch, wakeupCbs, running, pushed, ran>>

\* Wakeup(): the eventfd is written.
PushWakeup(t) ==
  /\ pushPc[t] = "pushed"
  /\ counter' = TRUE
  /\ edge' = TRUE
  /\ pushPc' = [pushPc EXCEPT ![t] = "idle"]
  /\ UNCHANGED <<phase, quit, channelVars, batch, wakeupCbs, running, pushed, ran>>

Quit(t) ==
  /\ MayCall(t)
  /\ quit' = TRUE
  /\ UNCHANGED <<phase, channelVars, batch, wakeupVars>>

-----------------------------------------------------------------------------
(* Loop() *)

\* quit_ = false: what was set before is forgotten.
LoopStart ==
  /\ phase = "start"
  /\ quit' = FALSE
  /\ phase' = "check"
  /\ UNCHANGED <<channelVars, batch, wakeupVars>>

\* Mutant of Check: the flag is cleared on every turn of the loop.
CheckAgain ==
  /\ phase = "check"
  /\ phase' = "wait"
  /\ quit' = FALSE
  /\ UNCHANGED <<channelVars, batch, wakeupVars>>

\* while (quit_ == false)
Check ==
  /\ phase = "check"
  /\ phase' = IF quit THEN "ended" ELSE "wait"
  /\ UNCHANGED <<quit, channelVars, batch, wakeupVars>>

\* What epoll may report of a channel: what AddEventChannel or
\* UpdateEventChannel asked for, and errors in any case.
Interest(c) ==
  IF c = Wakeup THEN {"read"} ELSE callbacks[c] \union {"error"}

Report(c, events) ==
  [channel |-> c, registration |-> IF c = Wakeup THEN 0 ELSE attachId[c], events |-> events]

Orders(S) ==
  {f \in [1..Cardinality(S) -> S] : \A i, j \in DOMAIN f : f[i] = f[j] => i = j}

\* epoll_wait returns the channels of "ready" and, when it was written since
\* the last report and not read empty, the eventfd; in any order.
WaitFor(ready) ==
  /\ phase = "wait"
  /\ LET reported == ready \union IF counter /\ edge THEN {Wakeup} ELSE {}
     IN  /\ reported # {}
         /\ \E order \in Orders(reported) :
              \E events \in [reported -> SUBSET KindSet \ {{}}] :
                /\ \A c \in reported : events[c] \subseteq Interest(c)
                /\ batch' = [i \in DOMAIN order |-> Report(order[i], events[order[i]])]
  /\ edge' = (edge /\ ~counter)
  /\ phase' = "dispatch"
  /\ UNCHANGED <<quit, channelVars, counter, wakeupCbs, running, pushPc, pushed, ran>>

Wait == \E ready \in SUBSET attached : WaitFor(ready)

\* The event of the batch that is handled now, and which of its kinds.
Event == Head(batch)
Kind == Kinds[CHOOSE i \in 1..3 : /\ Kinds[i] \in Event.events
                                  /\ \A j \in 1..(i - 1) : Kinds[j] \notin Event.events]

\* The batch after the event's kind was handled.
Handled ==
  IF Event.events = {Kind} THEN Tail(batch)
  ELSE <<[Event EXCEPT !.events = @ \ {Kind}]>> \o Tail(batch)

CheckEventChannelRemoved(c) == c # Wakeup /\ attachId[c] \in removed

HasCallback(c, kind) == kind \in IF c = Wakeup THEN {"read"} ELSE callbacks[c]

\* A channel that was removed: the rest of its event is skipped.
SkipRemoved ==
  /\ phase = "dispatch"
  /\ batch # <<>>
  /\ CheckEventChannelRemoved(Event.channel)
  /\ batch' = Tail(batch)
  /\ UNCHANGED <<phase, quit, channelVars, wakeupVars>>

\* There is no callback for the kind of the event.
SkipUnset ==
  /\ phase = "dispatch"
  /\ batch # <<>>
  /\ ~CheckEventChannelRemoved(Event.channel)
  /\ ~HasCallback(Event.channel, Kind)
  /\ batch' = Handled
  /\ UNCHANGED <<phase, quit, channelVars, wakeupVars>>

\* The eventfd is readable: OnWakeupRead reads its counter.
OnWakeupRead ==
  /\ phase = "dispatch"
  /\ batch # <<>>
  /\ Event.channel = Wakeup
  /\ batch' = Handled
  /\ counter' = FALSE
  /\ UNCHANGED <<phase, quit, channelVars, edge, wakeupCbs, running, pushPc, pushed, ran>>

\* Mutant of Call: the channel is looked up once per event, before its first kind.
CallCheckedOnce ==
  /\ phase = "dispatch"
  /\ batch # <<>>
  /\ Event.channel # Wakeup
  /\ Kind = "error" \/ ~CheckEventChannelRemoved(Event.channel)
  /\ HasCallback(Event.channel, Kind)
  /\ phase' = "callback"
  /\ batch' = Handled
  /\ UNCHANGED <<quit, channelVars, wakeupVars>>

\* The callback for one kind of the event is called.
Call ==
  /\ phase = "dispatch"
  /\ batch # <<>>
  /\ Event.channel # Wakeup
  /\ ~CheckEventChannelRemoved(Event.channel)
  /\ HasCallback(Event.channel, Kind)
  /\ phase' = "callback"
  /\ batch' = Handled
  /\ UNCHANGED <<quit, channelVars, wakeupVars>>

CallReturn ==
  /\ phase = "callback"
  /\ InCallback
  /\ phase' = "dispatch"
  /\ UNCHANGED <<quit, channelVars, batch, wakeupVars>>

\* Mutant of DoWakeupCallback: the vector is copied, not swapped.
DoWakeupCallbackCopy ==
  /\ phase = "dispatch"
  /\ batch = <<>>
  /\ removed' = {}
  /\ running' = wakeupCbs
  /\ phase' = "run"
  /\ UNCHANGED <<quit, alive, attached, attachId, callbacks, lastId, batch, counter, edge,
                 wakeupCbs, pushPc, pushed, ran>>

\* The batch is done: removed_event_channels_.clear(), which only the loop's
\* thread sees, and the swap of wakeup_cbs_ under wakeup_mutex_.
DoWakeupCallback ==
  /\ phase = "dispatch"
  /\ batch = <<>>
  /\ removed' = {}
  /\ running' = wakeupCbs
  /\ wakeupCbs' = <<>>
  /\ phase' = "run"
  /\ UNCHANGED <<quit, alive, attached, attachId, callbacks, lastId, batch, counter, edge,
                 pushPc, pushed, ran>>

\* The next of the callbacks that were swapped out is called.
RunCallback ==
  /\ phase = "run"
  /\ running # <<>>
  /\ ran' = Append(ran, Head(running))
  /\ running' = Tail(running)
  /\ phase' = "wakeup"
  /\ UNCHANGED <<quit, channelVars, batch, counter, edge, wakeupCbs, pushPc, pushed>>

RunReturn ==
  /\ phase = "wakeup"
  /\ InCallback
  /\ phase' = "run"
  /\ UNCHANGED <<quit, channelVars, batch, wakeupVars>>

RunEnd ==
  /\ phase = "run"
  /\ running = <<>>
  /\ phase' = "check"
  /\ UNCHANGED <<quit, channelVars, batch, wakeupVars>>

-----------------------------------------------------------------------------
Handler ==
  \E c \in Channels :
    Build(c) \/ AttachEventLoop(c) \/ DetachEventLoop(c) \/ Destroy(c) \/ ChangeCallback(c)

Others ==
  \/ \E t \in Threads : PushCallback(t) \/ PushWakeup(t)
  \/ \E t \in Quitters : Quit(t)

Turn ==
  \/ LoopStart \/ Check \/ SkipRemoved \/ SkipUnset \/ OnWakeupRead \/ Call \/ CallReturn
  \/ DoWakeupCallback \/ RunCallback \/ RunReturn \/ RunEnd

Next == Handler \/ Others \/ Turn \/ Wait

\* Callbacks return, the loop's thread is scheduled, a thread that pushed a
\* callback reaches Wakeup().  Only the eventfd is promised to end epoll_wait.
Fairness ==
  /\ WF_vars(Turn)
  /\ WF_vars(counter /\ edge /\ Wait)
  /\ \A t \in Threads : WF_vars(PushWakeup(t))

SafeSpec == Init /\ [][Next]_vars

Spec == SafeSpec /\ Fairness

\* The timerfd, which expires every 10 ms, ends epoll_wait as well.
TickingSpec == Spec /\ WF_vars(\E ready \in SUBSET attached : Timer \in ready /\ WaitFor(ready))

-----------------------------------------------------------------------------
(* Properties. *)

\* No callback is called on a channel that is not attached, although the batch
\* may hold its event and earlier callbacks detached or destroyed it: the id
\* that RemoveEventChannel left in removed_event_channels_ is looked up before
\* each of the three kinds, in memory that may be free by then.
DetachedIsSilent ==
  [][phase = "dispatch" /\ phase' = "callback" => Event.channel \in attached]_vars

\* The loop never takes an attached channel for a removed one, or the events of
\* a channel that was re-attached in a callback would be skipped and, being
\* edge-triggered, not be reported again.
LiveNotSilenced == \A c \in attached : attachId[c] \notin removed

\* Why both hold: no two registrations share an id, the ids that were removed are
\* not in use, and whatever the batch still names is the eventfd, an attached
\* channel or one whose id was removed while the batch was handled.
Registrations ==
  /\ \A c \in attached : attachId[c] \in 1..lastId /\ attachId[c] \notin removed
  /\ \A c, d \in attached : attachId[c] = attachId[d] => c = d
  /\ phase \in {"dispatch", "callback"} =>
       \A i \in DOMAIN batch :
         \/ batch[i].channel \in attached \union {Wakeup}
         \/ attachId[batch[i].channel] \in removed

\* When epoll_wait blocks although a callback is queued, a wakeup that ends it
\* has been written or is about to be: none is lost between the swap and the
\* reading of the eventfd, none to a callback that pushes a callback.
NoLostWakeup ==
  phase = "wait" /\ wakeupCbs # <<>> =>
    (counter /\ edge) \/ \E t \in Threads : pushPc[t] = "pushed"

\* Between two calls of DoWakeupCallback every pushed callback is either run, or
\* swapped out, or still queued, in this order; and whenever one is queued, the
\* loop is handling a batch, after which it swaps, or a wakeup will end epoll_wait.
Wakeups ==
  /\ pushed = (ran \o running) \o wakeupCbs
  /\ phase \notin {"run", "wakeup"} => running = <<>>
  /\ wakeupCbs # <<>> =>
       \/ phase \in {"dispatch", "callback"}
       \/ counter /\ edge
       \/ \E t \in Threads : pushPc[t] = "pushed"

\* Pushed callbacks run once each, in the order they were pushed, and all of
\* them run unless the loop is quit.  (NoLostWakeup says that the timerfd's
\* ticks are not what brings them about.)
WakeupQueue == INSTANCE Fifo WITH Elements <- Pushes, sent <- pushed, received <- ran
WakeupSpec == WakeupQueue!SafeSpec /\ (<>quit \/ WF_<<pushed, ran>>(WakeupQueue!Receive))

\* Once Loop() was entered, Quit() ends it: the flag is not lost, and the loop
\* comes round to it at the latest with the next tick.
QuitEnds == (quit /\ phase # "start") ~> (phase = "ended")

\* event_loop.cc:295: "Event channel should not be use if it has been removed
\* from epoll."  While the loop handles a batch, every event in it of a
\* registration that was removed is still going to be skipped.
RemovedNotUsed ==
  phase \in {"dispatch", "callback"} =>
    \A i \in DOMAIN batch :
      LET c == batch[i].channel
      IN  c # Wakeup /\ attachId[c] # batch[i].registration => CheckEventChannelRemoved(c)
=============================================================================
