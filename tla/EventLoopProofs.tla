-------------------------- MODULE EventLoopProofs --------------------------
(***************************************************************************)
(* Proofs about EventLoop, for any number of channels, registrations,      *)
(* threads and pushed callbacks, and at the end about EventLoopThreadPool, *)
(* for any number of threads.                                              *)
(***************************************************************************)
EXTENDS EventLoop, EventLoopThreadPool, SequenceTheorems, FiniteSetTheorems, TLAPS

-----------------------------------------------------------------------------
(* The batch. *)

\* What epoll_wait reports is a sequence of reports, each of the eventfd or of a
\* channel that is attached.
LEMMA Reported ==
  ASSUME TypeOK, NEW ready \in SUBSET attached, WaitFor(ready)
  PROVE  /\ batch' \in Seq(Reports)
         /\ \A i \in DOMAIN batch' : batch'[i].channel \in attached \union {Wakeup}
<1> DEFINE reported == ready \union IF counter /\ edge THEN {Wakeup} ELSE {}
<1>1. PICK order \in Orders(reported), events \in [reported -> SUBSET KindSet \ {{}}] :
        batch' = [i \in DOMAIN order |-> Report(order[i], events[order[i]])]
  BY DEF WaitFor
<1>2. reported \subseteq attached \union {Wakeup} /\ attached \subseteq Channels
  BY DEF TypeOK
<1>3. Cardinality(reported) \in Nat
  <2>1. IsFiniteSet(Channels \union {Wakeup})
    BY EventLoopAssumption, FS_AddElement
  <2> QED BY <1>2, <2>1, FS_Subset, FS_CardinalityType
<1>4. order \in [1..Cardinality(reported) -> reported]
  BY <1>1 DEF Orders
<1> HIDE DEF reported
<1>5. \A i \in 1..Cardinality(reported) :
        /\ Report(order[i], events[order[i]]) \in Reports
        /\ Report(order[i], events[order[i]]).channel \in attached \union {Wakeup}
  <2> SUFFICES ASSUME NEW i \in 1..Cardinality(reported)
               PROVE  /\ Report(order[i], events[order[i]]) \in Reports
                      /\ Report(order[i], events[order[i]]).channel \in attached \union {Wakeup}
    OBVIOUS
  <2>1. order[i] \in reported
    BY <1>4
  <2>2. events[order[i]] \in SUBSET KindSet
    BY <1>1, <2>1
  <2>3. order[i] # Wakeup => attachId[order[i]] \in 0..MaxAttach
    BY <1>2, <2>1 DEF TypeOK
  <2> QED BY <1>2, <2>1, <2>2, <2>3, EventLoopAssumption DEF Report, Reports
<1>6. batch' = [i \in 1..Cardinality(reported) |-> Report(order[i], events[order[i]])]
  BY <1>1, <1>4
<1>7. batch' \in [1..Cardinality(reported) -> Reports]
  BY <1>5, <1>6
<1>8. batch' \in Seq(Reports)
  BY <1>3, <1>7, IsASeq
<1> QED BY <1>5, <1>6, <1>8

\* Handling one kind of the first event leaves a batch of the same channels,
\* perhaps without the first.
LEMMA HandledBatch ==
  ASSUME TypeOK, batch # <<>>
  PROVE  /\ Handled \in Seq(Reports)
         /\ Tail(batch) \in Seq(Reports)
         /\ \A i \in DOMAIN Handled : \E j \in DOMAIN batch : Handled[i].channel = batch[j].channel
         /\ \A i \in DOMAIN Tail(batch) : Tail(batch)[i] = batch[i + 1] /\ i + 1 \in DOMAIN batch
<1>1. /\ batch \in Seq(Reports) /\ Len(batch) > 0
      /\ Event = batch[1] /\ Event \in Reports /\ Tail(batch) \in Seq(Reports)
  BY DEF TypeOK, Event
<1>2. \A i \in DOMAIN Tail(batch) : Tail(batch)[i] = batch[i + 1] /\ i + 1 \in DOMAIN batch
  BY <1>1
<1> DEFINE left == [Event EXCEPT !.events = @ \ {Kind}]
<1>3. left \in Reports /\ left.channel = batch[1].channel
  BY <1>1 DEF Reports
<1> HIDE DEF left
<1>4. CASE Handled = Tail(batch)
  BY <1>1, <1>2, <1>4
<1>5. CASE Handled = <<left>> \o Tail(batch)
  <2>1. Handled \in Seq(Reports)
    BY <1>1, <1>3, <1>5
  <2>2. \A i \in DOMAIN Handled :
          Handled[i].channel = batch[i].channel /\ i \in DOMAIN batch
    BY <1>1, <1>3, <1>5
  <2> QED BY <1>1, <1>2, <2>1, <2>2
<1> QED BY <1>4, <1>5 DEF Handled, left

-----------------------------------------------------------------------------
(* Types. *)

LEMMA TypeInit == Init => TypeOK
<1> SUFFICES ASSUME Init PROVE TypeOK
  OBVIOUS
<1>1. /\ attachId \in [Channels -> 0..MaxAttach]
      /\ callbacks \in [Channels -> SUBSET KindSet]
      /\ pushPc \in [Threads -> {"idle", "pushed"}]
  BY EventLoopAssumption DEF Init, KindSet
<1>2. alive \subseteq Channels /\ attached \subseteq alive
  BY EventLoopAssumption DEF Init
<1>3. lastId \in 1..MaxAttach /\ removed \subseteq 1..lastId
  BY EventLoopAssumption DEF Init
<1>4. /\ batch \in Seq(Reports)
      /\ wakeupCbs \in Seq(Pushes) /\ running \in Seq(Pushes)
      /\ pushed \in Seq(Pushes) /\ ran \in Seq(Pushes)
  BY DEF Init
<1> QED BY <1>1, <1>2, <1>3, <1>4 DEF Init, TypeOK

\* A registration gets the next id.
LEMMA AttachTypes ==
  ASSUME TypeOK, Registrations, NEW c \in Channels, Attach(c)
  PROVE  /\ attachId' \in [Channels -> 0..MaxAttach]
         /\ lastId' \in 1..MaxAttach
         /\ removed' \subseteq 1..lastId'
<1>1. lastId + 1 \in 1..MaxAttach
  BY EventLoopAssumption DEF TypeOK, Attach
<1>2. removed' \subseteq 1..lastId
  <2>1. CASE c \in attached
    <3>1. attachId[c] \in 1..lastId /\ removed' = removed \union {attachId[c]}
      BY <2>1 DEF Registrations, Attach, Detach
    <3> QED BY <3>1 DEF TypeOK
  <2>2. CASE c \notin attached
    BY <2>2 DEF TypeOK, Attach
  <2> QED BY <2>1, <2>2
<1>3. lastId \in Nat /\ lastId' = lastId + 1
  BY DEF TypeOK, Attach
<1>4. removed' \subseteq 1..lastId'
  BY <1>2, <1>3
<1> QED BY <1>1, <1>3, <1>4 DEF TypeOK, Attach

LEMMA TypeStep == TypeOK /\ Registrations /\ [Next]_vars => TypeOK'
<1> SUFFICES ASSUME TypeOK, Registrations, [Next]_vars PROVE TypeOK'
  OBVIOUS
<1> USE DEF channelVars, wakeupVars
<1>1. ASSUME NEW c \in Channels, Build(c) PROVE TypeOK'
  <2>1. PICK cbs \in BuildCallbacks : callbacks' = [callbacks EXCEPT ![c] = cbs]
    BY <1>1 DEF Build
  <2>2. cbs \in SUBSET KindSet
    BY EventLoopAssumption DEF KindSet
  <2>3. callbacks' \in [Channels -> SUBSET KindSet]
    BY <2>1, <2>2 DEF TypeOK
  <2>4. alive' \subseteq Channels /\ attached' \subseteq alive'
    BY <1>1 DEF Build, Attach, TypeOK
  <2>5. Attach(c)
    BY <1>1 DEF Build
  <2> QED BY <1>1, <2>3, <2>4, <2>5, AttachTypes DEF Build, TypeOK
<1>2. ASSUME NEW c \in Channels, AttachEventLoop(c) PROVE TypeOK'
  <2>1. Attach(c) /\ attached' \subseteq alive'
    BY <1>2 DEF AttachEventLoop, Attach, TypeOK
  <2> QED BY <1>2, <2>1, AttachTypes DEF AttachEventLoop, TypeOK
<1>3. ASSUME NEW c \in Channels, DetachEventLoop(c) PROVE TypeOK'
  <2>1. removed' \subseteq 1..lastId
    BY <1>3 DEF DetachEventLoop, Detach, TypeOK, Registrations
  <2> QED BY <1>3, <2>1 DEF DetachEventLoop, TypeOK
<1>4. ASSUME NEW c \in Channels, Destroy(c) PROVE TypeOK'
  BY <1>4 DEF Destroy, TypeOK
<1>5. ASSUME NEW c \in Channels, ChangeCallback(c) PROVE TypeOK'
  <2>1. PICK cbs \in SUBSET KindSet : callbacks' = [callbacks EXCEPT ![c] = cbs]
    BY <1>5 DEF ChangeCallback, TypeOK
  <2>2. callbacks' \in [Channels -> SUBSET KindSet]
    BY <2>1 DEF TypeOK
  <2> QED BY <1>5, <2>2 DEF ChangeCallback, TypeOK
<1>6. ASSUME NEW t \in Threads, PushCallback(t) PROVE TypeOK'
  <2>1. Len(pushed) + 1 \in Pushes
    BY <1>6, EventLoopAssumption DEF PushCallback, Pushes, TypeOK
  <2>2. wakeupCbs' \in Seq(Pushes) /\ pushed' \in Seq(Pushes)
    BY <1>6, <2>1, AppendProperties DEF PushCallback, TypeOK
  <2> QED BY <1>6, <2>2 DEF PushCallback, TypeOK
<1>7. ASSUME NEW t \in Threads, PushWakeup(t) PROVE TypeOK'
  BY <1>7 DEF PushWakeup, TypeOK
<1>8. ASSUME NEW t \in Threads, Quit(t) PROVE TypeOK'
  BY <1>8 DEF Quit, TypeOK
<1>9. CASE LoopStart \/ Check
  BY <1>9 DEF LoopStart, Check, TypeOK
<1>10. CASE SkipRemoved \/ SkipUnset \/ OnWakeupRead \/ Call
  BY <1>10, HandledBatch DEF SkipRemoved, SkipUnset, OnWakeupRead, Call, TypeOK
<1>11. CASE CallReturn \/ RunReturn \/ RunEnd
  BY <1>11 DEF CallReturn, RunReturn, RunEnd, TypeOK
<1>12. CASE DoWakeupCallback
  <2>1. <<>> \in Seq(Pushes)
    OBVIOUS
  <2> QED BY <1>12, <2>1 DEF DoWakeupCallback, TypeOK
<1>13. CASE RunCallback
  <2>1. ran' \in Seq(Pushes) /\ running' \in Seq(Pushes)
    BY <1>13, AppendProperties, HeadTailProperties DEF RunCallback, TypeOK
  <2> QED BY <1>13, <2>1 DEF RunCallback, TypeOK
<1>14. ASSUME NEW ready \in SUBSET attached, WaitFor(ready) PROVE TypeOK'
  <2>1. edge' \in BOOLEAN
    BY <1>14 DEF WaitFor, TypeOK
  <2>2. batch' \in Seq(Reports)
    BY <1>14, Reported
  <2> QED BY <1>14, <2>1, <2>2 DEF WaitFor, TypeOK
<1>15. CASE UNCHANGED vars
  BY <1>15 DEF vars, TypeOK
<1> QED BY <1>1, <1>2, <1>3, <1>4, <1>5, <1>6, <1>7, <1>8, <1>9, <1>10, <1>11, <1>12, <1>13,
           <1>14, <1>15, EventLoopAssumption DEF Next, Handler, Others, Turn, Wait

-----------------------------------------------------------------------------
(* Channels. *)

LEMMA RegistrationsInit == Init => Registrations
BY EventLoopAssumption DEF Init, Registrations

\* The batch stays known when its events do not change, no channel is detached
\* unremembered and no other id changes.
LEMMA BatchKept ==
  ASSUME Registrations, UNCHANGED <<phase, batch>>, removed \subseteq removed',
         \A c \in Channels : c \notin attached' =>
           attachId'[c] = attachId[c] /\ (c \notin attached \/ attachId[c] \in removed'),
         TypeOK
  PROVE  phase' \in {"dispatch", "callback"} =>
           \A i \in DOMAIN batch' :
             \/ batch'[i].channel \in attached' \union {Wakeup}
             \/ attachId'[batch'[i].channel] \in removed'
<1> SUFFICES ASSUME phase \in {"dispatch", "callback"}, NEW i \in DOMAIN batch,
                    batch[i].channel \notin attached' \union {Wakeup}
             PROVE  attachId'[batch[i].channel] \in removed'
  OBVIOUS
<1>1. batch[i] \in Reports
  BY ElementOfSeq DEF TypeOK
<1>2. batch[i].channel \in Channels
  BY <1>1 DEF Reports
<1> QED BY <1>2 DEF Registrations

\* Attaching a channel gives it an id that no other has.
LEMMA AttachRegisters ==
  ASSUME TypeOK, Registrations, NEW c \in Channels, Attach(c), UNCHANGED <<phase, batch>>
  PROVE  Registrations'
<1>1. lastId \in Nat /\ lastId' = lastId + 1
  BY DEF TypeOK, Attach
<1>2. /\ attached' = attached \union {c} /\ attached \subseteq Channels
      /\ \A d \in Channels : attachId'[d] = IF d = c THEN lastId + 1 ELSE attachId[d]
      /\ removed \subseteq removed'
      /\ removed' \subseteq removed \union (IF c \in attached THEN {attachId[c]} ELSE {})
  BY DEF TypeOK, Attach, Detach
<1>3. \A d \in attached : attachId[d] \in 1..lastId /\ attachId[d] \notin removed
  BY DEF Registrations
<1>4. \A d \in attached' : attachId'[d] \in 1..lastId' /\ attachId'[d] \notin removed'
  <2> SUFFICES ASSUME NEW d \in attached'
               PROVE  attachId'[d] \in 1..lastId' /\ attachId'[d] \notin removed'
    OBVIOUS
  <2>1. CASE d = c
    BY <1>1, <1>2, <1>3, <2>1 DEF TypeOK
  <2>2. CASE d # c
    BY <1>1, <1>2, <1>3, <2>2 DEF Registrations
  <2> QED BY <2>1, <2>2
<1>5. \A d, e \in attached' : attachId'[d] = attachId'[e] => d = e
  BY <1>1, <1>2, <1>3 DEF Registrations
<1>6. \A d \in Channels : d \notin attached' => attachId'[d] = attachId[d] /\ d \notin attached
  BY <1>2
<1> QED BY <1>2, <1>4, <1>5, <1>6, BatchKept DEF Registrations

LEMMA RegistrationsStep == TypeOK /\ Registrations /\ [Next]_vars => Registrations'
<1> SUFFICES ASSUME TypeOK, Registrations, [Next]_vars PROVE Registrations'
  OBVIOUS
<1> USE DEF channelVars, wakeupVars
<1>1. ASSUME NEW c \in Channels, Build(c) PROVE Registrations'
  BY <1>1, AttachRegisters DEF Build
<1>2. ASSUME NEW c \in Channels, AttachEventLoop(c) PROVE Registrations'
  BY <1>2, AttachRegisters DEF AttachEventLoop
<1>3. ASSUME NEW c \in Channels, DetachEventLoop(c) PROVE Registrations'
  <2>1. /\ removed' = removed \union {attachId[c]} /\ attached' = attached \ {c}
        /\ UNCHANGED <<phase, batch, attachId, lastId>> /\ c \in attached
    BY <1>3 DEF DetachEventLoop, Detach
  <2>2. \A d \in attached' : attachId[d] # attachId[c]
    BY <2>1 DEF Registrations
  <2>3. \A d \in attached' : attachId'[d] \in 1..lastId' /\ attachId'[d] \notin removed'
    BY <2>1, <2>2 DEF Registrations
  <2>4. \A d, e \in attached' : attachId'[d] = attachId'[e] => d = e
    BY <2>1 DEF Registrations
  <2> QED BY <2>1, <2>3, <2>4, BatchKept DEF Registrations
<1>4. ASSUME NEW c \in Channels, Destroy(c) \/ ChangeCallback(c) PROVE Registrations'
  BY <1>4 DEF Destroy, ChangeCallback, Registrations
<1>5. ASSUME NEW t \in Threads, PushCallback(t) \/ PushWakeup(t) \/ Quit(t)
      PROVE  Registrations'
  BY <1>5 DEF PushCallback, PushWakeup, Quit, Registrations
<1>6. CASE LoopStart \/ Check
  BY <1>6 DEF LoopStart, Check, Registrations
<1>7. CASE SkipRemoved \/ SkipUnset \/ OnWakeupRead \/ Call
  <2>1. /\ phase = "dispatch" /\ batch # <<>>
        /\ batch' = Tail(batch) \/ batch' = Handled
        /\ UNCHANGED <<attached, attachId, lastId, removed>>
    BY <1>7 DEF SkipRemoved, SkipUnset, OnWakeupRead, Call
  <2>2. \A i \in DOMAIN batch' : \E j \in DOMAIN batch : batch'[i].channel = batch[j].channel
    BY <2>1, HandledBatch
  <2>3. \A j \in DOMAIN batch : \/ batch[j].channel \in attached \union {Wakeup}
                                \/ attachId[batch[j].channel] \in removed
    BY <2>1 DEF Registrations
  <2>4. \A i \in DOMAIN batch' : \/ batch'[i].channel \in attached' \union {Wakeup}
                                 \/ attachId'[batch'[i].channel] \in removed'
    BY <2>1, <2>2, <2>3
  <2> QED BY <2>1, <2>4 DEF Registrations
<1>8. CASE CallReturn \/ RunReturn \/ RunEnd \/ RunCallback
  BY <1>8 DEF CallReturn, RunReturn, RunEnd, RunCallback, Registrations
<1>9. CASE DoWakeupCallback
  BY <1>9 DEF DoWakeupCallback, Registrations
<1>10. ASSUME NEW ready \in SUBSET attached, WaitFor(ready) PROVE Registrations'
  <2>1. \A i \in DOMAIN batch' : batch'[i].channel \in attached \union {Wakeup}
    BY <1>10, Reported
  <2>2. UNCHANGED <<attached, attachId, lastId, removed>>
    BY <1>10 DEF WaitFor
  <2> QED BY <2>1, <2>2 DEF Registrations
<1>11. CASE UNCHANGED vars
  BY <1>11 DEF vars, Registrations
<1> QED BY <1>1, <1>2, <1>3, <1>4, <1>5, <1>6, <1>7, <1>8, <1>9, <1>10, <1>11,
           EventLoopAssumption DEF Next, Handler, Others, Turn, Wait

\* The types of the loop's state hold for any number of channels and threads.
THEOREM TypeCorrect == SafeSpec => []TypeOK
BY TypeInit, TypeStep, RegistrationsInit, RegistrationsStep, PTL DEF SafeSpec

\* Ids of registrations are never shared, and what the batch names is attached,
\* remembered as removed, or the eventfd.
THEOREM RegistrationsCorrect == SafeSpec => []Registrations
BY TypeInit, TypeStep, RegistrationsInit, RegistrationsStep, PTL DEF SafeSpec

\* An attached channel is never taken for a removed one, so no event of it is skipped.
THEOREM LiveNotSilencedCorrect == SafeSpec => []LiveNotSilenced
<1>1. Registrations => LiveNotSilenced
  BY DEF Registrations, LiveNotSilenced
<1> QED BY <1>1, RegistrationsCorrect, PTL

\* The loop calls back attached channels only, whatever earlier callbacks of the
\* batch detached, destroyed or built anew.
THEOREM DetachedIsSilentCorrect == SafeSpec => DetachedIsSilent
<1> DEFINE Silent == phase = "dispatch" /\ phase' = "callback" => Event.channel \in attached
<1>1. TypeOK /\ Registrations /\ [Next]_vars => [Silent]_vars
  <2> SUFFICES ASSUME TypeOK, Registrations, Next, phase = "dispatch", phase' = "callback"
               PROVE  Event.channel \in attached
    OBVIOUS
  <2>1. Call
    BY DEF Next, Handler, Others, Turn, Wait, Build, AttachEventLoop, DetachEventLoop, Destroy,
           ChangeCallback, PushCallback, PushWakeup, Quit, LoopStart, Check, SkipRemoved,
           SkipUnset, OnWakeupRead, CallReturn, DoWakeupCallback, RunCallback, RunReturn,
           RunEnd, WaitFor
  <2>2. /\ batch # <<>> /\ Event.channel # Wakeup
        /\ attachId[Event.channel] \notin removed
    BY <2>1 DEF Call, CheckEventChannelRemoved
  <2>3. Event = batch[1] /\ 1 \in DOMAIN batch
    BY <2>2 DEF Event, TypeOK
  <2> QED BY <2>2, <2>3 DEF Registrations
<1> QED BY <1>1, TypeCorrect, RegistrationsCorrect, PTL DEF SafeSpec, DetachedIsSilent

-----------------------------------------------------------------------------
(* Pushed callbacks. *)

LEMMA WakeupsInit == Init => Wakeups
<1> SUFFICES ASSUME Init PROVE Wakeups
  OBVIOUS
<1>1. (<<>> \o <<>>) \o <<>> = <<>>
  OBVIOUS
<1> QED BY <1>1 DEF Init, Wakeups

\* Moving the head of the second part to the end of the first one, and moving the
\* third part to an empty second one.
LEMMA Moved ==
  ASSUME NEW S, NEW s \in Seq(S), NEW t \in Seq(S), t # <<>>
  PROVE  Append(s, Head(t)) \o Tail(t) = s \o t
OBVIOUS

LEMMA Swapped ==
  ASSUME NEW S, NEW s \in Seq(S), NEW u \in Seq(S)
  PROVE  (s \o <<>>) \o u = (s \o u) \o <<>>
OBVIOUS

\* After the first of three parts comes the head of the second one.
LEMMA NextOfParts ==
  ASSUME NEW S, NEW s \in Seq(S), NEW t \in Seq(S), NEW u \in Seq(S), t # <<>>
  PROVE  /\ Len(s) < Len((s \o t) \o u)
         /\ ((s \o t) \o u)[Len(s) + 1] = Head(t)
OBVIOUS

LEMMA WakeupsStep == TypeOK /\ Wakeups /\ [Next]_vars => Wakeups'
<1> SUFFICES ASSUME TypeOK, Wakeups, [Next]_vars PROVE Wakeups'
  OBVIOUS
<1> USE DEF channelVars, wakeupVars
<1>1. /\ wakeupCbs \in Seq(Pushes) /\ running \in Seq(Pushes)
      /\ pushed \in Seq(Pushes) /\ ran \in Seq(Pushes)
      /\ pushPc \in [Threads -> {"idle", "pushed"}]
      /\ pushed = (ran \o running) \o wakeupCbs
  BY DEF TypeOK, Wakeups
<1>2. ASSUME NEW c \in Channels,
             Build(c) \/ AttachEventLoop(c) \/ DetachEventLoop(c) \/ Destroy(c)
               \/ ChangeCallback(c)
      PROVE  Wakeups'
  BY <1>2 DEF Build, AttachEventLoop, DetachEventLoop, Destroy, ChangeCallback, Wakeups
<1>3. ASSUME NEW t \in Threads, PushCallback(t) PROVE Wakeups'
  <2> DEFINE cb == Len(pushed) + 1
  <2>1. cb \in Pushes
    BY <1>1, <1>3, EventLoopAssumption DEF PushCallback, Pushes
  <2>2. /\ wakeupCbs' = Append(wakeupCbs, cb) /\ pushed' = Append(pushed, cb)
        /\ UNCHANGED <<phase, ran, running>>
    BY <1>3 DEF PushCallback
  <2> HIDE DEF cb
  <2>3. pushed' = (ran' \o running') \o wakeupCbs'
    <3>1. ran \o running \in Seq(Pushes)
      BY <1>1, ConcatProperties
    <3>2. Append((ran \o running) \o wakeupCbs, cb) = (ran \o running) \o Append(wakeupCbs, cb)
      <4>1. \A s, u \in Seq(Pushes) : \A e \in Pushes : Append(s \o u, e) = s \o Append(u, e)
        OBVIOUS
      <4> QED BY <1>1, <2>1, <3>1, <4>1, Zenon
    <3>3. pushed' = Append((ran \o running) \o wakeupCbs, cb) /\ ran' = ran /\ running' = running
      BY <1>1, <2>2, Zenon
    <3> QED BY <2>2, <3>2, <3>3, Zenon
  <2>4. pushPc'[t] = "pushed"
    BY <1>1, <1>3 DEF PushCallback
  <2> QED BY <2>2, <2>3, <2>4 DEF Wakeups
<1>4. ASSUME NEW t \in Threads, PushWakeup(t) PROVE Wakeups'
  BY <1>4 DEF PushWakeup, Wakeups
<1>5. ASSUME NEW t \in Threads, Quit(t) PROVE Wakeups'
  BY <1>5 DEF Quit, Wakeups
<1>6. CASE LoopStart \/ Check
  BY <1>6 DEF LoopStart, Check, Wakeups
<1>7. CASE SkipRemoved \/ SkipUnset \/ Call
  BY <1>7 DEF SkipRemoved, SkipUnset, Call, Wakeups
<1>8. CASE OnWakeupRead
  BY <1>8 DEF OnWakeupRead, Wakeups
<1>9. CASE CallReturn \/ RunReturn \/ RunEnd
  BY <1>9 DEF CallReturn, RunReturn, RunEnd, Wakeups
<1>10. CASE DoWakeupCallback
  <2>1. running = <<>>
    BY <1>10 DEF DoWakeupCallback, Wakeups
  <2>2. /\ running' = wakeupCbs /\ wakeupCbs' = <<>> /\ phase' = "run"
        /\ UNCHANGED <<pushed, ran>>
    BY <1>10 DEF DoWakeupCallback
  <2>3. pushed' = (ran' \o running') \o wakeupCbs'
    BY <1>1, <2>1, <2>2, Swapped
  <2> QED BY <2>2, <2>3 DEF Wakeups
<1>11. CASE RunCallback
  <2>1. /\ running # <<>> /\ ran' = Append(ran, Head(running)) /\ running' = Tail(running)
        /\ phase = "run" /\ phase' = "wakeup"
        /\ UNCHANGED <<pushed, wakeupCbs, counter, edge, pushPc>>
    BY <1>11 DEF RunCallback
  <2>2. ran' \o running' = ran \o running
    BY <1>1, <2>1, Moved
  <2> QED BY <1>1, <2>1, <2>2 DEF Wakeups
<1>12. ASSUME NEW ready \in SUBSET attached, WaitFor(ready) PROVE Wakeups'
  BY <1>12 DEF WaitFor, Wakeups
<1>13. CASE UNCHANGED vars
  BY <1>13 DEF vars, Wakeups
<1> QED BY <1>2, <1>3, <1>4, <1>5, <1>6, <1>7, <1>8, <1>9, <1>10, <1>11, <1>12, <1>13,
           EventLoopAssumption DEF Next, Handler, Others, Turn, Wait

\* No pushed callback is lost or overtaken between the two vectors, and one that
\* is queued has the loop's attention or a wakeup on its way.
THEOREM WakeupsCorrect == SafeSpec => []Wakeups
<1>1. Init /\ [][Next]_vars => []TypeOK
  BY TypeCorrect DEF SafeSpec
<1> QED BY <1>1, WakeupsInit, WakeupsStep, PTL DEF SafeSpec

\* The loop never blocks on queued callbacks without a wakeup to end it.
THEOREM NoLostWakeupCorrect == SafeSpec => []NoLostWakeup
<1>1. Wakeups => NoLostWakeup
  BY DEF Wakeups, NoLostWakeup
<1> QED BY <1>1, WakeupsCorrect, PTL

\* Every step of the loop and of the threads that push is a Send or a Receive of
\* the channel of callbacks, or leaves it alone.
LEMMA WakeupQueueStep ==
  ASSUME TypeOK, Wakeups, [Next]_vars
  PROVE  [WakeupQueue!Next]_WakeupQueue!fifoVars
<1> USE DEF WakeupQueue!fifoVars
<1>1. ASSUME NEW t \in Threads, PushCallback(t) PROVE WakeupQueue!Next
  <2>1. Len(pushed) + 1 \in Pushes
    BY <1>1, EventLoopAssumption DEF PushCallback, Pushes, TypeOK
  <2>2. WakeupQueue!Send(Len(pushed) + 1)
    BY <1>1 DEF PushCallback, WakeupQueue!Send
  <2> QED BY <2>1, <2>2 DEF WakeupQueue!Next
<1>2. CASE RunCallback
  <2>1. /\ ran \in Seq(Pushes) /\ running \in Seq(Pushes) /\ wakeupCbs \in Seq(Pushes)
        /\ running # <<>> /\ pushed = (ran \o running) \o wakeupCbs
    BY <1>2 DEF TypeOK, Wakeups, RunCallback
  <2>2. Len(ran) < Len(pushed) /\ pushed[Len(ran) + 1] = Head(running)
    BY <2>1, NextOfParts
  <2>3. ran' = Append(ran, Head(running)) /\ UNCHANGED pushed
    BY <1>2 DEF RunCallback
  <2> QED BY <2>2, <2>3 DEF WakeupQueue!Receive, WakeupQueue!Next
<1>3. CASE UNCHANGED vars
  BY <1>3 DEF vars, wakeupVars
<1>4. ASSUME ~RunCallback, \A t \in Threads : ~PushCallback(t), Next
      PROVE  UNCHANGED <<pushed, ran>>
  BY <1>4 DEF Next, Handler, Others, Turn, Wait, Build, AttachEventLoop, DetachEventLoop, Destroy,
              ChangeCallback, PushWakeup, Quit, LoopStart, Check, SkipRemoved, SkipUnset,
              OnWakeupRead, Call, CallReturn, DoWakeupCallback, RunReturn, RunEnd, WaitFor,
              wakeupVars
<1> QED BY <1>1, <1>2, <1>3, <1>4

\* Pushed callbacks run at most once each, in the order they were pushed.
THEOREM WakeupQueueSafe == SafeSpec => WakeupQueue!SafeSpec
<1>1. Init => WakeupQueue!Init
  BY DEF Init, WakeupQueue!Init
<1>2. TypeOK /\ Wakeups /\ [Next]_vars => [WakeupQueue!Next]_WakeupQueue!fifoVars
  BY WakeupQueueStep
<1> QED BY <1>1, <1>2, TypeCorrect, WakeupsCorrect, PTL DEF SafeSpec, WakeupQueue!SafeSpec

-----------------------------------------------------------------------------
(* The pool of event loops (EventLoopThreadPool), for any number of        *)
(* threads: a pool that has quit has no thread running, and no             *)
(* EventLoopThread is deleted under its thread.                            *)

\* The bounds of current while it names a thread, and what each place of the
\* owner tells of the threads.
Progress ==
  /\ pc # "done" => current \in Workers \/ pc = "serve"
  /\ pc \in {"start", "threw"} => \A i \in current..NumThreads : at[i] = "none"
  /\ pc \in {"delete", "done"} => poolQuit
  /\ pc \notin {"threw", "delete", "done"} => freed = {}
  /\ pc = "threw" => freed = {current}
  /\ pc \in {"start", "threw", "wakeup", "quit", "wait", "join"} => ~poolQuit
  /\ pc \in {"wakeup", "quit", "wait", "join"} => \A i \in 1..(current - 1) : joined[i]
  /\ poolQuit => \A i \in Workers : joined[i]

\* Joined threads are gone for good.
JoinedGone == \A i \in Workers : joined[i] => at[i] = "gone"

PoolInv == PoolTypeOK /\ Progress /\ JoinedGone

\* The initial state.
LEMMA PoolInvInit == PoolInit => PoolInv
<1> SUFFICES ASSUME PoolInit PROVE PoolInv OBVIOUS
<1> USE PoolAssumption DEF PoolInit
<1>1. PoolTypeOK
  <2>1. current \in 1..(NumThreads + 1) /\ next \in 0..(NumThreads - 1) OBVIOUS
  <2> QED BY <2>1 DEF PoolTypeOK
<1>2. Progress BY DEF Progress, Workers
<1>3. JoinedGone BY DEF JoinedGone
<1> QED BY <1>1, <1>2, <1>3 DEF PoolInv

\* The steps of the threads and of their loops: no thread that is gone or not
\* yet created takes one.
LEMMA PoolThreadStep ==
  ASSUME PoolInv, NEW i \in Workers, ThreadStep(i)
  PROVE  PoolInv'
<1> USE PoolAssumption
<1>1. UNCHANGED <<pc, current, destroying, poolQuit, next, freed, joined>>
      /\ Running(i)
      /\ at' \in [Workers -> {"none", "created", "entry", "check", "epoll",
                                   "ended", "last", "gone"}]
      /\ started' \in [Workers -> BOOLEAN] /\ loopQuit' \in [Workers -> BOOLEAN]
      /\ woken' \in [Workers -> BOOLEAN]
      /\ \A j \in Workers \ {i} : at'[j] = at[j]
  BY DEF PoolInv, PoolTypeOK, ThreadStep, StartThread, EndThread,
         Leave, EnterLoop, LoopCheck,
         Woken, Tick, ownerVars, threadVars, loopVars, Running
<1>2. PoolTypeOK' BY <1>1 DEF PoolInv, PoolTypeOK
<1>3. Progress'
  BY <1>1 DEF PoolInv, Progress, PoolTypeOK, Workers, Running
<1>4. JoinedGone'
  BY <1>1 DEF PoolInv, JoinedGone, Running
<1> QED BY <1>2, <1>3, <1>4 DEF PoolInv

\* The steps of the pool's owner.
LEMMA PoolOwnerStep ==
  ASSUME PoolInv,
         Start \/ StartFails \/ Allocate \/ QuitPool \/ DestroyPool
         \/ QuitStep
  PROVE  PoolInv'
<1> USE PoolAssumption
<1>1. CASE Start
  <2>1. PoolTypeOK'
    BY <1>1 DEF PoolInv, PoolTypeOK, Start, Started, Progress,
                loopVars, Workers
  <2>2. Progress'
    BY <1>1 DEF PoolInv, PoolTypeOK, Start, Started, Progress,
                loopVars, Workers
  <2>3. JoinedGone'
    BY <1>1 DEF PoolInv, PoolTypeOK, Start, Progress, JoinedGone, loopVars,
                Workers
  <2> QED BY <2>1, <2>2, <2>3 DEF PoolInv
<1>2. CASE StartFails
  BY <1>2 DEF PoolInv, PoolTypeOK, StartFails, Progress, JoinedGone,
              threadVars, loopVars, Workers
<1>3. CASE Allocate
  BY <1>3 DEF PoolInv, PoolTypeOK, Allocate, Progress, JoinedGone,
              threadVars, loopVars, Workers
<1>4. CASE QuitPool
  BY <1>4 DEF PoolInv, PoolTypeOK, QuitPool, Progress, JoinedGone, threadVars,
              loopVars, Workers
<1>5. CASE DestroyPool
  BY <1>5 DEF PoolInv, PoolTypeOK, DestroyPool, Progress, JoinedGone,
              threadVars, loopVars, Workers
<1>6. CASE QuitWakeup
  BY <1>6 DEF PoolInv, PoolTypeOK, QuitWakeup, Progress, JoinedGone,
              threadVars, Workers
<1>7. CASE QuitLoop
  BY <1>7 DEF PoolInv, PoolTypeOK, QuitLoop, Progress, JoinedGone,
              threadVars, Workers
<1>8. CASE JoinWait
  BY <1>8 DEF PoolInv, PoolTypeOK, JoinWait, Progress, JoinedGone,
              threadVars, loopVars, Workers
<1>9. CASE Join
  <2>1. PoolTypeOK'
    <3>1. current \in Workers BY <1>9 DEF PoolInv, Join, Progress
    <3>2. CASE current < NumThreads
      BY <1>9, <3>1, <3>2 DEF PoolInv, PoolTypeOK, Join, loopVars,
                              Workers
    <3>3. CASE ~(current < NumThreads)
      <4>1. pc' \in {"serve", "delete"} /\ current' = 1 /\ poolQuit' = TRUE
        BY <1>9, <3>3 DEF Join, AfterQuit
      <4>2. 1 \in 1..(NumThreads + 1) OBVIOUS
      <4>3. joined' \in [Workers -> BOOLEAN]
        BY <1>9 DEF PoolInv, PoolTypeOK, Join
      <4> QED BY <1>9, <3>3, <4>1, <4>2, <4>3 DEF PoolInv, PoolTypeOK, Join,
             loopVars
    <3> QED BY <3>2, <3>3
  <2>2. JoinedGone'
    BY <1>9 DEF PoolInv, PoolTypeOK, Join, Progress, JoinedGone, loopVars,
                Workers
  <2>3. \A i \in 1..current : joined'[i]
    BY <1>9 DEF PoolInv, PoolTypeOK, Join, Progress, Workers
  <2>4. Progress'
    BY <1>9, <2>3 DEF PoolInv, PoolTypeOK, Join, AfterQuit, Progress,
                      loopVars, Workers
  <2> QED BY <2>1, <2>2, <2>4 DEF PoolInv
<1>10. CASE Delete
  BY <1>10 DEF PoolInv, PoolTypeOK, Delete, Progress, JoinedGone,
               threadVars, loopVars, Workers
<1> QED BY <1>1, <1>2, <1>3, <1>4, <1>5, <1>6, <1>7, <1>8, <1>9, <1>10 DEF QuitStep

\* PoolInv is an invariant of the specification.
LEMMA PoolInvariance == PoolSpec => []PoolInv
<1>1. ASSUME PoolInv, [PoolNext]_poolVars PROVE PoolInv'
  <2>1. CASE UNCHANGED poolVars
    BY <1>1, <2>1 DEF PoolInv, PoolTypeOK, Progress, JoinedGone, poolVars,
                      ownerVars, threadVars, loopVars
  <2>2. CASE \E i \in Workers : ThreadStep(i)
    BY <1>1, <2>2, PoolThreadStep
  <2>3. CASE Start \/ StartFails \/ Allocate \/ QuitPool
         \/ DestroyPool \/ QuitStep
    BY <1>1, <2>3, PoolOwnerStep
  <2> QED BY <1>1, <2>1, <2>2, <2>3 DEF PoolNext
<1> QED BY <1>1, PoolInvInit, PTL DEF PoolSpec

\* The variables keep their types.
THEOREM PoolTypeCorrect == PoolSpec => []PoolTypeOK
<1>1. PoolInv => PoolTypeOK BY DEF PoolInv
<1> QED BY <1>1, PoolInvariance, PTL

\* A pool whose quit_ is set has no thread running: EventLoopThreadPool::Quit
\* sets it after the last Join().
THEOREM QuitMeansEndedCorrect == PoolSpec => []QuitMeansEnded
<1>1. PoolInv => QuitMeansEnded
  BY DEF PoolInv, Progress, JoinedGone, QuitMeansEnded, Running
<1> QED BY <1>1, PoolInvariance, PTL

\* The destructor, and a constructor that throws, delete no EventLoopThread
\* whose thread may still touch it.
THEOREM NoUseAfterDeleteCorrect == PoolSpec => []NoUseAfterDelete
<1>1. ASSUME PoolInv, NEW i \in freed PROVE ~Running(i)
  <2>1. CASE pc = "threw"
    <3>1. i = current /\ i \in Workers /\ at[i] = "none"
      BY <1>1, <2>1 DEF PoolInv, Progress, PoolTypeOK, Workers
    <3> QED BY <3>1 DEF Running
  <2>2. CASE pc # "threw"
    <3>1. i \in Workers /\ joined[i]
      BY <1>1, <2>2 DEF PoolInv, Progress, PoolTypeOK
    <3> QED BY <1>1, <3>1 DEF PoolInv, JoinedGone, Running
  <2> QED BY <2>1, <2>2
<1>2. PoolInv => NoUseAfterDelete BY <1>1 DEF PoolInv, NoUseAfterDelete
<1> QED BY <1>2, PoolInvariance, PTL

=============================================================================
