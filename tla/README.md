# TLA+ models of mysya-server

`src/mysya` is a C++11 network library (event loops on epoll, a timing wheel,
TCP applications, a service that moves messages between network and application
threads); `src/tutorial/orcas` is a game built on it (a gateway, a combat server,
a robot), `src/tutorial/tools` a tool that precomputes ways on its maps. This
directory models their logic in TLA+, checks the models with TLC and proves
theorems about the library and about the connections of the game with TLAPS.

## Inventory

Library:

| component | state | operations | hard about it | correct when |
|---|---|---|---|---|
| `MessageQueue` (`qservice/message_queue.cc`) | two buffers, `producer_`/`consumer_`, `write_mutex_`, the reading timer | `Push` by any thread; the timer handler pops and exchanges | the consumer reads without the producers' lock; the timer re-arms itself | messages arrive once, in order, all of them |
| `TimingWheel` (`ioevent/timing_wheel.cc`) | five wheels of buckets, `timers_`, clock | `AddTimer`, `RemoveTimer`, `OnExpired` per tick | timers move between wheels; callbacks start and stop timers while a bucket is drained; the clock jumps | a timer fires neither early nor a tick late, never after it was stopped |
| `EventLoop`, `EventChannel` (`ioevent/`) | epoll set, `removed_event_channels_`, `wakeup_cbs_`, `quit_` | attach, detach, callbacks, `Loop`, `PushWakeupCallback`, `Quit` | the batch holds pointers that callbacks invalidate; other threads push and wake | no callback on a removed channel, no lost or doubled wakeup callback |
| `EventLoopThreadPool`, `Thread` | threads, each with a loop | `Allocate`, `Quit` (wakeup, quit, join) | quitting races with starting | every thread is joined |
| `TcpSocketApp`, `TcpConnection`, `TcpSocket` | `sockets_`, `connections_`, `timers_` by descriptor, send and receive buffers | listen, connect, asynchronous connect with timeout, send, close, event handlers | descriptors are reused; timeouts race with answers; partial writes; callbacks close what is being handled | no event, timer or residue of a closed connection reaches its successor |
| `DynamicBuffer` | bytes with read and write positions | reserve, shrink, append, read, swap | capacity arithmetic | it is a byte sequence |
| `TransportAgent`, `TcpService` | `channels_` of each network loop, two `MessageQueue`s per agent, round-robin counter | control by wakeup callbacks, data by queues | two threads, two ways that overtake each other | what the application sees of a connection is a connection's life |
| `Timestamp` | seconds and nanoseconds | set, move on, compare, measure | normalisation and rounding | it is a point in time |
| codecs (`ProtobufCodec`, the gateway's `Codec` with AES, base64) | a position in a stream | `OnMessage`, `SendMessage`, `Encode`, `Decode` | messages cut anywhere, blocks that are not whole | what is decoded is what was encoded |

Game:

| component | state | operations | hard about it | correct when |
|---|---|---|---|---|
| gateway (`gateway/server`, `combat/client`) | `Actor`s, `CombatActor`s, waiting actors, `Combat`s by id and by argent id, the session | login, combat request, action, answers of the combat server | players and sessions come and go in any state; a restarted gateway numbers anew | no pointer dangles, every pair is answered |
| combat server: sessions, fields, roles | `app_sessions_`, `CombatField`s, `CombatRoleField`s and their pool | deploy, join, begin, action, settle, disconnect | roles are pooled while a session still knows them | no pointer dangles, both ends have the same combats |
| combat server: scene, AI, formulas | warriors, buildings, grids, `Auto`s with status, observers, timers, supply and food | build, move, search, chase, attack, die, convert, recover | events, votes and requires nest; observers change during a dispatch | targets are watched, books balance, players are told |
| path finding (`Scene::SearchPath`), scene pool | nodes, heap, grids | allocate, search, settle | heap positions go stale; pooled objects keep things | the cheapest way; a combat gets its own map |
| configuration and mains | tables, handlers by event | start both servers | order of files, of registrations; missing parts | a server that runs has what its files say |
| robot (`gateway/robot`) | sockets, actors, the standard input as channel | commands, messages, closes | `fgets` on an edge-triggered descriptor | actors are connections, lines are handled |
| `generate_path_config` | maps, a search, files | load, search all pairs, write | one failure ends all | a file has all its ways |

Interaction: an application thread calls `TcpService`, whose agents own a network
loop each; messages cross by two `MessageQueue`s read from timers of the loops,
control by `PushWakeupCallback`. All timers are ticks of the loop's
`TimingWheel`, whose timerfd is a channel of the loop like any socket. Gateway,
combat server and robot are single-threaded programs on `TcpSocketApp`; the
gateway is a client of the combat server. Inside the combat server the parts know
each other only through three dispatchers (events, votes, requires).

`PROJECT.json` lists every component with its status and every hazard at its line.

## Plan and where it stands

1. `MessageQueue` and `Fifo`; 2. `TimingWheel` and `TimerService`; 3. `EventLoop`;
   4. `EventLoopThreadPool` — done, with proofs.
5. `TcpSocketApp`, `DynamicBuffer`, `Framing`, `Encodings`, `Timestamp`, composed in
   `MCNetwork` — done; sockets, buffers and streams with proofs, texts and times
   model-checked.
6. `TransportService` — done, with proofs.
7. `Gateway`, `CombatServer`, `CombatLink`, composed in `MCCombat` — done, with
   proofs of all its safety invariants.
8. `Battle`, `ScenePath` (implements `AStar`) with `PathResult`, `ScenePool`,
   `PathTool`, `Startup`, `Robot`, composed in `MCArena` — done; `Battle`, `ScenePool`
   and `Robot` with proofs of their safety invariants, `ScenePath` of its refinement,
   the others model-checked.

## Modules of the library

`MessageQueue` — one action per step another thread can see: `PushCount`,
`PushLock`, `PushWrite` are `Push`; `ReadStart`, `ReadReset`, `ReadPop`/`ReadEmpty`,
`Exchange` are `OnExporedPendingRead`. `element`, `target` and `pc` are a producer's
locals. Elements are a size and the number of the push; the byte layout is left
out. The timer is a flag: its handler may run at any moment after it was armed.
`Fifo` is the channel it implements (`ChannelSpec`, mapping `sent` to what was
appended and `received` to what was given to `read_cb_`).

`TimingWheel` — the wheel sizes, the tick and the range of the int `undo_nsec_` are
constants. `OnRead` counts ticks, `BeginTick`, `Drain...` and `LeaveWheel` are
`OnExpired` one timer at a time, `AddTimer` and `RemoveTimer` may come between
ticks and from callbacks. `undo` is kept in units of the clock, a negative one
after an overflow. `call_times` 0, which the code treats as 1, is excluded.
The assumption that the last wheel spans more than a tick is what the `AddWheel` of a
timer put back for one more tick needs. `Delist` is `Wheel::RemoveTimer`, which looks
no further than the first entry. `TimerService` is what the wheels implement: live
timers with a moment and a number of owed callbacks.

`EventLoop` — channels are addresses; `attachId` survives the channel as memory
does. `WaitFor` is `epoll_wait` (any order, any of the events asked for, errors
always), `SkipRemoved`, `SkipUnset`, `Call` the body of the loop over the batch,
`DoWakeupCallback` and `Run...` the wakeup callbacks. While a callback runs
(`InCallback`) the application may build, attach, detach and destroy channels,
change callbacks, push callbacks and quit. The eventfd is its counter being
non-zero and the edge epoll has not reported. System calls are assumed to
succeed; fewer than 32 descriptors are ready at once (`active_events_`).

`EventLoopThreadPool` — `pc`, `current` are the owner's place in the constructor,
`Quit` and the destructor, `at[i]` a thread's in `StartThread` and `Loop`. Each step
is what happens under a `Thread`'s mutex; `Locked` is `Join` holding it in
`pthread_join`. Of the loops only `quit_`, the eventfd and the tick matter here.
`current_` is kept modulo the number of threads. `StartFails` is a constructor that
throws. A loop ends by `quit_` alone (`epoll_wait` does not fail); threads that are
detached or not joinable do not occur in the pool.

`TcpSocketApp` — a step is a handler with the callbacks it calls; the application
may close and send inside them, which is where the difficulty is. `kernel`,
`edges`, `unread` and `room` are the kernel's part: edge-triggered readiness and a
finite send buffer, bytes only counted. `view` is what the application was told of
a descriptor. A descriptor that is closed can be handed out again at once.
Timeouts are taken to be positive.

`DynamicBuffer` — the operations are operators on a record of vector and indexes;
the machine calls them in any order on two objects and swaps them, beside the
byte queue each should be. `Reduce` has no guard: `ReduceWritableBytes` computes in
`size_t`, which wraps at `SizeRange`, and the size that comes out cannot be allocated
(above `MaxVector`; the object stays as it is), or takes what is unread, or is too
small for it: then `memcpy` runs over the vector, `overrun` names the object, and the
behaviour ends there. `Framing` runs the two `OnMessage` loops over such a
buffer. `Encodings` sends texts through the cipher (`Aes`, byte by byte with the
code's tables and key schedule) and base64 (`Base64`) and back. `Timestamp` has two
time points that are moved on, compared and measured, beside the instants they
stand for.

`TransportService` — an agent for each network loop; `appCalls` and the agents'
calls are wakeup callbacks (in order, once each: what `EventLoop`'s `WakeupSpec`
states), `receiveQ` and the send queues are `MessageQueue`s (FIFO: `ChannelSpec`). A
handler is one step except that `AddTcpSocket` attaches a socket to another
thread's loop before it announces it. The application loop has turns, as
`EventLoop::Loop` has: timers first, which read each receive queue at most once a turn
(`OnExporedPendingRead`, `expired`) and exchange its buffers afterwards, then all wakeup
callbacks there are, as one step (`DoWakeupCallback`). `handed` is how much of a receive
queue is in the buffer that is read next; the rest is handed over at the end of this
reading and read in a later turn. `told` is the descriptors `connect_cb_` was called for,
`early` those `receive_cb_` was called for before. A failed `AddTcpSocket` leaves its
channel in `channels_` though the socket is freed; `FreedChannelSends` is
`OnSendQueueReady` finding it there.
`AnsweredOnce` counts the answers that are pending in `appCalls` and with the loop
that attached the socket (`builder`).

## Modules of the game

`CombatLink` — the connections of gateway and combat server as two queues of
messages in order; they break once, and none is opened again while the gateway
runs.

`Gateway`, `CombatServer` — one action per message handler and per close of either
side, everything a handler calls included. What happens on a field is left out of
`CombatServer`: a begun combat settles at some time.

`Battle` — the inside of a field. A battle is a record, every handler a function on
it; an event is the composition of the handlers of field, AI and scene in the
order in which `Startup` shows them registered. Actions are a player's action or
a timer of a warrior (move, search, refind, attack), the recovery timer, the
settlement and a next battle. Times are left out: timers that run may expire in
any order. `told` is what a player would know from the broadcasts.

`ScenePath` — an iteration of `SearchPath` per step, with the heap's memory and the
positions the nodes keep. The loops that sort it and the one over the neighbours are
recursive functions of the number of turns, so that they can be proved about.
`PathResult` adds what a search gives, the way back along the parents, and compares it
with the cheapest way there is. `AStar` is the same search with an open set, which
`ScenePath` implements; `PathTool` runs it with the tool's costs for all pairs of cells.
`ScenePool` — what a combat finds in a pooled scene. `Startup` — mains,
configurations and tables, XML being its parts and rows. `Robot` — commands,
connections, messages.

`MC...` modules give the constants their values and compose; those that hold
independent machines (`MCNetwork`, `MCArena`) choose one at the start (`part`) and
let the others stand still. `...Proofs` hold the theorems. Operators commented
"Mutant of" are plausible mistakes: each property fails when the definition it
names is replaced by the mutant.

## Runs

| run | bounds | shows |
|---|---|---|
| `mq_fifo` | 2 producers, 4 pushes | types, the hand-over of the buffers, no buffer shared by writer and reader, refinement of `Fifo` with progress (order, no loss) |
| `mq_empty` | 1 producer, 4 pushes of size 0 or 1 | nothing doubled, nothing with contents left behind for ever; order is lost (a reading ends at the first empty message) and not claimed |
| `tw_steady` | 8 ticks in 3 wheels, 2 timers of 1 to 4 ticks, once or repeated, clock never set back | no timer a tick late after `OnExpired`; gaps between callbacks exact below the first wheel's size, an upper bound above it; draining ends (durations of at least a tick) |
| `tw_jumps` | 4 ticks in 2 wheels, 2 timers, clock set back or jumping past the int | timers lie where their fields say; refinement of `TimerService` |
| `el_channels` | 2 channels and the timer's, 4 attach ids, symmetric | detached channels are silent, attached ones are not silenced, and the inductive invariant behind both |
| `el_wakeup` | 2 threads and the loop's callbacks, 4 pushes, `Quit` by a thread and by callbacks | no lost wakeup; refinement of `Fifo` with progress, without any help of the timerfd; once `Loop` was entered, `Quit` ends it |
| `pool_quit` | 3 threads | no thread runs once its object is deleted (once `quit_` of the pool is set: proved); `Quit` returns if it finds every thread in `Loop` |
| `el_reuse` | as `el_channels` | a violation: see Finding |
| `network` | 1 descriptor beside the listener, opened 3 times, room for 1 byte; 2 buffers of sizes 1 and 1 or 2 and 2 with 3 unread bytes each, vectors of 7 bytes together and one byte marked, `size_t` up to 65536, vectors up to 1000; 3 messages of payload up to 2 in any cut; texts around the cipher's blocks, all base64 texts of up to 4 of four bytes; seconds of 2 ms of 3 µs of 2 ns | tables and kernel agree and the application is told (`NothingLeaks`); a connect timer is that of a socket that is still connecting (`TimersMatch`); every attempt is answered; buffers are byte queues, and shrinking one writes behind its vector only when more than `init_size_` is unread (`BuffersKept`); messages survive (`FramesKept`), and so do texts and times (`ConversionsKept`) |
| `transport` | 2 network loops, 1 descriptor used twice, 1 message | of a socket that its own loop attached, `receive_cb_`, `close_cb_` and `error_cb_` come after `connect_cb_`, though the application loop reads the receive queues before it runs the wakeup callbacks: a message is read a turn after its buffer was handed over (`ConnectedFirst`); an attempt is answered once, whichever of write, error and timer wins, and is answered |
| `combat` | 2 players, 2 requests, 2 starts of the gateway, 4 role objects | no pointer dangles on either side; both ends have the same combats while connected, up to messages on their way; a pair is answered unless the connection is lost |
| `arena` | battle: 6 cells, 3 buildings, 2 roles, warriors of 2 hit points, ids up to 6, a cell the second role sends its warriors to, and a next battle; all searches on 64 maps of 4 by 3; 2 maps and an unknown one in 3 combats; start-up with every order of the files and one fault at a time; the tool on maps of 3 by 3 with up to 2 walls; robot: 2 connections, 3 lines | who chases or attacks is told of its target, and the players know what they would be shown (`TargetsWatched`); supply, food, buildings and grids balance; paths are cheapest and the heap search is A*; scenes, start-up, files and robot as their properties say |

Why the bounds are enough: four pushes fill both buffers and let a second
exchange meet a producer between its lock and its write; three wheels of two
buckets with timers of one to four ticks use every wheel, every wrap and both
cascades; two channels and four ids allow a closed channel, its rebuilt memory
and a bystander in one batch. One descriptor used three times meets its own
timers, edges and residues; a second one shares none of these tables' entries.
A buffer moves bytes without looking at them, so one marked byte among others that are
all alike shows a wrong order (the proofs take any bytes, and a `Mark` that is none of
them bounds nothing); 7 bytes let one vector grow several steps beside another.
Two requests are what pairing with oneself, a second combat while in one, and an
old combat after a restart take. In the battle, ids up to 6 allow three warriors,
so that a hit makes another attacker and a chaser lose the same target; one row
of cells makes them meet. `Width` stands for 2^32, `IntLimit` for 2^31, `SizeRange` for
2^64 and `Milli`, `Micro`, `Nano` for 1000; they are small so that wrapping happens. Deadlock is
checked for the queue; the other runs stop where a bound ends them, a program has
quit, or nothing is left to happen.

Fairness: threads inside a library call keep running and callbacks return. The
queue's timer expires because its loop ticks every 10 ms. `EventLoop`'s `Spec` only
assumes that a readable eventfd ends `epoll_wait`; `TickingSpec` adds the timerfd,
which `Quit` needs because the pool wakes the loop before it sets `quit_`.
`EventLoopThreadPool`'s `FairPoolSpec` assumes that threads run, the tick included, and that
an owner inside `Quit` or the destructor goes on; that anybody calls them is not
assumed. For sockets, `epoll_wait` reports what is ready and a running connect
timer expires however busy the sockets are (strong fairness: the timerfd is a
channel of the batch like them). In the transport every loop runs, the timers
being steps of their loop. In `MCCombat` only the receiving of messages is fair:
players need not do anything and connections need not break; that an answer comes
then rests on the handlers alone.

Finding (`el_reuse`): the comment at `event_loop.cc:295` says that an event channel
is not used once it was removed from epoll, but the check reads the id the
address has now. If a callback re-attaches the channel, or destroys it and
builds another in the same memory, the events left in the batch are handled for
the new registration. `DetachedIsSilent` is what does hold.

## What the code does and no property claims

The models have these behaviours; the properties are stated so that they hold
beside them.

Event loop, queue, wheel. `Loop()` clears `quit_`, so a `Quit()` before it is entered
is forgotten and the pool's `Join` waits for ever (hence the premises of `QuitEnds`
and `QuitReturns`). Repeating timers of 0 ticks keep a drain going for ever. Timers
of 256 ticks and more that are put back while a wheel's successor still has to be
drained come round early.

Sockets and transport. A socket that was accepted gets no write callback, so what
a partial write left is sent only with a later message; a close that arrives
together with bytes is not reported until something else arrives. The condition in
`TransportAgent::RemoveTcpSocket` is inverted: connections are announced as closed and
never closed. The result of `SendMessage` is inverted as well, and `OnListenError`
announces a listener as handled. The listener's callback runs on the network loop,
where `tcp_service.h` speaks of the application's. What the application sends
through the agent it is given with an asynchronous connection
(`transport_agent.cc:455`) is dropped. A socket that another thread attaches may
deliver data before it is announced: `receive_cb_` then comes before `connect_cb_`. A
channel whose `AddTcpSocket` failed is freed but stays in `channels_`
(`transport_agent.cc:200,209`), where `OnSendQueueReady` uses it for what is still sent to it.

Buffers. `ReduceWritableBytes` (`dynamic_buffer.cc:118-134`), with more than `init_size_`
unread, subtracts steps that may be more than there are: half of the wrapped
difference times an even `expand_size_` (256 in the program) wraps again, to a vector
that is too small, and `memcpy` runs over its end; an odd one gives a size that cannot
be allocated. Without wrapping the vector may be too small as well. Nobody calls it.

Codecs, timestamps. The gateway's `Codec::OnMessage` advances by the header size once
too often, so messages found together lose their framing. Long texts keep their
last 1 to 16 bytes in plain; base64 characters that the decoding table does not
have are left out. A `Timestamp` normalises only above 10^9 ns and may hold a whole
second of nanoseconds (`timestamp.cc:121`).

Gateway and combat server. `RemovePending` erases nothing. Nobody connects again
after the connection to the combat server closed, and `OnConnectError` is not wired.
An actor that asks again is paired with itself or put into a second combat; when
that fails it loses its first. A field that was deployed but not begun when its
gateway is lost never settles, and its argent ids stay taken. Roles that went back
to the pool are still in their session's `connected_roles_`: when it closes it takes
the session from whoever has the objects then. A gateway that starts again numbers
its actors anew and meets the old fields. It always deploys map 3.

Battle. A removal that is pending during a dispatch undoes a new registration
(`event_observer.cc:86`): an auto that goes from search to chase because it was
attacked does not notice its own steps. The chase of a building never moves
(`move_action.cc:57`). From attack to chase the target is forgotten, so the auto
always ends in search. A converted building keeps 0 hit points and is converted by
each further hit. Role objects keep their supply in the pool, and a building that is
lost may leave a supply above its maximum. `DoMoveAction` does not ask whose warrior
it is. The status image marks an attack as a move (`combat_field.cc:373`). The scene's
last column is never tried as a place near a building.

Scenes and start. A pooled scene appends the nodes of its next map to the old ones
(`scene.cc:77`), and a failed `Scene::Allocate` is ignored (`scene_manager.cc:113`): on a
map that is not known a combat gets the grids of an earlier one with the addresses
of its deleted buildings, and has no scene at all when a new building is at one of
these addresses (`scene.cc:233`). A block file with fewer cells than its width and height
say is taken (`scene_manager.cc:269`). `map.xml` listed before `map_build.xml` gives maps without
buildings (`map_config.cc:201`). The example configurations lack elements that the
programs require (`combat_building`, `conf_path`, `configs`, the file `battle_build.xml`).
The heuristic overestimates a way of eight diagonals and more, so that "cheapest" is
a statement about small maps.

Tool, robot. A diagonal step costs 10 and is estimated as 14, so a way may be up to
1.42 times as long as the shortest; one pair of cells without a way ends the tool;
a negative `-m` writes empty files. `fgets` takes several lines at once and only the
first is handled; a line longer than its buffer ends the robot, and so does the end of
input of a terminal, but not that of a pipe (`EPOLLHUP`, for which standard input's
channel has no callback); `run` reads words that are not there; `OnClose` leaves the
descriptor open; the answer to an action has no handler.

## Proofs

`MessageQueueProofs`, for every set of producers, sizes and settings, from
`MessageQueueAssumption` (numbers are naturals, the thread names are not the mark of
a free mutex):

- `TypeCorrect`: `TypeOK` is inductive; `NextExpiredBounded` covers the 32-bit timer
  arithmetic.
- `WriterNotReadCorrect`: from `Locking` (the owner of the mutex is the one that
  writes, to `*producer_`, which is not `*consumer_`), inductive with `TypeOK`.
- `HandOverCorrect`, `FifoOrderCorrect`, `ExchangeHandsOverEmptyCorrect`, `ChannelSafe`,
  assuming `0 \notin Sizes`: `FifoOrder` is not inductive because it says nothing
  of the buffers, so `HandOver` adds that the pushed sequence is the delivered one,
  then the buffer that is read, then the one that is written, and that the first
  of them is empty when they are exchanged. Every step of the queue is then a step of
  the channel or leaves it alone.

`EventLoopProofs`, for every finite set of channels and any threads, registrations
and pushes, from `EventLoopAssumption`:

- `TypeCorrect` and `RegistrationsCorrect`, proved together. `DetachedIsSilent` and
  `LiveNotSilenced` say nothing of the ids of channels that are not called, so
  `Registrations` adds what keeps them true: ids in use are distinct and not in
  `removed_event_channels_`, and an entry of the batch is the eventfd, an attached
  channel or one whose id was remembered. `AttachRegisters` covers `Build` and
  `AttachEventLoop`, `BatchKept` every handler that runs inside a batch.
- `LiveNotSilencedCorrect` and `DetachedIsSilentCorrect` follow from it.
- `WakeupsCorrect`: `Wakeups` says where each pushed callback is and that a queued one
  has a batch to end, an unread eventfd or a `Wakeup()` to come. `NoLostWakeupCorrect`
  is its case for a blocked loop; `WakeupQueueSafe` maps `PushCallback` to `Send` and
  `RunCallback` to `Receive` of `Fifo`.

It ends with the pool, for every number of threads but 0, from `PoolAssumption`:
`PoolTypeCorrect`, `QuitMeansEndedCorrect`, `NoUseAfterDeleteCorrect`. The
two invariants say nothing of a `Quit` under way; `Progress` adds that the threads
before `current` are joined, that those from `current` on are not created while the
constructor runs, and that only joined threads, or the one a failed constructor was
at, are deleted. `JoinedGone` turns joined into ended.

`MessageQueueProofs` also has, for sizes of 0 as well, `NoDuplicateDeliveryCorrect`: when
a reading ends at an empty message, the buffer that is written is not read empty and
`HandOver` does not hold. What does is `OnePlace`: the number of a pushed element occurs
in one place only, with its producer, in one of the two buffers or among the
delivered, however often the buffers are exchanged.

`TimingWheelProofs`, for any number and sizes of wheels, any clock and any ints, from
`TimingWheelAssumption`:

- `TypeCorrect`, `PlacementCorrect`: the inductive invariant adds to types and
  `Placement` that a live timer's distances stay below the last span and its bucket is
  one of its wheel (`InRange`), and that the drained bucket is one of its wheel and a
  callback runs exactly in its phase (`Cursor`). `WheelFor` always finds a wheel because
  an int of milliseconds stays below the last span; spans are defined recursively, and
  what the proofs need of them (`SpanDef`, `SpanGrows`) comes from a least
  counterexample (`LeastNat`) instead of an induction theorem. `Enlist` and `Delist`
  have lemmas of their own.
- `ServiceCorrect`: under the refinement mapping a timer that waits to be put back or
  moved is live, `DrainFire` is the service's callback, calls are calls, and every
  other step leaves the service as it is.
- `NoneOverdueCorrect` speaks of a state between two `OnExpired`; what holds at every
  tick is `OInv`: the wheels' time and the ticks until a timer's bucket is drained
  (`Left`) together are at most a tick beyond its expire timestamp (`InTime`), and
  what the clock leaves over, `undo`, is never negative (`Steady`). Behind it
  is that the wheels turn in step (`Turning`, `Turns`): a wheel moves on exactly when
  the wheels before it have come round, so that the way to a bucket is a number of
  ticks (`TicksTo`) which each tick shortens by one (`Nearer`), which a timer has
  exactly when it is put there (`PlacedFar`) and keeps when it moves to a nearer wheel
  (`Enters`). Three hypotheses: no timer of time 0 (it is put into the bucket that was
  just drained and waits a whole turn of the first wheel); the clock is not set back
  (`ClockKept`: a timer started after it was is put after the old time); and a gap
  between two `OnExpired` fits the int `undo_nsec_` (`GapsHeld`: longer ones lose
  ticks). The run `tw_steady` satisfies all three.
- `RepeatsOnTimeCorrect`, from `RInv`: the tick of the last callback and the way that is
  left (`OnTime`) are `expire_tick_counts` for a timer that fits the first wheel
  (`PlacedExactly`) and at most that for others. It counts ticks of the wheels, so
  it needs no `GapsHeld`.

`TcpSocketAppProofs`, for any descriptors, timers and room: `NothingLeaks` (with the
types, the tables against the kernel and what the application was told) and
`TimersMatch` are inductive together with `EventsFit`, which says that a read event is
handled for the socket it was reported for. Without it a handler that runs after a
callback closed the descriptor could meet a successor that is still connecting. It
extends `MCNetwork`, so that the same holds when the network layer's parts run side by
side (`NetworkSocketsCorrect`), together with the buffers (`BuffersKeptCorrect`) and the
streams.

`FramesKeptCorrect`, for any number and sizes of messages and any cut of the stream:
`FramesKept` speaks of what is left in the receive buffer, so the invariant
(`StreamInv`) speaks of that and the bytes on the way together. They are the end of what
was sent, each byte followed by the next of its message or the first of the next
message (`Chained`); reads take from the front only, so this holds even when the
gateway's codec has lost the framing. While it has not, a message begins at their first
byte, and what was handed on is every message before it that is known (`Right`).
`ReadFrom` defines the loop of `OnMessage` recursively along the bytes: `ReadFromIs` shows
that the definition has a solution, `FrameIs` that the loop goes from message to message,
and `ReadsRight` that it hands on what lies between, by induction on the bytes that are
left (`Induction`, from `LeastNat`). `GatewayReads` is the case of a call that finds nothing
behind the first message: the byte too far that `Codec::OnMessage` goes on is behind all
there is. `SendKeeps` and `ReadKeeps` are the two steps.

`DynamicBufferProofs`, for any sizes, from `BufferConstants`: `ContentsCorrect` from an
invariant of one object (`IndexedObject`) and a lemma for each operation that says what
it does to the contents (`ReserveIs`, `WrittenIs`, `ReadIs`, `ReduceIs`, `SwappedIs`). With
it comes `ReducedSafely`, that shrinking writes behind a vector only when more than
`init_size_` is unread; that it keeps enough room then is not so, and not claimed.
`SizedCorrect` needs that all objects are made with the same sizes, as the program's
are: `Swap` exchanges the vector and `expand_size_` but not `init_size_`. Its
arithmetic (`Multiple`, `Grown`) says that a step more leaves no remainder and that
growing overshoots by at most a step. Of shrinking, `ReducedLess` is the difference that
does not wrap: the vector does not grow. `ReducedMore` is the one that does: half of it
(`HalfKept`, `KeptOfWrapped`) times the step is, modulo `SizeRange`, negative when the step
is even and about half of `SizeRange` more than that when it is odd, so that the vector
is shorter than `init_size_`, and so than what is unread, or longer than any (`SizedShort`). Two of the
assumptions are for this: `SizeRange` is even, and no vector is longer than a quarter
of it.

`TransportProofs`, for any agents, descriptors and bounds: `ConnectedFirst` and
`AnsweredOnce` are inductive together with `CallsMatch` (a callback pushed for an
attempt stands for one socket that was opened and waits for it), `Announcements` (a
loop announces only what it attached, while it is attached), `Unheard` (of a socket
that is not attached nothing is pending or in a queue but a failed attempt), `KnownFirst`
and `Counted`. That `receive_cb_` comes after `connect_cb_` is the part `Turn`: unless a queue
was read in this turn, what is in the buffer that is read next is from sockets the
application was told of, if their own loop attached them. The exchange that fills this
buffer (`TurnRead`) breaks it until the turn ends, when `DoWakeupCallback` runs all that was
pushed before (`TurnWakeup`, `HeardWakeup`); and what its own loop puts into the queue it
has pushed the announcement of already (`KnownFirst`, `KnownWhenReady`). The cardinality of the pending answers is followed by lemmas on appending
to and taking from a queue.

`CombatProofs`, for any players, roles, combats and restarts, from `MCCombat`'s
constants: `PointersKept` of both ends with the invariants of the gateway, of the
server and of the messages between them. `HostOnceCorrect`: the number a combat goes by
until the server has answered is on its way once, and no more when the combat is
deployed; otherwise an answer could give a combat a second number, and the first
would be a key to nothing. The gateway counts argent ids as it counts the actors
that have one (`Counted`), so that numbering anew meets none in use.
On the server a field's two role fields, its roles and their
sessions point at each other in pairs, and pooled roles at nothing.

`InStepCorrect`, from the same and `AnswerAssumption` (the answer that says that there
is no field has no number). `InStep` relates two ends and two queues, and is inductive
only with what each message on its way is right about (`JInv`):

- `Connections`: only the last connection is in use, its `Opened` comes before all else,
  and as long as the gateway has not heard it nobody uses it (`Unheard`, `Unseen`).
  `CurrentNext` and `CutKeeps` cover restarts and breaks.
- `Joining`: for each number, twice the deployments on their way, the joins that are
  counted, asked for and answered are at most 2 together (`Joins`). That a role joins
  once is this count, followed by lemmas on how often a queue has a message
  (`TimesConcat`, `TimesTail`).
- For a session whose connection is up: `FieldsKnown`, `FieldsTold`, and that a
  deployment is of a field that has not begun and has the roles that the gateway meant
  (`DeployRight`, `DeployedRight`, `ConnectRight`), that who is told that a combat is gone
  or not found can rely on it (`Gone`), and that begin is asked for once both have joined
  and after the deployment was read (`BeginRight`, `BegunRight`).
- `Owned`, `Begins`, `Numbered`, `Named`, `KeyBack`: what is left of earlier connections
  touches no field of this one, and numbers, names and pointers are told apart.

There is a lemma for each action of the two servers and the connection (`LoginJoint` to
`BreaksJoint`, `ServerConnectedJoint` to `DeployServed`). Those that tell the other end
nothing of the combats share `IdleStep`, those that give up a combat `ShrinkStep`.

`ArenaProofs`, about `Battle`, for any map, ways, hit points and supplies and any number of warriors:
`TargetsWatchedCorrect` and `BooksBalanceCorrect`, from one inductive invariant
(`BattleInv`; `BattleInvStep` is its step). A step of the battle is a whole tree of calls:
a hit tells observers, who chase somebody else, who tells the players, and a death in
the middle of an attack ends the attack of the one who dealt it. The two properties
hold between steps only, so the proof speaks of battles in the middle:

- `Acts` says what may differ after autos of a set have acted; each handler of an auto
  keeps `AutoKept` of that auto (it observes its target and goes on to, its timers are
  those of its status, the players know) and lets the others be.
- `Counted` alone would not survive: the number of attackers of a building changes
  twice on the way, at `CountTargeted` and with the status, so the difference is
  followed by lemmas on the cardinality of `Attackers`.
- A removal while events are dispatched is pending (`pending`). `AutoKept` therefore
  demands that no pair an auto relies on is pending, and after the dispatch nobody
  observes the dead or converted target who still follows it.
- `Telling` goes along the ids of those who observe; what holds after each is proved by
  induction on the id (`Induction`, from `LeastNat`), and so are the buildings of
  `Recovering`. Both definitions are recursive functions of a number.
- `InOrder` is what holds after every handler of a step, `BattleKept` adds that nobody at
  0 hit points is left. `CampsRight` has that every camp keeps a building as long as the
  battle is on, because a conversion of the last one settles it.

Three assumptions: `BattleAssumption` (the ranges of the constants); `RoutesAssumption`,
that a way found ends where it is to lead, which `arena` checks of `PathResult`
(`PathsFound`); `CampsAssumption`, that there are two camps with a role each (the gateway
makes them, `combat_manager.cc:284,325`) and that the map gives each of them a building.
The last is the configuration's business and nobody checks it: for a camp without
buildings `AllocateBuildingSupply` stops, and the camps after it get no supply.

About `ScenePool`, for any maps, sites and number of combats, `ScenesReadyCorrect`. A
scene in use may be on its tenth combat, so the invariant follows scenes everywhere:

- `SceneKept` is what a scene remembers of all its combats: its nodes begin with those
  of the first map (`NodesFirst`), which `Scene::Allocate` never removes, while width and
  walkability are those of the last one.
- `Waiting` adds that it has neither buildings nor timer, as in the pool; of its
  grids nothing is said, because `Scene::Finalize` leaves the buildings on them, and
  `AllocateKeeps` shows that it does not matter on a map that is known: the next
  `Allocate` makes new ones.
- `Holds` is a scene with the first n buildings of a combat. `Adding`, a recursive function
  of that number, keeps it (`AddBuildingsHolds`), until all are placed or the scene
  goes back to the pool because one has no cell or is refused (`MayRefuse`).

`SceneAssumption` says that the sizes of maps are naturals, that no map has the id of
none, and that buildings are on pairs of coordinates, on the map or not. That a map
may be unknown is part of the model.

About `Robot`, for any descriptors and any lines, `RobotKeptCorrect`: the actors are the
connected sockets after every handler, because all ways a connection ends pass
`OnError` or `OnClose` (`FailKeeps`, `CommandKeeps`, `ConnectionKeeps`); and as long as
lines come one by one the pipe has at most one, with an edge still to be told of, and
the buffer of `fgets` none (`LinesRight`).

About `ScenePath`, for any walkable cells, begin and end: `SearchIsAStarCorrect`, that
each iteration of `Scene::SearchPath` is a step of `AStar`, and `OpenListKeptCorrect`, that
its open list stays a heap. Both come from `SearchKept`:

- `Places`: a node is on the list once, those behind the first know where, and a position
  other than 0 means to be on it.
- `FirstPlace`: `DeleteMinFScoreNodeInOpenList` moves the last node to the root and leaves
  it the position it had until it is swapped, so the first may know a wrong one. If it
  is never swapped, that place is 2 or 3, as a list of more would have moved it
  down; and when it is beyond the list the memory still holds that node, as every push
  would take that place first. `ResortOpenList` starts from there when a cheaper way to the
  first is found, and reads behind the end of the vector; it compares the node with
  itself or with one it is cheaper than, so that nothing gets lost (`ResortsFirst`).
- `Heap`: no node costs less than the one above it. In the middle of the loops this holds but
  for the node that moves (`RisesAt`, `FallsAt`; `RiseKeeps`, `FallKeeps`), and the turns
  the recursive functions allow are enough for it to come to rest (`RiseEnds`, `FallEnds`).
- `CostsRight`: f is g and the estimate for all that is open; so a smaller g is a smaller f
  and sorting towards the root is enough (`CheaperKeeps`).
- `Reaches` follows the loop over the neighbours: after each of them costs, parents and
  open nodes are those of `AStar` for the neighbours so far (`VisitKeeps`, `VisitingKeeps`).

`SearchAssumption` says that cells are pairs of integers and that a search begins on a walkable
one. That nodes are opened again when the rounded estimate misleads is part of both.

Model-checked only: everything under fairness (`EventuallyDelivered`, `DrainEnds`,
`QuitEnds`, `QuitReturns`, `AttemptsAnswered`, `Answered`, the progress halves of
`ChannelSpec` and `WakeupSpec`: liveness is out of the prover's reach);
`ConversionsKept` (that the cipher and base64 undo what they did is a fact about bytes
that the run computes for the lengths that differ; the times go with them); and
`PathsFound`, `StartedRight` and `PathFilesRight`, which compare a search, a start-up or
a tool with reference definitions that recur over data, where the library's induction
theorems cannot be used. Where a definition recurs along a number, as the spans of
wheels, the loop of a codec, the dispatch of an event, the buildings of a scene and the
turns of the heap's loops do,
the least counterexample of a set of numbers took the place of an induction theorem.

## Not modelled

- TinyXML (twice) and protocol buffers: vendored and generated; a document is its
  elements and rows, a message its fields.
- Logger, exceptions, hex dump, printing, daemonizing: output and process control
  without state that a property could be about.
- Socket addresses and options; `Thread::Detach` and threads that are not joinable;
  the callback setters of `TcpService`.
- The attributes of warriors beyond range and hit points: a hit takes a constant,
  steps and timers take no time, food a role begins with is its maximum.
- Buildings of camps without a role: the gateway never sends one.
- Memory running out, and system calls failing where the code throws or ignores it.
- The tests and the demos of the library.
