--------------------------- MODULE DynamicBuffer ---------------------------
(***************************************************************************)
(* mysya/ioevent/dynamic_buffer.cc: a byte queue in a vector that grows by *)
(* multiples of expand_size_.  The operations are operators on the object, *)
(* a record; the state machine calls them in any order on a few objects.   *)
(*                                                                         *)
(* A byte is a member of Bytes, memory nobody wrote is Zero.  A size_t     *)
(* wraps at SizeRange, which only ReduceWritableBytes gets to; a memcpy    *)
(* over the end of a vector ends the behaviour.                            *)
(***************************************************************************)
EXTENDS Integers, Sequences, SequencesExt

CONSTANTS Buffers,     \* the objects
          Sizes,       \* the sizes they may be made with, init_size and expand_size of each
          Bytes,
          Zero,        \* what a new vector is filled with
          MaxReadable, \* bound on the bytes left unread in an object
          MaxChunk,    \* bound on the bytes one call adds
          SizeRange,   \* where size_t wraps
          MaxVector    \* the longest vector that can be allocated

\* What the constants are.
BufferConstants ==
  /\ Sizes \subseteq [Buffers -> [init : Nat \ {0}, expand : Nat \ {0}]]
  /\ {MaxReadable, MaxChunk, MaxVector, SizeRange} \subseteq Nat
  /\ Zero \notin Bytes
  /\ SizeRange % 2 = 0 /\ 4 * MaxVector <= SizeRange
  /\ \A sizes \in Sizes, b \in Buffers :
       sizes[b].init <= MaxVector /\ MaxReadable + MaxChunk + sizes[b].expand <= MaxVector

-----------------------------------------------------------------------------
(* The object *)

New(size) ==
  [mem |-> [i \in 1..size.init |-> Zero], init |-> size.init,
   expand |-> size.expand, read |-> 0, write |-> 0]

CapacityBytes(obj) == Len(obj.mem)
ReadableBytes(obj) == obj.write - obj.read
WritableBytes(obj) == CapacityBytes(obj) - obj.write

Contents(obj) == SubSeq(obj.mem, obj.read + 1, obj.write)

Smaller(m, n) == IF m < n THEN m ELSE n

\* Mutant of Moved: the vector's beginning is copied, not what ReadBegin() points to.
MovedFromStart(obj, size) ==
  [obj EXCEPT
    !.mem = [i \in 1..size |-> IF i <= ReadableBytes(obj) THEN obj.mem[i] ELSE Zero],
    !.read = 0,
    !.write = ReadableBytes(obj)]

\* A vector of the given size that begins with what was not read.
Moved(obj, size) ==
  LET readable == Contents(obj)
  IN [obj EXCEPT
       !.mem = [i \in 1..size |-> IF i <= Len(readable) THEN readable[i] ELSE Zero],
       !.read = 0,
       !.write = Len(readable)]

ReserveWritableBytes(obj, size) ==
  LET free == obj.read + WritableBytes(obj)
      added == IF free < size THEN obj.expand * ((size - free) \div obj.expand + 1) ELSE 0
  IN IF WritableBytes(obj) >= size THEN obj ELSE Moved(obj, CapacityBytes(obj) + added)

\* memcpy to WriteBegin().
Put(obj, data) ==
  [obj EXCEPT !.mem = [i \in DOMAIN @ |->
    IF i \in (obj.write + 1)..(obj.write + Len(data)) THEN data[i - obj.write] ELSE @[i]]]

WrittenBytes(obj, size) == [obj EXCEPT !.write = @ + Smaller(size, WritableBytes(obj))]

AppendBytes(obj, data) ==
  WrittenBytes(Put(ReserveWritableBytes(obj, Len(data)), data), Len(data))

ReadBytes(obj, size) ==
  LET read == obj.read + Smaller(size, ReadableBytes(obj))
  IN IF read = obj.write
     THEN [obj EXCEPT !.read = 0, !.write = 0]
     ELSE [obj EXCEPT !.read = read]

\* The number of expand_size_ that ReduceWritableBytes keeps: where what is
\* unread takes more of them than are free, the difference wraps.
KeptMultiple(obj) ==
  LET free == CapacityBytes(obj) - ReadableBytes(obj)
      steps == (ReadableBytes(obj) - obj.init + obj.expand) \div obj.expand
  IN IF ReadableBytes(obj) <= obj.init
     THEN (((CapacityBytes(obj) - obj.init) % SizeRange) \div obj.expand) \div 2
     ELSE ((free \div obj.expand - steps) % SizeRange) \div 2

\* The size of the vector that ReduceWritableBytes moves to.
ReducedSize(obj) == (obj.init + KeptMultiple(obj) * obj.expand) % SizeRange

\* Swap() leaves each object its init_size_.
SwapWith(obj, other) == [other EXCEPT !.init = obj.init]

-----------------------------------------------------------------------------
(* The objects in use *)

VARIABLES
  buf,     \* the objects
  queue,   \* history: what was added to each and not yet read
  overrun  \* the objects behind whose vector memory was written

vars == <<buf, queue, overrun>>

Chunks == BoundedSeq(Bytes, MaxChunk)

Init ==
  /\ \E sizes \in Sizes : buf = [b \in Buffers |-> New(sizes[b])]
  /\ queue = [b \in Buffers |-> <<>>]
  /\ overrun = {}

Added(b, data) ==
  /\ Len(queue[b]) + Len(data) <= MaxReadable
  /\ queue' = [queue EXCEPT ![b] = @ \o data]
  /\ UNCHANGED overrun

AppendTo(b, data) ==
  /\ Added(b, data)
  /\ buf' = [buf EXCEPT ![b] = AppendBytes(@, data)]

\* A socket is read into the buffer: room for what ioctl told, and what recv
\* finds, which may be more and then fills the rest.
Receive(b, size, data) ==
  LET room == ReserveWritableBytes(buf[b], size)
  IN /\ Len(data) <= WritableBytes(room)
     /\ Added(b, data)
     /\ buf' = [buf EXCEPT ![b] = WrittenBytes(Put(room, data), Len(data))]

Consume(b, size) ==
  /\ queue' = [queue EXCEPT ![b] = SubSeq(@, Smaller(size, Len(@)) + 1, Len(@))]
  /\ buf' = [buf EXCEPT ![b] = ReadBytes(@, size)]
  /\ UNCHANGED overrun

\* ReduceWritableBytes(): no vector of that size can be had and the object stays
\* as it is, or what is unread is moved, or it does not fit and memcpy goes on
\* behind the vector's end.
Reduce(b) ==
  LET size == ReducedSize(buf[b])
  IN /\ UNCHANGED queue
     /\ \/ size > MaxVector /\ UNCHANGED <<buf, overrun>>
        \/ /\ size \in ReadableBytes(buf[b])..MaxVector
           /\ buf' = [buf EXCEPT ![b] = Moved(@, size)]
           /\ UNCHANGED overrun
        \/ size < ReadableBytes(buf[b]) /\ overrun' = {b} /\ UNCHANGED buf

Swap(b, c) ==
  /\ buf' = [buf EXCEPT ![b] = SwapWith(buf[b], buf[c]), ![c] = SwapWith(buf[c], buf[b])]
  /\ queue' = [queue EXCEPT ![b] = queue[c], ![c] = queue[b]]
  /\ UNCHANGED overrun

Next ==
  /\ overrun = {}
  /\ \E b \in Buffers :
       \/ \E data \in Chunks : AppendTo(b, data)
       \/ \E size \in 1..MaxChunk, data \in Chunks : Receive(b, size, data)
       \/ \E size \in 0..(MaxReadable + 1) : Consume(b, size)
       \/ Reduce(b)
       \/ \E c \in Buffers \ {b} : Swap(b, c)

Spec == Init /\ [][Next]_vars

-----------------------------------------------------------------------------
(* Properties *)

BufferType ==
  [mem : Seq(Bytes \union {Zero}), init : Nat, expand : Nat, read : Nat, write : Nat]

\* The indexes stay in the vector, and an emptied buffer starts over, so that
\* its whole vector can be written again.
Indexed ==
  \A b \in Buffers :
    /\ buf[b] \in BufferType
    /\ buf[b].read <= buf[b].write
    /\ buf[b].write <= CapacityBytes(buf[b])
    /\ buf[b].read = buf[b].write => buf[b].read = 0

\* Reading gives what was added, in order, whatever growing, shrinking,
\* swapping and partial reading happened in between.
ContentsKept == \A b \in Buffers : Contents(buf[b]) = queue[b]

\* Shrinking never writes behind the new vector while what is unread fits into
\* init_size_ (the first branch of ReduceWritableBytes).
ReducedSafely == \A b \in overrun : ReadableBytes(buf[b]) > buf[b].init

\* A vector is init_size_ and a multiple of expand_size_, as the comment in
\* ReserveWritableBytes has it, and never outgrows what it had to hold by more
\* than the chunk at hand and a step: bytes that were read are reused.
Sized ==
  \A b \in Buffers :
    /\ CapacityBytes(buf[b]) >= buf[b].init
    /\ (CapacityBytes(buf[b]) - buf[b].init) % buf[b].expand = 0
    /\ \/ CapacityBytes(buf[b]) = buf[b].init
       \/ CapacityBytes(buf[b]) <= MaxReadable + MaxChunk + buf[b].expand

=============================================================================
