----------------------------- MODULE MCNetwork ------------------------------
(* TcpSocketApp, DynamicBuffer, Framing, Encodings and Timestamp for TLC,    *)
(* side by side: every behaviour runs one of them, the others stand still.   *)
EXTENDS TcpSocketApp

CONSTANTS Buffers, Bytes, Zero, MaxReadable, MaxChunk, SizeRange, MaxVector, MaxMessages,
          MaxPayload, SendBuffer,
          Mark,       \* a byte that is in memory once at most, if it is one of Bytes
          MaxMemory   \* bound on the vectors of all buffers together

VARIABLES part, buf, queue, overrun, codec, sent, stream, received, dispatched, merged, refused, text,
          stamp, other, instant, otherInstant

\* Both buffers are made with the same sizes, both of them even or both odd.
EqualSizes == {[b \in Buffers |-> [init |-> n, expand |-> n]] : n \in {1, 2}}
Buffer == INSTANCE DynamicBuffer WITH Sizes <- EqualSizes
Stream == INSTANCE Framing

\* The bounds of the buffers.  A mark among bytes that are all alike is enough to see
\* whether they stay in order.
Memory == UNION {{b} \X DOMAIN buf[b].mem : b \in Buffers}
InBounds ==
  /\ Cardinality(Memory) <= MaxMemory
  /\ Cardinality({m \in Memory : buf[m[1]].mem[m[2]] = Mark}) <= 1

\* Payloads that end inside, at and behind a block, and texts for base64 of every remainder.
Payloads == {[i \in 1..n |-> (37 * i + n) % 256] : n \in {1, 16, 17, 32, 40}}
ShortTexts == UNION {[1..n -> {0, 3, 129, 255}] : n \in 0..4}
Texts == INSTANCE Encodings WITH CipherTexts <- Payloads, Base64Texts <- ShortTexts

\* A second of 2 ms of 3 us of 2 ns.
Times == INSTANCE Timestamp WITH Milli <- 2, Micro <- 3, Nano <- 2, MaxSecond <- 2, Delays <- 0..4

ASSUME NetworkAssumption == Buffer!BufferConstants /\ Stream!FramingConstants /\ Times!TimestampConstants

bufferVars == <<buf, queue, overrun>>
streamVars == <<codec, sent, stream, received, dispatched, merged, refused>>
timeVars == <<stamp, other, instant, otherInstant>>
netVars == <<vars, bufferVars, streamVars, timeVars, part, text>>

NetInit ==
  /\ part \in {"sockets", "buffers", "stream", "texts", "times"}
  /\ Init /\ Buffer!Init /\ Stream!Init /\ Times!StampInit
  /\ IF part = "texts" THEN Texts!TextInit ELSE text = Texts!NoText

NetNext ==
  \/ part = "sockets" /\ Next /\ UNCHANGED <<bufferVars, streamVars, timeVars, part, text>>
  \/ part = "buffers" /\ Buffer!Next /\ InBounds' /\ UNCHANGED <<vars, streamVars, timeVars, part, text>>
  \/ part = "stream" /\ Stream!Next /\ UNCHANGED <<vars, bufferVars, timeVars, part, text>>
  \/ part = "texts" /\ Texts!TextNext /\ UNCHANGED <<vars, bufferVars, streamVars, timeVars, part>>
  \/ part = "times" /\ Times!StampNext /\ UNCHANGED <<vars, bufferVars, streamVars, part, text>>

NetSpec == NetInit /\ [][NetNext]_netVars /\ Fair

-----------------------------------------------------------------------------
\* Buffers: reading gives what was added, in order, and growth is in steps that
\* use read space again; the indexes of a buffer stay in its vector, and an emptied
\* one starts over; shrinking writes behind a vector only when more is unread than
\* init_size_.
BuffersKept == Buffer!Indexed /\ Buffer!ContentsKept /\ Buffer!Sized /\ Buffer!ReducedSafely

\* Codecs: messages survive any cut of the stream.
FramesKept == Stream!FramingType /\ Stream!FramesKept

\* Conversions: payloads survive the cipher and base64, and times being moved on,
\* compared and measured.
ConversionsKept == Texts!TextsKept /\ Times!TimesKept

=============================================================================
