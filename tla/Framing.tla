------------------------------ MODULE Framing ------------------------------
(***************************************************************************)
(* How a byte stream becomes messages: mysya/codec/protobuf_codec.cc and   *)
(* tutorial/orcas/gateway/codec.cc, called for what OnSocketRead has put   *)
(* into the connection's DynamicBuffer.  The network cuts the stream       *)
(* anywhere.                                                               *)
(*                                                                         *)
(* A byte is <<its message, its place>>: the length field is the first     *)
(* place, the type the second, the payload the rest.  Encryption and the   *)
(* contents of a payload are left out; what matters of a message is        *)
(* whether the receiver knows its type and can parse it.                   *)
(***************************************************************************)
EXTENDS Integers, Sequences

CONSTANTS MaxMessages,  \* bound on the messages sent
          MaxPayload,   \* bound on the payload of one
          SendBuffer    \* the payload message_send_buffer_ of the gateway's codec has room for

\* What the constants are.
FramingConstants == {MaxMessages, MaxPayload, SendBuffer} \subseteq Nat

VARIABLES
  codec,      \* which codec reads
  sent,       \* the messages sent
  stream,     \* bytes on the way
  received,   \* the receive buffer
  dispatched, \* numbers of the messages handed to message_cb_
  merged,     \* history: OnMessage found bytes behind a whole message
  refused     \* OnMessage has returned -1

vars == <<codec, sent, stream, received, dispatched, merged, refused>>

Header == 1   \* the length field
Type == 1     \* the type name, or the gateway's ProtocolHeader

Numbers == 1..MaxMessages
BytesOfMessages == Numbers \X (1..(Header + Type + MaxPayload))

BufferSize == [init |-> 2, expand |-> 2]
DB == INSTANCE DynamicBuffer WITH
  Buffers <- {1}, Sizes <- {[b \in {1} |-> BufferSize]}, Bytes <- BytesOfMessages,
  Zero <- <<0, 0>>, MaxReadable <- 0, MaxChunk <- 0, SizeRange <- 8, MaxVector <- 2,
  buf <- [b \in {1} |-> received], queue <- [b \in {1} |-> stream], overrun <- {}

Kinds == IF codec = "protobuf" THEN {"known", "unknown", "unparsable"} ELSE {"known"}
Size(n) == Header + Type + sent[n].payload

FramingType ==
  /\ codec \in {"protobuf", "gateway"}
  /\ sent \in Seq([payload : 0..MaxPayload, kind : Kinds])
  /\ stream \in Seq(BytesOfMessages)
  /\ received \in DB!BufferType
  /\ dispatched \in Seq(Numbers)
  /\ merged \in BOOLEAN /\ refused \in BOOLEAN

Init ==
  /\ codec \in {"protobuf", "gateway"}
  /\ sent = <<>> /\ stream = <<>> /\ dispatched = <<>>
  /\ received = DB!New(BufferSize)
  /\ merged = FALSE /\ refused = FALSE

\* Codec::SendMessage() gives up when the message does not fit.
Fits(payload) == codec = "gateway" => payload <= SendBuffer

\* SendMessage(): one write of length, type and payload.
SendMessage(payload, kind) ==
  /\ Len(sent) < MaxMessages /\ Fits(payload)
  /\ sent' = Append(sent, [payload |-> payload, kind |-> kind])
  /\ stream' = stream \o [i \in 1..(Header + Type + payload) |-> <<Len(sent) + 1, i>>]
  /\ UNCHANGED <<codec, received, dispatched, merged, refused>>

-----------------------------------------------------------------------------
(* Reading *)

NumberAt(data, at) == data[at + 1][1]

\* A whole message begins behind the first `at' bytes.  What begins inside a
\* message has no length field and is never taken for one here.
WholeAt(data, at) ==
  /\ at < Len(data)
  /\ data[at + 1][2] = 1
  /\ Size(NumberAt(data, at)) <= Len(data) - at

Unknown(data, at) == sent[NumberAt(data, at)].kind = "unknown"

\* Mutant of NextStart: message_size is taken for the size of the whole.
NextStartShort(data, at) == at + Size(NumberAt(data, at)) - Header

\* Where the loop goes on.  Codec::OnMessage adds the ProtocolHeader, which
\* message_size holds already.
NextStart(data, at) ==
  at + Size(NumberAt(data, at)) + (IF codec = "gateway" THEN Type ELSE 0)

\* The loop, begun behind the first `at' bytes: the messages it hands to message_cb_, where
\* it ends and whether it does so at one whose type is unknown.  Those that cannot be
\* parsed are dropped.
ReadFrom(data) ==
  LET from[at \in 0..(Len(data) + Type)] ==
        IF WholeAt(data, at) /\ ~Unknown(data, at)
        THEN LET n == NumberAt(data, at)
                 rest == from[NextStart(data, at)]
             IN [rest EXCEPT !.known = (IF sent[n].kind = "known" THEN <<n>> ELSE <<>>) \o @]
        ELSE [known |-> <<>>, end |-> at, refused |-> WholeAt(data, at)]
  IN from

\* OnMessage, for the buffer it is given: what was read is taken out, a message of unknown
\* type stays and is reported with -1.
OnMessage(buffer) ==
  LET data == DB!Contents(buffer)
      reading == ReadFrom(data)[0]
  IN /\ dispatched' = dispatched \o reading.known
     /\ received' = DB!ReadBytes(buffer, reading.end)
     /\ refused' = reading.refused
     /\ merged' = (merged \/ \E at \in 0..Len(data) :
                               WholeAt(data, at) /\ at + Size(NumberAt(data, at)) < Len(data))

\* OnSocketRead reads what has arrived so far and calls receive_cb_.
OnSocketRead(size) ==
  /\ ~refused
  /\ size <= Len(stream)
  /\ OnMessage(DB!AppendBytes(received, SubSeq(stream, 1, size)))
  /\ stream' = SubSeq(stream, size + 1, Len(stream))
  /\ UNCHANGED <<codec, sent>>

Next ==
  \/ \E payload \in 0..MaxPayload, kind \in Kinds : SendMessage(payload, kind)
  \/ \E size \in 1..Len(stream) : OnSocketRead(size)

Spec == Init /\ [][Next]_vars

-----------------------------------------------------------------------------
(* Properties *)

\* Between the calls, nothing is lost or doubled however the stream is cut: the
\* messages that have arrived whole are the ones that were taken out, each once and in
\* order, and what is left in the buffer is the beginning of the next.  For the gateway's codec
\* this takes that no call ever finds bytes behind a message.
FramesKept ==
  ~merged \/ codec = "protobuf" =>
    LET left == DB!Contents(received)
        first == IF left # <<>> THEN left[1][1]
                 ELSE IF stream # <<>> THEN stream[1][1] ELSE Len(sent) + 1
    IN /\ left # <<>> => left[1][2] = 1
       /\ \A i, j \in DOMAIN dispatched : i < j => dispatched[i] < dispatched[j]
       /\ {dispatched[i] : i \in DOMAIN dispatched} = {n \in 1..(first - 1) : sent[n].kind = "known"}
       /\ refused <=> WholeAt(left, 0) /\ Unknown(left, 0)
       /\ ~refused => ~WholeAt(left, 0)

=============================================================================
