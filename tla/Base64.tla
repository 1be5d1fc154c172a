-------------------------------- MODULE Base64 --------------------------------
(* The base64 of the combat server (combat/base64.cc).  A character is the      *)
(* number s_encode_table has it at, or Pad for the equals sign and for what is  *)
(* outside 43..122; those for which s_decode_table has -1 do not occur.         *)
EXTENDS Integers, Sequences, SequencesExt

Pad == 64
Failure == << >>        \* both functions return an empty string

\* base64_encode of up to three bytes.
EncodeGroup(bytes) ==
  LET b == [i \in 1..3 |-> IF i <= Len(bytes) THEN bytes[i] ELSE 0]
  IN << b[1] \div 4, 16 * (b[1] % 4) + b[2] \div 16,
        IF Len(bytes) > 1 THEN 4 * (b[2] % 16) + b[3] \div 64 ELSE Pad,
        IF Len(bytes) > 2 THEN b[3] % 64 ELSE Pad >>

Groups(text, size) ==
  [i \in 1..(Len(text) + size - 1) \div size |->
     SubSeq(text, size * (i - 1) + 1, IF size * i < Len(text) THEN size * i ELSE Len(text))]

\* base64_encode of a text: the buffer has room for twice the text, but for 5 at least.
Base64Encode(text) ==
  LET coded == FlattenSeq([i \in DOMAIN Groups(text, 3) |-> EncodeGroup(Groups(text, 3)[i])])
  IN IF Len(coded) <= (IF 2 * Len(text) < 5 THEN 5 ELSE 2 * Len(text)) THEN coded ELSE Failure

\* Mutant: a padded group gives all its bytes.
DecodeGroupPadded(chars) ==
  LET b == [i \in 1..4 |-> IF chars[i] = Pad THEN 0 ELSE chars[i]]
  IN << (4 * b[1] + b[2] \div 16) % 256, (16 * b[2] + b[3] \div 4) % 256, (64 * b[3] + b[4]) % 256 >>

\* base64_decode of four characters.
DecodeGroup(chars) ==
  LET b == [i \in 1..4 |-> IF chars[i] = Pad THEN 0 ELSE chars[i]]
      size == Len(SelectSeq(chars, LAMBDA c : c # Pad)) - 1
  IN SubSeq(<< ((4 * b[1]) % 256) + b[2] \div 16, ((16 * b[2]) % 256) + b[3] \div 4, ((64 * b[3]) % 256) + b[4] >>, 1, size)

\* base64_decode of a text; the buffer has room for as much as the text.
Base64Decode(text) ==
  LET groups == Groups(text, 4)
  IN IF \E i \in DOMAIN groups : Len(groups[i]) < 4 \/ Len(SelectSeq(groups[i], LAMBDA c : c # Pad)) < 2
     THEN Failure ELSE FlattenSeq([i \in DOMAIN groups |-> DecodeGroup(groups[i])])

===============================================================================
