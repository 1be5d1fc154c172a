------------------------------- MODULE Encodings -------------------------------
(* A text on its way: through the cipher of the gateway's codec and back, or    *)
(* through base64 and back.                                                     *)
EXTENDS Base64, Aes

CONSTANTS
  CipherTexts,      \* payloads of messages, none of them empty
  Base64Texts

VARIABLE text

NoText == [way |-> "none"]

TextInit ==
  text \in [way : {"cipher"}, plain : CipherTexts] \cup [way : {"base64"}, plain : Base64Texts]

\* Where Codec::SendMessage has Aes::Encode called, and base64_encode of a string.
EncodeText ==
  /\ "coded" \notin DOMAIN text
  /\ text' = [way |-> text.way, plain |-> text.plain,
              coded |-> IF text.way = "cipher" THEN Encode(text.plain) ELSE Base64Encode(text.plain)]

\* Where Codec::OnMessage has Aes::Decode called, and base64_decode of a string.
DecodeText ==
  /\ "coded" \in DOMAIN text /\ "back" \notin DOMAIN text
  /\ text' = [way |-> text.way, plain |-> text.plain, coded |-> text.coded,
              back |-> IF text.way = "cipher" THEN Decode(text.coded) ELSE Base64Decode(text.coded)]

TextNext == EncodeText \/ DecodeText

\* What is decoded is what was encoded, for every length and rest of a block; the cipher
\* changes every text and keeps its length.
TextsKept ==
  /\ "back" \in DOMAIN text => text.back = text.plain
  /\ "coded" \in DOMAIN text /\ text.way = "cipher" =>
       text.coded # text.plain /\ Len(text.coded) = Len(text.plain)

===============================================================================
