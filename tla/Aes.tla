---------------------------------- MODULE Aes ----------------------------------
(* The cipher of the gateway's codec (gateway/aes.cc).                          *)
EXTENDS Integers, Sequences, SequencesExt

\* The tables of Aes::Aes, from 1.
Box == <<
   99, 124, 119, 123, 242, 107, 111, 197,  48,   1, 103,  43, 254, 215, 171, 118,
  202, 130, 201, 125, 250,  89,  71, 240, 173, 212, 162, 175, 156, 164, 114, 192,
  183, 253, 147,  38,  54,  63, 247, 204,  52, 165, 229, 241, 113, 216,  49,  21,
    4, 199,  35, 195,  24, 150,   5, 154,   7,  18, 128, 226, 235,  39, 178, 117,
    9, 131,  44,  26,  27, 110,  90, 160,  82,  59, 214, 179,  41, 227,  47, 132,
   83, 209,   0, 237,  32, 252, 177,  91, 106, 203, 190,  57,  74,  76,  88, 207,
  208, 239, 170, 251,  67,  77,  51, 133,  69, 249,   2, 127,  80,  60, 159, 168,
   81, 163,  64, 143, 146, 157,  56, 245, 188, 182, 218,  33,  16, 255, 243, 210,
  205,  12,  19, 236,  95, 151,  68,  23, 196, 167, 126,  61, 100,  93,  25, 115,
   96, 129,  79, 220,  34,  42, 144, 136,  70, 238, 184,  20, 222,  94,  11, 219,
  224,  50,  58,  10,  73,   6,  36,  92, 194, 211, 172,  98, 145, 149, 228, 121,
  231, 200,  55, 109, 141, 213,  78, 169, 108,  86, 244, 234, 101, 122, 174,   8,
  186, 120,  37,  46,  28, 166, 180, 198, 232, 221, 116,  31,  75, 189, 139, 138,
  112,  62, 181, 102,  72,   3, 246,  14,  97,  53,  87, 185, 134, 193,  29, 158,
  225, 248, 152,  17, 105, 217, 142, 148, 155,  30, 135, 233, 206,  85,  40, 223,
  140, 161, 137,  13, 191, 230,  66, 104,  65, 153,  45,  15, 176,  84, 187,  22 >>

InvBox == <<
   82,   9, 106, 213,  48,  54, 165,  56, 191,  64, 163, 158, 129, 243, 215, 251,
  124, 227,  57, 130, 155,  47, 255, 135,  52, 142,  67,  68, 196, 222, 233, 203,
   84, 123, 148,  50, 166, 194,  35,  61, 238,  76, 149,  11,  66, 250, 195,  78,
    8,  46, 161, 102,  40, 217,  36, 178, 118,  91, 162,  73, 109, 139, 209,  37,
  114, 248, 246, 100, 134, 104, 152,  22, 212, 164,  92, 204,  93, 101, 182, 146,
  108, 112,  72,  80, 253, 237, 185, 218,  94,  21,  70,  87, 167, 141, 157, 132,
  144, 216, 171,   0, 140, 188, 211,  10, 247, 228,  88,   5, 184, 179,  69,   6,
  208,  44,  30, 143, 202,  63,  15,   2, 193, 175, 189,   3,   1,  19, 138, 107,
   58, 145,  17,  65,  79, 103, 220, 234, 151, 242, 207, 206, 240, 180, 230, 115,
  150, 172, 116,  34, 231, 173,  53, 133, 226, 249,  55, 232,  28, 117, 223, 110,
   71, 241,  26, 113,  29,  41, 197, 137, 111, 183,  98,  14, 170,  24, 190,  27,
  252,  86,  62,  75, 198, 210, 121,  32, 154, 219, 192, 254, 120, 205,  90, 244,
   31, 221, 168,  51, 136,   7, 199,  49, 177,  18,  16,  89,  39, 128, 236,  95,
   96,  81, 127, 169,  25, 181,  74,  13,  45, 229, 122, 159, 147, 201, 156, 239,
  160, 224,  59,  77, 174,  42, 245, 176, 200, 235, 187,  60, 131,  83, 153,  97,
   23,  43,   4, 126, 186, 119, 214,  38, 225, 105,  20,  99,  85,  33,  12, 125 >>

\* Codec::kAesKey_.
AesKey == <<2, 3, 4, 5, 2, 4, 1, 8, 5, 98, 5, 3, 64, 3, 2, 0>>

Nibbles == [p \in (0..15) \X (0..15) |->
              FoldLeft(LAMBDA sum, k : sum + 2^k * (((p[1] \div 2^k) + (p[2] \div 2^k)) % 2), 0, <<0, 1, 2, 3>>)]

\* Exclusive or of two bytes.
Xor(a, b) == 16 * Nibbles[a \div 16, b \div 16] + Nibbles[a % 16, b % 16]

XorAll(bytes) == FoldLeft(Xor, 0, bytes)

\* A block is the bytes of its four columns one after the other.
Rows == [k \in 1..16 |-> (k - 1) % 4]
Columns == [k \in 1..16 |-> (k - 1) \div 4]
ByteAt(s, r, c) == s[4 * (c % 4) + (r % 4) + 1]
BlockOf(bytes) == SubSeq(bytes, 1, 16)

\* Aes::FFmul: b times x, and times a.
Double(b) == IF b >= 128 THEN Xor((2 * b) % 256, 27) ELSE 2 * b
FFmul(a, b) ==
  LET bw == <<b, Double(b), Double(Double(b)), Double(Double(Double(b)))>>
  IN XorAll(<<IF a % 2 = 1 THEN bw[1] ELSE 0, IF (a \div 2) % 2 = 1 THEN bw[2] ELSE 0,
              IF (a \div 4) % 2 = 1 THEN bw[3] ELSE 0, IF (a \div 8) % 2 = 1 THEN bw[4] ELSE 0>>)

SubBytes(s) == BlockOf([k \in 1..16 |-> Box[s[k] + 1]])
InvSubBytes(s) == BlockOf([k \in 1..16 |-> InvBox[s[k] + 1]])
ShiftRows(s) == BlockOf([k \in 1..16 |-> ByteAt(s, Rows[k], Columns[k] + Rows[k])])

\* Mutant: the rows go on in the direction they were shifted.
InvShiftRowsOn(s) == BlockOf([k \in 1..16 |-> ByteAt(s, Rows[k], Columns[k] + Rows[k])])

InvShiftRows(s) == BlockOf([k \in 1..16 |-> ByteAt(s, Rows[k], Columns[k] - Rows[k] + 4)])

\* The columns times the polynomial with these coefficients.
Mixed(s, factors) ==
  BlockOf([k \in 1..16 |-> XorAll(<<FFmul(factors[1], s[k]),
                                    FFmul(factors[2], ByteAt(s, Rows[k] + 1, Columns[k])),
                                    FFmul(factors[3], ByteAt(s, Rows[k] + 2, Columns[k])),
                                    FFmul(factors[4], ByteAt(s, Rows[k] + 3, Columns[k]))>>)])

MixColumns(s) == Mixed(s, <<2, 3, 1, 1>>)
InvMixColumns(s) == Mixed(s, <<14, 11, 13, 9>>)
AddRoundKey(s, key) == BlockOf([k \in 1..16 |-> Xor(s[k], key[k])])

\* The key of the next round: its columns are added up from the turned last one.
RoundConstants == <<1, 2, 4, 8, 16, 32, 64, 128, 27, 54>>
NextKey(key, i) ==
  LET turned(r) == Xor(Box[ByteAt(key, r + 1, 3) + 1], IF r = 0 THEN RoundConstants[i] ELSE 0)
  IN BlockOf([k \in 1..16 |->
       XorAll(<<turned(Rows[k])>> \o [j \in 1..Columns[k] + 1 |-> ByteAt(key, Rows[k], j - 1)])])

\* Aes::KeyExpansion: the keys of the rounds, from 1.
KeyExpansion ==
  FoldLeft(LAMBDA keys, i : Append(keys, NextKey(keys[i], i)), <<AesKey>>, [i \in 1..10 |-> i])

\* Aes::Encode and Aes::Decode of a block.
EncodeBlock(s) ==
  FoldLeft(LAMBDA t, i : LET rows == ShiftRows(SubBytes(t))
                         IN AddRoundKey(IF i = 10 THEN rows ELSE MixColumns(rows), KeyExpansion[i + 1]),
           AddRoundKey(s, KeyExpansion[1]), [i \in 1..10 |-> i])

DecodeBlock(s) ==
  FoldLeft(LAMBDA t, i : LET added == AddRoundKey(InvSubBytes(InvShiftRows(t)), KeyExpansion[11 - i])
                         IN IF i = 10 THEN added ELSE InvMixColumns(added),
           AddRoundKey(s, KeyExpansion[11]), [i \in 1..10 |-> i])

\* The bytes of a text that are put through the cipher: the last 1 to 16 stay as they are.
Covered(text) == 16 * ((Len(text) - 1) \div 16)
BlocksOfText(text) == [i \in 1..Covered(text) \div 16 |-> SubSeq(text, 16 * i - 15, 16 * i)]
Uncovered(text) == SubSeq(text, Covered(text) + 1, Len(text))

\* Short texts.
Masked(text) == [i \in DOMAIN text |-> Xor(text[i], 6)]

\* Aes::Encode of a text.  Not for an empty one: the length 0 stands for a text that ends
\* with a zero byte, and Codec::SendMessage has the rest of its buffer changed by that.
Encode(text) ==
  IF Len(text) <= 16 THEN Masked(text)
  ELSE FoldLeft(LAMBDA coded, s : coded \o EncodeBlock(s), << >>, BlocksOfText(text)) \o Uncovered(text)

\* Aes::Decode of a text.
Decode(text) ==
  IF Len(text) <= 16 THEN Masked(text)
  ELSE FoldLeft(LAMBDA plain, s : plain \o DecodeBlock(s), << >>, BlocksOfText(text)) \o Uncovered(text)

===============================================================================
