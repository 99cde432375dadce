----------------------------- MODULE Utf8Proofs -----------------------------
(***************************************************************************)
(* UTF-8.h for every text and every string of bytes.                       *)
(***************************************************************************)
EXTENDS Utf8, FiniteSetTheorems, SequenceTheorems, TLAPS

(* Every 16-bit code unit is written as the well-formed sequence of its    *)
(* character: the arithmetic of the three forms at and between their       *)
(* boundaries.                                                             *)
LEMMA UnitWellFormed ==
    ASSUME NEW unit \in Below(65536)
    PROVE  /\ WellFormed(encodeUTF8Char(unit))
           /\ Payload(encodeUTF8Char(unit)) = Scalar(unit)
<1> DEFINE c == Scalar(unit)
<1>1. /\ c \in Int /\ 0 <= c /\ c <= 65535 /\ ~(55296 <= c /\ c <= 57343)
      /\ encodeUTF8Char(unit) =
           IF c < 128 THEN <<c>>
           ELSE IF c < 2048 THEN <<192 + c \div 64, 128 + (c % 64)>>
           ELSE <<224 + c \div 4096, 128 + ((c \div 64) % 64), 128 + (c % 64)>>
  BY DEF encodeUTF8Char, Scalar, Invalid, REPLACEMENT_CHAR, Below
<1> HIDE DEF c
<1> DEFINE s == encodeUTF8Char(unit)
<1>2. ASSUME c < 128 PROVE WellFormed(s) /\ Payload(s) = c
  BY <1>1, <1>2 DEF WellFormed, Patterned, Payload
<1>3. ASSUME 128 <= c, c < 2048 PROVE WellFormed(s) /\ Payload(s) = c
  <2>1. /\ c \div 64 \in Int /\ 2 <= c \div 64 /\ c \div 64 <= 31
        /\ c % 64 \in Int /\ 0 <= c % 64 /\ c % 64 <= 63
        /\ c = (c \div 64) * 64 + (c % 64)
    BY <1>1, <1>3
  <2>2. s = <<192 + c \div 64, 128 + (c % 64)>>
    BY <1>1, <1>3
  <2> QED BY <1>1, <1>3, <2>1, <2>2 DEF WellFormed, Patterned, Payload
<1>4. ASSUME 2048 <= c PROVE WellFormed(s) /\ Payload(s) = c
  <2>1. s = <<224 + c \div 4096, 128 + ((c \div 64) % 64), 128 + (c % 64)>>
    BY <1>1, <1>4
  <2>2. PICK hi, mid, lo \in Int :
          /\ hi = c \div 4096 /\ mid = (c \div 64) % 64 /\ lo = c % 64
          /\ 0 <= hi /\ hi <= 15 /\ 0 <= mid /\ mid <= 63 /\ 0 <= lo /\ lo <= 63
          /\ c = hi * 4096 + mid * 64 + lo
    BY <1>1, <1>4
  <2>3. s = <<224 + hi, 128 + mid, 128 + lo>>
    BY <2>1, <2>2
  <2> HIDE DEF s
  <2> QED BY <1>1, <1>4, <2>2, <2>3 DEF WellFormed, Patterned, Payload
<1> QED BY <1>1, <1>2, <1>3, <1>4 DEF c

-----------------------------------------------------------------------------
(* The text is one of Texts, or there is none; nothing is decoded before   *)
(* the text is encoded.                                                    *)
Utf8Inv ==
    /\ text \in Texts \cup {<<>>}
    /\ i \in Nat
    /\ starts \in Seq(Nat)
    /\ pc = "encode" => i = 0
    /\ Resynchronises

(* The number of leading ones is a number.                                 *)
LEMMA ExtraIsInt == ASSUME NEW c PROVE extraBytesForChar(c) \in Int
<1>1. PICK eight \in Int : eight = 8
  OBVIOUS
<1> DEFINE ones == {k \in 1 .. eight : c >= 256 - 2^(8 - k)}
<1>2. IsFiniteSet(1 .. eight)
  BY FS_Interval
<1>3. ones \subseteq 1 .. eight
  OBVIOUS
<1>4. Cardinality(ones) \in Nat
  <2> HIDE DEF ones
  <2> QED BY <1>2, <1>3, FS_Subset, FS_CardinalityType
<1> QED BY <1>1, <1>4 DEF extraBytesForChar, LeadingOnes

(* A turn that goes on at `next' passes over no byte a character can start *)
(* with, except the one it began at.                                       *)
LEMMA TurnResynchronises ==
    ASSUME Utf8Inv, pc = "decode",
           NEW n, NEW next \in Nat,
           Decoded(n, next),
           \A k \in i + 1 .. next - 1 : NoLead(At(k))
    PROVE  Utf8Inv'
<1> USE DEF Utf8Inv, Decoded
<1>1. starts' \in Seq(Nat) /\ i' = next /\ Len(starts') = Len(starts) + 1
  OBVIOUS
<1>2. ASSUME NEW k \in 0 .. next - 1, ~NoLead(At(k))'
      PROVE  \E m \in DOMAIN starts' : starts'[m] = k
  <2>1. At(k)' = At(k)
    BY DEF At
  <2>2. CASE k < i
    <3>1. PICK m \in DOMAIN starts : starts[m] = k
      BY <1>2, <2>1, <2>2 DEF Resynchronises
    <3>2. m \in 1 .. Len(starts) /\ m \in DOMAIN starts'
      BY <1>1, <3>1
    <3>3. starts'[m] = starts[m]
      BY <3>2
    <3> QED BY <3>1, <3>2, <3>3
  <2>3. CASE k = i
    BY <2>3
  <2>4. k <= i
    BY <1>2, <2>1
  <2> QED BY <2>2, <2>3, <2>4
<1> QED BY <1>1, <1>2 DEF Resynchronises

(* Every turn of the two loops keeps the invariant.                        *)
LEMMA Utf8NextInv ==
    ASSUME Utf8Inv, [utf8Next]_utf8Vars
    PROVE  Utf8Inv'
<1>1. CASE UNCHANGED utf8Vars
  BY <1>1 DEF utf8Vars, Utf8Inv, Resynchronises, At
<1>2. CASE encodeUTF8
  BY <1>2 DEF encodeUTF8, Utf8Inv, Resynchronises, At
<1>3. CASE decodeStray
  BY <1>3, TurnResynchronises DEF decodeStray, Turn, Utf8Inv
<1>4. CASE decodeShort
  BY <1>4, TurnResynchronises DEF decodeShort, Turn, Utf8Inv
<1>5. CASE decodeBroken
  <2>1. PICK j \in Breaks :
          /\ \A k \in Breaks : j <= k
          /\ Decoded(REPLACEMENT_CHAR, IF At(i + j) \in {254, 255} THEN i + j + 1 ELSE i + j)
    BY <1>5 DEF decodeBroken
  <2> DEFINE extra == extraBytesForChar(At(i))
             next == IF At(i + j) \in {254, 255} THEN i + j + 1 ELSE i + j
  <2>2. i \in Nat /\ extra \in Int /\ pc = "decode"
    BY <1>5, ExtraIsInt DEF Utf8Inv, decodeBroken, Turn
  <2> HIDE DEF extra
  <2>3. j \in 1 .. extra /\ next \in Nat
    BY <2>2 DEF Breaks, extra
  <2>4. ASSUME NEW k \in i + 1 .. next - 1 PROVE NoLead(At(k))
    <3>1. CASE k < i + j
      <4>1. k - i \in 1 .. extra /\ k - i < j /\ i + (k - i) = k
        BY <2>2, <2>3, <3>1
      <4>2. k - i \notin Breaks
        BY <2>1, <2>2, <2>3, <4>1
      <4> QED BY <4>1, <4>2 DEF Breaks, extra, NoLead
    <3>2. CASE k = i + j
      BY <2>2, <2>3, <3>2 DEF NoLead
    <3> QED BY <2>2, <2>3, <3>1, <3>2
  <2> QED BY <2>1, <2>2, <2>3, <2>4, TurnResynchronises
<1>6. CASE decodeWhole
  <2> DEFINE extra == extraBytesForChar(At(i))
             next == i + 1 + IF extra > 0 THEN extra ELSE 0
  <2>1. i \in Nat /\ extra \in Int /\ pc = "decode"
    BY <1>6, ExtraIsInt DEF Utf8Inv, decodeWhole, Turn
  <2>2. Decoded(IF extra > 2 THEN REPLACEMENT_CHAR ELSE Collected(At(i), extra), next) /\ Breaks = {}
    BY <1>6 DEF decodeWhole
  <2> HIDE DEF extra
  <2>3. next \in Nat
    BY <2>1
  <2>4. ASSUME NEW k \in i + 1 .. next - 1 PROVE NoLead(At(k))
    <3>1. k - i \in 1 .. extra /\ i + (k - i) = k
      BY <2>1
    <3> QED BY <2>2, <3>1 DEF Breaks, extra, NoLead
  <2> QED BY <2>1, <2>2, <2>3, <2>4, TurnResynchronises
<1>7. CASE decodeEnd
  BY <1>7 DEF decodeEnd, Utf8Inv, Resynchronises, At
<1> QED BY <1>1, <1>2, <1>3, <1>4, <1>5, <1>6, <1>7 DEF utf8Next

(* So it holds throughout.                                                 *)
LEMMA Utf8Invariant == utf8Spec => []Utf8Inv
<1>1. utf8Init => Utf8Inv
  BY DEF utf8Init, Utf8Inv, Resynchronises
<1>2. Utf8Inv /\ [utf8Next]_utf8Vars => Utf8Inv'
  BY Utf8NextInv
<1> QED BY <1>1, <1>2, PTL DEF utf8Spec

(* Every text of 16-bit code units is encoded as well-formed UTF-8.        *)
THEOREM EncoderCorrect == utf8Spec => []EncodesWellFormed
<1>1. Utf8Inv => EncodesWellFormed
  <2> SUFFICES ASSUME Utf8Inv, NEW k \in DOMAIN text
               PROVE  /\ WellFormed(encodeUTF8Char(text[k]))
                      /\ Payload(encodeUTF8Char(text[k])) = Scalar(text[k])
    BY DEF EncodesWellFormed
  <2>1. text[k] \in Below(65536)
    BY Utf8Assumption DEF Utf8Inv
  <2> QED BY <2>1, UnitWellFormed
<1> QED BY <1>1, Utf8Invariant, PTL

(* Whatever bytes are decoded, of any length, no byte that can start a     *)
(* character is swallowed by the error before it.                          *)
THEOREM DecoderResynchronises == utf8Spec => []Resynchronises
<1>1. Utf8Inv => Resynchronises
  BY DEF Utf8Inv
<1> QED BY <1>1, Utf8Invariant, PTL

-----------------------------------------------------------------------------
(* The masks of the leading bits.                                          *)
LEMMA Powers ==
    ASSUME NEW k \in 1 .. 8
    PROVE  /\ 2^(8 - k) \in Int
           /\ k = 1 => 2^(8 - k) = 128
           /\ k = 2 => 2^(8 - k) = 64
           /\ k = 3 => 2^(8 - k) = 32
           /\ k = 4 => 2^(8 - k) = 16
           /\ k > 4 => 2^(8 - k) <= 16
<1>1. k = 1 => 2^(8 - k) = 128
  OBVIOUS
<1>2. k = 2 => 2^(8 - k) = 64
  OBVIOUS
<1>3. k = 3 => 2^(8 - k) = 32
  OBVIOUS
<1>4. k = 4 => 2^(8 - k) = 16
  OBVIOUS
<1>5. k = 5 => 2^(8 - k) = 8
  OBVIOUS
<1>6. k = 6 => 2^(8 - k) = 4
  OBVIOUS
<1>7. k = 7 => 2^(8 - k) = 2
  OBVIOUS
<1>8. k = 8 => 2^(8 - k) = 1
  OBVIOUS
<1> QED BY <1>1, <1>2, <1>3, <1>4, <1>5, <1>6, <1>7, <1>8

(* What extraBytesForChar makes of a byte.                                 *)
LEMMA Leads ==
    ASSUME NEW c \in Below(256)
    PROVE  /\ c < 128 => LeadingOnes(c) = 0
           /\ 192 <= c /\ c < 224 => LeadingOnes(c) = 2
           /\ 224 <= c /\ c < 240 => LeadingOnes(c) = 3
           /\ 240 <= c => LeadingOnes(c) >= 4
           /\ LeadingOnes(c) \in Nat
<1>1. PICK eight \in Int : eight = 8
  OBVIOUS
<1> DEFINE ones == {k \in 1 .. eight : c >= 256 - 2^(8 - k)}
<1>2. LeadingOnes(c) = Cardinality(ones)
  BY <1>1 DEF LeadingOnes
<1>4. c \in Int /\ \A k \in ones : k \in Int /\ 1 <= k
  BY DEF Below
<1>5. /\ 1 \in ones <=> c >= 128
      /\ 2 \in ones <=> c >= 192
      /\ 3 \in ones <=> c >= 224
      /\ 4 \in ones <=> c >= 240
      /\ \A k \in ones : k > 4 => c >= 240
  <2>1. \A k \in Int : k \in ones <=> k \in 1 .. 8 /\ c >= 256 - 2^(8 - k)
    BY <1>1
  <2> HIDE DEF ones
  <2>2. 1 \in ones <=> c >= 128
    <3>1. PICK k \in 1 .. 8 : k = 1
      OBVIOUS
    <3>2. 2^(8 - k) = 128
      BY <3>1, Powers
    <3>3. k \in ones <=> c >= 256 - 2^(8 - k)
      BY <2>1
    <3> QED BY <1>4, <3>1, <3>2, <3>3
  <2>3. 2 \in ones <=> c >= 192
    <3>1. PICK k \in 1 .. 8 : k = 2
      OBVIOUS
    <3>2. 2^(8 - k) = 64
      BY <3>1, Powers
    <3>3. k \in ones <=> c >= 256 - 2^(8 - k)
      BY <2>1
    <3> QED BY <1>4, <3>1, <3>2, <3>3
  <2>4. 3 \in ones <=> c >= 224
    <3>1. PICK k \in 1 .. 8 : k = 3
      OBVIOUS
    <3>2. 2^(8 - k) = 32
      BY <3>1, Powers
    <3>3. k \in ones <=> c >= 256 - 2^(8 - k)
      BY <2>1
    <3> QED BY <1>4, <3>1, <3>2, <3>3
  <2>5. 4 \in ones <=> c >= 240
    <3>1. PICK k \in 1 .. 8 : k = 4
      OBVIOUS
    <3>2. 2^(8 - k) = 16
      BY <3>1, Powers
    <3>3. k \in ones <=> c >= 256 - 2^(8 - k)
      BY <2>1
    <3> QED BY <1>4, <3>1, <3>2, <3>3
  <2>6. ASSUME NEW k \in ones, k > 4 PROVE c >= 240
    <3>1. k \in 1 .. 8 /\ c >= 256 - 2^(8 - k)
      BY <1>4, <2>1
    <3>2. 2^(8 - k) \in Int /\ 2^(8 - k) <= 16
      BY <2>6, <3>1, Powers
    <3> QED BY <1>4, <3>1, <3>2
  <2> QED BY <2>2, <2>3, <2>4, <2>5, <2>6
<1>6. IsFiniteSet(ones)
  <2>1. IsFiniteSet(1 .. eight)
    BY FS_Interval
  <2>2. ones \subseteq 1 .. eight
    OBVIOUS
  <2> HIDE DEF ones
  <2> QED BY <2>1, <2>2, FS_Subset
<1> HIDE DEF ones
<1>7. /\ Cardinality({}) = 0
      /\ Cardinality({1, 2}) = 2 /\ Cardinality({1, 2, 3}) = 3 /\ Cardinality({1, 2, 3, 4}) = 4
  <2>1. Cardinality({}) = 0 /\ IsFiniteSet({1}) /\ Cardinality({1}) = 1
    BY FS_EmptySet, FS_Singleton
  <2>2. IsFiniteSet({1, 2}) /\ Cardinality({1, 2}) = 2
    <3>1. {1, 2} = {1} \cup {2} /\ 2 \notin {1}
      OBVIOUS
    <3> QED BY <2>1, <3>1, FS_AddElement
  <2>3. IsFiniteSet({1, 2, 3}) /\ Cardinality({1, 2, 3}) = 3
    <3>1. {1, 2, 3} = {1, 2} \cup {3} /\ 3 \notin {1, 2}
      OBVIOUS
    <3> QED BY <2>2, <3>1, FS_AddElement
  <2>4. Cardinality({1, 2, 3, 4}) = 4
    <3>1. {1, 2, 3, 4} = {1, 2, 3} \cup {4} /\ 4 \notin {1, 2, 3}
      OBVIOUS
    <3> QED BY <2>3, <3>1, FS_AddElement
  <2> QED BY <2>1, <2>2, <2>3, <2>4
<1>8. c < 128 => ones = {}
  BY <1>4, <1>5
<1>9. 192 <= c /\ c < 224 => ones = {1, 2}
  BY <1>4, <1>5
<1>10. 224 <= c /\ c < 240 => ones = {1, 2, 3}
  BY <1>4, <1>5
<1>11. 240 <= c => {1, 2, 3, 4} \subseteq ones
  BY <1>4, <1>5
<1>12. 240 <= c => Cardinality(ones) >= 4
  BY <1>6, <1>7, <1>11, FS_Subset, FS_CardinalityType
<1>13. Cardinality(ones) \in Nat
  BY <1>6, FS_CardinalityType
<1> QED BY <1>2, <1>7, <1>8, <1>9, <1>10, <1>12, <1>13

-----------------------------------------------------------------------------
(* The bytes read at an offset: what the reference sees of them.           *)
Piece(s, length) == SubSeq(bytes, s + 1, s + length)

PatternAt(s, length) ==
    /\ \/ length = 1 /\ At(s) < 128
       \/ length = 2 /\ 192 <= At(s) /\ At(s) < 224
       \/ length = 3 /\ 224 <= At(s) /\ At(s) < 240
    /\ \A k \in 1 .. length - 1 : Continuation(At(s + k))

PayloadAt(s, length) ==
    IF length = 1 THEN At(s)
    ELSE IF length = 2 THEN (At(s) - 192) * 64 + (At(s + 1) - 128)
    ELSE (At(s) - 224) * 4096 + (At(s + 1) - 128) * 64 + (At(s + 2) - 128)

(* A byte, or the NUL behind the last one; only a byte continues or is FE  *)
(* or FF.                                                                  *)
LEMMA AtIsByte ==
    ASSUME bytes \in Seq(Below(256)), NEW k \in Nat
    PROVE  /\ At(k) \in Int /\ 0 <= At(k) /\ At(k) < 256 /\ At(k) \in Below(256)
           /\ NoLead(At(k)) => k < Len(bytes)
           /\ Continuation(At(k)) <=> 128 <= At(k) /\ At(k) < 192
<1>1. At(k) \in Int /\ 0 <= At(k) /\ At(k) < 256
  BY DEF At, Below
<1>2. Continuation(At(k)) <=> 128 <= At(k) /\ At(k) < 192
  <2> HIDE DEF At
  <2> QED BY <1>1 DEF Continuation
<1>3. k >= Len(bytes) => At(k) = 0
  BY DEF At
<1> QED BY <1>1, <1>2, <1>3 DEF Below, NoLead

(* A piece inside the bytes holds them in order.                           *)
LEMMA Slice ==
    ASSUME bytes \in Seq(Below(256)), NEW s \in Nat, NEW length \in Nat \ {0},
           s + length <= Len(bytes)
    PROVE  /\ Len(Piece(s, length)) = length
           /\ \A k \in 1 .. length : Piece(s, length)[k] = At(s + k - 1)
<1>1. \A k \in s + 1 .. s + length : bytes[k] \in Below(256)
  OBVIOUS
<1>2. /\ Len(SubSeq(bytes, s + 1, s + length)) = length
      /\ \A k \in 1 .. length : SubSeq(bytes, s + 1, s + length)[k] = bytes[s + k]
  BY <1>1, SubSeqProperties
<1>3. \A k \in 1 .. length : bytes[s + k] = At(s + k - 1)
  BY DEF At
<1> QED BY <1>2, <1>3 DEF Piece

(* The reference on a piece is the reference on the bytes.                 *)
LEMMA PieceIsAt ==
    ASSUME bytes \in Seq(Below(256)), NEW s \in Nat, NEW length \in Nat \ {0},
           s + length <= Len(bytes)
    PROVE  /\ Patterned(Piece(s, length)) <=> PatternAt(s, length)
           /\ length <= 3 => Payload(Piece(s, length)) = PayloadAt(s, length)
<1> DEFINE p == Piece(s, length)
<1>1. Len(p) = length /\ \A k \in 1 .. length : p[k] = At(s + k - 1)
  BY Slice
<1>2. p[1] = At(s)
  BY <1>1
<1>3. /\ length >= 2 => p[2] = At(s + 1)
      /\ length >= 3 => p[3] = At(s + 2)
  BY <1>1
<1> HIDE DEF p
<1>4. (\A k \in 2 .. length : 128 <= p[k] /\ p[k] < 192)
        <=> (\A k \in 1 .. length - 1 : Continuation(At(s + k)))
  <2>1. ASSUME NEW k \in 2 .. length
        PROVE  p[k] = At(s + (k - 1)) /\ k - 1 \in 1 .. length - 1 /\ s + (k - 1) \in Nat
    BY <1>1
  <2>2. ASSUME NEW k \in 1 .. length - 1
        PROVE  p[k + 1] = At(s + k) /\ k + 1 \in 2 .. length /\ s + k \in Nat
    BY <1>1
  <2>3. ASSUME \A k \in 2 .. length : 128 <= p[k] /\ p[k] < 192,
               NEW k \in 1 .. length - 1
        PROVE  Continuation(At(s + k))
    <3>1. 128 <= At(s + k) /\ At(s + k) < 192
      BY <2>2, <2>3
    <3> QED BY <2>2, <3>1, AtIsByte
  <2>4. ASSUME \A k \in 1 .. length - 1 : Continuation(At(s + k)),
               NEW k \in 2 .. length
        PROVE  128 <= p[k] /\ p[k] < 192
    <3>1. Continuation(At(s + (k - 1)))
      BY <2>1, <2>4
    <3>2. 128 <= At(s + (k - 1)) /\ At(s + (k - 1)) < 192
      BY <2>1, <3>1, AtIsByte
    <3> QED BY <2>1, <3>2
  <2> QED BY <2>3, <2>4
<1>5. Patterned(p) <=> PatternAt(s, length)
  <2> DEFINE Rest == \A k \in 1 .. length - 1 : Continuation(At(s + k))
             Tails == \A k \in 2 .. length : 128 <= p[k] /\ p[k] < 192
  <2>1. Tails <=> Rest
    BY <1>4
  <2>2. Patterned(p) <=> /\ \/ length = 1 /\ At(s) < 128
                            \/ length = 2 /\ 192 <= At(s) /\ At(s) < 224
                            \/ length = 3 /\ 224 <= At(s) /\ At(s) < 240
                         /\ Tails
    BY <1>1, <1>2 DEF Patterned
  <2> QED BY <2>1, <2>2, Zenon DEF PatternAt
<1>6. length <= 3 => Payload(p) = PayloadAt(s, length)
  BY <1>1, <1>2, <1>3 DEF Payload, PayloadAt
<1> QED BY <1>5, <1>6 DEF p

(* One turn reads the piece of this length as this character.              *)
Read(s, length, c) ==
    /\ \A l \in 1 .. 3 : s + l <= Len(bytes) /\ Patterned(Piece(s, l)) => l = length
    /\ c = IF Patterned(Piece(s, length)) THEN Payload(Piece(s, length)) ELSE REPLACEMENT_CHAR

(* A piece of no pattern where no pattern begins.                          *)
LEMMA ReadNone ==
    ASSUME bytes \in Seq(Below(256)), NEW s \in Nat, NEW length \in Nat \ {0},
           s + length <= Len(bytes),
           \A l \in 1 .. 3 : s + l <= Len(bytes) => ~PatternAt(s, l)
    PROVE  Read(s, length, REPLACEMENT_CHAR)
<1>1. \A l \in 1 .. 3 : s + l <= Len(bytes) => ~Patterned(Piece(s, l))
  BY PieceIsAt
<1>2. length \in 1 .. 3 \/ ~PatternAt(s, length)
  BY DEF PatternAt
<1>3. ~Patterned(Piece(s, length))
  BY <1>1, <1>2, PieceIsAt
<1> QED BY <1>1, <1>3 DEF Read

(* A piece of the right pattern, where no other pattern begins.            *)
LEMMA ReadOne ==
    ASSUME bytes \in Seq(Below(256)), NEW s \in Nat, NEW length \in 1 .. 3,
           s + length <= Len(bytes),
           PatternAt(s, length)
    PROVE  Read(s, length, PayloadAt(s, length))
<1>1. Patterned(Piece(s, length)) /\ Payload(Piece(s, length)) = PayloadAt(s, length)
  BY PieceIsAt
<1>2. ASSUME NEW l \in 1 .. 3, s + l <= Len(bytes), Patterned(Piece(s, l))
      PROVE  l = length
  <2>1. PatternAt(s, l)
    BY <1>2, PieceIsAt
  <2>2. At(s) \in Int
    BY AtIsByte
  <2> QED BY <2>1, <2>2 DEF PatternAt
<1> QED BY <1>1, <1>2 DEF Read

(* What each kind of lead byte makes of extraBytesForChar.                 *)
LEMMA Extras ==
    ASSUME NEW c \in Below(256), ~NoLead(c)
    PROVE  LET extra == extraBytesForChar(c) IN
           /\ extra \in Int
           /\ \/ c < 128 /\ extra = -1
              \/ 192 <= c /\ c < 224 /\ extra = 1
              \/ 224 <= c /\ c < 240 /\ extra = 2
              \/ 240 <= c /\ extra > 2
<1>1. c \in Int /\ 0 <= c /\ c < 256
  BY DEF Below
<1>2. ~(128 <= c /\ c < 192)
  BY <1>1 DEF NoLead, Continuation
<1>3. LeadingOnes(c) \in Nat
  BY Leads
<1>4. /\ c < 128 => LeadingOnes(c) = 0
      /\ 192 <= c /\ c < 224 => LeadingOnes(c) = 2
      /\ 224 <= c /\ c < 240 => LeadingOnes(c) = 3
      /\ 240 <= c => LeadingOnes(c) >= 4
  BY Leads
<1> QED BY <1>1, <1>2, <1>3, <1>4 DEF extraBytesForChar

(* The lead byte decides how long a pattern that begins here can be.       *)
LEMMA PatternLength ==
    ASSUME bytes \in Seq(Below(256)), NEW s \in Nat, NEW l \in 1 .. 3, PatternAt(s, l)
    PROVE  ~NoLead(At(s)) /\ l = 1 + IF extraBytesForChar(At(s)) > 0 THEN extraBytesForChar(At(s)) ELSE 0
<1>1. /\ At(s) \in Int /\ At(s) \in Below(256)
      /\ Continuation(At(s)) <=> 128 <= At(s) /\ At(s) < 192
  BY AtIsByte
<1>2. \/ l = 1 /\ At(s) < 128
      \/ l = 2 /\ 192 <= At(s) /\ At(s) < 224
      \/ l = 3 /\ 224 <= At(s) /\ At(s) < 240
  BY DEF PatternAt
<1>3. ~NoLead(At(s))
  BY <1>1, <1>2 DEF NoLead
<1> DEFINE extra == extraBytesForChar(At(s))
<1>4. /\ extra \in Int
      /\ \/ At(s) < 128 /\ extra = -1
         \/ 192 <= At(s) /\ At(s) < 224 /\ extra = 1
         \/ 224 <= At(s) /\ At(s) < 240 /\ extra = 2
         \/ 240 <= At(s) /\ extra > 2
  BY <1>1, <1>3, Extras
<1> HIDE DEF extra
<1>5. l = 1 + IF extra > 0 THEN extra ELSE 0
  BY <1>1, <1>2, <1>4
<1> QED BY <1>3, <1>5 DEF extra

(* The number a complete sequence of up to three bytes collects is the     *)
(* number of the reference.                                                *)
LEMMA CollectedIsPayload ==
    ASSUME bytes \in Seq(Below(256)), i \in Nat, ~NoLead(At(i)), Breaks = {},
           extraBytesForChar(At(i)) <= 2
    PROVE  LET extra == extraBytesForChar(At(i))
               length == 1 + IF extra > 0 THEN extra ELSE 0
           IN  /\ length \in 1 .. 3
               /\ PatternAt(i, length)
               /\ Collected(At(i), extra) = PayloadAt(i, length)
               /\ PayloadAt(i, length) \in Nat
<1> DEFINE extra == extraBytesForChar(At(i))
           ones == LeadingOnes(At(i))
           c == At(i)
<1>1. c \in Int /\ 0 <= c /\ c < 256
  BY AtIsByte
<1>2. /\ extra \in Int
      /\ \/ c < 128 /\ extra = -1
         \/ 192 <= c /\ c < 224 /\ extra = 1
         \/ 224 <= c /\ c < 240 /\ extra = 2
  BY AtIsByte, Extras
<1>3. ones \in Nat /\ extra = ones - 1
  BY AtIsByte, Leads DEF extraBytesForChar
<1>4. \A j \in 1 .. extra : Continuation(At(i + j))
  BY DEF Breaks
<1>5. ASSUME NEW j \in 1 .. extra
      PROVE  At(i + j) \in Int /\ 128 <= At(i + j) /\ At(i + j) < 192 /\ At(i + j) % 64 = At(i + j) - 128
  <2>1. i + j \in Nat /\ Continuation(At(i + j))
    BY <1>2, <1>4
  <2>2. At(i + j) \in Int /\ 128 <= At(i + j) /\ At(i + j) < 192
    BY <2>1, AtIsByte
  <2> QED BY <2>2
<1> HIDE DEF extra, ones, c
<1>6. CASE c < 128 /\ extra = -1
  <2>1. ones = 0
    BY <1>3, <1>6
  <2>2. 2^7 = 128
    OBVIOUS
  <2>3. c % 2^(7 - ones) = c
    BY <1>1, <1>6, <2>1, <2>2
  <2>4. Collected(c, extra) = c % 2^(7 - ones)
    BY <1>6 DEF Collected, ones, c
  <2>5. PatternAt(i, 1) /\ PayloadAt(i, 1) = c
    BY <1>6 DEF PatternAt, PayloadAt, c
  <2> QED BY <1>1, <1>6, <2>3, <2>4, <2>5 DEF extra, c
<1>7. CASE 192 <= c /\ c < 224 /\ extra = 1
  <2>1. ones = 2
    BY <1>3, <1>7
  <2>2. 2^5 = 32
    OBVIOUS
  <2>3. c % 2^(7 - ones) = c - 192
    BY <1>1, <1>7, <2>1, <2>2
  <2>4. Collected(c, extra) = (c % 2^(7 - ones)) * 64 + (At(i + 1) % 64)
    BY <1>7 DEF Collected, ones, c
  <2>5. At(i + 1) \in Int /\ 128 <= At(i + 1) /\ At(i + 1) < 192 /\ At(i + 1) % 64 = At(i + 1) - 128
    BY <1>5, <1>7
  <2>6. PatternAt(i, 2) /\ PayloadAt(i, 2) = (c - 192) * 64 + (At(i + 1) - 128)
    BY <1>4, <1>7 DEF PatternAt, PayloadAt, c
  <2>7. PayloadAt(i, 2) \in Nat /\ Collected(c, extra) = PayloadAt(i, 2)
    BY <1>1, <1>7, <2>3, <2>4, <2>5, <2>6, SMTT(60)
  <2> QED BY <1>7, <2>6, <2>7 DEF extra, c
<1>8. CASE 224 <= c /\ c < 240 /\ extra = 2
  <2>1. ones = 3
    BY <1>3, <1>8
  <2>2. 2^4 = 16
    OBVIOUS
  <2>3. c % 2^(7 - ones) = c - 224
    BY <1>1, <1>8, <2>1, <2>2
  <2>4. Collected(c, extra) =
          ((c % 2^(7 - ones)) * 4096 + (At(i + 1) % 64) * 64 + (At(i + 2) % 64)) % 65536
    BY <1>8 DEF Collected, ones, c
  <2>5. /\ At(i + 1) \in Int /\ 128 <= At(i + 1) /\ At(i + 1) < 192 /\ At(i + 1) % 64 = At(i + 1) - 128
        /\ At(i + 2) \in Int /\ 128 <= At(i + 2) /\ At(i + 2) < 192 /\ At(i + 2) % 64 = At(i + 2) - 128
    BY <1>5, <1>8
  <2>6. PatternAt(i, 3) /\ PayloadAt(i, 3) = (c - 224) * 4096 + (At(i + 1) - 128) * 64 + (At(i + 2) - 128)
    BY <1>4, <1>8 DEF PatternAt, PayloadAt, c
  <2>7. PayloadAt(i, 3) \in Int /\ 0 <= PayloadAt(i, 3) /\ PayloadAt(i, 3) < 65536
    <3>1. PICK hi, mid, lo \in Int :
            /\ hi = c - 224 /\ mid = At(i + 1) - 128 /\ lo = At(i + 2) - 128
            /\ 0 <= hi /\ hi <= 15 /\ 0 <= mid /\ mid <= 63 /\ 0 <= lo /\ lo <= 63
      BY <1>1, <1>8, <2>5
    <3>2. PayloadAt(i, 3) = hi * 4096 + mid * 64 + lo
      BY <2>6, <3>1
    <3>3. 0 <= hi /\ hi <= 15 /\ 0 <= mid /\ mid <= 63 /\ 0 <= lo /\ lo <= 63
      BY <3>1
    <3>4. LET v == hi * 4096 + mid * 64 + lo IN v \in Int /\ 0 <= v /\ v < 65536
      BY <3>3
    <3> QED BY <3>2, <3>4
  <2>8. Collected(c, extra) = PayloadAt(i, 3) % 65536
    BY <2>3, <2>4, <2>5, <2>6
  <2>9. Collected(c, extra) = PayloadAt(i, 3)
    BY <2>7, <2>8
  <2> QED BY <1>8, <2>6, <2>7, <2>9 DEF extra, c
<1> QED BY <1>2, <1>6, <1>7, <1>8

(* Every turn reads one piece, inside the bytes, as the reference does.    *)
LEMMA TurnReads ==
    ASSUME bytes \in Seq(Below(256)), i \in Nat,
           decodeStray \/ decodeShort \/ decodeBroken \/ decodeWhole
    PROVE  \E n, next \in Nat :
             /\ Decoded(n, next)
             /\ i < next /\ next <= Len(bytes)
             /\ Read(i, next - i, n)
<1> DEFINE extra == extraBytesForChar(At(i))
           length == 1 + IF extra > 0 THEN extra ELSE 0
<1>1. Turn /\ i < Len(bytes) /\ Len(bytes) \in Nat
  BY DEF decodeStray, decodeShort, decodeBroken, decodeWhole, Turn
<1>2. At(i) \in Int /\ At(i) \in Below(256)
  BY AtIsByte
<1>3. \A l \in 1 .. 3 : PatternAt(i, l) => ~NoLead(At(i)) /\ l = length
  BY PatternLength
<1>4. ~NoLead(At(i)) =>
      /\ extra \in Int
      /\ \/ At(i) < 128 /\ extra = -1
         \/ 192 <= At(i) /\ At(i) < 224 /\ extra = 1
         \/ 224 <= At(i) /\ At(i) < 240 /\ extra = 2
         \/ 240 <= At(i) /\ extra > 2
  BY <1>2, Extras
<1>5. ASSUME NEW next \in Nat, i < next, next <= Len(bytes),
             \A l \in 1 .. 3 : i + l <= Len(bytes) => ~PatternAt(i, l)
      PROVE  Read(i, next - i, REPLACEMENT_CHAR)
  <2>1. next - i \in Nat \ {0} /\ i + (next - i) = next
    BY <1>5
  <2> QED BY <1>5, <2>1, ReadNone
<1>6. REPLACEMENT_CHAR \in Nat
  BY DEF REPLACEMENT_CHAR
<1>7. CASE decodeStray
  <2>1. NoLead(At(i)) /\ Decoded(REPLACEMENT_CHAR, i + 1)
    BY <1>7 DEF decodeStray
  <2>2. i + 1 \in Nat /\ i < i + 1 /\ i + 1 <= Len(bytes)
    BY <1>1
  <2>3. Read(i, (i + 1) - i, REPLACEMENT_CHAR)
    BY <1>3, <1>5, <2>1, <2>2
  <2> QED BY <1>6, <2>1, <2>2, <2>3
<1>8. CASE decodeShort
  <2>1. ~NoLead(At(i)) /\ Decoded(REPLACEMENT_CHAR, i + 1) /\ extra > Len(bytes) - i
    BY <1>8 DEF decodeShort, TooShort, remainingBytes
  <2>2. i + 1 \in Nat /\ i < i + 1 /\ i + 1 <= Len(bytes)
    BY <1>1
  <2>3. length > Len(bytes) - i
    <3> HIDE DEF extra
    <3> QED BY <1>1, <1>4, <2>1
  <2>4. \A l \in 1 .. 3 : i + l <= Len(bytes) => ~PatternAt(i, l)
    <3> HIDE DEF length
    <3> QED BY <1>1, <1>3, <2>3
  <2>5. Read(i, (i + 1) - i, REPLACEMENT_CHAR)
    BY <1>5, <2>2, <2>4
  <2> QED BY <1>6, <2>1, <2>2, <2>5
<1>9. CASE decodeBroken
  <2>1. PICK j \in Breaks :
          /\ \A k \in Breaks : j <= k
          /\ Decoded(REPLACEMENT_CHAR, IF At(i + j) \in {254, 255} THEN i + j + 1 ELSE i + j)
    BY <1>9 DEF decodeBroken
  <2> DEFINE next == IF At(i + j) \in {254, 255} THEN i + j + 1 ELSE i + j
  <2>2. ~NoLead(At(i)) /\ extra \in Int
    BY <1>4, <1>9 DEF decodeBroken
  <2> HIDE DEF extra
  <2>3. j \in 1 .. extra /\ ~Continuation(At(i + j))
    BY DEF Breaks, extra
  <2>4. j \in Int /\ 1 <= j /\ j <= extra /\ length = 1 + extra
    BY <2>2, <2>3
  <2>5. next \in Nat /\ i < next
    BY <2>4
  <2>6. i + j <= Len(bytes)
    <3>1. CASE j = 1
      BY <1>1, <3>1
    <3>2. CASE j > 1
      <4>1. j - 1 \in 1 .. extra /\ j - 1 < j /\ i + (j - 1) \in Nat
        BY <2>2, <2>4, <3>2
      <4>2. Continuation(At(i + (j - 1)))
        BY <2>1, <2>4, <4>1 DEF Breaks, extra
      <4>3. i + (j - 1) < Len(bytes)
        BY <4>1, <4>2, AtIsByte DEF NoLead
      <4> QED BY <1>1, <2>4, <4>3
    <3> QED BY <2>4, <3>1, <3>2
  <2>7. next <= Len(bytes)
    <3>1. CASE At(i + j) \in {254, 255}
      <4>1. i + j \in Nat /\ NoLead(At(i + j))
        BY <2>4, <3>1 DEF NoLead
      <4>2. i + j < Len(bytes)
        BY <4>1, AtIsByte
      <4> QED BY <1>1, <2>4, <4>2
    <3>2. CASE At(i + j) \notin {254, 255}
      BY <2>6, <3>2
    <3> QED BY <3>1, <3>2
  <2>8. ASSUME NEW l \in 1 .. 3, PatternAt(i, l) PROVE FALSE
    <3>1. l = 1 + extra
      BY <1>3, <2>4, <2>8
    <3>2. j \in 1 .. l - 1
      BY <2>2, <2>4, <3>1
    <3> QED BY <2>3, <2>8, <3>2 DEF PatternAt
  <2> HIDE DEF next
  <2>9. Read(i, next - i, REPLACEMENT_CHAR)
    BY <1>5, <2>5, <2>7, <2>8
  <2>10. Decoded(REPLACEMENT_CHAR, next)
    BY <2>1 DEF next
  <2> QED BY <1>6, <2>5, <2>7, <2>9, <2>10
<1>10. CASE decodeWhole
  <2> DEFINE next == i + 1 + IF extra > 0 THEN extra ELSE 0
             n == IF extra > 2 THEN REPLACEMENT_CHAR ELSE Collected(At(i), extra)
  <2>1. ~NoLead(At(i)) /\ Breaks = {} /\ Decoded(n, next)
    BY <1>10 DEF decodeWhole
  <2>2. \A j \in 1 .. extra : Continuation(At(i + j))
    BY <2>1 DEF Breaks
  <2>3. extra <= 2 => /\ length \in 1 .. 3 /\ PatternAt(i, length)
                      /\ n = PayloadAt(i, length) /\ PayloadAt(i, length) \in Nat
    BY <1>4, <2>1, CollectedIsPayload
  <2>4. extra > 2 => n = REPLACEMENT_CHAR
    OBVIOUS
  <2> HIDE DEF n, extra
  <2>5. extra \in Int
    BY <1>4, <2>1
  <2>6. next \in Nat /\ i < next /\ next - i = length /\ length \in Nat /\ length >= 1
    BY <2>5
  <2>7. next <= Len(bytes)
    <3>1. CASE extra > 0
      <4>1. i + extra \in Nat /\ Continuation(At(i + extra))
        BY <2>2, <2>5, <3>1
      <4>2. i + extra < Len(bytes)
        BY <4>1, AtIsByte DEF NoLead
      <4> QED BY <1>1, <2>5, <3>1, <4>2
    <3>2. CASE ~(extra > 0)
      BY <1>1, <3>2
    <3> QED BY <3>1, <3>2
  <2>8. CASE extra > 2
    <3>1. \A l \in 1 .. 3 : ~PatternAt(i, l)
      BY <1>3, <2>5, <2>8
    <3> HIDE DEF next
    <3>2. Read(i, next - i, REPLACEMENT_CHAR)
      BY <1>5, <2>6, <2>7, <3>1
    <3> QED BY <1>6, <2>1, <2>4, <2>6, <2>7, <2>8, <3>2
  <2>9. CASE extra <= 2
    <3>1. i + length = next
      BY <2>6
    <3> HIDE DEF next, length
    <3>2. Read(i, next - i, n) /\ n \in Nat
      BY <2>3, <2>6, <2>7, <2>9, <3>1, ReadOne
    <3> QED BY <2>1, <2>6, <2>7, <3>2
  <2> QED BY <2>5, <2>8, <2>9
<1> QED BY <1>7, <1>8, <1>9, <1>10

(* A code unit is written as one to three bytes.                           *)
LEMMA UnitBytes ==
    ASSUME NEW unit \in Below(65536)
    PROVE  encodeUTF8Char(unit) \in Seq(Below(256)) /\ Len(encodeUTF8Char(unit)) \in 1 .. 3
<1> DEFINE c == Scalar(unit)
<1>1. /\ c \in Int /\ 0 <= c /\ c <= 65535
      /\ encodeUTF8Char(unit) =
           IF c < 128 THEN <<c>>
           ELSE IF c < 2048 THEN <<192 + c \div 64, 128 + (c % 64)>>
           ELSE <<224 + c \div 4096, 128 + ((c \div 64) % 64), 128 + (c % 64)>>
  BY DEF encodeUTF8Char, Scalar, Invalid, REPLACEMENT_CHAR, Below
<1> HIDE DEF c
<1>2. c < 128 => c \in Below(256)
  BY <1>1 DEF Below
<1>3. 128 <= c /\ c < 2048 => 192 + c \div 64 \in Below(256)
  BY <1>1 DEF Below
<1>4. 128 + (c % 64) \in Below(256) /\ 128 + ((c \div 64) % 64) \in Below(256)
  BY <1>1 DEF Below
<1>5. 224 + c \div 4096 \in Below(256)
  BY <1>1 DEF Below
<1>6. CASE c < 128
  BY <1>1, <1>2, <1>6
<1>7. CASE 128 <= c /\ c < 2048
  BY <1>1, <1>3, <1>4, <1>7
<1>8. CASE 2048 <= c
  BY <1>1, <1>4, <1>5, <1>8
<1> QED BY <1>1, <1>6, <1>7, <1>8

-----------------------------------------------------------------------------
(* How far the two loops are, and that the pieces read so far are those    *)
(* of the reference.                                                       *)
ProgressInv ==
    /\ text \in Seq(Below(65536))
    /\ e \in Nat /\ e <= Len(text)
    /\ bytes \in Seq(Below(256))
    /\ i \in Nat /\ i <= Len(bytes)
    /\ starts \in Seq(Nat) /\ result \in Seq(Nat) /\ Len(starts) = Len(result)
    /\ pc = "encode" => i = 0 /\ starts = <<>> /\ result = <<>>
    /\ pc # "encode" /\ e > 0 => e = Len(text)
    /\ pc = "done" => i = Len(bytes)

PatternInv == ProgressInv /\ DecodesByPattern

(* The encoder's turn appends bytes to the bytes.                          *)
LEMMA EncodeProgress ==
    ASSUME ProgressInv, encodeUTF8
    PROVE  ProgressInv'
<1>1. CASE e < Len(text)
  <2>1. text[e + 1] \in Below(65536) /\ e + 1 \in Nat /\ e + 1 <= Len(text)
    BY <1>1 DEF ProgressInv
  <2>2. encodeUTF8Char(text[e + 1]) \in Seq(Below(256))
    BY <2>1, UnitBytes
  <2>3. /\ bytes' = bytes \o encodeUTF8Char(text[e + 1]) /\ e' = e + 1 /\ pc' = pc /\ pc = "encode"
        /\ text' = text /\ i' = i /\ result' = result /\ starts' = starts
    BY <1>1 DEF encodeUTF8, ProgressInv
  <2>4. bytes' \in Seq(Below(256)) /\ Len(bytes') >= 0
    BY <2>2, <2>3 DEF ProgressInv
  <2> QED BY <2>1, <2>3, <2>4 DEF ProgressInv
<1>2. CASE ~(e < Len(text))
  BY <1>2 DEF encodeUTF8, ProgressInv
<1> QED BY <1>1, <1>2

(* A turn of the decoder appends one piece read as the reference reads it. *)
LEMMA TurnPattern ==
    ASSUME PatternInv, pc = "decode",
           NEW n \in Nat, NEW next \in Nat,
           Decoded(n, next), i < next, next <= Len(bytes), Read(i, next - i, n)
    PROVE  PatternInv'
<1>1. /\ starts' = Append(starts, i) /\ result' = Append(result, n) /\ i' = next
      /\ pc' = pc /\ text' = text /\ e' = e /\ bytes' = bytes
  BY DEF Decoded
<1>2. /\ starts \in Seq(Nat) /\ result \in Seq(Nat) /\ Len(starts) = Len(result) /\ i \in Nat
  BY DEF PatternInv, ProgressInv
<1>3. /\ starts' \in Seq(Nat) /\ result' \in Seq(Nat)
      /\ Len(starts') = Len(starts) + 1 /\ Len(result') = Len(starts) + 1
      /\ \A k \in 1 .. Len(starts) : starts'[k] = starts[k] /\ result'[k] = result[k]
      /\ starts'[Len(starts) + 1] = i /\ result'[Len(starts) + 1] = n
  BY <1>1, <1>2
<1>4. ProgressInv'
  BY <1>1, <1>3 DEF PatternInv, ProgressInv
<1>0. PICK last \in Nat : last = Len(starts) + 1
  BY <1>2
<1>5. ASSUME NEW k \in 1 .. Len(starts)
      PROVE  starts'[k] = starts[k] /\ PieceLen(k)' = PieceLen(k) /\ result'[k] = result[k]
  <2>1. k \in Int /\ k + 1 \in 1 .. last /\ k # last /\ starts'[k] = starts[k]
    BY <1>0, <1>2, <1>3
  <2>2. CASE k = Len(starts)
    <3>1. starts'[k + 1] = i
      BY <1>3, <2>2
    <3> QED BY <1>3, <2>1, <2>2, <3>1 DEF PieceLen
  <2>3. CASE k # Len(starts)
    <3>1. starts'[k + 1] = starts[k + 1]
      <4>1. k + 1 \in 1 .. Len(starts)
        BY <1>2, <2>3
      <4> QED BY <1>3, <4>1
    <3>2. k # Len(starts') /\ result'[k] = result[k]
      BY <1>0, <1>2, <1>3, <2>1
    <3> QED BY <2>1, <2>3, <3>1, <3>2 DEF PieceLen
  <2> QED BY <1>3, <2>2, <2>3
<1>6. starts'[last] = i /\ PieceLen(last)' = next - i /\ result'[last] = n
  BY <1>0, <1>1, <1>3 DEF PieceLen
<1>7. ASSUME NEW k \in 1 .. last
      PROVE  /\ \A length \in 1 .. 3 :
                  starts'[k] + length <= Len(bytes) /\ Patterned(Piece(starts'[k], length))
                     => length = PieceLen(k)'
             /\ result'[k] = IF Patterned(Piece(starts'[k], PieceLen(k)'))
                             THEN Payload(Piece(starts'[k], PieceLen(k)')) ELSE REPLACEMENT_CHAR
  <2>1. CASE k = last
    <3>1. starts'[k] = i /\ PieceLen(k)' = next - i /\ result'[k] = n
      BY <1>6, <2>1
    <3> QED BY <3>1 DEF Read
  <2>2. CASE k # last
    <3>1. k \in 1 .. Len(starts) /\ k \in DOMAIN result
      BY <1>0, <1>2, <2>2, SMTT(60)
    <3>2. starts'[k] = starts[k] /\ PieceLen(k)' = PieceLen(k) /\ result'[k] = result[k]
      BY <1>5, <3>1
    <3>3. /\ \A length \in 1 .. 3 :
               starts[k] + length <= Len(bytes) /\ Patterned(Piece(starts[k], length))
                  => length = PieceLen(k)
          /\ result[k] = IF Patterned(Piece(starts[k], PieceLen(k)))
                         THEN Payload(Piece(starts[k], PieceLen(k))) ELSE REPLACEMENT_CHAR
      BY <3>1 DEF PatternInv, DecodesByPattern, From, Piece
    <3> QED BY <3>2, <3>3
  <2> QED BY <2>1, <2>2
<1>8. DecodesByPattern'
  <2>1. DOMAIN result' = 1 .. last
    BY <1>0, <1>2, <1>3
  <2>2. \A k, length : From(k, length)' = Piece(starts'[k], length)
    BY <1>1 DEF From, Piece
  <2> QED BY <1>1, <1>7, <2>1, <2>2 DEF DecodesByPattern
<1> QED BY <1>4, <1>8 DEF PatternInv

(* Every step keeps it.                                                    *)
LEMMA PatternNext ==
    ASSUME PatternInv, [utf8Next]_utf8Vars
    PROVE  PatternInv'
<1>1. CASE UNCHANGED utf8Vars
  <2>1. ProgressInv'
    BY <1>1 DEF utf8Vars, PatternInv, ProgressInv
  <2>2. UNCHANGED <<bytes, i, starts, result>> /\ DecodesByPattern
    BY <1>1 DEF utf8Vars, PatternInv
  <2>3. DecodesByPattern'
    BY <2>2 DEF DecodesByPattern, From, PieceLen
  <2> QED BY <2>1, <2>3 DEF PatternInv
<1>2. CASE encodeUTF8
  <2>1. ProgressInv'
    BY <1>2, EncodeProgress DEF PatternInv
  <2>2. result' = <<>>
    BY <1>2 DEF encodeUTF8, PatternInv, ProgressInv
  <2>3. DecodesByPattern'
    BY <2>2 DEF DecodesByPattern
  <2> QED BY <2>1, <2>3 DEF PatternInv
<1>3. CASE decodeStray \/ decodeShort \/ decodeBroken \/ decodeWhole
  <2>1. bytes \in Seq(Below(256)) /\ i \in Nat
    BY DEF PatternInv, ProgressInv
  <2>2. PICK n, next \in Nat :
          /\ Decoded(n, next)
          /\ i < next /\ next <= Len(bytes)
          /\ Read(i, next - i, n)
    BY <1>3, <2>1, TurnReads
  <2>3. pc = "decode"
    BY <1>3 DEF decodeStray, decodeShort, decodeBroken, decodeWhole, Turn
  <2> QED BY <2>2, <2>3, TurnPattern
<1>4. CASE decodeEnd
  <2>1. ProgressInv'
    BY <1>4 DEF decodeEnd, PatternInv, ProgressInv
  <2>2. UNCHANGED <<bytes, i, starts, result>> /\ DecodesByPattern
    BY <1>4 DEF decodeEnd, PatternInv
  <2>3. DecodesByPattern'
    BY <2>2 DEF DecodesByPattern, From, PieceLen
  <2> QED BY <2>1, <2>3 DEF PatternInv
<1> QED BY <1>1, <1>2, <1>3, <1>4 DEF utf8Next

(* Both loops start at the beginning.                                      *)
LEMMA InitProgress == ASSUME utf8Init PROVE ProgressInv
<1>1. \A S : <<>> \in Seq(S) /\ Len(<<>>) = 0
  OBVIOUS
<1>2. \A S : \A s \in Seq(S) : Len(s) \in Nat
  OBVIOUS
<1>3. text \in Seq(Below(65536)) /\ bytes \in Seq(Below(256))
  <2>1. Texts \subseteq Seq(Below(65536)) /\ Inputs \subseteq Seq(Below(256))
    BY Utf8Assumption
  <2>2. <<>> \in Seq(Below(65536)) /\ <<>> \in Seq(Below(256))
    BY <1>1
  <2>3. CASE text \in Texts /\ bytes = <<>>
    BY <2>1, <2>2, <2>3
  <2>4. CASE text = <<>> /\ bytes \in Inputs
    BY <2>1, <2>2, <2>4
  <2> QED BY <2>3, <2>4 DEF utf8Init
<1> QED BY <1>1, <1>2, <1>3 DEF utf8Init, ProgressInv

(* So it holds throughout.                                                 *)
LEMMA PatternInvariant == utf8Spec => []PatternInv
<1>1. utf8Init => PatternInv
  <2> SUFFICES ASSUME utf8Init PROVE PatternInv
    OBVIOUS
  <2>1. ProgressInv
    BY InitProgress
  <2> QED BY <2>1 DEF utf8Init, PatternInv, DecodesByPattern
<1>2. PatternInv /\ [utf8Next]_utf8Vars => PatternInv'
  BY PatternNext
<1> QED BY <1>1, <1>2, PTL DEF utf8Spec

(* Whatever bytes are decoded, every character of the result is the number *)
(* in the sequence it was read from, or the replacement character where    *)
(* no sequence of one to three bytes begins.                               *)
THEOREM DecoderCorrect == utf8Spec => []DecodesByPattern
<1>1. PatternInv => DecodesByPattern
  BY DEF PatternInv
<1> QED BY <1>1, PatternInvariant, PTL

-----------------------------------------------------------------------------
(* The bytes behind `from' are those of the unit.                          *)
Written(from, unit) ==
    /\ from + Len(encodeUTF8Char(unit)) <= Len(bytes)
    /\ \A j \in 1 .. Len(encodeUTF8Char(unit)) : bytes[from + j] = encodeUTF8Char(unit)[j]

(* Where the encoder cut the text: unit k is written from cuts[k] to       *)
(* cuts[k + 1].  The decoder is at one of the cuts and has read the units  *)
(* before it.                                                              *)
Cut(cuts) ==
    /\ cuts \in Seq(Nat) /\ Len(cuts) = e + 1
    /\ cuts[1] = 0 /\ cuts[e + 1] = Len(bytes)
    /\ \A k \in 1 .. e : /\ cuts[k + 1] = cuts[k] + Len(encodeUTF8Char(text[k]))
                         /\ Written(cuts[k], text[k])
    /\ Len(result) <= e
    /\ i = cuts[Len(result) + 1]
    /\ \A k \in 1 .. Len(result) : result[k] = Scalar(text[k])

RoundInv ==
    /\ ProgressInv
    /\ pc = "encode" \/ e > 0 => \E cuts : Cut(cuts)

(* The encoder adds a cut behind the bytes of the unit.                    *)
LEMMA EncodeCuts ==
    ASSUME RoundInv, encodeUTF8
    PROVE  RoundInv'
<1>1. ProgressInv /\ ProgressInv' /\ pc = "encode"
  BY EncodeProgress DEF RoundInv, encodeUTF8
<1>2. PICK cuts : Cut(cuts)
  BY <1>1 DEF RoundInv
<1>3. /\ text' = text /\ i' = i /\ result' = result
      /\ i = 0 /\ result = <<>> /\ Len(result) = 0
  BY <1>1 DEF encodeUTF8, ProgressInv
<1>4. CASE e < Len(text)
  <2>1. PICK unit : unit = text[e + 1]
    OBVIOUS
  <2>2. PICK enc : enc = encodeUTF8Char(unit)
    OBVIOUS
  <2>3. /\ unit \in Below(65536) /\ enc \in Seq(Below(256)) /\ Len(enc) \in Nat
        /\ bytes' = bytes \o enc /\ e' = e + 1
    <3>1. unit \in Below(65536)
      BY <1>1, <1>4, <2>1 DEF ProgressInv
    <3>2. enc \in Seq(Below(256))
      BY <2>2, <3>1, UnitBytes
    <3>3. bytes' = bytes \o enc /\ e' = e + 1
      BY <1>1, <1>4, <2>1, <2>2 DEF encodeUTF8, ProgressInv
    <3> QED BY <3>1, <3>2, <3>3
  <2>4. /\ bytes \in Seq(Below(256)) /\ Len(bytes) \in Nat /\ e \in Nat
        /\ Len(bytes') = Len(bytes) + Len(enc)
        /\ \A j \in 1 .. Len(bytes) : bytes'[j] = bytes[j]
        /\ \A j \in 1 .. Len(enc) : bytes'[Len(bytes) + j] = enc[j]
    BY <1>1, <2>3 DEF ProgressInv
  <2>0. PICK more : more = Append(cuts, Len(bytes'))
    OBVIOUS
  <2>5. /\ cuts \in Seq(Nat) /\ Len(cuts) = e + 1 /\ cuts[1] = 0 /\ cuts[e + 1] = Len(bytes)
        /\ i = cuts[Len(result) + 1]
    BY <1>2 DEF Cut
  <2>6. /\ more \in Seq(Nat) /\ Len(more) = e + 2
        /\ \A k \in 1 .. e + 1 : more[k] = cuts[k]
        /\ more[e + 2] = Len(bytes) + Len(enc)
    BY <2>0, <2>3, <2>4, <2>5
  <2>7. ASSUME NEW k \in 1 .. e + 1
        PROVE  /\ more[k + 1] = more[k] + Len(encodeUTF8Char(text[k]))
               /\ more[k] + Len(encodeUTF8Char(text[k])) <= Len(bytes')
               /\ \A j \in 1 .. Len(encodeUTF8Char(text[k])) :
                     bytes'[more[k] + j] = encodeUTF8Char(text[k])[j]
    <3>1. CASE k = e + 1
      <4>1. /\ text[k] = unit /\ encodeUTF8Char(text[k]) = enc
            /\ more[k] = Len(bytes) /\ more[k + 1] = Len(bytes) + Len(enc)
        BY <2>1, <2>2, <2>4, <2>5, <2>6, <3>1
      <4> QED BY <2>3, <2>4, <4>1
    <3>2. CASE k # e + 1
      <4>1. PICK old : old = encodeUTF8Char(text[k])
        OBVIOUS
      <4>2. k \in 1 .. e /\ more[k] = cuts[k] /\ more[k + 1] = cuts[k + 1] /\ cuts[k] \in Nat
        BY <2>4, <2>5, <2>6, <3>2, SMTT(60)
      <4>3. /\ cuts[k + 1] = cuts[k] + Len(old)
            /\ cuts[k] + Len(old) <= Len(bytes)
            /\ \A j \in 1 .. Len(old) : bytes[cuts[k] + j] = old[j]
        BY <1>2, <4>1, <4>2 DEF Cut, Written
      <4>4. Len(old) \in Nat
        <5>1. text[k] \in Below(65536)
          BY <1>1, <4>2 DEF ProgressInv
        <5> QED BY <4>1, <5>1, UnitBytes
      <4>5. \A j \in 1 .. Len(old) : cuts[k] + j \in 1 .. Len(bytes)
        BY <2>4, <4>2, <4>3, <4>4
      <4>6. \A j \in 1 .. Len(old) : bytes'[cuts[k] + j] = old[j]
        BY <2>4, <4>3, <4>5
      <4>7. cuts[k] + Len(old) <= Len(bytes')
        BY <2>3, <2>4, <4>2, <4>3, <4>4
      <4> QED BY <4>1, <4>2, <4>3, <4>6, <4>7
    <3> QED BY <3>1, <3>2
  <2>8. more[1] = 0 /\ more[Len(result) + 1] = i
    BY <1>3, <2>4, <2>5, <2>6
  <2>9. Cut(more)'
    <3>1. \A k \in 1 .. e' : /\ more[k + 1] = more[k] + Len(encodeUTF8Char(text'[k]))
                             /\ Written(more[k], text[k])'
      <4> SUFFICES ASSUME NEW k \in 1 .. e + 1
                   PROVE  /\ more[k + 1] = more[k] + Len(encodeUTF8Char(text'[k]))
                          /\ Written(more[k], text[k])'
        BY <2>3
      <4>1. PICK u : u = text[k] /\ u = text'[k]
        BY <1>3
      <4>2. /\ more[k + 1] = more[k] + Len(encodeUTF8Char(u))
            /\ more[k] + Len(encodeUTF8Char(u)) <= Len(bytes')
            /\ \A j \in 1 .. Len(encodeUTF8Char(u)) : bytes'[more[k] + j] = encodeUTF8Char(u)[j]
        BY <2>7, <4>1
      <4> QED BY <4>1, <4>2 DEF Written
    <3>2. /\ more \in Seq(Nat) /\ Len(more) = e' + 1
          /\ more[1] = 0 /\ more[e' + 1] = Len(bytes')
          /\ Len(result') <= e' /\ i' = more[Len(result') + 1]
          /\ \A k \in 1 .. Len(result') : result'[k] = Scalar(text'[k])
      BY <1>3, <2>3, <2>4, <2>6, <2>8
    <3> QED BY <3>1, <3>2 DEF Cut
  <2> QED BY <1>1, <2>9 DEF RoundInv
<1>5. CASE ~(e < Len(text))
  <2>1. bytes' = bytes /\ e' = e
    BY <1>1, <1>5 DEF encodeUTF8, ProgressInv
  <2>2. Cut(cuts)'
    <3>1. \A k : Written(cuts[k], text[k])' = Written(cuts[k], text[k])
      BY <1>3, <2>1 DEF Written
    <3> QED BY <1>2, <1>3, <2>1, <3>1 DEF Cut
  <2> QED BY <1>1, <2>2 DEF RoundInv
<1> QED BY <1>4, <1>5

(* At a cut the decoder reads exactly the unit written there.              *)
LEMMA ReadWritten ==
    ASSUME bytes \in Seq(Below(256)), i \in Nat, NEW unit \in Below(65536), Written(i, unit),
           NEW n, NEW length \in Nat, Read(i, length, n)
    PROVE  length = Len(encodeUTF8Char(unit)) /\ n = Scalar(unit)
<1>1. PICK enc : enc = encodeUTF8Char(unit)
  OBVIOUS
<1>2. /\ enc \in Seq(Below(256)) /\ Len(enc) \in 1 .. 3
      /\ WellFormed(enc) /\ Payload(enc) = Scalar(unit)
  <2>1. encodeUTF8Char(unit) \in Seq(Below(256)) /\ Len(encodeUTF8Char(unit)) \in 1 .. 3
    BY UnitBytes
  <2>2. WellFormed(encodeUTF8Char(unit)) /\ Payload(encodeUTF8Char(unit)) = Scalar(unit)
    BY UnitWellFormed
  <2> QED BY <1>1, <2>1, <2>2
<1>3. i + Len(enc) <= Len(bytes) /\ \A j \in 1 .. Len(enc) : bytes[i + j] = enc[j]
  BY <1>1 DEF Written
<1> DEFINE p == Piece(i, Len(enc))
<1>4. p \in Seq(Below(256)) /\ Len(p) = Len(enc) /\ \A j \in 1 .. Len(enc) : p[j] = enc[j]
  <2>1. PICK width \in Nat : width = Len(enc) /\ width >= 1
    <3>1. PICK width \in 1 .. 3 : width = Len(enc)
      BY <1>2
    <3> QED BY <3>1
  <2>2. \A k \in i + 1 .. i + width : bytes[k] \in Below(256)
    BY <1>3, <2>1
  <2>3. /\ SubSeq(bytes, i + 1, i + width) \in Seq(Below(256))
        /\ Len(SubSeq(bytes, i + 1, i + width)) = width
        /\ \A k \in 1 .. width : SubSeq(bytes, i + 1, i + width)[k] = bytes[i + k]
    BY <2>1, <2>2, SubSeqProperties
  <2> QED BY <1>3, <2>1, <2>3, SMTT(60) DEF Piece
<1> HIDE DEF p
<1>5. p = enc
  BY <1>2, <1>4, SeqEqual
<1>6. Patterned(p) /\ Payload(p) = Scalar(unit)
  BY <1>2, <1>5 DEF WellFormed
<1>7. Len(enc) = length
  <2>1. PICK width \in 1 .. 3 : width = Len(enc)
    BY <1>2
  <2>2. i + width <= Len(bytes) /\ Patterned(Piece(i, width))
    BY <1>3, <1>6, <2>1 DEF p
  <2>3. ASSUME NEW l \in 1 .. 3, i + l <= Len(bytes), Patterned(Piece(i, l))
        PROVE  l = length
    BY <2>3 DEF Read
  <2>4. width = length
    <3> DEFINE P(l) == i + l <= Len(bytes) /\ Patterned(Piece(i, l))
    <3>1. \A l \in 1 .. 3 : P(l) => l = length
      BY <2>3
    <3>2. P(width)
      BY <2>2
    <3>3. width \in 1 .. 3
      BY <2>1
    <3> HIDE DEF P
    <3> QED BY <3>1, <3>2, <3>3
  <2> QED BY <2>1, <2>4
<1> QED BY <1>1, <1>6, <1>7 DEF Read, p

(* A turn of the decoder goes from one cut to the next.                    *)
LEMMA TurnCuts ==
    ASSUME RoundInv, pc = "decode",
           decodeStray \/ decodeShort \/ decodeBroken \/ decodeWhole,
           ProgressInv'
    PROVE  RoundInv'
<1>1. /\ ProgressInv /\ bytes \in Seq(Below(256)) /\ i \in Nat /\ e \in Nat
      /\ result \in Seq(Nat) /\ Len(result) \in Nat
  BY DEF RoundInv, ProgressInv
<1>2. PICK n, next \in Nat :
        /\ Decoded(n, next)
        /\ i < next /\ next <= Len(bytes)
        /\ Read(i, next - i, n)
  BY <1>1, TurnReads
<1>3. /\ result' = Append(result, n) /\ i' = next
      /\ pc' = pc /\ text' = text /\ e' = e /\ bytes' = bytes
  BY <1>2 DEF Decoded
<1>4. SUFFICES ASSUME e > 0 PROVE \E cuts : Cut(cuts)'
  BY <1>3 DEF RoundInv
<1>5. PICK cuts : Cut(cuts)
  BY <1>4 DEF RoundInv
<1>6. PICK k \in Nat : k = Len(result) + 1
  BY <1>1
<1>7. /\ cuts \in Seq(Nat) /\ Len(cuts) = e + 1 /\ cuts[e + 1] = Len(bytes)
      /\ i = cuts[k] /\ k <= e + 1
  BY <1>1, <1>5, <1>6 DEF Cut
<1>8. k \in 1 .. e
  BY <1>1, <1>2, <1>6, <1>7
<1>9. PICK unit : unit = text[k]
  OBVIOUS
<1>10. /\ unit \in Below(65536) /\ cuts[k + 1] = i + Len(encodeUTF8Char(unit)) /\ Written(i, unit)
  <2>1. unit \in Below(65536)
    BY <1>1, <1>8, <1>9 DEF ProgressInv
  <2>2. cuts[k + 1] = cuts[k] + Len(encodeUTF8Char(text[k])) /\ Written(cuts[k], text[k])
    BY <1>5, <1>8 DEF Cut
  <2> QED BY <1>7, <1>9, <2>1, <2>2
<1>11. next - i \in Nat
  BY <1>1, <1>2
<1>12. next - i = Len(encodeUTF8Char(unit)) /\ n = Scalar(unit)
  <2>1. PICK width \in Nat : width = next - i
    BY <1>11
  <2>2. bytes \in Seq(Below(256)) /\ i \in Nat /\ unit \in Below(65536) /\ Written(i, unit)
    BY <1>1, <1>10
  <2>3. Read(i, width, n)
    BY <1>2, <2>1
  <2>4. width = Len(encodeUTF8Char(unit)) /\ n = Scalar(unit)
    BY <2>2, <2>3, ReadWritten
  <2> QED BY <2>1, <2>4
<1>13. next = cuts[k + 1]
  BY <1>1, <1>10, <1>12
<1>14. /\ Len(result') = k
       /\ \A m \in 1 .. k : result'[m] = Scalar(text[m])
  <2>1. /\ Len(result') = k /\ result'[k] = n
        /\ \A m \in 1 .. Len(result) : result'[m] = result[m]
    BY <1>1, <1>3, <1>6
  <2>2. \A m \in 1 .. Len(result) : result[m] = Scalar(text[m])
    BY <1>5 DEF Cut
  <2>3. ASSUME NEW m \in 1 .. k PROVE result'[m] = Scalar(text[m])
    <3>1. m = k \/ m \in 1 .. Len(result)
      BY <1>1, <1>6
    <3> QED BY <1>9, <1>12, <2>1, <2>2, <3>1
  <2> QED BY <2>1, <2>3
<1>15. Cut(cuts)'
  <2>1. /\ cuts[1] = 0
        /\ \A m \in 1 .. e : /\ cuts[m + 1] = cuts[m] + Len(encodeUTF8Char(text[m]))
                             /\ Written(cuts[m], text[m])
    BY <1>5 DEF Cut
  <2>2. \A m : Written(cuts[m], text[m])' = Written(cuts[m], text[m])
    BY <1>3 DEF Written
  <2>3. /\ Len(result') <= e /\ i' = cuts[Len(result') + 1]
        /\ \A m \in 1 .. Len(result') : result'[m] = Scalar(text[m])
    BY <1>3, <1>8, <1>13, <1>14
  <2> QED BY <1>3, <1>7, <2>1, <2>2, <2>3 DEF Cut
<1> QED BY <1>15

(* Every step keeps the cuts.                                              *)
LEMMA RoundNext ==
    ASSUME RoundInv, PatternInv, [utf8Next]_utf8Vars
    PROVE  RoundInv'
<1>1. ProgressInv'
  BY PatternNext DEF PatternInv
<1>2. CASE UNCHANGED utf8Vars
  BY <1>1, <1>2 DEF utf8Vars, RoundInv, Cut, Written
<1>3. CASE encodeUTF8
  BY <1>3, EncodeCuts
<1>4. CASE decodeStray \/ decodeShort \/ decodeBroken \/ decodeWhole
  <2>1. pc = "decode"
    BY <1>4 DEF decodeStray, decodeShort, decodeBroken, decodeWhole, Turn
  <2> QED BY <1>1, <1>4, <2>1, TurnCuts
<1>5. CASE decodeEnd
  BY <1>1, <1>5 DEF decodeEnd, RoundInv, Cut, Written
<1> QED BY <1>2, <1>3, <1>4, <1>5 DEF utf8Next

(* When the decoder is at the last cut it has read every unit.             *)
LEMMA AllRead ==
    ASSUME RoundInv
    PROVE  RoundTrip
<1> SUFFICES ASSUME pc = "done", e > 0
             PROVE  result = [k \in DOMAIN text |-> Scalar(text[k])]
  BY DEF RoundTrip
<1>1. /\ ProgressInv /\ i = Len(bytes) /\ e = Len(text) /\ e \in Nat /\ Len(bytes) \in Nat
      /\ result \in Seq(Nat) /\ Len(result) \in Nat /\ text \in Seq(Below(65536))
  BY DEF RoundInv, ProgressInv
<1>2. PICK cuts : Cut(cuts)
  BY DEF RoundInv
<1>3. /\ Len(result) <= e /\ i = cuts[Len(result) + 1]
      /\ \A k \in 1 .. Len(result) : result[k] = Scalar(text[k])
  BY <1>2 DEF Cut
<1>4. ASSUME Len(result) < e PROVE FALSE
  <2>1. PICK k \in 1 .. e : k = Len(result) + 1
    BY <1>1, <1>4
  <2>2. PICK enc : enc = encodeUTF8Char(text[k])
    OBVIOUS
  <2>3. i + Len(enc) <= Len(bytes)
    BY <1>2, <1>3, <2>1, <2>2 DEF Cut, Written
  <2>4. Len(enc) \in Int /\ Len(enc) >= 1
    <3>1. text[k] \in Below(65536)
      BY <1>1
    <3>2. Len(enc) \in 1 .. 3
      BY <2>2, <3>1, UnitBytes
    <3> QED BY <3>2
  <2> QED BY <1>1, <2>3, <2>4
<1>5. Len(result) = Len(text)
  BY <1>1, <1>3, <1>4
<1>6. DOMAIN result = DOMAIN text /\ DOMAIN text = 1 .. Len(result)
  BY <1>1, <1>5
<1>7. result = [k \in DOMAIN result |-> result[k]]
  BY <1>1
<1> QED BY <1>3, <1>6, <1>7

(* Every text, of any length, comes back from the encoder and the decoder  *)
(* with each code unit as the character it stands for.                     *)
THEOREM RoundTripCorrect == utf8Spec => []RoundTrip
<1>1. utf8Init => RoundInv
  <2> SUFFICES ASSUME utf8Init PROVE RoundInv
    OBVIOUS
  <2>1. ProgressInv
    BY InitProgress
  <2>2. ASSUME pc = "encode" PROVE Cut(<<0>>)
    <3>1. bytes = <<>> /\ result = <<>> /\ e = 0 /\ i = 0
      BY <2>2 DEF utf8Init
    <3>2. /\ <<0>> \in Seq(Nat) /\ Len(<<0>>) = 1 /\ <<0>>[1] = 0
          /\ Len(bytes) = 0 /\ Len(result) = 0
      BY <3>1
    <3> QED BY <3>1, <3>2 DEF Cut
  <2>3. ~(e > 0)
    BY DEF utf8Init
  <2> QED BY <2>1, <2>2, <2>3 DEF RoundInv
<1>2. RoundInv /\ PatternInv /\ [utf8Next]_utf8Vars => RoundInv'
  BY RoundNext
<1>3. RoundInv => RoundTrip
  BY AllRead
<1> QED BY <1>1, <1>2, <1>3, PatternInvariant, PTL DEF utf8Spec
=============================================================================
