-------------------------------- MODULE Utf8 --------------------------------
(***************************************************************************)
(* encodeUTF8 and decodeUTF8 of netfilter/UTF-8.h, with the 16-bit wchar_t *)
(* of Windows.  Each turn of their loops is an action: a text is encoded   *)
(* and decoded again, or arbitrary bytes are decoded.                      *)
(***************************************************************************)
EXTENDS Integers, Sequences, FiniteSets

CONSTANTS Texts,           \* the std::wstrings encoded
          Inputs           \* the std::strings decoded

Below(bound) == {n \in Nat : n < bound}

ASSUME Utf8Assumption ==
    /\ Texts \subseteq Seq(Below(65536))
    /\ Inputs \subseteq Seq(Below(256))

VARIABLES pc,              \* "encode", "decode" or "done"
          text,            \* source of encodeUTF8
          e,               \* how far in it
          bytes,           \* result of encodeUTF8, source of decodeUTF8
          i,               \* decodeUTF8's index, from 0
          result,
          starts           \* history: where each character of result began

utf8Vars == <<pc, text, e, bytes, i, result, starts>>

REPLACEMENT_CHAR == 65533
Continuation(c)  == c \div 64 = 2
NoLead(c)        == Continuation(c) \/ c \in {254, 255}

(* 0xD800 to 0xDFFF, 0xFFFE and 0xFFFF                                     *)
Invalid(c) == (55296 <= c /\ c <= 57343) \/ c \in {65534, 65535}

-----------------------------------------------------------------------------
(* Mutant of encodeUTF8Char: one byte too far.                             *)
encodeUTF8CharLate(character) ==
    LET c == IF Invalid(character) THEN REPLACEMENT_CHAR ELSE character
    IN  IF c <= 128 THEN <<c>>
        ELSE IF c < 2048 THEN <<192 + c \div 64, 128 + (c % 64)>>
        ELSE <<224 + c \div 4096, 128 + ((c \div 64) % 64), 128 + (c % 64)>>

encodeUTF8Char(character) ==
    LET c == IF Invalid(character) THEN REPLACEMENT_CHAR ELSE character
    IN  IF c < 128 THEN <<c>>
        ELSE IF c < 2048 THEN <<192 + c \div 64, 128 + (c % 64)>>
        ELSE <<224 + c \div 4096, 128 + ((c \div 64) % 64), 128 + (c % 64)>>

encodeUTF8 ==
    /\ pc = "encode"
    /\ \/ /\ e < Len(text)
          /\ bytes' = bytes \o encodeUTF8Char(text[e + 1])
          /\ e' = e + 1
          /\ UNCHANGED pc
       \/ /\ e = Len(text)
          /\ pc' = "decode"
          /\ UNCHANGED <<bytes, e>>
    /\ UNCHANGED <<text, i, result, starts>>

-----------------------------------------------------------------------------
(* source[k]: the terminating NUL may be read.                             *)
At(k) == IF k < Len(bytes) THEN bytes[k + 1] ELSE 0

(* The sequence length is the number of 1 bits before the first 0; one bit *)
(* gives no extra byte, and none -1.                                       *)
LeadingOnes(c) == Cardinality({k \in 1 .. 8 : c >= 256 - 2^(8 - k)})
extraBytesForChar(c) == LeadingOnes(c) - 1
remainingBytes == Len(bytes) - i

(* One turn appends one character, here n, and goes on at `next'.          *)
Decoded(n, next) ==
    /\ result' = Append(result, n)
    /\ starts' = Append(starts, i)
    /\ i' = next
    /\ UNCHANGED <<pc, text, e, bytes>>

Turn == pc = "decode" /\ i < Len(bytes)

(* No character starts with this byte.                                     *)
decodeStray ==
    /\ Turn
    /\ NoLead(At(i))
    /\ Decoded(REPLACEMENT_CHAR, i + 1)

(* Mutant of TooShort: the lead byte is not among the remaining ones.      *)
TooShortEarly == extraBytesForChar(At(i)) >= remainingBytes - 1

(* There are not enough bytes; the lead byte is among the remaining ones,  *)
(* so that one byte less than needed still passes.                         *)
TooShort == extraBytesForChar(At(i)) > remainingBytes

decodeShort ==
    /\ Turn
    /\ ~NoLead(At(i))
    /\ TooShort
    /\ Decoded(REPLACEMENT_CHAR, i + 1)

(* The bytes of the sequence that do not continue it.                      *)
Breaks == {j \in 1 .. extraBytesForChar(At(i)) : ~Continuation(At(i + j))}

(* Mutant of decodeBroken: the byte that broke the sequence is skipped.    *)
decodeBrokenSkips ==
    /\ Turn
    /\ ~NoLead(At(i)) /\ ~TooShort
    /\ \E j \in Breaks :
         /\ \A k \in Breaks : j <= k
         /\ Decoded(REPLACEMENT_CHAR, i + j + 1)

(* The first of them ends it, and may be the start of the next one unless  *)
(* it is 0xFE or 0xFF.                                                     *)
decodeBroken ==
    /\ Turn
    /\ ~NoLead(At(i)) /\ ~TooShort
    /\ \E j \in Breaks :
         /\ \A k \in Breaks : j <= k
         /\ Decoded(REPLACEMENT_CHAR, IF At(i + j) \in {254, 255} THEN i + j + 1 ELSE i + j)

(* n, shifted and extended by each continuation byte.  Of more than two    *)
(* nothing is left in the result.                                          *)
Collected(c, extra) ==
    LET n == c % 2^(7 - LeadingOnes(c)) IN
    CASE extra = 1 -> n * 64 + (At(i + 1) % 64)
      [] extra = 2 -> (n * 4096 + (At(i + 1) % 64) * 64 + (At(i + 2) % 64)) % 65536
      [] OTHER     -> n

(* Mutant of decodeWhole: a character of four bytes is let pass.           *)
decodeWholeWide ==
    LET extra == extraBytesForChar(At(i)) IN
    /\ Turn
    /\ ~NoLead(At(i)) /\ ~TooShort
    /\ Breaks = {}
    /\ Decoded(IF extra > 3 THEN REPLACEMENT_CHAR ELSE Collected(At(i), extra),
               i + 1 + IF extra > 0 THEN extra ELSE 0)

(* The sequence is complete; one of more than three bytes does not fit     *)
(* into a wchar_t.                                                         *)
decodeWhole ==
    LET extra == extraBytesForChar(At(i)) IN
    /\ Turn
    /\ ~NoLead(At(i)) /\ ~TooShort
    /\ Breaks = {}
    /\ Decoded(IF extra > 2 THEN REPLACEMENT_CHAR ELSE Collected(At(i), extra),
               i + 1 + IF extra > 0 THEN extra ELSE 0)

decodeEnd ==
    /\ pc = "decode" /\ i = Len(bytes)
    /\ pc' = "done"
    /\ UNCHANGED <<text, e, bytes, i, result, starts>>

-----------------------------------------------------------------------------
utf8Init ==
    /\ \/ pc = "encode" /\ text \in Texts /\ bytes = <<>>
       \/ pc = "decode" /\ text = <<>> /\ bytes \in Inputs
    /\ e = 0 /\ i = 0
    /\ result = <<>> /\ starts = <<>>

utf8Next ==
    encodeUTF8 \/ decodeStray \/ decodeShort \/ decodeBroken \/ decodeWhole \/ decodeEnd

utf8Spec == utf8Init /\ [][utf8Next]_utf8Vars

-----------------------------------------------------------------------------
(* Reference: UTF-8 as the standard lays it out, up to three bytes.        *)

(* A sequence of the right pattern, and the number in it.                  *)
Patterned(s) ==
    /\ \/ Len(s) = 1 /\ s[1] < 128
       \/ Len(s) = 2 /\ 192 <= s[1] /\ s[1] < 224
       \/ Len(s) = 3 /\ 224 <= s[1] /\ s[1] < 240
    /\ \A k \in 2 .. Len(s) : 128 <= s[k] /\ s[k] < 192

Payload(s) ==
    IF Len(s) = 1 THEN s[1]
    ELSE IF Len(s) = 2 THEN (s[1] - 192) * 64 + (s[2] - 128)
    ELSE (s[1] - 224) * 4096 + (s[2] - 128) * 64 + (s[3] - 128)

(* Neither longer than necessary nor a surrogate.                          *)
WellFormed(s) ==
    /\ Patterned(s)
    /\ Len(s) = 2 => Payload(s) >= 128
    /\ Len(s) = 3 => Payload(s) >= 2048 /\ ~(55296 <= Payload(s) /\ Payload(s) <= 57343)

(* The character a code unit stands for; one that stands for none becomes  *)
(* the replacement character, halves of surrogate pairs included.          *)
Scalar(unit) == IF Invalid(unit) THEN REPLACEMENT_CHAR ELSE unit

-----------------------------------------------------------------------------
(* encodeUTF8Char writes every code unit as the well-formed sequence of    *)
(* its character.                                                          *)
EncodesWellFormed ==
    \A k \in DOMAIN text :
        /\ WellFormed(encodeUTF8Char(text[k]))
        /\ Payload(encodeUTF8Char(text[k])) = Scalar(text[k])

(* Decoding what was encoded gives the text back, character by character.  *)
RoundTrip ==
    pc = "done" /\ e > 0 => result = [k \in DOMAIN text |-> Scalar(text[k])]

(* The bytes that were read for the k-th character.                         *)
From(k, length) == SubSeq(bytes, starts[k] + 1, starts[k] + length)
PieceLen(k) == (IF k = Len(starts) THEN i ELSE starts[k + 1]) - starts[k]

(* The bytes are cut into consecutive pieces, one for each character of    *)
(* the result.  Where a sequence of the right pattern begins, it is the    *)
(* piece and the character is the number in it, overlong forms and         *)
(* surrogates included; any other piece gives the replacement character.   *)
DecodesByPattern ==
    \A k \in DOMAIN result :
        /\ \A length \in 1 .. 3 :
             starts[k] + length <= Len(bytes) /\ Patterned(From(k, length))
                => length = PieceLen(k)
        /\ LET piece == From(k, PieceLen(k)) IN
           result[k] = IF Patterned(piece) THEN Payload(piece) ELSE REPLACEMENT_CHAR

(* Errors do not spread: the decoder takes up again at the next byte a     *)
(* character can start with, whatever was broken, cut short or invalid     *)
(* before it, so that no such byte is swallowed.                           *)
Resynchronises ==
    \A k \in 0 .. i - 1 : ~NoLead(At(k)) => \E n \in DOMAIN starts : starts[n] = k
=============================================================================
