------------------------------- MODULE MCUtf8 -------------------------------
(* Utf8 on the code units at the boundaries and short strings of bytes of  *)
(* every kind.                                                             *)
EXTENDS Utf8

CONSTANTS MaxUnits, MaxBytes

(* 0, 7F | 80, 7FF | 800, D7FF | D800, DFFF | E000, FFFD | FFFE, FFFF      *)
MCUnits == {0, 127, 128, 2047, 2048, 55295, 55296, 57343, 57344, 65533, 65534, 65535}

(* ASCII, a continuation byte, leads of 2 to 5 bytes, FE and FF            *)
MCBytes == {65, 191, 195, 237, 240, 248, 254, 255}

MCTexts == UNION {[1 .. n -> MCUnits] : n \in 1 .. MaxUnits}
MCInputs == UNION {[1 .. n -> MCBytes] : n \in 0 .. MaxBytes}
=============================================================================
