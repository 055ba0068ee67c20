------------------------------- MODULE Bytes -------------------------------
(***************************************************************************)
(* The byte values the scanner tells apart.  A byte is its number, so the  *)
(* ranges of the source (0..=0x1f, b'0'..=b'9', ...) are ranges here too.  *)
(***************************************************************************)
EXTENDS Integers, Sequences

CONSTANT MaxPrefix     (* longest integer prefix, its minus sign included  *)

(* A minus followed by a digit already makes a prefix of two bytes.        *)
ASSUME PrefixAssumption == MaxPrefix \in Nat /\ MaxPrefix >= 2

Byte == 0 .. 255

Quote     == 34      Backslash == 92      Colon == 58      Comma == 44
LBrace    == 123     RBrace    == 125     LBracket == 91   RBracket == 93
Minus     == 45      Plus      == 43      Dot   == 46      Slash == 47

LowerB == 98   LowerF == 102   LowerN == 110   LowerR == 114   LowerT == 116
LowerU == 117  LowerE == 101   UpperE == 69    UpperI == 73    UpperN == 78

Whitespace == {32, 9, 13, 10}
Control    == 0 .. 31
Digits     == 48 .. 57
NonZero    == 49 .. 57
HexDigits  == Digits \cup (97 .. 102) \cup (65 .. 70)

(* MUTANT: lower-case digits are read as if they were upper-case.          *)
HexValueUnfolded(b) == IF b \in Digits THEN b - 48 ELSE b - 55

HexValue(b) ==
  IF b \in Digits THEN b - 48 ELSE IF b >= 97 THEN b - 87 ELSE b - 55

HighSurrogate == 55296 .. 56319
LowSurrogate  == 56320 .. 57343

(* The letters that may follow a backslash, the u of \u aside.             *)
SimpleEscape == {Quote, Backslash, Slash, LowerB, LowerF, LowerN, LowerR,
                 LowerT}

(* The literals a scalar can spell, by the name the lexer keeps.           *)
LiteralName == {"true", "false", "null", "NaN", "Infinity"}

Word == [ true     |-> <<116, 114, 117, 101>>,
          false    |-> <<102, 97, 108, 115, 101>>,
          null     |-> <<110, 117, 108, 108>>,
          NaN      |-> <<78, 97, 78>>,
          Infinity |-> <<73, 110, 102, 105, 110, 105, 116, 121>> ]
=============================================================================
