------------------------------- MODULE Lexer -------------------------------
(***************************************************************************)
(* The incremental scalar lexer (src/stream/lexer.rs) as pure operators:   *)
(* Start, Push, CanFinish and the span fast path.  A lexer state is tagged *)
(* by `st`, one tag for each variant of `enum State`; a field the variant  *)
(* does not have keeps its blank value.                                    *)
(***************************************************************************)
EXTENDS Bytes

PlainTag == {"String", "Escape", "SurrogateBackslash", "SurrogateU", "Minus",
             "Zero", "FractionStart", "Fraction", "ExponentStart",
             "ExponentSign", "Exponent", "Done"}
Tag == PlainTag \cup {"Unicode", "Literal", "Integer"}

(* n counts the digits still to come of a \u escape (`remaining`), the     *)
(* letters read of a literal (`next`) or the bytes of an integer prefix    *)
(* (`prefix_len`).                                                         *)
U16   == { v \in Nat : v < 65536 }
State == [st : Tag, n : Nat, value : U16, low : BOOLEAN, expected : LiteralName]

Variant(tag, n, value, low, word) ==
  [st |-> tag, n |-> n, value |-> value, low |-> low, expected |-> word]

At(tag)                == Variant(tag, 0, 0, FALSE, "null")
Unicode(value, n, low) == Variant("Unicode", n, value, low, "null")
Literal(word, n)       == Variant("Literal", n, 0, FALSE, word)
Integer(n)             == Variant("Integer", n, 0, FALSE, "null")

ScalarState ==
  { s \in State :
      /\ s.st \in PlainTag  => s = At(s.st)
      /\ s.st = "Unicode"   => s.n \in 1 .. 4
      /\ s.st = "Literal"   => s.n \in 1 .. Len(Word[s.expected]) - 1
      /\ s.st = "Integer"   => s.n \in 1 .. MaxPrefix }

(* What a push returns: Ok(Advance) with the state left behind, or Err.    *)
Consumed(s) == [advance |-> "Consumed",  state |-> s]
Complete    == [advance |-> "Complete",  state |-> At("Done")]
Delimiter   == [advance |-> "Delimiter", state |-> At("Done")]
Reject(s)   == [advance |-> "Error",     state |-> s]

Advance == {"Consumed", "Complete", "Delimiter", "Error"}

-----------------------------------------------------------------------------
(* The state after a first byte; Startable says that there is one.         *)

Startable(b) == b \in Digits \cup {Quote, LowerT, LowerF, LowerN, UpperN,
                                   UpperI, Minus}

Start(b) ==
  CASE b = Quote   -> At("String")
    [] b = LowerT  -> Literal("true", 1)
    [] b = LowerF  -> Literal("false", 1)
    [] b = LowerN  -> Literal("null", 1)
    [] b = UpperN  -> Literal("NaN", 1)
    [] b = UpperI  -> Literal("Infinity", 1)
    [] b = Minus   -> At("Minus")
    [] b = 48      -> At("Zero")
    [] OTHER       -> Integer(1)

-----------------------------------------------------------------------------
(* Strings.  A \u escape accumulates a u16 a nibble at a time; a high      *)
(* surrogate must be followed at once by an escaped low one.               *)

PushString(s, b) ==
  CASE b = Quote     -> Complete
    [] b = Backslash -> Consumed(At("Escape"))
    [] b \in Control -> Reject(s)
    [] OTHER         -> Consumed(At("String"))

PushEscape(s, b) ==
  CASE b = LowerU  -> Consumed(Unicode(0, 4, FALSE))
    [] b \in SimpleEscape -> Consumed(At("String"))
    [] OTHER       -> Reject(s)

(* `value << 4 | hex` on a u16: bits above the sixteenth are lost.         *)
Shift(value, b) == (value * 16 + HexValue(b)) % 65536

(* MUTANT: the second half of a pair is accepted without a range check.    *)
UnicodeEndUnchecked(s, value) ==
  CASE s.low                    -> Consumed(At("String"))
    [] value \in HighSurrogate  -> Consumed(At("SurrogateBackslash"))
    [] value \in LowSurrogate   -> Reject(s)
    [] OTHER                    -> Consumed(At("String"))

UnicodeEnd(s, value) ==
  CASE s.low /\ value \in LowSurrogate      -> Consumed(At("String"))
    [] s.low /\ value \notin LowSurrogate   -> Reject(s)
    [] ~s.low /\ value \in HighSurrogate    -> Consumed(At("SurrogateBackslash"))
    [] ~s.low /\ value \in LowSurrogate     -> Reject(s)
    [] OTHER                                -> Consumed(At("String"))

PushUnicode(s, b) ==
  IF b \notin HexDigits THEN Reject(s)
  ELSE IF s.n > 1
       THEN Consumed(Unicode(Shift(s.value, b), s.n - 1, s.low))
       ELSE UnicodeEnd(s, Shift(s.value, b))

PushSurrogateBackslash(s, b) ==
  IF b = Backslash THEN Consumed(At("SurrogateU")) ELSE Reject(s)

PushSurrogateU(s, b) ==
  IF b = LowerU THEN Consumed(Unicode(0, 4, TRUE)) ELSE Reject(s)

-----------------------------------------------------------------------------
(* Literals and numbers.  A number only ends at the byte after it, which   *)
(* the caller sees again.                                                  *)

PushLiteral(s, b) ==
  LET word == Word[s.expected]
  IN  IF b # word[s.n + 1] THEN Reject(s)
      ELSE IF s.n + 1 = Len(word) THEN Complete
      ELSE Consumed(Literal(s.expected, s.n + 1))

PushMinus(s, b) ==
  CASE b = 48        -> Consumed(At("Zero"))
    [] b \in NonZero -> Consumed(Integer(2))
    [] b = UpperI    -> Consumed(Literal("Infinity", 1))
    [] OTHER         -> Reject(s)

(* After the integer part: a fraction, an exponent, or the end.            *)
AfterInteger(b) ==
  CASE b = Dot              -> Consumed(At("FractionStart"))
    [] b \in {LowerE, UpperE} -> Consumed(At("ExponentStart"))
    [] OTHER                -> Delimiter

PushZero(s, b) == IF b \in Digits THEN Reject(s) ELSE AfterInteger(b)

(* MUTANT: the cap is tested one digit late.                               *)
PushIntegerLate(s, b) ==
  CASE b \notin Digits              -> AfterInteger(b)
    [] s.n > MaxPrefix      -> Reject(s)
    [] OTHER                        -> Consumed(Integer(s.n + 1))

PushInteger(s, b) ==
  CASE b \notin Digits           -> AfterInteger(b)
    [] b \in Digits /\ s.n = MaxPrefix -> Reject(s)
    [] OTHER                     -> Consumed(Integer(s.n + 1))

(* FractionStart, ExponentSign: one digit is required.                     *)
PushRequiredDigit(s, b, tag) ==
  IF b \in Digits THEN Consumed(At(tag)) ELSE Reject(s)

PushFraction(b) ==
  CASE b \in Digits           -> Consumed(At("Fraction"))
    [] b \in {LowerE, UpperE} -> Consumed(At("ExponentStart"))
    [] OTHER                  -> Delimiter

PushExponentStart(s, b) ==
  IF b \in {Plus, Minus} THEN Consumed(At("ExponentSign"))
  ELSE PushRequiredDigit(s, b, "Exponent")

PushExponent(b) ==
  IF b \in Digits THEN Consumed(At("Exponent")) ELSE Delimiter

Push(s, b) ==
  CASE s.st = "String"             -> PushString(s, b)
    [] s.st = "Escape"             -> PushEscape(s, b)
    [] s.st = "Unicode"            -> PushUnicode(s, b)
    [] s.st = "SurrogateBackslash" -> PushSurrogateBackslash(s, b)
    [] s.st = "SurrogateU"         -> PushSurrogateU(s, b)
    [] s.st = "Literal"            -> PushLiteral(s, b)
    [] s.st = "Minus"              -> PushMinus(s, b)
    [] s.st = "Zero"               -> PushZero(s, b)
    [] s.st = "Integer"            -> PushInteger(s, b)
    [] s.st = "FractionStart"      -> PushRequiredDigit(s, b, "Fraction")
    [] s.st = "Fraction"           -> PushFraction(b)
    [] s.st = "ExponentStart"      -> PushExponentStart(s, b)
    [] s.st = "ExponentSign"       -> PushRequiredDigit(s, b, "Exponent")
    [] s.st = "Exponent"           -> PushExponent(b)
    [] OTHER                       -> Reject(s)

CanFinish(s) == s.st \in {"Zero", "Integer", "Fraction", "Exponent", "Done"}

-----------------------------------------------------------------------------
(* The span fast path: bytes that can be skipped without a push.           *)

(* MUTANT: the span of a string runs over its escapes.                     *)
SpanByteOverEscapes(s, b) ==
  \/ s.st = "String" /\ b \notin Control \cup {Quote}
  \/ s.st \in {"Fraction", "Exponent"} /\ b \in Digits

SpanByte(s, b) ==
  \/ s.st = "String" /\ b \notin Control \cup {Quote, Backslash}
  \/ s.st \in {"Fraction", "Exponent"} /\ b \in Digits

(* n is the length of the longest prefix of `bytes` made of span bytes.    *)
IsSpan(s, bytes, n) ==
  /\ n \in 0 .. Len(bytes)
  /\ \A i \in 1 .. n : SpanByte(s, bytes[i])
  /\ n < Len(bytes) => ~SpanByte(s, bytes[n + 1])
=============================================================================
