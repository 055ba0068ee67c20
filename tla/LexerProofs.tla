---------------------------- MODULE LexerProofs ----------------------------
(***************************************************************************)
(* Facts about the lexer's operators, for every byte and every state.      *)
(***************************************************************************)
EXTENDS Lexer, TLAPS

(* The states in which the bytes of a string are read.                     *)
StringTag == {"String", "Escape", "Unicode", "SurrogateBackslash", "SurrogateU"}

(* The literals and their lengths.                                         *)
LEMMA WordLength ==
  ASSUME NEW w \in LiteralName
  PROVE  Len(Word[w]) \in 3 .. 8
  BY DEF LiteralName, Word

(* The fields of a state, by its tag.                                      *)
LEMMA StateFields ==
  ASSUME NEW s \in ScalarState
  PROVE  /\ s.st \in Tag /\ s.value \in U16 /\ s.low \in BOOLEAN
         /\ s.n \in Nat /\ s.expected \in LiteralName
         /\ s.st = "Unicode" => s.n \in 1 .. 4
         /\ s.st = "Literal" => s.n \in 1 .. Len(Word[s.expected]) - 1
         /\ s.st = "Integer" => s.n \in 1 .. MaxPrefix
  BY DEF ScalarState, State

(* What the constructors build is a state.                                 *)
LEMMA ZeroU16 == 0 \in U16
  BY DEF U16

LEMMA PlainState ==
  ASSUME NEW tag \in PlainTag
  PROVE  At(tag) \in ScalarState
  BY ZeroU16 DEF ScalarState, State, At, Variant, Tag, PlainTag, LiteralName

LEMMA UnicodeState ==
  ASSUME NEW v \in U16, NEW r \in 1 .. 4, NEW low \in BOOLEAN
  PROVE  Unicode(v, r, low) \in ScalarState
  BY DEF ScalarState, State, Unicode, Variant, Tag, PlainTag, LiteralName

LEMMA LiteralState ==
  ASSUME NEW w \in LiteralName, NEW n \in 1 .. Len(Word[w]) - 1
  PROVE  Literal(w, n) \in ScalarState
  BY WordLength, ZeroU16 DEF ScalarState, State, Literal, Variant, Tag, PlainTag

LEMMA IntegerState ==
  ASSUME NEW n \in 1 .. MaxPrefix
  PROVE  Integer(n) \in ScalarState
  BY PrefixAssumption, ZeroU16
     DEF ScalarState, State, Integer, Variant, Tag, PlainTag, LiteralName

(* The first letter of a literal is read.                                  *)
LEMMA LiteralStarts ==
  ASSUME NEW w \in LiteralName
  PROVE  Literal(w, 1) \in ScalarState
<1> DEFINE size == Len(Word[w])
<1>1. size \in 3 .. 8
  BY WordLength
<1> HIDE DEF size
<1>2. 1 \in 1 .. size - 1
  BY <1>1
<1> QED BY <1>2, LiteralState DEF size

(* A scalar starts in a state.                                             *)
LEMMA StartTyped ==
  ASSUME NEW b \in Byte, Startable(b)
  PROVE  Start(b) \in ScalarState
<1> USE PrefixAssumption
<1>1. /\ At("String") \in ScalarState /\ At("Minus") \in ScalarState
      /\ At("Zero") \in ScalarState
  BY PlainState DEF PlainTag
<1>2. \A w \in LiteralName : Literal(w, 1) \in ScalarState
  BY LiteralStarts
<1>3. Integer(1) \in ScalarState
  BY IntegerState
<1> QED BY <1>1, <1>2, <1>3 DEF Start, LiteralName

(* What a push answers.                                                    *)
Answer == [advance : Advance, state : ScalarState]

LEMMA AnswerTyped ==
  ASSUME NEW s \in ScalarState
  PROVE  /\ Consumed(s) \in Answer /\ Reject(s) \in Answer
         /\ Complete \in Answer /\ Delimiter \in Answer
  BY PlainState DEF Consumed, Reject, Complete, Delimiter, Answer, Advance,
                    PlainTag

(* A push leaves the lexer in a state: no count passes its limit and no    *)
(* literal is read past its end (src/stream/lexer.rs, push).               *)
THEOREM PushTyped ==
  ASSUME NEW s \in ScalarState, NEW b \in Byte
  PROVE  Push(s, b) \in Answer
<1> USE PrefixAssumption
<1>f. /\ s.st \in Tag /\ s.value \in U16 /\ s.low \in BOOLEAN
      /\ s.n \in Nat /\ s.expected \in LiteralName
      /\ s.st = "Unicode" => s.n \in 1 .. 4
      /\ s.st = "Literal" => s.n \in 1 .. Len(Word[s.expected]) - 1
      /\ s.st = "Integer" => s.n \in 1 .. MaxPrefix
  BY StateFields
<1>c. \A t \in PlainTag : Consumed(At(t)) \in Answer
  BY PlainState, AnswerTyped
<1>a. Reject(s) \in Answer /\ Complete \in Answer /\ Delimiter \in Answer
  BY AnswerTyped
<1>u. \A low \in BOOLEAN : Consumed(Unicode(0, 4, low)) \in Answer
  <2> TAKE low \in BOOLEAN
  <2>1. Unicode(0, 4, low) \in ScalarState
    BY ZeroU16, UnicodeState
  <2> QED BY <2>1, AnswerTyped
<1>w. \A w \in LiteralName : Consumed(Literal(w, 1)) \in Answer
  BY LiteralStarts, AnswerTyped
<1>i. AfterInteger(b) \in Answer
  BY <1>a, <1>c DEF AfterInteger, PlainTag
<1>1. CASE s.st = "String"
  BY <1>1, <1>a, <1>c DEF Push, PushString, PlainTag
<1>2. CASE s.st = "Escape"
  BY <1>2, <1>a, <1>c, <1>u DEF Push, PushEscape, PlainTag
<1>3. CASE s.st = "Unicode"
  <2>1. PushUnicode(s, b) \in Answer
    <3> SUFFICES ASSUME b \in HexDigits PROVE PushUnicode(s, b) \in Answer
      BY <1>a DEF PushUnicode
    <3>1. HexValue(b) \in 0 .. 15
      BY DEF HexValue, HexDigits, Digits
    <3> DEFINE v == Shift(s.value, b)
    <3>2. v \in U16
      <4>1. s.value \in Nat
        BY <1>f DEF U16
      <4>2. HexValue(b) \in Nat
        BY <3>1
      <4>3. s.value * 16 + HexValue(b) \in Nat
        BY <4>1, <4>2
      <4> QED BY <4>3 DEF Shift, U16
    <3>3. CASE s.n > 1
      BY <3>2, <3>3, <1>f, <1>3, UnicodeState, AnswerTyped DEF PushUnicode
    <3>4. CASE ~(s.n > 1)
      <4>1. UnicodeEnd(s, v) \in Answer
        BY <1>a, <1>c, <1>f, <1>3 DEF UnicodeEnd, PlainTag
      <4> QED BY <4>1, <3>4 DEF PushUnicode
    <3> QED BY <3>3, <3>4
  <2> QED BY <2>1, <1>3 DEF Push
<1>4. CASE s.st = "SurrogateBackslash"
  BY <1>4, <1>a, <1>c DEF Push, PushSurrogateBackslash, PlainTag
<1>5. CASE s.st = "SurrogateU"
  BY <1>5, <1>a, <1>u DEF Push, PushSurrogateU
<1>6. CASE s.st = "Literal"
  <2>1. PushLiteral(s, b) \in Answer
    <3>1. s.n + 1 # Len(Word[s.expected]) => s.n + 1 \in 1 .. Len(Word[s.expected]) - 1
      BY <1>f, <1>6, WordLength
    <3>2. s.n + 1 # Len(Word[s.expected]) => Consumed(Literal(s.expected, s.n + 1)) \in Answer
      BY <3>1, <1>f, <1>6, LiteralState, AnswerTyped
    <3> QED BY <3>2, <1>a DEF PushLiteral
  <2> QED BY <2>1, <1>6 DEF Push
<1>7. CASE s.st = "Minus"
  <2>1. Consumed(Integer(2)) \in Answer
    BY IntegerState, AnswerTyped
  <2> QED BY <2>1, <1>7, <1>a, <1>c, <1>w DEF Push, PushMinus, PlainTag, LiteralName
<1>8. CASE s.st = "Zero"
  BY <1>8, <1>a, <1>i DEF Push, PushZero
<1>9. CASE s.st = "Integer"
  <2>1. s.n # MaxPrefix => Consumed(Integer(s.n + 1)) \in Answer
    BY <1>f, <1>9, IntegerState, AnswerTyped
  <2> QED BY <2>1, <1>9, <1>a, <1>i DEF Push, PushInteger
<1>10. CASE s.st \in {"FractionStart", "Fraction", "ExponentStart",
                      "ExponentSign", "Exponent"}
  BY <1>10, <1>a, <1>c DEF Push, PushRequiredDigit, PushFraction,
                           PushExponentStart, PushExponent, PlainTag
<1>11. CASE s.st = "Done"
  BY <1>11, <1>a DEF Push
<1> QED BY <1>f, <1>1, <1>2, <1>3, <1>4, <1>5, <1>6, <1>7, <1>8, <1>9, <1>10,
           <1>11 DEF Tag, PlainTag

(* A span skips only bytes that push would consume without leaving the     *)
(* state: `feed` may take them in one piece (src/stream/lexer.rs, span).   *)
THEOREM SpanSound ==
  ASSUME NEW s \in ScalarState, NEW b \in Byte, SpanByte(s, b)
  PROVE  Push(s, b) = Consumed(s)
<1>1. s.st \in {"String", "Fraction", "Exponent"} => s = At(s.st)
  BY DEF ScalarState, PlainTag
<1>2. CASE s.st = "String"
  BY <1>1, <1>2 DEF SpanByte, Push, PushString
<1>3. CASE s.st = "Fraction"
  <2>1. b \in Digits
    BY <1>3 DEF SpanByte
  <2>2. b \notin {LowerE, UpperE}
    BY <2>1 DEF Digits, LowerE, UpperE
  <2>3. Push(s, b) = PushFraction(b)
    BY <1>3 DEF Push
  <2> QED BY <1>1, <1>3, <2>1, <2>2, <2>3 DEF PushFraction
<1>4. CASE s.st = "Exponent"
  BY <1>1, <1>4 DEF SpanByte, Push, PushExponent
<1> QED BY <1>2, <1>3, <1>4 DEF SpanByte

(* A string goes on as a string until it is complete; it never ends at a   *)
(* byte that is left for the caller.                                       *)
LEMMA StringStays ==
  ASSUME NEW s \in ScalarState, NEW b \in Byte, s.st \in StringTag
  PROVE  /\ Push(s, b).advance # "Delimiter"
         /\ Push(s, b).advance = "Consumed" => Push(s, b).state.st \in StringTag
<1>1. CASE s.st = "String"
  BY <1>1 DEF Push, PushString, StringTag, Consumed, Reject, Complete, At,
              Variant
<1>2. CASE s.st = "Escape"
  BY <1>2 DEF Push, PushEscape, StringTag, Consumed, Reject, At,
              Unicode, Variant
<1>3. CASE s.st = "Unicode"
  BY <1>3 DEF Push, PushUnicode, UnicodeEnd, StringTag, Consumed, Reject, At,
              Unicode, Variant
<1>4. CASE s.st \in {"SurrogateBackslash", "SurrogateU"}
  BY <1>4 DEF Push, PushSurrogateBackslash, PushSurrogateU, StringTag, Consumed,
              Reject, At, Unicode, Variant
<1> QED BY <1>1, <1>2, <1>3, <1>4 DEF StringTag

(* A scalar that goes on is not done.                                      *)
LEMMA ConsumedGoesOn ==
  ASSUME NEW s \in ScalarState, NEW b \in Byte, s.st # "Done",
         Push(s, b).advance = "Consumed"
  PROVE  Push(s, b).state.st # "Done"
<1> USE DEF Consumed, Reject, Complete, Delimiter, At, Unicode, Literal,
            Integer, Variant
<1>1. s.st \in Tag
  BY StateFields
<1>2. CASE s.st \in StringTag
  BY <1>2, StringStays DEF StringTag
<1>3. CASE s.st = "Literal"
  BY <1>3 DEF Push, PushLiteral
<1>4. CASE s.st \in {"Minus", "Zero", "Integer"}
  BY <1>4 DEF Push, PushMinus, PushZero, PushInteger, AfterInteger
<1>5. CASE s.st \in {"FractionStart", "Fraction", "ExponentStart",
                     "ExponentSign", "Exponent"}
  BY <1>5 DEF Push, PushRequiredDigit, PushFraction, PushExponentStart,
              PushExponent
<1> QED BY <1>1, <1>2, <1>3, <1>4, <1>5 DEF Tag, PlainTag, StringTag
=============================================================================
