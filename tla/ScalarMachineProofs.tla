------------------------ MODULE ScalarMachineProofs ------------------------
(***************************************************************************)
(* The invariants of one scalar going through the lexer, for every         *)
(* sequence of bytes and every limit on the integer prefix.                *)
(***************************************************************************)
EXTENDS ScalarMachine, LexerProofs, Inductions

(* A push from a state answers with a state and one of the four answers.   *)
LEMMA PushFields ==
  ASSUME NEW s \in ScalarState, NEW b \in Byte
  PROVE  /\ Push(s, b).state \in ScalarState
         /\ Push(s, b).advance \in Advance
  BY PushTyped DEF Answer

(* Every reachable state is typed: no byte drives the lexer out of its     *)
(* states (push in src/stream/lexer.rs).                                   *)
THEOREM Typed == Spec => []TypeOK
<1>1. Init => TypeOK
  <2> SUFFICES ASSUME NEW b \in Byte, Startable(b), scalar = Start(b),
                      text = <<b>>, advance = "Consumed"
               PROVE  TypeOK
    BY DEF Init
  <2>1. scalar \in ScalarState
    BY StartTyped
  <2> QED BY <2>1 DEF TypeOK, Advance
<1>2. TypeOK /\ [Next]_vars => TypeOK'
  <2> SUFFICES ASSUME TypeOK, [Next]_vars PROVE TypeOK'
    OBVIOUS
  <2>1. CASE UNCHANGED vars
    BY <2>1 DEF TypeOK, vars
  <2>2. CASE Next
    <3> PICK b \in Byte : PushByte(b)
      BY <2>2 DEF Next, PushByte
    <3>1. scalar' \in ScalarState /\ advance' \in Advance
      BY PushFields DEF PushByte, TypeOK
    <3>2. text' \in Seq(Byte)
      BY DEF PushByte, TypeOK
    <3> QED BY <3>1, <3>2 DEF TypeOK
  <2> QED BY <2>1, <2>2
<1> QED BY <1>1, <1>2, PTL DEF Spec

(* In every reachable state, a byte the span fast path skips is one that   *)
(* push would have consumed without leaving the state: span and push give  *)
(* the same answers (span in src/stream/lexer.rs).                         *)
THEOREM SpanInvisible == Spec => []SpanIsInvisible
<1>1. TypeOK => SpanIsInvisible
  BY SpanSound DEF TypeOK, SpanIsInvisible
<1> QED BY <1>1, Typed, PTL

-----------------------------------------------------------------------------
(* The prefix.                                                             *)

(* What the count rests on: a minus, too, is the only byte before it.      *)
PrefixInv ==
  advance = "Consumed" =>
    /\ scalar.st = "Minus" => Len(text) = 1
    /\ scalar.st = "Integer" => scalar.n = Len(text)

(* How a push comes to read an integer, or a minus.                        *)
LEMMA PrefixStep ==
  ASSUME NEW s \in ScalarState, NEW b \in Byte, Push(s, b).advance = "Consumed"
  PROVE  /\ Push(s, b).state.st # "Minus"
         /\ Push(s, b).state.st = "Integer" =>
              \/ s.st = "Minus" /\ Push(s, b).state.n = 2
              \/ s.st = "Integer" /\ Push(s, b).state.n = s.n + 1
<1> USE DEF Consumed, Reject, Complete, Delimiter, At, Unicode, Literal,
            Integer, Variant
<1>1. s.st \in Tag
  BY StateFields
<1>2. CASE s.st \in StringTag
  BY <1>2, StringStays DEF StringTag
<1>3. CASE s.st = "Literal"
  BY <1>3 DEF Push, PushLiteral
<1>4. CASE s.st = "Minus"
  BY <1>4 DEF Push, PushMinus
<1>5. CASE s.st = "Zero"
  BY <1>5 DEF Push, PushZero, AfterInteger
<1>6. CASE s.st = "Integer"
  BY <1>6 DEF Push, PushInteger, AfterInteger
<1>7. CASE s.st \in {"FractionStart", "Fraction", "ExponentStart",
                     "ExponentSign", "Exponent"}
  BY <1>7 DEF Push, PushRequiredDigit, PushFraction, PushExponentStart,
              PushExponent
<1>8. CASE s.st = "Done"
  BY <1>8 DEF Push
<1> QED BY <1>1, <1>2, <1>3, <1>4, <1>5, <1>6, <1>7, <1>8
        DEF Tag, PlainTag, StringTag

(* The cap on an integer counts every byte of its prefix, the minus        *)
(* included (Minus and Integer in push, src/stream/lexer.rs).              *)
THEOREM PrefixCounted == Spec => []PrefixIsCounted
<1>1. Init => PrefixInv
  <2> SUFFICES ASSUME NEW b \in Byte, scalar = Start(b), text = <<b>>
               PROVE  PrefixInv
    BY DEF Init
  <2>1. Len(text) = 1
    OBVIOUS
  <2>2. Start(b).st = "Integer" => Start(b).n = 1
    BY DEF Start, At, Literal, Integer, Variant
  <2> QED BY <2>1, <2>2 DEF PrefixInv
<1>2. TypeOK /\ PrefixInv /\ [Next]_vars => PrefixInv'
  <2> SUFFICES ASSUME TypeOK, PrefixInv, [Next]_vars PROVE PrefixInv'
    OBVIOUS
  <2>1. CASE UNCHANGED vars
    BY <2>1 DEF PrefixInv, vars
  <2>2. CASE Next
    <3> PICK b \in Byte : PushByte(b)
      BY <2>2 DEF Next, PushByte
    <3>1. Len(text') = Len(text) + 1 /\ Len(text) \in Nat
      BY DEF PushByte, TypeOK
    <3> SUFFICES ASSUME Push(scalar, b).advance = "Consumed" PROVE PrefixInv'
      BY DEF PushByte, PrefixInv
    <3> QED BY <3>1, PrefixStep DEF PushByte, PrefixInv, TypeOK
  <2> QED BY <2>1, <2>2
<1>3. PrefixInv => PrefixIsCounted
  BY DEF PrefixInv, PrefixIsCounted
<1> QED BY <1>1, <1>2, <1>3, Typed, PTL DEF Spec

-----------------------------------------------------------------------------
(* The escape.                                                             *)

(* EscapeFits, of a state.                                                 *)
Fitting(s) ==
  s.st = "Unicode" =>
    s.value < CASE s.n = 4 -> 1
                [] s.n = 3 -> 16
                [] s.n = 2 -> 256
                [] s.n = 1 -> 4096

(* A digit makes the accumulator at most sixteen times larger, and takes   *)
(* one from the digits to come.                                            *)
LEMMA EscapeStep ==
  ASSUME NEW s \in ScalarState, NEW b \in Byte, Fitting(s)
  PROVE  Fitting(Push(s, b).state)
<1> USE DEF Consumed, Reject, Complete, Delimiter, At, Unicode, Literal,
            Integer, Variant
<1>1. s.st \in Tag
  BY StateFields
<1>2. CASE s.st = "Unicode"
  <2>1. s.n \in 1 .. 4 /\ s.value \in Nat
    BY <1>2, StateFields DEF U16
  <2>2. CASE b \in HexDigits /\ s.n > 1
    <3>1. HexValue(b) \in 0 .. 15
      BY <2>2 DEF HexValue, HexDigits, Digits
    <3>2. Push(s, b).state = Unicode(Shift(s.value, b), s.n - 1, s.low)
      BY <1>2, <2>2 DEF Push, PushUnicode
    <3>3. s.value * 16 + HexValue(b) \in Nat
      BY <2>1, <3>1
    <3>4. Shift(s.value, b) <= s.value * 16 + 15
      BY <2>1, <3>1, <3>3 DEF Shift
    <3>5. Shift(s.value, b) \in Nat
      BY <3>3 DEF Shift
    <3> QED BY <1>2, <2>1, <2>2, <3>2, <3>4, <3>5 DEF Fitting
  <2>3. CASE ~(b \in HexDigits /\ s.n > 1)
    <3>1. Push(s, b).state.st # "Unicode" \/ Push(s, b).state = s
      BY <1>2, <2>3 DEF Push, PushUnicode, UnicodeEnd
    <3> QED BY <3>1 DEF Fitting
  <2> QED BY <2>2, <2>3
<1>3. CASE s.st \in {"Escape", "SurrogateU"}
  <2>1. \/ Push(s, b).state.st # "Unicode"
        \/ Push(s, b).state.n = 4 /\ Push(s, b).state.value = 0
    <3>1. CASE s.st = "Escape"
      BY <3>1 DEF Push, PushEscape
    <3>2. CASE s.st = "SurrogateU"
      BY <3>2 DEF Push, PushSurrogateU
    <3> QED BY <1>3, <3>1, <3>2
  <2> QED BY <2>1 DEF Fitting
<1>4. CASE s.st \in Tag \ {"Unicode", "Escape", "SurrogateU"}
  <2>1. Push(s, b).state.st # "Unicode"
    <3>1. CASE s.st \in {"String", "SurrogateBackslash", "Literal", "Minus"}
      BY <3>1 DEF Push, PushString, PushSurrogateBackslash, PushLiteral, PushMinus
    <3>2. CASE s.st \in {"Zero", "Integer", "FractionStart", "Fraction"}
      BY <3>2 DEF Push, PushZero, PushInteger, AfterInteger, PushRequiredDigit,
                  PushFraction
    <3>3. CASE s.st \in {"ExponentStart", "ExponentSign", "Exponent", "Done"}
      BY <3>3 DEF Push, PushRequiredDigit, PushExponentStart, PushExponent
    <3> QED BY <1>4, <3>1, <3>2, <3>3 DEF Tag, PlainTag
  <2> QED BY <2>1 DEF Fitting
<1> QED BY <1>1, <1>2, <1>3, <1>4

(* The u16 that accumulates an escape never loses a bit: its digits fit    *)
(* before the last shift (Unicode in push, src/stream/lexer.rs).           *)
THEOREM EscapeNeverOverflows == Spec => []EscapeFits
<1>1. Init => Fitting(scalar)
  <2> SUFFICES ASSUME NEW b \in Byte, scalar = Start(b) PROVE Fitting(scalar)
    BY DEF Init
  <2>1. Start(b).st # "Unicode"
    BY DEF Start, At, Literal, Integer, Variant
  <2> QED BY <2>1 DEF Fitting
<1>2. TypeOK /\ Fitting(scalar) /\ [Next]_vars => Fitting(scalar)'
  <2> SUFFICES ASSUME TypeOK, Fitting(scalar), [Next]_vars
               PROVE  Fitting(scalar')
    OBVIOUS
  <2>1. CASE UNCHANGED vars
    BY <2>1 DEF vars
  <2>2. CASE Next
    <3> PICK b \in Byte : PushByte(b)
      BY <2>2 DEF Next, PushByte
    <3> QED BY EscapeStep DEF PushByte, TypeOK
  <2> QED BY <2>1, <2>2
<1>3. Fitting(scalar) => EscapeFits
  BY DEF Fitting, EscapeFits
<1> QED BY <1>1, <1>2, <1>3, Typed, PTL DEF Spec
-----------------------------------------------------------------------------
(* What the scans of the reference answer, by the bytes they meet.         *)

LEMMA OneIs ==
  ASSUME NEW d \in Seq(Byte), NEW i \in Nat, NEW S
  PROVE  /\ i >= Len(d) => One(d, i, S) = More(d)
         /\ i < Len(d) /\ d[i + 1] \in S => One(d, i, S) = Ok(i + 1)
         /\ i < Len(d) /\ d[i + 1] \notin S => One(d, i, S) = Bad(i)
<1>1. Len(d) \in Nat
  OBVIOUS
<1> QED BY <1>1 DEF One, AtEnd

LEMMA RunIs ==
  ASSUME NEW d \in Seq(Byte), NEW i \in Nat, NEW S, NEW j \in i .. Len(d),
         \A k \in i + 1 .. j : d[k] \in S,
         j < Len(d) => d[j + 1] \notin S
  PROVE  RunEnd(d, i, S) = j
<1> DEFINE P(m) == /\ \A k \in i + 1 .. m : d[k] \in S
                   /\ m < Len(d) => d[m + 1] \notin S
<1>1. RunEnd(d, i, S) = CHOOSE m \in i .. Len(d) : P(m)
  BY DEF RunEnd
<1>2. ASSUME NEW m \in i .. Len(d), P(m) PROVE m = j
  <2>1. Len(d) \in Nat
    OBVIOUS
  <2>2. ~(m < j)
    <3> SUFFICES ASSUME m < j PROVE FALSE
      OBVIOUS
    <3>1. m + 1 \in i + 1 .. j /\ m < Len(d)
      BY <2>1
    <3> QED BY <1>2, <3>1
  <2>3. ~(j < m)
    <3> SUFFICES ASSUME j < m PROVE FALSE
      OBVIOUS
    <3>1. j + 1 \in i + 1 .. m /\ j < Len(d)
      BY <2>1
    <3> QED BY <1>2, <3>1
  <2> QED BY <2>1, <2>2, <2>3
<1>3. P(j)
  OBVIOUS
<1> HIDE DEF P
<1> QED BY <1>1, <1>2, <1>3

(* A shape is met up to n bytes, and there it ends or the text differs.    *)
Meets(d, i, shape, n) ==
  /\ i + n <= Len(d) /\ \A k \in 1 .. n : d[i + k] \in shape[k]
  /\ n < Len(shape) => AtEnd(d, i + n) \/ d[i + n + 1] \notin shape[n + 1]

LEMMA MeetsOnce ==
  ASSUME NEW d \in Seq(Byte), NEW i \in Nat, NEW shape, Len(shape) \in Nat,
         NEW n \in 0 .. Len(shape), Meets(d, i, shape, n)
  PROVE  ShapeEnd(d, i, shape) =
           IF n = Len(shape) THEN Ok(i + n) ELSE One(d, i + n, shape[n + 1])
<1>1. Agreeing(d, i, shape) = CHOOSE m \in 0 .. Len(shape) : Meets(d, i, shape, m)
  BY DEF Agreeing, Meets
<1>2. ASSUME NEW m \in 0 .. Len(shape), Meets(d, i, shape, m) PROVE m = n
  <2>1. Len(d) \in Nat
    OBVIOUS
  <2>2. ASSUME NEW a \in 0 .. Len(shape), NEW b \in 0 .. Len(shape),
               Meets(d, i, shape, a), Meets(d, i, shape, b), a < b
        PROVE  FALSE
    <3>1. a + 1 \in 1 .. b /\ a < Len(shape) /\ i + (a + 1) = i + a + 1 /\ i + a < Len(d)
      BY <2>1, <2>2 DEF Meets
    <3>2. d[i + a + 1] \in shape[a + 1]
      BY <2>2, <3>1 DEF Meets
    <3> QED BY <2>1, <2>2, <3>1, <3>2 DEF Meets, AtEnd
  <2>3. ~(m < n) /\ ~(n < m)
    BY <1>2, <2>2
  <2> QED BY <2>3
<1>3. Agreeing(d, i, shape) = n
  BY <1>1, <1>2
<1> QED BY <1>3 DEF ShapeEnd

LEMMA MeetsSome ==
  ASSUME NEW d \in Seq(Byte), NEW i \in 0 .. Len(d), NEW shape, Len(shape) \in Nat
  PROVE  \E n \in 0 .. Len(shape) : Meets(d, i, shape, n)
<1>1. Len(d) \in Nat /\ i \in Nat
  OBVIOUS
<1> DEFINE T == { n \in 0 .. Len(shape) :
                    n < Len(shape) => AtEnd(d, i + n) \/ d[i + n + 1] \notin shape[n + 1] }
<1>2. T \in SUBSET Nat /\ Len(shape) \in T
  OBVIOUS
<1>3. PICK n \in T : \A k \in T : n <= k
  <2> HIDE DEF T
  <2> QED BY <1>2, Least
<1>4. ASSUME NEW k \in 1 .. n PROVE i + k <= Len(d) /\ d[i + k] \in shape[k]
  <2>1. /\ k - 1 \in 0 .. Len(shape) /\ (k - 1) + 1 = k /\ ~(n <= k - 1)
        /\ i + (k - 1) \in Nat /\ i + (k - 1) + 1 = i + k
    BY <1>1
  <2>3. k - 1 \notin T
    BY <1>3, <2>1
  <2>2. ~ AtEnd(d, i + (k - 1)) /\ d[i + (k - 1) + 1] \in shape[(k - 1) + 1]
    BY <2>1, <2>3
  <2> QED BY <1>1, <2>1, <2>2 DEF AtEnd
<1>5. i + n <= Len(d)
  BY <1>1, <1>4
<1>6. Meets(d, i, shape, n)
  BY <1>4, <1>5 DEF Meets
<1> QED BY <1>6

(* Where a shape ends well, it has been met to its end.                    *)
LEMMA ShapeTyped ==
  ASSUME NEW d \in Seq(Byte), NEW i \in 0 .. Len(d), NEW shape, Len(shape) \in Nat,
         ShapeEnd(d, i, shape).r = "ok"
  PROVE  ShapeEnd(d, i, shape).at = i + Len(shape) /\ i + Len(shape) <= Len(d)
<1>1. PICK n \in 0 .. Len(shape) : Meets(d, i, shape, n)
  BY MeetsSome
<1>2. Len(d) \in Nat /\ i \in Nat /\ i + n \in Nat
  OBVIOUS
<1>3. n = Len(shape)
  <2> SUFFICES ASSUME n # Len(shape) PROVE FALSE
    OBVIOUS
  <2>1. n < Len(shape)
    OBVIOUS
  <2>2. AtEnd(d, i + n) \/ d[i + n + 1] \notin shape[n + 1]
    BY <1>1, <2>1 DEF Meets
  <2>3. One(d, i + n, shape[n + 1]) \in {More(d), Bad(i + n)}
    BY <1>2, <2>2, OneIs DEF AtEnd
  <2>4. ShapeEnd(d, i, shape) = One(d, i + n, shape[n + 1])
    BY <1>1, <1>2, MeetsOnce
  <2> QED BY <2>3, <2>4 DEF More, Bad
<1>4. ShapeEnd(d, i, shape) = Ok(i + n)
  BY <1>1, <1>2, <1>3, MeetsOnce
<1> QED BY <1>1, <1>3, <1>4 DEF Meets, Ok

(* The letters of a word, and four hex digits.                             *)
LEMMA WordIs ==
  ASSUME NEW d \in Seq(Byte), NEW i \in Nat, NEW w \in Seq(Byte), NEW n \in 0 .. Len(w),
         i + n <= Len(d), \A k \in 1 .. n : d[i + k] = w[k]
  PROVE  /\ n = Len(w) => WordEnd(d, i, w) = Ok(i + n)
         /\ n < Len(w) /\ i + n = Len(d) => WordEnd(d, i, w) = More(d)
         /\ n < Len(w) /\ i + n < Len(d) /\ d[i + n + 1] # w[n + 1]
              => WordEnd(d, i, w) = Bad(i + n)
<1>0. PICK shape : shape = [k \in DOMAIN w |-> {w[k]}]
  OBVIOUS
<1>1. /\ Len(w) \in Nat /\ Len(d) \in Nat /\ DOMAIN w = 1 .. Len(w)
      /\ i + n \in Nat
  OBVIOUS
<1>2. shape \in Seq({ {b} : b \in Byte }) /\ Len(shape) = Len(w)
      /\ \A k \in 1 .. Len(w) : shape[k] = {w[k]}
  BY <1>0
<1>3. n < Len(w) => n + 1 \in 1 .. Len(w)
  BY <1>1
<1>4. \A k \in 1 .. n : d[i + k] \in shape[k]
  BY <1>1, <1>2
<1>5. WordEnd(d, i, w) = ShapeEnd(d, i, shape)
  BY <1>0 DEF WordEnd
<1>9. n \in 0 .. Len(shape) /\ Len(shape) \in Nat
  BY <1>1, <1>2
<1>6. CASE n = Len(w)
  <2>1. Meets(d, i, shape, n)
    BY <1>1, <1>2, <1>4, <1>6 DEF Meets
  <2>i. ShapeEnd(d, i, shape) =
          IF n = Len(shape) THEN Ok(i + n) ELSE One(d, i + n, shape[n + 1])
    BY <1>9, <2>1, MeetsOnce
  <2> QED BY <1>1, <1>2, <1>5, <1>6, <1>9, <2>1, <2>i
<1>7. CASE n < Len(w) /\ i + n = Len(d)
  <2>1. Meets(d, i, shape, n)
    BY <1>1, <1>2, <1>4, <1>7 DEF Meets, AtEnd
  <2>2. One(d, i + n, shape[n + 1]) = More(d)
    BY <1>1, <1>7, OneIs
  <2>i. ShapeEnd(d, i, shape) =
          IF n = Len(shape) THEN Ok(i + n) ELSE One(d, i + n, shape[n + 1])
    BY <1>9, <2>1, MeetsOnce
  <2>3. n # Len(shape) /\ n # Len(w) /\ ~(i + n < Len(d))
    <3>1. PICK a \in Nat, m \in Nat, l \in Nat : a = Len(shape) /\ m = Len(w) /\ l = Len(d)
      BY <1>1, <1>9
    <3>2. a = m /\ n < m /\ i + n = l
      BY <1>2, <3>1, <1>7
    <3>3. n # a /\ n # m /\ ~(i + n < l)
      BY <1>1, <3>2
    <3> QED BY <3>1, <3>3
  <2>4. WordEnd(d, i, w) = More(d)
    BY <1>5, <2>2, <2>3, <2>i
  <2> QED BY <2>3, <2>4
<1>8. CASE n < Len(w) /\ i + n < Len(d) /\ d[i + n + 1] # w[n + 1]
  <2>1. d[i + n + 1] \notin shape[n + 1]
    BY <1>2, <1>3, <1>8
  <2>2. Meets(d, i, shape, n)
    BY <1>1, <1>2, <1>4, <2>1 DEF Meets
  <2>3. One(d, i + n, shape[n + 1]) = Bad(i + n)
    BY <1>1, <1>8, <2>1, OneIs
  <2>i. ShapeEnd(d, i, shape) =
          IF n = Len(shape) THEN Ok(i + n) ELSE One(d, i + n, shape[n + 1])
    BY <1>9, <2>2, MeetsOnce
  <2>4. n # Len(shape) /\ n # Len(w) /\ ~(i + n = Len(d))
    <3>1. PICK a \in Nat, m \in Nat, l \in Nat : a = Len(shape) /\ m = Len(w) /\ l = Len(d)
      BY <1>1, <1>9
    <3>2. a = m /\ n < m /\ i + n < l
      BY <1>2, <3>1, <1>8
    <3>3. n # a /\ n # m /\ ~(i + n = l)
      BY <1>1, <3>2
    <3> QED BY <3>1, <3>3
  <2>5. WordEnd(d, i, w) = Bad(i + n)
    BY <1>5, <2>3, <2>4, <2>i
  <2> QED BY <2>4, <2>5
<1> QED BY <1>1, <1>6, <1>7, <1>8

(* So many hex digits stand at i.                                          *)
HexAt(d, i, n) == i + n <= Len(d) /\ \A k \in i + 1 .. i + n : d[k] \in HexDigits

LEMMA HexIs ==
  ASSUME NEW d \in Seq(Byte), NEW i \in Nat, NEW n \in 0 .. 4, HexAt(d, i, n)
  PROVE  /\ n = 4 => HexRun(d, i) = Ok(i + 4)
         /\ n < 4 /\ i + n = Len(d) => HexRun(d, i) = More(d)
         /\ n < 4 /\ i + n < Len(d) /\ d[i + n + 1] \notin HexDigits
              => HexRun(d, i) = Bad(i + n)
<1>0. PICK shape : shape = [k \in 1 .. 4 |-> HexDigits]
  OBVIOUS
<1>1. Len(d) \in Nat /\ i + n \in Nat
  OBVIOUS
<1>2. shape \in Seq({HexDigits}) /\ Len(shape) = 4 /\ \A k \in 1 .. 4 : shape[k] = HexDigits
  BY <1>0
<1>3. n < 4 => n + 1 \in 1 .. 4
  OBVIOUS
<1>4. \A k \in 1 .. n : d[i + k] \in shape[k]
  <2> TAKE k \in 1 .. n
  <2>1. i + k \in i + 1 .. i + n /\ k \in 1 .. 4
    OBVIOUS
  <2> QED BY <1>2, <2>1 DEF HexAt
<1>5. HexRun(d, i) = ShapeEnd(d, i, shape)
  BY <1>0 DEF HexRun
<1>9. n \in 0 .. Len(shape) /\ Len(shape) \in Nat /\ i + n <= Len(d)
  BY <1>2 DEF HexAt
<1>6. CASE n = 4
  <2>1. Meets(d, i, shape, n)
    BY <1>1, <1>2, <1>4, <1>6, <1>9 DEF Meets
  <2>i. ShapeEnd(d, i, shape) =
          IF n = Len(shape) THEN Ok(i + n) ELSE One(d, i + n, shape[n + 1])
    BY <1>9, <2>1, MeetsOnce
  <2> QED BY <1>1, <1>2, <1>5, <1>6, <1>9, <2>1, <2>i
<1>7. CASE n < 4 /\ i + n = Len(d)
  <2>1. Meets(d, i, shape, n)
    BY <1>1, <1>4, <1>7, <1>9 DEF Meets, AtEnd
  <2>2. One(d, i + n, shape[n + 1]) = More(d)
    BY <1>1, <1>7, OneIs
  <2>i. ShapeEnd(d, i, shape) =
          IF n = Len(shape) THEN Ok(i + n) ELSE One(d, i + n, shape[n + 1])
    BY <1>9, <2>1, MeetsOnce
  <2> QED BY <1>1, <1>2, <1>5, <1>7, <1>9, <2>1, <2>2, <2>i
<1>8. CASE n < 4 /\ i + n < Len(d) /\ d[i + n + 1] \notin HexDigits
  <2>1. d[i + n + 1] \notin shape[n + 1]
    BY <1>2, <1>3, <1>8
  <2>2. Meets(d, i, shape, n)
    BY <1>4, <1>9, <2>1 DEF Meets
  <2>3. One(d, i + n, shape[n + 1]) = Bad(i + n)
    BY <1>1, <1>8, <2>1, OneIs
  <2>i. ShapeEnd(d, i, shape) =
          IF n = Len(shape) THEN Ok(i + n) ELSE One(d, i + n, shape[n + 1])
    BY <1>9, <2>2, MeetsOnce
  <2> QED BY <1>2, <1>5, <1>8, <1>9, <2>2, <2>3, <2>i
<1> QED BY <1>6, <1>7, <1>8

(* A unit of a string ends after its first byte, within the text.          *)
LEMMA EscapeTyped ==
  ASSUME NEW d \in Seq(Byte), NEW i \in 0 .. Len(d), UnicodeEscape(d, i).r = "ok"
  PROVE  UnicodeEscape(d, i).at \in i .. Len(d)
<1>1. Len(d) \in Nat /\ i \in Nat
  OBVIOUS
<1>0. PICK shape : shape = [k \in 1 .. 4 |-> HexDigits]
  OBVIOUS
<1>2. shape \in Seq({HexDigits}) /\ Len(shape) = 4
  BY <1>0
<1>3. ASSUME NEW j \in 0 .. Len(d), HexRun(d, j).r = "ok"
      PROVE  HexRun(d, j).at = j + 4 /\ j + 4 <= Len(d)
  <2>1. HexRun(d, j) = ShapeEnd(d, j, shape)
    BY <1>0 DEF HexRun
  <2>2. Len(shape) \in Nat /\ ShapeEnd(d, j, shape).r = "ok"
    BY <1>2, <1>3, <2>1
  <2>3. ShapeEnd(d, j, shape).at = j + Len(shape) /\ j + Len(shape) <= Len(d)
    BY <2>2, ShapeTyped
  <2> QED BY <1>2, <2>1, <2>3
<1>4. ASSUME NEW j \in 0 .. Len(d), LowHalf(d, j).r = "ok"
      PROVE  LowHalf(d, j).at \in j .. Len(d)
  <2>0. PICK word, letters :
          word = <<Backslash, LowerU>> /\ letters = [k \in DOMAIN word |-> {word[k]}]
    OBVIOUS
  <2>9. PICK w : w = WordEnd(d, j, word)
    OBVIOUS
  <2>1. letters \in Seq({{Backslash}, {LowerU}}) /\ Len(letters) = 2
    BY <2>0
  <2>2. w = ShapeEnd(d, j, letters)
    BY <2>0, <2>9 DEF WordEnd
  <2>3. LowHalf(d, j) = IF w.r = "ok"
                        THEN IF HexRun(d, w.at).r = "ok"
                             THEN IF Hex4(d, w.at + 1) \in LowSurrogate
                                  THEN Ok(HexRun(d, w.at).at)
                                  ELSE Bad(HexRun(d, w.at).at - 1)
                             ELSE HexRun(d, w.at)
                        ELSE w
    BY <2>0, <2>9 DEF LowHalf, Then
  <2>4. w.r = "ok"
    BY <1>4, <2>3
  <2>5. w.at = j + 2 /\ j + 2 <= Len(d)
    <3>1. Len(letters) \in Nat /\ ShapeEnd(d, j, letters).r = "ok"
      BY <2>1, <2>2, <2>4
    <3>2. ShapeEnd(d, j, letters).at = j + Len(letters) /\ j + Len(letters) <= Len(d)
      BY <3>1, ShapeTyped
    <3> QED BY <2>1, <2>2, <3>2
  <2>6. HexRun(d, w.at).r = "ok"
    BY <1>4, <2>3, <2>4
  <2>7. HexRun(d, w.at).at = j + 6 /\ j + 6 <= Len(d)
    BY <1>1, <1>3, <2>5, <2>6
  <2>8. LowHalf(d, j) \in {Ok(j + 6), Bad(j + 6 - 1)}
    BY <2>3, <2>4, <2>6, <2>7
  <2> QED BY <1>1, <1>4, <2>7, <2>8 DEF Ok, Bad
<1>5. UnicodeEscape(d, i) = IF HexRun(d, i).r = "ok"
                            THEN CASE Hex4(d, i + 1) \in HighSurrogate -> LowHalf(d, HexRun(d, i).at)
                                   [] Hex4(d, i + 1) \in LowSurrogate  -> Bad(HexRun(d, i).at - 1)
                                   [] OTHER                            -> Ok(HexRun(d, i).at)
                            ELSE HexRun(d, i)
  BY DEF UnicodeEscape, Then
<1>6. HexRun(d, i).r = "ok"
  BY <1>5
<1>7. HexRun(d, i).at = i + 4 /\ i + 4 \in 0 .. Len(d)
  BY <1>1, <1>3, <1>6
<1>8. UnicodeEscape(d, i) \in {LowHalf(d, i + 4), Bad(i + 4 - 1), Ok(i + 4)}
  BY <1>5, <1>6, <1>7
<1>9. CASE UnicodeEscape(d, i) = LowHalf(d, i + 4)
  BY <1>1, <1>4, <1>7, <1>9
<1>10. CASE UnicodeEscape(d, i) \in {Bad(i + 4 - 1), Ok(i + 4)}
  BY <1>1, <1>7, <1>10 DEF Ok, Bad
<1> QED BY <1>8, <1>9, <1>10

LEMMA Apart ==
  /\ Backslash \notin Control /\ Quote \notin Control /\ Backslash # Quote
  /\ LowerU \notin SimpleEscape
  /\ Dot \notin Digits /\ LowerE \notin Digits /\ UpperE \notin Digits
  /\ Plus \notin Digits /\ Minus \notin Digits /\ UpperI \notin Digits
  /\ Dot # LowerE /\ Dot # UpperE
  /\ 48 \in Digits /\ NonZero \subseteq Digits /\ 48 \notin NonZero
  /\ \A b \in Digits : b = 48 \/ b \in NonZero
  BY DEF Backslash, Control, Quote, LowerU, SimpleEscape, Slash, LowerB, LowerF, LowerN,
         LowerR, LowerT, Dot, Digits, LowerE, UpperE, Plus, Minus, UpperI, NonZero

LEMMA UnitTyped ==
  ASSUME NEW d \in Seq(Byte), NEW i \in 0 .. Len(d), StringUnit(d, i).r = "ok"
  PROVE  StringUnit(d, i).at \in i + 1 .. Len(d)
<1>1. Len(d) \in Nat /\ i \in Nat
  OBVIOUS
<1>2. ~ AtEnd(d, i)
  BY DEF StringUnit, More
<1>3. i + 1 \in 0 .. Len(d)
  BY <1>1, <1>2 DEF AtEnd
<1>4. d[i + 1] \notin Control
  <2>1. ~AtEnd(d, i) /\ d[i + 1] \in Control => StringUnit(d, i) = Bad(i)
    <3>1. d[i + 1] \in Control => d[i + 1] # Backslash
      BY Apart
    <3> QED BY <3>1 DEF StringUnit
  <2> QED BY <1>2, <2>1 DEF Bad
<1>5. CASE d[i + 1] = Backslash /\ ~AtEnd(d, i + 1) /\ d[i + 2] = LowerU
  <2>1. StringUnit(d, i) = UnicodeEscape(d, i + 2)
    BY <1>2, <1>4, <1>5 DEF StringUnit
  <2>2. i + 2 \in 0 .. Len(d)
    BY <1>1, <1>3, <1>5 DEF AtEnd
  <2>3. UnicodeEscape(d, i + 2).at \in i + 2 .. Len(d)
    BY <2>1, <2>2, EscapeTyped
  <2> QED BY <1>1, <2>1, <2>3
<1>6. CASE d[i + 1] = Backslash /\ ~(~AtEnd(d, i + 1) /\ d[i + 2] = LowerU)
  <2>1. StringUnit(d, i) = One(d, i + 1, SimpleEscape)
    BY <1>2, <1>4, <1>6 DEF StringUnit
  <2>2. i + 1 < Len(d) /\ One(d, i + 1, SimpleEscape) = Ok(i + 1 + 1)
    BY <1>1, <1>3, <2>1, OneIs DEF More, Bad
  <2> QED BY <1>1, <2>1, <2>2 DEF Ok
<1>7. CASE d[i + 1] # Backslash
  BY <1>1, <1>2, <1>3, <1>4, <1>7 DEF StringUnit, Ok
<1> QED BY <1>5, <1>6, <1>7

(* What StringTails(d) is at i.                                            *)
TailBody(d, tail, i) ==
  IF ~AtEnd(d, i) /\ d[i + 1] = Quote THEN Ok(i + 1)
  ELSE IF StringUnit(d, i).r = "ok" THEN tail[StringUnit(d, i).at] ELSE StringUnit(d, i)

LEMMA TailsExist ==
  ASSUME NEW d \in Seq(Byte)
  PROVE  \E tail : tail = [i \in 0 .. Len(d) |-> TailBody(d, tail, i)]
<1>1. PICK size \in Nat : size = Len(d)
  OBVIOUS
<1>0. ASSUME NEW i \in 0 .. size, StringUnit(d, i).r = "ok"
      PROVE  StringUnit(d, i).at \in i + 1 .. size
  <2>1. i \in 0 .. Len(d)
    BY <1>1
  <2>2. StringUnit(d, i).at \in i + 1 .. Len(d)
    BY <2>1, <1>0, UnitTyped
  <2> QED BY <1>1, <2>2
<1> DEFINE Goes(m, g) == \A i \in size - m .. size : i >= 0 => g[i] = TailBody(d, g, i)
           T == { m \in Nat : ~ \E g : Goes(m, g) }
<1>2. T = {}
  <2> SUFFICES ASSUME T # {} PROVE FALSE
    OBVIOUS
  <2>1. PICK k \in T : \A j \in T : k <= j
    <3>1. T \in SUBSET Nat
      OBVIOUS
    <3> HIDE DEF T
    <3> QED BY <3>1, Least
  <2>2. PICK g : \A i \in size - k + 1 .. size : i >= 0 => g[i] = TailBody(d, g, i)
    <3>1. CASE k = 0
      BY <3>1
    <3>2. CASE k # 0
      <4>0. k - 1 \in Nat /\ ~(k <= k - 1) /\ size - (k - 1) = size - k + 1
        BY <1>1, <3>2
      <4>1. k - 1 \in Nat /\ k - 1 \notin T /\ size - (k - 1) = size - k + 1
        BY <2>1, <4>0
      <4>2. PICK g : Goes(k - 1, g)
        BY <4>1
      <4> QED BY <4>1, <4>2
    <3> QED BY <3>1, <3>2
  <2>3. PICK h : h = [i \in 0 .. size |-> IF i = size - k THEN TailBody(d, g, i) ELSE g[i]]
    OBVIOUS
  <2>4. ASSUME NEW i \in size - k .. size, i >= 0 PROVE h[i] = TailBody(d, h, i)
    <3>0. i \in 0 .. size /\ k \in Nat
      BY <1>1, <2>1, <2>4
    <3>1. h[i] = TailBody(d, g, i)
      <4>1. CASE i = size - k
        BY <2>3, <3>0, <4>1
      <4>2. CASE i # size - k
        <5>1. i \in size - k + 1 .. size /\ h[i] = g[i]
          BY <1>1, <2>3, <3>0, <4>2, <2>4
        <5> QED BY <2>2, <2>4, <5>1
      <4> QED BY <4>1, <4>2
    <3>2. ASSUME StringUnit(d, i).r = "ok" PROVE h[StringUnit(d, i).at] = g[StringUnit(d, i).at]
      <4>0. StringUnit(d, i).at \in i + 1 .. size
        BY <3>0, <3>2, <1>0
      <4>1. PICK n : n = StringUnit(d, i).at /\ n \in i + 1 .. size
        BY <4>0
      <4>2. n \in 0 .. size /\ n # size - k
        BY <1>1, <2>4, <3>0, <4>1
      <4>3. h[n] = g[n]
        BY <2>3, <4>2
      <4> QED BY <4>1, <4>3
    <3> QED BY <3>1, <3>2 DEF TailBody
  <2>5. Goes(k, h)
    BY <2>4
  <2> QED BY <2>1, <2>5
<1>3. PICK g : Goes(size, g)
  BY <1>1, <1>2
<1>4. \A i \in 0 .. size : g[i] = TailBody(d, g, i)
  BY <1>1, <1>3
<1>5. PICK tail : tail = [i \in 0 .. size |-> g[i]]
  OBVIOUS
<1>6. \A i \in 0 .. size : tail[i] = TailBody(d, tail, i)
  <2> TAKE i \in 0 .. size
  <2>1. StringUnit(d, i).r = "ok" => tail[StringUnit(d, i).at] = g[StringUnit(d, i).at]
    <3> SUFFICES ASSUME StringUnit(d, i).r = "ok"
                 PROVE  tail[StringUnit(d, i).at] = g[StringUnit(d, i).at]
      OBVIOUS
    <3>0. StringUnit(d, i).at \in i + 1 .. size
      BY <1>0
    <3>1. PICK n : n = StringUnit(d, i).at /\ n \in i + 1 .. size
      BY <3>0
    <3>2. n \in 0 .. size
      BY <1>1, <3>1
    <3> QED BY <1>5, <3>1, <3>2
  <2>2. tail[i] = TailBody(d, g, i)
    BY <1>4, <1>5
  <2> QED BY <2>1, <2>2 DEF TailBody
<1>7. tail = [i \in 0 .. size |-> TailBody(d, tail, i)]
  <2>1. [i \in 0 .. size |-> g[i]] = [i \in 0 .. size |-> tail[i]]
    BY <1>5
  <2> QED BY <1>5, <1>6, <2>1
<1> QED BY <1>1, <1>7

LEMMA TailIs ==
  ASSUME NEW d \in Seq(Byte), NEW i \in 0 .. Len(d)
  PROVE  StringTail(d, i) =
           IF ~AtEnd(d, i) /\ d[i + 1] = Quote THEN Ok(i + 1)
           ELSE IF StringUnit(d, i).r = "ok" THEN StringTail(d, StringUnit(d, i).at)
                ELSE StringUnit(d, i)
<1>1. StringTails(d) = CHOOSE tail : tail = [k \in 0 .. Len(d) |-> TailBody(d, tail, k)]
  BY DEF StringTails, TailBody, Then
<1>2. PICK tail : tail = StringTails(d)
  OBVIOUS
<1>3. tail = [k \in 0 .. Len(d) |-> TailBody(d, tail, k)]
  BY <1>1, <1>2, TailsExist
<1>4. tail[i] = TailBody(d, tail, i)
  BY <1>3
<1>5. \A n : StringTail(d, n) = tail[n]
  BY <1>2 DEF StringTail
<1> QED BY <1>4, <1>5 DEF TailBody

LEMMA TailMoves ==
  ASSUME NEW d \in Seq(Byte), NEW i \in 0 .. Len(d)
  PROVE  /\ i < Len(d) /\ d[i + 1] = Quote => StringTail(d, i) = Ok(i + 1)
         /\ \A k : i < Len(d) /\ d[i + 1] # Quote /\ StringUnit(d, i) = Ok(k)
                     => StringTail(d, i) = StringTail(d, k)
         /\ (i < Len(d) => d[i + 1] # Quote) /\ StringUnit(d, i).r # "ok"
              => StringTail(d, i) = StringUnit(d, i)
<1>1. AtEnd(d, i) <=> ~(i < Len(d))
  BY DEF AtEnd
<1>2. StringTail(d, i) =
           IF ~AtEnd(d, i) /\ d[i + 1] = Quote THEN Ok(i + 1)
           ELSE IF StringUnit(d, i).r = "ok" THEN StringTail(d, StringUnit(d, i).at)
                ELSE StringUnit(d, i)
  BY TailIs
<1> QED BY <1>1, <1>2 DEF Ok

(* The units of a string.                                                  *)
EscapeRead(d, i) == i + 2 <= Len(d) /\ d[i + 1] = Backslash /\ d[i + 2] = LowerU

LEMMA UnitIs ==
  ASSUME NEW d \in Seq(Byte), NEW i \in 0 .. Len(d)
  PROVE  /\ i = Len(d) => StringUnit(d, i) = More(d)
         /\ i < Len(d) /\ d[i + 1] \in Control => StringUnit(d, i) = Bad(i)
         /\ i < Len(d) /\ d[i + 1] \notin Control /\ d[i + 1] # Backslash
              => StringUnit(d, i) = Ok(i + 1)
         /\ i + 1 = Len(d) /\ d[i + 1] = Backslash => StringUnit(d, i) = More(d)
         /\ i + 1 < Len(d) /\ d[i + 1] = Backslash /\ d[i + 2] \in SimpleEscape
              => StringUnit(d, i) = Ok(i + 2)
         /\ i + 1 < Len(d) /\ d[i + 1] = Backslash /\ d[i + 2] \notin SimpleEscape
                /\ d[i + 2] # LowerU
              => StringUnit(d, i) = Bad(i + 1)
         /\ EscapeRead(d, i) => StringUnit(d, i) = UnicodeEscape(d, i + 2)
<1>1. PICK size \in Nat : size = Len(d)
  OBVIOUS
<1>2. i \in Nat /\ i <= size /\ (AtEnd(d, i) <=> i >= size) /\ (AtEnd(d, i + 1) <=> i + 1 >= size)
  BY <1>1 DEF AtEnd
<1>3. CASE i = size
  BY <1>1, <1>2, <1>3 DEF StringUnit, EscapeRead
<1>4. CASE i < size /\ d[i + 1] # Backslash
  BY <1>1, <1>2, <1>4 DEF StringUnit, EscapeRead
<1>5. CASE i < size /\ d[i + 1] = Backslash
  <2>1. d[i + 1] \notin Control
    BY <1>5, Apart
  <2>2. StringUnit(d, i) = IF i + 1 < size /\ d[i + 2] = LowerU
                           THEN UnicodeEscape(d, i + 2)
                           ELSE One(d, i + 1, SimpleEscape)
    BY <1>1, <1>2, <1>5, <2>1 DEF StringUnit
  <2>3. /\ i + 1 >= size => One(d, i + 1, SimpleEscape) = More(d)
        /\ i + 1 < size /\ d[i + 2] \in SimpleEscape => One(d, i + 1, SimpleEscape) = Ok(i + 2)
        /\ i + 1 < size /\ d[i + 2] \notin SimpleEscape => One(d, i + 1, SimpleEscape) = Bad(i + 1)
    <3>1. i + 1 \in Nat /\ i + 1 + 1 = i + 2
      BY <1>2
    <3> QED BY <1>1, <3>1, OneIs
  <2>4. i + 1 < size /\ d[i + 2] \in SimpleEscape => d[i + 2] # LowerU
    BY Apart
  <2> QED BY <1>1, <1>2, <1>5, <2>1, <2>2, <2>3, <2>4 DEF EscapeRead
<1> QED BY <1>2, <1>3, <1>4, <1>5

LEMMA HighIsNotLow == \A v : v \in HighSurrogate => v \notin LowSurrogate
<1> SUFFICES ASSUME NEW v \in HighSurrogate, v \in LowSurrogate PROVE FALSE
  OBVIOUS
<1>1. v \in Int /\ v <= 56319 /\ 56320 <= v
  BY DEF HighSurrogate, LowSurrogate
<1> QED BY <1>1

LEMMA EscapeIs ==
  ASSUME NEW d \in Seq(Byte), NEW i \in Nat, NEW n \in 0 .. 4, HexAt(d, i, n)
  PROVE  /\ n < 4 /\ i + n = Len(d) => UnicodeEscape(d, i) = More(d)
         /\ n < 4 /\ i + n < Len(d) /\ d[i + n + 1] \notin HexDigits
              => UnicodeEscape(d, i) = Bad(i + n)
         /\ n = 4 /\ Hex4(d, i + 1) \in HighSurrogate
              => UnicodeEscape(d, i) = LowHalf(d, i + 4)
         /\ n = 4 /\ Hex4(d, i + 1) \in LowSurrogate
              => UnicodeEscape(d, i) = Bad(i + 3)
         /\ n = 4 /\ Hex4(d, i + 1) \notin HighSurrogate \cup LowSurrogate
              => UnicodeEscape(d, i) = Ok(i + 4)
<1>1. UnicodeEscape(d, i) = IF HexRun(d, i).r = "ok"
                            THEN CASE Hex4(d, i + 1) \in HighSurrogate -> LowHalf(d, HexRun(d, i).at)
                                   [] Hex4(d, i + 1) \in LowSurrogate  -> Bad(HexRun(d, i).at - 1)
                                   [] OTHER                            -> Ok(HexRun(d, i).at)
                            ELSE HexRun(d, i)
  BY DEF UnicodeEscape, Then
<1>2. \A v : v \in HighSurrogate => v \notin LowSurrogate
  BY HighIsNotLow
<1>3. CASE n < 4
  <2>1. /\ i + n = Len(d) => HexRun(d, i) = More(d)
        /\ i + n < Len(d) /\ d[i + n + 1] \notin HexDigits => HexRun(d, i) = Bad(i + n)
    BY <1>3, HexIs
  <2> QED BY <1>1, <1>3, <2>1 DEF More, Bad
<1>4. CASE n = 4
  <2>1. HexRun(d, i) = Ok(i + 4)
    BY <1>4, HexIs
  <2>2. HexRun(d, i).r = "ok" /\ HexRun(d, i).at = i + 4 /\ i + 4 - 1 = i + 3
    BY <2>1 DEF Ok
  <2>3. UnicodeEscape(d, i) = CASE Hex4(d, i + 1) \in HighSurrogate -> LowHalf(d, i + 4)
                                [] Hex4(d, i + 1) \in LowSurrogate  -> Bad(i + 3)
                                [] OTHER                            -> Ok(i + 4)
    BY <1>1, <2>2
  <2> QED BY <1>2, <1>4, <2>3
<1> QED BY <1>3, <1>4

LEMMA LowHalfStarts ==
  ASSUME NEW d \in Seq(Byte), NEW i \in 0 .. Len(d)
  PROVE  /\ i = Len(d) => LowHalf(d, i) = More(d)
         /\ i < Len(d) /\ d[i + 1] # Backslash => LowHalf(d, i) = Bad(i)
         /\ i + 1 = Len(d) /\ d[i + 1] = Backslash => LowHalf(d, i) = More(d)
         /\ i + 1 < Len(d) /\ d[i + 1] = Backslash /\ d[i + 2] # LowerU
              => LowHalf(d, i) = Bad(i + 1)
<1>1. PICK word : word = <<Backslash, LowerU>>
  OBVIOUS
<1>2. word \in Seq(Byte) /\ Len(word) = 2 /\ word[1] = Backslash /\ word[2] = LowerU
  BY <1>1 DEF Backslash, LowerU, Byte
<1>3. PICK size \in Nat : size = Len(d)
  OBVIOUS
<1>4. WordEnd(d, i, word).r # "ok" => LowHalf(d, i) = WordEnd(d, i, word)
  BY <1>1 DEF LowHalf, Then
<1>5. /\ i = size => WordEnd(d, i, word) = More(d)
      /\ i < size /\ d[i + 1] # Backslash => WordEnd(d, i, word) = Bad(i)
  <2>1. /\ 0 \in 0 .. Len(word) /\ i + 0 <= Len(d) /\ \A k \in 1 .. 0 : d[i + k] = word[k]
        /\ 0 < Len(word) /\ i + 0 = i /\ i \in Nat
    BY <1>2, <1>3
  <2>2. /\ 0 < Len(word) /\ i + 0 = Len(d) => WordEnd(d, i, word) = More(d)
        /\ 0 < Len(word) /\ i + 0 < Len(d) /\ d[i + 0 + 1] # word[0 + 1]
              => WordEnd(d, i, word) = Bad(i + 0)
    BY <1>2, <2>1, WordIs
  <2> QED BY <1>2, <1>3, <2>1, <2>2
<1>6. ASSUME i + 1 <= size, d[i + 1] = Backslash
      PROVE  /\ i + 1 = size => WordEnd(d, i, word) = More(d)
             /\ i + 1 < size /\ d[i + 2] # LowerU => WordEnd(d, i, word) = Bad(i + 1)
  <2>1. /\ 1 \in 0 .. Len(word) /\ i + 1 <= Len(d) /\ \A k \in 1 .. 1 : d[i + k] = word[k]
        /\ 1 < Len(word) /\ i \in Nat /\ i + 1 + 1 = i + 2
    BY <1>2, <1>3, <1>6
  <2>2. /\ 1 < Len(word) /\ i + 1 = Len(d) => WordEnd(d, i, word) = More(d)
        /\ 1 < Len(word) /\ i + 1 < Len(d) /\ d[i + 1 + 1] # word[1 + 1]
              => WordEnd(d, i, word) = Bad(i + 1)
    BY <1>2, <2>1, WordIs
  <2> QED BY <1>2, <1>3, <2>1, <2>2
<1>7. More(d).r # "ok" /\ Bad(i).r # "ok" /\ Bad(i + 1).r # "ok"
  BY DEF More, Bad
<1>8. i < size \/ i = size
  BY <1>3
<1>9. i + 1 = size \/ i + 1 < size => i + 1 <= size
  BY <1>3
<1> QED BY <1>3, <1>4, <1>5, <1>6, <1>7, <1>9

LEMMA LowHalfIs ==
  ASSUME NEW d \in Seq(Byte), NEW i \in Nat, EscapeRead(d, i),
         NEW n \in 0 .. 4, HexAt(d, i + 2, n)
  PROVE  /\ n < 4 /\ i + 2 + n = Len(d) => LowHalf(d, i) = More(d)
         /\ n < 4 /\ i + 2 + n < Len(d) /\ d[i + 2 + n + 1] \notin HexDigits
              => LowHalf(d, i) = Bad(i + 2 + n)
         /\ n = 4 /\ Hex4(d, i + 3) \in LowSurrogate => LowHalf(d, i) = Ok(i + 6)
         /\ n = 4 /\ Hex4(d, i + 3) \notin LowSurrogate => LowHalf(d, i) = Bad(i + 5)
<1>1. PICK word : word = <<Backslash, LowerU>>
  OBVIOUS
<1>2. word \in Seq(Byte) /\ Len(word) = 2 /\ word[1] = Backslash /\ word[2] = LowerU
  BY <1>1 DEF Backslash, LowerU, Byte
<1>3. WordEnd(d, i, word) = Ok(i + 2)
  <2>1. /\ 2 \in 0 .. Len(word) /\ i + 2 <= Len(d) /\ \A k \in 1 .. 2 : d[i + k] = word[k]
    BY <1>2 DEF EscapeRead
  <2>2. 2 = Len(word) => WordEnd(d, i, word) = Ok(i + 2)
    BY <1>2, <2>1, WordIs
  <2> QED BY <1>2, <2>2
<1>4. LowHalf(d, i) = IF HexRun(d, i + 2).r = "ok"
                      THEN IF Hex4(d, i + 3) \in LowSurrogate
                           THEN Ok(HexRun(d, i + 2).at) ELSE Bad(HexRun(d, i + 2).at - 1)
                      ELSE HexRun(d, i + 2)
  <2>1. WordEnd(d, i, word).r = "ok" /\ WordEnd(d, i, word).at = i + 2 /\ i + 2 + 1 = i + 3
    BY <1>3 DEF Ok
  <2>2. LowHalf(d, i) = IF WordEnd(d, i, word).r = "ok"
                        THEN IF HexRun(d, WordEnd(d, i, word).at).r = "ok"
                             THEN IF Hex4(d, WordEnd(d, i, word).at + 1) \in LowSurrogate
                                  THEN Ok(HexRun(d, WordEnd(d, i, word).at).at)
                                  ELSE Bad(HexRun(d, WordEnd(d, i, word).at).at - 1)
                             ELSE HexRun(d, WordEnd(d, i, word).at)
                        ELSE WordEnd(d, i, word)
    BY <1>1 DEF LowHalf, Then
  <2> QED BY <2>1, <2>2
<1>5. CASE n < 4
  <2>1. /\ i + 2 + n = Len(d) => HexRun(d, i + 2) = More(d)
        /\ i + 2 + n < Len(d) /\ d[i + 2 + n + 1] \notin HexDigits
             => HexRun(d, i + 2) = Bad(i + 2 + n)
    BY <1>5, HexIs
  <2> QED BY <1>4, <1>5, <2>1 DEF More, Bad
<1>6. CASE n = 4
  <2>1. HexRun(d, i + 2) = Ok(i + 2 + 4)
    BY <1>6, HexIs
  <2>2. HexRun(d, i + 2).r = "ok" /\ HexRun(d, i + 2).at = i + 6 /\ i + 6 - 1 = i + 5
    BY <2>1 DEF Ok
  <2>3. LowHalf(d, i) = IF Hex4(d, i + 3) \in LowSurrogate THEN Ok(i + 6) ELSE Bad(i + 5)
    BY <1>4, <2>2
  <2> QED BY <1>6, <2>3
<1> QED BY <1>5, <1>6

-----------------------------------------------------------------------------
(* What a state of the lexer says of the n bytes it has seen of a text d,  *)
(* and what of the scan of the text they leave to do, from an offset j.    *)

HighRead(d, i) == EscapeRead(d, i) /\ HexAt(d, i + 2, 4) /\ Hex4(d, i + 3) \in HighSurrogate

(* The value of the first m digits after i, of four.                       *)
Partial(d, i, m) ==
  CASE m = 0 -> 0
    [] m = 1 -> HexValue(d[i + 1])
    [] m = 2 -> HexValue(d[i + 1]) * 16 + HexValue(d[i + 2])
    [] m = 3 -> HexValue(d[i + 1]) * 256 + HexValue(d[i + 2]) * 16 + HexValue(d[i + 3])

HexRead(s, d, n, i) ==
  /\ n = i + 6 - s.n /\ EscapeRead(d, i) /\ HexAt(d, i + 2, 4 - s.n)
  /\ s.value = Partial(d, i + 2, 4 - s.n)

DigitsFrom(d, i, n) == \A k \in i + 1 .. n : d[k] \in Digits

ExponentDigits(d, n, j, m) ==
  /\ m < n /\ DigitsFrom(d, m, n)
  /\ \/ m = j + 1
     \/ m = j + 2 /\ d[j + 2] \in {Plus, Minus}

Stands(s, d, n, j) ==
  /\ s.st # "Done"
  /\ s.st = "String"  => n = j
  /\ s.st = "Escape"  => n = j + 1 /\ d[j + 1] = Backslash
  /\ s.st = "Unicode" => IF s.low THEN HighRead(d, j) /\ HexRead(s, d, n, j + 6)
                         ELSE HexRead(s, d, n, j)
  /\ s.st = "SurrogateBackslash" => n = j + 6 /\ HighRead(d, j)
  /\ s.st = "SurrogateU" => n = j + 7 /\ HighRead(d, j) /\ d[j + 7] = Backslash
  /\ s.st = "Literal" => n = j + s.n /\ \A k \in 1 .. s.n : d[j + k] = Word[s.expected][k]
  /\ s.st = "Minus" => n = 1 /\ j = 0 /\ d[1] = Minus
  /\ s.st = "Zero"  => n = j + 1 /\ d[j + 1] = 48
  /\ s.st = "Integer" => n = s.n /\ j < n /\ d[j + 1] \in NonZero /\ DigitsFrom(d, j, n)
  /\ s.st = "FractionStart" => n = j + 1 /\ d[j + 1] = Dot
  /\ s.st = "Fraction" => j + 1 < n /\ d[j + 1] = Dot /\ DigitsFrom(d, j + 1, n)
  /\ s.st \in {"ExponentStart", "ExponentSign", "Exponent"} => d[j + 1] \in {LowerE, UpperE}
  /\ s.st = "ExponentStart" => n = j + 1
  /\ s.st = "ExponentSign"  => n = j + 2 /\ d[j + 2] \in {Plus, Minus}
  /\ s.st = "Exponent" => \E m \in Nat : ExponentDigits(d, n, j, m)

Rest(s, d, j) ==
  CASE s.st \in StringTag -> StringTail(d, j)
    [] s.st = "Literal" -> WordEnd(d, j, Word[s.expected])
    [] s.st = "Minus" -> NumberEnd(d, 0)
    [] s.st \in {"Zero", "Integer"} -> IntegerEnd(d, 0, j)
    [] s.st \in {"FractionStart", "Fraction"} -> FractionEnd(d, j)
    [] s.st \in {"ExponentStart", "ExponentSign", "Exponent"} -> ExponentEnd(d, j)

(* Where the rest of the scan starts when the next byte is read.           *)
Onward(s, next, n, j) ==
  CASE next.st = "String" -> n + 1
    [] next.st \in {"FractionStart", "ExponentStart"} \/ s.st = "Minus" -> n
    [] OTHER -> j

(* Nothing follows the bytes seen.                                         *)
Settles(s, d, n, j) ==
  n = Len(d) => IF CanFinish(s) THEN Rest(s, d, j) = Ok(n) ELSE Rest(s, d, j).r = "more"

(* Another byte does.                                                      *)
GoesOn(s, next, d, n, j) ==
  /\ Stands(next, d, n + 1, Onward(s, next, n, j))
  /\ Rest(next, d, Onward(s, next, n, j)) = Rest(s, d, j)

Answers(s, d, n, j) ==
  LET push == Push(s, d[n + 1])
  IN  n < Len(d) =>
        /\ push.advance = "Consumed" => GoesOn(s, push.state, d, n, j)
        /\ n + 1 = Len(d) =>
             /\ push.advance = "Error"     => Rest(s, d, j) = Bad(n)
             /\ push.advance = "Complete"  => Rest(s, d, j) = Ok(n + 1)
             /\ push.advance = "Delimiter" => Rest(s, d, j) = Ok(n)

(* The rest of a string.                                                   *)
LEMMA StringRest ==
  ASSUME NEW s, NEW d, NEW j, s.st \in StringTag
  PROVE  Rest(s, d, j) = StringTail(d, j)
  BY DEF Rest, StringTag

LEMMA ReadsString ==
  ASSUME NEW s \in ScalarState, NEW d \in Seq(Byte), NEW n \in 0 .. Len(d), NEW j \in 0 .. n,
         s.st = "String", Stands(s, d, n, j)
  PROVE  Settles(s, d, n, j) /\ Answers(s, d, n, j)
<1> USE DEF Consumed, Reject, Complete, Delimiter, At, Unicode, Literal,
            Integer, Variant
<1>1. PICK size \in Nat : size = Len(d)
  OBVIOUS
<1>2. n = j /\ n \in Nat /\ n <= size /\ Rest(s, d, j) = StringTail(d, n)
  BY <1>1, StringRest DEF Stands, StringTag
<1>3. Settles(s, d, n, j)
  <2>1. n = size => StringTail(d, n) = More(d)
    BY <1>1, <1>2, UnitIs, TailMoves DEF More
  <2> QED BY <1>1, <1>2, <2>1 DEF Settles, CanFinish, More
<1>4. ASSUME n < size PROVE Answers(s, d, n, j)
  <2>1. PICK b : b = d[n + 1]
    OBVIOUS
  <2>2. Push(s, b) = PushString(s, b)
    BY DEF Push
  <2>3. CASE b = Quote
    <3>1. Push(s, b) = Complete
      BY <2>2, <2>3, Apart DEF PushString
    <3>2. StringTail(d, n) = Ok(n + 1)
      BY <1>1, <1>2, <1>4, <2>1, <2>3, TailMoves
    <3> QED BY <1>1, <1>2, <2>1, <3>1, <3>2 DEF Answers
  <2>4. CASE b = Backslash
    <3>1. Push(s, b) = Consumed(At("Escape"))
      BY <2>2, <2>4, Apart DEF PushString
    <3>2. Onward(s, At("Escape"), n, j) = n
      BY <1>2 DEF Onward
    <3>3. Stands(At("Escape"), d, n + 1, n)
      BY <1>2, <2>1, <2>4 DEF Stands
    <3>4. Rest(At("Escape"), d, n) = StringTail(d, n)
      BY StringRest DEF StringTag
    <3> QED BY <1>2, <2>1, <3>1, <3>2, <3>3, <3>4 DEF Answers, GoesOn
  <2>5. CASE b \in Control
    <3>1. Push(s, b) = Reject(s)
      BY <2>2, <2>5, Apart DEF PushString
    <3>2. StringTail(d, n) = Bad(n)
      BY <1>1, <1>2, <1>4, <2>1, <2>5, Apart, UnitIs, TailMoves DEF Bad
    <3> QED BY <1>1, <1>2, <2>1, <3>1, <3>2 DEF Answers
  <2>6. CASE b \notin Control \cup {Quote, Backslash}
    <3>1. Push(s, b) = Consumed(At("String"))
      BY <2>2, <2>6 DEF PushString
    <3>2. Onward(s, At("String"), n, j) = n + 1
      BY DEF Onward
    <3>3. Stands(At("String"), d, n + 1, n + 1)
      BY DEF Stands
    <3>4. Rest(At("String"), d, n + 1) = StringTail(d, n + 1)
      BY StringRest DEF StringTag
    <3>5. StringTail(d, n) = StringTail(d, n + 1)
      BY <1>1, <1>2, <1>4, <2>1, <2>6, UnitIs, TailMoves
    <3> QED BY <1>2, <2>1, <3>1, <3>2, <3>3, <3>4, <3>5 DEF Answers, GoesOn
  <2> QED BY <2>3, <2>4, <2>5, <2>6
<1> QED BY <1>1, <1>3, <1>4 DEF Answers

LEMMA ReadsEscape ==
  ASSUME NEW s \in ScalarState, NEW d \in Seq(Byte), NEW n \in 0 .. Len(d), NEW j \in 0 .. n,
         s.st = "Escape", Stands(s, d, n, j)
  PROVE  Settles(s, d, n, j) /\ Answers(s, d, n, j)
<1> USE DEF Consumed, Reject, Complete, Delimiter, At, Unicode, Literal,
            Integer, Variant
<1>1. PICK size \in Nat : size = Len(d)
  OBVIOUS
<1>2. /\ n = j + 1 /\ n \in Nat /\ n <= size /\ j \in Nat /\ j \in 0 .. Len(d) /\ j < Len(d)
      /\ d[j + 1] = Backslash /\ d[j + 1] # Quote /\ Rest(s, d, j) = StringTail(d, j)
      /\ n + 1 = j + 2
  BY <1>1, StringRest, Apart DEF Stands, StringTag
<1>3. Settles(s, d, n, j)
  <2>1. n = size => StringUnit(d, j) = More(d)
    BY <1>1, <1>2, UnitIs
  <2>2. n = size => StringTail(d, j) = More(d)
    BY <1>2, <2>1, TailMoves DEF More
  <2> QED BY <1>1, <1>2, <2>2 DEF Settles, CanFinish, More
<1>4. ASSUME n < size PROVE Answers(s, d, n, j)
  <2>1. PICK b : b = d[n + 1]
    OBVIOUS
  <2>2. Push(s, b) = PushEscape(s, b)
    BY DEF Push
  <2>3. CASE b = LowerU
    <3>1. Push(s, b) = Consumed(Unicode(0, 4, FALSE))
      BY <2>2, <2>3, Apart DEF PushEscape
    <3>2. Onward(s, Unicode(0, 4, FALSE), n, j) = j
      BY DEF Onward
    <3>3. Stands(Unicode(0, 4, FALSE), d, n + 1, j)
      <4>1. EscapeRead(d, j)
        <5>1. j + 2 <= size /\ d[j + 2] = LowerU
          <6>1. j + 2 <= size
            BY <1>1, <1>2, <1>2, <1>4
          <6>2. d[j + 2] = d[n + 1]
            BY <1>2
          <6> QED BY <2>1, <2>3, <6>1, <6>2
        <5> QED BY <1>1, <1>2, <5>1 DEF EscapeRead
      <4>2. HexAt(d, j + 2, 0) /\ Partial(d, j + 2, 0) = 0
        BY <1>1, <1>2, <1>4 DEF HexAt, Partial
      <4>3. n + 1 = j + 6 - 4 /\ 4 - 4 = 0
        BY <1>2
      <4> QED BY <4>1, <4>2, <4>3 DEF Stands, HexRead
    <3>4. Rest(Unicode(0, 4, FALSE), d, j) = StringTail(d, j)
      BY StringRest DEF StringTag
    <3> QED BY <1>2, <2>1, <3>1, <3>2, <3>3, <3>4 DEF Answers, GoesOn
  <2>4. CASE b \in SimpleEscape
    <3>1. Push(s, b) = Consumed(At("String"))
      BY <2>2, <2>4, Apart DEF PushEscape
    <3>2. Onward(s, At("String"), n, j) = n + 1
      BY DEF Onward
    <3>3. Stands(At("String"), d, n + 1, n + 1)
      BY DEF Stands
    <3>4. Rest(At("String"), d, n + 1) = StringTail(d, n + 1)
      BY StringRest DEF StringTag
    <3>5. StringUnit(d, j) = Ok(n + 1)
      BY <1>1, <1>2, <1>4, <2>1, <2>4, UnitIs
    <3>6. StringTail(d, j) = StringTail(d, n + 1)
      BY <1>2, <3>5, TailMoves
    <3> QED BY <1>2, <2>1, <3>1, <3>2, <3>3, <3>4, <3>6 DEF Answers, GoesOn
  <2>5. CASE b \notin SimpleEscape \cup {LowerU}
    <3>1. Push(s, b) = Reject(s)
      BY <2>2, <2>5 DEF PushEscape
    <3>2. StringUnit(d, j) = Bad(n)
      BY <1>1, <1>2, <1>4, <2>1, <2>5, UnitIs
    <3>3. StringTail(d, j) = Bad(n)
      BY <1>2, <3>2, TailMoves DEF Bad
    <3> QED BY <1>1, <1>2, <2>1, <3>1, <3>3 DEF Answers
  <2> QED BY <2>3, <2>4, <2>5
<1> QED BY <1>1, <1>3, <1>4 DEF Answers

(* The unit that a high surrogate begins.                                  *)
LEMMA HighUnit ==
  ASSUME NEW d \in Seq(Byte), NEW j \in Nat, HighRead(d, j)
  PROVE  /\ j + 6 <= Len(d) /\ d[j + 1] = Backslash
         /\ StringUnit(d, j) = LowHalf(d, j + 6)
<1>1. EscapeRead(d, j) /\ HexAt(d, j + 2, 4) /\ Hex4(d, j + 2 + 1) \in HighSurrogate
  BY DEF HighRead
<1>2. PICK size \in Nat : size = Len(d)
  OBVIOUS
<1>3. j + 2 + 4 <= size /\ j \in 0 .. size
  BY <1>1, <1>2 DEF HexAt
<1>4. StringUnit(d, j) = UnicodeEscape(d, j + 2)
  BY <1>1, <1>2, <1>3, UnitIs
<1>5. UnicodeEscape(d, j + 2) = LowHalf(d, j + 2 + 4)
  <2>1. j + 2 \in Nat /\ 4 \in 0 .. 4
    OBVIOUS
  <2> QED BY <1>1, <2>1, EscapeIs
<1> QED BY <1>1, <1>2, <1>3, <1>4, <1>5 DEF EscapeRead

LEMMA ReadsSurrogateBackslash ==
  ASSUME NEW s \in ScalarState, NEW d \in Seq(Byte), NEW n \in 0 .. Len(d), NEW j \in 0 .. n,
         s.st = "SurrogateBackslash", Stands(s, d, n, j)
  PROVE  Settles(s, d, n, j) /\ Answers(s, d, n, j)
<1> USE DEF Consumed, Reject, Complete, Delimiter, At, Unicode, Literal,
            Integer, Variant
<1>1. PICK size \in Nat : size = Len(d)
  OBVIOUS
<1>2. /\ n = j + 6 /\ n \in Nat /\ n <= size /\ j \in Nat /\ j \in 0 .. Len(d) /\ j < Len(d)
      /\ HighRead(d, j) /\ Rest(s, d, j) = StringTail(d, j)
  BY <1>1, StringRest, Apart DEF Stands, StringTag
<1>3. d[j + 1] # Quote /\ StringUnit(d, j) = LowHalf(d, n)
  BY <1>2, HighUnit, Apart
<1>4. Settles(s, d, n, j)
  <2>1. n = size => StringUnit(d, j) = More(d)
    BY <1>1, <1>3, LowHalfStarts
  <2>2. n = size => StringTail(d, j) = More(d)
    BY <1>2, <1>3, <2>1, TailMoves DEF More
  <2> QED BY <1>1, <1>2, <2>2 DEF Settles, CanFinish, More
<1>5. ASSUME n < size PROVE Answers(s, d, n, j)
  <2>1. PICK b : b = d[n + 1]
    OBVIOUS
  <2>2. Push(s, b) = PushSurrogateBackslash(s, b)
    BY DEF Push
  <2>3. CASE b = Backslash
    <3>1. Push(s, b) = Consumed(At("SurrogateU"))
      BY <2>2, <2>3 DEF PushSurrogateBackslash
    <3>2. Onward(s, At("SurrogateU"), n, j) = j
      BY DEF Onward
    <3>3. Stands(At("SurrogateU"), d, n + 1, j)
      <4>1. n + 1 = j + 7
        BY <1>2
      <4> QED BY <1>2, <2>1, <2>3, <4>1 DEF Stands
    <3>4. Rest(At("SurrogateU"), d, j) = StringTail(d, j)
      BY StringRest DEF StringTag
    <3> QED BY <1>2, <2>1, <3>1, <3>2, <3>3, <3>4 DEF Answers, GoesOn
  <2>4. CASE b # Backslash
    <3>1. Push(s, b) = Reject(s)
      BY <2>2, <2>4 DEF PushSurrogateBackslash
    <3>2. StringUnit(d, j) = Bad(n)
      BY <1>1, <1>2, <1>3, <1>5, <2>1, <2>4, LowHalfStarts
    <3>3. StringTail(d, j) = Bad(n)
      BY <1>2, <1>3, <3>2, TailMoves DEF Bad
    <3> QED BY <1>1, <1>2, <2>1, <3>1, <3>3 DEF Answers
  <2> QED BY <2>3, <2>4
<1> QED BY <1>1, <1>4, <1>5 DEF Answers

LEMMA ReadsSurrogateU ==
  ASSUME NEW s \in ScalarState, NEW d \in Seq(Byte), NEW n \in 0 .. Len(d), NEW j \in 0 .. n,
         s.st = "SurrogateU", Stands(s, d, n, j)
  PROVE  Settles(s, d, n, j) /\ Answers(s, d, n, j)
<1> USE DEF Consumed, Reject, Complete, Delimiter, At, Unicode, Literal,
            Integer, Variant
<1>1. PICK size \in Nat : size = Len(d)
  OBVIOUS
<1>2. /\ n = j + 7 /\ n \in Nat /\ n <= size /\ j \in Nat /\ j \in 0 .. Len(d) /\ j < Len(d)
      /\ HighRead(d, j) /\ d[j + 7] = Backslash /\ Rest(s, d, j) = StringTail(d, j)
  BY <1>1, StringRest DEF Stands, StringTag
<1>3. PICK i \in 0 .. Len(d) : i = j + 6
  BY <1>1, <1>2
<1>4. /\ d[j + 1] # Quote /\ StringUnit(d, j) = LowHalf(d, i)
      /\ i + 1 = n /\ i + 2 = n + 1 /\ d[i + 1] = Backslash
  BY <1>2, <1>3, HighUnit, Apart
<1>5. Settles(s, d, n, j)
  <2>1. n = size => StringUnit(d, j) = More(d)
    BY <1>1, <1>4, LowHalfStarts
  <2>2. n = size => StringTail(d, j) = More(d)
    BY <1>2, <1>4, <2>1, TailMoves DEF More
  <2> QED BY <1>1, <1>2, <2>2 DEF Settles, CanFinish, More
<1>6. ASSUME n < size PROVE Answers(s, d, n, j)
  <2>1. PICK b : b = d[n + 1]
    OBVIOUS
  <2>2. Push(s, b) = PushSurrogateU(s, b)
    BY DEF Push
  <2>3. CASE b = LowerU
    <3>1. Push(s, b) = Consumed(Unicode(0, 4, TRUE))
      BY <2>2, <2>3 DEF PushSurrogateU
    <3>2. Onward(s, Unicode(0, 4, TRUE), n, j) = j
      BY DEF Onward
    <3>3. Stands(Unicode(0, 4, TRUE), d, n + 1, j)
      <4>1. EscapeRead(d, i)
        <5>1. i + 2 <= size /\ d[i + 2] = LowerU
          <6>1. i + 2 <= size
            BY <1>1, <1>2, <1>4, <1>6
          <6>2. d[i + 2] = d[n + 1]
            BY <1>4
          <6> QED BY <2>1, <2>3, <6>1, <6>2
        <5> QED BY <1>1, <1>4, <5>1 DEF EscapeRead
      <4>2. HexAt(d, i + 2, 0) /\ Partial(d, i + 2, 0) = 0
        BY <1>1, <1>2, <1>4, <1>6 DEF HexAt, Partial
      <4>3. n + 1 = i + 6 - 4 /\ 4 - 4 = 0
        BY <1>2, <1>3
      <4>4. HexRead(Unicode(0, 4, TRUE), d, n + 1, j + 6)
        BY <1>3, <4>1, <4>2, <4>3 DEF HexRead
      <4> QED BY <1>2, <4>4 DEF Stands
    <3>4. Rest(Unicode(0, 4, TRUE), d, j) = StringTail(d, j)
      BY StringRest DEF StringTag
    <3> QED BY <1>2, <2>1, <3>1, <3>2, <3>3, <3>4 DEF Answers, GoesOn
  <2>4. CASE b # LowerU
    <3>1. Push(s, b) = Reject(s)
      BY <2>2, <2>4 DEF PushSurrogateU
    <3>2. StringUnit(d, j) = Bad(n)
      BY <1>1, <1>4, <1>6, <2>1, <2>4, LowHalfStarts
    <3>3. StringTail(d, j) = Bad(n)
      BY <1>2, <1>4, <3>2, TailMoves DEF Bad
    <3> QED BY <1>1, <1>2, <2>1, <3>1, <3>3 DEF Answers
  <2> QED BY <2>3, <2>4
<1> QED BY <1>1, <1>5, <1>6 DEF Answers

(* The accumulator after another digit.                                    *)
LEMMA NibbleTyped == \A b \in HexDigits : HexValue(b) \in 0 .. 15
  BY DEF HexValue, HexDigits, Digits

LEMMA Wraps ==
  ASSUME NEW k \in Nat, NEW u \in Nat, u < k
  PROVE  u % k = u
  OBVIOUS

Wide == 65536

LEMMA ShiftIs ==
  ASSUME NEW v \in Nat, NEW b, NEW h \in Nat, h = HexValue(b), v * 16 + h < Wide
  PROVE  Shift(v, b) = v * 16 + h
<1>1. Shift(v, b) = (v * 16 + h) % Wide
  BY DEF Shift, Wide
<1>2. Wide \in Nat
  BY DEF Wide
<1>3. PICK u \in Nat : u = v * 16 + h
  OBVIOUS
<1>4. u < Wide
  BY <1>3
<1>5. u % Wide = u
  BY <1>2, <1>4, Wraps
<1> QED BY <1>1, <1>3, <1>5

LEMMA FourFit ==
  ASSUME NEW h \in 0 .. 15, NEW g \in 0 .. 15, NEW f \in 0 .. 15, NEW e \in 0 .. 15
  PROVE  (h * 256 + g * 16 + f) * 16 + e < Wide
<1>1. (h * 256 + g * 16 + f) * 16 + e <= 65535
  BY SMTT(30)
<1>2. PICK u \in Nat : u = (h * 256 + g * 16 + f) * 16 + e
  OBVIOUS
<1> QED BY <1>1, <1>2, SMTT(30) DEF Wide

LEMMA PartialIs ==
  ASSUME NEW d \in Seq(Byte), NEW i \in Nat, NEW m \in 0 .. 3, HexAt(d, i, m),
         d[i + m + 1] \in HexDigits
  PROVE  /\ m < 3 => Shift(Partial(d, i, m), d[i + m + 1]) = Partial(d, i, m + 1)
         /\ m = 3 => Shift(Partial(d, i, m), d[i + m + 1]) = Hex4(d, i + 1)
<1>1. \A k \in 1 .. m : d[i + k] \in HexDigits
  <2> TAKE k \in 1 .. m
  <2>1. i + k \in i + 1 .. i + m
    OBVIOUS
  <2> QED BY <2>1 DEF HexAt
<1>2. /\ Partial(d, i, 0) = 0 /\ Partial(d, i, 1) = HexValue(d[i + 1])
      /\ Partial(d, i, 2) = HexValue(d[i + 1]) * 16 + HexValue(d[i + 2])
      /\ Partial(d, i, 3) = HexValue(d[i + 1]) * 256 + HexValue(d[i + 2]) * 16 + HexValue(d[i + 3])
  BY DEF Partial
<1>3. /\ i + 0 + 1 = i + 1 /\ i + 1 + 1 = i + 2 /\ i + 2 + 1 = i + 3 /\ i + 3 + 1 = i + 4
      /\ i + 1 + 2 = i + 3 /\ i + 1 + 3 = i + 4
  OBVIOUS
<1>4. PICK b : b = d[i + m + 1] /\ b \in HexDigits
  OBVIOUS
<1>5. PICK e \in 0 .. 15 : e = HexValue(b)
  BY <1>4, NibbleTyped
<1>6. ASSUME NEW v \in Nat, v * 16 + e < Wide PROVE Shift(v, b) = v * 16 + e
  <2>1. e \in Nat
    OBVIOUS
  <2> QED BY <1>5, <1>6, <2>1, ShiftIs
<1>7. CASE m = 0
  <2>1. Partial(d, i, 0) = 0 /\ Partial(d, i, 1) = e
    BY <1>2, <1>3, <1>4, <1>5, <1>7
  <2>2. 0 \in Nat /\ 0 * 16 + e = e
    OBVIOUS
  <2>3. Shift(0, b) = e
    <3>1. (0 * 256 + 0 * 16 + 0) * 16 + e < Wide
      <4>1. 0 \in 0 .. 15
        OBVIOUS
      <4> QED BY ZenonT(40), <4>1, FourFit
    <3>2. 0 * 16 + e < Wide
      BY <3>1
    <3> QED BY <1>6, <2>2, <3>2
  <2>4. 0 + 1 = 1
    OBVIOUS
  <2> QED BY <1>4, <1>7, <2>1, <2>3, <2>4
<1>8. CASE m = 1
  <2>1. PICK h \in 0 .. 15 : h = HexValue(d[i + 1])
    BY <1>1, <1>8, NibbleTyped
  <2>2. Partial(d, i, 1) = h /\ Partial(d, i, 2) = h * 16 + e
    BY <1>2, <1>3, <1>4, <1>5, <1>8, <2>1
  <2>4. Shift(h, b) = h * 16 + e
    <3>1. (0 * 256 + 0 * 16 + h) * 16 + e < Wide
      <4>1. 0 \in 0 .. 15
        OBVIOUS
      <4> QED BY ZenonT(40), <4>1, FourFit
    <3>2. h * 16 + e < Wide /\ h \in Nat
      BY <3>1
    <3> QED BY <1>6, <3>2
  <2>5. 1 + 1 = 2
    OBVIOUS
  <2>6. Partial(d, i, m) = h /\ Partial(d, i, m + 1) = h * 16 + e /\ m # 3
    BY <1>8, <2>2, <2>5
  <2> QED BY <1>4, <2>4, <2>6
<1>9. CASE m = 2
  <2>1. PICK h \in 0 .. 15, g \in 0 .. 15 : h = HexValue(d[i + 1]) /\ g = HexValue(d[i + 2])
    <3>1. d[i + 1] \in HexDigits /\ d[i + 2] \in HexDigits
      BY <1>1, <1>9
    <3>2. HexValue(d[i + 1]) \in 0 .. 15 /\ HexValue(d[i + 2]) \in 0 .. 15
      BY <3>1, NibbleTyped
    <3> QED BY <3>2
  <2>2. Partial(d, i, 2) = h * 16 + g /\ Partial(d, i, 3) = h * 256 + g * 16 + e
    BY <1>2, <1>3, <1>4, <1>5, <1>9, <2>1
  <2>3. PICK v : v = h * 16 + g
    OBVIOUS
  <2>4. v = 0 * 256 + h * 16 + g /\ v * 16 + e = h * 256 + g * 16 + e
    BY <2>3
  <2>5. Shift(v, b) = v * 16 + e
    <3>1. (0 * 256 + h * 16 + g) * 16 + e < Wide
      <4>1. 0 \in 0 .. 15
        OBVIOUS
      <4> QED BY ZenonT(40), <4>1, FourFit
    <3>2. v * 16 + e < Wide /\ v \in Nat
      BY <2>4, <3>1
    <3> QED BY <1>6, <3>2
  <2>6. 2 + 1 = 3
    OBVIOUS
  <2>7. Partial(d, i, m) = v /\ Partial(d, i, m + 1) = v * 16 + e /\ m # 3
    BY <1>9, <2>2, <2>3, <2>4, <2>6
  <2> QED BY <1>4, <2>5, <2>7
<1>10. CASE m = 3
  <2>1. PICK h \in 0 .. 15, g \in 0 .. 15, f \in 0 .. 15 :
          h = HexValue(d[i + 1]) /\ g = HexValue(d[i + 2]) /\ f = HexValue(d[i + 3])
    <3>1. d[i + 1] \in HexDigits /\ d[i + 2] \in HexDigits /\ d[i + 3] \in HexDigits
      BY <1>1, <1>10
    <3>2. /\ HexValue(d[i + 1]) \in 0 .. 15 /\ HexValue(d[i + 2]) \in 0 .. 15
          /\ HexValue(d[i + 3]) \in 0 .. 15
      BY <3>1, NibbleTyped
    <3> QED BY <3>2
  <2>2. PICK v : v = h * 256 + g * 16 + f
    OBVIOUS
  <2>3. Partial(d, i, 3) = v
    BY <1>2, <2>1, <2>2
  <2>4. v * 16 + e = h * 4096 + g * 256 + f * 16 + e
    BY <2>2
  <2>5. Hex4(d, i + 1) = h * 4096 + g * 256 + f * 16 + e
    <3>1. Hex4(d, i + 1) = HexValue(d[i + 1]) * 4096 + HexValue(d[i + 2]) * 256
                           + HexValue(d[i + 3]) * 16 + HexValue(d[i + 4])
      BY <1>3 DEF Hex4
    <3> QED BY <1>3, <1>4, <1>5, <1>10, <2>1, <3>1
  <2>6. Shift(v, b) = v * 16 + e
    <3>1. (h * 256 + g * 16 + f) * 16 + e < Wide
      BY ZenonT(40), FourFit
    <3>2. v * 16 + e < Wide /\ v \in Nat
      BY <2>2, <3>1
    <3> QED BY <1>6, <3>2
  <2>7. Partial(d, i, m) = v /\ ~(m < 3)
    BY <1>10, <2>3
  <2> QED BY <1>4, <2>4, <2>5, <2>6, <2>7
<1> QED BY <1>7, <1>8, <1>9, <1>10

(* What the unit answers whose escape at i is being read, of m digits.     *)
LEMMA EscapeUnit ==
  ASSUME NEW s \in ScalarState, NEW d \in Seq(Byte), NEW n \in 0 .. Len(d), NEW j \in 0 .. n,
         s.st = "Unicode", Stands(s, d, n, j)
  PROVE  \E i \in 0 .. Len(d), m \in 0 .. 3 :
           /\ HexRead(s, d, n, i) /\ m = 4 - s.n /\ n = i + 2 + m /\ HexAt(d, i + 2, m)
           /\ s.value = Partial(d, i + 2, m)
           /\ j < Len(d) /\ d[j + 1] = Backslash /\ EscapeRead(d, i)
           /\ ~s.low => i = j /\ StringUnit(d, j) = UnicodeEscape(d, i + 2)
           /\ s.low => i = j + 6 /\ HighRead(d, j) /\ StringUnit(d, j) = LowHalf(d, i)
<1>1. PICK size \in Nat : size = Len(d)
  OBVIOUS
<1>2. s.n \in 1 .. 4 /\ s.low \in BOOLEAN
  BY StateFields
<1>3. PICK m \in 0 .. 3 : m = 4 - s.n /\ \A i \in Nat : i + 6 - s.n = i + 2 + m
  <2>1. 4 - s.n \in 0 .. 3 /\ \A i \in Nat : i + 6 - s.n = i + 2 + (4 - s.n)
    BY <1>2
  <2> QED BY <2>1
<1>4. CASE ~s.low
  <2>1. HexRead(s, d, n, j) /\ EscapeRead(d, j)
    BY <1>4 DEF Stands, HexRead
  <2>2. j \in 0 .. Len(d) /\ j \in Nat /\ j < Len(d) /\ d[j + 1] = Backslash
    BY <1>1, <2>1 DEF EscapeRead
  <2>3. StringUnit(d, j) = UnicodeEscape(d, j + 2)
    BY <2>1, <2>2, UnitIs
  <2> QED BY <1>3, <1>4, <2>1, <2>2, <2>3 DEF HexRead
<1>5. CASE s.low
  <2>1. HighRead(d, j) /\ HexRead(s, d, n, j + 6) /\ EscapeRead(d, j + 6)
    BY <1>5 DEF Stands, HexRead
  <2>2. j \in Nat
    BY <1>1
  <2>3. j + 6 <= Len(d) /\ d[j + 1] = Backslash /\ StringUnit(d, j) = LowHalf(d, j + 6)
    BY <2>1, <2>2, HighUnit
  <2>4. j + 6 \in 0 .. Len(d) /\ j < Len(d)
    BY <1>1, <2>2, <2>3
  <2>5. PICK i \in 0 .. Len(d) : i = j + 6 /\ i \in Nat
    BY <2>2, <2>4
  <2> QED BY <1>3, <1>5, <2>1, <2>3, <2>4, <2>5 DEF HexRead
<1> QED BY <1>2, <1>4, <1>5

(* One more hex digit.                                                     *)
LEMMA HexGrows ==
  ASSUME NEW d \in Seq(Byte), NEW i \in Nat, NEW m \in 0 .. 3, HexAt(d, i, m),
         i + m < Len(d), d[i + m + 1] \in HexDigits
  PROVE  HexAt(d, i, m + 1)
<1>1. PICK size \in Nat : size = Len(d)
  OBVIOUS
<1>2. i + (m + 1) <= size
  BY <1>1
<1>3. ASSUME NEW k \in i + 1 .. i + (m + 1) PROVE d[k] \in HexDigits
  <2>1. k \in i + 1 .. i + m \/ k = i + m + 1
    OBVIOUS
  <2> QED BY <2>1 DEF HexAt
<1> QED BY <1>1, <1>2, <1>3 DEF HexAt

LEMMA ReadsUnicode ==
  ASSUME NEW s \in ScalarState, NEW d \in Seq(Byte), NEW n \in 0 .. Len(d), NEW j \in 0 .. n,
         s.st = "Unicode", Stands(s, d, n, j)
  PROVE  Settles(s, d, n, j) /\ Answers(s, d, n, j)
<1>1. PICK size \in Nat : size = Len(d)
  OBVIOUS
<1>2. PICK i, m :
        /\ i \in 0 .. Len(d) /\ m \in 0 .. 3
        /\ HexRead(s, d, n, i) /\ m = 4 - s.n /\ n = i + 2 + m /\ HexAt(d, i + 2, m)
        /\ s.value = Partial(d, i + 2, m)
        /\ j < Len(d) /\ d[j + 1] = Backslash /\ EscapeRead(d, i)
        /\ ~s.low => i = j /\ StringUnit(d, j) = UnicodeEscape(d, i + 2)
        /\ s.low => i = j + 6 /\ HighRead(d, j) /\ StringUnit(d, j) = LowHalf(d, i)
  BY SMTT(30), EscapeUnit
<1>3. /\ i \in Nat /\ n \in Nat /\ j \in Nat /\ n <= size /\ j \in 0 .. Len(d)
      /\ i + 2 \in Nat /\ m \in 0 .. 4 /\ m < 4 /\ d[j + 1] # Quote
      /\ i + 2 + m + 1 = n + 1 /\ i + 2 + 1 = i + 3
  BY <1>1, <1>2, Apart
<1>4. Rest(s, d, j) = StringTail(d, j)
  BY StringRest DEF StringTag
<1>5. s.n \in 1 .. 4 /\ s.low \in BOOLEAN
  BY StateFields
<1>6. n = size => StringUnit(d, j) = More(d)
  <2>1. CASE ~s.low
    <3>1. i + 2 + m = Len(d) => UnicodeEscape(d, i + 2) = More(d)
      BY <1>2, <1>3, EscapeIs
    <3> QED BY <1>1, <1>2, <2>1, <3>1
  <2>2. CASE s.low
    <3>1. i + 2 + m = Len(d) => LowHalf(d, i) = More(d)
      BY <1>2, <1>3, LowHalfIs
    <3> QED BY <1>1, <1>2, <2>2, <3>1
  <2> QED BY <2>1, <2>2
<1>7. n < size /\ d[n + 1] \notin HexDigits => StringUnit(d, j) = Bad(n)
  <2>1. CASE ~s.low
    <3>1. i + 2 + m < Len(d) /\ d[i + 2 + m + 1] \notin HexDigits
             => UnicodeEscape(d, i + 2) = Bad(i + 2 + m)
      BY <1>2, <1>3, EscapeIs
    <3> QED BY <1>1, <1>2, <1>3, <2>1, <3>1
  <2>2. CASE s.low
    <3>1. i + 2 + m < Len(d) /\ d[i + 2 + m + 1] \notin HexDigits
             => LowHalf(d, i) = Bad(i + 2 + m)
      BY <1>2, <1>3, LowHalfIs
    <3> QED BY <1>1, <1>2, <1>3, <2>2, <3>1
  <2> QED BY <2>1, <2>2
<1>8. Settles(s, d, n, j)
  <2>1. n = size => StringTail(d, j) = More(d)
    BY <1>2, <1>3, <1>6, TailMoves DEF More
  <2> QED BY <1>1, <1>4, <2>1 DEF Settles, CanFinish, More
<1>9. ASSUME n < size PROVE Answers(s, d, n, j)
  <2>1. PICK b : b = d[n + 1]
    OBVIOUS
  <2>2. Push(s, b) = PushUnicode(s, b)
    BY DEF Push
  <2>3. CASE b \notin HexDigits
    <3>1. Push(s, b) = Reject(s)
      BY <2>2, <2>3 DEF PushUnicode
    <3>2. StringTail(d, j) = Bad(n)
      BY <1>2, <1>3, <1>7, <1>9, <2>1, <2>3, TailMoves DEF Bad
    <3> QED BY <1>1, <1>4, <2>1, <3>1, <3>2 DEF Answers, Reject
  <2>4. CASE b \in HexDigits
    <3>1. HexAt(d, i + 2, m + 1)
      BY <1>1, <1>2, <1>3, <1>9, <2>1, <2>4, HexGrows
    <3>2. /\ m < 3 => Shift(s.value, b) = Partial(d, i + 2, m + 1)
          /\ m = 3 => Shift(s.value, b) = Hex4(d, i + 3)
      BY SMTT(30), <1>2, <1>3, <2>1, <2>4, PartialIs
    <3>3. CASE s.n > 1
      <4>1. PICK next : next = Unicode(Shift(s.value, b), s.n - 1, s.low)
        OBVIOUS
      <4>2. Push(s, b) = Consumed(next)
        BY <2>2, <2>4, <3>3, <4>1 DEF PushUnicode
      <4>3. /\ next.st = "Unicode" /\ next.n = s.n - 1 /\ next.low = s.low
            /\ next.value = Shift(s.value, b)
        BY <4>1 DEF Unicode, Variant
      <4>4. m < 3 /\ 4 - next.n = m + 1 /\ n + 1 = i + 6 - next.n
        <5>1. PICK r \in 1 .. 4 : r = s.n
          BY <1>5
        <5>2. m = 4 - r /\ r > 1 /\ n = i + 2 + m /\ next.n = r - 1
          BY <1>2, <3>3, <4>3, <5>1
        <5>3. m < 3 /\ 4 - (r - 1) = m + 1 /\ n + 1 = i + 6 - (r - 1)
          BY <1>3, <5>2
        <5> QED BY <5>2, <5>3
      <4>5. HexRead(next, d, n + 1, i)
        BY <1>2, <3>1, <3>2, <4>3, <4>4 DEF HexRead
      <4>6. Stands(next, d, n + 1, j)
        BY <1>2, <1>5, <4>3, <4>5 DEF Stands
      <4>7. Onward(s, next, n, j) = j
        BY <4>3 DEF Onward
      <4>8. Rest(next, d, j) = StringTail(d, j)
        BY <4>3, StringRest DEF StringTag
      <4> QED BY <1>4, <2>1, <4>2, <4>6, <4>7, <4>8 DEF Answers, GoesOn, Consumed
    <3>4. CASE s.n = 1
      <4>1. m = 3 /\ m + 1 = 4 /\ i + 2 + 4 = n + 1 /\ i + 5 = n /\ i + 6 = n + 1
        BY <1>2, <1>3, <3>4
      <4>2. PICK v : v = Hex4(d, i + 3)
        OBVIOUS
      <4>3. Push(s, b) = UnicodeEnd(s, v)
        BY <2>2, <2>4, <3>2, <3>4, <4>1, <4>2 DEF PushUnicode
      <4>4. HexAt(d, i + 2, 4)
        BY <3>1, <4>1
      <4>5. ASSUME StringUnit(d, j) = Bad(n), Push(s, b) = Reject(s) PROVE Answers(s, d, n, j)
        <5>1. StringTail(d, j) = Bad(n)
          BY <1>2, <1>3, <4>5, TailMoves DEF Bad
        <5> QED BY <1>4, <2>1, <4>5, <5>1 DEF Answers, Reject
      <4>6. ASSUME StringUnit(d, j) = Ok(n + 1), Push(s, b) = Consumed(At("String"))
            PROVE  Answers(s, d, n, j)
        <5> USE DEF At, Variant
        <5>1. StringTail(d, j) = StringTail(d, n + 1)
          BY <1>2, <1>3, <4>6, TailMoves
        <5>2. Onward(s, At("String"), n, j) = n + 1
          BY DEF Onward
        <5>3. Stands(At("String"), d, n + 1, n + 1)
          BY DEF Stands
        <5>4. Rest(At("String"), d, n + 1) = StringTail(d, n + 1)
          BY StringRest DEF StringTag
        <5> QED BY <1>4, <2>1, <4>6, <5>1, <5>2, <5>3, <5>4 DEF Answers, GoesOn, Consumed
      <4>7. CASE ~s.low
        <5>1. /\ v \in LowSurrogate => StringUnit(d, j) = Bad(n)
              /\ v \notin HighSurrogate \cup LowSurrogate => StringUnit(d, j) = Ok(n + 1)
          <6>1. /\ v \in LowSurrogate => UnicodeEscape(d, i + 2) = Bad(i + 2 + 3)
                /\ v \notin HighSurrogate \cup LowSurrogate
                     => UnicodeEscape(d, i + 2) = Ok(i + 2 + 4)
            <7>1. 4 \in 0 .. 4 /\ v = Hex4(d, i + 2 + 1)
              BY <1>3, <4>2
            <7> QED BY <1>3, <4>4, <7>1, EscapeIs
          <6>2. i + 2 + 3 = n
            BY <1>3, <4>1
          <6> QED BY <1>2, <4>1, <4>7, <6>1, <6>2
        <5>2. CASE v \in HighSurrogate
          <6> USE DEF At, Variant
          <6>1. Push(s, b) = Consumed(At("SurrogateBackslash"))
            BY <4>3, <4>7, <5>2, HighIsNotLow DEF UnicodeEnd
          <6>2. Onward(s, At("SurrogateBackslash"), n, j) = j
            BY DEF Onward
          <6>3. HighRead(d, j) /\ n + 1 = j + 6
            BY <1>2, <4>1, <4>2, <4>4, <4>7, <5>2 DEF HighRead
          <6>4. Stands(At("SurrogateBackslash"), d, n + 1, j)
            BY <6>3 DEF Stands
          <6>5. Rest(At("SurrogateBackslash"), d, j) = StringTail(d, j)
            BY StringRest DEF StringTag
          <6> QED BY <1>4, <2>1, <6>1, <6>2, <6>4, <6>5 DEF Answers, GoesOn, Consumed
        <5>3. CASE v \in LowSurrogate
          <6>1. Push(s, b) = Reject(s)
            BY <4>3, <4>7, <5>3, HighIsNotLow DEF UnicodeEnd
          <6> QED BY <4>5, <5>1, <5>3, <6>1
        <5>4. CASE v \notin HighSurrogate \cup LowSurrogate
          <6>1. Push(s, b) = Consumed(At("String"))
            BY <4>3, <4>7, <5>4 DEF UnicodeEnd
          <6> QED BY <4>6, <5>1, <5>4, <6>1
        <5> QED BY <5>2, <5>3, <5>4
      <4>8. CASE s.low
        <5>1. /\ v \in LowSurrogate => StringUnit(d, j) = Ok(n + 1)
              /\ v \notin LowSurrogate => StringUnit(d, j) = Bad(n)
          <6>1. /\ v \in LowSurrogate => LowHalf(d, i) = Ok(i + 6)
                /\ v \notin LowSurrogate => LowHalf(d, i) = Bad(i + 5)
            <7>1. 4 \in 0 .. 4
              OBVIOUS
            <7> QED BY <1>2, <1>3, <4>2, <4>4, <7>1, LowHalfIs
          <6> QED BY <1>2, <4>1, <4>8, <6>1
        <5>2. CASE v \in LowSurrogate
          <6>1. Push(s, b) = Consumed(At("String"))
            BY <4>3, <4>8, <5>2 DEF UnicodeEnd
          <6> QED BY <4>6, <5>1, <5>2, <6>1
        <5>3. CASE v \notin LowSurrogate
          <6>1. Push(s, b) = Reject(s)
            BY <4>3, <4>8, <5>3 DEF UnicodeEnd
          <6> QED BY <4>5, <5>1, <5>3, <6>1
        <5> QED BY <5>2, <5>3
      <4> QED BY <4>7, <4>8
    <3> QED BY <1>5, <3>3, <3>4
  <2> QED BY <2>3, <2>4
<1> QED BY <1>1, <1>8, <1>9 DEF Answers

(* The scan of a literal.                                                  *)
LEMMA WordTyped == \A w \in LiteralName : Word[w] \in Seq(Byte)
<1>1. <<116, 114, 117, 101>> \in Seq(Byte) /\ <<102, 97, 108, 115, 101>> \in Seq(Byte)
  BY DEF Byte
<1>2. <<110, 117, 108, 108>> \in Seq(Byte) /\ <<78, 97, 78>> \in Seq(Byte)
  BY DEF Byte
<1>3. <<73, 110, 102, 105, 110, 105, 116, 121>> \in Seq(Byte)
  BY DEF Byte
<1>4. /\ Word["true"] = <<116, 114, 117, 101>> /\ Word["false"] = <<102, 97, 108, 115, 101>>
      /\ Word["null"] = <<110, 117, 108, 108>> /\ Word["NaN"] = <<78, 97, 78>>
      /\ Word["Infinity"] = <<73, 110, 102, 105, 110, 105, 116, 121>>
  BY DEF Word
<1>5. /\ Word["true"] \in Seq(Byte) /\ Word["false"] \in Seq(Byte)
      /\ Word["null"] \in Seq(Byte) /\ Word["NaN"] \in Seq(Byte)
      /\ Word["Infinity"] \in Seq(Byte)
  BY <1>1, <1>2, <1>3, <1>4
<1> QED BY <1>5, Zenon DEF LiteralName

LEMMA ReadsLiteral ==
  ASSUME NEW s \in ScalarState, NEW d \in Seq(Byte), NEW n \in 0 .. Len(d), NEW j \in 0 .. n,
         s.st = "Literal", Stands(s, d, n, j)
  PROVE  Settles(s, d, n, j) /\ Answers(s, d, n, j)
<1>1. PICK size \in Nat : size = Len(d)
  OBVIOUS
<1>2. PICK w : w = Word[s.expected]
  OBVIOUS
<1>3. PICK long \in Nat : long = Len(w)
  <2>1. Len(w) \in 3 .. 8
    BY <1>2, StateFields, WordLength
  <2> QED BY <2>1
<1>4. PICK m \in 1 .. long - 1 : m = s.n
  BY <1>2, <1>3, StateFields
<1>5. w \in Seq(Byte) /\ s.expected \in LiteralName
  BY <1>2, StateFields, WordTyped
<1>6. n = j + m /\ \A k \in 1 .. m : d[j + k] = w[k]
  BY <1>2, <1>4 DEF Stands
<1>7. /\ n \in Nat /\ j \in Nat /\ n <= size /\ m < long /\ m + 1 <= long
      /\ j + m + 1 = n + 1 /\ j + (m + 1) = n + 1
  BY <1>1, <1>6
<1>8. Rest(s, d, j) = WordEnd(d, j, w)
  BY <1>2 DEF Rest, StringTag
<1>9. /\ n = size => WordEnd(d, j, w) = More(d)
      /\ n < size /\ d[n + 1] # w[m + 1] => WordEnd(d, j, w) = Bad(n)
  <2>1. m \in 0 .. Len(w) /\ j + m <= Len(d)
    BY <1>1, <1>3, <1>6, <1>7
  <2>2. /\ m < Len(w) /\ j + m = Len(d) => WordEnd(d, j, w) = More(d)
        /\ m < Len(w) /\ j + m < Len(d) /\ d[j + m + 1] # w[m + 1]
             => WordEnd(d, j, w) = Bad(j + m)
    BY <1>5, <1>6, <1>7, <2>1, WordIs
  <2> QED BY <1>1, <1>3, <1>6, <1>7, <2>2
<1>10. Settles(s, d, n, j)
  BY <1>1, <1>8, <1>9 DEF Settles, CanFinish, More
<1>11. ASSUME n < size PROVE Answers(s, d, n, j)
  <2>1. PICK b : b = d[n + 1]
    OBVIOUS
  <2>2. Push(s, b) = PushLiteral(s, b)
    BY DEF Push
  <2>3. CASE b # w[m + 1]
    <3>1. Push(s, b) = Reject(s)
      BY <1>2, <1>4, <2>2, <2>3 DEF PushLiteral
    <3> QED BY <1>8, <1>9, <1>11, <2>1, <2>3, <3>1 DEF Answers, Reject
  <2>4. CASE b = w[m + 1]
    <3>1. \A k \in 1 .. m + 1 : d[j + k] = w[k]
      <4> TAKE k \in 1 .. m + 1
      <4>1. k \in 1 .. m \/ k = m + 1
        OBVIOUS
      <4>2. d[j + (m + 1)] = w[m + 1]
        BY <1>7, <2>1, <2>4
      <4> QED BY <1>6, <4>1, <4>2
    <3>2. CASE m + 1 = long
      <4>1. Push(s, b) = Complete
        BY <1>2, <1>3, <1>4, <2>2, <2>4, <3>2 DEF PushLiteral
      <4>2. WordEnd(d, j, w) = Ok(j + (m + 1))
        <5>1. m + 1 \in 0 .. Len(w) /\ j + (m + 1) <= Len(d) /\ m + 1 = Len(w)
          BY <1>1, <1>3, <1>7, <1>11, <3>2
        <5> QED BY <1>5, <1>7, <3>1, <5>1, WordIs
      <4> QED BY <1>7, <1>8, <2>1, <4>1, <4>2 DEF Answers, Complete
    <3>3. CASE m + 1 # long
      <4>1. PICK next : next = Literal(s.expected, m + 1)
        OBVIOUS
      <4>2. Push(s, b) = Consumed(next)
        BY <1>2, <1>3, <1>4, <2>2, <2>4, <3>3, <4>1 DEF PushLiteral
      <4>3. next.st = "Literal" /\ next.n = m + 1 /\ next.expected = s.expected
        BY <4>1 DEF Literal, Variant
      <4>4. Onward(s, next, n, j) = j
        BY <4>3 DEF Onward
      <4>5. Stands(next, d, n + 1, j)
        BY <1>2, <1>7, <3>1, <4>3 DEF Stands
      <4>6. Rest(next, d, j) = WordEnd(d, j, w)
        BY <1>2, <4>3 DEF Rest, StringTag
      <4> QED BY <1>8, <2>1, <4>2, <4>4, <4>5, <4>6 DEF Answers, GoesOn, Consumed
    <3> QED BY <3>2, <3>3
  <2> QED BY <2>3, <2>4
<1> QED BY <1>1, <1>10, <1>11 DEF Answers

-----------------------------------------------------------------------------
(* Numbers.                                                                *)

(* A run of at least one byte.                                             *)
LEMMA SomeIs ==
  ASSUME NEW d \in Seq(Byte), NEW i \in Nat, NEW S
  PROVE  /\ i >= Len(d) => SomeOf(d, i, S) = More(d)
         /\ i < Len(d) /\ d[i + 1] \notin S => SomeOf(d, i, S) = Bad(i)
         /\ \A n \in i + 1 .. Len(d) :
              /\ \A k \in i + 1 .. n : d[k] \in S
              /\ n < Len(d) => d[n + 1] \notin S
              => SomeOf(d, i, S) = Ok(n)
<1>1. SomeOf(d, i, S) = IF One(d, i, S).r = "ok" THEN Ok(RunEnd(d, One(d, i, S).at, S))
                        ELSE One(d, i, S)
  BY DEF SomeOf, Then
<1>2. /\ i >= Len(d) => SomeOf(d, i, S) = More(d)
      /\ i < Len(d) /\ d[i + 1] \notin S => SomeOf(d, i, S) = Bad(i)
  BY <1>1, OneIs DEF More, Bad
<1>3. ASSUME NEW n \in i + 1 .. Len(d), \A k \in i + 1 .. n : d[k] \in S,
             n < Len(d) => d[n + 1] \notin S
      PROVE  SomeOf(d, i, S) = Ok(n)
  <2>1. PICK size \in Nat : size = Len(d)
    OBVIOUS
  <2>2. i + 1 \in i + 1 .. n /\ i < size /\ n \in i + 1 .. size /\ i + 1 \in Nat
    BY <2>1
  <2>3. One(d, i, S) = Ok(i + 1)
    BY <1>3, <2>1, <2>2, OneIs
  <2>4. \A k \in i + 1 + 1 .. n : d[k] \in S
    <3> TAKE k \in i + 1 + 1 .. n
    <3>1. k \in i + 1 .. n
      OBVIOUS
    <3> QED BY <1>3, <3>1
  <2>5. RunEnd(d, i + 1, S) = n
    BY <1>3, <2>2, <2>4, RunIs
  <2> QED BY <1>1, <2>3, <2>5 DEF Ok
<1> QED BY <1>2, <1>3

(* The digits seen go on, or they have ended.                              *)
LEMMA DigitsGrow ==
  ASSUME NEW d, NEW i \in Nat, NEW n \in Nat, i <= n, DigitsFrom(d, i, n), d[n + 1] \in Digits
  PROVE  DigitsFrom(d, i, n + 1)
<1> SUFFICES ASSUME NEW k \in i + 1 .. n + 1 PROVE d[k] \in Digits
  BY DEF DigitsFrom
<1>1. k \in i + 1 .. n \/ k = n + 1
  OBVIOUS
<1> QED BY <1>1 DEF DigitsFrom

(* An exponent, or the end of the number.                                  *)
LEMMA ExponentIs ==
  ASSUME NEW d \in Seq(Byte), NEW i \in Nat, i <= Len(d)
  PROVE  /\ i = Len(d) \/ d[i + 1] \notin {LowerE, UpperE} => ExponentEnd(d, i) = Ok(i)
         /\ i < Len(d) /\ d[i + 1] \in {LowerE, UpperE} =>
              /\ i + 1 < Len(d) /\ d[i + 2] \in {Plus, Minus}
                   => ExponentEnd(d, i) = SomeOf(d, i + 2, Digits)
              /\ ~(i + 1 < Len(d) /\ d[i + 2] \in {Plus, Minus})
                   => ExponentEnd(d, i) = SomeOf(d, i + 1, Digits)
<1>1. PICK size \in Nat : size = Len(d)
  OBVIOUS
<1>2. (AtEnd(d, i) <=> ~(i < size)) /\ (AtEnd(d, i + 1) <=> ~(i + 1 < size))
  BY <1>1 DEF AtEnd
<1>3. i = size => AtEnd(d, i)
  BY <1>2
<1> QED BY <1>1, <1>2, <1>3 DEF ExponentEnd

(* A fraction, or none.                                                    *)
LEMMA FractionIs ==
  ASSUME NEW d \in Seq(Byte), NEW i \in Nat, i <= Len(d)
  PROVE  /\ i = Len(d) \/ d[i + 1] # Dot => FractionEnd(d, i) = ExponentEnd(d, i)
         /\ i < Len(d) /\ d[i + 1] = Dot =>
              /\ \A n : SomeOf(d, i + 1, Digits) = Ok(n)
                          => FractionEnd(d, i) = ExponentEnd(d, n)
              /\ SomeOf(d, i + 1, Digits).r # "ok"
                   => FractionEnd(d, i) = SomeOf(d, i + 1, Digits)
<1>1. PICK size \in Nat : size = Len(d)
  OBVIOUS
<1>2. (AtEnd(d, i) <=> ~(i < size)) /\ (i = size => AtEnd(d, i))
  BY <1>1 DEF AtEnd
<1>3. i < size /\ d[i + 1] = Dot =>
        FractionEnd(d, i) = IF SomeOf(d, i + 1, Digits).r = "ok"
                            THEN ExponentEnd(d, SomeOf(d, i + 1, Digits).at)
                            ELSE SomeOf(d, i + 1, Digits)
  BY <1>2 DEF FractionEnd, Then
<1>4. i = size \/ d[i + 1] # Dot => FractionEnd(d, i) = ExponentEnd(d, i)
  BY <1>1, <1>2 DEF FractionEnd
<1>5. \A n : Ok(n).r = "ok" /\ Ok(n).at = n
  BY DEF Ok
<1>6. PICK some : some = SomeOf(d, i + 1, Digits)
  OBVIOUS
<1> QED BY <1>1, <1>3, <1>4, <1>5, <1>6

(* After an integer: the fraction, the exponent, or the end of the number. *)
LEMMA ReadsAfterInteger ==
  ASSUME NEW s, NEW d \in Seq(Byte), NEW n \in 0 .. Len(d), NEW j \in 0 .. n,
         s.st \in {"Zero", "Integer"}, Rest(s, d, j) = IntegerEnd(d, 0, j),
         n = Len(d) \/ d[n + 1] \notin Digits => IntegerEnd(d, 0, j) = FractionEnd(d, n),
         n < Len(d) /\ d[n + 1] \notin Digits => Push(s, d[n + 1]) = AfterInteger(d[n + 1])
  PROVE  /\ Settles(s, d, n, j)
         /\ d[n + 1] \notin Digits => Answers(s, d, n, j)
<1>1. PICK size \in Nat : size = Len(d)
  OBVIOUS
<1>2. n \in Nat /\ n <= size
  BY <1>1
<1>3. /\ n = size \/ d[n + 1] # Dot => FractionEnd(d, n) = ExponentEnd(d, n)
      /\ n = size \/ d[n + 1] \notin {LowerE, UpperE} => ExponentEnd(d, n) = Ok(n)
  BY <1>1, <1>2, FractionIs, ExponentIs
<1>4. Settles(s, d, n, j)
  BY <1>1, <1>3 DEF Settles, CanFinish
<1>5. ASSUME n < size, d[n + 1] \notin Digits PROVE Answers(s, d, n, j)
  <2> USE DEF At, Variant
  <2>1. PICK b : b = d[n + 1]
    OBVIOUS
  <2>2. Push(s, b) = AfterInteger(b) /\ Rest(s, d, j) = FractionEnd(d, n)
    BY <1>1, <1>5, <2>1
  <2>3. CASE b = Dot
    <3>1. Push(s, b) = Consumed(At("FractionStart"))
      BY <2>2, <2>3, Apart DEF AfterInteger
    <3>2. Onward(s, At("FractionStart"), n, j) = n
      BY DEF Onward
    <3>3. Stands(At("FractionStart"), d, n + 1, n)
      BY <2>1, <2>3 DEF Stands
    <3>4. Rest(At("FractionStart"), d, n) = FractionEnd(d, n)
      BY DEF Rest, StringTag
    <3> QED BY <2>1, <2>2, <3>1, <3>2, <3>3, <3>4 DEF Answers, GoesOn, Consumed
  <2>4. CASE b \in {LowerE, UpperE}
    <3>1. Push(s, b) = Consumed(At("ExponentStart"))
      BY <2>2, <2>4, Apart DEF AfterInteger
    <3>2. Onward(s, At("ExponentStart"), n, j) = n
      BY DEF Onward
    <3>3. Stands(At("ExponentStart"), d, n + 1, n)
      BY <2>1, <2>4 DEF Stands
    <3>4. Rest(At("ExponentStart"), d, n) = ExponentEnd(d, n)
      BY DEF Rest, StringTag
    <3>5. FractionEnd(d, n) = ExponentEnd(d, n)
      BY <1>3, <2>1, <2>4, Apart
    <3> QED BY <2>1, <2>2, <3>1, <3>2, <3>3, <3>4, <3>5 DEF Answers, GoesOn, Consumed
  <2>5. CASE b # Dot /\ b \notin {LowerE, UpperE}
    <3>1. Push(s, b) = Delimiter
      BY <2>2, <2>5 DEF AfterInteger
    <3>2. FractionEnd(d, n) = Ok(n)
      BY <1>3, <2>1, <2>5
    <3> QED BY <2>1, <2>2, <3>1, <3>2 DEF Answers, Delimiter
  <2> QED BY <2>3, <2>4, <2>5
<1> QED BY <1>1, <1>2, <1>4, <1>5 DEF Answers

LEMMA ReadsZero ==
  ASSUME NEW s \in ScalarState, NEW d \in Seq(Byte), NEW n \in 0 .. Len(d), NEW j \in 0 .. n,
         s.st = "Zero", Stands(s, d, n, j)
  PROVE  Settles(s, d, n, j) /\ Answers(s, d, n, j)
<1>1. PICK size \in Nat : size = Len(d)
  OBVIOUS
<1>2. /\ n = j + 1 /\ d[j + 1] = 48 /\ j \in Nat /\ n \in Nat /\ n <= size
      /\ Rest(s, d, j) = IntegerEnd(d, 0, j) /\ 48 \in Digits
  BY <1>1, Apart DEF Stands, Rest, StringTag
<1>3. DigitsFrom(d, j, n)
  BY <1>2 DEF DigitsFrom
<1>4. \A b : Push(s, b) = IF b \in Digits THEN Reject(s) ELSE AfterInteger(b)
  BY DEF Push, PushZero
<1>5. n = size \/ d[n + 1] \notin Digits => IntegerEnd(d, 0, j) = FractionEnd(d, n)
  <2> SUFFICES ASSUME n = size \/ d[n + 1] \notin Digits
               PROVE  IntegerEnd(d, 0, j) = FractionEnd(d, n)
    OBVIOUS
  <2>1. RunEnd(d, j, Digits) = n
    <3>1. n \in j .. Len(d) /\ (n < Len(d) => d[n + 1] \notin Digits)
      BY <1>1, <1>2
    <3>2. \A k \in j + 1 .. n : d[k] \in Digits
      BY <1>3 DEF DigitsFrom
    <3> QED BY <1>2, <3>1, <3>2, RunIs
  <2>2. ~(n > j + 1)
    BY <1>2
  <2> QED BY <1>2, <2>1, <2>2 DEF IntegerEnd
<1>6. Settles(s, d, n, j) /\ (d[n + 1] \notin Digits => Answers(s, d, n, j))
  BY <1>1, <1>2, <1>4, <1>5, ReadsAfterInteger
<1>7. ASSUME n < size, d[n + 1] \in Digits PROVE Answers(s, d, n, j)
  <2>1. Push(s, d[n + 1]) = Reject(s)
    BY <1>4, <1>7
  <2>2. ASSUME n + 1 = size PROVE IntegerEnd(d, 0, j) = Bad(n)
    <3>1. RunEnd(d, j, Digits) = n + 1
      <4>1. n + 1 \in j .. Len(d) /\ ~(n + 1 < Len(d))
        BY <1>1, <1>2, <2>2
      <4>2. \A k \in j + 1 .. n + 1 : d[k] \in Digits
        BY <1>2, <1>3, <1>7, DigitsGrow DEF DigitsFrom
      <4> QED BY <1>2, <4>1, <4>2, RunIs
    <3>2. n + 1 > j + 1
      BY <1>2
    <3> QED BY <1>2, <3>1, <3>2 DEF IntegerEnd
  <2> QED BY <1>1, <1>2, <2>1, <2>2 DEF Answers, Reject
<1> QED BY <1>1, <1>2, <1>6, <1>7 DEF Answers

LEMMA ReadsInteger ==
  ASSUME NEW s \in ScalarState, NEW d \in Seq(Byte), NEW n \in 0 .. Len(d), NEW j \in 0 .. n,
         s.st = "Integer", Stands(s, d, n, j)
  PROVE  Settles(s, d, n, j) /\ Answers(s, d, n, j)
<1>1. PICK size \in Nat : size = Len(d)
  OBVIOUS
<1>2. /\ n = s.n /\ j < n /\ d[j + 1] \in NonZero /\ DigitsFrom(d, j, n)
      /\ j \in Nat /\ n \in Nat /\ n <= size /\ Rest(s, d, j) = IntegerEnd(d, 0, j)
  BY <1>1 DEF Stands, Rest, StringTag
<1>3. PICK cap \in Nat : cap = MaxPrefix /\ n <= cap
  <2>1. MaxPrefix \in Nat /\ n <= MaxPrefix
    BY <1>2, StateFields, PrefixAssumption
  <2> QED BY <2>1
<1>4. d[j + 1] # 48
  BY <1>2, Apart
<1>5. \A k : RunEnd(d, j, Digits) = k =>
         IntegerEnd(d, 0, j) = IF k - 0 > MaxPrefix THEN Bad(0 + MaxPrefix) ELSE FractionEnd(d, k)
  BY <1>4 DEF IntegerEnd
<1>6. \A b : Push(s, b) = PushInteger(s, b)
  BY DEF Push
<1>7. n = size \/ d[n + 1] \notin Digits => IntegerEnd(d, 0, j) = FractionEnd(d, n)
  <2> SUFFICES ASSUME n = size \/ d[n + 1] \notin Digits
               PROVE  IntegerEnd(d, 0, j) = FractionEnd(d, n)
    OBVIOUS
  <2>1. RunEnd(d, j, Digits) = n
    <3>1. n \in j .. Len(d) /\ (n < Len(d) => d[n + 1] \notin Digits)
      BY <1>1, <1>2
    <3>2. \A k \in j + 1 .. n : d[k] \in Digits
      BY <1>2 DEF DigitsFrom
    <3> QED BY <1>2, <3>1, <3>2, RunIs
  <2>2. ~(n - 0 > cap)
    BY <1>2, <1>3
  <2> QED BY <1>3, <1>5, <2>1, <2>2
<1>8. Settles(s, d, n, j) /\ (d[n + 1] \notin Digits => Answers(s, d, n, j))
  <2>1. n < Len(d) /\ d[n + 1] \notin Digits => Push(s, d[n + 1]) = AfterInteger(d[n + 1])
    BY <1>6 DEF PushInteger
  <2> QED BY <1>1, <1>2, <1>7, <2>1, ReadsAfterInteger
<1>9. ASSUME n < size, d[n + 1] \in Digits PROVE Answers(s, d, n, j)
  <2>1. PICK b : b = d[n + 1]
    OBVIOUS
  <2>2. DigitsFrom(d, j, n + 1)
    BY <1>2, <1>9, DigitsGrow
  <2>3. CASE n = cap
    <3>1. Push(s, b) = Reject(s)
      BY <1>2, <1>3, <1>6, <1>9, <2>1, <2>3 DEF PushInteger
    <3>2. ASSUME n + 1 = size PROVE IntegerEnd(d, 0, j) = Bad(n)
      <4>1. RunEnd(d, j, Digits) = n + 1
        <5>1. n + 1 \in j .. Len(d) /\ ~(n + 1 < Len(d))
          BY <1>1, <1>2, <3>2
        <5>2. \A k \in j + 1 .. n + 1 : d[k] \in Digits
          BY <2>2 DEF DigitsFrom
        <5> QED BY <1>2, <5>1, <5>2, RunIs
      <4>2. n + 1 - 0 > cap /\ 0 + cap = n
        BY <1>2, <2>3
      <4> QED BY <1>3, <1>5, <4>1, <4>2
    <3> QED BY <1>1, <1>2, <2>1, <3>1, <3>2 DEF Answers, Reject
  <2>4. CASE n # cap
    <3>1. PICK next : next = Integer(n + 1)
      OBVIOUS
    <3>2. Push(s, b) = Consumed(next)
      BY <1>2, <1>3, <1>6, <1>9, <2>1, <2>4, <3>1 DEF PushInteger
    <3>3. next.st = "Integer" /\ next.n = n + 1
      BY <3>1 DEF Integer, Variant
    <3>4. Onward(s, next, n, j) = j
      BY <3>3 DEF Onward
    <3>5. j < n + 1
      BY <1>2
    <3>6. Stands(next, d, n + 1, j)
      BY <1>2, <2>2, <3>3, <3>5 DEF Stands
    <3>7. Rest(next, d, j) = IntegerEnd(d, 0, j)
      BY <3>3 DEF Rest, StringTag
    <3> QED BY <1>2, <2>1, <3>2, <3>4, <3>6, <3>7 DEF Answers, GoesOn, Consumed
  <2> QED BY <2>3, <2>4
<1> QED BY <1>1, <1>2, <1>8, <1>9 DEF Answers

(* A minus: an infinity or an integer.                                     *)
LEMMA ReadsMinus ==
  ASSUME NEW s \in ScalarState, NEW d \in Seq(Byte), NEW n \in 0 .. Len(d), NEW j \in 0 .. n,
         s.st = "Minus", Stands(s, d, n, j)
  PROVE  Settles(s, d, n, j) /\ Answers(s, d, n, j)
<1>1. PICK size \in Nat : size = Len(d)
  OBVIOUS
<1>2. n = 1 /\ j = 0 /\ d[1] = Minus /\ 1 <= size /\ Rest(s, d, j) = NumberEnd(d, 0)
  BY <1>1 DEF Stands, Rest, StringTag
<1>3. NumberEnd(d, 0) =
        IF 1 < size /\ d[2] = UpperI THEN WordEnd(d, 1, Word.Infinity)
        ELSE IF One(d, 1, Digits).r = "ok" THEN IntegerEnd(d, 0, One(d, 1, Digits).at - 1)
             ELSE One(d, 1, Digits)
  <2>1. AtEnd(d, 0 + 1) <=> ~(1 < size)
    BY <1>1 DEF AtEnd
  <2>2. 0 + 1 = 1 /\ 0 + 2 = 2
    OBVIOUS
  <2>3. NumberEnd(d, 0) =
          IF ~AtEnd(d, 0 + 1) /\ d[0 + 2] = UpperI THEN WordEnd(d, 0 + 1, Word.Infinity)
          ELSE IF One(d, 0 + 1, Digits).r = "ok"
               THEN IntegerEnd(d, 0, One(d, 0 + 1, Digits).at - 1)
               ELSE One(d, 0 + 1, Digits)
    BY <1>2, <2>2 DEF NumberEnd, Then
  <2> QED BY <2>1, <2>2, <2>3
<1>4. /\ 1 = size => One(d, 1, Digits) = More(d)
      /\ 1 < size /\ d[2] \in Digits => One(d, 1, Digits) = Ok(2)
      /\ 1 < size /\ d[2] \notin Digits => One(d, 1, Digits) = Bad(1)
  BY <1>1, OneIs
<1>5. Settles(s, d, n, j)
  <2>1. 1 = size => ~(1 < size)
    OBVIOUS
  <2>2. 1 = size => One(d, 1, Digits).r = "more"
    BY <1>4 DEF More
  <2>3. 1 = size => NumberEnd(d, 0) = One(d, 1, Digits)
    BY <1>3, <2>1, <2>2
  <2> QED BY <1>1, <1>2, <2>2, <2>3 DEF Settles, CanFinish
<1>6. ASSUME 1 < size PROVE Answers(s, d, n, j)
  <2>1. PICK b : b = d[2]
    OBVIOUS
  <2>2. Push(s, b) = PushMinus(s, b)
    BY DEF Push
  <2>3. n + 1 = 2
    BY <1>2
  <2>4. ASSUME b \in Digits PROVE NumberEnd(d, 0) = IntegerEnd(d, 0, 1)
    <3>1. One(d, 1, Digits).r = "ok" /\ One(d, 1, Digits).at = 2 /\ 2 - 1 = 1 /\ b # UpperI
      BY <1>4, <1>6, <2>1, <2>4, Apart DEF Ok
    <3> QED BY <1>3, <2>1, <3>1
  <2>5. CASE b = 48
    <3>1. PICK next : next = At("Zero")
      OBVIOUS
    <3>2. Push(s, b) = Consumed(next) /\ next.st = "Zero"
      BY <2>2, <2>5, <3>1, Apart DEF PushMinus, At, Variant
    <3>3. Onward(s, next, n, j) = 1
      BY <1>2, <3>2 DEF Onward
    <3>4. Stands(next, d, 2, 1)
      <4>1. 1 + 1 = 2
        OBVIOUS
      <4> QED BY <2>1, <2>5, <3>2, <4>1 DEF Stands
    <3>5. Rest(next, d, 1) = IntegerEnd(d, 0, 1)
      BY <3>2 DEF Rest, StringTag
    <3>6. NumberEnd(d, 0) = IntegerEnd(d, 0, 1)
      BY <2>4, <2>5, Apart
    <3> QED BY <1>2, <2>1, <2>3, <3>2, <3>3, <3>4, <3>5, <3>6 DEF Answers, GoesOn, Consumed
  <2>6. CASE b \in NonZero
    <3>1. PICK next : next = Integer(2)
      OBVIOUS
    <3>2. Push(s, b) = Consumed(next) /\ next.st = "Integer" /\ next.n = 2
      BY <2>2, <2>6, <3>1, Apart DEF PushMinus, Integer, Variant
    <3>3. Onward(s, next, n, j) = 1
      BY <1>2, <3>2 DEF Onward
    <3>4. b \in Digits
      BY <2>6, Apart
    <3>5. DigitsFrom(d, 1, 2)
      BY <2>1, <3>4 DEF DigitsFrom
    <3>6. Stands(next, d, 2, 1)
      BY <2>1, <2>6, <3>2, <3>5 DEF Stands
    <3>7. Rest(next, d, 1) = IntegerEnd(d, 0, 1)
      BY <3>2 DEF Rest, StringTag
    <3>8. NumberEnd(d, 0) = IntegerEnd(d, 0, 1)
      BY <2>4, <3>4
    <3> QED BY <1>2, <2>1, <2>3, <3>2, <3>3, <3>6, <3>7, <3>8 DEF Answers, GoesOn, Consumed
  <2>7. CASE b = UpperI
    <3>1. PICK next : next = Literal("Infinity", 1)
      OBVIOUS
    <3>2. next.st = "Literal" /\ next.n = 1 /\ next.expected = "Infinity"
      BY <3>1 DEF Literal, Variant
    <3>3. b # 48 /\ b \notin NonZero
      BY <2>7, Apart
    <3>4. Push(s, b) = Consumed(next)
      BY <2>2, <2>7, <3>1, <3>3 DEF PushMinus
    <3>5. Onward(s, next, n, j) = 1
      BY <1>2, <3>2 DEF Onward
    <3>6. Word["Infinity"][1] = UpperI
      BY DEF Word, UpperI
    <3>7. Stands(next, d, 2, 1)
      <4>1. 1 + 1 = 2 /\ \A k \in 1 .. 1 : k = 1
        OBVIOUS
      <4>2. \A k \in 1 .. 1 : d[1 + k] = Word["Infinity"][k]
        BY <2>1, <2>7, <3>6, <4>1
      <4> QED BY <3>2, <4>1, <4>2 DEF Stands
    <3>8. Rest(next, d, 1) = WordEnd(d, 1, Word["Infinity"])
      BY <3>2 DEF Rest, StringTag
    <3>9. NumberEnd(d, 0) = WordEnd(d, 1, Word["Infinity"])
      BY <1>3, <1>6, <2>1, <2>7
    <3> QED BY <1>2, <2>1, <2>3, <3>2, <3>4, <3>5, <3>7, <3>8, <3>9
            DEF Answers, GoesOn, Consumed
  <2>8. CASE b \notin Digits /\ b # UpperI
    <3>1. Push(s, b) = Reject(s)
      BY <2>2, <2>8, Apart DEF PushMinus
    <3>2. NumberEnd(d, 0) = Bad(n)
      BY <1>2, <1>3, <1>4, <1>6, <2>1, <2>8 DEF Bad
    <3> QED BY <1>2, <2>1, <2>3, <3>1, <3>2 DEF Answers, Reject
  <2> QED BY <2>5, <2>6, <2>7, <2>8, Apart
<1> QED BY <1>1, <1>2, <1>5, <1>6 DEF Answers

(* A dot and the digits after it.                                          *)
LEMMA ReadsFractionStart ==
  ASSUME NEW s \in ScalarState, NEW d \in Seq(Byte), NEW n \in 0 .. Len(d), NEW j \in 0 .. n,
         s.st = "FractionStart", Stands(s, d, n, j)
  PROVE  Settles(s, d, n, j) /\ Answers(s, d, n, j)
<1> USE DEF At, Variant
<1>1. PICK size \in Nat : size = Len(d)
  OBVIOUS
<1>2. /\ n = j + 1 /\ d[j + 1] = Dot /\ j \in Nat /\ n \in Nat /\ n <= size /\ j < size
      /\ Rest(s, d, j) = FractionEnd(d, j)
  BY <1>1 DEF Stands, Rest, StringTag
<1>3. /\ n >= size => SomeOf(d, n, Digits) = More(d)
      /\ n < size /\ d[n + 1] \notin Digits => SomeOf(d, n, Digits) = Bad(n)
  BY <1>1, <1>2, SomeIs
<1>4. SomeOf(d, n, Digits).r # "ok" => FractionEnd(d, j) = SomeOf(d, n, Digits)
  BY <1>1, <1>2, FractionIs
<1>5. Settles(s, d, n, j)
  BY <1>1, <1>2, <1>3, <1>4 DEF Settles, CanFinish, More
<1>6. ASSUME n < size PROVE Answers(s, d, n, j)
  <2>1. PICK b : b = d[n + 1]
    OBVIOUS
  <2>2. Push(s, b) = IF b \in Digits THEN Consumed(At("Fraction")) ELSE Reject(s)
    BY DEF Push, PushRequiredDigit
  <2>3. CASE b \in Digits
    <3>1. DigitsFrom(d, j + 1, n + 1)
      BY <1>2, <2>1, <2>3 DEF DigitsFrom
    <3>2. j + 1 < n + 1
      BY <1>2
    <3>3. Onward(s, At("Fraction"), n, j) = j
      BY DEF Onward
    <3>4. Stands(At("Fraction"), d, n + 1, j)
      BY <1>2, <3>1, <3>2 DEF Stands
    <3>5. Rest(At("Fraction"), d, j) = FractionEnd(d, j)
      BY DEF Rest, StringTag
    <3> QED BY <1>2, <2>1, <2>2, <2>3, <3>3, <3>4, <3>5 DEF Answers, GoesOn, Consumed
  <2>4. CASE b \notin Digits
    <3>1. FractionEnd(d, j) = Bad(n)
      BY <1>3, <1>4, <1>6, <2>1, <2>4 DEF Bad
    <3> QED BY <1>2, <2>1, <2>2, <2>4, <3>1 DEF Answers, Reject
  <2> QED BY <2>3, <2>4
<1> QED BY <1>1, <1>5, <1>6 DEF Answers

LEMMA ReadsFraction ==
  ASSUME NEW s \in ScalarState, NEW d \in Seq(Byte), NEW n \in 0 .. Len(d), NEW j \in 0 .. n,
         s.st = "Fraction", Stands(s, d, n, j)
  PROVE  Settles(s, d, n, j) /\ Answers(s, d, n, j)
<1> USE DEF At, Variant
<1>1. PICK size \in Nat : size = Len(d)
  OBVIOUS
<1>2. /\ j + 1 < n /\ d[j + 1] = Dot /\ DigitsFrom(d, j + 1, n)
      /\ j \in Nat /\ n \in Nat /\ n <= size /\ j < size /\ j + 1 \in Nat
      /\ Rest(s, d, j) = FractionEnd(d, j)
  BY <1>1 DEF Stands, Rest, StringTag
<1>3. n = size \/ d[n + 1] \notin Digits => FractionEnd(d, j) = ExponentEnd(d, n)
  <2> SUFFICES ASSUME n = size \/ d[n + 1] \notin Digits
               PROVE  FractionEnd(d, j) = ExponentEnd(d, n)
    OBVIOUS
  <2>1. n \in j + 1 + 1 .. Len(d) /\ (n < Len(d) => d[n + 1] \notin Digits)
    BY <1>1, <1>2
  <2>2. \A k \in j + 1 + 1 .. n : d[k] \in Digits
    BY <1>2 DEF DigitsFrom
  <2>3. SomeOf(d, j + 1, Digits) = Ok(n)
    BY <1>2, <2>1, <2>2, SomeIs
  <2> QED BY <1>1, <1>2, <2>3, FractionIs
<1>4. n = size \/ d[n + 1] \notin {LowerE, UpperE} => ExponentEnd(d, n) = Ok(n)
  BY <1>1, <1>2, ExponentIs
<1>5. Settles(s, d, n, j)
  BY <1>1, <1>2, <1>3, <1>4 DEF Settles, CanFinish
<1>6. ASSUME n < size PROVE Answers(s, d, n, j)
  <2>1. PICK b : b = d[n + 1]
    OBVIOUS
  <2>2. Push(s, b) = PushFraction(b)
    BY DEF Push
  <2>3. CASE b \in Digits
    <3>1. Push(s, b) = Consumed(At("Fraction"))
      BY <2>2, <2>3, Apart DEF PushFraction
    <3>2. DigitsFrom(d, j + 1, n + 1) /\ j + 1 < n + 1
      BY <1>2, <2>1, <2>3, DigitsGrow
    <3>3. Onward(s, At("Fraction"), n, j) = j
      BY DEF Onward
    <3>4. Stands(At("Fraction"), d, n + 1, j)
      BY <1>2, <3>2 DEF Stands
    <3>5. Rest(At("Fraction"), d, j) = FractionEnd(d, j)
      BY DEF Rest, StringTag
    <3> QED BY <1>2, <2>1, <3>1, <3>3, <3>4, <3>5 DEF Answers, GoesOn, Consumed
  <2>4. CASE b \in {LowerE, UpperE}
    <3>1. Push(s, b) = Consumed(At("ExponentStart")) /\ b \notin Digits
      BY <2>2, <2>4, Apart DEF PushFraction
    <3>2. Onward(s, At("ExponentStart"), n, j) = n
      BY DEF Onward
    <3>3. Stands(At("ExponentStart"), d, n + 1, n)
      BY <2>1, <2>4 DEF Stands
    <3>4. Rest(At("ExponentStart"), d, n) = ExponentEnd(d, n)
      BY DEF Rest, StringTag
    <3>5. FractionEnd(d, j) = ExponentEnd(d, n)
      BY <1>3, <2>1, <3>1
    <3> QED BY <1>2, <2>1, <3>1, <3>2, <3>3, <3>4, <3>5 DEF Answers, GoesOn, Consumed
  <2>5. CASE b \notin Digits /\ b \notin {LowerE, UpperE}
    <3>1. Push(s, b) = Delimiter
      BY <2>2, <2>5 DEF PushFraction
    <3>2. FractionEnd(d, j) = Ok(n)
      BY <1>3, <1>4, <2>1, <2>5
    <3> QED BY <1>2, <2>1, <3>1, <3>2 DEF Answers, Delimiter
  <2> QED BY <2>3, <2>4, <2>5
<1> QED BY <1>1, <1>5, <1>6 DEF Answers

(* An exponent, its sign and its digits.                                   *)
LEMMA ReadsExponentStart ==
  ASSUME NEW s \in ScalarState, NEW d \in Seq(Byte), NEW n \in 0 .. Len(d), NEW j \in 0 .. n,
         s.st = "ExponentStart", Stands(s, d, n, j)
  PROVE  Settles(s, d, n, j) /\ Answers(s, d, n, j)
<1> USE DEF At, Variant
<1>1. PICK size \in Nat : size = Len(d)
  OBVIOUS
<1>2. /\ n = j + 1 /\ d[j + 1] \in {LowerE, UpperE} /\ j \in Nat /\ n \in Nat /\ n <= size
      /\ j < size /\ j + 2 = n + 1 /\ Rest(s, d, j) = ExponentEnd(d, j)
  BY <1>1 DEF Stands, Rest, StringTag
<1>3. ~(n < size /\ d[n + 1] \in {Plus, Minus}) => ExponentEnd(d, j) = SomeOf(d, n, Digits)
  BY <1>1, <1>2, ExponentIs
<1>4. /\ n >= size => SomeOf(d, n, Digits) = More(d)
      /\ n < size /\ d[n + 1] \notin Digits => SomeOf(d, n, Digits) = Bad(n)
  BY <1>1, <1>2, SomeIs
<1>5. Settles(s, d, n, j)
  BY <1>1, <1>2, <1>3, <1>4 DEF Settles, CanFinish, More
<1>6. ASSUME n < size PROVE Answers(s, d, n, j)
  <2>1. PICK b : b = d[n + 1]
    OBVIOUS
  <2>2. Push(s, b) = PushExponentStart(s, b)
    BY DEF Push
  <2>3. CASE b \in {Plus, Minus}
    <3>1. Push(s, b) = Consumed(At("ExponentSign"))
      BY <2>2, <2>3 DEF PushExponentStart
    <3>2. Onward(s, At("ExponentSign"), n, j) = j
      BY DEF Onward
    <3>3. d[j + 2] \in {Plus, Minus} /\ n + 1 = j + 2
      BY <1>2, <2>1, <2>3
    <3>4. Stands(At("ExponentSign"), d, n + 1, j)
      BY <1>2, <3>3 DEF Stands
    <3>5. Rest(At("ExponentSign"), d, j) = ExponentEnd(d, j)
      BY DEF Rest, StringTag
    <3> QED BY <1>2, <2>1, <3>1, <3>2, <3>4, <3>5 DEF Answers, GoesOn, Consumed
  <2>4. CASE b \in Digits
    <3>1. Push(s, b) = Consumed(At("Exponent"))
      BY <2>2, <2>4, Apart DEF PushExponentStart, PushRequiredDigit
    <3>2. Onward(s, At("Exponent"), n, j) = j
      BY DEF Onward
    <3>3. ExponentDigits(d, n + 1, j, n)
      <4>1. DigitsFrom(d, n, n + 1) /\ n < n + 1
        BY <1>2, <2>1, <2>4 DEF DigitsFrom
      <4> QED BY <1>2, <4>1 DEF ExponentDigits
    <3>4. Stands(At("Exponent"), d, n + 1, j)
      BY <1>2, <3>3 DEF Stands
    <3>5. Rest(At("Exponent"), d, j) = ExponentEnd(d, j)
      BY DEF Rest, StringTag
    <3> QED BY <1>2, <2>1, <3>1, <3>2, <3>4, <3>5 DEF Answers, GoesOn, Consumed
  <2>5. CASE b \notin Digits /\ b \notin {Plus, Minus}
    <3>1. Push(s, b) = Reject(s)
      BY <2>2, <2>5 DEF PushExponentStart, PushRequiredDigit
    <3>2. ExponentEnd(d, j) = Bad(n)
      BY <1>3, <1>4, <1>6, <2>1, <2>5
    <3> QED BY <1>2, <2>1, <3>1, <3>2 DEF Answers, Reject
  <2> QED BY <2>3, <2>4, <2>5
<1> QED BY <1>1, <1>5, <1>6 DEF Answers

LEMMA ReadsExponentSign ==
  ASSUME NEW s \in ScalarState, NEW d \in Seq(Byte), NEW n \in 0 .. Len(d), NEW j \in 0 .. n,
         s.st = "ExponentSign", Stands(s, d, n, j)
  PROVE  Settles(s, d, n, j) /\ Answers(s, d, n, j)
<1> USE DEF At, Variant
<1>1. PICK size \in Nat : size = Len(d)
  OBVIOUS
<1>2. /\ n = j + 2 /\ d[j + 1] \in {LowerE, UpperE} /\ d[j + 2] \in {Plus, Minus}
      /\ j \in Nat /\ n \in Nat /\ n <= size /\ j < size /\ j + 1 < size
      /\ Rest(s, d, j) = ExponentEnd(d, j)
  BY <1>1 DEF Stands, Rest, StringTag
<1>3. ExponentEnd(d, j) = SomeOf(d, n, Digits)
  BY <1>1, <1>2, ExponentIs
<1>4. /\ n >= size => SomeOf(d, n, Digits) = More(d)
      /\ n < size /\ d[n + 1] \notin Digits => SomeOf(d, n, Digits) = Bad(n)
  BY <1>1, <1>2, SomeIs
<1>5. Settles(s, d, n, j)
  BY <1>1, <1>2, <1>3, <1>4 DEF Settles, CanFinish, More
<1>6. ASSUME n < size PROVE Answers(s, d, n, j)
  <2>1. PICK b : b = d[n + 1]
    OBVIOUS
  <2>2. Push(s, b) = IF b \in Digits THEN Consumed(At("Exponent")) ELSE Reject(s)
    BY DEF Push, PushRequiredDigit
  <2>3. CASE b \in Digits
    <3>1. Onward(s, At("Exponent"), n, j) = j
      BY DEF Onward
    <3>2. ExponentDigits(d, n + 1, j, n)
      <4>1. DigitsFrom(d, n, n + 1) /\ n < n + 1
        BY <1>2, <2>1, <2>3 DEF DigitsFrom
      <4> QED BY <1>2, <4>1 DEF ExponentDigits
    <3>3. Stands(At("Exponent"), d, n + 1, j)
      BY <1>2, <3>2 DEF Stands
    <3>4. Rest(At("Exponent"), d, j) = ExponentEnd(d, j)
      BY DEF Rest, StringTag
    <3> QED BY <1>2, <2>1, <2>2, <2>3, <3>1, <3>3, <3>4 DEF Answers, GoesOn, Consumed
  <2>4. CASE b \notin Digits
    <3>1. ExponentEnd(d, j) = Bad(n)
      BY <1>3, <1>4, <1>6, <2>1, <2>4
    <3> QED BY <1>2, <2>1, <2>2, <2>4, <3>1 DEF Answers, Reject
  <2> QED BY <2>3, <2>4
<1> QED BY <1>1, <1>5, <1>6 DEF Answers

LEMMA ReadsExponent ==
  ASSUME NEW s \in ScalarState, NEW d \in Seq(Byte), NEW n \in 0 .. Len(d), NEW j \in 0 .. n,
         s.st = "Exponent", Stands(s, d, n, j)
  PROVE  Settles(s, d, n, j) /\ Answers(s, d, n, j)
<1> USE DEF At, Variant
<1>1. PICK size \in Nat : size = Len(d)
  OBVIOUS
<1>2. /\ d[j + 1] \in {LowerE, UpperE} /\ j \in Nat /\ n \in Nat /\ n <= size
      /\ Rest(s, d, j) = ExponentEnd(d, j)
  BY <1>1 DEF Stands, Rest, StringTag
<1>3. PICK m \in Nat : ExponentDigits(d, n, j, m)
  BY DEF Stands
<1>4. /\ m < n /\ DigitsFrom(d, m, n) /\ m + 1 <= n /\ m >= j + 1
      /\ m = j + 1 \/ (m = j + 2 /\ d[j + 2] \in {Plus, Minus})
  BY <1>2, <1>3 DEF ExponentDigits
<1>5. /\ j < size /\ (m = j + 2 => j + 1 < size) /\ m + 1 \in m + 1 .. n
      /\ m = j + 1 => m + 1 = j + 2
  BY <1>1, <1>2, <1>4
<1>6. d[m + 1] \in Digits
  BY <1>4, <1>5 DEF DigitsFrom
<1>7. ExponentEnd(d, j) = SomeOf(d, m, Digits)
  <2>1. CASE m = j + 1
    <3>1. d[j + 2] \notin {Plus, Minus}
      BY <1>5, <1>6, <2>1, Apart
    <3> QED BY <1>1, <1>2, <1>5, <2>1, <3>1, ExponentIs
  <2>2. CASE m = j + 2 /\ d[j + 2] \in {Plus, Minus}
    BY <1>1, <1>2, <1>5, <2>2, ExponentIs
  <2> QED BY <1>4, <2>1, <2>2
<1>8. n = size \/ d[n + 1] \notin Digits => ExponentEnd(d, j) = Ok(n)
  <2> SUFFICES ASSUME n = size \/ d[n + 1] \notin Digits
               PROVE  ExponentEnd(d, j) = Ok(n)
    OBVIOUS
  <2>1. n \in m + 1 .. Len(d) /\ (n < Len(d) => d[n + 1] \notin Digits)
    BY <1>1, <1>2, <1>4
  <2>2. \A k \in m + 1 .. n : d[k] \in Digits
    BY <1>4 DEF DigitsFrom
  <2> QED BY <1>7, <2>1, <2>2, SomeIs
<1>9. Settles(s, d, n, j)
  BY <1>1, <1>2, <1>8 DEF Settles, CanFinish
<1>10. ASSUME n < size PROVE Answers(s, d, n, j)
  <2>1. PICK b : b = d[n + 1]
    OBVIOUS
  <2>2. Push(s, b) = IF b \in Digits THEN Consumed(At("Exponent")) ELSE Delimiter
    BY DEF Push, PushExponent
  <2>3. CASE b \in Digits
    <3>1. Onward(s, At("Exponent"), n, j) = j
      BY DEF Onward
    <3>2. ExponentDigits(d, n + 1, j, m)
      <4>1. DigitsFrom(d, m, n + 1) /\ m < n + 1
        BY <1>2, <1>4, <2>1, <2>3, DigitsGrow
      <4> QED BY <1>4, <4>1 DEF ExponentDigits
    <3>3. Stands(At("Exponent"), d, n + 1, j)
      BY <1>2, <3>2 DEF Stands
    <3>4. Rest(At("Exponent"), d, j) = ExponentEnd(d, j)
      BY DEF Rest, StringTag
    <3> QED BY <1>2, <2>1, <2>2, <2>3, <3>1, <3>3, <3>4 DEF Answers, GoesOn, Consumed
  <2>4. CASE b \notin Digits
    <3>1. ExponentEnd(d, j) = Ok(n)
      BY <1>8, <2>1, <2>4
    <3> QED BY <1>2, <2>1, <2>2, <2>4, <3>1 DEF Answers, Delimiter
  <2> QED BY <2>3, <2>4
<1> QED BY <1>1, <1>9, <1>10 DEF Answers

-----------------------------------------------------------------------------
(* Whatever the state, it stands for the bytes it has read.                *)
LEMMA Reads ==
  ASSUME NEW s \in ScalarState, NEW d \in Seq(Byte), NEW n \in 0 .. Len(d), NEW j \in 0 .. n,
         Stands(s, d, n, j)
  PROVE  Settles(s, d, n, j) /\ Answers(s, d, n, j)
<1>1. CASE s.st \in {"String", "Escape", "Unicode", "SurrogateBackslash", "SurrogateU"}
  BY <1>1, ReadsString, ReadsEscape, ReadsUnicode, ReadsSurrogateBackslash, ReadsSurrogateU
<1>2. CASE s.st \in {"Literal", "Minus", "Zero", "Integer"}
  BY <1>2, ReadsLiteral, ReadsMinus, ReadsZero, ReadsInteger
<1>3. CASE s.st \in {"FractionStart", "Fraction"}
  BY <1>3, ReadsFractionStart, ReadsFraction
<1>4. CASE s.st \in {"ExponentStart", "ExponentSign", "Exponent"}
  BY <1>4, ReadsExponentStart, ReadsExponentSign, ReadsExponent
<1>5. s.st \in Tag /\ s.st # "Done"
  BY StateFields DEF Stands
<1> QED BY <1>1, <1>2, <1>3, <1>4, <1>5 DEF Tag, PlainTag

(* The state a first byte starts stands for that byte.                     *)
First(b) == IF b = Quote THEN 1 ELSE 0

LEMMA LiteralFirst ==
  /\ Word["true"][1] = LowerT /\ Word["false"][1] = LowerF /\ Word["null"][1] = LowerN
  /\ Word["NaN"][1] = UpperN /\ Word["Infinity"][1] = UpperI
  BY DEF Word, LowerT, LowerF, LowerN, UpperN, UpperI

LEMMA LiteralBegins ==
  ASSUME NEW w \in LiteralName, NEW d \in Seq(Byte), Len(d) >= 1, d[1] = Word[w][1]
  PROVE  /\ Stands(Literal(w, 1), d, 1, 0) /\ ScalarEnd(d, 0) = Rest(Literal(w, 1), d, 0)
         /\ Startable(d[1]) /\ Start(d[1]) = Literal(w, 1)
<1>1. \A v \in LiteralName : Word[v][1] = d[1] => v = w
  BY LiteralFirst DEF LiteralName, LowerT, LowerF, LowerN, UpperN, UpperI
<1>2. (CHOOSE v \in LiteralName : Word[v][1] = d[1]) = w
  BY <1>1
<1>3. d[1] # Quote /\ d[1] \notin Digits /\ d[1] # Minus /\ d[1] # 48
  BY SMTT(30), LiteralFirst DEF LiteralName, LowerT, LowerF, LowerN, UpperN, UpperI, Quote, Digits, Minus
<1>4. PICK s : s = Literal(w, 1)
  OBVIOUS
<1>5. s.st = "Literal" /\ s.n = 1 /\ s.expected = w
  BY <1>4 DEF Literal, Variant
<1>6. 0 + 1 = 1 /\ \A k \in 1 .. 1 : k = 1
  OBVIOUS
<1>7. Stands(s, d, 1, 0)
  BY <1>5, <1>6 DEF Stands
<1>8. Rest(s, d, 0) = WordEnd(d, 0, Word[w])
  BY <1>5 DEF Rest, StringTag
<1>9. ScalarEnd(d, 0) = WordEnd(d, 0, Word[w])
  BY <1>2, <1>3, <1>6 DEF ScalarEnd
<1>10. Startable(d[1]) /\ Start(d[1]) = Literal(w, 1)
  BY LiteralFirst DEF Startable, Start, LiteralName, LowerT, LowerF, LowerN, UpperN, UpperI,
                      Quote, Minus
<1> QED BY <1>4, <1>7, <1>8, <1>9, <1>10

LEMMA StringBegins ==
  ASSUME NEW d \in Seq(Byte), Len(d) >= 1, NEW b, b = d[1], b = Quote
  PROVE  /\ Stands(Start(b), d, 1, First(b))
         /\ ScalarEnd(d, 0) = Rest(Start(b), d, First(b))
<1>9. 0 + 1 = 1
  OBVIOUS
<1> USE DEF At, Variant
<1>1. Start(b) = At("String") /\ First(b) = 1
  BY DEF Start, First, Quote, LowerT, LowerF, LowerN, UpperN, UpperI, Minus
<1>2. Stands(At("String"), d, 1, 1) /\ Rest(At("String"), d, 1) = StringTail(d, 1)
  BY DEF Stands, Rest, StringTag
<1>3. b \notin Digits \cup {Minus} /\ ~ \E w \in LiteralName : Word[w][1] = b
  BY LiteralFirst DEF LiteralName, LowerT, LowerF, LowerN, UpperN, UpperI, Quote,
                      Digits, Minus
<1>4. ScalarEnd(d, 0) = StringTail(d, 1)
  BY <1>9, <1>3 DEF ScalarEnd
<1> QED BY <1>1, <1>2, <1>4

LEMMA NumberBegins ==
  ASSUME NEW d \in Seq(Byte), Len(d) >= 1, NEW b, b = d[1], b \in Digits \cup {Minus}
  PROVE  /\ Stands(Start(b), d, 1, First(b))
         /\ ScalarEnd(d, 0) = Rest(Start(b), d, First(b))
<1>9. 0 + 1 = 1
  OBVIOUS
<1> USE DEF At, Integer, Variant
<1>1. b # Quote /\ (~ \E w \in LiteralName : Word[w][1] = b) /\ First(b) = 0
  BY SMTT(30), LiteralFirst DEF LiteralName, LowerT, LowerF, LowerN, UpperN, UpperI, Quote,
                      Digits, Minus, First
<1>2. ScalarEnd(d, 0) = NumberEnd(d, 0)
  BY <1>9, <1>1 DEF ScalarEnd
<1>3. CASE b = Minus
  <2>1. Start(b) = At("Minus")
    BY <1>3 DEF Start, Quote, LowerT, LowerF, LowerN, UpperN, UpperI, Minus
  <2>2. Stands(At("Minus"), d, 1, 0) /\ Rest(At("Minus"), d, 0) = NumberEnd(d, 0)
    BY <1>3 DEF Stands, Rest, StringTag
  <2> QED BY <1>1, <1>2, <2>1, <2>2
<1>4. CASE b # Minus
  <2>1. NumberEnd(d, 0) = IntegerEnd(d, 0, 0)
    BY <1>9, <1>4 DEF NumberEnd
  <2>2. CASE b = 48
    <3>1. Start(b) = At("Zero")
      BY <2>2 DEF Start, Quote, LowerT, LowerF, LowerN, UpperN, UpperI, Minus
    <3>2. Stands(At("Zero"), d, 1, 0) /\ Rest(At("Zero"), d, 0) = IntegerEnd(d, 0, 0)
      BY <1>9, <2>2 DEF Stands, Rest, StringTag
    <3> QED BY <1>1, <1>2, <2>1, <3>1, <3>2
  <2>3. CASE b \in NonZero
    <3>1. Start(b) = Integer(1)
      BY SMTT(30), <2>3 DEF Start, Quote, LowerT, LowerF, LowerN, UpperN, UpperI, Minus, NonZero
    <3>2. b \in Digits /\ DigitsFrom(d, 0, 1)
      BY <2>3, Apart DEF DigitsFrom
    <3>3. Integer(1).st = "Integer" /\ Integer(1).n = 1
      OBVIOUS
    <3>4. Stands(Integer(1), d, 1, 0) /\ Rest(Integer(1), d, 0) = IntegerEnd(d, 0, 0)
      BY <1>9, <2>3, <3>2, <3>3 DEF Stands, Rest, StringTag
    <3> QED BY <1>1, <1>2, <2>1, <3>1, <3>4
  <2> QED BY <1>4, <2>2, <2>3, Apart
<1> QED BY <1>3, <1>4

LEMMA WordBegins ==
  ASSUME NEW d \in Seq(Byte), Len(d) >= 1, NEW b, b = d[1],
         b \in {LowerT, LowerF, LowerN, UpperN, UpperI}
  PROVE  /\ Stands(Start(b), d, 1, First(b))
         /\ ScalarEnd(d, 0) = Rest(Start(b), d, First(b))
<1>9. 0 + 1 = 1
  OBVIOUS
<1>1. PICK w \in LiteralName : b = Word[w][1]
  BY LiteralFirst DEF LiteralName
<1>2. First(b) = 0
  BY DEF First, LowerT, LowerF, LowerN, UpperN, UpperI, Quote
<1> QED BY <1>1, <1>2, LiteralBegins

LEMMA FirstByte ==
  ASSUME NEW d \in Seq(Byte), Len(d) >= 1, NEW b \in Byte, b = d[1], Startable(b)
  PROVE  /\ Stands(Start(b), d, 1, First(b))
         /\ ScalarEnd(d, 0) = Rest(Start(b), d, First(b))
<1>1. b = Quote \/ b \in Digits \cup {Minus} \/ b \in {LowerT, LowerF, LowerN, UpperN, UpperI}
  BY DEF Startable
<1> QED BY <1>1, StringBegins, NumberBegins, WordBegins

-----------------------------------------------------------------------------
(* A state has been understood when, of every text that begins with the    *)
(* bytes seen, the scan that the state leaves to do is the scan of that    *)
(* text.                                                                   *)
Extends(e, t) == Len(t) <= Len(e) /\ \A i \in 1 .. Len(t) : e[i] = t[i]

Stood(s, t, j) ==
  \A e \in Seq(Byte) :
    Extends(e, t) => Stands(s, e, Len(t), j) /\ ScalarEnd(e, 0) = Rest(s, e, j)

Understood(s, t) == \E j \in 0 .. Len(t) : Stood(s, t, j)

(* What ReadsTheGrammar says of an answer.                                 *)
Judged(s, a, t) ==
  /\ a = "Error"     => ScalarEnd(t, 0) = Bad(Len(t) - 1)
  /\ a = "Delimiter" => ScalarEnd(t, 0) = Ok(Len(t) - 1)
  /\ a = "Complete"  => ScalarEnd(t, 0) = Ok(Len(t))
  /\ a = "Consumed"  => IF CanFinish(s) THEN ScalarEnd(t, 0) = Ok(Len(t))
                        ELSE ScalarEnd(t, 0).r = "more"

ReadInv == (advance = "Consumed" => Understood(scalar, text)) /\ Judged(scalar, advance, text)

LEMMA JudgedIsRead ==
  advance \in Advance /\ Judged(scalar, advance, text) => ReadsTheGrammar
  BY DEF Judged, ReadsTheGrammar, Advance

(* What is understood is judged: the text may end with the bytes seen.     *)
LEMMA UnderstoodIsJudged ==
  ASSUME NEW s \in ScalarState, NEW t \in Seq(Byte), Understood(s, t)
  PROVE  Judged(s, "Consumed", t)
<1>1. PICK j \in 0 .. Len(t) : Stood(s, t, j)
  BY DEF Understood
<1>2. PICK n \in Nat : n = Len(t)
  OBVIOUS
<1>3. Extends(t, t) /\ n \in 0 .. Len(t) /\ j \in 0 .. n
  BY <1>2 DEF Extends
<1>4. Stands(s, t, n, j) /\ ScalarEnd(t, 0) = Rest(s, t, j)
  BY <1>1, <1>2, <1>3 DEF Stood
<1>5. Settles(s, t, n, j)
  BY <1>3, <1>4, Reads
<1> QED BY <1>2, <1>4, <1>5 DEF Settles, Judged

LEMMA StartUnderstood ==
  ASSUME NEW b \in Byte, Startable(b)
  PROVE  Understood(Start(b), <<b>>)
<1>1. <<b>> \in Seq(Byte) /\ Len(<<b>>) = 1 /\ <<b>>[1] = b
  OBVIOUS
<1>2. First(b) \in 0 .. Len(<<b>>)
  BY <1>1 DEF First
<1>3. ASSUME NEW e \in Seq(Byte), Extends(e, <<b>>)
      PROVE  Stands(Start(b), e, 1, First(b)) /\ ScalarEnd(e, 0) = Rest(Start(b), e, First(b))
  <2>1. Len(e) >= 1 /\ e[1] = b
    BY <1>1, <1>3 DEF Extends
  <2> QED BY <2>1, FirstByte
<1>4. Stood(Start(b), <<b>>, First(b))
  BY <1>1, <1>3 DEF Stood
<1> QED BY <1>2, <1>4 DEF Understood

LEMMA PushUnderstood ==
  ASSUME NEW s \in ScalarState, NEW t \in Seq(Byte), NEW b \in Byte, Understood(s, t)
  PROVE  /\ Push(s, b).advance = "Consumed" => Understood(Push(s, b).state, Append(t, b))
         /\ Judged(Push(s, b).state, Push(s, b).advance, Append(t, b))
<1>1. PICK j \in 0 .. Len(t) : Stood(s, t, j)
  BY DEF Understood
<1>2. PICK n \in Nat : n = Len(t) /\ j \in 0 .. n
  OBVIOUS
<1>3. PICK u \in Seq(Byte) : u = Append(t, b)
  <2>1. Append(t, b) \in Seq(Byte)
    OBVIOUS
  <2> QED BY <2>1
<1>4. Len(u) = n + 1 /\ u[n + 1] = b /\ \A i \in 1 .. n : u[i] = t[i]
  BY <1>2, <1>3
<1>5. PICK p : p = Push(s, b)
  OBVIOUS
<1>6. p.state \in ScalarState /\ p.advance \in Advance
  BY <1>5, PushFields
<1>7. ASSUME NEW e \in Seq(Byte), Extends(e, u)
      PROVE  /\ n < Len(e) /\ e[n + 1] = b /\ n \in 0 .. Len(e)
             /\ ScalarEnd(e, 0) = Rest(s, e, j) /\ Answers(s, e, n, j)
  <2>1. PICK size \in Nat : size = Len(e)
    OBVIOUS
  <2>2. n + 1 <= size /\ \A i \in 1 .. n + 1 : e[i] = u[i]
    BY <1>4, <1>7, <2>1 DEF Extends
  <2>3. n < size /\ n \in 0 .. size /\ n + 1 \in 1 .. n + 1 /\ \A i \in 1 .. n : i \in 1 .. n + 1
    BY <2>2
  <2>4. e[n + 1] = b /\ \A i \in 1 .. n : e[i] = t[i]
    BY <1>4, <2>2, <2>3
  <2>5. Extends(e, t)
    BY <1>2, <2>1, <2>3, <2>4 DEF Extends
  <2>6. Stands(s, e, n, j) /\ ScalarEnd(e, 0) = Rest(s, e, j)
    BY <1>1, <1>2, <2>5 DEF Stood
  <2>7. Answers(s, e, n, j)
    BY <1>2, <2>1, <2>3, <2>6, Reads
  <2> QED BY <2>1, <2>3, <2>4, <2>6, <2>7
<1>8. ASSUME p.advance = "Consumed" PROVE Understood(p.state, u)
  <2>1. PICK k : k = Onward(s, p.state, n, j)
    OBVIOUS
  <2>2. k \in 0 .. Len(u)
    BY <1>2, <1>4, <2>1 DEF Onward
  <2>3. ASSUME NEW e \in Seq(Byte), Extends(e, u)
        PROVE  Stands(p.state, e, n + 1, k) /\ ScalarEnd(e, 0) = Rest(p.state, e, k)
    <3>1. GoesOn(s, p.state, e, n, j)
      BY <1>5, <1>7, <1>8, <2>3 DEF Answers
    <3> QED BY <1>7, <2>1, <2>3, <3>1 DEF GoesOn
  <2>4. Stood(p.state, u, k)
    BY <1>4, <2>3 DEF Stood
  <2> QED BY <2>2, <2>4 DEF Understood
<1>9. Judged(p.state, p.advance, u)
  <2>1. CASE p.advance = "Consumed"
    <3>1. Judged(p.state, "Consumed", u)
      BY <1>6, <1>8, <2>1, UnderstoodIsJudged
    <3> QED BY <2>1, <3>1
  <2>2. CASE p.advance # "Consumed"
    <3>1. Extends(u, u)
      BY <1>4 DEF Extends
    <3>2. n < Len(u) /\ n + 1 = Len(u) /\ ScalarEnd(u, 0) = Rest(s, u, j) /\ Answers(s, u, n, j)
      BY <1>4, <1>7, <3>1
    <3>3. /\ p.advance = "Error"     => ScalarEnd(u, 0) = Bad(n)
          /\ p.advance = "Complete"  => ScalarEnd(u, 0) = Ok(n + 1)
          /\ p.advance = "Delimiter" => ScalarEnd(u, 0) = Ok(n)
      BY <1>4, <1>5, <3>2 DEF Answers
    <3>4. Len(u) - 1 = n
      BY <1>4
    <3> QED BY <1>4, <2>2, <3>3, <3>4 DEF Judged
  <2> QED BY <2>1, <2>2
<1> QED BY <1>3, <1>5, <1>8, <1>9

(* The lexer, fed one byte at a time, accepts the scalars of JSON and      *)
(* nothing else: at every byte it answers what a scan of the whole text so *)
(* far would say of it, so a scalar is refused at the byte that spoils it  *)
(* and ends where the scan ends it, escapes, surrogate pairs and the limit *)
(* on the integer prefix included (push and finish in                      *)
(* src/stream/lexer.rs).                                                   *)
THEOREM LexerReadsTheGrammar == Spec => []ReadsTheGrammar
<1>1. Init => ReadInv
  <2> SUFFICES ASSUME NEW b \in Byte, Startable(b), scalar = Start(b),
                      text = <<b>>, advance = "Consumed"
               PROVE  ReadInv
    BY DEF Init
  <2>1. Start(b) \in ScalarState /\ Understood(Start(b), <<b>>) /\ <<b>> \in Seq(Byte)
    BY StartTyped, StartUnderstood
  <2>2. Judged(Start(b), "Consumed", <<b>>)
    BY <2>1, UnderstoodIsJudged
  <2> QED BY <2>1, <2>2 DEF ReadInv
<1>2. TypeOK /\ ReadInv /\ [Next]_vars => ReadInv'
  <2> SUFFICES ASSUME TypeOK, ReadInv, [Next]_vars PROVE ReadInv'
    OBVIOUS
  <2>1. CASE UNCHANGED vars
    BY <2>1 DEF ReadInv, vars
  <2>2. CASE Next
    <3>1. PICK b \in Byte : PushByte(b)
      BY <2>2 DEF Next, PushByte
    <3>2. scalar \in ScalarState /\ text \in Seq(Byte) /\ Understood(scalar, text)
      BY <3>1 DEF TypeOK, ReadInv, PushByte
    <3>3. /\ Push(scalar, b).advance = "Consumed"
               => Understood(Push(scalar, b).state, Append(text, b))
          /\ Judged(Push(scalar, b).state, Push(scalar, b).advance, Append(text, b))
      BY <3>2, PushUnderstood
    <3> QED BY <3>1, <3>3 DEF ReadInv, PushByte
  <2> QED BY <2>1, <2>2
<1>3. TypeOK /\ ReadInv => ReadsTheGrammar
  BY JudgedIsRead DEF ReadInv, TypeOK
<1> QED BY <1>1, <1>2, <1>3, Typed, PTL DEF Spec
=============================================================================
