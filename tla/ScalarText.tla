------------------------------ MODULE ScalarText ------------------------------
(***************************************************************************)
(* The scalars of JSON text as the jiter crate scans them.                 *)
(*                                                                         *)
(* An offset is the number of bytes before the cursor, so the byte at the  *)
(* cursor is d[i + 1].  A scan answers with the offset where it ends       *)
(* ("ok"), the offset of the first byte no document could have there       *)
(* ("bad"), or "more" when the data stops before the value does.           *)
(***************************************************************************)
EXTENDS KeyText

Ok(i)   == [r |-> "ok",   at |-> i]
Bad(i)  == [r |-> "bad",  at |-> i]
More(d) == [r |-> "more", at |-> Len(d)]

(* Continue after a scan that went well.                                   *)
Then(res, K(_)) == IF res.r = "ok" THEN K(res.at) ELSE res

AtEnd(d, i) == i >= Len(d)

(* One byte of a set is required at i.                                     *)
One(d, i, S) ==
  CASE AtEnd(d, i)                      -> More(d)
    [] ~AtEnd(d, i) /\ d[i + 1] \in S   -> Ok(i + 1)
    [] OTHER                            -> Bad(i)

(* The offset after the run of bytes of S that starts at i.                *)
RunEnd(d, i, S) ==
  CHOOSE j \in i .. Len(d) : /\ \A k \in i + 1 .. j : d[k] \in S
                             /\ j < Len(d) => d[j + 1] \notin S

SomeOf(d, i, S) ==
  Then(One(d, i, S), LAMBDA j : Ok(RunEnd(d, j, S)))

(* How many bytes at i are in the sets of a shape, up to one that is not.  *)
Agreeing(d, i, shape) ==
  CHOOSE n \in 0 .. Len(shape) :
    /\ i + n <= Len(d) /\ \A k \in 1 .. n : d[i + k] \in shape[k]
    /\ n < Len(shape) => AtEnd(d, i + n) \/ d[i + n + 1] \notin shape[n + 1]

ShapeEnd(d, i, shape) ==
  LET n == Agreeing(d, i, shape)
  IN  IF n = Len(shape) THEN Ok(i + n) ELSE One(d, i + n, shape[n + 1])

WordEnd(d, i, w) == ShapeEnd(d, i, [k \in DOMAIN w |-> {w[k]}])

-----------------------------------------------------------------------------
(* Numbers.                                                                *)

ExponentEnd(d, i) ==
  IF AtEnd(d, i) \/ d[i + 1] \notin {LowerE, UpperE} THEN Ok(i)
  ELSE LET signed == ~AtEnd(d, i + 1) /\ d[i + 2] \in {Plus, Minus}
       IN  SomeOf(d, IF signed THEN i + 2 ELSE i + 1, Digits)

FractionEnd(d, i) ==
  IF AtEnd(d, i) \/ d[i + 1] # Dot THEN ExponentEnd(d, i)
  ELSE Then(SomeOf(d, i + 1, Digits), LAMBDA j : ExponentEnd(d, j))

(* A number from i, its integer digits from j.                             *)
IntegerEnd(d, i, j) ==
  LET k == RunEnd(d, j, Digits)
  IN  CASE d[j + 1] = 48 /\ k > j + 1             -> Bad(j + 1)
        [] d[j + 1] # 48 /\ k - i > MaxPrefix     -> Bad(i + MaxPrefix)
        [] OTHER                                  -> FractionEnd(d, k)

NumberEnd(d, i) ==
  IF d[i + 1] # Minus THEN IntegerEnd(d, i, i)
  ELSE IF ~AtEnd(d, i + 1) /\ d[i + 2] = UpperI
       THEN WordEnd(d, i + 1, Word.Infinity)
       ELSE Then(One(d, i + 1, Digits), LAMBDA j : IntegerEnd(d, i, j - 1))

-----------------------------------------------------------------------------
(* Strings.                                                                *)

HexRun(d, i) == ShapeEnd(d, i, [k \in 1 .. 4 |-> HexDigits])

(* The low half that must follow a high surrogate.                         *)
LowHalf(d, i) ==
  Then(WordEnd(d, i, <<Backslash, LowerU>>), LAMBDA j :
  Then(HexRun(d, j), LAMBDA k :
    IF Hex4(d, j + 1) \in LowSurrogate THEN Ok(k) ELSE Bad(k - 1)))

UnicodeEscape(d, i) ==
  Then(HexRun(d, i), LAMBDA j :
    CASE Hex4(d, i + 1) \in HighSurrogate -> LowHalf(d, j)
      [] Hex4(d, i + 1) \in LowSurrogate  -> Bad(j - 1)
      [] OTHER                            -> Ok(j))

(* One character or escape of a string.                                    *)
StringUnit(d, i) ==
  CASE AtEnd(d, i)                                -> More(d)
    [] ~AtEnd(d, i) /\ d[i + 1] \in Control       -> Bad(i)
    [] ~AtEnd(d, i) /\ d[i + 1] = Backslash       ->
         IF ~AtEnd(d, i + 1) /\ d[i + 2] = LowerU
         THEN UnicodeEscape(d, i + 2)
         ELSE One(d, i + 1, SimpleEscape)
    [] OTHER                                      -> Ok(i + 1)

(* The rest of a string, from wherever it goes on.                         *)
StringTails(d) ==
  LET tail[i \in 0 .. Len(d)] ==
        IF ~AtEnd(d, i) /\ d[i + 1] = Quote THEN Ok(i + 1)
        ELSE Then(StringUnit(d, i), LAMBDA j : tail[j])
  IN  tail

StringTail(d, i) == StringTails(d)[i]

(* A scalar from its first byte.                                           *)
ScalarEnd(d, i) ==
  LET b == d[i + 1]
  IN  CASE b = Quote                     -> StringTail(d, i + 1)
        [] b \in Digits \cup {Minus}     -> NumberEnd(d, i)
        [] \E n \in LiteralName : Word[n][1] = b ->
             WordEnd(d, i, Word[CHOOSE n \in LiteralName : Word[n][1] = b])
        [] OTHER                         -> Bad(i)
=============================================================================
