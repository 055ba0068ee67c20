------------------------------ MODULE MCScalar ------------------------------
(***************************************************************************)
(* The lexer against the grammar of scalars, on every text made of the     *)
(* bytes that matter in each state.                                        *)
(***************************************************************************)
EXTENDS ScalarMachine

CONSTANT MaxText       (* bytes of a number, or of a string before its end *)

UpperB == 66  UpperD == 68  UpperF == 70  Letter == 103

(* Hex digits around the boundaries of the surrogates: d7ff, d800, dbff,   *)
(* dc00, dfff, e000, and one letter that is no digit.                      *)
HexSample(remaining) ==
  CASE remaining = 4 -> {48, UpperD, 101}
    [] remaining = 3 -> {48, 55, 56, UpperB, 99, UpperF}
    [] remaining = 2 -> {48, 102}
    [] remaining = 1 -> {48, UpperF, Letter}

(* A byte of each class the lexer tells apart there, one to refuse among   *)
(* them.                                                                   *)
ByteSample ==
  [ String             |-> {Quote, Backslash, Letter, 31, 255},
    Escape             |-> {LowerU, LowerN, Letter},
    SurrogateBackslash |-> {Backslash, Letter},
    SurrogateU         |-> {LowerU, LowerN},
    Minus              |-> {48, 57, UpperI, Minus},
    Number             |-> {48, 57, Dot, LowerE, UpperE, Plus, Minus, Comma} ]

(* Escapes and literals end by themselves; MaxText bounds the rest.        *)
MCOffer(t, s) ==
  CASE s.st = "Unicode"    -> HexSample(s.n)
    [] s.st = "Literal"    -> {Word[s.expected][s.n + 1], Letter}
    [] s.st = "String" /\ Len(t) >= MaxText -> {Quote}
    [] s.st \in DOMAIN ByteSample /\ ~(s.st = "String" /\ Len(t) >= MaxText)
                           -> ByteSample[s.st]
    [] OTHER               -> IF Len(t) < MaxText THEN ByteSample["Number"] ELSE {}
=============================================================================
