------------------------------- MODULE MCWalk -------------------------------
(***************************************************************************)
(* The whole-buffer walk on every document that a few tokens spell,        *)
(* against the reference.                                                  *)
(***************************************************************************)
EXTENDS Reference, Documents

CONSTANTS MCSpecs, MaxTokens

VARIABLES spec, doc, tokens

(* Numbers bring a space and keys their colon; one key is written with an  *)
(* escape and with white space around it.                                  *)
SpelledA == <<32, Quote, Backslash, LowerU, 48, 48, 54, 49, Quote, 32, Colon, 10>>
Pieces ==
  { <<LBrace>>, <<RBrace>>, <<LBracket>>, <<RBracket>>, <<Comma>>, <<48, 32>>,
    Key(a) \o <<Colon>>, Key(b) \o <<Colon>>, SpelledA }

Init == spec \in MCSpecs /\ doc = <<>> /\ tokens = 0

(* A document goes on for as long as it could still be one.                *)
Extend(piece) ==
  /\ tokens < MaxTokens
  /\ ProjectBytes(doc \o piece, spec).r # "bad"
  /\ doc' = doc \o piece /\ tokens' = tokens + 1
  /\ UNCHANGED spec

Next == \E piece \in Pieces : Extend(piece)

Spec == Init /\ [][Next]_<<spec, doc, tokens>>

-----------------------------------------------------------------------------
(* The bytes that a strict call answers with parse to the members that the *)
(* rules select from the parsed document, in their order, duplicates kept. *)
MatchesReference ==
  LET run == Run(doc, spec, TRUE)
  IN  run.kind = "bytes" => Tree(run.bytes) = Select(Tree(doc), spec)

(* Projecting what a call answered with changes no byte: that of a strict  *)
(* call is a document, and that of any other call stays as it is when it   *)
(* is none.                                                                *)
Idempotent ==
  \A strict \in BOOLEAN :
    LET run == Run(doc, spec, strict)
    IN  run.kind = "bytes" => Run(run.bytes, spec, strict) = run

-----------------------------------------------------------------------------
MCRules ==
  { SObject(Fields(SKeep, SArray(SObject(OnlyA(SKeep))))),
    SObject(OnlyA(SObject(<<>>))),
    SExclude(Fields(SDiscard, SExclude(OnlyA(SDiscard)))),
    SExclude(OnlyA(SArray(SExclude(OnlyA(SDiscard))))) }
=============================================================================
