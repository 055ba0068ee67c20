------------------------------- MODULE Jiter -------------------------------
(***************************************************************************)
(* The JSON cursor that src/walk.rs drives (the jiter crate), from how it  *)
(* is used there: scan a value from an offset, step through an object or   *)
(* an array, skip a value within a nesting budget.                         *)
(***************************************************************************)
EXTENDS ScalarText

CONSTANT SkipLimit     (* containers one skipped value may nest            *)

ASSUME SkipAssumption == SkipLimit \in Nat

Ws(d, i) == RunEnd(d, i, Whitespace)

-----------------------------------------------------------------------------
(* Objects, arrays and skipping.                                           *)

(* next_object and next_key answer with an entry: the offset after the     *)
(* colon when there is a key, or past the closing brace.                   *)
Entry(res, some, name) ==
  [r |-> res.r, at |-> res.at, some |-> some, name |-> name]

(* A key through the colon, from the scan of its string.  The name is      *)
(* decoded only where a rule is looked up.                                 *)
KeyEnd(d, str) == Then(str, LAMBDA j : One(d, Ws(d, j), {Colon}))

(* The key with its quote at i, given the scan of its string.              *)
Named(d, i, str) ==
  LET raw == SubSeq(d, i + 1, str.at)
  IN  CASE str.r # "ok"                    -> Entry(str, FALSE, <<>>)
        [] str.r = "ok" /\ ~IsUtf8(raw)    ->
             Entry(Bad(i + ValidUpTo(raw)), FALSE, <<>>)
        [] OTHER                           ->
             Entry(KeyEnd(d, str), TRUE, Decode(raw))

KeyEntry(d, i) == Named(d, i, StringTail(d, i + 1))

(* The key required at the next byte that is not white space.              *)
RequiredKey(d, i) ==
  LET q == One(d, Ws(d, i), {Quote})
  IN  IF q.r = "ok" THEN KeyEntry(d, q.at - 1) ELSE Entry(q, FALSE, <<>>)

Closes(d, i, b) == ~AtEnd(d, i) /\ d[i + 1] = b

NextObject(d, i) ==
  LET j == Ws(d, i + 1)
  IN  IF Closes(d, j, RBrace) THEN Entry(Ok(j + 1), FALSE, <<>>)
      ELSE RequiredKey(d, j)

NextKey(d, i) ==
  LET j == Ws(d, i)
      c == One(d, j, {Comma})
  IN  CASE Closes(d, j, RBrace)                  -> Entry(Ok(j + 1), FALSE, <<>>)
        [] ~Closes(d, j, RBrace) /\ c.r # "ok"   -> Entry(c, FALSE, <<>>)
        [] OTHER                                 -> RequiredKey(d, c.at)

(* next_array and array_step stop at the next element, if there is one.    *)
Element(res, some) == [r |-> res.r, at |-> res.at, some |-> some]

NextArray(d, i) ==
  LET j == Ws(d, i + 1)
  IN  CASE AtEnd(d, j)            -> Element(More(d), FALSE)
        [] Closes(d, j, RBracket) -> Element(Ok(j + 1), FALSE)
        [] OTHER                  -> Element(Ok(j), TRUE)

ArrayStep(d, i) ==
  LET j == Ws(d, i)
      c == One(d, j, {Comma})
  IN  CASE Closes(d, j, RBracket)                 -> Element(Ok(j + 1), FALSE)
        [] ~Closes(d, j, RBracket) /\ c.r # "ok"  -> Element(c, FALSE)
        [] OTHER                                  -> Element(Ok(Ws(d, c.at)), TRUE)

(* known_skip: the value at i, with `budget` containers still allowed.     *)
RECURSIVE Skip(_, _, _), SkipMembers(_, _, _), SkipElements(_, _, _)

Skip(d, i, budget) ==
  CASE AtEnd(d, i)                                   -> More(d)
    [] ~AtEnd(d, i) /\ d[i + 1] \in {LBrace, LBracket} /\ budget = 0 -> Bad(i)
    [] ~AtEnd(d, i) /\ d[i + 1] = LBrace /\ budget > 0 ->
         LET j == Ws(d, i + 1)
         IN  IF Closes(d, j, RBrace) THEN Ok(j + 1)
             ELSE SkipMembers(d, j, budget - 1)
    [] ~AtEnd(d, i) /\ d[i + 1] = LBracket /\ budget > 0 ->
         LET j == Ws(d, i + 1)
         IN  IF Closes(d, j, RBracket) THEN Ok(j + 1)
             ELSE SkipElements(d, j, budget - 1)
    [] OTHER                                         -> ScalarEnd(d, i)

SkipMembers(d, i, budget) ==
  Then(One(d, Ws(d, i), {Quote}), LAMBDA q :
  Then(KeyEnd(d, StringTail(d, q)), LAMBDA v :
  Then(Skip(d, Ws(d, v), budget), LAMBDA e :
  Then(One(d, Ws(d, e), {Comma, RBrace}), LAMBDA j :
    IF d[j] = RBrace THEN Ok(j) ELSE SkipMembers(d, j, budget)))))

SkipElements(d, i, budget) ==
  Then(Skip(d, Ws(d, i), budget), LAMBDA e :
  Then(One(d, Ws(d, e), {Comma, RBracket}), LAMBDA j :
    IF d[j] = RBracket THEN Ok(j) ELSE SkipElements(d, j, budget)))
=============================================================================
