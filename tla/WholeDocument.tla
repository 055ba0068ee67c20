---------------------------- MODULE WholeDocument ---------------------------
(***************************************************************************)
(* What the bytes fed to a session deserve: the answer of the whole-buffer *)
(* walk, except that one nesting limit holds for the whole document.       *)
(***************************************************************************)
EXTENDS Walk

LOCAL INSTANCE SequencesExt

CONSTANT NestLimit     (* containers that may be open at once, the root    *)
                       (* included                                         *)

(* Where a document nests too deep.                                        *)

(* What one more byte does to the scan: `in` says whether it is out of, in *)
(* or escaped in a string, `first` is the first byte that opens too much.  *)
Scan(m, byte) ==
  LET in   == CASE m.in = "out" /\ byte = Quote     -> "in"
                [] m.in = "in" /\ byte = Quote      -> "out"
                [] m.in = "in" /\ byte = Backslash  -> "escaped"
                [] m.in = "escaped"                 -> "in"
                [] OTHER                            -> m.in
      open == CASE m.in = "out" /\ byte \in {LBrace, LBracket} -> m.open + 1
                [] m.in = "out" /\ byte \in {RBrace, RBracket} -> m.open - 1
                [] OTHER                                       -> m.open
  IN  [ in |-> in, open |-> open, at |-> m.at + 1,
        first |-> IF m.first = 0 /\ open > NestLimit THEN m.at + 1 ELSE m.first ]

(* The number of the first byte that nests too deep, 0 if there is none.   *)
NestsTooDeep(d) ==
  FoldLeft(Scan, [in |-> "out", open |-> 0, at |-> 0, first |-> 0], d).first

(* The walk over the bytes so far, unless they nest too deep before it     *)
(* finds an error: "more" means that a continuation may be accepted.       *)
Judged(d, s) ==
  LET walk == ProjectBytes(d, s)
      deep == NestsTooDeep(d)
  IN  IF deep = 0 \/ (walk.r = "bad" /\ walk.at < deep) THEN walk
      ELSE With(Bad(deep - 1), <<>>)
=============================================================================
