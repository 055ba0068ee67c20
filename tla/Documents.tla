----------------------------- MODULE Documents -----------------------------
(***************************************************************************)
(* Documents and rules for the model-checking modules, built from pieces.  *)
(***************************************************************************)
EXTENDS Walk

a == 97   b == 98   c == 99

Key(ch)    == <<Quote, ch, Quote>>
Num(n)     == <<48 + n>>
Word1(w)   == Word[w]
Mem(k, v)  == k \o <<Colon>> \o v

RECURSIVE Joined(_)
Joined(parts) ==
  CASE parts = <<>>     -> <<>>
    [] Len(parts) = 1   -> parts[1]
    [] OTHER            -> parts[1] \o <<Comma>> \o Joined(Tail(parts))

Obj(members)  == <<LBrace>> \o Joined(members) \o <<RBrace>>
Arr(elements) == <<LBracket>> \o Joined(elements) \o <<RBracket>>

(* The same document with a space before every byte outside its strings.   *)
RECURSIVE Airy(_)
Airy(d) ==
  CASE d = <<>>        -> <<>>
    [] d # <<>> /\ d[1] = Quote ->
         <<32>> \o SubSeq(d, 1, 3) \o Airy(SubSeq(d, 4, Len(d)))
    [] OTHER           -> <<32, d[1]>> \o Airy(Tail(d))

(* A document with one byte missing, or another byte in its place.         *)
Missing(d, i)     == SubSeq(d, 1, i - 1) \o SubSeq(d, i + 1, Len(d))
Swapped(d, i, x)  == [d EXCEPT ![i] = x]
Damaged(d, S) == { Missing(d, i) : i \in 1 .. Len(d) }
                 \cup { Swapped(d, i, x) : i \in 1 .. Len(d), x \in S }

(* The documents of D that begin with what was fed, and every chunk, the    *)
(* empty one too, that continues one of them.                              *)
Continuing(D, fed) ==
  { d \in D : Len(fed) <= Len(d) /\ SubSeq(d, 1, Len(fed)) = fed }
Continuations(D, fed) ==
  UNION { { SubSeq(d, Len(fed) + 1, j) : j \in Len(fed) .. Len(d) } : d \in Continuing(D, fed) }

NameA == <<a>>   NameB == <<b>>
Fields(f, g) == [n \in {NameA, NameB} |-> IF n = NameA THEN f ELSE g]
OnlyA(f)     == [n \in {NameA} |-> f]
=============================================================================
