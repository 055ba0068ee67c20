------------------------------ MODULE MCStream ------------------------------
(***************************************************************************)
(* Sessions on a few documents and rules, cut into chunks in every way,    *)
(* against the contract.                                                   *)
(***************************************************************************)
EXTENDS ByteReading, StreamPlan, Documents

Whole    == INSTANCE WholeDocument WITH NestLimit <- MaxDepth

Contract == INSTANCE ProjectionContract
              WITH spec <- TreeOf(plan), doc <- fed, Specs <- {TreeOf(p) : p \in Plans},
                   Chunks <- Offer, Verdict <- Whole!Judged

(* The session keeps the contract: whatever the chunks, its answers are    *)
(* those of the whole-buffer walk over the bytes fed (src/stream/mod.rs,   *)
(* against src/walk.rs).                                                   *)
KeepsContract == Contract!Spec

-----------------------------------------------------------------------------
MCSpecs == { SObject(Fields(SKeep, SArray(SObject(OnlyA(SKeep))))),
             SExclude(Fields(SDiscard, SExclude(OnlyA(SDiscard)))) }

MCPlans == UNION { Layouts(s) : s \in MCSpecs }

(* A string with a quote in it: "aa\"a"                                     *)
Text == <<Quote, a, a, Backslash, Quote, a, Quote>>

MCDocs ==
  { Obj(<<Mem(Key(a), Num(1)),
          Mem(Key(b), Arr(<<Obj(<<Mem(Key(a), Num(2))>>),
                            Obj(<<Mem(Key(c), Num(3))>>)>>)),
          Mem(Key(a), Num(4))>>),
    Obj(<<Mem(Key(c), Obj(<<Mem(Key(a), Arr(<<>>))>>)),
          Mem(Key(b), Obj(<<Mem(Key(a), Word1("null")), Mem(Key(c), Num(0))>>))>>),
    Airy(Obj(<<Mem(Key(a), Arr(<<Num(1), Num(2)>>)),
               Mem(Key(b), Arr(<<Num(3), Obj(<<>>)>>))>>)) \o <<32>>,
    Obj(<<Mem(Key(c), Text), Mem(<<Quote, b, a, Quote>>, Text),
          Mem(Key(a), <<49, Dot, 50, 53, LowerE, 51, 48>>)>>),
    Obj(<<Mem(Key(c), <<49, 50, 51>>), Mem(Key(a), <<49, 50, 51, 52>>)>>) }

MCOffer(x) == Continuations(MCDocs, x)

(* Malformed documents: every one-byte loss of a short document and every  *)
(* misplaced bracket, comma or digit in it, keys that are not text, keys   *)
(* written with escapes, and nesting at and over the limit.                *)
MCShort == Obj(<<Mem(Key(a), Arr(<<Num(1), Word1("true")>>)),
                 Mem(Key(b), Obj(<<Mem(Key(c), Num(0))>>))>>)

Escaped(hex) == <<Quote, Backslash, LowerU, 48, 48>> \o hex \o <<Quote>>

MCBadDocs ==
  Damaged(MCShort, {RBrace, Comma})
  \cup { Obj(<<Mem(k, Num(1)), Mem(Key(b), Num(2))>>) :
           k \in { <<Quote, x, y, Quote>> : x \in {a, 195, 237}, y \in {169, 255} } }
  \cup { Obj(<<Mem(Escaped(<<54, 49>>), Num(1)), Mem(Escaped(<<54, 51>>), Num(2))>>),
         Obj(<<Mem(Key(b), Obj(<<Mem(<<Quote, 255, Quote>>, Num(1))>>))>>),
         Obj(<<Mem(Key(c), Arr(<<Arr(<<Num(0)>>), Arr(<<Arr(<<>>)>>)>>))>>),
         Obj(<<Mem(Key(a), Arr(<<Arr(<<Arr(<<>>)>>)>>))>>),
         Obj(<<Mem(Key(a), <<49, 50, 51, 52>>)>>),
         Obj(<<>>) \o <<32, 48>> }

(* These and the documents, whole or in chunks of up to three bytes.       *)
MCFewCuts(x) ==
  UNION { { SubSeq(d, Len(x) + 1, j) :
              j \in { n \in Len(x) + 1 .. Len(d) :
                        n <= Len(x) + 3 \/ (x = <<>> /\ n = Len(d)) } } :
            d \in Continuing(MCBadDocs \cup MCDocs, x) }

(* Every byte string over a small alphabet, a byte at a time: from the     *)
(* start, or as the value of a member that has a rule.                     *)
CONSTANTS Alphabet, MaxBytes

Openings == { <<LBrace>> \o Key(k) \o <<Colon>> : k \in {a, b} }

MCEveryByte(x) ==
  LET opening == SubSeq(x, 1, IF Len(x) < 5 THEN Len(x) ELSE 5)
      free    == IF opening \in Openings THEN Len(x) - 5 ELSE Len(x)
  IN  IF free < MaxBytes
      THEN { <<y>> : y \in Alphabet } \cup (IF x = <<>> THEN Openings ELSE {})
      ELSE {}

MCAnyOffer(x) == MCEveryByte(x) \cup MCFewCuts(x)
=============================================================================
