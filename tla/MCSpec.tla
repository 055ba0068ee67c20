------------------------------- MODULE MCSpec -------------------------------
(***************************************************************************)
(* The compiler on every spec of a few small shapes, objects shared, alone *)
(* or inside themselves, against the rules as they are written.            *)
(***************************************************************************)
EXTENDS SpecCompile, Documents, StreamPlan, PlanShape, TLC

Rules == INSTANCE WrittenRules

compiled == outcome.kind = "compiled"

-----------------------------------------------------------------------------
(* Objects that are always there: the values an entry may have.            *)
Fixed ==
  [ yes |-> [py |-> "bool", is |-> TRUE], no |-> [py |-> "bool", is |-> FALSE],
    list |-> [py |-> "names", items |-> <<NameA, Everything, NameA>>],
    odd |-> [py |-> "names", items |-> <<NameA, NotStr>>],
    text |-> [py |-> "str"], count |-> [py |-> "other"] ]

NameC == <<c>>
Rule(key, object)   == [key |-> key, value |-> object]
Holding(kind, items) == [py |-> kind, items |-> items]

Single(keys, objects) == { <<Rule(k, o)>> : k \in keys, o \in objects }
Pairs(objects) ==
  { <<Rule(NameA, o), Rule(k, p)>> : k \in {NameB, Everything}, o, p \in objects }

RootItems ==
  {<<>>} \cup Pairs({"inner", "iter", "yes"})
  \cup Single({NameA, Everything, NotStr}, {"root", "inner", "iter"} \cup DOMAIN Fixed)

InnerItems ==
  {<<>>} \cup Pairs({"yes", "list"})
  \cup Single({NameA, Everything}, {"root", "inner", "iter", "yes", "list", "count"})

MCHeaps ==
  { ("root" :> r @@ "inner" :> i @@ "iter" :> Holding("iterator", it)) @@ Fixed
    : r \in { Holding(kind, items) : kind \in {"dict", "mapping"}, items \in RootItems }
            \cup { Fixed[o] : o \in DOMAIN Fixed },
      i \in { Holding("dict", items) : items \in InnerItems }
            \cup { Holding("mapping", items) : items \in Pairs({"yes"}) },
      it \in {<<NameB, NameA>>, <<NameB, NotStr>>} }

(* Python code may clear a dict, or put something else in it.              *)
Replaced == { <<>>, <<Rule(NameC, "yes"), Rule(NameB, "list")>> }
MCMeddled(h) ==
  {h} \cup UNION { { [h EXCEPT ![o].items = items] : items \in Replaced }
                   : o \in { x \in {"root", "inner"} : h[x].py = "dict" } }

Number == Rules!Scalar(<<49>>)
Flat   == Rules!Object(<< Rules!Member(NameA, Number), Rules!Member(NameB, Number),
                          Rules!Member(Everything, Number), Rules!Member(NameA, Number) >>)
Deep ==
  Rules!Object(<< Rules!Member(NameB, Rules!Array(<<Flat, Number>>)), Rules!Member(NameA, Flat),
                  Rules!Member(NameB, Flat), Rules!Member(Everything, Number) >>)
Trees ==
  { Rules!Object(<< Rules!Member(NameA, Deep), Rules!Member(NameB, Deep) >>),
    Rules!Object(<< Rules!Member(NameA, Rules!Array(<<Deep, Rules!Array(<<Flat>>)>>)),
                    Rules!Member(NameA, Number), Rules!Member(Everything, Flat) >>) }

-----------------------------------------------------------------------------
(* What it makes of them selects what the rules as written select.         *)
MeansWhatIsWritten ==
  compiled /\ calm =>
    \A tree \in Trees :
      Rules!Select(tree, outcome.spec)
        = Rules!SelectWritten(tree, written, Root, excluding)

(* Every layout of what compiles has the shape a session relies on, and    *)
(* spells the same rules (from_py, then StreamPlan::new).                  *)
PlanKeepsRules ==
  compiled => \A plan \in Layouts(outcome.spec) :
                WellFormed(plan) /\ TreeOf(plan) = outcome.spec
=============================================================================
