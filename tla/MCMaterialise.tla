---------------------------- MODULE MCMaterialise ---------------------------
(* Values for the runs of Materialise: mappings of two entries whose       *)
(* values may be lists, iterators, shared, inside themselves or no rules.  *)
EXTENDS Materialise

CONSTANTS KeyA, KeyB, SkipLimit, MaxPrefix

Rules == INSTANCE WrittenRules

Yes == [py |-> "bool", is |-> TRUE]
Str(n) == [py |-> "str", text |-> n]
Holding(kind, items) == [py |-> kind, items |-> items]
Entry(k, v) == [key |-> k, value |-> v]

(* 1 the root, 2 a mapping, 3 a list, 4 an iterator, 5 and 6 strings, 7    *)
(* True, 8 what is no rule.                                                *)
Entries ==
  {<<>>} \cup { <<Entry(k, v)>> : k \in {KeyA, Everything}, v \in {1, 2, 3, 7} }
         \cup { <<Entry(k, v)>> : k \in {NotStr}, v \in {7} }
         \cup { <<Entry(KeyA, v), Entry(KeyB, w)>> : v, w \in {2, 4} }
         \cup { <<Entry(KeyA, 4), Entry(KeyB, 3)>>, <<Entry(KeyA, 4), Entry(Everything, 7)>> }
Inner == {<<>>} \cup { <<Entry(k, v)>> : k \in {KeyA, Everything}, v \in {1, 3, 4, 7} }
         \cup { <<Entry(KeyB, 3), Entry(KeyA, 4)>>, <<Entry(KeyA, 2)>>, <<Entry(KeyA, 7), Entry(KeyB, 8)>> }
Lists == { <<>>, <<5, 6>>, <<6, 7>>, <<3>>, <<4>>, <<2>> }
Askeds == { <<5, 6>>, <<5, 8>>, <<4>>, <<3>> }

(* Lists in lists and mappings in mappings, under the root, up to what is  *)
(* let through and beyond.                                                 *)
Lists2(n) ==
  << Holding("dict", <<Entry(KeyA, 2)>>) >>
  \o [ i \in 1 .. n |-> Holding("list", <<i + 2>>) ] \o <<Str(KeyA)>>
Mappings2(kind, n) ==
  [ i \in 1 .. n |-> Holding(kind, <<Entry(IF i = 2 THEN Everything ELSE KeyA, i + 1)>>) ] \o <<Yes>>
Deepest == { Lists2(n) : n \in 1 .. RecursionLimit }
           \cup { Mappings2(kind, n) : kind \in Mappings, n \in 1 .. MaxSpecDepth + 3 }

MCHeaps ==
  { << Holding(rk, r), Holding(mk, m), Holding("list", l), Holding("iterator", i),
       Str(KeyA), Str(KeyB), Yes, [py |-> "other"] >> :
      rk \in {"dict"}, mk \in {"dict", "mapping"}, r \in Entries, m \in Inner, l \in Lists, i \in Askeds }
  \cup { << Holding("mapping", r), Holding("list", <<>>), Yes >> :
      r \in { <<Entry(KeyA, 2), Entry(KeyB, 3)>>, <<Entry(NotStr, 2), Entry(NotStr, 3)>>, <<Entry(KeyA, 1)>> } }
  \cup Deepest
  \cup { << r, Yes >> : r \in {Holding("list", <<>>), Str(KeyA), Yes, Holding("iterator", <<2>>)} }

Number == Rules!Scalar(<<49>>)
Flat   == Rules!Object(<<Rules!Member(KeyA, Number), Rules!Member(KeyB, Number)>>)
Deep(x) == Rules!Object(<<Rules!Member(KeyA, x), Rules!Member(KeyB, x)>>)
MCTrees == { Deep(Deep(Flat)), Deep(Rules!Array(<<Flat, Deep(Flat)>>)) }

-----------------------------------------------------------------------------
(* What the rules select: WrittenRules says so.                            *)
MCMeaning(h, id) == [ t \in MCTrees |-> Rules!SelectWritten(t, AsRules(h), id, FALSE) ]

(* It is made of what is read: the same objects elsewhere in the heap, and *)
(* in dicts and lists for mappings and iterators, mean the same.           *)
Other(h, id) == Len(h) + 1 - id
Moved(h) ==
  [ id \in DOMAIN h |->
      LET o == h[Other(h, id)]
      IN  CASE o.py \in Mappings  -> Holding("dict", [ i \in DOMAIN o.items |->
                                       Entry(o.items[i].key, Other(h, o.items[i].value)) ])
            [] o.py \in Iterables -> Holding("list", [ i \in DOMAIN o.items |->
                                       Other(h, o.items[i]) ])
            [] OTHER -> o ]
ASSUME
  \A h \in MCHeaps :
    /\ Alike(h, Moved(h), { <<id, Other(h, id)>> : id \in DOMAIN h })
    /\ Compiles(h, 1) => MCMeaning(h, 1) = MCMeaning(Moved(h), Len(h))
=============================================================================
