----------------------------- MODULE MCProjected ----------------------------
(***************************************************************************)
(* Questions for the runs of Projected: a class C with a field k and a     *)
(* field x, which is excluded, somewhere in a class R.                     *)
(***************************************************************************)
EXTENDS Projected

LOCAL INSTANCE SequencesExt
LOCAL INSTANCE Functions

CONSTANT Asked                   (* the families of questions of a run     *)

Field(name, alias) == [name |-> name, alias |-> alias]
Model(cls, below)  == [t |-> "model", cls |-> cls, custom_init |-> FALSE, below |-> <<below>>]
Fields(cls, fields, below) ==
  [t |-> "model-fields", cls |-> cls, fields |-> fields, below |-> below]
Function(t, fn, below) == [t |-> "function-" \o t, fn |-> fn, below |-> below]
RefTo(id) == [t |-> "definition-ref", to |-> id, below |-> <<>>]

(* The class C: how its x and k are declared, the kind of its own model    *)
(* validator, and whether it holds another C.                              *)
Plainly == [default |-> TRUE, x |-> <<>>, k |-> <<>>, own |-> "none", init |-> FALSE, nested |-> FALSE]

ClassC(o) ==
  ( "C" :> [Model("C", CASE o.own = "before" -> "Cb" [] o.own = "plain" -> "Cp" [] OTHER -> "Cf")
              EXCEPT !.custom_init = o.init] )
  @@ ("Cw" :> Function("wrap", IF o.own = "hook" THEN "foreign" ELSE "migrate", <<"C">>))
  @@ ("Cb" :> Function("before", "migrate", <<"Cf">>))
  @@ ("Cp" :> Function("plain", "migrate", <<>>))
  @@ ("Cf" :> Fields("C", <<Field("k", o.k), Field("x", o.x)>>
                            \o (IF o.nested THEN <<Field("n", <<>>)>> ELSE <<>>),
                       <<"int", IF o.default THEN "default" ELSE "int">>
                            \o (IF o.nested THEN <<"Cn">> ELSE <<>>)))
  @@ ("Cn" :> Node("default", <<"Cnull">>)) @@ ("Cnull" :> Node("nullable", <<"Cref">>))
  @@ ("Cref" :> RefTo("C"))
  @@ ("int" :> Node("int", <<>>)) @@ ("default" :> Node("default", <<"int">>))
  @@ ("any" :> Node("any", <<>>))

Entry(o) == IF o.own \in {"wrap", "hook"} THEN "Cw" ELSE "C"

-----------------------------------------------------------------------------
(* Where C is in R: the fields of R, their nodes, and the member of a      *)
(* document that has a C.                                                  *)
Nest(key, tree) == Object(<<Member(key, tree)>>)
Both(t, u)      == Object(<<Member("f", t), Member("g", u)>>)

F       == Field("f", <<>>)
G(path) == Field("g", path)
Rfields(fields, below) == "Rf" :> Fields("R", fields, below)

Shapes == {"direct", "list", "dict", "nullable", "after", "foreign", "again", "held", "path", "either", "shared",
           "agreeing", "referred", "dicts", "open"}

(* The nodes of R; those of C are below `c`.                               *)
Places(shape, c) ==
  CASE shape = "direct"   -> Rfields(<<F>>, <<c>>)
    [] shape = "list"     -> Rfields(<<F>>, <<"L">>) @@ ("L" :> Node("list", <<c>>))
    [] shape = "dict"     -> Rfields(<<F>>, <<"D">>) @@ ("D" :> Node("dict", <<c>>))
    [] shape = "nullable" -> Rfields(<<F>>, <<"d">>) @@ ("d" :> Node("default", <<"N">>))
                             @@ ("N" :> Node("nullable", <<c>>))
    [] shape = "after"    -> Rfields(<<F>>, <<"A">>) @@ ("A" :> Function("after", "check", <<c>>))
    [] shape = "foreign"  -> Rfields(<<F>>, <<"B">>) @@ ("B" :> Function("before", "foreign", <<c>>))
    [] shape = "again"    -> Rfields(<<F>>, <<"B">>) @@ ("B" :> Function("before", "migrate", <<c>>))
    [] shape \in {"held", "open"} ->
         Rfields(<<F>>, <<"M">>) @@ ("M" :> Model("M", "Mf"))
         @@ ("Mf" :> Fields("M", <<Field("c", <<>>)>>, <<"Md">>)) @@ ("Md" :> Node("default", <<c>>))
    [] shape = "path"     -> Rfields(<<Field("f", << <<"o", "f">> >>)>>, <<c>>)
    [] shape = "either"   -> Rfields(<<Field("f", << <<"o", "f">>, <<"p">> >>)>>, <<c>>)
    [] shape = "shared"   -> Rfields(<<G(<< <<"f">> >>), F>>, <<"any", c>>)
    [] shape = "agreeing" -> Rfields(<<F, G(<< <<"f">> >>), Field("h", << <<"f">> >>)>>, <<c, "E", "any">>)
                             @@ ("E" :> Model("E", "Ef")) @@ ("Ef" :> Fields("E", <<Field("k", <<>>)>>, <<"int">>))
    [] shape = "referred" -> Rfields(<<F, G(<<>>)>>, <<"ref", "d">>) @@ ("ref" :> RefTo("C"))
                             @@ ("d" :> Node("default", <<"ref">>))
    [] shape = "dicts"    -> Rfields(<<F, G(<<>>)>>, <<"D", "d">>) @@ ("D" :> Node("dict", <<"ref">>))
                             @@ ("d" :> Node("default", <<"D">>)) @@ ("ref" :> RefTo("C"))

Referring == {"referred", "dicts"}

Schema(shape, o) ==
  LET known == ClassC(o) @@ Places(shape, Entry(o)) @@ ("R" :> Model("R", "Rf"))
  IN  IF shape \in Referring \/ o.nested
      THEN known @@ ("root" :> Node("definitions", <<"R", "C">>)) ELSE known

(* A document of R around one of C.                                        *)
Around(shape, t) ==
  CASE shape = "list" -> Nest("f", Array(<<t>>))
    [] shape = "dict" -> Nest("f", Nest("any", t))
    [] shape \in {"held", "open"} -> Nest("f", Nest("c", t))
    [] shape = "path" -> Nest("o", Nest("f", t))
    [] shape = "either" -> Nest("p", t)
    [] shape = "referred" -> Both(t, t)
    [] shape = "dicts" -> Both(Nest("any", t), Nest("any", t))
    [] OTHER -> Nest("f", t)

-----------------------------------------------------------------------------
(* migrate() takes k from an old key, and x with it; documents that are    *)
(* older still it makes old ones.  foreign() takes k from y.               *)
Has(tree, name)       == \E m \in ToSet(tree.items) : m.name = name
Adding(tree, k, v)    == Object(Append(tree.items, Member(k, Scalar(v))))
Taking(tree, from, k) == tree.tree = "object" /\ Has(tree, from) /\ ~Has(tree, k)
MCMigrate(fn, tree) ==
  CASE fn = "migrate" /\ Taking(tree, "old", "k") -> Adding(Adding(tree, "k", "old"), "x", "old")
    [] fn = "migrate" /\ Taking(tree, "older", "old") -> Adding(tree, "old", "older")
    [] fn = "foreign" /\ Taking(tree, "y", "k") -> Adding(tree, "k", "y")
    [] OTHER -> tree

Adapter(inputs, controls, requires) ==
  [inputs |-> inputs, controls |-> controls, requires |-> requires]
Adapters == { Adapter("k" :> {"old"}, {}, {}),
              Adapter("k" :> {"old"} @@ "x" :> {"old"}, {"x"}, {}),
              Adapter("k" :> {"old"}, {}, {<<"k", "x">>}),
              Adapter("z" :> {"old"}, {}, {}) }

Class(extra, byName, chain, validators) ==
  [extra |-> extra, byName |-> byName, chain |-> chain, validators |-> validators]
Simple == Class("ignore", FALSE, <<>>, {})

Question(shape, o, c, excluded, adapters) ==
  [ schema |-> Schema(shape, o), root |-> IF "root" \in DOMAIN Schema(shape, o) THEN "root" ELSE "R",
    excluded |-> excluded, adapters |-> adapters, shape |-> shape,
    classes |-> "C" :> c @@ "R" :> Simple @@ "E" :> Simple
                @@ "M" :> (IF shape = "open" THEN [Simple EXCEPT !.extra = "allow"] ELSE Simple) ]

X == "C" :> {"x"}
Extras == {"ignore", "forbid", "allow"}

(* Where C is, by how it is configured.                                    *)
Placed ==
  { Question(shape, [Plainly EXCEPT !.default = d], Class(extra, byName, <<>>, {}), X, <<>>) :
      shape \in Shapes, d \in BOOLEAN, extra \in Extras, byName \in BOOLEAN }

(* The keys of C's fields.                                                 *)
Aliased ==
  { Question(shape, [Plainly EXCEPT !.default = d, !.x = xa, !.k = ka], Class(extra, byName, <<>>, {}), X, <<>>) :
      shape \in {"direct", "dict"}, d \in BOOLEAN, extra \in Extras, byName \in BOOLEAN,
      xa \in { <<>>, << <<"y">> >>, << <<"o", "x">>, <<"y">> >> },
      ka \in { <<>>, << <<"x">> >>, << <<"o", "k">> >>, << <<Synthetic("x")>>, <<"k">> >> } }

(* C migrates its input.                                                   *)
Migrating ==
  { Question(shape, [Plainly EXCEPT !.default = d, !.own = own],
             Class(extra, FALSE, CASE own = "wrap" -> <<"migrate">> [] own = "hook" -> <<"foreign">> [] OTHER -> <<>>,
                   {"migrate"}),
             X, IF a = None THEN <<>> ELSE "C" :> a) :
      shape \in Shapes \ {"either", "after"}, d \in BOOLEAN, own \in {"none", "before", "wrap", "plain", "hook"},
      extra \in {"ignore", "allow"}, a \in Adapters \cup {None} }

(* C holds a C, has an __init__ of its own, or R excludes a field too.     *)
Others ==
  { Question(shape, [Plainly EXCEPT !.default = d, !.nested = n, !.init = i], Class(extra, FALSE, <<>>, {}), e, a) :
      shape \in {"direct", "dict", "held", "shared"}, d, n, i \in BOOLEAN, extra \in Extras,
      e \in { X, "R" :> {"f"}, X @@ "R" :> {"f"}, "C" :> {}, "C" :> {"z"}, "Z" :> {"x"}, X @@ "M" :> {"c"} },
      a \in { <<>>, "C" :> Adapter(<<>>, {}, {}), "R" :> Adapter(<<>>, {"f"}, {}) } }

MCQuestions ==
  (IF "placed" \in Asked THEN Placed ELSE {}) \cup (IF "aliased" \in Asked THEN Aliased ELSE {})
  \cup (IF "migrating" \in Asked THEN Migrating ELSE {}) \cup (IF "others" \in Asked THEN Others ELSE {})

-----------------------------------------------------------------------------
(* Documents of C: any of some members, whose values tell the keys apart.  *)
Leaves == <<"k", "x", "y", "old", "older", Synthetic("x")>>
Used(q) ==
  LET fields == q.schema["Cf"].fields
  IN  {"k", "x", Synthetic("x")} \cup UNION { KeysOf(f) : f \in ToSet(fields) }
      \cup (IF q.classes["C"].validators = {} THEN {} ELSE {"old"})
      \cup (IF q.shape = "again" THEN {"older"} ELSE {})
      \cup (IF q.shape = "foreign" \/ q.schema["Cw"].fn = "foreign" THEN {"y"} ELSE {})

CDocs(q) ==
  { LET on == SelectSeq(Leaves, LAMBDA l : l \in S)
    IN  Object([i \in DOMAIN on |-> Member(on[i], Scalar(on[i]))]
               \o (IF "o" \in S THEN << Member("o", Object(<<Member("k", Scalar("ok")), Member("x", Scalar("ox"))>>)) >>
                                ELSE <<>>)) : S \in SUBSET (Used(q) \ {"n"}) }

MCDocuments(q) ==
  LET docs == IF "n" \in Used(q)
              THEN { Object(Append(t.items, Member("n", u))) : t \in CDocs(q), u \in CDocs(q) \cup {Null} }
              ELSE CDocs(q)
  IN  { Around(q.shape, t) : t \in docs }
=============================================================================
