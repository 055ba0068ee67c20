---------------------------- MODULE PydanticReads ---------------------------
(***************************************************************************)
(* How pydantic-core validates a document by a core schema, from how       *)
(* src/python/json_projection uses it: which fields it finds, under which  *)
(* key, and what it makes of them.  An answer has the exclusions that were *)
(* `met`, that is read from the document, also when the document is no     *)
(* instance; what is below an excluded field goes with that field.         *)
(***************************************************************************)
EXTENDS CoreSchema, JsonTree

LOCAL INSTANCE SequencesExt
LOCAL INSTANCE Functions

CONSTANT Migrate(_, _)           (* what a validator makes of its input    *)

Null == Scalar("null")

(* The arguments by_name and by_alias of a validation.                     *)
Modes == {"plain", "by_name", "only_name"}

Read(value, met) == [ok |-> TRUE, value |-> value, met |-> met]
Failed(met)      == [ok |-> FALSE, value |-> None, met |-> met]
Raw(tree)        == [is |-> "raw", tree |-> tree]
Default          == [is |-> "default"]
Listed(values)   == [is |-> "list", items |-> values]
Instance(cls, fields, extras) ==
  [is |-> "model", cls |-> cls, fields |-> fields, extras |-> extras]

(* The value at a path: none, or one.                                      *)
RECURSIVE Find(_, _)
Find(tree, path) ==
  IF path = <<>> THEN <<tree>>
  ELSE IF tree.tree # "object" THEN <<>>
  ELSE LET found == SelectSeq(tree.items, LAMBDA m : m.name = Head(path))
       IN  IF found = <<>> THEN <<>> ELSE Find(Last(found).value, Tail(path))

(* Where a field is looked for, the first that is there.                   *)
Paths(x, cls, f, mode) ==
  IF f.alias = <<>> THEN << <<f.name>> >>
  ELSE (IF mode = "only_name" THEN <<>> ELSE f.alias)
       \o (IF mode # "plain" \/ x.classes[cls].byName THEN << <<f.name>> >> ELSE <<>>)

Found(x, cls, f, tree, mode) ==
  LET there == SelectSeq(Paths(x, cls, f, mode), LAMBDA path : Find(tree, path) # <<>>)
  IN  IF there = <<>> THEN <<>> ELSE Head(there)

ExcludedNames(x, cls, names) == {cls} \X (names \cap Names(x, cls))

RECURSIVE Validate(_, _, _, _, _), ReadFields(_, _, _, _, _)

ReadAll(x, g, id, trees, mode) ==
  LET read == [i \in DOMAIN trees |-> Validate(x, g, id, trees[i], mode)]
      met  == UNION { r.met : r \in Range(read) }
  IN  IF \A r \in Range(read) : r.ok THEN Read(Listed([i \in DOMAIN read |-> read[i].value]), met)
                                     ELSE Failed(met)

(* By a model-fields node.                                                 *)
ReadFields(x, g, id, tree, mode) ==
  LET n      == g[id]
      at(i)  == Found(x, n.cls, n.fields[i], tree, mode)
      here   == { i \in DOMAIN n.fields : at(i) # <<>> }
      read   == [i \in here |-> Validate(x, g, n.below[i], Find(tree, at(i))[1], mode)]
      needed == { i \in DOMAIN n.fields : ~HasDefault(g, id, i) }
      extras == { m.name : m \in ToSet(tree.items) } \ { at(i)[1] : i \in here }
      extra  == x.classes[n.cls].extra
      kept   == IF extra = "allow" THEN extras ELSE {}
      whole  == x.schema[id].fields
      met    == UNION { read[i].met : i \in { j \in here : n.fields[j].name \notin Names(x, n.cls) } }
                \cup ExcludedNames(x, n.cls, { n.fields[i].name : i \in here })
                \cup ExcludedNames(x, n.cls,
                       { f.name : f \in { w \in ToSet(whole) : KeysOf(w) \cap kept # {} } })
      names  == { n.fields[i].name : i \in DOMAIN n.fields }
      value(name) == LET i == CHOOSE j \in DOMAIN n.fields : n.fields[j].name = name
                     IN  IF i \in here THEN read[i].value ELSE Default
  IN  IF \/ ~(needed \subseteq here)
         \/ \E i \in here : ~read[i].ok
         \/ extra = "forbid" /\ extras # {}
      THEN Failed(met)
      ELSE Read(Instance(n.cls, [name \in names |-> value(name)], kept), met)

(* A class with an __init__ of its own reads by its original validator.    *)
Validate(x, g, id, tree, mode) ==
  LET n == g[id]
  IN  CASE n.t = "definition-ref" -> Validate(x, g, n.to, tree, mode)
        [] n.t = "function-plain" -> Read(Raw(tree), {})
        [] n.t \in {"function-before", "function-wrap"} ->
             Validate(x, g, n.below[1], Migrate(n.fn, tree), mode)
        [] n.t = "nullable" /\ tree = Null -> Read(Raw(tree), {})
        [] n.t \in Wrappers -> Validate(x, g, n.below[1], tree, mode)
        [] n.t = "model" /\ n.custom_init ->
             Validate(x, x.schema, x.schema[id].below[1], tree, mode)
        [] n.t = "model" -> Validate(x, g, n.below[1], tree, mode)
        [] n.t = "model-fields" /\ tree.tree = "object" -> ReadFields(x, g, id, tree, mode)
        [] n.t = "list" /\ tree.tree = "array" -> ReadAll(x, g, n.below[1], tree.items, mode)
        [] n.t = "dict" /\ tree.tree = "object" ->
             ReadAll(x, g, n.below[1], [i \in DOMAIN tree.items |-> tree.items[i].value], mode)
        [] n.t = "int" /\ tree.tree = "scalar" /\ tree # Null -> Read(Raw(tree), {})
        [] n.t = "any" -> Read(Raw(tree), {})
        [] OTHER -> Failed({})
=============================================================================
