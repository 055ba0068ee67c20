----------------------------- MODULE CoreSchema -----------------------------
(***************************************************************************)
(* pydantic's core schemas and how python/json_projection/pydantic.py      *)
(* walks them.  A schema takes a node to a record: `t` is its type and     *)
(* `below` the schemas it holds, in order.  A "definition-ref" has the     *)
(* node it refers to as `to`, a "model" its `cls` and whether it has a     *)
(* `custom_init`, a function its `fn`, a "model-fields" its `fields`, one  *)
(* for each schema below it, with the paths of their aliases.              *)
(*                                                                         *)
(* A question `x` puts together a schema, its `root`, the classes in it,   *)
(* the names that are `excluded` of some and the `adapters` of some.       *)
(***************************************************************************)
EXTENDS Naturals, Sequences, FiniteSets

LOCAL INSTANCE SequencesExt

CONSTANT None

OpaqueWrappers == {"function-before", "function-wrap", "function-plain"}
Wrappers == OpaqueWrappers \cup
            {"default", "nullable", "definitions", "definition-ref", "function-after"}

Node(t, below) == [t |-> t, below |-> below]

(* _walk: the nodes at or below a node, in the order they are met.         *)
RECURSIVE Under(_, _)
Under(g, id) ==
  <<id>> \o FlattenSeq([i \in DOMAIN g[id].below |-> Under(g, g[id].below[i])])

(* _subtree_models, which follows every reference once, the last first.    *)
RECURSIVE Gather(_, _, _)
Gather(g, pending, refs) ==
  IF pending = <<>> THEN <<>>
  ELSE LET nodes == Under(g, Last(pending))
           New(found, id) ==
             IF g[id].t = "definition-ref" /\ g[id].to \notin refs \cup ToSet(found)
             THEN Append(found, g[id].to) ELSE found
           met == FoldLeft(New, <<>>, nodes)
       IN  SelectSeq(nodes, LAMBDA id : g[id].t = "model")
           \o Gather(g, Front(pending) \o met, refs \cup ToSet(met))

SubtreeModels(g, id) == Gather(g, <<id>>, {})

(* From a node through wrappers to what they wrap (_fields_node and        *)
(* _outer_wrappers).                                                       *)
RECURSIVE Through(_, _)
Through(g, id) ==
  LET n == g[id]
  IN  IF n.t = "definition-ref" THEN <<id>> \o Through(g, n.to)
      ELSE IF n.t \in Wrappers /\ n.below # <<>> THEN <<id>> \o Through(g, n.below[1])
      ELSE <<id>>

Opaque(g, ids) == SelectSeq(ids, LAMBDA id : g[id].t \in OpaqueWrappers)

FieldsNode(g, model) ==
  LET way == Through(g, g[model].below[1])
  IN  [ node |-> IF g[Last(way)].t = "model-fields" THEN Last(way) ELSE None,
        opaque |-> Opaque(g, way) # <<>> ]

OuterWrappers(g, id) ==
  LET way   == Through(g, id)
      chain == Opaque(g, way)
  IN  [ model |-> IF g[Last(way)].t = "model" THEN Last(way) ELSE None,
        chain |-> [i \in DOMAIN chain |-> g[chain[i]].fn] ]

(* The keys under which a field is looked for; under one that is not       *)
(* `direct` stands an object that the field is somewhere inside.           *)
FieldKeys(f) ==
  LET aliases == [i \in DOMAIN f.alias |-> [key |-> f.alias[i][1], direct |-> Len(f.alias[i]) = 1]]
      Once(keys, k) == IF k \in ToSet(keys) THEN keys ELSE Append(keys, k)
  IN  FoldLeft(Once, <<>>, Append(aliases, [key |-> f.name, direct |-> TRUE]))

KeysOf(f) == { k.key : k \in ToSet(FieldKeys(f)) }

-----------------------------------------------------------------------------
(* What is excluded.                                                       *)

Names(x, cls) == IF cls \in DOMAIN x.excluded THEN x.excluded[cls] ELSE {}

Exclusions(x) == UNION { {cls} \X x.excluded[cls] : cls \in DOMAIN x.excluded }

ClassesUnder(x, id) == { x.schema[m].cls : m \in ToSet(SubtreeModels(x.schema, id)) }

Affected(x, id) == { e \in Exclusions(x) : e[1] \in ClassesUnder(x, id) }

ReachesExcluded(x, id) == Affected(x, id) # {}

Declared(x, fields) == { x.schema[fields].fields[i].name : i \in DOMAIN x.schema[fields].fields }

(* _validate_excluded: every class and every name is somewhere.            *)
Known(x) ==
  /\ DOMAIN x.excluded \subseteq ClassesUnder(x, x.root)
  /\ \A e \in Exclusions(x) :
       \E m \in ToSet(SubtreeModels(x.schema, x.root)) :
         /\ x.schema[m].cls = e[1]
         /\ LET fields == FieldsNode(x.schema, m).node
            IN  fields # None /\ e[2] \in Declared(x, fields)

(* The alias an excluded field with a default is looked for under.         *)
Synthetic(name) == "excluded:" \o name

HasDefault(g, fields, i) == g[g[fields].below[i]].t = "default"
=============================================================================
