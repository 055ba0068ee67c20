------------------------------ MODULE Projected -----------------------------
(***************************************************************************)
(* A model read without its excluded fields (Projected of                  *)
(* python/json_projection/pydantic.py): a keep-spec is derived, a          *)
(* validator is edited, and every document is projected by the one and     *)
(* validated by the other.                                                 *)
(***************************************************************************)
EXTENDS DeriveSpec, PydanticReads

LOCAL INSTANCE SequencesExt

CONSTANTS Questions,             (* what is asked of the library           *)
          Documents(_)           (* documents to read for a question       *)

VARIABLES x, plan, validator, pc, doc, mode, read
vars == <<x, plan, validator, pc, doc, mode, read>>

Init ==
  /\ x \in Questions /\ pc = "asked"
  /\ plan = None /\ validator = None /\ doc = None /\ mode = None /\ read = None

(* projection_plan                                                         *)
Plan ==
  /\ pc = "asked" /\ plan' = Derive(x)
  /\ pc' = IF plan'.outcome = "plan" THEN "planned" ELSE "refused"
  /\ UNCHANGED <<x, validator, doc, mode, read>>

-----------------------------------------------------------------------------
(* projected_validator, which edits a copy of the schema.                  *)

Models(g) == { id \in ToSet(Under(g, x.root)) : g[id].t = "model" }

Edits(id) == { m \in { k \in DOMAIN x.schema : x.schema[k].t = "model" } :
                 FieldsNode(x.schema, m).node = id /\ Names(x, x.schema[m].cls) # {} }

(* A field that is excluded goes; one with a default is looked for where   *)
(* no document has it.                                                     *)
EditFields(id, excluded) ==
  LET n  == x.schema[id]
      on == SelectSeq([i \in DOMAIN n.fields |-> i], LAMBDA i :
              n.fields[i].name \notin excluded \/ HasDefault(x.schema, id, i))
      Hidden(f) == IF f.name \in excluded
                   THEN [f EXCEPT !.alias = << <<Synthetic(f.name)>> >>] ELSE f
  IN  [n EXCEPT !.fields = [j \in DOMAIN on |-> Hidden(n.fields[on[j]])],
                !.below  = [j \in DOMAIN on |-> n.below[on[j]]]]

Edited ==
  [ id \in DOMAIN x.schema |->
      IF Edits(id) = {} THEN x.schema[id] ELSE EditFields(id, Names(x, x.schema[id].cls)) ]

(* Why a model node cannot be read without its excluded fields.            *)
Reenters(id) == x.schema[id].custom_init /\ ReachesExcluded(x, id)

(* A retained field is looked for where an excluded one is hidden.         *)
Unhidden(fields, i, excluded) ==
  /\ HasDefault(x.schema, fields, i)
  /\ \E f \in ToSet(x.schema[fields].fields) :
       f.name \notin excluded /\ Synthetic(x.schema[fields].fields[i].name) \in KeysOf(f)

(* MUTANT: reading by name is not thought of.                              *)
GuardedForExtras(cls, fields, i) == x.classes[cls].extra \in {"forbid", "allow"}

(* The configurations that still let pydantic read an excluded key.        *)
Guarded(cls, fields, i) ==
  \/ x.classes[cls].extra \in {"forbid", "allow"}
  \/ HasDefault(x.schema, fields, i) /\ x.classes[cls].byName

RefusedModel(id, assumeProjected) ==
  LET cls      == x.schema[id].cls
      fields   == FieldsNode(x.schema, id).node
      excluded == Names(x, cls)
  IN  \/ Reenters(id)
      \/ /\ fields # None
         /\ \E i \in DOMAIN x.schema[fields].fields :
              /\ x.schema[fields].fields[i].name \in excluded
              /\ Unhidden(fields, i, excluded) \/ (~assumeProjected /\ Guarded(cls, fields, i))

(* Projected.__init__, once there is a plan.                               *)
Build ==
  /\ pc = "planned"
  /\ IF \E id \in Models(Edited) : RefusedModel(id, plan.complete)
     THEN pc' = "refused" /\ UNCHANGED validator
     ELSE pc' = "ready" /\ validator' = Edited
  /\ UNCHANGED <<x, plan, doc, mode, read>>

-----------------------------------------------------------------------------
(* Projected.validate_json                                                 *)

ProjectedRead(d, m) == Validate(x, validator, x.root, Select(d, plan.spec), m)

ValidateJson(d, m) ==
  /\ pc = "ready" /\ pc' = "answered" /\ doc' = d /\ mode' = m
  /\ read' = IF ~plan.complete /\ m # "plain" THEN None ELSE ProjectedRead(d, m)
  /\ UNCHANGED <<x, plan, validator>>

Return ==
  /\ pc = "answered" /\ pc' = "ready" /\ doc' = None /\ mode' = None /\ read' = None
  /\ UNCHANGED <<x, plan, validator>>

Refused == pc = "refused" /\ UNCHANGED vars

Next == \/ Plan \/ Build \/ Return \/ Refused
        \/ \E d \in Documents(x), m \in Modes : ValidateJson(d, m)

Spec == Init /\ [][Next]_vars

-----------------------------------------------------------------------------
(* What the properties speak of.                                           *)

(* A document in which no name is the one an excluded field is hidden by.  *)
RECURSIVE Ordinary(_)
Ordinary(tree) ==
  CASE tree.tree = "scalar" -> TRUE
    [] tree.tree = "array"  -> \A e \in ToSet(tree.items) : Ordinary(e)
    [] OTHER -> \A m \in ToSet(tree.items) :
                  Ordinary(m.value) /\ \A e \in Exclusions(x) : m.name # Synthetic(e[2])

Whole(d, m) == Validate(x, x.schema, x.root, d, m)

(* The fields that a class has by the schema, and those with a default.    *)
FieldsOf(cls) ==
  UNION { ToSet(x.schema[id].fields) : id \in
            { n \in DOMAIN x.schema : x.schema[n].t = "model-fields" /\ x.schema[n].cls = cls } }
Defaulted(cls) ==
  UNION { { x.schema[id].fields[i].name : i \in { j \in DOMAIN x.schema[id].fields : HasDefault(x.schema, id, j) } } :
            id \in { n \in DOMAIN x.schema : x.schema[n].t = "model-fields" /\ x.schema[n].cls = cls } }

(* What was read, less what is excluded.  Of its extras a class that has   *)
(* an excluded field has only those under a key of a retained one          *)
(* (README.md, "Extras").                                                  *)
RECURSIVE Without(_)
Without(value) ==
  CASE value.is = "list"  -> Listed([i \in DOMAIN value.items |-> Without(value.items[i])])
    [] value.is = "model" ->
         LET gone == Names(x, value.cls)
             left == { n \in DOMAIN value.fields : n \in gone => n \in Defaulted(value.cls) }
             keys == UNION { KeysOf(f) : f \in { h \in FieldsOf(value.cls) : h.name \notin gone } }
         IN  Instance(value.cls,
               [n \in left |-> IF n \in gone THEN Default ELSE Without(value.fields[n])],
               IF gone = {} THEN value.extras ELSE value.extras \cap keys)
    [] OTHER -> value

(* The classes met on the way through what is retained, one for each       *)
(* occurrence, a class inside itself left out.                             *)
RECURSIVE Occurrences(_, _)
Occurrences(id, seen) ==
  LET n == x.schema[id]
      below == IF n.t = "definition-ref" THEN <<n.to>>
               ELSE IF n.t = "definitions" THEN <<n.below[1]>>
               ELSE IF n.t = "model-fields"
               THEN LET on == SelectSeq([i \in DOMAIN n.fields |-> i],
                                LAMBDA i : n.fields[i].name \notin Names(x, n.cls))
                    IN  [j \in DOMAIN on |-> n.below[on[j]]]
               ELSE n.below
      own == IF n.t = "model" THEN <<n.cls>> ELSE <<>>
  IN  IF ToSet(own) \cap seen # {} THEN <<>>
      ELSE own \o FlattenSeq([i \in DOMAIN below |-> Occurrences(below[i], seen \cup ToSet(own))])

(* The classes whose adapter has something to say: one that allows extras  *)
(* and has no excluded field is kept as it is, and so is one without       *)
(* fields (README.md, "Extras", and pydantic.py:812).                      *)
Consultable(cls) ==
  /\ cls \in DOMAIN x.adapters
  /\ ~(x.classes[cls].extra = "allow" /\ Names(x, cls) = {})
  /\ \A m \in DOMAIN x.schema :
       x.schema[m].t = "model" /\ x.schema[m].cls = cls => FieldsNode(x.schema, m).node # None

-----------------------------------------------------------------------------
(* No value of an excluded field is read from a document, by whatever key  *)
(* and however deep, nor kept as an extra; only the literal alias a field  *)
(* is hidden by is, in a plan that is not complete (projected_validator    *)
(* and Projected).                                                         *)
ExcludedNeverRead ==
  read # None /\ (plan.complete \/ Ordinary(doc)) => read.met = {}

(* What the model reads from a document as it is, the projected document   *)
(* and the edited validator read the same: retained fields have their      *)
(* values and excluded ones their default or nothing (Projected).          *)
RetainedReadsTheSame ==
  read # None /\ (plan.complete \/ Ordinary(doc)) =>
    LET whole == Whole(doc, mode)
    IN  whole.ok => read.ok /\ read.value = Without(whole.value)

(* An excluded field that the original model can still read from a         *)
(* projected document is named by a fallback, so that a plan without any   *)
(* is complete (ProjectionPlan).                                           *)
SurvivorsAreReported ==
  pc = "planned" =>
    \A d \in Documents(x), m \in Modes :
      Whole(Select(d, plan.spec), m).met \subseteq UNION plan.fallbacks

(* A plan is only made if every adapter whose class occurs in what is      *)
(* retained, also where it is kept whole, was asked and did not refuse     *)
(* ("An adapter has to see every occurrence of its class", opaque).        *)
AdaptersAreConsulted ==
  pc = "planned" =>
    \A cls \in ToSet(Occurrences(x.root, {})) : Consultable(cls) => cls \in ToSet(plan.calls)

(* "Adapters run once per occurrence of the class, including occurrences   *)
(* inside subtrees the projection has to keep whole" (README.md:219).      *)
OncePerOccurrence ==
  pc = "planned" =>
    \A cls \in DOMAIN x.adapters :
      LET Of(classes) == Len(SelectSeq(classes, LAMBDA c : c = cls))
      IN  Consultable(cls) => Of(plan.calls) >= Of(Occurrences(x.root, {}))

(* "a document that contains that literal key still populates the field.   *)
(* `Projected` strips it." (README.md:283)                                 *)
SyntheticKeyStripped == read # None /\ read.ok => read.met = {}
=============================================================================
