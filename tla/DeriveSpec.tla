----------------------------- MODULE DeriveSpec -----------------------------
(***************************************************************************)
(* The keep-spec of a model without its excluded fields (_derive_spec of   *)
(* python/json_projection/pydantic.py).  What its calls share is `st`: the *)
(* fallbacks, each the exclusions it may break, the classes `derived`, the *)
(* `calls` of adapters, and whether one of them has `refused`.             *)
(*                                                                         *)
(* An adapter is one that migration_adapter makes of single keys; KeepPath *)
(* has the longer paths.  No key is "__all__".                             *)
(***************************************************************************)
EXTENDS CoreSchema, SpecTree, TLC

LOCAL INSTANCE SequencesExt

Answer(spec, st) == [spec |-> spec, st |-> st]

Record(x, st, id) ==
  IF ReachesExcluded(x, id) THEN [st EXCEPT !.fallbacks = @ \cup {Affected(x, id)}] ELSE st

(* _adapted_model_behind: an adapter speaks for the wrappers that its      *)
(* class's own schema has, if they are validators of the class.            *)
AdaptedModel(x, id) ==
  LET model == OuterWrappers(x.schema, id).model
  IN  IF model # None /\ x.schema[model].cls \in DOMAIN x.adapters THEN model ELSE None

(* MUTANT: the adapter speaks for any validator of its class.              *)
OwnModelBehindAny(x, id) ==
  LET model == AdaptedModel(x, id)
  IN  IF /\ model # None
         /\ ToSet(OuterWrappers(x.schema, id).chain) \subseteq x.classes[x.schema[model].cls].validators
      THEN model ELSE None

OwnModelBehind(x, id) ==
  LET model == AdaptedModel(x, id)
      chain == OuterWrappers(x.schema, id).chain
      class == x.classes[x.schema[model].cls]
  IN  IF model # None /\ chain = class.chain /\ ToSet(chain) \subseteq class.validators
      THEN model ELSE None

(* migration_adapter: what its adapter makes of one occurrence.            *)
Refuses(adapter, declared, retained) ==
  \/ ~(DOMAIN adapter.inputs \cup UNION { {r[1], r[2]} : r \in adapter.requires } \subseteq declared)
  \/ \E r \in adapter.requires : r[1] \in retained /\ r[2] \notin retained

KeptFor(adapter, retained) ==
  adapter.controls \cup UNION { adapter.inputs[f] : f \in retained \cap DOMAIN adapter.inputs }

Adapted(x, st, id, retained, out) ==
  LET cls     == x.schema[id].cls
      adapter == x.adapters[cls]
      refused == Refuses(adapter, Declared(x, FieldsNode(x.schema, id).node), retained)
  IN  Answer(SObject([k \in KeptFor(adapter, retained) |-> SKeep] @@ out),
             Record(x, [st EXCEPT !.calls = Append(@, cls), !.refused = @ \/ refused], id))

(* Excluded fields that are still found under a key that is kept.          *)
Retaining(x, cls, fields, out) ==
  { {<<cls, x.schema[fields].fields[i].name>>} : i \in { j \in DOMAIN x.schema[fields].fields :
      LET f == x.schema[fields].fields[j]
      IN  /\ f.name \in Names(x, cls)
          /\ DOMAIN out \cap (KeysOf(f) \cup
               IF HasDefault(x.schema, fields, j) THEN {Synthetic(f.name)} ELSE {}) # {} } }

(* The adapter of a class that was derived before is not asked again.      *)
(* MUTANT: the adapters below what is kept whole are left alone.           *)
NotAskedBelow(x, st, model) == FALSE

NotAsked(x, st, model) == x.schema[model].cls \in DOMAIN x.adapters \ st.derived

RECURSIVE SpecFor(_, _, _, _)

(* opaque: all of it is kept, and the adapters below are asked for what    *)
(* they refuse.                                                            *)
KeepWhole(x, st, id, seen) ==
  LET Ask(s, m) ==
        IF NotAsked(x, s, m) THEN [SpecFor(x, s, m, seen).st EXCEPT !.fallbacks = s.fallbacks] ELSE s
  IN  Answer(SKeep, FoldLeft(Ask, Record(x, st, id), SubtreeModels(x.schema, id)))

(* The schemas that have described a key so far.                           *)
(* MUTANT: only the one before is remembered.                              *)
SourcesOfTwo(acc, key, schema) ==
  IF key \in DOMAIN acc.sources /\ acc.sources[key] # <<>>
  THEN << Last(acc.sources[key]), schema >> ELSE <<schema>>

Sources(acc, key, schema) ==
  LET before == IF key \in DOMAIN acc.sources THEN acc.sources[key] ELSE <<>>
  IN  IF schema \in ToSet(before) THEN before ELSE Append(before, schema)

(* The value of one key, which other fields may have described before; if  *)
(* they differ it is kept whole, and so is what every one of them has.     *)
AddKey(acc, k, schema, sub) ==
  LET value == IF k.direct THEN sub ELSE SKeep
      all   == Sources(acc, k.key, schema)
      clash == k.key \in DOMAIN acc.out /\ acc.out[k.key] # value
  IN  [ acc EXCEPT !.out     = (k.key :> IF clash THEN SKeep ELSE value) @@ @,
                   !.sources = (k.key :> IF clash THEN <<>> ELSE all) @@ @,
                   !.whole   = @ \o (IF k.direct THEN <<>> ELSE <<schema>>)
                                 \o (IF clash THEN all ELSE <<>>) ]

(* The fields that are retained, one after the other: each is described,   *)
(* put under its keys, and what that keeps whole is kept.                  *)
FieldSpecs(x, st, fields, excluded, seen) ==
  LET n == x.schema[fields]
      Add(acc, i) ==
        LET sub == SpecFor(x, acc.st, n.below[i], seen)
            Key(a, k) == AddKey(a, k, n.below[i], sub.spec)
            keys == FoldLeft(Key, [acc EXCEPT !.whole = <<>>], FieldKeys(n.fields[i]))
            Whole(s, id) == KeepWhole(x, s, id, seen).st
        IN  IF n.fields[i].name \in excluded THEN acc
            ELSE [keys EXCEPT !.st = FoldLeft(Whole, sub.st, keys.whole)]
  IN  FoldLeft(Add, [out |-> <<>>, sources |-> <<>>, whole |-> <<>>, st |-> st],
               [i \in DOMAIN n.fields |-> i])

(* The branch of spec_for for a model: what its fields came to, or all of  *)
(* it is kept whole.                                                       *)
Described(x, id, fields, all) ==
  LET cls  == x.schema[id].cls
      done == [all.st EXCEPT !.fallbacks = @ \cup Retaining(x, cls, fields, all.out)]
  IN  IF cls \in DOMAIN x.adapters
      THEN Adapted(x, done, id, Declared(x, fields) \ Names(x, cls), all.out)
      ELSE Answer(SObject(all.out), done)

ModelSpec(x, st, id, seen) ==
  LET cls   == x.schema[id].cls
      inner == seen \cup {cls}
      own   == FieldsNode(x.schema, id)
  IN  IF \/ cls \in seen
         \/ x.classes[cls].extra = "allow" /\ Names(x, cls) = {}
         \/ own.opaque /\ cls \notin DOMAIN x.adapters
         \/ own.node = None
      THEN KeepWhole(x, st, id, inner)
      ELSE Described(x, id, own.node, FieldSpecs(x, st, own.node, Names(x, cls), inner))

SpecFor(x, st, id, seen) ==
  LET n == x.schema[id]
  IN  CASE n.t = "definition-ref" -> SpecFor(x, st, n.to, seen)
        [] n.t \in OpaqueWrappers ->
             IF OwnModelBehind(x, id) # None THEN SpecFor(x, st, OwnModelBehind(x, id), seen)
                                             ELSE KeepWhole(x, st, id, seen)
        [] n.t \in {"definitions", "nullable", "default", "function-after"} ->
             SpecFor(x, st, n.below[1], seen)
        [] n.t = "list" -> LET item == SpecFor(x, st, n.below[1], seen)
                           IN  Answer(SArray(item.spec), item.st)
        [] n.t = "model" -> ModelSpec(x, [st EXCEPT !.derived = @ \cup {n.cls}], id, seen)
        [] OTHER -> KeepWhole(x, st, id, seen)

(* _derive_spec, from what it checks first to the plan it answers with.    *)
Derive(x) ==
  LET start  == [fallbacks |-> {}, derived |-> {}, calls |-> <<>>, refused |-> FALSE]
      root   == SpecFor(x, start, x.root, {})
      absent == DOMAIN x.adapters \ ClassesUnder(x, x.root)
  IN  IF ~Known(x) \/ root.st.refused \/ absent # {} THEN [outcome |-> "ValueError"]
      ELSE IF root.spec = SKeep THEN [outcome |-> "TypeError"]
      ELSE [ outcome |-> "plan", spec |-> root.spec, complete |-> root.st.fallbacks = {},
             fallbacks |-> root.st.fallbacks, calls |-> root.st.calls ]
=============================================================================
