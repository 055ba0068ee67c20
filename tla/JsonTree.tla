------------------------------ MODULE JsonTree ------------------------------
(***************************************************************************)
(* The projection of a parsed document, as tests/reference.py defines it:  *)
(* an object is the sequence of its members, so that duplicates and their  *)
(* order count; a scalar is its bytes.                                     *)
(***************************************************************************)
EXTENDS Sequences, SpecTree

Object(members)     == [tree |-> "object", items |-> members]
Array(elements)     == [tree |-> "array", items |-> elements]
Scalar(bytes)       == [tree |-> "scalar", items |-> bytes]
Member(name, value) == [name |-> name, value |-> value]

-----------------------------------------------------------------------------
(* reference_project and reference_exclude, by the compiled rule.          *)

RECURSIVE Select(_, _)
Select(tree, spec) ==
  CASE spec.kind = "Object" /\ tree.tree = "object" ->
         LET kept == SelectSeq(tree.items, LAMBDA m :
                       /\ m.name \in DOMAIN spec.fields
                       /\ spec.fields[m.name].kind # "Discard")
         IN  Object([i \in DOMAIN kept |->
               Member(kept[i].name, Select(kept[i].value, spec.fields[kept[i].name]))])
    [] spec.kind = "ExcludeObject" /\ tree.tree = "object" ->
         LET kept == SelectSeq(tree.items, LAMBDA m :
                       m.name \in DOMAIN spec.fields =>
                         spec.fields[m.name].kind # "Discard")
         IN  Object([i \in DOMAIN kept |->
               Member(kept[i].name,
                 IF kept[i].name \in DOMAIN spec.fields
                 THEN Select(kept[i].value, spec.fields[kept[i].name])
                 ELSE kept[i].value)])
    [] spec.kind = "Array" /\ tree.tree = "array" ->
         Array([i \in DOMAIN tree.items |-> Select(tree.items[i], spec.item)])
    [] OTHER -> tree
=============================================================================
