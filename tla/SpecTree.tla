------------------------------ MODULE SpecTree ------------------------------
(***************************************************************************)
(* Compiled rules (enum Spec of src/spec.rs): a tree of records tagged by  *)
(* `kind`, in which `fields` takes a name to the rule of its member and    *)
(* `item` is the rule of every element.                                    *)
(***************************************************************************)
SKeep             == [kind |-> "Keep"]
SDiscard          == [kind |-> "Discard"]
SObject(fields)   == [kind |-> "Object", fields |-> fields]
SExclude(fields)  == [kind |-> "ExcludeObject", fields |-> fields]
SArray(item)      == [kind |-> "Array", item |-> item]
=============================================================================
