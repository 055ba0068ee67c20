----------------------------- MODULE PlanShape ------------------------------
(***************************************************************************)
(* The shape of an arena of nodes (src/stream/spec.rs): what the compiler  *)
(* and the flattening make, and what a session relies on.                  *)
(***************************************************************************)
EXTENDS Integers, Sequences

NodeKind == {"Keep", "Discard", "Object", "ExcludeObject", "Array"}

(* An arena refers only to its own nodes, and its root selects members.    *)
WellFormed(p) ==
  /\ Len(p) \in Nat \ {0}
  /\ p[1].kind \in {"Object", "ExcludeObject"}
  /\ \A i \in 1 .. Len(p) :
       /\ p[i].kind \in NodeKind
       /\ p[i].kind \in {"Object", "ExcludeObject"} =>
            \A name \in DOMAIN p[i].fields : p[i].fields[name] \in 1 .. Len(p) - 1
       /\ p[i].kind = "Array" => p[i].child \in 1 .. Len(p) - 1
=============================================================================
