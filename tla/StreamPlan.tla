----------------------------- MODULE StreamPlan -----------------------------
(***************************************************************************)
(* The arena a Spec tree is flattened into (src/stream/spec.rs).  The      *)
(* fields of a node come out of a HashMap in any order, so a tree has one  *)
(* layout for each order; a session must not tell them apart.              *)
(***************************************************************************)
EXTENDS Walk, FiniteSets

(* MUTANT: the length is taken after the node is pushed.                   *)
NextIndexLate(nodes) == Len(nodes) + 1

(* The number a node is about to get: nodes are numbered from 0.           *)
NextIndex(nodes) == Len(nodes)

RECURSIVE Insert(_, _), InsertFields(_, _, _)

(* The arenas `insert` can leave behind, the tree's root at NextIndex.     *)
Insert(nodes, spec) ==
  LET at    == NextIndex(nodes) + 1
      room  == Append(nodes, SKeep)
      Put(arena, node) == [arena EXCEPT ![at] = node]
  IN  CASE spec.kind \in {"Keep", "Discard"} -> {Put(room, spec)}
        [] spec.kind = "Array" ->
             { Put(arena, [kind |-> "Array", child |-> NextIndex(room)])
               : arena \in Insert(room, spec.item) }
        [] OTHER ->
             { Put(done.arena, [kind |-> spec.kind, fields |-> done.children])
               : done \in InsertFields(room, spec.fields, << >>) }

(* The fields that are not in yet, each of them possibly the next.         *)
InsertFields(nodes, fields, children) ==
  LET left == DOMAIN fields \ DOMAIN children
  IN  IF left = {} THEN {[arena |-> nodes, children |-> children]}
      ELSE UNION { UNION { InsertFields(arena, fields,
                             [ n \in DOMAIN children \cup {name} |->
                                 IF n = name THEN NextIndex(nodes)
                                             ELSE children[n] ])
                           : arena \in Insert(nodes, fields[name]) }
                   : name \in left }

(* StreamPlan::new                                                         *)
Layouts(spec) == Insert(<<>>, spec)

(* The tree an arena was made from: what the nodes mean to a session.      *)
TreeOf(plan) ==
  LET tree[n \in 0 .. Len(plan) - 1] ==
        LET node == plan[n + 1]
        IN  CASE node.kind \in {"Object", "ExcludeObject"} ->
                   [kind |-> node.kind,
                    fields |-> [name \in DOMAIN node.fields |->
                                  tree[node.fields[name]]]]
              [] node.kind = "Array" -> SArray(tree[node.child])
              [] OTHER -> node
  IN  tree[0]
=============================================================================
