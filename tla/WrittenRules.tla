---------------------------- MODULE WrittenRules ----------------------------
(***************************************************************************)
(* What rules written in Python mean, without compiling them: the          *)
(* references of tests/reference.py, on the objects of RuleGrammar.        *)
(***************************************************************************)
EXTENDS Reference, RuleGrammar

(* A member named with True, or in a list of names: all of it.             *)
Wholly(heap, rule, name) ==
  IsNames(rule) \/ heap[ForMember(rule, name)].py = "bool"

RECURSIVE SelectWritten(_, _, _, _)

(* reference_project and reference_exclude on a parsed document.           *)
SelectWritten(tree, heap, object, excluding) ==
  LET rule == heap[object]
      Kept(m) == IF excluding
                 THEN m.name \in Mentioned(rule) => ~Wholly(heap, rule, m.name)
                 ELSE m.name \in Mentioned(rule)
      Inside(m) == IF m.name \in Mentioned(rule) /\ ~Wholly(heap, rule, m.name)
                   THEN Member(m.name, SelectWritten(m.value, heap,
                                         ForMember(rule, m.name), excluding))
                   ELSE m
      kept == SelectSeq(tree.items, Kept)
  IN  CASE rule.py = "bool" -> tree
        [] OfElements(rule) /\ tree.tree = "array" ->
             Array([ i \in DOMAIN tree.items |->
                       SelectWritten(tree.items[i], heap, rule.items[1].value, excluding) ])
        [] ~OfElements(rule) /\ rule.py # "bool" /\ tree.tree = "object" ->
             Object([ i \in DOMAIN kept |-> Inside(kept[i]) ])
        [] OTHER -> tree
=============================================================================
