----------------------------- MODULE RuleGrammar -----------------------------
(***************************************************************************)
(* Which Python objects are rules, and the rules they spell: the grammar   *)
(* that README.md gives and tests/reference.py assumes.  A heap holds the  *)
(* objects, as SpecCompile describes them.                                 *)
(***************************************************************************)
EXTENDS Integers, Sequences, SpecTree

CONSTANTS Everything, NotStr, MaxSpecDepth

IsMapping(rule)  == rule.py \in {"dict", "mapping"}
IsNames(rule)    == rule.py \in {"names", "iterator"}
OfElements(rule) == IsMapping(rule) /\ Len(rule.items) = 1 /\ rule.items[1].key = Everything

(* A function that is a sequence.                                          *)
IsSeq(s) == s \in Seq({ s[i] : i \in DOMAIN s })

(* The names that a rule mentions.                                         *)
Mentioned(rule) ==
  { IF IsMapping(rule) THEN rule.items[i].key ELSE rule.items[i]
    : i \in DOMAIN rule.items }

(* The rule that a mapping has for a member.                               *)
ForMember(rule, name) ==
  (CHOOSE e \in { rule.items[i] : i \in DOMAIN rule.items } : e.key = name).value

(* A rule, where `nested` are the rules one level deeper: True below the   *)
(* root, names, or a mapping of names to rules; "__all__" alone and not at *)
(* the root, and over what is not excluded whole.                          *)
IsRule(heap, object, atRoot, nested, excluding) ==
  LET rule == heap[object]
  IN  \/ rule.py = "bool" /\ rule.is /\ ~atRoot
      \/ IsNames(rule) /\ NotStr \notin Mentioned(rule)
      \/ /\ OfElements(rule) /\ ~atRoot
         /\ rule.items[1].value \in nested
         /\ ~(excluding /\ heap[rule.items[1].value].py = "bool")
      \/ /\ IsMapping(rule) /\ ~OfElements(rule)
         /\ \A i \in DOMAIN rule.items :
              /\ rule.items[i].key \notin {NotStr, Everything}
              /\ rule.items[i].value \in nested

(* The rules where so many more levels are let through.                    *)
RulesWithin(heap, excluding) ==
  LET within[levels \in Nat] ==
        IF levels = 0 THEN {}
        ELSE LET nested == within[levels - 1]
             IN  { o \in DOMAIN heap :
                     IsRule(heap, o, levels > MaxSpecDepth, nested, excluding) }
  IN  within

(* What a constructor accepts: rules nested no deeper than the cap.        *)
Grammatical(heap, object, depth, excluding) ==
  object \in RulesWithin(heap, excluding)[MaxSpecDepth + 1 - depth]

-----------------------------------------------------------------------------
(* What an object spells, where `nested` is what those one level deeper    *)
(* do: a name that is listed is a leaf, and a mapping has its entries.     *)
SpeltBy(heap, object, nested, excluding) ==
  LET rule         == heap[object]
      leaf         == IF excluding THEN SDiscard ELSE SKeep
      Of(rules)    == IF excluding THEN SExclude(rules) ELSE SObject(rules)
      members      == [name \in Mentioned(rule) |-> nested[ForMember(rule, name)]]
  IN  CASE IsNames(rule)                         -> Of([name \in Mentioned(rule) |-> leaf])
        [] OfElements(rule)                      -> SArray(nested[rule.items[1].value])
        [] IsMapping(rule) /\ ~OfElements(rule) -> Of(members)
        [] OTHER                                 -> leaf

SpeltWithin(heap, excluding) ==
  LET spelt[levels \in 0 .. MaxSpecDepth + 1] ==
        IF levels = 0 THEN [o \in DOMAIN heap |-> SKeep]
        ELSE [o \in DOMAIN heap |-> SpeltBy(heap, o, spelt[levels - 1], excluding)]
  IN  spelt

(* The rules that an object spells, so deep inside others.                 *)
Spelt(heap, object, depth, excluding) ==
  SpeltWithin(heap, excluding)[MaxSpecDepth + 1 - depth][object]
=============================================================================
