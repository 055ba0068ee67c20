---------------------------- MODULE SpecCompile -----------------------------
(***************************************************************************)
(* Compiling rules written in Python into a Spec (src/spec.rs).  The calls *)
(* of from_py in progress are `frames`, so that a rule's depth is their    *)
(* number.  Python code may run when a mapping that is no dict is copied   *)
(* or an iterator is asked for a name, and may change the rules meanwhile. *)
(*                                                                         *)
(* A Python object is a record tagged by `py`: "bool" (`is`), "dict" or    *)
(* "mapping" (`items`: its entries, in order), "names" for a list or a set *)
(* and "iterator" (`items`: the strings left), "str", or "other".          *)
(***************************************************************************)
EXTENDS RuleGrammar

CONSTANTS
  Heaps,          (* objects by identity: what a caller may pass, and     *)
  Root,           (* the one it passes                                     *)
  Meddled(_)      (* heaps that Python code may leave behind               *)

ASSUME DepthAssumption == MaxSpecDepth \in Nat

(* A mapping holds objects that are there, each under a key of its own.    *)
IsHeap(h) ==
  \A o \in DOMAIN h :
    /\ "py" \in DOMAIN h[o]
    /\ IsMapping(h[o]) \/ IsNames(h[o]) => "items" \in DOMAIN h[o] /\ IsSeq(h[o].items)
    /\ IsMapping(h[o]) => \A i \in DOMAIN h[o].items : h[o].items[i].value \in DOMAIN h
    /\ IsMapping(h[o]) => \A i, j \in DOMAIN h[o].items :
                            h[o].items[i].key = h[o].items[j].key => i = j

ASSUME HeapAssumption == \A h \in Heaps : Root \in DOMAIN h /\ IsHeap(h)

(* What is in an object may change, but not what it is.                    *)
SameObjects(before, after) ==
  DOMAIN after = DOMAIN before /\ \A o \in DOMAIN before : after[o].py = before[o].py

VARIABLES
  heap,
  excluding,      (* Projection.excluding, or Projection                   *)
  frames,         (* calls of from_py waiting for another, or iterating    *)
  value,          (* the object the innermost call compiles                *)
  result,         (* the rule the last call returned                       *)
  pc,
  outcome,        (* what the constructor returned or raised               *)
  written,        (* history: the rules as they were passed,               *)
  past,           (* all that they have been,                              *)
  calm            (* and whether Python code left them, no iterator was    *)
                  (* spent and each could be had                           *)

input == <<excluding, written>>
vars  == <<input, heap, past, calm, frames, value, result, pc, outcome>>

Running      == [kind |-> "running", spec |-> SKeep]
Compiled(s)  == [kind |-> "compiled", spec |-> s]
Error(kind)  == [kind |-> kind, spec |-> SKeep]

(* MUTANT: a leaf is kept in either mode.                                  *)
LeafKept         == SKeep

Leaf             == IF excluding THEN SDiscard ELSE SKeep
Selecting(rules) == IF excluding THEN SExclude(rules) ELSE SObject(rules)

(* A map after an insertion.                                               *)
WithRule(rules, name, rule) ==
  [n \in DOMAIN rules \cup {name} |-> IF n = name THEN rule ELSE rules[n]]

(* The only entry is "__all__".                                            *)
IsWildcard(items) == Len(items) = 1 /\ items[1].key = Everything

Entries(source, items) ==
  [wait |-> "member", of |-> source, rules |-> <<>>, key |-> NotStr, rest |-> items]
AwaitElement == [wait |-> "element"]
Naming(it)   == [wait |-> "name", it |-> it, rules |-> <<>>]

Top       == frames[Len(frames)]
Below     == SubSeq(frames, 1, Len(frames) - 1)
OnTop(f)  == [frames EXCEPT ![Len(frames)] = f]

Init ==
  /\ heap \in Heaps /\ excluding \in BOOLEAN
  /\ frames = <<>> /\ value = Root /\ result = SKeep
  /\ pc = "enter" /\ outcome = Running
  /\ written = heap /\ past = {heap} /\ calm = TRUE

-----------------------------------------------------------------------------
(* How a step ends: with an exception, with a rule, or with another call.  *)

Fail(kind) ==
  /\ pc' = "done" /\ outcome' = Error(kind) /\ frames' = <<>>
  /\ UNCHANGED <<value, result>>

(* The innermost call returns; `waiting` are the calls around it.          *)
Return(rule, waiting) ==
  /\ pc' = "return" /\ result' = rule /\ frames' = waiting
  /\ UNCHANGED <<value, outcome>>

Call(object, waiting) ==
  /\ pc' = "enter" /\ value' = object /\ frames' = waiting
  /\ UNCHANGED <<result, outcome>>

Loop(waiting, at) ==
  /\ pc' = at /\ frames' = waiting
  /\ UNCHANGED <<value, result, outcome>>

NoPython == UNCHANGED <<heap, past, calm>>

(* Python code runs, starting from the given heap.                         *)
Meddles(before) ==
  /\ heap' \in Meddled(before) /\ IsHeap(heap') /\ SameObjects(before, heap')
  /\ past' = past \cup {heap'}

Python(before) == Meddles(before) /\ calm' = (calm /\ heap' = before)

-----------------------------------------------------------------------------
(* from_py, by the type of its argument.                                   *)

TooDeep ==
  /\ pc = "enter" /\ Len(frames) > MaxSpecDepth
  /\ Fail("TypeError") /\ NoPython /\ UNCHANGED input

(* MUTANT: a value is entered however deep it is.                          *)
EnterAnyDepth(py) == pc = "enter" /\ heap[value].py = py /\ UNCHANGED input

Enter(py) ==
  /\ pc = "enter" /\ Len(frames) <= MaxSpecDepth /\ heap[value].py = py
  /\ UNCHANGED input

Bool ==
  /\ Enter("bool") /\ NoPython
  /\ IF heap[value].is /\ frames # <<>> THEN Return(Leaf, frames)
                                        ELSE Fail("TypeError")

(* The arm for dicts, on entries that have been copied out.                *)
Open(items) ==
  IF ~IsWildcard(items) THEN Loop(Append(frames, Entries(value, items)), "next")
  ELSE IF frames = <<>> THEN Fail("TypeError")
  ELSE Call(items[1].value, Append(frames, AwaitElement))

Dict == Enter("dict") /\ NoPython /\ Open(heap[value].items)

(* Any other mapping goes through a dict copy, which its own code fills.   *)
Mapping ==
  /\ Enter("mapping") /\ Python(heap)
  /\ Open(heap[value].items) \/ Open(heap'[value].items) \/ Fail("raised")

(* A str, or what cannot be iterated.                                      *)
Scalar == (Enter("str") \/ Enter("other")) /\ NoPython /\ Fail("TypeError")

(* A list or a set: no Python code runs while it is iterated.              *)
Names ==
  /\ Enter("names") /\ NoPython
  /\ LET names == { heap[value].items[i] : i \in DOMAIN heap[value].items }
     IN  IF NotStr \in names THEN Fail("TypeError")
                             ELSE Return(Selecting([n \in names |-> Leaf]), frames)

(* What goes wrong when it is asked for its iterator is a TypeError; an    *)
(* exception when it is asked for `keys` propagates.                       *)
Iterator ==
  /\ Enter("iterator") /\ Meddles(heap)
  /\ \/ /\ Loop(Append(frames, Naming(value)), "names")
        /\ calm' = (calm /\ heap' = heap /\ heap[value] = written[value])
     \/ /\ \E kind \in {"TypeError", "raised"} : Fail(kind)
        /\ calm' = FALSE

(* MUTANT: a name that is not a str is passed over.                        *)
NextNameLax ==
  /\ pc = "names" /\ heap[Top.it].items # <<>>
  /\ LET name == Head(heap[Top.it].items)
     IN  IF name = NotStr THEN Loop(frames, "names")
         ELSE Loop(OnTop([Top EXCEPT !.rules = WithRule(@, name, Leaf)]), "names")
  /\ Python([heap EXCEPT ![Top.it].items = Tail(@)])
  /\ UNCHANGED input

NextName ==
  /\ pc = "names" /\ heap[Top.it].items # <<>>
  /\ LET name == Head(heap[Top.it].items)
     IN  \/ name # NotStr
            /\ Loop(OnTop([Top EXCEPT !.rules = WithRule(@, name, Leaf)]), "names")
         \/ name = NotStr /\ Fail("TypeError")
         \/ Fail("raised")
  /\ Python([heap EXCEPT ![Top.it].items = Tail(@)])
  /\ UNCHANGED input

NamesEnd ==
  /\ pc = "names" /\ heap[Top.it].items = <<>>
  /\ Return(Selecting(Top.rules), Below)
  /\ Python(heap) /\ UNCHANGED input

-----------------------------------------------------------------------------
(* The loop over the entries of a dict, and what becomes of a rule.        *)

(* MUTANT: the entries are read from the dict as it is by now.             *)
NextEntryLive ==
  /\ pc = "next" /\ Top.rest # <<>>
  /\ LET left == SelectSeq(heap[Top.of].items, LAMBDA e : e.key \notin DOMAIN Top.rules)
     IN  IF left = <<>> THEN Return(Selecting(Top.rules), Below)
         ELSE IF Head(left).key \in {NotStr, Everything} THEN Fail("TypeError")
         ELSE Call(Head(left).value,
                   OnTop([Top EXCEPT !.key = Head(left).key, !.rest = Tail(left)]))
  /\ NoPython /\ UNCHANGED input

(* MUTANT: an entry is not taken off.                                      *)
NextEntryAgain ==
  /\ pc = "next" /\ Top.rest # <<>>
  /\ LET entry == Head(Top.rest)
     IN  IF entry.key \in {NotStr, Everything} THEN Fail("TypeError")
         ELSE Call(entry.value, OnTop([Top EXCEPT !.key = entry.key]))
  /\ NoPython /\ UNCHANGED input

NextEntry ==
  /\ pc = "next" /\ Top.rest # <<>>
  /\ LET entry == Head(Top.rest)
     IN  IF entry.key \in {NotStr, Everything} THEN Fail("TypeError")
         ELSE Call(entry.value,
                   OnTop([Top EXCEPT !.key = entry.key, !.rest = Tail(@)]))
  /\ NoPython /\ UNCHANGED input

(* MUTANT: a mapping without entries is taken for True.                    *)
EntriesEndEmpty ==
  /\ pc = "next" /\ Top.rest = <<>>
  /\ Return(IF DOMAIN Top.rules = {} THEN Leaf ELSE Selecting(Top.rules), Below)
  /\ NoPython /\ UNCHANGED input

EntriesEnd ==
  /\ pc = "next" /\ Top.rest = <<>>
  /\ Return(Selecting(Top.rules), Below)
  /\ NoPython /\ UNCHANGED input

InsertMember ==
  /\ pc = "return" /\ frames # <<>> /\ Top.wait = "member"
  /\ Loop(OnTop([Top EXCEPT !.rules = WithRule(@, Top.key, result)]), "next")
  /\ NoPython /\ UNCHANGED input

(* MUTANT: an element's rule is not looked at.                             *)
WrapElementLax ==
  /\ pc = "return" /\ frames # <<>> /\ Top.wait = "element"
  /\ Return(SArray(result), Below)
  /\ NoPython /\ UNCHANGED input

(* An array has no way to lose an element.                                 *)
WrapElement ==
  /\ pc = "return" /\ frames # <<>> /\ Top.wait = "element"
  /\ IF result = SDiscard THEN Fail("TypeError")
                          ELSE Return(SArray(result), Below)
  /\ NoPython /\ UNCHANGED input

(* from_py_root_mode: only the rules of an object are given out.           *)
Finish ==
  /\ pc = "return" /\ frames = <<>>
  /\ pc' = "done"
  /\ outcome' = IF result.kind \in {"Object", "ExcludeObject"}
                THEN Compiled(result) ELSE Error("TypeError")
  /\ UNCHANGED <<frames, value, result>> /\ NoPython /\ UNCHANGED input

(* Projection::new then asks the rules it was passed for their repr, which *)
(* may raise.  What that does to them besides is read by nobody any more.  *)
ReprRaises ==
  /\ pc = "return" /\ frames = <<>> /\ result.kind \in {"Object", "ExcludeObject"}
  /\ Fail("raised") /\ NoPython /\ UNCHANGED input

Step == TooDeep \/ Bool \/ Dict \/ Mapping \/ Scalar \/ Names \/ Iterator
        \/ NextName \/ NamesEnd \/ NextEntry \/ EntriesEnd
        \/ InsertMember \/ WrapElement \/ Finish \/ ReprRaises

(* Once the constructor is over nothing happens.                           *)
Over == pc = "done" /\ UNCHANGED vars

Next == Step \/ Over

Spec == Init /\ [][Next]_vars

(* The constructor runs on the thread that called it and waits for nothing *)
(* but the Python code it calls.                                           *)
FairSpec == Spec /\ WF_vars(Step)

-----------------------------------------------------------------------------
(* Every variable has its type: the calls in progress are no more than the *)
(* cap allows, and where the compiler is says what the innermost waits for.*)
Waits == {"member", "element", "name"}

TypeOK ==
  /\ excluding \in BOOLEAN /\ calm \in BOOLEAN
  /\ Len(frames) \in 0 .. MaxSpecDepth + 1
  /\ \A i \in 1 .. Len(frames) :
       /\ frames[i].wait \in Waits
       /\ frames[i].wait = "name" => i = Len(frames) /\ pc = "names"
  /\ pc \in {"enter", "next", "names", "return", "done"}
  /\ pc = "next" => frames # <<>> /\ Top.wait = "member"
  /\ pc = "names" => frames # <<>> /\ Top.wait = "name"
  /\ outcome.kind \in {"running", "compiled", "TypeError", "raised"}
  /\ pc = "done" <=> outcome.kind # "running"

(* A constructor that meets no surprise accepts exactly the rules of the   *)
(* grammar, at every depth and in both modes (from_py in src/spec.rs).     *)
AcceptsTheGrammar ==
  pc = "done" /\ calm /\ outcome.kind # "raised" =>
    (outcome.kind = "compiled" <=> Grammatical(written, Root, 0, excluding))

(* What it compiles is, part for part, what the rules it was passed spell: *)
(* no rule of one member is taken for another's, none is lost, and an      *)
(* object shared by several members means the same in each (from_py).      *)
SpellsWhatIsWritten ==
  pc = "done" /\ calm /\ outcome.kind = "compiled" =>
    outcome.spec = Spelt(written, Root, 0, excluding)

(* What a rule holds for its members or its elements, and its parts at     *)
(* each level, itself at level 0.                                          *)
Held(rule) ==
  CASE rule.kind = "Array" -> {rule.item}
    [] rule.kind \in {"Object", "ExcludeObject"} ->
         { rule.fields[n] : n \in DOMAIN rule.fields }
    [] OTHER -> {}

PartsAt(rule) ==
  LET at[n \in Nat] == IF n = 0 THEN {rule} ELSE UNION { Held(p) : p \in at[n - 1] }
  IN  at

(* A part of rules for this mode: no other leaf, no rules of the other     *)
(* mode, and no array whose elements are to be dropped.                    *)
Fits(part) ==
  \/ part = Leaf
  \/ part.kind = "Array" /\ part.item # SDiscard
  \/ part.kind = IF excluding THEN "ExcludeObject" ELSE "Object"

(* Whatever Python code did meanwhile, what compiles can be applied: the   *)
(* two modes do not mix, no element is to be dropped, and it is nested no  *)
(* deeper than the cap lets through (the walks recurse over it).           *)
CanBeApplied ==
  outcome.kind = "compiled" =>
    \A n \in 0 .. MaxSpecDepth + 2 : \A part \in PartsAt(outcome.spec)[n] :
      Fits(part) /\ n <= MaxSpecDepth + 1

(* However a dict is changed while it is compiled, the rules of an object  *)
(* are for the names of one mapping or list at one moment, none of it as   *)
(* it was and of it as it is; or they keep what one iterator had (from_py  *)
(* copies the entries before it compiles their values).                    *)
OneMoment ==
  outcome.kind = "compiled" =>
    \A n \in 0 .. MaxSpecDepth + 1 : \A part \in PartsAt(outcome.spec)[n] :
      part.kind \in {"Object", "ExcludeObject"} =>
        \E h \in past : \E o \in DOMAIN h :
          \/ /\ IsMapping(h[o]) \/ h[o].py = "names"
             /\ DOMAIN part.fields = Mentioned(h[o])
          \/ /\ h[o].py = "iterator"
             /\ DOMAIN part.fields \subseteq UNION { Mentioned(g[o]) : g \in past }
             /\ \A name \in DOMAIN part.fields : part.fields[name] = Leaf

(* Every rule compiles or is refused, one that contains itself too.        *)
Ends == <>(pc = "done")
=============================================================================
