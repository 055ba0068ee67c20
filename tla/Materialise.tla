----------------------------- MODULE Materialise ----------------------------
(***************************************************************************)
(* What becomes of the spec an adapter returns (_adapter_spec and          *)
(* _materialise, python/json_projection/pydantic.py, 474-536).  It is read *)
(* once into fresh dicts and lists, compiled, and later compiled again.    *)
(*                                                                         *)
(* Python objects stand in `heap`, as in SpecCompile; what is new is       *)
(* appended.  The items of a "list" or an "iterator" are objects too, as   *)
(* it is not known yet that they are strings.  The calls of _materialise   *)
(* in progress are `frames`.                                               *)
(***************************************************************************)
EXTENDS RuleGrammar, FiniteSets

CONSTANTS
  Heaps,                       (* what adapters return: object 1 of each   *)
  RecursionLimit,              (* calls in progress that Python allows     *)
  Meaning(_, _)                (* what an object of a heap, once compiled, *)
                               (* selects                                  *)

(* Python's limit is above the cap, and "__all__" is a str.                *)
ASSUME LimitAssumption ==
  /\ MaxSpecDepth \in Nat /\ RecursionLimit \in Nat /\ RecursionLimit > MaxSpecDepth + 1
  /\ Everything # NotStr

Mappings   == {"dict", "mapping"}
Iterables  == {"list", "iterator"}
Containers == Mappings \cup Iterables

(* The object that an entry of a mapping, or an item of a list, refers to. *)
Referred(py, item) == IF py \in Mappings THEN item.value ELSE item

(* An object refers to objects that are there, and has a str as a key once. *)
OnceEach(items) ==
  \A i, j \in DOMAIN items : items[i].key = items[j].key /\ items[i].key # NotStr => i = j

IsObject(h, id) ==
  /\ h[id].py \in Containers \cup {"bool", "str", "other"}
  /\ h[id].py \in Containers =>
       /\ h[id] = [py |-> h[id].py, items |-> h[id].items] /\ IsSeq(h[id].items)
       /\ \A i \in DOMAIN h[id].items : Referred(h[id].py, h[id].items[i]) \in DOMAIN h
  /\ h[id].py \in Mappings => OnceEach(h[id].items)

ASSUME HeapsAssumption ==
  \A h \in Heaps : IsSeq(h) /\ 1 \in DOMAIN h /\ \A id \in DOMAIN h : IsObject(h, id)

(* The compiler does not tell a list from a set, and takes a str for a     *)
(* name where one is expected.                                             *)
AsRules(h) ==
  LET Name(item) == IF h[item].py = "str" THEN h[item].text ELSE NotStr
  IN  [ id \in DOMAIN h |->
          IF h[id].py \notin Iterables THEN h[id]
          ELSE [ py |-> IF h[id].py = "list" THEN "names" ELSE "iterator",
                 items |-> [i \in DOMAIN h[id].items |-> Name(h[id].items[i])] ] ]

(* Whether Projection(...) takes an object: it is a rule of the grammar.   *)
Compiles(h, id) == Grammatical(AsRules(h), id, 0, FALSE)

VARIABLES
  heap, frames,
  value, result,               (* the argument, and what a call returned   *)
  pc, outcome,
  first, second,               (* what the two compilations mean           *)
  written, calm                (* history: what the adapter returned, and  *)
                               (* whether no iterator was met once spent   *)
                               (* and no code of an adapter raised         *)
vars == <<heap, frames, value, result, pc, outcome, first, second, written, calm>>

Init ==
  /\ heap \in Heaps /\ written = heap /\ calm = TRUE
  /\ frames = <<>> /\ value = 1 /\ result = 1
  /\ pc = "start" /\ outcome = "running" /\ first = <<>> /\ second = <<>>

object == heap[value]
Top    == frames[Len(frames)]
Below  == SubSeq(frames, 1, Len(frames) - 1)
Source == heap[Top.of]

(* MUTANT: only the object that is read just now is remembered.            *)
SeenLast == IF frames = <<>> THEN {} ELSE {Top.of}

Seen   == { frames[i].of : i \in DOMAIN frames }

(* Only a mapping's values are one level deeper.                           *)
depth == Cardinality({ i \in DOMAIN frames : heap[frames[i].of].py \in Mappings })

Compiling == <<first, second, written>>
Fail(kind) ==
  /\ pc' = "done" /\ outcome' = kind
  /\ UNCHANGED <<heap, frames, value, result, Compiling>>
Go(to, stack) ==
  pc' = to /\ frames' = stack /\ UNCHANGED <<outcome, Compiling>>
Raised == Fail("raised") /\ calm' = FALSE

(* _adapter_spec: the root is a mapping.                                   *)
Start ==
  /\ pc = "start" /\ UNCHANGED calm
  /\ IF object.py \in Mappings THEN Go("enter", frames) /\ UNCHANGED <<heap, value, result>>
                               ELSE Fail("TypeError")

-----------------------------------------------------------------------------
(* _materialise, by what its argument is.                                  *)

Overflow ==
  /\ pc = "enter" /\ Len(frames) >= RecursionLimit
  /\ Fail("RecursionError") /\ UNCHANGED calm

Called == Len(frames) < RecursionLimit

(* MUTANT: one level less is let through than the compiler lets through.   *)
TooDeepEarly == pc = "enter" /\ Called /\ depth >= MaxSpecDepth /\ Fail("TypeError") /\ UNCHANGED calm

TooDeep == pc = "enter" /\ Called /\ depth > MaxSpecDepth /\ Fail("TypeError") /\ UNCHANGED calm

Enter(kinds) == pc = "enter" /\ Called /\ depth <= MaxSpecDepth /\ object.py \in kinds

(* MUTANT: an iterator goes into the spec as it is.                        *)
LeafOrLazy ==
  /\ Enter({"bool", "str", "other", "iterator"}) /\ result' = value
  /\ Go("return", frames) /\ UNCHANGED <<heap, value, calm>>

Leaf ==
  /\ Enter({"bool", "str", "other"}) /\ result' = value
  /\ Go("return", frames) /\ UNCHANGED <<heap, value, calm>>

Itself == Enter(Containers) /\ value \in Seen /\ Fail("TypeError") /\ UNCHANGED calm

(* The keys of a mapping, or the items of a list, as they are now; an      *)
(* iterator is asked one by one.                                           *)
Open ==
  /\ Enter(Containers) /\ value \notin Seen
  /\ LET rest == IF object.py = "iterator" THEN <<>> ELSE object.items
     IN  Go("next", Append(frames, [of |-> value, rest |-> rest, key |-> NotStr, out |-> <<>>]))
  /\ calm' = (calm /\ ~(object.py = "iterator" /\ object # written[value]))
  /\ UNCHANGED <<heap, value, result>>

(* Code of the adapter's own mappings and iterators may raise.             *)
Raises ==
  \/ Enter({"mapping", "iterator"}) /\ Raised
  \/ pc = "next" /\ Source.py \in {"mapping", "iterator"} /\ Raised

NextKey ==
  /\ pc = "next" /\ Source.py \in Mappings /\ Top.rest # <<>> /\ UNCHANGED calm
  /\ LET entry == Head(Top.rest)
         turn  == [Top EXCEPT !.rest = Tail(@), !.key = entry.key]
     IN  IF entry.key = NotStr THEN Fail("TypeError")
         ELSE /\ Go("enter", Append(Below, turn)) /\ value' = entry.value
              /\ UNCHANGED <<heap, result>>

NextListed ==
  /\ pc = "next" /\ Source.py = "list" /\ Top.rest # <<>>
  /\ Go("enter", Append(Below, [Top EXCEPT !.rest = Tail(@)])) /\ value' = Head(Top.rest)
  /\ UNCHANGED <<heap, result, calm>>

NextAsked ==
  /\ pc = "next" /\ Source.py = "iterator" /\ Source.items # <<>>
  /\ Go("enter", frames) /\ value' = Head(Source.items)
  /\ heap' = [heap EXCEPT ![Top.of].items = Tail(@)]
  /\ UNCHANGED <<result, calm>>

(* MUTANT: of the values of one mapping only the last is put in.           *)
CollectLast ==
  /\ pc = "return" /\ frames # <<>>
  /\ LET item == IF Source.py \in Mappings THEN [key |-> Top.key, value |-> result] ELSE result
     IN  Go("next", Append(Below, [Top EXCEPT !.out = <<item>>]))
  /\ UNCHANGED <<heap, value, result, calm>>

Collect ==
  /\ pc = "return" /\ frames # <<>>
  /\ LET item == IF Source.py \in Mappings THEN [key |-> Top.key, value |-> result] ELSE result
     IN  Go("next", Append(Below, [Top EXCEPT !.out = Append(@, item)]))
  /\ UNCHANGED <<heap, value, result, calm>>

(* A new dict, or a new list.                                              *)
Close ==
  /\ pc = "next" /\ Top.rest = <<>> /\ ~(Source.py = "iterator" /\ Source.items # <<>>)
  /\ heap' = Append(heap, [py |-> IF Source.py \in Mappings THEN "dict" ELSE "list",
                           items |-> Top.out])
  /\ result' = Len(heap') /\ Go("return", Below)
  /\ UNCHANGED <<value, calm>>

-----------------------------------------------------------------------------
(* Objects from which the same is read: R pairs those of h with those of   *)
(* g, and what they refer to.                                              *)
SameRead(a, b, R) ==
  IF a.py \notin Containers THEN a = b
  ELSE /\ b.py \in Containers /\ (a.py \in Mappings <=> b.py \in Mappings)
       /\ IsSeq(a.items) /\ IsSeq(b.items) /\ Len(a.items) = Len(b.items)
       /\ a.py \in Mappings =>
            /\ OnceEach(a.items)
            /\ \A i \in DOMAIN a.items : a.items[i].key = b.items[i].key
       /\ \A i \in DOMAIN a.items :
            <<Referred(a.py, a.items[i]), Referred(b.py, b.items[i])>> \in R

Alike(h, g, R) ==
  R \subseteq (DOMAIN h) \X (DOMAIN g) /\ \A p \in R : SameRead(h[p[1]], g[p[2]], R)

(* What compiles means what is read from it, and nothing else.             *)
MeaningOfWhatIsRead ==
  \A h, g, R : Alike(h, g, R) =>
    \A p \in R : Compiles(h, p[1]) => Meaning(h, p[1]) = Meaning(g, p[2])

-----------------------------------------------------------------------------
(* The two compilations.                                                   *)
Compile ==
  /\ pc = "return" /\ frames = <<>> /\ UNCHANGED calm
  /\ IF ~Compiles(heap, result) THEN Fail("TypeError")
     ELSE /\ first' = Meaning(heap, result) /\ pc' = "again"
          /\ UNCHANGED <<heap, frames, value, result, outcome, second, written>>

(* By then the adapter's own objects may be spent or cleared.              *)
Emptied(h) ==
  [ id \in DOMAIN h |-> IF id \in DOMAIN written /\ h[id].py \in Containers
                        THEN [h[id] EXCEPT !.items = <<>>] ELSE h[id] ]

CompileAgain ==
  /\ pc = "again" /\ heap' \in {heap, Emptied(heap)}
  /\ second' = Meaning(heap', result)
  /\ pc' = "done" /\ outcome' = "accepted"
  /\ UNCHANGED <<frames, value, result, first, written, calm>>

Over == pc = "done" /\ UNCHANGED vars

Next == \/ Start \/ Overflow \/ TooDeep \/ Leaf \/ Itself \/ Open \/ Raises \/ NextKey \/ NextListed
        \/ NextAsked \/ Collect \/ Close \/ Compile \/ CompileAgain \/ Over

Spec == Init /\ [][Next]_vars

-----------------------------------------------------------------------------
(* No object is being read twice at a time, so that one that contains      *)
(* itself is met by a TypeError (`seen` of _materialise).                  *)
TypeOK ==
  /\ value \in DOMAIN heap /\ result \in DOMAIN heap
  /\ pc \in {"start", "enter", "next", "return", "again", "done"}
  /\ outcome \in {"running", "accepted", "TypeError", "raised", "RecursionError"}
  /\ outcome = "running" <=> pc # "done"
  /\ depth <= MaxSpecDepth + 1
  /\ \A i, j \in DOMAIN frames : frames[i].of = frames[j].of => i = j

(* Reading a spec refuses just what the compiler refuses, and a root that  *)
(* is no mapping ("recognise exactly what the compiler recognises").       *)
AcceptsWhatCompiles ==
  pc = "done" /\ calm =>
    (outcome = "accepted" <=> written[1].py \in Mappings /\ Compiles(written, 1))

(* What is compiled first is what the adapter wrote.                       *)
MeansWhatWasReturned ==
  outcome = "accepted" /\ calm => first = Meaning(written, 1)

(* Both compilations make the same of it: no iterator is left to be spent  *)
(* in between, and no object the adapter still has (_materialise).         *)
CompiledTwiceAlike == outcome = "accepted" => second = first

(* An output that is nested absurdly deep is refused with the compiler's   *)
(* message: "without them a cyclic or absurdly deep output raises          *)
(* `RecursionError` from this walk" (the docstring of _materialise).       *)
NeverOverflows == outcome # "RecursionError"
=============================================================================
