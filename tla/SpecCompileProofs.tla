------------------------- MODULE SpecCompileProofs -------------------------
(***************************************************************************)
(* The compiler's calls stay within the cap and fit one another, for every *)
(* heap, every cap and whatever Python code does to the heap.              *)
(***************************************************************************)
EXTENDS SpecCompile, Inductions, SequenceTheorems

(* A call waits for the rule of a member, of an element, or for a name.    *)
IsCall(f) == "wait" \in DOMAIN f /\ f.wait \in Waits

(* The calls in progress: only the innermost may be asking for names.      *)
Calls ==
  /\ \E S : frames \in Seq(S)
  /\ Len(frames) <= MaxSpecDepth + 1
  /\ \A i \in 1 .. Len(frames) :
       /\ IsCall(frames[i])
       /\ frames[i].wait = "name" => i = Len(frames) /\ pc = "names"

(* Where the compiler is fits what the innermost call waits for.           *)
Place ==
  /\ excluding \in BOOLEAN /\ calm \in BOOLEAN
  /\ pc \in {"enter", "next", "names", "return", "done"}
  /\ pc = "next" => frames # <<>> /\ Top.wait = "member"
  /\ pc = "names" => frames # <<>> /\ Top.wait = "name"
  /\ outcome.kind \in {"running", "compiled", "TypeError", "raised"}
  /\ pc = "done" <=> outcome.kind # "running"

(* Inductive.                                                              *)
CompileInv == Calls /\ Place

-----------------------------------------------------------------------------
LEMMA Emptiness ==
  ASSUME Calls
  PROVE  /\ Len(frames) \in Nat
         /\ frames # <<>> => Len(frames) \in 1 .. Len(frames)
         /\ Len(frames) = 0 => frames = <<>>
<1> PICK S : frames \in Seq(S)
  BY DEF Calls
<1> QED BY LenProperties, EmptySeq

(* What becomes of the calls in progress: one more, the innermost going    *)
(* on, and one less.                                                       *)
LEMMA PushedFrames ==
  ASSUME Calls, NEW f, frames' = Append(frames, f)
  PROVE  /\ Len(frames') = Len(frames) + 1 /\ Len(frames) \in Nat
         /\ \A i \in 1 .. Len(frames) : frames'[i] = frames[i]
         /\ frames'[Len(frames) + 1] = f
         /\ \E S : frames' \in Seq(S)
<1> PICK S : frames \in Seq(S)
  BY DEF Calls
<1>1. frames \in Seq(S \cup {f}) /\ f \in S \cup {f}
  BY SeqMonotonic
<1> QED BY <1>1, AppendProperties, LenProperties

LEMMA ReplacedFrames ==
  ASSUME Calls, frames # <<>>, NEW f, frames' = OnTop(f)
  PROVE  /\ Len(frames') = Len(frames) /\ Len(frames) \in 1 .. Len(frames)
         /\ \A i \in 1 .. Len(frames) : frames'[i] = IF i = Len(frames) THEN f ELSE frames[i]
         /\ \E S : frames' \in Seq(S)
<1> PICK S : frames \in Seq(S)
  BY DEF Calls
<1>1. Len(frames) \in 1 .. Len(frames)
  BY Emptiness
<1>2. frames \in Seq(S \cup {f}) /\ f \in S \cup {f}
  BY SeqMonotonic
<1>3. frames' \in Seq(S \cup {f}) /\ Len(frames') = Len(frames)
  BY <1>1, <1>2, ExceptSeq DEF OnTop
<1>4. \A i \in 1 .. Len(frames) : frames'[i] = IF i = Len(frames) THEN f ELSE frames[i]
  BY <1>1, <1>2, ExceptSeq DEF OnTop
<1> QED BY <1>1, <1>3, <1>4

LEMMA PoppedFrames ==
  ASSUME Calls, frames # <<>>, frames' = Below
  PROVE  /\ Len(frames') = Len(frames) - 1 /\ Len(frames) \in 1 .. Len(frames)
         /\ \A i \in 1 .. Len(frames) - 1 : frames'[i] = frames[i]
         /\ \E S : frames' \in Seq(S)
<1> PICK S : frames \in Seq(S)
  BY DEF Calls
<1> DEFINE n == Len(frames) - 1
<1>1. Len(frames) \in 1 .. Len(frames)
  BY Emptiness
<1>2. \A m \in Nat : /\ (IF 1 <= m THEN m - 1 + 1 ELSE 0) = m
                     /\ m - 1 + 1 = m
                     /\ \A i \in 1 .. m : 1 + i - 1 = i
  OBVIOUS
<1>3. /\ 1 \in Int /\ n \in Nat /\ n \in Int
      /\ \A i \in 1 .. n : frames[i] \in S
  BY <1>1, ElementOfSeq
<1>4. frames' = SubSeq(frames, 1, n)
  BY DEF Below
<1>5. frames' \in Seq(S) /\ Len(frames') = n
      /\ \A i \in 1 .. n : frames'[i] = frames[i]
  <2> HIDE DEF n
  <2>1. /\ SubSeq(frames, 1, n) \in Seq(S)
        /\ Len(SubSeq(frames, 1, n)) = IF 1 <= n THEN n - 1 + 1 ELSE 0
        /\ \A i \in 1 .. n - 1 + 1 : SubSeq(frames, 1, n)[i] = frames[1 + i - 1]
    BY <1>3, SubSeqProperties
  <2> QED BY <1>2, <1>3, <1>4, <2>1
<1> QED BY <1>1, <1>5

(* A call more, on top of calls none of which asks for names.              *)
LEMMA Pushed ==
  ASSUME Calls, Len(frames) <= MaxSpecDepth, pc # "names",
         NEW f, IsCall(f), frames' = Append(frames, f),
         f.wait = "name" => pc' = "names"
  PROVE  Calls' /\ frames' # <<>> /\ Top' = f
<1>1. /\ Len(frames') = Len(frames) + 1 /\ Len(frames) \in Nat
      /\ \A i \in 1 .. Len(frames) : frames'[i] = frames[i]
      /\ frames'[Len(frames) + 1] = f
      /\ \E S : frames' \in Seq(S)
  BY PushedFrames
<1>2. \A i \in 1 .. Len(frames') :
        IsCall(frames'[i]) /\ (frames'[i].wait = "name" => i = Len(frames') /\ pc' = "names")
  <2> TAKE i \in 1 .. Len(frames')
  <2>1. CASE i = Len(frames) + 1
    BY <1>1, <2>1
  <2>2. CASE i \in 1 .. Len(frames)
    BY <1>1, <2>2 DEF Calls
  <2> QED BY <1>1, <2>1, <2>2
<1>3. Len(frames') <= MaxSpecDepth + 1
  BY <1>1, DepthAssumption
<1>4. frames' # <<>>
  BY <1>1, EmptySeq
<1> QED
  BY <1>1, <1>2, <1>3, <1>4 DEF Calls, Top

(* The innermost call goes on.                                             *)
LEMMA Replaced ==
  ASSUME Calls, frames # <<>>, NEW f, IsCall(f), frames' = OnTop(f),
         f.wait = "name" => pc' = "names"
  PROVE  Calls' /\ frames' # <<>> /\ Top' = f
<1>1. /\ Len(frames') = Len(frames) /\ Len(frames) \in 1 .. Len(frames)
      /\ \A i \in 1 .. Len(frames) : frames'[i] = IF i = Len(frames) THEN f ELSE frames[i]
      /\ \E S : frames' \in Seq(S)
  BY ReplacedFrames
<1>2. \A i \in 1 .. Len(frames') :
        IsCall(frames'[i]) /\ (frames'[i].wait = "name" => i = Len(frames') /\ pc' = "names")
  <2> TAKE i \in 1 .. Len(frames')
  <2>1. CASE i = Len(frames)
    BY <1>1, <2>1
  <2>2. CASE i # Len(frames)
    BY <1>1, <2>2 DEF Calls
  <2> QED BY <2>1, <2>2
<1>3. frames' # <<>>
  BY <1>1, EmptySeq
<1> QED
  BY <1>1, <1>2, <1>3 DEF Calls, Top

(* The innermost call is over.                                             *)
LEMMA Popped ==
  ASSUME Calls, frames # <<>>, frames' = Below
  PROVE  Calls'
<1>1. /\ Len(frames') = Len(frames) - 1 /\ Len(frames) \in 1 .. Len(frames)
      /\ \A i \in 1 .. Len(frames) - 1 : frames'[i] = frames[i]
      /\ \E S : frames' \in Seq(S)
  BY PoppedFrames
<1>2. \A i \in 1 .. Len(frames') :
        IsCall(frames'[i]) /\ (frames'[i].wait = "name" => i = Len(frames') /\ pc' = "names")
  <2> TAKE i \in 1 .. Len(frames')
  <2>1. i \in 1 .. Len(frames) /\ i # Len(frames) /\ frames'[i] = frames[i]
    BY <1>1
  <2> QED BY <2>1 DEF Calls
<1> QED
  BY <1>1, <1>2, DepthAssumption DEF Calls

LEMMA Unchanged ==
  ASSUME Calls, frames' = frames, pc # "names" \/ pc' = "names"
  PROVE  Calls'
  BY DEF Calls

LEMMA Emptied ==
  ASSUME frames' = <<>>
  PROVE  Calls'
<1>1. <<>> \in Seq({}) /\ Len(<<>>) = 0
  BY EmptySeq
<1> QED BY <1>1, DepthAssumption DEF Calls

-----------------------------------------------------------------------------
(* The steps end in one of four ways.                                      *)

LEMMA Failing ==
  ASSUME NEW kind \in {"TypeError", "raised"}, Fail(kind),
         excluding' \in BOOLEAN, calm' \in BOOLEAN
  PROVE  CompileInv'
<1>1. Calls'
  BY Emptied DEF Fail
<1> QED BY <1>1 DEF Fail, Error, CompileInv, Place

LEMMA Returning ==
  ASSUME CompileInv, pc # "done", NEW rule, NEW waiting, Return(rule, waiting),
         Calls', excluding' \in BOOLEAN, calm' \in BOOLEAN
  PROVE  CompileInv'
  BY DEF Return, CompileInv, Place

LEMMA Calling ==
  ASSUME CompileInv, pc # "done", NEW object, NEW waiting, Call(object, waiting),
         Calls', excluding' \in BOOLEAN, calm' \in BOOLEAN
  PROVE  CompileInv'
  BY DEF Call, CompileInv, Place

LEMMA Looping ==
  ASSUME CompileInv, pc # "done", NEW waiting, NEW at, Loop(waiting, at),
         \/ at = "next" /\ Top'.wait = "member"
         \/ at = "names" /\ Top'.wait = "name",
         Calls', frames' # <<>>, excluding' \in BOOLEAN, calm' \in BOOLEAN
  PROVE  CompileInv'
  BY DEF Loop, CompileInv, Place

(* The rules of a call change, and what it waits for does not.             *)
LEMMA SameCall ==
  ASSUME NEW f, IsCall(f), NEW x, NEW y
  PROVE  /\ IsCall([f EXCEPT !.rules = x])
         /\ [f EXCEPT !.rules = x].wait = f.wait
         /\ IsCall([f EXCEPT !.key = x, !.rest = y])
         /\ [f EXCEPT !.key = x, !.rest = y].wait = f.wait
  BY DEF IsCall

LEMMA TopIsCall ==
  ASSUME Calls, frames # <<>>
  PROVE  IsCall(Top)
  BY Emptiness DEF Calls, Top

-----------------------------------------------------------------------------
(* One lemma for each way a step may be taken.                             *)

LEMMA Flags ==
  ASSUME CompileInv
  PROVE  /\ excluding \in BOOLEAN /\ calm \in BOOLEAN
         /\ Python(heap) => calm' \in BOOLEAN
         /\ NoPython => calm' = calm
  BY DEF CompileInv, Place, Python, NoPython

(* The arm for dicts.                                                      *)
LEMMA OpenKeeps ==
  ASSUME CompileInv, pc = "enter", Len(frames) <= MaxSpecDepth, NEW items, Open(items),
         excluding' \in BOOLEAN, calm' \in BOOLEAN
  PROVE  CompileInv'
<1>1. CASE ~IsWildcard(items)
  <2> DEFINE f == Entries(value, items)
  <2>1. Loop(Append(frames, f), "next")
    BY <1>1 DEF Open
  <2>2. IsCall(f) /\ f.wait = "member"
    BY DEF IsCall, Entries, Waits
  <2> HIDE DEF f
  <2>3. Calls' /\ frames' # <<>> /\ Top' = f
    BY <2>1, <2>2, Pushed DEF Loop, CompileInv
  <2> QED BY <2>1, <2>2, <2>3, Looping
<1>2. CASE IsWildcard(items) /\ frames = <<>>
  BY <1>2, Failing DEF Open
<1>3. CASE IsWildcard(items) /\ frames # <<>>
  <2>1. Call(items[1].value, Append(frames, AwaitElement))
    BY <1>3 DEF Open
  <2>2. IsCall(AwaitElement) /\ AwaitElement.wait = "element"
    BY DEF IsCall, AwaitElement, Waits
  <2>3. Calls'
    BY <2>1, <2>2, Pushed DEF Call, CompileInv
  <2> QED BY <2>1, <2>3, Calling
<1> QED BY <1>1, <1>2, <1>3

LEMMA EnterKeeps ==
  ASSUME CompileInv, Bool \/ Dict \/ Mapping \/ Scalar \/ Names
  PROVE  CompileInv'
<1>1. /\ pc = "enter" /\ Len(frames) <= MaxSpecDepth
      /\ excluding' \in BOOLEAN /\ calm' \in BOOLEAN
  BY Flags DEF Bool, Dict, Mapping, Scalar, Names, Enter, input
<1>2. ASSUME NEW rule, Return(rule, frames) PROVE CompileInv'
  <2>1. Calls'
    BY <1>1, <1>2, Unchanged DEF Return, CompileInv
  <2> QED BY <1>1, <1>2, <2>1, Returning
<1> QED
  BY <1>1, <1>2, OpenKeeps, Failing DEF Bool, Dict, Mapping, Scalar, Names

LEMMA IteratorKeeps ==
  ASSUME CompileInv, Iterator
  PROVE  CompileInv'
<1>1. /\ pc = "enter" /\ Len(frames) <= MaxSpecDepth
      /\ excluding' \in BOOLEAN /\ calm' \in BOOLEAN
  BY Flags DEF Iterator, Enter, input
<1>2. ASSUME Loop(Append(frames, Naming(value)), "names") PROVE CompileInv'
  <2>1. IsCall(Naming(value)) /\ Naming(value).wait = "name"
    BY DEF IsCall, Naming, Waits
  <2>2. Calls' /\ frames' # <<>> /\ Top' = Naming(value)
    BY <1>1, <1>2, <2>1, Pushed DEF Loop, CompileInv
  <2> QED BY <1>1, <1>2, <2>1, <2>2, Looping
<1> QED BY <1>1, <1>2, Failing DEF Iterator

LEMMA NextNameKeeps ==
  ASSUME CompileInv, NextName
  PROVE  CompileInv'
<1>1. /\ pc = "names" /\ frames # <<>> /\ Top.wait = "name" /\ IsCall(Top)
      /\ excluding' \in BOOLEAN /\ calm' \in BOOLEAN
  BY Flags, TopIsCall DEF NextName, Python, CompileInv, Place, input
<1>2. ASSUME NEW x, Loop(OnTop([Top EXCEPT !.rules = x]), "names") PROVE CompileInv'
  <2> DEFINE f == [Top EXCEPT !.rules = x]
  <2>1. IsCall(f) /\ f.wait = "name"
    BY <1>1, SameCall
  <2> HIDE DEF f
  <2>2. Calls' /\ frames' # <<>> /\ Top' = f
    BY <1>1, <1>2, <2>1, Replaced DEF Loop, CompileInv, f
  <2> QED BY <1>1, <1>2, <2>1, <2>2, Looping
<1> QED BY <1>1, <1>2, Failing DEF NextName

(* A call returns to the one that waits for it.                            *)
LEMMA EndKeeps ==
  ASSUME CompileInv, NamesEnd \/ EntriesEnd \/ WrapElement
  PROVE  CompileInv'
<1>1. /\ pc \in {"names", "next", "return"} /\ frames # <<>>
      /\ excluding' \in BOOLEAN /\ calm' \in BOOLEAN
  BY Flags DEF NamesEnd, EntriesEnd, WrapElement, CompileInv, Place, input
<1>2. ASSUME NEW rule, Return(rule, Below) PROVE CompileInv'
  <2>1. Calls'
    BY <1>1, <1>2, Popped DEF Return, CompileInv
  <2> QED BY <1>1, <1>2, <2>1, Returning
<1> QED BY <1>1, <1>2, Failing DEF NamesEnd, EntriesEnd, WrapElement

LEMMA NextEntryKeeps ==
  ASSUME CompileInv, NextEntry
  PROVE  CompileInv'
<1>1. /\ pc = "next" /\ frames # <<>> /\ Top.wait = "member" /\ IsCall(Top)
      /\ excluding' \in BOOLEAN /\ calm' \in BOOLEAN
  BY Flags, TopIsCall DEF NextEntry, CompileInv, Place, input
<1>2. ASSUME NEW object, NEW x, NEW y,
             Call(object, OnTop([Top EXCEPT !.key = x, !.rest = y]))
      PROVE  CompileInv'
  <2> DEFINE f == [Top EXCEPT !.key = x, !.rest = y]
  <2>1. IsCall(f) /\ f.wait = "member"
    BY <1>1, SameCall
  <2>2. Call(object, OnTop(f))
    BY <1>2
  <2> HIDE DEF f
  <2>3. Calls'
    BY <1>1, <2>1, <2>2, Replaced DEF Call, CompileInv
  <2> QED BY <1>1, <2>2, <2>3, Calling
<1> QED BY <1>1, <1>2, Failing DEF NextEntry

LEMMA InsertKeeps ==
  ASSUME CompileInv, InsertMember
  PROVE  CompileInv'
<1>1. /\ pc = "return" /\ frames # <<>> /\ Top.wait = "member" /\ IsCall(Top)
      /\ excluding' \in BOOLEAN /\ calm' \in BOOLEAN
  BY Flags, TopIsCall DEF InsertMember, CompileInv, Place, input
<1> DEFINE f == [Top EXCEPT !.rules = WithRule(@, Top.key, result)]
<1>2. IsCall(f) /\ f.wait = "member"
  BY <1>1, SameCall
<1>3. Loop(OnTop(f), "next")
  BY DEF InsertMember
<1> HIDE DEF f
<1>4. Calls' /\ frames' # <<>> /\ Top' = f
  BY <1>1, <1>2, <1>3, Replaced DEF Loop, CompileInv
<1> QED BY <1>1, <1>2, <1>3, <1>4, Looping

LEMMA CompileInit == Init => CompileInv
<1> SUFFICES ASSUME Init PROVE CompileInv
  OBVIOUS
<1>1. frames \in Seq({}) /\ Len(frames) = 0
  BY EmptySeq DEF Init
<1> QED
  BY <1>1, DepthAssumption DEF Init, Running, CompileInv, Calls, Place

LEMMA CompileStep == CompileInv /\ [Next]_vars => CompileInv'
<1> SUFFICES ASSUME CompileInv, [Next]_vars PROVE CompileInv'
  OBVIOUS
<1>1. CASE TooDeep \/ ReprRaises
  BY <1>1, Flags, Failing DEF TooDeep, ReprRaises, input
<1>2. CASE Finish
  <2>1. Calls' /\ excluding' \in BOOLEAN /\ calm' \in BOOLEAN
    BY <1>2, Flags, Unchanged DEF Finish, CompileInv, input
  <2> QED BY <1>2, <2>1 DEF Finish, CompileInv, Place, Compiled, Error
<1>3. CASE Over \/ UNCHANGED vars
  <2>1. Calls'
    BY <1>3, Unchanged DEF Over, vars, CompileInv
  <2> QED BY <1>3, <2>1 DEF Over, vars, input, CompileInv, Place, Top
<1> QED
  BY <1>1, <1>2, <1>3, EnterKeeps, IteratorKeeps, NextNameKeeps, EndKeeps,
     NextEntryKeeps, InsertKeeps DEF Next, Step

(* Whatever the objects and the Python code they run, the calls of from_py *)
(* (src/spec.rs) in progress are at most one more than the cap, and each   *)
(* step meets the call it is meant for.                                    *)
THEOREM CompilerTyped == Spec => []TypeOK
<1>1. CompileInv => TypeOK
  <2> SUFFICES ASSUME CompileInv PROVE TypeOK
    OBVIOUS
  <2>1. Len(frames) \in 0 .. MaxSpecDepth + 1
    BY Emptiness, DepthAssumption DEF CompileInv, Calls
  <2> QED BY <2>1 DEF CompileInv, Calls, Place, IsCall, TypeOK
<1> QED BY <1>1, CompileInit, CompileStep, PTL DEF Spec
-----------------------------------------------------------------------------
(* Recursion over the levels of a rule.                                    *)

(* What the levels of a rule are, up to level n. *)
Levels(rule, n, g) ==
  /\ g[0] = {rule}
  /\ \A k \in 0 .. n - 1 : g[k + 1] = UNION { Held(p) : p \in g[k] }

LEMMA SameLevels ==
  ASSUME NEW rule, NEW n \in Nat, NEW m \in Nat, NEW g, NEW h, m <= n,
         Levels(rule, n, g), Levels(rule, m, h)
  PROVE  g[m] = h[m]
<1> DEFINE T == { k \in 0 .. m : g[k] # h[k] }
<1> SUFFICES ASSUME T # {} PROVE FALSE
  OBVIOUS
<1>1. PICK k \in T : \A j \in T : k <= j
  <2>1. T \in SUBSET Nat
    OBVIOUS
  <2> HIDE DEF T
  <2> QED BY <2>1, Least
<1>2. k # 0
  BY DEF Levels
<1>3. k - 1 \in 0 .. m - 1 /\ k - 1 \notin T /\ k - 1 \in 0 .. n - 1 /\ (k - 1) + 1 = k
  BY <1>1, <1>2
<1>4. g[k - 1] = h[k - 1]
  BY <1>3
<1>5. g[k] = UNION { Held(p) : p \in g[k - 1] } /\ h[k] = UNION { Held(p) : p \in h[k - 1] }
  BY <1>3 DEF Levels
<1> QED BY <1>4, <1>5

LEMMA LevelsExist ==
  ASSUME NEW rule, NEW n \in Nat
  PROVE  \E g : Levels(rule, n, g)
<1> DEFINE T == { k \in Nat : ~ \E g : Levels(rule, k, g) }
<1> SUFFICES ASSUME T # {} PROVE FALSE
  OBVIOUS
<1>1. PICK k \in T : \A j \in T : k <= j
  <2> HIDE DEF T
  <2>1. T \in SUBSET Nat
    BY DEF T
  <2> QED BY <2>1, Least
<1>2. k # 0
  <2>1. Levels(rule, 0, [j \in {0} |-> {rule}])
    BY DEF Levels
  <2> QED BY <2>1
<1>3. PICK g : Levels(rule, k - 1, g)
  <2>1. k - 1 \in Nat /\ k - 1 \notin T
    BY <1>1, <1>2
  <2> QED BY <2>1
<1> DEFINE h == [j \in 0 .. k |-> IF j = k THEN UNION { Held(p) : p \in g[k - 1] } ELSE g[j]]
<1>4. Levels(rule, k, h)
  <2>1. h[0] = {rule}
    BY <1>2, <1>3 DEF Levels
  <2>2. ASSUME NEW j \in 0 .. k - 1 PROVE h[j + 1] = UNION { Held(p) : p \in h[j] }
    <3>1. h[j] = g[j]
      OBVIOUS
    <3>2. CASE j = k - 1
      BY <3>1, <3>2
    <3>3. CASE j # k - 1
      <4>1. j \in 0 .. (k - 1) - 1 /\ h[j + 1] = g[j + 1]
        BY <3>3
      <4> QED BY <3>1, <4>1, <1>3 DEF Levels
    <3> QED BY <3>2, <3>3
  <2> HIDE DEF h
  <2> QED BY <2>1, <2>2 DEF Levels
<1> QED BY <1>4

(* The equation of PartsAt. *)
LEMMA PartsAtLevels ==
  ASSUME NEW rule
  PROVE  /\ PartsAt(rule)[0] = {rule}
         /\ \A n \in Nat : PartsAt(rule)[n + 1] = UNION { Held(p) : p \in PartsAt(rule)[n] }
<1> DEFINE G(n) == CHOOSE g : Levels(rule, n, g)
           f    == [n \in Nat |-> G(n)[n]]
<1>1. \A n \in Nat : Levels(rule, n, G(n))
  BY LevelsExist
<1>2. f[0] = {rule}
  BY <1>1 DEF Levels
<1>3. ASSUME NEW n \in Nat PROVE f[n + 1] = UNION { Held(p) : p \in f[n] }
  <2>1. Levels(rule, n + 1, G(n + 1)) /\ Levels(rule, n, G(n))
    BY <1>1
  <2>2. G(n + 1)[n] = G(n)[n]
    <3> HIDE DEF G
    <3> QED BY <2>1, SameLevels
  <2>3. G(n + 1)[n + 1] = UNION { Held(p) : p \in G(n + 1)[n] }
    <3> HIDE DEF G
    <3>1. n \in 0 .. (n + 1) - 1
      OBVIOUS
    <3> QED BY <2>1, <3>1 DEF Levels
  <2>4. f[n + 1] = G(n + 1)[n + 1] /\ f[n] = G(n)[n]
    <3> HIDE DEF G
    <3> QED OBVIOUS
  <2> HIDE DEF G, f
  <2> QED BY <2>2, <2>3, <2>4
<1> DEFINE E(g) == [n \in Nat |-> IF n = 0 THEN {rule} ELSE UNION { Held(p) : p \in g[n - 1] }]
<1>4. f = E(f)
  <2>1. ASSUME NEW n \in Nat PROVE f[n] = IF n = 0 THEN {rule} ELSE UNION { Held(p) : p \in f[n - 1] }
    <3> HIDE DEF f, G
    <3>1. CASE n = 0
      BY <1>2, <3>1
    <3>2. CASE n # 0
      <4>1. n - 1 \in Nat /\ (n - 1) + 1 = n
        BY <3>2
      <4>2. f[(n - 1) + 1] = UNION { Held(p) : p \in f[n - 1] }
        BY <1>3, <4>1
      <4> QED BY <3>2, <4>1, <4>2
    <3> QED BY <3>1, <3>2
  <2>2. f = [n \in Nat |-> f[n]]
    OBVIOUS
  <2> HIDE DEF f
  <2> QED BY <2>1, <2>2
<1>5. PartsAt(rule) = CHOOSE g : g = E(g)
  BY DEF PartsAt
<1>6. PartsAt(rule) = E(PartsAt(rule))
  <2> HIDE DEF f, E
  <2> QED BY <1>4, <1>5
<1> DEFINE a == PartsAt(rule)
<1>7. a[0] = {rule}
  BY <1>6
<1>8. ASSUME NEW n \in Nat PROVE a[n + 1] = UNION { Held(p) : p \in a[n] }
  <2>1. n + 1 \in Nat /\ n + 1 # 0 /\ (n + 1) - 1 = n
    OBVIOUS
  <2>2. a[n + 1] = UNION { Held(p) : p \in a[(n + 1) - 1] }
    <3> HIDE DEF a
    <3>1. a = E(a)
      BY <1>6 DEF a
    <3> QED BY <2>1, <3>1
  <2> QED BY <2>1, <2>2
<1> QED BY <1>7, <1>8

(* What is n levels below a rule is n - 1 levels below what it holds.      *)
LEMMA PartsOfHeld ==
  ASSUME NEW rule, NEW n \in Nat
  PROVE  PartsAt(rule)[n + 1] = UNION { PartsAt(c)[n] : c \in Held(rule) }
<1> DEFINE P(k) == PartsAt(rule)[k + 1] = UNION { PartsAt(c)[k] : c \in Held(rule) }
           T    == { k \in Nat : ~P(k) }
<1> SUFFICES ASSUME T # {} PROVE FALSE
  OBVIOUS
<1>1. PICK k \in T : \A j \in T : k <= j
  <2>1. T \in SUBSET Nat
    OBVIOUS
  <2> HIDE DEF T
  <2> QED BY <2>1, Least
<1>2. P(0)
  <2>1. PartsAt(rule)[0 + 1] = UNION { Held(p) : p \in PartsAt(rule)[0] }
    BY PartsAtLevels
  <2>2. PartsAt(rule)[0] = {rule} /\ \A c : PartsAt(c)[0] = {c}
    BY PartsAtLevels
  <2>3. PartsAt(rule)[0 + 1] = Held(rule)
    BY <2>1, <2>2
  <2> QED BY <2>2, <2>3
<1>3. k # 0
  BY <1>2
<1>4. k - 1 \in Nat /\ (k - 1) + 1 = k /\ P(k - 1)
  BY <1>1, <1>3
<1>5. PartsAt(rule)[k + 1] = UNION { Held(p) : p \in PartsAt(rule)[k] }
  BY PartsAtLevels
<1>6. PartsAt(rule)[k] = UNION { PartsAt(c)[k - 1] : c \in Held(rule) }
  BY <1>4
<1>7. \A c : PartsAt(c)[k] = UNION { Held(p) : p \in PartsAt(c)[k - 1] }
  BY <1>4, PartsAtLevels
<1>8. P(k)
  <2>1. ASSUME NEW x PROVE (x \in PartsAt(rule)[k + 1]) <=> \E c \in Held(rule) : x \in PartsAt(c)[k]
    BY <1>5, <1>6, <1>7
  <2> QED BY <2>1
<1> QED BY <1>1, <1>8

(* Fits, in a given mode. *)
FitsIn(mode, part) ==
  \/ part = IF mode THEN SDiscard ELSE SKeep
  \/ part.kind = "Array" /\ part.item # SDiscard
  \/ part.kind = IF mode THEN "ExcludeObject" ELSE "Object"

(* Every part of a rule fits, and it has none more than m levels below. *)
Sound(mode, rule, m) ==
  \A n \in Nat : \A part \in PartsAt(rule)[n] : FitsIn(mode, part) /\ n <= m

LEMMA SoundLeaf ==
  ASSUME NEW mode \in BOOLEAN, NEW m \in Nat
  PROVE  Sound(mode, IF mode THEN SDiscard ELSE SKeep, m)
<1> DEFINE leaf == IF mode THEN SDiscard ELSE SKeep
<1>1. Held(leaf) = {}
  BY DEF Held, SDiscard, SKeep
<1>2. FitsIn(mode, leaf)
  BY DEF FitsIn
<1> HIDE DEF leaf
<1>3. PartsAt(leaf)[0] = {leaf} /\ \A n \in Nat : PartsAt(leaf)[n + 1] = {}
  <2>1. \A n \in Nat : PartsAt(leaf)[n + 1] = UNION { PartsAt(c)[n] : c \in Held(leaf) }
    BY PartsOfHeld
  <2> QED BY <1>1, <2>1, PartsAtLevels
<1>4. ASSUME NEW n \in Nat, NEW part \in PartsAt(leaf)[n]
      PROVE  FitsIn(mode, part) /\ n <= m
  <2>1. CASE n = 0
    BY <1>2, <1>3, <1>4, <2>1
  <2>2. CASE n # 0
    <3>1. n - 1 \in Nat /\ (n - 1) + 1 = n
      BY <2>2
    <3> QED BY <1>3, <1>4, <3>1
  <2> QED BY <2>1, <2>2
<1>5. Sound(mode, leaf, m)
  BY <1>4 DEF Sound
<1> QED BY <1>5 DEF leaf

LEMMA SoundHolder ==
  ASSUME NEW mode, NEW rule, FitsIn(mode, rule), NEW m \in Nat,
         \A c \in Held(rule) : Sound(mode, c, m)
  PROVE  Sound(mode, rule, m + 1)
<1> SUFFICES ASSUME NEW n \in Nat, NEW part \in PartsAt(rule)[n]
             PROVE  FitsIn(mode, part) /\ n <= m + 1
  BY DEF Sound
<1>1. CASE n = 0
  <2>1. part = rule
    BY <1>1, PartsAtLevels
  <2> QED BY <1>1, <2>1
<1>2. CASE n # 0
  <2>1. n - 1 \in Nat /\ (n - 1) + 1 = n
    BY <1>2
  <2>2. PartsAt(rule)[(n - 1) + 1] = UNION { PartsAt(c)[n - 1] : c \in Held(rule) }
    BY <2>1, PartsOfHeld
  <2>3. PICK c \in Held(rule) : part \in PartsAt(c)[n - 1]
    BY <2>1, <2>2
  <2>4. FitsIn(mode, part) /\ n - 1 <= m
    BY <2>1, <2>3 DEF Sound
  <2> QED BY <2>4
<1> QED BY <1>1, <1>2

-----------------------------------------------------------------------------
(* What compiles can be applied.                                           *)

(* The rules a call has for its members so far, as call number i.          *)
KeptIn(mode, f, i) ==
  f.wait \in {"member", "name"} =>
    /\ "rules" \in DOMAIN f
    /\ \A n \in DOMAIN f.rules : Sound(mode, f.rules[n], MaxSpecDepth + 1 - i)

(* A rule fits and is no deeper than its place allows, wherever it is kept.*)
PartsInv ==
  /\ \A i \in 1 .. Len(frames) : KeptIn(excluding, frames[i], i)
  /\ pc = "return" => Sound(excluding, result, MaxSpecDepth + 1 - Len(frames))
  /\ outcome.kind = "compiled" => Sound(excluding, outcome.spec, MaxSpecDepth + 1)

LEMMA PartsFailing ==
  ASSUME NEW kind \in {"TypeError", "raised"}, Fail(kind)
  PROVE  PartsInv'
<1>1. Len(frames') = 0
  BY EmptySeq DEF Fail
<1> QED BY <1>1 DEF Fail, Error, PartsInv

LEMMA PartsPushed ==
  ASSUME CompileInv, PartsInv, excluding' = excluding, outcome' = outcome, pc' # "return",
         NEW f, frames' = Append(frames, f), KeptIn(excluding, f, Len(frames) + 1)
  PROVE  PartsInv'
<1>1. /\ Len(frames') = Len(frames) + 1 /\ Len(frames) \in Nat
      /\ \A i \in 1 .. Len(frames) : frames'[i] = frames[i]
      /\ frames'[Len(frames) + 1] = f
  BY PushedFrames DEF CompileInv
<1>2. ASSUME NEW i \in 1 .. Len(frames') PROVE KeptIn(excluding, frames'[i], i)
  <2>1. CASE i = Len(frames) + 1
    BY <1>1, <2>1
  <2>2. CASE i \in 1 .. Len(frames)
    BY <1>1, <2>2 DEF PartsInv
  <2> QED BY <1>1, <2>1, <2>2
<1> QED BY <1>2 DEF PartsInv

LEMMA PartsReplaced ==
  ASSUME CompileInv, PartsInv, excluding' = excluding, outcome' = outcome, pc' # "return",
         frames # <<>>, NEW f, frames' = OnTop(f), KeptIn(excluding, f, Len(frames))
  PROVE  PartsInv'
<1>1. /\ Len(frames') = Len(frames)
      /\ \A i \in 1 .. Len(frames) : frames'[i] = IF i = Len(frames) THEN f ELSE frames[i]
  BY ReplacedFrames DEF CompileInv
<1>2. ASSUME NEW i \in 1 .. Len(frames') PROVE KeptIn(excluding, frames'[i], i)
  <2>1. CASE i = Len(frames)
    BY <1>1, <2>1
  <2>2. CASE i # Len(frames)
    BY <1>1, <2>2 DEF PartsInv
  <2> QED BY <2>1, <2>2
<1> QED BY <1>2 DEF PartsInv

LEMMA PartsReturned ==
  ASSUME CompileInv, PartsInv, excluding' = excluding, NEW rule, NEW waiting,
         Return(rule, waiting),
         \/ waiting = frames /\ Sound(excluding, rule, MaxSpecDepth + 1 - Len(frames))
         \/ /\ waiting = Below /\ frames # <<>>
            /\ Sound(excluding, rule, MaxSpecDepth + 1 - Len(frames) + 1)
  PROVE  PartsInv'
<1>1. CASE waiting = frames /\ Sound(excluding, rule, MaxSpecDepth + 1 - Len(frames))
  BY <1>1 DEF Return, PartsInv
<1>2. CASE /\ waiting = Below /\ frames # <<>>
           /\ Sound(excluding, rule, MaxSpecDepth + 1 - Len(frames) + 1)
  <2>1. /\ Len(frames') = Len(frames) - 1 /\ Len(frames) \in 1 .. Len(frames)
        /\ \A i \in 1 .. Len(frames) - 1 : frames'[i] = frames[i]
    BY <1>2, PoppedFrames DEF Return, CompileInv
  <2>2. MaxSpecDepth + 1 - Len(frames') = MaxSpecDepth + 1 - Len(frames) + 1
    BY <2>1, DepthAssumption
  <2>3. \A i \in 1 .. Len(frames') : KeptIn(excluding, frames'[i], i)
    BY <2>1 DEF PartsInv
  <2> QED BY <1>2, <2>2, <2>3 DEF Return, PartsInv
<1> QED BY <1>1, <1>2

(* The rules of an object, made of those of its members.                   *)
LEMMA SoundSelecting ==
  ASSUME excluding \in BOOLEAN, NEW rules, NEW m \in Nat,
         \A n \in DOMAIN rules : Sound(excluding, rules[n], m)
  PROVE  Sound(excluding, Selecting(rules), m + 1)
<1>1. FitsIn(excluding, Selecting(rules))
  BY DEF FitsIn, Selecting, SObject, SExclude
<1>2. Held(Selecting(rules)) = { rules[n] : n \in DOMAIN rules }
  BY DEF Held, Selecting, SObject, SExclude
<1> QED BY <1>1, <1>2, SoundHolder

(* A call is at most one below the cap.                                    *)
LEMMA Room ==
  ASSUME CompileInv
  PROVE  /\ MaxSpecDepth + 1 - Len(frames) \in Nat
         /\ excluding \in BOOLEAN
         /\ \A m \in Nat : Sound(excluding, Leaf, m)
<1>1. Len(frames) \in Nat /\ Len(frames) <= MaxSpecDepth + 1
  BY Emptiness DEF CompileInv, Calls
<1>2. excluding \in BOOLEAN
  BY DEF CompileInv, Place
<1> QED BY <1>1, <1>2, SoundLeaf, DepthAssumption DEF Leaf

LEMMA PartsEnter ==
  ASSUME CompileInv, PartsInv, Bool \/ Dict \/ Mapping \/ Scalar \/ Names \/ Iterator
  PROVE  PartsInv'
<1>1. pc = "enter" /\ Len(frames) <= MaxSpecDepth /\ excluding' = excluding
  BY DEF Bool, Dict, Mapping, Scalar, Names, Iterator, Enter, input
<1>2. CASE Bool
  <2>1. Return(Leaf, frames) \/ Fail("TypeError")
    BY <1>2 DEF Bool
  <2> QED BY <1>1, <2>1, Room, PartsReturned, PartsFailing
<1>3. ASSUME NEW items, Open(items) PROVE PartsInv'
  <2>1. CASE Loop(Append(frames, Entries(value, items)), "next")
    <3>1. KeptIn(excluding, Entries(value, items), Len(frames) + 1)
      <4>1. DOMAIN <<>> = {}
        OBVIOUS
      <4> QED BY <4>1 DEF KeptIn, Entries
    <3> QED BY <1>1, <2>1, <3>1, PartsPushed DEF Loop
  <2>2. CASE Call(items[1].value, Append(frames, AwaitElement))
    <3>1. KeptIn(excluding, AwaitElement, Len(frames) + 1)
      BY DEF KeptIn, AwaitElement
    <3> QED BY <1>1, <2>2, <3>1, PartsPushed DEF Call
  <2> QED BY <1>3, <2>1, <2>2, PartsFailing DEF Open
<1>4. CASE Names
  <2>1. PICK names : Fail("TypeError") \/ Return(Selecting([n \in names |-> Leaf]), frames)
    BY <1>4 DEF Names
  <2>2. /\ MaxSpecDepth - Len(frames) \in Nat
        /\ MaxSpecDepth - Len(frames) + 1 = MaxSpecDepth + 1 - Len(frames)
    BY <1>1, Emptiness, DepthAssumption DEF CompileInv
  <2>3. Sound(excluding, Selecting([n \in names |-> Leaf]), MaxSpecDepth - Len(frames) + 1)
    BY <2>2, Room, SoundSelecting
  <2> QED BY <1>1, <2>1, <2>2, <2>3, PartsReturned, PartsFailing
<1>5. CASE Iterator
  <2>1. \/ Loop(Append(frames, Naming(value)), "names")
        \/ \E kind \in {"TypeError", "raised"} : Fail(kind)
    BY <1>5 DEF Iterator
  <2>2. KeptIn(excluding, Naming(value), Len(frames) + 1)
    <3>1. DOMAIN <<>> = {}
      OBVIOUS
    <3> QED BY <3>1 DEF KeptIn, Naming
  <2> QED BY <1>1, <2>1, <2>2, PartsPushed, PartsFailing DEF Loop
<1> QED BY <1>2, <1>3, <1>4, <1>5, PartsFailing DEF Dict, Mapping, Scalar

LEMMA PartsLoops ==
  ASSUME CompileInv, PartsInv, NextName \/ NextEntry \/ InsertMember
  PROVE  PartsInv'
<1>1. /\ frames # <<>> /\ excluding' = excluding /\ Top.wait \in {"member", "name"}
      /\ KeptIn(excluding, Top, Len(frames))
  <2>1. frames # <<>> /\ excluding' = excluding /\ Top.wait \in {"member", "name"}
    BY DEF NextName, NextEntry, InsertMember, CompileInv, Place, input
  <2>2. Top = frames[Len(frames)] /\ Len(frames) \in 1 .. Len(frames)
    BY <2>1, Emptiness DEF Top, CompileInv
  <2> QED BY <2>1, <2>2 DEF PartsInv
<1>2. ASSUME NEW name, NEW rule, Sound(excluding, rule, MaxSpecDepth + 1 - Len(frames))
      PROVE  KeptIn(excluding, [Top EXCEPT !.rules = WithRule(@, name, rule)], Len(frames))
  <2> DEFINE f == [Top EXCEPT !.rules = WithRule(@, name, rule)]
  <2>1. "rules" \in DOMAIN Top
    BY <1>1 DEF KeptIn
  <2>2. "rules" \in DOMAIN f /\ f.rules = WithRule(Top.rules, name, rule) /\ f.wait = Top.wait
    BY <2>1
  <2>3. \A n \in DOMAIN f.rules :
          f.rules[n] = rule \/ (n \in DOMAIN Top.rules /\ f.rules[n] = Top.rules[n])
    BY <2>2 DEF WithRule
  <2> HIDE DEF f
  <2>4. KeptIn(excluding, f, Len(frames))
    BY <1>1, <1>2, <2>2, <2>3 DEF KeptIn
  <2> QED BY <2>4 DEF f
<1>3. CASE NextName
  <2>1. \/ Loop(OnTop([Top EXCEPT !.rules = WithRule(@, Head(heap[Top.it].items), Leaf)]), "names")
        \/ Fail("TypeError") \/ Fail("raised")
    BY <1>3 DEF NextName
  <2>2. KeptIn(excluding, [Top EXCEPT !.rules = WithRule(@, Head(heap[Top.it].items), Leaf)], Len(frames))
    BY <1>2, Room
  <2> QED BY <1>1, <2>1, <2>2, PartsReplaced, PartsFailing DEF Loop
<1>4. CASE NextEntry
  <2>1. PICK key, object, rest : \/ Fail("TypeError")
                           \/ Call(object, OnTop([Top EXCEPT !.key = key, !.rest = rest]))
    BY <1>4 DEF NextEntry
  <2>2. KeptIn(excluding, [Top EXCEPT !.key = key, !.rest = rest], Len(frames))
    BY <1>1 DEF KeptIn
  <2> QED BY <1>1, <2>1, <2>2, PartsReplaced, PartsFailing DEF Call
<1>5. CASE InsertMember
  <2>1. /\ Loop(OnTop([Top EXCEPT !.rules = WithRule(@, Top.key, result)]), "next")
        /\ Sound(excluding, result, MaxSpecDepth + 1 - Len(frames))
    BY <1>5 DEF InsertMember, PartsInv
  <2>2. KeptIn(excluding, [Top EXCEPT !.rules = WithRule(@, Top.key, result)], Len(frames))
    BY <1>2, <2>1
  <2> QED BY <1>1, <2>1, <2>2, PartsReplaced DEF Loop
<1> QED BY <1>3, <1>4, <1>5

LEMMA PartsEnds ==
  ASSUME CompileInv, PartsInv, NamesEnd \/ EntriesEnd \/ WrapElement
  PROVE  PartsInv'
<1>1. frames # <<>> /\ excluding' = excluding
  BY DEF NamesEnd, EntriesEnd, WrapElement, CompileInv, Place, input
<1>2. CASE NamesEnd \/ EntriesEnd
  <2>1. Top.wait \in {"member", "name"} /\ Return(Selecting(Top.rules), Below)
    BY <1>2 DEF NamesEnd, EntriesEnd, CompileInv, Place
  <2>2. Top = frames[Len(frames)] /\ Len(frames) \in 1 .. Len(frames)
    BY <1>1, Emptiness DEF Top, CompileInv
  <2>3. \A n \in DOMAIN Top.rules : Sound(excluding, Top.rules[n], MaxSpecDepth + 1 - Len(frames))
    BY <2>1, <2>2 DEF PartsInv, KeptIn
  <2>4. Sound(excluding, Selecting(Top.rules), MaxSpecDepth + 1 - Len(frames) + 1)
    BY <2>3, Room, SoundSelecting
  <2> QED BY <1>1, <2>1, <2>4, PartsReturned
<1>3. CASE WrapElement
  <2>1. \/ Fail("TypeError")
        \/ /\ result # SDiscard /\ Return(SArray(result), Below)
           /\ Sound(excluding, result, MaxSpecDepth + 1 - Len(frames))
    BY <1>3 DEF WrapElement, PartsInv
  <2>2. ASSUME result # SDiscard, Sound(excluding, result, MaxSpecDepth + 1 - Len(frames))
        PROVE  Sound(excluding, SArray(result), MaxSpecDepth + 1 - Len(frames) + 1)
    <3>1. FitsIn(excluding, SArray(result)) /\ Held(SArray(result)) = {result}
      BY <2>2 DEF FitsIn, Held, SArray
    <3> QED BY <2>2, <3>1, Room, SoundHolder
  <2> QED BY <1>1, <2>1, <2>2, PartsReturned, PartsFailing
<1> QED BY <1>2, <1>3

LEMMA PartsStep == CompileInv /\ PartsInv /\ [Next]_vars => PartsInv'
<1> SUFFICES ASSUME CompileInv, PartsInv, [Next]_vars PROVE PartsInv'
  OBVIOUS
<1>1. CASE TooDeep \/ ReprRaises
  BY <1>1, PartsFailing DEF TooDeep, ReprRaises
<1>2. CASE Finish
  <2>1. Len(<<>>) = 0
    BY EmptySeq
  <2>2. Sound(excluding, result, MaxSpecDepth + 1)
    BY <1>2, <2>1, DepthAssumption DEF Finish, PartsInv
  <2> QED BY <1>2, <2>2 DEF Finish, Compiled, Error, input, PartsInv
<1>3. CASE Over \/ UNCHANGED vars
  BY <1>3 DEF Over, vars, input, PartsInv
<1> QED
  BY <1>1, <1>2, <1>3, PartsEnter, PartsLoops, PartsEnds DEF Next, Step

(* Whatever Python code does to the objects while they are compiled, what  *)
(* from_py makes of them is for one mode only, drops no element, and is    *)
(* nested no deeper than the cap lets through.                             *)
THEOREM CompiledCanBeApplied == Spec => []CanBeApplied
<1>1. Init => PartsInv
  <2>1. Len(<<>>) = 0
    BY EmptySeq
  <2> QED BY <2>1 DEF Init, Running, PartsInv
<1>2. CompileInv /\ PartsInv => CanBeApplied
  <2> SUFFICES ASSUME CompileInv, PartsInv, outcome.kind = "compiled",
                      NEW n \in 0 .. MaxSpecDepth + 2,
                      NEW part \in PartsAt(outcome.spec)[n]
               PROVE  Fits(part) /\ n <= MaxSpecDepth + 1
    BY DEF CanBeApplied
  <2>1. FitsIn(excluding, part) /\ n <= MaxSpecDepth + 1
    BY DepthAssumption DEF PartsInv, Sound
  <2> QED BY <2>1 DEF FitsIn, Fits, Leaf
<1> QED BY <1>1, <1>2, CompileInit, CompileStep, PartsStep, PTL DEF Spec
-----------------------------------------------------------------------------
(* What compiles is what the grammar accepts.                              *)

(* The equations of RulesWithin.                                           *)
LEMMA RulesWithinLevels ==
  ASSUME NEW h, NEW mode
  PROVE  /\ RulesWithin(h, mode)[0] = {}
         /\ \A n \in Nat :
              RulesWithin(h, mode)[n + 1]
                = { o \in DOMAIN h :
                      IsRule(h, o, n + 1 > MaxSpecDepth, RulesWithin(h, mode)[n], mode) }
<1> DEFINE D    == SUBSET DOMAIN h
           Up(n, S) == { o \in DOMAIN h : IsRule(h, o, n > MaxSpecDepth, S, mode) }
           step == [n \in Nat |-> [S \in D |-> Up(n + 1, S)]]
           E(g) == [n \in Nat |-> IF n = 0 THEN {} ELSE Up(n, g[n - 1])]
           r    == RulesWithin(h, mode)
<1>1. PICK f \in [Nat -> D] : f = [n \in Nat |-> IF n = 0 THEN {} ELSE step[n - 1][f[n - 1]]]
  <2>1. {} \in D /\ step \in [Nat -> [D -> D]]
    OBVIOUS
  <2> HIDE DEF D, step
  <2> QED BY <2>1, Recursion
<1>2. f = E(f)
  <2> HIDE DEF Up, D
  <2>1. ASSUME NEW n \in Nat, n # 0 PROVE step[n - 1][f[n - 1]] = Up(n, f[n - 1])
    <3>1. n - 1 \in Nat /\ (n - 1) + 1 = n
      BY <2>1
    <3> QED BY <3>1
  <2> HIDE DEF step
  <2> QED BY <1>1, <2>1
<1>3. r = E(r)
  <2>1. r = CHOOSE g : g = E(g)
    BY DEF RulesWithin
  <2> HIDE DEF E, r
  <2> QED BY <1>2, <2>1
<1> HIDE DEF r, Up
<1>4. r[0] = {}
  BY <1>3
<1>5. ASSUME NEW n \in Nat PROVE r[n + 1] = Up(n + 1, r[n])
  <2>1. n + 1 \in Nat /\ n + 1 # 0 /\ (n + 1) - 1 = n
    OBVIOUS
  <2> QED BY <1>3, <2>1
<1> QED BY <1>4, <1>5 DEF r, Up

(* The grammar, one level of it.                                           *)
LEMMA GrammarUnfolds ==
  ASSUME NEW h, NEW mode, NEW d \in 0 .. MaxSpecDepth, NEW o
  PROVE  Grammatical(h, o, d, mode) <=>
           /\ o \in DOMAIN h
           /\ \/ h[o].py = "bool" /\ h[o].is /\ d > 0
              \/ IsNames(h[o]) /\ NotStr \notin Mentioned(h[o])
              \/ /\ OfElements(h[o]) /\ d > 0
                 /\ Grammatical(h, h[o].items[1].value, d + 1, mode)
                 /\ ~(mode /\ h[h[o].items[1].value].py = "bool")
              \/ /\ IsMapping(h[o]) /\ ~OfElements(h[o])
                 /\ \A i \in DOMAIN h[o].items :
                      /\ h[o].items[i].key \notin {NotStr, Everything}
                      /\ Grammatical(h, h[o].items[i].value, d + 1, mode)
<1> DEFINE n == MaxSpecDepth - d
<1>1. /\ n \in Nat /\ MaxSpecDepth + 1 - d = n + 1 /\ MaxSpecDepth + 1 - (d + 1) = n
      /\ n + 1 > MaxSpecDepth <=> ~(d > 0)
  BY DepthAssumption
<1> HIDE DEF n
<1>2. RulesWithin(h, mode)[n + 1]
        = { x \in DOMAIN h : IsRule(h, x, n + 1 > MaxSpecDepth, RulesWithin(h, mode)[n], mode) }
  BY <1>1, RulesWithinLevels
<1>3. \A x : Grammatical(h, x, d + 1, mode) <=> x \in RulesWithin(h, mode)[n]
  BY <1>1 DEF Grammatical
<1>4. Grammatical(h, o, d, mode) <=> o \in RulesWithin(h, mode)[n + 1]
  BY <1>1 DEF Grammatical
<1> QED BY <1>1, <1>2, <1>3, <1>4 DEF IsRule

LEMMA GrammarEnds ==
  ASSUME NEW h, NEW mode, NEW o
  PROVE  ~Grammatical(h, o, MaxSpecDepth + 1, mode)
<1>1. MaxSpecDepth + 1 - (MaxSpecDepth + 1) = 0
  BY DepthAssumption
<1> QED BY <1>1, RulesWithinLevels DEF Grammatical

LEMMA SequenceIs ==
  ASSUME NEW S, NEW s \in Seq(S)
  PROVE  IsSeq(s) /\ DOMAIN s = 1 .. Len(s) /\ Len(s) \in Nat
<1>1. DOMAIN s = 1 .. Len(s) /\ Len(s) \in Nat
  BY LenProperties
<1>2. s \in Seq({ s[i] : i \in DOMAIN s })
  <2> DEFINE R == { s[i] : i \in DOMAIN s }
  <2>1. s \in [1 .. Len(s) -> R]
    BY <1>1, SeqDef
  <2> QED BY <1>1, <2>1, SeqDef
<1> QED BY <1>1, <1>2 DEF IsSeq

(* What a sequence holds is its first item and what the rest holds.        *)
LEMMA FirstAndRest ==
  ASSUME NEW s, IsSeq(s), s # <<>>
  PROVE  /\ IsSeq(Tail(s))
         /\ 1 \in DOMAIN s /\ Head(s) = s[1]
         /\ \A i \in DOMAIN s : s[i] = Head(s) \/ \E j \in DOMAIN Tail(s) : Tail(s)[j] = s[i]
         /\ \A j \in DOMAIN Tail(s) : \E i \in DOMAIN s : s[i] = Tail(s)[j]
<1> DEFINE R == { s[i] : i \in DOMAIN s }
<1>1. s \in Seq(R)
  BY DEF IsSeq
<1> HIDE DEF R
<1>2. DOMAIN s = 1 .. Len(s) /\ Len(s) \in Nat /\ Len(s) # 0
  BY <1>1, SequenceIs, EmptySeq
<1>3. /\ Head(s) = s[1] /\ Tail(s) \in Seq(R)
      /\ Len(Tail(s)) = Len(s) - 1
      /\ \A i \in 1 .. Len(Tail(s)) : Tail(s)[i] = s[i + 1]
  BY <1>1, HeadTailProperties
<1>4. IsSeq(Tail(s)) /\ DOMAIN Tail(s) = 1 .. Len(s) - 1
  BY <1>2, <1>3, SequenceIs
<1>5. ASSUME NEW i \in DOMAIN s PROVE s[i] = Head(s) \/ \E j \in DOMAIN Tail(s) : Tail(s)[j] = s[i]
  <2>1. CASE i = 1
    BY <1>3, <2>1
  <2>2. CASE i # 1
    <3>1. i - 1 \in DOMAIN Tail(s) /\ (i - 1) + 1 = i
      BY <1>2, <1>4, <2>2
    <3> QED BY <1>3, <1>4, <3>1
  <2> QED BY <2>1, <2>2
<1>6. ASSUME NEW j \in DOMAIN Tail(s) PROVE \E i \in DOMAIN s : s[i] = Tail(s)[j]
  <2>1. j + 1 \in DOMAIN s
    BY <1>2, <1>4
  <2> QED BY <1>3, <1>4, <2>1
<1> QED BY <1>2, <1>3, <1>4, <1>5, <1>6

LEMMA NothingLeft ==
  ASSUME NEW s, IsSeq(s), s = <<>>
  PROVE  DOMAIN s = {}
  BY EmptySeq, SequenceIs DEF IsSeq

(* What the objects spell, one level of it: the function that SpeltWithin  *)
(* chooses exists.                                                         *)
Nothing(h) == [o \in DOMAIN h |-> SKeep]
Level(h, mode, nested) == [o \in DOMAIN h |-> SpeltBy(h, o, nested, mode)]

(* g holds what the objects spell in up to n levels.                       *)
SpellsTo(h, mode, n, g) ==
  g = [k \in 0 .. n |-> IF k = 0 THEN Nothing(h) ELSE Level(h, mode, g[k - 1])]

LEMMA SpellsToIs ==
  ASSUME NEW h, NEW mode, NEW n \in Nat, NEW g, SpellsTo(h, mode, n, g)
  PROVE  /\ g[0] = Nothing(h)
         /\ \A k \in 1 .. n : g[k] = Level(h, mode, g[k - 1])
<1> DEFINE rhs(k) == IF k = 0 THEN Nothing(h) ELSE Level(h, mode, g[k - 1])
<1>1. g = [k \in 0 .. n |-> rhs(k)]
  BY DEF SpellsTo
<1>2. \A k \in 0 .. n : g[k] = rhs(k)
  <2> HIDE DEF rhs
  <2> QED BY <1>1
<1> QED BY <1>2

LEMMA SpellsToExists ==
  ASSUME NEW h, NEW mode, NEW n \in Nat
  PROVE  \E g : SpellsTo(h, mode, n, g)
<1> DEFINE T == { k \in Nat : ~ \E g : SpellsTo(h, mode, k, g) }
<1> SUFFICES ASSUME T # {} PROVE FALSE
  OBVIOUS
<1>1. PICK k \in T : \A j \in T : k <= j
  <2>1. T \in SUBSET Nat
    OBVIOUS
  <2> HIDE DEF T
  <2> QED BY <2>1, Least
<1>2. k # 0
  <2> SUFFICES ASSUME k = 0 PROVE FALSE
    OBVIOUS
  <2> DEFINE g == [j \in 0 .. 0 |-> Nothing(h)]
  <2>1. SpellsTo(h, mode, 0, g)
    BY DEF SpellsTo
  <2> HIDE DEF g
  <2> QED BY <2>1
<1>3. k \in Nat /\ k - 1 \in Nat /\ ~(k <= k - 1)
  BY <1>2
<1>4. PICK g : SpellsTo(h, mode, k - 1, g)
  <2>1. k - 1 \notin T
    <3> HIDE DEF T
    <3> QED BY <1>1, <1>3
  <2> QED BY <1>3, <2>1
<1> DEFINE f == [j \in 0 .. k |-> IF j = k THEN Level(h, mode, g[k - 1]) ELSE g[j]]
<1>5. /\ f[0] = Nothing(h)
      /\ \A j \in 1 .. k : f[j] = Level(h, mode, f[j - 1])
  <2>1. /\ g[0] = Nothing(h)
        /\ \A j \in 1 .. k - 1 : g[j] = Level(h, mode, g[j - 1])
    <3>1. k - 1 \in Nat /\ SpellsTo(h, mode, k - 1, g)
      BY <1>3, <1>4
    <3> HIDE DEF f, T
    <3> QED BY <3>1, SpellsToIs, SMTT(30)
  <2>2. f[0] = Nothing(h)
    BY <1>2, <1>3, <2>1
  <2>3. ASSUME NEW j \in 1 .. k PROVE f[j] = Level(h, mode, f[j - 1])
    <3>1. f[j - 1] = g[j - 1]
      BY <1>3
    <3>2. CASE j = k
      BY <1>3, <3>1, <3>2
    <3>3. CASE j # k
      <4>1. j \in 1 .. k - 1 /\ f[j] = g[j]
        BY <1>3, <3>3
      <4> QED BY <2>1, <3>1, <4>1
    <3> QED BY <3>2, <3>3
  <2> QED BY <2>2, <2>3
<1>6. SpellsTo(h, mode, k, f)
  <2> DEFINE rhs(e, j) == IF j = 0 THEN Nothing(h) ELSE Level(h, mode, e[j - 1])
  <2>1. PICK e : e = f
    OBVIOUS
  <2>2. e = [j \in 0 .. k |-> e[j]]
    BY <2>1
  <2> HIDE DEF f
  <2>3. \A j \in 0 .. k : e[j] = rhs(e, j)
    <3> TAKE j \in 0 .. k
    <3>1. j = 0 \/ j \in 1 .. k
      BY <1>3
    <3> QED BY <1>5, <2>1, <3>1
  <2> HIDE DEF rhs
  <2>4. e = [j \in 0 .. k |-> rhs(e, j)]
    BY <2>2, <2>3
  <2> USE DEF rhs
  <2>5. SpellsTo(h, mode, k, e)
    BY <2>4 DEF SpellsTo
  <2> QED BY <2>1, <2>5
<1> HIDE DEF f
<1> QED BY <1>6

(* What an object spells at a depth, by what objects spell one level       *)
(* deeper.                                                                 *)
LEMMA SpelledByLevels ==
  ASSUME NEW h, NEW mode, NEW d \in 0 .. MaxSpecDepth, NEW o \in DOMAIN h
  PROVE  Spelt(h, o, d, mode)
           = SpeltBy(h, o, [x \in DOMAIN h |-> Spelt(h, x, d + 1, mode)], mode)
<1> DEFINE top == MaxSpecDepth + 1
           n   == top - d
<1>1. /\ top \in Nat /\ n \in 1 .. top /\ n - 1 \in 0 .. top
      /\ MaxSpecDepth + 1 - d = n /\ MaxSpecDepth + 1 - (d + 1) = n - 1
  BY DepthAssumption
<1>2. PICK s : s = SpeltWithin(h, mode)
  OBVIOUS
<1>3. SpellsTo(h, mode, top, s)
  <2>1. \E g : SpellsTo(h, mode, top, g)
    <3> HIDE DEF top
    <3> QED BY <1>1, SpellsToExists
  <2>2. s = CHOOSE g : SpellsTo(h, mode, top, g)
    BY <1>2 DEF SpeltWithin, SpellsTo, Nothing, Level
  <2> HIDE DEF top
  <2> QED BY <2>1, <2>2
<1> HIDE DEF n, top
<1>4. Spelt(h, o, d, mode) = s[n][o] /\ \A x : Spelt(h, x, d + 1, mode) = s[n - 1][x]
  BY <1>1, <1>2 DEF Spelt
<1>5. s[0] = Nothing(h) /\ \A k \in 1 .. top : s[k] = Level(h, mode, s[k - 1])
  BY <1>1, <1>3, SpellsToIs
<1>6. s[n - 1] = [x \in DOMAIN h |-> s[n - 1][x]]
  <2>1. n - 1 = 0 \/ n - 1 \in 1 .. top
    BY <1>1
  <2> QED BY <1>5, <2>1 DEF Level, Nothing
<1>7. s[n][o] = SpeltBy(h, o, s[n - 1], mode)
  BY <1>1, <1>5 DEF Level
<1> QED BY <1>4, <1>6, <1>7

LeafIn(mode)              == IF mode THEN SDiscard ELSE SKeep
SelectingIn(mode, fields) == IF mode THEN SExclude(fields) ELSE SObject(fields)

(* What an object spells, by what it is.                                   *)
LEMMA LeafSpells ==
  ASSUME NEW h, NEW mode, NEW d \in 0 .. MaxSpecDepth, NEW o \in DOMAIN h, h[o].py = "bool"
  PROVE  Spelt(h, o, d, mode) = LeafIn(mode)
<1>1. \A nested : SpeltBy(h, o, nested, mode) = LeafIn(mode)
  BY DEF SpeltBy, LeafIn, IsNames, IsMapping, OfElements
<1> QED BY <1>1, SpelledByLevels

LEMMA NamesSpell ==
  ASSUME NEW h, NEW mode, NEW d \in 0 .. MaxSpecDepth, NEW o \in DOMAIN h, IsNames(h[o])
  PROVE  Spelt(h, o, d, mode) = SelectingIn(mode, [n \in Mentioned(h[o]) |-> LeafIn(mode)])
<1>1. ~OfElements(h[o]) /\ ~IsMapping(h[o])
  BY DEF IsNames, IsMapping, OfElements
<1>2. \A nested : SpeltBy(h, o, nested, mode)
                    = SelectingIn(mode, [n \in Mentioned(h[o]) |-> LeafIn(mode)])
  BY <1>1 DEF SpeltBy, LeafIn, SelectingIn
<1> QED BY <1>2, SpelledByLevels

LEMMA ElementsSpell ==
  ASSUME NEW h, NEW mode, NEW d \in 0 .. MaxSpecDepth, NEW o \in DOMAIN h, OfElements(h[o]),
         h[o].items[1].value \in DOMAIN h
  PROVE  Spelt(h, o, d, mode) = SArray(Spelt(h, h[o].items[1].value, d + 1, mode))
<1>1. ~IsNames(h[o])
  BY DEF IsNames, IsMapping, OfElements
<1>2. \A nested : SpeltBy(h, o, nested, mode) = SArray(nested[h[o].items[1].value])
  BY <1>1 DEF SpeltBy
<1> QED BY <1>2, SpelledByLevels

LEMMA MembersSpell ==
  ASSUME NEW h, NEW mode, NEW d \in 0 .. MaxSpecDepth, NEW o \in DOMAIN h,
         IsMapping(h[o]), ~OfElements(h[o]), NEW rules,
         rules = [n \in Mentioned(h[o]) |-> rules[n]],
         \A j \in DOMAIN h[o].items :
           /\ h[o].items[j].value \in DOMAIN h
           /\ rules[h[o].items[j].key] = Spelt(h, h[o].items[j].value, d + 1, mode)
  PROVE  Spelt(h, o, d, mode) = SelectingIn(mode, rules)
<1> DEFINE nested == [x \in DOMAIN h |-> Spelt(h, x, d + 1, mode)]
<1>1. Spelt(h, o, d, mode) = SpeltBy(h, o, nested, mode)
  BY SpelledByLevels
<1>2. \A x \in DOMAIN h : nested[x] = Spelt(h, x, d + 1, mode)
  OBVIOUS
<1> HIDE DEF nested
<1>3. ~IsNames(h[o])
  BY DEF IsNames, IsMapping
<1>4. ASSUME NEW n \in Mentioned(h[o]) PROVE rules[n] = nested[ForMember(h[o], n)]
  <2> DEFINE E == { h[o].items[i] : i \in DOMAIN h[o].items }
  <2>1. \E e \in E : e.key = n
    BY <1>4 DEF Mentioned
  <2>2. PICK e \in E : e = (CHOOSE x \in E : x.key = n) /\ e.key = n
    BY <2>1
  <2>3. ForMember(h[o], n) = e.value
    BY <2>2 DEF ForMember
  <2>4. PICK j \in DOMAIN h[o].items : e = h[o].items[j]
    OBVIOUS
  <2> QED BY <1>2, <2>2, <2>3, <2>4
<1>5. rules = [n \in Mentioned(h[o]) |-> nested[ForMember(h[o], n)]]
  BY <1>4
<1> QED BY <1>1, <1>3, <1>5 DEF SpeltBy, SelectingIn

(* Call number i compiles `object`, and `pending` holds the object whose   *)
(* rule it waits for.  It has seen to all the entries that are not in      *)
(* `rest`, and found rules.                                                *)
Found(h, mode, f, i, entry) ==
  /\ Grammatical(h, entry.value, i, mode)
  /\ entry.key \in DOMAIN f.rules
  /\ f.rules[entry.key] = Spelt(h, entry.value, i, mode)

MemberFits(h, mode, f, i, object, pending) ==
  LET items == h[object].items
  IN  /\ IsMapping(h[object]) /\ ~OfElements(h[object])
      /\ {"key", "rest", "rules"} \subseteq DOMAIN f /\ IsSeq(f.rest)
      /\ \A m \in DOMAIN f.rest : \E j \in DOMAIN items : f.rest[m] = items[j]
      /\ f.rules = [n \in DOMAIN f.rules |-> f.rules[n]]
      /\ \A n \in DOMAIN f.rules : \E j \in DOMAIN items : items[j].key = n
      /\ \A o \in pending :
           \E j \in DOMAIN items : items[j].key = f.key /\ items[j].value = o
      /\ \A j \in DOMAIN items :
           \/ \E m \in DOMAIN f.rest : f.rest[m] = items[j]
           \/ /\ items[j].key \notin {NotStr, Everything}
              /\ \/ Found(h, mode, f, i, items[j])
                 \/ items[j].value \in pending /\ items[j].key = f.key

CallFits(h, mode, f, i, object, pending) ==
  /\ f.wait = "member" => MemberFits(h, mode, f, i, object, pending)
  /\ f.wait = "element" =>
       i > 1 /\ OfElements(h[object]) /\ pending = {h[object].items[1].value}
  /\ f.wait = "name" =>
       h[object].py = "iterator" /\ {"it", "rules"} \subseteq DOMAIN f /\ f.it = object
       /\ f.rules = [n \in DOMAIN f.rules |-> LeafIn(mode)]

Pending(c, n, i) == IF i < n THEN {c[i + 1]} ELSE {}

(* The objects in progress, the root first, are rules if the root is.      *)
Chain(h, mode, fs, n, c) ==
  /\ c[1] = Root
  /\ \A i \in 1 .. n : c[i] \in DOMAIN h
  /\ Grammatical(h, Root, 0, mode) => \A i \in 1 .. n : Grammatical(h, c[i], i - 1, mode)
  /\ \A i \in 1 .. Len(fs) : CallFits(h, mode, fs[i], i, c[i], Pending(c, n, i))

(* What is returned for a rule.                                            *)
ResultFits(mode, rule, compiled) ==
  /\ rule.py = "bool" => compiled = IF mode THEN SDiscard ELSE SKeep
  /\ OfElements(rule) => compiled.kind = "Array"
  /\ rule.py # "bool" /\ ~OfElements(rule) => compiled.kind \in {"Object", "ExcludeObject"}

(* How many objects are in progress.                                       *)
Current == IF pc \in {"enter", "return"} THEN Len(frames) + 1 ELSE Len(frames)

(* The names of a rule are those that have been seen and those to come.    *)
NamesLeft(rule, items, seen) ==
  /\ NotStr \notin seen
  /\ Mentioned(rule) = seen \cup { items[i] : i \in DOMAIN items }

(* What is known of the last of them.                                      *)
Here(c) ==
  /\ pc = "enter" => value = c[Current]
  /\ pc = "names" => NamesLeft(written[Top.it], heap[Top.it].items, DOMAIN Top.rules)
  /\ pc = "return" =>
       /\ Grammatical(written, c[Current], Current - 1, excluding)
       /\ ResultFits(excluding, written[c[Current]], result)
       /\ result = Spelt(written, c[Current], Current - 1, excluding)

(* The objects are as they were passed, but an iterator may be further on. *)
AsPassed ==
  /\ DOMAIN heap = DOMAIN written
  /\ \A o \in DOMAIN written :
       IF written[o].py = "iterator"
       THEN {"py", "items"} \subseteq DOMAIN heap[o] /\ heap[o].py = "iterator" /\ IsSeq(heap[o].items)
       ELSE heap[o] = written[o]

GrammarInv ==
  /\ written \in Heaps
  /\ calm /\ pc # "done" =>
       AsPassed /\ \E c : Chain(written, excluding, frames, Current, c) /\ Here(c)
  /\ AcceptsTheGrammar /\ SpellsWhatIsWritten

-----------------------------------------------------------------------------
LEMMA GoesOn ==
  ASSUME GrammarInv, written' = written, pc' # "done",
         calm' => /\ AsPassed'
                  /\ \E c : Chain(written', excluding', frames', Current', c) /\ Here(c)'
  PROVE  GrammarInv'
  BY DEF GrammarInv, AcceptsTheGrammar, SpellsWhatIsWritten

LEMMA Refuses ==
  ASSUME GrammarInv, written' = written, excluding' = excluding,
         NEW kind \in {"TypeError", "raised"}, Fail(kind),
         calm' => kind = "raised" \/ ~Grammatical(written, Root, 0, excluding)
  PROVE  GrammarInv'
  BY DEF GrammarInv, AcceptsTheGrammar, SpellsWhatIsWritten, Fail, Error

(* The first k calls and k + 1 objects stay; one more call may follow      *)
(* them, and then one more object.                                         *)
LEMMA ChainMoves ==
  ASSUME NEW h, NEW mode, NEW fs, NEW n \in Nat, NEW c, Chain(h, mode, fs, n, c),
         NEW ft, NEW m \in Nat, NEW e, NEW k \in Nat,
         k <= Len(fs), Len(fs) \in Nat, k + 1 <= n,
         \A i \in 1 .. k : ft[i] = fs[i],
         \A i \in 1 .. k + 1 : e[i] = c[i],
         Len(ft) = k \/ Len(ft) = k + 1,
         m = k + 1 \/ m = k + 2,
         m = k + 2 =>
           /\ e[k + 2] \in DOMAIN h
           /\ Grammatical(h, c[k + 1], k, mode) => Grammatical(h, e[k + 2], k + 1, mode),
         Len(ft) = k + 1 =>
           CallFits(h, mode, ft[k + 1], k + 1, c[k + 1], Pending(e, m, k + 1))
  PROVE  Chain(h, mode, ft, m, e)
<1>1. e[1] = Root
  BY DEF Chain
<1>2. ASSUME NEW i \in 1 .. m PROVE e[i] \in DOMAIN h
  BY DEF Chain
<1>3. ASSUME Grammatical(h, Root, 0, mode), NEW i \in 1 .. m
      PROVE  Grammatical(h, e[i], i - 1, mode)
  <2>1. CASE i \in 1 .. k + 1
    BY <1>3, <2>1 DEF Chain
  <2>2. CASE i = k + 2
    <3>1. Grammatical(h, c[k + 1], (k + 1) - 1, mode) /\ (k + 1) - 1 = k /\ (k + 2) - 1 = k + 1
      BY <1>3 DEF Chain
    <3> QED BY <2>2, <3>1
  <2> QED BY <2>1, <2>2
<1>4. ASSUME NEW i \in 1 .. Len(ft) PROVE CallFits(h, mode, ft[i], i, e[i], Pending(e, m, i))
  <2>1. CASE i \in 1 .. k
    <3>1. /\ ft[i] = fs[i] /\ e[i] = c[i] /\ e[i + 1] = c[i + 1]
          /\ i < n /\ i < m /\ i \in 1 .. Len(fs)
      <4>1. i \in 1 .. k + 1 /\ i + 1 \in 1 .. k + 1
        BY <2>1
      <4>2. i < n /\ i < m /\ i \in 1 .. Len(fs)
        BY <2>1
      <4> QED BY <2>1, <4>1, <4>2
    <3>2. Pending(e, m, i) = Pending(c, n, i)
      BY <3>1 DEF Pending
    <3> QED BY <3>1, <3>2 DEF Chain
  <2>2. CASE i = k + 1
    BY <2>2
  <2> QED BY <2>1, <2>2
<1> QED BY <1>1, <1>2, <1>3, <1>4 DEF Chain

LEMMA Passed ==
  ASSUME GrammarInv, AsPassed, NEW o \in DOMAIN written
  PROVE  /\ heap[o].py = written[o].py
         /\ written[o].py # "iterator" => heap[o] = written[o]
         /\ IsMapping(written[o]) \/ IsNames(written[o]) => IsSeq(written[o].items)
         /\ IsMapping(written[o]) =>
              \A i, j \in DOMAIN written[o].items :
                /\ written[o].items[i].value \in DOMAIN written
                /\ written[o].items[i].key = written[o].items[j].key => i = j
  BY HeapAssumption DEF AsPassed, GrammarInv, IsHeap

(* The object that is to be compiled.                                      *)
LEMMA AtEnter ==
  ASSUME CompileInv, GrammarInv, calm, pc = "enter"
  PROVE  /\ AsPassed /\ Len(frames) \in Nat /\ value \in DOMAIN written
         /\ \E c : Chain(written, excluding, frames, Len(frames) + 1, c) /\ value = c[Len(frames) + 1]
         /\ Grammatical(written, Root, 0, excluding)
              => Grammatical(written, value, Len(frames), excluding)
<1>1. Len(frames) \in Nat
  BY Emptiness DEF CompileInv
<1>2. AsPassed /\ \E c : Chain(written, excluding, frames, Current, c) /\ Here(c)
  BY DEF GrammarInv
<1>3. PICK c : Chain(written, excluding, frames, Len(frames) + 1, c) /\ value = c[Len(frames) + 1]
  BY <1>2 DEF Current, Here
<1>4. Len(frames) + 1 \in 1 .. Len(frames) + 1 /\ (Len(frames) + 1) - 1 = Len(frames)
  BY <1>1
<1>5. value \in DOMAIN written
  BY <1>3, <1>4 DEF Chain
<1>6. Grammatical(written, Root, 0, excluding) => Grammatical(written, value, Len(frames), excluding)
  BY <1>3, <1>4 DEF Chain
<1> QED BY <1>1, <1>2, <1>3, <1>5, <1>6

LEMMA Answered ==
  ASSUME CompileInv, GrammarInv, pc = "enter", UNCHANGED input,
         NEW rule, Return(rule, frames),
         calm' => /\ calm /\ heap' = heap
                  /\ Grammatical(written, value, Len(frames), excluding)
                  /\ ResultFits(excluding, written[value], rule)
                  /\ rule = Spelt(written, value, Len(frames), excluding)
  PROVE  GrammarInv'
<1>1. ASSUME calm'
      PROVE  AsPassed' /\ \E c : Chain(written', excluding', frames', Current', c) /\ Here(c)'
  <2>1. PICK c : Chain(written, excluding, frames, Len(frames) + 1, c) /\ value = c[Len(frames) + 1]
    BY <1>1, AtEnter
  <2>2. AsPassed /\ Len(frames) \in Nat
    BY <1>1, AtEnter
  <2>3. AsPassed'
    BY <1>1, <2>2 DEF AsPassed, input
  <2>4. Current' = Len(frames) + 1 /\ (Len(frames) + 1) - 1 = Len(frames)
    BY <2>2 DEF Current, Return
  <2>5. Chain(written', excluding', frames', Current', c)
    BY <2>1, <2>4 DEF Return, input
  <2>6. Here(c)'
    BY <1>1, <2>1, <2>4 DEF Here, Return, input
  <2> QED BY <2>3, <2>5, <2>6
<1> QED BY <1>1, GoesOn DEF Return, input

(* A mapping is gone through entry by entry, or all of it is "__all__".    *)
LEMMA OpenFits ==
  ASSUME CompileInv, GrammarInv, pc = "enter", Len(frames) <= MaxSpecDepth, UNCHANGED input,
         NEW items, Open(items),
         calm' => /\ calm /\ heap' = heap /\ items = heap[value].items
                  /\ heap[value].py \in {"dict", "mapping"}
  PROVE  GrammarInv'
<1> DEFINE k == Len(frames)
<1>1. k \in Nat /\ k \in 0 .. MaxSpecDepth
  BY Emptiness, DepthAssumption DEF CompileInv
<1>2. ASSUME calm'
      PROVE  /\ AsPassed /\ AsPassed' /\ value \in DOMAIN written
             /\ IsMapping(written[value]) /\ items = written[value].items /\ IsSeq(items)
             /\ OfElements(written[value]) <=> IsWildcard(items)
             /\ \A i \in DOMAIN items : items[i].value \in DOMAIN written
  <2>1. AsPassed /\ value \in DOMAIN written
    BY <1>2, AtEnter
  <2>2. AsPassed'
    BY <1>2, <2>1 DEF AsPassed, input
  <2>3. heap[value] = written[value] /\ IsMapping(written[value])
    BY <1>2, <2>1, Passed DEF IsMapping
  <2> QED BY <1>2, <2>1, <2>2, <2>3, Passed DEF OfElements, IsWildcard
<1>3. CASE ~IsWildcard(items)
  <2> DEFINE f == Entries(value, items)
  <2>1. Loop(Append(frames, f), "next")
    BY <1>3 DEF Open
  <2>2. ASSUME calm' PROVE \E c : Chain(written', excluding', frames', Current', c) /\ Here(c)'
    <3>1. PICK c : Chain(written, excluding, frames, k + 1, c) /\ value = c[k + 1]
      BY <1>2, <2>2, AtEnter
    <3>2. CallFits(written, excluding, f, k + 1, c[k + 1], Pending(c, k + 1, k + 1))
      <4>1. Pending(c, k + 1, k + 1) = {}
        BY <1>1 DEF Pending
      <4>2. DOMAIN f.rules = {} /\ f.rules = [n \in DOMAIN f.rules |-> f.rules[n]]
        BY DEF Entries
      <4> QED BY <1>2, <1>3, <2>2, <3>1, <4>1, <4>2 DEF CallFits, MemberFits, Entries
    <3> HIDE DEF f
    <3>3. /\ Len(frames') = k + 1 /\ \A i \in 1 .. k : frames'[i] = frames[i]
          /\ frames'[k + 1] = f
      BY <2>1, PushedFrames DEF Loop, CompileInv
    <3>4. Current' = k + 1
      BY <2>1, <3>3 DEF Current, Loop
    <3> HIDE DEF k
    <3>5. Chain(written, excluding, frames', k + 1, c)
      BY <1>1, <3>1, <3>2, <3>3, ChainMoves DEF k
    <3>6. Here(c)'
      BY <2>1 DEF Here, Loop
    <3> QED BY <3>4, <3>5, <3>6 DEF input
  <2> QED BY <1>2, <2>1, <2>2, GoesOn DEF Loop, input
<1>4. CASE IsWildcard(items) /\ frames = <<>>
  <2>1. Fail("TypeError") /\ k = 0
    BY <1>4, EmptySeq DEF Open
  <2>2. ASSUME calm' PROVE ~Grammatical(written, Root, 0, excluding)
    <3>1. OfElements(written[value]) /\ IsMapping(written[value])
      BY <1>2, <1>4, <2>2
    <3>2. ~IsNames(written[value]) /\ written[value].py # "bool"
      BY <3>1 DEF IsMapping, IsNames
    <3> HIDE DEF k
    <3>3. 0 \in 0 .. MaxSpecDepth /\ ~(0 > 0)
      BY DepthAssumption
    <3>4. ~Grammatical(written, value, 0, excluding)
      BY <3>1, <3>2, <3>3, GrammarUnfolds
    <3> QED BY <1>2, <2>1, <2>2, <3>4, AtEnter DEF k
  <2> QED BY <2>1, <2>2, Refuses DEF input
<1>5. CASE IsWildcard(items) /\ frames # <<>>
  <2> DEFINE o == items[1].value
  <2>1. Call(o, Append(frames, AwaitElement)) /\ k > 0
    BY <1>1, <1>5, Emptiness DEF Open, CompileInv
  <2>2. ASSUME calm' PROVE \E c : Chain(written', excluding', frames', Current', c) /\ Here(c)'
    <3>1. PICK c : Chain(written, excluding, frames, k + 1, c) /\ value = c[k + 1]
      BY <1>2, <2>2, AtEnter
    <3>2. PICK e : e[k + 2] = o /\ \A i \in 1 .. k + 1 : e[i] = c[i]
      <4> DEFINE d == [i \in 1 .. k + 2 |-> IF i = k + 2 THEN o ELSE c[i]]
      <4>1. d[k + 2] = o /\ \A i \in 1 .. k + 1 : d[i] = c[i]
        BY <1>1
      <4> QED BY <4>1
    <3>3. OfElements(written[value]) /\ o = written[value].items[1].value /\ o \in DOMAIN written
      <4>1. 1 \in DOMAIN items
        BY <1>2, <1>5, <2>2, SequenceIs DEF IsWildcard, IsSeq
      <4> QED BY <1>2, <1>5, <2>2, <4>1
    <3>4. CallFits(written, excluding, AwaitElement, k + 1, c[k + 1], Pending(e, k + 2, k + 1))
      <4>1. k + 1 < k + 2 /\ k + 1 > 1 /\ k + 1 + 1 = k + 2
        BY <1>1, <2>1
      <4> QED BY <3>1, <3>2, <3>3, <4>1 DEF CallFits, AwaitElement, Pending
    <3>5. Grammatical(written, value, k, excluding) => Grammatical(written, o, k + 1, excluding)
      BY <1>1, <3>3, GrammarUnfolds DEF OfElements, IsMapping, IsNames
    <3>6. /\ Len(frames') = k + 1 /\ \A i \in 1 .. k : frames'[i] = frames[i]
          /\ frames'[k + 1] = AwaitElement
      BY <2>1, PushedFrames DEF Call, CompileInv
    <3>7. Current' = k + 2
      BY <1>1, <2>1, <3>6 DEF Current, Call
    <3>8. Here(e)'
      BY <2>1, <3>2, <3>7 DEF Here, Call
    <3> HIDE DEF k, o
    <3>9. Chain(written, excluding, frames', k + 2, e)
      BY <1>1, <3>1, <3>2, <3>3, <3>4, <3>5, <3>6, ChainMoves DEF k
    <3> QED BY <3>7, <3>8, <3>9 DEF input
  <2> QED BY <1>2, <2>1, <2>2, GoesOn DEF Call, input
<1> QED BY <1>3, <1>4, <1>5

(* A value that is no rule.                                                *)
LEMMA NoRule ==
  ASSUME CompileInv, GrammarInv, pc = "enter", UNCHANGED input,
         NEW kind \in {"TypeError", "raised"}, Fail(kind),
         calm' => calm /\ (kind = "raised" \/ ~Grammatical(written, value, Len(frames), excluding))
  PROVE  GrammarInv'
<1>1. ASSUME calm', kind # "raised" PROVE ~Grammatical(written, Root, 0, excluding)
  BY <1>1, AtEnter
<1> QED BY <1>1, Refuses DEF input

LEMMA GrammarDeep ==
  ASSUME CompileInv, GrammarInv, TooDeep
  PROVE  GrammarInv'
<1>1. Len(frames) = MaxSpecDepth + 1
  BY Emptiness, DepthAssumption DEF TooDeep, CompileInv, Calls
<1>2. ~Grammatical(written, value, Len(frames), excluding)
  BY <1>1, GrammarEnds
<1> QED BY <1>2, NoRule DEF TooDeep, NoPython

LEMMA GrammarEnter ==
  ASSUME CompileInv, GrammarInv, Bool \/ Dict \/ Mapping \/ Scalar \/ Names
  PROVE  GrammarInv'
<1>1. pc = "enter" /\ Len(frames) <= MaxSpecDepth /\ UNCHANGED input
  BY DEF Bool, Dict, Mapping, Scalar, Names, Enter
<1>2. Len(frames) \in 0 .. MaxSpecDepth /\ (Len(frames) > 0 <=> frames # <<>>)
  BY <1>1, Emptiness, EmptySeq, DepthAssumption DEF CompileInv
<1>3. ASSUME calm, heap[value].py # "iterator"
      PROVE  value \in DOMAIN written /\ heap[value] = written[value]
  <2>1. AsPassed /\ value \in DOMAIN written
    BY <1>1, <1>3, AtEnter
  <2> QED BY <1>3, <2>1, Passed
<1>4. CASE Bool
  <2>1. NoPython /\ heap[value].py = "bool"
        /\ IF heap[value].is /\ frames # <<>> THEN Return(Leaf, frames) ELSE Fail("TypeError")
    BY <1>4 DEF Bool, Enter
  <2>2. ASSUME calm
        PROVE  /\ Grammatical(written, value, Len(frames), excluding)
                    <=> heap[value].is /\ frames # <<>>
               /\ ResultFits(excluding, written[value], Leaf)
               /\ Leaf = Spelt(written, value, Len(frames), excluding)
    <3>1. value \in DOMAIN written /\ heap[value] = written[value]
      BY <1>3, <2>1, <2>2
    <3>2. ~IsMapping(written[value]) /\ ~IsNames(written[value]) /\ ~OfElements(written[value])
      BY <2>1, <3>1 DEF IsMapping, IsNames, OfElements
    <3>3. Grammatical(written, value, Len(frames), excluding) <=> heap[value].is /\ frames # <<>>
      BY <1>2, <2>1, <3>1, <3>2, GrammarUnfolds
    <3>4. Leaf = Spelt(written, value, Len(frames), excluding)
      BY <1>2, <2>1, <3>1, LeafSpells DEF Leaf, LeafIn
    <3> QED BY <2>1, <3>1, <3>2, <3>3, <3>4 DEF ResultFits, Leaf
  <2> QED BY <1>1, <2>1, <2>2, Answered, NoRule DEF NoPython
<1>5. CASE Dict
  <2>1. NoPython /\ heap[value].py = "dict" /\ Open(heap[value].items)
    BY <1>5 DEF Dict, Enter
  <2> QED BY <1>1, <2>1, OpenFits DEF NoPython
<1>6. CASE Mapping
  <2>1. /\ heap[value].py = "mapping"
        /\ calm' => calm /\ heap' = heap
        /\ Open(heap[value].items) \/ Open(heap'[value].items) \/ Fail("raised")
    BY <1>6 DEF Mapping, Enter, Python
  <2>2. ASSUME NEW items, Open(items), calm' => items = heap[value].items
        PROVE  GrammarInv'
    BY <1>1, <2>1, <2>2, OpenFits
  <2> QED BY <1>1, <2>1, <2>2, NoRule
<1>7. CASE Scalar
  <2>1. NoPython /\ heap[value].py \in {"str", "other"} /\ Fail("TypeError")
    BY <1>7 DEF Scalar, Enter
  <2>2. ASSUME calm PROVE ~Grammatical(written, value, Len(frames), excluding)
    <3>1. value \in DOMAIN written /\ heap[value] = written[value]
      BY <1>3, <2>1, <2>2
    <3>2. ~IsMapping(written[value]) /\ ~IsNames(written[value]) /\ ~OfElements(written[value])
      BY <2>1, <3>1 DEF IsMapping, IsNames, OfElements
    <3> QED BY <1>2, <2>1, <3>1, <3>2, GrammarUnfolds
  <2> QED BY <1>1, <2>1, <2>2, NoRule DEF NoPython
<1>8. CASE Names
  <2> DEFINE names == { heap[value].items[i] : i \in DOMAIN heap[value].items }
  <2>1. /\ NoPython /\ heap[value].py = "names"
        /\ IF NotStr \in names THEN Fail("TypeError")
                               ELSE Return(Selecting([n \in names |-> Leaf]), frames)
    BY <1>8 DEF Names, Enter
  <2>2. ASSUME calm
        PROVE  /\ Grammatical(written, value, Len(frames), excluding) <=> NotStr \notin names
               /\ \A rules : ResultFits(excluding, written[value], Selecting(rules))
               /\ Selecting([n \in names |-> Leaf])
                    = Spelt(written, value, Len(frames), excluding)
    <3>1. value \in DOMAIN written /\ heap[value] = written[value]
      BY <1>3, <2>1, <2>2
    <3>2. /\ ~IsMapping(written[value]) /\ IsNames(written[value]) /\ ~OfElements(written[value])
          /\ written[value].py # "bool"
      BY <2>1, <3>1 DEF IsMapping, IsNames, OfElements
    <3>3. Mentioned(written[value]) = names
      BY <3>1, <3>2 DEF Mentioned
    <3>4. Grammatical(written, value, Len(frames), excluding) <=> NotStr \notin names
      <4> HIDE DEF names
      <4> QED BY <1>2, <3>1, <3>2, <3>3, GrammarUnfolds
    <3>5. Selecting([n \in names |-> Leaf]) = Spelt(written, value, Len(frames), excluding)
      <4> HIDE DEF names
      <4>1. Spelt(written, value, Len(frames), excluding)
              = SelectingIn(excluding, [n \in names |-> LeafIn(excluding)])
        BY <1>2, <3>1, <3>2, <3>3, NamesSpell
      <4>2. Leaf = LeafIn(excluding)
        BY DEF Leaf, LeafIn
      <4>3. \A rules : Selecting(rules) = SelectingIn(excluding, rules)
        BY DEF Selecting, SelectingIn
      <4> QED BY <4>1, <4>2, <4>3
    <3> QED BY <3>2, <3>4, <3>5 DEF ResultFits, Selecting, SObject, SExclude
  <2> HIDE DEF names
  <2> QED BY <1>1, <2>1, <2>2, Answered, NoRule DEF NoPython
<1> QED BY <1>4, <1>5, <1>6, <1>7, <1>8

LEMMA GrammarIterator ==
  ASSUME CompileInv, GrammarInv, Iterator
  PROVE  GrammarInv'
<1> DEFINE k == Len(frames)
           f == Naming(value)
<1>1. /\ pc = "enter" /\ Len(frames) <= MaxSpecDepth /\ UNCHANGED input
      /\ heap[value].py = "iterator"
  BY DEF Iterator, Enter
<1>2. CASE \E kind \in {"TypeError", "raised"} : Fail(kind) /\ calm' = FALSE
  BY <1>1, <1>2, NoRule
<1>3. CASE /\ Loop(Append(frames, f), "names")
           /\ calm' = (calm /\ heap' = heap /\ heap[value] = written[value])
  <2>1. ASSUME calm'
        PROVE  AsPassed' /\ \E c : Chain(written', excluding', frames', Current', c) /\ Here(c)'
    <3>1. calm /\ heap' = heap /\ heap[value] = written[value]
      BY <1>3, <2>1
    <3>2. AsPassed /\ k \in Nat /\ value \in DOMAIN written
      BY <1>1, <3>1, AtEnter
    <3>3. AsPassed'
      BY <1>1, <3>1, <3>2 DEF AsPassed, input
    <3>4. PICK c : Chain(written, excluding, frames, k + 1, c) /\ value = c[k + 1]
      BY <1>1, <3>1, AtEnter
    <3>5. CallFits(written, excluding, f, k + 1, c[k + 1], Pending(c, k + 1, k + 1))
      BY <1>1, <3>1, <3>4 DEF CallFits, Naming
    <3>6. f.wait = "name" /\ f.it = value /\ DOMAIN f.rules = {}
      BY NothingLeft DEF Naming
    <3> HIDE DEF f
    <3>7. /\ Len(frames') = k + 1 /\ \A i \in 1 .. k : frames'[i] = frames[i]
          /\ frames'[k + 1] = f
      BY <1>3, PushedFrames DEF Loop, CompileInv
    <3>8. Current' = k + 1 /\ Top' = f
      BY <1>3, <3>7 DEF Current, Loop, Top
    <3>9. Here(c)'
      <4>1. ~IsMapping(written[value])
        BY <1>1, <3>1 DEF IsMapping
      <4>2. Mentioned(written[value])
              = { written[value].items[i] : i \in DOMAIN written[value].items }
        BY <4>1 DEF Mentioned
      <4>3. pc' = "names" /\ heap'[Top'.it] = written[value] /\ written'[Top'.it] = written[value]
        BY <1>1, <1>3, <3>1, <3>6, <3>8 DEF Loop, input
      <4>4. NamesLeft(written[value], written[value].items, {})
        BY <4>2 DEF NamesLeft
      <4>5. NamesLeft(written'[Top'.it], heap'[Top'.it].items, DOMAIN Top'.rules)
        BY <3>6, <3>8, <4>3, <4>4
      <4> QED BY <4>3, <4>5 DEF Here
    <3> HIDE DEF k
    <3>10. Chain(written, excluding, frames', k + 1, c)
      BY <1>1, <3>2, <3>4, <3>5, <3>7, ChainMoves DEF k
    <3> QED BY <1>1, <3>3, <3>8, <3>9, <3>10 DEF input
  <2> QED BY <1>1, <1>3, <2>1, GoesOn DEF Loop, input
<1> QED BY <1>2, <1>3 DEF Iterator

(* The innermost call goes on with the entries it has left.                *)
LEMMA ChainStays ==
  ASSUME CompileInv, frames # <<>>, NEW n \in Nat, Len(frames) <= n,
         NEW c, Chain(written, excluding, frames, n, c),
         NEW f, frames' = OnTop(f),
         CallFits(written, excluding, f, Len(frames), c[Len(frames)], {})
  PROVE  Chain(written, excluding, frames', Len(frames), c)
<1> DEFINE k == Len(frames) - 1
<1>1. /\ Len(frames') = Len(frames) /\ Len(frames) \in 1 .. Len(frames)
      /\ \A i \in 1 .. Len(frames) : frames'[i] = IF i = Len(frames) THEN f ELSE frames[i]
  BY ReplacedFrames DEF CompileInv
<1>2. k \in Nat /\ k + 1 = Len(frames) /\ Len(frames) \in Nat
  BY <1>1
<1>3. frames'[k + 1] = f /\ \A i \in 1 .. k : frames'[i] = frames[i]
  BY <1>1
<1>4. Pending(c, k + 1, k + 1) = {}
  BY <1>2 DEF Pending
<1>5. CallFits(written, excluding, frames'[k + 1], k + 1, c[k + 1], Pending(c, k + 1, k + 1))
  BY <1>2, <1>3, <1>4
<1>6. k <= Len(frames) /\ k + 1 <= n /\ k + 1 \in Nat /\ k + 1 # k + 2 /\ Len(frames') = k + 1
  BY <1>1
<1> HIDE DEF k
<1>7. Chain(written, excluding, frames', k + 1, c)
  BY <1>2, <1>3, <1>5, <1>6, ChainMoves
<1> QED BY <1>2, <1>7

(* It calls from_py with another object.                                   *)
LEMMA ChainGrows ==
  ASSUME CompileInv, frames # <<>>,
         NEW c, Chain(written, excluding, frames, Len(frames), c),
         NEW f, frames' = OnTop(f), NEW o \in DOMAIN written,
         CallFits(written, excluding, f, Len(frames), c[Len(frames)], {o}),
         Grammatical(written, c[Len(frames)], Len(frames) - 1, excluding)
           => Grammatical(written, o, Len(frames), excluding)
  PROVE  \E e : e[Len(frames) + 1] = o
                /\ Chain(written, excluding, frames', Len(frames) + 1, e)
<1> DEFINE k == Len(frames) - 1
<1>1. /\ Len(frames') = Len(frames) /\ Len(frames) \in 1 .. Len(frames)
      /\ \A i \in 1 .. Len(frames) : frames'[i] = IF i = Len(frames) THEN f ELSE frames[i]
  BY ReplacedFrames DEF CompileInv
<1>2. k \in Nat /\ k + 1 = Len(frames) /\ k + 2 = Len(frames) + 1 /\ Len(frames) \in Nat
  BY <1>1
<1>3. frames'[k + 1] = f /\ \A i \in 1 .. k : frames'[i] = frames[i]
  BY <1>1
<1>4. PICK e : e[k + 2] = o /\ \A i \in 1 .. k + 1 : e[i] = c[i]
  <2> DEFINE d == [i \in 1 .. k + 2 |-> IF i = k + 2 THEN o ELSE c[i]]
  <2>1. d[k + 2] = o /\ \A i \in 1 .. k + 1 : d[i] = c[i]
    BY <1>2
  <2> QED BY <2>1
<1>5. Pending(e, k + 2, k + 1) = {o}
  <2>1. k + 1 < k + 2 /\ k + 1 + 1 = k + 2
    BY <1>2
  <2> QED BY <1>4, <2>1 DEF Pending
<1>6. CallFits(written, excluding, frames'[k + 1], k + 1, c[k + 1], Pending(e, k + 2, k + 1))
  BY <1>2, <1>3, <1>5
<1>7. Grammatical(written, c[k + 1], k, excluding) => Grammatical(written, e[k + 2], k + 1, excluding)
  BY <1>2, <1>4
<1>8. k <= Len(frames) /\ k + 1 <= Len(frames) /\ k + 2 \in Nat /\ Len(frames') = k + 1
  BY <1>1
<1> HIDE DEF k
<1>9. Chain(written, excluding, frames, Len(frames), c)
  OBVIOUS
<1>10. Chain(written, excluding, frames', k + 2, e)
  BY <1>2, <1>3, <1>4, <1>6, <1>7, <1>8, <1>9, ChainMoves
<1> QED BY <1>2, <1>4, <1>10

(* It is over.                                                             *)
LEMMA ChainShrinks ==
  ASSUME CompileInv, frames # <<>>, NEW n \in Nat, Len(frames) <= n,
         NEW c, Chain(written, excluding, frames, n, c), frames' = Below
  PROVE  Chain(written, excluding, frames', Len(frames), c)
<1> DEFINE k == Len(frames) - 1
<1>1. /\ Len(frames') = Len(frames) - 1 /\ Len(frames) \in 1 .. Len(frames)
      /\ \A i \in 1 .. Len(frames) - 1 : frames'[i] = frames[i]
  BY PoppedFrames DEF CompileInv
<1>2. k \in Nat /\ k + 1 = Len(frames) /\ Len(frames') = k /\ Len(frames) \in Nat
  BY <1>1
<1>3. \A i \in 1 .. k : frames'[i] = frames[i]
  BY <1>1
<1>4. /\ k <= Len(frames) /\ k + 1 <= n /\ k + 1 \in Nat /\ k # k + 1 /\ k + 1 # k + 2
      /\ Len(frames') = k
  BY <1>1
<1> HIDE DEF k
<1>5. Chain(written, excluding, frames', k + 1, c)
  BY <1>2, <1>3, <1>4, ChainMoves
<1> QED BY <1>2, <1>5

(* What the innermost call is about.                                       *)
LEMMA AtTop ==
  ASSUME CompileInv, GrammarInv, calm, pc \in {"names", "next", "return"}, frames # <<>>
  PROVE  /\ AsPassed /\ Len(frames) \in 1 .. MaxSpecDepth + 1
         /\ \E c : /\ Chain(written, excluding, frames, Current, c) /\ Here(c)
                   /\ CallFits(written, excluding, Top, Len(frames), c[Len(frames)],
                               Pending(c, Current, Len(frames)))
                   /\ c[Len(frames)] \in DOMAIN written
                   /\ Grammatical(written, Root, 0, excluding)
                        => Grammatical(written, c[Len(frames)], Len(frames) - 1, excluding)
<1>1. Len(frames) \in 1 .. Len(frames) /\ Len(frames) \in 1 .. MaxSpecDepth + 1
  BY Emptiness, DepthAssumption DEF CompileInv, Calls
<1>2. AsPassed /\ \E c : Chain(written, excluding, frames, Current, c) /\ Here(c)
  BY DEF GrammarInv
<1>3. PICK c : Chain(written, excluding, frames, Current, c) /\ Here(c)
  BY <1>2
<1>4. Len(frames) \in 1 .. Current
  BY <1>1 DEF Current
<1>5. /\ CallFits(written, excluding, Top, Len(frames), c[Len(frames)],
                  Pending(c, Current, Len(frames)))
      /\ c[Len(frames)] \in DOMAIN written
      /\ Grammatical(written, Root, 0, excluding)
           => Grammatical(written, c[Len(frames)], Len(frames) - 1, excluding)
  BY <1>1, <1>3, <1>4 DEF Chain, Top
<1> QED BY <1>1, <1>2, <1>3, <1>5

(* The object of the innermost call is no rule.                            *)
LEMMA TopNoRule ==
  ASSUME CompileInv, GrammarInv, pc \in {"names", "next", "return"}, frames # <<>>,
         UNCHANGED input, NEW kind \in {"TypeError", "raised"}, Fail(kind),
         calm' => calm
                  /\ \/ kind = "raised"
                     \/ \A c : /\ Chain(written, excluding, frames, Current, c) /\ Here(c)
                               /\ CallFits(written, excluding, Top, Len(frames), c[Len(frames)],
                                           Pending(c, Current, Len(frames)))
                               => ~Grammatical(written, c[Len(frames)], Len(frames) - 1, excluding)
  PROVE  GrammarInv'
<1>1. ASSUME calm', kind # "raised" PROVE ~Grammatical(written, Root, 0, excluding)
  BY <1>1, AtTop
<1> QED BY <1>1, Refuses DEF input

(* The innermost call returns.                                             *)
LEMMA TopAnswers ==
  ASSUME CompileInv, GrammarInv, pc \in {"names", "next", "return"}, frames # <<>>,
         UNCHANGED input, NEW rule, Return(rule, Below),
         calm' => /\ calm /\ heap' = heap
                  /\ \A c : /\ Chain(written, excluding, frames, Current, c) /\ Here(c)
                            /\ c[Len(frames)] \in DOMAIN written
                            /\ CallFits(written, excluding, Top, Len(frames), c[Len(frames)],
                                        Pending(c, Current, Len(frames)))
                            => /\ Grammatical(written, c[Len(frames)], Len(frames) - 1, excluding)
                               /\ ResultFits(excluding, written[c[Len(frames)]], rule)
                               /\ rule = Spelt(written, c[Len(frames)], Len(frames) - 1, excluding)
  PROVE  GrammarInv'
<1>1. ASSUME calm'
      PROVE  AsPassed' /\ \E c : Chain(written', excluding', frames', Current', c) /\ Here(c)'
  <2>1. AsPassed' /\ Len(frames) \in Nat
    BY <1>1, AtTop DEF AsPassed, input
  <2>2. PICK c : /\ Chain(written, excluding, frames, Current, c)
                 /\ Grammatical(written, c[Len(frames)], Len(frames) - 1, excluding)
                 /\ ResultFits(excluding, written[c[Len(frames)]], rule)
                 /\ rule = Spelt(written, c[Len(frames)], Len(frames) - 1, excluding)
    BY <1>1, AtTop
  <2>3. Len(frames) <= Current /\ Current \in Nat
    BY <2>1 DEF Current
  <2>4. Chain(written, excluding, frames', Len(frames), c)
    BY <2>1, <2>2, <2>3, ChainShrinks DEF Return
  <2>5. Len(frames') = Len(frames) - 1
    BY PoppedFrames DEF Return, CompileInv
  <2>6. Current' = Len(frames)
    BY <2>1, <2>5 DEF Current, Return
  <2>7. Here(c)'
    BY <2>2, <2>6 DEF Here, Return, input
  <2> QED BY <2>1, <2>4, <2>6, <2>7 DEF input
<1> QED BY <1>1, GoesOn DEF Return, input

LEMMA NameSeen ==
  ASSUME NEW rule, NEW names, IsSeq(names), names # <<>>, Head(names) # NotStr,
         NEW seen, NamesLeft(rule, names, seen)
  PROVE  NamesLeft(rule, Tail(names), seen \cup {Head(names)})
<1>1. { names[i] : i \in DOMAIN names }
        = {Head(names)} \cup { Tail(names)[j] : j \in DOMAIN Tail(names) }
  BY FirstAndRest
<1> QED BY <1>1 DEF NamesLeft

(* The names of an iterator, one by one.                                   *)
LEMMA GrammarName ==
  ASSUME CompileInv, GrammarInv, NextName
  PROVE  GrammarInv'
<1> DEFINE it   == Top.it
           name == Head(heap[it].items)
           f    == [Top EXCEPT !.rules = WithRule(@, name, Leaf)]
<1>1. /\ pc = "names" /\ frames # <<>> /\ Top.wait = "name" /\ UNCHANGED input
      /\ heap[it].items # <<>> /\ Current = Len(frames)
      /\ calm' => calm /\ heap' = [heap EXCEPT ![it].items = Tail(@)]
  BY DEF NextName, Python, CompileInv, Place, Current
<1>2. ASSUME calm'
      PROVE  /\ AsPassed /\ AsPassed' /\ it \in DOMAIN written
             /\ written[it].py = "iterator" /\ IsSeq(heap[it].items)
             /\ heap'[it].items = Tail(heap[it].items)
  <2>1. AsPassed
    BY <1>1, <1>2, AtTop
  <2>2. it \in DOMAIN written /\ written[it].py = "iterator"
    BY <1>1, <1>2, AtTop DEF CallFits
  <2>3. {"py", "items"} \subseteq DOMAIN heap[it] /\ heap[it].py = "iterator" /\ IsSeq(heap[it].items)
        /\ it \in DOMAIN heap
    BY <2>1, <2>2 DEF AsPassed
  <2> DEFINE rest == Tail(heap[it].items)
  <2>4. IsSeq(rest)
    BY <1>1, <2>3, FirstAndRest
  <2>5. heap' = [heap EXCEPT ![it].items = rest]
    BY <1>1, <1>2
  <2> HIDE DEF it, rest
  <2>6. /\ DOMAIN heap' = DOMAIN heap
        /\ heap'[it] = [heap[it] EXCEPT !.items = rest]
        /\ \A o \in DOMAIN heap : o # it => heap'[o] = heap[o]
    BY <2>3, <2>5
  <2>7. heap'[it].items = rest /\ heap'[it].py = "iterator" /\ {"py", "items"} \subseteq DOMAIN heap'[it]
    BY <2>3, <2>6
  <2>8. AsPassed'
    BY <1>1, <2>1, <2>2, <2>4, <2>6, <2>7 DEF AsPassed, input
  <2> QED BY <2>1, <2>2, <2>3, <2>7, <2>8 DEF rest
<1>3. CASE Loop(OnTop(f), "names") /\ name # NotStr
  <2>1. ASSUME calm' PROVE \E c : Chain(written', excluding', frames', Current', c) /\ Here(c)'
    <3>1. PICK c : /\ Chain(written, excluding, frames, Len(frames), c) /\ Here(c)
                   /\ CallFits(written, excluding, Top, Len(frames), c[Len(frames)],
                               Pending(c, Len(frames), Len(frames)))
      BY <1>1, <2>1, AtTop
    <3>2. Len(frames) \in Nat
      BY <1>1, <2>1, AtTop
    <3>3. f.wait = "name" /\ {"it", "rules"} \subseteq DOMAIN f /\ f.it = it
      BY <1>1, <3>1, TopIsCall DEF CallFits, IsCall, CompileInv
    <3>4. /\ CallFits(written, excluding, f, Len(frames), c[Len(frames)], {})
          /\ DOMAIN f.rules = DOMAIN Top.rules \cup {name}
      <4>1. f.rules = WithRule(Top.rules, name, Leaf)
        BY <1>1, <3>1, TopIsCall DEF CallFits, IsCall, CompileInv
      <4>2. Top.rules = [n \in DOMAIN Top.rules |-> Leaf]
        BY <1>1, <3>1 DEF CallFits, Leaf, LeafIn
      <4> HIDE DEF f, name
      <4>3. /\ DOMAIN f.rules = DOMAIN Top.rules \cup {name}
            /\ f.rules = [n \in DOMAIN f.rules |-> Leaf]
        <5>1. WithRule(Top.rules, name, Leaf) = [n \in DOMAIN Top.rules \cup {name} |-> Leaf]
          BY <4>2 DEF WithRule
        <5> QED BY <4>1, <5>1
      <4>4. f.rules = [n \in DOMAIN f.rules |-> LeafIn(excluding)]
        BY <4>3 DEF Leaf, LeafIn
      <4> QED BY <1>1, <3>1, <3>3, <4>3, <4>4 DEF CallFits
    <3>5. IsCall(f)
      BY <1>1, TopIsCall, SameCall DEF CompileInv
    <3> HIDE DEF f
    <3>6. Chain(written, excluding, frames', Len(frames), c)
      BY <1>1, <1>3, <3>1, <3>2, <3>4, ChainStays DEF Loop
    <3>7. Top' = f /\ Current' = Len(frames) /\ pc' = "names"
      BY <1>1, <1>3, <3>3, <3>5, Replaced, ReplacedFrames DEF Loop, Current, CompileInv
    <3>8. NamesLeft(written[it], Tail(heap[it].items), DOMAIN Top.rules \cup {name})
      <4>1. NamesLeft(written[it], heap[it].items, DOMAIN Top.rules)
        BY <1>1, <3>1 DEF Here
      <4> QED BY <1>1, <1>2, <1>3, <2>1, <4>1, NameSeen
    <3>9. Here(c)'
      <4>1. /\ Top'.it = it /\ written'[Top'.it] = written[it]
            /\ heap'[Top'.it].items = Tail(heap[it].items)
            /\ DOMAIN Top'.rules = DOMAIN Top.rules \cup {name}
        BY <1>1, <1>2, <2>1, <3>3, <3>4, <3>7 DEF input
      <4> HIDE DEF it, name
      <4>2. NamesLeft(written'[Top'.it], heap'[Top'.it].items, DOMAIN Top'.rules)
        BY <3>8, <4>1
      <4> QED BY <3>7, <4>2 DEF Here
    <3> QED BY <1>1, <3>6, <3>7, <3>9 DEF input
  <2> QED BY <1>1, <1>2, <1>3, <2>1, GoesOn DEF Loop, input
<1>4. CASE Fail("TypeError") /\ name = NotStr
  <2>1. ASSUME calm', NEW c, Here(c),
               Chain(written, excluding, frames, Current, c),
               CallFits(written, excluding, Top, Len(frames), c[Len(frames)],
                        Pending(c, Current, Len(frames)))
        PROVE  ~Grammatical(written, c[Len(frames)], Len(frames) - 1, excluding)
    <3>1. written[c[Len(frames)]].py = "iterator" /\ c[Len(frames)] = it
      BY <1>1, <2>1 DEF CallFits
    <3>2. 1 \in DOMAIN heap[it].items /\ heap[it].items[1] = NotStr
      BY <1>1, <1>2, <1>4, <2>1, FirstAndRest
    <3>3. NotStr \in Mentioned(written[it])
      BY <1>1, <2>1, <3>2 DEF Here, NamesLeft
    <3>4. /\ ~IsMapping(written[it]) /\ ~OfElements(written[it]) /\ written[it].py # "bool"
      BY <3>1 DEF IsMapping, OfElements
    <3>5. Len(frames) - 1 \in 0 .. MaxSpecDepth
      BY <1>1, <2>1, AtTop, DepthAssumption
    <3> QED BY <3>1, <3>3, <3>4, <3>5, GrammarUnfolds
  <2> QED BY <1>1, <1>4, <2>1, TopNoRule
<1>5. CASE Fail("raised")
  BY <1>1, <1>5, TopNoRule
<1> QED BY <1>3, <1>4, <1>5 DEF NextName

LEMMA GrammarNames ==
  ASSUME CompileInv, GrammarInv, NamesEnd
  PROVE  GrammarInv'
<1>1. /\ pc = "names" /\ frames # <<>> /\ Top.wait = "name" /\ UNCHANGED input
      /\ heap[Top.it].items = <<>> /\ Return(Selecting(Top.rules), Below)
      /\ calm' => calm /\ heap' = heap
  BY DEF NamesEnd, Python, CompileInv, Place
<1>2. ASSUME calm', NEW c, Here(c), Chain(written, excluding, frames, Current, c),
             c[Len(frames)] \in DOMAIN written,
             CallFits(written, excluding, Top, Len(frames), c[Len(frames)],
                      Pending(c, Current, Len(frames)))
      PROVE  /\ Grammatical(written, c[Len(frames)], Len(frames) - 1, excluding)
             /\ ResultFits(excluding, written[c[Len(frames)]], Selecting(Top.rules))
             /\ Selecting(Top.rules)
                  = Spelt(written, c[Len(frames)], Len(frames) - 1, excluding)
  <2>1. written[c[Len(frames)]].py = "iterator" /\ c[Len(frames)] = Top.it
    BY <1>1, <1>2 DEF CallFits
  <2>2. AsPassed
    BY <1>1, <1>2, AtTop
  <2>3. IsSeq(heap[Top.it].items)
    BY <1>2, <2>1, <2>2 DEF AsPassed
  <2>4. NotStr \notin Mentioned(written[Top.it]) /\ Mentioned(written[Top.it]) = DOMAIN Top.rules
    BY <1>1, <1>2, <2>3, NothingLeft DEF Here, NamesLeft
  <2>5. /\ IsNames(written[Top.it]) /\ ~OfElements(written[Top.it]) /\ written[Top.it].py # "bool"
    BY <2>1 DEF IsNames, IsMapping, OfElements
  <2>6. Len(frames) - 1 \in 0 .. MaxSpecDepth
    BY <1>1, <1>2, AtTop, DepthAssumption
  <2>7. Grammatical(written, c[Len(frames)], Len(frames) - 1, excluding)
    BY <1>2, <2>1, <2>4, <2>5, <2>6, GrammarUnfolds
  <2>8. Top.rules = [n \in Mentioned(written[Top.it]) |-> LeafIn(excluding)]
    BY <1>1, <1>2, <2>4 DEF CallFits
  <2>9. Selecting(Top.rules) = SelectingIn(excluding, Top.rules)
    BY DEF Selecting, SelectingIn
  <2>10. Selecting(Top.rules) = Spelt(written, c[Len(frames)], Len(frames) - 1, excluding)
    BY <1>2, <2>1, <2>5, <2>6, <2>8, <2>9, NamesSpell
  <2> QED BY <2>1, <2>5, <2>7, <2>10 DEF ResultFits, Selecting, SObject, SExclude
<1> QED BY <1>1, <1>2, TopAnswers

(* The entries of a mapping, one by one.                                   *)
LEMMA GrammarEntry ==
  ASSUME CompileInv, GrammarInv, NextEntry
  PROVE  GrammarInv'
<1> DEFINE entry == Head(Top.rest)
           f     == [Top EXCEPT !.key = entry.key, !.rest = Tail(@)]
<1>1. /\ pc = "next" /\ frames # <<>> /\ Top.wait = "member" /\ UNCHANGED input
      /\ Top.rest # <<>> /\ Current = Len(frames) /\ calm' = calm /\ heap' = heap
  BY DEF NextEntry, NoPython, CompileInv, Place, Current
<1>2. ASSUME calm
      PROVE  AsPassed /\ AsPassed' /\ Len(frames) - 1 \in 0 .. MaxSpecDepth
  <2>1. AsPassed /\ Len(frames) - 1 \in 0 .. MaxSpecDepth
    BY <1>1, <1>2, AtTop, DepthAssumption
  <2> QED BY <1>1, <2>1 DEF AsPassed, input
<1>3. ASSUME calm, NEW c,
             CallFits(written, excluding, Top, Len(frames), c[Len(frames)],
                      Pending(c, Current, Len(frames)))
      PROVE  /\ IsMapping(written[c[Len(frames)]]) /\ ~OfElements(written[c[Len(frames)]])
             /\ IsSeq(Top.rest)
             /\ \E j \in DOMAIN written[c[Len(frames)]].items :
                  entry = written[c[Len(frames)]].items[j]
  <2>1. /\ IsMapping(written[c[Len(frames)]]) /\ ~OfElements(written[c[Len(frames)]])
        /\ IsSeq(Top.rest)
        /\ \A m \in DOMAIN Top.rest : \E j \in DOMAIN written[c[Len(frames)]].items :
             Top.rest[m] = written[c[Len(frames)]].items[j]
    BY <1>1, <1>3 DEF CallFits, MemberFits
  <2>2. 1 \in DOMAIN Top.rest /\ entry = Top.rest[1]
    BY <1>1, <2>1, FirstAndRest
  <2> QED BY <2>1, <2>2
<1>4. CASE entry.key \in {NotStr, Everything} /\ Fail("TypeError")
  <2>1. ASSUME calm', NEW c, Here(c),
               Chain(written, excluding, frames, Current, c),
               CallFits(written, excluding, Top, Len(frames), c[Len(frames)],
                        Pending(c, Current, Len(frames)))
        PROVE  ~Grammatical(written, c[Len(frames)], Len(frames) - 1, excluding)
    <3> DEFINE rule == written[c[Len(frames)]]
    <3>1. /\ IsMapping(rule) /\ ~OfElements(rule)
          /\ \E j \in DOMAIN rule.items : rule.items[j].key \in {NotStr, Everything}
      BY <1>1, <1>3, <1>4, <2>1
    <3>2. ~IsNames(rule) /\ rule.py # "bool"
      BY <3>1 DEF IsMapping, IsNames
    <3> QED BY <1>1, <1>2, <2>1, <3>1, <3>2, GrammarUnfolds
  <2> QED BY <1>1, <1>4, <2>1, TopNoRule
<1>5. CASE entry.key \notin {NotStr, Everything} /\ Call(entry.value, OnTop(f))
  <2>1. ASSUME calm' PROVE \E c : Chain(written', excluding', frames', Current', c) /\ Here(c)'
    <3>1. PICK c : /\ Chain(written, excluding, frames, Len(frames), c)
                   /\ CallFits(written, excluding, Top, Len(frames), c[Len(frames)],
                               Pending(c, Len(frames), Len(frames)))
                   /\ c[Len(frames)] \in DOMAIN written
      BY <1>1, <2>1, AtTop
    <3> DEFINE L    == Len(frames)
               rule == written[c[L]]
               o    == entry.value
    <3>2. L \in Nat /\ L - 1 \in 0 .. MaxSpecDepth /\ L - 1 + 1 = L
      BY <1>1, <1>2, <2>1
    <3>3. Pending(c, L, L) = {}
      BY <3>2 DEF Pending
    <3>4. MemberFits(written, excluding, Top, L, c[L], {})
      BY <1>1, <3>1, <3>3 DEF CallFits
    <3>5. /\ IsMapping(rule) /\ ~OfElements(rule)
          /\ \E j \in DOMAIN rule.items : entry = rule.items[j]
      BY <1>1, <1>3, <2>1, <3>1
    <3>6. o \in DOMAIN written
      BY <1>1, <1>2, <2>1, <3>1, <3>5, Passed
    <3>7. Grammatical(written, c[L], L - 1, excluding) => Grammatical(written, o, L, excluding)
      <4>1. ~IsNames(rule) /\ rule.py # "bool"
        BY <3>5 DEF IsMapping, IsNames
      <4> HIDE DEF L
      <4>2. Grammatical(written, c[L], L - 1, excluding) =>
              \A j \in DOMAIN rule.items :
                Grammatical(written, rule.items[j].value, L - 1 + 1, excluding)
        BY <3>2, <3>5, <4>1, GrammarUnfolds
      <4> HIDE DEF rule
      <4> QED BY <3>2, <3>5, <4>2
    <3>8. /\ f.wait = "member" /\ {"key", "rest", "rules"} \subseteq DOMAIN f
          /\ f.rest = Tail(Top.rest) /\ f.rules = Top.rules /\ f.key = entry.key
      <4>1. {"key", "rest", "rules"} \subseteq DOMAIN Top
        BY <3>4 DEF MemberFits
      <4> QED BY <1>1, <4>1
    <3>9. /\ IsSeq(Tail(Top.rest))
          /\ \A i \in DOMAIN Top.rest : Top.rest[i] = entry
                \/ \E j \in DOMAIN Tail(Top.rest) : Tail(Top.rest)[j] = Top.rest[i]
          /\ \A j \in DOMAIN Tail(Top.rest) : \E i \in DOMAIN Top.rest : Top.rest[i] = Tail(Top.rest)[j]
      BY <1>1, <3>4, FirstAndRest DEF MemberFits
    <3> HIDE DEF f, entry
    <3>10. MemberFits(written, excluding, f, L, c[L], {o})
      <4> HIDE DEF L
      <4>1. \A m \in DOMAIN f.rest : \E j \in DOMAIN rule.items : f.rest[m] = rule.items[j]
        BY <3>4, <3>8, <3>9 DEF MemberFits
      <4>2. ASSUME NEW j \in DOMAIN rule.items
            PROVE  \/ \E m \in DOMAIN f.rest : f.rest[m] = rule.items[j]
                   \/ /\ rule.items[j].key \notin {NotStr, Everything}
                      /\ \/ Found(written, excluding, f, L, rule.items[j])
                         \/ rule.items[j].value \in {o} /\ rule.items[j].key = f.key
        <5>1. CASE \E m \in DOMAIN Top.rest : Top.rest[m] = rule.items[j]
          BY <1>5, <3>8, <3>9, <5>1
        <5>2. CASE ~ \E m \in DOMAIN Top.rest : Top.rest[m] = rule.items[j]
          <6>1. /\ rule.items[j].key \notin {NotStr, Everything}
                /\ Found(written, excluding, Top, L, rule.items[j])
            BY <3>4, <4>2, <5>2 DEF MemberFits
          <6> QED BY <3>8, <6>1 DEF Found
        <5> QED BY <5>1, <5>2
      <4>3. \E j \in DOMAIN rule.items : rule.items[j].key = f.key /\ rule.items[j].value = o
        BY <3>5, <3>8
      <4>4. /\ f.rules = [n \in DOMAIN f.rules |-> f.rules[n]]
            /\ \A n \in DOMAIN f.rules : \E j \in DOMAIN rule.items : rule.items[j].key = n
        BY <3>4, <3>8 DEF MemberFits
      <4> QED BY <3>5, <3>8, <3>9, <4>1, <4>2, <4>3, <4>4 DEF MemberFits
    <3>11. CallFits(written, excluding, f, L, c[L], {o})
      BY <3>8, <3>10 DEF CallFits
    <3>12. PICK e : e[L + 1] = o /\ Chain(written, excluding, frames', L + 1, e)
      <4> HIDE DEF o
      <4> QED BY <1>1, <1>5, <3>1, <3>6, <3>7, <3>11, ChainGrows DEF Call
    <3>13. Current' = L + 1
      BY <1>1, <1>5, ReplacedFrames DEF Call, Current, CompileInv
    <3>14. Here(e)'
      BY <1>5, <3>12, <3>13 DEF Here, Call
    <3> QED BY <1>1, <3>12, <3>13, <3>14 DEF input
  <2> QED BY <1>1, <1>2, <1>5, <2>1, GoesOn DEF Call, input
<1> QED BY <1>4, <1>5 DEF NextEntry

LEMMA GrammarEntries ==
  ASSUME CompileInv, GrammarInv, EntriesEnd
  PROVE  GrammarInv'
<1>1. /\ pc = "next" /\ frames # <<>> /\ Top.wait = "member" /\ UNCHANGED input
      /\ Top.rest = <<>> /\ Current = Len(frames) /\ calm' = calm /\ heap' = heap
      /\ Return(Selecting(Top.rules), Below)
  BY DEF EntriesEnd, NoPython, CompileInv, Place, Current
<1>2. ASSUME calm', NEW c, c[Len(frames)] \in DOMAIN written,
             CallFits(written, excluding, Top, Len(frames), c[Len(frames)],
                      Pending(c, Current, Len(frames)))
      PROVE  /\ Grammatical(written, c[Len(frames)], Len(frames) - 1, excluding)
             /\ ResultFits(excluding, written[c[Len(frames)]], Selecting(Top.rules))
             /\ Selecting(Top.rules)
                  = Spelt(written, c[Len(frames)], Len(frames) - 1, excluding)
  <2> DEFINE L    == Len(frames)
             rule == written[c[L]]
  <2>1. L \in Nat /\ L - 1 \in 0 .. MaxSpecDepth /\ L - 1 + 1 = L
    BY <1>1, <1>2, AtTop, DepthAssumption
  <2>2. Pending(c, L, L) = {}
    BY <2>1 DEF Pending
  <2>3. MemberFits(written, excluding, Top, L, c[L], {})
    BY <1>1, <1>2, <2>2 DEF CallFits
  <2>4. DOMAIN Top.rest = {}
    BY <1>1, <2>3, NothingLeft DEF MemberFits
  <2> HIDE DEF L
  <2>5. /\ IsMapping(rule) /\ ~OfElements(rule)
        /\ \A j \in DOMAIN rule.items :
             /\ rule.items[j].key \notin {NotStr, Everything}
             /\ Found(written, excluding, Top, L, rule.items[j])
    BY <2>3, <2>4 DEF MemberFits
  <2>6. rule.py # "bool"
    BY <2>5 DEF IsMapping
  <2>7. c[L] \in DOMAIN written
    BY <1>2 DEF L
  <2>8. Grammatical(written, c[L], L - 1, excluding)
    <3>1. \A j \in DOMAIN rule.items :
            /\ rule.items[j].key \notin {NotStr, Everything}
            /\ Grammatical(written, rule.items[j].value, L - 1 + 1, excluding)
      BY <2>1, <2>5 DEF Found
    <3> QED BY <2>1, <2>5, <2>7, <3>1, GrammarUnfolds
  <2>9. ResultFits(excluding, rule, Selecting(Top.rules))
    BY <2>5, <2>6 DEF ResultFits, Selecting, SObject, SExclude
  <2>10. Top.rules = [n \in Mentioned(rule) |-> Top.rules[n]]
    <3>1. Mentioned(rule) = { rule.items[j].key : j \in DOMAIN rule.items }
      BY <2>5 DEF Mentioned
    <3>2. \A n \in DOMAIN Top.rules : \E j \in DOMAIN rule.items : rule.items[j].key = n
      BY <2>3 DEF MemberFits
    <3>3. \A j \in DOMAIN rule.items : rule.items[j].key \in DOMAIN Top.rules
      BY <2>5 DEF Found
    <3>4. DOMAIN Top.rules = Mentioned(rule)
      <4> HIDE DEF rule
      <4> QED BY <3>1, <3>2, <3>3
    <3> QED BY <2>3, <3>4 DEF MemberFits
  <2>11. \A j \in DOMAIN rule.items :
           /\ rule.items[j].value \in DOMAIN written
           /\ Top.rules[rule.items[j].key] = Spelt(written, rule.items[j].value, L - 1 + 1, excluding)
    <3>1. AsPassed
      BY <1>1, <1>2, AtTop
    <3>2. \A j \in DOMAIN rule.items : rule.items[j].value \in DOMAIN written
      BY <2>5, <2>7, <3>1, Passed
    <3> QED BY <2>1, <2>5, <3>2 DEF Found
  <2>12. Spelt(written, c[L], L - 1, excluding) = SelectingIn(excluding, Top.rules)
    BY <2>1, <2>5, <2>7, <2>10, <2>11, MembersSpell
  <2>13. Selecting(Top.rules) = Spelt(written, c[L], L - 1, excluding)
    BY <2>12 DEF Selecting, SelectingIn
  <2> QED BY <2>8, <2>9, <2>13 DEF L
<1> QED BY <1>1, <1>2, TopAnswers

(* A member's rule has been found; no other member has its key.            *)
LEMMA RuleFound ==
  ASSUME NEW h, NEW mode, NEW f, NEW i, NEW object, NEW o,
         MemberFits(h, mode, f, i, object, {o}),
         \A j, k \in DOMAIN h[object].items :
           h[object].items[j].key = h[object].items[k].key => j = k,
         Grammatical(h, o, i, mode),
         NEW g, {"key", "rest", "rules"} \subseteq DOMAIN g, g.rest = f.rest,
         g.rules = WithRule(f.rules, f.key, Spelt(h, o, i, mode))
  PROVE  MemberFits(h, mode, g, i, object, {})
<1> DEFINE items == h[object].items
<1>1. PICK j0 \in DOMAIN items : items[j0].key = f.key /\ items[j0].value = o
  BY DEF MemberFits
<1>2. /\ DOMAIN g.rules = DOMAIN f.rules \cup {f.key}
      /\ g.rules = [n \in DOMAIN g.rules |-> g.rules[n]]
      /\ \A n \in DOMAIN g.rules :
           g.rules[n] = IF n = f.key THEN Spelt(h, o, i, mode) ELSE f.rules[n]
  BY DEF WithRule
<1>3. ASSUME NEW j \in DOMAIN items,
             \/ Found(h, mode, f, i, items[j])
             \/ items[j].value \in {o} /\ items[j].key = f.key
      PROVE  Found(h, mode, g, i, items[j])
  <2>1. CASE items[j].key = f.key
    <3>1. items[j].value = o
      BY <1>1, <2>1
    <3> QED BY <1>2, <2>1, <3>1 DEF Found
  <2>2. CASE items[j].key # f.key
    BY <1>2, <1>3, <2>2 DEF Found
  <2> QED BY <2>1, <2>2
<1>4. \A n \in DOMAIN g.rules : \E j \in DOMAIN items : items[j].key = n
  BY <1>1, <1>2 DEF MemberFits
<1>5. ASSUME NEW j \in DOMAIN items
      PROVE  \/ \E m \in DOMAIN g.rest : g.rest[m] = items[j]
             \/ items[j].key \notin {NotStr, Everything} /\ Found(h, mode, g, i, items[j])
  <2>1. \/ \E m \in DOMAIN f.rest : f.rest[m] = items[j]
        \/ /\ items[j].key \notin {NotStr, Everything}
           /\ \/ Found(h, mode, f, i, items[j])
              \/ items[j].value \in {o} /\ items[j].key = f.key
    BY DEF MemberFits
  <2> HIDE DEF items
  <2>2. CASE \E m \in DOMAIN f.rest : f.rest[m] = items[j]
    BY <2>2
  <2>3. CASE /\ items[j].key \notin {NotStr, Everything}
             /\ \/ Found(h, mode, f, i, items[j])
                \/ items[j].value \in {o} /\ items[j].key = f.key
    BY <1>3, <2>3
  <2> QED BY <2>1, <2>2, <2>3
<1>6. /\ IsMapping(h[object]) /\ ~OfElements(h[object]) /\ IsSeq(g.rest)
      /\ \A m \in DOMAIN g.rest : \E j \in DOMAIN items : g.rest[m] = items[j]
  BY DEF MemberFits
<1> QED BY <1>2, <1>4, <1>5, <1>6 DEF MemberFits

LEMMA GrammarInsert ==
  ASSUME CompileInv, GrammarInv, InsertMember
  PROVE  GrammarInv'
<1> DEFINE f == [Top EXCEPT !.rules = WithRule(@, Top.key, result)]
           L == Len(frames)
<1>1. /\ pc = "return" /\ frames # <<>> /\ Top.wait = "member" /\ UNCHANGED input
      /\ Current = L + 1 /\ calm' = calm /\ heap' = heap
      /\ Loop(OnTop(f), "next")
  BY DEF InsertMember, NoPython, Current
<1>2. ASSUME calm'
      PROVE  AsPassed' /\ \E c : Chain(written', excluding', frames', Current', c) /\ Here(c)'
  <2>1. AsPassed' /\ L \in Nat /\ L + 1 - 1 = L /\ L < L + 1 /\ L <= L + 1
    BY <1>1, <1>2, AtTop DEF AsPassed, input
  <2>2. PICK c : /\ Chain(written, excluding, frames, L + 1, c) /\ Here(c)
                 /\ CallFits(written, excluding, Top, L, c[L], Pending(c, L + 1, L))
                 /\ c[L] \in DOMAIN written
    BY <1>1, <1>2, AtTop
  <2>3. /\ Grammatical(written, c[L + 1], L, excluding) /\ Pending(c, L + 1, L) = {c[L + 1]}
        /\ result = Spelt(written, c[L + 1], L, excluding)
    BY <1>1, <2>1, <2>2 DEF Here, Pending
  <2>4. MemberFits(written, excluding, Top, L, c[L], {c[L + 1]})
    BY <1>1, <2>2, <2>3 DEF CallFits
  <2>5. /\ f.wait = "member" /\ {"key", "rest", "rules"} \subseteq DOMAIN f
        /\ f.rest = Top.rest /\ f.key = Top.key /\ f.rules = WithRule(Top.rules, Top.key, result)
    <3>1. {"key", "rest", "rules"} \subseteq DOMAIN Top
      BY <2>4 DEF MemberFits
    <3> QED BY <1>1, <3>1
  <2> HIDE DEF f
  <2>6. CallFits(written, excluding, f, L, c[L], {})
    <3> HIDE DEF L
    <3>1. MemberFits(written, excluding, f, L, c[L], {})
      <4>1. \A i, j \in DOMAIN written[c[L]].items :
              written[c[L]].items[i].key = written[c[L]].items[j].key => i = j
        <5>1. AsPassed /\ c[L] \in DOMAIN written
          BY <1>1, <1>2, <2>2, AtTop DEF L
        <5> QED BY <2>4, <5>1, Passed DEF MemberFits
      <4> QED BY <2>3, <2>4, <2>5, <4>1, RuleFound
    <3> QED BY <2>5, <3>1 DEF CallFits
  <2>7. Chain(written, excluding, frames', L, c)
    BY <1>1, <2>1, <2>2, <2>6, ChainStays DEF Loop
  <2>8. Current' = L
    BY <1>1, ReplacedFrames DEF Loop, Current, CompileInv
  <2>9. Here(c)'
    BY <1>1 DEF Here, Loop
  <2> QED BY <1>1, <2>1, <2>7, <2>8, <2>9 DEF input
<1> QED BY <1>1, <1>2, GoesOn DEF Loop, input

(* The rule of every element has been found.                               *)
LEMMA GrammarWrap ==
  ASSUME CompileInv, GrammarInv, WrapElement
  PROVE  GrammarInv'
<1> DEFINE L == Len(frames)
<1>1. /\ pc = "return" /\ frames # <<>> /\ Top.wait = "element" /\ UNCHANGED input
      /\ Current = L + 1 /\ calm' = calm /\ heap' = heap
      /\ IF result = SDiscard THEN Fail("TypeError") ELSE Return(SArray(result), Below)
  BY DEF WrapElement, NoPython, Current
<1>2. ASSUME calm, NEW c, Chain(written, excluding, frames, Current, c), Here(c),
             CallFits(written, excluding, Top, L, c[L], Pending(c, Current, L))
      PROVE  /\ L - 1 \in 0 .. MaxSpecDepth /\ L - 1 + 1 = L /\ L > 1
             /\ OfElements(written[c[L]]) /\ IsMapping(written[c[L]])
             /\ ~IsNames(written[c[L]]) /\ written[c[L]].py # "bool"
             /\ Grammatical(written, written[c[L]].items[1].value, L, excluding)
             /\ result = SDiscard
                  <=> excluding /\ written[written[c[L]].items[1].value].py = "bool"
             /\ written[c[L]].items[1].value \in DOMAIN written
             /\ result = Spelt(written, written[c[L]].items[1].value, L, excluding)
  <2>1. L \in 1 .. MaxSpecDepth + 1
    BY <1>1, <1>2, AtTop
  <2>2. L - 1 \in 0 .. MaxSpecDepth /\ L - 1 + 1 = L /\ L < L + 1 /\ L + 1 - 1 = L
    BY <2>1, DepthAssumption
  <2>3. L > 1 /\ OfElements(written[c[L]]) /\ c[L + 1] = written[c[L]].items[1].value
    BY <1>1, <1>2, <2>2 DEF CallFits, Pending
  <2>4. IsMapping(written[c[L]]) /\ ~IsNames(written[c[L]]) /\ written[c[L]].py # "bool"
    BY <2>3 DEF OfElements, IsMapping, IsNames
  <2>5. Grammatical(written, c[L + 1], L, excluding)
        /\ ResultFits(excluding, written[c[L + 1]], result)
        /\ result = Spelt(written, c[L + 1], L, excluding)
    BY <1>1, <1>2, <2>2 DEF Here
  <2>7. c[L + 1] \in DOMAIN written
    BY <1>1, <1>2, <2>1, <2>2 DEF Chain
  <2>6. result = SDiscard <=> excluding /\ written[c[L + 1]].py = "bool"
    <3>1. excluding \in BOOLEAN
      BY DEF CompileInv, Place
    <3>2. SDiscard.kind = "Discard" /\ SDiscard # SKeep
      BY DEF SDiscard, SKeep
    <3> HIDE DEF L
    <3> QED BY <2>5, <3>1, <3>2 DEF ResultFits
  <2> QED BY <2>2, <2>3, <2>4, <2>5, <2>6, <2>7
<1>3. CASE result = SDiscard /\ Fail("TypeError")
  <2>1. ASSUME calm', NEW c, Chain(written, excluding, frames, Current, c), Here(c),
               CallFits(written, excluding, Top, L, c[L], Pending(c, Current, L))
        PROVE  ~Grammatical(written, c[L], L - 1, excluding)
    <3>1. /\ L - 1 \in 0 .. MaxSpecDepth
          /\ OfElements(written[c[L]]) /\ IsMapping(written[c[L]])
          /\ ~IsNames(written[c[L]]) /\ written[c[L]].py # "bool"
          /\ excluding /\ written[written[c[L]].items[1].value].py = "bool"
      BY <1>1, <1>2, <1>3, <2>1
    <3> HIDE DEF L
    <3> QED BY <3>1, GrammarUnfolds
  <2> QED BY <1>1, <1>3, <2>1, TopNoRule
<1>4. CASE result # SDiscard /\ Return(SArray(result), Below)
  <2>1. ASSUME calm', NEW c, Chain(written, excluding, frames, Current, c), Here(c),
               c[L] \in DOMAIN written,
               CallFits(written, excluding, Top, L, c[L], Pending(c, Current, L))
        PROVE  /\ Grammatical(written, c[L], L - 1, excluding)
               /\ ResultFits(excluding, written[c[L]], SArray(result))
               /\ SArray(result) = Spelt(written, c[L], L - 1, excluding)
    <3>1. /\ L - 1 \in 0 .. MaxSpecDepth /\ L - 1 + 1 = L /\ L - 1 > 0
          /\ OfElements(written[c[L]]) /\ written[c[L]].py # "bool"
          /\ Grammatical(written, written[c[L]].items[1].value, L, excluding)
          /\ ~(excluding /\ written[written[c[L]].items[1].value].py = "bool")
          /\ written[c[L]].items[1].value \in DOMAIN written
          /\ result = Spelt(written, written[c[L]].items[1].value, L, excluding)
      BY <1>1, <1>2, <1>4, <2>1
    <3> HIDE DEF L
    <3>2. Grammatical(written, c[L], L - 1, excluding)
      BY <2>1, <3>1, GrammarUnfolds
    <3>3. ResultFits(excluding, written[c[L]], SArray(result))
      BY <3>1 DEF ResultFits, SArray
    <3>4. SArray(result) = Spelt(written, c[L], L - 1, excluding)
      <4>1. Spelt(written, c[L], L - 1, excluding)
              = SArray(Spelt(written, written[c[L]].items[1].value, L - 1 + 1, excluding))
        BY <2>1, <3>1, ElementsSpell DEF L
      <4> QED BY <3>1, <4>1
    <3> QED BY <3>2, <3>3, <3>4
  <2> QED BY <1>1, <1>4, <2>1, TopAnswers
<1> QED BY <1>1, <1>3, <1>4

LEMMA GrammarFinish ==
  ASSUME CompileInv, GrammarInv, Finish
  PROVE  GrammarInv'
<1>1. /\ pc = "return" /\ frames = <<>> /\ pc' = "done" /\ UNCHANGED input
      /\ calm' = calm /\ Current = 1
      /\ outcome' = IF result.kind \in {"Object", "ExcludeObject"}
                    THEN Compiled(result) ELSE Error("TypeError")
  BY EmptySeq DEF Finish, NoPython, Current
<1>2. ASSUME calm
      PROVE  /\ Grammatical(written, Root, 0, excluding)
             /\ result.kind \in {"Object", "ExcludeObject"}
             /\ result = Spelt(written, Root, 0, excluding)
  <2>1. PICK c : Chain(written, excluding, frames, 1, c) /\ Here(c)
    BY <1>1, <1>2 DEF GrammarInv
  <2>2. /\ c[1] = Root /\ Root \in DOMAIN written
        /\ Grammatical(written, Root, 0, excluding)
        /\ ResultFits(excluding, written[Root], result)
        /\ result = Spelt(written, Root, 0, excluding)
    BY <1>1, <2>1 DEF Chain, Here
  <2>3. 0 \in 0 .. MaxSpecDepth /\ ~(0 > 0)
    BY DepthAssumption
  <2>4. written[Root].py # "bool" /\ ~OfElements(written[Root])
    <3>1. IsNames(written[Root]) \/ (IsMapping(written[Root]) /\ ~OfElements(written[Root]))
      BY <2>2, <2>3, GrammarUnfolds
    <3> QED BY <3>1 DEF OfElements, IsMapping, IsNames
  <2> QED BY <2>2, <2>4 DEF ResultFits
<1> QED
  BY <1>1, <1>2 DEF GrammarInv, AcceptsTheGrammar, SpellsWhatIsWritten, Compiled, Error, input

LEMMA GrammarStep == CompileInv /\ GrammarInv /\ [Next]_vars => GrammarInv'
<1> SUFFICES ASSUME CompileInv, GrammarInv, [Next]_vars PROVE GrammarInv'
  OBVIOUS
<1>1. CASE Over \/ UNCHANGED vars
  <2>1. ASSUME calm', pc' # "done"
        PROVE  AsPassed' /\ \E c : Chain(written', excluding', frames', Current', c) /\ Here(c)'
    <3>1. PICK c : Chain(written, excluding, frames, Current, c) /\ Here(c)
      BY <1>1, <2>1 DEF Over, vars, GrammarInv
    <3>2. AsPassed'
      BY <1>1, <2>1 DEF Over, vars, input, GrammarInv, AsPassed
    <3>3. Chain(written', excluding', frames', Current', c)
      BY <1>1, <3>1 DEF Over, vars, input, Current
    <3>4. Here(c)'
      BY <1>1, <3>1 DEF Over, vars, input, Here, Current, Top
    <3> QED BY <3>2, <3>3, <3>4
  <2> QED BY <1>1, <2>1 DEF Over, vars, input, GrammarInv, AcceptsTheGrammar,
                          SpellsWhatIsWritten
<1>2. CASE ReprRaises
  BY <1>2, Refuses DEF ReprRaises, input
<1> QED
  BY <1>1, <1>2, GrammarDeep, GrammarEnter, GrammarIterator, GrammarName, GrammarNames, GrammarEntry,
     GrammarEntries, GrammarInsert, GrammarWrap, GrammarFinish DEF Next, Step

LEMMA GrammarInit == Init => GrammarInv
<1> SUFFICES ASSUME Init PROVE GrammarInv
  OBVIOUS
<1>1. /\ written \in Heaps /\ heap = written /\ Len(frames) = 0 /\ value = Root /\ Current = 1
      /\ pc = "enter"
  BY EmptySeq DEF Init, Current
<1>2. Root \in DOMAIN written
  BY <1>1, HeapAssumption
<1>3. AsPassed
  BY <1>1, HeapAssumption DEF AsPassed, IsNames, IsHeap
<1>4. Chain(written, excluding, frames, Current, [i \in {1} |-> Root]) /\ Here([i \in {1} |-> Root])
  BY <1>1, <1>2 DEF Chain, Here
<1> QED BY <1>1, <1>3, <1>4 DEF GrammarInv, AcceptsTheGrammar, SpellsWhatIsWritten

(* Whatever the objects, shared or inside themselves, and however deep: a  *)
(* constructor that meets no surprise accepts exactly the rules of the     *)
(* grammar (from_py_root_mode in src/spec.rs).                             *)
THEOREM CompilerAcceptsTheGrammar == Spec => []AcceptsTheGrammar
<1>1. GrammarInv => AcceptsTheGrammar
  BY DEF GrammarInv
<1> QED BY <1>1, GrammarInit, GrammarStep, CompileInit, CompileStep, PTL DEF Spec

(* And what it makes of them is what they spell: every member has the rule *)
(* written for it and no other, however the objects are shared (from_py in *)
(* src/spec.rs).                                                           *)
THEOREM CompilerSpellsTheRules == Spec => []SpellsWhatIsWritten
<1>1. GrammarInv => SpellsWhatIsWritten
  BY DEF GrammarInv
<1> QED BY <1>1, GrammarInit, GrammarStep, CompileInit, CompileStep, PTL DEF Spec

-----------------------------------------------------------------------------
(* The rules of an object are those of one moment, or of one iterator,     *)
(* among the heaps hs that there have been.                                *)
AtOnce(hs, mode, part) ==
  part.kind \in {"Object", "ExcludeObject"} =>
    \E h \in hs : \E o \in DOMAIN h :
      \/ /\ IsMapping(h[o]) \/ h[o].py = "names"
         /\ DOMAIN part.fields = Mentioned(h[o])
      \/ /\ h[o].py = "iterator"
         /\ DOMAIN part.fields \subseteq UNION { Mentioned(g[o]) : g \in hs }
         /\ \A name \in DOMAIN part.fields :
              part.fields[name] = IF mode THEN SDiscard ELSE SKeep

Timely(hs, mode, rule) ==
  \A n \in Nat : \A part \in PartsAt(rule)[n] : AtOnce(hs, mode, part)

LEMMA TimelyLater ==
  ASSUME NEW hs, NEW gs, hs \subseteq gs, NEW mode, NEW rule, Timely(hs, mode, rule)
  PROVE  Timely(gs, mode, rule)
<1> SUFFICES ASSUME NEW n \in Nat, NEW part \in PartsAt(rule)[n],
                    part.kind \in {"Object", "ExcludeObject"}
             PROVE  AtOnce(gs, mode, part)
  BY DEF Timely, AtOnce
<1>1. PICK h \in hs : \E o \in DOMAIN h :
         \/ /\ IsMapping(h[o]) \/ h[o].py = "names"
            /\ DOMAIN part.fields = Mentioned(h[o])
         \/ /\ h[o].py = "iterator"
            /\ DOMAIN part.fields \subseteq UNION { Mentioned(g[o]) : g \in hs }
            /\ \A name \in DOMAIN part.fields :
                 part.fields[name] = IF mode THEN SDiscard ELSE SKeep
  BY DEF Timely, AtOnce
<1>2. h \in gs
  OBVIOUS
<1>3. \A o : UNION { Mentioned(g[o]) : g \in hs } \subseteq UNION { Mentioned(g[o]) : g \in gs }
  OBVIOUS
<1> QED BY <1>1, <1>2, <1>3 DEF AtOnce

LEMMA TimelyHolder ==
  ASSUME NEW hs, NEW mode, NEW rule, AtOnce(hs, mode, rule),
         \A c \in Held(rule) : Timely(hs, mode, c)
  PROVE  Timely(hs, mode, rule)
<1> SUFFICES ASSUME NEW n \in Nat, NEW part \in PartsAt(rule)[n]
             PROVE  AtOnce(hs, mode, part)
  BY DEF Timely
<1>1. CASE n = 0
  <2>1. part = rule
    BY <1>1, PartsAtLevels
  <2> QED BY <2>1
<1>2. CASE n # 0
  <2>1. n - 1 \in Nat /\ (n - 1) + 1 = n
    BY <1>2
  <2>2. PartsAt(rule)[(n - 1) + 1] = UNION { PartsAt(c)[n - 1] : c \in Held(rule) }
    BY <2>1, PartsOfHeld
  <2>3. PICK c \in Held(rule) : part \in PartsAt(c)[n - 1]
    BY <2>1, <2>2
  <2> QED BY <2>1, <2>3 DEF Timely
<1> QED BY <1>1, <1>2

LEMMA TimelyLeaf ==
  ASSUME NEW hs, NEW mode
  PROVE  Timely(hs, mode, IF mode THEN SDiscard ELSE SKeep)
<1> DEFINE leaf == IF mode THEN SDiscard ELSE SKeep
<1>1. AtOnce(hs, mode, leaf) /\ Held(leaf) = {}
  BY DEF AtOnce, Held, SDiscard, SKeep
<1> HIDE DEF leaf
<1>2. Timely(hs, mode, leaf)
  BY <1>1, TimelyHolder
<1> QED BY <1>2 DEF leaf

(* Rules of the members n, if they are of one moment.                      *)
LEMMA TimelySelecting ==
  ASSUME NEW hs, excluding \in BOOLEAN, NEW rules,
         \A n \in DOMAIN rules : Timely(hs, excluding, rules[n]),
         NEW h \in hs, NEW o \in DOMAIN h,
         \/ /\ IsMapping(h[o]) \/ h[o].py = "names"
            /\ DOMAIN rules = Mentioned(h[o])
         \/ /\ h[o].py = "iterator"
            /\ DOMAIN rules \subseteq UNION { Mentioned(g[o]) : g \in hs }
            /\ \A n \in DOMAIN rules : rules[n] = Leaf
  PROVE  Timely(hs, excluding, Selecting(rules))
<1>1. Held(Selecting(rules)) = { rules[n] : n \in DOMAIN rules }
  BY DEF Held, Selecting, SObject, SExclude
<1>2. Selecting(rules).fields = rules
  BY DEF Selecting, SObject, SExclude
<1>3. AtOnce(hs, excluding, Selecting(rules))
  BY <1>2 DEF AtOnce, Leaf
<1> QED BY <1>1, <1>3, TimelyHolder

-----------------------------------------------------------------------------
(* What the calls have taken from the objects.                             *)

(* A mapping's call: the members done, the one being compiled and the ones *)
(* to come are those of the mapping at one moment.                         *)
OfMapping(hs, f, current) ==
  \E h \in hs : \E o \in DOMAIN h :
    /\ IsMapping(h[o]) /\ IsSeq(f.rest)
    /\ \A i \in DOMAIN f.rest : f.rest[i].value \in DOMAIN h
    /\ Mentioned(h[o])
         = DOMAIN f.rules \cup current \cup { f.rest[i].key : i \in DOMAIN f.rest }

OfIterator(hs, mode, f) ==
  \E h \in hs :
    /\ f.it \in DOMAIN h /\ h[f.it].py = "iterator"
    /\ DOMAIN f.rules \subseteq UNION { Mentioned(g[f.it]) : g \in hs }
    /\ \A n \in DOMAIN f.rules : f.rules[n] = IF mode THEN SDiscard ELSE SKeep

TimelyCall(hs, mode, f, current) ==
  /\ f.wait \in {"member", "name"} =>
       "rules" \in DOMAIN f /\ \A n \in DOMAIN f.rules : Timely(hs, mode, f.rules[n])
  /\ f.wait = "member" =>
       {"key", "rest"} \subseteq DOMAIN f /\ OfMapping(hs, f, current)
  /\ f.wait = "name" => "it" \in DOMAIN f /\ OfIterator(hs, mode, f)

HeapsInv ==
  /\ heap \in past
  /\ \A h \in past : IsHeap(h) /\ SameObjects(heap, h)

(* The member that call number i waits for.                                *)
Underway(i) == IF pc = "next" /\ i = Len(frames) THEN {} ELSE {frames[i].key}

(* Inductive, with CompileInv.                                             *)
MomentInv ==
  /\ HeapsInv
  /\ pc = "enter" => value \in DOMAIN heap
  /\ \A i \in 1 .. Len(frames) :
       TimelyCall(past, excluding, frames[i], Underway(i))
  /\ pc = "return" => Timely(past, excluding, result)
  /\ outcome.kind = "compiled" => Timely(past, excluding, outcome.spec)

LEMMA CallLater ==
  ASSUME NEW hs, NEW gs, hs \subseteq gs, NEW mode, NEW f, NEW current,
         TimelyCall(hs, mode, f, current)
  PROVE  TimelyCall(gs, mode, f, current)
<1>1. \A rule : Timely(hs, mode, rule) => Timely(gs, mode, rule)
  BY TimelyLater
<1>2. \A c : OfMapping(hs, f, c) => OfMapping(gs, f, c)
  BY DEF OfMapping
<1>3. ASSUME OfIterator(hs, mode, f) PROVE OfIterator(gs, mode, f)
  <2>1. UNION { Mentioned(g[f.it]) : g \in hs } \subseteq UNION { Mentioned(g[f.it]) : g \in gs }
    OBVIOUS
  <2> QED BY <1>3, <2>1 DEF OfIterator
<1> QED BY <1>1, <1>2, <1>3 DEF TimelyCall

(* The heaps there have been hold the same objects.                        *)
LEMMA HeapsAfter ==
  ASSUME HeapsInv, NEW before, SameObjects(heap, before), NoPython \/ Meddles(before)
  PROVE  HeapsInv' /\ past \subseteq past' /\ DOMAIN heap' = DOMAIN heap
<1>1. CASE NoPython
  BY <1>1 DEF NoPython, HeapsInv
<1>2. CASE Meddles(before)
  <2>1. /\ DOMAIN heap' = DOMAIN heap
        /\ \A o \in DOMAIN heap : heap'[o].py = heap[o].py
    BY <1>2 DEF Meddles, SameObjects
  <2>2. past' = past \cup {heap'} /\ IsHeap(heap')
    BY <1>2 DEF Meddles
  <2>3. \A h \in past' : IsHeap(h) /\ SameObjects(heap', h)
    BY <2>1, <2>2 DEF HeapsInv, SameObjects
  <2> QED BY <2>1, <2>2, <2>3 DEF HeapsInv
<1> QED BY <1>1, <1>2

LEMMA HeapsNow ==
  ASSUME HeapsInv
  PROVE  SameObjects(heap, heap) /\ IsHeap(heap)
  BY DEF HeapsInv, SameObjects

(* How an iterator's object is found after one name was taken from it.     *)
LEMMA HeapsTaken ==
  ASSUME HeapsInv, NEW o, NEW items
  PROVE  SameObjects(heap, [heap EXCEPT ![o].items = items])
<1> DEFINE before == [heap EXCEPT ![o].items = items]
<1>1. DOMAIN before = DOMAIN heap
  OBVIOUS
<1>2. ASSUME NEW x \in DOMAIN heap PROVE before[x].py = heap[x].py
  <2>1. "py" \in DOMAIN heap[x]
    BY DEF HeapsInv, IsHeap
  <2>2. before[x] = IF x = o THEN [heap[x] EXCEPT !.items = items] ELSE heap[x]
    OBVIOUS
  <2> QED BY <2>1, <2>2
<1> QED BY <1>1, <1>2 DEF SameObjects

-----------------------------------------------------------------------------
(* The ways a step may end.                                                *)

LEMMA MomentFailing ==
  ASSUME HeapsInv', NEW kind \in {"TypeError", "raised"}, Fail(kind)
  PROVE  MomentInv'
<1>1. Len(frames') = 0
  BY EmptySeq DEF Fail
<1> QED BY <1>1 DEF Fail, Error, MomentInv

(* What is kept stays in time.                                             *)
LEMMA MomentLater ==
  ASSUME MomentInv, past \subseteq past', NEW i \in 1 .. Len(frames)
  PROVE  TimelyCall(past', excluding, frames[i], Underway(i))
<1>1. TimelyCall(past, excluding, frames[i], Underway(i))
  BY DEF MomentInv
<1> QED BY <1>1, CallLater

LEMMA MomentPushed ==
  ASSUME CompileInv, MomentInv, HeapsInv', past \subseteq past', pc = "enter",
         excluding' = excluding, outcome' = outcome, pc' # "return",
         pc' = "enter" => value' \in DOMAIN heap',
         NEW f, frames' = Append(frames, f),
         TimelyCall(past', excluding, f, IF pc' = "next" THEN {} ELSE {f.key})
  PROVE  MomentInv'
<1>1. /\ Len(frames') = Len(frames) + 1 /\ Len(frames) \in Nat
      /\ \A i \in 1 .. Len(frames) : frames'[i] = frames[i]
      /\ frames'[Len(frames) + 1] = f
  BY PushedFrames DEF CompileInv
<1>2. ASSUME NEW i \in 1 .. Len(frames')
      PROVE  TimelyCall(past', excluding', frames'[i], Underway(i)')
  <2>1. CASE i = Len(frames) + 1
    <3>1. Underway(i)' = IF pc' = "next" THEN {} ELSE {f.key}
      BY <1>1, <2>1 DEF Underway
    <3> QED BY <1>1, <2>1, <3>1
  <2>2. CASE i \in 1 .. Len(frames)
    <3>1. Underway(i)' = Underway(i)
      BY <1>1, <2>2 DEF Underway
    <3> QED BY <1>1, <2>2, <3>1, MomentLater
  <2> QED BY <1>1, <2>1, <2>2
<1>3. outcome'.kind # "compiled"
  BY DEF CompileInv, Place
<1> QED BY <1>2, <1>3 DEF MomentInv

LEMMA MomentReplaced ==
  ASSUME CompileInv, MomentInv, HeapsInv', past \subseteq past', pc # "done",
         excluding' = excluding, outcome' = outcome, pc' # "return",
         pc' = "enter" => value' \in DOMAIN heap',
         frames # <<>>, NEW f, frames' = OnTop(f),
         TimelyCall(past', excluding, f, IF pc' = "next" THEN {} ELSE {f.key})
  PROVE  MomentInv'
<1>1. /\ Len(frames') = Len(frames) /\ Len(frames) \in 1 .. Len(frames)
      /\ \A i \in 1 .. Len(frames) : frames'[i] = IF i = Len(frames) THEN f ELSE frames[i]
  BY ReplacedFrames DEF CompileInv
<1>2. ASSUME NEW i \in 1 .. Len(frames')
      PROVE  TimelyCall(past', excluding', frames'[i], Underway(i)')
  <2>1. CASE i = Len(frames)
    <3>1. Underway(i)' = IF pc' = "next" THEN {} ELSE {f.key}
      BY <1>1, <2>1 DEF Underway
    <3> QED BY <1>1, <2>1, <3>1
  <2>2. CASE i # Len(frames)
    <3>1. Underway(i)' = Underway(i)
      BY <1>1, <2>2 DEF Underway
    <3> QED BY <1>1, <2>2, <3>1, MomentLater
  <2> QED BY <2>1, <2>2
<1>3. outcome'.kind # "compiled"
  BY DEF CompileInv, Place
<1> QED BY <1>2, <1>3 DEF MomentInv

LEMMA MomentReturned ==
  ASSUME CompileInv, MomentInv, HeapsInv', past \subseteq past', pc # "done",
         excluding' = excluding, NEW rule, NEW waiting, Return(rule, waiting),
         Timely(past', excluding, rule),
         \/ waiting = frames /\ pc # "next"
         \/ waiting = Below /\ frames # <<>>
  PROVE  MomentInv'
<1>1. outcome' = outcome /\ outcome.kind # "compiled" /\ pc' = "return" /\ result' = rule
  BY DEF Return, CompileInv, Place
<1>2. ASSUME NEW i \in 1 .. Len(frames')
      PROVE  TimelyCall(past', excluding', frames'[i], Underway(i)')
  <2>1. CASE waiting = frames /\ pc # "next"
    <3>1. frames' = frames
      BY <2>1 DEF Return
    <3>2. Underway(i)' = Underway(i)
      BY <1>1, <2>1, <3>1 DEF Underway
    <3> QED BY <3>1, <3>2, MomentLater
  <2>2. CASE waiting = Below /\ frames # <<>>
    <3>1. /\ Len(frames') = Len(frames) - 1 /\ Len(frames) \in 1 .. Len(frames)
          /\ \A k \in 1 .. Len(frames) - 1 : frames'[k] = frames[k]
      BY <2>2, PoppedFrames DEF Return, CompileInv
    <3>2. i \in 1 .. Len(frames) /\ i # Len(frames) /\ frames'[i] = frames[i]
      BY <3>1
    <3>3. Underway(i)' = Underway(i)
      BY <1>1, <3>2 DEF Underway
    <3> QED BY <3>2, <3>3, MomentLater
  <2> QED BY <2>1, <2>2
<1> QED BY <1>1, <1>2 DEF MomentInv

-----------------------------------------------------------------------------
(* Entering an object.                                                     *)

(* The entries of a mapping as it is in one of the heaps there have been.  *)
LEMMA MomentOpen ==
  ASSUME CompileInv, MomentInv, HeapsInv', past \subseteq past', pc = "enter",
         excluding' = excluding, DOMAIN heap' = DOMAIN heap,
         NEW h \in past', IsHeap(h), value \in DOMAIN h, DOMAIN h = DOMAIN heap,
         IsMapping(h[value]), Open(h[value].items)
  PROVE  MomentInv'
<1> DEFINE items == h[value].items
<1>1. /\ IsSeq(items) /\ \A i \in DOMAIN items : items[i].value \in DOMAIN heap
      /\ Mentioned(h[value]) = { items[i].key : i \in DOMAIN items }
  BY DEF IsHeap, Mentioned
<1>2. CASE Loop(Append(frames, Entries(value, items)), "next")
  <2> DEFINE f == Entries(value, items)
  <2>1. /\ {"rules", "key", "rest"} \subseteq DOMAIN f /\ DOMAIN f.rules = {}
        /\ f.rest = items /\ f.wait = "member"
    BY DEF Entries
  <2> HIDE DEF f
  <2>2. OfMapping(past', f, {})
    BY <1>1, <2>1 DEF OfMapping
  <2>3. TimelyCall(past', excluding, f, {})
    BY <2>1, <2>2 DEF TimelyCall
  <2>4. frames' = Append(frames, f) /\ pc' = "next" /\ outcome' = outcome
    BY <1>2 DEF Loop, f
  <2> QED BY <2>3, <2>4, MomentPushed
<1>3. CASE IsWildcard(items) /\ Call(items[1].value, Append(frames, AwaitElement))
  <2>1. 1 \in DOMAIN items
    <3> DEFINE S == { items[i] : i \in DOMAIN items }
    <3>1. items \in Seq(S) /\ Len(items) = 1
      BY <1>1, <1>3 DEF IsWildcard, IsSeq
    <3> HIDE DEF items, S
    <3> QED BY <3>1, SequenceIs
  <2>2. value' \in DOMAIN heap'
    BY <1>1, <1>3, <2>1 DEF Call
  <2>3. TimelyCall(past', excluding, AwaitElement, {AwaitElement.key})
    BY DEF TimelyCall, AwaitElement
  <2> QED BY <1>3, <2>2, <2>3, MomentPushed DEF Call
<1> QED BY <1>2, <1>3, MomentFailing DEF Open

LEMMA MomentEnter ==
  ASSUME CompileInv, MomentInv, Bool \/ Dict \/ Mapping \/ Scalar \/ Names
  PROVE  MomentInv'
<1>1. /\ pc = "enter" /\ excluding' = excluding /\ value \in DOMAIN heap
      /\ excluding \in BOOLEAN
  BY DEF Bool, Dict, Mapping, Scalar, Names, Enter, input, MomentInv, CompileInv, Place
<1>2. NoPython \/ Meddles(heap)
  BY DEF Bool, Dict, Mapping, Scalar, Names, Python
<1>3. HeapsInv' /\ past \subseteq past' /\ DOMAIN heap' = DOMAIN heap
  BY <1>2, HeapsAfter, HeapsNow DEF MomentInv
<1>4. /\ heap \in past' /\ heap' \in past' /\ IsHeap(heap) /\ IsHeap(heap')
      /\ heap'[value].py = heap[value].py
  BY <1>1, <1>3 DEF MomentInv, HeapsInv, SameObjects
<1>5. CASE Bool
  <2>1. Return(Leaf, frames) \/ Fail("TypeError")
    BY <1>5 DEF Bool
  <2>2. Timely(past', excluding, Leaf)
    BY TimelyLeaf DEF Leaf
  <2> QED BY <1>1, <1>3, <2>1, <2>2, MomentReturned, MomentFailing
<1>6. CASE Dict
  <2>1. Open(heap[value].items) /\ IsMapping(heap[value])
    BY <1>6 DEF Dict, Enter, IsMapping
  <2> QED BY <1>1, <1>3, <1>4, <2>1, MomentOpen
<1>7. CASE Mapping
  <2>1. /\ Open(heap[value].items) \/ Open(heap'[value].items) \/ Fail("raised")
        /\ IsMapping(heap[value]) /\ IsMapping(heap'[value])
    BY <1>4, <1>7 DEF Mapping, Enter, IsMapping
  <2> QED BY <1>1, <1>3, <1>4, <2>1, MomentOpen, MomentFailing
<1>8. CASE Names
  <2> DEFINE names == { heap[value].items[i] : i \in DOMAIN heap[value].items }
             rules == [n \in names |-> Leaf]
  <2>1. Fail("TypeError") \/ Return(Selecting(rules), frames)
    BY <1>8 DEF Names
  <2>2. heap[value].py = "names" /\ DOMAIN rules = Mentioned(heap[value])
    BY <1>8 DEF Names, Enter, Mentioned, IsMapping
  <2>3. \A n \in DOMAIN rules : Timely(past', excluding, rules[n])
    BY TimelyLeaf DEF Leaf
  <2> HIDE DEF rules
  <2>4. Timely(past', excluding, Selecting(rules))
    BY <1>1, <1>4, <2>2, <2>3, TimelySelecting
  <2> QED BY <1>1, <1>3, <2>1, <2>4, MomentReturned, MomentFailing
<1>9. CASE Scalar
  BY <1>3, <1>9, MomentFailing DEF Scalar
<1> QED BY <1>5, <1>6, <1>7, <1>8, <1>9

LEMMA MomentIterator ==
  ASSUME CompileInv, MomentInv, Iterator
  PROVE  MomentInv'
<1>1. /\ pc = "enter" /\ excluding' = excluding /\ value \in DOMAIN heap
      /\ heap[value].py = "iterator" /\ Meddles(heap)
  BY DEF Iterator, Enter, input, MomentInv
<1>2. HeapsInv' /\ past \subseteq past' /\ heap \in past'
  BY <1>1, HeapsAfter, HeapsNow DEF MomentInv, HeapsInv
<1>3. CASE Loop(Append(frames, Naming(value)), "names")
  <2> DEFINE f == Naming(value)
  <2>1. /\ {"rules", "it"} \subseteq DOMAIN f /\ DOMAIN f.rules = {}
        /\ f.it = value /\ f.wait = "name"
    BY DEF Naming
  <2> HIDE DEF f
  <2>2. OfIterator(past', excluding, f)
    BY <1>1, <1>2, <2>1 DEF OfIterator
  <2>3. TimelyCall(past', excluding, f, {f.key})
    BY <2>1, <2>2 DEF TimelyCall
  <2>4. frames' = Append(frames, f) /\ pc' = "names" /\ outcome' = outcome
    BY <1>3 DEF Loop, f
  <2> QED BY <1>1, <1>2, <2>3, <2>4, MomentPushed
<1>4. CASE \E kind \in {"TypeError", "raised"} : Fail(kind)
  BY <1>2, <1>4, MomentFailing
<1> QED BY <1>3, <1>4 DEF Iterator

-----------------------------------------------------------------------------
(* The loops over names and entries.                                       *)

(* What the innermost call holds.                                          *)
LEMMA MomentTop ==
  ASSUME CompileInv, MomentInv, frames # <<>>
  PROVE  TimelyCall(past, excluding, Top, IF pc = "next" THEN {} ELSE {Top.key})
<1>1. Top = frames[Len(frames)] /\ Len(frames) \in 1 .. Len(frames)
  BY Emptiness DEF Top, CompileInv
<1>2. Underway(Len(frames)) = IF pc = "next" THEN {} ELSE {Top.key}
  BY <1>1 DEF Underway
<1> QED BY <1>1, <1>2 DEF MomentInv

LEMMA MomentName ==
  ASSUME CompileInv, MomentInv, NextName
  PROVE  MomentInv'
<1> DEFINE name == Head(heap[Top.it].items)
           f == [Top EXCEPT !.rules = WithRule(@, name, Leaf)]
<1>1. /\ pc = "names" /\ frames # <<>> /\ Top.wait = "name" /\ excluding' = excluding
      /\ excluding \in BOOLEAN /\ heap[Top.it].items # <<>>
      /\ Meddles([heap EXCEPT ![Top.it].items = Tail(@)])
      /\ \/ Loop(OnTop(f), "names")
         \/ Fail("TypeError") \/ Fail("raised")
  BY DEF NextName, input, CompileInv, Place, Python
<1>2. HeapsInv' /\ past \subseteq past'
  BY <1>1, HeapsTaken, HeapsAfter DEF MomentInv
<1>3. /\ OfIterator(past, excluding, Top) /\ {"wait", "it", "rules"} \subseteq DOMAIN Top
      /\ \A n \in DOMAIN Top.rules : Timely(past, excluding, Top.rules[n])
  <2>1. IsCall(Top) /\ TimelyCall(past, excluding, Top, {Top.key})
    BY <1>1, MomentTop, TopIsCall DEF CompileInv
  <2> QED BY <1>1, <2>1 DEF TimelyCall, IsCall
<1>4. /\ Top.it \in DOMAIN heap /\ heap[Top.it].py = "iterator" /\ heap \in past
      /\ IsSeq(heap[Top.it].items)
  <2>1. PICK h \in past : Top.it \in DOMAIN h /\ h[Top.it].py = "iterator"
    BY <1>3 DEF OfIterator
  <2> QED BY <2>1 DEF MomentInv, HeapsInv, SameObjects, IsHeap, IsNames
<1>5. name \in Mentioned(heap[Top.it])
  <2>1. 1 \in DOMAIN heap[Top.it].items /\ name = heap[Top.it].items[1]
    BY <1>1, <1>4, FirstAndRest
  <2> QED BY <1>4, <2>1 DEF Mentioned, IsMapping
<1> HIDE DEF name
<1>6. /\ f.it = Top.it /\ f.wait = "name" /\ {"rules", "it"} \subseteq DOMAIN f
      /\ f.rules = WithRule(Top.rules, name, Leaf)
  BY <1>1, <1>3
<1> HIDE DEF f
<1>7. /\ DOMAIN f.rules = DOMAIN Top.rules \cup {name}
      /\ \A n \in DOMAIN f.rules : f.rules[n] = IF n = name THEN Leaf ELSE Top.rules[n]
  BY <1>6 DEF WithRule
<1>8. OfIterator(past, excluding, f)
  <2>1. PICK h \in past :
          /\ Top.it \in DOMAIN h /\ h[Top.it].py = "iterator"
          /\ DOMAIN Top.rules \subseteq UNION { Mentioned(g[Top.it]) : g \in past }
          /\ \A n \in DOMAIN Top.rules : Top.rules[n] = IF excluding THEN SDiscard ELSE SKeep
    BY <1>3 DEF OfIterator
  <2>2. DOMAIN f.rules \subseteq UNION { Mentioned(g[f.it]) : g \in past }
    BY <1>4, <1>5, <1>6, <1>7, <2>1
  <2>3. \A n \in DOMAIN f.rules : f.rules[n] = IF excluding THEN SDiscard ELSE SKeep
    BY <1>7, <2>1 DEF Leaf
  <2> QED BY <1>6, <2>1, <2>2, <2>3 DEF OfIterator
<1>9. TimelyCall(past, excluding, f, {f.key})
  <2>1. \A n \in DOMAIN f.rules : Timely(past, excluding, f.rules[n])
    BY <1>3, <1>7, TimelyLeaf DEF Leaf
  <2> QED BY <1>6, <1>8, <2>1 DEF TimelyCall
<1>10. TimelyCall(past', excluding, f, {f.key})
  BY <1>2, <1>9, CallLater
<1> QED BY <1>1, <1>2, <1>10, MomentReplaced, MomentFailing DEF Loop

LEMMA MomentNames ==
  ASSUME CompileInv, MomentInv, NamesEnd
  PROVE  MomentInv'
<1>1. /\ pc = "names" /\ frames # <<>> /\ Top.wait = "name" /\ excluding' = excluding
      /\ excluding \in BOOLEAN /\ Meddles(heap) /\ Return(Selecting(Top.rules), Below)
  BY DEF NamesEnd, input, CompileInv, Place, Python
<1>2. HeapsInv' /\ past \subseteq past'
  BY <1>1, HeapsNow, HeapsAfter DEF MomentInv
<1>3. TimelyCall(past, excluding, Top, {Top.key})
  BY <1>1, MomentTop
<1>4. TimelyCall(past', excluding, Top, {Top.key})
  BY <1>2, <1>3, CallLater
<1>5. PICK h \in past' :
        /\ Top.it \in DOMAIN h /\ h[Top.it].py = "iterator"
        /\ DOMAIN Top.rules \subseteq UNION { Mentioned(g[Top.it]) : g \in past' }
        /\ \A n \in DOMAIN Top.rules : Top.rules[n] = IF excluding THEN SDiscard ELSE SKeep
  BY <1>1, <1>4 DEF TimelyCall, OfIterator
<1>6. \A n \in DOMAIN Top.rules : Timely(past', excluding, Top.rules[n])
  BY <1>1, <1>4 DEF TimelyCall
<1>7. Timely(past', excluding, Selecting(Top.rules))
  BY <1>1, <1>5, <1>6, TimelySelecting DEF Leaf
<1> QED BY <1>1, <1>2, <1>7, MomentReturned

LEMMA MomentEntry ==
  ASSUME CompileInv, MomentInv, NextEntry
  PROVE  MomentInv'
<1> DEFINE entry == Head(Top.rest)
           f == [Top EXCEPT !.key = entry.key, !.rest = Tail(@)]
<1>1. /\ pc = "next" /\ frames # <<>> /\ Top.wait = "member" /\ excluding' = excluding
      /\ Top.rest # <<>> /\ NoPython
      /\ Fail("TypeError") \/ Call(entry.value, OnTop(f))
  BY DEF NextEntry, input, CompileInv, Place
<1>2. HeapsInv' /\ past' = past /\ heap' = heap
  BY <1>1 DEF MomentInv, HeapsInv, NoPython
<1>3. /\ OfMapping(past, Top, {}) /\ {"wait", "key", "rest", "rules"} \subseteq DOMAIN Top
      /\ \A n \in DOMAIN Top.rules : Timely(past, excluding, Top.rules[n])
  <2>1. IsCall(Top) /\ TimelyCall(past, excluding, Top, {})
    BY <1>1, MomentTop, TopIsCall DEF CompileInv
  <2> QED BY <1>1, <2>1 DEF TimelyCall, IsCall
<1>4. PICK h \in past : \E o \in DOMAIN h :
        /\ IsMapping(h[o]) /\ IsSeq(Top.rest)
        /\ \A i \in DOMAIN Top.rest : Top.rest[i].value \in DOMAIN h
        /\ Mentioned(h[o])
             = DOMAIN Top.rules \cup {} \cup { Top.rest[i].key : i \in DOMAIN Top.rest }
  BY <1>3 DEF OfMapping
<1>5. /\ IsSeq(Tail(Top.rest)) /\ 1 \in DOMAIN Top.rest /\ entry = Top.rest[1]
      /\ \A i \in DOMAIN Top.rest :
           Top.rest[i] = entry \/ \E j \in DOMAIN Tail(Top.rest) : Tail(Top.rest)[j] = Top.rest[i]
      /\ \A j \in DOMAIN Tail(Top.rest) : \E i \in DOMAIN Top.rest : Top.rest[i] = Tail(Top.rest)[j]
  BY <1>1, <1>4, FirstAndRest
<1>6. f.key = entry.key /\ f.rest = Tail(Top.rest) /\ f.rules = Top.rules
      /\ f.wait = Top.wait /\ DOMAIN f = DOMAIN Top
  BY <1>3
<1> HIDE DEF entry, f
<1>7. entry.value \in DOMAIN heap
  BY <1>4, <1>5 DEF MomentInv, HeapsInv, SameObjects
<1>8. OfMapping(past, f, {f.key})
  <2>1. \A i \in DOMAIN f.rest : f.rest[i].value \in DOMAIN h
    BY <1>4, <1>5, <1>6
  <2>2. { Top.rest[i].key : i \in DOMAIN Top.rest }
          = {f.key} \cup { f.rest[i].key : i \in DOMAIN f.rest }
    BY <1>5, <1>6
  <2> QED BY <1>4, <1>5, <1>6, <2>1, <2>2 DEF OfMapping
<1>9. TimelyCall(past, excluding, f, {f.key})
  BY <1>1, <1>3, <1>6, <1>8 DEF TimelyCall
<1> QED BY <1>1, <1>2, <1>7, <1>9, MomentReplaced, MomentFailing DEF Call

LEMMA MomentEntries ==
  ASSUME CompileInv, MomentInv, EntriesEnd
  PROVE  MomentInv'
<1>1. /\ pc = "next" /\ frames # <<>> /\ Top.wait = "member" /\ excluding' = excluding
      /\ excluding \in BOOLEAN
      /\ Top.rest = <<>> /\ NoPython /\ Return(Selecting(Top.rules), Below)
  BY DEF EntriesEnd, input, CompileInv, Place
<1>2. HeapsInv' /\ past' = past
  BY <1>1 DEF MomentInv, HeapsInv, NoPython
<1>3. /\ OfMapping(past, Top, {})
      /\ \A n \in DOMAIN Top.rules : Timely(past, excluding, Top.rules[n])
  <2>1. TimelyCall(past, excluding, Top, {})
    BY <1>1, MomentTop
  <2> QED BY <1>1, <2>1 DEF TimelyCall
<1>4. PICK h \in past : \E o \in DOMAIN h :
        /\ IsMapping(h[o]) /\ IsSeq(Top.rest)
        /\ Mentioned(h[o])
             = DOMAIN Top.rules \cup {} \cup { Top.rest[i].key : i \in DOMAIN Top.rest }
  BY <1>3 DEF OfMapping
<1>5. PICK o \in DOMAIN h : IsMapping(h[o]) /\ DOMAIN Top.rules = Mentioned(h[o])
  <2>1. DOMAIN Top.rest = {}
    BY <1>1, <1>4, NothingLeft
  <2> QED BY <1>4, <2>1
<1>6. Timely(past, excluding, Selecting(Top.rules))
  BY <1>1, <1>3, <1>5, TimelySelecting
<1> QED BY <1>1, <1>2, <1>6, MomentReturned

LEMMA MomentInsert ==
  ASSUME CompileInv, MomentInv, InsertMember
  PROVE  MomentInv'
<1> DEFINE f == [Top EXCEPT !.rules = WithRule(@, Top.key, result)]
<1>1. /\ pc = "return" /\ frames # <<>> /\ Top.wait = "member" /\ excluding' = excluding
      /\ NoPython /\ Loop(OnTop(f), "next") /\ Timely(past, excluding, result)
  BY DEF InsertMember, input, MomentInv
<1>2. HeapsInv' /\ past' = past
  BY <1>1 DEF MomentInv, HeapsInv, NoPython
<1>3. /\ OfMapping(past, Top, {Top.key}) /\ {"wait", "key", "rest", "rules"} \subseteq DOMAIN Top
      /\ \A n \in DOMAIN Top.rules : Timely(past, excluding, Top.rules[n])
  <2>1. IsCall(Top) /\ TimelyCall(past, excluding, Top, {Top.key})
    BY <1>1, MomentTop, TopIsCall DEF CompileInv
  <2> QED BY <1>1, <2>1 DEF TimelyCall, IsCall
<1>4. /\ f.rest = Top.rest /\ f.wait = "member" /\ DOMAIN f = DOMAIN Top
      /\ f.rules = WithRule(Top.rules, Top.key, result)
  BY <1>1, <1>3
<1> HIDE DEF f
<1>5. /\ DOMAIN f.rules = DOMAIN Top.rules \cup {Top.key}
      /\ \A n \in DOMAIN f.rules : f.rules[n] = IF n = Top.key THEN result ELSE Top.rules[n]
  BY <1>4 DEF WithRule
<1>6. OfMapping(past, f, {})
  BY <1>3, <1>4, <1>5 DEF OfMapping
<1>7. TimelyCall(past, excluding, f, {})
  <2>1. \A n \in DOMAIN f.rules : Timely(past, excluding, f.rules[n])
    BY <1>1, <1>3, <1>5
  <2> QED BY <1>3, <1>4, <1>6, <2>1 DEF TimelyCall
<1> QED BY <1>1, <1>2, <1>7, MomentReplaced DEF Loop

LEMMA MomentWrap ==
  ASSUME CompileInv, MomentInv, WrapElement
  PROVE  MomentInv'
<1>1. /\ pc = "return" /\ frames # <<>> /\ excluding' = excluding /\ NoPython
      /\ Fail("TypeError") \/ Return(SArray(result), Below)
      /\ Timely(past, excluding, result)
  BY DEF WrapElement, input, MomentInv
<1>2. HeapsInv' /\ past' = past
  BY <1>1 DEF MomentInv, HeapsInv, NoPython
<1>3. AtOnce(past, excluding, SArray(result)) /\ Held(SArray(result)) = {result}
  BY DEF AtOnce, Held, SArray
<1>4. Timely(past, excluding, SArray(result))
  BY <1>1, <1>3, TimelyHolder
<1> QED BY <1>1, <1>2, <1>4, MomentReturned, MomentFailing

LEMMA MomentStep == CompileInv /\ MomentInv /\ [Next]_vars => MomentInv'
<1> SUFFICES ASSUME CompileInv, MomentInv, [Next]_vars PROVE MomentInv'
  OBVIOUS
<1>1. NoPython => HeapsInv'
  BY DEF NoPython, MomentInv, HeapsInv
<1>2. CASE TooDeep \/ ReprRaises
  BY <1>1, <1>2, MomentFailing DEF TooDeep, ReprRaises
<1>3. CASE Finish
  <2>1. Timely(past, excluding, result) /\ past' = past /\ excluding' = excluding
        /\ pc' = "done" /\ HeapsInv'
    BY <1>1, <1>3 DEF Finish, MomentInv, NoPython, input
  <2>2. \A i \in 1 .. Len(frames') : FALSE
    <3>1. Len(frames') = 0
      BY <1>3, EmptySeq DEF Finish
    <3> QED BY <3>1
  <2>3. outcome'.kind = "compiled" => outcome'.spec = result
    BY <1>3 DEF Finish, Compiled, Error
  <2> QED BY <2>1, <2>2, <2>3 DEF MomentInv
<1>4. CASE Over \/ UNCHANGED vars
  <2>1. UNCHANGED vars
    BY <1>4 DEF Over
  <2> QED BY <2>1 DEF vars, input, MomentInv, HeapsInv, Underway
<1> QED
  BY <1>2, <1>3, <1>4, MomentEnter, MomentIterator, MomentName, MomentNames, MomentEntry,
     MomentEntries, MomentInsert, MomentWrap DEF Next, Step

LEMMA MomentInit == Init => MomentInv
<1> SUFFICES ASSUME Init PROVE MomentInv
  OBVIOUS
<1>1. HeapsInv /\ value \in DOMAIN heap
  BY HeapAssumption DEF Init, HeapsInv, SameObjects
<1>2. Len(frames) = 0
  BY EmptySeq DEF Init
<1> QED BY <1>1, <1>2 DEF Init, Running, MomentInv

(* Whatever Python code does to the objects meanwhile, the rules that come *)
(* out for one object were in it together (from_py copies the entries of a *)
(* dict before it compiles any of them, src/spec.rs).                      *)
THEOREM RulesAreOfOneMoment == Spec => []OneMoment
<1>1. CompileInv /\ MomentInv => OneMoment
  <2> SUFFICES ASSUME CompileInv, MomentInv, outcome.kind = "compiled",
                      NEW n \in 0 .. MaxSpecDepth + 1, NEW part \in PartsAt(outcome.spec)[n],
                      part.kind \in {"Object", "ExcludeObject"}
               PROVE  \E h \in past : \E o \in DOMAIN h :
                        \/ /\ IsMapping(h[o]) \/ h[o].py = "names"
                           /\ DOMAIN part.fields = Mentioned(h[o])
                        \/ /\ h[o].py = "iterator"
                           /\ DOMAIN part.fields \subseteq UNION { Mentioned(g[o]) : g \in past }
                           /\ \A name \in DOMAIN part.fields : part.fields[name] = Leaf
    BY DEF OneMoment
  <2>1. n \in Nat /\ Timely(past, excluding, outcome.spec)
    BY DepthAssumption DEF MomentInv
  <2>2. AtOnce(past, excluding, part)
    BY <2>1 DEF Timely
  <2> QED BY <2>2 DEF AtOnce, Leaf
<1> QED BY <1>1, CompileInit, CompileStep, MomentInit, MomentStep, PTL DEF Spec
=============================================================================
