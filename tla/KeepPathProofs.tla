--------------------------- MODULE KeepPathProofs ---------------------------
(***************************************************************************)
(* Merging keeps every path it is asked to keep and forgets none, for      *)
(* every derived spec, shared and cyclic ones included, and every adapter; *)
(* and keeps nothing else, where the derived spec is a tree.               *)
(***************************************************************************)
EXTENDS KeepPath, Inductions, SequenceTheorems, TLAPS

Heap == [Dicts -> [Keys -> Entries]]
With(h, n, s, v) == [h EXCEPT ![n] = [@ EXCEPT ![s] = v]]

-----------------------------------------------------------------------------
(* Paths, and trails through dicts.                                        *)

LEMMA PathFacts ==
  ASSUME NEW p \in Paths
  PROVE  /\ Len(p) \in Nat /\ 1 <= Len(p) /\ DOMAIN p = 1 .. Len(p)
         /\ \A j \in 1 .. Len(p) : p[j] \in Keys
         /\ p # <<>>
<1>1. PICK n \in 1 .. MaxPath : p \in [1 .. n -> Keys]
  BY DEF Paths
<1>2. n \in Nat /\ 1 <= n
  BY PathAssumption
<1>3. Len(p) = n /\ DOMAIN p = 1 .. n
  BY <1>1, <1>2
<1>4. p # <<>>
  <2>1. 1 \in DOMAIN p
    BY <1>2, <1>3
  <2> QED BY <2>1
<1> QED BY <1>1, <1>2, <1>3, <1>4

LEMMA CutsArePaths ==
  ASSUME NEW p \in Paths
  PROVE  Cuts(p) \subseteq Paths
<1> SUFFICES ASSUME NEW n \in DOMAIN p PROVE SubSeq(p, 1, n) \in Paths
  BY DEF Cuts
<1>1. n \in 1 .. Len(p) /\ Len(p) \in 1 .. MaxPath
  <2>1. PICK k \in 1 .. MaxPath : p \in [1 .. k -> Keys]
    BY DEF Paths
  <2> QED BY <2>1, PathAssumption
<1>2. SubSeq(p, 1, n) \in [1 .. n -> Keys]
  <2>1. \A i \in 1 .. n : p[i] \in Keys
    BY <1>1, PathFacts
  <2>2. SubSeq(p, 1, n) \in Seq(Keys) /\ Len(SubSeq(p, 1, n)) = n
    BY <1>1, <2>1, SubSeqProperties
  <2> QED BY <1>1, <2>2, LenProperties
<1>3. n \in 1 .. MaxPath
  BY <1>1, PathAssumption
<1> QED BY <1>2, <1>3 DEF Paths

LEMMA WithTyped ==
  ASSUME NEW h \in Heap, NEW n \in Dicts, NEW s \in Keys, NEW v \in Entries
  PROVE  /\ With(h, n, s, v) \in Heap
         /\ \A d \in Dicts, k \in Keys :
              With(h, n, s, v)[d][k] = IF d = n /\ k = s THEN v ELSE h[d][k]
BY DEF With, Heap

(* An entry that leads nowhere may change: the trails stay.                *)
LEMMA TrailStays ==
  ASSUME NEW h \in Heap, NEW n \in Dicts, NEW s \in Keys, NEW v \in Entries,
         h[n][s] \notin Dicts \cup {Whole}, Root \in Dicts,
         NEW p \in Paths, NEW m \in Nat, m <= Len(p), NEW t \in Trails(h, p, m)
  PROVE  t \in Trails(With(h, n, s, v), p, m)
<1> DEFINE w == With(h, n, s, v)
<1>1. t \in [1 .. m -> Dicts \cup {Whole}]
  BY DEF Trails
<1>2. ASSUME NEW j \in 1 .. m
      PROVE  t[j] = IF Before(t, j) = Whole THEN Whole ELSE w[Before(t, j)][p[j]]
  <2>1. t[j] = IF Before(t, j) = Whole THEN Whole ELSE h[Before(t, j)][p[j]]
    BY DEF Trails
  <2>2. Before(t, j) \in Dicts \cup {Whole} /\ p[j] \in Keys /\ t[j] \in Dicts \cup {Whole}
    BY <1>1, PathFacts DEF Before
  <2> QED BY <2>1, <2>2, WithTyped
<1> QED BY <1>1, <1>2 DEF Trails

(* An entry that becomes Whole turns a trail through it into one that      *)
(* ends, from there on, in what is kept whole.                             *)
Hits(t, p, n, s, j) == Before(t, j) = n /\ p[j] = s
Widened(t, p, n, s, m) ==
  [j \in 1 .. m |-> IF \E k \in 1 .. j : Hits(t, p, n, s, k) THEN Whole ELSE t[j]]

LEMMA TrailWidens ==
  ASSUME NEW h \in Heap, NEW n \in Dicts, NEW s \in Keys, Root \in Dicts,
         NEW p \in Paths, NEW m \in Nat, m <= Len(p), NEW t \in Trails(h, p, m)
  PROVE  Widened(t, p, n, s, m) \in Trails(With(h, n, s, Whole), p, m)
<1> DEFINE w == With(h, n, s, Whole)
           u == Widened(t, p, n, s, m)
<1>1. t \in [1 .. m -> Dicts \cup {Whole}] /\ u \in [1 .. m -> Dicts \cup {Whole}]
  BY DEF Trails, Widened
<1>2. ASSUME NEW j \in 1 .. m
      PROVE  u[j] = IF Before(u, j) = Whole THEN Whole ELSE w[Before(u, j)][p[j]]
  <2>1. /\ Before(t, j) \in Dicts \cup {Whole} /\ p[j] \in Keys
        /\ t[j] = IF Before(t, j) = Whole THEN Whole ELSE h[Before(t, j)][p[j]]
    BY <1>1, PathFacts DEF Before, Trails
  <2>2. u[j] = IF \E k \in 1 .. j : Hits(t, p, n, s, k) THEN Whole ELSE t[j]
    BY DEF Widened
  <2>3. \A d \in Dicts, k \in Keys : w[d][k] = IF d = n /\ k = s THEN Whole ELSE h[d][k]
    BY WithTyped DEF Entries
  <2>4. CASE \E k \in 1 .. j : Hits(t, p, n, s, k) /\ k # j
    <3>1. PICK k \in 1 .. j - 1 : Hits(t, p, n, s, k)
      BY <2>4
    <3>2. j # 1 /\ Before(u, j) = Whole
      BY <3>1 DEF Before, Widened
    <3> QED BY <3>1, <3>2, <2>2
  <2>5. CASE \A k \in 1 .. j : k # j => ~Hits(t, p, n, s, k)
    <3>1. Before(u, j) = Before(t, j)
      BY <2>5 DEF Before, Widened
    <3>2. CASE Hits(t, p, n, s, j)
      BY <3>1, <3>2, <2>2, <2>3, EntryAssumption DEF Hits
    <3>3. CASE ~Hits(t, p, n, s, j)
      <4>1. u[j] = t[j]
        BY <2>2, <2>5, <3>3
      <4> QED BY <3>1, <3>3, <4>1, <2>1, <2>3 DEF Hits
    <3> QED BY <3>2, <3>3
  <2> QED BY <2>4, <2>5
<1> QED BY <1>1, <1>2 DEF Trails

(* What was kept is kept when an entry that leads nowhere changes, or any  *)
(* entry becomes Whole.                                                    *)
LEMMA KeptStays ==
  ASSUME NEW h \in Heap, NEW n \in Dicts, NEW s \in Keys, NEW v \in Entries, Root \in Dicts,
         h[n][s] \notin Dicts \cup {Whole} \/ v = Whole,
         NEW p \in Paths, Kept(h, p)
  PROVE  Kept(With(h, n, s, v), p)
<1>1. PICK t \in Trails(h, p, Len(p)) : t[Len(p)] = Whole
  BY DEF Kept
<1>2. Len(p) \in Nat /\ 1 <= Len(p)
  BY PathFacts
<1>3. CASE h[n][s] \notin Dicts \cup {Whole}
  <2>1. t \in Trails(With(h, n, s, v), p, Len(p))
    BY <1>2, <1>3, TrailStays
  <2> QED BY <1>1, <2>1 DEF Kept
<1>4. CASE v = Whole
  <2>1. Widened(t, p, n, s, Len(p)) \in Trails(With(h, n, s, v), p, Len(p))
    BY <1>2, <1>4, TrailWidens
  <2>2. Widened(t, p, n, s, Len(p))[Len(p)] = Whole
    BY <1>1, <1>2 DEF Widened
  <2> QED BY <2>1, <2>2 DEF Kept
<1> QED BY <1>3, <1>4

(* A path is kept when its first keys lead to what is kept whole, or to a  *)
(* dict whose entry for the next key is Whole.                             *)
LEMMA ReachedIsKept ==
  ASSUME NEW h \in Heap, NEW p \in Paths, NEW i \in 1 .. Len(p),
         NEW t \in Trails(h, p, i - 1), Before(t, i) = Whole \/ h[Before(t, i)][p[i]] = Whole
  PROVE  Kept(h, p)
<1> DEFINE u == [j \in 1 .. Len(p) |-> IF j < i THEN t[j] ELSE Whole]
<1>1. Len(p) \in Nat /\ 1 <= Len(p) /\ \A j \in 1 .. Len(p) : p[j] \in Keys
  BY PathFacts
<1>2. t \in [1 .. i - 1 -> Dicts \cup {Whole}]
  BY DEF Trails
<1>3. u \in [1 .. Len(p) -> Dicts \cup {Whole}] /\ u[Len(p)] = Whole
  BY <1>1, <1>2
<1>4. ASSUME NEW j \in 1 .. Len(p)
      PROVE  u[j] = IF Before(u, j) = Whole THEN Whole ELSE h[Before(u, j)][p[j]]
  <2>1. CASE j < i
    <3>1. j \in 1 .. i - 1 /\ u[j] = t[j] /\ Before(u, j) = Before(t, j)
      BY <2>1, <1>1 DEF Before
    <3> QED BY <3>1 DEF Trails
  <2>2. CASE j = i
    <3>1. u[j] = Whole /\ Before(u, j) = Before(t, j)
      BY <2>2, <1>1 DEF Before
    <3> QED BY <3>1, <2>2
  <2>3. CASE j > i
    <3>1. u[j] = Whole /\ Before(u, j) = Whole
      BY <2>3, <1>1 DEF Before
    <3> QED BY <3>1
  <2> QED BY <2>1, <2>2, <2>3, <1>1
<1>5. u \in Trails(h, p, Len(p))
  BY <1>3, <1>4 DEF Trails
<1> QED BY <1>3, <1>5 DEF Kept

(* A trail goes on into the dict under the next key.                       *)
LEMMA TrailGoesOn ==
  ASSUME NEW h \in Heap, Root \in Dicts, NEW p \in Paths, NEW i \in 1 .. Len(p),
         NEW t \in Trails(h, p, i - 1), Before(t, i) \in Dicts, h[Before(t, i)][p[i]] \in Dicts
  PROVE  \E u \in Trails(h, p, i) : Before(u, i + 1) = h[Before(t, i)][p[i]]
<1> DEFINE u == [j \in 1 .. i |-> IF j < i THEN t[j] ELSE h[Before(t, i)][p[i]]]
<1>1. i \in Nat /\ 1 <= i /\ i <= Len(p) /\ Len(p) \in Nat
  BY PathFacts
<1>2. t \in [1 .. i - 1 -> Dicts \cup {Whole}]
  BY DEF Trails
<1>3. u \in [1 .. i -> Dicts \cup {Whole}]
  BY <1>1, <1>2
<1>4. Before(u, i) = Before(t, i)
  BY <1>1 DEF Before
<1>5. ASSUME NEW j \in 1 .. i
      PROVE  u[j] = IF Before(u, j) = Whole THEN Whole ELSE h[Before(u, j)][p[j]]
  <2>1. CASE j < i
    <3>1. j \in 1 .. i - 1 /\ u[j] = t[j] /\ Before(u, j) = Before(t, j)
      BY <2>1, <1>1 DEF Before
    <3> QED BY <3>1 DEF Trails
  <2>2. CASE j = i
    BY <2>2, <1>1, <1>4, EntryAssumption
  <2> QED BY <2>1, <2>2, <1>1
<1>6. u \in Trails(h, p, i)
  BY <1>3, <1>5 DEF Trails
<1>7. Before(u, i + 1) = h[Before(t, i)][p[i]]
  BY <1>1 DEF Before
<1> QED BY <1>6, <1>7

-----------------------------------------------------------------------------
(* What holds at every moment.  The path being merged has led to `node`,   *)
(* the paths merged are kept, and every path that is wanted is kept, being *)
(* merged, or still to come.                                               *)
Reached    == path # <<>> => \E t \in Trails(heap, path, at - 1) : Before(t, at) = node
MergedKept == \A p \in merged : Kept(heap, p)

Ahead ==
  IF pc = "done" THEN {}
  ELSE Members(todo) \cup (IF pc = "controls" THEN {}
                           ELSE Asked(inputs) \cup Members(request.controls))
Served(p) == \E c \in Cuts(p) : c \in merged \/ c = path
Progress  == outcome \in {"running", "adapted"} => \A p \in Wanted : p \in Ahead \/ Served(p)
Idle      == /\ pc \notin {"paths", "controls"} => todo = <<>>
             /\ outcome = "running" <=> pc # "done"

KeepInv == TypeOK /\ Reached /\ MergedKept /\ Progress /\ Idle

LEMMA TypeParts ==
  ASSUME TypeOK
  PROVE  /\ heap \in Heap /\ used \subseteq Dicts /\ Root \in used /\ node \in used
         /\ \A d \in Dicts, k \in Keys : heap[d][k] \in used \cup {Absent, Whole, Elements}
         /\ \A d \in Dicts, k \in Keys : d \notin used => heap[d][k] = Absent
         /\ path # <<>> => path \in Paths /\ at \in DOMAIN path
BY DEF TypeOK, Context, Heap

LEMMA ContextGrows ==
  ASSUME TypeOK, NEW n \in used, NEW s \in Keys, NEW u, used \subseteq u, u \subseteq Dicts,
         NEW v \in u \cup {Absent, Whole, Elements}
  PROVE  [heap |-> With(heap, n, s, v), used |-> u] \in Context
<1> DEFINE w == With(heap, n, s, v)
<1>1. v \in Entries /\ n \in Dicts /\ heap \in Heap /\ Root \in u
  BY TypeParts DEF Entries
<1>2. w \in Heap
  BY <1>1, WithTyped
<1>3. ASSUME NEW d \in Dicts, NEW k \in Keys
      PROVE  /\ d \notin u => w[d][k] = Absent
             /\ w[d][k] \in u \cup {Absent, Whole, Elements}
  <2>1. w[d][k] = IF d = n /\ k = s THEN v ELSE heap[d][k]
    BY <1>1, WithTyped
  <2> QED BY <2>1, TypeParts
<1> QED BY <1>1, <1>2, <1>3 DEF Context, Heap

LEMMA HeadTailMembers ==
  ASSUME NEW S, NEW s \in Seq(S), s # <<>>
  PROVE  /\ Head(s) \in S /\ Tail(s) \in Seq(S)
         /\ Members(s) = {Head(s)} \cup Members(Tail(s))
<1>1. Head(s) \in S /\ Tail(s) \in Seq(S) /\ Len(Tail(s)) = Len(s) - 1
      /\ \A i \in 1 .. Len(Tail(s)) : Tail(s)[i] = s[i + 1]
  BY HeadTailProperties
<1>2. Head(s) = s[1] /\ DOMAIN s = 1 .. Len(s) /\ Len(s) \in Nat /\ Len(s) # 0
      /\ DOMAIN Tail(s) = 1 .. Len(Tail(s))
  BY <1>1
<1>3. ASSUME NEW i \in DOMAIN s PROVE s[i] \in {Head(s)} \cup Members(Tail(s))
  <2>1. CASE i = 1
    BY <2>1, <1>2
  <2>2. CASE i # 1
    <3>1. i - 1 \in DOMAIN Tail(s) /\ Tail(s)[i - 1] = s[i]
      BY <2>2, <1>1, <1>2
    <3> QED BY <3>1 DEF Members
  <2> QED BY <2>1, <2>2
<1>4. ASSUME NEW i \in DOMAIN Tail(s) PROVE Tail(s)[i] \in Members(s)
  <2>1. i + 1 \in DOMAIN s /\ Tail(s)[i] = s[i + 1]
    BY <1>1, <1>2
  <2> QED BY <2>1 DEF Members
<1>5. Head(s) \in Members(s)
  BY <1>2 DEF Members
<1> QED BY <1>1, <1>3, <1>4, <1>5 DEF Members

LEMMA WantedPaths ==
  ASSUME request \in Request
  PROVE  Wanted \subseteq Paths
<1>1. request.controls \in Seq(Paths) /\ request.inputs \in Seq(Input)
  BY DEF Request
<1>2. Members(request.controls) \subseteq Paths
  BY <1>1 DEF Members
<1>3. ASSUME NEW i \in Members(request.inputs) PROVE Members(i.paths) \subseteq Paths
  <2>1. i \in Input
    BY <1>1 DEF Members
  <2> QED BY <2>1 DEF Input, Members
<1> QED BY <1>2, <1>3 DEF Wanted, Asked

LEMMA KeepInit == Init => KeepInv
<1> SUFFICES ASSUME Init PROVE KeepInv
  OBVIOUS
<1>1. request \in Request
  BY RequestAssumption DEF Init
<1>2. request.derived \in Context /\ request.inputs \in Seq(Input)
  BY <1>1 DEF Request
<1>3. [heap |-> heap, used |-> used] = request.derived
  BY <1>2 DEF Init, Context
<1>4. TypeOK
  BY <1>1, <1>2, <1>3 DEF TypeOK, Init, Context
<1>5. Progress
  BY DEF Progress, Init, Wanted, Ahead
<1> QED BY <1>4, <1>5 DEF KeepInv, Init, Reached, MergedKept, Idle

-----------------------------------------------------------------------------
(* The steps around _keep_path leave the spec as it is.                    *)

LEMMA Unmerged ==
  ASSUME KeepInv, UNCHANGED <<request, heap, used, merged>>,
         UNCHANGED <<path, at, node>>
  PROVE  Reached' /\ MergedKept' /\ Wanted' = Wanted /\ \A p : Served(p) => Served(p)'
BY DEF KeepInv, Reached, MergedKept, Wanted, Asked, Served, Trails, Before, Kept

LEMMA ConstructKeeps ==
  ASSUME KeepInv, Construct PROVE KeepInv'
<1> USE DEF Construct, Finish, Proceed, spec, place
<1>1. TypeOK' /\ Idle'
  <2>1. /\ pc = "construct"
        /\ \/ pc' = "done" /\ outcome' = "TypeError"
           \/ pc' = "check" /\ outcome' = outcome
        /\ UNCHANGED <<request, heap, used, inputs, todo, path, at, node, merged>>
    OBVIOUS
  <2> QED BY <2>1 DEF KeepInv, TypeOK, Idle
<1>2. Reached' /\ MergedKept' /\ Wanted' = Wanted /\ \A p : Served(p) => Served(p)'
  BY Unmerged
<1>3. Progress'
  BY <1>2 DEF KeepInv, Progress, Ahead, Idle, Asked
<1> QED BY <1>1, <1>2, <1>3 DEF KeepInv

LEMMA CheckKeeps ==
  ASSUME KeepInv, Check PROVE KeepInv'
<1> USE DEF Check, Finish, Proceed, spec, place
<1>1. TypeOK' /\ Idle'
  <2>1. /\ pc = "check"
        /\ \/ pc' = "done" /\ outcome' = "ValueError"
           \/ pc' = "fields" /\ outcome' = outcome
        /\ UNCHANGED <<request, heap, used, inputs, todo, path, at, node, merged>>
    OBVIOUS
  <2> QED BY <2>1 DEF KeepInv, TypeOK, Idle
<1>2. Reached' /\ MergedKept' /\ Wanted' = Wanted /\ \A p : Served(p) => Served(p)'
  BY Unmerged
<1>3. Progress'
  BY <1>2 DEF KeepInv, Progress, Ahead, Idle, Asked
<1> QED BY <1>1, <1>2, <1>3 DEF KeepInv

LEMMA FieldKeeps ==
  ASSUME KeepInv, NextField PROVE KeepInv'
<1> USE DEF NextField, Proceed, spec, place
<1>1. /\ inputs \in Seq(Input) /\ Head(inputs) \in Input /\ Tail(inputs) \in Seq(Input)
      /\ Members(inputs) = {Head(inputs)} \cup Members(Tail(inputs))
  BY HeadTailMembers DEF KeepInv, TypeOK
<1>2. TypeOK' /\ Idle'
  BY <1>1 DEF KeepInv, TypeOK, Idle, Input
<1>3. Reached' /\ MergedKept' /\ Wanted' = Wanted /\ \A p : Served(p) => Served(p)'
  BY Unmerged
<1>4. ASSUME NEW p \in Ahead PROVE p \in Ahead'
  <2>1. Members(todo) = {}
    BY DEF KeepInv, Idle, Members
  <2>2. p \in Asked(inputs) \/ p \in Members(request.controls)
    BY <2>1 DEF Ahead
  <2>3. CASE p \in Members(request.controls)
    BY <2>3 DEF Ahead
  <2>4. CASE p \in Asked(inputs)
    <3>1. PICK i \in Members(inputs) : i.field \in request.retained /\ p \in Members(i.paths)
      BY <2>4 DEF Asked
    <3>2. CASE i = Head(inputs)
      BY <3>1, <3>2 DEF Ahead
    <3>3. CASE i \in Members(Tail(inputs))
      <4>1. p \in Asked(Tail(inputs))
        BY <3>1, <3>3 DEF Asked
      <4>2. p \in Asked(inputs)'
        BY <4>1 DEF Asked
      <4> QED BY <4>2 DEF Ahead
    <3> QED BY <1>1, <3>2, <3>3
  <2> QED BY <2>2, <2>3, <2>4
<1>5. Progress'
  BY <1>3, <1>4 DEF KeepInv, Progress
<1> QED BY <1>2, <1>3, <1>5 DEF KeepInv

LEMMA ControlsKeeps ==
  ASSUME KeepInv, Controls PROVE KeepInv'
<1> USE DEF Controls, Proceed, spec, place
<1>1. TypeOK' /\ Idle'
  BY DEF KeepInv, TypeOK, Idle, Request
<1>2. Reached' /\ MergedKept' /\ Wanted' = Wanted /\ \A p : Served(p) => Served(p)'
  BY Unmerged
<1>3. ASSUME NEW p \in Ahead PROVE p \in Ahead'
  <2>1. Members(todo) = {} /\ Asked(inputs) = {}
    BY DEF KeepInv, Idle, Members, Asked
  <2> QED BY <2>1 DEF Ahead
<1>4. Progress'
  BY <1>2, <1>3 DEF KeepInv, Progress
<1> QED BY <1>1, <1>2, <1>4 DEF KeepInv

LEMMA EndKeeps ==
  ASSUME KeepInv, PathsEnd PROVE KeepInv'
<1> USE DEF PathsEnd, Finish, Proceed, spec, place, Between
<1>1. TypeOK' /\ Idle'
  <2>1. /\ \/ pc = "paths" /\ pc' = "fields" /\ outcome' = outcome
           \/ pc = "controls" /\ pc' = "done" /\ outcome' = "adapted"
        /\ todo = <<>> /\ path = <<>>
        /\ UNCHANGED <<request, heap, used, inputs, todo, path, at, node, merged>>
    OBVIOUS
  <2> QED BY <2>1 DEF KeepInv, TypeOK, Idle
<1>2. Reached' /\ MergedKept' /\ Wanted' = Wanted /\ \A p : Served(p) => Served(p)'
  BY Unmerged
<1>3. Members(todo) = {}
  BY DEF Members
<1>4. Ahead' = Ahead
  BY <1>3 DEF Ahead, Asked
<1>5. Progress'
  BY <1>2, <1>4 DEF KeepInv, Progress, Idle
<1> QED BY <1>1, <1>2, <1>5 DEF KeepInv

LEMMA NextPathKeeps ==
  ASSUME KeepInv, NextPath PROVE KeepInv'
<1> USE DEF NextPath, Proceed, spec, Between
<1>1. /\ todo \in Seq(Paths) /\ Head(todo) \in Paths /\ Tail(todo) \in Seq(Paths)
      /\ Members(todo) = {Head(todo)} \cup Members(Tail(todo))
  BY HeadTailMembers DEF KeepInv, TypeOK
<1>2. path' \in Paths /\ path' # <<>> /\ 1 \in DOMAIN path'
  <2>1. path' \in Paths
    BY <1>1, CutsArePaths
  <2>2. PICK q \in Paths : q = path'
    BY <2>1
  <2> QED BY <2>2, PathFacts
<1>3. TypeOK' /\ Idle'
  BY <1>1, <1>2, TypeParts DEF KeepInv, TypeOK, Idle
<1>4. Reached'
  <2>1. [j \in 1 .. 0 |-> Whole] \in Trails(heap, path, at - 1)'
    BY DEF Trails
  <2> QED BY <2>1 DEF Reached, Before
<1>5. MergedKept' /\ Wanted' = Wanted
  BY DEF KeepInv, MergedKept, Kept, Trails, Before, Wanted, Asked
<1>6. ASSUME NEW p \in Wanted PROVE p \in Ahead' \/ Served(p)'
  <2>1. p \in Paths /\ p # <<>> /\ (p \in Ahead \/ Served(p))
    BY WantedPaths, PathFacts DEF KeepInv, Progress, TypeOK, Idle
  <2>2. CASE Served(p)
    <3>1. PICK c \in Cuts(p) : c \in merged \/ c = path
      BY <2>2 DEF Served
    <3>2. c # <<>>
      BY <2>1, <3>1, CutsArePaths, PathFacts
    <3> QED BY <3>1, <3>2 DEF Served
  <2>3. CASE p = Head(todo)
    BY <2>3 DEF Served
  <2>4. CASE p \in Ahead /\ p # Head(todo)
    BY <2>4, <1>1 DEF Ahead, Asked
  <2> QED BY <2>1, <2>2, <2>3, <2>4
<1>7. Progress'
  BY <1>5, <1>6 DEF Progress
<1> QED BY <1>3, <1>4, <1>5, <1>7 DEF KeepInv

-----------------------------------------------------------------------------
(* _keep_path.                                                             *)

LEMMA PlaceFacts ==
  ASSUME KeepInv, path # <<>>
  PROVE  /\ path \in Paths /\ at \in 1 .. Len(path) /\ Len(path) \in Nat
         /\ seg \in Keys /\ node \in used /\ used \subseteq Dicts /\ Root \in Dicts
         /\ heap \in Heap /\ child = heap[node][seg]
         /\ child \in used \cup {Absent, Whole, Elements}
         /\ pc \in {"paths", "controls"} /\ outcome = "running"
         /\ \E t \in Trails(heap, path, at - 1) : Before(t, at) = node
BY TypeParts, PathFacts DEF KeepInv, TypeOK, Reached, Idle, seg, child

(* Whoever is served stays so when _keep_path goes on and when it returns. *)
LEMMA StillServed ==
  ASSUME KeepInv, path # <<>>, Turn, merged \subseteq merged',
         path' = path \/ path \in merged'
  PROVE  Progress' /\ Idle'
<1>1. Wanted' = Wanted /\ Ahead' = Ahead
  BY DEF Turn, Wanted, Ahead, Asked
<1>2. \A p : Served(p) => Served(p)'
  BY DEF Served
<1> QED BY <1>1, <1>2 DEF KeepInv, Progress, Idle, Turn

(* It returns with its path kept.                                          *)
LEMMA Returning ==
  ASSUME KeepInv, path # <<>>, Return, heap' \in {heap, With(heap, node, seg, Whole)},
         heap'[node][seg] = Whole
  PROVE  KeepInv'
<1> USE DEF Return, Turn
<1>1. heap' = With(heap, node, seg, Whole)
  <2>1. CASE heap' = heap
    <3>1. With(heap, node, seg, Whole) \in Heap
      BY PlaceFacts, WithTyped DEF Entries
    <3>2. \A d \in Dicts, k \in Keys : With(heap, node, seg, Whole)[d][k] = heap[d][k]
      <4>1. heap[node][seg] = Whole
        BY <2>1
      <4> QED BY <4>1, PlaceFacts, WithTyped DEF Entries
    <3>3. heap = With(heap, node, seg, Whole)
      BY <3>1, <3>2, PlaceFacts DEF Heap
    <3> QED BY <2>1, <3>3
  <2> QED BY <2>1
<1>2. [heap |-> heap', used |-> used'] \in Context
  BY <1>1, PlaceFacts, ContextGrows DEF KeepInv
<1>3. TypeOK'
  BY <1>2, PlaceFacts DEF KeepInv, TypeOK
<1>4. \A p \in Paths : Kept(heap, p) => Kept(heap', p)
  BY <1>1, PlaceFacts, KeptStays DEF Entries
<1>5. Kept(heap', path)
  <2>1. PICK t \in Trails(heap, path, at - 1) : Before(t, at) = node
    BY PlaceFacts
  <2> DEFINE u == Widened(t, path, node, seg, at - 1)
  <2>2. u \in Trails(heap', path, at - 1)
    BY <1>1, <2>1, PlaceFacts, TrailWidens
  <2>3. at \in 1 .. Len(path) /\ Len(path) \in Nat /\ t \in [1 .. at - 1 -> Dicts \cup {Whole}]
    BY PlaceFacts DEF Trails
  <2>4. heap' \in Heap
    BY <1>1, PlaceFacts, WithTyped DEF Entries
  <2>5. Before(u, at) = node \/ Before(u, at) = Whole
    BY <2>1, <2>3 DEF Before, Widened
  <2> QED BY <2>2, <2>4, <2>5, PlaceFacts, ReachedIsKept DEF seg
<1>6. MergedKept'
  BY <1>4, <1>5 DEF KeepInv, MergedKept, TypeOK
<1>7. Progress' /\ Idle'
  BY StillServed
<1> QED BY <1>3, <1>6, <1>7 DEF KeepInv, Reached

LEMMA LastKeeps ==
  ASSUME KeepInv, Last PROVE KeepInv'
<1>1. path # <<>> /\ Return /\ heap' = With(heap, node, seg, Whole)
  BY DEF Last, Put, With
<1>2. heap'[node][seg] = Whole
  BY <1>1, PlaceFacts, WithTyped DEF Entries
<1> QED BY <1>1, <1>2, Returning

LEMMA WidenKeeps ==
  ASSUME KeepInv, Widen PROVE KeepInv'
<1>1. path # <<>> /\ Return /\ heap' = With(heap, node, seg, Whole)
  BY DEF Widen, Inside, Put, With
<1>2. heap'[node][seg] = Whole
  BY <1>1, PlaceFacts, WithTyped DEF Entries
<1> QED BY <1>1, <1>2, Returning

LEMMA KeptAlreadyKeeps ==
  ASSUME KeepInv, KeptAlready PROVE KeepInv'
<1>1. path # <<>> /\ Return /\ heap' = heap /\ heap[node][seg] = Whole
  BY DEF KeptAlready, Inside, child
<1> QED BY <1>1, Returning

LEMMA DescendKeeps ==
  ASSUME KeepInv, Descend PROVE KeepInv'
<1> USE DEF Descend, Into, Turn, Inside, spec
<1>1. child \in used /\ child \in Dicts /\ at + 1 \in DOMAIN path /\ path \in Paths
  BY PlaceFacts, PathFacts, EntryAssumption
<1>2. TypeOK'
  BY <1>1 DEF KeepInv, TypeOK
<1>3. Reached'
  <2>1. PICK t \in Trails(heap, path, at - 1) : Before(t, at) = node
    BY PlaceFacts
  <2>2. \E u \in Trails(heap, path, at) : Before(u, at + 1) = child
    BY <1>1, <2>1, PlaceFacts, TrailGoesOn DEF seg
  <2>3. at' - 1 = at /\ at' = at + 1 /\ heap' = heap /\ path' = path /\ node' = child
    BY PlaceFacts
  <2> QED BY <2>2, <2>3 DEF Reached
<1>4. MergedKept'
  BY DEF KeepInv, MergedKept, Kept, Trails, Before
<1>5. Progress' /\ Idle'
  BY StillServed
<1> QED BY <1>2, <1>3, <1>4, <1>5 DEF KeepInv

LEMMA CreateKeeps ==
  ASSUME KeepInv, Create PROVE KeepInv'
<1> USE DEF Create, Into, Turn, Inside
<1>1. PICK new \in Dicts : /\ new \notin used /\ heap' = With(heap, node, seg, new)
                           /\ used' = used \cup {new} /\ Into(new)
  <2>1. \E d \in Dicts : d \notin used
    BY TypeParts DEF KeepInv
  <2> QED BY <2>1 DEF Put, With
<1>2. /\ at + 1 \in DOMAIN path /\ path \in Paths
      /\ heap[node][seg] \notin Dicts \cup {Whole} /\ new \in Entries
  BY PlaceFacts, PathFacts, EntryAssumption DEF Entries
<1>3. [heap |-> heap', used |-> used'] \in Context
  BY <1>1, PlaceFacts, ContextGrows DEF KeepInv
<1>4. TypeOK'
  BY <1>1, <1>2, <1>3 DEF KeepInv, TypeOK
<1>5. Reached'
  <2>1. PICK t \in Trails(heap, path, at - 1) : Before(t, at) = node
    BY PlaceFacts
  <2>2. t \in Trails(heap', path, at - 1)
    BY <1>1, <1>2, <2>1, PlaceFacts, TrailStays
  <2>3. heap' \in Heap /\ heap'[node][seg] = new
    BY <1>1, <1>2, PlaceFacts, WithTyped
  <2>4. \E u \in Trails(heap', path, at) : Before(u, at + 1) = new
    BY <1>2, <2>1, <2>2, <2>3, PlaceFacts, TrailGoesOn DEF seg
  <2>5. at' - 1 = at /\ at' = at + 1 /\ path' = path /\ node' = new
    BY <1>1, PlaceFacts
  <2> QED BY <2>4, <2>5 DEF Reached
<1>6. MergedKept'
  BY <1>1, <1>2, PlaceFacts, KeptStays DEF KeepInv, MergedKept, TypeOK
<1>7. Progress' /\ Idle'
  BY <1>1, StillServed
<1> QED BY <1>4, <1>5, <1>6, <1>7 DEF KeepInv

-----------------------------------------------------------------------------
(* The theorems.                                                           *)

LEMMA NextKeeps == KeepInv /\ [Next]_vars => KeepInv'
<1> SUFFICES ASSUME KeepInv, [Next]_vars PROVE KeepInv'
  OBVIOUS
<1>1. CASE UNCHANGED vars
  BY <1>1 DEF vars, KeepInv, TypeOK, Reached, MergedKept, Progress, Idle, Ahead, Served,
              Wanted, Asked, Kept, Trails, Before
<1>2. CASE Over
  BY <1>1, <1>2 DEF Over
<1> QED
  BY <1>1, <1>2, ConstructKeeps, CheckKeeps, FieldKeeps, ControlsKeeps, NextPathKeeps, EndKeeps,
     KeptAlreadyKeeps, CreateKeeps, WidenKeeps, DescendKeeps, LastKeeps DEF Next

(* In every state of an adapter the path being merged has led to its node, *)
(* and every path it owes is kept or still to come.                        *)
THEOREM AdapterConsistent == Spec => []KeepInv
BY KeepInit, NextKeeps, PTL DEF Spec

(* Every variable of an adapter keeps its type, for every derived spec.    *)
THEOREM AdapterTyped == Spec => []TypeOK
<1>1. KeepInv => TypeOK
  BY DEF KeepInv
<1> QED BY <1>1, AdapterConsistent, PTL

(* An adapter that returns has kept every path its retained fields name    *)
(* and its controls, whatever the order and however dicts are shared.      *)
THEOREM KeepsEveryPath == Spec => []EveryPathKept
<1>1. KeepInv => EveryPathKept
  <2> SUFFICES ASSUME KeepInv, outcome = "adapted", NEW p \in Wanted
               PROVE  \E c \in Cuts(p) : Kept(heap, c)
    BY DEF EveryPathKept
  <2>1. pc = "done" /\ path = <<>> /\ Ahead = {}
    BY DEF KeepInv, Idle, TypeOK, Ahead
  <2>2. PICK c \in Cuts(p) : c \in merged \/ c = path
    BY <2>1 DEF KeepInv, Progress, Served
  <2>3. c # <<>>
    BY <2>2, WantedPaths, CutsArePaths, PathFacts DEF KeepInv, TypeOK
  <2> QED BY <2>1, <2>2, <2>3 DEF KeepInv, MergedKept
<1> QED BY <1>1, AdapterConsistent, PTL

(* No step of an adapter makes the spec keep less than it kept.            *)
THEOREM ForgetsNothing == Spec => NothingForgotten
<1>1. KeepInv /\ [Next]_vars => [\A p \in Paths : Kept(heap, p) => Kept(heap', p)]_heap
  <2> SUFFICES ASSUME KeepInv, Next, heap' # heap, NEW p \in Paths, Kept(heap, p)
               PROVE  Kept(heap', p)
    BY DEF vars
  <2>1. path # <<>> /\ (Create \/ Widen \/ Last)
    BY DEF Next, Construct, Check, NextField, Controls, NextPath, PathsEnd, KeptAlready, Descend,
           Over, vars, Finish, Proceed, spec, Create, Widen, Last, Inside
  <2>2. CASE Create
    <3>1. PICK new \in Dicts : heap' = With(heap, node, seg, new)
      <4>1. \E d \in Dicts : d \notin used
        BY <2>2, TypeParts DEF KeepInv, Create
      <4> QED BY <2>2, <4>1 DEF Create, Put, With
    <3>2. heap[node][seg] \notin Dicts \cup {Whole}
      BY <2>2, EntryAssumption DEF Create, child
    <3> QED BY <2>1, <3>1, <3>2, PlaceFacts, KeptStays DEF Entries
  <2>3. CASE Widen \/ Last
    BY <2>1, <2>3, PlaceFacts, KeptStays DEF Widen, Last, Put, With, Entries
  <2> QED BY <2>1, <2>2, <2>3
<1> QED BY <1>1, AdapterConsistent, PTL DEF Spec, NothingForgotten

-----------------------------------------------------------------------------
(* Merging as a set.  A trail is the same for every path that starts with  *)
(* the same keys.                                                          *)
Start(t, n) == [j \in 1 .. n |-> t[j]]

LEMMA TrailStart ==
  ASSUME NEW h \in Heap, NEW p, NEW q, NEW m \in Nat, NEW n \in 0 .. m,
         NEW t \in Trails(h, q, m), \A j \in 1 .. n : p[j] = q[j]
  PROVE  /\ Start(t, n) \in Trails(h, p, n)
         /\ \A j \in 1 .. n + 1 : Before(Start(t, n), j) = Before(t, j)
<1>1. t \in [1 .. m -> Dicts \cup {Whole}]
  BY DEF Trails
<1>2. Start(t, n) \in [1 .. n -> Dicts \cup {Whole}]
  BY <1>1 DEF Start
<1>3. ASSUME NEW j \in 1 .. n + 1 PROVE Before(Start(t, n), j) = Before(t, j)
  <2>1. j # 1 => j - 1 \in 1 .. n
    OBVIOUS
  <2> QED BY <2>1 DEF Before, Start
<1>4. ASSUME NEW j \in 1 .. n
      PROVE  Start(t, n)[j] = IF Before(Start(t, n), j) = Whole THEN Whole
                              ELSE h[Before(Start(t, n), j)][p[j]]
  <2>1. t[j] = IF Before(t, j) = Whole THEN Whole ELSE h[Before(t, j)][q[j]]
    BY DEF Trails
  <2>2. Start(t, n)[j] = t[j] /\ p[j] = q[j]
    BY DEF Start
  <2>3. Before(Start(t, n), j) = Before(t, j)
    BY <1>3
  <2> QED BY <2>1, <2>2, <2>3
<1> QED BY <1>2, <1>3, <1>4 DEF Trails

LEMMA PrefixIsKept ==
  ASSUME NEW h \in Heap, Root \in Dicts, NEW p \in Paths, NEW q \in Paths, NEW n, Runs(p, q, n),
         NEW m \in Nat, n <= m, NEW t \in Trails(h, q, m), t[n] = Whole
  PROVE  Kept(h, p)
<1>1. n \in 1 .. Len(p) /\ n \in Nat /\ n - 1 \in 0 .. m /\ n \in 1 .. m /\ (n - 1) + 1 = n
  BY PathFacts DEF Runs
<1>2. \A j \in 1 .. n - 1 : p[j] = q[j]
  BY <1>1 DEF Runs
<1>3. /\ Start(t, n - 1) \in Trails(h, p, n - 1)
      /\ Before(Start(t, n - 1), n) = Before(t, n)
  BY <1>1, <1>2, TrailStart
<1>4. Before(t, n) = Whole \/ h[Before(t, n)][q[n]] = Whole
  BY <1>1 DEF Trails
<1>5. p[n] = q[n]
  BY <1>1 DEF Runs
<1> QED BY <1>1, <1>3, <1>4, <1>5, ReachedIsKept

(* A trail that stands in a dict came through dicts.                       *)
LEMMA TrailBack ==
  ASSUME NEW h \in Heap, Root \in Dicts, NEW p \in Paths, NEW m \in Nat, NEW t \in Trails(h, p, m),
         NEW j \in 1 .. m, t[j] \in Dicts
  PROVE  Before(t, j) \in Dicts /\ h[Before(t, j)][p[j]] = t[j]
<1>1. t[j] = IF Before(t, j) = Whole THEN Whole ELSE h[Before(t, j)][p[j]]
  BY DEF Trails
<1>2. Before(t, j) \in Dicts \cup {Whole}
  BY DEF Trails, Before
<1> QED BY <1>1, <1>2, EntryAssumption

(* In a tree a dict has one address.                                       *)
Together(c, t, p, r, j, i, k) ==
  /\ Before(c, j - k) = Before(t, i - k) /\ Before(c, j - k) \in Dicts
  /\ k > 0 => p[j - k] = r[i - k]

LEMMA SameTail ==
  ASSUME NEW h \in Heap, IsTree(h), Root \in Dicts, NEW p \in Paths, NEW r \in Paths,
         NEW j \in 1 .. Len(p), NEW i \in 1 .. Len(r),
         NEW c \in Trails(h, p, j - 1), NEW t \in Trails(h, r, i - 1),
         Before(c, j) = Before(t, i), Before(c, j) \in Dicts
  PROVE  \A k \in Nat : k < j /\ k < i => Together(c, t, p, r, j, i, k)
<1> DEFINE T == { k \in Nat : k < j /\ k < i /\ ~Together(c, t, p, r, j, i, k) }
<1> SUFFICES ASSUME T # {} PROVE FALSE
  OBVIOUS
<1>0. j \in Nat /\ i \in Nat /\ j - 1 \in Nat /\ i - 1 \in Nat
  BY PathFacts
<1>1. PICK k \in T : \A l \in T : k <= l
  <2>1. T \in SUBSET Nat
    OBVIOUS
  <2> HIDE DEF T
  <2> QED BY <2>1, Least
<1>2. k # 0
  BY <1>0 DEF Together
<1>3. k - 1 \in Nat /\ k - 1 < j /\ k - 1 < i /\ k - 1 \notin T
  BY <1>0, <1>1, <1>2
<1>4. Together(c, t, p, r, j, i, k - 1)
  BY <1>3
<1>5. PICK x \in 1 .. j - 1, y \in 1 .. i - 1 :
        x = j - k /\ y = i - k /\ j - (k - 1) = x + 1 /\ i - (k - 1) = y + 1
  BY <1>0, <1>2
<1>6. Before(c, x + 1) = c[x] /\ Before(t, y + 1) = t[y]
  BY <1>0, <1>5 DEF Before
<1>7. c[x] = t[y] /\ c[x] \in Dicts
  BY <1>4, <1>5, <1>6 DEF Together
<1>8. /\ Before(c, x) \in Dicts /\ h[Before(c, x)][p[x]] = c[x]
      /\ Before(t, y) \in Dicts /\ h[Before(t, y)][r[y]] = t[y]
  BY <1>0, <1>7, TrailBack
<1>9. p[x] \in Keys /\ r[y] \in Keys
  BY <1>0, PathFacts
<1>10. Before(c, x) = Before(t, y) /\ p[x] = r[y]
  BY <1>7, <1>8, <1>9 DEF IsTree
<1> QED BY <1>5, <1>8, <1>10 DEF Together

LEMMA NotLonger ==
  ASSUME NEW h \in Heap, IsTree(h), Root \in Dicts, NEW p \in Paths, NEW r \in Paths,
         NEW j \in 1 .. Len(p), NEW i \in 1 .. Len(r),
         NEW c \in Trails(h, p, j - 1), NEW t \in Trails(h, r, i - 1),
         Before(c, j) = Before(t, i), Before(c, j) \in Dicts
  PROVE  i <= j
<1> SUFFICES ASSUME j < i PROVE FALSE
  BY PathFacts
<1>0. j \in Nat /\ i \in Nat /\ j - 1 \in Nat /\ i - 1 \in Nat /\ j - 1 < j /\ j - 1 < i
  BY PathFacts
<1>1. Together(c, t, p, r, j, i, j - 1)
  BY <1>0, SameTail
<1>2. PICK y \in 1 .. i - 1 : y = i - j /\ i - (j - 1) = y + 1 /\ j - (j - 1) = 1
  BY <1>0
<1>3. Before(c, 1) = Root /\ Before(t, y + 1) = t[y]
  BY <1>0, <1>2 DEF Before
<1>4. t[y] = Root
  BY <1>1, <1>2, <1>3 DEF Together
<1>5. Before(t, y) \in Dicts /\ h[Before(t, y)][r[y]] = Root
  BY <1>0, <1>4, TrailBack
<1>6. r[y] \in Keys
  BY <1>0, PathFacts
<1> QED BY <1>5, <1>6 DEF IsTree

LEMMA SameAddress ==
  ASSUME NEW h \in Heap, IsTree(h), Root \in Dicts, NEW p \in Paths, NEW r \in Paths,
         NEW j \in 1 .. Len(p), NEW i \in 1 .. Len(r),
         NEW c \in Trails(h, p, j - 1), NEW t \in Trails(h, r, i - 1),
         Before(c, j) = Before(t, i), Before(c, j) \in Dicts
  PROVE  j = i /\ \A l \in 1 .. i - 1 : p[l] = r[l]
<1>0. j \in Nat /\ i \in Nat
  BY PathFacts
<1>1. i <= j /\ j <= i
  BY NotLonger
<1>2. j = i
  BY <1>0, <1>1
<1>3. ASSUME NEW l \in 1 .. i - 1 PROVE p[l] = r[l]
  <2>1. PICK k \in Nat : k = i - l /\ k < j /\ k < i /\ k > 0 /\ i - k = l
    BY <1>0, <1>2
  <2>2. Together(c, t, p, r, j, i, k)
    BY <2>1, SameTail
  <2> QED BY <1>2, <2>1, <2>2 DEF Together
<1> QED BY <1>2, <1>3

(* What an entry that becomes Whole adds runs through that entry.          *)
LEMMA WholeAdds ==
  ASSUME NEW h \in Heap, IsTree(h), Root \in Dicts, NEW r \in Paths, NEW i \in 1 .. Len(r),
         NEW t \in Trails(h, r, i - 1), Before(t, i) \in Dicts,
         NEW p \in Paths, Kept(With(h, Before(t, i), r[i], Whole), p)
  PROVE  Kept(h, p) \/ Runs(p, r, i)
<1>1. PICK n \in Dicts, s \in Keys : n = Before(t, i) /\ s = r[i]
  BY PathFacts
<1>0. Whole \in Entries
  BY DEF Entries
<1>2. PICK w \in Heap : w = With(h, n, s, Whole)
  BY <1>0, WithTyped
<1>3. \A d \in Dicts, k \in Keys : w[d][k] = IF d = n /\ k = s THEN Whole ELSE h[d][k]
  <2>1. \A d \in Dicts, k \in Keys :
          With(h, n, s, Whole)[d][k] = IF d = n /\ k = s THEN Whole ELSE h[d][k]
    BY <1>0, WithTyped
  <2> QED BY <1>2, <2>1
<1>4. PICK v \in Trails(w, p, Len(p)) : v[Len(p)] = Whole
  BY <1>1, <1>2 DEF Kept
<1>5. /\ Len(p) \in Nat /\ v \in [1 .. Len(p) -> Dicts \cup {Whole}]
      /\ \A j \in 1 .. Len(p) : p[j] \in Keys
  BY <1>4, PathFacts DEF Trails
<1>6. ASSUME NEW m \in 0 .. Len(p), \A j \in 1 .. m : ~Hits(v, p, n, s, j)
      PROVE  Start(v, m) \in Trails(h, p, m)
  <2>0. m \in Nat /\ m \in 0 .. Len(p)
    BY <1>5
  <2>1. /\ Start(v, m) \in Trails(w, p, m)
        /\ \A j \in 1 .. m + 1 : Before(Start(v, m), j) = Before(v, j)
    BY <1>2, <1>4, <1>5, <2>0, TrailStart
  <2>2. ASSUME NEW j \in 1 .. m
        PROVE  Start(v, m)[j] = IF Before(Start(v, m), j) = Whole THEN Whole
                                ELSE h[Before(Start(v, m), j)][p[j]]
    <3>1. Start(v, m)[j] = IF Before(Start(v, m), j) = Whole THEN Whole
                           ELSE w[Before(Start(v, m), j)][p[j]]
      BY <2>1 DEF Trails
    <3>2. Before(Start(v, m), j) = Before(v, j) /\ p[j] \in Keys
      BY <1>5, <2>0, <2>1
    <3>3. ~ (Before(v, j) = n /\ p[j] = s)
      BY <1>6 DEF Hits
    <3>4. Before(Start(v, m), j) \in Dicts \cup {Whole}
      BY <2>1 DEF Trails, Before
    <3> QED BY <1>3, <3>1, <3>2, <3>3, <3>4
  <2> QED BY <2>1, <2>2 DEF Trails
<1>7. CASE \A j \in 1 .. Len(p) : ~Hits(v, p, n, s, j)
  <2>1. Len(p) \in 0 .. Len(p) /\ 1 <= Len(p)
    BY PathFacts
  <2>2. Start(v, Len(p)) \in Trails(h, p, Len(p))
    BY <1>6, <1>7, <2>1
  <2>3. Start(v, Len(p))[Len(p)] = Whole
    BY <1>4, <2>1 DEF Start
  <2> QED BY <2>2, <2>3 DEF Kept
<1>8. CASE \E j \in 1 .. Len(p) : Hits(v, p, n, s, j)
  <2> DEFINE T == { j \in 1 .. Len(p) : Hits(v, p, n, s, j) }
  <2>1. PICK j \in T : \A l \in T : j <= l
    <3>1. T \in SUBSET Nat /\ T # {}
      BY <1>8
    <3> HIDE DEF T
    <3> QED BY <3>1, Least
  <2>2. /\ j \in 1 .. Len(p) /\ j - 1 \in 0 .. Len(p) /\ (j - 1) + 1 = j
        /\ j - 1 \in Nat /\ j \in 1 .. (j - 1) + 1
    BY <1>5, <2>1
  <2>3. \A l \in 1 .. j - 1 : ~Hits(v, p, n, s, l)
    BY <1>5, <2>1
  <2>4. Start(v, j - 1) \in Trails(h, p, j - 1)
    BY <1>6, <2>2, <2>3
  <2>5. Before(Start(v, j - 1), j) = Before(v, j)
    BY <1>2, <1>4, <1>5, <2>2, TrailStart
  <2>6. Before(v, j) = n /\ p[j] = s
    BY <2>1 DEF Hits
  <2>7. j = i /\ \A l \in 1 .. i - 1 : p[l] = r[l]
    BY <1>1, <2>2, <2>4, <2>5, <2>6, SameAddress
  <2>8. i \in Nat /\ i \in 1 .. Len(r) /\ DOMAIN p = 1 .. Len(p) /\ DOMAIN r = 1 .. Len(r)
    BY PathFacts
  <2>9. ASSUME NEW l \in 1 .. i PROVE p[l] = r[l]
    <3>1. l = i \/ l \in 1 .. i - 1
      BY <2>8
    <3> QED BY <1>1, <2>6, <2>7, <3>1
  <2> QED BY <2>2, <2>7, <2>8, <2>9 DEF Runs
<1> QED BY <1>7, <1>8

(* A new dict adds nothing: there is nothing in it.                        *)
LEMMA NewAdds ==
  ASSUME NEW h \in Heap, Root \in Dicts, NEW n \in Dicts, NEW s \in Keys, NEW new \in Dicts,
         new # n, \A k \in Keys : h[new][k] = Absent, new # Root,
         NEW p \in Paths, Kept(With(h, n, s, new), p)
  PROVE  Kept(h, p)
<1>0. new \in Entries
  BY DEF Entries
<1>2. PICK w \in Heap : w = With(h, n, s, new)
  BY <1>0, WithTyped
<1>3. \A d \in Dicts, k \in Keys : w[d][k] = IF d = n /\ k = s THEN new ELSE h[d][k]
  <2>1. /\ With(h, n, s, new) \in Heap
        /\ \A d \in Dicts, k \in Keys :
             With(h, n, s, new)[d][k] = IF d = n /\ k = s THEN new ELSE h[d][k]
    BY <1>0, WithTyped
  <2> QED BY <1>2, <2>1
<1>4. PICK v \in Trails(w, p, Len(p)) : v[Len(p)] = Whole
  BY <1>2 DEF Kept
<1>5. /\ Len(p) \in Nat /\ 1 <= Len(p) /\ v \in [1 .. Len(p) -> Dicts \cup {Whole}]
      /\ \A j \in 1 .. Len(p) : p[j] \in Keys
  BY <1>4, PathFacts DEF Trails
<1>6. ASSUME NEW j \in 1 .. Len(p) PROVE v[j] # new
  <2> SUFFICES ASSUME v[j] = new PROVE FALSE
    OBVIOUS
  <2>1. j # Len(p)
    BY <1>4, EntryAssumption
  <2>2. PICK l \in 1 .. Len(p) : l = j + 1 /\ l - 1 = j /\ l # 1
    BY <1>5, <2>1
  <2>3. Before(v, l) = new
    BY <2>2 DEF Before
  <2>4. v[l] = w[new][p[l]]
    BY <1>4, <2>3, EntryAssumption DEF Trails
  <2>5. v[l] = Absent
    BY <1>3, <1>5, <2>4
  <2>6. v[l] \in Dicts \cup {Whole}
    BY <1>5
  <2> QED BY <2>5, <2>6, EntryAssumption
<1>7. ASSUME NEW j \in 1 .. Len(p)
      PROVE  v[j] = IF Before(v, j) = Whole THEN Whole ELSE h[Before(v, j)][p[j]]
  <2>1. v[j] = IF Before(v, j) = Whole THEN Whole ELSE w[Before(v, j)][p[j]]
    BY <1>4 DEF Trails
  <2>2. Before(v, j) \in Dicts \cup {Whole} /\ p[j] \in Keys
    BY <1>5 DEF Before
  <2> QED BY <1>3, <1>6, <2>1, <2>2
<1>8. v \in Trails(h, p, Len(p))
  BY <1>5, <1>7 DEF Trails
<1> QED BY <1>4, <1>8 DEF Kept

LEMMA StaysATree ==
  ASSUME NEW h \in Heap, IsTree(h), Root \in Dicts, NEW n \in Dicts, NEW s \in Keys,
         NEW v \in Entries, v # Root,
         v \in Dicts => \A d \in Dicts, k \in Keys : h[d][k] # v
  PROVE  IsTree(With(h, n, s, v))
<1>1. \A d \in Dicts, k \in Keys : With(h, n, s, v)[d][k] = IF d = n /\ k = s THEN v ELSE h[d][k]
  BY WithTyped
<1>2. PICK w : w = With(h, n, s, v)
  OBVIOUS
<1>3. \A d \in Dicts, k \in Keys : w[d][k] = IF d = n /\ k = s THEN v ELSE h[d][k]
  BY <1>1, <1>2
<1>4. ASSUME NEW d \in Dicts, NEW j \in Keys
      PROVE  /\ w[d][j] # Root
             /\ w[d][j] \in Dicts =>
                  \A e \in Dicts, k \in Keys : w[e][k] = w[d][j] => e = d /\ k = j
  <2>1. w[d][j] # Root
    BY <1>3 DEF IsTree
  <2>2. ASSUME w[d][j] \in Dicts, NEW e \in Dicts, NEW k \in Keys, w[e][k] = w[d][j]
        PROVE  e = d /\ k = j
    <3>1. CASE d = n /\ j = s
      BY <1>3, <2>2, <3>1
    <3>2. CASE ~(d = n /\ j = s)
      <4>1. w[d][j] = h[d][j]
        BY <1>3, <3>2
      <4>2. ~(e = n /\ k = s)
        BY <1>3, <2>2, <4>1
      <4>3. w[e][k] = h[e][k]
        BY <1>3, <4>2
      <4> QED BY <2>2, <4>1, <4>3 DEF IsTree
    <3> QED BY <3>1, <3>2
  <2> QED BY <2>1, <2>2
<1> QED BY <1>2, <1>4 DEF IsTree

-----------------------------------------------------------------------------
(* What a spec has become since it was derived: its dicts stand where they *)
(* stood or were widened, and the others are new.                          *)
Grew(c, h) ==
  \A d \in Dicts, k \in Keys :
    /\ h[d][k] \in c.used => h[d][k] = c.heap[d][k]
    /\ h[d][k] = Elements => c.heap[d][k] = Elements
    /\ c.heap[d][k] \in Dicts    => h[d][k] \in {c.heap[d][k], Whole}
    /\ c.heap[d][k] = Whole      => h[d][k] = Whole
    /\ c.heap[d][k] = Elements   => h[d][k] \in {Elements, Whole}

(* What may be kept in the end, given the paths that are asked for.        *)
May(h, wanted, p) ==
  \/ Kept(h, p)
  \/ \E q \in wanted : Runs(p, q, Len(q))
  \/ \E q \in wanted, n \in 1 .. MaxPath : Runs(p, q, n) /\ CrossesArray(h, q, n)

WantedCuts == UNION { Cuts(p) : p \in Wanted }

(* Every path still to come is one that is asked for.                      *)
ComesFromWanted ==
  /\ Asked(inputs) \subseteq Wanted /\ Members(todo) \subseteq Wanted
  /\ path # <<>> => path \in WantedCuts

NothingElse ==
  IsTree(request.derived.heap) =>
    /\ IsTree(heap)
    /\ \A p \in Paths : Kept(heap, p) => May(request.derived.heap, WantedCuts, p)

SetInv ==
  /\ ComesFromWanted
  /\ request.derived.used \subseteq used /\ Grew(request.derived, heap)
  /\ \A p \in Paths : Kept(request.derived.heap, p) => Kept(heap, p)
  /\ NothingElse

LEMMA DerivedTyped ==
  ASSUME request \in Request
  PROVE  /\ request.derived \in Context /\ request.derived.heap \in Heap
         /\ request.derived.used \subseteq Dicts /\ Root \in Dicts
         /\ \A d \in Dicts, k \in Keys :
              d \notin request.derived.used => request.derived.heap[d][k] = Absent
BY DEF Request, Context, Heap

LEMMA SetInit == Init => SetInv
<1> SUFFICES ASSUME Init PROVE SetInv
  OBVIOUS
<1>1. request \in Request
  BY RequestAssumption DEF Init
<1>2. ComesFromWanted
  BY DEF ComesFromWanted, Init, Wanted, Members
<1>3. heap = request.derived.heap /\ used = request.derived.used
  BY DEF Init
<1>4. Grew(request.derived, heap)
  BY <1>3, EntryAssumption DEF Grew
<1> QED BY <1>2, <1>3, <1>4 DEF SetInv, NothingElse, May

(* The steps around _keep_path.                                            *)
LEMMA SetWaits ==
  ASSUME SetInv, UNCHANGED <<request, heap, used>>, ComesFromWanted'
  PROVE  SetInv'
<1>1. Wanted' = Wanted /\ WantedCuts' = WantedCuts
  BY DEF Wanted, Asked, WantedCuts
<1> QED BY <1>1 DEF SetInv, NothingElse

LEMMA SetAround ==
  ASSUME KeepInv, SetInv,
         Construct \/ Check \/ NextField \/ Controls \/ NextPath \/ PathsEnd \/ Over
         \/ UNCHANGED vars
  PROVE  SetInv'
<1> USE DEF Construct, Check, NextField, Controls, NextPath, PathsEnd, Over, Finish, Proceed,
            spec, place, vars
<1>1. UNCHANGED <<request, heap, used>>
  OBVIOUS
<1>2. Wanted' = Wanted /\ WantedCuts' = WantedCuts
  BY <1>1 DEF Wanted, Asked, WantedCuts
<1>3. \A f : Asked(f)' = Asked(f)
  BY <1>1 DEF Asked
<1>4. CASE UNCHANGED <<inputs, todo, path>>
  <2>1. ComesFromWanted'
    BY <1>1, <1>2, <1>4 DEF SetInv, ComesFromWanted, Asked
  <2> QED BY <1>1, <2>1, SetWaits
<1>5. CASE NextField
  <2>1. /\ inputs \in Seq(Input) /\ inputs # <<>>
        /\ Members(inputs) = {Head(inputs)} \cup Members(Tail(inputs))
    BY <1>5, HeadTailMembers DEF KeepInv, TypeOK
  <2>2. Asked(Tail(inputs)) \subseteq Asked(inputs)
    BY <2>1 DEF Asked
  <2>3. Asked(inputs)' \subseteq Asked(inputs)
    BY <1>1, <1>5, <2>2 DEF Asked
  <2>4. Members(todo)' \subseteq Asked(inputs)
    <3>1. CASE Head(inputs).field \in request.retained
      BY <1>5, <2>1, <3>1 DEF Asked
    <3>2. CASE Head(inputs).field \notin request.retained
      BY <1>5, <3>2 DEF Members
    <3> QED BY <3>1, <3>2
  <2>5. path' = path
    BY <1>5
  <2>6. ComesFromWanted'
    BY <1>2, <2>3, <2>4, <2>5 DEF SetInv, ComesFromWanted
  <2> QED BY <1>1, <2>6, SetWaits
<1>6. CASE Controls
  <2>1. Members(todo)' \subseteq Wanted
    BY <1>6 DEF Wanted, Members
  <2>2. UNCHANGED <<inputs, path>>
    BY <1>6
  <2>3. ComesFromWanted'
    BY <1>1, <1>2, <2>1, <2>2 DEF SetInv, ComesFromWanted, Asked
  <2> QED BY <1>1, <2>3, SetWaits
<1>7. CASE NextPath
  <2>1. Members(todo) = {Head(todo)} \cup Members(Tail(todo))
    BY <1>7, HeadTailMembers DEF KeepInv, TypeOK
  <2>2. Members(todo)' \subseteq Wanted /\ Head(todo) \in Wanted
    BY <1>7, <2>1 DEF SetInv, ComesFromWanted, Members
  <2>3. path' \in WantedCuts
    BY <1>7, <2>2 DEF WantedCuts
  <2>4. inputs' = inputs
    BY <1>7
  <2>5. ComesFromWanted'
    BY <1>1, <1>2, <2>2, <2>3, <2>4 DEF SetInv, ComesFromWanted, Asked
  <2> QED BY <1>1, <2>5, SetWaits
<1>8. UNCHANGED <<inputs, todo, path>> \/ NextField \/ Controls \/ NextPath
  OBVIOUS
<1> QED BY <1>4, <1>5, <1>6, <1>7, <1>8

(* A trail to a dict that has an array in it is one of the derived spec.   *)
LEMMA TrailOfOld ==
  ASSUME NEW c \in Context, NEW h \in Heap, Grew(c, h), Root \in Dicts, NEW p \in Paths,
         NEW i \in 1 .. Len(p), NEW t \in Trails(h, p, i - 1),
         Before(t, i) \in Dicts, NEW s \in Keys, h[Before(t, i)][s] = Elements
  PROVE  t \in Trails(c.heap, p, i - 1) /\ c.heap[Before(t, i)][s] = Elements
<1>0. i \in Nat /\ i - 1 \in Nat /\ \A j \in 1 .. Len(p) : p[j] \in Keys
  BY PathFacts
<1>1. c.heap[Before(t, i)][s] = Elements
  BY DEF Grew
<1>2. \A d \in Dicts, k \in Keys : c.heap[d][k] # Absent => d \in c.used
  BY DEF Context
<1>3. Before(t, i) \in c.used
  BY <1>1, <1>2, EntryAssumption
<1> DEFINE T == { k \in Nat : k < i /\ Before(t, i - k) \notin c.used }
<1>4. T = {}
  <2> SUFFICES ASSUME T # {} PROVE FALSE
    OBVIOUS
  <2>1. PICK k \in T : \A l \in T : k <= l
    <3>1. T \in SUBSET Nat
      OBVIOUS
    <3> HIDE DEF T
    <3> QED BY <3>1, Least
  <2>2. k # 0
    BY <1>0, <1>3, <2>1
  <2>0. k \in Nat /\ k < i
    BY <2>1
  <2>3. k - 1 \in Nat /\ k - 1 < i /\ k - 1 \notin T
    <3>1. k - 1 \in Nat /\ k - 1 < i /\ ~(k <= k - 1)
      BY <1>0, <2>0, <2>2
    <3>2. k - 1 \notin T
      <4> HIDE DEF T
      <4> QED BY <2>1, <3>1
    <3> QED BY <3>1, <3>2
  <2>4. PICK x \in 1 .. i - 1 : x = i - k /\ i - (k - 1) = x + 1
    BY <1>0, <2>0, <2>2
  <2>5. Before(t, x + 1) = t[x] /\ t[x] \in c.used
    BY <1>0, <2>3, <2>4 DEF Before
  <2>6. t[x] \in Dicts
    BY <2>5 DEF Context
  <2>7. Before(t, x) \in Dicts /\ h[Before(t, x)][p[x]] = t[x]
    BY <1>0, <2>4, <2>6, TrailBack
  <2>8. p[x] \in Keys
    BY <1>0
  <2>9. c.heap[Before(t, x)][p[x]] = t[x]
    BY <2>5, <2>7, <2>8 DEF Grew
  <2>10. Before(t, x) \in c.used
    BY <1>2, <2>6, <2>7, <2>8, <2>9, EntryAssumption
  <2> QED BY <2>1, <2>4, <2>10
<1>5. ASSUME NEW j \in 1 .. i - 1
      PROVE  t[j] = IF Before(t, j) = Whole THEN Whole ELSE c.heap[Before(t, j)][p[j]]
  <2>1. PICK k \in Nat : k = i - j /\ k < i /\ i - k = j
    BY <1>0
  <2>2. PICK l \in Nat : l = i - (j + 1) /\ l < i /\ i - l = j + 1
    BY <1>0
  <2>3. Before(t, j) \in c.used /\ Before(t, j + 1) \in c.used
    BY <1>4, <2>1, <2>2
  <2>4. Before(t, j + 1) = t[j]
    BY <1>0 DEF Before
  <2>5. t[j] \in Dicts /\ Before(t, j) \in Dicts
    BY <2>3, <2>4 DEF Context
  <2>6. h[Before(t, j)][p[j]] = t[j] /\ p[j] \in Keys
    BY <1>0, <2>5, TrailBack
  <2>7. c.heap[Before(t, j)][p[j]] = t[j]
    BY <2>3, <2>4, <2>5, <2>6 DEF Grew
  <2> QED BY <2>5, <2>7, EntryAssumption
<1>6. t \in [1 .. i - 1 -> Dicts \cup {Whole}]
  BY DEF Trails
<1> QED BY <1>1, <1>5, <1>6 DEF Trails

LEMMA GrewWith ==
  ASSUME NEW c \in Context, NEW h \in Heap, Grew(c, h), NEW n \in Dicts, NEW s \in Keys,
         NEW v \in Entries, v = Whole \/ (v \in Dicts \ c.used /\ h[n][s] = Absent)
  PROVE  Grew(c, With(h, n, s, v))
<1>1. /\ With(h, n, s, v) \in Heap
      /\ \A d \in Dicts, k \in Keys :
           With(h, n, s, v)[d][k] = IF d = n /\ k = s THEN v ELSE h[d][k]
  BY WithTyped
<1>2. PICK w : w = With(h, n, s, v)
  OBVIOUS
<1>3. \A d \in Dicts, k \in Keys : w[d][k] = IF d = n /\ k = s THEN v ELSE h[d][k]
  BY <1>1, <1>2
<1>4. c.used \subseteq Dicts
  BY DEF Context
<1>5. ASSUME NEW d \in Dicts, NEW k \in Keys
      PROVE  /\ w[d][k] \in c.used => w[d][k] = c.heap[d][k]
             /\ w[d][k] = Elements => c.heap[d][k] = Elements
             /\ c.heap[d][k] \in Dicts    => w[d][k] \in {c.heap[d][k], Whole}
             /\ c.heap[d][k] = Whole      => w[d][k] = Whole
             /\ c.heap[d][k] = Elements   => w[d][k] \in {Elements, Whole}
  <2>1. CASE d = n /\ k = s
    <3>1. w[d][k] = v
      BY <1>3, <2>1
    <3>2. CASE v = Whole
      BY <1>4, <3>1, <3>2, EntryAssumption
    <3>3. CASE v \in Dicts \ c.used /\ h[n][s] = Absent
      <4>1. c.heap[d][k] \notin Dicts /\ c.heap[d][k] # Whole /\ c.heap[d][k] # Elements
        BY <2>1, <3>3, EntryAssumption DEF Grew
      <4> QED BY <3>1, <3>3, <4>1, EntryAssumption
    <3> QED BY <3>2, <3>3
  <2>2. CASE ~(d = n /\ k = s)
    <3>1. w[d][k] = h[d][k]
      BY <1>3, <2>2
    <3> QED BY <3>1 DEF Grew
  <2> QED BY <2>1, <2>2
<1> QED BY <1>2, <1>5 DEF Grew

(* An entry of the path being merged becomes Whole.                        *)
LEMMA SetWhole ==
  ASSUME KeepInv, SetInv, path # <<>>, Return, heap' = With(heap, node, seg, Whole),
         at = Len(path) \/ (at < Len(path) /\ child = Elements)
  PROVE  SetInv'
<1> DEFINE c == request.derived
<1>0. /\ request' = request /\ used' = used /\ inputs' = inputs /\ todo' = todo
      /\ path' = <<>>
  BY DEF Return, Turn
<1>1. /\ c \in Context /\ c.heap \in Heap /\ c.used \subseteq Dicts /\ Root \in Dicts
  BY DerivedTyped DEF KeepInv, TypeOK
<1>2. Wanted' = Wanted /\ WantedCuts' = WantedCuts
  BY <1>0 DEF Wanted, Asked, WantedCuts
<1>3. ComesFromWanted'
  BY <1>0, <1>2 DEF SetInv, ComesFromWanted, Asked
<1>4. heap' \in Heap /\ node \in Dicts /\ Whole \in Entries
  BY PlaceFacts, WithTyped DEF Entries
<1>5. Grew(c, heap')
  BY <1>1, <1>4, PlaceFacts, GrewWith DEF SetInv
<1>6. \A p \in Paths : Kept(c.heap, p) => Kept(heap', p)
  BY <1>4, PlaceFacts, KeptStays DEF SetInv
<1>7. ASSUME IsTree(c.heap)
      PROVE  IsTree(heap') /\ \A p \in Paths : Kept(heap', p) => May(c.heap, WantedCuts, p)
  <2>1. IsTree(heap) /\ \A p \in Paths : Kept(heap, p) => May(c.heap, WantedCuts, p)
    BY <1>7 DEF SetInv, NothingElse
  <2>2. Whole # Root /\ Whole \notin Dicts
    BY <1>1, EntryAssumption
  <2>3. IsTree(heap')
    BY <1>4, <2>1, <2>2, PlaceFacts, StaysATree
  <2>4. PICK t \in Trails(heap, path, at - 1) : Before(t, at) = node
    BY PlaceFacts
  <2>5. ASSUME NEW p \in Paths, Kept(heap', p) PROVE May(c.heap, WantedCuts, p)
    <3>1. Kept(heap, p) \/ Runs(p, path, at)
      <4>1. seg = path[at] /\ Before(t, at) \in Dicts
        BY <1>4, <2>4 DEF seg
      <4>2. Kept(With(heap, Before(t, at), path[at], Whole), p)
        BY <2>4, <2>5, <4>1
      <4> QED BY <1>1, <2>1, <4>1, <4>2, PlaceFacts, WholeAdds
    <3>2. CASE Kept(heap, p)
      BY <2>1, <3>2
    <3>3. CASE Runs(p, path, at)
      <4>0. path \in WantedCuts
        BY DEF SetInv, ComesFromWanted
      <4>1. CASE at = Len(path)
        BY <3>3, <4>0, <4>1 DEF May
      <4>2. CASE at < Len(path) /\ child = Elements
        <5>1. heap[node][seg] = Elements /\ Grew(c, heap)
          BY <4>2, PlaceFacts DEF SetInv
        <5>2. t \in Trails(c.heap, path, at - 1) /\ c.heap[node][seg] = Elements
          BY <1>1, <1>4, <2>4, <5>1, PlaceFacts, TrailOfOld
        <5>3. CrossesArray(c.heap, path, at)
          BY <1>4, <2>4, <4>2, <5>2 DEF CrossesArray, seg
        <5>4. at \in 1 .. MaxPath
          <6>1. PICK m \in 1 .. MaxPath : path \in [1 .. m -> Keys]
            BY PlaceFacts DEF Paths
          <6>2. Len(path) = m
            BY <6>1, PathAssumption
          <6> QED BY <6>2, PlaceFacts, PathAssumption
        <5> QED BY <3>3, <4>0, <5>3, <5>4 DEF May
      <4> QED BY <4>1, <4>2
    <3> QED BY <3>1, <3>2, <3>3
  <2> QED BY <2>3, <2>5
<1>8. NothingElse'
  BY <1>0, <1>2, <1>7 DEF NothingElse
<1> QED BY <1>0, <1>3, <1>5, <1>6, <1>8 DEF SetInv

LEMMA SetCreate ==
  ASSUME KeepInv, SetInv, Create
  PROVE  SetInv'
<1> DEFINE c == request.derived
<1>0. /\ request' = request /\ inputs' = inputs /\ todo' = todo /\ path' = path /\ path # <<>>
  BY DEF Create, Into, Turn, Inside
<1>1. /\ c \in Context /\ c.heap \in Heap /\ c.used \subseteq Dicts /\ Root \in Dicts
  BY DerivedTyped DEF KeepInv, TypeOK
<1>2. Wanted' = Wanted /\ WantedCuts' = WantedCuts
  BY <1>0 DEF Wanted, Asked, WantedCuts
<1>3. ComesFromWanted'
  BY <1>0, <1>2 DEF SetInv, ComesFromWanted, Asked
<1>4. PICK new \in Dicts : /\ new \notin used /\ heap' = With(heap, node, seg, new)
                           /\ used' = used \cup {new}
  <2>1. \E d \in Dicts : d \notin used
    BY TypeParts DEF KeepInv, Create
  <2> QED BY <2>1 DEF Create, Put, With
<1>5. /\ node \in used /\ node \in Dicts /\ Root \in used /\ heap[node][seg] = Absent
      /\ new \in Entries /\ new # node /\ new # Root /\ c.used \subseteq used
      /\ new \in Dicts \ c.used
  BY <1>0, <1>4, PlaceFacts, TypeParts DEF Create, Entries, SetInv, KeepInv
<1>6. /\ \A k \in Keys : heap[new][k] = Absent
      /\ \A d \in Dicts, k \in Keys : heap[d][k] # new
  <2>1. \A d \in Dicts, k \in Keys : heap[d][k] \in used \cup {Absent, Whole, Elements}
    BY TypeParts DEF KeepInv
  <2>2. new # Absent /\ new # Whole /\ new # Elements
    BY <1>4, EntryAssumption
  <2>3. \A k \in Keys : heap[new][k] = Absent
    BY <1>4, TypeParts DEF KeepInv
  <2> QED BY <1>4, <2>1, <2>2, <2>3
<1>7. Grew(c, heap')
  BY <1>0, <1>1, <1>4, <1>5, PlaceFacts, GrewWith DEF SetInv
<1>8. \A p \in Paths : Kept(c.heap, p) => Kept(heap', p)
  <2>1. heap[node][seg] \notin Dicts \cup {Whole}
    BY <1>5, EntryAssumption
  <2> QED BY <1>0, <1>1, <1>4, <1>5, <2>1, PlaceFacts, KeptStays DEF SetInv
<1>9. ASSUME IsTree(c.heap)
      PROVE  IsTree(heap') /\ \A p \in Paths : Kept(heap', p) => May(c.heap, WantedCuts, p)
  <2>1. IsTree(heap) /\ \A p \in Paths : Kept(heap, p) => May(c.heap, WantedCuts, p)
    BY <1>9 DEF SetInv, NothingElse
  <2>2. IsTree(heap')
    BY <1>0, <1>1, <1>4, <1>5, <1>6, <2>1, PlaceFacts, StaysATree
  <2>3. ASSUME NEW p \in Paths, Kept(heap', p) PROVE Kept(heap, p)
    BY <1>0, <1>1, <1>4, <1>5, <1>6, <2>3, PlaceFacts, NewAdds
  <2> QED BY <2>1, <2>2, <2>3
<1>10. NothingElse'
  BY <1>0, <1>2, <1>9 DEF NothingElse
<1> QED BY <1>0, <1>3, <1>4, <1>5, <1>7, <1>8, <1>10 DEF SetInv

LEMMA SetKeeps ==
  ASSUME KeepInv, SetInv, [Next]_vars
  PROVE  SetInv'
<1>1. CASE KeptAlready \/ Descend
  <2>1. UNCHANGED <<request, heap, used, inputs, todo>> /\ (path' = path \/ path' = <<>>)
    BY <1>1 DEF KeptAlready, Descend, Return, Into, Turn, spec
  <2>2. Wanted' = Wanted /\ WantedCuts' = WantedCuts
    BY <2>1 DEF Wanted, Asked, WantedCuts
  <2>3. ComesFromWanted'
    BY <2>1, <2>2 DEF SetInv, ComesFromWanted, Asked
  <2> QED BY <2>1, <2>3, SetWaits
<1>2. CASE Widen \/ Last
  <2>1. /\ path # <<>> /\ Return /\ heap' = With(heap, node, seg, Whole)
        /\ at = Len(path) \/ (at < Len(path) /\ child = Elements)
    <3>1. CASE Widen
      BY <3>1 DEF Widen, Inside, Put, With
    <3>2. CASE Last
      BY <3>2 DEF Last, Put, With
    <3> QED BY <1>2, <3>1, <3>2
  <2> QED BY <2>1, SetWhole
<1> QED BY <1>1, <1>2, SetCreate, SetAround DEF Next

(* A path has one cut.                                                     *)
LEMMA OneCut ==
  ASSUME NEW p \in Paths, NEW x \in Cuts(p), NEW y \in Cuts(p)
  PROVE  x = y
<1>1. PICK m \in DOMAIN p : /\ x = SubSeq(p, 1, m) /\ \A j \in 1 .. m : p[j] # Everything
                            /\ m < Len(p) => p[m + 1] = Everything
  BY DEF Cuts
<1>2. PICK n \in DOMAIN p : /\ y = SubSeq(p, 1, n) /\ \A j \in 1 .. n : p[j] # Everything
                            /\ n < Len(p) => p[n + 1] = Everything
  BY DEF Cuts
<1>3. m \in 1 .. Len(p) /\ n \in 1 .. Len(p) /\ Len(p) \in Nat
  BY PathFacts
<1>4. ~ m < n
  <2> SUFFICES ASSUME m < n PROVE FALSE
    OBVIOUS
  <2>1. m + 1 \in 1 .. n /\ m < Len(p)
    BY <1>3
  <2> QED BY <1>1, <1>2, <2>1
<1>5. ~ n < m
  <2> SUFFICES ASSUME n < m PROVE FALSE
    OBVIOUS
  <2>1. n + 1 \in 1 .. m /\ n < Len(p)
    BY <1>3
  <2> QED BY <1>1, <1>2, <2>1
<1> QED BY <1>1, <1>2, <1>3, <1>4, <1>5

(* A path whose first keys are those of a kept path as far as an array of  *)
(* the derived spec is kept: the array was widened.                        *)
LEMMA CrossedIsKept ==
  ASSUME NEW c \in Context, c.heap \in Heap, NEW h \in Heap, Grew(c, h), Root \in Dicts,
         NEW p \in Paths, NEW q \in Paths, Kept(h, q), NEW n \in Nat, Runs(p, q, n),
         CrossesArray(c.heap, q, n)
  PROVE  Kept(h, p)
<1>1. PICK u \in Trails(h, q, Len(q)) : u[Len(q)] = Whole
  BY DEF Kept
<1>2. /\ n \in 1 .. Len(q) /\ Len(q) \in Nat /\ n < Len(q) /\ n - 1 \in Nat
      /\ \A j \in 1 .. Len(q) : q[j] \in Keys
  BY PathFacts DEF Runs, CrossesArray
<1>3. PICK t \in Trails(c.heap, q, n - 1) :
        Before(t, n) \in Dicts /\ c.heap[Before(t, n)][q[n]] = Elements
  BY DEF CrossesArray
<1>4. /\ u \in [1 .. Len(q) -> Dicts \cup {Whole}] /\ t \in [1 .. n - 1 -> Dicts \cup {Whole}]
      /\ \A j \in 1 .. Len(q) : u[j] = IF Before(u, j) = Whole THEN Whole
                                       ELSE h[Before(u, j)][q[j]]
      /\ \A j \in 1 .. n - 1 : t[j] = IF Before(t, j) = Whole THEN Whole
                                      ELSE c.heap[Before(t, j)][q[j]]
  BY <1>1, <1>3 DEF Trails
<1>5. CASE \E j \in 1 .. n : u[j] = Whole
  <2>1. PICK j \in 1 .. n : u[j] = Whole
    BY <1>5
  <2>2. Runs(p, q, j)
    BY <1>2, <2>1, PathFacts DEF Runs
  <2> QED BY <1>1, <1>2, <2>1, <2>2, PrefixIsKept
<1>6. CASE \A j \in 1 .. n : u[j] # Whole
  <2> DEFINE T == { j \in Nat : j \in 1 .. n - 1 /\ u[j] # t[j] }
  <2>1. T = {}
    <3> SUFFICES ASSUME T # {} PROVE FALSE
      OBVIOUS
    <3>1. PICK j \in T : \A l \in T : j <= l
      <4>1. T \in SUBSET Nat
        OBVIOUS
      <4> HIDE DEF T
      <4> QED BY <4>1, Least
    <3>2. j \in 1 .. n - 1 /\ u[j] # t[j] /\ j \in 1 .. Len(q) /\ j \in 1 .. n
      BY <1>2, <3>1
    <3>3. Before(u, j) = Before(t, j)
      <4>1. CASE j = 1
        BY <4>1 DEF Before
      <4>2. CASE j # 1
        <5>1. j - 1 \in Nat /\ j - 1 \in 1 .. n - 1 /\ ~(j <= j - 1)
          BY <1>2, <3>2, <4>2
        <5>2. j - 1 \notin T
          <6> HIDE DEF T
          <6> QED BY <3>1, <5>1
        <5>3. u[j - 1] = t[j - 1]
          BY <5>1, <5>2
        <5> QED BY <4>2, <5>3 DEF Before
      <4> QED BY <4>1, <4>2
    <3>4. u[j] \in Dicts /\ Before(u, j) \in Dicts
      <4>1. u[j] \in Dicts
        BY <1>4, <1>6, <3>2
      <4> QED BY <1>1, <1>2, <3>2, <4>1, TrailBack
    <3>5. u[j] = h[Before(u, j)][q[j]] /\ t[j] = c.heap[Before(u, j)][q[j]] /\ q[j] \in Keys
      BY <1>2, <1>4, <3>2, <3>3, <3>4, EntryAssumption
    <3>6. t[j] \in Dicts \cup {Whole}
      BY <1>4, <3>2
    <3>7. u[j] \in {t[j], Whole}
      BY <3>4, <3>5, <3>6 DEF Grew
    <3> QED BY <1>6, <3>2, <3>7
  <2>2. Before(u, n) = Before(t, n)
    <3>1. CASE n = 1
      BY <3>1 DEF Before
    <3>2. CASE n # 1
      <4>1. n - 1 \in Nat /\ n - 1 \in 1 .. n - 1
        BY <1>2, <3>2
      <4>2. u[n - 1] = t[n - 1]
        BY <2>1, <4>1
      <4> QED BY <3>2, <4>2 DEF Before
    <3> QED BY <3>1, <3>2
  <2>3. q[n] \in Keys /\ n \in 1 .. n
    BY <1>2
  <2>4. u[n] = h[Before(u, n)][q[n]]
    BY <1>2, <1>3, <1>4, <2>2, EntryAssumption
  <2>5. u[n] \in {Elements, Whole}
    BY <1>3, <2>2, <2>3, <2>4 DEF Grew
  <2>6. u[n] \in Dicts \cup {Whole}
    BY <1>2, <1>4
  <2> QED BY <1>6, <2>3, <2>5, <2>6, EntryAssumption
<1> QED BY <1>5, <1>6

(* Where no dict is shared and the spec is not in itself, what an adapter  *)
(* keeps depends on the set of its paths alone: what was derived, what     *)
(* runs through a path asked for, and what an array crossed by one held.   *)
THEOREM KeepsASet == Spec => []MergesAsASet
<1>1. KeepInv /\ SetInv => MergesAsASet
  <2> DEFINE c == request.derived
  <2> SUFFICES ASSUME KeepInv, SetInv, outcome = "adapted", IsTree(c.heap), NEW p \in Paths
               PROVE  Kept(heap, p) <=> May(c.heap, WantedCuts, p)
    BY DEF MergesAsASet, May, WantedCuts
  <2>1. /\ c \in Context /\ c.heap \in Heap /\ Root \in Dicts /\ heap \in Heap /\ Grew(c, heap)
        /\ Wanted \subseteq Paths
    BY DerivedTyped, TypeParts, WantedPaths DEF KeepInv, TypeOK, SetInv
  <2>2. Kept(heap, p) => May(c.heap, WantedCuts, p)
    BY DEF SetInv, NothingElse
  <2>3. ASSUME NEW q \in WantedCuts PROVE q \in Paths /\ Kept(heap, q)
    <3>1. PICK w \in Wanted : q \in Cuts(w)
      BY <2>3 DEF WantedCuts
    <3>2. pc = "done" /\ path = <<>> /\ Ahead = {}
      BY DEF KeepInv, Idle, TypeOK, Ahead
    <3>3. PICK x \in Cuts(w) : x \in merged \/ x = path
      BY <3>2 DEF KeepInv, Progress, Served
    <3>4. x # <<>> /\ x = q /\ q \in Paths
      BY <2>1, <3>1, <3>3, CutsArePaths, PathFacts, OneCut
    <3> QED BY <3>2, <3>3, <3>4 DEF KeepInv, MergedKept
  <2>4. ASSUME NEW q \in WantedCuts, Runs(p, q, Len(q)) PROVE Kept(heap, p)
    <3>1. PICK u \in Trails(heap, q, Len(q)) : u[Len(q)] = Whole
      BY <2>3 DEF Kept
    <3>2. Len(q) \in Nat /\ q \in Paths
      BY <2>3, PathFacts
    <3> QED BY <2>1, <2>4, <3>1, <3>2, PrefixIsKept
  <2>5. ASSUME NEW q \in WantedCuts, NEW n \in 1 .. MaxPath, Runs(p, q, n),
               CrossesArray(c.heap, q, n)
        PROVE  Kept(heap, p)
    <3>1. n \in Nat /\ q \in Paths /\ Kept(heap, q)
      BY <2>3, PathAssumption
    <3> QED BY <2>1, <2>5, <3>1, CrossedIsKept
  <2>6. Kept(c.heap, p) => Kept(heap, p)
    BY DEF SetInv
  <2> QED BY <2>2, <2>4, <2>5, <2>6 DEF May
<1>2. KeepInv /\ SetInv /\ [Next]_vars => SetInv'
  BY SetKeeps
<1> QED BY <1>1, <1>2, SetInit, AdapterConsistent, PTL DEF Spec
=============================================================================
