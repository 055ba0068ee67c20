-------------------------- MODULE MaterialiseProofs -------------------------
(***************************************************************************)
(* What is compiled is a copy of what an adapter returned, for every       *)
(* object it may return, every cap and every way its own code may go.      *)
(***************************************************************************)
EXTENDS Materialise, Inductions, SequenceTheorems, FiniteSetTheorems

-----------------------------------------------------------------------------
(* Sequences.                                                              *)

LEMMA SequenceIs ==
  ASSUME NEW S, NEW s \in Seq(S)
  PROVE  IsSeq(s) /\ DOMAIN s = 1 .. Len(s) /\ Len(s) \in Nat
<1>1. DOMAIN s = 1 .. Len(s) /\ Len(s) \in Nat
  BY LenProperties
<1>2. s \in Seq({ s[i] : i \in DOMAIN s })
  <2> DEFINE R == { s[i] : i \in DOMAIN s }
  <2>1. s \in [1 .. Len(s) -> R]
    BY <1>1, SeqDef
  <2> QED BY <1>1, <2>1, SeqDef
<1> QED BY <1>1, <1>2 DEF IsSeq

LEMMA Indices ==
  ASSUME NEW s, IsSeq(s)
  PROVE  /\ Len(s) \in Nat /\ DOMAIN s = 1 .. Len(s)
         /\ s = <<>> <=> Len(s) = 0
<1> DEFINE S == { s[i] : i \in DOMAIN s }
<1>1. s \in Seq(S)
  BY DEF IsSeq
<1> HIDE DEF S
<1> QED BY <1>1, LenProperties, EmptySeq

LEMMA Nothing == IsSeq(<<>>) /\ Len(<<>>) = 0 /\ DOMAIN <<>> = {}
<1>1. <<>> \in Seq({}) /\ Len(<<>>) = 0
  BY EmptySeq
<1>2. IsSeq(<<>>) /\ DOMAIN <<>> = 1 .. Len(<<>>)
  BY <1>1, SequenceIs
<1> QED BY <1>1, <1>2

LEMMA OneMore ==
  ASSUME NEW s, IsSeq(s), NEW x
  PROVE  /\ IsSeq(Append(s, x)) /\ Len(Append(s, x)) = Len(s) + 1
         /\ Append(s, x)[Len(s) + 1] = x
         /\ \A i \in 1 .. Len(s) : Append(s, x)[i] = s[i]
<1> DEFINE S == { s[i] : i \in DOMAIN s } \cup {x}
<1>1. s \in Seq(S) /\ x \in S
  BY SeqMonotonic DEF IsSeq
<1> HIDE DEF S
<1>2. /\ Append(s, x) \in Seq(S) /\ Len(Append(s, x)) = Len(s) + 1
      /\ Append(s, x)[Len(s) + 1] = x
      /\ \A i \in 1 .. Len(s) : Append(s, x)[i] = s[i]
  BY <1>1, AppendProperties
<1> QED BY <1>2, SequenceIs

LEMMA FirstAndRest ==
  ASSUME NEW s, IsSeq(s), s # <<>>
  PROVE  /\ IsSeq(Tail(s)) /\ Len(Tail(s)) = Len(s) - 1
         /\ 1 \in DOMAIN s /\ Head(s) = s[1]
         /\ \A i \in 1 .. Len(s) - 1 : Tail(s)[i] = s[i + 1]
<1> DEFINE S == { s[i] : i \in DOMAIN s }
<1>1. s \in Seq(S)
  BY DEF IsSeq
<1> HIDE DEF S
<1>2. /\ Head(s) = s[1] /\ Tail(s) \in Seq(S) /\ Len(Tail(s)) = Len(s) - 1
      /\ \A i \in 1 .. Len(Tail(s)) : Tail(s)[i] = s[i + 1]
  BY <1>1, HeadTailProperties
<1>3. 1 \in DOMAIN s
  BY Indices
<1> QED BY <1>2, <1>3, SequenceIs

(* The last one is taken off.                                              *)
Without(s) == SubSeq(s, 1, Len(s) - 1)

LEMMA OneLess ==
  ASSUME NEW s, IsSeq(s), s # <<>>
  PROVE  /\ IsSeq(Without(s)) /\ Len(Without(s)) = Len(s) - 1 /\ Len(s) \in 1 .. Len(s)
         /\ \A i \in 1 .. Len(s) - 1 : Without(s)[i] = s[i]
<1> DEFINE S == { s[i] : i \in DOMAIN s }
           n == Len(s) - 1
<1>1. s \in Seq(S)
  BY DEF IsSeq
<1>2. Len(s) \in 1 .. Len(s) /\ DOMAIN s = 1 .. Len(s)
  BY Indices
<1>3. \A m \in Nat : /\ (IF 1 <= m THEN m - 1 + 1 ELSE 0) = m
                     /\ m - 1 + 1 = m
                     /\ \A i \in 1 .. m : 1 + i - 1 = i
  OBVIOUS
<1> HIDE DEF S
<1>4. 1 \in Int /\ n \in Nat /\ n \in Int /\ \A i \in 1 .. n : s[i] \in S
  BY <1>1, <1>2, ElementOfSeq
<1>5. /\ SubSeq(s, 1, n) \in Seq(S)
      /\ Len(SubSeq(s, 1, n)) = IF 1 <= n THEN n - 1 + 1 ELSE 0
      /\ \A i \in 1 .. n - 1 + 1 : SubSeq(s, 1, n)[i] = s[1 + i - 1]
  <2> HIDE DEF n
  <2> QED BY <1>4, SubSeqProperties
<1>6. Len(SubSeq(s, 1, n)) = n /\ \A i \in 1 .. n : SubSeq(s, 1, n)[i] = s[i]
  <2> HIDE DEF n
  <2> QED BY <1>3, <1>4, <1>5
<1> QED BY <1>2, <1>5, <1>6, SequenceIs DEF Without

(* The last one is replaced.                                               *)
LEMMA LastOne ==
  ASSUME NEW s, IsSeq(s), s # <<>>, NEW x
  PROVE  LET t == Append(Without(s), x)
         IN  /\ IsSeq(t) /\ Len(t) = Len(s) /\ Len(s) \in 1 .. Len(s) /\ t[Len(s)] = x
             /\ \A i \in 1 .. Len(s) - 1 : t[i] = s[i]
<1>1. /\ IsSeq(Without(s)) /\ Len(Without(s)) = Len(s) - 1 /\ Len(s) \in 1 .. Len(s)
      /\ \A i \in 1 .. Len(s) - 1 : Without(s)[i] = s[i]
  BY OneLess
<1> HIDE DEF Without
<1>2. (Len(s) - 1) + 1 = Len(s)
  BY <1>1
<1> DEFINE t == Append(Without(s), x)
<1>3. /\ IsSeq(t) /\ Len(t) = Len(Without(s)) + 1
      /\ t[Len(Without(s)) + 1] = x
      /\ \A i \in 1 .. Len(Without(s)) : t[i] = Without(s)[i]
  BY <1>1, OneMore
<1> HIDE DEF t
<1>4. t[Len(s)] = x /\ \A i \in 1 .. Len(s) - 1 : t[i] = s[i]
  BY <1>1, <1>2, <1>3
<1> QED BY <1>1, <1>2, <1>3, <1>4 DEF t

-----------------------------------------------------------------------------
(* The heap: the adapter's own objects as it returned them, an iterator    *)
(* perhaps further on, and fresh dicts and lists that refer to nothing of  *)
(* the adapter's but leaves.                                               *)

Settled(h, n, id) == id \in DOMAIN h /\ (id > n \/ h[id].py \notin Containers)

(* The tail of a sequence.                                                 *)
EndOf(rest, whole) ==
  /\ IsSeq(rest) /\ IsSeq(whole) /\ Len(rest) <= Len(whole)
  /\ \A i \in 1 .. Len(rest) : rest[i] = whole[Len(whole) - Len(rest) + i]

AsReturned(h, w) ==
  /\ IsSeq(h) /\ Len(w) <= Len(h)
  /\ \A id \in DOMAIN w :
       IF w[id].py = "iterator"
       THEN /\ h[id] = [py |-> "iterator", items |-> h[id].items]
            /\ EndOf(h[id].items, w[id].items)
       ELSE h[id] = w[id]

Fresh(h, n) ==
  \A id \in n + 1 .. Len(h) :
    /\ h[id].py \in {"dict", "list"} /\ IsSeq(h[id].items)
    /\ h[id].py = "dict" => OnceEach(h[id].items)
    /\ \A i \in DOMAIN h[id].items : Settled(h, n, Referred(h[id].py, h[id].items[i]))

(* The calls in progress.  All but perhaps the last wait for a call.       *)
Waiting(fs, k, busy) == IF k < Len(fs) \/ busy THEN 1 ELSE 0

FrameFits(h, w, f, waits) ==
  LET py == w[f.of].py  items == w[f.of].items
  IN  /\ f = [of |-> f.of, rest |-> f.rest, key |-> f.key, out |-> f.out]
      /\ f.of \in DOMAIN w /\ py \in Containers
      /\ IsSeq(f.out) /\ \A i \in DOMAIN f.out : Settled(h, Len(w), Referred(py, f.out[i]))
      /\ IF py = "iterator" THEN f.rest = <<>>
         ELSE EndOf(f.rest, items) /\ Len(f.out) + waits + Len(f.rest) = Len(items)
      /\ py \in Mappings =>
           /\ \A i \in DOMAIN f.out : f.out[i].key = items[i].key
           /\ waits = 1 => f.key = items[Len(f.out) + 1].key

OfMappings(w, fs) == { k \in DOMAIN fs : w[fs[k].of].py \in Mappings }

FramesFit(h, w, fs, busy) ==
  /\ IsSeq(fs)
  /\ \A k \in DOMAIN fs : FrameFits(h, w, fs[k], Waiting(fs, k, busy))
  /\ \A j, k \in DOMAIN fs : fs[j].of = fs[k].of => j = k
  /\ Cardinality(OfMappings(w, fs)) <= MaxSpecDepth + 1

(* What holds however the adapter's code goes.                             *)
Place ==
  /\ value \in DOMAIN written /\ value \in DOMAIN heap /\ result \in DOMAIN heap
  /\ calm \in BOOLEAN
  /\ pc \in {"start", "enter", "next", "return", "again", "done"}
  /\ outcome \in {"running", "accepted", "TypeError", "raised", "RecursionError"}
  /\ outcome = "running" <=> pc # "done"
  /\ pc \in {"start", "again"} => frames = <<>>
  /\ pc = "next" => frames # <<>>
  /\ pc \in {"return", "again"} => Settled(heap, Len(written), result)

WalkInv ==
  /\ written \in Heaps
  /\ Place
  /\ pc # "done" =>
       /\ AsReturned(heap, written) /\ Fresh(heap, Len(written))
       /\ FramesFit(heap, written, frames, pc # "next")

-----------------------------------------------------------------------------
(* Where no iterator was met spent, what has been made copies what was     *)
(* read: C pairs each object with the adapter's that it copies.            *)

(* The object that the k-th call waits for, and the root before all calls. *)
Awaited(w, fs, k) ==
  IF k = 0 THEN 1
  ELSE LET of == fs[k].of IN Referred(w[of].py, w[of].items[Len(fs[k].out) + 1])

Copied(h, w, f, waits, C) ==
  /\ w[f.of].py = "iterator" => Len(f.out) + waits + Len(h[f.of].items) = Len(w[f.of].items)
  /\ \A i \in DOMAIN f.out :
       /\ i \in DOMAIN w[f.of].items
       /\ <<Referred(w[f.of].py, f.out[i]), Referred(w[f.of].py, w[f.of].items[i])>> \in C

Copies(h, w, fs, busy, C) ==
  /\ Alike(h, w, C) /\ \A p \in C : Settled(h, Len(w), p[1])
  /\ \A k \in DOMAIN fs :
       /\ fs[k].of = Awaited(w, fs, k - 1)
       /\ Copied(h, w, fs[k], Waiting(fs, k, busy), C)

SoFar(C) ==
  /\ Copies(heap, written, frames, pc # "next", C)
  /\ pc \in {"start", "enter"} => value = Awaited(written, frames, Len(frames))
  /\ pc \in {"return", "again"} => <<result, Awaited(written, frames, Len(frames))>> \in C

CopyInv ==
  /\ calm /\ pc # "done" => \E C : SoFar(C)
  /\ pc = "again" => Compiles(heap, result) /\ first = Meaning(heap, result)

-----------------------------------------------------------------------------
(* Where the compiler takes what the adapter returned, so does the walk:   *)
(* the objects being read are rules, of one level less each, and all but   *)
(* perhaps the last are mappings.                                          *)
Levels(w) == RulesWithin(AsRules(w), FALSE)

RulesAllAlong(w, fs) ==
  /\ Len(fs) <= MaxSpecDepth + 1
  /\ \A k \in DOMAIN fs : fs[k].of \in Levels(w)[MaxSpecDepth + 2 - k]
  /\ \A k \in DOMAIN fs : k < Len(fs) => w[fs[k].of].py \in Mappings

AcceptInv ==
  /\ calm /\ pc # "done" /\ Compiles(written, 1) => RulesAllAlong(written, frames)
  /\ calm /\ pc \notin {"start", "done"} => written[1].py \in Mappings
  /\ AcceptsWhatCompiles

-----------------------------------------------------------------------------
LEMMA Returned ==
  ASSUME NEW w \in Heaps
  PROVE  /\ IsSeq(w) /\ Len(w) \in Nat /\ DOMAIN w = 1 .. Len(w) /\ 1 \in DOMAIN w
         /\ \A id \in DOMAIN w : IsObject(w, id)
  BY HeapsAssumption, Indices

LEMMA WholeIsItsEnd ==
  ASSUME NEW s, IsSeq(s)
  PROVE  EndOf(s, s) /\ EndOf(<<>>, s)
<1>1. Len(s) \in Nat
  BY Indices
<1>2. \A i \in 1 .. Len(s) : Len(s) - Len(s) + i = i
  BY <1>1
<1> QED BY <1>1, <1>2, Nothing DEF EndOf

LEMMA EndGoesOn ==
  ASSUME NEW rest, NEW whole, EndOf(rest, whole), rest # <<>>
  PROVE  /\ EndOf(Tail(rest), whole) /\ Len(Tail(rest)) = Len(rest) - 1
         /\ Len(rest) \in 1 .. Len(whole)
         /\ Len(whole) - Len(rest) + 1 \in DOMAIN whole
         /\ Head(rest) = whole[Len(whole) - Len(rest) + 1]
<1>1. /\ IsSeq(rest) /\ IsSeq(whole) /\ Len(rest) <= Len(whole)
      /\ \A i \in 1 .. Len(rest) : rest[i] = whole[Len(whole) - Len(rest) + i]
  BY DEF EndOf
<1>2. /\ Len(rest) \in Nat /\ Len(rest) # 0 /\ Len(whole) \in Nat /\ DOMAIN whole = 1 .. Len(whole)
  BY <1>1, Indices
<1>3. /\ IsSeq(Tail(rest)) /\ Len(Tail(rest)) = Len(rest) - 1 /\ Head(rest) = rest[1]
      /\ \A i \in 1 .. Len(rest) - 1 : Tail(rest)[i] = rest[i + 1]
  BY <1>1, FirstAndRest
<1>4. ASSUME NEW i \in 1 .. Len(rest) - 1
      PROVE  Tail(rest)[i] = whole[Len(whole) - (Len(rest) - 1) + i]
  <2>1. i + 1 \in 1 .. Len(rest) /\ Len(whole) - Len(rest) + (i + 1) = Len(whole) - (Len(rest) - 1) + i
    BY <1>2
  <2>2. rest[i + 1] = whole[Len(whole) - Len(rest) + (i + 1)]
    BY <1>1, <2>1
  <2> QED BY <1>3, <2>1, <2>2
<1> QED BY <1>1, <1>2, <1>3, <1>4 DEF EndOf

(* An object of the adapter's, as it is now.                               *)
LEMMA AsItIs ==
  ASSUME NEW w \in Heaps, NEW h, AsReturned(h, w), NEW id \in DOMAIN w
  PROVE  /\ id \in DOMAIN h /\ h[id].py = w[id].py
         /\ w[id].py # "iterator" => h[id] = w[id]
         /\ w[id].py \in Containers =>
              /\ h[id] = [py |-> h[id].py, items |-> h[id].items]
              /\ EndOf(h[id].items, w[id].items) /\ IsSeq(h[id].items) /\ IsSeq(w[id].items)
              /\ \A i \in DOMAIN w[id].items : Referred(w[id].py, w[id].items[i]) \in DOMAIN w
<1>1. /\ Len(w) \in Nat /\ DOMAIN w = 1 .. Len(w) /\ IsObject(w, id)
  BY Returned
<1>2. IsSeq(h) /\ Len(w) <= Len(h) /\ Len(h) \in Nat /\ DOMAIN h = 1 .. Len(h)
  BY Indices DEF AsReturned
<1>3. id \in DOMAIN h
  BY <1>1, <1>2
<1>4. CASE w[id].py = "iterator"
  <2>1. h[id] = [py |-> "iterator", items |-> h[id].items] /\ EndOf(h[id].items, w[id].items)
    BY <1>4 DEF AsReturned
  <2>2. h[id].py = "iterator"
    BY <2>1
  <2> QED BY <1>1, <1>3, <1>4, <2>1, <2>2 DEF IsObject, EndOf
<1>5. CASE w[id].py # "iterator"
  <2>1. h[id] = w[id]
    BY <1>5 DEF AsReturned
  <2> QED BY <1>1, <1>3, <1>5, <2>1, WholeIsItsEnd DEF IsObject
<1> QED BY <1>4, <1>5

(* More objects, and those that are there stay what they are.              *)
Grows(h, g) ==
  IsSeq(h) /\ IsSeq(g) /\ Len(h) <= Len(g) /\ \A id \in DOMAIN h : g[id].py = h[id].py

LEMMA SettledGrows ==
  ASSUME NEW h, NEW g, Grows(h, g), NEW n, NEW id, Settled(h, n, id)
  PROVE  Settled(g, n, id)
<1>1. /\ Len(h) \in Nat /\ DOMAIN h = 1 .. Len(h)
      /\ Len(g) \in Nat /\ DOMAIN g = 1 .. Len(g) /\ Len(h) <= Len(g)
  BY Indices DEF Grows
<1> QED BY <1>1 DEF Settled, Grows

LEMMA FrameGrows ==
  ASSUME NEW h, NEW g, Grows(h, g), NEW w, NEW f, NEW waits, FrameFits(h, w, f, waits)
  PROVE  FrameFits(g, w, f, waits)
<1>1. ASSUME NEW i \in DOMAIN f.out PROVE Settled(g, Len(w), Referred(w[f.of].py, f.out[i]))
  BY SettledGrows DEF FrameFits
<1> QED BY <1>1 DEF FrameFits

LEMMA GrowsSame ==
  ASSUME NEW h, IsSeq(h)
  PROVE  Grows(h, h)
<1>1. Len(h) \in Nat
  BY Indices
<1> QED BY <1>1 DEF Grows

(* A new object, which refers to nothing of the adapter's but leaves.      *)
LEMMA HeapGrows ==
  ASSUME NEW w \in Heaps, NEW h, AsReturned(h, w), Fresh(h, Len(w)),
         NEW o, o.py \in {"dict", "list"}, IsSeq(o.items),
         o.py = "dict" => OnceEach(o.items),
         \A i \in DOMAIN o.items : Settled(h, Len(w), Referred(o.py, o.items[i]))
  PROVE  LET g == Append(h, o)
         IN  /\ AsReturned(g, w) /\ Fresh(g, Len(w)) /\ Grows(h, g)
             /\ Len(g) = Len(h) + 1 /\ g[Len(h) + 1] = o
             /\ \A id \in DOMAIN h : g[id] = h[id]
             /\ Settled(g, Len(w), Len(g))
<1> DEFINE g == Append(h, o)
<1>1. /\ IsSeq(h) /\ Len(w) <= Len(h) /\ Len(h) \in Nat /\ DOMAIN h = 1 .. Len(h)
  BY Indices DEF AsReturned
<1>2. /\ IsSeq(g) /\ Len(g) = Len(h) + 1 /\ g[Len(h) + 1] = o /\ \A id \in 1 .. Len(h) : g[id] = h[id]
  BY <1>1, OneMore
<1> HIDE DEF g
<1>3. Len(g) \in Nat /\ DOMAIN g = 1 .. Len(g) /\ Len(w) \in Nat /\ DOMAIN w = 1 .. Len(w)
  BY <1>2, Indices, Returned
<1>4. Grows(h, g)
  BY <1>1, <1>2 DEF Grows
<1>5. AsReturned(g, w)
  BY <1>1, <1>2, <1>3 DEF AsReturned
<1>6. Fresh(g, Len(w))
  <2> SUFFICES ASSUME NEW id \in Len(w) + 1 .. Len(g)
               PROVE  /\ g[id].py \in {"dict", "list"} /\ IsSeq(g[id].items)
                      /\ g[id].py = "dict" => OnceEach(g[id].items)
                      /\ \A i \in DOMAIN g[id].items :
                           Settled(h, Len(w), Referred(g[id].py, g[id].items[i]))
    BY <1>4, SettledGrows DEF Fresh
  <2>1. CASE id = Len(h) + 1
    BY <1>2, <2>1
  <2>2. CASE id # Len(h) + 1
    <3>1. id \in Len(w) + 1 .. Len(h) /\ g[id] = h[id]
      BY <1>1, <1>2, <1>3, <2>2
    <3> QED BY <3>1 DEF Fresh
  <2> QED BY <2>1, <2>2
<1>7. Settled(g, Len(w), Len(g))
  BY <1>1, <1>2, <1>3 DEF Settled
<1> QED BY <1>1, <1>2, <1>4, <1>5, <1>6, <1>7 DEF g

(* An iterator is asked for one more.                                      *)
LEMMA HeapAsked ==
  ASSUME NEW w \in Heaps, NEW h, AsReturned(h, w), Fresh(h, Len(w)),
         NEW id \in DOMAIN w, w[id].py = "iterator", h[id].items # <<>>
  PROVE  LET g == [h EXCEPT ![id].items = Tail(@)]
         IN  /\ AsReturned(g, w) /\ Fresh(g, Len(w)) /\ Grows(h, g) /\ DOMAIN g = DOMAIN h
             /\ g[id].items = Tail(h[id].items)
             /\ \A x \in DOMAIN h : x # id => g[x] = h[x]
<1> DEFINE o == [h[id] EXCEPT !.items = Tail(@)]
           g == [h EXCEPT ![id] = o]
<1>1. /\ IsSeq(h) /\ Len(w) <= Len(h) /\ Len(h) \in Nat /\ DOMAIN h = 1 .. Len(h)
  BY Indices DEF AsReturned
<1>2. /\ id \in DOMAIN h /\ h[id].py = w[id].py /\ EndOf(h[id].items, w[id].items)
      /\ h[id] = [py |-> h[id].py, items |-> h[id].items]
  BY AsItIs DEF Containers, Iterables
<1>3. o.py = h[id].py /\ o.items = Tail(h[id].items) /\ o = [py |-> h[id].py, items |-> o.items]
  BY <1>2
<1>4. [h EXCEPT ![id].items = Tail(@)] = g
  OBVIOUS
<1> HIDE DEF o
<1>5. g[id] = o /\ DOMAIN g = DOMAIN h /\ \A x \in DOMAIN h : x # id => g[x] = h[x]
  BY <1>2
<1>6. IsSeq(g) /\ Len(g) = Len(h)
  <2> DEFINE S == { h[x] : x \in DOMAIN h } \cup {o}
  <2>1. h \in Seq(S) /\ o \in S
    BY <1>1, SeqMonotonic DEF IsSeq
  <2> HIDE DEF S
  <2>2. g \in Seq(S) /\ Len(g) = Len(h)
    BY <1>1, <1>2, <2>1, ExceptSeq
  <2> HIDE DEF g
  <2> QED BY <2>2, SequenceIs
<1> HIDE DEF g
<1>7. Grows(h, g)
  BY <1>1, <1>3, <1>5, <1>6 DEF Grows
<1>8. AsReturned(g, w)
  <2>1. EndOf(o.items, w[id].items)
    BY <1>2, <1>3, EndGoesOn
  <2>2. DOMAIN w \subseteq DOMAIN h
    BY AsItIs
  <2>3. ASSUME NEW x \in DOMAIN w
        PROVE  IF w[x].py = "iterator"
               THEN /\ g[x] = [py |-> "iterator", items |-> g[x].items]
                    /\ EndOf(g[x].items, w[x].items)
               ELSE g[x] = w[x]
    <3>1. CASE x = id
      BY <1>2, <1>3, <1>5, <2>1, <3>1
    <3>2. CASE x # id
      BY <1>5, <2>2, <3>2 DEF AsReturned
    <3> QED BY <3>1, <3>2
  <2> QED BY <1>1, <1>6, <2>3 DEF AsReturned
<1>9. Fresh(g, Len(w))
  <2> SUFFICES ASSUME NEW x \in Len(w) + 1 .. Len(g)
               PROVE  /\ g[x].py \in {"dict", "list"} /\ IsSeq(g[x].items)
                      /\ g[x].py = "dict" => OnceEach(g[x].items)
                      /\ \A i \in DOMAIN g[x].items :
                           Settled(h, Len(w), Referred(g[x].py, g[x].items[i]))
    BY <1>7, SettledGrows DEF Fresh
  <2>1. x # id /\ x \in DOMAIN h /\ x \in Len(w) + 1 .. Len(h)
    BY <1>1, <1>6, Returned
  <2> QED BY <1>5, <2>1 DEF Fresh
<1> QED BY <1>3, <1>4, <1>5, <1>7, <1>8, <1>9

-----------------------------------------------------------------------------
(* What becomes of the calls in progress.                                  *)

LEMMA OfMappingsFinite ==
  ASSUME NEW w, NEW fs, IsSeq(fs)
  PROVE  IsFiniteSet(OfMappings(w, fs)) /\ Cardinality(OfMappings(w, fs)) \in Nat
<1>1. Len(fs) \in Nat /\ DOMAIN fs = 1 .. Len(fs)
  BY Indices
<1>2. IsFiniteSet(1 .. Len(fs)) /\ OfMappings(w, fs) \subseteq 1 .. Len(fs)
  BY <1>1, FS_Interval DEF OfMappings
<1> QED BY <1>2, FS_Subset, FS_CardinalityType

(* Calls that read the same objects, perhaps without the last.             *)
LEMMA FramesKeep ==
  ASSUME NEW h, NEW g, NEW w, NEW fs, NEW ft, NEW busy, NEW now,
         FramesFit(h, w, fs, busy), IsSeq(ft), Len(ft) <= Len(fs),
         \A k \in DOMAIN ft : /\ ft[k].of = fs[k].of
                              /\ FrameFits(g, w, ft[k], Waiting(ft, k, now))
  PROVE  FramesFit(g, w, ft, now)
<1>1. /\ IsSeq(fs) /\ Len(fs) \in Nat /\ DOMAIN fs = 1 .. Len(fs)
      /\ Len(ft) \in Nat /\ DOMAIN ft = 1 .. Len(ft)
  BY Indices DEF FramesFit
<1>2. \A j, k \in DOMAIN ft : ft[j].of = ft[k].of => j = k
  BY <1>1 DEF FramesFit
<1>3. Cardinality(OfMappings(w, ft)) <= MaxSpecDepth + 1
  <2>1. OfMappings(w, ft) \subseteq OfMappings(w, fs)
    BY <1>1 DEF OfMappings
  <2>2. /\ IsFiniteSet(OfMappings(w, fs)) /\ Cardinality(OfMappings(w, fs)) \in Nat
        /\ Cardinality(OfMappings(w, ft)) \in Nat
    BY <1>1, OfMappingsFinite
  <2>3. Cardinality(OfMappings(w, ft)) <= Cardinality(OfMappings(w, fs))
    BY <2>1, <2>2, FS_Subset
  <2>4. Cardinality(OfMappings(w, fs)) <= MaxSpecDepth + 1
    BY DEF FramesFit
  <2> QED BY <2>2, <2>3, <2>4, LimitAssumption
<1> QED BY <1>2, <1>3 DEF FramesFit

Last(fs) == fs[Len(fs)]

(* The last goes on.                                                       *)
LEMMA FramesTurn ==
  ASSUME NEW h, NEW g, Grows(h, g), NEW w, NEW fs, NEW busy, NEW now \in BOOLEAN,
         FramesFit(h, w, fs, busy), fs # <<>>,
         NEW f, f.of = Last(fs).of, FrameFits(g, w, f, IF now THEN 1 ELSE 0)
  PROVE  FramesFit(g, w, Append(Without(fs), f), now)
<1> DEFINE ft == Append(Without(fs), f)
<1>1. /\ IsSeq(fs) /\ Len(fs) \in Nat /\ DOMAIN fs = 1 .. Len(fs)
  BY Indices DEF FramesFit
<1>2. /\ IsSeq(ft) /\ Len(ft) = Len(fs) /\ Len(fs) \in 1 .. Len(fs) /\ ft[Len(fs)] = f
      /\ \A i \in 1 .. Len(fs) - 1 : ft[i] = fs[i]
  BY <1>1, LastOne
<1>3. DOMAIN ft = 1 .. Len(fs)
  BY <1>2, Indices
<1> HIDE DEF ft
<1>4. ASSUME NEW k \in DOMAIN ft
      PROVE  ft[k].of = fs[k].of /\ FrameFits(g, w, ft[k], Waiting(ft, k, now))
  <2>1. CASE k = Len(fs)
    <3>1. Waiting(ft, k, now) = IF now THEN 1 ELSE 0
      BY <1>1, <1>2, <2>1 DEF Waiting
    <3> QED BY <1>2, <2>1, <3>1 DEF Last
  <2>2. CASE k # Len(fs)
    <3>1. k \in 1 .. Len(fs) - 1 /\ ft[k] = fs[k] /\ k \in DOMAIN fs
      BY <1>1, <1>2, <1>3, <2>2
    <3>2. Waiting(ft, k, now) = 1 /\ Waiting(fs, k, busy) = 1
      BY <1>1, <1>2, <3>1 DEF Waiting
    <3>3. FrameFits(h, w, fs[k], 1)
      BY <3>1, <3>2 DEF FramesFit
    <3> QED BY <3>1, <3>2, <3>3, FrameGrows
  <2> QED BY <2>1, <2>2
<1>5. Len(ft) <= Len(fs)
  BY <1>1, <1>2
<1>6. FramesFit(g, w, ft, now)
  BY <1>2, <1>4, <1>5, FramesKeep
<1> QED BY <1>6 DEF ft

(* The same calls, but the last now waits.                                 *)
LEMMA FramesAwait ==
  ASSUME NEW h, NEW g, Grows(h, g), NEW w, NEW fs, NEW busy,
         FramesFit(h, w, fs, busy), fs # <<>>, FrameFits(g, w, Last(fs), 1)
  PROVE  FramesFit(g, w, fs, TRUE)
<1>1. /\ IsSeq(fs) /\ Len(fs) \in Nat /\ DOMAIN fs = 1 .. Len(fs)
  BY Indices DEF FramesFit
<1>2. ASSUME NEW k \in DOMAIN fs PROVE FrameFits(g, w, fs[k], Waiting(fs, k, TRUE))
  <2>1. Waiting(fs, k, TRUE) = 1
    BY DEF Waiting
  <2>2. CASE k = Len(fs)
    BY <2>1, <2>2 DEF Last
  <2>3. CASE k # Len(fs)
    <3>1. Waiting(fs, k, busy) = 1
      BY <1>1, <2>3 DEF Waiting
    <3>2. FrameFits(h, w, fs[k], 1)
      BY <3>1 DEF FramesFit
    <3> QED BY <2>1, <3>2, FrameGrows
  <2> QED BY <2>2, <2>3
<1>3. Len(fs) <= Len(fs)
  BY <1>1
<1> QED BY <1>1, <1>2, <1>3, FramesKeep

(* The last returns.                                                       *)
LEMMA FramesReturn ==
  ASSUME NEW h, NEW g, Grows(h, g), NEW w, NEW fs, NEW busy,
         FramesFit(h, w, fs, busy), fs # <<>>
  PROVE  FramesFit(g, w, Without(fs), TRUE)
<1> DEFINE ft == Without(fs)
<1>1. /\ IsSeq(fs) /\ Len(fs) \in Nat /\ DOMAIN fs = 1 .. Len(fs)
  BY Indices DEF FramesFit
<1>2. /\ IsSeq(ft) /\ Len(ft) = Len(fs) - 1 /\ Len(fs) \in 1 .. Len(fs)
      /\ \A i \in 1 .. Len(fs) - 1 : ft[i] = fs[i]
  BY <1>1, OneLess
<1>3. DOMAIN ft = 1 .. Len(fs) - 1
  BY <1>2, Indices
<1> HIDE DEF ft
<1>4. ASSUME NEW k \in DOMAIN ft
      PROVE  ft[k].of = fs[k].of /\ FrameFits(g, w, ft[k], Waiting(ft, k, TRUE))
  <2>1. ft[k] = fs[k] /\ k \in DOMAIN fs /\ k < Len(fs)
    BY <1>1, <1>2, <1>3
  <2>2. Waiting(ft, k, TRUE) = 1 /\ Waiting(fs, k, busy) = 1
    BY <2>1 DEF Waiting
  <2>3. FrameFits(h, w, fs[k], 1)
    BY <2>1, <2>2 DEF FramesFit
  <2> QED BY <2>1, <2>2, <2>3, FrameGrows
<1>5. Len(ft) <= Len(fs)
  BY <1>1, <1>2
<1>6. FramesFit(g, w, ft, TRUE)
  BY <1>2, <1>4, <1>5, FramesKeep
<1> QED BY <1>6 DEF ft

(* One more.                                                               *)
LEMMA FramesCall ==
  ASSUME NEW h, NEW w, NEW fs, FramesFit(h, w, fs, TRUE), IsSeq(h),
         NEW f, FrameFits(h, w, f, 0), \A k \in DOMAIN fs : fs[k].of # f.of,
         Cardinality(OfMappings(w, fs)) <= MaxSpecDepth
  PROVE  FramesFit(h, w, Append(fs, f), FALSE)
<1> DEFINE ft == Append(fs, f)
           n  == Len(fs)
<1>1. /\ IsSeq(fs) /\ n \in Nat /\ DOMAIN fs = 1 .. n
  BY Indices DEF FramesFit
<1>2. /\ IsSeq(ft) /\ Len(ft) = n + 1 /\ ft[n + 1] = f
      /\ \A i \in 1 .. n : ft[i] = fs[i]
  BY <1>1, OneMore
<1>3. DOMAIN ft = 1 .. n + 1
  BY <1>2, Indices
<1> HIDE DEF ft
<1>4. ASSUME NEW k \in DOMAIN ft
      PROVE  FrameFits(h, w, ft[k], Waiting(ft, k, FALSE))
  <2>1. CASE k = n + 1
    BY <1>1, <1>2, <2>1 DEF Waiting
  <2>2. CASE k # n + 1
    <3>1. ft[k] = fs[k] /\ k \in DOMAIN fs /\ k < Len(ft)
      BY <1>1, <1>2, <1>3, <2>2
    <3>2. Waiting(ft, k, FALSE) = 1 /\ Waiting(fs, k, TRUE) = 1
      BY <3>1 DEF Waiting
    <3> QED BY <3>1, <3>2 DEF FramesFit
  <2> QED BY <2>1, <2>2
<1>5. ASSUME NEW j \in DOMAIN ft, NEW k \in DOMAIN ft, ft[j].of = ft[k].of
      PROVE  j = k
  <2>1. CASE j \in DOMAIN fs /\ k \in DOMAIN fs
    BY <1>1, <1>2, <1>5, <2>1 DEF FramesFit
  <2>2. CASE j = n + 1
    BY <1>1, <1>2, <1>3, <1>5, <2>2
  <2>3. CASE k = n + 1
    BY <1>1, <1>2, <1>3, <1>5, <2>3
  <2> QED BY <1>1, <1>3, <2>1, <2>2, <2>3
<1>6. Cardinality(OfMappings(w, ft)) <= MaxSpecDepth + 1
  <2> DEFINE M == OfMappings(w, fs)
  <2>1. OfMappings(w, ft) \subseteq M \cup {n + 1}
    BY <1>1, <1>2, <1>3 DEF OfMappings
  <2>2. IsFiniteSet(M) /\ Cardinality(M) \in Nat /\ M \subseteq DOMAIN fs
    BY <1>1, OfMappingsFinite DEF OfMappings
  <2>3. IsFiniteSet(OfMappings(w, ft)) /\ Cardinality(OfMappings(w, ft)) \in Nat
    BY <1>2, OfMappingsFinite
  <2> HIDE DEF M
  <2>4. n + 1 \notin M
    BY <1>1, <2>2
  <2>5. IsFiniteSet(M \cup {n + 1}) /\ Cardinality(M \cup {n + 1}) = Cardinality(M) + 1
    BY <2>2, <2>4, FS_AddElement
  <2>6. Cardinality(OfMappings(w, ft)) <= Cardinality(M \cup {n + 1})
    BY <2>1, <2>5, FS_Subset
  <2>7. Cardinality(M) <= MaxSpecDepth
    BY DEF M
  <2> QED BY <2>2, <2>3, <2>5, <2>6, <2>7, LimitAssumption
<1>7. FramesFit(h, w, ft, FALSE)
  BY <1>2, <1>4, <1>5, <1>6 DEF FramesFit
<1> QED BY <1>7 DEF ft

-----------------------------------------------------------------------------
(* WalkInv, step by step.                                                  *)

LEMMA AtWork ==
  ASSUME WalkInv, pc # "done"
  PROVE  /\ written \in Heaps /\ AsReturned(heap, written) /\ Fresh(heap, Len(written))
         /\ FramesFit(heap, written, frames, pc # "next") /\ Place
         /\ IsSeq(heap) /\ Grows(heap, heap) /\ IsSeq(frames)
         /\ value \in DOMAIN heap /\ heap[value].py = written[value].py
  BY GrowsSame, AsItIs DEF WalkInv, AsReturned, FramesFit, Place

(* The innermost call.                                                     *)
LEMMA Innermost ==
  ASSUME WalkInv, pc # "done", frames # <<>>
  PROVE  /\ Len(frames) \in DOMAIN frames /\ Top = Last(frames) /\ Below = Without(frames)
         /\ FrameFits(heap, written, Top, Waiting(frames, Len(frames), pc # "next"))
         /\ Top.of \in DOMAIN written /\ Source.py = written[Top.of].py
<1>1. Len(frames) \in DOMAIN frames
  <2>1. IsSeq(frames)
    BY AtWork
  <2>2. Len(frames) \in Nat /\ Len(frames) # 0 /\ DOMAIN frames = 1 .. Len(frames)
    BY <2>1, Indices
  <2> QED BY <2>2
<1>2. FrameFits(heap, written, Top, Waiting(frames, Len(frames), pc # "next"))
  BY <1>1, AtWork DEF FramesFit, Top
<1>3. Top.of \in DOMAIN written
  BY <1>2 DEF FrameFits
<1>4. Source.py = written[Top.of].py
  BY <1>3, AtWork, AsItIs DEF Source
<1> QED BY <1>1, <1>2, <1>3, <1>4 DEF Top, Last, Below, Without

LEMMA WalkFails ==
  ASSUME WalkInv, NEW kind \in {"TypeError", "raised", "RecursionError"}, Fail(kind), calm' \in BOOLEAN
  PROVE  WalkInv'
<1>1. UNCHANGED <<heap, frames, value, result, written>> /\ pc' = "done" /\ outcome' = kind
  BY DEF Fail, Compiling
<1>2. Place'
  BY <1>1 DEF WalkInv, Place
<1> QED BY <1>1, <1>2 DEF WalkInv

LEMMA WalkStart ==
  ASSUME WalkInv, Start
  PROVE  WalkInv'
<1>1. CASE object.py \in Mappings
  <2>1. /\ UNCHANGED <<heap, frames, value, result, outcome, written, calm>>
        /\ pc = "start" /\ pc' = "enter"
    BY <1>1 DEF Start, Go, Compiling
  <2>2. Place'
    BY <2>1 DEF WalkInv, Place
  <2> QED BY <2>1, <2>2 DEF WalkInv
<1>2. CASE object.py \notin Mappings
  <2>1. Fail("TypeError") /\ calm' \in BOOLEAN
    BY <1>2 DEF Start, WalkInv, Place
  <2> QED BY <2>1, WalkFails
<1> QED BY <1>1, <1>2

LEMMA WalkRefuses ==
  ASSUME WalkInv, Overflow \/ TooDeep \/ Itself \/ Raises
  PROVE  WalkInv'
<1>1. calm \in BOOLEAN
  BY DEF WalkInv, Place
<1>2. calm' \in BOOLEAN /\ \E kind \in {"TypeError", "raised", "RecursionError"} : Fail(kind)
  BY <1>1 DEF Overflow, TooDeep, Itself, Raises, Raised
<1> QED BY <1>2, WalkFails

LEMMA WalkLeaf ==
  ASSUME WalkInv, Leaf
  PROVE  WalkInv'
<1>1. /\ UNCHANGED <<heap, frames, value, outcome, written, calm>>
      /\ pc = "enter" /\ pc' = "return" /\ result' = value
      /\ heap[value].py \in {"bool", "str", "other"}
  BY DEF Leaf, Enter, Go, Compiling, object
<1>2. Settled(heap, Len(written), value)
  BY <1>1, AtWork DEF Settled, Containers, Mappings, Iterables
<1>3. Place'
  BY <1>1, <1>2, AtWork DEF WalkInv, Place
<1> QED BY <1>1, <1>3 DEF WalkInv

(* `depth` counts the mappings being read.                                 *)
LEMMA DepthIs ==
  ASSUME WalkInv, pc # "done"
  PROVE  depth = Cardinality(OfMappings(written, frames))
<1>1. ASSUME NEW k \in DOMAIN frames PROVE heap[frames[k].of].py = written[frames[k].of].py
  <2>1. frames[k].of \in DOMAIN written
    BY AtWork DEF FramesFit, FrameFits
  <2> QED BY <2>1, AtWork, AsItIs
<1>2. { i \in DOMAIN frames : heap[frames[i].of].py \in Mappings } = OfMappings(written, frames)
  BY <1>1 DEF OfMappings
<1> QED BY <1>2 DEF depth

LEMMA WalkOpen ==
  ASSUME WalkInv, Open
  PROVE  WalkInv'
<1> DEFINE rest == IF object.py = "iterator" THEN <<>> ELSE object.items
           f    == [of |-> value, rest |-> rest, key |-> NotStr, out |-> <<>>]
<1>1. /\ pc = "enter" /\ pc' = "next" /\ frames' = Append(frames, f)
      /\ UNCHANGED <<heap, value, result, outcome, written>>
      /\ object.py \in Containers /\ value \notin Seen /\ depth <= MaxSpecDepth
      /\ calm' \in BOOLEAN
  BY AtWork DEF Open, Enter, Go, Compiling, Place
<1>2. /\ value \in DOMAIN written /\ written[value].py \in Containers
      /\ object.py = written[value].py
  BY <1>1, AtWork DEF Place, object
<1>3. FrameFits(heap, written, f, 0)
  <2>1. f = [of |-> f.of, rest |-> f.rest, key |-> f.key, out |-> f.out] /\ f.of = value
        /\ f.out = <<>> /\ f.rest = rest
    OBVIOUS
  <2>2. IsSeq(written[value].items)
    BY <1>1, <1>2, AtWork, AsItIs
  <2>3. Len(written[value].items) \in Nat
    BY <2>2, Indices
  <2>4. CASE written[value].py = "iterator"
    <3>1. f.rest = <<>>
      BY <1>2, <2>4
    <3> HIDE DEF f
    <3> QED BY <1>2, <2>1, <2>4, <3>1, Nothing DEF FrameFits
  <2>5. CASE written[value].py # "iterator"
    <3>1. rest = written[value].items
      BY <1>1, <1>2, <2>5, AtWork, AsItIs DEF object
    <3>2. EndOf(rest, written[value].items)
      BY <2>2, <3>1, WholeIsItsEnd
    <3>3. Len(f.out) + 0 + Len(f.rest) = Len(written[value].items)
      BY <2>3, <3>1, Nothing
    <3> HIDE DEF f, rest
    <3> QED BY <1>2, <2>1, <2>5, <3>2, <3>3, Nothing DEF FrameFits
  <2> QED BY <2>4, <2>5
<1>4. FramesFit(heap, written, frames', FALSE)
  <2>1. \A k \in DOMAIN frames : frames[k].of # f.of
    BY <1>1 DEF Seen
  <2>2. Cardinality(OfMappings(written, frames)) <= MaxSpecDepth
    BY <1>1, DepthIs
  <2>3. FramesFit(heap, written, frames, TRUE)
    BY <1>1, AtWork
  <2> HIDE DEF f
  <2> QED BY <1>1, <1>3, <2>1, <2>2, <2>3, AtWork, FramesCall
<1>5. frames' # <<>>
  <2> HIDE DEF f
  <2>1. IsSeq(frames') /\ Len(frames') = Len(frames) + 1 /\ Len(frames) \in Nat
    BY <1>1, AtWork, OneMore, Indices
  <2> QED BY <2>1, Indices
<1> HIDE DEF f
<1>6. Place'
  BY <1>1, <1>5 DEF WalkInv, Place
<1> QED BY <1>1, <1>4, <1>6 DEF WalkInv

(* What is read next, of a mapping, a list and an iterator.                *)
LEMMA NextIs ==
  ASSUME WalkInv, pc = "next"
  PROVE  LET of == Top.of  items == written[of].items
         IN  /\ frames # <<>> /\ Len(Top.out) \in Nat /\ IsSeq(items) /\ IsSeq(Top.out)
             /\ \A i \in DOMAIN items : Referred(written[of].py, items[i]) \in DOMAIN written
             /\ Source.py # "iterator" =>
                  /\ EndOf(Top.rest, items) /\ Len(Top.out) + Len(Top.rest) = Len(items)
                  /\ Len(Top.rest) \in Nat
             /\ Source.py # "iterator" /\ Top.rest # <<>> =>
                  /\ Len(Top.out) + 1 \in DOMAIN items
                  /\ Head(Top.rest) = items[Len(Top.out) + 1]
                  /\ EndOf(Tail(Top.rest), items)
                  /\ Len(Top.out) + 1 + Len(Tail(Top.rest)) = Len(items)
<1> DEFINE items == written[Top.of].items
<1>1. frames # <<>> /\ pc # "done"
  BY DEF WalkInv, Place
<1>2. FrameFits(heap, written, Top, Waiting(frames, Len(frames), FALSE))
  BY <1>1, Innermost
<1>3. Waiting(frames, Len(frames), FALSE) = 0
  <2>1. Len(frames) \in Nat
    BY <1>1, AtWork, Indices
  <2> QED BY <2>1 DEF Waiting
<1>4. /\ Top.of \in DOMAIN written /\ written[Top.of].py \in Containers /\ IsSeq(Top.out)
      /\ Source.py = written[Top.of].py
  BY <1>1, <1>2, Innermost DEF FrameFits
<1>5. Len(Top.out) \in Nat
  BY <1>4, Indices
<1>6. /\ IsSeq(items)
      /\ \A i \in DOMAIN items : Referred(written[Top.of].py, items[i]) \in DOMAIN written
  BY <1>1, <1>4, AtWork, AsItIs
<1>7. CASE Source.py # "iterator"
  <2>1. EndOf(Top.rest, items) /\ Len(Top.out) + 0 + Len(Top.rest) = Len(items)
    BY <1>2, <1>3, <1>4, <1>7 DEF FrameFits
  <2>2. Len(Top.rest) \in Nat /\ Len(items) \in Nat
    BY <2>1, Indices DEF EndOf
  <2>3. CASE Top.rest # <<>>
    <3>1. /\ EndOf(Tail(Top.rest), items) /\ Len(Tail(Top.rest)) = Len(Top.rest) - 1
          /\ Len(items) - Len(Top.rest) + 1 \in DOMAIN items
          /\ Head(Top.rest) = items[Len(items) - Len(Top.rest) + 1]
      BY <2>1, <2>3, EndGoesOn
    <3>2. PICK a \in Nat, b \in Nat, c \in Nat : a = Len(Top.out) /\ b = Len(Top.rest) /\ c = Len(items)
      BY <1>5, <2>2
    <3>3. a + 0 + b = c
      BY <2>1, <3>2
    <3>4. c - b + 1 = a + 1 /\ a + 1 + (b - 1) = c /\ a + b = c
      BY <3>3
    <3> QED BY <1>1, <1>4, <1>5, <1>6, <1>7, <2>1, <2>2, <3>1, <3>2, <3>4
  <2>4. CASE Top.rest = <<>>
    BY <1>1, <1>4, <1>5, <1>6, <1>7, <2>1, <2>2, <2>4
  <2> QED BY <2>3, <2>4
<1> QED BY <1>1, <1>4, <1>5, <1>6, <1>7

(* A call, its fields replaced.                                            *)
IsFrame(f) == f = [of |-> f.of, rest |-> f.rest, key |-> f.key, out |-> f.out]

LEMMA Fields ==
  ASSUME NEW f, IsFrame(f), NEW x, NEW y
  PROVE  /\ [f EXCEPT !.rest = x, !.key = y] = [of |-> f.of, rest |-> x, key |-> y, out |-> f.out]
         /\ [f EXCEPT !.rest = x] = [f EXCEPT !.rest = x, !.key = f.key]
         /\ [f EXCEPT !.out = x] = [of |-> f.of, rest |-> f.rest, key |-> f.key, out |-> x]
<1>1. PICK a, b, c, d : f = [of |-> a, rest |-> b, key |-> c, out |-> d]
  BY DEF IsFrame
<1>2. f.of = a /\ f.rest = b /\ f.key = c /\ f.out = d
  BY <1>1
<1>3. ASSUME NEW z PROVE [f EXCEPT !.rest = x, !.key = z] = [of |-> a, rest |-> x, key |-> z, out |-> d]
  <2> DEFINE e == [f EXCEPT !.rest = x, !.key = z]
  <2>1. DOMAIN e = {"of", "rest", "key", "out"}
    BY <1>1
  <2>2. e.of = a /\ e.rest = x /\ e.key = z /\ e.out = d
    BY <1>1
  <2>3. e = [n \in DOMAIN e |-> e[n]]
    OBVIOUS
  <2> HIDE DEF e
  <2>4. e = [of |-> a, rest |-> x, key |-> z, out |-> d]
    BY <2>1, <2>2, <2>3
  <2> QED BY <2>4 DEF e
<1>4. [f EXCEPT !.rest = x] = [of |-> a, rest |-> x, key |-> c, out |-> d]
  BY <1>1
<1>5. [f EXCEPT !.out = x] = [of |-> a, rest |-> b, key |-> c, out |-> x]
  BY <1>1
<1> QED BY <1>2, <1>3, <1>4, <1>5

(* The innermost call, not waiting.                                        *)
LEMMA TopFits ==
  ASSUME WalkInv, pc = "next"
  PROVE  FrameFits(heap, written, Top, 0)
<1>1. frames # <<>> /\ pc # "done"
  BY DEF WalkInv, Place
<1>2. Len(frames) \in Nat
  BY <1>1, AtWork, Indices
<1>3. Waiting(frames, Len(frames), FALSE) = 0
  BY <1>2 DEF Waiting
<1> QED BY <1>1, <1>3, Innermost

(* The next of a mapping or a list is read.                                *)
LEMMA TurnFits ==
  ASSUME WalkInv, pc = "next", Source.py # "iterator", Top.rest # <<>>,
         NEW key, Source.py \in Mappings => key = Head(Top.rest).key
  PROVE  FrameFits(heap, written, [Top EXCEPT !.rest = Tail(@), !.key = key], 1)
<1> DEFINE f == [of |-> Top.of, rest |-> Tail(Top.rest), key |-> key, out |-> Top.out]
<1>1. FrameFits(heap, written, Top, 0)
  BY TopFits
<1>2. [Top EXCEPT !.rest = Tail(@), !.key = key] = f
  <2>1. IsFrame(Top)
    BY <1>1 DEF FrameFits, IsFrame
  <2> QED BY <2>1, Fields
<1>3. f.of = Top.of /\ f.rest = Tail(Top.rest) /\ f.key = key /\ f.out = Top.out
  OBVIOUS
<1>4. /\ Source.py = written[Top.of].py
      /\ Head(Top.rest) = written[Top.of].items[Len(Top.out) + 1]
      /\ EndOf(Tail(Top.rest), written[Top.of].items)
      /\ Len(Top.out) + 1 + Len(Tail(Top.rest)) = Len(written[Top.of].items)
  BY NextIs, Innermost
<1>5. f = [of |-> f.of, rest |-> f.rest, key |-> f.key, out |-> f.out]
  OBVIOUS
<1> HIDE DEF f
<1>6. FrameFits(heap, written, f, 1)
  BY <1>1, <1>3, <1>4, <1>5 DEF FrameFits
<1> QED BY <1>2, <1>6

LEMMA Turns ==
  ASSUME WalkInv, NextKey \/ NextListed, ~Fail("TypeError")
  PROVE  /\ pc = "next" /\ pc' = "enter" /\ frames # <<>> /\ Top.rest # <<>> /\ pc # "done"
         /\ Source.py # "iterator" /\ value' = Referred(Source.py, Head(Top.rest))
         /\ UNCHANGED <<heap, result, outcome, written, calm>>
         /\ \E f : /\ frames' = Append(Without(frames), f)
                   /\ f.of = Top.of /\ f.out = Top.out /\ FrameFits(heap, written, f, 1)
<1>1. pc = "next" /\ frames # <<>> /\ Top.rest # <<>> /\ calm' = calm /\ pc # "done"
  BY DEF NextKey, NextListed, WalkInv, Place
<1>2. PICK key : LET f == [Top EXCEPT !.rest = Tail(@), !.key = key]
                 IN  /\ Go("enter", Append(Below, f))
                     /\ value' = Referred(Source.py, Head(Top.rest))
                     /\ Source.py \in Mappings => key = Head(Top.rest).key
                     /\ Source.py # "iterator" /\ UNCHANGED <<heap, result>>
  <2>1. CASE NextKey
    BY <2>1 DEF NextKey, Referred, Mappings
  <2>2. CASE NextListed
    <3>1. IsFrame(Top)
      BY <1>1, TopFits DEF FrameFits, IsFrame
    <3>2. [Top EXCEPT !.rest = Tail(@)] = [Top EXCEPT !.rest = Tail(@), !.key = Top.key]
      BY <3>1, Fields
    <3>3. Source.py = "list" /\ Source.py \notin Mappings
      BY <2>2 DEF NextListed, Mappings
    <3> QED BY <2>2, <3>2, <3>3 DEF NextListed, Referred
  <2> QED BY <2>1, <2>2
<1> DEFINE f == [Top EXCEPT !.rest = Tail(@), !.key = key]
<1>3. /\ frames' = Append(Without(frames), f) /\ pc' = "enter"
      /\ UNCHANGED <<heap, result, outcome, written>>
  BY <1>1, <1>2, Innermost DEF Go, Compiling
<1>4. FrameFits(heap, written, f, 1)
  BY <1>1, <1>2, TurnFits
<1>5. f.of = Top.of /\ f.out = Top.out
  <2>1. IsFrame(Top)
    BY <1>1, TopFits DEF FrameFits, IsFrame
  <2>2. f = [of |-> Top.of, rest |-> Tail(Top.rest), key |-> key, out |-> Top.out]
    BY <2>1, Fields
  <2> QED BY <2>2
<1> HIDE DEF f
<1> QED BY <1>1, <1>2, <1>3, <1>4, <1>5

LEMMA WalkNext ==
  ASSUME WalkInv, NextKey \/ NextListed
  PROVE  WalkInv'
<1>1. pc = "next" /\ calm' = calm /\ pc # "done"
  BY DEF NextKey, NextListed
<1>2. CASE Fail("TypeError")
  BY <1>1, <1>2, WalkFails, AtWork DEF Place
<1>3. CASE ~Fail("TypeError")
  <2>1. /\ pc = "next" /\ pc' = "enter" /\ frames # <<>> /\ Top.rest # <<>>
        /\ Source.py # "iterator" /\ value' = Referred(Source.py, Head(Top.rest))
        /\ UNCHANGED <<heap, result, outcome, written, calm>>
    BY <1>3, Turns
  <2>2. PICK f : /\ frames' = Append(Without(frames), f)
                 /\ f.of = Top.of /\ FrameFits(heap, written, f, 1)
    BY <1>3, Turns
  <2>3. value' \in DOMAIN written
    <3>1. /\ Len(Top.out) + 1 \in DOMAIN written[Top.of].items
          /\ Head(Top.rest) = written[Top.of].items[Len(Top.out) + 1]
          /\ Source.py = written[Top.of].py
      BY <1>1, <2>1, NextIs, Innermost
    <3> QED BY <1>1, <2>1, <3>1, NextIs
  <2>4. FramesFit(heap, written, frames', TRUE)
    BY <1>1, <2>1, <2>2, AtWork, Innermost, FramesTurn
  <2>5. value' \in DOMAIN heap
    BY <1>1, <2>3, AtWork, AsItIs
  <2>6. Place'
    BY <1>1, <2>1, <2>3, <2>5 DEF WalkInv, Place
  <2> QED BY <1>1, <2>1, <2>4, <2>6 DEF WalkInv
<1> QED BY <1>2, <1>3

LEMMA WalkAsked ==
  ASSUME WalkInv, NextAsked
  PROVE  WalkInv'
<1>1. /\ pc = "next" /\ pc' = "enter" /\ frames' = frames /\ frames # <<>> /\ pc # "done"
      /\ Source.py = "iterator" /\ Source.items # <<>> /\ value' = Head(Source.items)
      /\ heap' = [heap EXCEPT ![Top.of].items = Tail(@)]
      /\ UNCHANGED <<result, outcome, written, calm>>
  BY DEF NextAsked, Go, Compiling, WalkInv, Place
<1>2. /\ Top.of \in DOMAIN written /\ written[Top.of].py = "iterator"
      /\ EndOf(Source.items, written[Top.of].items)
  <2>1. Top.of \in DOMAIN written /\ written[Top.of].py = "iterator"
    BY <1>1, Innermost
  <2> QED BY <1>1, <2>1, AtWork, AsItIs DEF Source, Containers, Iterables
<1>3. /\ AsReturned(heap', written) /\ Fresh(heap', Len(written)) /\ Grows(heap, heap')
      /\ DOMAIN heap' = DOMAIN heap
  BY <1>1, <1>2, AtWork, HeapAsked DEF Source
<1>4. value' \in DOMAIN written
  <2> DEFINE n == Len(written[Top.of].items) - Len(Source.items) + 1
  <2>1. n \in DOMAIN written[Top.of].items /\ Head(Source.items) = written[Top.of].items[n]
    BY <1>1, <1>2, EndGoesOn
  <2>2. Referred(written[Top.of].py, written[Top.of].items[n]) \in DOMAIN written
    BY <1>1, <1>2, <2>1, AtWork, AsItIs DEF Containers, Iterables
  <2> QED BY <1>1, <1>2, <2>1, <2>2 DEF Referred, Mappings
<1>5. FramesFit(heap', written, frames, TRUE)
  <2>1. FrameFits(heap, written, Top, 0)
    BY <1>1, TopFits
  <2>2. FrameFits(heap, written, Top, 1)
    BY <1>2, <2>1 DEF FrameFits, Mappings
  <2>3. FrameFits(heap', written, Last(frames), 1)
    BY <1>1, <1>3, <2>2, Innermost, FrameGrows
  <2> QED BY <1>1, <1>3, <2>3, AtWork, FramesAwait
<1>6. value' \in DOMAIN heap
  BY <1>1, <1>4, AtWork, AsItIs
<1>7. Place'
  BY <1>1, <1>3, <1>4, <1>6 DEF WalkInv, Place
<1> QED BY <1>1, <1>3, <1>5, <1>7 DEF WalkInv

(* What is put in: a value under the key it was read for, or an item.      *)
Item == IF Source.py \in Mappings THEN [key |-> Top.key, value |-> result] ELSE result

LEMMA ItemIs == Referred(Source.py, Item) = result
  BY DEF Referred, Item

LEMMA CollectPuts ==
  ASSUME WalkInv, Collect
  PROVE  /\ pc = "return" /\ pc' = "next" /\ frames # <<>> /\ pc # "done"
         /\ UNCHANGED <<heap, value, result, outcome, written, calm>>
         /\ FrameFits(heap, written, Top, 1) /\ Len(Top.out) \in Nat
         /\ \E f : /\ frames' = Append(Without(frames), f)
                   /\ f.of = Top.of /\ f.rest = Top.rest /\ f.key = Top.key
                   /\ f = [of |-> f.of, rest |-> f.rest, key |-> f.key, out |-> f.out]
                   /\ IsSeq(f.out) /\ Len(f.out) = Len(Top.out) + 1
                   /\ f.out[Len(Top.out) + 1] = Item
                   /\ \A i \in DOMAIN Top.out : f.out[i] = Top.out[i]
                   /\ DOMAIN Top.out = 1 .. Len(Top.out) /\ DOMAIN f.out = 1 .. Len(Top.out) + 1
<1> DEFINE f == [Top EXCEPT !.out = Append(@, Item)]
<1>1. /\ pc = "return" /\ pc' = "next" /\ frames # <<>> /\ pc # "done"
      /\ frames' = Append(Below, f)
      /\ UNCHANGED <<heap, value, result, outcome, written, calm>>
  BY DEF Collect, Go, Compiling, Item
<1>2. Waiting(frames, Len(frames), TRUE) = 1
  BY DEF Waiting
<1>3. FrameFits(heap, written, Top, 1) /\ Below = Without(frames)
  BY <1>1, <1>2, Innermost
<1>4. /\ f = [of |-> Top.of, rest |-> Top.rest, key |-> Top.key, out |-> Append(Top.out, Item)]
      /\ IsSeq(Top.out) /\ Len(Top.out) \in Nat /\ DOMAIN Top.out = 1 .. Len(Top.out)
  <2>1. IsFrame(Top)
    BY <1>3 DEF FrameFits, IsFrame
  <2>2. f = [of |-> Top.of, rest |-> Top.rest, key |-> Top.key, out |-> Append(Top.out, Item)]
    BY <2>1, Fields
  <2>3. IsSeq(Top.out)
    BY <1>3 DEF FrameFits
  <2> QED BY <2>2, <2>3, Indices
<1>5. /\ f.of = Top.of /\ f.rest = Top.rest /\ f.key = Top.key /\ f.out = Append(Top.out, Item)
      /\ f = [of |-> f.of, rest |-> f.rest, key |-> f.key, out |-> f.out]
  BY <1>4
<1> HIDE DEF f
<1>6. /\ IsSeq(f.out) /\ Len(f.out) = Len(Top.out) + 1 /\ f.out[Len(Top.out) + 1] = Item
      /\ \A i \in DOMAIN Top.out : f.out[i] = Top.out[i]
      /\ DOMAIN f.out = 1 .. Len(Top.out) + 1
  BY <1>4, <1>5, OneMore, Indices
<1> QED BY <1>1, <1>3, <1>4, <1>5, <1>6

LEMMA WalkCollect ==
  ASSUME WalkInv, Collect
  PROVE  WalkInv'
<1>1. /\ pc = "return" /\ pc' = "next" /\ frames # <<>> /\ pc # "done"
      /\ UNCHANGED <<heap, value, result, outcome, written, calm>>
      /\ FrameFits(heap, written, Top, 1) /\ Len(Top.out) \in Nat
  BY CollectPuts
<1>2. PICK f : /\ frames' = Append(Without(frames), f)
               /\ f.of = Top.of /\ f.rest = Top.rest /\ f.key = Top.key
               /\ f = [of |-> f.of, rest |-> f.rest, key |-> f.key, out |-> f.out]
               /\ IsSeq(f.out) /\ Len(f.out) = Len(Top.out) + 1
               /\ f.out[Len(Top.out) + 1] = Item
               /\ \A i \in DOMAIN Top.out : f.out[i] = Top.out[i]
               /\ DOMAIN Top.out = 1 .. Len(Top.out) /\ DOMAIN f.out = 1 .. Len(Top.out) + 1
  BY CollectPuts
<1>3. Source.py = written[Top.of].py
  BY <1>1, Innermost
<1>4. ASSUME NEW i \in DOMAIN f.out
      PROVE  /\ Settled(heap, Len(written), Referred(written[Top.of].py, f.out[i]))
             /\ written[Top.of].py \in Mappings => f.out[i].key = written[Top.of].items[i].key
  <2>1. CASE i \in DOMAIN Top.out
    BY <1>1, <1>2, <2>1 DEF FrameFits
  <2>2. CASE i = Len(Top.out) + 1
    <3>1. Settled(heap, Len(written), result)
      BY <1>1, AtWork DEF Place
    <3>2. f.out[i] = Item
      BY <1>2, <2>2
    <3>3. written[Top.of].py \in Mappings => Item.key = Top.key
      BY <1>3 DEF Item
    <3>4. written[Top.of].py \in Mappings => Top.key = written[Top.of].items[Len(Top.out) + 1].key
      BY <1>1 DEF FrameFits
    <3> QED BY <1>3, <2>2, <3>1, <3>2, <3>3, <3>4, ItemIs
  <2> QED BY <1>1, <1>2, <2>1, <2>2
<1>5. FrameFits(heap, written, f, 0)
  <2>1. Len(Top.out) + 1 + Len(Top.rest) = Len(Top.out) + 1 + 0 + Len(Top.rest)
    BY <1>1
  <2> QED BY <1>1, <1>2, <1>4, <2>1 DEF FrameFits
<1>6. FramesFit(heap, written, frames', FALSE)
  BY <1>1, <1>2, <1>5, AtWork, Innermost, FramesTurn
<1>7. frames' # <<>>
  <2>1. IsSeq(frames') /\ Len(frames') = Len(frames) /\ Len(frames) \in 1 .. Len(frames)
    BY <1>1, <1>2, AtWork, LastOne
  <2> QED BY <2>1, Indices
<1>8. Place'
  BY <1>1, <1>7 DEF WalkInv, Place
<1> QED BY <1>1, <1>6, <1>8 DEF WalkInv

(* What a mapping or a list has become.                                    *)
LEMMA CloseAdds ==
  ASSUME WalkInv, Close
  PROVE  /\ pc = "next" /\ pc' = "return" /\ frames # <<>> /\ pc # "done"
         /\ frames' = Without(frames) /\ UNCHANGED <<value, outcome, written, calm>>
         /\ \E o : /\ heap' = Append(heap, o) /\ o.items = Top.out
                   /\ o.py = IF Source.py \in Mappings THEN "dict" ELSE "list"
         /\ AsReturned(heap', written) /\ Fresh(heap', Len(written)) /\ Grows(heap, heap')
         /\ Len(heap') = Len(heap) + 1 /\ result' = Len(heap')
         /\ heap'[result'].items = Top.out
         /\ heap'[result'].py = IF Source.py \in Mappings THEN "dict" ELSE "list"
         /\ \A id \in DOMAIN heap : heap'[id] = heap[id]
         /\ Settled(heap', Len(written), result')
<1> DEFINE o == [py |-> IF Source.py \in Mappings THEN "dict" ELSE "list", items |-> Top.out]
<1>1. /\ pc = "next" /\ pc' = "return" /\ frames # <<>> /\ pc # "done" /\ frames' = Without(frames)
      /\ UNCHANGED <<value, outcome, written, calm>>
      /\ heap' = Append(heap, o) /\ result' = Len(heap')
  BY Innermost DEF Close, Go, Compiling, WalkInv, Place
<1>2. FrameFits(heap, written, Top, 0) /\ Source.py = written[Top.of].py
  BY <1>1, TopFits, Innermost
<1>3. o.items = Top.out /\ o.py = IF Source.py \in Mappings THEN "dict" ELSE "list"
  OBVIOUS
<1>4. o.py \in {"dict", "list"} /\ IsSeq(o.items)
  BY <1>2 DEF FrameFits
<1>5. \A i \in DOMAIN o.items : Settled(heap, Len(written), Referred(o.py, o.items[i]))
  BY <1>2 DEF FrameFits, Referred, Mappings
<1>6. o.py = "dict" => OnceEach(o.items)
  <2> SUFFICES ASSUME Source.py \in Mappings PROVE OnceEach(Top.out)
    BY <1>3
  <2> DEFINE items == written[Top.of].items
  <2>1. OnceEach(items)
    <3>1. Top.of \in DOMAIN written /\ written \in Heaps /\ written[Top.of].py \in Mappings
      BY <1>1, <1>2, AtWork, Innermost
    <3> QED BY <3>1, Returned DEF IsObject
  <2>2. DOMAIN Top.out \subseteq DOMAIN items
    <3>1. /\ IsSeq(items) /\ IsSeq(Top.out) /\ IsSeq(Top.rest)
          /\ Len(Top.out) + Len(Top.rest) = Len(items)
      BY <1>1, NextIs DEF EndOf, Mappings
    <3>2. /\ Len(items) \in Nat /\ Len(Top.out) \in Nat /\ Len(Top.rest) \in Nat
          /\ DOMAIN items = 1 .. Len(items) /\ DOMAIN Top.out = 1 .. Len(Top.out)
      BY <3>1, Indices
    <3>3. PICK a \in Nat, b \in Nat, c \in Nat : a = Len(Top.out) /\ b = Len(Top.rest) /\ c = Len(items)
      BY <3>2
    <3>4. a + b = c
      BY <3>1, <3>3
    <3>5. 1 .. a \subseteq 1 .. c
      BY <3>4
    <3> QED BY <3>2, <3>3, <3>5
  <2>3. \A i \in DOMAIN Top.out : Top.out[i].key = items[i].key
    BY <1>2 DEF FrameFits
  <2> HIDE DEF items
  <2> QED BY <2>1, <2>2, <2>3 DEF OnceEach
<1> HIDE DEF o
<1>7. /\ AsReturned(heap', written) /\ Fresh(heap', Len(written)) /\ Grows(heap, heap')
      /\ Len(heap') = Len(heap) + 1 /\ heap'[Len(heap) + 1] = o
      /\ \A id \in DOMAIN heap : heap'[id] = heap[id]
      /\ Settled(heap', Len(written), Len(heap'))
  BY <1>1, <1>4, <1>5, <1>6, AtWork, HeapGrows
<1>8. heap'[result'] = o
  BY <1>1, <1>7
<1> QED BY <1>1, <1>3, <1>7, <1>8

LEMMA WalkClose ==
  ASSUME WalkInv, Close
  PROVE  WalkInv'
<1>1. FramesFit(heap', written, frames', TRUE)
  BY CloseAdds, AtWork, FramesReturn
<1>2. result' \in DOMAIN heap'
  BY CloseAdds DEF Settled
<1>3. value' \in DOMAIN written /\ calm' \in BOOLEAN
  BY CloseAdds DEF WalkInv, Place
<1>4. Place'
  BY CloseAdds, <1>2, <1>3 DEF WalkInv, Place
<1> QED BY CloseAdds, <1>1, <1>4 DEF WalkInv

LEMMA WalkCompile ==
  ASSUME WalkInv, Compile
  PROVE  WalkInv'
<1>1. CASE Compiles(heap, result)
  <2>1. /\ pc = "return" /\ pc' = "again" /\ frames = <<>>
        /\ UNCHANGED <<heap, frames, value, result, outcome, written, calm>>
    BY <1>1 DEF Compile
  <2>2. Place'
    BY <2>1 DEF WalkInv, Place
  <2> QED BY <2>1, <2>2 DEF WalkInv
<1>2. CASE ~Compiles(heap, result)
  <2>1. Fail("TypeError") /\ calm' \in BOOLEAN
    BY <1>2 DEF Compile, WalkInv, Place
  <2> QED BY <2>1, WalkFails
<1> QED BY <1>1, <1>2

LEMMA EmptiedKeeps ==
  ASSUME NEW w, NEW h
  PROVE  LET g == [ id \in DOMAIN h |-> IF id \in DOMAIN w /\ h[id].py \in Containers
                                        THEN [h[id] EXCEPT !.items = <<>>] ELSE h[id] ]
         IN  DOMAIN g = DOMAIN h
  OBVIOUS

LEMMA WalkAgain ==
  ASSUME WalkInv, CompileAgain
  PROVE  WalkInv'
<1>1. /\ pc = "again" /\ pc' = "done" /\ outcome' = "accepted" /\ heap' \in {heap, Emptied(heap)}
      /\ UNCHANGED <<frames, value, result, written, calm>>
  BY DEF CompileAgain
<1>2. DOMAIN heap' = DOMAIN heap
  BY <1>1 DEF Emptied
<1>3. Place'
  BY <1>1, <1>2 DEF WalkInv, Place
<1> QED BY <1>1, <1>3 DEF WalkInv

LEMMA WalkStep == WalkInv /\ [Next]_vars => WalkInv'
<1> SUFFICES ASSUME WalkInv, [Next]_vars PROVE WalkInv'
  OBVIOUS
<1>1. CASE UNCHANGED vars
  BY <1>1 DEF vars, WalkInv, Place
<1>2. CASE Start
  BY <1>2, WalkStart
<1>3. CASE Overflow \/ TooDeep \/ Itself \/ Raises
  BY <1>3, WalkRefuses
<1>4. CASE Leaf
  BY <1>4, WalkLeaf
<1>5. CASE Open
  BY <1>5, WalkOpen
<1>6. CASE NextKey \/ NextListed
  BY <1>6, WalkNext
<1>7. CASE NextAsked
  BY <1>7, WalkAsked
<1>8. CASE Collect
  BY <1>8, WalkCollect
<1>9. CASE Close
  BY <1>9, WalkClose
<1>10. CASE Compile
  BY <1>10, WalkCompile
<1>11. CASE CompileAgain
  BY <1>11, WalkAgain
<1>12. CASE Over
  BY <1>12 DEF Over, vars, WalkInv, Place
<1> QED
  BY <1>1, <1>2, <1>3, <1>4, <1>5, <1>6, <1>7, <1>8, <1>9, <1>10, <1>11, <1>12 DEF Next

LEMMA WalkInit == Init => WalkInv
<1> SUFFICES ASSUME Init PROVE WalkInv
  OBVIOUS
<1>1. /\ heap \in Heaps /\ written = heap /\ calm = TRUE /\ frames = <<>> /\ value = 1 /\ result = 1
      /\ pc = "start" /\ outcome = "running"
  BY DEF Init
<1>2. IsSeq(heap) /\ Len(heap) \in Nat /\ DOMAIN heap = 1 .. Len(heap) /\ 1 \in DOMAIN heap
  BY <1>1, Returned
<1>3. Place
  BY <1>1, <1>2 DEF Place
<1>4. AsReturned(heap, written)
  <2>1. ASSUME NEW id \in DOMAIN heap, heap[id].py = "iterator"
        PROVE  /\ heap[id] = [py |-> "iterator", items |-> heap[id].items]
               /\ EndOf(heap[id].items, heap[id].items)
    <3>1. /\ heap[id] = [py |-> heap[id].py, items |-> heap[id].items] /\ IsSeq(heap[id].items)
      BY <1>1, <2>1, Returned DEF IsObject, Containers, Iterables
    <3> QED BY <2>1, <3>1, WholeIsItsEnd
  <2> QED BY <1>1, <1>2, <2>1 DEF AsReturned
<1>5. Fresh(heap, Len(written))
  BY <1>1, <1>2 DEF Fresh
<1>6. FramesFit(heap, written, frames, TRUE)
  <2>1. IsSeq(frames) /\ DOMAIN frames = {}
    BY <1>1, Nothing
  <2>2. OfMappings(written, frames) = {}
    BY <2>1 DEF OfMappings
  <2>3. Cardinality({}) = 0
    BY FS_EmptySet
  <2> QED BY <2>1, <2>2, <2>3, LimitAssumption DEF FramesFit
<1> QED BY <1>1, <1>3, <1>4, <1>5, <1>6 DEF WalkInv

(* No object is being read twice at a time, at no more levels than are let *)
(* through.                                                                *)
Bounded ==
  /\ depth <= MaxSpecDepth + 1
  /\ \A i, j \in DOMAIN frames : frames[i].of = frames[j].of => i = j

AtEnd == pc = "done"

LEMMA BoundedAtWork == WalkInv /\ ~AtEnd => Bounded
<1> SUFFICES ASSUME WalkInv, pc # "done" PROVE Bounded
  BY DEF AtEnd
<1>1. depth <= MaxSpecDepth + 1
  BY DepthIs, AtWork DEF FramesFit
<1>2. \A i, j \in DOMAIN frames : frames[i].of = frames[j].of => i = j
  BY AtWork DEF FramesFit
<1> QED BY <1>1, <1>2 DEF Bounded

(* The last step leaves the calls as they are, or there are none.          *)
LEMMA BoundedAtEnd == WalkInv /\ Bounded /\ [Next]_vars /\ AtEnd' => Bounded'
<1> SUFFICES ASSUME WalkInv, Bounded, [Next]_vars, pc' = "done" PROVE Bounded'
  BY DEF AtEnd
<1>1. CASE UNCHANGED <<heap, frames>>
  BY <1>1 DEF Bounded, depth
<1>2. CASE frames' = <<>>
  <2>1. DOMAIN frames' = {}
    BY <1>2, Nothing
  <2>2. depth' = Cardinality({ i \in DOMAIN frames' : heap'[frames'[i].of].py \in Mappings })
    BY DEF depth
  <2>3. depth' = 0
    BY <2>1, <2>2, FS_EmptySet
  <2> QED BY <2>1, <2>3, LimitAssumption DEF Bounded
<1>3. UNCHANGED <<heap, frames>> \/ frames' = <<>>
  <2>1. CASE CompileAgain
    BY <2>1 DEF CompileAgain, WalkInv, Place
  <2>2. CASE \E kind \in {"TypeError", "raised", "RecursionError"} : Fail(kind)
    BY <2>2 DEF Fail
  <2>3. CASE UNCHANGED vars
    BY <2>3 DEF vars
  <2> QED
    BY <2>1, <2>2, <2>3
    DEF Next, Start, Overflow, TooDeep, Leaf, Itself, Open, Raises, Raised, NextKey, NextListed,
        NextAsked, Collect, Close, Compile, Over, Go
<1> QED BY <1>1, <1>2, <1>3

(* The variables have their types whatever an adapter returns; no object   *)
(* is being read twice at a time, and no deeper than the cap lets through  *)
(* (_materialise).                                                         *)
THEOREM WalkTyped == Spec => []TypeOK
<1>1. WalkInv /\ Bounded => TypeOK
  BY DEF WalkInv, Place, TypeOK, Bounded, Settled
<1>2. Init => ~AtEnd
  BY DEF Init, AtEnd
<1> QED BY <1>1, <1>2, BoundedAtWork, BoundedAtEnd, WalkInit, WalkStep, PTL DEF Spec

-----------------------------------------------------------------------------
(* CopyInv, step by step.                                                  *)

LEMMA AlikeStays ==
  ASSUME NEW h, NEW g, NEW w, NEW C, Alike(h, w, C), \A p \in C : Settled(h, Len(w), p[1]),
         DOMAIN h \subseteq DOMAIN g,
         \A id \in DOMAIN h : Settled(h, Len(w), id) => g[id] = h[id]
  PROVE  Alike(g, w, C) /\ \A p \in C : Settled(g, Len(w), p[1])
<1>1. ASSUME NEW p \in C PROVE p[1] \in DOMAIN h /\ g[p[1]] = h[p[1]] /\ p[2] \in DOMAIN w
  BY DEF Alike
<1>2. C \subseteq (DOMAIN g) \X (DOMAIN w)
  BY DEF Alike
<1>3. ASSUME NEW p \in C PROVE SameRead(g[p[1]], w[p[2]], C)
  BY <1>1 DEF Alike
<1>4. ASSUME NEW p \in C PROVE Settled(g, Len(w), p[1])
  BY <1>1 DEF Settled
<1> QED BY <1>2, <1>3, <1>4 DEF Alike

LEMMA SameReadMore ==
  ASSUME NEW a, NEW b, NEW C, NEW D, C \subseteq D, SameRead(a, b, C)
  PROVE  SameRead(a, b, D)
  BY DEF SameRead

(* One more pair.                                                          *)
LEMMA AlikeMore ==
  ASSUME NEW h, NEW w, NEW C, Alike(h, w, C), \A p \in C : Settled(h, Len(w), p[1]),
         NEW x, Settled(h, Len(w), x), NEW y \in DOMAIN w, SameRead(h[x], w[y], C)
  PROVE  LET D == C \cup {<<x, y>>}
         IN  Alike(h, w, D) /\ C \subseteq D /\ \A p \in D : Settled(h, Len(w), p[1])
<1> DEFINE D == C \cup {<<x, y>>}
<1>1. x \in DOMAIN h
  BY DEF Settled
<1>2. D \subseteq (DOMAIN h) \X (DOMAIN w) /\ C \subseteq D
  BY <1>1 DEF Alike
<1>3. ASSUME NEW p \in D PROVE SameRead(h[p[1]], w[p[2]], D) /\ Settled(h, Len(w), p[1])
  <2>1. CASE p \in C
    BY <1>2, <2>1, SameReadMore DEF Alike
  <2>2. CASE p = <<x, y>>
    <3>1. p[1] = x /\ p[2] = y
      BY <2>2
    <3> HIDE DEF D
    <3> QED BY <1>2, <3>1, SameReadMore
  <2> QED BY <2>1, <2>2
<1> HIDE DEF D
<1>4. Alike(h, w, D) /\ C \subseteq D /\ \A p \in D : Settled(h, Len(w), p[1])
  BY <1>2, <1>3 DEF Alike
<1> QED BY <1>4 DEF D

LEMMA CopiedStays ==
  ASSUME NEW h, NEW g, NEW w, NEW f, NEW waits, NEW C, NEW D, C \subseteq D,
         Copied(h, w, f, waits, C), w[f.of].py = "iterator" => g[f.of] = h[f.of]
  PROVE  Copied(g, w, f, waits, D)
  BY DEF Copied

(* All calls but the last, if any is left, are as they were.               *)
LEMMA CopiesMove ==
  ASSUME NEW h, NEW g, NEW w, NEW fs, NEW ft, NEW busy, NEW now, NEW C, NEW D, C \subseteq D,
         Copies(h, w, fs, busy, C), Alike(g, w, D), \A p \in D : Settled(g, Len(w), p[1]),
         IsSeq(fs), IsSeq(ft), Len(ft) <= Len(fs),
         \A k \in DOMAIN ft :
           /\ ft[k].of = fs[k].of
           /\ k < Len(ft) => /\ ft[k] = fs[k]
                             /\ w[fs[k].of].py = "iterator" => g[fs[k].of] = h[fs[k].of]
           /\ k = Len(ft) => Copied(g, w, ft[k], Waiting(ft, k, now), D)
  PROVE  Copies(g, w, ft, now, D)
<1>1. /\ Len(fs) \in Nat /\ DOMAIN fs = 1 .. Len(fs)
      /\ Len(ft) \in Nat /\ DOMAIN ft = 1 .. Len(ft)
  BY Indices
<1>2. ASSUME NEW k \in DOMAIN ft
      PROVE  ft[k].of = Awaited(w, ft, k - 1) /\ Copied(g, w, ft[k], Waiting(ft, k, now), D)
  <2>1. k \in DOMAIN fs /\ k \in Nat
    BY <1>1
  <2>2. ft[k].of = Awaited(w, fs, k - 1)
    BY <2>1 DEF Copies
  <2>3. Awaited(w, ft, k - 1) = Awaited(w, fs, k - 1)
    <3>1. CASE k = 1
      BY <3>1 DEF Awaited
    <3>2. CASE k # 1
      <4>1. k - 1 \in DOMAIN ft /\ k - 1 < Len(ft)
        BY <1>1, <3>2
      <4>2. ft[k - 1] = fs[k - 1]
        BY <4>1
      <4> QED BY <4>2 DEF Awaited
    <3> QED BY <3>1, <3>2
  <2>4. Copied(g, w, ft[k], Waiting(ft, k, now), D)
    <3>1. CASE k = Len(ft)
      BY <3>1
    <3>2. CASE k # Len(ft)
      <4>1. k < Len(ft) /\ k < Len(fs)
        BY <1>1, <3>2
      <4>2. Waiting(ft, k, now) = 1 /\ Waiting(fs, k, busy) = 1
        BY <4>1 DEF Waiting
      <4>3. Copied(h, w, fs[k], 1, C) /\ ft[k] = fs[k]
        BY <2>1, <4>1, <4>2 DEF Copies
      <4>4. w[fs[k].of].py = "iterator" => g[fs[k].of] = h[fs[k].of]
        BY <4>1
      <4> QED BY <4>2, <4>3, <4>4, CopiedStays
    <3> QED BY <3>1, <3>2
  <2> QED BY <2>2, <2>3, <2>4
<1> QED BY <1>2 DEF Copies

(* One more call, for what is awaited.                                     *)
LEMMA CopiesCall ==
  ASSUME NEW h, NEW w, NEW fs, NEW C, Copies(h, w, fs, TRUE, C), IsSeq(fs),
         NEW f, f.of = Awaited(w, fs, Len(fs)), Copied(h, w, f, 0, C)
  PROVE  Copies(h, w, Append(fs, f), FALSE, C)
<1> DEFINE ft == Append(fs, f)
           n  == Len(fs)
<1>1. n \in Nat /\ DOMAIN fs = 1 .. n
  BY Indices
<1>2. IsSeq(ft) /\ Len(ft) = n + 1 /\ ft[n + 1] = f /\ \A i \in 1 .. n : ft[i] = fs[i]
  BY OneMore
<1>3. DOMAIN ft = 1 .. n + 1
  BY <1>2, Indices
<1> HIDE DEF ft
<1>4. ASSUME NEW k \in DOMAIN ft
      PROVE  ft[k].of = Awaited(w, ft, k - 1) /\ Copied(h, w, ft[k], Waiting(ft, k, FALSE), C)
  <2>1. Awaited(w, ft, k - 1) = Awaited(w, fs, k - 1)
    <3>1. CASE k = 1
      BY <3>1 DEF Awaited
    <3>2. CASE k # 1
      <4>1. k - 1 \in 1 .. n
        BY <1>1, <1>3, <3>2
      <4>2. ft[k - 1] = fs[k - 1]
        BY <1>2, <4>1
      <4> QED BY <4>2 DEF Awaited
    <3> QED BY <3>1, <3>2
  <2>2. CASE k = n + 1
    <3>1. k - 1 = n /\ Waiting(ft, k, FALSE) = 0 /\ ft[k] = f
      BY <1>1, <1>2, <2>2 DEF Waiting
    <3> QED BY <2>1, <3>1
  <2>3. CASE k # n + 1
    <3>1. k \in DOMAIN fs /\ k < Len(ft) /\ ft[k] = fs[k]
      BY <1>1, <1>2, <1>3, <2>3
    <3>2. Waiting(ft, k, FALSE) = 1 /\ Waiting(fs, k, TRUE) = 1
      BY <3>1 DEF Waiting
    <3> QED BY <2>1, <3>1, <3>2 DEF Copies
  <2> QED BY <2>2, <2>3
<1>5. Copies(h, w, ft, FALSE, C)
  BY <1>4 DEF Copies
<1> QED BY <1>5 DEF ft

LEMMA CopiesTurn ==
  ASSUME NEW h, NEW w, NEW fs, NEW busy, NEW C, Copies(h, w, fs, busy, C), IsSeq(fs), fs # <<>>,
         NEW f, f.of = Last(fs).of, NEW now \in BOOLEAN, Copied(h, w, f, IF now THEN 1 ELSE 0, C)
  PROVE  LET ft == Append(Without(fs), f)
         IN  Copies(h, w, ft, now, C) /\ Len(ft) = Len(fs) /\ ft[Len(fs)] = f /\ Len(fs) # 0
<1> DEFINE ft == Append(Without(fs), f)
<1>1. /\ IsSeq(ft) /\ Len(ft) = Len(fs) /\ Len(fs) \in 1 .. Len(fs) /\ ft[Len(fs)] = f
      /\ \A i \in 1 .. Len(fs) - 1 : ft[i] = fs[i]
  BY LastOne
<1>2. Len(fs) \in Nat /\ DOMAIN ft = 1 .. Len(fs) /\ Len(ft) <= Len(fs) /\ Len(fs) # 0
  BY <1>1, Indices
<1> HIDE DEF ft
<1>3. ASSUME NEW k \in DOMAIN ft
      PROVE  /\ ft[k].of = fs[k].of
             /\ k < Len(ft) => ft[k] = fs[k]
             /\ k = Len(ft) => Copied(h, w, ft[k], Waiting(ft, k, now), C)
  <2>1. CASE k = Len(fs)
    <3>1. Waiting(ft, k, now) = IF now THEN 1 ELSE 0
      BY <1>1, <1>2, <2>1 DEF Waiting
    <3> QED BY <1>1, <1>2, <2>1, <3>1 DEF Last
  <2>2. CASE k # Len(fs)
    <3>1. k \in 1 .. Len(fs) - 1
      BY <1>2, <2>2
    <3> QED BY <1>1, <1>2, <2>2, <3>1
  <2> QED BY <2>1, <2>2
<1>4. Alike(h, w, C) /\ \A p \in C : Settled(h, Len(w), p[1])
  BY DEF Copies
<1>5. Copies(h, w, ft, now, C)
  BY <1>1, <1>2, <1>3, <1>4, CopiesMove
<1> QED BY <1>1, <1>2, <1>5 DEF ft

LEMMA CopyGoesOn ==
  ASSUME pc' # "again", calm' /\ pc' # "done" => \E C : SoFar(C)'
  PROVE  CopyInv'
  BY DEF CopyInv

LEMMA CopyFails ==
  ASSUME CopyInv, NEW kind \in {"TypeError", "raised", "RecursionError"}, Fail(kind)
  PROVE  CopyInv'
  BY DEF CopyInv, Fail

LEMMA Running ==
  ASSUME WalkInv, pc # "done"
  PROVE  outcome # "accepted" /\ calm \in BOOLEAN
  BY DEF WalkInv, Place

LEMMA CopyRefuses ==
  ASSUME WalkInv, CopyInv, Overflow \/ TooDeep \/ Itself \/ Raises
  PROVE  CopyInv'
<1>1. \E kind \in {"TypeError", "raised", "RecursionError"} : Fail(kind)
  BY DEF Overflow, TooDeep, Itself, Raises, Raised
<1> QED BY <1>1, CopyFails

LEMMA CopyStart ==
  ASSUME WalkInv, CopyInv, Start
  PROVE  CopyInv'
<1>1. CASE object.py \in Mappings
  <2>1. /\ UNCHANGED <<heap, frames, value, result, outcome, written, calm>>
        /\ pc = "start" /\ pc' = "enter"
    BY <1>1 DEF Start, Go, Compiling
  <2>2. calm' => \E C : SoFar(C)'
    BY <2>1 DEF CopyInv, SoFar
  <2>3. outcome' # "accepted"
    BY <2>1, Running
  <2> QED BY <2>1, <2>2, <2>3, CopyGoesOn
<1>2. CASE object.py \notin Mappings
  BY <1>2, CopyFails DEF Start
<1> QED BY <1>1, <1>2

LEMMA CopyLeaf ==
  ASSUME WalkInv, CopyInv, Leaf
  PROVE  CopyInv'
<1>1. /\ UNCHANGED <<heap, frames, value, outcome, written, calm>>
      /\ pc = "enter" /\ pc' = "return" /\ result' = value
      /\ heap[value].py \in {"bool", "str", "other"} /\ outcome' # "accepted"
  BY Running DEF Leaf, Enter, Go, Compiling, object
<1>2. ASSUME NEW C, SoFar(C)
      PROVE  \E D : SoFar(D)'
  <2>1. Copies(heap, written, frames, TRUE, C) /\ value = Awaited(written, frames, Len(frames))
    BY <1>1, <1>2 DEF SoFar
  <2>2. heap[value] = written[value] /\ value \in DOMAIN written /\ Settled(heap, Len(written), value)
    <3>1. value \in DOMAIN written /\ value \in DOMAIN heap /\ heap[value].py = written[value].py
      BY <1>1, AtWork DEF Place
    <3>2. heap[value] = written[value]
      BY <1>1, <3>1, AtWork, AsItIs
    <3>3. Settled(heap, Len(written), value)
      BY <1>1, <3>1 DEF Settled, Containers, Mappings, Iterables
    <3> QED BY <3>1, <3>2, <3>3
  <2>3. SameRead(heap[value], written[value], C)
    BY <1>1, <2>2 DEF SameRead, Containers, Mappings, Iterables
  <2>4. PICK D : D = C \cup {<<value, value>>}
    OBVIOUS
  <2>5. /\ Alike(heap, written, D) /\ C \subseteq D
        /\ \A p \in D : Settled(heap, Len(written), p[1])
    BY <2>1, <2>2, <2>3, <2>4, AlikeMore DEF Copies
  <2>6. <<value, value>> \in D
    BY <2>4
  <2>7. IsSeq(frames) /\ Len(frames) \in Nat /\ Len(frames) <= Len(frames)
    <3>1. IsSeq(frames)
      BY <1>1, AtWork
    <3>2. Len(frames) \in Nat
      BY <3>1, Indices
    <3> QED BY <3>1, <3>2
  <2>8. ASSUME NEW k \in DOMAIN frames
        PROVE  Copied(heap, written, frames[k], Waiting(frames, k, TRUE), D)
    BY <2>1, <2>5, CopiedStays DEF Copies
  <2>9. Copies(heap, written, frames, TRUE, D)
    BY <2>1, <2>5, <2>7, <2>8, CopiesMove
  <2>10. SoFar(D)'
    <3>1. (pc' # "next") = TRUE /\ result' = Awaited(written', frames', Len(frames'))
      BY <1>1, <2>1
    <3>2. Copies(heap', written', frames', pc' # "next", D)
      BY <1>1, <2>9, <3>1
    <3>3. <<result', Awaited(written', frames', Len(frames'))>> \in D
      BY <1>1, <2>1, <2>6
    <3> QED BY <1>1, <3>2, <3>3 DEF SoFar
  <2> QED BY <2>10
<1>3. calm' => \E D : SoFar(D)'
  BY <1>1, <1>2 DEF CopyInv
<1> QED BY <1>1, <1>3, CopyGoesOn

LEMMA OpenAdds ==
  ASSUME WalkInv, Open
  PROVE  /\ pc = "enter" /\ pc' = "next" /\ UNCHANGED <<heap, value, result, outcome, written>>
         /\ value \in DOMAIN written /\ written[value].py \in Containers /\ value \notin Seen
         /\ calm' => calm /\ (written[value].py = "iterator" => heap[value] = written[value])
         /\ \E f : frames' = Append(frames, f) /\ f.of = value /\ f.out = <<>>
<1> DEFINE rest == IF object.py = "iterator" THEN <<>> ELSE object.items
           f    == [of |-> value, rest |-> rest, key |-> NotStr, out |-> <<>>]
<1>1. /\ pc = "enter" /\ pc' = "next" /\ frames' = Append(frames, f)
      /\ UNCHANGED <<heap, value, result, outcome, written>>
      /\ object.py \in Containers /\ value \notin Seen
      /\ calm' = (calm /\ ~(object.py = "iterator" /\ object # written[value]))
  BY DEF Open, Enter, Go, Compiling
<1>2. /\ value \in DOMAIN written /\ written[value].py \in Containers
      /\ object.py = written[value].py
  BY <1>1, AtWork DEF Place, object
<1>3. f.of = value /\ f.out = <<>>
  OBVIOUS
<1> HIDE DEF f
<1>4. calm' => calm /\ (written[value].py = "iterator" => heap[value] = written[value])
  BY <1>1, <1>2 DEF object
<1> QED BY <1>1, <1>2, <1>3, <1>4

LEMMA CopyOpen ==
  ASSUME WalkInv, CopyInv, Open
  PROVE  CopyInv'
<1>1. /\ pc = "enter" /\ pc' = "next" /\ UNCHANGED <<heap, value, result, outcome, written>>
      /\ value \in DOMAIN written /\ written[value].py \in Containers
      /\ calm' => calm /\ (written[value].py = "iterator" => heap[value] = written[value])
      /\ outcome' # "accepted"
  BY OpenAdds, Running
<1>2. PICK f : frames' = Append(frames, f) /\ f.of = value /\ f.out = <<>>
  BY OpenAdds
<1>3. ASSUME NEW C, SoFar(C), calm'
      PROVE  SoFar(C)'
  <2>1. Copies(heap, written, frames, TRUE, C) /\ value = Awaited(written, frames, Len(frames))
    BY <1>1, <1>3 DEF SoFar
  <2>2. Copied(heap, written, f, 0, C)
    <3>1. written[value].py = "iterator" =>
            Len(f.out) + 0 + Len(heap[value].items) = Len(written[value].items)
      <4> SUFFICES ASSUME written[value].py = "iterator"
                   PROVE  Len(f.out) + 0 + Len(written[value].items) = Len(written[value].items)
        BY <1>1, <1>3
      <4>1. Len(f.out) = 0
        BY <1>2, Nothing
      <4>2. IsSeq(written[value].items)
        BY <1>1, AtWork, AsItIs
      <4>3. Len(written[value].items) \in Nat
        BY <4>2, Indices
      <4> QED BY <4>1, <4>3
    <3>2. DOMAIN f.out = {}
      BY <1>2, Nothing
    <3> QED BY <1>2, <3>1, <3>2 DEF Copied
  <2>3. Copies(heap, written, frames', FALSE, C)
    BY <1>1, <1>2, <2>1, <2>2, AtWork, CopiesCall
  <2> QED BY <1>1, <2>3 DEF SoFar
<1>4. calm' => \E C : SoFar(C)'
  BY <1>1, <1>3 DEF CopyInv
<1> QED BY <1>1, <1>4, CopyGoesOn

(* What is awaited is what is read next.                                   *)
LEMMA CopyNext ==
  ASSUME WalkInv, CopyInv, NextKey \/ NextListed
  PROVE  CopyInv'
<1>1. CASE Fail("TypeError")
  BY <1>1, CopyFails
<1>2. CASE ~Fail("TypeError")
  <2>1. /\ pc = "next" /\ pc' = "enter" /\ frames # <<>> /\ Top.rest # <<>> /\ pc # "done"
        /\ Source.py # "iterator" /\ value' = Referred(Source.py, Head(Top.rest))
        /\ UNCHANGED <<heap, result, outcome, written, calm>> /\ outcome' # "accepted"
    BY <1>2, Turns, Running
  <2>2. PICK f : frames' = Append(Without(frames), f) /\ f.of = Top.of /\ f.out = Top.out
    BY <1>2, Turns
  <2>3. Head(Top.rest) = written[Top.of].items[Len(Top.out) + 1]
    BY <2>1, NextIs
  <2>4. /\ Source.py = written[Top.of].py /\ Top = Last(frames) /\ IsSeq(frames)
        /\ Len(frames) \in DOMAIN frames
    BY <2>1, Innermost, AtWork
  <2>5. ASSUME NEW C, SoFar(C) PROVE SoFar(C)'
    <3>1. Copies(heap, written, frames, FALSE, C)
      BY <2>1, <2>5 DEF SoFar
    <3>2. Copied(heap, written, f, 1, C)
      <4>1. Copied(heap, written, Top, Waiting(frames, Len(frames), FALSE), C)
        BY <2>4, <3>1 DEF Copies, Last
      <4> QED BY <2>1, <2>2, <2>4, <4>1 DEF Copied
    <3>3. /\ Copies(heap, written, frames', TRUE, C) /\ Len(frames') = Len(frames)
          /\ frames'[Len(frames)] = f /\ Len(frames) # 0
      <4>1. Copied(heap, written, f, IF TRUE THEN 1 ELSE 0, C) /\ f.of = Last(frames).of
        BY <2>2, <2>4, <3>2
      <4>2. TRUE \in BOOLEAN
        OBVIOUS
      <4>3. LET ft == Append(Without(frames), f)
            IN  Copies(heap, written, ft, TRUE, C) /\ Len(ft) = Len(frames)
                /\ ft[Len(frames)] = f /\ Len(frames) # 0
        BY <2>1, <2>4, <3>1, <4>1, <4>2, CopiesTurn
      <4> QED BY <2>2, <4>3
    <3>4. value' = Awaited(written, frames', Len(frames'))
      BY <2>1, <2>2, <2>3, <2>4, <3>3 DEF Awaited
    <3> QED BY <2>1, <3>3, <3>4 DEF SoFar
  <2>6. calm' => \E C : SoFar(C)'
    BY <2>1, <2>5 DEF CopyInv
  <2> QED BY <2>1, <2>6, CopyGoesOn
<1> QED BY <1>1, <1>2

(* How far the innermost call is, where no iterator was met spent.         *)
LEMMA FarAs ==
  ASSUME WalkInv, pc # "done", frames # <<>>, NEW C,
         Copies(heap, written, frames, pc # "next", C)
  PROVE  /\ Copied(heap, written, Top, IF pc # "next" THEN 1 ELSE 0, C)
         /\ Len(frames) \in DOMAIN frames /\ Top = frames[Len(frames)] /\ IsSeq(frames)
         /\ Top.of = Awaited(written, frames, Len(frames) - 1)
<1>1. Len(frames) \in DOMAIN frames /\ Top = frames[Len(frames)] /\ IsSeq(frames)
  BY Innermost, AtWork DEF Last
<1>2. Len(frames) \in Nat
  BY <1>1, Indices
<1>3. Waiting(frames, Len(frames), pc # "next") = IF pc # "next" THEN 1 ELSE 0
  BY <1>2 DEF Waiting
<1> QED BY <1>1, <1>3 DEF Copies

LEMMA CopyAsked ==
  ASSUME WalkInv, CopyInv, NextAsked
  PROVE  CopyInv'
<1>1. /\ pc = "next" /\ pc' = "enter" /\ frames' = frames /\ frames # <<>> /\ pc # "done"
      /\ Source.py = "iterator" /\ Source.items # <<>> /\ value' = Head(Source.items)
      /\ heap' = [heap EXCEPT ![Top.of].items = Tail(@)]
      /\ UNCHANGED <<result, outcome, written, calm>> /\ outcome' # "accepted"
  BY Running DEF NextAsked, Go, Compiling, WalkInv, Place
<1>2. Top.of \in DOMAIN written /\ written[Top.of].py = "iterator" /\ Source = heap[Top.of]
  BY <1>1, Innermost DEF Source
<1>3. EndOf(Source.items, written[Top.of].items)
  BY <1>1, <1>2, AtWork, AsItIs DEF Containers, Iterables
<1>4. /\ DOMAIN heap' = DOMAIN heap /\ heap'[Top.of].items = Tail(Source.items)
      /\ \A x \in DOMAIN heap : x # Top.of => heap'[x] = heap[x]
  BY SMTT(30), <1>1, <1>2, AtWork, HeapAsked
<1>5. ASSUME NEW C, SoFar(C) PROVE SoFar(C)'
  <2>1. Copies(heap, written, frames, FALSE, C)
    BY <1>1, <1>5 DEF SoFar
  <2>2. /\ Copied(heap, written, Top, 0, C) /\ Len(frames) \in DOMAIN frames
        /\ Top = frames[Len(frames)] /\ IsSeq(frames)
    BY <1>1, <2>1, FarAs
  <2>3. /\ Len(Top.out) \in Nat /\ IsSeq(written[Top.of].items)
    BY <1>1, NextIs
  <2>4. /\ Len(Tail(Source.items)) = Len(Source.items) - 1
        /\ Head(Source.items)
             = written[Top.of].items[Len(written[Top.of].items) - Len(Source.items) + 1]
    BY <1>1, <1>3, EndGoesOn
  <2>5. PICK a \in Nat, b \in Nat, c \in Nat :
          a = Len(Top.out) /\ b = Len(Source.items) /\ c = Len(written[Top.of].items)
    BY <1>3, <2>3, Indices DEF EndOf
  <2>6. a + 0 + b = c
    BY <1>2, <2>2, <2>5 DEF Copied
  <2>7. a + 1 + (b - 1) = c /\ c - b + 1 = a + 1
    BY <2>6
  <2>8. Copied(heap', written, Top, 1, C)
    BY <1>2, <1>4, <2>2, <2>4, <2>5, <2>7 DEF Copied
  <2>9. Alike(heap', written, C) /\ \A p \in C : Settled(heap', Len(written), p[1])
    <3>1. ASSUME NEW id \in DOMAIN heap, Settled(heap, Len(written), id) PROVE heap'[id] = heap[id]
      <4>1. id # Top.of
        <5>1. Top.of \in 1 .. Len(written) /\ Len(written) \in Nat /\ heap[Top.of].py = "iterator"
          BY <1>1, <1>2, AtWork, Returned
        <5> QED BY <3>1, <5>1 DEF Settled, Containers, Iterables
      <4> QED BY <1>4, <4>1
    <3> QED BY <1>4, <2>1, <3>1, AlikeStays DEF Copies
  <2>10. Len(frames) \in Nat /\ DOMAIN frames = 1 .. Len(frames) /\ Len(frames) <= Len(frames)
    <3>1. Len(frames) \in Nat /\ DOMAIN frames = 1 .. Len(frames)
      BY <2>2, Indices
    <3> QED BY <3>1
  <2>11. ASSUME NEW k \in DOMAIN frames
         PROVE  /\ k < Len(frames) => heap'[frames[k].of] = heap[frames[k].of]
                /\ k = Len(frames) => Copied(heap', written, frames[k], Waiting(frames, k, TRUE), C)
    <3>1. CASE k < Len(frames)
      <4>1. k # Len(frames)
        BY <2>10, <3>1
      <4>2. frames[k].of # Top.of /\ frames[k].of \in DOMAIN written
        BY <1>1, <2>2, <4>1, AtWork DEF FramesFit, FrameFits
      <4>3. frames[k].of \in DOMAIN heap
        BY <1>1, <4>2, AtWork, AsItIs
      <4> QED BY <1>4, <4>1, <4>2, <4>3
    <3>2. CASE k = Len(frames)
      <4>1. Waiting(frames, k, TRUE) = 1 /\ frames[k] = Top
        BY <2>2, <3>2 DEF Waiting
      <4>2. ~(k < Len(frames))
        BY <2>10, <3>2
      <4> QED BY <2>8, <4>1, <4>2
    <3> QED BY <2>10, <3>1, <3>2
  <2>12. Copies(heap', written, frames, TRUE, C)
    <3>1. PICK g : g = heap'
      OBVIOUS
    <3>2. C \subseteq C
      OBVIOUS
    <3>3. \A k \in DOMAIN frames :
            /\ frames[k].of = frames[k].of
            /\ k < Len(frames) =>
                 /\ frames[k] = frames[k]
                 /\ written[frames[k].of].py = "iterator" => g[frames[k].of] = heap[frames[k].of]
            /\ k = Len(frames) => Copied(g, written, frames[k], Waiting(frames, k, TRUE), C)
      BY <2>11, <3>1
    <3>4. Alike(g, written, C) /\ \A p \in C : Settled(g, Len(written), p[1])
      BY <2>9, <3>1
    <3>5. Copies(g, written, frames, TRUE, C)
      BY <2>1, <2>2, <2>10, <3>2, <3>3, <3>4, CopiesMove
    <3> QED BY <3>1, <3>5
  <2>13. value' = Awaited(written, frames, Len(frames))
    <3>1. Len(frames) # 0
      BY <2>2, <2>10
    <3> QED BY <1>1, <1>2, <2>2, <2>4, <2>5, <2>7, <3>1 DEF Awaited, Referred, Mappings
  <2> QED BY <1>1, <2>12, <2>13 DEF SoFar
<1>6. calm' => \E C : SoFar(C)'
  BY <1>1, <1>5 DEF CopyInv
<1> QED BY <1>1, <1>6, CopyGoesOn

(* What a waiting call waits for is there.                                 *)
LEMMA AwaitedIsThere ==
  ASSUME NEW w \in Heaps, NEW h, AsReturned(h, w), NEW f, FrameFits(h, w, f, 1),
         w[f.of].py = "iterator" =>
           Len(f.out) + 1 + Len(h[f.of].items) = Len(w[f.of].items)
  PROVE  Len(f.out) + 1 \in DOMAIN w[f.of].items
<1> DEFINE left == IF w[f.of].py = "iterator" THEN h[f.of].items ELSE f.rest
<1>1. f.of \in DOMAIN w /\ w[f.of].py \in Containers /\ IsSeq(f.out)
  BY DEF FrameFits
<1>2. IsSeq(h[f.of].items) /\ IsSeq(w[f.of].items)
  BY <1>1, AsItIs
<1>3. IsSeq(left)
  <2>1. CASE w[f.of].py = "iterator"
    BY <1>2, <2>1
  <2>2. CASE w[f.of].py # "iterator"
    BY <2>2 DEF FrameFits, EndOf
  <2> QED BY <2>1, <2>2
<1>4. Len(f.out) + 1 + Len(left) = Len(w[f.of].items)
  BY DEF FrameFits
<1>5. PICK a \in Nat, b \in Nat, c \in Nat :
        a = Len(f.out) /\ b = Len(left) /\ c = Len(w[f.of].items)
  BY <1>1, <1>2, <1>3, Indices
<1> HIDE DEF left
<1>6. a + 1 + b = c
  BY <1>4, <1>5
<1>7. a + 1 \in 1 .. c
  BY <1>6
<1> QED BY <1>2, <1>5, <1>7, Indices

LEMMA CopyCollect ==
  ASSUME WalkInv, CopyInv, Collect
  PROVE  CopyInv'
<1>1. /\ pc = "return" /\ pc' = "next" /\ frames # <<>> /\ pc # "done"
      /\ UNCHANGED <<heap, value, result, outcome, written, calm>> /\ outcome' # "accepted"
      /\ FrameFits(heap, written, Top, 1) /\ Len(Top.out) \in Nat
  BY CollectPuts, Running
<1>2. PICK f : /\ frames' = Append(Without(frames), f) /\ f.of = Top.of /\ f.rest = Top.rest
               /\ IsSeq(f.out) /\ Len(f.out) = Len(Top.out) + 1
               /\ f.out[Len(Top.out) + 1] = Item
               /\ \A i \in DOMAIN Top.out : f.out[i] = Top.out[i]
               /\ DOMAIN Top.out = 1 .. Len(Top.out) /\ DOMAIN f.out = 1 .. Len(Top.out) + 1
  BY CollectPuts
<1>3. Source.py = written[Top.of].py /\ Top.of \in DOMAIN written /\ Top = Last(frames)
  BY <1>1, Innermost
<1>4. ASSUME NEW C, SoFar(C) PROVE SoFar(C)'
  <2>1. /\ Copies(heap, written, frames, TRUE, C)
        /\ <<result, Awaited(written, frames, Len(frames))>> \in C
    BY <1>1, <1>4 DEF SoFar
  <2>2. /\ Copied(heap, written, Top, 1, C) /\ Len(frames) \in DOMAIN frames
        /\ Top = frames[Len(frames)] /\ IsSeq(frames)
    BY <1>1, <2>1, FarAs
  <2>3. Len(frames) \in Nat /\ Len(frames) # 0
    BY <2>2, Indices
  <2>4. Awaited(written, frames, Len(frames))
          = Referred(written[Top.of].py, written[Top.of].items[Len(Top.out) + 1])
    BY <2>2, <2>3 DEF Awaited
  <2>6. /\ Len(Top.out) + 1 \in DOMAIN written[Top.of].items
        /\ written[Top.of].py = "iterator" =>
             Len(f.out) + 0 + Len(heap[Top.of].items) = Len(written[Top.of].items)
    <3>1. Len(Top.out) + 1 \in DOMAIN written[Top.of].items
      BY <1>1, <2>2, AtWork, AwaitedIsThere DEF Copied
    <3>2. written[Top.of].py = "iterator" =>
            Len(Top.out) + 1 + Len(heap[Top.of].items) = Len(written[Top.of].items)
      BY <2>2 DEF Copied
    <3>3. written[Top.of].py = "iterator" => IsSeq(heap[Top.of].items)
      BY <1>1, <1>3, AtWork, AsItIs DEF Containers, Iterables
    <3>4. ASSUME written[Top.of].py = "iterator"
          PROVE  Len(f.out) + 0 + Len(heap[Top.of].items) = Len(written[Top.of].items)
      <4>1. PICK a \in Nat, b \in Nat : a = Len(Top.out) /\ b = Len(heap[Top.of].items)
        BY <1>1, <3>3, <3>4, Indices
      <4>2. (a + 1) + 0 + b = a + 1 + b
        OBVIOUS
      <4> QED BY <1>2, <3>2, <3>4, <4>1, <4>2
    <3> QED BY <3>1, <3>4
  <2>7. ASSUME NEW i \in DOMAIN f.out
        PROVE  /\ i \in DOMAIN written[Top.of].items
               /\ <<Referred(written[Top.of].py, f.out[i]),
                    Referred(written[Top.of].py, written[Top.of].items[i])>> \in C
    <3>1. CASE i \in DOMAIN Top.out
      BY <1>2, <2>2, <3>1 DEF Copied
    <3>2. CASE i = Len(Top.out) + 1
      <4>1. Referred(written[Top.of].py, f.out[i]) = result
        BY <1>2, <1>3, <3>2, ItemIs
      <4> QED BY <2>1, <2>4, <2>6, <3>2, <4>1
    <3> QED BY <1>1, <1>2, <3>1, <3>2
  <2>8. Copied(heap, written, f, 0, C)
    BY <1>2, <2>6, <2>7 DEF Copied
  <2>9. Copies(heap, written, frames', FALSE, C)
    <3>1. Copied(heap, written, f, IF FALSE THEN 1 ELSE 0, C) /\ f.of = Last(frames).of
      BY <1>2, <1>3, <2>8
    <3>2. FALSE \in BOOLEAN
      OBVIOUS
    <3>3. LET ft == Append(Without(frames), f) IN Copies(heap, written, ft, FALSE, C)
      BY <1>1, <2>1, <2>2, <3>1, <3>2, CopiesTurn
    <3> QED BY <1>2, <3>3
  <2> QED BY <1>1, <2>9 DEF SoFar
<1>5. calm' => \E C : SoFar(C)'
  BY <1>1, <1>4 DEF CopyInv
<1> QED BY <1>1, <1>5, CopyGoesOn

(* The last call returns.                                                  *)
Untouched(h, g, fs) == \A k \in DOMAIN fs : g[fs[k].of] = h[fs[k].of]

LEMMA CopiesReturn ==
  ASSUME NEW h, NEW g, NEW w, NEW fs, NEW busy, NEW C, NEW D, C \subseteq D,
         Copies(h, w, fs, busy, C), Alike(g, w, D), \A p \in D : Settled(g, Len(w), p[1]),
         IsSeq(fs), fs # <<>>, Untouched(h, g, fs)
  PROVE  /\ Copies(g, w, Without(fs), TRUE, D)
         /\ Awaited(w, Without(fs), Len(Without(fs))) = Last(fs).of
<1> DEFINE ft == Without(fs)
<1>1. /\ IsSeq(ft) /\ Len(ft) = Len(fs) - 1 /\ Len(fs) \in 1 .. Len(fs)
      /\ \A i \in 1 .. Len(fs) - 1 : ft[i] = fs[i]
  BY OneLess
<1>2. Len(fs) \in Nat /\ DOMAIN fs = 1 .. Len(fs) /\ DOMAIN ft = 1 .. Len(fs) - 1 /\ Len(ft) <= Len(fs)
  BY <1>1, Indices
<1> HIDE DEF ft
<1>3. ASSUME NEW k \in DOMAIN ft
      PROVE  /\ ft[k] = fs[k] /\ g[fs[k].of] = h[fs[k].of]
             /\ Copied(g, w, ft[k], Waiting(ft, k, TRUE), D)
  <2>1. ft[k] = fs[k] /\ k \in DOMAIN fs /\ k < Len(fs)
    BY <1>1, <1>2
  <2>2. Waiting(ft, k, TRUE) = 1 /\ Waiting(fs, k, busy) = 1
    BY <2>1 DEF Waiting
  <2>3. Copied(h, w, fs[k], 1, C)
    BY <2>1, <2>2 DEF Copies
  <2>4. Copied(g, w, fs[k], 1, D)
    BY <2>1, <2>3, CopiedStays DEF Untouched
  <2> QED BY <2>1, <2>2, <2>4 DEF Untouched
<1>4. \A k \in DOMAIN ft :
        /\ ft[k].of = fs[k].of
        /\ k < Len(ft) => /\ ft[k] = fs[k]
                          /\ w[fs[k].of].py = "iterator" => g[fs[k].of] = h[fs[k].of]
        /\ k = Len(ft) => Copied(g, w, ft[k], Waiting(ft, k, TRUE), D)
  BY <1>3
<1>5. Copies(g, w, ft, TRUE, D)
  <2>1. PICK now : now = TRUE
    OBVIOUS
  <2>2. \A k \in DOMAIN ft :
          /\ ft[k].of = fs[k].of
          /\ k < Len(ft) => /\ ft[k] = fs[k]
                            /\ w[fs[k].of].py = "iterator" => g[fs[k].of] = h[fs[k].of]
          /\ k = Len(ft) => Copied(g, w, ft[k], Waiting(ft, k, now), D)
    BY <1>4, <2>1
  <2>3. Copies(g, w, ft, now, D)
    BY <1>1, <1>2, <2>2, CopiesMove
  <2> QED BY <2>1, <2>3
<1>6. Awaited(w, ft, Len(ft)) = Last(fs).of
  <2>1. Last(fs).of = Awaited(w, fs, Len(fs) - 1)
    BY <1>1, <1>2 DEF Copies, Last
  <2>2. CASE Len(fs) = 1
    <3>1. Len(ft) = 0 /\ Len(fs) - 1 = 0
      BY <1>1, <2>2
    <3> QED BY <2>1, <3>1 DEF Awaited
  <2>3. CASE Len(fs) # 1
    <3>1. Len(fs) - 1 \in 1 .. Len(fs) - 1 /\ Len(fs) - 1 # 0
      BY <1>2, <1>1, <2>3
    <3>2. ft[Len(fs) - 1] = fs[Len(fs) - 1]
      BY <1>1, <3>1
    <3> QED BY <1>1, <2>1, <3>1, <3>2 DEF Awaited
  <2> QED BY <2>2, <2>3
<1> QED BY <1>5, <1>6 DEF ft

(* All that a mapping or an iterable held has been read.                   *)
LEMMA AllIsRead ==
  ASSUME WalkInv, Close, NEW C, Copied(heap, written, Top, 0, C)
  PROVE  SameRead(heap'[result'], written[Top.of], C)
<1> DEFINE items == written[Top.of].items
<1>1. /\ pc = "next" /\ frames # <<>> /\ pc # "done"
      /\ heap'[result'].items = Top.out /\ Fresh(heap', Len(written))
      /\ Settled(heap', Len(written), result')
      /\ heap'[result'].py = IF Source.py \in Mappings THEN "dict" ELSE "list"
  BY CloseAdds
<1>2. /\ FrameFits(heap, written, Top, 0) /\ Top.of \in DOMAIN written
      /\ Source.py = written[Top.of].py /\ written \in Heaps
  BY <1>1, TopFits, Innermost, AtWork
<1>3. IsSeq(items) /\ IsSeq(Top.out) /\ written[Top.of].py \in Containers
  BY <1>1, <1>2, NextIs DEF FrameFits
<1>4. Len(Top.out) = Len(items)
  <2> DEFINE left == IF written[Top.of].py = "iterator" THEN heap[Top.of].items ELSE Top.rest
  <2>1. left = <<>>
    BY <1>2 DEF Close, Source
  <2>2. Len(Top.out) + 0 + Len(left) = Len(items)
    BY <1>2 DEF FrameFits, Copied
  <2>3. PICK a \in Nat, c \in Nat : a = Len(Top.out) /\ c = Len(items)
    BY <1>3, Indices
  <2> HIDE DEF left, items
  <2>4. a + 0 + 0 = c
    BY <2>1, <2>2, <2>3, Nothing
  <2> QED BY <2>3, <2>4
<1>5. DOMAIN Top.out = DOMAIN items
  BY <1>3, <1>4, Indices
<1>6. Source.py \in Mappings => OnceEach(Top.out)
  <2> SUFFICES ASSUME Source.py \in Mappings PROVE OnceEach(Top.out)
    OBVIOUS
  <2>1. OnceEach(items)
    BY <1>2, Returned DEF IsObject
  <2>2. \A i \in DOMAIN Top.out : Top.out[i].key = items[i].key
    BY <1>2 DEF FrameFits
  <2> HIDE DEF items
  <2> QED BY <1>5, <2>1, <2>2 DEF OnceEach
<1>7. ASSUME NEW i \in DOMAIN Top.out
      PROVE  <<Referred(heap'[result'].py, Top.out[i]), Referred(written[Top.of].py, items[i])>> \in C
  <2>1. Referred(heap'[result'].py, Top.out[i]) = Referred(written[Top.of].py, Top.out[i])
    BY <1>1, <1>2 DEF Referred, Mappings
  <2> QED BY <2>1 DEF Copied
<1>8. PICK a : a = heap'[result']
  OBVIOUS
<1>9. /\ a.py \in Containers /\ (a.py \in Mappings <=> written[Top.of].py \in Mappings)
      /\ a.items = Top.out
  BY <1>1, <1>2, <1>8 DEF Containers, Mappings, Iterables
<1>10. a.py \in Mappings => \A i \in DOMAIN a.items : a.items[i].key = items[i].key
  BY <1>2, <1>9 DEF FrameFits
<1>11. SameRead(a, written[Top.of], C)
  BY <1>2, <1>3, <1>4, <1>6, <1>7, <1>8, <1>9, <1>10 DEF SameRead
<1> QED BY <1>8, <1>11

LEMMA CopyClose ==
  ASSUME WalkInv, CopyInv, Close
  PROVE  CopyInv'
<1>1. /\ pc = "next" /\ pc' = "return" /\ frames # <<>> /\ pc # "done"
      /\ frames' = Without(frames) /\ UNCHANGED <<value, outcome, written, calm>>
      /\ Grows(heap, heap') /\ \A id \in DOMAIN heap : heap'[id] = heap[id]
      /\ Settled(heap', Len(written), result') /\ outcome' # "accepted"
  BY CloseAdds, Running
<1>2. DOMAIN heap \subseteq DOMAIN heap'
  <2>1. /\ Len(heap) \in Nat /\ DOMAIN heap = 1 .. Len(heap)
        /\ Len(heap') \in Nat /\ DOMAIN heap' = 1 .. Len(heap') /\ Len(heap) <= Len(heap')
    BY <1>1, Indices DEF Grows
  <2> QED BY <2>1
<1>3. ASSUME NEW C, SoFar(C) PROVE \E D : SoFar(D)'
  <2>1. Copies(heap, written, frames, FALSE, C)
    BY <1>1, <1>3 DEF SoFar
  <2>2. Copied(heap, written, Top, 0, C) /\ IsSeq(frames) /\ Top = Last(frames)
    BY <1>1, <2>1, FarAs DEF Last
  <2>3. PICK g, x, y, D : g = heap' /\ x = result' /\ y = Top.of /\ D = C \cup {<<x, y>>}
    OBVIOUS
  <2>4. SameRead(g[x], written[y], C) /\ Settled(g, Len(written), x) /\ y \in DOMAIN written
    BY <1>1, <2>2, <2>3, AllIsRead, Innermost
  <2>5. Alike(g, written, C) /\ \A p \in C : Settled(g, Len(written), p[1])
    <3>1. Alike(heap, written, C) /\ \A p \in C : Settled(heap, Len(written), p[1])
      BY <2>1 DEF Copies
    <3>2. DOMAIN heap \subseteq DOMAIN g /\ \A id \in DOMAIN heap : g[id] = heap[id]
      BY <1>1, <1>2, <2>3
    <3> QED BY <3>1, <3>2, AlikeStays
  <2>6. Alike(g, written, D) /\ C \subseteq D /\ \A p \in D : Settled(g, Len(written), p[1])
    BY <2>3, <2>4, <2>5, AlikeMore
  <2>7. Untouched(heap, g, frames)
    <3>1. \A k \in DOMAIN frames : frames[k].of \in DOMAIN written
      BY <1>1, AtWork DEF FramesFit, FrameFits
    <3>2. \A id \in DOMAIN written : id \in DOMAIN heap
      BY <1>1, AtWork, AsItIs
    <3> QED BY <1>1, <2>3, <3>1, <3>2 DEF Untouched
  <2>8. /\ Copies(g, written, Without(frames), TRUE, D)
        /\ Awaited(written, Without(frames), Len(Without(frames))) = Last(frames).of
    BY <1>1, <2>1, <2>2, <2>6, <2>7, CopiesReturn
  <2>9. <<x, y>> \in D
    BY <2>3
  <2>10. SoFar(D)'
    <3>1. Copies(heap', written', frames', pc' # "next", D)
      BY <1>1, <2>3, <2>8
    <3>2. <<result', Awaited(written', frames', Len(frames'))>> \in D
      BY <1>1, <2>2, <2>3, <2>8, <2>9
    <3> QED BY <1>1, <3>1, <3>2 DEF SoFar
  <2> QED BY <2>10
<1>4. calm' => \E D : SoFar(D)'
  BY <1>1, <1>3 DEF CopyInv
<1> QED BY <1>1, <1>4, CopyGoesOn

(* Compiled, what was read means what was written.                         *)
LEMMA CopyCompile ==
  ASSUME WalkInv, CopyInv, Compile
  PROVE  CopyInv'
<1>1. CASE Compiles(heap, result)
  <2>1. /\ pc = "return" /\ pc' = "again" /\ frames = <<>> /\ first' = Meaning(heap, result)
        /\ UNCHANGED <<heap, frames, value, result, outcome, second, written, calm>>
        /\ outcome # "accepted"
    BY <1>1, Running DEF Compile
  <2>2. calm' => \E C : SoFar(C)'
    BY <2>1 DEF CopyInv, SoFar
  <2>3. Compiles(heap', result') /\ first' = Meaning(heap', result')
    BY <1>1, <2>1
  <2> QED BY <2>1, <2>2, <2>3 DEF CopyInv
<1>2. CASE ~Compiles(heap, result)
  BY <1>2, CopyFails DEF Compile
<1> QED BY <1>1, <1>2

LEMMA CopyStep == WalkInv /\ CopyInv /\ [Next]_vars => CopyInv'
<1> SUFFICES ASSUME WalkInv, CopyInv, [Next]_vars PROVE CopyInv'
  OBVIOUS
<1>1. CASE UNCHANGED vars
  BY <1>1 DEF vars, CopyInv, SoFar
<1>2. CASE Start
  BY <1>2, CopyStart
<1>3. CASE Overflow \/ TooDeep \/ Itself \/ Raises
  BY <1>3, CopyRefuses
<1>4. CASE Leaf
  BY <1>4, CopyLeaf
<1>5. CASE Open
  BY <1>5, CopyOpen
<1>6. CASE NextKey \/ NextListed
  BY <1>6, CopyNext
<1>7. CASE NextAsked
  BY <1>7, CopyAsked
<1>8. CASE Collect
  BY <1>8, CopyCollect
<1>9. CASE Close
  BY <1>9, CopyClose
<1>10. CASE Compile
  BY <1>10, CopyCompile
<1>11. CASE CompileAgain
  BY <1>11 DEF CompileAgain, CopyInv
<1>12. CASE Over
  BY <1>12 DEF Over, vars, CopyInv, SoFar
<1> QED
  BY <1>1, <1>2, <1>3, <1>4, <1>5, <1>6, <1>7, <1>8, <1>9, <1>10, <1>11, <1>12 DEF Next

LEMMA CopyInit == Init => CopyInv
<1> SUFFICES ASSUME Init PROVE CopyInv
  OBVIOUS
<1>1. frames = <<>> /\ pc = "start" /\ outcome = "running" /\ value = 1
  BY DEF Init
<1>2. DOMAIN frames = {} /\ Len(frames) = 0
  BY <1>1, Nothing
<1>3. Copies(heap, written, frames, pc # "next", {})
  BY <1>2 DEF Copies, Alike
<1>4. value = Awaited(written, frames, Len(frames))
  BY <1>1, <1>2 DEF Awaited
<1>5. SoFar({})
  BY <1>1, <1>3, <1>4 DEF SoFar
<1> QED BY <1>1, <1>5 DEF CopyInv

(* The two compilations.                                                   *)
Said == MeansWhatWasReturned /\ CompiledTwiceAlike

(* Nothing that a compilation reads is still the adapter's, but leaves.    *)
LEMMA EmptiedAlike ==
  ASSUME WalkInv, pc # "done", NEW g, g \in {heap, Emptied(heap)}
  PROVE  LET R == { <<id, id>> : id \in { x \in DOMAIN heap : Settled(heap, Len(written), x) } }
         IN  Alike(heap, g, R)
<1> DEFINE S == { x \in DOMAIN heap : Settled(heap, Len(written), x) }
           R == { <<id, id>> : id \in S }
<1>1. DOMAIN g = DOMAIN heap
  BY DEF Emptied
<1>2. Len(written) \in Nat /\ DOMAIN written = 1 .. Len(written)
  BY AtWork, Returned
<1>3. ASSUME NEW id \in S PROVE g[id] = heap[id]
  BY <1>2 DEF Emptied, Settled
<1>4. ASSUME NEW id \in S PROVE SameRead(heap[id], heap[id], R)
  <2>1. CASE heap[id].py \notin Containers
    BY <2>1 DEF SameRead
  <2>2. CASE heap[id].py \in Containers
    <3>1. id \in Len(written) + 1 .. Len(heap)
      <4>1. id > Len(written)
        BY <2>2 DEF Settled
      <4>2. Len(heap) \in Nat /\ DOMAIN heap = 1 .. Len(heap)
        BY AtWork, Indices
      <4> QED BY <1>2, <4>1, <4>2
    <3>2. /\ IsSeq(heap[id].items) /\ heap[id].py \in {"dict", "list"}
          /\ heap[id].py = "dict" => OnceEach(heap[id].items)
          /\ \A i \in DOMAIN heap[id].items :
               Settled(heap, Len(written), Referred(heap[id].py, heap[id].items[i]))
      BY <3>1, AtWork DEF Fresh
    <3>3. \A i \in DOMAIN heap[id].items : Referred(heap[id].py, heap[id].items[i]) \in S
      BY <3>2 DEF Settled
    <3> HIDE DEF S
    <3>4. \A i \in DOMAIN heap[id].items :
            <<Referred(heap[id].py, heap[id].items[i]), Referred(heap[id].py, heap[id].items[i])>> \in R
      BY <3>3
    <3>5. heap[id].py \in Mappings => OnceEach(heap[id].items)
      BY <3>2 DEF Mappings
    <3> HIDE DEF R
    <3> QED BY <2>2, <3>2, <3>4, <3>5 DEF SameRead
  <2> QED BY <2>1, <2>2
<1>5. R \subseteq (DOMAIN heap) \X (DOMAIN g)
  BY <1>1
<1>6. ASSUME NEW p \in R PROVE SameRead(heap[p[1]], g[p[2]], R)
  <2>1. PICK id \in S : p = <<id, id>>
    OBVIOUS
  <2>2. p[1] = id /\ p[2] = id
    BY <2>1
  <2> HIDE DEF R, S
  <2> QED BY <1>3, <1>4, <2>1, <2>2
<1> HIDE DEF R
<1>7. Alike(heap, g, R)
  BY <1>5, <1>6 DEF Alike
<1> QED BY <1>7 DEF R

LEMMA MeaningAgain ==
  ASSUME MeaningOfWhatIsRead, WalkInv, CopyInv, CompileAgain
  PROVE  Said'
<1>1. /\ pc = "again" /\ heap' \in {heap, Emptied(heap)} /\ pc # "done" /\ pc' = "done"
      /\ second' = Meaning(heap', result)
      /\ UNCHANGED <<frames, value, result, first, written, calm>>
  BY DEF CompileAgain
<1>2. Compiles(heap, result) /\ first = Meaning(heap, result)
  BY <1>1 DEF CopyInv
<1>3. first' = second'
  <2>1. PICK g : g = heap'
    OBVIOUS
  <2>2. PICK R : /\ R = { <<id, id>> : id \in { x \in DOMAIN heap : Settled(heap, Len(written), x) } }
                 /\ Alike(heap, g, R)
    BY <1>1, <2>1, EmptiedAlike
  <2>3. Settled(heap, Len(written), result) /\ result \in DOMAIN heap
    BY <1>1, AtWork DEF Place
  <2>4. <<result, result>> \in R
    BY <2>2, <2>3
  <2>5. Meaning(heap, result) = Meaning(g, result)
    <3>1. \A p \in R : Compiles(heap, p[1]) => Meaning(heap, p[1]) = Meaning(g, p[2])
      BY <2>2 DEF MeaningOfWhatIsRead
    <3>2. PICK p \in R : p[1] = result /\ p[2] = result
      BY <2>4
    <3> QED BY <1>2, <3>1, <3>2
  <2> QED BY <1>1, <1>2, <2>1, <2>5
<1>4. calm => first = Meaning(written, 1)
  <2> SUFFICES ASSUME calm PROVE first = Meaning(written, 1)
    OBVIOUS
  <2>1. PICK C : SoFar(C)
    BY <1>1 DEF CopyInv
  <2>2. Alike(heap, written, C) /\ <<result, Awaited(written, frames, Len(frames))>> \in C
    BY <1>1, <2>1 DEF SoFar, Copies
  <2>3. Awaited(written, frames, Len(frames)) = 1
    <3>1. frames = <<>>
      BY <1>1, AtWork DEF Place
    <3> QED BY <3>1, Nothing DEF Awaited
  <2>4. Meaning(heap, result) = Meaning(written, 1)
    BY <1>2, <2>2, <2>3 DEF MeaningOfWhatIsRead
  <2> QED BY <1>2, <2>4
<1> QED BY <1>1, <1>3, <1>4 DEF Said, MeansWhatWasReturned, CompiledTwiceAlike

LEMMA MeaningStep ==
  ASSUME MeaningOfWhatIsRead
  PROVE  WalkInv /\ CopyInv /\ Said /\ [Next]_vars => Said'
<1> SUFFICES ASSUME WalkInv, CopyInv, Said, [Next]_vars PROVE Said'
  OBVIOUS
<1>1. CASE UNCHANGED vars
  BY <1>1 DEF vars, Said, MeansWhatWasReturned, CompiledTwiceAlike
<1>2. CASE CompileAgain
  BY <1>2, MeaningAgain
<1>3. CASE outcome' # "accepted"
  BY <1>3 DEF Said, MeansWhatWasReturned, CompiledTwiceAlike
<1>4. UNCHANGED vars \/ CompileAgain \/ outcome' # "accepted"
  <2>1. pc # "done" => outcome # "accepted"
    BY DEF WalkInv, Place
  <2> QED
    BY <2>1
    DEF Next, Start, Overflow, TooDeep, Leaf, Itself, Open, Raises, Raised, NextKey, NextListed,
        NextAsked, Collect, Close, Compile, Over, Go, Enter, Fail
<1> QED BY <1>1, <1>2, <1>3, <1>4

LEMMA MeaningInit == Init => Said
  BY DEF Init, Said, MeansWhatWasReturned, CompiledTwiceAlike

(* What is compiled first means what the adapter returned, where no        *)
(* iterator was met once spent (_materialise): given that a meaning is of  *)
(* what a compilation reads.                                               *)
THEOREM FirstMeansWhatWasReturned ==
  ASSUME MeaningOfWhatIsRead PROVE Spec => []MeansWhatWasReturned
<1>1. Said => MeansWhatWasReturned
  BY DEF Said
<1>2. WalkInv /\ CopyInv /\ Said /\ [Next]_vars => Said'
  BY MeaningStep
<1> QED
  BY <1>1, <1>2, WalkInit, WalkStep, CopyInit, CopyStep, MeaningInit, PTL DEF Spec

(* Both compilations mean the same, whatever the adapter does to its own   *)
(* objects in between (_materialise): given the same.                      *)
THEOREM SecondMeansTheSame ==
  ASSUME MeaningOfWhatIsRead PROVE Spec => []CompiledTwiceAlike
<1>1. Said => CompiledTwiceAlike
  BY DEF Said
<1>2. WalkInv /\ CopyInv /\ Said /\ [Next]_vars => Said'
  BY MeaningStep
<1> QED
  BY <1>1, <1>2, WalkInit, WalkStep, CopyInit, CopyStep, MeaningInit, PTL DEF Spec

(* The equations of RulesWithin.                                           *)
LEMMA RulesWithinLevels ==
  ASSUME NEW h, NEW mode
  PROVE  /\ RulesWithin(h, mode)[0] = {}
         /\ \A n \in Nat :
              RulesWithin(h, mode)[n + 1]
                = { o \in DOMAIN h :
                      IsRule(h, o, n + 1 > MaxSpecDepth, RulesWithin(h, mode)[n], mode) }
<1> DEFINE D    == SUBSET DOMAIN h
           Up(n, S) == { o \in DOMAIN h : IsRule(h, o, n > MaxSpecDepth, S, mode) }
           step == [n \in Nat |-> [S \in D |-> Up(n + 1, S)]]
           E(g) == [n \in Nat |-> IF n = 0 THEN {} ELSE Up(n, g[n - 1])]
           r    == RulesWithin(h, mode)
<1>1. PICK f \in [Nat -> D] : f = [n \in Nat |-> IF n = 0 THEN {} ELSE step[n - 1][f[n - 1]]]
  <2>1. {} \in D /\ step \in [Nat -> [D -> D]]
    OBVIOUS
  <2> HIDE DEF D, step
  <2> QED BY <2>1, Recursion
<1>2. f = E(f)
  <2> HIDE DEF Up, D
  <2>1. ASSUME NEW n \in Nat, n # 0 PROVE step[n - 1][f[n - 1]] = Up(n, f[n - 1])
    <3>1. n - 1 \in Nat /\ (n - 1) + 1 = n
      BY <2>1
    <3> QED BY <3>1
  <2> HIDE DEF step
  <2> QED BY <1>1, <2>1
<1>3. r = E(r)
  <2>1. r = CHOOSE g : g = E(g)
    BY DEF RulesWithin
  <2> HIDE DEF E, r
  <2> QED BY <1>2, <2>1
<1> HIDE DEF r, Up
<1>4. r[0] = {}
  BY <1>3
<1>5. ASSUME NEW n \in Nat PROVE r[n + 1] = Up(n + 1, r[n])
  <2>1. n + 1 \in Nat /\ n + 1 # 0 /\ (n + 1) - 1 = n
    OBVIOUS
  <2> QED BY <1>3, <2>1
<1> QED BY <1>4, <1>5 DEF r, Up

LEMMA LevelsUnfold ==
  ASSUME NEW h, NEW n \in Nat, n # 0, NEW o
  PROVE  o \in Levels(h)[n]
           <=> /\ o \in DOMAIN h
               /\ IsRule(AsRules(h), o, n > MaxSpecDepth, Levels(h)[n - 1], FALSE)
<1>1. n - 1 \in Nat /\ (n - 1) + 1 = n
  OBVIOUS
<1>2. PICK k \in Nat : k = n - 1 /\ k + 1 = n
  BY <1>1
<1>3. Levels(h)[k + 1]
        = { x \in DOMAIN AsRules(h) :
              IsRule(AsRules(h), x, k + 1 > MaxSpecDepth, Levels(h)[k], FALSE) }
  <2>1. PICK r, mode : r = AsRules(h) /\ mode = FALSE
    OBVIOUS
  <2>2. RulesWithin(r, mode)[k + 1]
          = { x \in DOMAIN r : IsRule(r, x, k + 1 > MaxSpecDepth, RulesWithin(r, mode)[k], mode) }
    BY RulesWithinLevels
  <2> QED BY <2>1, <2>2 DEF Levels
<1>4. DOMAIN AsRules(h) = DOMAIN h
  BY DEF AsRules
<1> QED BY <1>2, <1>3, <1>4

LEMMA SameInGrammar ==
  ASSUME NEW h, NEW g, NEW R, Alike(h, g, R), NEW p \in R, NEW n \in Nat, NEW M, NEW N,
         \A q \in R : q[1] \in M <=> q[2] \in N
  PROVE  IsRule(AsRules(h), p[1], n > MaxSpecDepth, M, FALSE) <=> IsRule(AsRules(g), p[2], n > MaxSpecDepth, N, FALSE)
<1> DEFINE a == h[p[1]]
           b == g[p[2]]
           ra == AsRules(h)[p[1]]
           rb == AsRules(g)[p[2]]
<1>1. p[1] \in DOMAIN h /\ p[2] \in DOMAIN g /\ SameRead(a, b, R)
  BY DEF Alike
<1>2. CASE a.py \notin Containers
  <2>1. a = b
    BY <1>1, <1>2 DEF SameRead
  <2>2. ra = a /\ rb = b
    BY <1>1, <1>2, <2>1 DEF AsRules, Containers, Iterables
  <2>3. ~IsMapping(a)
    BY <1>2 DEF IsMapping, Containers, Mappings
  <2> HIDE DEF a, b, ra, rb
  <2>4. ra = rb /\ ~IsMapping(ra)
    BY <2>1, <2>2, <2>3
  <2> USE DEF ra, rb
  <2> QED BY <2>4 DEF IsRule, OfElements
<1>3. CASE a.py \in Mappings
  <2>1. /\ b.py \in Mappings /\ IsSeq(a.items) /\ IsSeq(b.items) /\ Len(a.items) = Len(b.items)
        /\ \A i \in DOMAIN a.items : a.items[i].key = b.items[i].key
        /\ \A i \in DOMAIN a.items : <<Referred(a.py, a.items[i]), Referred(b.py, b.items[i])>> \in R
    BY <1>1, <1>3 DEF SameRead, Containers
  <2>2. ra = a /\ rb = b /\ a.py \notin Iterables /\ b.py \notin Iterables
    BY <1>1, <1>3, <2>1 DEF AsRules, Iterables, Mappings
  <2>3. DOMAIN a.items = DOMAIN b.items /\ DOMAIN a.items = 1 .. Len(a.items)
    BY <2>1, Indices
  <2>4. \A i \in DOMAIN a.items : a.items[i].value \in M <=> b.items[i].value \in N
    BY <1>3, <2>1 DEF Referred
  <2>5. /\ IsMapping(a) /\ IsMapping(b) /\ ~IsNames(a) /\ ~IsNames(b)
        /\ a.py # "bool" /\ b.py # "bool"
    BY <1>3, <2>1 DEF IsMapping, IsNames, Mappings
  <2> HIDE DEF a, b, ra, rb
  <2>6. OfElements(a) <=> OfElements(b)
    BY <2>1, <2>3, <2>5 DEF OfElements
  <2>7. OfElements(a) => 1 \in DOMAIN a.items
    BY <2>1, <2>3 DEF OfElements
  <2>8. IsRule(AsRules(h), p[1], n > MaxSpecDepth, M, FALSE)
          <=> \/ OfElements(a) /\ ~(n > MaxSpecDepth) /\ a.items[1].value \in M
              \/ /\ ~OfElements(a)
                 /\ \A i \in DOMAIN a.items :
                      a.items[i].key \notin {NotStr, Everything} /\ a.items[i].value \in M
    BY <2>2, <2>5 DEF IsRule, ra
  <2>9. IsRule(AsRules(g), p[2], n > MaxSpecDepth, N, FALSE)
          <=> \/ OfElements(b) /\ ~(n > MaxSpecDepth) /\ b.items[1].value \in N
              \/ /\ ~OfElements(b)
                 /\ \A i \in DOMAIN b.items :
                      b.items[i].key \notin {NotStr, Everything} /\ b.items[i].value \in N
    BY <2>2, <2>5 DEF IsRule, rb
  <2> QED BY <2>1, <2>3, <2>4, <2>6, <2>7, <2>8, <2>9
<1>4. CASE a.py \in Iterables
  <2>1. /\ b.py \in Iterables /\ IsSeq(a.items) /\ IsSeq(b.items) /\ Len(a.items) = Len(b.items)
        /\ \A i \in DOMAIN a.items : <<a.items[i], b.items[i]>> \in R
    BY <1>1, <1>4 DEF SameRead, Containers, Iterables, Mappings, Referred
  <2>2. DOMAIN a.items = DOMAIN b.items
    BY <2>1, Indices
  <2> DEFINE Name(k, item) == IF k[item].py = "str" THEN k[item].text ELSE NotStr
  <2>3. /\ ra.items = [i \in DOMAIN a.items |-> Name(h, a.items[i])]
        /\ rb.items = [i \in DOMAIN b.items |-> Name(g, b.items[i])]
        /\ ra.py \in {"names", "iterator"} /\ rb.py \in {"names", "iterator"}
    BY <1>1, <1>4, <2>1 DEF AsRules
  <2>4. ASSUME NEW i \in DOMAIN a.items PROVE Name(h, a.items[i]) = Name(g, b.items[i])
    <3>1. PICK q \in R : q[1] = a.items[i] /\ q[2] = b.items[i]
      BY <2>1
    <3>2. SameRead(h[q[1]], g[q[2]], R)
      BY DEF Alike
    <3>3. CASE h[q[1]].py \notin Containers
      BY <3>1, <3>2, <3>3 DEF SameRead
    <3>4. CASE h[q[1]].py \in Containers
      <4>1. g[q[2]].py \in Containers
        BY <3>2, <3>4 DEF SameRead
      <4> QED BY <3>1, <3>4, <4>1 DEF Containers, Mappings, Iterables
    <3> QED BY <3>3, <3>4
  <2> HIDE DEF a, b, ra, rb, Name
  <2>5. /\ ~IsMapping(ra) /\ ~IsMapping(rb) /\ IsNames(ra) /\ IsNames(rb)
        /\ ra.py # "bool" /\ rb.py # "bool"
    BY <2>3 DEF IsMapping, IsNames
  <2>6. ra.items = rb.items
    BY <2>2, <2>3, <2>4
  <2>7. Mentioned(ra) = Mentioned(rb)
    BY <2>5, <2>6 DEF Mentioned
  <2>8. /\ IsRule(AsRules(h), p[1], n > MaxSpecDepth, M, FALSE) <=> NotStr \notin Mentioned(ra)
        /\ IsRule(AsRules(g), p[2], n > MaxSpecDepth, N, FALSE) <=> NotStr \notin Mentioned(rb)
    BY <2>5 DEF IsRule, OfElements, ra, rb
  <2> QED BY <2>7, <2>8
<1> QED BY <1>2, <1>3, <1>4 DEF Containers

(* What reads the same is a rule of the same levels.                       *)
LEMMA CompilesAlike ==
  ASSUME NEW h, NEW g, NEW R, Alike(h, g, R), NEW p \in R
  PROVE  Compiles(h, p[1]) <=> Compiles(g, p[2])
<1> DEFINE H == Levels(h)
           G == Levels(g)
           T == { n \in Nat : \E q \in R : ~(q[1] \in H[n] <=> q[2] \in G[n]) }
<1>1. \A n \in Nat : \A q \in R : q[1] \in H[n] <=> q[2] \in G[n]
  <2> SUFFICES ASSUME T # {} PROVE FALSE
    OBVIOUS
  <2>1. PICK m \in T : \A k \in T : m <= k
    <3>1. T \in SUBSET Nat
      OBVIOUS
    <3> HIDE DEF T
    <3> QED BY <3>1, Least
  <2>2. PICK q \in R : ~(q[1] \in H[m] <=> q[2] \in G[m])
    OBVIOUS
  <2>3. m # 0
    BY <2>2, RulesWithinLevels DEF Levels
  <2>4. m - 1 \in Nat /\ (m - 1) + 1 = m /\ m - 1 \notin T
    BY <2>1, <2>3
  <2>5. \A r \in R : r[1] \in H[m - 1] <=> r[2] \in G[m - 1]
    BY <2>4
  <2>6. PICK M, N : M = H[m - 1] /\ N = G[m - 1]
    OBVIOUS
  <2>7. /\ q[1] \in H[m] <=> IsRule(AsRules(h), q[1], m > MaxSpecDepth, M, FALSE)
        /\ q[2] \in G[m] <=> IsRule(AsRules(g), q[2], m > MaxSpecDepth, N, FALSE)
    <3>1. m \in Nat /\ q[1] \in DOMAIN h /\ q[2] \in DOMAIN g
      BY DEF Alike
    <3> HIDE DEF T
    <3> QED BY <2>3, <2>6, <3>1, LevelsUnfold
  <2>8. /\ IsRule(AsRules(h), q[1], m > MaxSpecDepth, M, FALSE)
             <=> IsRule(AsRules(g), q[2], m > MaxSpecDepth, N, FALSE)
    <3>1. \A r \in R : r[1] \in M <=> r[2] \in N
      BY <2>5, <2>6
    <3>2. m \in Nat
      OBVIOUS
    <3> HIDE DEF T, H, G
    <3> QED BY <3>1, <3>2, SameInGrammar
  <2> QED BY <2>2, <2>7, <2>8
<1>2. MaxSpecDepth + 1 - 0 \in Nat
  BY LimitAssumption
<1> QED BY <1>1, <1>2 DEF Compiles, Grammatical, Levels

(* What is in a rule: names in an iterable, rules of a level less in a     *)
(* mapping.                                                                *)
LEMMA RuleParts ==
  ASSUME NEW w \in Heaps, NEW l \in Nat, NEW x \in Levels(w)[l]
  PROVE  /\ l # 0 /\ x \in DOMAIN w
         /\ w[x].py \in Iterables => \A i \in DOMAIN w[x].items :
              w[w[x].items[i]].py = "str"
         /\ w[x].py \in Mappings => \A i \in DOMAIN w[x].items :
              w[x].items[i].key # NotStr /\ w[x].items[i].value \in Levels(w)[l - 1]
<1> DEFINE r == AsRules(w)[x]
<1>1. l # 0
  BY RulesWithinLevels DEF Levels
<1>2. l - 1 \in Nat /\ (l - 1) + 1 = l
  BY <1>1
<1>3. PICK N : N = Levels(w)[l - 1]
  OBVIOUS
<1>5. x \in DOMAIN w /\ IsRule(AsRules(w), x, l > MaxSpecDepth, N, FALSE)
  BY <1>1, <1>3, LevelsUnfold
<1>6. CASE w[x].py \in Iterables
  <2> DEFINE Name(item) == IF w[item].py = "str" THEN w[item].text ELSE NotStr
  <2>1. /\ r.items = [i \in DOMAIN w[x].items |-> Name(w[x].items[i])]
        /\ r.py \in {"names", "iterator"}
    BY <1>5, <1>6 DEF AsRules
  <2>2. ~IsMapping(r) /\ r.py # "bool"
    BY <2>1 DEF IsMapping
  <2>3. NotStr \notin Mentioned(r)
    BY <1>5, <2>2 DEF IsRule, OfElements
  <2>4. \A i \in DOMAIN w[x].items : r.items[i] # NotStr
    BY <2>1, <2>2, <2>3 DEF Mentioned
  <2>5. \A i \in DOMAIN w[x].items : w[w[x].items[i]].py = "str"
    BY <2>1, <2>4
  <2> QED BY <1>1, <1>5, <1>6, <2>5 DEF Iterables, Mappings
<1>7. CASE w[x].py \in Mappings
  <2>1. r = w[x]
    BY <1>5, <1>7 DEF AsRules, Iterables, Mappings
  <2>2. IsMapping(r) /\ ~IsNames(r) /\ r.py # "bool"
    BY <1>7, <2>1 DEF IsMapping, IsNames, Mappings
  <2>3. IsSeq(w[x].items)
    BY <1>5, <1>7, Returned DEF IsObject, Containers
  <2>4. CASE OfElements(r)
    <3>1. DOMAIN w[x].items = {1}
      BY <2>1, <2>3, <2>4, Indices DEF OfElements
    <3>2. w[x].items[1].key = Everything /\ w[x].items[1].value \in N
      BY <1>5, <2>1, <2>2, <2>4 DEF IsRule, OfElements
    <3> QED BY <1>1, <1>3, <1>5, <1>7, <3>1, <3>2, LimitAssumption DEF Iterables, Mappings
  <2>5. CASE ~OfElements(r)
    <3>1. \A i \in DOMAIN w[x].items :
            w[x].items[i].key # NotStr /\ w[x].items[i].value \in N
      BY <1>5, <2>1, <2>2, <2>5 DEF IsRule
    <3> QED BY <1>1, <1>3, <1>5, <1>7, <3>1 DEF Iterables, Mappings
  <2> QED BY <2>4, <2>5
<1>8. CASE w[x].py \notin Iterables /\ w[x].py \notin Mappings
  BY <1>1, <1>5, <1>8
<1> QED BY <1>6, <1>7, <1>8

-----------------------------------------------------------------------------
(* AcceptInv, step by step.                                                *)

LEMMA FewMappings ==
  ASSUME NEW w, NEW fs, IsSeq(fs)
  PROVE  /\ Cardinality(OfMappings(w, fs)) <= Len(fs)
         /\ fs # <<>> /\ w[Last(fs).of].py \notin Mappings =>
              Cardinality(OfMappings(w, fs)) <= Len(fs) - 1
<1> DEFINE M == OfMappings(w, fs)
<1>1. Len(fs) \in Nat /\ DOMAIN fs = 1 .. Len(fs) /\ Cardinality(M) \in Nat
  BY Indices, OfMappingsFinite
<1>2. ASSUME NEW n \in Nat, M \subseteq 1 .. n PROVE Cardinality(M) <= n
  <2>1. IsFiniteSet(1 .. n) /\ Cardinality(1 .. n) = n
    BY FS_Interval
  <2> HIDE DEF M
  <2> QED BY <1>2, <2>1, FS_Subset
<1>3. M \subseteq 1 .. Len(fs)
  BY <1>1 DEF OfMappings
<1>4. ASSUME fs # <<>>, w[Last(fs).of].py \notin Mappings
      PROVE  Len(fs) - 1 \in Nat /\ M \subseteq 1 .. Len(fs) - 1
  <2>1. Len(fs) - 1 \in Nat
    BY <1>1, <1>4, Indices
  <2>2. Len(fs) \notin M
    BY <1>4 DEF OfMappings, Last
  <2> HIDE DEF M
  <2> QED BY <1>1, <1>3, <2>1, <2>2
<1> HIDE DEF M
<1>5. Cardinality(M) <= Len(fs)
  BY <1>1, <1>2, <1>3
<1>6. fs # <<>> /\ w[Last(fs).of].py \notin Mappings => Cardinality(M) <= Len(fs) - 1
  BY <1>2, <1>4
<1> QED BY <1>5, <1>6 DEF M

(* The k-th call, if it reads a mapping that is a rule, waits for a rule   *)
(* of a level less.                                                        *)
LEMMA AwaitedIsRule ==
  ASSUME WalkInv, pc = "enter", NEW k \in DOMAIN frames, written[frames[k].of].py \in Mappings,
         NEW l \in Nat, frames[k].of \in Levels(written)[l]
  PROVE  l # 0 /\ k \in Nat /\ k # 0 /\ Awaited(written, frames, k) \in Levels(written)[l - 1]
<1> DEFINE f == frames[k]
<1>1. pc # "done" /\ written \in Heaps /\ AsReturned(heap, written)
  BY AtWork
<1>2. FrameFits(heap, written, f, 1)
  <2>1. FrameFits(heap, written, f, Waiting(frames, k, TRUE))
    BY <1>1, AtWork DEF FramesFit
  <2> QED BY <2>1 DEF Waiting
<1>3. Len(f.out) + 1 \in DOMAIN written[f.of].items
  BY <1>1, <1>2, AwaitedIsThere DEF Mappings
<1>4. l # 0 /\ written[f.of].items[Len(f.out) + 1].value \in Levels(written)[l - 1]
  BY <1>1, <1>3, RuleParts
<1>5. k \in Nat /\ k # 0
  BY <1>1, AtWork, Indices
<1> QED BY <1>4, <1>5 DEF Awaited, Referred

(* What is read next is a rule that the cap lets through, or a name.       *)
LEMMA NextIsRule ==
  ASSUME WalkInv, CopyInv, AcceptInv, calm, pc = "enter", Compiles(written, 1)
  PROVE  /\ IsSeq(frames) /\ Len(frames) \in Nat /\ value = Awaited(written, frames, Len(frames))
         /\ RulesAllAlong(written, frames)
         /\ \/ /\ Len(frames) <= MaxSpecDepth
               /\ value \in Levels(written)[MaxSpecDepth + 1 - Len(frames)]
               /\ \A k \in DOMAIN frames : written[frames[k].of].py \in Mappings
            \/ /\ frames # <<>> /\ written[Last(frames).of].py \notin Mappings
               /\ written[value].py = "str"
<1>1. PICK C : SoFar(C)
  BY DEF CopyInv
<1>2. /\ value = Awaited(written, frames, Len(frames))
      /\ Copies(heap, written, frames, pc # "next", C)
  BY <1>1 DEF SoFar
<1>3. IsSeq(frames) /\ Len(frames) \in Nat /\ DOMAIN frames = 1 .. Len(frames)
  BY AtWork, Indices
<1>4. RulesAllAlong(written, frames)
  BY DEF AcceptInv
<1>5. CASE frames = <<>>
  <2>1. Len(frames) = 0 /\ DOMAIN frames = {} /\ value = 1
    BY <1>2, <1>5, Nothing DEF Awaited
  <2>2. 1 \in Levels(written)[MaxSpecDepth + 1 - 0]
    BY DEF Compiles, Grammatical, Levels
  <2> QED BY <1>2, <1>3, <1>4, <2>1, <2>2, LimitAssumption
<1>6. CASE frames # <<>>
  <2> DEFINE n == Len(frames)
  <2>1. /\ n \in DOMAIN frames /\ Top = frames[n] /\ Copied(heap, written, Top, 1, C)
    BY <1>2, <1>6, FarAs
  <2>2. /\ n <= MaxSpecDepth + 1 /\ Top.of \in Levels(written)[MaxSpecDepth + 2 - n]
        /\ n # 0 /\ n \in Nat
    BY <1>3, <1>4, <2>1 DEF RulesAllAlong
  <2> HIDE DEF n
  <2>3. MaxSpecDepth + 2 - n \in Nat /\ (MaxSpecDepth + 2 - n) - 1 = MaxSpecDepth + 1 - n
    BY <2>2, LimitAssumption
  <2>4. CASE Source.py \in Mappings
    <3>1. written[Top.of].py \in Mappings
      BY <1>6, <2>4, Innermost
    <3>2. MaxSpecDepth + 2 - n # 0 /\ value \in Levels(written)[MaxSpecDepth + 1 - n]
      <4> DEFINE l == MaxSpecDepth + 2 - n
      <4>1. l \in Nat /\ l - 1 = MaxSpecDepth + 1 - n
        BY <2>3
      <4>2. frames[n].of \in Levels(written)[l] /\ written[frames[n].of].py \in Mappings
        BY <2>1, <2>2, <3>1
      <4> HIDE DEF l
      <4>3. l # 0 /\ Awaited(written, frames, n) \in Levels(written)[l - 1]
        BY <2>1, <4>1, <4>2, AwaitedIsRule
      <4> QED BY <1>2, <4>1, <4>3 DEF n, l
    <3>3. MaxSpecDepth + 1 - n # 0
      <4>1. MaxSpecDepth + 1 - n \in Nat /\ written \in Heaps
        BY <2>2, AtWork, LimitAssumption
      <4> QED BY <3>2, <4>1, RuleParts
    <3>4. n <= MaxSpecDepth
      BY <2>2, <3>3, LimitAssumption
    <3>5. ASSUME NEW k \in DOMAIN frames PROVE written[frames[k].of].py \in Mappings
      <4>1. CASE k = n
        BY <2>1, <3>1, <4>1
      <4>2. CASE k # n
        BY <1>3, <1>4, <4>2 DEF RulesAllAlong, n
      <4> QED BY <4>1, <4>2
    <3> QED BY <1>2, <1>3, <1>4, <3>2, <3>4, <3>5 DEF n
  <2>5. CASE Source.py \notin Mappings
    <3>1. /\ written[Top.of].py \notin Mappings /\ written[Top.of].py \in Iterables
          /\ FrameFits(heap, written, Top, Waiting(frames, n, pc # "next")) /\ Top = Last(frames)
      BY <1>6, <2>5, Innermost DEF n, FrameFits, Containers
    <3>2. FrameFits(heap, written, Top, 1)
      BY <3>1 DEF Waiting
    <3>3. Len(Top.out) + 1 \in DOMAIN written[Top.of].items
      BY <2>1, <3>2, AtWork, AwaitedIsThere DEF Copied
    <3>4. value = written[Top.of].items[Len(Top.out) + 1]
      BY <1>2, <2>1, <2>2, <3>1 DEF Awaited, Referred, n
    <3>5. written[value].py = "str"
      BY <2>2, <2>3, <3>1, <3>3, <3>4, AtWork, RuleParts
    <3> QED BY <1>2, <1>3, <1>4, <1>6, <3>1, <3>5
  <2> QED BY <2>4, <2>5
<1> QED BY <1>5, <1>6

(* No rule is nested in itself.                                            *)
LEMMA NotItself ==
  ASSUME WalkInv, CopyInv, AcceptInv, calm, pc = "enter", Compiles(written, 1),
         object.py \in Containers
  PROVE  value \notin Seen
<1> SUFFICES ASSUME value \in Seen PROVE FALSE
  OBVIOUS
<1>1. /\ IsSeq(frames) /\ Len(frames) \in Nat /\ value = Awaited(written, frames, Len(frames))
      /\ RulesAllAlong(written, frames)
  BY NextIsRule
<1>2. object.py = written[value].py
  BY AtWork DEF object
<1>3. \A k \in DOMAIN frames : written[frames[k].of].py \in Mappings
  BY <1>2, NextIsRule DEF Containers, Mappings, Iterables
<1>4. DOMAIN frames = 1 .. Len(frames) /\ Len(frames) <= MaxSpecDepth + 1
  BY <1>1, Indices DEF RulesAllAlong
<1>5. PICK b \in DOMAIN frames : frames[b].of = value
  BY DEF Seen
<1> DEFINE n == Len(frames)
           T == { l \in Nat : \E j \in b .. n : frames[j].of \in Levels(written)[l] }
<1>6. \A j \in b .. n : j \in DOMAIN frames
  BY <1>1, <1>4
<1>7. T # {} /\ T \in SUBSET Nat
  <2>1. b \in b .. n /\ frames[b].of \in Levels(written)[MaxSpecDepth + 2 - b]
    BY <1>1, <1>4 DEF RulesAllAlong
  <2>2. MaxSpecDepth + 2 - b \in Nat
    BY <1>1, <1>4, LimitAssumption
  <2> QED BY <2>1, <2>2
<1>8. PICK m \in T : \A l \in T : m <= l
  <2> HIDE DEF T
  <2> QED BY <1>7, Least
<1>9. PICK j \in b .. n : frames[j].of \in Levels(written)[m]
  OBVIOUS
<1>10. m # 0 /\ j \in Nat /\ Awaited(written, frames, j) \in Levels(written)[m - 1]
  BY <1>3, <1>6, <1>9, AwaitedIsRule
<1>11. \E i \in b .. n : frames[i].of = Awaited(written, frames, j)
  <2>1. CASE j = n
    BY <1>1, <1>4, <1>5, <2>1
  <2>2. CASE j # n
    <3>1. j + 1 \in b .. n /\ (j + 1) - 1 = j /\ j + 1 \in DOMAIN frames
      <4>1. PICK c \in Nat : c = Len(frames) /\ DOMAIN frames = 1 .. c /\ c = n
        BY <1>1, <1>4
      <4>2. b \in 1 .. c /\ j \in b .. c /\ j # c
        BY <2>2, <4>1
      <4>3. j + 1 \in b .. c /\ (j + 1) - 1 = j /\ j + 1 \in 1 .. c
        BY <4>2
      <4> QED BY <4>1, <4>3
    <3>2. frames[j + 1].of = Awaited(written, frames, (j + 1) - 1)
      BY <3>1, AtWork DEF CopyInv, SoFar, Copies
    <3> QED BY <3>1, <3>2
  <2> QED BY <2>1, <2>2
<1>12. m - 1 \in T
  BY <1>10, <1>11
<1> QED BY <1>8, <1>12

(* What the compiler takes.                                                *)
Acceptable == written[1].py \in Mappings /\ Compiles(written, 1)

LEMMA NoRefusal ==
  ASSUME WalkInv, CopyInv, AcceptInv, calm, Compiles(written, 1)
  PROVE  ~Overflow /\ ~TooDeep /\ ~Itself
<1> SUFFICES ASSUME pc = "enter" PROVE ~Overflow /\ ~TooDeep /\ ~Itself
  BY DEF Overflow, TooDeep, Itself, Enter
<1> DEFINE n == Len(frames)
           c == Cardinality(OfMappings(written, frames))
<1>1. IsSeq(frames) /\ n \in Nat /\ n <= MaxSpecDepth + 1
  BY NextIsRule DEF RulesAllAlong
<1>2. n < RecursionLimit
  <2> HIDE DEF n
  <2> QED BY <1>1, LimitAssumption
<1>3. c \in Nat /\ c <= MaxSpecDepth
  <2>1. c \in Nat /\ c <= n
    BY <1>1, OfMappingsFinite, FewMappings
  <2>2. n <= MaxSpecDepth \/ c <= n - 1
    BY <1>1, NextIsRule, FewMappings
  <2> HIDE DEF n, c
  <2> QED BY <1>1, <2>1, <2>2, LimitAssumption
<1>4. depth = c
  BY DepthIs
<1> HIDE DEF c
<1>5. ~Overflow
  <2>1. ~(n >= RecursionLimit)
    <3> HIDE DEF n
    <3> QED BY <1>1, <1>2, LimitAssumption
  <2> QED BY <2>1 DEF Overflow
<1>6. ~TooDeep
  <2>1. ~(depth > MaxSpecDepth)
    BY <1>3, <1>4, LimitAssumption
  <2> QED BY <2>1 DEF TooDeep
<1>7. ~Itself
  BY NotItself DEF Itself, Enter
<1> QED BY <1>5, <1>6, <1>7

LEMMA KeysAreStr ==
  ASSUME WalkInv, AcceptInv, calm, pc = "next", Compiles(written, 1),
         Source.py \in Mappings, Top.rest # <<>>
  PROVE  Head(Top.rest).key # NotStr
<1> DEFINE n == Len(frames)
           i == Len(Top.out) + 1
<1>1. /\ pc # "done" /\ frames # <<>> /\ Source.py = written[Top.of].py /\ written \in Heaps
      /\ n \in DOMAIN frames /\ Top = frames[n] /\ IsSeq(frames)
  BY NextIs, Innermost, AtWork DEF Last
<1>2. i \in DOMAIN written[Top.of].items /\ Head(Top.rest) = written[Top.of].items[i]
  BY NextIs DEF Mappings
<1>3. n \in Nat /\ n <= MaxSpecDepth + 1 /\ Top.of \in Levels(written)[MaxSpecDepth + 2 - n]
  BY <1>1, Indices DEF AcceptInv, RulesAllAlong
<1> HIDE DEF n, i
<1>4. MaxSpecDepth + 2 - n \in Nat
  BY <1>3, LimitAssumption
<1> QED BY <1>1, <1>2, <1>3, <1>4, RuleParts

(* What the compiler takes, it takes of the copy, and the other way round. *)
LEMMA CopyCompiles ==
  ASSUME WalkInv, CopyInv, calm, pc \in {"return", "again"}, frames = <<>>
  PROVE  Compiles(heap, result) <=> Compiles(written, 1)
<1>1. PICK C : SoFar(C)
  BY DEF CopyInv
<1>2. Awaited(written, frames, Len(frames)) = 1
  BY Nothing DEF Awaited
<1>3. Alike(heap, written, C) /\ <<result, 1>> \in C
  BY <1>1, <1>2 DEF SoFar, Copies
<1>4. PICK p \in C : p[1] = result /\ p[2] = 1
  BY <1>3
<1>5. Compiles(heap, p[1]) <=> Compiles(written, p[2])
  BY <1>3, CompilesAlike
<1> QED BY <1>4, <1>5

LEMMA AcceptRefuses ==
  ASSUME NEW kind, Fail(kind), kind # "accepted", calm' => ~Acceptable
  PROVE  AcceptInv'
  BY DEF AcceptInv, AcceptsWhatCompiles, Fail, Compiling, Acceptable

(* Calls that read the same objects, perhaps without the last.             *)
LEMMA RulesKeep ==
  ASSUME NEW w, NEW fs, NEW ft, RulesAllAlong(w, fs), IsSeq(fs), IsSeq(ft), Len(ft) <= Len(fs),
         \A k \in DOMAIN ft : ft[k].of = fs[k].of
  PROVE  RulesAllAlong(w, ft)
<1>1. /\ Len(fs) \in Nat /\ DOMAIN fs = 1 .. Len(fs)
      /\ Len(ft) \in Nat /\ DOMAIN ft = 1 .. Len(ft)
  BY Indices
<1>2. Len(fs) <= MaxSpecDepth + 1
  BY DEF RulesAllAlong
<1>3. Len(ft) <= MaxSpecDepth + 1
  BY <1>1, <1>2, LimitAssumption
<1>4. ASSUME NEW k \in DOMAIN ft
      PROVE  /\ ft[k].of \in Levels(w)[MaxSpecDepth + 2 - k]
             /\ k < Len(ft) => w[ft[k].of].py \in Mappings
  <2>1. k \in DOMAIN fs /\ k \in Nat /\ (k < Len(ft) => k < Len(fs))
    BY <1>1
  <2> QED BY <2>1 DEF RulesAllAlong
<1> QED BY <1>3, <1>4 DEF RulesAllAlong

LEMMA RulesCall ==
  ASSUME WalkInv, CopyInv, AcceptInv, Open, calm', Compiles(written, 1)
  PROVE  RulesAllAlong(written, frames')
<1>1. /\ pc = "enter" /\ calm /\ written[value].py \in Containers
  BY OpenAdds
<1>2. PICK f : frames' = Append(frames, f) /\ f.of = value
  BY OpenAdds
<1>3. /\ IsSeq(frames) /\ Len(frames) \in Nat /\ RulesAllAlong(written, frames)
      /\ Len(frames) <= MaxSpecDepth
      /\ value \in Levels(written)[MaxSpecDepth + 1 - Len(frames)]
      /\ \A k \in DOMAIN frames : written[frames[k].of].py \in Mappings
  BY <1>1, NextIsRule DEF Containers, Mappings, Iterables
<1>4. PICK n, fs, ft : n \in Nat /\ n = Len(frames) /\ fs = frames /\ ft = frames'
  BY <1>3
<1>5. /\ IsSeq(ft) /\ Len(ft) = n + 1 /\ ft[n + 1] = f /\ \A i \in 1 .. n : ft[i] = fs[i]
      /\ DOMAIN fs = 1 .. n
  BY <1>2, <1>3, <1>4, OneMore, Indices
<1>6. DOMAIN ft = 1 .. n + 1 /\ n <= MaxSpecDepth /\ n + 1 <= MaxSpecDepth + 1
      /\ MaxSpecDepth + 2 - (n + 1) = MaxSpecDepth + 1 - n
  BY <1>3, <1>4, <1>5, Indices, LimitAssumption
<1>7. ASSUME NEW k \in DOMAIN ft
      PROVE  /\ ft[k].of \in Levels(written)[MaxSpecDepth + 2 - k]
             /\ k < Len(ft) => written[ft[k].of].py \in Mappings
  <2>1. CASE k = n + 1
    <3>1. ~(k < Len(ft)) /\ ft[k].of = value
      BY <1>2, <1>5, <2>1
    <3> QED BY <1>3, <1>4, <1>6, <2>1, <3>1
  <2>2. CASE k # n + 1
    <3>1. k \in 1 .. n /\ k \in DOMAIN fs /\ ft[k] = fs[k]
      BY <1>4, <1>5, <1>6, <2>2
    <3> QED BY <1>3, <1>4, <3>1 DEF RulesAllAlong
  <2> QED BY <2>1, <2>2
<1>8. RulesAllAlong(written, ft)
  BY <1>5, <1>6, <1>7 DEF RulesAllAlong
<1> QED BY <1>4, <1>8

LEMMA AcceptGoesOn ==
  ASSUME AcceptInv, pc' # "done", calm' => calm, written' = written,
         pc \notin {"start", "done"} \/ (calm' => written[1].py \in Mappings),
         calm' /\ Compiles(written, 1) => RulesAllAlong(written, frames')
  PROVE  AcceptInv'
  BY DEF AcceptInv, AcceptsWhatCompiles

(* The calls read what they read, perhaps without the last.                *)
LEMMA AcceptTurns ==
  ASSUME WalkInv, AcceptInv, pc \notin {"start", "done"}, pc' # "done", calm' => calm,
         written' = written, IsSeq(frames'), Len(frames') <= Len(frames),
         \A k \in DOMAIN frames' : frames'[k].of = frames[k].of
  PROVE  AcceptInv'
<1>1. IsSeq(frames)
  BY AtWork
<1>2. PICK ft : ft = frames'
  OBVIOUS
<1>3. ASSUME calm', Compiles(written, 1) PROVE RulesAllAlong(written, ft)
  <2>1. RulesAllAlong(written, frames)
    BY <1>3 DEF AcceptInv
  <2>2. IsSeq(ft) /\ Len(ft) <= Len(frames) /\ \A k \in DOMAIN ft : ft[k].of = frames[k].of
    BY <1>2
  <2> QED BY <1>1, <2>1, <2>2, RulesKeep
<1>4. calm' /\ Compiles(written, 1) => RulesAllAlong(written, frames')
  BY <1>2, <1>3
<1> QED BY <1>4, AcceptGoesOn

LEMMA LastTurns ==
  ASSUME NEW fs, IsSeq(fs), fs # <<>>, NEW f, f.of = Last(fs).of
  PROVE  LET ft == Append(Without(fs), f)
         IN  IsSeq(ft) /\ Len(ft) <= Len(fs) /\ \A k \in DOMAIN ft : ft[k].of = fs[k].of
<1> DEFINE ft == Append(Without(fs), f)
<1>1. /\ IsSeq(ft) /\ Len(ft) = Len(fs) /\ Len(fs) \in 1 .. Len(fs) /\ ft[Len(fs)] = f
      /\ \A i \in 1 .. Len(fs) - 1 : ft[i] = fs[i]
  BY LastOne
<1> HIDE DEF ft
<1>2. PICK n \in Nat : n = Len(fs) /\ DOMAIN ft = 1 .. n
  BY <1>1, Indices
<1>3. ASSUME NEW k \in DOMAIN ft PROVE ft[k].of = fs[k].of
  <2>1. CASE k = n
    BY <1>1, <1>2, <2>1 DEF Last
  <2>2. CASE k # n
    <3>1. k \in 1 .. n - 1
      BY <1>2, <2>2
    <3> QED BY <1>1, <1>2, <3>1
  <2> QED BY <2>1, <2>2
<1>4. Len(ft) <= Len(fs)
  BY <1>1, <1>2
<1> QED BY <1>1, <1>3, <1>4 DEF ft

LEMMA LastGoes ==
  ASSUME NEW fs, IsSeq(fs), fs # <<>>
  PROVE  /\ IsSeq(Without(fs)) /\ Len(Without(fs)) <= Len(fs)
         /\ \A k \in DOMAIN Without(fs) : Without(fs)[k].of = fs[k].of
<1> DEFINE ft == Without(fs)
<1>1. /\ IsSeq(ft) /\ Len(ft) = Len(fs) - 1 /\ Len(fs) \in 1 .. Len(fs)
      /\ \A i \in 1 .. Len(fs) - 1 : ft[i] = fs[i]
  BY OneLess
<1> HIDE DEF ft
<1>2. PICK n \in Nat : n = Len(fs) /\ DOMAIN ft = 1 .. n - 1
  BY <1>1, Indices
<1>3. Len(ft) <= Len(fs) /\ \A k \in DOMAIN ft : ft[k].of = fs[k].of
  BY <1>1, <1>2
<1> QED BY <1>1, <1>3 DEF ft

LEMMA SameFrames ==
  ASSUME NEW fs, IsSeq(fs)
  PROVE  Len(fs) <= Len(fs)
<1>1. Len(fs) \in Nat
  BY Indices
<1> QED BY <1>1

LEMMA AcceptStep == WalkInv /\ CopyInv /\ AcceptInv /\ [Next]_vars => AcceptInv'
<1> SUFFICES ASSUME WalkInv, CopyInv, AcceptInv, [Next]_vars PROVE AcceptInv'
  OBVIOUS
<1>1. CASE UNCHANGED vars
  BY <1>1 DEF vars, AcceptInv, AcceptsWhatCompiles
<1>2. CASE Start
  <2>1. pc = "start" /\ calm' = calm /\ pc # "done"
    BY <1>2 DEF Start
  <2>2. object.py = heap[value].py /\ heap[value].py = written[value].py
    BY <2>1, AtWork DEF object
  <2>3. calm => value = 1
    <3> SUFFICES ASSUME calm PROVE value = 1
      OBVIOUS
    <3>1. value = Awaited(written, frames, Len(frames)) /\ frames = <<>>
      BY <2>1, AtWork DEF CopyInv, SoFar, Place
    <3> QED BY <3>1, Nothing DEF Awaited
  <2>4. CASE object.py \in Mappings
    <3>1. pc' = "enter" /\ UNCHANGED <<frames, written>>
      BY <1>2, <2>4 DEF Start, Go, Compiling
    <3>2. calm' /\ Compiles(written, 1) => RulesAllAlong(written, frames')
      BY <2>1, <3>1 DEF AcceptInv
    <3> QED BY <2>1, <2>2, <2>3, <2>4, <3>1, <3>2, AcceptGoesOn
  <2>5. CASE object.py \notin Mappings
    <3>1. calm' => ~Acceptable
      BY <2>1, <2>2, <2>3, <2>5 DEF Acceptable
    <3> QED BY <1>2, <2>5, <3>1, AcceptRefuses DEF Start
  <2> QED BY <2>4, <2>5
<1>3. CASE Overflow \/ TooDeep \/ Itself
  <2>1. calm' => ~Acceptable
    BY <1>3, NoRefusal DEF Overflow, TooDeep, Itself, Acceptable
  <2>2. \E kind \in {"TypeError", "RecursionError"} : Fail(kind)
    BY <1>3 DEF Overflow, TooDeep, Itself
  <2> QED BY <2>1, <2>2, AcceptRefuses
<1>4. CASE Raises
  BY <1>4, AcceptRefuses DEF Raises, Raised
<1>5. CASE Leaf
  <2>1. /\ pc = "enter" /\ pc' = "return" /\ UNCHANGED <<frames, written, calm>>
    BY <1>5 DEF Leaf, Enter, Go, Compiling
  <2> QED BY <2>1, AtWork, SameFrames, AcceptTurns
<1>6. CASE Open
  <2>1. pc = "enter" /\ pc' = "next" /\ written' = written /\ (calm' => calm)
    BY <1>6, OpenAdds
  <2> QED BY <1>6, <2>1, RulesCall, AcceptGoesOn
<1>7. CASE NextKey \/ NextListed
  <2>1. CASE Fail("TypeError")
    <3>1. calm' => ~Acceptable
      <4> SUFFICES ASSUME calm, Compiles(written, 1) PROVE FALSE
        BY <1>7 DEF NextKey, NextListed, Acceptable
      <4>1. pc' = "done"
        BY <2>1 DEF Fail
      <4>2. NextKey /\ Head(Top.rest).key = NotStr
        BY <1>7, <4>1 DEF NextKey, NextListed, Go
      <4> QED BY <4>2, KeysAreStr DEF NextKey
    <3> QED BY <2>1, <3>1, AcceptRefuses
  <2>2. CASE ~Fail("TypeError")
    <3>1. /\ pc = "next" /\ pc' = "enter" /\ frames # <<>> /\ pc # "done"
          /\ UNCHANGED <<written, calm>>
      BY <1>7, <2>2, Turns
    <3>2. PICK f : frames' = Append(Without(frames), f) /\ f.of = Top.of
      BY <1>7, <2>2, Turns
    <3>3. IsSeq(frames) /\ f.of = Last(frames).of
      BY <3>1, <3>2, AtWork, Innermost
    <3>4. /\ IsSeq(frames') /\ Len(frames') <= Len(frames)
          /\ \A k \in DOMAIN frames' : frames'[k].of = frames[k].of
      BY <3>1, <3>2, <3>3, LastTurns
    <3> QED BY <3>1, <3>4, AcceptTurns
  <2> QED BY <2>1, <2>2
<1>8. CASE NextAsked
  <2>1. pc = "next" /\ pc' = "enter" /\ UNCHANGED <<frames, written, calm>>
    BY <1>8 DEF NextAsked, Go, Compiling
  <2> QED BY <2>1, AtWork, SameFrames, AcceptTurns
<1>9. CASE Collect
  <2>1. /\ pc = "return" /\ pc' = "next" /\ frames # <<>> /\ pc # "done"
        /\ UNCHANGED <<written, calm>>
    BY <1>9, CollectPuts
  <2>2. PICK f : frames' = Append(Without(frames), f) /\ f.of = Top.of
    BY <1>9, CollectPuts
  <2>3. IsSeq(frames) /\ f.of = Last(frames).of
    BY <2>1, <2>2, AtWork, Innermost
  <2>4. /\ IsSeq(frames') /\ Len(frames') <= Len(frames)
        /\ \A k \in DOMAIN frames' : frames'[k].of = frames[k].of
    BY <2>1, <2>2, <2>3, LastTurns
  <2> QED BY <2>1, <2>4, AcceptTurns
<1>10. CASE Close
  <2>1. /\ pc = "next" /\ pc' = "return" /\ frames # <<>> /\ pc # "done"
        /\ UNCHANGED <<written, calm>> /\ frames' = Without(frames)
    BY <1>10, CloseAdds
  <2>2. IsSeq(frames)
    BY <2>1, AtWork
  <2>3. /\ IsSeq(frames') /\ Len(frames') <= Len(frames)
        /\ \A k \in DOMAIN frames' : frames'[k].of = frames[k].of
    BY <2>1, <2>2, LastGoes
  <2> QED BY <2>1, <2>3, AcceptTurns
<1>11. CASE Compile
  <2>1. pc = "return" /\ frames = <<>> /\ calm' = calm /\ pc # "done"
    BY <1>11 DEF Compile
  <2>2. CASE Compiles(heap, result)
    <3>1. pc' = "again" /\ UNCHANGED <<frames, written>>
      BY <1>11, <2>2 DEF Compile
    <3> QED BY <2>1, <3>1, AtWork, SameFrames, AcceptTurns
  <2>3. CASE ~Compiles(heap, result)
    <3>1. calm' => ~Acceptable
      BY <2>1, <2>3, CopyCompiles DEF Acceptable
    <3> QED BY <1>11, <2>3, <3>1, AcceptRefuses DEF Compile
  <2> QED BY <2>2, <2>3
<1>12. CASE CompileAgain
  <2>1. /\ pc = "again" /\ pc' = "done" /\ outcome' = "accepted" /\ pc # "done"
        /\ UNCHANGED <<written, calm>>
    BY <1>12 DEF CompileAgain
  <2>2. calm => Compiles(written, 1)
    BY <2>1, CopyCompiles, AtWork DEF CopyInv, Place
  <2>3. calm => written[1].py \in Mappings
    BY <2>1 DEF AcceptInv
  <2> QED BY <2>1, <2>2, <2>3 DEF AcceptInv, AcceptsWhatCompiles
<1>13. CASE Over
  BY <1>13 DEF Over, vars, AcceptInv, AcceptsWhatCompiles
<1> QED
  BY <1>1, <1>2, <1>3, <1>4, <1>5, <1>6, <1>7, <1>8, <1>9, <1>10, <1>11, <1>12, <1>13 DEF Next

LEMMA AcceptInit == Init => AcceptInv
<1> SUFFICES ASSUME Init PROVE AcceptInv
  OBVIOUS
<1>1. frames = <<>> /\ pc = "start"
  BY DEF Init
<1>2. DOMAIN frames = {} /\ Len(frames) = 0
  BY <1>1, Nothing
<1>3. RulesAllAlong(written, frames)
  BY <1>2, LimitAssumption DEF RulesAllAlong
<1> QED BY <1>1, <1>3 DEF AcceptInv, AcceptsWhatCompiles

(* What an adapter returns is refused just where the compiler would refuse *)
(* it, a root that is no mapping apart, where no iterator was met once     *)
(* spent and no code of the adapter raised (_adapter_spec).                *)
THEOREM WalkAcceptsWhatCompiles == Spec => []AcceptsWhatCompiles
<1>1. AcceptInv => AcceptsWhatCompiles
  BY DEF AcceptInv
<1> QED
  BY <1>1, WalkInit, WalkStep, CopyInit, CopyStep, AcceptInit, AcceptStep, PTL DEF Spec
=============================================================================
