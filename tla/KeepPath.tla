------------------------------ MODULE KeepPath ------------------------------
(***************************************************************************)
(* migration_adapter: an adapter that adds paths to the spec derived for a *)
(* class (python/json_projection/pydantic.py, 543-638).                    *)
(*                                                                         *)
(* The spec is made of dicts that are changed where they stand, so they    *)
(* live in `heap` by identity: the dict derived for a field stands under   *)
(* each of the field's keys, and a path through one key changes the other. *)
(* An entry is Absent, Whole (True), Elements (an array's spec, or another *)
(* value that is no dict of members), or a dict.                           *)
(***************************************************************************)
EXTENDS Naturals, Sequences

CONSTANTS
  Keys, Everything,         (* JSON keys, and the one that is "__all__"    *)
  Dicts, Root,              (* as many dicts as memory has, and ctx.spec   *)
  Absent, Whole, Elements,
  Fields,                   (* names of fields                             *)
  MaxPath,                  (* no path is longer                           *)
  Requests                  (* what an adapter is made from, and called on *)

Entries == Dicts \cup {Absent, Whole, Elements}
Paths   == UNION { [1 .. n -> Keys] : n \in 1 .. MaxPath }

(* Dicts that are not in use yet have no entries and no entry names them.  *)
Context ==
  { c \in [heap : [Dicts -> [Keys -> Entries]], used : SUBSET Dicts] :
      /\ Root \in c.used
      /\ \A d \in Dicts, k \in Keys :
           /\ d \notin c.used => c.heap[d][k] = Absent
           /\ c.heap[d][k] \in c.used \cup {Absent, Whole, Elements} }

(* `declared` are the class's fields and `retained` those it keeps.        *)
Input   == [field : Fields, paths : Seq(Paths)]
Request ==
  [ derived : Context, inputs : Seq(Input), controls : Seq(Paths),
    requires : SUBSET (Fields \X Fields),
    declared : SUBSET Fields, retained : SUBSET Fields ]

ASSUME EntryAssumption ==
  /\ Absent \notin Dicts /\ Whole \notin Dicts /\ Elements \notin Dicts
  /\ Absent # Whole /\ Absent # Elements /\ Whole # Elements
ASSUME PathAssumption    == MaxPath \in Nat
ASSUME RequestAssumption == \A r \in Requests : r \in Request

VARIABLES
  request,
  heap, used,       (* every dict, and those that are in use               *)
  inputs, todo,     (* fields, and paths of one field or controls, to come *)
  path, at, node,   (* the path being merged, its next key and the dict    *)
  pc, outcome,
  merged            (* history: the paths _keep_path has returned from     *)

vars == <<request, heap, used, inputs, todo, path, at, node, pc, outcome, merged>>

Init ==
  /\ request \in Requests
  /\ heap = request.derived.heap /\ used = request.derived.used
  /\ inputs = request.inputs /\ todo = <<>>
  /\ path = <<>> /\ at = 1 /\ node = Root
  /\ pc = "construct" /\ outcome = "running" /\ merged = {}

spec  == <<heap, used>>
place == <<path, at, node>>

Finish(how) ==
  /\ pc' = "done" /\ outcome' = how
  /\ UNCHANGED <<request, spec, inputs, todo, place, merged>>

Proceed(to) == pc' = to /\ UNCHANGED <<request, spec, outcome, merged>>

-----------------------------------------------------------------------------
(* _key_path: the path goes up to its first "__all__".                     *)
Cuts(p) ==
  { SubSeq(p, 1, n) : n \in { n \in DOMAIN p :
                                /\ \A j \in 1 .. n : p[j] # Everything
                                /\ n < Len(p) => p[n + 1] = Everything } }

AsksForTheRoot(paths) == \E i \in DOMAIN paths : paths[i][1] = Everything

Construct ==
  /\ pc = "construct"
  /\ IF \/ AsksForTheRoot(request.controls)
        \/ \E i \in DOMAIN request.inputs : AsksForTheRoot(request.inputs[i].paths)
     THEN Finish("TypeError")
     ELSE Proceed("check") /\ UNCHANGED <<inputs, todo, place>>

(* Fields the class does not declare, and fields kept without what they    *)
(* depend on.                                                              *)
Named == { request.inputs[i].field : i \in DOMAIN request.inputs }
         \cup UNION { {d[1], d[2]} : d \in request.requires }

Conflict == \E d \in request.requires :
              d[1] \in request.retained /\ d[2] \notin request.retained

Check ==
  /\ pc = "check"
  /\ IF Conflict \/ ~(Named \subseteq request.declared)
     THEN Finish("ValueError")
     ELSE Proceed("fields") /\ UNCHANGED <<inputs, todo, place>>

(* MUTANT: the inputs of a field count whether or not it is kept.          *)
NextFieldAny ==
  /\ pc = "fields" /\ inputs # <<>>
  /\ inputs' = Tail(inputs) /\ todo' = Head(inputs).paths
  /\ Proceed("paths") /\ UNCHANGED place

NextField ==
  /\ pc = "fields" /\ inputs # <<>>
  /\ inputs' = Tail(inputs)
  /\ todo' = IF Head(inputs).field \in request.retained THEN Head(inputs).paths ELSE <<>>
  /\ Proceed("paths") /\ UNCHANGED place

Controls ==
  /\ pc = "fields" /\ inputs = <<>>
  /\ todo' = request.controls
  /\ Proceed("controls") /\ UNCHANGED <<inputs, place>>

Between == pc \in {"paths", "controls"} /\ path = <<>>

NextPath ==
  /\ Between /\ todo # <<>>
  /\ todo' = Tail(todo) /\ path' \in Cuts(Head(todo)) /\ at' = 1 /\ node' = Root
  /\ Proceed(pc) /\ UNCHANGED inputs

PathsEnd ==
  /\ Between /\ todo = <<>>
  /\ IF pc = "paths" THEN Proceed("fields") /\ UNCHANGED <<inputs, todo, place>>
                     ELSE Finish("adapted")

-----------------------------------------------------------------------------
(* _keep_path, a turn of its loop at a time.                               *)
seg    == path[at]
child  == heap[node][seg]

(* MUTANT: the loop runs over all the keys of the path.                    *)
InsideToEnd == path # <<>> /\ at <= Len(path)

Inside == path # <<>> /\ at < Len(path)

Put(value) == heap' = [heap EXCEPT ![node] = [@ EXCEPT ![seg] = value]]
Turn       == UNCHANGED <<request, inputs, todo, pc, outcome>>
Return     == path' = <<>> /\ merged' = merged \cup {path} /\ UNCHANGED <<at, node, used>> /\ Turn
Into(dict) == node' = dict /\ at' = at + 1 /\ UNCHANGED <<path, merged>> /\ Turn

KeptAlready == Inside /\ child = Whole /\ UNCHANGED heap /\ Return

(* MUTANT: a dict is made where there is one.                              *)
CreateAnew ==
  Inside /\ child \notin {Whole, Elements} /\
  \E new \in Dicts \ used : Put(new) /\ used' = used \cup {new} /\ Into(new)

(* `child = node[seg] = {}`.  One dict that is not in use is as good as    *)
(* another.                                                                *)
Create ==
  Inside /\ child = Absent /\ Dicts # used /\
  LET new == CHOOSE d \in Dicts : d \notin used
  IN  Put(new) /\ used' = used \cup {new} /\ Into(new)

(* MUTANT: where the spec has an array the path is passed over.            *)
WidenNot == Inside /\ child = Elements /\ UNCHANGED heap /\ Return

Widen == Inside /\ child = Elements /\ Put(Whole) /\ Return

Descend == Inside /\ child \in Dicts /\ UNCHANGED spec /\ Into(child)

Last == path # <<>> /\ at = Len(path) /\ Put(Whole) /\ Return

Over == pc = "done" /\ UNCHANGED vars

Next == \/ Construct \/ Check \/ NextField \/ Controls \/ NextPath \/ PathsEnd
        \/ KeptAlready \/ Create \/ Widen \/ Descend \/ Last \/ Over

Spec == Init /\ [][Next]_vars

-----------------------------------------------------------------------------
(* Every variable has its type.  The dicts in use stay closed under their  *)
(* entries, and only a path being merged has a place in them.              *)
TypeOK ==
  /\ request \in Request
  /\ [heap |-> heap, used |-> used] \in Context
  /\ inputs \in Seq(Input) /\ todo \in Seq(Paths)
  /\ path \in Paths \cup {<<>>} /\ node \in used
  /\ path # <<>> => at \in DOMAIN path /\ pc \in {"paths", "controls"}
  /\ pc \in {"construct", "check", "fields", "paths", "controls", "done"}
  /\ outcome \in {"running", "adapted", "TypeError", "ValueError"}
  /\ merged \subseteq Paths

(* Where the first n keys of a path lead, key by key; what is kept whole   *)
(* is kept with all that is in it.                                         *)
Before(t, j) == IF j = 1 THEN Root ELSE t[j - 1]
Trails(h, p, n) ==
  { t \in [1 .. n -> Dicts \cup {Whole}] :
      \A j \in 1 .. n : t[j] = IF Before(t, j) = Whole THEN Whole
                              ELSE h[Before(t, j)][p[j]] }

Kept(h, p) == \E t \in Trails(h, p, Len(p)) : t[Len(p)] = Whole

(* What the adapter is to keep: the paths its retained fields name, and    *)
(* its controls.                                                           *)
Members(s) == { s[i] : i \in DOMAIN s }
Asked(fields) ==
  UNION { Members(i.paths) : i \in { i \in Members(fields) : i.field \in request.retained } }
Wanted == Asked(request.inputs) \cup Members(request.controls)

(* An adapter returns a spec that keeps every path it was asked to keep,   *)
(* in any order, from any derived spec, however its dicts are shared       *)
(* ("Every conflict widens to True: keeping more is always safe").         *)
EveryPathKept == outcome = "adapted" => \A p \in Wanted : \E c \in Cuts(p) : Kept(heap, c)

(* Merging never takes back what was kept, by the derivation or by a path  *)
(* merged before.                                                          *)
NothingForgotten == [][\A p \in Paths : Kept(heap, p) => Kept(heap', p)]_heap

(* Where no dict stands under two keys, nor the spec in itself, the result *)
(* does not depend on the order of the paths: a path is kept just if it    *)
(* was, or if it runs through one that was asked for, or through an array  *)
(* that one such path crosses.  Fields that are excluded add nothing.      *)
IsTree(h) ==
  \A d \in Dicts, j \in Keys :
    /\ h[d][j] # Root
    /\ h[d][j] \in Dicts =>
         \A e \in Dicts, k \in Keys : h[e][k] = h[d][j] => e = d /\ k = j

Runs(p, q, n) == n \in DOMAIN p /\ n \in DOMAIN q /\ \A i \in 1 .. n : p[i] = q[i]
CrossesArray(h, q, n) ==
  n < Len(q) /\ \E t \in Trails(h, q, n - 1) :
                  Before(t, n) \in Dicts /\ h[Before(t, n)][q[n]] = Elements
MergesAsASet ==
  LET start == request.derived.heap
      wanted == UNION { Cuts(p) : p \in Wanted }
  IN  outcome = "adapted" /\ IsTree(start) =>
        \A p \in Paths :
          Kept(heap, p) <=>
            \/ Kept(start, p)
            \/ \E q \in wanted : Runs(p, q, Len(q))
            \/ \E q \in wanted, n \in 1 .. MaxPath : Runs(p, q, n) /\ CrossesArray(start, q, n)
=============================================================================
