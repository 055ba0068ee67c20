-------------------------------- MODULE Walk --------------------------------
(***************************************************************************)
(* The whole-buffer projection (src/walk.rs): a recursive descent over the *)
(* document that copies kept members as raw bytes and skips the rest.      *)
(***************************************************************************)
EXTENDS Jiter, SpecTree

(* A step of the walk answers as the cursor does, with the output so far.  *)
With(res, out) == [r |-> res.r, at |-> res.at, out |-> out]

(* The raw bytes between two offsets.                                      *)
Slice(d, from, to) == SubSeq(d, from + 1, to)

(* sep is at ws* ('{' | ',') ws* '"': the offset of the quote.             *)
(* MUTANT: the white space before the separator is not skipped.            *)
KeyStartUnskipped(d, sep) == Ws(d, sep + 1)

KeyStart(d, sep) == Ws(d, Ws(d, sep) + 1)

(* Continue after a step that went well, from where it ended.              *)
Following(value, K(_, _)) ==
  IF value.r = "ok" THEN K(value.at, value.out) ELSE value

CopyValue(d, i, out) ==
  Following(With(Skip(d, i, SkipLimit), out),
            LAMBDA at, before : With(Ok(at), before \o Slice(d, i, at)))

RECURSIVE ProjectValue(_, _, _, _), Members(_, _, _, _, _, _, _),
          Elements(_, _, _, _, _)

(* MUTANT: an exclusion drops the members it does not name.                *)
ProjectValueDropping(d, i, spec, out) ==
  LET b == IF AtEnd(d, i) THEN 0 ELSE d[i + 1]
  IN  CASE spec.kind \in {"Object", "ExcludeObject"} /\ b = LBrace ->
             Members(d, i, NextObject(d, i), spec.fields, SDiscard, TRUE,
                     Append(out, LBrace))
        [] spec.kind = "Array" /\ b = LBracket ->
             Elements(d, NextArray(d, i), spec.item, TRUE,
                      Append(out, LBracket))
        [] OTHER -> CopyValue(d, i, out)

ProjectValue(d, i, spec, out) ==
  LET b == IF AtEnd(d, i) THEN 0 ELSE d[i + 1]
  IN  CASE spec.kind \in {"Object", "ExcludeObject"} /\ b = LBrace ->
             Members(d, i, NextObject(d, i), spec.fields,
                     IF spec.kind = "Object" THEN SDiscard ELSE SKeep, TRUE,
                     Append(out, LBrace))
        [] spec.kind = "Array" /\ b = LBracket ->
             Elements(d, NextArray(d, i), spec.item, TRUE,
                      Append(out, LBracket))
        [] OTHER -> CopyValue(d, i, out)

(* The loop of project_object, at the entry the cursor answered with; sep  *)
(* is where the cursor stood before that entry.                            *)
Members(d, sep, entry, fields, fallback, first, out) ==
  IF entry.r # "ok" THEN With(entry, out)
  ELSE IF ~entry.some THEN With(entry, Append(out, RBrace))
  ELSE LET sub   == IF entry.name \in DOMAIN fields THEN fields[entry.name]
                                                    ELSE fallback
           v     == Ws(d, entry.at)
           comma == IF first THEN <<>> ELSE <<Comma>>
       IN  Following(
             IF sub.kind = "Discard"
             THEN With(Skip(d, v, SkipLimit), out)
             ELSE ProjectValue(d, v, sub,
                               out \o comma \o Slice(d, KeyStart(d, sep), v)),
             LAMBDA at, done :
               Members(d, at, NextKey(d, at), fields, fallback,
                       first /\ sub.kind = "Discard", done))

(* The loop of project_array.                                              *)
Elements(d, el, item, first, out) ==
  IF el.r # "ok" THEN With(el, out)
  ELSE IF ~el.some THEN With(el, Append(out, RBracket))
  ELSE Following(
         ProjectValue(d, el.at, item, IF first THEN out ELSE Append(out, Comma)),
         LAMBDA at, done : Elements(d, ArrayStep(d, at), item, FALSE, done))

(* finish(): only white space may follow the root.                         *)
Finished(d, i, out) ==
  IF AtEnd(d, Ws(d, i)) THEN With(Ok(i), out) ELSE With(Bad(Ws(d, i)), out)

(* project_bytes: NotAnObject is a "bad" answer at the root's first byte.  *)
ProjectBytes(d, spec) ==
  LET i == Ws(d, 0)
  IN  CASE AtEnd(d, i)                       -> With(More(d), <<>>)
        [] ~AtEnd(d, i) /\ d[i + 1] # LBrace -> With(Bad(i), <<>>)
        [] OTHER ->
             Following(ProjectValue(d, i, spec, <<>>),
                       LAMBDA at, out : Finished(d, at, out))

(* run, which apply(), a call of the projection and project() end in: a    *)
(* document that cannot be walked is refused, or comes back as it is.      *)
Run(d, spec, strict) ==
  LET walk == ProjectBytes(d, spec)
  IN  CASE walk.r = "ok"            -> [kind |-> "bytes", bytes |-> walk.out]
        [] walk.r # "ok" /\ strict  -> [kind |-> "ValueError", bytes |-> <<>>]
        [] walk.r # "ok" /\ ~strict -> [kind |-> "bytes", bytes |-> d]
=============================================================================
