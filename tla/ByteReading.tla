---------------------------- MODULE ByteReading -----------------------------
(***************************************************************************)
(* What a session makes of its document when the document is read a byte   *)
(* at a time: no chunk, no cursor, no span, and no number left to be ended *)
(* by a later turn of the loop.  A reading is a value, and one byte takes  *)
(* it to the next; a reading that is bad stays bad.  The engine is to      *)
(* agree with this however its document is cut into chunks.                *)
(***************************************************************************)
EXTENDS StreamEngine

(* What is known once some bytes have been read, and that they were wrong. *)
Known(stack, scalar, raw, out, root) ==
  [frames |-> stack, token |-> scalar, key |-> raw, output |-> out,
   started |-> root, state |-> "reading", at |-> 0]

Refused(n) == [frames |-> <<>>, token |-> None, key |-> <<>>, output |-> <<>>,
               started |-> FALSE, state |-> "refused", at |-> n]

(* The byte b is written where it goes.                                    *)
Added(bytes, b, here) == IF here THEN Append(bytes, b) ELSE bytes

WithTop(stack, f) == [stack EXCEPT ![Len(stack)] = f]

(* The rules of the plan p: see Fits, Rule and Applied.                    *)
Accepts(p, n, b) == \/ p[n + 1].kind \in {"Object", "ExcludeObject"} /\ b = LBrace
                    \/ p[n + 1].kind = "Array" /\ b = LBracket

Treated(p, asked, b) ==
  IF asked.mode = "project" /\ ~Accepts(p, asked.node, b) THEN Copy ELSE asked

RuleFor(p, n, raw) ==
  LET name   == Decode(raw)
      fields == p[n + 1].fields
  IN  IF name \in DOMAIN fields
      THEN IF p[fields[name] + 1].kind = "Discard" THEN Discard ELSE Project(fields[name])
      ELSE IF p[n + 1].kind = "ExcludeObject" THEN Copy ELSE Discard

-----------------------------------------------------------------------------
(* The byte b inside a scalar; n bytes came before it.                     *)

AtKeyEnd(p, r, b) ==
  LET f      == r.frames[Len(r.frames)]
      raw    == Append(r.key, b)
      next   == RuleFor(p, f.action.node, raw)
      comma  == IF f.emitted THEN <<Comma>> ELSE <<>>
      copied == r.token.destination = "Output"
  IN  IF f.action.mode # "project"
      THEN Known(WithTop(r.frames, Keyed(f, f.action, f.emitted)), None, <<>>,
                 Added(r.output, b, copied), r.started)
      ELSE IF IsUtf8(raw)
      THEN Known(WithTop(r.frames, Keyed(f, next, f.emitted \/ next # Discard)), None, <<>>,
                 IF next = Discard THEN r.output ELSE r.output \o comma \o raw, r.started)
      ELSE Refused(r.token.start + ValidUpTo(raw))

AtScalar(p, r, b, n) ==
  LET t      == r.token
      push   == Push(t.scalar, b)
      keyNow == Added(r.key, b, t.destination = "LookupKey")
      outNow == Added(r.output, b, t.destination = "Output")
  IN  CASE push.advance = "Error"    -> Refused(n)
        [] push.advance = "Consumed" ->
             Known(r.frames, [t EXCEPT !.scalar = push.state], keyNow, outNow, r.started)
        [] push.advance = "Complete" ->
             IF t.key THEN AtKeyEnd(p, r, b)
             ELSE Known(ValueDone(r.frames), None, keyNow, outNow, r.started)

-----------------------------------------------------------------------------
(* The byte b outside of scalars, inside the container f.                  *)

AtValue(p, r, f, b, n) ==
  LET element == f.expect # "ObjectValue" /\ f.action.mode = "project"
      asked   == CASE f.expect = "ObjectValue" -> f.next
                   [] element -> Project(p[f.action.node + 1].child)
                   [] OTHER   -> f.action
      action  == Treated(p, asked, b)
      stack   == IF element THEN WithTop(r.frames, [f EXCEPT !.emitted = TRUE]) ELSE r.frames
      out     == Added(Added(r.output, Comma, element /\ f.emitted), b, action # Discard)
  IN  CASE b \in {LBrace, LBracket} /\ Len(r.frames) < MaxDepth ->
             Known(Append(stack, NewFrame(action, b)), None, r.key, out, r.started)
        [] b \notin {LBrace, LBracket} /\ Startable(b) ->
             Known(stack, [scalar |-> Start(b), key |-> FALSE, start |-> n,
                           destination |-> IF action = Discard THEN "Discard" ELSE "Output"],
                   r.key, out, r.started)
        [] OTHER -> Refused(n)

AtMember(r, f, b, n) ==
  LET mode        == f.action.mode
      destination == CASE mode = "copy"    -> "Output"
                       [] mode = "discard" -> "Discard"
                       [] mode = "project" -> "LookupKey"
  IN  CASE f.expect \in {"ObjectFirst", "ObjectKey"} /\ b = Quote ->
             Known(r.frames, [scalar |-> Start(Quote), destination |-> destination,
                              key |-> TRUE, start |-> n],
                   Added(r.key, b, mode = "project"), Added(r.output, b, mode = "copy"),
                   r.started)
        [] f.expect = "Colon" /\ b = Colon ->
             Known(Expecting(r.frames, "ObjectValue"), None, r.key,
                   Added(r.output, b, f.next # Discard), r.started)
        [] f.expect \in {"ObjectComma", "ArrayComma"} /\ b = Comma ->
             Known(Expecting(r.frames, IF f.expect = "ObjectComma" THEN "ObjectKey"
                                                                   ELSE "ArrayValue"),
                   None, r.key, Added(r.output, b, f.action = Copy), r.started)
        [] OTHER -> Refused(n)

(* White space is copied with what it is in, or between, where that is.    *)
KeptSpace(f) == \/ f.action = Copy
                \/ /\ f.action.mode = "project" /\ f.next # Discard
                   /\ f.expect \in {"Colon", "ObjectValue"}

IsClose(f, b) == \/ f.expect \in {"ObjectFirst", "ObjectComma"} /\ b = RBrace
                 \/ f.expect \in {"ArrayFirst", "ArrayComma"} /\ b = RBracket

AtInside(p, r, b, n) ==
  LET f == r.frames[Len(r.frames)]
  IN  IF b \in Whitespace
      THEN Known(r.frames, None, r.key, Added(r.output, b, KeptSpace(f)), r.started)
      ELSE IF IsClose(f, b)
      THEN Known(ValueDone(SubSeq(r.frames, 1, Len(r.frames) - 1)), None, r.key,
                 Added(r.output, b, f.action # Discard), r.started)
      ELSE IF f.expect \in ValueExpect THEN AtValue(p, r, f, b, n)
                                       ELSE AtMember(r, f, b, n)

AtOutside(r, b, n) ==
  CASE b \in Whitespace -> r
    [] b = LBrace /\ ~r.started ->
         Known(<<NewFrame(Project(0), b)>>, None, r.key, Append(r.output, b), TRUE)
    [] OTHER -> Refused(n)

-----------------------------------------------------------------------------
(* A number that the byte b ends is over before b is looked at.            *)
Ended(r, b) ==
  IF r.token # None /\ Push(r.token.scalar, b).advance = "Delimiter"
  THEN Known(ValueDone(r.frames), None, r.key, r.output, r.started) ELSE r

Takes(p, r, b, n) ==
  LET e == Ended(r, b)
  IN  IF r.state = "refused" THEN r
      ELSE IF e.token # None THEN AtScalar(p, e, b, n)
      ELSE IF e.frames # <<>> THEN AtInside(p, e, b, n) ELSE AtOutside(e, b, n)

Unread == Known(<<>>, None, <<>>, <<>>, FALSE)

Readings(p, bytes) ==
  LET at[n \in 0 .. Len(bytes)] ==
        IF n = 0 THEN Unread ELSE Takes(p, at[n - 1], bytes[n], n - 1)
  IN  at

ReadAll(p, bytes) == Readings(p, bytes)[Len(bytes)]

(* What the bytes deserve under the plan p.                                *)
Deserved(bytes, p) ==
  LET r    == ReadAll(p, bytes)
      over == r.started /\ r.frames = <<>> /\ (r.token = None \/ CanFinish(r.token.scalar))
  IN  [r |-> IF r.state = "refused" THEN "bad" ELSE IF over THEN "ok" ELSE "more",
       at |-> r.at, out |-> r.output]

PerByte == INSTANCE ProjectionContract
             WITH spec <- plan, doc <- fed, Specs <- Plans, Chunks <- Offer,
                  Verdict <- Deserved

(* Where a document is cut into chunks does not matter: every answer of a  *)
(* session is the one its bytes deserve when they are read one by one.     *)
CutsDoNotMatter == PerByte!Spec

(* What a session has written may be projected again: read under the same  *)
(* plan it is refused nowhere and comes out as it went in, and it is a     *)
(* whole document just when the session's own document is one so far.  So  *)
(* every comma, bracket and number a session writes is where it can be     *)
(* read, and it keeps nothing that a second projection would drop.         *)
ProjectsToItself ==
  LET again == Deserved(output, plan)
  IN  /\ again.r # "bad" /\ again.out = output
      /\ again.r = "ok" <=> status = "Active" /\ started /\ frames = <<>>
=============================================================================
