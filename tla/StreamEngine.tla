---------------------------- MODULE StreamEngine ----------------------------
(***************************************************************************)
(* One streaming session: the Engine of src/stream/mod.rs, fed a document  *)
(* in chunks and asked for the projected bytes at the end.  A step is one  *)
(* turn of the loop in `consume`: a span, a scalar byte or a structural    *)
(* byte.  `chunk` and `index` are the arguments and the cursor of the feed *)
(* in progress, `fed` every byte of the feeds that have returned.          *)
(***************************************************************************)
EXTENDS Lexer, KeyText, PlanShape

CONSTANTS
  Plans,          (* the arenas a session may be opened with               *)
  MaxDepth,       (* containers that may be open at once, the root included*)
  Offer(_),       (* chunks the caller may feed after having fed some bytes*)
  None            (* no scalar is being read                               *)

VARIABLES
  plan,           (* the shared, immutable arena of nodes                  *)
  frames,         (* the open containers, the innermost last               *)
  token,          (* the scalar being read                                 *)
  key,            (* raw bytes of a key whose rule is to be looked up      *)
  output,         (* projected bytes so far                                *)
  offset,         (* bytes consumed                                        *)
  started,        (* the root's brace has been read                        *)
  status,
  calling,        (* a feed is in progress                                 *)
  chunk, index,   (* its argument, and how much of it has been consumed    *)
  fed,            (* history: bytes of the feeds that have returned        *)
  reply           (* what the last call answered                           *)

engine == <<frames, token, key, output, offset, started, status>>
call   == <<calling, chunk, index, fed, reply>>
vars   == <<plan, engine, call>>

-----------------------------------------------------------------------------
(* The plan, the frames of the stack and the scalar being read.            *)

(* Nodes are numbered from 0, as the arena does.                           *)
Node(n)   == plan[n + 1]

(* MUTANT: a selecting node is taken to fit either container.              *)
FitsAny(n, b) == Node(n).kind \notin {"Keep", "Discard"} /\ b \in {LBrace, LBracket}

Fits(n, b) == \/ Node(n).kind \in {"Object", "ExcludeObject"} /\ b = LBrace
              \/ Node(n).kind = "Array" /\ b = LBracket

ASSUME PlanAssumption  == \A p \in Plans : WellFormed(p)
ASSUME DepthAssumption == MaxDepth \in Nat \ {0}

Action  == [mode : {"copy", "discard", "project"}, node : Nat]
Copy       == [mode |-> "copy", node |-> 0]
Discard    == [mode |-> "discard", node |-> 0]
Project(n) == [mode |-> "project", node |-> n]

Expect  == {"ObjectFirst", "ObjectKey", "Colon", "ObjectValue", "ObjectComma",
            "ArrayFirst", "ArrayValue", "ArrayComma"}
Frame   == [action : Action, expect : Expect, next : Action,
            emitted : BOOLEAN, object : BOOLEAN]

Destination == {"Output", "Discard", "LookupKey"}
Token   == [scalar : ScalarState, destination : Destination, key : BOOLEAN,
            start : Nat]
ASSUME NoneAssumption == None \notin Token

Status  == {"Active", "Finished", "Failed"}
Reply   == [result : {"none", "ok", "output", "parse", "closed"},
            offset : Nat, bytes : Seq(Byte)]

Replied(result)  == [result |-> result, offset |-> 0, bytes |-> <<>>]
ParseError(at)   == [result |-> "parse", offset |-> at, bytes |-> <<>>]
Output(bytes)    == [result |-> "output", offset |-> 0, bytes |-> bytes]

Top == frames[Len(frames)]

(* The stack with its top frame expecting something else.                  *)
Expecting(fs, expect) == [fs EXCEPT ![Len(fs)].expect = expect]

(* complete_value: the container around a finished value awaits a comma.   *)
ValueDone(fs) ==
  IF fs = <<>> THEN fs
  ELSE Expecting(fs, IF fs[Len(fs)].object THEN "ObjectComma" ELSE "ArrayComma")

Init ==
  /\ plan \in Plans
  /\ frames = <<>> /\ token = None /\ key = <<>> /\ output = <<>>
  /\ offset = 0 /\ started = FALSE /\ status = "Active"
  /\ calling = FALSE /\ chunk = <<>> /\ index = 0 /\ fed = <<>>
  /\ reply = Replied("none")

-----------------------------------------------------------------------------
(* The calls.                                                              *)

Feed(c) ==
  /\ ~calling /\ status = "Active" /\ c \in Seq(Byte)
  /\ calling' = TRUE /\ chunk' = c /\ index' = 0
  /\ UNCHANGED <<plan, engine, fed, reply>>

(* Any call on a session that has finished or failed.                      *)
Closed ==
  /\ ~calling /\ status # "Active"
  /\ reply' = Replied("closed")
  /\ UNCHANGED <<plan, engine, calling, chunk, index, fed>>

Return(answer) ==
  /\ calling' = FALSE /\ chunk' = <<>> /\ index' = 0
  /\ fed' = fed \o chunk
  /\ reply' = answer

(* MUTANT: a scalar cut by the end of a chunk is not gone on with.         *)
FeedReturnsForgetting ==
  /\ calling /\ index = Len(chunk)
  /\ Return(Replied("ok")) /\ token' = None
  /\ UNCHANGED <<plan, frames, key, output, offset, started, status>>

FeedReturns ==
  /\ calling /\ index = Len(chunk)
  /\ Return(Replied("ok"))
  /\ UNCHANGED <<plan, engine>>

(* fail(): a failed session keeps no part of the document.                 *)
Fail(at) ==
  /\ status' = "Failed"
  /\ frames' = <<>> /\ token' = None /\ key' = <<>> /\ output' = <<>>
  /\ Return(ParseError(at))
  /\ UNCHANGED plan

Incomplete ==
  \/ token # None /\ ~CanFinish(token.scalar)
  \/ ~started
  \/ frames # <<>>

FinishIncomplete ==
  /\ ~calling /\ status = "Active" /\ Incomplete
  /\ Fail(offset)
  /\ UNCHANGED <<offset, started>>

Finish ==
  /\ ~calling /\ status = "Active" /\ ~Incomplete
  /\ status' = "Finished"
  /\ reply' = Output(output)
  /\ frames' = <<>> /\ key' = <<>> /\ output' = <<>>
  /\ UNCHANGED <<plan, token, offset, started, calling, chunk, index, fed>>

-----------------------------------------------------------------------------
(* One turn of the loop.  Input is the byte at the cursor; n more bytes    *)
(* are consumed, and the feed goes on.                                     *)

Reading == calling /\ index < Len(chunk)
Input   == chunk[index + 1]

Advanced(n) ==
  /\ index' = index + n /\ offset' = offset + n
  /\ UNCHANGED <<plan, status, calling, chunk, fed, reply>>

Broken(at) == Fail(at) /\ UNCHANGED <<offset, started>>

Write(destination, bytes) ==
  /\ output' = IF destination = "Output" THEN output \o bytes ELSE output
  /\ key' = IF destination = "LookupKey" THEN key \o bytes ELSE key

Rest == SubSeq(chunk, index + 1, Len(chunk))

Span ==
  /\ Reading /\ token # None
  /\ \E n \in 1 .. Len(Rest) :
       /\ IsSpan(token.scalar, Rest, n)
       /\ Write(token.destination, SubSeq(Rest, 1, n))
       /\ Advanced(n)
  /\ UNCHANGED <<frames, token, started>>

(* The answer of the lexer to the byte, where no span applies.             *)
Scanning(advance) ==
  /\ Reading /\ token # None
  /\ ~SpanByte(token.scalar, Input)
  /\ Push(token.scalar, Input).advance = advance

BadByte == Scanning("Error") /\ Broken(offset)

ScalarByte ==
  /\ Scanning("Consumed")
  /\ token' = [token EXCEPT !.scalar = Push(token.scalar, Input).state]
  /\ Write(token.destination, <<Input>>)
  /\ Advanced(1)
  /\ UNCHANGED <<frames, started>>

(* A value ends with its last byte, or at the byte after it.  Only a       *)
(* number ends late, and no key is a number.                               *)
ValueEnds ==
  /\ Scanning("Complete") /\ ~token.key
  /\ token' = None
  /\ frames' = ValueDone(frames)
  /\ Write(token.destination, <<Input>>)
  /\ Advanced(1)
  /\ UNCHANGED started

(* MUTANT: the token is looked at and not taken.                           *)
NumberEndsUntaken ==
  /\ Scanning("Delimiter") /\ ~token.key
  /\ frames' = ValueDone(frames)
  /\ UNCHANGED <<plan, token, key, output, offset, started, status, call>>

NumberEnds ==
  /\ Scanning("Delimiter") /\ ~token.key
  /\ token' = None
  /\ frames' = ValueDone(frames)
  /\ UNCHANGED <<plan, key, output, offset, started, status, call>>

(* The rule of a key, found by the name its raw bytes spell.               *)
Rule(n, raw) ==
  LET name   == Decode(raw)
      fields == Node(n).fields
  IN  CASE name \in DOMAIN fields /\ Node(fields[name]).kind = "Discard" -> Discard
        [] name \in DOMAIN fields /\ Node(fields[name]).kind # "Discard" ->
             Project(fields[name])
        [] OTHER -> IF Node(n).kind = "ExcludeObject" THEN Copy ELSE Discard

(* The frame around a key that has ended: what its value is for, and       *)
(* whether a member of it has been written.                                *)
Keyed(f, next, emitted) ==
  [f EXCEPT !.next = next, !.expect = "Colon", !.emitted = emitted]

(* The end of a key under a frame that copies or discards.                 *)
PlainKeyEnds ==
  /\ Scanning("Complete") /\ token.key /\ Top.action.mode # "project"
  /\ token' = None
  /\ frames' = [frames EXCEPT ![Len(frames)] = Keyed(@, @.action, @.emitted)]
  /\ output' = IF token.destination = "Output" THEN Append(output, Input)
                                               ELSE output
  /\ key' = <<>>
  /\ Advanced(1)
  /\ UNCHANGED started

(* MUTANT: the key buffer is not cleared for the next key.                 *)
LookupKeyEndsUncleared ==
  LET raw  == Append(key, Input)
      next == Rule(Top.action.node, raw)
      comma == IF Top.emitted THEN <<Comma>> ELSE <<>>
  IN  /\ Scanning("Complete") /\ token.key /\ Top.action.mode = "project"
      /\ IsUtf8(raw)
      /\ token' = None
      /\ frames' = [frames EXCEPT ![Len(frames)] =
                       Keyed(@, next, @.emitted \/ next # Discard)]
      /\ output' = IF next = Discard THEN output ELSE output \o comma \o raw
      /\ key' = raw
      /\ Advanced(1)
      /\ UNCHANGED started

LookupKeyEnds ==
  LET raw  == Append(key, Input)
      next == Rule(Top.action.node, raw)
      comma == IF Top.emitted THEN <<Comma>> ELSE <<>>
  IN  /\ Scanning("Complete") /\ token.key /\ Top.action.mode = "project"
      /\ IsUtf8(raw)
      /\ token' = None
      /\ frames' = [frames EXCEPT ![Len(frames)] =
                       Keyed(@, next, @.emitted \/ next # Discard)]
      /\ output' = IF next = Discard THEN output ELSE output \o comma \o raw
      /\ key' = <<>>
      /\ Advanced(1)
      /\ UNCHANGED started

(* The key is only found not to be text when it ends; the byte that ends   *)
(* it has been consumed.                                                   *)
LookupKeyBroken ==
  LET raw == Append(key, Input)
  IN  /\ Scanning("Complete") /\ token.key /\ Top.action.mode = "project"
      /\ ~IsUtf8(raw)
      /\ Fail(token.start + ValidUpTo(raw))
      /\ offset' = offset + 1
      /\ UNCHANGED started

-----------------------------------------------------------------------------
(* Structural bytes: the turns where no scalar is being read.              *)

Structural == Reading /\ token = None
Outside    == Structural /\ started /\ frames = <<>>
Inside     == Structural /\ frames # <<>>

(* White space around the root.                                            *)
OuterSpace ==
  /\ Structural /\ frames = <<>> /\ Input \in Whitespace
  /\ Advanced(1)
  /\ UNCHANGED <<frames, token, key, output, started>>

BadRoot ==
  /\ Structural /\ ~started /\ Input \notin Whitespace \cup {LBrace}
  /\ Broken(offset)

TrailingInput ==
  /\ Outside /\ Input \notin Whitespace
  /\ Broken(offset)

(* MUTANT: white space around a colon is kept even if the member is not.   *)
KeepsSpaceAlways ==
  \/ Top.action = Copy
  \/ /\ Top.action.mode = "project"
     /\ Top.expect \in {"Colon", "ObjectValue"}

(* White space is kept inside a copied container, and between the key and  *)
(* the value of a kept member.                                             *)
KeepsSpace ==
  \/ Top.action = Copy
  \/ /\ Top.action.mode = "project"
     /\ Top.expect \in {"Colon", "ObjectValue"}
     /\ Top.next # Discard

InnerSpace ==
  /\ Inside /\ Input \in Whitespace
  /\ output' = IF KeepsSpace THEN Append(output, Input) ELSE output
  /\ Advanced(1)
  /\ UNCHANGED <<frames, token, key, started>>

Closing == \/ Top.expect \in {"ObjectFirst", "ObjectComma"} /\ Input = RBrace
           \/ Top.expect \in {"ArrayFirst", "ArrayComma"} /\ Input = RBracket

Close ==
  /\ Inside /\ Closing
  /\ frames' = ValueDone(SubSeq(frames, 1, Len(frames) - 1))
  /\ output' = IF Top.action = Discard THEN output ELSE Append(output, Input)
  /\ Advanced(1)
  /\ UNCHANGED <<token, key, started>>

BeginKey ==
  /\ Inside /\ Top.expect \in {"ObjectFirst", "ObjectKey"} /\ Input = Quote
  /\ LET destination == CASE Top.action.mode = "copy"    -> "Output"
                          [] Top.action.mode = "discard" -> "Discard"
                          [] Top.action.mode = "project" -> "LookupKey"
     IN  /\ token' = [scalar |-> Start(Quote), destination |-> destination,
                      key |-> TRUE, start |-> offset]
         /\ Write(destination, <<Quote>>)
  /\ Advanced(1)
  /\ UNCHANGED <<frames, started>>

ReadColon ==
  /\ Inside /\ Top.expect = "Colon" /\ Input = Colon
  /\ output' = IF Top.next = Discard THEN output ELSE Append(output, Colon)
  /\ frames' = Expecting(frames, "ObjectValue")
  /\ Advanced(1)
  /\ UNCHANGED <<token, key, started>>

(* MUTANT: every kept container writes its commas as they are read.        *)
ReadCommaKept ==
  /\ Inside /\ Top.expect \in {"ObjectComma", "ArrayComma"} /\ Input = Comma
  /\ output' = IF Top.action # Discard THEN Append(output, Comma) ELSE output
  /\ frames' = Expecting(frames, IF Top.expect = "ObjectComma"
                                 THEN "ObjectKey" ELSE "ArrayValue")
  /\ Advanced(1)
  /\ UNCHANGED <<token, key, started>>

(* A comma of a projected container is written when the next member or     *)
(* element is known to be kept, not here.                                  *)
ReadComma ==
  /\ Inside /\ Top.expect \in {"ObjectComma", "ArrayComma"} /\ Input = Comma
  /\ output' = IF Top.action = Copy THEN Append(output, Comma) ELSE output
  /\ frames' = Expecting(frames, IF Top.expect = "ObjectComma"
                                 THEN "ObjectKey" ELSE "ArrayValue")
  /\ Advanced(1)
  /\ UNCHANGED <<token, key, started>>

Misplaced ==
  /\ Inside /\ Input \notin Whitespace /\ ~Closing
  /\ \/ Top.expect \in {"ObjectFirst", "ObjectKey"} /\ Input # Quote
     \/ Top.expect = "Colon" /\ Input # Colon
     \/ Top.expect \in {"ObjectComma", "ArrayComma"} /\ Input # Comma
  /\ Broken(offset)

-----------------------------------------------------------------------------
(* Values: the root, a member's value, an array's element.                 *)

ValueDue ==
  /\ Inside /\ Input \notin Whitespace
  /\ \/ Top.expect \in {"ObjectValue", "ArrayValue"}
     \/ Top.expect = "ArrayFirst" /\ Input # RBracket

ProjectedElement == Top.expect # "ObjectValue" /\ Top.action.mode = "project"

(* What the container asks to be done with the value that starts here.     *)
Asked ==
  CASE Top.expect = "ObjectValue" -> Top.next
    [] ProjectedElement           -> Project(Node(Top.action.node).child)
    [] OTHER                      -> Top.action

(* A rule that does not fit the shape of the value keeps the value whole.  *)
Applied(asked, b) ==
  IF asked.mode = "project" /\ ~Fits(asked.node, b) THEN Copy ELSE asked

(* The stack and the output once the value is known to start.              *)
Parents == IF ProjectedElement THEN [frames EXCEPT ![Len(frames)].emitted = TRUE]
                               ELSE frames

(* MUTANT: the first element is separated too.                             *)
SeparatedAlways == IF ProjectedElement THEN Append(output, Comma) ELSE output

Separated == IF ProjectedElement /\ Top.emitted THEN Append(output, Comma)
                                                ELSE output

NewFrame(action, b) ==
  [action |-> action, object |-> b = LBrace, emitted |-> FALSE,
   next |-> Discard,
   expect |-> IF b = LBrace THEN "ObjectFirst" ELSE "ArrayFirst"]

OpenRoot ==
  /\ Structural /\ ~started /\ Input = LBrace
  /\ started' = TRUE
  /\ frames' = <<NewFrame(Project(0), LBrace)>>
  /\ output' = Append(output, LBrace)
  /\ Advanced(1)
  /\ UNCHANGED <<token, key>>

(* MUTANT: the limit lets one container too many be open.                  *)
RoomForTwo == Len(frames) <= MaxDepth

Room == Len(frames) < MaxDepth

Open ==
  LET action == Applied(Asked, Input)
  IN  /\ ValueDue /\ Input \in {LBrace, LBracket} /\ Room
      /\ frames' = Append(Parents, NewFrame(action, Input))
      /\ output' = IF action = Discard THEN Separated ELSE Append(Separated, Input)
      /\ Advanced(1)
      /\ UNCHANGED <<token, key, started>>

TooDeep ==
  /\ ValueDue /\ Input \in {LBrace, LBracket} /\ ~Room
  /\ Broken(offset)

BeginScalar ==
  LET keep == Applied(Asked, Input) # Discard
  IN  /\ ValueDue /\ Startable(Input)
      /\ token' = [scalar |-> Start(Input), key |-> FALSE, start |-> offset,
                   destination |-> IF keep THEN "Output" ELSE "Discard"]
      /\ frames' = Parents
      /\ output' = IF keep THEN Append(Separated, Input) ELSE Separated
      /\ Advanced(1)
      /\ UNCHANGED <<key, started>>

BadValue ==
  /\ ValueDue /\ Input \notin {LBrace, LBracket} /\ ~Startable(Input)
  /\ Broken(offset)

-----------------------------------------------------------------------------
Scalar == \/ Span \/ BadByte \/ ScalarByte \/ ValueEnds \/ NumberEnds
          \/ PlainKeyEnds \/ LookupKeyEnds \/ LookupKeyBroken

Structure == \/ OuterSpace \/ BadRoot \/ TrailingInput \/ InnerSpace \/ Close
             \/ BeginKey \/ ReadColon \/ ReadComma \/ Misplaced
             \/ OpenRoot \/ Open \/ TooDeep \/ BeginScalar \/ BadValue

Step == Scalar \/ Structure \/ FeedReturns

Next == \/ \E c \in Offer(fed) : Feed(c)
        \/ Closed \/ Finish \/ FinishIncomplete
        \/ Step

Spec == Init /\ [][Next]_vars

(* A feed runs to its end on the thread that called it.                    *)
FairSpec == Spec /\ WF_vars(Step)

-----------------------------------------------------------------------------
(* The state a session may be in.                                          *)

(* Every variable has its type; the cursor is within the chunk.            *)
TypeOK ==
  /\ plan \in Plans
  /\ frames \in Seq(Frame)
  /\ token \in Token \cup {None}
  /\ key \in Seq(Byte) /\ output \in Seq(Byte)
  /\ offset \in Nat /\ started \in BOOLEAN /\ status \in Status
  /\ calling \in BOOLEAN /\ chunk \in Seq(Byte) /\ index \in 0 .. Len(chunk)
  /\ fed \in Seq(Byte) /\ reply \in Reply

ObjectExpect == {"ObjectFirst", "ObjectKey", "Colon", "ObjectValue", "ObjectComma"}
ValueExpect  == {"ObjectValue", "ArrayFirst", "ArrayValue"}

IsNode(action) == action.mode = "project" => action.node \in 0 .. Len(plan) - 1

(* The node of a projecting frame selects in containers of its kind.       *)
KindFits(f) ==
  /\ IsNode(f.action)
  /\ f.action.mode = "project" =>
       IF f.object THEN Node(f.action.node).kind \in {"Object", "ExcludeObject"}
                   ELSE Node(f.action.node).kind = "Array"

(* Where an object has read a key, its `next` says what the value is for.  *)
NextFits(f) ==
  /\ IsNode(f.next)
  /\ f.expect \in {"Colon", "ObjectValue"} /\ f.action.mode # "project" =>
       f.next = f.action

(* What frame f asks of the value it waits for.                            *)
AskedBy(f) ==
  CASE f.object                                 -> f.next
    [] ~f.object /\ f.action.mode = "project"   -> Project(Node(f.action.node).child)
    [] OTHER                                    -> f.action

(* A frame agrees with itself: its rule, its kind and what it waits for.   *)
FrameFits(f) ==
  /\ KindFits(f) /\ NextFits(f)
  /\ f.object <=> f.expect \in ObjectExpect

FramesFit(fs) == \A i \in 1 .. Len(fs) : FrameFits(fs[i])

(* Every open container is treated as the rule of the one around it asks.  *)
StackFollowsPlan(fs) ==
  \A i \in 2 .. Len(fs) :
    /\ fs[i - 1].expect \in ValueExpect
    /\ fs[i].action = Applied(AskedBy(fs[i - 1]),
                             IF fs[i].object THEN LBrace ELSE LBracket)

(* A scalar is read where one is due, into the buffer its rule calls for.  *)
TokenFits ==
  token # None =>
    /\ frames # <<>>
    /\ IF token.key
       THEN /\ Top.expect \in {"ObjectFirst", "ObjectKey"}
            /\ token.destination = CASE Top.action.mode = "copy"    -> "Output"
                                     [] Top.action.mode = "discard" -> "Discard"
                                     [] Top.action.mode = "project" -> "LookupKey"
            /\ token.scalar.st \in {"String", "Escape", "Unicode",
                                    "SurrogateBackslash", "SurrogateU"}
       ELSE /\ Top.expect \in ValueExpect
            /\ token.destination = IF AskedBy(Top) = Discard
                                   THEN "Discard" ELSE "Output"
            /\ token.scalar.st # "Done"

(* The key buffer holds the raw bytes of the key being read, no others.    *)
KeyFits ==
  Len(key) = IF token # None /\ token.destination = "LookupKey"
             THEN offset - token.start ELSE 0

Bounded ==
  /\ Len(frames) <= MaxDepth
  /\ frames # <<>> => started
  /\ ~started => output = <<>>

Settled ==
  /\ status # "Active" =>
       ~calling /\ frames = <<>> /\ token = None /\ key = <<>> /\ output = <<>>
  /\ status = "Active" => offset = Len(fed) + index
  /\ ~calling => chunk = <<>> /\ index = 0

(* The stack, the scalar being read and the buffers agree with each other  *)
(* and with the plan (the enums of stream/mod.rs leave all of this open).  *)
StackInv ==
  /\ FramesFit(frames) /\ StackFollowsPlan(frames) /\ TokenFits /\ KeyFits
  /\ Bounded /\ Settled

(* No unwrap() finds None and no unreachable!() is reached: a token ends   *)
(* inside a frame, a key under an object's node, an element under an       *)
(* array's node, and a key never ends at a delimiter.                      *)
NoPanic ==
  /\ token # None => frames # <<>>
  /\ token # None /\ token.key =>
       /\ \A x \in Byte : Push(token.scalar, x).advance # "Delimiter"
       /\ Top.action.mode = "project" =>
            Node(Top.action.node).kind \in {"Object", "ExcludeObject"}
  /\ frames # <<>> /\ Top.expect \in {"ArrayFirst", "ArrayValue"}
       /\ Top.action.mode = "project" => Node(Top.action.node).kind = "Array"

(* What is dropped is dropped as it is read: no buffer grows over a byte   *)
(* of a member the rules discard, its white space and colon included.      *)
Dropping ==
  /\ frames # <<>>
  /\ \/ Top.action = Discard
     \/ Top.expect \in {"Colon", "ObjectValue"} /\ Top.next = Discard

DropsAtOnce ==
  [][ Dropping /\ status' = status => output' = output /\ key' = key ]_vars

(* A session holds no more of the document than it has read: the bytes it  *)
(* buffers never outnumber those consumed, commas it adds included.        *)
BufferBound == Len(output) + Len(key) <= offset

(* A feed that has been called returns.                                    *)
FeedEnds == calling ~> ~calling
=============================================================================
