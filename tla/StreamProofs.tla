---------------------------- MODULE StreamProofs ----------------------------
(***************************************************************************)
(* The streaming engine keeps its state consistent, whatever the plan, the *)
(* depth limit, the bytes and the chunks they come in.  First what         *)
(* replacing, pushing and popping the top frame does to the agreement of   *)
(* the frames with each other and with the plan; then what the engine      *)
(* keeps of a document: nothing of what is dropped, and never more than it *)
(* has read; then that a session answers as if its bytes were read one by  *)
(* one, however they are cut into chunks, and that what it has written     *)
(* comes out of a second projection as it went in.                         *)
(***************************************************************************)
EXTENDS ByteReading, LexerProofs, Inductions, SequenceTheorems, FiniteSetTheorems

-----------------------------------------------------------------------------
(* The plan.                                                               *)

(* The node of a projecting action, and the nodes it refers to.            *)
LEMMA PlanNodes ==
  ASSUME plan \in Plans, NEW n \in 0 .. Len(plan) - 1
  PROVE  /\ Len(plan) \in Nat \ {0}
         /\ Node(n).kind \in NodeKind
         /\ Node(n).kind \in {"Object", "ExcludeObject"} =>
              \A name \in DOMAIN Node(n).fields :
                 Node(n).fields[name] \in 0 .. Len(plan) - 1
         /\ Node(n).kind = "Array" => Node(n).child \in 0 .. Len(plan) - 1
<1>1. WellFormed(plan)
  BY PlanAssumption
<1>2. Len(plan) \in Nat \ {0}
  BY <1>1 DEF WellFormed
<1>3. n + 1 \in 1 .. Len(plan)
  BY <1>2
<1>4. \A m \in 1 .. Len(plan) - 1 : m \in 0 .. Len(plan) - 1
  BY <1>2
<1> QED BY <1>1, <1>2, <1>3, <1>4 DEF WellFormed, Node

(* The root selects the members of an object.                              *)
LEMMA RootNode ==
  ASSUME plan \in Plans
  PROVE  /\ 0 \in 0 .. Len(plan) - 1
         /\ Node(0).kind \in {"Object", "ExcludeObject"}
<1>1. WellFormed(plan)
  BY PlanAssumption
<1> QED BY <1>1 DEF WellFormed, Node

-----------------------------------------------------------------------------
(* Actions.                                                                *)

LEMMA ActionTyped ==
  /\ Copy \in Action /\ Discard \in Action /\ Copy # Discard
  /\ IsNode(Copy) /\ IsNode(Discard)
  /\ \A n \in Nat : Project(n) \in Action
  /\ \A n \in 0 .. Len(plan) - 1 : IsNode(Project(n))
  /\ \A n : Project(n) # Discard /\ Project(n).mode = "project"
  /\ Copy.mode = "copy" /\ Discard.mode = "discard"
  BY DEF Copy, Discard, Project, Action, IsNode

(* A value is discarded only where its rule asks for it.                   *)
LEMMA AppliedFacts ==
  ASSUME NEW asked \in Action, IsNode(asked), NEW b
  PROVE  /\ Applied(asked, b) \in Action
         /\ IsNode(Applied(asked, b))
         /\ Applied(asked, b) = Discard <=> asked = Discard
         /\ Applied(asked, b).mode = "project" => Fits(Applied(asked, b).node, b)
<1>1. CASE asked.mode = "project" /\ ~Fits(asked.node, b)
  <2>1. Applied(asked, b) = Copy
    BY <1>1 DEF Applied
  <2>2. asked # Discard
    BY <1>1, ActionTyped
  <2> QED BY <2>1, <2>2, ActionTyped
<1>2. CASE ~(asked.mode = "project" /\ ~Fits(asked.node, b))
  <2>1. Applied(asked, b) = asked
    BY <1>2 DEF Applied
  <2> QED BY <1>2, <2>1
<1> QED BY <1>1, <1>2

(* What the rule of a key is.                                              *)
LEMMA RuleFacts ==
  ASSUME plan \in Plans, NEW n \in 0 .. Len(plan) - 1, NEW raw,
         Node(n).kind \in {"Object", "ExcludeObject"}
  PROVE  Rule(n, raw) \in Action /\ IsNode(Rule(n, raw))
<1> DEFINE name   == Decode(raw)
           fields == Node(n).fields
<1>1. CASE name \in DOMAIN fields
  <2>1. fields[name] \in 0 .. Len(plan) - 1 /\ Len(plan) \in Nat \ {0}
    BY <1>1, PlanNodes
  <2>2. fields[name] \in Nat
    BY <2>1
  <2>3. Rule(n, raw) \in {Discard, Project(fields[name])}
    BY <1>1 DEF Rule
  <2> QED BY <2>1, <2>2, <2>3, ActionTyped
<1>2. CASE name \notin DOMAIN fields
  <2>1. Rule(n, raw) \in {Discard, Copy}
    BY <1>2 DEF Rule
  <2> QED BY <2>1, ActionTyped
<1> QED BY <1>1, <1>2

-----------------------------------------------------------------------------
(* Bytes and frames.                                                       *)

LEMMA BytesTyped ==
  /\ Quote \in Byte /\ Colon \in Byte /\ Comma \in Byte /\ LBrace \in Byte
  /\ <<Quote>> \in Seq(Byte) /\ <<Comma>> \in Seq(Byte) /\ <<>> \in Seq(Byte)
<1>1. Quote \in Byte /\ Colon \in Byte /\ Comma \in Byte /\ LBrace \in Byte
  BY DEF Quote, Colon, Comma, LBrace, Byte
<1> QED BY <1>1

(* The fields of a frame, and what changing them leaves.                   *)
LEMMA FrameFields ==
  ASSUME NEW f \in Frame
  PROVE  /\ f.action \in Action /\ f.expect \in Expect /\ f.next \in Action
         /\ f.emitted \in BOOLEAN /\ f.object \in BOOLEAN
  BY DEF Frame

LEMMA FrameExpect ==
  ASSUME NEW f \in Frame, NEW e \in Expect
  PROVE  /\ [f EXCEPT !.expect = e] \in Frame
         /\ [f EXCEPT !.expect = e].expect = e
         /\ [f EXCEPT !.expect = e].action = f.action
         /\ [f EXCEPT !.expect = e].next = f.next
         /\ [f EXCEPT !.expect = e].emitted = f.emitted
         /\ [f EXCEPT !.expect = e].object = f.object
  BY Zenon DEF Frame

LEMMA FrameEmitted ==
  ASSUME NEW f \in Frame
  PROVE  /\ [f EXCEPT !.emitted = TRUE] \in Frame
         /\ [f EXCEPT !.emitted = TRUE].expect = f.expect
         /\ [f EXCEPT !.emitted = TRUE].action = f.action
         /\ [f EXCEPT !.emitted = TRUE].next = f.next
         /\ [f EXCEPT !.emitted = TRUE].emitted
         /\ [f EXCEPT !.emitted = TRUE].object = f.object
  BY Zenon DEF Frame

LEMMA FrameKeyed ==
  ASSUME NEW f \in Frame, NEW next \in Action, NEW emitted \in BOOLEAN
  PROVE  /\ Keyed(f, next, emitted) \in Frame
         /\ Keyed(f, next, emitted).expect = "Colon"
         /\ Keyed(f, next, emitted).action = f.action
         /\ Keyed(f, next, emitted).next = next
         /\ Keyed(f, next, emitted).emitted = emitted
         /\ Keyed(f, next, emitted).object = f.object
<1>1. "Colon" \in Expect
  BY DEF Expect
<1> QED BY <1>1, Zenon DEF Frame, Keyed

-----------------------------------------------------------------------------
(* Stacks.                                                                 *)

Replaced(fs, g) == [fs EXCEPT ![Len(fs)] = g]

(* A stack that agrees with itself and with the plan.                      *)
Stack(fs) == fs \in Seq(Frame) /\ FramesFit(fs) /\ StackFollowsPlan(fs)

LEMMA TopFacts ==
  ASSUME NEW fs, Stack(fs), fs # <<>>
  PROVE  /\ Len(fs) \in Nat \ {0} /\ Len(fs) \in 1 .. Len(fs)
         /\ fs[Len(fs)] \in Frame /\ FrameFits(fs[Len(fs)])
<1>1. Len(fs) \in Nat \ {0}
  BY EmptySeq DEF Stack
<1>2. Len(fs) \in 1 .. Len(fs)
  BY <1>1
<1> QED BY <1>1, <1>2, ElementOfSeq DEF Stack, FramesFit

(* The top frame is replaced by one with the same rule and kind.           *)
LEMMA ReplaceTop ==
  ASSUME NEW fs, Stack(fs), fs # <<>>, NEW g \in Frame, FrameFits(g),
         g.action = fs[Len(fs)].action, g.object = fs[Len(fs)].object
  PROVE  /\ Stack(Replaced(fs, g))
         /\ Len(Replaced(fs, g)) = Len(fs) /\ Replaced(fs, g) # <<>>
         /\ Replaced(fs, g)[Len(fs)] = g
<1> DEFINE hs == Replaced(fs, g)
           k  == Len(fs)
<1>1. k \in Nat \ {0} /\ k \in 1 .. k
  BY TopFacts
<1>2. /\ hs \in Seq(Frame) /\ Len(hs) = k
      /\ \A j \in 1 .. k : hs[j] = IF j = k THEN g ELSE fs[j]
  BY <1>1, ExceptSeq DEF Stack, Replaced
<1>3. hs # <<>>
  BY <1>1, <1>2, EmptySeq
<1>4. FramesFit(hs)
  BY <1>1, <1>2 DEF FramesFit, Stack
<1>5. StackFollowsPlan(hs)
  <2> SUFFICES ASSUME NEW i \in 2 .. k
               PROVE  /\ hs[i - 1].expect \in ValueExpect
                      /\ hs[i].action = Applied(AskedBy(hs[i - 1]),
                                       IF hs[i].object THEN LBrace ELSE LBracket)
    BY <1>2 DEF StackFollowsPlan
  <2>1. i - 1 \in 1 .. k /\ i - 1 # k /\ i \in 1 .. k
    BY <1>1
  <2>2. hs[i - 1] = fs[i - 1]
    BY <1>2, <2>1
  <2>3. hs[i].action = fs[i].action /\ hs[i].object = fs[i].object
    BY <1>2, <2>1
  <2> QED BY <2>2, <2>3 DEF Stack, StackFollowsPlan
<1> QED BY <1>1, <1>2, <1>3, <1>4, <1>5 DEF Stack

(* A frame is put on top, treated as the frame below asks.                 *)
LEMMA PushFrame ==
  ASSUME NEW fs, Stack(fs), fs # <<>>, NEW g \in Frame, FrameFits(g),
         fs[Len(fs)].expect \in ValueExpect,
         g.action = Applied(AskedBy(fs[Len(fs)]),
                            IF g.object THEN LBrace ELSE LBracket)
  PROVE  /\ Stack(Append(fs, g))
         /\ Len(Append(fs, g)) = Len(fs) + 1 /\ Append(fs, g) # <<>>
<1> DEFINE hs == Append(fs, g)
           k  == Len(fs)
<1>1. k \in Nat \ {0} /\ k \in 1 .. k
  BY TopFacts
<1>2. /\ hs \in Seq(Frame) /\ Len(hs) = k + 1
      /\ \A j \in 1 .. k : hs[j] = fs[j]
      /\ hs[k + 1] = g
  BY <1>1 DEF Stack
<1>3. hs # <<>>
  BY <1>1, <1>2, EmptySeq
<1>4. FramesFit(hs)
  <2> SUFFICES ASSUME NEW j \in 1 .. k + 1 PROVE FrameFits(hs[j])
    BY <1>2 DEF FramesFit
  <2>1. j \in 1 .. k \/ j = k + 1
    BY <1>1
  <2> QED BY <1>2, <2>1 DEF FramesFit, Stack
<1>5. StackFollowsPlan(hs)
  <2> SUFFICES ASSUME NEW i \in 2 .. k + 1
               PROVE  /\ hs[i - 1].expect \in ValueExpect
                      /\ hs[i].action = Applied(AskedBy(hs[i - 1]),
                                       IF hs[i].object THEN LBrace ELSE LBracket)
    BY <1>2 DEF StackFollowsPlan
  <2>1. hs[i - 1] = fs[i - 1]
    BY <1>1, <1>2
  <2>2. CASE i = k + 1
    BY <1>1, <1>2, <2>1, <2>2
  <2>3. CASE i # k + 1
    <3>1. i \in 2 .. k /\ i \in 1 .. k
      BY <1>1, <2>3
    <3>2. hs[i] = fs[i]
      BY <1>2, <3>1
    <3> QED BY <2>1, <3>1, <3>2 DEF Stack, StackFollowsPlan
  <2> QED BY <2>2, <2>3
<1> QED BY <1>1, <1>2, <1>3, <1>4, <1>5 DEF Stack

(* The top frame is taken away.                                            *)
LEMMA PopFrame ==
  ASSUME NEW fs, Stack(fs), fs # <<>>
  PROVE  LET hs == SubSeq(fs, 1, Len(fs) - 1)
         IN  /\ Stack(hs) /\ Len(hs) = Len(fs) - 1
             /\ hs # <<>> => hs[Len(hs)].expect \in ValueExpect
<1> DEFINE hs == SubSeq(fs, 1, Len(fs) - 1)
           k  == Len(fs)
<1>1. k \in Nat \ {0} /\ k \in 1 .. k
  BY TopFacts
<1>2. \A i \in 1 .. k - 1 : fs[i] \in Frame
  BY <1>1, ElementOfSeq DEF Stack
<1>3. /\ hs \in Seq(Frame) /\ Len(hs) = k - 1
      /\ \A i \in 1 .. k - 1 : hs[i] = fs[i]
  <2>1. \A n \in Nat \ {0} : /\ 1 \in Int /\ n - 1 \in Int
                             /\ (IF 1 <= n - 1 THEN n - 1 - 1 + 1 ELSE 0) = n - 1
                             /\ n - 1 - 1 + 1 = n - 1
                             /\ \A i \in 1 .. n - 1 : 1 + i - 1 = i
    OBVIOUS
  <2>2. /\ hs \in Seq(Frame)
        /\ Len(hs) = IF 1 <= k - 1 THEN k - 1 - 1 + 1 ELSE 0
        /\ \A i \in 1 .. k - 1 - 1 + 1 : hs[i] = fs[1 + i - 1]
    BY <1>1, <1>2, <2>1, SubSeqProperties
  <2> QED BY <1>1, <2>1, <2>2
<1>4. FramesFit(hs)
  BY <1>1, <1>3 DEF FramesFit, Stack
<1>5. StackFollowsPlan(hs)
  BY <1>1, <1>3 DEF StackFollowsPlan, Stack
<1>6. hs # <<>> => hs[Len(hs)].expect \in ValueExpect
  <2> SUFFICES ASSUME hs # <<>> PROVE hs[Len(hs)].expect \in ValueExpect
    OBVIOUS
  <2>1. Len(hs) \in Nat \ {0}
    BY <1>3, EmptySeq
  <2>2. k \in 2 .. k /\ k - 1 \in 1 .. k - 1
    BY <1>1, <1>3, <2>1
  <2>3. hs[Len(hs)] = fs[k - 1]
    BY <1>3, <2>2
  <2> QED BY <2>2, <2>3 DEF Stack, StackFollowsPlan
<1> QED BY <1>3, <1>4, <1>5, <1>6 DEF Stack

(* A frame that waits for something else still agrees with itself.         *)
LEMMA ExpectFits ==
  ASSUME NEW f \in Frame, FrameFits(f), NEW e \in Expect,
         f.object <=> e \in ObjectExpect,
         e \in {"Colon", "ObjectValue"} => f.expect \in {"Colon", "ObjectValue"}
  PROVE  FrameFits([f EXCEPT !.expect = e])
  BY FrameExpect DEF FrameFits, KindFits, NextFits

LEMMA ExpectingStack ==
  ASSUME NEW fs, Stack(fs), fs # <<>>, NEW e \in Expect,
         fs[Len(fs)].object <=> e \in ObjectExpect,
         e \in {"Colon", "ObjectValue"} =>
            fs[Len(fs)].expect \in {"Colon", "ObjectValue"}
  PROVE  /\ Stack(Expecting(fs, e))
         /\ Len(Expecting(fs, e)) = Len(fs) /\ Expecting(fs, e) # <<>>
         /\ Expecting(fs, e)[Len(fs)] = [fs[Len(fs)] EXCEPT !.expect = e]
<1> DEFINE f == fs[Len(fs)]
           g == [f EXCEPT !.expect = e]
<1>1. f \in Frame /\ FrameFits(f)
  BY TopFacts
<1>2. g \in Frame /\ g.action = f.action /\ g.object = f.object
  BY <1>1, FrameExpect
<1>3. FrameFits(g)
  BY <1>1, ExpectFits
<1>4. Expecting(fs, e) = Replaced(fs, g)
  BY DEF Expecting, Replaced
<1> QED BY ZenonT(40), <1>2, <1>3, <1>4, ReplaceTop

(* A finished value leaves a stack that awaits a comma.                    *)
LEMMA ValueDoneStack ==
  ASSUME NEW fs, Stack(fs)
  PROVE  /\ Stack(ValueDone(fs)) /\ Len(ValueDone(fs)) = Len(fs)
         /\ ValueDone(fs) = <<>> <=> fs = <<>>
         /\ fs # <<>> => ValueDone(fs)[Len(fs)].expect \in {"ObjectComma", "ArrayComma"}
<1>1. CASE fs = <<>>
  BY <1>1 DEF ValueDone
<1>2. CASE fs # <<>>
  <2> DEFINE f == fs[Len(fs)]
             e == IF f.object THEN "ObjectComma" ELSE "ArrayComma"
  <2>1. f \in Frame
    BY <1>2, TopFacts
  <2>2. /\ e \in Expect /\ e \notin {"Colon", "ObjectValue"}
        /\ e \in {"ObjectComma", "ArrayComma"}
    BY DEF Expect
  <2>3. f.object <=> e \in ObjectExpect
    BY DEF ObjectExpect
  <2>4. ValueDone(fs) = Expecting(fs, e)
    BY <1>2 DEF ValueDone
  <2> HIDE DEF e
  <2>5. [f EXCEPT !.expect = e].expect = e
    BY <2>1, <2>2, FrameExpect
  <2>6. /\ Stack(Expecting(fs, e))
        /\ Len(Expecting(fs, e)) = Len(fs) /\ Expecting(fs, e) # <<>>
        /\ Expecting(fs, e)[Len(fs)] = [f EXCEPT !.expect = e]
    BY <1>2, <2>2, <2>3, ExpectingStack
  <2> HIDE DEF f
  <2> QED BY <1>2, <2>2, <2>4, <2>5, <2>6
<1> QED BY <1>1, <1>2

-----------------------------------------------------------------------------

(* What is inductive: the types depend on the agreement of the stack with  *)
(* the plan (a node's number is only a number if the node exists), and the *)
(* agreement on the types.                                                 *)
Inv == TypeOK /\ StackInv

-----------------------------------------------------------------------------
(* The parts of the invariant.                                             *)

LEMMA InvParts ==
  ASSUME Inv
  PROVE  /\ plan \in Plans /\ Stack(frames)
         /\ token \in Token \cup {None}
         /\ key \in Seq(Byte) /\ output \in Seq(Byte) /\ chunk \in Seq(Byte)
         /\ fed \in Seq(Byte) /\ offset \in Nat /\ index \in 0 .. Len(chunk)
         /\ Len(key) \in Nat /\ Len(output) \in Nat /\ Len(chunk) \in Nat
         /\ Len(fed) \in Nat /\ index \in Nat
         /\ status \in Status /\ started \in BOOLEAN /\ calling \in BOOLEAN
         /\ reply \in Reply
         /\ TokenFits /\ KeyFits /\ Bounded /\ Settled
  BY DEF Inv, TypeOK, StackInv, Stack

(* While a feed is in progress the session is active.                      *)
LEMMA ReadingFacts ==
  ASSUME Inv, Reading
  PROVE  status = "Active" /\ Input \in Byte /\ <<Input>> \in Seq(Byte)
<1>1. status = "Active"
  BY InvParts DEF Settled, Reading
<1>2. index + 1 \in 1 .. Len(chunk)
  BY InvParts DEF Reading
<1>3. Input \in Byte
  BY <1>2, InvParts, ElementOfSeq DEF Input
<1> QED BY <1>1, <1>3

(* The stack fits the plan in the next state if it fits it now.            *)
LEMMA StackNext ==
  ASSUME NEW fs, Stack(fs), plan' = plan, frames' = fs
  PROVE  /\ FramesFit(frames)' /\ StackFollowsPlan(frames)'
         /\ frames' \in Seq(Frame)
<1>1. frames' \in Seq(Frame)
  BY DEF Stack
<1>2. FramesFit(frames)'
  BY DEF Stack, FramesFit, FrameFits, KindFits, NextFits, IsNode, Node
<1>3. StackFollowsPlan(frames)'
  BY ZenonT(80) DEF Stack, StackFollowsPlan, Applied, Fits, AskedBy, Node
<1> QED BY <1>1, <1>2, <1>3

(* The part of the invariant that a step of the loop leaves to the cursor. *)
CallInv ==
  /\ plan \in Plans /\ offset \in Nat /\ status \in Status
  /\ calling \in BOOLEAN /\ chunk \in Seq(Byte) /\ index \in 0 .. Len(chunk)
  /\ fed \in Seq(Byte) /\ reply \in Reply /\ Settled

(* The part about the buffers and the scalar.                              *)
BufferInv ==
  /\ token \in Token \cup {None}
  /\ key \in Seq(Byte) /\ output \in Seq(Byte) /\ started \in BOOLEAN
  /\ TokenFits /\ KeyFits /\ Bounded

LEMMA InvFromParts ==
  ASSUME CallInv', BufferInv', NEW fs, Stack(fs), plan' = plan, frames' = fs
  PROVE  Inv'
<1>1. /\ FramesFit(frames)' /\ StackFollowsPlan(frames)'
      /\ frames' \in Seq(Frame)
  BY StackNext
<1> QED BY <1>1 DEF Inv, TypeOK, StackInv, CallInv, BufferInv

(* The cursor moves n bytes on.                                            *)
LEMMA AdvancedKeeps ==
  ASSUME Inv, Reading, NEW n \in 1 .. Len(chunk) - index, Advanced(n)
  PROVE  /\ CallInv' /\ plan' = plan
         /\ offset' = offset + n /\ offset' \in Nat
<1>1. /\ offset' = offset + n /\ index' = index + n /\ plan' = plan
      /\ UNCHANGED <<status, calling, chunk, fed, reply>>
  BY DEF Advanced
<1>2. offset' \in Nat /\ index' \in 0 .. Len(chunk)
  BY <1>1, InvParts
<1>3. Settled'
  BY <1>1, InvParts, ReadingFacts DEF Settled, Reading
<1> QED BY <1>1, <1>2, <1>3, InvParts DEF CallInv

LEMMA AdvancedOne ==
  ASSUME Inv, Reading, Advanced(1)
  PROVE  /\ CallInv' /\ plan' = plan
         /\ offset' = offset + 1 /\ offset' \in Nat
<1>1. 1 \in 1 .. Len(chunk) - index
  BY InvParts DEF Reading
<1> QED BY <1>1, AdvancedKeeps

(* Failing leaves nothing to disagree.                                     *)
LEMMA FailKeeps ==
  ASSUME Inv, NEW at \in Nat, Fail(at), started' = started, offset' \in Nat
  PROVE  Inv'
<1>1. /\ status' = "Failed" /\ frames' = <<>> /\ token' = None /\ key' = <<>>
      /\ output' = <<>> /\ calling' = FALSE /\ chunk' = <<>> /\ index' = 0
      /\ fed' = fed \o chunk /\ reply' = ParseError(at) /\ plan' = plan
  BY DEF Fail, Return
<1>2. fed' \in Seq(Byte)
  BY <1>1, InvParts, ConcatProperties
<1>3. reply' \in Reply
  BY <1>1 DEF ParseError, Reply
<1>4. Settled'
  BY <1>1 DEF Settled
<1>5. CallInv'
  <2>1. chunk' \in Seq(Byte) /\ index' \in 0 .. Len(chunk')
    BY <1>1
  <2>2. status' \in Status /\ calling' \in BOOLEAN /\ plan' \in Plans
    BY <1>1, InvParts DEF Status
  <2> QED BY <1>2, <1>3, <1>4, <2>1, <2>2 DEF CallInv
<1>6. BufferInv'
  BY <1>1, InvParts, DepthAssumption
     DEF BufferInv, TokenFits, KeyFits, Bounded
<1>7. Stack(<<>>)
  BY DEF Stack, FramesFit, StackFollowsPlan
<1> QED BY <1>1, <1>5, <1>6, <1>7, InvFromParts

(* What a write does to the buffers.                                       *)
LEMMA WriteFacts ==
  ASSUME NEW destination, NEW bytes \in Seq(Byte), Write(destination, bytes),
         key \in Seq(Byte), output \in Seq(Byte)
  PROVE  /\ key' \in Seq(Byte) /\ output' \in Seq(Byte)
         /\ Len(key') = Len(key) + IF destination = "LookupKey" THEN Len(bytes) ELSE 0
         /\ Len(output') = Len(output) + IF destination = "Output" THEN Len(bytes) ELSE 0
         /\ destination # "LookupKey" => key' = key
         /\ destination # "Output" => output' = output
  BY ConcatProperties DEF Write

-----------------------------------------------------------------------------
(* Turns on the scalar being read.                                         *)

LEMMA TokenFacts ==
  ASSUME Inv, token # None
  PROVE  /\ token \in Token /\ token.scalar \in ScalarState
         /\ token.destination \in Destination /\ token.key \in BOOLEAN
         /\ token.start \in Nat
         /\ frames # <<>> /\ Len(frames) \in Nat \ {0}
         /\ Top \in Frame /\ FrameFits(Top)
  BY InvParts, TopFacts DEF TokenFits, Token, Top

LEMMA TokenScalar ==
  ASSUME NEW t \in Token, NEW s \in ScalarState
  PROVE  /\ [t EXCEPT !.scalar = s] \in Token
         /\ [t EXCEPT !.scalar = s].scalar = s
         /\ [t EXCEPT !.scalar = s].destination = t.destination
         /\ [t EXCEPT !.scalar = s].key = t.key
         /\ [t EXCEPT !.scalar = s].start = t.start
  BY Zenon DEF Token

LEMMA NoneIsNoToken == \A t \in Token : t # None
  BY NoneAssumption

LEMMA SpanKeeps ==
  ASSUME Inv, Span
  PROVE  Inv'
<1> DEFINE rest == Len(chunk) - index
<1>1. Reading /\ token # None /\ UNCHANGED <<frames, token, started>>
  BY DEF Span
<1>2. rest \in Nat /\ Len(Rest) = rest
      /\ \A i \in 1 .. rest : Rest[i] \in Byte
  <2>1. \A i \in index + 1 .. Len(chunk) : chunk[i] \in Byte
    BY InvParts, ElementOfSeq
  <2>2. index + 1 \in Int /\ Len(chunk) \in Int
    BY InvParts
  <2>3. /\ Rest \in Seq(Byte)
        /\ Len(Rest) = IF index + 1 <= Len(chunk) THEN Len(chunk) - (index + 1) + 1 ELSE 0
    BY <2>1, <2>2, SubSeqProperties DEF Rest
  <2>4. Len(Rest) = rest /\ rest \in Nat
    BY <1>1, <2>3, InvParts DEF Reading
  <2> QED BY <2>3, <2>4, ElementOfSeq
<1> PICK n \in 1 .. Len(Rest) :
       /\ Write(token.destination, SubSeq(Rest, 1, n))
       /\ Advanced(n)
  BY DEF Span
<1>3. n \in 1 .. rest /\ n \in Nat
  BY <1>2
<1>4. SubSeq(Rest, 1, n) \in Seq(Byte) /\ Len(SubSeq(Rest, 1, n)) = n
  <2>1. 1 \in Int /\ n \in Int /\ 1 <= n /\ n - 1 + 1 = n
    BY <1>3
  <2>2. \A i \in 1 .. n : Rest[i] \in Byte
    BY <1>2, <1>3
  <2> QED BY <2>1, <2>2, SubSeqProperties
<1>5. CallInv' /\ plan' = plan /\ offset' = offset + n /\ offset' \in Nat
  BY <1>1, <1>3, AdvancedKeeps
<1>6. /\ key' \in Seq(Byte) /\ output' \in Seq(Byte)
      /\ Len(key') = Len(key) + IF token.destination = "LookupKey" THEN n ELSE 0
  BY <1>4, InvParts, WriteFacts
<1>7. KeyFits'
  <2>1. /\ Len(key) = IF token.destination = "LookupKey" THEN offset - token.start ELSE 0
        /\ offset \in Nat /\ token.start \in Nat /\ n \in Nat
    BY <1>1, <1>3, InvParts, TokenFacts DEF KeyFits
  <2>2. token' = token
    BY <1>1
  <2> QED BY <1>1, <1>5, <1>6, <2>1, <2>2 DEF KeyFits
<1>8. TokenFits' /\ Bounded'
  <2>1. TokenFits'
    BY <1>1, <1>5, InvParts DEF TokenFits, Top, AskedBy, Node
  <2>2. Bounded'
    BY <1>1, TokenFacts, InvParts DEF Bounded
  <2> QED BY <2>1, <2>2
<1>9. BufferInv'
  BY <1>1, <1>6, <1>7, <1>8, InvParts DEF BufferInv
<1> QED BY <1>1, <1>5, <1>9, InvParts, InvFromParts

LEMMA ScalarByteKeeps ==
  ASSUME Inv, ScalarByte
  PROVE  Inv'
<1> DEFINE s == Push(token.scalar, Input).state
<1>1. /\ Reading /\ token # None /\ UNCHANGED <<frames, started>>
      /\ Push(token.scalar, Input).advance = "Consumed"
      /\ token' = [token EXCEPT !.scalar = s]
      /\ Write(token.destination, <<Input>>) /\ Advanced(1)
  BY DEF ScalarByte, Scanning
<1>2. Input \in Byte /\ <<Input>> \in Seq(Byte) /\ Len(<<Input>>) = 1
  BY <1>1, ReadingFacts
<1>3. CallInv' /\ plan' = plan /\ offset' = offset + 1 /\ offset' \in Nat
  BY <1>1, AdvancedOne
<1>4. s \in ScalarState
  BY <1>1, <1>2, TokenFacts, PushTyped DEF Answer
<1>5. /\ token' \in Token /\ token' # None
      /\ token'.scalar = s /\ token'.destination = token.destination
      /\ token'.key = token.key /\ token'.start = token.start
  BY <1>1, <1>4, TokenFacts, TokenScalar, NoneIsNoToken
<1>6. /\ key' \in Seq(Byte) /\ output' \in Seq(Byte)
      /\ Len(key') = Len(key) + IF token.destination = "LookupKey" THEN 1 ELSE 0
  BY <1>1, <1>2, InvParts, WriteFacts
<1>7. KeyFits'
  BY SMTT(30), <1>1, <1>3, <1>5, <1>6, InvParts, TokenFacts DEF KeyFits
<1>8. TokenFits'
  <2>1. token.key => s.st \in StringTag
    BY <1>1, <1>2, TokenFacts, InvParts, StringStays DEF TokenFits, StringTag
  <2>2. ~token.key => s.st # "Done"
    BY <1>1, <1>2, TokenFacts, InvParts, ConsumedGoesOn DEF TokenFits
  <2>3. frames' = frames /\ plan' = plan
    BY <1>1, <1>3
  <2> HIDE DEF s
  <2>4. TokenFits
    BY InvParts
  <2> QED BY <1>1, <1>5, <2>1, <2>2, <2>3, <2>4
          DEF TokenFits, Top, AskedBy, Node, StringTag
<1>9. Bounded'
  BY <1>1, TokenFacts, InvParts DEF Bounded
<1>10. BufferInv'
  BY <1>1, <1>5, <1>6, <1>7, <1>8, <1>9, InvParts DEF BufferInv
<1> QED BY <1>1, <1>3, <1>10, InvParts, InvFromParts

(* The scalar has ended: what a state without one must still satisfy.      *)
LEMMA NoTokenKeeps ==
  ASSUME Inv, token' = None, key' = <<>>, output' \in Seq(Byte),
         started' = started, frames # <<>>, Len(frames') = Len(frames)
  PROVE  BufferInv'
<1>1. started /\ Len(frames) <= MaxDepth
  BY InvParts DEF Bounded
<1>2. Bounded'
  BY <1>1 DEF Bounded
<1>3. TokenFits' /\ KeyFits'
  BY DEF TokenFits, KeyFits
<1> QED BY <1>2, <1>3, InvParts DEF BufferInv

(* No rule is looked up for a value: its bytes are not a key's.            *)
LEMMA ValueToken ==
  ASSUME Inv, token # None, ~token.key
  PROVE  token.destination # "LookupKey" /\ key = <<>>
<1>1. token.destination # "LookupKey"
  BY InvParts DEF TokenFits
<1>2. Len(key) = 0
  BY <1>1, InvParts DEF KeyFits
<1> QED BY <1>1, <1>2, InvParts, EmptySeq

LEMMA ValueEndsKeeps ==
  ASSUME Inv, ValueEnds
  PROVE  Inv'
<1>1. /\ Reading /\ token # None /\ ~token.key /\ token' = None
      /\ frames' = ValueDone(frames) /\ started' = started
      /\ Write(token.destination, <<Input>>) /\ Advanced(1)
  BY DEF ValueEnds, Scanning
<1>2. CallInv' /\ plan' = plan
  BY <1>1, AdvancedOne
<1>3. key' = <<>> /\ output' \in Seq(Byte)
  BY <1>1, ReadingFacts, ValueToken, WriteFacts, InvParts
<1>4. Stack(ValueDone(frames)) /\ Len(ValueDone(frames)) = Len(frames)
  BY InvParts, ValueDoneStack
<1>5. BufferInv'
  BY <1>1, <1>3, <1>4, TokenFacts, NoTokenKeeps
<1> QED BY <1>1, <1>2, <1>4, <1>5, InvFromParts

LEMMA NumberEndsKeeps ==
  ASSUME Inv, NumberEnds
  PROVE  Inv'
<1>1. /\ token # None /\ ~token.key /\ token' = None
      /\ frames' = ValueDone(frames)
      /\ UNCHANGED <<plan, key, output, offset, started, status, call>>
  BY DEF NumberEnds, Scanning
<1>2. UNCHANGED <<calling, chunk, index, fed, reply>>
  BY <1>1 DEF call
<1>3. Settled'
  <2>1. status = "Active"
    BY ReadingFacts DEF NumberEnds, Scanning
  <2> QED BY <1>1, <1>2, <2>1, InvParts DEF Settled
<1>4. CallInv'
  BY <1>1, <1>2, <1>3, InvParts DEF CallInv
<1>5. Stack(ValueDone(frames)) /\ Len(ValueDone(frames)) = Len(frames)
  BY InvParts, ValueDoneStack
<1>6. key' = <<>> /\ output' \in Seq(Byte)
  BY <1>1, ValueToken, InvParts
<1>7. BufferInv'
  BY <1>1, <1>5, <1>6, TokenFacts, NoTokenKeeps
<1> QED BY <1>1, <1>4, <1>5, <1>7, InvFromParts

(* A key ends in a frame that awaits one, and that frame is an object's.   *)
LEMMA KeyToken ==
  ASSUME Inv, token # None, token.key
  PROVE  /\ Top.object /\ Top.expect \in {"ObjectFirst", "ObjectKey"}
         /\ Top.action.mode = "project" =>
              /\ Top.action.node \in 0 .. Len(plan) - 1
              /\ Node(Top.action.node).kind \in {"Object", "ExcludeObject"}
<1>1. FrameFits(Top) /\ Top.expect \in {"ObjectFirst", "ObjectKey"}
  BY InvParts, TokenFacts DEF TokenFits
<1>2. Top.object
  BY <1>1 DEF FrameFits, ObjectExpect
<1> QED BY <1>1, <1>2 DEF FrameFits, KindFits, IsNode

(* The stack after a key, whatever becomes of its value.                   *)
LEMMA KeyedStack ==
  ASSUME Inv, token # None, token.key, NEW next \in Action, IsNode(next),
         NEW emitted \in BOOLEAN,
         Top.action.mode # "project" => next = Top.action
  PROVE  LET fs == Replaced(frames, Keyed(Top, next, emitted))
         IN  Stack(fs) /\ Len(fs) = Len(frames)
<1> DEFINE g == Keyed(Top, next, emitted)
<1>1. /\ Top \in Frame /\ FrameFits(Top) /\ Top.object /\ frames # <<>>
      /\ Stack(frames)
  BY TokenFacts, KeyToken, InvParts
<1>2. /\ g \in Frame /\ g.expect = "Colon" /\ g.action = Top.action
      /\ g.next = next /\ g.object = Top.object
  BY ZenonT(40), <1>1, FrameKeyed
<1> HIDE DEF g
<1>3. FrameFits(g)
  BY <1>1, <1>2 DEF FrameFits, KindFits, NextFits, ObjectExpect
<1>4. Stack(Replaced(frames, g)) /\ Len(Replaced(frames, g)) = Len(frames)
  BY <1>1, <1>2, <1>3, ReplaceTop DEF Top
<1> QED BY <1>4 DEF g

LEMMA PlainKeyEndsKeeps ==
  ASSUME Inv, PlainKeyEnds
  PROVE  Inv'
<1> DEFINE fs == Replaced(frames, Keyed(Top, Top.action, Top.emitted))
<1>1. /\ Reading /\ token # None /\ token.key /\ token' = None
      /\ Top.action.mode # "project" /\ key' = <<>> /\ started' = started
      /\ output' \in {output, Append(output, Input)} /\ Advanced(1)
  BY DEF PlainKeyEnds, Scanning
<1>2. /\ Top \in Frame /\ Top.action \in Action /\ Top.emitted \in BOOLEAN
      /\ IsNode(Top.action)
  BY <1>1, TokenFacts, FrameFields DEF FrameFits, KindFits
<1>3. frames' = fs
  BY DEF PlainKeyEnds, Replaced, Top
<1>4. Stack(fs) /\ Len(fs) = Len(frames)
  BY <1>1, <1>2, KeyedStack
<1>5. output' \in Seq(Byte)
  <2>1. output \in Seq(Byte) /\ Input \in Byte
    BY <1>1, InvParts, ReadingFacts
  <2>2. Append(output, Input) \in Seq(Byte)
    BY <2>1
  <2> QED BY <1>1, <2>1, <2>2
<1>6. CallInv' /\ plan' = plan
  BY <1>1, AdvancedOne
<1>7. BufferInv'
  BY <1>1, <1>3, <1>4, <1>5, TokenFacts, NoTokenKeeps
<1> QED BY <1>3, <1>4, <1>6, <1>7, InvFromParts

LEMMA LookupKeyEndsKeeps ==
  ASSUME Inv, LookupKeyEnds
  PROVE  Inv'
<1> DEFINE raw     == Append(key, Input)
           next    == Rule(Top.action.node, raw)
           emitted == Top.emitted \/ next # Discard
           comma   == IF Top.emitted THEN <<Comma>> ELSE <<>>
           fs      == Replaced(frames, Keyed(Top, next, emitted))
<1>1. /\ Reading /\ token # None /\ token.key /\ token' = None
      /\ Top.action.mode = "project" /\ key' = <<>> /\ started' = started
      /\ output' = IF next = Discard THEN output ELSE output \o comma \o raw
      /\ Advanced(1)
  BY DEF LookupKeyEnds, Scanning
<1>2. next \in Action /\ IsNode(next)
  <2>1. /\ Top.action.node \in 0 .. Len(plan) - 1 /\ plan \in Plans
        /\ Node(Top.action.node).kind \in {"Object", "ExcludeObject"}
    BY <1>1, KeyToken, InvParts
  <2> HIDE DEF raw
  <2> QED BY <2>1, RuleFacts
<1>3. emitted \in BOOLEAN
  OBVIOUS
<1>4. frames' = fs
  BY DEF LookupKeyEnds, Replaced, Top
<1>5. Stack(fs) /\ Len(fs) = Len(frames)
  BY <1>1, <1>2, <1>3, KeyedStack
<1>6. output' \in Seq(Byte)
  <2>1. output \in Seq(Byte) /\ Input \in Byte /\ key \in Seq(Byte)
    BY <1>1, InvParts, ReadingFacts
  <2>2. raw \in Seq(Byte) /\ comma \in Seq(Byte)
    BY <2>1, BytesTyped
  <2>3. output \o comma \o raw \in Seq(Byte)
    BY <2>1, <2>2, ConcatProperties
  <2> QED BY <1>1, <2>1, <2>3
<1>7. CallInv' /\ plan' = plan
  BY <1>1, AdvancedOne
<1> HIDE DEF fs
<1>8. BufferInv'
  BY <1>1, <1>4, <1>5, <1>6, TokenFacts, NoTokenKeeps
<1> QED BY <1>4, <1>5, <1>7, <1>8, InvFromParts

(* The offset of a broken key is a number.                                 *)
LEMMA ValidUpToTyped ==
  ASSUME NEW k \in Seq(Byte)
  PROVE  ValidUpTo(k) \in Nat
<1> DEFINE S == { i \in 1 .. Len(k) : \E n \in i .. Len(k) : IsText(k, n) }
<1>1. Len(k) \in Nat /\ IsFiniteSet(1 .. Len(k))
  BY FS_Interval, LenProperties
<1>2. S \subseteq 1 .. Len(k)
  OBVIOUS
<1>3. IsFiniteSet(S)
  BY <1>1, <1>2, FS_Subset
<1>4. Cardinality(S) \in Nat
  BY <1>3, FS_CardinalityType
<1> QED BY <1>4 DEF ValidUpTo

LEMMA LookupKeyBrokenKeeps ==
  ASSUME Inv, LookupKeyBroken
  PROVE  Inv'
<1> DEFINE raw == Append(key, Input)
           at  == token.start + ValidUpTo(raw)
<1>1. /\ Reading /\ token # None /\ Fail(at)
      /\ offset' = offset + 1 /\ started' = started
  BY DEF LookupKeyBroken, Scanning
<1>2. raw \in Seq(Byte)
  BY <1>1, InvParts, ReadingFacts
<1>3. at \in Nat
  <2> HIDE DEF raw
  <2>1. ValidUpTo(raw) \in Nat
    BY <1>2, ValidUpToTyped
  <2> QED BY <1>1, <2>1, TokenFacts
<1>4. offset' \in Nat
  BY <1>1, InvParts
<1> QED BY <1>1, <1>3, <1>4, FailKeeps

(* Every turn on a scalar keeps the invariant.                             *)
LEMMA ScalarKeeps ==
  ASSUME Inv, Scalar
  PROVE  Inv'
<1>1. CASE BadByte
  BY <1>1, FailKeeps, InvParts DEF BadByte, Broken
<1> QED BY <1>1, SpanKeeps, ScalarByteKeeps, ValueEndsKeeps, NumberEndsKeeps,
           PlainKeyEndsKeeps, LookupKeyEndsKeeps, LookupKeyBrokenKeeps
        DEF Scalar

-----------------------------------------------------------------------------
(* Turns on a structural byte.                                             *)

(* Without a scalar the key buffer is empty and stays so.                  *)
LEMMA QuietKeeps ==
  ASSUME Inv, token = None, token' = None, key' = key, output' \in Seq(Byte),
         started' \in BOOLEAN, Len(frames') <= MaxDepth,
         frames' # <<>> => started', ~started' => output' = <<>>
  PROVE  BufferInv'
<1>1. Len(key') = 0 /\ key' \in Seq(Byte)
  BY InvParts DEF KeyFits
<1> QED BY <1>1 DEF BufferInv, TokenFits, KeyFits, Bounded

(* A turn inside a container that only moves on and writes.                *)
LEMMA InsideKeeps ==
  ASSUME Inv, Inside, Advanced(1), token' = token, key' = key,
         started' = started, output' \in Seq(Byte), NEW fs, frames' = fs,
         Stack(fs), Len(fs) <= Len(frames)
  PROVE  Inv'
<1>1. Reading /\ token = None /\ frames # <<>>
  BY DEF Inside, Structural
<1>2. CallInv' /\ plan' = plan
  BY <1>1, AdvancedOne
<1>3. started /\ Len(frames) <= MaxDepth
  BY <1>1, InvParts DEF Bounded
<1>4. Len(frames) \in Nat /\ Len(fs) \in Nat /\ MaxDepth \in Nat
  BY InvParts, DepthAssumption DEF Stack
<1>5. Len(fs) <= MaxDepth
  BY <1>3, <1>4
<1>6. BufferInv'
  BY <1>1, <1>3, <1>5, QuietKeeps, InvParts
<1> QED BY <1>2, <1>6, InvFromParts

LEMMA InsideTop ==
  ASSUME Inv, Inside
  PROVE  /\ Reading /\ token = None /\ frames # <<>>
         /\ Top \in Frame /\ FrameFits(Top) /\ Stack(frames)
         /\ Len(frames) \in Nat \ {0} /\ Len(frames) <= MaxDepth /\ started
         /\ Input \in Byte /\ Append(output, Input) \in Seq(Byte)
<1>1. Reading /\ token = None /\ frames # <<>>
  BY DEF Inside, Structural
<1>2. Top \in Frame /\ FrameFits(Top) /\ Len(frames) \in Nat \ {0}
  BY <1>1, InvParts, TopFacts DEF Top
<1>3. started /\ Len(frames) <= MaxDepth
  BY <1>1, InvParts DEF Bounded
<1>4. Input \in Byte /\ output \in Seq(Byte)
  BY <1>1, InvParts, ReadingFacts
<1>5. Append(output, Input) \in Seq(Byte)
  BY <1>4
<1> QED BY <1>1, <1>2, <1>3, <1>4, <1>5, InvParts

LEMMA AppendTyped ==
  ASSUME NEW out \in Seq(Byte), NEW b \in Byte
  PROVE  Append(out, b) \in Seq(Byte) /\ Len(Append(out, b)) = Len(out) + 1
  OBVIOUS

LEMMA OuterSpaceKeeps ==
  ASSUME Inv, OuterSpace
  PROVE  Inv'
<1>1. /\ Reading /\ token = None /\ Advanced(1) /\ frames = <<>>
      /\ UNCHANGED <<frames, token, key, output, started>>
  BY DEF OuterSpace, Structural
<1>2. CallInv' /\ plan' = plan
  BY <1>1, AdvancedOne
<1>3. BufferInv'
  BY <1>1, InvParts, QuietKeeps DEF Bounded
<1> QED BY <1>1, <1>2, <1>3, InvParts, InvFromParts

LEMMA InnerSpaceKeeps ==
  ASSUME Inv, InnerSpace
  PROVE  Inv'
<1>1. /\ Inside /\ Advanced(1) /\ UNCHANGED <<frames, token, key, started>>
      /\ output' \in {output, Append(output, Input)}
  BY DEF InnerSpace
<1>2. output' \in Seq(Byte)
  BY <1>1, InsideTop, InvParts
<1>3. Stack(frames) /\ Len(frames) <= Len(frames)
  BY <1>1, InsideTop
<1> QED BY <1>1, <1>2, <1>3, InsideKeeps

LEMMA CloseKeeps ==
  ASSUME Inv, Close
  PROVE  Inv'
<1> DEFINE hs == SubSeq(frames, 1, Len(frames) - 1)
<1>1. /\ Inside /\ Advanced(1) /\ UNCHANGED <<token, key, started>>
      /\ output' \in {output, Append(output, Input)}
      /\ frames' = ValueDone(hs)
  BY DEF Close
<1>2. output' \in Seq(Byte)
  BY <1>1, InsideTop, InvParts
<1>3. Stack(hs) /\ Len(hs) = Len(frames) - 1
  BY <1>1, InsideTop, PopFrame
<1> HIDE DEF hs
<1>4. Stack(ValueDone(hs)) /\ Len(ValueDone(hs)) = Len(frames) - 1
  BY <1>3, ValueDoneStack
<1>5. Len(ValueDone(hs)) <= Len(frames)
  BY <1>1, <1>4, InsideTop
<1> QED BY <1>1, <1>2, <1>4, <1>5, InsideKeeps

LEMMA ReadColonKeeps ==
  ASSUME Inv, ReadColon
  PROVE  Inv'
<1>1. /\ Inside /\ Top.expect = "Colon" /\ Advanced(1)
      /\ UNCHANGED <<token, key, started>>
      /\ output' \in {output, Append(output, Colon)}
      /\ frames' = Expecting(frames, "ObjectValue")
  BY DEF ReadColon
<1>2. output' \in Seq(Byte)
  BY <1>1, BytesTyped, AppendTyped, InvParts
<1>3. Top.object /\ "ObjectValue" \in Expect /\ "ObjectValue" \in ObjectExpect
  BY <1>1, InsideTop DEF FrameFits, ObjectExpect, Expect
<1>4. /\ Stack(Expecting(frames, "ObjectValue"))
      /\ Len(Expecting(frames, "ObjectValue")) = Len(frames)
  BY <1>1, <1>3, InsideTop, ExpectingStack DEF Top
<1>5. Len(Expecting(frames, "ObjectValue")) <= Len(frames)
  BY <1>1, <1>4, InsideTop
<1> QED BY <1>1, <1>2, <1>4, <1>5, InsideKeeps

LEMMA ReadCommaKeeps ==
  ASSUME Inv, ReadComma
  PROVE  Inv'
<1> DEFINE e == IF Top.expect = "ObjectComma" THEN "ObjectKey" ELSE "ArrayValue"
<1>1. /\ Inside /\ Top.expect \in {"ObjectComma", "ArrayComma"} /\ Advanced(1)
      /\ UNCHANGED <<token, key, started>>
      /\ output' \in {output, Append(output, Comma)}
      /\ frames' = Expecting(frames, e)
  BY DEF ReadComma
<1>2. output' \in Seq(Byte)
  BY <1>1, BytesTyped, AppendTyped, InvParts
<1>3. /\ Top.object <=> e \in ObjectExpect
      /\ e \in Expect /\ e \notin {"Colon", "ObjectValue"}
  BY <1>1, InsideTop DEF FrameFits, ObjectExpect, Expect
<1> HIDE DEF e
<1>4. Stack(Expecting(frames, e)) /\ Len(Expecting(frames, e)) = Len(frames)
  BY <1>1, <1>3, InsideTop, ExpectingStack DEF Top
<1>5. Len(Expecting(frames, e)) <= Len(frames)
  BY <1>1, <1>4, InsideTop
<1> QED BY <1>1, <1>2, <1>4, <1>5, InsideKeeps

LEMMA BeginKeyKeeps ==
  ASSUME Inv, BeginKey
  PROVE  Inv'
<1> DEFINE d == CASE Top.action.mode = "copy"    -> "Output"
                  [] Top.action.mode = "discard" -> "Discard"
                  [] Top.action.mode = "project" -> "LookupKey"
           t == [scalar |-> Start(Quote), destination |-> d, key |-> TRUE,
                 start |-> offset]
<1>1. /\ Inside /\ Top.expect \in {"ObjectFirst", "ObjectKey"}
      /\ token' = t /\ Write(d, <<Quote>>) /\ Advanced(1)
      /\ frames' = frames /\ started' = started
  BY DEF BeginKey
<1>2. d \in Destination /\ Top.action.mode \in {"copy", "discard", "project"}
  BY <1>1, InsideTop, FrameFields DEF Action, Destination
<1>3. Start(Quote) \in ScalarState /\ Start(Quote).st = "String"
  <2>1. Start(Quote) = At("String")
    BY DEF Start, Quote, LowerT, LowerF, LowerN, UpperN, UpperI, Minus
  <2> QED BY <2>1, PlainState DEF At, Variant, PlainTag
<1>4. /\ t \in Token /\ t.scalar = Start(Quote) /\ t.destination = d
      /\ t.key = TRUE /\ t.start = offset
  <2> HIDE DEF d
  <2> QED BY <1>2, <1>3, InvParts DEF Token
<1> HIDE DEF t
<1>5. CallInv' /\ plan' = plan /\ offset' = offset + 1
  BY <1>1, InsideTop, AdvancedOne
<1>6. Len(key) = 0
  BY <1>1, InsideTop, InvParts DEF KeyFits
<1>7. /\ key' \in Seq(Byte) /\ output' \in Seq(Byte)
      /\ Len(key') = IF d = "LookupKey" THEN 1 ELSE 0
  <2>1. <<Quote>> \in Seq(Byte) /\ Len(<<Quote>>) = 1
    BY BytesTyped
  <2> HIDE DEF d
  <2>2. /\ key' \in Seq(Byte) /\ output' \in Seq(Byte)
        /\ Len(key') = Len(key) + IF d = "LookupKey" THEN Len(<<Quote>>) ELSE 0
    BY <1>1, <2>1, InvParts, WriteFacts
  <2> QED BY <1>6, <2>1, <2>2
<1>8. KeyFits'
  <2> HIDE DEF d
  <2> QED BY <1>1, <1>4, <1>5, <1>7, InvParts, NoneIsNoToken DEF KeyFits
<1>9. TokenFits'
  <2>1. Top' = Top
    BY <1>1 DEF Top
  <2> QED BY <1>1, <1>3, <1>4, <2>1, InsideTop DEF TokenFits
<1>10. Bounded'
  BY <1>1, InsideTop DEF Bounded
<1>11. BufferInv'
  BY <1>1, <1>4, <1>7, <1>8, <1>9, <1>10, InsideTop DEF BufferInv
<1> QED BY <1>1, <1>5, <1>11, InvParts, InvFromParts

-----------------------------------------------------------------------------
(* Turns that begin a value.                                               *)

(* The container asks of the value that starts what its frame says.        *)
LEMMA ValueDueFacts ==
  ASSUME Inv, ValueDue
  PROVE  /\ Inside /\ Top.expect \in ValueExpect
         /\ Asked = AskedBy(Top) /\ Asked \in Action /\ IsNode(Asked)
<1>1. Inside /\ Top.expect \in ValueExpect
  BY DEF ValueDue, ValueExpect
<1>2. /\ Top \in Frame /\ FrameFits(Top) /\ Top.action \in Action
      /\ Top.next \in Action /\ Top.object \in BOOLEAN
  BY <1>1, InsideTop, FrameFields
<1>3. Top.object <=> Top.expect = "ObjectValue"
  BY <1>1, <1>2 DEF FrameFits, ObjectExpect, ValueExpect
<1>4. CASE Top.object
  <2>1. Asked = Top.next /\ AskedBy(Top) = Top.next
    BY <1>3, <1>4 DEF Asked, ProjectedElement, AskedBy
  <2> QED BY <1>1, <1>2, <2>1 DEF FrameFits, NextFits
<1>5. CASE ~Top.object /\ Top.action.mode # "project"
  <2>1. Asked = Top.action /\ AskedBy(Top) = Top.action
    BY <1>3, <1>5 DEF Asked, ProjectedElement, AskedBy
  <2> QED BY <1>1, <1>2, <2>1 DEF FrameFits, KindFits
<1>6. CASE ~Top.object /\ Top.action.mode = "project"
  <2> DEFINE child == Node(Top.action.node).child
  <2>1. Asked = Project(child) /\ AskedBy(Top) = Project(child)
    BY <1>3, <1>6 DEF Asked, ProjectedElement, AskedBy
  <2>2. /\ Top.action.node \in 0 .. Len(plan) - 1
        /\ Node(Top.action.node).kind = "Array"
    BY <1>2, <1>6 DEF FrameFits, KindFits, IsNode
  <2>3. child \in 0 .. Len(plan) - 1 /\ Len(plan) \in Nat \ {0}
    BY <2>2, PlanNodes, InvParts
  <2> HIDE DEF child
  <2>4. child \in Nat
    BY <2>3
  <2> QED BY <1>1, <2>1, <2>3, <2>4, ActionTyped
<1> QED BY <1>4, <1>5, <1>6

(* Marking the container as written to leaves what it asks.                *)
LEMMA ParentsFacts ==
  ASSUME Inv, ValueDue
  PROVE  /\ Stack(Parents) /\ Len(Parents) = Len(frames) /\ Parents # <<>>
         /\ Parents[Len(frames)].expect = Top.expect
         /\ Parents[Len(frames)].action = Top.action
         /\ AskedBy(Parents[Len(frames)]) = AskedBy(Top)
<1> DEFINE g == [Top EXCEPT !.emitted = TRUE]
<1>1. /\ frames # <<>> /\ Top \in Frame /\ FrameFits(Top) /\ Stack(frames)
  BY ValueDueFacts, InsideTop
<1>2. CASE ~ProjectedElement
  BY <1>1, <1>2 DEF Parents, Top
<1>3. CASE ProjectedElement
  <2>1. /\ g \in Frame /\ g.expect = Top.expect /\ g.action = Top.action
        /\ g.next = Top.next /\ g.object = Top.object
    BY <1>1, FrameEmitted
  <2>2. Parents = Replaced(frames, g)
    BY <1>3 DEF Parents, Replaced, Top
  <2> HIDE DEF g
  <2>3. FrameFits(g) /\ AskedBy(g) = AskedBy(Top)
    BY <1>1, <2>1 DEF FrameFits, KindFits, NextFits, AskedBy
  <2>4. /\ Stack(Replaced(frames, g)) /\ Len(Replaced(frames, g)) = Len(frames)
        /\ Replaced(frames, g) # <<>> /\ Replaced(frames, g)[Len(frames)] = g
    BY <1>1, <2>1, <2>3, ReplaceTop DEF Top
  <2> QED BY <2>1, <2>2, <2>3, <2>4
<1> QED BY <1>2, <1>3

LEMMA SeparatedTyped ==
  ASSUME Inv, ValueDue
  PROVE  /\ Separated \in Seq(Byte)
         /\ Append(Separated, Input) \in Seq(Byte)
<1>1. output \in Seq(Byte) /\ Input \in Byte
  BY ValueDueFacts, InsideTop, InvParts
<1>2. Separated \in Seq(Byte)
  BY <1>1, BytesTyped, AppendTyped DEF Separated
<1> QED BY <1>1, <1>2, AppendTyped

LEMMA NewFrameFits ==
  ASSUME plan \in Plans, NEW action \in Action, IsNode(action),
         NEW b \in {LBrace, LBracket},
         action.mode = "project" => Fits(action.node, b)
  PROVE  /\ NewFrame(action, b) \in Frame /\ FrameFits(NewFrame(action, b))
         /\ NewFrame(action, b).action = action
         /\ NewFrame(action, b).object <=> b = LBrace
         /\ ~NewFrame(action, b).emitted
         /\ NewFrame(action, b).expect \in {"ObjectFirst", "ArrayFirst"}
<1> DEFINE f == NewFrame(action, b)
<1>1. /\ f.action = action /\ f.object = (b = LBrace) /\ f.emitted = FALSE
      /\ f.next = Discard
      /\ f.expect = IF b = LBrace THEN "ObjectFirst" ELSE "ArrayFirst"
  BY DEF NewFrame
<1>2. f \in Frame
  BY ActionTyped DEF NewFrame, Frame, Expect
<1> HIDE DEF f
<1>3. LBrace # LBracket
  BY DEF LBrace, LBracket
<1>4. KindFits(f)
  BY <1>1, <1>3 DEF KindFits, Fits
<1>5. NextFits(f)
  BY <1>1, ActionTyped DEF NextFits
<1>6. f.object <=> f.expect \in ObjectExpect
  BY <1>1 DEF ObjectExpect
<1> QED BY <1>1, <1>2, <1>4, <1>5, <1>6 DEF f, FrameFits

LEMMA OpenRootKeeps ==
  ASSUME Inv, OpenRoot
  PROVE  Inv'
<1> DEFINE f  == NewFrame(Project(0), LBrace)
           fs == <<f>>
<1>1. /\ Reading /\ token = None /\ ~started /\ Advanced(1)
      /\ started' = TRUE /\ frames' = fs /\ output' = Append(output, LBrace)
      /\ token' = token /\ key' = key
  BY DEF OpenRoot, Structural
<1>2. CallInv' /\ plan' = plan
  BY <1>1, AdvancedOne
<1>3. f \in Frame /\ FrameFits(f)
  <2>1. Project(0) \in Action /\ IsNode(Project(0)) /\ Project(0).node = 0
    BY ActionTyped, RootNode, InvParts DEF Project
  <2>2. Fits(0, LBrace)
    BY RootNode, InvParts DEF Fits
  <2> QED BY <2>1, <2>2, NewFrameFits, InvParts
<1> HIDE DEF f
<1>4. fs \in Seq(Frame) /\ Len(fs) = 1 /\ fs[1] = f
  BY <1>3
<1>5. Stack(fs)
  BY <1>3, <1>4 DEF Stack, FramesFit, StackFollowsPlan
<1>6. output' \in Seq(Byte)
  BY <1>1, InvParts, BytesTyped, AppendTyped
<1>7. Len(frames') <= MaxDepth
  BY <1>1, <1>4, DepthAssumption
<1> HIDE DEF fs
<1>8. BufferInv'
  BY <1>1, <1>6, <1>7, QuietKeeps
<1> QED BY <1>1, <1>2, <1>5, <1>8, InvFromParts

LEMMA OpenKeeps ==
  ASSUME Inv, Open
  PROVE  Inv'
<1> DEFINE action == Applied(Asked, Input)
           f      == NewFrame(action, Input)
           fs     == Append(Parents, f)
<1>1. /\ ValueDue /\ Input \in {LBrace, LBracket} /\ Len(frames) < MaxDepth
      /\ frames' = fs
      /\ output' \in {Separated, Append(Separated, Input)}
      /\ Advanced(1) /\ UNCHANGED <<token, key, started>>
  BY DEF Open, Room
<1>2. /\ Inside /\ Top.expect \in ValueExpect
      /\ Asked = AskedBy(Top) /\ Asked \in Action /\ IsNode(Asked)
  BY <1>1, ValueDueFacts
<1>3. /\ action \in Action /\ IsNode(action)
      /\ action.mode = "project" => Fits(action.node, Input)
  BY <1>2, AppliedFacts
<1>4. action = Applied(AskedBy(Top), Input)
  BY <1>2
<1> HIDE DEF action
<1>5. /\ f \in Frame /\ FrameFits(f) /\ f.action = action
      /\ f.object <=> Input = LBrace
  BY <1>1, <1>3, NewFrameFits, InvParts
<1> HIDE DEF f
<1>6. /\ Stack(Parents) /\ Len(Parents) = Len(frames) /\ Parents # <<>>
      /\ Parents[Len(frames)].expect = Top.expect
      /\ AskedBy(Parents[Len(frames)]) = AskedBy(Top)
  BY <1>1, ParentsFacts
<1>7. f.action = Applied(AskedBy(Parents[Len(Parents)]),
                         IF f.object THEN LBrace ELSE LBracket)
  <2>1. Input = IF f.object THEN LBrace ELSE LBracket
    BY <1>1, <1>5
  <2> QED BY <1>4, <1>5, <1>6, <2>1
<1>8. Stack(fs) /\ Len(fs) = Len(frames) + 1
  BY <1>2, <1>5, <1>6, <1>7, PushFrame
<1> HIDE DEF fs
<1>9. output' \in Seq(Byte)
  BY <1>1, SeparatedTyped
<1>10. /\ CallInv' /\ plan' = plan /\ token = None /\ started
       /\ Len(frames) \in Nat
  BY <1>1, <1>2, InsideTop, AdvancedOne
<1>11. Len(frames') <= MaxDepth
  BY <1>1, <1>8, <1>10, DepthAssumption
<1>12. BufferInv'
  BY <1>1, <1>9, <1>10, <1>11, QuietKeeps
<1> QED BY <1>1, <1>8, <1>10, <1>12, InvFromParts

LEMMA BeginScalarKeeps ==
  ASSUME Inv, BeginScalar
  PROVE  Inv'
<1> DEFINE keep == Applied(Asked, Input) # Discard
           d    == IF keep THEN "Output" ELSE "Discard"
           t    == [scalar |-> Start(Input), key |-> FALSE, start |-> offset,
                    destination |-> d]
<1>1. /\ ValueDue /\ Startable(Input) /\ token' = t /\ frames' = Parents
      /\ output' \in {Separated, Append(Separated, Input)}
      /\ Advanced(1) /\ UNCHANGED <<key, started>>
  BY DEF BeginScalar
<1>2. /\ Inside /\ Top.expect \in ValueExpect
      /\ Asked = AskedBy(Top) /\ Asked \in Action /\ IsNode(Asked)
  BY <1>1, ValueDueFacts
<1>3. keep <=> AskedBy(Top) # Discard
  BY <1>2, AppliedFacts
<1> HIDE DEF keep
<1>4. Start(Input) \in ScalarState /\ Start(Input).st # "Done"
  <2>1. Start(Input).st # "Done"
    BY DEF Start, At, Literal, Integer, Variant
  <2> QED BY <1>1, <1>2, <2>1, InsideTop, StartTyped
<1>5. /\ t \in Token /\ t.scalar = Start(Input) /\ t.destination = d
      /\ t.key = FALSE /\ t.start = offset
  BY <1>4, InvParts DEF Token, Destination
<1> HIDE DEF t
<1>6. /\ CallInv' /\ plan' = plan /\ token = None /\ started /\ key = <<>>
      /\ Len(frames) <= MaxDepth
  <2>1. Len(key) = 0
    BY <1>2, InsideTop, InvParts DEF KeyFits
  <2> QED BY <1>1, <1>2, <2>1, InsideTop, AdvancedOne, InvParts, EmptySeq
<1>7. /\ Stack(Parents) /\ Len(Parents) = Len(frames) /\ Parents # <<>>
      /\ Parents[Len(frames)].expect = Top.expect
      /\ AskedBy(Parents[Len(frames)]) = AskedBy(Top)
  BY <1>1, ParentsFacts
<1>8. output' \in Seq(Byte)
  BY <1>1, SeparatedTyped
<1>9. KeyFits'
  BY <1>1, <1>5, <1>6, NoneIsNoToken DEF KeyFits
<1>10. TokenFits'
  <2>1. Top' = Parents[Len(frames)] /\ AskedBy(Top)' = AskedBy(Top')
    BY <1>1, <1>6, <1>7 DEF Top, AskedBy, Node
  <2>2. Top'.expect = Top.expect /\ AskedBy(Top)' = AskedBy(Top)
    BY <1>7, <2>1
  <2> QED BY <1>1, <1>2, <1>3, <1>4, <1>5, <1>7, <2>2 DEF TokenFits
<1>11. Bounded'
  BY <1>1, <1>6, <1>7 DEF Bounded
<1>12. BufferInv'
  BY <1>1, <1>5, <1>6, <1>8, <1>9, <1>10, <1>11, InvParts DEF BufferInv
<1> QED BY <1>1, <1>6, <1>7, <1>12, InvFromParts

LEMMA StructureKeeps ==
  ASSUME Inv, Structure
  PROVE  Inv'
<1>1. CASE BadRoot \/ TrailingInput \/ Misplaced \/ TooDeep \/ BadValue
  BY <1>1, FailKeeps, InvParts
     DEF BadRoot, TrailingInput, Misplaced, TooDeep, BadValue, Broken
<1> QED BY <1>1, OuterSpaceKeeps, InnerSpaceKeeps, CloseKeeps, BeginKeyKeeps,
           ReadColonKeeps, ReadCommaKeeps, OpenRootKeeps, OpenKeeps,
           BeginScalarKeeps
        DEF Structure

-----------------------------------------------------------------------------
(* The calls, and the theorems.                                            *)

LEMMA FeedReturnsKeeps ==
  ASSUME Inv, FeedReturns
  PROVE  Inv'
<1>1. /\ calling /\ index = Len(chunk)
      /\ calling' = FALSE /\ chunk' = <<>> /\ index' = 0
      /\ fed' = fed \o chunk /\ reply' = Replied("ok") /\ plan' = plan
      /\ UNCHANGED <<frames, token, key, output, offset, started, status>>
  BY DEF FeedReturns, Return, engine
<1>2. fed' \in Seq(Byte) /\ Len(fed') = Len(fed) + Len(chunk)
  BY <1>1, InvParts, ConcatProperties
<1>3. status = "Active" /\ offset = Len(fed) + index
  BY <1>1, InvParts DEF Settled
<1>4. Settled'
  BY <1>1, <1>2, <1>3, InvParts DEF Settled
<1>5. reply' \in Reply
  BY <1>1 DEF Replied, Reply
<1>6. CallInv'
  <2>1. chunk' \in Seq(Byte) /\ index' \in 0 .. Len(chunk')
    BY <1>1
  <2> QED BY <1>1, <1>2, <1>4, <1>5, <2>1, InvParts DEF CallInv
<1>7. BufferInv'
  <2>1. TokenFits'
    BY <1>1, InvParts DEF TokenFits, Top, AskedBy, Node
  <2>2. KeyFits' /\ Bounded'
    BY <1>1, InvParts DEF KeyFits, Bounded
  <2> QED BY <1>1, <2>1, <2>2, InvParts DEF BufferInv
<1> QED BY <1>1, <1>6, <1>7, InvParts, InvFromParts

LEMMA FeedKeeps ==
  ASSUME Inv, NEW c, Feed(c)
  PROVE  Inv'
<1>1. /\ ~calling /\ status = "Active" /\ c \in Seq(Byte)
      /\ calling' = TRUE /\ chunk' = c /\ index' = 0 /\ plan' = plan
      /\ UNCHANGED <<frames, token, key, output, offset, started, status>>
      /\ UNCHANGED <<fed, reply>>
  BY DEF Feed, engine
<1>2. Settled'
  BY <1>1, InvParts DEF Settled
<1>3. CallInv'
  BY <1>1, <1>2, InvParts DEF CallInv
<1>4. BufferInv'
  <2>1. TokenFits'
    BY <1>1, InvParts DEF TokenFits, Top, AskedBy, Node
  <2>2. KeyFits' /\ Bounded'
    BY <1>1, InvParts DEF KeyFits, Bounded
  <2> QED BY <1>1, <2>1, <2>2, InvParts DEF BufferInv
<1> QED BY <1>1, <1>3, <1>4, InvParts, InvFromParts

LEMMA ClosedKeeps ==
  ASSUME Inv, Closed
  PROVE  Inv'
<1>1. /\ reply' = Replied("closed") /\ plan' = plan
      /\ UNCHANGED <<frames, token, key, output, offset, started, status>>
      /\ UNCHANGED <<calling, chunk, index, fed>>
  BY DEF Closed, engine
<1>2. reply' \in Reply
  BY <1>1 DEF Replied, Reply
<1>3. CallInv'
  BY <1>1, <1>2, InvParts DEF CallInv, Settled
<1>4. BufferInv'
  <2>1. TokenFits'
    BY <1>1, InvParts DEF TokenFits, Top, AskedBy, Node
  <2>2. KeyFits' /\ Bounded'
    BY <1>1, InvParts DEF KeyFits, Bounded
  <2> QED BY <1>1, <2>1, <2>2, InvParts DEF BufferInv
<1> QED BY <1>1, <1>3, <1>4, InvParts, InvFromParts

LEMMA FinishKeeps ==
  ASSUME Inv, Finish
  PROVE  Inv'
<1>1. /\ ~calling /\ ~Incomplete /\ status' = "Finished"
      /\ reply' = Output(output) /\ frames' = <<>> /\ key' = <<>>
      /\ output' = <<>> /\ plan' = plan
      /\ UNCHANGED <<token, offset, started, calling, chunk, index, fed>>
  BY DEF Finish
<1>2. started /\ frames = <<>>
  BY <1>1 DEF Incomplete
<1>3. token = None
  BY <1>2, InvParts DEF TokenFits
<1>4. reply' \in Reply
  BY <1>1, InvParts DEF Output, Reply
<1>5. Settled'
  BY <1>1, <1>3, InvParts DEF Settled
<1>6. CallInv'
  BY <1>1, <1>4, <1>5, InvParts DEF CallInv, Status
<1>7. BufferInv'
  BY <1>1, <1>2, <1>3, DepthAssumption, InvParts
     DEF BufferInv, TokenFits, KeyFits, Bounded
<1>8. Stack(<<>>)
  BY DEF Stack, FramesFit, StackFollowsPlan
<1> QED BY <1>1, <1>6, <1>7, <1>8, InvFromParts

LEMMA FinishIncompleteKeeps ==
  ASSUME Inv, FinishIncomplete
  PROVE  Inv'
  BY FailKeeps, InvParts DEF FinishIncomplete

LEMMA StutterKeeps ==
  ASSUME Inv, UNCHANGED vars
  PROVE  Inv'
<1>1. /\ plan' = plan
      /\ UNCHANGED <<frames, token, key, output, offset, started, status>>
      /\ UNCHANGED <<calling, chunk, index, fed, reply>>
  BY DEF vars, engine, call
<1>2. CallInv'
  BY <1>1, InvParts DEF CallInv, Settled
<1>3. BufferInv'
  <2>1. TokenFits'
    BY <1>1, InvParts DEF TokenFits, Top, AskedBy, Node
  <2>2. KeyFits' /\ Bounded'
    BY <1>1, InvParts DEF KeyFits, Bounded
  <2> QED BY <1>1, <2>1, <2>2, InvParts DEF BufferInv
<1> QED BY <1>1, <1>2, <1>3, InvParts, InvFromParts

LEMMA InitInv == Init => Inv
<1> SUFFICES ASSUME Init PROVE Inv
  OBVIOUS
<1> USE DEF Init
<1>1. StackInv
  BY DepthAssumption
     DEF StackInv, FramesFit, StackFollowsPlan, TokenFits, KeyFits, Bounded,
         Settled
<1>2. TypeOK
  <2>1. reply \in Reply
    BY DEF Reply, Replied
  <2>2. frames \in Seq(Frame) /\ chunk \in Seq(Byte) /\ index \in 0 .. Len(chunk)
    OBVIOUS
  <2> QED BY <2>1, <2>2 DEF TypeOK, Status
<1> QED BY <1>1, <1>2 DEF Inv

(* The engine's state is consistent in every reachable state: its buffers, *)
(* its stack and the scalar being read agree with each other and with the  *)
(* plan (Engine in src/stream/mod.rs).                                     *)
THEOREM Consistent == Spec => []Inv
<1>1. Inv /\ [Next]_vars => Inv'
  BY FeedKeeps, ClosedKeeps, FinishKeeps, FinishIncompleteKeeps, ScalarKeeps,
     StructureKeeps, FeedReturnsKeeps, StutterKeeps
     DEF Next, Step
<1> QED BY InitInv, <1>1, PTL DEF Spec

(* Every reachable state is typed: in particular the cursor stays in the   *)
(* chunk and every scalar state is one of the lexer's.                     *)
THEOREM StreamTyped == Spec => []TypeOK
<1>1. Inv => TypeOK
  BY DEF Inv
<1> QED BY <1>1, Consistent, PTL

(* The stack follows the plan, and each buffer holds what it should, in    *)
(* every reachable state, whatever was fed.                                *)
THEOREM StackConsistent == Spec => []StackInv
<1>1. Inv => StackInv
  BY DEF Inv
<1> QED BY <1>1, Consistent, PTL

(* complete_token never unwraps an empty stack and begin_value never meets *)
(* a node of the wrong kind: unreachable!() is not reached.                *)
THEOREM NeverPanics == Spec => []NoPanic
<1>1. Inv => NoPanic
  <2> SUFFICES ASSUME Inv PROVE NoPanic
    OBVIOUS
  <2>1. token # None => frames # <<>>
    BY TokenFacts
  <2>2. ASSUME token # None, token.key, NEW x \in Byte
        PROVE  Push(token.scalar, x).advance # "Delimiter"
    <3>1. token.scalar \in ScalarState /\ token.scalar.st \in StringTag
      BY <2>2, InvParts, TokenFacts DEF TokenFits, StringTag
    <3> QED BY <3>1, StringStays
  <2>3. ASSUME token # None, token.key, Top.action.mode = "project"
        PROVE  Node(Top.action.node).kind \in {"Object", "ExcludeObject"}
    BY <2>3, KeyToken
  <2>4. ASSUME frames # <<>>, Top.expect \in {"ArrayFirst", "ArrayValue"},
               Top.action.mode = "project"
        PROVE  Node(Top.action.node).kind = "Array"
    <3>1. FrameFits(Top)
      BY <2>4, InvParts, TopFacts DEF Top
    <3>2. ~Top.object
      BY <2>4, <3>1 DEF FrameFits, ObjectExpect
    <3> QED BY <2>4, <3>1, <3>2 DEF FrameFits, KindFits
  <2> QED BY <2>1, <2>2, <2>3, <2>4 DEF NoPanic
<1> QED BY <1>1, Consistent, PTL

-----------------------------------------------------------------------------
(* Dropping.                                                               *)

(* Where bytes are being dropped, a rule of Discard is in force.           *)
LEMMA DroppingFacts ==
  ASSUME Inv, Dropping
  PROVE  /\ frames # <<>> /\ Top \in Frame /\ FrameFits(Top) /\ Stack(frames)
         /\ Top.action # Copy
         /\ Top.expect \in {"Colon", "ObjectValue"} => Top.next = Discard
         /\ Top.action.mode = "project" => Top.expect \in {"Colon", "ObjectValue"}
         /\ Top.expect \notin {"Colon", "ObjectValue"} => Top.action = Discard
         /\ Top.expect \in ValueExpect => AskedBy(Top) = Discard
<1>1. frames # <<>> /\ Top \in Frame /\ FrameFits(Top) /\ Stack(frames)
  BY InvParts, TopFacts DEF Dropping, Top
<1>2. Top.expect \in {"Colon", "ObjectValue"} => Top.next = Discard
  BY <1>1, ActionTyped DEF Dropping, FrameFits, NextFits
<1>3. Top.action # Copy
  <2>1. CASE Top.action = Discard
    BY <2>1, ActionTyped
  <2>2. CASE Top.action # Discard
    BY <1>1, <2>2, ActionTyped DEF Dropping, FrameFits, NextFits
  <2> QED BY <2>1, <2>2
<1>4. Top.action.mode = "project" => Top.expect \in {"Colon", "ObjectValue"}
  BY ActionTyped DEF Dropping
<1>5. Top.expect \notin {"Colon", "ObjectValue"} => Top.action = Discard
  BY DEF Dropping
<1>6. Top.expect \in ValueExpect => AskedBy(Top) = Discard
  <2> SUFFICES ASSUME Top.expect \in ValueExpect PROVE AskedBy(Top) = Discard
    OBVIOUS
  <2>1. CASE Top.expect = "ObjectValue"
    <3>1. Top.object
      BY <1>1, <2>1 DEF FrameFits, ObjectExpect
    <3>2. Top.next = Discard
      BY <1>2, <2>1
    <3> QED BY <3>1, <3>2 DEF AskedBy
  <2>2. CASE Top.expect # "ObjectValue"
    <3>1. ~Top.object /\ Top.action = Discard
      BY <1>1, <1>5, <2>2 DEF FrameFits, ObjectExpect, ValueExpect
    <3>2. Top.action.mode # "project"
      BY <3>1, ActionTyped
    <3> QED BY <3>1, <3>2 DEF AskedBy
  <2> QED BY <2>1, <2>2
<1> QED BY <1>1, <1>2, <1>3, <1>4, <1>5, <1>6

(* A scalar that is dropped goes to neither buffer.                        *)
LEMMA DroppedToken ==
  ASSUME Inv, Dropping, token # None
  PROVE  token.destination = "Discard" /\ key = <<>>
<1>1. token.destination = "Discard"
  <2>1. CASE token.key
    <3>1. /\ Top.expect \in {"ObjectFirst", "ObjectKey"}
          /\ token.destination = CASE Top.action.mode = "copy"    -> "Output"
                                   [] Top.action.mode = "discard" -> "Discard"
                                   [] Top.action.mode = "project" -> "LookupKey"
      BY <2>1, InvParts DEF TokenFits
    <3>2. Top.action.mode = "discard"
      BY <3>1, DroppingFacts, ActionTyped
    <3> QED BY <3>1, <3>2
  <2>2. CASE ~token.key
    BY <2>2, InvParts, DroppingFacts DEF TokenFits
  <2> QED BY <2>1, <2>2
<1>2. Len(key) = 0
  BY <1>1, InvParts DEF KeyFits
<1> QED BY <1>1, <1>2, InvParts, EmptySeq

LEMMA DroppedScalar ==
  ASSUME Inv, Dropping, Scalar, status' = status
  PROVE  output' = output /\ key' = key
<1>1. token # None /\ Reading /\ status = "Active"
  BY ReadingFacts
     DEF Scalar, Span, BadByte, ScalarByte, ValueEnds, NumberEnds, PlainKeyEnds,
         LookupKeyEnds, LookupKeyBroken, Scanning
<1>2. token.destination = "Discard" /\ key = <<>>
  BY <1>1, DroppedToken
<1>3. CASE BadByte \/ LookupKeyBroken
  BY <1>1, <1>3 DEF BadByte, LookupKeyBroken, Broken, Fail
<1>4. CASE Span \/ ScalarByte \/ ValueEnds
  <2>1. \E bytes : Write("Discard", bytes)
    BY <1>2, <1>4 DEF Span, ScalarByte, ValueEnds
  <2> QED BY <2>1 DEF Write
<1>5. CASE NumberEnds
  BY <1>5 DEF NumberEnds
<1>6. CASE PlainKeyEnds
  BY <1>2, <1>6 DEF PlainKeyEnds
<1>7. CASE LookupKeyEnds
  <2>1. token.key /\ Top.action.mode = "project"
    BY <1>7 DEF LookupKeyEnds
  <2>2. Top.expect \in {"ObjectFirst", "ObjectKey"}
    BY <1>1, <2>1, KeyToken
  <2> QED BY <2>1, <2>2, DroppingFacts
<1> QED BY <1>3, <1>4, <1>5, <1>6, <1>7 DEF Scalar

LEMMA DroppedStructure ==
  ASSUME Inv, Dropping, Structure, status' = status
  PROVE  output' = output /\ key' = key
<1>1. Reading /\ status = "Active" /\ frames # <<>> /\ started
  <2>1. Reading
    BY DEF Structure, OuterSpace, BadRoot, TrailingInput, InnerSpace, Close,
           BeginKey, ReadColon, ReadComma, Misplaced, OpenRoot, Open, TooDeep,
           BeginScalar, BadValue, ValueDue, Inside, Outside, Structural
  <2> QED BY <2>1, ReadingFacts, DroppingFacts, InvParts DEF Bounded
<1>2. CASE BadRoot \/ TrailingInput \/ Misplaced \/ TooDeep \/ BadValue
  BY <1>1, <1>2
     DEF BadRoot, TrailingInput, Misplaced, TooDeep, BadValue, Broken, Fail
<1>3. CASE OuterSpace \/ OpenRoot
  BY <1>1, <1>3 DEF OuterSpace, OpenRoot
<1>4. CASE InnerSpace
  <2>1. ~KeepsSpace
    BY DroppingFacts DEF KeepsSpace
  <2> QED BY <1>4, <2>1 DEF InnerSpace
<1>5. CASE Close
  <2>1. Top.expect \notin {"Colon", "ObjectValue"}
    BY <1>5 DEF Close, Closing
  <2> QED BY <1>5, <2>1, DroppingFacts DEF Close
<1>6. CASE BeginKey
  <2>1. Top.action = Discard
    BY <1>6, DroppingFacts DEF BeginKey
  <2>2. Write("Discard", <<Quote>>)
    BY <1>6, <2>1, ActionTyped DEF BeginKey
  <2> QED BY <2>2 DEF Write
<1>7. CASE ReadColon
  BY <1>7, DroppingFacts DEF ReadColon
<1>8. CASE ReadComma
  BY <1>8, DroppingFacts DEF ReadComma
<1>9. CASE Open \/ BeginScalar
  <2>1. ValueDue
    BY <1>9 DEF Open, BeginScalar
  <2>2. Asked = Discard /\ Asked \in Action /\ IsNode(Asked)
    BY <2>1, ValueDueFacts, DroppingFacts
  <2>3. Applied(Asked, Input) = Discard
    BY <2>2, AppliedFacts
  <2>4. Separated = output
    BY <2>1, ValueDueFacts, DroppingFacts DEF Separated, ProjectedElement, ValueExpect
  <2> QED BY <1>9, <2>3, <2>4 DEF Open, BeginScalar
<1> QED BY <1>2, <1>3, <1>4, <1>5, <1>6, <1>7, <1>8, <1>9 DEF Structure

(* No byte of a member the rules discard ever reaches a buffer: what is    *)
(* dropped is dropped as it is read (Action::Discard in stream/mod.rs).    *)
THEOREM DropsImmediately == Spec => DropsAtOnce
<1>1. Inv /\ [Next]_vars =>
        [Dropping /\ status' = status => output' = output /\ key' = key]_vars
  <2> SUFFICES ASSUME Inv, Next, Dropping, status' = status
               PROVE  output' = output /\ key' = key
    OBVIOUS
  <2>1. CASE (\E c \in Offer(fed) : Feed(c)) \/ Closed \/ FeedReturns
    BY <2>1 DEF Feed, Closed, FeedReturns, engine
  <2>2. CASE Finish \/ FinishIncomplete
    BY <2>2 DEF Finish, FinishIncomplete, Fail
  <2> QED BY <2>1, <2>2, DroppedScalar, DroppedStructure DEF Next, Step
<1> QED BY <1>1, Consistent, PTL DEF Spec, DropsAtOnce

-----------------------------------------------------------------------------
(* What is buffered.                                                       *)

(* A comma that has been read, and not written, may still have to be: the  *)
(* next member or element of the container may be kept.                    *)
Owes ==
  /\ frames # <<>> /\ Top.action.mode = "project" /\ Top.emitted
  /\ \/ Top.expect = "ObjectKey"
     \/ Top.expect = "ArrayValue" /\ token = None

(* Nothing has been written before the first member, or element, is due.   *)
Fresh ==
  frames # <<>> =>
    /\ Top.expect = "ObjectFirst" => ~Top.emitted
    /\ Top.expect = "ArrayFirst" /\ token = None => ~Top.emitted

(* The bound needs room for the comma that is owed.                        *)
Owed       == IF Owes THEN 1 ELSE 0
WithinRead == Len(output) + Len(key) + Owed <= offset
SpaceInv   == WithinRead /\ Fresh

(* A turn that writes a byte for a byte, and owes no comma afterwards.     *)
LEMMA NothingOwed ==
  ASSUME Inv, WithinRead, ~Owes', offset' \in Nat,
         Len(output') \in Nat, Len(key') \in Nat,
         Len(output') + Len(key') <= Len(output) + Len(key) + (offset' - offset)
  PROVE  WithinRead'
<1>1. Owed \in Nat /\ Owed' = 0
  BY DEF Owed
<1>2. Len(output) \in Nat /\ Len(key) \in Nat /\ offset \in Nat
  BY InvParts
<1> QED BY <1>1, <1>2 DEF WithinRead

(* A turn that leaves the top frame as it was.                             *)
LEMMA SameTop ==
  ASSUME Inv, SpaceInv, frames' = frames, token' = None => token = None,
         token = None /\ token' # None /\ frames # <<>> =>
            Top.expect \notin {"ArrayFirst", "ArrayValue"},
         offset' \in Nat, Len(output') \in Nat, Len(key') \in Nat,
         Len(output') + Len(key') <= Len(output) + Len(key) + (offset' - offset)
  PROVE  SpaceInv'
<1>1. Top' = Top
  BY DEF Top
<1>2. Owes' => Owes
  BY <1>1 DEF Owes
<1>3. Owed' \in Nat /\ Owed \in Nat /\ Owed' <= Owed
  BY <1>2 DEF Owed
<1>4. WithinRead'
  BY SMTT(30), <1>3, InvParts DEF WithinRead, SpaceInv
<1>5. Fresh'
  BY <1>1 DEF Fresh, SpaceInv
<1> QED BY <1>4, <1>5 DEF SpaceInv

(* A container that awaits a comma owes none.                              *)
LEMMA AwaitsComma ==
  ASSUME frames' # <<>> => Top'.expect \in {"ObjectComma", "ArrayComma", "Colon",
                                            "ObjectValue"}
  PROVE  ~Owes' /\ Fresh'
  BY DEF Owes, Fresh

LEMMA DoneAwaits ==
  ASSUME NEW fs, Stack(fs), frames' = ValueDone(fs)
  PROVE  frames' # <<>> => Top'.expect \in {"ObjectComma", "ArrayComma", "Colon",
                                            "ObjectValue"}
<1> SUFFICES ASSUME frames' # <<>>
             PROVE  Top'.expect \in {"ObjectComma", "ArrayComma"}
  OBVIOUS
<1>1. /\ Len(ValueDone(fs)) = Len(fs) /\ fs # <<>>
      /\ ValueDone(fs)[Len(fs)].expect \in {"ObjectComma", "ArrayComma"}
  BY ValueDoneStack
<1> QED BY <1>1 DEF Top

(* A write of n bytes, n of them read, takes no room.                      *)
LEMMA WriteSpace ==
  ASSUME NEW destination, NEW bytes \in Seq(Byte), Write(destination, bytes),
         key \in Seq(Byte), output \in Seq(Byte), offset \in Nat,
         offset' = offset + Len(bytes)
  PROVE  /\ Len(key') \in Nat /\ Len(output') \in Nat /\ offset' \in Nat
         /\ Len(output') + Len(key') <= Len(output) + Len(key) + (offset' - offset)
<1>1. /\ Len(bytes) \in Nat /\ Len(key) \in Nat /\ Len(output) \in Nat
      /\ offset' \in Nat /\ offset' - offset = Len(bytes)
  OBVIOUS
<1>2. CASE destination = "LookupKey"
  <2>1. output' = output /\ Len(key') = Len(key) + Len(bytes)
    BY <1>2, ConcatProperties DEF Write
  <2> QED BY <1>1, <2>1
<1>3. CASE destination = "Output"
  <2>1. key' = key /\ Len(output') = Len(output) + Len(bytes)
    BY <1>3, ConcatProperties DEF Write
  <2> QED BY <1>1, <2>1
<1>4. CASE destination \notin {"LookupKey", "Output"}
  <2>1. key' = key /\ output' = output
    BY <1>4 DEF Write
  <2> QED BY <1>1, <2>1
<1> QED BY <1>2, <1>3, <1>4

LEMMA ScalarSpace ==
  ASSUME Inv, SpaceInv, Scalar
  PROVE  SpaceInv'
<1>1. /\ token # None /\ Reading /\ Input \in Byte /\ frames # <<>>
      /\ output \in Seq(Byte) /\ key \in Seq(Byte) /\ offset \in Nat
      /\ Len(output) \in Nat /\ Len(key) \in Nat /\ Stack(frames)
      /\ index \in Nat /\ Len(chunk) \in Nat /\ chunk \in Seq(Byte)
  BY ReadingFacts, InvParts, TokenFacts
     DEF Scalar, Span, BadByte, ScalarByte, ValueEnds, NumberEnds, PlainKeyEnds,
         LookupKeyEnds, LookupKeyBroken, Scanning
<1>2. CASE BadByte \/ LookupKeyBroken
  <2>1. /\ frames' = <<>> /\ output' = <<>> /\ key' = <<>>
        /\ offset' = offset \/ offset' = offset + 1
    BY <1>2 DEF BadByte, LookupKeyBroken, Broken, Fail
  <2>2. ~Owes' /\ Fresh' /\ Len(output') = 0 /\ Len(key') = 0 /\ offset' \in Nat
    BY <1>1, <2>1 DEF Owes, Fresh
  <2> QED BY <2>2 DEF SpaceInv, WithinRead, Owed
<1>3. CASE Span
  <2>1. /\ \A i \in index + 1 .. Len(chunk) : chunk[i] \in Byte
        /\ index + 1 \in Int /\ Len(chunk) \in Int
    BY <1>1, ElementOfSeq
  <2>2. Rest \in Seq(Byte) /\ Len(Rest) \in Nat
    BY <2>1, SubSeqProperties DEF Rest
  <2> PICK n \in 1 .. Len(Rest) :
         /\ Write(token.destination, SubSeq(Rest, 1, n))
         /\ Advanced(n)
    BY <1>3 DEF Span
  <2>3. SubSeq(Rest, 1, n) \in Seq(Byte) /\ Len(SubSeq(Rest, 1, n)) = n
    <3>1. /\ 1 \in Int /\ n \in Int /\ 1 <= n /\ n - 1 + 1 = n
          /\ \A i \in 1 .. n : Rest[i] \in Byte
      BY <2>2, ElementOfSeq
    <3> QED BY <3>1, SubSeqProperties
  <2>5. n \in Nat /\ offset' = offset + n
    BY <2>2 DEF Advanced
  <2>6. /\ Len(key') \in Nat /\ Len(output') \in Nat /\ offset' \in Nat
        /\ Len(output') + Len(key') <= Len(output) + Len(key) + (offset' - offset)
    BY <1>1, <2>3, <2>5, WriteSpace
  <2>7. frames' = frames /\ token' = token
    BY <1>3 DEF Span
  <2> QED BY <1>1, <2>6, <2>7, SameTop
<1>4. CASE ScalarByte
  <2>1. /\ Write(token.destination, <<Input>>) /\ offset' = offset + 1
        /\ frames' = frames
    BY <1>4 DEF ScalarByte, Advanced
  <2>2. <<Input>> \in Seq(Byte) /\ Len(<<Input>>) = 1
    BY <1>1
  <2>3. /\ Len(key') \in Nat /\ Len(output') \in Nat /\ offset' \in Nat
        /\ Len(output') + Len(key') <= Len(output) + Len(key) + (offset' - offset)
    BY <1>1, <2>1, <2>2, WriteSpace
  <2>4. token' # None
    <3>1. Push(token.scalar, Input).state \in ScalarState
      BY <1>1, TokenFacts, PushTyped DEF Answer
    <3> QED BY <1>1, <1>4, <3>1, TokenFacts, TokenScalar, NoneIsNoToken
            DEF ScalarByte
  <2> QED BY <1>1, <2>1, <2>3, <2>4, SameTop
<1>5. CASE ValueEnds \/ NumberEnds
  <2>1. frames' = ValueDone(frames)
    BY <1>5 DEF ValueEnds, NumberEnds
  <2>2. ~Owes' /\ Fresh'
    BY <1>1, <2>1, DoneAwaits, AwaitsComma
  <2>3. /\ Len(key') \in Nat /\ Len(output') \in Nat /\ offset' \in Nat
        /\ Len(output') + Len(key') <= Len(output) + Len(key) + (offset' - offset)
    <3>1. CASE ValueEnds
      <4>1. Write(token.destination, <<Input>>) /\ offset' = offset + 1
        BY <3>1 DEF ValueEnds, Advanced
      <4>2. <<Input>> \in Seq(Byte) /\ Len(<<Input>>) = 1
        BY <1>1
      <4> QED BY <1>1, <4>1, <4>2, WriteSpace
    <3>2. CASE NumberEnds
      BY <1>1, <3>2 DEF NumberEnds
    <3> QED BY <1>5, <3>1, <3>2
  <2> QED BY <2>2, <2>3, NothingOwed DEF SpaceInv
<1>6. CASE PlainKeyEnds \/ LookupKeyEnds
  <2> DEFINE raw   == Append(key, Input)
             next  == Rule(Top.action.node, raw)
             comma == IF Top.emitted THEN <<Comma>> ELSE <<>>
  <2>1. token.key /\ Top \in Frame /\ Len(frames) \in Nat \ {0}
    BY <1>1, <1>6, TokenFacts DEF PlainKeyEnds, LookupKeyEnds
  <2>2. Top'.expect = "Colon"
    <3>1. PICK nx, em : frames' = [frames EXCEPT ![Len(frames)] = Keyed(@, nx, em)]
      BY <1>6 DEF PlainKeyEnds, LookupKeyEnds
    <3>2. Keyed(Top, nx, em).expect = "Colon"
      BY <2>1 DEF Keyed, Frame
    <3>3. frames' = [frames EXCEPT ![Len(frames)] = Keyed(Top, nx, em)]
      BY <3>1 DEF Top
    <3>4. Len(frames') = Len(frames) /\ frames'[Len(frames)] = Keyed(Top, nx, em)
      BY <1>1, <2>1, <3>3 DEF Stack
    <3> QED BY <3>2, <3>4 DEF Top
  <2>3. ~Owes' /\ Fresh'
    BY <2>2, AwaitsComma
  <2>4. offset' = offset + 1 /\ key' = <<>> /\ Len(key') = 0
    BY <1>6 DEF PlainKeyEnds, LookupKeyEnds, Advanced
  <2>5. CASE PlainKeyEnds
    <3>1. output' \in {output, Append(output, Input)}
      BY <2>5 DEF PlainKeyEnds
    <3>2. Len(output') \in Nat /\ Len(output') <= Len(output) + 1
      BY <1>1, <3>1, AppendTyped
    <3> QED BY <1>1, <2>3, <2>4, <3>2, NothingOwed DEF SpaceInv
  <2>6. CASE LookupKeyEnds
    <3>1. /\ output' \in {output, output \o comma \o raw}
          /\ Top.action.mode = "project"
      BY <2>6 DEF LookupKeyEnds
    <3>2. Len(comma) = (IF Top.emitted THEN 1 ELSE 0) /\ comma \in Seq(Byte)
      BY BytesTyped
    <3>3. raw \in Seq(Byte) /\ Len(raw) = Len(key) + 1
      BY <1>1, AppendTyped
    <3> HIDE DEF raw, comma
    <3>4. Len(output \o comma \o raw) = Len(output) + Len(comma) + Len(raw)
      <4>1. /\ output \o comma \in Seq(Byte)
            /\ Len(output \o comma) = Len(output) + Len(comma)
        BY <1>1, <3>2, ConcatProperties
      <4> DEFINE before == output \o comma
      <4>2. before \in Seq(Byte)
        BY <4>1
      <4>3. Len(before \o raw) = Len(before) + Len(raw)
        <5> HIDE DEF before
        <5> QED BY <3>3, <4>2, ConcatProperties
      <4> QED BY <4>1, <4>3
    <3>5. Top.emitted => Owes
      BY <1>1, <2>1, <3>1, KeyToken DEF SpaceInv, Fresh, Owes
    <3>6. Len(output) + Len(key) + Len(comma) <= offset
      BY <1>1, <3>2, <3>5 DEF SpaceInv, WithinRead, Owed
    <3>7. Len(comma) \in Nat
      BY <3>2
    <3>8. CASE output' = output
      <4>1. Len(output') + Len(key') <= offset'
        BY <1>1, <2>4, <3>6, <3>7, <3>8
      <4> QED BY <1>1, <2>3, <2>4, <3>8, <4>1 DEF SpaceInv, WithinRead, Owed
    <3>9. CASE output' = output \o comma \o raw
      <4>1. Len(output') = Len(output) + Len(comma) + (Len(key) + 1)
        BY <3>3, <3>4, <3>9
      <4>2. Len(output') + Len(key') <= offset'
        BY <1>1, <2>4, <3>6, <3>7, <4>1
      <4> QED BY <1>1, <2>3, <2>4, <3>7, <4>1, <4>2
              DEF SpaceInv, WithinRead, Owed
    <3> QED BY <3>1, <3>8, <3>9
  <2> QED BY <1>6, <2>5, <2>6
<1> QED BY <1>2, <1>3, <1>4, <1>5, <1>6 DEF Scalar

LEMMA StructureSpace ==
  ASSUME Inv, SpaceInv, Structure
  PROVE  SpaceInv'
<1>1. /\ token = None /\ Reading /\ Input \in Byte /\ Len(key) = 0
      /\ output \in Seq(Byte) /\ key \in Seq(Byte) /\ offset \in Nat
      /\ Len(output) \in Nat /\ Stack(frames)
  <2>1. token = None /\ Reading
    BY DEF Structure, OuterSpace, BadRoot, TrailingInput, InnerSpace, Close,
           BeginKey, ReadColon, ReadComma, Misplaced, OpenRoot, Open, TooDeep,
           BeginScalar, BadValue, ValueDue, Inside, Outside, Structural
  <2>2. Len(key) = 0
    BY <2>1, InvParts DEF KeyFits
  <2> QED BY <2>1, <2>2, ReadingFacts, InvParts
<1>2. CASE BadRoot \/ TrailingInput \/ Misplaced \/ TooDeep \/ BadValue
  <2>1. /\ frames' = <<>> /\ output' = <<>> /\ key' = <<>> /\ offset' = offset
    BY <1>2
       DEF BadRoot, TrailingInput, Misplaced, TooDeep, BadValue, Broken, Fail
  <2>2. ~Owes' /\ Fresh' /\ Len(output') = 0 /\ Len(key') = 0
    BY <2>1 DEF Owes, Fresh
  <2> QED BY <1>1, <2>1, <2>2 DEF SpaceInv, WithinRead, Owed
<1>3. CASE OuterSpace \/ InnerSpace
  <2>1. /\ frames' = frames /\ token' = token /\ key' = key
        /\ output' \in {output, Append(output, Input)} /\ offset' = offset + 1
    BY <1>3 DEF OuterSpace, InnerSpace, Advanced
  <2>2. Len(output') \in Nat /\ Len(output') <= Len(output) + 1
    BY <1>1, <2>1, AppendTyped
  <2> QED BY <1>1, <2>1, <2>2, SameTop
<1>4. CASE Close \/ ReadColon
  <2>1. /\ key' = key /\ offset' = offset + 1
        /\ \E b \in Byte : output' \in {output, Append(output, b)}
    BY <1>1, <1>4, BytesTyped DEF Close, ReadColon, Advanced
  <2>2. Len(output') \in Nat /\ Len(output') <= Len(output) + 1
    BY <1>1, <2>1, AppendTyped
  <2>3. ~Owes' /\ Fresh'
    <3>1. CASE Close
      <4>1. Stack(SubSeq(frames, 1, Len(frames) - 1))
        BY <1>1, <3>1, PopFrame DEF Close, Inside
      <4>2. frames' = ValueDone(SubSeq(frames, 1, Len(frames) - 1))
        BY <3>1 DEF Close
      <4> QED BY <4>1, <4>2, DoneAwaits, AwaitsComma
    <3>2. CASE ReadColon
      <4>1. /\ Inside /\ Top.expect = "Colon"
            /\ frames' = Expecting(frames, "ObjectValue")
        BY <3>2 DEF ReadColon
      <4>2. Top.object /\ "ObjectValue" \in Expect /\ "ObjectValue" \in ObjectExpect
        BY <4>1, InsideTop DEF FrameFits, ObjectExpect, Expect
      <4>3. Top' = [Top EXCEPT !.expect = "ObjectValue"]
        BY <4>1, <4>2, InsideTop, ExpectingStack DEF Top
      <4>4. Top'.expect = "ObjectValue"
        BY <4>1, <4>2, <4>3, InsideTop, FrameExpect
      <4> QED BY <4>4, AwaitsComma
    <3> QED BY <1>4, <3>1, <3>2
  <2> QED BY <1>1, <2>1, <2>2, <2>3, NothingOwed DEF SpaceInv
<1>5. CASE BeginKey
  <2>1. /\ frames' = frames /\ offset' = offset + 1
        /\ \E d : Write(d, <<Quote>>)
        /\ Top.expect \in {"ObjectFirst", "ObjectKey"}
    BY <1>5 DEF BeginKey, Advanced
  <2>2. <<Quote>> \in Seq(Byte) /\ Len(<<Quote>>) = 1
    BY BytesTyped
  <2>3. /\ Len(key') \in Nat /\ Len(output') \in Nat /\ offset' \in Nat
        /\ Len(output') + Len(key') <= Len(output) + Len(key) + (offset' - offset)
    BY <1>1, <2>1, <2>2, WriteSpace
  <2> QED BY <1>1, <2>1, <2>3, SameTop
<1>6. CASE ReadComma
  <2> DEFINE e == IF Top.expect = "ObjectComma" THEN "ObjectKey" ELSE "ArrayValue"
  <2>1. /\ Inside /\ Top.expect \in {"ObjectComma", "ArrayComma"}
        /\ frames' = Expecting(frames, e) /\ key' = key /\ offset' = offset + 1
        /\ output' = IF Top.action = Copy THEN Append(output, Comma) ELSE output
    BY <1>6 DEF ReadComma, Advanced
  <2>2. /\ Top.object <=> e \in ObjectExpect
        /\ e \in Expect /\ e \notin {"Colon", "ObjectValue"}
        /\ e \in {"ObjectKey", "ArrayValue"}
    BY <2>1, InsideTop DEF FrameFits, ObjectExpect, Expect
  <2> HIDE DEF e
  <2>3. Top' = [Top EXCEPT !.expect = e]
    BY <2>1, <2>2, InsideTop, ExpectingStack DEF Top
  <2>4. Top'.expect = e /\ Top'.action = Top.action
    BY <2>1, <2>2, <2>3, InsideTop, FrameExpect
  <2>5. Fresh'
    BY <2>2, <2>4 DEF Fresh
  <2>6. CASE Top.action = Copy
    <3>1. ~Owes'
      BY <2>4, <2>6, ActionTyped DEF Owes
    <3>2. Len(output') = Len(output) + 1
      BY <1>1, <2>1, <2>6, BytesTyped, AppendTyped
    <3> QED BY <1>1, <2>1, <2>5, <3>1, <3>2, NothingOwed DEF SpaceInv
  <2>7. CASE Top.action # Copy
    <3>1. Len(output) + Len(key) <= offset
      BY <1>1 DEF SpaceInv, WithinRead, Owed
    <3>2. Len(output) + Len(key) + 1 <= offset + 1
      BY <1>1, <3>1
    <3>3. output' = output
      BY <2>1, <2>7
    <3>4. Owed' \in Nat /\ Owed' <= 1
      BY DEF Owed
    <3>5. Len(output') + Len(key') + Owed' <= offset'
      BY <1>1, <2>1, <3>2, <3>3, <3>4
    <3> QED BY <2>5, <3>5 DEF SpaceInv, WithinRead
  <2> QED BY <2>6, <2>7
<1>7. CASE OpenRoot
  <2> DEFINE f == NewFrame(Project(0), LBrace)
  <2>1. /\ frames' = <<f>> /\ key' = key /\ offset' = offset + 1
        /\ output' = Append(output, LBrace)
    BY <1>7 DEF OpenRoot, Advanced
  <2>2. Top' = f /\ ~f.emitted
    BY <2>1 DEF Top, NewFrame
  <2>3. ~Owes' /\ Fresh'
    BY <2>2 DEF Owes, Fresh
  <2>4. Len(output') = Len(output) + 1
    BY <1>1, <2>1, BytesTyped, AppendTyped
  <2> QED BY <1>1, <2>1, <2>3, <2>4, NothingOwed DEF SpaceInv
<1>8. CASE Open \/ BeginScalar
  <2>1. ValueDue /\ key' = key /\ offset' = offset + 1
    BY <1>8 DEF Open, BeginScalar, Advanced
  <2>2. /\ Inside /\ Top.expect \in ValueExpect /\ Top \in Frame
        /\ FrameFits(Top) /\ frames # <<>>
    BY <2>1, ValueDueFacts, InsideTop
  <2>3. ProjectedElement /\ Top.emitted => Owes
    BY <1>1, <2>2 DEF ProjectedElement, ValueExpect, SpaceInv, Fresh, Owes
  <2>4. Separated \in Seq(Byte) /\ Len(Separated) + Len(key) <= offset
    <3>1. CASE ProjectedElement /\ Top.emitted
      <4>1. Separated = Append(output, Comma) /\ Owes
        BY <2>3, <3>1 DEF Separated
      <4>2. Separated \in Seq(Byte) /\ Len(Separated) = Len(output) + 1
        BY <1>1, <4>1, BytesTyped, AppendTyped
      <4>3. Len(output) + Len(key) + 1 <= offset
        BY <4>1 DEF SpaceInv, WithinRead, Owed
      <4> QED BY <1>1, <4>2, <4>3
    <3>2. CASE ~(ProjectedElement /\ Top.emitted)
      <4>1. Separated = output
        BY <3>2 DEF Separated
      <4> QED BY <1>1, <4>1 DEF SpaceInv, WithinRead, Owed
    <3> QED BY <3>1, <3>2
  <2>5. output' \in {Separated, Append(Separated, Input)}
    BY <1>8 DEF Open, BeginScalar
  <2>6. Len(output') \in Nat /\ Len(output') <= Len(Separated) + 1
    BY <1>1, <2>4, <2>5, AppendTyped
  <2>7. Len(output') + Len(key') <= offset'
    BY <1>1, <2>1, <2>4, <2>6
  <2>8. ~Owes' /\ Fresh'
    <3>1. CASE Open
      <4> DEFINE f == NewFrame(Applied(Asked, Input), Input)
      <4>1. frames' = Append(Parents, f) /\ ~f.emitted
        BY <3>1 DEF Open, NewFrame
      <4>2. Parents \in Seq(Frame)
        BY <2>1, ParentsFacts DEF Stack
      <4>3. Top' = f
        BY <4>1, <4>2 DEF Top
      <4> HIDE DEF f
      <4> QED BY <4>1, <4>3 DEF Owes, Fresh
    <3>2. CASE BeginScalar
      <4>1. token' # None
        <5>1. Start(Input) \in ScalarState
          BY <1>1, <3>2, StartTyped DEF BeginScalar
        <5>2. token' \in Token
          BY <1>1, <3>2, <5>1 DEF BeginScalar, Token, Destination
        <5> QED BY <5>2, NoneIsNoToken
      <4>2. frames' = Parents
        BY <3>2 DEF BeginScalar
      <4>3. Top' = Parents[Len(frames)] /\ Top'.expect = Top.expect
        BY <2>1, <4>2, ParentsFacts DEF Top
      <4> QED BY <2>2, <4>1, <4>3 DEF Owes, Fresh, ValueExpect
    <3> QED BY <1>8, <3>1, <3>2
  <2> QED BY <1>1, <2>1, <2>6, <2>7, <2>8 DEF SpaceInv, WithinRead, Owed
<1> QED BY <1>2, <1>3, <1>4, <1>5, <1>6, <1>7, <1>8 DEF Structure

LEMMA CallSpace ==
  ASSUME Inv, SpaceInv,
         \/ (\E c : Feed(c)) \/ Closed \/ FeedReturns
         \/ Finish \/ FinishIncomplete \/ UNCHANGED vars
  PROVE  SpaceInv'
<1>1. CASE (\E c : Feed(c)) \/ Closed \/ FeedReturns \/ UNCHANGED vars
  <2>1. UNCHANGED <<frames, token, key, output, offset>>
    BY <1>1 DEF Feed, Closed, FeedReturns, engine, vars
  <2> QED BY <2>1, InvParts, SameTop
<1>2. CASE Finish \/ FinishIncomplete
  <2>1. frames' = <<>> /\ output' = <<>> /\ key' = <<>> /\ offset' = offset
    BY <1>2 DEF Finish, FinishIncomplete, Fail
  <2>2. ~Owes' /\ Fresh' /\ Len(output') = 0 /\ Len(key') = 0
    BY <2>1 DEF Owes, Fresh
  <2> QED BY <2>1, <2>2, InvParts DEF SpaceInv, WithinRead, Owed
<1> QED BY <1>1, <1>2

(* A session never buffers more than it has read: whatever is fed, and     *)
(* whatever the plan, output and key together are no longer than the input *)
(* consumed so far, the commas it writes included (Engine::write and       *)
(* complete_token in src/stream/mod.rs).                                   *)
THEOREM BuffersBounded == Spec => []BufferBound
<1>1. Init => SpaceInv
  BY DEF Init, SpaceInv, WithinRead, Owed, Owes, Fresh
<1>2. Inv /\ SpaceInv /\ [Next]_vars => SpaceInv'
  BY ScalarSpace, StructureSpace, CallSpace DEF Next, Step
<1>3. Inv /\ SpaceInv => BufferBound
  <2> SUFFICES ASSUME Inv, SpaceInv PROVE BufferBound
    OBVIOUS
  <2>1. Owed \in Nat
    BY DEF Owed
  <2> QED BY <2>1, InvParts DEF SpaceInv, WithinRead, BufferBound
<1> QED BY <1>1, <1>2, <1>3, Consistent, PTL DEF Spec

-----------------------------------------------------------------------------
(* Reading byte by byte: the function that Readings chooses exists, and    *)
(* one byte more is one step more.                                         *)

(* g holds what is read of the first n bytes, at every length.             *)
ReadsTo(p, bytes, n, g) ==
  g = [k \in 0 .. n |-> IF k = 0 THEN Unread ELSE Takes(p, g[k - 1], bytes[k], k - 1)]

LEMMA ReadsToIs ==
  ASSUME NEW p, NEW bytes, NEW n \in Nat, NEW g, ReadsTo(p, bytes, n, g)
  PROVE  /\ g[0] = Unread
         /\ \A k \in 1 .. n : g[k] = Takes(p, g[k - 1], bytes[k], k - 1)
<1> DEFINE rhs(k) == IF k = 0 THEN Unread ELSE Takes(p, g[k - 1], bytes[k], k - 1)
<1>1. g = [k \in 0 .. n |-> rhs(k)]
  BY DEF ReadsTo
<1>2. \A k \in 0 .. n : g[k] = rhs(k)
  <2> HIDE DEF rhs
  <2> QED BY <1>1
<1> QED BY <1>2

LEMMA ReadsToExists ==
  ASSUME NEW p, NEW bytes, NEW n \in Nat
  PROVE  \E g : ReadsTo(p, bytes, n, g)
<1> DEFINE T == { k \in Nat : ~ \E g : ReadsTo(p, bytes, k, g) }
<1> SUFFICES ASSUME T # {} PROVE FALSE
  OBVIOUS
<1>1. PICK k \in T : \A j \in T : k <= j
  <2>1. T \in SUBSET Nat
    OBVIOUS
  <2> HIDE DEF T
  <2> QED BY <2>1, Least
<1>2. k # 0
  <2> SUFFICES ASSUME k = 0 PROVE FALSE
    OBVIOUS
  <2> DEFINE g == [j \in 0 .. 0 |-> Unread]
  <2>1. ReadsTo(p, bytes, 0, g)
    BY DEF ReadsTo
  <2> HIDE DEF g
  <2> QED BY <2>1
<1>3. k \in Nat /\ k - 1 \in Nat /\ ~(k <= k - 1)
  BY <1>2
<1>4. PICK g : ReadsTo(p, bytes, k - 1, g)
  <2>1. k - 1 \notin T
    <3> HIDE DEF T
    <3> QED BY <1>1, <1>3
  <2> QED BY <1>3, <2>1
<1> DEFINE h == [j \in 0 .. k |-> IF j = k THEN Takes(p, g[k - 1], bytes[k], k - 1) ELSE g[j]]
<1>5. /\ h[0] = Unread
      /\ \A j \in 1 .. k : h[j] = Takes(p, h[j - 1], bytes[j], j - 1)
  <2>1. /\ g[0] = Unread
        /\ \A j \in 1 .. k - 1 : g[j] = Takes(p, g[j - 1], bytes[j], j - 1)
    BY <1>3, <1>4, ReadsToIs
  <2>2. h[0] = Unread
    BY <1>2, <1>3, <2>1
  <2>3. ASSUME NEW j \in 1 .. k PROVE h[j] = Takes(p, h[j - 1], bytes[j], j - 1)
    <3>1. h[j - 1] = g[j - 1]
      BY <1>3
    <3>2. CASE j = k
      BY <1>3, <3>1, <3>2
    <3>3. CASE j # k
      <4>1. j \in 1 .. k - 1 /\ h[j] = g[j]
        BY <1>3, <3>3
      <4> QED BY <2>1, <3>1, <4>1
    <3> QED BY <3>2, <3>3
  <2> QED BY <2>2, <2>3
<1>6. ReadsTo(p, bytes, k, h)
  <2> DEFINE rhs(f, j) == IF j = 0 THEN Unread ELSE Takes(p, f[j - 1], bytes[j], j - 1)
  <2>1. PICK f : f = h
    OBVIOUS
  <2>2. f = [j \in 0 .. k |-> f[j]]
    BY <2>1
  <2> HIDE DEF h
  <2>3. \A j \in 0 .. k : f[j] = rhs(f, j)
    <3> TAKE j \in 0 .. k
    <3>1. j = 0 \/ j \in 1 .. k
      BY <1>3
    <3> QED BY <1>5, <2>1, <3>1
  <2> HIDE DEF rhs
  <2>4. f = [j \in 0 .. k |-> rhs(f, j)]
    BY <2>2, <2>3
  <2> USE DEF rhs
  <2>5. ReadsTo(p, bytes, k, f)
    BY <2>4 DEF ReadsTo
  <2> QED BY <2>1, <2>5
<1> HIDE DEF h
<1> QED BY <1>6

LEMMA ReadingsAre ==
  ASSUME NEW p, NEW bytes \in Seq(Byte)
  PROVE  ReadsTo(p, bytes, Len(bytes), Readings(p, bytes))
<1>1. \E g : ReadsTo(p, bytes, Len(bytes), g)
  BY ReadsToExists
<1>2. Readings(p, bytes) = CHOOSE g : ReadsTo(p, bytes, Len(bytes), g)
  BY DEF Readings, ReadsTo
<1> QED BY <1>1, <1>2

LEMMA ReadingsStep ==
  ASSUME NEW p, NEW bytes \in Seq(Byte)
  PROVE  /\ Readings(p, bytes)[0] = Unread
         /\ \A k \in 1 .. Len(bytes) :
              Readings(p, bytes)[k] = Takes(p, Readings(p, bytes)[k - 1], bytes[k], k - 1)
<1>1. Len(bytes) \in Nat
  OBVIOUS
<1> QED BY <1>1, ReadingsAre, ReadsToIs

(* What has been read does not depend on what follows.                     *)
LEMMA ReadingsAgree ==
  ASSUME NEW p, NEW x \in Seq(Byte), NEW y \in Seq(Byte), Len(x) <= Len(y),
         \A i \in 1 .. Len(x) : x[i] = y[i]
  PROVE  \A n \in 0 .. Len(x) : Readings(p, y)[n] = Readings(p, x)[n]
<1> DEFINE T == { n \in 0 .. Len(x) : Readings(p, y)[n] # Readings(p, x)[n] }
<1> SUFFICES ASSUME T # {} PROVE FALSE
  OBVIOUS
<1>1. PICK n \in T : \A j \in T : n <= j
  <2>1. T \in SUBSET Nat
    OBVIOUS
  <2> HIDE DEF T
  <2> QED BY <2>1, Least
<1>2. n # 0
  BY ReadingsStep
<1>3. /\ Len(x) \in Nat /\ Len(y) \in Nat /\ n \in 1 .. Len(x) /\ n \in 1 .. Len(y)
      /\ n - 1 \in 0 .. Len(x) /\ ~(n <= n - 1)
  BY <1>2
<1>4. Readings(p, y)[n - 1] = Readings(p, x)[n - 1]
  <2>1. n - 1 \notin T
    <3> HIDE DEF T
    <3> QED BY <1>1, <1>3
  <2> QED BY <1>3, <2>1
<1>5. /\ Readings(p, x)[n] = Takes(p, Readings(p, x)[n - 1], x[n], n - 1)
      /\ Readings(p, y)[n] = Takes(p, Readings(p, y)[n - 1], y[n], n - 1)
  BY <1>3, ReadingsStep
<1> QED BY <1>3, <1>4, <1>5

LEMMA ReadNothing ==
  ASSUME NEW p PROVE ReadAll(p, <<>>) = Unread
<1>1. <<>> \in Seq(Byte) /\ Len(<<>>) = 0
  OBVIOUS
<1> QED BY <1>1, ReadingsStep DEF ReadAll

LEMMA ReadOne ==
  ASSUME NEW p, NEW x \in Seq(Byte), NEW b \in Byte
  PROVE  ReadAll(p, Append(x, b)) = Takes(p, ReadAll(p, x), b, Len(x))
<1> DEFINE y == Append(x, b)
           m == Len(x)
<1>1. /\ y \in Seq(Byte) /\ m \in Nat /\ Len(y) = m + 1 /\ y[m + 1] = b
      /\ \A i \in 1 .. m : x[i] = y[i]
  OBVIOUS
<1> HIDE DEF y
<1>2. Readings(p, y)[m + 1] = Takes(p, Readings(p, y)[m], b, m)
  <2>1. m + 1 \in 1 .. Len(y) /\ (m + 1) - 1 = m
    BY <1>1
  <2> QED BY <1>1, <2>1, ReadingsStep
<1>3. Readings(p, y)[m] = Readings(p, x)[m]
  <2>1. m \in 0 .. m /\ m <= Len(y)
    BY <1>1
  <2> QED BY <1>1, <2>1, ReadingsAgree
<1>4. ReadAll(p, y) = Readings(p, y)[m + 1] /\ ReadAll(p, x) = Readings(p, x)[m]
  BY <1>1 DEF ReadAll
<1> QED BY <1>2, <1>3, <1>4 DEF y

(* A reading that is refused stays so.                                    *)
LEMMA BadStays ==
  ASSUME NEW p, NEW x \in Seq(Byte), NEW y \in Seq(Byte), ReadAll(p, x).state = "refused"
  PROVE  ReadAll(p, x \o y) = ReadAll(p, x)
<1> DEFINE z == x \o y
           m == Len(x)
           T == { n \in Nat : n <= Len(y) /\ Readings(p, z)[m + n] # ReadAll(p, x) }
<1>1. /\ z \in Seq(Byte) /\ m \in Nat /\ Len(y) \in Nat /\ Len(z) = m + Len(y)
      /\ \A i \in 1 .. m : x[i] = z[i]
  OBVIOUS
<1> HIDE DEF z
<1>2. Readings(p, z)[m] = ReadAll(p, x)
  <2>1. m \in 0 .. m /\ m <= Len(z)
    BY <1>1
  <2> QED BY <1>1, <2>1, ReadingsAgree DEF ReadAll
<1>3. T = {}
  <2> SUFFICES ASSUME T # {} PROVE FALSE
    OBVIOUS
  <2>1. PICK n \in T : \A j \in T : n <= j
    <3>1. T \in SUBSET Nat
      OBVIOUS
    <3> HIDE DEF T
    <3> QED BY <3>1, Least
  <2>2. n # 0
    BY <1>1, <1>2
  <2>3. /\ n \in Nat /\ n - 1 \in Nat /\ ~(n <= n - 1) /\ n - 1 <= Len(y)
        /\ m + n \in 1 .. Len(z) /\ (m + n) - 1 = m + (n - 1)
    BY <1>1, <2>2
  <2>4. Readings(p, z)[m + (n - 1)] = ReadAll(p, x)
    <3>1. n - 1 \notin T
      <4> HIDE DEF T
      <4> QED BY <2>1, <2>3
    <3> QED BY <2>3, <3>1
  <2>5. Readings(p, z)[m + n] = Takes(p, ReadAll(p, x), z[m + n], m + (n - 1))
    <3>1. \A k \in 1 .. Len(z) :
            Readings(p, z)[k] = Takes(p, Readings(p, z)[k - 1], z[k], k - 1)
      BY <1>1, ReadingsStep
    <3>2. Readings(p, z)[m + n] = Takes(p, Readings(p, z)[(m + n) - 1], z[m + n], (m + n) - 1)
      BY <2>3, <3>1
    <3> QED BY <2>3, <2>4, <3>2
  <2>6. \A b, n0 : Takes(p, ReadAll(p, x), b, n0) = ReadAll(p, x)
    BY DEF Takes
  <2> QED BY <2>5, <2>6
<1>4. Readings(p, z)[m + Len(y)] = ReadAll(p, x)
  BY <1>1, <1>3
<1> QED BY <1>1, <1>4 DEF ReadAll, z

-----------------------------------------------------------------------------
(* The engine as a reading.                                                *)

View == Known(frames, token, key, output, started)

(* The bytes consumed.                                                     *)
Eaten == fed \o SubSeq(chunk, 1, index)

(* The engine knows what its bytes say, except that a number may have been *)
(* ended at the byte that is to be read next.                              *)
Follows(r) ==
  \/ r = View
  \/ /\ Reading /\ token = None /\ r.state = "reading"
     /\ Ended(r, Input) = View

ReadInv ==
  status = "Active" =>
    /\ Follows(ReadAll(plan, Eaten))
    /\ calling => chunk \in Offer(fed)

LEMMA KnownFields ==
  ASSUME NEW fs, NEW t, NEW k, NEW o, NEW root
  PROVE  LET r == Known(fs, t, k, o, root)
         IN  /\ r.frames = fs /\ r.token = t /\ r.key = k /\ r.output = o
             /\ r.started = root /\ r.state = "reading"
  BY DEF Known

LEMMA EatenTyped ==
  ASSUME Inv
  PROVE  /\ Eaten \in Seq(Byte)
         /\ status = "Active" => Len(Eaten) = offset
<1> DEFINE y == SubSeq(chunk, 1, index)
<1>1. /\ fed \in Seq(Byte) /\ chunk \in Seq(Byte) /\ index \in 0 .. Len(chunk)
      /\ Len(chunk) \in Nat /\ Len(fed) \in Nat /\ Settled
  BY InvParts
<1>2. y \in Seq(Byte) /\ Len(y) = index
  <2>1. \A i \in 1 .. index : chunk[i] \in Byte
    BY <1>1, ElementOfSeq
  <2>2. /\ 1 \in Int /\ index \in Int /\ (IF 1 <= index THEN index - 1 + 1 ELSE 0) = index
        /\ \A i \in 1 .. index : i \in 1 .. Len(chunk)
    BY <1>1
  <2> QED BY <1>1, <2>1, <2>2, SubSeqProperties
<1> HIDE DEF y
<1>3. fed \o y \in Seq(Byte) /\ Len(fed \o y) = Len(fed) + index
  BY <1>1, <1>2
<1> QED BY <1>1, <1>3 DEF Eaten, y, Settled

(* The bytes that are left come after the bytes consumed.                  *)
LEMMA EatenRest ==
  ASSUME Inv, NEW k \in 0 .. Len(chunk) - index
  PROVE  /\ SubSeq(Rest, 1, k) \in Seq(Byte) /\ Len(SubSeq(Rest, 1, k)) = k
         /\ Rest \in Seq(Byte) /\ Len(Rest) = Len(chunk) - index
         /\ \A i \in 1 .. k : SubSeq(Rest, 1, k)[i] = chunk[index + i]
         /\ fed \o SubSeq(chunk, 1, index + k) = Eaten \o SubSeq(Rest, 1, k)
<1>1. /\ fed \in Seq(Byte) /\ chunk \in Seq(Byte) /\ index \in 0 .. Len(chunk)
      /\ Len(chunk) \in Nat /\ Len(fed) \in Nat /\ index \in Nat /\ k \in Nat
      /\ index + k \in 0 .. Len(chunk)
  BY InvParts
<1>2. \A i \in 1 .. Len(chunk) : chunk[i] \in Byte
  BY <1>1, ElementOfSeq
<1>3. \A m \in 0 .. Len(chunk) :
         /\ SubSeq(chunk, 1, m) \in Seq(Byte) /\ Len(SubSeq(chunk, 1, m)) = m
         /\ \A i \in 1 .. m : SubSeq(chunk, 1, m)[i] = chunk[i]
  <2> TAKE m \in 0 .. Len(chunk)
  <2>1. /\ 1 \in Int /\ m \in Int /\ (IF 1 <= m THEN m - 1 + 1 ELSE 0) = m
        /\ \A i \in 1 .. m : i \in 1 .. Len(chunk) /\ 1 + i - 1 = i
        /\ m - 1 + 1 = m
    BY <1>1
  <2> QED BY <1>1, <1>2, <2>1, SubSeqProperties
<1>4. /\ Rest \in Seq(Byte) /\ Len(Rest) = Len(chunk) - index
      /\ \A i \in 1 .. Len(chunk) - index : Rest[i] = chunk[index + i]
  <2>1. /\ index + 1 \in Int /\ Len(chunk) \in Int
        /\ (IF index + 1 <= Len(chunk) THEN Len(chunk) - (index + 1) + 1 ELSE 0)
             = Len(chunk) - index
        /\ Len(chunk) - (index + 1) + 1 = Len(chunk) - index
        /\ \A i \in index + 1 .. Len(chunk) : i \in 1 .. Len(chunk)
        /\ \A i \in 1 .. Len(chunk) - index : (index + 1) + i - 1 = index + i
    BY <1>1
  <2>2. \A i \in index + 1 .. Len(chunk) : chunk[i] \in Byte
    BY <1>2, <2>1
  <2>3. /\ Rest \in Seq(Byte)
        /\ Len(Rest) = IF index + 1 <= Len(chunk) THEN Len(chunk) - (index + 1) + 1 ELSE 0
        /\ \A i \in 1 .. Len(chunk) - (index + 1) + 1 : Rest[i] = chunk[(index + 1) + i - 1]
    <3>1. index + 1 \in Int /\ Len(chunk) \in Int
      BY <1>1
    <3> QED BY <2>2, <3>1, SubSeqProperties DEF Rest
  <2>4. Len(Rest) = Len(chunk) - index
    BY <2>1, <2>3
  <2>5. \A i \in 1 .. Len(chunk) - index : Rest[i] = chunk[index + i]
    BY <2>1, <2>3
  <2> QED BY <2>3, <2>4, <2>5
<1>5. /\ SubSeq(Rest, 1, k) \in Seq(Byte) /\ Len(SubSeq(Rest, 1, k)) = k
      /\ \A i \in 1 .. k : SubSeq(Rest, 1, k)[i] = Rest[i]
  <2>1. /\ 1 \in Int /\ k \in Int /\ (IF 1 <= k THEN k - 1 + 1 ELSE 0) = k
        /\ \A i \in 1 .. k : i \in 1 .. Len(Rest) /\ 1 + i - 1 = i
        /\ k - 1 + 1 = k
    BY <1>1, <1>4
  <2>2. \A i \in 1 .. k : Rest[i] \in Byte
    BY <1>4, <2>1, ElementOfSeq
  <2> QED BY <1>4, <2>1, <2>2, SubSeqProperties
<1>6. \A i \in 1 .. k : Rest[i] = chunk[index + i]
  BY SMTT(30), <1>1, <1>4
<1> DEFINE a == SubSeq(chunk, 1, index)
           c == SubSeq(chunk, 1, index + k)
           d == SubSeq(Rest, 1, k)
<1>7. /\ a \in Seq(Byte) /\ Len(a) = index /\ \A i \in 1 .. index : a[i] = chunk[i]
      /\ c \in Seq(Byte) /\ Len(c) = index + k /\ \A i \in 1 .. index + k : c[i] = chunk[i]
      /\ d \in Seq(Byte) /\ Len(d) = k /\ \A i \in 1 .. k : d[i] = chunk[index + i]
  BY <1>1, <1>3, <1>5, <1>6
<1> HIDE DEF a, c, d
<1>8. c = a \o d
  <2>1. /\ a \o d \in Seq(Byte) /\ Len(a \o d) = index + k
        /\ \A i \in 1 .. index : (a \o d)[i] = a[i]
        /\ \A i \in 1 .. k : (a \o d)[index + i] = d[i]
    <3>1. a \o d \in Seq(Byte) /\ Len(a \o d) = Len(a) + Len(d)
      BY <1>7
    <3>2. \A i \in 1 .. Len(a) : (a \o d)[i] = a[i]
      BY <1>7
    <3>3. \A i \in 1 .. Len(d) : (a \o d)[Len(a) + i] = d[i]
      BY <1>7
    <3> QED BY <1>7, <3>1, <3>2, <3>3
  <2>2. ASSUME NEW i \in 1 .. index + k PROVE c[i] = (a \o d)[i]
    <3>1. CASE i <= index
      <4>1. i \in 1 .. index
        BY <1>1, <3>1
      <4> QED BY <1>7, <2>1, <4>1
    <3>2. CASE ~(i <= index)
      <4>1. i - index \in 1 .. k /\ index + (i - index) = i
        BY <1>1, <3>2
      <4>2. (a \o d)[i] = d[i - index] /\ d[i - index] = chunk[i]
        BY <1>7, <2>1, <4>1
      <4> QED BY <1>7, <4>2
    <3> QED BY <3>1, <3>2
  <2> QED BY <1>1, <1>7, <2>1, <2>2, SeqEqual
<1>9. fed \o (a \o d) = (fed \o a) \o d
  <2>1. fed \in Seq(Byte) /\ a \in Seq(Byte) /\ d \in Seq(Byte)
    BY <1>1, <1>7
  <2> QED BY <2>1, ConcatAssociative
<1> QED BY <1>4, <1>5, <1>6, <1>8, <1>9 DEF Eaten, a, c, d

(* What the bytes consumed say with the byte at the cursor.                *)
NextRead == ReadAll(plan, Append(Eaten, Input))

LEMMA ReadNext ==
  ASSUME Inv, ReadInv, Reading
  PROVE  /\ NextRead = LET e == Ended(View, Input)
                       IN  IF e.token # None THEN AtScalar(plan, e, Input, offset)
                           ELSE IF e.frames # <<>> THEN AtInside(plan, e, Input, offset)
                           ELSE AtOutside(e, Input, offset)
         /\ token = None => Ended(View, Input) = View
<1> DEFINE r == ReadAll(plan, Eaten)
<1>1. status = "Active" /\ Input \in Byte
  BY ReadingFacts
<1>2. Eaten \in Seq(Byte) /\ Len(Eaten) = offset
  BY <1>1, EatenTyped
<1>3. NextRead = Takes(plan, r, Input, offset)
  BY <1>1, <1>2, ReadOne DEF NextRead
<1>4. Follows(r)
  BY <1>1 DEF ReadInv
<1>5. View.token = token /\ View.state = "reading"
  BY KnownFields DEF View
<1>6. token = None => Ended(View, Input) = View
  BY <1>5 DEF Ended
<1> HIDE DEF r
<1>7. r.state = "reading" /\ Ended(r, Input) = Ended(View, Input)
  <2>1. CASE r = View
    BY <1>5, <2>1
  <2>2. CASE token = None /\ r.state = "reading" /\ Ended(r, Input) = View
    BY <1>5, <1>6, <2>2
  <2> QED BY <1>4, <2>1, <2>2 DEF Follows
<1>8. Takes(plan, r, Input, offset)
        = IF Ended(View, Input).token # None
          THEN AtScalar(plan, Ended(View, Input), Input, offset)
          ELSE IF Ended(View, Input).frames # <<>>
          THEN AtInside(plan, Ended(View, Input), Input, offset)
          ELSE AtOutside(Ended(View, Input), Input, offset)
  <2> DEFINE e == Ended(View, Input)
  <2>1. Ended(r, Input) = e
    BY <1>7
  <2> HIDE DEF e
  <2> QED BY <1>7, <2>1 DEF Takes
<1> QED BY <1>3, <1>6, <1>8

LEMMA ReadScalar ==
  ASSUME Inv, ReadInv, Reading, token # None, Push(token.scalar, Input).advance # "Delimiter"
  PROVE  NextRead = AtScalar(plan, View, Input, offset)
<1>1. View.token = token
  BY KnownFields DEF View
<1>2. Ended(View, Input) = View
  BY <1>1 DEF Ended
<1> QED BY <1>1, <1>2, ReadNext

LEMMA ReadStructure ==
  ASSUME Inv, ReadInv, Structural
  PROVE  NextRead = IF frames # <<>> THEN AtInside(plan, View, Input, offset)
                                     ELSE AtOutside(View, Input, offset)
<1>1. View.token = token /\ View.frames = frames
  BY KnownFields DEF View
<1>2. Ended(View, Input) = View
  BY ReadNext DEF Structural
<1> QED BY <1>1, <1>2, ReadNext DEF Structural

(* The bytes consumed when the cursor moves.                               *)
LEMMA EatsOne ==
  ASSUME Inv, Reading, Advanced(1)
  PROVE  Eaten' = Append(Eaten, Input) /\ plan' = plan /\ status' = status
<1>1. /\ index \in Nat /\ Len(chunk) \in Nat /\ index < Len(chunk) /\ index + 1 \in Nat
      /\ 1 \in 0 .. Len(chunk) - index
  BY InvParts DEF Reading
<1>2. /\ SubSeq(Rest, 1, 1) \in Seq(Byte) /\ Len(SubSeq(Rest, 1, 1)) = 1
      /\ SubSeq(Rest, 1, 1)[1] = chunk[index + 1]
      /\ fed \o SubSeq(chunk, 1, index + 1) = Eaten \o SubSeq(Rest, 1, 1)
  <2>1. /\ SubSeq(Rest, 1, 1) \in Seq(Byte) /\ Len(SubSeq(Rest, 1, 1)) = 1
        /\ \A i \in 1 .. 1 : SubSeq(Rest, 1, 1)[i] = chunk[index + i]
        /\ fed \o SubSeq(chunk, 1, index + 1) = Eaten \o SubSeq(Rest, 1, 1)
    BY <1>1, EatenRest
  <2>2. 1 \in 1 .. 1
    OBVIOUS
  <2> QED BY <2>1, <2>2
<1>3. SubSeq(Rest, 1, 1) = <<Input>>
  <2>1. <<Input>> \in Seq(Byte) /\ Len(<<Input>>) = 1 /\ <<Input>>[1] = Input
    BY ReadingFacts
  <2> DEFINE d == SubSeq(Rest, 1, 1)
  <2>2. d \in Seq(Byte) /\ Len(d) = 1 /\ d[1] = Input
    BY <1>2 DEF Input
  <2> HIDE DEF d
  <2>3. d = <<Input>>
    BY <2>1, <2>2, SeqEqual
  <2> QED BY <2>3 DEF d
<1>4. Eaten' = fed \o SubSeq(chunk, 1, index + 1)
  BY DEF Advanced, Eaten
<1>5. Append(Eaten, Input) = Eaten \o <<Input>>
  BY EatenTyped, ReadingFacts
<1> QED BY <1>2, <1>3, <1>4, <1>5 DEF Advanced

(* A byte is consumed as it is read.                                       *)
LEMMA ConsumesOne ==
  ASSUME Inv, ReadInv, Reading, Advanced(1), NextRead = View'
  PROVE  ReadInv'
<1>1. /\ Eaten' = Append(Eaten, Input) /\ plan' = plan /\ status' = "Active"
      /\ calling' = calling /\ chunk' = chunk /\ fed' = fed /\ calling
  BY EatsOne, ReadingFacts DEF Advanced, Reading
<1>2. ReadAll(plan, Eaten)' = View'
  BY <1>1 DEF NextRead
<1>3. chunk \in Offer(fed)
  BY <1>1, ReadingFacts DEF ReadInv
<1> QED BY <1>1, <1>2, <1>3 DEF ReadInv, Follows

-----------------------------------------------------------------------------
(* The rules of the plan, and the bytes of a scalar.                       *)

LEMMA SameRules ==
  /\ \A n, b : Accepts(plan, n, b) <=> Fits(n, b)
  /\ \A asked, b : Treated(plan, asked, b) = Applied(asked, b)
  /\ \A n, raw : RuleFor(plan, n, raw) = Rule(n, raw)
<1>1. \A n, b : Accepts(plan, n, b) <=> Fits(n, b)
  BY DEF Accepts, Fits, Node
<1>2. \A asked, b : Treated(plan, asked, b) = Applied(asked, b)
  BY <1>1 DEF Treated, Applied
<1>3. ASSUME NEW n, NEW raw PROVE RuleFor(plan, n, raw) = Rule(n, raw)
  <2> DEFINE name   == Decode(raw)
             fields == plan[n + 1].fields
             kind   == plan[fields[name] + 1].kind
  <2>1. CASE name \in DOMAIN fields /\ kind = "Discard"
    <3>1. Rule(n, raw) = Discard
      BY <2>1 DEF Rule, Node
    <3> QED BY <2>1, <3>1 DEF RuleFor
  <2>2. CASE name \in DOMAIN fields /\ kind # "Discard"
    <3>1. Rule(n, raw) = Project(fields[name])
      BY <2>2 DEF Rule, Node
    <3> QED BY <2>2, <3>1 DEF RuleFor
  <2>3. CASE name \notin DOMAIN fields
    <3>1. Rule(n, raw) = IF plan[n + 1].kind = "ExcludeObject" THEN Copy ELSE Discard
      BY <2>3 DEF Rule, Node
    <3> QED BY <2>3, <3>1 DEF RuleFor
  <2> QED BY <2>1, <2>2, <2>3
<1> QED BY <1>1, <1>2, <1>3

LEMMA AppendOne ==
  ASSUME NEW s \in Seq(Byte), NEW b \in Byte
  PROVE  s \o <<b>> = Append(s, b)
  OBVIOUS

LEMMA WritesByte ==
  ASSUME Inv, Reading, NEW destination, NEW b \in Byte, Write(destination, <<b>>)
  PROVE  /\ output' = Added(output, b, destination = "Output")
         /\ key' = Added(key, b, destination = "LookupKey")
<1>1. output \o <<b>> = Append(output, b) /\ key \o <<b>> = Append(key, b)
  BY InvParts, AppendOne
<1> QED BY <1>1 DEF Write, Added

(* What the scalar's byte makes of what is known.                          *)
LEMMA ScalarRead ==
  ASSUME Inv, ReadInv, Reading, token # None
  PROVE  LET push   == Push(token.scalar, Input)
             keyNow == Added(key, Input, token.destination = "LookupKey")
             outNow == Added(output, Input, token.destination = "Output")
         IN  /\ push.advance = "Error" => NextRead = Refused(offset)
             /\ push.advance = "Consumed" =>
                  NextRead = Known(frames, [token EXCEPT !.scalar = push.state],
                                   keyNow, outNow, started)
             /\ push.advance = "Complete" /\ token.key =>
                  NextRead = AtKeyEnd(plan, View, Input)
             /\ push.advance = "Complete" /\ ~token.key =>
                  NextRead = Known(ValueDone(frames), None, keyNow, outNow, started)
<1> DEFINE push == Push(token.scalar, Input)
<1>1. push.advance # "Delimiter" => NextRead = AtScalar(plan, View, Input, offset)
  BY ReadScalar
<1>2. /\ View.token = token /\ View.frames = frames /\ View.key = key
      /\ View.output = output /\ View.started = started
  BY KnownFields DEF View
<1> HIDE DEF push
<1>3. AtScalar(plan, View, Input, offset)
        = CASE push.advance = "Error"    -> Refused(offset)
            [] push.advance = "Consumed" ->
                 Known(frames, [token EXCEPT !.scalar = push.state],
                       Added(key, Input, token.destination = "LookupKey"),
                       Added(output, Input, token.destination = "Output"), started)
            [] push.advance = "Complete" ->
                 IF token.key THEN AtKeyEnd(plan, View, Input)
                 ELSE Known(ValueDone(frames), None,
                            Added(key, Input, token.destination = "LookupKey"),
                            Added(output, Input, token.destination = "Output"), started)
  BY <1>2 DEF AtScalar, push
<1>4. CASE push.advance = "Error"
  BY <1>1, <1>3, <1>4 DEF push
<1>5. CASE push.advance = "Consumed"
  BY <1>1, <1>3, <1>5 DEF push
<1>6. CASE push.advance = "Complete"
  BY <1>1, <1>3, <1>6 DEF push
<1> QED BY <1>4, <1>5, <1>6 DEF push

LEMMA ScalarByteReads ==
  ASSUME Inv, ReadInv, ScalarByte
  PROVE  NextRead = View'
<1>1. Reading /\ token # None /\ Push(token.scalar, Input).advance = "Consumed"
  BY DEF ScalarByte, Scanning
<1>2. /\ output' = Added(output, Input, token.destination = "Output")
      /\ key' = Added(key, Input, token.destination = "LookupKey")
  BY <1>1, ReadingFacts, WritesByte DEF ScalarByte
<1>3. NextRead = Known(frames, [token EXCEPT !.scalar = Push(token.scalar, Input).state],
                       key', output', started)
  BY <1>1, <1>2, ScalarRead
<1> QED BY <1>3 DEF ScalarByte, View

LEMMA ValueEndsReads ==
  ASSUME Inv, ReadInv, ValueEnds
  PROVE  NextRead = View'
<1>1. Reading /\ token # None /\ Push(token.scalar, Input).advance = "Complete" /\ ~token.key
  BY DEF ValueEnds, Scanning
<1>2. /\ output' = Added(output, Input, token.destination = "Output")
      /\ key' = Added(key, Input, token.destination = "LookupKey")
  BY <1>1, ReadingFacts, WritesByte DEF ValueEnds
<1>3. NextRead = Known(ValueDone(frames), None, key', output', started)
  BY <1>1, <1>2, ScalarRead
<1> QED BY <1>3 DEF ValueEnds, View

(* What the end of a key makes of what is known.                           *)
LEMMA KeyRead ==
  LET raw   == Append(key, Input)
      next  == Rule(Top.action.node, raw)
      comma == IF Top.emitted THEN <<Comma>> ELSE <<>>
  IN  AtKeyEnd(plan, View, Input) =
        IF Top.action.mode # "project"
        THEN Known(Replaced(frames, Keyed(Top, Top.action, Top.emitted)), None, <<>>,
                   Added(output, Input, token.destination = "Output"), started)
        ELSE IF IsUtf8(raw)
        THEN Known(Replaced(frames, Keyed(Top, next, Top.emitted \/ next # Discard)), None, <<>>,
                   IF next = Discard THEN output ELSE output \o comma \o raw, started)
        ELSE Refused(token.start + ValidUpTo(raw))
<1>1. /\ View.token = token /\ View.frames = frames /\ View.key = key
      /\ View.output = output /\ View.started = started
  BY KnownFields DEF View
<1>2. RuleFor(plan, Top.action.node, Append(key, Input)) = Rule(Top.action.node, Append(key, Input))
  BY SameRules
<1> QED BY <1>1, <1>2 DEF AtKeyEnd, Top, WithTop, Replaced

LEMMA PlainKeyEndsReads ==
  ASSUME Inv, ReadInv, PlainKeyEnds
  PROVE  NextRead = View'
<1>1. /\ Reading /\ token # None /\ Push(token.scalar, Input).advance = "Complete" /\ token.key
      /\ Top.action.mode # "project"
  BY DEF PlainKeyEnds, Scanning
<1>2. NextRead = AtKeyEnd(plan, View, Input)
  BY <1>1, ScalarRead
<1>3. NextRead = Known(Replaced(frames, Keyed(Top, Top.action, Top.emitted)), None, <<>>,
                       Added(output, Input, token.destination = "Output"), started)
  BY <1>1, <1>2, KeyRead
<1>4. /\ frames' = Replaced(frames, Keyed(Top, Top.action, Top.emitted))
      /\ token' = None /\ key' = <<>> /\ started' = started
      /\ output' = Added(output, Input, token.destination = "Output")
  BY DEF PlainKeyEnds, Replaced, Top, Added
<1> QED BY <1>3, <1>4 DEF View

LEMMA LookupKeyReads ==
  ASSUME Inv, ReadInv, Scanning("Complete"), token.key, Top.action.mode = "project"
  PROVE  NextRead = AtKeyEnd(plan, View, Input)
  BY ScalarRead DEF Scanning

LEMMA LookupKeyEndsReads ==
  ASSUME Inv, ReadInv, LookupKeyEnds
  PROVE  NextRead = View'
<1> DEFINE raw  == Append(key, Input)
           next == Rule(Top.action.node, raw)
           comma == IF Top.emitted THEN <<Comma>> ELSE <<>>
<1>1. Scanning("Complete") /\ token.key /\ Top.action.mode = "project" /\ IsUtf8(raw)
  BY DEF LookupKeyEnds
<1>2. NextRead = Known(Replaced(frames, Keyed(Top, next, Top.emitted \/ next # Discard)),
                       None, <<>>, IF next = Discard THEN output ELSE output \o comma \o raw,
                       started)
  BY <1>1, LookupKeyReads, KeyRead
<1>3. /\ frames' = Replaced(frames, Keyed(Top, next, Top.emitted \/ next # Discard))
      /\ token' = None /\ key' = <<>> /\ started' = started
      /\ output' = IF next = Discard THEN output ELSE output \o comma \o raw
  BY DEF LookupKeyEnds, Replaced, Top
<1> QED BY <1>2, <1>3 DEF View

LEMMA RefusedFacts ==
  ASSUME NEW at PROVE Refused(at).state = "refused" /\ Refused(at).at = at
  BY DEF Refused

LEMMA LookupKeyBrokenReads ==
  ASSUME Inv, ReadInv, LookupKeyBroken
  PROVE  NextRead = Refused(token.start + ValidUpTo(Append(key, Input)))
<1>1. /\ Scanning("Complete") /\ token.key /\ Top.action.mode = "project"
      /\ ~IsUtf8(Append(key, Input))
  BY DEF LookupKeyBroken
<1> QED BY <1>1, LookupKeyReads, KeyRead

LEMMA BadByteReads ==
  ASSUME Inv, ReadInv, BadByte
  PROVE  NextRead = Refused(offset)
  BY ScalarRead DEF BadByte, Scanning

(* While a scalar is read the engine knows all its bytes say.              *)
LEMMA InScalar ==
  ASSUME Inv, ReadInv, Reading, token # None
  PROVE  ReadAll(plan, Eaten) = View
  BY ReadingFacts DEF ReadInv, Follows

LEMMA NumberEndsReads ==
  ASSUME Inv, ReadInv, NumberEnds
  PROVE  ReadInv'
<1>1. /\ Reading /\ token # None /\ Push(token.scalar, Input).advance = "Delimiter"
      /\ status = "Active"
  BY ReadingFacts DEF NumberEnds, Scanning
<1>2. /\ token' = None /\ frames' = ValueDone(frames) /\ key' = key /\ output' = output
      /\ started' = started /\ plan' = plan /\ status' = status /\ calling' = calling
      /\ chunk' = chunk /\ index' = index /\ fed' = fed
  BY DEF NumberEnds, call
<1>3. /\ View.token = token /\ View.frames = frames /\ View.key = key
      /\ View.output = output /\ View.started = started /\ View.state = "reading"
  BY KnownFields DEF View
<1>4. Ended(View, Input) = Known(ValueDone(frames), None, key, output, started)
  BY <1>1, <1>3 DEF Ended
<1>5. View' = Ended(View, Input)
  BY <1>2, <1>4 DEF View
<1>6. Eaten' = Eaten /\ Input' = Input /\ Reading'
  BY <1>1, <1>2 DEF Eaten, Input, Reading
<1>7. ReadAll(plan, Eaten)' = View
  BY <1>1, <1>2, <1>6, InScalar
<1> DEFINE r == ReadAll(plan, Eaten)
<1>8. Ended(r', Input') = View' /\ r'.state = "reading"
  BY <1>3, <1>5, <1>6, <1>7
<1> HIDE DEF r
<1>9. Follows(r)'
  BY <1>2, <1>6, <1>8 DEF Follows
<1>10. calling' => chunk' \in Offer(fed')
  BY <1>1, <1>2 DEF ReadInv
<1> QED BY <1>9, <1>10 DEF ReadInv, r

(* One element more of a sequence.                                         *)
LEMMA SubSeqAppended ==
  ASSUME NEW s \in Seq(Byte), NEW k \in 1 .. Len(s)
  PROVE  /\ SubSeq(s, 1, k) = Append(SubSeq(s, 1, k - 1), s[k])
         /\ SubSeq(s, 1, k - 1) \in Seq(Byte)
<1>1. /\ Len(s) \in Nat /\ 1 \in 1 .. Len(s) /\ k \in 1 .. Len(s)
      /\ 1 \in Int /\ k - 1 \in Int
  OBVIOUS
<1>2. SubSeq(s, 1, k) = SubSeq(s, 1, k - 1) \o <<s[k]>>
  BY <1>1, SubSeqRecursiveSecond
<1>3. SubSeq(s, 1, k - 1) \in Seq(Byte) /\ s[k] \in Byte
  <2>1. s[k] \in Byte /\ \A j \in 1 .. k - 1 : s[j] \in Byte
    BY <1>1, ElementOfSeq
  <2> QED BY <1>1, <2>1, SubSeqProperties
<1> DEFINE d == SubSeq(s, 1, k - 1)
<1> HIDE DEF d
<1>4. d \o <<s[k]>> = Append(d, s[k])
  BY <1>3, AppendOne DEF d
<1> QED BY <1>2, <1>3, <1>4 DEF d

(* What is known after k bytes of a span.                                  *)
Spanned(k) ==
  Known(frames, token,
        IF token.destination = "LookupKey" THEN key \o SubSeq(Rest, 1, k) ELSE key,
        IF token.destination = "Output" THEN output \o SubSeq(Rest, 1, k) ELSE output,
        started)

LEMMA SpannedByte ==
  ASSUME Inv, token # None, NEW k \in 1 .. Len(chunk) - index,
         NEW b \in Byte, b = Rest[k], SpanByte(token.scalar, b), NEW n \in Nat
  PROVE  Takes(plan, Spanned(k - 1), b, n) = Spanned(k)
<1> DEFINE d == SubSeq(Rest, 1, k - 1)
           e == SubSeq(Rest, 1, k)
           r == Spanned(k - 1)
<1>1. /\ Len(chunk) \in Nat /\ index \in Nat /\ k \in Nat /\ k - 1 \in 0 .. Len(chunk) - index
      /\ k \in 0 .. Len(chunk) - index /\ Len(Rest) = Len(chunk) - index
      /\ k \in 1 .. Len(Rest)
  BY InvParts, EatenRest
<1>2. e = Append(d, b) /\ d \in Seq(Byte)
  <2>1. Rest \in Seq(Byte)
    BY <1>1, EatenRest
  <2> QED BY <1>1, <2>1, SubSeqAppended
<1>3. /\ r.token = token /\ r.frames = frames /\ r.started = started /\ r.state = "reading"
      /\ r.key = IF token.destination = "LookupKey" THEN key \o d ELSE key
      /\ r.output = IF token.destination = "Output" THEN output \o d ELSE output
  BY KnownFields DEF Spanned
<1>4. Push(token.scalar, b) = Consumed(token.scalar)
  BY TokenFacts, SpanSound, InvParts DEF Token
<1>5. /\ Push(token.scalar, b).advance = "Consumed"
      /\ Push(token.scalar, b).state = token.scalar
  BY <1>4 DEF Consumed
<1>6. [token EXCEPT !.scalar = token.scalar] = token
  <2>1. token \in Token
    BY InvParts
  <2> QED BY <2>1 DEF Token
<1> HIDE DEF r, d, e
<1>7. Ended(r, b) = r
  BY <1>3, <1>5 DEF Ended
<1>8. Takes(plan, r, b, n) = AtScalar(plan, r, b, n)
  BY <1>3, <1>7 DEF Takes
<1>9. AtScalar(plan, r, b, n)
        = Known(frames, token, Added(r.key, b, token.destination = "LookupKey"),
                Added(r.output, b, token.destination = "Output"), started)
  BY <1>3, <1>5, <1>6 DEF AtScalar
<1>10. Append(key \o d, b) = key \o e /\ Append(output \o d, b) = output \o e
  <2>1. key \in Seq(Byte) /\ output \in Seq(Byte)
    BY InvParts
  <2>2. \A s \in Seq(Byte) : Append(s \o d, b) = s \o Append(d, b)
    BY <1>2
  <2> QED BY <1>2, <2>1, <2>2
<1>11. /\ Added(r.key, b, token.destination = "LookupKey")
            = IF token.destination = "LookupKey" THEN key \o e ELSE key
       /\ Added(r.output, b, token.destination = "Output")
            = IF token.destination = "Output" THEN output \o e ELSE output
  BY <1>3, <1>10 DEF Added
<1> QED BY <1>8, <1>9, <1>11 DEF Spanned, e, r

LEMMA SpanReads ==
  ASSUME Inv, ReadInv, Span
  PROVE  ReadInv'
<1> DEFINE step(k) == ReadAll(plan, Eaten \o SubSeq(Rest, 1, k)) = Spanned(k)
<1>1. PICK n \in 1 .. Len(Rest) :
        /\ IsSpan(token.scalar, Rest, n)
        /\ Write(token.destination, SubSeq(Rest, 1, n))
        /\ Advanced(n)
  BY DEF Span
<1>2. Reading /\ token # None /\ status = "Active"
  BY ReadingFacts DEF Span
<1>3. /\ Len(chunk) \in Nat /\ index \in Nat /\ n \in Nat /\ n \in 1 .. Len(chunk) - index
      /\ n \in 0 .. Len(chunk) - index /\ Len(Rest) = Len(chunk) - index /\ Rest \in Seq(Byte)
      /\ 0 \in 0 .. Len(chunk) - index
  <2>1. Len(chunk) \in Nat /\ index \in 0 .. Len(chunk) /\ index \in Nat
    BY InvParts
  <2>2. 0 \in 0 .. Len(chunk) - index
    BY <2>1
  <2>3. Rest \in Seq(Byte) /\ Len(Rest) = Len(chunk) - index
    BY <2>2, EatenRest
  <2> QED BY <2>1, <2>2, <2>3
<1>4. step(0)
  <2>1. SubSeq(Rest, 1, 0) = <<>>
    BY SubSeqEmpty
  <2>2. Eaten \o <<>> = Eaten /\ key \o <<>> = key /\ output \o <<>> = output
    BY InvParts, EatenTyped
  <2>3. Spanned(0) = View
    BY <2>1, <2>2 DEF Spanned, View
  <2> QED BY <1>2, <2>1, <2>2, <2>3, InScalar
<1>5. ASSUME NEW k \in 1 .. n, step(k - 1) PROVE step(k)
  <2>1. /\ k \in 1 .. Len(chunk) - index /\ k - 1 \in 0 .. Len(chunk) - index
        /\ k \in 1 .. Len(Rest) /\ k \in Nat /\ k \in 0 .. Len(chunk) - index
    BY <1>3
  <2>2. Rest[k] \in Byte /\ SpanByte(token.scalar, Rest[k])
    BY <1>1, <1>3, <2>1, ElementOfSeq DEF IsSpan
  <2> DEFINE b == Rest[k]
             x == Eaten \o SubSeq(Rest, 1, k - 1)
  <2>3. x \in Seq(Byte) /\ Len(x) \in Nat
    <3>1. SubSeq(Rest, 1, k - 1) \in Seq(Byte)
      BY <2>1, EatenRest
    <3> QED BY <3>1, EatenTyped
  <2>4. Eaten \o SubSeq(Rest, 1, k) = Append(x, b)
    <3>1. SubSeq(Rest, 1, k) = Append(SubSeq(Rest, 1, k - 1), b)
      BY <1>3, <2>1, <2>2, SubSeqAppended
    <3>2. SubSeq(Rest, 1, k - 1) \in Seq(Byte)
      BY <2>1, EatenRest
    <3> QED BY <3>1, <3>2, <2>2, EatenTyped
  <2>5. ReadAll(plan, Append(x, b)) = Takes(plan, ReadAll(plan, x), b, Len(x))
    BY <2>2, <2>3, ReadOne
  <2>6. Takes(plan, Spanned(k - 1), b, Len(x)) = Spanned(k)
    BY <1>2, <2>1, <2>2, <2>3, SpannedByte
  <2> QED BY <1>5, <2>4, <2>5, <2>6
<1>6. step(n)
  <2> DEFINE T == { k \in Nat : k <= n /\ ~step(k) }
  <2> SUFFICES T = {}
    BY <1>3
  <2> SUFFICES ASSUME T # {} PROVE FALSE
    OBVIOUS
  <2> HIDE DEF step
  <2>1. PICK k \in T : \A j \in T : k <= j
    <3>1. T \in SUBSET Nat
      OBVIOUS
    <3> HIDE DEF T
    <3> QED BY <3>1, Least
  <2>2. k # 0
    BY <1>4
  <2>3. k \in Nat /\ k - 1 \in Nat /\ ~(k <= k - 1) /\ k - 1 <= n /\ k \in 1 .. n
    BY <1>3, <2>2
  <2>4. step(k - 1)
    <3>1. k - 1 \notin T
      <4> HIDE DEF T
      <4> QED BY <2>1, <2>3
    <3> QED BY <2>3, <3>1
  <2> QED BY <1>5, <2>3, <2>4
<1>7. /\ Eaten' = Eaten \o SubSeq(Rest, 1, n) /\ plan' = plan /\ status' = "Active"
      /\ calling' = calling /\ chunk' = chunk /\ fed' = fed /\ calling
  <2>1. fed \o SubSeq(chunk, 1, index + n) = Eaten \o SubSeq(Rest, 1, n)
    BY <1>3, EatenRest
  <2> QED BY <1>1, <1>2, <2>1 DEF Advanced, Eaten, Reading
<1>8. View' = Spanned(n)
  BY <1>1 DEF Span, Write, View, Spanned
<1>9. ReadAll(plan, Eaten)' = View'
  BY <1>6, <1>7, <1>8
<1>10. chunk \in Offer(fed)
  BY <1>2, <1>7 DEF ReadInv
<1> QED BY <1>7, <1>9, <1>10 DEF ReadInv, Follows

-----------------------------------------------------------------------------
(* Structural bytes.                                                       *)

(* What a byte outside of the root makes of what is known.                 *)
LEMMA OutsideRead ==
  ASSUME Inv, ReadInv, Structural, frames = <<>>
  PROVE  /\ Input \in Whitespace => NextRead = View
         /\ Input = LBrace /\ ~started =>
              NextRead = Known(<<NewFrame(Project(0), LBrace)>>, None, key,
                               Append(output, LBrace), TRUE)
         /\ Input \notin Whitespace /\ (Input # LBrace \/ started) =>
              NextRead = Refused(offset)
<1>1. NextRead = AtOutside(View, Input, offset)
  BY ReadStructure
<1>2. View.key = key /\ View.output = output /\ View.started = started
  BY KnownFields DEF View
<1>3. LBrace \notin Whitespace
  BY DEF LBrace, Whitespace
<1>4. CASE Input \in Whitespace
  BY <1>1, <1>3, <1>4 DEF AtOutside
<1>5. CASE Input = LBrace /\ ~started
  BY <1>1, <1>2, <1>3, <1>5 DEF AtOutside
<1>6. CASE Input \notin Whitespace /\ (Input # LBrace \/ started)
  BY <1>1, <1>2, <1>6 DEF AtOutside
<1> QED BY <1>3, <1>4, <1>5, <1>6

(* What a byte inside a container makes of what is known.                  *)
LEMMA InsideRead ==
  ASSUME Inv, ReadInv, Inside
  PROVE  NextRead =
           IF Input \in Whitespace
           THEN Known(frames, None, key, Added(output, Input, KeptSpace(Top)), started)
           ELSE IF Closing
           THEN Known(ValueDone(SubSeq(frames, 1, Len(frames) - 1)), None, key,
                      Added(output, Input, Top.action # Discard), started)
           ELSE IF Top.expect \in ValueExpect
           THEN AtValue(plan, View, Top, Input, offset)
           ELSE AtMember(View, Top, Input, offset)
<1>1. NextRead = AtInside(plan, View, Input, offset)
  BY ReadStructure DEF Inside
<1>2. /\ View.frames = frames /\ View.key = key /\ View.output = output
      /\ View.started = started
  BY KnownFields DEF View
<1>3. IsClose(Top, Input) <=> Closing
  BY DEF IsClose, Closing
<1>4. frames[Len(frames)] = Top
  BY DEF Top
<1> QED BY <1>1, <1>2, <1>3, <1>4 DEF AtInside

LEMMA OuterSpaceReads ==
  ASSUME Inv, ReadInv, OuterSpace
  PROVE  NextRead = View'
  BY OutsideRead DEF OuterSpace, View

LEMMA OpenRootReads ==
  ASSUME Inv, ReadInv, OpenRoot
  PROVE  NextRead = View'
<1>1. frames = <<>>
  BY InvParts DEF OpenRoot, Bounded
<1>2. NextRead = Known(<<NewFrame(Project(0), LBrace)>>, None, key, Append(output, LBrace), TRUE)
  BY <1>1, OutsideRead DEF OpenRoot
<1> QED BY <1>2 DEF OpenRoot, View, Structural

LEMMA BadRootReads ==
  ASSUME Inv, ReadInv, BadRoot \/ TrailingInput
  PROVE  NextRead = Refused(offset)
<1>1. CASE BadRoot
  <2>1. frames = <<>>
    BY <1>1, InvParts DEF BadRoot, Bounded
  <2> QED BY <1>1, <2>1, OutsideRead DEF BadRoot
<1>2. CASE TrailingInput
  BY <1>2, OutsideRead DEF TrailingInput, Outside
<1> QED BY <1>1, <1>2

LEMMA InnerSpaceReads ==
  ASSUME Inv, ReadInv, InnerSpace
  PROVE  NextRead = View'
<1>1. Inside /\ token = None /\ Input \in Whitespace
  BY DEF InnerSpace, Inside, Structural
<1>2. KeptSpace(Top) <=> KeepsSpace
  BY DEF KeptSpace, KeepsSpace
<1>3. NextRead = Known(frames, None, key, Added(output, Input, KeepsSpace), started)
  <2>1. Added(output, Input, KeptSpace(Top)) = Added(output, Input, KeepsSpace)
    BY <1>2 DEF Added
  <2> QED BY <1>1, <2>1, InsideRead
<1>4. output' = Added(output, Input, KeepsSpace)
  BY DEF InnerSpace, Added
<1> QED BY <1>1, <1>3, <1>4 DEF InnerSpace, View

LEMMA CloseReads ==
  ASSUME Inv, ReadInv, Close
  PROVE  NextRead = View'
<1>1. Inside /\ token = None /\ Closing
  BY DEF Close, Inside, Structural
<1>2. Input \notin Whitespace
  BY <1>1 DEF Closing, Whitespace, RBrace, RBracket
<1>3. NextRead = Known(ValueDone(SubSeq(frames, 1, Len(frames) - 1)), None, key,
                       Added(output, Input, Top.action # Discard), started)
  BY <1>1, <1>2, InsideRead
<1>4. output' = Added(output, Input, Top.action # Discard)
  BY DEF Close, Added
<1> QED BY <1>1, <1>3, <1>4 DEF Close, View

(* Where a value is not due, a member or a comma is.                       *)
LEMMA MemberRead ==
  ASSUME Inv, ReadInv, Inside, Input \notin Whitespace, ~Closing, Top.expect \notin ValueExpect
  PROVE  LET mode        == Top.action.mode
             destination == CASE mode = "copy"    -> "Output"
                              [] mode = "discard" -> "Discard"
                              [] mode = "project" -> "LookupKey"
         IN  NextRead =
               CASE Top.expect \in {"ObjectFirst", "ObjectKey"} /\ Input = Quote ->
                      Known(frames, [scalar |-> Start(Quote), destination |-> destination,
                                     key |-> TRUE, start |-> offset],
                            Added(key, Input, mode = "project"),
                            Added(output, Input, mode = "copy"), started)
                 [] Top.expect = "Colon" /\ Input = Colon ->
                      Known(Expecting(frames, "ObjectValue"), None, key,
                            Added(output, Input, Top.next # Discard), started)
                 [] Top.expect \in {"ObjectComma", "ArrayComma"} /\ Input = Comma ->
                      Known(Expecting(frames, IF Top.expect = "ObjectComma" THEN "ObjectKey"
                                                                            ELSE "ArrayValue"),
                            None, key, Added(output, Input, Top.action = Copy), started)
                 [] OTHER -> Refused(offset)
<1>1. NextRead = AtMember(View, Top, Input, offset)
  BY InsideRead
<1>2. /\ View.frames = frames /\ View.key = key /\ View.output = output
      /\ View.started = started
  BY KnownFields DEF View
<1> QED BY <1>1, <1>2 DEF AtMember

LEMMA BeginKeyReads ==
  ASSUME Inv, ReadInv, BeginKey
  PROVE  NextRead = View'
<1> DEFINE mode        == Top.action.mode
           destination == CASE mode = "copy"    -> "Output"
                            [] mode = "discard" -> "Discard"
                            [] mode = "project" -> "LookupKey"
<1>1. /\ Inside /\ Reading /\ token = None /\ Input = Quote /\ Quote \in Byte
      /\ Top.expect \in {"ObjectFirst", "ObjectKey"}
  BY BytesTyped DEF BeginKey, Inside, Structural
<1>2. /\ Input \notin Whitespace /\ ~Closing /\ Top.expect \notin ValueExpect
  BY <1>1 DEF Closing, Whitespace, RBrace, RBracket, Quote, ValueExpect
<1>3. NextRead = Known(frames, [scalar |-> Start(Quote), destination |-> destination,
                                key |-> TRUE, start |-> offset],
                       Added(key, Input, mode = "project"),
                       Added(output, Input, mode = "copy"), started)
  BY <1>1, <1>2, MemberRead
<1>4. /\ token' = [scalar |-> Start(Quote), destination |-> destination,
                   key |-> TRUE, start |-> offset]
      /\ Write(destination, <<Quote>>) /\ frames' = frames /\ started' = started
  BY DEF BeginKey
<1>5. mode \in {"copy", "discard", "project"}
  <2>1. Top \in Frame
    BY <1>1, InvParts, TopFacts DEF Top, Inside
  <2> QED BY <2>1 DEF Frame, Action
<1>6. /\ destination = "Output" <=> mode = "copy"
      /\ destination = "LookupKey" <=> mode = "project"
  BY <1>5
<1> HIDE DEF destination
<1>7. /\ output' = Added(output, Input, mode = "copy")
      /\ key' = Added(key, Input, mode = "project")
  BY <1>1, <1>4, <1>6, WritesByte
<1> QED BY <1>3, <1>4, <1>7 DEF View

LEMMA ReadColonReads ==
  ASSUME Inv, ReadInv, ReadColon
  PROVE  NextRead = View'
<1>1. /\ Inside /\ token = None /\ Input = Colon /\ Top.expect = "Colon"
  BY DEF ReadColon, Inside, Structural
<1>2. /\ Input \notin Whitespace /\ ~Closing /\ Top.expect \notin ValueExpect
  BY <1>1 DEF Closing, Whitespace, Colon, ValueExpect
<1>3. NextRead = Known(Expecting(frames, "ObjectValue"), None, key,
                       Added(output, Input, Top.next # Discard), started)
  BY <1>1, <1>2, MemberRead
<1>4. output' = Added(output, Input, Top.next # Discard)
  BY <1>1 DEF ReadColon, Added
<1> QED BY <1>1, <1>3, <1>4 DEF ReadColon, View

LEMMA ReadCommaReads ==
  ASSUME Inv, ReadInv, ReadComma
  PROVE  NextRead = View'
<1>1. /\ Inside /\ token = None /\ Input = Comma
      /\ Top.expect \in {"ObjectComma", "ArrayComma"}
  BY DEF ReadComma, Inside, Structural
<1>2. /\ Input \notin Whitespace /\ ~Closing /\ Top.expect \notin ValueExpect
  BY <1>1 DEF Closing, Whitespace, Comma, RBrace, RBracket, ValueExpect
<1>3. NextRead = Known(Expecting(frames, IF Top.expect = "ObjectComma" THEN "ObjectKey"
                                                                       ELSE "ArrayValue"),
                       None, key, Added(output, Input, Top.action = Copy), started)
  BY <1>1, <1>2, MemberRead
<1>4. output' = Added(output, Input, Top.action = Copy)
  BY <1>1 DEF ReadComma, Added
<1> QED BY <1>1, <1>3, <1>4 DEF ReadComma, View

LEMMA MisplacedReads ==
  ASSUME Inv, ReadInv, Misplaced
  PROVE  NextRead = Refused(offset)
<1>1. Inside /\ Input \notin Whitespace /\ ~Closing
  BY DEF Misplaced
<1>2. /\ Top.expect \notin ValueExpect
      /\ ~(Top.expect \in {"ObjectFirst", "ObjectKey"} /\ Input = Quote)
      /\ ~(Top.expect = "Colon" /\ Input = Colon)
      /\ ~(Top.expect \in {"ObjectComma", "ArrayComma"} /\ Input = Comma)
  BY DEF Misplaced, ValueExpect
<1> QED BY <1>1, <1>2, MemberRead

-----------------------------------------------------------------------------
(* Values.                                                                 *)

LEMMA ValueRead ==
  ASSUME Inv, ReadInv, ValueDue
  PROVE  LET action == Applied(Asked, Input)
             out    == Added(Separated, Input, action # Discard)
         IN  NextRead =
               CASE Input \in {LBrace, LBracket} /\ Room ->
                      Known(Append(Parents, NewFrame(action, Input)), None, key, out, started)
                 [] Input \notin {LBrace, LBracket} /\ Startable(Input) ->
                      Known(Parents, [scalar |-> Start(Input), key |-> FALSE, start |-> offset,
                                      destination |-> IF action = Discard THEN "Discard"
                                                                          ELSE "Output"],
                            key, out, started)
                 [] OTHER -> Refused(offset)
<1> DEFINE action  == Applied(Asked, Input)
           asked   == CASE Top.expect = "ObjectValue" -> Top.next
                        [] ProjectedElement -> Project(plan[Top.action.node + 1].child)
                        [] OTHER -> Top.action
<1>1. /\ Inside /\ Input \notin Whitespace /\ Top.expect \in ValueExpect
      /\ Top.expect = "ArrayFirst" => Input # RBracket
  BY DEF ValueDue, ValueExpect
<1>2. ~Closing
  BY <1>1 DEF Closing, ValueExpect
<1>3. NextRead = AtValue(plan, View, Top, Input, offset)
  BY <1>1, <1>2, InsideRead
<1>4. /\ View.frames = frames /\ View.key = key /\ View.output = output
      /\ View.started = started
  BY KnownFields DEF View
<1>5. Treated(plan, asked, Input) = action
  <2>1. asked = Asked
    BY DEF Asked, Node
  <2> QED BY <2>1, SameRules
<1>6. (IF ProjectedElement THEN WithTop(frames, [Top EXCEPT !.emitted = TRUE]) ELSE frames)
        = Parents
  BY DEF Parents, WithTop, Top
<1>7. Added(output, Comma, ProjectedElement /\ Top.emitted) = Separated
  BY DEF Added, Separated
<1>8. Len(frames) < MaxDepth <=> Room
  BY DEF Room
<1> HIDE DEF action
<1>9. AtValue(plan, View, Top, Input, offset)
        = LET element == Top.expect # "ObjectValue" /\ Top.action.mode = "project"
              treated == Treated(plan, CASE Top.expect = "ObjectValue" -> Top.next
                                         [] element -> Project(plan[Top.action.node + 1].child)
                                         [] OTHER   -> Top.action, Input)
              stack == IF element THEN WithTop(frames, [Top EXCEPT !.emitted = TRUE]) ELSE frames
              out == Added(Added(output, Comma, element /\ Top.emitted), Input, treated # Discard)
          IN  CASE Input \in {LBrace, LBracket} /\ Len(frames) < MaxDepth ->
                     Known(Append(stack, NewFrame(treated, Input)), None, key, out, started)
                [] Input \notin {LBrace, LBracket} /\ Startable(Input) ->
                     Known(stack, [scalar |-> Start(Input), key |-> FALSE, start |-> offset,
                                   destination |-> IF treated = Discard THEN "Discard" ELSE "Output"],
                           key, out, started)
                [] OTHER -> Refused(offset)
  BY <1>4 DEF AtValue
<1> QED BY <1>3, <1>5, <1>6, <1>7, <1>8, <1>9 DEF ProjectedElement, action

LEMMA OpenReads ==
  ASSUME Inv, ReadInv, Open
  PROVE  NextRead = View'
<1> DEFINE action == Applied(Asked, Input)
<1>1. ValueDue /\ token = None /\ Input \in {LBrace, LBracket} /\ Room
  BY DEF Open, ValueDue, Inside, Structural
<1>2. NextRead = Known(Append(Parents, NewFrame(action, Input)), None, key,
                       Added(Separated, Input, action # Discard), started)
  BY <1>1, ValueRead
<1>3. output' = Added(Separated, Input, action # Discard)
  BY DEF Open, Added
<1> QED BY <1>1, <1>2, <1>3 DEF Open, View

LEMMA BeginScalarReads ==
  ASSUME Inv, ReadInv, BeginScalar
  PROVE  NextRead = View'
<1> DEFINE action == Applied(Asked, Input)
<1>1. ValueDue /\ Startable(Input)
  BY DEF BeginScalar
<1>2. Input \notin {LBrace, LBracket}
  BY <1>1 DEF Startable, Digits, LBrace, LBracket, Quote, LowerT, LowerF, LowerN, UpperN,
              UpperI, Minus
<1>3. NextRead = Known(Parents, [scalar |-> Start(Input), key |-> FALSE, start |-> offset,
                                 destination |-> IF action = Discard THEN "Discard"
                                                                     ELSE "Output"],
                       key, Added(Separated, Input, action # Discard), started)
  BY <1>1, <1>2, ValueRead
<1> HIDE DEF action
<1>4. /\ output' = Added(Separated, Input, action # Discard)
      /\ token' = [scalar |-> Start(Input), key |-> FALSE, start |-> offset,
                   destination |-> IF action = Discard THEN "Discard" ELSE "Output"]
      /\ frames' = Parents /\ key' = key /\ started' = started
  BY DEF BeginScalar, Added, action
<1> QED BY <1>3, <1>4 DEF View

LEMMA BadValueReads ==
  ASSUME Inv, ReadInv, BadValue \/ TooDeep
  PROVE  NextRead = Refused(offset)
  BY ValueRead DEF BadValue, TooDeep

-----------------------------------------------------------------------------
(* The calls, and what the contract makes of a step.                       *)

(* The promise of a reading is what the contract asks for.                 *)
LEMMA DeservedFacts ==
  ASSUME NEW bytes, NEW p
  PROVE  LET r == ReadAll(p, bytes)
             v == Deserved(bytes, p)
         IN  /\ v.r = "bad" <=> r.state = "refused"
             /\ v.at = r.at /\ v.out = r.output
             /\ r.state # "refused" =>
                  (v.r = "ok" <=> /\ r.started /\ r.frames = <<>>
                                  /\ r.token = None \/ CanFinish(r.token.scalar))
  BY DEF Deserved

LEMMA AppendConcat ==
  ASSUME NEW s \in Seq(Byte), NEW u \in Seq(Byte), NEW b \in Byte
  PROVE  Append(s \o u, b) = s \o Append(u, b)
<1>1. s \o u \in Seq(Byte) /\ <<b>> \in Seq(Byte)
  OBVIOUS
<1>2. Append(s \o u, b) = (s \o u) \o <<b>> /\ Append(u, b) = u \o <<b>>
  BY <1>1, AppendOne
<1> QED BY <1>1, <1>2, ConcatAssociative

(* A sequence is what comes first and the rest.                            *)
LEMMA SequenceSplits ==
  ASSUME NEW s \in Seq(Byte), NEW i \in 1 .. Len(s)
  PROVE  LET a == SubSeq(s, 1, i)
             y == SubSeq(s, i + 1, Len(s))
         IN  s = a \o y /\ a \in Seq(Byte) /\ y \in Seq(Byte)
<1>1. /\ Len(s) \in Nat /\ 1 \in 1 .. Len(s) + 1 /\ i \in 1 - 1 .. Len(s)
      /\ Len(s) \in i .. Len(s)
  OBVIOUS
<1>2. SubSeq(s, 1, i) \o SubSeq(s, i + 1, Len(s)) = SubSeq(s, 1, Len(s))
  BY <1>1, ConcatAdjacentSubSeq
<1>3. SubSeq(s, 1, Len(s)) = s
  BY SubSeqFull
<1>4. SubSeq(s, 1, i) \in Seq(Byte) /\ SubSeq(s, i + 1, Len(s)) \in Seq(Byte)
  <2>1. /\ \A j \in 1 .. i : s[j] \in Byte
        /\ \A j \in i + 1 .. Len(s) : s[j] \in Byte
    BY <1>1, ElementOfSeq
  <2> QED BY <1>1, <2>1, SubSeqProperties
<1> QED BY <1>2, <1>3, <1>4

(* A feed that fails does as the contract says.                            *)
LEMMA FailureKept ==
  ASSUME Inv, ReadInv, Reading, NEW at, Fail(at), NextRead = Refused(at)
  PROVE  PerByte!Next /\ ReadInv'
<1>1. status = "Active" /\ Input \in Byte /\ calling /\ chunk \in Offer(fed)
  BY ReadingFacts DEF ReadInv, Reading
<1> DEFINE x == Append(Eaten, Input)
           m == Len(chunk) - index
           y == SubSeq(chunk, index + 2, Len(chunk))
<1>2. fed \o chunk = x \o y /\ x \in Seq(Byte) /\ y \in Seq(Byte)
  <2>1. /\ Len(chunk) \in Nat /\ index \in Nat /\ index < Len(chunk) /\ chunk \in Seq(Byte)
        /\ fed \in Seq(Byte)
    BY InvParts DEF Reading
  <2>2. Eaten \in Seq(Byte) /\ x \in Seq(Byte)
    BY <1>1, EatenTyped
  <2> DEFINE i == index + 1
             a == SubSeq(chunk, 1, i)
  <2>3. i \in 1 .. Len(chunk) /\ i - 1 = index /\ chunk[i] = Input
    BY <2>1 DEF Input
  <2>4. a = Append(SubSeq(chunk, 1, index), Input) /\ SubSeq(chunk, 1, index) \in Seq(Byte)
    BY <2>1, <2>3, SubSeqAppended
  <2>5. x = fed \o a
    <3>1. \A u \in Seq(Byte) : Append(fed \o u, Input) = fed \o Append(u, Input)
      BY <1>1, <2>1, AppendConcat
    <3> QED BY <2>4, <3>1 DEF Eaten
  <2>6. chunk = a \o y /\ a \in Seq(Byte) /\ y \in Seq(Byte)
    <3>1. y = SubSeq(chunk, i + 1, Len(chunk))
      <4>1. i + 1 = index + 2
        BY <2>1
      <4> QED BY <4>1
    <3> QED BY <2>1, <2>3, <3>1, SequenceSplits
  <2>7. fed \o (a \o y) = (fed \o a) \o y
    <3> HIDE DEF a, y
    <3> QED BY SMTT(30), <2>1, <2>6, ConcatAssociative
  <2> QED BY <2>2, <2>5, <2>6, <2>7
<1>3. ReadAll(plan, x) = Refused(at) /\ ReadAll(plan, x).state = "refused"
  BY RefusedFacts DEF NextRead
<1>4. ReadAll(plan, fed \o chunk) = Refused(at)
  BY <1>2, <1>3, BadStays
<1>5. Deserved(fed \o chunk, plan).r = "bad" /\ Deserved(fed \o chunk, plan).at = at
  BY <1>4, DeservedFacts, RefusedFacts
<1>6. fed \o chunk # <<>>
  <2>1. Len(chunk) \in Nat /\ index \in Nat /\ index < Len(chunk) /\ fed \in Seq(Byte)
        /\ chunk \in Seq(Byte) /\ Len(fed) \in Nat
    BY InvParts DEF Reading
  <2>2. Len(fed \o chunk) = Len(fed) + Len(chunk)
    BY <2>1
  <2>3. Len(fed \o chunk) # 0
    BY <2>1, <2>2
  <2> QED BY <2>3
<1>7. /\ status' = "Failed" /\ plan' = plan /\ fed' = fed \o chunk
      /\ reply' = ParseError(at)
  BY DEF Fail, Return
<1>8. PerByte!Feed(chunk)
  BY <1>1, <1>5, <1>6, <1>7 DEF PerByte!Feed, PerByte!ParseError, ParseError
<1> QED BY <1>1, <1>7, <1>8 DEF PerByte!Next, ReadInv

LEMMA FeedReturnsKept ==
  ASSUME Inv, ReadInv, FeedReturns
  PROVE  PerByte!Next /\ ReadInv'
<1>1. calling /\ index = Len(chunk) /\ status = "Active" /\ chunk \in Offer(fed)
  BY InvParts DEF FeedReturns, Settled, ReadInv
<1>2. Eaten = fed \o chunk
  <2>1. SubSeq(chunk, 1, Len(chunk)) = chunk
    BY InvParts
  <2> QED BY <1>1, <2>1 DEF Eaten
<1>3. ReadAll(plan, fed \o chunk) = View
  BY <1>1, <1>2 DEF ReadInv, Follows, Reading
<1>4. Deserved(fed \o chunk, plan).r # "bad"
  BY <1>3, DeservedFacts, KnownFields DEF View
<1>5. /\ status' = status /\ plan' = plan /\ fed' = fed \o chunk /\ reply' = Replied("ok")
      /\ calling' = FALSE /\ chunk' = <<>> /\ index' = 0 /\ View' = View
  BY DEF FeedReturns, Return, View, engine
<1>6. PerByte!Feed(chunk)
  BY <1>1, <1>4, <1>5 DEF PerByte!Feed, PerByte!Replied, Replied
<1>7. Eaten' = fed \o chunk
  <2>1. SubSeq(<<>>, 1, 0) = <<>>
    BY SubSeqEmpty
  <2>2. (fed \o chunk) \o <<>> = fed \o chunk
    BY InvParts
  <2> QED BY <1>5, <2>1, <2>2 DEF Eaten
<1>8. Follows(ReadAll(plan, Eaten))'
  BY <1>3, <1>5, <1>7 DEF Follows
<1> QED BY <1>1, <1>5, <1>6, <1>8 DEF PerByte!Next, ReadInv

(* Between feeds all the bytes of a session have been read.                *)
LEMMA BetweenFeeds ==
  ASSUME Inv, ReadInv, ~calling, status = "Active"
  PROVE  ReadAll(plan, fed) = View /\ Eaten = fed
<1>1. chunk = <<>> /\ index = 0 /\ fed \in Seq(Byte)
  BY InvParts DEF Settled
<1>2. SubSeq(<<>>, 1, 0) = <<>> /\ fed \o <<>> = fed
  BY <1>1, SubSeqEmpty
<1>3. Eaten = fed
  BY <1>1, <1>2 DEF Eaten
<1> QED BY <1>3 DEF ReadInv, Follows, Reading

LEMMA FeedKept ==
  ASSUME Inv, ReadInv, NEW c \in Offer(fed), Feed(c)
  PROVE  UNCHANGED PerByte!vars /\ ReadInv'
<1>1. /\ ~calling /\ status = "Active" /\ c \in Seq(Byte) /\ calling' = TRUE
      /\ chunk' = c /\ index' = 0 /\ plan' = plan /\ fed' = fed /\ reply' = reply
      /\ status' = status /\ View' = View
  BY DEF Feed, View, engine
<1>2. ReadAll(plan, fed) = View
  BY <1>1, BetweenFeeds
<1>3. Eaten' = fed
  <2>1. SubSeq(c, 1, 0) = <<>> /\ fed \o <<>> = fed
    BY <1>1, InvParts, SubSeqEmpty
  <2> QED BY <1>1, <2>1 DEF Eaten
<1>4. Follows(ReadAll(plan, Eaten))'
  BY <1>1, <1>2, <1>3 DEF Follows
<1> QED BY <1>1, <1>4 DEF ReadInv, PerByte!vars

LEMMA ClosedKept ==
  ASSUME Inv, ReadInv, Closed
  PROVE  PerByte!Next /\ ReadInv'
<1>1. PerByte!Closed
  BY DEF Closed, PerByte!Closed, PerByte!Replied, Replied, engine
<1> QED BY <1>1 DEF PerByte!Next, ReadInv, Closed, engine

LEMMA FinishKept ==
  ASSUME Inv, ReadInv, Finish \/ FinishIncomplete
  PROVE  PerByte!Next /\ ReadInv'
<1>1. ~calling /\ status = "Active"
  BY DEF Finish, FinishIncomplete
<1>2. ReadAll(plan, fed) = View
  BY <1>1, BetweenFeeds
<1>3. /\ View.frames = frames /\ View.token = token /\ View.output = output
      /\ View.started = started /\ View.state = "reading"
  BY KnownFields DEF View
<1>4. /\ Deserved(fed, plan).r = "ok" <=> ~Incomplete
      /\ Deserved(fed, plan).out = output
  BY <1>2, <1>3, DeservedFacts DEF Incomplete
<1>5. CASE Finish
  <2>1. PerByte!Finish
    BY <1>1, <1>4, <1>5 DEF Finish, PerByte!Finish, PerByte!Output, Output
  <2> QED BY <1>5, <2>1 DEF PerByte!Next, ReadInv, Finish
<1>6. CASE FinishIncomplete
  <2>1. offset = Len(fed) /\ chunk = <<>> /\ fed \in Seq(Byte)
    BY <1>1, InvParts DEF Settled
  <2>2. fed \o chunk = fed
    BY <2>1
  <2>3. /\ status' = "Failed" /\ plan' = plan /\ fed' = fed /\ reply' = ParseError(Len(fed))
    BY <1>6, <2>1, <2>2 DEF FinishIncomplete, Fail, Return
  <2>4. PerByte!Finish
    BY <1>1, <1>4, <1>6, <2>3 DEF FinishIncomplete, PerByte!Finish, PerByte!ParseError, ParseError
  <2> QED BY <2>3, <2>4 DEF PerByte!Next, ReadInv
<1> QED BY <1>5, <1>6

-----------------------------------------------------------------------------
(* The steps of the loop.                                                  *)

(* A step of the loop that consumes is no answer.                          *)
LEMMA ConsumedKept ==
  ASSUME Inv, ReadInv, Reading, Advanced(1), NextRead = View'
  PROVE  UNCHANGED PerByte!vars /\ ReadInv'
  BY ConsumesOne DEF Advanced, PerByte!vars

LEMMA ScalarKept ==
  ASSUME Inv, ReadInv, Scalar
  PROVE  ReadInv' /\ (PerByte!Next \/ UNCHANGED PerByte!vars)
<1>1. CASE Span
  <2>1. UNCHANGED PerByte!vars
    BY <1>1 DEF Span, Advanced, PerByte!vars
  <2> QED BY <1>1, <2>1, SpanReads
<1>2. CASE NumberEnds
  <2>1. UNCHANGED PerByte!vars
    BY <1>2 DEF NumberEnds, call, PerByte!vars
  <2> QED BY <1>2, <2>1, NumberEndsReads
<1>3. CASE ScalarByte
  BY <1>3, ScalarByteReads, ConsumedKept DEF ScalarByte, Scanning
<1>4. CASE ValueEnds
  BY <1>4, ValueEndsReads, ConsumedKept DEF ValueEnds, Scanning
<1>5. CASE PlainKeyEnds
  BY <1>5, PlainKeyEndsReads, ConsumedKept DEF PlainKeyEnds, Scanning
<1>6. CASE LookupKeyEnds
  BY <1>6, LookupKeyEndsReads, ConsumedKept DEF LookupKeyEnds, Scanning
<1>7. CASE BadByte
  BY <1>7, BadByteReads, FailureKept DEF BadByte, Scanning, Broken
<1>8. CASE LookupKeyBroken
  <2>1. Fail(token.start + ValidUpTo(Append(key, Input)))
    BY <1>8 DEF LookupKeyBroken
  <2>2. Reading
    BY <1>8 DEF LookupKeyBroken, Scanning
  <2> QED BY <1>8, <2>1, <2>2, LookupKeyBrokenReads, FailureKept
<1> QED BY <1>1, <1>2, <1>3, <1>4, <1>5, <1>6, <1>7, <1>8 DEF Scalar

LEMMA StructureKept ==
  ASSUME Inv, ReadInv, Structure
  PROVE  ReadInv' /\ (PerByte!Next \/ UNCHANGED PerByte!vars)
<1> USE DEF Structural, Inside, Outside, ValueDue
<1>1. CASE OuterSpace
  BY <1>1, OuterSpaceReads, ConsumedKept DEF OuterSpace
<1>2. CASE BadRoot \/ TrailingInput
  BY <1>2, BadRootReads, FailureKept DEF BadRoot, TrailingInput, Broken
<1>3. CASE InnerSpace
  BY <1>3, InnerSpaceReads, ConsumedKept DEF InnerSpace
<1>4. CASE Close
  BY <1>4, CloseReads, ConsumedKept DEF Close
<1>5. CASE BeginKey
  BY <1>5, BeginKeyReads, ConsumedKept DEF BeginKey
<1>6. CASE ReadColon
  BY <1>6, ReadColonReads, ConsumedKept DEF ReadColon
<1>7. CASE ReadComma
  BY <1>7, ReadCommaReads, ConsumedKept DEF ReadComma
<1>8. CASE Misplaced
  BY <1>8, MisplacedReads, FailureKept DEF Misplaced, Broken
<1>9. CASE OpenRoot
  BY <1>9, OpenRootReads, ConsumedKept DEF OpenRoot
<1>10. CASE Open
  BY <1>10, OpenReads, ConsumedKept DEF Open
<1>11. CASE BadValue \/ TooDeep
  BY <1>11, BadValueReads, FailureKept DEF BadValue, TooDeep, Broken
<1>12. CASE BeginScalar
  BY <1>12, BeginScalarReads, ConsumedKept DEF BeginScalar
<1> QED BY <1>1, <1>2, <1>3, <1>4, <1>5, <1>6, <1>7, <1>8, <1>9, <1>10, <1>11,
           <1>12 DEF Structure

(* Where the document is cut does not matter (src/stream/mod.rs, feed and  *)
(* consume): each answer is the one the bytes fed deserve, read one by     *)
(* one, and a session that is over only refuses.                           *)
THEOREM CutsAreInvisible == Spec => CutsDoNotMatter
<1>1. Init => PerByte!Init /\ ReadInv
  <2> SUFFICES ASSUME Init PROVE PerByte!Init /\ ReadInv
    OBVIOUS
  <2>1. PerByte!Init
    BY DEF Init, PerByte!Init, PerByte!Replied, Replied
  <2>2. Eaten = <<>>
    <3>1. SubSeq(<<>>, 1, 0) = <<>>
      BY SubSeqEmpty
    <3> QED BY <3>1 DEF Init, Eaten
  <2>3. View = Unread
    BY DEF Init, View, Unread
  <2> QED BY <2>1, <2>2, <2>3, ReadNothing DEF ReadInv, Follows, Init
<1>2. Inv /\ ReadInv /\ [Next]_vars => ReadInv' /\ [PerByte!Next]_(PerByte!vars)
  <2> SUFFICES ASSUME Inv, ReadInv, [Next]_vars
               PROVE  ReadInv' /\ (PerByte!Next \/ UNCHANGED PerByte!vars)
    OBVIOUS
  <2>1. ASSUME NEW c \in Offer(fed), Feed(c) PROVE ReadInv' /\ UNCHANGED PerByte!vars
    BY <2>1, FeedKept
  <2>2. CASE Closed
    BY <2>2, ClosedKept
  <2>3. CASE Finish \/ FinishIncomplete
    BY <2>3, FinishKept
  <2>4. CASE Scalar
    BY <2>4, ScalarKept
  <2>5. CASE Structure
    BY <2>5, StructureKept
  <2>6. CASE FeedReturns
    BY <2>6, FeedReturnsKept
  <2>7. CASE UNCHANGED vars
    <3>1. UNCHANGED PerByte!vars
      BY <2>7 DEF vars, call, engine, PerByte!vars
    <3>2. /\ plan' = plan /\ status' = status /\ calling' = calling /\ chunk' = chunk
          /\ fed' = fed /\ index' = index /\ token' = token /\ View' = View
      BY <2>7 DEF vars, call, engine, View
    <3>3. ReadInv'
      BY <3>2 DEF ReadInv, Follows, Eaten, Reading, Input
    <3> QED BY <3>1, <3>3
  <2> QED BY <2>1, <2>2, <2>3, <2>4, <2>5, <2>6, <2>7 DEF Next, Step
<1> QED BY <1>1, <1>2, Consistent, PTL DEF Spec, CutsDoNotMatter, PerByte!Spec

-----------------------------------------------------------------------------
(* What a session has written, read again.                                 *)

(* What the second reading of an open container f waits for.  It has read  *)
(* no member or element that is not written, and its comma only with what  *)
(* follows; `busy` is that a value of f is being written.                  *)
Shows(f, busy) ==
  IF \/ busy \/ f.action.mode # "project"
     \/ f.expect \in {"Colon", "ObjectValue"} /\ f.next # Discard
  THEN f.expect
  ELSE IF f.object THEN IF f.emitted THEN "ObjectComma" ELSE "ObjectFirst"
                   ELSE IF f.emitted THEN "ArrayComma" ELSE "ArrayFirst"

(* A member or an element has been written where one must have been.       *)
Wrote(f, busy) ==
  f.action.mode = "project" =>
    /\ (\/ busy \/ f.expect \in {"ArrayValue", "ArrayComma"}
        \/ f.expect \in {"Colon", "ObjectValue"} /\ f.next # Discard) => f.emitted
    /\ ~busy /\ f.expect = "ArrayFirst" => ~f.emitted

(* An action that selects nothing is one of the other two.                 *)
Plain(action) == action.mode # "project" => action \in {Copy, Discard}

(* h is what the second reading has for the frame f.                       *)
Mirrors(f, h, busy) ==
  /\ f \in Frame /\ h \in Frame /\ Plain(f.action) /\ Plain(f.next)
  /\ h.action = f.action /\ h.object = f.object /\ h.emitted = f.emitted
  /\ h.expect = Shows(f, busy) /\ Wrote(f, busy)
  /\ h.expect \in {"Colon", "ObjectValue"} => h.next = f.next

(* G is what the second reading has for the stack fs: the same frames, but *)
(* for those of what is dropped.                                           *)
Mirrored(fs, G, busy) ==
  /\ fs \in Seq(Frame) /\ G \in Seq(Frame) /\ Len(fs) \in Nat /\ Len(G) \in Nat
  /\ Len(G) <= Len(fs) /\ (fs # <<>> => G # <<>>) /\ (busy => Len(G) = Len(fs))
  /\ \A i \in 1 .. Len(fs) : i <= Len(G) <=> fs[i].action # Discard
  /\ \A i \in 1 .. Len(G) : Mirrors(fs[i], G[i], i < Len(G) \/ busy)

LEMMA ReplacedFacts ==
  ASSUME NEW fs \in Seq(Frame), fs # <<>>, NEW g \in Frame
  PROVE  /\ Replaced(fs, g) \in Seq(Frame) /\ Len(Replaced(fs, g)) = Len(fs)
         /\ \A i \in 1 .. Len(fs) - 1 : Replaced(fs, g)[i] = fs[i]
         /\ Replaced(fs, g)[Len(fs)] = g
<1> DEFINE k == Len(fs)
           r == Replaced(fs, g)
<1>1. k \in Nat \ {0} /\ k \in 1 .. k
  BY EmptySeq
<1>2. /\ r \in Seq(Frame) /\ Len(r) = k
      /\ \A j \in 1 .. k : r[j] = IF j = k THEN g ELSE fs[j]
  BY <1>1, ExceptSeq DEF Replaced
<1> HIDE DEF r
<1>3. \A i \in 1 .. k - 1 : i \in 1 .. k /\ i # k
  BY <1>1
<1> QED BY <1>1, <1>2, <1>3 DEF r

LEMMA Shorter ==
  ASSUME NEW fs \in Seq(Frame), Len(fs) \in Nat \ {0}
  PROVE  LET hs == SubSeq(fs, 1, Len(fs) - 1)
         IN  /\ hs \in Seq(Frame) /\ Len(hs) = Len(fs) - 1
             /\ \A i \in 1 .. Len(fs) - 1 : hs[i] = fs[i]
<1> DEFINE k == Len(fs)
           hs == SubSeq(fs, 1, k - 1)
<1>1. \A i \in 1 .. k - 1 : fs[i] \in Frame
  BY ElementOfSeq
<1>2. \A n \in Nat \ {0} : /\ 1 \in Int /\ n - 1 \in Int
                           /\ (IF 1 <= n - 1 THEN n - 1 - 1 + 1 ELSE 0) = n - 1
                           /\ n - 1 - 1 + 1 = n - 1
                           /\ \A i \in 1 .. n - 1 : 1 + i - 1 = i
  OBVIOUS
<1>3. /\ hs \in Seq(Frame)
      /\ Len(hs) = IF 1 <= k - 1 THEN k - 1 - 1 + 1 ELSE 0
      /\ \A i \in 1 .. k - 1 - 1 + 1 : hs[i] = fs[1 + i - 1]
  BY <1>1, <1>2, SubSeqProperties
<1> QED BY <1>2, <1>3

(* The stacks change at their tops.                                        *)
LEMMA MirrorTops ==
  ASSUME NEW fs, NEW G, NEW busy \in BOOLEAN, Mirrored(fs, G, busy), fs # <<>>,
         Len(G) = Len(fs),
         NEW fs2 \in Seq(Frame), NEW G2 \in Seq(Frame), NEW busy2 \in BOOLEAN,
         Len(fs2) = Len(fs), Len(G2) = Len(G),
         \A i \in 1 .. Len(fs) - 1 : fs2[i] = fs[i] /\ G2[i] = G[i],
         fs2[Len(fs)].action = fs[Len(fs)].action,
         Mirrors(fs2[Len(fs)], G2[Len(fs)], busy2)
  PROVE  Mirrored(fs2, G2, busy2)
<1> DEFINE k == Len(fs)
<1>1. k \in Nat \ {0} /\ G # <<>> /\ G2 # <<>>
  BY EmptySeq DEF Mirrored
<1>2. \A i \in 1 .. k : i = k \/ i \in 1 .. k - 1
  BY <1>1
<1>3. ASSUME NEW i \in 1 .. k PROVE i <= k <=> fs2[i].action # Discard
  <2>1. i <= k <=> fs[i].action # Discard
    BY DEF Mirrored
  <2>2. fs2[i].action = fs[i].action
    BY <1>2
  <2> QED BY <2>1, <2>2
<1>4. ASSUME NEW i \in 1 .. k PROVE Mirrors(fs2[i], G2[i], i < k \/ busy2)
  <2>1. CASE i = k
    <3>1. (i < k \/ busy2) = busy2
      BY <1>1, <2>1
    <3> QED BY <2>1, <3>1
  <2>2. CASE i # k
    <3>1. i \in 1 .. k - 1 /\ i < k /\ (i < k \/ busy2) = TRUE /\ (i < k \/ busy) = TRUE
      BY <1>1, <2>2
    <3>2. Mirrors(fs[i], G[i], i < k \/ busy)
      BY DEF Mirrored
    <3> QED BY <3>1, <3>2
  <2> QED BY <2>1, <2>2
<1> QED BY <1>1, <1>3, <1>4 DEF Mirrored

(* The stack changes at its top and nothing is written.                    *)
LEMMA MirrorSilent ==
  ASSUME NEW fs, NEW G, Mirrored(fs, G, FALSE), fs # <<>>,
         NEW fs2 \in Seq(Frame), Len(fs2) = Len(fs),
         \A i \in 1 .. Len(fs) - 1 : fs2[i] = fs[i],
         fs2[Len(fs)].action = fs[Len(fs)].action,
         fs[Len(fs)].action # Discard => Mirrors(fs2[Len(fs)], G[Len(fs)], FALSE)
  PROVE  Mirrored(fs2, G, FALSE)
<1> DEFINE k == Len(fs)
<1>1. k \in Nat \ {0} /\ G # <<>> /\ k \in 1 .. k
  BY EmptySeq DEF Mirrored
<1>2. CASE fs[k].action # Discard
  <2>1. Len(G) = k
    <3>1. k <= Len(G) /\ Len(G) <= k /\ Len(G) \in Nat
      BY <1>1, <1>2 DEF Mirrored
    <3> QED BY <1>1, <3>1
  <2>2. G \in Seq(Frame) /\ Mirrors(fs2[k], G[k], FALSE)
    BY <1>2 DEF Mirrored
  <2>3. \A i \in 1 .. k - 1 : fs2[i] = fs[i] /\ G[i] = G[i]
    OBVIOUS
  <2> QED BY <2>1, <2>2, <2>3, MirrorTops
<1>3. CASE fs[k].action = Discard
  <2>1. Len(G) < k
    <3>1. ~(k <= Len(G)) /\ Len(G) \in Nat
      BY <1>1, <1>3 DEF Mirrored
    <3> QED BY <1>1, <3>1
  <2>2. ASSUME NEW i \in 1 .. k PROVE fs2[i].action = fs[i].action
    <3>1. i = k \/ i \in 1 .. k - 1
      BY <1>1
    <3> QED BY <3>1
  <2>3. \A i \in 1 .. k : i <= Len(G) <=> fs2[i].action # Discard
    BY <2>2 DEF Mirrored
  <2>4. \A i \in 1 .. Len(G) : i \in 1 .. k - 1
    BY <1>1, <2>1 DEF Mirrored
  <2>5. ASSUME NEW i \in 1 .. Len(G) PROVE Mirrors(fs2[i], G[i], i < Len(G) \/ FALSE)
    <3>1. Mirrors(fs[i], G[i], i < Len(G) \/ FALSE) /\ fs2[i] = fs[i]
      BY <2>4 DEF Mirrored
    <3> QED BY <3>1
  <2> QED BY <1>1, <2>3, <2>5 DEF Mirrored
<1> QED BY <1>2, <1>3

(* Both tops, and the stack below them.                                    *)
LEMMA MirrorTop ==
  ASSUME NEW fs, NEW G, NEW busy \in BOOLEAN, Mirrored(fs, G, busy), fs # <<>>
  PROVE  /\ Len(fs) \in Nat \ {0} /\ Len(G) \in Nat \ {0} /\ G # <<>>
         /\ Len(G) \in 1 .. Len(fs)
         /\ fs[Len(fs)].action # Discard =>
              Len(G) = Len(fs) /\ Mirrors(fs[Len(fs)], G[Len(fs)], busy)
         /\ fs[Len(fs)].action = Discard => Len(G) < Len(fs) /\ ~busy
<1> DEFINE k == Len(fs)
<1>1. /\ k \in Nat \ {0} /\ G # <<>> /\ k \in 1 .. k /\ Len(G) \in Nat \ {0} /\ Len(G) <= k
      /\ busy => Len(G) = k
  BY EmptySeq DEF Mirrored
<1>2. CASE fs[k].action # Discard
  <2>1. k <= Len(G)
    BY <1>1, <1>2 DEF Mirrored
  <2>2. Len(G) = k /\ k \in 1 .. Len(G) /\ (k < Len(G) \/ busy) = busy
    BY <1>1, <2>1
  <2>3. Mirrors(fs[k], G[k], k < Len(G) \/ busy)
    BY <2>2 DEF Mirrored
  <2> QED BY <1>1, <1>2, <2>2, <2>3
<1>3. CASE fs[k].action = Discard
  <2>1. ~(k <= Len(G))
    BY <1>1, <1>3 DEF Mirrored
  <2>2. Len(G) < k
    BY <1>1, <2>1
  <2> QED BY <1>1, <1>3, <2>2
<1> QED BY <1>2, <1>3

(* A container that is kept is opened.                                     *)
LEMMA MirrorPush ==
  ASSUME NEW fs, NEW G, Mirrored(fs, G, TRUE), NEW f, NEW h, Mirrors(f, h, FALSE),
         f.action # Discard
  PROVE  Mirrored(Append(fs, f), Append(G, h), FALSE)
<1> DEFINE k == Len(fs)
           A == Append(fs, f)
           B == Append(G, h)
<1>1. k \in Nat /\ Len(G) = k /\ fs \in Seq(Frame) /\ G \in Seq(Frame) /\ f \in Frame /\ h \in Frame
  BY DEF Mirrored, Mirrors
<1>2. /\ A \in Seq(Frame) /\ B \in Seq(Frame) /\ Len(A) = k + 1 /\ Len(B) = k + 1
      /\ \A i \in 1 .. k : A[i] = fs[i] /\ B[i] = G[i]
      /\ A[k + 1] = f /\ B[k + 1] = h
  BY <1>1
<1> HIDE DEF A, B
<1>3. B # <<>>
  BY <1>1, <1>2, EmptySeq
<1>4. \A i \in 1 .. k + 1 : i \in 1 .. k \/ i = k + 1
  BY <1>1
<1>5. ASSUME NEW i \in 1 .. k + 1 PROVE i <= k + 1 <=> A[i].action # Discard
  <2>1. CASE i \in 1 .. k
    <3>1. i <= k <=> fs[i].action # Discard
      BY <1>1, <2>1 DEF Mirrored
    <3> QED BY <1>1, <1>2, <2>1, <3>1
  <2>2. CASE i = k + 1
    BY <1>1, <1>2, <2>2
  <2> QED BY <1>4, <2>1, <2>2
<1>6. ASSUME NEW i \in 1 .. k + 1 PROVE Mirrors(A[i], B[i], i < k + 1 \/ FALSE)
  <2>1. CASE i \in 1 .. k
    <3>1. Mirrors(fs[i], G[i], i < k \/ TRUE)
      BY <1>1, <2>1 DEF Mirrored
    <3>2. (i < k + 1 \/ FALSE) = TRUE /\ (i < k \/ TRUE) = TRUE
      BY <1>1, <2>1
    <3> QED BY <1>2, <2>1, <3>1, <3>2
  <2>2. CASE i = k + 1
    <3>1. (i < k + 1 \/ FALSE) = FALSE
      BY <1>1, <2>2
    <3> QED BY <1>2, <2>2, <3>1
  <2> QED BY <1>4, <2>1, <2>2
<1>7. Mirrored(A, B, FALSE)
  BY <1>1, <1>2, <1>3, <1>5, <1>6 DEF Mirrored
<1> QED BY <1>7 DEF A, B

(* A container that is dropped is opened.                                  *)
LEMMA MirrorPushDropped ==
  ASSUME NEW fs, NEW G, Mirrored(fs, G, FALSE), fs # <<>>, NEW f \in Frame, f.action = Discard
  PROVE  Mirrored(Append(fs, f), G, FALSE)
<1> DEFINE k == Len(fs)
           A == Append(fs, f)
<1>1. k \in Nat /\ Len(G) \in Nat /\ Len(G) <= k /\ fs \in Seq(Frame) /\ G \in Seq(Frame) /\ G # <<>>
  BY DEF Mirrored
<1>2. /\ A \in Seq(Frame) /\ Len(A) = k + 1 /\ A[k + 1] = f
      /\ \A i \in 1 .. k : A[i] = fs[i]
  BY <1>1
<1> HIDE DEF A
<1>3. ASSUME NEW i \in 1 .. k + 1 PROVE i <= Len(G) <=> A[i].action # Discard
  <2>1. CASE i \in 1 .. k
    <3>1. i <= Len(G) <=> fs[i].action # Discard
      BY <2>1 DEF Mirrored
    <3> QED BY <1>2, <2>1, <3>1
  <2>2. CASE i = k + 1
    BY <1>1, <1>2, <2>2
  <2> QED BY <1>1, <2>1, <2>2
<1>4. ASSUME NEW i \in 1 .. Len(G) PROVE Mirrors(A[i], G[i], i < Len(G) \/ FALSE)
  <2>1. i \in 1 .. k
    BY <1>1
  <2> QED BY <1>2, <2>1 DEF Mirrored
<1>5. Mirrored(A, G, FALSE)
  BY <1>1, <1>2, <1>3, <1>4 DEF Mirrored
<1> QED BY <1>5 DEF A

(* A container that is kept ends.                                          *)
LEMMA MirrorPop ==
  ASSUME NEW fs, NEW G, Mirrored(fs, G, FALSE), fs # <<>>, fs[Len(fs)].action # Discard
  PROVE  Mirrored(SubSeq(fs, 1, Len(fs) - 1), SubSeq(G, 1, Len(G) - 1), TRUE)
<1> DEFINE k == Len(fs)
           A == SubSeq(fs, 1, k - 1)
           B == SubSeq(G, 1, k - 1)
<1>1. k \in Nat \ {0} /\ Len(G) = k /\ fs \in Seq(Frame) /\ G \in Seq(Frame)
  BY MirrorTop DEF Mirrored
<1>2. /\ A \in Seq(Frame) /\ B \in Seq(Frame) /\ Len(A) = k - 1 /\ Len(B) = k - 1
      /\ \A i \in 1 .. k - 1 : A[i] = fs[i] /\ B[i] = G[i]
  BY <1>1, Shorter
<1> HIDE DEF A, B
<1>3. A # <<>> => B # <<>>
  BY <1>1, <1>2, EmptySeq
<1>4. \A i \in 1 .. k - 1 : i \in 1 .. k /\ i < k /\ i <= k - 1
  BY <1>1
<1>5. ASSUME NEW i \in 1 .. k - 1 PROVE i <= k - 1 <=> A[i].action # Discard
  <2>1. i <= k <=> fs[i].action # Discard
    BY <1>1, <1>4 DEF Mirrored
  <2> QED BY <1>1, <1>2, <1>4, <2>1
<1>6. ASSUME NEW i \in 1 .. k - 1 PROVE Mirrors(A[i], B[i], i < k - 1 \/ TRUE)
  <2>1. Mirrors(fs[i], G[i], i < k \/ FALSE)
    BY <1>1, <1>4 DEF Mirrored
  <2>2. (i < k \/ FALSE) = TRUE /\ (i < k - 1 \/ TRUE) = TRUE
    BY <1>4
  <2> QED BY <1>2, <2>1, <2>2
<1>7. Mirrored(A, B, TRUE)
  BY <1>1, <1>2, <1>3, <1>5, <1>6 DEF Mirrored
<1> QED BY <1>1, <1>7 DEF A, B

(* A container that is dropped ends.                                       *)
LEMMA MirrorPopDropped ==
  ASSUME NEW fs, NEW G, Mirrored(fs, G, FALSE), fs # <<>>, fs[Len(fs)].action = Discard
  PROVE  Mirrored(SubSeq(fs, 1, Len(fs) - 1), G, FALSE)
<1> DEFINE k == Len(fs)
           A == SubSeq(fs, 1, k - 1)
<1>1. /\ k \in Nat \ {0} /\ Len(G) < k /\ G # <<>> /\ Len(G) \in Nat
      /\ fs \in Seq(Frame) /\ G \in Seq(Frame)
  BY MirrorTop DEF Mirrored
<1>2. /\ A \in Seq(Frame) /\ Len(A) = k - 1
      /\ \A i \in 1 .. k - 1 : A[i] = fs[i]
  BY <1>1, Shorter
<1> HIDE DEF A
<1>3. \A i \in 1 .. k - 1 : i \in 1 .. k
  BY <1>1
<1>4. \A i \in 1 .. k - 1 : i <= Len(G) <=> A[i].action # Discard
  BY <1>2, <1>3 DEF Mirrored
<1>5. ASSUME NEW i \in 1 .. Len(G) PROVE Mirrors(A[i], G[i], i < Len(G) \/ FALSE)
  <2>1. i \in 1 .. k - 1
    BY <1>1
  <2> QED BY <1>2, <2>1 DEF Mirrored
<1>6. Mirrored(A, G, FALSE)
  BY <1>1, <1>2, <1>4, <1>5 DEF Mirrored
<1> QED BY <1>6 DEF A

-----------------------------------------------------------------------------
(* What frames make of it.                                                 *)

(* No member of f is being written.                                        *)
AtRest(f) == ~(f.expect \in {"Colon", "ObjectValue"} /\ f.next # Discard)

(* A container that selects goes on without anything being written.        *)
LEMMA MirrorRests ==
  ASSUME NEW f, NEW h, Mirrors(f, h, FALSE), f.action.mode = "project", AtRest(f),
         NEW f2 \in Frame, AtRest(f2), Wrote(f2, FALSE), Plain(f2.next),
         f2.action = f.action, f2.object = f.object, f2.emitted = f.emitted
  PROVE  Mirrors(f2, h, FALSE)
<1>1. h.expect = Shows(f2, FALSE) /\ h.expect \notin {"Colon", "ObjectValue"}
  BY DEF Mirrors, Shows, AtRest
<1> QED BY <1>1 DEF Mirrors

(* What a comma is awaited by.                                             *)
AfterValue(f) == [f EXCEPT !.expect = IF f.object THEN "ObjectComma" ELSE "ArrayComma"]

LEMMA AfterValueFacts ==
  ASSUME NEW f \in Frame
  PROVE  /\ AfterValue(f) \in Frame
         /\ AfterValue(f).action = f.action /\ AfterValue(f).object = f.object
         /\ AfterValue(f).emitted = f.emitted /\ AfterValue(f).next = f.next
         /\ AfterValue(f).expect = IF f.object THEN "ObjectComma" ELSE "ArrayComma"
<1> DEFINE e == IF f.object THEN "ObjectComma" ELSE "ArrayComma"
<1>1. e \in Expect
  BY DEF Expect
<1>2. AfterValue(f) = [f EXCEPT !.expect = e]
  BY DEF AfterValue
<1> HIDE DEF e
<1>3. /\ [f EXCEPT !.expect = e] \in Frame /\ [f EXCEPT !.expect = e].expect = e
      /\ [f EXCEPT !.expect = e].action = f.action /\ [f EXCEPT !.expect = e].next = f.next
      /\ [f EXCEPT !.expect = e].emitted = f.emitted /\ [f EXCEPT !.expect = e].object = f.object
  BY <1>1, FrameExpect
<1> QED BY <1>2, <1>3 DEF e

LEMMA MirrorAfterValue ==
  ASSUME NEW f, NEW h, Mirrors(f, h, TRUE)
  PROVE  Mirrors(AfterValue(f), AfterValue(h), FALSE)
<1> DEFINE f2 == AfterValue(f)
           h2 == AfterValue(h)
<1>1. f \in Frame /\ h \in Frame /\ h.object = f.object
  BY DEF Mirrors
<1>2. /\ f2 \in Frame /\ f2.action = f.action /\ f2.object = f.object
      /\ f2.next = f.next /\ f2.emitted = f.emitted
      /\ f2.expect = IF f.object THEN "ObjectComma" ELSE "ArrayComma"
  BY <1>1, AfterValueFacts
<1>3. /\ h2 \in Frame /\ h2.action = h.action /\ h2.object = h.object
      /\ h2.emitted = h.emitted /\ h2.expect = IF f.object THEN "ObjectComma" ELSE "ArrayComma"
  BY <1>1, AfterValueFacts
<1> HIDE DEF f2, h2
<1>4. f.action.mode = "project" => f.emitted
  BY DEF Mirrors, Wrote
<1>5. Shows(f2, FALSE) = f2.expect /\ Wrote(f2, FALSE)
  BY <1>2, <1>4 DEF Shows, Wrote
<1>6. h2.expect = f2.expect /\ h2.expect \notin {"Colon", "ObjectValue"}
  BY <1>2, <1>3
<1>7. Mirrors(f2, h2, FALSE)
  BY <1>2, <1>3, <1>5, <1>6 DEF Mirrors
<1> QED BY <1>7 DEF f2, h2

LEMMA DoneTop ==
  ASSUME NEW fs \in Seq(Frame), fs # <<>>
  PROVE  /\ ValueDone(fs) \in Seq(Frame) /\ Len(ValueDone(fs)) = Len(fs)
         /\ Len(fs) \in Nat \ {0}
         /\ \A i \in 1 .. Len(fs) - 1 : ValueDone(fs)[i] = fs[i]
         /\ ValueDone(fs)[Len(fs)] = AfterValue(fs[Len(fs)])
<1> DEFINE g == AfterValue(fs[Len(fs)])
<1>1. Len(fs) \in Nat \ {0} /\ fs[Len(fs)] \in Frame
  BY EmptySeq, ElementOfSeq
<1>2. g \in Frame
  BY <1>1, AfterValueFacts
<1>3. ValueDone(fs) = Replaced(fs, g)
  BY DEF ValueDone, Expecting, Replaced, AfterValue
<1> HIDE DEF g
<1>4. /\ Replaced(fs, g) \in Seq(Frame) /\ Len(Replaced(fs, g)) = Len(fs)
      /\ \A i \in 1 .. Len(fs) - 1 : Replaced(fs, g)[i] = fs[i]
      /\ Replaced(fs, g)[Len(fs)] = g
  BY <1>2, ReplacedFacts
<1> QED BY <1>1, <1>3, <1>4 DEF g

(* A value that was written ends.                                          *)
LEMMA MirrorDone ==
  ASSUME NEW fs, NEW G, Mirrored(fs, G, TRUE)
  PROVE  Mirrored(ValueDone(fs), ValueDone(G), FALSE)
<1>1. fs \in Seq(Frame) /\ G \in Seq(Frame) /\ Len(G) = Len(fs) /\ Len(fs) \in Nat
  BY DEF Mirrored
<1>2. CASE fs = <<>>
  <2>1. G = <<>> /\ Len(fs) = 0
    BY <1>1, <1>2, EmptySeq
  <2>2. ValueDone(fs) = <<>> /\ ValueDone(G) = <<>>
    BY <1>2, <2>1 DEF ValueDone
  <2>3. <<>> \in Seq(Frame) /\ Len(<<>>) = 0
    OBVIOUS
  <2>4. Mirrored(<<>>, <<>>, FALSE)
    BY <2>3 DEF Mirrored
  <2> QED BY <2>2, <2>4
<1>3. CASE fs # <<>>
  <2> DEFINE k == Len(fs)
  <2>1. G # <<>> /\ k \in Nat \ {0} /\ k \in 1 .. k
    BY <1>1, <1>3, MirrorTop
  <2>2. fs[k].action # Discard /\ Mirrors(fs[k], G[k], TRUE)
    <3>1. k <= Len(G)
      BY <1>1, <2>1
    <3> QED BY <1>3, <2>1, <3>1, MirrorTop
  <2>3. /\ ValueDone(fs) \in Seq(Frame) /\ Len(ValueDone(fs)) = k
        /\ \A i \in 1 .. k - 1 : ValueDone(fs)[i] = fs[i]
        /\ ValueDone(fs)[k] = AfterValue(fs[k])
    BY <1>1, <1>3, DoneTop
  <2>4. /\ ValueDone(G) \in Seq(Frame) /\ Len(ValueDone(G)) = k
        /\ \A i \in 1 .. k - 1 : ValueDone(G)[i] = G[i]
        /\ ValueDone(G)[k] = AfterValue(G[k])
    BY <1>1, <2>1, DoneTop
  <2>5. Mirrors(ValueDone(fs)[k], ValueDone(G)[k], FALSE)
    BY <2>2, <2>3, <2>4, MirrorAfterValue
  <2>6. ValueDone(fs)[k].action = fs[k].action
    <3>1. fs[k] \in Frame
      BY <2>2 DEF Mirrors
    <3> QED BY <2>3, <3>1, AfterValueFacts
  <2> QED BY <1>1, <1>3, <2>3, <2>4, <2>5, <2>6, MirrorTops
<1> QED BY <1>2, <1>3

(* A value that was dropped ends.                                          *)
LEMMA MirrorDropped ==
  ASSUME NEW fs, NEW G, Mirrored(fs, G, FALSE), fs # <<>>,
         FrameFits(fs[Len(fs)]), fs[Len(fs)].expect \in ValueExpect, AskedBy(fs[Len(fs)]) = Discard
  PROVE  Mirrored(ValueDone(fs), G, FALSE)
<1> DEFINE k == Len(fs)
           f == fs[k]
<1>1. /\ ValueDone(fs) \in Seq(Frame) /\ Len(ValueDone(fs)) = k
      /\ \A i \in 1 .. k - 1 : ValueDone(fs)[i] = fs[i]
      /\ ValueDone(fs)[k] = AfterValue(f) /\ k \in Nat \ {0} /\ f \in Frame
  <2>1. fs \in Seq(Frame)
    BY DEF Mirrored
  <2> QED BY <2>1, DoneTop, ElementOfSeq
<1>2. AfterValue(f).action = f.action
  BY <1>1, AfterValueFacts
<1>3. ASSUME f.action # Discard PROVE Mirrors(AfterValue(f), G[k], FALSE)
  <2>1. Mirrors(f, G[k], FALSE)
    BY <1>3, MirrorTop
  <2>2. FrameFits(f) /\ f.object \in BOOLEAN
    BY <1>1, FrameFields
  <2>3. f.object /\ f.next = Discard
    BY <1>3, <2>2, ActionTyped DEF AskedBy
  <2>4. f.expect = "ObjectValue" /\ f.action.mode = "project"
    BY <1>3, <2>2, <2>3 DEF FrameFits, ObjectExpect, ValueExpect, NextFits
  <2>5. AtRest(f)
    BY <2>3 DEF AtRest
  <2>6. /\ AfterValue(f) \in Frame /\ AfterValue(f).object = f.object
        /\ AfterValue(f).emitted = f.emitted /\ AfterValue(f).expect = "ObjectComma"
    BY <1>1, <2>2, <2>3, AfterValueFacts
  <2>7. AtRest(AfterValue(f)) /\ Wrote(AfterValue(f), FALSE)
    BY <2>6 DEF AtRest, Wrote
  <2>8. Plain(AfterValue(f).next)
    BY <1>1, <2>1, AfterValueFacts DEF Mirrors
  <2> QED BY <1>2, <2>1, <2>4, <2>5, <2>6, <2>7, <2>8, MirrorRests
<1> QED BY <1>1, <1>2, <1>3, MirrorSilent

-----------------------------------------------------------------------------
(* The second reading.                                                     *)

(* Bytes at which a number ends.                                           *)
Ender == Whitespace \cup {Comma, Colon, RBrace, RBracket}

(* The scalar t is a number that may be over.                              *)
Over(t) == t \in Token /\ ~t.key /\ \A b \in Ender : Push(t.scalar, b).advance = "Delimiter"

LEMMA NumberOver ==
  ASSUME NEW s \in ScalarState, NEW b, Push(s, b).advance = "Delimiter",
         NEW c \in Ender
  PROVE  Push(s, c).advance = "Delimiter"
<1> USE DEF Consumed, Reject, Complete, Delimiter
<1>1. c \notin Digits \cup {Dot, LowerE, UpperE}
  BY DEF Ender, Whitespace, Comma, Colon, RBrace, RBracket, Digits, Dot, LowerE, UpperE
<1>2. s.st \in {"Zero", "Integer", "Fraction", "Exponent"}
  <2>1. s.st \in Tag
    BY StateFields
  <2>2. s.st = "String" => Push(s, b).advance # "Delimiter"
    BY DEF Push, PushString
  <2>3. s.st = "Escape" => Push(s, b).advance # "Delimiter"
    BY DEF Push, PushEscape
  <2>4. s.st = "Unicode" => Push(s, b).advance # "Delimiter"
    BY DEF Push, PushUnicode, UnicodeEnd
  <2>5. s.st \in {"SurrogateBackslash", "SurrogateU"} => Push(s, b).advance # "Delimiter"
    BY DEF Push, PushSurrogateBackslash, PushSurrogateU
  <2>6. s.st \in {"Literal", "Minus"} => Push(s, b).advance # "Delimiter"
    BY DEF Push, PushLiteral, PushMinus
  <2>7. s.st \in {"FractionStart", "ExponentStart", "ExponentSign", "Done"} =>
          Push(s, b).advance # "Delimiter"
    BY DEF Push, PushRequiredDigit, PushExponentStart
  <2> QED BY <2>1, <2>2, <2>3, <2>4, <2>5, <2>6, <2>7 DEF Tag, PlainTag
<1>3. CASE s.st = "Zero"
  BY <1>1, <1>3 DEF Push, PushZero, AfterInteger
<1>4. CASE s.st = "Integer"
  BY <1>1, <1>4 DEF Push, PushInteger, AfterInteger
<1>5. CASE s.st = "Fraction"
  BY <1>1, <1>5 DEF Push, PushFraction
<1>6. CASE s.st = "Exponent"
  BY <1>1, <1>6 DEF Push, PushExponent
<1> QED BY <1>2, <1>3, <1>4, <1>5, <1>6

(* The second reading g stands at the stack G, outside of scalars, but     *)
(* that the number it has read last may not have ended.                    *)
StandsAt(g, G) ==
  \/ g.token = None /\ g.frames = G
  \/ /\ g.token # None /\ Over(g.token)
     /\ g.frames # <<>> /\ g.frames \in Seq(Frame) /\ G = ValueDone(g.frames)

(* g is what the second reading makes of the output out of a session that  *)
(* has the stack fs and the scalar t.                                      *)
Echoes(g, fs, t, out, root) ==
  /\ g = Known(g.frames, g.token, <<>>, out, root)
  /\ IF t # None /\ t.destination = "Output"
     THEN /\ g.token # None /\ g.token \in Token /\ g.token.scalar = t.scalar
          /\ g.token.destination = "Output" /\ g.token.key = t.key
          /\ Mirrored(fs, g.frames, ~t.key)
     ELSE \E G : StandsAt(g, G) /\ Mirrored(fs, G, FALSE)

(* A reading at which a key is due whose rule is to be looked up.          *)
KeyDue(h) ==
  /\ h = Known(h.frames, None, <<>>, h.output, h.started)
  /\ h.frames \in Seq(Frame) /\ h.frames # <<>> /\ h.output \in Seq(Byte)
  /\ h.frames[Len(h.frames)].expect \in {"ObjectFirst", "ObjectKey"}
  /\ h.frames[Len(h.frames)].action.mode = "project"

(* Wherever a key is due, reading raw makes the scalar s of it.            *)
Spells(p, raw, s) ==
  \A x \in Seq(Byte) :
    LET h == ReadAll(p, x)
    IN  KeyDue(h) =>
          ReadAll(p, x \o raw) =
            Known(h.frames, [scalar |-> s, destination |-> "LookupKey", key |-> TRUE,
                             start |-> Len(x)], raw, h.output, h.started)

EchoInv ==
  status = "Active" =>
    /\ Echoes(ReadAll(plan, output), frames, token, output, started)
    /\ token # None /\ token.destination = "LookupKey" => Spells(plan, key, token.scalar)

(* A byte more.                                                            *)
LEMMA ReadOn ==
  ASSUME NEW x \in Seq(Byte), NEW b \in Byte, NEW G, NEW o, NEW root,
         NEW g, g = ReadAll(plan, x), g = Known(g.frames, g.token, <<>>, o, root),
         StandsAt(g, G),
         b \in Ender \/ G = <<>> \/ G[Len(G)].expect \notin {"ObjectComma", "ArrayComma"}
  PROVE  ReadAll(plan, Append(x, b)) =
           LET r == Known(G, None, <<>>, o, root)
           IN  IF G # <<>> THEN AtInside(plan, r, b, Len(x)) ELSE AtOutside(r, b, Len(x))
<1> DEFINE r == Known(G, None, <<>>, o, root)
<1>1. /\ g.state = "reading" /\ g.key = <<>> /\ g.output = o /\ g.started = root
      /\ r.token = None /\ r.frames = G
  BY KnownFields
<1>2. Ended(g, b) = r
  <2>1. CASE g.token = None /\ g.frames = G
    BY <2>1 DEF Ended
  <2>2. CASE /\ g.token # None /\ Over(g.token)
             /\ g.frames # <<>> /\ g.frames \in Seq(Frame) /\ G = ValueDone(g.frames)
    <3>1. /\ Len(g.frames) \in Nat \ {0} /\ G \in Seq(Frame) /\ Len(G) = Len(g.frames)
          /\ G[Len(G)] = AfterValue(g.frames[Len(g.frames)]) /\ g.frames[Len(g.frames)] \in Frame
      BY <2>2, DoneTop, ElementOfSeq
    <3>2. G # <<>> /\ G[Len(G)].expect \in {"ObjectComma", "ArrayComma"}
      BY <3>1, AfterValueFacts, EmptySeq
    <3>3. Push(g.token.scalar, b).advance = "Delimiter"
      BY <2>2, <3>2 DEF Over
    <3> QED BY <1>1, <2>2, <3>3 DEF Ended
  <2> QED BY <2>1, <2>2 DEF StandsAt
<1>3. ReadAll(plan, Append(x, b)) = Takes(plan, g, b, Len(x))
  BY ReadOne
<1> HIDE DEF r
<1>4. Takes(plan, g, b, Len(x)) = IF r.frames # <<>> THEN AtInside(plan, r, b, Len(x))
                                                     ELSE AtOutside(r, b, Len(x))
  BY <1>1, <1>2 DEF Takes
<1> QED BY <1>1, <1>3, <1>4 DEF r

Lexed(t, s) == [t EXCEPT !.scalar = s]

(* A byte more inside a scalar.                                            *)
LEMMA ReadOnScalar ==
  ASSUME NEW x \in Seq(Byte), NEW b \in Byte, NEW g, g = ReadAll(plan, x),
         NEW t, NEW fs, NEW k, NEW o, NEW root, g = Known(fs, t, k, o, root), t # None
  PROVE  /\ Push(t.scalar, b).advance = "Consumed" =>
              ReadAll(plan, Append(x, b)) =
                Known(fs, Lexed(t, Push(t.scalar, b).state),
                      Added(k, b, t.destination = "LookupKey"),
                      Added(o, b, t.destination = "Output"), root)
         /\ Push(t.scalar, b).advance = "Complete" /\ t.key =>
              ReadAll(plan, Append(x, b)) = AtKeyEnd(plan, g, b)
         /\ Push(t.scalar, b).advance = "Complete" /\ ~t.key =>
              ReadAll(plan, Append(x, b)) =
                Known(ValueDone(fs), None, Added(k, b, t.destination = "LookupKey"),
                      Added(o, b, t.destination = "Output"), root)
<1> DEFINE push == Push(t.scalar, b)
<1>1. /\ g.state = "reading" /\ g.key = k /\ g.output = o /\ g.started = root
      /\ g.token = t /\ g.frames = fs
  BY KnownFields
<1>2. ReadAll(plan, Append(x, b)) = Takes(plan, g, b, Len(x))
  BY ReadOne
<1> HIDE DEF push
<1>3. push.advance # "Delimiter" => Takes(plan, g, b, Len(x)) = AtScalar(plan, g, b, Len(x))
  BY <1>1 DEF Takes, Ended, push
<1>4. AtScalar(plan, g, b, Len(x))
        = CASE push.advance = "Error"    -> Refused(Len(x))
            [] push.advance = "Consumed" ->
                 Known(fs, Lexed(t, push.state),
                       Added(k, b, t.destination = "LookupKey"),
                       Added(o, b, t.destination = "Output"), root)
            [] push.advance = "Complete" ->
                 IF t.key THEN AtKeyEnd(plan, g, b)
                 ELSE Known(ValueDone(fs), None,
                            Added(k, b, t.destination = "LookupKey"),
                            Added(o, b, t.destination = "Output"), root)
  BY <1>1 DEF AtScalar, push, Lexed
<1>5. CASE push.advance = "Consumed"
  BY <1>2, <1>3, <1>4, <1>5 DEF push
<1>6. CASE push.advance = "Complete"
  BY <1>2, <1>3, <1>4, <1>6 DEF push
<1> QED BY <1>5, <1>6 DEF push

(* The bytes of a span more.                                               *)
LEMMA ReadOnSpan ==
  ASSUME NEW x \in Seq(Byte), NEW y \in Seq(Byte), NEW t \in Token, NEW fs,
         NEW k \in Seq(Byte), NEW o \in Seq(Byte), NEW root,
         ReadAll(plan, x) = Known(fs, t, k, o, root),
         \A i \in 1 .. Len(y) : SpanByte(t.scalar, y[i])
  PROVE  ReadAll(plan, x \o y) =
           Known(fs, t, IF t.destination = "LookupKey" THEN k \o y ELSE k,
                 IF t.destination = "Output" THEN o \o y ELSE o, root)
<1> DEFINE at(d)   == Known(fs, t, IF t.destination = "LookupKey" THEN k \o d ELSE k,
                            IF t.destination = "Output" THEN o \o d ELSE o, root)
           step(n) == ReadAll(plan, x \o SubSeq(y, 1, n)) = at(SubSeq(y, 1, n))
<1>1. t.scalar \in ScalarState /\ t # None /\ Len(y) \in Nat
  BY NoneIsNoToken DEF Token
<1>2. step(0)
  <2>1. SubSeq(y, 1, 0) = <<>> /\ x \o <<>> = x /\ k \o <<>> = k /\ o \o <<>> = o
    BY SubSeqEmpty
  <2> QED BY <2>1
<1>3. ASSUME NEW n \in 1 .. Len(y), step(n - 1) PROVE step(n)
  <2> DEFINE d == SubSeq(y, 1, n - 1)
             b == y[n]
  <2>1. SubSeq(y, 1, n) = Append(d, b) /\ d \in Seq(Byte) /\ b \in Byte
    BY SubSeqAppended, ElementOfSeq
  <2>2. Push(t.scalar, b) = Consumed(t.scalar)
    BY <1>1, <2>1, SpanSound
  <2>3. Push(t.scalar, b).advance = "Consumed" /\ Push(t.scalar, b).state = t.scalar
    BY <2>2 DEF Consumed
  <2>4. Lexed(t, t.scalar) = t
    BY DEF Token, Lexed
  <2>5. ReadAll(plan, x \o d) = at(d)
    BY <1>3
  <2> HIDE DEF d, b
  <2>6. /\ x \o d \in Seq(Byte) /\ x \o Append(d, b) = Append(x \o d, b)
        /\ k \o Append(d, b) = Append(k \o d, b) /\ o \o Append(d, b) = Append(o \o d, b)
    <3>1. ASSUME NEW s \in Seq(Byte) PROVE s \o d \in Seq(Byte) /\ s \o Append(d, b) = Append(s \o d, b)
      <4>1. d \in Seq(Byte) /\ b \in Byte
        BY <2>1
      <4>2. s \o d \in Seq(Byte)
        BY <4>1
      <4>3. Append(s \o d, b) = s \o Append(d, b)
        BY <4>1, AppendConcat
      <4> QED BY <4>2, <4>3
    <3> QED BY <3>1
  <2> DEFINE kd == IF t.destination = "LookupKey" THEN k \o d ELSE k
             od == IF t.destination = "Output" THEN o \o d ELSE o
  <2>7. ReadAll(plan, Append(x \o d, b)) =
          Known(fs, t, Added(kd, b, t.destination = "LookupKey"),
                Added(od, b, t.destination = "Output"), root)
    <3>1. at(d) = Known(fs, t, kd, od, root)
      OBVIOUS
    <3> HIDE DEF at, kd, od
    <3>2. PICK z : z = x \o d
      OBVIOUS
    <3>3. z \in Seq(Byte) /\ ReadAll(plan, z) = Known(fs, t, kd, od, root)
      BY <2>5, <2>6, <3>1, <3>2
    <3>4. ReadAll(plan, Append(z, b)) =
            Known(fs, Lexed(t, Push(t.scalar, b).state),
                  Added(kd, b, t.destination = "LookupKey"),
                  Added(od, b, t.destination = "Output"), root)
      <4>1. PICK g : g = ReadAll(plan, z)
        OBVIOUS
      <4>2. g = Known(fs, t, kd, od, root) /\ b \in Byte /\ t # None
        BY <1>1, <2>1, <3>3, <4>1
      <4> HIDE DEF step
      <4>3. Push(t.scalar, b).advance = "Consumed"
        BY <2>3
      <4> QED BY ONLY <3>3, <4>1, <4>2, <4>3, ReadOnScalar
    <3> QED BY <2>3, <2>4, <3>2, <3>4
  <2>8. /\ Added(kd, b, t.destination = "LookupKey")
             = IF t.destination = "LookupKey" THEN k \o Append(d, b) ELSE k
        /\ Added(od, b, t.destination = "Output")
             = IF t.destination = "Output" THEN o \o Append(d, b) ELSE o
    BY <2>6 DEF Added
  <2> QED BY <2>1, <2>6, <2>7, <2>8
<1>4. \A n \in Nat : n <= Len(y) => step(n)
  <2> DEFINE T == { n \in Nat : n <= Len(y) /\ ~step(n) }
  <2> SUFFICES T = {}
    OBVIOUS
  <2> SUFFICES ASSUME T # {} PROVE FALSE
    OBVIOUS
  <2> HIDE DEF step
  <2>1. PICK n \in T : \A j \in T : n <= j
    <3>1. T \in SUBSET Nat
      OBVIOUS
    <3> HIDE DEF T
    <3> QED BY <3>1, Least
  <2>2. n # 0
    BY <1>2
  <2>3. n \in Nat /\ n - 1 \in Nat /\ ~(n <= n - 1) /\ n - 1 <= Len(y) /\ n \in 1 .. Len(y)
    BY <1>1, <2>2
  <2>4. step(n - 1)
    <3>1. n - 1 \notin T
      <4> HIDE DEF T
      <4> QED BY <2>1, <2>3
    <3> QED BY <2>3, <3>1
  <2> QED BY <1>3, <2>3, <2>4
<1>5. SubSeq(y, 1, Len(y)) = y
  BY SubSeqFull
<1>6. step(Len(y))
  BY <1>1, <1>4
<1> QED BY <1>5, <1>6

-----------------------------------------------------------------------------
(* The turns on a scalar.                                                  *)

LEMMA EchoNext ==
  ASSUME plan' = plan,
         Echoes(ReadAll(plan, output'), frames', token', output', started'),
         token' # None /\ token'.destination = "LookupKey" => Spells(plan, key', token'.scalar)
  PROVE  EchoInv'
  BY DEF EchoInv

(* A scalar that is written.                                               *)
LEMMA EchoOfScalar ==
  ASSUME Inv, EchoInv, Reading, token # None, token.destination = "Output",
         NEW g, g = ReadAll(plan, output)
  PROVE  /\ g = Known(g.frames, g.token, <<>>, output, started)
         /\ g.token # None /\ g.token \in Token /\ g.token.scalar = token.scalar
         /\ g.token.destination = "Output" /\ g.token.key = token.key
         /\ Mirrored(frames, g.frames, ~token.key)
         /\ frames # <<>> /\ g.frames # <<>> /\ g.frames \in Seq(Frame)
<1>1. status = "Active"
  BY ReadingFacts
<1>2. frames # <<>>
  BY TokenFacts
<1>3. Echoes(g, frames, token, output, started)
  BY <1>1 DEF EchoInv
<1>4. Mirrored(frames, g.frames, ~token.key)
  BY <1>3 DEF Echoes
<1> QED BY <1>2, <1>3, <1>4 DEF Echoes, Mirrored

(* Where no scalar is written the second reading stands at a stack.        *)
LEMMA EchoOfStack ==
  ASSUME Inv, EchoInv, Reading, token = None \/ token.destination # "Output",
         NEW g, g = ReadAll(plan, output)
  PROVE  /\ g = Known(g.frames, g.token, <<>>, output, started)
         /\ \E G : StandsAt(g, G) /\ Mirrored(frames, G, FALSE)
<1>1. status = "Active"
  BY ReadingFacts
<1> QED BY <1>1 DEF EchoInv, Echoes

(* Nothing is written of a scalar that is dropped, or not yet.             *)
LEMMA EchoSilent ==
  ASSUME Inv, EchoInv, Reading, token = None \/ token.destination # "Output",
         plan' = plan, output' = output, started' = started,
         \A G : Mirrored(frames, G, FALSE) => Mirrored(frames', G, FALSE),
         token' = None \/ token'.destination # "Output",
         token' # None /\ token'.destination = "LookupKey" => Spells(plan, key', token'.scalar)
  PROVE  EchoInv'
<1> DEFINE g == ReadAll(plan, output)
<1>1. PICK G : StandsAt(g, G) /\ Mirrored(frames, G, FALSE)
  BY EchoOfStack
<1>2. g = Known(g.frames, g.token, <<>>, output, started)
  BY EchoOfStack
<1> HIDE DEF g
<1>3. Mirrored(frames', G, FALSE)
  BY <1>1
<1>4. Echoes(g, frames', token', output', started')
  BY <1>1, <1>2, <1>3 DEF Echoes
<1> QED BY <1>4, EchoNext DEF g

(* A value is dropped where its rule says so.                              *)
LEMMA DroppedValue ==
  ASSUME Inv, Reading, token # None, ~token.key, token.destination # "Output"
  PROVE  /\ token.destination = "Discard" /\ Top.expect \in ValueExpect
         /\ AskedBy(Top) = Discard
         /\ \A G : Mirrored(frames, G, FALSE) => Mirrored(ValueDone(frames), G, FALSE)
<1>1. Top.expect \in ValueExpect /\ AskedBy(Top) = Discard /\ token.destination = "Discard"
  BY InvParts DEF TokenFits
<1>2. frames # <<>> /\ FrameFits(Top)
  BY TokenFacts
<1> QED BY <1>1, <1>2, MirrorDropped DEF Top

LEMMA NumberEndsEchoes ==
  ASSUME Inv, EchoInv, NumberEnds
  PROVE  EchoInv'
<1>1. /\ Reading /\ token # None /\ Push(token.scalar, Input).advance = "Delimiter" /\ ~token.key
      /\ token' = None /\ frames' = ValueDone(frames) /\ plan' = plan /\ key' = key
      /\ output' = output /\ started' = started
  BY DEF NumberEnds, Scanning
<1>2. CASE token.destination = "Output"
  <2> DEFINE g == ReadAll(plan, output)
             G == ValueDone(g.frames)
  <2>1. /\ g = Known(g.frames, g.token, <<>>, output, started)
        /\ g.token # None /\ g.token \in Token /\ g.token.scalar = token.scalar
        /\ g.token.key = token.key /\ Mirrored(frames, g.frames, ~token.key)
        /\ g.frames # <<>> /\ g.frames \in Seq(Frame)
    BY <1>1, <1>2, EchoOfScalar
  <2> HIDE DEF g
  <2>2. (~token.key) = TRUE
    BY <1>1
  <2>3. Mirrored(frames', G, FALSE)
    BY <1>1, <2>1, <2>2, MirrorDone
  <2>4. Over(g.token)
    <3>1. token.scalar \in ScalarState
      BY <1>1, TokenFacts
    <3> QED BY <1>1, <2>1, <3>1, NumberOver DEF Over
  <2>5. StandsAt(g, G)
    BY <2>1, <2>4 DEF StandsAt
  <2> HIDE DEF G
  <2>6. Echoes(g, frames', token', output', started')
    BY <1>1, <2>1, <2>3, <2>5 DEF Echoes
  <2> QED BY <1>1, <2>6, EchoNext DEF g
<1>3. CASE token.destination # "Output"
  BY <1>1, <1>3, DroppedValue, EchoSilent
<1> QED BY <1>2, <1>3

LEMMA ValueEndsEchoes ==
  ASSUME Inv, EchoInv, ValueEnds
  PROVE  EchoInv'
<1>1. /\ Reading /\ token # None /\ Push(token.scalar, Input).advance = "Complete" /\ ~token.key
      /\ token' = None /\ frames' = ValueDone(frames) /\ plan' = plan /\ started' = started
      /\ Write(token.destination, <<Input>>)
  BY DEF ValueEnds, Scanning, Advanced
<1>2. Input \in Byte /\ output \in Seq(Byte)
  BY <1>1, ReadingFacts, InvParts
<1>3. output' = Added(output, Input, token.destination = "Output")
  BY <1>1, <1>2, WritesByte
<1>4. CASE token.destination = "Output"
  <2> DEFINE g == ReadAll(plan, output)
             G == ValueDone(g.frames)
  <2>1. /\ g = Known(g.frames, g.token, <<>>, output, started)
        /\ g.token # None /\ g.token.scalar = token.scalar
        /\ g.token.key = token.key /\ Mirrored(frames, g.frames, ~token.key)
        /\ g.token.destination = "Output"
    BY <1>1, <1>4, EchoOfScalar
  <2>2. (~token.key) = TRUE
    BY <1>1
  <2>3. Mirrored(frames', G, FALSE)
    BY <1>1, <2>1, <2>2, MirrorDone
  <2>4. output' = Append(output, Input)
    BY <1>3, <1>4 DEF Added
  <2>5. ReadAll(plan, output') = Known(G, None, <<>>, output', started)
    <3>1. ReadAll(plan, Append(output, Input))
            = Known(G, None, Added(<<>>, Input, g.token.destination = "LookupKey"),
                    Added(output, Input, g.token.destination = "Output"), started)
      BY <1>1, <1>2, <2>1, ReadOnScalar
    <3> QED BY <2>1, <2>4, <3>1 DEF Added
  <2> HIDE DEF g, G
  <2> DEFINE h == Known(G, None, <<>>, output', started)
  <2>6. h.token = None /\ h.frames = G
    BY KnownFields
  <2>7. StandsAt(h, G) /\ h = Known(h.frames, h.token, <<>>, output', started)
    BY <2>6 DEF StandsAt
  <2> HIDE DEF h
  <2>8. Echoes(h, frames', token', output', started')
    BY <1>1, <2>3, <2>7 DEF Echoes
  <2> QED BY <1>1, <2>5, <2>8, EchoNext DEF h
<1>5. CASE token.destination # "Output"
  <2>1. output' = output
    BY <1>3, <1>5 DEF Added
  <2> QED BY <1>1, <1>5, <2>1, DroppedValue, EchoSilent
<1> QED BY <1>4, <1>5

(* A key that is to be looked up goes on.                                  *)
LookupToken(s, n) == [scalar |-> s, destination |-> "LookupKey", key |-> TRUE, start |-> n]

LEMMA LookupTokenFacts ==
  ASSUME NEW s \in ScalarState, NEW n \in Nat
  PROVE  /\ LookupToken(s, n) \in Token /\ LookupToken(s, n) # None
         /\ LookupToken(s, n).scalar = s /\ LookupToken(s, n).destination = "LookupKey"
         /\ LookupToken(s, n).key /\ LookupToken(s, n).start = n
         /\ \A s2 \in ScalarState : Lexed(LookupToken(s, n), s2) = LookupToken(s2, n)
<1>1. LookupToken(s, n) \in Token
  BY DEF LookupToken, Token, Destination
<1>2. \A s2 \in ScalarState : Lexed(LookupToken(s, n), s2) = LookupToken(s2, n)
  <2> SUFFICES ASSUME NEW s2 \in ScalarState
               PROVE  Lexed(LookupToken(s, n), s2) = LookupToken(s2, n)
    OBVIOUS
  <2>1. ASSUME NEW k, NEW d
        PROVE  [[scalar |-> s, destination |-> d, key |-> k, start |-> n] EXCEPT !.scalar = s2]
                 = [scalar |-> s2, destination |-> d, key |-> k, start |-> n]
    OBVIOUS
  <2> QED BY <2>1 DEF LookupToken, Lexed
<1> QED BY <1>1, <1>2, NoneIsNoToken DEF LookupToken

LEMMA SpellsOn ==
  ASSUME NEW raw \in Seq(Byte), NEW s \in ScalarState, Spells(plan, raw, s),
         NEW b \in Byte, Push(s, b).advance = "Consumed"
  PROVE  Spells(plan, Append(raw, b), Push(s, b).state)
<1> DEFINE s2 == Push(s, b).state
<1>1. s2 \in ScalarState
  BY PushTyped DEF Answer
<1> SUFFICES ASSUME NEW x \in Seq(Byte), KeyDue(ReadAll(plan, x))
             PROVE  ReadAll(plan, x \o Append(raw, b)) =
                      Known(ReadAll(plan, x).frames, LookupToken(s2, Len(x)), Append(raw, b),
                            ReadAll(plan, x).output, ReadAll(plan, x).started)
  BY DEF Spells, LookupToken
<1> DEFINE h == ReadAll(plan, x)
           t == LookupToken(s, Len(x))
<1>2. ReadAll(plan, x \o raw) = Known(h.frames, t, raw, h.output, h.started)
  BY DEF Spells, LookupToken
<1>3. Len(x) \in Nat
  OBVIOUS
<1>4. /\ t # None /\ t.scalar = s /\ t.destination = "LookupKey"
      /\ Lexed(t, s2) = LookupToken(s2, Len(x))
  BY <1>1, <1>3, LookupTokenFacts
<1>5. PICK z : z = x \o raw
  OBVIOUS
<1>6. z \in Seq(Byte) /\ x \o Append(raw, b) = Append(z, b)
  BY <1>5, AppendConcat
<1> HIDE DEF h, t
<1>7. ReadAll(plan, z) = Known(h.frames, t, raw, h.output, h.started)
  BY <1>2, <1>5
<1>8. ReadAll(plan, Append(z, b)) = Known(h.frames, Lexed(t, s2), Append(raw, b), h.output, h.started)
  <2>1. ReadAll(plan, Append(z, b))
          = Known(h.frames, Lexed(t, Push(t.scalar, b).state),
                  Added(raw, b, t.destination = "LookupKey"),
                  Added(h.output, b, t.destination = "Output"), h.started)
    BY <1>4, <1>6, <1>7, ReadOnScalar
  <2> QED BY <1>4, <2>1 DEF Added
<1> QED BY <1>4, <1>6, <1>8 DEF h

LEMMA SpellsSpan ==
  ASSUME NEW raw \in Seq(Byte), NEW s \in ScalarState, Spells(plan, raw, s),
         NEW y \in Seq(Byte), \A i \in 1 .. Len(y) : SpanByte(s, y[i])
  PROVE  Spells(plan, raw \o y, s)
<1> SUFFICES ASSUME NEW x \in Seq(Byte), KeyDue(ReadAll(plan, x))
             PROVE  ReadAll(plan, x \o (raw \o y)) =
                      Known(ReadAll(plan, x).frames, LookupToken(s, Len(x)), raw \o y,
                            ReadAll(plan, x).output, ReadAll(plan, x).started)
  BY DEF Spells, LookupToken
<1> DEFINE h == ReadAll(plan, x)
           t == LookupToken(s, Len(x))
<1>1. ReadAll(plan, x \o raw) = Known(h.frames, t, raw, h.output, h.started)
  BY DEF Spells, LookupToken
<1>2. Len(x) \in Nat /\ h.output \in Seq(Byte)
  BY DEF KeyDue
<1>3. t \in Token /\ t.scalar = s /\ t.destination = "LookupKey"
  BY <1>2, LookupTokenFacts
<1>4. PICK z : z = x \o raw
  OBVIOUS
<1>5. z \in Seq(Byte) /\ x \o (raw \o y) = z \o y
  BY <1>4, ConcatAssociative
<1> HIDE DEF h, t
<1>6. ReadAll(plan, z) = Known(h.frames, t, raw, h.output, h.started)
  BY <1>1, <1>4
<1>7. \A i \in 1 .. Len(y) : SpanByte(t.scalar, y[i])
  BY <1>3
<1>8. ReadAll(plan, z \o y) = Known(h.frames, t, raw \o y, h.output, h.started)
  <2>1. ReadAll(plan, z \o y)
          = Known(h.frames, t, IF t.destination = "LookupKey" THEN raw \o y ELSE raw,
                  IF t.destination = "Output" THEN h.output \o y ELSE h.output, h.started)
    <3>1. PICK fs, o, root : fs = h.frames /\ o = h.output /\ root = h.started
      OBVIOUS
    <3>2. o \in Seq(Byte) /\ t \in Token /\ ReadAll(plan, z) = Known(fs, t, raw, o, root)
      BY <1>2, <1>3, <1>6, <3>1 DEF h
    <3>3. z \in Seq(Byte)
      BY <1>5
    <3>4. ReadAll(plan, z \o y)
            = Known(fs, t, IF t.destination = "LookupKey" THEN raw \o y ELSE raw,
                    IF t.destination = "Output" THEN o \o y ELSE o, root)
      BY <1>7, <3>2, <3>3, ReadOnSpan
    <3> QED BY <3>1, <3>4
  <2> QED BY <1>3, <2>1
<1> QED BY <1>5, <1>8 DEF h, t

(* A key is looked up where its frame selects.                             *)
LEMMA ScalarByteEchoes ==
  ASSUME Inv, EchoInv, ScalarByte
  PROVE  EchoInv'
<1> DEFINE s == Push(token.scalar, Input).state
<1>1. /\ Reading /\ token # None /\ Push(token.scalar, Input).advance = "Consumed"
      /\ token' = [token EXCEPT !.scalar = s] /\ frames' = frames /\ plan' = plan
      /\ started' = started /\ Write(token.destination, <<Input>>)
  BY DEF ScalarByte, Scanning, Advanced
<1>2. /\ Input \in Byte /\ output \in Seq(Byte) /\ key \in Seq(Byte) /\ status = "Active"
      /\ token \in Token /\ token.scalar \in ScalarState
  BY <1>1, ReadingFacts, InvParts, TokenFacts
<1>3. /\ output' = Added(output, Input, token.destination = "Output")
      /\ key' = Added(key, Input, token.destination = "LookupKey")
  BY <1>1, <1>2, WritesByte
<1>4. s \in ScalarState
  BY <1>2, PushTyped DEF Answer
<1>5. /\ token' \in Token /\ token' # None /\ token'.scalar = s /\ token'.key = token.key
      /\ token'.destination = token.destination
  BY <1>1, <1>2, <1>4, TokenScalar, NoneIsNoToken
<1>6. CASE token.destination = "Output"
  <2> DEFINE g == ReadAll(plan, output)
             t == Lexed(g.token, s)
             h == Known(g.frames, t, <<>>, output', started)
  <2>1. /\ g = Known(g.frames, g.token, <<>>, output, started)
        /\ g.token # None /\ g.token \in Token /\ g.token.scalar = token.scalar
        /\ g.token.key = token.key /\ Mirrored(frames, g.frames, ~token.key)
        /\ g.token.destination = "Output"
    BY <1>1, <1>6, EchoOfScalar
  <2>2. output' = Append(output, Input)
    BY <1>3, <1>6 DEF Added
  <2>3. ReadAll(plan, output') = h
    <3>1. ReadAll(plan, Append(output, Input))
            = Known(g.frames, Lexed(g.token, Push(g.token.scalar, Input).state),
                    Added(<<>>, Input, g.token.destination = "LookupKey"),
                    Added(output, Input, g.token.destination = "Output"), started)
      BY <1>1, <1>2, <2>1, ReadOnScalar
    <3> QED BY <2>1, <2>2, <3>1 DEF Added
  <2> HIDE DEF g, s
  <2>4. /\ t \in Token /\ t # None /\ t.scalar = s /\ t.key = token.key
        /\ t.destination = "Output"
    BY <1>4, <2>1, TokenScalar, NoneIsNoToken DEF Lexed
  <2> HIDE DEF t
  <2>5. h.token = t /\ h.frames = g.frames
    BY KnownFields
  <2>6. h = Known(h.frames, h.token, <<>>, output', started)
    BY <2>5
  <2> HIDE DEF h
  <2>7. Echoes(h, frames', token', output', started')
    BY <1>1, <1>5, <1>6, <2>1, <2>4, <2>5, <2>6 DEF Echoes
  <2> QED BY <1>1, <1>5, <1>6, <2>3, <2>7, EchoNext
<1>7. CASE token.destination # "Output"
  <2>1. output' = output
    BY <1>3, <1>7 DEF Added
  <2>2. ASSUME token.destination = "LookupKey" PROVE Spells(plan, key', token'.scalar)
    <3>1. Spells(plan, key, token.scalar) /\ key' = Append(key, Input)
      BY <1>1, <1>2, <1>3, <2>2 DEF EchoInv, Added
    <3> QED BY <1>1, <1>2, <1>5, <3>1, SpellsOn
  <2> QED BY <1>1, <1>5, <1>7, <2>1, <2>2, EchoSilent
<1> QED BY <1>6, <1>7

LEMMA SpanEchoes ==
  ASSUME Inv, EchoInv, Span
  PROVE  EchoInv'
<1>1. PICK n \in 1 .. Len(Rest) :
        /\ IsSpan(token.scalar, Rest, n)
        /\ Write(token.destination, SubSeq(Rest, 1, n)) /\ Advanced(n)
  BY DEF Span
<1> DEFINE y == SubSeq(Rest, 1, n)
<1>2. /\ Reading /\ token # None /\ frames' = frames /\ token' = token /\ started' = started
      /\ plan' = plan
  BY <1>1 DEF Span, Advanced
<1>3. /\ output \in Seq(Byte) /\ key \in Seq(Byte) /\ status = "Active"
      /\ token \in Token /\ token.scalar \in ScalarState
  BY <1>2, ReadingFacts, InvParts, TokenFacts
<1>4. y \in Seq(Byte) /\ Len(y) = n /\ \A i \in 1 .. Len(y) : SpanByte(token.scalar, y[i])
  <2>1. Rest \in Seq(Byte)
    <3>1. 0 \in 0 .. Len(chunk) - index
      BY <1>2, InvParts DEF Reading
    <3> QED BY <3>1, EatenRest
  <2>2. n \in 1 .. Len(Rest) /\ Len(Rest) \in Nat /\ \A i \in 1 .. n : Rest[i] \in Byte
    BY <1>1, <2>1, ElementOfSeq
  <2>3. /\ 1 \in Int /\ n \in Int /\ (IF 1 <= n THEN n - 1 + 1 ELSE 0) = n /\ n - 1 + 1 = n
        /\ \A i \in 1 .. n : 1 + i - 1 = i
    BY <2>2
  <2>4. /\ y \in Seq(Byte) /\ Len(y) = IF 1 <= n THEN n - 1 + 1 ELSE 0
        /\ \A i \in 1 .. n - 1 + 1 : y[i] = Rest[1 + i - 1]
    BY <2>2, <2>3, SubSeqProperties
  <2>5. \A i \in 1 .. n : y[i] = Rest[i]
    BY <2>3, <2>4
  <2> HIDE DEF y
  <2> QED BY <1>1, <2>3, <2>4, <2>5 DEF IsSpan
<1> HIDE DEF y
<1>5. /\ output' = IF token.destination = "Output" THEN output \o y ELSE output
      /\ key' = IF token.destination = "LookupKey" THEN key \o y ELSE key
  BY <1>1 DEF Write, y
<1>6. CASE token.destination = "Output"
  <2> DEFINE g == ReadAll(plan, output)
             h == Known(g.frames, g.token, <<>>, output', started)
  <2>1. /\ g = Known(g.frames, g.token, <<>>, output, started)
        /\ g.token # None /\ g.token \in Token /\ g.token.scalar = token.scalar
        /\ g.token.key = token.key /\ Mirrored(frames, g.frames, ~token.key)
        /\ g.token.destination = "Output"
    BY <1>2, <1>6, EchoOfScalar
  <2> HIDE DEF g
  <2>2. ReadAll(plan, output') = h
    <3>1. <<>> \in Seq(Byte)
      OBVIOUS
    <3>2. ReadAll(plan, output \o y)
            = Known(g.frames, g.token, IF g.token.destination = "LookupKey" THEN <<>> \o y ELSE <<>>,
                    IF g.token.destination = "Output" THEN output \o y ELSE output, started)
      <4>1. PICK t, fs : t = g.token /\ fs = g.frames
        OBVIOUS
      <4>2. t \in Token /\ ReadAll(plan, output) = Known(fs, t, <<>>, output, started)
        BY <2>1, <4>1 DEF g
      <4>3. \A i \in 1 .. Len(y) : SpanByte(t.scalar, y[i])
        BY <1>4, <2>1, <4>1
      <4>4. ReadAll(plan, output \o y)
              = Known(fs, t, IF t.destination = "LookupKey" THEN <<>> \o y ELSE <<>>,
                      IF t.destination = "Output" THEN output \o y ELSE output, started)
        <5>1. output \in Seq(Byte) /\ y \in Seq(Byte)
          BY <1>3, <1>4
        <5>2. PICK x, root, k : x = output /\ root = started /\ k = <<>>
          OBVIOUS
        <5>3. k \in Seq(Byte) /\ x \in Seq(Byte) /\ ReadAll(plan, x) = Known(fs, t, k, x, root)
          BY <3>1, <4>2, <5>1, <5>2
        <5>4. ReadAll(plan, x \o y)
                = Known(fs, t, IF t.destination = "LookupKey" THEN k \o y ELSE k,
                        IF t.destination = "Output" THEN x \o y ELSE x, root)
          BY <4>2, <4>3, <5>1, <5>3, ReadOnSpan
        <5> QED BY <5>2, <5>4
      <4> QED BY <4>1, <4>4
    <3> QED BY <1>5, <1>6, <2>1, <3>2
  <2>3. h.token = g.token /\ h.frames = g.frames
    BY KnownFields
  <2>4. h = Known(h.frames, h.token, <<>>, output', started)
    BY <2>3
  <2> HIDE DEF h
  <2>5. Echoes(h, frames', token', output', started')
    BY <1>2, <1>6, <2>1, <2>3, <2>4 DEF Echoes
  <2> QED BY <1>2, <1>6, <2>2, <2>5, EchoNext
<1>7. CASE token.destination # "Output"
  <2>1. output' = output
    BY <1>5, <1>7
  <2>2. ASSUME token.destination = "LookupKey" PROVE Spells(plan, key', token'.scalar)
    <3>1. Spells(plan, key, token.scalar) /\ key' = key \o y
      BY <1>2, <1>3, <1>5, <2>2 DEF EchoInv
    <3> QED BY <1>2, <1>3, <1>4, <3>1, SpellsSpan
  <2> QED BY <1>2, <1>7, <2>1, <2>2, EchoSilent
<1> QED BY <1>6, <1>7

-----------------------------------------------------------------------------
(* Where a turn leaves the second reading.                                 *)

LEMMA MirrorBoth ==
  ASSUME NEW fs, NEW G, Mirrored(fs, G, FALSE), fs # <<>>, fs[Len(fs)].action # Discard,
         NEW f2, NEW h2, NEW busy \in BOOLEAN, Mirrors(f2, h2, busy),
         f2.action = fs[Len(fs)].action
  PROVE  Mirrored(Replaced(fs, f2), Replaced(G, h2), busy)
<1> DEFINE k == Len(fs)
<1>1. /\ fs \in Seq(Frame) /\ G \in Seq(Frame) /\ G # <<>> /\ Len(G) = k
      /\ f2 \in Frame /\ h2 \in Frame
  BY MirrorTop DEF Mirrored, Mirrors
<1>2. /\ Replaced(fs, f2) \in Seq(Frame) /\ Len(Replaced(fs, f2)) = k
      /\ \A i \in 1 .. k - 1 : Replaced(fs, f2)[i] = fs[i]
      /\ Replaced(fs, f2)[k] = f2
  BY <1>1, ReplacedFacts
<1>3. /\ Replaced(G, h2) \in Seq(Frame) /\ Len(Replaced(G, h2)) = k
      /\ \A i \in 1 .. k - 1 : Replaced(G, h2)[i] = G[i]
      /\ Replaced(G, h2)[k] = h2
  <2>1. /\ Replaced(G, h2) \in Seq(Frame) /\ Len(Replaced(G, h2)) = Len(G)
        /\ \A i \in 1 .. Len(G) - 1 : Replaced(G, h2)[i] = G[i]
        /\ Replaced(G, h2)[Len(G)] = h2
    BY <1>1, ReplacedFacts
  <2> QED BY <1>1, <2>1
<1>4. PICK fs2, G2 : fs2 = Replaced(fs, f2) /\ G2 = Replaced(G, h2)
  OBVIOUS
<1>5. /\ fs2 \in Seq(Frame) /\ Len(fs2) = Len(fs) /\ G2 \in Seq(Frame)
      /\ Len(G2) = Len(G) /\ Len(G) = Len(fs)
      /\ \A i \in 1 .. Len(fs) - 1 : fs2[i] = fs[i] /\ G2[i] = G[i]
      /\ fs2[Len(fs)] = f2 /\ G2[Len(fs)] = h2
  BY <1>1, <1>2, <1>3, <1>4
<1>6. Mirrored(fs2, G2, busy)
  <2>1. fs2[Len(fs)].action = fs[Len(fs)].action /\ Mirrors(fs2[Len(fs)], G2[Len(fs)], busy)
    BY <1>5
  <2> QED BY <1>5, <2>1, MirrorTops
<1> QED BY <1>4, <1>6

LEMMA MirrorOne ==
  ASSUME NEW fs, NEW G, Mirrored(fs, G, FALSE), fs # <<>>,
         NEW f2 \in Frame, f2.action = fs[Len(fs)].action,
         fs[Len(fs)].action # Discard => Mirrors(f2, G[Len(fs)], FALSE)
  PROVE  Mirrored(Replaced(fs, f2), G, FALSE)
<1>1. fs \in Seq(Frame)
  BY DEF Mirrored
<1>2. /\ Replaced(fs, f2) \in Seq(Frame) /\ Len(Replaced(fs, f2)) = Len(fs)
      /\ \A i \in 1 .. Len(fs) - 1 : Replaced(fs, f2)[i] = fs[i]
      /\ Replaced(fs, f2)[Len(fs)] = f2
  BY <1>1, ReplacedFacts
<1> QED BY <1>2, MirrorSilent

LEMMA EchoesAtStack ==
  ASSUME plan' = plan, token' = None \/ token'.destination # "Output", NEW G,
         ReadAll(plan, output') = Known(G, None, <<>>, output', started'),
         Mirrored(frames', G, FALSE),
         token' # None /\ token'.destination = "LookupKey" => Spells(plan, key', token'.scalar)
  PROVE  EchoInv'
<1> DEFINE h == Known(G, None, <<>>, output', started')
<1>1. h.token = None /\ h.frames = G
  BY KnownFields
<1>2. StandsAt(h, G) /\ h = Known(h.frames, h.token, <<>>, output', started')
  BY <1>1 DEF StandsAt
<1> HIDE DEF h
<1>3. Echoes(h, frames', token', output', started')
  BY <1>2 DEF Echoes
<1> QED BY <1>3, EchoNext DEF h

LEMMA EchoesInScalar ==
  ASSUME plan' = plan, NEW G, NEW t \in Token,
         ReadAll(plan, output') = Known(G, t, <<>>, output', started'),
         t.destination = "Output", token' # None, token'.destination = "Output",
         t.scalar = token'.scalar, t.key = token'.key, Mirrored(frames', G, ~token'.key)
  PROVE  EchoInv'
<1> DEFINE h == Known(G, t, <<>>, output', started')
<1>1. h.token = t /\ h.frames = G /\ t # None
  BY KnownFields, NoneIsNoToken
<1>2. h = Known(h.frames, h.token, <<>>, output', started')
  BY <1>1
<1> HIDE DEF h
<1>3. Echoes(h, frames', token', output', started')
  BY <1>1, <1>2 DEF Echoes
<1> QED BY <1>3, EchoNext DEF h

-----------------------------------------------------------------------------
(* The ends of keys.                                                       *)

LEMMA KeyEndRead ==
  ASSUME NEW H, NEW t, NEW k, NEW o, NEW root, NEW b
  PROVE  LET f     == H[Len(H)]
             raw   == Append(k, b)
             next  == Rule(f.action.node, raw)
             comma == IF f.emitted THEN <<Comma>> ELSE <<>>
         IN  /\ f.action.mode # "project" =>
                  AtKeyEnd(plan, Known(H, t, k, o, root), b)
                    = Known(Replaced(H, Keyed(f, f.action, f.emitted)), None, <<>>,
                            Added(o, b, t.destination = "Output"), root)
             /\ f.action.mode = "project" /\ IsUtf8(raw) =>
                  AtKeyEnd(plan, Known(H, t, k, o, root), b)
                    = Known(Replaced(H, Keyed(f, next, f.emitted \/ next # Discard)), None, <<>>,
                            IF next = Discard THEN o ELSE o \o comma \o raw, root)
<1> DEFINE r == Known(H, t, k, o, root)
<1>1. /\ r.token = t /\ r.frames = H /\ r.key = k /\ r.output = o /\ r.started = root
  BY KnownFields
<1>2. \A n : RuleFor(plan, n, Append(k, b)) = Rule(n, Append(k, b))
  BY SameRules
<1> HIDE DEF r
<1> QED BY <1>1, <1>2 DEF AtKeyEnd, WithTop, Replaced, r

LEMMA KeyedPlain ==
  ASSUME NEW f \in Frame
  PROVE  /\ Keyed(f, f.action, f.emitted) \in Frame
         /\ Keyed(f, f.action, f.emitted).action = f.action
         /\ Keyed(f, f.action, f.emitted).object = f.object
         /\ Keyed(f, f.action, f.emitted).emitted = f.emitted
         /\ Keyed(f, f.action, f.emitted).expect = "Colon"
         /\ Keyed(f, f.action, f.emitted).next = f.action
<1>1. f.action \in Action /\ f.emitted \in BOOLEAN
  BY FrameFields
<1>2. PICK next \in Action, emitted \in BOOLEAN : next = f.action /\ emitted = f.emitted
  BY <1>1
<1>3. /\ Keyed(f, next, emitted) \in Frame
      /\ Keyed(f, next, emitted).action = f.action
      /\ Keyed(f, next, emitted).object = f.object
      /\ Keyed(f, next, emitted).emitted = emitted
      /\ Keyed(f, next, emitted).expect = "Colon"
      /\ Keyed(f, next, emitted).next = next
  BY FrameKeyed
<1> QED BY <1>2, <1>3

LEMMA PlainKeyEndsEchoes ==
  ASSUME Inv, EchoInv, PlainKeyEnds
  PROVE  EchoInv'
<1> DEFINE f  == Top
           f2 == Keyed(f, f.action, f.emitted)
<1>1. /\ Reading /\ token # None /\ Push(token.scalar, Input).advance = "Complete" /\ token.key
      /\ Top.action.mode # "project" /\ token' = None /\ started' = started /\ plan' = plan
      /\ frames' = Replaced(frames, f2)
      /\ output' = Added(output, Input, token.destination = "Output")
  BY DEF PlainKeyEnds, Scanning, Advanced, Replaced, Top, Added
<1>2. /\ Input \in Byte /\ output \in Seq(Byte) /\ frames # <<>> /\ f \in Frame
      /\ f.action \in Action /\ f.emitted \in BOOLEAN
  BY <1>1, ReadingFacts, InvParts, TokenFacts, FrameFields
<1>3. /\ f2 \in Frame /\ f2.action = f.action /\ f2.object = f.object
      /\ f2.emitted = f.emitted /\ f2.expect = "Colon" /\ f2.next = f.action
  BY <1>2, KeyedPlain
<1>4. token.destination = CASE f.action.mode = "copy"    -> "Output"
                            [] f.action.mode = "discard" -> "Discard"
                            [] f.action.mode = "project" -> "LookupKey"
  BY <1>1, InvParts DEF TokenFits
<1>5. f.action.mode \in {"copy", "discard", "project"}
  BY <1>2 DEF Action
<1> HIDE DEF f2
<1>6. CASE f.action.mode = "copy"
  <2> DEFINE g  == ReadAll(plan, output)
             h  == g.frames[Len(g.frames)]
             h2 == Keyed(h, h.action, h.emitted)
  <2>0. token.destination = "Output" /\ f.action # Discard
    BY <1>4, <1>6, ActionTyped
  <2>1. /\ g = Known(g.frames, g.token, <<>>, output, started)
        /\ g.token # None /\ g.token.scalar = token.scalar
        /\ g.token.destination = "Output" /\ g.token.key = token.key
        /\ Mirrored(frames, g.frames, ~token.key)
    BY <1>1, <2>0, EchoOfScalar
  <2> HIDE DEF g
  <2>2. Mirrored(frames, g.frames, FALSE)
    <3>1. (~token.key) = FALSE
      BY <1>1
    <3> QED BY <2>1, <3>1
  <2>3. Mirrors(f, h, FALSE)
    BY <1>2, <2>0, <2>2, MirrorTop DEF Top
  <2>4. h \in Frame /\ h.action = f.action /\ h.object = f.object /\ h.emitted = f.emitted
    BY <2>3 DEF Mirrors
  <2> HIDE DEF h
  <2>5. /\ h2 \in Frame /\ h2.action = f.action /\ h2.object = f.object
        /\ h2.emitted = f.emitted /\ h2.expect = "Colon" /\ h2.next = f.action
    <3>1. /\ h2 \in Frame /\ h2.action = h.action /\ h2.object = h.object
          /\ h2.emitted = h.emitted /\ h2.expect = "Colon" /\ h2.next = h.action
      BY <2>4, KeyedPlain
    <3> QED BY <2>4, <3>1
  <2> HIDE DEF h2
  <2>6. Mirrors(f2, h2, FALSE)
    BY <1>1, <1>3, <2>3, <2>5 DEF Mirrors, Shows, Wrote
  <2>7. Mirrored(frames', Replaced(g.frames, h2), FALSE)
    BY <1>1, <1>2, <1>3, <2>0, <2>2, <2>6, MirrorBoth DEF Top
  <2>8. ReadAll(plan, output') = Known(Replaced(g.frames, h2), None, <<>>, output', started)
    <3>1. ReadAll(plan, Append(output, Input)) = AtKeyEnd(plan, g, Input)
      <4>1. /\ Push(g.token.scalar, Input).advance = "Complete" /\ g.token.key
            /\ g = ReadAll(plan, output)
        BY <1>1, <2>1 DEF g
      <4> QED BY <1>2, <2>1, <4>1, ReadOnScalar
    <3>2. h.action.mode # "project"
      BY <1>1, <2>4
    <3>3. AtKeyEnd(plan, Known(g.frames, g.token, <<>>, output, started), Input)
            = Known(Replaced(g.frames, h2), None, <<>>,
                    Added(output, Input, g.token.destination = "Output"), started)
      BY <3>2, KeyEndRead DEF h, h2
    <3>4. output' = Append(output, Input)
      BY <1>1, <2>0 DEF Added
    <3> QED BY <2>1, <3>1, <3>3, <3>4 DEF Added
  <2> QED BY <1>1, <2>7, <2>8, EchoesAtStack
<1>7. CASE f.action.mode = "discard"
  <2>1. token.destination = "Discard"
    BY <1>4, <1>7
  <2>2. output' = output
    BY <1>1, <2>1 DEF Added
  <2>3. ASSUME NEW G, Mirrored(frames, G, FALSE) PROVE Mirrored(frames', G, FALSE)
    <3>1. f.action = Discard
      <4>1. SUFFICES ASSUME f.action # Discard PROVE f.action = Discard
        OBVIOUS
      <4>2. Mirrors(f, G[Len(G)], FALSE)
        BY <1>2, <2>3, <4>1, MirrorTop DEF Top
      <4> QED BY <1>7, <4>2, ActionTyped DEF Mirrors, Plain
    <3> QED BY <1>1, <1>2, <1>3, <2>3, <3>1, MirrorOne DEF Top
  <2> QED BY <1>1, <2>1, <2>2, <2>3, EchoSilent
<1> QED BY <1>1, <1>5, <1>6, <1>7
-----------------------------------------------------------------------------
(* A byte more inside a container.                                         *)

LEMMA InsideAny ==
  ASSUME NEW G, NEW o, NEW root, NEW b, NEW n, NEW r, r = Known(G, None, <<>>, o, root),
         NEW h, h = G[Len(G)]
  PROVE  /\ b \in Whitespace =>
              AtInside(plan, r, b, n) = Known(G, None, <<>>, Added(o, b, KeptSpace(h)), root)
         /\ b \notin Whitespace /\ IsClose(h, b) =>
              AtInside(plan, r, b, n)
                = Known(ValueDone(SubSeq(G, 1, Len(G) - 1)), None, <<>>,
                        Added(o, b, h.action # Discard), root)
         /\ b \notin Whitespace /\ ~IsClose(h, b) /\ h.expect \in ValueExpect =>
              AtInside(plan, r, b, n) = AtValue(plan, r, h, b, n)
         /\ b \notin Whitespace /\ ~IsClose(h, b) /\ h.expect \notin ValueExpect =>
              AtInside(plan, r, b, n) = AtMember(r, h, b, n)
<1>1. r.token = None /\ r.frames = G /\ r.key = <<>> /\ r.output = o /\ r.started = root
  BY KnownFields
<1> QED BY <1>1 DEF AtInside

LEMMA ColonAny ==
  ASSUME NEW G, NEW o, NEW root, NEW n, NEW r, r = Known(G, None, <<>>, o, root), NEW h,
         h.expect = "Colon"
  PROVE  AtMember(r, h, Colon, n)
           = Known(Expecting(G, "ObjectValue"), None, <<>>, Added(o, Colon, h.next # Discard), root)
<1>1. r.token = None /\ r.frames = G /\ r.key = <<>> /\ r.output = o /\ r.started = root
  BY KnownFields
<1> QED BY <1>1 DEF AtMember

LEMMA CommaAny ==
  ASSUME NEW G, NEW o, NEW root, NEW n, NEW r, r = Known(G, None, <<>>, o, root), NEW h, NEW e,
         \/ h.expect = "ObjectComma" /\ e = "ObjectKey"
         \/ h.expect = "ArrayComma" /\ e = "ArrayValue"
  PROVE  AtMember(r, h, Comma, n)
           = Known(Expecting(G, e), None, <<>>, Added(o, Comma, h.action = Copy), root)
<1>1. r.token = None /\ r.frames = G /\ r.key = <<>> /\ r.output = o /\ r.started = root
  BY KnownFields
<1>2. CASE h.expect = "ObjectComma" /\ e = "ObjectKey"
  BY <1>1, <1>2 DEF AtMember
<1>3. CASE h.expect = "ArrayComma" /\ e = "ArrayValue"
  BY <1>1, <1>3 DEF AtMember
<1> QED BY <1>2, <1>3

LEMMA EchoStands ==
  ASSUME Inv, EchoInv, Reading, frames # <<>>, token = None \/ token.destination # "Output"
  PROVE  \E G : /\ Mirrored(frames, G, FALSE) /\ G # <<>> /\ G \in Seq(Frame)
                /\ StandsAt(ReadAll(plan, output), G)
                /\ \A b \in Byte :
                     b \in Ender \/ G[Len(G)].expect \notin {"ObjectComma", "ArrayComma"} =>
                       ReadAll(plan, Append(output, b))
                         = AtInside(plan, Known(G, None, <<>>, output, started), b, Len(output))
<1> DEFINE g == ReadAll(plan, output)
<1>1. g = Known(g.frames, g.token, <<>>, output, started)
  BY EchoOfStack
<1>2. PICK G : StandsAt(g, G) /\ Mirrored(frames, G, FALSE)
  BY EchoOfStack
<1>3. G # <<>> /\ G \in Seq(Frame) /\ output \in Seq(Byte)
  BY <1>2, InvParts DEF Mirrored
<1>4. ASSUME NEW b \in Byte,
             b \in Ender \/ G[Len(G)].expect \notin {"ObjectComma", "ArrayComma"}
      PROVE  ReadAll(plan, Append(output, b))
               = AtInside(plan, Known(G, None, <<>>, output, started), b, Len(output))
  <2>1. g = ReadAll(plan, output)
    OBVIOUS
  <2> HIDE DEF g
  <2> QED BY <1>1, <1>2, <1>3, <1>4, <2>1, ReadOn
<1> QED BY <1>2, <1>3, <1>4

(* What separates the next member or element of a container that selects   *)
(* is read where it is known to be kept.                                   *)
Due(f) == IF f.object THEN IF f.emitted THEN "ObjectKey" ELSE "ObjectFirst"
                      ELSE IF f.emitted THEN "ArrayValue" ELSE "ArrayFirst"

Separating == IF Top.emitted THEN Append(output, Comma) ELSE output

LEMMA SeparatorRead ==
  ASSUME Inv, EchoInv, Reading, frames # <<>>, token = None \/ token.destination # "Output",
         Top.action.mode = "project", AtRest(Top)
  PROVE  \E G, H :
           /\ Mirrored(frames, G, FALSE) /\ H \in Seq(Frame) /\ H # <<>>
           /\ Len(H) = Len(frames) /\ Len(G) = Len(frames)
           /\ \A i \in 1 .. Len(frames) - 1 : H[i] = G[i]
           /\ H[Len(frames)] \in Frame /\ H[Len(frames)].action = Top.action
           /\ H[Len(frames)].object = Top.object /\ H[Len(frames)].emitted = Top.emitted
           /\ H[Len(frames)].expect = Due(Top)
           /\ ReadAll(plan, Separating) = Known(H, None, <<>>, output, started)
           /\ Separating \in Seq(Byte)
<1> DEFINE f == Top
           k == Len(frames)
<1>1. PICK G : /\ Mirrored(frames, G, FALSE) /\ G # <<>> /\ G \in Seq(Frame)
               /\ StandsAt(ReadAll(plan, output), G)
               /\ \A b \in Byte :
                    b \in Ender \/ G[Len(G)].expect \notin {"ObjectComma", "ArrayComma"} =>
                      ReadAll(plan, Append(output, b))
                        = AtInside(plan, Known(G, None, <<>>, output, started), b, Len(output))
  BY EchoStands
<1> DEFINE h == G[k]
<1>2. f.action # Discard
  BY ActionTyped
<1>3. Len(G) = k /\ Mirrors(f, h, FALSE) /\ k \in Nat \ {0}
  BY <1>1, <1>2, MirrorTop DEF Top
<1>4. /\ h \in Frame /\ h.action = f.action /\ h.object = f.object /\ h.emitted = f.emitted
      /\ h.expect = IF f.object THEN IF f.emitted THEN "ObjectComma" ELSE "ObjectFirst"
                                ELSE IF f.emitted THEN "ArrayComma" ELSE "ArrayFirst"
  BY <1>3 DEF Mirrors, Shows, AtRest
<1>5. output \in Seq(Byte) /\ Comma \in Byte /\ Append(output, Comma) \in Seq(Byte)
  <2>1. output \in Seq(Byte) /\ Comma \in Byte
    BY InvParts, BytesTyped
  <2> QED BY <2>1
<1>6. CASE ~f.emitted
  <2>1. h.expect \notin {"ObjectComma", "ArrayComma"} /\ h.expect = Due(f)
    BY <1>4, <1>6 DEF Due
  <2> DEFINE g == ReadAll(plan, output)
  <2>2. g.token = None /\ g.frames = G
    <3>1. SUFFICES ASSUME g.frames \in Seq(Frame), g.frames # <<>>, G = ValueDone(g.frames)
                   PROVE  FALSE
      BY <1>1 DEF StandsAt
    <3> HIDE DEF g
    <3>2. /\ Len(G) = Len(g.frames) /\ G[Len(G)] = AfterValue(g.frames[Len(g.frames)])
          /\ g.frames[Len(g.frames)] \in Frame
      BY <3>1, DoneTop, ElementOfSeq
    <3>3. G[Len(G)].expect \in {"ObjectComma", "ArrayComma"}
      BY <3>2, AfterValueFacts
    <3> QED BY <1>3, <2>1, <3>3
  <2>3. g = Known(g.frames, g.token, <<>>, output, started)
    BY EchoOfStack
  <2>4. ReadAll(plan, output) = Known(G, None, <<>>, output, started)
    BY <2>2, <2>3
  <2>5. Separating = output
    BY <1>6 DEF Separating
  <2> HIDE DEF h, g
  <2>6. /\ h = G[k] /\ \A i \in 1 .. k - 1 : G[i] = G[i]
    BY DEF h
  <2> QED BY <1>1, <1>3, <1>4, <1>5, <2>1, <2>4, <2>5, <2>6
<1>7. CASE f.emitted
  <2> DEFINE e == IF f.object THEN "ObjectKey" ELSE "ArrayValue"
             H == Expecting(G, e)
             h2 == [h EXCEPT !.expect = e]
  <2>1. /\ h2 \in Frame /\ h2.expect = e /\ h2.action = h.action
        /\ h2.emitted = h.emitted /\ h2.object = h.object
    <3>1. e \in Expect
      BY DEF Expect
    <3> HIDE DEF e, h
    <3> QED BY <1>4, <3>1, FrameExpect
  <2>2. e = Due(f)
    BY <1>7 DEF Due
  <2>3. H = Replaced(G, h2)
    BY <1>3 DEF Expecting, Replaced
  <2>4. ReadAll(plan, Append(output, Comma)) = Known(H, None, <<>>, output, started)
    <3> DEFINE r == Known(G, None, <<>>, output, started)
    <3>1. ReadAll(plan, Append(output, Comma)) = AtInside(plan, r, Comma, Len(output))
      BY <1>1, <1>5 DEF Ender
    <3>2. Comma \notin Whitespace /\ ~IsClose(h, Comma)
      BY DEF Comma, Whitespace, IsClose, RBrace, RBracket
    <3>3. h.expect = (IF f.object THEN "ObjectComma" ELSE "ArrayComma") /\ h.expect \notin ValueExpect
      BY <1>4, <1>7 DEF ValueExpect
    <3>4. h = G[Len(G)] /\ r = Known(G, None, <<>>, output, started)
      BY <1>3
    <3> HIDE DEF h, r
    <3>5. AtInside(plan, r, Comma, Len(output)) = AtMember(r, h, Comma, Len(output))
      BY <3>2, <3>3, <3>4, InsideAny
    <3>6. AtMember(r, h, Comma, Len(output))
            = Known(H, None, <<>>, Added(output, Comma, h.action = Copy), started)
      <4>1. \/ h.expect = "ObjectComma" /\ e = "ObjectKey"
            \/ h.expect = "ArrayComma" /\ e = "ArrayValue"
        BY <3>3
      <4> HIDE DEF e
      <4> QED BY <3>4, <4>1, CommaAny
    <3>7. h.action # Copy
      BY <1>4, ActionTyped
    <3> QED BY <3>1, <3>5, <3>6, <3>7 DEF Added
  <2>5. Separating = Append(output, Comma)
    BY <1>7 DEF Separating
  <2> HIDE DEF H, h2, e, h
  <2>6. /\ H \in Seq(Frame) /\ Len(H) = k /\ \A i \in 1 .. k - 1 : H[i] = G[i]
        /\ H[k] = h2
    <3>1. /\ Replaced(G, h2) \in Seq(Frame) /\ Len(Replaced(G, h2)) = Len(G)
          /\ \A i \in 1 .. Len(G) - 1 : Replaced(G, h2)[i] = G[i]
          /\ Replaced(G, h2)[Len(G)] = h2
      BY <1>1, <2>1, ReplacedFacts
    <3> QED BY <1>3, <2>3, <3>1
  <2>7. H # <<>>
    BY <1>3, <2>6, EmptySeq
  <2> QED BY <1>1, <1>3, <1>4, <1>5, <2>1, <2>2, <2>4, <2>5, <2>6, <2>7
<1> QED BY <1>6, <1>7

LEMMA LookupKeyEndsEchoes ==
  ASSUME Inv, EchoInv, LookupKeyEnds
  PROVE  EchoInv'
<1> DEFINE f     == Top
           k     == Len(frames)
           raw   == Append(key, Input)
           next  == Rule(f.action.node, raw)
           comma == IF f.emitted THEN <<Comma>> ELSE <<>>
           f2    == Keyed(f, next, f.emitted \/ next # Discard)
<1>1. /\ Reading /\ token # None /\ Push(token.scalar, Input).advance = "Complete" /\ token.key
      /\ f.action.mode = "project" /\ token' = None /\ started' = started /\ plan' = plan
      /\ frames' = Replaced(frames, f2) /\ IsUtf8(raw)
      /\ output' = IF next = Discard THEN output ELSE output \o comma \o raw
  BY DEF LookupKeyEnds, Scanning, Advanced, Replaced, Top
<1>2. /\ Input \in Byte /\ output \in Seq(Byte) /\ key \in Seq(Byte) /\ frames # <<>>
      /\ f \in Frame /\ f.emitted \in BOOLEAN /\ status = "Active"
      /\ token \in Token /\ token.scalar \in ScalarState /\ k \in Nat \ {0}
  BY <1>1, ReadingFacts, InvParts, TokenFacts, FrameFields
<1>3. /\ f.object /\ f.expect \in {"ObjectFirst", "ObjectKey"}
      /\ token.destination = "LookupKey"
  BY <1>1, KeyToken, InvParts DEF TokenFits
<1>4. next \in Action /\ Plain(next)
  <2>1. /\ f.action.node \in 0 .. Len(plan) - 1 /\ plan \in Plans
        /\ Node(f.action.node).kind \in {"Object", "ExcludeObject"}
    BY <1>1, KeyToken, InvParts
  <2>2. next \in Action
    <3> HIDE DEF raw
    <3> QED BY <2>1, RuleFacts
  <2>3. next.mode # "project" => next \in {Copy, Discard}
    <3> HIDE DEF raw, f
    <3>1. \A n : Project(n).mode = "project"
      BY ActionTyped
    <3> QED BY <3>1 DEF Rule
  <2> QED BY <2>2, <2>3 DEF Plain
<1>5. /\ f2 \in Frame /\ f2.action = f.action /\ f2.object = f.object
      /\ f2.expect = "Colon" /\ f2.next = next /\ f2.emitted = (f.emitted \/ next # Discard)
  <2>1. PICK nx \in Action, em \in BOOLEAN : nx = next /\ em = (f.emitted \/ next # Discard)
    BY <1>4
  <2>2. /\ Keyed(f, nx, em) \in Frame
        /\ Keyed(f, nx, em).action = f.action /\ Keyed(f, nx, em).object = f.object
        /\ Keyed(f, nx, em).emitted = em /\ Keyed(f, nx, em).expect = "Colon"
        /\ Keyed(f, nx, em).next = nx
    BY <1>2, FrameKeyed
  <2> QED BY <2>1, <2>2
<1>6. AtRest(f) /\ f.action # Discard
  BY <1>1, <1>3, ActionTyped DEF AtRest
<1> HIDE DEF f2, next
<1>7. CASE next = Discard
  <2>1. ASSUME NEW G, Mirrored(frames, G, FALSE) PROVE Mirrored(frames', G, FALSE)
    <3>1. Mirrors(f, G[k], FALSE)
      BY <1>2, <1>6, <2>1, MirrorTop DEF Top
    <3>2. f2.emitted = f.emitted
      BY <1>2, <1>5, <1>7
    <3>3. AtRest(f2) /\ Wrote(f2, FALSE) /\ Plain(f2.next)
      BY <1>4, <1>5, <1>7 DEF AtRest, Wrote
    <3>4. Mirrors(f2, G[k], FALSE)
      BY <1>1, <1>5, <1>6, <3>1, <3>2, <3>3, MirrorRests
    <3> QED BY <1>1, <1>2, <1>5, <2>1, <3>4, MirrorOne DEF Top
  <2> QED BY <1>1, <1>3, <1>7, <2>1, EchoSilent
<1>8. CASE next # Discard
  <2> DEFINE z == Separating
  <2>1. PICK G, H :
           /\ Mirrored(frames, G, FALSE) /\ H \in Seq(Frame) /\ H # <<>>
           /\ Len(H) = k /\ Len(G) = k
           /\ \A i \in 1 .. k - 1 : H[i] = G[i]
           /\ H[k] \in Frame /\ H[k].action = f.action
           /\ H[k].object = f.object /\ H[k].emitted = f.emitted
           /\ H[k].expect = Due(f)
           /\ ReadAll(plan, z) = Known(H, None, <<>>, output, started)
           /\ z \in Seq(Byte)
    BY <1>1, <1>2, <1>3, <1>6, SeparatorRead DEF Top
  <2> DEFINE h  == H[k]
             h2 == Keyed(h, next, TRUE)
             t  == LookupToken(token.scalar, Len(z))
  <2>2. h.expect \in {"ObjectFirst", "ObjectKey"}
    BY <1>3, <2>1 DEF Due
  <2>3. KeyDue(ReadAll(plan, z))
    <3>1. PICK r : r = ReadAll(plan, z)
      OBVIOUS
    <3>2. r.frames = H /\ r.token = None /\ r.output = output /\ r.started = started
      BY <2>1, <3>1, KnownFields
    <3>3. r = Known(r.frames, None, <<>>, r.output, r.started)
      BY <2>1, <3>1, <3>2
    <3>4. /\ H \in Seq(Frame) /\ H # <<>> /\ output \in Seq(Byte)
          /\ H[Len(H)].expect \in {"ObjectFirst", "ObjectKey"}
          /\ H[Len(H)].action.mode = "project"
      BY <1>1, <1>2, <2>1, <2>2
    <3> QED BY <3>1, <3>2, <3>3, <3>4 DEF KeyDue
  <2>4. ReadAll(plan, z \o key) = Known(H, t, key, output, started)
    <3>1. Spells(plan, key, token.scalar)
      BY <1>1, <1>2, <1>3 DEF EchoInv
    <3>2. PICK r : r = ReadAll(plan, z)
      OBVIOUS
    <3>3. r.frames = H /\ r.output = output /\ r.started = started
      BY <2>1, <3>2, KnownFields
    <3>4. ReadAll(plan, z \o key) = Known(r.frames, t, key, r.output, r.started)
      BY <2>1, <2>3, <3>1, <3>2 DEF Spells, LookupToken
    <3> QED BY <3>3, <3>4
  <2>5. /\ t # None /\ t.scalar = token.scalar /\ t.destination = "LookupKey" /\ t.key
    <3>1. Len(z) \in Nat
      BY <2>1
    <3> QED BY <1>2, <3>1, LookupTokenFacts
  <2> HIDE DEF t
  <2>6. ReadAll(plan, Append(z \o key, Input))
          = Known(Replaced(H, h2), None, <<>>, output \o comma \o raw, started)
    <3>1. PICK r : r = Known(H, t, key, output, started)
      OBVIOUS
    <3>2. PICK u : u = z \o key
      OBVIOUS
    <3>3. u \in Seq(Byte)
      BY <1>2, <2>1, <3>2
    <3>4. ReadAll(plan, Append(u, Input)) = AtKeyEnd(plan, r, Input)
      <4>1. ReadAll(plan, u) = r
        BY <2>4, <3>1, <3>2
      <4>2. Push(t.scalar, Input).advance = "Complete" /\ t.key
        BY <1>1, <2>5
      <4> QED BY <1>2, <2>5, <3>1, <3>3, <4>1, <4>2, ReadOnScalar
    <3>5. /\ H[Len(H)] = h /\ h.action.mode = "project" /\ h.emitted = f.emitted
          /\ Rule(h.action.node, raw) = next
      BY <1>1, <2>1 DEF next
    <3>6. AtKeyEnd(plan, Known(H, t, key, output, started), Input)
            = Known(Replaced(H, Keyed(h, next, h.emitted \/ next # Discard)), None, <<>>,
                    IF next = Discard THEN output
                    ELSE output \o (IF h.emitted THEN <<Comma>> ELSE <<>>) \o raw, started)
      BY <1>1, <3>5, KeyEndRead
    <3>7. (h.emitted \/ next # Discard) = TRUE
      BY <1>8
    <3>8. AtKeyEnd(plan, Known(H, t, key, output, started), Input)
            = Known(Replaced(H, h2), None, <<>>, output \o comma \o raw, started)
      BY <1>8, <3>5, <3>6, <3>7
    <3> QED BY <3>1, <3>2, <3>4, <3>8
  <2>7. output' = Append(z \o key, Input)
    <3>1. output' = output \o comma \o raw
      BY <1>1, <1>8
    <3>2. raw \in Seq(Byte)
      BY <1>2
    <3>3. output \o comma = z
      BY <1>2, BytesTyped, AppendOne DEF Separating
    <3>4. z \o raw = Append(z \o key, Input)
      BY <1>2, <2>1, AppendConcat
    <3> QED BY <3>1, <3>3, <3>4
  <2>8. /\ h2 \in Frame /\ h2.action = f.action /\ h2.object = f.object
        /\ h2.emitted /\ h2.expect = "Colon" /\ h2.next = next
    <3> HIDE DEF h
    <3>1. h \in Frame /\ TRUE \in BOOLEAN /\ h.action = f.action /\ h.object = f.object
      BY <2>1 DEF h
    <3>2. PICK em \in BOOLEAN : em = TRUE
      OBVIOUS
    <3>3. /\ Keyed(h, next, em) \in Frame
          /\ Keyed(h, next, em).action = h.action /\ Keyed(h, next, em).object = h.object
          /\ Keyed(h, next, em).emitted = em /\ Keyed(h, next, em).expect = "Colon"
          /\ Keyed(h, next, em).next = next
      BY <1>4, <3>1, FrameKeyed
    <3> QED BY <3>1, <3>2, <3>3
  <2> HIDE DEF h2
  <2>9. Mirrors(f2, h2, FALSE)
    <3>1. Plain(f.action)
      BY <1>1 DEF Plain
    <3>2. f2.emitted = TRUE /\ h2.emitted = TRUE
      <4>1. f2.emitted \in BOOLEAN /\ h2.emitted \in BOOLEAN /\ f2.emitted
        BY <1>5, <1>8, <2>8, FrameFields
      <4> QED BY <2>8, <4>1
    <3> QED BY <1>4, <1>5, <1>8, <2>8, <3>1, <3>2 DEF Mirrors, Shows, Wrote
  <2>10. Mirrored(frames', Replaced(H, h2), FALSE)
    <3>1. /\ Replaced(H, h2) \in Seq(Frame) /\ Len(Replaced(H, h2)) = Len(H)
          /\ \A i \in 1 .. Len(H) - 1 : Replaced(H, h2)[i] = H[i]
          /\ Replaced(H, h2)[Len(H)] = h2
      BY <2>1, <2>8, ReplacedFacts
    <3>2. /\ Replaced(frames, f2) \in Seq(Frame) /\ Len(Replaced(frames, f2)) = k
          /\ \A i \in 1 .. k - 1 : Replaced(frames, f2)[i] = frames[i]
          /\ Replaced(frames, f2)[k] = f2
      <4>1. frames \in Seq(Frame)
        BY <2>1 DEF Mirrored
      <4> QED BY <1>2, <1>5, <4>1, ReplacedFacts
    <3>3. /\ Len(Replaced(H, h2)) = Len(G) /\ Replaced(H, h2)[k] = h2
          /\ \A i \in 1 .. k - 1 : Replaced(H, h2)[i] = G[i]
      BY <2>1, <3>1
    <3>4. f2.action = frames[k].action
      BY <1>5 DEF Top
    <3>5. PICK fs2, G2 : fs2 = Replaced(frames, f2) /\ G2 = Replaced(H, h2)
      OBVIOUS
    <3>6. /\ fs2 \in Seq(Frame) /\ Len(fs2) = Len(frames) /\ G2 \in Seq(Frame)
          /\ Len(G2) = Len(G) /\ Len(G) = Len(frames)
          /\ \A i \in 1 .. Len(frames) - 1 : fs2[i] = frames[i] /\ G2[i] = G[i]
          /\ fs2[Len(frames)] = f2 /\ G2[Len(frames)] = h2
      BY <2>1, <3>1, <3>2, <3>3, <3>5
    <3>7. Mirrored(fs2, G2, FALSE)
      BY <1>2, <2>1, <2>9, <3>4, <3>6, MirrorTops
    <3> QED BY <1>1, <3>5, <3>7
  <2>11. output' = output \o comma \o raw
    BY <1>1, <1>8
  <2> HIDE DEF comma, raw
  <2>12. ReadAll(plan, output') = Known(Replaced(H, h2), None, <<>>, output', started')
    BY <1>1, <2>6, <2>7, <2>11
  <2> QED BY <1>1, <2>10, <2>12, EchoesAtStack
<1> QED BY <1>7, <1>8

-----------------------------------------------------------------------------
(* The structural turns.                                                   *)

LEMMA OuterSpaceEchoes ==
  ASSUME Inv, EchoInv, OuterSpace
  PROVE  EchoInv'
<1>1. /\ Reading /\ token = None /\ plan' = plan /\ output' = output /\ started' = started
      /\ frames' = frames /\ token' = token
  BY DEF OuterSpace, Structural, Advanced
<1> QED BY <1>1, EchoSilent

(* The second reading of the innermost container that is kept.             *)
LEMMA EchoTop ==
  ASSUME Inv, EchoInv, Inside, Top.action # Discard
  PROVE  \E G : /\ Mirrored(frames, G, FALSE) /\ G # <<>> /\ G \in Seq(Frame)
                /\ Len(G) = Len(frames) /\ Mirrors(Top, G[Len(G)], FALSE)
                /\ \A b \in Byte :
                     b \in Ender \/ G[Len(G)].expect \notin {"ObjectComma", "ArrayComma"} =>
                       ReadAll(plan, Append(output, b))
                         = AtInside(plan, Known(G, None, <<>>, output, started), b, Len(output))
<1>1. Reading /\ token = None /\ frames # <<>>
  BY InsideTop
<1>2. PICK G : /\ Mirrored(frames, G, FALSE) /\ G # <<>> /\ G \in Seq(Frame)
               /\ \A b \in Byte :
                    b \in Ender \/ G[Len(G)].expect \notin {"ObjectComma", "ArrayComma"} =>
                      ReadAll(plan, Append(output, b))
                        = AtInside(plan, Known(G, None, <<>>, output, started), b, Len(output))
  BY <1>1, EchoStands
<1>3. Len(G) = Len(frames) /\ Mirrors(Top, G[Len(G)], FALSE)
  <2>1. Len(G) = Len(frames) /\ Mirrors(frames[Len(frames)], G[Len(frames)], FALSE)
    BY <1>1, <1>2, MirrorTop DEF Top
  <2> QED BY <2>1 DEF Top
<1> QED BY <1>2, <1>3

LEMMA InnerSpaceEchoes ==
  ASSUME Inv, EchoInv, InnerSpace
  PROVE  EchoInv'
<1>1. /\ Inside /\ Input \in Whitespace /\ plan' = plan /\ started' = started
      /\ frames' = frames /\ token' = token /\ token = None
      /\ output' = IF KeepsSpace THEN Append(output, Input) ELSE output
  BY DEF InnerSpace, Inside, Structural, Advanced
<1>2. Reading /\ Input \in Byte /\ Top \in Frame
  BY <1>1, InsideTop
<1>3. CASE ~KeepsSpace
  BY <1>1, <1>2, <1>3, EchoSilent
<1>4. CASE KeepsSpace
  <2>1. Top.action # Discard
    BY <1>4, ActionTyped DEF KeepsSpace
  <2>2. PICK G : /\ Mirrored(frames, G, FALSE) /\ G # <<>> /\ G \in Seq(Frame)
                 /\ Len(G) = Len(frames) /\ Mirrors(Top, G[Len(G)], FALSE)
                 /\ \A b \in Byte :
                      b \in Ender \/ G[Len(G)].expect \notin {"ObjectComma", "ArrayComma"} =>
                        ReadAll(plan, Append(output, b))
                          = AtInside(plan, Known(G, None, <<>>, output, started), b, Len(output))
    BY <1>1, <2>1, EchoTop
  <2>3. PICK h, r : h = G[Len(G)] /\ r = Known(G, None, <<>>, output, started)
    OBVIOUS
  <2>4. ReadAll(plan, Append(output, Input)) = AtInside(plan, r, Input, Len(output))
    BY <1>1, <1>2, <2>2, <2>3 DEF Ender
  <2>5. KeptSpace(h)
    <3>1. Mirrors(Top, h, FALSE)
      BY <2>2, <2>3
    <3> QED BY <1>4, <3>1 DEF Mirrors, Shows, KeepsSpace, KeptSpace
  <2>6. AtInside(plan, r, Input, Len(output))
          = Known(G, None, <<>>, Added(output, Input, KeptSpace(h)), started)
    BY <1>1, <2>3, InsideAny
  <2>7. ReadAll(plan, output') = Known(G, None, <<>>, output', started')
    BY <1>1, <1>4, <2>4, <2>5, <2>6 DEF Added
  <2> QED BY <1>1, <2>2, <2>7, EchoesAtStack
<1> QED BY <1>3, <1>4

LEMMA CloseEchoes ==
  ASSUME Inv, EchoInv, Close
  PROVE  EchoInv'
<1> DEFINE k  == Len(frames)
           hs == SubSeq(frames, 1, k - 1)
<1>1. /\ Inside /\ Closing /\ frames' = ValueDone(hs) /\ plan' = plan /\ started' = started
      /\ token' = token /\ token = None
      /\ output' = IF Top.action = Discard THEN output ELSE Append(output, Input)
  BY DEF Close, Inside, Structural, Advanced
<1>2. /\ Reading /\ Input \in Byte /\ Top \in Frame /\ FrameFits(Top) /\ frames # <<>>
      /\ Stack(frames) /\ k \in Nat \ {0}
  BY <1>1, InsideTop
<1>3. CASE Top.action = Discard
  <2>1. ASSUME NEW G, Mirrored(frames, G, FALSE) PROVE Mirrored(frames', G, FALSE)
    <3>1. Mirrored(hs, G, FALSE)
      BY <1>2, <1>3, <2>1, MirrorPopDropped DEF Top
    <3>2. /\ Len(hs) = k - 1
          /\ hs # <<>> => hs[Len(hs)].expect \in ValueExpect
      BY <1>2, PopFrame
    <3>3. Len(G) \in Nat \ {0} /\ Len(G) < k
      BY <1>2, <1>3, <2>1, MirrorTop DEF Top
    <3>4. hs # <<>>
      <4>1. G # <<>> /\ Len(G) <= Len(hs)
        BY <1>2, <2>1, <3>1, MirrorTop DEF Mirrored
      <4> HIDE DEF hs
      <4>2. Len(hs) # 0
        BY <3>3, <4>1
      <4> QED BY <4>2
    <3>5. k \in 2 .. k /\ k - 1 \in 1 .. k
      BY <1>2, <3>3
    <3>6. hs[k - 1] = frames[k - 1]
      <4>1. frames \in Seq(Frame)
        BY <1>2 DEF Stack
      <4>2. \A i \in 1 .. k - 1 : hs[i] = frames[i]
        BY <1>2, <4>1, Shorter
      <4>3. k - 1 \in 1 .. k - 1
        BY <3>5
      <4> HIDE DEF hs
      <4> QED BY <4>2, <4>3
    <3>7. FrameFits(hs[Len(hs)]) /\ AskedBy(hs[Len(hs)]) = Discard
      <4>1. FrameFits(frames[k - 1])
        BY <1>2, <3>5 DEF Stack, FramesFit
      <4>2. PICK b : frames[k].action = Applied(AskedBy(frames[k - 1]), b)
        BY <1>2, <3>5 DEF Stack, StackFollowsPlan
      <4>3. AskedBy(frames[k - 1]) = Discard
        BY <1>3, <4>2, ActionTyped DEF Applied, Top
      <4> HIDE DEF hs
      <4> QED BY <3>2, <3>6, <4>1, <4>3
    <3> HIDE DEF hs
    <3> QED BY <1>1, <3>1, <3>2, <3>4, <3>7, MirrorDropped
  <2> QED BY <1>1, <1>2, <1>3, <2>1, EchoSilent
<1>4. CASE Top.action # Discard
  <2>1. PICK G : /\ Mirrored(frames, G, FALSE) /\ G # <<>> /\ G \in Seq(Frame)
                 /\ Len(G) = Len(frames) /\ Mirrors(Top, G[Len(G)], FALSE)
                 /\ \A b \in Byte :
                      b \in Ender \/ G[Len(G)].expect \notin {"ObjectComma", "ArrayComma"} =>
                        ReadAll(plan, Append(output, b))
                          = AtInside(plan, Known(G, None, <<>>, output, started), b, Len(output))
    BY <1>1, <1>4, EchoTop
  <2>2. PICK h, r : h = G[Len(G)] /\ r = Known(G, None, <<>>, output, started)
    OBVIOUS
  <2>3. Input \in {RBrace, RBracket} /\ Input \notin Whitespace
    BY <1>1 DEF Closing, RBrace, RBracket, Whitespace
  <2>4. ReadAll(plan, Append(output, Input)) = AtInside(plan, r, Input, Len(output))
    BY <1>2, <2>1, <2>2, <2>3 DEF Ender
  <2>5. h.action = Top.action /\ IsClose(h, Input)
    <3>1. Mirrors(Top, h, FALSE)
      BY <2>1, <2>2
    <3>2. \/ h.expect = Top.expect
          \/ h.expect = IF Top.object THEN IF Top.emitted THEN "ObjectComma" ELSE "ObjectFirst"
                                      ELSE IF Top.emitted THEN "ArrayComma" ELSE "ArrayFirst"
      BY <3>1 DEF Mirrors, Shows
    <3>3. Top.object <=> Top.expect \in ObjectExpect
      BY <1>2 DEF FrameFits
    <3>4. CASE Top.expect \in {"ObjectFirst", "ObjectComma"} /\ Input = RBrace
      BY <3>1, <3>2, <3>3, <3>4 DEF Mirrors, IsClose, ObjectExpect
    <3>5. CASE Top.expect \in {"ArrayFirst", "ArrayComma"} /\ Input = RBracket
      BY <3>1, <3>2, <3>3, <3>5 DEF Mirrors, IsClose, ObjectExpect
    <3> QED BY <1>1, <3>4, <3>5 DEF Closing
  <2> DEFINE A == SubSeq(G, 1, Len(G) - 1)
  <2>6. AtInside(plan, r, Input, Len(output))
          = Known(ValueDone(A), None, <<>>, Added(output, Input, h.action # Discard), started)
    BY <2>2, <2>3, <2>5, InsideAny
  <2>7. Mirrored(frames', ValueDone(A), FALSE)
    <3>1. Mirrored(hs, A, TRUE)
      BY <1>2, <1>4, <2>1, MirrorPop DEF Top
    <3> HIDE DEF hs, A
    <3> QED BY <1>1, <3>1, MirrorDone
  <2> HIDE DEF A
  <2>8. ReadAll(plan, output') = Known(ValueDone(A), None, <<>>, output', started')
    BY <1>1, <1>4, <2>4, <2>5, <2>6 DEF Added
  <2> QED BY <1>1, <2>7, <2>8, EchoesAtStack
<1> QED BY <1>3, <1>4

LEMMA ExpectedTop ==
  ASSUME NEW f \in Frame, NEW e \in Expect, NEW f2, f2 = [f EXCEPT !.expect = e]
  PROVE  /\ f2 \in Frame /\ f2.expect = e /\ f2.action = f.action /\ f2.next = f.next
         /\ f2.emitted = f.emitted /\ f2.object = f.object
  BY FrameExpect

LEMMA ReadColonEchoes ==
  ASSUME Inv, EchoInv, ReadColon
  PROVE  EchoInv'
<1> DEFINE f == Top
<1>1. /\ Inside /\ f.expect = "Colon" /\ plan' = plan /\ started' = started
      /\ token' = token /\ token = None
      /\ frames' = Expecting(frames, "ObjectValue")
      /\ output' = IF f.next = Discard THEN output ELSE Append(output, Colon)
  BY DEF ReadColon, Inside, Structural, Advanced
<1>2. /\ Reading /\ f \in Frame /\ FrameFits(f) /\ frames # <<>> /\ Colon \in Byte
      /\ "ObjectValue" \in Expect
  BY <1>1, InsideTop, BytesTyped DEF Expect
<1>3. PICK f2 : f2 = [f EXCEPT !.expect = "ObjectValue"]
  OBVIOUS
<1>4. /\ f2 \in Frame /\ f2.expect = "ObjectValue" /\ f2.action = f.action
      /\ f2.next = f.next /\ f2.emitted = f.emitted /\ f2.object = f.object
  BY <1>2, <1>3, ExpectedTop
<1>5. frames' = Replaced(frames, f2)
  BY <1>1, <1>3 DEF Expecting, Replaced, Top
<1>6. f.action.mode # "project" => f.next = f.action
  BY <1>1, <1>2 DEF FrameFits, NextFits
<1>7. f.object
  BY <1>1, <1>2 DEF FrameFits, ObjectExpect
<1>8. CASE f.next = Discard
  <2>1. ASSUME NEW G, Mirrored(frames, G, FALSE) PROVE Mirrored(frames', G, FALSE)
    <3>1. ASSUME f.action # Discard PROVE Mirrors(f2, G[Len(frames)], FALSE)
      <4>1. Mirrors(f, G[Len(frames)], FALSE)
        BY <1>2, <2>1, <3>1, MirrorTop DEF Top
      <4>2. f.action.mode = "project"
        BY <1>6, <1>8, <3>1
      <4>3. AtRest(f) /\ AtRest(f2) /\ Wrote(f2, FALSE) /\ Plain(f2.next)
        BY <1>4, <1>8, <4>1 DEF AtRest, Wrote, Mirrors
      <4> QED BY <1>4, <4>1, <4>2, <4>3, MirrorRests
    <3> QED BY <1>2, <1>4, <1>5, <2>1, <3>1, MirrorOne DEF Top
  <2> QED BY <1>1, <1>2, <1>8, <2>1, EchoSilent
<1>9. CASE f.next # Discard
  <2>0. f.action # Discard
    BY <1>6, <1>9, ActionTyped
  <2>1. PICK G : /\ Mirrored(frames, G, FALSE) /\ G # <<>> /\ G \in Seq(Frame)
                 /\ Len(G) = Len(frames) /\ Mirrors(Top, G[Len(G)], FALSE)
                 /\ \A b \in Byte :
                      b \in Ender \/ G[Len(G)].expect \notin {"ObjectComma", "ArrayComma"} =>
                        ReadAll(plan, Append(output, b))
                          = AtInside(plan, Known(G, None, <<>>, output, started), b, Len(output))
    BY <1>1, <2>0, EchoTop
  <2>2. PICK h, r : h = G[Len(G)] /\ r = Known(G, None, <<>>, output, started)
    OBVIOUS
  <2>3. PICK h2 : h2 = [h EXCEPT !.expect = "ObjectValue"]
    OBVIOUS
  <2>4. /\ h \in Frame /\ h.action = f.action /\ h.object = f.object /\ h.emitted = f.emitted
        /\ h.expect = "Colon" /\ h.next = f.next
        /\ f.action.mode = "project" => f.emitted
        /\ Plain(f.action) /\ Plain(f.next)
    <3>1. Mirrors(f, h, FALSE)
      BY <2>1, <2>2
    <3> QED BY <1>1, <1>9, <3>1 DEF Mirrors, Shows, Wrote
  <2>5. /\ h2 \in Frame /\ h2.expect = "ObjectValue" /\ h2.action = h.action
        /\ h2.next = h.next /\ h2.emitted = h.emitted /\ h2.object = h.object
    BY <1>2, <2>3, <2>4, ExpectedTop
  <2>6. Mirrors(f2, h2, FALSE)
    BY <1>4, <1>9, <2>4, <2>5 DEF Mirrors, Shows, Wrote
  <2>7. Mirrored(frames', Replaced(G, h2), FALSE)
    BY <1>2, <1>4, <1>5, <2>0, <2>1, <2>6, MirrorBoth DEF Top
  <2>8. ReadAll(plan, Append(output, Colon)) = AtInside(plan, r, Colon, Len(output))
    BY <1>2, <2>1, <2>2 DEF Ender
  <2>9. Colon \notin Whitespace /\ ~IsClose(h, Colon) /\ h.expect \notin ValueExpect
    BY <2>4 DEF Colon, Whitespace, IsClose, RBrace, RBracket, ValueExpect
  <2>10. AtInside(plan, r, Colon, Len(output)) = AtMember(r, h, Colon, Len(output))
    BY <2>2, <2>9, InsideAny
  <2>11. AtMember(r, h, Colon, Len(output))
           = Known(Expecting(G, "ObjectValue"), None, <<>>,
                   Added(output, Colon, h.next # Discard), started)
    BY <2>2, <2>4, ColonAny
  <2>12. Expecting(G, "ObjectValue") = Replaced(G, h2)
    BY <2>2, <2>3 DEF Expecting, Replaced
  <2>13. ReadAll(plan, output') = Known(Replaced(G, h2), None, <<>>, output', started')
    BY <1>1, <1>9, <2>4, <2>8, <2>10, <2>11, <2>12 DEF Added
  <2> QED BY <1>1, <2>7, <2>13, EchoesAtStack
<1> QED BY <1>8, <1>9

LEMMA ReadCommaEchoes ==
  ASSUME Inv, EchoInv, ReadComma
  PROVE  EchoInv'
<1> DEFINE f == Top
<1>1. PICK e : e = IF f.expect = "ObjectComma" THEN "ObjectKey" ELSE "ArrayValue"
  OBVIOUS
<1>2. /\ Inside /\ f.expect \in {"ObjectComma", "ArrayComma"} /\ plan' = plan
      /\ started' = started /\ token' = token /\ token = None
      /\ frames' = Expecting(frames, e)
      /\ output' = IF f.action = Copy THEN Append(output, Comma) ELSE output
  BY <1>1 DEF ReadComma, Inside, Structural, Advanced
<1>3. /\ Reading /\ f \in Frame /\ FrameFits(f) /\ frames # <<>> /\ Comma \in Byte
      /\ e \in Expect
  BY <1>1, <1>2, InsideTop, BytesTyped DEF Expect
<1>4. PICK f2 : f2 = [f EXCEPT !.expect = e]
  OBVIOUS
<1>5. /\ f2 \in Frame /\ f2.expect = e /\ f2.action = f.action
      /\ f2.next = f.next /\ f2.emitted = f.emitted /\ f2.object = f.object
  BY <1>3, <1>4, ExpectedTop
<1>6. frames' = Replaced(frames, f2)
  BY <1>2, <1>4 DEF Expecting, Replaced, Top
<1>7. CASE f.action # Copy
  <2>1. ASSUME NEW G, Mirrored(frames, G, FALSE) PROVE Mirrored(frames', G, FALSE)
    <3>1. ASSUME f.action # Discard PROVE Mirrors(f2, G[Len(frames)], FALSE)
      <4>1. Mirrors(f, G[Len(frames)], FALSE)
        BY <1>3, <2>1, <3>1, MirrorTop DEF Top
      <4>2. f.action.mode = "project"
        BY <1>7, <3>1, <4>1 DEF Mirrors, Plain
      <4>3. AtRest(f) /\ AtRest(f2) /\ Plain(f2.next)
        BY <1>1, <1>2, <1>5, <4>1 DEF AtRest, Mirrors
      <4>4. Wrote(f2, FALSE)
        BY <1>1, <1>2, <1>5, <4>1 DEF Wrote, Mirrors
      <4> QED BY <1>5, <4>1, <4>2, <4>3, <4>4, MirrorRests
    <3> QED BY <1>3, <1>5, <1>6, <2>1, <3>1, MirrorOne DEF Top
  <2> QED BY <1>2, <1>3, <1>7, <2>1, EchoSilent
<1>8. CASE f.action = Copy
  <2>0. f.action # Discard /\ f.action.mode # "project"
    BY <1>8, ActionTyped
  <2>1. PICK G : /\ Mirrored(frames, G, FALSE) /\ G # <<>> /\ G \in Seq(Frame)
                 /\ Len(G) = Len(frames) /\ Mirrors(Top, G[Len(G)], FALSE)
                 /\ \A b \in Byte :
                      b \in Ender \/ G[Len(G)].expect \notin {"ObjectComma", "ArrayComma"} =>
                        ReadAll(plan, Append(output, b))
                          = AtInside(plan, Known(G, None, <<>>, output, started), b, Len(output))
    BY <1>2, <2>0, EchoTop
  <2>2. PICK h, r : h = G[Len(G)] /\ r = Known(G, None, <<>>, output, started)
    OBVIOUS
  <2>3. PICK h2 : h2 = [h EXCEPT !.expect = e]
    OBVIOUS
  <2>4. /\ h \in Frame /\ h.action = f.action /\ h.object = f.object /\ h.emitted = f.emitted
        /\ h.expect = f.expect /\ Plain(f.action) /\ Plain(f.next)
    <3>1. Mirrors(f, h, FALSE)
      BY <2>1, <2>2
    <3> QED BY <2>0, <3>1 DEF Mirrors, Shows
  <2>5. /\ h2 \in Frame /\ h2.expect = e /\ h2.action = h.action
        /\ h2.next = h.next /\ h2.emitted = h.emitted /\ h2.object = h.object
    BY <1>3, <2>3, <2>4, ExpectedTop
  <2>6. Mirrors(f2, h2, FALSE)
    BY <1>1, <1>5, <2>0, <2>4, <2>5 DEF Mirrors, Shows, Wrote
  <2>7. Mirrored(frames', Replaced(G, h2), FALSE)
    BY <1>3, <1>5, <1>6, <2>0, <2>1, <2>6, MirrorBoth DEF Top
  <2>8. ReadAll(plan, Append(output, Comma)) = AtInside(plan, r, Comma, Len(output))
    BY <1>3, <2>1, <2>2 DEF Ender
  <2>9. Comma \notin Whitespace /\ ~IsClose(h, Comma) /\ h.expect \notin ValueExpect
    BY <1>2, <2>4 DEF Comma, Whitespace, IsClose, RBrace, RBracket, ValueExpect
  <2>10. AtInside(plan, r, Comma, Len(output)) = AtMember(r, h, Comma, Len(output))
    BY <2>2, <2>9, InsideAny
  <2>11. AtMember(r, h, Comma, Len(output))
           = Known(Expecting(G, e), None, <<>>, Added(output, Comma, h.action = Copy), started)
    <3>1. \/ h.expect = "ObjectComma" /\ e = "ObjectKey"
          \/ h.expect = "ArrayComma" /\ e = "ArrayValue"
      BY <1>1, <1>2, <2>4
    <3> QED BY <2>2, <3>1, CommaAny
  <2>12. Expecting(G, e) = Replaced(G, h2)
    BY <2>2, <2>3 DEF Expecting, Replaced
  <2>13. ReadAll(plan, output') = Known(Replaced(G, h2), None, <<>>, output', started')
    BY <1>2, <1>8, <2>4, <2>8, <2>10, <2>11, <2>12 DEF Added
  <2> QED BY <1>2, <2>7, <2>13, EchoesAtStack
<1> QED BY <1>7, <1>8

(* The quote that begins a key that is to be looked up.                    *)
LEMMA SpellsQuote ==
  Spells(plan, <<Quote>>, Start(Quote))
<1> SUFFICES ASSUME NEW x \in Seq(Byte), NEW g, g = ReadAll(plan, x), KeyDue(g)
             PROVE  ReadAll(plan, x \o <<Quote>>) =
                      Known(g.frames, LookupToken(Start(Quote), Len(x)), <<Quote>>,
                            g.output, g.started)
  BY DEF Spells, LookupToken
<1>1. PICK G, o, root : G = g.frames /\ o = g.output /\ root = g.started
  OBVIOUS
<1>2. /\ g = Known(G, None, <<>>, o, root) /\ G # <<>> /\ Quote \in Byte
      /\ G[Len(G)].expect \in {"ObjectFirst", "ObjectKey"}
      /\ G[Len(G)].action.mode = "project"
  BY <1>1, BytesTyped DEF KeyDue
<1>3. g.token = None /\ StandsAt(g, G) /\ g = Known(g.frames, g.token, <<>>, o, root)
  BY <1>1, <1>2, KnownFields DEF StandsAt
<1>4. PICK h, r : h = G[Len(G)] /\ r = Known(G, None, <<>>, o, root)
  OBVIOUS
<1>5. ReadAll(plan, Append(x, Quote)) = AtInside(plan, r, Quote, Len(x))
  <2>1. G[Len(G)].expect \notin {"ObjectComma", "ArrayComma"}
    BY <1>2
  <2>2. /\ g = ReadAll(plan, x) /\ g = Known(g.frames, g.token, <<>>, o, root)
        /\ StandsAt(g, G) /\ Quote \in Byte /\ G # <<>>
    BY <1>2, <1>3
  <2>3. ReadAll(plan, Append(x, Quote)) = AtInside(plan, Known(G, None, <<>>, o, root), Quote, Len(x))
    BY <2>1, <2>2, ReadOn
  <2> QED BY <1>4, <2>3
<1>6. Quote \notin Whitespace /\ ~IsClose(h, Quote) /\ h.expect \notin ValueExpect
  BY <1>2, <1>4 DEF Quote, Whitespace, IsClose, RBrace, RBracket, ValueExpect
<1>7. AtInside(plan, r, Quote, Len(x)) = AtMember(r, h, Quote, Len(x))
  BY <1>4, <1>6, InsideAny
<1>8. AtMember(r, h, Quote, Len(x))
        = Known(G, LookupToken(Start(Quote), Len(x)), <<Quote>>, o, root)
  <2>1. h.expect \in {"ObjectFirst", "ObjectKey"} /\ h.action.mode = "project"
    BY <1>2, <1>4
  <2>2. Added(<<>>, Quote, TRUE) = <<Quote>> /\ Added(o, Quote, FALSE) = o
    BY DEF Added
  <2>3. r.token = None /\ r.frames = G /\ r.key = <<>> /\ r.output = o /\ r.started = root
    BY <1>4, KnownFields
  <2> QED BY <2>1, <2>2, <2>3 DEF AtMember, LookupToken
<1>9. x \o <<Quote>> = Append(x, Quote)
  BY <1>2, AppendOne
<1> QED BY <1>1, <1>5, <1>7, <1>8, <1>9

LEMMA BeginKeyEchoes ==
  ASSUME Inv, EchoInv, BeginKey
  PROVE  EchoInv'
<1> DEFINE f == Top
           d == CASE f.action.mode = "copy"    -> "Output"
                  [] f.action.mode = "discard" -> "Discard"
                  [] f.action.mode = "project" -> "LookupKey"
           s == Start(Quote)
<1>1. /\ Inside /\ f.expect \in {"ObjectFirst", "ObjectKey"} /\ Input = Quote
      /\ token' = [scalar |-> s, destination |-> d, key |-> TRUE, start |-> offset]
      /\ Write(d, <<Quote>>) /\ frames' = frames /\ started' = started /\ plan' = plan
      /\ token = None
  BY DEF BeginKey, Inside, Structural, Advanced
<1>2. /\ Reading /\ f \in Frame /\ FrameFits(f) /\ frames # <<>> /\ Quote \in Byte
      /\ output \in Seq(Byte) /\ key \in Seq(Byte)
  BY <1>1, InsideTop, InvParts, BytesTyped
<1>3. f.action.mode \in {"copy", "discard", "project"}
  BY <1>2, FrameFields DEF Action
<1>4. s \in ScalarState
  <2>1. s = At("String")
    BY DEF Start, Quote, LowerT, LowerF, LowerN, UpperN, UpperI, Minus
  <2> QED BY <2>1, PlainState DEF At, Variant, PlainTag
<1>5. /\ token'.scalar = s /\ token'.destination = d /\ token'.key
  <2> HIDE DEF d, s
  <2> QED BY <1>1
<1>6. /\ output' = Added(output, Quote, d = "Output")
      /\ key' = Added(key, Quote, d = "LookupKey")
  <2> HIDE DEF d
  <2> QED BY <1>1, <1>2, WritesByte
<1>7. token' # None
  <2>1. /\ d \in Destination /\ offset \in Nat
    BY <1>3, InvParts DEF Destination
  <2> HIDE DEF d, s
  <2>2. token' \in Token
    BY <1>1, <1>4, <2>1 DEF Token
  <2> QED BY <2>2, NoneIsNoToken
<1>8. CASE f.action.mode = "copy"
  <2>0. d = "Output"
    BY <1>8
  <2> HIDE DEF d
  <2>1. f.action # Discard
    BY <1>8, ActionTyped
  <2>2. PICK G : /\ Mirrored(frames, G, FALSE) /\ G # <<>> /\ G \in Seq(Frame)
                 /\ Len(G) = Len(frames) /\ Mirrors(Top, G[Len(G)], FALSE)
                 /\ \A b \in Byte :
                      b \in Ender \/ G[Len(G)].expect \notin {"ObjectComma", "ArrayComma"} =>
                        ReadAll(plan, Append(output, b))
                          = AtInside(plan, Known(G, None, <<>>, output, started), b, Len(output))
    BY <1>1, <2>1, EchoTop
  <2>3. PICK h, r : h = G[Len(G)] /\ r = Known(G, None, <<>>, output, started)
    OBVIOUS
  <2>4. h.expect = f.expect /\ h.action = f.action
    <3>1. Mirrors(f, h, FALSE)
      BY <2>2, <2>3
    <3> QED BY <1>8, <3>1 DEF Mirrors, Shows
  <2>5. ReadAll(plan, Append(output, Quote)) = AtInside(plan, r, Quote, Len(output))
    BY <1>1, <1>2, <2>2, <2>3, <2>4
  <2>6. Quote \notin Whitespace /\ ~IsClose(h, Quote) /\ h.expect \notin ValueExpect
    BY <1>1, <2>4 DEF Quote, Whitespace, IsClose, RBrace, RBracket, ValueExpect
  <2>7. AtInside(plan, r, Quote, Len(output)) = AtMember(r, h, Quote, Len(output))
    BY <2>3, <2>6, InsideAny
  <2>8. PICK t : t = [scalar |-> s, destination |-> "Output", key |-> TRUE, start |-> Len(output)]
    OBVIOUS
  <2>9. t \in Token /\ t.scalar = s /\ t.destination = "Output" /\ t.key
    <3>1. Len(output) \in Nat
      BY <1>2
    <3> HIDE DEF s
    <3> QED BY <1>4, <2>8, <3>1 DEF Token, Destination
  <2>10. AtMember(r, h, Quote, Len(output))
           = Known(G, t, <<>>, Append(output, Quote), started)
    <3>1. h.expect \in {"ObjectFirst", "ObjectKey"} /\ h.action.mode = "copy"
      BY <1>1, <1>8, <2>4
    <3>2. Added(<<>>, Quote, FALSE) = <<>> /\ Added(output, Quote, TRUE) = Append(output, Quote)
      BY DEF Added
    <3>3. r.token = None /\ r.frames = G /\ r.key = <<>> /\ r.output = output /\ r.started = started
      BY <2>3, KnownFields
    <3> QED BY <2>8, <3>1, <3>2, <3>3 DEF AtMember
  <2>11. output' = Append(output, Quote)
    BY <1>6, <2>0 DEF Added
  <2>12. ReadAll(plan, output') = Known(G, t, <<>>, output', started')
    BY <1>1, <2>5, <2>7, <2>10, <2>11
  <2>13. Mirrored(frames', G, ~token'.key) /\ t.key = token'.key
    <3>1. (~token'.key) = FALSE /\ token'.key = TRUE /\ t.key = TRUE
      BY <1>1, <2>8
    <3> QED BY <1>1, <2>2, <3>1
  <2> QED BY <1>1, <1>5, <1>7, <2>0, <2>9, <2>12, <2>13, EchoesInScalar
<1>9. CASE f.action.mode # "copy"
  <2>1. d # "Output" /\ output' = output
    BY <1>3, <1>6, <1>9 DEF Added
  <2> HIDE DEF d, s
  <2>2. ASSUME d = "LookupKey" PROVE Spells(plan, key', token'.scalar)
    <3>1. Len(key) = 0
      BY <1>1, InvParts DEF KeyFits
    <3>2. key = <<>>
      BY <1>2, <3>1, EmptySeq
    <3>3. key' = <<Quote>>
      BY <1>6, <2>2, <3>2 DEF Added
    <3> QED BY <1>5, <3>3, SpellsQuote DEF s
  <2> QED BY <1>1, <1>2, <1>5, <2>1, <2>2, EchoSilent
<1> QED BY <1>8, <1>9

-----------------------------------------------------------------------------
(* Values that begin.                                                      *)

(* Whose value it is makes no difference but for what becomes of it.       *)
ValueOf(action, S, out, b, n, root, room) ==
  CASE b \in {LBrace, LBracket} /\ room ->
         Known(Append(S, NewFrame(action, b)), None, <<>>, out, root)
    [] b \notin {LBrace, LBracket} /\ Startable(b) ->
         Known(S, [scalar |-> Start(b), key |-> FALSE, start |-> n,
                   destination |-> "Output"], <<>>, out, root)
    [] OTHER -> Refused(n)

LEMMA MemberValue ==
  ASSUME NEW G, NEW o, NEW root, NEW b, NEW n, NEW r, r = Known(G, None, <<>>, o, root),
         NEW h, h.expect = "ObjectValue" \/ h.action.mode # "project",
         NEW asked, asked = IF h.expect = "ObjectValue" THEN h.next ELSE h.action,
         Applied(asked, b) # Discard
  PROVE  AtValue(plan, r, h, b, n)
           = ValueOf(Applied(asked, b), G, Append(o, b), b, n, root, Len(G) < MaxDepth)
<1>0. r.token = None /\ r.frames = G /\ r.key = <<>> /\ r.output = o /\ r.started = root
  BY KnownFields
<1>1. PICK action : action = Applied(asked, b)
  OBVIOUS
<1>2. Treated(plan, asked, b) = action
  BY <1>1, SameRules
<1>3. Added(o, Comma, FALSE) = o /\ Added(o, b, TRUE) = Append(o, b)
  BY DEF Added
<1>4. AtValue(plan, r, h, b, n)
        = LET el      == h.expect # "ObjectValue" /\ h.action.mode = "project"
              treated == Treated(plan, CASE h.expect = "ObjectValue" -> h.next
                                         [] el    -> Project(plan[h.action.node + 1].child)
                                         [] OTHER -> h.action, b)
              stack   == IF el THEN WithTop(G, [h EXCEPT !.emitted = TRUE]) ELSE G
              written == Added(Added(o, Comma, el /\ h.emitted), b, treated # Discard)
          IN  CASE b \in {LBrace, LBracket} /\ Len(G) < MaxDepth ->
                     Known(Append(stack, NewFrame(treated, b)), None, <<>>, written, root)
                [] b \notin {LBrace, LBracket} /\ Startable(b) ->
                     Known(stack, [scalar |-> Start(b), key |-> FALSE, start |-> n,
                                   destination |-> IF treated = Discard THEN "Discard"
                                                                        ELSE "Output"],
                           <<>>, written, root)
                [] OTHER -> Refused(n)
  BY <1>0 DEF AtValue
<1>5. /\ (h.expect # "ObjectValue" /\ h.action.mode = "project") = FALSE
      /\ (FALSE /\ h.emitted) = FALSE /\ (action # Discard) = TRUE
      /\ (IF action = Discard THEN "Discard" ELSE "Output") = "Output"
      /\ asked = CASE h.expect = "ObjectValue" -> h.next
                   [] FALSE -> Project(plan[h.action.node + 1].child)
                   [] OTHER -> h.action
  BY <1>1
<1> QED BY <1>1, <1>2, <1>3, <1>4, <1>5 DEF ValueOf

LEMMA ElementValue ==
  ASSUME NEW G, NEW o, NEW root, NEW b, NEW n, NEW r, r = Known(G, None, <<>>, o, root),
         NEW h, h.expect # "ObjectValue", h.action.mode = "project",
         NEW asked, asked = Project(plan[h.action.node + 1].child),
         Applied(asked, b) # Discard
  PROVE  AtValue(plan, r, h, b, n)
           = ValueOf(Applied(asked, b), WithTop(G, [h EXCEPT !.emitted = TRUE]),
                     Append(Added(o, Comma, h.emitted), b), b, n, root, Len(G) < MaxDepth)
<1>0. r.token = None /\ r.frames = G /\ r.key = <<>> /\ r.output = o /\ r.started = root
  BY KnownFields
<1>1. PICK action, S : action = Applied(asked, b) /\ S = WithTop(G, [h EXCEPT !.emitted = TRUE])
  OBVIOUS
<1>2. Treated(plan, asked, b) = action
  BY <1>1, SameRules
<1>3. \A x : Added(x, b, TRUE) = Append(x, b)
  BY DEF Added
<1>4. AtValue(plan, r, h, b, n)
        = LET el      == h.expect # "ObjectValue" /\ h.action.mode = "project"
              treated == Treated(plan, CASE h.expect = "ObjectValue" -> h.next
                                         [] el    -> Project(plan[h.action.node + 1].child)
                                         [] OTHER -> h.action, b)
              stack   == IF el THEN WithTop(G, [h EXCEPT !.emitted = TRUE]) ELSE G
              written == Added(Added(o, Comma, el /\ h.emitted), b, treated # Discard)
          IN  CASE b \in {LBrace, LBracket} /\ Len(G) < MaxDepth ->
                     Known(Append(stack, NewFrame(treated, b)), None, <<>>, written, root)
                [] b \notin {LBrace, LBracket} /\ Startable(b) ->
                     Known(stack, [scalar |-> Start(b), key |-> FALSE, start |-> n,
                                   destination |-> IF treated = Discard THEN "Discard"
                                                                        ELSE "Output"],
                           <<>>, written, root)
                [] OTHER -> Refused(n)
  BY <1>0 DEF AtValue
<1>5. /\ (h.expect # "ObjectValue" /\ h.action.mode = "project") = TRUE
      /\ (action # Discard) = TRUE
      /\ (IF action = Discard THEN "Discard" ELSE "Output") = "Output"
      /\ asked = CASE h.expect = "ObjectValue" -> h.next
                   [] TRUE  -> Project(plan[h.action.node + 1].child)
                   [] OTHER -> h.action
  BY <1>1
<1>6. Added(o, Comma, TRUE /\ h.emitted) = Added(o, Comma, h.emitted)
  BY DEF Added
<1> QED BY <1>1, <1>2, <1>3, <1>4, <1>5, <1>6 DEF ValueOf

(* The second reading where a value that is kept begins.                   *)
LEMMA ValueEchoes ==
  ASSUME Inv, EchoInv, ValueDue, NEW action, action = Applied(Asked, Input), action # Discard,
         Input \in {LBrace, LBracket} \/ Startable(Input)
  PROVE  \E S, n :
           /\ Mirrored(Parents, S, TRUE) /\ n \in Nat /\ Plain(action)
           /\ Input \in {LBrace, LBracket} /\ Room =>
                ReadAll(plan, Append(Separated, Input))
                  = Known(Append(S, NewFrame(action, Input)), None, <<>>,
                          Append(Separated, Input), started)
           /\ Startable(Input) =>
                ReadAll(plan, Append(Separated, Input))
                  = Known(S, [scalar |-> Start(Input), key |-> FALSE, start |-> n,
                              destination |-> "Output"], <<>>,
                          Append(Separated, Input), started)
<1> DEFINE f == Top
           k == Len(frames)
<1>1. /\ Inside /\ f.expect \in ValueExpect /\ Asked = AskedBy(f) /\ Asked \in Action
      /\ Input \notin Whitespace /\ Asked # Discard
  <2>1. Inside /\ f.expect \in ValueExpect /\ Asked = AskedBy(f) /\ Asked \in Action /\ IsNode(Asked)
    BY ValueDueFacts
  <2> QED BY <2>1, AppliedFacts DEF ValueDue
<1>2. /\ Reading /\ token = None /\ f \in Frame /\ FrameFits(f) /\ frames # <<>>
      /\ Input \in Byte /\ output \in Seq(Byte) /\ k \in Nat \ {0}
  BY <1>1, InsideTop, InvParts
<1>3. f.object <=> f.expect = "ObjectValue"
  BY <1>1, <1>2 DEF FrameFits, ObjectExpect, ValueExpect
<1>4. Input \notin {RBrace, RBracket} /\ (Startable(Input) => Input \notin {LBrace, LBracket})
  BY DEF Startable, Digits, LBrace, LBracket, RBrace, RBracket, Quote, LowerT, LowerF, LowerN,
         UpperN, UpperI, Minus
<1>5. \A h : ~IsClose(h, Input)
  BY <1>4 DEF IsClose
<1>6. Plain(Asked) => Plain(action)
  BY ActionTyped DEF Plain, Applied
<1>7. CASE ~ProjectedElement
  <2>1. Parents = frames /\ Separated = output
    BY <1>7 DEF Parents, Separated
  <2>2. \/ f.expect = "ObjectValue" /\ Asked = f.next
        \/ f.expect # "ObjectValue" /\ f.action.mode # "project" /\ Asked = f.action
    BY <1>7 DEF Asked, ProjectedElement
  <2>3. f.action # Discard
    <3>1. f.expect = "ObjectValue" /\ f.action.mode # "project" => f.next = f.action
      BY <1>2 DEF FrameFits, NextFits
    <3> QED BY <1>1, <2>2, <3>1, ActionTyped
  <2>4. PICK G : /\ Mirrored(frames, G, FALSE) /\ G # <<>> /\ G \in Seq(Frame)
                 /\ Len(G) = Len(frames) /\ Mirrors(Top, G[Len(G)], FALSE)
                 /\ \A b \in Byte :
                      b \in Ender \/ G[Len(G)].expect \notin {"ObjectComma", "ArrayComma"} =>
                        ReadAll(plan, Append(output, b))
                          = AtInside(plan, Known(G, None, <<>>, output, started), b, Len(output))
    BY <1>1, <2>3, EchoTop
  <2>5. PICK h, r : h = G[Len(G)] /\ r = Known(G, None, <<>>, output, started)
    OBVIOUS
  <2>6. Mirrors(f, h, FALSE)
    BY <2>4, <2>5
  <2>7. /\ h.expect = f.expect /\ h.action = f.action
        /\ f.expect = "ObjectValue" => h.next = f.next
        /\ Mirrors(f, h, TRUE) /\ Plain(f.next) /\ Plain(f.action)
    BY <1>1, <2>2, <2>6 DEF Mirrors, Shows, Wrote
  <2>8. ReadAll(plan, Append(output, Input)) = AtInside(plan, r, Input, Len(output))
    <3>1. h.expect \notin {"ObjectComma", "ArrayComma"}
      BY <1>1, <2>7 DEF ValueExpect
    <3> QED BY <1>2, <2>4, <2>5, <3>1
  <2>9. AtInside(plan, r, Input, Len(output)) = AtValue(plan, r, h, Input, Len(output))
    BY <1>1, <1>5, <2>5, <2>7, InsideAny
  <2>10. AtValue(plan, r, h, Input, Len(output))
           = ValueOf(action, G, Append(output, Input), Input, Len(output), started, Len(G) < MaxDepth)
    <3>1. /\ h.expect = "ObjectValue" \/ h.action.mode # "project"
          /\ Asked = IF h.expect = "ObjectValue" THEN h.next ELSE h.action
      BY <2>2, <2>7
    <3> QED BY <2>5, <3>1, MemberValue
  <2>14. Mirrored(frames, G, TRUE)
    <3>1. \A i \in 1 .. k - 1 : frames[i] = frames[i] /\ G[i] = G[i]
      OBVIOUS
    <3>2. frames \in Seq(Frame) /\ G[k] = h /\ frames[k] = f
      BY <2>4, <2>5 DEF Mirrored, Top
    <3> QED BY <1>2, <2>4, <2>7, <3>1, <3>2, MirrorTops
  <2>15. Plain(action) /\ Len(output) \in Nat
    BY <1>2, <1>6, <2>2, <2>7
  <2>16. Room <=> Len(G) < MaxDepth
    BY <2>4 DEF Room
  <2>17. ReadAll(plan, Append(Separated, Input))
           = ValueOf(action, G, Append(Separated, Input), Input, Len(output), started, Room)
    <3>1. (Len(G) < MaxDepth) = Room
      BY <2>16 DEF Room
    <3> QED BY <2>1, <2>8, <2>9, <2>10, <3>1
  <2> QED BY <1>4, <2>1, <2>14, <2>15, <2>17 DEF ValueOf
<1>8. CASE ProjectedElement
  <2> DEFINE z == Separating
  <2>1. /\ f.expect \in {"ArrayFirst", "ArrayValue"} /\ ~f.object /\ f.action.mode = "project"
        /\ Asked = Project(Node(f.action.node).child)
    BY <1>1, <1>3, <1>8 DEF ProjectedElement, ValueExpect, Asked
  <2>2. Separated = z
    BY <1>8 DEF Separated, Separating
  <2>3. AtRest(f) /\ f.action # Discard
    BY <2>1, ActionTyped DEF AtRest
  <2>4. PICK G, H :
           /\ Mirrored(frames, G, FALSE) /\ H \in Seq(Frame) /\ H # <<>>
           /\ Len(H) = k /\ Len(G) = k
           /\ \A i \in 1 .. k - 1 : H[i] = G[i]
           /\ H[k] \in Frame /\ H[k].action = f.action
           /\ H[k].object = f.object /\ H[k].emitted = f.emitted
           /\ H[k].expect = Due(f)
           /\ ReadAll(plan, z) = Known(H, None, <<>>, output, started)
           /\ z \in Seq(Byte)
    BY <1>2, <2>1, <2>3, SeparatorRead DEF Top
  <2>5. PICK h, r : h = H[k] /\ r = Known(H, None, <<>>, output, started)
    OBVIOUS
  <2>6. Mirrors(f, G[k], FALSE)
    BY <1>2, <2>3, <2>4, MirrorTop DEF Top
  <2>7. h.expect = f.expect /\ h.expect \in {"ArrayFirst", "ArrayValue"}
    <3>1. Wrote(f, FALSE)
      BY <2>6 DEF Mirrors
    <3> QED BY <2>1, <2>4, <2>5, <3>1 DEF Wrote, Due
  <2>8. ReadAll(plan, Append(z, Input)) = AtInside(plan, r, Input, Len(z))
    <3>1. PICK g : g = ReadAll(plan, z)
      OBVIOUS
    <3>2. /\ g.token = None /\ g.frames = H
          /\ g = Known(g.frames, g.token, <<>>, output, started)
      BY <2>4, <3>1, KnownFields
    <3>3. StandsAt(g, H)
      BY <3>2 DEF StandsAt
    <3>4. H[Len(H)].expect \notin {"ObjectComma", "ArrayComma"}
      BY <2>4, <2>5, <2>7
    <3>5. ReadAll(plan, Append(z, Input))
            = AtInside(plan, Known(H, None, <<>>, output, started), Input, Len(z))
      BY <1>2, <2>4, <3>1, <3>2, <3>3, <3>4, ReadOn
    <3> QED BY <2>5, <3>5
  <2>9. AtInside(plan, r, Input, Len(z)) = AtValue(plan, r, h, Input, Len(z))
    <3>1. h = H[Len(H)] /\ h.expect \in ValueExpect
      BY <2>4, <2>5, <2>7 DEF ValueExpect
    <3> QED BY <1>1, <1>5, <2>5, <3>1, InsideAny
  <2>10. PICK S : S = WithTop(H, [h EXCEPT !.emitted = TRUE])
    OBVIOUS
  <2>11. AtValue(plan, r, h, Input, Len(z))
           = ValueOf(action, S, Append(z, Input), Input, Len(z), started, Len(H) < MaxDepth)
    <3>1. h.expect # "ObjectValue" /\ h.action.mode = "project"
      BY <2>1, <2>4, <2>5, <2>7
    <3>2. Asked = Project(plan[h.action.node + 1].child)
      BY <2>1, <2>4, <2>5 DEF Node
    <3>3. Added(output, Comma, h.emitted) = z
      BY <2>4, <2>5 DEF Added, Separating
    <3> HIDE DEF z
    <3>4. AtValue(plan, r, h, Input, Len(z))
            = ValueOf(Applied(Asked, Input), WithTop(H, [h EXCEPT !.emitted = TRUE]),
                      Append(Added(output, Comma, h.emitted), Input), Input, Len(z), started,
                      Len(H) < MaxDepth)
      BY <2>5, <3>1, <3>2, ElementValue
    <3> QED BY <2>10, <3>3, <3>4
  <2>14. PICK f2, h2 : f2 = [f EXCEPT !.emitted = TRUE] /\ h2 = [h EXCEPT !.emitted = TRUE]
    OBVIOUS
  <2>15. /\ f2 \in Frame /\ f2.expect = f.expect /\ f2.action = f.action /\ f2.next = f.next
         /\ f2.emitted /\ f2.object = f.object
         /\ h2 \in Frame /\ h2.expect = h.expect /\ h2.action = h.action
         /\ h2.emitted /\ h2.object = h.object
    BY <1>2, <2>4, <2>5, <2>14, FrameEmitted
  <2>16. Mirrors(f2, h2, TRUE)
    <3>1. f2.emitted = TRUE /\ h2.emitted = TRUE
      <4>1. f2.emitted \in BOOLEAN /\ h2.emitted \in BOOLEAN
        BY <2>15, FrameFields
      <4> QED BY <2>15, <4>1
    <3>2. Plain(f2.action) /\ Plain(f2.next)
      BY <2>6, <2>15 DEF Mirrors
    <3>3. h2.action = f2.action /\ h2.object = f2.object /\ h2.expect = f2.expect
      BY <2>4, <2>5, <2>7, <2>15
    <3>4. h2.expect \notin {"Colon", "ObjectValue"}
      BY <2>7, <2>15
    <3>5. Shows(f2, TRUE) = f2.expect /\ Wrote(f2, TRUE)
      BY <3>1 DEF Shows, Wrote
    <3> QED BY <2>15, <3>1, <3>2, <3>3, <3>4, <3>5 DEF Mirrors
  <2>17. Mirrored(Parents, S, TRUE)
    <3>1. Parents = Replaced(frames, f2) /\ S = Replaced(H, h2)
      BY <1>8, <2>10, <2>14 DEF Parents, Replaced, WithTop, Top
    <3>2. /\ Replaced(H, h2) \in Seq(Frame) /\ Len(Replaced(H, h2)) = Len(H)
          /\ \A i \in 1 .. Len(H) - 1 : Replaced(H, h2)[i] = H[i]
          /\ Replaced(H, h2)[Len(H)] = h2
      BY <2>4, <2>15, ReplacedFacts
    <3>3. /\ Replaced(frames, f2) \in Seq(Frame) /\ Len(Replaced(frames, f2)) = k
          /\ \A i \in 1 .. k - 1 : Replaced(frames, f2)[i] = frames[i]
          /\ Replaced(frames, f2)[k] = f2
      <4>1. frames \in Seq(Frame)
        BY <2>4 DEF Mirrored
      <4> QED BY <1>2, <2>15, <4>1, ReplacedFacts
    <3>4. /\ Parents \in Seq(Frame) /\ Len(Parents) = Len(frames) /\ S \in Seq(Frame)
          /\ Len(S) = Len(G) /\ Len(G) = Len(frames)
          /\ \A i \in 1 .. Len(frames) - 1 : Parents[i] = frames[i] /\ S[i] = G[i]
          /\ Parents[Len(frames)] = f2 /\ S[Len(frames)] = h2
      BY <2>4, <3>1, <3>2, <3>3
    <3>5. f2.action = frames[Len(frames)].action
      BY <2>15 DEF Top
    <3> QED BY <1>2, <2>4, <2>16, <3>4, <3>5, MirrorTops
  <2>18. Plain(action) /\ Len(z) \in Nat
    <3>1. Plain(Asked)
      BY <2>1, ActionTyped DEF Plain
    <3> QED BY <1>6, <2>4, <3>1
  <2>19. Room <=> Len(H) < MaxDepth
    BY <2>4 DEF Room
  <2> HIDE DEF z
  <2>20. ReadAll(plan, Append(Separated, Input))
           = ValueOf(action, S, Append(Separated, Input), Input, Len(z), started, Room)
    <3>1. (Len(H) < MaxDepth) = Room
      BY <2>19 DEF Room
    <3> QED BY <2>2, <2>8, <2>9, <2>11, <3>1
  <2> QED BY <1>4, <2>17, <2>18, <2>20 DEF ValueOf
<1> QED BY <1>7, <1>8

(* A container that is opened and written is read as it was.               *)
LEMMA NewMirrors ==
  ASSUME plan \in Plans, NEW action \in Action, IsNode(action), Plain(action),
         NEW b \in {LBrace, LBracket},
         action.mode = "project" => Fits(action.node, b)
  PROVE  /\ Mirrors(NewFrame(action, b), NewFrame(action, b), FALSE)
         /\ NewFrame(action, b) \in Frame /\ NewFrame(action, b).action = action
<1> DEFINE f == NewFrame(action, b)
<1>1. f \in Frame /\ f.action = action
  BY NewFrameFits
<1>2. /\ f.object = (b = LBrace) /\ f.emitted = FALSE /\ f.next = Discard
      /\ f.expect = IF b = LBrace THEN "ObjectFirst" ELSE "ArrayFirst"
  BY DEF NewFrame
<1> HIDE DEF f
<1>3. Plain(f.next)
  BY <1>2 DEF Plain
<1>4. CASE b = LBrace
  <2>1. f.object /\ f.expect = "ObjectFirst"
    BY <1>2, <1>4
  <2> QED BY <1>1, <1>2, <1>3, <2>1 DEF Mirrors, Shows, Wrote, f
<1>5. CASE b # LBrace
  <2>1. ~f.object /\ f.expect = "ArrayFirst"
    BY <1>2, <1>5
  <2> QED BY <1>1, <1>2, <1>3, <2>1 DEF Mirrors, Shows, Wrote, f
<1> QED BY <1>4, <1>5

LEMMA OpenRootEchoes ==
  ASSUME Inv, EchoInv, OpenRoot
  PROVE  EchoInv'
<1> DEFINE f == NewFrame(Project(0), LBrace)
<1>1. /\ Reading /\ token = None /\ ~started /\ started' = TRUE /\ frames' = <<f>>
      /\ output' = Append(output, LBrace) /\ token' = token /\ plan' = plan
  BY DEF OpenRoot, Structural, Advanced
<1>2. /\ frames = <<>> /\ output = <<>> /\ output' = Append(<<>>, LBrace)
      /\ <<>> \in Seq(Byte) /\ LBrace \in Byte
  BY <1>1, InvParts, BytesTyped DEF Bounded
<1>3. ReadAll(plan, Append(<<>>, LBrace)) = Known(<<f>>, None, <<>>, Append(<<>>, LBrace), TRUE)
  <2>1. ReadAll(plan, Append(<<>>, LBrace)) = Takes(plan, Unread, LBrace, Len(<<>>))
    BY <1>2, ReadOne, ReadNothing
  <2>2. /\ Unread.frames = <<>> /\ Unread.token = None /\ Unread.key = <<>>
        /\ Unread.output = <<>> /\ Unread.started = FALSE /\ Unread.state = "reading"
    BY DEF Unread, Known
  <2>3. LBrace \notin Whitespace
    BY DEF LBrace, Whitespace
  <2> HIDE DEF f
  <2>4. Ended(Unread, LBrace) = Unread
    BY <2>2 DEF Ended
  <2>5. Takes(plan, Unread, LBrace, Len(<<>>)) = AtOutside(Unread, LBrace, Len(<<>>))
    BY <2>2, <2>4 DEF Takes
  <2>6. AtOutside(Unread, LBrace, Len(<<>>)) = Known(<<f>>, None, <<>>, Append(<<>>, LBrace), TRUE)
    BY <2>2, <2>3 DEF AtOutside, f
  <2> QED BY <2>1, <2>5, <2>6
<1>4. /\ Project(0) \in Action /\ IsNode(Project(0)) /\ Project(0).node = 0
      /\ Project(0).mode = "project" /\ Plain(Project(0)) /\ Fits(0, LBrace)
  BY ActionTyped, RootNode, InvParts DEF Project, Plain, Fits
<1>5. Mirrors(f, f, FALSE) /\ f.action # Discard
  <2>1. Mirrors(f, f, FALSE) /\ f.action = Project(0)
    BY <1>4, InvParts, NewMirrors
  <2> QED BY <2>1, ActionTyped
<1> HIDE DEF f
<1>6. Mirrored(<<>>, <<>>, TRUE)
  BY DEF Mirrored
<1>7. Mirrored(Append(<<>>, f), Append(<<>>, f), FALSE)
  BY <1>5, <1>6, MirrorPush
<1>8. Append(<<>>, f) = <<f>>
  OBVIOUS
<1> QED BY <1>1, <1>2, <1>3, <1>7, <1>8, EchoesAtStack

(* A value that is dropped begins.                                         *)
LEMMA DroppedBegins ==
  ASSUME Inv, ValueDue, Applied(Asked, Input) = Discard
  PROVE  Parents = frames /\ Separated = output
<1>1. Asked = Discard
  BY ValueDueFacts, AppliedFacts
<1>2. ~ProjectedElement
  BY <1>1, ActionTyped DEF Asked, ProjectedElement
<1> QED BY <1>2 DEF Parents, Separated

LEMMA OpenEchoes ==
  ASSUME Inv, EchoInv, Open
  PROVE  EchoInv'
<1> DEFINE action == Applied(Asked, Input)
           f      == NewFrame(action, Input)
<1>1. /\ ValueDue /\ Input \in {LBrace, LBracket} /\ Room
      /\ frames' = Append(Parents, f)
      /\ output' = IF action = Discard THEN Separated ELSE Append(Separated, Input)
      /\ token' = token /\ started' = started /\ plan' = plan
  BY DEF Open, Advanced
<1>2. /\ Inside /\ Reading /\ token = None /\ frames # <<>> /\ plan \in Plans
      /\ Asked \in Action /\ IsNode(Asked)
  BY <1>1, ValueDueFacts, InsideTop, InvParts
<1>3. /\ action \in Action /\ IsNode(action)
      /\ action.mode = "project" => Fits(action.node, Input)
  BY <1>2, AppliedFacts
<1>4. CASE action = Discard
  <2>1. Parents = frames /\ Separated = output
    BY <1>1, <1>4, DroppedBegins
  <2> HIDE DEF action
  <2>2. f \in Frame /\ f.action = Discard
    BY <1>1, <1>2, <1>3, <1>4, NewFrameFits
  <2> HIDE DEF f
  <2>3. ASSUME NEW G, Mirrored(frames, G, FALSE) PROVE Mirrored(frames', G, FALSE)
    BY <1>1, <1>2, <2>1, <2>2, <2>3, MirrorPushDropped
  <2>4. output' = output
    BY <1>1, <1>4, <2>1
  <2> QED BY <1>1, <1>2, <2>3, <2>4, EchoSilent
<1>5. CASE action # Discard
  <2>1. PICK S :
          /\ Mirrored(Parents, S, TRUE) /\ Plain(action)
          /\ ReadAll(plan, Append(Separated, Input))
               = Known(Append(S, f), None, <<>>, Append(Separated, Input), started)
    BY <1>1, <1>5, ValueEchoes
  <2> HIDE DEF action
  <2>2. Mirrors(f, f, FALSE) /\ f.action = action
    BY <1>1, <1>2, <1>3, <2>1, NewMirrors
  <2> HIDE DEF f
  <2>3. Mirrored(frames', Append(S, f), FALSE)
    BY <1>1, <1>5, <2>1, <2>2, MirrorPush
  <2>4. ReadAll(plan, output') = Known(Append(S, f), None, <<>>, output', started')
    BY <1>1, <1>5, <2>1
  <2> QED BY <1>1, <1>2, <2>3, <2>4, EchoesAtStack
<1> QED BY <1>4, <1>5

LEMMA BeginScalarEchoes ==
  ASSUME Inv, EchoInv, BeginScalar
  PROVE  EchoInv'
<1> DEFINE action == Applied(Asked, Input)
           d == IF action # Discard THEN "Output" ELSE "Discard"
           t == [scalar |-> Start(Input), key |-> FALSE, start |-> offset, destination |-> d]
<1>1. /\ ValueDue /\ Startable(Input) /\ token' = t /\ frames' = Parents
      /\ output' = IF action # Discard THEN Append(Separated, Input) ELSE Separated
      /\ started' = started /\ plan' = plan
  BY DEF BeginScalar, Advanced
<1>2. /\ Inside /\ Reading /\ token = None /\ frames # <<>> /\ Input \in Byte
      /\ offset \in Nat /\ Start(Input) \in ScalarState
  BY <1>1, ValueDueFacts, InsideTop, InvParts, StartTyped
<1>3. ASSUME NEW n \in Nat, NEW e \in Destination
      PROVE  LET u == [scalar |-> Start(Input), key |-> FALSE, start |-> n, destination |-> e]
             IN  /\ u \in Token /\ u # None /\ u.scalar = Start(Input) /\ u.key = FALSE
                 /\ u.destination = e
  <2> DEFINE u == [scalar |-> Start(Input), key |-> FALSE, start |-> n, destination |-> e]
  <2>1. u \in Token
    BY <1>2 DEF Token
  <2> QED BY <2>1, NoneIsNoToken
<1>4. d \in Destination
  BY DEF Destination
<1>5. /\ token' # None /\ token'.scalar = Start(Input) /\ token'.key = FALSE
      /\ token'.destination = d
  <2> HIDE DEF d
  <2> QED BY <1>1, <1>2, <1>3, <1>4
<1> HIDE DEF t
<1>6. CASE action = Discard
  <2>1. Parents = frames /\ Separated = output
    BY <1>1, <1>6, DroppedBegins
  <2>2. d = "Discard" /\ output' = output /\ frames' = frames
    BY <1>1, <1>6, <2>1
  <2> HIDE DEF d
  <2> QED BY <1>1, <1>2, <1>5, <2>2, EchoSilent
<1>7. CASE action # Discard
  <2>1. PICK S, n :
          /\ Mirrored(Parents, S, TRUE) /\ n \in Nat
          /\ ReadAll(plan, Append(Separated, Input))
               = Known(S, [scalar |-> Start(Input), key |-> FALSE, start |-> n,
                           destination |-> "Output"], <<>>,
                       Append(Separated, Input), started)
    BY <1>1, <1>7, ValueEchoes
  <2>2. PICK u : u = [scalar |-> Start(Input), key |-> FALSE, start |-> n, destination |-> "Output"]
    OBVIOUS
  <2>3. /\ u \in Token /\ u.scalar = Start(Input) /\ u.key = FALSE /\ u.destination = "Output"
    <3>1. "Output" \in Destination
      BY DEF Destination
    <3> QED BY <1>3, <2>1, <2>2, <3>1
  <2>4. d = "Output"
    BY <1>7
  <2> HIDE DEF d
  <2>5. ReadAll(plan, output') = Known(S, u, <<>>, output', started')
    BY <1>1, <1>7, <2>1, <2>2
  <2>6. Mirrored(frames', S, ~token'.key)
    <3>1. (~token'.key) = TRUE
      BY <1>5
    <3> QED BY <1>1, <2>1, <3>1
  <2> QED BY <1>1, <1>5, <2>3, <2>4, <2>5, <2>6, EchoesInScalar
<1> QED BY <1>6, <1>7

-----------------------------------------------------------------------------
(* The calls, and the theorem.                                             *)

LEMMA EchoKept ==
  ASSUME EchoInv, status' = status,
         UNCHANGED <<plan, frames, token, key, output, started>>
  PROVE  EchoInv'
  BY DEF EchoInv, Echoes, Spells

LEMMA StepEchoes ==
  ASSUME Inv, EchoInv, Step
  PROVE  EchoInv'
<1>1. CASE Scalar
  <2>1. CASE BadByte \/ LookupKeyBroken
    BY <2>1 DEF BadByte, LookupKeyBroken, Broken, Fail, EchoInv
  <2> QED BY <1>1, <2>1, SpanEchoes, ScalarByteEchoes, ValueEndsEchoes, NumberEndsEchoes,
             PlainKeyEndsEchoes, LookupKeyEndsEchoes DEF Scalar
<1>2. CASE Structure
  <2>1. CASE BadRoot \/ TrailingInput \/ Misplaced \/ TooDeep \/ BadValue
    BY <2>1 DEF BadRoot, TrailingInput, Misplaced, TooDeep, BadValue, Broken, Fail, EchoInv
  <2> QED BY <1>2, <2>1, OuterSpaceEchoes, InnerSpaceEchoes, CloseEchoes, BeginKeyEchoes,
             ReadColonEchoes, ReadCommaEchoes, OpenRootEchoes, OpenEchoes, BeginScalarEchoes
          DEF Structure
<1>3. CASE FeedReturns
  BY <1>3, EchoKept DEF FeedReturns, engine
<1> QED BY <1>1, <1>2, <1>3 DEF Step

LEMMA InitEchoes == Init => EchoInv
<1> SUFFICES ASSUME Init PROVE EchoInv
  OBVIOUS
<1>1. /\ token = None /\ frames = <<>> /\ output = <<>> /\ started = FALSE
  BY DEF Init
<1>2. ReadAll(plan, output) = Unread
  BY <1>1, ReadNothing
<1>3. Unread.token = None /\ Unread.frames = <<>>
  BY DEF Unread, Known
<1>4. StandsAt(Unread, <<>>) /\ Unread = Known(Unread.frames, Unread.token, <<>>, output, started)
  BY <1>1, <1>3 DEF StandsAt, Unread
<1>5. Mirrored(<<>>, <<>>, FALSE)
  BY DEF Mirrored
<1>6. Echoes(Unread, frames, token, output, started)
  BY <1>1, <1>4, <1>5 DEF Echoes
<1> QED BY <1>1, <1>2, <1>6 DEF EchoInv

(* A reading that mirrors the session answers as the property says.        *)
LEMMA EchoAnswers ==
  ASSUME Inv, EchoInv
  PROVE  ProjectsToItself
<1> DEFINE g     == ReadAll(plan, output)
           again == Deserved(output, plan)
<1>1. /\ again.r = "bad" <=> g.state = "refused"
      /\ again.out = g.output
      /\ g.state # "refused" =>
           (again.r = "ok" <=> /\ g.started /\ g.frames = <<>>
                               /\ g.token = None \/ CanFinish(g.token.scalar))
  BY DeservedFacts
<1> HIDE DEF again
<1>2. CASE status # "Active"
  <2>1. output = <<>>
    BY <1>2, InvParts DEF Settled
  <2>2. g = Unread
    BY <2>1, ReadNothing
  <2>3. g.output = <<>> /\ g.started = FALSE /\ g.state = "reading"
    BY <2>2, KnownFields DEF Unread, Known
  <2> HIDE DEF g
  <2> QED BY <1>1, <1>2, <2>1, <2>3 DEF ProjectsToItself, again
<1>3. CASE status = "Active"
  <2>1. Echoes(g, frames, token, output, started)
    BY <1>3 DEF EchoInv
  <2>2. g = Known(g.frames, g.token, <<>>, output, started)
    BY <2>1 DEF Echoes
  <2> HIDE DEF g
  <2>3. g.output = output /\ g.started = started /\ g.state = "reading"
    BY <2>2 DEF Known
  <2>4. frames = <<>> <=> g.frames = <<>> /\ (g.token = None \/ CanFinish(g.token.scalar))
    <3>1. CASE token # None /\ token.destination = "Output"
      <4>1. frames # <<>> /\ Mirrored(frames, g.frames, ~token.key)
        BY <2>1, <3>1, InvParts DEF Echoes, TokenFits
      <4>2. g.frames # <<>>
        BY <4>1 DEF Mirrored
      <4> QED BY <4>1, <4>2
    <3>2. CASE ~(token # None /\ token.destination = "Output")
      <4>1. PICK G : StandsAt(g, G) /\ Mirrored(frames, G, FALSE)
        BY <2>1, <3>2 DEF Echoes
      <4>2. frames = <<>> <=> G = <<>>
        <5>1. Len(G) <= Len(frames) /\ G \in Seq(Frame)
          BY <4>1 DEF Mirrored
        <5>2. frames = <<>> => Len(frames) = 0
          OBVIOUS
        <5>3. frames = <<>> => G = <<>>
          <6>1. Len(G) \in Nat
            BY <4>1 DEF Mirrored
          <6> QED BY <5>1, <5>2, <6>1, EmptySeq
        <5> QED BY <4>1, <5>3 DEF Mirrored
      <4>3. CASE g.token = None /\ g.frames = G
        BY <4>2, <4>3
      <4>4. CASE /\ g.token # None /\ Over(g.token)
                 /\ g.frames # <<>> /\ g.frames \in Seq(Frame) /\ G = ValueDone(g.frames)
        <5>1. G # <<>>
          <6>1. Len(ValueDone(g.frames)) = Len(g.frames) /\ Len(g.frames) # 0
            BY <4>4, DoneTop, EmptySeq
          <6> QED BY <4>4, <6>1
        <5> QED BY <4>2, <4>4, <5>1
      <4> QED BY <4>1, <4>3, <4>4 DEF StandsAt
    <3> QED BY <3>1, <3>2
  <2> QED BY <1>1, <1>3, <2>3, <2>4 DEF ProjectsToItself, again
<1> QED BY <1>2, <1>3

(* What a session has written can be projected again and comes out as it   *)
(* is: no comma or bracket of it is misplaced, no number runs into what    *)
(* follows it, and nothing it keeps would be dropped a second time.        *)
THEOREM WhatIsWrittenProjectsToItself == Spec => []ProjectsToItself
<1>1. Inv /\ EchoInv /\ [Next]_vars => EchoInv'
  <2> SUFFICES ASSUME Inv, EchoInv, [Next]_vars PROVE EchoInv'
    OBVIOUS
  <2>1. CASE \E c \in Offer(fed) : Feed(c)
    BY <2>1, EchoKept DEF Feed, engine
  <2>2. CASE Closed
    BY <2>2, EchoKept DEF Closed, engine
  <2>3. CASE Finish \/ FinishIncomplete
    BY <2>3 DEF Finish, FinishIncomplete, Fail, EchoInv
  <2>4. CASE Step
    BY <2>4, StepEchoes
  <2>5. CASE UNCHANGED vars
    BY <2>5, EchoKept DEF vars, engine
  <2> QED BY <2>1, <2>2, <2>3, <2>4, <2>5 DEF Next
<1> QED BY <1>1, InitEchoes, Consistent, EchoAnswers, PTL DEF Spec
=============================================================================
