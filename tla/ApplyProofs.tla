----------------------------- MODULE ApplyProofs -----------------------------
(***************************************************************************)
(* What apply_stream answers, whatever the source, the sizes of the reads  *)
(* and the verdict on the bytes.                                           *)
(***************************************************************************)
EXTENDS ApplyStream, SequenceTheorems, TLAPS

(* How much of the source the session has.                                 *)
Given == IF pc = "use" THEN position - Len(chunk) ELSE position

(* The chunk at hand is what was read last; an empty one is the end.       *)
ChunkIsNext ==
  pc = "use" =>
    /\ chunk = SubSeq(source, position - Len(chunk) + 1, position)
    /\ chunk = <<>> => position = Len(source)

(* A session that is active has not been given anything bad.               *)
NothingBad == status = "Active" => Verdict(doc, spec).r # "bad"

(* Inductive: what holds between two steps of the loop.                    *)
LoopInv == TypeOK /\ FedInOrder /\ ChunkIsNext /\ NothingBad

-----------------------------------------------------------------------------
LEMMA Sizes ==
  ASSUME TypeOK
  PROVE  /\ source \in Seq(Byte) /\ Len(source) \in Nat
         /\ position \in Nat /\ position <= Len(source)
         /\ chunk \in Seq(Byte) /\ Len(chunk) \in Nat /\ Len(chunk) <= position
         /\ size \in Int
  BY SourceAssumption, SizeAssumption, LenProperties DEF TypeOK

(* Until it is over the call has no outcome, and its session is active.    *)
LEMMA UnderWay ==
  ASSUME TypeOK
  PROVE  /\ spec \in Specs
         /\ pc # "done" => status = "Active" /\ outcome = Running
  BY DEF TypeOK, Answers

LEMMA OutcomeTyped ==
  /\ \A kind \in Exception :
       /\ Raised(kind, 0).kind = kind
       /\ Raised(kind, 0) \in Outcome
  /\ Running.kind = "running"
<1>1. <<>> \in Seq(Byte)
  BY EmptySeq
<1> QED BY <1>1 DEF Raised, Running, Exception, Outcome

(* The start of a source.                                                  *)
LEMMA FirstBytes ==
  ASSUME TypeOK, NEW n \in 0 .. Len(source)
  PROVE  First(n) \in Seq(Byte) /\ Len(First(n)) = n
<1>1. \A i \in 1 .. n : source[i] \in Byte
  BY Sizes, ElementOfSeq
<1> QED BY <1>1, Sizes, SubSeqProperties DEF First

LEMMA AllBytes ==
  ASSUME TypeOK
  PROVE  First(Len(source)) = source /\ First(0) = <<>>
  BY Sizes, SubSeqFull, SubSeqEmpty DEF First

(* The bytes after the first p.                                            *)
LEMMA NextBytes ==
  ASSUME TypeOK, NEW p \in 0 .. Len(source), NEW n \in 0 .. Len(source) - p
  PROVE  LET next == SubSeq(source, p + 1, p + n)
         IN  /\ next \in Seq(Byte) /\ Len(next) = n
             /\ First(p) \o next = First(p + n)
<1>1. \A i \in p + 1 .. p + n : source[i] \in Byte
  BY Sizes, ElementOfSeq
<1>2. /\ SubSeq(source, p + 1, p + n) \in Seq(Byte)
      /\ Len(SubSeq(source, p + 1, p + n)) = n
  BY <1>1, Sizes, SubSeqProperties
<1>3. First(p) \o SubSeq(source, p + 1, p + n) = First(p + n)
  <2>1. /\ 1 \in 1 .. Len(source) + 1
        /\ p \in 1 - 1 .. Len(source)
        /\ p + n \in p .. Len(source)
    BY Sizes
  <2> QED BY <2>1, Sizes, ConcatAdjacentSubSeq DEF First
<1> QED BY <1>2, <1>3

(* Feeding the chunk at hand gives the session all that was read.          *)
LEMMA FedSoFar ==
  ASSUME LoopInv, pc = "use"
  PROVE  doc \o chunk = First(position) /\ position \in 0 .. Len(source)
<1> DEFINE p == position - Len(chunk)
<1>1. p \in 0 .. Len(source) /\ Len(chunk) \in 0 .. Len(source) - p
      /\ p + Len(chunk) = position /\ position \in 0 .. Len(source)
  BY Sizes DEF LoopInv
<1>2. doc = First(p) /\ chunk = SubSeq(source, p + 1, p + Len(chunk))
  BY <1>1 DEF LoopInv, FedInOrder, ChunkIsNext
<1>3. First(p) \o SubSeq(source, p + 1, p + Len(chunk)) = First(p + Len(chunk))
  <2> HIDE DEF p
  <2> QED BY <1>1, NextBytes DEF LoopInv
<1> QED BY <1>1, <1>2, <1>3

(* What the verdicts on what was fed are, and on the whole source.         *)
LEMMA Verdicts ==
  ASSUME TypeOK, spec \in Specs, NEW n \in 0 .. Len(source)
  PROVE  /\ Verdict(First(n), spec).r \in {"ok", "more", "bad"}
         /\ Verdict(First(n), spec).at \in Nat
         /\ Verdict(First(n), spec).out \in Seq(Byte)
         /\ Verdict(<<>>, spec).r = "more"
         /\ Verdict(First(n), spec).r = "bad" =>
              /\ Verdict(source, spec).r = "bad"
              /\ Verdict(source, spec).at = Verdict(First(n), spec).at
  BY VerdictAssumption, Sizes DEF TypeOK, First

-----------------------------------------------------------------------------
(* The invariant.                                                          *)

LEMMA LoopInit == Init => LoopInv
<1> SUFFICES ASSUME Init PROVE LoopInv
  OBVIOUS
<1>1. TypeOK
  <2>1. Len(source) \in Nat /\ chunk \in Seq(Byte) /\ Len(chunk) = 0 /\ <<>> \in Seq(Byte)
    BY SourceAssumption, LenProperties, EmptySeq DEF Init
  <2>2. position = 0 /\ chunk = <<>> /\ signal = FALSE /\ pc = "called"
        /\ source \in Sources /\ size \in ChunkSizes
    BY DEF Init
  <2>3. position \in 0 .. Len(source) /\ Len(chunk) <= position
    BY <2>1, <2>2
  <2>4. /\ spec \in Specs /\ doc = <<>> /\ status = "Active" /\ outcome = Running
        /\ reply = [result |-> "none", offset |-> 0, bytes |-> <<>>]
    BY DEF Init, Session!Init, Session!Replied
  <2>5. Answers
    BY <2>2, <2>4 DEF Answers, Running, Raised
  <2>6. outcome \in Outcome
    BY <2>1, <2>4 DEF Running, Raised, Outcome
  <2> QED BY <2>1, <2>2, <2>3, <2>4, <2>5, <2>6 DEF TypeOK
<1>2. doc = First(0) /\ doc = <<>>
  BY <1>1, AllBytes DEF Init, Session!Init
<1>3. Verdict(doc, spec).r # "bad"
  BY <1>1, <1>2, Sizes, Verdicts DEF Init, Session!Init
<1> QED
  BY <1>1, <1>2, <1>3 DEF Init, LoopInv, FedInOrder, ChunkIsNext, NothingBad

(* A step that leaves the session and the reader alone, and at most moves  *)
(* on to the next read or ends the call with an exception.                 *)
LEMMA Untouched ==
  ASSUME LoopInv, UNCHANGED <<session, reader, size, chunk>>,
         signal' \in BOOLEAN,
         \/ pc' = pc /\ outcome' = outcome
         \/ pc \in {"called", "check"} /\ pc' \in {"check", "read"} /\ outcome' = outcome
         \/ /\ pc \in {"called", "check", "read"} /\ pc' = "done"
            /\ \E kind \in Exception :
                  outcome' = Raised(kind, 0)
  PROVE  LoopInv'
<1> USE DEF LoopInv
<1>1. UNCHANGED <<spec, doc, status, reply, source, position, size, chunk>>
  BY DEF session, reader
<1>2. Answers'
  <2>1. CASE pc' = pc /\ outcome' = outcome
    BY <1>1, <2>1 DEF TypeOK, Answers, Running, Raised
  <2>2. CASE pc # "done" /\ pc' # "done" /\ outcome' = outcome
    BY <1>1, <2>2 DEF TypeOK, Answers, Running, Raised
  <2>3. CASE /\ pc # "done" /\ pc' = "done"
             /\ \E kind \in Exception :
                   outcome' = Raised(kind, 0)
    <3>1. outcome'.kind \in Exception
      BY <2>3, OutcomeTyped
    <3>2. status' = "Active" /\ outcome'.kind \notin {"running", "returned", "parse"}
      BY <1>1, <2>3, <3>1, UnderWay DEF Exception
    <3>3. outcome' # Running
      BY <3>2, OutcomeTyped
    <3> QED BY <2>3, <3>2, <3>3 DEF Answers
  <2> QED BY <2>1, <2>2, <2>3
<1>3. TypeOK'
  <2>1. outcome' \in Outcome
    BY OutcomeTyped DEF TypeOK
  <2>2. pc' \in {"called", "check", "read", "use", "done"}
    BY DEF TypeOK
  <2> QED BY <1>1, <1>2, <2>1, <2>2 DEF TypeOK
<1> QED
  BY <1>1, <1>3 DEF FedInOrder, First, ChunkIsNext, NothingBad

LEMMA ReadKeeps ==
  ASSUME LoopInv, Read
  PROVE  LoopInv'
<1> USE DEF LoopInv
<1> PICK n \in 0 .. Left : /\ n = 0 => Left = 0
                           /\ chunk' = SubSeq(source, position + 1, position + n)
                           /\ position' = position + n
  BY DEF Read
<1>1. position \in 0 .. Len(source) /\ n \in 0 .. Len(source) - position
  BY Sizes DEF Left
<1>2. /\ chunk' \in Seq(Byte) /\ Len(chunk') = n
      /\ position' \in 0 .. Len(source)
  BY <1>1, NextBytes, Sizes
<1>3. TypeOK'
  <2>1. Len(chunk') <= position'
    BY <1>1, <1>2
  <2>2. UNCHANGED <<spec, doc, status, reply, source, size, signal, outcome>> /\ pc = "read"
        /\ pc' = "use"
    BY DEF Read, session
  <2>3. Answers'
    BY <2>2, UnderWay, OutcomeTyped DEF Answers
  <2> QED BY <1>2, <2>1, <2>2, <2>3 DEF TypeOK
<1>4. position' - Len(chunk') = position
  BY <1>1, <1>2
<1>5. FedInOrder'
  BY <1>4 DEF Read, FedInOrder, First, session
<1>6. chunk' = <<>> => position' = Len(source)
  BY <1>1, <1>2 DEF Left
<1>7. ChunkIsNext'
  BY <1>1, <1>2, <1>4, <1>6 DEF Read, ChunkIsNext
<1>8. NothingBad'
  BY DEF Read, NothingBad, session
<1> QED BY <1>3, <1>5, <1>7, <1>8

(* What a feed or a finish leaves alone, and what it may answer.           *)
LEMMA AnswersTyped ==
  ASSUME TypeOK, UNCHANGED <<spec, source, position, size, chunk, signal>>, pc = "use",
         doc' \in Seq(Byte),
         NEW at \in Nat, NEW out \in Seq(Byte),
         \/ /\ status' = "Active" /\ pc' = "check" /\ outcome' = outcome
            /\ reply' = Session!Replied("ok")
         \/ /\ status' = "Failed" /\ pc' = "done" /\ outcome' = Raised("parse", reply'.offset)
            /\ reply' = Session!ParseError(at)
         \/ /\ status' = "Finished" /\ pc' = "done" /\ outcome' = Returned(reply'.bytes)
            /\ reply' = Session!Output(out)
  PROVE  TypeOK'
<1>1. <<>> \in Seq(Byte)
  BY EmptySeq
<1>2. status = "Active" /\ outcome = Running
  BY UnderWay
<1>3. reply' \in [result : {"none", "ok", "output", "parse"}, offset : Nat, bytes : Seq(Byte)]
  <2>1. reply' = Session!Replied("ok") => reply'
          \in [result : {"none", "ok", "output", "parse"}, offset : Nat, bytes : Seq(Byte)]
    BY <1>1 DEF Session!Replied
  <2>2. reply' = Session!ParseError(at) => reply'
          \in [result : {"none", "ok", "output", "parse"}, offset : Nat, bytes : Seq(Byte)]
    BY <1>1 DEF Session!ParseError
  <2>3. reply' = Session!Output(out) => reply'
          \in [result : {"none", "ok", "output", "parse"}, offset : Nat, bytes : Seq(Byte)]
    BY DEF Session!Output
  <2> QED BY <2>1, <2>2, <2>3
<1>4. outcome' \in Outcome
  <2>1. reply'.offset \in Nat /\ reply'.bytes \in Seq(Byte)
    BY <1>3
  <2>2. Raised("parse", reply'.offset) \in Outcome /\ Returned(reply'.bytes) \in Outcome
    BY <1>1, <2>1 DEF Raised, Returned, Outcome
  <2>3. outcome \in Outcome
    BY DEF TypeOK
  <2> QED BY <2>2, <2>3
<1>5. Answers'
  BY <1>2 DEF Answers, Running, Raised, Returned
<1> QED BY <1>3, <1>4, <1>5 DEF TypeOK

LEMMA FeedKeeps ==
  ASSUME LoopInv, Feed
  PROVE  LoopInv'
<1> USE DEF LoopInv
<1>1. doc' = First(position) /\ position \in 0 .. Len(source)
  BY FedSoFar DEF Feed, Session!Feed
<1>2. pc' \in {"check", "done"}
  BY DEF Feed, Return
<1>3. doc' \in Seq(Byte) /\ Len(doc') = position
  BY <1>1, FirstBytes
<1>4. doc' # <<>>
  <2>1. doc \o chunk = doc' /\ chunk # <<>>
    BY DEF Feed, Session!Feed
  <2>2. Len(chunk) \in Nat /\ Len(chunk) <= position /\ position \in Nat
    BY Sizes
  <2>3. Len(chunk) # 0
    BY <2>1, Sizes, EmptySeq
  <2> QED BY <1>3, <2>2, <2>3, EmptySeq
<1>5. TypeOK'
  <2>1. /\ Verdict(doc', spec).at \in Nat /\ <<>> \in Seq(Byte)
    BY <1>1, Verdicts, UnderWay, EmptySeq
  <2>2. UNCHANGED <<spec, source, position, size, chunk, signal>> /\ pc = "use"
    BY DEF Feed, Session!Feed, reader
  <2>3. \/ /\ status' = "Active" /\ pc' = "check" /\ outcome' = outcome
           /\ reply' = Session!Replied("ok")
        \/ /\ status' = "Failed" /\ pc' = "done" /\ outcome' = Raised("parse", reply'.offset)
           /\ reply' = Session!ParseError(Verdict(doc', spec).at)
    BY DEF Feed, Session!Feed, Return
  <2> QED BY <1>3, <2>1, <2>2, <2>3, AnswersTyped
<1>6. FedInOrder' /\ ChunkIsNext'
  BY <1>1, <1>2 DEF Feed, FedInOrder, First, ChunkIsNext, reader
<1>7. NothingBad'
  BY <1>2, <1>4 DEF Feed, Session!Feed, NothingBad
<1> QED BY <1>5, <1>6, <1>7

LEMMA FinishKeeps ==
  ASSUME LoopInv, Finish
  PROVE  LoopInv'
<1> USE DEF LoopInv
<1>1. pc' = "done" /\ doc' = doc /\ UNCHANGED <<spec, source, position, size, chunk, signal>>
      /\ pc = "use"
  BY DEF Finish, Session!Finish, Return, reader
<1>2. TypeOK'
  <2>1. doc \o chunk = First(position) /\ chunk = <<>> /\ position \in 0 .. Len(source)
        /\ doc \in Seq(Byte)
    BY <1>1, FedSoFar DEF Finish, TypeOK
  <2>2. doc = First(position) /\ Len(doc) \in Nat
    BY <2>1, ConcatEmptySeq, LenProperties
  <2>3. Verdict(doc, spec).out \in Seq(Byte)
    BY <2>1, <2>2, Verdicts, UnderWay
  <2>4. \/ /\ status' = "Finished" /\ outcome' = Returned(reply'.bytes)
           /\ reply' = Session!Output(Verdict(doc, spec).out)
        \/ /\ status' = "Failed" /\ outcome' = Raised("parse", reply'.offset)
           /\ reply' = Session!ParseError(Len(doc))
    BY DEF Finish, Session!Finish, Return
  <2> QED BY <1>1, <2>1, <2>2, <2>3, <2>4, AnswersTyped
<1>3. FedInOrder'
  <2>1. Len(chunk) = 0 /\ position \in Nat
    BY Sizes, EmptySeq DEF Finish
  <2> QED BY <1>1, <2>1 DEF Finish, FedInOrder, First
<1>4. ChunkIsNext' /\ NothingBad'
  BY <1>1 DEF Finish, Session!Finish, ChunkIsNext, NothingBad
<1> QED BY <1>2, <1>3, <1>4

LEMMA LoopStep == LoopInv /\ [Next]_vars => LoopInv'
<1> SUFFICES ASSUME LoopInv, [Next]_vars PROVE LoopInv'
  OBVIOUS
<1>1. signal \in BOOLEAN
  BY DEF LoopInv, TypeOK
<1>2. CASE RefuseSize \/ NoReader \/ Start
  BY <1>1, <1>2, Untouched DEF RefuseSize, NoReader, Start, Return, Exception
<1>3. CASE SignalArrives
  BY <1>3, Untouched DEF SignalArrives
<1>4. CASE CheckSignals \/ ReadFails
  BY <1>1, <1>4, Untouched DEF CheckSignals, ReadFails, Return, Exception
<1>5. CASE Over \/ UNCHANGED vars
  BY <1>1, <1>5, Untouched DEF Over, vars
<1> QED
  BY <1>2, <1>3, <1>4, <1>5, ReadKeeps, FeedKeeps, FinishKeeps DEF Next, Step

(* The loop keeps its types, and between two steps the session has been    *)
(* given exactly what was read, the chunk at hand aside (apply_stream in   *)
(* src/lib.rs).                                                            *)
THEOREM LoopConsistent == Spec => []LoopInv
  BY LoopInit, LoopStep, PTL DEF Spec

(* Every variable of a call keeps its type, for all sources and sizes.     *)
THEOREM ApplyTyped == Spec => []TypeOK
<1>1. LoopInv => TypeOK
  BY DEF LoopInv
<1> QED BY <1>1, LoopConsistent, PTL

(* Nothing that is read is lost, fed twice or fed out of order.            *)
THEOREM NothingLost == Spec => []FedInOrder
<1>1. LoopInv => FedInOrder
  BY DEF LoopInv
<1> QED BY <1>1, LoopConsistent, PTL

(* A call that returns has read its source to the end and returns what     *)
(* the whole of it deserves, however the reader cut it.                    *)
THEOREM WholeOrNothing == Spec => []ReturnsTheWhole
<1>1. Init => ReturnsTheWhole
  BY DEF Init, ReturnsTheWhole, Running, Raised
<1>2. LoopInv /\ ReturnsTheWhole /\ [Next]_vars => ReturnsTheWhole'
  <2> SUFFICES ASSUME LoopInv, ReturnsTheWhole, [Next]_vars, outcome'.kind = "returned"
               PROVE  ReturnsTheWhole'
    BY DEF ReturnsTheWhole
  <2>1. CASE Finish
    <3>1. position = Len(source) /\ doc = source
      BY <2>1, FedSoFar, AllBytes, Sizes, ConcatEmptySeq
         DEF Finish, LoopInv, ChunkIsNext, FedInOrder
    <3> QED BY <2>1, <3>1 DEF Finish, Session!Finish, Session!Output,
                Session!ParseError, Return, Returned, Raised, ReturnsTheWhole, reader
  <2>2. CASE RefuseSize \/ NoReader \/ ReadFails
    BY <2>2 DEF RefuseSize, NoReader, ReadFails, Return, Raised
  <2>3. CASE Feed \/ CheckSignals
    BY <2>3, UnderWay DEF Feed, CheckSignals, Return, Raised, Running, LoopInv
  <2>4. CASE Start \/ Read \/ SignalArrives
    <3>1. CASE pc # "done"
      BY <2>4, <3>1, UnderWay DEF Start, Read, SignalArrives, LoopInv, Running, Raised
    <3> QED BY <2>4, <3>1 DEF Start, Read, SignalArrives
  <2>5. CASE Over \/ UNCHANGED vars
    BY <2>5 DEF Over, vars, session, reader, ReturnsTheWhole
  <2> QED BY <2>1, <2>2, <2>3, <2>4, <2>5 DEF Next, Step
<1> QED BY <1>1, <1>2, LoopConsistent, PTL DEF Spec

(* A call that fails on its JSON fails at the read that brought the error, *)
(* at the offset the whole source has it, or at the end of a source that   *)
(* stops too soon.                                                         *)
THEOREM ErrorsAtOnce == Spec => []StopsAtError
<1>1. Init => StopsAtError
  BY DEF Init, StopsAtError, Running, Raised
<1>2. LoopInv /\ StopsAtError /\ [Next]_vars => StopsAtError'
  <2> SUFFICES ASSUME LoopInv, StopsAtError, [Next]_vars, outcome'.kind = "parse"
               PROVE  StopsAtError'
    BY DEF StopsAtError
  <2> USE DEF LoopInv
  <2>1. CASE Feed
    <3>1. doc' = First(position) /\ position \in 0 .. Len(source)
      BY <2>1, FedSoFar DEF Feed, Session!Feed
    <3>2. /\ status' = "Failed"
          /\ outcome'.offset = reply'.offset
      BY <2>1, UnderWay DEF Feed, Return, Raised, Running
    <3>3. /\ Verdict(doc', spec).r = "bad"
          /\ reply'.offset = Verdict(doc', spec).at
      BY <2>1, <3>2, UnderWay DEF Feed, Session!Feed, Session!ParseError
    <3>4. /\ Verdict(source, spec).r = "bad"
          /\ outcome'.offset = Verdict(source, spec).at
      BY <2>1, <3>1, <3>2, <3>3, Verdicts, UnderWay DEF Feed, Session!Feed
    <3>5. Verdict(First(position - Len(chunk)), spec).r # "bad"
      BY <2>1, UnderWay DEF Feed, NothingBad, FedInOrder
    <3> QED
      BY <2>1, <3>4, <3>5 DEF Feed, Session!Feed, StopsAtError, First, reader
  <2>2. CASE Finish
    <3>1. position = Len(source) /\ doc = source
      BY <2>2, FedSoFar, AllBytes, Sizes, ConcatEmptySeq
         DEF Finish, ChunkIsNext, FedInOrder
    <3>2. Verdict(source, spec).r \in {"ok", "more"}
      BY <3>1, AllBytes, Sizes, Verdicts, UnderWay, <2>2 DEF Finish, NothingBad
    <3> QED
      BY <2>2, <3>1, <3>2 DEF Finish, Session!Finish, Session!Output,
         Session!ParseError, Return, Returned, Raised, StopsAtError, reader
  <2>3. CASE RefuseSize \/ NoReader \/ ReadFails
    BY <2>3 DEF RefuseSize, NoReader, ReadFails, Return, Raised
  <2>4. CASE CheckSignals
    BY <2>4, UnderWay DEF CheckSignals, Return, Raised, Running
  <2>5. CASE Start \/ Read
    BY <2>5, UnderWay DEF Start, Read, Running, Raised
  <2>6. CASE SignalArrives \/ Over \/ UNCHANGED vars
    BY <2>6 DEF SignalArrives, Over, vars, session, reader, StopsAtError, First
  <2> QED BY <2>1, <2>2, <2>3, <2>4, <2>5, <2>6 DEF Next, Step
<1> QED BY <1>1, <1>2, LoopConsistent, PTL DEF Spec

(* Every step of the loop leaves less to be done, whatever the reads give. *)
THEOREM EndsWithTheSource == Spec => MovesOn
<1>1. LoopInv /\ [Next]_vars => [pc' # pc => Budget' < Budget]_vars
  <2> SUFFICES ASSUME LoopInv, Next, pc' # pc PROVE Budget' < Budget
    OBVIOUS
  <2> USE DEF LoopInv
  <2>1. position \in Nat /\ Len(source) \in Nat /\ Left \in Nat
    BY Sizes DEF Left
  <2>2. CASE RefuseSize \/ NoReader \/ Start \/ CheckSignals \/ ReadFails
    <3>1. Left' = Left
      BY <2>2 DEF RefuseSize, NoReader, Start, CheckSignals, ReadFails, reader, Left
    <3> QED BY <2>1, <2>2, <3>1 DEF RefuseSize, NoReader, Start, CheckSignals,
                ReadFails, Return, Budget
  <2>3. CASE Read
    <3>1. PICK n \in 0 .. Left : /\ n = 0 => Left = 0
                                 /\ chunk' = SubSeq(source, position + 1, position + n)
                                 /\ position' = position + n
      BY <2>3 DEF Read
    <3>2. chunk' \in Seq(Byte) /\ Len(chunk') = n
      BY <2>1, <3>1, Sizes, NextBytes DEF Left
    <3>3. Left' = Left - n
      <4>1. source' = source
        BY <2>3 DEF Read
      <4> QED BY <2>1, <3>1, <4>1 DEF Left
    <3>4. chunk' = <<>> <=> n = 0
      BY <3>2, EmptySeq
    <3> QED BY <2>1, <2>3, <3>1, <3>3, <3>4 DEF Read, Budget
  <2>4. CASE Feed \/ Finish
    <3>1. Left' = Left /\ chunk' = chunk
      BY <2>4 DEF Feed, Finish, reader, Left
    <3> QED BY <2>1, <2>4, <3>1 DEF Feed, Finish, Return, Budget
  <2>5. CASE SignalArrives \/ Over
    BY <2>5 DEF SignalArrives, Over, vars
  <2> QED BY <2>2, <2>3, <2>4, <2>5 DEF Next, Step
<1> QED BY <1>1, LoopConsistent, PTL DEF Spec, MovesOn
=============================================================================
