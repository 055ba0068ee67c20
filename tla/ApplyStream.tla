---------------------------- MODULE ApplyStream ----------------------------
(***************************************************************************)
(* Projection.apply_stream (src/lib.rs): a session of its own, fed from a  *)
(* Python reader until the reader is at its end.  The session is the       *)
(* abstract one; the reader may give less than it is asked for, fail,      *)
(* or answer with something that is not bytes, and a signal may arrive at  *)
(* any time.                                                               *)
(***************************************************************************)
EXTENDS Bytes

CONSTANTS
  Specs,          (* rules of the Projection                               *)
  Verdict(_, _),  (* what the bytes fed to the session deserve             *)
  Sources,        (* what a reader may have left from its current position *)
  ChunkSizes      (* chunk_size arguments                                  *)

ASSUME SizeAssumption   == ChunkSizes \subseteq Int
ASSUME SourceAssumption == Sources \subseteq Seq(Byte)

(* Nothing is refused before a byte is read, and an error is final: bytes  *)
(* that are bad stay bad, at the same offset, whatever comes after them.   *)
(* A verdict holds an offset and bytes.                                    *)
ASSUME VerdictAssumption ==
  \A s \in Specs :
    /\ Verdict(<<>>, s).r = "more"
    /\ \A d \in Sources : \A n \in 0 .. Len(d) :
         LET part == Verdict(SubSeq(d, 1, n), s)
         IN  /\ part.r \in {"ok", "more", "bad"}
             /\ part.at \in Nat /\ part.out \in Seq(Byte)
             /\ part.r = "bad" =>
                  Verdict(d, s).r = "bad" /\ Verdict(d, s).at = part.at

VARIABLES
  spec, doc, status, reply,   (* the session                               *)
  source,                     (* bytes from the position it was called at  *)
  position,                   (* bytes of them that have been read         *)
  size,                       (* chunk_size                                *)
  chunk,                      (* what the last read returned               *)
  signal,                     (* a Python signal handler is due            *)
  pc,
  outcome                     (* what the call returned or raised          *)

session == <<spec, doc, status, reply>>
reader  == <<source, position>>
vars    == <<session, reader, size, chunk, signal, pc, outcome>>

(* Reads are bounded by what the source holds.                             *)
Anything(x) == {}
Session == INSTANCE ProjectionContract WITH Chunks <- Anything

Left == Len(source) - position

(* The first n bytes from where the source stood.                          *)
First(n) == SubSeq(source, 1, n)

(* What it may raise that is not the session's.                            *)
Exception == {"size", "no_reader", "interrupt", "read_error", "not_bytes"}
Outcome   == [kind : {"running", "returned", "parse"} \cup Exception,
              bytes : Seq(Byte), offset : Nat]

Returned(bytes)  == [kind |-> "returned", bytes |-> bytes, offset |-> 0]
Raised(kind, at) == [kind |-> kind, bytes |-> <<>>, offset |-> at]
Running          == Raised("running", 0)

Init ==
  /\ Session!Init
  /\ source \in Sources /\ position = 0
  /\ size \in ChunkSizes /\ chunk = <<>>
  /\ signal = FALSE /\ pc = "called" /\ outcome = Running

Return(answer) == pc' = "done" /\ outcome' = answer

(* chunk_size is checked before the reader is looked at.                   *)
RefuseSize ==
  /\ pc = "called" /\ size <= 0
  /\ Return(Raised("size", 0))
  /\ UNCHANGED <<session, reader, size, chunk, signal>>

(* A source with no `read` to get.                                         *)
NoReader ==
  /\ pc = "called" /\ size > 0
  /\ Return(Raised("no_reader", 0))
  /\ UNCHANGED <<session, reader, size, chunk, signal>>

Start ==
  /\ pc = "called" /\ size > 0
  /\ pc' = "check"
  /\ UNCHANGED <<session, reader, size, chunk, signal, outcome>>

SignalArrives ==
  /\ pc # "done" /\ ~signal
  /\ signal' = TRUE
  /\ UNCHANGED <<session, reader, size, chunk, pc, outcome>>

(* A handler that is due runs, and raises or not.                          *)
CheckSignals ==
  /\ pc = "check" /\ signal' = FALSE
  /\ \/ signal /\ Return(Raised("interrupt", 0))
     \/ pc' = "read" /\ UNCHANGED outcome
  /\ UNCHANGED <<session, reader, size, chunk>>

(* The reader gives at least a byte unless it is at its end; whether it is *)
(* more than it was asked for is not looked at.                            *)
Read ==
  /\ pc = "read"
  /\ \E n \in 0 .. Left :
       /\ n = 0 => Left = 0
       /\ chunk' = SubSeq(source, position + 1, position + n)
       /\ position' = position + n
  /\ pc' = "use"
  /\ UNCHANGED <<session, source, size, signal, outcome>>

(* An exception of the reader propagates; an answer that is not bytes is a *)
(* TypeError.                                                              *)
ReadFails ==
  /\ pc = "read"
  /\ \E kind \in {"read_error", "not_bytes"} : Return(Raised(kind, 0))
  /\ UNCHANGED <<session, reader, size, chunk, signal>>

(* MUTANT: a chunk shorter than what was asked for is taken for the last.  *)
FeedShortIsLast ==
  /\ pc = "use" /\ chunk # <<>>
  /\ Session!Feed(chunk)
  /\ pc' = IF status' = "Failed" \/ Len(chunk) < size THEN "done" ELSE "check"
  /\ outcome' = IF status' = "Failed" THEN Raised("parse", reply'.offset)
                ELSE IF Len(chunk) < size
                     THEN Returned(Verdict(doc', spec).out)
                     ELSE outcome
  /\ UNCHANGED <<reader, size, chunk, signal>>

(* MUTANT: a chunk that has been fed is fed again.                         *)
FeedTwice ==
  /\ pc = "use" /\ chunk # <<>>
  /\ Session!Feed(chunk)
  /\ IF status' = "Failed" THEN Return(Raised("parse", reply'.offset))
                           ELSE pc' \in {"use", "check"} /\ UNCHANGED outcome
  /\ UNCHANGED <<reader, size, chunk, signal>>

(* MUTANT: an empty read is one more chunk.                                *)
FeedEmpty ==
  /\ pc = "use"
  /\ Session!Feed(chunk)
  /\ IF status' = "Failed" THEN Return(Raised("parse", reply'.offset))
                           ELSE pc' = "check" /\ UNCHANGED outcome
  /\ UNCHANGED <<reader, size, chunk, signal>>

(* MUTANT: a failed feed is not looked at until the source has ended.      *)
FeedIgnoringErrors ==
  /\ pc = "use" /\ chunk # <<>>
  /\ Session!Feed(chunk) \/ Session!Closed
  /\ IF status' = "Failed" /\ Left = 0 THEN Return(Raised("parse", reply'.offset))
                           ELSE pc' = "check" /\ UNCHANGED outcome
  /\ UNCHANGED <<reader, size, chunk, signal>>

Feed ==
  /\ pc = "use" /\ chunk # <<>>
  /\ Session!Feed(chunk)
  /\ IF status' = "Failed" THEN Return(Raised("parse", reply'.offset))
                           ELSE pc' = "check" /\ UNCHANGED outcome
  /\ UNCHANGED <<reader, size, chunk, signal>>

(* MUTANT: what the session had is returned, whether it is complete or not.*)
FinishLeniently ==
  /\ pc = "use" /\ chunk = <<>>
  /\ Session!Finish
  /\ Return(Returned(reply'.bytes))
  /\ UNCHANGED <<reader, size, chunk, signal>>

Finish ==
  /\ pc = "use" /\ chunk = <<>>
  /\ Session!Finish
  /\ Return(IF status' = "Failed" THEN Raised("parse", reply'.offset)
                                  ELSE Returned(reply'.bytes))
  /\ UNCHANGED <<reader, size, chunk, signal>>

Step == RefuseSize \/ NoReader \/ Start \/ CheckSignals \/ Read \/ ReadFails
        \/ Feed \/ Finish

(* Once the call is over nothing happens.                                  *)
Over == pc = "done" /\ UNCHANGED vars

Next == Step \/ SignalArrives \/ Over

Spec == Init /\ [][Next]_vars

-----------------------------------------------------------------------------
(* The call answers for its session: while it runs the session is active,  *)
(* it returns just what the session ends with and raises just the error it *)
(* failed with, and whatever else is raised leaves the session open.       *)
Answers ==
  /\ pc # "done" <=> outcome = Running
  /\ pc # "done" => status = "Active"
  /\ outcome.kind = "returned" <=> status = "Finished"
  /\ outcome.kind = "parse"    <=> status = "Failed"
  /\ status = "Finished" => outcome.bytes = reply.bytes
  /\ status = "Failed"   => outcome.offset = reply.offset

(* Every variable of the session, the reader and the call has its type: a  *)
(* chunk is no more than was read, no call is made on a session that is    *)
(* closed (stream_error's RuntimeError is not for apply_stream), and the   *)
(* call answers for its session.                                           *)
TypeOK ==
  /\ spec \in Specs /\ doc \in Seq(Byte)
  /\ status \in {"Active", "Finished", "Failed"}
  /\ reply \in [result : {"none", "ok", "output", "parse"},
                offset : Nat, bytes : Seq(Byte)]
  /\ source \in Sources /\ position \in 0 .. Len(source)
  /\ size \in ChunkSizes /\ chunk \in Seq(Byte) /\ Len(chunk) <= position
  /\ signal \in BOOLEAN
  /\ pc \in {"called", "check", "read", "use", "done"}
  /\ outcome \in Outcome
  /\ Answers

(* Bytes are returned for the whole source or not at all: a result is the  *)
(* projection of everything from the first position to the end, whatever   *)
(* the reads gave.                                                         *)
ReturnsTheWhole ==
  outcome.kind = "returned" =>
    LET whole == Verdict(source, spec)
    IN  position = Len(source) /\ whole.r = "ok" /\ outcome.bytes = whole.out

(* No byte is read that the session is not given, and none twice: what the *)
(* session has is what was read, the chunk at hand aside.                  *)
FedInOrder ==
  doc = First(IF pc = "use" THEN position - Len(chunk) ELSE position)

(* A JSON error is raised as soon as it is read: at the read that brought  *)
(* it, with the offset the whole source has it at.                         *)
StopsAtError ==
  outcome.kind = "parse" =>
    LET whole == Verdict(source, spec)
    IN  IF whole.r = "bad"
        THEN /\ outcome.offset = whole.at
             /\ Verdict(First(position - Len(chunk)), spec).r # "bad"
        ELSE whole.r = "more" /\ outcome.offset = Len(source)

(* Every call ends, given a source that does: what is left to be done gets *)
(* less with every step, and no state but the last is without one.         *)
Budget ==
  3 * Left + CASE pc = "called" -> 3
               [] pc = "use" /\ chunk # <<>> -> 2
               [] pc = "check"  -> 1
               [] pc = "read"   -> 0
               [] pc = "use" /\ chunk = <<>> -> -1
               [] pc = "done"   -> -2

MovesOn == [][ pc' # pc => Budget' < Budget ]_vars
=============================================================================
