------------------------- MODULE ProjectionContract -------------------------
(***************************************************************************)
(* What a streaming session promises, said without a scanner: its answers  *)
(* depend on the bytes fed so far and on the rules, never on where the     *)
(* chunks were cut, and after the last of them it only refuses.  What the  *)
(* bytes deserve is a parameter, which WholeDocument gives a value.        *)
(***************************************************************************)
EXTENDS Integers, Sequences

CONSTANTS
  Specs,          (* the rules a session may be opened with                *)
  Chunks(_),      (* chunks the caller may feed after having fed some bytes*)
  Verdict(_, _)   (* on bytes and rules: r is "ok" if they are a document, *)
                  (* "more" if they begin one, "bad" if they do not; at is *)
                  (* the offset that is bad, out the projection            *)

VARIABLES spec, doc, status, reply

vars == <<spec, doc, status, reply>>

Replied(result) == [result |-> result, offset |-> 0, bytes |-> <<>>]
ParseError(at)  == [result |-> "parse", offset |-> at, bytes |-> <<>>]
Output(bytes)   == [result |-> "output", offset |-> 0, bytes |-> bytes]

-----------------------------------------------------------------------------
Init ==
  /\ spec \in Specs /\ doc = <<>> /\ status = "Active"
  /\ reply = Replied("none")

Feed(c) ==
  LET after == doc \o c
      v     == Verdict(after, spec)
      bad   == after # <<>> /\ v.r = "bad"
  IN  /\ status = "Active"
      /\ doc' = after
      /\ status' = IF bad THEN "Failed" ELSE "Active"
      /\ reply' = IF bad THEN ParseError(v.at) ELSE Replied("ok")
      /\ UNCHANGED spec

Finish ==
  LET v == Verdict(doc, spec)
  IN  /\ status = "Active"
      /\ status' = IF v.r = "ok" THEN "Finished" ELSE "Failed"
      /\ reply' = IF v.r = "ok" THEN Output(v.out) ELSE ParseError(Len(doc))
      /\ UNCHANGED <<spec, doc>>

Closed ==
  /\ status # "Active"
  /\ reply' = Replied("closed")
  /\ UNCHANGED <<spec, doc, status>>

Next == Finish \/ Closed \/ \E c \in Chunks(doc) : Feed(c)

Spec == Init /\ [][Next]_vars
=============================================================================
