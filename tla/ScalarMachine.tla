--------------------------- MODULE ScalarMachine ---------------------------
(***************************************************************************)
(* One scalar going through the lexer of src/stream/lexer.rs: started with *)
(* a byte, pushed a byte at a time until it ends or is refused.            *)
(***************************************************************************)
EXTENDS Lexer, ScalarText

CONSTANT Offer(_, _)   (* bytes that may follow a text in a lexer state     *)

VARIABLES
  scalar,              (* the lexer's state                                *)
  text,                (* history: the bytes it has seen                   *)
  advance              (* what the last push answered                      *)

vars == <<scalar, text, advance>>

Init == \E b \in Byte :
  /\ Startable(b)
  /\ scalar = Start(b) /\ text = <<b>> /\ advance = "Consumed"

PushByte(b) ==
  /\ advance = "Consumed" /\ b \in Byte
  /\ scalar' = Push(scalar, b).state
  /\ advance' = Push(scalar, b).advance
  /\ text' = Append(text, b)

Next == \E b \in Offer(text, scalar) : PushByte(b)

Spec == Init /\ [][Next]_vars

-----------------------------------------------------------------------------
(* Every variable has its type; in particular no integer prefix is longer  *)
(* than the limit.                                                         *)
TypeOK == /\ scalar \in ScalarState
          /\ text \in Seq(Byte)
          /\ advance \in Advance

(* The limit counts the bytes of the prefix, the minus included: while the *)
(* integer is read, the count is the length of the text.                   *)
PrefixIsCounted ==
  scalar.st = "Integer" /\ advance = "Consumed" => scalar.n = Len(text)

(* The digits of a \u escape are all in the accumulator: as many as have   *)
(* been read fit it, so that the shift never loses a bit.                  *)
EscapeFits ==
  scalar.st = "Unicode" =>
    scalar.value < CASE scalar.n = 4 -> 1
                     [] scalar.n = 3 -> 16
                     [] scalar.n = 2 -> 256
                     [] scalar.n = 1 -> 4096

(* A byte that a span may skip is one that push would consume and that     *)
(* would leave the lexer as it was.                                        *)
SpanIsInvisible ==
  \A b \in Byte : SpanByte(scalar, b) => Push(scalar, b) = Consumed(scalar)

(* The lexer recognises the scalars of the grammar and refuses a byte as   *)
(* soon as no scalar goes on with it: the answer to every byte is what the *)
(* reference scan of the text says, and finish() accepts exactly the texts *)
(* that are a scalar as they stand.                                        *)
ReadsTheGrammar ==
  LET read == ScalarEnd(text, 0)
  IN  CASE advance = "Error"     -> read = Bad(Len(text) - 1)
        [] advance = "Delimiter" -> read = Ok(Len(text) - 1)
        [] advance = "Complete"  -> read = Ok(Len(text))
        [] advance = "Consumed"  ->
             IF CanFinish(scalar) THEN read = Ok(Len(text)) ELSE read.r = "more"
=============================================================================
