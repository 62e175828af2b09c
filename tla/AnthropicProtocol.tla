------------------------- MODULE AnthropicProtocol -------------------------
(***************************************************************************)
(* The Messages streaming protocol as a client sees it: the events, what a *)
(* parser knows after each, and which event may come next.  A message      *)
(* starts once; its content blocks are numbered from 0, open one at a time *)
(* and take deltas of their own kind only; it ends with one message_delta, *)
(* sent when no block is open, and one message_stop.                       *)
(***************************************************************************)
EXTENDS Integers, Sequences

NoBlock == -1
Kinds == {"text", "tool_use"}

MessageStart == [type |-> "message_start"]
BlockStart(i, k, t) == [type |-> "content_block_start", index |-> i, kind |-> k, tool |-> t]
BlockDelta(i, k, d) == [type |-> "content_block_delta", index |-> i, kind |-> k, data |-> d]
BlockStop(i) == [type |-> "content_block_stop", index |-> i]
MessageDelta(r, n) == [type |-> "message_delta", reason |-> r, tokens |-> n]
MessageStop == [type |-> "message_stop"]

VARIABLES client,   \* what the parser knows: the phase of the message, the
                    \* index and kind of the open block, the next index
          taken     \* the events received, in order

Waiting == [phase |-> "waiting", block |-> NoBlock, kind |-> "none", next |-> 0]

\* The parser after event e.
After(c, e) ==
  CASE e.type = "message_start" -> [c EXCEPT !.phase = "content"]
    [] e.type = "content_block_start" ->
         [c EXCEPT !.block = e.index, !.kind = e.kind, !.next = e.index + 1]
    [] e.type = "content_block_delta" -> c
    [] e.type = "content_block_stop" -> [c EXCEPT !.block = NoBlock, !.kind = "none"]
    [] e.type = "message_delta" -> [c EXCEPT !.phase = "ending"]
    [] e.type = "message_stop" -> [c EXCEPT !.phase = "over"]

Legal(c, e) ==
  \/ e.type = "message_start" /\ c.phase = "waiting"
  \/ e.type = "content_block_start" /\ c.phase = "content" /\ c.block = NoBlock
       /\ e.index = c.next
  \/ e.type = "content_block_delta" /\ c.phase = "content" /\ c.block # NoBlock
       /\ e.index = c.block /\ e.kind = c.kind
  \/ e.type = "content_block_stop" /\ c.phase = "content" /\ c.block # NoBlock
       /\ e.index = c.block
  \/ e.type = "message_delta" /\ c.phase = "content" /\ c.block = NoBlock
  \/ e.type = "message_stop" /\ c.phase = "ending"

Init == client = Waiting /\ taken = <<>>

\* One more event is received, whatever it is, and it is legal.
Next ==
  /\ Len(taken') > Len(taken)
  /\ LET e == taken'[Len(taken')]
     IN taken' = Append(taken, e) /\ Legal(client, e) /\ client' = After(client, e)

Spec == Init /\ [][Next]_<<client, taken>>
=============================================================================
