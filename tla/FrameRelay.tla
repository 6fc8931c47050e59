------------------------------ MODULE FrameRelay ------------------------------
(***************************************************************************)
(* What one direction of a WebSocket session promises, with no mention of  *)
(* pumps, tamperers, decoders or of the other direction: the frames of the *)
(* peer are carried in the order it sent them, each once and with its      *)
(* opcode, nothing after a close frame and nothing after the direction has *)
(* ended.  What had been carried when it ended may be lost, from the end.  *)
(*                                                                         *)
(* InspectWS implements this specification in each direction.              *)
(***************************************************************************)
EXTENDS Naturals, Sequences

CONSTANT Ops  \* the opcodes of frames

VARIABLES sent,      \* the opcodes of the frames one peer has sent
          wire,      \* frames carried that the other peer has not read
          received,  \* frames it has read
          ended      \* the connection to it is closed

vars == <<sent, wire, received, ended>>

Carried == received \o wire

Init == sent = <<>> /\ wire = <<>> /\ received = <<>> /\ ended = FALSE

Send == /\ \E op \in Ops : sent' = Append(sent, op)
        /\ UNCHANGED <<wire, received, ended>>

Carry == LET n == Len(Carried) + 1
         IN  /\ ~ended
             /\ n <= Len(sent)
             /\ \A i \in DOMAIN Carried : Carried[i].op # "close"
             /\ wire' = Append(wire, [id |-> n, op |-> sent[n]])
             /\ UNCHANGED <<sent, received, ended>>

Arrive == /\ wire # <<>>
          /\ received' = Append(received, Head(wire))
          /\ wire' = Tail(wire)
          /\ UNCHANGED <<sent, ended>>

End == ended' = TRUE /\ UNCHANGED <<sent, wire, received>>

Lose == /\ ended
        /\ wire' = <<>>
        /\ UNCHANGED <<sent, received, ended>>

Next == Send \/ Carry \/ Arrive \/ End \/ Lose

Spec == Init /\ [][Next]_vars
==============================================================================
