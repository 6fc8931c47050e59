------------------------------ MODULE InspectWS ------------------------------
(***************************************************************************)
(* InspectWS (internals/handlers/ws.go): the two pumps that relay WebSocket*)
(* frames between a bot and Discord once the upgrade has been answered.    *)
(* "up" reads the bot and writes Discord, "down" reads Discord and writes  *)
(* the bot.  A pump that ends closes the connection it writes, which is    *)
(* the one the other pump reads.                                           *)
(*                                                                         *)
(* A payload is only what the properties tell apart: whether, on its way   *)
(* to the bot of a compressed session, it is still the one Discord sent.   *)
(* The decoder is the one StreamDecoder promises, and may keep the pump    *)
(* that calls it for ever.                                                 *)
(***************************************************************************)
EXTENDS Integers, Sequences

CONSTANTS Ops,        \* the kinds of frame the peers send
          MaxFrames,  \* bound of the model: frames a peer sends
          SockBuf     \* frames a connection holds when its peer does not read

ASSUME BoundAssumption == MaxFrames \in Nat /\ SockBuf \in Nat \ {0}
ASSUME OpsAssumption == Ops \subseteq {"text", "binary", "continuation", "close"}

Dirs == {"up", "down"}
Peers == {"bot", "discord"}
Src(d) == IF d = "up" THEN "bot" ELSE "discord"
Dst(d) == IF d = "up" THEN "discord" ELSE "bot"

Frame == [id : Nat, op : Ops, fin : BOOLEAN, rewritten : BOOLEAN]

VARIABLES compressed,  \* isCompressed: the session negotiated zlib-stream
          sent,        \* frames each direction's peer has sent
          inbound,     \* of those, frames the pump has not read
          pump,        \* where each pump is
          held,        \* the frame it is about to write
          outbound,    \* frames written, not yet read by the other peer
          received,    \* frames the other peer has read
          closed,      \* connections InspectWS has closed
          gone,        \* peers that have disconnected
          decoder,     \* the session's ZlibStreamDecoder, see StreamDecoder
          returned     \* InspectWS has returned

ends == <<closed, gone, returned>>
vars == <<compressed, sent, inbound, pump, held, outbound, received, decoder, ends>>

(* Only the pump from Discord calls the decoder; a frame is one unit.      *)
Decoder == INSTANCE StreamDecoder
           WITH Callers <- {"down"}, Sizes <- {1}, NoCaller <- "none"

TypeOK == /\ compressed \in BOOLEAN
          /\ {sent, inbound, outbound, received} \subseteq [Dirs -> Seq(Frame)]
          /\ pump \in [Dirs -> {"read", "decode", "write", "exit", "done"}]
          /\ \A d \in Dirs : Len(outbound[d]) <= SockBuf
          /\ held \in [Dirs -> Frame \cup {<<>>}]
          /\ \A d \in Dirs : pump[d] \in {"decode", "write"} => held[d] \in Frame
          /\ closed \subseteq Peers
          /\ gone \subseteq Peers
          /\ returned \in BOOLEAN

Init == /\ compressed \in BOOLEAN
        /\ sent = [d \in Dirs |-> <<>>]
        /\ inbound = [d \in Dirs |-> <<>>]
        /\ pump = [d \in Dirs |-> "read"]
        /\ held = [d \in Dirs |-> <<>>]
        /\ outbound = [d \in Dirs |-> <<>>]
        /\ received = [d \in Dirs |-> <<>>]
        /\ closed = {}
        /\ gone = {}
        /\ Decoder!Init
        /\ returned = FALSE

------------------------------------------------------------------------------
(* What a pump makes of a frame it has read.                               *)

(* Whether the tamperer's payload replaces one the properties ask about.   *)
Rewrites(d, verdict) == d = "down" /\ compressed /\ verdict = "rewrite"

(* Mutation: the tamperer's payload is forwarded on a compressed session.  *)
OutboundTampered(d, frame, verdict) ==
    [frame EXCEPT !.rewritten = Rewrites(d, verdict), !.fin = TRUE]

(* Whether the pump decodes a frame for the tamperer to look at.           *)
Inspects(d, frame) == d = "down" /\ compressed /\ frame.op = "binary"

(* The payload forwarded: the tamperer's, the one read if the tamperer     *)
(* fails, and always the one read for a frame that is decoded.  wsutil     *)
(* writes a frame of its own, with FIN set.                                *)
Outbound(d, frame, verdict) ==
    [frame EXCEPT !.rewritten = Rewrites(d, verdict) /\ ~Inspects(d, frame), !.fin = TRUE]

(* Mutation: a frame the tamperer fails on is skipped.                     *)
ReadSkipping(d) ==
    /\ pump[d] = "read"
    /\ inbound[d] # <<>>
    /\ inbound' = [inbound EXCEPT ![d] = Tail(inbound[d])]
    /\ \E verdict \in {"same", "rewrite", "error"} :
          IF verdict = "error"
          THEN UNCHANGED <<held, pump>>
          ELSE /\ held' = [held EXCEPT ![d] = Outbound(d, Head(inbound[d]), verdict)]
               /\ pump' = [pump EXCEPT ![d] = "write"]
    /\ UNCHANGED <<compressed, sent, outbound, received, decoder, ends>>

(* ReadFrame, the tamperer's call, and the choice of what to forward.  A   *)
(* frame that bufio holds is still read once the connection is closed.     *)
Read(d) ==
    /\ pump[d] = "read"
    /\ inbound[d] # <<>>
    /\ inbound' = [inbound EXCEPT ![d] = Tail(inbound[d])]
    /\ \E verdict \in {"same", "rewrite", "error"} :
          held' = [held EXCEPT ![d] = Outbound(d, Head(inbound[d]), verdict)]
    /\ IF Inspects(d, Head(inbound[d]))
       THEN pump' = [pump EXCEPT ![d] = "decode"] /\ Decoder!Begin(d, 1)
       ELSE pump' = [pump EXCEPT ![d] = "write"] /\ UNCHANGED decoder
    /\ UNCHANGED <<compressed, sent, outbound, received, ends>>

(* Decode returns: nothing, a message or an error, it makes no difference  *)
(* to what is forwarded.                                                   *)
Decoded ==
    /\ pump["down"] = "decode"
    /\ \E how \in {"nil", "message", "error"} : Decoder!Return(how)
    /\ pump' = [pump EXCEPT !["down"] = "write"]
    /\ UNCHANGED <<compressed, sent, inbound, held, outbound, received, ends>>

(* The peer has left, or the other pump has closed this connection.        *)
ReadFails(d) ==
    /\ pump[d] = "read"
    /\ Src(d) \in gone \cup closed
    /\ pump' = [pump EXCEPT ![d] = "exit"]
    /\ UNCHANGED <<compressed, sent, inbound, held, outbound, received, decoder, ends>>

(* Mutation: a write does not wait for room in the connection.             *)
WriteUnbounded(d) ==
    /\ pump[d] = "write"
    /\ Dst(d) \notin closed
    /\ outbound' = [outbound EXCEPT ![d] = Append(outbound[d], held[d])]
    /\ pump' = [pump EXCEPT ![d] = IF held[d].op = "close" THEN "exit" ELSE "read"]
    /\ UNCHANGED <<compressed, sent, inbound, held, received, decoder, ends>>

(* Mutation: a pump goes on after a close frame.                           *)
WriteOn(d) ==
    /\ pump[d] = "write"
    /\ Dst(d) \notin closed
    /\ Len(outbound[d]) < SockBuf
    /\ outbound' = [outbound EXCEPT ![d] = Append(outbound[d], held[d])]
    /\ pump' = [pump EXCEPT ![d] = "read"]
    /\ UNCHANGED <<compressed, sent, inbound, held, received, decoder, ends>>

(* WriteClientMessage or WriteServerMessage: it blocks while the peer's    *)
(* side of the connection is full.  A close frame is the pump's last.      *)
Write(d) ==
    /\ pump[d] = "write"
    /\ Dst(d) \notin closed
    /\ Len(outbound[d]) < SockBuf
    /\ outbound' = [outbound EXCEPT ![d] = Append(outbound[d], held[d])]
    /\ pump' = [pump EXCEPT ![d] = IF held[d].op = "close" THEN "exit" ELSE "read"]
    /\ UNCHANGED <<compressed, sent, inbound, held, received, decoder, ends>>

WriteFails(d) ==
    /\ pump[d] = "write"
    /\ Dst(d) \in closed \cup gone
    /\ pump' = [pump EXCEPT ![d] = "exit"]
    /\ UNCHANGED <<compressed, sent, inbound, held, outbound, received, decoder, ends>>

(* Mutation: the bot's pump ends without its deferred server.Close.        *)
ExitOpen(d) ==
    /\ pump[d] = "exit"
    /\ closed' = IF d = "up" THEN closed ELSE closed \cup {Dst(d)}
    /\ pump' = [pump EXCEPT ![d] = "done"]
    /\ UNCHANGED <<compressed, sent, inbound, held, outbound, received, decoder, gone, returned>>

(* The deferred calls of a pump: server.Close or client.Close, wg.Done.    *)
Exit(d) ==
    /\ pump[d] = "exit"
    /\ closed' = closed \cup {Dst(d)}
    /\ pump' = [pump EXCEPT ![d] = "done"]
    /\ UNCHANGED <<compressed, sent, inbound, held, outbound, received, decoder, gone, returned>>

(* wg.Wait returns when both pumps are done; only then is the deferred     *)
(* decoder.Close run.                                                      *)
Return == /\ \A d \in Dirs : pump[d] = "done"
          /\ ~returned
          /\ returned' = TRUE
          /\ IF compressed THEN Decoder!Close ELSE UNCHANGED decoder
          /\ UNCHANGED <<compressed, sent, inbound, pump, held, outbound, received, closed, gone>>

Pump(d) == Read(d) \/ ReadFails(d) \/ Write(d) \/ WriteFails(d) \/ Exit(d)

------------------------------------------------------------------------------
(* The peers.                                                              *)

MidMessage(d) == sent[d] # <<>> /\ ~sent[d][Len(sent[d])].fin

(* A peer sends a whole message, a fragment of one, or a close frame, and  *)
(* may not stop there.  Discord's data frames on a compressed session are  *)
(* binary.                                                                 *)
Send(d) ==
    /\ Src(d) \notin gone \cup closed
    /\ Len(sent[d]) < MaxFrames
    /\ \E op \in Ops, fin \in BOOLEAN :
          /\ fin \/ "continuation" \in Ops
          /\ op = "close" => fin /\ ~MidMessage(d)
          /\ op = "continuation" <=> MidMessage(d)
          /\ op = "text" => ~(compressed /\ d = "down")
          /\ LET frame == [id |-> Len(sent[d]) + 1, op |-> op, fin |-> fin, rewritten |-> FALSE]
             IN  /\ sent' = [sent EXCEPT ![d] = Append(sent[d], frame)]
                 /\ inbound' = [inbound EXCEPT ![d] = Append(inbound[d], frame)]
    /\ UNCHANGED <<compressed, pump, held, outbound, received, decoder, ends>>

(* What is in the socket still reaches a peer whose connection was closed. *)
Receive(d) ==
    /\ Dst(d) \notin gone
    /\ outbound[d] # <<>>
    /\ received' = [received EXCEPT ![d] = Append(received[d], Head(outbound[d]))]
    /\ outbound' = [outbound EXCEPT ![d] = Tail(outbound[d])]
    /\ UNCHANGED <<compressed, sent, inbound, pump, held, decoder, ends>>

(* Unless the proxy closed it with input unread: then it is reset, and     *)
(* what the peer had not read is lost.                                     *)
Reset(d, back) ==
    /\ d # back
    /\ Dst(d) \in closed
    /\ inbound[back] # <<>>
    /\ outbound[d] # <<>>
    /\ outbound' = [outbound EXCEPT ![d] = <<>>]
    /\ UNCHANGED <<compressed, sent, inbound, pump, held, received, decoder, ends>>

Disconnect(p) ==
    /\ p \notin gone
    /\ gone' = gone \cup {p}
    /\ UNCHANGED <<compressed, sent, inbound, pump, held, outbound, received, decoder, closed, returned>>

Next == \/ Return \/ Decoded
        \/ \E d \in Dirs : Pump(d) \/ Send(d) \/ Receive(d)
        \/ \E d, back \in Dirs : Reset(d, back)
        \/ \E p \in Peers : Disconnect(p)

Spec == Init /\ [][Next]_vars

(* The scheduler runs both pumps and the goroutine that waits for them;    *)
(* that Decode returns is not assumed.                                     *)
FairPumps == WF_vars(Return) /\ \A d \in Dirs : WF_vars(Pump(d))

(* Besides, a connected peer goes on reading.                              *)
ReadingSpec == Spec /\ FairPumps /\ \A d \in Dirs : WF_vars(Receive(d))

------------------------------------------------------------------------------
Delivered(d) == received[d] \o outbound[d]

Tags(frames) == [i \in DOMAIN frames |-> [id |-> frames[i].id, op |-> frames[i].op]]

(* What a peer is given of a direction is a prefix of what the other peer  *)
(* sent, opcode by opcode: a frame the tamperer or the decoder fails on is *)
(* neither dropped nor doubled, in whatever state the other direction is.  *)
RelayedInOrder == \A d \in Dirs :
    /\ Len(Delivered(d)) <= Len(sent[d])
    /\ \A i \in DOMAIN Delivered(d) : /\ Delivered(d)[i].id = i
                                      /\ Delivered(d)[i].op = sent[d][i].op

(* On a compressed session Discord's binary frames reach the bot as they   *)
(* were read, whatever the tamperer returns: its zlib context survives.    *)
BinaryUntouched == compressed =>
    \A i \in DOMAIN received["down"] :
        received["down"][i].op = "binary" => ~received["down"][i].rewritten

(* However a session begins to end (a close frame, a pump's error, a peer  *)
(* that leaves), InspectWS returns and both connections are closed: only a *)
(* Decode that never returns can hold it, for Close waits for the pump.    *)
SessionEnds ==
    (gone # {} \/ \E d \in Dirs : pump[d] = "done")
        ~> (returned /\ closed = Peers /\ decoder.closed = compressed)
           \/ [](pump["down"] = "decode")

UpRelay == INSTANCE FrameRelay
           WITH sent <- [i \in DOMAIN sent["up"] |-> sent["up"][i].op],
                wire <- Tags(outbound["up"]), received <- Tags(received["up"]),
                ended <- Dst("up") \in closed

DownRelay == INSTANCE FrameRelay
             WITH sent <- [i \in DOMAIN sent["down"] |-> sent["down"][i].op],
                  wire <- Tags(outbound["down"]), received <- Tags(received["down"]),
                  ended <- Dst("down") \in closed

(* Whatever tamperer, decoder and the other direction do, each direction   *)
(* is a relay that carries frames in order, nothing after a close frame    *)
(* and nothing once the connection it writes has been closed.              *)
ImplementsRelay == UpRelay!Spec /\ DownRelay!Spec

(* A claim of the source that the code does not keep.                      *)

(* features.md: on a compressed session "the proxy always forwards the     *)
(* original compressed frame to the bot regardless of what the Tamperer    *)
(* returns".                                                               *)
CompressedUntouched == compressed =>
    \A i \in DOMAIN received["down"] :
        received["down"][i].op # "close" => ~received["down"][i].rewritten
==============================================================================
