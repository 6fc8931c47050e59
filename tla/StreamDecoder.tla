---------------------------- MODULE StreamDecoder ----------------------------
(***************************************************************************)
(* What the zlib-stream decoder promises to whoever calls it, with no      *)
(* mention of writer goroutines, pipes, bufio or inflate: one call at a    *)
(* time; a call begins by feeding a frame of some units, and if it returns *)
(* it adds the next units of the stream to what has been delivered, all    *)
(* that earlier frames held at least when it returns a message.  It may    *)
(* also never return.  Close waits for the call in progress.               *)
(*                                                                         *)
(* ZlibStreamDecoder implements this specification; InspectWS is written   *)
(* on top of it.                                                           *)
(***************************************************************************)
EXTENDS Naturals, Sequences

CONSTANTS Callers,   \* goroutines that call the decoder
          Sizes,     \* how many units a frame may hold
          NoCaller   \* no call is in progress

VARIABLE decoder  \* who is inside Decode, the units fed (before the latest
                  \* frame, and in all), those delivered, and whether closed

Stream(n) == [i \in 1 .. n |-> i]

Init == decoder = [holder |-> NoCaller, before |-> 0, fed |-> 0,
                   delivered |-> <<>>, closed |-> FALSE]

Begin(c, n) ==
    /\ decoder.holder = NoCaller
    /\ decoder' = [decoder EXCEPT !.holder = c, !.before = decoder.fed, !.fed = decoder.fed + n]

(* How much a call delivers, by how it returns.                            *)
Progress(how) ==
    {n \in Len(decoder.delivered) .. decoder.fed :
        /\ how = "nil" => n = Len(decoder.delivered)
        /\ how = "message" => n >= decoder.before}

Return(how) ==
    /\ decoder.holder # NoCaller
    /\ \E n \in Progress(how) :
          decoder' = [decoder EXCEPT !.holder = NoCaller, !.delivered = Stream(n)]

Close ==
    /\ decoder.holder = NoCaller
    /\ decoder' = [decoder EXCEPT !.closed = TRUE]

Next == \/ \E c \in Callers, n \in Sizes : Begin(c, n)
        \/ \E how \in {"nil", "message", "error"} : Return(how)
        \/ Close

Spec == Init /\ [][Next]_decoder
==============================================================================
