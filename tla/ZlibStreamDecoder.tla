-------------------------- MODULE ZlibStreamDecoder --------------------------
(***************************************************************************)
(* ZlibStreamDecoder (internals/discord/wscompress.go): inflates the       *)
(* gateway's compressed frames one at a time out of one deflate stream.    *)
(* Each Decode hands its frame to a fresh goroutine that writes it into an *)
(* unbuffered io.Pipe, and reads the other end through bufio and inflate.  *)
(*                                                                         *)
(* A frame is a sequence of tokens.  A data token is one unit of input and *)
(* of output; units are numbered in the order the gateway sent them.  The  *)
(* library the decoder leans on is modelled by what the decoder can see of *)
(* it: bufio takes one pipe read of at most Bufio tokens when it is empty, *)
(* and inflate gives output up only at a flush token, when its window is   *)
(* full, or when the stream is corrupt.                                    *)
(***************************************************************************)
EXTENDS Integers, Sequences, FiniteSets

CONSTANTS Callers,      \* goroutines that use the decoder
          FirstFrames,  \* what the first frame of a stream may look like
          Frames,       \* what a later frame may look like: a stream has one header
          MaxFrames,    \* bound of the model: frames in a session
          Bufio,        \* tokens in bufio's buffer (4096 bytes)
          ReadSize,     \* units in drain's buffer (8192 bytes)
          Window,       \* units in inflate's window (32768 bytes)
          NoCaller      \* the mutex is free

Kinds == {"header", "data", "flush", "corrupt"}

ASSUME FrameAssumption ==
    /\ FirstFrames \subseteq Seq(Kinds) \ {<<>>}
    /\ Frames \subseteq Seq(Kinds) \ {<<>>}
    /\ \A f \in Frames : f[1] # "header"
    /\ MaxFrames \in Nat

ASSUME SizeAssumption == /\ Bufio \in Nat \ {0}
                         /\ ReadSize \in Nat \ {0}
                         /\ Window \in Nat \ {0}

ASSUME CallerAssumption == NoCaller \notin Callers

Token == [kind : Kinds, unit : Nat]
Writer == [left : Seq(Token), state : {"ready", "writing", "done"}]

VARIABLES mu,         \* holder of ZlibStreamDecoder.mu
          pc,         \* where each caller is
          reader,     \* ZlibStreamDecoder.reader: nil, live, or failed for good
          closed,     \* pr and pw have been closed
          writers,    \* one goroutine per Decode: what it has left to write
          flushing,   \* isZlibFlush of the frame being decoded
          bufio,      \* tokens read from the pipe, not yet inflated
          dict,       \* inflated units inflate has not given up yet
          filled,     \* position in inflate's window
          toRead,     \* units inflate has given up, not yet read
          out,        \* drain's result buffer
          sent,       \* units in the frames given to Decode so far
          before,     \* units in the frames before the latest
          delivered,  \* all that the calls of Decode have returned
          outcome     \* how the latest call returned

pipe == <<writers, bufio>>
inflate == <<dict, filled, toRead>>
frame == <<flushing, sent, before>>
result == <<out, delivered, outcome>>
vars == <<mu, pc, reader, closed, pipe, inflate, frame, result>>

Least(m, n) == IF m < n THEN m ELSE n

Units == 1 .. sent

Inside == {"open", "joinError", "join", "read", "select"}

TypeOK == /\ mu \in Callers \cup {NoCaller}
          /\ pc \in [Callers -> Inside \cup {"idle", "lock", "closing", "closed"}]
          /\ \A c \in Callers : pc[c] \in Inside => mu = c
          /\ reader \in {"nil", "live", "failed"}
          /\ closed \in BOOLEAN
          /\ writers \in Seq(Writer)
          /\ flushing \in BOOLEAN
          /\ bufio \in Seq(Token)
          /\ filled \in 0 .. Window - 1
          /\ {dict, toRead, out, delivered} \subseteq Seq(Units)
          /\ sent \in Nat /\ before \in 0 .. sent
          /\ outcome \in {"none", "nil", "message", "error"}

Init == /\ mu = NoCaller
        /\ pc = [c \in Callers |-> "idle"]
        /\ reader = "nil"
        /\ closed = FALSE
        /\ writers = <<>>
        /\ flushing = FALSE
        /\ bufio = <<>>
        /\ dict = <<>> /\ filled = 0 /\ toRead = <<>>
        /\ out = <<>>
        /\ sent = 0 /\ before = 0
        /\ delivered = <<>>
        /\ outcome = "none"

------------------------------------------------------------------------------
Goto(c, place) == pc' = [pc EXCEPT ![c] = place]

UnitsUpTo(f, j) == Cardinality({k \in 1 .. j : f[k] = "data"})

Number(f) == [j \in DOMAIN f |-> [kind |-> f[j], unit |-> sent + UnitsUpTo(f, j)]]

isZlibFlush(f) == f[Len(f)] = "flush"

Calling == {c \in Callers : pc[c] = "lock"}

Call(c) == /\ pc[c] = "idle"
           /\ Len(writers) + Cardinality(Calling) < MaxFrames
           /\ Goto(c, "lock")
           /\ UNCHANGED <<mu, reader, closed, pipe, inflate, frame, result>>

(* Mutation: Decode does not take the mutex.                               *)
Barge(c) == mu' = c

Acquire(c) == mu = NoCaller /\ mu' = c

(* Decode takes the mutex, starts the writer of its frame, and opens the   *)
(* zlib reader if there is none.  Frames are numbered in this order.       *)
Lock(c) ==
    /\ pc[c] = "lock"
    /\ Acquire(c)
    /\ \E f \in IF writers = <<>> THEN FirstFrames ELSE Frames :
          /\ writers' = Append(writers, [left |-> Number(f), state |-> "ready"])
          /\ sent' = sent + UnitsUpTo(f, Len(f))
          /\ flushing' = isZlibFlush(f)
          /\ Goto(c, CASE reader = "nil" -> "open"
                       [] reader # "nil" /\ isZlibFlush(f) -> "read"
                       [] OTHER -> "join")
    /\ before' = sent
    /\ outcome' = "none"
    /\ UNCHANGED <<reader, closed, bufio, inflate, out, delivered>>

(* Decode returns what it has got, and its deferred Unlock runs.           *)
Return(c, how, got) == /\ Goto(c, "idle")
                       /\ mu' = NoCaller
                       /\ outcome' = how
                       /\ delivered' = delivered \o got
                       /\ out' = <<>>

------------------------------------------------------------------------------
(* The writer goroutines.  io.Pipe lets one write in at a time.            *)
Begin(w) == /\ writers[w].state = "ready"
            /\ \A v \in DOMAIN writers : writers[v].state # "writing"
            /\ writers' = [writers EXCEPT ![w].state = "writing"]

(* Write returns, and the writer fires writeDone: the gap between the two  *)
(* is what drain races with.                                               *)
WriteDone(w) == /\ writers[w].state # "done"
                /\ closed \/ (writers[w].state = "writing" /\ writers[w].left = <<>>)
                /\ writers' = [writers EXCEPT ![w].state = "done"]

Write(w) == /\ w \in DOMAIN writers
            /\ Begin(w) \/ WriteDone(w)
            /\ UNCHANGED <<mu, pc, reader, closed, bufio, inflate, frame, result>>

Joined == writers[Len(writers)].state = "done"

------------------------------------------------------------------------------
(* The read side: bufio is empty and takes one read of the pipe.           *)
Reading(c) == /\ pc[c] \in {"open", "read"}
              /\ toRead = <<>>
              /\ pc[c] = "read" => reader = "live"

Fill(c) ==
    /\ Reading(c)
    /\ bufio = <<>>
    /\ ~closed
    /\ \E w \in DOMAIN writers :
          LET left == writers[w].left
              n == Least(Len(left), Bufio)
          IN  /\ writers[w].state = "writing"
              /\ left # <<>>
              /\ bufio' = SubSeq(left, 1, n)
              /\ writers' = [writers EXCEPT ![w].left = SubSeq(left, n + 1, Len(left))]
    /\ UNCHANGED <<mu, pc, reader, closed, inflate, frame, result>>

FreshInflate == dict' = <<>> /\ filled' = 0 /\ toRead' = <<>>

(* zlib.NewReader: the stream must begin with a header.  On an error the   *)
(* reader and its bufio are thrown away and the writer is joined.          *)
Open(c) ==
    /\ pc[c] = "open"
    /\ bufio # <<>> \/ closed
    /\ IF bufio # <<>> /\ bufio[1].kind = "header"
       THEN /\ reader' = "live"
            /\ bufio' = Tail(bufio)
            /\ Goto(c, IF flushing THEN "read" ELSE "join")
       ELSE /\ UNCHANGED reader
            /\ bufio' = <<>>
            /\ Goto(c, "joinError")
    /\ FreshInflate
    /\ UNCHANGED <<mu, closed, writers, frame, result>>

(* Mutation: Decode returns without waiting for its writer.                *)
ReturnUnjoined(c) ==
    /\ pc[c] \in {"join", "joinError"}
    /\ Return(c, IF pc[c] = "joinError" THEN "error" ELSE "nil", <<>>)
    /\ UNCHANGED <<reader, closed, pipe, inflate, frame>>

(* A frame that is not a flush, or a bad header: the writer is joined.     *)
Join(c) ==
    /\ pc[c] \in {"join", "joinError"}
    /\ Joined
    /\ Return(c, IF pc[c] = "joinError" THEN "error" ELSE "nil", <<>>)
    /\ UNCHANGED <<reader, closed, pipe, inflate, frame>>

(* Inflate takes a token.  It gives up what it has inflated at a flush, at *)
(* the end of its window, and when the stream is corrupt.                  *)
Inflate(c) ==
    /\ pc[c] = "read"
    /\ Reading(c)
    /\ bufio # <<>>
    /\ bufio' = Tail(bufio)
    /\ LET token == bufio[1]
           data == token.kind = "data"
           grown == IF data THEN Append(dict, token.unit) ELSE dict
           full == data /\ filled + 1 = Window
       IN  /\ IF data /\ ~full
              THEN dict' = grown /\ UNCHANGED toRead
              ELSE dict' = <<>> /\ toRead' = grown
           /\ filled' = IF full THEN 0 ELSE IF data THEN filled + 1 ELSE filled
           /\ reader' = IF token.kind \in {"corrupt", "header"} THEN "failed" ELSE reader
    /\ UNCHANGED <<mu, pc, closed, writers, frame, result>>

(* One Read of drain returns up to ReadSize units.  With the last units of *)
(* a failed stream comes its error, which ends Decode.                     *)
Read(c) ==
    /\ pc[c] = "read"
    /\ toRead # <<>>
    /\ LET n == Least(Len(toRead), ReadSize)
           got == out \o SubSeq(toRead, 1, n)
       IN  /\ toRead' = SubSeq(toRead, n + 1, Len(toRead))
           /\ IF reader = "failed" /\ n = Len(toRead)
              THEN Return(c, "error", got)
              ELSE /\ Goto(c, IF n < ReadSize THEN "select" ELSE "read")
                   /\ out' = got
                   /\ UNCHANGED <<mu, delivered, outcome>>
    /\ UNCHANGED <<reader, closed, pipe, dict, filled, frame>>

(* A reader that has failed keeps its error; the writer is not joined.     *)
ReadError(c) ==
    /\ pc[c] = "read"
    /\ toRead = <<>>
    /\ reader = "failed"
    /\ Return(c, "error", out)
    /\ UNCHANGED <<reader, closed, pipe, inflate, frame>>

(* Mutation: drain stops at the first short read, writer or no writer.     *)
SelectBlindly(c) ==
    /\ pc[c] = "select"
    /\ Return(c, "message", out)
    /\ UNCHANGED <<reader, closed, pipe, inflate, frame>>

(* After a short read drain looks, without waiting, whether the writer has *)
(* finished: it returns if so and reads again if not.                      *)
Select(c) ==
    /\ pc[c] = "select"
    /\ IF Joined THEN Return(c, "message", out)
                 ELSE Goto(c, "read") /\ UNCHANGED <<mu, result>>
    /\ UNCHANGED <<reader, closed, pipe, inflate, frame>>

------------------------------------------------------------------------------
CallClose(c) == /\ pc[c] = "idle"
                /\ Goto(c, "closing")
                /\ UNCHANGED <<mu, reader, closed, pipe, inflate, frame, result>>

(* Mutation: only the zlib reader is closed, not the pipe under it.        *)
KeepPipe == UNCHANGED closed

ClosePipe == closed' = TRUE

(* Mutation: Close does not wait for the call in progress.                 *)
CloseAtOnce(c) ==
    /\ pc[c] = "closing"
    /\ Goto(c, "closed")
    /\ ClosePipe
    /\ reader' = "nil" /\ bufio' = <<>>
    /\ FreshInflate
    /\ UNCHANGED <<mu, writers, frame, result>>

Close(c) ==
    /\ pc[c] = "closing"
    /\ mu = NoCaller
    /\ Goto(c, "closed")
    /\ ClosePipe
    /\ reader' = "nil" /\ bufio' = <<>>
    /\ FreshInflate
    /\ UNCHANGED <<mu, writers, frame, result>>

------------------------------------------------------------------------------
Run(c) == \/ Lock(c) \/ Fill(c) \/ Open(c) \/ Join(c) \/ Inflate(c)
          \/ Read(c) \/ ReadError(c) \/ Select(c) \/ Close(c)

Next == \/ \E c \in Callers : Call(c) \/ Run(c) \/ CallClose(c)
        \/ \E w \in 1 .. MaxFrames : Write(w)

Spec == Init /\ [][Next]_vars

(* The Go scheduler runs every goroutine that can run; nothing makes the   *)
(* gateway send another frame or the session end.                          *)
FairSpec == /\ Spec
            /\ \A c \in Callers : WF_vars(Run(c))
            /\ \A w \in 1 .. MaxFrames : WF_vars(Write(w))

------------------------------------------------------------------------------
(* What the calls of Decode return is, put together, a prefix of what the  *)
(* gateway compressed: nothing is lost, doubled or swapped, whatever the   *)
(* writer goroutines of successive calls do to each other.                 *)
InOrder == delivered = [i \in 1 .. Len(delivered) |-> i]

Unfinished == {w \in DOMAIN writers : writers[w].state # "done"}

(* Until the stream fails or is closed, a call starts its writer only     *)
(* after the writers of all earlier calls have finished.                  *)
WritersJoinedWhileLive == reader # "failed" /\ ~closed => Cardinality(Unfinished) <= 1

(* A message that Decode cuts short (it does: see FlushedOutputIsComplete) *)
(* is completed by the next: when a flushed frame returns a message, all   *)
(* that earlier frames held has been delivered.                            *)
AtMostOneMessageLate == outcome = "message" => Len(delivered) >= before

(* Close lets go of every writer that a failed stream left blocked, so the *)
(* goroutines of a session end with it.                                    *)
CloseReleasesWriters ==
    (\E c \in Callers : pc[c] = "closed") ~> (\A w \in DOMAIN writers : writers[w].state = "done")

Abstract == INSTANCE StreamDecoder
            WITH Sizes <- {UnitsUpTo(f, Len(f)) : f \in FirstFrames \cup Frames},
                 decoder <- [holder |-> mu, before |-> before, fed |-> sent,
                             delivered |-> delivered, closed |-> closed]

(* To its callers, mutex, writer goroutines, pipe and inflate are one      *)
(* decoder that takes a call at a time and gives out the stream in order.  *)
ImplementsDecoder == Abstract!Spec

(* Claims of the source that the code does not keep, one run each.         *)

(* wscompress.go: "when data ends on a Z_SYNC_FLUSH boundary, returns the  *)
(* bytes decompressed so far".                                             *)
FlushedOutputIsComplete == outcome = "message" => Len(delivered) = sent

(* known-issues.md, of a drain that has issued one more read: "the next    *)
(* Decode call writes more bytes to the pipe and unblocks the read".       *)
NextDecodeUnblocks == \A c, d \in Callers :
    (c # d /\ pc[c] = "read" /\ pc[d] = "lock") ~> (pc[c] # "read")

(* wscompress.go: "For non-terminal frames it returns (nil, nil)".         *)
NonTerminalReturns == \A c \in Callers : pc[c] = "join" ~> pc[c] = "idle"
==============================================================================
