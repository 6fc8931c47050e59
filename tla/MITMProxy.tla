------------------------------ MODULE MITMProxy ------------------------------
(***************************************************************************)
(* MITMProxy (internals/mitm.go): Serve's accept loop, the goroutine that  *)
(* closes the listener when the context is cancelled, and one              *)
(* handleHTTPConn per client: the look at the first byte, the CONNECT      *)
(* request, the handshake, and the handler's session.                      *)
(*                                                                         *)
(* What a client sends is a sequence of tokens: a CONNECT request, a       *)
(* ClientHello, another request, or bytes that are neither.  A read into   *)
(* bufio takes as many of them as TCP happens to have delivered.           *)
(***************************************************************************)
EXTENDS Integers, Sequences

CONSTANTS Clients,    \* connections clients make, each once
          Scripts,    \* what a client may have to send
          MaxErrors   \* bound of the model: Accept errors that pass

Tokens == {"connect", "hello", "request", "junk"}

ASSUME ScriptAssumption == Scripts \subseteq Seq(Tokens)
ASSUME ErrorAssumption == MaxErrors \in Nat

VARIABLES ctx,       \* the context of Serve
          listener,  \* ln
          errors,    \* Accept errors so far that were not a closed listener
          serve,     \* where Serve is
          ready,     \* MITMProxy.ready
          conn,      \* where the connection of each client is
          script,    \* what its client has to send in all
          unsent,    \* what its client has still to send
          wire,      \* sent, not read by the proxy
          buffered,  \* in the bufio.Reader of handleHTTPConn
          gone       \* clients that have closed their end

loop == <<ctx, listener, errors, serve, ready>>
bytes == <<script, unsent, wire, buffered>>
vars == <<loop, conn, bytes, gone>>

Accepted == {"peek", "parse", "handshake", "session"}

TypeOK == /\ ctx \in {"live", "cancelled"}
          /\ listener \in {"open", "closed"}
          /\ errors \in 0 .. MaxErrors
          /\ serve \in {"start", "accept", "failed", "returned"}
          /\ ready \in BOOLEAN
          /\ ready <=> serve \in {"accept", "failed"}
          /\ conn \in [Clients -> Accepted \cup {"away", "pending", "closed"}]
          /\ {script, unsent, wire, buffered} \subseteq [Clients -> Seq(Tokens)]
          /\ \A c \in Clients : conn[c] \in {"away", "pending"} => buffered[c] = <<>>
          /\ gone \subseteq Clients

Init == /\ ctx = "live"
        /\ listener = "open"
        /\ errors = 0
        /\ serve = "start"
        /\ ready = FALSE
        /\ conn = [c \in Clients |-> "away"]
        /\ script \in [Clients -> Scripts]
        /\ unsent = script
        /\ wire = [c \in Clients |-> <<>>]
        /\ buffered = [c \in Clients |-> <<>>]
        /\ gone = {}

------------------------------------------------------------------------------
(* Serve.                                                                  *)
Start == /\ serve = "start"
         /\ serve' = "accept"
         /\ ready' = TRUE
         /\ UNCHANGED <<ctx, listener, errors, conn, bytes, gone>>

Accept(c) == /\ serve = "accept"
             /\ listener = "open"
             /\ conn[c] = "pending"
             /\ conn' = [conn EXCEPT ![c] = "peek"]
             /\ UNCHANGED <<loop, bytes, gone>>

(* Accept returns an error, for good once the listener is closed.          *)
AcceptFails == /\ serve = "accept"
               /\ IF listener = "closed"
                  THEN UNCHANGED errors
                  ELSE errors < MaxErrors /\ errors' = errors + 1
               /\ serve' = "failed"
               /\ UNCHANGED <<ctx, listener, ready, conn, bytes, gone>>

(* Mutation: an Accept error ends Serve, whatever the context says.        *)
GiveUp == /\ serve = "failed"
          /\ serve' = "returned" /\ ready' = FALSE
          /\ UNCHANGED <<ctx, listener, errors, conn, bytes, gone>>

(* Mutation: Serve returns without its deferred ready.Store(false).        *)
StayReady == /\ serve = "failed"
             /\ serve' = IF ctx = "cancelled" THEN "returned" ELSE "accept"
             /\ UNCHANGED <<ctx, listener, errors, ready, conn, bytes, gone>>

(* Mutation: Serve tries again after every error.                          *)
AlwaysRetry == /\ serve = "failed"
               /\ serve' = "accept"
               /\ UNCHANGED <<ctx, listener, errors, ready, conn, bytes, gone>>

(* Mutation: Serve closes what it has accepted when it returns.            *)
CloseAll == /\ serve = "failed"
            /\ IF ctx = "cancelled"
               THEN /\ serve' = "returned" /\ ready' = FALSE
                    /\ conn' = [c \in Clients |-> IF conn[c] = "away" THEN "away" ELSE "closed"]
               ELSE serve' = "accept" /\ UNCHANGED <<ready, conn>>
            /\ UNCHANGED <<ctx, listener, errors, bytes, gone>>

(* Only a cancelled context ends the loop.                                 *)
CheckContext == /\ serve = "failed"
                /\ IF ctx = "cancelled"
                   THEN serve' = "returned" /\ ready' = FALSE
                   ELSE serve' = "accept" /\ UNCHANGED ready
                /\ UNCHANGED <<ctx, listener, errors, conn, bytes, gone>>

(* A closed listener resets the connections nobody has accepted.           *)
HangUpPending == conn' = [c \in Clients |-> IF conn[c] = "pending" THEN "closed" ELSE conn[c]]

CloseListener == /\ listener = "open"
                 /\ listener' = "closed"
                 /\ HangUpPending
                 /\ UNCHANGED <<ctx, errors, serve, ready, bytes, gone>>

(* The goroutine Serve starts: <-ctx.Done(), ln.Close().                   *)
Watch == serve # "start" /\ ctx = "cancelled" /\ CloseListener

(* The caller of Serve may cancel the context, or close its listener.      *)
Cancel == /\ ctx = "live"
          /\ ctx' = "cancelled"
          /\ UNCHANGED <<listener, errors, serve, ready, conn, bytes, gone>>

OwnerCloses == serve # "start" /\ CloseListener

------------------------------------------------------------------------------
(* handleHTTPConn.                                                         *)
Goto(c, place) == conn' = [conn EXCEPT ![c] = place]

Reading(c) == conn[c] \in {"peek", "parse", "handshake"}

(* bufio is empty and reads the connection: one segment, or several.       *)
Fill(c) ==
    /\ Reading(c)
    /\ buffered[c] = <<>>
    /\ \E n \in 1 .. Len(wire[c]) :
          /\ buffered' = [buffered EXCEPT ![c] = SubSeq(wire[c], 1, n)]
          /\ wire' = [wire EXCEPT ![c] = SubSeq(wire[c], n + 1, Len(wire[c]))]
    /\ UNCHANGED <<loop, conn, script, unsent, gone>>

Peek(c) ==
    /\ conn[c] = "peek"
    /\ buffered[c] # <<>>
    /\ Goto(c, IF buffered[c][1] = "hello" THEN "handshake" ELSE "parse")
    /\ UNCHANGED <<loop, bytes, gone>>

(* Mutation: the handshake reads the connection, past what bufio holds.    *)
BypassBuffer(c) == buffered' = [buffered EXCEPT ![c] = <<>>]

(* bConn reads through the bufio.Reader that read the request.             *)
KeepBuffer(c) == buffered' = [buffered EXCEPT ![c] = Tail(buffered[c])]

(* CONNECT is acknowledged; any other request, or none, is refused.        *)
ReadRequest(c) ==
    /\ conn[c] = "parse"
    /\ buffered[c] # <<>>
    /\ Goto(c, IF buffered[c][1] = "connect" THEN "handshake" ELSE "closed")
    /\ KeepBuffer(c)
    /\ UNCHANGED <<loop, script, unsent, wire, gone>>

(* The TLS handshake takes a ClientHello off bConn; the certificate for it *)
(* may still be refused, by the cache or by the client.                    *)
Handshake(c) ==
    /\ conn[c] = "handshake"
    /\ buffered[c] # <<>>
    /\ \E place \in IF buffered[c][1] = "hello" THEN {"session", "closed"} ELSE {"closed"} :
          Goto(c, place)
    /\ buffered' = [buffered EXCEPT ![c] = Tail(buffered[c])]
    /\ UNCHANGED <<loop, script, unsent, wire, gone>>

(* Mutation: a client that goes before its first byte is kept.             *)
KeepSilent(c) ==
    /\ conn[c] \in {"parse", "handshake"}
    /\ c \in gone
    /\ buffered[c] = <<>> /\ wire[c] = <<>>
    /\ Goto(c, "closed")
    /\ UNCHANGED <<loop, bytes, gone>>

(* Mutation: a connection still being read is closed with the context.     *)
ReadFailsOnCancel(c) ==
    /\ Reading(c)
    /\ buffered[c] = <<>>
    /\ ctx = "cancelled" \/ (c \in gone /\ wire[c] = <<>>)
    /\ Goto(c, "closed")
    /\ UNCHANGED <<loop, bytes, gone>>

(* The client has gone and there is nothing left to read.                  *)
ReadFails(c) ==
    /\ Reading(c)
    /\ c \in gone
    /\ buffered[c] = <<>> /\ wire[c] = <<>>
    /\ Goto(c, "closed")
    /\ UNCHANGED <<loop, bytes, gone>>

(* HttpsHandler returns, whenever it does: nothing makes it, be it that    *)
(* its client has gone, while an upstream or a Decode keeps it.            *)
EndSession(c) ==
    /\ conn[c] = "session"
    /\ Goto(c, "closed")
    /\ UNCHANGED <<loop, bytes, gone>>

------------------------------------------------------------------------------
(* The clients.  One may send its ClientHello without waiting for the 200. *)
Connect(c) == /\ conn[c] = "away"
              /\ listener = "open"
              /\ Goto(c, "pending")
              /\ UNCHANGED <<loop, bytes, gone>>

Send(c) == /\ conn[c] \notin {"away", "closed"}
           /\ c \notin gone
           /\ unsent[c] # <<>>
           /\ wire' = [wire EXCEPT ![c] = Append(wire[c], unsent[c][1])]
           /\ unsent' = [unsent EXCEPT ![c] = Tail(unsent[c])]
           /\ UNCHANGED <<loop, conn, script, buffered, gone>>

Leave(c) == /\ conn[c] # "away"
            /\ c \notin gone
            /\ gone' = gone \cup {c}
            /\ UNCHANGED <<loop, conn, bytes>>

------------------------------------------------------------------------------
Serve == Start \/ AcceptFails \/ CheckContext \/ \E c \in Clients : Accept(c)

handleHTTPConn(c) == \/ Fill(c) \/ Peek(c) \/ ReadRequest(c) \/ Handshake(c)
                     \/ ReadFails(c) \/ EndSession(c)

Work == \/ Serve \/ Watch
        \/ \E c \in Clients : handleHTTPConn(c) \/ Connect(c) \/ Send(c) \/ Leave(c)

Owner == Cancel \/ OwnerCloses

Next == Work \/ Owner

Spec == Init /\ [][Next]_vars

------------------------------------------------------------------------------
(* What is TLS's in what the client sends: all but a CONNECT request.      *)
ForTLS(c) == IF script[c][1] = "connect" THEN Tail(script[c]) ELSE script[c]

(* However TCP cuts what a client sends, and whether or not it waits for   *)
(* the 200, the handshake starts where TLS does: the peek and the CONNECT  *)
(* request take nothing that is TLS's, and leave nothing that is not.      *)
HandshakeSeesHello == \A c \in Clients :
    conn[c] = "handshake" => buffered[c] \o wire[c] \o unsent[c] = ForTLS(c)

(* A connection a client has made is accepted or reset, never left in the  *)
(* backlog of a listener that nobody serves, Accept errors included.       *)
NobodyLeftPending == \A c \in Clients :
    conn[c] = "pending" /\ serve # "start" ~> conn[c] # "pending"

(* mitm.go: once the context is cancelled the listener is closed and Serve *)
(* returns, no longer ready, even if an Accept error came at that moment.  *)
CancelStopsServe ==
    ctx = "cancelled" ~> (serve = "returned" /\ listener = "closed" /\ ~ready)

(* A client that has gone leaves no connection behind, wherever in         *)
(* handleHTTPConn it was: only a handler that never returns can keep it,   *)
(* which waits for a silent upstream (HttpsHandler's EveryRequestAnswered) *)
(* or for a Decode that does not return (InspectWS's SessionEnds).         *)
GoneIsClosed == \A c \in Clients :
    c \in gone /\ conn[c] \in Accepted ~> conn[c] = "closed" \/ [](conn[c] = "session")
==============================================================================
