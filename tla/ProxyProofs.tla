----------------------------- MODULE ProxyProofs -----------------------------
(***************************************************************************)
(* Proofs about Proxy, and MITMProxy in it, for any clients, whatever they *)
(* have to send and however TCP cuts it, and for any setup.                *)
(***************************************************************************)
EXTENDS Proxy, SequenceTheorems, TLAPS

(* What a client sent or has still to send, and the proxy has not consumed.*)
Remaining(c) == buffered[c] \o wire[c] \o unsent[c]

(* Up to the handshake only the CONNECT request is consumed.               *)
Consumed == \A c \in Clients :
    /\ conn[c] \in {"away", "pending", "peek", "parse"} => Remaining(c) = script[c]
    /\ conn[c] = "handshake" => Remaining(c) = ForTLS(c)

(* Outside the tests nobody cancels the context or closes the listener, so *)
(* Serve does not return; and healthz answers only once Listen may bind.   *)
Served200 ==
    /\ main # "test" => ctx = "live" /\ listener = "open" /\ serve # "returned"
    /\ main = "serve" /\ probe = "200" => serve # "start"
    /\ probe = "200" => main \in {"serve", "exited"}

IndInv == ProxyTypeOK /\ Consumed /\ Served200

------------------------------------------------------------------------------
(* The three ways in which a client's bytes move on.                       *)

(* Fill: a prefix of what is on the wire, and the rest of it.              *)
LEMMA CutAndJoin ==
    ASSUME NEW T, NEW w \in Seq(T), NEW n \in 1 .. Len(w)
    PROVE  /\ SubSeq(w, 1, n) \in Seq(T) /\ SubSeq(w, 1, n) # <<>>
           /\ SubSeq(w, n + 1, Len(w)) \in Seq(T)
           /\ SubSeq(w, 1, n) \o SubSeq(w, n + 1, Len(w)) = w
<1>1. /\ SubSeq(w, 1, n) \in Seq(T) /\ Len(SubSeq(w, 1, n)) = n
      /\ \A i \in 1 .. n : SubSeq(w, 1, n)[i] = w[i]
    OBVIOUS
<1>2. /\ SubSeq(w, n + 1, Len(w)) \in Seq(T) /\ Len(SubSeq(w, n + 1, Len(w))) = Len(w) - n
      /\ \A i \in 1 .. Len(w) - n : SubSeq(w, n + 1, Len(w))[i] = w[n + i]
    OBVIOUS
<1> DEFINE joined == SubSeq(w, 1, n) \o SubSeq(w, n + 1, Len(w))
<1>3. joined \in Seq(T) /\ Len(joined) = Len(w)
    BY <1>1, <1>2
<1>4. \A i \in 1 .. Len(w) : joined[i] = w[i]
    BY <1>1, <1>2
<1>5. joined = w
    BY <1>3, <1>4, SeqEqual
<1>6. SubSeq(w, 1, n) # <<>>
    BY <1>1
<1> QED BY <1>1, <1>2, <1>5, <1>6

(* Send: the first of what is left goes to the end of the wire.            *)
LEMMA MoveOne == \A b, w, u \in Seq(Tokens) :
    u # <<>> => b \o Append(w, u[1]) \o Tail(u) = b \o w \o u
<1> SUFFICES ASSUME NEW b \in Seq(Tokens), NEW w \in Seq(Tokens), NEW u \in Seq(Tokens),
                    u # <<>>
             PROVE  b \o Append(w, u[1]) \o Tail(u) = b \o w \o u
    OBVIOUS
<1> DEFINE moved == b \o Append(w, u[1]) \o Tail(u)
<1>1. /\ Append(w, u[1]) \in Seq(Tokens) /\ Len(Append(w, u[1])) = Len(w) + 1
      /\ Tail(u) \in Seq(Tokens) /\ Len(Tail(u)) = Len(u) - 1
    OBVIOUS
<1>2. /\ moved \in Seq(Tokens) /\ b \o w \o u \in Seq(Tokens)
      /\ Len(moved) = Len(b \o w \o u)
    BY <1>1
<1>3. \A i \in 1 .. Len(b \o w \o u) : moved[i] = (b \o w \o u)[i]
    OBVIOUS
<1> HIDE DEF moved
<1>4. moved = b \o w \o u
    BY <1>2, <1>3, SeqEqual
<1> QED BY <1>4 DEF moved

(* ReadRequest: the first of what is buffered is consumed.                 *)
LEMMA ConsumeOne == \A b, w, u \in Seq(Tokens) :
    b # <<>> => (b \o w \o u)[1] = b[1] /\ Tail(b) \o w \o u = Tail(b \o w \o u)
<1> SUFFICES ASSUME NEW b \in Seq(Tokens), NEW w \in Seq(Tokens), NEW u \in Seq(Tokens),
                    b # <<>>
             PROVE  (b \o w \o u)[1] = b[1] /\ Tail(b) \o w \o u = Tail(b \o w \o u)
    OBVIOUS
<1>1. /\ b \o w \o u \in Seq(Tokens) /\ Len(b \o w \o u) = Len(b) + Len(w) + Len(u)
      /\ b \o w \o u # <<>>
    OBVIOUS
<1>2. /\ Tail(b) \o w \o u \in Seq(Tokens)
      /\ Len(Tail(b) \o w \o u) = Len(b) - 1 + Len(w) + Len(u)
    OBVIOUS
<1>3. (b \o w \o u)[1] = b[1]
  <2> DEFINE bw == b \o w
  <2>1. bw \in Seq(Tokens) /\ 1 \in 1 .. Len(bw) /\ bw[1] = b[1]
      OBVIOUS
  <2> HIDE DEF bw
  <2>2. (bw \o u)[1] = bw[1]
      BY <2>1
  <2>3. (bw \o u)[1] = b[1]
      BY <2>1, <2>2
  <2> QED BY <2>3, Zenon DEF bw
<1>4. /\ Tail(b \o w \o u) \in Seq(Tokens)
      /\ Len(Tail(b \o w \o u)) = Len(b) + Len(w) + Len(u) - 1
    BY <1>1
<1>5. \A i \in 1 .. Len(b) + Len(w) + Len(u) - 1 :
          (Tail(b) \o w \o u)[i] = Tail(b \o w \o u)[i]
    BY <1>1
<1>6. Tail(b) \o w \o u = Tail(b \o w \o u)
    BY <1>2, <1>4, <1>5, SeqEqual
<1> QED BY <1>3, <1>6, Zenon

------------------------------------------------------------------------------
(* What a step of MITMProxy preserves, whoever takes it.                   *)

(* Every variable of MITMProxy keeps its type.                             *)
LEMMA NextKeepsType == TypeOK /\ Next => TypeOK'
<1> SUFFICES ASSUME TypeOK, Next PROVE TypeOK'
    OBVIOUS
<1> USE DEF TypeOK, loop, bytes, Accepted
<1>1. CASE Start
    BY <1>1 DEF Start
<1>2. ASSUME NEW c \in Clients, Accept(c) PROVE TypeOK'
    BY <1>2 DEF Accept
<1>3. CASE AcceptFails
    BY <1>3, ErrorAssumption DEF AcceptFails
<1>4. CASE CheckContext
    BY <1>4 DEF CheckContext
<1>5. CASE CloseListener
    BY <1>5 DEF CloseListener, HangUpPending
<1>6. CASE Cancel
    BY <1>6 DEF Cancel
<1>7. ASSUME NEW c \in Clients, Fill(c) PROVE TypeOK'
  <2>1. PICK n \in 1 .. Len(wire[c]) :
            /\ buffered' = [buffered EXCEPT ![c] = SubSeq(wire[c], 1, n)]
            /\ wire' = [wire EXCEPT ![c] = SubSeq(wire[c], n + 1, Len(wire[c]))]
      BY <1>7 DEF Fill
  <2>2. wire[c] \in Seq(Tokens)
      OBVIOUS
  <2>3. /\ SubSeq(wire[c], 1, n) \in Seq(Tokens)
        /\ SubSeq(wire[c], n + 1, Len(wire[c])) \in Seq(Tokens)
      BY <2>2, CutAndJoin
  <2> QED BY <1>7, <2>1, <2>3 DEF Fill, Reading
<1>8. ASSUME NEW c \in Clients, Peek(c) PROVE TypeOK'
    BY <1>8 DEF Peek, Goto
<1>9. ASSUME NEW c \in Clients, ReadRequest(c) PROVE TypeOK'
    BY <1>9 DEF ReadRequest, Goto, KeepBuffer
<1>10. ASSUME NEW c \in Clients, Handshake(c) PROVE TypeOK'
    BY <1>10 DEF Handshake, Goto
<1>11. ASSUME NEW c \in Clients, ReadFails(c) PROVE TypeOK'
    BY <1>11 DEF ReadFails, Reading, Goto
<1>12. ASSUME NEW c \in Clients, EndSession(c) PROVE TypeOK'
    BY <1>12 DEF EndSession, Goto
<1>13. ASSUME NEW c \in Clients, Connect(c) PROVE TypeOK'
    BY <1>13 DEF Connect, Goto
<1>14. ASSUME NEW c \in Clients, Send(c) PROVE TypeOK'
  <2>1. unsent[c] \in Seq(Tokens) /\ unsent[c] # <<>> /\ wire[c] \in Seq(Tokens)
      BY <1>14 DEF Send
  <2>2. unsent[c][1] \in Tokens /\ Tail(unsent[c]) \in Seq(Tokens)
      BY <2>1
  <2>3. Append(wire[c], unsent[c][1]) \in Seq(Tokens)
      BY <2>1, <2>2
  <2> QED BY <1>14, <2>2, <2>3 DEF Send
<1>15. ASSUME NEW c \in Clients, Leave(c) PROVE TypeOK'
    BY <1>15 DEF Leave
<1> QED BY <1>1, <1>2, <1>3, <1>4, <1>5, <1>6, <1>7, <1>8, <1>9, <1>10, <1>11, <1>12,
        <1>13, <1>14, <1>15
        DEF Next, Work, Owner, Serve, Watch, OwnerCloses, handleHTTPConn

(* Bytes move from the client to the wire and from there to bufio, in      *)
(* order; only the request and the ClientHello leave it.                   *)
LEMMA NextKeepsConsumed == TypeOK /\ Consumed /\ Next => Consumed'
<1> SUFFICES ASSUME TypeOK, Consumed, Next PROVE Consumed'
    OBVIOUS
<1> USE DEF TypeOK, Consumed, Remaining, ForTLS, loop, bytes
<1>0. \A c \in Clients : /\ buffered[c] \in Seq(Tokens) /\ wire[c] \in Seq(Tokens)
                         /\ unsent[c] \in Seq(Tokens) /\ script[c] \in Seq(Tokens)
    OBVIOUS
<1>1. CASE Start \/ AcceptFails \/ CheckContext \/ Cancel
    BY <1>1 DEF Start, AcceptFails, CheckContext, Cancel
<1>2. ASSUME NEW c \in Clients, Accept(c) PROVE Consumed'
    BY <1>2 DEF Accept
<1>3. CASE CloseListener
    BY <1>3 DEF CloseListener, HangUpPending
<1>4. ASSUME NEW c \in Clients, Fill(c) PROVE Consumed'
  <2>1. PICK n \in 1 .. Len(wire[c]) :
            /\ buffered' = [buffered EXCEPT ![c] = SubSeq(wire[c], 1, n)]
            /\ wire' = [wire EXCEPT ![c] = SubSeq(wire[c], n + 1, Len(wire[c]))]
      BY <1>4 DEF Fill
  <2>2. buffered'[c] \o wire'[c] = wire[c]
      BY <1>0, <2>1, CutAndJoin
  <2>3. buffered[c] \o wire[c] = wire[c]
      BY <1>0, <1>4 DEF Fill
  <2>4. \A d \in Clients : Remaining(d)' = Remaining(d)
      BY <1>4, <2>1, <2>2, <2>3 DEF Fill
  <2> QED BY <1>4, <2>4 DEF Fill
<1>5. ASSUME NEW c \in Clients, Peek(c) PROVE Consumed'
  <2>1. Remaining(c)[1] = buffered[c][1]
      BY <1>0, <1>5, ConsumeOne DEF Peek
  <2> QED BY <1>5, <2>1 DEF Peek, Goto
<1>6. ASSUME NEW c \in Clients, ReadRequest(c) PROVE Consumed'
  <2>1. /\ Remaining(c)[1] = buffered[c][1]
        /\ Tail(buffered[c]) \o wire[c] \o unsent[c] = Tail(Remaining(c))
      BY <1>0, <1>6, ConsumeOne, ZenonT(30) DEF ReadRequest
  <2> QED BY <1>6, <2>1 DEF ReadRequest, Goto, KeepBuffer
<1>7. ASSUME NEW c \in Clients, Handshake(c) PROVE Consumed'
    BY <1>7 DEF Handshake, Goto
<1>8. ASSUME NEW c \in Clients, ReadFails(c) \/ EndSession(c) \/ Connect(c) PROVE Consumed'
    BY <1>8 DEF ReadFails, EndSession, Connect, Goto
<1>9. ASSUME NEW c \in Clients, Send(c) PROVE Consumed'
  <2>1. buffered[c] \o wire'[c] \o unsent'[c] = buffered[c] \o wire[c] \o unsent[c]
    <3>1. /\ unsent[c] # <<>>
          /\ wire'[c] = Append(wire[c], unsent[c][1]) /\ unsent'[c] = Tail(unsent[c])
        BY <1>9 DEF Send
    <3>2. /\ buffered[c] \in Seq(Tokens) /\ wire[c] \in Seq(Tokens)
          /\ unsent[c] \in Seq(Tokens)
        BY <1>0
    <3>3. buffered[c] \o Append(wire[c], unsent[c][1]) \o Tail(unsent[c])
              = buffered[c] \o wire[c] \o unsent[c]
        BY <3>1, <3>2, MoveOne
    <3> QED BY <3>1, <3>3, Zenon
  <2>2. \A d \in Clients : Remaining(d)' = Remaining(d)
      BY <1>9, <2>1 DEF Send
  <2> QED BY <1>9, <2>2 DEF Send
<1>10. ASSUME NEW c \in Clients, Leave(c) PROVE Consumed'
    BY <1>10 DEF Leave
<1> QED BY <1>1, <1>2, <1>3, <1>4, <1>5, <1>6, <1>7, <1>8, <1>9, <1>10
        DEF Next, Work, Owner, Serve, Watch, OwnerCloses, handleHTTPConn

------------------------------------------------------------------------------
(* What a step of the process preserves.                                   *)

(* A process that exits closes what its clients had, and touches no bytes. *)
LEMMA ExitKeeps == ASSUME TypeOK, Consumed, Exit PROVE TypeOK' /\ Consumed'
<1> USE DEF Exit, loop, bytes
<1>1. TypeOK'
    BY DEF TypeOK
<1>2. Consumed'
    BY DEF TypeOK, Consumed, Remaining, ForTLS
<1> QED BY <1>1, <1>2

(* Every step of the process is one of main's and healthz's, which leave   *)
(* MITMProxy alone or exit, or one of MITMProxy's.                         *)
LEMMA StepSplits ==
    ASSUME [ProxyNext]_all
    PROVE  UNCHANGED vars \/ Exit \/ (Next /\ UNCHANGED process)
BY DEF ProxyNext, all, process, LoadConfig, LoadCA, Listen, HealthListens, HealthFails,
       Probe, Served, Next

(* What MITMProxy's state and the clients' bytes satisfy is kept.          *)
LEMMA MITMStep == TypeOK /\ Consumed /\ [ProxyNext]_all => TypeOK' /\ Consumed'
<1> SUFFICES ASSUME TypeOK, Consumed, [ProxyNext]_all PROVE TypeOK' /\ Consumed'
    OBVIOUS
<1>1. CASE UNCHANGED vars
  <2> USE <1>1 DEF vars, loop, bytes
  <2>1. TypeOK'
      BY DEF TypeOK
  <2>2. Consumed'
      BY DEF Consumed, Remaining, ForTLS
  <2> QED BY <2>1, <2>2
<1> QED BY <1>1, StepSplits, ExitKeeps, NextKeepsType, NextKeepsConsumed

(* The states of main and of healthz agree with each other and with Serve. *)
LEMMA TypeStep == ProxyTypeOK /\ Consumed /\ [ProxyNext]_all => ProxyTypeOK'
<1> SUFFICES ASSUME ProxyTypeOK, Consumed, [ProxyNext]_all PROVE ProxyTypeOK'
    OBVIOUS
<1>0. TypeOK'
    BY MITMStep DEF ProxyTypeOK
<1> USE <1>0 DEF ProxyTypeOK, vars, loop, process
<1>1. CASE LoadConfig
    BY <1>1 DEF LoadConfig, Exit
<1>2. CASE LoadCA
    BY <1>2 DEF LoadCA, Exit
<1>3. CASE Listen
    BY <1>3 DEF Listen, Exit
<1>4. CASE HealthListens
    BY <1>4 DEF HealthListens
<1>5. CASE HealthFails
    BY <1>5 DEF HealthFails, Exit
<1>6. CASE Probe
    BY <1>6 DEF Probe
<1>7. CASE Served(Work)
    BY <1>7 DEF Served
<1>8. CASE main = "test" /\ Served(Owner)
    BY <1>8 DEF Served
<1>9. CASE UNCHANGED all
    BY <1>9 DEF all
<1> QED BY <1>1, <1>2, <1>3, <1>4, <1>5, <1>6, <1>7, <1>8, <1>9 DEF ProxyNext

(* Work cancels no context, closes no listener and ends no Serve unless    *)
(* the context has been cancelled.                                         *)
LEMMA WorkKeepsServing ==
    ASSUME Work, ctx = "live", listener = "open", serve # "returned"
    PROVE  /\ ctx' = "live" /\ listener' = "open" /\ serve' # "returned"
           /\ serve # "start" => serve' # "start"
<1> USE DEF loop
<1>1. CASE Serve
    BY <1>1 DEF Serve, Start, AcceptFails, CheckContext, Accept
<1>2. CASE Watch
    BY <1>2 DEF Watch
<1>3. ASSUME NEW c \in Clients, handleHTTPConn(c) PROVE UNCHANGED loop
    BY <1>3 DEF handleHTTPConn, Fill, Peek, ReadRequest, Handshake, ReadFails, EndSession
<1>4. ASSUME NEW c \in Clients, Connect(c) \/ Send(c) \/ Leave(c) PROVE UNCHANGED loop
    BY <1>4 DEF Connect, Send, Leave
<1> QED BY <1>1, <1>2, <1>3, <1>4 DEF Work

(* main serves for good, and a probe is answered 200 only while it does.   *)
LEMMA ServingStep == ProxyTypeOK /\ Served200 /\ [ProxyNext]_all => Served200'
<1> SUFFICES ASSUME ProxyTypeOK, Served200, [ProxyNext]_all PROVE Served200'
    OBVIOUS
<1> USE DEF ProxyTypeOK, TypeOK, Served200, vars, loop, process
<1>1. CASE LoadConfig
    BY <1>1 DEF LoadConfig, Exit
<1>2. CASE LoadCA
    BY <1>2 DEF LoadCA, Exit
<1>3. CASE Listen
    BY <1>3 DEF Listen, Exit
<1>4. CASE HealthListens
    BY <1>4 DEF HealthListens
<1>5. CASE HealthFails
    BY <1>5 DEF HealthFails, Exit
<1>6. CASE Probe
    BY <1>6 DEF Probe
<1>7. CASE Served(Work)
    BY <1>7, WorkKeepsServing DEF Served
<1>8. CASE main = "test" /\ Served(Owner)
    BY <1>8 DEF Served
<1>9. CASE UNCHANGED all
    BY <1>9 DEF all
<1> QED BY <1>1, <1>2, <1>3, <1>4, <1>5, <1>6, <1>7, <1>8, <1>9 DEF ProxyNext

------------------------------------------------------------------------------
(* The invariant holds in every state of the process.                      *)
THEOREM Invariance == ProxySpec => []IndInv
<1>1. ProxyInit => IndInv
  <2> SUFFICES ASSUME ProxyInit PROVE IndInv
      OBVIOUS
  <2> USE ScriptAssumption, ErrorAssumption DEF ProxyInit, Init
  <2>0. script \in [Clients -> Seq(Tokens)] /\ unsent \in [Clients -> Seq(Tokens)]
      OBVIOUS
  <2>1. ProxyTypeOK
    <3>1. <<>> \in Seq(Tokens)
        OBVIOUS
    <3>2. /\ wire \in [Clients -> Seq(Tokens)] /\ buffered \in [Clients -> Seq(Tokens)]
        BY <3>1
    <3>3. conn \in [Clients -> Accepted \cup {"away", "pending", "closed"}]
        BY DEF Accepted
    <3>4. \A c \in Clients : buffered[c] = <<>>
        OBVIOUS
    <3>5. TypeOK
      <4>1. /\ ctx \in {"live", "cancelled"} /\ listener \in {"open", "closed"}
            /\ errors \in 0 .. MaxErrors /\ gone \subseteq Clients
          OBVIOUS
      <4>2. /\ serve \in {"start", "accept", "failed", "returned"} /\ ready \in BOOLEAN
            /\ ready <=> serve \in {"accept", "failed"}
          OBVIOUS
      <4> QED BY <2>0, <3>2, <3>3, <3>4, <4>1, <4>2, Zenon DEF TypeOK
    <3> QED BY <3>5 DEF ProxyTypeOK
  <2>2. ASSUME NEW c \in Clients PROVE Remaining(c) = script[c]
    <3>1. script[c] \in Seq(Tokens)
        BY <2>0
    <3>2. <<>> \o <<>> \o script[c] = script[c]
        BY <3>1
    <3> QED BY <3>2 DEF Remaining
  <2>3. Served200
      BY DEF Served200
  <2> QED BY <2>1, <2>2, <2>3 DEF IndInv, Consumed
<1>2. IndInv /\ [ProxyNext]_all => IndInv'
    BY TypeStep, MITMStep, ServingStep DEF IndInv, ProxyTypeOK
<1> QED BY <1>1, <1>2, PTL DEF ProxySpec

(* Every variable of the process has its type.                             *)
THEOREM ProxyTypeCorrect == ProxySpec => []ProxyTypeOK
<1>1. IndInv => ProxyTypeOK
    BY DEF IndInv
<1> QED BY <1>1, Invariance, PTL

(* However TCP cuts what a client sends, the handshake starts where TLS    *)
(* does: handleHTTPConn's peek and its CONNECT request take no more.       *)
THEOREM HandshakeReadsTLS == ProxySpec => []HandshakeSeesHello
<1>1. IndInv => HandshakeSeesHello
    BY DEF IndInv, Consumed, Remaining, HandshakeSeesHello
<1> QED BY <1>1, Invariance, PTL

(* A probe that is told 200 is told so of a proxy that is accepting.       *)
THEOREM HealthyServes == ProxySpec => []HealthyIsServing
<1>1. IndInv => HealthyIsServing
    BY DEF IndInv, ProxyTypeOK, TypeOK, Served200, HealthyIsServing
<1> QED BY <1>1, Invariance, PTL

(* Whatever happens to Serve, its context and its listener, a connection   *)
(* that has been accepted moves by its own handler, and is not closed      *)
(* before its session unless its client sent something or has gone.        *)
THEOREM SessionsSurviveServe == ProxySpec => SessionsOutliveServe
<1> DEFINE Outlives(c) == conn[c] \in Accepted /\ conn'[c] # conn[c] =>
        /\ UNCHANGED loop
        /\ conn'[c] = "closed" => conn[c] = "session" \/ c \in gone \/ buffered[c] # <<>>
<1>1. ASSUME TypeOK, Next, NEW c \in Clients PROVE Outlives(c)
  <2> USE <1>1 DEF TypeOK, Accepted
  <2>1. CASE Start \/ AcceptFails \/ CheckContext \/ Cancel
      BY <2>1 DEF Start, AcceptFails, CheckContext, Cancel
  <2>2. CASE CloseListener
      BY <2>2 DEF CloseListener, HangUpPending
  <2>3. ASSUME NEW d \in Clients, Accept(d) \/ Connect(d) \/ Send(d) \/ Leave(d)
        PROVE  Outlives(c)
      BY <2>3 DEF Accept, Connect, Send, Leave, Goto
  <2>4. ASSUME NEW d \in Clients, handleHTTPConn(d) PROVE Outlives(c)
      BY <2>4 DEF handleHTTPConn, Fill, Peek, ReadRequest, Handshake, ReadFails, EndSession,
                  Goto
  <2> QED BY <2>1, <2>2, <2>3, <2>4 DEF Next, Work, Owner, Serve, Watch, OwnerCloses
<1>2. Exit => main' = "exited"
    BY DEF Exit
<1>3. IndInv /\ [ProxyNext]_all => [main' # "exited" => \A c \in Clients : Outlives(c)]_all
  <2> SUFFICES ASSUME IndInv, [ProxyNext]_all, main' # "exited", NEW c \in Clients
               PROVE  Outlives(c)
      OBVIOUS
  <2>1. CASE UNCHANGED vars
      BY <2>1 DEF vars
  <2> QED BY <1>1, <1>2, <2>1, StepSplits DEF IndInv, ProxyTypeOK
<1> QED BY <1>3, Invariance, PTL DEF ProxySpec, SessionsOutliveServe

(* Accept errors come and go; once a probe was told 200, none is told 503. *)
THEOREM HealthyForGood == ProxySpec => HealthyStays
<1>1. ASSUME IndInv, [ProxyNext]_all, probe = "200" PROVE probe' = "200"
  <2> USE <1>1 DEF IndInv, ProxyTypeOK, TypeOK, Served200
  <2>1. CASE Probe
      BY <2>1 DEF Probe
  <2> QED BY <2>1 DEF ProxyNext, LoadConfig, LoadCA, Listen, HealthListens, HealthFails,
             Exit, Served, process, all
<1>2. IndInv /\ [ProxyNext]_all => [probe = "200" => probe' = "200"]_all
    BY <1>1
<1> QED BY <1>2, Invariance, PTL DEF ProxySpec, HealthyStays
==============================================================================
