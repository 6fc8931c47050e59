-------------------------- MODULE HttpsHandlerProofs --------------------------
(***************************************************************************)
(* Proofs about HttpsHandler, for sessions of any length, any hosts, depth *)
(* of tunnels, bodies and tamperer.                                        *)
(***************************************************************************)
EXTENDS HttpsHandler, FiniteSetTheorems, SequenceTheorems, TLAPS

(* A request has its number, and one is being handled.                     *)
Numbered ==
    /\ \A i \in 1 .. Len(sent) : sent[i].id = i
    /\ pc \notin {"read", "passing", "returned"} => taken # 0

(* The upstream was dialled in this tunnel, and for the host of a request  *)
(* about to be written to it.                                              *)
Routed ==
    /\ upstream # 0 => origin[upstream].depth = depth
    /\ pc \in {"forward", "pass"} => upstream # 0 /\ dialled = req.host

(* What was forwarded went to a connection that there was.                 *)
ForwardedRight == \A i \in 1 .. Len(forwarded) :
    ~forwarded[i].copied =>
        /\ forwarded[i].id \in 1 .. Len(sent) /\ forwarded[i].over \in 1 .. dials
        /\ origin[forwarded[i].over].host = sent[forwarded[i].id].host
        /\ origin[forwarded[i].over].depth = forwarded[i].depth

(* A body is on its connection until the handler reads it.                 *)
Unread ==
    /\ response.body.at = "network"
    /\ \A k \in 1 .. Len(queue) : queue[k].body.at = "network"
    /\ \A i \in 1 .. Len(replies) : replies[i].cut \/ replies[i].whole

IndInv == TypeOK /\ Numbered /\ Routed /\ ForwardedRight /\ NoUpstreamLeak /\ Unread

(* An upstream that sends no 1xx response: the client's answers, those the *)
(* handler has not read and those the upstream owes are numbered in one    *)
(* row, and but for a passthrough at most one is not with the client.      *)
Queued ==
    /\ \A k \in 1 .. Len(queue) : /\ queue[k].for = Len(replies) + k
                                  /\ queue[k].status # "interim"
    /\ \A k \in 1 .. Len(todo) : todo[k] = Len(replies) + Len(queue) + k

Given == \A i \in 1 .. Len(replies) : replies[i].for = i /\ replies[i].status # "interim"

Placed ==
    /\ pc = "read" => Len(replies) = taken
    /\ pc \in {"nest", "route", "forward", "pass", "await", "relay", "upgrade"} =>
          Len(replies) + 1 = taken
    /\ pc \in {"read", "nest", "route", "forward", "pass", "relay", "upgrade"} =>
          queue = <<>> /\ todo = <<>>
    /\ pc = "await" => Len(queue) + Len(todo) <= 1
    /\ pc \in {"relay", "upgrade"} => response.for = taken /\ response.status # "interim"
    /\ pc = "passing" /\ alive => Len(replies) + Len(queue) + Len(todo) = taken

PairInv == Queued /\ Given /\ Placed

------------------------------------------------------------------------------
(* What is written of a body is a body, and it is whole unless the sender  *)
(* cut it or reading it failed.                                            *)
LEMMA BodyTypes ==
    ASSUME NEW b \in Body
    PROVE  DecodeBody(b) \in Body /\ Encode(b) \in Body
BY DEF DecodeBody, Encode, Drained, Rewound, ReadFails, isBinary, Body

LEMMA RelayedBody ==
    ASSUME response.body \in Body, NEW verdict
    PROVE  /\ Encode(FinalBody(verdict)) \in Body
           /\ response.body.at = "network" =>
                  Encode(FinalBody(verdict)).cut \/ IsWhole(Encode(FinalBody(verdict)))
<1>1. FinalBody(verdict) \in Body
  <2>1. decoded \in Body
      BY BodyTypes DEF decoded
  <2>2. \A b \in Body : [b EXCEPT !.cut = FALSE, !.at = "memory"] \in Body
      BY DEF Body
  <2> QED BY <2>1, <2>2 DEF FinalBody
<1>2. ASSUME response.body.at = "network"
      PROVE  FinalBody(verdict).cut \/ FinalBody(verdict).at # "spent"
  <2>1. decoded.cut \/ decoded.at # "spent"
      BY <1>2 DEF decoded, DecodeBody, Drained, Rewound, ReadFails, isBinary, Body
  <2> QED BY <2>1, BodyTypes DEF FinalBody, decoded, Body
<1> DEFINE b == FinalBody(verdict)
<1> HIDE DEF b
<1>3. Encode(b) \in Body
    BY <1>1, BodyTypes DEF b
<1>4. ASSUME b.cut \/ b.at # "spent" PROVE Encode(b).cut \/ IsWhole(Encode(b))
    BY <1>1, <1>4 DEF Encode, Rewound, IsWhole, isBinary, Body, b
<1> QED BY <1>2, <1>3, <1>4 DEF b

LEMMA NoBodyIsBody == NoBody \in Body /\ NoBody.at = "network" /\ IsWhole(NoBody)
BY DEF NoBody, Body, IsWhole

LEMMA RequestType ==
    ASSUME TypeOK, NEW i \in 1 .. Len(sent)
    PROVE  sent[i] \in Request /\ sent[i].id \in Nat /\ sent[i].host \in Hosts
<1>1. sent[i] \in Request
    BY DEF TypeOK
<1> QED BY <1>1 DEF Request

LEMMA ReplyType ==
    ASSUME NEW id \in Nat, NEW status \in Status, NEW b \in Body, TypeOK, Reply(id, status, b)
    PROVE  replies' \in Seq([for : Nat, status : Status, cut : BOOLEAN, whole : BOOLEAN])
<1>1. [for |-> id, status |-> status, cut |-> b.cut, whole |-> IsWhole(b)]
          \in [for : Nat, status : Status, cut : BOOLEAN, whole : BOOLEAN]
    BY DEF Body, IsWhole
<1> QED BY <1>1 DEF TypeOK, Reply

LEMMA DeliverType ==
    ASSUME NEW id \in Nat, NEW copied \in BOOLEAN, TypeOK, Deliver(id, copied)
    PROVE  /\ todo' \in Seq(Nat)
           /\ forwarded' \in Seq([id : Nat, over : Nat, depth : Nat, copied : BOOLEAN])
<1>1. [id |-> id, over |-> upstream, depth |-> depth, copied |-> copied]
          \in [id : Nat, over : Nat, depth : Nat, copied : BOOLEAN]
    BY BoundAssumption DEF TypeOK
<1> QED BY <1>1 DEF TypeOK, Deliver

(* Every variable keeps its type.                                          *)
LEMMA TypeStep == TypeOK /\ Numbered /\ [Next]_vars => TypeOK'
<1> SUFFICES ASSUME TypeOK, Numbered, [Next]_vars PROVE TypeOK'
    OBVIOUS
<1> USE HostAssumption, BoundAssumption DEF client, loop, conns, server
<1>0. pc \notin {"read", "passing", "returned"} =>
          req \in Request /\ req.id \in Nat /\ req.host \in Hosts
  <2> SUFFICES ASSUME pc \notin {"read", "passing", "returned"}
               PROVE  req \in Request /\ req.id \in Nat /\ req.host \in Hosts
      OBVIOUS
  <2>1. taken \in 1 .. Len(sent)
      BY DEF TypeOK, Numbered
  <2> QED BY <2>1, RequestType DEF req
<1>1. CASE ReadRequest
    BY <1>1 DEF TypeOK, ReadRequest
<1>2. CASE Nest
  <2>1. replies' \in Seq([for : Nat, status : Status, cut : BOOLEAN, whole : BOOLEAN])
      BY <1>0, <1>2, ReplyType, NoBodyIsBody DEF Nest, Status
  <2> QED BY <1>2, <2>1 DEF TypeOK, Nest, MayNest, DropUpstream
<1>3. CASE Reuse
    BY <1>3 DEF TypeOK, Reuse, Serve
<1>4. CASE Dial
  <2>1. [host |-> req.host, depth |-> depth] \in [host : Hosts, depth : 0 .. MaxConnectDepth]
      BY <1>0, <1>4 DEF TypeOK, Dial
  <2>2. /\ origin' \in Seq([host : Hosts, depth : 0 .. MaxConnectDepth])
        /\ Len(origin') = Len(origin) + 1 /\ dials' = Len(origin')
        /\ origin'[dials + 1].host = req.host
        /\ dials + 1 \in Nat \ {0}
      BY <1>4, <2>1 DEF TypeOK, Dial
  <2>3. upstream' \in 0 .. dials' /\ open' \subseteq 1 .. dials'
    <3>1. dials' = dials + 1 /\ upstream' = dials + 1 /\ dials \in Nat
        BY <1>4, <2>2 DEF TypeOK, Dial
    <3>2. open \subseteq 1 .. dials
        BY DEF TypeOK
    <3>3. open' \subseteq open \cup {dials + 1}
        BY <1>4 DEF Dial, OpenAfterDial
    <3>4. 1 .. dials \subseteq 1 .. dials + 1 /\ dials + 1 \in 1 .. dials + 1
        BY <3>1
    <3>5. open' \subseteq 1 .. dials'
        BY <3>1, <3>2, <3>3, <3>4
    <3> QED BY <3>1, <3>5
  <2>4. dialled' \in Hosts /\ dialled' = origin'[upstream'].host
      BY <1>0, <1>4, <2>2 DEF Dial
  <2>5. pc' \in {"forward", "pass"}
      BY <1>4 DEF Dial, Serve
  <2>6. queue' \in Seq(Response) /\ todo' \in Seq(Nat)
      BY <1>4 DEF Dial
  <2>7. {left', dirty', alive'} \subseteq BOOLEAN
      BY <1>4 DEF TypeOK, Dial
  <2> QED BY <1>4, <2>2, <2>3, <2>4, <2>5, <2>6, <2>7 DEF TypeOK, Dial
<1>5. CASE Forward
    BY <1>0, <1>5, DeliverType DEF TypeOK, Forward
<1>6. CASE ReadResponse
    BY <1>6 DEF TypeOK, ReadResponse
<1>7. CASE Upgrade
  <2>1. replies' \in Seq([for : Nat, status : Status, cut : BOOLEAN, whole : BOOLEAN])
      BY <1>7, ReplyType, NoBodyIsBody DEF Upgrade, Status, TypeOK, Response
  <2> QED BY <1>7, <2>1 DEF TypeOK, Upgrade
<1>8. CASE Relay
  <2>1. PICK verdict \in Verdicts :
            /\ Reply(response.for, response.status, Encode(FinalBody(verdict)))
            /\ dirty' = LeavesRest(verdict)
      BY <1>8 DEF Relay
  <2>2. replies' \in Seq([for : Nat, status : Status, cut : BOOLEAN, whole : BOOLEAN])
      BY <2>1, ReplyType, RelayedBody DEF TypeOK, Response
  <2>3. dirty' \in BOOLEAN
      BY <2>1 DEF LeavesRest
  <2> QED BY <1>8, <2>2, <2>3 DEF TypeOK, Relay
<1>9. CASE StartPassthrough
    BY <1>0, <1>9, DeliverType DEF TypeOK, StartPassthrough
<1>10. CASE CopyRequest
  <2>1. taken + 1 \in 1 .. Len(sent) /\ sent[taken + 1].id \in Nat
    <3>1. taken + 1 \in 1 .. Len(sent)
        BY <1>10 DEF TypeOK, CopyRequest
    <3> QED BY <3>1, RequestType
  <2>2. /\ todo' \in Seq(Nat)
        /\ forwarded' \in Seq([id : Nat, over : Nat, depth : Nat, copied : BOOLEAN])
      BY <1>10, <2>1, DeliverType DEF CopyRequest
  <2> QED BY <1>10, <2>1, <2>2 DEF TypeOK, CopyRequest
<1>11. CASE CopyResponse
  <2>1. Head(queue) \in Response /\ Tail(queue) \in Seq(Response)
      BY <1>11 DEF TypeOK, CopyResponse
  <2>2. replies' \in Seq([for : Nat, status : Status, cut : BOOLEAN, whole : BOOLEAN])
      BY <1>11, <2>1, ReplyType DEF CopyResponse, Response
  <2> QED BY <1>11, <2>1, <2>2 DEF TypeOK, CopyResponse
<1>12. CASE Return
    BY <1>12 DEF TypeOK, Return
<1>13. ASSUME NEW h \in Hosts, NEW method \in {"get", "connect", "upgrade"},
              NEW cut \in Cuts \cup {"no"}, Send(h, method, cut)
       PROVE  TypeOK'
  <2>1. [id |-> Len(sent) + 1, host |-> h, method |-> method, cut |-> cut] \in Request
      BY DEF TypeOK, Request
  <2>2. sent' \in Seq(Request) /\ Len(sent') = Len(sent) + 1
      BY <1>13, <2>1 DEF TypeOK, Send
  <2> QED BY <1>13, <2>2 DEF TypeOK, Send
<1>14. CASE Leave
    BY <1>14 DEF TypeOK, Leave
<1>15. ASSUME NEW b \in Bodies, Answer(b) PROVE TypeOK'
  <2>1. PICK status \in Statuses :
            LET sentBody == IF status = "final" THEN b ELSE NoBody
            IN  /\ todo' = IF status = "interim" THEN todo ELSE Tail(todo)
                /\ queue' = Append(queue, [for |-> Head(todo), status |-> status,
                                           body |-> sentBody])
                /\ alive' = (~sentBody.cut /\ sentBody.delimited # "close")
      BY <1>15 DEF Answer
  <2> DEFINE sentBody == IF status = "final" THEN b ELSE NoBody
  <2>2. sentBody \in Body
      BY EnvironmentAssumption, NoBodyIsBody
  <2>3. status \in Status /\ Head(todo) \in Nat /\ Tail(todo) \in Seq(Nat)
    <3>1. status \in Status
        BY DEF Statuses, Status
    <3>2. todo \in Seq(Nat) /\ todo # <<>>
        BY <1>15 DEF Answer, TypeOK
    <3>3. Head(todo) \in Nat /\ Tail(todo) \in Seq(Nat)
        BY <3>2
    <3> QED BY <3>1, <3>3
  <2>4. [for |-> Head(todo), status |-> status, body |-> sentBody] \in Response
      BY <2>2, <2>3 DEF Response
  <2> HIDE DEF sentBody
  <2>5. queue' \in Seq(Response) /\ todo' \in Seq(Nat)
      BY <2>1, <2>3, <2>4 DEF TypeOK, sentBody
  <2>6. alive' \in BOOLEAN
      BY <2>1
  <2> QED BY <1>15, <2>5, <2>6 DEF TypeOK, Answer
<1>16. CASE Hangup
    BY <1>16 DEF TypeOK, Hangup
<1>17. CASE UNCHANGED vars
    BY <1>17 DEF TypeOK, vars
<1> QED BY <1>1, <1>2, <1>3, <1>4, <1>5, <1>6, <1>7, <1>8, <1>9, <1>10, <1>11, <1>12,
        <1>13, <1>14, <1>15, <1>16, <1>17
        DEF Next, Handler

(* Requests are read in the order in which they were numbered.             *)
LEMMA NumberedStep == TypeOK /\ Numbered /\ [Next]_vars => Numbered'
<1> SUFFICES ASSUME TypeOK, Numbered, [Next]_vars PROVE Numbered'
    OBVIOUS
<1> USE DEF Numbered, client, loop
<1>1. ASSUME NEW h \in Hosts, NEW method \in {"get", "connect", "upgrade"},
             NEW cut \in Cuts \cup {"no"}, Send(h, method, cut)
      PROVE  Numbered'
  <2>1. /\ sent \in Seq(Request)
        /\ sent' = Append(sent, [id |-> Len(sent) + 1, host |-> h, method |-> method,
                                 cut |-> cut])
      BY <1>1 DEF Send, TypeOK
  <2>2. \A i \in 1 .. Len(sent') : sent'[i].id = i
    <3>1. \A i \in 1 .. Len(sent') :
             \/ i \in 1 .. Len(sent) /\ sent'[i] = sent[i]
             \/ i = Len(sent) + 1 /\ sent'[i].id = Len(sent) + 1
        BY <2>1
    <3> QED BY <3>1
  <2> QED BY <1>1, <2>2 DEF Send
<1>2. CASE ReadRequest \/ CopyRequest
  <2>1. taken \in Nat
    <3>1. sent \in Seq(Request) /\ taken \in 0 .. Len(sent)
        BY DEF TypeOK
    <3> QED BY <3>1
  <2>2. taken' = taken + 1 /\ sent' = sent
      BY <1>2 DEF ReadRequest, CopyRequest
  <2> QED BY <2>1, <2>2
<1>3. CASE \/ Nest \/ Reuse \/ Dial \/ Forward \/ ReadResponse \/ Upgrade \/ Relay
          \/ StartPassthrough \/ CopyResponse \/ Return
    BY <1>3 DEF Nest, Reuse, Dial, Serve, Forward, ReadResponse, Upgrade, Relay,
                StartPassthrough, CopyResponse, Return
<1>4. CASE Leave \/ Hangup \/ UNCHANGED vars \/ \E b \in Bodies : Answer(b)
    BY <1>4 DEF Leave, Hangup, Answer, vars
<1> QED BY <1>1, <1>2, <1>3, <1>4 DEF Next, Handler

(* Nest drops the upstream of the outer session, and Reuse keeps only one  *)
(* for the same host.                                                      *)
LEMMA RoutedStep == TypeOK /\ Numbered /\ Routed /\ [Next]_vars => Routed'
<1> SUFFICES ASSUME TypeOK, Numbered, Routed, [Next]_vars PROVE Routed'
    OBVIOUS
<1> USE DEF Routed, client, loop, conns
<1>1. CASE ReadRequest
    BY <1>1 DEF ReadRequest
<1>2. CASE Nest
    BY <1>2 DEF Nest, DropUpstream
<1>3. CASE Reuse
    BY <1>3 DEF Reuse, Serve, NeedsDial, req
<1>4. CASE Dial
  <2>1. origin \in Seq([host : Hosts, depth : 0 .. MaxConnectDepth]) /\ dials = Len(origin)
      BY DEF TypeOK
  <2>2. origin'[dials + 1] = [host |-> req.host, depth |-> depth]
      BY <1>4, <2>1 DEF Dial
  <2>3. upstream' # 0 /\ upstream' = dials + 1
      BY <1>4, <2>1 DEF Dial
  <2>4. /\ depth' = depth /\ sent' = sent /\ taken' = taken
        /\ dialled' = req.host
      BY <1>4 DEF Dial
  <2> QED BY <2>2, <2>3, <2>4 DEF req
<1>5. CASE \/ Forward \/ ReadResponse \/ Upgrade \/ Relay \/ StartPassthrough
          \/ CopyRequest \/ CopyResponse \/ Return
    BY <1>5 DEF Forward, ReadResponse, Upgrade, Relay, StartPassthrough, CopyRequest,
                CopyResponse, Return
<1>6. ASSUME NEW h \in Hosts, NEW method \in {"get", "connect", "upgrade"},
             NEW cut \in Cuts \cup {"no"}, Send(h, method, cut)
      PROVE  Routed'
  <2>1. pc \in {"forward", "pass"} => sent'[taken] = sent[taken]
      BY <1>6 DEF Send, TypeOK, Numbered
  <2> QED BY <1>6, <2>1 DEF Send, req
<1>7. CASE Leave \/ Hangup \/ UNCHANGED vars \/ \E b \in Bodies : Answer(b)
    BY <1>7 DEF Leave, Hangup, Answer, vars, req
<1> QED BY <1>1, <1>2, <1>3, <1>4, <1>5, <1>6, <1>7 DEF Next, Handler

(* Connections and requests keep their numbers, so what was forwarded      *)
(* right stays so.                                                         *)
LEMMA ForwardedStep ==
    TypeOK /\ Numbered /\ Routed /\ ForwardedRight /\ [Next]_vars => ForwardedRight'
<1> SUFFICES ASSUME TypeOK, Numbered, Routed, ForwardedRight, [Next]_vars
             PROVE  ForwardedRight'
    OBVIOUS
<1> USE DEF ForwardedRight, client, loop, conns
<1>1. ASSUME UNCHANGED <<sent, conns, forwarded>> PROVE ForwardedRight'
    BY <1>1
<1>2. ASSUME NEW id \in Nat, NEW copied \in BOOLEAN, Deliver(id, copied),
             UNCHANGED <<sent, dials, origin>>,
             ~copied => /\ id \in 1 .. Len(sent) /\ upstream \in 1 .. dials
                        /\ origin[upstream].host = sent[id].host
                        /\ origin[upstream].depth = depth
      PROVE  ForwardedRight'
  <2> DEFINE f == [id |-> id, over |-> upstream, depth |-> depth, copied |-> copied]
  <2>1. \A i \in 1 .. Len(forwarded') :
            (i \in 1 .. Len(forwarded) /\ forwarded'[i] = forwarded[i]) \/ forwarded'[i] = f
    <3> DEFINE Forwarded == [id : Nat, over : Nat, depth : Nat, copied : BOOLEAN]
    <3>1. forwarded \in Seq(Forwarded) /\ f \in Forwarded
        BY BoundAssumption DEF TypeOK
    <3>2. forwarded' = Append(forwarded, f)
        BY <1>2 DEF Deliver
    <3> HIDE DEF Forwarded, f
    <3> QED BY <3>1, <3>2
  <2> QED BY <1>2, <2>1
<1>3. CASE Forward \/ StartPassthrough
  <2>1. /\ req.id = taken /\ taken \in 1 .. Len(sent) /\ upstream \in 1 .. dials
        /\ origin[upstream].host = req.host /\ origin[upstream].depth = depth
        /\ FALSE \in BOOLEAN /\ taken \in Nat
    <3>1. pc \in {"forward", "pass"}
        BY <1>3 DEF Forward, StartPassthrough
    <3>2. taken \in 1 .. Len(sent) /\ taken \in Nat
        BY <3>1 DEF TypeOK, Numbered
    <3>3. upstream \in 1 .. dials /\ dialled = origin[upstream].host
      <4>1. upstream \in 0 .. dials /\ dials \in Nat /\ upstream # 0
          BY <3>1 DEF TypeOK, Routed
      <4> QED BY <4>1 DEF TypeOK
    <3> QED BY <3>1, <3>2, <3>3 DEF Numbered, Routed, req
  <2>2. Deliver(taken, FALSE) /\ UNCHANGED <<sent, dials, origin>>
      BY <1>3, <2>1 DEF Forward, StartPassthrough
  <2> QED BY <1>2, <2>1, <2>2 DEF req
<1>4. CASE CopyRequest
  <2>1. sent[taken + 1].id \in Nat
    <3>1. taken + 1 \in 1 .. Len(sent)
        BY <1>4 DEF TypeOK, CopyRequest
    <3> QED BY <3>1, RequestType
  <2>2. Deliver(sent[taken + 1].id, TRUE) /\ UNCHANGED <<sent, dials, origin>>
      BY <1>4 DEF CopyRequest
  <2> QED BY <1>2, <2>1, <2>2
<1>5. CASE Dial
  <2>1. /\ origin \in Seq([host : Hosts, depth : 0 .. MaxConnectDepth]) /\ dials = Len(origin)
        /\ dials' = dials + 1
        /\ origin' = Append(origin, [host |-> req.host, depth |-> depth])
        /\ UNCHANGED <<sent, forwarded>>
      BY <1>5 DEF TypeOK, Dial
  <2>2. \A n \in 1 .. dials : n \in 1 .. dials' /\ origin'[n] = origin[n]
      BY <2>1
  <2>3. ASSUME NEW i \in 1 .. Len(forwarded), ~forwarded[i].copied
        PROVE  LET n == forwarded[i].over
               IN  n \in 1 .. dials' /\ origin'[n] = origin[n]
      BY <2>2, <2>3 DEF ForwardedRight
  <2> QED BY <2>1, <2>3 DEF ForwardedRight
<1>6. CASE Nest
    BY <1>6 DEF Nest
<1>7. ASSUME NEW h \in Hosts, NEW method \in {"get", "connect", "upgrade"},
             NEW cut \in Cuts \cup {"no"}, Send(h, method, cut)
      PROVE  ForwardedRight'
  <2>1. \A n \in 1 .. Len(sent) : n \in 1 .. Len(sent') /\ sent'[n] = sent[n]
      BY <1>7 DEF Send, TypeOK
  <2> QED BY <1>7, <2>1 DEF Send
<1>8. CASE \/ ReadRequest \/ Reuse \/ ReadResponse \/ Upgrade \/ Relay \/ CopyResponse
          \/ Leave \/ Hangup \/ UNCHANGED vars
    BY <1>1, <1>8 DEF ReadRequest, Reuse, ReadResponse, Upgrade, Relay, CopyResponse, Leave,
                      Hangup, vars
<1>9. ASSUME NEW b \in Bodies, Answer(b) PROVE ForwardedRight'
    BY <1>1, <1>9 DEF Answer
<1>10. CASE Return
    BY <1>10 DEF Return
<1> QED BY <1>3, <1>4, <1>5, <1>6, <1>7, <1>8, <1>9, <1>10 DEF Next, Handler

(* The one place that dials closes the connection it replaces; Nest and    *)
(* every return close the one in use.                                      *)
LEMMA LeakStep == TypeOK /\ NoUpstreamLeak /\ [Next]_vars => NoUpstreamLeak'
<1> SUFFICES ASSUME TypeOK, NoUpstreamLeak, [Next]_vars PROVE NoUpstreamLeak'
    OBVIOUS
<1> USE DEF NoUpstreamLeak, client, loop, conns
<1>1. CASE Nest
    BY <1>1 DEF Nest, DropUpstream
<1>2. CASE Dial
    BY <1>2 DEF Dial, OpenAfterDial, Serve
<1>3. CASE Return
    BY <1>3 DEF Return
<1>4. CASE \/ ReadRequest \/ Reuse \/ Forward \/ ReadResponse \/ Upgrade \/ Relay
          \/ StartPassthrough \/ CopyRequest \/ CopyResponse
    BY <1>4 DEF ReadRequest, Reuse, Serve, Forward, ReadResponse, Upgrade, Relay,
                StartPassthrough, CopyRequest, CopyResponse
<1>5. ASSUME NEW h \in Hosts, NEW method \in {"get", "connect", "upgrade"},
             NEW cut \in Cuts \cup {"no"}, Send(h, method, cut)
      PROVE  NoUpstreamLeak'
    BY <1>5 DEF Send
<1>6. CASE Leave \/ Hangup \/ UNCHANGED vars \/ \E b \in Bodies : Answer(b)
    BY <1>6 DEF Leave, Hangup, Answer, vars
<1> QED BY <1>1, <1>2, <1>3, <1>4, <1>5, <1>6 DEF Next, Handler

(* A reply's body is the one on its connection, what was read of it, or    *)
(* the tamperer's.                                                         *)
LEMMA ReplyKeepsWhole ==
    ASSUME NEW id, NEW status, NEW b, TypeOK, Unread, Reply(id, status, b), b.cut \/ IsWhole(b)
    PROVE  \A i \in 1 .. Len(replies') : replies'[i].cut \/ replies'[i].whole
<1> DEFINE r == [for |-> id, status |-> status, cut |-> b.cut, whole |-> IsWhole(b)]
<1>1. replies' = Append(replies, r) /\ (r.cut \/ r.whole)
    BY DEF Reply
<1>2. \A i \in 1 .. Len(replies) : replies[i].cut \/ replies[i].whole
    BY DEF Unread
<1>3. replies \in Seq([for : Nat, status : Status, cut : BOOLEAN, whole : BOOLEAN])
    BY DEF TypeOK
<1> HIDE DEF r
<1>4. \A i \in 1 .. Len(replies') :
         (i \in 1 .. Len(replies) /\ replies'[i] = replies[i]) \/ replies'[i] = r
    BY <1>1, <1>3
<1> QED BY <1>1, <1>2, <1>4

(* DecodeBody and Encode read a body only on its way to the client.        *)
LEMMA UnreadStep == TypeOK /\ Unread /\ [Next]_vars => Unread'
<1> SUFFICES ASSUME TypeOK, Unread, [Next]_vars PROVE Unread'
    OBVIOUS
<1> USE DEF client, loop, server
<1>1. ASSUME UNCHANGED <<response, queue, replies>> PROVE Unread'
    BY <1>1 DEF Unread
<1>2. CASE Nest
    BY <1>2, ReplyKeepsWhole, NoBodyIsBody DEF Nest, Unread
<1>3. CASE Dial
    BY <1>3 DEF Dial, Unread
<1>4. CASE ReadResponse
  <2>1. /\ queue \in Seq(Response) /\ queue # <<>>
        /\ response' = Head(queue) /\ queue' = Tail(queue) /\ replies' = replies
      BY <1>4 DEF TypeOK, ReadResponse
  <2>2. /\ Head(queue) = queue[1] /\ 1 \in 1 .. Len(queue)
        /\ \A k \in 1 .. Len(queue') : k + 1 \in 1 .. Len(queue) /\ queue'[k] = queue[k + 1]
      BY <2>1
  <2> QED BY <2>1, <2>2 DEF Unread
<1>5. CASE Upgrade
    BY <1>5, ReplyKeepsWhole, NoBodyIsBody DEF Upgrade, Unread
<1>6. CASE Relay
  <2>1. PICK verdict \in Verdicts :
            Reply(response.for, response.status, Encode(FinalBody(verdict)))
      BY <1>6 DEF Relay
  <2>2. Encode(FinalBody(verdict)).cut \/ IsWhole(Encode(FinalBody(verdict)))
    <3>1. response.body \in Body
        BY DEF TypeOK, Response
    <3> QED BY <3>1, RelayedBody DEF Unread
  <2> QED BY <1>6, <2>1, <2>2, ReplyKeepsWhole DEF Relay, Unread
<1>7. CASE CopyResponse
  <2>1. /\ queue \in Seq(Response) /\ queue # <<>> /\ queue' = Tail(queue)
        /\ Reply(queue[1].for, queue[1].status, queue[1].body) /\ response' = response
      BY <1>7 DEF TypeOK, CopyResponse
  <2>2. /\ 1 \in 1 .. Len(queue)
        /\ \A k \in 1 .. Len(queue') : k + 1 \in 1 .. Len(queue) /\ queue'[k] = queue[k + 1]
      BY <2>1
  <2>3. queue[1].body.cut \/ IsWhole(queue[1].body)
      BY <2>2 DEF Unread, IsWhole
  <2>4. \A i \in 1 .. Len(replies') : replies'[i].cut \/ replies'[i].whole
      BY <2>1, <2>3, ReplyKeepsWhole
  <2> QED BY <2>1, <2>2, <2>4 DEF Unread
<1>8. ASSUME NEW b \in Bodies, Answer(b) PROVE Unread'
  <2>1. PICK status \in Statuses :
            queue' = Append(queue, [for |-> Head(todo), status |-> status,
                                    body |-> IF status = "final" THEN b ELSE NoBody])
      BY <1>8 DEF Answer
  <2> DEFINE new == [for |-> Head(todo), status |-> status,
                     body |-> IF status = "final" THEN b ELSE NoBody]
  <2>2. new.body.at = "network"
      BY EnvironmentAssumption, NoBodyIsBody
  <2>3. queue \in Seq(Response)
      BY DEF TypeOK
  <2> HIDE DEF new
  <2>4. \A k \in 1 .. Len(queue') :
            (k \in 1 .. Len(queue) /\ queue'[k] = queue[k]) \/ queue'[k] = new
      BY <2>1, <2>3 DEF new
  <2> QED BY <1>8, <2>2, <2>4 DEF Answer, Unread
<1>9. CASE \/ ReadRequest \/ Reuse \/ Forward \/ StartPassthrough \/ CopyRequest
          \/ Return \/ Leave \/ Hangup \/ UNCHANGED vars
    BY <1>1, <1>9 DEF ReadRequest, Reuse, Forward, StartPassthrough, CopyRequest, Return,
                      Leave, Hangup, vars
<1>10. ASSUME NEW h \in Hosts, NEW method \in {"get", "connect", "upgrade"},
              NEW cut \in Cuts \cup {"no"}, Send(h, method, cut)
       PROVE  Unread'
    BY <1>1, <1>10 DEF Send
<1> QED BY <1>2, <1>3, <1>4, <1>5, <1>6, <1>7, <1>8, <1>9, <1>10 DEF Next, Handler

------------------------------------------------------------------------------
(* An upstream that sends no 1xx response.                                 *)
LEMMA ReplyNext ==
    ASSUME NEW id, NEW status, NEW b, TypeOK, Given, Reply(id, status, b),
           id = Len(replies) + 1, status # "interim"
    PROVE  Given' /\ Len(replies') = Len(replies) + 1
<1> DEFINE new == [for |-> id, status |-> status, cut |-> b.cut, whole |-> IsWhole(b)]
<1>1. replies' = Append(replies, new) /\ new.for = id /\ new.status = status
    BY DEF Reply
<1> HIDE DEF new
<1>2. /\ Len(replies') = Len(replies) + 1
      /\ \A i \in 1 .. Len(replies') : \/ i \in 1 .. Len(replies) /\ replies'[i] = replies[i]
                                       \/ i = Len(replies) + 1 /\ replies'[i] = new
    BY <1>1 DEF TypeOK
<1> QED BY <1>1, <1>2 DEF Given

LEMMA DeliverNext ==
    ASSUME NEW id, NEW copied, TypeOK, Queued, Deliver(id, copied),
           alive => id = Len(replies) + Len(queue) + Len(todo) + 1,
           UNCHANGED <<queue, replies>>
    PROVE  Queued' /\ Len(todo') = IF alive THEN Len(todo) + 1 ELSE Len(todo)
<1>0. todo \in Seq(Nat)
    BY DEF TypeOK
<1>1. CASE ~alive
    BY <1>1 DEF Deliver, Queued
<1>2. CASE alive
  <2>1. todo' = Append(todo, id)
      BY <1>2 DEF Deliver
  <2>2. /\ Len(todo') = Len(todo) + 1
        /\ \A k \in 1 .. Len(todo') : \/ k \in 1 .. Len(todo) /\ todo'[k] = todo[k]
                                      \/ k = Len(todo) + 1 /\ todo'[k] = id
      BY <1>0, <2>1
  <2>3. Len(queue) \in Nat /\ Len(replies) \in Nat /\ Len(todo) \in Nat
      BY DEF TypeOK
  <2>4. \A k \in 1 .. Len(todo') : todo'[k] = Len(replies) + Len(queue) + k
    <3>1. id = Len(replies) + Len(queue) + (Len(todo) + 1)
        BY <1>2, <2>3
    <3> QED BY <2>2, <3>1 DEF Queued
  <2> QED BY <1>2, <2>2, <2>4 DEF Queued
<1> QED BY <1>1, <1>2

(* Arithmetic of lengths.                                                  *)
LEMMA OneOfTwo == \A m, n \in Nat : m # 0 /\ m + n <= 1 => m = 1 /\ n = 0
OBVIOUS

LEMMA OneMore == \A m, n \in Nat : m + n + 1 = m + (n + 1)
OBVIOUS

LEMMA OneLonger == \A k, m, n \in Nat : k + m + (n + 1) = k + m + n + 1
OBVIOUS

LEMMA OneAcross == \A k, m, n \in Nat : n # 0 => k + (m + 1) + (n - 1) = k + m + n
OBVIOUS

(* Answers and requests keep their places in the row.                      *)
LEMMA PairStep == ~Interims /\ TypeOK /\ Numbered /\ PairInv /\ [Next]_vars => PairInv'
<1> SUFFICES ASSUME ~Interims, TypeOK, Numbered, PairInv, [Next]_vars PROVE PairInv'
    OBVIOUS
<1> USE DEF client, loop, conns, server
<1>0. /\ sent \in Seq(Request) /\ replies \in Seq([for : Nat, status : Status,
                                                   cut : BOOLEAN, whole : BOOLEAN])
      /\ queue \in Seq(Response) /\ todo \in Seq(Nat) /\ taken \in 0 .. Len(sent)
    BY DEF TypeOK
<1>L. /\ Len(replies) \in Nat /\ Len(queue) \in Nat /\ Len(todo) \in Nat
      /\ Len(sent) \in Nat /\ taken \in Nat /\ taken <= Len(sent)
    BY <1>0
<1>1. pc \notin {"read", "passing", "returned"} => req.id = taken
    BY <1>0, <1>L DEF Numbered, req
<1>2. CASE ReadRequest
    BY <1>L, <1>2 DEF ReadRequest, PairInv, Queued, Given, Placed
<1>3. CASE Nest
  <2>1. Reply(req.id, "final", NoBody) /\ req.id = Len(replies) + 1
      BY <1>0, <1>L, <1>1, <1>3 DEF Nest, PairInv, Placed
  <2>2. Given' /\ Len(replies') = Len(replies) + 1
      BY <2>1, ReplyNext DEF PairInv
  <2>3. Queued' /\ Placed'
      BY <1>0, <1>L, <1>3, <2>2 DEF Nest, PairInv, Queued, Placed
  <2> QED BY <2>2, <2>3 DEF PairInv
<1>4. CASE Reuse
    BY <1>4 DEF Reuse, Serve, PairInv, Queued, Given, Placed
<1>5. CASE Dial
    BY <1>5 DEF Dial, Serve, PairInv, Queued, Given, Placed
<1>6. CASE Forward \/ StartPassthrough
  <2>1. Deliver(req.id, FALSE) /\ UNCHANGED <<queue, replies, taken, alive, response>>
      BY <1>6 DEF Forward, StartPassthrough
  <2>2. req.id = Len(replies) + 1 /\ queue = <<>> /\ todo = <<>> /\ Len(replies) + 1 = taken
      BY <1>0, <1>L, <1>1, <1>6 DEF Forward, StartPassthrough, PairInv, Placed
  <2>3. Len(queue) = 0 /\ Len(todo) = 0
      BY <2>2
  <2>4. Len(replies) + Len(queue) + Len(todo) + 1 = req.id
      BY <1>L, <2>2, <2>3
  <2>5. Queued' /\ Len(todo') = IF alive THEN Len(todo) + 1 ELSE Len(todo)
      BY <2>1, <2>4, DeliverNext DEF PairInv
  <2>6. /\ Len(todo') = (IF alive THEN 1 ELSE 0) /\ Len(queue') = 0
        /\ Len(replies') + 1 = taken'
      BY <2>1, <2>2, <2>3, <2>5
  <2>7. Placed'
    <3>1. Len(queue') + Len(todo') <= 1
        BY <2>6
    <3>2. alive' => Len(replies') + Len(queue') + Len(todo') = taken'
        BY <1>L, <2>1, <2>6
    <3> QED BY <1>6, <2>6, <3>1, <3>2 DEF Forward, StartPassthrough, Placed
  <2> QED BY <2>1, <2>5, <2>7 DEF PairInv, Given
<1>7. CASE ReadResponse
  <2>1. /\ queue # <<>> /\ response' = queue[1] /\ queue' = Tail(queue)
        /\ UNCHANGED <<todo, replies, taken, alive>> /\ pc = "await"
        /\ pc' \in {"upgrade", "relay"}
      BY <1>0, <1>L, <1>7 DEF ReadResponse
  <2>2. Len(queue) + Len(todo) <= 1 /\ Len(replies) + 1 = taken
      BY <2>1 DEF PairInv, Placed
  <2>3. Len(queue) # 0
      BY <1>0, <2>1
  <2>4. Len(queue) = 1 /\ Len(todo) = 0
      BY <1>L, <2>2, <2>3, OneOfTwo, Zenon
  <2>5. todo = <<>> /\ queue' = <<>>
    <3>1. todo = <<>>
        BY <1>0, <2>4
    <3>2. queue' \in Seq(Response) /\ Len(queue') = 0
        BY <1>0, <1>L, <2>1, <2>4
    <3>3. queue' = <<>>
        BY <3>2
    <3> QED BY <3>1, <3>3
  <2>6. queue[1].for = taken /\ queue[1].status # "interim"
      BY <2>2, <2>4 DEF PairInv, Queued
  <2>7. Queued'
      BY <2>5, <2>1 DEF Queued
  <2> QED BY <2>1, <2>2, <2>5, <2>6, <2>7 DEF PairInv, Given, Placed
<1>8. CASE Upgrade \/ Relay
  <2>1. PICK id, status, b : Reply(id, status, b) /\ id = response.for /\ status # "interim"
      BY <1>8 DEF Upgrade, Relay, PairInv, Placed
  <2>2. /\ queue = <<>> /\ todo = <<>> /\ Len(replies) + 1 = taken /\ response.for = taken
        /\ pc' \in {"read", "websocket"}
        /\ UNCHANGED <<queue, todo, taken>>
      BY <1>8 DEF Upgrade, Relay, PairInv, Placed
  <2>3. Given' /\ Len(replies') = Len(replies) + 1
      BY <2>1, <2>2, ReplyNext DEF PairInv
  <2> QED BY <1>0, <1>L, <2>2, <2>3 DEF PairInv, Queued, Placed
<1>9. CASE CopyRequest
  <2>1. /\ Deliver(sent[taken + 1].id, TRUE) /\ taken' = taken + 1 /\ taken < Len(sent)
        /\ pc = "passing" /\ UNCHANGED <<pc, queue, replies, alive>>
      BY <1>9 DEF CopyRequest
  <2>2. sent[taken + 1].id = taken + 1
    <3>1. taken + 1 \in 1 .. Len(sent)
        BY <1>0, <1>L, <2>1
    <3> QED BY <3>1 DEF Numbered
  <2>3. alive => Len(replies) + Len(queue) + Len(todo) = taken
      BY <2>1 DEF PairInv, Placed
  <2>4. Queued' /\ Len(todo') = IF alive THEN Len(todo) + 1 ELSE Len(todo)
      BY <1>0, <1>L, <2>1, <2>2, <2>3, DeliverNext DEF PairInv
  <2>5. alive => Len(replies) + Len(queue) + Len(todo') = taken'
    <3>1. Len(replies) + Len(queue) + (Len(todo) + 1) = Len(replies) + Len(queue) + Len(todo) + 1
        BY <1>L, OneLonger, ZenonT(60)
    <3> QED BY <2>1, <2>3, <2>4, <3>1
  <2>6. Placed'
      BY <2>1, <2>5 DEF Placed
  <2> QED BY <2>1, <2>4, <2>6 DEF PairInv, Given
<1>10. CASE CopyResponse
  <2>1. /\ queue # <<>> /\ queue' = Tail(queue)
        /\ Reply(queue[1].for, queue[1].status, queue[1].body)
        /\ pc = "passing" /\ UNCHANGED <<pc, todo, taken, alive>>
      BY <1>0, <1>L, <1>10 DEF CopyResponse
  <2>2. queue[1].for = Len(replies) + 1 /\ queue[1].status # "interim"
      BY <1>0, <1>L, <2>1 DEF PairInv, Queued
  <2>3. Given' /\ Len(replies') = Len(replies) + 1
      BY <2>1, <2>2, ReplyNext DEF PairInv
  <2>4. /\ Len(queue') = Len(queue) - 1
        /\ \A k \in 1 .. Len(queue') : k + 1 \in 1 .. Len(queue) /\ queue'[k] = queue[k + 1]
      BY <1>0, <1>L, <2>1
  <2>5. Queued'
      BY <1>0, <1>L, <2>1, <2>3, <2>4 DEF PairInv, Queued
  <2>6. Placed'
      BY <1>0, <1>L, <2>1, <2>3, <2>4 DEF PairInv, Placed
  <2> QED BY <2>3, <2>5, <2>6 DEF PairInv
<1>11. ASSUME NEW b \in Bodies, Answer(b) PROVE PairInv'
  <2>1. PICK status \in Statuses :
            /\ todo' = IF status = "interim" THEN todo ELSE Tail(todo)
            /\ queue' = Append(queue, [for |-> Head(todo), status |-> status,
                                       body |-> IF status = "final" THEN b ELSE NoBody])
      BY <1>11 DEF Answer
  <2> DEFINE new == [for |-> Head(todo), status |-> status,
                     body |-> IF status = "final" THEN b ELSE NoBody]
  <2>2. /\ todo # <<>> /\ alive /\ UNCHANGED <<pc, taken, response, replies>>
        /\ status # "interim" /\ todo' = Tail(todo)
      BY <1>11, <2>1 DEF Answer, Statuses
  <2>3. new.for = Len(replies) + Len(queue) + 1 /\ new.status # "interim"
      BY <1>0, <1>L, <2>2 DEF PairInv, Queued
  <2>4. queue' = Append(queue, new)
      BY <2>1
  <2> HIDE DEF new
  <2>5. /\ Len(queue') = Len(queue) + 1
        /\ \A k \in 1 .. Len(queue') : \/ k \in 1 .. Len(queue) /\ queue'[k] = queue[k]
                                       \/ k = Len(queue) + 1 /\ queue'[k] = new
      BY <1>0, <1>L, <2>4
  <2>6. /\ Len(todo') = Len(todo) - 1
        /\ \A k \in 1 .. Len(todo') : k + 1 \in 1 .. Len(todo) /\ todo'[k] = todo[k + 1]
      BY <1>0, <1>L, <2>2
  <2>7. Queued'
    <3>1. \A k \in 1 .. Len(queue') : /\ queue'[k].for = Len(replies) + k
                                      /\ queue'[k].status # "interim"
      <4>1. new.for = Len(replies) + (Len(queue) + 1)
          BY <1>L, <2>3, OneMore, Zenon
      <4> QED BY <2>3, <2>5, <4>1 DEF PairInv, Queued
    <3>2. \A k \in 1 .. Len(todo') : todo'[k] = Len(replies) + Len(queue') + k
        BY <1>0, <1>L, <2>5, <2>6 DEF PairInv, Queued
    <3> QED BY <2>2, <3>1, <3>2 DEF Queued
  <2>8. Placed'
    <3>1. pc \notin {"read", "nest", "route", "forward", "pass", "relay", "upgrade"}
        BY <2>2 DEF PairInv, Placed
    <3>2. Len(todo) # 0
        BY <1>0, <2>2
    <3>3. Len(replies) + Len(queue') + Len(todo') = Len(replies) + Len(queue) + Len(todo)
      <4>1. Len(replies) + (Len(queue) + 1) + (Len(todo) - 1)
                = Len(replies) + Len(queue) + Len(todo)
          BY <1>L, <3>2, OneAcross, ZenonT(60)
      <4> QED BY <2>2, <2>5, <2>6, <4>1
    <3>4. Len(queue') + Len(todo') = Len(queue) + Len(todo)
        BY <1>0, <1>L, <2>5, <2>6
    <3> QED BY <2>2, <3>1, <3>3, <3>4 DEF PairInv, Placed
  <2> QED BY <2>2, <2>7, <2>8 DEF PairInv, Given
<1>12. CASE Return
    BY <1>12 DEF Return, PairInv, Queued, Given, Placed
<1>13. CASE Leave \/ Hangup \/ UNCHANGED vars
  <2>1. UNCHANGED <<pc, taken, response, queue, todo, replies>> /\ (alive' => alive)
      BY <1>13 DEF Leave, Hangup, vars
  <2> QED BY <2>1 DEF PairInv, Queued, Given, Placed
<1>14. ASSUME NEW h \in Hosts, NEW method \in {"get", "connect", "upgrade"},
              NEW cut \in Cuts \cup {"no"}, Send(h, method, cut)
       PROVE  PairInv'
    BY <1>14 DEF Send, PairInv, Queued, Given, Placed
<1> QED BY <1>2, <1>3, <1>4, <1>5, <1>6, <1>7, <1>8, <1>9, <1>10, <1>11, <1>12, <1>13, <1>14
        DEF Next, Handler

(* Only a tamperer that puts a body of its own in the response it was      *)
(* given leaves the upstream's unread.                                     *)
Clean == "inplace" \notin Verdicts => ~dirty

LEMMA CleanStep == Clean /\ [Next]_vars => Clean'
<1> SUFFICES ASSUME Clean, [Next]_vars, "inplace" \notin Verdicts PROVE ~dirty'
    BY DEF Clean
<1> USE DEF server, Clean
<1>1. CASE Relay
    BY <1>1 DEF Relay, LeavesRest
<1>2. CASE Dial
    BY <1>2 DEF Dial
<1>3. CASE \/ ReadRequest \/ Nest \/ Reuse \/ Forward \/ ReadResponse \/ Upgrade
          \/ StartPassthrough \/ CopyRequest \/ CopyResponse \/ Return \/ Leave \/ Hangup
          \/ UNCHANGED vars
    BY <1>3 DEF ReadRequest, Nest, Reuse, Forward, ReadResponse, Upgrade, StartPassthrough,
                CopyRequest, CopyResponse, Return, Leave, Hangup, vars
<1>4. ASSUME NEW b \in Bodies, Answer(b) PROVE ~dirty'
    BY <1>4 DEF Answer
<1>5. ASSUME NEW h \in Hosts, NEW method \in {"get", "connect", "upgrade"},
             NEW cut \in Cuts \cup {"no"}, Send(h, method, cut)
      PROVE  ~dirty'
    BY <1>5 DEF Send
<1> QED BY <1>1, <1>2, <1>3, <1>4, <1>5 DEF Next, Handler

(* The invariant holds in every state of a session.                        *)
THEOREM Invariance == Spec => []IndInv
<1>1. Init => IndInv
  <2> SUFFICES ASSUME Init PROVE IndInv
      OBVIOUS
  <2> USE HostAssumption, BoundAssumption DEF Init
  <2>1. TypeOK
    <3>1. response \in Response
        BY NoBodyIsBody DEF Response, Status
    <3>2. \A S : <<>> \in Seq(S)
        OBVIOUS
    <3>3. /\ sent \in Seq(Request) /\ queue \in Seq(Response) /\ todo \in Seq(Nat)
          /\ origin \in Seq([host : Hosts, depth : 0 .. MaxConnectDepth])
          /\ forwarded \in Seq([id : Nat, over : Nat, depth : Nat, copied : BOOLEAN])
          /\ replies \in Seq([for : Nat, status : Status, cut : BOOLEAN, whole : BOOLEAN])
        BY <3>2, Zenon
    <3>4. /\ taken \in 0 .. Len(sent) /\ depth \in 0 .. MaxConnectDepth
          /\ dials = Len(origin) /\ upstream \in 0 .. dials /\ open \subseteq 1 .. dials
        OBVIOUS
    <3>5. {left, dirty, alive} \subseteq BOOLEAN
        OBVIOUS
    <3> QED BY <3>1, <3>3, <3>4, <3>5 DEF TypeOK
  <2>2. Unread
      BY NoBodyIsBody DEF Unread
  <2> QED BY <2>1, <2>2 DEF IndInv, Numbered, Routed, ForwardedRight, NoUpstreamLeak
<1>2. IndInv /\ [Next]_vars => IndInv'
    BY TypeStep, NumberedStep, RoutedStep, ForwardedStep, LeakStep, UnreadStep DEF IndInv
<1> QED BY <1>1, <1>2, PTL DEF Spec

(* Every variable of a session has its type.                               *)
THEOREM TypeCorrect == FairSpec => []TypeOK
<1>1. IndInv => TypeOK
    BY DEF IndInv
<1> QED BY <1>1, Invariance, PTL DEF FairSpec

(* A request goes out on a connection dialled for its host, in the tunnel  *)
(* it was read in.                                                         *)
THEOREM UpstreamIsRight == FairSpec => []RightUpstream
<1>1. IndInv => RightUpstream
  <2> SUFFICES ASSUME IndInv PROVE RightUpstream
      OBVIOUS
  <2>1. DOMAIN forwarded = 1 .. Len(forwarded)
      BY DEF IndInv, TypeOK
  <2> QED BY <2>1 DEF IndInv, ForwardedRight, RightUpstream
<1> QED BY <1>1, Invariance, PTL DEF FairSpec

(* At most the upstream in use is open, and none after any of the returns. *)
THEOREM NoUpstreamLeaks == FairSpec => []NoUpstreamLeak
<1>1. IndInv => NoUpstreamLeak
    BY DEF IndInv
<1> QED BY <1>1, Invariance, PTL DEF FairSpec

(* What the upstream sent whole reaches the client whole, decoded or not,  *)
(* tampered with or not.                                                   *)
THEOREM WholeReachesClient == FairSpec => []WholeStaysWhole
<1>1. IndInv => WholeStaysWhole
  <2> SUFFICES ASSUME IndInv PROVE WholeStaysWhole
      OBVIOUS
  <2>1. DOMAIN replies = 1 .. Len(replies)
      BY DEF IndInv, TypeOK
  <2> QED BY <2>1 DEF IndInv, Unread, WholeStaysWhole
<1> QED BY <1>1, Invariance, PTL DEF FairSpec

(* An upstream that sends no 1xx response: the answers stay in one row.    *)
THEOREM InOneRow == ASSUME ~Interims PROVE Spec => [](IndInv /\ PairInv /\ Clean)
<1>1. Init => PairInv /\ Clean
    BY DEF Init, PairInv, Queued, Given, Placed, Clean
<1>2. IndInv /\ PairInv /\ Clean /\ [Next]_vars => (PairInv /\ Clean)'
    BY PairStep, CleanStep DEF IndInv
<1> QED BY <1>1, <1>2, Invariance, PTL DEF Spec

(* The nth response a client receives answers its nth request, for as long *)
(* as the upstream sends no 1xx response: the handler relays one response  *)
(* for each request, and takes an interim one for it.                      *)
THEOREM NthAnswersNth == ASSUME ~Interims PROVE FairSpec => []RepliesPaired
<1>1. IndInv /\ PairInv => RepliesPaired
  <2> SUFFICES ASSUME IndInv, PairInv PROVE RepliesPaired
      OBVIOUS
  <2>1. DOMAIN replies = 1 .. Len(replies) /\ Len(replies) \in Nat
      BY DEF IndInv, TypeOK
  <2>2. Finals = 1 .. Len(replies)
      BY <2>1 DEF Finals, PairInv, Given
  <2>3. ASSUME NEW i \in Finals
        PROVE  replies[i].for = Cardinality({j \in Finals : j <= i})
    <3>1. {j \in Finals : j <= i} = 1 .. i
        BY <2>1, <2>2
    <3>2. Cardinality(1 .. i) = i
        BY <2>1, <2>2, FS_Interval
    <3>3. replies[i].for = i
        BY <2>2 DEF PairInv, Given
    <3> QED BY <3>1, <3>2, <3>3
  <2> QED BY <2>3 DEF RepliesPaired
<1> QED BY <1>1, InOneRow, PTL DEF FairSpec

(* Between two requests nothing of an exchange is left on the upstream,    *)
(* when moreover the tamperer does not swap the body inside the response   *)
(* that the handler closes.                                                *)
THEOREM ExchangesFinish ==
    ASSUME ~Interims, "inplace" \notin Verdicts PROVE FairSpec => []NothingLeftBehind
<1>1. PairInv /\ Clean => NothingLeftBehind
    BY DEF PairInv, Placed, Clean, NothingLeftBehind
<1> QED BY <1>1, InOneRow, PTL DEF FairSpec
------------------------------------------------------------------------------
(* The refinement of HttpSession.                                          *)
WasSent(n) == \E i \in 1 .. Len(forwarded) : forwarded[i].id = n

(* Only what has been read is sent, the latest request when its turn comes, *)
(* and only what was sent is owed, answered or relayed.                    *)
Once ==
    /\ \A i \in 1 .. Len(forwarded) : forwarded[i].id <= taken
    /\ pc \in {"nest", "route", "forward", "pass"} => ~WasSent(taken)
    /\ \A k \in 1 .. Len(todo) : WasSent(todo[k])
    /\ \A k \in 1 .. Len(queue) : WasSent(queue[k].for)
    /\ pc \in {"relay", "upgrade"} => WasSent(response.for)

LEMMA ForwardedIds == TypeOK => \A i \in 1 .. Len(forwarded) : forwarded[i].id \in Nat
<1> DEFINE Forwarded == [id : Nat, over : Nat, depth : Nat, copied : BOOLEAN]
<1> SUFFICES ASSUME TypeOK, NEW i \in 1 .. Len(forwarded) PROVE forwarded[i].id \in Nat
    OBVIOUS
<1>1. forwarded \in Seq(Forwarded)
    BY DEF TypeOK
<1>2. \A f \in Forwarded : f.id \in Nat
    OBVIOUS
<1> HIDE DEF Forwarded
<1>3. forwarded[i] \in Forwarded
    BY <1>1
<1> QED BY <1>2, <1>3

LEMMA DeliverAppends ==
    ASSUME NEW id \in Nat, NEW copied \in BOOLEAN, TypeOK, Deliver(id, copied)
    PROVE  /\ Len(forwarded') = Len(forwarded) + 1
           /\ \A i \in 1 .. Len(forwarded) : forwarded'[i] = forwarded[i]
           /\ forwarded'[Len(forwarded) + 1].id = id
           /\ Len(forwarded) \in Nat
<1> DEFINE f == [id |-> id, over |-> upstream, depth |-> depth, copied |-> copied]
           Forwarded == [id : Nat, over : Nat, depth : Nat, copied : BOOLEAN]
<1>1. forwarded \in Seq(Forwarded) /\ f \in Forwarded /\ f.id = id
    BY BoundAssumption DEF TypeOK
<1>2. forwarded' = Append(forwarded, f)
    BY DEF Deliver
<1> HIDE DEF f, Forwarded
<1> QED BY <1>1, <1>2

LEMMA DeliverOnce ==
    ASSUME NEW id \in Nat, NEW copied \in BOOLEAN, TypeOK, Once, Deliver(id, copied),
           taken' = id, taken <= id, queue' = queue, pc' \in {"await", "passing"}
    PROVE  Once'
<1>1. taken \in Nat /\ todo \in Seq(Nat)
    BY DEF TypeOK
<1>2. \A i \in 1 .. Len(forwarded') :
          (i \in 1 .. Len(forwarded) /\ forwarded'[i] = forwarded[i]) \/ forwarded'[i].id = id
    BY DeliverAppends
<1>3. \A i \in 1 .. Len(forwarded) : i \in 1 .. Len(forwarded') /\ forwarded'[i] = forwarded[i]
    BY DeliverAppends
<1> DEFINE NowSent(n) == \E i \in 1 .. Len(forwarded') : forwarded'[i].id = n
<1>4. NowSent(id)
    BY DeliverAppends
<1>5. \A n : WasSent(n) => NowSent(n)
    BY <1>3 DEF WasSent
<1> HIDE DEF NowSent
<1>6. \A k \in 1 .. Len(todo') : (k \in 1 .. Len(todo) /\ todo'[k] = todo[k]) \/ todo'[k] = id
    BY <1>1 DEF Deliver
<1>7. \A i \in 1 .. Len(forwarded') : forwarded'[i].id <= taken'
  <2>1. \A i \in 1 .. Len(forwarded) : forwarded[i].id \in Nat /\ forwarded[i].id <= taken
    <3> QED BY ForwardedIds DEF Once
  <2> QED BY <1>1, <1>2, <2>1
<1>8. \A k \in 1 .. Len(todo') : NowSent(todo'[k])
  <2>1. \A k \in 1 .. Len(todo) : NowSent(todo[k])
      BY <1>5 DEF Once
  <2> QED BY <1>4, <1>6, <2>1
<1>9. \A k \in 1 .. Len(queue') : NowSent(queue'[k].for)
    BY <1>5 DEF Once
<1> QED BY <1>7, <1>8, <1>9 DEF Once, WasSent, NowSent

(* A request is sent once: when it has been read and before it is answered. *)
LEMMA OnceStep == TypeOK /\ Numbered /\ Once /\ [Next]_vars => Once'
<1> SUFFICES ASSUME TypeOK, Numbered, Once, [Next]_vars PROVE Once'
    OBVIOUS
<1> USE DEF client, loop, conns, server
<1>0. /\ queue \in Seq(Response) /\ todo \in Seq(Nat) /\ taken \in Nat
      /\ \A i \in 1 .. Len(forwarded) : forwarded[i].id \in Nat
  <2>1. /\ queue \in Seq(Response) /\ todo \in Seq(Nat) /\ taken \in 0 .. Len(sent)
        /\ sent \in Seq(Request)
      BY DEF TypeOK
  <2> QED BY <2>1, ForwardedIds
<1>1. ASSUME UNCHANGED <<todo, queue, forwarded, taken, response>>,
             pc' \in {"nest", "route", "forward", "pass"} =>
                 pc \in {"nest", "route", "forward", "pass"},
             pc' \in {"relay", "upgrade"} => pc \in {"relay", "upgrade"}
      PROVE  Once'
    BY <1>1 DEF Once, WasSent
<1>2. CASE ReadRequest
  <2>1. UNCHANGED <<todo, queue, forwarded>> /\ taken' = taken + 1
        /\ pc' \notin {"relay", "upgrade"}
      BY <1>2 DEF ReadRequest
  <2>2. \A i \in 1 .. Len(forwarded) : forwarded[i].id <= taken' /\ forwarded[i].id # taken'
      BY <1>0, <2>1 DEF Once
  <2> QED BY <2>1, <2>2 DEF Once, WasSent
<1>3. CASE \/ Nest \/ Reuse \/ Upgrade \/ Relay \/ Return \/ Leave \/ Hangup \/ UNCHANGED vars
    BY <1>1, <1>3 DEF Nest, Reuse, Serve, Upgrade, Relay, Return, Leave, Hangup, vars
<1>4. CASE Dial
  <2>1. /\ todo' = <<>> /\ queue' = <<>> /\ UNCHANGED <<forwarded, taken>>
        /\ pc = "route" /\ pc' \notin {"relay", "upgrade"}
      BY <1>4 DEF Dial, Serve
  <2> QED BY <2>1 DEF Once, WasSent
<1>5. CASE Forward \/ StartPassthrough
  <2>1. req.id = taken
    <3>1. taken # 0 /\ taken \in 0 .. Len(sent) /\ sent \in Seq(Request)
        BY <1>5 DEF Forward, StartPassthrough, TypeOK, Numbered
    <3>2. taken \in 1 .. Len(sent)
        BY <3>1
    <3> QED BY <3>2 DEF Numbered, req
  <2>2. Deliver(taken, FALSE) /\ taken' = taken /\ queue' = queue /\ pc' \in {"await", "passing"}
      BY <1>5, <2>1 DEF Forward, StartPassthrough
  <2>3. taken \in Nat /\ taken <= taken /\ FALSE \in BOOLEAN
      BY <1>0
  <2> QED BY <2>2, <2>3, DeliverOnce, Zenon
<1>6. CASE CopyRequest
  <2>1. sent[taken + 1].id = taken + 1
    <3>1. taken + 1 \in 1 .. Len(sent)
        BY <1>6 DEF TypeOK, CopyRequest
    <3> QED BY <3>1 DEF Numbered
  <2>2. /\ Deliver(taken + 1, TRUE) /\ taken' = taken + 1 /\ queue' = queue
        /\ pc' \in {"await", "passing"} /\ TRUE \in BOOLEAN
      BY <1>6, <2>1 DEF CopyRequest
  <2>3. taken + 1 \in Nat /\ taken <= taken + 1
      BY <1>0
  <2> QED BY <2>2, <2>3, DeliverOnce, Zenon
<1>7. CASE ReadResponse \/ CopyResponse
  <2>1. /\ queue # <<>> /\ queue' = Tail(queue) /\ UNCHANGED <<todo, forwarded, taken>>
        /\ pc' \in {"relay", "upgrade"} => response' = Head(queue)
        /\ pc' \notin {"nest", "route", "forward", "pass"}
      BY <1>7 DEF ReadResponse, CopyResponse
  <2>2. /\ Head(queue) = queue[1] /\ 1 \in 1 .. Len(queue)
        /\ \A k \in 1 .. Len(queue') : k + 1 \in 1 .. Len(queue) /\ queue'[k] = queue[k + 1]
      BY <1>0, <2>1
  <2>3. \A k \in 1 .. Len(queue') : WasSent(queue'[k].for)
      BY <2>2 DEF Once
  <2>4. pc' \in {"relay", "upgrade"} => WasSent(response'.for)
      BY <2>1, <2>2 DEF Once
  <2> QED BY <2>1, <2>3, <2>4 DEF Once, WasSent
<1>8. ASSUME NEW b \in Bodies, Answer(b) PROVE Once'
  <2>1. PICK status \in Statuses :
            /\ todo' = IF status = "interim" THEN todo ELSE Tail(todo)
            /\ queue' = Append(queue, [for |-> Head(todo), status |-> status,
                                       body |-> IF status = "final" THEN b ELSE NoBody])
      BY <1>8 DEF Answer
  <2> DEFINE new == [for |-> Head(todo), status |-> status,
                     body |-> IF status = "final" THEN b ELSE NoBody]
  <2>2. todo # <<>> /\ UNCHANGED <<pc, taken, response, forwarded>>
      BY <1>8 DEF Answer
  <2>3. /\ 1 \in 1 .. Len(todo) /\ Head(todo) = todo[1]
        /\ \A k \in 1 .. Len(Tail(todo)) : k + 1 \in 1 .. Len(todo) /\ Tail(todo)[k] = todo[k + 1]
      BY <1>0, <2>2
  <2>4. queue' = Append(queue, new) /\ new.for = Head(todo)
      BY <2>1
  <2> HIDE DEF new
  <2>5. \A k \in 1 .. Len(queue') :
            (k \in 1 .. Len(queue) /\ queue'[k] = queue[k]) \/ queue'[k] = new
      BY <1>0, <2>4
  <2>6. WasSent(new.for)
      BY <2>3, <2>4 DEF Once
  <2>7. \A k \in 1 .. Len(todo') : WasSent(todo'[k])
      BY <2>1, <2>3 DEF Once
  <2>8. \A k \in 1 .. Len(queue') : WasSent(queue'[k].for)
      BY <2>5, <2>6 DEF Once
  <2> QED BY <2>2, <2>7, <2>8 DEF Once, WasSent
<1>9. ASSUME NEW h \in Hosts, NEW method \in {"get", "connect", "upgrade"},
             NEW cut \in Cuts \cup {"no"}, Send(h, method, cut)
      PROVE  Once'
    BY <1>1, <1>9 DEF Send
<1> QED BY <1>2, <1>3, <1>4, <1>5, <1>6, <1>7, <1>8, <1>9 DEF Next, Handler

(* The numbers of what has been sent grow.                                 *)
Growing == \A i, j \in 1 .. Len(forwarded) : i < j => forwarded[i].id < forwarded[j].id

LEMMA DeliverGrows ==
    ASSUME NEW id \in Nat, NEW copied \in BOOLEAN, TypeOK, Growing, Deliver(id, copied),
           \A i \in 1 .. Len(forwarded) : forwarded[i].id < id
    PROVE  Growing'
<1>1. \A i \in 1 .. Len(forwarded') : \/ i \in 1 .. Len(forwarded) /\ forwarded'[i] = forwarded[i]
                                      \/ i = Len(forwarded) + 1 /\ forwarded'[i].id = id
    BY DeliverAppends
<1>2. Len(forwarded) \in Nat
    BY DeliverAppends
<1> SUFFICES ASSUME NEW i \in 1 .. Len(forwarded'), NEW j \in 1 .. Len(forwarded'), i < j
             PROVE  forwarded'[i].id < forwarded'[j].id
    BY DEF Growing
<1>3. i \in 1 .. Len(forwarded) /\ forwarded'[i] = forwarded[i]
    BY <1>1, <1>2
<1>4. CASE j \in 1 .. Len(forwarded) /\ forwarded'[j] = forwarded[j]
    BY <1>3, <1>4 DEF Growing
<1>5. CASE forwarded'[j].id = id
    BY <1>3, <1>5
<1> QED BY <1>1, <1>4, <1>5

LEMMA GrowingStep == TypeOK /\ Numbered /\ Once /\ Growing /\ [Next]_vars => Growing'
<1> SUFFICES ASSUME TypeOK, Numbered, Once, Growing, [Next]_vars PROVE Growing'
    OBVIOUS
<1>0. taken \in Nat /\ sent \in Seq(Request) /\ taken \in 0 .. Len(sent)
    BY DEF TypeOK
<1>1. CASE Forward \/ StartPassthrough
  <2>1. req.id = taken
    <3>1. taken # 0
        BY <1>1 DEF Forward, StartPassthrough, Numbered
    <3>2. taken \in 1 .. Len(sent)
        BY <1>0, <3>1
    <3> QED BY <3>2 DEF Numbered, req
  <2>2. Deliver(taken, FALSE) /\ ~WasSent(taken)
      BY <1>1, <2>1 DEF Forward, StartPassthrough, Once
  <2>3. \A i \in 1 .. Len(forwarded) : forwarded[i].id < taken
      BY <1>0, <2>2, ForwardedIds DEF Once, WasSent
  <2>4. FALSE \in BOOLEAN
      OBVIOUS
  <2> QED BY <1>0, <2>2, <2>3, <2>4, DeliverGrows, Zenon
<1>2. CASE CopyRequest
  <2>1. Deliver(taken + 1, TRUE)
    <3>1. taken + 1 \in 1 .. Len(sent)
        BY <1>0, <1>2 DEF CopyRequest
    <3>2. sent[taken + 1].id = taken + 1
        BY <3>1 DEF Numbered
    <3> QED BY <1>2, <3>2 DEF CopyRequest
  <2>2. \A i \in 1 .. Len(forwarded) : forwarded[i].id < taken + 1
      BY <1>0, ForwardedIds DEF Once
  <2>3. taken + 1 \in Nat /\ TRUE \in BOOLEAN
      BY <1>0
  <2> QED BY <2>1, <2>2, <2>3, DeliverGrows, Zenon
<1>3. CASE \/ ReadRequest \/ Nest \/ Reuse \/ Dial \/ ReadResponse \/ Upgrade \/ Relay
          \/ CopyResponse \/ Return \/ Leave \/ Hangup \/ UNCHANGED vars
          \/ \E b \in Bodies : Answer(b)
    BY <1>3 DEF ReadRequest, Nest, Reuse, Dial, ReadResponse, Upgrade, Relay, CopyResponse,
                Return, Leave, Hangup, vars, Answer, Growing
<1>4. ASSUME NEW h \in Hosts, NEW method \in {"get", "connect", "upgrade"},
             NEW cut \in Cuts \cup {"no"}, Send(h, method, cut)
      PROVE  Growing'
    BY <1>4 DEF Send, Growing
<1> QED BY <1>1, <1>2, <1>3, <1>4 DEF Next, Handler

(* No request is sent twice, whatever becomes of the connection it was     *)
(* sent on, and none overtakes another.                                    *)
THEOREM RequestsSentOnce == FairSpec => []SentInOrder
<1>1. Init => Once /\ Growing
    BY DEF Init, Once, WasSent, Growing
<1>2. IndInv /\ Once /\ Growing /\ [Next]_vars => (Once /\ Growing)'
    BY OnceStep, GrowingStep DEF IndInv
<1>3. IndInv /\ Growing => SentInOrder
  <2> SUFFICES ASSUME IndInv, Growing PROVE SentInOrder
      OBVIOUS
  <2>1. DOMAIN forwarded = 1 .. Len(forwarded)
      BY DEF IndInv, TypeOK
  <2> QED BY <2>1 DEF Growing, SentInOrder
<1> QED BY <1>1, <1>2, <1>3, Invariance, PTL DEF FairSpec, Spec

(* The projections of the refinement mapping.                              *)
Ids(s) == [i \in DOMAIN s |-> s[i].id]

Fors(s) == [i \in DOMAIN s |-> s[i].for]

LEMMA IdsAppend ==
    ASSUME NEW T, NEW s \in Seq(T), NEW e \in T, \A x \in T : x.id \in Nat
    PROVE  /\ DOMAIN Ids(s) = 1 .. Len(s) /\ \A i \in 1 .. Len(s) : Ids(s)[i] = s[i].id
           /\ Ids(Append(s, e)) = Append(Ids(s), e.id)
<1>1. Ids(s) \in Seq(Nat) /\ Len(Ids(s)) = Len(s) /\ \A i \in 1 .. Len(s) : Ids(s)[i] = s[i].id
    BY DEF Ids
<1>2. /\ Append(s, e) \in Seq(T) /\ Len(Append(s, e)) = Len(s) + 1 /\ Len(s) \in Nat
      /\ \A i \in 1 .. Len(s) : Append(s, e)[i] = s[i]
      /\ Append(s, e)[Len(s) + 1] = e
    OBVIOUS
<1> DEFINE l == Ids(Append(s, e))
           r == Append(Ids(s), e.id)
<1>3. /\ l \in Seq(Nat) /\ Len(l) = Len(s) + 1 /\ l[Len(s) + 1] = e.id
      /\ \A i \in 1 .. Len(s) : l[i] = s[i].id
    BY <1>2 DEF Ids
<1>4. r \in Seq(Nat) /\ Len(r) = Len(s) + 1 /\ r[Len(s) + 1] = e.id
      /\ \A i \in 1 .. Len(s) : r[i] = Ids(s)[i]
    BY <1>1, <1>2
<1> HIDE DEF l, r
<1>5. \A i \in 1 .. Len(s) + 1 : l[i] = r[i]
  <2>1. \A i \in 1 .. Len(s) + 1 : i \in 1 .. Len(s) \/ i = Len(s) + 1
      BY <1>2
  <2>2. \A i \in 1 .. Len(s) : l[i] = r[i]
      BY <1>1, <1>3, <1>4
  <2>3. l[Len(s) + 1] = r[Len(s) + 1]
      BY <1>3, <1>4
  <2> QED BY <2>1, <2>2, <2>3
<1>6. l = r
    BY <1>3, <1>4, <1>5, SeqEqual
<1> QED BY <1>1, <1>6 DEF l, r

LEMMA ForsAppend ==
    ASSUME NEW T, NEW s \in Seq(T), NEW e \in T, \A x \in T : x.for \in Nat
    PROVE  /\ Fors(s) \in Seq(Nat) /\ Len(Fors(s)) = Len(s)
           /\ Fors(Append(s, e)) = Append(Fors(s), e.for)
<1>1. Fors(s) \in Seq(Nat) /\ Len(Fors(s)) = Len(s)
      /\ \A i \in 1 .. Len(s) : Fors(s)[i] = s[i].for
    BY DEF Fors
<1>2. /\ Append(s, e) \in Seq(T) /\ Len(Append(s, e)) = Len(s) + 1 /\ Len(s) \in Nat
      /\ \A i \in 1 .. Len(s) : Append(s, e)[i] = s[i]
      /\ Append(s, e)[Len(s) + 1] = e
    OBVIOUS
<1> DEFINE l == Fors(Append(s, e))
           r == Append(Fors(s), e.for)
<1>3. /\ l \in Seq(Nat) /\ Len(l) = Len(s) + 1 /\ l[Len(s) + 1] = e.for
      /\ \A i \in 1 .. Len(s) : l[i] = s[i].for
    BY <1>2 DEF Fors
<1>4. r \in Seq(Nat) /\ Len(r) = Len(s) + 1 /\ r[Len(s) + 1] = e.for
      /\ \A i \in 1 .. Len(s) : r[i] = Fors(s)[i]
    BY <1>1, <1>2
<1> HIDE DEF l, r
<1>5. \A i \in 1 .. Len(s) + 1 : l[i] = r[i]
  <2>1. \A i \in 1 .. Len(s) + 1 : i \in 1 .. Len(s) \/ i = Len(s) + 1
      BY <1>2
  <2>2. \A i \in 1 .. Len(s) : l[i] = r[i]
      BY <1>1, <1>3, <1>4
  <2>3. l[Len(s) + 1] = r[Len(s) + 1]
      BY <1>3, <1>4
  <2> QED BY <2>1, <2>2, <2>3
<1>6. l = r
    BY <1>3, <1>4, <1>5, SeqEqual
<1> QED BY <1>1, <1>6 DEF l, r

LEMMA SentIsAsked == TypeOK => \A n : Session!Asked(n) <=> WasSent(n)
<1> SUFFICES ASSUME TypeOK PROVE \A n : Session!Asked(n) <=> WasSent(n)
    OBVIOUS
<1>1. DOMAIN forwarded = 1 .. Len(forwarded)
    BY DEF TypeOK
<1> QED BY <1>1 DEF Session!Asked, WasSent

LEMMA DeliverAsks ==
    ASSUME NEW id \in Nat, NEW copied \in BOOLEAN, TypeOK, Deliver(id, copied)
    PROVE  Ids(forwarded') = Append(Ids(forwarded), id)
<1> DEFINE f == [id |-> id, over |-> upstream, depth |-> depth, copied |-> copied]
           Forwarded == [id : Nat, over : Nat, depth : Nat, copied : BOOLEAN]
<1>1. forwarded \in Seq(Forwarded) /\ f \in Forwarded /\ f.id = id
    BY BoundAssumption DEF TypeOK
<1>2. forwarded' = Append(forwarded, f)
    BY DEF Deliver
<1>3. \A x \in Forwarded : x.id \in Nat
    OBVIOUS
<1> HIDE DEF f, Forwarded
<1> QED BY <1>1, <1>2, <1>3, IdsAppend

LEMMA ReplyAnswers ==
    ASSUME NEW id \in Nat, NEW status \in Status, NEW b \in Body, TypeOK, Reply(id, status, b)
    PROVE  Fors(replies') = Append(Fors(replies), id)
<1> DEFINE r == [for |-> id, status |-> status, cut |-> b.cut, whole |-> IsWhole(b)]
           Replies == [for : Nat, status : Status, cut : BOOLEAN, whole : BOOLEAN]
<1>1. replies \in Seq(Replies) /\ r \in Replies /\ r.for = id
    BY DEF TypeOK, Body, IsWhole
<1>2. replies' = Append(replies, r)
    BY DEF Reply
<1>3. \A x \in Replies : x.for \in Nat
    OBVIOUS
<1> HIDE DEF r, Replies
<1> QED BY <1>1, <1>2, <1>3, ForsAppend

LEMMA AnswersCount == TypeOK => Len(Fors(replies)) = Len(replies)
<1> DEFINE Replies == [for : Nat, status : Status, cut : BOOLEAN, whole : BOOLEAN]
<1> SUFFICES ASSUME TypeOK PROVE Len(Fors(replies)) = Len(replies)
    OBVIOUS
<1>1. replies \in Seq(Replies)
    BY DEF TypeOK
<1> HIDE DEF Replies
<1> QED BY <1>1 DEF Fors

(* Each step of the handler is one of the session's, or none.              *)
LEMMA SessionStep ==
    TypeOK /\ Numbered /\ PairInv /\ Once /\ [Next]_vars => [Session!Next]_(Session!vars)
<1> SUFFICES ASSUME TypeOK, Numbered, PairInv, Once, [Next]_vars
             PROVE  [Session!Next]_(Session!vars)
    OBVIOUS
<1> USE DEF client, loop, conns, server
<1>0. /\ queue \in Seq(Response) /\ taken \in Nat /\ Len(replies) \in Nat
      /\ response \in Response /\ sent \in Seq(Request) /\ taken \in 0 .. Len(sent)
    BY DEF TypeOK
<1>A. Len(Fors(replies)) = Len(replies) /\ \A n : Session!Asked(n) <=> WasSent(n)
    BY AnswersCount, SentIsAsked
<1>B. pc \notin {"read", "passing", "returned"} => req.id = taken
  <2> SUFFICES ASSUME pc \notin {"read", "passing", "returned"} PROVE req.id = taken
      OBVIOUS
  <2>1. taken # 0
      BY DEF Numbered
  <2>2. taken \in 1 .. Len(sent)
      BY <1>0, <2>1
  <2> QED BY <2>2 DEF Numbered, req
<1>1. CASE ReadRequest
  <2>1. /\ pc = "read" /\ pc' \in {"nest", "route"} /\ taken' = taken + 1
        /\ UNCHANGED <<forwarded, replies>>
      BY <1>1 DEF ReadRequest
  <2>2. Len(replies) = taken
      BY <2>1 DEF PairInv, Placed
  <2>3. Session!Read
      BY <1>A, <2>1, <2>2 DEF Session!Read, Fors
  <2> QED BY <2>3 DEF Session!Next
<1>2. CASE Nest
  <2>1. /\ pc = "nest" /\ pc' = "read" /\ Reply(taken, "final", NoBody)
        /\ UNCHANGED <<taken, forwarded>>
      BY <1>2, <1>B DEF Nest
  <2>2. Len(replies) + 1 = taken /\ ~WasSent(taken)
      BY <2>1 DEF PairInv, Placed, Once
  <2>3. Fors(replies') = Append(Fors(replies), Len(Fors(replies)) + 1)
      BY <1>0, <1>A, <2>1, <2>2, ReplyAnswers, NoBodyIsBody DEF Status
  <2>4. Len(Fors(replies)) < taken /\ ~Session!Asked(taken)
      BY <1>0, <1>A, <2>2
  <2>5. Session!Grant
      BY <2>1, <2>3, <2>4 DEF Session!Grant, Session!Turn, Fors
  <2> QED BY <2>5 DEF Session!Next
<1>3. CASE Forward \/ StartPassthrough
  <2>1. /\ pc \in {"forward", "pass"} /\ pc' \in {"await", "passing"} /\ Deliver(taken, FALSE)
        /\ UNCHANGED <<taken, replies>>
      BY <1>3, <1>B DEF Forward, StartPassthrough
  <2>2. Len(replies) + 1 = taken /\ ~WasSent(taken)
      BY <2>1 DEF PairInv, Placed, Once
  <2>3. Ids(forwarded') = Append(Ids(forwarded), taken)
      BY <1>0, <2>1, DeliverAsks
  <2>4. Len(Fors(replies)) < taken /\ ~Session!Asked(taken)
      BY <1>0, <1>A, <2>2
  <2>5. Session!Ask
      BY <2>1, <2>3, <2>4 DEF Session!Ask, Fors, Ids
  <2> QED BY <2>5 DEF Session!Next
<1>4. CASE Upgrade \/ Relay
  <2>1. PICK status, b : Reply(response.for, status, b) /\ status \in Status /\ b \in Body
    <3>1. response.body \in Body /\ response.status \in Status
        BY <1>0 DEF Response
    <3> QED BY <1>4, <3>1, RelayedBody, NoBodyIsBody DEF Upgrade, Relay, Status
  <2>2. /\ pc \in {"relay", "upgrade"} /\ pc' \in {"read", "websocket"}
        /\ UNCHANGED <<taken, forwarded>>
      BY <1>4 DEF Upgrade, Relay
  <2>3. Len(replies) + 1 = taken /\ response.for = taken /\ WasSent(taken)
      BY <2>2 DEF PairInv, Placed, Once
  <2>4. Fors(replies') = Append(Fors(replies), Len(Fors(replies)) + 1)
      BY <1>0, <1>A, <2>1, <2>3, ReplyAnswers
  <2>5. Len(Fors(replies)) < taken /\ Session!Asked(Len(Fors(replies)) + 1)
      BY <1>0, <1>A, <2>3
  <2>6. Session!Answer
      BY <2>2, <2>4, <2>5 DEF Session!Answer, Session!Turn, Fors
  <2> QED BY <2>6 DEF Session!Next
<1>5. CASE CopyRequest
  <2>1. /\ pc = "passing" /\ pc' = "passing" /\ Deliver(sent[taken + 1].id, TRUE)
        /\ taken' = taken + 1 /\ replies' = replies
      BY <1>5 DEF CopyRequest
  <2>2. sent[taken + 1].id = taken + 1
    <3>1. taken + 1 \in 1 .. Len(sent)
        BY <1>0, <1>5 DEF CopyRequest
    <3> QED BY <3>1 DEF Numbered
  <2>3. Ids(forwarded') = Append(Ids(forwarded), taken + 1)
    <3>1. taken + 1 \in Nat /\ TRUE \in BOOLEAN
        BY <1>0
    <3>2. Deliver(taken + 1, TRUE)
        BY <2>1, <2>2, Zenon
    <3> QED BY <3>1, <3>2, DeliverAsks, Zenon
  <2>4. ~WasSent(taken + 1)
      BY <1>0, ForwardedIds DEF Once, WasSent
  <2>5. Session!Copy
      BY <1>A, <2>1, <2>3, <2>4 DEF Session!Copy, Fors, Ids
  <2> QED BY <2>5 DEF Session!Next
<1>6. CASE CopyResponse
  <2>1. /\ pc = "passing" /\ pc' = "passing" /\ queue # <<>>
        /\ Reply(queue[1].for, queue[1].status, queue[1].body)
        /\ UNCHANGED <<taken, forwarded>>
      BY <1>0, <1>6 DEF CopyResponse
  <2>2. 1 \in 1 .. Len(queue) /\ queue[1] \in Response
      BY <1>0, <2>1
  <2>3. queue[1].for = Len(replies) + 1 /\ WasSent(Len(replies) + 1)
      BY <2>2 DEF PairInv, Queued, Once
  <2>4. Len(replies) < taken
      BY <1>0, <2>3, ForwardedIds DEF Once, WasSent
  <2>5. Fors(replies') = Append(Fors(replies), Len(Fors(replies)) + 1)
    <3>1. /\ queue[1].for \in Nat /\ queue[1].status \in Status /\ queue[1].body \in Body
        BY <2>2 DEF Response
    <3> QED BY <1>A, <2>1, <2>3, <3>1, ReplyAnswers
  <2>6. Len(Fors(replies)) < taken /\ Session!Asked(Len(Fors(replies)) + 1)
      BY <1>A, <2>3, <2>4
  <2>7. Session!Answer
      BY <2>1, <2>5, <2>6 DEF Session!Answer, Session!Turn, Fors
  <2> QED BY <2>7 DEF Session!Next
<1>7. CASE Return
  <2>1. pc' = "returned" /\ UNCHANGED <<taken, forwarded, replies>>
      BY <1>7 DEF Return
  <2>2. Session!End
      BY <2>1 DEF Session!End
  <2> QED BY <2>2 DEF Session!Next
<1>8. CASE \/ Reuse \/ Dial \/ ReadResponse \/ Leave \/ Hangup \/ UNCHANGED vars
          \/ \E b \in Bodies : Answer(b)
  <2>1. /\ UNCHANGED <<taken, forwarded, replies>>
        /\ \/ pc' = pc
           \/ {pc, pc'} \subseteq {"route", "forward", "pass", "await", "relay", "upgrade"}
      BY <1>8 DEF Reuse, Dial, Serve, ReadResponse, Leave, Hangup, vars, Answer
  <2>2. UNCHANGED Session!vars
      BY <2>1 DEF Session!vars
  <2> QED BY <2>2
<1>9. ASSUME NEW h \in Hosts, NEW method \in {"get", "connect", "upgrade"},
             NEW cut \in Cuts \cup {"no"}, Send(h, method, cut)
      PROVE  UNCHANGED Session!vars
    BY <1>9 DEF Send, Session!vars
<1> QED BY <1>1, <1>2, <1>3, <1>4, <1>5, <1>6, <1>7, <1>8, <1>9 DEF Next, Handler

(* However often the handler redials, drops a tunnel's upstream or hands   *)
(* the session over, no request is sent twice and none is answered before  *)
(* it was sent or out of its turn, when upstreams send no 1xx response.    *)
THEOREM HandlerImplementsSession == ASSUME ~Interims PROVE FairSpec => ImplementsSession
<1>1. Init => Session!Init
  <2> SUFFICES ASSUME Init PROVE Session!Init
      OBVIOUS
  <2>1. pc = "read" /\ taken = 0 /\ forwarded = <<>> /\ replies = <<>>
      BY DEF Init
  <2>2. Ids(forwarded) = <<>> /\ Fors(replies) = <<>>
      BY <2>1 DEF Ids, Fors
  <2> QED BY <2>1, <2>2 DEF Session!Init, Ids, Fors
<1>2. Init => Once
    BY DEF Init, Once, WasSent
<1>3. IndInv /\ Once /\ [Next]_vars => Once'
    BY OnceStep DEF IndInv
<1>4. IndInv /\ PairInv /\ Once /\ [Next]_vars => [Session!Next]_(Session!vars)
    BY SessionStep DEF IndInv
<1> QED BY <1>1, <1>2, <1>3, <1>4, InOneRow, PTL
        DEF FairSpec, Spec, ImplementsSession, Session!Spec
==============================================================================
