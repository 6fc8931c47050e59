---------------------------- MODULE HttpsHandler ----------------------------
(***************************************************************************)
(* HttpsHandler (internals/handlers/https.go): one client TLS session.     *)
(* The handler reads requests off the session one at a time, keeps one     *)
(* upstream connection for as long as the requests name the same host,     *)
(* mirrors each response back, enters nested CONNECT tunnels, and hands    *)
(* the session over to the WebSocket pumps or to a blind copy.             *)
(*                                                                         *)
(* A request may be cut: its client left in the middle of the body.  The   *)
(* client and the upstream keep to HTTP: a client waits for the answer to  *)
(* a CONNECT or an upgrade, an upstream answers in order.                  *)
(***************************************************************************)
EXTENDS Integers, Sequences, FiniteSets, HttpIO

CONSTANTS Hosts,            \* values of the Host header
          DiscordHosts,     \* those isDiscordHost accepts
          RelayHosts,       \* the proxy's own names: ProxyHostPort, CleanHostname
          PortedHosts,      \* those written with a port
          MaxConnectDepth,  \* maxConnectDepth
          MaxRequests,      \* bound of the model: requests of a session
          Hooked,           \* HandlerDeps.DialUpstream is set (tests, stress)
          Logged,           \* the tamperer is Logging, as main sets it
          Cuts,             \* how the bodies are delimited that clients cut
          Bodies,           \* the bodies the upstream sends
          Interims,         \* whether it sends 1xx responses first
          Verdicts,         \* what Tamperer.Response does with a response
          NoHost            \* no upstream dialled

ASSUME HostAssumption == /\ DiscordHosts \subseteq Hosts
                         /\ RelayHosts \subseteq Hosts
                         /\ PortedHosts \subseteq Hosts
                         /\ NoHost \notin Hosts

ASSUME BoundAssumption == MaxConnectDepth \in Nat /\ MaxRequests \in Nat

ASSUME EnvironmentAssumption ==
    /\ {Hooked, Logged, Interims} \subseteq BOOLEAN
    /\ Cuts \subseteq {"length", "chunked"}
    /\ \A b \in Bodies : b \in Body /\ b.at = "network"
    /\ Verdicts \subseteq {"same", "error", "new", "inplace"}

VARIABLES sent,       \* requests the client has sent, in order
          left,       \* the client has closed the session
          pc,         \* where the handler is
          taken,      \* how many requests it has read
          depth,      \* connectDepth
          response,   \* resp, the response being relayed
          upstream,   \* serverTLS: the number of a connection, 0 for nil
          dialled,    \* dialledHost
          open,       \* upstream connections not closed by the handler
          dials,      \* connections dialled so far
          origin,     \* host and depth each was dialled for
          todo,       \* requests the current upstream has not answered
          queue,      \* its answers the handler has not read
          dirty,      \* part of a body is left unread before them
          alive,      \* the upstream has not closed its end
          forwarded,  \* every request written upstream, and where
          replies     \* what the client has been sent

client == <<sent, left>>
loop == <<taken, depth, response>>
conns == <<upstream, dialled, open, dials, origin>>
server == <<todo, queue, dirty, alive>>
vars == <<client, pc, loop, conns, server, forwarded, replies>>

Request == [id : Nat, host : Hosts, method : {"get", "connect", "upgrade"},
            cut : Cuts \cup {"no"}]
Status == {"final", "interim", "switching"}
Response == [for : Nat, status : Status, body : Body]

TypeOK == /\ sent \in Seq(Request)
          /\ pc \in {"read", "nest", "route", "forward", "await", "relay", "upgrade",
                     "websocket", "pass", "passing", "returned"}
          /\ taken \in 0 .. Len(sent)
          /\ depth \in 0 .. MaxConnectDepth
          /\ origin \in Seq([host : Hosts, depth : 0 .. MaxConnectDepth])
          /\ dials = Len(origin)
          /\ upstream \in 0 .. dials
          /\ dialled \in Hosts \cup {NoHost}
          /\ upstream # 0 => dialled = origin[upstream].host
          /\ open \subseteq 1 .. dials
          /\ queue \in Seq(Response)
          /\ todo \in Seq(Nat)
          /\ {left, dirty, alive} \subseteq BOOLEAN
          /\ response \in Response
          /\ forwarded \in Seq([id : Nat, over : Nat, depth : Nat, copied : BOOLEAN])
          /\ replies \in Seq([for : Nat, status : Status, cut : BOOLEAN, whole : BOOLEAN])

NoBody == [delimited |-> "length", form |-> "text", cut |-> FALSE, at |-> "network"]

Init == /\ sent = <<>> /\ left = FALSE
        /\ pc = "read" /\ taken = 0 /\ depth = 0
        /\ response = [for |-> 0, status |-> "interim", body |-> NoBody]
        /\ upstream = 0 /\ dialled = NoHost
        /\ open = {} /\ dials = 0 /\ origin = <<>>
        /\ todo = <<>> /\ queue = <<>> /\ dirty = FALSE /\ alive = FALSE
        /\ forwarded = <<>> /\ replies = <<>>

------------------------------------------------------------------------------
req == sent[taken]
isDiscordHost(h) == h \in DiscordHosts
isRelay(h) == h \in RelayHosts
shouldIntercept(h) == isRelay(h) \/ isDiscordHost(h)

Reply(id, status, b) == replies' = Append(replies,
    [for |-> id, status |-> status, cut |-> b.cut, whole |-> IsWhole(b)])

(* http.ReadRequest on the session.                                        *)
ReadRequest ==
    /\ pc = "read"
    /\ taken < Len(sent)
    /\ taken' = taken + 1
    /\ pc' = IF sent[taken + 1].method = "connect" THEN "nest" ELSE "route"
    /\ UNCHANGED <<client, depth, response, conns, server, forwarded, replies>>

ReadRequestFails == pc = "read" /\ taken = Len(sent) /\ left

(* Mutation: one tunnel more than maxConnectDepth.                         *)
MayNestOnceMore == depth <= MaxConnectDepth

MayNest == depth < MaxConnectDepth

(* Mutation: the outer session's upstream survives a nested CONNECT.       *)
KeepUpstream == UNCHANGED <<open, upstream, dialled>>

DropUpstream == /\ open' = open \ {upstream}
                /\ upstream' = 0
                /\ dialled' = IF upstream = 0 THEN dialled ELSE NoHost

(* A nested CONNECT: 200, a TLS handshake inside the session, and the      *)
(* upstream of the outer session is dropped.                               *)
Nest ==
    /\ pc = "nest"
    /\ MayNest
    /\ Reply(req.id, "final", NoBody)
    /\ depth' = depth + 1
    /\ pc' = "read"
    /\ DropUpstream
    /\ UNCHANGED <<client, taken, response, dials, origin, server, forwarded>>

(* Too deep, or the handshake fails.                                       *)
NestFails == pc = "nest"

------------------------------------------------------------------------------
(* Routing: which upstream connection the request goes to.                 *)
NeedsDial == upstream = 0 \/ dialled # req.host

Serve == pc' = IF shouldIntercept(req.host) THEN "forward" ELSE "pass"

Reuse ==
    /\ pc = "route"
    /\ ~NeedsDial
    /\ Serve
    /\ UNCHANGED <<client, loop, conns, server, forwarded, replies>>

(* Only a Discord host is resolved, to an address with a port; a failed    *)
(* lookup is ignored and the host dialled as it is.  crypto/tls dials an   *)
(* address that has a port, and accepts no certificate for a ServerName    *)
(* that has one.                                                           *)
CanDial(h, resolved) ==
    \/ Hooked
    \/ (resolved \/ h \in PortedHosts) /\ h \notin PortedHosts

Resolves(h) == IF isDiscordHost(h) THEN BOOLEAN ELSE {FALSE}

(* Mutation: the upstream of the previous host is forgotten, not closed.   *)
OpenForgetting == open \cup {dials + 1}

OpenAfterDial == (open \ {upstream}) \cup {dials + 1}

(* No upstream, or one for another host: that one is closed, a new one is  *)
(* dialled.                                                                *)
Dial ==
    /\ pc = "route"
    /\ NeedsDial
    /\ \E resolved \in Resolves(req.host) : CanDial(req.host, resolved)
    /\ dials' = dials + 1
    /\ upstream' = dials + 1
    /\ dialled' = req.host
    /\ origin' = Append(origin, [host |-> req.host, depth |-> depth])
    /\ open' = OpenAfterDial
    /\ todo' = <<>> /\ queue' = <<>> /\ dirty' = FALSE /\ alive' = TRUE
    /\ Serve
    /\ UNCHANGED <<client, loop, forwarded, replies>>

(* Any dial may fail: lookup, connection or handshake.                     *)
DialFails == pc = "route" /\ NeedsDial

------------------------------------------------------------------------------
(* Tamperer.Request, then finalRequest.Write.                              *)

(* Logging reads the body first and puts an empty one in its place when    *)
(* that fails; net/http then refuses to write it under a Content-Length,   *)
(* but not as chunks.  Without Logging the failed read fails the Write.    *)
CanWrite == req.cut = "no" \/ (pc = "forward" /\ Logged /\ req.cut = "chunked")

Deliver(id, copied) ==
    /\ todo' = IF alive THEN Append(todo, id) ELSE todo
    /\ forwarded' = Append(forwarded, [id |-> id, over |-> upstream, depth |-> depth,
                                       copied |-> copied])

Forward ==
    /\ pc = "forward"
    /\ CanWrite
    /\ Deliver(req.id, FALSE)
    /\ pc' = "await"
    /\ UNCHANGED <<client, loop, conns, queue, dirty, alive, replies>>

RequestFails == pc \in {"forward", "pass"} /\ (~alive \/ ~CanWrite)

(* Mutation: a request whose upstream hangs up is sent again on a new one. *)
ReadOrRetry ==
    /\ pc = "await"
    /\ \/ /\ queue # <<>> /\ ~dirty
          /\ response' = Head(queue)
          /\ queue' = Tail(queue)
          /\ pc' = IF req.method = "upgrade" /\ Head(queue).status = "switching"
                   THEN "upgrade" ELSE "relay"
          /\ UNCHANGED conns
       \/ /\ queue = <<>> /\ ~alive
          /\ pc' = "route"
          /\ upstream' = 0 /\ open' = open \ {upstream}
          /\ UNCHANGED <<dialled, dials, origin, response, queue>>
    /\ UNCHANGED <<client, taken, depth, todo, dirty, alive, forwarded, replies>>

ReadResponse ==
    /\ pc = "await"
    /\ queue # <<>> /\ ~dirty
    /\ response' = Head(queue)
    /\ queue' = Tail(queue)
    /\ pc' = IF req.method = "upgrade" /\ Head(queue).status = "switching"
             THEN "upgrade" ELSE "relay"
    /\ UNCHANGED <<client, taken, depth, conns, todo, dirty, alive, forwarded, replies>>

(* The upstream has gone, or what comes next is the rest of a body.        *)
ReadResponseFails == pc = "await" /\ (dirty \/ (queue = <<>> /\ ~alive))

(* 101: the answer is written and InspectWS takes the session over; the    *)
(* handler returns when it does.                                           *)
Upgrade ==
    /\ pc = "upgrade"
    /\ Reply(response.for, "switching", NoBody)
    /\ pc' = "websocket"
    /\ UNCHANGED <<client, loop, conns, server, forwarded>>

------------------------------------------------------------------------------
(* DecodeBody, Tamperer.Response, Encode and Write.                        *)
Replaced(verdict) == verdict \in {"new", "inplace"}

decoded == DecodeBody(response.body)

(* The body of finalResponse: a tamperer may put one of its own in it.     *)
FinalBody(verdict) ==
    IF Replaced(verdict) THEN [decoded EXCEPT !.cut = FALSE, !.at = "memory"] ELSE decoded

CanRelay(verdict) == /\ ~EncodeFails(FinalBody(verdict))
                     /\ ~WriteFails(Encode(FinalBody(verdict)))

(* Mutation: the response body is not closed before the next request.      *)
LeavesRestAlways(verdict) == OnConnection(decoded) /\ Replaced(verdict)

(* closeResp drains the body of resp: the upstream's, unless the tamperer  *)
(* has put another body in its place in the same response.                 *)
LeavesRest(verdict) == OnConnection(decoded) /\ verdict = "inplace"

(* Mutation: after a body that cannot be read, the handler goes on.        *)
RelaySkipping ==
    /\ pc = "relay"
    /\ \E verdict \in Verdicts :
          /\ IF CanRelay(verdict)
             THEN Reply(response.for, response.status, Encode(FinalBody(verdict)))
             ELSE UNCHANGED replies
          /\ dirty' = LeavesRest(verdict)
    /\ pc' = "read"
    /\ UNCHANGED <<client, loop, conns, todo, queue, alive, forwarded>>

Relay ==
    /\ pc = "relay"
    /\ \E verdict \in Verdicts :
          /\ CanRelay(verdict)
          /\ Reply(response.for, response.status, Encode(FinalBody(verdict)))
          /\ dirty' = LeavesRest(verdict)
    /\ pc' = "read"
    /\ UNCHANGED <<client, loop, conns, todo, queue, alive, forwarded>>

RelayFails == pc = "relay" /\ \E verdict \in Verdicts : ~CanRelay(verdict)

ClientGone == pc \in {"relay", "upgrade"} /\ left

------------------------------------------------------------------------------
(* Any other host: the request is written, then both directions are copied *)
(* until one of them ends, which closes both connections.                  *)
StartPassthrough ==
    /\ pc = "pass"
    /\ CanWrite
    /\ Deliver(req.id, FALSE)
    /\ pc' = "passing"
    /\ UNCHANGED <<client, loop, conns, queue, dirty, alive, replies>>

CopyRequest ==
    /\ pc = "passing"
    /\ taken < Len(sent)
    /\ taken' = taken + 1
    /\ Deliver(sent[taken + 1].id, TRUE)
    /\ UNCHANGED <<client, pc, depth, response, conns, queue, dirty, alive, replies>>

CopyResponse ==
    /\ pc = "passing"
    /\ queue # <<>>
    /\ queue' = Tail(queue)
    /\ Reply(Head(queue).for, Head(queue).status, Head(queue).body)
    /\ UNCHANGED <<client, pc, loop, conns, todo, dirty, alive, forwarded>>

CopyEnds == pc = "passing" /\ (left \/ (~alive /\ queue = <<>>))

(* Every return of the handler runs its deferred Close of serverTLS.       *)
Return ==
    /\ \/ ReadRequestFails \/ NestFails \/ DialFails \/ RequestFails \/ ReadResponseFails
       \/ RelayFails \/ ClientGone \/ pc = "websocket" \/ CopyEnds
    /\ pc' = "returned"
    /\ open' = open \ {upstream}
    /\ UNCHANGED <<client, loop, upstream, dialled, dials, origin, server, forwarded, replies>>

------------------------------------------------------------------------------
(* The client and the upstream.                                            *)
Answered(id) == \E i \in DOMAIN replies : replies[i].for = id /\ replies[i].status # "interim"

(* A client that cuts a request has left.                                  *)
Send(h, method, cut) ==
    /\ ~left /\ pc # "returned"
    /\ Len(sent) < MaxRequests
    /\ cut # "no" => method = "get"
    /\ \A i \in DOMAIN sent : /\ sent[i].method # "get" => Answered(i)
                              /\ sent[i].method = "upgrade" => pc # "websocket"
    /\ sent' = Append(sent, [id |-> Len(sent) + 1, host |-> h, method |-> method, cut |-> cut])
    /\ left' = (cut # "no")
    /\ UNCHANGED <<pc, loop, conns, server, forwarded, replies>>

Leave == /\ ~left
         /\ left' = TRUE
         /\ UNCHANGED <<sent, pc, loop, conns, server, forwarded, replies>>

(* An answer, or an interim response before it.                            *)
Statuses == {"final"}
    \cup (IF sent[Head(todo)].method = "upgrade" THEN {"switching"} ELSE {})
    \cup (IF Interims /\ \A i \in DOMAIN queue : queue[i].status # "interim"
          THEN {"interim"} ELSE {})

(* An upstream that cuts a body short, or ends one by closing, has closed. *)
Answer(b) ==
    /\ alive
    /\ todo # <<>>
    /\ \E status \in Statuses :
          LET sentBody == IF status = "final" THEN b ELSE NoBody
          IN  /\ todo' = IF status = "interim" THEN todo ELSE Tail(todo)
              /\ queue' = Append(queue, [for |-> Head(todo), status |-> status,
                                         body |-> sentBody])
              /\ alive' = (~sentBody.cut /\ sentBody.delimited # "close")
    /\ UNCHANGED <<client, pc, loop, conns, dirty, forwarded, replies>>

Hangup == /\ alive /\ upstream # 0
          /\ alive' = FALSE
          /\ UNCHANGED <<client, pc, loop, conns, todo, queue, dirty, forwarded, replies>>

------------------------------------------------------------------------------
Handler == \/ ReadRequest \/ Nest \/ Reuse \/ Dial \/ Forward \/ ReadResponse \/ Upgrade
           \/ Relay \/ StartPassthrough \/ CopyRequest \/ CopyResponse \/ Return

Next == \/ Handler
        \/ \E h \in Hosts, method \in {"get", "connect", "upgrade"}, cut \in Cuts \cup {"no"} :
              Send(h, method, cut)
        \/ Leave
        \/ \E b \in Bodies : Answer(b)
        \/ Hangup

Spec == Init /\ [][Next]_vars

(* The scheduler runs the handler.  Nothing makes an upstream answer, and  *)
(* the handler sets no deadline of its own.                                *)
FairSpec == Spec /\ WF_vars(Handler)

------------------------------------------------------------------------------
(* A request goes out on a connection dialled for the host it names, in    *)
(* the tunnel it was read in: never on the one an earlier request or an    *)
(* outer session left behind.  (What a passthrough copies is not read.)    *)
RightUpstream == \A i \in DOMAIN forwarded :
    ~forwarded[i].copied =>
        /\ origin[forwarded[i].over].host = sent[forwarded[i].id].host
        /\ origin[forwarded[i].over].depth = forwarded[i].depth

(* Requests go upstream in the order in which they were read, and none of  *)
(* them twice, over however many connections and tunnels: a request that   *)
(* is not safe to repeat is not repeated when its upstream is replaced.    *)
SentInOrder == \A i, j \in DOMAIN forwarded :
    i < j => forwarded[i].id < forwarded[j].id

Finals == {i \in DOMAIN replies : replies[i].status # "interim"}

(* The client counts responses: the nth it receives is taken as the answer *)
(* to its nth request, so it must be that.                                 *)
RepliesPaired == \A i \in Finals : replies[i].for = Cardinality({j \in Finals : j <= i})

(* At most one upstream connection is open, the one in use, and none when  *)
(* the handler has returned, whichever of its returns it took.             *)
NoUpstreamLeak == /\ open \subseteq {upstream}
                  /\ pc = "returned" => open = {}

(* Between two requests nothing of the previous exchange is left on the    *)
(* upstream: the next response read there answers the next request.        *)
NothingLeftBehind == pc = "read" /\ upstream # 0 => todo = <<>> /\ queue = <<>> /\ ~dirty

(* A body that the upstream sent whole reaches the client whole, however   *)
(* it is delimited and whether or not it could be decompressed for the     *)
(* tamperer to look at.                                                    *)
WholeStaysWhole == \A i \in DOMAIN replies : replies[i].cut \/ replies[i].whole

WaitsForUpstream == pc \in {"await", "passing"} /\ queue = <<>> /\ alive

(* A request the client has sent is answered, or the session ends: only an *)
(* upstream that neither answers nor hangs up can keep the client waiting. *)
EveryRequestAnswered == \A n \in 1 .. MaxRequests :
    n <= Len(sent) ~> \/ Answered(n) \/ pc \in {"websocket", "returned"}
                      \/ []WaitsForUpstream

Session == INSTANCE HttpSession
           WITH mode <- CASE pc = "passing" -> "copy"
                          [] pc \in {"websocket", "returned"} -> "over"
                          [] OTHER -> "serial",
                read <- taken,
                asked <- [i \in DOMAIN forwarded |-> forwarded[i].id],
                answers <- [i \in DOMAIN replies |-> replies[i].for]

(* To client and upstreams the handler is a session that reads, forwards   *)
(* and answers requests one by one: whatever it redials or drops, it never *)
(* sends a request twice and never answers one out of turn.                *)
ImplementsSession == Session!Spec

(* Claims of the source that the code does not keep.                       *)

(* https.go: on a failed body read "drop the connection rather than hand   *)
(* the bot a short body".                                                  *)
NoShortBody == \A i \in DOMAIN replies : replies[i].whole

(* logging.go: Logging "does not modify any payload - its return value is  *)
(* always equal to its input".                                             *)
RequestsUnmodified == \A i \in DOMAIN forwarded :
    ~forwarded[i].copied => sent[forwarded[i].id].cut = "no"
==============================================================================
