# Formal models of hallmaster-proxy

TLA+ models of the proxy's own logic, TLC configurations that check them on
small instances, and TLAPS proofs of their safety properties and refinements for
every value of their parameters. The models
follow the Go code under `src/proxy/internals/`; `PROJECT.json` gives, for each
definition, the lines it stands for.

Contents: 1 the system, 2 modules, 3 runs, 4 proofs, 5 where code and
documentation disagree, 6 what is not modelled, 7 plan.

## 1. The system

hallmaster-proxy sits between Discord bots and Discord. It accepts TCP
connections, terminates TLS with leaf certificates signed on the fly by its own
CA, reads HTTP requests, passes them through a *Tamperer*, sends them to
Discord, and mirrors the responses; after a WebSocket upgrade it relays frames
and inflates the gateway's zlib-stream for the Tamperer.

| Component (source) | State it keeps | Operations | What makes it correct |
|---|---|---|---|
| Listener and TLS termination (`mitm.go`) | context, listener, `ready`; per connection a `bufio.Reader` | `Serve`, its watcher goroutine, `handleHTTPConn`, `Handshake` | no TLS byte lost before the handshake; every accepted connection closed; cancellation stops the loop and not the sessions |
| Leaf certificate cache (`certs/certs.go`) | `sync.Map` of certificates, singleflight group | `GetOrCreateCert` | one build per host at a time; no expired certificate served, no fresh one replaced; callers always answered |
| HTTPS session handler (`handlers/https.go`) | upstream connection and its host, CONNECT depth | request loop, nested CONNECT, dial or reuse, relay, upgrade, passthrough | a request goes to the host and tunnel it names; answers pair with requests; no upstream leaks; nobody waits for ever |
| HTTP body codec (`httpio/`) | none | `DecodeBody`, `Encode` | a whole body stays whole, decoded or not; a cut one is never framed as whole |
| WebSocket pumps (`handlers/ws.go`) | two connections, one goroutine per direction, the decoder | read, tamper, write, close | each direction an ordered relay, compressed frames untouched; the session ends when a side does |
| zlib-stream decoder (`discord/wscompress.go`) | mutex, pipe, zlib reader, one writer goroutine per call | `Decode`, `drain`, `Close` | output in order; writers do not accumulate; `Close` releases all |
| Tamperers (`tamper/`) | none | `Request`, `Response`, `WSIncoming`, `WSOutgoing` | `Logging` changes nothing |
| DNS bypass resolver (`dnsbypass/`) | none | `Resolve` | an address with a port, or an error |
| Health endpoint (`healthz/`) | a goroutine with a listener | `GET /healthz` | a 200 is true; without it the process exits |
| Configuration, start-up, CA loading (`config/`, `main.go`, `certs.New`) | read once | `Load`, `New`, `Listen` | the process serves both its ports or exits |

How they interact: `main` loads the configuration and the CA, starts the health
endpoint in a goroutine and calls `Listen`, which calls `Serve`. `Serve` starts `handleHTTPConn` per connection, which calls
`Handshake` (and through it the certificate cache, shared by all connections)
and then `HttpsHandler`. The handler calls `Handshake` again for nested
CONNECTs, the resolver and the TLS dialer for upstreams, the Tamperer and the
codec for bodies, and hands the two connections to `InspectWS` after a 101.
`InspectWS` owns one decoder; only its Discord-to-bot pump calls `Decode`, and
its deferred `Close` runs after both pumps.

What is hard: callers of the cache race with each other and with the clock;
`Decode` runs two goroutines against an unbuffered pipe and guesses from a
short read that a message is complete; two pumps end each other by closing
connections; the handler keeps an upstream across requests, tunnels and
failures; bodies are read twice, by the codec and by `Write`; the two listeners
bind in a race and the accept loop and its watcher race at shutdown. The full
list, each at its line, is `PROJECT.json` "hazards".

## 2. Modules and how they correspond to the code

**CertStore** is the abstract promise of the cache: one certificate per host,
replaced only inside its renewal window, and each waiting call answered with
what the cache holds at one moment, or refused. It knows nothing of
singleflight, of the second lookup or of the steps of signing.

**CertCache** is `GetOrCreateCert`. A caller (a goroutine in a TLS handshake)
goes `Call`, `Lookup` (first `Load` and `isExpiringSoon`), `Lead` or `Join`
(singleflight), and a leader `Recheck` (second `Load`), `Template`
(`NotAfter` is fixed), `Sign`, `Store` or `Fail`, `Finish` (the flight is
dropped, its followers get the result). `Tick` moves the clock between any two
steps, up to `MaxCall` within a call. `Hosts` are cache keys, `Names` what is
written in certificates: `discord.com` and `discord.com:443` are two keys and
one name. Singleflight is not under `src/`: `Join` and `Followers` model what
its callers rely on. CertCache maps to CertStore by reading "waiting" off the
program counter (`Abstract == INSTANCE CertStore`).

**ZlibStreamDecoder** is `Decode`, `drain` and `Close`. A frame is a sequence of
tokens (zlib header, unit of data, sync flush, corruption). `Lock` takes the
mutex and starts the frame's writer goroutine; `Begin`/`WriteDone` are that
writer, with a gap between the end of its write and its signal; `Fill` is one
read of the pipe by bufio; `Inflate` takes a token and gives up output at a
flush, when the window is full or on corruption; `Read` is one `Read` of drain,
and `Select` its non-blocking look at the signal. `Join` waits for the writer
on the paths that do. A reader that has failed keeps its error. A stream has one
header, so of the frames only the first may begin with one (`FrameAssumption`).

**StreamDecoder** is the abstract promise of the decoder: one call at a time,
each feeding a frame and, if it returns, delivering the next units of the
stream in order, all that earlier frames held when it returns a message. A call
may also never return. ZlibStreamDecoder maps to it by reading the mutex, what
was sent and what was delivered (`Abstract`).

**InspectWS** is the two pumps, written on top of StreamDecoder. Each `Read`s a
frame (tamperer's verdict included: same, rewritten, error); the pump from
Discord hands a binary frame of a compressed session to the decoder
(`Decoder!Begin`) and goes on when the call returns (`Decoded`), which nothing
guarantees. It `Write`s the frame into a connection that holds `SockBuf`
frames, and on a close frame or error `Exit`s, closing the connection it
writes. `Outbound` decides what is forwarded. `Return` waits for both pumps and
only then closes the decoder. Peers send messages, fragments and close frames,
read, disconnect; a connection closed with input unread is reset and loses what
was in flight (`Reset`).

**FrameRelay** is the abstract promise of one direction: frames carried in
order, once, with their opcode, nothing after a close frame or after the end of
the direction; what was carried when it ended may be lost, from the end.
InspectWS maps to it twice, `UpRelay` and `DownRelay`.

**HttpIO** is a body as the handler meets it: how it is delimited, whether its
media type is binary, whether it decompresses, whether its sender cut it, and
where reading it has got to. `DecodeBody` and `Encode` follow the order of the
code (read, rewind, decompress; read again, re-frame), and `ReadFails` and
`Drained` follow the standard library: a body cut short of its Content-Length
reports the error to its first reader and end of body to the second; a cut
chunked one keeps its error.

**HttpsHandler** is one client session: `ReadRequest`, `Nest`, `Reuse`/`Dial`,
`Forward`, `ReadResponse`, `Relay`, `Upgrade` and passthrough. Each way to fail
is a predicate named after what fails (`DialFails`, `RequestFails`,
`RelayFails`, ...), and `Return`, which runs the deferred close, may be taken
where one of them holds. `CanWrite` is what the Logging tamperer and
`finalRequest.Write` make of a request whose client left in the middle of its
body. `open` and `origin` are bookkeeping: which connections are not closed and
for which host and tunnel each was dialled. `Hooked` says whether
`HandlerDeps.DialUpstream` is set, as tests and the stress build do.

**HttpSession** is the abstract promise of the handler, without hosts,
connections, tunnels or bodies: a request is read when those before it have been
answered, is sent upstream at most once and is answered once and in its turn, by
the upstream it was sent to or (a nested CONNECT) by the proxy. A session may turn
into a copy in both directions, and may end at any moment. HttpsHandler maps to it
(`Session`) by projecting what it forwarded and replied to request numbers.

**MITMProxy** is `Serve` and `handleHTTPConn`. `Accept`, `AcceptFails` and
`CheckContext` are the loop, `Watch` the goroutine that closes the listener;
`Fill` is one read into bufio, of however many tokens TCP has delivered, `Peek`
the look at the first byte, `ReadRequest` the CONNECT, `Handshake` reads
through the same buffer. The owner of the listener may close it too. `script` is
bookkeeping: all that a client has to say, so that `HandshakeSeesHello` can
compare it with what is left to be read when the handshake starts.

**Proxy** is the process around it: `LoadConfig`, `LoadCA` and `Listen` are
`main`, `HealthListens`, `HealthFails` and `Probe` the goroutine of `healthz`,
and `Exit` is `os.Exit` from whichever of them, which takes every connection
with it. `Served(...)` runs a step of MITMProxy once `main` has reached it. In
production nobody cancels the context or closes the listener; tests call `Serve`
directly and do both, which is the place "test" of `main`.

**CertCacheProofs**, **ZlibStreamDecoderProofs**, **InspectWSProofs**,
**HttpsHandlerProofs** and **ProxyProofs** each extend the module they are about
(the last one Proxy and with it MITMProxy); see section 4.

The MC modules give the constants values. Operators marked "Mutation" are
variants of the definition that follows them with a plausible bug; nothing uses
them in a model, they are substituted to see that a property notices.

## 3. Runs

| Run | Instance | Shows |
|---|---|---|
| `certcache` | 3 callers, 1 key, window 3 of lifetime 4, clock to 4, fair | `SingleBuild`, `WaitersHaveLeader`, `NeverHandsOutExpired`, `NeverReplaceFresh`, `EveryCallReturns`, and `ImplementsStore` (refinement) |
| `zlib` | 2 callers, 4 frames of 5 kinds, fair | `InOrder`, `WritersJoinedWhileLive`, `AtMostOneMessageLate`, `CloseReleasesWriters`, and `ImplementsDecoder` (refinement) |
| `zlib_truncated` | whole messages only | violated: `FlushedOutputIsComplete` |
| `zlib_fragment` | a message and a fragment | violated: `NonTerminalReturns` |
| `zlib_unblock` | two callers, messages only, fair | violated: `NextDecodeUnblocks` |
| `ws` | 2 frames each way, one frame per socket, fair and reading | `RelayedInOrder`, `BinaryUntouched`, `SessionEnds`, and `ImplementsRelay` (refinement) |
| `ws_rewrite` | the same, text frames too | violated: `CompressedUntouched` |
| `https` | 3 requests, a Discord host, the proxy's own name and another, depth 1, cut requests, five kinds of body, fair | `RightUpstream`, `SentInOrder`, `RepliesPaired`, `NoUpstreamLeak`, `NothingLeftBehind`, `WholeStaysWhole`, `EveryRequestAnswered`, and `ImplementsSession` (refinement) |
| `https_request` | requests cut by their client, Logging | violated: `RequestsUnmodified` |
| `https_short` | a body cut short of its Content-Length | violated: `NoShortBody` |
| `https_interim` | an upstream that sends a 1xx first | violated: `EveryRequestAnswered` |
| `mitm` | 2 clients, 3 kinds of client, 1 passing Accept error, 7 setups and the tests', fair | `HandshakeSeesHello`, `HealthyIsServing`, `SessionsOutliveServe`, `NobodyLeftPending`, `CancelStopsServe`, `GoneIsClosed`, `StartsOrExits`, `HealthyStays` |

Every passing run also checks its module's type invariant (`TypeOK`, in `mitm`
`ProxyTypeOK`).

**Bounds and why they are enough.**

* `certcache`: three callers are a leader, a follower, and one delayed between
  its lookup and its flight while the other two finish. Keys do not interact, and
  the safety properties are proved for any number of both; one key keeps the
  refinement and the liveness within reach without symmetry. With lifetime 4 and
  window 3 a certificate is fresh, then expiring, then expired within the clock's
  horizon, so renewals happen and an expired one would be served if the window
  were not honoured (the mutant `IsExpired` shows it).
* `zlib`: `Bufio = 3`, `ReadSize = 2`, `Window = 4` keep the proportions of
  4096, 8192 and 32768 bytes that matter: a window is a whole number of drain
  reads, one message can end exactly on a read or on the window, and one is
  longer than bufio's buffer. Four frames cover opening, a late message and its
  completion, and what follows a failure.
* `ws`: a frame that is being written while the socket is full, and another
  behind it, are the longest queue that a pump can meet. Frames after that
  repeat it. "Text" frames are left out of this run because a pump treats them
  as it treats continuations; `ws_rewrite` has them.
* `https`: three requests are one that leaves something behind, one that meets
  it, and one after that; two hosts that are intercepted for different
  reasons (Discord's, the proxy's own), one that is not and a tunnel make every
  combination of reuse, redial and passthrough. `MaxConnectDepth` is 1 instead of 4: the code only
  compares the depth with it. The bodies are one of each way to be relayed:
  whole and undecodable, ended by its connection, binary, and cut ones of both
  media types. Clients cut requests of both kinds; what becomes of the chunked
  ones is the subject of `https_request`.
* `mitm`: clients do not interact except through the loop; two of them show one
  pending while another is served. The setups are a sound one, one with a single
  port for both listeners, and one for each kind of failure of `Load` and `New`.

`CHECK_DEADLOCK FALSE` is set where a session really ends (all but the cache).

**Fairness.** Weak fairness on the steps of each goroutine: the Go scheduler
runs what can run. Locks and the accept queue are taken by whoever comes; the
properties do not need strong fairness. Of the environment the runs assume only:
in `ws`, that a peer that stays connected goes on reading (without it a pump may
block in a write for ever, see section 5). In `https` a handshake with the
client completes or fails; of upstreams nothing is assumed, and
`EveryRequestAnswered` excuses only the wait for one that neither answers nor
hangs up (`WaitsForUpstream`, for ever). In `ws` nothing is assumed of `Decode`:
`SessionEnds` excuses only a call that never returns (section 5). In `mitm`
nothing is assumed of a handler in its session: a silent upstream or a hanging
`Decode` may keep one whose client has gone, and `GoneIsClosed` excuses a
connection that stays in its session for ever, and no other. Nothing is assumed of
new calls, of the clock, of frames, of requests, of Accept errors, of probes or
of a cancellation: they may never come.

## 4. Proofs

Every safety property that a passing run checks, and the four refinements, is
also a theorem: for any sets of callers, hosts, clients and frames and any sizes
of buffers, tunnels and clocks that satisfy the assumptions of the modules.

| Theorem | Statement |
|---|---|
| **CertCacheProofs** | |
| `TypeCorrect` | `Spec => []TypeOK` |
| `OneBuilderPerHost` | `Spec => []SingleBuild` |
| `NobodyWaitsAlone` | `Spec => []WaitersHaveLeader` |
| `CertificatesAreValid` | `Spec => []NeverHandsOutExpired` |
| `FreshCertificatesStay` | `Spec => NeverReplaceFresh` |
| `CacheImplementsStore` | `Spec => ImplementsStore` |
| **ZlibStreamDecoderProofs** | |
| `TypeCorrect` | `FairSpec => []TypeOK` |
| `DeliveryInOrder` | `FairSpec => []InOrder` |
| `WritersAreJoined` | `FairSpec => []WritersJoinedWhileLive` |
| `OneMessageLate` | `FairSpec => []AtMostOneMessageLate` |
| `DecoderImplemented` | `FairSpec => ImplementsDecoder` |
| **InspectWSProofs** | |
| `TypeCorrect` | `Spec => []TypeOK` |
| `FramesInOrder` | `Spec => []RelayedInOrder` |
| `BinaryForwardedAsRead` | `Spec => []BinaryUntouched` |
| `SessionImplementsRelays` | `Spec => ImplementsRelay` (both directions) |
| **HttpsHandlerProofs** | |
| `TypeCorrect` | `FairSpec => []TypeOK` |
| `UpstreamIsRight` | `FairSpec => []RightUpstream` |
| `RequestsSentOnce` | `FairSpec => []SentInOrder` |
| `NoUpstreamLeaks` | `FairSpec => []NoUpstreamLeak` |
| `WholeReachesClient` | `FairSpec => []WholeStaysWhole` |
| `NthAnswersNth` | `~Interims` implies `FairSpec => []RepliesPaired` |
| `ExchangesFinish` | `~Interims` and no verdict "inplace" imply `FairSpec => []NothingLeftBehind` |
| `HandlerImplementsSession` | `~Interims` implies `FairSpec => ImplementsSession` |
| **ProxyProofs** | |
| `ProxyTypeCorrect` | `ProxySpec => []ProxyTypeOK` |
| `HandshakeReadsTLS` | `ProxySpec => []HandshakeSeesHello` |
| `HealthyServes` | `ProxySpec => []HealthyIsServing` |
| `SessionsSurviveServe` | `ProxySpec => SessionsOutliveServe` |
| `HealthyForGood` | `ProxySpec => HealthyStays` |

In each module `Invariance` is the theorem that the inductive invariant holds; it
has one lemma per conjunct, with one step per action, and the other theorems
follow from it. A refinement is proved from two facts: initial states map to
initial states, and a step from a state of the invariant maps to a step of the
abstract specification or to a stutter.

**The cache.** That a builder stores a certificate only over an expiring one
depends on what it saw when it rechecked, and that a follower's certificate is
valid depends on when its *leader's* call began. `IndInv` adds to `TypeOK`:

* `CallTimes`: a call in progress has lasted at most `MaxCall`;
* `Flights`: the flight of a host names its one leader, and that leader is
  working for that host (this gives `SingleBuild`), and whoever waits has a flight
  to wait for (with it, `WaitersHaveLeader`);
* `Builders`: between recheck and store, what the cache holds for the host is
  expiring. It stays so, because only the leader writes that slot and the clock
  only moves on (this gives `NeverReplaceFresh`);
* `Signed`: the certificate being stored expires `Validity` after some moment of
  the leader's call;
* `Finished`, `Returned`: lower bounds of `notAfter` relative to when the leader
  and then each follower began.

**The decoder.** What is delivered says nothing about what is still on its way,
and a call leaves tokens in bufio and in inflate for the calls behind it.
`inflated` is all that has come out of the tokens (delivered, in drain's buffer,
given up by inflate, held by inflate) and `pending` all that is to come of the
tokens sent (bufio's, then the latest writer's). `IndInv` adds:

* `Ordered`: the units of `inflated` are 1, 2, 3, ... up to at most what was sent
  (this gives `InOrder`);
* `Continues`: while the stream is live the tokens of `pending` are numbered from
  the end of `inflated` to the last unit sent, without a gap. Drain's short reads,
  the window and bufio move the borders between the four places and the two
  queues and never the numbers;
* `Settled`: while the stream is neither failed nor closed, a writer that has
  finished has written everything, and between calls all have finished (this
  gives `WritersJoinedWhileLive`);
* `EarlierFirst`: a call that reads has inflated all earlier frames, or its own
  is not exhausted and what bufio holds ends where they do. Select returns a
  message only when its writer is done, so then the first holds (this gives
  `AtMostOneMessageLate`);
* `Places`: what each place of `Decode` knows of the reader and the buffers.

The refinement uses `Ordered` (what is delivered is the head of the stream, not
longer than what was fed) and `AtMostOneMessageLate`.

**The pumps.** `IndInv` is, per direction, that the frames received, in the
socket and held by the pump are consecutive numbers of what was sent, and the
unread ones its end (`InOrder`, `Unread`), that a close frame is the last a pump writes
(`CloseLast`), and `Untouched`: a binary frame of a compressed session is as it
was read wherever it is. `RelayStep` then maps each action, with a lemma on how
the queues of frames map to those of FrameRelay.

**The handler.** `RightUpstream` needs to know for whom the connection in use was
dialled in every place between dialling and forwarding, and that connections
are numbered and never dialled again. `NthAnswersNth` has its own invariant
`PairInv`: replies received, the response in hand, those in the upstream's queue
and the requests it has yet to answer are, in this order, numbered like the
requests sent. Its hypothesis is what the run `https_interim` is about: with an
upstream that sends a 1xx first the real response stays behind, and a change of
host then loses it, so the count is off. `ExchangesFinish` (`Clean`) needs
besides that no tamperer replaces the body of a binary response in place. The
Tamperer interface allows that as it allows returning a new response
(`tamper.go:10-11`), but it leaves the original unread (section 5); a tamperer that returns a new response is covered.

`RequestsSentOnce` needs no hypothesis. `Once` says that what has been sent is
numbered up to the latest request read, that this one is not yet among it
in the places before `Forward`, and that what the upstream owes, has queued or
has in the handler's hands was sent; `Growing` is then inductive. The refinement
takes from `PairInv` that a reply is the next in turn, and from `Once` that it
answers what was sent; `Ids` and `Fors` are the projections of its mapping, with
a lemma each for what `Append` becomes.

**The process.** `SessionsSurviveServe` is an action property of the whole process:
of the steps by which an accepted connection moves, each is shown to be one of its
own handler, and to close it before its session only with bytes of its client in
hand or the client gone. `IndInv` adds to `ProxyTypeOK` the two facts `Consumed` (until the
handshake, what is buffered, on the wire and unsent is the client's script, less
the CONNECT request once that is read) and `Served200` (a probe that got 200 found
`Serve` in its loop with the listener open, or the process is gone).

**Assumptions.** `ClockAssumption` requires `RenewBefore > 2 * MaxCall`: a follower
may join a leader at the end of the leader's longest call and then wait a full
call itself. The code's window is 24 hours and a call is one RSA key and one
signature. `FrameAssumption` says that frames are not empty and that only the
first may start with the stream's header, `SizeAssumption` that buffers hold
something. The others say that bounds are numbers, that constants of a kind are
of that kind, and that special values are none of the ordinary ones.

**Only model-checked.** All liveness (`EveryCallReturns`, `CloseReleasesWriters`,
`SessionEnds`, `EveryRequestAnswered`, `NobodyLeftPending`, `CancelStopsServe`,
`GoneIsClosed`, `StartsOrExits`): it rests on fairness and ENABLED, which TLAPS
does not reach.

## 5. Where code and documentation disagree

Each with a run that reproduces it:

* **A frame without a flush hangs the decoder** (`zlib_fragment`). Once the zlib
  reader is open, such a frame is written into a pipe nobody reads; `Decode`
  waits for its writer and holds the mutex, so `Close` waits too. In `InspectWS`
  that keeps the pump, and with it the session, for ever, although the other
  direction has ended and `architecture.md:172` says that both then do: `Close` is
  deferred behind the wait for the pump. It is the case that the last disjunct of
  `SessionEnds` excuses; the run shows that it happens.
* **A hanging drain is not released by the next Decode** (`zlib_unblock`).
  `known-issues.md` section 6 describes the race that makes drain read once more
  than there is output, and says that the next `Decode` unblocks it; that call
  waits for the mutex the first one holds. In the proxy itself one pump makes
  all the calls, so there is no next one. The same happens, without any race, to
  a message whose output is a multiple of drain's buffer: a full read is never
  the last.
* **A decoded message can be cut** (`zlib_truncated`). When inflate's window
  fills in the middle of a message whose writer is done, a short read looks like
  the end. `AtMostOneMessageLate` (run `zlib`) shows how far this goes: the rest
  comes with the next message and nothing is lost.
* **Continuation frames of a compressed session are forwarded as tampered**
  (`ws_rewrite`): only opcode *binary* is held back.
* **A request cut by its client reaches Discord as a complete, empty one**
  (`https_request`). `Logging` puts an empty body in the place of one that fails
  to read. With a Content-Length net/http refuses to write it; as chunks it goes
  out.
* **A short body reaches the bot as a complete, empty one** (`https_short`).
* **A 1xx response is taken for the answer** (`https_interim`): the real one
  stays on the upstream and the client waits.

Met while modelling, and visible in the modules, without a run of their own:

* After the stream has failed, each `Decode` leaves one more blocked writer
  until `Close`, against the promise at `wscompress.go:58-60`
  (`WritersJoinedWhileLive` therefore says "while live").
* `Serve` promises to return when the listener fails for good and `Ready` to be
  true "until the listener is closed" (`mitm.go:77-79`, `95-96`). A listener that
  its owner closes leaves `Serve` in its loop, and ready, until the context is
  cancelled (`CheckContext`; a comment in `mitm_test.go` says so too).
* `wsutil.Write*Message` sets FIN on every frame, so a fragment arrives as a
  whole message (`Outbound`).
* With a peer that is connected and does not read, a pump blocks in a write
  without a deadline and `InspectWS` does not return although the other pump has
  ended (`architecture.md:172`).
* With no `DialUpstream` hook, a host that is not Discord's cannot be dialled:
  the address is the Host header, which needs a port to be dialled and none to be
  a ServerName (`CanDial`; `architecture.md:138`). The `https` run therefore
  sets `Hooked`, or the passthrough would never start.
* Once a session passes through, requests for other hosts go to the first one
  (`CopyRequest`; `https.go:44`).
* A binary body that ends with its connection has no end for the bot: the
  session stays open (`Answer` with a "close" body that is binary is left out of
  the runs).
* A tamperer may mutate the response it is passed (`tamper.go:10-11`,
  `features.md:88`). One that replaces the body of a binary response so, which the
  handler has not read, leaves the original on the upstream: `closeResp`
  (`https.go:201`) closes the new body, and the next response is read from the old
  one (`LeavesRest`). The `https` run has tamperers that return a new response;
  with the verdict "inplace" it finds `NothingLeftBehind` violated.
* Bytes that a client sends behind a *nested* CONNECT without waiting for its
  200, if they are already in the handler's reader, are lost; at the first level
  they are kept (`HandshakeSeesHello`).
* `tamper.go` says that `decodedBody` is nil when decoding failed; a body with an
  encoding that `DecodeBody` does not know is handed over as it is.

## 6. Not modelled

* Decompression and recoding of HTTP bodies, header rewriting, logging and
  formatting: data, not control. A tamperer that rewrites requests: the
  repository has none. Responses to HEAD requests, which `Encode` gives a
  Content-Length of 0.
* The DNS exchange: `Resolves` says whether it succeeds.
* X.509 and RSA, TLS itself: a handshake succeeds or fails.
* The values of the configuration: they are constants of the modules. The stress
  build's overrides (`main_stress.go`).
* The stress harness, the sample bot, the mock and the test helpers: tools around
  the proxy.
* A gateway stream that ends (a final deflate block) and empty frames in
  ZlibStreamDecoder: the gateway sends neither.
* Signals: `Listen` passes a context nobody cancels, so the shutdown that `mitm`
  checks is the one callers of `Serve` get (`known-issues.md`, section 5).
* Memory growth of the certificate cache, which never evicts.

## 7. Plan

1. *Done.* The models: CertStore, CertCache; StreamDecoder, ZlibStreamDecoder;
   FrameRelay, InspectWS; HttpIO, HttpsHandler; MITMProxy, Proxy.
2. *Done.* The proofs of every safety property and of the four refinements.
3. Next: what the abstract specifications promise, proved of them alone
   (StreamDecoder: what has been delivered is a prefix of the stream, and only
   grows; FrameRelay: a peer receives each frame once), and the safety halves of
   liveness properties: that a writer blocked in the pipe has a reader or a `Close`
   ahead of it, that a connection which a client has left is in a phase that
   notices.
