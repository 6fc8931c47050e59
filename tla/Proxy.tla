-------------------------------- MODULE Proxy --------------------------------
(***************************************************************************)
(* The process: main's start-up (main.go, config, certs.New), the health   *)
(* endpoint (healthz) in a goroutine of its own, and MITMProxy, which      *)
(* Listen serves with a context nobody cancels and a listener nobody       *)
(* closes.  Any fatal error ends the process, and with it every            *)
(* connection.  The tests call Serve directly, and may cancel and close.   *)
(***************************************************************************)
EXTENDS MITMProxy

CONSTANT Setups  \* environments and CA files a process may be started with

ASSUME SetupAssumption ==
    \A s \in Setups :
        /\ s.hostname \in {"set", "system", "unknown"}
        /\ {s.certPath, s.keyPath, s.samePort} \subseteq BOOLEAN
        /\ s.cert \in {"good", "missing", "invalid"}
        /\ s.mode \in {"owner", "shared"}
        /\ s.key \in {"pkcs1", "pkcs8", "notRSA", "missing", "invalid"}

NoSetup == "none"

VARIABLES setup,   \* what this process was started with, nothing in a test
          main,    \* where main is; "test" when a test calls Serve instead
          health,  \* the goroutine of healthz
          probe    \* the latest answer to GET /healthz

process == <<setup, main, health, probe>>
all == <<vars, process>>

ProxyTypeOK == /\ TypeOK
               /\ main \in {"load", "certs", "listen", "serve", "exited", "test"}
               /\ health \in {"off", "starting", "up"}
               /\ probe \in {"none", "200", "503"}
               /\ main \in {"load", "certs", "exited", "test"} => health = "off"
               /\ main \in {"load", "certs", "listen"} => serve = "start"

ProxyInit == /\ Init
             /\ \/ main = "load" /\ setup \in Setups
                \/ main = "test" /\ setup = NoSetup
             /\ health = "off"
             /\ probe = "none"

------------------------------------------------------------------------------
(* Hostname falls back to the system's; the ports and the rest have        *)
(* defaults; the CA paths have none.                                       *)
Loads(s) == s.hostname # "unknown" /\ s.certPath /\ s.keyPath

getPublicKey(s) == s.cert = "good"

(* The key file must be its owner's alone, and hold an RSA key.            *)
getPrivateKey(s) == s.mode = "owner" /\ s.key \in {"pkcs1", "pkcs8"}

New(s) == getPublicKey(s) /\ getPrivateKey(s)

(* os.Exit, from whichever goroutine.                                      *)
Exit == /\ main' = "exited"
        /\ health' = "off"
        /\ conn' = [c \in Clients |-> IF conn[c] = "away" THEN "away" ELSE "closed"]
        /\ UNCHANGED <<setup, probe, loop, bytes, gone>>

LoadConfig == /\ main = "load"
              /\ IF Loads(setup)
                 THEN main' = "certs" /\ UNCHANGED <<vars, setup, health, probe>>
                 ELSE Exit

(* The CA is read, the proxy is made, and the health endpoint is started.  *)
LoadCA == /\ main = "certs"
          /\ IF New(setup)
             THEN main' = "listen" /\ health' = "starting" /\ UNCHANGED <<vars, setup, probe>>
             ELSE Exit

(* Listen binds 0.0.0.0:Port, unless healthz has taken that port or        *)
(* another process has.                                                    *)
Listen == /\ main = "listen"
          /\ \/ /\ ~(setup.samePort /\ health = "up")
                /\ main' = "serve"
                /\ UNCHANGED <<vars, setup, health, probe>>
             \/ Exit

(* healthz binds 127.0.0.1:HealthPort, and exits the process if it cannot. *)
HealthListens == /\ health = "starting"
                 /\ ~(setup.samePort /\ main = "serve")
                 /\ health' = "up"
                 /\ UNCHANGED <<vars, setup, main, probe>>

(* Mutation: a health endpoint that cannot listen is only logged.          *)
HealthFailsQuietly == /\ health = "starting"
                      /\ health' = "off"
                      /\ UNCHANGED <<vars, setup, main, probe>>

HealthFails == health # "off" /\ Exit

(* Mutation: GET /healthz answers 200 whatever Ready says.                 *)
ProbeBlindly == /\ health = "up"
                /\ probe' = "200"
                /\ UNCHANGED <<vars, setup, main, health>>

Probe == /\ health = "up"
         /\ probe' = IF ready THEN "200" ELSE "503"
         /\ UNCHANGED <<vars, setup, main, health>>

(* What MITMProxy does once it is served.                                  *)
Served(action) == /\ main \in {"serve", "test"}
                  /\ action
                  /\ UNCHANGED process

ProxyNext == \/ LoadConfig \/ LoadCA \/ Listen \/ HealthListens \/ HealthFails \/ Probe
             \/ Served(Work)
             \/ main = "test" /\ Served(Owner)

(* The scheduler runs every goroutine that can run.  Nothing makes Accept  *)
(* fail on an open listener, no session need end, even when its client has *)
(* gone, and nobody need probe.                                            *)
ProxySpec ==
    /\ ProxyInit /\ [][ProxyNext]_all
    /\ WF_all(LoadConfig) /\ WF_all(LoadCA) /\ WF_all(Listen)
    /\ WF_all(health = "starting" /\ (HealthListens \/ HealthFails))
    /\ WF_all(Served(Start)) /\ WF_all(Served(CheckContext)) /\ WF_all(Served(Watch))
    /\ WF_all(Served(listener = "closed" /\ AcceptFails))
    /\ \A c \in Clients : /\ WF_all(Served(Accept(c)))
                          /\ WF_all(Served(conn[c] # "session" /\ handleHTTPConn(c)))

------------------------------------------------------------------------------
(* healthz.go: a process without a health endpoint would appear unhealthy  *)
(* for ever, so it may not go on: whatever its setup, and in whichever     *)
(* order its two goroutines bind, it comes to serve both ports or exits.   *)
StartsOrExits == main = "load" ~> main = "exited" \/ (health = "up" /\ serve # "start")

(* A probe that is told 200 is told so of a proxy that is accepting.       *)
HealthyIsServing == probe = "200" =>
    main = "exited" \/ (main = "serve" /\ listener = "open" /\ serve \in {"accept", "failed"})

(* mitm.go: handlers in flight are not cancelled.  While the process runs, *)
(* an accepted connection moves in no step of Serve, of its watcher or of  *)
(* the listener's owner, and until its session it is closed only for what  *)
(* its client sent or because it left, never for a context or a listener.  *)
SessionsOutliveServe ==
    [][main' # "exited" =>
         \A c \in Clients : conn[c] \in Accepted /\ conn'[c] # conn[c] =>
             /\ UNCHANGED loop
             /\ conn'[c] = "closed" => conn[c] = "session" \/ c \in gone \/ buffered[c] # <<>>]_all

(* A healthy process stays healthy while Accept errors come and go: no     *)
(* probe is told 503 after one that was told 200.                          *)
HealthyStays == [][probe = "200" => probe' = "200"]_all
==============================================================================
