------------------------------ MODULE CertCache ------------------------------
(***************************************************************************)
(* MITMProxyCerts (internals/certs/certs.go): the in-memory cache of leaf  *)
(* certificates shared by every client connection.  GetOrCreateCert is     *)
(* called from the TLS handshake of each connection, so any number of      *)
(* goroutines run it at once; a sync.Map holds the certificates and        *)
(* singleflight.Group elects one builder per host name.                    *)
(*                                                                         *)
(* Load followed by isExpiringSoon is one step: a certificate is never     *)
(* changed once stored, and a stored one is only replaced when it is       *)
(* already expiring (NeverReplaceFresh), so nothing another goroutine does *)
(* between the two can change the outcome.                                 *)
(***************************************************************************)
EXTENDS Integers, FiniteSets

CONSTANTS Callers,      \* goroutines in the TLS handshake of a connection
          Hosts,        \* the keys of the cache: SNI names or CONNECT hosts
          Names,        \* the DNS names written in certificates
          ServerName,   \* serverNameFromHost, a function from Hosts to Names
          Validity,     \* leafCertValidity
          RenewBefore,  \* leafCertRenewBefore
          MaxCall,      \* the longest a call of GetOrCreateCert may take
          Horizon,      \* bound of the model: the clock stops here
          NoCert,       \* no certificate: an empty cache slot, a nil result
          BuildError,   \* the error createCertificate returned
          NoCaller      \* no flight in progress

(* The renewal window is 24h and a call is an RSA key and a signature: the *)
(* window dwarfs two calls in a row.  A leaf lives longer than the window. *)
ASSUME ClockAssumption ==
    /\ Validity \in Nat /\ RenewBefore \in Nat /\ MaxCall \in Nat /\ Horizon \in Nat
    /\ RenewBefore > 2 * MaxCall
    /\ Validity >= RenewBefore

ASSUME NamesAssumption == ServerName \in [Hosts -> Names]

Cert == [name : Names, notAfter : Nat]

ASSUME NoneAssumption == /\ NoCert \notin Cert
                         /\ BuildError \notin Cert
                         /\ NoCert # BuildError
                         /\ NoCaller \notin Callers

VARIABLES now,      \* the wall clock
          cache,    \* MITMProxyCerts.cache
          flight,   \* MITMProxyCerts.group: the leader of the flight of a host
          pc,       \* where each goroutine is in GetOrCreateCert
          host,     \* its argument
          result,   \* the certificate it holds, or the error
          started   \* the clock when its call began

vars == <<now, cache, flight, pc, host, result, started>>

Leading == {"recheck", "generate", "sign", "store", "finish"}
PCs == {"idle", "lookup", "do", "wait", "returned"} \cup Leading

TypeOK == /\ now \in 0 .. Horizon
          /\ cache \in [Hosts -> Cert \cup {NoCert}]
          /\ flight \in [Hosts -> Callers \cup {NoCaller}]
          /\ pc \in [Callers -> PCs]
          /\ host \in [Callers -> Hosts]
          /\ result \in [Callers -> Cert \cup {NoCert, BuildError}]
          /\ started \in [Callers -> 0 .. Horizon]

(* Mutation: a certificate is renewed only once it has expired.            *)
IsExpired(cert) == cert = NoCert \/ cert.notAfter < now

IsExpiringSoon(cert) == cert = NoCert \/ cert.notAfter - now < RenewBefore

Init == /\ now = 0
        /\ cache = [h \in Hosts |-> NoCert]
        /\ flight = [h \in Hosts |-> NoCaller]
        /\ pc = [c \in Callers |-> "idle"]
        /\ host \in [Callers -> Hosts]
        /\ result = [c \in Callers |-> NoCert]
        /\ started = [c \in Callers |-> 0]

------------------------------------------------------------------------------
(* A handshake asks for the certificate of the SNI name or CONNECT host.   *)
Call(c, h) == /\ pc[c] = "idle"
              /\ pc' = [pc EXCEPT ![c] = "lookup"]
              /\ host' = [host EXCEPT ![c] = h]
              /\ result' = [result EXCEPT ![c] = NoCert]
              /\ started' = [started EXCEPT ![c] = now]
              /\ UNCHANGED <<now, cache, flight>>

(* cache.Load and the freshness test; a miss goes on to singleflight.      *)
Lookup(c) == /\ pc[c] = "lookup"
             /\ IF IsExpiringSoon(cache[host[c]])
                THEN /\ pc' = [pc EXCEPT ![c] = "do"]
                     /\ UNCHANGED result
                ELSE /\ pc' = [pc EXCEPT ![c] = "returned"]
                     /\ result' = [result EXCEPT ![c] = cache[host[c]]]
             /\ UNCHANGED <<now, cache, flight, host, started>>

(* Mutation: no singleflight, every caller that misses builds.             *)
LeadAlways(c) == /\ pc[c] = "do"
                 /\ flight' = [flight EXCEPT ![host[c]] = c]
                 /\ pc' = [pc EXCEPT ![c] = "recheck"]
                 /\ UNCHANGED <<now, cache, host, result, started>>

(* singleflight.Do, first caller: it becomes the leader of the flight.     *)
Lead(c) == /\ pc[c] = "do"
           /\ flight[host[c]] = NoCaller
           /\ flight' = [flight EXCEPT ![host[c]] = c]
           /\ pc' = [pc EXCEPT ![c] = "recheck"]
           /\ UNCHANGED <<now, cache, host, result, started>>

(* singleflight.Do, duplicate caller: it waits for the leader's result.    *)
Join(c) == /\ pc[c] = "do"
           /\ flight[host[c]] # NoCaller
           /\ pc' = [pc EXCEPT ![c] = "wait"]
           /\ UNCHANGED <<now, cache, flight, host, result, started>>

(* Mutation: the closure given to singleflight does not look again.        *)
BuildBlindly(c) == /\ pc[c] = "recheck"
                   /\ pc' = [pc EXCEPT ![c] = "generate"]
                   /\ UNCHANGED <<now, cache, flight, host, result, started>>

(* The leader looks again: a flight may have ended since its Lookup.       *)
Recheck(c) == /\ pc[c] = "recheck"
              /\ IF IsExpiringSoon(cache[host[c]])
                 THEN /\ pc' = [pc EXCEPT ![c] = "generate"]
                      /\ UNCHANGED result
                 ELSE /\ pc' = [pc EXCEPT ![c] = "finish"]
                      /\ result' = [result EXCEPT ![c] = cache[host[c]]]
              /\ UNCHANGED <<now, cache, flight, host, started>>

(* createCertificate reads the clock for NotAfter once the key exists and  *)
(* before the signature, so the clock may move on before the store.        *)
Template(c) == /\ pc[c] = "generate"
               /\ pc' = [pc EXCEPT ![c] = "sign"]
               /\ result' = [result EXCEPT ![c] =
                      [name |-> ServerName[host[c]], notAfter |-> now + Validity]]
               /\ UNCHANGED <<now, cache, flight, host, started>>

Sign(c) == /\ pc[c] = "sign"
           /\ pc' = [pc EXCEPT ![c] = "store"]
           /\ UNCHANGED <<now, cache, flight, host, result, started>>

(* Mutation: the closure does not test createCertificate's error.          *)
StoreError(c) == /\ pc[c] \in {"generate", "sign"}
                 /\ pc' = [pc EXCEPT ![c] = "store"]
                 /\ result' = [result EXCEPT ![c] = BuildError]
                 /\ UNCHANGED <<now, cache, flight, host, started>>

(* Key generation or signing fails: the closure returns without a store.   *)
Fail(c) == /\ pc[c] \in {"generate", "sign"}
           /\ pc' = [pc EXCEPT ![c] = "finish"]
           /\ result' = [result EXCEPT ![c] = BuildError]
           /\ UNCHANGED <<now, cache, flight, host, started>>

(* Mutation: the new certificate is returned but not stored.               *)
ForgetStore(c) == /\ pc[c] = "store"
                  /\ pc' = [pc EXCEPT ![c] = "finish"]
                  /\ UNCHANGED <<now, cache, flight, host, result, started>>

Store(c) == /\ pc[c] = "store"
            /\ cache' = [cache EXCEPT ![host[c]] = result[c]]
            /\ pc' = [pc EXCEPT ![c] = "finish"]
            /\ UNCHANGED <<now, flight, host, result, started>>

Followers(c) == {d \in Callers : pc[d] = "wait" /\ host[d] = host[c]}

(* Mutation: a flight that failed keeps its waiters.                       *)
FinishAlone(c) == /\ pc[c] = "finish"
                  /\ flight' = [flight EXCEPT ![host[c]] = NoCaller]
                  /\ LET done == IF result[c] = BuildError THEN {c} ELSE Followers(c) \cup {c}
                     IN  /\ pc' = [d \in Callers |-> IF d \in done THEN "returned" ELSE pc[d]]
                         /\ result' = [d \in Callers |-> IF d \in done THEN result[c] ELSE result[d]]
                  /\ UNCHANGED <<now, cache, host, started>>

(* singleflight drops the flight and releases its waiters under one lock;  *)
(* the result they read was fixed by the leader and never changes, so they *)
(* receive it here.                                                        *)
Finish(c) == /\ pc[c] = "finish"
             /\ flight' = [flight EXCEPT ![host[c]] = NoCaller]
             /\ LET done == Followers(c) \cup {c}
                IN  /\ pc' = [d \in Callers |-> IF d \in done THEN "returned" ELSE pc[d]]
                    /\ result' = [d \in Callers |-> IF d \in done THEN result[c] ELSE result[d]]
             /\ UNCHANGED <<now, cache, host, started>>

(* The handshake has used the answer; the goroutine may handshake again    *)
(* (a nested CONNECT) or serve another connection.                         *)
Done(c) == /\ pc[c] = "returned"
           /\ pc' = [pc EXCEPT ![c] = "idle"]
           /\ UNCHANGED <<now, cache, flight, host, result, started>>

(* The clock moves at any point of any call, but no call outlives MaxCall. *)
Tick == /\ now < Horizon
        /\ \A c \in Callers : pc[c] # "idle" => now - started[c] < MaxCall
        /\ now' = now + 1
        /\ UNCHANGED <<cache, flight, pc, host, result, started>>

Step(c) == \/ Lookup(c) \/ Lead(c) \/ Join(c) \/ Recheck(c) \/ Template(c)
           \/ Sign(c) \/ Fail(c) \/ Store(c) \/ Finish(c)

Next == \/ Tick
        \/ \E c \in Callers : \/ Step(c)
                              \/ Done(c)
                              \/ \E h \in Hosts : Call(c, h)

Spec == Init /\ [][Next]_vars

(* The Go scheduler runs every runnable goroutine; generating a key and    *)
(* signing terminate.  No fairness is assumed of new calls or of the clock.*)
FairSpec == Spec /\ \A c \in Callers : WF_vars(Step(c))

------------------------------------------------------------------------------
(* At most one goroutine builds a certificate for a host at any time: the  *)
(* promise singleflight is used for (docs/architecture.md, "only one       *)
(* goroutine builds").                                                     *)
SingleBuild == \A c, d \in Callers :
    pc[c] \in Leading /\ pc[d] \in Leading /\ host[c] = host[d] => c = d

(* A certificate handed to a handshake is still valid when the handshake   *)
(* receives it, even though it was judged by another goroutine, at an      *)
(* earlier time, before this caller joined the flight.                     *)
NeverHandsOutExpired == \A c \in Callers :
    pc[c] = "returned" /\ result[c] \in Cert => result[c].notAfter > now

(* A build that lost the race to an earlier flight must notice it: no step *)
(* overwrites a certificate that is outside its renewal window, however    *)
(* long ago the builder decided to build (GetOrCreateCert's second Load).  *)
NeverReplaceFresh ==
    [][\A h \in Hosts : cache'[h] # cache[h] => IsExpiringSoon(cache[h])]_vars

(* A goroutine that waits for a flight of singleflight has one to wait     *)
(* for: somebody is building for its host, and never left without it,      *)
(* whether the build succeeds or fails.                                    *)
WaitersHaveLeader == \A c \in Callers :
    pc[c] = "wait" => \E d \in Callers : pc[d] \in Leading /\ host[d] = host[c]

(* Every call returns, with a certificate or an error: a waiter is never   *)
(* left behind by a leader that failed.                                    *)
EveryCallReturns == \A c \in Callers : pc[c] = "lookup" ~> pc[c] = "returned"

------------------------------------------------------------------------------
(* The abstract store: a caller waits from its call to its answer.         *)
pending == [c \in Callers |-> IF pc[c] \in {"idle", "returned"} THEN {} ELSE {host[c]}]
answer == [c \in Callers |->
    IF pc[c] \in {"idle", "returned"} /\ result[c] # BuildError THEN result[c] ELSE NoCert]

Abstract == INSTANCE CertStore

(* The cache implements the abstract store: whatever the interleaving, an  *)
(* answer is what the cache holds for the asked host at one moment of the  *)
(* call, and the cache only changes by renewals.                           *)
ImplementsStore == Abstract!Spec
==============================================================================
