------------------------------ MODULE CertStore ------------------------------
(***************************************************************************)
(* What the leaf-certificate cache promises to the TLS handshakes that     *)
(* call it, with no mention of singleflight, of the double check or of the *)
(* steps of signing: a certificate per host name, replaced only when it is *)
(* about to expire, and every call answered with what the cache then holds *)
(* (or refused).  CertCache.tla implements this specification.             *)
(***************************************************************************)
EXTENDS Integers

CONSTANTS Callers,      \* the goroutines that handshake with a client
          Hosts,        \* the names certificates are asked for
          Names,        \* the names written in certificates
          ServerName,   \* the host name of a host with its port stripped
          Validity,     \* lifetime of a new leaf certificate
          RenewBefore,  \* the renewal window before NotAfter
          NoCert        \* no certificate

VARIABLES now,      \* the wall clock
          cache,    \* the certificate held for each host
          pending,  \* the host each caller is waiting for, or the caller is idle
          answer    \* what each caller was last answered

vars == <<now, cache, pending, answer>>

Leaf(h, expiry) == [name |-> ServerName[h], notAfter |-> expiry]

ExpiringSoon(h) == cache[h] = NoCert \/ cache[h].notAfter - now < RenewBefore

Init == /\ now = 0
        /\ cache = [h \in Hosts |-> NoCert]
        /\ pending = [c \in Callers |-> {}]
        /\ answer = [c \in Callers |-> NoCert]

Request(c, h) == /\ pending[c] = {}
                 /\ pending' = [pending EXCEPT ![c] = {h}]
                 /\ answer' = [answer EXCEPT ![c] = NoCert]
                 /\ UNCHANGED <<now, cache>>

(* A certificate is replaced only inside its renewal window.               *)
Renew(h) == /\ ExpiringSoon(h)
            /\ \E expiry \in now .. now + Validity :
                  cache' = [cache EXCEPT ![h] = Leaf(h, expiry)]
            /\ UNCHANGED <<now, pending, answer>>

(* Every caller of S waits for h and is answered with what the cache holds *)
(* for h at this very moment.                                              *)
Serve(h, S) == /\ cache[h] # NoCert
               /\ \A c \in S : pending[c] = {h}
               /\ answer' = [c \in Callers |-> IF c \in S THEN cache[h] ELSE answer[c]]
               /\ pending' = [c \in Callers |-> IF c \in S THEN {} ELSE pending[c]]
               /\ UNCHANGED <<now, cache>>

(* The build failed: its callers are answered with no certificate.         *)
Refuse(h, S) == /\ \A c \in S : pending[c] = {h}
                /\ pending' = [c \in Callers |-> IF c \in S THEN {} ELSE pending[c]]
                /\ UNCHANGED <<now, cache, answer>>

Tick == /\ now' = now + 1
        /\ UNCHANGED <<cache, pending, answer>>

Next == \/ Tick
        \/ \E h \in Hosts : Renew(h)
        \/ \E h \in Hosts, c \in Callers : Request(c, h)
        \/ \E h \in Hosts, S \in SUBSET Callers : Serve(h, S) \/ Refuse(h, S)

Spec == Init /\ [][Next]_vars
==============================================================================
