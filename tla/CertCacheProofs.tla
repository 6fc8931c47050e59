--------------------------- MODULE CertCacheProofs ---------------------------
(***************************************************************************)
(* Proofs about CertCache, for any number of goroutines and host names and *)
(* any clock parameters that satisfy ClockAssumption.                      *)
(***************************************************************************)
EXTENDS CertCache, TLAPS

(* A call in progress has lasted at most MaxCall.                          *)
CallTimes == \A c \in Callers :
    /\ started[c] <= now
    /\ pc[c] # "idle" => now - started[c] <= MaxCall

(* The flight of a host names its one leader, and waiters have a leader.   *)
Flights ==
    /\ \A c \in Callers : pc[c] \in Leading => flight[host[c]] = c
    /\ \A h \in Hosts : flight[h] # NoCaller =>
          pc[flight[h]] \in Leading /\ host[flight[h]] = h
    /\ \A c \in Callers : pc[c] = "wait" => flight[host[c]] # NoCaller

(* A builder found the cached certificate expiring, and it stays so.       *)
Builders == \A c \in Callers :
    pc[c] \in {"generate", "sign", "store"} => IsExpiringSoon(cache[host[c]])

(* What a leader holds: its new leaf, then what the cache holds.           *)
Signed == \A c \in Callers : pc[c] \in {"sign", "store"} =>
    \E t \in started[c] .. now :
        result[c] = [name |-> ServerName[host[c]], notAfter |-> t + Validity]

Finished == \A c \in Callers : pc[c] = "finish" =>
    \/ result[c] = BuildError
    \/ /\ result[c] = cache[host[c]]
       /\ result[c] \in Cert
       /\ result[c].notAfter >= started[c] + RenewBefore

(* A follower's leader may have begun up to MaxCall before the follower.   *)
Returned == \A c \in Callers : pc[c] = "returned" =>
    \/ result[c] = BuildError
    \/ /\ result[c] \in Cert
       /\ result[c].notAfter + MaxCall >= started[c] + RenewBefore

IndInv == /\ TypeOK /\ CallTimes /\ Flights /\ Builders
          /\ Signed /\ Finished /\ Returned

------------------------------------------------------------------------------
(* Every variable keeps its type through every step of GetOrCreateCert.    *)
LEMMA TypeStep == TypeOK /\ Signed /\ [Next]_vars => TypeOK'
<1> SUFFICES ASSUME TypeOK, Signed, [Next]_vars PROVE TypeOK'
    OBVIOUS
<1> USE ClockAssumption, NamesAssumption, NoneAssumption DEF TypeOK
<1>1. CASE Tick
    BY <1>1 DEF Tick
<1>2. ASSUME NEW c \in Callers, NEW h \in Hosts, Call(c, h) PROVE TypeOK'
    BY <1>2 DEF Call, PCs
<1>3. ASSUME NEW c \in Callers, Lookup(c) PROVE TypeOK'
    BY <1>3 DEF Lookup, PCs, IsExpiringSoon
<1>4. ASSUME NEW c \in Callers, Lead(c) PROVE TypeOK'
    BY <1>4 DEF Lead, PCs, Leading
<1>5. ASSUME NEW c \in Callers, Join(c) PROVE TypeOK'
    BY <1>5 DEF Join, PCs
<1>6. ASSUME NEW c \in Callers, Recheck(c) PROVE TypeOK'
    BY <1>6 DEF Recheck, PCs, Leading, IsExpiringSoon
<1>7. ASSUME NEW c \in Callers, Template(c) PROVE TypeOK'
  <2>1. [name |-> ServerName[host[c]], notAfter |-> now + Validity] \in Cert
      BY DEF Cert
  <2> QED BY <1>7, <2>1 DEF Template, PCs, Leading
<1>8. ASSUME NEW c \in Callers, Sign(c) PROVE TypeOK'
    BY <1>8 DEF Sign, PCs, Leading
<1>9. ASSUME NEW c \in Callers, Fail(c) PROVE TypeOK'
    BY <1>9 DEF Fail, PCs, Leading
<1>10. ASSUME NEW c \in Callers, Store(c) PROVE TypeOK'
  <2>1. result[c] \in Cert
      BY <1>10 DEF Store, Signed, Cert
  <2> QED BY <1>10, <2>1 DEF Store, PCs, Leading
<1>11. ASSUME NEW c \in Callers, Finish(c) PROVE TypeOK'
    BY <1>11 DEF Finish, Followers, PCs
<1>12. ASSUME NEW c \in Callers, Done(c) PROVE TypeOK'
    BY <1>12 DEF Done, PCs
<1>13. CASE UNCHANGED vars
    BY <1>13 DEF vars
<1> QED BY <1>1, <1>2, <1>3, <1>4, <1>5, <1>6, <1>7, <1>8, <1>9, <1>10, <1>11, <1>12,
        <1>13
        DEF Next, Step

(* Tick's guard keeps every call within MaxCall.                           *)
LEMMA CallTimesStep == TypeOK /\ CallTimes /\ [Next]_vars => CallTimes'
<1> SUFFICES ASSUME TypeOK, CallTimes, [Next]_vars PROVE CallTimes'
    OBVIOUS
<1> USE ClockAssumption, NoneAssumption DEF TypeOK, CallTimes
<1>1. CASE Tick
    BY <1>1 DEF Tick
<1>2. ASSUME NEW c \in Callers, NEW h \in Hosts, Call(c, h) PROVE CallTimes'
    BY <1>2 DEF Call
<1>3. ASSUME NEW c \in Callers, Lookup(c) PROVE CallTimes'
    BY <1>3 DEF Lookup
<1>4. ASSUME NEW c \in Callers, Lead(c) PROVE CallTimes'
    BY <1>4 DEF Lead
<1>5. ASSUME NEW c \in Callers, Join(c) PROVE CallTimes'
    BY <1>5 DEF Join
<1>6. ASSUME NEW c \in Callers, Recheck(c) PROVE CallTimes'
    BY <1>6 DEF Recheck
<1>7. ASSUME NEW c \in Callers, Template(c) PROVE CallTimes'
    BY <1>7 DEF Template
<1>8. ASSUME NEW c \in Callers, Sign(c) PROVE CallTimes'
    BY <1>8 DEF Sign
<1>9. ASSUME NEW c \in Callers, Fail(c) PROVE CallTimes'
    BY <1>9 DEF Fail
<1>10. ASSUME NEW c \in Callers, Store(c) PROVE CallTimes'
    BY <1>10 DEF Store
<1>11. ASSUME NEW c \in Callers, Finish(c) PROVE CallTimes'
    BY <1>11 DEF Finish, Followers
<1>12. ASSUME NEW c \in Callers, Done(c) PROVE CallTimes'
    BY <1>12 DEF Done
<1>13. CASE UNCHANGED vars
    BY <1>13 DEF vars
<1> QED BY <1>1, <1>2, <1>3, <1>4, <1>5, <1>6, <1>7, <1>8, <1>9, <1>10, <1>11, <1>12,
        <1>13
        DEF Next, Step

(* Only Lead opens a flight and only its leader's Finish closes it.        *)
LEMMA FlightsStep == TypeOK /\ Flights /\ [Next]_vars => Flights'
<1> SUFFICES ASSUME TypeOK, Flights, [Next]_vars PROVE Flights'
    OBVIOUS
<1> USE ClockAssumption, NoneAssumption DEF TypeOK, Flights, Leading
<1>1. CASE Tick
    BY <1>1 DEF Tick
<1>2. ASSUME NEW c \in Callers, NEW h \in Hosts, Call(c, h) PROVE Flights'
    BY <1>2 DEF Call
<1>3. ASSUME NEW c \in Callers, Lookup(c) PROVE Flights'
    BY <1>3 DEF Lookup
<1>4. ASSUME NEW c \in Callers, Lead(c) PROVE Flights'
    BY <1>4 DEF Lead
<1>5. ASSUME NEW c \in Callers, Join(c) PROVE Flights'
    BY <1>5 DEF Join
<1>6. ASSUME NEW c \in Callers, Recheck(c) PROVE Flights'
    BY <1>6 DEF Recheck
<1>7. ASSUME NEW c \in Callers, Template(c) PROVE Flights'
    BY <1>7 DEF Template
<1>8. ASSUME NEW c \in Callers, Sign(c) PROVE Flights'
    BY <1>8 DEF Sign
<1>9. ASSUME NEW c \in Callers, Fail(c) PROVE Flights'
    BY <1>9 DEF Fail
<1>10. ASSUME NEW c \in Callers, Store(c) PROVE Flights'
    BY <1>10 DEF Store
<1>11. ASSUME NEW c \in Callers, Finish(c) PROVE Flights'
    BY <1>11 DEF Finish, Followers
<1>12. ASSUME NEW c \in Callers, Done(c) PROVE Flights'
    BY <1>12 DEF Done
<1>13. CASE UNCHANGED vars
    BY <1>13 DEF vars
<1> QED BY <1>1, <1>2, <1>3, <1>4, <1>5, <1>6, <1>7, <1>8, <1>9, <1>10, <1>11, <1>12,
        <1>13
        DEF Next, Step

(* The one store that could refresh a host under a builder is its own.     *)
LEMMA BuildersStep == TypeOK /\ Flights /\ Builders /\ [Next]_vars => Builders'
<1> SUFFICES ASSUME TypeOK, Flights, Builders, [Next]_vars PROVE Builders'
    OBVIOUS
<1> USE ClockAssumption, NoneAssumption DEF TypeOK, Flights, Leading, IsExpiringSoon, Builders, Cert
<1>1. CASE Tick
    BY <1>1 DEF Tick
<1>2. ASSUME NEW c \in Callers, NEW h \in Hosts, Call(c, h) PROVE Builders'
    BY <1>2 DEF Call
<1>3. ASSUME NEW c \in Callers, Lookup(c) PROVE Builders'
    BY <1>3 DEF Lookup
<1>4. ASSUME NEW c \in Callers, Lead(c) PROVE Builders'
    BY <1>4 DEF Lead
<1>5. ASSUME NEW c \in Callers, Join(c) PROVE Builders'
    BY <1>5 DEF Join
<1>6. ASSUME NEW c \in Callers, Recheck(c) PROVE Builders'
    BY <1>6 DEF Recheck
<1>7. ASSUME NEW c \in Callers, Template(c) PROVE Builders'
    BY <1>7 DEF Template
<1>8. ASSUME NEW c \in Callers, Sign(c) PROVE Builders'
    BY <1>8 DEF Sign
<1>9. ASSUME NEW c \in Callers, Fail(c) PROVE Builders'
    BY <1>9 DEF Fail
<1>10. ASSUME NEW c \in Callers, Store(c) PROVE Builders'
    BY <1>10 DEF Store
<1>11. ASSUME NEW c \in Callers, Finish(c) PROVE Builders'
    BY <1>11 DEF Finish, Followers
<1>12. ASSUME NEW c \in Callers, Done(c) PROVE Builders'
    BY <1>12 DEF Done
<1>13. CASE UNCHANGED vars
    BY <1>13 DEF vars
<1> QED BY <1>1, <1>2, <1>3, <1>4, <1>5, <1>6, <1>7, <1>8, <1>9, <1>10, <1>11, <1>12,
        <1>13
        DEF Next, Step

(* A signed leaf is kept until it is stored, and its age only grows.       *)
LEMMA SignedStep == TypeOK /\ CallTimes /\ Signed /\ [Next]_vars => Signed'
<1> SUFFICES ASSUME TypeOK, CallTimes, Signed, [Next]_vars PROVE Signed'
    OBVIOUS
<1>0. ASSUME UNCHANGED <<now, host, started>>,
             \A d \in Callers : pc'[d] \in {"sign", "store"} =>
                 pc[d] \in {"sign", "store"} /\ result'[d] = result[d]
      PROVE  Signed'
    BY <1>0 DEF Signed
<1> USE ClockAssumption, NoneAssumption DEF TypeOK, CallTimes, Signed
<1>1. CASE Tick
  <2>1. /\ now \in Nat /\ now' = now + 1 /\ started \in [Callers -> Nat]
        /\ UNCHANGED <<pc, host, result, started>>
      BY <1>1 DEF Tick
  <2>2. \A c \in Callers : started[c] .. now \subseteq started[c] .. now'
      BY <2>1
  <2> QED BY <2>1, <2>2
<1>2. ASSUME NEW c \in Callers, NEW h \in Hosts, Call(c, h) PROVE Signed'
    BY <1>2 DEF Call
<1>3. ASSUME NEW c \in Callers, Lookup(c) PROVE Signed'
    BY <1>0, <1>3 DEF Lookup
<1>4. ASSUME NEW c \in Callers, Lead(c) PROVE Signed'
    BY <1>0, <1>4 DEF Lead
<1>5. ASSUME NEW c \in Callers, Join(c) PROVE Signed'
    BY <1>0, <1>5 DEF Join
<1>6. ASSUME NEW c \in Callers, Recheck(c) PROVE Signed'
    BY <1>0, <1>6 DEF Recheck
<1>7. ASSUME NEW c \in Callers, Template(c) PROVE Signed'
    BY <1>7 DEF Template
<1>8. ASSUME NEW c \in Callers, Sign(c) PROVE Signed'
    BY <1>0, <1>8 DEF Sign
<1>9. ASSUME NEW c \in Callers, Fail(c) PROVE Signed'
    BY <1>0, <1>9 DEF Fail
<1>10. ASSUME NEW c \in Callers, Store(c) PROVE Signed'
    BY <1>0, <1>10 DEF Store
<1>11. ASSUME NEW c \in Callers, Finish(c) PROVE Signed'
    BY <1>11 DEF Finish, Followers
<1>12. ASSUME NEW c \in Callers, Done(c) PROVE Signed'
    BY <1>0, <1>12 DEF Done
<1>13. CASE UNCHANGED vars
    BY <1>13 DEF vars
<1> QED BY <1>1, <1>2, <1>3, <1>4, <1>5, <1>6, <1>7, <1>8, <1>9, <1>10, <1>11, <1>12,
        <1>13
        DEF Next, Step

(* A finished leader holds what it read in its recheck or has just stored. *)
LEMMA FinishedStep == TypeOK /\ CallTimes /\ Flights /\ Signed /\ Finished /\ [Next]_vars => Finished'
<1> SUFFICES ASSUME TypeOK, CallTimes, Flights, Signed, Finished, [Next]_vars PROVE Finished'
    OBVIOUS
<1> USE ClockAssumption, NoneAssumption DEF TypeOK, CallTimes, Flights, Leading, Finished
<1>1. CASE Tick
    BY <1>1 DEF Tick
<1>2. ASSUME NEW c \in Callers, NEW h \in Hosts, Call(c, h) PROVE Finished'
    BY <1>2 DEF Call
<1>3. ASSUME NEW c \in Callers, Lookup(c) PROVE Finished'
    BY <1>3 DEF Lookup
<1>4. ASSUME NEW c \in Callers, Lead(c) PROVE Finished'
    BY <1>4 DEF Lead
<1>5. ASSUME NEW c \in Callers, Join(c) PROVE Finished'
    BY <1>5 DEF Join
<1>6. ASSUME NEW c \in Callers, Recheck(c) PROVE Finished'
    BY <1>6 DEF Recheck, IsExpiringSoon, Cert
<1>7. ASSUME NEW c \in Callers, Template(c) PROVE Finished'
    BY <1>7 DEF Template
<1>8. ASSUME NEW c \in Callers, Sign(c) PROVE Finished'
    BY <1>8 DEF Sign
<1>9. ASSUME NEW c \in Callers, Fail(c) PROVE Finished'
    BY <1>9 DEF Fail
<1>10. ASSUME NEW c \in Callers, Store(c) PROVE Finished'
  <2>1. result[c] = cache'[host[c]] /\ result[c] \in Cert
        /\ result[c].notAfter >= started[c] + RenewBefore
    <3>1. PICK t \in started[c] .. now :
              result[c] = [name |-> ServerName[host[c]], notAfter |-> t + Validity]
        BY <1>10 DEF Store, Signed
    <3>2. result[c] \in Cert /\ result[c].notAfter >= started[c] + RenewBefore
        BY <3>1, NamesAssumption DEF Cert
    <3>3. result[c] = cache'[host[c]]
        BY <1>10 DEF Store
    <3> QED BY <3>2, <3>3
  <2>2. ASSUME NEW d \in Callers, d # c, pc'[d] = "finish" PROVE host[d] # host[c]
      BY <1>10, <2>2 DEF Store
  <2> QED BY <1>10, <2>1, <2>2 DEF Store
<1>11. ASSUME NEW c \in Callers, Finish(c) PROVE Finished'
    BY <1>11 DEF Finish, Followers
<1>12. ASSUME NEW c \in Callers, Done(c) PROVE Finished'
    BY <1>12 DEF Done
<1>13. CASE UNCHANGED vars
    BY <1>13 DEF vars
<1> QED BY <1>1, <1>2, <1>3, <1>4, <1>5, <1>6, <1>7, <1>8, <1>9, <1>10, <1>11, <1>12,
        <1>13
        DEF Next, Step

(* Followers take over the leader's answer, which may be MaxCall older.    *)
LEMMA ReturnedStep == TypeOK /\ CallTimes /\ Flights /\ Finished /\ Returned /\ [Next]_vars => Returned'
<1> SUFFICES ASSUME TypeOK, CallTimes, Flights, Finished, Returned, [Next]_vars PROVE Returned'
    OBVIOUS
<1> USE ClockAssumption, NoneAssumption DEF TypeOK, CallTimes, Flights, Finished, Returned, Leading, Cert
<1>1. CASE Tick
    BY <1>1 DEF Tick
<1>2. ASSUME NEW c \in Callers, NEW h \in Hosts, Call(c, h) PROVE Returned'
    BY <1>2 DEF Call
<1>3. ASSUME NEW c \in Callers, Lookup(c) PROVE Returned'
    BY <1>3 DEF Lookup, IsExpiringSoon
<1>4. ASSUME NEW c \in Callers, Lead(c) PROVE Returned'
    BY <1>4 DEF Lead
<1>5. ASSUME NEW c \in Callers, Join(c) PROVE Returned'
    BY <1>5 DEF Join
<1>6. ASSUME NEW c \in Callers, Recheck(c) PROVE Returned'
    BY <1>6 DEF Recheck
<1>7. ASSUME NEW c \in Callers, Template(c) PROVE Returned'
    BY <1>7 DEF Template
<1>8. ASSUME NEW c \in Callers, Sign(c) PROVE Returned'
    BY <1>8 DEF Sign
<1>9. ASSUME NEW c \in Callers, Fail(c) PROVE Returned'
    BY <1>9 DEF Fail
<1>10. ASSUME NEW c \in Callers, Store(c) PROVE Returned'
    BY <1>10 DEF Store
<1>11. ASSUME NEW c \in Callers, Finish(c) PROVE Returned'
    BY <1>11 DEF Finish, Followers
<1>12. ASSUME NEW c \in Callers, Done(c) PROVE Returned'
    BY <1>12 DEF Done
<1>13. CASE UNCHANGED vars
    BY <1>13 DEF vars
<1> QED BY <1>1, <1>2, <1>3, <1>4, <1>5, <1>6, <1>7, <1>8, <1>9, <1>10, <1>11, <1>12,
        <1>13
        DEF Next, Step

------------------------------------------------------------------------------
(* The conjunction of the lemmas: the strengthened invariant is inductive. *)
LEMMA Invariance == Spec => []IndInv
<1>1. Init => IndInv
    BY ClockAssumption, NoneAssumption
       DEF Init, IndInv, TypeOK, PCs, Leading, CallTimes, Flights, Builders, Signed,
           Finished, Returned
<1>2. IndInv /\ [Next]_vars => IndInv'
    BY TypeStep, CallTimesStep, FlightsStep, BuildersStep, SignedStep, FinishedStep,
       ReturnedStep DEF IndInv
<1> QED BY <1>1, <1>2, PTL DEF Spec

(* The cache only ever holds certificates, and a flight's leader is a      *)
(* goroutine inside the closure given to singleflight.                     *)
THEOREM TypeCorrect == Spec => []TypeOK
    BY Invariance, PTL DEF IndInv

(* However many goroutines ask for a host, one at a time builds for it.    *)
THEOREM OneBuilderPerHost == Spec => []SingleBuild
<1>1. IndInv => SingleBuild
    BY DEF IndInv, Flights, SingleBuild
<1> QED BY <1>1, Invariance, PTL

(* A goroutine that waits for another one to build the certificate is not  *)
(* left without one that does, even when the build fails.                  *)
THEOREM NobodyWaitsAlone == Spec => []WaitersHaveLeader
<1>1. IndInv => WaitersHaveLeader
  <2> SUFFICES ASSUME IndInv, NEW c \in Callers, pc[c] = "wait"
               PROVE  \E d \in Callers : pc[d] \in Leading /\ host[d] = host[c]
      BY DEF WaitersHaveLeader
  <2> DEFINE d == flight[host[c]]
  <2>1. d \in Callers /\ pc[d] \in Leading /\ host[d] = host[c]
      BY DEF IndInv, TypeOK, Flights
  <2> QED BY <2>1
<1> QED BY <1>1, Invariance, PTL

(* With a renewal window longer than two calls, no handshake is ever given *)
(* an expired certificate, whoever judged it and whenever.                 *)
THEOREM CertificatesAreValid == Spec => []NeverHandsOutExpired
<1>1. IndInv => NeverHandsOutExpired
  <2> SUFFICES ASSUME IndInv, NEW c \in Callers, pc[c] = "returned", result[c] \in Cert
               PROVE result[c].notAfter > now
      BY DEF NeverHandsOutExpired
  <2>1. result[c].notAfter + MaxCall >= started[c] + RenewBefore
      BY NoneAssumption DEF IndInv, Returned
  <2>2. now \in Int /\ started[c] \in Int /\ result[c].notAfter \in Int
        /\ now - started[c] <= MaxCall
      BY ClockAssumption DEF IndInv, TypeOK, CallTimes, Cert
  <2> QED BY <2>1, <2>2, ClockAssumption
<1> QED BY <1>1, Invariance, PTL

(* Only a builder stores, and what it replaces is still expiring.          *)
THEOREM FreshCertificatesStay == Spec => NeverReplaceFresh
<1> DEFINE Kept == \A h \in Hosts : cache'[h] # cache[h] => IsExpiringSoon(cache[h])
<1>1. IndInv /\ [Next]_vars => [Kept]_vars
  <2> SUFFICES ASSUME IndInv, Next PROVE Kept
      OBVIOUS
  <2>1. ASSUME NEW c \in Callers, Store(c) PROVE Kept
      BY <2>1 DEF IndInv, TypeOK, Store, Builders
  <2>2. CASE cache' = cache
      BY <2>2
  <2> QED BY <2>1, <2>2 DEF Next, Step, Tick, Done, Call, Lookup, Lead, Join, Recheck,
             Template, Sign, Fail, Finish
<1> QED BY <1>1, Invariance, PTL DEF Spec, NeverReplaceFresh

------------------------------------------------------------------------------
(* The refinement of CertStore, one step at a time.                        *)
LEMMA StepRefines == IndInv /\ Next => [Abstract!Next]_(Abstract!vars)
<1> SUFFICES ASSUME IndInv, Next PROVE Abstract!Next \/ UNCHANGED Abstract!vars
    OBVIOUS
<1> USE ClockAssumption, NamesAssumption, NoneAssumption DEF IndInv, TypeOK
<1>1. CASE Tick
    BY <1>1 DEF Tick, Abstract!Next, Abstract!Tick, pending, answer
<1>2. ASSUME NEW c \in Callers, NEW h \in Hosts, Call(c, h) PROVE Abstract!Request(c, h)
    BY <1>2 DEF Call, Abstract!Request, pending, answer
<1>3. ASSUME NEW c \in Callers, Lookup(c) PROVE Abstract!Next \/ UNCHANGED Abstract!vars
  <2>1. CASE IsExpiringSoon(cache[host[c]])
      BY <1>3, <2>1 DEF Lookup, Abstract!vars, pending, answer
  <2>2. CASE ~IsExpiringSoon(cache[host[c]])
    <3>1. Abstract!Serve(host[c], {c})
        BY <1>3, <2>2 DEF Lookup, IsExpiringSoon, Abstract!Serve, pending, answer
    <3> QED BY <3>1 DEF Abstract!Next
  <2> QED BY <2>1, <2>2
<1>4. ASSUME NEW c \in Callers,
             Lead(c) \/ Join(c) \/ Recheck(c) \/ Template(c) \/ Sign(c) \/ Fail(c) \/ Done(c)
      PROVE UNCHANGED Abstract!vars
  <2>1. UNCHANGED <<now, cache>>
      BY <1>4 DEF Lead, Join, Recheck, Template, Sign, Fail, Done
  <2>2. pending' = pending
      BY <1>4 DEF Lead, Join, Recheck, Template, Sign, Fail, Done, pending
  <2>3. answer' = answer
      BY <1>4 DEF Lead, Join, Recheck, Template, Sign, Fail, Done, answer
  <2> QED BY <2>1, <2>2, <2>3 DEF Abstract!vars
<1>5. ASSUME NEW c \in Callers, Store(c) PROVE Abstract!Renew(host[c])
  <2>1. PICK t \in started[c] .. now :
            result[c] = [name |-> ServerName[host[c]], notAfter |-> t + Validity]
      BY <1>5 DEF Store, Signed
  <2>2. t + Validity \in now .. now + Validity
      BY <1>5 DEF Store, CallTimes
  <2>3. cache' = [cache EXCEPT ![host[c]] = Abstract!Leaf(host[c], t + Validity)]
      BY <1>5, <2>1 DEF Store, Abstract!Leaf
  <2>4. Abstract!ExpiringSoon(host[c])
      BY <1>5 DEF Store, Builders, IsExpiringSoon, Abstract!ExpiringSoon
  <2>5. UNCHANGED <<now, pending, answer>>
      BY <1>5 DEF Store, pending, answer
  <2> QED BY <2>2, <2>3, <2>4, <2>5 DEF Abstract!Renew
<1>6. ASSUME NEW c \in Callers, Finish(c)
      PROVE \E S \in SUBSET Callers : Abstract!Serve(host[c], S) \/ Abstract!Refuse(host[c], S)
  <2> DEFINE S == Followers(c) \cup {c}
  <2>1. S \in SUBSET Callers /\ \A d \in S : pending[d] = {host[c]}
      BY <1>6 DEF Finish, Followers, pending
  <2>2. pending' = [d \in Callers |-> IF d \in S THEN {} ELSE pending[d]]
      BY <1>6 DEF Finish, Followers, pending
  <2>3. CASE result[c] = BuildError
    <3>1. answer' = answer
        BY <1>6, <2>3 DEF Finish, Followers, answer
    <3> QED BY <1>6, <2>1, <2>2, <3>1 DEF Finish, Abstract!Refuse
  <2>4. CASE result[c] # BuildError
    <3>1. result[c] = cache[host[c]] /\ cache[host[c]] \in Cert
        BY <1>6, <2>4 DEF Finish, Finished
    <3>2. answer' = [d \in Callers |-> IF d \in S THEN cache[host[c]] ELSE answer[d]]
        BY <1>6, <2>4, <3>1 DEF Finish, Followers, answer
    <3> QED BY <1>6, <2>1, <2>2, <3>1, <3>2 DEF Finish, Abstract!Serve
  <2> QED BY <2>1, <2>3, <2>4
<1> QED BY <1>1, <1>2, <1>3, <1>4, <1>5, <1>6 DEF Next, Step, Abstract!Next

(* GetOrCreateCert, with singleflight and its two cache lookups, behaves   *)
(* as the atomic store: an answer is the cached certificate of the asked   *)
(* host at one moment of the call, or a refusal.                           *)
THEOREM CacheImplementsStore == Spec => ImplementsStore
<1>1. Init => Abstract!Init
    BY DEF Init, Abstract!Init, pending, answer
<1>2. IndInv /\ [Next]_vars => [Abstract!Next]_(Abstract!vars)
    BY StepRefines DEF vars, Abstract!vars, pending, answer
<1> QED BY <1>1, <1>2, Invariance, PTL DEF Spec, ImplementsStore, Abstract!Spec
==============================================================================
