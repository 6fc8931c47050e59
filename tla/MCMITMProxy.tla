----------------------------- MODULE MCMITMProxy -----------------------------
(***************************************************************************)
(* Instances of Proxy: clients that speak TLS at once, through CONNECT, or *)
(* do neither, and processes started well, with one port for both          *)
(* listeners, or with something missing.                                   *)
(***************************************************************************)
EXTENDS Proxy

CONSTANTS c1, c2

AllScripts == {<<"hello">>, <<"connect", "hello">>, <<"request">>}

Good == [hostname |-> "system", certPath |-> TRUE, keyPath |-> TRUE, samePort |-> FALSE,
         cert |-> "good", mode |-> "owner", key |-> "pkcs8"]

AllSetups == {Good, [Good EXCEPT !.samePort = TRUE], [Good EXCEPT !.hostname = "unknown"],
              [Good EXCEPT !.keyPath = FALSE], [Good EXCEPT !.cert = "invalid"],
              [Good EXCEPT !.mode = "shared"], [Good EXCEPT !.key = "notRSA"]}
==============================================================================
