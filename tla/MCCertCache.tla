----------------------------- MODULE MCCertCache -----------------------------
(* An instance of CertCache: one key, a host with its port, so that the key *)
(* and the name in its certificate differ.                                  *)
EXTENDS CertCache

CONSTANTS g1, g2, g3, discord, discordPort

MCServerName == [h \in Hosts |-> IF h = discordPort THEN discord ELSE h]
==============================================================================
