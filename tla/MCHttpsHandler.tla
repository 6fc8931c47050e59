---------------------------- MODULE MCHttpsHandler ----------------------------
(***************************************************************************)
(* Instances of HttpsHandler: a name of Discord's, one of the proxy's own, *)
(* one of neither, and the bodies each run lets the upstream send.         *)
(***************************************************************************)
EXTENDS HttpsHandler

CONSTANTS discord, relay, other

B(delimited, form, cut) ==
    [delimited |-> delimited, form |-> form, cut |-> cut, at |-> "network"]

Whole == {B("length", "damaged", FALSE), B("close", "text", FALSE), B("length", "binary", FALSE)}
Short == {B("chunked", "text", TRUE), B("chunked", "binary", TRUE)}
SafeBodies == Whole \cup Short
JsonBody == {B("length", "text", FALSE)}
CutBody == JsonBody \cup {B("length", "text", TRUE)}
==============================================================================
