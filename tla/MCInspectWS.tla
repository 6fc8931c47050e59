----------------------------- MODULE MCInspectWS -----------------------------
(* Instances of InspectWS: its constants are bounds, set in the .cfg files.*)
EXTENDS InspectWS
==============================================================================
