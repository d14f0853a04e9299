---------------------------- MODULE MCDmarcCheck ----------------------------
(* Instance of DmarcCheck for TLC: every combination of the three policy   *)
(* tags, each kind of response code, and every set of lost lookups.        *)
EXTENDS DmarcCheck
=============================================================================
