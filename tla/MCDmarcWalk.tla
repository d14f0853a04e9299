----------------------------- MODULE MCDmarcWalk -----------------------------
(* Instance of DmarcWalk for TLC: names up to two labels longer than the   *)
(* longest suffix walked.                                                  *)
EXTENDS DmarcWalk
=============================================================================
