---------------------------- MODULE MCDigBackend -----------------------------
(* Instances of DigBackend for TLC: more threads than permits, a name the  *)
(* guard refuses, and a probe that competes for the permits.               *)
EXTENDS DigBackend

CONSTANTS t1, t2, t3, n1, n2, bad
=============================================================================
