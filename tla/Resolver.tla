------------------------------ MODULE Resolver ------------------------------
(***************************************************************************)
(* What resolver.py's backend and the adapter above it share: the names    *)
(* looked up and META, the side channel in which the backend leaves the    *)
(* response code of a lookup.                                              *)
(***************************************************************************)
EXTENDS DnsAnswer

CONSTANT Names     (* names and types as callers spell them                *)

VARIABLE META      (* resolver._META                                       *)

(* A lookup of n that ended with this response code has recorded it.       *)
Recorded(n, status) == META' = [META EXCEPT ![n] = NormalizedMeta(status, FALSE)]
=============================================================================
