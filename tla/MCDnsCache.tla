----------------------------- MODULE MCDnsCache ------------------------------
(* An instance of DnsCache for TLC: two spellings of one name, on which    *)
(* the threads race, share and wait.                                       *)
EXTENDS DnsCache, TLC

CONSTANTS t1, t2, t3, plain, dotted, kn

MCKeyOf == (plain :> kn) @@ (dotted :> kn)
=============================================================================
