------------------------------ MODULE MCAuditRun ------------------------------
(* Instances of AuditRun for TLC: three DNS checks, one of them a sweep,   *)
(* and two socket checks; they share the MX, and one reads after its probe.*)
EXTENDS AuditRun, TLC

CONSTANTS txt, dmarc, mx, sel1, sel2, tlsa

MCDnsChecks == <<"spf", "dkim", "dmarc">>
MCSocketChecks == <<"mta_sts", "transport">>
MCSweeps == {"dkim"}
MCCareless == {"transport"}
MCProgram ==
  [spf |-> <<txt>>, dkim |-> <<sel1, sel2>>, dmarc |-> <<dmarc, txt>>,
   mta_sts |-> <<mx, Socket>>, transport |-> <<mx, Socket, tlsa>>]
MCSeverity ==
  [p \in Checks \X Keys |->
     IF p[2] \in {sel1, tlsa} \/ p = <<"dmarc", txt>> THEN 2 ELSE 1]
MCCritical == <<txt, dmarc, mx>>
=============================================================================
