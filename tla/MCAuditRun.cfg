\* Three pooled checks, two serial ones, six keys.
SPECIFICATION FairSpec
CONSTANTS
  txt = txt
  dmarc = dmarc
  mx = mx
  sel1 = sel1
  sel2 = sel2
  tlsa = tlsa
  Keys = {txt, dmarc, mx, sel1, sel2, tlsa}
  Socket = Socket
  DnsChecks <- MCDnsChecks
  SocketChecks <- MCSocketChecks
  Sweeps <- MCSweeps
  Careless <- MCCareless
  Program <- MCProgram
  Severity <- MCSeverity
  Critical <- MCCritical
INVARIANTS
  NoOverlap
  Reproducible
  EvidenceComplete
PROPERTY Ends
