\* Every check, every content of its inputs, every way a read may end.
SPECIFICATION LedgerSpec
CONSTANTS
  Hosts <- MCHosts
  PolicyFile <- MCPolicyFile
INVARIANTS
  ConclusiveIsTrue
  DisclosuresAgree
  EvidenceIsConclusive
