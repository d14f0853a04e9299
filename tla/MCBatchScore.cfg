\* Two selectors, one of them a provider's; at most two lookups lost.
SPECIFICATION Spec
CONSTANTS
  Selectors = {"s1", "s2"}
  Common = {"s2"}
  Worlds <- MCWorlds
  MaxLost = 2
INVARIANTS
  NrMeansNonexistent
  ConfirmedGap
  FalseGapDisclosed
  DashIsNullMx
  VerifierAgrees
