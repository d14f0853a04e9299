\* Four candidates (three when the provider is unknown), batches of two.
SPECIFICATION Spec
CONSTANTS
  s1 = s1
  s2 = s2
  s3 = s3
  s4 = s4
  Selectors = {s1, s2, s3, s4}
  Guided <- MCGuided
  Unguided <- MCUnguided
  Batch = 2
  NoSelector = NoSelector
INVARIANTS
  SameAsSequential
  ConclusiveIsExact
  
  NoBurst
