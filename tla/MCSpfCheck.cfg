\* Three names, thirteen records, every way their lookups may end.
SPECIFICATION FairSpec
CONSTANTS
  d = d
  x = x
  y = y
  Names = {d, x, y}
  Apex = d
  AllLike = {y}
  Records <- MCRecords
  MaxDepth = 1
  MaxHops = 1
  MaxLookups = 1
  MaxVoids = 1
  StackLimit = 3
INVARIANTS
  VoidsAreReal
  PathIsSimple
  ReceiverAgrees
  ConclusiveIsTrue
  VerifierAgrees
PROPERTY CheckEnds
