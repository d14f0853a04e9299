\* Names of up to five labels, four queries, every placement of records.
SPECIFICATION WalkSpec
CONSTANTS
  MaxLabels = 5
  MaxQueries = 4
INVARIANTS
  FollowsRfc
  ConclusiveIsTrue
