\* Three fair threads, two permits, two attempts and a probe.
SPECIFICATION FairDigSpec
CONSTANTS
  t1 = t1
  t2 = t2
  t3 = t3
  n1 = n1
  n2 = n2
  bad = bad
  Rows = {empty}
  Empty = empty
  Statuses = {"NOERROR", "FORMERR", "none"}
  Unread = Unread
  Threads = {t1, t2, t3}
  Names = {n1, n2, bad}
  BadNames = {bad}
  ProbeNames = {n1}
  Permits = 2
  Attempts = 2
  NoName = NoName
INVARIANTS
  PermitsConserved
  VerdictExplained
PROPERTY LookupEnds
