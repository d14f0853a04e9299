\* Three fair threads race on one key under two spellings, in two audits of
\* one process.
SPECIFICATION FairSpec
CONSTANTS
  t1 = t1
  t2 = t2
  t3 = t3
  plain = plain
  dotted = dotted
  kn = kn
  Rows = {empty, txt}
  Empty = empty
  Statuses = {"NOERROR", "none"}
  Unread = Unread
  Readers = {t1, t2, t3}
  Names = {plain, dotted}
  Keys = {kn}
  KeyOf <- MCKeyOf
  Scopes = {spf}
  NoScope = NoScope
  NoCall = NoCall
  MaxReads = 1
  MaxRuns = 2
INVARIANTS
  SharedObservation
  LedgerComplete
PROPERTIES
  ReadsOnce
  EveryReadReturns
