\* Every p, sp and np, every relationship, every lookup lost or not.
SPECIFICATION CheckSpec
CONSTANTS
  Rows = {empty}
  Empty = empty
  Statuses = {"NOERROR", "NXDOMAIN", "SERVFAIL", "FORMERR", "none"}
  Unread = Unread
INVARIANTS
  NeverOverstated
  LedgerIsTrue
