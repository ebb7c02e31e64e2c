\* Two requests at once; two failures lock the account for one tick.
SPECIFICATION LoginSpec
CONSTANTS
  Clients = {s1, s2}
  MaxFailures = 2
  LockTime = 1
  MaxWork = 5
  MaxTime = 2
SYMMETRY Interchangeable
INVARIANTS TokensConsistent LockIsEarned
PROPERTIES EachResetUsesALink
\* The bound on the work may be reached.
CHECK_DEADLOCK FALSE
