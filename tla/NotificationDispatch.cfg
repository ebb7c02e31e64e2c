\* Two retries of HR beside the call of the creator; calls may die.
SPECIFICATION FairSpec
CONSTANTS
  creator = creator
  retry1 = retry1
  retry2 = retry2
  Calls <- AllCalls
  Creator = creator
  MaxAttempts = 3
  MaxTime = 4
  StaleAfter = 1
  PayloadTtl = 3
  MayDie <- AllCalls
INVARIANT MailConsistent
PROPERTIES AcceptedIsFinal SentAgainOnlyUnacknowledged SendingEnds
\* The clock stops at MaxTime.
CHECK_DEADLOCK FALSE
