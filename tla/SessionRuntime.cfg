\* One session under every interleaving of candidate, AI and HR.
SPECIFICATION FairSpec
CONSTANTS
  NumQuestions = 2
  MaxFollowUps <- TwoThenOne
  MaxFollowUpsTotal = 2
  Duration = 4
  MinRemaining = 2
  AiWindow = 2
  ReadGrace = 1
  CredentialExpiry = 1
  MaxLockWait = 1
  MaxTime = 6
  HrTransactions = {"revoke", "withdraw"}
INVARIANTS
  SessionConsistent
  TurnsInOrder
  FollowUpFromItsRun
  NoQuestionLost
PROPERTIES
  NothingIsUndone
  ImplementsDialogue
  SessionReconciled
  RunsSettle
\* The clock stops at MaxTime.
CHECK_DEADLOCK FALSE
