\* Two summaries, two reviews and a decision, with dead requests.
SPECIFICATION FairSpec
CONSTANTS
  MaxRuns = 2
  MaxReviews = 2
  MaxVersion = 3
  MayDie = TRUE
INVARIANTS FilesConsistent
PROPERTIES FilesClosedByDecision RequestsEnd
\* A decided application has nothing left to do.
CHECK_DEADLOCK FALSE
