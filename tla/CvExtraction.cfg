\* Three runs of one CV under every interleaving of workers, retries and HR.
SPECIFICATION FairSpec
CONSTANTS
  MaxCvs = 1
  MaxRuns = 3
  MaxEdits = 1
  MaxTime = 3
  StaleAfter = 1
  Operations = {"crash", "remove", "move"}
INVARIANTS CvConsistent
PROPERTIES HrsWordStands FollowsAiJobs RunsSettle
\* The clock stops at MaxTime.
CHECK_DEADLOCK FALSE
