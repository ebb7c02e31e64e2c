\* Workers, retries, edits and interviews over two sets.
SPECIFICATION FairSpec
CONSTANTS
  MaxSets = 2
  MaxRuns = 2
  MaxEdits = 1
  MaxSources = 1
  MaxInterviews = 1
  MaxTime = 2
  StaleAfter = 1
  MayDie = TRUE
INVARIANTS SetsConsistent InterviewAsksWhatHrApproved
PROPERTIES HrsWordStands FollowsAiJobs RunsSettle
\* The clock stops at MaxTime.
CHECK_DEADLOCK FALSE
