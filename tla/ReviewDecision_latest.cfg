\* A review is stored while a decision is under way.
SPECIFICATION Spec
CONSTANTS
  MaxRuns = 1
  MaxReviews = 2
  MaxVersion = 3
  MayDie = TRUE
INVARIANT DecisionCitesLatestReview
\* A decided application has nothing left to do.
CHECK_DEADLOCK FALSE
