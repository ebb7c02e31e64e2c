\* Two requests at once about two candidates, a job and two applications.
SPECIFICATION Spec
CONSTANTS
  Emails = {e1, e2}
  Slots = {s1, s2}
  MaxCandidates = 2
  MaxApplications = 2
  MaxEdits = 1
  MaxVersion = 3
SYMMETRY Interchangeable
INVARIANTS IntakeConsistent
PROPERTIES NothingIsUndone
\* Everything may be removed and closed.
CHECK_DEADLOCK FALSE
