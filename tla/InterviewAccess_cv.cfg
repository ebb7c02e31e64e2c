SPECIFICATION Spec
CONSTANTS
  MaxRounds = 2
  MaxResends = 1
  MaxCredentials = 1
  MaxNotes = 1
  MaxVersion = 3
  MaxTime = 2
  Lifetimes = {1}
  ResumeGrace = 1
  SessionSpan = 1
  Operations = {"remove_cv", "overlap"}
INVARIANTS InterviewingMeansOneOpen
CHECK_DEADLOCK FALSE
