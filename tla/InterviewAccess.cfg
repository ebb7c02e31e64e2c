SPECIFICATION Spec
CONSTANTS
  MaxRounds = 2
  MaxResends = 1
  MaxCredentials = 1
  MaxNotes = 1
  MaxVersion = 2
  MaxTime = 2
  Lifetimes = {1}
  ResumeGrace = 1
  SessionSpan = 1
  Operations = {"resend", "revoke", "withdraw", "remove", "decide", "update", "remove_cv"}
INVARIANTS AccessConsistent InterviewingMeansOneOpen LinksAdmitWhomTheyShould
PROPERTIES FollowsLifecycle
CHECK_DEADLOCK FALSE
