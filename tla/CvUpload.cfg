\* Three requests with one key: retries, duplicates, crashes, expiry.
SPECIFICATION UploadSpec
CONSTANTS
  Keys = {k1}
  Payloads <- ThreePayloads
  MaxRequests = 3
  MaxTime = 1
  Ttl = 1
INVARIANTS FilesAndRowsAgree AnswersAreTrue
PROPERTIES SecondEffectOnlyInDoubt
\* The clock stops at MaxTime, and the requests are bounded.
CHECK_DEADLOCK FALSE
