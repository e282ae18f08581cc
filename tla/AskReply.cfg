SPECIFICATION Spec
CONSTANTS
  Status = Status
  Encrypt = Encrypt
  Ops <- BothOps
  Leftover <- BothOps
  OldReplies = 2
  Retries = 3
  MaxSends = 6
  Backend = "windows"
  Faulty = TRUE
INVARIANTS TypeOK SentAtMostTwice
PROPERTIES StaleOnlyIfTroubled MismatchesDrain
CHECK_DEADLOCK FALSE
