SPECIFICATION UnlockSpec
CONSTANTS
  ResetOp = ResetOp
  ClearOp = ClearOp
  EncryptOp = EncryptOp
  DigestOp = DigestOp
  MacOp = MacOp
  Ops <- AllOps
  Leftover <- LeftOps
  OldReplies = 2
  Retries = 3
  MaxSends = 18
  Backend = "windows"
  Faulty = TRUE
  Attempts = 1
  MaxFaults = 1
INVARIANTS UnlockedIsTrue UnlocksIfCalm ReplaysOnlyLocked
PROPERTIES EnsureReturns
CHECK_DEADLOCK FALSE
