SPECIFICATION Spec
CONSTANTS
  Status = Status
  Encrypt = Encrypt
  Ops <- BothOps
  Leftover <- NoLeftover
  OldReplies = 2
  Retries = 3
  MaxSends = 5
  Backend = "libusb"
  Faulty = TRUE
INVARIANTS ItsReply
CHECK_DEADLOCK FALSE
