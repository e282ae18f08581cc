SPECIFICATION FairSpec
CONSTANTS
  Kinds = {"co2"}
  Calls <- OperatorClient
  Backend = "libusb"
  Faulty = TRUE
INVARIANTS TypeOK LiveAccounting OffSilences DropSilences
PROPERTIES SilencingNeverStarts SilencingEnds PromiseKept
CHECK_DEADLOCK FALSE
