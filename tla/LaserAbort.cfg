SPECIFICATION FairSpec
CONSTANTS
  Kinds = {"co2"}
  Calls <- AbortClient
  Backend = "libusb"
  Faulty = FALSE
PROPERTIES AbortKillsOutput
CHECK_DEADLOCK FALSE
