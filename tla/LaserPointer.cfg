SPECIFICATION FairSpec
CONSTANTS
  Kinds = {"co2"}
  Calls <- PointerClient
  Backend = "libusb"
  Faulty = FALSE
PROPERTIES CloseSilencesOwn
CHECK_DEADLOCK FALSE
