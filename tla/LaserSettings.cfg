SPECIFICATION FairSpec
CONSTANTS
  Kinds = {"co2", "mopa"}
  Calls <- SettingsClient
  Backend = "windows"
  Faulty = TRUE
INVARIANTS EndsSilent
CHECK_DEADLOCK FALSE
