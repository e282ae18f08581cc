SPECIFICATION Spec
CONSTANTS
  Kinds = {"co2", "mopa"}
  FreqArgs <- EdgeFreqs
  PctArgs <- EdgePcts
  ByteArgs = {2}
  PulseArgs = {100, 65700}
  TickFreqs <- EdgeTicks
  TickWidths <- EdgeWidths
  Grain = 100
  Faulty = TRUE
INVARIANTS TypeOK SettingsFit HeaderWordsFit PulseFollows
CHECK_DEADLOCK FALSE
