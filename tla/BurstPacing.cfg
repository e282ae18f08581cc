SPECIFICATION Spec
CONSTANTS
  Free = 7
  Margin = 1
  MinChunk = 2
  MaxSegs = 5
  SettleRuns <- SlowSettle
  NapRuns <- SlowNap
  LateRuns <- SlowLate
  MaxMail = 1
  Faulty = TRUE
INVARIANTS TypeOK OverrunsOnlyIfTroubled NeverDry WaitsForTheQueue

PROPERTIES CallsReturn
