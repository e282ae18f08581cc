SPECIFICATION Spec
CONSTANTS
  Free = 189
  Margin = 48
  MinChunk = 64
  MaxSegs = 1400
  SettleRuns <- ShippedSettle
  NapRuns <- ShippedNap
  LateRuns <- ShippedSettle
  MaxMail = 1
  Faulty = FALSE
INVARIANTS NeverDry
