SPECIFICATION Spec
CONSTANTS
  Procs = {p1, p2}
  Factors <- AllFactors
  Blank <- Plain
  Starts <- Made
  Points <- Grid
  Absent = Absent
  Empty = Empty
  None = None
INVARIANTS TypeOK ForeignKept RoundTrips
PROPERTIES CreatedOnce LoadsTheSaved
SYMMETRY Twins
