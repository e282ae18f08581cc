SPECIFICATION FairSpec
CONSTANTS
  Full = 3
  RawUs = 4
  UsNum = 3
  UsDen = 2
  MaxUs = 4
  Jobs <- MCJobs
  SegLists <- MCSegLists
  SegOpts <- MCSegOpts
  DotLists <- MCDotLists
INVARIANTS
  TypeOK GrantsLongest MarksTheAsked RunsEndOnTheirPoints DwellWhereLaserStops
  TimedAsTravelled StaysInTravel GrantedAtEveryRun
PROPERTIES WiggleKeepsTime PathReturns
CHECK_DEADLOCK FALSE
