SPECIFICATION FairSpec
CONSTANTS
  a = a
  b = b
  Docs <- TwoDocs
  Requests <- OneRequest
  MaxJobs = 2
  MaxStops = 1
  MaxFaults = 1
  Batch = 1
  Touched <- TheYounger
  Broken <- TheOlder
  HasText <- TheYounger
  NoDoc = NoDoc
CHECK_DEADLOCK FALSE
INVARIANT RunningIsWorkedOn
PROPERTY OcrTextStays
PROPERTY WorkIsDone
