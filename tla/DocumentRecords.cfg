SPECIFICATION RecordsSpec
CONSTANTS
  d1 = d1
  d2 = d2
  n1 = n1
  n2 = n2
  c1 = c1
  lower = lower
  upper = upper
  w1 = w1
  r1 = r1
  r2 = r2
  q1 = q1
  Docs <- OneDoc
  Names <- TwoNames
  Fields <- OneField
  Values <- TwoSpellings
  Fold <- AsItIs
  Words <- OneWord
  FileWords <- NoFileWords
  Rules <- OneRule
  Filters <- OneList
  Requests <- TwoRequests
  Readers <- OneReader
  CacheLimit = 1
  MaxChanges = 4
  TagSets <- FirstAlone
  FirstTags <- FirstName
  FirstField <- OneFolder
  NoValue = NoValue
  NoAnswer = NoAnswer
SYMMETRY RequestSymmetry
INVARIANT RInv
PROPERTY ProtectedSurvive
PROPERTY SavedSearchKeepsDocuments
