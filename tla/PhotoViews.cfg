SPECIFICATION Spec
CONSTANTS
  a = a
  b = b
  MaxImages = 3
  MaxImageGroupSize = 3
  MaxGroups = 2
  MaxGroupEdits = 3
  Pictures = {1}
  Albums = {"album"}
  Spots = {1}
  Scopes <- OneScope
  Everything = ""
  Viewers <- Requests
  Flights = {1, 2}
  MaxFlights = 1
  MaxAttempts = 2
  MaxIndexChanges = 1
  NoPicture = NoPicture
  NoRoute = NoRoute
  NoFlight = NoFlight
  Behind = Behind
  Folders = {1, 2}
  Markers = {"outer", "inner"}
  Above <- AboveFolders
  Ranges <- OneRange
  Guests <- Requests
  BatchSize = 1
  MaxMarks = 2
  NoScan = NoScan
  Shots = {1, 2}
  Words = {"long", "s"}
  Short = {"s"}
  Looks <- ThreeLooks
  Entries <- FourEntries
  Queries <- SomeQueries
  PageSize = 1
  Pages = {1, 2}
  CandidateMin = 1
  CandidateFactor = 1
  CandidateMax = 2
  ExcludedMax = 1
  MaxRowChanges = 1
  NoLook = NoLook
  NoListing = NoListing
INVARIANT ImagesAreShown
INVARIANT MapsAreTrue
INVARIANT SearchIsTrue
SYMMETRY Alike
CHECK_DEADLOCK FALSE
