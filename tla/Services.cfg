SPECIFICATION Spec
CONSTANTS
  r = r
  w = w
  Clients <- Goroutines
  Slots = 2
  Wanted <- Requested
  Prepared <- Worked
  MaxChanges = 2
  NoFile = NoFile
  NoRow = NoRow
  Nothing = Nothing
  Messages <- ThreeMessages
  Parts <- TheParts
  Sender <- TheSenders
  Archives <- MailArchives
  Rules <- TwoRules
  Callers <- TwoCallers
  Schedule = "schedule"
  MaxEvents = 2
  Nobody = Nobody
  NoMessage = 0
  NoForm = NoForm
  p1 = p1
  p2 = p2
  p3 = p3
  People <- Persons
  Tags <- OneTag
  Dates <- TwoDates
  RelationLimit = 1
  MaxEdits = 3
INVARIANT ShowsPhoto
INVARIANT MailIsStored
INVARIANT FamilyIsSound
INVARIANT TreesAreFamilies
PROPERTY HiddenStays
SYMMETRY Alike
CHECK_DEADLOCK FALSE
