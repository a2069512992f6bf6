CONSTANTS
    First = First
    Second = Second
    Faces <- Three
    Photos = {First, Second}
    PhotoOf <- TwoPhotos
    Imported = {1}
    Name = Name
    MaxPeople = 5
    MaxEvents = 3
    MaxViews = 2
    NoFace = NoFace
    NoPerson = NoPerson
    NoName = NoName
    Nowhere = Nowhere
    NoOne = NoOne
    NoGraph = NoGraph
    NoView = NoView
SPECIFICATION Spec
INVARIANT GroupsInv
PROPERTY DecisionsStay
CHECK_DEADLOCK FALSE
