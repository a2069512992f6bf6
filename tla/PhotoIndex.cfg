SPECIFICATION Spec
CONSTANTS
  a1 = a1
  a2 = a2
  x = x
  y = y
  AlbumNames <- TwoAlbums
  Contents <- TwoPhotos
  Libraries <- TwoFull
  MaxEvents = 2
  NoDir = NoDir
  NoFile = NoFile
  NoRow = NoRow
  NoFace = NoFace
  NoEntity = NoEntity
  NoSign = NoSign
  Unread = Unread
INVARIANT PhotoInv
PROPERTY PresentStaysKnown
PROPERTY EditsStay
SYMMETRY Alike
CHECK_DEADLOCK FALSE
