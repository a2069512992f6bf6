---------------------------- MODULE PhotoIndexProofs ----------------------------
(***************************************************************************)
(* Theorems about PhotoIndex, for any number of albums, contents and       *)
(* events.  First what every operator on the index makes of it, then an    *)
(* inductive invariant, IndexInv, step by step, and at last what no step   *)
(* does.                                                                   *)
(***************************************************************************)
EXTENDS PhotoIndex, TLAPS

\* The row and the identity of an object, and the faces of a photo with them.
ObjectFits(row, entity) ==
    /\ row # NoRow => row.found = row.tags
    /\ entity # NoEntity => IF entity.missing > 0 THEN entity.kept # NoRow /\ entity.kept.tags = entity.wanted
                            ELSE entity.kept = NoRow /\ row # NoRow /\ row.tags = entity.wanted
FaceFits(face, entity) ==
    face.owned => entity # NoEntity /\ entity.print # Unread /\ (face.review \/ face.hash = entity.print)
AlbumFits(row, entity, face, hidden) ==
    /\ face # NoFace => row # NoRow /\ ~row.private /\ FaceFits(face, entity)
    /\ hidden # NoFace => FaceFits(hidden, entity) /\ (hidden.owned => hidden.held)
Fields == {"row", "entity", "face", "hidden", "scanned", "root"}
Sound(d) ==
    /\ DOMAIN d = Fields
    /\ d.row \in [Objects -> Rows \cup {NoRow}] /\ d.entity \in [Objects -> Entities \cup {NoEntity}]
    /\ d.face \in [AlbumNames -> Faces \cup {NoFace}] /\ d.hidden \in [AlbumNames -> Faces \cup {NoFace}]
    /\ d.scanned \in [AlbumNames -> Signs \cup {NoSign}]
    /\ \A o \in Objects : ObjectFits(d.row[o], d.entity[o])
    /\ \A a \in AlbumNames : AlbumFits(d.row[Photo(a)], d.entity[Photo(a)], d.face[a], d.hidden[a])

-----------------------------------------------------------------------------
\* An album is two objects: its folder, and the photo in it.
LEMMA ObjectsOfAlbum ==
    ASSUME NEW a \in AlbumNames
    PROVE  /\ Photo(a) \in Objects /\ Folder(a) \in Objects /\ Photo(a) # Folder(a)
           /\ AlbumOf(Photo(a)) = a /\ AlbumOf(Folder(a)) = a /\ IsPhoto(Photo(a)) /\ ~IsPhoto(Folder(a))
  BY DEF Photo, Folder, Objects, AlbumOf, IsPhoto

\* Every object is the folder or the photo of its album.
LEMMA ObjectIs ==
    ASSUME NEW o \in Objects
    PROVE  /\ AlbumOf(o) \in AlbumNames /\ (IsPhoto(o) => o = Photo(AlbumOf(o))) /\ (~IsPhoto(o) => o = Folder(AlbumOf(o)))
           /\ \A a \in AlbumNames : o = Photo(a) => AlbumOf(o) = a /\ IsPhoto(o)
           /\ \A a \in AlbumNames : o = Folder(a) => AlbumOf(o) = a /\ ~IsPhoto(o)
  BY DEF Photo, Folder, Objects, AlbumOf, IsPhoto

Flagged(row, private) == [row EXCEPT !.private = private]
FlagsSet(d, e, objects, private) ==
    /\ Sound(e) /\ e.entity = d.entity /\ e.scanned = d.scanned
    /\ \A o \in Objects \ objects : e.row[o] = d.row[o]
    /\ \A o \in objects : e.row[o] = Flagged(d.row[o], private[AlbumOf(o)]) /\ e.row[o] # NoRow
FlagSet(d, e, o, private) ==
    /\ Sound(e) /\ e.entity = d.entity /\ e.scanned = d.scanned
    /\ \A p \in Objects \ {o} : e.row[p] = d.row[p]
    /\ e.row[o] = Flagged(d.row[o], private) /\ e.row[o] # NoRow

\* The triggers that hide and show the faces of a photo when it becomes private
\* or public leave an index that fits, and nothing else of it changes.
LEMMA SetPrivateKeeps ==
    ASSUME NEW d, Sound(d), NEW objects \in SUBSET Objects, NEW private \in [AlbumNames -> BOOLEAN],
           \A o \in objects : d.row[o] # NoRow,
           NEW e, e = SetPrivate(d, objects, private)
    PROVE  FlagsSet(d, e, objects, private)
  <1> DEFINE turns(a) == Photo(a) \in objects /\ d.row[Photo(a)].private # private[a]
             hides(a) == turns(a) /\ private[a] /\ d.face[a] # NoFace
             shows(a) == turns(a) /\ ~private[a] /\ d.hidden[a] # NoFace
             face(a) == IF hides(a) THEN NoFace
                        ELSE IF shows(a) THEN Shown(d.entity[Photo(a)], d.hidden[a], d.row[Photo(a)].changed) ELSE d.face[a]
             hidden(a) == IF hides(a) THEN Hidden(d.face[a]) ELSE IF shows(a) THEN NoFace ELSE d.hidden[a]
             row(o) == IF o \in objects THEN [d.row[o] EXCEPT !.private = private[AlbumOf(o)]] ELSE d.row[o]
  <1>1. /\ e.row = [o \in Objects |-> row(o)] /\ e.face = [a \in AlbumNames |-> face(a)] /\ e.hidden = [a \in AlbumNames |-> hidden(a)]
        /\ e.entity = d.entity /\ e.scanned = d.scanned /\ DOMAIN e = Fields
    BY DEF SetPrivate, Sound, Fields
  <1>2. ASSUME NEW o \in objects
        PROVE  row(o) \in Rows /\ row(o) # NoRow /\ row(o).found = d.row[o].found /\ row(o).tags = d.row[o].tags
               /\ row(o).private = private[AlbumOf(o)] /\ row(o).changed = d.row[o].changed
    <2>1. o \in Objects /\ d.row[o] \in Rows /\ private[AlbumOf(o)] \in BOOLEAN
      BY ObjectIs DEF Sound
    <2>2. QED BY <2>1, PhotoAssumption DEF Rows
  <1>3. ASSUME NEW a \in AlbumNames
        PROVE  /\ face(a) \in Faces \cup {NoFace} /\ hidden(a) \in Faces \cup {NoFace}
               /\ AlbumFits(row(Photo(a)), d.entity[Photo(a)], face(a), hidden(a))
    <2>1. /\ Photo(a) \in Objects /\ AlbumOf(Photo(a)) = a /\ AlbumFits(d.row[Photo(a)], d.entity[Photo(a)], d.face[a], d.hidden[a])
          /\ d.face[a] \in Faces \cup {NoFace} /\ d.hidden[a] \in Faces \cup {NoFace} /\ d.entity[Photo(a)] \in Entities \cup {NoEntity}
      BY ObjectsOfAlbum DEF Sound
    <2>2. CASE hides(a)
      <3>1. d.face[a] \in Faces /\ Hidden(d.face[a]) \in Faces /\ Hidden(d.face[a]).owned = d.face[a].owned
            /\ Hidden(d.face[a]).held = d.face[a].owned /\ Hidden(d.face[a]).review = d.face[a].review /\ Hidden(d.face[a]).hash = d.face[a].hash
        BY <2>1, <2>2 DEF Hidden, Faces
      <3>2. QED BY <2>1, <2>2, <3>1 DEF AlbumFits, FaceFits
    <2>3. CASE ~hides(a) /\ shows(a)
      <3> DEFINE s == Shown(d.entity[Photo(a)], d.hidden[a], d.row[Photo(a)].changed)
      <3>1. d.hidden[a] \in Faces
        BY <2>1, <2>3
      <3>2. s \in Faces /\ s.owned = d.hidden[a].owned /\ s.hash = d.hidden[a].hash /\ (d.hidden[a].review => s.review)
        BY <3>1 DEF Shown, Faces
      <3>3. row(Photo(a)) # NoRow /\ ~row(Photo(a)).private
        BY <1>2, <2>1, <2>3
      <3> HIDE DEF s, row
      <3>4. face(a) = s /\ hidden(a) = NoFace
        BY <2>3 DEF s
      <3>5. FaceFits(s, d.entity[Photo(a)])
        BY <2>1, <2>3, <3>2 DEF AlbumFits, FaceFits
      <3>6. QED BY <3>2, <3>3, <3>4, <3>5 DEF AlbumFits
    <2>4. CASE ~hides(a) /\ ~shows(a)
      <3>1. face(a) = d.face[a] /\ hidden(a) = d.hidden[a]
        BY <2>4
      <3>2. CASE Photo(a) \notin objects
        BY <2>1, <3>1, <3>2
      <3>3. CASE Photo(a) \in objects /\ d.face[a] # NoFace
        <4>1. ~row(Photo(a)).private
          BY <1>2, <2>1, <2>4, <3>3 DEF AlbumFits
        <4>2. QED BY <1>2, <2>1, <3>1, <3>3, <4>1 DEF AlbumFits
      <3>4. CASE Photo(a) \in objects /\ d.face[a] = NoFace
        BY <2>1, <3>1, <3>4 DEF AlbumFits
      <3>5. QED BY <3>2, <3>3, <3>4
    <2>5. QED BY <2>2, <2>3, <2>4
  <1>4. ASSUME NEW o \in Objects
        PROVE  row(o) \in Rows \cup {NoRow} /\ ObjectFits(row(o), d.entity[o])
    <2>1. CASE o \in objects
      BY <1>2, <2>1 DEF Sound, ObjectFits
    <2>2. CASE o \notin objects
      BY <2>2 DEF Sound
    <2>3. QED BY <2>1, <2>2
  <1> HIDE DEF row, face, hidden
  <1>5. Sound(e)
    BY <1>1, <1>3, <1>4, ObjectsOfAlbum DEF Sound
  <1>6. QED BY <1>1, <1>2, <1>5 DEF row, Flagged, FlagsSet

\* The same of one object.
LEMMA SetPrivateOne ==
    ASSUME NEW d, Sound(d), NEW o \in Objects, d.row[o] # NoRow, NEW private \in BOOLEAN,
           NEW e, e = SetPrivate(d, {o}, Everywhere(private))
    PROVE  FlagSet(d, e, o, private)
  <1>1. PICK objects : objects = {o}
    OBVIOUS
  <1>2. PICK everywhere : everywhere = Everywhere(private)
    OBVIOUS
  <1>3. objects \in SUBSET Objects /\ o \in objects /\ \A p \in objects : p = o
    BY <1>1
  <1>4. everywhere \in [AlbumNames -> BOOLEAN] /\ everywhere[AlbumOf(o)] = private
    BY <1>2, ObjectIs DEF Everywhere
  <1>5. e = SetPrivate(d, objects, everywhere)
    BY <1>1, <1>2
  <1>6. FlagsSet(d, e, objects, everywhere)
    BY <1>3, <1>4, <1>5, SetPrivateKeeps
  <1>7. QED BY <1>1, <1>3, <1>4, <1>6 DEF FlagsSet, FlagSet

\* What most transactions leave alone: the tags that identities want, which
\* objects are not missing, and the fingerprints that are known.
SameWanted(d, e) ==
    \A o \in Objects : d.entity[o] # NoEntity => e.entity[o] # NoEntity /\ e.entity[o].wanted = d.entity[o].wanted
NoneMissed(d, e) == \A o \in Objects : Missing(e, o) => Missing(d, o)
SamePrints(d, e) ==
    \A o \in Objects : e.entity[o] # NoEntity =>
        e.entity[o].print = Unread \/ (d.entity[o] # NoEntity /\ e.entity[o].print = d.entity[o].print)
Gentle(d, e) == SameWanted(d, e) /\ NoneMissed(d, e) /\ SamePrints(d, e)

\* Where no identity is written, none is lost.
LEMMA GentleEntities ==
    ASSUME NEW d, NEW e, e.entity = d.entity
    PROVE  Gentle(d, e)
  BY DEF Gentle, SameWanted, NoneMissed, SamePrints, Missing

LEMMA ZeroStamp == 0 \in Stamps
  BY PhotoAssumption DEF Stamps

\* A row that is made of a file fits the file.
LEMMA RowType ==
    ASSUME NEW tags \in Stamps, NEW private \in BOOLEAN, NEW file \in Files \cup {NoFile}
    PROVE  /\ Row(tags, private, file) \in Rows /\ Row(tags, private, file) # NoRow
           /\ Row(tags, private, file).found = tags /\ Row(tags, private, file).tags = tags
           /\ Row(tags, private, file).private = private
           /\ file # NoFile => Fits(Row(tags, private, file), file, private)
  <1>1. Row(tags, private, file) \in Rows
    BY PhotoAssumption DEF Row, Rows, Files, Stamps
  <1>2. QED BY <1>1, PhotoAssumption DEF Row, Rows, Files, Fits

\* A new identity wants the tags of its row, and misses nothing.
LEMMA NewcomerType ==
    ASSUME NEW tags \in Stamps
    PROVE  /\ Newcomer(tags) \in Entities /\ Newcomer(tags) # NoEntity /\ Newcomer(tags).missing = 0
           /\ Newcomer(tags).kept = NoRow /\ Newcomer(tags).wanted = tags /\ Newcomer(tags).print = Unread
  <1>1. Newcomer(tags) \in Entities
    BY PhotoAssumption DEF Newcomer, Entities, Stamps
  <1>2. QED BY <1>1, PhotoAssumption DEF Newcomer

\* A new row is given an identity, unless the path has one.
LEMMA AddRowKeeps ==
    ASSUME NEW d, Sound(d), NEW o \in Objects, d.row[o] = NoRow, NEW row \in Rows, row.found = row.tags,
           NEW e, e = AddRow(d, o, row)
    PROVE  /\ Sound(e) /\ e.scanned = d.scanned /\ Gentle(d, e)
           /\ e.row[o] = row /\ \A p \in Objects \ {o} : e.row[p] = d.row[p]
  <1> DEFINE entity == IF d.entity[o] = NoEntity THEN Newcomer(row.tags) ELSE d.entity[o]
  <1>1. row # NoRow /\ row.tags \in Stamps
    BY PhotoAssumption DEF Rows
  <1>2. /\ e.row = [d.row EXCEPT ![o] = row] /\ e.entity = [d.entity EXCEPT ![o] = entity]
        /\ e.face = d.face /\ e.hidden = d.hidden /\ e.scanned = d.scanned /\ DOMAIN e = Fields
    BY DEF AddRow, Sound, Fields
  <1>3. entity \in Entities /\ entity # NoEntity
    BY <1>1, NewcomerType, PhotoAssumption DEF Sound
  <1>4. d.entity[o] = NoEntity => entity = Newcomer(row.tags)
    OBVIOUS
  <1>5. d.entity[o] # NoEntity => entity = d.entity[o] /\ entity.missing > 0
    BY DEF Sound, ObjectFits
  <1> HIDE DEF entity
  <1>6. ObjectFits(row, entity)
    BY <1>1, <1>3, <1>4, <1>5, NewcomerType DEF Sound, ObjectFits
  <1>7. ASSUME NEW a \in AlbumNames
        PROVE  AlbumFits(e.row[Photo(a)], e.entity[Photo(a)], e.face[a], e.hidden[a])
    <2>1. Photo(a) \in Objects /\ AlbumFits(d.row[Photo(a)], d.entity[Photo(a)], d.face[a], d.hidden[a])
      BY ObjectsOfAlbum DEF Sound
    <2>2. CASE Photo(a) # o
      BY <1>2, <2>1, <2>2 DEF Sound
    <2>3. CASE Photo(a) = o
      <3>1. e.entity[Photo(a)] = entity /\ e.face[a] = NoFace /\ e.hidden[a] = d.hidden[a]
        BY <1>2, <2>1, <2>3 DEF Sound, AlbumFits
      <3>2. QED BY <1>4, <1>5, <2>1, <2>3, <3>1 DEF AlbumFits, FaceFits
    <2>4. QED BY <2>2, <2>3
  <1>8. Sound(e)
    BY <1>1, <1>2, <1>3, <1>6, <1>7 DEF Sound
  <1>9. Gentle(d, e)
    BY <1>1, <1>2, <1>3, <1>4, <1>5, NewcomerType DEF Gentle, SameWanted, NoneMissed, SamePrints, Missing, Sound
  <1>10. QED BY <1>2, <1>8, <1>9 DEF Sound

\* A photo that is written again keeps its tags; a face of it that is not known to
\* be of the bytes that are there now comes into doubt.
LEMMA SavePhotoKeeps ==
    ASSUME NEW d, Sound(d), NEW a \in AlbumNames, NEW file \in Files, NEW private \in BOOLEAN,
           NEW e, e = SavePhoto(d, a, file, private)
    PROVE  /\ Sound(e) /\ e.scanned = d.scanned /\ Gentle(d, e) /\ Fits(e.row[Photo(a)], file, private)
           /\ \A p \in Objects \ {Photo(a)} : e.row[p] = d.row[p]
  <1> DEFINE o == Photo(a)
  <1>1. o \in Objects /\ AlbumOf(o) = a /\ file # NoFile
    BY ObjectsOfAlbum, PhotoAssumption
  <1>2. CASE d.row[o] = NoRow
    <2>1. PICK row : row = Row(0, private, file)
      OBVIOUS
    <2>2. row \in Rows /\ row.found = row.tags /\ Fits(row, file, private)
      BY <1>1, <2>1, RowType, PhotoAssumption DEF Stamps
    <2>3. e = AddRow(d, o, row)
      BY <1>2, <2>1 DEF SavePhoto
    <2>4. QED BY <1>1, <1>2, <2>2, <2>3, AddRowKeeps
  <1>3. CASE d.row[o] # NoRow
    <2> DEFINE doubt == d.row[o].changed # file.changed /\ ~Proven(d.entity[o], d.face[a], file.changed)
               face == IF d.face[a] = NoFace THEN d.face[a] ELSE Doubted(d.face[a], doubt)
    <2>1. PICK row : row = Row(d.row[o].tags, d.row[o].private, file)
      OBVIOUS
    <2>2. PICK saved : saved = [d EXCEPT !.row[o] = row, !.face[a] = face]
      OBVIOUS
    <2>4. e = SetPrivate(saved, {o}, Everywhere(private))
      BY <1>3, <2>1, <2>2 DEF SavePhoto
    <2>5. d.row[o] \in Rows /\ d.row[o].tags \in Stamps /\ d.row[o].private \in BOOLEAN
      BY <1>1, <1>3 DEF Sound, Rows
    <2>6. row \in Rows /\ row # NoRow /\ row.found = row.tags /\ row.tags = d.row[o].tags /\ row.private = d.row[o].private
          /\ Fits(row, file, d.row[o].private)
      BY <1>1, <2>1, <2>5, RowType
    <2>7. /\ face = NoFace <=> d.face[a] = NoFace
          /\ face # NoFace => face \in Faces /\ face.owned = d.face[a].owned /\ face.hash = d.face[a].hash
                              /\ (d.face[a].review => face.review)
      <3>1. d.face[a] \in Faces \cup {NoFace}
        BY DEF Sound
      <3>2. QED BY <3>1, PhotoAssumption DEF Doubted, Faces
    <2>8. /\ saved.row = [d.row EXCEPT ![o] = row] /\ saved.face = [d.face EXCEPT ![a] = face] /\ saved.entity = d.entity
          /\ saved.hidden = d.hidden /\ saved.scanned = d.scanned /\ DOMAIN saved = Fields
      BY <2>2 DEF Sound, Fields
    <2> HIDE DEF face, o
    <2>9. Sound(saved)
      <3>1. ASSUME NEW b \in AlbumNames
            PROVE  AlbumFits(saved.row[Photo(b)], saved.entity[Photo(b)], saved.face[b], saved.hidden[b])
        <4>1. Photo(b) \in Objects /\ AlbumFits(d.row[Photo(b)], d.entity[Photo(b)], d.face[b], d.hidden[b])
              /\ (Photo(b) = o => b = a)
          BY ObjectsOfAlbum DEF Sound, o
        <4>2. CASE b # a
          BY <2>8, <4>1, <4>2 DEF Sound
        <4>3. CASE b = a
          <5>1. saved.row[Photo(b)] = row /\ saved.face[b] = face
            BY <1>1, <2>8, <4>3 DEF Sound, o
          <5>2. QED BY <2>6, <2>7, <2>8, <4>1, <4>3, <5>1 DEF AlbumFits, FaceFits, o
        <4>4. QED BY <4>2, <4>3
      <3>2. ObjectFits(row, d.entity[o])
        BY <1>1, <1>3, <2>6 DEF Sound, ObjectFits
      <3>3. QED BY <1>1, <2>6, <2>7, <2>8, <3>1, <3>2, PhotoAssumption DEF Sound
    <2>11. saved.row[o] # NoRow
      BY <1>1, <2>6, <2>8 DEF Sound
    <2>12. FlagSet(saved, e, o, private)
      BY <1>1, <2>4, <2>9, <2>11, SetPrivateOne
    <2>13. Fits(e.row[o], file, private)
      <3>1. e.row[o] = Flagged(row, private) /\ e.row[o] # NoRow
        BY <1>1, <2>8, <2>12 DEF Sound, FlagSet
      <3>2. QED BY <2>6, <3>1 DEF Fits, Rows, Flagged
    <2>14. QED BY <1>1, <2>8, <2>12, <2>13, GentleEntities DEF Sound, FlagSet, o
  <1>4. QED BY <1>2, <1>3

\* A folder that is written again keeps its tags.
LEMMA SaveFolderKeeps ==
    ASSUME NEW d, Sound(d), NEW a \in AlbumNames, NEW private \in BOOLEAN, NEW tags \in Stamps,
           NEW e, e = SaveFolder(d, a, private, tags)
    PROVE  /\ Sound(e) /\ e.scanned = d.scanned /\ Gentle(d, e) /\ e.row[Folder(a)] # NoRow
           /\ \A b \in AlbumNames : e.row[Photo(b)] = d.row[Photo(b)]
           /\ d.row[Folder(a)] # NoRow => e.entity = d.entity
  <1> DEFINE o == Folder(a)
  <1>1. o \in Objects /\ \A b \in AlbumNames : Photo(b) \in Objects \ {o}
    BY ObjectsOfAlbum DEF Photo, Folder
  <1>2. CASE d.row[o] = NoRow
    <2>1. PICK row : row = Row(tags, private, NoFile)
      OBVIOUS
    <2>2. row \in Rows /\ row.found = row.tags /\ row # NoRow
      BY <1>1, <2>1, RowType
    <2>3. e = AddRow(d, o, row)
      BY <1>2, <2>1 DEF SaveFolder
    <2>4. QED BY <1>1, <1>2, <2>2, <2>3, AddRowKeeps
  <1>3. CASE d.row[o] # NoRow
    <2>1. e = SetPrivate(d, {o}, Everywhere(private))
      BY <1>3 DEF SaveFolder
    <2>2. FlagSet(d, e, o, private)
      BY <1>1, <1>3, <2>1, SetPrivateOne
    <2>3. QED BY <1>1, <2>2, GentleEntities DEF FlagSet
  <1>4. QED BY <1>2, <1>3

\* Scans on record are forgotten, or stay; ScansFit: and then the row of the
\* photo says what it said.
ScansStay(d, e) == \A a \in AlbumNames : e.scanned[a] = NoSign \/ e.scanned[a] = d.scanned[a]
ScansFit(d, e) ==
    \A a \in AlbumNames : \/ e.scanned[a] = NoSign
                          \/ e.scanned[a] = d.scanned[a] /\ SaysTheSame(e.row[Photo(a)], d.row[Photo(a)])

\* Where no row of a photo changes, every scan still fits it.
LEMMA SameRows ==
    ASSUME NEW d, NEW e, e.scanned = d.scanned, \A a \in AlbumNames : e.row[Photo(a)] = d.row[Photo(a)]
    PROVE  ScansFit(d, e)
  BY DEF ScansFit, SaysTheSame

\* Scans that are what they were, or are gone, still fit where they fitted.
LEMMA FitsStay ==
    ASSUME NEW d, NEW e, ScansFit(d, e)
    PROVE  ScansStay(d, e)
  BY DEF ScansFit, ScansStay

\* What an edit of tags does to one identity.
Wants(d, e, objects, tags) ==
    \A o \in Objects : d.entity[o] # NoEntity =>
        /\ e.entity[o] # NoEntity
        /\ e.entity[o].wanted = IF o \in objects /\ ~Missing(d, o) THEN tags ELSE d.entity[o].wanted

\* An edit of tags goes to the identity, unless it is missing.
LEMMA EditedType ==
    ASSUME NEW entity \in Entities, NEW edit \in BOOLEAN, NEW tags \in Stamps
    PROVE  /\ Edited(entity, edit, tags) \in Entities /\ Edited(entity, edit, tags) # NoEntity
           /\ Edited(entity, edit, tags).missing = entity.missing /\ Edited(entity, edit, tags).kept = entity.kept
           /\ Edited(entity, edit, tags).print = entity.print
           /\ Edited(entity, edit, tags).wanted = IF entity.missing > 0 THEN entity.wanted ELSE tags
  <1>1. Edited(entity, edit, tags) \in Entities
    <2>1. PICK manual \in BOOLEAN : manual = (entity.manual \/ edit)
      OBVIOUS
    <2>2. PICK wanted \in Stamps : wanted = IF entity.missing > 0 THEN entity.wanted ELSE tags
      BY DEF Entities
    <2>3. [entity EXCEPT !.manual = manual, !.wanted = wanted] \in Entities
      BY DEF Entities
    <2>4. QED BY <2>1, <2>2, <2>3 DEF Edited
  <1>2. QED BY <1>1, PhotoAssumption DEF Edited, Entities

\* What becomes missing is kept with the tags that were set last.
LEMMA MissedType ==
    ASSUME NEW entity \in Entities, NEW row \in Rows, row.tags = entity.wanted,
           NEW missed, missed = [entity EXCEPT !.missing = 1, !.kept = row]
    PROVE  /\ missed \in Entities /\ missed # NoEntity /\ missed.wanted = entity.wanted /\ missed.print = entity.print
           /\ ObjectFits(NoRow, missed)
  <1>1. row # NoRow /\ missed.kept = row /\ missed.missing = 1 /\ missed.wanted = entity.wanted /\ missed.print = entity.print
    BY PhotoAssumption DEF Entities
  <1>2. missed = [missing |-> 1, manual |-> entity.manual, print |-> entity.print, changed |-> entity.changed,
                  kept |-> row, wanted |-> entity.wanted]
    BY DEF Entities
  <1>3. missed \in Entities
    BY <1>2 DEF Entities
  <1>4. missed # NoEntity
    BY <1>3, PhotoAssumption
  <1>5. ObjectFits(NoRow, missed)
    BY <1>1 DEF ObjectFits
  <1>6. QED BY <1>1, <1>3, <1>4, <1>5

\* Tags that are set are found by the search, and are wanted of all that is not
\* missing.
LEMMA SetTagsKeeps ==
    ASSUME NEW d, Sound(d), NEW objects \in SUBSET Objects, NEW tags \in Stamps, \A o \in objects : d.row[o] # NoRow,
           NEW e, e = SetTags(d, objects, tags)
    PROVE  Sound(e) /\ ScansFit(d, e) /\ NoneMissed(d, e) /\ SamePrints(d, e) /\ Wants(d, e, objects, tags)
  <1> DEFINE row(o) == IF o \in objects THEN Tagged(d.row[o], tags) ELSE d.row[o]
             wanted(o) == IF Missing(d, o) THEN d.entity[o].wanted ELSE tags
             entity(o) == IF o \in objects /\ d.entity[o] # NoEntity
                          THEN Edited(d.entity[o], tags # d.row[o].tags, tags) ELSE d.entity[o]
  <1>1. /\ e.row = [o \in Objects |-> row(o)] /\ e.entity = [o \in Objects |-> entity(o)]
        /\ e.face = d.face /\ e.hidden = d.hidden /\ e.scanned = d.scanned /\ DOMAIN e = Fields
    <2>1. DOMAIN d = {"row", "entity", "face", "hidden", "scanned", "root"}
      BY DEF Sound, Fields
    <2> DEFINE newRows == [o \in Objects |-> row(o)]
               entities == [o \in Objects |-> entity(o)]
    <2>2. e = [d EXCEPT !.row = newRows, !.entity = entities]
      BY DEF SetTags
    <2> HIDE DEF newRows, entities
    <2>3. e.row = newRows /\ e.entity = entities /\ e.face = d.face /\ e.hidden = d.hidden /\ e.scanned = d.scanned
          /\ DOMAIN e = Fields
      BY <2>1, <2>2 DEF Fields
    <2>4. QED BY <2>3 DEF newRows, entities
  <1>2. ASSUME NEW o \in Objects
        PROVE  /\ row(o) \in Rows \cup {NoRow} /\ (row(o) = NoRow <=> d.row[o] = NoRow)
               /\ row(o) # NoRow => row(o).private = d.row[o].private /\ row(o).content = d.row[o].content
                                    /\ row(o).changed = d.row[o].changed
               /\ row(o).found = row(o).tags \/ row(o) = NoRow
               /\ o \in objects => row(o).tags = tags
               /\ o \notin objects => row(o) = d.row[o]
    <2>1. d.row[o] \in Rows \cup {NoRow} /\ ObjectFits(d.row[o], d.entity[o])
      BY DEF Sound
    <2>2. CASE o \in objects
      <3>1. d.row[o] \in Rows /\ row(o) \in Rows
        BY <2>1, <2>2 DEF Rows, Tagged
      <3>2. QED BY <2>2, <3>1, PhotoAssumption DEF Rows, Tagged
    <2>3. CASE o \notin objects
      BY <2>1, <2>3 DEF ObjectFits
    <2>4. QED BY <2>2, <2>3
  <1>3. ASSUME NEW o \in Objects
        PROVE  /\ entity(o) \in Entities \cup {NoEntity} /\ (entity(o) = NoEntity <=> d.entity[o] = NoEntity)
               /\ entity(o) # NoEntity => /\ entity(o).missing = d.entity[o].missing /\ entity(o).kept = d.entity[o].kept
                                          /\ entity(o).print = d.entity[o].print
                                          /\ entity(o).wanted = IF o \in objects THEN wanted(o) ELSE d.entity[o].wanted
    <2>1. d.entity[o] \in Entities \cup {NoEntity}
      BY DEF Sound
    <2>2. CASE o \in objects /\ d.entity[o] # NoEntity
      <3>1. d.entity[o] \in Entities /\ (tags # d.row[o].tags) \in BOOLEAN
        BY <2>1, <2>2
      <3>2. PICK k \in Entities, edit \in BOOLEAN : k = d.entity[o] /\ edit = (tags # d.row[o].tags)
        BY <3>1
      <3>3. PICK t : t = Edited(k, edit, tags)
        OBVIOUS
      <3>4. /\ t \in Entities /\ t # NoEntity /\ t.missing = k.missing /\ t.kept = k.kept /\ t.print = k.print
            /\ t.wanted = IF k.missing > 0 THEN k.wanted ELSE tags
        BY <3>3, EditedType
      <3>5. entity(o) = t
        BY <2>2, <3>2, <3>3
      <3>6. k.missing > 0 <=> Missing(d, o)
        BY <2>2, <3>2 DEF Missing
      <3> HIDE DEF entity
      <3>7. QED BY <2>2, <3>2, <3>4, <3>5, <3>6
    <2>3. CASE ~(o \in objects /\ d.entity[o] # NoEntity)
      BY <2>1, <2>3
    <2>4. QED BY <2>2, <2>3
  <1> HIDE DEF row, entity
  <1>4. ASSUME NEW o \in Objects
        PROVE  ObjectFits(row(o), entity(o))
    <2>1. ObjectFits(d.row[o], d.entity[o])
      BY DEF Sound
    <2>2. QED BY <1>2, <1>3, <2>1 DEF ObjectFits, Missing
  <1>5. ASSUME NEW a \in AlbumNames
        PROVE  AlbumFits(row(Photo(a)), entity(Photo(a)), d.face[a], d.hidden[a])
    <2>1. Photo(a) \in Objects /\ AlbumFits(d.row[Photo(a)], d.entity[Photo(a)], d.face[a], d.hidden[a])
      BY ObjectsOfAlbum DEF Sound
    <2>2. QED BY <1>2, <1>3, <2>1 DEF AlbumFits, FaceFits
  <1>6. Sound(e)
    BY <1>1, <1>2, <1>3, <1>4, <1>5, ObjectsOfAlbum DEF Sound
  <1>7. ScansFit(d, e)
    BY <1>1, <1>2, ObjectsOfAlbum DEF ScansFit, SaysTheSame
  <1>8. NoneMissed(d, e) /\ SamePrints(d, e)
    BY <1>1, <1>3 DEF NoneMissed, SamePrints, Missing
  <1>9. Wants(d, e, objects, tags)
    BY <1>1, <1>3 DEF Wants
  <1>10. QED BY <1>6, <1>7, <1>8, <1>9

\* Of what is no longer there the row is kept.
DropFits(d, e, o) ==
    /\ Sound(e) /\ e.scanned = d.scanned /\ SameWanted(d, e) /\ SamePrints(d, e) /\ e.row[o] = NoRow
    /\ \A p \in Objects \ {o} : e.row[p] = d.row[p] /\ e.entity[p] = d.entity[p]

\* What is dropped from the index is kept of its identity, with the face; an
\* identity that is missing already keeps what is kept of it.
LEMMA DropKeeps ==
    ASSUME NEW d, Sound(d), NEW o \in Objects, NEW e, e = Drop(d, o)
    PROVE  DropFits(d, e, o)
  <1> DEFINE a == AlbumOf(o)
             kept == d.entity[o] # NoEntity /\ ~Missing(d, o)
             entity == IF kept THEN [d.entity[o] EXCEPT !.missing = 1, !.kept = d.row[o]] ELSE d.entity[o]
             hidden == IF kept /\ IsPhoto(o) /\ d.face[a] # NoFace THEN [d.face[a] EXCEPT !.held = TRUE] ELSE d.hidden[a]
             face == IF IsPhoto(o) THEN NoFace ELSE d.face[a]
  <1>1. a \in AlbumNames /\ (IsPhoto(o) => o = Photo(a)) /\ \A b \in AlbumNames : o = Photo(b) => b = a /\ IsPhoto(o)
    BY ObjectIs
  <1>2. /\ e.row = [d.row EXCEPT ![o] = NoRow] /\ e.entity = [d.entity EXCEPT ![o] = entity]
        /\ e.hidden = [d.hidden EXCEPT ![a] = hidden] /\ e.face = [d.face EXCEPT ![a] = face]
        /\ e.scanned = d.scanned /\ DOMAIN e = Fields
    <2>1. PICK r : r = Retain(d, o)
      OBVIOUS
    <2>2. DOMAIN d = Fields /\ d.entity = [d.entity EXCEPT ![o] = @] /\ d.hidden = [d.hidden EXCEPT ![a] = @]
      BY DEF Sound
    <2>3. CASE kept
      <3>1. r = [d EXCEPT !.entity[o].missing = 1, !.entity[o].kept = d.row[o], !.hidden[a] = hidden]
        BY <2>1, <2>3 DEF Retain
      <3>2. /\ r.row = d.row /\ r.entity = [d.entity EXCEPT ![o] = entity] /\ r.hidden = [d.hidden EXCEPT ![a] = hidden]
            /\ r.face = d.face /\ r.scanned = d.scanned /\ DOMAIN r = Fields
        BY <2>2, <2>3, <3>1 DEF Fields
      <3>3. QED BY <2>1, <3>2 DEF Drop, Discard, Fields
    <2>4. CASE ~kept
      <3>1. r = d /\ entity = d.entity[o] /\ hidden = d.hidden[a]
        BY <2>1, <2>4 DEF Retain
      <3>2. QED BY <2>1, <2>2, <3>1 DEF Drop, Discard, Fields
    <2>5. QED BY <2>3, <2>4
  <1>3. d.entity[o] \in Entities \cup {NoEntity} /\ d.row[o] \in Rows \cup {NoRow} /\ ObjectFits(d.row[o], d.entity[o])
        /\ d.face[a] \in Faces \cup {NoFace} /\ d.hidden[a] \in Faces \cup {NoFace}
    BY <1>1 DEF Sound
  <1>4. /\ entity \in Entities \cup {NoEntity} /\ (entity = NoEntity <=> d.entity[o] = NoEntity)
        /\ entity # NoEntity => entity.wanted = d.entity[o].wanted /\ entity.print = d.entity[o].print
        /\ ObjectFits(NoRow, entity)
    <2>1. CASE kept
      <3>1. d.row[o] # NoRow /\ d.row[o].tags = d.entity[o].wanted /\ d.entity[o] \in Entities /\ d.row[o] \in Rows
        BY <1>3, <2>1 DEF ObjectFits, Missing, Entities
      <3>2. PICK missed : missed = [d.entity[o] EXCEPT !.missing = 1, !.kept = d.row[o]]
        OBVIOUS
      <3>3. entity = missed
        BY <2>1, <3>2
      <3> HIDE DEF entity
      <3>4. QED BY <2>1, <3>1, <3>2, <3>3, MissedType DEF kept
    <2>2. CASE ~kept
      BY <1>3, <2>2 DEF ObjectFits, Missing
    <2>3. QED BY <2>1, <2>2
  <1>5. /\ face \in Faces \cup {NoFace} /\ (face # NoFace => face = d.face[a] /\ ~IsPhoto(o))
    BY <1>3
  <1>6. hidden \in Faces \cup {NoFace} /\ (~IsPhoto(o) => hidden = d.hidden[a])
    BY <1>3 DEF Faces
  <1>7. IsPhoto(o) => AlbumFits(NoRow, entity, NoFace, hidden)
    <2>1. SUFFICES ASSUME IsPhoto(o) PROVE AlbumFits(NoRow, entity, NoFace, hidden)
      OBVIOUS
    <2>2. AlbumFits(d.row[o], d.entity[o], d.face[a], d.hidden[a])
      BY <1>1, <2>1 DEF Sound
    <2>3. CASE kept /\ d.face[a] # NoFace
      <3>1. hidden.owned = d.face[a].owned /\ hidden.held = TRUE /\ hidden.review = d.face[a].review /\ hidden.hash = d.face[a].hash
        BY <1>3, <2>1, <2>3 DEF Faces
      <3> HIDE DEF hidden, entity
      <3>2. QED BY <1>4, <2>2, <2>3, <3>1 DEF AlbumFits, FaceFits
    <2>4. CASE ~(kept /\ d.face[a] # NoFace)
      <3>1. hidden = d.hidden[a]
        BY <2>4
      <3> HIDE DEF hidden, entity
      <3>2. QED BY <1>4, <2>2, <3>1 DEF AlbumFits, FaceFits
    <2>5. QED BY <2>3, <2>4
  <1> HIDE DEF a, entity, hidden, face, kept
  <1>8. ASSUME NEW b \in AlbumNames
        PROVE  AlbumFits(e.row[Photo(b)], e.entity[Photo(b)], e.face[b], e.hidden[b])
    <2>1. Photo(b) \in Objects /\ AlbumFits(d.row[Photo(b)], d.entity[Photo(b)], d.face[b], d.hidden[b])
      BY ObjectsOfAlbum DEF Sound
    <2>2. CASE o = Photo(b)
      <3>1. e.row[Photo(b)] = NoRow /\ e.entity[Photo(b)] = entity /\ e.face[b] = NoFace /\ e.hidden[b] = hidden
        BY <1>1, <1>2, <1>5, <2>1, <2>2 DEF Sound
      <3>2. QED BY <1>1, <1>7, <2>2, <3>1
    <2>3. CASE o # Photo(b)
      <3>1. /\ e.row[Photo(b)] = d.row[Photo(b)] /\ e.entity[Photo(b)] = d.entity[Photo(b)]
            /\ (b # a => e.face[b] = d.face[b] /\ e.hidden[b] = d.hidden[b])
            /\ (b = a => e.face[b] = face /\ e.hidden[b] = hidden)
        BY <1>1, <1>2, <2>1, <2>3 DEF Sound
      <3>2. b = a => ~IsPhoto(o) 
        BY <1>1, <2>3
      <3>3. b = a => hidden = d.hidden[a] /\ face = d.face[a]
        BY <1>6, <3>2 DEF face
      <3>4. QED BY <2>1, <3>1, <3>3
    <2>4. QED BY <2>2, <2>3
  <1>9. Sound(e)
    BY <1>1, <1>2, <1>4, <1>5, <1>6, <1>8, PhotoAssumption DEF Sound, ObjectFits
  <1>10. SameWanted(d, e) /\ SamePrints(d, e)
    BY <1>2, <1>4 DEF SameWanted, SamePrints, Sound
  <1>11. QED BY <1>2, <1>9, <1>10 DEF Sound, DropFits

\* Forgotten scans do no harm.
LEMMA UnscannedKeeps ==
    ASSUME NEW d, Sound(d), NEW albums, NEW e, e = Unscanned(d, albums)
    PROVE  /\ Sound(e) /\ e.row = d.row /\ e.entity = d.entity /\ e.face = d.face /\ e.hidden = d.hidden
           /\ \A a \in AlbumNames : e.scanned[a] = IF a \in albums THEN NoSign ELSE d.scanned[a]
  <1> DEFINE scanned(a) == IF a \in albums THEN NoSign ELSE d.scanned[a]
  <1>1. /\ e.row = d.row /\ e.entity = d.entity /\ e.face = d.face /\ e.hidden = d.hidden /\ DOMAIN e = Fields
        /\ e.scanned = [a \in AlbumNames |-> scanned(a)]
    BY DEF Unscanned, Sound, Fields
  <1>2. \A a \in AlbumNames : scanned(a) \in Signs \cup {NoSign}
    BY DEF Sound
  <1> HIDE DEF scanned
  <1>3. Sound(e)
    BY <1>1, <1>2 DEF Sound
  <1>4. QED BY <1>1, <1>3 DEF scanned

\* Only what is of the album becomes missing.
DropAlbumFits(d, e, a) ==
    /\ Sound(e) /\ ScansFit(d, e) /\ SameWanted(d, e) /\ SamePrints(d, e)
    /\ \A o \in Objects : AlbumOf(o) # a => e.entity[o] = d.entity[o]

\* An album goes with its photo and its scan.
LEMMA DropAlbumKeeps ==
    ASSUME NEW d, Sound(d), NEW a \in AlbumNames, NEW e, e = DropAlbum(d, a)
    PROVE  DropAlbumFits(d, e, a)
  <1>1. /\ Photo(a) \in Objects /\ Folder(a) \in Objects /\ AlbumOf(Photo(a)) = a /\ AlbumOf(Folder(a)) = a
        /\ \A b \in AlbumNames : b # a => Photo(b) \in Objects \ {Photo(a), Folder(a)}
    BY DEF Photo, Folder, Objects, AlbumOf
  <1>2. PICK f : f = Drop(d, Photo(a))
    OBVIOUS
  <1>3. PICK g : g = Drop(f, Folder(a))
    OBVIOUS
  <1>4. e = [g EXCEPT !.scanned[a] = NoSign]
    BY <1>2, <1>3 DEF DropAlbum
  <1>5. /\ Sound(f) /\ f.scanned = d.scanned /\ SameWanted(d, f) /\ SamePrints(d, f)
        /\ \A p \in Objects \ {Photo(a)} : f.row[p] = d.row[p] /\ f.entity[p] = d.entity[p]
    BY <1>1, <1>2, DropKeeps DEF DropFits
  <1>6. /\ Sound(g) /\ g.scanned = f.scanned /\ SameWanted(f, g) /\ SamePrints(f, g)
        /\ \A p \in Objects \ {Folder(a)} : g.row[p] = f.row[p] /\ g.entity[p] = f.entity[p]
    <2>1. DropFits(f, g, Folder(a))
      BY <1>1, <1>3, <1>5, DropKeeps
    <2>2. QED BY <2>1 DEF DropFits
  <1>7. /\ e.row = g.row /\ e.entity = g.entity /\ e.face = g.face /\ e.hidden = g.hidden /\ DOMAIN e = Fields
        /\ e.scanned = [g.scanned EXCEPT ![a] = NoSign]
    BY <1>4, <1>6 DEF Sound, Fields
  <1>8. Sound(e)
    BY <1>6, <1>7 DEF Sound
  <1>9. ScansFit(d, e)
    BY <1>1, <1>5, <1>6, <1>7 DEF ScansFit, SaysTheSame, Sound
  <1>10. SameWanted(d, e)
    BY <1>5, <1>6, <1>7 DEF SameWanted
  <1>11. SamePrints(d, e)
    BY <1>5, <1>6, <1>7 DEF SamePrints
  <1>12. \A o \in Objects : AlbumOf(o) # a => e.entity[o] = d.entity[o]
    BY <1>1, <1>5, <1>6, <1>7
  <1>13. QED BY <1>8, <1>9, <1>10, <1>11, <1>12 DEF DropAlbumFits

\* An identity that is back has what was kept of it.
LEMMA BackType ==
    ASSUME NEW entity \in Entities, entity.kept # NoRow, entity.kept.tags = entity.wanted,
           NEW back, back = [entity EXCEPT !.missing = 0, !.kept = NoRow],
           NEW row, row = [entity.kept EXCEPT !.found = entity.kept.tags]
    PROVE  /\ back \in Entities /\ back # NoEntity /\ back.wanted = entity.wanted /\ back.print = entity.print
           /\ back.missing = 0
           /\ row \in Rows /\ row # NoRow /\ row.private = entity.kept.private /\ row.tags = entity.wanted
           /\ ObjectFits(row, back)
  <1>1. entity.kept \in Rows
    BY DEF Entities
  <1>2. row \in Rows
    BY <1>1 DEF Rows
  <1>3. back = [missing |-> 0, manual |-> entity.manual, print |-> entity.print, changed |-> entity.changed,
                kept |-> NoRow, wanted |-> entity.wanted]
    BY DEF Entities
  <1>4. back \in Entities
    BY <1>3 DEF Entities
  <1>5. row.found = row.tags /\ row.tags = entity.wanted /\ row.private = entity.kept.private /\ row # NoRow
    BY <1>1, <1>2, PhotoAssumption DEF Rows
  <1>6. back # NoEntity /\ back.wanted = entity.wanted /\ back.print = entity.print /\ back.missing = 0 /\ back.kept = NoRow
    BY <1>3, <1>4, PhotoAssumption
  <1>7. ObjectFits(row, back)
    BY <1>5, <1>6 DEF ObjectFits
  <1>8. QED BY <1>2, <1>4, <1>5, <1>6, <1>7

\* A row that comes back is the row that was kept, with its tags; its face comes back
\* with it, unless the photo is private.
LEMMA RestoredKeeps ==
    ASSUME NEW d, Sound(d), NEW o \in Objects, Missing(d, o), d.row[o] = NoRow, NEW e, e = Restored(d, o)
    PROVE  Sound(e) /\ ScansFit(d, e) /\ Gentle(d, e)
  <1> DEFINE a == AlbumOf(o)
             kept == d.entity[o].kept
             open == IsPhoto(o) /\ ~kept.private /\ d.hidden[a] # NoFace /\ d.hidden[a].held
             hidden == IF open THEN NoFace ELSE d.hidden[a]
             face == IF open THEN [d.hidden[a] EXCEPT !.held = FALSE] ELSE d.face[a]
             put == [d EXCEPT !.row[o] = [kept EXCEPT !.found = kept.tags],
                              !.entity[o].missing = 0, !.entity[o].kept = NoRow, !.hidden[a] = hidden, !.face[a] = face]
  <1>1. a \in AlbumNames /\ \A b \in AlbumNames : o = Photo(b) <=> b = a /\ IsPhoto(o)
    BY ObjectIs
  <1>2. PICK row : row = [kept EXCEPT !.found = kept.tags]
    OBVIOUS
  <1>3. PICK entity : entity = [d.entity[o] EXCEPT !.missing = 0, !.kept = NoRow]
    OBVIOUS
  <1>4. d.entity[o] \in Entities /\ d.entity[o].kept # NoRow /\ d.entity[o].kept.tags = d.entity[o].wanted /\ d.entity[o] # NoEntity
        /\ d.face[a] \in Faces \cup {NoFace} /\ d.hidden[a] \in Faces \cup {NoFace}
    BY <1>1 DEF Sound, ObjectFits, Missing
  <1>5. /\ entity \in Entities /\ entity # NoEntity /\ entity.wanted = d.entity[o].wanted /\ entity.print = d.entity[o].print
        /\ entity.missing = 0
        /\ row \in Rows /\ row # NoRow /\ row.private = kept.private
        /\ ObjectFits(row, entity)
    BY <1>2, <1>3, <1>4, BackType
  <1>6. PICK f : f = put
    OBVIOUS
  <1>7. e = Unscanned(f, {a})
    BY <1>6 DEF Restored
  <1>8. /\ f.row = [d.row EXCEPT ![o] = row] /\ f.entity = [d.entity EXCEPT ![o] = entity]
        /\ f.hidden = [d.hidden EXCEPT ![a] = hidden] /\ f.face = [d.face EXCEPT ![a] = face]
        /\ f.scanned = d.scanned /\ DOMAIN f = Fields
    BY <1>2, <1>3, <1>6 DEF Sound, Fields
  <1>9. /\ face \in Faces \cup {NoFace} /\ hidden \in Faces \cup {NoFace} /\ (~IsPhoto(o) => face = d.face[a] /\ hidden = d.hidden[a])
    BY <1>4 DEF Faces
  <1>10. IsPhoto(o) => AlbumFits(row, entity, face, hidden)
    <2>1. SUFFICES ASSUME IsPhoto(o) PROVE AlbumFits(row, entity, face, hidden)
      OBVIOUS
    <2>2. AlbumFits(NoRow, d.entity[o], d.face[a], d.hidden[a])
      BY <1>1, <2>1 DEF Sound
    <2>3. d.face[a] = NoFace /\ (d.hidden[a] # NoFace => FaceFits(d.hidden[a], d.entity[o]) /\ (d.hidden[a].owned => d.hidden[a].held))
      BY <2>2 DEF AlbumFits
    <2>4. CASE open
      <3>1. d.hidden[a] \in Faces /\ hidden = NoFace
        BY <1>4, <2>4
      <3>2. face.owned = d.hidden[a].owned /\ face.hash = d.hidden[a].hash /\ face.review = d.hidden[a].review
        BY <2>4, <3>1 DEF Faces
      <3>3. ~row.private
        BY <1>5, <2>4
      <3> HIDE DEF face, hidden
      <3>4. QED BY <1>5, <2>3, <2>4, <3>1, <3>2, <3>3 DEF AlbumFits, FaceFits
    <2>5. CASE ~open
      <3>1. face = NoFace /\ hidden = d.hidden[a]
        BY <2>3, <2>5
      <3> HIDE DEF face, hidden
      <3>2. QED BY <1>5, <2>3, <3>1 DEF AlbumFits, FaceFits
    <2>6. QED BY <2>4, <2>5
  <1> HIDE DEF a, kept, hidden, face, open, put
  <1>11. ASSUME NEW b \in AlbumNames
        PROVE  AlbumFits(f.row[Photo(b)], f.entity[Photo(b)], f.face[b], f.hidden[b])
    <2>1. Photo(b) \in Objects /\ AlbumFits(d.row[Photo(b)], d.entity[Photo(b)], d.face[b], d.hidden[b])
      BY ObjectsOfAlbum DEF Sound
    <2>2. CASE o = Photo(b)
      <3>1. b = a /\ IsPhoto(o)
        BY <1>1, <2>2
      <3>2. f.row[Photo(b)] = row /\ f.entity[Photo(b)] = entity /\ f.face[b] = face /\ f.hidden[b] = hidden
        BY <1>8, <2>1, <2>2, <3>1 DEF Sound
      <3>3. QED BY <1>10, <3>1, <3>2
    <2>3. CASE o # Photo(b)
      <3>1. /\ f.row[Photo(b)] = d.row[Photo(b)] /\ f.entity[Photo(b)] = d.entity[Photo(b)]
            /\ (b # a => f.face[b] = d.face[b] /\ f.hidden[b] = d.hidden[b])
            /\ (b = a => f.face[b] = face /\ f.hidden[b] = hidden)
        BY <1>1, <1>8, <2>1, <2>3 DEF Sound
      <3>2. b = a => ~IsPhoto(o)
        BY <1>1, <2>3
      <3>3. QED BY <1>9, <2>1, <3>1, <3>2
    <2>4. QED BY <2>2, <2>3
  <1>12. Sound(f)
    BY <1>1, <1>5, <1>8, <1>9, <1>11 DEF Sound
  <1>13. /\ Sound(e) /\ e.row = f.row /\ e.entity = f.entity
         /\ \A b \in AlbumNames : e.scanned[b] = IF b \in {a} THEN NoSign ELSE f.scanned[b]
    BY <1>7, <1>12, UnscannedKeeps
  <1>14. ScansFit(d, e)
    <2>1. ASSUME NEW b \in AlbumNames, b # a
          PROVE  e.scanned[b] = d.scanned[b] /\ e.row[Photo(b)] = d.row[Photo(b)]
      BY <1>1, <1>8, <1>13, <2>1, ObjectsOfAlbum DEF Sound
    <2>2. QED BY <1>13, <2>1 DEF ScansFit, SaysTheSame
  <1>15. Gentle(d, e)
    BY <1>4, <1>5, <1>8, <1>13 DEF Gentle, SameWanted, NoneMissed, SamePrints, Missing, Sound
  <1>16. QED BY <1>13, <1>14, <1>15

\* A purge takes identities and no rows; faces that are left over are nobody's.
LEMMA PurgedKeeps ==
    ASSUME NEW d, Sound(d), NEW objects \in SUBSET Objects, NEW e, e = Purged(d, objects)
    PROVE  /\ Sound(e) /\ ScansFit(d, e) /\ NoneMissed(d, e) /\ SamePrints(d, e) /\ e.row = d.row
           /\ \A o \in Objects \ objects : e.entity[o] = d.entity[o]
  <1> DEFINE entity(o) == IF o \in objects THEN NoEntity ELSE d.entity[o]
             hidden(a) == IF Photo(a) \in objects THEN Released(d.hidden[a]) ELSE d.hidden[a]
             face(a) == IF Photo(a) \in objects THEN Disowned(d.face[a]) ELSE d.face[a]
  <1>1. /\ e.entity = [o \in Objects |-> entity(o)] /\ e.hidden = [a \in AlbumNames |-> hidden(a)]
        /\ e.face = [a \in AlbumNames |-> face(a)] /\ e.row = d.row /\ e.scanned = d.scanned /\ DOMAIN e = Fields
    BY DEF Purged, Sound, Fields
  <1>2. ASSUME NEW o \in Objects
        PROVE  entity(o) \in Entities \cup {NoEntity} /\ ObjectFits(d.row[o], entity(o))
    <2>1. d.entity[o] \in Entities \cup {NoEntity} /\ ObjectFits(d.row[o], d.entity[o])
      BY DEF Sound
    <2>2. QED BY <2>1 DEF ObjectFits
  <1>3. ASSUME NEW a \in AlbumNames
        PROVE  /\ face(a) \in Faces \cup {NoFace} /\ hidden(a) \in Faces \cup {NoFace}
               /\ AlbumFits(d.row[Photo(a)], entity(Photo(a)), face(a), hidden(a))
    <2>1. /\ d.face[a] \in Faces \cup {NoFace} /\ d.hidden[a] \in Faces \cup {NoFace}
          /\ AlbumFits(d.row[Photo(a)], d.entity[Photo(a)], d.face[a], d.hidden[a])
      BY ObjectsOfAlbum DEF Sound
    <2>2. CASE Photo(a) \notin objects
      BY <2>1, <2>2
    <2>3. CASE Photo(a) \in objects
      <3>1. hidden(a) = Released(d.hidden[a]) /\ face(a) = Disowned(d.face[a]) /\ entity(Photo(a)) = NoEntity
        BY <2>3
      <3> HIDE DEF hidden, face, entity
      <3>2. hidden(a) \in Faces \cup {NoFace} /\ (hidden(a) # NoFace => hidden(a) = d.hidden[a] /\ ~d.hidden[a].held)
        BY <2>1, <3>1 DEF Released
      <3>3. /\ face(a) \in Faces \cup {NoFace} /\ (face(a) # NoFace => d.face[a] # NoFace /\ face(a).owned = FALSE)
        BY <2>1, <3>1 DEF Disowned, Faces
      <3>4. QED BY <2>1, <3>1, <3>2, <3>3 DEF AlbumFits, FaceFits
    <2>4. QED BY <2>2, <2>3
  <1> HIDE DEF entity, hidden, face
  <1>4. Sound(e)
    BY <1>1, <1>2, <1>3, ObjectsOfAlbum DEF Sound
  <1>5. \A o \in Objects : e.entity[o] = NoEntity \/ e.entity[o] = d.entity[o]
    BY <1>1 DEF entity
  <1>6. NoneMissed(d, e) /\ SamePrints(d, e)
    BY <1>5 DEF NoneMissed, SamePrints, Missing
  <1>7. QED BY <1>1, <1>4, <1>6, SameRows DEF entity

\* Time alone changes no more than how long something has been missing.
LEMMA SevenDaysKeeps ==
    ASSUME NEW d, Sound(d),
           NEW e, e = [d EXCEPT !.entity = [o \in Objects |-> IF Missing(d, o) THEN [@[o] EXCEPT !.missing = 2] ELSE @[o]]]
    PROVE  Sound(e) /\ ScansFit(d, e) /\ Gentle(d, e) /\ e.row = d.row
  <1> DEFINE entity(o) == IF Missing(d, o) THEN [d.entity[o] EXCEPT !.missing = 2] ELSE d.entity[o]
  <1>1. /\ e.entity = [o \in Objects |-> entity(o)] /\ e.hidden = d.hidden
        /\ e.face = d.face /\ e.row = d.row /\ e.scanned = d.scanned /\ DOMAIN e = Fields
    BY DEF Sound, Fields
  <1>2. ASSUME NEW o \in Objects
        PROVE  /\ entity(o) \in Entities \cup {NoEntity} /\ ObjectFits(d.row[o], entity(o))
               /\ (entity(o) = NoEntity <=> d.entity[o] = NoEntity)
               /\ entity(o) # NoEntity => entity(o).wanted = d.entity[o].wanted /\ entity(o).print = d.entity[o].print
                                          /\ (entity(o).missing > 0 => d.entity[o].missing > 0)
    <2>1. d.entity[o] \in Entities \cup {NoEntity} /\ ObjectFits(d.row[o], d.entity[o])
      BY DEF Sound
    <2>2. CASE Missing(d, o)
      <3>1. PICK t : t = [d.entity[o] EXCEPT !.missing = 2]
        OBVIOUS
      <3>2. t = [missing |-> 2, manual |-> d.entity[o].manual, print |-> d.entity[o].print, changed |-> d.entity[o].changed,
                 kept |-> d.entity[o].kept, wanted |-> d.entity[o].wanted]
        BY <2>1, <2>2, <3>1 DEF Entities, Missing
      <3>3. t \in Entities
        BY <2>1, <2>2, <3>2 DEF Entities, Missing
      <3>4. t.missing = 2 /\ t.kept = d.entity[o].kept /\ t.wanted = d.entity[o].wanted /\ t.print = d.entity[o].print /\ t # NoEntity
        BY <3>2, <3>3, PhotoAssumption
      <3>5. entity(o) = t
        BY <2>2, <3>1
      <3>6. ObjectFits(d.row[o], t)
        BY <2>1, <2>2, <3>4 DEF ObjectFits, Missing
      <3> HIDE DEF entity
      <3>7. QED BY <2>2, <3>3, <3>4, <3>5, <3>6 DEF Missing
    <2>3. CASE ~Missing(d, o)
      BY <2>1, <2>3
    <2>4. QED BY <2>2, <2>3
  <1> HIDE DEF entity
  <1>3. ASSUME NEW a \in AlbumNames
        PROVE  AlbumFits(d.row[Photo(a)], entity(Photo(a)), d.face[a], d.hidden[a])
    <2>1. Photo(a) \in Objects /\ AlbumFits(d.row[Photo(a)], d.entity[Photo(a)], d.face[a], d.hidden[a])
      BY ObjectsOfAlbum DEF Sound
    <2>2. QED BY <1>2, <2>1 DEF AlbumFits, FaceFits
  <1>4. Sound(e)
    <2>1. e.entity \in [Objects -> Entities \cup {NoEntity}]
      BY <1>1, <1>2
    <2>2. \A o \in Objects : ObjectFits(e.row[o], e.entity[o])
      BY <1>1, <1>2
    <2>3. \A a \in AlbumNames : AlbumFits(e.row[Photo(a)], e.entity[Photo(a)], e.face[a], e.hidden[a])
      BY <1>1, <1>3, ObjectsOfAlbum
    <2>4. QED BY <1>1, <2>1, <2>2, <2>3 DEF Sound
  <1>5. Gentle(d, e)
    BY <1>1, <1>2 DEF Gentle, SameWanted, NoneMissed, SamePrints, Missing
  <1>6. QED BY <1>1, <1>4, <1>5, SameRows

\* The identities that a start finds rows without.
Known(d) == [d EXCEPT !.entity = [o \in Objects |-> IF @[o] = NoEntity /\ d.row[o] # NoRow THEN Newcomer(d.row[o].tags) ELSE @[o]]]

\* At a start, rows without an identity get one that wants the tags they have.
LEMMA KnownKeeps ==
    ASSUME NEW d, Sound(d), NEW e, e = Known(d)
    PROVE  Sound(e) /\ e.scanned = d.scanned /\ Gentle(d, e) /\ e.row = d.row
  <1> DEFINE entity(o) == IF d.entity[o] = NoEntity /\ d.row[o] # NoRow THEN Newcomer(d.row[o].tags) ELSE d.entity[o]
  <1>1. /\ e.entity = [o \in Objects |-> entity(o)] /\ e.hidden = d.hidden
        /\ e.face = d.face /\ e.row = d.row /\ e.scanned = d.scanned /\ DOMAIN e = Fields
    BY DEF Known, Sound, Fields
  <1>2. ASSUME NEW o \in Objects
        PROVE  /\ entity(o) \in Entities \cup {NoEntity} /\ ObjectFits(d.row[o], entity(o))
               /\ d.entity[o] # NoEntity => entity(o) = d.entity[o]
               /\ d.entity[o] = NoEntity /\ entity(o) # NoEntity => entity(o).print = Unread /\ entity(o).missing = 0
    <2>1. d.entity[o] \in Entities \cup {NoEntity} /\ ObjectFits(d.row[o], d.entity[o]) /\ d.row[o] \in Rows \cup {NoRow}
      BY DEF Sound
    <2>2. CASE d.entity[o] = NoEntity /\ d.row[o] # NoRow
      <3>1. d.row[o].tags \in Stamps
        BY <2>1, <2>2 DEF Rows
      <3>2. entity(o) = Newcomer(d.row[o].tags)
        BY <2>2
      <3> HIDE DEF entity
      <3>3. QED BY <2>1, <2>2, <3>1, <3>2, NewcomerType DEF ObjectFits
    <2>3. CASE ~(d.entity[o] = NoEntity /\ d.row[o] # NoRow)
      BY <2>1, <2>3
    <2>4. QED BY <2>2, <2>3
  <1> HIDE DEF entity
  <1>3. ASSUME NEW a \in AlbumNames
        PROVE  AlbumFits(d.row[Photo(a)], entity(Photo(a)), d.face[a], d.hidden[a])
    <2>1. Photo(a) \in Objects /\ AlbumFits(d.row[Photo(a)], d.entity[Photo(a)], d.face[a], d.hidden[a])
      BY ObjectsOfAlbum DEF Sound
    <2>2. CASE d.entity[Photo(a)] # NoEntity
      BY <1>2, <2>1, <2>2
    <2>3. CASE d.entity[Photo(a)] = NoEntity
      BY <2>1, <2>3 DEF AlbumFits, FaceFits
    <2>4. QED BY <2>2, <2>3
  <1>4. Sound(e)
    BY <1>1, <1>2, <1>3, ObjectsOfAlbum DEF Sound
  <1>5. Gentle(d, e)
    BY <1>1, <1>2 DEF Gentle, SameWanted, NoneMissed, SamePrints, Missing
  <1>6. QED BY <1>1, <1>4, <1>5

\* A face that is put in doubt stays the face it was.
SameFace(face, other) == /\ face \in Faces \cup {NoFace} /\ (face # NoFace <=> other # NoFace)
                         /\ face # NoFace => face.owned = other.owned /\ face.hash = other.hash /\ face.held = other.held

\* Doubt of a face changes nothing else of it.
LEMMA DoubtedType ==
    ASSUME NEW face \in Faces \cup {NoFace}, NEW doubt \in BOOLEAN
    PROVE  /\ SameFace(Doubted(face, doubt), face)
           /\ face # NoFace => (Doubted(face, doubt).review <=> face.review \/ doubt)
  <1>1. CASE face # NoFace /\ doubt
    <2>1. PICK t : t = [face EXCEPT !.review = TRUE]
      OBVIOUS
    <2>2. t \in Faces /\ t.owned = face.owned /\ t.hash = face.hash /\ t.held = face.held /\ t.review
      BY <1>1, <2>1 DEF Faces
    <2>3. Doubted(face, doubt) = t /\ t # NoFace
      BY <1>1, <2>1, <2>2, PhotoAssumption DEF Doubted
    <2>4. QED BY <1>1, <2>2, <2>3 DEF SameFace
  <1>2. CASE ~(face # NoFace /\ doubt)
    <2>1. Doubted(face, doubt) = face
      BY <1>2 DEF Doubted
    <2>2. QED BY <1>2, <2>1 DEF SameFace
  <1>3. QED BY <1>1, <1>2

\* What a rebuild has read of the photo of an album.
Present(s, a) == s[a] # NoDir /\ s[a].file # NoFile
Scans == [AlbumNames -> [file : Files \cup {NoFile}] \cup {NoDir}]
\* No fingerprint but that of the bytes that were read.
PrintsRead(d, s) ==
    \A a \in AlbumNames : Present(s, a) /\ d.entity[Photo(a)] # NoEntity => d.entity[Photo(a)].print \in {Unread, s[a].file.content}
MissingRead(d, s) ==
    \A a \in AlbumNames : Present(s, a) /\ Missing(d, Photo(a)) => d.entity[Photo(a)].print \in {Unread, s[a].file.content}

\* Fingerprints that are published are those of the bytes that were read.  A face that
\* was found in other bytes comes into doubt, and one that was found in these is out of it.
LEMMA PublishedKeeps ==
    ASSUME NEW d, Sound(d), NEW s \in Scans, MissingRead(d, s), NEW e, e = Published(d, s)
    PROVE  Sound(e) /\ ScansFit(d, e) /\ SameWanted(d, e) /\ NoneMissed(d, e) /\ PrintsRead(e, s)
  <1> DEFINE file(a) == s[a].file
             here(a) == Present(s, a) /\ d.entity[Photo(a)] # NoEntity /\ ~Missing(d, Photo(a))
             news(a) == here(a) /\ d.entity[Photo(a)].print \notin {Unread, file(a).content}
             doubt(face, a) == face.owned /\ face.hash # file(a).content
             doubted(face, a) == IF news(a) /\ face # NoFace THEN Doubted(face, doubt(face, a)) ELSE face
             settled(face, a) == IF Present(s, a) /\ face # NoFace /\ face.hash = file(a).content
                                 THEN [face EXCEPT !.review = FALSE] ELSE face
             face(a) == settled(doubted(d.face[a], a), a)
             hidden(a) == doubted(d.hidden[a], a)
             entity(o) == IF IsPhoto(o) /\ here(AlbumOf(o))
                          THEN [d.entity[o] EXCEPT !.print = file(AlbumOf(o)).content, !.changed = file(AlbumOf(o)).changed] ELSE d.entity[o]
             row(o) == IF IsPhoto(o) /\ news(AlbumOf(o)) /\ d.row[o] # NoRow THEN [d.row[o] EXCEPT !.content = Unread] ELSE d.row[o]
             scanned(a) == IF news(a) THEN NoSign ELSE d.scanned[a]
  <1>1. /\ e.entity = [o \in Objects |-> entity(o)] /\ e.hidden = [a \in AlbumNames |-> hidden(a)]
        /\ e.face = [a \in AlbumNames |-> face(a)] /\ e.row = [o \in Objects |-> row(o)]
        /\ e.scanned = [a \in AlbumNames |-> scanned(a)] /\ DOMAIN e = Fields
    <2> DEFINE entities == [o \in Objects |-> entity(o)]
               hiddens == [a \in AlbumNames |-> hidden(a)]
               faces == [a \in AlbumNames |-> face(a)]
               newRows == [o \in Objects |-> row(o)]
               scans == [a \in AlbumNames |-> scanned(a)]
    <2>1. e = [d EXCEPT !.entity = entities, !.face = faces, !.hidden = hiddens, !.row = newRows, !.scanned = scans]
      BY DEF Published, Present
    <2> HIDE DEF entities, hiddens, faces, newRows, scans
    <2>2. e.entity = entities /\ e.face = faces /\ e.hidden = hiddens /\ e.row = newRows /\ e.scanned = scans /\ DOMAIN e = Fields
      BY <2>1 DEF Sound, Fields
    <2>3. QED BY <2>2 DEF entities, hiddens, faces, newRows, scans

  <1>2. ASSUME NEW a \in AlbumNames
        PROVE  Present(s, a) => file(a) \in Files /\ file(a).content \in Contents /\ file(a).content # Unread /\ file(a).changed \in Stamps
    BY PhotoAssumption DEF Scans, Present, Files
  <1>3. ASSUME NEW o \in Objects
        PROVE  /\ entity(o) \in Entities \cup {NoEntity} /\ (entity(o) = NoEntity <=> d.entity[o] = NoEntity)
               /\ entity(o) # NoEntity => /\ entity(o).missing = d.entity[o].missing /\ entity(o).kept = d.entity[o].kept
                                          /\ entity(o).wanted = d.entity[o].wanted
                                          /\ entity(o).print = IF IsPhoto(o) /\ here(AlbumOf(o)) THEN file(AlbumOf(o)).content
                                                               ELSE d.entity[o].print
    <2>1. d.entity[o] \in Entities \cup {NoEntity} /\ AlbumOf(o) \in AlbumNames /\ (IsPhoto(o) => o = Photo(AlbumOf(o)))
      BY ObjectIs DEF Sound
    <2>2. CASE IsPhoto(o) /\ here(AlbumOf(o))
      <3>1. PICK t : t = [d.entity[o] EXCEPT !.print = file(AlbumOf(o)).content, !.changed = file(AlbumOf(o)).changed]
        OBVIOUS
      <3>2. d.entity[o] \in Entities /\ file(AlbumOf(o)).content \in Contents /\ file(AlbumOf(o)).changed \in Stamps
        BY <1>2, <2>1, <2>2
      <3> DEFINE print == file(AlbumOf(o)).content
                 changed == file(AlbumOf(o)).changed
      <3>3. t = [missing |-> d.entity[o].missing, manual |-> d.entity[o].manual, print |-> print, changed |-> changed,
                 kept |-> d.entity[o].kept, wanted |-> d.entity[o].wanted]
        BY <3>1, <3>2 DEF Entities
      <3> HIDE DEF print, changed
      <3>4. t \in Entities
        BY <3>2, <3>3 DEF Entities, print, changed
      <3>5. entity(o) = t /\ t # NoEntity
        BY <2>2, <3>1, <3>4, PhotoAssumption
      <3> HIDE DEF entity, here
      <3>6. QED BY <2>2, <3>2, <3>3, <3>4, <3>5, PhotoAssumption DEF print
    <2>3. CASE ~(IsPhoto(o) /\ here(AlbumOf(o)))
      BY <2>1, <2>3
    <2>4. QED BY <2>2, <2>3
  <1>4. ASSUME NEW o \in Objects
        PROVE  /\ row(o) \in Rows \cup {NoRow} /\ (row(o) = NoRow <=> d.row[o] = NoRow)
               /\ row(o) # NoRow => row(o).tags = d.row[o].tags /\ row(o).found = d.row[o].found /\ row(o).private = d.row[o].private
               /\ row(o) = d.row[o] \/ (IsPhoto(o) /\ news(AlbumOf(o)))
    <2>1. d.row[o] \in Rows \cup {NoRow}
      BY DEF Sound
    <2>2. CASE IsPhoto(o) /\ news(AlbumOf(o)) /\ d.row[o] # NoRow
      <3>1. PICK t : t = [d.row[o] EXCEPT !.content = Unread]
        OBVIOUS
      <3>2. t \in Rows /\ t.tags = d.row[o].tags /\ t.found = d.row[o].found /\ t.private = d.row[o].private
        BY <2>1, <2>2, <3>1 DEF Rows
      <3>3. row(o) = t /\ t # NoRow
        BY <2>2, <3>1, <3>2, PhotoAssumption
      <3> HIDE DEF row
      <3>4. QED BY <2>2, <3>2, <3>3
    <2>3. CASE ~(IsPhoto(o) /\ news(AlbumOf(o)) /\ d.row[o] # NoRow)
      BY <2>1, <2>3
    <2>4. QED BY <2>2, <2>3
  <1>5. ASSUME NEW a \in AlbumNames, NEW f \in Faces \cup {NoFace}
        PROVE  SameFace(doubted(f, a), f) /\ (f # NoFace => (doubted(f, a).review <=> f.review \/ (news(a) /\ doubt(f, a))))
    <2>1. (f # NoFace => f.owned \in BOOLEAN) /\ (f.hash # file(a).content) \in BOOLEAN
      BY DEF Faces
    <2>2. CASE news(a) /\ f # NoFace
      <3>1. doubt(f, a) \in BOOLEAN
        BY <2>1, <2>2
      <3>2. doubted(f, a) = Doubted(f, doubt(f, a))
        BY <2>2
      <3> HIDE DEF doubted, doubt, news
      <3>3. QED BY <2>2, <3>1, <3>2, DoubtedType
    <2>3. CASE ~(news(a) /\ f # NoFace)
      <3>1. doubted(f, a) = f
        BY <2>3
      <3> HIDE DEF doubted, doubt, news
      <3>2. QED BY <2>3, <3>1 DEF SameFace
    <2>4. QED BY <2>2, <2>3
  <1>6. ASSUME NEW a \in AlbumNames, NEW f \in Faces \cup {NoFace}
        PROVE  SameFace(settled(f, a), f) /\ (f # NoFace => (settled(f, a).review <=> f.review /\ ~(Present(s, a) /\ f.hash = file(a).content)))
    <2>1. CASE Present(s, a) /\ f # NoFace /\ f.hash = file(a).content
      <3>1. PICK t : t = [f EXCEPT !.review = FALSE]
        OBVIOUS
      <3>2. t \in Faces /\ t.owned = f.owned /\ t.hash = f.hash /\ t.held = f.held /\ t.review = FALSE
        BY <2>1, <3>1 DEF Faces
      <3>3. settled(f, a) = t /\ t # NoFace
        BY <2>1, <3>1, <3>2, PhotoAssumption
      <3> HIDE DEF settled
      <3>4. QED BY <2>1, <3>2, <3>3 DEF SameFace
    <2>2. CASE ~(Present(s, a) /\ f # NoFace /\ f.hash = file(a).content)
      BY <2>2 DEF SameFace
    <2>3. QED BY <2>1, <2>2
  <1>7. ASSUME NEW a \in AlbumNames, NEW f \in Faces, FaceFits(f, d.entity[Photo(a)])
        PROVE  /\ FaceFits(doubted(f, a), entity(Photo(a)))
               /\ FaceFits(settled(doubted(f, a), a), entity(Photo(a)))
    <2>1. Photo(a) \in Objects /\ IsPhoto(Photo(a)) /\ AlbumOf(Photo(a)) = a /\ f # NoFace
      BY ObjectsOfAlbum, PhotoAssumption
    <2>2. PICK g : g = doubted(f, a)
      OBVIOUS
    <2>3. PICK n : n = entity(Photo(a))
      OBVIOUS
    <2>4. PICK h : h = settled(g, a)
      OBVIOUS
    <2>5. g \in Faces \cup {NoFace} /\ g # NoFace /\ g.owned = f.owned /\ g.hash = f.hash /\ (g.review <=> f.review \/ (news(a) /\ doubt(f, a)))
      BY <1>5, <2>1, <2>2 DEF SameFace
    <2>6. h.owned = g.owned /\ h.hash = g.hash /\ (h.review <=> g.review /\ ~(Present(s, a) /\ g.hash = file(a).content))
      BY <1>6, <2>4, <2>5 DEF SameFace
    <2>7. /\ (n = NoEntity <=> d.entity[Photo(a)] = NoEntity)
          /\ n # NoEntity => n.print = IF here(a) THEN file(a).content ELSE d.entity[Photo(a)].print
      BY <1>3, <2>1, <2>3
    <2>8. SUFFICES ASSUME f.owned
                   PROVE  n # NoEntity /\ n.print # Unread /\ (g.review \/ g.hash = n.print) /\ (h.review \/ h.hash = n.print)
      BY <2>2, <2>3, <2>4, <2>5, <2>6 DEF FaceFits
    <2>9. d.entity[Photo(a)] # NoEntity /\ d.entity[Photo(a)].print # Unread /\ (f.review \/ f.hash = d.entity[Photo(a)].print)
      BY <1>7, <2>8 DEF FaceFits
    <2>10. CASE here(a)
      <3>1. n.print = file(a).content /\ file(a).content # Unread /\ n # NoEntity
        BY <1>2, <2>7, <2>9, <2>10
      <3>2. CASE f.hash = file(a).content
        BY <2>5, <2>6, <3>1, <3>2
      <3>3. CASE f.hash # file(a).content /\ news(a)
        <4>1. g.review
          BY <2>5, <2>8, <3>3
        <4>2. QED BY <2>5, <2>6, <3>1, <3>3, <4>1
      <3>4. CASE f.hash # file(a).content /\ ~news(a)
        <4>1. d.entity[Photo(a)].print = file(a).content
          BY <2>9, <2>10, <3>4
        <4>2. f.review
          BY <2>9, <3>4, <4>1
        <4> HIDE DEF here, news
        <4>3. QED BY <2>5, <2>6, <3>1, <3>4, <4>2
      <3>5. QED BY <3>2, <3>3, <3>4
    <2>11. CASE ~here(a)
      <3>1. n.print = d.entity[Photo(a)].print /\ n # NoEntity /\ ~news(a)
        BY <2>7, <2>9, <2>11
      <3>2. Present(s, a) => Missing(d, Photo(a))
        BY <2>9, <2>11
      <3>3. Present(s, a) => d.entity[Photo(a)].print = file(a).content
        BY <2>9, <3>2 DEF MissingRead
      <3> HIDE DEF here, news, file
      <3>4. (g.review <=> f.review)
        BY <2>5, <3>1
      <3>5. QED BY <2>5, <2>6, <2>9, <3>1, <3>3, <3>4
    <2>12. QED BY <2>10, <2>11
  <1> HIDE DEF entity, face, hidden, row, scanned
  <1>8. ASSUME NEW o \in Objects
        PROVE  ObjectFits(row(o), entity(o))
    <2>1. ObjectFits(d.row[o], d.entity[o])
      BY DEF Sound
    <2>2. QED BY <1>3, <1>4, <2>1 DEF ObjectFits
  <1>9. ASSUME NEW a \in AlbumNames
        PROVE  /\ face(a) \in Faces \cup {NoFace} /\ hidden(a) \in Faces \cup {NoFace}
               /\ AlbumFits(row(Photo(a)), entity(Photo(a)), face(a), hidden(a))
    <2>1. /\ Photo(a) \in Objects /\ AlbumFits(d.row[Photo(a)], d.entity[Photo(a)], d.face[a], d.hidden[a])
          /\ d.face[a] \in Faces \cup {NoFace} /\ d.hidden[a] \in Faces \cup {NoFace}
      BY ObjectsOfAlbum DEF Sound
    <2>2. hidden(a) = doubted(d.hidden[a], a) /\ face(a) = settled(doubted(d.face[a], a), a)
      BY DEF hidden, face
    <2>3. d.hidden[a] # NoFace => FaceFits(hidden(a), entity(Photo(a)))
      BY <1>7, <2>1, <2>2 DEF AlbumFits
    <2>4. d.face[a] # NoFace => FaceFits(face(a), entity(Photo(a)))
      BY <1>7, <2>1, <2>2 DEF AlbumFits
    <2> HIDE DEF doubted, settled
    <2>5. SameFace(hidden(a), d.hidden[a])
      BY <1>5, <2>1, <2>2
    <2>6. SameFace(face(a), d.face[a])
      <3>1. SameFace(doubted(d.face[a], a), d.face[a])
        BY <1>5, <2>1
      <3>2. SameFace(face(a), doubted(d.face[a], a))
        BY <1>6, <2>2, <3>1 DEF SameFace
      <3>3. QED BY <3>1, <3>2 DEF SameFace
    <2>7. QED BY <1>4, <2>1, <2>3, <2>4, <2>5, <2>6 DEF AlbumFits, SameFace
  <1>10. Sound(e)
    <2>1. e.entity \in [Objects -> Entities \cup {NoEntity}]
      BY <1>1, <1>3
    <2>2. e.row \in [Objects -> Rows \cup {NoRow}]
      BY <1>1, <1>4
    <2>3. \A o \in Objects : ObjectFits(e.row[o], e.entity[o])
      BY <1>1, <1>8
    <2>4. \A a \in AlbumNames : AlbumFits(e.row[Photo(a)], e.entity[Photo(a)], e.face[a], e.hidden[a])
      BY <1>1, <1>9, ObjectsOfAlbum
    <2>5. e.scanned \in [AlbumNames -> Signs \cup {NoSign}]
      BY <1>1 DEF Sound, scanned
    <2>6. e.face \in [AlbumNames -> Faces \cup {NoFace}] /\ e.hidden \in [AlbumNames -> Faces \cup {NoFace}]
      BY <1>1, <1>9
    <2>7. QED BY <1>1, <2>1, <2>2, <2>3, <2>4, <2>5, <2>6 DEF Sound
  <1>11. ScansFit(d, e)
    <2>1. ASSUME NEW a \in AlbumNames
          PROVE  e.scanned[a] = NoSign \/ (e.scanned[a] = d.scanned[a] /\ e.row[Photo(a)] = d.row[Photo(a)])
      BY <1>1, <1>4, ObjectsOfAlbum DEF scanned
    <2>2. QED BY <2>1 DEF ScansFit, SaysTheSame
  <1>12. SameWanted(d, e) /\ NoneMissed(d, e)
    BY <1>1, <1>3 DEF SameWanted, NoneMissed, Missing
  <1>13. PrintsRead(e, s)
    <2>1. ASSUME NEW a \in AlbumNames, Present(s, a), e.entity[Photo(a)] # NoEntity
          PROVE  e.entity[Photo(a)].print \in {Unread, s[a].file.content}
      <3>1. Photo(a) \in Objects /\ IsPhoto(Photo(a)) /\ AlbumOf(Photo(a)) = a
        BY ObjectsOfAlbum
      <3>2. /\ d.entity[Photo(a)] # NoEntity
            /\ e.entity[Photo(a)].print = IF here(a) THEN file(a).content ELSE d.entity[Photo(a)].print
        BY <1>1, <1>3, <2>1, <3>1
      <3>3. QED BY <2>1, <3>1, <3>2 DEF MissingRead
    <2>2. QED BY <2>1 DEF PrintsRead
  <1>14. QED BY <1>10, <1>11, <1>12, <1>13

\* The identity of an album goes with it.
Twin(a, o) == <<a, o[2]>>
GoesAlong(d, e, a, b) ==
    \A o \in Objects : d.entity[o] # NoEntity =>
        /\ AlbumOf(o) = a => e.entity[Twin(b, o)] # NoEntity /\ e.entity[Twin(b, o)].wanted = d.entity[o].wanted
        /\ AlbumOf(o) # a /\ (AlbumOf(o) = b => d.entity[Twin(a, o)] = NoEntity) => e.entity[o] = d.entity[o]

\* The object of the same kind in another album.
LEMMA TwinIs ==
    ASSUME NEW a \in AlbumNames, NEW o \in Objects
    PROVE  /\ Twin(a, o) \in Objects /\ AlbumOf(Twin(a, o)) = a /\ (IsPhoto(Twin(a, o)) <=> IsPhoto(o))
           /\ \A b \in AlbumNames : Twin(b, Twin(a, o)) = Twin(b, o)
           /\ (AlbumOf(o) = a => Twin(a, o) = o) /\ (IsPhoto(o) => Twin(a, o) = Photo(a)) /\ (~IsPhoto(o) => Twin(a, o) = Folder(a))
  BY DEF Twin, Objects, AlbumOf, IsPhoto, Photo, Folder

\* What is kept of an identity that moves takes the visibility of where it goes.
LEMMA KeptType ==
    ASSUME NEW entity \in Entities, entity.kept # NoRow, NEW private \in BOOLEAN,
           NEW t, t = [entity EXCEPT !.kept.private = private]
    PROVE  /\ t \in Entities /\ t # NoEntity /\ t.missing = entity.missing /\ t.wanted = entity.wanted /\ t.print = entity.print
           /\ t.kept # NoRow /\ t.kept.tags = entity.kept.tags
  <1>1. PICK row : row = [entity.kept EXCEPT !.private = private]
    OBVIOUS
  <1>2. entity.kept \in Rows
    BY DEF Entities
  <1>3. row \in Rows /\ row.tags = entity.kept.tags
    BY <1>1, <1>2 DEF Rows
  <1>4. t = [entity EXCEPT !.kept = row]
    BY <1>1, <1>2
  <1>5. t \in Entities /\ t.kept = row /\ t.missing = entity.missing /\ t.wanted = entity.wanted /\ t.print = entity.print
    BY <1>3, <1>4 DEF Entities
  <1>6. QED BY <1>3, <1>5, PhotoAssumption

\* A relocation gives rows, identities and faces of an album to another, in place of
\* what was there.
LEMMA RelocatedKeeps ==
    ASSUME NEW d, Sound(d), NEW a \in AlbumNames, NEW b \in AlbumNames, a # b, NEW private \in BOOLEAN,
           NEW e, e = Relocated(d, a, b, private)
    PROVE  Sound(e) /\ ScansFit(d, e) /\ GoesAlong(d, e, a, b)
  <1> DEFINE moves(o) == AlbumOf(o) = b /\ d.entity[<<a, o[2]>>] # NoEntity
             kept(o) == IF IsPhoto(o) /\ d.entity[<<a, o[2]>>].kept # NoRow
                        THEN [d.entity[<<a, o[2]>>] EXCEPT !.kept.private = private] ELSE d.entity[<<a, o[2]>>]
             entity(o) == IF moves(o) THEN kept(o) ELSE IF AlbumOf(o) = a THEN NoEntity ELSE d.entity[o]
             row(o) == IF moves(o) THEN d.row[<<a, o[2]>>] ELSE IF AlbumOf(o) = a THEN NoRow ELSE d.row[o]
             face(c) == IF c = a THEN NoFace ELSE IF moves(Photo(c)) THEN d.face[a] ELSE d.face[c]
             hidden(c) == IF c = a THEN NoFace ELSE IF ~moves(Photo(c)) THEN d.hidden[c]
                          ELSE IF d.hidden[a] # NoFace THEN d.hidden[a] ELSE Released(d.hidden[c])
             entities == [o \in Objects |-> entity(o)]
             newRows == [o \in Objects |-> row(o)]
             faces == [c \in AlbumNames |-> face(c)]
             hiddens == [c \in AlbumNames |-> hidden(c)]
             moved == [d EXCEPT !.entity = entities, !.row = newRows, !.face = faces, !.hidden = hiddens]
  <1>1. e = Unscanned(SetPrivate(moved, {o \in {Folder(b), Photo(b)} : moved.row[o] # NoRow}, Everywhere(private)), {a, b})
    BY DEF Relocated
  <1>2. PICK f : f = moved
    OBVIOUS
  <1>3. PICK objects : objects = {o \in {Folder(b), Photo(b)} : f.row[o] # NoRow}
    OBVIOUS
  <1>4. PICK everywhere : everywhere = Everywhere(private)
    OBVIOUS
  <1>5. PICK g : g = SetPrivate(f, objects, everywhere)
    OBVIOUS
  <1>6. e = Unscanned(g, {a, b})
    BY <1>1, <1>2, <1>3, <1>4, <1>5
  <1> HIDE DEF entities, newRows, faces, hiddens
  <1>7. f.row = newRows /\ f.entity = entities /\ f.face = faces /\ f.hidden = hiddens /\ f.scanned = d.scanned /\ DOMAIN f = Fields
    BY <1>2 DEF Sound, Fields
  <1> HIDE DEF moved
  <1>8. ASSUME NEW o \in Objects
        PROVE  /\ AlbumOf(o) = b /\ d.entity[Twin(a, o)] # NoEntity =>
                     /\ row(o) = d.row[Twin(a, o)] /\ entity(o) \in Entities /\ entity(o) # NoEntity
                     /\ entity(o).missing = d.entity[Twin(a, o)].missing /\ entity(o).wanted = d.entity[Twin(a, o)].wanted
                     /\ entity(o).print = d.entity[Twin(a, o)].print
                     /\ IF d.entity[Twin(a, o)].kept = NoRow THEN entity(o).kept = NoRow
                        ELSE entity(o).kept # NoRow /\ entity(o).kept.tags = d.entity[Twin(a, o)].kept.tags
               /\ AlbumOf(o) = a => row(o) = NoRow /\ entity(o) = NoEntity
               /\ AlbumOf(o) # a /\ (AlbumOf(o) = b => d.entity[Twin(a, o)] = NoEntity) => row(o) = d.row[o] /\ entity(o) = d.entity[o]
    <2>1. Twin(a, o) = <<a, o[2]>> /\ Twin(a, o) \in Objects
      BY TwinIs DEF Twin
    <2>2. CASE moves(o)
      <3>1. d.entity[Twin(a, o)] \in Entities /\ row(o) = d.row[Twin(a, o)] /\ entity(o) = kept(o) /\ AlbumOf(o) = b
            /\ d.entity[Twin(a, o)] # NoEntity
        BY <2>1, <2>2 DEF Sound
      <3>2. CASE IsPhoto(o) /\ d.entity[Twin(a, o)].kept # NoRow
        <4>1. PICK t : t = [d.entity[Twin(a, o)] EXCEPT !.kept.private = private]
          OBVIOUS
        <4>2. entity(o) = t
          BY <2>1, <3>1, <3>2, <4>1
        <4> HIDE DEF entity, row, kept
        <4>3. /\ t \in Entities /\ t # NoEntity /\ t.missing = d.entity[Twin(a, o)].missing /\ t.wanted = d.entity[Twin(a, o)].wanted
              /\ t.print = d.entity[Twin(a, o)].print /\ t.kept # NoRow /\ t.kept.tags = d.entity[Twin(a, o)].kept.tags
          <5>1. PICK k \in Entities : k = d.entity[Twin(a, o)]
            BY <3>1
          <5>2. k.kept # NoRow /\ t = [k EXCEPT !.kept.private = private]
            BY <3>2, <4>1, <5>1
          <5>3. /\ t \in Entities /\ t # NoEntity /\ t.missing = k.missing /\ t.wanted = k.wanted /\ t.print = k.print
                /\ t.kept # NoRow /\ t.kept.tags = k.kept.tags
            BY <5>2, KeptType
          <5>4. QED BY <5>1, <5>3
        <4>4. QED BY <3>1, <3>2, <4>2, <4>3
      <3>3. CASE ~(IsPhoto(o) /\ d.entity[Twin(a, o)].kept # NoRow)
        <4>1. entity(o) = d.entity[Twin(a, o)]
          BY <2>1, <3>1, <3>3
        <4> HIDE DEF entity, row, kept
        <4>2. CASE d.entity[Twin(a, o)].kept = NoRow
          BY <3>1, <4>1, <4>2
        <4>3. CASE d.entity[Twin(a, o)].kept # NoRow
          BY <3>1, <4>1, <4>3
        <4>4. QED BY <4>2, <4>3
      <3>4. QED BY <3>2, <3>3
    <2>3. CASE ~moves(o)
      BY <2>1, <2>3
    <2>4. QED BY <2>2, <2>3
  <1>9. ASSUME NEW c \in AlbumNames
        PROVE  /\ c = a => face(c) = NoFace /\ hidden(c) = NoFace
               /\ c = b /\ d.entity[Photo(a)] # NoEntity =>
                     face(c) = d.face[a] /\ hidden(c) = IF d.hidden[a] # NoFace THEN d.hidden[a] ELSE Released(d.hidden[b])
               /\ c # a /\ (c = b => d.entity[Photo(a)] = NoEntity) => face(c) = d.face[c] /\ hidden(c) = d.hidden[c]
    BY DEF Photo, AlbumOf
  <1> HIDE DEF entity, row, face, hidden, moves, kept
  <1>10. ASSUME NEW o \in Objects
         PROVE  row(o) \in Rows \cup {NoRow} /\ entity(o) \in Entities \cup {NoEntity} /\ ObjectFits(row(o), entity(o))
    <2>1. /\ Twin(a, o) \in Objects
          /\ d.row[o] \in Rows \cup {NoRow} /\ d.entity[o] \in Entities \cup {NoEntity} /\ ObjectFits(d.row[o], d.entity[o])
          /\ d.row[Twin(a, o)] \in Rows \cup {NoRow} /\ ObjectFits(d.row[Twin(a, o)], d.entity[Twin(a, o)])
      BY TwinIs DEF Sound
    <2>2. CASE AlbumOf(o) = b /\ d.entity[Twin(a, o)] # NoEntity
      BY <1>8, <2>1, <2>2 DEF ObjectFits
    <2>3. CASE AlbumOf(o) = a
      BY <1>8, <2>3 DEF ObjectFits
    <2>4. CASE AlbumOf(o) # a /\ (AlbumOf(o) = b => d.entity[Twin(a, o)] = NoEntity)
      BY <1>8, <2>1, <2>4
    <2>5. QED BY <2>2, <2>3, <2>4
  <1>11. ASSUME NEW c \in AlbumNames
         PROVE  /\ face(c) \in Faces \cup {NoFace} /\ hidden(c) \in Faces \cup {NoFace}
                /\ AlbumFits(row(Photo(c)), entity(Photo(c)), face(c), hidden(c))
    <2>1. /\ Photo(c) \in Objects /\ IsPhoto(Photo(c)) /\ AlbumOf(Photo(c)) = c /\ Twin(a, Photo(c)) = Photo(a)
          /\ AlbumFits(d.row[Photo(c)], d.entity[Photo(c)], d.face[c], d.hidden[c])
          /\ AlbumFits(d.row[Photo(a)], d.entity[Photo(a)], d.face[a], d.hidden[a])
          /\ d.face[c] \in Faces \cup {NoFace} /\ d.hidden[c] \in Faces \cup {NoFace}
          /\ d.face[a] \in Faces \cup {NoFace} /\ d.hidden[a] \in Faces \cup {NoFace}
      BY ObjectsOfAlbum, TwinIs DEF Sound
    <2>2. CASE c = a
      BY <1>9, <2>2 DEF AlbumFits
    <2>3. CASE c = b /\ d.entity[Photo(a)] # NoEntity
      <3>1. /\ row(Photo(c)) = d.row[Photo(a)] /\ entity(Photo(c)) # NoEntity /\ entity(Photo(c)).print = d.entity[Photo(a)].print
            /\ face(c) = d.face[a] /\ hidden(c) = IF d.hidden[a] # NoFace THEN d.hidden[a] ELSE Released(d.hidden[b])
        BY <1>8, <1>9, <2>1, <2>3
      <3>2. d.face[a] # NoFace => FaceFits(d.face[a], entity(Photo(c)))
        BY <2>1, <3>1 DEF AlbumFits, FaceFits
      <3>3. CASE d.hidden[a] # NoFace
        <4>1. FaceFits(d.hidden[a], entity(Photo(c)))
          BY <2>1, <3>1, <3>3 DEF AlbumFits, FaceFits
        <4>2. QED BY <2>1, <2>3, <3>1, <3>2, <3>3, <4>1 DEF AlbumFits
      <3>4. CASE d.hidden[a] = NoFace
        <4>1. hidden(c) = NoFace \/ (hidden(c) = d.hidden[b] /\ ~d.hidden[b].held)
          BY <3>1, <3>4 DEF Released
        <4>2. hidden(c) # NoFace => ~d.hidden[b].owned
          BY <2>1, <2>3, <4>1 DEF AlbumFits
        <4>3. QED BY <2>1, <2>3, <3>1, <3>2, <4>1, <4>2 DEF AlbumFits, FaceFits
      <3>5. QED BY <3>3, <3>4
    <2>4. CASE c # a /\ (c = b => d.entity[Photo(a)] = NoEntity)
      BY <1>8, <1>9, <2>1, <2>4
    <2>5. QED BY <2>2, <2>3, <2>4
  <1>12. Sound(f)
    <2>1. f.entity \in [Objects -> Entities \cup {NoEntity}] /\ f.row \in [Objects -> Rows \cup {NoRow}]
      BY <1>7, <1>10 DEF entities, newRows
    <2>2. f.face \in [AlbumNames -> Faces \cup {NoFace}] /\ f.hidden \in [AlbumNames -> Faces \cup {NoFace}]
      BY <1>7, <1>11 DEF faces, hiddens
    <2>3. \A o \in Objects : ObjectFits(f.row[o], f.entity[o])
      BY <1>7, <1>10 DEF entities, newRows
    <2>4. \A c \in AlbumNames : AlbumFits(f.row[Photo(c)], f.entity[Photo(c)], f.face[c], f.hidden[c])
      BY <1>7, <1>11, ObjectsOfAlbum DEF entities, newRows, faces, hiddens
    <2>5. QED BY <1>7, <2>1, <2>2, <2>3, <2>4 DEF Sound
  <1>13. /\ objects \in SUBSET Objects /\ \A o \in objects : f.row[o] # NoRow /\ AlbumOf(o) = b
         /\ everywhere \in [AlbumNames -> BOOLEAN]
    BY <1>3, <1>4, ObjectsOfAlbum DEF Everywhere
  <1>14. FlagsSet(f, g, objects, everywhere)
    BY <1>5, <1>12, <1>13, SetPrivateKeeps
  <1>15. Sound(g) /\ g.entity = f.entity /\ g.scanned = f.scanned /\ \A o \in Objects : AlbumOf(o) # b => g.row[o] = f.row[o]
    BY <1>13, <1>14 DEF FlagsSet
  <1>16. /\ Sound(e) /\ e.row = g.row /\ e.entity = g.entity
         /\ \A c \in AlbumNames : e.scanned[c] = IF c \in {a, b} THEN NoSign ELSE g.scanned[c]
    BY <1>6, <1>15, UnscannedKeeps
  <1>17. ScansFit(d, e)
    <2>1. ASSUME NEW c \in AlbumNames, c # a, c # b
          PROVE  e.scanned[c] = d.scanned[c] /\ e.row[Photo(c)] = d.row[Photo(c)]
      <3>1. Photo(c) \in Objects /\ AlbumOf(Photo(c)) = c
        BY ObjectsOfAlbum
      <3>2. f.row[Photo(c)] = d.row[Photo(c)]
        BY <1>7, <1>8, <2>1, <3>1 DEF newRows
      <3>3. QED BY <1>7, <1>15, <1>16, <2>1, <3>1, <3>2
    <2>2. QED BY <1>16, <2>1 DEF ScansFit, SaysTheSame
  <1>18. GoesAlong(d, e, a, b)
    <2>1. e.entity = entities
      BY <1>7, <1>15, <1>16
    <2>2. ASSUME NEW o \in Objects, d.entity[o] # NoEntity, AlbumOf(o) = a
          PROVE  e.entity[Twin(b, o)] # NoEntity /\ e.entity[Twin(b, o)].wanted = d.entity[o].wanted
      <3>1. Twin(b, o) \in Objects /\ AlbumOf(Twin(b, o)) = b /\ Twin(a, Twin(b, o)) = o
        BY <2>2, TwinIs
      <3>2. e.entity[Twin(b, o)] = entity(Twin(b, o))
        BY <2>1, <3>1 DEF entities
      <3>3. QED BY <1>8, <2>2, <3>1, <3>2
    <2>3. ASSUME NEW o \in Objects, AlbumOf(o) # a, AlbumOf(o) = b => d.entity[Twin(a, o)] = NoEntity
          PROVE  e.entity[o] = d.entity[o]
      BY <1>8, <2>1, <2>3 DEF entities
    <2>4. QED BY <2>2, <2>3 DEF GoesAlong
  <1>19. QED BY <1>16, <1>17, <1>18

-----------------------------------------------------------------------------
(* The inductive invariant                                                  *)

\* The rebuild: its moves are from one album to another, and what it has read
\* of an album is a folder with at most one photo.
RunFields == {"at", "names", "left", "complete", "moves", "plan", "cache", "sign", "view"}
Viewing == {"photo", "folder", "gone", "sign"}
Planned(plan) == plan.from \in AlbumNames /\ plan.to \in AlbumNames /\ plan.from # plan.to /\ plan.private \in BOOLEAN
Viewed(view) ==
    /\ view.album \in AlbumNames /\ view.file \in Files \cup {NoFile} /\ view.private \in BOOLEAN /\ view.sign \in Signs
    /\ view.sign.file = IF view.file = NoFile THEN NoFile ELSE view.file.changed
RunSound ==
    /\ DOMAIN run = RunFields
    /\ run.left \subseteq AlbumNames /\ run.names \subseteq AlbumNames
    /\ \A p \in run.moves : p \in AlbumNames \X AlbumNames /\ p[1] # p[2]
    /\ run.at = "move" => Planned(run.plan)
    /\ run.at \in Viewing => Viewed(run.view)
    /\ run.at = "photo" => run.view.file # NoFile

Asked(at) ==
    IF at \in {"save", "tags"} THEN [at : {at}, album : AlbumNames, file : Files, private : BOOLEAN]
    ELSE [at : {at}, album : AlbumNames, private : BOOLEAN, tags : Stamps]
RequestSound ==
    request = NoRequest \/ (request.at \in {"save", "tags", "folder", "folder tags"} /\ request \in Asked(request.at))

\* After the fingerprints have been published.
Settled == run.at \notin {"idle", "walk", "relocate", "move"} => PrintsRead(db, seen)

\* Folders with the same time of change have the same marker.
MarkOf(albums, changed, marker) == \A m \in AlbumNames : albums[m] # NoDir /\ albums[m].changed = changed => albums[m].marker = marker
MarksFit(albums, now) ==
    \A n \in AlbumNames : albums[n] # NoDir => albums[n].changed <= now /\ MarkOf(albums, albums[n].changed, albums[n].marker)

\* A scan on record says of the photo what its row says.
Agrees(row, sign, albums) ==
    IF sign.file = NoFile THEN row = NoRow
    ELSE /\ row # NoRow /\ row.changed = sign.file /\ row.content # Unread
         /\ MarkOf(albums, sign.changed, row.private)
ScansTrue ==
    \A a \in AlbumNames : db.scanned[a] # NoSign =>
        /\ db.scanned[a].changed <= clock
        /\ a \notin late.record => Agrees(db.row[Photo(a)], db.scanned[a], drive.album)

\* What was read of an album is as it was written, unless a request crossed it.
ViewTrue ==
    run.at \in Viewing =>
        /\ run.view.sign.changed <= clock
        /\ MarkOf(drive.album, run.view.sign.changed, run.view.private)
        /\ run.at # "photo" /\ ~late.crossed /\ run.view.file # NoFile => Fits(db.row[Photo(run.view.album)], run.view.file, run.view.private)
        /\ run.at = "sign" /\ ~late.crossed /\ run.view.file = NoFile => db.row[Photo(run.view.album)] = NoRow

\* Nothing that has been there all the time is about to be dropped.
SteadyHeld == \A o \in steady : Holds(drive, o)
SteadyLeft ==
    /\ run.at = "prune" => \A o \in steady : AlbumOf(o) \notin run.left
    /\ run.at \in Viewing /\ run.view.file = NoFile => Photo(run.view.album) \notin steady

DriveType == drive \in [mounted : BOOLEAN, changed : Stamps, album : [AlbumNames -> Dirs \cup {NoDir}]]
LateType == late \in [record : SUBSET AlbumNames, crossed : BOOLEAN]
IndexInv ==
    /\ DriveType /\ Sound(db) /\ seen \in Scans /\ clock \in Stamps /\ steady \subseteq Objects /\ LateType
    /\ RunSound /\ RequestSound /\ Settled /\ MarksFit(drive.album, clock) /\ ScansTrue /\ ViewTrue /\ SteadyHeld /\ SteadyLeft

\* The invariant is the property that is checked, and more.
LEMMA IndexInvIsEnough ==
    ASSUME IndexInv
    PROVE  PhotoInv
  <1>1. TypeOK
    <2>1. run.moves \subseteq AlbumNames \X AlbumNames
      BY DEF IndexInv, RunSound
    <2>2. QED BY <2>1 DEF IndexInv, TypeOK, RunSound, Sound, Fields, Scans, DriveType, LateType
  <1>2. KeptOrShown
    BY DEF IndexInv, Sound, ObjectFits, KeptOrShown
  <1>3. FacesFit
    <2>1. ASSUME NEW a \in AlbumNames, db.face[a] # NoFace
          PROVE  /\ db.row[Photo(a)] # NoRow /\ ~db.row[Photo(a)].private
                 /\ db.face[a].owned => /\ db.entity[Photo(a)] # NoEntity
                                        /\ db.face[a].review \/ db.face[a].hash = db.entity[Photo(a)].print
      BY <2>1 DEF IndexInv, Sound, AlbumFits, FaceFits
    <2>2. QED BY <2>1 DEF FacesFit
  <1>4. ScansAreSound
    <2>1. SUFFICES ASSUME NEW a \in AlbumNames, Misread(a), a \notin late.record
                   PROVE  FALSE
      BY DEF ScansAreSound
    <2>2. drive.album[a] \in Dirs /\ drive.album[a] # NoDir /\ db.scanned[a] = AlbumSign(a)
      BY <2>1 DEF IndexInv, DriveType, Misread, Dir
    <2>3. db.scanned[a] # NoSign
      <3>1. AlbumSign(a) \in Signs
        BY <2>2, PhotoAssumption DEF AlbumSign, Dir, Dirs, Files, Signs
      <3>2. QED BY <2>2, <3>1, PhotoAssumption
    <2>4. Agrees(db.row[Photo(a)], AlbumSign(a), drive.album)
      BY <2>1, <2>2, <2>3 DEF IndexInv, ScansTrue
    <2>5. CASE drive.album[a].file = NoFile
      BY <2>1, <2>2, <2>4, <2>5 DEF Misread, Agrees, AlbumSign, Dir
    <2>6. CASE drive.album[a].file # NoFile
      <3>1. drive.album[a].file.changed \in Stamps
        BY <2>2, <2>6 DEF Dirs, Files
      <3>2. AlbumSign(a).file = drive.album[a].file.changed /\ AlbumSign(a).file # NoFile /\ AlbumSign(a).changed = drive.album[a].changed
        BY <2>6, <3>1, PhotoAssumption DEF AlbumSign, Dir
      <3>3. Fits(db.row[Photo(a)], drive.album[a].file, drive.album[a].marker)
        BY <2>2, <2>4, <3>2 DEF Agrees, MarkOf, Fits
      <3>4. QED BY <2>1, <2>6, <3>3 DEF Misread, Dir
    <2>7. QED BY <2>5, <2>6
  <1>5. QED BY <1>1, <1>2, <1>3, <1>4 DEF PhotoInv

\* Rows that say the same fit the same file.
LEMMA FitsAreSame ==
    ASSUME NEW row, NEW other, SaysTheSame(row, other)
    PROVE  /\ \A file, private : Fits(other, file, private) => Fits(row, file, private)
           /\ \A sign, albums : Agrees(other, sign, albums) => Agrees(row, sign, albums)
           /\ other = NoRow => row = NoRow
  BY DEF SaysTheSame, Fits, Agrees

\* No fingerprint becomes known but by publishing.
LEMMA PrintsStay ==
    ASSUME NEW d, NEW e, NEW s, PrintsRead(d, s), SamePrints(d, e)
    PROVE  PrintsRead(e, s)
  BY ObjectsOfAlbum DEF PrintsRead, SamePrints

\* An index that stays as it is.
LEMMA SameIndex ==
    ASSUME NEW d
    PROVE  ScansFit(d, d) /\ Gentle(d, d)
  BY SameRows, GentleEntities

\* A rebuild writes a row of a photo only when it forgets the scan, or when the row says
\* what it said, or when the scan is put on record as late.
LEMMA ScansAfterCommit ==
    ASSUME ScansTrue, ScansFit(db, db'), drive'.album = drive.album, late.record \subseteq late'.record,
           clock \in Int, clock' \in Int, clock <= clock', db.scanned \in [AlbumNames -> Signs \cup {NoSign}]
    PROVE  ScansTrue'
  <1>1. SUFFICES ASSUME NEW a \in AlbumNames, db'.scanned[a] # NoSign
                 PROVE  /\ db'.scanned[a].changed <= clock'
                        /\ a \notin late'.record => Agrees(db'.row[Photo(a)], db'.scanned[a], drive'.album)
    BY DEF ScansTrue
  <1>2. db'.scanned[a] = db.scanned[a] /\ SaysTheSame(db'.row[Photo(a)], db.row[Photo(a)])
    BY <1>1 DEF ScansFit
  <1>3. db.scanned[a].changed <= clock /\ (a \notin late.record => Agrees(db.row[Photo(a)], db.scanned[a], drive.album))
    BY <1>1, <1>2 DEF ScansTrue
  <1>4. db.scanned[a].changed \in Int
    BY <1>1, <1>2 DEF Signs, Stamps
  <1>5. QED BY <1>2, <1>3, <1>4, FitsAreSame

\* The same of a request, which may also cross the album that is being read.
LEMMA ScansAfterWrite ==
    ASSUME ScansTrue, ScansStay(db, db'), drive'.album = drive.album, late'.record = late.record \cup Rewritten(db'),
           clock \in Int, clock' \in Int, clock <= clock', db.scanned \in [AlbumNames -> Signs \cup {NoSign}]
    PROVE  ScansTrue'
  <1>1. SUFFICES ASSUME NEW a \in AlbumNames, db'.scanned[a] # NoSign
                 PROVE  /\ db'.scanned[a].changed <= clock'
                        /\ a \notin late'.record => Agrees(db'.row[Photo(a)], db'.scanned[a], drive'.album)
    BY DEF ScansTrue
  <1>2. db'.scanned[a] = db.scanned[a]
    BY <1>1 DEF ScansStay
  <1>3. db.scanned[a].changed <= clock /\ (a \notin late.record => Agrees(db.row[Photo(a)], db.scanned[a], drive.album))
    BY <1>1, <1>2 DEF ScansTrue
  <1>4. db.scanned[a].changed \in Int
    BY <1>1, <1>2 DEF Signs, Stamps
  <1>5. a \notin late'.record => SaysTheSame(db'.row[Photo(a)], db.row[Photo(a)])
    BY <1>1, <1>2 DEF Rewritten
  <1>6. QED BY <1>2, <1>3, <1>4, <1>5, FitsAreSame

\* An index that has been built, and a process that has just started.
LEMMA InitSound ==
    ASSUME Init
    PROVE  IndexInv
  <1>1. PICK library \in Libraries : InitWith(library)
    BY DEF Init
  <1> DEFINE there(a) == library[a] # NoDir
             file(a) == [content |-> library[a], changed |-> 0]
             dir(a) == IF there(a) THEN [changed |-> 0, marker |-> FALSE, file |-> file(a)] ELSE NoDir
             row(o) == IF ~there(AlbumOf(o)) THEN NoRow ELSE Row(0, FALSE, IF IsPhoto(o) THEN file(AlbumOf(o)) ELSE NoFile)
             entity(o) == IF ~there(AlbumOf(o)) THEN NoEntity
                          ELSE IF IsPhoto(o) THEN [Newcomer(0) EXCEPT !.print = library[AlbumOf(o)]] ELSE Newcomer(0)
             face(a) == IF ~there(a) THEN NoFace
                        ELSE [hash |-> library[a], changed |-> 0, review |-> FALSE, owned |-> TRUE, held |-> FALSE]
             scanned(a) == IF there(a) THEN [changed |-> 0, file |-> 0] ELSE NoSign
  <1>2. /\ drive = [mounted |-> TRUE, changed |-> 0, album |-> [a \in AlbumNames |-> dir(a)]]
        /\ db.row = [o \in Objects |-> row(o)] /\ db.entity = [o \in Objects |-> entity(o)]
        /\ db.face = [a \in AlbumNames |-> face(a)] /\ db.hidden = [a \in AlbumNames |-> NoFace]
        /\ db.scanned = [a \in AlbumNames |-> scanned(a)] /\ DOMAIN db = Fields
        /\ seen = [a \in AlbumNames |-> IF there(a) THEN [file |-> file(a)] ELSE NoDir]
    BY <1>1 DEF InitWith, Fields
  <1>3. 0 \in Stamps /\ \A a \in AlbumNames : there(a) => library[a] \in Contents /\ library[a] # Unread /\ file(a) \in Files
    BY PhotoAssumption DEF Stamps, Files
  <1>4. ASSUME NEW a \in AlbumNames
        PROVE  /\ dir(a) \in Dirs \cup {NoDir} /\ (there(a) <=> dir(a) # NoDir)
               /\ there(a) => dir(a).changed = 0 /\ dir(a).marker = FALSE
               /\ scanned(a) \in Signs \cup {NoSign} /\ (scanned(a) # NoSign => there(a) /\ scanned(a).changed = 0 /\ scanned(a).file = 0)
               /\ face(a) \in Faces \cup {NoFace}
    <2>1. there(a) => dir(a) \in Dirs
      BY <1>3 DEF Dirs
    <2>2. there(a) => scanned(a) \in Signs
      BY <1>3 DEF Signs
    <2>3. there(a) => face(a) \in Faces
      BY <1>3 DEF Faces
    <2>4. QED BY <2>1, <2>2, <2>3, PhotoAssumption
  <1>5. ASSUME NEW o \in Objects
        PROVE  /\ row(o) \in Rows \cup {NoRow} /\ entity(o) \in Entities \cup {NoEntity} /\ ObjectFits(row(o), entity(o))
               /\ there(AlbumOf(o)) /\ IsPhoto(o) => /\ row(o) # NoRow /\ row(o).private = FALSE /\ row(o).changed = 0 /\ row(o).content # Unread
                                                     /\ entity(o) # NoEntity /\ entity(o).print = library[AlbumOf(o)]
               /\ ~there(AlbumOf(o)) => row(o) = NoRow /\ entity(o) = NoEntity
    <2>1. AlbumOf(o) \in AlbumNames
      BY ObjectIs
    <2>2. CASE there(AlbumOf(o)) /\ IsPhoto(o)
      <3>1. PICK r : r = Row(0, FALSE, file(AlbumOf(o)))
        OBVIOUS
      <3>2. r \in Rows /\ r # NoRow /\ r.found = 0 /\ r.tags = 0 /\ r.private = FALSE /\ Fits(r, file(AlbumOf(o)), FALSE)
        <4>1. PICK f \in Files : f = file(AlbumOf(o))
          BY <1>3, <2>1, <2>2
        <4>2. f # NoFile /\ f \in Files \cup {NoFile} /\ FALSE \in BOOLEAN /\ r = Row(0, FALSE, f)
          BY <3>1, <4>1, PhotoAssumption
        <4>3. r \in Rows /\ r # NoRow /\ r.found = 0 /\ r.tags = 0 /\ r.private = FALSE /\ Fits(r, f, FALSE)
          BY <1>3, <4>2, RowType
        <4>4. QED BY <4>1, <4>3
      <3>3. PICK t : t = [Newcomer(0) EXCEPT !.print = library[AlbumOf(o)]]
        OBVIOUS
      <3>4. t = [missing |-> 0, manual |-> FALSE, print |-> library[AlbumOf(o)], changed |-> 0, kept |-> NoRow, wanted |-> 0]
        BY <3>3 DEF Newcomer
      <3>5. library[AlbumOf(o)] \in Contents
        BY <1>3, <2>1, <2>2
      <3>6. t \in Entities
        BY <1>3, <3>4, <3>5 DEF Entities
      <3>7. row(o) = r /\ entity(o) = t /\ t # NoEntity
        BY <2>2, <3>1, <3>3, <3>6, PhotoAssumption
      <3>8. t.print = library[AlbumOf(o)] /\ t.missing = 0 /\ t.kept = NoRow /\ t.wanted = 0
        BY <3>4
      <3>9. r.changed = 0 /\ r.content # Unread
        BY <3>2 DEF Fits
      <3> HIDE DEF row, entity
      <3>10. QED BY <2>2, <3>2, <3>6, <3>7, <3>8, <3>9 DEF ObjectFits
    <2>3. CASE there(AlbumOf(o)) /\ ~IsPhoto(o)
      <3>1. PICK r : r = Row(0, FALSE, NoFile)
        OBVIOUS
      <3>2. r \in Rows /\ r # NoRow /\ r.found = 0 /\ r.tags = 0
        <4>1. NoFile \in Files \cup {NoFile} /\ FALSE \in BOOLEAN
          OBVIOUS
        <4>2. QED BY <1>3, <3>1, <4>1, RowType
      <3>3. row(o) = r /\ entity(o) = Newcomer(0)
        BY <2>3, <3>1
      <3> HIDE DEF row, entity
      <3>4. QED BY <1>3, <2>3, <3>2, <3>3, NewcomerType DEF ObjectFits
    <2>4. CASE ~there(AlbumOf(o))
      BY <2>4 DEF ObjectFits
    <2>5. QED BY <2>2, <2>3, <2>4
  <1>6. ASSUME NEW a \in AlbumNames
        PROVE  AlbumFits(row(Photo(a)), entity(Photo(a)), face(a), NoFace)
    <2>1. Photo(a) \in Objects /\ AlbumOf(Photo(a)) = a /\ IsPhoto(Photo(a))
      BY ObjectsOfAlbum
    <2>2. CASE there(a)
      <3>1. /\ row(Photo(a)) # NoRow /\ row(Photo(a)).private = FALSE
            /\ entity(Photo(a)) # NoEntity /\ entity(Photo(a)).print = library[a] /\ library[a] # Unread
        BY <1>3, <1>5, <2>1, <2>2
      <3>2. face(a).hash = library[a]
        BY <2>2
      <3> HIDE DEF row, entity, face
      <3>3. QED BY <3>1, <3>2 DEF AlbumFits, FaceFits
    <2>3. CASE ~there(a)
      BY <2>3 DEF AlbumFits
    <2>4. QED BY <2>2, <2>3
  <1>7. seen \in Scans
    BY <1>2, <1>3 DEF Scans
  <1> HIDE DEF dir, row, entity, face, scanned
  <1>8. DriveType
    BY <1>2, <1>3, <1>4 DEF DriveType
  <1>9. Sound(db)
    <2>1. \A o \in Objects : db.row[o] = row(o) /\ db.entity[o] = entity(o)
      BY <1>2
    <2>2. \A a \in AlbumNames : db.face[a] = face(a) /\ db.hidden[a] = NoFace
      BY <1>2
    <2>3. db.row \in [Objects -> Rows \cup {NoRow}] /\ db.entity \in [Objects -> Entities \cup {NoEntity}]
      BY <1>2, <1>5
    <2>4. /\ db.face \in [AlbumNames -> Faces \cup {NoFace}] /\ db.hidden \in [AlbumNames -> Faces \cup {NoFace}]
          /\ db.scanned \in [AlbumNames -> Signs \cup {NoSign}]
      BY <1>2, <1>4
    <2>5. \A o \in Objects : ObjectFits(db.row[o], db.entity[o])
      BY <1>5, <2>1
    <2>6. \A a \in AlbumNames : AlbumFits(db.row[Photo(a)], db.entity[Photo(a)], db.face[a], db.hidden[a])
      BY <1>6, <2>1, <2>2, ObjectsOfAlbum
    <2>7. DOMAIN db = Fields
      BY <1>2
    <2>8. QED BY <2>3, <2>4, <2>5, <2>6, <2>7 DEF Sound
  <1>10. run = Idle /\ request = NoRequest /\ clock = 0 /\ steady = {} /\ late = [record |-> {}, crossed |-> FALSE]
    BY DEF Init
  <1>11. MarksFit(drive.album, clock)
    <2>1. \A n \in AlbumNames : drive.album[n] # NoDir => drive.album[n].changed = 0 /\ drive.album[n].marker = FALSE
      BY <1>2, <1>4
    <2>2. ASSUME NEW n \in AlbumNames, drive.album[n] # NoDir
          PROVE  MarkOf(drive.album, drive.album[n].changed, drive.album[n].marker)
      <3>1. drive.album[n].marker = FALSE
        BY <2>1, <2>2
      <3>2. QED BY <2>1, <3>1 DEF MarkOf
    <2>3. \A n \in AlbumNames : drive.album[n] # NoDir => drive.album[n].changed <= clock
      BY <1>10, <2>1
    <2>4. QED BY <2>2, <2>3 DEF MarksFit
  <1>12. ScansTrue
    <2>1. ASSUME NEW a \in AlbumNames, db.scanned[a] # NoSign
          PROVE  db.scanned[a].changed <= clock /\ Agrees(db.row[Photo(a)], db.scanned[a], drive.album)
      <3>1. Photo(a) \in Objects /\ AlbumOf(Photo(a)) = a /\ IsPhoto(Photo(a))
        BY ObjectsOfAlbum
      <3>2. there(a) /\ db.scanned[a].changed = 0 /\ db.scanned[a].file = 0
        BY <1>2, <1>4, <2>1
      <3>3. db.row[Photo(a)] # NoRow /\ db.row[Photo(a)].private = FALSE /\ db.row[Photo(a)].changed = 0 /\ db.row[Photo(a)].content # Unread
        BY <1>2, <1>5, <3>1, <3>2
      <3>4. MarkOf(drive.album, db.scanned[a].changed, db.row[Photo(a)].private)
        <4>1. \A n \in AlbumNames : drive.album[n] # NoDir => drive.album[n].marker = FALSE
          BY <1>2, <1>4
        <4>2. QED BY <3>3, <4>1 DEF MarkOf
      <3>5. db.scanned[a].file # NoFile
        BY <1>3, <3>2, PhotoAssumption
      <3>6. Agrees(db.row[Photo(a)], db.scanned[a], drive.album)
        BY <3>2, <3>3, <3>4, <3>5 DEF Agrees
      <3>7. QED BY <1>10, <3>2, <3>6
    <2>2. QED BY <2>1 DEF ScansTrue
  <1>13. RunSound /\ Settled /\ ViewTrue /\ SteadyHeld /\ SteadyLeft
    BY <1>10 DEF Idle, RunSound, RunFields, Settled, ViewTrue, Viewing, SteadyHeld, SteadyLeft
  <1>14. QED BY <1>3, <1>7, <1>8, <1>9, <1>10, <1>11, <1>12, <1>13 DEF IndexInv, LateType, RequestSound

-----------------------------------------------------------------------------
(* The drive                                                                *)

\* What changes on the drive is given a time that it has had only with the
\* same marker, or a new one.
Grown(albums, before, now) ==
    \A m \in AlbumNames : albums[m] # NoDir =>
        \/ albums[m].changed = now + 1 /\ \A n \in AlbumNames : albums[n] # NoDir /\ albums[n].changed = now + 1 => n = m
        \/ \E n \in AlbumNames : before[n] # NoDir /\ before[n].changed = albums[m].changed /\ before[n].marker = albums[m].marker

\* What is changed on the drive gets a new time, or keeps its time and its marker.
LEMMA GrownMarks ==
    ASSUME NEW albums \in [AlbumNames -> Dirs \cup {NoDir}], NEW before \in [AlbumNames -> Dirs \cup {NoDir}], NEW now \in Int,
           MarksFit(before, now), Grown(albums, before, now)
    PROVE  /\ MarksFit(albums, now + 1)
           /\ \A changed \in Int : \A marker : changed <= now /\ MarkOf(before, changed, marker) => MarkOf(albums, changed, marker)
  <1>1. \A n \in AlbumNames : (albums[n] # NoDir => albums[n].changed \in Int) /\ (before[n] # NoDir => before[n].changed \in Int)
    BY DEF Dirs, Stamps
  <1>2. ASSUME NEW m \in AlbumNames, albums[m] # NoDir, NEW n \in AlbumNames, albums[n] # NoDir, albums[n].changed = albums[m].changed
        PROVE  albums[m].changed <= now + 1 /\ albums[n].marker = albums[m].marker
    BY <1>1, <1>2 DEF Grown, MarksFit, MarkOf
  <1>3. ASSUME NEW changed \in Int, changed <= now, NEW marker, MarkOf(before, changed, marker),
               NEW m \in AlbumNames, albums[m] # NoDir, albums[m].changed = changed
        PROVE  albums[m].marker = marker
    BY <1>1, <1>3 DEF Grown, MarksFit, MarkOf
  <1>4. MarksFit(albums, now + 1)
    BY <1>2 DEF MarksFit, MarkOf
  <1>5. \A changed \in Int : \A marker : changed <= now /\ MarkOf(before, changed, marker) => MarkOf(albums, changed, marker)
    BY <1>3 DEF MarkOf
  <1>6. QED BY <1>4, <1>5

\* Changes from outside touch the drive alone.
LEMMA ExternalKeeps ==
    ASSUME IndexInv, NEW d \in [mounted : BOOLEAN, changed : Stamps, album : [AlbumNames -> Dirs \cup {NoDir}]],
           Grown(d.album, drive.album, clock), External(d)
    PROVE  IndexInv'
  <1>1. /\ clock' = clock + 1 /\ clock' \in Stamps /\ drive' = d /\ steady' = {o \in steady : Holds(d, o)}
        /\ db' = db /\ seen' = seen /\ run' = run /\ request' = request /\ late' = late /\ clock \in Int
    BY PhotoAssumption DEF External, IndexInv, Stamps
  <1>2. d.album \in [AlbumNames -> Dirs \cup {NoDir}] /\ drive.album \in [AlbumNames -> Dirs \cup {NoDir}] /\ MarksFit(drive.album, clock)
    BY DEF IndexInv, DriveType
  <1>3. /\ MarksFit(d.album, clock + 1)
        /\ \A changed \in Int : \A marker : changed <= clock /\ MarkOf(drive.album, changed, marker) => MarkOf(d.album, changed, marker)
    BY <1>1, <1>2, GrownMarks
  <1>5. ScansTrue'
    <2>1. ASSUME NEW a \in AlbumNames, db.scanned[a] # NoSign
          PROVE  /\ db.scanned[a].changed <= clock + 1
                 /\ a \notin late.record => Agrees(db.row[Photo(a)], db.scanned[a], d.album)
      <3>1. db.scanned[a].changed \in Int
        BY <2>1 DEF IndexInv, Sound, Signs, Stamps
      <3>2. db.scanned[a].changed <= clock /\ (a \notin late.record => Agrees(db.row[Photo(a)], db.scanned[a], drive.album))
        BY <2>1 DEF IndexInv, ScansTrue
      <3>3. QED BY <1>1, <1>3, <3>1, <3>2 DEF Agrees
    <2>2. QED BY <1>1, <2>1 DEF ScansTrue
  <1>6. ViewTrue'
    <2>1. ASSUME run.at \in Viewing
          PROVE  run.view.sign.changed <= clock + 1 /\ MarkOf(d.album, run.view.sign.changed, run.view.private)
      <3>1. run.view.sign.changed \in Int
        BY <2>1 DEF IndexInv, RunSound, Viewed, Signs, Stamps
      <3>2. run.view.sign.changed <= clock /\ MarkOf(drive.album, run.view.sign.changed, run.view.private)
        BY <2>1 DEF IndexInv, ViewTrue
      <3>3. QED BY <1>1, <1>3, <3>1, <3>2
    <2>2. QED BY <1>1, <2>1 DEF ViewTrue, IndexInv
  <1>7. RunSound' /\ RequestSound' /\ Settled' /\ LateType'
    BY <1>1 DEF IndexInv, RunSound, RequestSound, Settled, LateType
  <1>8. SteadyHeld' /\ SteadyLeft' /\ steady' \subseteq Objects
    BY <1>1 DEF IndexInv, SteadyHeld, SteadyLeft
  <1>9. DriveType' /\ MarksFit(drive.album, clock)'
    BY <1>1, <1>3 DEF DriveType
  <1>10. QED BY <1>1, <1>5, <1>6, <1>7, <1>8, <1>9 DEF IndexInv

\* One album is changed, and is new or has the time and the marker it had.
LEMMA AlbumChangeKeeps ==
    ASSUME IndexInv, NEW a \in AlbumNames, NEW dir \in Dirs \cup {NoDir}, AlbumChange(a, dir),
           \/ dir = NoDir \/ dir.changed = clock + 1
           \/ Dir(a) # NoDir /\ dir.changed = Dir(a).changed /\ dir.marker = Dir(a).marker
    PROVE  IndexInv'
  <1>1. PICK d : d = [drive EXCEPT !.album[a] = dir]
    OBVIOUS
  <1>2. External(d)
    BY <1>1 DEF AlbumChange
  <1>3. /\ drive.album \in [AlbumNames -> Dirs \cup {NoDir}] /\ d.album = [drive.album EXCEPT ![a] = dir]
        /\ d \in [mounted : BOOLEAN, changed : Stamps, album : [AlbumNames -> Dirs \cup {NoDir}]]
    BY <1>1 DEF IndexInv, DriveType
  <1>4. \A n \in AlbumNames : drive.album[n] # NoDir => drive.album[n].changed \in Int /\ drive.album[n].changed <= clock
    BY <1>3 DEF IndexInv, MarksFit, Dirs, Stamps
  <1>5. clock \in Int
    BY DEF IndexInv, Stamps
  <1>6. Grown(d.album, drive.album, clock)
    BY <1>3, <1>4, <1>5 DEF Grown, Dir
  <1>7. QED BY <1>2, <1>3, <1>6, ExternalKeeps

\* Albums come, go and get other names.
LEMMA RootChangeKeeps ==
    ASSUME IndexInv, NEW albums \in [AlbumNames -> Dirs \cup {NoDir}], Grown(albums, drive.album, clock), RootChange(albums)
    PROVE  IndexInv'
  <1>1. PICK d : d = [drive EXCEPT !.album = albums, !.changed = clock + 1]
    OBVIOUS
  <1>2. External(d)
    BY <1>1 DEF RootChange
  <1>3. clock + 1 \in Stamps
    BY <1>2, PhotoAssumption DEF External, IndexInv, Stamps
  <1>4. d.album = albums /\ d \in [mounted : BOOLEAN, changed : Stamps, album : [AlbumNames -> Dirs \cup {NoDir}]]
    BY <1>1, <1>3 DEF IndexInv, DriveType
  <1>5. QED BY <1>2, <1>4, ExternalKeeps

\* An album that is new is of now.
LEMMA NewDirType ==
    ASSUME NEW content \in Contents, clock + 1 \in Stamps
    PROVE  NewDir(content) \in Dirs /\ NewDir(content).changed = clock + 1
  BY DEF NewDir, Dirs, Files

\* Albums come, go and are changed, and the drive goes and comes back.
LEMMA WorldKeeps ==
    ASSUME IndexInv, World
    PROVE  IndexInv'
  <1>1. /\ drive.album \in [AlbumNames -> Dirs \cup {NoDir}] /\ clock \in Int
        /\ drive \in [mounted : BOOLEAN, changed : Stamps, album : [AlbumNames -> Dirs \cup {NoDir}]]
    BY DEF IndexInv, DriveType, Stamps
  <1>2. clock < MaxEvents => clock + 1 \in Stamps
    BY PhotoAssumption DEF IndexInv, Stamps
  <1>3. CASE Unmount
    <2>1. PICK d : d = [drive EXCEPT !.mounted = FALSE]
      OBVIOUS
    <2>2. External(d)
      BY <1>3, <2>1 DEF Unmount
    <2>3. d.album = drive.album /\ d \in [mounted : BOOLEAN, changed : Stamps, album : [AlbumNames -> Dirs \cup {NoDir}]]
      BY <1>1, <2>1
    <2>4. Grown(d.album, drive.album, clock)
      BY <2>3 DEF Grown
    <2>5. QED BY <2>2, <2>3, <2>4, ExternalKeeps
  <1>4. CASE Mount
    <2>1. /\ drive'.album = drive.album /\ DriveType' /\ UNCHANGED <<db, seen, run, request, clock, steady, late>>
      BY <1>1, <1>4 DEF Mount, DriveType
    <2>2. SteadyHeld'
      BY <2>1 DEF IndexInv, SteadyHeld, Holds
    <2>3. RunSound' /\ RequestSound' /\ Settled' /\ LateType' /\ SteadyLeft' /\ ScansTrue' /\ ViewTrue' /\ MarksFit(drive.album, clock)'
      <3>1. RunSound' /\ RequestSound' /\ LateType' /\ SteadyLeft'
        BY <2>1 DEF IndexInv, RunSound, RequestSound, LateType, SteadyLeft
      <3>2. Settled' /\ ScansTrue'
        BY <2>1 DEF IndexInv, Settled, ScansTrue
      <3>3. ViewTrue' /\ MarksFit(drive.album, clock)'
        BY <2>1 DEF IndexInv, ViewTrue
      <3>4. QED BY <3>1, <3>2, <3>3
    <2>4. QED BY <2>1, <2>2, <2>3 DEF IndexInv
  <1>5. ASSUME NEW a \in AlbumNames, RemoveAlbum(a) PROVE IndexInv'
    <2>1. PICK albums : albums = [drive.album EXCEPT ![a] = NoDir]
      OBVIOUS
    <2>2. RootChange(albums)
      BY <1>5, <2>1 DEF RemoveAlbum
    <2>3. albums \in [AlbumNames -> Dirs \cup {NoDir}]
      BY <1>1, <2>1
    <2>4. Grown(albums, drive.album, clock)
      BY <1>1, <2>1 DEF Grown
    <2>5. QED BY <2>2, <2>3, <2>4, RootChangeKeeps
  <1>6. ASSUME NEW a \in AlbumNames, NEW b \in AlbumNames, RenameAlbum(a, b) PROVE IndexInv'
    <2>1. PICK albums : albums = [drive.album EXCEPT ![a] = NoDir, ![b] = Dir(a)]
      OBVIOUS
    <2>2. RootChange(albums) /\ Dir(a) # NoDir
      BY <1>6, <2>1 DEF RenameAlbum, Names, Dir
    <2>3. albums \in [AlbumNames -> Dirs \cup {NoDir}]
      BY <1>1, <2>1 DEF Dir
    <2>4. \A m \in AlbumNames : albums[m] # NoDir => \E n \in AlbumNames : drive.album[n] = albums[m]
      BY <1>1, <2>1 DEF Dir
    <2>5. Grown(albums, drive.album, clock)
      BY <2>4 DEF Grown
    <2>6. QED BY <2>2, <2>3, <2>5, RootChangeKeeps
  <1>7. ASSUME NEW a \in AlbumNames, NEW content \in Contents, AddAlbum(a, content) PROVE IndexInv'
    <2>1. PICK albums : albums = [drive.album EXCEPT ![a] = NewDir(content)]
      OBVIOUS
    <2>2. RootChange(albums)
      BY <1>7, <2>1 DEF AddAlbum
    <2>3. NewDir(content) \in Dirs /\ NewDir(content).changed = clock + 1
      <3>1. clock + 1 \in Stamps
        BY <1>2, <2>2 DEF RootChange, External
      <3>2. QED BY <3>1, NewDirType
    <2>4. albums \in [AlbumNames -> Dirs \cup {NoDir}]
      BY <1>1, <2>1, <2>3
    <2>5. \A n \in AlbumNames : drive.album[n] # NoDir => drive.album[n].changed \in Int /\ drive.album[n].changed <= clock
      BY <1>1 DEF IndexInv, MarksFit, Dirs, Stamps
    <2>6. Grown(albums, drive.album, clock)
      BY <1>1, <2>1, <2>3, <2>5 DEF Grown
    <2>7. QED BY <2>2, <2>4, <2>6, RootChangeKeeps
  <1>8. ASSUME NEW a \in AlbumNames, RemovePhoto(a) PROVE IndexInv'
    <2>1. PICK dir : dir = [Dir(a) EXCEPT !.file = NoFile, !.changed = clock + 1]
      OBVIOUS
    <2>2. AlbumChange(a, dir) /\ Dir(a) \in Dirs
      BY <1>1, <1>8, <2>1 DEF RemovePhoto, Names, Dir
    <2>3. clock + 1 \in Stamps
      BY <1>2, <2>2 DEF AlbumChange, External
    <2>4. dir \in Dirs /\ dir.changed = clock + 1
      BY <2>1, <2>2, <2>3 DEF Dirs
    <2>5. QED BY <2>2, <2>4, AlbumChangeKeeps
  <1>9. ASSUME NEW a \in AlbumNames, MarkAlbum(a) PROVE IndexInv'
    <2>1. PICK dir : dir = [Dir(a) EXCEPT !.marker = ~@, !.changed = clock + 1]
      OBVIOUS
    <2>2. AlbumChange(a, dir) /\ Dir(a) \in Dirs
      BY <1>1, <1>9, <2>1 DEF MarkAlbum, Names, Dir
    <2>3. clock + 1 \in Stamps
      BY <1>2, <2>2 DEF AlbumChange, External
    <2>4. dir \in Dirs /\ dir.changed = clock + 1
      BY <2>1, <2>2, <2>3 DEF Dirs
    <2>5. QED BY <2>2, <2>4, AlbumChangeKeeps
  <1>10. ASSUME NEW a \in AlbumNames, NEW content \in Contents, WritePhoto(a, content) PROVE IndexInv'
    <2>1. Dir(a) \in Dirs /\ Dir(a) # NoDir
      BY <1>1, <1>10 DEF WritePhoto, Names, Dir
    <2>2. CASE Dir(a).file = NoFile
      <3>1. PICK dir : dir = [NewDir(content) EXCEPT !.marker = Dir(a).marker]
        OBVIOUS
      <3>2. AlbumChange(a, dir)
        BY <1>10, <2>2, <3>1 DEF WritePhoto
      <3>3. NewDir(content) \in Dirs /\ NewDir(content).changed = clock + 1
        <4>1. clock + 1 \in Stamps
          BY <1>2, <3>2 DEF AlbumChange, External
        <4>2. QED BY <4>1, NewDirType
      <3>4. dir \in Dirs /\ dir.changed = clock + 1
        BY <2>1, <3>1, <3>3 DEF Dirs
      <3>5. QED BY <3>2, <3>4, AlbumChangeKeeps
    <2>3. CASE Dir(a).file # NoFile
      <3>1. PICK changed \in {Dir(a).file.changed, clock + 1} :
                AlbumChange(a, [Dir(a) EXCEPT !.file = [content |-> content, changed |-> changed]])
        BY <1>10, <2>3 DEF WritePhoto
      <3>2. PICK file : file = [content |-> content, changed |-> changed]
        OBVIOUS
      <3>3. PICK dir : dir = [Dir(a) EXCEPT !.file = file]
        OBVIOUS
      <3>4. AlbumChange(a, dir)
        BY <3>1, <3>2, <3>3
      <3>5. clock + 1 \in Stamps
        BY <1>2, <3>4 DEF AlbumChange, External
      <3>6. file \in Files
        BY <2>1, <2>3, <3>1, <3>2, <3>5 DEF Dirs, Files
      <3>7. dir \in Dirs /\ dir.changed = Dir(a).changed /\ dir.marker = Dir(a).marker
        BY <2>1, <3>3, <3>6 DEF Dirs
      <3>8. QED BY <2>1, <3>4, <3>7, AlbumChangeKeeps
    <2>4. QED BY <2>2, <2>3
  <1>11. QED BY <1>3, <1>4, <1>5, <1>6, <1>7, <1>8, <1>9, <1>10 DEF World

-----------------------------------------------------------------------------
(* The rebuild                                                              *)

Early == {"idle", "walk", "relocate", "move"}

\* A step of the rebuild that writes nothing to the index.
LEMMA RunKeeps ==
    ASSUME IndexInv, drive' = drive, db' = db, request' = request, late' = late, clock' \in Stamps, clock <= clock', steady' = steady,
           seen' \in Scans, RunSound', run'.at \notin Early => run.at \notin Early /\ seen' = seen, ViewTrue', SteadyLeft'
    PROVE  IndexInv'
  <1>1. clock \in Int /\ clock' \in Int
    BY DEF IndexInv, Stamps
  <1>2. MarksFit(drive.album, clock)'
    <2>1. \A n \in AlbumNames : drive.album[n] # NoDir => drive.album[n].changed \in Int
      BY DEF IndexInv, DriveType, Dirs, Stamps
    <2>2. QED BY <1>1, <2>1 DEF IndexInv, MarksFit
  <1>3. ScansTrue'
    BY <1>1, SameIndex, ScansAfterCommit DEF IndexInv, Sound
  <1>4. Settled'
    BY DEF IndexInv, Settled, Early
  <1>5. SteadyHeld' /\ RequestSound' /\ LateType' /\ DriveType'
    BY DEF IndexInv, SteadyHeld, RequestSound, LateType, DriveType, Holds
  <1>6. QED BY <1>2, <1>3, <1>4, <1>5 DEF IndexInv

\* A step of the rebuild that writes to the index.
LEMMA CommitKeeps ==
    ASSUME IndexInv, drive' = drive, seen' = seen, request' = request, late' = late, clock' = clock, steady' = steady,
           Sound(db'), ScansFit(db, db'), RunSound', run'.at \notin Early => PrintsRead(db', seen), ViewTrue', SteadyLeft'
    PROVE  IndexInv'
  <1>1. clock \in Int
    BY DEF IndexInv, Stamps
  <1>2. ScansTrue'
    BY <1>1, ScansAfterCommit DEF IndexInv, Sound
  <1>3. Settled'
    BY DEF Settled, Early
  <1>4. SteadyHeld' /\ RequestSound' /\ LateType' /\ DriveType' /\ MarksFit(drive.album, clock)'
    BY DEF IndexInv, SteadyHeld, RequestSound, LateType, DriveType, Holds
  <1>5. QED BY <1>2, <1>3, <1>4 DEF IndexInv

\* What cannot be read changes nothing.
LEMMA FailureIs ==
    ASSUME IndexInv, Failure
    PROVE  /\ drive' = drive /\ db' = db /\ request' = request /\ late' = late /\ seen' = seen /\ steady' = steady
           /\ clock' \in Stamps /\ clock <= clock'
  BY PhotoAssumption DEF IndexInv, Failure, Stamps

\* Steps that write nothing.
LEMMA OnlyRunIs ==
    ASSUME IndexInv, OnlyRun
    PROVE  /\ drive' = drive /\ db' = db /\ request' = request /\ late' = late /\ seen' = seen /\ steady' = steady /\ clock' = clock
           /\ clock' \in Stamps /\ clock <= clock'
  BY DEF IndexInv, OnlyRun, Stamps

\* What the root is read to have is there.
LEMMA NamesAre == Names \subseteq AlbumNames /\ \A a \in AlbumNames : a \in Names => Dir(a) # NoDir
  BY DEF Names, Dir

\* A rebuild that ends leaves nothing behind.
LEMMA EndIs ==
    ASSUME End
    PROVE  RunSound' /\ ViewTrue' /\ SteadyLeft' /\ run'.at = "idle"
  BY DEF End, Idle, RunSound, RunFields, ViewTrue, Viewing, SteadyLeft

\* A rebuild may end at any time.
LEMMA EndKeeps ==
    ASSUME IndexInv, End, OnlyRun
    PROVE  IndexInv'
  BY EndIs, OnlyRunIs, RunKeeps DEF IndexInv, Early

\* The view of an album does not matter but while it is written.
LEMMA NoView ==
    ASSUME run'.at \notin Viewing, run'.at # "prune"
    PROVE  ViewTrue' /\ SteadyLeft'
  BY DEF ViewTrue, SteadyLeft

\* What is on the drive when a rebuild starts is steady.
LEMMA StartKeeps ==
    ASSUME IndexInv, Start
    PROVE  IndexInv'
  <1>1. DOMAIN run = RunFields /\ \A p \in run.moves : p \in AlbumNames \X AlbumNames /\ p[1] # p[2]
    BY DEF IndexInv, RunSound
  <1>2. run' = [run EXCEPT !.at = "walk", !.names = Names, !.left = Names]
    BY DEF Start
  <1>3. run'.at = "walk" /\ run'.names = Names /\ run'.left = Names /\ run'.moves = run.moves /\ DOMAIN run' = RunFields
    BY <1>1, <1>2 DEF RunFields
  <1>4. RunSound'
    BY <1>1, <1>3, NamesAre DEF RunSound, Viewing
  <1>5. ViewTrue' /\ SteadyLeft'
    BY <1>3, NoView DEF Viewing
  <1>6. /\ drive' = drive /\ db' = db /\ seen' = seen /\ request' = request /\ clock' = clock /\ late' = late
        /\ steady' = {o \in Objects : Holds(drive, o)}
    BY DEF Start
  <1>7. Settled'
    BY <1>3 DEF Settled
  <1>8. SteadyHeld' /\ steady' \subseteq Objects
    BY <1>6 DEF SteadyHeld
  <1>9. ScansTrue' /\ MarksFit(drive.album, clock)' /\ RequestSound' /\ LateType' /\ DriveType'
    BY <1>6 DEF IndexInv, ScansTrue, RequestSound, LateType, DriveType
  <1>10. QED BY <1>4, <1>5, <1>6, <1>7, <1>8, <1>9 DEF IndexInv

\* The first walk reads the albums one by one.
LEMMA WalkKeeps ==
    ASSUME IndexInv, NEW a \in AlbumNames, Walk(a) \/ WalkFails(a)
    PROVE  IndexInv'
  <1>1. DOMAIN run = RunFields /\ run.at = "walk" /\ RunSound /\ drive.album \in [AlbumNames -> Dirs \cup {NoDir}]
    BY DEF IndexInv, RunSound, Walk, WalkFails, DriveType
  <1>2. \/ run' = [run EXCEPT !.left = @ \ {a}]
        \/ run' = [run EXCEPT !.left = @ \ {a}, !.complete = FALSE]
    BY DEF Walk, WalkFails
  <1>3. DOMAIN run' = RunFields /\ run'.at = "walk" /\ run'.left \subseteq run.left /\ run'.names = run.names /\ run'.moves = run.moves
    BY <1>1, <1>2 DEF RunFields
  <1>4. RunSound' /\ ViewTrue' /\ SteadyLeft'
    BY <1>1, <1>3, NoView DEF RunSound, Viewing
  <1>5. seen' \in Scans
    <2>1. CASE seen' = [seen EXCEPT ![a] = [file |-> Dir(a).file]] /\ a \in Names
      <3>1. Dir(a).file \in Files \cup {NoFile}
        BY <1>1, <2>1, NamesAre DEF Dir, Dirs
      <3>2. QED BY <2>1, <3>1 DEF IndexInv, Scans
    <2>2. CASE seen' = seen
      BY <2>2 DEF IndexInv
    <2>3. QED BY <2>1, <2>2 DEF Walk, WalkFails, Failure
  <1>6. /\ drive' = drive /\ db' = db /\ request' = request /\ late' = late /\ steady' = steady
        /\ clock' \in Stamps /\ clock <= clock'
    <2>1. CASE Walk(a)
      BY <2>1 DEF Walk, IndexInv, Stamps
    <2>2. CASE WalkFails(a)
      BY <2>2, FailureIs DEF WalkFails
    <2>3. QED BY <2>1, <2>2
  <1>7. QED BY <1>3, <1>4, <1>5, <1>6, RunKeeps DEF Early

\* No album is taken to have moved to itself.
LEMMA RelocationsDiffer ==
    ASSUME NEW s
    PROVE  \A p \in Relocations(s) : p \in AlbumNames \X AlbumNames /\ p[1] # p[2]
  <1> DEFINE old == {a \in AlbumNames : LET n == db.entity[Photo(a)]
                               IN n # NoEntity /\ n.missing # 2 /\ n.print # Unread /\ ~Scanned(s, Photo(a))}
             hash == [a \in old |-> db.entity[Photo(a)].print]
             new == {a \in AlbumNames : Scanned(s, Photo(a))}
             bytes == [a \in new |-> s[a].file.content]
  <1>1. Relocations(s) \subseteq old \X new
    BY DEF Relocations, Only
  <1>2. \A a \in old, b \in new : a \in AlbumNames /\ b \in AlbumNames /\ a # b
    OBVIOUS
  <1> HIDE DEF old, new
  <1>3. QED BY <1>1, <1>2

\* After the first walk it is known what has moved.
LEMMA WalkedKeeps ==
    ASSUME IndexInv, Walked
    PROVE  IndexInv'
  <1>1. DOMAIN run = RunFields /\ RunSound /\ seen \in Scans
        /\ drive' = drive /\ db' = db /\ request' = request /\ late' = late /\ steady' = steady
        /\ clock' \in Stamps /\ clock <= clock'
    BY DEF IndexInv, RunSound, Walked, Stamps
  <1>2. CASE ~run.complete
    BY <1>1, <1>2, EndIs, RunKeeps DEF Walked, Early
  <1>3. CASE run.complete
    <2>1. seen' = [a \in AlbumNames |-> IF a \in run.names THEN seen[a] ELSE NoDir]
      BY <1>3 DEF Walked
    <2>2. seen' \in Scans
      BY <1>1, <2>1 DEF Scans
    <2>3. PICK s : s = seen'
      OBVIOUS
    <2>4. PICK moves : moves = Relocations(s)
      OBVIOUS
    <2>5. run' = [run EXCEPT !.at = "relocate", !.moves = moves]
      BY <1>3, <2>3, <2>4 DEF Walked
    <2>6. run'.at = "relocate" /\ run'.moves = moves /\ DOMAIN run' = RunFields /\ run'.left = run.left /\ run'.names = run.names
      BY <1>1, <2>5 DEF RunFields
    <2>7. \A p \in moves : p \in AlbumNames \X AlbumNames /\ p[1] # p[2]
      BY <2>4, RelocationsDiffer
    <2>8. RunSound' /\ ViewTrue' /\ SteadyLeft'
      BY <1>1, <2>6, <2>7, NoView DEF RunSound, Viewing
    <2>9. QED BY <1>1, <2>2, <2>6, <2>8, RunKeeps DEF Early
  <1>4. QED BY <1>2, <1>3

\* Before a relocation the drive is looked at once more.
LEMMA VerifyKeeps ==
    ASSUME IndexInv, NEW a \in AlbumNames, NEW b \in AlbumNames, Verify(a, b)
    PROVE  IndexInv'
  <1>1. DOMAIN run = RunFields /\ RunSound /\ run.at = "relocate" /\ a # b /\ OnlyRun
    BY DEF IndexInv, RunSound, Verify
  <1>2. CASE End
    BY <1>1, <1>2, EndKeeps
  <1>3. CASE run' = [run EXCEPT !.moves = @ \ {<<a, b>>}]
    <2>1. run'.at = "relocate" /\ DOMAIN run' = RunFields /\ run'.left = run.left /\ run'.names = run.names /\ run'.moves \subseteq run.moves
      BY <1>1, <1>3 DEF RunFields
    <2>2. RunSound' /\ ViewTrue' /\ SteadyLeft'
      BY <1>1, <2>1, NoView DEF RunSound, Viewing
    <2>3. QED BY <1>1, <2>1, <2>2, OnlyRunIs, RunKeeps DEF Early, IndexInv
  <1>4. CASE Visible(Photo(b)) /\ run' = [run EXCEPT !.at = "move", !.plan = [from |-> a, to |-> b, entity |-> db.entity[Folder(a)], private |-> Dir(b).marker]]
    <2>1. PICK plan : plan = [from |-> a, to |-> b, entity |-> db.entity[Folder(a)], private |-> Dir(b).marker]
      OBVIOUS
    <2>2. run'.at = "move" /\ DOMAIN run' = RunFields /\ run'.left = run.left /\ run'.names = run.names /\ run'.moves = run.moves /\ run'.plan = plan
      BY <1>1, <1>4, <2>1 DEF RunFields
    <2>3. Dir(b).marker \in BOOLEAN
      <3>1. drive.album[b] \in Dirs
        BY <1>4, ObjectsOfAlbum DEF Visible, Holds, IndexInv, DriveType
      <3>2. QED BY <3>1 DEF Dir, Dirs
    <2>4. Planned(plan)
      BY <1>1, <2>1, <2>3 DEF Planned
    <2>5. RunSound' /\ ViewTrue' /\ SteadyLeft'
      BY <1>1, <2>2, <2>4, NoView DEF RunSound, Viewing
    <2>6. QED BY <1>1, <2>2, <2>5, OnlyRunIs, RunKeeps DEF Early, IndexInv
  <1>5. QED
    <2>1. CASE a \in Names
      BY <1>3, <2>1 DEF Verify
    <2>2. CASE a \notin Names /\ ~Visible(Photo(b))
      BY <1>2, <2>2 DEF Verify
    <2>3. CASE a \notin Names /\ Visible(Photo(b)) /\ Dir(b).file # seen[b].file
      BY <1>3, <2>3 DEF Verify
    <2>4. CASE a \notin Names /\ Visible(Photo(b)) /\ Dir(b).file = seen[b].file
      BY <1>4, <2>4 DEF Verify
    <2>5. QED BY <2>1, <2>2, <2>3, <2>4

\* A transaction of a rebuild writes the index alone.
LEMMA CommitIs ==
    ASSUME NEW e, Commit(e)
    PROVE  /\ drive' = drive /\ db' = e /\ request' = request /\ late' = late /\ seen' = seen /\ steady' = steady /\ clock' = clock
  BY DEF Commit

\* A relocation, or the reason why it is left out.
LEMMA RelocateKeeps ==
    ASSUME IndexInv, Relocate
    PROVE  IndexInv'
  <1>1. DOMAIN run = RunFields /\ RunSound /\ run.at = "move" /\ Planned(run.plan) /\ Sound(db)
    BY DEF IndexInv, RunSound, Relocate
  <1> DEFINE next == [run EXCEPT !.at = "relocate", !.plan = <<>>, !.moves = @ \ {<<run.plan.from, run.plan.to>>}]
  <1>2. run' = next => RunSound' /\ ViewTrue' /\ SteadyLeft' /\ run'.at = "relocate"
    <2>1. SUFFICES ASSUME run' = next PROVE RunSound' /\ ViewTrue' /\ SteadyLeft' /\ run'.at = "relocate"
      OBVIOUS
    <2>2. run'.at = "relocate" /\ DOMAIN run' = RunFields /\ run'.left = run.left /\ run'.names = run.names /\ run'.moves \subseteq run.moves
      BY <1>1, <2>1 DEF RunFields
    <2>3. QED BY <1>1, <2>2, NoView DEF RunSound, Viewing
  <1>3. PICK e : e = Relocated(db, run.plan.from, run.plan.to, run.plan.private)
    OBVIOUS
  <1>4. \/ run' = next /\ OnlyRun
        \/ End /\ OnlyRun
        \/ run' = next /\ Commit(e)
    BY <1>3 DEF Relocate
  <1> HIDE DEF next
  <1>5. CASE run' = next /\ OnlyRun
    BY <1>1, <1>2, <1>5, OnlyRunIs, RunKeeps DEF Early, IndexInv
  <1>6. CASE End /\ OnlyRun
    BY <1>6, EndKeeps
  <1>7. CASE run' = next /\ Commit(e)
    <2>1. Sound(e) /\ ScansFit(db, e)
      BY <1>1, <1>3, RelocatedKeeps DEF Planned
    <2>2. QED BY <1>2, <1>7, <2>1, CommitIs, CommitKeeps DEF Early
  <1>8. QED BY <1>4, <1>5, <1>6, <1>7

\* While run stays as it is, so does what is known of it.
LEMMA SameRun ==
    ASSUME IndexInv, run' = run, run.at \notin Viewing, run.at # "prune"
    PROVE  RunSound' /\ ViewTrue' /\ SteadyLeft'
  <1>1. RunSound'
    BY DEF IndexInv, RunSound
  <1>2. QED BY <1>1, NoView

\* What has come back is put back.
LEMMA RestoreKeeps ==
    ASSUME IndexInv, NEW o \in Objects, Restore(o)
    PROVE  IndexInv'
  <1>1. run.at = "relocate" /\ Missing(db, o) /\ Sound(db)
    BY DEF Restore, AllMoved, Back, IndexInv
  <1>2. CASE End /\ OnlyRun
    BY <1>2, EndKeeps
  <1>3. CASE db.row[o] = NoRow /\ run' = run /\ Commit(Restored(db, o))
    <2>1. PICK e : e = Restored(db, o)
      OBVIOUS
    <2>2. Sound(e) /\ ScansFit(db, e)
      BY <1>1, <1>3, <2>1, RestoredKeeps
    <2>3. RunSound' /\ ViewTrue' /\ SteadyLeft'
      BY <1>1, <1>3, SameRun DEF Viewing
    <2>4. QED BY <1>1, <1>3, <2>1, <2>2, <2>3, CommitIs, CommitKeeps DEF Early
  <1>4. QED BY <1>2, <1>3 DEF Restore

\* The fingerprints are published, when all that has come back is back.
LEMMA PublishKeeps ==
    ASSUME IndexInv, PublishFingerprints
    PROVE  IndexInv'
  <1>1. DOMAIN run = RunFields /\ RunSound /\ Sound(db) /\ seen \in Scans
    BY DEF IndexInv, RunSound
  <1>2. run' = [run EXCEPT !.at = "load"] /\ Commit(Published(db, seen)) /\ Back = {}
    BY DEF PublishFingerprints
  <1>3. run'.at = "load" /\ DOMAIN run' = RunFields /\ run'.left = run.left /\ run'.names = run.names /\ run'.moves = run.moves
    BY <1>1, <1>2 DEF RunFields
  <1>4. RunSound' /\ ViewTrue' /\ SteadyLeft'
    BY <1>1, <1>3, NoView DEF RunSound, Viewing
  <1>5. MissingRead(db, seen)
    <2>1. ASSUME NEW a \in AlbumNames, Present(seen, a)
          PROVE  ~Missing(db, Photo(a))
      BY <1>2, <2>1, ObjectsOfAlbum DEF Back, Scanned, Present
    <2>2. QED BY <2>1 DEF MissingRead
  <1>6. PICK e : e = Published(db, seen)
    OBVIOUS
  <1>7. Sound(e) /\ ScansFit(db, e) /\ PrintsRead(e, seen)
    BY <1>1, <1>5, <1>6, PublishedKeeps
  <1>8. QED BY <1>2, <1>3, <1>4, <1>6, <1>7, CommitIs, CommitKeeps

\* The second walk starts with what the index says of scans.
LEMMA LoadCacheKeeps ==
    ASSUME IndexInv, LoadCache
    PROVE  IndexInv'
  <1>1. DOMAIN run = RunFields /\ RunSound /\ run.at = "load" /\ OnlyRun
    BY DEF IndexInv, RunSound, LoadCache
  <1>2. PICK cache : run' = [run EXCEPT !.at = "root", !.cache = cache]
    BY DEF LoadCache
  <1>3. run'.at = "root" /\ DOMAIN run' = RunFields /\ run'.left = run.left /\ run'.names = run.names /\ run'.moves = run.moves
    BY <1>1, <1>2 DEF RunFields
  <1>4. RunSound' /\ ViewTrue' /\ SteadyLeft'
    BY <1>1, <1>3, NoView DEF RunSound, Viewing
  <1>5. QED BY <1>1, <1>3, <1>4, OnlyRunIs, RunKeeps DEF Early, IndexInv

\* The root: what is not among its names is about to be dropped, so nothing of it is
\* steady.
LEMMA IndexRootKeeps ==
    ASSUME IndexInv, IndexRoot
    PROVE  IndexInv'
  <1>1. DOMAIN run = RunFields /\ RunSound /\ run.at = "root" /\ OnlyRun
    BY DEF IndexInv, RunSound, IndexRoot
  <1>2. CASE End
    BY <1>1, <1>2, EndKeeps
  <1>3. CASE run' = [run EXCEPT !.at = "albums", !.left = {a \in AlbumNames : run.cache.album[a] # NoRow}]
    <2>1. PICK left \in SUBSET AlbumNames : left = {a \in AlbumNames : run.cache.album[a] # NoRow}
      OBVIOUS
    <2>2. run'.at = "albums" /\ DOMAIN run' = RunFields /\ run'.left = left /\ run'.names = run.names /\ run'.moves = run.moves
      BY <1>1, <1>3, <2>1 DEF RunFields
    <2>3. RunSound' /\ ViewTrue' /\ SteadyLeft'
      BY <1>1, <2>2, NoView DEF RunSound, Viewing
    <2>4. QED BY <1>1, <2>2, <2>3, OnlyRunIs, RunKeeps DEF Early, IndexInv
  <1>4. CASE Names # {} /\ Prune
    <2>1. PICK left \in SUBSET AlbumNames : left = {a \in AlbumNames : db.row[Folder(a)] # NoRow} \ Names
      OBVIOUS
    <2>2. run' = [run EXCEPT !.at = "prune", !.left = left, !.names = Names, !.sign = RootSign]
      BY <1>4, <2>1 DEF Prune
    <2>3. run'.at = "prune" /\ DOMAIN run' = RunFields /\ run'.left = left /\ run'.names = Names /\ run'.moves = run.moves
      BY <1>1, <2>2 DEF RunFields
    <2>4. RunSound'
      BY <1>1, <2>3, NamesAre DEF RunSound, Viewing
    <2>5. ViewTrue'
      BY <2>3 DEF ViewTrue, Viewing
    <2>6. SteadyLeft'
      <3>1. ASSUME NEW o \in steady
            PROVE  AlbumOf(o) \in Names
        BY <1>4, ObjectIs DEF IndexInv, SteadyHeld, Holds, Names
      <3>2. steady' = steady
        BY <1>1 DEF OnlyRun
      <3>3. QED BY <2>1, <2>3, <3>1, <3>2 DEF SteadyLeft, Viewing
    <2>7. QED BY <1>1, <2>3, <2>4, <2>5, <2>6, OnlyRunIs, RunKeeps DEF Early, IndexInv
  <1>5. QED BY <1>2, <1>3, <1>4 DEF IndexRoot

\* An album that is gone is dropped.
LEMMA PruneAlbumKeeps ==
    ASSUME IndexInv, NEW a \in AlbumNames, PruneAlbum(a)
    PROVE  IndexInv'
  <1>1. DOMAIN run = RunFields /\ RunSound /\ Sound(db) /\ run.at = "prune" /\ PrintsRead(db, seen)
    BY DEF IndexInv, RunSound, PruneAlbum, Settled
  <1>2. PICK e : e = DropAlbum(db, a)
    OBVIOUS
  <1>3. run' = [run EXCEPT !.left = @ \ {a}] /\ Commit(e)
    BY <1>2 DEF PruneAlbum
  <1>4. run'.at = "prune" /\ DOMAIN run' = RunFields /\ run'.left \subseteq run.left /\ run'.names = run.names /\ run'.moves = run.moves
    BY <1>1, <1>3 DEF RunFields
  <1>5. DropAlbumFits(db, e, a)
    BY <1>1, <1>2, DropAlbumKeeps
  <1>6. Sound(e) /\ ScansFit(db, e) /\ PrintsRead(e, seen)
    BY <1>1, <1>5, PrintsStay DEF DropAlbumFits
  <1>7. RunSound' /\ ViewTrue'
    BY <1>1, <1>4 DEF RunSound, ViewTrue, Viewing
  <1>8. SteadyLeft'
    BY <1>1, <1>3, <1>4, CommitIs DEF IndexInv, SteadyLeft, Viewing
  <1>9. QED BY <1>3, <1>6, <1>7, <1>8, CommitIs, CommitKeeps

\* The root is signed when what is gone is dropped.
LEMMA SignRootKeeps ==
    ASSUME IndexInv, SignRoot
    PROVE  IndexInv'
  <1>1. DOMAIN run = RunFields /\ RunSound /\ Sound(db) /\ run.at = "prune" /\ PrintsRead(db, seen)
    BY DEF IndexInv, RunSound, SignRoot, Settled
  <1>2. PICK e : e = [db EXCEPT !.root = run.sign]
    OBVIOUS
  <1>3. run' = [run EXCEPT !.at = "albums", !.left = run.names, !.sign = <<>>] /\ Commit(e)
    BY <1>2 DEF SignRoot
  <1>4. run'.at = "albums" /\ DOMAIN run' = RunFields /\ run'.left = run.names /\ run'.names = run.names /\ run'.moves = run.moves
    BY <1>1, <1>3 DEF RunFields
  <1>5. /\ e.row = db.row /\ e.entity = db.entity /\ e.face = db.face /\ e.hidden = db.hidden /\ e.scanned = db.scanned
        /\ DOMAIN e = Fields
    BY <1>1, <1>2 DEF Sound, Fields
  <1>6. Sound(e)
    BY <1>1, <1>5 DEF Sound
  <1>7. ScansFit(db, e) /\ PrintsRead(e, seen)
    BY <1>1, <1>5, SameRows DEF PrintsRead
  <1>8. RunSound' /\ ViewTrue' /\ SteadyLeft'
    BY <1>1, <1>4, NoView DEF RunSound, Viewing
  <1>9. QED BY <1>3, <1>6, <1>7, <1>8, CommitIs, CommitKeeps

\* The next album.
LEMMA NextAlbumIs ==
    ASSUME RunSound, NEW a \in AlbumNames, NEW complete, NextAlbum(a, complete)
    PROVE  RunSound' /\ ViewTrue' /\ SteadyLeft' /\ run'.at = "albums"
  <1>1. run' = [run EXCEPT !.at = "albums", !.left = @ \ {a}, !.complete = complete, !.view = <<>>] /\ DOMAIN run = RunFields
    BY DEF NextAlbum, RunSound
  <1>2. run'.at = "albums" /\ DOMAIN run' = RunFields /\ run'.left \subseteq run.left /\ run'.names = run.names /\ run'.moves = run.moves
    BY <1>1 DEF RunFields
  <1>3. QED BY <1>2, NoView DEF RunSound, Viewing

\* An album is read: what is not in it is not steady.
LEMMA ReadAlbumKeeps ==
    ASSUME IndexInv, NEW a \in AlbumNames, ReadAlbum(a)
    PROVE  IndexInv'
  <1>1. DOMAIN run = RunFields /\ RunSound /\ run.at = "albums" /\ OnlyRun
    BY DEF IndexInv, RunSound, ReadAlbum
  <1>2. ASSUME NEW complete, NextAlbum(a, complete) PROVE IndexInv'
    BY <1>1, <1>2, NextAlbumIs, OnlyRunIs, RunKeeps DEF Early, IndexInv
  <1> DEFINE fits == Dir(a).file = NoFile \/ Fits(db.row[Photo(a)], Dir(a).file, Dir(a).marker)
             at == IF fits THEN "folder" ELSE "photo"
             view == [album |-> a, file |-> Dir(a).file, private |-> Dir(a).marker, sign |-> AlbumSign(a), new |-> db.row[Photo(a)] = NoRow]
  <1>3. CASE a \in Names /\ run' = [run EXCEPT !.at = at, !.view = view]
    <2>1. Dir(a) \in Dirs /\ Dir(a) # NoDir /\ MarksFit(drive.album, clock)
      BY <1>3, NamesAre DEF IndexInv, DriveType, Dir
    <2>2. PICK v : v = view
      OBVIOUS
    <2>3. v.album = a /\ v.file = Dir(a).file /\ v.private = Dir(a).marker /\ v.sign = AlbumSign(a)
      BY <2>2
    <2>4. Viewed(v)
      <3>1. v.file \in Files \cup {NoFile} /\ v.private \in BOOLEAN /\ v.sign \in Signs
        BY <2>1, <2>3 DEF Dirs, Files, AlbumSign, Signs
      <3>2. v.sign.file = IF v.file = NoFile THEN NoFile ELSE v.file.changed
        BY <2>3 DEF AlbumSign
      <3>3. QED BY <2>3, <3>1, <3>2 DEF Viewed
    <2>5. v.sign.changed = Dir(a).changed
      BY <2>3 DEF AlbumSign
    <2>6. v.sign.changed <= clock /\ MarkOf(drive.album, v.sign.changed, v.private)
      BY <2>1, <2>3, <2>5 DEF MarksFit, Dir
    <2> HIDE DEF view
    <2>7. /\ run'.at = at /\ DOMAIN run' = RunFields /\ run'.left = run.left /\ run'.names = run.names /\ run'.moves = run.moves
          /\ run'.view = v
      BY <1>1, <1>3, <2>2 DEF RunFields
    <2>8. /\ fits => at = "folder"
          /\ ~fits => at = "photo" /\ Dir(a).file # NoFile
      OBVIOUS
    <2>9. fits /\ Dir(a).file # NoFile => Fits(db.row[Photo(a)], v.file, v.private)
      BY <2>3
    <2> HIDE DEF at, fits
    <2>10. RunSound'
      BY <1>1, <2>3, <2>4, <2>7, <2>8 DEF RunSound
    <2>11. db' = db /\ drive' = drive /\ clock' = clock /\ steady' = steady
      BY <1>1 DEF OnlyRun
    <2>12. ViewTrue'
      BY <2>3, <2>6, <2>7, <2>8, <2>9, <2>11 DEF ViewTrue
    <2>13. SteadyLeft'
      <3>1. Dir(a).file = NoFile => Photo(a) \notin steady
        BY ObjectsOfAlbum DEF IndexInv, SteadyHeld, Holds, Dir
      <3>2. QED BY <2>3, <2>7, <2>8, <2>11, <3>1 DEF SteadyLeft
    <2>14. run'.at \notin Early
      BY <2>7, <2>8 DEF Early
    <2>15. QED BY <1>1, <2>10, <2>12, <2>13, OnlyRunIs, RunKeeps DEF Early, IndexInv
  <1>4. QED BY <1>2, <1>3 DEF ReadAlbum

\* An album that cannot be read is left out.
LEMMA ReadFailsKeeps ==
    ASSUME IndexInv, NEW a \in AlbumNames, ReadFails(a)
    PROVE  IndexInv'
  <1>1. RunSound /\ run.at = "albums" /\ NextAlbum(a, FALSE) /\ Failure
    BY DEF IndexInv, ReadFails
  <1>2. QED BY <1>1, NextAlbumIs, FailureIs, RunKeeps DEF Early, IndexInv

\* From one transaction on an album to the next.
Goes(at) == run' = [run EXCEPT !.at = at]
\* From one transaction to the next the rebuild forgets nothing.
LEMMA GoesIs ==
    ASSUME RunSound, run.at \in Viewing, NEW at \in {"folder", "gone", "sign"}, Goes(at)
    PROVE  RunSound' /\ run'.at = at /\ run'.view = run.view
  <1>1. run'.at = at /\ DOMAIN run' = RunFields /\ run'.left = run.left /\ run'.names = run.names /\ run'.moves = run.moves /\ run'.view = run.view
    BY DEF RunSound, RunFields, Goes
  <1>2. QED BY <1>1 DEF RunSound, Viewing

\* What a rebuild writes of an album.
LEMMA WriteAlbumKeeps ==
    ASSUME IndexInv, run.at \in Viewing, NEW at \in {"folder", "gone", "sign"}, Goes(at), NEW e, db' = e,
           drive' = drive, seen' = seen, request' = request, clock' = clock, steady' = steady, LateType',
           late'.crossed = late.crossed, late'.record = late.record \cup Rewritten(e),
           Sound(e), ScansStay(db, e), PrintsRead(e, seen),
           ~late.crossed /\ run.view.file # NoFile => Fits(e.row[Photo(run.view.album)], run.view.file, run.view.private),
           at = "sign" /\ run.view.file = NoFile => e.row[Photo(run.view.album)] = NoRow
    PROVE  IndexInv'
  <1>1. RunSound' /\ run'.at = at /\ run'.view = run.view /\ clock \in Int
    BY GoesIs DEF IndexInv, Stamps
  <1>2. ScansTrue'
    BY <1>1, ScansAfterWrite DEF IndexInv, Sound
  <1>3. ViewTrue'
    BY <1>1 DEF IndexInv, ViewTrue
  <1>4. SteadyLeft'
    BY <1>1 DEF IndexInv, SteadyLeft, Viewing
  <1>5. Settled' /\ SteadyHeld' /\ RequestSound' /\ DriveType' /\ MarksFit(drive.album, clock)'
    BY <1>1 DEF IndexInv, Settled, SteadyHeld, RequestSound, DriveType, Holds
  <1>6. QED BY <1>1, <1>2, <1>3, <1>4, <1>5 DEF IndexInv

\* A transaction that may write the row of a photo.
LEMMA CommitPhotoIs ==
    ASSUME IndexInv, NEW e, CommitPhoto(e)
    PROVE  /\ db' = e /\ drive' = drive /\ seen' = seen /\ request' = request /\ clock' = clock /\ steady' = steady /\ LateType'
           /\ late'.crossed = late.crossed /\ late'.record = late.record \cup Rewritten(e)
  <1>1. PICK rewritten \in SUBSET AlbumNames : rewritten = Rewritten(e)
    BY DEF Rewritten
  <1>2. late' = [late EXCEPT !.record = @ \cup rewritten]
    BY <1>1 DEF CommitPhoto
  <1>3. LateType' /\ late'.crossed = late.crossed /\ late'.record = late.record \cup rewritten
    BY <1>2 DEF IndexInv, LateType
  <1>4. QED BY <1>1, <1>3 DEF CommitPhoto

\* The photo that was read is written, unless a request wrote its row in the meantime.
LEMMA WritePhotosKeeps ==
    ASSUME IndexInv, WritePhotos
    PROVE  IndexInv'
  <1>1. RunSound /\ run.at = "photo" /\ run.at \in Viewing /\ Viewed(run.view) /\ run.view.file # NoFile /\ Sound(db) /\ PrintsRead(db, seen)
    BY DEF IndexInv, RunSound, WritePhotos, Viewing, Settled
  <1>2. CASE NextAlbum(run.view.album, FALSE) /\ OnlyRun
    <2>1. run.view.album \in AlbumNames
      BY <1>1 DEF Viewed
    <2>2. RunSound' /\ ViewTrue' /\ SteadyLeft' /\ run'.at = "albums"
      BY <1>1, <1>2, <2>1, NextAlbumIs
    <2>3. QED BY <1>1, <1>2, <2>2, OnlyRunIs, RunKeeps DEF Early, IndexInv
  <1>3. CASE run' = [run EXCEPT !.at = "folder"] /\ CommitPhoto(SavePhoto(db, run.view.album, run.view.file, run.view.private))
    <2>1. PICK e : e = SavePhoto(db, run.view.album, run.view.file, run.view.private)
      OBVIOUS
    <2>2. /\ Sound(e) /\ e.scanned = db.scanned /\ Gentle(db, e)
          /\ Fits(e.row[Photo(run.view.album)], run.view.file, run.view.private)
      BY <1>1, <2>1, SavePhotoKeeps DEF Viewed
    <2>3. PrintsRead(e, seen) /\ ScansStay(db, e)
      BY <1>1, <2>2, PrintsStay DEF Gentle, ScansStay
    <2>4. CommitPhoto(e) /\ Goes("folder")
      BY <1>3, <2>1 DEF Goes
    <2>5. QED BY <1>1, <2>2, <2>3, <2>4, CommitPhotoIs, WriteAlbumKeeps
  <1>4. QED BY <1>2, <1>3 DEF WritePhotos

\* The photo that was not found is dropped.
LEMMA PrunePhotosKeeps ==
    ASSUME IndexInv, PrunePhotos
    PROVE  IndexInv'
  <1>1. RunSound /\ run.at = "gone" /\ run.at \in Viewing /\ Viewed(run.view) /\ Sound(db) /\ PrintsRead(db, seen)
    BY DEF IndexInv, RunSound, PrunePhotos, Viewing, Settled
  <1> DEFINE o == Photo(run.view.album)
  <1>2. o \in Objects
    BY <1>1, ObjectsOfAlbum DEF Viewed
  <1>3. PICK e : e = IF run.view.file = NoFile /\ db.row[o] # NoRow THEN Drop(db, o) ELSE db
    OBVIOUS
  <1>4. CommitPhoto(e) /\ Goes("sign")
    BY <1>3 DEF PrunePhotos, Goes
  <1>5. CASE run.view.file = NoFile /\ db.row[o] # NoRow
    <2>1. DropFits(db, e, o)
      BY <1>1, <1>2, <1>3, <1>5, DropKeeps
    <2>2. Sound(e) /\ PrintsRead(e, seen) /\ ScansStay(db, e) /\ e.row[o] = NoRow
      BY <1>1, <2>1, PrintsStay DEF DropFits, ScansStay
    <2>3. QED BY <1>1, <1>4, <1>5, <2>2, CommitPhotoIs, WriteAlbumKeeps
  <1>6. CASE ~(run.view.file = NoFile /\ db.row[o] # NoRow)
    <2>1. e = db
      BY <1>3, <1>6
    <2>2. ~late.crossed /\ run.view.file # NoFile => Fits(e.row[o], run.view.file, run.view.private)
      BY <1>1, <2>1 DEF IndexInv, ViewTrue
    <2>3. run.view.file = NoFile => e.row[o] = NoRow
      BY <1>6, <2>1
    <2>4. Sound(e) /\ PrintsRead(e, seen) /\ ScansStay(db, e)
      BY <1>1, <2>1 DEF ScansStay
    <2>5. QED BY <1>1, <1>4, <2>2, <2>3, <2>4, CommitPhotoIs, WriteAlbumKeeps
  <1>7. QED BY <1>5, <1>6

\* The folder is written.
LEMMA WriteFolderKeeps ==
    ASSUME IndexInv, WriteFolder
    PROVE  IndexInv'
  <1>1. RunSound /\ run.at = "folder" /\ run.at \in Viewing /\ Viewed(run.view) /\ Sound(db) /\ PrintsRead(db, seen)
    BY DEF IndexInv, RunSound, WriteFolder, Viewing, Settled
  <1>2. PICK e : e = SaveFolder(db, run.view.album, run.view.private, 0)
    OBVIOUS
  <1>3. Commit(e) /\ Goes("gone")
    BY <1>2 DEF WriteFolder, Goes
  <1>4. /\ Sound(e) /\ e.scanned = db.scanned /\ Gentle(db, e)
        /\ \A b \in AlbumNames : e.row[Photo(b)] = db.row[Photo(b)]
    BY <1>1, <1>2, SaveFolderKeeps, PhotoAssumption DEF Viewed, Stamps
  <1>5. ScansFit(db, e) /\ PrintsRead(e, seen)
    BY <1>1, <1>4, SameRows, PrintsStay DEF Gentle
  <1>6. RunSound' /\ run'.at = "gone" /\ run'.view = run.view
    BY <1>1, <1>3, GoesIs
  <1>7. ViewTrue'
    <2>1. late' = late /\ clock' = clock /\ drive' = drive /\ db' = e
      BY <1>3 DEF Commit
    <2>2. e.row[Photo(run.view.album)] = db.row[Photo(run.view.album)]
      BY <1>1, <1>4 DEF Viewed
    <2>3. QED BY <1>1, <1>6, <2>1, <2>2 DEF IndexInv, ViewTrue
  <1>8. SteadyLeft'
    BY <1>1, <1>3, <1>6 DEF IndexInv, SteadyLeft, Viewing, Commit
  <1>9. QED BY <1>3, <1>4, <1>5, <1>6, <1>7, <1>8, CommitIs, CommitKeeps

\* The scan is put on record; it fits the row, unless a request crossed it.
LEMMA SignAlbumKeeps ==
    ASSUME IndexInv, SignAlbum
    PROVE  IndexInv'
  <1> DEFINE a == run.view.album
             sign == run.view.sign
  <1>1. RunSound /\ run.at = "sign" /\ run.at \in Viewing /\ Viewed(run.view) /\ Sound(db) /\ PrintsRead(db, seen) /\ ViewTrue
    BY DEF IndexInv, RunSound, SignAlbum, Viewing, Settled
  <1>2. a \in AlbumNames /\ sign \in Signs /\ NextAlbum(a, run.complete)
    BY <1>1 DEF Viewed, SignAlbum
  <1>3. PICK e : e = [db EXCEPT !.scanned[a] = sign]
    OBVIOUS
  <1>4. PICK record : record = IF late.crossed THEN late.record \cup {a} ELSE late.record \ {a}
    OBVIOUS
  <1>5. /\ db' = e /\ late' = [record |-> record, crossed |-> FALSE] /\ drive' = drive /\ seen' = seen /\ request' = request
        /\ clock' = clock /\ steady' = steady
    BY <1>3, <1>4 DEF SignAlbum
  <1>6. LateType' /\ late'.record = record
    BY <1>2, <1>4, <1>5 DEF IndexInv, LateType
  <1>7. /\ e.row = db.row /\ e.entity = db.entity /\ e.face = db.face /\ e.hidden = db.hidden
        /\ e.scanned = [db.scanned EXCEPT ![a] = sign] /\ DOMAIN e = Fields
    BY <1>1, <1>3 DEF Sound, Fields
  <1>8. Sound(e) /\ PrintsRead(e, seen)
    BY <1>1, <1>2, <1>7 DEF Sound, PrintsRead
  <1>9. ScansTrue'
    <2>1. ASSUME NEW b \in AlbumNames, e.scanned[b] # NoSign
          PROVE  e.scanned[b].changed <= clock /\ (b \notin record => Agrees(e.row[Photo(b)], e.scanned[b], drive.album))
      <3>1. CASE b # a
        <4>1. e.scanned[b] = db.scanned[b] /\ e.row = db.row /\ (b \notin record => b \notin late.record)
          BY <1>4, <1>7, <3>1
        <4>2. QED BY <2>1, <4>1 DEF IndexInv, ScansTrue
      <3>2. CASE b = a
        <4>1. e.scanned[b] = sign /\ sign.changed <= clock /\ MarkOf(drive.album, sign.changed, run.view.private)
          BY <1>1, <1>2, <1>7, <3>2 DEF Sound, ViewTrue
        <4>2. b \notin record => ~late.crossed
          BY <1>4, <3>2
        <4>3. CASE run.view.file = NoFile
          <5>1. sign.file = NoFile /\ (b \notin record => db.row[Photo(a)] = NoRow)
            BY <1>1, <4>2, <4>3 DEF Viewed, ViewTrue
          <5>2. QED BY <1>7, <3>2, <4>1, <5>1 DEF Agrees
        <4>4. CASE run.view.file # NoFile
          <5>1. sign.file = run.view.file.changed /\ sign.file # NoFile
            BY <1>1, <4>4, PhotoAssumption DEF Viewed, Files
          <5>2. b \notin record => Fits(db.row[Photo(a)], run.view.file, run.view.private)
            BY <1>1, <4>2, <4>4 DEF ViewTrue
          <5>3. b \notin record => Agrees(db.row[Photo(a)], sign, drive.album)
            BY <4>1, <5>1, <5>2 DEF Agrees, Fits
          <5>4. QED BY <1>7, <3>2, <4>1, <5>3
        <4>5. QED BY <4>3, <4>4
      <3>3. QED BY <3>1, <3>2
    <2>2. QED BY <1>5, <1>6, <2>1 DEF ScansTrue
  <1>10. RunSound' /\ ViewTrue' /\ SteadyLeft' /\ run'.at = "albums"
    BY <1>1, <1>2, NextAlbumIs
  <1>11. Settled'
    BY <1>5, <1>8 DEF Settled
  <1>12. SteadyHeld' /\ RequestSound' /\ DriveType' /\ MarksFit(drive.album, clock)'
    BY <1>5 DEF IndexInv, SteadyHeld, RequestSound, DriveType, Holds
  <1>13. QED BY <1>5, <1>6, <1>8, <1>9, <1>10, <1>11, <1>12 DEF IndexInv

\* A rebuild that could read all goes on to purge.
LEMMA FinishKeeps ==
    ASSUME IndexInv, FinishScan \/ Finished
    PROVE  IndexInv'
  <1>1. DOMAIN run = RunFields /\ RunSound /\ Sound(db) /\ seen \in Scans
    BY DEF IndexInv, RunSound
  <1>2. CASE End /\ OnlyRun
    BY <1>2, EndKeeps
  <1>3. CASE run.at = "albums" /\ run' = [run EXCEPT !.at = "purge"] /\ Commit(Published(db, seen))
    <2>1. run'.at = "purge" /\ DOMAIN run' = RunFields /\ run'.left = run.left /\ run'.names = run.names /\ run'.moves = run.moves
      BY <1>1, <1>3 DEF RunFields
    <2>2. RunSound' /\ ViewTrue' /\ SteadyLeft'
      BY <1>1, <2>1, NoView DEF RunSound, Viewing
    <2>3. MissingRead(db, seen)
      BY <1>3 DEF IndexInv, Settled, PrintsRead, MissingRead, Missing
    <2>4. PICK e : e = Published(db, seen)
      OBVIOUS
    <2>5. Sound(e) /\ ScansFit(db, e) /\ PrintsRead(e, seen)
      BY <1>1, <2>3, <2>4, PublishedKeeps
    <2>6. QED BY <1>3, <2>2, <2>4, <2>5, CommitIs, CommitKeeps
  <1>4. QED BY <1>2, <1>3 DEF FinishScan, Finished

\* What has been missing for seven days goes.
LEMMA PurgeKeeps ==
    ASSUME IndexInv, NEW o \in Objects, Purge(o)
    PROVE  IndexInv'
  <1>1. run.at = "purge" /\ run' = run /\ Sound(db) /\ PrintsRead(db, seen)
    BY DEF IndexInv, Purge, Settled
  <1>2. PICK objects \in SUBSET Objects : objects = {o}
    OBVIOUS
  <1>3. PICK e : e = Purged(db, objects)
    OBVIOUS
  <1>4. Commit(e)
    BY <1>2, <1>3 DEF Purge
  <1>5. Sound(e) /\ ScansFit(db, e) /\ SamePrints(db, e)
    BY <1>1, <1>3, PurgedKeeps
  <1>6. RunSound' /\ ViewTrue' /\ SteadyLeft'
    BY <1>1, SameRun DEF Viewing
  <1>7. QED BY <1>1, <1>4, <1>5, <1>6, CommitIs, CommitKeeps, PrintsStay

\* Whatever a rebuild does.
LEMMA RebuildKeeps ==
    ASSUME IndexInv, Rebuild
    PROVE  IndexInv'
  BY WalkedKeeps, RelocateKeeps, PublishKeeps, LoadCacheKeeps, IndexRootKeeps, SignRootKeeps, WritePhotosKeeps,
     WriteFolderKeeps, PrunePhotosKeeps, SignAlbumKeeps, FinishKeeps, WalkKeeps, PruneAlbumKeeps, ReadAlbumKeeps,
     VerifyKeeps, RestoreKeeps, PurgeKeeps
  DEF Rebuild

-----------------------------------------------------------------------------
(* Requests and restarts                                                    *)

\* A request writes to the index, between any two steps of a rebuild.
LEMMA WriteKeeps ==
    ASSUME IndexInv, NEW e, Write(e), clock' \in Stamps, clock <= clock', Sound(e), ScansStay(db, e), SamePrints(db, e), RequestSound'
    PROVE  IndexInv'
  <1>1. drive' = drive /\ seen' = seen /\ run' = run /\ steady' = steady /\ db' = e /\ clock \in Int /\ clock' \in Int
    BY DEF Write, IndexInv, Stamps
  <1>2. PICK record \in SUBSET AlbumNames : record = late.record \cup Rewritten(e)
    BY DEF IndexInv, LateType, Rewritten
  <1>3. PICK crossed \in BOOLEAN : crossed = (late.crossed \/ Crosses(e))
    OBVIOUS
  <1>4. late' = [record |-> record, crossed |-> crossed]
    BY <1>2, <1>3 DEF Write
  <1>5. LateType' /\ late'.record = late.record \cup Rewritten(e) /\ late'.crossed = crossed
    BY <1>2, <1>4 DEF LateType
  <1>6. ScansTrue'
    BY <1>1, <1>5, ScansAfterWrite DEF IndexInv, Sound
  <1>7. RunSound' /\ SteadyLeft' /\ SteadyHeld' /\ DriveType'
    BY <1>1 DEF IndexInv, RunSound, SteadyLeft, SteadyHeld, DriveType, Holds
  <1>8. Settled'
    BY <1>1, PrintsStay DEF IndexInv, Settled
  <1>9. MarksFit(drive.album, clock)'
    <2>1. \A n \in AlbumNames : drive.album[n] # NoDir => drive.album[n].changed \in Int
      BY DEF IndexInv, DriveType, Dirs, Stamps
    <2>2. QED BY <1>1, <2>1 DEF IndexInv, MarksFit
  <1>10. ViewTrue'
    <2>1. SUFFICES ASSUME run.at \in Viewing
          PROVE  /\ run.view.sign.changed <= clock'
                 /\ MarkOf(drive.album, run.view.sign.changed, run.view.private)
                 /\ run.at # "photo" /\ ~crossed /\ run.view.file # NoFile => Fits(e.row[Photo(run.view.album)], run.view.file, run.view.private)
                 /\ run.at = "sign" /\ ~crossed /\ run.view.file = NoFile => e.row[Photo(run.view.album)] = NoRow
      BY <1>1, <1>5 DEF ViewTrue
    <2>2. run.view.sign.changed \in Int
      BY <2>1 DEF IndexInv, RunSound, Viewed, Signs, Stamps
    <2>3. run.at # "photo" /\ ~crossed => ~late.crossed /\ SaysTheSame(e.row[Photo(run.view.album)], db.row[Photo(run.view.album)])
      BY <1>3, <2>1 DEF Crosses, Viewing
    <2>4. QED BY <1>1, <2>1, <2>2, <2>3, FitsAreSame DEF IndexInv, ViewTrue
  <1>11. QED BY <1>1, <1>5, <1>6, <1>7, <1>8, <1>9, <1>10 DEF IndexInv

\* A request that writes rows takes no time.
LEMMA SaveIs ==
    ASSUME IndexInv, NEW e, Save(e)
    PROVE  Write(e) /\ clock' \in Stamps /\ clock <= clock'
  BY DEF IndexInv, Save, Stamps

\* A request that edits tags happens at a time of its own.
LEMMA EditIs ==
    ASSUME IndexInv, NEW e, Edit(e)
    PROVE  Write(e) /\ clock' \in Stamps /\ clock <= clock' /\ clock + 1 \in Stamps
  BY PhotoAssumption DEF IndexInv, Edit, Stamps

\* A request that only looks at the drive.
LEMMA OnlyRequestKeeps ==
    ASSUME IndexInv, OnlyRequest, RequestSound'
    PROVE  IndexInv'
  BY DEF IndexInv, OnlyRequest, RunSound, Settled, ScansTrue, ViewTrue, SteadyHeld, SteadyLeft, DriveType, LateType

\* A request looks at a photo, and remembers it.
LEMMA OpenPhotoKeeps ==
    ASSUME IndexInv, NEW a \in AlbumNames, OpenPhoto(a)
    PROVE  IndexInv'
  <1>1. Dir(a) \in Dirs /\ Dir(a).file # NoFile
    BY NamesAre DEF OpenPhoto, IndexInv, DriveType, Dir
  <1>2. PICK at \in {"tags", "save"} : request' = [at |-> at, album |-> a, file |-> Dir(a).file, private |-> Dir(a).marker]
    BY DEF OpenPhoto, Ask
  <1>3. Dir(a).file \in Files /\ Dir(a).marker \in BOOLEAN
    BY <1>1 DEF Dirs
  <1>4. RequestSound'
    BY <1>2, <1>3 DEF RequestSound, Asked
  <1>5. QED BY <1>4, OnlyRequestKeeps DEF OpenPhoto

\* A request looks at a folder, and remembers it.
LEMMA OpenFolderKeeps ==
    ASSUME IndexInv, NEW a \in AlbumNames, OpenFolder(a)
    PROVE  IndexInv'
  <1>1. Dir(a) \in Dirs
    BY NamesAre DEF OpenFolder, IndexInv, DriveType, Dir
  <1>2. PICK tags : tags = IF db.row[Folder(a)] = NoRow THEN 0 ELSE db.row[Folder(a)].tags
    OBVIOUS
  <1>3. PICK at \in {"folder", "folder tags"} : request' = [at |-> at, album |-> a, private |-> Dir(a).marker, tags |-> tags]
    BY <1>2 DEF OpenFolder, Ask
  <1>4. tags \in Stamps
    <2>1. db.row[Folder(a)] \in Rows \cup {NoRow}
      BY ObjectsOfAlbum DEF IndexInv, Sound
    <2>2. 0 \in Stamps
      BY ZeroStamp
    <2>3. QED BY <1>2, <2>1, <2>2 DEF Rows
  <1>5. Dir(a).marker \in BOOLEAN
    BY <1>1 DEF Dirs
  <1>6. RequestSound'
    BY <1>3, <1>4, <1>5 DEF RequestSound, Asked
  <1>7. QED BY <1>6, OnlyRequestKeeps DEF OpenFolder

\* A request that is done.
LEMMA NoRequestSound ==
    ASSUME Ask(NoRequest)
    PROVE  RequestSound'
  BY DEF Ask, RequestSound

\* A request that stays as it is.
LEMMA SameRequest ==
    ASSUME IndexInv, Ask(request)
    PROVE  RequestSound'
  BY DEF IndexInv, Ask, RequestSound

\* What a request remembers is of an album.
LEMMA OpenedIs ==
    ASSUME IndexInv
    PROVE  /\ request.at \in {"save", "tags"} => request \in Asked(request.at) /\ request.album \in AlbumNames /\ request.file \in Files
                                                 /\ request.private \in BOOLEAN
           /\ request.at \in {"folder", "folder tags"} => request.album \in AlbumNames /\ request.private \in BOOLEAN /\ request.tags \in Stamps
  <1>1. request.at # "none" => request \in Asked(request.at)
    <2>1. request = NoRequest \/ request \in Asked(request.at)
      BY DEF IndexInv, RequestSound
    <2>2. NoRequest.at = "none"
      BY DEF NoRequest
    <2>3. QED BY <2>1, <2>2
  <1>2. ASSUME request.at \in {"save", "tags"}
        PROVE  request \in Asked(request.at) /\ request.album \in AlbumNames /\ request.file \in Files /\ request.private \in BOOLEAN
    BY <1>1, <1>2 DEF Asked
  <1>3. ASSUME request.at \in {"folder", "folder tags"}
        PROVE  request.album \in AlbumNames /\ request.private \in BOOLEAN /\ request.tags \in Stamps
    BY <1>1, <1>3 DEF Asked
  <1>4. QED BY <1>2, <1>3

\* A request writes the photo as it saw it, however it is now.
LEMMA SaveOpenedKeeps ==
    ASSUME IndexInv, SaveOpened
    PROVE  IndexInv'
  <1>1. request \in Asked("save") /\ request.at = "save" /\ request.album \in AlbumNames /\ request.file \in Files /\ request.private \in BOOLEAN
    BY OpenedIs DEF SaveOpened
  <1>2. RequestSound'
    <2>1. request' = [request EXCEPT !.at = "tags"]
      BY DEF SaveOpened, Ask
    <2>2. QED BY <1>1, <2>1 DEF RequestSound, Asked
  <1>3. PICK e : e = SavePhoto(db, request.album, request.file, request.private)
    OBVIOUS
  <1>4. Sound(db) /\ Save(e)
    BY <1>3 DEF SaveOpened, IndexInv
  <1>5. Sound(e) /\ e.scanned = db.scanned /\ Gentle(db, e)
    BY <1>1, <1>3, <1>4, SavePhotoKeeps
  <1>6. ScansStay(db, e) /\ SamePrints(db, e)
    BY <1>5 DEF ScansStay, Gentle
  <1>7. QED BY <1>2, <1>4, <1>5, <1>6, SaveIs, WriteKeeps

\* A request sets the tags of a photo.
LEMMA TagPhotoKeeps ==
    ASSUME IndexInv, TagPhoto
    PROVE  IndexInv'
  <1>1. Photo(request.album) \in Objects /\ db.row[Photo(request.album)] # NoRow /\ Sound(db)
    BY OpenedIs, ObjectsOfAlbum DEF TagPhoto, IndexInv
  <1>2. PICK objects \in SUBSET Objects : objects = {Photo(request.album)}
    BY <1>1
  <1>3. PICK e : e = SetTags(db, objects, clock + 1)
    OBVIOUS
  <1>4. Edit(e)
    BY <1>2, <1>3 DEF TagPhoto
  <1>5. Sound(e) /\ ScansFit(db, e) /\ SamePrints(db, e)
    BY <1>1, <1>2, <1>3, <1>4, EditIs, SetTagsKeeps
  <1>6. RequestSound'
    BY NoRequestSound DEF TagPhoto
  <1>7. QED BY <1>4, <1>5, <1>6, EditIs, FitsStay, WriteKeeps

\* A request writes the folder as it saw it.
LEMMA SaveOpenedFolderKeeps ==
    ASSUME IndexInv, SaveOpenedFolder
    PROVE  IndexInv'
  <1>1. request.album \in AlbumNames /\ request.private \in BOOLEAN /\ request.tags \in Stamps /\ Sound(db)
    BY OpenedIs DEF SaveOpenedFolder, IndexInv
  <1>2. PICK e : e = SaveFolder(db, request.album, request.private, request.tags)
    OBVIOUS
  <1>3. Save(e)
    BY <1>2 DEF SaveOpenedFolder
  <1>4. Sound(e) /\ e.scanned = db.scanned /\ Gentle(db, e)
    BY <1>1, <1>2, SaveFolderKeeps
  <1>5. ScansStay(db, e) /\ SamePrints(db, e)
    BY <1>4 DEF ScansStay, Gentle
  <1>6. RequestSound'
    BY NoRequestSound DEF SaveOpenedFolder
  <1>7. QED BY <1>3, <1>4, <1>5, <1>6, SaveIs, WriteKeeps

\* The two steps of tagging a folder in one.
LEMMA TaggedFolder ==
    ASSUME NEW d, Sound(d), NEW a \in AlbumNames, NEW private \in BOOLEAN, NEW tags \in Stamps,
           NEW saved, saved = SaveFolder(d, a, private, tags),
           NEW e, e = IF d.row[Folder(a)] # NoRow THEN SetTags(saved, {Folder(a)}, tags) ELSE saved
    PROVE  /\ Sound(e) /\ ScansStay(d, e) /\ SamePrints(d, e) /\ NoneMissed(d, e)
           /\ Wants(d, e, {Folder(a)}, tags) \/ SameWanted(d, e)
  <1>1. Folder(a) \in Objects
    BY ObjectsOfAlbum
  <1>2. /\ Sound(saved) /\ saved.scanned = d.scanned /\ Gentle(d, saved) /\ saved.row[Folder(a)] # NoRow
        /\ d.row[Folder(a)] # NoRow => saved.entity = d.entity
    BY SaveFolderKeeps
  <1>3. CASE d.row[Folder(a)] = NoRow
    BY <1>2, <1>3 DEF Gentle, ScansStay
  <1>4. CASE d.row[Folder(a)] # NoRow
    <2>1. PICK objects \in SUBSET Objects : objects = {Folder(a)}
      BY <1>1
    <2>2. e = SetTags(saved, objects, tags)
      BY <1>4, <2>1
    <2>3. Sound(e) /\ ScansFit(saved, e) /\ NoneMissed(saved, e) /\ SamePrints(saved, e) /\ Wants(saved, e, objects, tags)
      BY <1>2, <2>1, <2>2, SetTagsKeeps
    <2>4. saved.entity = d.entity
      BY <1>2, <1>4
    <2>5. NoneMissed(d, e) /\ SamePrints(d, e) /\ Wants(d, e, objects, tags)
      BY <2>3, <2>4 DEF NoneMissed, SamePrints, Wants, Missing
    <2>6. ScansStay(d, e)
      BY <1>2, <2>3 DEF ScansFit, ScansStay
    <2>7. QED BY <2>1, <2>3, <2>5, <2>6
  <1>5. QED BY <1>3, <1>4

\* A request sets the tags of a folder.
LEMMA TagFolderKeeps ==
    ASSUME IndexInv, TagFolder
    PROVE  IndexInv'
  <1>1. request.album \in AlbumNames /\ request.private \in BOOLEAN /\ Sound(db)
    BY OpenedIs DEF TagFolder, IndexInv
  <1>2. PICK saved : saved = SaveFolder(db, request.album, request.private, clock + 1)
    OBVIOUS
  <1>3. PICK e : e = IF db.row[Folder(request.album)] # NoRow THEN SetTags(saved, {Folder(request.album)}, clock + 1) ELSE saved
    OBVIOUS
  <1>4. Edit(e)
    BY <1>2, <1>3 DEF TagFolder
  <1>5. Sound(e) /\ ScansStay(db, e) /\ SamePrints(db, e)
    BY <1>1, <1>2, <1>3, <1>4, EditIs, TaggedFolder
  <1>6. RequestSound'
    BY NoRequestSound DEF TagFolder
  <1>7. QED BY <1>4, <1>5, <1>6, EditIs, WriteKeeps

\* A tag is renamed or deleted, wherever the search finds it.
LEMMA ChangeTagKeeps ==
    ASSUME IndexInv, NEW tag \in 1 .. MaxEvents, NEW name \in {0, clock + 1}, ChangeTag(tag, name)
    PROVE  IndexInv'
  <1>1. PICK tagged \in SUBSET Objects : tagged = {o \in Objects : db.row[o] # NoRow /\ db.row[o].found = tag}
    OBVIOUS
  <1>2. PICK e : e = SetTags(db, tagged, name)
    OBVIOUS
  <1>3. Edit(e) /\ Ask(request)
    BY <1>1, <1>2 DEF ChangeTag
  <1>4. name \in Stamps
    BY <1>3, EditIs, PhotoAssumption DEF Stamps
  <1>5. Sound(db) /\ \A o \in tagged : db.row[o] # NoRow
    BY <1>1 DEF IndexInv
  <1>6. Sound(e) /\ ScansFit(db, e) /\ SamePrints(db, e)
    BY <1>2, <1>4, <1>5, SetTagsKeeps
  <1>7. QED BY <1>3, <1>6, SameRequest, EditIs, FitsStay, WriteKeeps

\* Faces of an album with a marker are hidden.
LEMMA HideFacesKeeps ==
    ASSUME IndexInv, NEW a \in AlbumNames, HideFaces(a)
    PROVE  IndexInv'
  <1>1. Photo(a) \in Objects /\ db.row[Photo(a)] # NoRow /\ Sound(db)
    BY ObjectsOfAlbum DEF HideFaces, IndexInv
  <1>2. PICK private \in BOOLEAN : private = TRUE
    OBVIOUS
  <1>3. PICK e : e = SetPrivate(db, {Photo(a)}, Everywhere(private))
    OBVIOUS
  <1>4. Save(e) /\ Ask(request)
    BY <1>2, <1>3 DEF HideFaces
  <1>5. FlagSet(db, e, Photo(a), private)
    BY <1>1, <1>3, SetPrivateOne
  <1>6. Sound(e) /\ ScansStay(db, e) /\ SamePrints(db, e)
    BY <1>5, GentleEntities DEF FlagSet, ScansStay, Gentle
  <1>7. QED BY <1>4, <1>6, SameRequest, SaveIs, WriteKeeps

\* A user has something that is missing forgotten.
LEMMA ForgetKeeps ==
    ASSUME IndexInv, NEW o \in Objects, Forget(o)
    PROVE  IndexInv'
  <1>1. PICK gone \in SUBSET Objects : gone = {x \in Objects : Missing(db, x) /\ (x = o \/ (~IsPhoto(o) /\ x = Photo(AlbumOf(o))))}
    OBVIOUS
  <1>2. PICK e : e = Purged(db, gone)
    OBVIOUS
  <1>3. Save(e) /\ Ask(request)
    BY <1>1, <1>2 DEF Forget
  <1>4. Sound(e) /\ ScansFit(db, e) /\ SamePrints(db, e)
    BY <1>2, PurgedKeeps DEF IndexInv
  <1>5. QED BY <1>3, <1>4, SameRequest, SaveIs, FitsStay, WriteKeeps

\* Seven days go by.
LEMMA SevenDaysKeepsInv ==
    ASSUME IndexInv, SevenDays
    PROVE  IndexInv'
  <1>1. PICK e : e = [db EXCEPT !.entity = [o \in Objects |-> IF Missing(db, o) THEN [@[o] EXCEPT !.missing = 2] ELSE @[o]]]
    OBVIOUS
  <1>2. Save(e) /\ Ask(request)
    BY <1>1 DEF SevenDays
  <1>3. Sound(e) /\ ScansFit(db, e) /\ Gentle(db, e)
    BY <1>1, SevenDaysKeeps DEF IndexInv
  <1>4. QED BY <1>2, <1>3, SameRequest, SaveIs, FitsStay, WriteKeeps DEF Gentle

\* What a start of the process makes of the index.
LEMMA RestartIs ==
    ASSUME IndexInv, Restart
    PROVE  \E e : /\ Sound(e) /\ ScansStay(db, e) /\ Gentle(db, e) /\ db' = e
                  /\ late' = [record |-> late.record \cup Rewritten(e), crossed |-> FALSE]
  <1>1. PICK known : known = Known(db)
    OBVIOUS
  <1>2. PICK flagged \in SUBSET Objects : flagged = {o \in Objects : db.row[o] # NoRow /\ AlbumOf(o) \in Names}
    OBVIOUS
  <1>3. PICK marker : marker = [a \in AlbumNames |-> IF a \in Names THEN Dir(a).marker ELSE FALSE]
    OBVIOUS
  <1>4. PICK e : e = SetPrivate(known, flagged, marker)
    OBVIOUS
  <1>5. db' = e /\ late' = [record |-> late.record \cup Rewritten(e), crossed |-> FALSE]
    BY <1>1, <1>2, <1>3, <1>4 DEF Restart, Known
  <1>6. Sound(known) /\ known.scanned = db.scanned /\ Gentle(db, known) /\ known.row = db.row
    BY <1>1, KnownKeeps DEF IndexInv
  <1>7. marker \in [AlbumNames -> BOOLEAN]
    <2>1. \A a \in AlbumNames : a \in Names => Dir(a).marker \in BOOLEAN
      BY NamesAre DEF IndexInv, DriveType, Dir, Dirs
    <2>2. QED BY <1>3, <2>1
  <1>8. FlagsSet(known, e, flagged, marker)
    BY <1>2, <1>4, <1>6, <1>7, SetPrivateKeeps
  <1>9. Sound(e) /\ ScansStay(db, e)
    BY <1>6, <1>8 DEF FlagsSet, ScansStay
  <1>10. Gentle(db, e)
    BY <1>6, <1>8 DEF FlagsSet, Gentle, SameWanted, NoneMissed, SamePrints, Missing
  <1>11. QED BY <1>5, <1>9, <1>10

\* The process ends and starts again at any time.
LEMMA RestartKeeps ==
    ASSUME IndexInv, Restart
    PROVE  IndexInv'
  <1>1. PICK e : /\ Sound(e) /\ ScansStay(db, e) /\ Gentle(db, e) /\ db' = e
                 /\ late' = [record |-> late.record \cup Rewritten(e), crossed |-> FALSE]
    BY RestartIs
  <1>2. /\ drive' = drive /\ seen' = seen /\ steady' = steady /\ run' = Idle /\ Ask(NoRequest)
        /\ clock' \in Stamps /\ clock <= clock' /\ clock \in Int /\ clock' \in Int
    BY PhotoAssumption DEF Restart, IndexInv, Stamps
  <1>3. PICK record \in SUBSET AlbumNames : record = late.record \cup Rewritten(e)
    BY DEF IndexInv, LateType, Rewritten
  <1>4. LateType' /\ late'.record = late.record \cup Rewritten(e)
    BY <1>1, <1>3 DEF LateType
  <1>5. ScansTrue'
    BY <1>1, <1>2, <1>4, ScansAfterWrite DEF IndexInv, Sound
  <1>6. RunSound' /\ ViewTrue' /\ SteadyLeft' /\ run'.at = "idle"
    BY <1>2, EndIs DEF End
  <1>7. Settled' /\ SteadyHeld' /\ DriveType' /\ RequestSound'
    BY <1>2, <1>6, NoRequestSound DEF IndexInv, Settled, SteadyHeld, Holds, DriveType
  <1>8. MarksFit(drive.album, clock)'
    <2>1. \A n \in AlbumNames : drive.album[n] # NoDir => drive.album[n].changed \in Int
      BY DEF IndexInv, DriveType, Dirs, Stamps
    <2>2. QED BY <1>2, <2>1 DEF IndexInv, MarksFit
  <1>9. QED BY <1>1, <1>2, <1>4, <1>5, <1>6, <1>7, <1>8 DEF IndexInv

\* A request is not followed by an edit.
LEMMA LeaveKeeps ==
    ASSUME IndexInv, Leave
    PROVE  IndexInv'
  BY NoRequestSound, OnlyRequestKeeps DEF Leave

\* IndexInv is inductive.
LEMMA NextKeeps ==
    ASSUME IndexInv, [Next]_vars
    PROVE  IndexInv'
  <1>1. CASE Next
    BY <1>1, WorldKeeps, StartKeeps, RebuildKeeps, SaveOpenedKeeps, TagPhotoKeeps, SaveOpenedFolderKeeps, TagFolderKeeps, LeaveKeeps,
       RestartKeeps, WalkKeeps, ReadFailsKeeps, OpenPhotoKeeps, OpenFolderKeeps, HideFacesKeeps, SevenDaysKeepsInv, ForgetKeeps,
       ChangeTagKeeps
    DEF Next
  <1>2. CASE UNCHANGED vars
    <2>1. drive' = drive /\ db' = db /\ seen' = seen /\ run' = run /\ request' = request /\ clock' = clock /\ steady' = steady /\ late' = late
      BY <1>2 DEF vars
    <2>2. RunSound' /\ RequestSound' /\ DriveType' /\ LateType' /\ Settled'
      BY <2>1 DEF IndexInv, RunSound, RequestSound, DriveType, LateType, Settled
    <2>3. ScansTrue' /\ ViewTrue' /\ SteadyLeft'
      BY <2>1 DEF IndexInv, ScansTrue, ViewTrue, SteadyLeft
    <2>4. SteadyHeld' /\ MarksFit(drive.album, clock)'
      BY <2>1 DEF IndexInv, SteadyHeld, Holds
    <2>5. QED BY <2>1, <2>2, <2>3, <2>4 DEF IndexInv
  <1>3. QED BY <1>1, <1>2

\* At every moment, whatever happens on the drive, in requests and in the rebuild, the index
\* is sound, and a rebuild knows what it needs for its next step to keep it sound.
THEOREM IndexInvHolds == Spec => []IndexInv
  BY InitSound, NextKeeps, PTL DEF Spec

\* An identity has its row or what is kept of it, with the tags that were set last; the
\* search finds rows by the tags they have (saveMediaBatchWithExisting, setMediaTagsTx); faces
\* that are not in doubt are of the bytes the index knows, and private photos show none; a scan
\* that is on record can be left out of the next rebuild.
THEOREM PhotoInvHolds == Spec => []PhotoInv
  BY IndexInvHolds, IndexInvIsEnough, PTL

-----------------------------------------------------------------------------
(* What no step does                                                        *)

\* Most steps take nothing for missing and leave the tags as they were set.
Quiet == SameWanted(db, db') /\ NoneMissed(db, db')

\* Nothing is written.
LEMMA SameIsQuiet ==
    ASSUME db' = db
    PROVE  Quiet
  BY SameIndex DEF Quiet, Gentle

\* A rebuild reads.
LEMMA OnlyRunIsQuiet ==
    ASSUME OnlyRun
    PROVE  Quiet
  BY SameIsQuiet DEF OnlyRun

\* What happens on the drive does not happen to the index.
LEMMA WorldIsQuiet ==
    ASSUME World
    PROVE  Quiet
  BY SameIsQuiet DEF World, Unmount, Mount, RemoveAlbum, RemovePhoto, MarkAlbum, RenameAlbum, AddAlbum, WritePhoto, RootChange,
                     AlbumChange, External

\* Rebuilds and requests that read.
LEMMA ReadingIsQuiet ==
    ASSUME \/ Start \/ Walked \/ LoadCache \/ IndexRoot \/ Finished \/ Leave
           \/ \E a \in AlbumNames : Walk(a) \/ WalkFails(a) \/ ReadAlbum(a) \/ ReadFails(a) \/ OpenPhoto(a) \/ OpenFolder(a)
                                    \/ \E b \in AlbumNames : Verify(a, b)
    PROVE  Quiet
  <1>1. db' = db
    BY DEF Start, Walked, LoadCache, IndexRoot, Finished, Leave, Walk, WalkFails, ReadAlbum, ReadFails, OpenPhoto, OpenFolder, Verify,
           OnlyRun, OnlyRequest, Failure
  <1>2. QED BY <1>1, SameIsQuiet

\* Publishing writes fingerprints alone.
LEMMA PublishIsQuiet ==
    ASSUME IndexInv, NEW s \in Scans, MissingRead(db, s), NEW e, e = Published(db, s), db' = e
    PROVE  Quiet
  BY PublishedKeeps DEF IndexInv, Quiet

\* The two places where fingerprints are published.
LEMMA PublishingIsQuiet ==
    ASSUME IndexInv, PublishFingerprints \/ FinishScan
    PROVE  Quiet
  <1>1. seen \in Scans
    BY DEF IndexInv
  <1>2. CASE PublishFingerprints
    <2>1. MissingRead(db, seen)
      <3>1. ASSUME NEW a \in AlbumNames, Present(seen, a)
            PROVE  ~Missing(db, Photo(a))
        BY <1>2, <3>1, ObjectsOfAlbum DEF PublishFingerprints, Back, Scanned, Present
      <3>2. QED BY <3>1 DEF MissingRead
    <2>2. PICK e : e = Published(db, seen)
      OBVIOUS
    <2>3. db' = e
      BY <1>2, <2>2 DEF PublishFingerprints, Commit
    <2>4. QED BY <1>1, <2>1, <2>2, <2>3, PublishIsQuiet
  <1>3. CASE FinishScan
    <2>1. MissingRead(db, seen)
      BY <1>3 DEF FinishScan, IndexInv, Settled, PrintsRead, MissingRead, Missing
    <2>2. PICK e : e = Published(db, seen)
      OBVIOUS
    <2>3. db' = e \/ OnlyRun
      BY <1>3, <2>2 DEF FinishScan, Commit
    <2>4. QED BY <1>1, <2>1, <2>2, <2>3, PublishIsQuiet, OnlyRunIsQuiet
  <1>4. QED BY <1>2, <1>3

\* What a rebuild writes of what is there.
LEMMA WritingIsQuiet ==
    ASSUME IndexInv, SignRoot \/ WritePhotos \/ WriteFolder \/ SignAlbum \/ \E o \in Objects : Restore(o)
    PROVE  Quiet
  <1>1. Sound(db)
    BY DEF IndexInv
  <1>2. CASE SignRoot \/ SignAlbum
    <2>1. db'.entity = db.entity
      <3>1. CASE SignRoot
        <4>1. db' = [db EXCEPT !.root = run.sign]
          BY <3>1 DEF SignRoot, Commit
        <4>2. QED BY <1>1, <4>1 DEF Sound, Fields
      <3>2. CASE SignAlbum
        <4>1. db' = [db EXCEPT !.scanned[run.view.album] = run.view.sign]
          BY <3>2 DEF SignAlbum
        <4>2. QED BY <1>1, <4>1 DEF Sound, Fields
      <3>3. QED BY <1>2, <3>1, <3>2
    <2>2. QED BY <2>1, GentleEntities DEF Quiet, Gentle
  <1>3. CASE WritePhotos
    <2>1. PICK e : e = SavePhoto(db, run.view.album, run.view.file, run.view.private)
      OBVIOUS
    <2>2. OnlyRun \/ db' = e
      BY <1>3, <2>1 DEF WritePhotos, CommitPhoto
    <2>3. Viewed(run.view) /\ run.view.file # NoFile
      BY <1>3 DEF WritePhotos, IndexInv, RunSound, Viewing
    <2>4. Gentle(db, e)
      BY <1>1, <2>1, <2>3, SavePhotoKeeps DEF Viewed
    <2>5. QED BY <2>2, <2>4, OnlyRunIsQuiet DEF Quiet, Gentle
  <1>4. CASE WriteFolder
    <2>1. PICK e : e = SaveFolder(db, run.view.album, run.view.private, 0)
      OBVIOUS
    <2>2. db' = e
      BY <1>4, <2>1 DEF WriteFolder, Commit
    <2>3. Viewed(run.view)
      BY <1>4 DEF WriteFolder, IndexInv, RunSound, Viewing
    <2>4. Gentle(db, e)
      BY <1>1, <2>1, <2>3, ZeroStamp, SaveFolderKeeps DEF Viewed
    <2>5. QED BY <2>2, <2>4 DEF Quiet, Gentle
  <1>5. ASSUME NEW o \in Objects, Restore(o) PROVE Quiet
    <2>1. PICK e : e = Restored(db, o)
      OBVIOUS
    <2>2. OnlyRun \/ (db.row[o] = NoRow /\ db' = e)
      BY <1>5, <2>1 DEF Restore, Commit
    <2>3. Missing(db, o)
      BY <1>5 DEF Restore, Back
    <2>4. db.row[o] = NoRow => Gentle(db, e)
      BY <1>1, <2>1, <2>3, RestoredKeeps
    <2>5. QED BY <2>2, <2>4, OnlyRunIsQuiet DEF Quiet, Gentle
  <1>6. QED BY <1>2, <1>3, <1>4, <1>5

\* What requests, time and a start write besides tags.
LEMMA RequestIsQuiet ==
    ASSUME IndexInv, SaveOpened \/ SaveOpenedFolder \/ SevenDays \/ Restart \/ \E a \in AlbumNames : HideFaces(a)
    PROVE  Quiet
  <1>1. Sound(db)
    BY DEF IndexInv
  <1>2. CASE SaveOpened
    <2>1. PICK e : e = SavePhoto(db, request.album, request.file, request.private)
      OBVIOUS
    <2>2. db' = e /\ request.at = "save"
      BY <1>2, <2>1 DEF SaveOpened, Save, Write
    <2>3. Gentle(db, e)
      BY <1>1, <2>1, <2>2, OpenedIs, SavePhotoKeeps
    <2>4. QED BY <2>2, <2>3 DEF Quiet, Gentle
  <1>3. CASE SaveOpenedFolder
    <2>1. PICK e : e = SaveFolder(db, request.album, request.private, request.tags)
      OBVIOUS
    <2>2. db' = e /\ request.at = "folder"
      BY <1>3, <2>1 DEF SaveOpenedFolder, Save, Write
    <2>3. Gentle(db, e)
      BY <1>1, <2>1, <2>2, OpenedIs, SaveFolderKeeps
    <2>4. QED BY <2>2, <2>3 DEF Quiet, Gentle
  <1>4. CASE SevenDays
    <2>1. PICK e : e = [db EXCEPT !.entity = [o \in Objects |-> IF Missing(db, o) THEN [@[o] EXCEPT !.missing = 2] ELSE @[o]]]
      OBVIOUS
    <2>2. db' = e
      BY <1>4, <2>1 DEF SevenDays, Save, Write
    <2>3. Gentle(db, e)
      BY <1>1, <2>1, SevenDaysKeeps
    <2>4. QED BY <2>2, <2>3 DEF Quiet, Gentle
  <1>5. CASE Restart
    BY <1>5, RestartIs DEF Quiet, Gentle
  <1>6. ASSUME NEW a \in AlbumNames, HideFaces(a) PROVE Quiet
    <2>1. Photo(a) \in Objects /\ db.row[Photo(a)] # NoRow
      BY <1>6, ObjectsOfAlbum DEF HideFaces
    <2>2. PICK private \in BOOLEAN : private = TRUE
      OBVIOUS
    <2>3. PICK e : e = SetPrivate(db, {Photo(a)}, Everywhere(private))
      OBVIOUS
    <2>4. db' = e
      BY <1>6, <2>2, <2>3 DEF HideFaces, Save, Write
    <2>5. FlagSet(db, e, Photo(a), private)
      BY <1>1, <2>1, <2>3, SetPrivateOne
    <2>6. QED BY <2>4, <2>5, GentleEntities DEF FlagSet, Quiet, Gentle
  <1>7. QED BY <1>2, <1>3, <1>4, <1>5, <1>6

\* The others, each with what it does.
LEMMA PruningIs ==
    ASSUME IndexInv, NEW a \in AlbumNames, PruneAlbum(a)
    PROVE  SameWanted(db, db') /\ \A o \in steady : Missing(db', o) => Missing(db, o)
  <1>1. PICK e : e = DropAlbum(db, a)
    OBVIOUS
  <1>2. db' = e /\ run.at = "prune" /\ a \in run.left
    BY <1>1 DEF PruneAlbum, Commit
  <1>3. DropAlbumFits(db, e, a)
    BY <1>1, DropAlbumKeeps DEF IndexInv
  <1>4. \A o \in steady : AlbumOf(o) # a /\ o \in Objects
    BY <1>2 DEF IndexInv, SteadyLeft
  <1>5. QED BY <1>2, <1>3, <1>4 DEF DropAlbumFits, Missing

\* Nor is the photo of an album that had one all the time.
LEMMA PruningPhotosIs ==
    ASSUME IndexInv, PrunePhotos
    PROVE  SameWanted(db, db') /\ \A o \in steady : Missing(db', o) => Missing(db, o)
  <1> DEFINE p == Photo(run.view.album)
  <1>1. PICK e : e = IF run.view.file = NoFile /\ db.row[p] # NoRow THEN Drop(db, p) ELSE db
    OBVIOUS
  <1>2. db' = e /\ run.at = "gone" /\ run.at \in Viewing
    BY <1>1 DEF PrunePhotos, CommitPhoto, Viewing
  <1>3. p \in Objects
    BY <1>2, ObjectsOfAlbum DEF IndexInv, RunSound, Viewed
  <1>4. CASE run.view.file = NoFile /\ db.row[p] # NoRow
    <2>1. DropFits(db, e, p)
      BY <1>1, <1>3, <1>4, DropKeeps DEF IndexInv
    <2>2. \A o \in steady : o # p /\ o \in Objects
      BY <1>2, <1>4 DEF IndexInv, SteadyLeft
    <2>3. QED BY <1>2, <2>1, <2>2 DEF DropFits, Missing
  <1>5. CASE ~(run.view.file = NoFile /\ db.row[p] # NoRow)
    BY <1>1, <1>2, <1>5, SameIsQuiet DEF Quiet, NoneMissed, SameWanted
  <1>6. QED BY <1>4, <1>5

\* Edits of tags: of the objects they are about, and no other.
Retagged(tags) ==
    /\ NoneMissed(db, db')
    /\ \A o \in Objects : db.entity[o] # NoEntity => db'.entity[o] # NoEntity /\ db'.entity[o].wanted \in {db.entity[o].wanted, tags}

\* Tags that are set as the operators say.
LEMMA RetaggedBy ==
    ASSUME NEW e, db' = e, NEW objects, NEW tags, NoneMissed(db, e), Wants(db, e, objects, tags) \/ SameWanted(db, e)
    PROVE  Retagged(tags)
  BY DEF Retagged, Wants, SameWanted

\* A photo or a folder is tagged.
LEMMA TaggingIs ==
    ASSUME IndexInv, TagPhoto \/ TagFolder
    PROVE  Retagged(clock') /\ clock' > clock
  <1>1. Sound(db) /\ clock \in Int
    BY DEF IndexInv, Stamps
  <1>2. CASE TagPhoto
    <2>1. Photo(request.album) \in Objects /\ db.row[Photo(request.album)] # NoRow
      BY <1>2, OpenedIs, ObjectsOfAlbum DEF TagPhoto
    <2>2. PICK objects \in SUBSET Objects : objects = {Photo(request.album)}
      BY <2>1
    <2>3. PICK e : e = SetTags(db, objects, clock + 1)
      OBVIOUS
    <2>4. Edit(e)
      BY <1>2, <2>2, <2>3 DEF TagPhoto
    <2>5. NoneMissed(db, e) /\ Wants(db, e, objects, clock + 1)
      BY <1>1, <2>1, <2>2, <2>3, <2>4, EditIs, SetTagsKeeps
    <2>6. db' = e /\ clock' = clock + 1
      BY <2>4 DEF Edit, Write
    <2>7. Retagged(clock + 1)
      BY <2>5, <2>6, RetaggedBy
    <2>8. QED BY <1>1, <2>6, <2>7
  <1>3. CASE TagFolder
    <2>1. request.album \in AlbumNames /\ request.private \in BOOLEAN
      BY <1>3, OpenedIs DEF TagFolder
    <2>2. PICK saved : saved = SaveFolder(db, request.album, request.private, clock + 1)
      OBVIOUS
    <2>3. PICK e : e = IF db.row[Folder(request.album)] # NoRow THEN SetTags(saved, {Folder(request.album)}, clock + 1) ELSE saved
      OBVIOUS
    <2>4. Edit(e)
      BY <1>3, <2>2, <2>3 DEF TagFolder
    <2>5. NoneMissed(db, e) /\ (Wants(db, e, {Folder(request.album)}, clock + 1) \/ SameWanted(db, e))
      BY <1>1, <2>1, <2>2, <2>3, <2>4, EditIs, TaggedFolder
    <2>6. db' = e /\ clock' = clock + 1
      BY <2>4 DEF Edit, Write
    <2>7. Retagged(clock + 1)
      BY <2>5, <2>6, RetaggedBy
    <2>8. QED BY <1>1, <2>6, <2>7
  <1>4. QED BY <1>2, <1>3

\* A tag gets another name, or none.
LEMMA ChangingTagIs ==
    ASSUME IndexInv, NEW tag \in 1 .. MaxEvents, NEW name \in {0, clock + 1}, ChangeTag(tag, name)
    PROVE  Retagged(name) /\ clock' > clock /\ clock' = clock + 1
  <1>1. PICK tagged \in SUBSET Objects : tagged = {o \in Objects : db.row[o] # NoRow /\ db.row[o].found = tag}
    OBVIOUS
  <1>2. PICK e : e = SetTags(db, tagged, name)
    OBVIOUS
  <1>3. Edit(e)
    BY <1>1, <1>2 DEF ChangeTag
  <1>4. name \in Stamps /\ clock \in Int
    BY <1>3, EditIs, ZeroStamp DEF IndexInv, Stamps
  <1>5. Sound(db) /\ \A o \in tagged : db.row[o] # NoRow
    BY <1>1 DEF IndexInv
  <1>6. NoneMissed(db, e) /\ Wants(db, e, tagged, name)
    BY <1>2, <1>4, <1>5, SetTagsKeeps
  <1>7. db' = e /\ clock' = clock + 1
    BY <1>3 DEF Edit, Write
  <1>8. QED BY <1>4, <1>6, <1>7, RetaggedBy

\* Only what has been missing for seven days is purged.
LEMMA PurgingIs ==
    ASSUME IndexInv, NEW o \in Objects, Purge(o)
    PROVE  /\ NoneMissed(db, db') /\ db.entity[o].missing = 2
           /\ \A p \in Objects : p # o => db'.entity[p] = db.entity[p]
  <1>1. PICK objects \in SUBSET Objects : objects = {o}
    OBVIOUS
  <1>2. PICK e : e = Purged(db, objects)
    OBVIOUS
  <1>3. db' = e /\ db.entity[o].missing = 2
    BY <1>1, <1>2 DEF Purge, Commit
  <1>4. NoneMissed(db, e) /\ \A p \in Objects \ objects : e.entity[p] = db.entity[p]
    BY <1>2, PurgedKeeps DEF IndexInv
  <1>5. QED BY <1>1, <1>3, <1>4

\* Of an album, the photo is forgotten with the folder.
LEMMA ForgettingIs ==
    ASSUME IndexInv, NEW o \in Objects, Forget(o)
    PROVE  /\ NoneMissed(db, db')
           /\ \A p \in Objects : ~Forget(p) /\ ~Forget(Folder(AlbumOf(p))) => db'.entity[p] = db.entity[p]
  <1>1. PICK gone \in SUBSET Objects : gone = {x \in Objects : Missing(db, x) /\ (x = o \/ (~IsPhoto(o) /\ x = Photo(AlbumOf(o))))}
    OBVIOUS
  <1>2. PICK e : e = Purged(db, gone)
    OBVIOUS
  <1>3. db' = e
    BY <1>1, <1>2 DEF Forget, Save, Write
  <1>4. NoneMissed(db, e) /\ \A p \in Objects \ gone : e.entity[p] = db.entity[p]
    BY <1>2, PurgedKeeps DEF IndexInv
  <1>5. ASSUME NEW p \in gone PROVE p = o \/ o = Folder(AlbumOf(p))
    <2>1. p = o \/ (~IsPhoto(o) /\ p = Photo(AlbumOf(o)))
      BY <1>1
    <2>2. QED BY <2>1, ObjectIs, ObjectsOfAlbum
  <1>6. \A p \in gone : Forget(p) \/ Forget(Folder(AlbumOf(p)))
    BY <1>5
  <1>7. QED BY <1>3, <1>4, <1>6

\* A relocation takes the tags along, and leaves alone what was edited where it goes.
LEMMA RelocatingIs ==
    ASSUME IndexInv, Relocate, NEW o \in Objects, db.entity[o] # NoEntity, db.entity[o].manual
    PROVE  \E p \in Objects : p[2] = o[2] /\ db'.entity[p] # NoEntity /\ db'.entity[p].wanted = db.entity[o].wanted
  <1>1. PICK e : e = Relocated(db, run.plan.from, run.plan.to, run.plan.private)
    OBVIOUS
  <1>2. \/ OnlyRun
        \/ ~Taken(run.plan.from, run.plan.to) /\ db' = e
    BY <1>1 DEF Relocate, Commit
  <1>3. Planned(run.plan) /\ Sound(db)
    BY DEF Relocate, IndexInv, RunSound
  <1>4. CASE OnlyRun
    BY <1>4 DEF OnlyRun
  <1>5. CASE ~Taken(run.plan.from, run.plan.to) /\ db' = e
    <2>1. GoesAlong(db, e, run.plan.from, run.plan.to)
      BY <1>1, <1>3, RelocatedKeeps DEF Planned
    <2>2. AlbumOf(o) # run.plan.to
      BY <1>5 DEF Taken
    <2>3. CASE AlbumOf(o) = run.plan.from
      <3>1. PICK p : p = Twin(run.plan.to, o)
        OBVIOUS
      <3>2. p \in Objects /\ p[2] = o[2]
        BY <1>3, <3>1, TwinIs DEF Planned, Twin
      <3>3. e.entity[p] # NoEntity /\ e.entity[p].wanted = db.entity[o].wanted
        BY <2>1, <2>3, <3>1 DEF GoesAlong
      <3>4. QED BY <1>5, <3>2, <3>3
    <2>4. CASE AlbumOf(o) # run.plan.from
      BY <1>5, <2>1, <2>2, <2>4 DEF GoesAlong
    <2>5. QED BY <2>3, <2>4
  <1>6. QED BY <1>2, <1>4, <1>5

\* All steps, with those apart that take something away.
LEMMA StepsAre ==
    ASSUME IndexInv, [Next]_vars
    PROVE  \/ Quiet \/ TagPhoto \/ TagFolder \/ Relocate \/ PrunePhotos
           \/ \E a \in AlbumNames : PruneAlbum(a)
           \/ \E o \in Objects : Purge(o) \/ Forget(o)
           \/ \E tag \in 1 .. MaxEvents, name \in {0, clock + 1} : ChangeTag(tag, name)
  <1>1. CASE UNCHANGED vars
    BY <1>1, SameIsQuiet DEF vars
  <1>2. CASE Rebuild
    <2>1. CASE Walked \/ LoadCache \/ IndexRoot \/ Finished \/ \E a \in AlbumNames : Walk(a) \/ ReadAlbum(a) \/ \E b \in AlbumNames : Verify(a, b)
      BY <2>1, ReadingIsQuiet
    <2>2. CASE PublishFingerprints \/ FinishScan
      BY <2>2, PublishingIsQuiet
    <2>3. CASE SignRoot \/ WritePhotos \/ WriteFolder \/ SignAlbum \/ \E o \in Objects : Restore(o)
      BY <2>3, WritingIsQuiet
    <2>4. CASE Relocate \/ PrunePhotos \/ (\E a \in AlbumNames : PruneAlbum(a)) \/ \E o \in Objects : Purge(o)
      BY <2>4
    <2>5. QED BY <1>2, <2>1, <2>2, <2>3, <2>4 DEF Rebuild
  <1>3. CASE World
    BY <1>3, WorldIsQuiet
  <1>4. CASE Start \/ Leave \/ \E a \in AlbumNames : WalkFails(a) \/ ReadFails(a) \/ OpenPhoto(a) \/ OpenFolder(a)
    BY <1>4, ReadingIsQuiet
  <1>5. CASE SaveOpened \/ SaveOpenedFolder \/ SevenDays \/ Restart \/ \E a \in AlbumNames : HideFaces(a)
    BY <1>5, RequestIsQuiet
  <1>6. QED BY <1>1, <1>2, <1>3, <1>4, <1>5 DEF Next

\* What has been on the drive all the time a rebuild runs is not dropped by it.
LEMMA PresentIsKept ==
    ASSUME IndexInv, [Next]_vars, run.at # "move", NEW o \in steady, db.entity[o] # NoEntity /\ ~Missing(db, o)
    PROVE  ~Missing(db', o)
  <1>1. o \in Objects
    BY DEF IndexInv
  <1>2. Quiet => ~Missing(db', o)
    BY <1>1 DEF Quiet, NoneMissed
  <1>3. TagPhoto \/ TagFolder => ~Missing(db', o)
    BY <1>1, TaggingIs DEF Retagged, NoneMissed
  <1>4. ASSUME NEW tag \in 1 .. MaxEvents, NEW name \in {0, clock + 1}, ChangeTag(tag, name) PROVE ~Missing(db', o)
    BY <1>1, <1>4, ChangingTagIs DEF Retagged, NoneMissed
  <1>5. ASSUME NEW p \in Objects, Purge(p) \/ Forget(p) PROVE ~Missing(db', o)
    BY <1>1, <1>5, PurgingIs, ForgettingIs DEF NoneMissed
  <1>6. PrunePhotos \/ (\E a \in AlbumNames : PruneAlbum(a)) => ~Missing(db', o)
    BY PruningIs, PruningPhotosIs
  <1>7. ~Relocate
    BY DEF Relocate
  <1>8. QED BY <1>2, <1>3, <1>4, <1>5, <1>6, <1>7, StepsAre

\* No step takes for missing what has been on the drive since the rebuild began: not an empty
\* root, not a folder that cannot be read, not a request in between (indexDirectoryEntries).
THEOREM KnownHolds == Spec => PresentStaysKnown
  <1>1. IndexInv /\ [Next]_vars =>
          [run.at # "move" => \A o \in steady : db.entity[o] # NoEntity /\ ~Missing(db, o) => ~Missing(db', o)]_vars
    BY PresentIsKept
  <1>2. QED BY <1>1, IndexInvHolds, PTL DEF Spec, PresentStaysKnown

\* Where the tags of an identity are after a step.
StillWanted(o) ==
    \/ db.entity[o].missing = 2 \/ Forget(o) \/ Forget(Folder(AlbumOf(o)))
    \/ db'.entity[o] # NoEntity /\ db'.entity[o].wanted = clock' /\ clock' > clock
    \/ db'.entity[o] # NoEntity /\ db'.entity[o].wanted = 0 /\ clock' > clock
    \/ \E p \in Objects : p[2] = o[2] /\ db'.entity[p] # NoEntity /\ db'.entity[p].wanted = db.entity[o].wanted

\* The tags that a user set are wanted after a step, unless they are set anew, or what they
\* are on has been missing for seven days or is forgotten.
LEMMA EditIsKept ==
    ASSUME IndexInv, [Next]_vars, NEW o \in Objects, db.entity[o] # NoEntity, db.entity[o].manual
    PROVE  StillWanted(o)
  <1>1. SameWanted(db, db') => StillWanted(o)
    BY DEF SameWanted, StillWanted
  <1>2. TagPhoto \/ TagFolder => StillWanted(o)
    BY TaggingIs DEF Retagged, StillWanted
  <1>3. ASSUME NEW tag \in 1 .. MaxEvents, NEW name \in {0, clock + 1}, ChangeTag(tag, name) PROVE StillWanted(o)
    BY <1>3, ChangingTagIs DEF Retagged, StillWanted
  <1>4. ASSUME NEW p \in Objects, Purge(p) PROVE StillWanted(o)
    <2>1. db.entity[p].missing = 2 /\ (o # p => db'.entity[o] = db.entity[o])
      BY <1>4, PurgingIs
    <2>2. QED BY <2>1 DEF StillWanted
  <1>5. ASSUME NEW p \in Objects, Forget(p) PROVE StillWanted(o)
    <2>1. Forget(o) \/ Forget(Folder(AlbumOf(o))) \/ db'.entity[o] = db.entity[o]
      BY <1>5, ForgettingIs
    <2>2. QED BY <2>1 DEF StillWanted
  <1>6. Relocate => StillWanted(o)
    BY RelocatingIs DEF StillWanted
  <1>7. QED BY <1>1, <1>2, <1>3, <1>4, <1>5, <1>6, StepsAre, PruningIs, PruningPhotosIs DEF Quiet

\* Tags that a user edited outlive renames, losses, returns and rebuilds, until they are edited
\* again or what they are on is given up (relocatePhotoFolder, retainSelectionTx, restoreEntityTx).
THEOREM EditsHold == Spec => EditsStay
  <1>1. IndexInv /\ [Next]_vars =>
          [\A o \in Objects : LET entity == db.entity[o] IN entity # NoEntity /\ entity.manual /\ entity.wanted > 0 =>
                \/ entity.missing = 2 \/ Forget(o) \/ Forget(Folder(AlbumOf(o)))
                \/ db'.entity[o] # NoEntity /\ db'.entity[o].wanted = clock' /\ clock' > clock
                \/ db'.entity[o] # NoEntity /\ db'.entity[o].wanted = 0 /\ clock' > clock
                \/ \E p \in Objects : p[2] = o[2] /\ db'.entity[p] # NoEntity /\ db'.entity[p].wanted = entity.wanted]_vars
    BY EditIsKept DEF StillWanted
  <1>2. QED BY <1>1, IndexInvHolds, PTL DEF Spec, EditsStay
=============================================================================
