---------------------------- MODULE FaceGroupsProofs ----------------------------
(***************************************************************************)
(* Theorems about FaceGroups, for any number of photos, faces, groups and  *)
(* events: GroupsInv is true whatever is analysed, decided, hidden and     *)
(* brought back, and what somebody decided stays.  The inductive           *)
(* invariant, IInv, is GroupsInv in stronger form: a name a photo hides is *)
(* of a person without one, or with one by hand, who keeps its source; a   *)
(* rejected pair is of two people; and while affected people are read      *)
(* back, the copy of the references is wrong about them alone.  Most       *)
(* actions are one transaction: Ready says what it has to do so that the   *)
(* triggers and the refresh of references do the rest.                     *)
(***************************************************************************)
EXTENDS FaceGroups, FiniteSetTheorems, TLAPS

-----------------------------------------------------------------------------
(* The inductive invariant                                                  *)

MaybeFace == FaceRows \cup {NoFace}
Tables == [face : [Faces -> MaybeFace], kept : [Faces -> MaybeFace], person : [People -> PersonRows \cup {NoPerson}],
           hidden : [People -> Photos \cup {Nowhere}], excl : SUBSET (People \X Photos), refs : Graphs,
           open : SUBSET (People \X People), rejected : SUBSET (People \X People), rebuild : BOOLEAN, fresh : Nat]
Media == [Photos -> {"public", "gone"} \cup Private \cup Missing]
Works == {Idle} \cup [kind : {"commit"}, photo : Photos] \cup [kind : {"batch"}, face : Faces]
         \cup [kind : {"sync"}, people : SUBSET People]

USE DEF Private, Missing, Veiled

\* Rows of people, faces and hidden names hang together in tables d, when the
\* photos are m.  The last line is what GroupsInv lacks: the name a photo hides
\* is of a person who has no name, or one from elsewhere.
Owned(d) == \A f \in Faces : /\ d.face[f] # NoFace => Exists(d, d.face[f].who)
                             /\ d.kept[f] # NoFace => Exists(d, d.kept[f].who)
Placed(d, m) == \A f \in Faces : /\ d.face[f] # NoFace => m[PhotoOf[f]] = "public" /\ d.kept[f] = NoFace
                                 /\ d.kept[f] # NoFace => m[PhotoOf[f]] \in Private \cup Missing
Sourced(d, m) == \A p \in People : Named(d, p) /\ ~d.person[p].manual /\ d.person[p].from # Nowhere =>
                                       m[d.person[p].from] \notin Veiled \cup {"gone"}
Remembered(d) == \A p \in People : d.hidden[p] # Nowhere =>
                    /\ Exists(d, p)
                    /\ ~Named(d, p) /\ ~d.person[p].manual => d.person[p].from \in {Nowhere, d.hidden[p]}
Aged(d) == \A p \in People : Exists(d, p) => p < d.fresh
Sound(d, m) == d \in Tables /\ Owned(d) /\ Placed(d, m) /\ Sourced(d, m) /\ Remembered(d) /\ Aged(d)

\* References, pairs and folders fit the rows; what a client saw is what is there.
RefsFit(d) == \A f \in Faces : /\ d.refs[f] # NoOne => Usable(d, f) /\ d.refs[f] = d.face[f].who
                               /\ Usable(d, f) => d.rebuild \/ d.refs[f] # NoOne
MeetIn(d, p, q) == Photographed(d, p) \cap Photographed(d, q) # {}
PairsFit(d) == /\ \A q \in d.open \cup d.rejected : q[1] # q[2] /\ Exists(d, q[1]) /\ Exists(d, q[2])
               /\ \A q \in d.open : ~MeetIn(d, q[1], q[2])
FoldersFit(d) == /\ \A q \in d.excl : Exists(d, q[1])
                 /\ \A f \in Faces : d.face[f] # NoFace /\ ~d.face[f].ignored => <<d.face[f].who, PhotoOf[f]>> \notin d.excl
Fits(d) == RefsFit(d) /\ PairsFit(d) /\ FoldersFit(d)
SeenFits(s, d) == s \in [People -> Views \cup {NoView}] /\ \A p \in People : s[p] # NoView => Exists(d, p) /\ s[p] = ViewOf(d, p)
\* The copy of the references: true, or about to be brought up to date.
GraphFits(g, b, r) ==
    /\ g \in Graphs \cup {NoGraph} /\ b \in Works
    /\ g # NoGraph /\ b.kind # "sync" => g = r
    /\ g # NoGraph /\ b.kind = "sync" => \A f \in Faces : r[f] \in b.people \/ r[f] = (IF g[f] \in b.people THEN NoOne ELSE g[f])
IInv == /\ media \in Media /\ Sound(db, media) /\ Fits(db) /\ SeenFits(seen, db) /\ GraphFits(graph, busy, db.refs)

-----------------------------------------------------------------------------
(* What the invariant says, and what it is for                              *)

LEMMA Constants ==
  /\ Faces \subseteq People /\ IsFiniteSet(Faces) /\ Cardinality(Faces) \in Nat /\ PhotoOf \in [Faces -> Photos]
  /\ NoFace \notin FaceRows /\ NoPerson \notin PersonRows /\ NoOne \notin People /\ NoName # Name
  /\ Nowhere \notin Photos /\ NoGraph \notin Graphs /\ NoView \notin Views /\ MaxPeople \in Nat
<1>1. Cardinality(Faces) \in Nat
  BY GroupsAssumption, FS_CardinalityType
<1>2. Faces \subseteq People
  <2>1. Faces = 1 .. Cardinality(Faces) /\ Cardinality(Faces) <= MaxPeople /\ MaxPeople \in Nat
    BY GroupsAssumption
  <2>. QED BY <1>1, <2>1 DEF People
<1>. QED BY <1>1, <1>2, GroupsAssumption

LEMMA FieldsAre ==
  ASSUME NEW d \in Tables
  PROVE  /\ d.face \in [Faces -> MaybeFace] /\ d.kept \in [Faces -> MaybeFace]
         /\ d.person \in [People -> PersonRows \cup {NoPerson}] /\ d.hidden \in [People -> Photos \cup {Nowhere}]
         /\ d.excl \subseteq People \X Photos /\ d.refs \in Graphs
         /\ d.open \subseteq People \X People /\ d.rejected \subseteq People \X People /\ d.rebuild \in BOOLEAN /\ d.fresh \in Nat
  BY DEF Tables

\* What the inductive invariant is for.
LEMMA InvariantShows == IInv => GroupsInv
<1> SUFFICES ASSUME IInv PROVE GroupsInv
  OBVIOUS
<1> USE DEF IInv
<1>1. OwnersExist
  BY DEF Sound, Owned, OwnersExist
<1>2. PrivateIsHidden
  BY DEF Sound, Placed, Sourced, PrivateIsHidden
<1>3. ReferencesAreOfUse
  BY DEF Fits, RefsFit, ReferencesAreOfUse
<1>4. PairsExist
  BY DEF Fits, PairsFit, PairsExist, Meet, MeetIn, Sound, Remembered
<1>5. GraphIsTrue
  BY DEF GraphFits, GraphIsTrue
<1>6. ExclusionHolds
  BY DEF Fits, FoldersFit, ExclusionHolds, Live
<1>7. SeenIsTrue
  BY DEF SeenFits, SeenIsTrue
<1> QED BY <1>1, <1>2, <1>3, <1>4, <1>5, <1>6, <1>7 DEF GroupsInv

-----------------------------------------------------------------------------
(* What a transaction has to do for the triggers to do the rest             *)

Tracked(e, people) ==
    /\ db.rebuild => e.rebuild
    /\ \A f \in Faces :
         \/ e.face[f] = NoFace \/ ReviewTurned(db, e, f)
         \/ db.face[f] # NoFace /\ e.face[f] # NoFace /\ Usable(e, f) = Usable(db, f) /\ e.face[f].who = db.face[f].who
         \/ db.face[f] # NoFace /\ db.face[f].who \in people /\ (Usable(e, f) => e.face[f].who \in people)
         \/ db.face[f] = NoFace /\ (Usable(e, f) => e.rebuild \/ e.face[f].who \in people)
\* Nobody is left in a folder that they are newly kept out of.
Emptied(e) ==
    \A q \in e.excl \ db.excl : \A f \in Faces :
        db.face[f] # NoFace /\ db.face[f].who = q[1] /\ PhotoOf[f] = q[2] =>
            ~(e.face[f] # NoFace /\ e.face[f].who = q[1] /\ ~e.face[f].ignored)
\* Nobody is kept apart from themselves.
Distinct(e) == \A q \in e.rejected : q[1] # q[2]
Ready(e, m, people) == /\ Sound(e, m) /\ Tracked(e, people) /\ Emptied(e) /\ Distinct(e)
                       /\ e.refs = db.refs /\ e.open \subseteq db.open

\* What the triggers make of the tables.
LEMMA TriggersDo ==
  ASSUME NEW e \in Tables, NEW revised, NEW d, d = Triggered(e, revised)
  PROVE  /\ d \in Tables
         /\ d.face = e.face /\ d.kept = e.kept /\ d.person = e.person /\ d.hidden = e.hidden /\ d.fresh = e.fresh
         /\ \A f \in Faces : d.refs[f] = IF e.face[f] = NoFace \/ ReviewTurned(db, e, f) THEN NoOne ELSE e.refs[f]
         /\ e.rebuild => d.rebuild
         /\ \A f \in Faces : ReviewTurned(db, e, f) /\ ~e.face[f].review => d.rebuild
         /\ d.excl = {q \in e.excl : Exists(e, q[1])}
         /\ d.open = {q \in e.open : ~(q[1] \in revised \/ q[2] \in revised) /\ Exists(e, q[1]) /\ Exists(e, q[2])}
         /\ d.rejected = {q \in e.rejected : Exists(e, q[1]) /\ Exists(e, q[2])}
  BY DEF Triggered, Tables, Gone, Graphs

LEMMA RefreshDoes ==
  ASSUME NEW e \in Tables, NEW people \in SUBSET People, NEW d, d = Refresh(e, people)
  PROVE  /\ d \in Tables
         /\ d.face = e.face /\ d.kept = e.kept /\ d.person = e.person /\ d.hidden = e.hidden /\ d.fresh = e.fresh
         /\ d.excl = e.excl /\ d.open = e.open /\ d.rejected = e.rejected /\ d.rebuild = e.rebuild
         /\ \A f \in Faces : d.refs[f] = IF Usable(e, f) /\ e.face[f].who \in people THEN e.face[f].who
                                           ELSE IF e.refs[f] \in people THEN NoOne ELSE e.refs[f]
  BY DEF Refresh, Tables, Graphs, Usable

LEMMA WriteDoes ==
  ASSUME NEW e \in Tables, NEW people \in SUBSET People, Write(e, people)
  PROVE  /\ Guarded(db, e)
         /\ db' \in Tables
         /\ db'.face = e.face /\ db'.kept = e.kept /\ db'.person = e.person /\ db'.hidden = e.hidden /\ db'.fresh = e.fresh
         /\ \A f \in Faces : LET old == IF e.face[f] = NoFace \/ ReviewTurned(db, e, f) THEN NoOne ELSE e.refs[f] IN
                db'.refs[f] = IF Usable(e, f) /\ e.face[f].who \in people THEN e.face[f].who
                              ELSE IF old \in people THEN NoOne ELSE old
         /\ e.rebuild => db'.rebuild
         /\ \A f \in Faces : ReviewTurned(db, e, f) /\ ~e.face[f].review => db'.rebuild
         /\ db'.excl = {q \in e.excl : Exists(e, q[1])}
         /\ db'.open = {q \in e.open : ~(q[1] \in Revised(db, e) \/ q[2] \in Revised(db, e)) /\ Exists(e, q[1]) /\ Exists(e, q[2])}
         /\ db'.rejected = {q \in e.rejected : Exists(e, q[1]) /\ Exists(e, q[2])}
         /\ seen' = [p \in People |-> IF p \in Revised(db, e) THEN NoView ELSE seen[p]]
<1>1. /\ Guarded(db, e)
      /\ db' = Refresh(Triggered(e, Revised(db, e)), people)
      /\ seen' = [p \in People |-> IF p \in Revised(db, e) THEN NoView ELSE seen[p]]
  BY DEF Write
<1> DEFINE t == Triggered(e, Revised(db, e))
<1>2. /\ t \in Tables /\ t.face = e.face /\ t.kept = e.kept /\ t.person = e.person /\ t.hidden = e.hidden /\ t.fresh = e.fresh
      /\ \A f \in Faces : t.refs[f] = IF e.face[f] = NoFace \/ ReviewTurned(db, e, f) THEN NoOne ELSE e.refs[f]
      /\ e.rebuild => t.rebuild
      /\ \A f \in Faces : ReviewTurned(db, e, f) /\ ~e.face[f].review => t.rebuild
      /\ t.excl = {q \in e.excl : Exists(e, q[1])}
      /\ t.open = {q \in e.open : ~(q[1] \in Revised(db, e) \/ q[2] \in Revised(db, e)) /\ Exists(e, q[1]) /\ Exists(e, q[2])}
      /\ t.rejected = {q \in e.rejected : Exists(e, q[1]) /\ Exists(e, q[2])}
  BY TriggersDo
<1> HIDE DEF t
<1>3. \A f \in Faces : Usable(t, f) = Usable(e, f)
  BY <1>2 DEF Usable
<1>4. /\ db' \in Tables /\ db'.face = t.face /\ db'.kept = t.kept /\ db'.person = t.person /\ db'.hidden = t.hidden /\ db'.fresh = t.fresh
      /\ db'.excl = t.excl /\ db'.open = t.open /\ db'.rejected = t.rejected /\ db'.rebuild = t.rebuild
      /\ \A f \in Faces : db'.refs[f] = IF Usable(t, f) /\ t.face[f].who \in people THEN t.face[f].who
                                           ELSE IF t.refs[f] \in people THEN NoOne ELSE t.refs[f]
  BY <1>1, <1>2, RefreshDoes DEF t
<1>5. \A f \in Faces : LET old == IF e.face[f] = NoFace \/ ReviewTurned(db, e, f) THEN NoOne ELSE e.refs[f] IN
                db'.refs[f] = IF Usable(e, f) /\ e.face[f].who \in people THEN e.face[f].who
                              ELSE IF old \in people THEN NoOne ELSE old
  BY <1>2, <1>3, <1>4
<1> QED BY <1>1, <1>2, <1>4, <1>5

\* A row says whether a face is of use, whose it is and whether it is in sight.
LEMMA SoundCopy ==
  ASSUME NEW d, NEW e \in Tables, NEW m, Sound(d, m),
         e.face = d.face, e.kept = d.kept, e.person = d.person, e.hidden = d.hidden, e.fresh = d.fresh
  PROVE  Sound(e, m)
  BY DEF Sound, Owned, Placed, Sourced, Remembered, Aged, Exists, Named

\* Of a group whose revision stays, everything a client sees stays.
LEMMA UnrevisedStays ==
  ASSUME NEW e \in Tables, db \in Tables, NEW p \in People, p \notin Revised(db, e)
  PROVE  /\ e.person[p] = db.person[p] /\ Active(e, p) = Active(db, p) /\ Photographed(e, p) = Photographed(db, p)
         /\ \A f \in Active(e, p) : e.face[f].favorite = db.face[f].favorite
         /\ \A x \in Photos : <<p, x>> \in e.excl <=> <<p, x>> \in db.excl
<1>1. /\ e.person[p] = db.person[p] /\ \A x \in Photos : <<p, x>> \in db.excl <=> <<p, x>> \in e.excl
      /\ \A f \in Faces : Shown(db, f) # Shown(e, f) => p \notin OwnersOf(db, f) \cup OwnersOf(e, f)
  BY DEF Revised
<1>2. ASSUME NEW f \in Faces, Shown(db, f) = Shown(e, f)
      PROVE  /\ db.face[f] = NoFace <=> e.face[f] = NoFace
             /\ db.face[f] # NoFace => /\ db.face[f].who = e.face[f].who /\ db.face[f].ignored = e.face[f].ignored
                                       /\ db.face[f].favorite = e.face[f].favorite
  <2>1. db.face[f] \in MaybeFace /\ e.face[f] \in MaybeFace
    BY FieldsAre
  <2>2. ASSUME NEW r \in FaceRows PROVE [r EXCEPT !.kind = "found"] \in FaceRows
    BY DEF FaceRows
  <2>3. db.face[f] = NoFace <=> e.face[f] = NoFace
    BY <1>2, <2>1, <2>2, Constants DEF Shown, MaybeFace
  <2>4. ASSUME db.face[f] # NoFace
        PROVE  /\ db.face[f].who = e.face[f].who /\ db.face[f].ignored = e.face[f].ignored
               /\ db.face[f].favorite = e.face[f].favorite
    <3>1. db.face[f] \in FaceRows /\ e.face[f] \in FaceRows
      BY <2>1, <2>3, <2>4 DEF MaybeFace
    <3>2. [db.face[f] EXCEPT !.kind = "found"] = [e.face[f] EXCEPT !.kind = "found"]
      BY <1>2, <2>3, <2>4 DEF Shown
    <3> QED BY <3>1, <3>2 DEF FaceRows
  <2> QED BY <2>3, <2>4
<1>3. ASSUME NEW f \in Faces, f \in Active(db, p) \/ f \in Active(e, p) PROVE Shown(db, f) = Shown(e, f)
  BY <1>1, <1>3 DEF Active, Of, Live, OwnersOf
<1>4. Active(e, p) = Active(db, p)
  BY <1>2, <1>3 DEF Active, Of, Live
<1> QED BY <1>1, <1>2, <1>3, <1>4 DEF Photographed, Active, Of, Live

LEMMA ViewIs ==
  ASSUME NEW d \in Tables, NEW p \in People, Exists(d, p)
  PROVE  ViewOf(d, p) \in Views
  BY FieldsAre DEF ViewOf, Views, PersonRows, Active, Of, Live, Exists

LEMMA AfterWrite ==
  ASSUME IInv, NEW e, NEW m, NEW people \in SUBSET People, Ready(e, m, people), Write(e, people)
  PROVE  Sound(db', m) /\ Fits(db') /\ SeenFits(seen', db')
<1>0. e \in Tables /\ db \in Tables
  BY DEF Ready, Sound, IInv
<1>1. /\ Guarded(db, e)
      /\ db' \in Tables
      /\ db'.face = e.face /\ db'.kept = e.kept /\ db'.person = e.person /\ db'.hidden = e.hidden /\ db'.fresh = e.fresh
      /\ \A f \in Faces : LET old == IF e.face[f] = NoFace \/ ReviewTurned(db, e, f) THEN NoOne ELSE e.refs[f] IN
                db'.refs[f] = IF Usable(e, f) /\ e.face[f].who \in people THEN e.face[f].who
                              ELSE IF old \in people THEN NoOne ELSE old
      /\ e.rebuild => db'.rebuild
      /\ \A f \in Faces : ReviewTurned(db, e, f) /\ ~e.face[f].review => db'.rebuild
      /\ db'.excl = {q \in e.excl : Exists(e, q[1])}
      /\ db'.open = {q \in e.open : ~(q[1] \in Revised(db, e) \/ q[2] \in Revised(db, e)) /\ Exists(e, q[1]) /\ Exists(e, q[2])}
      /\ db'.rejected = {q \in e.rejected : Exists(e, q[1]) /\ Exists(e, q[2])}
      /\ seen' = [p \in People |-> IF p \in Revised(db, e) THEN NoView ELSE seen[p]]
  BY <1>0, WriteDoes
<1>2. Sound(db', m)
  BY <1>1, SoundCopy DEF Ready
<1>3. \A f \in Faces : Usable(db', f) = Usable(e, f)
  BY <1>1 DEF Usable
<1>4. \A p \in People : /\ Exists(db', p) = Exists(e, p) /\ Active(db', p) = Active(e, p) /\ Photographed(db', p) = Photographed(e, p)
  BY <1>1 DEF Exists, Active, Of, Live, Photographed
<1>5. RefsFit(db')
  <2>1. /\ \A f \in Faces : db.refs[f] # NoOne => Usable(db, f) /\ db.refs[f] = db.face[f].who
        /\ \A f \in Faces : Usable(db, f) => db.rebuild \/ db.refs[f] # NoOne
        /\ e.refs = db.refs
    BY DEF IInv, Fits, RefsFit, Ready
  <2>2. ASSUME NEW f \in Faces PROVE /\ db'.refs[f] # NoOne => Usable(e, f) /\ db'.refs[f] = e.face[f].who
                                     /\ Usable(e, f) => db'.rebuild \/ db'.refs[f] # NoOne
    <3>0. /\ db.rebuild => e.rebuild
          /\ \/ e.face[f] = NoFace \/ ReviewTurned(db, e, f)
             \/ db.face[f] # NoFace /\ e.face[f] # NoFace /\ Usable(e, f) = Usable(db, f) /\ e.face[f].who = db.face[f].who
             \/ db.face[f] # NoFace /\ db.face[f].who \in people /\ (Usable(e, f) => e.face[f].who \in people)
             \/ db.face[f] = NoFace /\ (Usable(e, f) => e.rebuild \/ e.face[f].who \in people)
      BY DEF Ready, Tracked
    <3>1. Usable(e, f) => e.face[f].who \in People
      BY <1>0, FieldsAre DEF Usable, MaybeFace, FaceRows
    <3>2. CASE e.face[f] = NoFace \/ ReviewTurned(db, e, f)
      BY <1>1, <3>1, <3>2, Constants DEF Usable
    <3>3. CASE db.face[f] # NoFace /\ e.face[f] # NoFace /\ Usable(e, f) = Usable(db, f) /\ e.face[f].who = db.face[f].who
      BY <1>1, <2>1, <3>0, <3>1, <3>2, <3>3, Constants
    <3>4. CASE db.face[f] # NoFace /\ db.face[f].who \in people /\ (Usable(e, f) => e.face[f].who \in people)
      BY <1>1, <2>1, <3>0, <3>1, <3>2, <3>4, Constants
    <3>5. CASE db.face[f] = NoFace /\ (Usable(e, f) => e.rebuild \/ e.face[f].who \in people)
      <4>1. db.refs[f] = NoOne
        BY <2>1, <3>5 DEF Usable
      <4> QED BY <1>1, <2>1, <3>0, <3>1, <3>2, <3>5, <4>1, Constants
    <3> QED BY <3>0, <3>2, <3>3, <3>4, <3>5
  <2> QED BY <1>1, <1>3, <2>2 DEF RefsFit
<1>6. PairsFit(db')
  <2>1. e.open \subseteq db.open /\ \A q \in db.open : ~MeetIn(db, q[1], q[2])
    BY DEF IInv, Fits, PairsFit, Ready
  <2>2. e.open \subseteq People \X People /\ e.rejected \subseteq People \X People
    BY <1>0, FieldsAre
  <2>3. ASSUME NEW q \in db'.open PROVE ~MeetIn(db', q[1], q[2])
    <3>1. /\ q \in db.open /\ q[1] \in People /\ q[2] \in People /\ q[1] \notin Revised(db, e) /\ q[2] \notin Revised(db, e)
      BY <1>1, <2>1, <2>2
    <3>2. Photographed(e, q[1]) = Photographed(db, q[1]) /\ Photographed(e, q[2]) = Photographed(db, q[2])
      BY <3>1, <1>0, UnrevisedStays
    <3> QED BY <1>4, <2>1, <3>1, <3>2 DEF MeetIn
  <2>4. \A q \in db'.open \cup db'.rejected : q[1] # q[2] /\ Exists(db', q[1]) /\ Exists(db', q[2])
    <3>1. \A q \in db.open : q[1] # q[2]
      BY DEF IInv, Fits, PairsFit
    <3>2. \A q \in e.rejected : q[1] # q[2]
      BY DEF Ready, Distinct
    <3> QED BY <1>1, <1>4, <2>1, <2>2, <3>1, <3>2
  <2> QED BY <2>3, <2>4 DEF PairsFit
<1>7. FoldersFit(db')
  <2>1. \A q \in db'.excl : Exists(db', q[1])
    BY <1>0, <1>1, <1>4, FieldsAre
  <2>2. ASSUME NEW f \in Faces, e.face[f] # NoFace, ~e.face[f].ignored, <<e.face[f].who, PhotoOf[f]>> \in e.excl PROVE FALSE
    <3>1. db.face[f] # NoFace /\ db.face[f].who = e.face[f].who /\ (db.face[f].ignored => e.face[f].ignored)
      BY <1>1, <2>2 DEF Guarded, Live
    <3>2. <<e.face[f].who, PhotoOf[f]>> \notin db.excl
      BY <2>2, <3>1 DEF IInv, Fits, FoldersFit
    <3>3. <<e.face[f].who, PhotoOf[f]>> \in e.excl \ db.excl
      BY <2>2, <3>2
    <3>4. \A q \in e.excl \ db.excl : \A g \in Faces :
              db.face[g] # NoFace /\ db.face[g].who = q[1] /\ PhotoOf[g] = q[2] =>
                 ~(e.face[g] # NoFace /\ e.face[g].who = q[1] /\ ~e.face[g].ignored)
      BY DEF Ready, Emptied
    <3> QED BY <2>2, <3>1, <3>3, <3>4
  <2> QED BY <1>1, <2>1, <2>2 DEF FoldersFit
<1>8. SeenFits(seen', db')
  <2>1. /\ seen \in [People -> Views \cup {NoView}] /\ \A p \in People : seen[p] # NoView => Exists(db, p) /\ seen[p] = ViewOf(db, p)
    BY DEF IInv, SeenFits
  <2>2. seen' \in [People -> Views \cup {NoView}]
    BY <1>1, <2>1
  <2>3. ASSUME NEW p \in People, seen'[p] # NoView PROVE Exists(db', p) /\ seen'[p] = ViewOf(db', p)
    <3>1. p \notin Revised(db, e) /\ seen'[p] = seen[p]
      BY <1>1, <2>3
    <3>2. Exists(db, p) /\ seen[p] = ViewOf(db, p)
      BY <2>1, <2>3, <3>1
    <3>3. /\ e.person[p] = db.person[p] /\ Active(e, p) = Active(db, p)
          /\ \A f \in Active(e, p) : e.face[f].favorite = db.face[f].favorite
          /\ \A x \in Photos : <<p, x>> \in e.excl <=> <<p, x>> \in db.excl
      BY <1>0, <3>1, UnrevisedStays
    <3>4. \A x \in Photos : <<p, x>> \in db'.excl <=> <<p, x>> \in db.excl
      BY <1>1, <3>2, <3>3 DEF Exists
    <3>5. {f \in Active(db', p) : db'.face[f].favorite} = {f \in Active(db, p) : db.face[f].favorite}
      BY <1>1, <1>4, <3>3
    <3>6. Exists(db', p) /\ db'.person[p].name = db.person[p].name
      BY <1>1, <3>2, <3>3 DEF Exists
    <3> QED BY <1>4, <3>1, <3>2, <3>3, <3>4, <3>5, <3>6 DEF ViewOf
  <2> QED BY <2>2, <2>3 DEF SeenFits
<1> QED BY <1>2, <1>5, <1>6, <1>7, <1>8 DEF Fits

LEMMA AfterAside ==
  ASSUME IInv, media' \in Media, NEW e, Ready(e, media', {}), Aside(e)
  PROVE  IInv'
<1>1. Write(e, {}) /\ graph' = (IF Bumped(e) THEN NoGraph ELSE graph) /\ busy' = busy
  BY DEF Aside
<1>2. Sound(db', media') /\ Fits(db') /\ SeenFits(seen', db')
  BY <1>1, AfterWrite
<1>3. GraphFits(graph', busy', db'.refs)
  <2>1. GraphFits(graph, busy, db.refs)
    BY DEF IInv
  <2>2. CASE Bumped(e)
    BY <1>1, <2>1, <2>2 DEF GraphFits
  <2>3. CASE ~Bumped(e)
    <3>1. ASSUME NEW f \in Faces PROVE db'.refs[f] = db.refs[f]
      <4>0. e \in Tables /\ e.refs = db.refs /\ db \in Tables
        BY DEF Ready, Sound, IInv
      <4>1. LET old == IF e.face[f] = NoFace \/ ReviewTurned(db, e, f) THEN NoOne ELSE e.refs[f] IN db'.refs[f] = old
        BY <1>1, <4>0, WriteDoes
      <4>2. db.face[f] # NoFace => e.face[f] # NoFace /\ ~ReviewTurned(db, e, f)
        BY <2>3 DEF Bumped, Live
      <4>3. db.face[f] = NoFace => db.refs[f] = NoOne
        BY DEF IInv, Fits, RefsFit, Usable
      <4>4. db.face[f] = NoFace => ~ReviewTurned(db, e, f)
        BY DEF ReviewTurned
      <4> QED BY <4>0, <4>1, <4>2, <4>3, <4>4
    <3>2. db'.refs = db.refs
      <4>1. db'.refs \in Graphs /\ db.refs \in Graphs
        BY <1>2, FieldsAre DEF Sound, IInv
      <4> QED BY <3>1, <4>1 DEF Graphs
    <3> QED BY <1>1, <2>1, <2>3, <3>2
  <2> QED BY <2>2, <2>3
<1> QED BY <1>2, <1>3 DEF IInv

LEMMA AfterDrops ==
  ASSUME IInv, media' \in Media, NEW e, NEW people \in SUBSET People, Ready(e, media', people), Drops(e, people)
  PROVE  IInv'
<1>1. Write(e, people) /\ graph' = NoGraph /\ busy' = Idle
  BY DEF Drops
<1>2. Sound(db', media') /\ Fits(db') /\ SeenFits(seen', db')
  BY <1>1, AfterWrite
<1>3. GraphFits(graph', busy', db'.refs)
  BY <1>1 DEF GraphFits, Works
<1> QED BY <1>2, <1>3 DEF IInv

\* What the transaction took out of the references is of people who are refreshed.
Dropped(e, people) ==
    \A f \in Faces : e.face[f] = NoFace \/ ReviewTurned(db, e, f) => db.refs[f] \in people \cup {NoOne}

LEMMA AfterSyncs ==
  ASSUME IInv, media' \in Media, busy.kind # "sync", NEW e, NEW people \in SUBSET People,
         Ready(e, media', people), Dropped(e, people), Syncs(e, people)
  PROVE  IInv'
<1>1. Write(e, people) /\ graph' = graph /\ busy' = IF graph = NoGraph THEN Idle ELSE [kind |-> "sync", people |-> people]
  BY DEF Syncs
<1>2. Sound(db', media') /\ Fits(db') /\ SeenFits(seen', db')
  BY <1>1, AfterWrite
<1>3. GraphFits(graph, busy, db.refs)
  BY DEF IInv
<1>4. GraphFits(graph', busy', db'.refs)
  <2>1. CASE graph = NoGraph
    BY <1>1, <2>1 DEF GraphFits, Works
  <2>2. CASE graph # NoGraph
    <3>1. graph = db.refs /\ graph \in Graphs
      BY <1>3, <2>2 DEF GraphFits
    <3>2. busy' = [kind |-> "sync", people |-> people] /\ busy' \in Works /\ busy'.kind = "sync" /\ busy'.people = people
      BY <1>1, <2>2 DEF Works
    <3>3. e \in Tables /\ e.refs = db.refs
      BY DEF Ready, Sound
    <3>4. ASSUME NEW f \in Faces
          PROVE  db'.refs[f] \in people \/ db'.refs[f] = (IF graph[f] \in people THEN NoOne ELSE graph[f])
      <4>1. LET old == IF e.face[f] = NoFace \/ ReviewTurned(db, e, f) THEN NoOne ELSE e.refs[f] IN
                db'.refs[f] = IF Usable(e, f) /\ e.face[f].who \in people THEN e.face[f].who
                              ELSE IF old \in people THEN NoOne ELSE old
        BY <1>1, <3>3, WriteDoes
      <4>2. e.face[f] = NoFace \/ ReviewTurned(db, e, f) => db.refs[f] \in people \cup {NoOne}
        BY DEF Dropped
      <4> QED BY <3>1, <3>3, <4>1, <4>2, Constants
    <3> QED BY <1>1, <3>1, <3>2, <3>4 DEF GraphFits
  <2> QED BY <2>1, <2>2
<1> QED BY <1>2, <1>4 DEF IInv

-----------------------------------------------------------------------------
(* What the operators make of the tables                                    *)

SameRest(d, e) == e.kept = d.kept /\ e.hidden = d.hidden /\ e.refs = d.refs /\ e.open = d.open
                  /\ e.rejected = d.rejected /\ e.rebuild = d.rebuild
\* Only these faces change, but neither their kind nor whether they are to be
\* looked at again.
FacesRecast(d, e, fs) ==
    /\ SameRest(d, e)
    /\ \A f \in Faces \ fs : e.face[f] = d.face[f]
    /\ \A f \in fs : e.face[f] \in FaceRows /\ e.face[f].review = d.face[f].review /\ e.face[f].kind = d.face[f].kind
Recast(d, e, fs) == e \in Tables /\ FacesRecast(d, e, fs) /\ e.person = d.person /\ e.excl = d.excl /\ e.fresh = d.fresh

LEMMA GiveDoes ==
  ASSUME NEW d \in Tables, NEW fs, fs \subseteq Live(d), NEW p \in People, NEW e, e = Give(d, fs, p)
  PROVE  /\ Recast(d, e, fs)
         /\ \A f \in fs : e.face[f].who = p /\ e.face[f].ignored = d.face[f].ignored
<1> DEFINE g == [f \in Faces |-> IF f \in fs THEN [d.face[f] EXCEPT !.who = p, !.manual = TRUE] ELSE d.face[f]]
<1>1. ASSUME NEW f \in fs
      PROVE  /\ f \in Faces /\ g[f] \in FaceRows /\ g[f].review = d.face[f].review /\ g[f].kind = d.face[f].kind
             /\ g[f].who = p /\ g[f].ignored = d.face[f].ignored
  <2>1. f \in Faces /\ d.face[f] \in FaceRows
    BY FieldsAre DEF Live, MaybeFace
  <2>2. g[f] = [d.face[f] EXCEPT !.who = p, !.manual = TRUE]
    BY <2>1
  <2> HIDE DEF g
  <2> QED BY <2>1, <2>2 DEF FaceRows
<1>2. \A f \in Faces \ fs : g[f] = d.face[f] /\ g[f] \in MaybeFace
  BY FieldsAre
<1>3. g \in [Faces -> MaybeFace]
  BY <1>1, <1>2 DEF MaybeFace
<1>4. e = [d EXCEPT !.face = g]
  BY DEF Give
<1> HIDE DEF g
<1>5. /\ e \in Tables /\ e.face = g /\ SameRest(d, e) /\ e.person = d.person /\ e.excl = d.excl /\ e.fresh = d.fresh
  BY <1>3, <1>4 DEF Tables, SameRest
<1> QED BY <1>1, <1>2, <1>5 DEF Recast, FacesRecast

LEMMA IgnoreDoes ==
  ASSUME NEW d \in Tables, NEW fs, fs \subseteq Live(d), NEW e, e = Ignore(d, fs)
  PROVE  /\ Recast(d, e, fs)
         /\ \A f \in fs : e.face[f].who = d.face[f].who /\ e.face[f].ignored
<1> DEFINE g == [f \in Faces |-> IF f \in fs THEN [d.face[f] EXCEPT !.ignored = TRUE, !.manual = TRUE] ELSE d.face[f]]
<1>1. ASSUME NEW f \in fs
      PROVE  /\ f \in Faces /\ g[f] \in FaceRows /\ g[f].review = d.face[f].review /\ g[f].kind = d.face[f].kind
             /\ g[f].who = d.face[f].who /\ g[f].ignored
  <2>1. f \in Faces /\ d.face[f] \in FaceRows
    BY FieldsAre DEF Live, MaybeFace
  <2>2. g[f] = [d.face[f] EXCEPT !.ignored = TRUE, !.manual = TRUE]
    BY <2>1
  <2> HIDE DEF g
  <2> QED BY <2>1, <2>2 DEF FaceRows
<1>2. \A f \in Faces \ fs : g[f] = d.face[f] /\ g[f] \in MaybeFace
  BY FieldsAre
<1>3. g \in [Faces -> MaybeFace]
  BY <1>1, <1>2 DEF MaybeFace
<1>4. e = [d EXCEPT !.face = g]
  BY DEF Ignore
<1> HIDE DEF g
<1>5. /\ e \in Tables /\ e.face = g /\ SameRest(d, e) /\ e.person = d.person /\ e.excl = d.excl /\ e.fresh = d.fresh
  BY <1>3, <1>4 DEF Tables, SameRest
<1> QED BY <1>1, <1>2, <1>5 DEF Recast, FacesRecast

LEMMA UnignoreDoes ==
  ASSUME NEW d \in Tables, NEW fs, fs \subseteq Live(d), NEW e, e = Unignore(d, fs)
  PROVE  /\ Recast(d, e, fs)
         /\ \A f \in fs : e.face[f].who = d.face[f].who
<1> DEFINE g == [f \in Faces |-> IF f \in fs THEN [d.face[f] EXCEPT !.ignored = FALSE] ELSE d.face[f]]
<1>1. ASSUME NEW f \in fs
      PROVE  /\ f \in Faces /\ g[f] \in FaceRows /\ g[f].review = d.face[f].review /\ g[f].kind = d.face[f].kind
             /\ g[f].who = d.face[f].who
  <2>1. f \in Faces /\ d.face[f] \in FaceRows
    BY FieldsAre DEF Live, MaybeFace
  <2>2. g[f] = [d.face[f] EXCEPT !.ignored = FALSE]
    BY <2>1
  <2> HIDE DEF g
  <2> QED BY <2>1, <2>2 DEF FaceRows
<1>2. \A f \in Faces \ fs : g[f] = d.face[f] /\ g[f] \in MaybeFace
  BY FieldsAre
<1>3. g \in [Faces -> MaybeFace]
  BY <1>1, <1>2 DEF MaybeFace
<1>4. e = [d EXCEPT !.face = g]
  BY DEF Unignore
<1> HIDE DEF g
<1>5. /\ e \in Tables /\ e.face = g /\ SameRest(d, e) /\ e.person = d.person /\ e.excl = d.excl /\ e.fresh = d.fresh
  BY <1>3, <1>4 DEF Tables, SameRest
<1> QED BY <1>1, <1>2, <1>5 DEF Recast, FacesRecast

LEMMA FavoredDoes ==
  ASSUME NEW d \in Tables, NEW fs, fs \subseteq Live(d), NEW b \in BOOLEAN, NEW e, e = Favored(d, fs, b)
  PROVE  /\ Recast(d, e, fs)
         /\ \A f \in fs : e.face[f].who = d.face[f].who /\ e.face[f].ignored = d.face[f].ignored
<1> DEFINE g == [f \in Faces |-> IF f \in fs THEN [d.face[f] EXCEPT !.favorite = b] ELSE d.face[f]]
<1>1. ASSUME NEW f \in fs
      PROVE  /\ f \in Faces /\ g[f] \in FaceRows /\ g[f].review = d.face[f].review /\ g[f].kind = d.face[f].kind
             /\ g[f].who = d.face[f].who /\ g[f].ignored = d.face[f].ignored
  <2>1. f \in Faces /\ d.face[f] \in FaceRows
    BY FieldsAre DEF Live, MaybeFace
  <2>2. g[f] = [d.face[f] EXCEPT !.favorite = b]
    BY <2>1
  <2> HIDE DEF g
  <2> QED BY <2>1, <2>2 DEF FaceRows
<1>2. \A f \in Faces \ fs : g[f] = d.face[f] /\ g[f] \in MaybeFace
  BY FieldsAre
<1>3. g \in [Faces -> MaybeFace]
  BY <1>1, <1>2 DEF MaybeFace
<1>4. e = [d EXCEPT !.face = g]
  BY DEF Favored
<1> HIDE DEF g
<1>5. /\ e \in Tables /\ e.face = g /\ SameRest(d, e) /\ e.person = d.person /\ e.excl = d.excl /\ e.fresh = d.fresh
  BY <1>3, <1>4 DEF Tables, SameRest
<1> QED BY <1>1, <1>2, <1>5 DEF Recast, FacesRecast

LEMMA MoveToDoes ==
  ASSUME NEW d \in Tables, NEW fs, fs \subseteq Live(d), NEW p \in People, NEW e, e = MoveTo(fs, p), d = db
  PROVE  Recast(d, e, fs) /\ \A f \in fs : e.face[f].who = p
<1>1. Recast(d, Give(d, fs, p), fs) /\ \A f \in fs : Give(d, fs, p).face[f].who = p
  BY GiveDoes
<1>2. fs \subseteq Live(Give(d, fs, p)) /\ Give(d, fs, p) \in Tables
  BY <1>1, Constants DEF Recast, FacesRecast, Live
<1>3. e = Unignore(Give(d, fs, p), fs)
  BY DEF MoveTo
<1>4. Recast(Give(d, fs, p), e, fs) /\ \A f \in fs : e.face[f].who = Give(d, fs, p).face[f].who
  BY <1>2, <1>3, UnignoreDoes
<1> QED BY <1>1, <1>4 DEF Recast, FacesRecast, SameRest

LEMMA AddDoes ==
  ASSUME NEW d \in Tables, d.fresh \in People, NEW person \in PersonRows, NEW e, e = Add(d, person)
  PROVE  /\ e \in Tables /\ SameRest(d, e) /\ e.face = d.face /\ e.excl = d.excl
         /\ e.person[d.fresh] = person /\ e.fresh = d.fresh + 1
         /\ \A p \in People : p # d.fresh => e.person[p] = d.person[p]
<1> DEFINE g == [d.person EXCEPT ![d.fresh] = person]
<1>0. d.person \in [People -> PersonRows \cup {NoPerson}] /\ d.fresh \in Nat
  BY FieldsAre
<1>1. g \in [People -> PersonRows \cup {NoPerson}] /\ d.fresh + 1 \in Nat
  <2>1. g = [p \in People |-> IF p = d.fresh THEN person ELSE d.person[p]]
    BY <1>0, Zenon
  <2> HIDE DEF g
  <2>2. \A p \in People : (IF p = d.fresh THEN person ELSE d.person[p]) \in PersonRows \cup {NoPerson}
    BY <1>0
  <2> QED BY <1>0, <2>1, <2>2
<1>2. g[d.fresh] = person
  BY FieldsAre
<1>3. \A p \in People : p # d.fresh => g[p] = d.person[p]
  BY FieldsAre
<1>4. e = [d EXCEPT !.person = g, !.fresh = d.fresh + 1]
  BY DEF Add
<1> HIDE DEF g
<1>5. e \in Tables /\ SameRest(d, e) /\ e.person = g /\ e.face = d.face /\ e.excl = d.excl /\ e.fresh = d.fresh + 1
  BY <1>1, <1>4 DEF Tables, SameRest
<1> QED BY <1>2, <1>3, <1>5

LEMMA PersonIs ==
  ASSUME NEW n \in {NoName, Name}, NEW b \in BOOLEAN, NEW x \in Photos \cup {Nowhere}
  PROVE  /\ Person(n, b, x) \in PersonRows /\ Person(n, b, x).name = n /\ Person(n, b, x).manual = b
         /\ Person(n, b, x).from = x /\ Person(n, b, x) # NoPerson
  BY Constants DEF Person, PersonRows

LEMMA UnnamedIs ==
  Unnamed \in PersonRows /\ Unnamed # NoPerson /\ Unnamed.name = NoName /\ Unnamed.from = Nowhere
<1>1. PICK b \in BOOLEAN : b = FALSE
  OBVIOUS
<1> QED BY <1>1, PersonIs DEF Unnamed

LEMMA CalledDoes ==
  ASSUME NEW d \in Tables, NEW p \in People, NEW e, e = Called(d, p)
  PROVE  /\ e \in Tables /\ SameRest(d, e) /\ e.face = d.face /\ e.excl = d.excl /\ e.fresh = d.fresh
         /\ e.person[p] \in PersonRows /\ e.person[p].manual
         /\ \A q \in People : q # p => e.person[q] = d.person[q]
<1>1. Person(Name, TRUE, Nowhere) \in PersonRows /\ Person(Name, TRUE, Nowhere).manual /\ Person(Name, TRUE, Nowhere) # NoPerson
  BY PersonIs
<1> QED BY <1>1 DEF Called, Tables, SameRest

-----------------------------------------------------------------------------
(* Decisions that give faces to people and name people                      *)

\* Nobody disappears; what is said of a person anew is said by hand.
Retold(d, e) == /\ \A p \in People : e.person[p] = d.person[p] \/ (e.person[p] \in PersonRows /\ e.person[p].manual)
                /\ Aged(d) => Aged(e)

LEMMA RetoldSame ==
  ASSUME NEW d, NEW e, e.person = d.person, e.fresh = d.fresh
  PROVE  Retold(d, e)
  BY DEF Retold, Aged, Exists

LEMMA RetoldAlready ==
  ASSUME NEW d, NEW e, NEW t \in People, Exists(d, t), e.person[t] \in PersonRows, e.person[t].manual,
         \A p \in People : p # t => e.person[p] = d.person[p], e.fresh = d.fresh
  PROVE  Retold(d, e)
  BY DEF Retold, Aged, Exists

LEMMA RetoldNew ==
  ASSUME NEW c, NEW d \in Tables, d.person = c.person, d.fresh = c.fresh, d.fresh \in People,
         NEW row \in PersonRows, row.manual, NEW e, e = Add(d, row)
  PROVE  Retold(c, e)
<1>1. /\ e.person[d.fresh] = row /\ \A p \in People : p # d.fresh => e.person[p] = d.person[p]
      /\ e.fresh = d.fresh + 1
  BY AddDoes
<1>2. \A p \in People : p \in Int
  BY Constants DEF People
<1>3. ASSUME Aged(c) PROVE Aged(e)
  <2>1. ASSUME NEW p \in People, Exists(e, p) PROVE p < e.fresh
    <3>1. CASE p = d.fresh
      BY <1>1, <1>2, <3>1
    <3>2. CASE p # d.fresh
      <4>1. p < d.fresh
        BY <1>1, <1>3, <2>1, <3>2 DEF Aged, Exists
      <4> QED BY <1>1, <1>2, <4>1
    <3> QED BY <3>1, <3>2
  <2> QED BY <2>1 DEF Aged
<1> QED BY <1>1, <1>3 DEF Retold

LEMMA RetoldExist ==
  ASSUME NEW d, NEW e, Retold(d, e), NEW p \in People, Exists(d, p)
  PROVE  Exists(e, p)
  BY Constants DEF Retold, Exists

LEMMA NotEmptied ==
  ASSUME NEW e, e.excl \subseteq db.excl
  PROVE  Emptied(e)
  BY DEF Emptied

LEMMA StayDistinct ==
  ASSUME IInv, NEW e, e.rejected = db.rejected
  PROVE  Distinct(e)
  BY DEF Distinct, IInv, Fits, PairsFit

LEMMA ReadyAfter ==
  ASSUME IInv, NEW fs, fs \subseteq Live(db), NEW e \in Tables, FacesRecast(db, e, fs), Emptied(e), Retold(db, e),
         NEW people \in SUBSET People,
         \A f \in fs : db.face[f].who \in people /\ e.face[f].who \in people /\ Exists(e, e.face[f].who)
  PROVE  Ready(e, media, people) /\ Dropped(e, people)
<1>1. /\ e.kept = db.kept /\ e.hidden = db.hidden /\ e.refs = db.refs /\ e.open = db.open /\ e.rebuild = db.rebuild
      /\ \A f \in Faces \ fs : e.face[f] = db.face[f]
      /\ \A f \in fs : e.face[f] \in FaceRows /\ e.face[f].review = db.face[f].review /\ e.face[f].kind = db.face[f].kind
  BY DEF Recast, FacesRecast, SameRest
<1>2. \A f \in fs : f \in Faces /\ db.face[f] # NoFace /\ e.face[f] # NoFace
  BY <1>1, Constants DEF Live
<1>3. Sound(db, media) /\ db \in Tables
  BY DEF IInv, Sound
<1>4. Owned(e)
  <2>1. \A f \in Faces : db.face[f] # NoFace => db.face[f].who \in People
    BY <1>3, FieldsAre DEF MaybeFace, FaceRows
  <2>2. \A f \in Faces : db.kept[f] # NoFace => db.kept[f].who \in People
    BY <1>3, FieldsAre DEF MaybeFace, FaceRows
  <2>3. ASSUME NEW f \in Faces, e.face[f] # NoFace PROVE Exists(e, e.face[f].who)
    <3>1. CASE f \in fs
      BY <3>1
    <3>2. CASE f \notin fs
      BY <1>1, <1>3, <2>1, <2>3, <3>2, RetoldExist DEF Sound, Owned
    <3> QED BY <3>1, <3>2
  <2>4. ASSUME NEW f \in Faces, e.kept[f] # NoFace PROVE Exists(e, e.kept[f].who)
    BY <1>1, <1>3, <2>2, <2>4, RetoldExist DEF Sound, Owned
  <2> QED BY <2>3, <2>4 DEF Owned
<1>5. Placed(e, media)
  BY <1>1, <1>2, <1>3 DEF Sound, Placed
<1>6. Sourced(e, media)
  BY <1>3 DEF Sound, Sourced, Retold, Named, Exists
<1>7. Remembered(e)
  <2>1. ASSUME NEW p \in People, e.hidden[p] # Nowhere
        PROVE  Exists(e, p) /\ (~Named(e, p) /\ ~e.person[p].manual => e.person[p].from \in {Nowhere, e.hidden[p]})
    <3>1. Exists(db, p) /\ (~Named(db, p) /\ ~db.person[p].manual => db.person[p].from \in {Nowhere, db.hidden[p]})
      BY <1>1, <1>3, <2>1 DEF Sound, Remembered
    <3>2. Exists(e, p)
      BY <3>1, RetoldExist
    <3> QED BY <1>1, <3>1, <3>2 DEF Retold, Named, Exists
  <2> QED BY <2>1 DEF Remembered
<1>8. Tracked(e, people)
  BY <1>1, <1>2 DEF Tracked, Usable
<1>9. Dropped(e, people)
  <2>1. \A f \in Faces : db.face[f] = NoFace => db.refs[f] = NoOne
    BY DEF IInv, Fits, RefsFit, Usable
  <2> QED BY <1>1, <1>2, <2>1 DEF Dropped, ReviewTurned
<1>10. Aged(e) /\ Distinct(e)
  BY <1>3, StayDistinct DEF Sound, Retold, FacesRecast, SameRest
<1> QED BY <1>1, <1>4, <1>5, <1>6, <1>7, <1>8, <1>9, <1>10 DEF Ready, Sound

\* Faces of the tables are of people.
LEMMA OwnersAre ==
  ASSUME IInv
  PROVE  /\ db \in Tables
         /\ \A f \in Live(db) : f \in Faces /\ db.face[f] \in FaceRows /\ db.face[f].who \in People /\ Exists(db, db.face[f].who)
         /\ \A fs : Owners(db, fs) \subseteq People
         /\ \A fs : \A f \in fs \cap Live(db) : db.face[f].who \in Owners(db, fs)
<1>1. db \in Tables /\ Owned(db)
  BY DEF IInv, Sound
<1>2. \A f \in Live(db) : f \in Faces /\ db.face[f] \in FaceRows /\ db.face[f].who \in People
  BY <1>1, FieldsAre DEF Live, MaybeFace, FaceRows
<1> QED BY <1>1, <1>2 DEF Owners, Owned, Live

LEMMA RecastExtended ==
  ASSUME NEW c, NEW d, NEW e, NEW fs, FacesRecast(c, d, fs), SameRest(d, e), e.face = d.face
  PROVE  FacesRecast(c, e, fs)
  BY DEF FacesRecast, SameRest

\* Faces of others, or of the people themselves, go to people there are; folders
\* may become barred to people who are not in them.
LEMMA GivenKeeps ==
  ASSUME IInv, media' = media, NEW fs, fs \subseteq Live(db), NEW d \in Tables, FacesRecast(db, d, fs), Emptied(d), d.person = db.person, d.fresh = db.fresh,
         NEW people \in SUBSET People,
         \A f \in fs : db.face[f].who \in people /\ d.face[f].who \in people /\ Exists(db, d.face[f].who),
         Drops(d, people) \/ (busy.kind # "sync" /\ Syncs(d, people))
  PROVE  IInv'
<1>1. Retold(db, d) /\ \A f \in fs : Exists(d, d.face[f].who)
  BY RetoldSame DEF Exists
<1>2. Ready(d, media, people) /\ Dropped(d, people)
  BY <1>1, ReadyAfter
<1>3. media' \in Media
  BY DEF IInv
<1> QED BY <1>2, <1>3, AfterDrops, AfterSyncs

LEMMA GivenToAddedKeeps ==
  ASSUME IInv, media' = media, Room(db), NEW fs, fs \subseteq Live(db),
         NEW d \in Tables, FacesRecast(db, d, fs), Emptied(d), d.person = db.person, d.fresh = db.fresh,
         NEW people \in SUBSET People, NEW row \in PersonRows, row.manual,
         \A f \in fs : db.face[f].who \in people /\ d.face[f].who \in people /\ (d.face[f].who = db.fresh \/ Exists(db, d.face[f].who)),
         NEW e, e = Add(d, row), Drops(e, people) \/ (busy.kind # "sync" /\ Syncs(e, people))
  PROVE  IInv'
<1>1. d.fresh = db.fresh /\ db.fresh \in People /\ d.person = db.person
  BY DEF Room
<1>2. /\ e \in Tables /\ SameRest(d, e) /\ e.face = d.face /\ e.excl = d.excl
      /\ e.person[d.fresh] = row
      /\ \A p \in People : p # d.fresh => e.person[p] = d.person[p]
  BY <1>1, AddDoes
<1>3. Emptied(e) /\ Retold(db, e) /\ FacesRecast(db, e, fs)
  BY <1>1, <1>2, RecastExtended, RetoldNew DEF Emptied
<1>4. \A f \in fs : Exists(e, e.face[f].who)
  <2>1. Exists(e, db.fresh)
    BY <1>1, <1>2, Constants DEF Exists
  <2>2. ASSUME NEW f \in fs PROVE Exists(e, d.face[f].who)
    <3>1. CASE d.face[f].who = db.fresh
      BY <2>1, <3>1
    <3>2. CASE Exists(db, d.face[f].who)
      BY <1>1, <1>2, <3>2, Constants DEF Exists
    <3> QED BY <3>1, <3>2
  <2> QED BY <1>2, <2>2
<1>5. \A f \in fs : db.face[f].who \in people /\ e.face[f].who \in people
  BY <1>2
<1>6. Ready(e, media, people) /\ Dropped(e, people)
  BY <1>2, <1>3, <1>4, <1>5, ReadyAfter
<1>7. media' \in Media
  BY DEF IInv
<1> QED BY <1>6, <1>7, AfterDrops, AfterSyncs

LEMMA GivenToNewKeeps ==
  ASSUME IInv, media' = media, Room(db), NEW fs, fs \subseteq Live(db),
         NEW d \in Tables, FacesRecast(db, d, fs), Emptied(d), d.person = db.person, d.fresh = db.fresh,
         NEW people \in SUBSET People, NEW n \in {NoName, Name},
         \A f \in fs : db.face[f].who \in people /\ d.face[f].who \in people /\ (d.face[f].who = db.fresh \/ Exists(db, d.face[f].who)),
         NEW e, e = Add(d, Person(n, TRUE, Nowhere)), Drops(e, people) \/ (busy.kind # "sync" /\ Syncs(e, people))
  PROVE  IInv'
<1>1. Person(n, TRUE, Nowhere) \in PersonRows /\ Person(n, TRUE, Nowhere).manual
  BY PersonIs
<1> QED BY <1>1, GivenToAddedKeeps

\* Faces change, and nothing else.
LEMMA RecastIs ==
  ASSUME NEW d, NEW fs, Recast(db, d, fs)
  PROVE  d \in Tables /\ FacesRecast(db, d, fs) /\ Emptied(d) /\ d.person = db.person /\ d.fresh = db.fresh
  BY NotEmptied DEF Recast

LEMMA FreeIs ==
  ASSUME Free
  PROVE  busy.kind # "sync" /\ busy = Idle
  BY DEF Free, Idle

LEMMA EditFacesKeeps ==
  ASSUME IInv, NEW fs \in SUBSET Faces, EditFaces(fs)
  PROVE  IInv'
<1>0. fs \subseteq Live(db) /\ media' = media /\ db \in Tables
  BY OwnersAre DEF EditFaces, Decides
<1>1. \A f \in fs : db.face[f].who \in Owners(db, fs) /\ db.face[f].who \in People /\ Exists(db, db.face[f].who)
  BY <1>0, OwnersAre
<1>2. Owners(db, fs) \subseteq People
  BY OwnersAre
<1>3. ASSUME NEW t \in People, Present(t), Drops(MoveTo(fs, t), Owners(db, fs) \cup {t}) PROVE IInv'
  <2>1. Recast(db, MoveTo(fs, t), fs) /\ \A f \in fs : MoveTo(fs, t).face[f].who = t
    BY <1>0, MoveToDoes
  <2>2. Exists(db, t)
    BY <1>3 DEF Present
  <2> QED BY <1>0, <1>1, <1>2, <1>3, <2>1, <2>2, RecastIs, GivenKeeps
<1>4. ASSUME NEW n \in {NoName, Name}, Room(db),
             Drops(Add(MoveTo(fs, db.fresh), Person(n, TRUE, Nowhere)), Owners(db, fs) \cup {db.fresh})
      PROVE  IInv'
  <2>1. db.fresh \in People
    BY <1>4 DEF Room
  <2>2. Recast(db, MoveTo(fs, db.fresh), fs) /\ \A f \in fs : MoveTo(fs, db.fresh).face[f].who = db.fresh
    BY <1>0, <2>1, MoveToDoes
  <2> QED BY <1>0, <1>1, <1>2, <1>4, <2>1, <2>2, RecastIs, GivenToNewKeeps
<1>5. ASSUME Drops(Ignore(db, fs), Owners(db, fs)) PROVE IInv'
  <2>1. Recast(db, Ignore(db, fs), fs) /\ \A f \in fs : Ignore(db, fs).face[f].who = db.face[f].who
    BY <1>0, IgnoreDoes
  <2> QED BY <1>0, <1>1, <1>2, <1>5, <2>1, RecastIs, GivenKeeps
<1> QED BY <1>3, <1>4, <1>5 DEF EditFaces

LEMMA RestoreSeparatelyKeeps ==
  ASSUME IInv, NEW f \in Faces, RestoreSeparately(f)
  PROVE  IInv'
<1>0. PICK fs : fs = {f}
  OBVIOUS
<1>1. fs \subseteq Live(db) /\ media' = media /\ db \in Tables /\ Room(db) /\ db.fresh \in People
      /\ Drops(Add(MoveTo(fs, db.fresh), Person(NoName, TRUE, Nowhere)), Owners(db, fs) \cup {db.fresh})
  BY <1>0, OwnersAre DEF RestoreSeparately, Decides, Room
<1>2. \A g \in fs : db.face[g].who \in Owners(db, fs)
  BY <1>1, OwnersAre
<1>3. Owners(db, fs) \subseteq People
  BY OwnersAre
<1>4. Recast(db, MoveTo(fs, db.fresh), fs) /\ \A g \in fs : MoveTo(fs, db.fresh).face[g].who = db.fresh
  BY <1>1, MoveToDoes
<1> QED BY <1>1, <1>2, <1>3, <1>4, RecastIs, GivenToNewKeeps

LEMMA SetFaceFavoriteKeeps ==
  ASSUME IInv, NEW f \in Faces, NEW b \in BOOLEAN, SetFaceFavorite(f, b)
  PROVE  IInv'
<1>0. PICK fs : fs = {f}
  OBVIOUS
<1>1. fs \subseteq Live(db) /\ media' = media /\ db \in Tables /\ busy.kind # "sync" /\ Syncs(Favored(db, fs, b), Owners(db, fs))
  BY <1>0, OwnersAre, FreeIs DEF SetFaceFavorite, Decides
<1>2. \A g \in fs : db.face[g].who \in Owners(db, fs) /\ Exists(db, db.face[g].who)
  BY <1>1, OwnersAre
<1>3. Owners(db, fs) \subseteq People
  BY OwnersAre
<1>4. PICK d : d = Favored(db, fs, b)
  OBVIOUS
<1>5. Recast(db, d, fs) /\ \A g \in fs : d.face[g].who = db.face[g].who
  BY <1>1, <1>4, FavoredDoes
<1>6. d \in Tables /\ FacesRecast(db, d, fs) /\ Emptied(d) /\ d.person = db.person /\ d.fresh = db.fresh
  BY <1>5, RecastIs
<1>7. \A g \in fs : db.face[g].who \in Owners(db, fs) /\ d.face[g].who \in Owners(db, fs) /\ Exists(db, d.face[g].who)
  BY <1>2, <1>5
<1> QED BY <1>1, <1>3, <1>4, <1>6, <1>7, GivenKeeps

LEMMA UnignorePhotoFacesKeeps ==
  ASSUME IInv, NEW x \in Photos, UnignorePhotoFaces(x) \/ ResetIgnoredDirectoryFaces(x)
  PROVE  IInv'
<1>0. media' = media /\ db \in Tables /\ busy.kind # "sync"
  BY OwnersAre, FreeIs DEF UnignorePhotoFaces, ResetIgnoredDirectoryFaces, Decides
<1>1. CASE UnignorePhotoFaces(x)
  <2> DEFINE fs == {f \in In(x) \cap Live(db) : db.face[f].ignored}
             shown == {f \in fs : ~db.face[f].review}
  <2>1. Syncs(Unignore(db, fs), Owners(db, shown))
    BY <1>1 DEF UnignorePhotoFaces
  <2>2. fs \subseteq Live(db) /\ Owners(db, shown) \subseteq People
    BY OwnersAre
  <2> DEFINE d == Unignore(db, fs)
  <2>3. Recast(db, d, fs) /\ \A f \in fs : d.face[f].who = db.face[f].who
    BY <1>0, <2>2, UnignoreDoes
  <2>4. Ready(d, media, Owners(db, shown)) /\ Dropped(d, Owners(db, shown))
    <3>1. Ready(d, media, Owners(db, fs))
      <4>1. Emptied(d) /\ Retold(db, d) /\ SameRest(d, d) /\ d \in Tables
        BY <2>3, NotEmptied, RetoldSame DEF Recast, FacesRecast, SameRest
      <4>2. \A f \in fs : Exists(d, d.face[f].who) /\ db.face[f].who \in Owners(db, fs)
        BY <2>2, <2>3, OwnersAre DEF Recast, FacesRecast, Exists
      <4>3. FacesRecast(db, d, fs) /\ Owners(db, fs) \subseteq People
        BY <2>3, OwnersAre DEF Recast
      <4>4. \A f \in fs : db.face[f].who \in Owners(db, fs) /\ d.face[f].who \in Owners(db, fs) /\ Exists(d, d.face[f].who)
        BY <2>3, <4>2
      <4> HIDE DEF d, fs
      <4> QED BY <2>2, <4>1, <4>3, <4>4, ReadyAfter
    <3>2. Tracked(d, Owners(db, shown))
      <4>1. /\ d.rebuild = db.rebuild /\ \A f \in Faces \ fs : d.face[f] = db.face[f]
            /\ \A f \in fs : d.face[f] \in FaceRows /\ d.face[f].review = db.face[f].review
        BY <2>3 DEF Recast, FacesRecast, SameRest
      <4>2. \A f \in fs : f \in Faces /\ db.face[f] # NoFace /\ d.face[f] # NoFace
        BY <2>2, <4>1, Constants DEF Live
      <4>3. \A f \in shown : db.face[f].who \in Owners(db, shown)
        BY <2>2, OwnersAre
      <4>4. \A f \in fs \ shown : db.face[f].review /\ d.face[f].review
        BY <4>1
      <4> HIDE DEF d, fs, shown
      <4>5. ASSUME NEW f \in Faces, f \in fs \ shown
            PROVE  Usable(d, f) = Usable(db, f) /\ d.face[f].who = db.face[f].who /\ db.face[f] # NoFace /\ d.face[f] # NoFace
        BY <2>3, <4>2, <4>4, <4>5 DEF Usable
      <4> QED BY <2>3, <4>1, <4>2, <4>3, <4>5 DEF Tracked, Usable
    <3>3. Dropped(d, Owners(db, shown))
      <4>1. \A f \in Faces : db.face[f] = NoFace => db.refs[f] = NoOne
        BY DEF IInv, Fits, RefsFit, Usable
      <4>2. \A f \in fs : d.face[f] # NoFace /\ d.face[f].review = db.face[f].review
        BY <2>3, Constants DEF Recast, FacesRecast
      <4> QED BY <2>3, <4>1, <4>2 DEF Dropped, ReviewTurned, Recast, FacesRecast
    <3> QED BY <3>1, <3>2, <3>3 DEF Ready
  <2> QED BY <1>0, <2>1, <2>2, <2>4, AfterSyncs DEF IInv
<1>2. CASE ResetIgnoredDirectoryFaces(x)
  <2> DEFINE fs == {f \in In(x) \cap Live(db) : db.face[f].ignored /\ ~Named(db, db.face[f].who)}
  <2>1. Syncs(Unignore(db, fs), Owners(db, fs))
    BY <1>2 DEF ResetIgnoredDirectoryFaces
  <2>2. fs \subseteq Live(db) /\ Owners(db, fs) \subseteq People
    BY OwnersAre
  <2> HIDE DEF fs
  <2>3. PICK d : d = Unignore(db, fs)
    OBVIOUS
  <2>4. Recast(db, d, fs) /\ \A f \in fs : d.face[f].who = db.face[f].who
    BY <1>0, <2>2, <2>3, UnignoreDoes
  <2>5. d \in Tables /\ FacesRecast(db, d, fs) /\ Emptied(d) /\ d.person = db.person /\ d.fresh = db.fresh
    BY <2>4, RecastIs
  <2>6. \A f \in fs : db.face[f].who \in Owners(db, fs) /\ d.face[f].who \in Owners(db, fs) /\ Exists(db, d.face[f].who)
    BY <2>2, <2>4, OwnersAre
  <2> QED BY <1>0, <2>1, <2>2, <2>3, <2>5, <2>6, GivenKeeps
<1> QED BY <1>1, <1>2

-----------------------------------------------------------------------------
(* Decisions that draw a face, or look at one again                         *)

LEMMA PutRowKeeps ==
  ASSUME IInv, media' = media, NEW f \in Faces, media[PhotoOf[f]] = "public", NEW r \in FaceRows,
         NEW d \in Tables, SameRest(db, d), d.excl \subseteq db.excl, d.face[f] = r, \A g \in Faces : g # f => d.face[g] = db.face[g],
         Retold(db, d), Exists(d, r.who),
         \/ db.face[f] = NoFace /\ r.kind = "drawn"
         \/ db.face[f] # NoFace /\ db.face[f].review # r.review,
         NEW people \in SUBSET People, Drops(d, people)
  PROVE  IInv'
<1>1. Sound(db, media) /\ db \in Tables /\ media' \in Media
  BY DEF IInv, Sound
<1>2. /\ d.kept = db.kept /\ d.hidden = db.hidden /\ d.refs = db.refs /\ d.open = db.open /\ d.rebuild = db.rebuild
      /\ r # NoFace
  BY Constants DEF SameRest
<1>3. Owned(d)
  <2>1. \A g \in Faces : /\ db.face[g] # NoFace => db.face[g].who \in People /\ Exists(db, db.face[g].who)
                         /\ db.kept[g] # NoFace => db.kept[g].who \in People /\ Exists(db, db.kept[g].who)
    BY <1>1, FieldsAre DEF MaybeFace, FaceRows, Sound, Owned
  <2>2. \A p \in People : Exists(db, p) => Exists(d, p)
    BY RetoldExist
  <2>3. ASSUME NEW g \in Faces PROVE d.face[g] # NoFace => Exists(d, d.face[g].who)
    <3>1. CASE g = f
      BY <3>1
    <3>2. CASE g # f
      BY <2>1, <2>2, <3>2
    <3> QED BY <3>1, <3>2
  <2>4. ASSUME NEW g \in Faces PROVE d.kept[g] # NoFace => Exists(d, d.kept[g].who)
    BY <1>2, <2>1, <2>2
  <2> QED BY <2>3, <2>4 DEF Owned
<1>4. Placed(d, media)
  BY <1>1, <1>2 DEF Sound, Placed
<1>5. Sourced(d, media)
  BY <1>1 DEF Sound, Sourced, Retold, Named, Exists
<1>6. Remembered(d)
  <2>1. ASSUME NEW p \in People, d.hidden[p] # Nowhere
        PROVE  Exists(d, p) /\ (~Named(d, p) /\ ~d.person[p].manual => d.person[p].from \in {Nowhere, d.hidden[p]})
    <3>1. Exists(db, p) /\ (~Named(db, p) /\ ~db.person[p].manual => db.person[p].from \in {Nowhere, db.hidden[p]})
      BY <1>1, <1>2, <2>1 DEF Sound, Remembered
    <3>2. Exists(d, p)
      BY <3>1, RetoldExist
    <3> QED BY <1>2, <3>1, <3>2 DEF Retold, Named, Exists
  <2> QED BY <2>1 DEF Remembered
<1>7. Tracked(d, people)
  <2>1. \A g \in Faces : g # f => \/ d.face[g] = NoFace
                                  \/ db.face[g] # NoFace /\ d.face[g] # NoFace /\ Usable(d, g) = Usable(db, g) /\ d.face[g].who = db.face[g].who
    BY DEF Usable
  <2>2. \/ db.face[f] = NoFace /\ ~Usable(d, f)
        \/ ReviewTurned(db, d, f)
    BY <1>2 DEF Usable, ReviewTurned
  <2> QED BY <1>2, <2>1, <2>2 DEF Tracked
<1>8. Ready(d, media, people)
  <2>1. Aged(d) /\ Distinct(d)
    BY <1>1, StayDistinct DEF Sound, Retold, SameRest
  <2> QED BY <2>1, <1>1, <1>2, <1>3, <1>4, <1>5, <1>6, <1>7, NotEmptied DEF Ready, Sound
<1> QED BY <1>1, <1>8, AfterDrops

LEMMA NewFaceIs ==
  ASSUME NEW p \in People, NEW b \in BOOLEAN, NEW kind \in {"found", "drawn", "unread"}
  PROVE  /\ NewFace(p, b, kind) \in FaceRows /\ NewFace(p, b, kind).who = p /\ NewFace(p, b, kind).kind = kind
         /\ ~NewFace(p, b, kind).ignored /\ ~NewFace(p, b, kind).review
  BY DEF NewFace, FaceRows

PutRow(d, f, r) == [d EXCEPT !.face[f] = r]
LEMMA PutRowDoes ==
  ASSUME NEW d \in Tables, NEW f \in Faces, NEW r \in MaybeFace, NEW e, e = PutRow(d, f, r)
  PROVE  /\ e \in Tables /\ SameRest(d, e) /\ e.person = d.person /\ e.excl = d.excl /\ e.fresh = d.fresh
         /\ e.face[f] = r /\ \A g \in Faces : g # f => e.face[g] = d.face[g]
<1> DEFINE h == [d.face EXCEPT ![f] = r]
<1>1. h \in [Faces -> MaybeFace] /\ h[f] = r /\ \A g \in Faces : g # f => h[g] = d.face[g]
  BY FieldsAre
<1>2. e = [d EXCEPT !.face = h]
  BY FieldsAre DEF PutRow
<1> HIDE DEF h
<1> QED BY <1>1, <1>2 DEF Tables, SameRest

LEMMA AddDrawnFaceKeeps ==
  ASSUME IInv, NEW f \in Faces, AddDrawnFace(f)
  PROVE  IInv'
<1>0. media' = media /\ db \in Tables /\ media[PhotoOf[f]] = "public" /\ db.face[f] = NoFace
  BY OwnersAre DEF AddDrawnFace, Decides
<1>1. ASSUME NEW t \in People, Present(t), Drops([db EXCEPT !.face[f] = NewFace(t, TRUE, "drawn")], {t}) PROVE IInv'
  <2>1. PICK r : r = NewFace(t, TRUE, "drawn")
    OBVIOUS
  <2>2. r \in FaceRows /\ r.who = t /\ r.kind = "drawn" /\ r \in MaybeFace
    BY <2>1, NewFaceIs DEF MaybeFace
  <2>3. PICK d : d = PutRow(db, f, r)
    OBVIOUS
  <2>4. /\ d \in Tables /\ SameRest(db, d) /\ d.person = db.person /\ d.excl = db.excl /\ d.fresh = db.fresh
        /\ d.face[f] = r /\ \A g \in Faces : g # f => d.face[g] = db.face[g]
    BY <1>0, <2>2, <2>3, PutRowDoes
  <2>5. Retold(db, d) /\ Exists(d, r.who) /\ Drops(d, {t})
    BY <1>1, <2>1, <2>2, <2>3, <2>4, RetoldSame DEF Exists, Present, PutRow
  <2> QED BY <1>0, <2>2, <2>4, <2>5, PutRowKeeps
<1>2. ASSUME Room(db), Drops(Add([db EXCEPT !.face[f] = NewFace(db.fresh, TRUE, "drawn")], Person(Name, TRUE, Nowhere)), {db.fresh})
      PROVE  IInv'
  <2>0. PICK t : t = db.fresh
    OBVIOUS
  <2>1. PICK r : r = NewFace(t, TRUE, "drawn")
    OBVIOUS
  <2>2. t \in People /\ r \in FaceRows /\ r.who = t /\ r.kind = "drawn" /\ r \in MaybeFace
    BY <1>2, <2>0, <2>1, NewFaceIs DEF MaybeFace, Room
  <2>3. PICK d : d = PutRow(db, f, r)
    OBVIOUS
  <2>4. /\ d \in Tables /\ SameRest(db, d) /\ d.person = db.person /\ d.excl = db.excl /\ d.fresh = t
        /\ d.face[f] = r /\ \A g \in Faces : g # f => d.face[g] = db.face[g]
    BY <1>0, <2>0, <2>2, <2>3, PutRowDoes
  <2>5. PICK row : row = Person(Name, TRUE, Nowhere)
    OBVIOUS
  <2>6. row \in PersonRows /\ row.manual /\ row # NoPerson
    BY <2>5, PersonIs
  <2>7. PICK e : e = Add(d, row)
    OBVIOUS
  <2>8. /\ e \in Tables /\ SameRest(d, e) /\ e.face = d.face /\ e.excl = d.excl
        /\ e.person[t] = row
        /\ \A p \in People : p # t => e.person[p] = d.person[p]
    BY <2>2, <2>4, <2>6, <2>7, AddDoes
  <2>11. Retold(db, e)
    BY <2>0, <2>2, <2>4, <2>6, <2>7, RetoldNew
  <2>9. SameRest(db, e) /\ Exists(e, r.who)
    BY <2>2, <2>4, <2>6, <2>8 DEF SameRest, Exists
  <2>10. Drops(e, {t})
    BY <1>2, <2>0, <2>1, <2>3, <2>5, <2>7 DEF PutRow
  <2> QED BY <1>0, <2>2, <2>4, <2>8, <2>9, <2>10, <2>11, PutRowKeeps
<1> QED BY <1>1, <1>2 DEF AddDrawnFace

LEMMA ConfirmFaceSourceKeeps ==
  ASSUME IInv, NEW f \in Faces, NEW n \in {NoName, Name}, NEW kind \in {"found", "unread"}, ConfirmFaceSource(f, n, kind)
  PROVE  IInv'
<1> DEFINE Confirmed(q) == [Give(db, {f}, q) EXCEPT !.face[f].review = FALSE, !.face[f].kind = IF @ = "drawn" THEN @ ELSE kind]
<1>0. /\ media' = media /\ db \in Tables /\ f \in Live(db) /\ db.face[f].review
      /\ db.face[f] \in FaceRows /\ db.face[f].who \in People /\ Exists(db, db.face[f].who) /\ db.face[f] # NoFace
  BY OwnersAre, Constants DEF ConfirmFaceSource, Decides
<1>1. media[PhotoOf[f]] = "public"
  BY <1>0 DEF IInv, Sound, Placed
<1>2. ASSUME NEW q \in People
      PROVE  /\ Confirmed(q) \in Tables /\ SameRest(db, Confirmed(q)) /\ Confirmed(q).person = db.person
             /\ Confirmed(q).excl = db.excl /\ Confirmed(q).fresh = db.fresh
             /\ Confirmed(q).face[f] \in FaceRows /\ ~Confirmed(q).face[f].review /\ Confirmed(q).face[f].who = q
             /\ \A g \in Faces : g # f => Confirmed(q).face[g] = db.face[g]
  <2>0. PICK fs : fs = {f}
    OBVIOUS
  <2>1. PICK c : c = Give(db, fs, q)
    OBVIOUS
  <2>2. Recast(db, c, fs) /\ f \in fs /\ c.face[f].who = q
    BY <1>0, <2>0, <2>1, GiveDoes
  <2>3. c \in Tables /\ c.face[f] \in FaceRows
    BY <2>2 DEF Recast, FacesRecast
  <2>4. PICK r : r = [c.face[f] EXCEPT !.review = FALSE, !.kind = IF @ = "drawn" THEN @ ELSE kind]
    OBVIOUS
  <2>5. r \in FaceRows /\ ~r.review /\ r.who = q
    BY <2>2, <2>3, <2>4 DEF FaceRows
  <2>6. PICK e : e = PutRow(c, f, r)
    OBVIOUS
  <2>7. /\ e \in Tables /\ SameRest(c, e) /\ e.person = c.person /\ e.excl = c.excl /\ e.fresh = c.fresh
        /\ e.face[f] = r /\ \A g \in Faces : g # f => e.face[g] = c.face[g]
    BY <2>3, <2>5, <2>6, PutRowDoes DEF MaybeFace
  <2>8. Confirmed(q) = e
    BY <2>0, <2>1, <2>3, <2>4, <2>6, FieldsAre DEF PutRow
  <2> HIDE DEF Confirmed
  <2> QED BY <2>0, <2>2, <2>5, <2>7, <2>8 DEF Recast, FacesRecast, SameRest
<1> HIDE DEF Confirmed
<1>3. ASSUME NEW q \in People, Exists(db, q), NEW people \in SUBSET People, Drops(Confirmed(q), people) PROVE IInv'
  <2>1. PICK d : d = Confirmed(q)
    OBVIOUS
  <2>2. PICK r : r = d.face[f]
    OBVIOUS
  <2>3. /\ d \in Tables /\ SameRest(db, d) /\ d.person = db.person /\ d.excl = db.excl /\ d.fresh = db.fresh
        /\ r \in FaceRows /\ ~r.review /\ r.who = q /\ d.face[f] = r /\ \A g \in Faces : g # f => d.face[g] = db.face[g]
    BY <1>2, <2>1, <2>2
  <2>4. Retold(db, d) /\ Exists(d, r.who) /\ Drops(d, people)
    BY <1>3, <2>1, <2>3, RetoldSame DEF Exists
  <2> QED BY <1>0, <1>1, <2>3, <2>4, PutRowKeeps
<1>4. ASSUME Room(db), NEW people \in SUBSET People, Drops(Add(Confirmed(db.fresh), Person(n, TRUE, Nowhere)), people) PROVE IInv'
  <2>0. PICK t : t = db.fresh
    OBVIOUS
  <2>1. PICK d : d = Confirmed(t)
    OBVIOUS
  <2>2. PICK r : r = d.face[f]
    OBVIOUS
  <2>3. /\ t \in People /\ d \in Tables /\ SameRest(db, d) /\ d.person = db.person /\ d.excl = db.excl /\ d.fresh = t
        /\ r \in FaceRows /\ ~r.review /\ r.who = t /\ d.face[f] = r /\ \A g \in Faces : g # f => d.face[g] = db.face[g]
    BY <1>2, <1>4, <2>0, <2>1, <2>2 DEF Room
  <2>4. PICK row : row = Person(n, TRUE, Nowhere)
    OBVIOUS
  <2>5. row \in PersonRows /\ row.manual /\ row # NoPerson
    BY <2>4, PersonIs
  <2>6. PICK e : e = Add(d, row)
    OBVIOUS
  <2>7. /\ e \in Tables /\ SameRest(d, e) /\ e.face = d.face /\ e.excl = d.excl
        /\ e.person[t] = row
        /\ \A p \in People : p # t => e.person[p] = d.person[p]
    BY <2>3, <2>5, <2>6, AddDoes
  <2>10. Retold(db, e)
    BY <2>0, <2>3, <2>5, <2>6, RetoldNew
  <2>8. SameRest(db, e) /\ Exists(e, r.who)
    BY <2>3, <2>5, <2>7 DEF SameRest, Exists
  <2>9. Drops(e, people)
    BY <1>4, <2>0, <2>1, <2>4, <2>6
  <2> QED BY <1>0, <1>1, <2>3, <2>7, <2>8, <2>9, <2>10, PutRowKeeps
<1> QED
  <2>1. \/ Drops(Confirmed(db.face[f].who), {db.face[f].who})
        \/ \E q \in People : Exists(db, q) /\ Drops(Confirmed(q), {db.face[f].who, q})
        \/ Room(db) /\ Drops(Add(Confirmed(db.fresh), Person(n, TRUE, Nowhere)), {db.face[f].who, db.fresh})
    BY DEF ConfirmFaceSource, Confirmed, Named
  <2>2. Room(db) => db.fresh \in People
    BY DEF Room
  <2> DEFINE p == db.face[f].who
  <2>3. p \in People /\ Exists(db, p)
    BY <1>0
  <2> HIDE DEF p
  <2>4. CASE Drops(Confirmed(p), {p})
    BY <1>3, <2>3, <2>4
  <2>5. ASSUME NEW q \in People, Exists(db, q), Drops(Confirmed(q), {p, q}) PROVE IInv'
    BY <1>3, <2>3, <2>5
  <2>6. CASE Room(db) /\ Drops(Add(Confirmed(db.fresh), Person(n, TRUE, Nowhere)), {p, db.fresh})
    BY <1>4, <2>2, <2>3, <2>6
  <2> QED BY <2>1, <2>4, <2>5, <2>6 DEF p

\* What depends on rows, hidden names and folders only.
LEMMA SideStays ==
  ASSUME IInv, NEW d \in Tables, d.face = db.face, d.kept = db.kept, d.person = db.person, d.hidden = db.hidden, d.excl = db.excl, d.fresh = db.fresh
  PROVE  /\ Sound(d, media) /\ FoldersFit(d) /\ SeenFits(seen, d)
         /\ \A f \in Faces : Usable(d, f) = Usable(db, f)
         /\ \A p \in People : Exists(d, p) = Exists(db, p) /\ Photographed(d, p) = Photographed(db, p)
<1>1. Sound(db, media) /\ Fits(db) /\ SeenFits(seen, db)
  BY DEF IInv
<1>2. Sound(d, media)
  BY <1>1, SoundCopy
<1>3. \A p \in People : Exists(d, p) = Exists(db, p) /\ Photographed(d, p) = Photographed(db, p) /\ ViewOf(d, p) = ViewOf(db, p)
  BY DEF Exists, Photographed, Active, Of, Live, ViewOf
<1>4. SeenFits(seen, d)
  BY <1>1, <1>3 DEF SeenFits
<1>5. FoldersFit(d)
  BY <1>1 DEF Fits, FoldersFit, Exists
<1> QED BY <1>2, <1>3, <1>4, <1>5 DEF Usable

LEMMA SetFaceReferenceLimitKeeps ==
  ASSUME IInv, SetFaceReferenceLimit
  PROVE  IInv'
<1>1. /\ media' = media /\ db' = [db EXCEPT !.rebuild = TRUE] /\ graph' = NoGraph /\ busy' = busy /\ seen' = seen
      /\ db \in Tables /\ Fits(db) /\ GraphFits(graph, busy, db.refs) /\ media \in Media
  BY OwnersAre DEF SetFaceReferenceLimit, Decides, IInv
<1>2. /\ db' \in Tables /\ db'.face = db.face /\ db'.kept = db.kept /\ db'.person = db.person /\ db'.hidden = db.hidden
      /\ db'.excl = db.excl /\ db'.refs = db.refs /\ db'.open = db.open /\ db'.rejected = db.rejected /\ db'.rebuild /\ db'.fresh = db.fresh
  BY <1>1 DEF Tables
<1>3. /\ Sound(db', media) /\ FoldersFit(db') /\ SeenFits(seen, db')
      /\ \A f \in Faces : Usable(db', f) = Usable(db, f)
      /\ \A p \in People : Exists(db', p) = Exists(db, p) /\ Photographed(db', p) = Photographed(db, p)
  BY <1>2, SideStays
<1>4. RefsFit(db')
  BY <1>1, <1>2, <1>3 DEF Fits, RefsFit
<1>5. PairsFit(db')
  <2>1. \A q \in db.open \cup db.rejected : q[1] \in People /\ q[2] \in People
    BY <1>1, FieldsAre
  <2>2. PairsFit(db)
    BY <1>1 DEF Fits
  <2>3. \A q \in db'.open \cup db'.rejected : q[1] # q[2] /\ Exists(db', q[1]) /\ Exists(db', q[2])
    BY <1>2, <1>3, <2>1, <2>2 DEF PairsFit
  <2>4. \A q \in db'.open : ~MeetIn(db', q[1], q[2])
    BY <1>2, <1>3, <2>1, <2>2 DEF PairsFit, MeetIn
  <2> QED BY <2>3, <2>4 DEF PairsFit
<1>6. GraphFits(graph', busy', db'.refs)
  BY <1>1 DEF GraphFits
<1> QED BY <1>1, <1>3, <1>4, <1>5, <1>6 DEF IInv, Fits

LEMMA RejectKeeps ==
  ASSUME IInv, NEW q \in db.open, RejectFaceMergeSuggestion(q)
  PROVE  IInv'
<1>1. /\ media' = media /\ db' = [db EXCEPT !.open = @ \ {q}, !.rejected = @ \cup {q}] /\ graph' = graph /\ busy' = busy /\ seen' = seen
      /\ db \in Tables /\ Fits(db) /\ GraphFits(graph, busy, db.refs) /\ media \in Media
  BY OwnersAre DEF RejectFaceMergeSuggestion, IInv
<1>2. db.open \subseteq People \X People /\ db.rejected \subseteq People \X People
  BY <1>1, FieldsAre
<1>3. /\ db' \in Tables /\ db'.face = db.face /\ db'.kept = db.kept /\ db'.person = db.person /\ db'.hidden = db.hidden
      /\ db'.excl = db.excl /\ db'.refs = db.refs /\ db'.open \subseteq db.open /\ db'.rejected = db.rejected \cup {q} /\ db'.rebuild = db.rebuild
      /\ db'.fresh = db.fresh
  BY <1>1, <1>2 DEF Tables
<1>4. /\ Sound(db', media) /\ FoldersFit(db') /\ SeenFits(seen, db')
      /\ \A f \in Faces : Usable(db', f) = Usable(db, f)
      /\ \A p \in People : Exists(db', p) = Exists(db, p) /\ Photographed(db', p) = Photographed(db, p)
  BY <1>3, SideStays
<1>5. RefsFit(db')
  BY <1>1, <1>3, <1>4 DEF Fits, RefsFit
<1>6. PairsFit(db')
  <2>1. db'.open \cup db'.rejected \subseteq db.open \cup db.rejected
    BY <1>3
  <2> QED BY <1>1, <1>2, <1>3, <1>4, <2>1 DEF Fits, PairsFit, MeetIn
<1>7. GraphFits(graph', busy', db'.refs)
  BY <1>1, <1>3
<1> QED BY <1>1, <1>4, <1>5, <1>6, <1>7 DEF IInv, Fits

LEMMA RenamePersonKeeps ==
  ASSUME IInv, NEW p \in People, NEW n \in {NoName, Name}, RenamePerson(p, n)
  PROVE  IInv'
<1>1. PICK row : row = Person(n, TRUE, Nowhere)
  OBVIOUS
<1>2. row \in PersonRows /\ row.manual
  BY <1>1, PersonIs
<1>3. PICK d : d = [db EXCEPT !.person[p] = row]
  OBVIOUS
<1>4. db \in Tables /\ media' = media /\ media' \in Media /\ Aside(d) /\ Exists(db, p)
  BY <1>1, <1>3, OwnersAre DEF RenamePerson, IInv, Present
<1>5. /\ d \in Tables /\ SameRest(db, d) /\ d.face = db.face /\ d.excl = db.excl /\ d.fresh = db.fresh
      /\ \A q \in People : d.person[q] = IF q = p THEN row ELSE db.person[q]
  BY <1>2, <1>3, <1>4 DEF Tables, SameRest
<1>6. FacesRecast(db, d, {}) /\ Emptied(d) /\ Retold(db, d) /\ {} \subseteq Live(db)
  BY <1>2, <1>4, <1>5, NotEmptied, RetoldAlready DEF FacesRecast
<1>7. PICK none : none = {}
  OBVIOUS
<1>8. Ready(d, media, none)
  BY <1>5, <1>6, <1>7, ReadyAfter
<1> QED BY <1>4, <1>7, <1>8, AfterAside

-----------------------------------------------------------------------------
(* Joining groups                                                           *)

Barred(d, s, t) == d.excl \cup {<<t, x>> : x \in {x \in Photos : <<s, x>> \in d.excl}}
Without(d, s) == [d EXCEPT !.person[s] = NoPerson]
\* The people s and t are one: t has the faces and the folders of s.
Regrouped(d, e, s, t) ==
    /\ e.refs = d.refs /\ e.open \subseteq d.open /\ e.rebuild = d.rebuild
    /\ \A f \in Faces : IF d.face[f] # NoFace /\ d.face[f].who = s
                        THEN /\ e.face[f] \in FaceRows /\ e.face[f].who = t /\ e.face[f].ignored = d.face[f].ignored
                             /\ e.face[f].review = d.face[f].review /\ e.face[f].kind = d.face[f].kind
                        ELSE e.face[f] = d.face[f]
    /\ e.excl = Barred(d, s, t)
    /\ \A p \in People : Exists(e, p) <=> Exists(d, p) /\ p # s

LEMMA InheritExclusionsDoes ==
  ASSUME NEW d \in Tables, NEW s \in People, NEW t \in People, NEW e, e = InheritExclusions(d, s, t)
  PROVE  /\ e \in Tables /\ SameRest(d, e) /\ e.face = d.face /\ e.person = d.person /\ e.fresh = d.fresh
         /\ e.excl = Barred(d, s, t)
<1> DEFINE g == Barred(d, s, t)
<1>1. g \subseteq People \X Photos
  <2>1. d.excl \subseteq People \X Photos
    BY FieldsAre
  <2>2. \A x \in Photos : <<t, x>> \in People \X Photos
    OBVIOUS
  <2> QED BY <2>1, <2>2 DEF Barred
<1>2. e = [d EXCEPT !.excl = g]
  BY DEF InheritExclusions, Barred
<1> HIDE DEF g
<1>3. e \in Tables /\ SameRest(d, e) /\ e.face = d.face /\ e.person = d.person /\ e.fresh = d.fresh /\ e.excl = g
  BY <1>1, <1>2 DEF Tables, SameRest
<1> QED BY <1>3 DEF g

\* What a join makes of the people and of what is hidden.
LEMMA FollowHiddenDoes ==
  ASSUME NEW d \in Tables, NEW s \in People, NEW t \in People, s # t, Exists(d, t), NEW b \in BOOLEAN,
         Remembered(d), NEW e, e = FollowHidden(d, s, t, b)
  PROVE  /\ e \in Tables /\ e.face = d.face /\ e.excl = d.excl /\ e.refs = d.refs /\ e.open = d.open
         /\ e.rejected = d.rejected /\ e.rebuild = d.rebuild /\ e.fresh = d.fresh
         /\ \A f \in Faces : IF d.kept[f] # NoFace /\ d.kept[f].who = s
                             THEN e.kept[f] \in FaceRows /\ e.kept[f].who = t ELSE e.kept[f] = d.kept[f]
         /\ \A p \in People : p # t => e.person[p] = d.person[p]
         /\ Exists(e, t)
         /\ e.person[t] # d.person[t] => ~Named(e, t)
         /\ e.hidden[s] = Nowhere
         /\ \A p \in People \ {s, t} : e.hidden[p] = d.hidden[p]
         /\ e.hidden[t] # Nowhere /\ ~Named(e, t) /\ ~e.person[t].manual => e.person[t].from \in {Nowhere, e.hidden[t]}
<1> DEFINE takes == d.hidden[s] # Nowhere /\ d.hidden[t] = Nowhere /\ ~d.person[t].manual /\ ~Named(d, t)
                    /\ d.person[t].from \in {Nowhere, d.hidden[s]}
           hid == [d.hidden EXCEPT ![t] = IF takes THEN d.hidden[s] ELSE d.hidden[t], ![s] = Nowhere]
           kep == [f \in Faces |-> IF d.kept[f] # NoFace /\ d.kept[f].who = s
                                   THEN [d.kept[f] EXCEPT !.who = t, !.manual = @ \/ b] ELSE d.kept[f]]
<1> PICK c : c = [d EXCEPT !.hidden = hid, !.kept = kep]
  OBVIOUS
<1>1. /\ d.hidden \in [People -> Photos \cup {Nowhere}] /\ d.person[t] \in PersonRows
      /\ d.kept \in [Faces -> MaybeFace] /\ d.person \in [People -> PersonRows \cup {NoPerson}]
  BY FieldsAre DEF Exists
<1>2. /\ hid \in [People -> Photos \cup {Nowhere}] /\ hid[s] = Nowhere /\ \A p \in People \ {s, t} : hid[p] = d.hidden[p]
      /\ hid[t] = IF takes THEN d.hidden[s] ELSE d.hidden[t]
  BY <1>1
<1>3. /\ kep \in [Faces -> MaybeFace]
      /\ \A f \in Faces : IF d.kept[f] # NoFace /\ d.kept[f].who = s
                          THEN kep[f] \in FaceRows /\ kep[f].who = t ELSE kep[f] = d.kept[f]
  <2>1. ASSUME NEW f \in Faces
        PROVE  /\ kep[f] \in MaybeFace
               /\ IF d.kept[f] # NoFace /\ d.kept[f].who = s
                  THEN kep[f] \in FaceRows /\ kep[f].who = t ELSE kep[f] = d.kept[f]
    <3>1. CASE d.kept[f] # NoFace /\ d.kept[f].who = s
      <4>1. kep[f] = [d.kept[f] EXCEPT !.who = t, !.manual = @ \/ b] /\ d.kept[f] \in FaceRows
        BY <1>1, <3>1 DEF MaybeFace
      <4> HIDE DEF kep
      <4> QED BY <3>1, <4>1 DEF FaceRows, MaybeFace
    <3>2. CASE ~(d.kept[f] # NoFace /\ d.kept[f].who = s)
      BY <1>1, <3>2
    <3> QED BY <3>1, <3>2
  <2> QED BY <2>1
<1>4. e = IF ~Named(c, t) /\ ~c.person[t].manual /\ c.person[t].from = Nowhere /\ c.hidden[t] # Nowhere
          THEN [c EXCEPT !.person[t].from = c.hidden[t]] ELSE c
  <2> DEFINE e0 == [d EXCEPT !.hidden[t] = IF takes THEN d.hidden[s] ELSE @, !.hidden[s] = Nowhere,
                             !.kept = [f \in Faces |-> IF @[f] # NoFace /\ @[f].who = s
                                                        THEN [@[f] EXCEPT !.who = t, !.manual = d.kept[f].manual \/ b] ELSE @[f]]]
  <2>1. e = IF ~Named(e0, t) /\ ~e0.person[t].manual /\ e0.person[t].from = Nowhere /\ e0.hidden[t] # Nowhere
            THEN [e0 EXCEPT !.person[t].from = e0.hidden[t]] ELSE e0
    BY DEF FollowHidden
  <2>2. e0 = c
    BY <1>1 DEF Tables
  <2> HIDE DEF e0
  <2> QED BY <2>1, <2>2
<1>5. d.hidden[t] # Nowhere /\ ~Named(d, t) /\ ~d.person[t].manual => d.person[t].from \in {Nowhere, d.hidden[t]}
  BY DEF Remembered
<1>6. takes => d.person[t].from \in {Nowhere, d.hidden[s]}
  OBVIOUS
<1>7. takes \/ ~takes
  OBVIOUS
<1> HIDE DEF hid, kep, takes
<1>8. /\ c \in Tables /\ c.face = d.face /\ c.excl = d.excl /\ c.refs = d.refs /\ c.open = d.open
      /\ c.rejected = d.rejected /\ c.rebuild = d.rebuild /\ c.person = d.person /\ c.hidden = hid /\ c.kept = kep
      /\ c.fresh = d.fresh
  BY <1>2, <1>3 DEF Tables
<1>9. hid[t] # Nowhere /\ ~Named(d, t) /\ ~d.person[t].manual => d.person[t].from \in {Nowhere, hid[t]}
  BY <1>2, <1>5, <1>6
<1>10. Named(c, t) = Named(d, t)
  BY <1>8 DEF Named, Exists
<1>11. CASE e = c
  BY <1>2, <1>3, <1>8, <1>9, <1>10, <1>11 DEF Exists
<1>12. CASE ~Named(c, t) /\ e = [c EXCEPT !.person[t].from = c.hidden[t]] /\ c.hidden[t] # Nowhere
  <2>1. PICK row : row = [d.person[t] EXCEPT !.from = hid[t]]
    OBVIOUS
  <2>2. row \in PersonRows /\ row.name = d.person[t].name /\ row.manual = d.person[t].manual /\ row.from = hid[t]
    BY <1>1, <1>2, <1>8, <1>12, <2>1 DEF PersonRows
  <2> DEFINE g == [d.person EXCEPT ![t] = row]
  <2>3. g \in [People -> PersonRows \cup {NoPerson}] /\ g[t] = row /\ \A p \in People : p # t => g[p] = d.person[p]
    BY <1>1, <2>2
  <2>4. e = [c EXCEPT !.person = g]
    BY <1>1, <1>8, <1>12, <2>1
  <2> HIDE DEF g
  <2>5. /\ e \in Tables /\ e.face = c.face /\ e.excl = c.excl /\ e.refs = c.refs /\ e.open = c.open
        /\ e.rejected = c.rejected /\ e.rebuild = c.rebuild /\ e.person = g /\ e.hidden = c.hidden /\ e.kept = c.kept
        /\ e.fresh = c.fresh
    BY <1>8, <2>3, <2>4 DEF Tables
  <2>6. Exists(e, t) /\ ~Named(e, t)
    BY <1>10, <1>12, <2>2, <2>3, <2>5, Constants DEF Exists, Named
  <2> QED BY <1>2, <1>3, <1>8, <2>2, <2>3, <2>5, <2>6
<1> QED BY <1>4, <1>11, <1>12

\* A group whose faces are gone to another, is left behind and goes.
Left(d, s) == \A f \in Faces : /\ d.face[f] # NoFace => Exists(d, d.face[f].who) /\ d.face[f].who \in People \ {s}
                               /\ d.kept[f] # NoFace => Exists(d, d.kept[f].who)
LEMMA LeftSound ==
  ASSUME NEW d \in Tables, NEW m, Placed(d, m), Sourced(d, m), Remembered(d), Aged(d),
         NEW s \in People, NEW t \in People, s # t, Exists(d, t),
         Left(d, s),
         NEW b \in BOOLEAN, NEW h, h = FollowHidden(d, s, t, b), NEW e, e = Without(h, s)
  PROVE  /\ Sound(e, m) /\ e.face = d.face /\ e.excl = d.excl /\ e.refs = d.refs /\ e.open = d.open /\ e.rebuild = d.rebuild
         /\ e.rejected = d.rejected
         /\ \A p \in People : Exists(e, p) <=> Exists(d, p) /\ p # s
<1>1. /\ h \in Tables /\ h.face = d.face /\ h.excl = d.excl /\ h.refs = d.refs /\ h.open = d.open
      /\ h.rejected = d.rejected /\ h.rebuild = d.rebuild /\ h.fresh = d.fresh
      /\ \A f \in Faces : IF d.kept[f] # NoFace /\ d.kept[f].who = s
                          THEN h.kept[f] \in FaceRows /\ h.kept[f].who = t ELSE h.kept[f] = d.kept[f]
      /\ \A p \in People : p # t => h.person[p] = d.person[p]
      /\ Exists(h, t)
      /\ h.person[t] # d.person[t] => ~Named(h, t)
      /\ h.hidden[s] = Nowhere
      /\ \A p \in People \ {s, t} : h.hidden[p] = d.hidden[p]
      /\ h.hidden[t] # Nowhere /\ ~Named(h, t) /\ ~h.person[t].manual => h.person[t].from \in {Nowhere, h.hidden[t]}
  BY FollowHiddenDoes
<1> DEFINE g == [h.person EXCEPT ![s] = NoPerson]
<1>2. g \in [People -> PersonRows \cup {NoPerson}] /\ g[s] = NoPerson /\ \A p \in People : p # s => g[p] = h.person[p]
  BY <1>1, FieldsAre
<1>3. e = [h EXCEPT !.person = g]
  BY <1>1, FieldsAre DEF Without
<1> HIDE DEF g
<1>4. /\ e \in Tables /\ e.face = h.face /\ e.kept = h.kept /\ e.excl = h.excl /\ e.refs = h.refs /\ e.open = h.open
      /\ e.rejected = h.rejected /\ e.rebuild = h.rebuild /\ e.person = g /\ e.hidden = h.hidden /\ e.fresh = h.fresh
  BY <1>1, <1>2, <1>3 DEF Tables
<1>5. \A p \in People : Exists(e, p) <=> Exists(d, p) /\ p # s
  BY <1>1, <1>2, <1>4 DEF Exists
<1>6. \A f \in Faces : e.kept[f] = d.kept[f] \/ (d.kept[f] # NoFace /\ e.kept[f] # NoFace /\ e.kept[f].who = t)
  BY <1>1, <1>4, Constants
<1>7. Owned(e)
  <2>1. ASSUME NEW f \in Faces, e.face[f] # NoFace PROVE Exists(e, e.face[f].who)
    BY <1>1, <1>4, <1>5, <2>1 DEF Left
  <2>2. ASSUME NEW f \in Faces, e.kept[f] # NoFace PROVE Exists(e, e.kept[f].who)
    <3>1. CASE e.kept[f].who = t
      BY <1>5, <3>1
    <3>2. CASE e.kept[f] = d.kept[f] /\ e.kept[f].who # t
      <4>1. d.kept[f].who # s
        BY <1>1, <1>4, <2>2, <3>2
      <4>2. d.kept[f].who \in People
        BY <2>2, <3>2, FieldsAre DEF MaybeFace, FaceRows
      <4> QED BY <1>5, <2>2, <3>2, <4>1, <4>2 DEF Left
    <3> QED BY <1>6, <2>2, <3>1, <3>2
  <2> QED BY <2>1, <2>2 DEF Owned
<1>8. Placed(e, m)
  BY <1>1, <1>4, <1>6 DEF Placed
<1>9. Sourced(e, m)
  <2>1. ASSUME NEW p \in People, Named(e, p), ~e.person[p].manual, e.person[p].from # Nowhere
        PROVE  m[e.person[p].from] \notin Veiled \cup {"gone"}
    <3>1. p # s /\ e.person[p] = h.person[p] /\ Named(h, p)
      BY <1>2, <1>4, <1>5, <2>1 DEF Named, Exists
    <3>2. h.person[p] = d.person[p]
      BY <1>1, <3>1
    <3> QED BY <2>1, <3>1, <3>2 DEF Sourced, Named, Exists
  <2> QED BY <2>1 DEF Sourced
<1>10. Remembered(e)
  <2>1. ASSUME NEW p \in People, e.hidden[p] # Nowhere
        PROVE  Exists(e, p) /\ (~Named(e, p) /\ ~e.person[p].manual => e.person[p].from \in {Nowhere, e.hidden[p]})
    <3>1. p # s /\ e.person[p] = h.person[p]
      BY <1>1, <1>2, <1>4, <2>1
    <3>2. CASE p = t
      BY <1>1, <1>4, <1>5, <2>1, <3>1, <3>2 DEF Named, Exists
    <3>3. CASE p # t
      BY <1>1, <1>4, <1>5, <2>1, <3>1, <3>3 DEF Named, Exists, Remembered
    <3> QED BY <3>2, <3>3
  <2> QED BY <2>1 DEF Remembered
<1>11. Aged(e)
  BY <1>1, <1>4, <1>5 DEF Aged
<1> QED BY <1>1, <1>4, <1>5, <1>7, <1>8, <1>9, <1>10, <1>11 DEF Sound

LEMMA MergedDoes ==
  ASSUME NEW m, NEW d, Sound(d, m), NEW s \in People, NEW t \in People, s # t, Exists(d, s), Exists(d, t),
         NEW e, e = Merged(d, s, t)
  PROVE  Sound(e, m) /\ Regrouped(d, e, s, t) /\ e.rejected = d.rejected
<1>0. /\ d \in Tables /\ Owned(d) /\ Placed(d, m) /\ Sourced(d, m) /\ Remembered(d) /\ Aged(d)
      /\ \A f \in Faces : d.face[f] \in MaybeFace /\ (d.face[f] # NoFace => d.face[f].who \in People)
      /\ d.person \in [People -> PersonRows \cup {NoPerson}]
  BY FieldsAre DEF Sound, MaybeFace, FaceRows
<1>1. PICK a : a = InheritExclusions(d, s, t)
  OBVIOUS
<1>2. /\ a \in Tables /\ SameRest(d, a) /\ a.face = d.face /\ a.person = d.person /\ a.fresh = d.fresh
      /\ a.excl = Barred(d, s, t)
  BY <1>0, <1>1, InheritExclusionsDoes
<1>3. PICK row : row = IF ~Named(d, t) /\ Named(d, s) THEN d.person[s] ELSE d.person[t]
  OBVIOUS
<1>4. row \in PersonRows /\ row # NoPerson
  BY <1>0, <1>3, Constants DEF Exists
<1>5. PICK n : n = [a EXCEPT !.person[t] = row]
  OBVIOUS
<1> DEFINE g == [d.person EXCEPT ![t] = row]
<1>6. /\ g \in [People -> PersonRows \cup {NoPerson}] /\ g[t] = row /\ \A p \in People : p # t => g[p] = d.person[p]
  BY <1>0, <1>4
<1>7. n = [a EXCEPT !.person = g]
  BY <1>2, <1>5
<1> HIDE DEF g
<1>8. n \in Tables /\ SameRest(a, n) /\ n.face = a.face /\ n.person = g /\ n.excl = a.excl /\ n.fresh = a.fresh
  BY <1>2, <1>6, <1>7 DEF Tables, SameRest
<1>9. PICK fs : fs = Of(n, s)
  OBVIOUS
<1>10. fs \subseteq Live(n) /\ \A f \in Faces : f \in fs <=> d.face[f] # NoFace /\ d.face[f].who = s
  BY <1>2, <1>8, <1>9 DEF Of, Live
<1>11. PICK c : c = Give(n, fs, t)
  OBVIOUS
<1>12. /\ Recast(n, c, fs) /\ \A f \in fs : c.face[f].who = t /\ c.face[f].ignored = n.face[f].ignored
  <2>1. n \in Tables /\ fs \subseteq Live(n)
    BY <1>8, <1>10
  <2> QED BY <2>1, <1>11, GiveDoes
<1>13. /\ c \in Tables /\ c.kept = d.kept /\ c.hidden = d.hidden /\ c.refs = d.refs /\ c.open = d.open /\ c.rejected = d.rejected
       /\ c.rebuild = d.rebuild /\ c.person = g /\ c.excl = a.excl /\ c.fresh = d.fresh
       /\ \A f \in Faces \ fs : c.face[f] = d.face[f]
       /\ \A f \in fs : /\ c.face[f] \in FaceRows /\ c.face[f].who = t /\ c.face[f].ignored = d.face[f].ignored
                        /\ c.face[f].review = d.face[f].review /\ c.face[f].kind = d.face[f].kind
  BY <1>2, <1>8, <1>12 DEF Recast, FacesRecast, SameRest
<1>14. \A p \in People : Exists(c, p) = Exists(d, p)
  BY <1>4, <1>6, <1>13 DEF Exists
<1>15. Left(c, s)
  <2>1. ASSUME NEW f \in Faces, c.face[f] # NoFace PROVE Exists(c, c.face[f].who) /\ c.face[f].who \in People \ {s}
    <3>1. CASE f \in fs
      BY <1>13, <1>14, <3>1
    <3>2. CASE f \notin fs
      BY <1>0, <1>10, <1>13, <1>14, <2>1, <3>2 DEF Owned
    <3> QED BY <3>1, <3>2
  <2>2. ASSUME NEW f \in Faces, c.kept[f] # NoFace PROVE Exists(c, c.kept[f].who)
    BY <1>0, <1>13, <1>14, <2>2, FieldsAre DEF Owned, MaybeFace, FaceRows
  <2> QED BY <2>1, <2>2 DEF Left
<1>16. Placed(c, m)
  BY <1>0, <1>10, <1>13 DEF Placed
<1>17. \A p \in People : c.person[p] = d.person[p] \/ (p = t /\ Named(d, s) /\ c.person[p] = d.person[s])
  BY <1>3, <1>6, <1>13
<1>18. Sourced(c, m)
  BY <1>0, <1>17 DEF Sourced, Named, Exists
<1>19. Remembered(c)
  <2>1. ASSUME NEW p \in People, c.hidden[p] # Nowhere
        PROVE  Exists(c, p) /\ (~Named(c, p) /\ ~c.person[p].manual => c.person[p].from \in {Nowhere, c.hidden[p]})
    <3>1. CASE c.person[p] = d.person[p]
      BY <1>0, <1>13, <1>14, <2>1, <3>1 DEF Remembered, Named, Exists
    <3>2. CASE p = t /\ Named(d, s) /\ c.person[p] = d.person[s]
      BY <1>14, <3>2 DEF Named, Exists
    <3> QED BY <1>17, <3>1, <3>2
  <2> QED BY <2>1 DEF Remembered
<1>20. PICK h : h = FollowHidden(c, s, t, TRUE)
  OBVIOUS
<1>21. e = Without(h, s)
  <2>1. n = [a EXCEPT !.person[t] = IF ~Named(d, t) /\ Named(d, s) THEN d.person[s] ELSE @]
    BY <1>2, <1>3, <1>5
  <2> QED BY <1>1, <1>9, <1>11, <1>20, <2>1 DEF Merged, Without
<1>22. /\ Sound(e, m) /\ e.face = c.face /\ e.excl = c.excl /\ e.refs = c.refs /\ e.open = c.open /\ e.rebuild = c.rebuild
       /\ e.rejected = c.rejected
       /\ \A p \in People : Exists(e, p) <=> Exists(c, p) /\ p # s
  <2>4. Aged(c)
    BY <1>0, <1>13, <1>14 DEF Aged
  <2>1. c \in Tables /\ Placed(c, m) /\ Sourced(c, m) /\ Remembered(c) /\ Aged(c) /\ Exists(c, t) /\ Left(c, s)
    BY <2>4, <1>13, <1>14, <1>15, <1>16, <1>18, <1>19
  <2>2. PICK b \in BOOLEAN : b = TRUE
    OBVIOUS
  <2>3. h = FollowHidden(c, s, t, b)
    BY <1>20, <2>2
  <2> QED BY <2>1, <2>3, <1>21, LeftSound
<1> QED BY <1>2, <1>10, <1>13, <1>14, <1>22 DEF Regrouped

Moved(d, s, t) == {<<IF q[1] = s THEN t ELSE q[1], IF q[2] = s THEN t ELSE q[2]>> : q \in {q \in d.rejected : s \in {q[1], q[2]}}}
LEMMA MergedAutomaticallyDoes ==
  ASSUME NEW m, NEW d, Sound(d, m), NEW s \in People, NEW t \in People, s # t, Exists(d, s), Exists(d, t),
         NEW e, e = MergedAutomatically(d, s, t)
  PROVE  Sound(e, m) /\ Regrouped(d, e, s, t) /\ e.rejected = d.rejected \cup Moved(d, s, t)
<1>0. /\ d \in Tables /\ Owned(d) /\ Placed(d, m) /\ Sourced(d, m) /\ Remembered(d) /\ Aged(d)
      /\ \A f \in Faces : d.face[f] \in MaybeFace /\ (d.face[f] # NoFace => d.face[f].who \in People)
      /\ d.rejected \subseteq People \X People /\ d.open \subseteq People \X People
  BY FieldsAre DEF Sound, MaybeFace, FaceRows
<1>1. PICK a : a = InheritExclusions(d, s, t)
  OBVIOUS
<1>2. /\ a \in Tables /\ SameRest(d, a) /\ a.face = d.face /\ a.person = d.person /\ a.fresh = d.fresh
      /\ a.excl = Barred(d, s, t)
  BY <1>0, <1>1, InheritExclusionsDoes
<1> DEFINE moved == Moved(d, s, t)
           g == [f \in Faces |-> IF f \in Of(d, s) THEN [d.face[f] EXCEPT !.who = t] ELSE d.face[f]]
           rej == d.rejected \cup moved
           op == d.open \ moved
<1>3. rej \subseteq People \X People /\ op \subseteq d.open /\ op \subseteq People \X People
  <2>1. \A q \in d.rejected : q[1] \in People /\ q[2] \in People
    BY <1>0
  <2>2. moved \subseteq People \X People
    BY <2>1 DEF Moved
  <2> QED BY <1>0, <2>2
<1>4. /\ g \in [Faces -> MaybeFace]
      /\ \A f \in Faces : IF d.face[f] # NoFace /\ d.face[f].who = s
                          THEN /\ g[f] \in FaceRows /\ g[f].who = t /\ g[f].ignored = d.face[f].ignored
                               /\ g[f].review = d.face[f].review /\ g[f].kind = d.face[f].kind
                          ELSE g[f] = d.face[f]
  <2>1. ASSUME NEW f \in Faces, d.face[f] # NoFace, d.face[f].who = s
        PROVE  /\ g[f] \in FaceRows /\ g[f].who = t /\ g[f].ignored = d.face[f].ignored
               /\ g[f].review = d.face[f].review /\ g[f].kind = d.face[f].kind
    <3>1. d.face[f] \in FaceRows /\ g[f] = [d.face[f] EXCEPT !.who = t]
      BY <1>0, <2>1 DEF MaybeFace, Of, Live
    <3> HIDE DEF g
    <3> QED BY <3>1 DEF FaceRows
  <2>2. ASSUME NEW f \in Faces, ~(d.face[f] # NoFace /\ d.face[f].who = s) PROVE g[f] = d.face[f]
    BY <2>2 DEF Of, Live
  <2>3. \A f \in Faces : g[f] \in MaybeFace
    BY <1>0, <2>1, <2>2 DEF MaybeFace
  <2> QED BY <2>1, <2>2, <2>3
<1>5. PICK c : c = [a EXCEPT !.rejected = rej, !.open = op, !.face = g]
  OBVIOUS
<1>6. PICK h : h = FollowHidden(c, s, t, FALSE)
  OBVIOUS
<1>7. e = Without(h, s)
  <2>1. c = [a EXCEPT !.rejected = @ \cup moved, !.open = @ \ moved,
                      !.face = [f \in Faces |-> IF f \in Of(d, s) THEN [@[f] EXCEPT !.who = t] ELSE @[f]]]
    BY <1>2, <1>5 DEF SameRest
  <2> QED BY <1>1, <1>6, <2>1 DEF MergedAutomatically, Without, Moved
<1> HIDE DEF g, rej, op, moved
<1>8. /\ c \in Tables /\ c.kept = d.kept /\ c.hidden = d.hidden /\ c.refs = d.refs /\ c.open \subseteq d.open
      /\ c.rejected = rej
      /\ c.rebuild = d.rebuild /\ c.person = d.person /\ c.excl = a.excl /\ c.face = g /\ c.fresh = d.fresh
  BY <1>2, <1>3, <1>4, <1>5 DEF Tables, SameRest
<1>9. \A f \in Faces : IF d.face[f] # NoFace /\ d.face[f].who = s
                       THEN /\ c.face[f] \in FaceRows /\ c.face[f].who = t /\ c.face[f].ignored = d.face[f].ignored
                            /\ c.face[f].review = d.face[f].review /\ c.face[f].kind = d.face[f].kind
                       ELSE c.face[f] = d.face[f]
  BY <1>4, <1>8
<1>10. \A p \in People : Exists(c, p) = Exists(d, p) /\ Named(c, p) = Named(d, p)
  BY <1>8 DEF Exists, Named
<1>11. Left(c, s)
  <2>1. ASSUME NEW f \in Faces, c.face[f] # NoFace PROVE Exists(c, c.face[f].who) /\ c.face[f].who \in People \ {s}
    <3>1. CASE d.face[f] # NoFace /\ d.face[f].who = s
      BY <1>9, <1>10, <3>1
    <3>2. CASE ~(d.face[f] # NoFace /\ d.face[f].who = s)
      BY <1>0, <1>9, <1>10, <2>1, <3>2 DEF Owned
    <3> QED BY <3>1, <3>2
  <2>2. ASSUME NEW f \in Faces, c.kept[f] # NoFace PROVE Exists(c, c.kept[f].who)
    BY <1>0, <1>8, <1>10, <2>2, FieldsAre DEF Owned, MaybeFace, FaceRows
  <2> QED BY <2>1, <2>2 DEF Left
<1>12. Placed(c, m)
  BY <1>0, <1>8, <1>9 DEF Placed
<1>13. Sourced(c, m) /\ Remembered(c)
  BY <1>0, <1>8, <1>10 DEF Sourced, Remembered
<1>14. /\ Sound(e, m) /\ e.face = c.face /\ e.excl = c.excl /\ e.refs = c.refs /\ e.open = c.open /\ e.rebuild = c.rebuild
       /\ e.rejected = c.rejected
       /\ \A p \in People : Exists(e, p) <=> Exists(c, p) /\ p # s
  <2>4. Aged(c)
    BY <1>0, <1>8, <1>10 DEF Aged
  <2>1. c \in Tables /\ Placed(c, m) /\ Sourced(c, m) /\ Remembered(c) /\ Aged(c) /\ Exists(c, t) /\ Left(c, s)
    BY <2>4, <1>8, <1>10, <1>11, <1>12, <1>13
  <2>2. PICK b \in BOOLEAN : b = FALSE
    OBVIOUS
  <2>3. h = FollowHidden(c, s, t, b)
    BY <1>6, <2>2
  <2> QED BY <2>1, <2>3, <1>7, LeftSound
<1> QED BY <1>2, <1>8, <1>9, <1>10, <1>14 DEF Regrouped, rej, moved

LEMMA RegroupedReady ==
  ASSUME IInv, NEW d, d.face = db.face, d.excl = db.excl, d.refs = db.refs, d.open = db.open, d.rebuild = db.rebuild,
         NEW s \in People, NEW t \in People, ~Conflict(db, s, t), NEW e, Sound(e, media), Regrouped(d, e, s, t),
         Distinct(e), NEW people \in SUBSET People, s \in people, t \in people
  PROVE  Ready(e, media, people) /\ Dropped(e, people)
<1>1. /\ e.refs = db.refs /\ e.open \subseteq db.open /\ e.rebuild = db.rebuild
      /\ \A f \in Faces : IF db.face[f] # NoFace /\ db.face[f].who = s
                          THEN /\ e.face[f] # NoFace /\ e.face[f].who = t /\ e.face[f].review = db.face[f].review
                          ELSE e.face[f] = db.face[f]
      /\ e.excl = Barred(db, s, t)
  BY Constants DEF Regrouped, Barred
<1>2. Tracked(e, people)
  <2>1. ASSUME NEW f \in Faces, db.face[f] # NoFace, db.face[f].who = s
        PROVE  db.face[f] # NoFace /\ db.face[f].who \in people /\ e.face[f].who \in people
    BY <1>1, <2>1
  <2>2. ASSUME NEW f \in Faces, ~(db.face[f] # NoFace /\ db.face[f].who = s) PROVE e.face[f] = db.face[f]
    BY <1>1, <2>2
  <2> QED BY <1>1, <2>1, <2>2 DEF Tracked, Usable
<1>3. Emptied(e)
  <2>1. ASSUME NEW q \in e.excl, q \notin db.excl, NEW f \in Faces,
               db.face[f] # NoFace, db.face[f].who = q[1], PhotoOf[f] = q[2]
        PROVE  FALSE
    <3>1. PICK x \in Photos : <<s, x>> \in db.excl /\ q = <<t, x>>
      BY <1>1, <2>1 DEF Barred
    <3>2. f \in Of(db, t) \cap In(x)
      BY <2>1, <3>1 DEF Of, Live, In
    <3> QED BY <3>1, <3>2 DEF Conflict
  <2> QED BY <2>1 DEF Emptied
<1>4. Dropped(e, people)
  <2>1. \A f \in Faces : db.face[f] = NoFace => db.refs[f] = NoOne
    BY DEF IInv, Fits, RefsFit, Usable
  <2> QED BY <1>1, <2>1 DEF Dropped, ReviewTurned
<1> QED BY <1>1, <1>2, <1>3, <1>4 DEF Ready

LEMMA CalledSound ==
  ASSUME IInv, NEW t \in People, Exists(db, t), NEW d, d = Called(db, t)
  PROVE  /\ Sound(d, media) /\ d.face = db.face /\ d.excl = db.excl /\ d.refs = db.refs /\ d.open = db.open /\ d.rebuild = db.rebuild
         /\ d.rejected = db.rejected
         /\ Ready(d, media, {}) /\ Dropped(d, {})
         /\ \A p \in People : Exists(db, p) => Exists(d, p)
<1>1. /\ d \in Tables /\ SameRest(db, d) /\ d.face = db.face /\ d.excl = db.excl /\ d.fresh = db.fresh
      /\ d.person[t] \in PersonRows /\ d.person[t].manual
      /\ \A q \in People : q # t => d.person[q] = db.person[q]
  <2>1. db \in Tables
    BY OwnersAre
  <2> QED BY <2>1, CalledDoes
<1>2. FacesRecast(db, d, {}) /\ Emptied(d) /\ Retold(db, d) /\ {} \subseteq Live(db)
  BY <1>1, NotEmptied, RetoldAlready DEF FacesRecast
<1>3. PICK none : none = {}
  OBVIOUS
<1>4. Ready(d, media, none) /\ Dropped(d, none)
  BY <1>1, <1>2, <1>3, ReadyAfter
<1>5. \A p \in People : Exists(db, p) => Exists(d, p)
  BY <1>2, RetoldExist
<1> QED BY <1>1, <1>3, <1>4, <1>5 DEF Ready, SameRest

LEMMA MergeKeeps ==
  ASSUME IInv, media' = media, NEW s \in People, NEW t \in People, s # t, Exists(db, s), Exists(db, t), ~Conflict(db, s, t),
         Drops(Merged(db, s, t), {s, t}) \/ Drops(Merged(Called(db, t), s, t), {s, t})
  PROVE  IInv'
<1>0. media' \in Media /\ Sound(db, media)
  BY DEF IInv
<1>1. ASSUME NEW d, Sound(d, media), d.face = db.face, d.excl = db.excl, d.refs = db.refs, d.open = db.open, d.rebuild = db.rebuild,
             d.rejected = db.rejected, Exists(d, s), Exists(d, t), Drops(Merged(d, s, t), {s, t})
      PROVE  IInv'
  <2>1. PICK e : e = Merged(d, s, t)
    OBVIOUS
  <2>2. Sound(e, media) /\ Regrouped(d, e, s, t) /\ e.rejected = db.rejected
    BY <1>1, <2>1, MergedDoes
  <2>6. Distinct(e)
    BY <2>2, StayDistinct
  <2>3. PICK people \in SUBSET People : people = {s, t}
    OBVIOUS
  <2>4. Ready(e, media, people)
    BY <1>1, <2>2, <2>3, <2>6, RegroupedReady
  <2>5. Drops(e, people)
    BY <1>1, <2>1, <2>3
  <2> QED BY <1>0, <2>4, <2>5, AfterDrops
<1>2. CASE Drops(Merged(db, s, t), {s, t})
  BY <1>0, <1>1, <1>2
<1>3. CASE Drops(Merged(Called(db, t), s, t), {s, t})
  <2>1. PICK d : d = Called(db, t)
    OBVIOUS
  <2>2. /\ Sound(d, media) /\ d.face = db.face /\ d.excl = db.excl /\ d.refs = db.refs /\ d.open = db.open /\ d.rebuild = db.rebuild
        /\ Exists(d, s) /\ Exists(d, t) /\ d.rejected = db.rejected
    BY <2>1, CalledSound
  <2>3. Drops(Merged(d, s, t), {s, t})
    BY <1>3, <2>1
  <2> QED BY <1>1, <2>2, <2>3
<1> QED BY <1>2, <1>3

LEMMA MergePeopleKeeps ==
  ASSUME IInv, NEW s \in People, NEW t \in People, MergePeople(s, t)
  PROVE  IInv'
<1>1. /\ media' = media /\ s # t /\ Exists(db, s) /\ Exists(db, t) /\ ~Conflict(db, s, t)
      /\ Drops(Merged(db, s, t), {s, t}) \/ Drops(Merged(Called(db, t), s, t), {s, t})
  BY DEF MergePeople, Decides, Present
<1> QED BY <1>1, MergeKeeps

\* A pair of suggested groups are two groups.
LEMMA PairIs ==
  ASSUME IInv, NEW q \in db.open, NEW s, NEW t, s = q[1], t = q[2], ~Meet(s, t), Present(s)
  PROVE  s \in People /\ t \in People /\ s # t
<1>1. s \in People /\ t \in People
  BY OwnersAre, FieldsAre
<1>2. Photographed(db, s) # {}
  BY DEF Present, Photographed
<1> QED BY <1>1, <1>2 DEF Meet

LEMMA AcceptKeeps ==
  ASSUME IInv, NEW q \in db.open, AcceptFaceMergeSuggestion(q)
  PROVE  IInv'
<1>1. PICK s : s = q[1]
  OBVIOUS
<1>2. PICK t : t = q[2]
  OBVIOUS
<1>3. /\ media' = media /\ ~Meet(s, t) /\ Present(s) /\ Exists(db, s) /\ Exists(db, t) /\ ~Conflict(db, s, t)
      /\ Drops(Merged(db, s, t), {s, t})
  BY <1>1, <1>2 DEF AcceptFaceMergeSuggestion, Decides, Present
<1>4. s \in People /\ t \in People /\ s # t
  BY <1>1, <1>2, <1>3, PairIs
<1> QED BY <1>3, <1>4, MergeKeeps

-----------------------------------------------------------------------------
(* Decisions of a client on a group as it has seen it                       *)

LEMMA LabelPeopleKeeps ==
  ASSUME IInv, NEW ps \in SUBSET People, LabelPeople(ps)
  PROVE  IInv'
<1>1. /\ db' = db /\ media' = media /\ graph' = graph /\ busy' = busy
      /\ seen' = [p \in People |-> IF p \in ps THEN ViewOf(db, p) ELSE NoView]
      /\ \A p \in ps : Viewable(p)
      /\ db \in Tables /\ FoldersFit(db)
  BY OwnersAre DEF LabelPeople, IInv, Fits
<1>2. \A p \in ps : Exists(db, p)
  BY <1>1 DEF Viewable, Present, FoldersFit
<1>3. \A p \in ps : ViewOf(db, p) \in Views
  BY <1>1, <1>2, ViewIs
<1>4. SeenFits(seen', db)
  BY <1>1, <1>2, <1>3, Constants DEF SeenFits
<1> QED BY <1>1, <1>4 DEF IInv

LEMMA LabelNameKeeps ==
  ASSUME IInv, NEW p \in People, LabelName(p) \/ LabelRename(p)
  PROVE  IInv'
<1>1. Exists(db, p) /\ media' = media /\ media' \in Media /\ busy.kind # "sync" /\ (Drops(Called(db, p), {p}) \/ Syncs(Called(db, p), {p}))
  BY FreeIs DEF LabelName, LabelRename, Decides, IInv, Current, Present
<1>2. PICK d : d = Called(db, p)
  OBVIOUS
<1>3. PICK people \in SUBSET People : people = {p}
  OBVIOUS
<1>4. /\ d \in Tables /\ SameRest(db, d) /\ d.face = db.face /\ d.excl = db.excl /\ d.fresh = db.fresh
      /\ d.person[p] \in PersonRows /\ d.person[p].manual
      /\ \A q \in People : q # p => d.person[q] = db.person[q]
  <2>1. db \in Tables
    BY OwnersAre
  <2> QED BY <1>2, <2>1, CalledDoes
<1>5. FacesRecast(db, d, {}) /\ Emptied(d) /\ Retold(db, d) /\ {} \subseteq Live(db)
  BY <1>1, <1>4, NotEmptied, RetoldAlready DEF FacesRecast
<1>6. Ready(d, media, people) /\ Dropped(d, people)
  BY <1>4, <1>5, ReadyAfter
<1> QED BY <1>1, <1>2, <1>3, <1>6, AfterDrops, AfterSyncs DEF IInv, LabelName, LabelRename, Decides

LEMMA LabelMergeKeeps ==
  ASSUME IInv, NEW s \in People, NEW t \in People, LabelMerge(s, t)
  PROVE  IInv'
<1>1. /\ media' = media /\ s # t /\ Exists(db, s) /\ Exists(db, t) /\ ~Conflict(db, s, t)
      /\ Drops(Merged(db, s, t), {s, t}) \/ Drops(Merged(Called(db, t), s, t), {s, t})
  BY DEF LabelMerge, Decides, Current, Present
<1> QED BY <1>1, MergeKeeps

LEMMA LabelAssignKeeps ==
  ASSUME IInv, NEW p \in People, NEW t \in People, LabelAssign(p, t)
  PROVE  IInv'
<1>1. PICK e : e = InheritExclusions(db, p, t)
  OBVIOUS
<1>2. PICK fs : fs = Active(e, p)
  OBVIOUS
<1>3. PICK d : d = Give(e, fs, t)
  OBVIOUS
<1>4. PICK people \in SUBSET People : people = {p, t}
  OBVIOUS
<1>5. /\ media' = media /\ p # t /\ Exists(db, t) /\ ~Conflict(db, p, t) /\ Drops(d, people) /\ db \in Tables
  BY <1>1, <1>2, <1>3, <1>4, OwnersAre DEF LabelAssign, Decides, Current, Present
<1>6. /\ e \in Tables /\ SameRest(db, e) /\ e.face = db.face /\ e.person = db.person /\ e.fresh = db.fresh /\ e.excl = Barred(db, p, t)
  BY <1>1, <1>5, InheritExclusionsDoes
<1>7. fs \subseteq Live(e) /\ fs \subseteq Live(db) /\ \A f \in fs : db.face[f].who = p
  BY <1>2, <1>6 DEF Active, Of, Live
<1>8. Recast(e, d, fs) /\ \A f \in fs : d.face[f].who = t
  BY <1>3, <1>6, <1>7, GiveDoes
<1>9. d \in Tables /\ FacesRecast(db, d, fs) /\ d.person = db.person /\ d.fresh = db.fresh /\ d.excl = Barred(db, p, t)
  BY <1>6, <1>8 DEF Recast, FacesRecast, SameRest
<1>10. Emptied(d)
  <2>1. ASSUME NEW q \in d.excl, q \notin db.excl, NEW f \in Faces,
               db.face[f] # NoFace, db.face[f].who = q[1], PhotoOf[f] = q[2]
        PROVE  FALSE
    <3>1. PICK x \in Photos : <<p, x>> \in db.excl /\ q = <<t, x>>
      BY <1>9, <2>1 DEF Barred
    <3>2. f \in Of(db, t) \cap In(x)
      BY <2>1, <3>1 DEF Of, Live, In
    <3> QED BY <1>5, <3>1, <3>2 DEF Conflict
  <2> QED BY <2>1 DEF Emptied
<1>11. \A f \in fs : db.face[f].who \in people /\ d.face[f].who \in people /\ Exists(db, d.face[f].who)
  BY <1>4, <1>5, <1>7, <1>8
<1> QED BY <1>5, <1>7, <1>9, <1>10, <1>11, GivenKeeps

LEMMA LabelIgnoreKeeps ==
  ASSUME IInv, NEW p \in People, LabelIgnore(p)
  PROVE  IInv'
<1>1. PICK fs : fs = Active(db, p)
  OBVIOUS
<1>2. PICK d : d = Ignore(db, fs)
  OBVIOUS
<1>3. PICK people \in SUBSET People : people = {p}
  OBVIOUS
<1>4. media' = media /\ Exists(db, p) /\ Drops(d, people) /\ db \in Tables
  BY <1>1, <1>2, <1>3, OwnersAre DEF LabelIgnore, Decides, Current, Present
<1>5. fs \subseteq Live(db) /\ \A f \in fs : db.face[f].who = p
  BY <1>1 DEF Active, Of
<1>6. Recast(db, d, fs) /\ \A f \in fs : d.face[f].who = p
  BY <1>2, <1>4, <1>5, IgnoreDoes
<1>7. d \in Tables /\ FacesRecast(db, d, fs) /\ Emptied(d) /\ d.person = db.person /\ d.fresh = db.fresh
  BY <1>6, RecastIs
<1>8. \A f \in fs : db.face[f].who \in people /\ d.face[f].who \in people /\ Exists(db, d.face[f].who)
  BY <1>3, <1>4, <1>5, <1>6
<1> QED BY <1>4, <1>5, <1>7, <1>8, GivenKeeps

\* Faces of p go to t, or to somebody new.
LEMMA PassedKeeps ==
  ASSUME IInv, media' = media, NEW p \in People, NEW fs, fs \subseteq Active(db, p),
         NEW t \in People, Exists(db, t), NEW d, d = Give(db, fs, t),
         Drops(d, {p, t}) \/ (busy.kind # "sync" /\ Syncs(d, {p, t}))
  PROVE  IInv'
<1>0. PICK people \in SUBSET People : people = {p, t}
  OBVIOUS
<1>1. db \in Tables
  BY OwnersAre
<1>2. fs \subseteq Live(db) /\ \A f \in fs : db.face[f].who = p
  BY DEF Active, Of
<1>3. Recast(db, d, fs) /\ \A f \in fs : d.face[f].who = t
  BY <1>1, <1>2, GiveDoes
<1>4. d \in Tables /\ FacesRecast(db, d, fs) /\ Emptied(d) /\ d.person = db.person /\ d.fresh = db.fresh
  BY <1>3, RecastIs
<1>5. \A f \in fs : db.face[f].who \in people /\ d.face[f].who \in people /\ Exists(db, d.face[f].who)
  BY <1>0, <1>2, <1>3
<1> QED BY <1>0, <1>2, <1>4, <1>5, GivenKeeps

LEMMA PassedToNewKeeps ==
  ASSUME IInv, media' = media, Room(db), NEW p \in People, NEW fs, fs \subseteq Active(db, p),
         NEW t, t = db.fresh, NEW d, d = Give(db, fs, t) \/ d = Favored(Give(db, fs, t), fs, FALSE),
         NEW n \in {NoName, Name},
         NEW e, e = Add(d, Person(n, TRUE, Nowhere)),
         Drops(e, {p, t}) \/ (busy.kind # "sync" /\ Syncs(e, {p, t}))
  PROVE  IInv'
<1>1. db \in Tables /\ t \in People
  BY OwnersAre DEF Room
<1>0. PICK people \in SUBSET People : people = {p, t}
  BY <1>1
<1>2. fs \subseteq Live(db) /\ \A f \in fs : db.face[f].who = p
  BY DEF Active, Of
<1>3. PICK c : c = Give(db, fs, t)
  OBVIOUS
<1>4. Recast(db, c, fs) /\ \A f \in fs : c.face[f].who = t
  BY <1>1, <1>2, <1>3, GiveDoes
<1>5. Recast(db, d, fs) /\ \A f \in fs : d.face[f].who = t
  <2>1. CASE d = c
    BY <1>4, <2>1
  <2>2. CASE d = Favored(c, fs, FALSE)
    <3>1. fs \subseteq Live(c) /\ c \in Tables
      BY <1>2, <1>4, Constants DEF Recast, FacesRecast, Live
    <3>2. PICK b \in BOOLEAN : b = FALSE
      OBVIOUS
    <3>3. d = Favored(c, fs, b)
      BY <2>2, <3>2
    <3>4. Recast(c, d, fs) /\ \A f \in fs : d.face[f].who = c.face[f].who
      BY <3>1, <3>3, FavoredDoes
    <3> QED BY <1>4, <3>4 DEF Recast, FacesRecast, SameRest
  <2> QED BY <1>3, <2>1, <2>2
<1>6. d \in Tables /\ FacesRecast(db, d, fs) /\ Emptied(d) /\ d.person = db.person /\ d.fresh = db.fresh
  BY <1>5, RecastIs
<1>7. \A f \in fs : db.face[f].who \in people /\ d.face[f].who \in people /\ d.face[f].who = db.fresh
  BY <1>0, <1>2, <1>5
<1> QED BY <1>0, <1>2, <1>6, <1>7, GivenToNewKeeps

LEMMA LabelDetachKeeps ==
  ASSUME IInv, NEW p \in People, NEW f \in Faces, LabelDetach(p, f)
  PROVE  IInv'
<1>1. PICK fs : fs = {f}
  OBVIOUS
<1>2. PICK t : t = db.fresh
  OBVIOUS
<1>3. PICK d : d = Give(db, fs, t)
  OBVIOUS
<1>4. PICK e : e = Add(d, Person(NoName, TRUE, Nowhere))
  OBVIOUS
<1>5. t \in People /\ media' = media /\ Room(db) /\ fs \subseteq Active(db, p) /\ Drops(e, {p, t})
  BY <1>1, <1>2, <1>3, <1>4 DEF LabelDetach, Decides, Room
<1> QED BY <1>2, <1>3, <1>4, <1>5, PassedToNewKeeps

LEMMA LabelFavoriteKeeps ==
  ASSUME IInv, NEW p \in People, NEW f \in Faces, NEW b \in BOOLEAN, LabelFavorite(p, f, b)
  PROVE  IInv'
<1>1. PICK fs : fs = {f}
  OBVIOUS
<1>2. PICK d : d = Favored(db, fs, b)
  OBVIOUS
<1>3. PICK people \in SUBSET People : people = {p}
  OBVIOUS
<1>4. /\ media' = media /\ busy.kind # "sync" /\ Exists(db, p) /\ Syncs(d, people) /\ db \in Tables
      /\ fs \subseteq Live(db) /\ \A g \in fs : db.face[g].who = p
  BY <1>1, <1>2, <1>3, OwnersAre, FreeIs DEF LabelFavorite, Decides, Current, Present, Active, Of
<1>5. Recast(db, d, fs) /\ \A g \in fs : d.face[g].who = p
  BY <1>2, <1>4, FavoredDoes
<1>6. d \in Tables /\ FacesRecast(db, d, fs) /\ Emptied(d) /\ d.person = db.person /\ d.fresh = db.fresh
  BY <1>5, RecastIs
<1>7. \A g \in fs : db.face[g].who \in people /\ d.face[g].who \in people /\ Exists(db, d.face[g].who)
  BY <1>3, <1>4, <1>5
<1> QED BY <1>4, <1>6, <1>7, GivenKeeps

LEMMA IgnoredKeeps ==
  ASSUME IInv, media' = media, NEW p \in People, Exists(db, p), NEW fs, fs \subseteq Active(db, p),
         NEW d, d = Ignore(db, fs), Drops(d, {p}) \/ (busy.kind # "sync" /\ Syncs(d, {p}))
  PROVE  IInv'
<1>1. PICK people \in SUBSET People : people = {p}
  OBVIOUS
<1>2. db \in Tables /\ fs \subseteq Live(db) /\ \A f \in fs : db.face[f].who = p
  BY OwnersAre DEF Active, Of
<1>3. Recast(db, d, fs) /\ \A f \in fs : d.face[f].who = p
  BY <1>2, IgnoreDoes
<1>4. d \in Tables /\ FacesRecast(db, d, fs) /\ Emptied(d) /\ d.person = db.person /\ d.fresh = db.fresh
  BY <1>3, RecastIs
<1>5. \A f \in fs : db.face[f].who \in people /\ d.face[f].who \in people /\ Exists(db, d.face[f].who)
  BY <1>1, <1>2, <1>3
<1> QED BY <1>1, <1>2, <1>4, <1>5, GivenKeeps

LEMMA LabelFacesKeeps ==
  ASSUME IInv, NEW p \in People, NEW fs \in SUBSET Faces, LabelFaces(p, fs)
  PROVE  IInv'
<1>0. media' = media /\ busy.kind # "sync" /\ Exists(db, p) /\ fs \subseteq Active(db, p)
  BY FreeIs DEF LabelFaces, Decides, Current, Present
<1>1. CASE Syncs(Ignore(db, fs), {p})
  BY <1>0, <1>1, IgnoredKeeps
<1>2. ASSUME NEW t \in People, Current(t), Syncs(Give(db, fs, t), {p, t}) PROVE IInv'
  BY <1>0, <1>2, PassedKeeps DEF Current, Present
<1>3. ASSUME Room(db), NEW n \in {NoName, Name}, NEW d, d = Give(db, fs, db.fresh) \/ d = Favored(Give(db, fs, db.fresh), fs, FALSE),
             Syncs(Add(d, Person(n, TRUE, Nowhere)), {p, db.fresh})
      PROVE  IInv'
  <2>1. PICK t \in People : t = db.fresh
    BY <1>3 DEF Room
  <2>2. PICK e : e = Add(d, Person(n, TRUE, Nowhere))
    OBVIOUS
  <2>3. d = Give(db, fs, t) \/ d = Favored(Give(db, fs, t), fs, FALSE)
    BY <1>3, <2>1
  <2>4. Syncs(e, {p, t})
    BY <1>3, <2>1, <2>2
  <2> QED BY <1>0, <1>3, <2>1, <2>2, <2>3, <2>4, PassedToNewKeeps
<1> QED BY <1>1, <1>2, <1>3 DEF LabelFaces

LEMMA MoveFolderKeeps ==
  ASSUME IInv, NEW p \in People, NEW x \in Photos, MoveFolder(p, x)
  PROVE  IInv'
<1> DEFINE fs == Active(db, p) \cap In(x)
<1>0. media' = media /\ Exists(db, p) /\ fs \subseteq Active(db, p)
  BY DEF MoveFolder, Decides
<1>1. \/ \E t \in People \ {p} : Present(t) /\ Named(db, t) /\ Drops(Give(db, fs, t), {p, t})
      \/ Room(db) /\ Drops(Add(Give(db, fs, db.fresh), Person(Name, TRUE, Nowhere)), {p, db.fresh})
      \/ Room(db) /\ Drops(Add(Favored(Give(db, fs, db.fresh), fs, FALSE), Person(NoName, TRUE, Nowhere)), {p, db.fresh})
      \/ Drops(Ignore(db, fs), {p})
  BY DEF MoveFolder
<1> HIDE DEF fs
<1>2. CASE Drops(Ignore(db, fs), {p})
  BY <1>0, <1>2, IgnoredKeeps
<1>3. ASSUME NEW t \in People, Present(t), Drops(Give(db, fs, t), {p, t}) PROVE IInv'
  BY <1>0, <1>3, PassedKeeps DEF Present
<1>4. ASSUME Room(db), NEW n \in {NoName, Name}, NEW d, d = Give(db, fs, db.fresh) \/ d = Favored(Give(db, fs, db.fresh), fs, FALSE),
             Drops(Add(d, Person(n, TRUE, Nowhere)), {p, db.fresh})
      PROVE  IInv'
  <2>1. PICK t \in People : t = db.fresh
    BY <1>4 DEF Room
  <2>2. PICK e : e = Add(d, Person(n, TRUE, Nowhere))
    OBVIOUS
  <2>3. d = Give(db, fs, t) \/ d = Favored(Give(db, fs, t), fs, FALSE)
    BY <1>4, <2>1
  <2>4. Drops(e, {p, t})
    BY <1>4, <2>1, <2>2
  <2> QED BY <1>0, <1>4, <2>1, <2>2, <2>3, <2>4, PassedToNewKeeps
<1> QED BY <1>1, <1>2, <1>3, <1>4

LEMMA ExcludeFolderKeeps ==
  ASSUME IInv, NEW p \in People, NEW x \in Photos, ExcludeFolder(p, x)
  PROVE  IInv'
<1>1. PICK fs : fs = Active(db, p) \cap In(x)
  OBVIOUS
<1>2. PICK e : e = [db EXCEPT !.excl = @ \cup {<<p, x>>}]
  OBVIOUS
<1>3. PICK t : t = db.fresh
  OBVIOUS
<1>4. PICK c : c = Give(e, fs, t)
  OBVIOUS
<1>5. PICK b \in BOOLEAN : b = FALSE
  OBVIOUS
<1>6. PICK d : d = Favored(c, fs, b)
  OBVIOUS
<1>7. PICK people \in SUBSET People : people = {p, t}
  <2>1. t \in People
    BY <1>3 DEF ExcludeFolder, Room
  <2> QED BY <2>1
<1>8. PICK new : new = Add(d, Person(NoName, TRUE, Nowhere))
  OBVIOUS
<1>9. /\ media' = media /\ Exists(db, p) /\ Room(db) /\ t \in People /\ db \in Tables
      /\ Drops(new, people)
  BY <1>1, <1>2, <1>3, <1>4, <1>5, <1>6, <1>7, <1>8, OwnersAre DEF ExcludeFolder, Decides, Room
<1>10. p # t
  BY <1>3, <1>9 DEF IInv, Sound, Aged, People
<1>11. /\ e \in Tables /\ SameRest(db, e) /\ e.face = db.face /\ e.person = db.person /\ e.fresh = db.fresh
       /\ e.excl = db.excl \cup {<<p, x>>}
  <2>1. db.excl \cup {<<p, x>>} \subseteq People \X Photos
    BY <1>9, FieldsAre
  <2> QED BY <1>2, <1>9, <2>1 DEF Tables, SameRest
<1>12. fs \subseteq Live(e) /\ fs \subseteq Live(db) /\ \A f \in fs : db.face[f].who = p
  BY <1>1, <1>11 DEF Active, Of, Live
<1>13. Recast(e, c, fs) /\ \A f \in fs : c.face[f].who = t
  <2>1. e \in Tables
    BY <1>11
  <2> QED BY <2>1, <1>4, <1>9, <1>12, GiveDoes
<1>14. fs \subseteq Live(c) /\ c \in Tables
  BY <1>12, <1>13, Constants DEF Recast, FacesRecast, Live
<1>15. Recast(c, d, fs) /\ \A f \in fs : d.face[f].who = c.face[f].who
  BY <1>6, <1>14, FavoredDoes
<1>16. /\ d \in Tables /\ FacesRecast(db, d, fs) /\ d.person = db.person /\ d.fresh = db.fresh /\ d.excl = db.excl \cup {<<p, x>>}
       /\ \A f \in fs : d.face[f].who = t
  BY <1>11, <1>13, <1>15 DEF Recast, FacesRecast, SameRest
<1>17. Emptied(d)
  <2>1. ASSUME NEW q \in d.excl, q \notin db.excl, NEW f \in Faces,
               db.face[f] # NoFace, db.face[f].who = q[1], PhotoOf[f] = q[2],
               d.face[f] # NoFace, d.face[f].who = q[1], ~d.face[f].ignored
        PROVE  FALSE
    <3>1. q[1] = p /\ q[2] = x
      BY <1>16, <2>1
    <3>2. CASE f \in fs
      BY <1>10, <1>16, <2>1, <3>1, <3>2
    <3>3. CASE f \notin fs
      <4>1. d.face[f] = db.face[f]
        BY <1>16, <3>3 DEF FacesRecast
      <4>2. f \in Active(db, p) \cap In(x)
        BY <2>1, <3>1, <4>1 DEF Active, Of, Live, In
      <4> QED BY <1>1, <3>3, <4>2
    <3> QED BY <3>2, <3>3
  <2> QED BY <2>1 DEF Emptied
<1>18. \A f \in fs : db.face[f].who \in people /\ d.face[f].who \in people /\ d.face[f].who = db.fresh
  BY <1>3, <1>7, <1>12, <1>16
<1> QED BY <1>8, <1>9, <1>12, <1>16, <1>17, <1>18, GivenToNewKeeps

LEMMA IncludeFolderKeeps ==
  ASSUME IInv, NEW p \in People, NEW x \in Photos, IncludeFolder(p, x)
  PROVE  IInv'
<1>1. PICK d : d = [db EXCEPT !.excl = @ \ {<<p, x>>}]
  OBVIOUS
<1>2. PICK people \in SUBSET People : people = {p}
  OBVIOUS
<1>3. media' = media /\ media' \in Media /\ Drops(d, people) /\ db \in Tables
  BY <1>1, <1>2, OwnersAre DEF IncludeFolder, Decides, IInv
<1>4. d \in Tables /\ SameRest(db, d) /\ d.face = db.face /\ d.excl \subseteq db.excl /\ d.person = db.person /\ d.fresh = db.fresh
  BY <1>1, <1>3 DEF Tables, SameRest
<1>5. FacesRecast(db, d, {}) /\ Emptied(d) /\ Retold(db, d) /\ {} \subseteq Live(db)
  BY <1>4, NotEmptied, RetoldSame DEF FacesRecast
<1>6. Ready(d, media, people)
  <2>1. PICK none : none = {}
    OBVIOUS
  <2>2. FacesRecast(db, d, none) /\ none \subseteq Live(db) /\ \A f \in none : FALSE
    BY <1>5, <2>1
  <2>3. d \in Tables /\ Emptied(d) /\ Retold(db, d)
    BY <1>4, <1>5
  <2> QED BY <2>2, <2>3, ReadyAfter
<1> QED BY <1>3, <1>6, AfterDrops

LEMMA LabelSuggestionKeeps ==
  ASSUME IInv, NEW q \in db.open, LabelSuggestion(q)
  PROVE  IInv'
<1>1. PICK s : s = q[1]
  OBVIOUS
<1>2. PICK t : t = q[2]
  OBVIOUS
<1>3. /\ media' = media /\ media' \in Media /\ ~Meet(s, t) /\ Present(s) /\ Exists(db, s) /\ Exists(db, t) /\ db \in Tables /\ Sound(db, media)
  BY <1>1, <1>2, OwnersAre DEF LabelSuggestion, Decides, Present, Current, IInv
<1>4. s \in People /\ t \in People /\ s # t
  BY <1>1, <1>2, <1>3, PairIs
<1>5. ASSUME ~Conflict(db, s, t), Drops(Merged(db, s, t), {s, t}) \/ Drops(Merged(Called(db, t), s, t), {s, t}) PROVE IInv'
  BY <1>3, <1>4, <1>5, MergeKeeps
<1>6. ASSUME NEW p \in People, p # s, p # t, Exists(db, p), ~Conflict(db, s, p), ~Conflict(Merged(db, s, p), t, p),
             Drops(Merged(Merged(db, s, p), t, p), {s, t, p})
      PROVE  IInv'
  <2>1. PICK e : e = Merged(db, s, p)
    OBVIOUS
  <2>2. Sound(e, media) /\ Regrouped(db, e, s, p) /\ e.rejected = db.rejected
    BY <1>3, <1>4, <1>6, <2>1, MergedDoes
  <2>3. PICK n : n = Merged(e, t, p)
    OBVIOUS
  <2>4. Exists(e, t) /\ Exists(e, p)
    BY <1>3, <1>4, <1>6, <2>2 DEF Regrouped
  <2>5. Sound(n, media) /\ Regrouped(e, n, t, p) /\ n.rejected = e.rejected
    BY <1>4, <1>6, <2>2, <2>3, <2>4, MergedDoes
  <2>6. PICK people \in SUBSET People : people = {s, t, p}
    BY <1>4
  <2>7. Drops(n, people) /\ ~Conflict(e, t, p)
    BY <1>6, <2>1, <2>3, <2>6
  <2>8. /\ n.refs = db.refs /\ n.open \subseteq db.open /\ n.rebuild = db.rebuild
        /\ \A f \in Faces : IF db.face[f] # NoFace /\ db.face[f].who \in {s, t}
                            THEN n.face[f] # NoFace /\ n.face[f].who = p /\ n.face[f].review = db.face[f].review
                            ELSE n.face[f] = db.face[f]
        /\ n.excl = Barred(e, t, p) /\ e.excl = Barred(db, s, p)
        /\ \A f \in Faces : db.face[f] # NoFace /\ db.face[f].who = p => e.face[f] # NoFace /\ e.face[f].who = p
    <3>1. /\ e.refs = db.refs /\ e.open \subseteq db.open /\ e.rebuild = db.rebuild
          /\ \A f \in Faces : IF db.face[f] # NoFace /\ db.face[f].who = s
                              THEN e.face[f] # NoFace /\ e.face[f].who = p /\ e.face[f].review = db.face[f].review
                              ELSE e.face[f] = db.face[f]
          /\ e.excl = Barred(db, s, p)
      BY <2>2, Constants DEF Regrouped
    <3>2. /\ n.refs = e.refs /\ n.open \subseteq e.open /\ n.rebuild = e.rebuild
          /\ \A f \in Faces : IF e.face[f] # NoFace /\ e.face[f].who = t
                              THEN n.face[f] # NoFace /\ n.face[f].who = p /\ n.face[f].review = e.face[f].review
                              ELSE n.face[f] = e.face[f]
          /\ n.excl = Barred(e, t, p)
      BY <2>5, Constants DEF Regrouped
    <3>3. ASSUME NEW f \in Faces
          PROVE  IF db.face[f] # NoFace /\ db.face[f].who \in {s, t}
                 THEN n.face[f] # NoFace /\ n.face[f].who = p /\ n.face[f].review = db.face[f].review
                 ELSE n.face[f] = db.face[f]
      BY <1>4, <1>6, <3>1, <3>2
    <3> QED BY <3>1, <3>2, <3>3, <1>4, <1>6
  <2>9. Tracked(n, people)
    <3>1. ASSUME NEW f \in Faces, db.face[f] # NoFace, db.face[f].who \in {s, t}
          PROVE  db.face[f] # NoFace /\ db.face[f].who \in people /\ n.face[f].who \in people
      BY <2>6, <2>8, <3>1
    <3>2. ASSUME NEW f \in Faces, ~(db.face[f] # NoFace /\ db.face[f].who \in {s, t}) PROVE n.face[f] = db.face[f]
      BY <2>8, <3>2
    <3> QED BY <2>8, <3>1, <3>2 DEF Tracked, Usable
  <2>10. Emptied(n)
    <3>1. ASSUME NEW o \in n.excl, o \notin db.excl, NEW f \in Faces,
                 db.face[f] # NoFace, db.face[f].who = o[1], PhotoOf[f] = o[2]
          PROVE  FALSE
      <4>1. CASE o \in e.excl
        <5>0. o \in Barred(db, s, p) /\ o \notin db.excl
          BY <2>8, <3>1, <4>1
        <5>1. PICK x \in Photos : <<s, x>> \in db.excl /\ o = <<p, x>>
          BY <5>0 DEF Barred
        <5>2. f \in Of(db, p) \cap In(x)
          BY <3>1, <5>1 DEF Of, Live, In
        <5> QED BY <1>6, <5>1, <5>2 DEF Conflict
      <4>2. CASE o \notin e.excl
        <5>0. o \in Barred(e, t, p) /\ o \notin e.excl
          BY <2>8, <3>1, <4>2
        <5>1. PICK x \in Photos : <<t, x>> \in e.excl /\ o = <<p, x>>
          BY <5>0 DEF Barred
        <5>2. f \in Of(e, p) \cap In(x)
          BY <2>8, <3>1, <5>1 DEF Of, Live, In
        <5> QED BY <2>7, <5>1, <5>2 DEF Conflict
      <4> QED BY <4>1, <4>2
    <3> QED BY <3>1 DEF Emptied
  <2>11. Ready(n, media, people)
    <3>1. Distinct(n)
      BY <2>2, <2>5, StayDistinct
    <3> QED BY <2>5, <2>8, <2>9, <2>10, <3>1 DEF Ready
  <2> QED BY <1>3, <2>7, <2>11, AfterDrops
<1>7. ASSUME Write([db EXCEPT !.open = @ \ {q}, !.rejected = @ \cup {q}], {}), graph' = graph, busy' = busy PROVE IInv'
  <2>1. PICK d : d = [db EXCEPT !.open = @ \ {q}, !.rejected = @ \cup {q}]
    OBVIOUS
  <2>2. db.open \subseteq People \X People /\ db.rejected \subseteq People \X People
    BY <1>3, FieldsAre
  <2>3. /\ d \in Tables /\ d.face = db.face /\ d.kept = db.kept /\ d.person = db.person /\ d.hidden = db.hidden
        /\ d.excl = db.excl /\ d.refs = db.refs /\ d.open \subseteq db.open /\ d.rebuild = db.rebuild /\ d.fresh = db.fresh
    BY <1>3, <2>1, <2>2 DEF Tables
  <2>4. Sound(d, media) /\ \A f \in Faces : Usable(d, f) = Usable(db, f)
    BY <2>3, SideStays
  <2>5. PICK none \in SUBSET People : none = {}
    OBVIOUS
  <2>6. Tracked(d, none) /\ Emptied(d)
    BY <2>3, <2>4, NotEmptied DEF Tracked
  <2>7. Ready(d, media, none) /\ Write(d, none)
    <3>1. d.rejected = db.rejected \cup {q}
      BY <1>3, <2>1, FieldsAre
    <3>2. Distinct(d)
      BY <1>1, <1>2, <1>4, <3>1, StayDistinct DEF Distinct
    <3> QED BY <1>7, <2>1, <2>3, <2>4, <2>5, <2>6, <3>2 DEF Ready
  <2>8. Sound(db', media) /\ Fits(db') /\ SeenFits(seen', db')
    BY <2>7, AfterWrite
  <2>9. db'.refs = db.refs
    <3>1. ASSUME NEW f \in Faces PROVE db'.refs[f] = db.refs[f]
      <4>1. LET old == IF d.face[f] = NoFace \/ ReviewTurned(db, d, f) THEN NoOne ELSE d.refs[f] IN db'.refs[f] = old
        BY <2>3, <2>5, <2>7, WriteDoes
      <4>2. db.face[f] = NoFace => db.refs[f] = NoOne
        BY DEF IInv, Fits, RefsFit, Usable
      <4> QED BY <2>3, <4>1, <4>2 DEF ReviewTurned
    <3>2. db'.refs \in Graphs /\ db.refs \in Graphs
      BY <1>3, <2>8, FieldsAre DEF Sound
    <3> QED BY <3>1, <3>2 DEF Graphs
  <2>10. GraphFits(graph', busy', db'.refs)
    BY <1>7, <2>9 DEF IInv
  <2> QED BY <1>3, <2>8, <2>10 DEF IInv
<1> QED
  <2>1. \/ ~Conflict(db, s, t) /\ Drops(Merged(db, s, t), {s, t})
        \/ ~Conflict(db, s, t) /\ Drops(Merged(Called(db, t), s, t), {s, t})
        \/ \E p \in People \ {s, t} : /\ Exists(db, p) /\ ~Conflict(db, s, p) /\ ~Conflict(Merged(db, s, p), t, p)
                                      /\ Drops(Merged(Merged(db, s, p), t, p), {s, t, p})
        \/ Write([db EXCEPT !.open = @ \ {q}, !.rejected = @ \cup {q}], {}) /\ graph' = graph /\ busy' = busy
    BY <1>1, <1>2 DEF LabelSuggestion, Current, Present
  <2> QED BY <1>5, <1>6, <1>7, <2>1

-----------------------------------------------------------------------------
(* The matcher and a pass over the saved faces                              *)

LEMMA GiveUpKeeps ==
  ASSUME IInv, GiveUp
  PROVE  IInv'
<1>1. db' = db /\ media' = media /\ graph' = graph /\ seen' = seen /\ busy' = Idle /\ busy.kind # "sync"
  BY DEF GiveUp
<1>2. GraphFits(graph', busy', db'.refs)
  BY <1>1 DEF IInv, GraphFits, Works
<1> QED BY <1>1, <1>2 DEF IInv

LEMMA SyncGraphKeeps ==
  ASSUME IInv, SyncGraph
  PROVE  IInv'
<1>1. /\ db' = db /\ media' = media /\ seen' = seen /\ busy' = Idle /\ busy.kind = "sync"
      /\ graph' = IF graph = NoGraph THEN NoGraph ELSE Refreshed(busy.people)
      /\ GraphFits(graph, busy, db.refs) /\ db.refs \in Graphs
  BY OwnersAre, FieldsAre DEF SyncGraph, IInv
<1>2. GraphFits(graph', busy', db'.refs)
  <2>1. CASE graph = NoGraph
    BY <1>1, <2>1 DEF GraphFits, Works
  <2>2. CASE graph # NoGraph
    <3>1. /\ graph \in Graphs
          /\ \A f \in Faces : db.refs[f] \in busy.people \/ db.refs[f] = (IF graph[f] \in busy.people THEN NoOne ELSE graph[f])
      BY <1>1, <2>2 DEF GraphFits
    <3>2. \A f \in Faces : Refreshed(busy.people)[f] = db.refs[f]
      BY <3>1 DEF Refreshed
    <3>3. Refreshed(busy.people) = db.refs
      <4> DEFINE g == Refreshed(busy.people)
      <4>1. g = [f \in Faces |-> g[f]]
        BY DEF Refreshed
      <4>2. db.refs = [f \in Faces |-> db.refs[f]]
        BY <1>1 DEF Graphs
      <4> HIDE DEF g
      <4>3. [f \in Faces |-> g[f]] = [f \in Faces |-> db.refs[f]]
        BY <3>2 DEF g
      <4> QED BY <4>1, <4>2, <4>3 DEF g
    <3> QED BY <1>1, <2>2, <3>3 DEF GraphFits, Works, Idle
  <2> QED BY <2>1, <2>2
<1> QED BY <1>1, <1>2 DEF IInv

\* Selecting the references anew changes nothing else.
LEMMA SelectedDoes ==
  ASSUME IInv, NEW d, d = Selected(db)
  PROVE  /\ d \in Tables /\ d.face = db.face /\ d.kept = db.kept /\ d.person = db.person /\ d.hidden = db.hidden
         /\ d.excl = db.excl /\ d.open = db.open /\ d.rejected = db.rejected /\ d.fresh = db.fresh
         /\ RefsFit(d)
<1>1. db \in Tables /\ RefsFit(db)
  BY OwnersAre DEF IInv, Fits
<1>2. CASE ~db.rebuild
  BY <1>1, <1>2 DEF Selected
<1>3. CASE db.rebuild
  <2>1. PICK c : c = Refresh(db, People)
    OBVIOUS
  <2>2. /\ c \in Tables
        /\ c.face = db.face /\ c.kept = db.kept /\ c.person = db.person /\ c.hidden = db.hidden /\ c.fresh = db.fresh
        /\ c.excl = db.excl /\ c.open = db.open /\ c.rejected = db.rejected
        /\ \A f \in Faces : c.refs[f] = IF Usable(db, f) /\ db.face[f].who \in People THEN db.face[f].who
                                        ELSE IF db.refs[f] \in People THEN NoOne ELSE db.refs[f]
    BY <1>1, <2>1, RefreshDoes
  <2>3. d = [c EXCEPT !.rebuild = FALSE]
    BY <1>3, <2>1 DEF Selected
  <2>4. /\ d \in Tables /\ d.face = c.face /\ d.kept = c.kept /\ d.person = c.person /\ d.hidden = c.hidden
        /\ d.excl = c.excl /\ d.open = c.open /\ d.rejected = c.rejected /\ d.fresh = c.fresh /\ d.refs = c.refs
    BY <2>2, <2>3 DEF Tables
  <2>5. \A f \in Faces : Usable(d, f) = Usable(db, f)
    BY <2>2, <2>4 DEF Usable
  <2>6. \A f \in Faces : /\ Usable(db, f) => db.face[f].who \in People
                         /\ db.refs[f] \in People \cup {NoOne}
    BY <1>1, FieldsAre DEF Usable, MaybeFace, FaceRows, Graphs
  <2>7. RefsFit(d)
    BY <2>2, <2>4, <2>5, <2>6, Constants DEF RefsFit
  <2> QED BY <2>2, <2>4, <2>7
<1> QED BY <1>1, <1>2, <1>3 DEF IInv, Sound, Tables

LEMMA BeginKeeps ==
  ASSUME IInv, NEW work \in Works, work.kind # "sync", Begin(work)
  PROVE  IInv'
<1>1. db' = Selected(db) /\ graph' = db'.refs /\ busy' = work /\ media' = media /\ seen' = seen /\ db \in Tables /\ media \in Media
  BY OwnersAre DEF Begin, IInv
<1>2. /\ db' \in Tables /\ db'.face = db.face /\ db'.kept = db.kept /\ db'.person = db.person /\ db'.hidden = db.hidden
      /\ db'.excl = db.excl /\ db'.open = db.open /\ db'.rejected = db.rejected /\ db'.fresh = db.fresh
      /\ RefsFit(db')
  BY <1>1, SelectedDoes
<1>3. /\ Sound(db', media) /\ FoldersFit(db') /\ SeenFits(seen, db')
      /\ \A p \in People : Exists(db', p) = Exists(db, p) /\ Photographed(db', p) = Photographed(db, p)
  BY <1>2, SideStays
<1>4. PairsFit(db')
  <2>1. \A q \in db.open \cup db.rejected : q[1] \in People /\ q[2] \in People
    BY <1>1, FieldsAre
  <2>2. PairsFit(db)
    BY DEF IInv, Fits
  <2>3. \A q \in db'.open \cup db'.rejected : q[1] # q[2] /\ Exists(db', q[1]) /\ Exists(db', q[2])
    BY <1>2, <1>3, <2>1, <2>2 DEF PairsFit
  <2>4. \A q \in db'.open : ~MeetIn(db', q[1], q[2])
    BY <1>2, <1>3, <2>1, <2>2 DEF PairsFit, MeetIn
  <2> QED BY <2>3, <2>4 DEF PairsFit
<1>5. GraphFits(graph', busy', db'.refs)
  <2>1. graph' \in Graphs /\ graph' # NoGraph
    BY <1>1, <1>2, FieldsAre, Constants
  <2> QED BY <1>1, <2>1 DEF GraphFits
<1> QED BY <1>1, <1>2, <1>3, <1>4, <1>5 DEF IInv, Fits

LEMMA BeginCommitKeeps ==
  ASSUME IInv, NEW x \in Photos, BeginCommit(x)
  PROVE  IInv'
<1>1. PICK work : work = [kind |-> "commit", photo |-> x]
  OBVIOUS
<1>2. work \in Works /\ work.kind # "sync"
  BY <1>1 DEF Works
<1>3. Begin(work)
  BY <1>1 DEF BeginCommit
<1> QED BY <1>2, <1>3, BeginKeeps

LEMMA BeginBatchKeeps ==
  ASSUME IInv, NEW f \in Faces, BeginBatch(f)
  PROVE  IInv'
<1>1. PICK work : work = [kind |-> "batch", face |-> f]
  OBVIOUS
<1>2. work \in Works /\ work.kind # "sync"
  BY <1>1 DEF Works
<1>3. Begin(work)
  BY <1>1 DEF BeginBatch
<1> QED BY <1>2, <1>3, BeginKeeps

\* Pairs that were rejected, once a group has taken another one's place
Keeper(p, s, t) == IF p = s THEN t ELSE p
LEMMA MovedDistinct ==
  ASSUME IInv, NEW s \in People, NEW t \in People, ~Rejected(db, s, t), NEW e, e.rejected = db.rejected \cup Moved(db, s, t)
  PROVE  /\ Distinct(e)
         /\ \A q \in db.rejected : <<Keeper(q[1], s, t), Keeper(q[2], s, t)>> \in e.rejected
<1>1. \A q \in db.rejected : q = <<q[1], q[2]>> /\ q[1] # q[2] /\ q \notin {<<s, t>>, <<t, s>>}
  <2>1. db.rejected \subseteq People \X People /\ \A q \in db.rejected : q[1] # q[2]
    BY OwnersAre, FieldsAre DEF IInv, Fits, PairsFit
  <2>2. \A q \in People \X People : q = <<q[1], q[2]>>
    OBVIOUS
  <2> QED BY <2>1, <2>2 DEF Rejected
<1>2. \A q \in db.rejected : s \in {q[1], q[2]} => <<Keeper(q[1], s, t), Keeper(q[2], s, t)>> \in Moved(db, s, t)
  BY DEF Moved, Keeper
<1>3. \A q \in db.rejected : s \notin {q[1], q[2]} => q = <<Keeper(q[1], s, t), Keeper(q[2], s, t)>>
  BY <1>1 DEF Keeper
<1>4. \A o \in Moved(db, s, t) : \E q \in db.rejected : o[1] = Keeper(q[1], s, t) /\ o[2] = Keeper(q[2], s, t)
  BY DEF Moved, Keeper
<1>5. \A q \in db.rejected : Keeper(q[1], s, t) # Keeper(q[2], s, t)
  BY <1>1 DEF Keeper
<1> QED BY <1>1, <1>2, <1>3, <1>4, <1>5 DEF Distinct

LEMMA ReconcileGroupDoes ==
  ASSUME IInv, NEW f \in Faces, ReconcileGroup(f)
  PROVE  \E s, t \in People, people \in SUBSET People : \E e :
            /\ Ready(e, media, people) /\ Dropped(e, people) /\ Syncs(e, people)
            /\ ~Vetoed(s, t) /\ (\A g \in Of(db, s) : Undecided(g)) /\ Regrouped(db, e, s, t) /\ Exists(db, t)
            /\ \A q \in db.rejected : <<Keeper(q[1], s, t), Keeper(q[2], s, t)>> \in e.rejected
<1>1. PICK s : s = db.face[f].who
  OBVIOUS
<1>2. PICK t \in People : Matchable(db, t) /\ ~Vetoed(s, t) /\ Syncs(MergedAutomatically(db, s, t), {s, t})
  BY <1>1 DEF ReconcileGroup
<1>3. f \in Live(db) /\ Sound(db, media) /\ \A g \in Of(db, s) : Undecided(g)
  BY <1>1 DEF ReconcileGroup, Turn, Undecided, Live, IInv
<1>4. s \in People /\ Exists(db, s)
  BY <1>1, <1>3, OwnersAre
<1>5. Exists(db, t) /\ s # t /\ ~Conflict(db, s, t) /\ ~Rejected(db, s, t)
  BY <1>2 DEF Matchable, Vetoed
<1>6. PICK e : e = MergedAutomatically(db, s, t)
  OBVIOUS
<1>7. Sound(e, media) /\ Regrouped(db, e, s, t) /\ e.rejected = db.rejected \cup Moved(db, s, t)
  BY <1>3, <1>4, <1>5, <1>6, MergedAutomaticallyDoes
<1>8. PICK people \in SUBSET People : people = {s, t}
  BY <1>4
<1>9. /\ Distinct(e) /\ \A q \in db.rejected : <<Keeper(q[1], s, t), Keeper(q[2], s, t)>> \in e.rejected
  BY <1>4, <1>5, <1>7, MovedDistinct
<1>10. Ready(e, media, people) /\ Dropped(e, people)
  BY <1>4, <1>5, <1>7, <1>8, <1>9, RegroupedReady
<1>11. Syncs(e, people)
  BY <1>2, <1>6, <1>8
<1> QED BY <1>2, <1>3, <1>4, <1>5, <1>7, <1>9, <1>10, <1>11

LEMMA ReconcileGroupKeeps ==
  ASSUME IInv, NEW f \in Faces, ReconcileGroup(f)
  PROVE  IInv'
<1>1. media' = media /\ media' \in Media /\ busy.kind # "sync"
  BY DEF ReconcileGroup, Turn, IInv
<1>2. PICK e, people : people \in SUBSET People /\ Ready(e, media, people) /\ Dropped(e, people) /\ Syncs(e, people)
  BY ReconcileGroupDoes
<1> QED BY <1>1, <1>2, AfterSyncs

LEMMA ReconcileFaceKeeps ==
  ASSUME IInv, NEW f \in Faces, ReconcileFace(f)
  PROVE  IInv'
<1>1. PICK s : s = db.face[f].who
  OBVIOUS
<1>2. PICK t \in People \ {s} : Matchable(db, t) /\ Syncs([db EXCEPT !.face[f].who = t], {s, t})
  BY <1>1 DEF ReconcileFace
<1>3. media' = media /\ media' \in Media /\ busy.kind # "sync" /\ f \in Live(db) /\ db \in Tables
  BY OwnersAre DEF ReconcileFace, Turn, Undecided, Live, IInv
<1>4. s \in People /\ Exists(db, s) /\ db.face[f] \in FaceRows
  BY <1>1, <1>3, OwnersAre
<1>5. PICK r : r = [db.face[f] EXCEPT !.who = t]
  OBVIOUS
<1>6. r \in FaceRows /\ r.who = t /\ r.review = db.face[f].review /\ r.kind = db.face[f].kind
  BY <1>4, <1>5 DEF FaceRows
<1>7. PICK d : d = PutRow(db, f, r)
  OBVIOUS
<1>8. d = [db EXCEPT !.face[f].who = t]
  BY <1>5, <1>7 DEF PutRow
<1>9. /\ d \in Tables /\ SameRest(db, d) /\ d.person = db.person /\ d.excl = db.excl /\ d.fresh = db.fresh
      /\ d.face[f] = r /\ \A g \in Faces : g # f => d.face[g] = db.face[g]
  BY <1>3, <1>6, <1>7, PutRowDoes DEF MaybeFace
<1>10. PICK fs : fs = {f}
  OBVIOUS
<1>11. FacesRecast(db, d, fs) /\ Emptied(d) /\ fs \subseteq Live(db)
  BY <1>3, <1>6, <1>9, <1>10, NotEmptied DEF FacesRecast
<1>12. PICK people \in SUBSET People : people = {s, t}
  BY <1>4
<1>13. \A g \in fs : db.face[g].who \in people /\ d.face[g].who \in people /\ Exists(db, d.face[g].who)
  BY <1>1, <1>2, <1>6, <1>9, <1>10, <1>12 DEF Matchable
<1>14. Syncs(d, people)
  BY <1>2, <1>8, <1>12
<1> QED BY <1>3, <1>9, <1>11, <1>13, <1>14, GivenKeeps

LEMMA SuggestMergeKeeps ==
  ASSUME IInv, NEW f \in Faces, SuggestMerge(f)
  PROVE  IInv'
<1>1. PICK s : s = db.face[f].who
  OBVIOUS
<1>2. PICK t \in People \ {s} : /\ Matchable(db, t) /\ ~Meet(s, t)
                                 /\ db' = [db EXCEPT !.open = @ \cup {IF ~Named(db, t) /\ t < s THEN <<t, s>> ELSE <<s, t>>}]
  BY <1>1 DEF SuggestMerge
<1>3. /\ media' = media /\ busy.kind = "batch" /\ busy' = Idle /\ graph' = graph /\ seen' = seen /\ f \in Live(db) /\ db \in Tables
      /\ media \in Media
  BY OwnersAre DEF SuggestMerge, Turn, Undecided, Live, IInv
<1>4. s \in People /\ Exists(db, s) /\ Exists(db, t)
  BY <1>1, <1>2, <1>3, OwnersAre DEF Matchable
<1>5. PICK q : q = IF ~Named(db, t) /\ t < s THEN <<t, s>> ELSE <<s, t>>
  OBVIOUS
<1>6. q \in People \X People /\ q[1] # q[2] /\ Exists(db, q[1]) /\ Exists(db, q[2]) /\ ~MeetIn(db, q[1], q[2])
  BY <1>2, <1>4, <1>5 DEF Meet, MeetIn
<1>7. /\ db' \in Tables /\ db'.face = db.face /\ db'.kept = db.kept /\ db'.person = db.person /\ db'.hidden = db.hidden
      /\ db'.excl = db.excl /\ db'.refs = db.refs /\ db'.open = db.open \cup {q} /\ db'.rejected = db.rejected /\ db'.rebuild = db.rebuild
      /\ db'.fresh = db.fresh
  BY <1>2, <1>3, <1>5, <1>6 DEF Tables
<1>8. /\ Sound(db', media) /\ FoldersFit(db') /\ SeenFits(seen, db')
      /\ \A g \in Faces : Usable(db', g) = Usable(db, g)
      /\ \A p \in People : Exists(db', p) = Exists(db, p) /\ Photographed(db', p) = Photographed(db, p)
  BY <1>7, SideStays
<1>9. RefsFit(db')
  BY <1>7, <1>8 DEF IInv, Fits, RefsFit
<1>10. PairsFit(db')
  <2>1. \A o \in db.open \cup db.rejected : o[1] \in People /\ o[2] \in People
    BY <1>3, FieldsAre
  <2>2. PairsFit(db)
    BY DEF IInv, Fits
  <2>3. \A o \in db'.open \cup db'.rejected : o[1] # o[2] /\ Exists(db', o[1]) /\ Exists(db', o[2])
    BY <1>6, <1>7, <1>8, <2>1, <2>2 DEF PairsFit
  <2>4. \A o \in db'.open : ~MeetIn(db', o[1], o[2])
    BY <1>6, <1>7, <1>8, <2>1, <2>2 DEF PairsFit, MeetIn
  <2> QED BY <2>3, <2>4 DEF PairsFit
<1>11. GraphFits(graph', busy', db'.refs)
  BY <1>3, <1>7 DEF IInv, GraphFits, Works
<1> QED BY <1>3, <1>7, <1>8, <1>9, <1>10, <1>11 DEF IInv, Fits

-----------------------------------------------------------------------------
(* Photos become private, go missing, come back and change                  *)

LEMMA AwayDoes ==
  ASSUME NEW d \in Tables, NEW x \in Photos, NEW e, e = Away(d, x)
  PROVE  /\ e \in Tables /\ e.person = d.person /\ e.hidden = d.hidden /\ e.excl = d.excl /\ e.refs = d.refs /\ e.open = d.open
         /\ e.rejected = d.rejected /\ e.rebuild = d.rebuild /\ e.fresh = d.fresh
         /\ \A f \in Faces : /\ e.face[f] = IF PhotoOf[f] = x THEN NoFace ELSE d.face[f]
                             /\ e.kept[f] = IF PhotoOf[f] = x /\ d.face[f] # NoFace THEN d.face[f] ELSE d.kept[f]
<1> DEFINE g == [f \in Faces |-> IF f \in In(x) THEN NoFace ELSE d.face[f]]
           k == [f \in Faces |-> IF f \in In(x) /\ d.face[f] # NoFace THEN d.face[f] ELSE d.kept[f]]
<1>1. g \in [Faces -> MaybeFace] /\ k \in [Faces -> MaybeFace]
  BY FieldsAre DEF MaybeFace
<1>2. e = [d EXCEPT !.kept = k, !.face = g]
  BY DEF Away
<1>3. \A f \in Faces : /\ g[f] = IF PhotoOf[f] = x THEN NoFace ELSE d.face[f]
                       /\ k[f] = IF PhotoOf[f] = x /\ d.face[f] # NoFace THEN d.face[f] ELSE d.kept[f]
  BY DEF In
<1> HIDE DEF g, k
<1> QED BY <1>1, <1>2, <1>3 DEF Tables

LEMMA BackDoes ==
  ASSUME NEW d \in Tables, NEW x \in Photos, NEW e, e = Back(d, x)
  PROVE  /\ e \in Tables /\ e.person = d.person /\ e.hidden = d.hidden /\ e.excl = d.excl /\ e.refs = d.refs /\ e.open = d.open
         /\ e.rejected = d.rejected /\ e.rebuild = d.rebuild /\ e.fresh = d.fresh
         /\ \A f \in Faces : /\ e.face[f] = IF PhotoOf[f] = x THEN d.kept[f] ELSE d.face[f]
                             /\ e.kept[f] = IF PhotoOf[f] = x THEN NoFace ELSE d.kept[f]
<1> DEFINE g == [f \in Faces |-> IF f \in In(x) THEN d.kept[f] ELSE d.face[f]]
           k == [f \in Faces |-> IF f \in In(x) THEN NoFace ELSE d.kept[f]]
<1>1. g \in [Faces -> MaybeFace] /\ k \in [Faces -> MaybeFace]
  BY FieldsAre DEF MaybeFace
<1>2. e = [d EXCEPT !.face = g, !.kept = k]
  BY DEF Back
<1>3. \A f \in Faces : /\ g[f] = IF PhotoOf[f] = x THEN d.kept[f] ELSE d.face[f]
                       /\ k[f] = IF PhotoOf[f] = x THEN NoFace ELSE d.kept[f]
  BY DEF In
<1> HIDE DEF g, k
<1> QED BY <1>1, <1>2, <1>3 DEF Tables

\* What the tables are, as the actions of photos need it.
LEMMA RowsAre ==
  ASSUME IInv
  PROVE  /\ db \in Tables /\ media \in Media
         /\ \A f \in Faces : /\ PhotoOf[f] \in Photos
                             /\ db.face[f] # NoFace => /\ media[PhotoOf[f]] = "public" /\ db.kept[f] = NoFace /\ db.face[f] \in FaceRows
                                                       /\ db.face[f].who \in People /\ Exists(db, db.face[f].who)
                             /\ db.kept[f] # NoFace => /\ media[PhotoOf[f]] \in Private \cup Missing /\ db.kept[f] \in FaceRows
                                                       /\ db.kept[f].who \in People /\ Exists(db, db.kept[f].who)
         /\ \A p \in People : /\ Exists(db, p) => db.person[p] \in PersonRows
                              /\ Named(db, p) /\ ~db.person[p].manual /\ db.person[p].from # Nowhere =>
                                     media[db.person[p].from] \notin Veiled \cup {"gone"}
                              /\ db.hidden[p] # Nowhere => Exists(db, p)
                              /\ db.hidden[p] # Nowhere /\ ~Named(db, p) /\ ~db.person[p].manual =>
                                     db.person[p].from \in {Nowhere, db.hidden[p]}
<1>1. db \in Tables /\ media \in Media /\ Owned(db) /\ Placed(db, media) /\ Sourced(db, media) /\ Remembered(db)
  BY DEF IInv, Sound
<1>2. \A f \in Faces : /\ PhotoOf[f] \in Photos
                       /\ db.face[f] # NoFace => db.face[f] \in FaceRows /\ db.face[f].who \in People
                       /\ db.kept[f] # NoFace => db.kept[f] \in FaceRows /\ db.kept[f].who \in People
  BY <1>1, FieldsAre, Constants DEF MaybeFace, FaceRows
<1>3. \A p \in People : Exists(db, p) => db.person[p] \in PersonRows
  BY <1>1, FieldsAre DEF Exists
<1> QED BY <1>1, <1>2, <1>3 DEF Owned, Placed, Sourced, Remembered

LEMMA RetainPhotoKeeps ==
  ASSUME IInv, NEW x \in Photos, RetainPhoto(x)
  PROVE  IInv'
<1>1. PICK d : d = Away(db, x)
  OBVIOUS
<1>2. /\ media[x] \in {"public"} \cup Private /\ Aside(d)
      /\ media' = [media EXCEPT ![x] = CASE @ = "public" -> "missing" [] @ = "private" -> "lost" [] @ = "returned" -> "moved"]
  BY <1>1 DEF RetainPhoto
<1>3. /\ media' \in Media /\ media'[x] \in Missing /\ \A y \in Photos : y # x => media'[y] = media[y]
      /\ media'[x] \in Veiled => media[x] \in Veiled
  BY <1>2, RowsAre DEF Media, Private, Missing, Veiled
<1>4. /\ d \in Tables /\ d.person = db.person /\ d.hidden = db.hidden /\ d.excl = db.excl /\ d.refs = db.refs /\ d.rejected = db.rejected /\ d.open = db.open
      /\ d.rebuild = db.rebuild /\ d.fresh = db.fresh
      /\ \A f \in Faces : /\ d.face[f] = IF PhotoOf[f] = x THEN NoFace ELSE db.face[f]
                          /\ d.kept[f] = IF PhotoOf[f] = x /\ db.face[f] # NoFace THEN db.face[f] ELSE db.kept[f]
  BY <1>1, AwayDoes, RowsAre
<1>5. Owned(d) /\ Placed(d, media')
  BY <1>2, <1>3, <1>4, RowsAre DEF Owned, Placed, Exists
<1>6. Sourced(d, media')
  <2>1. ASSUME NEW p \in People, Named(d, p), ~d.person[p].manual, d.person[p].from # Nowhere
        PROVE  media'[d.person[p].from] \notin Veiled \cup {"gone"}
    <3>1. Named(db, p) /\ Exists(db, p) /\ d.person[p].from = db.person[p].from
      BY <1>4, <2>1 DEF Named, Exists
    <3>2. db.person[p].from \in Photos
      BY <1>4, <2>1, <3>1, RowsAre DEF PersonRows
    <3> QED BY <1>3, <1>4, <2>1, <3>1, <3>2, RowsAre
  <2> QED BY <2>1 DEF Sourced
<1>7. Remembered(d) /\ Aged(d)
  BY <1>4, RowsAre DEF Remembered, Aged, Named, Exists, IInv, Sound
<1>8. Tracked(d, {}) /\ Emptied(d)
  BY <1>4, NotEmptied DEF Tracked, Usable
<1>9. Ready(d, media', {})
  BY <1>4, <1>5, <1>6, <1>7, <1>8, StayDistinct DEF Ready, Sound
<1> QED BY <1>2, <1>3, <1>9, AfterAside

LEMMA RestorePublicKeeps ==
  ASSUME IInv, NEW x \in Photos, RestorePhoto(x), media[x] = "missing"
  PROVE  IInv'
<1>1. PICK d : d = Back(db, x)
  OBVIOUS
<1>0. PICK people : people = {db.kept[f].who : f \in Kept(db, x)}
  OBVIOUS
<1>2. media[x] = "missing" /\ media' = [media EXCEPT ![x] = "public"] /\ Write(d, people) /\ graph' = NoGraph /\ busy' = busy
  BY <1>0, <1>1 DEF RestorePhoto
<1>3. /\ media' \in Media /\ media'[x] = "public" /\ \A y \in Photos : y # x => media'[y] = media[y]
  BY <1>2, RowsAre DEF Media
<1>4. /\ d \in Tables /\ d.person = db.person /\ d.hidden = db.hidden /\ d.excl = db.excl /\ d.refs = db.refs /\ d.rejected = db.rejected /\ d.open = db.open
      /\ d.rebuild = db.rebuild /\ d.fresh = db.fresh
      /\ \A f \in Faces : /\ d.face[f] = IF PhotoOf[f] = x THEN db.kept[f] ELSE db.face[f]
                          /\ d.kept[f] = IF PhotoOf[f] = x THEN NoFace ELSE db.kept[f]
  BY <1>1, BackDoes, RowsAre
<1>5. people \in SUBSET People /\ \A f \in Faces : PhotoOf[f] = x /\ db.kept[f] # NoFace => db.kept[f].who \in people
  BY <1>0, RowsAre DEF Kept, In
<1>6. Owned(d) /\ Placed(d, media')
  BY <1>2, <1>3, <1>4, RowsAre DEF Owned, Placed, Exists
<1>7. Sourced(d, media')
  <2>1. ASSUME NEW p \in People, Named(d, p), ~d.person[p].manual, d.person[p].from # Nowhere
        PROVE  media'[d.person[p].from] \notin Veiled \cup {"gone"}
    <3>1. Named(db, p) /\ Exists(db, p) /\ d.person[p].from = db.person[p].from
      BY <1>4, <2>1 DEF Named, Exists
    <3>2. db.person[p].from \in Photos
      BY <1>4, <2>1, <3>1, RowsAre DEF PersonRows
    <3> QED BY <1>3, <1>4, <2>1, <3>1, <3>2, RowsAre
  <2> QED BY <2>1 DEF Sourced
<1>8. Remembered(d) /\ Aged(d)
  BY <1>4, RowsAre DEF Remembered, Aged, Named, Exists, IInv, Sound
<1>9. Tracked(d, people)
  <2>1. ASSUME NEW f \in Faces, PhotoOf[f] = x
        PROVE  db.face[f] = NoFace /\ (Usable(d, f) => d.face[f].who \in people)
    BY <1>2, <1>4, <1>5, <2>1, RowsAre DEF Usable
  <2>2. ASSUME NEW f \in Faces, PhotoOf[f] # x PROVE d.face[f] = db.face[f]
    BY <1>4, <2>2
  <2> QED BY <1>4, <2>1, <2>2 DEF Tracked, Usable
<1>10. Ready(d, media', people)
  BY <1>4, <1>6, <1>7, <1>8, <1>9, NotEmptied, StayDistinct DEF Ready, Sound
<1>11. Sound(db', media') /\ Fits(db') /\ SeenFits(seen', db')
  BY <1>2, <1>5, <1>10, AfterWrite
<1>12. GraphFits(graph', busy', db'.refs)
  BY <1>2 DEF GraphFits, IInv
<1> QED BY <1>3, <1>11, <1>12 DEF IInv

\* A private photo takes nothing with it into the index.
LEMMA RestorePrivateKeeps ==
  ASSUME IInv, NEW x \in Photos, RestorePhoto(x), media[x] # "missing"
  PROVE  IInv'
<1>1. /\ media[x] \in {"lost", "moved"} /\ media' = [media EXCEPT ![x] = IF @ = "lost" THEN "private" ELSE "returned"]
      /\ db' = db /\ seen' = seen /\ graph' = NoGraph /\ busy' = busy
  BY DEF RestorePhoto
<1>2. /\ media' \in Media /\ media'[x] \in Private /\ (media'[x] \in Veiled => media[x] \in Veiled)
      /\ \A y \in Photos : y # x => media'[y] = media[y]
  BY <1>1, RowsAre DEF Media, Private, Veiled
<1>3. Placed(db, media')
  <2>1. ASSUME NEW f \in Faces
        PROVE  /\ db.face[f] # NoFace => media'[PhotoOf[f]] = "public" /\ db.kept[f] = NoFace
               /\ db.kept[f] # NoFace => media'[PhotoOf[f]] \in Private \cup Missing
    BY <1>1, <1>2, <2>1, RowsAre
  <2> QED BY <2>1 DEF Placed
<1>4. Sourced(db, media')
  <2>1. ASSUME NEW p \in People, Named(db, p), ~db.person[p].manual, db.person[p].from # Nowhere
        PROVE  media'[db.person[p].from] \notin Veiled \cup {"gone"}
    <3>1. db.person[p].from \in Photos
      BY <2>1, RowsAre DEF PersonRows, Named
    <3>2. CASE db.person[p].from = x
      BY <1>2, <2>1, <3>2, RowsAre DEF Private
    <3>3. CASE db.person[p].from # x
      BY <1>2, <2>1, <3>1, <3>3, RowsAre
    <3> QED BY <3>2, <3>3
  <2> QED BY <2>1 DEF Sourced
<1>5. Sound(db', media') /\ Fits(db') /\ SeenFits(seen', db')
  BY <1>1, <1>3, <1>4 DEF IInv, Sound
<1>6. GraphFits(graph', busy', db'.refs)
  BY <1>1 DEF GraphFits, IInv
<1> QED BY <1>2, <1>5, <1>6 DEF IInv

LEMMA RestorePhotoKeeps ==
  ASSUME IInv, NEW x \in Photos, RestorePhoto(x)
  PROVE  IInv'
BY RestorePublicKeeps, RestorePrivateKeeps

LEMMA RelocatePhotoKeeps ==
  ASSUME IInv, NEW x \in Photos, NEW private \in BOOLEAN, NEW changed \in BOOLEAN, RelocatePhoto(x, private, changed)
  PROVE  IInv'
<1> DEFINE k == [f \in Faces |-> IF f \in Kept(db, x) THEN [db.kept[f] EXCEPT !.review = db.kept[f].review \/ changed] ELSE db.kept[f]]
<1>1. PICK d : d = [db EXCEPT !.kept = k]
  OBVIOUS
<1>2. PICK people : people = {db.kept[f].who : f \in Kept(db, x)}
  OBVIOUS
<1>3. /\ media[x] \in Missing /\ Drops(d, people)
      /\ media' = [media EXCEPT ![x] = IF ~private THEN "missing" ELSE IF @ = "missing" THEN "moved" ELSE @]
  BY <1>1, <1>2 DEF RelocatePhoto
<1>4. /\ media' \in Media /\ media'[x] \in Missing /\ (media'[x] \in Veiled => media[x] \in Veiled)
      /\ \A y \in Photos : y # x => media'[y] = media[y]
  BY <1>3, RowsAre DEF Media, Missing, Veiled
<1>5. people \in SUBSET People
  BY <1>2, RowsAre DEF Kept, In
<1>6. /\ k \in [Faces -> MaybeFace]
      /\ \A f \in Faces : /\ k[f] # NoFace => db.kept[f] # NoFace /\ k[f].who = db.kept[f].who
                          /\ db.kept[f] = NoFace => k[f] = NoFace
  <2>1. ASSUME NEW f \in Faces
        PROVE  /\ k[f] \in MaybeFace
               /\ k[f] # NoFace => db.kept[f] # NoFace /\ k[f].who = db.kept[f].who
               /\ db.kept[f] = NoFace => k[f] = NoFace
    <3>1. CASE f \in Kept(db, x)
      <4>1. db.kept[f] # NoFace /\ db.kept[f] \in FaceRows /\ k[f] = [db.kept[f] EXCEPT !.review = db.kept[f].review \/ changed]
        BY <3>1, RowsAre DEF Kept
      <4> HIDE DEF k
      <4>2. k[f] \in FaceRows /\ k[f].who = db.kept[f].who
        BY <4>1 DEF FaceRows
      <4> QED BY <4>1, <4>2 DEF MaybeFace
    <3>2. CASE f \notin Kept(db, x)
      BY <3>2, RowsAre, FieldsAre
    <3> QED BY <3>1, <3>2
  <2> QED BY <2>1
<1> HIDE DEF k
<1>7. /\ d \in Tables /\ d.person = db.person /\ d.hidden = db.hidden /\ d.excl = db.excl /\ d.refs = db.refs /\ d.rejected = db.rejected /\ d.open = db.open
      /\ d.rebuild = db.rebuild /\ d.fresh = db.fresh /\ d.face = db.face /\ d.kept = k
  BY <1>1, <1>6, RowsAre DEF Tables
<1>8. Owned(d)
  BY <1>6, <1>7, RowsAre DEF Owned, Exists
<1>9. Placed(d, media')
  <2>1. ASSUME NEW f \in Faces
        PROVE  /\ d.face[f] # NoFace => media'[PhotoOf[f]] = "public" /\ d.kept[f] = NoFace
               /\ d.kept[f] # NoFace => media'[PhotoOf[f]] \in Private \cup Missing
    BY <1>3, <1>4, <1>6, <1>7, <2>1, RowsAre DEF Missing
  <2> QED BY <2>1 DEF Placed
<1>10. Sourced(d, media')
  <2>1. ASSUME NEW p \in People, Named(d, p), ~d.person[p].manual, d.person[p].from # Nowhere
        PROVE  media'[d.person[p].from] \notin Veiled \cup {"gone"}
    <3>1. Named(db, p) /\ Exists(db, p) /\ d.person[p].from = db.person[p].from
      BY <1>7, <2>1 DEF Named, Exists
    <3>2. db.person[p].from \in Photos
      BY <1>7, <2>1, <3>1, RowsAre DEF PersonRows
    <3> QED BY <1>4, <1>7, <2>1, <3>1, <3>2, RowsAre DEF Missing
  <2> QED BY <2>1 DEF Sourced
<1>11. Remembered(d) /\ Aged(d)
  BY <1>7, RowsAre DEF Remembered, Aged, Named, Exists, IInv, Sound
<1>12. Tracked(d, people) /\ Emptied(d)
  BY <1>7, NotEmptied DEF Tracked, Usable
<1>13. Ready(d, media', people)
  BY <1>7, <1>8, <1>9, <1>10, <1>11, <1>12, StayDistinct DEF Ready, Sound
<1> QED BY <1>3, <1>4, <1>5, <1>13, AfterDrops

LEMMA HidePhotoKeeps ==
  ASSUME IInv, NEW x \in Photos, HidePhoto(x)
  PROVE  IInv'
<1> DEFINE hid == [p \in People |-> IF Hides(p, x) THEN x ELSE db.hidden[p]]
           per == [p \in People |-> IF Hides(p, x) THEN [db.person[p] EXCEPT !.name = NoName] ELSE db.person[p]]
<1>1. PICK c : c = Away(db, x)
  OBVIOUS
<1>2. PICK d : d = [c EXCEPT !.hidden = hid, !.person = per]
  OBVIOUS
<1>3. /\ c \in Tables /\ c.person = db.person /\ c.hidden = db.hidden /\ c.excl = db.excl /\ c.refs = db.refs /\ c.rejected = db.rejected /\ c.open = db.open
      /\ c.rebuild = db.rebuild /\ c.fresh = db.fresh
      /\ \A f \in Faces : /\ c.face[f] = IF PhotoOf[f] = x THEN NoFace ELSE db.face[f]
                          /\ c.kept[f] = IF PhotoOf[f] = x /\ db.face[f] # NoFace THEN db.face[f] ELSE db.kept[f]
  BY <1>1, AwayDoes, RowsAre
<1>4. media[x] = "public" /\ media' = [media EXCEPT ![x] = "private"] /\ Aside(d)
  <2>1. d = [c EXCEPT !.hidden = [p \in People |-> IF Hides(p, x) THEN x ELSE @[p]],
                      !.person = [p \in People |-> IF Hides(p, x) THEN [@[p] EXCEPT !.name = NoName] ELSE @[p]]]
    BY <1>2, <1>3
  <2> QED BY <1>1, <2>1 DEF HidePhoto
<1>5. /\ hid \in [People -> Photos \cup {Nowhere}] /\ per \in [People -> PersonRows \cup {NoPerson}]
      /\ \A p \in People : IF Hides(p, x)
                           THEN /\ hid[p] = x /\ per[p] # NoPerson /\ per[p].name = NoName /\ per[p].manual = db.person[p].manual
                                /\ per[p].from = x
                           ELSE hid[p] = db.hidden[p] /\ per[p] = db.person[p]
  <2>1. ASSUME NEW p \in People
        PROVE  /\ hid[p] \in Photos \cup {Nowhere} /\ per[p] \in PersonRows \cup {NoPerson}
               /\ IF Hides(p, x)
                  THEN /\ hid[p] = x /\ per[p] # NoPerson /\ per[p].name = NoName /\ per[p].manual = db.person[p].manual
                       /\ per[p].from = x
                  ELSE hid[p] = db.hidden[p] /\ per[p] = db.person[p]
    <3>1. CASE Hides(p, x)
      <4>1. db.person[p] \in PersonRows /\ db.person[p].from = x /\ hid[p] = x /\ per[p] = [db.person[p] EXCEPT !.name = NoName]
        BY <3>1, RowsAre DEF Hides, Named
      <4> HIDE DEF per, hid
      <4>2. per[p] \in PersonRows /\ per[p].name = NoName /\ per[p].manual = db.person[p].manual /\ per[p].from = x
        BY <4>1 DEF PersonRows
      <4> QED BY <3>1, <4>1, <4>2, Constants
    <3>2. CASE ~Hides(p, x)
      BY <3>2, RowsAre, FieldsAre
    <3> QED BY <3>1, <3>2
  <2> QED BY <2>1
<1> HIDE DEF hid, per
<1>6. /\ d \in Tables /\ d.person = per /\ d.hidden = hid /\ d.excl = db.excl /\ d.refs = db.refs /\ d.rejected = db.rejected /\ d.open = db.open
      /\ d.rebuild = db.rebuild /\ d.fresh = db.fresh
      /\ \A f \in Faces : /\ d.face[f] = IF PhotoOf[f] = x THEN NoFace ELSE db.face[f]
                          /\ d.kept[f] = IF PhotoOf[f] = x /\ db.face[f] # NoFace THEN db.face[f] ELSE db.kept[f]
  BY <1>2, <1>3, <1>5 DEF Tables
<1>7. /\ media' \in Media /\ media'[x] = "private" /\ \A y \in Photos : y # x => media'[y] = media[y]
  BY <1>4, RowsAre DEF Media
<1>8. \A p \in People : Exists(d, p) = Exists(db, p)
  BY <1>5, <1>6 DEF Exists, Hides, Named
<1>9. Owned(d) /\ Placed(d, media')
  BY <1>4, <1>6, <1>7, <1>8, RowsAre DEF Owned, Placed
<1>10. Sourced(d, media')
  <2>1. ASSUME NEW p \in People, Named(d, p), ~d.person[p].manual, d.person[p].from # Nowhere
        PROVE  media'[d.person[p].from] \notin Veiled \cup {"gone"}
    <3>1. ~Hides(p, x)
      BY <1>5, <1>6, <2>1 DEF Named
    <3>2. Named(db, p) /\ Exists(db, p) /\ d.person[p] = db.person[p]
      BY <1>5, <1>6, <2>1, <3>1 DEF Named, Exists
    <3>3. db.person[p].from \in Photos /\ db.person[p].from # x
      BY <2>1, <3>1, <3>2, RowsAre DEF PersonRows, Hides
    <3> QED BY <1>7, <2>1, <3>2, <3>3, RowsAre
  <2> QED BY <2>1 DEF Sourced
<1>11. Remembered(d)
  <2>1. ASSUME NEW p \in People, d.hidden[p] # Nowhere
        PROVE  Exists(d, p) /\ (~Named(d, p) /\ ~d.person[p].manual => d.person[p].from \in {Nowhere, d.hidden[p]})
    <3>1. CASE Hides(p, x)
      BY <1>5, <1>6, <1>8, <3>1 DEF Hides, Named
    <3>2. CASE ~Hides(p, x)
      <4>1. d.person[p] = db.person[p] /\ d.hidden[p] = db.hidden[p]
        BY <1>5, <1>6, <3>2
      <4>2. Named(d, p) = Named(db, p)
        BY <4>1 DEF Named, Exists
      <4> QED BY <1>8, <2>1, <4>1, <4>2, RowsAre
    <3> QED BY <3>1, <3>2
  <2> QED BY <2>1 DEF Remembered
<1>12. Aged(d)
  BY <1>6, <1>8 DEF Aged, IInv, Sound
<1>13. Tracked(d, {}) /\ Emptied(d)
  BY <1>6, NotEmptied DEF Tracked, Usable
<1>14. Ready(d, media', {})
  BY <1>6, <1>9, <1>10, <1>11, <1>12, <1>13, StayDistinct DEF Ready, Sound
<1> QED BY <1>4, <1>7, <1>14, AfterAside

LEMMA ShowPhotoKeeps ==
  ASSUME IInv, NEW x \in Photos, NEW changed \in BOOLEAN, ShowPhoto(x, changed)
  PROVE  IInv'
<1>1. PICK c : c = Back(db, x)
  OBVIOUS
<1> DEFINE Regains(p) == Exists(db, p) /\ ~db.person[p].manual /\ ~Named(db, p) /\ db.hidden[p] = x
           g == [f \in Faces |-> IF f \in In(x) /\ c.face[f] # NoFace THEN [c.face[f] EXCEPT !.review = c.face[f].review \/ changed]
                                 ELSE c.face[f]]
           hid == [p \in People |-> IF db.hidden[p] = x THEN Nowhere ELSE db.hidden[p]]
           per == [p \in People |-> IF Regains(p) THEN [db.person[p] EXCEPT !.name = Name] ELSE db.person[p]]
<1>2. PICK d : d = [c EXCEPT !.face = g, !.person = per, !.hidden = hid, !.rebuild = TRUE]
  OBVIOUS
<1>3. /\ c \in Tables /\ c.person = db.person /\ c.hidden = db.hidden /\ c.excl = db.excl /\ c.refs = db.refs /\ c.rejected = db.rejected /\ c.open = db.open
      /\ c.fresh = db.fresh
      /\ \A f \in Faces : /\ c.face[f] = IF PhotoOf[f] = x THEN db.kept[f] ELSE db.face[f]
                          /\ c.kept[f] = IF PhotoOf[f] = x THEN NoFace ELSE db.kept[f]
  BY <1>1, BackDoes, RowsAre
<1>4. media[x] \in Private /\ media' = [media EXCEPT ![x] = "public"] /\ Aside(d)
  <2>1. d = [c EXCEPT !.face = [f \in Faces |-> IF f \in In(x) /\ @[f] # NoFace THEN [@[f] EXCEPT !.review = c.face[f].review \/ changed] ELSE @[f]],
                      !.person = [p \in People |-> IF Regains(p) THEN [@[p] EXCEPT !.name = Name] ELSE @[p]],
                      !.hidden = [p \in People |-> IF @[p] = x THEN Nowhere ELSE @[p]],
                      !.rebuild = TRUE]
    BY <1>2, <1>3
  <2> HIDE DEF g, hid, per
  <2> QED BY <1>1, <2>1 DEF ShowPhoto
<1>5. /\ g \in [Faces -> MaybeFace]
      /\ \A f \in Faces : IF PhotoOf[f] = x
                          THEN IF db.kept[f] = NoFace THEN g[f] = NoFace ELSE g[f] \in FaceRows /\ g[f].who = db.kept[f].who
                          ELSE g[f] = db.face[f]
  <2>1. ASSUME NEW f \in Faces
        PROVE  /\ g[f] \in MaybeFace
               /\ IF PhotoOf[f] = x
                  THEN IF db.kept[f] = NoFace THEN g[f] = NoFace ELSE g[f] \in FaceRows /\ g[f].who = db.kept[f].who
                  ELSE g[f] = db.face[f]
    <3>1. CASE PhotoOf[f] = x /\ db.kept[f] # NoFace
      <4>1. c.face[f] = db.kept[f] /\ c.face[f] \in FaceRows /\ g[f] = [c.face[f] EXCEPT !.review = c.face[f].review \/ changed]
        BY <1>3, <3>1, RowsAre DEF In
      <4> HIDE DEF g
      <4> QED BY <3>1, <4>1 DEF FaceRows, MaybeFace
    <3>2. CASE ~(PhotoOf[f] = x /\ db.kept[f] # NoFace)
      BY <1>3, <3>2, FieldsAre DEF In
    <3> QED BY <3>1, <3>2
  <2> QED BY <2>1
<1>6. /\ hid \in [People -> Photos \cup {Nowhere}] /\ per \in [People -> PersonRows \cup {NoPerson}]
      /\ \A p \in People : /\ hid[p] = IF db.hidden[p] = x THEN Nowhere ELSE db.hidden[p]
                           /\ IF Regains(p)
                              THEN /\ per[p] # NoPerson /\ per[p].manual = db.person[p].manual /\ per[p].from \in {Nowhere, x}
                              ELSE per[p] = db.person[p]
  <2>1. ASSUME NEW p \in People
        PROVE  /\ hid[p] \in Photos \cup {Nowhere} /\ per[p] \in PersonRows \cup {NoPerson}
               /\ hid[p] = IF db.hidden[p] = x THEN Nowhere ELSE db.hidden[p]
               /\ IF Regains(p)
                  THEN /\ per[p] # NoPerson /\ per[p].manual = db.person[p].manual /\ per[p].from \in {Nowhere, x}
                  ELSE per[p] = db.person[p]
    <3>0. db.hidden[p] \in Photos \cup {Nowhere} /\ db.person[p] \in PersonRows \cup {NoPerson}
      BY RowsAre, FieldsAre
    <3>1. CASE Regains(p)
      <4>1. db.person[p] \in PersonRows /\ db.person[p].from \in {Nowhere, x} /\ per[p] = [db.person[p] EXCEPT !.name = Name]
        BY <3>1, RowsAre, Constants
      <4> HIDE DEF per
      <4>2. per[p] \in PersonRows /\ per[p].manual = db.person[p].manual /\ per[p].from = db.person[p].from
        BY <4>1 DEF PersonRows
      <4> QED BY <3>0, <3>1, <4>1, <4>2, Constants
    <3>2. CASE ~Regains(p)
      BY <3>0, <3>2
    <3> QED BY <3>1, <3>2
  <2> QED BY <2>1
<1> HIDE DEF g, hid, per
<1>7. /\ d \in Tables /\ d.person = per /\ d.hidden = hid /\ d.excl = db.excl /\ d.refs = db.refs /\ d.rejected = db.rejected /\ d.open = db.open
      /\ d.rebuild = TRUE /\ d.fresh = db.fresh /\ d.face = g
      /\ \A f \in Faces : d.kept[f] = IF PhotoOf[f] = x THEN NoFace ELSE db.kept[f]
  BY <1>2, <1>3, <1>5, <1>6 DEF Tables
<1>8. /\ media' \in Media /\ media'[x] = "public" /\ \A y \in Photos : y # x => media'[y] = media[y]
  BY <1>4, RowsAre DEF Media
<1>9. \A p \in People : Exists(d, p) = Exists(db, p)
  BY <1>6, <1>7 DEF Exists
<1>10. Owned(d)
  <2>1. ASSUME NEW f \in Faces, d.face[f] # NoFace PROVE Exists(d, d.face[f].who)
    BY <1>5, <1>7, <1>9, <2>1, RowsAre
  <2>2. ASSUME NEW f \in Faces, d.kept[f] # NoFace PROVE Exists(d, d.kept[f].who)
    BY <1>7, <1>9, <2>2, RowsAre
  <2> QED BY <2>1, <2>2 DEF Owned
<1>11. Placed(d, media')
  <2>1. ASSUME NEW f \in Faces, d.face[f] # NoFace PROVE media'[PhotoOf[f]] = "public" /\ d.kept[f] = NoFace
    BY <1>5, <1>7, <1>8, <2>1, RowsAre
  <2>2. ASSUME NEW f \in Faces, d.kept[f] # NoFace PROVE media'[PhotoOf[f]] \in Private \cup Missing
    BY <1>7, <1>8, <2>2, RowsAre
  <2> QED BY <2>1, <2>2 DEF Placed
<1>12. Sourced(d, media')
  <2>1. ASSUME NEW p \in People, Named(d, p), ~d.person[p].manual, d.person[p].from # Nowhere
        PROVE  media'[d.person[p].from] \notin Veiled \cup {"gone"}
    <3>1. CASE Regains(p)
      BY <1>6, <1>7, <1>8, <2>1, <3>1
    <3>2. CASE ~Regains(p)
      <4>1. Named(db, p) /\ Exists(db, p) /\ d.person[p] = db.person[p]
        BY <1>6, <1>7, <2>1, <3>2 DEF Named, Exists
      <4>2. db.person[p].from \in Photos
        BY <2>1, <4>1, RowsAre DEF PersonRows
      <4> QED BY <1>8, <2>1, <4>1, <4>2, RowsAre
    <3> QED BY <3>1, <3>2
  <2> QED BY <2>1 DEF Sourced
<1>13. Remembered(d)
  <2>1. ASSUME NEW p \in People, d.hidden[p] # Nowhere
        PROVE  Exists(d, p) /\ (~Named(d, p) /\ ~d.person[p].manual => d.person[p].from \in {Nowhere, d.hidden[p]})
    <3>1. db.hidden[p] # x /\ d.hidden[p] = db.hidden[p] /\ ~Regains(p)
      BY <1>6, <1>7, <2>1
    <3>2. d.person[p] = db.person[p]
      BY <1>6, <1>7, <3>1
    <3>3. Named(d, p) = Named(db, p)
      BY <3>2 DEF Named, Exists
    <3> QED BY <1>9, <2>1, <3>1, <3>2, <3>3, RowsAre
  <2> QED BY <2>1 DEF Remembered
<1>14. Aged(d)
  BY <1>7, <1>9 DEF Aged, IInv, Sound
<1>15. Tracked(d, {})
  <2>1. ASSUME NEW f \in Faces, PhotoOf[f] = x
        PROVE  db.face[f] = NoFace /\ d.rebuild
    BY <1>4, <1>7, <2>1, RowsAre
  <2>2. ASSUME NEW f \in Faces, PhotoOf[f] # x PROVE d.face[f] = db.face[f]
    BY <1>5, <1>7, <2>2
  <2> QED BY <1>7, <2>1, <2>2 DEF Tracked, Usable
<1>16. Ready(d, media', {})
  BY <1>7, <1>10, <1>11, <1>12, <1>13, <1>14, <1>15, NotEmptied, StayDistinct DEF Ready, Sound
<1> QED BY <1>4, <1>8, <1>16, AfterAside

LEMMA PurgePhotoKeeps ==
  ASSUME IInv, NEW x \in Photos, PurgePhoto(x)
  PROVE  IInv'
<1> DEFINE Loses(p) == Exists(db, p) /\ db.person[p].from = x /\ ~db.person[p].manual
           k == [f \in Faces |-> IF f \in In(x) THEN NoFace ELSE db.kept[f]]
           hid == [p \in People |-> IF db.hidden[p] = x THEN Nowhere ELSE db.hidden[p]]
           per == [p \in People |-> IF Loses(p) THEN Unnamed ELSE db.person[p]]
<1>1. PICK d : d = [db EXCEPT !.kept = k, !.hidden = hid, !.person = per]
  OBVIOUS
<1>2. media[x] \in Missing /\ media' = [media EXCEPT ![x] = "gone"] /\ Aside(d)
  BY <1>1 DEF PurgePhoto
<1>3. /\ Unnamed \in PersonRows /\ Unnamed # NoPerson /\ Unnamed.name = NoName /\ Unnamed.from = Nowhere
  BY UnnamedIs
<1>4. /\ k \in [Faces -> MaybeFace] /\ hid \in [People -> Photos \cup {Nowhere}] /\ per \in [People -> PersonRows \cup {NoPerson}]
      /\ \A f \in Faces : k[f] = IF PhotoOf[f] = x THEN NoFace ELSE db.kept[f]
      /\ \A p \in People : /\ hid[p] = IF db.hidden[p] = x THEN Nowhere ELSE db.hidden[p]
                           /\ per[p] = IF Loses(p) THEN Unnamed ELSE db.person[p]
  BY <1>3, RowsAre, FieldsAre DEF In, MaybeFace
<1> HIDE DEF k, hid, per
<1>5. /\ d \in Tables /\ d.person = per /\ d.hidden = hid /\ d.excl = db.excl /\ d.refs = db.refs /\ d.rejected = db.rejected /\ d.open = db.open
      /\ d.rebuild = db.rebuild /\ d.fresh = db.fresh /\ d.face = db.face /\ d.kept = k
  BY <1>1, <1>4, RowsAre DEF Tables
<1>6. /\ media' \in Media /\ media'[x] = "gone" /\ \A y \in Photos : y # x => media'[y] = media[y]
  BY <1>2, RowsAre DEF Media
<1>7. \A p \in People : Exists(d, p) = Exists(db, p)
  BY <1>3, <1>4, <1>5 DEF Exists
<1>8. Owned(d) /\ Placed(d, media')
  BY <1>2, <1>4, <1>5, <1>6, <1>7, RowsAre DEF Owned, Placed
<1>9. Sourced(d, media')
  <2>1. ASSUME NEW p \in People, Named(d, p), ~d.person[p].manual, d.person[p].from # Nowhere
        PROVE  media'[d.person[p].from] \notin Veiled \cup {"gone"}
    <3>1. ~Loses(p)
      BY <1>3, <1>4, <1>5, <2>1
    <3>2. Named(db, p) /\ Exists(db, p) /\ d.person[p] = db.person[p]
      BY <1>4, <1>5, <2>1, <3>1 DEF Named, Exists
    <3>3. db.person[p].from \in Photos /\ db.person[p].from # x
      BY <2>1, <3>1, <3>2, RowsAre DEF PersonRows
    <3> QED BY <1>6, <2>1, <3>2, <3>3, RowsAre
  <2> QED BY <2>1 DEF Sourced
<1>10. Remembered(d)
  <2>1. ASSUME NEW p \in People, d.hidden[p] # Nowhere
        PROVE  Exists(d, p) /\ (~Named(d, p) /\ ~d.person[p].manual => d.person[p].from \in {Nowhere, d.hidden[p]})
    <3>1. d.hidden[p] = db.hidden[p] /\ db.hidden[p] # Nowhere
      BY <1>4, <1>5, <2>1
    <3>2. CASE Loses(p)
      BY <1>3, <1>4, <1>5, <1>7, <3>2
    <3>3. CASE ~Loses(p)
      <4>1. d.person[p] = db.person[p]
        BY <1>4, <1>5, <3>3
      <4>2. Named(d, p) = Named(db, p)
        BY <4>1 DEF Named, Exists
      <4> QED BY <1>7, <3>1, <4>1, <4>2, RowsAre
    <3> QED BY <3>2, <3>3
  <2> QED BY <2>1 DEF Remembered
<1>11. Aged(d)
  BY <1>5, <1>7 DEF Aged, IInv, Sound
<1>12. Tracked(d, {}) /\ Emptied(d)
  BY <1>5, NotEmptied DEF Tracked, Usable
<1>13. Ready(d, media', {})
  BY <1>5, <1>8, <1>9, <1>10, <1>11, <1>12, StayDistinct DEF Ready, Sound
<1> QED BY <1>2, <1>6, <1>13, AfterAside

LEMMA ChangePhotoKeeps ==
  ASSUME IInv, NEW x \in Photos, ChangePhoto(x)
  PROVE  IInv'
<1> DEFINE g == [f \in Faces |-> IF f \in In(x) /\ db.face[f] # NoFace THEN [db.face[f] EXCEPT !.review = TRUE] ELSE db.face[f]]
<1>1. PICK d : d = [db EXCEPT !.face = g]
  OBVIOUS
<1>2. media' = media /\ Aside(d)
  BY <1>1 DEF ChangePhoto
<1>3. /\ g \in [Faces -> MaybeFace]
      /\ \A f \in Faces : \/ g[f] = db.face[f]
                          \/ db.face[f] # NoFace /\ g[f] \in FaceRows /\ g[f].who = db.face[f].who /\ ~db.face[f].review /\ g[f].review
  <2>1. ASSUME NEW f \in Faces
        PROVE  /\ g[f] \in MaybeFace
               /\ \/ g[f] = db.face[f]
                  \/ db.face[f] # NoFace /\ g[f] \in FaceRows /\ g[f].who = db.face[f].who /\ ~db.face[f].review /\ g[f].review
    <3>1. CASE f \in In(x) /\ db.face[f] # NoFace
      <4>1. db.face[f] \in FaceRows /\ g[f] = [db.face[f] EXCEPT !.review = TRUE]
        BY <3>1, RowsAre
      <4> HIDE DEF g
      <4>2. g[f] \in FaceRows /\ g[f].who = db.face[f].who /\ g[f].review
        BY <4>1 DEF FaceRows
      <4>3. db.face[f].review => g[f] = db.face[f]
        BY <4>1 DEF FaceRows
      <4> QED BY <3>1, <4>1, <4>2, <4>3 DEF MaybeFace
    <3>2. CASE ~(f \in In(x) /\ db.face[f] # NoFace)
      BY <3>2, RowsAre, FieldsAre
    <3> QED BY <3>1, <3>2
  <2> QED BY <2>1
<1> HIDE DEF g
<1>4. /\ d \in Tables /\ d.person = db.person /\ d.hidden = db.hidden /\ d.excl = db.excl /\ d.refs = db.refs /\ d.rejected = db.rejected /\ d.open = db.open
      /\ d.rebuild = db.rebuild /\ d.fresh = db.fresh /\ d.face = g /\ d.kept = db.kept
  BY <1>1, <1>3, RowsAre DEF Tables
<1>5. Owned(d) /\ Placed(d, media)
  BY <1>3, <1>4, RowsAre DEF Owned, Placed, Exists
<1>6. Sourced(d, media) /\ Remembered(d) /\ Aged(d)
  BY <1>4, RowsAre DEF Sourced, Remembered, Aged, Named, Exists, IInv, Sound
<1>7. Tracked(d, {})
  <2>1. ASSUME NEW f \in Faces
        PROVE  \/ d.face[f] = NoFace \/ ReviewTurned(db, d, f)
               \/ db.face[f] # NoFace /\ d.face[f] # NoFace /\ Usable(d, f) = Usable(db, f) /\ d.face[f].who = db.face[f].who
    <3>1. CASE g[f] = db.face[f]
      BY <1>4, <3>1 DEF Usable
    <3>2. CASE db.face[f] # NoFace /\ g[f] \in FaceRows /\ ~db.face[f].review /\ g[f].review
      BY <1>4, <3>2, Constants DEF ReviewTurned
    <3> QED BY <1>3, <3>1, <3>2
  <2> QED BY <1>4, <2>1 DEF Tracked
<1>8. Ready(d, media', {})
  BY <1>2, <1>4, <1>5, <1>6, <1>7, NotEmptied, StayDistinct DEF Ready, Sound
<1> QED BY <1>2, <1>8, RowsAre, AfterAside

-----------------------------------------------------------------------------
(* The analysis of a photo                                                  *)

\* What is counted up to a number gets there.
LEMMA Stepwise ==
  ASSUME NEW n \in Nat, NEW S, 0 \in S, \A i \in 0 .. n : i \in S /\ i + 1 \in 0 .. n => i + 1 \in S
  PROVE  n \in S
<1> DEFINE T == {i \in 0 .. n : i \notin S}
           f == [i \in T |-> i - 1]
<1> SUFFICES ASSUME n \notin S PROVE FALSE
  OBVIOUS
<1>1. n \in T
  OBVIOUS
<1>2. IsFiniteSet(T) /\ IsFiniteSet(T \ {n}) /\ Cardinality(T) \in Nat /\ Cardinality(T \ {n}) = Cardinality(T) - 1
  <2>1. IsFiniteSet(T)
    <3>1. IsFiniteSet(0 .. n)
      BY FS_Interval
    <3> QED BY <3>1, FS_Subset
  <2> QED BY <2>1, <1>1, FS_RemoveElement, FS_CardinalityType
<1>3. f \in [T -> T \ {n}]
  <2>1. ASSUME NEW i \in T PROVE i - 1 \in T \ {n}
    OBVIOUS
  <2> QED BY <2>1
<1>4. PICK x, y \in T : x # y /\ f[x] = f[y]
  <2> HIDE DEF f, T
  <2> QED BY <1>2, <1>3, FS_PigeonHole
<1> QED BY <1>4

\* What was found of a photo so far: people who are new or have got their name
\* from it, and rows of its faces.
AsFound(x, d, p) == /\ d.person[p] \in PersonRows
                    /\ d.person[p].from = IF d.person[p].name = NoName THEN Nowhere ELSE x
Underway(x, d) ==
    /\ d \in Tables /\ SameRest(db, d) /\ d.excl = db.excl /\ Aged(d)
    /\ \A p \in People : d.person[p] = db.person[p] \/ AsFound(x, d, p)
    /\ \A f \in Faces : \/ d.face[f] = db.face[f]
                        \/ PhotoOf[f] = x /\ d.face[f] \in FaceRows /\ ~d.face[f].review /\ Exists(d, d.face[f].who)
    /\ \A f \in Faces : Decided(f) => d.face[f] # NoFace /\ d.face[f].who = db.face[f].who
\* A row that is still to be given to somebody
Blank(r) == \A p \in People : LET s == [r EXCEPT !.who = p] IN s \in FaceRows /\ s.who = p /\ ~s.review

LEMMA PutUnderway ==
  ASSUME NEW x, NEW d, Underway(x, d), NEW used, NEW f \in Faces, PhotoOf[f] = x, NEW p \in People, Exists(d, p),
         Decided(f) => p = db.face[f].who, NEW r, Blank(r), NEW w, w = Put(d, used, f, p, r)
  PROVE  Underway(x, w.d)
<1>1. PICK s \in FaceRows : s = [r EXCEPT !.who = p] /\ s.who = p /\ ~s.review
  BY DEF Blank
<1>2. PICK e : e = PutRow(d, f, s)
  OBVIOUS
<1>3. w.d = e
  BY <1>1, <1>2 DEF Put, PutRow
<1>4. d \in Tables
  BY DEF Underway
<1>5. /\ e \in Tables /\ SameRest(d, e) /\ e.person = d.person /\ e.excl = d.excl /\ e.fresh = d.fresh
      /\ e.face[f] = s /\ \A g \in Faces : g # f => e.face[g] = d.face[g]
  BY <1>1, <1>2, <1>4, PutRowDoes DEF MaybeFace
<1>6. s # NoFace
  BY Constants
<1>7. Underway(x, e)
  <2>1. SameRest(db, e) /\ e.excl = db.excl
    BY <1>5 DEF Underway, SameRest
  <2>2. Aged(e) /\ \A q \in People : Exists(e, q) = Exists(d, q)
    BY <1>5 DEF Underway, Aged, Exists
  <2>3. \A q \in People : e.person[q] = db.person[q] \/ AsFound(x, e, q)
    BY <1>5 DEF Underway, AsFound
  <2>4. ASSUME NEW g \in Faces
        PROVE  /\ \/ e.face[g] = db.face[g]
                  \/ PhotoOf[g] = x /\ e.face[g] \in FaceRows /\ ~e.face[g].review /\ Exists(e, e.face[g].who)
               /\ Decided(g) => e.face[g] # NoFace /\ e.face[g].who = db.face[g].who
    <3>1. CASE g = f
      BY <1>1, <1>5, <1>6, <2>2, <3>1
    <3>2. CASE g # f
      <4>1. e.face[g] = d.face[g]
        BY <1>5, <3>2
      <4>2. /\ \/ d.face[g] = db.face[g]
               \/ PhotoOf[g] = x /\ d.face[g] \in FaceRows /\ ~d.face[g].review /\ Exists(d, d.face[g].who)
            /\ Decided(g) => d.face[g] # NoFace /\ d.face[g].who = db.face[g].who
        BY DEF Underway
      <4>3. d.face[g] \in FaceRows => d.face[g].who \in People
        BY DEF FaceRows
      <4> QED BY <2>2, <4>1, <4>2, <4>3
    <3> QED BY <3>1, <3>2
  <2> QED BY <1>5, <2>1, <2>2, <2>3, <2>4 DEF Underway
<1> QED BY <1>3, <1>7

\* People who were not there, and people the photo names.
LEMMA RetoldUnderway ==
  ASSUME NEW x, NEW d, Underway(x, d), NEW p \in People, NEW e \in Tables, AsFound(x, e, p),
         SameRest(d, e), e.excl = d.excl, e.face = d.face, Aged(e),
         \A q \in People : q # p => e.person[q] = d.person[q]
  PROVE  Underway(x, e)
<1>1. SameRest(db, e) /\ e.excl = db.excl
  BY DEF Underway, SameRest
<1>2. \A q \in People : Exists(d, q) => Exists(e, q)
  BY Constants DEF Exists, AsFound
<1>3. \A q \in People : e.person[q] = db.person[q] \/ AsFound(x, e, q)
  BY DEF Underway, AsFound
<1>4. ASSUME NEW g \in Faces
      PROVE  /\ \/ e.face[g] = db.face[g]
                \/ PhotoOf[g] = x /\ e.face[g] \in FaceRows /\ ~e.face[g].review /\ Exists(e, e.face[g].who)
             /\ Decided(g) => e.face[g] # NoFace /\ e.face[g].who = db.face[g].who
  <2>1. /\ \/ d.face[g] = db.face[g]
           \/ PhotoOf[g] = x /\ d.face[g] \in FaceRows /\ ~d.face[g].review /\ Exists(d, d.face[g].who)
        /\ Decided(g) => d.face[g] # NoFace /\ d.face[g].who = db.face[g].who
    BY DEF Underway
  <2>2. d.face[g] \in FaceRows => d.face[g].who \in People
    BY DEF FaceRows
  <2> QED BY <1>2, <2>1, <2>2
<1> QED BY <1>1, <1>3, <1>4 DEF Underway

LEMMA PutNewUnderway ==
  ASSUME NEW x, NEW d, Underway(x, d), NEW used, NEW f \in Faces, PhotoOf[f] = x, ~Decided(f),
         NEW row \in PersonRows, row.from = IF row.name = NoName THEN Nowhere ELSE x,
         NEW r, Blank(r), NEW w \in PutNew(d, used, f, row, r)
  PROVE  Underway(x, w.d)
<1>1. d.fresh \in People /\ d \in Tables
  BY DEF PutNew, Room, Underway
<1>2. PICK e : e = Add(d, row)
  OBVIOUS
<1>3. w = Put(e, used, f, d.fresh, r)
  BY <1>1, <1>2 DEF PutNew, Room
<1>4. /\ e \in Tables /\ SameRest(d, e) /\ e.face = d.face /\ e.excl = d.excl
      /\ e.person[d.fresh] = row /\ e.fresh = d.fresh + 1
      /\ \A p \in People : p # d.fresh => e.person[p] = d.person[p]
  BY <1>1, <1>2, AddDoes
<1>5. AsFound(x, e, d.fresh) /\ Exists(e, d.fresh)
  BY <1>4, Constants DEF AsFound, Exists
<1>6. Aged(e)
  <2>1. ASSUME NEW p \in People, Exists(e, p) PROVE p < e.fresh
    <3>1. p \in Int /\ d.fresh \in Int
      BY <1>1, Constants DEF People
    <3>2. p # d.fresh => p < d.fresh
      BY <1>4, <2>1 DEF Underway, Aged, Exists
    <3> QED BY <1>4, <3>1, <3>2
  <2> QED BY <2>1 DEF Aged
<1>7. Underway(x, e)
  BY <1>1, <1>4, <1>5, <1>6, RetoldUnderway
<1> QED BY <1>1, <1>3, <1>5, <1>7, PutUnderway

LEMMA UnnamedFits ==
  ASSUME NEW x
  PROVE  Unnamed \in PersonRows /\ Unnamed.from = IF Unnamed.name = NoName THEN Nowhere ELSE x
  BY UnnamedIs

LEMMA MatchedUnderway ==
  ASSUME NEW x, NEW d, Underway(x, d), NEW used, NEW f \in Faces, PhotoOf[f] = x, ~Decided(f),
         NEW r, Blank(r), NEW w \in Matched(d, used, f, r)
  PROVE  Underway(x, w.d)
<1>1. CASE w \in PutNew(d, used, f, Unnamed, r)
  BY <1>1, UnnamedFits, PutNewUnderway
<1>2. CASE \E p \in People : Exists(d, p) /\ w = Put(d, used, f, p, r)
  BY <1>2, PutUnderway
<1>3. w \in PutNew(d, used, f, Unnamed, r) \/ \E p \in People : Exists(d, p) /\ w = Put(d, used, f, p, r)
  BY DEF Matched, Match, Matchable
<1> QED BY <1>1, <1>2, <1>3

LEMMA NamedRowIs ==
  ASSUME NEW x \in Photos
  PROVE  Person(Name, FALSE, x) \in PersonRows /\ Person(Name, FALSE, x).from = x /\ Person(Name, FALSE, x).name = Name
<1>1. PICK b \in BOOLEAN : b = FALSE
  OBVIOUS
<1> QED BY <1>1, PersonIs

LEMMA FromNameUnderway ==
  ASSUME NEW x \in Photos, NEW d, Underway(x, d), NEW used, NEW f \in Faces, PhotoOf[f] = x, ~Decided(f),
         NEW r, Blank(r), NEW w \in FromName(d, used, f, r)
  PROVE  Underway(x, w.d)
<1> DEFINE Call(p) == IF d.person[p].manual THEN d ELSE [d EXCEPT !.person[p].name = Name, !.person[p].from = x]
<1>0. d \in Tables
  BY DEF Underway
<1>1. CASE w \in PutNew(d, used, f, Unnamed, r)
  BY <1>1, UnnamedFits, PutNewUnderway
<1>2. CASE w \in PutNew(d, used, f, Person(Name, FALSE, x), r)
  <2>1. PICK row : row = Person(Name, FALSE, x)
    OBVIOUS
  <2>2. row \in PersonRows /\ row.from = IF row.name = NoName THEN Nowhere ELSE x
    BY <2>1, NamedRowIs, Constants
  <2> QED BY <1>2, <2>1, <2>2, PutNewUnderway
<1>3. CASE w \in Matched(d, used, f, r)
  BY <1>3, MatchedUnderway
<1>4. CASE \E p \in People : Exists(d, p) /\ w = Put(d, used, f, p, r)
  BY <1>4, PutUnderway
<1>5. ASSUME NEW p \in People, Exists(d, p), w = Put(Call(p), used, f, p, r) PROVE Underway(x, w.d)
  <2>1. PICK e : e = Call(p)
    OBVIOUS
  <2>2. CASE d.person[p].manual
    BY <1>5, <2>1, <2>2, PutUnderway
  <2>3. CASE ~d.person[p].manual
    <3>1. d.person[p] \in PersonRows /\ d.person \in [People -> PersonRows \cup {NoPerson}]
      BY <1>0, <1>5, FieldsAre DEF Exists
    <3>2. PICK row : row = [d.person[p] EXCEPT !.name = Name, !.from = x]
      OBVIOUS
    <3>3. row \in PersonRows /\ row.name = Name /\ row.from = x
      BY <3>1, <3>2 DEF PersonRows
    <3> DEFINE g == [d.person EXCEPT ![p] = row]
    <3>4. g \in [People -> PersonRows \cup {NoPerson}] /\ g[p] = row /\ \A q \in People : q # p => g[q] = d.person[q]
      BY <3>1, <3>3
    <3>5. e = [d EXCEPT !.person = g]
      BY <1>0, <2>1, <2>3, <3>1, <3>2
    <3> HIDE DEF g, Call
    <3>6. /\ e \in Tables /\ SameRest(d, e) /\ e.excl = d.excl /\ e.face = d.face /\ e.person = g /\ e.fresh = d.fresh
      BY <1>0, <3>4, <3>5 DEF Tables, SameRest
    <3>7. AsFound(x, e, p) /\ Exists(e, p) /\ Aged(e)
      BY <1>5, <3>3, <3>4, <3>6, Constants DEF AsFound, Exists, Aged, Underway
    <3>8. Underway(x, e)
      BY <3>4, <3>6, <3>7, RetoldUnderway
    <3> QED BY <1>5, <2>1, <3>7, <3>8, PutUnderway
  <2> QED BY <2>2, <2>3
<1> DEFINE holders == {p \in People : Named(d, p)}
<1>6. CASE Cardinality(holders) > 1
  <2>1. w \in PutNew(d, used, f, Unnamed, r)
    BY <1>6 DEF FromName
  <2> QED BY <1>1, <2>1
<1>7. CASE ~(Cardinality(holders) > 1) /\ holders # {}
  <2>1. \/ w \in Matched(d, used, f, r)
        \/ w = Put(d, used, f, CHOOSE p \in holders : TRUE, r)
    BY <1>7 DEF FromName
  <2>2. (CHOOSE p \in holders : TRUE) \in holders
    BY <1>7
  <2> HIDE DEF Call
  <2> QED BY <1>3, <1>4, <2>1, <2>2 DEF Named
<1>8. CASE ~(Cardinality(holders) > 1) /\ holders = {}
  <2>1. \/ w \in PutNew(d, used, f, Person(Name, FALSE, x), r)
        \/ \E p \in Match(d, used) : w = Put(Call(p), used, f, p, r)
    BY <1>8 DEF FromName
  <2> HIDE DEF Call
  <2> QED BY <1>2, <1>5, <2>1 DEF Match, Matchable
<1> QED BY <1>6, <1>7, <1>8

LEMMA FoundIs == Blank(NewFace(NoOne, FALSE, "found"))
  BY DEF NewFace, FaceRows, Blank

LEMMA IgnoredIs == Blank([NewFace(NoOne, FALSE, "found") EXCEPT !.ignored = TRUE])
  BY DEF NewFace, FaceRows, Blank

LEMMA CarriedIs ==
  ASSUME NEW old \in FaceRows, ~old.review, NEW b, NEW r, r = [old EXCEPT !.manual = old.manual \/ b, !.kind = "found"]
  PROVE  Blank(r)
<1>1. PICK c \in BOOLEAN : c = (old.manual \/ b)
  OBVIOUS
<1>2. r = [old EXCEPT !.manual = c, !.kind = "found"]
  BY <1>1
<1>3. r \in FaceRows /\ ~r.review
  BY <1>2 DEF FaceRows
<1> QED BY <1>3 DEF Blank, FaceRows

LEMMA DetectUnderway ==
  ASSUME IInv, NEW x \in Photos, Acceptable(x), NEW u, Underway(x, u.d), NEW f \in Faces, PhotoOf[f] = x,
         NEW w \in Detect(u, f)
  PROVE  Underway(x, w.d)
<1> DEFINE r == NewFace(NoOne, FALSE, "found")
           old == db.face[f]
           c == [old EXCEPT !.manual = old.manual \/ db.person[old.who].manual, !.kind = "found"]
<1>1. Carried(f) => old # NoFace /\ old \in FaceRows /\ old.who \in People /\ Exists(db, old.who) /\ ~old.review
  BY RowsAre DEF Carried, Acceptable, In, Live
<1>2. Decided(f) => Carried(f) /\ ~KeptOut(old.who, PhotoOf[f])
  BY DEF Decided, Carried, KeptOut, IInv, Fits, FoldersFit
<1>3. Decided(f) => ~old.ignored
  BY DEF Decided
<1>4. Blank(r) /\ Blank([r EXCEPT !.ignored = TRUE])
  BY FoundIs, IgnoredIs
<1>5. \A p \in People : Exists(db, p) => Exists(u.d, p)
  BY Constants DEF Underway, AsFound, Exists
<1>6. \/ Carried(f) /\ ~KeptOut(old.who, PhotoOf[f]) /\ w = Put(u.d, u.used, f, old.who, c)
      \/ Carried(f) /\ old.ignored /\ w \in PutNew(u.d, u.used, f, Unnamed, [r EXCEPT !.ignored = TRUE])
      \/ ~Carried(f) /\ w \in FromName(u.d, u.used, f, r)
      \/ ~(Carried(f) /\ ~KeptOut(old.who, PhotoOf[f])) /\ w \in Matched(u.d, u.used, f, r)
  BY DEF Detect
<1> HIDE DEF r, c
<1>7. CASE Carried(f) /\ ~KeptOut(old.who, PhotoOf[f]) /\ w = Put(u.d, u.used, f, old.who, c)
  <2>1. Blank(c)
    BY <1>1, <1>7, CarriedIs DEF c
  <2> QED BY <1>1, <1>5, <1>7, <2>1, PutUnderway
<1>8. CASE Carried(f) /\ old.ignored /\ w \in PutNew(u.d, u.used, f, Unnamed, [r EXCEPT !.ignored = TRUE])
  BY <1>3, <1>4, <1>8, UnnamedFits, PutNewUnderway
<1>9. CASE ~Carried(f) /\ w \in FromName(u.d, u.used, f, r)
  BY <1>2, <1>4, <1>9, FromNameUnderway
<1>10. CASE ~(Carried(f) /\ ~KeptOut(old.who, PhotoOf[f])) /\ w \in Matched(u.d, u.used, f, r)
  BY <1>2, <1>4, <1>10, MatchedUnderway
<1> QED BY <1>6, <1>7, <1>8, <1>9, <1>10

LEMMA DetectedUnderway ==
  ASSUME IInv, NEW x \in Photos, Acceptable(x), NEW n \in Nat, NEW order \in [1 .. n -> In(x)],
         NEW w \in Detected(x, order)
  PROVE  Underway(x, w.d)
<1> DEFINE A == {[d |-> db, used |-> {p \in People : KeptOut(p, x)} \cup Owners(db, Drawn(x))]}
           G(i, S) == UNION {Detect(u, order[i]) : u \in S}
           Done(k, g) == g = [i \in 0 .. k |-> IF i = 0 THEN A ELSE G(i, g[i - 1])]
<1>1. Len(order) = n
  BY SMT
<1>2. PICK a : a = CHOOSE g : Done(n, g)
  OBVIOUS
<1>3. w \in a[n]
  BY <1>1, <1>2 DEF Detected
<1>4. \E g : Done(n, g)
  <2> HIDE DEF A, G
  <2> DEFINE S == {k \in 0 .. n : \E g : Done(k, g)}
  <2>1. 0 \in S
    <3>1. PICK g : g = [i \in 0 .. 0 |-> A]
      OBVIOUS
    <3>2. Done(0, g)
      BY <3>1
    <3> HIDE DEF Done
    <3> QED BY <3>2
  <2>2. ASSUME NEW k \in 0 .. n, k \in S, k + 1 \in 0 .. n PROVE k + 1 \in S
    <3>1. PICK g : Done(k, g)
      BY <2>2
    <3> DEFINE h == [i \in 0 .. k + 1 |-> IF i = k + 1 THEN G(k + 1, g[k]) ELSE g[i]]
    <3>2. ASSUME NEW i \in 0 .. k + 1
          PROVE  h[i] = IF i = 0 THEN A ELSE G(i, h[i - 1])
      <4>1. CASE i = k + 1
        <5>1. h[k] = g[k]
          OBVIOUS
        <5> QED BY <4>1, <5>1
      <4>2. CASE i # k + 1
        <5>1. i \in 0 .. k /\ h[i] = g[i] /\ (i # 0 => h[i - 1] = g[i - 1])
          BY <4>2
        <5> QED BY <3>1, <5>1
      <4> QED BY <4>1, <4>2
    <3>3. h = [i \in 0 .. k + 1 |-> h[i]]
      OBVIOUS
    <3>4. Done(k + 1, h)
      <4> HIDE DEF h
      <4> QED BY <3>2, <3>3
    <3> QED BY <2>2, <3>4
  <2> HIDE DEF S
  <2>3. n \in S
    BY <2>1, <2>2, Stepwise
  <2> QED BY <2>3 DEF S
<1>5. Done(n, a)
  <2> HIDE DEF Done
  <2> QED BY <1>2, <1>4
<1>6. \A i \in 0 .. n : a[i] = IF i = 0 THEN A ELSE G(i, a[i - 1])
  <2> HIDE DEF A, G
  <2> QED BY <1>5
<1> DEFINE S == {k \in 0 .. n : \A u \in a[k] : Underway(x, u.d)}
<1>7. 0 \in S
  <2>1. Underway(x, db)
    BY RowsAre DEF Underway, SameRest, IInv, Sound, Decided
  <2>2. a[0] = A
    <3> HIDE DEF A, G
    <3> QED BY <1>6
  <2>3. \A u \in A : u.d = db
    OBVIOUS
  <2> HIDE DEF A, G
  <2> QED BY <2>1, <2>2, <2>3
<1>8. ASSUME NEW k \in 0 .. n, k \in S, k + 1 \in 0 .. n PROVE k + 1 \in S
  <2>1. ASSUME NEW v \in a[k + 1] PROVE Underway(x, v.d)
    <3>1. PICK u \in a[k] : v \in Detect(u, order[k + 1])
      <4>1. a[k + 1] = G(k + 1, a[(k + 1) - 1])
        <5> HIDE DEF A, G
        <5> QED BY <1>6, <1>8
      <4>2. (k + 1) - 1 = k
        OBVIOUS
      <4> QED BY <2>1, <4>1, <4>2
    <3>2. order[k + 1] \in Faces /\ PhotoOf[order[k + 1]] = x
      BY <1>8 DEF In
    <3> QED BY <1>8, <3>1, <3>2, DetectUnderway
  <2> QED BY <1>8, <2>1
<1> HIDE DEF S
<1>9. n \in S
  BY <1>7, <1>8, Stepwise
<1> QED BY <1>3, <1>9 DEF S

\* What an analysis writes: the faces that were found, without those it missed.
WithoutMissed(d, x, found) == [d EXCEPT !.face = [f \in Faces |-> IF f \in Missed(x, found) THEN NoFace ELSE d.face[f]]]
LEMMA UnderwayReady ==
  ASSUME IInv, NEW x \in Photos, Acceptable(x), NEW d, Underway(x, d), NEW found,
         NEW e, e = WithoutMissed(d, x, found), NEW people, people = Owners(db, In(x)) \cup Owners(e, In(x))
  PROVE  /\ people \in SUBSET People /\ Ready(e, media, people) /\ Dropped(e, people)
         /\ \A f \in Faces : Decided(f) => e.face[f] # NoFace /\ e.face[f].who = db.face[f].who
<1>1. /\ d \in Tables /\ SameRest(db, d) /\ d.excl = db.excl /\ Aged(d)
      /\ \A p \in People : d.person[p] = db.person[p] \/ AsFound(x, d, p)
      /\ \A f \in Faces : \/ d.face[f] = db.face[f]
                          \/ PhotoOf[f] = x /\ d.face[f] \in FaceRows /\ ~d.face[f].review /\ Exists(d, d.face[f].who)
      /\ \A f \in Faces : Decided(f) => d.face[f] # NoFace /\ d.face[f].who = db.face[f].who
  BY DEF Underway
<1> DEFINE g == [f \in Faces |-> IF f \in Missed(x, found) THEN NoFace ELSE d.face[f]]
<1>2. /\ g \in [Faces -> MaybeFace]
      /\ \A f \in Faces : g[f] = IF f \in Missed(x, found) THEN NoFace ELSE d.face[f]
  BY <1>1, FieldsAre DEF MaybeFace
<1>3. e = [d EXCEPT !.face = g]
  BY DEF WithoutMissed
<1> HIDE DEF g
<1>4. /\ e \in Tables /\ SameRest(db, e) /\ e.excl = db.excl /\ e.person = d.person /\ e.fresh = d.fresh /\ e.face = g
  BY <1>1, <1>2, <1>3 DEF Tables, SameRest
<1>5. \A f \in Faces : f \in Missed(x, found) => PhotoOf[f] = x /\ ~Carried(f)
  BY DEF Missed, In
<1>6. ASSUME NEW f \in Faces
      PROVE  \/ e.face[f] = NoFace /\ (PhotoOf[f] = x \/ db.face[f] = NoFace)
             \/ PhotoOf[f] # x /\ e.face[f] = db.face[f] /\ db.face[f] # NoFace
             \/ /\ PhotoOf[f] = x /\ e.face[f] \in FaceRows /\ e.face[f].who \in People /\ ~e.face[f].review
                /\ Exists(e, e.face[f].who) /\ e.face[f] # NoFace
  <2>1. \A p \in People : Exists(e, p) = Exists(d, p)
    BY <1>4 DEF Exists
  <2>2. \A p \in People : Exists(db, p) => Exists(e, p)
    BY <1>1, <2>1, Constants DEF Exists, AsFound
  <2>3. CASE f \in Missed(x, found)
    BY <1>2, <1>4, <1>5, <2>3
  <2>4. CASE f \notin Missed(x, found) /\ d.face[f] = db.face[f]
    <3>1. e.face[f] = db.face[f]
      BY <1>2, <1>4, <2>4
    <3>2. db.face[f] # NoFace /\ PhotoOf[f] = x => ~db.face[f].review
      BY DEF Acceptable, In, Live
    <3> QED BY <2>2, <3>1, <3>2, RowsAre
  <2>5. CASE f \notin Missed(x, found) /\ PhotoOf[f] = x /\ d.face[f] \in FaceRows /\ ~d.face[f].review /\ Exists(d, d.face[f].who)
    <3>1. e.face[f] = d.face[f]
      BY <1>2, <1>4, <2>5
    <3>2. d.face[f].who \in People /\ d.face[f] # NoFace
      BY <2>5, Constants DEF FaceRows
    <3> QED BY <2>1, <2>5, <3>1, <3>2
  <2> QED BY <1>1, <2>3, <2>4, <2>5
<1>7. /\ media[x] = "public"
      /\ e.kept = db.kept /\ e.hidden = db.hidden /\ e.refs = db.refs /\ e.open = db.open /\ e.rebuild = db.rebuild
  BY <1>4 DEF Acceptable, SameRest
<1>8. people \in SUBSET People
  <2>1. \A f \in Faces : db.face[f] # NoFace => db.face[f].who \in People
    BY RowsAre
  <2>2. \A f \in In(x) \cap Live(e) : e.face[f].who \in People
    BY <1>6 DEF In, Live
  <2>3. Owners(db, In(x)) \subseteq People
    BY <2>1 DEF Owners, Live
  <2>4. Owners(e, In(x)) \subseteq People
    BY <2>2 DEF Owners
  <2> QED BY <2>3, <2>4
<1>9. \A p \in People : Exists(db, p) => Exists(e, p)
  BY <1>1, <1>4, Constants DEF Exists, AsFound
<1>10. Owned(e) /\ Placed(e, media)
  <2>1. ASSUME NEW f \in Faces PROVE /\ e.face[f] # NoFace => Exists(e, e.face[f].who)
                                     /\ e.kept[f] # NoFace => Exists(e, e.kept[f].who)
    BY <1>6, <1>7, <1>9, RowsAre
  <2>2. ASSUME NEW f \in Faces PROVE /\ e.face[f] # NoFace => media[PhotoOf[f]] = "public" /\ e.kept[f] = NoFace
                                     /\ e.kept[f] # NoFace => media[PhotoOf[f]] \in Private \cup Missing
    BY <1>6, <1>7, RowsAre
  <2> QED BY <2>1, <2>2 DEF Owned, Placed
<1>11. Sourced(e, media)
  <2>1. ASSUME NEW p \in People, Named(e, p), ~e.person[p].manual, e.person[p].from # Nowhere
        PROVE  media[e.person[p].from] \notin Veiled \cup {"gone"}
    <3>1. CASE d.person[p] = db.person[p]
      <4>1. Named(db, p)
        BY <1>4, <2>1, <3>1 DEF Named, Exists
      <4> QED BY <1>4, <2>1, <3>1, <4>1, RowsAre
    <3>2. CASE AsFound(x, d, p)
      BY <1>4, <1>7, <2>1, <3>2 DEF AsFound
    <3> QED BY <1>1, <3>1, <3>2
  <2> QED BY <2>1 DEF Sourced
<1>12. Remembered(e)
  <2>1. ASSUME NEW p \in People, e.hidden[p] # Nowhere
        PROVE  Exists(e, p) /\ (~Named(e, p) /\ ~e.person[p].manual => e.person[p].from \in {Nowhere, e.hidden[p]})
    <3>1. db.hidden[p] # Nowhere /\ Exists(db, p) /\ Exists(e, p)
      BY <1>7, <1>9, <2>1, RowsAre
    <3>2. CASE d.person[p] = db.person[p]
      <4>1. Named(e, p) = Named(db, p)
        BY <1>4, <3>2 DEF Named, Exists
      <4> QED BY <1>4, <1>7, <3>1, <3>2, <4>1, RowsAre
    <3>3. CASE AsFound(x, d, p)
      BY <1>4, <3>1, <3>3 DEF AsFound, Named
    <3> QED BY <1>1, <3>2, <3>3
  <2> QED BY <2>1 DEF Remembered
<1>13. Aged(e)
  BY <1>1, <1>4 DEF Aged, Exists
<1>14. \A f \in Faces : /\ PhotoOf[f] = x /\ db.face[f] # NoFace => db.face[f].who \in people
                        /\ PhotoOf[f] = x /\ e.face[f] # NoFace => e.face[f].who \in people
  BY DEF Owners, In, Live
<1>15. Tracked(e, people)
  <2>1. ASSUME NEW f \in Faces
        PROVE  \/ e.face[f] = NoFace \/ ReviewTurned(db, e, f)
               \/ db.face[f] # NoFace /\ e.face[f] # NoFace /\ Usable(e, f) = Usable(db, f) /\ e.face[f].who = db.face[f].who
               \/ db.face[f] # NoFace /\ db.face[f].who \in people /\ (Usable(e, f) => e.face[f].who \in people)
               \/ db.face[f] = NoFace /\ (Usable(e, f) => e.rebuild \/ e.face[f].who \in people)
    <3>1. CASE PhotoOf[f] # x /\ e.face[f] = db.face[f] /\ db.face[f] # NoFace
      BY <3>1 DEF Usable
    <3>2. CASE PhotoOf[f] = x /\ e.face[f] # NoFace
      BY <1>14, <3>2
    <3> QED BY <1>6, <3>1, <3>2
  <2> QED BY <1>7, <2>1 DEF Tracked
<1>16. Ready(e, media, people)
  <2>1. Distinct(e)
    BY <1>4, StayDistinct DEF SameRest
  <2> QED BY <2>1, <1>4, <1>7, <1>10, <1>11, <1>12, <1>13, <1>15, NotEmptied DEF Ready, Sound
<1>17. Dropped(e, people)
  <2>1. \A f \in Faces : db.refs[f] # NoOne => Usable(db, f) /\ db.refs[f] = db.face[f].who
    BY DEF IInv, Fits, RefsFit
  <2>2. ASSUME NEW f \in Faces, e.face[f] = NoFace \/ ReviewTurned(db, e, f) PROVE db.refs[f] \in people \cup {NoOne}
    <3>1. CASE PhotoOf[f] = x
      BY <1>14, <2>1, <3>1 DEF Usable
    <3>2. CASE PhotoOf[f] # x
      <4>1. db.face[f] = NoFace
        BY <1>6, <2>2, <3>2 DEF ReviewTurned
      <4> QED BY <2>1, <4>1 DEF Usable
    <3> QED BY <3>1, <3>2
  <2> QED BY <2>2 DEF Dropped
<1>18. ASSUME NEW f \in Faces, Decided(f) PROVE e.face[f] # NoFace /\ e.face[f].who = db.face[f].who
  <2>1. f \notin Missed(x, found)
    BY <1>5, <1>18 DEF Decided, Carried
  <2> QED BY <1>1, <1>2, <1>4, <1>18, <2>1
<1> QED BY <1>8, <1>16, <1>17, <1>18

LEMMA CommitDoes ==
  ASSUME IInv, NEW x \in Photos, NEW found \in SUBSET (In(x) \ Drawn(x)), CommitFaceResult(x, found)
  PROVE  \E e, people : /\ people \in SUBSET People /\ Ready(e, media, people) /\ Dropped(e, people) /\ Syncs(e, people)
                        /\ \A f \in Faces : Decided(f) => e.face[f] # NoFace /\ e.face[f].who = db.face[f].who
<1>0. PICK order \in SetToSeqs(found) : \E w \in Detected(x, order) :
          Syncs(WithoutMissed(w.d, x, found), Owners(db, In(x)) \cup Owners(WithoutMissed(w.d, x, found), In(x)))
  BY DEF CommitFaceResult, WithoutMissed
<1>1. PICK w \in Detected(x, order) : Syncs(WithoutMissed(w.d, x, found), Owners(db, In(x)) \cup Owners(WithoutMissed(w.d, x, found), In(x)))
  BY <1>0
<1>2. PICK n \in Nat : order \in [1 .. n -> In(x)]
  <2>1. Cardinality(found) \in Nat
    BY Constants, FS_Subset, FS_CardinalityType DEF In
  <2> QED BY <2>1 DEF SetToSeqs
<1>3. Acceptable(x)
  BY DEF CommitFaceResult
<1>4. Underway(x, w.d)
  BY <1>2, <1>3, DetectedUnderway
<1>5. PICK e : e = WithoutMissed(w.d, x, found)
  OBVIOUS
<1>6. PICK people : people = Owners(db, In(x)) \cup Owners(e, In(x))
  OBVIOUS
<1>7. Syncs(e, people)
  BY <1>1, <1>5, <1>6
<1>8. /\ people \in SUBSET People /\ Ready(e, media, people) /\ Dropped(e, people)
      /\ \A f \in Faces : Decided(f) => e.face[f] # NoFace /\ e.face[f].who = db.face[f].who
  BY <1>3, <1>4, <1>5, <1>6, UnderwayReady
<1> QED BY <1>7, <1>8

LEMMA CommitFaceResultKeeps ==
  ASSUME IInv, NEW x \in Photos, NEW found \in SUBSET (In(x) \ Drawn(x)), CommitFaceResult(x, found)
  PROVE  IInv'
<1>1. media' = media /\ media' \in Media /\ busy.kind # "sync"
  BY DEF CommitFaceResult, IInv
<1>2. PICK e, people : people \in SUBSET People /\ Ready(e, media, people) /\ Dropped(e, people) /\ Syncs(e, people)
  BY CommitDoes
<1> QED BY <1>1, <1>2, AfterSyncs

-----------------------------------------------------------------------------
(* All of it                                                                *)

LEMMA InitiallyTrue ==
  ASSUME Init
  PROVE  IInv
<1>1. PICK confirmed \in BOOLEAN :
         db = [face |-> [f \in Faces |-> NewFace(f, FALSE, "found")], kept |-> [f \in Faces |-> NoFace],
               person |-> [p \in People |->
                   IF p \in Imported THEN Person(Name, confirmed, IF confirmed THEN Nowhere ELSE PhotoOf[p])
                   ELSE IF p \in Faces THEN Unnamed ELSE NoPerson],
               hidden |-> [p \in People |-> Nowhere], excl |-> {}, refs |-> [f \in Faces |-> f],
               open |-> {}, rejected |-> {}, rebuild |-> FALSE, fresh |-> Cardinality(Faces) + 1]
  BY DEF Init
<1>2. Imported \subseteq Faces
  BY GroupsAssumption
<1> DEFINE face == [f \in Faces |-> NewFace(f, FALSE, "found")]
           kept == [f \in Faces |-> NoFace]
           person == [p \in People |->
                        IF p \in Imported THEN Person(Name, confirmed, IF confirmed THEN Nowhere ELSE PhotoOf[p])
                        ELSE IF p \in Faces THEN Unnamed ELSE NoPerson]
           hidden == [p \in People |-> Nowhere]
           refs == [f \in Faces |-> f]
<1>3. /\ face \in [Faces -> MaybeFace]
      /\ \A f \in Faces : face[f] \in FaceRows /\ face[f].who = f /\ ~face[f].ignored /\ ~face[f].review /\ face[f].kind = "found"
  <2>1. PICK no \in BOOLEAN : no = FALSE
    OBVIOUS
  <2>2. ASSUME NEW f \in Faces
        PROVE  LET r == NewFace(f, FALSE, "found") IN
               r \in FaceRows /\ r.who = f /\ ~r.ignored /\ ~r.review /\ r.kind = "found"
    BY <2>1, NewFaceIs, Constants
  <2> QED BY <2>2 DEF MaybeFace
<1>4. kept \in [Faces -> MaybeFace] /\ hidden \in [People -> Photos \cup {Nowhere}] /\ refs \in Graphs
  BY Constants DEF MaybeFace, Graphs
<1>5. /\ person \in [People -> PersonRows \cup {NoPerson}]
      /\ \A p \in Faces : person[p] # NoPerson
      /\ \A p \in People : person[p] # NoPerson => p \in Faces
      /\ \A p \in People : person[p] # NoPerson /\ ~person[p].manual /\ person[p].from # Nowhere => person[p].from \in Photos
  <2>1. ASSUME NEW p \in People
        PROVE  /\ person[p] \in PersonRows \cup {NoPerson}
               /\ p \in Faces <=> person[p] # NoPerson
    <3>1. CASE p \in Imported
      <4>1. PICK y \in Photos \cup {Nowhere} : y = IF confirmed THEN Nowhere ELSE PhotoOf[p]
        BY <1>2, <3>1, Constants
      <4>2. person[p] = Person(Name, confirmed, y)
        BY <3>1, <4>1
      <4> HIDE DEF person
      <4> QED BY <1>2, <3>1, <4>2, PersonIs
    <3>2. CASE p \in Faces \ Imported
      BY <3>2, UnnamedIs
    <3>3. CASE p \notin Faces
      BY <1>2, <3>3
    <3> QED BY <3>1, <3>2, <3>3
  <2>2. person \in [People -> PersonRows \cup {NoPerson}]
    BY <2>1
  <2> HIDE DEF person
  <2>3. \A r \in PersonRows : r.from \in Photos \cup {Nowhere}
    BY DEF PersonRows
  <2> QED BY <2>1, <2>2, <2>3, Constants
<1>6. Cardinality(Faces) + 1 \in Nat /\ \A p \in Faces : p < Cardinality(Faces) + 1
  BY Constants, GroupsAssumption
<1> HIDE DEF face, kept, person, hidden, refs
<1>7. /\ db \in Tables /\ db.face = face /\ db.kept = kept /\ db.person = person /\ db.hidden = hidden /\ db.refs = refs
      /\ db.excl = {} /\ db.open = {} /\ db.rejected = {} /\ db.rebuild = FALSE /\ db.fresh = Cardinality(Faces) + 1
  <2>1. db = [face |-> face, kept |-> kept, person |-> person, hidden |-> hidden, excl |-> {}, refs |-> refs,
              open |-> {}, rejected |-> {}, rebuild |-> FALSE, fresh |-> Cardinality(Faces) + 1]
    BY <1>1 DEF face, kept, person, hidden, refs
  <2> QED BY <1>3, <1>4, <1>5, <1>6, <2>1 DEF Tables
<1>8. /\ \A f \in Faces : kept[f] = NoFace /\ refs[f] = f
      /\ \A p \in People : hidden[p] = Nowhere
  BY DEF kept, refs, hidden
<1>9. media \in Media /\ \A x \in Photos : media[x] = "public"
  BY DEF Init, Media
<1>10. Sound(db, media)
  <2>1. Owned(db)
    BY <1>3, <1>5, <1>7, <1>8 DEF Owned, Exists
  <2>2. Placed(db, media)
    BY <1>7, <1>8, <1>9, Constants DEF Placed
  <2>3. Sourced(db, media)
    BY <1>5, <1>7, <1>9 DEF Sourced, Named, Exists
  <2>4. Remembered(db)
    BY <1>7, <1>8 DEF Remembered
  <2>5. Aged(db)
    BY <1>5, <1>6, <1>7 DEF Aged, Exists
  <2> QED BY <1>7, <2>1, <2>2, <2>3, <2>4, <2>5 DEF Sound
<1>11. Fits(db)
  <2>1. RefsFit(db)
    BY <1>3, <1>7, <1>8, Constants DEF RefsFit, Usable
  <2> QED BY <2>1, <1>7 DEF Fits, PairsFit, FoldersFit
<1>12. SeenFits(seen, db)
  <2>1. PICK ps \in SUBSET Faces : seen = [p \in People |-> IF p \in ps THEN ViewOf(db, p) ELSE NoView]
    BY DEF Init
  <2>2. \A p \in ps : p \in People /\ Exists(db, p) /\ ViewOf(db, p) \in Views
    BY <1>5, <1>7, Constants, ViewIs DEF Exists
  <2> QED BY <2>1, <2>2 DEF SeenFits
<1>13. GraphFits(graph, busy, db.refs)
  BY DEF Init, GraphFits, Works
<1> QED BY <1>9, <1>10, <1>11, <1>12, <1>13 DEF IInv

LEMMA StutterKeeps ==
  ASSUME IInv, UNCHANGED vars
  PROVE  IInv'
<1>1. db' = db /\ media' = media /\ graph' = graph /\ busy' = busy /\ seen' = seen
  BY DEF vars
<1> QED BY <1>1 DEF IInv

\* Whatever the analysis, the pass, the browser or the outside does next, the
\* tables, what clients saw of them and the copy of the references stay so.
LEMMA StepKeeps ==
  ASSUME IInv, [Next]_vars
  PROVE  IInv'
<1>1. CASE Analyse
  <2>1. \/ \E x \in Photos : BeginCommit(x)
        \/ \E x \in Photos : \E found \in SUBSET (In(x) \ Drawn(x)) : CommitFaceResult(x, found)
    BY <1>1 DEF Analyse
  <2> QED BY <2>1, BeginCommitKeeps, CommitFaceResultKeeps
<1>2. CASE GiveUp \/ SyncGraph
  BY <1>2, GiveUpKeeps, SyncGraphKeeps
<1>3. CASE Reconcile
  <2>1. \E f \in Faces : BeginBatch(f) \/ ReconcileGroup(f) \/ ReconcileFace(f) \/ SuggestMerge(f)
    BY <1>3 DEF Reconcile
  <2> QED BY <2>1, BeginBatchKeeps, ReconcileGroupKeeps, ReconcileFaceKeeps, SuggestMergeKeeps
<1>4. CASE Browser
  <2>1. CASE \E fs \in SUBSET Faces : EditFaces(fs)
    BY <2>1, EditFacesKeeps
  <2>2. CASE \E f \in Faces : RestoreSeparately(f) \/ AddDrawnFace(f) \/ \E b \in BOOLEAN : SetFaceFavorite(f, b)
    BY <2>2, RestoreSeparatelyKeeps, AddDrawnFaceKeeps, SetFaceFavoriteKeeps
  <2>3. CASE \E f \in Faces, n \in {NoName, Name}, kind \in {"found", "unread"} : ConfirmFaceSource(f, n, kind)
    BY <2>3, ConfirmFaceSourceKeeps
  <2>4. CASE \E p, q \in People : MergePeople(p, q)
    BY <2>4, MergePeopleKeeps
  <2>5. CASE \E q \in db.open : AcceptFaceMergeSuggestion(q) \/ RejectFaceMergeSuggestion(q)
    BY <2>5, AcceptKeeps, RejectKeeps
  <2>6. CASE \E p \in People, n \in {NoName, Name} : RenamePerson(p, n)
    BY <2>6, RenamePersonKeeps
  <2>7. CASE \E x \in Photos : UnignorePhotoFaces(x) \/ ResetIgnoredDirectoryFaces(x)
    BY <2>7, UnignorePhotoFacesKeeps
  <2>8. CASE SetFaceReferenceLimit
    BY <2>8, SetFaceReferenceLimitKeeps
  <2> QED BY <1>4, <2>1, <2>2, <2>3, <2>4, <2>5, <2>6, <2>7, <2>8 DEF Browser
<1>5. CASE Label
  <2>1. CASE \E ps \in SUBSET People : LabelPeople(ps)
    BY <2>1, LabelPeopleKeeps
  <2>2. CASE \E p \in People : LabelName(p) \/ LabelIgnore(p) \/ LabelRename(p)
    BY <2>2, LabelNameKeeps, LabelIgnoreKeeps
  <2>3. CASE \E p, q \in People : LabelAssign(p, q) \/ LabelMerge(p, q)
    BY <2>3, LabelAssignKeeps, LabelMergeKeeps
  <2>4. CASE \E p \in People, f \in Faces : LabelDetach(p, f) \/ \E b \in BOOLEAN : LabelFavorite(p, f, b)
    BY <2>4, LabelDetachKeeps, LabelFavoriteKeeps
  <2>5. CASE \E p \in People, fs \in SUBSET Faces : LabelFaces(p, fs)
    BY <2>5, LabelFacesKeeps
  <2>6. CASE \E q \in db.open : LabelSuggestion(q)
    BY <2>6, LabelSuggestionKeeps
  <2>7. CASE \E p \in People, x \in Photos : MoveFolder(p, x) \/ ExcludeFolder(p, x) \/ IncludeFolder(p, x)
    BY <2>7, MoveFolderKeeps, ExcludeFolderKeeps, IncludeFolderKeeps
  <2> QED BY <1>5, <2>1, <2>2, <2>3, <2>4, <2>5, <2>6, <2>7 DEF Label
<1>6. CASE Outside
  <2>1. \E x \in Photos : HidePhoto(x) \/ (\E changed \in BOOLEAN : ShowPhoto(x, changed))
                          \/ RetainPhoto(x) \/ RestorePhoto(x) \/ PurgePhoto(x) \/ ChangePhoto(x)
                          \/ \E private, changed \in BOOLEAN : RelocatePhoto(x, private, changed)
    BY <1>6 DEF Outside
  <2> QED BY <2>1, HidePhotoKeeps, ShowPhotoKeeps, RetainPhotoKeeps, RestorePhotoKeeps, RelocatePhotoKeeps, PurgePhotoKeeps, ChangePhotoKeeps
<1>7. CASE UNCHANGED vars
  BY <1>7, StutterKeeps
<1> QED BY <1>1, <1>2, <1>3, <1>4, <1>5, <1>6, <1>7 DEF Next

\* Every row hangs together, private and missing photos show no faces, and one
\* that turned private in the index no names, references are of
\* use, nobody is seen in a folder they are kept out of, and decisions are on
\* groups as they are: whatever is analysed, decided, hidden and brought back.
THEOREM GroupsHangTogether == Spec => []GroupsInv
<1>1. Init => IInv
  BY InitiallyTrue
<1>2. IInv /\ [Next]_vars => IInv'
  BY StepKeeps
<1>3. IInv => GroupsInv
  BY InvariantShows
<1> QED BY <1>1, <1>2, <1>3, PTL DEF Spec

-----------------------------------------------------------------------------
(* What the matcher and a pass leave alone                                  *)

HandsStay == \A f \in Faces : Decided(f) => db'.face[f] # NoFace /\ db'.face[f].who = db.face[f].who
PairsStay == \A f, g \in Faces : Apart(db, f, g) =>
                /\ {f, g} \subseteq Live(db') => db'.face[f].who # db'.face[g].who
                /\ (\E p \in People : Exists(db, p) /\ Gone(db', p)) => Apart(db', f, g)
Matching == busy.kind \in {"commit", "batch"} /\ busy' # busy
Staying == /\ Matching => HandsStay
           /\ (busy.kind = "batch" /\ busy' # busy) => PairsStay

\* Faces of one person are not of a pair that was rejected.
LEMMA ApartIs ==
  ASSUME IInv, NEW f \in Faces, NEW g \in Faces, Apart(db, f, g)
  PROVE  /\ db.face[f] # NoFace /\ db.face[g] # NoFace /\ db.face[f].who # db.face[g].who
         /\ \E q \in db.rejected : \/ q[1] = db.face[f].who /\ q[2] = db.face[g].who
                                   \/ q[2] = db.face[f].who /\ q[1] = db.face[g].who
<1>1. PICK q \in db.rejected : \/ q = <<db.face[f].who, db.face[g].who>> \/ q = <<db.face[g].who, db.face[f].who>>
  BY DEF Apart, Rejected
<1>2. q[1] # q[2]
  BY DEF IInv, Fits, PairsFit
<1> QED BY <1>1, <1>2 DEF Apart, Live

\* While every face stays with its person and everybody stays, all stays.
LEMMA UnmovedStays ==
  ASSUME IInv, db'.face = db.face, \A p \in People : Exists(db, p) => Exists(db', p)
  PROVE  HandsStay /\ PairsStay
<1>1. HandsStay
  BY DEF HandsStay, Decided
<1>2. PairsStay
  BY ApartIs DEF PairsStay, Gone
<1> QED BY <1>1, <1>2

LEMMA CommitStays ==
  ASSUME IInv, NEW x \in Photos, NEW found \in SUBSET (In(x) \ Drawn(x)), CommitFaceResult(x, found)
  PROVE  Staying
<1>1. PICK e, people : /\ people \in SUBSET People /\ Ready(e, media, people) /\ Syncs(e, people)
                       /\ \A f \in Faces : Decided(f) => e.face[f] # NoFace /\ e.face[f].who = db.face[f].who
  BY CommitDoes
<1>2. db'.face = e.face
  BY <1>1, WriteDoes DEF Ready, Sound, Syncs
<1>3. busy.kind # "batch"
  BY DEF CommitFaceResult
<1> QED BY <1>1, <1>2, <1>3 DEF Staying, HandsStay

LEMMA ReconcileGroupStays ==
  ASSUME IInv, NEW f \in Faces, ReconcileGroup(f)
  PROVE  Staying
<1>0. PICK s, t \in People, people \in SUBSET People : \E e :
            /\ Ready(e, media, people) /\ Syncs(e, people)
            /\ ~Vetoed(s, t) /\ (\A g \in Of(db, s) : Undecided(g)) /\ Regrouped(db, e, s, t) /\ Exists(db, t)
            /\ \A q \in db.rejected : <<Keeper(q[1], s, t), Keeper(q[2], s, t)>> \in e.rejected
  BY ReconcileGroupDoes
<1>1. PICK e :
            /\ Ready(e, media, people) /\ Syncs(e, people)
            /\ ~Vetoed(s, t) /\ (\A g \in Of(db, s) : Undecided(g)) /\ Regrouped(db, e, s, t) /\ Exists(db, t)
            /\ \A q \in db.rejected : <<Keeper(q[1], s, t), Keeper(q[2], s, t)>> \in e.rejected
  BY <1>0
<1>2. e \in Tables /\ Write(e, people)
  BY <1>1 DEF Ready, Sound, Syncs
<1>3. db'.face = e.face /\ db'.person = e.person /\ db'.rejected = {q \in e.rejected : Exists(e, q[1]) /\ Exists(e, q[2])}
  BY <1>1, <1>2, WriteDoes
<1>4. s # t /\ ~Rejected(db, s, t)
  BY <1>1 DEF Vetoed
<1>5. ASSUME NEW g \in Faces, db.face[g] # NoFace
      PROVE  db'.face[g] # NoFace /\ db'.face[g].who = Keeper(db.face[g].who, s, t)
  BY <1>1, <1>3, <1>5, Constants DEF Regrouped, Keeper
<1>6. HandsStay
  <2>1. ASSUME NEW g \in Faces, Decided(g) PROVE db'.face[g] # NoFace /\ db'.face[g].who = db.face[g].who
    <3>1. db.face[g] # NoFace /\ g \notin Of(db, s)
      BY <1>1, <2>1 DEF Decided, Undecided
    <3> QED BY <1>5, <3>1 DEF Of, Live, Keeper
  <2> QED BY <2>1 DEF HandsStay
<1>7. ASSUME NEW g \in Faces, NEW h \in Faces, Apart(db, g, h)
      PROVE  db'.face[g].who # db'.face[h].who /\ Apart(db', g, h)
  <2>1. db.face[g] # NoFace /\ db.face[h] # NoFace /\ db.face[g].who # db.face[h].who
    BY <1>7, ApartIs
  <2>2. PICK q \in db.rejected : \/ q[1] = db.face[g].who /\ q[2] = db.face[h].who
                                 \/ q[2] = db.face[g].who /\ q[1] = db.face[h].who
    BY <1>7, ApartIs
  <2>3. ~({db.face[g].who, db.face[h].who} = {s, t})
    BY <1>4, <1>7 DEF Apart, Rejected
  <2>4. db'.face[g].who # db'.face[h].who
    BY <1>5, <2>1, <2>3 DEF Keeper
  <2>5. PICK o : o = <<Keeper(q[1], s, t), Keeper(q[2], s, t)>>
    OBVIOUS
  <2>6. o \in e.rejected
    BY <1>1, <2>5
  <2>7. q[1] \in People /\ q[2] \in People /\ Exists(db, q[1]) /\ Exists(db, q[2])
    BY OwnersAre, FieldsAre DEF IInv, Fits, PairsFit
  <2>8. \A p \in People : Exists(db, p) => Exists(e, Keeper(p, s, t))
    BY <1>1, <1>4 DEF Regrouped, Keeper
  <2>9. o \in db'.rejected
    BY <1>3, <2>5, <2>6, <2>7, <2>8
  <2>10. o \in {<<db'.face[g].who, db'.face[h].who>>, <<db'.face[h].who, db'.face[g].who>>}
    BY <1>5, <2>1, <2>2, <2>5
  <2>11. g \in Live(db') /\ h \in Live(db')
    BY <1>5, <2>1 DEF Live
  <2> QED BY <2>4, <2>9, <2>10, <2>11 DEF Apart, Rejected
<1>8. PairsStay
  BY <1>7 DEF PairsStay
<1> QED BY <1>6, <1>8 DEF Staying

LEMMA ReconcileFaceStays ==
  ASSUME IInv, NEW f \in Faces, ReconcileFace(f)
  PROVE  Staying
<1>1. PICK s : s = db.face[f].who
  OBVIOUS
<1>2. PICK t \in People \ {s} : ~Rejected(db, s, t) /\ Matchable(db, t) /\ Syncs([db EXCEPT !.face[f].who = t], {s, t})
  BY <1>1 DEF ReconcileFace
<1>3. f \in Live(db) /\ db \in Tables /\ Undecided(f)
  BY OwnersAre DEF ReconcileFace, Turn, Undecided, Live
<1>4. s \in People /\ db.face[f] \in FaceRows
  BY <1>1, <1>3, OwnersAre
<1>5. PICK r : r = [db.face[f] EXCEPT !.who = t]
  OBVIOUS
<1>6. r \in FaceRows /\ r.who = t
  BY <1>4, <1>5 DEF FaceRows
<1>7. PICK d : d = PutRow(db, f, r)
  OBVIOUS
<1>8. d = [db EXCEPT !.face[f].who = t]
  BY <1>5, <1>7 DEF PutRow
<1>9. d \in Tables /\ d.person = db.person /\ d.face[f] = r /\ \A g \in Faces : g # f => d.face[g] = db.face[g]
  BY <1>3, <1>6, <1>7, PutRowDoes DEF MaybeFace
<1>10. PICK people \in SUBSET People : people = {s, t}
  BY <1>4
<1>11. db'.face = d.face /\ db'.person = d.person
  <2>1. Write(d, people)
    BY <1>2, <1>8, <1>10 DEF Syncs
  <2> QED BY <1>9, <2>1, WriteDoes
<1>12. HandsStay
  <2>1. ~Decided(f)
    BY <1>3 DEF Decided, Undecided
  <2> QED BY <1>9, <1>11, <2>1 DEF HandsStay, Decided
<1>13. PairsStay
  <2>1. \A p \in People : Exists(db, p) => ~Gone(db', p)
    BY <1>9, <1>11 DEF Exists, Gone
  <2>2. ASSUME NEW g \in Faces, NEW h \in Faces, Apart(db, g, h) PROVE db'.face[g].who # db'.face[h].who
    <3>1. db.face[g].who # db.face[h].who
      BY <2>2, ApartIs
    <3>2. ~({db.face[g].who, db.face[h].who} = {s, t})
      BY <1>2, <2>2 DEF Apart, Rejected
    <3>3. db'.face[f].who = t /\ \A k \in Faces : k # f => db'.face[k] = db.face[k]
      BY <1>6, <1>9, <1>11
    <3> QED BY <1>1, <3>1, <3>2, <3>3
  <2> QED BY <2>1, <2>2 DEF PairsStay
<1> QED BY <1>12, <1>13 DEF Staying

LEMMA SuggestMergeStays ==
  ASSUME IInv, NEW f \in Faces, SuggestMerge(f)
  PROVE  Staying
<1>1. PICK q : db' = [db EXCEPT !.open = @ \cup {q}]
  BY DEF SuggestMerge
<1>2. db'.face = db.face /\ db'.person = db.person
  BY <1>1, OwnersAre DEF Tables
<1> QED BY <1>2, UnmovedStays DEF Staying, Exists

\* The others neither have the matcher's turn nor end it.
LEMMA OthersStay ==
  ASSUME Next, ~GiveUp, ~Analyse, ~Reconcile
  PROVE  ~Matching
<1>1. CASE SyncGraph
  BY <1>1 DEF SyncGraph, Matching
<1>2. CASE Browser
  <2>1. Free \/ busy' = busy
    BY <1>2 DEF Browser, EditFaces, RestoreSeparately, AddDrawnFace, SetFaceFavorite, ConfirmFaceSource, MergePeople,
                AcceptFaceMergeSuggestion, RejectFaceMergeSuggestion, RenamePerson, UnignorePhotoFaces,
                ResetIgnoredDirectoryFaces, SetFaceReferenceLimit, Decides, Aside
  <2> QED BY <2>1, FreeIs DEF Matching, Free, Idle
<1>3. CASE Label
  <2>1. Free \/ busy' = busy
    BY <1>3 DEF Label, LabelPeople, LabelName, LabelIgnore, LabelRename, LabelAssign, LabelMerge, LabelDetach, LabelFavorite,
                LabelFaces, LabelSuggestion, MoveFolder, ExcludeFolder, IncludeFolder, Decides
  <2> QED BY <2>1 DEF Matching, Free, Idle
<1>4. CASE Outside
  <2>1. Free \/ busy' = busy
    BY <1>4 DEF Outside, HidePhoto, ShowPhoto, RetainPhoto, RestorePhoto, RelocatePhoto, PurgePhoto, ChangePhoto, Aside
  <2> QED BY <2>1 DEF Matching, Free, Idle
<1> QED BY <1>1, <1>2, <1>3, <1>4 DEF Next

LEMMA StepStays ==
  ASSUME IInv, [Next]_vars
  PROVE  [Staying]_vars
<1>1. ASSUME Next PROVE Staying
  <2>1. CASE GiveUp
    BY <2>1, UnmovedStays DEF GiveUp, Staying
  <2>2. CASE \E x \in Photos : BeginCommit(x)
    BY <2>2 DEF BeginCommit, Begin, Free, Idle, Staying, Matching
  <2>3. CASE \E x \in Photos : \E found \in SUBSET (In(x) \ Drawn(x)) : CommitFaceResult(x, found)
    BY <2>3, CommitStays
  <2>4. CASE \E f \in Faces : BeginBatch(f)
    BY <2>4 DEF BeginBatch, Begin, Free, Idle, Staying, Matching
  <2>5. CASE \E f \in Faces : ReconcileGroup(f) \/ ReconcileFace(f) \/ SuggestMerge(f)
    BY <2>5, ReconcileGroupStays, ReconcileFaceStays, SuggestMergeStays
  <2>6. CASE ~GiveUp /\ ~Analyse /\ ~Reconcile
    BY <1>1, <2>6, OthersStay DEF Staying, Matching
  <2>7. Analyse => (\E x \in Photos : BeginCommit(x)) \/ (\E x \in Photos : \E found \in SUBSET (In(x) \ Drawn(x)) : CommitFaceResult(x, found))
    BY DEF Analyse
  <2>8. Reconcile => (\E f \in Faces : BeginBatch(f)) \/ (\E f \in Faces : ReconcileGroup(f) \/ ReconcileFace(f) \/ SuggestMerge(f))
    BY DEF Reconcile
  <2> QED BY <2>1, <2>2, <2>3, <2>4, <2>5, <2>6, <2>7, <2>8
<1> QED BY <1>1

\* The matcher neither moves nor deletes a face somebody decided upon, and a
\* pass leaves apart what was rejected as a pair, also once one of the two
\* groups has joined another.
THEOREM DecisionsStayAlways == Spec => DecisionsStay
<1>1. Init => IInv
  BY InitiallyTrue
<1>2. IInv /\ [Next]_vars => IInv'
  BY StepKeeps
<1>3. IInv /\ [Next]_vars => [Staying]_vars
  BY StepStays
<1> QED BY <1>1, <1>2, <1>3, PTL DEF Spec, DecisionsStay, Staying, Matching, HandsStay, PairsStay

=============================================================================
