------------------------------ MODULE FaceGroups ------------------------------
(***************************************************************************)
(* FaceGroups: whom a face is given to.  The analysis of a photo, a pass   *)
(* over the saved faces and people move faces between groups, join, name,  *)
(* split and reject groups and keep them out of folders; meanwhile photos  *)
(* become private, go missing, come back and are written again.  The       *)
(* matcher works on a copy of the references in memory, and a client may   *)
(* act on a group only as it has seen it.                                  *)
(* A face stands for a region of a photo; likeness is left open: any group *)
(* the code lets the matcher choose from may be the most alike.            *)
(***************************************************************************)
EXTENDS Integers, FiniteSets, SequencesExt

CONSTANTS
    Faces,         \* 1..n, in the order they were found in first
    Photos,
    PhotoOf,       \* the photo of a face; each photo is in a folder of its own
    Imported,      \* faces the photo's own metadata gives the name
    Name,          \* the one name there is
    MaxPeople,     \* bound: groups ever made
    MaxEvents,     \* bound: analyses, decisions of people, changes of photos
    MaxViews,      \* groups a client looks at
    NoFace, NoPerson, NoName, Nowhere, NoOne, NoGraph, NoView

VARIABLES
    db,            \* photo_faces, photo_people and what hangs on them
    media,         \* per photo: "public", or what it is instead, below
    graph,         \* faceRuntime: the references in memory; NoGraph as well when
                   \* their revision is not the database's, for they are read again
    busy,          \* what holds faceRuntime.mu
    seen,          \* per group: what a client saw of it at its revision of now
    events

vars == <<db, media, graph, busy, seen, events>>

People == 1..MaxPeople
FaceRows == [who : People, manual : BOOLEAN, ignored : BOOLEAN, favorite : BOOLEAN, review : BOOLEAN,
             kind : {"found", "drawn", "unread"}]
PersonRows == [name : {NoName, Name}, manual : BOOLEAN, from : Photos \cup {Nowhere}]
Graphs == [Faces -> People \cup {NoOne}]
Views == [name : {NoName, Name}, faces : SUBSET Faces, favorites : SUBSET Faces, folders : SUBSET Photos]

ASSUME GroupsAssumption ==
    /\ IsFiniteSet(Faces) /\ Faces = 1..Cardinality(Faces) /\ PhotoOf \in [Faces -> Photos] /\ Imported \subseteq Faces
    /\ {MaxPeople, MaxEvents, MaxViews} \subseteq Nat /\ Cardinality(Faces) <= MaxPeople
    /\ NoFace \notin FaceRows /\ NoPerson \notin PersonRows /\ NoOne \notin People /\ NoName # Name
    /\ Nowhere \notin Photos /\ NoGraph \notin Graphs /\ NoView \notin Views

In(x) == {f \in Faces : PhotoOf[f] = x}

\* Photos that are not public.  In the index: "private" turned private there,
\* "returned" came back as a private one.  Missing: with its row kept as a
\* public one ("missing"), as a private one since it was "private" ("lost") or
\* since its folder was moved into a private one meanwhile ("moved").
Missing == {"missing", "lost", "moved"}
Private == {"private", "returned"}
\* The names of a photo are hidden when its row in the index turns private, and
\* then only: a row that is kept or inserted as a private one hides none.
Veiled == {"private", "lost"}

-----------------------------------------------------------------------------
(* The tables: face and kept, the rows of photo_faces and of the hidden     *)
(* ones; person with its name and where the name is from; hidden names;     *)
(* excl, folders a person is kept out of; refs; open and rejected pairs;    *)
(* rebuild, references are to be selected again; fresh, the next id.        *)
(* kind of a face: found by the service, drawn by hand, or unread since the *)
(* photo changed.                                                           *)

Live(d) == {f \in Faces : d.face[f] # NoFace}
Of(d, p) == {f \in Live(d) : d.face[f].who = p}
Active(d, p) == {f \in Of(d, p) : ~d.face[f].ignored}
Photographed(d, p) == {PhotoOf[f] : f \in Active(d, p)}
Exists(d, p) == d.person[p] # NoPerson
Named(d, p) == Exists(d, p) /\ d.person[p].name # NoName
Usable(d, f) == LET r == d.face[f] IN r # NoFace /\ ~r.ignored /\ ~r.review /\ r.kind = "found"
Rejected(d, p, q) == {<<p, q>>, <<q, p>>} \cap d.rejected # {}
Kept(d, x) == {f \in In(x) : d.kept[f] # NoFace}

NewFace(p, manual, kind) ==
    [who |-> p, manual |-> manual, ignored |-> FALSE, favorite |-> FALSE, review |-> FALSE, kind |-> kind]
Person(name, manual, from) == [name |-> name, manual |-> manual, from |-> from]
Room(d) == d.fresh \in People
Add(d, person) == [d EXCEPT !.person[d.fresh] = person, !.fresh = @ + 1]

\* The guards on photo_faces abort what brings a face of a person into a
\* folder the person is kept out of.
Guarded(d, e) ==
    \A f \in Live(e) : <<e.face[f].who, PhotoOf[f]>> \in e.excl =>
        d.face[f] # NoFace /\ d.face[f].who = e.face[f].who /\ (d.face[f].ignored => e.face[f].ignored)

\* References of these people are selected anew.
Refresh_Adds(d, people) ==      \* mutant: what is of no use any more stays
    [d EXCEPT !.refs = [f \in Faces |-> IF Usable(d, f) /\ d.face[f].who \in people THEN d.face[f].who ELSE d.refs[f]]]
Refresh(d, people) ==
    [d EXCEPT !.refs = [f \in Faces |->
        IF Usable(d, f) /\ d.face[f].who \in people THEN d.face[f].who
        ELSE IF d.refs[f] \in people THEN NoOne ELSE d.refs[f]]]

\* The triggers, from what a transaction did to the rows
ReviewTurned(d, e, f) == d.face[f] # NoFace /\ e.face[f] # NoFace /\ d.face[f].review # e.face[f].review
Shown(d, f) == IF d.face[f] = NoFace THEN NoFace ELSE [d.face[f] EXCEPT !.kind = "found"]
OwnersOf(d, f) == IF d.face[f] = NoFace THEN {} ELSE {d.face[f].who}
Revised(d, e) ==
    {p \in People : d.person[p] # e.person[p] \/ {x \in Photos : <<p, x>> \in d.excl} # {x \in Photos : <<p, x>> \in e.excl}}
    \cup UNION {OwnersOf(d, f) \cup OwnersOf(e, f) : f \in {f \in Faces : Shown(d, f) # Shown(e, f)}}
Gone(d, p) == ~Exists(d, p)
Bumped(e) == \E f \in Live(db) : e.face[f] = NoFace \/ ReviewTurned(db, e, f)

Triggered(e, revised) ==
    LET Old(q) == q[1] \in revised \/ q[2] \in revised
        Dead(q) == Gone(e, q[1]) \/ Gone(e, q[2])
    IN  [e EXCEPT !.refs = [f \in Faces |-> IF e.face[f] = NoFace \/ ReviewTurned(db, e, f) THEN NoOne ELSE e.refs[f]],
                  !.rebuild = @ \/ \E f \in Faces : ReviewTurned(db, e, f) /\ ~e.face[f].review,
                  !.excl = {q \in e.excl : Exists(e, q[1])},
                  !.open = {q \in e.open : ~Old(q) /\ ~Dead(q)},
                  !.rejected = {q \in e.rejected : ~Dead(q)}]

\* A transaction that the guards let pass, and the copy of the references:
\* left by writers of the index, dropped by some decisions, brought up to date
\* after the others.
Write(new, people) ==
    \E e \in {new} : \E revised \in {Revised(db, e)} :
        /\ Guarded(db, e)
        /\ db' = Refresh(Triggered(e, revised), people)
        /\ seen' = [p \in People |-> IF p \in revised THEN NoView ELSE seen[p]]
Idle == [kind |-> "idle"]
Free == busy = Idle
Aside(e) == Write(e, {}) /\ graph' = (IF Bumped(e) THEN NoGraph ELSE graph) /\ UNCHANGED busy
Drops(e, people) == Write(e, people) /\ graph' = NoGraph /\ busy' = Idle
Syncs(e, people) ==
    /\ Write(e, people)
    /\ graph' = graph
    /\ busy' = IF graph = NoGraph THEN Idle ELSE [kind |-> "sync", people |-> people]
Happens == events < MaxEvents /\ events' = events + 1

Owners(d, fs) == {d.face[f].who : f \in fs \cap Live(d)}
Give(d, fs, p) == [d EXCEPT !.face = [f \in Faces |-> IF f \in fs THEN [@[f] EXCEPT !.who = p, !.manual = TRUE] ELSE @[f]]]
Ignore(d, fs) == [d EXCEPT !.face = [f \in Faces |-> IF f \in fs THEN [@[f] EXCEPT !.ignored = TRUE, !.manual = TRUE] ELSE @[f]]]
Unignore(d, fs) == [d EXCEPT !.face = [f \in Faces |-> IF f \in fs THEN [@[f] EXCEPT !.ignored = FALSE] ELSE @[f]]]
Favored(d, fs, b) == [d EXCEPT !.face = [f \in Faces |-> IF f \in fs THEN [@[f] EXCEPT !.favorite = b] ELSE @[f]]]

-----------------------------------------------------------------------------
(* Joining groups                                                           *)

\* mergePersonFolderExclusionsTx: a face in a folder the other is kept out of
Conflict(d, s, t) == \E x \in Photos : \/ <<s, x>> \in d.excl /\ Of(d, t) \cap In(x) # {}
                                       \/ <<t, x>> \in d.excl /\ Of(d, s) \cap In(x) # {}
InheritExclusions(d, s, t) == [d EXCEPT !.excl = @ \cup {<<t, x>> : x \in {x \in Photos : <<s, x>> \in d.excl}}]

\* mergeRetainedPersonTx: hidden faces and a hidden name follow.
FollowHidden(d, s, t, manual) ==
    LET takes == d.hidden[s] # Nowhere /\ d.hidden[t] = Nowhere /\ ~d.person[t].manual /\ ~Named(d, t)
                 /\ d.person[t].from \in {Nowhere, d.hidden[s]}
        e == [d EXCEPT !.hidden[t] = IF takes THEN d.hidden[s] ELSE @, !.hidden[s] = Nowhere,
                       !.kept = [f \in Faces |-> IF @[f] # NoFace /\ @[f].who = s
                                                  THEN [@[f] EXCEPT !.who = t, !.manual = d.kept[f].manual \/ manual] ELSE @[f]]]
    IN  IF ~Named(e, t) /\ ~e.person[t].manual /\ e.person[t].from = Nowhere /\ e.hidden[t] # Nowhere
        THEN [e EXCEPT !.person[t].from = e.hidden[t]] ELSE e

\* mergePersonTx: what a person joins is confirmed.
Merged(d, s, t) ==
    LET e == InheritExclusions(d, s, t)
        n == [e EXCEPT !.person[t] = IF ~Named(d, t) /\ Named(d, s) THEN d.person[s] ELSE @]
    IN  [FollowHidden(Give(n, Of(n, s), t), s, t, TRUE) EXCEPT !.person[s] = NoPerson]

\* mergeAutomaticFaceGroupTx: what the matcher joins stays unconfirmed, and
\* what was rejected stays rejected.
MergedAutomatically_Forgets(d, s, t) ==     \* mutant: rejections go with the group
    LET e == InheritExclusions(d, s, t)
        n == [e EXCEPT !.face = [f \in Faces |-> IF f \in Of(d, s) THEN [@[f] EXCEPT !.who = t] ELSE @[f]]]
    IN  [FollowHidden(n, s, t, FALSE) EXCEPT !.person[s] = NoPerson]
MergedAutomatically(d, s, t) ==
    LET e == InheritExclusions(d, s, t)
        moved == {<<IF q[1] = s THEN t ELSE q[1], IF q[2] = s THEN t ELSE q[2]>> : q \in {q \in d.rejected : s \in {q[1], q[2]}}}
        n == [e EXCEPT !.rejected = @ \cup moved, !.open = @ \ moved,
                       !.face = [f \in Faces |-> IF f \in Of(d, s) THEN [@[f] EXCEPT !.who = t] ELSE @[f]]]
    IN  [FollowHidden(n, s, t, FALSE) EXCEPT !.person[s] = NoPerson]

-----------------------------------------------------------------------------
(* The matcher                                                              *)

\* ensureFaceGraph
Selected(d) == IF d.rebuild THEN [Refresh(d, People) EXCEPT !.rebuild = FALSE] ELSE d
Begin(work) ==
    /\ Free /\ Happens
    /\ db' = Selected(db)
    /\ graph' = Selected(db).refs
    /\ busy' = work
    /\ UNCHANGED <<media, seen>>
BeginCommit(x) == media[x] = "public" /\ Begin([kind |-> "commit", photo |-> x])
Matchable(d, p) == Exists(d, p) /\ \E f \in Faces : graph[f] = p /\ d.face[f] # NoFace /\ d.face[f].who = p /\ Usable(d, f)

\* One detected face: what is decided of the face that was there goes on;
\* else the name in the photo, else the most alike group, else a new one.
Carried(f) == LET r == db.face[f] IN
    r # NoFace /\ (r.manual \/ db.person[r.who].manual \/ r.ignored \/ r.favorite)
KeptOut(p, x) == <<p, x>> \in db.excl
Put(d, used, f, p, r) == [d |-> [d EXCEPT !.face[f] = [r EXCEPT !.who = p]], used |-> used \cup {p}]
PutNew(d, used, f, person, r) == IF Room(d) THEN {Put(Add(d, person), used, f, d.fresh, r)} ELSE {}
Unnamed == Person(NoName, FALSE, Nowhere)
Match(d, used) == {p \in People \ used : Matchable(d, p)}
Matched(d, used, f, r) ==
    {Put(d, used, f, p, r) : p \in Match(d, used)} \cup PutNew(d, used, f, Unnamed, r)
FromName(d, used, f, r) ==
    LET x == PhotoOf[f]
        holders == {p \in People : Named(d, p)}
        Call(p) == IF d.person[p].manual THEN d ELSE [d EXCEPT !.person[p].name = Name, !.person[p].from = x]
    IN  IF Cardinality(holders) > 1 THEN PutNew(d, used, f, Unnamed, r)
        ELSE IF holders # {} THEN LET p == CHOOSE p \in holders : TRUE
             IN  IF KeptOut(p, x) THEN Matched(d, used, f, r) ELSE {Put(d, used, f, p, r)}
        ELSE {Put(Call(p), used, f, p, r) : p \in {p \in Match(d, used) : ~Named(d, p)}}
             \cup PutNew(d, used, f, Person(Name, FALSE, x), r)
Detect(w, f) ==
    LET r == NewFace(NoOne, FALSE, "found")
        old == db.face[f]
        c == [old EXCEPT !.manual = @ \/ db.person[old.who].manual, !.kind = "found"]
    IN  IF Carried(f) /\ ~KeptOut(old.who, PhotoOf[f]) THEN {Put(w.d, w.used, f, old.who, c)}
        ELSE IF Carried(f) /\ old.ignored THEN PutNew(w.d, w.used, f, Unnamed, [r EXCEPT !.ignored = TRUE])
        ELSE IF ~Carried(f) /\ f \in Imported THEN FromName(w.d, w.used, f, r)
        ELSE Matched(w.d, w.used, f, r)
Drawn(x) == {f \in In(x) \cap Live(db) : db.face[f].kind = "drawn"}
Detected(x, order) ==
    LET after[i \in 0..Len(order)] ==
            IF i = 0 THEN {[d |-> db, used |-> {p \in People : KeptOut(p, x)} \cup Owners(db, Drawn(x))]}
            ELSE UNION {Detect(w, order[i]) : w \in after[i - 1]}
    IN  after[Len(order)]
Missed(x, found) == {f \in (In(x) \cap Live(db)) \ (found \cup Drawn(x)) : ~Carried(f)}

\* CommitFaceResult: refused when the photo or the references changed.
Acceptable(x) == /\ media[x] = "public" /\ graph # NoGraph
                 /\ \A f \in In(x) \cap Live(db) : ~db.face[f].review
CommitFaceResult(x, found) ==
    /\ busy = [kind |-> "commit", photo |-> x]
    /\ Acceptable(x)
    /\ \E order \in SetToSeqs(found) : \E w \in Detected(x, order) :
           LET e == [w.d EXCEPT !.face = [f \in Faces |-> IF f \in Missed(x, found) THEN NoFace ELSE @[f]]]
           IN  Syncs(e, Owners(db, In(x)) \cup Owners(e, In(x)))
    /\ UNCHANGED <<media, events>>
\* Refused, failed or cancelled, it leaves nothing behind.
GiveUp ==
    /\ busy.kind \in {"commit", "batch"}
    /\ busy' = Idle
    /\ UNCHANGED <<db, media, graph, seen, events>>

Refreshed(people) ==
    [f \in Faces |-> IF db.refs[f] \in people THEN db.refs[f] ELSE IF graph[f] \in people THEN NoOne ELSE graph[f]]
SyncGraph ==
    /\ busy.kind = "sync"
    /\ graph' = (IF graph = NoGraph THEN NoGraph ELSE Refreshed(busy.people))
    /\ busy' = Idle
    /\ UNCHANGED <<db, media, seen, events>>

-----------------------------------------------------------------------------
(* A pass over the saved faces: one face, in a transaction of its own       *)

Undecided(f) == LET r == db.face[f] IN
    r # NoFace /\ ~r.manual /\ ~r.favorite /\ Usable(db, f) /\ f \notin Imported
    /\ ~Named(db, r.who) /\ ~db.person[r.who].manual
BeginBatch(f) == Undecided(f) /\ Begin([kind |-> "batch", face |-> f])
Trusted(p) == Named(db, p) /\ db.person[p].manual
Loose(p) == ~Named(db, p) /\ ~db.person[p].manual
Meet(p, q) == Photographed(db, p) \cap Photographed(db, q) # {}
Turn(f) == busy = [kind |-> "batch", face |-> f] /\ graph # NoGraph /\ Undecided(f) /\ UNCHANGED <<media, events>>

Vetoed(p, q) == p = q \/ Meet(p, q) \/ Conflict(db, p, q) \/ Rejected(db, p, q)
ReconcileGroup(f) ==
    LET s == db.face[f].who IN
    /\ Turn(f)
    /\ (\E g \in Faces : graph[g] = s) /\ \A g \in Of(db, s) : Undecided(g)
    /\ \E t \in People : /\ Matchable(db, t) /\ ~Vetoed(s, t) /\ (Trusted(t) \/ Loose(t))
                         /\ Syncs(MergedAutomatically(db, s, t), {s, t})

\* Without whole groups, a face alone may go to a person somebody named.
ReconcileFace(f) ==
    LET s == db.face[f].who IN
    /\ Turn(f)
    /\ \E t \in People \ {s} :
          /\ Matchable(db, t) /\ Trusted(t) /\ ~KeptOut(t, PhotoOf[f]) /\ PhotoOf[f] \notin Photographed(db, t)
          /\ ~Rejected(db, s, t)
          /\ Syncs([db EXCEPT !.face[f].who = t], {s, t})

\* cacheFaceMergeSuggestion: one pair of unnamed groups, whichever finds it.
SuggestMerge(f) ==
    LET s == db.face[f].who IN
    /\ Turn(f)
    /\ \E t \in People \ {s} :
          /\ Matchable(db, t) /\ (Named(db, t) \/ Loose(t)) /\ ~KeptOut(t, PhotoOf[f])
          /\ ~Meet(s, t) /\ ~Rejected(db, s, t)
          /\ db' = [db EXCEPT !.open = @ \cup {IF ~Named(db, t) /\ t < s THEN <<t, s>> ELSE <<s, t>>}]
    /\ busy' = Idle
    /\ UNCHANGED <<graph, seen>>

-----------------------------------------------------------------------------
(* Decisions in the browser                                                 *)

Decides == Free /\ Happens /\ UNCHANGED media
Present(p) == Exists(db, p) /\ Active(db, p) # {}
Called(d, p) == [d EXCEPT !.person[p] = Person(Name, TRUE, Nowhere)]
MoveTo(fs, p) == Unignore(Give(db, fs, p), fs)

\* editFaces: to a group there is, to a new one, apart, or out of sight
EditFaces(fs) ==
    /\ Decides
    /\ fs # {} /\ fs \subseteq Live(db)
    /\ \/ \E t \in People : Present(t) /\ Drops(MoveTo(fs, t), Owners(db, fs) \cup {t})
       \/ \E n \in {NoName, Name} : Room(db) /\ Drops(Add(MoveTo(fs, db.fresh), Person(n, TRUE, Nowhere)), Owners(db, fs) \cup {db.fresh})
       \/ Drops(Ignore(db, fs), Owners(db, fs))
RestoreSeparately(f) ==
    /\ Decides
    /\ f \in Live(db) /\ db.face[f].ignored /\ Room(db)
    /\ Drops(Add(MoveTo({f}, db.fresh), Person(NoName, TRUE, Nowhere)), Owners(db, {f}) \cup {db.fresh})

\* mergePeopleChecked: two groups, with a name for the rest or for a pair that
\* was suggested; groups that meet in a photo may be joined by hand.
MergePeople(s, t) ==
    /\ Decides
    /\ s # t /\ Present(s) /\ Present(t) /\ ~Conflict(db, s, t)
    /\ \/ Drops(Merged(db, s, t), {s, t})
       \/ Drops(Merged(Called(db, t), s, t), {s, t})
AcceptFaceMergeSuggestion(q) ==
    /\ Decides
    /\ q \in db.open /\ ~Meet(q[1], q[2]) /\ Present(q[1]) /\ Present(q[2]) /\ ~Conflict(db, q[1], q[2])
    /\ Drops(Merged(db, q[1], q[2]), {q[1], q[2]})
\* These two do not wait for the matcher.
RejectFaceMergeSuggestion(q) ==
    /\ q \in db.open
    /\ Happens
    /\ db' = [db EXCEPT !.open = @ \ {q}, !.rejected = @ \cup {q}]
    /\ UNCHANGED <<media, graph, busy, seen>>
RenamePerson(p, n) ==
    /\ Present(p)
    /\ Happens
    /\ Aside([db EXCEPT !.person[p] = Person(n, TRUE, Nowhere)])
    /\ UNCHANGED media

SetFaceFavorite(f, b) ==
    /\ Decides
    /\ f \in Live(db) /\ ~db.face[f].ignored /\ db.face[f].favorite # b
    /\ Syncs(Favored(db, {f}, b), Owners(db, {f}))
AddDrawnFace(f) ==
    /\ Decides
    /\ media[PhotoOf[f]] = "public" /\ db.face[f] = NoFace
    /\ \/ \E t \in People : Present(t) /\ Drops([db EXCEPT !.face[f] = NewFace(t, TRUE, "drawn")], {t})
       \/ Room(db) /\ Drops(Add([db EXCEPT !.face[f] = NewFace(db.fresh, TRUE, "drawn")], Person(Name, TRUE, Nowhere)), {db.fresh})
\* ConfirmFaceSource: the old vector is of no use unless the service finds the
\* face where it is now.
ConfirmFaceSource(f, n, kind) ==
    LET p == db.face[f].who
        holders == {q \in People : Named(db, q)}
        Confirmed(d, q) == [Give(d, {f}, q) EXCEPT !.face[f].review = FALSE, !.face[f].kind = IF @ = "drawn" THEN @ ELSE kind]
    IN
    /\ Decides
    /\ f \in Live(db) /\ db.face[f].review
    /\ IF n = db.person[p].name THEN Drops(Confirmed(db, p), {p})
       ELSE IF n = Name /\ holders # {} THEN \E q \in holders : holders = {q} /\ Drops(Confirmed(db, q), {p, q})
       ELSE Room(db) /\ Drops(Add(Confirmed(db, db.fresh), Person(n, TRUE, Nowhere)), {p, db.fresh})
UnignorePhotoFaces(x) ==
    LET fs == {f \in In(x) \cap Live(db) : db.face[f].ignored}
        displayed == {f \in fs : ~db.face[f].review}
    IN
    /\ Decides
    /\ displayed # {}
    /\ Syncs(Unignore(db, fs), Owners(db, displayed))
ResetIgnoredDirectoryFaces(x) ==
    LET fs == {f \in In(x) \cap Live(db) : db.face[f].ignored /\ ~Named(db, db.face[f].who)} IN
    /\ Decides
    /\ fs # {}
    /\ Syncs(Unignore(db, fs), Owners(db, fs))
SetFaceReferenceLimit ==
    /\ Decides
    /\ db' = [db EXCEPT !.rebuild = TRUE]
    /\ graph' = NoGraph
    /\ UNCHANGED <<busy, seen>>

-----------------------------------------------------------------------------
(* Decisions of a client on a group as it has seen it: at another revision  *)
(* they are refused.                                                        *)

ViewOf(d, p) == [name |-> d.person[p].name, faces |-> Active(d, p), favorites |-> {f \in Active(d, p) : d.face[f].favorite},
                 folders |-> {x \in Photos : <<p, x>> \in d.excl}]
\* A person without faces is shown for the sake of its folders only.
Viewable(p) == Present(p) \/ \E x \in Photos : <<p, x>> \in db.excl
LabelPeople(ps) ==
    /\ Happens
    /\ ps # {} /\ Cardinality(ps) <= MaxViews /\ \A p \in ps : Viewable(p)
    /\ seen' = [p \in People |-> IF p \in ps THEN ViewOf(db, p) ELSE NoView]
    /\ UNCHANGED <<db, media, graph, busy>>
Current(p) == Present(p) /\ seen[p] # NoView

\* Groups without a name: naming, joining, ignoring and splitting them
LabelName(p) == /\ Decides /\ Current(p) /\ ~Named(db, p) /\ Drops(Called(db, p), {p})
LabelAssign(p, t) ==
    LET e == InheritExclusions(db, p, t) IN
    /\ Decides
    /\ Current(p) /\ Current(t) /\ p # t /\ ~Named(db, p) /\ Named(db, t) /\ ~Conflict(db, p, t)
    /\ Drops(Give(e, Active(e, p), t), {p, t})
LabelIgnore(p) == /\ Decides /\ Current(p) /\ ~Named(db, p) /\ Drops(Ignore(db, Active(db, p)), {p})
LabelDetach(p, f) ==
    /\ Decides
    /\ Current(p) /\ ~Named(db, p) /\ f \in Active(db, p) /\ Cardinality(Active(db, p)) > 1 /\ Room(db)
    /\ Drops(Add(Give(db, {f}, db.fresh), Person(NoName, TRUE, Nowhere)), {p, db.fresh})
\* Groups with a name: renaming them and sorting their faces
LabelRename(p) == /\ Decides /\ Current(p) /\ Named(db, p) /\ Syncs(Called(db, p), {p})
LabelFavorite(p, f, b) ==
    /\ Decides
    /\ Current(p) /\ Named(db, p) /\ f \in Active(db, p) /\ db.face[f].favorite # b
    /\ Syncs(Favored(db, {f}, b), {p})
LabelFaces(p, fs) ==
    /\ Decides
    /\ Current(p) /\ Named(db, p) /\ fs # {} /\ fs \subseteq Active(db, p)
    /\ \/ Syncs(Ignore(db, fs), {p})
       \/ \E t \in People \ {p} : Current(t) /\ Named(db, t) /\ Syncs(Give(db, fs, t), {p, t})
       \/ Room(db) /\ Syncs(Add(Give(db, fs, db.fresh), Person(Name, TRUE, Nowhere)), {p, db.fresh})
       \/ Room(db) /\ Syncs(Add(Favored(Give(db, fs, db.fresh), fs, FALSE), Person(NoName, TRUE, Nowhere)), {p, db.fresh})
\* Any groups, and pairs that were suggested
LabelMerge(s, t) ==
    /\ Decides
    /\ Current(s) /\ Current(t) /\ s # t /\ ~Conflict(db, s, t)
    /\ \/ Drops(Merged(db, s, t), {s, t})
       \/ Drops(Merged(Called(db, t), s, t), {s, t})
LabelSuggestion(q) ==
    LET s == q[1]
        t == q[2]
    IN
    /\ Decides
    /\ q \in db.open /\ Current(s) /\ Present(t) /\ ~Meet(s, t)
    /\ \/ ~Conflict(db, s, t) /\ Drops(Merged(db, s, t), {s, t})
       \/ ~Named(db, s) /\ ~Named(db, t) /\ ~Conflict(db, s, t) /\ Drops(Merged(Called(db, t), s, t), {s, t})
       \/ \E p \in People \ {s, t} :
             LET e == Merged(db, s, p) IN
             /\ ~Named(db, s) /\ ~Named(db, t) /\ Current(p) /\ Named(db, p)
             /\ ~Conflict(db, s, p) /\ ~Conflict(e, t, p)
             /\ Drops(Merged(e, t, p), {s, t, p})
       \/ Write([db EXCEPT !.open = @ \ {q}, !.rejected = @ \cup {q}], {}) /\ UNCHANGED <<graph, busy>>

\* applyPersonFolderAction: all faces of a person in a folder
MoveFolder(p, x) ==
    LET fs == Active(db, p) \cap In(x) IN
    /\ Decides
    /\ Exists(db, p) /\ seen[p] # NoView /\ fs # {}
    /\ \/ \E t \in People \ {p} : Present(t) /\ Named(db, t) /\ Drops(Give(db, fs, t), {p, t})
       \/ Room(db) /\ (\A q \in People : ~Named(db, q)) /\ Drops(Add(Give(db, fs, db.fresh), Person(Name, TRUE, Nowhere)), {p, db.fresh})
       \/ Room(db) /\ Drops(Add(Favored(Give(db, fs, db.fresh), fs, FALSE), Person(NoName, TRUE, Nowhere)), {p, db.fresh})
       \/ Drops(Ignore(db, fs), {p})
ExcludeFolder(p, x) ==
    LET fs == Active(db, p) \cap In(x)
        e == [db EXCEPT !.excl = @ \cup {<<p, x>>}]
    IN
    /\ Decides
    /\ Exists(db, p) /\ seen[p] # NoView /\ fs # {} /\ Room(db)
    /\ Drops(Add(Favored(Give(e, fs, db.fresh), fs, FALSE), Person(NoName, TRUE, Nowhere)), {p, db.fresh})
IncludeFolder(p, x) ==
    /\ Decides
    /\ Exists(db, p) /\ seen[p] # NoView /\ <<p, x>> \in db.excl
    /\ Drops([db EXCEPT !.excl = @ \ {<<p, x>>}], {p})

-----------------------------------------------------------------------------
(* Photos become private, go missing, are moved, come back and change       *)

Hides(p, x) == Named(db, p) /\ db.person[p].from = x /\ ~db.person[p].manual
Away(d, x) == [d EXCEPT !.kept = [f \in Faces |-> IF f \in In(x) /\ d.face[f] # NoFace THEN d.face[f] ELSE @[f]],
                        !.face = [f \in Faces |-> IF f \in In(x) THEN NoFace ELSE @[f]]]
Back(d, x) == [d EXCEPT !.face = [f \in Faces |-> IF f \in In(x) THEN d.kept[f] ELSE @[f]],
                        !.kept = [f \in Faces |-> IF f \in In(x) THEN NoFace ELSE @[f]]]

\* photo_identity_private and photo_identity_public; there may be another
\* version of the photo by then.
HidePhoto(x) ==
    /\ media[x] = "public" /\ Happens
    /\ media' = [media EXCEPT ![x] = "private"]
    /\ Aside([Away(db, x) EXCEPT !.hidden = [p \in People |-> IF Hides(p, x) THEN x ELSE @[p]],
                                  !.person = [p \in People |-> IF Hides(p, x) THEN [@[p] EXCEPT !.name = NoName] ELSE @[p]]])
ShowPhoto(x, changed) ==
    LET e == Back(db, x)
        Regains(p) == Exists(db, p) /\ ~db.person[p].manual /\ ~Named(db, p) /\ db.hidden[p] = x
    IN
    /\ media[x] \in Private /\ Happens
    /\ media' = [media EXCEPT ![x] = "public"]
    /\ Aside([e EXCEPT !.face = [f \in Faces |-> IF f \in In(x) /\ @[f] # NoFace THEN [@[f] EXCEPT !.review = e.face[f].review \/ changed] ELSE @[f]],
                        !.person = [p \in People |-> IF Regains(p) THEN [@[p] EXCEPT !.name = Name] ELSE @[p]],
                        !.hidden = [p \in People |-> IF @[p] = x THEN Nowhere ELSE @[p]],
                        !.rebuild = TRUE])

\* retainSelectionTx, restoreEntityTx and purgeEntityTx: a private photo has no
\* faces in the index to keep, and those kept aside stay there when it returns.
RetainPhoto(x) ==
    /\ media[x] \in {"public"} \cup Private /\ Happens
    /\ media' = [media EXCEPT ![x] = CASE @ = "public" -> "missing" [] @ = "private" -> "lost" [] @ = "returned" -> "moved"]
    /\ Aside(Away(db, x))
RestorePhoto(x) ==
    /\ Happens
    /\ \/ /\ media[x] = "missing" /\ media' = [media EXCEPT ![x] = "public"]
          /\ Write(Back(db, x), {db.kept[f].who : f \in Kept(db, x)})
       \/ /\ media[x] \in {"lost", "moved"} /\ media' = [media EXCEPT ![x] = IF @ = "lost" THEN "private" ELSE "returned"]
          /\ UNCHANGED <<db, seen>>
    /\ graph' = NoGraph /\ UNCHANGED busy
\* relocatePhotoFolder, for a photo that is missing: its row is kept as a public
\* or a private one, as the folder that it is looked for in is.
RelocatePhoto(x, private, changed) ==
    /\ Free /\ Happens
    /\ media[x] \in Missing
    /\ media' = [media EXCEPT ![x] = IF ~private THEN "missing" ELSE IF @ = "missing" THEN "moved" ELSE @]
    /\ Drops([db EXCEPT !.kept = [f \in Faces |-> IF f \in Kept(db, x)
                                                  THEN [db.kept[f] EXCEPT !.review = db.kept[f].review \/ changed] ELSE db.kept[f]]],
             {db.kept[f].who : f \in Kept(db, x)})
PurgePhoto(x) ==
    /\ media[x] \in Missing /\ Happens
    /\ media' = [media EXCEPT ![x] = "gone"]
    /\ Aside([db EXCEPT !.kept = [f \in Faces |-> IF f \in In(x) THEN NoFace ELSE @[f]],
                         !.hidden = [p \in People |-> IF @[p] = x THEN Nowhere ELSE @[p]],
                         !.person = [p \in People |-> IF Exists(db, p) /\ db.person[p].from = x /\ ~db.person[p].manual
                                                       THEN Unnamed ELSE @[p]]])
\* photo_media_faces_invalidate
ChangePhoto(x) ==
    /\ media[x] = "public" /\ Happens
    /\ \E f \in In(x) \cap Live(db) : ~db.face[f].review
    /\ Aside([db EXCEPT !.face = [f \in Faces |-> IF f \in In(x) /\ @[f] # NoFace THEN [@[f] EXCEPT !.review = TRUE] ELSE @[f]]])
    /\ UNCHANGED media

-----------------------------------------------------------------------------
\* Both photos were analysed, each face is in a group of its own, and somebody
\* may have confirmed the names that were imported; a client looks at a group.
Init ==
    /\ \E confirmed \in BOOLEAN :
         db = [face |-> [f \in Faces |-> NewFace(f, FALSE, "found")], kept |-> [f \in Faces |-> NoFace],
               person |-> [p \in People |->
                   IF p \in Imported THEN Person(Name, confirmed, IF confirmed THEN Nowhere ELSE PhotoOf[p])
                   ELSE IF p \in Faces THEN Unnamed ELSE NoPerson],
               hidden |-> [p \in People |-> Nowhere], excl |-> {}, refs |-> [f \in Faces |-> f],
               open |-> {}, rejected |-> {}, rebuild |-> FALSE, fresh |-> Cardinality(Faces) + 1]
    /\ media = [x \in Photos |-> "public"]
    /\ graph = NoGraph /\ busy = Idle /\ events = 0
    /\ \E ps \in SUBSET Faces : Cardinality(ps) <= 1 /\ seen = [p \in People |-> IF p \in ps THEN ViewOf(db, p) ELSE NoView]

Analyse == \E x \in Photos : BeginCommit(x) \/ \E found \in SUBSET (In(x) \ Drawn(x)) : CommitFaceResult(x, found)
Reconcile == \E f \in Faces : BeginBatch(f) \/ ReconcileGroup(f) \/ ReconcileFace(f) \/ SuggestMerge(f)
Browser ==
    \/ \E fs \in SUBSET Faces : EditFaces(fs)
    \/ \E f \in Faces : RestoreSeparately(f) \/ AddDrawnFace(f) \/ \E b \in BOOLEAN : SetFaceFavorite(f, b)
    \/ \E f \in Faces, n \in {NoName, Name}, kind \in {"found", "unread"} : ConfirmFaceSource(f, n, kind)
    \/ \E p, q \in People : MergePeople(p, q)
    \/ \E q \in db.open : AcceptFaceMergeSuggestion(q) \/ RejectFaceMergeSuggestion(q)
    \/ \E p \in People, n \in {NoName, Name} : RenamePerson(p, n)
    \/ \E x \in Photos : UnignorePhotoFaces(x) \/ ResetIgnoredDirectoryFaces(x)
    \/ SetFaceReferenceLimit
Label ==
    \/ \E ps \in SUBSET People : LabelPeople(ps)
    \/ \E p \in People : LabelName(p) \/ LabelIgnore(p) \/ LabelRename(p)
    \/ \E p, q \in People : LabelAssign(p, q) \/ LabelMerge(p, q)
    \/ \E p \in People, f \in Faces : LabelDetach(p, f) \/ \E b \in BOOLEAN : LabelFavorite(p, f, b)
    \/ \E p \in People, fs \in SUBSET Faces : LabelFaces(p, fs)
    \/ \E q \in db.open : LabelSuggestion(q)
    \/ \E p \in People, x \in Photos : MoveFolder(p, x) \/ ExcludeFolder(p, x) \/ IncludeFolder(p, x)
Outside ==
    \E x \in Photos : HidePhoto(x) \/ (\E changed \in BOOLEAN : ShowPhoto(x, changed))
                      \/ RetainPhoto(x) \/ RestorePhoto(x) \/ PurgePhoto(x) \/ ChangePhoto(x)
                      \/ \E private, changed \in BOOLEAN : RelocatePhoto(x, private, changed)
Next == Analyse \/ GiveUp \/ SyncGraph \/ Reconcile \/ Browser \/ Label \/ Outside
Spec == Init /\ [][Next]_vars

-----------------------------------------------------------------------------
(* Correctness                                                              *)

\* Whatever is merged, moved, hidden and restored, every row hangs together.
\*  - A face, seen or hidden, belongs to a person there is.
\*  - Faces that are served are of public photos, and only those kept aside
\*    are of private and missing ones.  No name that is on record as read from
\*    a photo is to be seen once the photo is gone, or from when it turned
\*    private in the index until it is public again; of a photo that went
\*    missing as a public one and came back as a private one it is.
\*  - Exactly the faces of use are references of their owner, unless they are
\*    to be selected again.
\*  - Suggested and rejected pairs are of people there are; groups that were
\*    suggested do not meet in a photo.
OwnersExist == \A f \in Faces : /\ db.face[f] # NoFace => Exists(db, db.face[f].who)
                                /\ db.kept[f] # NoFace => Exists(db, db.kept[f].who)
PrivateIsHidden ==
    /\ \A f \in Faces : /\ db.face[f] # NoFace => media[PhotoOf[f]] = "public" /\ db.kept[f] = NoFace
                        /\ db.kept[f] # NoFace => media[PhotoOf[f]] \in Private \cup Missing
    /\ \A p \in People : Named(db, p) /\ ~db.person[p].manual /\ db.person[p].from # Nowhere =>
                             media[db.person[p].from] \notin Veiled \cup {"gone"}
ReferencesAreOfUse ==
    \A f \in Faces : /\ db.refs[f] # NoOne => Usable(db, f) /\ db.refs[f] = db.face[f].who
                     /\ Usable(db, f) => db.rebuild \/ db.refs[f] # NoOne
PairsExist == /\ \A q \in db.open \cup db.rejected : Exists(db, q[1]) /\ Exists(db, q[2])
              /\ \A q \in db.open : ~Meet(q[1], q[2])
              /\ \A p \in People : db.hidden[p] # Nowhere => Exists(db, p)
\*  - The copy of the references the matcher uses is the one it would read.
GraphIsTrue == busy.kind # "sync" /\ graph # NoGraph => graph = db.refs
\*  - Nobody is seen in a folder they are kept out of, whoever moves, merges,
\*    restores or finds faces.
ExclusionHolds == \A f \in Live(db) : ~db.face[f].ignored => <<db.face[f].who, PhotoOf[f]>> \notin db.excl
\*  - A decision that is let through is on the group as the client saw it: its
\*    name, its faces, the marked ones and its folders.
SeenIsTrue == \A p \in People : seen[p] # NoView => Exists(db, p) /\ seen[p] = ViewOf(db, p)
GroupsInv == /\ OwnersExist /\ PrivateIsHidden /\ ReferencesAreOfUse /\ PairsExist /\ GraphIsTrue
             /\ ExclusionHolds /\ SeenIsTrue

\* The matcher neither moves nor deletes a face that was decided upon, and a
\* pass brings no faces together whose groups were rejected as a pair; the
\* rejection outlives the group it was of.
Decided(f) == db.face[f] # NoFace /\ ~db.face[f].ignored /\ (db.face[f].manual \/ db.face[f].favorite)
Apart(d, f, g) == {f, g} \subseteq Live(d) /\ Rejected(d, d.face[f].who, d.face[g].who)
DecisionsStay ==
    [][/\ (busy.kind \in {"commit", "batch"} /\ busy' # busy) => \A f \in Faces :
              Decided(f) => db'.face[f] # NoFace /\ db'.face[f].who = db.face[f].who
       /\ (busy.kind = "batch" /\ busy' # busy) => \A f, g \in Faces : Apart(db, f, g) =>
              /\ {f, g} \subseteq Live(db') => db'.face[f].who # db'.face[g].who
              /\ (\E p \in People : Exists(db, p) /\ Gone(db', p)) => Apart(db', f, g)]_vars
=============================================================================
