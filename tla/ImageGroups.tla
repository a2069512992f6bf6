----------------------------- MODULE ImageGroups -----------------------------
(***************************************************************************)
(* ImageGroups: images of one motif that a gallery shows as one.  Members  *)
(* refer to identities, which outlive rows: an image goes missing and      *)
(* comes back while its group is changed.  Which member is shown is a flag *)
(* in its row, kept up to date by triggers of the database.                *)
(***************************************************************************)
EXTENDS Naturals, Sequences, FiniteSets, FiniteSetsExt

CONSTANTS
    MaxImages,            \* bound: identities, numbered as they are found
    MaxImageGroupSize,
    MaxGroups,            \* bound: groups made, numbered likewise
    MaxGroupEdits         \* bound: changes by users, and moves

VARIABLES
    album,       \* photo_entities, media_index and the tables of groups
    opened,      \* the group a client has open, as it was read
    astray,      \* history: images and groups whose flags nobody keeps any more
    groupEdits   \* changes so far

groupVars == <<album, opened, astray, groupEdits>>

GroupsAssumption ==
    /\ MaxImages \in Nat /\ MaxGroups \in Nat /\ MaxGroupEdits \in Nat
    /\ MaxImageGroupSize \in Nat \ {0, 1}

Images == 1 .. MaxImages
GroupIds == 1 .. MaxGroups
NoImage == 0
NoGroup == 0
Ended == [primary |-> NoImage, revision |-> 0]    \* also of ids that are still free
Closed == [group |-> NoGroup, revision |-> 0, members |-> {}, primary |-> NoImage]

\* The place of an image: its identity is yet to come, has a row, is missing
\* with its row kept, or is purged.  hidden is image_group_hidden of the row,
\* also of the one kept.
Unknown == [at |-> "new", hidden |-> FALSE, private |-> FALSE, group |-> NoGroup]
Live(d, e) == d.image[e].at = "here"
MembersOf(d, g) == {e \in Images : d.image[e].group = g}
Exists(d, g) == d.group[g].revision > 0
Picked(s) == {s[i] : i \in DOMAIN s}

\* imageGroupPrimarySQL over the members ms: the chosen image, else the first
\* live member; whether the chosen one is still a member is not asked.
Serving(d, g, ms) ==
    LET p == d.group[g].primary
        live == {e \in ms : Live(d, e)}
    IN IF p # NoImage /\ Live(d, p) THEN p ELSE IF live = {} THEN NoImage ELSE Min(live)
PrimaryID(d, g) ==
    LET s == Serving(d, g, MembersOf(d, g)) IN IF s = NoImage THEN d.group[g].primary ELSE s

\* refreshImageGroupSQL: the flags of all live members, by the one that serves.
Refreshed(d, g) ==
    IF g = NoGroup THEN d
    ELSE LET s == Serving(d, g, MembersOf(d, g))
         IN [d EXCEPT !.image = [e \in Images |->
                IF d.image[e].group = g /\ Live(d, e) THEN [d.image[e] EXCEPT !.hidden = e # s] ELSE d.image[e]]]

\* The trigger of a member's insertion sets its flag alone, row by row.
Joined(d, g, s) ==
    [d EXCEPT !.image = [e \in Images |->
        IF e \in Picked(s)
        THEN LET now == MembersOf(d, g) \cup {s[i] : i \in {k \in DOMAIN s : \A j \in DOMAIN s : s[j] = e => k <= j}}
             IN [d.image[e] EXCEPT !.group = g, !.hidden = e # Serving(d, g, now)]
        ELSE d.image[e]]]

Bumped_Not(d, g) == d    \* Variant: a change leaves the revision alone.
Bumped(d, g) == [d EXCEPT !.group[g].revision = @ + 1]
Chosen(d, g, e) == Refreshed([d EXCEPT !.group[g].primary = e], g)

\* The trigger of a member's deletion.  A row that is kept keeps its flag.  With
\* one member left the group ends, and no trigger runs for that member.
Left(d, e) ==
    LET g == d.image[e].group
        out == [d EXCEPT !.image[e] = [d.image[e] EXCEPT !.group = NoGroup, !.hidden = ~Live(d, e) /\ d.image[e].hidden]]
    IN IF Cardinality(MembersOf(out, g)) < 2
       THEN [out EXCEPT
             !.image = [o \in Images |-> [out.image[o] EXCEPT !.group = IF out.image[o].group = g THEN NoGroup ELSE out.image[o].group]],
             !.group = [@ EXCEPT ![g] = Ended]]
       ELSE Refreshed(Bumped(out, g), g)
Dissolved(d, g) ==
    [d EXCEPT
        !.image = [o \in Images |-> IF d.image[o].group = g
                                 THEN [d.image[o] EXCEPT !.group = NoGroup, !.hidden = ~Live(d, o) /\ d.image[o].hidden]
                                 ELSE d.image[o]],
        !.group = [@ EXCEPT ![g] = Ended]]

\* A group is astray once its chosen image has been taken out while it was
\* missing, until another one is chosen.  An image is when it leaves a group while
\* it is missing, with the flag it has, or when such a group ends.
Astray(d, next) ==
    [groups |-> {g \in GroupIds : /\ Exists(next, g) /\ next.group[g].primary = d.group[g].primary
                                  /\ g \in astray.groups \/ next.group[g].primary \notin MembersOf(next, g)},
     images |-> astray.images \cup
                {e \in Images : /\ d.image[e].group # NoGroup /\ next.image[e].group = NoGroup
                                /\ ~Live(d, e) \/ d.image[e].group \in astray.groups}]
Write(next) == album' = next /\ astray' = Astray(album, next)
GroupEdit == groupEdits < MaxGroupEdits /\ groupEdits' = groupEdits + 1
NoEdit == UNCHANGED <<opened, groupEdits>>

-----------------------------------------------------------------------------
(* The index                                                                *)

At(e, place) == [album EXCEPT !.image[e].at = place]
\* An image is indexed for the first time.
Find(e) == /\ album.image[e].at = "new" /\ \A o \in Images : o < e => album.image[o].at # "new"
           /\ Write(At(e, "here")) /\ NoEdit
\* retainSelectionTx and the removal of the row, restoreEntityTx, purgeEntityTx.
GoMissing(e) == Live(album, e) /\ Write(Refreshed(At(e, "missing"), album.image[e].group)) /\ NoEdit
Return(e) == album.image[e].at = "missing" /\ Write(Refreshed(At(e, "here"), album.image[e].group)) /\ NoEdit
Purge(e) == /\ album.image[e].at = "missing"
            /\ Write(IF album.image[e].group = NoGroup THEN At(e, "purged") ELSE Left(At(e, "purged"), e))
            /\ NoEdit
Move(e) == /\ Live(album, e) /\ album.image[e].group # NoGroup /\ GroupEdit
           /\ Write(Refreshed(album, album.image[e].group)) /\ UNCHANGED opened
\* A folder gets or loses its marker.
MarkPrivate(e) == /\ album.image[e].at \in {"here", "missing"} /\ GroupEdit
                  /\ Write([album EXCEPT !.image[e].private = ~@]) /\ UNCHANGED opened

-----------------------------------------------------------------------------
(* What users do                                                            *)

Seen(d, g) == [group |-> g, revision |-> d.group[g].revision, members |-> MembersOf(d, g), primary |-> d.group[g].primary]
\* ImageGroup and visibleImageGroup: members that are private are left out, a
\* private image that stands for the group closes it to others than admins.
Open(g, admin) ==
    /\ Exists(album, g)
    /\ admin \/ /\ \E e \in MembersOf(album, g) : ~album.image[e].private
                /\ \A e \in MembersOf(album, g) : e = PrimaryID(album, g) => ~album.image[e].private
    /\ opened' = Seen(album, g) /\ UNCHANGED <<album, astray, groupEdits>>

\* imageGroupCandidates and ungroupedImageEntities.
Candidates(s, admin) ==
    /\ \A i, j \in DOMAIN s : s[i] = s[j] => i = j
    /\ \A e \in Picked(s) : Live(album, e) /\ album.image[e].group = NoGroup /\ (admin \/ ~album.image[e].private)
Selections == UNION {[1 .. n -> Images] : n \in 1 .. MaxImageGroupSize}

CreateImageGroup(s, primary, admin) ==
    LET g == album.made + 1
        empty == [album EXCEPT !.made = g, !.group = [@ EXCEPT ![g] = [primary |-> primary, revision |-> 1]]]
    IN /\ g \in GroupIds /\ GroupEdit
       /\ Len(s) >= 2 /\ primary \in Picked(s) /\ Candidates(s, admin)
       /\ Write(Joined(empty, g, s)) /\ UNCHANGED opened

\* changeImageGroupRevision, and visibleImageGroup for writing: the group is as
\* the client read it, and nobody changes a private image unseen.
MayChange(g, revision, admin) ==
    /\ Exists(album, g) /\ album.group[g].revision = revision
    /\ admin \/ \A e \in MembersOf(album, g) : ~album.image[e].private
\* What a client asks of a group: it has had it open for a while, or just reads it.
Asked == {<<opened.group, opened.revision>>} \cup {<<g, album.group[g].revision>> : g \in {h \in GroupIds : Exists(album, h)}}

AddImageGroupMembers(g, s) ==
    /\ Cardinality(MembersOf(album, g)) + Len(s) <= MaxImageGroupSize
    /\ Write(Joined(Bumped(album, g), g, s))
MakePrimary(g, e) == /\ e \in MembersOf(album, g) /\ Live(album, e)
                     /\ Write(Chosen(Bumped(album, g), g, e))
Remove(g, e) ==
    LET others == {o \in MembersOf(album, g) : o # e /\ Live(album, o)}
        bumped == Bumped(album, g)
    IN /\ e \in MembersOf(album, g)
       /\ Write(Left(IF PrimaryID(album, g) = e /\ others # {} THEN Chosen(bumped, g, Min(others)) ELSE bumped, e))
Dissolve(g) == Write(Dissolved(album, g))

ApplyImageGroupAction ==
    \E q \in Asked, admin \in BOOLEAN :
        /\ q[1] \in GroupIds /\ MayChange(q[1], q[2], admin) /\ GroupEdit /\ UNCHANGED opened
        /\ \/ \E s \in Selections : Candidates(s, admin) /\ AddImageGroupMembers(q[1], s)
           \/ \E e \in Images : MakePrimary(q[1], e) \/ Remove(q[1], e)
           \/ Dissolve(q[1])

Init == /\ album = [image |-> [e \in Images |-> Unknown], group |-> [g \in GroupIds |-> Ended], made |-> 0]
        /\ opened = Closed /\ astray = [images |-> {}, groups |-> {}] /\ groupEdits = 0
Next ==
    \/ \E e \in Images : Find(e) \/ GoMissing(e) \/ Return(e) \/ Purge(e) \/ Move(e) \/ MarkPrivate(e)
    \/ \E g \in GroupIds, admin \in BOOLEAN : Open(g, admin)
    \/ \E s \in Selections, e \in Images, admin \in BOOLEAN : CreateImageGroup(s, e, admin)
    \/ ApplyImageGroupAction
Spec == Init /\ [][Next]_groupVars

-----------------------------------------------------------------------------
(* Properties                                                               *)

Rows == [at : {"new", "here", "missing", "purged"}, hidden : BOOLEAN, private : BOOLEAN, group : {NoGroup} \cup GroupIds]
TypeOK ==
    /\ album \in [image : [Images -> Rows], made : 0 .. MaxGroups,
                   group : [GroupIds -> [primary : {NoImage} \cup Images, revision : Nat]]]
    /\ opened.group \in {NoGroup} \cup GroupIds /\ opened.revision \in Nat
    /\ astray.images \subseteq Images /\ astray.groups \subseteq GroupIds

\* A group has as many members as it may have and at least two, all with an
\* identity; what has not been made, and what has ended, has none.
GroupsAreWhole ==
    \A g \in GroupIds :
        /\ g > album.made => ~Exists(album, g)
        /\ IF Exists(album, g) THEN Cardinality(MembersOf(album, g)) \in 2 .. MaxImageGroupSize ELSE MembersOf(album, g) = {}
        /\ \A e \in MembersOf(album, g) : album.image[e].at \in {"here", "missing"}

\* A group is in the gallery while one of its images is: the member that stands
\* for it is shown, and no other if it is the one that was chosen; an image of no
\* group is shown.  Both but for what went astray: of such a group the code hides
\* all once the image is back that was chosen, and such an image it never shows.
GroupsShowOne ==
    /\ \A g \in GroupIds :
          LET p == album.group[g].primary
              shown == {e \in MembersOf(album, g) : Live(album, e) /\ ~album.image[e].hidden}
          IN Exists(album, g) /\ g \notin astray.groups =>
                /\ \A e \in MembersOf(album, g) : Live(album, e) => Serving(album, g, MembersOf(album, g)) \in shown
                /\ Live(album, p) => shown = {p}
    /\ \A e \in Images : Live(album, e) /\ album.image[e].group = NoGroup /\ e \notin astray.images => ~album.image[e].hidden

\* Nothing is done to a group that is not as the client has it open: what the
\* revision admits has the members and the chosen image that were read.
OpenedIsCurrent ==
    LET g == opened.group
    IN g # NoGroup /\ Exists(album, g) /\ album.group[g].revision = opened.revision => opened = Seen(album, g)

GroupsInv == TypeOK /\ GroupsAreWhole /\ GroupsShowOne /\ OpenedIsCurrent
=============================================================================
