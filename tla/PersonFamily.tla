----------------------------- MODULE PersonFamily -----------------------------
(***************************************************************************)
(* PersonFamily: what is recorded of the people in photos beside their     *)
(* faces: parents, siblings, marriages, dates and tags, and the roots of   *)
(* the family trees.  People are merged and disappear, some are hidden     *)
(* from time to time, and forms are saved that were opened before.         *)
(***************************************************************************)
EXTENDS Naturals, FiniteSets, FiniteSetsExt

CONSTANTS
    People, Tags, Dates,  \* a date is a number; 0 stands for none
    RelationLimit,        \* siblings, and marriages, of one person
    MaxEdits,             \* bound: changes of all kinds
    Nobody, NoForm

VARIABLES
    family,       \* the tables of the database
    visible,      \* people with a name, and a face in a photo all may see
    form,         \* the form of one person that a client has open
    treeForm,     \* the form of the family trees that a client has open
    edits         \* changes so far

vars == <<family, visible, form, treeForm, edits>>

FamilyAssumption ==
    /\ IsFiniteSet(People) /\ IsFiniteSet(Dates) /\ Dates \subseteq Nat
    /\ RelationLimit \in Nat /\ MaxEdits \in Nat /\ Nobody \notin People

Roles == {"mother", "father"}
NoDate == 0
Orphan == [r \in Roles |-> Nobody]
Pairs == {q \in SUBSET People : \E a, b \in q : a # b /\ q = {a, b}}
Other(pair, p) == CHOOSE q \in pair : q # p
Couples(marriages) == {m.pair : m \in marriages}
Edit == edits < MaxEdits /\ edits' = edits + 1

ParentsOf(d, p) == {d.parent[p][r] : r \in Roles} \ {Nobody}
SiblingsOf(d, p) == {s \in d.siblings : p \in s}
MarriagesOf(d, p) == {m \in d.marriages : p \in m.pair}
WithinLimits(d, ps) == \A p \in ps : /\ Cardinality(SiblingsOf(d, p)) <= RelationLimit
                                     /\ Cardinality(MarriagesOf(d, p)) <= RelationLimit
validPersonDates(first, last) == first = NoDate \/ last = NoDate \/ first <= last

\* readPersonDetails: all that is stored of p, hidden relatives too; its hash is the revision.
Stored(d, p) == [parent |-> d.parent[p], born |-> d.born[p], died |-> d.died[p],
                 siblings |-> SiblingsOf(d, p), marriages |-> MarriagesOf(d, p)]
\* PersonDetails: what of it is shown.
Shown(details, p, seen) ==
    [details EXCEPT !.parent = [r \in Roles |-> IF @[r] \in seen THEN @[r] ELSE Nobody],
                    !.siblings = {s \in @ : Other(s, p) \in seen},
                    !.marriages = {m \in @ : Other(m.pair, p) \in seen}]

-----------------------------------------------------------------------------
(* Parents                                                                  *)

\* The least set with ps and the parents of all in it.
AncestorsOf(d, ps) ==
    {q \in People : \A s \in SUBSET People : ps \subseteq s /\ (\A p \in s : ParentsOf(d, p) \subseteq s) => q \in s}

\* Variant: only the parents themselves are looked at.
validateParentGraph_Near(d, p) == p \notin ParentsOf(d, p)
validateParentGraph(d, p) ==
    /\ p \notin AncestorsOf(d, ParentsOf(d, p))
    /\ d.parent[p]["mother"] = d.parent[p]["father"] => d.parent[p] = Orphan

\* writePersonParentsTx: the tables with these parents, if they may be.
WithParents(d, p, parents) ==
    IF parents # Orphan /\ (p \in {parents[r] : r \in Roles} \/ parents["mother"] = parents["father"]) THEN {}
    ELSE LET e == [d EXCEPT !.parent[p] = parents]
         IN  IF validateParentGraph(e, p) THEN {e} ELSE {}

\* Of whom no form was open: a hidden parent goes, too.
SetPersonParents(p, parents) ==
    /\ Edit /\ {p} \cup ({parents[r] : r \in Roles} \ {Nobody}) \subseteq visible
    /\ parents # family.parent[p] /\ family' \in WithParents(family, p, parents)
    /\ UNCHANGED <<visible, form, treeForm>>

-----------------------------------------------------------------------------
(* The form of a person                                                     *)

OpenForm(p) ==
    /\ p \in visible /\ form = NoForm
    /\ form' = [who |-> p, saw |-> Stored(family, p), shown |-> Shown(Stored(family, p), p, visible)]
    /\ UNCHANGED <<family, visible, treeForm, edits>>

\* The client changes one field of what it was shown.
Inputs(shown, p) ==
         {[shown EXCEPT !.parent[r] = q] : r \in Roles, q \in People \cup {Nobody}}
    \cup {[shown EXCEPT !.born = t] : t \in Dates \cup {NoDate}}
    \cup {[shown EXCEPT !.died = t] : t \in Dates \cup {NoDate}}
    \cup {[shown EXCEPT !.siblings = (@ \cup {s}) \ (@ \cap {s})] : s \in {s \in Pairs : p \in s}}
    \cup {[shown EXCEPT !.marriages = (@ \cup {m}) \ (@ \cap {m})]
             : m \in [pair : {s \in Pairs : p \in s}, wed : {NoDate}]}
    \cup {[shown EXCEPT !.marriages = {IF m = n THEN [m EXCEPT !.wed = t] ELSE m : m \in @}]
             : n \in shown.marriages, t \in Dates}

Referred(in, p) == {p} \cup ({in.parent[r] : r \in Roles} \ {Nobody})
                       \cup UNION (in.siblings \cup Couples(in.marriages))
\* Variant: an empty field removes a parent, visible or not.
Resolved_AsGiven(in, old) == in.parent
\* An empty field does not remove a parent that is hidden now.
Resolved(in, old) == [r \in Roles |-> IF in.parent[r] = Nobody /\ old[r] \notin visible THEN old[r] ELSE in.parent[r]]
\* Only what would be shown now is replaced.
WithDetails(d, p, in) ==
    LET shown == Shown(Stored(d, p), p, visible) IN
    {[e EXCEPT !.siblings = (@ \ shown.siblings) \cup in.siblings,
               !.marriages = (@ \ shown.marriages) \cup in.marriages,
               !.born[p] = in.born, !.died[p] = in.died]
        : e \in IF Resolved(in, d.parent[p]) = d.parent[p] THEN {d} ELSE WithParents(d, p, Resolved(in, d.parent[p]))}

SetPersonDetails ==
    /\ Edit /\ form # NoForm /\ form' = NoForm
    /\ \E in \in Inputs(form.shown, form.who) :
          LET p == form.who IN
          /\ validPersonDates(in.born, in.died) /\ Referred(in, p) \subseteq visible
          /\ Stored(family, p) = form.saw
          /\ \E d \in WithDetails(family, p, in) : /\ WithinLimits(d, Referred(in, p))
                                                   /\ d # family /\ family' = d
    /\ UNCHANGED <<visible, treeForm>>
CloseForm == /\ form # NoForm /\ form' = NoForm    \* or a conflict
             /\ UNCHANGED <<family, visible, treeForm, edits>>

-----------------------------------------------------------------------------
(* Merging                                                                  *)

\* Rows of s become rows of t.
Renamed(pair, s, t) == {IF p = s THEN t ELSE p : p \in pair}

\* mergeFamilyTreeRootTx: every row that comes or goes advances the revision.
MoveRoot(d, s, t) ==
    IF s \notin d.roots THEN d
    ELSE [d EXCEPT !.roots = (@ \ {s}) \cup {t}, !.revision = @ + Cardinality({t} \ d.roots) + 1]

\* mergePersonParentsTx
MergeParents(d, s, t) ==
    LET taken == [r \in Roles |-> IF d.parent[t][r] = Nobody THEN d.parent[s][r] ELSE d.parent[t][r]]
        e == [d EXCEPT !.parent = [p \in People |->
                 IF p = s THEN Orphan
                 ELSE [r \in Roles |-> LET q == IF p = t THEN taken[r] ELSE d.parent[p][r]
                                       IN  IF q = s THEN t ELSE q]]]
    IN  IF \/ \E r \in Roles : Nobody # d.parent[s][r] /\ Nobody # d.parent[t][r] /\ d.parent[s][r] # d.parent[t][r]
           \/ s \in ParentsOf(d, t) \/ t \in ParentsOf(d, s)
           \/ \E p \in People : e.parent[p] = [r \in Roles |-> t]
           \/ ~validateParentGraph(e, t)
        THEN {} ELSE {e}

\* mergePersonFamilyTx
OneDate(a, b) == IF b = NoDate THEN a ELSE b
DatesAgree(a, b) == a = NoDate \/ b = NoDate \/ a = b
MergeDetails(d, s, t) ==
    LET born == OneDate(d.born[s], d.born[t])
        died == OneDate(d.died[s], d.died[t])
        e == [d EXCEPT !.siblings = {Renamed(q, s, t) : q \in @},
                       !.marriages = {[m EXCEPT !.pair = Renamed(@, s, t)] : m \in @},
                       !.born = [@ EXCEPT ![s] = NoDate, ![t] = born],
                       !.died = [@ EXCEPT ![s] = NoDate, ![t] = died]]
    IN  IF /\ DatesAgree(d.born[s], d.born[t]) /\ DatesAgree(d.died[s], d.died[t]) /\ validPersonDates(born, died)
           /\ {s, t} \notin d.siblings \cup Couples(d.marriages)
           /\ WithinLimits(e, {t})
        THEN {e} ELSE {}
HasDetails(d, s) == d.born[s] # NoDate \/ d.died[s] # NoDate \/ SiblingsOf(d, s) # {} \/ MarriagesOf(d, s) # {}
MergeFamily(d, s, t) ==
    UNION {IF HasDetails(e, s) THEN MergeDetails(e, s, t) ELSE {e} : e \in MergeParents(MoveRoot(d, s, t), s, t)}

\* The triggers on the table of people.
Deleted(d, p) ==
    [there |-> d.there \ {p},
     parent |-> [q \in People |-> IF q = p THEN Orphan
                                  ELSE [r \in Roles |-> IF d.parent[q][r] = p THEN Nobody ELSE d.parent[q][r]]],
     siblings |-> d.siblings \ SiblingsOf(d, p), marriages |-> d.marriages \ MarriagesOf(d, p),
     born |-> [d.born EXCEPT ![p] = NoDate], died |-> [d.died EXCEPT ![p] = NoDate], tags |-> [d.tags EXCEPT ![p] = {}],
     roots |-> d.roots \ {p}, revision |-> IF p \in d.roots THEN d.revision + 1 ELSE d.revision]
MergeTags(d, s, t) == [d EXCEPT !.tags[t] = @ \cup d.tags[s]]

\* A group whose faces are ignored, some of them, stays behind.
Merge(s, t) ==
    /\ Edit /\ {s, t} \subseteq family.there /\ s # t
    /\ \E e \in MergeFamily(family, s, t) : family' \in {MergeTags(e, s, t), Deleted(MergeTags(e, s, t), s)}
    /\ visible' = (visible \ {s}) \cup (IF s \in visible THEN {t} ELSE {})
    /\ UNCHANGED <<form, treeForm>>
LastFaceGone(p) == /\ p \in family.there /\ family' = Deleted(family, p) /\ visible' = visible \ {p}
                   /\ Edit /\ UNCHANGED <<form, treeForm>>
Hide(p) == /\ p \in visible /\ visible' = visible \ {p}
           /\ Edit /\ UNCHANGED <<family, form, treeForm>>
Reveal(p) == /\ p \in family.there \ visible /\ visible' = visible \cup {p}
             /\ Edit /\ UNCHANGED <<family, form, treeForm>>

SetPersonTags(p, ts) == /\ p \in visible /\ ts # family.tags[p] /\ family' = [family EXCEPT !.tags[p] = ts]
                        /\ Edit /\ UNCHANGED <<visible, form, treeForm>>
AddPeopleTags(ps, ts) ==
    /\ Edit /\ ps # {} /\ ps \subseteq visible
    /\ family' = [family EXCEPT !.tags = [p \in People |-> IF p \in ps THEN @[p] \cup ts ELSE @[p]]] /\ family' # family
    /\ UNCHANGED <<visible, form, treeForm>>

-----------------------------------------------------------------------------
(* Family trees                                                             *)

OpenTreeForm == /\ treeForm = NoForm /\ treeForm' = [revision |-> family.revision, roots |-> family.roots]
                /\ UNCHANGED <<family, visible, form, edits>>
SetFamilyTreeRoots(roots) ==
    /\ Edit /\ treeForm # NoForm /\ treeForm' = NoForm
    /\ treeForm.revision = family.revision /\ roots \subseteq visible \cup family.roots
    /\ family' = [family EXCEPT !.roots = roots,
                                !.revision = @ + Cardinality(family.roots) + Cardinality(roots) + 1]
    /\ UNCHANGED <<visible, form>>
CloseTreeForm == /\ treeForm # NoForm /\ treeForm' = NoForm
                 /\ UNCHANGED <<family, visible, form, edits>>

Relations(d) == (UNION {{{p, q} : q \in ParentsOf(d, p)} : p \in People}) \cup d.siblings \cup Couples(d.marriages)
\* FamilyTrees: who is found from the roots, step by step; hidden people lead
\* nowhere.
Walk(d) ==
    LET found[n \in 0 .. Cardinality(People)] ==
            IF n = 0 THEN d.roots
            ELSE found[n - 1] \cup UNION {e \in Relations(d) : e \cap found[n - 1] \cap visible # {}}
    IN  found[Cardinality(People)] \cap visible
\* Variant: a relation joins its two ends, not all they were joined with.
Joined_Near(blocks, es) ==
    LET Join(e, bs) == {b \in bs : b \cap e = {}} \cup {e}
    IN  FoldSet(Join, blocks, es)
\* Every relation between two who were found joins their blocks.
Joined(blocks, es) ==
    LET Join(e, bs) == LET met == {b \in bs : b \cap e # {}} IN (bs \ met) \cup {UNION met}
    IN  FoldSet(Join, blocks, es)
FamilyTrees(d) ==
    LET people == Walk(d)
    IN  {b \in Joined({{p} : p \in people}, {e \in Relations(d) : e \subseteq people}) : b \cap d.roots # {}}

-----------------------------------------------------------------------------
Init ==
    /\ family = [there |-> People, parent |-> [p \in People |-> Orphan], siblings |-> {}, marriages |-> {},
                 born |-> [p \in People |-> NoDate], died |-> [p \in People |-> NoDate],
                 tags |-> [p \in People |-> {}], roots |-> {}, revision |-> 1]
    /\ visible = People /\ form = NoForm /\ treeForm = NoForm /\ edits = 0

Next ==
    \/ \E p \in People :
          \/ \E parents \in [Roles -> People \cup {Nobody}] : SetPersonParents(p, parents)
          \/ OpenForm(p) \/ LastFaceGone(p) \/ Hide(p) \/ Reveal(p)
          \/ \E q \in People : Merge(p, q)
          \/ \E ts \in SUBSET Tags : SetPersonTags(p, ts)
    \/ SetPersonDetails \/ CloseForm
    \/ \E ps \in SUBSET People, ts \in SUBSET Tags : AddPeopleTags(ps, ts)
    \/ OpenTreeForm \/ CloseTreeForm \/ \E roots \in SUBSET People : SetFamilyTreeRoots(roots)
Spec == Init /\ [][Next]_vars

-----------------------------------------------------------------------------
\* Of any people, one has no parent among them.
NoCircle(d) == \A ps \in SUBSET People : ps # {} => \E p \in ps : ParentsOf(d, p) \cap ps = {}
PeopleOf(d) == d.roots \cup UNION (d.siblings \cup Couples(d.marriages)
                   \cup {ParentsOf(d, p) \cup (IF d.parent[p] = Orphan THEN {} ELSE {p}) : p \in People})
\* Nobody is their own ancestor, has one parent twice, lives backwards, or is
\* related to someone who is gone, whatever is merged; and an old form of the
\* trees changes nothing (person_details.go, person_parents.go).
FamilyIsSound ==
    /\ NoCircle(family)
    /\ \A p \in People : family.parent[p]["mother"] = family.parent[p]["father"] => family.parent[p] = Orphan
    /\ \A p \in People : validPersonDates(family.born[p], family.died[p])
    /\ WithinLimits(family, People) /\ family.siblings \cup Couples(family.marriages) \subseteq Pairs
    /\ PeopleOf(family) \subseteq family.there
    /\ treeForm # NoForm /\ treeForm.revision = family.revision => treeForm.roots = family.roots

\* The least set with p that no visible relation leaves.
Kin(d, p) ==
    LET closed == {ps \in SUBSET visible : p \in ps /\ \A e \in Relations(d) : e \subseteq visible /\ e \cap ps # {} => e \subseteq ps}
    IN  {q \in visible : \A ps \in closed : q \in ps}
\* Each visible root is in one tree, with those it is related to through
\* visible people, and with nobody else (family_tree.go FamilyTrees).
TreesAreFamilies == FamilyTrees(family) = {Kin(family, p) : p \in family.roots \cap visible}

\* Who saves the form of a person takes nothing away from anybody who is hidden
\* when it is saved, whoever was hidden when it was opened: hidden people have
\* the relations they had, and are followed as a parent only by somebody visible
\* (person_details.go SetPersonDetails).  Somebody who was hidden when the form
\* was opened and is visible again when it is saved is removed with the rest:
\* the revision covers what is stored, not who was to be seen.
HiddenStays ==
    form # NoForm /\ form' = NoForm =>
        \A p \in People \ visible :
            /\ SiblingsOf(family', p) = SiblingsOf(family, p) /\ MarriagesOf(family', p) = MarriagesOf(family, p)
            /\ \A q \in People, r \in Roles :
                  family.parent[q][r] = p => family'.parent[q][r] \in {p} \cup visible
=============================================================================
