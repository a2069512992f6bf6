----------------------------- MODULE MCPhotoViews -----------------------------
(***************************************************************************)
(* PhotoViews for TLC: in each behaviour one component moves, and the      *)
(* others stay as they began.                                              *)
(***************************************************************************)
EXTENDS PhotoViews, TLC

CONSTANTS a, b

VARIABLE part    \* what moves

Requests == {a, b}
OneScope == {[under |-> "album", admin |-> FALSE]}
OneRange == {{1, 2}}
AboveFolders == <<{"outer", "inner"}, {"outer"}>>

\* Photos with one word each in a place or two, posts and folders, and queries of
\* every kind of plan: the root folder, SQL, full text, the filter, a tag left out,
\* persons with tags and with texts, some of terms, and connectives alone.
T(field, word) == [field |-> field, word |-> word, negated |-> FALSE]
Not(t) == [t EXCEPT !.negated = TRUE]
Of(t) == [kind |-> "term", terms |-> <<t>>]
And == [kind |-> "and", terms |-> <<>>]
Or == [kind |-> "or", terms |-> <<>>]
LookOf(name, other, located) ==
    [says |-> [place \in {"name", "camera", "tag", "xmp", "seen"} |->
                  IF place = "name" THEN name ELSE IF place = "seen" THEN {} ELSE other],
     located |-> located, private |-> other # {}, grouped |-> FALSE, root |-> located]
ThreeLooks == {LookOf({"long"}, {}, FALSE), LookOf({"s"}, {}, TRUE), LookOf({}, {"long"}, TRUE)}
FourEntries == [kind : {"post", "folder"}, says : {[name |-> {"long"}, tag |-> {}, text |-> {"s"}],
                                                   [name |-> {"s"}, tag |-> {"long"}, text |-> {}]}]
SomeQueries == {
    <<>>, <<Of(Not(T("tag", "long")))>>, <<Of(T("gps", "long"))>>, <<Of(Not(T("gps", "long"))), And>>,
    <<Of(T("text", "long")), And, Of(Not(T("name", "s")))>>, <<Of(Not(T("camera", "long"))), Of(T("text", "s"))>>,
    <<Of(T("person", "long")), Or, Of(T("tag", "long"))>>, <<Of(T("person", "long")), Of(T("text", "s"))>>,
    <<Of(T("text", "long")), Or, Of(T("gps", "long"))>>, <<Or>>,
    <<[kind |-> "some", terms |-> <<T("name", "long"), T("tag", "long"), T("gps", "long")>>]>>}

vars == <<part, ofGroups, ofRoutes, ofVisibility, ofSearch>>
Init == /\ part \in {"groups", "routes", "visibility", "search"}
        /\ Groups!Init /\ Routes!Init /\ Visibility!Init /\ Search!Init
        /\ part # "routes" => index.row = [p \in Pictures |-> NoPicture]
        /\ part # "visibility" => rows = [f \in Folders |-> "none"]
        /\ part # "search" => media = [p \in Shots |-> NoLook]
Next ==
    /\ UNCHANGED part
    /\ \/ part = "groups" /\ Groups!Next /\ UNCHANGED <<ofRoutes, ofVisibility, ofSearch>>
       \/ part = "routes" /\ Routes!Next /\ UNCHANGED <<ofGroups, ofVisibility, ofSearch>>
       \/ part = "visibility" /\ Visibility!Next /\ UNCHANGED <<ofGroups, ofRoutes, ofSearch>>
       \/ part = "search" /\ Search!Next /\ UNCHANGED <<ofGroups, ofRoutes, ofVisibility>>
Spec == Init /\ [][Next]_vars
Alike == Permutations(Requests)
=============================================================================
