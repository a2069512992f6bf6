----------------------------- MODULE MCServices -----------------------------
(***************************************************************************)
(* Services for TLC: in each behaviour one component moves, and the others *)
(* stay as they began.                                                     *)
(***************************************************************************)
EXTENDS Services, TLC

CONSTANTS r, w, p1, p2, p3

VARIABLE part    \* what moves

Goroutines == {r, w}
Requested == {"small"}
Worked == {"large"}

\* Two mails hold the same PDF, one of them also a mail, and one holds nothing.
ThreeMessages == 1 .. 3
TheParts == <<<<"bill", "mail">>, <<"bill">>, <<>>>>
TheSenders == <<"a", "b", "a">>
MailArchives == {"mail"}
TwoRules == {{}, {"a"}}
TwoCallers == {"schedule", "user"}

Persons == {p1, p2, p3}
OneTag == {"tag"}
TwoDates == {1, 2}

vars == <<part, ofThumbnails, ofMail, ofFamily>>
Init == /\ part \in {"thumbnails", "mail", "family"}
        /\ Thumbnails!Init /\ Mail!Init /\ Family!Init
Next ==
    /\ UNCHANGED part
    /\ \/ part = "thumbnails" /\ Thumbnails!Next /\ UNCHANGED <<ofMail, ofFamily>>
       \/ part = "mail" /\ Mail!Next /\ UNCHANGED <<ofThumbnails, ofFamily>>
       \/ part = "family" /\ Family!Next /\ UNCHANGED <<ofThumbnails, ofMail>>
Spec == Init /\ [][Next]_vars
Alike == Permutations(Goroutines) \cup Permutations(Persons)
=============================================================================
