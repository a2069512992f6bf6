-------------------------- MODULE MCDocumentFiles --------------------------
(***************************************************************************)
(* DocumentFiles and its gate for TLC: in each behaviour one of them moves.*)
(* Of two uploads of the same file u1 is a text, whose thumbnail is made   *)
(* from a preview.  Two gates would be enough for a correct one; a third   *)
(* shows a mistake.                                                        *)
(***************************************************************************)
EXTENDS DocumentFiles, FileGate

CONSTANTS u1, u2, a, b, c, g1, g2, g3

VARIABLE part    \* what moves

Two  == {u1, u2}
Text == {u1}
SameBytes == [u \in Two |-> u1]
Three == {a, b, c}
ThreeGates == {g1, g2, g3}

ofGate == <<entry, refs, busy, pc, mine>>
all == <<part, vars, ofGate>>
InitParts == part \in {"files", "gate"} /\ Init /\ Gate!Init
NextOfPart == /\ UNCHANGED part
              /\ \/ part = "files" /\ Next /\ UNCHANGED ofGate
                 \/ part = "gate" /\ Gate!Next /\ UNCHANGED vars
\* At the beginning neither owes a step: who does not move is treated fairly.
SpecOfParts == InitParts /\ [][NextOfPart]_all /\ Fairness /\ Gate!Fairness
=============================================================================
