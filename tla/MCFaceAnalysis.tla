---------------------------- MODULE MCFaceAnalysis ----------------------------
(***************************************************************************)
(* FaceAnalysis on one or two photos, for TLC.                             *)
(***************************************************************************)
EXTENDS FaceAnalysis
CONSTANTS p1, p2

\* One photo on which much happens, or two of which one stands before the other.
OneOrTwo ==
    {[photos |-> {p1}, events |-> 2, orders |-> 0],
     [photos |-> {p1}, events |-> 1, orders |-> 1],
     [photos |-> {p1, p2}, events |-> 1, orders |-> 0]}
=============================================================================
