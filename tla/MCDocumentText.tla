---------------------------- MODULE MCDocumentText ----------------------------
(* Instances of DocumentText for TLC: two documents, the older one with a     *)
(* thumbnail that cannot be made, and lists of one.                           *)
EXTENDS DocumentText

CONSTANTS a, b

TwoDocs == {1, 2}
TheOlder == {1}
TheYounger == {2}
OneRequest == {a}
=============================================================================
