------------------------------- MODULE GateLock -------------------------------
(* What the document gate promises, and what DocumentFiles relies on with     *)
(* held: at any time at most one caller works on the files of a document.     *)
EXTENDS Naturals

CONSTANTS Callers, Nobody

VARIABLE owner

Init == owner = Nobody

Take(c) == owner = Nobody /\ owner' = c
Give == owner # Nobody /\ owner' = Nobody

Next == Give \/ \E c \in Callers : Take(c)

Spec == Init /\ [][Next]_owner
=============================================================================
