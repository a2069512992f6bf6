------------------------- MODULE TransferLifecycle -------------------------
(***************************************************************************)
(* What the transfer engine promises about one export job, seen from       *)
(* outside: a job is drafted, offered as a finished preview, becomes       *)
(* active only by being confirmed, may be held and taken up again, and     *)
(* ends complete, cancelled or removed.  TransferJobs implements it.       *)
(***************************************************************************)
CONSTANT Jobs

VARIABLE phase      \* [Jobs -> Phases]

Phases == {"absent", "draft", "offered", "void", "active", "held",
           "complete", "cancelled", "gone"}

\* The changes of one job that a single step of the system may make.
\* "void" is a preview that can never be confirmed; "held" a confirmed job
\* that waits for its user.  Nothing leads back to "draft" or "offered", and
\* only an offered or held job becomes active.
Moves ==
    {<<"absent", "draft">>}
    \union {<<"draft", p>>   : p \in {"offered", "void", "cancelled", "gone"}}
    \union {<<"offered", p>> : p \in {"active", "void", "cancelled", "gone"}}
    \union {<<"void", p>>    : p \in {"cancelled", "gone"}}
    \union {<<"active", p>>  : p \in {"held", "complete", "cancelled"}}
    \union {<<"held", p>>    : p \in {"active", "cancelled", "gone"}}
    \* A pause or cancel request that read the job before it completed.
    \union {<<"complete", p>> : p \in {"held", "cancelled", "gone"}}
    \union {<<"cancelled", "gone">>}

Init == phase = [j \in Jobs |-> "absent"]

\* A change of a connection or a recovery moves several jobs at once.
Next ==
    /\ phase' \in [Jobs -> Phases]
    /\ \A j \in Jobs : phase'[j] = phase[j] \/ <<phase[j], phase'[j]>> \in Moves

Spec == Init /\ [][Next]_phase
=============================================================================
