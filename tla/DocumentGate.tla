----------------------------- MODULE DocumentGate -----------------------------
(***************************************************************************)
(* Store.AcquireDocumentFiles for one document: a gate, which is a channel *)
(* of capacity one, is made for the first caller, found by later ones in   *)
(* the map of gates, and taken out of the map when the last one has left.  *)
(* The map is under a mutex, the channel is not: what a caller does between*)
(* two points at which others may act is one action.                       *)
(***************************************************************************)
EXTENDS Integers, FiniteSets

CONSTANTS Callers,  \* goroutines that want the files of the document
          Gates,    \* gate objects that memory has room for
          NoGate, Nobody

GateAssumption ==
    /\ IsFiniteSet(Callers)
    /\ NoGate \notin Gates
    /\ Nobody \notin Callers

VARIABLES
    entry, \* documentGates[id]
    refs,  \* the count of each gate
    busy,  \* whether the channel of a gate is full
    pc,    \* where a caller is
    mine   \* the gate a caller has got hold of

vars == <<entry, refs, busy, pc, mine>>

TypeOK ==
    /\ entry \in Gates \cup {NoGate}
    /\ refs \in [Gates -> Int]
    /\ busy \in [Gates -> BOOLEAN]
    /\ pc \in [Callers -> {"idle", "waiting", "holding", "leaving"}]
    /\ mine \in [Callers -> Gates \cup {NoGate}]

Init ==
    /\ entry = NoGate
    /\ refs = [g \in Gates |-> 0]
    /\ busy = [g \in Gates |-> FALSE]
    /\ pc = [c \in Callers |-> "idle"]
    /\ mine = [c \in Callers |-> NoGate]

Goto(c, p) == pc' = [pc EXCEPT ![c] = p]

\* The gate in the map, or a new one, which nobody knows of yet.
GateFor(g) == IF entry = NoGate THEN \A c \in Callers : mine[c] # g ELSE g = entry

\* Under documentMu: find or make the gate and count the caller.
Enter(c) ==
    /\ pc[c] = "idle"
    /\ \E g \in Gates :
         /\ GateFor(g)
         /\ entry' = g
         /\ refs' = [refs EXCEPT ![g] = IF entry = NoGate THEN 1 ELSE @ + 1]
         /\ busy' = [busy EXCEPT ![g] = entry # NoGate /\ @]
         /\ mine' = [mine EXCEPT ![c] = g]
    /\ Goto(c, "waiting")

\* gate.busy <- struct{}{}
Acquire(c) ==
    /\ pc[c] = "waiting"
    /\ ~busy[mine[c]]
    /\ busy' = [busy EXCEPT ![mine[c]] = TRUE]
    /\ Goto(c, "holding")
    /\ UNCHANGED <<entry, refs, mine>>

\* Variant: a caller that gives up takes the token of the holder with it.
Cancel_Frees(c) ==
    /\ pc[c] = "waiting"
    /\ busy' = [busy EXCEPT ![mine[c]] = FALSE]
    /\ Goto(c, "leaving")
    /\ UNCHANGED <<entry, refs, mine>>

\* The caller's context ends first.
Cancel(c) ==
    /\ pc[c] = "waiting"
    /\ Goto(c, "leaving")
    /\ UNCHANGED <<entry, refs, busy, mine>>

\* Variant: the channel is not emptied.
Free_StaysBusy(c) ==
    /\ pc[c] = "holding"
    /\ Goto(c, "leaving")
    /\ UNCHANGED <<entry, refs, busy, mine>>

\* <-gate.busy
Free(c) ==
    /\ pc[c] = "holding"
    /\ busy' = [busy EXCEPT ![mine[c]] = FALSE]
    /\ Goto(c, "leaving")
    /\ UNCHANGED <<entry, refs, mine>>

\* unref: the entry goes with the last caller.
Unref(c) ==
    /\ pc[c] = "leaving"
    /\ refs' = [refs EXCEPT ![mine[c]] = @ - 1]
    /\ entry' = IF refs[mine[c]] = 1 THEN NoGate ELSE entry
    /\ mine' = [mine EXCEPT ![c] = NoGate]
    /\ Goto(c, "idle")
    /\ UNCHANGED busy

Next == \E c \in Callers : Enter(c) \/ Acquire(c) \/ Cancel(c) \/ Free(c) \/ Unref(c)

Spec == Init /\ [][Next]_vars

\* Senders on a channel queue up; work on files ends; unref only waits for the mutex.
Fairness == \A c \in Callers : SF_vars(Acquire(c)) /\ WF_vars(Free(c)) /\ WF_vars(Unref(c))

FairSpec == Spec /\ Fairness

-----------------------------------------------------------------------------
Users == {c \in Callers : pc[c] # "idle"}
Holding == {c \in Callers : pc[c] = "holding"}

(* One at a time: no two callers hold gates for the same document, though   *)
(* the gate is thrown away and made again.                                  *)
OneHolder == \A c, d \in Holding : c = d

(* The map does not grow with the archive: no entry without a caller.       *)
NoIdleEntry == entry # NoGate => Users # {}

(* The inductive invariant: all callers have the gate that is in the map,   *)
(* it counts them, and its channel is full while one of them holds it.      *)
GInv ==
    /\ TypeOK
    /\ \A c \in Callers : mine[c] = IF c \in Users THEN entry ELSE NoGate
    /\ entry = NoGate <=> Users = {}
    /\ entry # NoGate => refs[entry] = Cardinality(Users)
    /\ entry # NoGate => (busy[entry] <=> Holding # {})
    /\ OneHolder

(* Who has the lock that the gate is.                                       *)
Owner == IF Holding = {} THEN Nobody ELSE CHOOSE c \in Callers : c \in Holding

(* Who waits gets the gate or gives up.                                     *)
WaitersGetOn == \A c \in Callers : []<>(pc[c] # "waiting")
=============================================================================
