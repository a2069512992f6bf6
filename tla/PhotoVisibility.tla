--------------------------- MODULE PhotoVisibility ---------------------------
(***************************************************************************)
(* PhotoVisibility: a marker file in a folder makes all photos below it    *)
(* private.  The index learns of it from a scan of the markers, which a    *)
(* request shares with others as long as it began after the request.       *)
(***************************************************************************)
EXTENDS Naturals, FiniteSets, FiniteSetsExt

CONSTANTS
    Folders,      \* of the index, numbered by their paths
    Markers,      \* places of marker files
    Above,        \* of each folder, the places in it and in the folders above it
    Ranges,       \* what requests are about: sets of folders
    Guests,       \* requests of others than admins
    BatchSize,    \* 256: folders looked at in one go
    MaxMarks,     \* bound: markers set and removed, rows written, scans that break off
    NoScan

VARIABLES
    marked,    \* markers that are set
    rows,      \* the rows of each folder: "none", "public" if any of them is, "private"
    scan,      \* the scan of each range
    guest,     \* requests
    due,       \* history: what was marked, and public in the index, when a request came
    marks      \* changes so far

visibilityVars == <<marked, rows, scan, guest, due, marks>>

ScanRow == [at : {"list", "read"}, runner : Guests, cursor : Nat, batch : SUBSET Folders,
            read : SUBSET Markers, found : SUBSET Markers, old : SUBSET Guests]
VisibilityAssumption ==
    /\ IsFiniteSet(Folders) /\ Folders \subseteq Nat \ {0} /\ Ranges \subseteq SUBSET Folders
    /\ Above \in [Folders -> SUBSET Markers] /\ BatchSize \in Nat \ {0} /\ MaxMarks \in Nat /\ NoScan \notin ScanRow

Change == marks < MaxMarks /\ marks' = marks + 1
Public(r) == {f \in r : rows[f] = "public"}
Resting == [at |-> "idle"]

-----------------------------------------------------------------------------
(* Folders and their rows                                                   *)

Mark(a) == a \notin marked /\ Change /\ marked' = marked \cup {a} /\ UNCHANGED <<rows, scan, guest, due>>
Unmark(a) == /\ a \in marked /\ Change /\ marked' = marked \ {a}
             /\ due' = [c \in Guests |-> {q \in due[c] : q[2] # a}]
             /\ UNCHANGED <<rows, scan, guest>>
\* An index run writes rows, with what it knew of the markers.
WriteRows(f, v) == /\ Change /\ rows' = [rows EXCEPT ![f] = v]
                   /\ due' = [c \in Guests |-> {q \in due[c] : q[1] # f}]
                   /\ UNCHANGED <<marked, scan, guest>>

-----------------------------------------------------------------------------
(* Requests: faceVisibilityState.check                                      *)

Runs(r) == scan[r] # NoScan
\* A scan that has begun before the request may have missed its markers.
TooOld(r, c) == {c}
Arrive(c, r) ==
    /\ guest[c] = Resting
    /\ guest' = [guest EXCEPT ![c] = [at |-> "check", range |-> r]]
    /\ due' = [due EXCEPT ![c] = {q \in Public(r) \X marked : q[2] \in Above[q[1]]}]
    /\ scan' = IF Runs(r) THEN [scan EXCEPT ![r].old = @ \cup TooOld(r, c)] ELSE scan
    /\ UNCHANGED <<marked, rows, marks>>
Is(c, at) == guest[c].at = at
Step(c, at) == guest' = [guest EXCEPT ![c] = [@ EXCEPT !.at = at]]
Wait(c) == /\ Is(c, "check") /\ Runs(guest[c].range) /\ Step(c, "wait")
           /\ UNCHANGED <<marked, rows, scan, due, marks>>
Leave(c) == /\ Is(c, "wait") /\ guest' = [guest EXCEPT ![c] = Resting] /\ due' = [due EXCEPT ![c] = {}]
            /\ UNCHANGED <<marked, rows, scan, marks>>
Fresh(c) == [at |-> "list", runner |-> c, cursor |-> 0, batch |-> {}, read |-> {}, found |-> {}, old |-> {}]
Start(c) == /\ Is(c, "check") /\ ~Runs(guest[c].range) /\ Step(c, "run")
            /\ scan' = [scan EXCEPT ![guest[c].range] = Fresh(c)]
            /\ UNCHANGED <<marked, rows, due, marks>>
\* What the request is about follows; it is over some time.
Done(c) == /\ Is(c, "done") /\ guest' = [guest EXCEPT ![c] = Resting] /\ due' = [due EXCEPT ![c] = {}]
           /\ UNCHANGED <<marked, rows, scan, marks>>
\* Who waited for a scan that was too old, or whose request was cancelled, tries again.
Ended(r, at) ==
    /\ scan' = [scan EXCEPT ![r] = NoScan]
    /\ guest' = [c \in Guests |->
          IF c = scan[r].runner THEN IF at = "done" THEN [guest[c] EXCEPT !.at = "done"] ELSE Resting
          ELSE IF ~(Is(c, "wait") /\ guest[c].range = r) THEN guest[c]
          ELSE IF c \in scan[r].old \/ at = "cancelled" THEN [guest[c] EXCEPT !.at = "check"]
          ELSE IF at = "done" THEN [guest[c] EXCEPT !.at = "done"] ELSE Resting]

-----------------------------------------------------------------------------
(* Scans: refreshMapVisibility, refreshFaceDirectories                      *)

Advance(r, s) == scan' = [scan EXCEPT ![r] = s]
\* The next folders with public rows, in order.
Batch(r) == LET rest == {f \in Public(r) : f > scan[r].cursor}
            IN {f \in rest : Cardinality({o \in rest : o < f}) < BatchSize}
List(r) ==
    /\ Runs(r) /\ scan[r].at = "list"
    /\ IF Batch(r) = {} THEN Ended(r, "done")
       ELSE Advance(r, [scan[r] EXCEPT !.at = "read", !.batch = Batch(r), !.read = {}, !.found = {}]) /\ UNCHANGED guest
    /\ UNCHANGED <<marked, rows, due, marks>>
Places(s) == UNION {Above[f] : f \in s.batch}
\* Each place is looked at once, whatever lies below it.
ReadMarker(r, a) ==
    /\ Runs(r) /\ scan[r].at = "read" /\ a \in Places(scan[r]) \ scan[r].read
    /\ Advance(r, [scan[r] EXCEPT !.read = @ \cup {a}, !.found = @ \cup ({a} \cap marked)])
    /\ UNCHANGED <<marked, rows, guest, due, marks>>
Hidden(s) == {f \in s.batch : Above[f] \cap s.found # {}}
Update(r) ==
    LET s == scan[r]
    IN /\ Runs(r) /\ s.at = "read" /\ Places(s) \subseteq s.read
       /\ rows' = [f \in Folders |-> IF f \in Hidden(s) /\ rows[f] = "public" THEN "private" ELSE rows[f]]
       /\ IF Cardinality(s.batch) < BatchSize THEN Ended(r, "done")
          ELSE Advance(r, [s EXCEPT !.at = "list", !.cursor = Max(s.batch), !.batch = {}, !.read = {}, !.found = {}]) /\ UNCHANGED guest
       /\ UNCHANGED <<marked, due, marks>>
\* The disk cannot be read, or the request that runs the scan is cancelled.
BreakOff(r) == /\ Runs(r) /\ Change /\ (Ended(r, "failed") \/ Ended(r, "cancelled"))
               /\ UNCHANGED <<marked, rows, due>>

Init == /\ marked = {} /\ rows \in [Folders -> {"none", "public"}] /\ scan = [r \in Ranges |-> NoScan]
        /\ guest = [c \in Guests |-> Resting] /\ due = [c \in Guests |-> {}] /\ marks = 0
Next ==
    \/ \E a \in Markers : Mark(a) \/ Unmark(a)
    \/ \E f \in Folders, v \in {"none", "public", "private"} : WriteRows(f, v)
    \/ \E c \in Guests : \/ \E r \in Ranges : Arrive(c, r)
                         \/ Wait(c) \/ Start(c) \/ Done(c) \/ Leave(c)
    \/ \E r \in Ranges : List(r) \/ Update(r) \/ BreakOff(r) \/ \E a \in Markers : ReadMarker(r, a)
Spec == Init /\ [][Next]_visibilityVars

-----------------------------------------------------------------------------
(* Properties                                                               *)

TypeOK ==
    /\ marked \subseteq Markers /\ rows \in [Folders -> {"none", "public", "private"}]
    /\ scan \in [Ranges -> ScanRow \cup {NoScan}]
    /\ guest \in [Guests -> [at : {"check", "wait", "run", "done"}, range : Ranges] \cup {Resting}]
    /\ due \in [Guests -> SUBSET (Folders \X Markers)] /\ marks \in 0 .. MaxMarks

\* What is due to a request is marked, and as long as the scan that it will
\* take the result of is at work, not passed without being seen.
DueIsMarked == \A c \in Guests : \A q \in due[c] : q[2] \in marked /\ q[2] \in Above[q[1]]
DueIsSeen ==
    \A c \in Guests, r \in Ranges :
        LET s == scan[r]
        IN Runs(r) /\ (c = s.runner \/ (Is(c, "wait") /\ guest[c].range = r /\ c \notin s.old)) =>
               \A q \in due[c] : /\ rows[q[1]] = "public" => q[1] > s.cursor
                                 /\ s.at = "read" /\ rows[q[1]] = "public" =>
                                       \/ q[1] \in s.batch
                                       \/ Cardinality(s.batch) = BatchSize /\ \A f \in s.batch : f < q[1]
                                 /\ q[2] \in s.read => q[2] \in s.found
\* Once a request has made sure of its folders, no photo is public in the index
\* that lay below a marker when the request came; so no map or list of people
\* that it reads next shows it.  (But rows that an index run has written since,
\* which may have read the markers before.)
MarkedIsPrivate == \A c \in Guests : Is(c, "done") => \A q \in due[c] : rows[q[1]] # "public"

VisibilityInv == TypeOK /\ DueIsMarked /\ DueIsSeen /\ MarkedIsPrivate
=============================================================================
