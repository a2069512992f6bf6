------------------------------ MODULE RouteCache ------------------------------
(***************************************************************************)
(* RouteCache: the route through all photos with a place below a           *)
(* directory, as it is shown when nothing is searched for.  It is read     *)
(* from a file that carries the revision of the index it was built at,     *)
(* from a build that several requests share, or from the index itself.     *)
(* The index changes at any time; its triggers count the changes of each   *)
(* directory.                                                              *)
(***************************************************************************)
EXTENDS Naturals, FiniteSets, FiniteSetsExt

CONSTANTS
    Pictures, Albums,     \* photos with a place, and the directories they lie in
    Spots,                \* where a photo was taken
    Scopes,               \* what is asked for, as [under, admin]
    Everything,           \* the directory of all
    Viewers,              \* requests in progress
    Flights,              \* bound: builds at one time, cancelled ones too
    MaxFlights,           \* 32: builds that requests may join
    MaxAttempts,          \* 3
    MaxIndexChanges,      \* bound: changes of the index and of files, failures
    NoPicture, NoRoute, NoFlight, Behind

VARIABLES
    index,         \* the rows, the revision with a mark of each directory, the instance
    routeFile,     \* the cached file of each scope
    flight,        \* builds
    viewer,        \* requests
    indexChanges   \* changes so far

routeVars == <<index, routeFile, flight, viewer, indexChanges>>

\* A row with coordinates; Behind is the spot of a photo its image group hides.
Row == [album : Albums, private : BOOLEAN, spot : Spots \cup {Behind}]
Revisions == [instance : Nat, number : Nat]
Paths == SUBSET (Pictures \X (Spots \cup {Behind}))
FileRow == [revision : Revisions, route : Paths, whole : BOOLEAN]
FlightRow ==
    [scope : Scopes, revision : Revisions, at : {"open", "scan", "verify", "rename"}, route : {NoRoute} \cup Paths,
     listed : BOOLEAN, waiters : SUBSET Viewers]
    \cup [scope : Scopes, revision : Revisions, at : {"done"}, err : {"none", "changed", "unavailable", "failed"},
          listed : {FALSE}, waiters : SUBSET Viewers]
RouteAssumption ==
    /\ MaxFlights \in Nat /\ MaxAttempts \in Nat \ {0} /\ MaxIndexChanges \in Nat
    /\ IsFiniteSet(Albums) /\ Everything \notin Albums /\ Behind \notin Spots
    /\ NoPicture \notin Row /\ NoFlight \notin FlightRow
    /\ \A s \in Scopes : s.under \in Albums \cup {Everything} /\ s.admin \in BOOLEAN

Kinds == Albums \X BOOLEAN        \* of a directory, what all may see and what admins may
KindOf(row) == <<row.album, row.private>>
KindsOf(s) == {k \in Kinds : (s.under = Everything \/ s.under = k[1]) /\ (s.admin \/ ~k[2])}
\* scopedPhotoRouteRevision, and the route that scanPhotoRoute streams.
Revision(s) == [instance |-> index.instance, number |-> Max({index.mark[k] : k \in KindsOf(s)} \cup {0})]
OnRoute(row, s) == row # NoPicture /\ row.spot # Behind /\ KindOf(row) \in KindsOf(s)
Route(s) == {<<p, index.row[p].spot>> : p \in {q \in Pictures : OnRoute(index.row[q], s)}}

Change == indexChanges < MaxIndexChanges /\ indexChanges' = indexChanges + 1

-----------------------------------------------------------------------------
(* The index                                                                *)

\* Variant: what leaves a directory is not counted there.
Touched_New(old, new) == {KindOf(row) : row \in {new} \ {NoPicture}}
\* The triggers of media_index: the old and the new directory get the next number.
Touched(old, new) == {KindOf(row) : row \in {old, new} \ {NoPicture}}
Write(p, row) ==
    /\ index.row[p] # row /\ Change
    /\ index' = [index EXCEPT !.row = [@ EXCEPT ![p] = row], !.number = @ + 1,
                              !.mark = [k \in Kinds |-> IF k \in Touched(index.row[p], row) THEN index.number + 1 ELSE index.mark[k]]]
    /\ UNCHANGED <<routeFile, flight, viewer>>

Idle == [at |-> "idle"]
\* The index is lost and made anew while nothing runs; the files stay.
Recreate ==
    /\ Change /\ \A c \in Viewers : viewer[c] = Idle /\ \A f \in Flights : flight[f] = NoFlight
    /\ index' = [row |-> [p \in Pictures |-> NoPicture], number |-> 0, mark |-> [k \in Kinds |-> 0], instance |-> index.instance + 1]
    /\ UNCHANGED <<routeFile, flight, viewer>>

-----------------------------------------------------------------------------
(* Requests                                                                 *)

Becomes(c, v) == viewer' = [viewer EXCEPT ![c] = v]
Attempt(s, n) == [at |-> "revision", scope |-> s, attempt |-> n]
\* Some attempts, as long as the index changes or a file is damaged.
Retry(c) == Becomes(c, IF viewer[c].attempt < MaxAttempts THEN Attempt(viewer[c].scope, viewer[c].attempt + 1) ELSE Idle)
Has(c, at) == viewer[c].at = at
Matches(s, revision) == routeFile[s] # NoRoute /\ routeFile[s].revision = revision
Source(c, v) == [at |-> "read", scope |-> v.scope, attempt |-> v.attempt, revision |-> v.revision, source |-> routeFile[v.scope]]
Stage(c, at) == [at |-> at, scope |-> viewer[c].scope, attempt |-> viewer[c].attempt, revision |-> viewer[c].revision]
Waiting(c, f) ==
    [at |-> "waiting", scope |-> viewer[c].scope, attempt |-> viewer[c].attempt, revision |-> viewer[c].revision, on |-> f]
Emitted(c, route) ==
    [at |-> "check", scope |-> viewer[c].scope, attempt |-> viewer[c].attempt, revision |-> viewer[c].revision, route |-> route]

Ask(c, s) == Has(c, "idle") /\ Becomes(c, Attempt(s, 1)) /\ UNCHANGED <<index, routeFile, flight, indexChanges>>
ReadRevision(c) ==
    /\ Has(c, "revision")
    /\ Becomes(c, [at |-> "open", scope |-> viewer[c].scope, attempt |-> viewer[c].attempt, revision |-> Revision(viewer[c].scope)])
    /\ UNCHANGED <<index, routeFile, flight, indexChanges>>
OpenCache(c) ==
    /\ Has(c, "open")
    /\ Becomes(c, IF Matches(viewer[c].scope, viewer[c].revision) THEN Source(c, viewer[c]) ELSE Stage(c, "join"))
    /\ UNCHANGED <<index, routeFile, flight, indexChanges>>
\* A library that has no directory for caches reads the index itself.  So does a
\* search, but for the photos that match, in several statements, and by tags and
\* names that no revision counts: its answer is not this route and is left out.
Uncached(c) == Has(c, "open") /\ Becomes(c, Stage(c, "stream")) /\ UNCHANGED <<index, routeFile, flight, indexChanges>>

Listed == {f \in Flights : flight[f] # NoFlight /\ flight[f].listed}
Of(s, revision) == {f \in Listed : flight[f].scope = s /\ flight[f].revision = revision}
NewFlight(c) ==
    [scope |-> viewer[c].scope, revision |-> viewer[c].revision, at |-> "open", route |-> NoRoute, listed |-> TRUE, waiters |-> {c}]
\* run: join the build, start it, or do without.
Join(c) ==
    LET same == Of(viewer[c].scope, viewer[c].revision)
    IN /\ Has(c, "join")
       /\ \/ \E f \in same : /\ flight' = [flight EXCEPT ![f].waiters = @ \cup {c}]
                             /\ Becomes(c, Waiting(c, f))
          \/ /\ same = {} /\ Cardinality(Listed) < MaxFlights
             /\ \E f \in Flights : /\ flight[f] = NoFlight
                                   /\ flight' = [flight EXCEPT ![f] = NewFlight(c)]
                                   /\ Becomes(c, Waiting(c, f))
          \/ same = {} /\ Cardinality(Listed) >= MaxFlights /\ Becomes(c, Stage(c, "stream")) /\ UNCHANGED flight
       /\ UNCHANGED <<index, routeFile, indexChanges>>

\* Who leaves last cancels the build and takes it off the list.
Left(f, c) ==
    IF flight[f].waiters # {c} THEN [flight[f] EXCEPT !.waiters = @ \ {c}]
    ELSE IF flight[f].at = "done" THEN NoFlight ELSE [flight[f] EXCEPT !.waiters = {}, !.listed = FALSE]
Waits(c, f) == Has(c, "waiting") /\ viewer[c].on = f
Leave(c, f) == /\ Waits(c, f) /\ flight' = [flight EXCEPT ![f] = Left(f, c)] /\ Becomes(c, Idle)
               /\ UNCHANGED <<index, routeFile, indexChanges>>
\* photoRouteSource after the build: open the file again, or do without.
Answered(c, f) ==
    /\ Waits(c, f) /\ flight[f].at = "done" /\ flight' = [flight EXCEPT ![f] = Left(f, c)]
    /\ \/ flight[f].err = "none" /\ Becomes(c, Stage(c, "reopen"))
       \/ flight[f].err = "changed" /\ Retry(c)
       \/ flight[f].err = "unavailable" /\ Becomes(c, Stage(c, "stream"))
       \/ flight[f].err = "failed" /\ Becomes(c, Idle)
    /\ UNCHANGED <<index, routeFile, indexChanges>>
Reopen(c) ==
    /\ Has(c, "reopen")
    /\ Becomes(c, IF Matches(viewer[c].scope, viewer[c].revision) THEN Source(c, viewer[c]) ELSE Stage(c, "stream"))
    /\ UNCHANGED <<index, routeFile, flight, indexChanges>>
\* readPhotoRouteCache; a file that proves damaged is removed, unless it has been replaced.
ReadCache(c) ==
    LET file == viewer[c].source
    IN /\ Has(c, "read")
       /\ IF file.whole THEN Becomes(c, Emitted(c, file.route)) /\ UNCHANGED routeFile
          ELSE /\ Retry(c)
               /\ routeFile' = [routeFile EXCEPT ![viewer[c].scope] = IF @ = file THEN NoRoute ELSE @]
       /\ UNCHANGED <<index, flight, indexChanges>>
Stream(c) == /\ Has(c, "stream") /\ Becomes(c, Emitted(c, Route(viewer[c].scope)))
             /\ UNCHANGED <<index, routeFile, flight, indexChanges>>
\* The end of consumePhotoRoute: the answer, or another attempt.
Current(c) == Revision(viewer[c].scope) = viewer[c].revision
Check(c) == /\ Has(c, "check") /\ (IF Current(c) THEN Becomes(c, Idle) ELSE Retry(c))
            /\ UNCHANGED <<index, routeFile, flight, indexChanges>>

-----------------------------------------------------------------------------
(* Builds                                                                   *)

\* A build that ends wakes those who wait; with nobody waiting it is gone.
Ends(f, err) ==
    flight' = [flight EXCEPT ![f] =
        IF @.waiters = {} THEN NoFlight
        ELSE [scope |-> @.scope, revision |-> @.revision, at |-> "done", err |-> err, listed |-> FALSE, waiters |-> @.waiters]]
Builds(f, at) == flight[f] # NoFlight /\ flight[f].at = at
Calm == UNCHANGED <<index, viewer, indexChanges>>

OpenFirst(f) ==
    /\ Builds(f, "open") /\ UNCHANGED routeFile /\ Calm
    /\ IF Matches(flight[f].scope, flight[f].revision) THEN Ends(f, "none") ELSE flight' = [flight EXCEPT ![f] = [@ EXCEPT !.at = "scan"]]
Scan(f) == /\ Builds(f, "scan") /\ UNCHANGED routeFile /\ Calm
           /\ flight' = [flight EXCEPT ![f] = [@ EXCEPT !.at = "verify", !.route = Route(flight[f].scope)]]
Verify(f) == /\ Builds(f, "verify") /\ UNCHANGED routeFile /\ Calm
             /\ IF Revision(flight[f].scope) = flight[f].revision THEN flight' = [flight EXCEPT ![f] = [@ EXCEPT !.at = "rename"]] ELSE Ends(f, "changed")
\* The file takes its place, which may have become another's meanwhile.
Rename(f) ==
    /\ Builds(f, "rename") /\ Ends(f, "none") /\ Calm
    /\ routeFile' = [routeFile EXCEPT ![flight[f].scope] = [revision |-> flight[f].revision, route |-> flight[f].route, whole |-> TRUE]]
\* A build elsewhere needs the room: prunePhotoRouteCache.
Prune(s) == routeFile[s] # NoRoute /\ Change /\ routeFile' = [routeFile EXCEPT ![s] = NoRoute] /\ UNCHANGED <<index, flight, viewer>>
\* The disk is full, time is up, or the build has been cancelled.
Breaks(f) == /\ \E at \in {"open", "scan", "verify", "rename"} : Builds(f, at)
             /\ IF flight[f].waiters = {} THEN UNCHANGED indexChanges ELSE Change
             /\ \E err \in {"unavailable", "failed"} : Ends(f, err)
             /\ UNCHANGED <<index, routeFile, viewer>>

\* A file is damaged behind its header, for those too who have it open.
Damage(s) ==
    /\ routeFile[s] # NoRoute /\ routeFile[s].whole /\ Change
    /\ routeFile' = [routeFile EXCEPT ![s] = [@ EXCEPT !.whole = FALSE]]
    /\ viewer' = [c \in Viewers |-> IF Has(c, "read") /\ viewer[c].scope = s /\ viewer[c].source = routeFile[s]
                                    THEN [viewer[c] EXCEPT !.source = [@ EXCEPT !.whole = FALSE]] ELSE viewer[c]]
    /\ UNCHANGED <<index, flight>>

\* Rows may be older than the triggers.
Init == /\ \E rows \in [Pictures -> Row \cup {NoPicture}] :
              index = [row |-> rows, number |-> 0, mark |-> [k \in Kinds |-> 0], instance |-> 1]
        /\ routeFile = [s \in Scopes |-> NoRoute] /\ flight = [f \in Flights |-> NoFlight]
        /\ viewer = [c \in Viewers |-> Idle] /\ indexChanges = 0
Next ==
    \/ \E p \in Pictures, row \in Row \cup {NoPicture} : Write(p, row)
    \/ Recreate \/ \E s \in Scopes : Damage(s) \/ Prune(s)
    \/ \E c \in Viewers : \/ \E s \in Scopes : Ask(c, s)
                          \/ ReadRevision(c) \/ OpenCache(c) \/ Uncached(c) \/ Join(c) \/ Reopen(c) \/ ReadCache(c) \/ Stream(c) \/ Check(c)
                          \/ \E f \in Flights : Leave(c, f) \/ Answered(c, f)
    \/ \E f \in Flights : OpenFirst(f) \/ Scan(f) \/ Verify(f) \/ Rename(f) \/ Breaks(f)
Spec == Init /\ [][Next]_routeVars

-----------------------------------------------------------------------------
(* Properties                                                               *)

ViewerRow ==
    {Idle} \cup [at : {"revision"}, scope : Scopes, attempt : 1 .. MaxAttempts]
    \cup [at : {"open", "join", "reopen", "stream"}, scope : Scopes, attempt : 1 .. MaxAttempts, revision : Revisions]
    \cup [at : {"waiting"}, scope : Scopes, attempt : 1 .. MaxAttempts, revision : Revisions, on : Flights]
    \cup [at : {"read"}, scope : Scopes, attempt : 1 .. MaxAttempts, revision : Revisions, source : FileRow]
    \cup [at : {"check"}, scope : Scopes, attempt : 1 .. MaxAttempts, revision : Revisions, route : Paths]
TypeOK ==
    /\ index \in [row : [Pictures -> Row \cup {NoPicture}], number : Nat, mark : [Kinds -> Nat], instance : Nat]
    /\ routeFile \in [Scopes -> FileRow \cup {NoRoute}]
    /\ flight \in [Flights -> FlightRow \cup {NoFlight}]
    /\ viewer \in [Viewers -> ViewerRow]
    /\ indexChanges \in 0 .. MaxIndexChanges

\* A mark is the number of a change.  (Numbers only grow, so what has the same
\* revision is the same.)
MarksAreCounted == \A k \in Kinds : index.mark[k] <= index.number
\* What passes the last check is the route as the index has it: every photo of
\* the scope, where it was taken, and none that is private, hidden or gone.
AnswersAreCurrent == \A c \in Viewers : Has(c, "check") /\ Current(c) => viewer[c].route = Route(viewer[c].scope)
\* So is a file, when its header tells the revision the index is at.
FilesAreCurrent ==
    \A s \in Scopes : routeFile[s] # NoRoute /\ routeFile[s].revision = Revision(s) => routeFile[s].route = Route(s)
\* Who waits is known to the build, and a build that may be joined is under way;
\* of a scope and a revision there is one.
WaitersAreKnown ==
    /\ \A f \in Flights, c \in Viewers : Waits(c, f) <=> flight[f] # NoFlight /\ c \in flight[f].waiters
    /\ \A f \in Listed : flight[f].at # "done" /\ flight[f].waiters # {} /\ Of(flight[f].scope, flight[f].revision) = {f}
    /\ Cardinality(Listed) <= MaxFlights
RoutesInv == TypeOK /\ MarksAreCounted /\ AnswersAreCurrent /\ FilesAreCurrent /\ WaitersAreKnown
=============================================================================
