------------------------------- MODULE PhotoViews -------------------------------
(***************************************************************************)
(* PhotoViews: what is shown of the photo index, in galleries, on maps and *)
(* in answers to searches.  The components share no state, each has its    *)
(* own constants and variables.                                            *)
(***************************************************************************)
EXTENDS Naturals

CONSTANTS
    MaxImages, MaxImageGroupSize, MaxGroups, MaxGroupEdits,                      \* ImageGroups
    Pictures, Albums, Spots, Scopes, Everything, Viewers, Flights, MaxFlights, MaxAttempts,
    MaxIndexChanges, NoPicture, NoRoute, NoFlight, Behind,                       \* RouteCache
    Folders, Markers, Above, Ranges, Guests, BatchSize, MaxMarks, NoScan,        \* PhotoVisibility
    Shots, Words, Short, Looks, Entries, Queries, PageSize, Pages, CandidateMin, CandidateFactor,
    CandidateMax, ExcludedMax, MaxRowChanges, NoLook, NoListing                  \* PhotoQuery

VARIABLES
    album, opened, astray, groupEdits,                                           \* ImageGroups
    index, routeFile, flight, viewer, indexChanges,                              \* RouteCache
    marked, rows, scan, guest, due, marks,                                       \* PhotoVisibility
    media, stats, listing, rowChanges                                            \* PhotoQuery

Groups == INSTANCE ImageGroups
Routes == INSTANCE RouteCache
Visibility == INSTANCE PhotoVisibility
Search == INSTANCE PhotoQuery

ASSUME GroupsInstance == Groups!GroupsAssumption
ASSUME RoutesInstance == Routes!RouteAssumption
ASSUME VisibilityInstance == Visibility!VisibilityAssumption
ASSUME SearchInstance == Search!QueryAssumption

ofGroups == <<album, opened, astray, groupEdits>>
ofRoutes == <<index, routeFile, flight, viewer, indexChanges>>
ofVisibility == <<marked, rows, scan, guest, due, marks>>
ofSearch == <<media, stats, listing, rowChanges>>

\* Groups of images are whole, one image of each is in the gallery, and a form
\* that is accepted is about the group as it is (image_groups.go,
\* image_groups_schema.go).
ImagesAreShown == Groups!GroupsInv
\* A route that is answered is the one of the index, whatever changes while it
\* is built, cached and shared; and what lies below a marker is private before
\* a request that came later reads on (route_cache.go, route_revision.go,
\* map_visibility.go, faces_visibility.go).
MapsAreTrue == Routes!RoutesInv /\ Visibility!VisibilityInv
\* A search finds what matches, and the page and total that it answers are those
\* of the matches (index_query_plan.go, index_query_media.go).
SearchIsTrue == Search!QueryInv
=============================================================================
