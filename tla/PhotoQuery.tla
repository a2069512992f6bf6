------------------------------ MODULE PhotoQuery ------------------------------
(***************************************************************************)
(* PhotoQuery: searching the photo index from its root.  A query is        *)
(* planned: part of it SQL answers, part the full text index, and what     *)
(* neither can answer is filtered from a bounded number of candidates.     *)
(* Totals come from counts made earlier where they can.  A listing reads   *)
(* its total, the rows to leave out and its page one after the other.      *)
(***************************************************************************)
EXTENDS Naturals, Sequences, FiniteSets

CONSTANTS
    Shots,           \* paths of media_index, in the order of their dates
    Words,           \* what is searched for
    Short,           \* those too short for the full text index
    Looks,           \* rows that scans and edits write
    Entries,         \* posts and folders
    Queries,         \* sequences of tokens; the empty one lists the root folder
    PageSize,        \* of a listing
    Pages,           \* that are asked for
    CandidateMin, CandidateFactor, CandidateMax, \* 1000, 20, 10000: rows looked at to fill a page
    ExcludedMax,     \* 5000: rows with the tag the fast path leaves out
    MaxRowChanges,   \* bound: changes of the index
    NoLook,          \* no row
    NoListing

VARIABLES
    media,           \* media_index: the row of each path
    stats,           \* photo_stats: counts the last rebuild made
    listing,         \* the request that lists photos
    rowChanges       \* changes so far

queryVars == <<media, stats, listing, rowChanges>>

\* What a row says in each place (a name stands for whatever SQL compares); whether
\* it has a position, is private, belongs to a group without being shown for it,
\* and lies in the root folder.
Places == {"name", "camera", "tag", "xmp", "seen"}
Look == [says : [Places -> SUBSET Words], located : BOOLEAN, private : BOOLEAN, grouped : BOOLEAN, root : BOOLEAN]
EntryPlaces == {"name", "tag", "text"}
Entry == [kind : {"post", "folder"}, says : [EntryPlaces -> SUBSET Words]]
\* A token is a term, a list of terms of which two have to hold (2-of), or a connective.
Term == [field : {"name", "tag", "person", "gps", "camera", "text"}, word : Words, negated : BOOLEAN]
Token == {n \in [kind : {"term", "some", "and", "or"}, terms : Seq(Term)] :
             /\ n.kind = "term" => Len(n.terms) = 1
             /\ n.kind \in {"and", "or"} => n.terms = <<>>}

QueryAssumption ==
    /\ IsFiniteSet(Shots) /\ Shots \subseteq Nat /\ Short \subseteq Words
    /\ Looks \subseteq Look /\ NoLook \notin Look /\ Entries \subseteq Entry
    /\ Queries \subseteq Seq(Token)
    /\ PageSize \in Nat \ {0} /\ Pages \subseteq Nat \ {0}
    /\ CandidateMin \in Nat /\ CandidateFactor \in Nat \ {0} /\ CandidateMax \in Nat /\ CandidateMin <= CandidateMax
    /\ ExcludedMax \in Nat /\ MaxRowChanges \in Nat

-----------------------------------------------------------------------------
(* What a query means: parseQueryExpression, compileMediaQuery, matchesTerm *)

\* The tokens between two ORs are a group; ORs alone are one group of them.
Ors(q) == {i \in DOMAIN q : q[i].kind = "or"}
Around(q, i) == {j \in DOMAIN q \ Ors(q) : \A o \in Ors(q) : o < i <=> o < j}
Groups(q) == IF Ors(q) = DOMAIN q THEN {DOMAIN q} ELSE {Around(q, i) : i \in DOMAIN q \ Ors(q)}
HasOr(q) == Ors(q) # {}
Skip(n) == n.kind \in {"and", "or"}
Terms(n) == {n.terms[j] : j \in DOMAIN n.terms}
TermsOf(q) == UNION {Terms(q[i]) : i \in DOMAIN q}
HasPerson(q) == \E t \in TermsOf(q) : t.field = "person"

Text(row) == UNION {row.says[p] : p \in {"name", "camera", "tag", "xmp"}}
\* The filter adds to the faces of the metadata the ones recognized, for a query about persons.
TermMatches(row, t, added) ==
    CASE t.field = "gps" -> row.located
      [] t.field = "person" -> t.word \in row.says["xmp"] \cup row.says["seen"]
      [] t.field = "text" -> t.word \in Text(row) \cup added
      [] OTHER -> t.word \in row.says[t.field]
NodeMatches(row, n, added) ==
    /\ n.kind = "term" => \A t \in Terms(n) : TermMatches(row, t, added) # t.negated
    /\ n.kind = "some" => Cardinality({j \in DOMAIN n.terms : TermMatches(row, n.terms[j], added)}) >= 2
MatchesWith(row, q, added) == \E g \in Groups(q) : \A i \in g : NodeMatches(row, q[i], added)
Matches(row, q) == MatchesWith(row, q, {})
RowMatches(row, q) == MatchesWith(row, q, IF HasPerson(q) THEN row.says["seen"] ELSE {})

-----------------------------------------------------------------------------
(* How it is answered: indexQueryPlanFor, indexWhere                        *)

CanUseSql(t) == t.field \notin {"camera", "text"}
SqlHolds(row, t) == TermMatches(row, t, {}) # t.negated
FullText(t) == ~t.negated /\ t.word \notin Short

\* Queries about persons stay in SQL when all of their terms can.
ByExpression(q) == /\ HasPerson(q) /\ \A t \in TermsOf(q) : CanUseSql(t)
                   /\ \A i \in DOMAIN q : q[i].kind = "some" => q[i].terms # <<>>
                   /\ \A g \in Groups(q) : \E i \in g : ~Skip(q[i])
NodeInSql(row, n) ==
    /\ n.kind = "term" => \A t \in Terms(n) : SqlHolds(row, t)
    /\ n.kind = "some" => Cardinality({j \in DOMAIN n.terms : SqlHolds(row, n.terms[j])}) >= 2
ExpressionHolds(row, q) == \E g \in Groups(q) : \A i \in g : NodeInSql(row, q[i])

\* Without OR every term narrows the candidates on its own.
PlainTerms(q, g) == UNION {Terms(q[i]) : i \in {j \in g : q[j].kind = "term"}}
TermNarrows(row, t) == IF CanUseSql(t) THEN SqlHolds(row, t) ELSE FullText(t) => t.word \in Text(row)
AndCandidate(row, q) == \A t \in PlainTerms(q, DOMAIN q) : TermNarrows(row, t)
LeavesWork(q) == \/ \E i \in DOMAIN q : q[i].kind = "some"
                 \/ \E t \in PlainTerms(q, DOMAIN q) : ~CanUseSql(t) /\ ~FullText(t)

\* With OR only the full text index narrows them, if every group has a term for it.
OrTerms(q, g) == {t \in PlainTerms(q, g) : FullText(t) /\ t.field # "gps"}
NarrowsOr(q) == \A g \in Groups(q) : OrTerms(q, g) # {} /\ \A t \in PlainTerms(q, g) : t.field # "person"
OrCandidate(row, q) == NarrowsOr(q) => \E g \in Groups(q) : \A t \in OrTerms(q, g) : t.word \in Text(row)

PostFilter(q) == ~ByExpression(q) /\ (HasOr(q) \/ LeavesWork(q))
Candidate(row, q) == CASE q = <<>> -> row.root
                       [] ByExpression(q) -> ExpressionHolds(row, q)
                       [] ~ByExpression(q) /\ HasOr(q) -> OrCandidate(row, q)
                       [] OTHER -> AndCandidate(row, q)
Found(row, q) == Candidate(row, q) /\ (PostFilter(q) => RowMatches(row, q))

-----------------------------------------------------------------------------
(* Posts and folders: matchesBlogQuery, matchesFolderQuery                  *)

\* All of them are filtered with the query; a 2-of is a word to them that none has.
EntryText(e) == UNION {e.says[p] : p \in EntryPlaces}
EntrySays(e, t) == IF t.field \in {"name", "tag"} THEN e.says[t.field] ELSE EntryText(e)
EntryMatches(e, q) == \E g \in Groups(q) : \A i \in g :
    q[i].kind # "some" /\ \A t \in Terms(q[i]) : (t.word \in EntrySays(e, t)) # t.negated
\* SQL compares tags, and names of posts without regard to the negation.  The other
\* terms of SQL are looked up in the full text, unless there are texts to look up;
\* if all are too short, the query itself is, which is in no text.
Compares(e) == IF e.kind = "post" THEN {"tag", "name"} ELSE {"tag"}
Texts(q) == {t \in PlainTerms(q, DOMAIN q) : ~CanUseSql(t) /\ FullText(t)}
LookedUp(e, q) == {t \in PlainTerms(q, DOMAIN q) : CanUseSql(t) /\ t.field \notin Compares(e)}
TextNarrows(e, q) ==
    IF Texts(q) # {} THEN \A t \in Texts(q) : t.word \in EntryText(e)
    ELSE LET long == {t \in LookedUp(e, q) : t.word \notin Short}
         IN  (LookedUp(e, q) # {} => long # {}) /\ \A t \in long : t.word \in EntryText(e)
EntryCandidate(e, q) ==
    \/ ByExpression(q) \/ HasOr(q)
    \/ /\ TextNarrows(e, q)
       /\ \A t \in PlainTerms(q, DOMAIN q) : t.field \in Compares(e) =>
             (t.word \in e.says[t.field]) # (t.negated /\ t.field = "tag")
\* Folders are not looked for when there is nothing to narrow them.
AsksFolders(q) == PostFilter(q) \/ (~ByExpression(q) /\ PlainTerms(q, DOMAIN q) # {})
EntryFound(e, q) == (e.kind = "folder" => AsksFolders(q)) /\ EntryCandidate(e, q) /\ EntryMatches(e, q)

-----------------------------------------------------------------------------
(* Totals and pages: indexFastTotal, indexMedia                             *)

Rows(m) == {p \in Shots : m[p] # NoLook}
Allowed(row, admin) == admin \/ ~row.private
Shown(row, admin) == ~row.grouped /\ Allowed(row, admin)
Search(m, q, admin) == {p \in Rows(m) : Shown(m[p], admin) /\ Found(m[p], q)}
Candidates(m, q, admin) == {p \in Rows(m) : Shown(m[p], admin) /\ Candidate(m[p], q)}
Offset(k) == (k - 1) * PageSize
PageOf(s, k) == {p \in s : Cardinality({o \in s : o < p}) \in Offset(k) .. Offset(k) + PageSize - 1}
HasNext(k, total) == total > 0 /\ k <= (total - 1) \div PageSize
CandidateLimit(k) ==
    LET wanted == Offset(k) + PageSize * CandidateFactor
    IN  IF wanted > CandidateMax THEN CandidateMax ELSE IF wanted < CandidateMin THEN CandidateMin ELSE wanted

\* Plans of one term, which SQL answers.
Lone(q, field, negated) ==
    /\ ~HasOr(q)
    /\ \E i \in DOMAIN q : /\ q[i].kind = "term" /\ q[i].terms[1].field = field /\ q[i].terms[1].negated = negated
                           /\ \A j \in DOMAIN q \ {i} : Skip(q[j])
OnlyNegatedTag(q) == Lone(q, "tag", TRUE)
OnlyGps(q) == Lone(q, "gps", FALSE) \/ Lone(q, "gps", TRUE)
Tagged(m, q) == {p \in Rows(m) : \E t \in TermsOf(q) : t.word \in m[p].says["tag"]}
HasFastTotal(m, q, admin) ==
    \/ q = <<>>
    \/ OnlyGps(q) /\ admin
    \/ OnlyNegatedTag(q) /\ (admin \/ \A p \in Rows(m) : ~m[p].private)
Less(a, b) == IF a > b THEN a - b ELSE 0
Counted(m, q, admin) == IF q = <<>> THEN (IF admin THEN stats.root ELSE stats.open)
                        ELSE IF OnlyGps(q) THEN stats.located
                        ELSE Less(stats.all, Cardinality(Tagged(m, q)))
GroupedAmong(m, q, admin) == {p \in Rows(m) : m[p].grouped /\ Allowed(m[p], admin) /\ Candidate(m[p], q)}

\* The first rows by date that may be shown.
First(m, admin, n) == LET s == {p \in Rows(m) : Shown(m[p], admin)} IN {p \in s : Cardinality({o \in s : o < p}) < n}
\* Variant: fetched as many rows as the page takes.
FetchLimit_Page(k, excluded) == Offset(k) + PageSize
FetchLimit(k, excluded) == Offset(k) + PageSize + Cardinality(excluded)

-----------------------------------------------------------------------------
(* The index changes                                                        *)

CountsOf(m) == [all |-> Cardinality(Rows(m)), located |-> Cardinality({p \in Rows(m) : m[p].located}),
                root |-> Cardinality({p \in Rows(m) : m[p].root}),
                open |-> Cardinality({p \in Rows(m) : m[p].root /\ ~m[p].private})]
Fresh == stats = CountsOf(media)

Write(p, row) ==
    /\ rowChanges < MaxRowChanges /\ rowChanges' = rowChanges + 1
    /\ row # media[p] /\ media' = [media EXCEPT ![p] = row]
    /\ listing' = IF listing = NoListing THEN listing ELSE [listing EXCEPT !.touched = @ \cup {p}]
    /\ UNCHANGED stats
\* A request or a scan writes a row, or finds that its file is gone.
Save(p, row) == Write(p, row)
Drop(p) == Write(p, NoLook)
SetTags(p, s) == media[p] # NoLook /\ Write(p, [media[p] EXCEPT !.says["tag"] = s])
Group(p, b) == media[p] # NoLook /\ Write(p, [media[p] EXCEPT !.grouped = b])
SetPrivate(p, b) == media[p] # NoLook /\ Write(p, [media[p] EXCEPT !.private = b])
Recognize(p, s) == media[p] # NoLook /\ Write(p, [media[p] EXCEPT !.says["seen"] = s])
Recount == ~Fresh /\ stats' = CountsOf(media) /\ UNCHANGED <<media, listing, rowChanges>>

-----------------------------------------------------------------------------
(* A listing: each step reads the index once                                *)

Unread == [p \in Shots |-> NoLook]
Open(q, admin, k) ==
    /\ listing = NoListing
    /\ listing' = [at |-> "start", query |-> q, admin |-> admin, page |-> k, fast |-> OnlyNegatedTag(q), total |-> 0,
                   excluded |-> {}, read |-> Unread, shown |-> {}, fresh |-> Fresh, touched |-> {}]
    /\ UNCHANGED <<media, stats, rowChanges>>
Step(l) == listing' = l /\ UNCHANGED <<media, stats, rowChanges>>
Is(at) == listing # NoListing /\ listing.at = at
Close == listing # NoListing /\ listing.at \in {"done", "failed"} /\ Step(NoListing)
Answer(shown, total) == [listing EXCEPT !.at = "done", !.shown = shown, !.total = total]
Fast == HasFastTotal(media, listing.query, listing.admin)

\* A total from earlier counts, less the rows in groups, which are counted now.
FastTotal == /\ Is("start") /\ ~PostFilter(listing.query) /\ Fast
             /\ Step([listing EXCEPT !.at = "hidden", !.total = Counted(media, listing.query, listing.admin)])
Hidden == /\ Is("hidden")
          /\ Step([listing EXCEPT !.at = IF listing.fast THEN "exclude" ELSE "page",
                                  !.total = Less(@, Cardinality(GroupedAmong(media, listing.query, listing.admin)))])
\* Without one, or with too many rows to leave out, the fast page is given up.
NotFast == Is("start") /\ listing.fast /\ ~Fast /\ Step([listing EXCEPT !.fast = FALSE])
Exclude == /\ Is("exclude")
           /\ LET s == Tagged(media, listing.query)
              IN  Step(IF Cardinality(s) > ExcludedMax THEN [listing EXCEPT !.at = "start", !.fast = FALSE]
                       ELSE [listing EXCEPT !.at = "fetch", !.excluded = s])
FastPage == /\ Is("fetch")
            /\ Step(Answer(PageOf(First(media, listing.admin, FetchLimit(listing.page, listing.excluded))
                                  \ listing.excluded, listing.page), listing.total))
Count == /\ Is("start") /\ ~listing.fast /\ ~PostFilter(listing.query) /\ ~Fast
         /\ Step([listing EXCEPT !.at = "page", !.total = Cardinality(Search(media, listing.query, listing.admin))])
\* SQLite has no plan for the terms of -gps with the index of photos that have a position.
PlainPage ==
    /\ Is("page")
    /\ LET reached == listing.total > 0 /\ Offset(listing.page) < listing.total
           noPlan == Lone(listing.query, "gps", TRUE) /\ listing.admin
       IN  Step(IF ~reached THEN Answer({}, listing.total)
                ELSE IF noPlan THEN [listing EXCEPT !.at = "failed"]
                ELSE Answer(PageOf(Search(media, listing.query, listing.admin), listing.page), listing.total))

\* What is left to filter comes from one statement, the faces recognized from another.
Filter ==
    /\ Is("start") /\ PostFilter(listing.query)
    /\ LET s == Candidates(media, listing.query, listing.admin)
       IN  Step(IF Cardinality(s) > CandidateLimit(listing.page) THEN [listing EXCEPT !.at = "failed"]
                ELSE [listing EXCEPT !.at = "filter", !.read = [p \in Shots |-> IF p \in s THEN media[p] ELSE NoLook]])
SeenNow(p) == IF media[p] = NoLook THEN {} ELSE media[p].says["seen"]
Kept(l) == {p \in Rows(l.read) : RowMatches([l.read[p] EXCEPT !.says["seen"] = SeenNow(p)], l.query)}
FilteredPage == Is("filter") /\ Step(Answer(PageOf(Kept(listing), listing.page), Cardinality(Kept(listing))))

Init == /\ media \in [Shots -> Looks \cup {NoLook}] /\ stats = CountsOf(media)
        /\ listing = NoListing /\ rowChanges = 0
Change == \E p \in Shots : \/ \E row \in Looks : Save(p, row)
                           \/ Drop(p)
                           \/ \E s \in {{}} \cup {{w} : w \in Words} : SetTags(p, s) \/ Recognize(p, s)
                           \/ \E b \in BOOLEAN : Group(p, b) \/ SetPrivate(p, b)
Next == \/ Change \/ Recount
        \/ \E q \in Queries, admin \in BOOLEAN, k \in Pages : Open(q, admin, k)
        \/ FastTotal \/ Hidden \/ NotFast \/ Exclude \/ FastPage
        \/ Count \/ PlainPage \/ Filter \/ FilteredPage \/ Close
Spec == Init /\ [][Next]_queryVars

-----------------------------------------------------------------------------
(* Properties                                                               *)

TypeOK == /\ media \in [Shots -> Look \cup {NoLook}]
          /\ stats \in [all : Nat, located : Nat, root : Nat, open : Nat]
          /\ listing = NoListing \/ listing \in [at : {"start", "hidden", "exclude", "fetch", "page", "filter", "done", "failed"},
               query : Queries, admin : BOOLEAN, page : Pages, fast : BOOLEAN, total : Nat, excluded : SUBSET Shots,
               read : [Shots -> Look \cup {NoLook}], shown : SUBSET Shots, fresh : BOOLEAN, touched : SUBSET Shots]
          /\ rowChanges \in 0 .. MaxRowChanges

\* A query about persons that also searches texts may find a recognized name in
\* the text; the terms of a 2-of are negated only by SQL.
Mixed(q) == HasPerson(q) /\ ~ByExpression(q)
SomeOf(q) == \E i \in DOMAIN q : q[i].kind = "some" /\ \E t \in Terms(q[i]) : t.negated
\* No photo that matches what is searched for is missing from the candidates
\* (indexQueryPlanFor).
MatchesAreFound == Is("start") /\ listing.query # <<>> => \A p \in Rows(media) :
    LET q == listing.query
    IN  ~Mixed(q) /\ ~SomeOf(q) /\ Matches(media[p], q) => Found(media[p], q)
\* What is found matches, unless a field was looked up in the whole text:
\* camera and lens without OR, which the full text index cannot tell apart.
Coarse(q) == ~HasOr(q) /\ \E t \in TermsOf(q) : t.field = "camera" /\ ~t.negated
FoundMatches == Is("start") => \A p \in Rows(media) :
    LET q == listing.query
    IN  ~Mixed(q) /\ ~SomeOf(q) /\ ~Coarse(q) /\ Found(media[p], q) => Matches(media[p], q)
\* Posts and folders that match are found, if the names, persons and positions asked
\* for are neither negated nor short, and a folder is not asked for by persons alone.
PlainlyAsked(e, q) ==
    /\ \A t \in TermsOf(q) : t.field \in {"name", "person", "gps"} => ~t.negated /\ t.word \notin Short
    /\ e.kind = "folder" => AsksFolders(q)
    /\ q # <<>>
EntriesAreFound == Is("start") => \A e \in Entries :
    PlainlyAsked(e, listing.query) /\ EntryMatches(e, listing.query) => EntryFound(e, listing.query)

\* A photo that did not change while a listing was made is on it only if it
\* matches; if none did and the counts were fresh, the listing is the page of all
\* matches and its total is theirs (indexMediaNegatedTagFast, indexFastTotal).
AnswerHolds(l) ==
    LET s == Search(media, l.query, l.admin)
    IN  /\ l.shown \ l.touched \subseteq s
        /\ l.fresh /\ l.touched = {} =>
              /\ l.shown = PageOf(s, l.page) /\ l.total = Cardinality(s)
              /\ HasNext(l.page, l.total) <=> \E p \in s : Cardinality({o \in s : o < p}) >= l.page * PageSize
AnswersHold == Is("done") => (Lone(listing.query, "gps", TRUE) /\ listing.admin) \/ AnswerHolds(listing)

QueryInv == TypeOK /\ MatchesAreFound /\ FoundMatches /\ EntriesAreFound /\ AnswersHold
=============================================================================
