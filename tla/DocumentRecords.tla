--------------------------- MODULE DocumentRecords ---------------------------
(***************************************************************************)
(* What the database says of documents: rows, tags and the rules that give *)
(* them to new documents, values of custom fields, saved searches, and the *)
(* search index that repeats tags, values and text; the requests that      *)
(* change them, each with what it read before its transaction; and the     *)
(* counts the server remembers, which a request clears when it is done.    *)
(* A repository method is one transaction and here one action.             *)
(***************************************************************************)
EXTENDS Integers, FiniteSets

CONSTANTS
    Docs,      \* ids of documents
    Names,     \* normalized tag names; a tag row is known by its name
    Fields,    \* ids of custom fields; ids are not used twice
    Values,    \* values of custom fields
    Fold,      \* the lower-case form of each value
    Words,     \* words of texts and file names
    FileWords, \* words of the file name of each document
    Rules,     \* rules that an administrator may give a tag
    TagSets,   \* sets of tags that requests name
    FirstTags, FirstField, \* tags and fields that were there before
    Filters,   \* lists that are counted
    Requests, Readers,
    CacheLimit, \* documentCountCacheLimit, folderValueCacheLimit
    MaxChanges, \* bound: changes of the database
    NoValue, NoAnswer

ASSUME RecordsAssumption ==
    /\ IsFiniteSet(Docs)
    /\ NoValue \notin Values
    /\ Fold \in [Values -> Values]
    /\ FileWords \in [Docs -> SUBSET Words]
    /\ Rules \subseteq [words : SUBSET Words, excludes : SUBSET Words, all : BOOLEAN,
                        scope : {"filename", "text", "both"}]
    /\ TagSets \subseteq SUBSET Names /\ FirstTags \subseteq Names
    /\ FirstField \in [Fields -> {"new", "plain", "folder"}]
    /\ Filters # {}
    /\ Filters \subseteq [trash : BOOLEAN, query : SUBSET (Names \cup Words \cup Values),
                          tags : SUBSET Names,
                          fields : SUBSET [field : Fields, value : Values, exact : BOOLEAN]]
    /\ CacheLimit \in Nat /\ MaxChanges \in Nat

VARIABLES
    status,    \* documents.deleted_at, or no row
    text,      \* documents.content_text, as words
    assigned,  \* document_tags
    values,    \* document_custom_values
    index,     \* document_search
    tags,      \* tags
    protected, \* tags.delete_protected
    rules,     \* tag_rules
    favorite,  \* search_favorites.tags of one saved search
    field,     \* custom_fields and their value_folder_min_documents
    cache,     \* documentCountCache
    req,       \* requests on their way
    reader,    \* counts on their way
    changes    \* how often the database was changed

documents == <<status, text, assigned, values, index>>
catalog == <<tags, protected, rules, favorite, field>>
recordVars == <<status, text, assigned, values, index, tags, protected, rules, favorite, field,
          cache, req, reader, changes>>

FieldValues == [Fields -> Values \cup {NoValue}]
NoValues == [c \in Fields |-> NoValue]
Entry(T, v, t) == [tags |-> T, values |-> v, text |-> t]
NoEntry == Entry({}, NoValues, {})
Rows == {d \in Docs : status[d] \in {"active", "trash"}}
Active == {d \in Docs : status[d] = "active"}
ActiveOf(D) == {d \in D : status[d] = "active"}
Known == {c \in Fields : field[c] \in {"plain", "folder"}}
StoredIn(K, v) == [c \in Fields |-> IF c \in K THEN v[c] ELSE NoValue]
StoredValues(v) == StoredIn(Known, v)
Protected(d) == assigned[d] \cap protected # {}

NoRequest == [at |-> "idle", docs |-> {}, tags |-> {}, vals |-> NoValues]
NotReading == [at |-> "idle", what |-> "count", filter |-> CHOOSE f \in Filters : TRUE,
               answer |-> NoAnswer]

-----------------------------------------------------------------------------
(* Counts                                                                   *)

\* The words that the full-text search finds a document by.
Found(d) == index[d].tags \cup index[d].text
              \cup {Fold[index[d].values[c]] : c \in {x \in Fields : index[d].values[x] # NoValue}}

HasValue(d, c) ==
    IF c.exact THEN values[d][c.field] = c.value
               ELSE values[d][c.field] # NoValue /\ Fold[values[d][c.field]] = Fold[c.value]

Listed(f) ==
    {d \in Docs : /\ status[d] = IF f.trash THEN "trash" ELSE "active"
                  /\ f.query \subseteq Found(d)
                  /\ f.tags \subseteq assigned[d]
                  /\ \A c \in f.fields : HasValue(d, c)}

Selected(f) == {c.field : c \in {x \in f.fields : x.exact}}
HavingValue(f, c, v) == {d \in Listed(f) : values[d][c] = v}
Folders(f) ==
    {<<p[1], p[2], Cardinality(HavingValue(f, p[1], p[2]))>> :
       p \in {y \in {x \in Fields : field[x] = "folder" /\ x \notin Selected(f)} \X Values :
                HavingValue(f, y[1], y[2]) # {}}}

Answer(what, f) == IF what = "count" THEN Cardinality(Listed(f)) ELSE Folders(f)

\* documentCountKey: values of fields in lower case.
Key(f) == [f EXCEPT !.fields = {[c EXCEPT !.value = Fold[@]] : c \in @}]

Entries == {"count", "folders"} \X {Key(f) : f \in Filters}
NoCache == [e \in Entries |-> NoAnswer]
Full(what) == Cardinality({e \in Entries : e[1] = what /\ cache[e] # NoAnswer}) >= CacheLimit

\* A count that is not remembered: the generation is noted ...
Ask(q, what, f) ==
    /\ reader[q].at = "idle"
    /\ cache[<<what, Key(f)>>] = NoAnswer
    /\ reader' = [reader EXCEPT ![q] = [at |-> "asked", what |-> what, filter |-> f,
                                        answer |-> NoAnswer]]
    /\ UNCHANGED <<documents, catalog, cache, req, changes>>

\* ... the database counts ...
Query(q) ==
    /\ reader[q].at = "asked"
    /\ reader' = [reader EXCEPT ![q].at = "counted",
                                ![q].answer = Answer(reader[q].what, reader[q].filter)]
    /\ UNCHANGED <<documents, catalog, cache, req, changes>>

\* ... and the answer is remembered if nothing was invalidated meanwhile.
Remember(q) ==
    LET what == reader[q].what
        e == <<what, Key(reader[q].filter)>>
    IN  /\ reader[q].at = "counted"
        /\ cache' = [x \in Entries |-> IF x = e THEN reader[q].answer
                                    ELSE IF x[1] = what /\ Full(what) THEN NoAnswer
                                    ELSE cache[x]]
        /\ reader' = [reader EXCEPT ![q] = NotReading]
        /\ UNCHANGED <<documents, catalog, req, changes>>

\* Variant: counts on their way belong to the new generation.
Invalidate_SameGeneration(r) ==
    /\ req[r].at = "committed"
    /\ cache' = NoCache
    /\ req' = [req EXCEPT ![r] = NoRequest]
    /\ UNCHANGED <<documents, catalog, changes, reader>>

\* invalidateDocumentCountCache, the last thing a request does.  Counts on
\* their way will find another generation and are for their caller only.
Invalidate(r) ==
    /\ req[r].at = "committed"
    /\ cache' = NoCache
    /\ reader' = [q \in Readers |-> NotReading]
    /\ req' = [req EXCEPT ![r] = NoRequest]
    /\ UNCHANGED <<documents, catalog, changes>>

-----------------------------------------------------------------------------
(* Requests                                                                 *)

Changed == changes < MaxChanges /\ changes' = changes + 1
Committed(r) == Changed /\ req' = [req EXCEPT ![r] = [NoRequest EXCEPT !.at = "committed"]]
Begin(r, at, D, T, v) ==
    /\ req[r].at = "idle"
    /\ req' = [req EXCEPT ![r] = [at |-> at, docs |-> D, tags |-> T, vals |-> v]]
    /\ UNCHANGED <<documents, catalog, cache, reader, changes>>
\* The transaction finds that it has nothing to work on.
GivesUp(r) ==
    /\ req' = [req EXCEPT ![r] = NoRequest]
    /\ UNCHANGED <<documents, catalog, cache, reader, changes>>

Reindex(D) ==
    index' = [d \in Docs |-> IF d \in D THEN Entry(assigned'[d], values'[d], text'[d]) ELSE index[d]]

Hay(rule, d, t) == (IF rule.scope = "text" THEN {} ELSE FileWords[d])
                     \cup (IF rule.scope = "filename" THEN {} ELSE t)
RuleMatches(rule, d, t) ==
    /\ rule.words # {}
    /\ rule.excludes \cap Hay(rule, d, t) = {}
    /\ IF rule.all THEN rule.words \subseteq Hay(rule, d, t)
                   ELSE rule.words \cap Hay(rule, d, t) # {}
AutoTags(d, t) == {n \in tags : \E rule \in rules[n] : RuleMatches(rule, d, t)}

\* An import; the rules add tags to those the upload came with.
CreateDocument(r, d, T, t) ==
    /\ req[r].at = "idle" /\ status[d] = "new"
    /\ status' = [status EXCEPT ![d] = "active"]
    /\ text' = [text EXCEPT ![d] = t]
    /\ assigned' = [assigned EXCEPT ![d] = T \cup AutoTags(d, t)]
    /\ values' = values
    /\ Reindex({d})
    /\ tags' = tags \cup T
    /\ Committed(r)
    /\ UNCHANGED <<protected, rules, favorite, field, cache, reader>>

\* The text a background job found: OCR, or a file read again after its import.
UpdateSearchText(r, d, t) ==
    /\ req[r].at = "idle" /\ d \in Rows
    /\ text' = [text EXCEPT ![d] = t]
    /\ UNCHANGED <<status, assigned, values>>
    /\ Reindex({d})
    /\ Committed(r)
    /\ UNCHANGED <<catalog, cache, reader>>

\* The form of a document: values of the fields there are, all tags at once.
ReadForm(r, d, T, v) ==
    /\ \A c \in Fields : v[c] # NoValue => c \in Known
    /\ Begin(r, "metadata", {d}, T, v)

\* The tags of a document alone: the rest is written back as it was read.
ReadTags(r, d, T) == d \in Active /\ Begin(r, "metadata", {d}, T, values[d])

\* Values of fields that are gone are not stored, but indexed.
UpdateMetadata(r) ==
    /\ req[r].at = "metadata"
    /\ \E d \in req[r].docs :
         IF d \notin Rows THEN GivesUp(r)
         ELSE /\ assigned' = [assigned EXCEPT ![d] = req[r].tags]
              /\ values' = [values EXCEPT ![d] = StoredValues(req[r].vals)]
              /\ index' = [index EXCEPT ![d] = Entry(req[r].tags, req[r].vals, text[d])]
              /\ tags' = tags \cup req[r].tags
              /\ Committed(r)
              /\ UNCHANGED <<status, text, protected, rules, favorite, field, cache, reader>>

\* Values for several documents: fields that are left empty keep theirs.
ReadFields(r, D, v) ==
    /\ \A c \in Fields : v[c] # NoValue => c \in Known
    /\ v # NoValues /\ D # {}
    /\ Begin(r, "fields", D, {}, v)

Merged(d, v) == [c \in Fields |-> IF v[c] # NoValue THEN v[c] ELSE values[d][c]]

SetCustomValues(r) ==
    LET D == ActiveOf(req[r].docs)
        v == req[r].vals
    IN  /\ req[r].at = "fields"
        /\ values' = [d \in Docs |-> IF d \in D THEN StoredValues(Merged(d, v)) ELSE values[d]]
        /\ index' = [d \in Docs |-> IF d \in D THEN Entry(assigned[d], Merged(d, v), text[d])
                                    ELSE index[d]]
        /\ Committed(r)
        /\ UNCHANGED <<status, text, assigned, catalog, cache, reader>>

\* Tags for several documents; only their column of the index is written.
AddTags(r, D, T) ==
    /\ req[r].at = "idle" /\ D # {} /\ T # {}
    /\ assigned' = [d \in Docs |-> IF d \in ActiveOf(D) THEN assigned[d] \cup T ELSE assigned[d]]
    /\ index' = [d \in Docs |-> IF d \in ActiveOf(D) THEN [index[d] EXCEPT !.tags = assigned'[d]]
                                ELSE index[d]]
    /\ tags' = tags \cup T
    /\ Committed(r)
    /\ UNCHANGED <<status, text, values, protected, rules, favorite, field, cache, reader>>

RemoveTags(r, D, T) ==
    /\ req[r].at = "idle" /\ D # {} /\ T # {}
    /\ assigned' = [d \in Docs |-> IF d \in ActiveOf(D) THEN assigned[d] \ T ELSE assigned[d]]
    /\ index' = [d \in Docs |-> IF d \in ActiveOf(D) THEN [index[d] EXCEPT !.tags = assigned'[d]]
                                ELSE index[d]]
    /\ Committed(r)
    /\ UNCHANGED <<status, text, values, catalog, cache, reader>>

\* Two statements: is a protecting tag on it?  Then to the trash with it.
AskProtected(r, d) == d \in Active /\ ~Protected(d) /\ Begin(r, "trashing", {d}, {}, NoValues)
SoftDeleteRecord(r) ==
    /\ req[r].at = "trashing"
    /\ \E d \in req[r].docs :
         IF d \notin Active THEN GivesUp(r)
         ELSE /\ status' = [status EXCEPT ![d] = "trash"]
              /\ Committed(r)
              /\ UNCHANGED <<text, assigned, values, index, catalog, cache, reader>>

RestoreRecord(r, d) ==
    /\ req[r].at = "idle" /\ status[d] = "trash"
    /\ status' = [status EXCEPT ![d] = "active"]
    /\ Committed(r)
    /\ UNCHANGED <<text, assigned, values, index, catalog, cache, reader>>

\* Rows, assignments, values and index entries of purged documents go together.
Remove(D) ==
    /\ status' = [d \in Docs |-> IF d \in D THEN "purged" ELSE status[d]]
    /\ text' = [d \in Docs |-> IF d \in D THEN {} ELSE text[d]]
    /\ assigned' = [d \in Docs |-> IF d \in D THEN {} ELSE assigned[d]]
    /\ values' = [d \in Docs |-> IF d \in D THEN NoValues ELSE values[d]]
    /\ index' = [d \in Docs |-> IF d \in D THEN NoEntry ELSE index[d]]

PurgeRecord(r, d) ==
    /\ req[r].at = "idle" /\ status[d] = "trash" /\ ~Protected(d)
    /\ Remove({d})
    /\ Committed(r)
    /\ UNCHANGED <<catalog, cache, reader>>

\* Variant: what was let into the trash is not protected any more.
PurgeTrash_AskedBefore(r, D) ==
    /\ req[r].at = "idle" /\ D # {} /\ D \subseteq {d \in Docs : status[d] = "trash"}
    /\ Remove(D)
    /\ Committed(r)
    /\ UNCHANGED <<catalog, cache, reader>>

\* The whole trash, or what has been in it for long.
PurgeTrash(r, D) ==
    /\ req[r].at = "idle" /\ D # {} /\ D \subseteq {d \in Docs : status[d] = "trash"}
    /\ \A d \in D : ~Protected(d)
    /\ Remove(D)
    /\ Committed(r)
    /\ UNCHANGED <<catalog, cache, reader>>

-----------------------------------------------------------------------------
(* Tags, rules, saved searches and fields                                   *)

Mark(S, n, p) == IF p THEN S \cup {n} ELSE S \ {n}

\* Counts do not depend on what it changes: nothing is invalidated.
SaveTag(n, p) ==
    /\ Changed
    /\ tags' = tags \cup {n}
    /\ protected' = Mark(protected, n, p)
    /\ UNCHANGED <<documents, rules, favorite, field, cache, req, reader>>

SaveTagRules(n, R) ==
    /\ Changed
    /\ n \in tags
    /\ rules' = [rules EXCEPT ![n] = R]
    /\ UNCHANGED <<documents, tags, protected, favorite, field, cache, req, reader>>

Renamed(S, n, m) == IF n \in S THEN (S \ {n}) \cup {m} ELSE S

\* Variant: saved searches keep the old name.
RenameTag_FavoriteStays(r, n, m, p) ==
    /\ req[r].at = "idle" /\ n \in tags /\ (m # n => m \notin tags)
    /\ tags' = Renamed(tags, n, m)
    /\ protected' = Mark(protected \ {n}, m, p)
    /\ rules' = [x \in Names |-> IF x = m THEN rules[n] ELSE IF x = n THEN {} ELSE rules[x]]
    /\ assigned' = [d \in Docs |-> Renamed(assigned[d], n, m)]
    /\ UNCHANGED <<status, text, values, favorite, field, cache, reader>>
    /\ Reindex({d \in Docs : m # n /\ n \in assigned[d]})
    /\ Committed(r)

\* The row keeps its id: rules and assignments follow, saved searches know names.
RenameTag(r, n, m, p) ==
    /\ req[r].at = "idle" /\ n \in tags /\ (m # n => m \notin tags)
    /\ tags' = Renamed(tags, n, m)
    /\ protected' = Mark(protected \ {n}, m, p)
    /\ rules' = [x \in Names |-> IF x = m THEN rules[n] ELSE IF x = n THEN {} ELSE rules[x]]
    /\ assigned' = [d \in Docs |-> Renamed(assigned[d], n, m)]
    /\ favorite' = Renamed(favorite, n, m)
    /\ UNCHANGED <<status, text, values, field, cache, reader>>
    /\ Reindex({d \in Docs : m # n /\ n \in assigned[d]})
    /\ Committed(r)

DeleteTag(r, n) ==
    /\ req[r].at = "idle" /\ n \in tags
    /\ tags' = tags \ {n}
    /\ protected' = protected \ {n}
    /\ rules' = [rules EXCEPT ![n] = {}]
    /\ assigned' = [d \in Docs |-> assigned[d] \ {n}]
    /\ UNCHANGED <<status, text, values, favorite, field, cache, reader>>
    /\ Reindex({d \in Docs : n \in assigned[d]})
    /\ Committed(r)

SaveFavorite(T) ==
    /\ Changed
    /\ favorite' = T
    /\ UNCHANGED <<documents, tags, protected, rules, field, cache, req, reader>>

\* A new field, or another setting for one.
SaveField(r, c, s) ==
    /\ req[r].at = "idle" /\ field[c] # "deleted"
    /\ field' = [field EXCEPT ![c] = s]
    /\ Committed(r)
    /\ UNCHANGED <<documents, tags, protected, rules, favorite, cache, reader>>

RenameValue(r, c, v, w) ==
    LET D == {d \in Active : values[d][c] = v}
    IN  /\ req[r].at = "idle" /\ c \in Known /\ v # w
        /\ values' = [d \in Docs |-> IF d \in D THEN [values[d] EXCEPT ![c] = w] ELSE values[d]]
        /\ UNCHANGED <<status, text, assigned, catalog, cache, reader>>
        /\ Reindex(D)
        /\ Committed(r)

\* The values go with the field; documents that had one are indexed again.
DeleteField(r, c) ==
    LET D == {d \in Docs : values[d][c] # NoValue}
    IN  /\ req[r].at = "idle" /\ c \in Known
        /\ field' = [field EXCEPT ![c] = "deleted"]
        /\ values' = [d \in Docs |-> [values[d] EXCEPT ![c] = NoValue]]
        /\ UNCHANGED <<status, text, assigned, tags, protected, rules, favorite, cache, reader>>
        /\ Reindex(D)
        /\ Committed(r)

-----------------------------------------------------------------------------
RecordsInit ==
    /\ status = [d \in Docs |-> "new"]
    /\ text = [d \in Docs |-> {}]
    /\ assigned = [d \in Docs |-> {}]
    /\ values = [d \in Docs |-> NoValues]
    /\ index = [d \in Docs |-> NoEntry]
    /\ tags = FirstTags /\ protected = {} /\ favorite = {}
    /\ rules = [n \in Names |-> {}]
    /\ field = FirstField
    /\ cache = NoCache
    /\ req = [r \in Requests |-> NoRequest]
    /\ reader = [q \in Readers |-> NotReading]
    /\ changes = 0

\* The process ends anywhere and starts again; an old search table is built anew.
Restart ==
    /\ cache' = NoCache
    /\ req' = [r \in Requests |-> NoRequest]
    /\ reader' = [q \in Readers |-> NotReading]
    /\ UNCHANGED <<status, text, assigned, values, catalog, changes>>
    /\ \E D \in {{}, Rows} : Reindex(D)

DocumentRequest(r) ==
    \/ \E d \in Docs :
         \/ \E T \in TagSets, t \in SUBSET Words : CreateDocument(r, d, T, t)
         \/ \E t \in SUBSET Words : UpdateSearchText(r, d, t)
         \/ \E T \in TagSets, v \in FieldValues : ReadForm(r, d, T, v)
         \/ \E T \in TagSets : ReadTags(r, d, T)
         \/ AskProtected(r, d) \/ RestoreRecord(r, d) \/ PurgeRecord(r, d)
    \/ \E D \in SUBSET Docs :
         \/ \E v \in FieldValues : ReadFields(r, D, v)
         \/ \E T \in TagSets : AddTags(r, D, T) \/ RemoveTags(r, D, T)
         \/ PurgeTrash(r, D)
    \/ UpdateMetadata(r) \/ SetCustomValues(r) \/ SoftDeleteRecord(r) \/ Invalidate(r)

CatalogRequest(r) ==
    \/ \E n, m \in Names, p \in BOOLEAN : RenameTag(r, n, m, p)
    \/ \E n \in Names : DeleteTag(r, n)
    \/ \E c \in Fields :
         \/ \E s \in {"plain", "folder"} : SaveField(r, c, s)
         \/ DeleteField(r, c)
         \/ \E v, w \in Values : RenameValue(r, c, v, w)

Settings ==
    \/ \E n \in Names, p \in BOOLEAN : {n} \in TagSets /\ SaveTag(n, p)
    \/ \E n \in Names, R \in SUBSET Rules : SaveTagRules(n, R)
    \/ \E T \in TagSets : SaveFavorite(T)

Read(q) ==
    \/ \E what \in {"count", "folders"}, f \in Filters : Ask(q, what, f)
    \/ Query(q) \/ Remember(q)

RecordsNext ==
    \/ \E r \in Requests : DocumentRequest(r) \/ CatalogRequest(r)
    \/ Settings
    \/ \E q \in Readers : Read(q)
    \/ Restart

RecordsSpec == RecordsInit /\ [][RecordsNext]_recordVars

-----------------------------------------------------------------------------
IsAnswer(what, a) == \/ a = NoAnswer
                     \/ IF what = "count" THEN a \in Nat ELSE a \subseteq Fields \X Values \X Nat

RecordsTypeOK ==
    /\ changes \in 0 .. MaxChanges
    /\ status \in [Docs -> {"new", "active", "trash", "purged"}]
    /\ text \in [Docs -> SUBSET Words]
    /\ assigned \in [Docs -> SUBSET Names]
    /\ values \in [Docs -> FieldValues]
    /\ index \in [Docs -> [tags : SUBSET Names, values : FieldValues, text : SUBSET Words]]
    /\ tags \subseteq Names /\ protected \subseteq Names /\ favorite \subseteq Names
    /\ rules \in [Names -> SUBSET Rules]
    /\ field \in [Fields -> {"new", "plain", "folder", "deleted"}]
    /\ \A e \in Entries : IsAnswer(e[1], cache[e])
    /\ req \in [Requests -> [at : {"idle", "metadata", "fields", "trashing", "committed"},
                              docs : SUBSET Docs, tags : SUBSET Names, vals : FieldValues]]
    /\ reader = [q \in Readers |-> [at |-> reader[q].at, what |-> reader[q].what,
                                   filter |-> reader[q].filter, answer |-> reader[q].answer]]
    /\ \A q \in Readers :
         /\ reader[q].at \in {"idle", "asked", "counted"}
         /\ reader[q].what \in {"count", "folders"} /\ reader[q].filter \in Filters
         /\ IsAnswer(reader[q].what, reader[q].answer)

(* The index repeats what the tables say: though tags and fields are       *)
(* renamed and deleted for many documents at once and requests write back  *)
(* what they read before, every row has its entry with its tags, its text  *)
(* and its values of the fields there are, and nothing else has one.       *)
IndexIsCurrent ==
    \A d \in Docs :
       IF d \notin Rows THEN index[d] = NoEntry
       ELSE index[d].tags = assigned[d] /\ index[d].text = text[d] /\ StoredValues(index[d].values) = values[d]

(* Tables agree: a document has tags that exist and values of fields that  *)
(* exist, and only tags that exist protect or have rules.                  *)
ReferencesHold ==
    /\ \A d \in Docs : assigned[d] \subseteq tags /\ StoredValues(values[d]) = values[d]
    /\ \A d \in Docs \ Rows : assigned[d] = {} /\ values[d] = NoValues
    /\ protected \subseteq tags
    /\ \A n \in Names \ tags : rules[n] = {}

Pending == \E r \in Requests : req[r].at = "committed"
AnswerOf(what, f, a) == \E g \in Filters : Key(g) = Key(f) /\ a = Answer(what, g)

(* A remembered count is the count of a list with its key, unless a request*)
(* that changed something has not ended yet: a count that was asked before *)
(* the change is not remembered after it.                                  *)
CacheIsCurrent ==
    Pending \/ \A what \in {"count", "folders"}, f \in Filters :
                  \/ cache[<<what, Key(f)>>] = NoAnswer
                  \/ AnswerOf(what, f, cache[<<what, Key(f)>>])

\* A field that is made is not mentioned anywhere yet.
NewFieldsAreEmpty ==
    \A c \in Fields : field[c] = "new" =>
       /\ \A d \in Docs : index[d].values[c] = NoValue
       /\ \A r \in Requests : req[r].vals[c] = NoValue

(* The inductive invariant: also answers on their way are current, if they *)
(* are going to be remembered.                                             *)
RInv ==
    /\ RecordsTypeOK
    /\ IndexIsCurrent
    /\ ReferencesHold
    /\ NewFieldsAreEmpty
    /\ CacheIsCurrent
    /\ \A q \in Readers :
         Pending \/ reader[q].at # "counted"
           \/ AnswerOf(reader[q].what, reader[q].filter, reader[q].answer)

(* A document that a tag protects is not purged, in whatever order tags,   *)
(* protection and the trash came about.                                    *)
ProtectedSurvive ==
    [][\A d \in Rows : Protected(d) => d \in Rows']_recordVars

(* A tag that gets another name keeps its documents in a saved search over *)
(* tags that exist.                                                        *)
SavedSearchKeepsDocuments ==
    [][(favorite \subseteq tags /\ \E r \in Requests, n, m \in Names, p \in BOOLEAN : RenameTag(r, n, m, p))
         => {d \in Rows : favorite \subseteq assigned[d]} = {d \in Rows : favorite' \subseteq assigned'[d]}]_recordVars
=============================================================================
