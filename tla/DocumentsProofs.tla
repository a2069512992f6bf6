---------------------------- MODULE DocumentsProofs ----------------------------
(***************************************************************************)
(* Theorems about documents.  First about their files: DInv is an          *)
(* inductive invariant of DocumentFiles, for any uploads and any number of *)
(* faults.  Every action but four changes one document only: SameState     *)
(* says that the others stay as they are.  With it, what GateLock says of  *)
(* the gates.  Then about their records: RInv of DocumentRecords is        *)
(* inductive, for any numbers of documents, tags, fields, lists and        *)
(* requests: the tables agree with each other and with the search index,   *)
(* and what is remembered with the tables.                                 *)
(***************************************************************************)
EXTENDS DocumentFiles, FileGate, DocumentRecords, FiniteSets, FiniteSetTheorems, TLAPS

\* Nothing that DocumentState looks at has changed for a document.
Same(w) ==
    /\ row'[w] = row[w] /\ path'[w] = path[w] /\ recorded'[w] = recorded[w] /\ job'[w] = job[w]
    /\ place'[w] = place[w] /\ derived'[w] = derived[w] /\ quarantine'[w] = quarantine[w]
    /\ up'[w] = up[w] /\ name'[w] = name[w]
    /\ held'[w] = held[w] /\ clean'[w] = clean[w] /\ render'[w] = render[w]

-----------------------------------------------------------------------------
(* A document that a step does not touch keeps its state. *)
LEMMA SameState ==
    ASSUME NEW w \in Uploads, DocumentState(w), Same(w)
    PROVE  DocumentState(w)'
  BY DEF DocumentState, Same, ImportState, BytesState, DerivedState, GateState, CleanState,
         RenderState, HasRow, Stored, Purged, Nowhere

(* Whose bytes are where matters to two documents only through place. *)
LEMMA SamePlaces ==
    ASSUME PathsAreExclusive, QuarantineIsOwn, UNCHANGED place
    PROVE  PathsAreExclusive' /\ QuarantineIsOwn'
  BY DEF PathsAreExclusive, QuarantineIsOwn, Purged

(* The initial state satisfies the invariant. *)
LEMMA InitInv == ASSUME Init PROVE DInv
  <1>1. TypeOK
    BY DocumentsAssumption DEF Init, TypeOK, Places, Nowhere, Idle, CleanStates
  <1>2. PathsAreExclusive /\ QuarantineIsOwn
    BY DEF Init, PathsAreExclusive, QuarantineIsOwn, Nowhere, Purged
  <1>3. ASSUME NEW u \in Uploads PROVE DocumentState(u)
    BY <1>3 DEF Init, DocumentState, ImportState, BytesState, DerivedState, GateState, CleanState,
         RenderState, HasRow, Idle, Nowhere, Stored, Purged
  <1>4. QED BY <1>1, <1>2, <1>3 DEF DInv

-----------------------------------------------------------------------------
(* Looking for a duplicate begins or ends an import. *)
LEMMA LookKeeps ==
    ASSUME NEW u \in Uploads, DInv, Look(u)
    PROVE  DInv'
  <1>1. TypeOK'
    BY DocumentsAssumption DEF DInv, TypeOK, Places, CleanStates, Look, Goto, Importing,
       rows
  <1>2. PathsAreExclusive' /\ QuarantineIsOwn'
    <2>1. UNCHANGED place
      BY DEF Look, Goto, Importing, rows
    <2>2. QED BY <2>1, SamePlaces DEF DInv
  <1>3. ASSUME NEW w \in Uploads PROVE DocumentState(w)'
    <2>1. DocumentState(w) BY <1>3 DEF DInv
    <2>2. CASE w = u
      BY <2>1, <2>2 DEF DInv, TypeOK, CleanStates, Look, Goto, Importing, rows,
         DocumentState, ImportState, BytesState, DerivedState, GateState,
         CleanState, RenderState, HasRow, Stored, Purged, Nowhere
    <2>3. CASE w # u
      <3>1. Same(w)
        BY <1>3, <2>3 DEF Same, DInv, TypeOK, Look, Goto, Importing, rows
      <3>2. QED BY <1>3, <2>1, <3>1, SameState
    <2>4. QED BY <2>2, <2>3
  <1>4. QED BY <1>1, <1>2, <1>3 DEF DInv

(* Asking for a reservation moves the import on. *)
LEMMA AskReservedKeeps ==
    ASSUME NEW u \in Uploads, DInv, AskReserved(u)
    PROVE  DInv'
  <1>1. TypeOK'
    <2>1. name' \in [Uploads -> Nat]
      BY DocumentsAssumption DEF DInv, TypeOK, AskReserved, TryNext, Goto, Importing,
         rows
    <2>2. up' \in [Uploads -> {"new", "scan", "link", "linked", "undo", "created", "ended", "lost"}]
      BY DocumentsAssumption DEF DInv, TypeOK, AskReserved, TryNext, Goto, Importing,
         rows
    <2>3. UNCHANGED <<row, path, recorded, job, place, derived, quarantine, held, clean, render, faults>>
      BY DocumentsAssumption DEF DInv, TypeOK, files, AskReserved, TryNext, Goto,
         Importing, rows
    <2>4. QED BY <2>1, <2>2, <2>3 DEF DInv, TypeOK
  <1>2. PathsAreExclusive' /\ QuarantineIsOwn'
    <2>1. UNCHANGED place
      BY DEF AskReserved, TryNext, Goto, Importing, rows
    <2>2. QED BY <2>1, SamePlaces DEF DInv
  <1>3. ASSUME NEW w \in Uploads PROVE DocumentState(w)'
    <2>1. DocumentState(w) BY <1>3 DEF DInv
    <2>2. CASE w = u
      BY <2>1, <2>2 DEF DInv, TypeOK, CleanStates, AskReserved, TryNext, Goto,
         Importing, rows, DocumentState, ImportState, BytesState,
         DerivedState, GateState, CleanState, RenderState, HasRow,
         Stored, Purged, Nowhere
    <2>3. CASE w # u
      <3>1. Same(w)
        BY <1>3, <2>3 DEF Same, DInv, TypeOK, AskReserved, TryNext, Goto, Importing,
           rows
      <3>2. QED BY <1>3, <2>1, <3>1, SameState
    <2>4. QED BY <2>2, <2>3
  <1>4. QED BY <1>1, <1>2, <1>3 DEF DInv

(* A link is made only where no other bytes are. *)
LEMMA LinkKeeps ==
    ASSUME NEW u \in Uploads, DInv, Link(u)
    PROVE  DInv'
  <1>1. TypeOK'
    <2>1. name' \in [Uploads -> Nat]
      BY DocumentsAssumption DEF DInv, TypeOK, Link, Commit, Importing, rows, Taken,
         TryNext, Stored, Goto
    <2>2. up' \in [Uploads -> {"new", "scan", "link", "linked", "undo", "created", "ended", "lost"}]
      BY DocumentsAssumption DEF DInv, TypeOK, Link, Commit, Importing, rows, Taken,
         TryNext, Stored, Goto
    <2>3. place' \in [Uploads -> Places]
      BY DocumentsAssumption DEF DInv, TypeOK, Places, Link, Commit, Importing, rows,
         Taken, TryNext, Stored, Goto
    <2>4. UNCHANGED <<row, path, recorded, job, derived, quarantine, held, clean, render, faults>>
      BY DocumentsAssumption DEF DInv, TypeOK, files, Link, Commit, Importing, rows,
         Taken, TryNext, Stored, Goto
    <2>5. QED BY <2>1, <2>2, <2>3, <2>4 DEF DInv, TypeOK
  <1>2. PathsAreExclusive' /\ QuarantineIsOwn'
    <2>1. CASE UNCHANGED place
      BY <2>1, SamePlaces DEF DInv
    <2>2. CASE /\ ~Taken(name[u])
               /\ place' = [place EXCEPT ![u] = Stored(name[u])]
      <3>1. \A v \in Uploads \ {u} : place'[v] = place[v] /\ place[v] # Stored(name[u])
        BY <2>2 DEF DInv, TypeOK, Taken
      <3>2. place'[u] = Stored(name[u])
        BY <2>2 DEF DInv, TypeOK
      <3>3. PathsAreExclusive'
        BY <3>1, <3>2 DEF DInv, PathsAreExclusive
      <3>4. \A v \in Uploads : Stored(name[u]) # Purged(v)
        BY DEF Stored, Purged
      <3>5. QuarantineIsOwn'
        BY <3>1, <3>2, <3>4 DEF DInv, QuarantineIsOwn, Purged
      <3>6. QED BY <3>3, <3>5
    <2>3. QED BY <2>1, <2>2 DEF Link, Commit
  <1>3. ASSUME NEW w \in Uploads PROVE DocumentState(w)'
    <2>1. DocumentState(w) BY <1>3 DEF DInv
    <2>2. CASE w = u
      <3>1. ImportState(u)'
        BY <2>1, <2>2 DEF DInv, TypeOK, Link, Commit, Importing, rows, Taken, TryNext,
           Stored, Goto, DocumentState, ImportState, Nowhere
      <3>2. BytesState(u)'
        BY <2>1, <2>2 DEF DInv, TypeOK, Link, Commit, Importing, rows, Taken, TryNext,
           Stored, Goto, DocumentState, ImportState, BytesState, HasRow,
           Purged, Nowhere
      <3>3. DerivedState(u)'
        BY <2>1, <2>2 DEF DInv, TypeOK, Link, Commit, Importing, rows, Taken, TryNext,
           Stored, Goto, DocumentState, ImportState, DerivedState, HasRow
      <3>4. GateState(u)'
        BY <2>1, <2>2 DEF DInv, TypeOK, Link, Commit, Importing, rows, Taken, TryNext,
           Stored, Goto, DocumentState, GateState
      <3>5. CleanState(u)'
        BY <2>1, <2>2 DEF DInv, TypeOK, CleanStates, Link, Commit, Importing, rows,
           Taken, TryNext, Stored, Goto, DocumentState, ImportState,
           BytesState, CleanState, Purged, Nowhere
      <3>6. RenderState(u)'
        BY <2>1, <2>2 DEF DInv, TypeOK, Link, Commit, Importing, rows, Taken, TryNext,
           Stored, Goto, DocumentState, ImportState, RenderState
      <3>7. QED BY <2>2, <3>1, <3>2, <3>3, <3>4, <3>5, <3>6 DEF DocumentState
    <2>3. CASE w # u
      <3>1. Same(w)
        BY <1>3, <2>3 DEF Same, DInv, TypeOK, Link, Commit, Importing, rows, Taken,
           TryNext, Stored, Goto
      <3>2. QED BY <1>3, <2>1, <3>1, SameState
    <2>4. QED BY <2>2, <2>3
  <1>4. QED BY <1>1, <1>2, <1>3 DEF DInv

(* The row of a new document has the path of its bytes. *)
LEMMA CreateKeeps ==
    ASSUME NEW u \in Uploads, DInv, Create(u)
    PROVE  DInv'
  <1>1. TypeOK'
    BY DocumentsAssumption DEF DInv, TypeOK, Places, CleanStates, Create, HasRow, Goto,
       Importing
  <1>2. PathsAreExclusive' /\ QuarantineIsOwn'
    <2>1. UNCHANGED place
      BY DEF Create, HasRow, Goto, Importing
    <2>2. QED BY <2>1, SamePlaces DEF DInv
  <1>3. ASSUME NEW w \in Uploads PROVE DocumentState(w)'
    <2>1. DocumentState(w) BY <1>3 DEF DInv
    <2>2. CASE w = u
      BY <2>1, <2>2 DEF DInv, TypeOK, CleanStates, Create, HasRow, Goto, Importing,
         DocumentState, ImportState, BytesState, DerivedState, GateState,
         CleanState, RenderState, Stored, Purged, Nowhere
    <2>3. CASE w # u
      <3>1. Same(w)
        BY <1>3, <2>3 DEF Same, DInv, TypeOK, Create, HasRow, Goto, Importing
      <3>2. QED BY <1>3, <2>1, <3>1, SameState
    <2>4. QED BY <2>2, <2>3
  <1>4. QED BY <1>1, <1>2, <1>3 DEF DInv

(* A failed import has a file only if it must be undone. *)
LEMMA ImportFailsKeeps ==
    ASSUME NEW u \in Uploads, DInv, ImportFails(u)
    PROVE  DInv'
  <1>1. TypeOK'
    BY DocumentsAssumption DEF DInv, TypeOK, Places, CleanStates, ImportFails, Fault,
       Goto, Importing, rows
  <1>2. PathsAreExclusive' /\ QuarantineIsOwn'
    <2>1. UNCHANGED place
      BY DEF ImportFails, Fault, Goto, Importing, rows
    <2>2. QED BY <2>1, SamePlaces DEF DInv
  <1>3. ASSUME NEW w \in Uploads PROVE DocumentState(w)'
    <2>1. DocumentState(w) BY <1>3 DEF DInv
    <2>2. CASE w = u
      BY <2>1, <2>2 DEF DInv, TypeOK, CleanStates, ImportFails, Fault, Goto, Importing,
         rows, DocumentState, ImportState, BytesState, DerivedState,
         GateState, CleanState, RenderState, HasRow, Stored, Purged,
         Nowhere
    <2>3. CASE w # u
      <3>1. Same(w)
        BY <1>3, <2>3 DEF Same, DInv, TypeOK, ImportFails, Fault, Goto, Importing, rows
      <3>2. QED BY <1>3, <2>1, <3>1, SameState
    <2>4. QED BY <2>2, <2>3
  <1>4. QED BY <1>1, <1>2, <1>3 DEF DInv

(* An import that is undone removes its own bytes, which are where it put them. *)
LEMMA UndoIsOwn ==
    ASSUME NEW u \in Uploads, DInv, Undo(u)
    PROVE  place' = [place EXCEPT ![u] = Nowhere]
  <1>1. place[u] = Stored(name[u])
    BY DEF DInv, DocumentState, ImportState, Undo
  <1>2. \A v \in Uploads : place[v] = Stored(name[u]) => v = u
    BY <1>1 DEF DInv, PathsAreExclusive, Stored
  <1>3. QED BY <1>1, <1>2 DEF Undo, DInv, TypeOK

(* Undoing leaves nothing behind. *)
LEMMA UndoKeeps ==
    ASSUME NEW u \in Uploads, DInv, Undo(u)
    PROVE  DInv'
  <1>1. TypeOK'
    BY DocumentsAssumption, UndoIsOwn DEF DInv, TypeOK, Places, CleanStates, Undo, Stored, Nowhere,
       Goto, Importing, rows
  <1>2. PathsAreExclusive' /\ QuarantineIsOwn'
    BY UndoIsOwn DEF DInv, TypeOK, PathsAreExclusive, QuarantineIsOwn, Places, Undo, Stored,
       Nowhere, Goto, Importing, rows, DocumentState, ImportState, BytesState,
       DerivedState, GateState, CleanState, RenderState, HasRow, Purged
  <1>3. ASSUME NEW w \in Uploads PROVE DocumentState(w)'
    <2>1. DocumentState(w) BY <1>3 DEF DInv
    <2>2. CASE w = u
      BY <2>1, <2>2, UndoIsOwn DEF DInv, TypeOK, CleanStates, Undo, Stored, Nowhere, Goto,
         Importing, rows, DocumentState, ImportState, BytesState,
         DerivedState, GateState, CleanState, RenderState, HasRow, Purged
    <2>3. CASE w # u
      <3>1. Same(w)
        BY <1>3, <2>3, UndoIsOwn DEF Same, DInv, TypeOK, Undo, Goto, Importing, rows
      <3>2. QED BY <1>3, <2>1, <3>1, SameState
    <2>4. QED BY <2>2, <2>3
  <1>4. QED BY <1>1, <1>2, <1>3 DEF DInv

(* The trash leaves the files alone. *)
LEMMA SoftDeleteKeeps ==
    ASSUME NEW u \in Uploads, DInv, SoftDelete(u)
    PROVE  DInv'
  <1>1. TypeOK'
    BY DocumentsAssumption DEF DInv, TypeOK, Places, CleanStates, SoftDelete,
       Requesting, files, import
  <1>2. PathsAreExclusive' /\ QuarantineIsOwn'
    <2>1. UNCHANGED place
      BY DEF SoftDelete, Requesting, files, import
    <2>2. QED BY <2>1, SamePlaces DEF DInv
  <1>3. ASSUME NEW w \in Uploads PROVE DocumentState(w)'
    <2>1. DocumentState(w) BY <1>3 DEF DInv
    <2>2. CASE w = u
      BY <2>1, <2>2 DEF DInv, TypeOK, CleanStates, SoftDelete, Requesting, files,
         import, DocumentState, ImportState, BytesState, DerivedState,
         GateState, CleanState, RenderState, HasRow, Stored, Purged,
         Nowhere
    <2>3. CASE w # u
      <3>1. Same(w)
        BY <1>3, <2>3 DEF Same, DInv, TypeOK, SoftDelete, Requesting, files, import
      <3>2. QED BY <1>3, <2>1, <3>1, SameState
    <2>4. QED BY <2>2, <2>3
  <1>4. QED BY <1>1, <1>2, <1>3 DEF DInv

(* So does restoring. *)
LEMMA RestoreKeeps ==
    ASSUME NEW u \in Uploads, DInv, Restore(u)
    PROVE  DInv'
  <1>1. TypeOK'
    BY DocumentsAssumption DEF DInv, TypeOK, Places, CleanStates, Restore, Requesting,
       files, import
  <1>2. PathsAreExclusive' /\ QuarantineIsOwn'
    <2>1. UNCHANGED place
      BY DEF Restore, Requesting, files, import
    <2>2. QED BY <2>1, SamePlaces DEF DInv
  <1>3. ASSUME NEW w \in Uploads PROVE DocumentState(w)'
    <2>1. DocumentState(w) BY <1>3 DEF DInv
    <2>2. CASE w = u
      BY <2>1, <2>2 DEF DInv, TypeOK, CleanStates, Restore, Requesting, files, import,
         DocumentState, ImportState, BytesState, DerivedState, GateState,
         CleanState, RenderState, HasRow, Stored, Purged, Nowhere
    <2>3. CASE w # u
      <3>1. Same(w)
        BY <1>3, <2>3 DEF Same, DInv, TypeOK, Restore, Requesting, files, import
      <3>2. QED BY <1>3, <2>1, <3>1, SameState
    <2>4. QED BY <2>2, <2>3
  <1>4. QED BY <1>1, <1>2, <1>3 DEF DInv

(* A cleanup begins where its job says. *)
LEMMA CleanBeginKeeps ==
    ASSUME NEW u \in Uploads, DInv, CleanBegin(u)
    PROVE  DInv'
  <1>1. TypeOK'
    BY DocumentsAssumption DEF DInv, TypeOK, Places, CleanStates, CleanBegin, Phase,
       Cleaning, files, import
  <1>2. PathsAreExclusive' /\ QuarantineIsOwn'
    <2>1. UNCHANGED place
      BY DEF CleanBegin, Phase, Cleaning, files, import
    <2>2. QED BY <2>1, SamePlaces DEF DInv
  <1>3. ASSUME NEW w \in Uploads PROVE DocumentState(w)'
    <2>1. DocumentState(w) BY <1>3 DEF DInv
    <2>2. CASE w = u
      <3>1. ImportState(u)'
        BY <2>1, <2>2 DEF DInv, TypeOK, CleanBegin, Phase, Cleaning, files, import,
           DocumentState, ImportState, Stored, Nowhere
      <3>2. BytesState(u)'
        BY <2>1, <2>2 DEF DInv, TypeOK, CleanBegin, Phase, Cleaning, files, import,
           DocumentState, BytesState, HasRow, Stored, Purged, Nowhere
      <3>3. DerivedState(u)'
        BY <2>1, <2>2 DEF DInv, TypeOK, CleanBegin, Phase, Cleaning, files, import,
           DocumentState, DerivedState, HasRow, Stored
      <3>4. GateState(u)'
        BY <2>1, <2>2 DEF DInv, TypeOK, CleanBegin, Phase, Cleaning, files, import,
           DocumentState, GateState
      <3>5. CleanState(u)'
        <4>1. /\ clean'[u] = [phase |-> IF job[u] = "staged" THEN "unlink" ELSE "stage", slot |-> 0]
              /\ UNCHANGED <<place, derived, quarantine>>
              /\ job'[u] \in {"pending", "staged"}
              /\ job'[u] = "staged" <=> clean'[u].phase = "unlink"
              /\ clean'[u].slot = 0
          BY <2>1 DEF DInv, TypeOK, DocumentState, CleanState, CleanBegin, Phase,
             Cleaning, files, import
        <4>2. \A i \in quarantine[u] : i >= 0
          BY DEF DInv, TypeOK
        <4>3. QED BY <4>1, <4>2 DEF CleanState
      <3>6. RenderState(u)'
        BY <2>1, <2>2 DEF DInv, TypeOK, CleanBegin, Phase, Cleaning, files, import,
           DocumentState, RenderState, Stored
      <3>7. QED BY <2>2, <3>1, <3>2, <3>3, <3>4, <3>5, <3>6 DEF DocumentState
    <2>3. CASE w # u
      <3>1. Same(w)
        BY <1>3, <2>3 DEF Same, DInv, TypeOK, CleanBegin, Phase, Cleaning, files, import
      <3>2. QED BY <1>3, <2>1, <3>1, SameState
    <2>4. QED BY <2>2, <2>3
  <1>4. QED BY <1>1, <1>2, <1>3 DEF DInv

(* A cleanup that stages the original moves the bytes of its own document: *)
(* they are under the path or in quarantine already, and links are         *)
(* exclusive.                                                              *)
LEMMA StageOriginalIsOwn ==
    ASSUME NEW u \in Uploads, DInv, At(u, "stage"), StageOriginal(u)
    PROVE  place' = [place EXCEPT ![u] = Purged(u)]
  <1>1. place[u] \in {Stored(path[u]), Purged(u)}
    BY DEF DInv, DocumentState, BytesState, CleanState, At
  <1>2. CASE place[u] = Purged(u)
    BY <1>2 DEF StageOriginal, DInv, TypeOK
  <1>3. CASE place[u] = Stored(path[u])
    <2>1. \A v \in Uploads : place[v] = Stored(path[u]) => v = u
      BY <1>3 DEF DInv, PathsAreExclusive, Stored
    <2>2. \A v \in Uploads : place[v] # Purged(u)
      BY <1>3 DEF DInv, QuarantineIsOwn, Stored, Purged
    <2>3. QED BY <1>3, <2>1, <2>2 DEF StageOriginal, DInv, TypeOK
  <1>4. QED BY <1>1, <1>2, <1>3

(* The original goes first. *)
LEMMA StageFirstKeeps ==
    ASSUME NEW u \in Uploads, DInv, Stage(u), clean[u].slot = 0
    PROVE  DInv'
  <1>1. /\ place' = [place EXCEPT ![u] = Purged(u)]
        /\ clean' = [clean EXCEPT ![u] = [phase |-> "stage", slot |-> 1]]
        /\ UNCHANGED <<row, path, recorded, job, derived, quarantine, up, name, held, render, faults>>
        /\ held[u] = "cleaner" /\ clean[u].phase = "stage"
    BY StageOriginalIsOwn DEF Stage, At, Phase, Cleaning, import
  <1>2. TypeOK'
    BY <1>1 DEF DInv, TypeOK, Places, CleanStates, Purged
  <1>3. PathsAreExclusive' /\ QuarantineIsOwn'
    BY <1>1 DEF DInv, TypeOK, PathsAreExclusive, QuarantineIsOwn, Purged
  <1>4. ASSUME NEW w \in Uploads PROVE DocumentState(w)'
    <2>1. DocumentState(w) BY <1>4 DEF DInv
    <2>2. CASE w = u
      BY <1>1, <2>1, <2>2 DEF DInv, TypeOK, DocumentState, ImportState, BytesState, DerivedState,
         GateState, CleanState, RenderState, HasRow, Stored, Purged, Nowhere
    <2>3. CASE w # u
      <3>1. Same(w) BY <1>1, <1>4, <2>3 DEF Same, DInv, TypeOK
      <3>2. QED BY <1>4, <2>1, <3>1, SameState
    <2>4. QED BY <2>2, <2>3
  <1>5. QED BY <1>2, <1>3, <1>4 DEF DInv

(* Then the derived files: what is put into a slot is taken from its place. *)
LEMMA StageDerivedKeeps ==
    ASSUME NEW u \in Uploads, DInv, Stage(u), clean[u].slot # 0
    PROVE  DInv'
  <1> DEFINE i == clean[u].slot
             moved == IF i \in quarantine[u] THEN {} ELSE FileOf(u, i) \cap derived[u]
  <1>1. /\ derived' = [derived EXCEPT ![u] = @ \ moved]
        /\ quarantine' = [quarantine EXCEPT ![u] = IF moved = {} THEN @ ELSE @ \cup {i}]
        /\ clean' = [clean EXCEPT ![u] = [phase |-> "stage", slot |-> i + 1]]
        /\ UNCHANGED <<row, path, recorded, job, place, up, name, held, render, faults>>
        /\ held[u] = "cleaner" /\ clean[u].phase = "stage"
    BY DEF Stage, StageDerived, At, Phase, Cleaning, import
  <1>2. i \in 1..3
    BY DEF Stage, Slots
  <1>3. moved = IF i = 2 THEN derived[u] \cap {"preview"}
                ELSE IF i = 3 \/ recorded[u] THEN derived[u] \cap {"thumb"} ELSE {}
    <2>1. DerivedState(u) BY DEF DInv, DocumentState
    <2>2. CASE i = 1 BY <2>1, <2>2 DEF FileOf, DerivedState
    <2>3. CASE i = 2 BY <2>1, <2>3 DEF FileOf, DerivedState
    <2>4. CASE i = 3 BY <2>1, <2>4 DEF FileOf, DerivedState
    <2>5. QED BY <1>2, <2>2, <2>3, <2>4
  <1>4. derived'[u] = derived[u] \ moved /\ quarantine'[u] \subseteq quarantine[u] \cup {i}
        /\ (moved = {} => quarantine'[u] = quarantine[u])
    BY <1>1 DEF DInv, TypeOK
  <1> HIDE DEF moved
  <1>5. TypeOK'
    <2>1. derived' \in [Uploads -> SUBSET {"preview", "thumb"}]
      BY <1>1 DEF DInv, TypeOK
    <2>2. quarantine' \in [Uploads -> SUBSET (1..3)]
      BY <1>1, <1>2 DEF DInv, TypeOK
    <2>3. clean' \in [Uploads -> CleanStates]
      BY <1>1, <1>2 DEF DInv, TypeOK, CleanStates
    <2>4. QED BY <1>1, <2>1, <2>2, <2>3 DEF DInv, TypeOK
  <1>6. PathsAreExclusive' /\ QuarantineIsOwn'
    BY <1>1, SamePlaces DEF DInv
  <1>7. ASSUME NEW w \in Uploads PROVE DocumentState(w)'
    <2>1. DocumentState(w) BY <1>7 DEF DInv
    <2>2. CASE w = u
      <3>1. /\ job[u] = "pending" /\ place[u] = Purged(u) /\ ~HasRow(u) /\ row[u] = "purged"
            /\ clean'[u] = [phase |-> "stage", slot |-> i + 1]
        BY <1>1, <1>2, <2>1, <2>2 DEF DInv, TypeOK, CleanStates, DocumentState, CleanState, BytesState, HasRow
      <3>2. ImportState(u)' BY <1>1, <2>1, <2>2 DEF DocumentState, ImportState, Stored, Nowhere
      <3>3. BytesState(u)' BY <1>1, <2>1, <2>2 DEF DocumentState, BytesState, HasRow, Stored, Purged, Nowhere
      <3>4. DerivedState(u)'
        BY <1>1, <1>2, <1>3, <1>4, <2>1, <2>2, <3>1 DEF DocumentState, DerivedState, HasRow, Stored, Purged
      <3>5. GateState(u)' BY <1>1, <2>1, <2>2, <3>1 DEF DocumentState, GateState
      <3>6. CleanState(u)'
        <4>1. i > 1 => "preview" \notin derived'[u]
          BY <1>2, <1>3, <1>4, <2>1, <2>2, <1>1 DEF DocumentState, CleanState
        <4>2. i > 2 => "thumb" \notin derived'[u]
          BY <1>2, <1>3, <1>4
        <4>3. QED BY <1>1, <1>2, <3>1, <4>1, <4>2 DEF CleanState, Purged
      <3>7. RenderState(u)'
        BY <1>1, <2>1, <2>2, <3>1 DEF DocumentState, RenderState, GateState
      <3>8. QED BY <2>2, <3>2, <3>3, <3>4, <3>5, <3>6, <3>7 DEF DocumentState
    <2>3. CASE w # u
      <3>1. Same(w) BY <1>1, <1>7, <2>3 DEF Same, DInv, TypeOK
      <3>2. QED BY <1>7, <2>1, <3>1, SameState
    <2>4. QED BY <2>2, <2>3
  <1>8. QED BY <1>5, <1>6, <1>7 DEF DInv

(* A job is marked when everything is in quarantine. *)
LEMMA MarkStagedKeeps ==
    ASSUME NEW u \in Uploads, DInv, MarkStaged(u)
    PROVE  DInv'
  <1>1. TypeOK'
    BY DocumentsAssumption DEF DInv, TypeOK, Places, CleanStates, MarkStaged, At, Phase,
       Cleaning, files, import
  <1>2. PathsAreExclusive' /\ QuarantineIsOwn'
    <2>1. UNCHANGED place
      BY DEF MarkStaged, At, Phase, Cleaning, files, import
    <2>2. QED BY <2>1, SamePlaces DEF DInv
  <1>3. ASSUME NEW w \in Uploads PROVE DocumentState(w)'
    <2>1. DocumentState(w) BY <1>3 DEF DInv
    <2>2. CASE w = u
      <3>1. ImportState(u)'
        BY <2>1, <2>2 DEF DInv, TypeOK, MarkStaged, At, Phase, Cleaning, files, import,
           DocumentState, ImportState, Stored, Nowhere
      <3>2. BytesState(u)'
        BY <2>1, <2>2 DEF DInv, TypeOK, MarkStaged, At, Phase, Cleaning, files, import,
           DocumentState, CleanState, BytesState, HasRow, Stored, Purged,
           Nowhere
      <3>3. DerivedState(u)'
        BY <2>1, <2>2 DEF DInv, TypeOK, MarkStaged, At, Phase, Cleaning, files, import,
           DocumentState, CleanState, BytesState, DerivedState, HasRow,
           Stored
      <3>4. GateState(u)'
        BY <2>1, <2>2 DEF DInv, TypeOK, MarkStaged, At, Phase, Cleaning, files, import,
           DocumentState, GateState
      <3>5. CleanState(u)'
        <4>1. /\ clean'[u] = [phase |-> "unlink", slot |-> 0]
              /\ UNCHANGED <<place, derived, quarantine>>
              /\ job'[u] \in {"pending", "staged"}
              /\ job'[u] = "staged" <=> clean'[u].phase = "unlink"
              /\ clean'[u].slot = 0
          BY <2>1 DEF DInv, TypeOK, DocumentState, CleanState, MarkStaged, At, Phase,
             Cleaning, files, import
        <4>2. \A i \in quarantine[u] : i >= 0
          BY DEF DInv, TypeOK
        <4>3. QED BY <4>1, <4>2 DEF CleanState
      <3>6. RenderState(u)'
        BY <2>1, <2>2 DEF DInv, TypeOK, MarkStaged, At, Phase, Cleaning, files, import,
           DocumentState, RenderState, Stored
      <3>7. QED BY <2>2, <3>1, <3>2, <3>3, <3>4, <3>5, <3>6 DEF DocumentState
    <2>3. CASE w # u
      <3>1. Same(w)
        BY <1>3, <2>3 DEF Same, DInv, TypeOK, MarkStaged, At, Phase, Cleaning, files,
           import
      <3>2. QED BY <1>3, <2>1, <3>1, SameState
    <2>4. QED BY <2>2, <2>3
  <1>4. QED BY <1>1, <1>2, <1>3 DEF DInv

(* What is unlinked is out of the quarantine of its own document. *)
LEMMA UnlinkKeeps ==
    ASSUME NEW u \in Uploads, DInv, Unlink(u)
    PROVE  DInv'
  <1>1. TypeOK'
    BY DocumentsAssumption DEF DInv, TypeOK, Places, CleanStates, Unlink, At, Slots,
       Purged, Nowhere, Phase, Cleaning, import
  <1>2. PathsAreExclusive' /\ QuarantineIsOwn'
    BY DEF DInv, TypeOK, PathsAreExclusive, QuarantineIsOwn, Places, Unlink, At, Slots,
       Purged, Nowhere, Phase, Cleaning, import, DocumentState, ImportState,
       BytesState, DerivedState, GateState, CleanState, RenderState, HasRow, Stored
  <1>3. ASSUME NEW w \in Uploads PROVE DocumentState(w)'
    <2>1. DocumentState(w) BY <1>3 DEF DInv
    <2>2. CASE w = u
      BY <2>1, <2>2 DEF DInv, TypeOK, CleanStates, Unlink, At, Slots, Purged, Nowhere,
         Phase, Cleaning, import, DocumentState, ImportState, BytesState,
         DerivedState, GateState, CleanState, RenderState, HasRow, Stored
    <2>3. CASE w # u
      <3>1. Same(w)
        BY <1>3, <2>3 DEF Same, DInv, TypeOK, QuarantineIsOwn, Unlink, At, Slots,
           Purged, Nowhere, Phase, Cleaning, import
      <3>2. QED BY <1>3, <2>1, <3>1, SameState
    <2>4. QED BY <2>2, <2>3
  <1>4. QED BY <1>1, <1>2, <1>3 DEF DInv

(* A job is completed when the quarantine is empty. *)
LEMMA CompleteKeeps ==
    ASSUME NEW u \in Uploads, DInv, Complete(u)
    PROVE  DInv'
  <1>1. TypeOK'
    BY DocumentsAssumption DEF DInv, TypeOK, Places, CleanStates, Complete, At, Idle,
       Release, Cleaning, files, import
  <1>2. PathsAreExclusive' /\ QuarantineIsOwn'
    <2>1. UNCHANGED place
      BY DEF Complete, At, Idle, Release, Cleaning, files, import
    <2>2. QED BY <2>1, SamePlaces DEF DInv
  <1>3. ASSUME NEW w \in Uploads PROVE DocumentState(w)'
    <2>1. DocumentState(w) BY <1>3 DEF DInv
    <2>2. CASE w = u
      <3>1. ImportState(u)'
        BY <2>1, <2>2 DEF DInv, TypeOK, Complete, At, Idle, Release, Cleaning, files,
           import, DocumentState, ImportState, Stored, Nowhere
      <3>2. BytesState(u)'
        BY <2>1, <2>2 DEF DInv, TypeOK, Complete, At, Idle, Release, Cleaning, files,
           import, DocumentState, CleanState, BytesState, HasRow, Stored,
           Purged, Nowhere
      <3>3. DerivedState(u)'
        <4>1. quarantine[u] = {}
          <5>1. \A i \in quarantine[u] : i >= 4 /\ i \in 1..3
            BY <2>1, <2>2 DEF DInv, TypeOK, Complete, At, DocumentState, CleanState
          <5>2. QED BY <5>1
        <4>2. /\ job[u] = "staged" /\ row[u] = "purged"
              /\ UNCHANGED <<row, path, recorded, place, derived, quarantine>>
          BY <2>1, <2>2 DEF DInv, TypeOK, Complete, At, Cleaning, files, DocumentState, CleanState, BytesState
        <4>3. QED BY <2>1, <2>2, <4>1, <4>2 DEF DocumentState, DerivedState, HasRow
      <3>4. GateState(u)'
        BY <2>1, <2>2 DEF DInv, TypeOK, Complete, At, Idle, Release, Cleaning, files,
           import, DocumentState, GateState
      <3>5. CleanState(u)'
        BY <2>1, <2>2 DEF DInv, TypeOK, CleanStates, Complete, At, Idle, Release,
           Cleaning, files, import, DocumentState, CleanState, Purged,
           Nowhere
      <3>6. RenderState(u)'
        BY <2>1, <2>2 DEF DInv, TypeOK, Complete, At, Idle, Release, Cleaning, files,
           import, DocumentState, RenderState, Stored
      <3>7. QED BY <2>2, <3>1, <3>2, <3>3, <3>4, <3>5, <3>6 DEF DocumentState
    <2>3. CASE w # u
      <3>1. Same(w)
        BY <1>3, <2>3 DEF Same, DInv, TypeOK, Complete, At, Idle, Release, Cleaning,
           files, import
      <3>2. QED BY <1>3, <2>1, <3>1, SameState
    <2>4. QED BY <2>2, <2>3
  <1>4. QED BY <1>1, <1>2, <1>3 DEF DInv

(* A cleanup that fails leaves its job and the files as they are. *)
LEMMA CleanFailsKeeps ==
    ASSUME NEW u \in Uploads, DInv, CleanFails(u)
    PROVE  DInv'
  <1>1. TypeOK'
    BY DocumentsAssumption DEF DInv, TypeOK, Places, CleanStates, CleanFails, Fault,
       Idle, Release, Cleaning, files, import
  <1>2. PathsAreExclusive' /\ QuarantineIsOwn'
    <2>1. UNCHANGED place
      BY DEF CleanFails, Fault, Idle, Release, Cleaning, files, import
    <2>2. QED BY <2>1, SamePlaces DEF DInv
  <1>3. ASSUME NEW w \in Uploads PROVE DocumentState(w)'
    <2>1. DocumentState(w) BY <1>3 DEF DInv
    <2>2. CASE w = u
      BY <2>1, <2>2 DEF DInv, TypeOK, CleanStates, CleanFails, Fault, Idle, Release,
         Cleaning, files, import, DocumentState, ImportState, BytesState,
         DerivedState, GateState, CleanState, RenderState, HasRow,
         Stored, Purged, Nowhere
    <2>3. CASE w # u
      <3>1. Same(w)
        BY <1>3, <2>3 DEF Same, DInv, TypeOK, CleanFails, Fault, Idle, Release,
           Cleaning, files, import
      <3>2. QED BY <1>3, <2>1, <3>1, SameState
    <2>4. QED BY <2>2, <2>3
  <1>4. QED BY <1>1, <1>2, <1>3 DEF DInv

(* A renderer begins only while there is a row. *)
LEMMA RenderBeginKeeps ==
    ASSUME NEW u \in Uploads, DInv, RenderBegin(u)
    PROVE  DInv'
  <1>1. TypeOK'
    BY DocumentsAssumption DEF DInv, TypeOK, Places, CleanStates, RenderBegin,
       MayRender, Turn, FirstStep, Rendering, HasRow, import
  <1>2. PathsAreExclusive' /\ QuarantineIsOwn'
    <2>1. UNCHANGED place
      BY DEF RenderBegin, MayRender, Turn, FirstStep, Rendering, HasRow, import
    <2>2. QED BY <2>1, SamePlaces DEF DInv
  <1>3. ASSUME NEW w \in Uploads PROVE DocumentState(w)'
    <2>1. DocumentState(w) BY <1>3 DEF DInv
    <2>2. CASE w = u
      BY <2>1, <2>2 DEF DInv, TypeOK, CleanStates, RenderBegin, MayRender, Turn,
         FirstStep, Rendering, HasRow, import, DocumentState,
         ImportState, BytesState, DerivedState, GateState, CleanState,
         RenderState, Stored, Purged, Nowhere
    <2>3. CASE w # u
      <3>1. Same(w)
        BY <1>3, <2>3 DEF Same, DInv, TypeOK, RenderBegin, MayRender, Turn, FirstStep,
           Rendering, HasRow, import
      <3>2. QED BY <1>3, <2>1, <3>1, SameState
    <2>4. QED BY <2>2, <2>3
  <1>4. QED BY <1>1, <1>2, <1>3 DEF DInv

(* So does a renderer of previews. *)
LEMMA PreviewBeginKeeps ==
    ASSUME NEW u \in Uploads, DInv, PreviewBegin(u)
    PROVE  DInv'
  <1>1. TypeOK'
    BY DocumentsAssumption DEF DInv, TypeOK, Places, CleanStates, PreviewBegin,
       MayRender, Turn, Rendering, HasRow, import
  <1>2. PathsAreExclusive' /\ QuarantineIsOwn'
    <2>1. UNCHANGED place
      BY DEF PreviewBegin, MayRender, Turn, Rendering, HasRow, import
    <2>2. QED BY <2>1, SamePlaces DEF DInv
  <1>3. ASSUME NEW w \in Uploads PROVE DocumentState(w)'
    <2>1. DocumentState(w) BY <1>3 DEF DInv
    <2>2. CASE w = u
      BY <2>1, <2>2 DEF DInv, TypeOK, CleanStates, PreviewBegin, MayRender, Turn,
         Rendering, HasRow, import, DocumentState, ImportState,
         BytesState, DerivedState, GateState, CleanState, RenderState,
         Stored, Purged, Nowhere
    <2>3. CASE w # u
      <3>1. Same(w)
        BY <1>3, <2>3 DEF Same, DInv, TypeOK, PreviewBegin, MayRender, Turn, Rendering,
           HasRow, import
      <3>2. QED BY <1>3, <2>1, <3>1, SameState
    <2>4. QED BY <2>2, <2>3
  <1>4. QED BY <1>1, <1>2, <1>3 DEF DInv

(* A preview is written while the original is in place. *)
LEMMA WritePreviewKeeps ==
    ASSUME NEW u \in Uploads, DInv, WritePreview(u)
    PROVE  DInv'
  <1>1. TypeOK'
    <2>1. derived' \in [Uploads -> SUBSET {"preview", "thumb"}]
      BY DocumentsAssumption DEF DInv, TypeOK, WritePreview, Taken, Turn, Release,
         Rendering, Stored, import
    <2>2. render' \in [Uploads -> {"idle", "only", "preview", "thumb", "record"}]
      BY DocumentsAssumption DEF DInv, TypeOK, WritePreview, Taken, Turn, Release,
         Rendering, Stored, import
    <2>3. held' \in [Uploads -> {"free", "cleaner", "renderer"}]
      BY DocumentsAssumption DEF DInv, TypeOK, WritePreview, Taken, Turn, Release,
         Rendering, Stored, import
    <2>4. UNCHANGED <<row, path, recorded, job, place, quarantine, up, name, clean, faults>>
      BY DocumentsAssumption DEF DInv, TypeOK, import, WritePreview, Taken, Turn,
         Release, Rendering, Stored
    <2>5. QED BY <2>1, <2>2, <2>3, <2>4 DEF DInv, TypeOK
  <1>2. PathsAreExclusive' /\ QuarantineIsOwn'
    <2>1. UNCHANGED place
      BY DEF WritePreview, Taken, Turn, Release, Rendering, Stored, import
    <2>2. QED BY <2>1, SamePlaces DEF DInv
  <1>3. ASSUME NEW w \in Uploads PROVE DocumentState(w)'
    <2>1. DocumentState(w) BY <1>3 DEF DInv
    <2>2. CASE w = u
      BY <2>1, <2>2 DEF DInv, TypeOK, CleanStates, WritePreview, Taken, Turn, Release,
         Rendering, Stored, import, DocumentState, ImportState,
         BytesState, DerivedState, GateState, CleanState, RenderState,
         HasRow, Purged, Nowhere
    <2>3. CASE w # u
      <3>1. Same(w)
        BY <1>3, <2>3 DEF Same, DInv, TypeOK, WritePreview, Taken, Turn, Release,
           Rendering, Stored, import
      <3>2. QED BY <1>3, <2>1, <3>1, SameState
    <2>4. QED BY <2>2, <2>3
  <1>4. QED BY <1>1, <1>2, <1>3 DEF DInv

(* So is a thumbnail. *)
LEMMA WriteThumbKeeps ==
    ASSUME NEW u \in Uploads, DInv, WriteThumb(u)
    PROVE  DInv'
  <1>1. TypeOK'
    BY DocumentsAssumption DEF DInv, TypeOK, Places, CleanStates, WriteThumb, Taken,
       Turn, Rendering, Stored, import
  <1>2. PathsAreExclusive' /\ QuarantineIsOwn'
    <2>1. UNCHANGED place
      BY DEF WriteThumb, Taken, Turn, Rendering, Stored, import
    <2>2. QED BY <2>1, SamePlaces DEF DInv
  <1>3. ASSUME NEW w \in Uploads PROVE DocumentState(w)'
    <2>1. DocumentState(w) BY <1>3 DEF DInv
    <2>2. CASE w = u
      BY <2>1, <2>2 DEF DInv, TypeOK, CleanStates, WriteThumb, Taken, Turn, Rendering,
         Stored, import, DocumentState, ImportState, BytesState,
         DerivedState, GateState, CleanState, RenderState, HasRow,
         Purged, Nowhere
    <2>3. CASE w # u
      <3>1. Same(w)
        BY <1>3, <2>3 DEF Same, DInv, TypeOK, WriteThumb, Taken, Turn, Rendering,
           Stored, import
      <3>2. QED BY <1>3, <2>1, <3>1, SameState
    <2>4. QED BY <2>2, <2>3
  <1>4. QED BY <1>1, <1>2, <1>3 DEF DInv

(* A thumbnail is recorded once it is there. *)
LEMMA RecordKeeps ==
    ASSUME NEW u \in Uploads, DInv, Record(u)
    PROVE  DInv'
  <1>1. TypeOK'
    BY DocumentsAssumption DEF DInv, TypeOK, Places, CleanStates, Record, HasRow, Turn,
       Release, Rendering, import
  <1>2. PathsAreExclusive' /\ QuarantineIsOwn'
    <2>1. UNCHANGED place
      BY DEF Record, HasRow, Turn, Release, Rendering, import
    <2>2. QED BY <2>1, SamePlaces DEF DInv
  <1>3. ASSUME NEW w \in Uploads PROVE DocumentState(w)'
    <2>1. DocumentState(w) BY <1>3 DEF DInv
    <2>2. CASE w = u
      BY <2>1, <2>2 DEF DInv, TypeOK, CleanStates, Record, HasRow, Turn, Release,
         Rendering, import, DocumentState, ImportState, BytesState,
         DerivedState, GateState, CleanState, RenderState, Stored,
         Purged, Nowhere
    <2>3. CASE w # u
      <3>1. Same(w)
        BY <1>3, <2>3 DEF Same, DInv, TypeOK, Record, HasRow, Turn, Release, Rendering,
           import
      <3>2. QED BY <1>3, <2>1, <3>1, SameState
    <2>4. QED BY <2>2, <2>3
  <1>4. QED BY <1>1, <1>2, <1>3 DEF DInv

(* A renderer that fails lets go of the gate. *)
LEMMA RenderFailsKeeps ==
    ASSUME NEW u \in Uploads, DInv, RenderFails(u)
    PROVE  DInv'
  <1>1. TypeOK'
    BY DocumentsAssumption DEF DInv, TypeOK, Places, CleanStates, RenderFails, Fault,
       Turn, Release, Rendering, import
  <1>2. PathsAreExclusive' /\ QuarantineIsOwn'
    <2>1. UNCHANGED place
      BY DEF RenderFails, Fault, Turn, Release, Rendering, import
    <2>2. QED BY <2>1, SamePlaces DEF DInv
  <1>3. ASSUME NEW w \in Uploads PROVE DocumentState(w)'
    <2>1. DocumentState(w) BY <1>3 DEF DInv
    <2>2. CASE w = u
      BY <2>1, <2>2 DEF DInv, TypeOK, CleanStates, RenderFails, Fault, Turn, Release,
         Rendering, import, DocumentState, ImportState, BytesState,
         DerivedState, GateState, CleanState, RenderState, HasRow,
         Stored, Purged, Nowhere
    <2>3. CASE w # u
      <3>1. Same(w)
        BY <1>3, <2>3 DEF Same, DInv, TypeOK, RenderFails, Fault, Turn, Release,
           Rendering, import
      <3>2. QED BY <1>3, <2>1, <3>1, SameState
    <2>4. QED BY <2>2, <2>3
  <1>4. QED BY <1>1, <1>2, <1>3 DEF DInv

(* Purged documents get their jobs, whatever is at work on them. *)
LEMMA PurgeKeeps ==
    ASSUME NEW S \in SUBSET Uploads, DInv, Purge(S)
    PROVE  DInv'
  <1>1. TypeOK'
    BY DEF DInv, TypeOK, Purge, Requesting, files, import
  <1>2. PathsAreExclusive' /\ QuarantineIsOwn'
    <2>1. UNCHANGED place BY DEF Purge, Requesting, files
    <2>2. QED BY <2>1, SamePlaces DEF DInv
  <1>3. ASSUME NEW w \in Uploads PROVE DocumentState(w)'
    <2>1. DocumentState(w) BY <1>3 DEF DInv
    <2>2. CASE w \in S
      <3>1. clean[w].phase = "idle"
        BY <1>3, <2>1, <2>2 DEF DInv, TypeOK, CleanStates, Purge, DocumentState, BytesState, CleanState
      <3>2. QED
        BY <1>3, <2>1, <2>2, <3>1 DEF DInv, TypeOK, Purge, Requesting, files, import, DocumentState,
           ImportState, BytesState, DerivedState, GateState, CleanState, RenderState, HasRow,
           Stored, Purged, Nowhere
    <2>3. CASE w \notin S
      <3>1. Same(w) BY <1>3, <2>3 DEF Same, DInv, TypeOK, Purge, Requesting, files, import
      <3>2. QED BY <1>3, <2>1, <3>1, SameState
    <2>4. QED BY <2>2, <2>3
  <1>4. QED BY <1>1, <1>2, <1>3 DEF DInv

(* A crash ends what is under way and changes neither rows nor files. *)
LEMMA CrashKeeps ==
    ASSUME DInv, Crash
    PROVE  DInv'
  <1>1. TypeOK'
    BY DocumentsAssumption DEF DInv, TypeOK, CleanStates, Crash, Fault, Idle, rows, files
  <1>2. PathsAreExclusive' /\ QuarantineIsOwn'
    <2>1. UNCHANGED place BY DEF Crash, files
    <2>2. QED BY <2>1, SamePlaces DEF DInv
  <1>3. ASSUME NEW w \in Uploads PROVE DocumentState(w)'
    <2>1. DocumentState(w) BY <1>3 DEF DInv
    <2>2. /\ UNCHANGED <<row, path, recorded, job, place, derived, quarantine, name>>
          /\ up'[w] = IF up[w] \in {"new", "created", "ended"} THEN up[w] ELSE "lost"
          /\ held'[w] = "free" /\ clean'[w] = Idle /\ render'[w] = "idle"
      BY <1>3 DEF Crash, rows, files
    <2>3. ImportState(w)'
      BY <1>3, <2>1, <2>2 DEF DInv, TypeOK, DocumentState, ImportState, Stored, Nowhere
    <2>4. BytesState(w)' /\ DerivedState(w)'
      BY <2>1, <2>2 DEF DocumentState, BytesState, DerivedState, HasRow, Stored, Purged, Nowhere
    <2>5. GateState(w)' /\ CleanState(w)' /\ RenderState(w)'
      BY <2>2 DEF GateState, CleanState, RenderState, Idle
    <2>6. QED BY <2>3, <2>4, <2>5 DEF DocumentState
  <1>4. QED BY <1>1, <1>2, <1>3 DEF DInv

-----------------------------------------------------------------------------
(* DInv is inductive. *)
LEMMA NextKeeps ==
    ASSUME DInv, [Next]_vars
    PROVE  DInv'
  <1>1. ASSUME NEW u \in Uploads, Import(u) PROVE DInv'
    BY <1>1, LookKeeps, AskReservedKeeps, LinkKeeps, CreateKeeps, ImportFailsKeeps, UndoKeeps DEF Import
  <1>2. ASSUME NEW u \in Uploads, SoftDelete(u) \/ Restore(u) PROVE DInv'
    BY <1>2, SoftDeleteKeeps, RestoreKeeps
  <1>3. ASSUME NEW S \in SUBSET Uploads, Purge(S) PROVE DInv'
    BY <1>3, PurgeKeeps
  <1>4. ASSUME NEW u \in Uploads, Clean(u) \/ CleanFails(u) PROVE DInv'
    BY <1>4, CleanBeginKeeps, StageFirstKeeps, StageDerivedKeeps, MarkStagedKeeps, UnlinkKeeps,
       CompleteKeeps, CleanFailsKeeps DEF Clean
  <1>5. ASSUME NEW u \in Uploads, Render(u) \/ RequestRender(u) \/ RenderFails(u) PROVE DInv'
    BY <1>5, RenderBeginKeeps, PreviewBeginKeeps, WritePreviewKeeps, WriteThumbKeeps, RecordKeeps,
       RenderFailsKeeps DEF Render, RequestRender
  <1>6. CASE Crash BY <1>6, CrashKeeps
  <1>7. CASE UNCHANGED vars
    <2>1. TypeOK' BY <1>7 DEF DInv, TypeOK, vars
    <2>2. PathsAreExclusive' /\ QuarantineIsOwn' BY <1>7, SamePlaces DEF DInv, vars
    <2>3. ASSUME NEW w \in Uploads PROVE DocumentState(w)'
      BY <1>7, <2>3, SameState DEF DInv, Same, vars
    <2>4. QED BY <2>1, <2>2, <2>3 DEF DInv
  <1>8. QED BY <1>1, <1>2, <1>3, <1>4, <1>5, <1>6, <1>7 DEF Next, Finished

(* The inductive invariant holds in every state, for any uploads and faults. *)
THEOREM DocumentsInvariant == Spec => []DInv
  <1>1. Init => DInv BY InitInv
  <1>2. DInv /\ [Next]_vars => DInv' BY NextKeeps
  <1>3. QED BY <1>1, <1>2, PTL DEF Spec

(* Every variable keeps its type. *)
THEOREM DocumentTypes == Spec => []TypeOK
  <1>1. DInv => TypeOK BY DEF DInv
  <1>2. QED BY <1>1, DocumentsInvariant, PTL

(* Every document that is not purged has its own bytes under its path. *)
THEOREM DocumentsHaveFiles == Spec => []RowsHaveFiles
  <1>1. DInv => RowsHaveFiles BY DEF DInv, DocumentState, BytesState, RowsHaveFiles
  <1>2. QED BY <1>1, DocumentsInvariant, PTL

(* A cleanup never takes another document's file into quarantine. *)
THEOREM CleanupsTakeTheirOwn == Spec => []QuarantineIsOwn
  <1>1. DInv => QuarantineIsOwn BY DEF DInv
  <1>2. QED BY <1>1, DocumentsInvariant, PTL

(* The original stays in place while a renderer is at work. *)
THEOREM RenderersHaveTheirSource == Spec => []RendererSeesOriginal
  <1>1. DInv => RendererSeesOriginal BY DEF DInv, DocumentState, RenderState, RendererSeesOriginal
  <1>2. QED BY <1>1, DocumentsInvariant, PTL

(* Nothing of a document is left when its deletion is completed. *)
THEOREM NothingIsLeft == Spec => []PurgedLeavesNothing
  <1>1. DInv => PurgedLeavesNothing
    BY DEF DInv, DocumentState, BytesState, DerivedState, PurgedLeavesNothing
  <1>2. QED BY <1>1, DocumentsInvariant, PTL

(* A recorded thumbnail is on disk. *)
THEOREM RecordedThumbnails == Spec => []RecordedThumbnailExists
  <1>1. DInv => RecordedThumbnailExists
    BY DEF DInv, DocumentState, DerivedState, RecordedThumbnailExists
  <1>2. QED BY <1>1, DocumentsInvariant, PTL

(* An import that ends by itself without a document leaves no file. *)
THEOREM NoOrphans == Spec => []EndedLeavesNothing
  <1>1. DInv => EndedLeavesNothing BY DEF DInv, DocumentState, ImportState, EndedLeavesNothing
  <1>2. QED BY <1>1, DocumentsInvariant, PTL

(* A step that moves or removes bytes: the own cleanup or the own undoing. *)
LEMMA BytesMove ==
    ASSUME DInv, [Next]_vars, NEW u \in Uploads, place[u] # Nowhere, place'[u] # place[u]
    PROVE  job[u] # "none" \/ up[u] = "undo"
  <1>1. ASSUME NEW v \in Uploads, Link(v) PROVE FALSE
    <2>1. place[v] = Nowhere BY <1>1 DEF DInv, DocumentState, ImportState, Link
    <2>2. v # u BY <2>1
    <2>3. QED BY <1>1, <2>2 DEF Link, Commit, DInv, TypeOK
  <1>2. ASSUME NEW v \in Uploads, Undo(v) PROVE up[u] = "undo"
    <2>1. v = u BY <1>2, UndoIsOwn DEF DInv, TypeOK
    <2>2. QED BY <1>2, <2>1 DEF Undo
  <1>3. ASSUME NEW v \in Uploads, Stage(v) PROVE job[u] # "none"
    <2>1. At(v, "stage") /\ StageOriginal(v) BY <1>3 DEF Stage
    <2>2. v = u BY <2>1, StageOriginalIsOwn DEF DInv, TypeOK
    <2>3. QED BY <2>1, <2>2 DEF At, DInv, DocumentState, CleanState
  <1>4. ASSUME NEW v \in Uploads, Unlink(v) PROVE job[u] # "none"
    <2>1. place[u] = Purged(v) BY <1>4 DEF Unlink, DInv, TypeOK
    <2>2. v = u BY <2>1 DEF DInv, QuarantineIsOwn
    <2>3. QED BY <1>4, <2>2 DEF Unlink, At, DInv, DocumentState, CleanState
  <1>5. QED
    BY <1>1, <1>2, <1>3, <1>4 DEF Next, vars, Finished, files, rows, import,
       Import, Look, AskReserved, Create, ImportFails, Importing, SoftDelete, Restore, Purge, Requesting,
       Clean, CleanBegin, MarkStaged, Complete, CleanFails, Render, WritePreview, WriteThumb, Record,
       RequestRender, RenderBegin, PreviewBegin, RenderFails, Rendering, Crash

(* Bytes leave their place only through their own document or import. *)
THEOREM NobodyRemovesForeignBytes == Spec => OnlyOwnBytesGo
  <1>1. DInv /\ [Next]_vars =>
          [\A u \in Uploads : place[u] # Nowhere /\ place'[u] # place[u] =>
             job[u] # "none" \/ up[u] = "undo"]_vars
    BY BytesMove
  <1>2. QED BY <1>1, DocumentsInvariant, PTL DEF Spec, OnlyOwnBytesGo

-----------------------------------------------------------------------------
(* The gate, for any number of callers and gates                            *)

LEMMA GateFacts == IsFiniteSet(Callers) /\ NoGate \notin Gates /\ Nobody \notin Callers
<1>1. \A S : Gate!IsFiniteSet(S) <=> IsFiniteSet(S)
  BY DEF Gate!IsFiniteSet, IsFiniteSet
<1> QED BY <1>1, GateInstance DEF Gate!GateAssumption

(* The gate's module counts as this one does.                               *)
LEMMA SameCount == \A S : Gate!Cardinality(S) = Cardinality(S)
  BY DEF Gate!Cardinality, Cardinality

(* Where the callers are decides who counts as a user.                      *)
LEMMA UsersFinite == IsFiniteSet(Gate!Users)
  BY FS_Subset, GateFacts DEF Gate!Users

(* A caller that comes is one user more, and holds nothing.                 *)
LEMMA ComingUsers ==
  ASSUME Gate!TypeOK, NEW c \in Callers, Gate!Enter(c)
  PROVE  /\ c \notin Gate!Users
         /\ Gate!Users' = Gate!Users \cup {c}
         /\ Gate!Holding' = Gate!Holding
  BY DEF Gate!TypeOK, Gate!Enter, Gate!Goto, Gate!Users, Gate!Holding

(* One that leaves was a user, and held nothing.                            *)
LEMMA LeavingUsers ==
  ASSUME Gate!TypeOK, NEW c \in Callers, Gate!Unref(c)
  PROVE  /\ c \in Gate!Users
         /\ Gate!Users' = Gate!Users \ {c}
         /\ Gate!Holding' = Gate!Holding
  BY DEF Gate!TypeOK, Gate!Unref, Gate!Goto, Gate!Users, Gate!Holding

(* The gate of a user is the one in the map.                                *)
LEMMA UsersGate ==
  ASSUME Gate!GInv, NEW c \in Gate!Users
  PROVE  mine[c] = entry /\ entry \in Gates /\ refs[entry] \in Int /\ busy[entry] \in BOOLEAN
  BY DEF Gate!GInv, Gate!TypeOK, Gate!Users

(* Every user has the gate of the map, counted, and full when held.         *)
Counted ==
    /\ \A c \in Callers : mine[c] = IF c \in Gate!Users THEN entry ELSE NoGate
    /\ entry = NoGate <=> Gate!Users = {}
    /\ entry # NoGate => refs[entry] = Cardinality(Gate!Users)
    /\ entry # NoGate => (busy[entry] <=> Gate!Holding # {})

LEMMA GateInvariantParts == Gate!GInv <=> Gate!TypeOK /\ Counted /\ Gate!OneHolder
  BY SameCount DEF Gate!GInv, Counted

(* No step spoils a type.                                                   *)
LEMMA GateTypesKept == Gate!GInv /\ [Gate!Next]_(Gate!vars) => Gate!TypeOK'
<1> SUFFICES ASSUME Gate!GInv, [Gate!Next]_(Gate!vars) PROVE Gate!TypeOK'
  OBVIOUS
<1> USE DEF Gate!TypeOK, Gate!Goto
<1>0. Gate!TypeOK
  BY DEF Gate!GInv
<1>1. ASSUME NEW c \in Callers, Gate!Enter(c) PROVE Gate!TypeOK'
  <2>1. PICK g \in Gates :
          /\ entry' = g
          /\ refs' = [refs EXCEPT ![g] = IF entry = NoGate THEN 1 ELSE @ + 1]
          /\ busy' = [busy EXCEPT ![g] = entry # NoGate /\ @]
          /\ mine' = [mine EXCEPT ![c] = g]
    BY <1>1 DEF Gate!Enter
  <2>2. refs' \in [Gates -> Int]
    BY <1>0, <2>1
  <2>3. busy' \in [Gates -> BOOLEAN]
    BY <1>0, <2>1, Zenon
  <2> QED BY <1>0, <1>1, <2>1, <2>2, <2>3 DEF Gate!Enter
<1>2. ASSUME NEW c \in Callers, Gate!Acquire(c) PROVE Gate!TypeOK'
  BY <1>0, <1>2 DEF Gate!Acquire
<1>3. ASSUME NEW c \in Callers, Gate!Cancel(c) PROVE Gate!TypeOK'
  BY <1>0, <1>3 DEF Gate!Cancel
<1>4. ASSUME NEW c \in Callers, Gate!Free(c) PROVE Gate!TypeOK'
  BY <1>0, <1>4 DEF Gate!Free
<1>5. ASSUME NEW c \in Callers, Gate!Unref(c) PROVE Gate!TypeOK'
  <2>1. mine[c] = entry /\ entry \in Gates
    BY <1>0, <1>5, UsersGate DEF Gate!Unref, Gate!Users
  <2> QED BY <1>0, <1>5, <2>1 DEF Gate!Unref
<1>6. CASE UNCHANGED Gate!vars
  BY <1>0, <1>6 DEF Gate!vars
<1> QED BY <1>1, <1>2, <1>3, <1>4, <1>5, <1>6 DEF Gate!Next

(* A caller that comes finds the gate of the others, or makes the first one. *)
LEMMA EnterKeeps ==
  ASSUME Gate!GInv, NEW c \in Callers, Gate!Enter(c), Gate!TypeOK'
  PROVE  Counted' /\ Gate!OneHolder'
<1>0. Gate!TypeOK /\ Counted /\ Gate!OneHolder
  BY GateInvariantParts
<1>1. PICK g \in Gates :
        /\ Gate!GateFor(g)
        /\ entry' = g
        /\ refs' = [refs EXCEPT ![g] = IF entry = NoGate THEN 1 ELSE @ + 1]
        /\ busy' = [busy EXCEPT ![g] = entry # NoGate /\ @]
        /\ mine' = [mine EXCEPT ![c] = g]
  BY DEF Gate!Enter
<1>2. g # NoGate /\ (entry # NoGate => g = entry)
  BY <1>1, GateFacts DEF Gate!GateFor
<1>3. c \notin Gate!Users /\ Gate!Users' = Gate!Users \cup {c} /\ Gate!Holding' = Gate!Holding
  BY <1>0, ComingUsers
<1>4. \A d \in Callers : mine'[d] = IF d \in Gate!Users' THEN entry' ELSE NoGate
  <2> TAKE d \in Callers
  <2>1. CASE d = c
    BY <2>1, <1>0, <1>1, <1>3 DEF Gate!TypeOK
  <2>2. CASE d # c
    <3>1. mine'[d] = mine[d]
      BY <2>2, <1>0, <1>1 DEF Gate!TypeOK
    <3>2. d \in Gate!Users' <=> d \in Gate!Users
      BY <2>2, <1>3
    <3>3. d \in Gate!Users => entry # NoGate
      BY <1>0 DEF Counted
    <3> QED BY <3>1, <3>2, <3>3, <1>0, <1>1, <1>2 DEF Counted
  <2> QED BY <2>1, <2>2
<1>5. entry' # NoGate /\ Gate!Users' # {}
  BY <1>1, <1>2, <1>3
<1>6. refs'[entry'] = Cardinality(Gate!Users')
  <2>1. Cardinality(Gate!Users') = Cardinality(Gate!Users) + 1
    BY <1>3, UsersFinite, FS_AddElement
  <2>2. CASE entry = NoGate
    <3>1. Cardinality(Gate!Users) = 0
      BY <1>0, <2>2, FS_EmptySet DEF Counted
    <3> QED BY <2>1, <2>2, <3>1, <1>0, <1>1 DEF Gate!TypeOK
  <2>3. CASE entry # NoGate
    <3>1. refs[entry] = Cardinality(Gate!Users)
      BY <1>0, <2>3 DEF Counted
    <3> QED BY <2>1, <2>3, <3>1, <1>0, <1>1, <1>2 DEF Gate!TypeOK
  <2> QED BY <2>2, <2>3
<1>7. busy'[entry'] <=> Gate!Holding' # {}
  <2>1. busy'[g] <=> entry # NoGate /\ busy[g]
    BY <1>0, <1>1, Zenon DEF Gate!TypeOK
  <2>2. CASE entry = NoGate
    <3>1. Gate!Holding = {}
      BY <2>2, <1>0 DEF Counted, Gate!Users, Gate!Holding
    <3> QED BY <2>1, <2>2, <3>1, <1>1, <1>3
  <2>3. CASE entry # NoGate
    BY <2>1, <2>3, <1>0, <1>1, <1>2, <1>3 DEF Counted
  <2> QED BY <2>2, <2>3
<1>8. Gate!OneHolder'
  BY <1>0, <1>3 DEF Gate!OneHolder
<1> QED BY <1>4, <1>5, <1>6, <1>7, <1>8 DEF Counted

(* Only a caller that finds the channel empty becomes the holder.           *)
LEMMA AcquireKeeps ==
  ASSUME Gate!GInv, NEW c \in Callers, Gate!Acquire(c)
  PROVE  /\ Gate!Holding = {} /\ Gate!Holding' = {c}
         /\ Counted' /\ Gate!OneHolder'
<1>0. Gate!TypeOK /\ Counted /\ Gate!OneHolder
  BY GateInvariantParts
<1>1. c \in Gate!Users
  BY DEF Gate!Acquire, Gate!Users
<1>2. mine[c] = entry /\ entry \in Gates
  BY <1>1, UsersGate
<1>3. Gate!Holding = {}
  BY <1>0, <1>2, GateFacts DEF Gate!Acquire, Counted
<1>4. Gate!Users' = Gate!Users /\ Gate!Holding' = Gate!Holding \cup {c}
  BY <1>0 DEF Gate!TypeOK, Gate!Acquire, Gate!Goto, Gate!Users, Gate!Holding
<1>5. busy'[entry]
  BY <1>0, <1>2, Zenon DEF Gate!Acquire, Gate!TypeOK
<1> QED BY <1>0, <1>3, <1>4, <1>5 DEF Gate!Acquire, Counted, Gate!OneHolder

(* Giving up takes nobody out of the count yet.                             *)
LEMMA CancelKeeps ==
  ASSUME Gate!GInv, NEW c \in Callers, Gate!Cancel(c)
  PROVE  Gate!Holding' = Gate!Holding /\ Counted' /\ Gate!OneHolder'
<1>0. Gate!TypeOK /\ Counted /\ Gate!OneHolder
  BY GateInvariantParts
<1>1. Gate!Users' = Gate!Users /\ Gate!Holding' = Gate!Holding
  BY <1>0 DEF Gate!TypeOK, Gate!Cancel, Gate!Goto, Gate!Users, Gate!Holding
<1> QED BY <1>0, <1>1 DEF Gate!Cancel, Counted, Gate!OneHolder

(* The holder empties the channel and holds no more.                        *)
LEMMA FreeKeeps ==
  ASSUME Gate!GInv, NEW c \in Callers, Gate!Free(c)
  PROVE  /\ Gate!Holding = {c} /\ Gate!Holding' = {}
         /\ Counted' /\ Gate!OneHolder'
<1>0. Gate!TypeOK /\ Counted /\ Gate!OneHolder
  BY GateInvariantParts
<1>1. c \in Gate!Users /\ c \in Gate!Holding
  BY DEF Gate!Free, Gate!Users, Gate!Holding
<1>2. mine[c] = entry /\ entry \in Gates
  BY <1>1, UsersGate
<1>3. Gate!Holding = {c}
  BY <1>0, <1>1 DEF Gate!OneHolder
<1>4. Gate!Users' = Gate!Users /\ Gate!Holding' = Gate!Holding \ {c}
  BY <1>0 DEF Gate!TypeOK, Gate!Free, Gate!Goto, Gate!Users, Gate!Holding
<1>5. ~busy'[entry]
  BY <1>0, <1>2, Zenon DEF Gate!Free, Gate!TypeOK
<1> QED BY <1>0, <1>3, <1>4, <1>5 DEF Gate!Free, Counted, Gate!OneHolder

(* The entry goes with the last user, and only then.                        *)
LEMMA UnrefKeeps ==
  ASSUME Gate!GInv, NEW c \in Callers, Gate!Unref(c)
  PROVE  Gate!Holding' = Gate!Holding /\ Counted' /\ Gate!OneHolder'
<1>0. Gate!TypeOK /\ Counted /\ Gate!OneHolder
  BY GateInvariantParts
<1>1. c \in Gate!Users /\ Gate!Users' = Gate!Users \ {c} /\ Gate!Holding' = Gate!Holding
  BY <1>0, LeavingUsers
<1>2. mine[c] = entry /\ entry \in Gates /\ entry # NoGate /\ refs[entry] \in Int
  BY <1>1, UsersGate, GateFacts
<1>3. refs[entry] = Cardinality(Gate!Users) /\ Cardinality(Gate!Users') = Cardinality(Gate!Users) - 1
  BY <1>0, <1>1, <1>2, UsersFinite, FS_RemoveElement DEF Counted
<1>4. IsFiniteSet(Gate!Users')
  BY <1>1, UsersFinite, FS_RemoveElement
<1>5. refs[entry] = 1 <=> Gate!Users' = {}
  BY <1>2, <1>3, <1>4, FS_EmptySet
<1>6. entry' = IF Gate!Users' = {} THEN NoGate ELSE entry
  BY <1>2, <1>5 DEF Gate!Unref
<1>7. refs'[entry] = Cardinality(Gate!Users')
  BY <1>0, <1>2, <1>3 DEF Gate!Unref, Gate!TypeOK
<1>8. \A d \in Callers : mine'[d] = IF d \in Gate!Users' THEN entry' ELSE NoGate
  <2> TAKE d \in Callers
  <2>1. CASE d = c
    BY <2>1, <1>0, <1>1 DEF Gate!Unref, Gate!TypeOK
  <2>2. CASE d # c
    <3>1. mine'[d] = mine[d]
      BY <2>2, <1>0 DEF Gate!Unref, Gate!TypeOK
    <3>2. d \in Gate!Users' <=> d \in Gate!Users
      BY <2>2, <1>1
    <3> QED BY <3>1, <3>2, <1>0, <1>6 DEF Counted
  <2> QED BY <2>1, <2>2
<1>9. entry' # NoGate => (busy'[entry'] <=> Gate!Holding' # {})
  BY <1>0, <1>1, <1>2, <1>6 DEF Gate!Unref, Counted
<1> QED BY <1>0, <1>1, <1>2, <1>6, <1>7, <1>8, <1>9 DEF Counted, Gate!OneHolder

(* GInv holds at the start.                                                 *)
LEMMA GateStartInvariant == Gate!Init => Gate!GInv
<1> SUFFICES ASSUME Gate!Init PROVE Gate!GInv
  OBVIOUS
<1>1. Gate!Users = {} /\ Gate!Holding = {}
  BY DEF Gate!Init, Gate!Users, Gate!Holding
<1> QED BY <1>1 DEF Gate!Init, Gate!GInv, Gate!TypeOK, Gate!OneHolder

(* Every step keeps it.                                                     *)
LEMMA GateStepInvariant == Gate!GInv /\ [Gate!Next]_(Gate!vars) => Gate!GInv'
<1> SUFFICES ASSUME Gate!GInv, [Gate!Next]_(Gate!vars) PROVE Gate!GInv'
  OBVIOUS
<1>1. Gate!TypeOK'
  BY GateTypesKept
<1>2. ASSUME NEW c \in Callers, Gate!Enter(c) PROVE Counted' /\ Gate!OneHolder'
  BY <1>1, <1>2, EnterKeeps
<1>3. ASSUME NEW c \in Callers, Gate!Acquire(c) PROVE Counted' /\ Gate!OneHolder'
  BY <1>3, AcquireKeeps
<1>4. ASSUME NEW c \in Callers, Gate!Cancel(c) PROVE Counted' /\ Gate!OneHolder'
  BY <1>4, CancelKeeps
<1>5. ASSUME NEW c \in Callers, Gate!Free(c) PROVE Counted' /\ Gate!OneHolder'
  BY <1>5, FreeKeeps
<1>6. ASSUME NEW c \in Callers, Gate!Unref(c) PROVE Counted' /\ Gate!OneHolder'
  BY <1>6, UnrefKeeps
<1>7. ASSUME UNCHANGED Gate!vars PROVE Counted' /\ Gate!OneHolder'
  <2>1. Gate!Users' = Gate!Users /\ Gate!Holding' = Gate!Holding
    BY <1>7 DEF Gate!vars, Gate!Users, Gate!Holding
  <2> QED BY <1>7, <2>1, GateInvariantParts DEF Gate!vars, Counted, Gate!OneHolder
<1>8. Counted' /\ Gate!OneHolder'
  BY <1>2, <1>3, <1>4, <1>5, <1>6, <1>7 DEF Gate!Next
<1> QED BY <1>1, <1>8, SameCount DEF Gate!GInv, Counted

-----------------------------------------------------------------------------
(* AcquireDocumentFiles keeps its invariant: whatever callers come, give up *)
(* and leave, all of them have the gate in the map, and it counts them.     *)
THEOREM GateInvariant == Gate!Spec => []Gate!GInv
  BY GateStartInvariant, GateStepInvariant, PTL DEF Gate!Spec

(* At most one caller at a time works on the files of a document.           *)
THEOREM OneAtATime == Gate!Spec => []Gate!OneHolder
<1>1. Gate!GInv => Gate!OneHolder
  BY DEF Gate!GInv
<1> QED BY <1>1, GateInvariant, PTL

(* documentGates has an entry only while somebody wants the document.       *)
THEOREM NoEntryRemains == Gate!Spec => []Gate!NoIdleEntry
<1>1. Gate!GInv => Gate!NoIdleEntry
  BY DEF Gate!GInv, Gate!NoIdleEntry
<1> QED BY <1>1, GateInvariant, PTL

(* The owner in terms of who holds the gate.                                *)
LEMMA OwnerIs ==
  /\ Gate!Holding = {} => Gate!Owner = Nobody
  /\ \A c \in Callers : Gate!Holding = {c} => Gate!Owner = c
  BY DEF Gate!Owner

LEMMA OwnerNext ==
  /\ Gate!Holding' = {} => Gate!Owner' = Nobody
  /\ \A c \in Callers : Gate!Holding' = {c} => Gate!Owner' = c
  /\ Gate!Holding' = Gate!Holding => Gate!Owner' = Gate!Owner
<1> DEFINE Who(H) == IF H = {} THEN Nobody ELSE CHOOSE c \in Callers : c \in H
<1>1. Gate!Owner = Who(Gate!Holding) /\ Gate!Owner' = Who(Gate!Holding')
  BY DEF Gate!Owner
<1>2. Who({}) = Nobody /\ \A c \in Callers : Who({c}) = c
  OBVIOUS
<1> HIDE DEF Who
<1> QED BY <1>1, <1>2

(* Store.AcquireDocumentFiles is a lock: the gate, its map and its counts   *)
(* implement GateLock, with the caller that holds the gate as the owner.    *)
THEOREM GateIsLock == Gate!Spec => LockSpec
<1>1. Gate!Init => Lock!Init
  <2>1. Gate!Init => Gate!Holding = {}
    BY DEF Gate!Init, Gate!Holding
  <2> QED BY <2>1, OwnerIs DEF Lock!Init
<1>2. Gate!GInv /\ [Gate!Next]_(Gate!vars) => [Lock!Next]_(Gate!Owner)
  <2> SUFFICES ASSUME Gate!GInv, [Gate!Next]_(Gate!vars) PROVE [Lock!Next]_(Gate!Owner)
    OBVIOUS
  <2>0. Gate!TypeOK
    BY DEF Gate!GInv
  <2>1. ASSUME NEW c \in Callers, Gate!Enter(c) PROVE UNCHANGED Gate!Owner
    BY <2>0, <2>1, ComingUsers, OwnerNext
  <2>2. ASSUME NEW c \in Callers, Gate!Acquire(c) PROVE Lock!Take(c)
    <3>1. Gate!Holding = {} /\ Gate!Holding' = {c}
      BY <2>2, AcquireKeeps
    <3> QED BY <3>1, OwnerIs, OwnerNext DEF Lock!Take
  <2>3. ASSUME NEW c \in Callers, Gate!Cancel(c) PROVE UNCHANGED Gate!Owner
    BY <2>3, CancelKeeps, OwnerNext
  <2>4. ASSUME NEW c \in Callers, Gate!Free(c) PROVE Lock!Give
    <3>1. Gate!Holding = {c} /\ Gate!Holding' = {}
      BY <2>4, FreeKeeps
    <3> QED BY <3>1, OwnerIs, OwnerNext, GateFacts DEF Lock!Give
  <2>5. ASSUME NEW c \in Callers, Gate!Unref(c) PROVE UNCHANGED Gate!Owner
    BY <2>5, UnrefKeeps, OwnerNext
  <2>6. CASE UNCHANGED Gate!vars
    <3>1. Gate!Holding' = Gate!Holding
      BY <2>6 DEF Gate!vars, Gate!Holding
    <3> QED BY <3>1, OwnerNext
  <2> QED BY <2>1, <2>2, <2>3, <2>4, <2>5, <2>6 DEF Gate!Next, Lock!Next
<1> QED BY <1>1, <1>2, GateInvariant, PTL DEF Gate!Spec, LockSpec, Lock!Spec

-----------------------------------------------------------------------------
(* RInv by its parts: the tables, document by document, the requests, and  *)
(* the counts.                                                             *)

Types ==
    /\ status \in [Docs -> {"new", "active", "trash", "purged"}]
    /\ text \in [Docs -> SUBSET Words]
    /\ assigned \in [Docs -> SUBSET Names]
    /\ values \in [Docs -> FieldValues]
    /\ index \in [Docs -> [tags : SUBSET Names, values : FieldValues, text : SUBSET Words]]
Catalog ==
    /\ changes \in 0 .. MaxChanges
    /\ tags \subseteq Names /\ protected \subseteq tags /\ favorite \subseteq Names
    /\ rules \in [Names -> SUBSET Rules] /\ \A n \in Names \ tags : rules[n] = {}
    /\ field \in [Fields -> {"new", "plain", "folder", "deleted"}]
NewFields == {c \in Fields : field[c] = "new"}

(* One document, with what is known of tags and fields: a statement about   *)
(* values, without a variable.                                              *)
Fits(st, tx, a, v, i, T, K, N) ==
    /\ a \subseteq T /\ StoredIn(K, v) = v
    /\ st \notin {"active", "trash"} => i = NoEntry /\ a = {} /\ v = NoValues
    /\ st \in {"active", "trash"} => i.tags = a /\ i.text = tx /\ StoredIn(K, i.values) = v
    /\ \A c \in N : i.values[c] = NoValue
Document(d) == Fits(status[d], text[d], assigned[d], values[d], index[d], tags, Known, NewFields)
Tables == Types /\ Catalog /\ \A d \in Docs : Document(d)

Wishes == [at : {"idle", "metadata", "fields", "trashing", "committed"},
           docs : SUBSET Docs, tags : SUBSET Names, vals : FieldValues]
AsksIn(N, q) == q \in Wishes /\ \A c \in N : q.vals[c] = NoValue
Asking == req \in [Requests -> Wishes] /\ \A r \in Requests : AsksIn(NewFields, req[r])

CountTypes ==
    /\ \A e \in Entries : IsAnswer(e[1], cache[e])
    /\ reader = [q \in Readers |-> [at |-> reader[q].at, what |-> reader[q].what,
                                   filter |-> reader[q].filter, answer |-> reader[q].answer]]
    /\ \A q \in Readers :
         /\ reader[q].at \in {"idle", "asked", "counted"}
         /\ reader[q].what \in {"count", "folders"} /\ reader[q].filter \in Filters
         /\ IsAnswer(reader[q].what, reader[q].answer)
Counts ==
    /\ CountTypes /\ CacheIsCurrent
    /\ \A q \in Readers :
         Pending \/ reader[q].at # "counted"
           \/ AnswerOf(reader[q].what, reader[q].filter, reader[q].answer)

RParts == Tables /\ Asking /\ Counts

LEMMA Parts == RInv <=> RParts
<1> DEFINE Row(d) == status[d] \in {"active", "trash"}
<1>1. Tables <=> /\ Types /\ Catalog
                 /\ IndexIsCurrent /\ \A d \in Docs : \A c \in NewFields : index[d].values[c] = NoValue
                 /\ \A d \in Docs : assigned[d] \subseteq tags /\ StoredValues(values[d]) = values[d]
                 /\ \A d \in Docs \ Rows : assigned[d] = {} /\ values[d] = NoValues
  BY DEF Tables, Document, Fits, IndexIsCurrent, Rows, StoredValues
<1>2. Asking <=> /\ req \in [Requests -> Wishes]
                 /\ \A r \in Requests : \A c \in NewFields : req[r].vals[c] = NoValue
  BY DEF Asking, AsksIn
<1>3. RInv => RParts
  <2> SUFFICES ASSUME RInv PROVE RParts
    OBVIOUS
  <2>1. Tables
    BY <1>1 DEF RInv, RecordsTypeOK, ReferencesHold, NewFieldsAreEmpty, Types, Catalog, NewFields
  <2>2. Asking
    BY <1>2 DEF RInv, RecordsTypeOK, NewFieldsAreEmpty, Wishes, NewFields
  <2> QED
    BY <2>1, <2>2 DEF RInv, RParts, RecordsTypeOK, Counts, CountTypes
<1>4. RParts => RInv
  <2> SUFFICES ASSUME RParts PROVE RInv
    OBVIOUS
  <2>1. RecordsTypeOK
    BY <1>1, <1>2 DEF RParts, RecordsTypeOK, Types, Catalog, Wishes, Counts, CountTypes
  <2>2. IndexIsCurrent /\ ReferencesHold
    BY <1>1 DEF RParts, ReferencesHold, Catalog
  <2>3. NewFieldsAreEmpty
    BY <1>1, <1>2 DEF RParts, NewFieldsAreEmpty, NewFields
  <2> QED
    BY <2>1, <2>2, <2>3 DEF RInv, RParts, Counts
<1> QED
  BY <1>3, <1>4

LEMMA PartsThen == RInv' <=> RParts'
  BY Parts, PTL

(* What is stored of values.                                                *)
LEMMA StoredTwice ==
  ASSUME NEW K, NEW v \in FieldValues
  PROVE  StoredIn(K, v) \in FieldValues /\ StoredIn(K, StoredIn(K, v)) = StoredIn(K, v)
  BY DEF StoredIn, FieldValues

LEMMA NothingStored ==
  /\ NoValues \in FieldValues
  /\ \A K : StoredIn(K, NoValues) = NoValues
  /\ \A c \in Fields : NoValues[c] = NoValue
  BY DEF StoredIn, FieldValues, NoValues

LEMMA StoredAt ==
  ASSUME NEW K, NEW v, NEW c \in Fields
  PROVE  StoredIn(K, v)[c] = IF c \in K THEN v[c] ELSE NoValue
  BY DEF StoredIn

(* A field more, or one less, that is empty.                                *)
LEMMA StoredMore ==
  ASSUME NEW K, NEW c \in Fields, NEW v, c \in K \/ v[c] = NoValue
  PROVE  StoredIn(K \cup {c}, v) = StoredIn(K, v)
  BY DEF StoredIn

LEMMA StoredLess ==
  ASSUME NEW K, NEW c \in Fields, NEW v, v[c] = NoValue
  PROVE  StoredIn(K \ {c}, v) = StoredIn(K, v)
  BY DEF StoredIn

LEMMA NewIsUnknown == NewFields \subseteq Fields /\ NewFields \cap Known = {}
  BY DEF NewFields, Known

LEMMA IdleAsks ==
  ASSUME NEW N, N \subseteq Fields
  PROVE  /\ AsksIn(N, NoRequest) /\ NoRequest.at = "idle"
         /\ AsksIn(N, [NoRequest EXCEPT !.at = "committed"])
         /\ [NoRequest EXCEPT !.at = "committed"].at = "committed"
  BY NothingStored DEF AsksIn, NoRequest, Wishes

-----------------------------------------------------------------------------
(* Requests and counts beside a change of the tables                        *)

(* While a request that changed something is on its way nothing is          *)
(* promised of the counts.                                                  *)
LEMMA CommittedCounts ==
  ASSUME RInv, NEW r \in Requests, Committed(r), UNCHANGED <<cache, reader>>
  PROVE  Counts' /\ changes' \in 0 .. MaxChanges
<1>0. Asking /\ Counts /\ Catalog
  BY Parts DEF RParts, Tables
<1>1. req'[r].at = "committed"
  BY <1>0 DEF Asking, Committed, NoRequest
<1>2. Pending'
  BY <1>1 DEF Pending
<1>3. CountTypes'
  BY <1>0 DEF Counts, CountTypes, IsAnswer, Entries, Key
<1>4. changes' \in 0 .. MaxChanges
  BY <1>0, RecordsAssumption DEF Catalog, Committed, Changed
<1> QED
  BY <1>2, <1>3, <1>4 DEF Counts, CacheIsCurrent

(* Requests that stay, and one that is set anew.                            *)
LEMMA AsksOn ==
  ASSUME Asking, NEW r \in Requests, NEW q, AsksIn(NewFields, q), NewFields' \subseteq NewFields,
         req' = [req EXCEPT ![r] = q]
  PROVE  Asking'
  BY DEF Asking, AsksIn

(* A request that has committed leaves what it has to.                      *)
LEMMA CommittedKeeps ==
  ASSUME RInv, NEW r \in Requests, Committed(r), UNCHANGED <<cache, reader>>,
         NewFields' \subseteq NewFields, changes' \in 0 .. MaxChanges => Tables'
  PROVE  RInv'
<1>0. Asking
  BY Parts DEF RParts
<1>1. Asking'
  BY <1>0, IdleAsks, NewIsUnknown, AsksOn DEF Committed
<1> QED
  BY <1>1, CommittedCounts, PartsThen DEF RParts

(* Steps that leave the tables of documents and fields alone.               *)
LEMMA SameAnswers ==
  ASSUME UNCHANGED <<documents, field>>, NEW what, NEW f
  PROVE  Answer(what, f)' = Answer(what, f)
  BY DEF documents, Answer, Listed, Found, HasValue, Folders, HavingValue, Selected

LEMMA SameCounts ==
  ASSUME RInv, UNCHANGED <<documents, field, cache, reader>>, Pending' <=> Pending
  PROVE  Counts'
<1>0. Counts
  BY Parts DEF RParts
<1>1. ASSUME NEW what, NEW f, NEW a, AnswerOf(what, f, a) PROVE AnswerOf(what, f, a)'
  BY <1>1, SameAnswers DEF AnswerOf, Key
<1>2. CacheIsCurrent'
  BY <1>0, <1>1 DEF Counts, CacheIsCurrent, Key
<1>3. CountTypes'
  BY <1>0 DEF Counts, CountTypes, IsAnswer, Entries, Key
<1> QED
  BY <1>0, <1>1, <1>2, <1>3 DEF Counts

LEMMA SameTables ==
  ASSUME Tables, UNCHANGED <<documents, catalog, changes>>
  PROVE  Tables'
  BY DEF documents, catalog, Tables, Types, Catalog, Document, Known, NewFields

(* A request reads, or gives up: nothing is changed but where it is.        *)
LEMMA Reads ==
  ASSUME RInv, NEW r \in Requests, NEW q, AsksIn(NewFields, q), req' = [req EXCEPT ![r] = q],
         UNCHANGED <<documents, catalog, cache, reader, changes>>,
         req[r].at # "committed", q.at # "committed"
  PROVE  RInv'
<1>0. Tables /\ Asking
  BY Parts DEF RParts
<1>1. Pending' <=> Pending
  BY <1>0 DEF Pending, Asking
<1>2. UNCHANGED <<field, NewFields>>
  BY DEF catalog, NewFields
<1>3. Asking'
  BY <1>0, <1>2, AsksOn
<1> QED
  BY <1>0, <1>1, <1>2, <1>3, SameCounts, SameTables, PartsThen DEF RParts

(* The tables when documents change and fields do not.                      *)
LEMMA Then ==
  ASSUME RInv, NEW r \in Requests, Committed(r), UNCHANGED <<field, cache, reader>>,
         Types', changes' \in 0 .. MaxChanges => Catalog',
         \A d \in Docs : Fits(status'[d], text'[d], assigned'[d], values'[d], index'[d], tags', Known, NewFields)
  PROVE  RInv'
<1>1. UNCHANGED <<Known, NewFields>>
  BY DEF Known, NewFields
<1>2. \A d \in Docs : Document(d)'
  BY <1>1 DEF Document
<1> QED
  BY <1>1, <1>2, CommittedKeeps DEF Tables

(* A document that is left alone fits with tags more.                       *)
LEMMA MoreTags ==
  ASSUME NEW st, NEW tx, NEW a, NEW v, NEW i, NEW T, NEW U, NEW K, NEW N,
         Fits(st, tx, a, v, i, T, K, N), T \subseteq U
  PROVE  Fits(st, tx, a, v, i, U, K, N)
  BY DEF Fits

(* A row whose entry is written anew from its tables.                       *)
LEMMA Reindexed ==
  ASSUME NEW st, NEW tx, NEW a, NEW v \in FieldValues, NEW T, NEW K, NEW N, st \in {"active", "trash"},
         a \subseteq T, StoredIn(K, v) = v, N \subseteq Fields, N \cap K = {}
  PROVE  Fits(st, tx, a, v, Entry(a, v, tx), T, K, N)
<1>1. \A c \in N : v[c] = NoValue
  BY StoredAt
<1> QED
  BY <1>1 DEF Fits, Entry

-----------------------------------------------------------------------------
(* Changes of documents                                                     *)

LEMMA CreateDocumentKeeps ==
  ASSUME RInv, NEW r \in Requests, NEW d \in Docs, NEW T \in TagSets, NEW t \in SUBSET Words,
         CreateDocument(r, d, T, t)
  PROVE  RInv'
<1>0. Types /\ Catalog /\ \A x \in Docs : Document(x)
  BY Parts DEF RParts, Tables
<1>1. T \subseteq Names /\ AutoTags(d, t) \subseteq tags
  BY RecordsAssumption DEF AutoTags
<1>2. /\ status' = [status EXCEPT ![d] = "active"] /\ text' = [text EXCEPT ![d] = t]
      /\ assigned' = [assigned EXCEPT ![d] = T \cup AutoTags(d, t)] /\ values' = values
      /\ index' = [x \in Docs |-> IF x \in {d} THEN Entry(assigned'[x], values'[x], text'[x]) ELSE index[x]]
      /\ tags' = tags \cup T /\ UNCHANGED <<protected, rules, favorite, field>> /\ status[d] = "new"
  BY DEF CreateDocument, Reindex
<1>3. Types'
  BY <1>0, <1>1, <1>2 DEF Types, Catalog, Entry
<1>4. ASSUME changes' \in 0 .. MaxChanges PROVE Catalog'
  BY <1>0, <1>1, <1>2, <1>4 DEF Catalog
<1>5. ASSUME NEW x \in Docs
      PROVE  Fits(status'[x], text'[x], assigned'[x], values'[x], index'[x], tags', Known, NewFields)
  <2>1. CASE x = d
    <3>1. values[d] = NoValues
      BY <1>0, <1>2 DEF Document, Fits
    <3>2. /\ status'[d] = "active" /\ values'[d] = NoValues /\ assigned'[d] \subseteq tags'
          /\ index'[d] = Entry(assigned'[d], values'[d], text'[d])
      BY <1>0, <1>1, <1>2, <3>1 DEF Types
    <3> QED
      BY <2>1, <3>2, NothingStored, NewIsUnknown, Reindexed
  <2>2. CASE x # d
    <3>1. /\ status'[x] = status[x] /\ text'[x] = text[x] /\ assigned'[x] = assigned[x]
          /\ values'[x] = values[x] /\ index'[x] = index[x] /\ tags \subseteq tags'
      BY <2>2, <1>0, <1>2 DEF Types
    <3> QED
      BY <1>0, <3>1, MoreTags DEF Document
  <2> QED
    BY <2>1, <2>2
<1>6. Committed(r) /\ UNCHANGED <<cache, reader>>
  BY DEF CreateDocument
<1> QED
  BY <1>2, <1>3, <1>4, <1>5, <1>6, Then

LEMMA UpdateSearchTextKeeps ==
  ASSUME RInv, NEW r \in Requests, NEW d \in Docs, NEW t \in SUBSET Words, UpdateSearchText(r, d, t)
  PROVE  RInv'
<1>0. Types /\ Catalog /\ \A x \in Docs : Document(x)
  BY Parts DEF RParts, Tables
<1>1. /\ text' = [text EXCEPT ![d] = t] /\ UNCHANGED <<status, assigned, values, catalog>> /\ status[d] \in {"active", "trash"}
      /\ index' = [x \in Docs |-> IF x \in {d} THEN Entry(assigned'[x], values'[x], text'[x]) ELSE index[x]]
  BY DEF UpdateSearchText, Reindex, Rows
<1>2. Types'
  BY <1>0, <1>1 DEF Types, Entry
<1>3. ASSUME changes' \in 0 .. MaxChanges PROVE Catalog'
  BY <1>0, <1>1, <1>3 DEF Catalog, catalog
<1>4. ASSUME NEW x \in Docs
      PROVE  Fits(status'[x], text'[x], assigned'[x], values'[x], index'[x], tags', Known, NewFields)
  <2>1. CASE x = d
    <3>1. assigned[x] \subseteq tags /\ StoredIn(Known, values[x]) = values[x]
      BY <1>0 DEF Document, Fits
    <3>2. /\ status'[x] \in {"active", "trash"} /\ values'[x] = values[x] /\ values[x] \in FieldValues
          /\ assigned'[x] = assigned[x] /\ tags' = tags /\ index'[x] = Entry(assigned'[x], values'[x], text'[x])
      BY <2>1, <1>0, <1>1 DEF Types, catalog
    <3> QED
      BY <3>1, <3>2, NewIsUnknown, Reindexed
  <2>2. CASE x # d
    BY <2>2, <1>0, <1>1 DEF Types, Document, catalog
  <2> QED
    BY <2>1, <2>2
<1>5. Committed(r) /\ UNCHANGED <<cache, reader, field>>
  BY DEF UpdateSearchText, catalog
<1> QED
  BY <1>2, <1>3, <1>4, <1>5, Then

LEMMA UpdateMetadataKeeps ==
  ASSUME RInv, NEW r \in Requests, UpdateMetadata(r)
  PROVE  RInv'
<1> DEFINE q == req[r]
<1>0. Types /\ Catalog /\ (\A x \in Docs : Document(x)) /\ AsksIn(NewFields, q)
  BY Parts DEF RParts, Tables, Asking
<1>1. CASE GivesUp(r)
  <2>2. req[r].at = "metadata"
    BY DEF UpdateMetadata
  <2> QED
    BY <1>1, <2>2, IdleAsks, NewIsUnknown, Reads DEF GivesUp
<1>2. CASE ~GivesUp(r)
  <2>1. PICK d \in q.docs :
          /\ status[d] \in {"active", "trash"} /\ d \in Docs
          /\ assigned' = [assigned EXCEPT ![d] = q.tags]
          /\ values' = [values EXCEPT ![d] = StoredIn(Known, q.vals)]
          /\ index' = [index EXCEPT ![d] = Entry(q.tags, q.vals, text[d])]
          /\ tags' = tags \cup q.tags
          /\ Committed(r)
          /\ UNCHANGED <<status, text, protected, rules, favorite, field, cache, reader>>
    BY <1>2 DEF UpdateMetadata, StoredValues, Rows
  <2>2. q.tags \subseteq Names /\ q.vals \in FieldValues /\ \A c \in NewFields : q.vals[c] = NoValue
    BY <1>0 DEF Wishes, AsksIn
  <2>3. StoredIn(Known, q.vals) \in FieldValues /\ StoredIn(Known, StoredIn(Known, q.vals)) = StoredIn(Known, q.vals)
    BY <2>2, StoredTwice
  <2>4. Types'
    BY <1>0, <2>1, <2>2, <2>3 DEF Types, Entry
  <2>5. ASSUME changes' \in 0 .. MaxChanges PROVE Catalog'
    BY <1>0, <2>1, <2>2, <2>5 DEF Catalog
  <2>6. ASSUME NEW x \in Docs
        PROVE  Fits(status'[x], text'[x], assigned'[x], values'[x], index'[x], tags', Known, NewFields)
    <3>1. CASE x = d
      <4>1. /\ status'[x] = status[x] /\ assigned'[x] = q.tags /\ values'[x] = StoredIn(Known, q.vals)
            /\ index'[x] = Entry(q.tags, q.vals, text'[x]) /\ q.tags \subseteq tags'
        BY <1>0, <2>1, <3>1 DEF Types
      <4> QED
        BY <2>1, <2>2, <2>3, <3>1, <4>1 DEF Fits, Entry
    <3>2. CASE x # d
      <4>1. /\ status'[x] = status[x] /\ text'[x] = text[x] /\ assigned'[x] = assigned[x]
            /\ values'[x] = values[x] /\ index'[x] = index[x] /\ tags \subseteq tags'
        BY <3>2, <1>0, <2>1 DEF Types
      <4> QED
        BY <1>0, <4>1, MoreTags DEF Document
    <3> QED
      BY <3>1, <3>2
  <2> QED
    BY <2>1, <2>4, <2>5, <2>6, Then
<1> QED
  BY <1>1, <1>2

LEMMA SetCustomValuesKeeps ==
  ASSUME RInv, NEW r \in Requests, SetCustomValues(r)
  PROVE  RInv'
<1> DEFINE q == req[r]
           D == ActiveOf(q.docs)
           m(x) == Merged(x, q.vals)
<1>0. Types /\ Catalog /\ (\A x \in Docs : Document(x)) /\ AsksIn(NewFields, q)
  BY Parts DEF RParts, Tables, Asking
<1>1. /\ values' = [x \in Docs |-> IF x \in D THEN StoredIn(Known, m(x)) ELSE values[x]]
      /\ index' = [x \in Docs |-> IF x \in D THEN Entry(assigned[x], m(x), text[x]) ELSE index[x]]
      /\ Committed(r) /\ UNCHANGED <<status, text, assigned, catalog, cache, reader, field>>
  BY DEF SetCustomValues, catalog, StoredValues
<1>2. \A x \in Docs : m(x) \in FieldValues
  BY <1>0 DEF Merged, FieldValues, Types, Wishes, AsksIn
<1>3. \A x \in Docs : StoredIn(Known, m(x)) \in FieldValues /\ StoredIn(Known, StoredIn(Known, m(x))) = StoredIn(Known, m(x))
  BY <1>2, StoredTwice
<1>4. Types'
  BY <1>0, <1>1, <1>2, <1>3 DEF Types, Entry
<1>5. ASSUME changes' \in 0 .. MaxChanges PROVE Catalog'
  BY <1>0, <1>1, <1>5 DEF Catalog, catalog
<1>6. ASSUME NEW x \in Docs
      PROVE  Fits(status'[x], text'[x], assigned'[x], values'[x], index'[x], tags', Known, NewFields)
  <2>1. CASE x \in D
    <3>1. /\ values'[x] = StoredIn(Known, m(x)) /\ index'[x] = Entry(assigned[x], m(x), text[x])
          /\ status'[x] = "active" /\ assigned'[x] = assigned[x] /\ text'[x] = text[x] /\ tags' = tags
      BY <2>1, <1>1 DEF ActiveOf, catalog
    <3>2. assigned[x] \subseteq tags /\ \A c \in NewFields : values[x][c] = NoValue
      BY <1>0, StoredAt, NewIsUnknown DEF Document, Fits
    <3>3. \A c \in NewFields : m(x)[c] = NoValue
      BY <3>2, <1>0, NewIsUnknown DEF Merged, AsksIn
    <3> HIDE DEF m
    <3> QED
      BY <1>3, <3>1, <3>2, <3>3 DEF Fits, Entry
  <2>2. CASE x \notin D
    BY <2>2, <1>0, <1>1 DEF Document, catalog
  <2> QED
    BY <2>1, <2>2
<1> QED
  BY <1>1, <1>4, <1>5, <1>6, Then

LEMMA AddTagsKeeps ==
  ASSUME RInv, NEW r \in Requests, NEW D \in SUBSET Docs, NEW T \in TagSets, AddTags(r, D, T)
  PROVE  RInv'
<1>0. Types /\ Catalog /\ \A x \in Docs : Document(x)
  BY Parts DEF RParts, Tables
<1>1. /\ assigned' = [x \in Docs |-> IF x \in ActiveOf(D) THEN assigned[x] \cup T ELSE assigned[x]]
      /\ index' = [x \in Docs |-> IF x \in ActiveOf(D) THEN [index[x] EXCEPT !.tags = assigned'[x]] ELSE index[x]]
      /\ tags' = tags \cup T /\ T \subseteq Names
      /\ UNCHANGED <<status, text, values, protected, rules, favorite, field, cache, reader>> /\ Committed(r)
  BY RecordsAssumption DEF AddTags
<1>2. Types'
  BY <1>0, <1>1 DEF Types
<1>3. ASSUME changes' \in 0 .. MaxChanges PROVE Catalog'
  BY <1>0, <1>1, <1>3 DEF Catalog
<1>4. ASSUME NEW x \in Docs
      PROVE  Fits(status'[x], text'[x], assigned'[x], values'[x], index'[x], tags', Known, NewFields)
  <2>0. /\ status'[x] = status[x] /\ text'[x] = text[x] /\ values'[x] = values[x]
        /\ tags \subseteq tags' /\ T \subseteq tags'
    BY <1>1
  <2>1. CASE x \in ActiveOf(D)
    <3>1. status[x] = "active" /\ assigned'[x] = assigned[x] \cup T /\ index'[x] = [index[x] EXCEPT !.tags = assigned'[x]]
      BY <2>1, <1>1 DEF ActiveOf
    <3>2. index'[x].tags = assigned'[x] /\ index'[x].values = index[x].values /\ index'[x].text = index[x].text
      BY <3>1, <1>0 DEF Types
    <3> QED
      BY <2>0, <3>1, <3>2, <1>0 DEF Document, Fits
  <2>2. CASE x \notin ActiveOf(D)
    <3>1. assigned'[x] = assigned[x] /\ index'[x] = index[x]
      BY <2>2, <1>1
    <3> QED
      BY <2>0, <3>1, <1>0, MoreTags DEF Document
  <2> QED
    BY <2>1, <2>2
<1> QED
  BY <1>1, <1>2, <1>3, <1>4, Then

LEMMA RemoveTagsKeeps ==
  ASSUME RInv, NEW r \in Requests, NEW D \in SUBSET Docs, NEW T \in TagSets, RemoveTags(r, D, T)
  PROVE  RInv'
<1>0. Types /\ Catalog /\ \A x \in Docs : Document(x)
  BY Parts DEF RParts, Tables
<1>1. /\ assigned' = [x \in Docs |-> IF x \in ActiveOf(D) THEN assigned[x] \ T ELSE assigned[x]]
      /\ index' = [x \in Docs |-> IF x \in ActiveOf(D) THEN [index[x] EXCEPT !.tags = assigned'[x]] ELSE index[x]]
      /\ UNCHANGED <<status, text, values, catalog, field, cache, reader>> /\ Committed(r)
  BY DEF RemoveTags, catalog
<1>2. Types'
  BY <1>0, <1>1 DEF Types
<1>3. ASSUME changes' \in 0 .. MaxChanges PROVE Catalog'
  BY <1>0, <1>1, <1>3 DEF Catalog, catalog
<1>4. ASSUME NEW x \in Docs
      PROVE  Fits(status'[x], text'[x], assigned'[x], values'[x], index'[x], tags', Known, NewFields)
  <2>0. status'[x] = status[x] /\ text'[x] = text[x] /\ values'[x] = values[x] /\ tags' = tags
    BY <1>1 DEF catalog
  <2>1. CASE x \in ActiveOf(D)
    <3>1. status[x] = "active" /\ assigned'[x] = assigned[x] \ T /\ index'[x] = [index[x] EXCEPT !.tags = assigned'[x]]
      BY <2>1, <1>1 DEF ActiveOf
    <3>2. index'[x].tags = assigned'[x] /\ index'[x].values = index[x].values /\ index'[x].text = index[x].text
      BY <3>1, <1>0 DEF Types
    <3> QED
      BY <2>0, <3>1, <3>2, <1>0 DEF Document, Fits
  <2>2. CASE x \notin ActiveOf(D)
    BY <2>0, <2>2, <1>0, <1>1 DEF Document
  <2> QED
    BY <2>1, <2>2
<1> QED
  BY <1>1, <1>2, <1>3, <1>4, Then

(* Into the trash and out of it: the row stays a row.                       *)
LEMMA MovedKeeps ==
  ASSUME RInv, NEW r \in Requests, NEW d \in Docs, NEW s \in {"active", "trash"},
         status[d] \in {"active", "trash"}, status' = [status EXCEPT ![d] = s],
         Committed(r), UNCHANGED <<text, assigned, values, index, catalog, cache, reader>>
  PROVE  RInv'
<1>0. Types /\ Catalog /\ \A x \in Docs : Document(x)
  BY Parts DEF RParts, Tables
<1>1. Types' /\ UNCHANGED <<field, tags>>
  BY <1>0 DEF Types, catalog
<1>2. ASSUME changes' \in 0 .. MaxChanges PROVE Catalog'
  BY <1>0, <1>2 DEF Catalog, catalog
<1>3. ASSUME NEW x \in Docs
      PROVE  Fits(status'[x], text'[x], assigned'[x], values'[x], index'[x], tags', Known, NewFields)
  <2>1. status[x] \in {"active", "trash"} <=> status'[x] \in {"active", "trash"}
    BY <1>0 DEF Types
  <2> QED
    BY <2>1, <1>0, <1>1 DEF Document, Fits
<1> QED
  BY <1>1, <1>2, <1>3, Then

LEMMA RecordSoftDeleteKeeps ==
  ASSUME RInv, NEW r \in Requests, SoftDeleteRecord(r)
  PROVE  RInv'
<1>0. Types /\ AsksIn(NewFields, req[r])
  BY Parts DEF RParts, Tables, Asking
<1>1. CASE GivesUp(r)
  <2>1. req[r].at = "trashing"
    BY DEF SoftDeleteRecord
  <2> QED
    BY <1>1, <2>1, IdleAsks, NewIsUnknown, Reads DEF GivesUp
<1>2. CASE ~GivesUp(r)
  <2>1. PICK d \in req[r].docs :
          /\ d \in Active /\ status' = [status EXCEPT ![d] = "trash"] /\ Committed(r)
          /\ UNCHANGED <<text, assigned, values, index, catalog, cache, reader>>
    BY <1>2 DEF SoftDeleteRecord
  <2>2. d \in Docs /\ status[d] \in {"active", "trash"}
    BY <2>1 DEF Active
  <2> QED
    BY <2>1, <2>2, MovedKeeps
<1> QED
  BY <1>1, <1>2

LEMMA RecordRestoreKeeps ==
  ASSUME RInv, NEW r \in Requests, NEW d \in Docs, RestoreRecord(r, d)
  PROVE  RInv'
  BY MovedKeeps DEF RestoreRecord

LEMMA RemoveKeeps ==
  ASSUME RInv, NEW r \in Requests, NEW D \in SUBSET Docs, Remove(D),
         Committed(r), UNCHANGED <<catalog, cache, reader>>
  PROVE  RInv'
<1>0. Types /\ Catalog /\ \A x \in Docs : Document(x)
  BY Parts DEF RParts, Tables
<1>1. NoEntry \in [tags : SUBSET Names, values : FieldValues, text : SUBSET Words] /\ NoEntry.values = NoValues
  BY NothingStored DEF NoEntry, Entry
<1>2. Types'
  BY <1>0, <1>1, NothingStored DEF Types, Remove
<1>3. ASSUME changes' \in 0 .. MaxChanges PROVE Catalog'
  BY <1>0, <1>3 DEF Catalog, catalog
<1>4. ASSUME NEW x \in Docs
      PROVE  Fits(status'[x], text'[x], assigned'[x], values'[x], index'[x], tags', Known, NewFields)
  <2>1. CASE x \in D
    <3>1. status'[x] = "purged" /\ assigned'[x] = {} /\ values'[x] = NoValues /\ index'[x] = NoEntry
      BY <2>1 DEF Remove
    <3> QED
      BY <3>1, <1>1, NothingStored, NewIsUnknown DEF Fits
  <2>2. CASE x \notin D
    BY <2>2, <1>0 DEF Document, Remove, catalog
  <2> QED
    BY <2>1, <2>2
<1> QED
  BY <1>2, <1>3, <1>4, Then DEF catalog

LEMMA RecordPurgeKeeps ==
  ASSUME RInv, NEW r \in Requests, NEW d \in Docs, PurgeRecord(r, d)
  PROVE  RInv'
<1>1. {d} \in SUBSET Docs
  OBVIOUS
<1> QED
  BY <1>1, RemoveKeeps DEF PurgeRecord

LEMMA PurgeTrashKeeps ==
  ASSUME RInv, NEW r \in Requests, NEW D \in SUBSET Docs, PurgeTrash(r, D)
  PROVE  RInv'
  BY RemoveKeeps DEF PurgeTrash

-----------------------------------------------------------------------------
(* Tags, rules, saved searches and fields                                   *)

(* Documents whose assignments change lose or change one tag; they are      *)
(* indexed again, and only rows have tags.                                  *)
LEMMA TagKeeps ==
  ASSUME RInv, NEW r \in Requests, NEW n \in Names, NEW A, A \in [Docs -> SUBSET Names],
         assigned' = A, Reindex({d \in Docs : A[d] # assigned[d]}),
         \A d \in Docs : A[d] # assigned[d] => n \in assigned[d],
         \A d \in Docs : A[d] \subseteq tags',
         UNCHANGED <<status, text, values, field, cache, reader>>, Committed(r),
         changes' \in 0 .. MaxChanges => Catalog'
  PROVE  RInv'
<1>0. Types /\ \A x \in Docs : Document(x)
  BY Parts DEF RParts, Tables
<1>1. index' = [x \in Docs |-> IF A[x] # assigned[x] THEN Entry(A[x], values[x], text[x]) ELSE index[x]]
  BY DEF Reindex
<1>2. Types'
  BY <1>0, <1>1 DEF Types, Entry
<1>3. ASSUME NEW x \in Docs
      PROVE  Fits(status'[x], text'[x], assigned'[x], values'[x], index'[x], tags', Known, NewFields)
  <2>1. CASE A[x] # assigned[x]
    <3>1. n \in assigned[x]
      BY <2>1
    <3>2. status[x] \in {"active", "trash"} /\ StoredIn(Known, values[x]) = values[x]
      BY <3>1, <1>0 DEF Document, Fits
    <3>3. values[x] \in FieldValues
      BY <1>0 DEF Types
    <3> QED
      BY <1>1, <2>1, <3>2, <3>3, NewIsUnknown, Reindexed
  <2>2. CASE A[x] = assigned[x]
    BY <2>2, <1>0, <1>1 DEF Document, Fits
  <2> QED
    BY <2>1, <2>2
<1> QED
  BY <1>2, <1>3, Then

LEMMA RenameTagKeeps ==
  ASSUME RInv, NEW r \in Requests, NEW n \in Names, NEW m \in Names, NEW p \in BOOLEAN, RenameTag(r, n, m, p)
  PROVE  RInv'
<1> DEFINE A == [d \in Docs |-> Renamed(assigned[d], n, m)]
<1>0. Types /\ Catalog /\ \A x \in Docs : Document(x)
  BY Parts DEF RParts, Tables
<1>1. \A d \in Docs : assigned[d] \subseteq tags
  BY <1>0 DEF Document, Fits
<1>2. /\ n \in tags /\ (m # n => m \notin tags) /\ tags' = (tags \ {n}) \cup {m}
      /\ protected' \subseteq (protected \ {n}) \cup {m} /\ favorite' \subseteq favorite \cup {m}
      /\ rules' = [x \in Names |-> IF x = m THEN rules[n] ELSE IF x = n THEN {} ELSE rules[x]]
      /\ assigned' = A /\ UNCHANGED <<status, text, values, field, cache, reader>> /\ Committed(r)
  BY DEF RenameTag, Renamed, Mark
<1>3. A \in [Docs -> SUBSET Names]
  BY <1>0 DEF Types, Renamed
<1>4. \A d \in Docs : A[d] \subseteq tags' /\ (A[d] # assigned[d] <=> m # n /\ n \in assigned[d])
  BY <1>1, <1>2 DEF Renamed
<1>5. Reindex({d \in Docs : A[d] # assigned[d]})
  <2>1. {d \in Docs : A[d] # assigned[d]} = {d \in Docs : m # n /\ n \in assigned[d]}
    BY <1>4
  <2> QED
    BY <2>1 DEF RenameTag
<1>6. ASSUME changes' \in 0 .. MaxChanges PROVE Catalog'
  BY <1>0, <1>2, <1>6 DEF Catalog
<1> HIDE DEF A
<1> QED
  BY <1>2, <1>3, <1>4, <1>5, <1>6, TagKeeps

LEMMA DeleteTagKeeps ==
  ASSUME RInv, NEW r \in Requests, NEW n \in Names, DeleteTag(r, n)
  PROVE  RInv'
<1> DEFINE A == [d \in Docs |-> assigned[d] \ {n}]
<1>0. Types /\ Catalog /\ \A x \in Docs : Document(x)
  BY Parts DEF RParts, Tables
<1>1. \A d \in Docs : assigned[d] \subseteq tags
  BY <1>0 DEF Document, Fits
<1>2. /\ tags' = tags \ {n} /\ protected' = protected \ {n} /\ rules' = [rules EXCEPT ![n] = {}]
      /\ assigned' = A /\ UNCHANGED <<status, text, values, favorite, field, cache, reader>> /\ Committed(r)
  BY DEF DeleteTag
<1>3. A \in [Docs -> SUBSET Names]
  BY <1>0 DEF Types
<1>4. \A d \in Docs : A[d] \subseteq tags' /\ (A[d] # assigned[d] <=> n \in assigned[d])
  BY <1>1, <1>2
<1>5. Reindex({d \in Docs : A[d] # assigned[d]})
  <2>1. {d \in Docs : A[d] # assigned[d]} = {d \in Docs : n \in assigned[d]}
    BY <1>4
  <2> QED
    BY <2>1 DEF DeleteTag
<1>6. ASSUME changes' \in 0 .. MaxChanges PROVE Catalog'
  BY <1>0, <1>2, <1>6 DEF Catalog
<1> HIDE DEF A
<1> QED
  BY <1>2, <1>3, <1>4, <1>5, <1>6, TagKeeps

LEMMA RenameValueKeeps ==
  ASSUME RInv, NEW r \in Requests, NEW c \in Fields, NEW v \in Values, NEW w \in Values, RenameValue(r, c, v, w)
  PROVE  RInv'
<1> DEFINE D == {d \in Active : values[d][c] = v}
<1>0. Types /\ Catalog /\ \A x \in Docs : Document(x)
  BY Parts DEF RParts, Tables
<1>1. /\ c \in Known /\ UNCHANGED <<status, text, assigned, catalog, field, tags, cache, reader>> /\ Committed(r)
      /\ values' = [d \in Docs |-> IF d \in D THEN [values[d] EXCEPT ![c] = w] ELSE values[d]]
      /\ index' = [d \in Docs |-> IF d \in D THEN Entry(assigned[d], values'[d], text[d]) ELSE index[d]]
  BY DEF RenameValue, Reindex, catalog
<1>2. \A d \in Docs : [values[d] EXCEPT ![c] = w] \in FieldValues
  BY <1>0 DEF Types, FieldValues
<1>3. Types'
  BY <1>0, <1>1, <1>2 DEF Types, Entry
<1>4. ASSUME changes' \in 0 .. MaxChanges PROVE Catalog'
  BY <1>0, <1>1, <1>4 DEF Catalog, catalog
<1>5. ASSUME NEW x \in Docs
      PROVE  Fits(status'[x], text'[x], assigned'[x], values'[x], index'[x], tags', Known, NewFields)
  <2>1. CASE x \in D
    <3>1. status[x] = "active" /\ values'[x] = [values[x] EXCEPT ![c] = w] /\ index'[x] = Entry(assigned[x], values'[x], text[x])
      BY <2>1, <1>1 DEF Active
    <3>2. assigned[x] \subseteq tags /\ StoredIn(Known, values[x]) = values[x]
      BY <1>0 DEF Document, Fits
    <3>3. StoredIn(Known, [values[x] EXCEPT ![c] = w]) = [values[x] EXCEPT ![c] = w]
      BY <1>0, <1>1, <3>2 DEF StoredIn, Types, FieldValues
    <3> QED
      BY <1>1, <1>2, <3>1, <3>2, <3>3, NewIsUnknown, Reindexed
  <2>2. CASE x \notin D
    BY <2>2, <1>0, <1>1 DEF Document
  <2> QED
    BY <2>1, <2>2
<1> QED
  BY <1>1, <1>3, <1>4, <1>5, Then

LEMMA SaveFieldKeeps ==
  ASSUME RInv, NEW r \in Requests, NEW c \in Fields, NEW s \in {"plain", "folder"}, SaveField(r, c, s)
  PROVE  RInv'
<1>0. Types /\ Catalog /\ \A x \in Docs : Document(x)
  BY Parts DEF RParts, Tables
<1>1. /\ field[c] # "deleted" /\ field' = [field EXCEPT ![c] = s] /\ Committed(r)
      /\ UNCHANGED <<status, text, assigned, values, index, tags, protected, rules, favorite, cache, reader>>
  BY DEF SaveField, documents
<1>2. Known' = Known \cup {c} /\ NewFields' = NewFields \ {c} /\ (c \in Known \/ c \in NewFields)
  BY <1>0, <1>1 DEF Known, NewFields, Catalog
<1>3. Types'
  BY <1>0, <1>1 DEF Types
<1>4. ASSUME changes' \in 0 .. MaxChanges PROVE Catalog'
  BY <1>0, <1>1, <1>4 DEF Catalog
<1>5. ASSUME NEW x \in Docs PROVE Document(x)'
  <2>1. Fits(status[x], text[x], assigned[x], values[x], index[x], tags, Known, NewFields)
    BY <1>0 DEF Document
  <2>2. c \in Known \/ (values[x][c] = NoValue /\ index[x].values[c] = NoValue)
    BY <2>1, <1>2, StoredAt, NewIsUnknown DEF Fits
  <2>3. /\ StoredIn(Known \cup {c}, values[x]) = StoredIn(Known, values[x])
        /\ StoredIn(Known \cup {c}, index[x].values) = StoredIn(Known, index[x].values)
    BY <2>2, StoredMore
  <2>4. Fits(status[x], text[x], assigned[x], values[x], index[x], tags, Known \cup {c}, NewFields \ {c})
    BY <2>1, <2>3 DEF Fits
  <2> QED
    BY <2>4, <1>1, <1>2 DEF Document
<1> QED
  BY <1>1, <1>2, <1>3, <1>4, <1>5, CommittedKeeps DEF Tables

LEMMA DeleteFieldKeeps ==
  ASSUME RInv, NEW r \in Requests, NEW c \in Fields, DeleteField(r, c)
  PROVE  RInv'
<1> DEFINE w(x) == [values[x] EXCEPT ![c] = NoValue]
<1>0. Types /\ Catalog /\ \A x \in Docs : Document(x)
  BY Parts DEF RParts, Tables
<1>1. /\ c \in Known /\ field' = [field EXCEPT ![c] = "deleted"] /\ Committed(r)
      /\ values' = [x \in Docs |-> w(x)]
      /\ index' = [x \in Docs |-> IF values[x][c] # NoValue THEN Entry(assigned[x], w(x), text[x]) ELSE index[x]]
      /\ UNCHANGED <<status, text, assigned, tags, protected, rules, favorite, cache, reader>>
  BY DEF DeleteField, Reindex
<1>2. Known' = Known \ {c} /\ NewFields' = NewFields
  BY <1>0, <1>1 DEF Known, NewFields, Catalog
<1>3. \A x \in Docs : w(x) \in FieldValues
  BY <1>0 DEF Types, FieldValues
<1>4. Types'
  BY <1>0, <1>1, <1>3 DEF Types, Entry
<1>5. ASSUME changes' \in 0 .. MaxChanges PROVE Catalog'
  BY <1>0, <1>1, <1>5 DEF Catalog
<1>6. ASSUME NEW x \in Docs PROVE Document(x)'
  <2>1. Fits(status[x], text[x], assigned[x], values[x], index[x], tags, Known, NewFields)
    BY <1>0 DEF Document
  <2>2. values[x] \in FieldValues
    BY <1>0 DEF Types
  <2>3. StoredIn(Known \ {c}, w(x)) = w(x)
    BY <2>1, <2>2 DEF Fits, StoredIn, FieldValues
  <2>4. CASE values[x][c] # NoValue
    <3>1. status[x] \in {"active", "trash"}
      BY <2>1, <2>4, NothingStored DEF Fits
    <3>2. Fits(status[x], text[x], assigned[x], w(x), Entry(assigned[x], w(x), text[x]), tags, Known \ {c}, NewFields)
      <4>1. assigned[x] \subseteq tags /\ NewFields \subseteq Fields /\ NewFields \cap (Known \ {c}) = {}
        BY <2>1, NewIsUnknown DEF Fits
      <4>2. w(x) \in FieldValues
        BY <1>3
      <4> HIDE DEF w
      <4> QED
        BY <2>3, <3>1, <4>1, <4>2, Reindexed
    <3> QED
      BY <1>1, <1>2, <2>4, <3>2 DEF Document
  <2>5. CASE values[x][c] = NoValue
    <3>1. w(x) = values[x]
      BY <2>2, <2>5 DEF FieldValues
    <3>2. status[x] \in {"active", "trash"} => index[x].values[c] = NoValue
      BY <1>1, <2>1, <2>5, StoredAt DEF Fits
    <3>3. status[x] \in {"active", "trash"} => StoredIn(Known \ {c}, index[x].values) = StoredIn(Known, index[x].values)
      BY <3>2, StoredLess
    <3>4. Fits(status[x], text[x], assigned[x], values[x], index[x], tags, Known \ {c}, NewFields)
      BY <2>1, <2>3, <3>1, <3>3 DEF Fits
    <3> QED
      BY <1>1, <1>2, <2>5, <3>1, <3>4 DEF Document
  <2> QED
    BY <2>4, <2>5
<1> QED
  BY <1>1, <1>2, <1>4, <1>5, <1>6, CommittedKeeps DEF Tables

(* What does not invalidate: no count depends on it.                        *)
LEMMA SettingsKeep ==
  ASSUME RInv, Settings
  PROVE  RInv'
<1>0. Types /\ Catalog /\ (\A x \in Docs : Document(x)) /\ Asking
  BY Parts DEF RParts, Tables
<1>1. /\ UNCHANGED <<documents, field, cache, req, reader>> /\ changes' \in 0 .. MaxChanges
      /\ tags \subseteq tags' /\ tags' \subseteq Names /\ favorite' \subseteq Names
      /\ protected' \subseteq tags'
      /\ rules' \in [Names -> SUBSET Rules] /\ \A n \in Names \ tags' : rules'[n] = {}
  <2>0. Changed => changes' \in 0 .. MaxChanges
    BY <1>0, RecordsAssumption DEF Catalog, Changed
  <2>1. CASE \E n \in Names, p \in BOOLEAN : SaveTag(n, p)
    BY <1>0, <2>0, <2>1 DEF SaveTag, Catalog, Mark
  <2>2. CASE \E n \in Names, R \in SUBSET Rules : SaveTagRules(n, R)
    BY <1>0, <2>0, <2>2 DEF SaveTagRules, Catalog
  <2>3. CASE \E T \in TagSets : SaveFavorite(T)
    BY <1>0, <2>0, <2>3, RecordsAssumption DEF SaveFavorite, Catalog
  <2> QED
    BY <2>1, <2>2, <2>3 DEF Settings
<1>2. Pending' <=> Pending
  BY <1>1 DEF Pending
<1>3. UNCHANGED <<Known, NewFields, status, text, assigned, values, index>>
  BY <1>1 DEF Known, NewFields, documents
<1>4. Types'
  BY <1>0, <1>3 DEF Types
<1>5. Catalog'
  BY <1>0, <1>1 DEF Catalog
<1>6. ASSUME NEW x \in Docs PROVE Document(x)'
  <2>1. Fits(status[x], text[x], assigned[x], values[x], index[x], tags', Known, NewFields)
    BY <1>0, <1>1, MoreTags DEF Document
  <2> QED
    BY <2>1, <1>3 DEF Document
<1>7. Asking'
  BY <1>0, <1>1, <1>3 DEF Asking
<1> QED
  BY <1>1, <1>2, <1>4, <1>5, <1>6, <1>7, SameCounts, PartsThen DEF RParts, Tables

-----------------------------------------------------------------------------
(* Counts                                                                   *)

LEMMA AnswerIsAnswer ==
  ASSUME NEW what \in {"count", "folders"}, NEW f
  PROVE  IsAnswer(what, Answer(what, f))
<1>1. \A S \in SUBSET Docs : Cardinality(S) \in Nat
  BY RecordsAssumption, FS_Subset, FS_CardinalityType
<1>2. Listed(f) \subseteq Docs /\ \A c, v : HavingValue(f, c, v) \subseteq Docs
  BY DEF Listed, HavingValue
<1>3. Folders(f) \subseteq Fields \X Values \X Nat
  BY <1>1, <1>2 DEF Folders
<1> QED
  BY <1>1, <1>2, <1>3 DEF Answer, IsAnswer

LEMMA NotReadingType ==
  /\ NotReading.at = "idle" /\ NotReading.what \in {"count", "folders"} /\ NotReading.filter \in Filters
  /\ IsAnswer(NotReading.what, NotReading.answer)
  /\ NotReading = [at |-> NotReading.at, what |-> NotReading.what, filter |-> NotReading.filter, answer |-> NotReading.answer]
  BY RecordsAssumption DEF NotReading, IsAnswer

(* Nothing is remembered and nobody counts.                                 *)
LEMMA NoCounts ==
  ASSUME cache' = NoCache, reader' = [q \in Readers |-> NotReading]
  PROVE  Counts'
<1>1. \A e \in Entries : cache'[e] = NoAnswer
  BY DEF NoCache
<1>2. \A what \in {"count", "folders"}, f \in Filters : <<what, Key(f)>> \in Entries
  BY DEF Entries
<1>3. CacheIsCurrent'
  BY <1>1, <1>2 DEF CacheIsCurrent, Entries, Key
<1> HIDE DEF NotReading
<1>4. CountTypes'
  BY <1>1, NotReadingType DEF CountTypes, IsAnswer, Entries, Key
<1>5. \A q \in Readers : reader'[q].at # "counted"
  BY NotReadingType
<1> QED
  BY <1>3, <1>4, <1>5 DEF Counts

LEMMA InvalidateKeeps ==
  ASSUME RInv, NEW r \in Requests, Invalidate(r)
  PROVE  RInv'
<1>0. Tables /\ Asking
  BY Parts DEF RParts
<1>1. /\ cache' = NoCache /\ reader' = [q \in Readers |-> NotReading] /\ req' = [req EXCEPT ![r] = NoRequest]
      /\ UNCHANGED <<documents, catalog, changes>>
  BY DEF Invalidate
<1>2. UNCHANGED NewFields
  BY <1>1 DEF NewFields, catalog
<1>3. Asking'
  BY <1>0, <1>1, <1>2, IdleAsks, NewIsUnknown, AsksOn
<1> QED
  BY <1>0, <1>1, <1>3, NoCounts, SameTables, PartsThen DEF RParts

(* A reader takes a step: the tables stay, and what their answers are.      *)
LEMMA ReaderKeeps ==
  ASSUME RInv, NEW q \in Readers, NEW n, reader' = [reader EXCEPT ![q] = n],
         n = [at |-> n.at, what |-> n.what, filter |-> n.filter, answer |-> n.answer],
         n.at \in {"idle", "asked", "counted"}, n.what \in {"count", "folders"}, n.filter \in Filters,
         IsAnswer(n.what, n.answer),
         Pending \/ n.at # "counted" \/ AnswerOf(n.what, n.filter, n.answer),
         UNCHANGED <<documents, catalog, req, changes>>,
         \A e \in Entries : IsAnswer(e[1], cache'[e]),
         Pending \/ \A what \in {"count", "folders"}, f \in Filters :
                       \/ cache'[<<what, Key(f)>>] = NoAnswer
                       \/ AnswerOf(what, f, cache'[<<what, Key(f)>>])
  PROVE  RInv'
<1>0. Tables /\ Asking /\ Counts
  BY Parts DEF RParts
<1>1. UNCHANGED <<field, Pending, NewFields>>
  BY DEF Pending, catalog, NewFields
<1>2. Asking'
  BY <1>0, <1>1 DEF Asking
<1>3. ASSUME NEW what, NEW f, NEW a, AnswerOf(what, f, a) PROVE AnswerOf(what, f, a)'
  <2>1. UNCHANGED <<documents, field>>
    BY <1>1
  <2>2. \A g : Answer(what, g)' = Answer(what, g)
    BY <2>1, SameAnswers
  <2> QED
    BY <1>3, <2>2 DEF AnswerOf, Key
<1>4. CacheIsCurrent'
  BY <1>1, <1>3 DEF CacheIsCurrent, Key
<1>5. \A x \in Readers : reader'[x] = IF x = q THEN n ELSE reader[x]
  BY <1>0 DEF Counts, CountTypes
<1>6. CountTypes'
  <2>1. \A e \in Entries : IsAnswer(e[1], cache[e])'
    BY DEF Entries, Key, IsAnswer
  <2>2. reader' = [x \in Readers |-> [at |-> reader'[x].at, what |-> reader'[x].what,
                                     filter |-> reader'[x].filter, answer |-> reader'[x].answer]]
    BY <1>0, <1>5 DEF Counts, CountTypes
  <2>3. ASSUME NEW x \in Readers
        PROVE  /\ reader'[x].at \in {"idle", "asked", "counted"}
               /\ reader'[x].what \in {"count", "folders"} /\ reader'[x].filter \in Filters
               /\ IsAnswer(reader'[x].what, reader'[x].answer)
    BY <1>0, <1>5 DEF Counts, CountTypes
  <2> QED
    BY <2>1, <2>2, <2>3 DEF CountTypes, Entries, Key, IsAnswer
<1>7. ASSUME NEW x \in Readers
      PROVE  Pending' \/ reader'[x].at # "counted" \/ AnswerOf(reader[x].what, reader[x].filter, reader[x].answer)'
  <2>1. PICK y : y = reader'[x]
    OBVIOUS
  <2>2. Pending \/ y.at # "counted" \/ AnswerOf(y.what, y.filter, y.answer)
    BY <1>0, <1>5, <2>1 DEF Counts
  <2>3. Pending' \/ y.at # "counted" \/ AnswerOf(y.what, y.filter, y.answer)'
    BY <1>1, <1>3, <2>2
  <2> QED
    BY <2>1, <2>3 DEF AnswerOf, Key
<1> QED
  BY <1>0, <1>2, <1>4, <1>6, <1>7, SameTables, PartsThen DEF RParts, Counts

LEMMA AskKeeps ==
  ASSUME RInv, NEW q \in Readers, NEW what \in {"count", "folders"}, NEW f \in Filters, Ask(q, what, f)
  PROVE  RInv'
<1>1. Counts
  BY Parts DEF RParts
<1>2. /\ reader' = [reader EXCEPT ![q] = [at |-> "asked", what |-> what, filter |-> f, answer |-> NoAnswer]]
      /\ UNCHANGED <<documents, catalog, cache, req, changes>>
  BY DEF Ask
<1>3. IsAnswer(what, NoAnswer)
  BY DEF IsAnswer
<1> QED
  BY <1>1, <1>2, <1>3, ReaderKeeps DEF Counts, CountTypes, CacheIsCurrent

LEMMA QueryKeeps ==
  ASSUME RInv, NEW q \in Readers, Query(q)
  PROVE  RInv'
<1>1. Counts
  BY Parts DEF RParts
<1>2. PICK y : y = reader[q]
  OBVIOUS
<1>3. y = [at |-> y.at, what |-> y.what, filter |-> y.filter, answer |-> y.answer]
      /\ y.what \in {"count", "folders"} /\ y.filter \in Filters
  BY <1>1, <1>2 DEF Counts, CountTypes
<1>4. PICK a : a = Answer(y.what, y.filter)
  OBVIOUS
<1>5. IsAnswer(y.what, a) /\ AnswerOf(y.what, y.filter, a)
  BY <1>3, <1>4, AnswerIsAnswer DEF AnswerOf
<1>6. reader' = [reader EXCEPT ![q] = [at |-> "counted", what |-> y.what, filter |-> y.filter, answer |-> a]]
  <2>1. reader' = [reader EXCEPT ![q].at = "counted", ![q].answer = a]
    BY <1>2, <1>4 DEF Query
  <2>2. reader' = [reader EXCEPT ![q] = [y EXCEPT !.at = "counted", !.answer = a]]
    BY <1>2, <2>1
  <2>3. [y EXCEPT !.at = "counted", !.answer = a] = [at |-> "counted", what |-> y.what, filter |-> y.filter, answer |-> a]
    <3>1. PICK b, w, f, c : y = [at |-> b, what |-> w, filter |-> f, answer |-> c]
      BY <1>3
    <3>2. [[at |-> b, what |-> w, filter |-> f, answer |-> c] EXCEPT !.at = "counted", !.answer = a]
            = [at |-> "counted", what |-> w, filter |-> f, answer |-> a]
      <4>1. [[at |-> b, what |-> w, filter |-> f, answer |-> c] EXCEPT !.at = "counted"]
              = [at |-> "counted", what |-> w, filter |-> f, answer |-> c]
        OBVIOUS
      <4>2. [[at |-> "counted", what |-> w, filter |-> f, answer |-> c] EXCEPT !.answer = a]
              = [at |-> "counted", what |-> w, filter |-> f, answer |-> a]
        OBVIOUS
      <4> QED
        BY <4>1, <4>2
    <3> QED
      BY <3>1, <3>2
  <2> QED
    BY <2>2, <2>3
<1>7. UNCHANGED <<documents, catalog, cache, req, changes>>
  BY DEF Query
<1> QED
  BY <1>1, <1>3, <1>5, <1>6, <1>7, ReaderKeeps DEF Counts, CountTypes, CacheIsCurrent

LEMMA RememberKeeps ==
  ASSUME RInv, NEW q \in Readers, Remember(q)
  PROVE  RInv'
<1>1. Counts
  BY Parts DEF RParts
<1>2. PICK y : y = reader[q]
  OBVIOUS
<1>3. /\ y.what \in {"count", "folders"} /\ y.filter \in Filters /\ IsAnswer(y.what, y.answer) /\ y.at = "counted"
      /\ Pending \/ AnswerOf(y.what, y.filter, y.answer)
  BY <1>1, <1>2 DEF Counts, CountTypes, Remember
<1>4. PICK E : E = <<y.what, Key(y.filter)>>
  OBVIOUS
<1>5. \A x \in Entries : cache'[x] = IF x = E THEN y.answer ELSE IF x[1] = y.what /\ Full(y.what) THEN NoAnswer ELSE cache[x]
  BY <1>2, <1>4 DEF Remember
<1>6. \A e \in Entries : IsAnswer(e[1], cache'[e])
  BY <1>1, <1>3, <1>4, <1>5 DEF Counts, CountTypes, IsAnswer
<1>7. ASSUME ~Pending, NEW what \in {"count", "folders"}, NEW f \in Filters
      PROVE  \/ cache'[<<what, Key(f)>>] = NoAnswer
             \/ AnswerOf(what, f, cache'[<<what, Key(f)>>])
  <2>1. <<what, Key(f)>> \in Entries
    BY DEF Entries
  <2>2. CASE <<what, Key(f)>> = E
    BY <1>3, <1>4, <1>5, <1>7, <2>1, <2>2 DEF AnswerOf
  <2>3. CASE <<what, Key(f)>> # E
    BY <1>1, <1>5, <1>7, <2>1, <2>3 DEF Counts, CacheIsCurrent
  <2> QED
    BY <2>2, <2>3
<1>8. reader' = [reader EXCEPT ![q] = NotReading] /\ UNCHANGED <<documents, catalog, req, changes>>
  BY DEF Remember
<1> HIDE DEF NotReading
<1> QED
  BY <1>6, <1>7, <1>8, NotReadingType, ReaderKeeps

-----------------------------------------------------------------------------
(* The start, the restart, and all steps                                    *)

LEMMA InitRInv == RecordsInit => RInv
<1> SUFFICES ASSUME RecordsInit PROVE RInv
  OBVIOUS
<1>1. NoEntry \in [tags : SUBSET Names, values : FieldValues, text : SUBSET Words] /\ NoEntry.values = NoValues
  BY NothingStored DEF NoEntry, Entry
<1>2. Types
  BY <1>1, NothingStored DEF RecordsInit, Types
<1>3. Catalog
  BY RecordsAssumption DEF RecordsInit, Catalog
<1>4. \A d \in Docs : Document(d)
  BY <1>1, NothingStored, NewIsUnknown DEF RecordsInit, Document, Fits
<1>5. Asking
  <2>1. AsksIn(NewFields, NoRequest)
    BY IdleAsks, NewIsUnknown
  <2> QED
    BY <2>1 DEF RecordsInit, Asking, AsksIn
<1>6. Counts
  <2>1. \A e \in Entries : cache[e] = NoAnswer
    BY DEF RecordsInit, NoCache
  <2>2. \A what \in {"count", "folders"}, f \in Filters : <<what, Key(f)>> \in Entries
    BY DEF Entries
  <2>3. reader = [q \in Readers |-> NotReading]
    BY DEF RecordsInit
  <2> HIDE DEF NotReading
  <2> QED
    BY <2>1, <2>2, <2>3, NotReadingType DEF Counts, CountTypes, CacheIsCurrent, IsAnswer
<1> QED
  BY <1>2, <1>3, <1>4, <1>5, <1>6, Parts DEF RParts, Tables

LEMMA RestartKeeps ==
  ASSUME RInv, Restart
  PROVE  RInv'
<1>0. Types /\ Catalog /\ (\A x \in Docs : Document(x)) /\ Asking
  BY Parts DEF RParts, Tables
<1>1. PICK D \in {{}, Rows} : Reindex(D)
  BY DEF Restart
<1>2. /\ cache' = NoCache /\ req' = [r \in Requests |-> NoRequest] /\ reader' = [q \in Readers |-> NotReading]
      /\ UNCHANGED <<status, text, assigned, values, catalog, changes>>
      /\ index' = [d \in Docs |-> IF d \in D THEN Entry(assigned[d], values[d], text[d]) ELSE index[d]]
  BY <1>1 DEF Restart, Reindex
<1>3. UNCHANGED <<Known, NewFields, tags>>
  BY <1>2 DEF Known, NewFields, catalog
<1>4. Types'
  BY <1>0, <1>2 DEF Types, Entry
<1>5. Catalog'
  BY <1>0, <1>2 DEF Catalog, catalog
<1>6. ASSUME NEW x \in Docs PROVE Document(x)'
  <2>1. Fits(status[x], text[x], assigned[x], values[x], index[x], tags, Known, NewFields) /\ values[x] \in FieldValues
    BY <1>0 DEF Document, Types
  <2>2. Fits(status[x], text[x], assigned[x], values[x], index'[x], tags, Known, NewFields)
    <3>1. CASE x \in D
      <4>1. status[x] \in {"active", "trash"}
        BY <3>1 DEF Rows
      <4>2. index'[x] = Entry(assigned[x], values[x], text[x])
        BY <1>2, <3>1
      <4>3. assigned[x] \subseteq tags /\ StoredIn(Known, values[x]) = values[x]
        BY <2>1 DEF Fits
      <4> QED
        BY <2>1, <4>1, <4>2, <4>3, NewIsUnknown, Reindexed
    <3>2. CASE x \notin D
      BY <1>2, <2>1, <3>2
    <3> QED
      BY <3>1, <3>2
  <2> QED
    BY <2>2, <1>2, <1>3 DEF Document
<1>7. Asking'
  <2>1. AsksIn(NewFields, NoRequest)
    BY IdleAsks, NewIsUnknown
  <2> QED
    BY <1>2, <1>3, <2>1 DEF Asking, AsksIn
<1> QED
  BY <1>2, <1>4, <1>5, <1>6, <1>7, NoCounts, PartsThen DEF RParts, Tables

LEMMA UnchangedKeeps ==
  ASSUME RInv, UNCHANGED recordVars
  PROVE  RInv'
<1>1. UNCHANGED <<documents, catalog, cache, req, reader, changes>> /\ UNCHANGED <<field, NewFields, Pending>>
  BY DEF recordVars, documents, catalog, NewFields, Pending
<1>2. Tables /\ Asking
  BY Parts DEF RParts
<1>3. Asking'
  BY <1>1, <1>2 DEF Asking
<1> QED
  BY <1>1, <1>2, <1>3, SameTables, SameCounts, PartsThen DEF RParts

LEMMA ReadFormKeeps ==
  ASSUME RInv, NEW r \in Requests, NEW d \in Docs, NEW T \in TagSets, NEW v \in FieldValues, ReadForm(r, d, T, v)
  PROVE  RInv'
<1>1. \A c \in NewFields : v[c] = NoValue
  BY NewIsUnknown DEF ReadForm
<1>2. AsksIn(NewFields, [at |-> "metadata", docs |-> {d}, tags |-> T, vals |-> v])
  BY <1>1, RecordsAssumption DEF AsksIn, Wishes
<1> QED
  BY <1>2, Reads DEF ReadForm, Begin

LEMMA ReadTagsKeeps ==
  ASSUME RInv, NEW r \in Requests, NEW d \in Docs, NEW T \in TagSets, ReadTags(r, d, T)
  PROVE  RInv'
<1>1. values[d] \in FieldValues /\ \A c \in NewFields : values[d][c] = NoValue
  <2>1. Types /\ StoredIn(Known, values[d]) = values[d]
    BY Parts DEF RParts, Tables, Document, Fits
  <2> QED
    BY <2>1, StoredAt, NewIsUnknown DEF Types
<1>2. AsksIn(NewFields, [at |-> "metadata", docs |-> {d}, tags |-> T, vals |-> values[d]])
  BY <1>1, RecordsAssumption DEF AsksIn, Wishes
<1>3. PICK v : v = values[d]
  OBVIOUS
<1> QED
  BY <1>2, <1>3, Reads DEF ReadTags, Begin

LEMMA AskProtectedKeeps ==
  ASSUME RInv, NEW r \in Requests, NEW d \in Docs, AskProtected(r, d)
  PROVE  RInv'
<1>1. AsksIn(NewFields, [at |-> "trashing", docs |-> {d}, tags |-> {}, vals |-> NoValues])
  BY NothingStored, NewIsUnknown DEF AsksIn, Wishes
<1> QED
  BY <1>1, Reads DEF AskProtected, Begin

LEMMA ReadFieldsKeeps ==
  ASSUME RInv, NEW r \in Requests, NEW D \in SUBSET Docs, NEW v \in FieldValues, ReadFields(r, D, v)
  PROVE  RInv'
<1>1. \A c \in NewFields : v[c] = NoValue
  BY NewIsUnknown DEF ReadFields
<1>2. AsksIn(NewFields, [at |-> "fields", docs |-> D, tags |-> {}, vals |-> v])
  BY <1>1 DEF AsksIn, Wishes
<1> QED
  BY <1>2, Reads DEF ReadFields, Begin

LEMMA NextRInv == RInv /\ [RecordsNext]_recordVars => RInv'
<1> SUFFICES ASSUME RInv, [RecordsNext]_recordVars PROVE RInv'
  OBVIOUS
<1>1. ASSUME NEW r \in Requests, DocumentRequest(r) PROVE RInv'
  BY <1>1, CreateDocumentKeeps, UpdateSearchTextKeeps, ReadFormKeeps, ReadTagsKeeps, AskProtectedKeeps, RecordRestoreKeeps,
     RecordPurgeKeeps, ReadFieldsKeeps, AddTagsKeeps, RemoveTagsKeeps, PurgeTrashKeeps, UpdateMetadataKeeps,
     SetCustomValuesKeeps, RecordSoftDeleteKeeps, InvalidateKeeps DEF DocumentRequest
<1>2. ASSUME NEW r \in Requests, CatalogRequest(r) PROVE RInv'
  BY <1>2, RenameTagKeeps, DeleteTagKeeps, SaveFieldKeeps, DeleteFieldKeeps, RenameValueKeeps DEF CatalogRequest
<1>3. ASSUME NEW q \in Readers, Read(q) PROVE RInv'
  BY <1>3, AskKeeps, QueryKeeps, RememberKeeps DEF Read
<1> QED
  BY <1>1, <1>2, <1>3, SettingsKeep, RestartKeeps, UnchangedKeeps DEF RecordsNext

(* Tables, index and remembered counts agree, whatever requests, readers    *)
(* and restarts come between each other: the repositories of documents,     *)
(* tags and fields, and the cache of counts.                                *)
THEOREM RecordsAgree == RecordsSpec => []RInv
<1>1. RecordsInit => RInv
  BY InitRInv
<1>2. RInv /\ [RecordsNext]_recordVars => RInv'
  BY NextRInv
<1> QED
  BY <1>1, <1>2, PTL DEF RecordsSpec

(* Each row has the entry in the search index that its tables say.          *)
THEOREM IndexStaysCurrent == RecordsSpec => []IndexIsCurrent
<1>1. RInv => IndexIsCurrent
  BY DEF RInv
<1> QED
  BY <1>1, RecordsAgree, PTL

(* What is remembered of lists is what they hold, when no request that      *)
(* changed something is on its way.                                         *)
THEOREM CacheStaysCurrent == RecordsSpec => []CacheIsCurrent
<1>1. RInv => CacheIsCurrent
  BY DEF RInv
<1> QED
  BY <1>1, RecordsAgree, PTL

-----------------------------------------------------------------------------
(* Protection and saved searches                                            *)

(* Only what nothing protects leaves the tables.                            *)
LEMMA RowsStay ==
  ASSUME RInv, RecordsNext, NEW d \in Rows, Protected(d)
  PROVE  d \in Rows'
<1>0. Types /\ d \in Docs /\ status[d] \in {"active", "trash"}
  BY Parts DEF RParts, Tables, Rows
<1> DEFINE Stays == status'[d] \in {"active", "trash"}
<1>1. SUFFICES Stays
  BY <1>0 DEF Rows
<1>2. ASSUME NEW D, Remove(D), d \notin D PROVE Stays
  BY <1>0, <1>2 DEF Remove
<1>3. ASSUME NEW r \in Requests, DocumentRequest(r) PROVE Stays
  <2>1. ASSUME NEW e \in Docs, NEW t \in SUBSET Words,
               (\E T \in TagSets : CreateDocument(r, e, T, t)) \/ UpdateSearchText(r, e, t)
        PROVE  Stays
    BY <1>0, <2>1 DEF CreateDocument, UpdateSearchText, Types
  <2>2. ASSUME NEW e \in Docs, AskProtected(r, e) \/ RestoreRecord(r, e) PROVE Stays
    BY <1>0, <2>2 DEF AskProtected, RestoreRecord, Begin, documents, Types
  <2>3. ASSUME NEW e \in Docs, PurgeRecord(r, e) PROVE Stays
    <3>1. Remove({e}) /\ d \notin {e}
      BY <2>3 DEF PurgeRecord
    <3> QED
      BY <3>1, <1>2
  <2>4. ASSUME NEW D \in SUBSET Docs, PurgeTrash(r, D) PROVE Stays
    <3>1. Remove(D) /\ d \notin D
      BY <2>4 DEF PurgeTrash
    <3> QED
      BY <3>1, <1>2
  <2>5. ASSUME NEW D \in SUBSET Docs, NEW T \in TagSets, AddTags(r, D, T) \/ RemoveTags(r, D, T)
        PROVE  Stays
    BY <1>0, <2>5 DEF AddTags, RemoveTags
  <2>6. ASSUME \/ \E e \in Docs, T \in TagSets, v \in FieldValues : ReadForm(r, e, T, v)
               \/ \E D \in SUBSET Docs, v \in FieldValues : ReadFields(r, D, v)
               \/ \E e \in Docs, T \in TagSets : ReadTags(r, e, T)
        PROVE  Stays
    BY <1>0, <2>6 DEF ReadForm, ReadTags, ReadFields, Begin, documents
  <2>7. CASE UpdateMetadata(r)
    BY <1>0, <2>7 DEF UpdateMetadata, GivesUp, documents
  <2>8. CASE SetCustomValues(r) \/ Invalidate(r)
    BY <1>0, <2>8 DEF SetCustomValues, Invalidate, documents
  <2>9. CASE SoftDeleteRecord(r)
    BY <1>0, <2>9 DEF SoftDeleteRecord, GivesUp, documents, Types
  <2> HIDE DEF Stays
  <2> QED
    BY <1>3, <2>1, <2>2, <2>3, <2>4, <2>5, <2>6, <2>7, <2>8, <2>9 DEF DocumentRequest
<1>4. ASSUME NEW r \in Requests, CatalogRequest(r) PROVE status' = status
  BY <1>4 DEF CatalogRequest, RenameTag, DeleteTag, SaveField, DeleteField, RenameValue, documents
<1>5. ASSUME Settings PROVE status' = status
  BY <1>5 DEF Settings, SaveTag, SaveTagRules, SaveFavorite, documents
<1>6. ASSUME NEW q \in Readers, Read(q) PROVE status' = status
  BY <1>6 DEF Read, Ask, Query, Remember, documents
<1>7. ASSUME Restart PROVE status' = status
  BY <1>7 DEF Restart
<1> QED
  BY <1>0, <1>3, <1>4, <1>5, <1>6, <1>7 DEF RecordsNext

(* A document that a tag protects is not purged: what SoftDeleteRecord let into   *)
(* the trash, PurgeRecord and PurgeTrash ask about again.                         *)
THEOREM ProtectedDocumentsSurvive == RecordsSpec => ProtectedSurvive
<1>1. RInv /\ [RecordsNext]_recordVars => [\A d \in Rows : Protected(d) => d \in Rows']_recordVars
  BY RowsStay
<1> QED
  BY <1>1, RecordsAgree, PTL DEF RecordsSpec, ProtectedSurvive

LEMMA RenamedSubset ==
  ASSUME NEW S, NEW T, NEW U, NEW n, NEW m, S \subseteq U, T \subseteq U, n \in U, m # n => m \notin U
  PROVE  S \subseteq T <=> Renamed(S, n, m) \subseteq Renamed(T, n, m)
  BY DEF Renamed

(* RenameTag carries a tag's new name into saved searches, and they find    *)
(* what they found.                                                         *)
THEOREM SavedSearchesKeepDocuments == RecordsSpec => SavedSearchKeepsDocuments
<1> DEFINE A == (favorite \subseteq tags /\ \E r \in Requests, n, m \in Names, p \in BOOLEAN : RenameTag(r, n, m, p))
                  => {d \in Rows : favorite \subseteq assigned[d]} = {d \in Rows : favorite' \subseteq assigned'[d]}
<1>1. RInv /\ [RecordsNext]_recordVars => [A]_recordVars
  <2> SUFFICES ASSUME RInv, favorite \subseteq tags, NEW r \in Requests, NEW n \in Names, NEW m \in Names, NEW p \in BOOLEAN,
                      RenameTag(r, n, m, p), NEW d \in Rows
               PROVE  favorite \subseteq assigned[d] <=> favorite' \subseteq assigned'[d]
    OBVIOUS
  <2>1. d \in Docs /\ assigned[d] \subseteq tags
    BY Parts DEF RParts, Tables, Document, Fits, Rows
  <2>2. /\ n \in tags /\ (m # n => m \notin tags) /\ favorite' = Renamed(favorite, n, m)
        /\ assigned'[d] = Renamed(assigned[d], n, m)
    BY <2>1 DEF RenameTag
  <2> QED
    BY <2>1, <2>2, RenamedSubset
<1> QED
  BY <1>1, RecordsAgree, PTL DEF RecordsSpec, SavedSearchKeepsDocuments
=============================================================================
