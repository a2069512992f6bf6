-------------------------------- MODULE Services --------------------------------
(***************************************************************************)
(* Services: components that share no state, each with its own constants   *)
(* and variables, and what is true of them.                                *)
(***************************************************************************)
EXTENDS Naturals

CONSTANTS
    Clients, Slots, Wanted, Prepared, MaxChanges, NoFile, NoRow, Nothing,        \* PhotoThumbnails
    Messages, Parts, Sender, Archives, Rules, Callers, Schedule, MaxEvents, Nobody, NoMessage, \* MailImport
    People, Tags, Dates, RelationLimit, MaxEdits, NoForm                         \* PersonFamily

VARIABLES
    photo, honest, changes, db, files, rebuild, client,                          \* PhotoThumbnails
    settings, inForce, box, others, active, stored, holder, caller, events,      \* MailImport
    family, visible, form, treeForm, edits                                       \* PersonFamily

Thumbnails == INSTANCE PhotoThumbnails
Mail == INSTANCE MailImport
Family == INSTANCE PersonFamily

ASSUME ThumbnailInstance == Thumbnails!ThumbnailAssumption
ASSUME MailInstance == Mail!MailAssumption
ASSUME FamilyInstance == Family!FamilyAssumption

ofThumbnails == <<photo, honest, changes, db, files, rebuild, client>>
ofMail == <<settings, inForce, box, others, active, stored, holder, caller, events>>
ofFamily == <<family, visible, form, treeForm, edits>>

\* A thumbnail that is served shows the photo the index knows
\* (thumbnail.go, thumbnail_index.go, identity_content.go).
ShowsPhoto == Thumbnails!ShowsPhoto
\* What the import takes out of the mailbox was refused by its sender, or is in
\* the archive, every PDF once (service.go ImportPDFs).
MailIsStored == Mail!MailIsStored
\* Nobody is their own ancestor, whatever is merged, hidden and saved from an
\* old form (person_details.go, person_parents.go).
FamilyIsSound == Family!FamilyIsSound
\* Each visible root is in one tree, with those it is related to through
\* visible people (family_tree.go FamilyTrees).
TreesAreFamilies == Family!TreesAreFamilies
\* Who saves the form of a person takes nothing away from anybody who is hidden
\* when it is saved (person_details.go SetPersonDetails).
HiddenStays == [][Family!HiddenStays]_ofFamily
=============================================================================
