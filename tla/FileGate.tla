------------------------------- MODULE FileGate -------------------------------
(***************************************************************************)
(* The gate of a document's files, with names that let it stand beside     *)
(* DocumentFiles, which takes it to be a lock (held): this is what makes   *)
(* it one.                                                                 *)
(***************************************************************************)
CONSTANTS Callers, Gates, NoGate, Nobody
VARIABLES entry, refs, busy, pc, mine

Gate == INSTANCE DocumentGate
ASSUME GateInstance == Gate!GateAssumption

\* AcquireDocumentFiles is a lock: one caller at a time works on the files of a
\* document, though its gate is thrown away and made again.
Lock == INSTANCE GateLock WITH owner <- Gate!Owner
LockSpec == Lock!Spec

\* Who waits in AcquireDocumentFiles gets the gate or gives up.
WaitersGetOn == Gate!WaitersGetOn
=============================================================================
