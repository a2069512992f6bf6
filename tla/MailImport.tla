------------------------------ MODULE MailImport ------------------------------
(***************************************************************************)
(* MailImport: the mailbox from which documents are imported.  The         *)
(* schedule and a request of the user each read the settings, and then     *)
(* import under one lock: message by message, attachment by attachment,    *)
(* and a message is deleted when all of it is stored, or its sender is     *)
(* refused.  Other clients use the same mailbox.                           *)
(***************************************************************************)
EXTENDS Naturals, Sequences, FiniteSets

CONSTANTS
    Messages, Parts, Sender,   \* messages, the attachments and the sender of each
    Archives,                  \* attachments that are mails: a PDF is made of them
    Rules,                     \* lists of allowed senders: none allows everyone
    Callers, Schedule,         \* who imports; the schedule is one of them
    MaxEvents,                 \* bound: failures, crashes and what others do
    Nobody, NoMessage

VARIABLES
    settings,     \* whether the schedule imports, and which senders are allowed
    inForce,      \* history: the lists of senders there have been
    box,          \* whether a message is there, flagged as deleted, or gone
    others,       \* history: messages that other clients deleted
    active,       \* how many documents, not in the trash, an attachment has
    stored,       \* history: attachments of which a document was made
    holder,       \* who has the lock
    caller,       \* how far each one is, with the settings it read
    events        \* events so far

vars == <<settings, inForce, box, others, active, stored, holder, caller, events>>
mailbox == <<box, others>>
documents == <<active, stored>>

Files == UNION {{Parts[m][i] : i \in DOMAIN Parts[m]} : m \in Messages}
\* Every message has a sequence of attachments.
MailAssumption == Nobody \notin Callers /\ \A m \in Messages : Parts[m] \in Seq(Files)
Idle == [at |-> "idle", test |-> FALSE, rules |-> {}, todo |-> {}, msg |-> NoMessage, part |-> 0, failed |-> FALSE]
Undeleted == {m \in Messages : box[m] = "there"}
SenderAllowed(m, rules) == rules = {} \/ Sender[m] \in rules

To(c, at) == caller' = [caller EXCEPT ![c].at = at]
Event == events < MaxEvents /\ events' = events + 1
Quiet == UNCHANGED events

-----------------------------------------------------------------------------
(* A run: the settings, the lock, the messages                              *)

\* The schedule looks when the interval is over, and only when it is enabled.
ReadSettings(c) ==
    /\ caller[c].at = "idle" /\ (c = Schedule => settings.enabled)
    /\ \E test \in IF c = Schedule THEN {FALSE} ELSE BOOLEAN :
           caller' = [caller EXCEPT ![c] = [Idle EXCEPT !.at = "lock", !.test = test, !.rules = settings.rules]]
    /\ Quiet /\ UNCHANGED <<settings, inForce, mailbox, documents, holder>>

Free(c) == holder = Nobody
Lock(c) == /\ caller[c].at = "lock" /\ Free(c)
           /\ holder' = c /\ To(c, "open")
           /\ Quiet /\ UNCHANGED <<settings, inForce, mailbox, documents>>

End(c) == caller' = [caller EXCEPT ![c] = Idle] /\ holder' = Nobody
OpenMailbox(c) ==
    /\ caller[c].at = "open" /\ ~caller[c].test
    /\ caller' = [caller EXCEPT ![c].at = "next", ![c].todo = Undeleted]
    /\ Quiet /\ UNCHANGED <<settings, inForce, mailbox, documents, holder>>
CheckSettings(c) == /\ caller[c].at = "open" /\ caller[c].test /\ End(c)
                    /\ Quiet /\ UNCHANGED <<settings, inForce, mailbox, documents>>
OpenFails(c) == /\ caller[c].at = "open" /\ End(c)
                /\ Event /\ UNCHANGED <<settings, inForce, mailbox, documents>>

EndRun(c) == /\ caller[c].at = "next" /\ caller[c].todo = {} /\ End(c)
             /\ Quiet /\ UNCHANGED <<settings, inForce, mailbox, documents>>
GiveUp(c) == /\ caller[c].at = "next" /\ caller[c].todo # {} /\ End(c)    \* the request left, or a stop
             /\ Event /\ UNCHANGED <<settings, inForce, mailbox, documents>>

FetchMessage(c) ==
    /\ caller[c].at = "next"
    /\ \E m \in caller[c].todo \cap {m \in Messages : box[m] # "gone"} :
           caller' = [caller EXCEPT ![c].todo = @ \ {m}, ![c].msg = m, ![c].part = 1, ![c].failed = FALSE,
                                    ![c].at = IF SenderAllowed(m, caller[c].rules) THEN "part" ELSE "flag"]
    /\ Quiet /\ UNCHANGED <<settings, inForce, mailbox, documents, holder>>
Skip(c) ==
    /\ caller[c].at = "next"
    /\ \E m \in caller[c].todo : /\ caller' = [caller EXCEPT ![c].todo = @ \ {m}]
                                 /\ IF box[m] = "gone" THEN Quiet ELSE Event
    /\ UNCHANGED <<settings, inForce, mailbox, documents, holder>>

-----------------------------------------------------------------------------
(* A message: its attachments, one after the other                          *)

Current(c) == Parts[caller[c].msg][caller[c].part]
HasPart(c) == caller[c].part <= Len(Parts[caller[c].msg])
Following(c, failed) ==
    caller' = [caller EXCEPT ![c].at = "part", ![c].part = @ + 1, ![c].failed = @ \/ failed]

ReceiveReader(c) ==    \* for a mail, once its archive is built
    /\ caller[c].at = "part" /\ HasPart(c) /\ To(c, "find")
    /\ Quiet /\ UNCHANGED <<settings, inForce, mailbox, documents, holder>>
PartFails(c) ==
    /\ caller[c].at \in {"part", "find", "create"} /\ HasPart(c) /\ Following(c, TRUE)
    /\ Event /\ UNCHANGED <<settings, inForce, mailbox, documents, holder>>
\* What follows cannot be read: the message stays, and what came before stays imported.
BreakOff(c) == /\ caller[c].at = "part" /\ To(c, "next")
               /\ Event /\ UNCHANGED <<settings, inForce, mailbox, documents, holder>>

\* An archive made again may have other bytes than the first.
FindActive(c) ==
    /\ caller[c].at = "find"
    /\ \/ active[Current(c)] > 0 /\ Following(c, FALSE)
       \/ (active[Current(c)] = 0 \/ Current(c) \in Archives) /\ To(c, "create")
    /\ Quiet /\ UNCHANGED <<settings, inForce, mailbox, documents, holder>>
CreateDocument(c) ==
    /\ caller[c].at = "create" /\ Following(c, FALSE)
    /\ active' = [active EXCEPT ![Current(c)] = IF @ < 2 THEN @ + 1 ELSE @]    \* two, or more
    /\ stored' = stored \cup {Current(c)}
    /\ Quiet /\ UNCHANGED <<settings, inForce, mailbox, holder>>

\* Variant: a message is deleted although an attachment of it failed.
Complete_Anyway(c) == Parts[caller[c].msg] # <<>>
Complete(c) == Parts[caller[c].msg] # <<>> /\ ~caller[c].failed
EndMessage(c) ==
    /\ caller[c].at = "part" /\ ~HasPart(c)
    /\ To(c, IF Complete(c) THEN "flag" ELSE "next")
    /\ Quiet /\ UNCHANGED <<settings, inForce, mailbox, documents, holder>>

\* DeleteMessage: the flag, then all that is flagged goes.
Flag(c) ==
    /\ caller[c].at = "flag" /\ To(c, "expunge")
    /\ box' = [box EXCEPT ![caller[c].msg] = IF @ = "there" THEN "flagged" ELSE @]
    /\ Quiet /\ UNCHANGED <<settings, inForce, others, documents, holder>>
Expunged == [m \in Messages |-> IF box[m] = "flagged" THEN "gone" ELSE box[m]]
Expunge(c) == /\ caller[c].at = "expunge" /\ To(c, "next") /\ box' = Expunged
              /\ Quiet /\ UNCHANGED <<settings, inForce, others, documents, holder>>
\* The command fails, or its answer does not arrive.
DeleteFails(c) ==
    /\ \/ caller[c].at = "flag" /\ box' \in {box, [box EXCEPT ![caller[c].msg] = IF @ = "there" THEN "flagged" ELSE @]}
       \/ caller[c].at = "expunge" /\ box' \in {box, Expunged}
    /\ To(c, "next")
    /\ Event /\ UNCHANGED <<settings, inForce, others, documents, holder>>

-----------------------------------------------------------------------------
(* Others                                                                   *)

SaveSettings(s) ==
    /\ s # settings /\ settings' = s /\ inForce' = inForce \cup {s.rules}
    /\ Event /\ UNCHANGED <<mailbox, documents, holder, caller>>
OtherClient(m) ==
    /\ box[m] # "gone" /\ box' \in {[box EXCEPT ![m] = "flagged"], [box EXCEPT ![m] = "gone"]}
    /\ others' = others \cup {m}
    /\ Event /\ UNCHANGED <<settings, inForce, documents, holder, caller>>
SoftDelete(f) == /\ active[f] > 0 /\ active' = [active EXCEPT ![f] = 0]
                 /\ Event /\ UNCHANGED <<settings, inForce, mailbox, stored, holder, caller>>
Crash == /\ caller' = [c \in Callers |-> Idle] /\ holder' = Nobody
         /\ Event /\ UNCHANGED <<settings, inForce, mailbox, documents>>

Init ==
    /\ settings = [enabled |-> TRUE, rules |-> {}] /\ inForce = {{}}
    /\ box = [m \in Messages |-> "there"] /\ others = {}
    /\ active = [f \in Files |-> 0] /\ stored = {}
    /\ holder = Nobody /\ caller = [c \in Callers |-> Idle] /\ events = 0

Next ==
    \/ \E c \in Callers :
          \/ ReadSettings(c) \/ Lock(c) \/ OpenMailbox(c) \/ CheckSettings(c) \/ OpenFails(c)
          \/ EndRun(c) \/ GiveUp(c) \/ FetchMessage(c) \/ Skip(c)
          \/ ReceiveReader(c) \/ PartFails(c) \/ BreakOff(c) \/ FindActive(c) \/ CreateDocument(c)
          \/ EndMessage(c) \/ Flag(c) \/ Expunge(c) \/ DeleteFails(c)
    \/ \E s \in [enabled : BOOLEAN, rules : Rules] : SaveSettings(s)
    \/ \E m \in Messages : OtherClient(m)
    \/ \E f \in Files : SoftDelete(f)
    \/ Crash
Spec == Init /\ [][Next]_vars

-----------------------------------------------------------------------------
Refused(m) == \E rules \in inForce : ~SenderAllowed(m, rules)
Kept(m) == Parts[m] # <<>> /\ \A i \in DOMAIN Parts[m] : Parts[m][i] \in stored
\* What the import takes out of the mailbox had its sender refused, or has all
\* its attachments in the archive; and a PDF that arrives again, in another
\* mail or because a run was interrupted, is stored once
\* (service.go ImportPDFs; importer.go ImportCandidateWithOptions).
MailIsStored ==
    /\ \A m \in Messages \ others : box[m] = "gone" => Refused(m) \/ Kept(m)
    /\ \A f \in Files \ Archives : active[f] <= 1
=============================================================================
