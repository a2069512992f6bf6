--------------------------- MODULE ServicesProofs ---------------------------
(***************************************************************************)
(* Theorems about components that share no state: the import of mails, the *)
(* thumbnails of a photo, and families, each an instance; and the texts of *)
(* documents.                                                              *)
(***************************************************************************)
EXTENDS Services, DocumentText, Sequences, FiniteSets, FiniteSetTheorems, SequenceTheorems, Functions, TLAPS

-----------------------------------------------------------------------------
(* Mail                                                                     *)

Places == {"idle", "lock", "open", "next", "part", "find", "create", "flag", "expunge"}
AtWork == Places \ {"idle", "lock"}

MailTypes ==
    /\ settings.rules \in inForce /\ {} \in inForce
    /\ box \in [Messages -> {"there", "flagged", "gone"}]
    /\ active \in [Mail!Files -> Nat] /\ stored \subseteq Mail!Files
    /\ caller \in [Callers -> [at : Places, test : BOOLEAN, rules : inForce, todo : SUBSET Messages,
                               msg : Messages \cup {NoMessage}, part : Nat, failed : BOOLEAN]]
\* Who works has the lock.
OneWorks == \A c \in Callers : caller[c].at \in AtWork => holder = c
\* What is, or will be, flagged as deleted.
Settled(m) == Mail!Refused(m) \/ Mail!Kept(m)
RemovedIsSettled == \A m \in Messages \ others : box[m] # "there" => Settled(m)
StoredOnce == /\ \A f \in Mail!Files : active[f] > 0 => f \in stored
              /\ \A f \in Mail!Files \ Archives : active[f] <= 1

\* Of the attachments before the present one, one failed, or all are stored.
PartsDone(k) ==
    k.at \in {"part", "find", "create"} =>
        /\ k.msg \in Messages /\ k.part \in 1 .. Len(Parts[k.msg]) + 1
        /\ k.at # "part" => k.part <= Len(Parts[k.msg])
        /\ \A i \in 1 .. k.part - 1 : k.failed \/ Parts[k.msg][i] \in stored
DeletesSettled(k) == k.at \in {"flag", "expunge"} => k.msg \in Messages /\ Settled(k.msg)
\* A PDF is created where none was found.
CreatesNew(k) == k.at = "create" => active[Parts[k.msg][k.part]] = 0 \/ Parts[k.msg][k.part] \in Archives
Sound(k) == PartsDone(k) /\ DeletesSettled(k) /\ CreatesNew(k)

MailInv == MailTypes /\ OneWorks /\ RemovedIsSettled /\ StoredOnce /\ \A c \in Callers : Sound(caller[c])

LEMMA MailInit == ASSUME Mail!Init PROVE MailInv
<1>. caller = [c \in Callers |-> Mail!Idle] /\ Mail!Idle.at = "idle"
  BY DEF Mail!Init, Mail!Idle
<1>1. MailTypes
  BY DEF Mail!Init, Mail!Idle, MailTypes, Places
<1>2. OneWorks /\ RemovedIsSettled /\ \A c \in Callers : Sound(caller[c])
  BY DEF Mail!Init, OneWorks, RemovedIsSettled, AtWork, Sound, PartsDone, DeletesSettled, CreatesNew
<1>3. StoredOnce
  BY DEF Mail!Init, StoredOnce
<1>. QED BY <1>1, <1>2, <1>3 DEF MailInv

\* The fields of a caller, and its attachment.
LEMMA CallerTypes ==
  ASSUME MailTypes, NEW c \in Callers
  PROVE  /\ caller[c] \in [at : Places, test : BOOLEAN, rules : inForce, todo : SUBSET Messages,
                           msg : Messages \cup {NoMessage}, part : Nat, failed : BOOLEAN]
         /\ Mail!Idle \in [at : Places, test : BOOLEAN, rules : inForce, todo : SUBSET Messages,
                           msg : Messages \cup {NoMessage}, part : Nat, failed : BOOLEAN]
         /\ Sound(Mail!Idle)
  BY DEF MailTypes, Mail!Idle, Places, Sound, PartsDone, DeletesSettled, CreatesNew
LEMMA PartIsFile ==
  ASSUME Mail!MailAssumption, NEW m \in Messages, NEW i \in 1 .. Len(Parts[m])
  PROVE  Parts[m][i] \in Mail!Files
  BY DEF Mail!MailAssumption

\* A step of one caller that touches neither the mailbox nor the documents.
LEMMA CallerStep ==
  ASSUME MailInv, NEW c \in Callers,
         NEW k \in [at : Places, test : BOOLEAN, rules : inForce, todo : SUBSET Messages,
                    msg : Messages \cup {NoMessage}, part : Nat, failed : BOOLEAN],
         caller' = [caller EXCEPT ![c] = k], Sound(k), OneWorks',
         UNCHANGED <<settings, inForce, box, others, active, stored>>
  PROVE  MailInv'
<1>. USE DEF MailInv
<1>1. MailTypes'
  BY DEF MailTypes
<1>2. RemovedIsSettled' /\ StoredOnce'
  BY DEF RemovedIsSettled, StoredOnce, Settled, Mail!Refused, Mail!Kept
<1>3. ASSUME NEW d \in Callers PROVE Sound(caller[d])'
  <2>1. caller'[d] = IF d = c THEN k ELSE caller[d]
    BY DEF MailTypes
  <2>2. Sound(caller'[d])
    BY <2>1
  <2>. QED BY <2>2 DEF Sound, PartsDone, DeletesSettled, CreatesNew, Settled, Mail!Refused, Mail!Kept
<1>. QED BY <1>1, <1>2, <1>3

LEMMA CallerSteps ==
  ASSUME Mail!MailAssumption, MailInv, NEW c \in Callers,
         \/ Mail!ReadSettings(c) \/ Mail!Lock(c) \/ Mail!OpenMailbox(c) \/ Mail!CheckSettings(c) \/ Mail!OpenFails(c)
         \/ Mail!EndRun(c) \/ Mail!GiveUp(c) \/ Mail!FetchMessage(c) \/ Mail!Skip(c)
         \/ Mail!ReceiveReader(c) \/ Mail!PartFails(c) \/ Mail!BreakOff(c) \/ Mail!FindActive(c) \/ Mail!EndMessage(c)
  PROVE  MailInv'
<1>. DEFINE Records == [at : Places, test : BOOLEAN, rules : inForce, todo : SUBSET Messages,
                        msg : Messages \cup {NoMessage}, part : Nat, failed : BOOLEAN]
<1>. DEFINE Same == UNCHANGED <<settings, inForce, box, others, active, stored>>
<1>0. /\ MailTypes /\ OneWorks /\ caller[c] \in Records /\ Mail!Idle \in Records /\ Sound(Mail!Idle) /\ Sound(caller[c])
      /\ caller \in [Callers -> Records] /\ settings.rules \in inForce
  BY CallerTypes DEF MailInv, MailTypes
<1>. USE DEF Mail!To, Mail!mailbox, Mail!documents
<1>1. CASE Mail!ReadSettings(c)
  <2>1. PICK test \in BOOLEAN : caller' = [caller EXCEPT ![c] = [Mail!Idle EXCEPT !.at = "lock", !.test = test, !.rules = settings.rules]]
    BY <1>1 DEF Mail!ReadSettings
  <2>. DEFINE k == [Mail!Idle EXCEPT !.at = "lock", !.test = test, !.rules = settings.rules]
  <2>2. k \in Records /\ k.at = "lock"
    BY <1>0 DEF Places
  <2>3. Same /\ OneWorks'
    BY <1>0, <1>1, <2>1, <2>2 DEF Mail!ReadSettings, OneWorks, AtWork
  <2>4. Sound(k)
    BY <2>2 DEF Sound, PartsDone, DeletesSettled, CreatesNew
  <2>. QED BY <2>1, <2>2, <2>3, <2>4, CallerStep
<1>2. CASE Mail!Lock(c)
  <2>. DEFINE k == [caller[c] EXCEPT !.at = "open"]
  <2>1. k \in Records /\ k.at = "open" /\ Same /\ caller' = [caller EXCEPT ![c] = k]
    BY <1>0, <1>2 DEF Mail!Lock, Places
  <2>2. OneWorks'
    BY <1>0, <1>2 DEF Mail!Lock, Mail!Free, Mail!MailAssumption, OneWorks, AtWork, Places
  <2>3. Sound(k)
    BY <2>1 DEF Sound, PartsDone, DeletesSettled, CreatesNew
  <2>. QED BY <2>1, <2>2, <2>3, CallerStep
\* The run ends.
<1>3. CASE Mail!CheckSettings(c) \/ Mail!OpenFails(c) \/ Mail!EndRun(c) \/ Mail!GiveUp(c)
  <2>1. caller' = [caller EXCEPT ![c] = Mail!Idle] /\ holder' = Nobody /\ Same /\ caller[c].at \in AtWork
    BY <1>3 DEF Mail!CheckSettings, Mail!OpenFails, Mail!EndRun, Mail!GiveUp, Mail!End, AtWork, Places
  <2>2. OneWorks'
    BY <1>0, <2>1 DEF OneWorks, Mail!Idle, AtWork, Places
  <2>. QED BY <1>0, <2>1, <2>2, CallerStep
\* A step of whoever has the lock.
<1>4. ASSUME NEW k \in Records, caller' = [caller EXCEPT ![c] = k], Same, holder' = holder, caller[c].at \in AtWork, Sound(k)
      PROVE  MailInv'
  <2>1. OneWorks'
    BY <1>0, <1>4 DEF OneWorks
  <2>. QED BY <1>4, <2>1, CallerStep
<1>5. CASE Mail!OpenMailbox(c)
  <2>. DEFINE k == [caller[c] EXCEPT !.at = "next", !.todo = Mail!Undeleted]
  <2>1. k \in Records /\ k.at = "next"
    BY <1>0 DEF Mail!Undeleted, Places
  <2>2. Sound(k)
    BY <2>1 DEF Sound, PartsDone, DeletesSettled, CreatesNew
  <2>. QED BY <1>0, <1>4, <1>5, <2>1, <2>2 DEF Mail!OpenMailbox, AtWork, Places
<1>6. CASE Mail!FetchMessage(c)
  <2>1. PICK m \in caller[c].todo : caller' = [caller EXCEPT ![c] =
               [caller[c] EXCEPT !.todo = @ \ {m}, !.msg = m, !.part = 1, !.failed = FALSE,
                                 !.at = IF Mail!SenderAllowed(m, caller[c].rules) THEN "part" ELSE "flag"]]
    <3>1. PICK m \in caller[c].todo : caller' = [caller EXCEPT ![c].todo = @ \ {m}, ![c].msg = m, ![c].part = 1, ![c].failed = FALSE,
                                        ![c].at = IF Mail!SenderAllowed(m, caller[c].rules) THEN "part" ELSE "flag"]
      BY <1>6 DEF Mail!FetchMessage
    <3>. HIDE DEF Records
    <3>. QED BY <1>0, <3>1
  <2>. DEFINE k == [caller[c] EXCEPT !.todo = @ \ {m}, !.msg = m, !.part = 1, !.failed = FALSE,
                                     !.at = IF Mail!SenderAllowed(m, caller[c].rules) THEN "part" ELSE "flag"]
  <2>2. k \in Records /\ k.msg = m /\ k.part = 1 /\ m \in Messages
        /\ k.at = IF Mail!SenderAllowed(m, caller[c].rules) THEN "part" ELSE "flag"
    BY <1>0 DEF Places
  <2>3. PartsDone(k)
    BY <2>2, Len(Parts[m]) \in Nat DEF PartsDone, Mail!MailAssumption
  <2>4. DeletesSettled(k)
    BY <1>0, <2>2 DEF DeletesSettled, Settled, Mail!Refused
  <2>5. Sound(k)
    BY <2>2, <2>3, <2>4 DEF Sound, CreatesNew
  <2>. QED BY <1>0, <1>4, <1>6, <2>1, <2>2, <2>5 DEF Mail!FetchMessage, AtWork, Places
<1>7. CASE Mail!Skip(c)
  <2>1. PICK m \in caller[c].todo : caller' = [caller EXCEPT ![c] = [caller[c] EXCEPT !.todo = @ \ {m}]]
    BY <1>0, <1>7 DEF Mail!Skip
  <2>. DEFINE k == [caller[c] EXCEPT !.todo = @ \ {m}]
  <2>2. k \in Records /\ k.at = "next"
    BY <1>0, <1>7 DEF Mail!Skip
  <2>3. Sound(k)
    BY <2>2 DEF Sound, PartsDone, DeletesSettled, CreatesNew
  <2>. QED BY <1>0, <1>4, <1>7, <2>1, <2>2, <2>3 DEF Mail!Skip, AtWork, Places
<1>8. CASE Mail!BreakOff(c)
  <2>. DEFINE k == [caller[c] EXCEPT !.at = "next"]
  <2>1. k \in Records /\ k.at = "next"
    BY <1>0 DEF Places
  <2>2. Sound(k)
    BY <2>1 DEF Sound, PartsDone, DeletesSettled, CreatesNew
  <2>. QED BY <1>0, <1>4, <1>8, <2>1, <2>2 DEF Mail!BreakOff, AtWork, Places
\* Within a message.
<1>9. CASE Mail!ReceiveReader(c)
  <2>. DEFINE k == [caller[c] EXCEPT !.at = "find"]
  <2>1. k \in Records /\ k.at = "find" /\ k.msg = caller[c].msg /\ k.part = caller[c].part /\ k.failed = caller[c].failed
    BY <1>0 DEF Places
  <2>2. Sound(k)
    BY <1>0, <1>9, <2>1 DEF Mail!ReceiveReader, Mail!HasPart, Sound, PartsDone, DeletesSettled, CreatesNew
  <2>. QED BY <1>0, <1>4, <1>9, <2>1, <2>2 DEF Mail!ReceiveReader, AtWork, Places
<1>10. CASE Mail!PartFails(c)
  <2>. DEFINE k == [caller[c] EXCEPT !.at = "part", !.part = @ + 1, !.failed = TRUE]
  <2>1. k \in Records /\ k.at = "part" /\ k.msg = caller[c].msg /\ k.part = caller[c].part + 1 /\ k.failed
    <3>1. caller[c].part + 1 \in Nat /\ "part" \in Places
      BY <1>0 DEF Places
    <3>. QED BY <1>0, <3>1
  <2>2. caller[c].at \in {"part", "find", "create"} /\ caller[c].part <= Len(Parts[caller[c].msg])
    BY <1>10 DEF Mail!PartFails, Mail!HasPart
  <2>5. caller' = [caller EXCEPT ![c] = k]
    <3>1. (caller[c].failed \/ TRUE) = TRUE
      OBVIOUS
    <3>. QED BY <1>0, <1>10, <3>1 DEF Mail!PartFails, Mail!Following
  <2>3. PartsDone(k)
    BY <1>0, <2>1, <2>2 DEF Sound, PartsDone, Mail!MailAssumption
  <2>4. Sound(k)
    BY <2>1, <2>3 DEF Sound, DeletesSettled, CreatesNew
  <2>. QED BY <1>0, <1>4, <1>10, <2>1, <2>2, <2>4, <2>5 DEF Mail!PartFails, AtWork, Places
<1>11. CASE Mail!FindActive(c) /\ caller'[c].at = "part"
  <2>. DEFINE k == [caller[c] EXCEPT !.at = "part", !.part = @ + 1]
  <2>1. k \in Records /\ k.at = "part" /\ k.msg = caller[c].msg /\ k.part = caller[c].part + 1 /\ k.failed = caller[c].failed
    <3>1. caller[c].part + 1 \in Nat /\ "part" \in Places
      BY <1>0 DEF Places
    <3>. QED BY <1>0, <3>1
  <2>2. /\ caller[c].at = "find" /\ active[Mail!Current(c)] > 0 /\ caller' = [caller EXCEPT ![c] = k]
    <3>1. (caller[c].failed \/ FALSE) = caller[c].failed
      BY <1>0
    <3>. QED BY <3>1, <1>0, <1>11 DEF Mail!FindActive, Mail!Following
  <2>3. PartsDone(caller[c]) /\ caller[c].msg \in Messages /\ caller[c].part \in 1 .. Len(Parts[caller[c].msg])
    BY <1>0, <2>2 DEF Sound, PartsDone
  <2>4. Mail!Current(c) \in stored
    BY <2>2, <2>3, PartIsFile DEF Mail!Current, MailInv, StoredOnce
  <2>5. PartsDone(k)
    BY <2>1, <2>2, <2>3, <2>4 DEF PartsDone, Mail!Current, Mail!MailAssumption
  <2>6. Sound(k)
    BY <2>1, <2>5 DEF Sound, DeletesSettled, CreatesNew
  <2>. QED BY <1>0, <1>4, <1>11, <2>1, <2>2, <2>6 DEF Mail!FindActive, AtWork, Places
<1>12. CASE Mail!FindActive(c) /\ caller'[c].at # "part"
  <2>. DEFINE k == [caller[c] EXCEPT !.at = "create"]
  <2>1. k \in Records /\ k.at = "create" /\ k.msg = caller[c].msg /\ k.part = caller[c].part /\ k.failed = caller[c].failed
    BY <1>0 DEF Places
  <2>2. /\ caller[c].at = "find" /\ (active[Mail!Current(c)] = 0 \/ Mail!Current(c) \in Archives)
        /\ caller' = [caller EXCEPT ![c] = k]
    BY <1>0, <1>12 DEF Mail!FindActive, Mail!Following
  <2>3. Sound(k)
    <3>1. PartsDone(k)
      BY <1>0, <2>1, <2>2 DEF Sound, PartsDone
    <3>2. CreatesNew(k)
      BY <1>0, <2>1, <2>2 DEF CreatesNew, Mail!Current
    <3>. QED BY <2>1, <3>1, <3>2 DEF Sound, DeletesSettled
  <2>. QED BY <1>0, <1>4, <1>12, <2>1, <2>2, <2>3 DEF Mail!FindActive, AtWork, Places
<1>13. CASE Mail!EndMessage(c)
  <2>. DEFINE k == [caller[c] EXCEPT !.at = IF Mail!Complete(c) THEN "flag" ELSE "next"]
  <2>1. k \in Records /\ k.at = (IF Mail!Complete(c) THEN "flag" ELSE "next") /\ k.msg = caller[c].msg
    BY <1>0 DEF Places
  <2>2. /\ caller[c].at = "part" /\ ~Mail!HasPart(c) /\ caller' = [caller EXCEPT ![c] = k]
    BY <1>0, <1>13 DEF Mail!EndMessage
  <2>3. caller[c].msg \in Messages /\ caller[c].part = Len(Parts[caller[c].msg]) + 1
    BY <1>0, <2>2 DEF Sound, PartsDone, Mail!HasPart, Mail!MailAssumption
  <2>4. ASSUME Mail!Complete(c) PROVE Mail!Kept(caller[c].msg)
    <3>1. ~caller[c].failed /\ Parts[caller[c].msg] # <<>>
      BY <2>4 DEF Mail!Complete
    <3>2. \A i \in 1 .. caller[c].part - 1 : caller[c].failed \/ Parts[caller[c].msg][i] \in stored
      BY <1>0, <2>2 DEF Sound, PartsDone
    <3>3. DOMAIN Parts[caller[c].msg] = 1 .. caller[c].part - 1
      BY <2>3 DEF Mail!MailAssumption
    <3>. QED BY <3>1, <3>2, <3>3 DEF Mail!Kept
  <2>5. Sound(k)
    BY <2>1, <2>3, <2>4 DEF Sound, PartsDone, DeletesSettled, CreatesNew, Settled
  <2>. QED BY <1>0, <1>4, <1>13, <2>1, <2>2, <2>5 DEF Mail!EndMessage, AtWork, Places
<1>. QED BY <1>1, <1>2, <1>3, <1>5, <1>6, <1>7, <1>8, <1>9, <1>10, <1>11, <1>12, <1>13
LEMMA CreateStep ==
  ASSUME Mail!MailAssumption, MailInv, NEW c \in Callers, Mail!CreateDocument(c)
  PROVE  MailInv'
<1>. DEFINE f == Mail!Current(c)
<1>1. /\ MailTypes /\ caller[c].at = "create" /\ Sound(caller[c]) /\ holder = c
      /\ caller[c].msg \in Messages /\ caller[c].part \in 1 .. Len(Parts[caller[c].msg]) /\ f \in Mail!Files
  BY PartIsFile DEF Mail!CreateDocument, MailInv, OneWorks, AtWork, Places, Sound, PartsDone, Mail!Current
<1>2. /\ active' = [active EXCEPT ![f] = IF @ < 2 THEN @ + 1 ELSE @] /\ stored' = stored \cup {f}
      /\ UNCHANGED <<settings, inForce, box, others, holder>>
  BY DEF Mail!CreateDocument, Mail!mailbox
<1>. DEFINE k == [caller[c] EXCEPT !.at = "part", !.part = @ + 1]
<1>. DEFINE Records == [at : Places, test : BOOLEAN, rules : inForce, todo : SUBSET Messages,
                        msg : Messages \cup {NoMessage}, part : Nat, failed : BOOLEAN]
<1>3. caller' = [caller EXCEPT ![c] = k] /\ caller[c] \in Records /\ caller \in [Callers -> Records]
  <2>1. (caller[c].failed \/ FALSE) = caller[c].failed
    BY <1>1 DEF MailTypes
  <2>. QED BY <1>1, <2>1 DEF Mail!CreateDocument, Mail!Following, MailTypes
<1>4. k \in Records /\ k.at = "part" /\ k.msg = caller[c].msg /\ k.part = caller[c].part + 1 /\ k.failed = caller[c].failed
  <2>1. caller[c].part + 1 \in Nat /\ "part" \in Places
    BY <1>1 DEF Places
  <2>. QED BY <1>3, <2>1
<1>5. MailTypes'
  <2>1. active' \in [Mail!Files -> Nat] /\ stored' \subseteq Mail!Files
    BY <1>1, <1>2 DEF MailTypes
  <2>2. caller' \in [Callers -> Records]
    BY <1>3, <1>4
  <2>. QED BY <1>1, <1>2, <2>1, <2>2 DEF MailTypes
<1>6. OneWorks' /\ RemovedIsSettled'
  BY <1>1, <1>2, <1>3 DEF MailInv, MailTypes, OneWorks, RemovedIsSettled, Settled, Mail!Refused, Mail!Kept
<1>7. StoredOnce'
  <2>1. active[f] \in Nat /\ (active[f] = 0 \/ f \in Archives)
    BY <1>1 DEF MailTypes, Sound, CreatesNew, Mail!Current
  <2>2. \A g \in Mail!Files : active'[g] = IF g = f THEN (IF active[f] < 2 THEN active[f] + 1 ELSE active[f]) ELSE active[g]
    BY <1>1, <1>2 DEF MailTypes
  <2>. HIDE DEF f
  <2>. QED BY <1>2, <2>1, <2>2 DEF MailInv, StoredOnce
<1>8. ASSUME NEW d \in Callers PROVE Sound(caller[d])'
  <2>1. CASE d = c
    <3>1. caller'[d] = k
      BY <1>3, <2>1
    <3>2. \A i \in 1 .. k.part - 1 : k.failed \/ Parts[k.msg][i] \in stored'
      BY <1>1, <1>2, <1>4 DEF Sound, PartsDone, Mail!Current, Mail!MailAssumption
    <3>3. PartsDone(caller[d])'
      BY <1>1, <1>4, <3>1, <3>2 DEF PartsDone, Mail!MailAssumption
    <3>. QED BY <1>4, <3>1, <3>3 DEF Sound, DeletesSettled, CreatesNew
  <2>2. CASE d # c
    <3>1. caller'[d] = caller[d] /\ caller[d].at \notin AtWork
      BY <1>1, <1>3, <2>2 DEF MailInv, MailTypes, OneWorks
    <3>. QED BY <3>1 DEF Sound, PartsDone, DeletesSettled, CreatesNew, AtWork, Places
  <2>. QED BY <2>1, <2>2
<1>. QED BY <1>5, <1>6, <1>7, <1>8 DEF MailInv

\* What only adds to the history, or takes documents away, keeps what is settled.
LEMMA DeletionSteps ==
  ASSUME Mail!MailAssumption, MailInv, NEW c \in Callers, Mail!Flag(c) \/ Mail!Expunge(c) \/ Mail!DeleteFails(c)
  PROVE  MailInv'
<1>. DEFINE m == caller[c].msg
<1>1. /\ MailTypes /\ caller[c].at \in {"flag", "expunge"} /\ holder = c
      /\ m \in Messages /\ Settled(m)
  BY DEF Mail!Flag, Mail!Expunge, Mail!DeleteFails, MailInv, OneWorks, AtWork, Places, Sound, DeletesSettled
<1>2. UNCHANGED <<settings, inForce, others, active, stored, holder>>
  BY DEF Mail!Flag, Mail!Expunge, Mail!DeleteFails, Mail!documents
<1>3. PICK at \in {"expunge", "next"} : caller' = [caller EXCEPT ![c].at = at]
  BY DEF Mail!Flag, Mail!Expunge, Mail!DeleteFails, Mail!To
<1>4. box' \in {box, [box EXCEPT ![m] = IF @ = "there" THEN "flagged" ELSE @], Mail!Expunged}
  BY DEF Mail!Flag, Mail!Expunge, Mail!DeleteFails
<1>5. /\ box' \in [Messages -> {"there", "flagged", "gone"}]
      /\ \A n \in Messages : box'[n] # "there" => box[n] # "there" \/ n = m
  BY <1>1, <1>4 DEF MailTypes, Mail!Expunged
<1>6. MailTypes'
  BY <1>1, <1>2, <1>3, <1>5 DEF MailTypes, Places
<1>7. OneWorks' /\ StoredOnce'
  BY <1>1, <1>2, <1>3 DEF MailInv, MailTypes, OneWorks, StoredOnce
<1>8. RemovedIsSettled'
  BY <1>1, <1>2, <1>5 DEF MailInv, RemovedIsSettled, Settled, Mail!Refused, Mail!Kept
<1>9. ASSUME NEW d \in Callers PROVE Sound(caller[d])'
  <2>1. /\ caller'[d].msg = caller[d].msg
        /\ caller'[d].at = caller[d].at \/ (d = c /\ caller'[d].at \in {"expunge", "next"})
    BY <1>1, <1>3 DEF MailTypes
  <2>2. CASE d = c
    BY <1>1, <1>2, <1>3, <2>1, <2>2 DEF MailTypes, Sound, PartsDone, DeletesSettled, CreatesNew, Settled, Mail!Refused, Mail!Kept
  <2>3. CASE d # c
    <3>1. caller'[d] = caller[d] /\ Sound(caller[d])
      BY <1>1, <1>3, <2>3 DEF MailInv, MailTypes
    <3>. QED BY <1>2, <3>1 DEF Sound, PartsDone, DeletesSettled, CreatesNew, Settled, Mail!Refused, Mail!Kept
  <2>. QED BY <2>2, <2>3
<1>. QED BY <1>6, <1>7, <1>8, <1>9 DEF MailInv

LEMMA OthersSteps ==
  ASSUME Mail!MailAssumption, MailInv,
         \/ \E s \in [enabled : BOOLEAN, rules : Rules] : Mail!SaveSettings(s)
         \/ \E m \in Messages : Mail!OtherClient(m)
         \/ \E f \in Mail!Files : Mail!SoftDelete(f)
         \/ Mail!Crash
  PROVE  MailInv'
<1>. USE DEF MailInv, Mail!mailbox, Mail!documents
<1>1. ASSUME NEW s \in [enabled : BOOLEAN, rules : Rules], Mail!SaveSettings(s) PROVE MailInv'
  <2>1. settings' = s /\ inForce' = inForce \cup {s.rules} /\ UNCHANGED <<box, others, active, stored, holder, caller>>
    BY <1>1 DEF Mail!SaveSettings
  <2>2. MailTypes'
    BY <2>1 DEF MailTypes
  <2>3. \A m : Settled(m) => Settled(m)'
    BY <2>1 DEF Settled, Mail!Refused, Mail!Kept
  <2>4. OneWorks' /\ RemovedIsSettled' /\ StoredOnce'
    BY <2>1, <2>3 DEF OneWorks, RemovedIsSettled, StoredOnce
  <2>5. ASSUME NEW c \in Callers PROVE Sound(caller[c])'
    BY <2>1, <2>3 DEF Sound, PartsDone, DeletesSettled, CreatesNew
  <2>. QED BY <2>2, <2>4, <2>5
<1>2. ASSUME NEW m \in Messages, Mail!OtherClient(m) PROVE MailInv'
  <2>1. /\ others' = others \cup {m} /\ UNCHANGED <<settings, inForce, active, stored, holder, caller>>
        /\ box' \in [Messages -> {"there", "flagged", "gone"}] /\ \A n \in Messages \ {m} : box'[n] = box[n]
    BY <1>2 DEF Mail!OtherClient, MailTypes
  <2>2. MailTypes'
    BY <2>1 DEF MailTypes
  <2>3. OneWorks' /\ RemovedIsSettled' /\ StoredOnce'
    BY <2>1 DEF OneWorks, RemovedIsSettled, StoredOnce, Settled, Mail!Refused, Mail!Kept
  <2>4. ASSUME NEW c \in Callers PROVE Sound(caller[c])'
    BY <2>1 DEF Sound, PartsDone, DeletesSettled, CreatesNew, Settled, Mail!Refused, Mail!Kept
  <2>. QED BY <2>2, <2>3, <2>4
<1>3. ASSUME NEW f \in Mail!Files, Mail!SoftDelete(f) PROVE MailInv'
  <2>1. active' = [active EXCEPT ![f] = 0] /\ UNCHANGED <<settings, inForce, box, others, stored, holder, caller>>
    BY <1>3 DEF Mail!SoftDelete
  <2>2. MailTypes'
    BY <2>1 DEF MailTypes
  <2>3. OneWorks' /\ RemovedIsSettled' /\ StoredOnce'
    BY <2>1 DEF MailTypes, OneWorks, RemovedIsSettled, StoredOnce, Settled, Mail!Refused, Mail!Kept
  <2>4. ASSUME NEW c \in Callers PROVE Sound(caller[c])'
    <3>1. caller[c].at = "create" => Parts[caller[c].msg][caller[c].part] \in Mail!Files
      BY PartIsFile DEF Sound, PartsDone
    <3>. QED BY <2>1, <3>1 DEF MailTypes, Sound, PartsDone, DeletesSettled, CreatesNew, Settled, Mail!Refused, Mail!Kept
  <2>. QED BY <2>2, <2>3, <2>4
<1>4. CASE Mail!Crash
  <2>1. /\ caller' = [c \in Callers |-> Mail!Idle] /\ Mail!Idle.at = "idle"
        /\ UNCHANGED <<settings, inForce, box, others, active, stored>>
    BY <1>4 DEF Mail!Crash, Mail!Idle
  <2>2. MailTypes'
    BY <2>1 DEF MailTypes, Mail!Idle, Places
  <2>3. OneWorks' /\ RemovedIsSettled' /\ StoredOnce'
    BY <2>1 DEF OneWorks, AtWork, RemovedIsSettled, StoredOnce, Settled, Mail!Refused, Mail!Kept
  <2>4. ASSUME NEW c \in Callers PROVE Sound(caller[c])'
    BY <2>1 DEF Sound, PartsDone, DeletesSettled, CreatesNew
  <2>. QED BY <2>2, <2>3, <2>4
<1>. QED BY <1>1, <1>2, <1>3, <1>4

LEMMA MailUnchanged == ASSUME MailInv, UNCHANGED Mail!vars PROVE MailInv'
<1>1. UNCHANGED <<settings, inForce, box, others, active, stored, holder, caller>>
  BY DEF Mail!vars
<1>2. MailTypes' /\ OneWorks' /\ RemovedIsSettled' /\ StoredOnce'
  BY <1>1 DEF MailInv, MailTypes, OneWorks, RemovedIsSettled, StoredOnce, Settled, Mail!Refused, Mail!Kept
<1>3. ASSUME NEW c \in Callers PROVE Sound(caller[c])'
  BY <1>1 DEF MailInv, Sound, PartsDone, DeletesSettled, CreatesNew, Settled, Mail!Refused, Mail!Kept
<1>. QED BY <1>2, <1>3 DEF MailInv

\* What the import takes out of the mailbox had its sender refused, or is
\* stored as a whole, however runs fail, break off and are repeated, and a PDF
\* is in the archive once (service.go ImportPDFs).
THEOREM ImportedMailIsStored == Mail!Spec => []MailIsStored
<1>1. Mail!Init => MailInv
  BY MailInit
<1>2. MailInv /\ [Mail!Next]_Mail!vars => MailInv'
  BY MailInstance, CallerSteps, CreateStep, DeletionSteps, OthersSteps, MailUnchanged DEF Mail!Next
<1>3. MailInv => MailIsStored
  BY DEF MailIsStored, MailInv, RemovedIsSettled, StoredOnce, Settled, Mail!MailIsStored
<1>. QED BY <1>1, <1>2, <1>3, PTL DEF Mail!Spec

-----------------------------------------------------------------------------
(* Thumbnails                                                               *)

Photos == [bytes : Nat, time : Nat, change : Nat]
Scans == Photos \cup {Nothing}
Rows == [src : Nat, status : {"queued", "generated", "failed"}, verified : BOOLEAN] \cup {NoRow}
Files == [bytes : Nat, time : Nat]
Db == [media : Nat, bytes : Nat, time : Nat, key : Nat, rows : [Thumbnails!Sizes -> Rows],
       garbage : SUBSET (Nat \X Thumbnails!Sizes)]
Goroutines == [at : Thumbnails!Leading \cup {"idle", "wait"}, size : Thumbnails!Sizes, saw : Scans, key : Nat,
               made : Nat \cup Files \cup {Nothing}, leader : Clients \cup {Nothing}]
ThumbnailTypes ==
    /\ photo \in Photos /\ honest \in BOOLEAN /\ changes \in 0 .. MaxChanges + 1 /\ db \in Db
    /\ files \in [Thumbnails!Keys -> [Thumbnails!Sizes -> Files \cup {NoFile}]]
    /\ rebuild \in [at : {"idle", "scanned", "published", "collect"}, scan : Scans]
    /\ client \in [Clients -> Goroutines]

PhotoIsOfNow == /\ photo.bytes <= changes /\ photo.change <= changes /\ photo.time <= changes
                /\ honest => photo.time = photo.change
\* What was scanned, or is published, is no newer than the photo, and of the
\* photo if it has its time and times are those of the changes.
Seen(e) == /\ e.bytes <= photo.bytes /\ e.time <= changes
           /\ honest /\ e.time = photo.time => e.bytes = photo.bytes
IndexIsSeen == Seen(db) /\ db.key = db.bytes
RebuildIsSeen == rebuild.at = "scanned" => /\ rebuild.scan \in Photos /\ Seen(rebuild.scan)
                                           /\ rebuild.scan.bytes >= db.bytes
\* A file in the place of the photo shows it, and so does one that was made
\* since, if times are those of the changes.
Right(key, file) == /\ key <= photo.bytes /\ file.time <= changes
                    /\ key = photo.bytes => file.bytes = photo.bytes
                    /\ honest /\ file.time >= photo.change => file.bytes = photo.bytes
FilesAreRight == \A k \in Thumbnails!Keys, s \in Thumbnails!Sizes : files[k][s] # NoFile => Right(k, files[k][s])
WorksRight(c) ==
    /\ c.at \in Thumbnails!Leading => c.saw \in Photos /\ c.saw.change <= changes /\ c.key <= db.key
    /\ c.at = "check" => /\ c.made \in Nat
                         /\ c.saw = photo /\ (honest \/ c.key = photo.bytes) => c.made = photo.bytes
    /\ c.at = "rename" => c.made \in Files /\ Right(c.key, c.made)
ThumbnailInv ==
    ThumbnailTypes /\ PhotoIsOfNow /\ IndexIsSeen /\ RebuildIsSeen /\ FilesAreRight
        /\ \A c \in Clients : WorksRight(client[c])

LEMMA ThumbnailInit == ASSUME Thumbnails!ThumbnailAssumption, Thumbnails!Init PROVE ThumbnailInv
<1>. USE DEF Thumbnails!ThumbnailAssumption, Thumbnails!Init
<1>1. ThumbnailTypes
  BY DEF ThumbnailTypes, Photos, Scans, Rows, Files, Db, Goroutines, Thumbnails!Idle, Thumbnails!Leading, Thumbnails!Sizes, Thumbnails!Keys
<1>2. PhotoIsOfNow /\ IndexIsSeen /\ RebuildIsSeen /\ FilesAreRight
  BY DEF PhotoIsOfNow, IndexIsSeen, RebuildIsSeen, Seen, FilesAreRight
<1>3. ASSUME NEW c \in Clients PROVE WorksRight(client[c])
  BY DEF WorksRight, Thumbnails!Idle, Thumbnails!Leading
<1>. QED BY <1>1, <1>2, <1>3 DEF ThumbnailInv

\* What is ready for the photo shows it.
LEMMA ReadyIsRight ==
  ASSUME Thumbnails!ThumbnailAssumption, ThumbnailInv, NEW s \in Thumbnails!Sizes, NEW t \in Nat,
         Thumbnails!Ready(db, s, t), db.bytes = photo.bytes \/ (honest /\ t = photo.time)
  PROVE  Thumbnails!FileOf(db, s) \in Files /\ Thumbnails!FileOf(db, s).bytes = photo.bytes
<1>1. /\ photo.bytes \in Nat /\ photo.change \in Nat /\ photo.time \in Nat /\ changes \in 0 .. MaxChanges + 1
      /\ db.bytes \in Nat /\ db.key = db.bytes
  BY DEF ThumbnailInv, ThumbnailTypes, IndexIsSeen, Photos, Db
<1>2. db.key \in Thumbnails!Keys
  BY <1>1 DEF ThumbnailInv, IndexIsSeen, Seen, PhotoIsOfNow, Thumbnails!Keys, Thumbnails!ThumbnailAssumption
<1>3. files[db.key][s] \in Files /\ Right(db.key, files[db.key][s])
  BY <1>2 DEF ThumbnailInv, ThumbnailTypes, FilesAreRight, Thumbnails!Ready, Thumbnails!Current, Thumbnails!FileOf
<1>4. CASE db.bytes = photo.bytes
  BY <1>1, <1>3, <1>4 DEF Right, Thumbnails!FileOf
<1>5. CASE honest /\ t = photo.time
  <2>1. files[db.key][s].time >= t \/ db.time = t
    BY DEF Thumbnails!Ready, Thumbnails!Current, Thumbnails!Verified, Thumbnails!FileOf
  <2>2. CASE files[db.key][s].time >= t
    BY <1>1, <1>3, <1>5, <2>2 DEF ThumbnailInv, PhotoIsOfNow, Right, Thumbnails!FileOf
  <2>3. CASE db.time = t
    BY <1>1, <1>3, <1>4, <1>5, <2>3 DEF ThumbnailInv, IndexIsSeen, Seen
  <2>. QED BY <2>1, <2>2, <2>3
<1>. QED BY <1>4, <1>5

LEMMA ThumbnailsAreRight == ASSUME Thumbnails!ThumbnailAssumption, ThumbnailInv PROVE Thumbnails!ShowsPhoto
<1>1. photo.time \in Nat /\ db.media \in Nat
  BY DEF ThumbnailInv, ThumbnailTypes, Photos, Db
<1>. QED BY <1>1, ReadyIsRight DEF Thumbnails!ShowsPhoto, Thumbnails!Shows

\* What changes only rows keeps the index as it was seen.
SameIndex(d) == d \in Db /\ d.bytes = db.bytes /\ d.time = db.time /\ d.key = db.key
LEMMA RowChange ==
  ASSUME ThumbnailInv, NEW s \in Thumbnails!Sizes, NEW row \in Rows
  PROVE  SameIndex([db EXCEPT !.rows[s] = row])
  BY DEF ThumbnailInv, ThumbnailTypes, SameIndex, Db
LEMMA RowsTyped ==
  ASSUME NEW row \in Rows, NEW src \in Nat
  PROVE  /\ Thumbnails!Row(src, "queued") \in Rows /\ Thumbnails!Queued(row, src) \in Rows
         /\ Thumbnails!Generated(row, src) \in Rows /\ Thumbnails!Failed(src) \in Rows
  BY DEF Rows, Thumbnails!Row, Thumbnails!Queued, Thumbnails!Generated, Thumbnails!Failed
LEMMA SavedIsSame ==
  ASSUME ThumbnailInv, NEW src \in Nat
  PROVE  SameIndex(Thumbnails!Saved(db, src))
  BY RowsTyped DEF ThumbnailInv, ThumbnailTypes, SameIndex, Db, Thumbnails!Saved
LEMMA RepairedIsSame ==
  ASSUME ThumbnailInv, NEW d, SameIndex(d), NEW s \in Thumbnails!Sizes, NEW src \in Nat
  PROVE  SameIndex(Thumbnails!Repaired(d, s, src))
  BY RowsTyped DEF ThumbnailInv, ThumbnailTypes, SameIndex, Db, Thumbnails!Repaired

\* A step of the goroutines and the rows.
LEMMA WorkStep ==
  ASSUME ThumbnailInv, SameIndex(db'), UNCHANGED <<photo, honest, changes, files, rebuild>>,
         client' \in [Clients -> Goroutines], \A c \in Clients : WorksRight(client'[c])
  PROVE  ThumbnailInv'
<1>1. ThumbnailTypes'
  BY DEF ThumbnailInv, ThumbnailTypes, SameIndex
<1>2. PhotoIsOfNow' /\ IndexIsSeen' /\ RebuildIsSeen' /\ FilesAreRight'
  BY DEF ThumbnailInv, SameIndex, PhotoIsOfNow, IndexIsSeen, RebuildIsSeen, Seen, FilesAreRight, Right
<1>3. ASSUME NEW c \in Clients PROVE WorksRight(client[c])'
  BY DEF SameIndex, WorksRight, Right
<1>. QED BY <1>1, <1>2, <1>3 DEF ThumbnailInv

ClientsAreRight(k) == k \in [Clients -> Goroutines] /\ \A c \in Clients : WorksRight(k[c])
LEMMA IdleIsRight == Thumbnails!Idle \in Goroutines /\ WorksRight(Thumbnails!Idle)
  BY DEF Goroutines, Thumbnails!Idle, Thumbnails!Sizes, Thumbnails!Leading, Scans, WorksRight
LEMMA SetIsRight ==
  ASSUME ThumbnailInv, NEW c \in Clients, NEW k \in Goroutines, WorksRight(k), client' = [client EXCEPT ![c] = k]
  PROVE  ClientsAreRight(client')
<1>1. client \in [Clients -> Goroutines] /\ \A d \in Clients : WorksRight(client[d])
  BY DEF ThumbnailInv, ThumbnailTypes
<1>2. client' \in [Clients -> Goroutines] /\ \A d \in Clients : client'[d] = IF d = c THEN k ELSE client[d]
  BY <1>1
<1>3. ASSUME NEW d \in Clients PROVE WorksRight(client'[d])
  BY <1>1, <1>2
<1>. QED BY <1>2, <1>3 DEF ClientsAreRight
LEMMA DoneIsRight ==
  ASSUME ThumbnailInv, NEW c \in Clients, Thumbnails!Done(c)
  PROVE  ClientsAreRight(client')
<1>1. client \in [Clients -> Goroutines] /\ \A d \in Clients : WorksRight(client[d])
  BY DEF ThumbnailInv, ThumbnailTypes
<1>2. \A d \in Clients : client'[d] \in {Thumbnails!Idle, client[d]}
  BY DEF Thumbnails!Done
<1>3. client' \in [Clients -> Goroutines]
  BY <1>1, IdleIsRight DEF Thumbnails!Done
<1>4. ASSUME NEW d \in Clients PROVE WorksRight(client'[d])
  BY <1>1, <1>2, IdleIsRight
<1>. QED BY <1>3, <1>4 DEF ClientsAreRight
LEMMA FlyIsRight ==
  ASSUME ThumbnailInv, NEW c \in Clients, NEW d, SameIndex(d), NEW s \in Thumbnails!Sizes, Thumbnails!Fly(c, d, s)
  PROVE  ClientsAreRight(client')
<1>. DEFINE wait(l) == [Thumbnails!Idle EXCEPT !.at = "wait", !.size = s, !.leader = l]
            slot == [Thumbnails!Idle EXCEPT !.at = "slot", !.size = s, !.saw = photo, !.key = d.key]
<1>1. \E k \in {Thumbnails!Idle, slot} \cup {wait(l) : l \in Clients} : client' = [client EXCEPT ![c] = k]
  BY DEF Thumbnails!Fly
<1>2. photo \in Photos /\ photo.change <= changes /\ d.key = db.key /\ d.key \in Nat
  BY DEF ThumbnailInv, ThumbnailTypes, PhotoIsOfNow, SameIndex, Db
<1>3. slot \in Goroutines /\ WorksRight(slot)
  <2>1. slot \in Goroutines
    BY <1>2 DEF Goroutines, Thumbnails!Idle, Thumbnails!Sizes, Thumbnails!Leading, Scans
  <2>2. slot.at = "slot" /\ slot.saw = photo /\ slot.key = d.key
    BY DEF Thumbnails!Idle
  <2>. QED BY <1>2, <2>1, <2>2 DEF WorksRight
<1>4. ASSUME NEW l \in Clients PROVE wait(l) \in Goroutines /\ WorksRight(wait(l))
  BY DEF Goroutines, Thumbnails!Idle, Thumbnails!Sizes, Thumbnails!Leading, Scans, WorksRight
<1>. HIDE DEF wait, slot
<1>. QED BY <1>1, <1>3, <1>4, IdleIsRight, SetIsRight

\* Steps that write only rows.
LEMMA RowSteps ==
  ASSUME ThumbnailInv, NEW s \in Thumbnails!Sizes,
         Thumbnails!AskStatus(s) \/ Thumbnails!AskStatusBatch(s) \/ Thumbnails!ServeCached(s) \/ Thumbnails!EnsureQueue(s)
  PROVE  ThumbnailInv'
<1>1. photo.time \in Nat /\ db.media \in Nat /\ db \in Db /\ db.rows[s] \in Rows /\ SameIndex(db)
  BY DEF ThumbnailInv, ThumbnailTypes, Photos, Db, SameIndex
<1>2. UNCHANGED <<photo, honest, changes, files, rebuild, client>>
  BY DEF Thumbnails!AskStatus, Thumbnails!AskStatusBatch, Thumbnails!ServeCached, Thumbnails!EnsureQueue
<1>3. SameIndex(db')
  <2>1. CASE Thumbnails!AskStatus(s)
    <3>. DEFINE d == Thumbnails!Saved(db, photo.time)
    <3>1. SameIndex(d)
      BY <1>1, SavedIsSame
    <3>2. d.rows[s] \in Rows /\ Thumbnails!Queued(d.rows[s], photo.time) \in Rows
      BY <1>1, <3>1, RowsTyped DEF SameIndex, Db
    <3>3. SameIndex([d EXCEPT !.rows[s] = Thumbnails!Queued(d.rows[s], photo.time)])
      BY <3>1, <3>2 DEF SameIndex, Db
    <3>. QED BY <1>1, <2>1, <3>3, RepairedIsSame DEF Thumbnails!AskStatus
  <2>2. CASE Thumbnails!AskStatusBatch(s)
    <3>1. db' = [db EXCEPT !.rows[s] = Thumbnails!Queued(db.rows[s], db.media)]
      BY <1>1, <2>2 DEF Thumbnails!AskStatusBatch, Db
    <3>. QED BY <1>1, <3>1, RowsTyped, RowChange
  <2>3. CASE Thumbnails!ServeCached(s)
    BY <1>1, <2>3, RepairedIsSame DEF Thumbnails!ServeCached
  <2>4. CASE Thumbnails!EnsureQueue(s)
    BY <1>1, <2>4, RowsTyped, RowChange DEF Thumbnails!EnsureQueue
  <2>. QED BY <2>1, <2>2, <2>3, <2>4
<1>. QED BY <1>2, <1>3, WorkStep DEF ThumbnailInv, ThumbnailTypes

\* A flight begins.
LEMMA FlightSteps ==
  ASSUME ThumbnailInv, NEW c \in Clients, NEW s \in Thumbnails!Sizes, Thumbnails!Thumbnail(c, s) \/ Thumbnails!Ensure(c, s)
  PROVE  ThumbnailInv'
<1>1. photo.time \in Nat /\ db.media \in Nat /\ SameIndex(db)
  BY DEF ThumbnailInv, ThumbnailTypes, Photos, Db, SameIndex
<1>2. ClientsAreRight(client)
  BY DEF ThumbnailInv, ThumbnailTypes, ClientsAreRight
<1>3. SameIndex(db') /\ ClientsAreRight(client') /\ UNCHANGED <<photo, honest, changes, files, rebuild>>
  <2>1. CASE Thumbnails!Thumbnail(c, s)
    <3>. DEFINE d == Thumbnails!Saved(db, photo.time)
    <3>1. SameIndex(d)
      BY <1>1, SavedIsSame
    <3>2. Thumbnails!Fly(c, d, s) /\ db' = Thumbnails!Repaired(d, s, photo.time) /\ UNCHANGED <<photo, honest, changes, files, rebuild>>
      BY <2>1 DEF Thumbnails!Thumbnail
    <3>. HIDE DEF d
    <3>. QED BY <1>1, <3>1, <3>2, FlyIsRight, RepairedIsSame
  <2>2. CASE Thumbnails!Ensure(c, s)
    BY <1>1, <1>2, <2>2, FlyIsRight, RepairedIsSame DEF Thumbnails!Ensure
  <2>. QED BY <2>1, <2>2
<1>. QED BY <1>3, WorkStep DEF ClientsAreRight

\* The source of a thumbnail shows the photo, if the photo is what was read.
LEMMA SourceIsRight ==
  ASSUME Thumbnails!ThumbnailAssumption, ThumbnailInv, NEW c \in Clients, client[c].at = "render", Thumbnails!Render(c)
  PROVE  /\ client'[c].made \in Nat
         /\ client[c].saw = photo /\ (honest \/ client[c].key = photo.bytes) => client'[c].made = photo.bytes
<1>. DEFINE t == client[c].saw.time
<1>1. client[c] \in Goroutines /\ client[c].saw \in Photos /\ client[c].key <= db.key /\ client[c].key \in Nat /\ t \in Nat
  BY DEF ThumbnailInv, ThumbnailTypes, WorksRight, Thumbnails!Leading, Goroutines, Photos
<1>2. photo.bytes \in Nat /\ db.bytes \in Nat /\ db.key = db.bytes /\ db.bytes <= photo.bytes
  BY DEF ThumbnailInv, ThumbnailTypes, IndexIsSeen, Seen, Photos, Db
<1>3. CASE ~Thumbnails!HasLarger(client[c].size, t)
  BY <1>2, <1>3 DEF Thumbnails!Render, ThumbnailInv, ThumbnailTypes, Goroutines
<1>4. CASE Thumbnails!HasLarger(client[c].size, t)
  <2>1. "large" \in Thumbnails!Sizes /\ Thumbnails!Ready(db, "large", t)
    BY <1>4 DEF Thumbnails!HasLarger, Thumbnails!Sizes
  <2>2. client'[c].made = Thumbnails!FileOf(db, "large").bytes
    BY <1>4 DEF Thumbnails!Render, ThumbnailInv, ThumbnailTypes, Goroutines
  <2>3. Thumbnails!FileOf(db, "large").bytes \in Nat
    <3>1. db.key \in Thumbnails!Keys
      BY <1>2 DEF ThumbnailInv, ThumbnailTypes, PhotoIsOfNow, Thumbnails!Keys, Thumbnails!ThumbnailAssumption
    <3>. QED BY <2>1, <3>1 DEF ThumbnailInv, ThumbnailTypes, Thumbnails!Ready, Thumbnails!Current, Thumbnails!FileOf, Files
  <2>4. ASSUME client[c].saw = photo, honest \/ client[c].key = photo.bytes
        PROVE  Thumbnails!FileOf(db, "large").bytes = photo.bytes
    <3>1. db.bytes = photo.bytes \/ (honest /\ t = photo.time)
      BY <1>1, <1>2, <2>4
    <3>. QED BY <1>1, <2>1, <3>1, ReadyIsRight
  <2>. QED BY <2>2, <2>3, <2>4
<1>. QED BY <1>3, <1>4

LEMMA WorkSteps ==
  ASSUME Thumbnails!ThumbnailAssumption, ThumbnailInv, NEW c \in Clients, Thumbnails!Work(c) \/ Thumbnails!AcquireSlot(c)
  PROVE  ThumbnailInv'
<1>. DEFINE w == client[c]
<1>0. /\ SameIndex(db) /\ db \in Db /\ w \in Goroutines /\ WorksRight(w) /\ ClientsAreRight(client) /\ w.size \in Thumbnails!Sizes
      /\ w.at \in Thumbnails!Leading => w.saw \in Photos /\ w.saw.time \in Nat
  BY DEF ThumbnailInv, ThumbnailTypes, SameIndex, ClientsAreRight, Goroutines, WorksRight, Photos
<1>. DEFINE Same == UNCHANGED <<photo, honest, changes, files, rebuild>>
<1>. DEFINE SetRow(r) == [db EXCEPT !.rows[w.size] = r]
<1>1. ASSUME Thumbnails!Done(c), SameIndex(db'), Same PROVE ThumbnailInv'
  BY <1>1, DoneIsRight, WorkStep DEF ClientsAreRight
<1>2. ASSUME NEW k \in Goroutines, WorksRight(k), client' = [client EXCEPT ![c] = k], SameIndex(db'), Same PROVE ThumbnailInv'
  BY <1>2, SetIsRight, WorkStep DEF ClientsAreRight
<1>3. CASE Thumbnails!AcquireSlot(c)
  <2>1. CASE Thumbnails!Ready(db, w.size, w.saw.time)
    <3>1. SameIndex(db')
      BY <1>0, <1>3, <2>1, RepairedIsSame DEF Thumbnails!AcquireSlot, Thumbnails!Leading
    <3>. QED BY <1>1, <1>3, <2>1, <3>1 DEF Thumbnails!AcquireSlot
  <2>2. CASE ~Thumbnails!Ready(db, w.size, w.saw.time)
    <3>. DEFINE k == [w EXCEPT !.at = "render"]
    <3>1. k \in Goroutines /\ WorksRight(k) /\ client' = [client EXCEPT ![c] = k]
      BY <1>0, <1>3, <2>2 DEF Thumbnails!AcquireSlot, Thumbnails!To, Goroutines, WorksRight, Thumbnails!Leading
    <3>. QED BY <1>0, <1>2, <1>3, <2>2, <3>1 DEF Thumbnails!AcquireSlot
  <2>. QED BY <2>1, <2>2
<1>4. CASE Thumbnails!Render(c)
  <2>. DEFINE k == [w EXCEPT !.at = "check", !.made = client'[c].made]
  <2>1. client' = [client EXCEPT ![c] = k]
    <3>1. PICK b : client' = [client EXCEPT ![c] = [w EXCEPT !.at = "check", !.made = b]]
      BY <1>0, <1>4 DEF Thumbnails!Render, ClientsAreRight
    <3>2. client'[c].made = b
      BY <1>0, <3>1 DEF ClientsAreRight, Goroutines
    <3>. QED BY <3>1, <3>2
  <2>2. /\ client'[c].made \in Nat
        /\ w.saw = photo /\ (honest \/ w.key = photo.bytes) => client'[c].made = photo.bytes
    BY <1>4, SourceIsRight DEF Thumbnails!Render
  <2>3. k \in Goroutines /\ WorksRight(k)
    BY <1>0, <1>4, <2>2 DEF Thumbnails!Render, Goroutines, WorksRight, Thumbnails!Leading
  <2>. QED BY <1>0, <1>2, <1>4, <2>1, <2>3 DEF Thumbnails!Render
<1>5. CASE Thumbnails!RenderFails(c)
  <2>1. db' = SetRow(Thumbnails!Failed(w.saw.time)) /\ Thumbnails!Failed(w.saw.time) \in Rows
    BY <1>0, <1>5 DEF Thumbnails!RenderFails, Thumbnails!Leading, Thumbnails!Failed, Thumbnails!Row, Rows
  <2>. QED BY <1>0, <1>1, <1>5, <2>1, RowChange DEF Thumbnails!RenderFails
<1>6. CASE Thumbnails!Check(c) /\ Thumbnails!Unchanged(c)
  <2>. DEFINE file == [bytes |-> w.made, time |-> changes]
              k == [w EXCEPT !.at = "rename", !.made = file]
  <2>1. client' = [client EXCEPT ![c] = k]
    BY <1>0, <1>6 DEF Thumbnails!Check, ClientsAreRight, Goroutines
  <2>2. /\ w.made \in Nat /\ w.saw = photo /\ w.key = db.key /\ changes \in Nat
        /\ (honest \/ w.key = photo.bytes) => w.made = photo.bytes
    BY <1>0, <1>6 DEF Thumbnails!Check, Thumbnails!Unchanged, WorksRight, ThumbnailInv, ThumbnailTypes, Thumbnails!ThumbnailAssumption
  <2>3. w.key <= photo.bytes
    BY <2>2 DEF ThumbnailInv, IndexIsSeen, Seen
  <2>4. k \in Goroutines /\ WorksRight(k)
    <3>1. file \in Files /\ Right(w.key, file)
      BY <2>2, <2>3 DEF Files, Right
    <3>. HIDE DEF file
    <3>. QED BY <1>0, <1>6, <3>1 DEF Thumbnails!Check, Goroutines, WorksRight, Thumbnails!Leading
  <2>. QED BY <1>0, <1>2, <1>6, <2>1, <2>4 DEF Thumbnails!Check
<1>7. CASE (Thumbnails!Check(c) /\ ~Thumbnails!Unchanged(c)) \/ Thumbnails!GiveUp(c)
  BY <1>0, <1>1, <1>7 DEF Thumbnails!Check, Thumbnails!GiveUp
<1>8. CASE Thumbnails!Mark(c)
  <2>1. db' = SetRow(Thumbnails!Generated(db.rows[w.size], w.saw.time)) /\ db.rows[w.size] \in Rows
    BY <1>0, <1>8 DEF Thumbnails!Mark, Db
  <2>2. Thumbnails!Generated(db.rows[w.size], w.saw.time) \in Rows
    BY <1>0, <1>8, <2>1, RowsTyped DEF Thumbnails!Mark, Thumbnails!Leading
  <2>. QED BY <1>0, <1>1, <1>8, <2>1, <2>2, RowChange DEF Thumbnails!Mark
<1>9. CASE Thumbnails!Rename(c)
  <2>. DEFINE k == [w EXCEPT !.at = "mark"]
  <2>1. k \in Goroutines /\ WorksRight(k) /\ client' = [client EXCEPT ![c] = k]
    BY <1>0, <1>9 DEF Thumbnails!Rename, Thumbnails!To, Goroutines, WorksRight, Thumbnails!Leading
  <2>2. ClientsAreRight(client')
    BY <2>1, SetIsRight
  <2>3. /\ UNCHANGED <<photo, honest, changes, db, rebuild>> /\ w.made \in Files /\ Right(w.key, w.made)
        /\ files' = [files EXCEPT ![w.key][w.size] = w.made]
    BY <1>0, <1>9 DEF Thumbnails!Rename, WorksRight
  <2>4. ThumbnailTypes'
    BY <2>2, <2>3 DEF ThumbnailInv, ThumbnailTypes, ClientsAreRight
  <2>5. ASSUME NEW n \in Thumbnails!Keys, NEW s \in Thumbnails!Sizes, files'[n][s] # NoFile PROVE Right(n, files'[n][s])
    <3>1. CASE n = w.key /\ s = w.size
      BY <2>3, <3>1 DEF ThumbnailInv, ThumbnailTypes
    <3>2. CASE ~(n = w.key /\ s = w.size)
      <4>1. files'[n][s] = files[n][s]
        BY <2>3, <3>2 DEF ThumbnailInv, ThumbnailTypes
      <4>. QED BY <2>5, <4>1 DEF ThumbnailInv, FilesAreRight
    <3>. QED BY <3>1, <3>2
  <2>6. PhotoIsOfNow' /\ IndexIsSeen' /\ RebuildIsSeen' /\ FilesAreRight'
    BY <2>3, <2>5 DEF ThumbnailInv, PhotoIsOfNow, IndexIsSeen, RebuildIsSeen, Seen, FilesAreRight, Right
  <2>7. ASSUME NEW d \in Clients PROVE WorksRight(client[d])'
    BY <2>2, <2>3 DEF ClientsAreRight, WorksRight, Right
  <2>. QED BY <2>4, <2>6, <2>7 DEF ThumbnailInv
<1>. QED BY <1>3, <1>4, <1>5, <1>6, <1>7, <1>8, <1>9 DEF Thumbnails!Work

\* The photo changes: what was made of it before has an older time and place.
LEMMA ChangeSteps ==
  ASSUME Thumbnails!ThumbnailAssumption, ThumbnailInv, Thumbnails!Replace \/ Thumbnails!Touch
  PROVE  ThumbnailInv'
<1>2. photo \in Photos /\ changes \in Nat /\ photo.bytes <= changes /\ photo.time <= changes
      /\ photo.bytes \in Nat /\ photo.time \in Nat
  BY DEF ThumbnailInv, ThumbnailTypes, PhotoIsOfNow, Photos, Thumbnails!ThumbnailAssumption
<1>9. PICK p : /\ Thumbnails!Change(p) /\ p \in Photos /\ p.change = changes + 1
               /\ p.bytes \in {changes + 1, photo.bytes} /\ p.time \in {changes + 1, photo.time, 0}
  <2>1. CASE Thumbnails!Replace
    <3>1. PICK t \in {changes + 1, photo.time, 0} :
              Thumbnails!Change([bytes |-> changes + 1, time |-> t, change |-> changes + 1])
      BY <2>1 DEF Thumbnails!Replace
    <3>. QED BY <1>2, <3>1 DEF Photos
  <2>2. CASE Thumbnails!Touch
    <3>. DEFINE p == [photo EXCEPT !.time = changes + 1, !.change = changes + 1]
    <3>1. p \in Photos /\ p.change = changes + 1 /\ p.bytes = photo.bytes /\ p.time = changes + 1
      <4>1. changes + 1 \in Nat
        BY <1>2
      <4>2. photo \in [bytes : Nat, time : Nat, change : Nat]
        BY <1>2 DEF Photos
      <4>. QED BY <4>1, <4>2 DEF Photos
    <3>2. Thumbnails!Change(p)
      BY <2>2 DEF Thumbnails!Touch
    <3>. HIDE DEF p
    <3>. QED BY <3>1, <3>2
  <2>. QED BY <2>1, <2>2
<1>1. /\ photo' \in Photos /\ photo'.change = changes + 1 /\ changes' = changes + 1 /\ changes < MaxChanges
      /\ photo'.bytes = changes + 1 \/ photo'.bytes = photo.bytes
      /\ photo'.time \in {changes + 1, photo.time, 0} /\ honest' = (honest /\ photo'.time = changes + 1)
      /\ UNCHANGED <<db, files, rebuild, client>>
  BY <1>9 DEF Thumbnails!Change
<1>3. ThumbnailTypes' /\ PhotoIsOfNow'
  <2>1. ThumbnailTypes'
    BY <1>1, <1>2 DEF ThumbnailInv, ThumbnailTypes, Thumbnails!ThumbnailAssumption
  <2>2. PhotoIsOfNow'
    <3>1. honest' => photo'.time = photo'.change
      BY <1>1
    <3>2. photo'.bytes <= changes' /\ photo'.change <= changes' /\ photo'.time <= changes'
      BY <1>1, <1>2
    <3>. QED BY <3>1, <3>2 DEF PhotoIsOfNow
  <2>. QED BY <2>1, <2>2
<1>4. ASSUME NEW e, e.bytes \in Nat, e.time \in Nat, Seen(e)
      PROVE  /\ e.bytes <= photo'.bytes /\ e.time <= changes'
             /\ honest' /\ e.time = photo'.time => e.bytes = photo'.bytes
  <2>1. e.bytes <= photo.bytes /\ e.time <= changes
    BY <1>4 DEF Seen
  <2>2. honest' => photo'.time = changes + 1
    BY <1>1
  <2>. QED BY <1>1, <1>2, <1>4, <2>1, <2>2
<1>5. IndexIsSeen' /\ RebuildIsSeen'
  <2>1. db \in Db /\ db.bytes \in Nat /\ db.time \in Nat
    BY DEF ThumbnailInv, ThumbnailTypes, Db
  <2>2. IndexIsSeen'
    BY <1>1, <1>4, <2>1 DEF ThumbnailInv, IndexIsSeen, Seen
  <2>3. RebuildIsSeen'
    BY <1>1, <1>4 DEF ThumbnailInv, RebuildIsSeen, Seen, Photos
  <2>. QED BY <2>2, <2>3
<1>6. ASSUME NEW key \in Nat, NEW file \in Files, Right(key, file)
      PROVE  /\ key <= photo'.bytes /\ file.time <= changes'
             /\ key = photo'.bytes => file.bytes = photo'.bytes
             /\ honest' /\ file.time >= photo'.change => file.bytes = photo'.bytes
  BY <1>1, <1>2, <1>6 DEF Right, Files, Photos
<1>7. FilesAreRight'
  <2>1. ASSUME NEW k \in Thumbnails!Keys, NEW s \in Thumbnails!Sizes, files[k][s] # NoFile
        PROVE  k \in Nat /\ files[k][s] \in Files /\ Right(k, files[k][s])
    BY <2>1 DEF ThumbnailInv, ThumbnailTypes, FilesAreRight, Thumbnails!Keys
  <2>. QED BY <1>1, <1>6, <2>1 DEF FilesAreRight, Right
<1>8. ASSUME NEW c \in Clients PROVE WorksRight(client[c])'
  <2>. DEFINE w == client[c]
  <2>1. w \in Goroutines /\ w.key \in Nat /\ WorksRight(w)
    BY DEF ThumbnailInv, ThumbnailTypes, Goroutines
  <2>2. w.at \in Thumbnails!Leading => w.saw \in Photos /\ w.saw.change <= changes' /\ w.saw # photo' /\ w.key <= db'.key
    BY <1>1, <1>2, <2>1 DEF WorksRight, Photos
  <2>3. w.at = "check" => w.made \in Nat /\ w.saw # photo'
    BY <2>1, <2>2 DEF WorksRight, Thumbnails!Leading
  <2>4. w.at = "rename" => w.made \in Files /\ Right(w.key, w.made)
    BY <2>1 DEF WorksRight
  <2>. HIDE DEF w
  <2>5. client'[c] = w
    BY <1>1 DEF w
  <2>. QED BY <1>6, <2>1, <2>2, <2>3, <2>4, <2>5 DEF WorksRight, Right
<1>. QED BY <1>3, <1>5, <1>7, <1>8 DEF ThumbnailInv

\* A crash takes the goroutines and the rebuild with it; what they had written stays.
LEMMA ThumbnailCrash ==
  ASSUME Thumbnails!ThumbnailAssumption, ThumbnailInv, Thumbnails!Crash
  PROVE  ThumbnailInv'
<1>1. /\ changes < MaxChanges /\ changes' = changes + 1 /\ client' = [c \in Clients |-> Thumbnails!Idle]
      /\ rebuild' = [at |-> "idle", scan |-> Nothing] /\ UNCHANGED <<photo, honest, db, files>> /\ changes \in Nat
      /\ photo \in Photos /\ db \in Db
  BY DEF Thumbnails!Crash, ThumbnailInv, ThumbnailTypes, Thumbnails!ThumbnailAssumption
<1>2. ThumbnailTypes'
  BY <1>1, IdleIsRight DEF ThumbnailInv, ThumbnailTypes, Scans, Thumbnails!ThumbnailAssumption
<1>3. PhotoIsOfNow' /\ IndexIsSeen' /\ RebuildIsSeen'
  BY <1>1 DEF ThumbnailInv, PhotoIsOfNow, IndexIsSeen, RebuildIsSeen, Seen, Photos, Db
<1>4. FilesAreRight'
  <2>1. ASSUME NEW k \in Thumbnails!Keys, NEW s \in Thumbnails!Sizes, files[k][s] # NoFile
        PROVE  files[k][s].time \in Nat /\ Right(k, files[k][s])
    BY <2>1 DEF ThumbnailInv, ThumbnailTypes, FilesAreRight, Files
  <2>. QED BY <1>1, <2>1 DEF FilesAreRight, Right
<1>5. ASSUME NEW c \in Clients PROVE WorksRight(client[c])'
  BY <1>1 DEF WorksRight, Thumbnails!Idle, Thumbnails!Leading
<1>. QED BY <1>2, <1>3, <1>4, <1>5 DEF ThumbnailInv

\* The rebuild gives other bytes another place, and never goes back to earlier ones.
LEMMA RebuildSteps ==
  ASSUME Thumbnails!ThumbnailAssumption, ThumbnailInv,
         Thumbnails!Scan \/ Thumbnails!Publish \/ Thumbnails!IndexRow \/ Thumbnails!ProcessCacheGC
  PROVE  ThumbnailInv'
<1>. USE DEF Thumbnails!Rebuild
<1>0. /\ photo \in Photos /\ photo.time \in Nat /\ db \in Db /\ SameIndex(db) /\ db.key \in Nat /\ db.bytes \in Nat
      /\ files \in [Thumbnails!Keys -> [Thumbnails!Sizes -> Files \cup {NoFile}]]
      /\ rebuild \in [at : {"idle", "scanned", "published", "collect"}, scan : Scans]
  BY DEF ThumbnailInv, ThumbnailTypes, SameIndex, Photos, Db
\* The photo stays; the index has what was seen, and no smaller place.
<1>1. ASSUME UNCHANGED <<photo, honest, changes, client>>, db' \in Db, IndexIsSeen', db.key <= db'.key, RebuildIsSeen',
             rebuild' \in [at : {"idle", "scanned", "published", "collect"}, scan : Scans],
             files' \in [Thumbnails!Keys -> [Thumbnails!Sizes -> Files \cup {NoFile}]],
             \A k \in Thumbnails!Keys, s \in Thumbnails!Sizes : files'[k][s] \in {files[k][s], NoFile}
      PROVE  ThumbnailInv'
  <2>1. ThumbnailTypes' /\ PhotoIsOfNow'
    BY <1>1 DEF ThumbnailInv, ThumbnailTypes, PhotoIsOfNow
  <2>2. FilesAreRight'
    BY <1>1 DEF ThumbnailInv, FilesAreRight, Right
  <2>3. ASSUME NEW c \in Clients PROVE WorksRight(client[c])'
    <3>1. WorksRight(client[c]) /\ client[c].key \in Nat /\ db'.key \in Nat
      BY <1>1 DEF ThumbnailInv, ThumbnailTypes, Goroutines, Db
    <3>. QED BY <1>0, <1>1, <3>1 DEF WorksRight, Right
  <2>. QED BY <1>1, <2>1, <2>2, <2>3 DEF ThumbnailInv
<1>2. CASE Thumbnails!Scan
  <2>1. /\ UNCHANGED <<photo, honest, changes, client, db, files>> /\ rebuild' = [at |-> "scanned", scan |-> photo]
    BY <1>2 DEF Thumbnails!Scan
  <2>2. IndexIsSeen'
    BY <2>1 DEF ThumbnailInv, IndexIsSeen, Seen
  <2>3. RebuildIsSeen'
    BY <1>0, <2>1 DEF ThumbnailInv, RebuildIsSeen, IndexIsSeen, PhotoIsOfNow, Seen, Photos
  <2>. QED BY <1>0, <1>1, <2>1, <2>2, <2>3 DEF Scans
<1>3. CASE Thumbnails!Publish
  <2>. DEFINE scan == rebuild.scan
  <2>1. /\ rebuild.at = "scanned" /\ db' = Thumbnails!Published(db, scan) /\ rebuild' = [rebuild EXCEPT !.at = "published"]
        /\ UNCHANGED <<photo, honest, changes, client, files>>
    BY <1>3 DEF Thumbnails!Publish
  <2>2. scan \in Photos /\ Seen(scan) /\ scan.bytes >= db.bytes /\ scan.bytes \in Nat /\ scan.time \in Nat
    BY <2>1 DEF ThumbnailInv, RebuildIsSeen, Photos
  <2>3. db' \in Db /\ db'.bytes = scan.bytes /\ db'.time = scan.time /\ db'.key = scan.bytes
    <3>1. CASE db.bytes = scan.bytes
      <4>. DEFINE moved == [s \in Thumbnails!Sizes |->
                             IF Thumbnails!IsOf(db.rows[s], db.time) /\ db.time # scan.time
                             THEN [db.rows[s] EXCEPT !.verified = TRUE, !.src = scan.time] ELSE db.rows[s]]
      <4>1. moved \in [Thumbnails!Sizes -> Rows]
        <5>1. ASSUME NEW row \in Rows, row # NoRow PROVE [row EXCEPT !.verified = TRUE, !.src = scan.time] \in Rows
          BY <2>2, <5>1 DEF Rows
        <5>2. \A s \in Thumbnails!Sizes : db.rows[s] \in Rows
          BY <1>0 DEF Db
        <5>. HIDE DEF scan
        <5>. QED BY <5>1, <5>2 DEF Thumbnails!IsOf
      <4>2. db' = [db EXCEPT !.time = scan.time, !.rows = moved]
        BY <2>1, <3>1 DEF Thumbnails!Published
      <4>. HIDE DEF moved
      <4>. QED BY <1>0, <2>2, <3>1, <4>1, <4>2 DEF ThumbnailInv, IndexIsSeen, Db
    <3>2. CASE db.bytes # scan.bytes
      <4>. DEFINE gone == {<<db.key, s>> : s \in {s \in Thumbnails!Sizes : db.rows[s] # NoRow}}
      <4>1. gone \subseteq Nat \X Thumbnails!Sizes
        BY <1>0
      <4>2. [s \in Thumbnails!Sizes |-> NoRow] \in [Thumbnails!Sizes -> Rows]
        BY DEF Rows
      <4>3. db' = [db EXCEPT !.bytes = scan.bytes, !.time = scan.time, !.key = scan.bytes,
                             !.rows = [s \in Thumbnails!Sizes |-> NoRow], !.garbage = @ \cup gone]
        BY <2>1, <3>2 DEF Thumbnails!Published
      <4>. HIDE DEF gone
      <4>. QED BY <1>0, <2>2, <4>1, <4>2, <4>3 DEF Db
    <3>. QED BY <3>1, <3>2
  <2>4. IndexIsSeen' /\ RebuildIsSeen'
    BY <1>0, <2>1, <2>2, <2>3 DEF IndexIsSeen, RebuildIsSeen, Seen
  <2>5. db.key <= db'.key
    BY <1>0, <2>2, <2>3 DEF ThumbnailInv, IndexIsSeen
  <2>. HIDE DEF scan
  <2>. QED BY <1>0, <1>1, <2>1, <2>3, <2>4, <2>5
<1>4. CASE Thumbnails!IndexRow
  <2>1. /\ UNCHANGED <<photo, honest, changes, client, files>> /\ rebuild' = [at |-> "collect", scan |-> Nothing]
        /\ SameIndex(db')
    BY <1>0, <1>4, SavedIsSame DEF Thumbnails!IndexRow
  <2>2. IndexIsSeen' /\ RebuildIsSeen' /\ db.key <= db'.key /\ db' \in Db
    BY <1>0, <2>1 DEF ThumbnailInv, IndexIsSeen, RebuildIsSeen, Seen, SameIndex
  <2>. QED BY <1>0, <1>1, <2>1, <2>2 DEF Scans
<1>5. CASE Thumbnails!ProcessCacheGC
  <2>1. /\ UNCHANGED <<photo, honest, changes, client>>
        /\ rebuild' \in {rebuild, [at |-> "idle", scan |-> Nothing]}
        /\ \/ db' = db /\ files' = files
           \/ \E g \in db.garbage : /\ db' = [db EXCEPT !.garbage = @ \ {g}]
                                    /\ files' = [files EXCEPT ![g[1]][g[2]] = NoFile]
    BY <1>5 DEF Thumbnails!ProcessCacheGC
  <2>6. ASSUME NEW g \in db.garbage, db' = [db EXCEPT !.garbage = @ \ {g}], files' = [files EXCEPT ![g[1]][g[2]] = NoFile]
        PROVE  /\ SameIndex(db') /\ files' \in [Thumbnails!Keys -> [Thumbnails!Sizes -> Files \cup {NoFile}]]
               /\ \A k \in Thumbnails!Keys, s \in Thumbnails!Sizes : files'[k][s] \in {files[k][s], NoFile}
    <3>1. SameIndex(db')
      BY <1>0, <2>6 DEF SameIndex, Db
    <3>. DEFINE i == g[1]
                j == g[2]
    <3>. HIDE DEF i, j
    <3>2. files' = [files EXCEPT ![i][j] = NoFile]
      BY <2>6 DEF i, j
    <3>3. files' \in [Thumbnails!Keys -> [Thumbnails!Sizes -> Files \cup {NoFile}]]
      BY <1>0, <3>2
    <3>. QED BY <1>0, <3>1, <3>2, <3>3
  <2>2. SameIndex(db')
    BY <1>0, <2>1, <2>6
  <2>3. /\ files' \in [Thumbnails!Keys -> [Thumbnails!Sizes -> Files \cup {NoFile}]]
        /\ \A k \in Thumbnails!Keys, s \in Thumbnails!Sizes : files'[k][s] \in {files[k][s], NoFile}
    BY <1>0, <2>1, <2>6
  <2>4. IndexIsSeen' /\ RebuildIsSeen' /\ db.key <= db'.key /\ db' \in Db
    BY <1>0, <1>5, <2>1, <2>2 DEF Thumbnails!ProcessCacheGC, ThumbnailInv, IndexIsSeen, RebuildIsSeen, Seen, SameIndex
  <2>. QED BY <1>0, <1>1, <2>1, <2>3, <2>4 DEF Scans
<1>. QED BY <1>2, <1>3, <1>4, <1>5

LEMMA ThumbnailUnchanged == ASSUME ThumbnailInv, UNCHANGED Thumbnails!vars PROVE ThumbnailInv'
<1>1. SameIndex(db') /\ ClientsAreRight(client') /\ UNCHANGED <<photo, honest, changes, files, rebuild>>
  BY DEF ThumbnailInv, ThumbnailTypes, SameIndex, ClientsAreRight, Thumbnails!vars
<1>. QED BY <1>1, WorkStep DEF ClientsAreRight

\* A thumbnail that is served shows the photo, however its rendering, the
\* changes of the photo, rebuilds, removals of old files and crashes interleave
\* (photos: thumbnailForMedia, publishIdentityFingerprints, ProcessCacheGC).
THEOREM ServedThumbnailsShowThePhoto == Thumbnails!Spec => []ShowsPhoto
<1>. USE ThumbnailInstance
<1>1. Thumbnails!Init => ThumbnailInv
  BY ThumbnailInit
<1>2. ThumbnailInv /\ [Thumbnails!Next]_Thumbnails!vars => ThumbnailInv'
  <2>1. Wanted \subseteq Thumbnails!Sizes /\ Prepared \subseteq Thumbnails!Sizes
    BY DEF Thumbnails!ThumbnailAssumption
  <2>. QED BY <2>1, ChangeSteps, ThumbnailCrash, WorkSteps, RowSteps, FlightSteps, RebuildSteps, ThumbnailUnchanged
           DEF Thumbnails!Next
<1>3. ThumbnailInv => ShowsPhoto
  BY ThumbnailsAreRight DEF ShowsPhoto
<1>. QED BY <1>1, <1>2, <1>3, PTL DEF Thumbnails!Spec

-----------------------------------------------------------------------------
(* Relatives                                                                *)

Given == Dates \cup {0}
Weddings == [pair : Family!Pairs, wed : Given]
Parents == [Family!Roles -> People \cup {Nobody}]
Details == [parent : Parents, born : Given, died : Given, siblings : SUBSET Family!Pairs, marriages : SUBSET Weddings]
Families == [there : SUBSET People, parent : [People -> Parents], siblings : SUBSET Family!Pairs, marriages : SUBSET Weddings,
             born : [People -> Given], died : [People -> Given], tags : [People -> SUBSET Tags],
             roots : SUBSET People, revision : Nat]

OneParentEach(d) == \A p \in People : d.parent[p]["mother"] = d.parent[p]["father"] => d.parent[p] = Family!Orphan
\* Nobody is related to someone who is gone.
ThereAre(d) ==
    /\ \A p \in People : Family!ParentsOf(d, p) \subseteq d.there /\ (d.parent[p] # Family!Orphan => p \in d.there)
    /\ \A s \in d.siblings : s \subseteq d.there
    /\ \A m \in d.marriages : m.pair \subseteq d.there
    /\ d.roots \subseteq d.there
Datable(d) == \A p \in People : Family!validPersonDates(d.born[p], d.died[p])
SoundOf(d) == /\ d \in Families /\ Family!NoCircle(d) /\ OneParentEach(d) /\ ThereAre(d) /\ Datable(d)
              /\ Family!WithinLimits(d, People)
\* The revision tells whether the roots are others.
Later(d, e) == e.revision >= d.revision /\ (e.revision = d.revision => e.roots = d.roots)

FormFits == form # NoForm => form \in [who : People, saw : Details, shown : Details]
TreeFormFits == treeForm # NoForm => /\ treeForm.revision \in Nat /\ treeForm.revision <= family.revision
                                     /\ treeForm.revision = family.revision => treeForm.roots = family.roots
FamilyInv == SoundOf(family) /\ visible \subseteq family.there /\ FormFits /\ TreeFormFits

LEMMA FamilyFacts ==
    /\ IsFiniteSet(People) /\ RelationLimit \in Nat /\ Nobody \notin People
    /\ IsFiniteSet(Family!Pairs) /\ IsFiniteSet(Weddings)
    /\ \A s : Family!Cardinality(s) = Cardinality(s)
<1>1. \A s : Family!IsFiniteSet(s) <=> IsFiniteSet(s)
  BY DEF Family!IsFiniteSet, IsFiniteSet
<1>2. IsFiniteSet(People) /\ IsFiniteSet(Dates) /\ RelationLimit \in Nat /\ Nobody \notin People
  BY <1>1, FamilyInstance DEF Family!FamilyAssumption
<1>3. IsFiniteSet(Family!Pairs)
  <2>1. IsFiniteSet(SUBSET People) /\ Family!Pairs \in SUBSET SUBSET People
    BY <1>2, FS_SUBSET DEF Family!Pairs
  <2>. QED BY <2>1, FS_Subset
<1>4. IsFiniteSet(Weddings)
  <2>. DEFINE couple == [x \in Family!Pairs \X Given |-> [pair |-> x[1], wed |-> x[2]]]
  <2>1. IsFiniteSet(Family!Pairs \X Given)
    BY <1>2, <1>3, FS_Product, FS_AddElement DEF Given
  <2>2. couple \in [Family!Pairs \X Given -> Weddings]
    BY DEF Weddings
  <2>3. ASSUME NEW m \in Weddings PROVE \E x \in Family!Pairs \X Given : couple[x] = m
    <3>1. <<m.pair, m.wed>> \in Family!Pairs \X Given /\ m = [pair |-> m.pair, wed |-> m.wed]
      BY DEF Weddings
    <3>. QED BY <3>1
  <2>4. couple \in Surjection(Family!Pairs \X Given, Weddings)
    BY <2>2, <2>3 DEF Surjection
  <2>. QED BY <2>1, <2>4, FS_Surjection
<1>5. \A s : Family!Cardinality(s) = Cardinality(s)
  BY DEF Family!Cardinality, Cardinality
<1>. QED BY <1>2, <1>3, <1>4, <1>5

LEMMA OtherIs ==
  ASSUME NEW s \in Family!Pairs, NEW p \in s
  PROVE  s = {p, Family!Other(s, p)} /\ Family!Other(s, p) # p /\ Family!Other(s, p) \in People
<1>1. PICK a \in s, b \in s : a # b /\ s = {a, b}
  BY DEF Family!Pairs
<1>2. s \subseteq People /\ \E q \in s : q # p
  BY <1>1 DEF Family!Pairs
<1>3. Family!Other(s, p) \in s /\ Family!Other(s, p) # p
  BY <1>2 DEF Family!Other
<1>. QED BY <1>1, <1>2, <1>3

LEMMA FewerParents ==
  ASSUME NEW d, NEW e, Family!NoCircle(d), \A p \in People : Family!ParentsOf(e, p) \subseteq Family!ParentsOf(d, p)
  PROVE  Family!NoCircle(e)
  BY DEF Family!NoCircle

(* No circle is closed through p, if p is not among the ancestors of p.     *)
LEMMA NoNewCircle ==
  ASSUME NEW d, NEW e, NEW p \in People, Family!NoCircle(d),
         \A q \in People : Family!ParentsOf(e, q) \subseteq People,
         \A q \in People \ {p} : Family!ParentsOf(e, q) \ {p} \subseteq Family!ParentsOf(d, q),
         p \notin Family!AncestorsOf(e, Family!ParentsOf(e, p))
  PROVE  Family!NoCircle(e)
<1>. DEFINE above == Family!AncestorsOf(e, Family!ParentsOf(e, p))
<1>1. above \subseteq People /\ Family!ParentsOf(e, p) \subseteq above
  BY DEF Family!AncestorsOf
<1>2. \A q \in above : Family!ParentsOf(e, q) \subseteq above
  BY DEF Family!AncestorsOf
<1>3. SUFFICES ASSUME NEW ps \in SUBSET People, ps # {}, \A q \in ps : Family!ParentsOf(e, q) \cap ps # {} PROVE FALSE
  BY DEF Family!NoCircle
<1>4. CASE p \notin ps
  <2>1. \A q \in ps : Family!ParentsOf(d, q) \cap ps # {}
    BY <1>3, <1>4
  <2>. QED BY <1>3, <2>1 DEF Family!NoCircle
<1>5. CASE p \in ps
  <2>. DEFINE old == ps \cap above
  <2>1. old # {} /\ p \notin old
    BY <1>1, <1>3, <1>5
  <2>2. \A q \in old : Family!ParentsOf(e, q) \cap old # {}
    BY <1>2, <1>3
  <2>3. \A q \in old : Family!ParentsOf(d, q) \cap old # {}
    BY <2>1, <2>2
  <2>. QED BY <2>1, <2>3 DEF Family!NoCircle
<1>. QED BY <1>4, <1>5

LEMMA Counted ==
  ASSUME NEW d \in Families, NEW p
  PROVE  /\ IsFiniteSet(Family!SiblingsOf(d, p)) /\ Cardinality(Family!SiblingsOf(d, p)) \in Nat
         /\ IsFiniteSet(Family!MarriagesOf(d, p)) /\ Cardinality(Family!MarriagesOf(d, p)) \in Nat
<1>1. Family!SiblingsOf(d, p) \in SUBSET Family!Pairs /\ Family!MarriagesOf(d, p) \in SUBSET Weddings
  BY DEF Families, Family!SiblingsOf, Family!MarriagesOf
<1>. QED BY <1>1, FamilyFacts, FS_Subset, FS_CardinalityType

(* Who has no relations but those they had keeps within the limits.         *)
LEMMA NoNewRelations ==
  ASSUME NEW d \in Families, NEW p \in People, Family!WithinLimits(d, {p}), NEW e,
         Family!SiblingsOf(e, p) \subseteq Family!SiblingsOf(d, p),
         Family!MarriagesOf(e, p) \subseteq Family!MarriagesOf(d, p)
  PROVE  e \in Families => Family!WithinLimits(e, {p})
<1>. SUFFICES ASSUME e \in Families PROVE Family!WithinLimits(e, {p})
  OBVIOUS
<1>1. Cardinality(Family!SiblingsOf(e, p)) <= Cardinality(Family!SiblingsOf(d, p))
  BY Counted, FS_Subset
<1>2. Cardinality(Family!MarriagesOf(e, p)) <= Cardinality(Family!MarriagesOf(d, p))
  BY Counted, FS_Subset
<1>3. /\ Cardinality(Family!SiblingsOf(e, p)) \in Nat /\ Cardinality(Family!SiblingsOf(d, p)) \in Nat
      /\ Cardinality(Family!MarriagesOf(e, p)) \in Nat /\ Cardinality(Family!MarriagesOf(d, p)) \in Nat
  BY Counted
<1>. QED BY <1>1, <1>2, <1>3, FamilyFacts DEF Family!WithinLimits
LEMMA LimitsOfAll ==
  ASSUME NEW d, NEW ps, \A p \in ps : Family!WithinLimits(d, {p})
  PROVE  Family!WithinLimits(d, ps)
  BY DEF Family!WithinLimits

-----------------------------------------------------------------------------
(* What becomes of the tables                                               *)

LEMMA ParentTypes ==
  ASSUME NEW d \in Families, NEW p \in People
  PROVE  /\ d.parent[p] \in Parents /\ d.parent[p]["mother"] \in People \cup {Nobody}
         /\ d.parent[p]["father"] \in People \cup {Nobody}
         /\ Family!ParentsOf(d, p) \subseteq People
         /\ Family!ParentsOf(d, p) = {d.parent[p]["mother"], d.parent[p]["father"]} \ {Nobody}
  BY DEF Families, Parents, Family!Roles, Family!ParentsOf

LEMMA ParentsWritten ==
  ASSUME NEW d, SoundOf(d), NEW p \in d.there, NEW parents \in Parents,
         {parents[r] : r \in Family!Roles} \ {Nobody} \subseteq d.there,
         NEW e \in Family!WithParents(d, p, parents)
  PROVE  SoundOf(e) /\ e = [d EXCEPT !.parent[p] = parents]
<1>. USE DEF SoundOf
<1>1. e = [d EXCEPT !.parent[p] = parents] /\ Family!validateParentGraph(e, p)
  BY DEF Family!WithParents
<1>2. p \in People /\ e \in Families
  BY <1>1 DEF Families
<1>3. /\ e.parent = [d.parent EXCEPT ![p] = parents] /\ e.there = d.there /\ e.siblings = d.siblings
      /\ e.marriages = d.marriages /\ e.born = d.born /\ e.died = d.died /\ e.roots = d.roots
  BY <1>1 DEF Families
<1>4. e.parent[p] = parents /\ \A q \in People \ {p} : e.parent[q] = d.parent[q]
  BY <1>2, <1>3 DEF Families
<1>5. \A q \in People \ {p} : Family!ParentsOf(e, q) = Family!ParentsOf(d, q)
  BY <1>4 DEF Family!ParentsOf
<1>6. Family!NoCircle(e)
  <2>1. \A q \in People : Family!ParentsOf(e, q) \subseteq People
    BY <1>2, ParentTypes
  <2>. QED BY <1>1, <1>2, <1>5, <2>1, NoNewCircle DEF Family!validateParentGraph
<1>7. OneParentEach(e)
  BY <1>1, <1>4 DEF OneParentEach, Family!validateParentGraph
<1>8. ThereAre(e)
  <2>1. Family!ParentsOf(e, p) \subseteq e.there
    BY <1>3, <1>4 DEF Family!ParentsOf
  <2>. QED BY <1>2, <1>3, <1>4, <1>5, <2>1 DEF ThereAre
<1>9. Datable(e) /\ Family!WithinLimits(e, People)
  BY <1>3 DEF Datable, Family!WithinLimits, Family!SiblingsOf, Family!MarriagesOf
<1>. QED BY <1>1, <1>2, <1>6, <1>7, <1>8, <1>9

(* Tables whose parents, people and roots are as they were.                 *)
LEMMA RelationsWritten ==
  ASSUME NEW d, SoundOf(d), NEW e \in Families, e.parent = d.parent, e.there = d.there, e.roots = d.roots,
         \A s \in e.siblings : s \subseteq d.there, \A m \in e.marriages : m.pair \subseteq d.there,
         Datable(e), Family!WithinLimits(e, People)
  PROVE  SoundOf(e)
<1>1. \A p \in People : Family!ParentsOf(e, p) = Family!ParentsOf(d, p)
  BY DEF Family!ParentsOf
<1>. QED BY <1>1, FewerParents DEF SoundOf, OneParentEach, ThereAre

LEMMA PersonDeleted ==
  ASSUME NEW d, SoundOf(d), NEW p \in People
  PROVE  /\ SoundOf(Family!Deleted(d, p)) /\ Later(d, Family!Deleted(d, p))
         /\ Family!Deleted(d, p).there = d.there \ {p}
<1>. DEFINE e == Family!Deleted(d, p)
<1>. USE DEF SoundOf
<1>. DEFINE parent == [q \in People |-> IF q = p THEN Family!Orphan
                                    ELSE [r \in Family!Roles |-> IF d.parent[q][r] = p THEN Nobody ELSE d.parent[q][r]]]
<1>0. e = [there |-> d.there \ {p}, parent |-> parent,
           siblings |-> d.siblings \ Family!SiblingsOf(d, p), marriages |-> d.marriages \ Family!MarriagesOf(d, p),
           born |-> [d.born EXCEPT ![p] = 0], died |-> [d.died EXCEPT ![p] = 0], tags |-> [d.tags EXCEPT ![p] = {}],
           roots |-> d.roots \ {p}, revision |-> IF p \in d.roots THEN d.revision + 1 ELSE d.revision]
  BY DEF Family!Deleted, Family!NoDate
<1>1. e \in Families /\ e.there = d.there \ {p} /\ e.roots = d.roots \ {p}
  <2>1. Family!Orphan \in Parents
    BY DEF Family!Orphan, Parents
  <2>2. parent \in [People -> Parents]
    <3>1. ASSUME NEW q \in People PROVE parent[q] \in Parents
      <4>1. d.parent[q] \in Parents
        BY ParentTypes
      <4>. QED BY <2>1, <4>1 DEF Parents
    <3>. QED BY <3>1
  <2>3. [d.born EXCEPT ![p] = 0] \in [People -> Given] /\ [d.died EXCEPT ![p] = 0] \in [People -> Given]
    BY DEF Families, Given
  <2>4. [d.tags EXCEPT ![p] = {}] \in [People -> SUBSET Tags]
    BY DEF Families
  <2>5. (IF p \in d.roots THEN d.revision + 1 ELSE d.revision) \in Nat
    BY DEF Families
  <2>6. /\ d.there \ {p} \in SUBSET People /\ d.roots \ {p} \in SUBSET People
        /\ d.siblings \ Family!SiblingsOf(d, p) \in SUBSET Family!Pairs
        /\ d.marriages \ Family!MarriagesOf(d, p) \in SUBSET Weddings
    BY DEF Families
  <2>. HIDE DEF parent
  <2>. QED BY <1>0, <2>2, <2>3, <2>4, <2>5, <2>6 DEF Families
<1>2. \A q \in People : e.parent[q] = IF q = p THEN Family!Orphan
                                      ELSE [r \in Family!Roles |-> IF d.parent[q][r] = p THEN Nobody ELSE d.parent[q][r]]
  BY <1>0
<1>3. \A q \in People : Family!ParentsOf(e, q) \subseteq Family!ParentsOf(d, q) \ {p}
  <2>. SUFFICES ASSUME NEW q \in People, NEW r \in Family!Roles, e.parent[q][r] # Nobody
                PROVE  e.parent[q][r] = d.parent[q][r] /\ d.parent[q][r] # p
    BY DEF Family!ParentsOf
  <2>1. CASE q = p
    BY <1>2, <2>1 DEF Family!Orphan
  <2>2. CASE q # p
    <3>1. e.parent[q] = [x \in Family!Roles |-> IF d.parent[q][x] = p THEN Nobody ELSE d.parent[q][x]]
      BY <1>2, <2>2
    <3>. QED BY <3>1
  <2>. QED BY <2>1, <2>2
<1>4. Family!NoCircle(e)
  BY <1>3, FewerParents
<1>5. OneParentEach(e)
  <2>. SUFFICES ASSUME NEW q \in People \ {p}, e.parent[q]["mother"] = e.parent[q]["father"] PROVE e.parent[q] = Family!Orphan
    BY <1>2 DEF OneParentEach
  <2>1. d.parent[q] \in Parents
    BY ParentTypes
  <2>2. CASE d.parent[q]["mother"] = d.parent[q]["father"]
    <3>1. d.parent[q] = Family!Orphan
      BY <2>2 DEF OneParentEach
    <3>. QED BY <1>2, <3>1, FamilyFacts DEF Family!Orphan
  <2>3. CASE d.parent[q]["mother"] # d.parent[q]["father"]
    <3>1. \A r \in Family!Roles : e.parent[q][r] = IF d.parent[q][r] = p THEN Nobody ELSE d.parent[q][r]
      BY <1>2
    <3>2. e.parent[q]["mother"] = Nobody /\ e.parent[q]["father"] = Nobody
      BY <2>3, <3>1 DEF Family!Roles
    <3>3. e.parent[q] = [r \in Family!Roles |-> e.parent[q][r]]
      BY <1>2
    <3>. QED BY <3>2, <3>3 DEF Family!Orphan, Family!Roles
  <2>. QED BY <2>2, <2>3
<1>6. /\ e.siblings = d.siblings \ Family!SiblingsOf(d, p) /\ e.marriages = d.marriages \ Family!MarriagesOf(d, p)
      /\ \A q \in People : e.born[q] \in {0, d.born[q]} /\ e.died[q] \in {0, d.died[q]}
  BY <1>0 DEF Families
<1>7. ThereAre(e)
  <2>1. ASSUME NEW q \in People PROVE Family!ParentsOf(e, q) \subseteq e.there /\ (e.parent[q] # Family!Orphan => q \in e.there)
    <3>1. Family!ParentsOf(e, q) \subseteq e.there
      BY <1>1, <1>3 DEF ThereAre
    <3>2. ASSUME e.parent[q] # Family!Orphan PROVE q \in e.there
      <4>1. q # p /\ d.parent[q] # Family!Orphan
        BY <1>2, <3>2, FamilyFacts DEF Family!Orphan
      <4>. QED BY <1>1, <4>1 DEF ThereAre
    <3>. QED BY <3>1, <3>2
  <2>2. (\A s \in e.siblings : s \subseteq e.there) /\ (\A m \in e.marriages : m.pair \subseteq e.there)
    BY <1>1, <1>6 DEF ThereAre, Family!SiblingsOf, Family!MarriagesOf
  <2>. QED BY <1>1, <2>1, <2>2 DEF ThereAre
<1>8. Datable(e)
  <2>1. \A q \in People : e.born[q] = 0 \/ e.died[q] = 0 \/ (e.born[q] = d.born[q] /\ e.died[q] = d.died[q])
    BY <1>6
  <2>. QED BY <2>1 DEF Datable, Family!validPersonDates, Family!NoDate
<1>9. Family!WithinLimits(e, People)
  <2>1. ASSUME NEW q \in People PROVE Family!WithinLimits(e, {q})
    <3>1. Family!WithinLimits(d, {q})
      BY DEF Family!WithinLimits
    <3>2. Family!SiblingsOf(e, q) \subseteq Family!SiblingsOf(d, q) /\ Family!MarriagesOf(e, q) \subseteq Family!MarriagesOf(d, q)
      BY <1>6 DEF Family!SiblingsOf, Family!MarriagesOf
    <3>. QED BY <1>1, <3>1, <3>2, NoNewRelations
  <2>. QED BY <2>1, LimitsOfAll
<1>10. Later(d, e)
  <2>1. e.revision = IF p \in d.roots THEN d.revision + 1 ELSE d.revision
    BY <1>0
  <2>2. d.revision \in Nat
    BY DEF Families
  <2>3. CASE p \in d.roots
    BY <2>1, <2>2, <2>3 DEF Later
  <2>4. CASE p \notin d.roots
    BY <1>1, <2>1, <2>2, <2>4 DEF Later
  <2>. QED BY <2>3, <2>4
<1>. QED BY <1>1, <1>4, <1>5, <1>7, <1>8, <1>9, <1>10

-----------------------------------------------------------------------------
(* Merging                                                                  *)

LEMMA RootMoved ==
  ASSUME NEW d, SoundOf(d), NEW s \in d.there, NEW t \in d.there, s # t
  PROVE  LET e == Family!MoveRoot(d, s, t)
         IN  /\ SoundOf(e) /\ Later(d, e) /\ s \notin e.roots
             /\ e = [d EXCEPT !.roots = e.roots, !.revision = e.revision]
<1>. DEFINE e == Family!MoveRoot(d, s, t)
<1>1. CASE s \notin d.roots
  <2>1. d \in Families
    BY DEF SoundOf
  <2>2. d = [d EXCEPT !.roots = d.roots, !.revision = d.revision]
    BY <2>1 DEF Families
  <2>. QED BY <1>1, <2>1, <2>2 DEF Family!MoveRoot, Later, Families
<1>2. CASE s \in d.roots
  <2>. USE DEF SoundOf
  <2>1. Cardinality({t} \ d.roots) \in Nat
    BY FS_Singleton, FS_Difference, FS_CardinalityType
  <2>2. e = [d EXCEPT !.roots = (d.roots \ {s}) \cup {t}, !.revision = d.revision + Cardinality({t} \ d.roots) + 1]
    BY <1>2, FamilyFacts DEF Family!MoveRoot
  <2>. DEFINE roots == (d.roots \ {s}) \cup {t}
              revision == d.revision + Cardinality({t} \ d.roots) + 1
  <2>9. roots \in SUBSET People /\ revision \in Nat /\ revision > d.revision
    BY <2>1 DEF Families
  <2>. HIDE DEF roots, revision
  <2>8. e = [d EXCEPT !.roots = roots, !.revision = revision]
    BY <2>2 DEF roots, revision
  <2>3. /\ e \in Families /\ e.roots = roots /\ e.revision > d.revision
        /\ e.there = d.there /\ e.parent = d.parent /\ e.siblings = d.siblings /\ e.marriages = d.marriages
        /\ e.born = d.born /\ e.died = d.died
    BY <2>8, <2>9 DEF Families
  <2>4. e = [d EXCEPT !.roots = e.roots, !.revision = e.revision]
    BY <2>8 DEF Families
  <2>5. Family!NoCircle(e) /\ OneParentEach(e) /\ Datable(e) /\ Family!WithinLimits(e, People)
    BY <2>3 DEF Family!NoCircle, Family!ParentsOf, OneParentEach, Datable, Family!WithinLimits, Family!SiblingsOf, Family!MarriagesOf
  <2>6. ThereAre(e)
    BY <2>3 DEF ThereAre, Family!ParentsOf, roots
  <2>7. Later(d, e)
    BY <2>3 DEF Later, Families
  <2>. QED BY <2>3, <2>4, <2>5, <2>6, <2>7 DEF roots
<1>. QED BY <1>1, <1>2

LEMMA ParentsMerged ==
  ASSUME NEW d, SoundOf(d), NEW s \in d.there, NEW t \in d.there, s # t, NEW e \in Family!MergeParents(d, s, t)
  PROVE  SoundOf(e) /\ e = [d EXCEPT !.parent = e.parent]
<1>. USE DEF SoundOf
<1>. DEFINE taken == [r \in Family!Roles |-> IF d.parent[t][r] = Nobody THEN d.parent[s][r] ELSE d.parent[t][r]]
            To(q) == IF q = s THEN t ELSE q
            parent == [p \in People |-> IF p = s THEN Family!Orphan
                         ELSE [r \in Family!Roles |-> To(IF p = t THEN taken[r] ELSE d.parent[p][r])]]
<1>1. /\ e = [d EXCEPT !.parent = parent] /\ Family!validateParentGraph(e, t)
      /\ ~ \E p \in People : e.parent[p] = [r \in Family!Roles |-> t]
  BY DEF Family!MergeParents
<1>2. s \in People /\ t \in People /\ Family!Orphan \in Parents
  BY DEF Families, Family!Orphan, Parents
<1>3. \A p \in People : parent[p] \in Parents
  <2>1. taken \in Parents
    <3>1. d.parent[t] \in Parents /\ d.parent[s] \in Parents
      BY <1>2, ParentTypes
    <3>. QED BY <3>1 DEF Parents
  <2>2. ASSUME NEW p \in People PROVE parent[p] \in Parents
    <3>1. d.parent[p] \in Parents
      BY ParentTypes
    <3>. QED BY <1>2, <2>1, <3>1 DEF Parents
  <2>. QED BY <2>2
<1>4. parent \in [People -> Parents]
  BY <1>3
<1>5. /\ e \in Families /\ e.parent = parent /\ e.there = d.there /\ e.siblings = d.siblings /\ e.marriages = d.marriages
      /\ e.born = d.born /\ e.died = d.died /\ e.roots = d.roots
  <2>. HIDE DEF parent
  <2>. QED BY <1>1, <1>4 DEF Families
<1>6. ASSUME NEW p \in People \ {s, t}, NEW r \in Family!Roles PROVE e.parent[p][r] = To(d.parent[p][r])
  BY <1>5, <1>6
<1>7. \A r \in Family!Roles : e.parent[t][r] = To(taken[r])
  BY <1>2, <1>5
<1>8. e.parent[s] = Family!Orphan
  BY <1>2, <1>5
<1>9. Family!NoCircle(e)
  <2>1. \A q \in People : Family!ParentsOf(e, q) \subseteq People
    BY <1>5, ParentTypes
  <2>2. ASSUME NEW q \in People \ {t} PROVE Family!ParentsOf(e, q) \ {t} \subseteq Family!ParentsOf(d, q)
    <3>1. CASE q = s
      BY <1>8, <3>1 DEF Family!ParentsOf, Family!Orphan
    <3>2. CASE q # s
      BY <1>6, <3>2 DEF Family!ParentsOf
    <3>. QED BY <3>1, <3>2
  <2>. QED BY <1>1, <1>2, <2>1, <2>2, NoNewCircle DEF Family!validateParentGraph
<1>10. OneParentEach(e)
  <2>. SUFFICES ASSUME NEW p \in People \ {s, t}, e.parent[p]["mother"] = e.parent[p]["father"] PROVE e.parent[p] = Family!Orphan
    BY <1>1, <1>8 DEF OneParentEach, Family!validateParentGraph
  <2>1. e.parent[p] = [r \in Family!Roles |-> e.parent[p][r]]
    <3>. HIDE DEF parent
    <3>. QED BY <1>4, <1>5 DEF Parents
  <2>2. CASE d.parent[p]["mother"] = d.parent[p]["father"]
    <3>1. d.parent[p] = Family!Orphan
      BY <2>2 DEF OneParentEach
    <3>2. \A r \in Family!Roles : e.parent[p][r] = Nobody
      BY <1>2, <1>6, <3>1, FamilyFacts DEF Family!Orphan
    <3>. QED BY <2>1, <3>2 DEF Family!Orphan
  <2>3. CASE d.parent[p]["mother"] # d.parent[p]["father"]
    <3>1. e.parent[p]["mother"] = t /\ e.parent[p]["father"] = t
      BY <1>6, <2>3 DEF Family!Roles
    <3>2. \A r \in Family!Roles : e.parent[p][r] = t
      BY <3>1 DEF Family!Roles
    <3>. QED BY <1>1, <2>1, <3>2
  <2>. QED BY <2>2, <2>3
<1>11. ThereAre(e)
  <2>1. ASSUME NEW p \in People, NEW r \in Family!Roles, e.parent[p][r] # Nobody PROVE e.parent[p][r] \in d.there
    <3>1. \A q \in People : d.parent[q][r] # Nobody => d.parent[q][r] \in d.there
      BY DEF ThereAre, Family!ParentsOf
    <3>2. CASE p = s
      BY <1>8, <2>1, <3>2 DEF Family!Orphan
    <3>3. CASE p = t
      BY <1>2, <1>7, <2>1, <3>1, <3>3
    <3>4. CASE p \notin {s, t}
      BY <1>6, <2>1, <3>1, <3>4
    <3>. QED BY <3>2, <3>3, <3>4
  <2>2. \A p \in People : Family!ParentsOf(e, p) \subseteq e.there
    BY <1>5, <2>1 DEF Family!ParentsOf
  <2>3. ASSUME NEW p \in People, p \notin d.there PROVE e.parent[p] = Family!Orphan
    <3>1. p \notin {s, t} /\ d.parent[p] = Family!Orphan
      BY <2>3 DEF ThereAre
    <3>2. \A r \in Family!Roles : e.parent[p][r] = Nobody
      BY <1>2, <1>6, <3>1, FamilyFacts DEF Family!Orphan
    <3>3. e.parent[p] = [r \in Family!Roles |-> e.parent[p][r]]
      BY <1>5, <3>1
    <3>. QED BY <3>2, <3>3 DEF Family!Orphan
  <2>. QED BY <1>5, <2>2, <2>3 DEF ThereAre
<1>12. Datable(e) /\ Family!WithinLimits(e, People)
  BY <1>5 DEF Datable, Family!WithinLimits, Family!SiblingsOf, Family!MarriagesOf
<1>13. e = [d EXCEPT !.parent = e.parent]
  BY <1>1, <1>5
<1>. QED BY <1>5, <1>9, <1>10, <1>11, <1>12, <1>13

LEMMA RenamedPair ==
  ASSUME NEW q \in Family!Pairs, NEW s \in People, NEW t \in People, s # t
  PROVE  LET u == Family!Renamed(q, s, t)
         IN  /\ u \subseteq q \cup {t} /\ s \notin u /\ \A p \in People \ {s, t} : p \in u <=> p \in q
             /\ q # {s, t} => u \in Family!Pairs
<1>. DEFINE u == Family!Renamed(q, s, t)
<1>1. u \subseteq q \cup {t} /\ s \notin u /\ \A p \in People \ {s, t} : p \in u <=> p \in q
  BY DEF Family!Renamed
<1>2. ASSUME q # {s, t} PROVE u \in Family!Pairs
  <2>1. PICK a \in q, b \in q : a # b /\ q = {a, b}
    BY DEF Family!Pairs
  <2>. DEFINE To(p) == IF p = s THEN t ELSE p
  <2>2. u = {To(a), To(b)} /\ To(a) # To(b)
    BY <1>2, <2>1 DEF Family!Renamed
  <2>3. u \in SUBSET People
    BY <1>1 DEF Family!Pairs
  <2>. QED BY <2>2, <2>3 DEF Family!Pairs
<1>. QED BY <1>1, <1>2

LEMMA AtMost ==
  ASSUME NEW f, NEW S, NEW T, IsFiniteSet(S), f \in Surjection(S, T), NEW n \in Nat, Cardinality(S) <= n
  PROVE  Cardinality(T) <= n
<1>1. IsFiniteSet(T) /\ Cardinality(T) <= Cardinality(S)
  BY FS_Surjection
<1>2. Cardinality(S) \in Nat /\ Cardinality(T) \in Nat
  BY <1>1, FS_CardinalityType
<1>. QED BY <1>1, <1>2

LEMMA DetailsMerged ==
  ASSUME NEW d, SoundOf(d), NEW s \in d.there, NEW t \in d.there, s # t, NEW e \in Family!MergeDetails(d, s, t)
  PROVE  SoundOf(e) /\ e.roots = d.roots /\ e.revision = d.revision /\ e.there = d.there
<1>. USE DEF SoundOf
<1>. DEFINE born == Family!OneDate(d.born[s], d.born[t])
            died == Family!OneDate(d.died[s], d.died[t])
            siblings == {Family!Renamed(q, s, t) : q \in d.siblings}
            Moved(m) == [m EXCEPT !.pair = Family!Renamed(@, s, t)]
            marriages == {Moved(m) : m \in d.marriages}
            births == [d.born EXCEPT ![s] = 0, ![t] = born]
            deaths == [d.died EXCEPT ![s] = 0, ![t] = died]
<1>1. /\ e = [d EXCEPT !.siblings = siblings, !.marriages = marriages, !.born = births, !.died = deaths]
      /\ Family!validPersonDates(born, died) /\ {s, t} \notin d.siblings \cup Family!Couples(d.marriages)
      /\ Family!WithinLimits(e, {t})
  BY DEF Family!MergeDetails, Family!NoDate
<1>2. s \in People /\ t \in People
  BY DEF Families
<1>3. ASSUME NEW q \in d.siblings PROVE Family!Renamed(q, s, t) \in Family!Pairs
  <2>1. q \in Family!Pairs /\ q # {s, t}
    BY <1>1 DEF Families
  <2>. QED BY <1>2, <2>1, RenamedPair
<1>4. ASSUME NEW m \in d.marriages
      PROVE  /\ m \in Weddings /\ Family!Renamed(m.pair, s, t) \in Family!Pairs
             /\ Moved(m) \in Weddings /\ Moved(m).pair = Family!Renamed(m.pair, s, t)
  <2>1. m \in Weddings /\ m.pair \in Family!Pairs /\ m.pair # {s, t}
    BY <1>1 DEF Families, Weddings, Family!Couples
  <2>2. Family!Renamed(m.pair, s, t) \in Family!Pairs
    BY <1>2, <2>1, RenamedPair
  <2>. QED BY <2>1, <2>2 DEF Weddings
<1>5. siblings \in SUBSET Family!Pairs /\ marriages \in SUBSET Weddings
  BY <1>3, <1>4
<1>6. births \in [People -> Given] /\ deaths \in [People -> Given]
  BY <1>2 DEF Families, Given, Family!OneDate
<1>7. /\ e \in Families /\ e.parent = d.parent /\ e.there = d.there /\ e.roots = d.roots /\ e.revision = d.revision
      /\ e.siblings = siblings /\ e.marriages = marriages /\ e.born = births /\ e.died = deaths
  <2>. HIDE DEF siblings, marriages, births, deaths
  <2>. QED BY <1>1, <1>5, <1>6 DEF Families
<1>8. (\A x \in e.siblings : x \subseteq d.there) /\ \A m \in e.marriages : m.pair \subseteq d.there
  <2>1. ASSUME NEW q \in d.siblings PROVE Family!Renamed(q, s, t) \subseteq d.there
    BY <1>2, RenamedPair DEF ThereAre, Families
  <2>2. ASSUME NEW m \in d.marriages PROVE Family!Renamed(m.pair, s, t) \subseteq d.there
    <3>1. m.pair \in Family!Pairs /\ m.pair \subseteq d.there
      BY <1>4 DEF ThereAre, Weddings
    <3>. QED BY <1>2, <3>1, RenamedPair
  <2>3. \A m \in d.marriages : Moved(m).pair \subseteq d.there
    BY <1>4, <2>2
  <2>. HIDE DEF Moved
  <2>. QED BY <1>7, <2>1, <2>3
<1>9. Datable(e)
  <2>1. e.born[t] = born /\ e.died[t] = died
    BY <1>2, <1>7 DEF Families
  <2>2. e.born[s] = 0
    BY <1>2, <1>7 DEF Families
  <2>3. \A p \in People \ {s, t} : e.born[p] = d.born[p] /\ e.died[p] = d.died[p]
    BY <1>7 DEF Families
  <2>. QED BY <1>1, <2>1, <2>2, <2>3 DEF Datable, Family!validPersonDates, Family!NoDate
<1>10. Family!WithinLimits(e, People)
  <2>1. ASSUME NEW p \in People \ {s, t} PROVE Family!WithinLimits(e, {p})
    <3>. DEFINE S == Family!SiblingsOf(d, p)
                M == Family!MarriagesOf(d, p)
                f == [q \in S |-> Family!Renamed(q, s, t)]
                g == [m \in M |-> Moved(m)]
    <3>1. Cardinality(S) <= RelationLimit /\ Cardinality(M) <= RelationLimit
      BY FamilyFacts DEF Family!WithinLimits
    <3>2. IsFiniteSet(S) /\ IsFiniteSet(M)
      BY Counted
    <3>3. \A q \in d.siblings : p \in Family!Renamed(q, s, t) <=> p \in q
      BY <1>2, RenamedPair DEF Families
    <3>4. f \in Surjection(S, Family!SiblingsOf(e, p))
      <4>1. \A q \in S : f[q] \in Family!SiblingsOf(e, p)
        BY <1>7, <3>3 DEF Family!SiblingsOf
      <4>2. \A u \in Family!SiblingsOf(e, p) : \E q \in S : f[q] = u
        BY <1>7, <3>3 DEF Family!SiblingsOf
      <4>. QED BY <4>1, <4>2 DEF Surjection
    <3>5. \A m \in d.marriages : p \in Moved(m).pair <=> p \in m.pair
      <4>1. ASSUME NEW m \in d.marriages PROVE p \in Moved(m).pair <=> p \in m.pair
        <5>1. m.pair \in Family!Pairs /\ Moved(m).pair = Family!Renamed(m.pair, s, t)
          BY <1>4 DEF Weddings
        <5>. QED BY <1>2, <5>1, RenamedPair
      <4>. QED BY <4>1
    <3>6. g \in Surjection(M, Family!MarriagesOf(e, p))
      <4>. HIDE DEF Moved
      <4>1. \A m \in M : g[m] \in Family!MarriagesOf(e, p)
        BY <1>7, <3>5 DEF Family!MarriagesOf
      <4>2. \A u \in Family!MarriagesOf(e, p) : \E m \in M : g[m] = u
        BY <1>7, <3>5 DEF Family!MarriagesOf
      <4>. QED BY <4>1, <4>2 DEF Surjection
    <3>7. Cardinality(Family!SiblingsOf(e, p)) <= RelationLimit
      <4>. HIDE DEF S, f
      <4>. QED BY <3>1, <3>2, <3>4, AtMost, FamilyFacts
    <3>8. Cardinality(Family!MarriagesOf(e, p)) <= RelationLimit
      <4>. HIDE DEF M, g
      <4>. QED BY <3>1, <3>2, <3>6, AtMost, FamilyFacts
    <3>. QED BY <3>7, <3>8, FamilyFacts DEF Family!WithinLimits
  <2>2. Family!WithinLimits(e, {s})
    <3>1. \A q \in d.siblings : s \notin Family!Renamed(q, s, t)
      BY <1>2, RenamedPair DEF Families
    <3>2. \A m \in d.marriages : s \notin Moved(m).pair
      <4>1. ASSUME NEW m \in d.marriages PROVE s \notin Moved(m).pair
        <5>1. m.pair \in Family!Pairs /\ Moved(m).pair = Family!Renamed(m.pair, s, t)
          BY <1>4 DEF Weddings
        <5>. QED BY <1>2, <5>1, RenamedPair
      <4>. QED BY <4>1
    <3>3. Family!SiblingsOf(e, s) = {} /\ Family!MarriagesOf(e, s) = {}
      <4>. HIDE DEF Moved
      <4>. QED BY <1>7, <3>1, <3>2 DEF Family!SiblingsOf, Family!MarriagesOf
    <3>4. Family!Cardinality({}) = 0 /\ RelationLimit \in Nat
      BY FS_EmptySet, FamilyFacts
    <3>. QED BY <3>3, <3>4 DEF Family!WithinLimits
  <2>. QED BY <1>1, <2>1, <2>2, LimitsOfAll
<1>. QED BY <1>7, <1>8, <1>9, <1>10, RelationsWritten

LEMMA TagsMerged ==
  ASSUME NEW d, SoundOf(d), NEW t \in People, NEW ts \in SUBSET Tags
  PROVE  /\ SoundOf([d EXCEPT !.tags[t] = ts])
         /\ [d EXCEPT !.tags[t] = ts].roots = d.roots /\ [d EXCEPT !.tags[t] = ts].revision = d.revision
         /\ [d EXCEPT !.tags[t] = ts].there = d.there
<1>. DEFINE e == [d EXCEPT !.tags[t] = ts]
<1>1. /\ e \in Families /\ e.parent = d.parent /\ e.there = d.there /\ e.roots = d.roots /\ e.revision = d.revision
      /\ e.siblings = d.siblings /\ e.marriages = d.marriages /\ e.born = d.born /\ e.died = d.died
  BY DEF SoundOf, Families
<1>2. Datable(e) /\ Family!WithinLimits(e, People)
  <2>. HIDE DEF e
  <2>. QED BY <1>1 DEF SoundOf, Datable, Family!WithinLimits, Family!SiblingsOf, Family!MarriagesOf
<1>3. (\A x \in e.siblings : x \subseteq d.there) /\ \A m \in e.marriages : m.pair \subseteq d.there
  BY <1>1 DEF SoundOf, ThereAre
<1>. QED BY <1>1, <1>2, <1>3, RelationsWritten

LEMMA FamilyMerged ==
  ASSUME NEW d, SoundOf(d), NEW s \in d.there, NEW t \in d.there, s # t, NEW e \in Family!MergeFamily(d, s, t)
  PROVE  SoundOf(e) /\ Later(d, e) /\ e.there = d.there
<1>. DEFINE c == Family!MoveRoot(d, s, t)
<1>1. PICK m \in Family!MergeParents(c, s, t) : e = m \/ e \in Family!MergeDetails(m, s, t)
  BY DEF Family!MergeFamily
<1>2. SoundOf(c) /\ Later(d, c) /\ c.there = d.there
  <2>1. SoundOf(c) /\ Later(d, c) /\ c = [d EXCEPT !.roots = c.roots, !.revision = c.revision]
    BY RootMoved
  <2>. HIDE DEF c
  <2>. QED BY <2>1 DEF SoundOf, Families
<1>3. SoundOf(m) /\ m.there = d.there /\ m.roots = c.roots /\ m.revision = c.revision
  <2>. HIDE DEF c
  <2>1. SoundOf(m) /\ m = [c EXCEPT !.parent = m.parent]
    BY <1>2, ParentsMerged
  <2>2. c \in Families
    BY <1>2 DEF SoundOf
  <2>. QED BY <1>2, <2>1, <2>2 DEF Families
<1>4. SoundOf(e) /\ e.there = d.there /\ e.roots = c.roots /\ e.revision = c.revision
  <2>. HIDE DEF c
  <2>. QED BY <1>1, <1>3, DetailsMerged
<1>. QED BY <1>2, <1>4 DEF Later

-----------------------------------------------------------------------------
(* The form of a person                                                     *)

LEMMA InputTypes ==
  ASSUME NEW p \in People, NEW shown \in Details, NEW in \in Family!Inputs(shown, p)
  PROVE  in \in Details
<1>1. ASSUME NEW r \in Family!Roles, NEW q \in People \cup {Nobody}, in = [shown EXCEPT !.parent[r] = q] PROVE in \in Details
  BY <1>1 DEF Details, Parents
<1>2. ASSUME NEW t \in Given, in = [shown EXCEPT !.born = t] \/ in = [shown EXCEPT !.died = t] PROVE in \in Details
  BY <1>2 DEF Details
<1>3. ASSUME NEW s \in Family!Pairs, in = [shown EXCEPT !.siblings = (@ \cup {s}) \ (@ \cap {s})] PROVE in \in Details
  BY <1>3 DEF Details
<1>4. ASSUME NEW m \in Weddings, in = [shown EXCEPT !.marriages = (@ \cup {m}) \ (@ \cap {m})] PROVE in \in Details
  BY <1>4 DEF Details
<1>5. ASSUME NEW n \in shown.marriages, NEW t \in Dates,
             in = [shown EXCEPT !.marriages = {IF m = n THEN [m EXCEPT !.wed = t] ELSE m : m \in @}]
      PROVE  in \in Details
  <2>. DEFINE marriages == {IF m = n THEN [m EXCEPT !.wed = t] ELSE m : m \in shown.marriages}
  <2>1. \A m \in shown.marriages : m \in Weddings /\ [m EXCEPT !.wed = t] \in Weddings
    BY DEF Details, Weddings, Given
  <2>2. marriages \in SUBSET Weddings
    BY <2>1
  <2>3. in = [shown EXCEPT !.marriages = marriages]
    BY <1>5
  <2>. HIDE DEF marriages
  <2>. QED BY <2>2, <2>3 DEF Details
<1>6. [pair : {s \in Family!Pairs : p \in s}, wed : {0}] \subseteq Weddings
  BY DEF Weddings, Given
<1>. QED BY <1>1, <1>2, <1>3, <1>4, <1>5, <1>6 DEF Family!Inputs, Family!NoDate, Given

LEMMA StoredTypes ==
  ASSUME NEW d \in Families, NEW p \in People
  PROVE  Family!Stored(d, p) \in Details /\ Family!Shown(Family!Stored(d, p), p, visible) \in Details
<1>1. d.parent[p] \in Parents /\ d.born[p] \in Given /\ d.died[p] \in Given
  BY DEF Families
<1>2. Family!SiblingsOf(d, p) \in SUBSET Family!Pairs /\ Family!MarriagesOf(d, p) \in SUBSET Weddings
  BY DEF Families, Family!SiblingsOf, Family!MarriagesOf
<1>3. Family!Stored(d, p) \in Details
  BY <1>1, <1>2 DEF Family!Stored, Details
<1>4. ASSUME NEW x \in Details PROVE Family!Shown(x, p, visible) \in Details
  <2>1. [r \in Family!Roles |-> IF x.parent[r] \in visible THEN x.parent[r] ELSE Nobody] \in Parents
    BY DEF Details, Parents
  <2>. QED BY <2>1 DEF Details, Family!Shown
<1>. QED BY <1>3, <1>4

\* What a form that is saved finds and leaves.
Saves(p, in) == /\ p \in People /\ in \in Details /\ Family!Referred(in, p) \subseteq visible

LEMMA ShownIsVisible ==
  ASSUME NEW p \in visible, NEW d \in Families, NEW q \in People \ visible
  PROVE  LET shown == Family!Shown(Family!Stored(d, p), p, visible)
         IN  /\ \A s \in shown.siblings : s \in d.siblings /\ q \notin s
             /\ \A m \in shown.marriages : m \in d.marriages /\ q \notin m.pair
<1>. DEFINE shown == Family!Shown(Family!Stored(d, p), p, visible)
<1>1. /\ shown.siblings = {s \in Family!SiblingsOf(d, p) : Family!Other(s, p) \in visible}
      /\ shown.marriages = {m \in Family!MarriagesOf(d, p) : Family!Other(m.pair, p) \in visible}
  BY DEF Family!Shown, Family!Stored
<1>2. ASSUME NEW s \in Family!Pairs, p \in s, Family!Other(s, p) \in visible PROVE q \notin s
  BY <1>2, OtherIs
<1>3. \A s \in shown.siblings : s \in d.siblings /\ q \notin s
  BY <1>1, <1>2 DEF Families, Family!SiblingsOf
<1>4. \A m \in shown.marriages : m \in d.marriages /\ q \notin m.pair
  BY <1>1, <1>2 DEF Families, Weddings, Family!MarriagesOf
<1>. QED BY <1>3, <1>4

WroteDetails(d, p, in) ==
    LET shown == Family!Shown(Family!Stored(family, p), p, visible)
    IN  /\ d \in Families
        /\ d.siblings = (family.siblings \ shown.siblings) \cup in.siblings
        /\ d.marriages = (family.marriages \ shown.marriages) \cup in.marriages
        /\ d.born = [family.born EXCEPT ![p] = in.born] /\ d.died = [family.died EXCEPT ![p] = in.died]
        /\ d.there = family.there /\ d.roots = family.roots /\ d.revision = family.revision
        /\ d.parent = [family.parent EXCEPT ![p] = Family!Resolved(in, family.parent[p])]
        /\ \E e : SoundOf(e) /\ e.parent = d.parent /\ e.there = d.there /\ e.roots = d.roots
LEMMA DetailsWritten ==
  ASSUME FamilyInv, NEW p, NEW in, Saves(p, in), NEW d \in Family!WithDetails(family, p, in)
  PROVE  WroteDetails(d, p, in)
<1>. USE DEF FamilyInv, Saves
<1>. DEFINE shown == Family!Shown(Family!Stored(family, p), p, visible)
            parents == Family!Resolved(in, family.parent[p])
<1>1. family \in Families /\ p \in family.there /\ shown \in Details
  BY StoredTypes DEF SoundOf, Family!Referred
<1>2. PICK e \in IF parents = family.parent[p] THEN {family} ELSE Family!WithParents(family, p, parents) :
           d = [e EXCEPT !.siblings = (@ \ shown.siblings) \cup in.siblings,
                         !.marriages = (@ \ shown.marriages) \cup in.marriages,
                         !.born[p] = in.born, !.died[p] = in.died]
  BY DEF Family!WithDetails
<1>3. SoundOf(e) /\ e = [family EXCEPT !.parent[p] = parents]
  <2>1. CASE parents = family.parent[p]
    <3>1. family = [family EXCEPT !.parent[p] = family.parent[p]]
      BY <1>1 DEF Families
    <3>. QED BY <1>2, <2>1, <3>1
  <2>2. CASE parents # family.parent[p]
    <3>1. parents \in Parents
      BY <1>1, ParentTypes DEF Family!Resolved, Details, Parents
    <3>2. ASSUME NEW r \in Family!Roles, parents[r] # Nobody PROVE parents[r] \in family.there
      <4>1. CASE in.parent[r] = Nobody /\ family.parent[p][r] \notin visible
        <5>1. parents[r] = family.parent[p][r]
          BY <4>1 DEF Family!Resolved
        <5>. QED BY <1>1, <3>2, <5>1 DEF SoundOf, ThereAre, Family!ParentsOf
      <4>2. CASE ~(in.parent[r] = Nobody /\ family.parent[p][r] \notin visible)
        <5>1. parents[r] = in.parent[r]
          BY <4>2 DEF Family!Resolved
        <5>. QED BY <3>2, <5>1 DEF Family!Referred
      <4>. QED BY <4>1, <4>2
    <3>. HIDE DEF parents
    <3>. QED BY <1>1, <1>2, <2>2, <3>1, <3>2, ParentsWritten
  <2>. QED BY <2>1, <2>2
<1>. HIDE DEF shown, parents
<1>4. /\ e \in Families /\ e.siblings = family.siblings /\ e.marriages = family.marriages /\ e.born = family.born
      /\ e.died = family.died /\ e.there = family.there /\ e.roots = family.roots /\ e.revision = family.revision
      /\ e.parent = [family.parent EXCEPT ![p] = parents]
  BY <1>1, <1>3 DEF SoundOf, Families
<1>5. /\ d.siblings = (e.siblings \ shown.siblings) \cup in.siblings
      /\ d.marriages = (e.marriages \ shown.marriages) \cup in.marriages
      /\ d.born = [e.born EXCEPT ![p] = in.born] /\ d.died = [e.died EXCEPT ![p] = in.died]
      /\ d.there = e.there /\ d.roots = e.roots /\ d.revision = e.revision /\ d.parent = e.parent
  BY <1>2, <1>4 DEF Families
<1>6. d \in Families
  <2>1. /\ (e.siblings \ shown.siblings) \cup in.siblings \in SUBSET Family!Pairs
        /\ (e.marriages \ shown.marriages) \cup in.marriages \in SUBSET Weddings
    BY <1>4 DEF Families, Details
  <2>2. [e.born EXCEPT ![p] = in.born] \in [People -> Given] /\ [e.died EXCEPT ![p] = in.died] \in [People -> Given]
    BY <1>4 DEF Families, Details
  <2>3. d = [e EXCEPT !.siblings = d.siblings, !.marriages = d.marriages, !.born = d.born, !.died = d.died]
    BY <1>2, <1>4 DEF Families
  <2>. QED BY <1>4, <1>5, <2>1, <2>2, <2>3 DEF Families
<1>. QED BY <1>3, <1>4, <1>5, <1>6 DEF WroteDetails, shown, parents

LEMMA ReferredHas ==
  ASSUME NEW p, NEW in
  PROVE  /\ \A s \in in.siblings : s \subseteq Family!Referred(in, p)
         /\ \A m \in in.marriages : m.pair \subseteq Family!Referred(in, p)
<1>1. \A x \in in.siblings \cup Family!Couples(in.marriages) : x \subseteq Family!Referred(in, p)
  BY DEF Family!Referred
<1>. QED BY <1>1 DEF Family!Couples

LEMMA DetailsAreSound ==
  ASSUME FamilyInv, NEW p, NEW in, Saves(p, in), NEW d \in Family!WithDetails(family, p, in),
         Family!validPersonDates(in.born, in.died), Family!WithinLimits(d, Family!Referred(in, p))
  PROVE  SoundOf(d) /\ Later(family, d) /\ d.there = family.there
<1>. DEFINE shown == Family!Shown(Family!Stored(family, p), p, visible)
<1>0. WroteDetails(d, p, in)
  BY DetailsWritten
<1>1. /\ d \in Families
      /\ d.siblings = (family.siblings \ shown.siblings) \cup in.siblings
      /\ d.marriages = (family.marriages \ shown.marriages) \cup in.marriages
      /\ d.born = [family.born EXCEPT ![p] = in.born] /\ d.died = [family.died EXCEPT ![p] = in.died]
      /\ d.there = family.there /\ d.roots = family.roots /\ d.revision = family.revision
  BY <1>0 DEF WroteDetails
<1>2. PICK e : SoundOf(e) /\ e.parent = d.parent /\ e.there = d.there /\ e.roots = d.roots
  BY <1>0 DEF WroteDetails
<1>. HIDE DEF shown
<1>. USE DEF FamilyInv, Saves
<1>3. \A s \in in.siblings : s \subseteq Family!Referred(in, p)
  BY ReferredHas
<1>4. \A m \in in.marriages : m.pair \subseteq Family!Referred(in, p)
  BY ReferredHas
<1>5. (\A s \in d.siblings : s \subseteq e.there) /\ \A m \in d.marriages : m.pair \subseteq e.there
  BY <1>1, <1>2, <1>3, <1>4 DEF SoundOf, ThereAre
<1>6. Datable(d)
  BY <1>1 DEF SoundOf, Datable, Families
<1>7. Family!WithinLimits(d, People)
  <2>1. ASSUME NEW q \in People \ Family!Referred(in, p) PROVE Family!WithinLimits(d, {q})
    <3>1. Family!SiblingsOf(d, q) \subseteq Family!SiblingsOf(family, q)
      BY <1>1, <1>3 DEF Family!SiblingsOf
    <3>2. Family!MarriagesOf(d, q) \subseteq Family!MarriagesOf(family, q)
      BY <1>1, <1>4 DEF Family!MarriagesOf
    <3>3. Family!WithinLimits(family, {q}) /\ family \in Families
      BY DEF SoundOf, Family!WithinLimits
    <3>. QED BY <1>1, <3>1, <3>2, <3>3, NoNewRelations
  <2>2. \A q \in Family!Referred(in, p) : Family!WithinLimits(d, {q})
    BY DEF Family!WithinLimits
  <2>. QED BY <2>1, <2>2, LimitsOfAll
<1>8. Later(family, d)
  BY <1>1 DEF Later, SoundOf, Families
<1>. QED BY <1>1, <1>2, <1>5, <1>6, <1>7, <1>8, RelationsWritten

-----------------------------------------------------------------------------
(* Every step                                                               *)

LEMMA FamilyChanged ==
  ASSUME FamilyInv, SoundOf(family'), Later(family, family'), visible' \subseteq family'.there,
         form' \in {form, NoForm}, treeForm' = treeForm
  PROVE  FamilyInv'
<1>1. FormFits'
  BY DEF FamilyInv, FormFits
<1>2. TreeFormFits'
  BY DEF FamilyInv, TreeFormFits, Later, SoundOf, Families
<1>. QED BY <1>1, <1>2 DEF FamilyInv, SoundOf

LEMMA FamilySteps == ASSUME FamilyInv, Family!Next PROVE FamilyInv'
<1>. USE DEF FamilyInv
<1>0. SoundOf(family) /\ family \in Families /\ visible \subseteq family.there /\ Later(family, family) /\ family.there \subseteq People
  BY DEF SoundOf, Later, Families
<1>1. ASSUME NEW p \in People, NEW parents \in [Family!Roles -> People \cup {Nobody}], Family!SetPersonParents(p, parents)
      PROVE  FamilyInv'
  <2>1. /\ p \in family.there /\ parents \in Parents
        /\ {parents[r] : r \in Family!Roles} \ {Nobody} \subseteq family.there
        /\ family' \in Family!WithParents(family, p, parents)
    BY <1>0, <1>1 DEF Family!SetPersonParents, Parents
  <2>2. SoundOf(family') /\ family' = [family EXCEPT !.parent[p] = parents]
    BY <1>0, <2>1, ParentsWritten DEF SoundOf
  <2>3. Later(family, family') /\ family'.there = family.there
    BY <1>0, <2>2 DEF Later, Families
  <2>4. UNCHANGED <<visible, form, treeForm>>
    BY <1>1 DEF Family!SetPersonParents
  <2>. QED BY <1>0, <2>2, <2>3, <2>4, FamilyChanged
<1>2. ASSUME NEW p \in People, Family!OpenForm(p) PROVE FamilyInv'
  <2>1. UNCHANGED <<family, visible, treeForm>>
    BY <1>2 DEF Family!OpenForm
  <2>2. FormFits'
    BY <1>0, <1>2, StoredTypes DEF Family!OpenForm, FormFits
  <2>3. SoundOf(family)' /\ TreeFormFits'
    BY <2>1 DEF SoundOf, TreeFormFits, OneParentEach, ThereAre, Datable, Families
  <2>. QED BY <2>1, <2>2, <2>3
<1>3. ASSUME NEW p \in People, Family!LastFaceGone(p) PROVE FamilyInv'
  <2>1. family' = Family!Deleted(family, p) /\ visible' = visible \ {p} /\ UNCHANGED <<form, treeForm>>
    BY <1>3 DEF Family!LastFaceGone
  <2>2. SoundOf(Family!Deleted(family, p)) /\ Later(family, Family!Deleted(family, p))
        /\ Family!Deleted(family, p).there = family.there \ {p}
    BY PersonDeleted
  <2>3. SoundOf(family') /\ Later(family, family') /\ family'.there = family.there \ {p}
    BY <2>1, <2>2 DEF SoundOf, OneParentEach, ThereAre, Datable
  <2>. QED BY <1>0, <2>1, <2>3, FamilyChanged
<1>4. ASSUME NEW p \in People, Family!Hide(p) \/ Family!Reveal(p) PROVE FamilyInv'
  <2>1. UNCHANGED <<family, form, treeForm>> /\ visible' \subseteq family.there
    BY <1>0, <1>4 DEF Family!Hide, Family!Reveal
  <2>2. SoundOf(family')
    BY <1>0, <2>1 DEF SoundOf, OneParentEach, ThereAre, Datable
  <2>. QED BY <1>0, <2>1, <2>2, FamilyChanged
<1>5. ASSUME NEW s \in People, NEW t \in People, Family!Merge(s, t) PROVE FamilyInv'
  <2>1. PICK e \in Family!MergeFamily(family, s, t) :
            family' \in {Family!MergeTags(e, s, t), Family!Deleted(Family!MergeTags(e, s, t), s)}
    BY <1>5 DEF Family!Merge
  <2>2. /\ s \in family.there /\ t \in family.there /\ s # t /\ UNCHANGED <<form, treeForm>>
        /\ visible' = (visible \ {s}) \cup (IF s \in visible THEN {t} ELSE {})
    BY <1>5 DEF Family!Merge
  <2>3. SoundOf(e) /\ Later(family, e) /\ e.there = family.there
    BY <1>0, <2>2, FamilyMerged
  <2>. DEFINE g == Family!MergeTags(e, s, t)
  <2>4. SoundOf(g) /\ Later(family, g) /\ g.there = family.there
    <3>. DEFINE ts == e.tags[t] \cup e.tags[s]
    <3>1. ts \in SUBSET Tags /\ g = [e EXCEPT !.tags[t] = ts]
      BY <2>3 DEF Family!MergeTags, SoundOf, Families
    <3>. HIDE DEF ts, g
    <3>2. SoundOf(g) /\ g.roots = e.roots /\ g.revision = e.revision /\ g.there = e.there
      BY <2>3, <3>1, TagsMerged
    <3>. QED BY <2>3, <3>2 DEF Later
  <2>. HIDE DEF g
  <2>5. CASE family' = g
    <3>1. SoundOf(family') /\ Later(family, family') /\ family'.there = family.there
      BY <2>4, <2>5
    <3>. QED BY <1>0, <2>2, <3>1, FamilyChanged
  <2>6. CASE family' = Family!Deleted(g, s)
    <3>1. SoundOf(family') /\ Later(g, family') /\ family'.there = g.there \ {s}
      BY <2>4, <2>6, PersonDeleted
    <3>2. Later(family, family')
      BY <2>4, <3>1, <1>0 DEF Later, SoundOf, Families
    <3>. QED BY <1>0, <2>2, <2>4, <3>1, <3>2, FamilyChanged
  <2>. QED BY <2>1, <2>5, <2>6 DEF g
<1>6. ASSUME NEW p \in People, NEW ts \in SUBSET Tags, Family!SetPersonTags(p, ts) PROVE FamilyInv'
  <2>1. family' = [family EXCEPT !.tags[p] = ts] /\ UNCHANGED <<visible, form, treeForm>>
    BY <1>6 DEF Family!SetPersonTags
  <2>2. SoundOf(family') /\ family'.roots = family.roots /\ family'.revision = family.revision /\ family'.there = family.there
    BY <1>0, <2>1, TagsMerged
  <2>. QED BY <1>0, <2>1, <2>2, FamilyChanged DEF Later
<1>7. ASSUME Family!SetPersonDetails PROVE FamilyInv'
  <2>1. PICK in \in Family!Inputs(form.shown, form.who) :
            /\ Family!validPersonDates(in.born, in.died) /\ Family!Referred(in, form.who) \subseteq visible
            /\ \E d \in Family!WithDetails(family, form.who, in) :
                  Family!WithinLimits(d, Family!Referred(in, form.who)) /\ family' = d
    BY <1>7 DEF Family!SetPersonDetails
  <2>2. form # NoForm /\ form' = NoForm /\ UNCHANGED <<visible, treeForm>>
    BY <1>7 DEF Family!SetPersonDetails
  <2>3. Saves(form.who, in)
    BY <2>1, <2>2, InputTypes DEF Saves, FormFits
  <2>4. SoundOf(family') /\ Later(family, family') /\ family'.there = family.there
    BY <2>1, <2>3, DetailsAreSound
  <2>. QED BY <1>0, <2>2, <2>4, FamilyChanged
<1>8. ASSUME Family!CloseForm PROVE FamilyInv'
  <2>1. UNCHANGED <<family, visible, treeForm>> /\ form' = NoForm
    BY <1>8 DEF Family!CloseForm
  <2>2. SoundOf(family')
    BY <1>0, <2>1
  <2>. QED BY <1>0, <2>1, <2>2, FamilyChanged
<1>9. ASSUME NEW ps \in SUBSET People, NEW ts \in SUBSET Tags, Family!AddPeopleTags(ps, ts) PROVE FamilyInv'
  <2>. DEFINE tags == [p \in People |-> IF p \in ps THEN family.tags[p] \cup ts ELSE family.tags[p]]
  <2>1. family' = [family EXCEPT !.tags = tags] /\ UNCHANGED <<visible, form, treeForm>>
    BY <1>9 DEF Family!AddPeopleTags
  <2>2. tags \in [People -> SUBSET Tags]
    BY <1>0 DEF Families
  <2>. HIDE DEF tags
  <2>3. /\ family' \in Families /\ family'.parent = family.parent /\ family'.there = family.there /\ family'.roots = family.roots
        /\ family'.revision = family.revision /\ family'.siblings = family.siblings /\ family'.marriages = family.marriages
        /\ family'.born = family.born /\ family'.died = family.died
    BY <1>0, <2>1, <2>2 DEF Families
  <2>4. Datable(family') /\ Family!WithinLimits(family', People)
    BY <1>0, <2>3 DEF SoundOf, Datable, Family!WithinLimits, Family!SiblingsOf, Family!MarriagesOf
  <2>5. (\A s \in family'.siblings : s \subseteq family.there) /\ \A m \in family'.marriages : m.pair \subseteq family.there
    BY <1>0, <2>3 DEF SoundOf, ThereAre
  <2>6. SoundOf(family')
    BY <1>0, <2>3, <2>4, <2>5, RelationsWritten
  <2>. QED BY <1>0, <2>1, <2>3, <2>6, FamilyChanged DEF Later
<1>10. ASSUME Family!OpenTreeForm \/ Family!CloseTreeForm PROVE FamilyInv'
  <2>1. UNCHANGED <<family, visible, form>>
    BY <1>10 DEF Family!OpenTreeForm, Family!CloseTreeForm
  <2>2. SoundOf(family') /\ FormFits'
    BY <1>0, <2>1 DEF FormFits
  <2>3. TreeFormFits'
    BY <1>0, <1>10 DEF Family!OpenTreeForm, Family!CloseTreeForm, TreeFormFits, Families
  <2>. QED BY <1>0, <2>1, <2>2, <2>3
<1>11. ASSUME NEW roots \in SUBSET People, Family!SetFamilyTreeRoots(roots) PROVE FamilyInv'
  <2>. DEFINE revision == family.revision + Cardinality(family.roots) + Cardinality(roots) + 1
  <2>1. /\ family' = [family EXCEPT !.roots = roots, !.revision = revision] /\ roots \subseteq visible \cup family.roots
        /\ treeForm' = NoForm /\ UNCHANGED <<visible, form>>
    BY <1>11, FamilyFacts DEF Family!SetFamilyTreeRoots
  <2>2. revision \in Nat /\ revision > family.revision
    <3>1. Cardinality(family.roots) \in Nat /\ Cardinality(roots) \in Nat
      BY <1>0, FamilyFacts, FS_Subset, FS_CardinalityType DEF Families
    <3>. QED BY <1>0, <3>1 DEF Families
  <2>. HIDE DEF revision
  <2>3. /\ family' \in Families /\ family'.parent = family.parent /\ family'.there = family.there /\ family'.roots = roots
        /\ family'.siblings = family.siblings /\ family'.marriages = family.marriages
        /\ family'.born = family.born /\ family'.died = family.died
    BY <1>0, <2>1, <2>2 DEF Families
  <2>4. Family!NoCircle(family') /\ OneParentEach(family') /\ Datable(family') /\ Family!WithinLimits(family', People)
    BY <1>0, <2>3 DEF SoundOf, Family!NoCircle, Family!ParentsOf, OneParentEach, Datable, Family!WithinLimits,
                      Family!SiblingsOf, Family!MarriagesOf
  <2>5. ThereAre(family')
    BY <1>0, <2>1, <2>3 DEF SoundOf, ThereAre, Family!ParentsOf
  <2>6. FormFits' /\ TreeFormFits'
    BY <2>1 DEF FormFits, TreeFormFits
  <2>7. SoundOf(family')
    BY <2>3, <2>4, <2>5 DEF SoundOf
  <2>. QED BY <1>0, <2>1, <2>3, <2>6, <2>7
<1>. QED BY <1>1, <1>2, <1>3, <1>4, <1>5, <1>6, <1>7, <1>8, <1>9, <1>10, <1>11 DEF Family!Next

LEMMA FamilyBegins == ASSUME Family!Init PROVE FamilyInv
<1>. USE DEF Family!Init
<1>1. Family!Orphan \in Parents /\ \A r \in Family!Roles : Family!Orphan[r] = Nobody
  BY DEF Family!Orphan, Parents
<1>2. /\ family.there = People /\ family.siblings = {} /\ family.marriages = {} /\ family.roots = {}
      /\ family.parent = [p \in People |-> Family!Orphan]
      /\ family.born = [p \in People |-> 0] /\ family.died = [p \in People |-> 0]
  BY DEF Family!NoDate
<1>3. family \in Families
  BY <1>1 DEF Families, Family!NoDate, Given
<1>4. \A p \in People : family.parent[p] = Family!Orphan /\ Family!ParentsOf(family, p) = {}
  BY <1>1, <1>2 DEF Family!ParentsOf
<1>5. Family!NoCircle(family)
  BY <1>4 DEF Family!NoCircle
<1>8. OneParentEach(family) /\ ThereAre(family)
  BY <1>2, <1>4 DEF OneParentEach, ThereAre
<1>9. Datable(family)
  BY <1>2 DEF Datable, Family!validPersonDates, Family!NoDate
<1>6. Family!WithinLimits(family, People)
  BY <1>2, FS_EmptySet, FamilyFacts DEF Family!WithinLimits, Family!SiblingsOf, Family!MarriagesOf
<1>7. FormFits /\ TreeFormFits /\ visible \subseteq family.there
  BY <1>2 DEF FormFits, TreeFormFits
<1>. QED BY <1>3, <1>5, <1>6, <1>7, <1>8, <1>9 DEF FamilyInv, SoundOf

LEMMA FamilyAlways == Family!Spec => []FamilyInv
<1>1. ASSUME FamilyInv, UNCHANGED Family!vars PROVE FamilyInv'
  <2>1. UNCHANGED <<family, visible, form, treeForm>>
    BY <1>1 DEF Family!vars
  <2>2. SoundOf(family') /\ FormFits' /\ TreeFormFits'
    BY <1>1, <2>1 DEF FamilyInv, FormFits, TreeFormFits
  <2>. QED BY <1>1, <2>1, <2>2 DEF FamilyInv
<1>. QED BY <1>1, FamilyBegins, FamilySteps, PTL DEF Family!Spec

(* Nobody is their own ancestor, has one parent twice, lives backwards or   *)
(* is related to someone who is gone, and an old form of the trees changes  *)
(* nothing (person_parents.go, person_details.go, family_tree.go).          *)
THEOREM FamiliesAreSound == Family!Spec => []FamilyIsSound
<1>1. ASSUME FamilyInv PROVE FamilyIsSound
  <2>. USE <1>1 DEF FamilyInv
  <2>1. family.siblings \cup Family!Couples(family.marriages) \subseteq Family!Pairs
    BY DEF SoundOf, Families, Weddings, Family!Couples
  <2>2. Family!PeopleOf(family) \subseteq family.there
    <3>1. \A p \in People : Family!ParentsOf(family, p) \cup (IF family.parent[p] = Family!Orphan THEN {} ELSE {p}) \subseteq family.there
      BY DEF SoundOf, ThereAre
    <3>2. \A x \in family.siblings \cup Family!Couples(family.marriages) : x \subseteq family.there
      BY DEF SoundOf, ThereAre, Family!Couples
    <3>3. family.roots \subseteq family.there
      BY DEF SoundOf, ThereAre
    <3>. QED BY <3>1, <3>2, <3>3 DEF Family!PeopleOf
  <2>3. treeForm # NoForm /\ treeForm.revision = family.revision => treeForm.roots = family.roots
    BY DEF TreeFormFits
  <2>. QED BY <2>1, <2>2, <2>3 DEF SoundOf, FamilyIsSound, Family!FamilyIsSound, OneParentEach, Datable
<1>. QED BY <1>1, FamilyAlways, PTL

(* Who saves the form of a person takes nothing away from anybody who is    *)
(* hidden when it is saved (person_details.go SetPersonDetails).            *)
THEOREM HiddenRelationsStay == Family!Spec => HiddenStays
<1>1. ASSUME FamilyInv, Family!Next PROVE Family!HiddenStays
  <2>. SUFFICES ASSUME form # NoForm, form' = NoForm, NEW q \in People \ visible
                PROVE  /\ Family!SiblingsOf(family', q) = Family!SiblingsOf(family, q)
                       /\ Family!MarriagesOf(family', q) = Family!MarriagesOf(family, q)
                       /\ \A p \in People, r \in Family!Roles :
                             family.parent[p][r] = q => family'.parent[p][r] \in {q} \cup visible
    BY DEF Family!HiddenStays
  <2>1. Family!CloseForm \/ Family!SetPersonDetails
    BY <1>1 DEF Family!Next, Family!SetPersonParents, Family!OpenForm, Family!LastFaceGone, Family!Hide, Family!Reveal,
                Family!Merge, Family!SetPersonTags, Family!AddPeopleTags, Family!OpenTreeForm, Family!CloseTreeForm,
                Family!SetFamilyTreeRoots
  <2>2. CASE Family!CloseForm
    BY <2>2 DEF Family!CloseForm
  <2>3. CASE Family!SetPersonDetails
    <3>1. PICK in \in Family!Inputs(form.shown, form.who) :
              Family!Referred(in, form.who) \subseteq visible /\ family' \in Family!WithDetails(family, form.who, in)
      BY <2>3 DEF Family!SetPersonDetails
    <3>. DEFINE p == form.who
                shown == Family!Shown(Family!Stored(family, p), p, visible)
    <3>2. Saves(p, in) /\ p \in visible
      BY <1>1, <3>1, InputTypes DEF FamilyInv, FormFits, Saves, Family!Referred
    <3>3. /\ family'.siblings = (family.siblings \ shown.siblings) \cup in.siblings
          /\ family'.marriages = (family.marriages \ shown.marriages) \cup in.marriages
          /\ family'.parent = [family.parent EXCEPT ![p] = Family!Resolved(in, family.parent[p])]
      <4>. HIDE DEF p
      <4>1. family' \in Family!WithDetails(family, p, in)
        BY <3>1 DEF p
      <4>2. WroteDetails(family', p, in)
        BY <1>1, <3>2, <4>1, DetailsWritten
      <4>. QED BY <4>2 DEF WroteDetails
    <3>4. /\ \A s \in shown.siblings : q \notin s
          /\ \A m \in shown.marriages : q \notin m.pair
      BY <1>1, <3>2, ShownIsVisible DEF FamilyInv, SoundOf
    <3>5. (\A s \in in.siblings : q \notin s) /\ \A m \in in.marriages : q \notin m.pair
      <4>. HIDE DEF p
      <4>. QED BY <3>2, ReferredHas DEF Saves
    <3>6. family \in Families /\ p \in People
      BY <1>1, <3>2 DEF FamilyInv, SoundOf, Saves
    <3>. HIDE DEF p, shown
    <3>7. Family!SiblingsOf(family', q) = Family!SiblingsOf(family, q) /\ Family!MarriagesOf(family', q) = Family!MarriagesOf(family, q)
      BY <3>3, <3>4, <3>5 DEF Family!SiblingsOf, Family!MarriagesOf
    <3>8. ASSUME NEW r \in Family!Roles, family.parent[p][r] = q PROVE family'.parent[p][r] \in {q} \cup visible
      <4>1. family'.parent[p][r] = IF in.parent[r] = Nobody /\ q \notin visible THEN q ELSE in.parent[r]
        BY <3>3, <3>6, <3>8 DEF Families, Family!Resolved
      <4>2. in.parent[r] # Nobody => in.parent[r] \in visible
        BY <3>2 DEF Saves, Family!Referred
      <4>. QED BY <4>1, <4>2
    <3>9. \A x \in People \ {p} : family'.parent[x] = family.parent[x]
      BY <3>3, <3>6 DEF Families
    <3>. QED BY <3>7, <3>8, <3>9
  <2>. QED BY <2>1, <2>2, <2>3
<1>2. ASSUME FamilyInv, [Family!Next]_(Family!vars) PROVE [Family!HiddenStays]_ofFamily
  BY <1>1, <1>2 DEF Family!vars, ofFamily
<1>. QED BY <1>2, FamilyAlways, PTL DEF Family!Spec, HiddenStays

-----------------------------------------------------------------------------
(* Texts of documents: a running job has the worker on it, a document has   *)
(* one active job, and text that OCR found is not overwritten once the      *)
(* import is done.                                                          *)

OcrStates == {"off", "boot", "scan", "idle", "wait", "fetch", "start", "read", "store", "complete", "ending"}
Statuses == Ended \cup {"queued", "running", "gone"}
OcrTypes == ocr \in [at : OcrStates, list : Seq(Nat), end : Ended] /\ (AtJob => ocr.list # <<>>)
PostTypes == post \in [at : {"off", "scan", "wait", "mark", "process", "done"}, list : Seq(Docs), failed : BOOLEAN]
TableTypes == /\ status \in Seq(Statuses) /\ docOf \in Seq(Docs) /\ Len(status) = Len(docOf)
RowTypes == /\ place \in [Docs -> {"new", "active", "trash", "gone"}] /\ text \in [Docs -> {"none", "file", "ocr"}]
            /\ pending \in [Docs -> BOOLEAN] /\ tried \in [Docs -> 0 .. Cardinality(Docs)]

\* There is at most one job of a document that is queued or runs.
OneActive == \A i, j \in Jobs : docOf[i] = docOf[j] /\ Open(i) /\ Open(j) => i = j

\* What is still to be processed of a list has been imported, and not been
\* processed since; no document is on it twice.
Waits(list) == /\ list # <<>>
               /\ \A i \in DOMAIN list : pending[list[i]] \/ place[list[i]] = "gone"
               /\ \A i, j \in DOMAIN list : list[i] = list[j] => i = j
ListWaits == post.at \in {"mark", "process", "done"} => Waits(post.list)

\* A request that has asked did so for a document.
Asked == \A r \in Requests : request[r].at # "idle" => request[r].doc \in Docs

RestTypes == /\ process \in {"up", "stopping", "down"} /\ stops \in 0 .. MaxStops /\ wake \in BOOLEAN
             /\ faults \in 0 .. MaxFaults
             /\ process = "stopping" => stops < MaxStops
             /\ request \in [Requests -> [at : {"idle", "asked", "made"}, doc : Docs \cup {NoDoc}]]

\* What the table says of its jobs, and what a list of the import worker is.
TableInv == TableTypes /\ left \subseteq Jobs /\ RunningIsWorkedOn /\ OneActive
RowInv == RowTypes /\ PostTypes /\ ListWaits
TextInv == TableInv /\ OcrTypes /\ RowInv /\ RestTypes /\ Asked

LEMMA TextTypes == TextInv => TypeOK
  BY DEF TextInv, TableInv, RowInv, TypeOK, TableTypes, OcrTypes, RowTypes, PostTypes, RestTypes, OcrStates, Statuses

-----------------------------------------------------------------------------
(* Lists                                                                    *)

LEMMA DocsFinite == IsFiniteSet(Docs) /\ Cardinality(Docs) \in Nat /\ Docs \subseteq Nat /\ NoDoc \notin Docs
  BY TextAssumption, FS_CardinalityType

\* What puts a finite set in order is a list of its members.
LEMMA OrderIsList ==
  ASSUME NEW S, IsFiniteSet(S), S # {}, NEW s \in [1 .. Cardinality(S) -> S]
  PROVE  s \in Seq(S) /\ s # <<>> /\ DOMAIN s = 1 .. Len(s)
<1>1. Cardinality(S) \in Nat /\ Cardinality(S) # 0
  BY FS_CardinalityType, FS_EmptySet
<1>. QED BY <1>1

LEMMA LimitedIsPart ==
  ASSUME NEW S, NEW s \in Seq(S), s # <<>>
  PROVE  /\ Limited(s) \in Seq(S) /\ Limited(s) # <<>>
         /\ \A i \in DOMAIN Limited(s) : i \in DOMAIN s /\ Limited(s)[i] = s[i]
<1>1. Batch \in Nat \ {0} /\ Len(s) \in Nat \ {0}
  BY TextAssumption
<1>. QED BY <1>1 DEF Limited

LEMMA TailIsPart ==
  ASSUME NEW S, NEW s \in Seq(S), Len(s) > 1
  PROVE  /\ Tail(s) \in Seq(S) /\ Tail(s) # <<>> /\ Len(Tail(s)) = Len(s) - 1
         /\ \A i \in DOMAIN Tail(s) : i + 1 \in DOMAIN s /\ Tail(s)[i] = s[i + 1]
<1>1. s # <<>> /\ Len(s) \in Nat
  OBVIOUS
<1>2. /\ Tail(s) \in Seq(S) /\ Len(Tail(s)) = Len(s) - 1
      /\ \A i \in 1 .. Len(Tail(s)) : Tail(s)[i] = s[i + 1]
  BY <1>1, HeadTailProperties
<1>3. Len(Tail(s)) \in Nat \ {0} /\ DOMAIN Tail(s) = 1 .. Len(Tail(s)) /\ DOMAIN s = 1 .. Len(s)
  BY <1>1, <1>2, SMTT(30)
<1>4. Tail(s) # <<>>
  BY <1>2, <1>3, EmptySeq
<1>5. ASSUME NEW i \in 1 .. Len(Tail(s)) PROVE i + 1 \in 1 .. Len(s)
  BY <1>1, <1>2
<1>. QED BY <1>2, <1>3, <1>4, <1>5

LEMMA TextInit == Init => TextInv
<1>. SUFFICES ASSUME Init PROVE TextInv
  OBVIOUS
<1>3. <<>> \in Seq(Nat) /\ <<>> \in Seq(Docs) /\ <<>> \in Seq(Statuses)
      /\ 0 \in 0 .. Cardinality(Docs) /\ 0 \in 0 .. MaxStops /\ 0 \in 0 .. MaxFaults
  BY DocsFinite, TextAssumption
<1>4. OcrTypes
  BY <1>3 DEF Init, OcrTypes, OcrStates, Off, Ended, AtJob
<1>5. place \in [Docs -> {"new", "active", "trash", "gone"}] /\ text \in [Docs -> {"none", "file", "ocr"}]
      /\ pending \in [Docs -> BOOLEAN] /\ tried \in [Docs -> 0 .. Cardinality(Docs)]
  BY <1>3 DEF Init
<1>6. post \in [at : {"off", "scan", "wait", "mark", "process", "done"}, list : Seq(Docs), failed : BOOLEAN]
  BY <1>3 DEF Init, PostOff
<1>7. request \in [Requests -> [at : {"idle", "asked", "made"}, doc : Docs \cup {NoDoc}]]
  BY DEF Init, NoRequest
<1>1. TableTypes /\ RowTypes /\ PostTypes /\ RestTypes
  BY <1>3, <1>5, <1>6, <1>7 DEF Init, TableTypes, RowTypes, PostTypes, RestTypes
<1>2. RunningIsWorkedOn /\ OneActive /\ ListWaits /\ Asked /\ left \subseteq Jobs
  BY DEF Init, RunningIsWorkedOn, Running, OneActive, ListWaits, Asked, Jobs, Off, PostOff, NoRequest
<1>. QED BY <1>1, <1>2, <1>4 DEF TextInv, TableInv, RowInv

-----------------------------------------------------------------------------
(* The table of jobs, and the OCR worker                                    *)

\* The worker is done with its job.
LEMMA NextJob ==
  ASSUME OcrTypes, AtJob, ToNext
  PROVE  OcrTypes'
<1>1. ocr.list \in Seq(Nat) /\ Len(ocr.list) \in Nat \ {0}
  BY DEF OcrTypes
<1>2. CASE Len(ocr.list) = 1
  <2>1. ocr' = [ocr EXCEPT !.at = "scan", !.list = <<>>]
    BY <1>2 DEF ToNext, Worker
  <2>2. ocr' \in [at : OcrStates, list : Seq(Nat), end : Ended] /\ ocr'.at = "scan"
    BY <2>1, <<>> \in Seq(Nat) DEF OcrTypes, OcrStates
  <2>. QED BY <2>2 DEF OcrTypes, AtJob
<1>3. CASE Len(ocr.list) # 1
  <2>1. ocr' = [ocr EXCEPT !.at = "fetch", !.list = Tail(ocr.list)]
    BY <1>3 DEF ToNext, Worker
  <2>2. Tail(ocr.list) \in Seq(Nat) /\ Tail(ocr.list) # <<>>
    <3>1. Len(ocr.list) > 1
      <4>. DEFINE n == Len(ocr.list)
      <4>1. n \in Nat \ {0} /\ n # 1
        BY <1>1, <1>3
      <4>. HIDE DEF n
      <4>2. n > 1
        BY <4>1
      <4>. QED BY <4>2 DEF n
    <3>. QED BY <1>1, <3>1, TailIsPart
  <2>3. ocr' \in [at : OcrStates, list : Seq(Nat), end : Ended] /\ ocr'.list # <<>>
    BY <2>1, <2>2 DEF OcrTypes, OcrStates
  <2>. QED BY <2>3 DEF OcrTypes
<1>. QED BY <1>2, <1>3

LEMMA OcrStepTypes ==
  ASSUME OcrTypes, TableTypes, OcrStep \/ Tick
  PROVE  OcrTypes'
<1>1. ASSUME NEW at \in OcrStates \ {"fetch", "start", "read", "store", "complete", "ending"}, Worker(at, <<>>) PROVE OcrTypes'
  <2>1. ocr' \in [at : OcrStates, list : Seq(Nat), end : Ended] /\ ocr'.at = at
    BY <1>1, <<>> \in Seq(Nat) DEF OcrTypes, Worker
  <2>. QED BY <1>1, <2>1 DEF OcrTypes, AtJob
<1>2. ASSUME NEW at \in OcrStates, AtJob, Worker(at, ocr.list) PROVE OcrTypes'
  BY <1>2 DEF OcrTypes, Worker, AtJob
<1>3. ASSUME NEW end \in Ended, AtJob, EndWith(end) PROVE OcrTypes'
  BY <1>3 DEF OcrTypes, EndWith, AtJob, OcrStates
<1>4. CASE Boot \/ Idle \/ Wait \/ Tick
  BY <1>1, <1>4 DEF Boot, Idle, Wait, Tick, OcrStates
<1>5. CASE Scan
  <2>. DEFINE queued == {j \in Jobs : status[j] = "queued"}
  <2>1. ASSUME queued # {}, NEW list \in Sorted(queued), Worker("fetch", Limited(list)) PROVE OcrTypes'
    <3>1. IsFiniteSet(queued) /\ queued \subseteq Nat
      <4>1. Len(status) \in Nat
        BY DEF TableTypes
      <4>2. IsFiniteSet(Jobs) /\ Jobs \subseteq Nat
        BY <4>1, FS_Interval DEF Jobs
      <4>. QED BY <4>2, FS_Subset
    <3>2. list \in Seq(queued) /\ list # <<>>
      BY <2>1, <3>1, OrderIsList DEF Sorted
    <3>3. list \in Seq(Nat)
      BY <3>1, <3>2
    <3>4. Limited(list) \in Seq(Nat) /\ Limited(list) # <<>>
      BY <3>2, <3>3, LimitedIsPart
    <3>. QED BY <2>1, <3>4 DEF OcrTypes, Worker, AtJob, OcrStates
  <2>. QED BY <1>1, <1>5, <2>1 DEF Scan, OcrStates
<1>6. CASE Fetch
  BY <1>1, <1>2, <1>3, <1>6, NextJob DEF Fetch, AtJob, OcrStates, Ended
<1>7. CASE StartOCRJob \/ Read \/ Store
  BY <1>2, <1>3, <1>7, NextJob DEF StartOCRJob, Read, Store, AtJob, OcrStates, Ended
<1>8. CASE CompleteOCRJob \/ Finish
  BY <1>8, NextJob DEF CompleteOCRJob, Finish, AtJob
<1>. QED BY <1>4, <1>5, <1>6, <1>7, <1>8 DEF OcrStep

\* A job gets another status.
LEMMA StatusSet ==
  ASSUME TableTypes, NEW j \in Nat, NEW s \in Statuses, SetStatus(j, s), UNCHANGED docOf
  PROVE  /\ TableTypes' /\ Jobs' = Jobs
         /\ \A i \in Jobs : status'[i] = IF i = j /\ status[i] # "gone" THEN s ELSE status[i]
<1>. DEFINE new == IF status[j] = "gone" THEN status[j] ELSE s
<1>1. status' = [status EXCEPT ![j] = new] /\ docOf' = docOf
  BY DEF SetStatus
<1>2. CASE j \in 1 .. Len(status)
  <2>1. new \in Statuses
    BY <1>2 DEF TableTypes
  <2>2. status' \in Seq(Statuses) /\ Len(status') = Len(status)
    BY <1>1, <1>2, <2>1, ExceptSeq DEF TableTypes
  <2>. QED BY <1>1, <1>2, <2>2 DEF TableTypes, Jobs
<1>3. CASE j \notin 1 .. Len(status)
  <2>1. status' = status
    BY <1>1, <1>3 DEF TableTypes
  <2>. QED BY <1>1, <1>3, <2>1 DEF TableTypes, Jobs
<1>. QED BY <1>2, <1>3

\* Statuses that end jobs, or let an open one run, leave one open job per document.
LEMMA FewerActive ==
  ASSUME OneActive, docOf' = docOf, Jobs' = Jobs, \A i \in Jobs : Open(i)' => Open(i)
  PROVE  OneActive'
  BY DEF OneActive, Open

\* The table stays, and the worker with what it works on.
LEMMA SameJobs ==
  ASSUME TableInv, UNCHANGED <<table, process, left>>,
         \/ process # "up" \/ (~AtJob /\ ocr.at # "boot") \/ (AtJob' /\ This' = This /\ ocr.at # "boot")
         \/ ocr' = ocr
  PROVE  TableInv'
<1>1. TableTypes' /\ Jobs' = Jobs /\ OneActive'
  BY FewerActive DEF TableInv, TableTypes, table, Jobs, Open
<1>2. RunningIsWorkedOn'
  <2>1. UNCHANGED <<status, process, left>>
    BY DEF table
  <2>2. CASE process # "up"
    BY <1>1, <2>1, <2>2 DEF RunningIsWorkedOn, Running
  <2>3. CASE process = "up" /\ ~AtJob /\ ocr.at # "boot"
    BY <1>1, <2>1, <2>3 DEF TableInv, RunningIsWorkedOn, Running
  <2>4. CASE AtJob' /\ This' = This /\ process = "up" /\ ocr.at # "boot"
    BY <1>1, <2>1, <2>4 DEF TableInv, RunningIsWorkedOn, Running
  <2>5. CASE ocr' = ocr
    BY <1>1, <2>1, <2>5 DEF TableInv, RunningIsWorkedOn, Running, AtJob, This
  <2>. QED BY <2>2, <2>3, <2>4, <2>5
<1>. QED BY <1>1, <1>2 DEF TableInv

\* The job the worker is at ends, and the worker leaves it.
LEMMA JobEnds ==
  ASSUME TableInv, OcrTypes, AtJob, NEW s \in Ended, SetStatus(This, s), UNCHANGED <<docOf, process, left>>
  PROVE  TableInv'
<1>1. This \in Nat /\ s \in Statuses
  <2>1. ocr.list \in Seq(Nat) /\ ocr.list # <<>>
    BY DEF OcrTypes
  <2>2. Len(ocr.list) \in Nat \ {0}
    BY <2>1, EmptySeq
  <2>. QED BY <2>1, <2>2 DEF This, Statuses
<1>2. /\ TableTypes' /\ Jobs' = Jobs
      /\ \A i \in Jobs : status'[i] = IF i = This /\ status[i] # "gone" THEN s ELSE status[i]
  BY <1>1, StatusSet DEF TableInv
<1>3. OneActive'
  BY <1>2, FewerActive DEF TableInv, Open, Ended
<1>4. RunningIsWorkedOn'
  BY <1>2 DEF TableInv, RunningIsWorkedOn, Running, Ended, AtJob
<1>. QED BY <1>2, <1>3, <1>4 DEF TableInv

\* The database refuses what is to be written of the job the worker is at.
LEMMA JobLeft ==
  ASSUME TableInv, AtJob, Leave, UNCHANGED <<docOf, process>>
  PROVE  TableInv'
<1>1. TableTypes' /\ Jobs' = Jobs /\ OneActive'
  BY FewerActive DEF Leave, TableInv, TableTypes, Jobs, Open
<1>2. left' = left \cup (Running \cap {This}) /\ status' = status /\ ocr.at # "boot"
  BY DEF Leave, AtJob
<1>3. RunningIsWorkedOn'
  BY <1>1, <1>2 DEF TableInv, RunningIsWorkedOn, Running
<1>4. left' \subseteq Jobs'
  BY <1>1, <1>2 DEF TableInv, Running
<1>. QED BY <1>1, <1>3, <1>4 DEF TableInv

LEMMA OcrStepJobs ==
  ASSUME TableInv, OcrTypes, OcrStep \/ Tick
  PROVE  TableInv'
<1>0. ocr \in [at : OcrStates, list : Seq(Nat), end : Ended]
  BY DEF OcrTypes
<1>1. CASE Boot
  <2>1. CASE status' = [j \in Jobs |-> IF status[j] \in {"queued", "running"} THEN "interrupted" ELSE status[j]]
    <3>1. docOf' = docOf /\ Jobs = 1 .. Len(status) /\ Len(status) \in Nat
      BY <1>1 DEF Boot, TableInv, TableTypes, Jobs
    <3>2. status' \in [1 .. Len(status) -> Statuses]
      BY <2>1, <3>1 DEF TableInv, TableTypes, Statuses, Ended
    <3>3. status' \in Seq(Statuses) /\ Len(status') = Len(status)
      BY <3>1, <3>2
    <3>4. TableTypes' /\ Jobs' = Jobs
      BY <3>1, <3>3 DEF TableInv, TableTypes, Jobs
    <3>5. \A j \in Jobs : status'[j] \notin {"queued", "running"}
      BY <2>1
    <3>6. left' \subseteq Jobs'
      BY <1>1, <2>1, <3>4, <3>5 DEF Boot, TableInv, Running
    <3>. QED BY <3>1, <3>4, <3>5, <3>6, FewerActive DEF TableInv, Open, RunningIsWorkedOn, Running
  <2>2. CASE left' = Running /\ UNCHANGED status
    <3>1. UNCHANGED <<status, docOf>>
      BY <1>1, <2>2 DEF Boot
    <3>2. TableTypes' /\ Jobs' = Jobs /\ OneActive'
      BY <3>1, FewerActive DEF TableInv, TableTypes, Jobs, Open
    <3>. QED BY <2>2, <3>1, <3>2 DEF TableInv, RunningIsWorkedOn, Running
  <2>. QED BY <1>1, <2>1, <2>2 DEF Boot
<1>2. CASE Scan \/ Idle \/ Wait \/ Tick
  BY <1>2, SameJobs DEF Scan, Idle, Wait, Tick, AtJob, table, life, failures
<1>3. CASE Fetch
  <2>1. CASE Stopping
    BY <1>3, <2>1, SameJobs DEF Fetch, Stopping, table, life, failures
  <2>2. CASE ~Stopping /\ status[This] = "gone"
    <3>1. \A j \in Running : process # "up" \/ j \in left
      BY <1>3, <2>2 DEF Fetch, TableInv, RunningIsWorkedOn, Running
    <3>2. UNCHANGED <<table, process, left>>
      BY <1>3 DEF Fetch, life, failures
    <3>3. TableTypes' /\ OneActive'
      BY <3>2, FewerActive DEF TableInv, TableTypes, table, Jobs, Open
    <3>. QED BY <3>1, <3>2, <3>3 DEF TableInv, RunningIsWorkedOn, Running, table, Jobs
  <2>3. CASE ~Stopping /\ status[This] # "gone"
    <3>1. AtJob' /\ This' = This /\ ocr.at # "boot"
      BY <1>0, <1>3, <2>3 DEF Fetch, EndWith, Worker, AtJob, This, OcrStates
    <3>. QED BY <1>3, <3>1, SameJobs DEF Fetch, table, life, failures
  <2>. QED BY <2>1, <2>2, <2>3
<1>4. CASE StartOCRJob
  <2>0. This \in Nat
    <3>1. ocr.list \in Seq(Nat) /\ ocr.list # <<>>
      BY <1>4 DEF OcrTypes, StartOCRJob, AtJob
    <3>2. Len(ocr.list) \in Nat \ {0}
      BY <3>1, EmptySeq
    <3>. QED BY <3>1, <3>2 DEF This
  <2>1. CASE status[This] \in {"queued", "running"} /\ SetStatus(This, "running") /\ Worker("read", ocr.list) /\ UNCHANGED failures
    <3>1. UNCHANGED <<docOf, process, left>>
      BY <1>4, <2>1 DEF StartOCRJob, life, failures
    <3>2. /\ TableTypes' /\ Jobs' = Jobs
          /\ \A i \in Jobs : status'[i] = IF i = This /\ status[i] # "gone" THEN "running" ELSE status[i]
      BY <2>0, <2>1, <3>1, StatusSet DEF TableInv, Statuses
    <3>3. OneActive'
      BY <2>1, <3>1, <3>2, FewerActive DEF TableInv, Open
    <3>4. AtJob' /\ This' = This
      BY <1>0, <2>1 DEF Worker, AtJob, This, OcrStates
    <3>5. RunningIsWorkedOn'
      BY <1>4, <3>1, <3>2, <3>4 DEF TableInv, RunningIsWorkedOn, Running, StartOCRJob, AtJob
    <3>. QED BY <3>1, <3>2, <3>3, <3>5 DEF TableInv
  <2>2. CASE status[This] \notin {"queued", "running"} /\ UNCHANGED <<status, failures>>
    <3>1. \A j \in Running : process # "up" \/ j \in left
      BY <1>4, <2>2 DEF StartOCRJob, TableInv, RunningIsWorkedOn, Running
    <3>2. UNCHANGED <<table, process, left>>
      BY <1>4, <2>2 DEF StartOCRJob, life, table, failures
    <3>3. TableTypes' /\ OneActive'
      BY <3>2, FewerActive DEF TableInv, TableTypes, table, Jobs, Open
    <3>. QED BY <3>1, <3>2, <3>3 DEF TableInv, RunningIsWorkedOn, Running, table, Jobs
  <2>3. CASE Leave
    BY <1>4, <2>3, JobLeft DEF StartOCRJob, AtJob, life
  <2>. QED BY <1>4, <2>1, <2>2, <2>3 DEF StartOCRJob
<1>5. CASE Read \/ Store
  <2>1. AtJob' /\ This' = This /\ ocr.at # "boot"
    BY <1>0, <1>5 DEF Read, Store, EndWith, Worker, AtJob, This, OcrStates
  <2>. QED BY <1>5, <2>1, SameJobs DEF Read, Store, table, life, failures
<1>6. CASE CompleteOCRJob \/ Finish
  <2>1. CASE Leave
    BY <1>6, <2>1, JobLeft DEF CompleteOCRJob, Finish, AtJob, life
  <2>2. CASE (SetStatus(This, "completed") \/ SetStatus(This, ocr.end)) /\ UNCHANGED failures
    <3>1. ocr.end \in Ended /\ "completed" \in Ended /\ AtJob
      BY <1>0, <1>6 DEF Ended, AtJob, CompleteOCRJob, Finish
    <3>. QED BY <1>6, <2>2, <3>1, JobEnds DEF CompleteOCRJob, Finish, life, failures
  <2>. QED BY <1>6, <2>1, <2>2 DEF CompleteOCRJob, Finish
<1>. QED BY <1>1, <1>2, <1>3, <1>4, <1>5, <1>6 DEF OcrStep

\* Requests make jobs, documents take theirs with them, and the process ends and starts.
LEMMA OtherSteps ==
  ASSUME TableInv, OcrTypes, Asked,
         \/ \E r \in Requests : EnqueueOCRJob(r)
         \/ \E d \in Docs : Purge(d)
         \/ StopBackgroundJobs \/ Shutdown \/ Crash \/ Start
  PROVE  TableInv' /\ OcrTypes'
<1>1. ASSUME NEW r \in Requests, EnqueueOCRJob(r) PROVE TableInv' /\ OcrTypes'
  <2>. DEFINE d == request[r].doc
  <2>0. UNCHANGED <<ocr, process, left>> /\ d \in Docs
    BY <1>1 DEF EnqueueOCRJob, life, failures, Asked
  <2>1. CASE UNCHANGED table
    BY <2>0, <2>1, SameJobs DEF OcrTypes, AtJob
  <2>2. CASE ActiveJobs(d) = {} /\ status' = Append(status, "queued") /\ docOf' = Append(docOf, d)
    <3>. DEFINE n == Len(status)
    <3>1. n \in Nat /\ Len(docOf) = n /\ "queued" \in Statuses
      BY DEF TableInv, TableTypes, Statuses
    <3>2. /\ status' \in Seq(Statuses) /\ Len(status') = n + 1 /\ status'[n + 1] = "queued"
          /\ \A i \in 1 .. n : status'[i] = status[i]
      BY <2>2, <3>1, AppendProperties DEF TableInv, TableTypes
    <3>3. /\ docOf' \in Seq(Docs) /\ Len(docOf') = n + 1 /\ docOf'[n + 1] = d
          /\ \A i \in 1 .. n : docOf'[i] = docOf[i]
      BY <2>0, <2>2, <3>1, AppendProperties DEF TableInv, TableTypes
    <3>. HIDE DEF d
    <3>4. Jobs = 1 .. n /\ Jobs' = 1 .. n + 1
      BY <3>2 DEF Jobs
    <3>. HIDE DEF n
    <3>5. \A j \in 1 .. n : ~(docOf[j] = d /\ Open(j))
      BY <2>2, <3>4 DEF ActiveJobs, Open
    <3>6. OneActive'
      BY <3>1, <3>2, <3>3, <3>4, <3>5 DEF TableInv, OneActive, Open
    <3>7. RunningIsWorkedOn'
      BY <2>0, <3>1, <3>2, <3>4 DEF TableInv, RunningIsWorkedOn, Running, AtJob, This
    <3>8. left' \subseteq Jobs'
      BY <2>0, <3>1, <3>4 DEF TableInv
    <3>. QED BY <2>0, <3>2, <3>3, <3>6, <3>7, <3>8 DEF TableInv, TableTypes, OcrTypes, AtJob
  <2>. QED BY <1>1, <2>1, <2>2 DEF EnqueueOCRJob
<1>2. ASSUME NEW d \in Docs, Purge(d) PROVE TableInv' /\ OcrTypes'
  <2>1. UNCHANGED <<ocr, process, docOf, left>> /\ status' = [j \in Jobs |-> IF docOf[j] = d THEN "gone" ELSE status[j]]
    BY <1>2 DEF Purge, life, failures
  <2>2. Jobs = 1 .. Len(status) /\ Len(status) \in Nat
    BY DEF TableInv, TableTypes, Jobs
  <2>3. status' \in [1 .. Len(status) -> Statuses]
    BY <2>1, <2>2 DEF TableInv, TableTypes, Statuses
  <2>4. status' \in Seq(Statuses) /\ Len(status') = Len(status)
    BY <2>2, <2>3
  <2>5. TableTypes' /\ Jobs' = Jobs
    BY <2>1, <2>4 DEF TableInv, TableTypes, Jobs
  <2>6. \A j \in Jobs : status'[j] = status[j] \/ status'[j] = "gone"
    BY <2>1
  <2>7. OneActive' /\ RunningIsWorkedOn'
    BY <2>1, <2>5, <2>6, FewerActive DEF TableInv, Open, RunningIsWorkedOn, Running, AtJob, This
  <2>. QED BY <2>1, <2>5, <2>7 DEF TableInv, OcrTypes, AtJob
<1>3. CASE StopBackgroundJobs \/ Shutdown \/ Crash \/ Start
  <2>1. UNCHANGED <<table, left>> /\ (process' # "up" \/ ocr'.at = "boot")
    BY <1>3 DEF StopBackgroundJobs, Shutdown, Crash, Down, Start, rows, Off, failures
  <2>2. TableTypes' /\ OneActive'
    BY <2>1, FewerActive DEF TableInv, TableTypes, table, Jobs, Open
  <2>3. OcrTypes'
    <3>1. ocr' \in {ocr, Off, [Off EXCEPT !.at = "boot"]}
      BY <1>3 DEF StopBackgroundJobs, Shutdown, Crash, Down, Start
    <3>2. Off \in [at : OcrStates, list : Seq(Nat), end : Ended] /\ Off.at = "off"
      BY <<>> \in Seq(Nat) DEF Off, OcrStates, Ended
    <3>. QED BY <3>1, <3>2 DEF OcrTypes, AtJob, OcrStates
  <2>. QED BY <2>1, <2>2, <2>3 DEF TableInv, RunningIsWorkedOn, Running, table, Jobs
<1>. QED BY <1>1, <1>2, <1>3

-----------------------------------------------------------------------------
(* Documents, and the import worker                                         *)

\* The worker takes the next document of its list; the one it leaves may be done.
LEMMA NextDocument ==
  ASSUME RowInv, NEW failed \in BOOLEAN, post.at \in {"mark", "process", "done"}, PostNext(failed),
         place' = place, pending' \in [Docs -> BOOLEAN], \A d \in Docs \ {Now} : pending'[d] = pending[d]
  PROVE  PostTypes' /\ ListWaits'
<1>1. /\ post.list \in Seq(Docs) /\ post.list # <<>> /\ Waits(post.list)
      /\ Len(post.list) \in Nat \ {0} /\ DOMAIN post.list = 1 .. Len(post.list)
  <2>1. post.list \in Seq(Docs) /\ post.list # <<>> /\ Waits(post.list)
    BY DEF RowInv, PostTypes, ListWaits, Waits
  <2>. QED BY <2>1, EmptySeq
<1>2. CASE Len(post.list) > 1
  <2>. DEFINE rest == Tail(post.list)
  <2>1. /\ rest \in Seq(Docs) /\ rest # <<>> /\ DOMAIN rest = 1 .. Len(rest) /\ Len(rest) \in Nat
        /\ \A i \in DOMAIN rest : i + 1 \in DOMAIN post.list /\ rest[i] = post.list[i + 1]
    BY <1>1, <1>2, TailIsPart
  <2>2. post' = [at |-> "mark", list |-> rest, failed |-> failed]
    BY <1>2 DEF PostNext, Importer
  <2>. HIDE DEF rest
  <2>3. ASSUME NEW i \in DOMAIN rest PROVE pending'[rest[i]] \/ place'[rest[i]] = "gone"
    <3>1. i + 1 \in DOMAIN post.list /\ i + 1 # 1 /\ rest[i] = post.list[i + 1] /\ 1 \in DOMAIN post.list
      BY <1>1, <2>1
    <3>2. rest[i] # Now /\ rest[i] \in Docs
      BY <1>1, <2>1, <3>1 DEF Waits, Now
    <3>. QED BY <1>1, <3>1, <3>2 DEF Waits
  <2>4. ASSUME NEW i \in DOMAIN rest, NEW j \in DOMAIN rest, rest[i] = rest[j] PROVE i = j
    BY <1>1, <2>1, <2>4 DEF Waits
  <2>. QED BY <2>1, <2>2, <2>3, <2>4 DEF PostTypes, ListWaits, Waits
<1>3. CASE ~(Len(post.list) > 1)
  <2>1. \E at \in {"wait", "scan"} : post' = [at |-> at, list |-> <<>>, failed |-> FALSE]
    BY <1>3 DEF PostNext, Importer
  <2>. QED BY <2>1, <<>> \in Seq(Docs) DEF PostTypes, ListWaits
<1>. QED BY <1>2, <1>3

LEMMA AttemptedTypes ==
  ASSUME RowTypes, NEW d \in Docs
  PROVE  Attempted(d) \in [Docs -> 0 .. Cardinality(Docs)]
<1>1. Cardinality(Docs) \in Nat
  BY DocsFinite
<1>2. \A e \in Docs : tried[e] \in 0 .. Cardinality(Docs)
  BY DEF RowTypes
<1>3. ASSUME NEW e \in Docs, e # d, tried[e] > tried[d] PROVE tried[e] - 1 \in 0 .. Cardinality(Docs)
  BY <1>1, <1>2, <1>3
<1>. QED BY <1>1, <1>2, <1>3 DEF Attempted

LEMMA PostStepRows ==
  ASSUME RowInv, PostStep
  PROVE  RowInv'
<1>0. RowTypes /\ PostTypes /\ ListWaits /\ post.failed \in BOOLEAN
  BY DEF RowInv, PostTypes
<1>1. UNCHANGED place
  BY DEF PostStep, PostScan, PostWait, MarkPostImportAttempted, Process, MarkPostImportComplete, PostOnly
<1>2. CASE PostScan
  <2>1. ASSUME Pending # {}, NEW list \in Line, Importer("mark", Limited(list), FALSE) PROVE PostTypes' /\ ListWaits'
    <3>1. IsFiniteSet(Pending) /\ Pending \subseteq Docs
      BY DocsFinite, FS_Subset DEF Pending
    <3>2. list \in Seq(Pending) /\ list # <<>> /\ DOMAIN list = 1 .. Len(list) /\ Len(list) \in Nat
      BY <2>1, <3>1, OrderIsList DEF Line
    <3>3. ASSUME NEW i \in DOMAIN list, NEW j \in DOMAIN list, list[i] = list[j] PROVE i = j
      <4>1. ASSUME NEW m \in DOMAIN list, NEW n \in DOMAIN list, m < n PROVE list[m] # list[n]
        <5>1. Before(list[m], list[n])
          BY <2>1, <4>1 DEF Line
        <5>2. list[m] \in Docs /\ list[m] \in Nat /\ tried[list[m]] \in Nat
          <6>1. list[m] \in Docs
            BY <3>1, <3>2
          <6>2. tried[list[m]] \in 0 .. Cardinality(Docs)
            BY <1>0, <6>1 DEF RowTypes
          <6>3. tried[list[m]] \in Nat
            BY <6>2
          <6>4. list[m] \in Nat
            BY <6>1, DocsFinite
          <6>. QED BY <6>1, <6>3, <6>4
        <5>. QED BY <5>1, <5>2 DEF Before
      <4>. QED BY <3>2, <3>3, <4>1
    <3>4. /\ Limited(list) \in Seq(Pending) /\ Limited(list) # <<>>
          /\ \A i \in DOMAIN Limited(list) : i \in DOMAIN list /\ Limited(list)[i] = list[i]
      BY <3>2, LimitedIsPart
    <3>5. Limited(list) \in Seq(Docs)
      BY <3>1, <3>4
    <3>6. UNCHANGED pending
      BY <1>2 DEF PostScan
    <3>7. post' = [at |-> "mark", list |-> Limited(list), failed |-> FALSE]
      BY <2>1 DEF Importer
    <3>8. ASSUME NEW i \in DOMAIN Limited(list) PROVE pending'[Limited(list)[i]]
      BY <3>2, <3>4, <3>6 DEF Pending
    <3>9. Waits(Limited(list))'
      BY <3>3, <3>4, <3>8 DEF Waits
    <3>. QED BY <3>5, <3>7, <3>9 DEF PostTypes, ListWaits
  <2>2. ASSUME NEW at \in {"off", "wait"}, Importer(at, <<>>, FALSE) PROVE PostTypes' /\ ListWaits'
    BY <2>2, <<>> \in Seq(Docs) DEF Importer, PostTypes, ListWaits
  <2>3. PostTypes' /\ ListWaits'
    BY <1>2, <2>1, <2>2 DEF PostScan
  <2>4. RowTypes'
    BY <1>0, <1>1, <1>2 DEF PostScan, RowTypes
  <2>. QED BY <2>3, <2>4 DEF RowInv
<1>3. CASE PostWait
  <2>1. PostTypes' /\ ListWaits'
    BY <1>3, <<>> \in Seq(Docs) DEF PostWait, Importer, PostTypes, ListWaits
  <2>. QED BY <1>0, <1>1, <1>3, <2>1 DEF PostWait, RowTypes, RowInv
<1>4. CASE MarkPostImportAttempted
  <2>1. UNCHANGED <<text, pending>> /\ tried' \in [Docs -> 0 .. Cardinality(Docs)]
    <3>1. Now \in Docs
      <4>1. post.list \in Seq(Docs) /\ post.list # <<>>
        BY <1>0, <1>4 DEF MarkPostImportAttempted, PostTypes, ListWaits, Waits
      <4>2. Len(post.list) \in Nat \ {0}
        BY <4>1, EmptySeq
      <4>. QED BY <4>1, <4>2 DEF Now
    <3>. QED BY <1>0, <1>4, <3>1, AttemptedTypes DEF MarkPostImportAttempted, RowTypes
  <2>2. CASE Importer("process", post.list, post.failed)
    BY <1>0, <1>1, <1>4, <2>1, <2>2 DEF MarkPostImportAttempted, Importer, PostTypes, ListWaits, Waits, RowTypes, RowInv
  <2>3. CASE PostNext(TRUE)
    BY <1>0, <1>1, <1>4, <2>1, <2>3, NextDocument DEF MarkPostImportAttempted, RowTypes, RowInv
  <2>. QED BY <1>4, <2>2, <2>3 DEF MarkPostImportAttempted
<1>5. CASE Process
  <2>1. UNCHANGED <<pending, tried>> /\ text' \in [Docs -> {"none", "file", "ocr"}]
    BY <1>0, <1>5 DEF Process, RowTypes
  <2>2. CASE Importer("done", post.list, post.failed)
    BY <1>0, <1>1, <1>5, <2>1, <2>2 DEF Process, Importer, PostTypes, ListWaits, Waits, RowTypes, RowInv
  <2>3. CASE PostNext(TRUE)
    BY <1>0, <1>1, <1>5, <2>1, <2>3, NextDocument DEF Process, RowTypes, RowInv
  <2>. QED BY <1>5, <2>2, <2>3 DEF Process
<1>6. CASE MarkPostImportComplete
  <2>1. /\ UNCHANGED <<text, tried>> /\ pending' \in [Docs -> BOOLEAN] /\ \A d \in Docs \ {Now} : pending'[d] = pending[d]
        /\ \E failed \in BOOLEAN : PostNext(failed)
    BY <1>0, <1>6 DEF MarkPostImportComplete, RowTypes
  <2>2. PostTypes' /\ ListWaits'
    BY <1>1, <1>6, <2>1, NextDocument DEF MarkPostImportComplete
  <2>. QED BY <1>0, <1>1, <2>1, <2>2 DEF RowTypes, RowInv
<1>. QED BY <1>2, <1>3, <1>4, <1>5, <1>6 DEF PostStep

LEMMA DocumentSteps ==
  ASSUME RowInv, NEW d \in Docs, Import(d) \/ Move(d, "active", "trash") \/ Move(d, "trash", "active") \/ Purge(d)
  PROVE  RowInv'
<1>0. RowTypes /\ PostTypes /\ ListWaits
  BY DEF RowInv
<1>1. RowTypes'
  BY <1>0 DEF RowTypes, Import, Move, Purge
<1>2. \A e \in Docs : (pending[e] \/ place[e] = "gone") => (pending'[e] \/ place'[e] = "gone")
  BY <1>0 DEF RowTypes, Import, Move, Purge
<1>3. post' = post \/ (post.at = "wait" /\ post' = [post EXCEPT !.at = "scan"])
  BY DEF Import, Move, Purge
<1>4. PostTypes' /\ ListWaits'
  <2>1. CASE post' = post
    BY <1>0, <1>2, <2>1 DEF PostTypes, ListWaits, Waits
  <2>2. CASE post' = [post EXCEPT !.at = "scan"]
    BY <1>0, <2>2 DEF PostTypes, ListWaits
  <2>. QED BY <1>3, <2>1, <2>2
<1>. QED BY <1>1, <1>4 DEF RowInv

\* Steps that leave the rows and the import worker.
LEMMA SameRows ==
  ASSUME RowInv, UNCHANGED <<place, pending, tried>>, text' \in [Docs -> {"none", "file", "ocr"}],
         post' \in {post, PostOff, [PostOff EXCEPT !.at = "scan"]}
  PROVE  RowInv'
<1>1. RowTypes'
  BY DEF RowInv, RowTypes
<1>2. CASE post' = post
  BY <1>1, <1>2 DEF RowInv, PostTypes, ListWaits, Waits
<1>3. CASE post' \in {PostOff, [PostOff EXCEPT !.at = "scan"]}
  <2>1. \E at \in {"off", "scan"} : post' = [at |-> at, list |-> <<>>, failed |-> FALSE]
    BY <1>3 DEF PostOff
  <2>2. PostTypes' /\ ListWaits'
    BY <2>1, <<>> \in Seq(Docs) DEF PostTypes, ListWaits
  <2>. QED BY <1>1, <2>2 DEF RowInv
<1>. QED BY <1>2, <1>3

-----------------------------------------------------------------------------
(* The whole                                                                *)

LEMMA RestStep ==
  ASSUME RestTypes, Asked, [Next]_vars
  PROVE  RestTypes' /\ Asked'
<1>. USE DEF RestTypes, Asked
<1>1. ASSUME NEW r \in Requests, NEW at \in {"idle", "asked", "made"}, NEW d \in Docs \cup {NoDoc}, at # "idle" => d \in Docs,
             SetRequest(r, at, d), UNCHANGED <<life, failures>>, wake' \in BOOLEAN
      PROVE  RestTypes' /\ Asked'
  BY <1>1 DEF SetRequest, life, failures
<1>2. CASE UNCHANGED <<life, wake, request>> /\ faults' \in 0 .. MaxFaults
  BY <1>2 DEF life
<1>3. ASSUME NEW r \in Requests, (\E d \in Touched : AskOCR(r, d)) \/ RequestStep(r)
      PROVE  RestTypes' /\ Asked'
  <2>1. ASSUME NEW d \in Touched, AskOCR(r, d) PROVE RestTypes' /\ Asked'
    BY <1>1, <2>1, TextAssumption DEF AskOCR
  <2>2. CASE EnqueueOCRJob(r)
    BY <1>1, <2>2 DEF EnqueueOCRJob
  <2>3. CASE Enqueue(r)
    BY <1>1, <2>3 DEF Enqueue
  <2>. QED BY <1>3, <2>1, <2>2, <2>3 DEF RequestStep
<1>4. CASE StopBackgroundJobs \/ Shutdown \/ Crash \/ Start
  <2>1. CASE StopBackgroundJobs \/ Start
    BY <2>1 DEF StopBackgroundJobs, Start, failures
  <2>2. CASE Shutdown \/ Crash
    <3>1. /\ process' = "down" /\ stops' = stops + 1 /\ wake' = FALSE /\ request' = [r \in Requests |-> NoRequest]
          /\ faults' = faults
      BY <2>2 DEF Shutdown, Crash, Down, failures
    <3>2. stops < MaxStops
      BY <2>2 DEF Shutdown, Crash, Stopping
    <3>3. stops' \in 0 .. MaxStops
      BY <3>1, <3>2, TextAssumption
    <3>4. /\ request' \in [Requests -> [at : {"idle", "asked", "made"}, doc : Docs \cup {NoDoc}]]
          /\ \A r \in Requests : request'[r].at = "idle"
      BY <3>1 DEF NoRequest
    <3>. QED BY <3>1, <3>3, <3>4
  <2>. QED BY <1>4, <2>1, <2>2
<1>5. CASE Wait
  BY <1>5 DEF Wait, life, failures
<1>6. CASE (\E d \in Docs : Import(d)) \/ (\E d \in Touched : Move(d, "active", "trash") \/ Move(d, "trash", "active") \/ Purge(d))
  BY <1>2, <1>6 DEF Import, Move, Purge, failures
<1>7. CASE (OcrStep /\ ~Wait) \/ Tick \/ PostStep
  <2>1. UNCHANGED <<life, wake, request>>
    BY <1>7 DEF OcrStep, Tick, Boot, Scan, Idle, Fetch, StartOCRJob, Read, Store, CompleteOCRJob, Finish,
         PostStep, PostOnly, PostScan, PostWait, MarkPostImportAttempted, Process, MarkPostImportComplete
  <2>2. faults' = faults \/ Refused
    BY <1>7 DEF OcrStep, Tick, Boot, Scan, Idle, Fetch, StartOCRJob, Read, Store, CompleteOCRJob, Finish, Fails, failures,
         PostStep, PostOnly, PostScan, PostWait, MarkPostImportAttempted, Process, MarkPostImportComplete
  <2>3. faults' \in 0 .. MaxFaults
    BY <2>2, TextAssumption DEF Refused
  <2>. QED BY <1>2, <2>1, <2>3
<1>8. CASE UNCHANGED vars
  BY <1>2, <1>8 DEF vars, failures
<1>. QED BY <1>3, <1>4, <1>5, <1>6, <1>7, <1>8 DEF Next, OcrStep

LEMMA TextStep ==
  ASSUME TextInv, [Next]_vars
  PROVE  TextInv'
<1>0. TableInv /\ OcrTypes /\ RowInv /\ RestTypes /\ Asked /\ RestTypes' /\ Asked'
  BY RestStep DEF TextInv
<1>. USE DEF TextInv
\* Steps that leave the table and the OCR worker; steps that leave the rows and the import worker.
<1>1. ASSUME UNCHANGED <<table, process, left, ocr>> PROVE TableInv' /\ OcrTypes'
  BY <1>0, <1>1, SameJobs DEF OcrTypes, AtJob
<1>2. ASSUME UNCHANGED <<rows, post>> PROVE RowInv'
  BY <1>0, <1>2, SameRows DEF rows, RowInv, RowTypes
<1>3. CASE \E d \in Docs : Import(d)
  BY <1>0, <1>1, <1>3, DocumentSteps DEF Import, life, failures
<1>4. CASE \E d \in Touched : Move(d, "active", "trash") \/ Move(d, "trash", "active")
  BY <1>0, <1>1, <1>4, DocumentSteps, TextAssumption DEF Move, life, failures
<1>5. CASE \E d \in Touched : Purge(d)
  BY <1>0, <1>5, DocumentSteps, OtherSteps, TextAssumption
<1>6. CASE \E r \in Requests : (\E d \in Touched : AskOCR(r, d)) \/ Enqueue(r)
  BY <1>0, <1>1, <1>2, <1>6 DEF AskOCR, Enqueue, life, failures
<1>7. CASE \E r \in Requests : EnqueueOCRJob(r)
  BY <1>0, <1>2, <1>7, OtherSteps DEF EnqueueOCRJob
<1>8. CASE OcrStep \/ Tick
  <2>1. TableInv' /\ OcrTypes'
    BY <1>0, <1>8, OcrStepJobs, OcrStepTypes DEF TableInv
  <2>2. RowInv'
    <3>1. CASE Store
      BY <1>0, <3>1, SameRows DEF Store, RowInv, RowTypes
    <3>2. CASE ~Store
      BY <1>2, <1>8, <3>2 DEF OcrStep, Tick, Boot, Scan, Idle, Wait, Fetch, StartOCRJob, Read, CompleteOCRJob, Finish
    <3>. QED BY <3>1, <3>2
  <2>. QED BY <1>0, <2>1, <2>2
<1>9. CASE PostStep
  BY <1>0, <1>1, <1>9, PostStepRows DEF PostStep, PostOnly, PostScan, PostWait, MarkPostImportAttempted, Process, MarkPostImportComplete, life, failures
<1>10. CASE StopBackgroundJobs \/ Shutdown \/ Crash \/ Start
  <2>1. RowInv'
    BY <1>0, <1>10, SameRows DEF StopBackgroundJobs, Shutdown, Crash, Down, Start, rows, RowInv, RowTypes
  <2>. QED BY <1>0, <1>10, <2>1, OtherSteps
<1>11. CASE UNCHANGED vars
  BY <1>0, <1>1, <1>2, <1>11 DEF vars, life, failures
<1>. QED BY <1>3, <1>4, <1>5, <1>6, <1>7, <1>8, <1>9, <1>10, <1>11 DEF Next, RequestStep

\* The parts of the invariant hold whatever is requested, imported, moved and
\* purged, and however often the process ends (ocr_jobs.go, post_processor.go).
THEOREM TextInvariance == Spec => []TextInv
  BY TextInit, TextStep, PTL DEF Spec

\* Every variable keeps its type.
THEOREM TypeCorrect == Spec => []TypeOK
  BY TextInvariance, TextTypes, PTL

\* A job that says it is running has the worker on it, or the process is ending
\* or starting, or the database has refused to write its end or to clean up
\* since the last start that did (Service.RunJob, InterruptActiveOCRJobs).
THEOREM RunningJobsAreWorkedOn == Spec => []RunningIsWorkedOn
<1>1. TextInv => RunningIsWorkedOn
  BY DEF TextInv, TableInv
<1>. QED BY <1>1, TextInvariance, PTL

\* A document has one job that is queued or runs, at most, although requests look
\* for one while the worker goes on (EnqueueOCRJob).
THEOREM OneJobPerDocument == Spec => []OneActive
<1>1. TextInv => OneActive
  BY DEF TextInv, TableInv
<1>. QED BY <1>1, TextInvariance, PTL

\* Once the import of a document is done, nothing replaces the text that OCR has
\* found (PostProcessor.Process).
THEOREM OcrTextIsKept == Spec => OcrTextStays
<1>1. TextInv /\ [Next]_vars => [\A d \in Docs : text[d] = "ocr" /\ ~pending[d] => text'[d] = "ocr"]_vars
  <2>. SUFFICES ASSUME TextInv, [Next]_vars, NEW d \in Docs, text[d] = "ocr", ~pending[d] PROVE text'[d] = "ocr"
    OBVIOUS
  <2>0. text \in [Docs -> {"none", "file", "ocr"}]
    BY DEF TextInv, RowInv, RowTypes
  <2>1. CASE Process
    <3>1. ASSUME Row(Now) PROVE Now # d
      <4>1. post.list \in Seq(Docs) /\ post.list # <<>> /\ Waits(post.list)
        BY <2>1 DEF Process, TextInv, RowInv, PostTypes, ListWaits, Waits
      <4>2. 1 \in DOMAIN post.list
        BY <4>1, EmptySeq
      <4>. QED BY <3>1, <4>1, <4>2 DEF Waits, Now, Row
    <3>. QED BY <2>0, <2>1, <3>1 DEF Process
  <2>2. CASE Store
    BY <2>0, <2>2 DEF Store
  <2>3. CASE ~Process /\ ~Store
    <3>1. text' = text
      BY <2>3 DEF Next, vars, rows, Import, Move, Purge, AskOCR, RequestStep, EnqueueOCRJob, Enqueue,
           OcrStep, Tick, Boot, Scan, Idle, Wait, Fetch, StartOCRJob, Read, CompleteOCRJob, Finish,
           PostStep, PostScan, PostWait, MarkPostImportAttempted, MarkPostImportComplete,
           StopBackgroundJobs, Shutdown, Crash, Down, Start
    <3>. QED BY <3>1
  <2>. QED BY <2>1, <2>2, <2>3
<1>. QED BY <1>1, TextInvariance, PTL DEF Spec, OcrTextStays
=============================================================================
