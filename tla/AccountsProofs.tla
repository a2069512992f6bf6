---------------------------- MODULE AccountsProofs -----------------------------
(***************************************************************************)
(* AInv of Accounts is inductive, and two promises about every step follow *)
(* from it, for any numbers of accounts, rights, requests and changes.     *)
(***************************************************************************)
EXTENDS Accounts, TLAPS

-----------------------------------------------------------------------------
(* AInv by its parts: what is true of each request, and of the rest.        *)

Fine(q) ==
    /\ Known(q.who)
    /\ q.target \in Ids => users[q.target] # NoUser
    /\ q.at \notin {"checked", "writing", "written"} => q.target = NoOne
    /\ q.at \in {"checked", "writing"} => MayStill(q.who, q.target, q.seen)
    /\ q.at \in {"compare", "proven"} => q.password \in Passwords
Remembers(c) == c \subseteq [who : Principals, password : Passwords] /\ \A e \in c : Known(e.who)
Rows ==
    /\ users \in [Ids -> Users \cup {NoUser, Gone}]
    /\ snapshot \in [Ids -> Users \cup {NoUser, Gone}] /\ closed \in BOOLEAN
    /\ changes \in 0 .. MaxChanges
    /\ preferences \subseteq Accounts
    /\ SomeoneManages /\ SnapshotIsBehind
Lock == authWrite \in Requests \cup {Free} /\ SnapshotIsCurrent /\ WritersAreCurrent

AParts ==
    /\ Rows /\ Lock /\ Remembers(cache)
    /\ request \in [Requests -> Served]
    /\ \A r \in Requests : Fine(request[r])

LEMMA Parts == AInv <=> AParts
<1>1. preferences \subseteq Accounts => preferences \subseteq Ids
  BY DEF Accounts
<1> QED
  BY <1>1 DEF AInv, AParts, TypeOK, Rows, Lock, Remembers, Fine, ChecksStillHold, TargetsAreKnown

LEMMA PartsThen == AInv' <=> AParts'
  BY Parts, PTL

(* A row of the table is no mark for a row that is not there.               *)
LEMMA RowsExist == \A row \in Users : Exists(row)
  BY AccountsAssumption DEF Exists

(* A principal that the snapshot lets in is an account, as it is or was.    *)
LEMMA CredentialKnown ==
  ASSUME AInv, NEW id \in Ids \cup Config, Active(id)
  PROVE  Credential(id) \in Principals /\ Known(Credential(id)) /\ Credential(id).id = id
<1>0. Rows
  BY Parts DEF AParts
<1>1. CASE id \in Config
  <2>1. ConfigAccess[id] \in Accesses
    BY <1>1, AccountsAssumption
  <2> QED
    BY <1>1, <2>1 DEF Credential, Principals, Known
<1>2. CASE id \in Ids /\ id \notin Config
  <2>1. Exists(snapshot[id]) /\ snapshot[id] \in Users
    BY <1>0, <1>2 DEF Active, Rows, Exists
  <2>2. users[id] # NoUser /\ (id \in Accounts => snapshot[id].session < users[id].session \/ snapshot[id] = users[id])
    BY <1>0, <1>2, <2>1 DEF Rows, SnapshotIsBehind
  <2>3. Credential(id) = [id |-> id, session |-> snapshot[id].session, access |-> snapshot[id].access]
    BY <1>2 DEF Credential
  <2> QED
    BY <1>2, <2>1, <2>2, <2>3 DEF Principals, Known, Principal, Users
<1> QED
  BY <1>1, <1>2

(* Who writes sees the rows as they are, and is alone.                      *)
LEMMA WriterSees ==
  ASSUME AInv, NEW r \in Requests, request[r].at = "writing"
  PROVE  /\ authWrite = r /\ snapshot = users /\ ~closed
         /\ \A o \in Requests \ {r} : request[o].at \notin {"writing", "written"}
<1>1. Lock
  BY Parts DEF AParts
<1>2. authWrite = r
  BY <1>1 DEF Lock, WritersAreCurrent
<1>3. ~closed
  BY <1>1 DEF Lock, WritersAreCurrent, Enabled, Current, Active
<1>4. \A o \in Requests \ {r} : request[o].at \notin {"writing", "written"}
  BY <1>1, <1>2 DEF Lock, WritersAreCurrent
<1>5. snapshot = users
  BY <1>1, <1>2, <1>3 DEF Lock, SnapshotIsCurrent
<1> QED
  BY <1>2, <1>3, <1>4, <1>5

-----------------------------------------------------------------------------
(* A step that concerns only one request, and perhaps what is remembered.   *)
LEMMA RequestStep ==
  ASSUME AInv, NEW r \in Requests, NEW q \in Served, Fine(q), Becomes(r, q),
         UNCHANGED <<users, preferences, snapshot, closed, authWrite, changes>>,
         Remembers(cache'),
         request[r].at \notin {"writing", "written"}, q.at \notin {"writing", "written"}
  PROVE  AInv'
<1>0. AParts
  BY Parts
<1>1. Rows'
  BY <1>0 DEF AParts, Rows, Accounts, Exists, SomeoneManages, Managers, SnapshotIsBehind
<1>2. (request \in [Requests -> Served])' /\ request'[r] = q /\ \A o \in Requests \ {r} : request'[o] = request[o]
  BY <1>0 DEF AParts, Becomes
<1>3. ASSUME NEW p PROVE Fine(p) <=> Fine(p)'
  BY DEF Fine, Known, Principal, Accounts, Exists, MayStill, CanManageUser
<1>4. \A o \in Requests : Fine(request[o])'
  BY <1>0, <1>2, <1>3 DEF AParts
<1>5. Remembers(cache)'
  BY DEF Remembers, Known, Principal, Accounts, Exists
<1>6. Lock'
  BY <1>0, <1>2 DEF AParts, Lock, SnapshotIsCurrent, WritersAreCurrent, Enabled, Current, Active, Credential
<1> QED
  BY <1>1, <1>2, <1>4, <1>5, <1>6, PartsThen DEF AParts

LEMMA AdmissionKeeps ==
  ASSUME AInv, NEW r \in Requests, Admission(r)
  PROVE  AInv'
<1> DEFINE q == request[r]
<1>0. AParts /\ Fine(q) /\ q \in Served /\ Remembers(cache)
  BY Parts DEF AParts
<1>1. ASSUME NEW id \in Ids \cup Config, AuthSessionPrincipal(r, id) PROVE AInv'
  <2> DEFINE p == [q EXCEPT !.at = "admitted", !.who = Credential(id)]
  <2>1. Credential(id) \in Principals /\ Known(Credential(id))
    BY <1>1, CredentialKnown DEF AuthSessionPrincipal
  <2>2. p \in Served /\ Fine(p) /\ p.at = "admitted" /\ q.at = "idle"
    BY <1>0, <1>1, <2>1 DEF Served, Fine, AuthSessionPrincipal
  <2> QED
    BY <1>0, <1>1, <2>2, RequestStep DEF AuthSessionPrincipal, OnlyRequests
<1>2. ASSUME NEW id \in Ids \cup Config, NEW w \in Passwords, Attempt(r, id, w) PROVE AInv'
  <2>1. q.at = "idle" /\ Active(id) /\ OnlyRequests
    BY <1>2 DEF Attempt
  <2>2. ASSUME NEW e \in CacheHits(id, w), Becomes(r, [q EXCEPT !.at = "proven", !.who = e.who, !.password = w]) PROVE AInv'
    <3> DEFINE p == [q EXCEPT !.at = "proven", !.who = e.who, !.password = w]
    <3>1. e.who \in Principals /\ Known(e.who)
      BY <1>0 DEF CacheHits, Remembers
    <3>2. p \in Served /\ Fine(p) /\ p.at = "proven"
      BY <1>0, <2>1, <3>1 DEF Served, Fine
    <3> QED
      BY <1>0, <2>1, <2>2, <3>2, RequestStep DEF OnlyRequests
  <2>3. CASE Becomes(r, [q EXCEPT !.at = "compare", !.who = Credential(id), !.password = w])
    <3> DEFINE p == [q EXCEPT !.at = "compare", !.who = Credential(id), !.password = w]
    <3>1. Credential(id) \in Principals /\ Known(Credential(id))
      BY <2>1, CredentialKnown
    <3>2. p \in Served /\ Fine(p) /\ p.at = "compare"
      BY <1>0, <2>1, <3>1 DEF Served, Fine
    <3> QED
      BY <1>0, <2>1, <2>3, <3>2, RequestStep DEF OnlyRequests
  <2> QED
    BY <1>2, <2>2, <2>3 DEF Attempt
<1>3. CASE AdmitAnyone(r)
  <2> DEFINE p == [q EXCEPT !.at = "admitted", !.who = Nobody]
  <2>1. p \in Served /\ Fine(p) /\ p.at = "admitted" /\ q.at = "idle"
    BY <1>0, <1>3 DEF Served, Fine, AdmitAnyone, Known, Principals
  <2> QED
    BY <1>0, <1>3, <2>1, RequestStep DEF AdmitAnyone, OnlyRequests
<1>4. Idle \in Served /\ Fine(Idle) /\ Idle.at = "idle"
  BY AccountsAssumption DEF Idle, Served, Fine, Known, Principals
<1>5. CASE Compare(r)
  <2> DEFINE p == [q EXCEPT !.at = "proven"]
  <2>1. p \in Served /\ Fine(p) /\ p.at = "proven" /\ q.at = "compare"
    BY <1>0, <1>5 DEF Served, Fine, Compare
  <2> QED
    BY <1>0, <1>4, <1>5, <2>1, RequestStep DEF Compare, Step, End, OnlyRequests
<1>6. CASE SetAuthSession(r)
  <2> DEFINE p == [q EXCEPT !.at = "admitted", !.password = NoOne]
  <2>1. p \in Served /\ Fine(p) /\ p.at = "admitted" /\ q.at = "proven"
    BY <1>0, <1>6 DEF Served, Fine, SetAuthSession
  <2>2. Remembers(cache')
    BY <1>0, <1>6, <2>1 DEF Remembers, SetAuthSession, Fine, Served
  <2> QED
    BY <1>4, <1>6, <2>1, <2>2, RequestStep DEF SetAuthSession, End
<1> QED
  BY <1>1, <1>2, <1>3, <1>5, <1>6 DEF Admission

LEMMA HandlerKeeps ==
  ASSUME AInv, NEW r \in Requests, Handler(r)
  PROVE  AInv'
<1> DEFINE q == request[r]
<1>0. AParts /\ Fine(q) /\ q \in Served /\ Remembers(cache) /\ Rows
  BY Parts DEF AParts
<1>1. ASSUME NEW id \in Ids, EditableUser(r, id) PROVE AInv'
  <2>1. PICK v \in Versions : Becomes(r, [q EXCEPT !.at = "checked", !.target = id, !.version = v, !.seen = users[id].row])
    BY <1>1 DEF EditableUser
  <2> DEFINE p == [q EXCEPT !.at = "checked", !.target = id, !.version = v, !.seen = users[id].row]
  <2>2. q.at = "admitted" /\ q.who # Nobody /\ Exists(users[id]) /\ CanManageUser(q.who, id) /\ OnlyRequests
    BY <1>1 DEF EditableUser
  <2>3. users[id] \in Users /\ users[id] # NoUser /\ users[id].row \in Nat /\ v \in Nat
    BY <1>0, <2>1, <2>2, AccountsAssumption DEF Rows, Exists, Users
  <2>4. MayStill(q.who, id, users[id].row)
    BY <2>2, <2>3, AccountsAssumption DEF MayStill
  <2>5. p \in Served /\ Fine(p) /\ p.at = "checked"
    BY <1>0, <2>2, <2>3, <2>4 DEF Served, Fine
  <2> QED
    BY <1>0, <2>1, <2>2, <2>5, RequestStep DEF OnlyRequests
<1>2. CASE OwnAccount(r)
  <2> DEFINE id == q.who.id
             p == [q EXCEPT !.at = "checked", !.target = id, !.version = users[id].row, !.seen = users[id].row]
  <2>1. q.at = "admitted" /\ id \in Ids /\ Exists(users[id]) /\ OnlyRequests /\ Becomes(r, p)
    BY <1>2 DEF OwnAccount
  <2>2. users[id] \in Users /\ users[id] # NoUser /\ users[id].row \in Nat
    BY <1>0, <2>1 DEF Rows, Exists, Users
  <2>3. MayStill(q.who, id, users[id].row)
    BY <2>1, <2>2, AccountsAssumption DEF MayStill
  <2>4. p \in Served /\ Fine(p) /\ p.at = "checked"
    BY <1>0, <2>1, <2>2, <2>3 DEF Served, Fine
  <2> QED
    BY <1>0, <2>1, <2>4, RequestStep DEF OnlyRequests
<1>3. CASE NewUser(r)
  <2> DEFINE p == [q EXCEPT !.at = "checked"]
  <2>1. q.at = "admitted" /\ OnlyRequests /\ Becomes(r, p) /\ (q.who # Nobody => Manages(q.who.access))
    BY <1>3 DEF NewUser, Step
  <2>2. q.target = NoOne /\ NoOne \notin Accounts
    BY <1>0, <2>1, AccountsAssumption DEF Fine, Accounts
  <2>3. p \in Served /\ Fine(p) /\ p.at = "checked"
    BY <1>0, <2>1, <2>2 DEF Served, Fine, MayStill
  <2> QED
    BY <1>0, <2>1, <2>3, RequestStep DEF OnlyRequests
<1>4. CASE Leave(r)
  <2>1. Idle \in Served /\ Fine(Idle) /\ Idle.at = "idle"
    BY AccountsAssumption DEF Idle, Served, Fine, Known, Principals
  <2> QED
    BY <1>0, <1>4, <2>1, RequestStep DEF Leave, End, OnlyRequests
<1> QED
  BY <1>1, <1>2, <1>3, <1>4 DEF Handler

-----------------------------------------------------------------------------
(* The turn                                                                 *)

LEMMA IdleIsFine == Idle \in Served /\ Fine(Idle) /\ Idle.at = "idle"
  BY AccountsAssumption DEF Idle, Served, Fine, Known, Principals

LEMMA WithAuthWriteKeeps ==
  ASSUME AInv, NEW r \in Requests, WithAuthWrite(r)
  PROVE  AInv'
<1> DEFINE q == request[r]
           p == [q EXCEPT !.at = "writing"]
<1>0. AParts /\ Fine(q) /\ q \in Served /\ Remembers(cache) /\ q.at = "checked" /\ authWrite = Free
  BY Parts DEF AParts, WithAuthWrite
<1>1. CASE authWrite' = authWrite /\ End(r)
  BY <1>0, <1>1, IdleIsFine, RequestStep DEF WithAuthWrite, End
<1>2. CASE Step(r, "writing") /\ authWrite' = r /\ (IF q.who = Nobody THEN ~Enabled ELSE Current(q.who))
  <2>1. p \in Served /\ Fine(p) /\ p.at = "writing" /\ p.who = q.who
    BY <1>0 DEF Served, Fine
  <2>2. request \in [Requests -> Served] /\ request' = [request EXCEPT ![r] = p]
    BY <1>0, <1>2 DEF AParts, Step, Becomes
  <2>3. (request \in [Requests -> Served])' /\ request'[r] = p /\ \A o \in Requests \ {r} : request'[o] = request[o]
    BY <2>1, <2>2
  <2>4. UNCHANGED <<users, preferences, snapshot, closed, cache, changes>>
    BY <1>2 DEF WithAuthWrite
  <2>5. Rows'
    BY <1>0, <2>4 DEF AParts, Rows, Accounts, Exists, SomeoneManages, Managers, SnapshotIsBehind
  <2>6. ASSUME NEW x PROVE Fine(x) <=> Fine(x)'
    BY <2>4 DEF Fine, Known, Principal, Accounts, Exists, MayStill, CanManageUser
  <2>7. \A o \in Requests : Fine(request[o])'
    BY <1>0, <2>1, <2>3, <2>6 DEF AParts
  <2>8. Remembers(cache)'
    BY <1>0, <2>4 DEF Remembers, Known, Principal, Accounts, Exists
  <2>9. closed \/ snapshot = users
    BY <1>0, AccountsAssumption DEF AParts, Lock, SnapshotIsCurrent
  <2>10. SnapshotIsCurrent'
    BY <2>4, <2>9 DEF SnapshotIsCurrent
  <2>11. \A o \in Requests : request[o].at \notin {"writing", "written"}
    BY <1>0, AccountsAssumption DEF AParts, Lock, WritersAreCurrent
  <2>12. \A w : (Enabled <=> Enabled') /\ (Current(w) <=> Current(w)')
    BY <2>4 DEF Enabled, Exists, Current, Active, Credential
  <2>13. WritersAreCurrent'
    BY <1>2, <2>1, <2>3, <2>11, <2>12 DEF WritersAreCurrent
  <2>14. Lock'
    BY <1>2, <2>10, <2>13 DEF Lock
  <2> QED
    BY <2>3, <2>5, <2>7, <2>8, <2>14, PartsThen DEF AParts
<1> QED
  BY <1>1, <1>2 DEF WithAuthWrite

(* The turn ends: the lock is free, and what is published is current.       *)
LEMMA TurnEnds ==
  ASSUME AInv, NEW r \in Requests, authWrite = r, authWrite' = Free, End(r),
         UNCHANGED users,
         Rows', Remembers(cache)', closed' \/ snapshot' = users'
  PROVE  AInv'
<1>0. AParts
  BY Parts
<1>1. (request \in [Requests -> Served])' /\ request'[r] = Idle /\ \A o \in Requests \ {r} : request'[o] = request[o]
  BY <1>0, IdleIsFine DEF AParts, End, Becomes
<1>2. ASSUME NEW x PROVE Fine(x) <=> Fine(x)'
  BY DEF Fine, Known, Principal, Accounts, Exists, MayStill, CanManageUser
<1>3. \A o \in Requests : Fine(request[o])'
  BY <1>0, <1>1, <1>2, IdleIsFine DEF AParts
<1>4. \A o \in Requests \ {r} : request[o].at \notin {"writing", "written"}
  BY <1>0 DEF AParts, Lock, WritersAreCurrent
<1>5. WritersAreCurrent'
  BY <1>1, <1>4, IdleIsFine, AccountsAssumption DEF WritersAreCurrent
<1>6. Lock'
  BY <1>5 DEF Lock, SnapshotIsCurrent
<1> QED
  BY <1>0, <1>1, <1>3, <1>6, PartsThen DEF AParts

-----------------------------------------------------------------------------
(* One row is written                                                       *)

LEMMA SomeoneStays ==
  ASSUME SomeoneManages, Accounts # {}, users \in [Ids -> Users \cup {NoUser, Gone}],
         NEW id \in Ids, NEW row, users' = [users EXCEPT ![id] = row],
         IsManager(id) => AnotherManager(id) \/ (Exists(row) /\ row.on /\ Manages(row.access))
  PROVE  SomeoneManages'
<1>1. CASE ConfigManagers # {}
  BY <1>1 DEF SomeoneManages
<1>2. ASSUME NEW j \in Managers(users), j # id PROVE SomeoneManages'
  <2>1. j \in Managers(users')
    BY <1>2 DEF Managers
  <2> QED
    BY <2>1 DEF SomeoneManages
<1>3. CASE Exists(row) /\ row.on /\ Manages(row.access)
  <2>1. id \in Managers(users')
    BY <1>3 DEF Managers
  <2> QED
    BY <2>1 DEF SomeoneManages
<1>4. CASE AnotherManager(id)
  BY <1>1, <1>2, <1>4 DEF AnotherManager
<1>5. CASE ~IsManager(id)
  BY <1>1, <1>2, <1>5 DEF SomeoneManages, IsManager
<1> QED
  BY <1>3, <1>4, <1>5

(* Every check and every principal of before stays what it was: of now, or  *)
(* of an earlier version.                                                   *)
LEMMA RowWrite ==
  ASSUME AInv, NEW r \in Requests, Writes(r),
         NEW id \in Ids, NEW row \in Users \cup {Gone}, users' = [users EXCEPT ![id] = row],
         users[id] # Gone,
         Exists(users[id]) /\ Exists(row) => row.session > users[id].session /\ row.row > users[id].row,
         preferences' \subseteq Accounts', SomeoneManages'
  PROVE  AInv'
<1> DEFINE q == request[r]
           p == [q EXCEPT !.at = "written"]
<1>0. AParts /\ Rows /\ Lock /\ q.at = "writing" /\ q \in Served /\ Fine(q)
  BY Parts DEF AParts, Writes
<1>1. /\ authWrite = r /\ snapshot = users
      /\ \A o \in Requests \ {r} : request[o].at \notin {"writing", "written"}
  BY <1>0, WriterSees
<1>2. /\ UNCHANGED <<snapshot, closed, cache, authWrite>>
      /\ changes' = changes + 1 /\ changes < MaxChanges
      /\ request' = [request EXCEPT ![r] = p]
  BY DEF Writes, Step, Becomes
<1>3. p \in Served /\ p.at = "written" /\ p.who = q.who /\ p.target = q.target
  BY <1>0 DEF Served
<1>4. (request \in [Requests -> Served])' /\ request'[r] = p /\ \A o \in Requests \ {r} : request'[o] = request[o]
  BY <1>0, <1>2, <1>3 DEF AParts
<1>5. /\ users'[id] = row /\ row # NoUser /\ \A i \in Ids \ {id} : users'[i] = users[i]
      /\ (users \in [Ids -> Users \cup {NoUser, Gone}])'
  BY <1>0, AccountsAssumption DEF Rows
<1>6. \A i \in Ids : Exists(users[i]) => users[i].session \in Nat /\ users[i].row \in Nat
  BY <1>0 DEF Rows, Exists, Users
<1>7. row \in Users => row.session \in Nat /\ row.row \in Nat
  BY DEF Users
<1>8. users[id] = NoUser \/ Exists(users[id])
  BY DEF Exists
<1>9. SnapshotIsBehind'
  <2> SUFFICES ASSUME NEW i \in Ids, Exists(snapshot[i])
               PROVE  /\ users'[i] # NoUser
                      /\ i \in Accounts' => snapshot[i].session < users'[i].session \/ snapshot[i] = users'[i]
    BY <1>2 DEF SnapshotIsBehind, Exists
  <2>1. CASE i = id
    BY <2>1, <1>1, <1>5, <1>6, <1>7 DEF Accounts, Exists
  <2>2. CASE i # id
    BY <2>2, <1>1, <1>5 DEF Exists
  <2> QED
    BY <2>1, <2>2
<1>10. Rows'
  BY <1>0, <1>2, <1>5, <1>9, AccountsAssumption DEF Rows
<1>11. ASSUME NEW who \in Principals, Known(who) PROVE Known(who)'
  <2>1. CASE who = Nobody \/ (who.id \in Config /\ who.access = ConfigAccess[who.id])
    BY <2>1 DEF Known
  <2>2. CASE who # Nobody /\ who.id \in Ids /\ users[who.id] # NoUser /\ who.id # id
    BY <2>2, <1>5, <1>11 DEF Known, Accounts, Exists, Principal
  <2>3. CASE who # Nobody /\ who.id = id /\ users[id] # NoUser
    <3>1. who.session \in Nat /\ Exists(users[id])
      BY <2>3, <1>8 DEF Principals
    <3>2. id \in Accounts
      BY <3>1 DEF Accounts
    <3>3. id \notin Config
      BY AccountsAssumption
    <3>4. who.session < users[id].session \/ who = Principal(id)
      BY <2>3, <3>2, <3>3, <1>11 DEF Known
    <3>5. who.session <= users[id].session
      BY <3>1, <3>4, <1>6 DEF Principal
    <3>6. id \in Accounts' => Exists(row) /\ row \in Users
      BY <1>5 DEF Accounts, Exists
    <3>7. id \in Accounts' => who.session < users'[id].session
      BY <3>1, <3>5, <3>6, <1>5, <1>6, <1>7
    <3> QED
      BY <2>3, <3>7, <1>5 DEF Known
  <2> QED
    BY <2>1, <2>2, <2>3, <1>11 DEF Known
<1>12. Remembers(cache)'
  BY <1>0, <1>2, <1>11 DEF AParts, Remembers
<1>13. ASSUME NEW x \in Served, Fine(x) PROVE Fine(x)'
  <2>2. x.who \in Principals /\ x.target \in Ids \cup {NoOne} /\ x.seen \in Nat
    BY DEF Served
  <2>3. Known(x.who)' /\ (x.target \in Ids => users'[x.target] # NoUser)
    BY <2>2, <1>5, <1>11, <1>13 DEF Fine
  <2>4. ASSUME MayStill(x.who, x.target, x.seen) PROVE MayStill(x.who, x.target, x.seen)'
    <3>1. CASE x.target = id
      <4>1. Exists(users[id]) /\ id \in Accounts
        BY <3>1, <1>8, <1>13 DEF Fine, Accounts
      <4>2. x.seen <= users[id].row
        BY <2>4, <3>1, <4>1 DEF MayStill
      <4>3. id \in Accounts' => Exists(row) /\ row \in Users
        BY <1>5 DEF Accounts, Exists
      <4>4. id \in Accounts' => x.seen < users'[id].row
        BY <2>2, <4>1, <4>2, <4>3, <1>5, <1>6, <1>7
      <4>5. id \in Accounts' => users'[id].row \in Nat
        BY <4>3, <1>5, <1>7
      <4> QED
        BY <2>2, <3>1, <4>4, <4>5, AccountsAssumption DEF MayStill
    <3>2. CASE x.target \in Ids /\ x.target # id
      BY <2>4, <3>2, <1>5 DEF MayStill, CanManageUser, Accounts, Exists
    <3>3. CASE x.target = NoOne
      <4>1. NoOne \notin Accounts /\ NoOne \notin Accounts'
        BY AccountsAssumption DEF Accounts
      <4> QED
        BY <2>4, <3>3, <4>1 DEF MayStill
    <3> QED
      BY <2>2, <3>1, <3>2, <3>3
  <2> QED
    BY <2>3, <2>4, <1>13 DEF Fine
<1>14. \A o \in Requests : Fine(request[o])'
  <2>1. Fine(p)
    BY <1>0, <1>3 DEF Fine
  <2> QED
    BY <2>1, <1>0, <1>3, <1>4, <1>13 DEF AParts
<1>15. Lock'
  <2>1. WritersAreCurrent'
    BY <1>1, <1>2, <1>3, <1>4 DEF WritersAreCurrent
  <2>2. SnapshotIsCurrent'
    BY <1>1, <1>2, <1>3, <1>4 DEF SnapshotIsCurrent
  <2> QED
    BY <2>1, <2>2, <1>0, <1>2 DEF Lock
<1> QED
  BY <1>4, <1>10, <1>12, <1>14, <1>15, PartsThen DEF AParts

(* A row that is changed has a later version.                               *)
LEMMA ChangedKeeps ==
  ASSUME AInv, NEW r \in Requests, Writes(r), UNCHANGED preferences,
         NEW id \in Accounts, NEW row \in Users, Changed(id, row),
         row.row = users[id].row, row.session = users[id].session,
         IsManager(id) => AnotherManager(id) \/ (row.on /\ Manages(row.access))
  PROVE  AInv'
<1> DEFINE new == [row EXCEPT !.row = @ + 1, !.session = @ + 1]
<1>0. Rows /\ SomeoneManages /\ users \in [Ids -> Users \cup {NoUser, Gone}] /\ id \in Ids /\ Exists(users[id])
  BY Parts DEF AParts, Rows, Accounts
<1>1. new \in Users /\ new.on = row.on /\ new.access = row.access
  <2>1. row.row + 1 \in Nat \ {0} /\ row.session + 1 \in Nat \ {0}
    BY DEF Users
  <2>2. new.row = row.row + 1 /\ new.session = row.session + 1
    BY DEF Users
  <2> QED
    BY <2>1, <2>2 DEF Users
<1>2. new.row > users[id].row /\ new.session > users[id].session
  <2>1. row.row \in Nat /\ row.session \in Nat
    BY DEF Users
  <2>2. new.row = row.row + 1 /\ new.session = row.session + 1
    BY DEF Users
  <2> HIDE DEF new
  <2> QED
    BY <2>1, <2>2
<1>3. Exists(new)
  BY <1>1, RowsExist
<1>4. users' = [users EXCEPT ![id] = new]
  BY DEF Changed
<1>5. SomeoneManages'
  <2>1. IsManager(id) => AnotherManager(id) \/ (Exists(new) /\ new.on /\ Manages(new.access))
    BY <1>1, <1>3
  <2>2. Accounts # {}
    OBVIOUS
  <2> HIDE DEF new
  <2> QED
    BY <1>0, <1>4, <2>1, <2>2, SomeoneStays
<1>6. preferences' \subseteq Accounts'
  BY <1>0, <1>3, <1>4 DEF Rows, Accounts
<1>7. users[id] # Gone
  BY <1>0 DEF Exists
<1> HIDE DEF new
<1> QED
  BY <1>0, <1>1, <1>2, <1>4, <1>5, <1>6, <1>7, RowWrite

LEMMA UpdateUserAccessKeeps ==
  ASSUME AInv, NEW r \in Requests, NEW access \in Accesses, UpdateUserAccess(r, access)
  PROVE  AInv'
<1> DEFINE id == request[r].target
           row == [users[id] EXCEPT !.access = access]
<1>1. id \in Accounts /\ Writes(r) /\ UNCHANGED preferences /\ Changed(id, row)
      /\ (IsManager(id) /\ ~Manages(access) => AnotherManager(id))
  BY DEF UpdateUserAccess, Expected
<1>2. users[id] \in Users
  BY <1>1, Parts DEF AParts, Rows, Accounts, Exists
<1>3. row \in Users /\ row.access = access /\ row.on = users[id].on /\ row.row = users[id].row /\ row.session = users[id].session
  BY <1>2 DEF Users
<1>4. IsManager(id) => users[id].on
  BY DEF IsManager, Managers
<1> HIDE DEF id, row
<1> QED
  BY <1>1, <1>3, <1>4, ChangedKeeps

LEMMA UpdateUserPasswordKeeps ==
  ASSUME AInv, NEW r \in Requests, NEW w \in Passwords, UpdateUserPassword(r, w)
  PROVE  AInv'
<1> DEFINE id == request[r].target
           row == [users[id] EXCEPT !.password = w]
<1>1. id \in Accounts /\ Writes(r) /\ UNCHANGED preferences /\ Changed(id, row)
  BY DEF UpdateUserPassword, Expected
<1>2. users[id] \in Users
  BY <1>1, Parts DEF AParts, Rows, Accounts, Exists
<1>3. /\ row \in Users /\ row.access = users[id].access /\ row.on = users[id].on
      /\ row.row = users[id].row /\ row.session = users[id].session
  BY <1>2 DEF Users
<1>4. IsManager(id) => users[id].on /\ Manages(users[id].access)
  BY DEF IsManager, Managers
<1> HIDE DEF id, row
<1> QED
  BY <1>1, <1>3, <1>4, ChangedKeeps

LEMMA SetUserEnabledKeeps ==
  ASSUME AInv, NEW r \in Requests, NEW on \in BOOLEAN, SetUserEnabled(r, on)
  PROVE  AInv'
<1> DEFINE id == request[r].target
           row == [users[id] EXCEPT !.on = on]
<1>1. id \in Accounts /\ Writes(r) /\ UNCHANGED preferences /\ Changed(id, row)
      /\ (IsManager(id) /\ ~on => AnotherManager(id))
  BY DEF SetUserEnabled, Expected
<1>2. users[id] \in Users
  BY <1>1, Parts DEF AParts, Rows, Accounts, Exists
<1>3. row \in Users /\ row.on = on /\ row.access = users[id].access /\ row.row = users[id].row /\ row.session = users[id].session
  BY <1>2 DEF Users
<1>4. IsManager(id) => Manages(users[id].access)
  BY DEF IsManager, Managers
<1> HIDE DEF id, row
<1> QED
  BY <1>1, <1>3, <1>4, ChangedKeeps

LEMMA DeleteUserKeeps ==
  ASSUME AInv, NEW r \in Requests, DeleteUser(r)
  PROVE  AInv'
<1> DEFINE id == request[r].target
<1>1. id \in Accounts /\ Writes(r) /\ preferences' = preferences \ {id} /\ users' = [users EXCEPT ![id] = Gone]
      /\ (IsManager(id) => AnotherManager(id))
  BY DEF DeleteUser, Expected
<1>2. Rows /\ SomeoneManages /\ users \in [Ids -> Users \cup {NoUser, Gone}] /\ id \in Ids /\ Exists(users[id])
  BY <1>1, Parts DEF AParts, Rows, Accounts
<1>3. SomeoneManages'
  <2> HIDE DEF id
  <2> QED
    BY <1>1, <1>2, SomeoneStays
<1>4. preferences' \subseteq Accounts'
  BY <1>1, <1>2 DEF Rows, Accounts
<1>5. ~Exists(Gone) /\ users[id] # Gone
  BY <1>2 DEF Exists
<1> HIDE DEF id
<1> QED
  BY <1>1, <1>2, <1>3, <1>4, <1>5, RowWrite

(* The first account is an administrator; later there is a manager already. *)
LEMMA CreateUserKeeps ==
  ASSUME AInv, NEW r \in Requests, NEW access \in Accesses, NEW w \in Passwords, CreateUser(r, access, w)
  PROVE  AInv'
<1> DEFINE q == request[r]
           who == q.who
           row == [access |-> access, on |-> TRUE, password |-> w, row |-> 1, session |-> 1]
<1>1. PICK id \in Ids : users[id] = NoUser /\ users' = [users EXCEPT ![id] = row]
  BY DEF CreateUser
<1>2. /\ q.target = NoOne /\ q.at = "writing" /\ Writes(r) /\ UNCHANGED preferences
      /\ who = Nobody => access.admin
  BY DEF CreateUser, Writes
<1>3. AParts /\ Rows /\ Lock /\ Fine(q) /\ q \in Served /\ SomeoneManages /\ users \in [Ids -> Users \cup {NoUser, Gone}]
  BY Parts DEF AParts, Rows
<1>4. row \in Users /\ row.access = access /\ row.on /\ Exists(row) /\ ~Exists(users[id]) /\ users[id] # Gone
  <2>1. row \in Users /\ row.access = access /\ row.on
    BY DEF Users
  <2>2. ~Exists(users[id]) /\ users[id] # Gone
    BY <1>1, AccountsAssumption DEF Exists
  <2> HIDE DEF row
  <2> QED
    BY <2>1, <2>2, RowsExist
<1>5. SomeoneManages'
  <2>1. CASE Accounts # {}
    <3>1. ~IsManager(id)
      BY <1>4 DEF IsManager, Managers
    <3> QED
      BY <2>1, <3>1, <1>1, <1>3, SomeoneStays
  <2>2. CASE who = Nobody
    <3>1. Manages(access)
      BY <2>2, <1>2, AccountsAssumption DEF Manages
    <3>2. id \in Managers(users')
      BY <3>1, <1>1, <1>3, <1>4 DEF Managers
    <3> QED
      BY <3>2 DEF SomeoneManages
  <2>3. CASE Accounts = {} /\ who # Nobody
    <3>1. Current(who) /\ snapshot = users
      BY <2>3, <1>2, <1>3, WriterSees DEF Lock, WritersAreCurrent
    <3>2. who.id \in Config
      BY <2>3, <3>1 DEF Current, Active, Accounts
    <3>3. who.access = ConfigAccess[who.id]
      BY <2>3, <3>2, <1>3, AccountsAssumption DEF Fine, Known
    <3>4. Manages(who.access)
      BY <2>3, <1>2, <1>3 DEF Fine, MayStill
    <3>5. who.id \in ConfigManagers
      BY <3>2, <3>3, <3>4 DEF ConfigManagers
    <3> QED
      BY <3>5 DEF SomeoneManages
  <2> QED
    BY <2>1, <2>2, <2>3
<1>6. preferences' \subseteq Accounts'
  BY <1>1, <1>2, <1>3, <1>4 DEF Rows, Accounts
<1> HIDE DEF row
<1> QED
  BY <1>1, <1>2, <1>4, <1>5, <1>6, RowWrite

LEMMA WriteKeeps ==
  ASSUME AInv, NEW r \in Requests, Write(r)
  PROVE  AInv'
<1>0. AParts /\ Rows /\ Lock /\ Remembers(cache)
  BY Parts DEF AParts
<1>1. \A at \in {"writing", "written"} : request[r].at = at => authWrite = r
  BY <1>0 DEF Lock, WritersAreCurrent
<1>2. CASE SaveAccountPreference(r)
  <2>1. request[r].at = "writing" /\ authWrite = r /\ snapshot = users
    BY <1>1, <1>2, WriterSees DEF SaveAccountPreference
  <2>2. Rows'
    <3>1. changes' \in 0 .. MaxChanges
      BY <1>0, <1>2, AccountsAssumption DEF Rows, SaveAccountPreference
    <3>2. preferences' \subseteq Accounts /\ UNCHANGED <<users, snapshot, closed>>
      BY <1>0, <1>2 DEF Rows, SaveAccountPreference
    <3> QED
      BY <1>0, <3>1, <3>2 DEF Rows, Accounts, Exists, SomeoneManages, Managers, SnapshotIsBehind
  <2>3. Remembers(cache)'
    BY <1>0, <1>2 DEF SaveAccountPreference, Remembers, Known, Principal, Accounts, Exists
  <2> QED
    BY <2>1, <2>2, <2>3, <1>2, TurnEnds DEF SaveAccountPreference
<1>3. CASE Refused(r)
  <2>1. request[r].at = "writing" /\ authWrite = r /\ snapshot = users
    BY <1>1, <1>3, WriterSees DEF Refused
  <2>2. Rows'
    BY <1>0, <1>3 DEF Rows, Refused, Accounts, Exists, SomeoneManages, Managers, SnapshotIsBehind
  <2>3. Remembers(cache)'
    BY <1>0, <1>3 DEF Refused, Remembers, Known, Principal, Accounts, Exists
  <2> QED
    BY <2>1, <2>2, <2>3, <1>3, TurnEnds DEF Refused
<1>4. CASE ReloadAuthSnapshot(r)
  <2>1. authWrite = r /\ UNCHANGED users /\ cache' = {} /\ authWrite' = Free /\ End(r)
    BY <1>1, <1>4 DEF ReloadAuthSnapshot
  <2>2. closed' \/ snapshot' = users'
    BY <1>4 DEF ReloadAuthSnapshot
  <2>3. Rows'
    BY <1>0, <1>4 DEF Rows, ReloadAuthSnapshot, Accounts, Exists, SomeoneManages, Managers, SnapshotIsBehind
  <2>4. Remembers(cache)'
    BY <2>1 DEF Remembers
  <2> QED
    BY <2>1, <2>2, <2>3, <2>4, TurnEnds
<1> QED
  BY <1>2, <1>3, <1>4, WithAuthWriteKeeps, UpdateUserAccessKeeps, CreateUserKeeps, UpdateUserPasswordKeeps,
     SetUserEnabledKeeps, DeleteUserKeeps DEF Write

-----------------------------------------------------------------------------
(* What holds in every state                                                *)

LEMMA InitHolds == Init => AInv
<1> SUFFICES ASSUME Init PROVE AParts
  BY Parts
<1>1. Rows
  <2>1. users \in [Ids -> Users \cup {NoUser, Gone}] /\ users \in Databases
    BY AccountsAssumption DEF Init
  <2>2. SomeoneManages
    BY <2>1, AccountsAssumption DEF SomeoneManages, Accounts
  <2>3. SnapshotIsBehind
    BY AccountsAssumption DEF Init, SnapshotIsBehind, Exists
  <2> QED
    <3>1. changes \in 0 .. MaxChanges
      BY AccountsAssumption DEF Init
    <3> QED
      BY <2>1, <2>2, <2>3, <3>1 DEF Init, Rows
<1>2. Lock
  BY AccountsAssumption DEF Init, Lock, SnapshotIsCurrent, WritersAreCurrent, Idle
<1>3. Remembers(cache)
  BY DEF Init, Remembers
<1> QED
  BY <1>1, <1>2, <1>3, IdleIsFine DEF Init, AParts

LEMMA RestartKeeps == AInv /\ Restart => AInv'
<1> SUFFICES ASSUME AInv, Restart PROVE AParts'
  BY PartsThen
<1>0. AParts /\ Rows
  BY Parts DEF AParts
<1>1. Rows'
  BY <1>0 DEF Restart, Rows, SomeoneManages, SnapshotIsBehind, Accounts, Exists, Managers
<1>2. Lock'
  BY AccountsAssumption DEF Restart, Lock, SnapshotIsCurrent, WritersAreCurrent, Idle
<1>3. Remembers(cache)'
  BY DEF Restart, Remembers
<1>4. Fine(Idle)'
  BY AccountsAssumption DEF Idle, Fine, Known
<1> QED
  BY <1>1, <1>2, <1>3, <1>4, IdleIsFine DEF Restart, AParts

LEMMA StepKeeps == AInv /\ [Next]_vars => AInv'
<1> SUFFICES ASSUME AInv, [Next]_vars PROVE AInv'
  OBVIOUS
<1>1. CASE UNCHANGED vars
  BY <1>1 DEF vars, AInv, TypeOK, SomeoneManages, SnapshotIsCurrent, SnapshotIsBehind, Known, Principal, Accounts, Exists,
     Managers, TargetsAreKnown, ChecksStillHold, MayStill, CanManageUser, WritersAreCurrent, Enabled, Current, Active, Credential
<1>2. CASE Restart
  BY <1>2, RestartKeeps
<1>3. ASSUME NEW r \in Requests, Admission(r) \/ Handler(r) \/ Write(r) PROVE AInv'
  BY <1>3, AdmissionKeeps, HandlerKeeps, WriteKeeps
<1> QED
  BY <1>1, <1>2, <1>3 DEF Next

(* Somebody who may manage accounts is always left, the snapshot is what    *)
(* the database has between changes, and a check made before the turn holds *)
(* in the turn as long as the account has the version it had at the check.  *)
THEOREM AccountsAreConsistent == Spec => []AInv
  BY InitHolds, StepKeeps, PTL DEF Spec

-----------------------------------------------------------------------------
(* What no step does                                                        *)

Enters(r) == request'[r].at = "admitted" /\ request[r].at # "admitted"

(* A request is let in by a session, by nobody being known, or after its    *)
(* password was compared.                                                   *)
LEMMA EntersBy ==
  ASSUME AInv, NEW r \in Requests, Enters(r), Next
  PROVE  (\E id \in Ids \cup Config : AuthSessionPrincipal(r, id)) \/ AdmitAnyone(r) \/ SetAuthSession(r)
<1>0. request \in [Requests -> Served]
  BY Parts DEF AParts
<1>1. ~Restart
  BY DEF Restart, Enters, Idle
<1>2. ASSUME NEW o \in Requests, NEW q, Becomes(o, q), q.at # "admitted" PROVE FALSE
  BY <1>0, <1>2 DEF Becomes, Enters
<1>3. ASSUME NEW o \in Requests, o # r, NEW q, Becomes(o, q) PROVE FALSE
  BY <1>0, <1>3 DEF Becomes, Enters
<1>4. ASSUME NEW o \in Requests, NEW at \in {"proven", "checked", "writing", "written"}, Step(o, at) PROVE FALSE
  <2>1. [request[o] EXCEPT !.at = at].at = at
    BY <1>0 DEF Served
  <2> QED
    BY <1>2, <1>4, <2>1 DEF Step
<1>5. ASSUME NEW o \in Requests, End(o) PROVE FALSE
  BY <1>2, <1>5 DEF End, Idle
<1>6. ASSUME NEW o \in Requests, Handler(o) PROVE FALSE
  <2>1. \A id, v, s : [request[o] EXCEPT !.at = "checked", !.target = id, !.version = v, !.seen = s].at # "admitted"
    BY <1>0 DEF Served
  <2> QED
    BY <1>2, <1>4, <1>5, <1>6, <2>1 DEF Handler, EditableUser, OwnAccount, NewUser, Leave
<1>7. ASSUME NEW o \in Requests, Write(o) PROVE FALSE
  BY <1>4, <1>5, <1>7 DEF Write, WithAuthWrite, UpdateUserAccess, CreateUser, UpdateUserPassword, SetUserEnabled,
     DeleteUser, Writes, SaveAccountPreference, Refused, ReloadAuthSnapshot
<1>8. ASSUME NEW o \in Requests, Admission(o)
      PROVE  (\E id \in Ids \cup Config : AuthSessionPrincipal(r, id)) \/ AdmitAnyone(r) \/ SetAuthSession(r)
  <2>1. ~Compare(o)
    BY <1>4, <1>5 DEF Compare
  <2>2. \A id \in Ids \cup Config, p \in Passwords : ~Attempt(o, id, p)
    <3>1. \A w, p : [request[o] EXCEPT !.at = "proven", !.who = w, !.password = p].at # "admitted"
      BY <1>0 DEF Served
    <3>2. \A w, p : [request[o] EXCEPT !.at = "compare", !.who = w, !.password = p].at # "admitted"
      BY <1>0 DEF Served
    <3> QED
      BY <1>2, <3>1, <3>2 DEF Attempt
  <2>3. CASE o = r
    BY <1>8, <2>1, <2>2, <2>3 DEF Admission
  <2>4. CASE o # r
    <3>1. \E q : Becomes(o, q)
      BY <1>8, <2>1, <2>2 DEF Admission, AuthSessionPrincipal, AdmitAnyone, SetAuthSession, End
    <3> QED
      BY <2>4, <3>1, <1>3
  <2> QED
    BY <2>3, <2>4
<1> QED
  BY <1>1, <1>6, <1>7, <1>8 DEF Next

(* Who is current, as far as the published rows are the rows, is the        *)
(* account as it is.                                                        *)
LEMMA CurrentIsNow ==
  ASSUME AInv, NEW who \in Principals, Known(who), Current(who), who.id \in Ids, snapshot = users
  PROVE  who = Principal(who.id) /\ users[who.id].on
<1>0. Rows
  BY Parts DEF AParts
<1>1. who # Nobody /\ who.id \notin Config
  BY AccountsAssumption DEF Nobody
<1>2. Exists(users[who.id]) /\ users[who.id].on
  BY <1>1 DEF Current, Active
<1>3. who.id \in Accounts /\ users[who.id].session \in Nat
  BY <1>0, <1>2 DEF Accounts, Rows, Exists, Users
<1>4. who.session = users[who.id].session
  BY <1>1 DEF Current, Credential
<1>5. who.session < users[who.id].session \/ who = Principal(who.id)
  BY <1>1, <1>3 DEF Known
<1> QED
  BY <1>2, <1>3, <1>4, <1>5

LEMMA RevokedStep ==
  ASSUME AInv, Next, NEW r \in Requests, Enters(r), request'[r].who.id \in Ids, snapshot = users
  PROVE  request'[r].who = Principal(request'[r].who.id)
<1>0. request \in [Requests -> Served] /\ Fine(request[r]) /\ request[r].who \in Principals
  <2>1. request \in [Requests -> Served] /\ Fine(request[r])
    BY Parts DEF AParts
  <2> QED
    BY <2>1 DEF Served
<1>1. ASSUME NEW id \in Ids \cup Config, AuthSessionPrincipal(r, id)
      PROVE  request'[r].who = Principal(request'[r].who.id)
  <2>1. request'[r].who = Credential(id) /\ Active(id)
    BY <1>0, <1>1 DEF AuthSessionPrincipal, Becomes, Served
  <2>2. Credential(id) \in Principals /\ Known(Credential(id)) /\ Credential(id).id = id
    BY <2>1, CredentialKnown
  <2>3. Current(Credential(id))
    BY <2>1, <2>2 DEF Current
  <2> QED
    BY <2>1, <2>2, <2>3, CurrentIsNow
<1>2. ~AdmitAnyone(r)
  <2>1. AdmitAnyone(r) => request'[r].who = Nobody
    BY <1>0 DEF AdmitAnyone, Becomes, Served
  <2>2. Nobody.id \notin Ids
    BY AccountsAssumption DEF Nobody
  <2> QED
    BY <2>1, <2>2
<1>3. CASE SetAuthSession(r)
  <2>1. ~End(r)
    BY <1>0 DEF End, Becomes, Idle, Enters
  <2>2. Current(request[r].who) /\ request'[r].who = request[r].who
    BY <1>0, <1>3, <2>1 DEF SetAuthSession, Becomes, Served
  <2> QED
    BY <1>0, <2>2, CurrentIsNow DEF Fine
<1> QED
  BY <1>1, <1>2, <1>3, EntersBy

(* No session and no remembered password of an earlier version lets anybody *)
(* in once the change is published.                                         *)
THEOREM RevokedStaysOutHolds == Spec => RevokedStaysOut
<1>1. AInv /\ [Next]_vars => [\A r \in Requests :
         (request'[r].at = "admitted" /\ request[r].at # "admitted" /\ request'[r].who.id \in Ids /\ snapshot = users)
            => request'[r].who = Principal(request'[r].who.id)]_vars
  BY RevokedStep DEF Enters
<1> QED
  BY <1>1, AccountsAreConsistent, PTL DEF Spec, RevokedStaysOut

(* A row is changed in a turn, as far as it was an account the one that the *)
(* turn was asked for, at the version that was asked for.                   *)
LEMMA ChangesTarget ==
  ASSUME AInv, Next, users' # users
  PROVE  \E r \in Requests :
            /\ request[r].at = "writing"
            /\ \A id \in Accounts : users'[id] # users[id] => request[r].target = id /\ request[r].version = users[id].row
<1>0. users \in [Ids -> Users \cup {NoUser, Gone}]
  BY Parts DEF AParts, Rows
<1>1. ASSUME NEW r \in Requests, Writes(r), NEW id, NEW row, users' = [users EXCEPT ![id] = row],
             id \in Accounts => request[r].target = id /\ request[r].version = users[id].row
      PROVE  /\ request[r].at = "writing"
             /\ \A i \in Accounts : users'[i] # users[i] => request[r].target = i /\ request[r].version = users[i].row
  BY <1>0, <1>1 DEF Writes, Accounts
<1>2. ASSUME NEW r \in Requests, Expected(r), Writes(r), NEW row, users' = [users EXCEPT ![request[r].target] = row]
      PROVE  /\ request[r].at = "writing"
             /\ \A i \in Accounts : users'[i] # users[i] => request[r].target = i /\ request[r].version = users[i].row
  BY <1>1, <1>2 DEF Expected
<1>3. PICK r \in Requests : Write(r)
  BY DEF Next, Restart, Admission, Handler, AuthSessionPrincipal, Attempt, AdmitAnyone, Compare, SetAuthSession,
     EditableUser, OwnAccount, NewUser, Leave, OnlyRequests
<1>4. \/ \E access \in Accesses : UpdateUserAccess(r, access) \/ \E p \in Passwords : CreateUser(r, access, p)
      \/ \E p \in Passwords : UpdateUserPassword(r, p)
      \/ \E on \in BOOLEAN : SetUserEnabled(r, on)
      \/ DeleteUser(r)
  BY <1>3 DEF Write, WithAuthWrite, SaveAccountPreference, Refused, ReloadAuthSnapshot
<1>5. CASE \E access \in Accesses, p \in Passwords : CreateUser(r, access, p)
  <2>0. PICK id \in Ids : \E row : users[id] = NoUser /\ users' = [users EXCEPT ![id] = row] /\ Writes(r)
    BY <1>5 DEF CreateUser
  <2>1. PICK row : users[id] = NoUser /\ users' = [users EXCEPT ![id] = row] /\ Writes(r)
    BY <2>0
  <2>2. id \notin Accounts
    BY <2>1 DEF Accounts, Exists
  <2> QED
    BY <2>1, <2>2, <1>1
<1>6. CASE DeleteUser(r)
  BY <1>2, <1>6 DEF DeleteUser
<1>7. CASE \E access \in Accesses : UpdateUserAccess(r, access)
  BY <1>2, <1>7 DEF UpdateUserAccess, Changed
<1>8. CASE \E p \in Passwords : UpdateUserPassword(r, p)
  BY <1>2, <1>8 DEF UpdateUserPassword, Changed
<1>9. CASE \E on \in BOOLEAN : SetUserEnabled(r, on)
  BY <1>2, <1>9 DEF SetUserEnabled, Changed
<1> QED
  BY <1>4, <1>5, <1>6, <1>7, <1>8, <1>9

LEMMA RightsStep ==
  ASSUME AInv, Next, users' # users
  PROVE  \E r \in Requests :
            LET who == request[r].who
            IN  /\ authWrite = r
                /\ IF who = Nobody THEN Accounts = {}
                   ELSE who.id \in Ids => who = Principal(who.id) /\ users[who.id].on
                /\ \A id \in Accounts :
                      users'[id] # users[id] /\ who.id # id /\ request[r].version <= request[r].seen
                         => CanManageUser(who, id)
<1>1. PICK r \in Requests :
        /\ request[r].at = "writing"
        /\ \A id \in Accounts : users'[id] # users[id] => request[r].target = id /\ request[r].version = users[id].row
  BY ChangesTarget
<1> DEFINE who == request[r].who
<1>2. AParts /\ Rows /\ Lock /\ Fine(request[r]) /\ request[r] \in Served /\ who \in Principals
  <2>1. AParts /\ Rows /\ Lock /\ Fine(request[r]) /\ request[r] \in Served
    BY Parts DEF AParts
  <2> QED
    BY <2>1 DEF Served
<1>3. authWrite = r /\ snapshot = users
  BY <1>1, WriterSees
<1>4. IF who = Nobody THEN ~Enabled ELSE Current(who)
  BY <1>1, <1>2 DEF Lock, WritersAreCurrent
<1>5. CASE who = Nobody
  <2>1. Accounts = {}
    BY <1>3, <1>4, <1>5 DEF Enabled, Accounts
  <2> QED
    BY <1>3, <1>5, <2>1
<1>6. CASE who # Nobody
  <2>1. who.id \in Ids => who = Principal(who.id) /\ users[who.id].on
    BY <1>2, <1>3, <1>4, <1>6, CurrentIsNow DEF Fine
  <2>2. ASSUME NEW id \in Accounts, users'[id] # users[id], who.id # id,
               request[r].version <= request[r].seen
        PROVE  CanManageUser(who, id)
    <3>1. request[r].target = id /\ request[r].version = users[id].row
      BY <1>1, <2>2
    <3>2. users[id].row \in Nat /\ request[r].seen \in Nat
      BY <1>2 DEF Accounts, Rows, Exists, Users, Served
    <3>3. MayStill(who, id, request[r].seen)
      BY <1>1, <1>2, <3>1 DEF Fine
    <3>4. request[r].seen = users[id].row
      BY <2>2, <3>1, <3>2, <3>3 DEF MayStill
    <3> QED
      BY <2>2, <3>2, <3>3, <3>4 DEF MayStill
  <2> QED
    BY <1>3, <1>6, <2>1, <2>2
<1> QED
  BY <1>5, <1>6

(* An account is changed by a principal that is current when this happens,  *)
(* and only if it may manage the account as it is then, provided the form   *)
(* does not name a version that the account had not reached at the check.   *)
THEOREM ActsWithinRightsHolds == Spec => ActsWithinRights
<1>1. AInv /\ [Next]_vars =>
        [users' # users =>
           \E r \in Requests :
              LET who == request[r].who
              IN  /\ authWrite = r
                  /\ IF who = Nobody THEN Accounts = {}
                     ELSE who.id \in Ids => who = Principal(who.id) /\ users[who.id].on
                  /\ \A id \in Accounts :
                        users'[id] # users[id] /\ who.id # id /\ request[r].version <= request[r].seen
                           => CanManageUser(who, id)]_vars
  BY RightsStep
<1> QED
  BY <1>1, AccountsAreConsistent, PTL DEF Spec, ActsWithinRights
=============================================================================
