------------------------------- MODULE Accounts --------------------------------
(***************************************************************************)
(* Accounts: the users table, which requests change one at a time, and the *)
(* snapshot of it in memory by which every request is let in.  A session   *)
(* names the version of the account it was made for; a password that was   *)
(* checked is remembered for a while.  What a request may change follows   *)
(* from the rights it came in with and from rows it read before its turn.  *)
(***************************************************************************)
EXTENDS Integers, FiniteSets

CONSTANTS
    Ids,        \* ids of accounts in the database, numbers from 1
    Config,     \* accounts of the configuration, which never change
    Rights,     \* what an account may be allowed to do
    UsersManage,\* the right to manage accounts
    Accesses,   \* roles with additional permissions: records of admin, rights
    ConfigAccess, \* the access of the accounts of the configuration
    Passwords,
    Requests,   \* goroutines that serve requests
    Databases,  \* what an earlier process may have left
    MaxChanges, \* bound: changes of users and preferences
    Versions,   \* bound: versions that a form may name, of now, before or ahead
    NoUser, Gone, NoOne, Free

VARIABLES
    users,      \* rows of users, with their permissions
    preferences,\* accounts with a row in account_preferences
    snapshot,   \* authState.snapshot: the rows as they were loaded last
    closed,     \* the snapshot that publishAuthFailClosed puts in its place
    cache,      \* authState.cache: principals whose password was checked
    authWrite,  \* who holds authWriteMu
    request,
    changes     \* how many were made

vars == <<users, preferences, snapshot, closed, cache, authWrite, request, changes>>
MaxVersion == MaxChanges + 1

Users == [access : Accesses, on : BOOLEAN, password : Passwords, row : Nat \ {0}, session : Nat \ {0}]
Exists(row) == row \notin {NoUser, Gone}
Accounts == {i \in Ids : Exists(users[i])}
Manages(access) == UsersManage \in access.rights
\* Accounts of the database that are enabled and may manage accounts.
Managers(db) == {i \in Ids : Exists(db[i]) /\ db[i].on /\ Manages(db[i].access)}
ConfigManagers == {c \in Config : Manages(ConfigAccess[c])}

ASSUME AccountsAssumption ==
    /\ Ids \subseteq Nat \ {0} /\ IsFiniteSet(Ids) /\ Ids \cap Config = {} /\ NoOne \notin Ids \cup Config
    /\ UsersManage \in Rights /\ Accesses \subseteq [admin : BOOLEAN, rights : SUBSET Rights]
    /\ \A a \in Accesses : a.rights # {} /\ (a.admin => a.rights = Rights)
    /\ ConfigAccess \in [Config -> Accesses]
    /\ Free \notin Requests /\ NoUser # Gone /\ MaxChanges \in Nat /\ Versions \subseteq Nat \ {0}
    /\ NoUser \notin Users /\ Gone \notin Users
    /\ Databases \subseteq [Ids -> Users \cup {NoUser, Gone}]
    /\ \A db \in Databases : (\E i \in Ids : Exists(db[i])) => Managers(db) # {} \/ ConfigManagers # {}

Nobody == [id |-> NoOne, session |-> 0]
Idle == [at |-> "idle", who |-> Nobody, password |-> NoOne, target |-> NoOne, version |-> 0, seen |-> 0]

Init ==
    /\ users \in Databases
    /\ preferences = {}
    /\ snapshot = users /\ closed = FALSE
    /\ cache = {}
    /\ authWrite = Free
    /\ request = [r \in Requests |-> Idle]
    /\ changes = 0

-----------------------------------------------------------------------------
(* Who is let in                                                            *)

Enabled == closed \/ Config # {} \/ \E i \in Ids : Exists(snapshot[i])

\* The principal of an account, as the snapshot has it.
Credential(id) == IF id \in Config THEN [id |-> id, session |-> 0, access |-> ConfigAccess[id]]
                  ELSE [id |-> id, session |-> snapshot[id].session, access |-> snapshot[id].access]
Active(id) == ~closed /\ (id \in Config \/ (id \in Ids /\ Exists(snapshot[id]) /\ snapshot[id].on))
\* Variant: the version of the account is not compared.
Current_AnySession(who) == Active(who.id)

Current(who) == Active(who.id) /\ Credential(who.id).session = who.session

Becomes(r, q) == request' = [request EXCEPT ![r] = q]
Step(r, at) == Becomes(r, [request[r] EXCEPT !.at = at])
End(r) == Becomes(r, Idle)
OnlyRequests == UNCHANGED <<users, preferences, snapshot, closed, cache, authWrite, changes>>

\* A cookie of any session that the account ever had.
AuthSessionPrincipal(r, id) ==
    /\ request[r].at = "idle" /\ Active(id)
    /\ \E session \in 0 .. MaxVersion :
          /\ Current([id |-> id, session |-> session])
          /\ Becomes(r, [request[r] EXCEPT !.at = "admitted", !.who = Credential(id)])
    /\ OnlyRequests

\* Before there is any account everybody on this machine is let in.
AdmitAnyone(r) ==
    /\ request[r].at = "idle" /\ ~Enabled
    /\ Becomes(r, [request[r] EXCEPT !.at = "admitted", !.who = Nobody])
    /\ OnlyRequests

\* authBasicCacheKey
CacheHits(id, password) ==
    {e \in cache : e.who.id = id /\ e.who.session = Credential(id).session /\ e.password = password}

\* authenticateBasicCheck, the right password for the account as it is now:
\* remembered, or still to be compared.
Attempt(r, id, password) ==
    /\ request[r].at = "idle" /\ Active(id)
    /\ \/ \E e \in CacheHits(id, password) :
             Becomes(r, [request[r] EXCEPT !.at = "proven", !.who = e.who, !.password = password])
       \/ /\ CacheHits(id, password) = {}
          /\ id \in Ids => snapshot[id].password = password
          /\ Becomes(r, [request[r] EXCEPT !.at = "compare", !.who = Credential(id), !.password = password])
    /\ OnlyRequests

\* bcrypt takes its time; the account must not have changed meanwhile.
Compare(r) ==
    /\ request[r].at = "compare"
    /\ IF Current(request[r].who) THEN Step(r, "proven") ELSE End(r)
    /\ OnlyRequests

\* The password is remembered, late as this may be, then a session is made.
SetAuthSession(r) ==
    /\ request[r].at = "proven"
    /\ cache' = cache \cup {[who |-> request[r].who, password |-> request[r].password]}
    /\ IF Current(request[r].who) THEN Becomes(r, [request[r] EXCEPT !.at = "admitted", !.password = NoOne]) ELSE End(r)
    /\ UNCHANGED <<users, preferences, snapshot, closed, authWrite, changes>>

-----------------------------------------------------------------------------
(* What a request may do                                                    *)

CanManageUser(actor, id) ==
    /\ actor.id # id
    /\ \/ actor.access.admin
       \/ /\ ~users[id].access.admin /\ ~Manages(users[id].access)
          /\ users[id].access.rights \subseteq actor.access.rights
MayDelegate(actor, access) ==
    \/ actor.access.admin
    \/ ~access.admin /\ ~Manages(access) /\ access.rights \subseteq actor.access.rights
CanCreateUser(actor) == actor.access.admin \/ actor.access.rights \ {UsersManage} # {}

\* editableUserFromRequest: the row as it is now; the version is the number
\* that the form sends, which nobody compares before the turn of the request.
EditableUser(r, id) ==
    LET who == request[r].who
    IN  /\ request[r].at = "admitted" /\ who # Nobody /\ Manages(who.access)
        /\ Exists(users[id]) /\ CanManageUser(who, id)
        /\ \E version \in Versions :
              Becomes(r, [request[r] EXCEPT !.at = "checked", !.target = id, !.version = version, !.seen = users[id].row])
        /\ OnlyRequests

\* One's own password, or one's own preference.
OwnAccount(r) ==
    LET who == request[r].who
    IN  /\ request[r].at = "admitted" /\ who.id \in Ids /\ Exists(users[who.id])
        /\ Becomes(r, [request[r] EXCEPT !.at = "checked", !.target = who.id,
                                          !.version = users[who.id].row, !.seen = users[who.id].row])
        /\ OnlyRequests

\* userBootstrapAllowed, or an account that may make others.
NewUser(r) ==
    LET who == request[r].who
    IN  /\ request[r].at = "admitted"
        /\ IF who = Nobody THEN Accounts = {} /\ Config = {} ELSE Manages(who.access) /\ CanCreateUser(who)
        /\ Step(r, "checked")
        /\ OnlyRequests

Leave(r) == request[r].at \in {"admitted", "checked"} /\ End(r) /\ OnlyRequests

-----------------------------------------------------------------------------
(* Changes, one at a time                                                   *)

\* withAuthWrite: under the lock the principal must still be current.
WithAuthWrite(r) ==
    LET who == request[r].who
    IN  /\ request[r].at = "checked" /\ authWrite = Free
        /\ IF IF who = Nobody THEN ~Enabled ELSE Current(who)
           THEN Step(r, "writing") /\ authWrite' = r
           ELSE End(r) /\ UNCHANGED authWrite
        /\ UNCHANGED <<users, preferences, snapshot, closed, cache, changes>>

Writes(r) == /\ request[r].at = "writing" /\ changes < MaxChanges
             /\ changes' = changes + 1
             /\ Step(r, "written")
             /\ UNCHANGED <<snapshot, closed, cache, authWrite>>

\* ensureAnotherActiveUserManager
AnotherManager(id) == ConfigManagers # {} \/ Managers(users) \ {id} # {}
IsManager(id) == id \in Managers(users)

\* Variant: the version of the form is not compared.
Expected_Any(r) == request[r].target \in Accounts
\* userWithExpectedVersion
Expected(r) == request[r].target \in Accounts /\ users[request[r].target].row = request[r].version

Changed(id, row) == users' = [users EXCEPT ![id] = [row EXCEPT !.row = @ + 1, !.session = @ + 1]]
Others(r) == request[r].who.id # request[r].target

\* Bootstrap makes an administrator; ids are never given twice.
CreateUser(r, access, password) ==
    LET who == request[r].who
    IN  /\ request[r].target = NoOne
        /\ IF who = Nobody THEN access.admin ELSE MayDelegate(who, access)
        /\ \E id \in Ids :
              /\ users[id] = NoUser /\ \A j \in Ids : users[j] = NoUser => id <= j
              /\ users' = [users EXCEPT ![id] = [access |-> access, on |-> TRUE, password |-> password, row |-> 1, session |-> 1]]
        /\ Writes(r) /\ UNCHANGED preferences

UpdateUserAccess(r, access) ==
    LET id == request[r].target
    IN  /\ Others(r) /\ Expected(r) /\ MayDelegate(request[r].who, access)
        /\ IsManager(id) /\ ~Manages(access) => AnotherManager(id)
        /\ Changed(id, [users[id] EXCEPT !.access = access])
        /\ Writes(r) /\ UNCHANGED preferences

UpdateUserPassword(r, password) ==
    LET id == request[r].target
    IN  /\ Expected(r)
        /\ Changed(id, [users[id] EXCEPT !.password = password])
        /\ Writes(r) /\ UNCHANGED preferences

SetUserEnabled(r, on) ==
    LET id == request[r].target
    IN  /\ Others(r) /\ Expected(r)
        /\ IsManager(id) /\ ~on => AnotherManager(id)
        /\ Changed(id, [users[id] EXCEPT !.on = on])
        /\ Writes(r) /\ UNCHANGED preferences

DeleteUser(r) ==
    LET id == request[r].target
    IN  /\ Others(r) /\ Expected(r)
        /\ IsManager(id) => AnotherManager(id)
        /\ users' = [users EXCEPT ![id] = Gone]
        /\ preferences' = preferences \ {id}
        /\ Writes(r)

\* saveAccountPreference; the snapshot of the accounts stays as it is.
SaveAccountPreference(r) ==
    LET id == request[r].target
    IN  /\ request[r].at = "writing" /\ id \in Accounts /\ id \notin preferences
        /\ changes < MaxChanges /\ changes' = changes + 1
        /\ Others(r) => CanManageUser(request[r].who, id)
        /\ preferences' = preferences \cup {id}
        /\ authWrite' = Free /\ End(r)
        /\ UNCHANGED <<users, snapshot, closed, cache>>

\* A conflict, the last manager, an error of the database.
Refused(r) ==
    /\ request[r].at = "writing"
    /\ authWrite' = Free /\ End(r)
    /\ UNCHANGED <<users, preferences, snapshot, closed, cache, changes>>

\* Variant: the client has gone, and with it the context of the reload.
ReloadAuthSnapshot_Canceled(r) ==
    /\ request[r].at = "written"
    /\ UNCHANGED <<snapshot, closed>> \/ (snapshot' = users /\ closed' = FALSE)
    /\ cache' = {}
    /\ authWrite' = Free /\ End(r)
    /\ UNCHANGED <<users, preferences, changes>>

\* The committed rows are published, also when the client has gone, or nobody
\* is let in any more.
ReloadAuthSnapshot(r) ==
    /\ request[r].at = "written"
    /\ \/ snapshot' = users /\ closed' = FALSE
       \/ closed' = TRUE /\ UNCHANGED snapshot
    /\ cache' = {}
    /\ authWrite' = Free /\ End(r)
    /\ UNCHANGED <<users, preferences, changes>>

\* The process ends anywhere and starts again.
Restart ==
    /\ snapshot' = users /\ closed' = FALSE
    /\ cache' = {}
    /\ authWrite' = Free
    /\ request' = [r \in Requests |-> Idle]
    /\ UNCHANGED <<users, preferences, changes>>

Admission(r) ==
    \/ \E id \in Ids \cup Config : AuthSessionPrincipal(r, id) \/ \E p \in Passwords : Attempt(r, id, p)
    \/ AdmitAnyone(r) \/ Compare(r) \/ SetAuthSession(r)
Handler(r) ==
    \/ \E id \in Ids : EditableUser(r, id)
    \/ OwnAccount(r) \/ NewUser(r) \/ Leave(r)
Write(r) ==
    \/ WithAuthWrite(r)
    \/ \E access \in Accesses : UpdateUserAccess(r, access) \/ \E p \in Passwords : CreateUser(r, access, p)
    \/ \E p \in Passwords : UpdateUserPassword(r, p)
    \/ \E on \in BOOLEAN : SetUserEnabled(r, on)
    \/ DeleteUser(r) \/ SaveAccountPreference(r) \/ Refused(r) \/ ReloadAuthSnapshot(r)

Next == (\E r \in Requests : Admission(r) \/ Handler(r) \/ Write(r)) \/ Restart

Spec == Init /\ [][Next]_vars

-----------------------------------------------------------------------------
Principals == {Nobody} \cup [id : Ids \cup Config, session : Nat, access : Accesses]
Served == [at : {"idle", "compare", "proven", "admitted", "checked", "writing", "written"},
           who : Principals, password : Passwords \cup {NoOne}, target : Ids \cup {NoOne}, version : Nat, seen : Nat]

TypeOK ==
    /\ users \in [Ids -> Users \cup {NoUser, Gone}]
    /\ preferences \subseteq Ids
    /\ snapshot \in [Ids -> Users \cup {NoUser, Gone}] /\ closed \in BOOLEAN
    /\ cache \subseteq [who : Principals, password : Passwords]
    /\ authWrite \in Requests \cup {Free} /\ changes \in 0 .. MaxChanges
    /\ request \in [Requests -> Served]
    /\ \A r \in Requests : request[r].at \in {"compare", "proven"} => request[r].password \in Passwords

Principal(id) == [id |-> id, session |-> users[id].session, access |-> users[id].access]

(* While there are accounts, one that is enabled may manage the others, in  *)
(* the database or in the configuration, whatever two managers do at once.  *)
SomeoneManages == Accounts # {} => Managers(users) # {} \/ ConfigManagers # {}

(* Between changes the snapshot is what the database has; during a change   *)
(* it differs only until the lock is given back.  Or nobody is let in.      *)
SnapshotIsCurrent == closed \/ snapshot = users \/ \E r \in Requests : authWrite = r /\ request[r].at = "written"

\* A principal is the account as it is, or as it was before.
Known(who) ==
    \/ who = Nobody
    \/ who.id \in Config /\ who.access = ConfigAccess[who.id]
    \/ /\ who.id \in Ids /\ users[who.id] # NoUser
       /\ who.id \in Accounts => who.session < users[who.id].session \/ who = Principal(who.id)

\* So is every row of the snapshot.
SnapshotIsBehind ==
    \A i \in Ids : Exists(snapshot[i]) =>
       /\ users[i] # NoUser
       /\ i \in Accounts => snapshot[i].session < users[i].session \/ snapshot[i] = users[i]

\* What a request was allowed to do when it saw version seen of the account,
\* it is allowed as long as the account has that version.
MayStill(who, id, seen) ==
    /\ id \in Accounts /\ id # who.id => seen < users[id].row \/ (who # Nobody /\ CanManageUser(who, id))
    /\ id \in Accounts => seen <= users[id].row
    /\ id = NoOne /\ who # Nobody => Manages(who.access)
ChecksStillHold ==
    \A r \in Requests : request[r].at \in {"checked", "writing"} =>
       MayStill(request[r].who, request[r].target, request[r].seen)

\* What a request is about has been an account; before it is checked, none.
TargetsAreKnown ==
    \A r \in Requests :
       /\ request[r].target \in Ids => users[request[r].target] # NoUser
       /\ request[r].at \notin {"checked", "writing", "written"} => request[r].target = NoOne

\* Who writes holds the lock and is current.
WritersAreCurrent ==
    \A r \in Requests :
       /\ authWrite = r <=> request[r].at \in {"writing", "written"}
       /\ request[r].at = "writing" => IF request[r].who = Nobody THEN ~Enabled ELSE Current(request[r].who)

AInv ==
    /\ TypeOK
    /\ SomeoneManages /\ SnapshotIsCurrent /\ SnapshotIsBehind
    /\ \A r \in Requests : Known(request[r].who)
    /\ \A e \in cache : Known(e.who)
    /\ TargetsAreKnown /\ ChecksStillHold /\ WritersAreCurrent
    /\ preferences \subseteq Accounts

(* No session and no remembered password of an earlier version lets anybody *)
(* in, once the change is published: who is let in has the rights of now.   *)
RevokedStaysOut ==
    [][\A r \in Requests :
         (request'[r].at = "admitted" /\ request[r].at # "admitted" /\ request'[r].who.id \in Ids /\ snapshot = users)
            => request'[r].who = Principal(request'[r].who.id)]_vars

(* An account is changed by a principal that is current when this happens,  *)
(* and only if it may manage the account as it is then, provided that the   *)
(* form names a version that the account had had when the request looked at *)
(* it, as every form does that shows what it read.  (A form with a version  *)
(* ahead meets the account after a change nobody asked about again.)  The   *)
(* first account is made while there is no other.                           *)
ActsWithinRights ==
    [][users' # users =>
         \E r \in Requests :
            LET who == request[r].who
            IN  /\ authWrite = r
                /\ IF who = Nobody THEN Accounts = {}
                   ELSE who.id \in Ids => who = Principal(who.id) /\ users[who.id].on
                /\ \A id \in Accounts :
                      users'[id] # users[id] /\ who.id # id /\ request[r].version <= request[r].seen
                         => CanManageUser(who, id)]_vars
=============================================================================
