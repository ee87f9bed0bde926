------------------------------ MODULE Accounts ------------------------------
(***************************************************************************)
(* Accounts and sessions: internal/auth over the tables user and session   *)
(* of internal/storage, called by the handlers of internal/server.         *)
(*                                                                         *)
(* A handler is a sequence of database statements and anything may run     *)
(* between two of them: hashing a password takes longer than most          *)
(* requests.  A password is abstracted to the account it was chosen for;   *)
(* one presented at a login is right or wrong.  Names and passwords that   *)
(* CreateUser or SetPassword refuse (empty, too long, too short) change    *)
(* nothing and are left out.                                               *)
(***************************************************************************)
EXTENDS Integers, Sequences, FiniteSets

CONSTANTS
  Username,   \* names an account may have
  Caller,     \* requests that may be under way at once
  Starting,   \* accounts an earlier run may have left, as sequences of names
  SessionTTL,
  MaxEvents   \* bound: requests that change something, failures, restarts and ticks

ASSUME AccountsAssumption ==
  /\ SessionTTL \in Nat \ {0} /\ MaxEvents \in Nat
  /\ \A names \in Starting :
       /\ Len(names) \in Nat /\ names \in [1..Len(names) -> Username]
       /\ \A i, j \in DOMAIN names : names[i] = names[j] => i = j

VARIABLES
  user,       \* table user: [id, name, born, password], born a ghost
  session,    \* table session: [token, user, expires, born], born a ghost
  created,    \* accounts created so far
  issued,     \* tokens issued so far
  call,       \* [Caller -> the handler's state: [op, step, name, id, born]]
  clock,
  overlapped, \* ghost: an account was deleted while the deletion of another one
              \* had already counted the accounts
  events      \* requests, failures, restarts and ticks so far

accountVars == <<user, session, created, issued, call, clock, overlapped>>

NoCall == [op |-> "none", step |-> "idle", name |-> "", id |-> 0, born |-> 0]
Spent == events < MaxEvents /\ events' = events + 1
Ids == {u.id : u \in user}

---------------------------------------------------------------------------
(* The tables.                                                             *)

(* Seeded fault: without AUTOINCREMENT an id is one more than the largest  *)
(* in use.                                                                 *)
LargestIdPlusOne == 1 + CHOOSE m \in Ids \cup {0} : \A i \in Ids : i <= m
(* AUTOINCREMENT: an id is given out once. *)
NextId == created + 1

(* Seeded fault: no UNIQUE constraint. *)
NeverTaken(name) == FALSE
Taken(name) == \E u \in user : u.name = name
CreateUser(name) ==
  /\ user' = user \cup {[id |-> NextId, name |-> name, born |-> created + 1, password |-> created + 1]}
  /\ created' = created + 1

UserByUsername(name) == {u \in user : u.name = name}
UserCount == Cardinality(user)
DeleteUser(id) == user' = {u \in user : u.id # id}
DeleteSessionsForUser(id) == session' = {s \in session : s.user # id}
UpdateUserPassword(id, born) ==
  user' = {IF u.id = id THEN [u EXCEPT !.password = born] ELSE u : u \in user}

CreateSession(id, born) ==
  /\ session' = session \cup {[token |-> issued + 1, user |-> id,
                             expires |-> clock + SessionTTL, born |-> born]}
  /\ issued' = issued + 1
SessionUser(token) ==
  {u \in user : \E s \in session : s.token = token /\ s.user = u.id /\ s.expires > clock}
DeleteSession(token) == session' = {s \in session : s.token # token}
(* Seeded fault: the time of the login is compared. *)
PruneIdleSessions == session' = {s \in session : s.expires - SessionTTL >= clock}
PruneSessions == session' = {s \in session : s.expires >= clock}

---------------------------------------------------------------------------
(* The handlers.                                                           *)

Begin(c, op, step, name) ==
  /\ call[c].step = "idle"
  /\ Spent
  /\ call' = [call EXCEPT ![c] = [op |-> op, step |-> step, name |-> name, id |-> 0, born |-> 0]]
  /\ UNCHANGED <<user, session, created, issued, clock, overlapped>>
At(c, step) == call[c].step = step
(* It goes on with the account it has found or created. *)
Continue(c, step, id, born) ==
  call' = [call EXCEPT ![c] = [op |-> call[c].op, step |-> step, name |-> call[c].name,
                               id |-> id, born |-> born]]
Goto(c, step) == Continue(c, step, call[c].id, call[c].born)
Return(c) == call' = [call EXCEPT ![c] = NoCall]

(* requireAuth: the session of the request is that of a user. *)
requireAuth == \E s \in session : SessionUser(s.token) # {}

(* handleAuthInit: is there no account yet? *)
handleAuthInit(c, name) == user = {} /\ Begin(c, "init", "insert", name)
(* handleAuthLogin with the right password: the account is looked up. *)
handleAuthLogin(c, name) == Begin(c, "login", "lookup", name)
handleCreateUser(c, name) == requireAuth /\ Begin(c, "create", "insert", name)
handleDeleteUser(c, name) == requireAuth /\ Begin(c, "delete", "lookup", name)
handleSetUserPassword(c, name) == requireAuth /\ Begin(c, "password", "lookup", name)

handleAuthLogout(token) ==
  /\ \E s \in session : s.token = token
  /\ DeleteSession(token)
  /\ Spent
  /\ UNCHANGED <<user, created, issued, call, clock, overlapped>>

(* The INSERT of a first or a further account, unless the name is taken;   *)
(* the first one gets a session as well.                                   *)
Insert(c) ==
  /\ At(c, "insert")
  /\ IF Taken(call[c].name) THEN Return(c) /\ UNCHANGED <<user, created>>
     ELSE /\ CreateUser(call[c].name)
          /\ IF call[c].op = "create" THEN Return(c)
             ELSE Continue(c, "session", NextId, created + 1)
  /\ UNCHANGED <<session, issued, clock, overlapped, events>>

AfterLookup == [login |-> "session", delete |-> "count", password |-> "update"]
Lookup(c) ==
  /\ At(c, "lookup")
  /\ IF UserByUsername(call[c].name) = {} THEN Return(c)
     ELSE \E u \in UserByUsername(call[c].name) : Continue(c, AfterLookup[call[c].op], u.id, u.born)
  /\ UNCHANGED <<user, session, created, issued, clock, overlapped, events>>

newSession(c) ==
  /\ At(c, "session")
  /\ CreateSession(call[c].id, call[c].born)
  /\ Return(c)
  /\ UNCHANGED <<user, created, clock, overlapped, events>>

SetPassword(c) ==
  /\ At(c, "update")
  /\ UpdateUserPassword(call[c].id, call[c].born)
  /\ Return(c)
  /\ UNCHANGED <<session, created, issued, clock, overlapped, events>>

(* DeleteUser counts the accounts; with one left it is refused. *)
(* Seeded fault: off by one. *)
NoneLeft == UserCount < 1
LastUser == UserCount <= 1
Count(c) ==
  /\ At(c, "count")
  /\ IF LastUser THEN Return(c) ELSE Goto(c, "remove")
  /\ UNCHANGED <<user, session, created, issued, clock, overlapped, events>>

(* Its two DELETEs. *)
Remove(c) ==
  /\ At(c, "remove")
  /\ DeleteUser(call[c].id)
  /\ Goto(c, "sessions")
  /\ overlapped' = (overlapped \/ \E d \in Caller : At(d, "remove") /\ call[d].id # call[c].id)
  /\ UNCHANGED <<session, created, issued, clock, events>>

RemoveSessions(c) ==
  /\ At(c, "sessions")
  /\ DeleteSessionsForUser(call[c].id)
  /\ Return(c)
  /\ UNCHANGED <<user, created, issued, clock, overlapped, events>>

(* A statement fails: the handler returns the error, what it wrote stays.  *)
Fails(c) ==
  /\ ~At(c, "idle")
  /\ Spent
  /\ Return(c)
  /\ UNCHANGED <<user, session, created, issued, clock, overlapped>>

---------------------------------------------------------------------------
(* pruneSessions, at the start and every hour. *)
PruneExpired ==
  /\ PruneSessions /\ session' # session
  /\ UNCHANGED <<user, created, issued, call, clock, overlapped, events>>

Tick ==
  /\ Spent
  /\ clock' = clock + 1
  /\ UNCHANGED <<user, session, created, issued, call, overlapped>>

Handle(c) ==
  \/ Insert(c) \/ Lookup(c) \/ newSession(c) \/ SetPassword(c) \/ Count(c)
  \/ Remove(c) \/ RemoveSessions(c) \/ Fails(c)

Request(c) == \E n \in Username :
  \/ handleAuthInit(c, n) \/ handleAuthLogin(c, n) \/ handleCreateUser(c, n)
  \/ handleDeleteUser(c, n) \/ handleSetUserPassword(c, n)

(* The accounts of an earlier run, each logged in once, a while ago. *)
AccountsInit ==
  /\ \E names \in Starting :
       /\ user = {[id |-> i, name |-> names[i], born |-> i, password |-> i] : i \in DOMAIN names}
       /\ session = {[token |-> i, user |-> i, expires |-> 1, born |-> i] : i \in DOMAIN names}
       /\ created = Len(names) /\ issued = Len(names)
  /\ call = [c \in Caller |-> NoCall]
  /\ clock = 0 /\ overlapped = FALSE

AccountsServe ==
  \/ \E c \in Caller : Request(c) \/ Handle(c)
  \/ \E s \in session : handleAuthLogout(s.token)
  \/ PruneExpired

(* The process stops and the handlers under way with it; the tables stay.  *)
AccountsStop ==
  /\ call' = [c \in Caller |-> NoCall]
  /\ UNCHANGED <<user, session, created, issued, clock, overlapped>>

---------------------------------------------------------------------------
Steps == {"idle", "insert", "lookup", "session", "update", "count", "remove", "sessions"}

(* The variables have the shape the code gives them; ids, names and tokens *)
(* are unique.                                                             *)
AccountsTypeOK ==
  /\ created \in Nat /\ issued \in Nat /\ clock \in Nat /\ overlapped \in BOOLEAN
  /\ IsFiniteSet(user)
  /\ \A u \in user : u.id \in 1..created /\ u.born \in 1..created /\ u.name \in Username
  /\ \A u, v \in user : u.id = v.id \/ u.name = v.name => u = v
  /\ \A s \in session : s.token \in 1..issued /\ s.user \in 1..created
  /\ \A s, t \in session : s.token = t.token => s = t
  /\ \A c \in Caller : call[c].step \in Steps /\ call[c].id \in 0..created

(* "So the system can never fall back to the open first-run admin-creation *)
(* flow" (auth.go, DeleteUser): once there was an account there is one,    *)
(* unless two deletions overlapped; then each may count the account that   *)
(* the other is about to delete.                                           *)
AccountsSurvive == created > 0 /\ ~overlapped => user # {}

(* Whatever was begun for an account concerns no other one, neither its    *)
(* session nor its password, although accounts are deleted and created     *)
(* under the same name while logins and password changes are under way     *)
(* (storage/auth.go, SessionUser's join on the id, UPDATE by id).          *)
NothingCrossesAccounts ==
  /\ \A s \in session : \A u \in SessionUser(s.token) : u.born = s.born
  /\ \A u \in user : u.password = u.born

(* A session that still identifies a user is never lost, unless it is      *)
(* logged out (PruneSessions, DeleteSessionsForUser).                      *)
SessionKept ==
  [][\A s \in session : SessionUser(s.token) # {} /\ s \notin session' =>
       handleAuthLogout(s.token)]_accountVars
=============================================================================
