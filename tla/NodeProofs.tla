----------------------------- MODULE NodeProofs -----------------------------
(***************************************************************************)
(* Theorems about a running process (module Node): its accounts and        *)
(* sessions, and how it comes to its settings; for any configuration file, *)
(* any number of requests and wherever a start was cut short.              *)
(*                                                                         *)
(* AccountsInv ties the sessions to the accounts they were made for.       *)
(* BootInv ties the statements a start has yet to execute to the tables:   *)
(* what a flag covers is there, or was deleted since, once the flag is     *)
(* set, and until then it is there or ahead of the flag.                   *)
(***************************************************************************)
EXTENDS Node, SequenceTheorems, FiniteSetTheorems, TLAPS

(* Settings leave accounts alone: a step of the process is one of these.   *)
AccountsStep == AccountsServe \/ Tick \/ AccountsStop

LEMMA StepsOfAccounts == [Next]_vars => [AccountsStep]_accountVars
<1> SUFFICES ASSUME [Next]_vars PROVE [AccountsStep]_accountVars
  OBVIOUS
<1>1. CASE Serve
  BY <1>1 DEF Serve, AccountsStep
<1>2. CASE Restart
  BY <1>2 DEF Restart, AccountsStep
<1>3. CASE UNCHANGED vars
  BY <1>3 DEF vars
<1> QED BY <1>1, <1>2, <1>3 DEF Next

---------------------------------------------------------------------------
(* The inductive invariant.  An account, its sessions and the requests     *)
(* about it carry one number, given out once; and as long as deletions do  *)
(* not overlap, whoever is about to delete an account leaves another one.  *)

UserRow    == [id : Nat, name : Username, born : Nat, password : Nat]
SessionRow == [token : Nat, user : Nat, expires : Int, born : Nat]
Request1   == [op : {"none", "init", "login", "create", "delete", "password"}, step : Steps,
               name : Username \cup {""}, id : Nat, born : Nat]

Numbers == created \in Nat /\ issued \in Nat /\ clock \in Nat /\ overlapped \in BOOLEAN
UsersSound ==
  /\ user \subseteq UserRow
  /\ \A u \in user : u.id \in 1..created /\ u.born = u.id /\ u.password = u.id
  /\ \A u, v \in user : u.id = v.id \/ u.name = v.name => u = v
SessionsSound ==
  /\ session \subseteq SessionRow
  /\ \A s \in session : s.token \in 1..issued /\ s.user \in 1..created /\ s.born = s.user
  /\ \A s, t \in session : s.token = t.token => s = t
Concerned == {"session", "update", "count", "remove", "sessions"}
CallSound(r, n) ==
  /\ r \in Request1
  /\ r.id \in 0..n
  /\ r.step = "insert" => r.name \in Username /\ r.op \in {"init", "create"}
  /\ r.step = "lookup" => r.op \in {"login", "delete", "password"}
  /\ r.step \in Concerned => r.id > 0 /\ r.born = r.id
CallsSound == DOMAIN call = Caller /\ call = [c \in Caller |-> call[c]]
              /\ \A c \in Caller : CallSound(call[c], created)
Spared ==
  ~overlapped =>
    /\ created > 0 => user # {}
    /\ \A c \in Caller : call[c].step = "remove" => \E u \in user : u.id # call[c].id

(* Its sessions are deleted after the account itself.                      *)
StaysDeleted == \A c \in Caller : call[c].step = "sessions" => \A u \in user : u.id # call[c].id

AccountsInv == Numbers /\ UsersSound /\ SessionsSound /\ CallsSound /\ Spared /\ StaysDeleted

(* Numbers are unique, so a table of accounts is finite.                   *)
LEMMA UsersFinite ==
  ASSUME Numbers, UsersSound
  PROVE  IsFiniteSet(user)
<1> DEFINE f == [u \in user |-> u.id]
<1>1. IsFiniteSet(1..created)
  BY FS_Interval DEF Numbers
<1>2. f \in Injection(user, 1..created)
  BY DEF UsersSound, Injection, IsInjective
<1> QED BY <1>1, <1>2, FS_Injection

(* Whoever counted more than one account has one beside the named one.     *)
LEMMA AnotherOne ==
  ASSUME Numbers, UsersSound, ~LastUser, NEW id \in Nat
  PROVE  \E u \in user : u.id # id
<1> SUFFICES ASSUME \A u \in user : u.id = id PROVE FALSE
  OBVIOUS
<1>1. IsFiniteSet(user) /\ Cardinality(user) \in Nat /\ Cardinality(user) > 1
  BY UsersFinite, FS_CardinalityType DEF LastUser, UserCount
<1>2. PICK x : x \in user
  BY <1>1, FS_EmptySet
<1>3. user = {x}
  BY <1>2 DEF UsersSound
<1> QED BY <1>1, <1>3, FS_Singleton

(* The type invariant of the module is part of it.                         *)
LEMMA InvTypes == AccountsInv => AccountsTypeOK
<1> SUFFICES ASSUME AccountsInv PROVE AccountsTypeOK
  OBVIOUS
<1>1. IsFiniteSet(user)
  BY UsersFinite DEF AccountsInv
<1>2. \A c \in Caller : call[c].step \in Steps /\ call[c].id \in 0..created
  BY DEF AccountsInv, CallsSound, CallSound, Request1
<1>3. \A u \in user : u.id \in 1..created /\ u.born \in 1..created /\ u.name \in Username
  BY DEF AccountsInv, UsersSound, UserRow
<1> QED BY <1>1, <1>2, <1>3 DEF AccountsInv, AccountsTypeOK, Numbers, UsersSound, SessionsSound

LEMMA InitSound == Init => AccountsInv
<1> SUFFICES ASSUME AccountsInit PROVE AccountsInv
  BY DEF Init
<1>1. PICK names \in Starting :
        /\ user = {[id |-> i, name |-> names[i], born |-> i, password |-> i] : i \in DOMAIN names}
        /\ session = {[token |-> i, user |-> i, expires |-> 1, born |-> i] : i \in DOMAIN names}
        /\ created = Len(names) /\ issued = Len(names)
  BY DEF AccountsInit
<1>2. /\ Len(names) \in Nat /\ DOMAIN names = 1..Len(names)
      /\ \A i \in 1..Len(names) : names[i] \in Username
      /\ \A i, j \in 1..Len(names) : names[i] = names[j] => i = j
  BY AccountsAssumption
<1>3. Numbers
  BY <1>1, <1>2 DEF Numbers, AccountsInit
<1>4. UsersSound
  BY <1>1, <1>2 DEF UsersSound, UserRow
<1>5. SessionsSound
  BY <1>1, <1>2 DEF SessionsSound, SessionRow
<1>6. CallsSound
  <2>1. CallSound(NoCall, created)
    BY <1>1, <1>2 DEF CallSound, NoCall, Request1, Steps, Concerned
  <2> QED BY <2>1 DEF CallsSound, AccountsInit
<1>7. Spared
  <2>1. created > 0 => user # {}
    <3> SUFFICES ASSUME created > 0 PROVE user # {}
      OBVIOUS
    <3>1. 1 \in DOMAIN names
      BY <1>1, <1>2
    <3> QED BY <1>1, <3>1
  <2>2. \A c \in Caller : call[c].step = "idle"
    BY DEF AccountsInit, NoCall
  <2> QED BY <2>1, <2>2 DEF Spared
<1>8. StaysDeleted
  BY DEF StaysDeleted, AccountsInit, NoCall
<1> QED BY <1>3, <1>4, <1>5, <1>6, <1>7, <1>8 DEF AccountsInv

---------------------------------------------------------------------------
(* What the actions have in common: one request moves on.                  *)

(* The other requests are as sound as before.                              *)
LEMMA OneCallMoves ==
  ASSUME CallsSound, created \in Nat, created' \in Nat, created' >= created,
         NEW c \in Caller, NEW r, CallSound(r, created'), call' = [call EXCEPT ![c] = r]
  PROVE  CallsSound'
<1>1. DOMAIN call' = Caller /\ call' = [d \in Caller |-> call'[d]]
  BY DEF CallsSound
<1>2. ASSUME NEW d \in Caller PROVE CallSound(call'[d], created')
  <2>1. CASE d = c
    BY <2>1 DEF CallsSound
  <2>2. CASE d # c
    <3>1. call'[d] = call[d] /\ CallSound(call[d], created)
      BY <2>2 DEF CallsSound
    <3> QED BY <3>1 DEF CallSound
  <2> QED BY <2>1, <2>2
<1> QED BY <1>1, <1>2 DEF CallsSound

(* A request that does not get as far as its DELETE takes no account away  *)
(* from another one, if the ids in the table stay.                         *)
LEMMA SparedStays ==
  ASSUME CallsSound, Spared, overlapped' = overlapped,
         \A u \in user : \E v \in user' : v.id = u.id,
         created' = created \/ user' # {},
         NEW c \in Caller, NEW r, r.step # "remove", call' = [call EXCEPT ![c] = r]
  PROVE  Spared'
<1> SUFFICES ASSUME ~overlapped
             PROVE  /\ created' > 0 => user' # {}
                    /\ \A d \in Caller : call'[d].step = "remove" => \E u \in user' : u.id # call'[d].id
  BY DEF Spared
<1>1. created' > 0 => user' # {}
  BY DEF Spared
<1>2. ASSUME NEW d \in Caller, call'[d].step = "remove"
      PROVE  \E u \in user' : u.id # call'[d].id
  <2>1. d # c /\ call'[d] = call[d]
    BY <1>2 DEF CallsSound
  <2>2. PICK u \in user : u.id # call[d].id
    BY <1>2, <2>1 DEF Spared
  <2> QED BY <2>1, <2>2
<1> QED BY <1>1, <1>2

(* An account that is gone does not come back.                             *)
LEMMA DeletedStays ==
  ASSUME CallsSound, StaysDeleted, created \in Nat,
         \A v \in user' : v.id > created \/ \E u \in user : u.id = v.id,
         NEW c \in Caller, NEW r, r.step # "sessions", call' = [call EXCEPT ![c] = r]
  PROVE  StaysDeleted'
<1> SUFFICES ASSUME NEW d \in Caller, call'[d].step = "sessions", NEW v \in user'
             PROVE  v.id # call'[d].id
  BY DEF StaysDeleted
<1>1. d # c /\ call'[d] = call[d]
  BY DEF CallsSound
<1>2. CallSound(call[d], created) /\ call[d].id \in 0..created
  BY DEF CallsSound, CallSound
<1>3. \A u \in user : u.id # call[d].id
  BY <1>1 DEF StaysDeleted
<1> QED BY <1>1, <1>2, <1>3

(* The empty handler, and one that only changed its step.                  *)
LEMMA NoCallSound ==
  ASSUME NEW n \in Nat PROVE CallSound(NoCall, n) /\ NoCall.step \notin {"remove", "sessions"}
<1>1. NoCall \in Request1 /\ NoCall.step = "idle" /\ NoCall.id = 0
  BY DEF NoCall, Request1, Steps
<1> QED BY <1>1 DEF CallSound, Concerned

(* Unchanged tables keep what is said about them.                          *)
LEMMA TablesKept ==
  ASSUME AccountsInv, UNCHANGED <<user, session, created, issued, overlapped>>, clock' \in Nat
  PROVE  Numbers' /\ UsersSound' /\ SessionsSound'
BY DEF AccountsInv, Numbers, UsersSound, SessionsSound

(* A request that changes no table and is not about to delete.             *)
LEMMA OnlyTheCall ==
  ASSUME AccountsInv, UNCHANGED <<user, session, created, issued, clock, overlapped>>,
         NEW c \in Caller, NEW r, CallSound(r, created), r.step \notin {"remove", "sessions"},
         call' = [call EXCEPT ![c] = r]
  PROVE  AccountsInv'
<1>1. Numbers' /\ UsersSound' /\ SessionsSound'
  BY TablesKept DEF AccountsInv, Numbers
<1>2. CallsSound'
  <2>1. CallsSound /\ created \in Nat /\ created' = created /\ created' >= created
    BY DEF AccountsInv, Numbers
  <2>2. CallSound(r, created')
    BY <2>1
  <2> QED BY <2>1, <2>2, OneCallMoves
<1>3. Spared'
  BY SparedStays DEF AccountsInv
<1>4. StaysDeleted'
  BY DeletedStays DEF AccountsInv, Numbers
<1> QED BY <1>1, <1>2, <1>3, <1>4 DEF AccountsInv

---------------------------------------------------------------------------
(* One lemma per operation.                                                *)

LEMMA BeginSound ==
  ASSUME AccountsInv, NEW c \in Caller, NEW op \in {"init", "login", "create", "delete", "password"},
         NEW step \in {"insert", "lookup"}, NEW n \in Username, Begin(c, op, step, n),
         step = "insert" => op \in {"init", "create"},
         step = "lookup" => op \in {"login", "delete", "password"}
  PROVE  AccountsInv'
<1> DEFINE r == [op |-> op, step |-> step, name |-> n, id |-> 0, born |-> 0]
<1>2. r \in Request1
  BY DEF Request1, Steps
<1>3. CallSound(r, created) /\ r.step \notin {"remove", "sessions"}
  <2>1. r.id = 0 /\ r.step = step /\ r.op = op /\ r.name = n
    OBVIOUS
  <2> HIDE DEF r
  <2> QED BY <1>2, <2>1 DEF CallSound, Concerned, AccountsInv, Numbers
<1>4. call' = [call EXCEPT ![c] = r] /\ UNCHANGED <<user, session, created, issued, clock, overlapped>>
  BY DEF Begin
<1> HIDE DEF r
<1> QED BY <1>3, <1>4, OnlyTheCall

LEMMA RequestSound ==
  ASSUME AccountsInv, NEW c \in Caller, Request(c) PROVE AccountsInv'
<1>1. PICK n \in Username :
        \/ handleAuthInit(c, n) \/ handleAuthLogin(c, n) \/ handleCreateUser(c, n)
        \/ handleDeleteUser(c, n) \/ handleSetUserPassword(c, n)
  BY DEF Request
<1>2. CASE handleAuthInit(c, n)
  BY <1>2, BeginSound DEF handleAuthInit
<1>3. CASE handleAuthLogin(c, n)
  BY <1>3, BeginSound DEF handleAuthLogin
<1>4. CASE handleCreateUser(c, n)
  BY <1>4, BeginSound DEF handleCreateUser
<1>5. CASE handleDeleteUser(c, n)
  BY <1>5, BeginSound DEF handleDeleteUser
<1>6. CASE handleSetUserPassword(c, n)
  BY <1>6, BeginSound DEF handleSetUserPassword
<1> QED BY <1>1, <1>2, <1>3, <1>4, <1>5, <1>6

LEMMA FailsSound ==
  ASSUME AccountsInv, NEW c \in Caller, Fails(c) PROVE AccountsInv'
BY NoCallSound, OnlyTheCall DEF Fails, Return, AccountsInv, Numbers

(* What Continue writes.                                                      *)
LEMMA ContinueRow ==
  ASSUME CallsSound, Numbers, NEW c \in Caller, NEW step \in Steps, NEW id \in Nat, NEW born \in Nat,
         Continue(c, step, id, born)
  PROVE  \E r \in Request1 : /\ call' = [call EXCEPT ![c] = r]
                             /\ r.op = call[c].op /\ r.step = step /\ r.name = call[c].name
                             /\ r.id = id /\ r.born = born
<1> DEFINE r == [op |-> call[c].op, step |-> step, name |-> call[c].name, id |-> id, born |-> born]
<1>1. call[c] \in Request1
  BY DEF CallsSound, CallSound
<1>2. r \in Request1
  BY <1>1 DEF Request1
<1> QED BY <1>2 DEF Continue

LEMMA LookupSound ==
  ASSUME AccountsInv, NEW c \in Caller, Lookup(c) PROVE AccountsInv'
<1>1. CASE Return(c)
  BY <1>1, NoCallSound, OnlyTheCall DEF Lookup, Return, AccountsInv, Numbers
<1>2. ASSUME NEW u \in user, Continue(c, AfterLookup[call[c].op], u.id, u.born) PROVE AccountsInv'
  <2> DEFINE next == AfterLookup[call[c].op]
  <2>1. call[c].op \in {"login", "delete", "password"}
    BY DEF Lookup, At, AccountsInv, CallsSound, CallSound
  <2>2. next \in {"session", "count", "update"} /\ next \in Steps
    BY <2>1 DEF AfterLookup, Steps
  <2> HIDE DEF next
  <2>3. u.id \in 1..created /\ u.born = u.id /\ u.id \in Nat /\ u.born \in Nat
    BY DEF AccountsInv, UsersSound, Numbers
  <2>4. PICK r \in Request1 : /\ call' = [call EXCEPT ![c] = r]
                              /\ r.step = next /\ r.id = u.id /\ r.born = u.born
    <3>1. Continue(c, next, u.id, u.born)
      BY <1>2 DEF next
    <3> QED BY <2>2, <2>3, <3>1, ContinueRow DEF AccountsInv
  <2>5. CallSound(r, created)
    BY <2>2, <2>3, <2>4 DEF CallSound, AccountsInv, Numbers
  <2> QED BY <2>2, <2>4, <2>5, OnlyTheCall DEF Lookup
<1> QED BY <1>1, <1>2 DEF Lookup, UserByUsername

LEMMA CountSound ==
  ASSUME AccountsInv, NEW c \in Caller, Count(c) PROVE AccountsInv'
<1>1. CASE Return(c)
  BY <1>1, NoCallSound, OnlyTheCall DEF Count, Return, AccountsInv, Numbers
<1>2. CASE ~LastUser /\ Goto(c, "remove")
  <2>1. call[c] \in Request1 /\ call[c].id \in 1..created /\ call[c].born = call[c].id
    BY DEF Count, At, AccountsInv, CallsSound, CallSound, Concerned, Numbers
  <2>2. call[c].id \in Nat /\ call[c].born \in Nat /\ "remove" \in Steps
    BY <2>1 DEF Steps, AccountsInv, Numbers
  <2>3. PICK r \in Request1 : /\ call' = [call EXCEPT ![c] = r]
                              /\ r.step = "remove" /\ r.id = call[c].id /\ r.born = call[c].born
    BY <1>2, <2>2, ContinueRow DEF Goto, AccountsInv
  <2>4. CallSound(r, created)
    BY <2>1, <2>3 DEF CallSound, AccountsInv, Numbers
  <2>5. UNCHANGED <<user, session, created, issued, clock, overlapped>>
    BY DEF Count
  <2>6. Numbers' /\ UsersSound' /\ SessionsSound'
    BY <2>5, TablesKept DEF AccountsInv, Numbers
  <2>7. CallsSound'
    <3>1. created' = created /\ created' >= created /\ created \in Nat
      BY <2>5 DEF AccountsInv, Numbers
    <3> QED BY <2>3, <2>4, <3>1, OneCallMoves DEF AccountsInv
  <2>8. Spared'
    <3> SUFFICES ASSUME ~overlapped
                 PROVE  /\ created > 0 => user # {}
                        /\ \A d \in Caller : call'[d].step = "remove" => \E u \in user : u.id # call'[d].id
      BY <2>5 DEF Spared
    <3>1. \E u \in user : u.id # call[c].id
      BY <1>2, <2>2, AnotherOne DEF AccountsInv
    <3>2. call'[c] = r /\ \A d \in Caller : d # c => call'[d] = call[d]
      BY <2>3 DEF AccountsInv, CallsSound
    <3> QED BY <2>3, <3>1, <3>2 DEF AccountsInv, Spared
  <2>9. StaysDeleted'
    BY <2>3, <2>5, DeletedStays DEF AccountsInv, Numbers
  <2> QED BY <2>6, <2>7, <2>8, <2>9 DEF AccountsInv
<1> QED BY <1>1, <1>2 DEF Count

LEMMA RemoveSound ==
  ASSUME AccountsInv, NEW c \in Caller, Remove(c) PROVE AccountsInv'
<1>1. call[c] \in Request1 /\ call[c].id \in 1..created /\ call[c].born = call[c].id
  BY DEF Remove, At, AccountsInv, CallsSound, CallSound, Concerned, Numbers
<1>2. call[c].id \in Nat /\ call[c].born \in Nat /\ "sessions" \in Steps
  BY <1>1 DEF Steps, AccountsInv, Numbers
<1>3. PICK r \in Request1 : /\ call' = [call EXCEPT ![c] = r]
                            /\ r.step = "sessions" /\ r.id = call[c].id /\ r.born = call[c].born
  BY <1>2, ContinueRow DEF Remove, Goto, AccountsInv
<1>4. /\ user' = {u \in user : u.id # call[c].id}
      /\ overlapped' = (overlapped \/ \E d \in Caller : At(d, "remove") /\ call[d].id # call[c].id)
      /\ UNCHANGED <<session, created, issued, clock>>
  BY DEF Remove, DeleteUser
<1>5. Numbers'
  BY <1>4 DEF AccountsInv, Numbers
<1>6. UsersSound' /\ SessionsSound'
  BY <1>4 DEF AccountsInv, UsersSound, SessionsSound
<1>7. CallsSound'
  <2>1. created' = created /\ created' >= created /\ created \in Nat
    BY <1>4 DEF AccountsInv, Numbers
  <2>2. CallSound(r, created)
    BY <1>1, <1>3 DEF CallSound, AccountsInv, Numbers
  <2> QED BY <1>3, <2>1, <2>2, OneCallMoves DEF AccountsInv
<1>8. Spared'
  <2> SUFFICES ASSUME ~overlapped'
               PROVE  /\ user' # {}
                      /\ \A d \in Caller : call'[d].step = "remove" => \E u \in user' : u.id # call'[d].id
    BY DEF Spared
  <2>1. ~overlapped /\ \A d \in Caller : At(d, "remove") => call[d].id = call[c].id
    BY <1>4
  <2>2. PICK u \in user : u.id # call[c].id
    BY <2>1 DEF Remove, At, AccountsInv, Spared
  <2>3. u \in user'
    BY <1>4, <2>2
  <2>4. ASSUME NEW d \in Caller, call'[d].step = "remove" PROVE u.id # call'[d].id
    <3>1. d # c /\ call'[d] = call[d]
      BY <1>3, <2>4 DEF AccountsInv, CallsSound
    <3> QED BY <2>1, <2>2, <2>4, <3>1 DEF At
  <2> QED BY <2>3, <2>4
<1>9. StaysDeleted'
  <2> SUFFICES ASSUME NEW d \in Caller, call'[d].step = "sessions", NEW u \in user'
               PROVE  u.id # call'[d].id
    BY DEF StaysDeleted
  <2>1. CASE d = c
    BY <1>3, <1>4, <2>1 DEF AccountsInv, CallsSound
  <2>2. CASE d # c
    BY <1>3, <1>4, <2>2 DEF AccountsInv, CallsSound, StaysDeleted
  <2> QED BY <2>1, <2>2
<1> QED BY <1>5, <1>6, <1>7, <1>8, <1>9 DEF AccountsInv

LEMMA RemoveSessionsSound ==
  ASSUME AccountsInv, NEW c \in Caller, RemoveSessions(c) PROVE AccountsInv'
<1>1. /\ session' = {s \in session : s.user # call[c].id} /\ call' = [call EXCEPT ![c] = NoCall]
      /\ UNCHANGED <<user, created, issued, clock, overlapped>>
  BY DEF RemoveSessions, DeleteSessionsForUser, Return
<1>2. Numbers' /\ UsersSound' /\ SessionsSound'
  BY <1>1 DEF AccountsInv, Numbers, UsersSound, SessionsSound
<1>3. created' = created /\ created' >= created /\ created \in Nat /\ CallSound(NoCall, created')
  BY <1>1, NoCallSound DEF AccountsInv, Numbers
<1>4. CallsSound'
  BY <1>1, <1>3, OneCallMoves DEF AccountsInv
<1>5. Spared'
  BY <1>1, <1>3, NoCallSound, SparedStays DEF AccountsInv
<1>6. StaysDeleted'
  BY <1>1, <1>3, NoCallSound, DeletedStays DEF AccountsInv
<1> QED BY <1>2, <1>4, <1>5, <1>6 DEF AccountsInv

LEMMA newSessionSound ==
  ASSUME AccountsInv, NEW c \in Caller, newSession(c) PROVE AccountsInv'
<1> DEFINE s0 == [token |-> issued + 1, user |-> call[c].id, expires |-> clock + SessionTTL,
                 born |-> call[c].born]
<1>1. /\ session' = session \cup {s0} /\ issued' = issued + 1 /\ call' = [call EXCEPT ![c] = NoCall]
      /\ UNCHANGED <<user, created, clock, overlapped>>
  BY DEF newSession, CreateSession, Return
<1>2. call[c] \in Request1 /\ call[c].id \in 1..created /\ call[c].born = call[c].id
  BY DEF newSession, At, AccountsInv, CallsSound, CallSound, Concerned, Numbers
<1>3. Numbers' /\ UsersSound'
  BY <1>1 DEF AccountsInv, Numbers, UsersSound
<1>4. SessionsSound'
  <2>1. s0 \in SessionRow
    <3>1. issued + 1 \in Nat /\ clock + SessionTTL \in Int
      BY AccountsAssumption DEF AccountsInv, Numbers
    <3>2. call[c].id \in Nat /\ call[c].born \in Nat
      BY <1>2 DEF AccountsInv, Numbers
    <3> QED BY <3>1, <3>2 DEF SessionRow
  <2>2. s0.token = issued + 1 /\ s0.user \in 1..created /\ s0.born = s0.user
    BY <1>2
  <2> HIDE DEF s0
  <2>3. \A s \in session : s.token \in 1..issued
    BY DEF AccountsInv, SessionsSound
  <2>4. \A s, t \in session' : s.token = t.token => s = t
    BY <1>1, <2>2, <2>3 DEF AccountsInv, SessionsSound, Numbers
  <2>5. \A s \in session' : s.token \in 1..issued' /\ s.user \in 1..created' /\ s.born = s.user
    BY <1>1, <2>2, <2>3 DEF AccountsInv, SessionsSound, Numbers
  <2>6. session' \subseteq SessionRow
    BY <1>1, <2>1 DEF AccountsInv, SessionsSound
  <2> QED BY <2>4, <2>5, <2>6 DEF SessionsSound
<1> HIDE DEF s0
<1>5. created' = created /\ created' >= created /\ created \in Nat /\ CallSound(NoCall, created')
  BY <1>1, NoCallSound DEF AccountsInv, Numbers
<1>6. CallsSound'
  BY <1>1, <1>5, OneCallMoves DEF AccountsInv
<1>7. Spared' /\ StaysDeleted'
  BY <1>1, <1>5, NoCallSound, SparedStays, DeletedStays DEF AccountsInv
<1> QED BY <1>3, <1>4, <1>6, <1>7 DEF AccountsInv

LEMMA SetPasswordSound ==
  ASSUME AccountsInv, NEW c \in Caller, SetPassword(c) PROVE AccountsInv'
<1>1. /\ user' = {IF u.id = call[c].id THEN [u EXCEPT !.password = call[c].born] ELSE u : u \in user}
      /\ call' = [call EXCEPT ![c] = NoCall]
      /\ UNCHANGED <<session, created, issued, clock, overlapped>>
  BY DEF SetPassword, UpdateUserPassword, Return
<1>2. call[c] \in Request1 /\ call[c].id \in 1..created /\ call[c].born = call[c].id
  BY DEF SetPassword, At, AccountsInv, CallsSound, CallSound, Concerned, Numbers
(* A password was that of the account already, so the table is unchanged. *)
<1>3. user' = user
  <2>1. ASSUME NEW u \in user, u.id = call[c].id PROVE [u EXCEPT !.password = call[c].born] = u
    <3>1. u \in UserRow /\ u.password = call[c].born
      BY <1>2, <2>1 DEF AccountsInv, UsersSound
    <3> QED BY <3>1 DEF UserRow
  <2> QED BY <1>1, <2>1
<1>4. created' = created /\ created' >= created /\ created \in Nat /\ CallSound(NoCall, created)
  BY <1>1, NoCallSound DEF AccountsInv, Numbers
<1> QED BY <1>1, <1>3, <1>4, NoCallSound, OnlyTheCall

LEMMA InsertSound ==
  ASSUME AccountsInv, NEW c \in Caller, Insert(c) PROVE AccountsInv'
<1>1. CASE Return(c) /\ UNCHANGED <<user, created>>
  BY <1>1, NoCallSound, OnlyTheCall DEF Insert, Return, AccountsInv, Numbers
<1>2. ASSUME ~Taken(call[c].name), CreateUser(call[c].name), NEW r, CallSound(r, created + 1),
             r.step \notin {"remove", "sessions"}, call' = [call EXCEPT ![c] = r]
      PROVE  AccountsInv'
  <2> DEFINE row == [id |-> created + 1, name |-> call[c].name, born |-> created + 1,
                     password |-> created + 1]
  <2>1. /\ user' = user \cup {row} /\ created' = created + 1 /\ created \in Nat
        /\ UNCHANGED <<session, issued, clock, overlapped>>
    BY <1>2 DEF CreateUser, NextId, Insert, AccountsInv, Numbers
  <2>2. call[c].name \in Username
    BY DEF Insert, At, AccountsInv, CallsSound, CallSound
  <2>3. Numbers' /\ SessionsSound'
    BY <2>1 DEF AccountsInv, Numbers, SessionsSound
  <2>4. row \in UserRow
    BY <2>1, <2>2 DEF UserRow
  <2>5. row.id = created + 1 /\ row.name = call[c].name /\ row.born = row.id /\ row.password = row.id
    OBVIOUS
  <2> HIDE DEF row
  <2>6. \A u \in user : u.id \in 1..created /\ u.name # call[c].name
    BY <1>2 DEF Taken, AccountsInv, UsersSound
  <2>7. UsersSound'
    <3>1. user' \subseteq UserRow
      BY <2>1, <2>4 DEF AccountsInv, UsersSound
    <3>2. \A u \in user' : u.id \in 1..created' /\ u.born = u.id /\ u.password = u.id
      BY <2>1, <2>5 DEF AccountsInv, UsersSound
    <3>3. \A u, v \in user' : u.id = v.id \/ u.name = v.name => u = v
      BY <2>1, <2>5, <2>6 DEF AccountsInv, UsersSound
    <3> QED BY <3>1, <3>2, <3>3 DEF UsersSound
  <2>8. CallsSound'
    <3>1. created' \in Nat /\ created' >= created /\ CallSound(r, created')
      BY <1>2, <2>1
    <3> QED BY <1>2, <2>1, <3>1, OneCallMoves DEF AccountsInv
  <2>9. Spared'
    BY <1>2, <2>1, SparedStays DEF AccountsInv
  <2>10. StaysDeleted'
    <3>1. \A v \in user' : v.id > created \/ \E u \in user : u.id = v.id
      BY <2>1, <2>5
    <3> QED BY <1>2, <2>1, <3>1, DeletedStays DEF AccountsInv
  <2> QED BY <2>3, <2>7, <2>8, <2>9, <2>10 DEF AccountsInv
<1>3. CASE ~Taken(call[c].name) /\ CreateUser(call[c].name) /\ Return(c)
  <2>1. CallSound(NoCall, created + 1) /\ NoCall.step \notin {"remove", "sessions"}
    BY NoCallSound DEF AccountsInv, Numbers
  <2> QED BY <1>2, <1>3, <2>1 DEF Return
<1>4. CASE ~Taken(call[c].name) /\ CreateUser(call[c].name) /\ Continue(c, "session", NextId, created + 1)
  <2>1. created + 1 \in Nat /\ "session" \in Steps /\ NextId = created + 1
    BY DEF AccountsInv, Numbers, Steps, NextId
  <2>2. PICK r \in Request1 : /\ call' = [call EXCEPT ![c] = r] /\ r.step = "session"
                              /\ r.id = created + 1 /\ r.born = created + 1
    BY <1>4, <2>1, ContinueRow DEF AccountsInv
  <2>3. CallSound(r, created + 1)
    BY <2>1, <2>2 DEF CallSound, AccountsInv, Numbers
  <2> QED BY <1>2, <1>4, <2>2, <2>3
<1> QED BY <1>1, <1>3, <1>4 DEF Insert

LEMMA handleAuthLogoutSound ==
  ASSUME AccountsInv, NEW token, handleAuthLogout(token) PROVE AccountsInv'
<1>1. /\ session' = {s \in session : s.token # token}
      /\ UNCHANGED <<user, created, issued, call, clock, overlapped>>
  BY DEF handleAuthLogout, DeleteSession
<1> QED BY <1>1 DEF AccountsInv, Numbers, UsersSound, SessionsSound, CallsSound, Spared, StaysDeleted

LEMMA PruneExpiredSound ==
  ASSUME AccountsInv, PruneExpired PROVE AccountsInv'
<1>1. /\ session' = {s \in session : s.expires >= clock}
      /\ UNCHANGED <<user, created, issued, call, clock, overlapped>>
  BY DEF PruneExpired, PruneSessions
<1> QED BY <1>1 DEF AccountsInv, Numbers, UsersSound, SessionsSound, CallsSound, Spared, StaysDeleted

LEMMA TickSound == AccountsInv /\ Tick => AccountsInv'
BY DEF Tick, AccountsInv, Numbers, UsersSound, SessionsSound, CallsSound, Spared, StaysDeleted

LEMMA AccountsStopSound == AccountsInv /\ AccountsStop => AccountsInv'
<1> SUFFICES ASSUME AccountsInv, AccountsStop PROVE AccountsInv'
  OBVIOUS
<1>1. UNCHANGED <<user, session, created, issued, clock, overlapped>> /\ call' = [c \in Caller |-> NoCall]
  BY DEF AccountsStop
<1>2. Numbers' /\ UsersSound' /\ SessionsSound'
  BY <1>1, TablesKept DEF AccountsInv, Numbers
<1>3. CallSound(NoCall, created) /\ NoCall.step \notin {"remove", "sessions"}
  BY NoCallSound DEF AccountsInv, Numbers
<1>4. CallsSound'
  BY <1>1, <1>3 DEF CallsSound
<1>5. Spared' /\ StaysDeleted'
  BY <1>1, <1>3 DEF AccountsInv, Spared, StaysDeleted
<1> QED BY <1>2, <1>4, <1>5 DEF AccountsInv

LEMMA StepSound == AccountsInv /\ [AccountsStep]_accountVars => AccountsInv'
<1> SUFFICES ASSUME AccountsInv, [AccountsStep]_accountVars PROVE AccountsInv'
  OBVIOUS
<1>1. CASE UNCHANGED accountVars
  BY <1>1 DEF accountVars, AccountsInv, Numbers, UsersSound, SessionsSound, CallsSound, Spared, StaysDeleted
<1>2. ASSUME NEW c \in Caller, Request(c) PROVE AccountsInv'
  BY <1>2, RequestSound
<1>3. ASSUME NEW c \in Caller, Handle(c) PROVE AccountsInv'
  BY <1>3, InsertSound, LookupSound, newSessionSound, SetPasswordSound, CountSound, RemoveSound,
     RemoveSessionsSound, FailsSound DEF Handle
<1>4. ASSUME NEW s \in session, handleAuthLogout(s.token) PROVE AccountsInv'
  BY <1>4, handleAuthLogoutSound
<1>5. CASE AccountsServe
  BY <1>2, <1>3, <1>4, <1>5, PruneExpiredSound DEF AccountsServe
<1> QED BY <1>1, <1>5, TickSound, AccountsStopSound DEF AccountsStep

LEMMA AccountsInvHolds == Spec => []AccountsInv
<1>1. AccountsInv /\ [Next]_vars => AccountsInv'
  BY StepsOfAccounts, StepSound
<1> QED BY InitSound, <1>1, PTL DEF Spec

---------------------------------------------------------------------------
(* Once there was an account there is one, whatever requests, failures and *)
(* restarts there are, as long as no two deletions overlap (DeleteUser's   *)
(* count in auth.go).                                                      *)
THEOREM AnAccountRemains == Spec => []AccountsSurvive
<1>1. AccountsInv => AccountsSurvive
  BY DEF AccountsInv, Spared, AccountsSurvive
<1> QED BY <1>1, AccountsInvHolds, PTL

(* A session and a password are those of the account they were made for:   *)
(* ids are never reused, so the account of the same name created in the    *)
(* meantime has another one (auth_user's AUTOINCREMENT, SessionUser).      *)
THEOREM SessionsOfTheirOwn == Spec => []NothingCrossesAccounts
<1>1. ASSUME AccountsInv PROVE NothingCrossesAccounts
  <2>1. ASSUME NEW s \in session, NEW u \in SessionUser(s.token) PROVE u.born = s.born
    <3>1. PICK t \in session : u \in user /\ t.token = s.token /\ t.user = u.id
      BY DEF SessionUser
    <3> QED BY <1>1, <3>1 DEF AccountsInv, UsersSound, SessionsSound
  <2> QED BY <1>1, <2>1 DEF NothingCrossesAccounts, AccountsInv, UsersSound
<1> QED BY <1>1, AccountsInvHolds, PTL

(* A session that still identifies a user is only lost by a logout: the    *)
(* deletion of an account's sessions comes after that of the account, and  *)
(* no later account has its id (DeleteSessionsForUser, PruneSessions).     *)
THEOREM SessionsEndByLogout == Spec => SessionKept
<1> DEFINE Kept == \A s \in session :
                     SessionUser(s.token) # {} /\ s \notin session' => handleAuthLogout(s.token)
<1>1. ASSUME AccountsInv, [AccountsStep]_accountVars, NEW s \in session, SessionUser(s.token) # {},
             s \notin session'
      PROVE  handleAuthLogout(s.token)
  <2>1. PICK u \in user : u.id = s.user /\ s.expires > clock
    <3>1. PICK u \in user, t \in session : t.token = s.token /\ t.user = u.id /\ t.expires > clock
      BY <1>1 DEF SessionUser
    <3>2. t = s
      BY <1>1, <3>1 DEF AccountsInv, SessionsSound
    <3> QED BY <3>1, <3>2
  <2>2. AccountsServe
    BY <1>1 DEF accountVars, AccountsStep, Tick, AccountsStop
  <2>3. ASSUME NEW c \in Caller, Request(c) PROVE FALSE
    BY <1>1, <2>3 DEF Request, handleAuthInit, handleAuthLogin, handleCreateUser, handleDeleteUser,
       handleSetUserPassword, Begin
  <2>4. ASSUME NEW c \in Caller, Handle(c) PROVE FALSE
    <3>1. RemoveSessions(c)
      BY <1>1, <2>4 DEF Handle, Insert, Lookup, newSession, CreateSession, SetPassword, Count, Remove, Fails
    <3>2. call[c].step = "sessions" /\ s.user = call[c].id
      BY <1>1, <3>1 DEF RemoveSessions, DeleteSessionsForUser, At
    <3> QED BY <1>1, <2>1, <3>2 DEF AccountsInv, StaysDeleted
  <2>5. ~PruneExpired
    BY <1>1, <2>1 DEF PruneExpired, PruneSessions, AccountsInv, Numbers, SessionsSound, SessionRow
  <2>6. PICK t \in session : handleAuthLogout(t.token)
    BY <2>2, <2>3, <2>4, <2>5 DEF AccountsServe
  <2>7. t.token = s.token
    BY <1>1, <2>6 DEF handleAuthLogout, DeleteSession
  <2> QED BY <2>6, <2>7
<1>2. AccountsInv /\ [Next]_vars => [Kept]_accountVars
  BY <1>1, StepsOfAccounts
<1> QED BY <1>2, AccountsInvHolds, PTL DEF Spec, SessionKept
---------------------------------------------------------------------------
(* Accounts leave settings alone: a step of the process is one of these.   *)
SettingsStep == SettingsServe \/ SettingsRun \/ SettingsRestart

LEMMA StepsOfSettings == [Next]_vars => [SettingsStep]_settingsVars
<1> SUFFICES ASSUME [Next]_vars PROVE [SettingsStep]_settingsVars
  OBVIOUS
<1>1. CASE Serve
  BY <1>1 DEF Serve, SettingsStep
<1>2. CASE Restart
  BY <1>2 DEF Restart, SettingsStep
<1>3. CASE UNCHANGED vars
  BY <1>3 DEF vars
<1> QED BY <1>1, <1>2, <1>3 DEF Next
---------------------------------------------------------------------------
(* What Load executes: the statements of the seeds and of the rules, each   *)
(* before the flag that says they are done, and the reload at the end.     *)
Of(op, names) == {[op |-> op, value |-> names[i]] : i \in DOMAIN names}
SeedStmts ==
  {Put("general", Seconds(Config.general)), Put("notify", Config.notify)} \cup
  Of("check", Config.checks) \cup Of("peer", Config.peers) \cup Of("alias", Config.alias)
RuleStmts == {[op |-> "rule", value |-> normalizeAlertRule(Defaults[i])] : i \in DOMAIN Defaults}
Reload == [op |-> "reload"]
Stmts == SeedStmts \cup RuleStmts \cup {Put("initialized", "1"), Put("alerts_seeded", "1"), Reload}

Sets(x, key) == x.op = "set" /\ x.key = key
Among(s, x) == \E i \in 1..Len(s) : s[i] = x
Free(s, key) == \A i \in 1..Len(s) : ~Sets(s[i], key)
Ahead(s, x, key) == \E i \in 1..Len(s) : s[i] = x /\ \A k \in 1..i : ~Sets(s[k], key)
Flagged(s, key) == \E i \in 1..Len(s) : Sets(s[i], key)
Starts(D) ==
  (IF "initialized" \in D THEN <<>> ELSE seed) \o
  (IF "alerts_seeded" \in D THEN <<>> ELSE seedAlertRulesOnce) \o <<Reload>>

(* A concatenation, element by element. *)
LEMMA Joined ==
  ASSUME NEW S, NEW p \in Seq(S), NEW q \in Seq(S)
  PROVE  /\ p \o q \in Seq(S) /\ Len(p \o q) = Len(p) + Len(q)
         /\ Len(p) \in Nat /\ Len(q) \in Nat
         /\ \A i \in 1..Len(p) : (p \o q)[i] = p[i]
         /\ \A i \in 1..Len(q) : (p \o q)[Len(p) + i] = q[i]
         /\ \A i \in 1..Len(p \o q) :
              \/ i \in 1..Len(p) /\ (p \o q)[i] = p[i]
              \/ i - Len(p) \in 1..Len(q) /\ (p \o q)[i] = q[i - Len(p)]
<1>1. /\ p \o q \in Seq(S) /\ Len(p \o q) = Len(p) + Len(q)
      /\ Len(p) \in Nat /\ Len(q) \in Nat
      /\ \A i \in 1..Len(p) + Len(q) : (p \o q)[i] = IF i <= Len(p) THEN p[i] ELSE q[i - Len(p)]
  BY ConcatProperties, LenProperties
<1>2. \A i \in 1..Len(p) : (p \o q)[i] = p[i]
  BY <1>1
<1>3. \A i \in 1..Len(q) : (p \o q)[Len(p) + i] = q[i]
  BY <1>1
<1> QED BY <1>1, <1>2, <1>3

LEMMA AmongJoined ==
  ASSUME NEW S, NEW p \in Seq(S), NEW q \in Seq(S), NEW x, Among(p, x) \/ Among(q, x)
  PROVE  Among(p \o q, x)
<1>1. CASE Among(p, x)
  <2>1. PICK i \in 1..Len(p) : p[i] = x
    BY <1>1 DEF Among
  <2>2. i \in 1..Len(p \o q) /\ (p \o q)[i] = x
    BY <2>1, Joined
  <2> QED BY <2>2 DEF Among
<1>2. CASE Among(q, x)
  <2>1. PICK i \in 1..Len(q) : q[i] = x
    BY <1>2 DEF Among
  <2>2. Len(p) + i \in 1..Len(p \o q) /\ (p \o q)[Len(p) + i] = x
    BY <2>1, Joined
  <2> QED BY <2>2 DEF Among
<1> QED BY <1>1, <1>2

LEMMA FlaggedJoined ==
  ASSUME NEW S, NEW p \in Seq(S), NEW q \in Seq(S), NEW key, Flagged(p, key) \/ Flagged(q, key)
  PROVE  Flagged(p \o q, key)
<1>1. CASE Flagged(p, key)
  <2>1. PICK i \in 1..Len(p) : Sets(p[i], key)
    BY <1>1 DEF Flagged
  <2>2. i \in 1..Len(p \o q) /\ (p \o q)[i] = p[i]
    BY <2>1, Joined
  <2> QED BY <2>1, <2>2 DEF Flagged
<1>2. CASE Flagged(q, key)
  <2>1. PICK i \in 1..Len(q) : Sets(q[i], key)
    BY <1>2 DEF Flagged
  <2>2. Len(p) + i \in 1..Len(p \o q) /\ (p \o q)[Len(p) + i] = q[i]
    BY <2>1, Joined
  <2> QED BY <2>1, <2>2 DEF Flagged
<1> QED BY <1>1, <1>2

(* Statements stay ahead of a flag when others are put behind them, or     *)
(* others that do not set it before them.                                  *)
LEMMA AheadFirst ==
  ASSUME NEW S, NEW p \in Seq(S), NEW q \in Seq(S), NEW x, NEW key, Ahead(p, x, key)
  PROVE  Ahead(p \o q, x, key)
<1>1. PICK i \in 1..Len(p) : p[i] = x /\ \A k \in 1..i : ~Sets(p[k], key)
  BY DEF Ahead
<1>2. i \in 1..Len(p \o q) /\ (p \o q)[i] = x
  BY <1>1, Joined
<1>3. \A k \in 1..i : (p \o q)[k] = p[k]
  BY <1>1, Joined
<1> QED BY <1>1, <1>2, <1>3 DEF Ahead

LEMMA AheadLater ==
  ASSUME NEW S, NEW p \in Seq(S), NEW q \in Seq(S), NEW x, NEW key, Free(p, key), Ahead(q, x, key)
  PROVE  Ahead(p \o q, x, key)
<1>1. PICK i \in 1..Len(q) : q[i] = x /\ \A k \in 1..i : ~Sets(q[k], key)
  BY DEF Ahead
<1>2. Len(p) + i \in 1..Len(p \o q) /\ (p \o q)[Len(p) + i] = x
  BY <1>1, Joined
<1>3. ASSUME NEW k \in 1..(Len(p) + i) PROVE ~Sets((p \o q)[k], key)
  <2>1. CASE k <= Len(p)
    <3>1. k \in 1..Len(p) /\ (p \o q)[k] = p[k]
      BY <2>1, Joined
    <3> QED BY <3>1 DEF Free
  <2>2. CASE k > Len(p)
    <3>1. k - Len(p) \in 1..i /\ k \in 1..Len(p \o q) /\ k \notin 1..Len(p)
      BY <1>1, <2>2, Joined
    <3>2. (p \o q)[k] = q[k - Len(p)]
      BY <3>1, Joined
    <3> QED BY <1>1, <3>1, <3>2
  <2> QED BY <2>1, <2>2, Joined
<1> QED BY <1>2, <1>3 DEF Ahead

LEMMA FreeAhead ==
  ASSUME NEW S, NEW p \in Seq(S), NEW x, NEW key, Free(p, key), Among(p, x)
  PROVE  Ahead(p, x, key)
<1>1. PICK i \in 1..Len(p) : p[i] = x
  BY DEF Among
<1>2. \A k \in 1..i : k \in 1..Len(p)
  BY <1>1, LenProperties
<1> QED BY <1>1, <1>2 DEF Free, Ahead

LEMMA EachOf ==
  ASSUME NEW op, NEW names \in Seq(STRING)
  PROVE  /\ Each(op, names) \in Seq(Of(op, names))
         /\ \A x \in Of(op, names) : Among(Each(op, names), x)
<1>1. DOMAIN names = 1..Len(names) /\ Len(names) \in Nat
  BY LenProperties
<1>2. Each(op, names) \in [1..Len(names) -> Of(op, names)]
  BY <1>1 DEF Each, Of
<1>3. Each(op, names) \in Seq(Of(op, names)) /\ Len(Each(op, names)) = Len(names)
  BY <1>1, <1>2
<1>4. ASSUME NEW x \in Of(op, names) PROVE Among(Each(op, names), x)
  <2>1. PICK i \in DOMAIN names : x = [op |-> op, value |-> names[i]]
    BY DEF Of
  <2>2. Each(op, names)[i] = x
    BY <2>1 DEF Each
  <2> QED BY <1>1, <1>3, <2>2 DEF Among
<1> QED BY <1>3, <1>4

LEMMA FileLists ==
  /\ Config.checks \in Seq(STRING) /\ Config.peers \in Seq(STRING) /\ Config.alias \in Seq(STRING)
  /\ Config.thresholds \in [{"cpu", "mem", "disk"} -> 0..100]
<1>1. /\ File.thresholds \in [{"cpu", "mem", "disk"} -> Int]
      /\ File.checks \in Seq(STRING) /\ File.peers \in Seq(STRING) /\ File.alias \in Seq(STRING)
      /\ Validate(Config)
  BY SettingsAssumption
<1>2. /\ Config.checks = File.checks /\ Config.peers = File.peers /\ Config.alias = File.alias
      /\ DOMAIN Config.thresholds = DOMAIN File.thresholds
      /\ Config.thresholds = [t \in DOMAIN Config.thresholds |-> Config.thresholds[t]]
  BY DEF Config, applyDefaults
<1>3. \A t \in {"cpu", "mem", "disk"} : Config.thresholds[t] \in 0..100
  BY <1>1, <1>2 DEF Validate
<1> QED BY <1>1, <1>2, <1>3

(* The default rules, one by one. *)
DefaultSet ==
  {DefaultRule("check failing", "check_status", 0), DefaultRule("unreachable", "peer", 0)} \cup
  {DefaultRule(s, s, Config.thresholds[s]) : s \in {"cpu", "mem", "disk"}}
LEMMA DefaultsListed == Defaults \in Seq(DefaultSet)
<1>1. <<DefaultRule("check failing", "check_status", 0), DefaultRule("unreachable", "peer", 0)>> \in Seq(DefaultSet)
  BY DEF DefaultSet
<1>2. ASSUME NEW s \in {"cpu", "mem", "disk"} PROVE ThresholdRule(s) \in Seq(DefaultSet)
  <2>1. DefaultRule(s, s, Config.thresholds[s]) \in DefaultSet
    BY DEF DefaultSet
  <2>2. <<DefaultRule(s, s, Config.thresholds[s])>> \in Seq(DefaultSet)
    BY <2>1
  <2>3. <<>> \in Seq(DefaultSet)
    OBVIOUS
  <2> QED BY <2>2, <2>3 DEF ThresholdRule
<1> QED BY <1>1, <1>2, ConcatProperties DEF Defaults

(* What each kind of statement says. *)
NameOf(x) == IF x.op = "rule" THEN x.value.name ELSE x.value
LEMMA SeedKinds ==
  ASSUME NEW x \in SeedStmts
  PROVE  \/ x.op = "set" /\ x.key \in {"general", "notify"}
         \/ x.op \in {"check", "peer"} /\ <<x.op, NameOf(x)>> \in Seeds
         \/ x.op = "alias"
BY DEF SeedStmts, Of, Put, NameOf, Seeds

Evaluable(r) ==
  /\ r.source \in Numeric \cup {"check_status", "peer"}
  /\ r.source \in Numeric => r.comparator \in {">=", ">", "<=", "<"} /\ r.threshold >= 0
  /\ r.source \in Percent => r.threshold <= 100
  /\ r.source \in OfEntity <=> r.entity # ""
  /\ r.severity \in {"warning", "critical"}

DefaultShaped(d) ==
  /\ d.source \in {"check_status", "peer", "cpu", "mem", "disk"}
  /\ d.comparator \in {"", ">=", ">", "<=", "<"}
  /\ d.threshold \in 0..100 /\ d.severity = "critical"
LEMMA DefaultFields ==
  ASSUME NEW n, NEW s \in {"check_status", "peer", "cpu", "mem", "disk"}, NEW t \in 0..100
  PROVE  DefaultShaped(DefaultRule(n, s, t))
<1>1. PICK d : d = DefaultRule(n, s, t)
  OBVIOUS
<1>2. d.source = s /\ d.threshold = t /\ d.severity = "critical"
  BY <1>1 DEF DefaultRule
<1>3. d.comparator \in {"", ">=", ">", "<=", "<"}
  BY <1>1 DEF DefaultRule
<1> QED BY <1>1, <1>2, <1>3 DEF DefaultShaped

LEMMA DefaultShape == \A d \in DefaultSet : DefaultShaped(d)
<1>1. /\ DefaultShaped(DefaultRule("check failing", "check_status", 0))
      /\ DefaultShaped(DefaultRule("unreachable", "peer", 0))
  <2>1. 0 \in 0..100
    OBVIOUS
  <2>2. DefaultShaped(DefaultRule("check failing", "check_status", 0))
    BY <2>1, DefaultFields
  <2>3. DefaultShaped(DefaultRule("unreachable", "peer", 0))
    BY <2>1, DefaultFields
  <2> QED BY <2>2, <2>3
<1>2. ASSUME NEW s \in {"cpu", "mem", "disk"} PROVE DefaultShaped(DefaultRule(s, s, Config.thresholds[s]))
  <2>1. Config.thresholds[s] \in 0..100
    BY FileLists
  <2> QED BY <2>1, DefaultFields
<1> QED BY <1>1, <1>2 DEF DefaultSet

LEMMA NormalizedEvaluable ==
  ASSUME NEW r, r.source \in Numeric \cup {"check_status", "peer"},
         r.source \in Numeric => r.comparator \in {"", ">=", ">", "<=", "<"} /\ r.threshold \in Int /\ r.threshold >= 0,
         r.source \in Percent => r.threshold <= 100,
         r.severity \in {"", "warning", "critical"}
  PROVE  Evaluable(normalizeAlertRule(r))
<1>1. PICK n : n = normalizeAlertRule(r)
  OBVIOUS
<1>2. n.source = r.source
  BY <1>1 DEF normalizeAlertRule
<1>3. (r.source \in Numeric => n.threshold = r.threshold)
  BY <1>1 DEF normalizeAlertRule
<1>4. r.source \in Numeric => n.comparator \in {">=", ">", "<=", "<"}
  BY <1>1 DEF normalizeAlertRule
<1>5. n.severity \in {"warning", "critical"}
  BY <1>1 DEF normalizeAlertRule
<1>6. r.source \in OfEntity <=> n.entity # ""
  BY <1>1 DEF normalizeAlertRule
<1>7. r.source \in Percent => r.source \in Numeric
  BY DEF Percent, Numeric
<1> QED BY <1>1, <1>2, <1>3, <1>4, <1>5, <1>6, <1>7 DEF Evaluable

LEMMA RuleKinds ==
  ASSUME NEW x \in RuleStmts
  PROVE  x.op = "rule" /\ <<"rule", NameOf(x)>> \in Seeds /\ Evaluable(x.value)
<1>1. PICK i \in DOMAIN Defaults : x = [op |-> "rule", value |-> normalizeAlertRule(Defaults[i])]
  BY DEF RuleStmts
<1>2. Defaults[i] \in DefaultSet
  BY DefaultsListed, LenProperties
<1>3. PICK d : d = Defaults[i]
  OBVIOUS
<1>4. /\ x.op = "rule" /\ x.value = normalizeAlertRule(d)
  BY <1>1, <1>3
<1>5. NameOf(x) = d.name
  <2>1. normalizeAlertRule(d).name = d.name
    BY DEF normalizeAlertRule
  <2> QED BY <1>4, <2>1 DEF NameOf
<1>6. Evaluable(x.value)
  <2>1. /\ d.source \in Numeric \cup {"check_status", "peer"}
        /\ d.source \in Numeric => d.comparator \in {"", ">=", ">", "<=", "<"} /\ d.threshold \in Int /\ d.threshold >= 0
        /\ d.source \in Percent => d.threshold <= 100
        /\ d.severity \in {"", "warning", "critical"}
    <3>1. DefaultShaped(d)
      BY <1>2, <1>3, DefaultShape
    <3>2. d.source \in Numeric \cup {"check_status", "peer"}
      BY <3>1 DEF Numeric, DefaultShaped
    <3>3. d.threshold \in Int /\ d.threshold >= 0 /\ d.threshold <= 100
      <4>1. d.threshold \in 0..100
        BY <3>1 DEF DefaultShaped
      <4> QED BY <4>1
    <3>4. d.comparator \in {"", ">=", ">", "<=", "<"}
      BY <3>1 DEF DefaultShaped
    <3>5. d.severity \in {"", "warning", "critical"}
      BY <3>1 DEF DefaultShaped
    <3> QED BY <3>2, <3>3, <3>4, <3>5
  <2>2. Evaluable(normalizeAlertRule(d))
    BY <2>1, NormalizedEvaluable
  <2> QED BY <1>4, <2>2
<1> QED BY <1>3, <1>4, <1>5, <1>6 DEF Seeds

(* A start executes every seed before the flag "initialized", every        *)
(* default rule before the flag "alerts_seeded", and reloads last.         *)
LEMMA SeedFacts ==
  /\ seed \in Seq(Stmts) /\ Flagged(seed, "initialized") /\ Free(seed, "alerts_seeded")
  /\ \A x \in SeedStmts : Ahead(seed, x, "initialized")
<1> DEFINE two == <<Put("general", Seconds(Config.general)), Put("notify", Config.notify)>>
<1> DEFINE c == Each("check", Config.checks)
<1> DEFINE p == Each("peer", Config.peers)
<1> DEFINE a == Each("alias", Config.alias)
<1> DEFINE flag == <<Put("initialized", "1")>>
<1> DEFINE pre == two \o c \o p \o a
<1>1. two \in Seq(SeedStmts)
      /\ \A x \in {Put("general", Seconds(Config.general)), Put("notify", Config.notify)} : Among(two, x)
  <2>1. two \in Seq(SeedStmts) /\ Len(two) = 2
    BY DEF SeedStmts
  <2>2. two[1] = Put("general", Seconds(Config.general)) /\ two[2] = Put("notify", Config.notify)
    OBVIOUS
  <2> QED BY <2>1, <2>2 DEF Among
<1>2. /\ c \in Seq(Of("check", Config.checks)) /\ \A x \in Of("check", Config.checks) : Among(c, x)
      /\ p \in Seq(Of("peer", Config.peers)) /\ \A x \in Of("peer", Config.peers) : Among(p, x)
      /\ a \in Seq(Of("alias", Config.alias)) /\ \A x \in Of("alias", Config.alias) : Among(a, x)
  BY EachOf, FileLists
<1>3. c \in Seq(SeedStmts) /\ p \in Seq(SeedStmts) /\ a \in Seq(SeedStmts)
  <2>1. \A S : \A s \in Seq(S) : S \subseteq SeedStmts => s \in Seq(SeedStmts)
    OBVIOUS
  <2> QED BY <1>2, <2>1 DEF SeedStmts
<1>4. seed = pre \o flag
  BY DEF seed
<1> HIDE DEF two, c, p, a
<1>5. /\ two \o c \in Seq(SeedStmts) /\ two \o c \o p \in Seq(SeedStmts) /\ pre \in Seq(SeedStmts)
  BY <1>1, <1>3, ConcatProperties
<1>6. ASSUME NEW x \in SeedStmts PROVE Among(pre, x)
  <2>1. Among(two, x) \/ Among(c, x) \/ Among(p, x) \/ Among(a, x)
    BY <1>1, <1>2 DEF SeedStmts
  <2>2. Among(two, x) \/ Among(c, x) => Among(two \o c, x)
    BY <1>1, <1>3, AmongJoined
  <2>3. Among(two \o c, x) \/ Among(p, x) => Among(two \o c \o p, x)
    BY <1>3, <1>5, AmongJoined
  <2>4. Among(two \o c \o p, x) \/ Among(a, x) => Among(pre, x)
    BY <1>3, <1>5, AmongJoined
  <2> QED BY <2>1, <2>2, <2>3, <2>4
<1> HIDE DEF pre
<1>7. Free(pre, "initialized") /\ Free(pre, "alerts_seeded")
  <2>1. \A i \in 1..Len(pre) : pre[i] \in SeedStmts
    BY <1>5, LenProperties
  <2>2. \A x \in SeedStmts : ~Sets(x, "initialized") /\ ~Sets(x, "alerts_seeded")
    BY SeedKinds DEF Sets
  <2> QED BY <2>1, <2>2 DEF Free
<1>8. /\ flag \in Seq(Stmts) /\ Len(flag) = 1 /\ flag[1] = Put("initialized", "1")
      /\ pre \in Seq(Stmts)
  <2>1. Put("initialized", "1") \in Stmts /\ SeedStmts \subseteq Stmts
    BY DEF Stmts
  <2> QED BY <1>5, <2>1
<1>9. Sets(flag[1], "initialized") /\ ~Sets(flag[1], "alerts_seeded")
  BY <1>8 DEF Sets, Put
<1> HIDE DEF flag
<1>10. Flagged(seed, "initialized")
  <2>1. Flagged(flag, "initialized")
    BY <1>8, <1>9 DEF Flagged
  <2> QED BY <1>4, <1>8, <2>1, FlaggedJoined
<1>11. Free(seed, "alerts_seeded")
  <2>1. ASSUME NEW i \in 1..Len(pre \o flag) PROVE ~Sets((pre \o flag)[i], "alerts_seeded")
    <3>1. \/ i \in 1..Len(pre) /\ (pre \o flag)[i] = pre[i]
          \/ i - Len(pre) \in 1..Len(flag) /\ (pre \o flag)[i] = flag[i - Len(pre)]
      BY <1>8, Joined
    <3>2. \A j \in 1..Len(flag) : j = 1
      BY <1>8
    <3> QED BY <1>7, <1>9, <3>1, <3>2 DEF Free
  <2> QED BY <1>4, <2>1 DEF Free
<1>12. \A x \in SeedStmts : Ahead(seed, x, "initialized")
  BY <1>4, <1>5, <1>6, <1>7, <1>8, FreeAhead, AheadFirst
<1> QED BY <1>4, <1>8, <1>10, <1>11, <1>12, ConcatProperties

LEMMA RuleSeedFacts ==
  /\ seedAlertRulesOnce \in Seq(Stmts) /\ Flagged(seedAlertRulesOnce, "alerts_seeded")
  /\ \A x \in RuleStmts : Ahead(seedAlertRulesOnce, x, "alerts_seeded")
<1> DEFINE pre == [i \in DOMAIN Defaults |-> [op |-> "rule", value |-> normalizeAlertRule(Defaults[i])]]
<1> DEFINE flag == <<Put("alerts_seeded", "1")>>
<1>1. DOMAIN Defaults = 1..Len(Defaults) /\ Len(Defaults) \in Nat
  BY DefaultsListed, LenProperties
<1>2. pre \in [1..Len(Defaults) -> RuleStmts]
  BY <1>1 DEF RuleStmts
<1>3. pre \in Seq(RuleStmts) /\ Len(pre) = Len(Defaults)
  BY <1>1, <1>2
<1>4. ASSUME NEW x \in RuleStmts PROVE Among(pre, x)
  <2>1. PICK i \in DOMAIN Defaults : x = [op |-> "rule", value |-> normalizeAlertRule(Defaults[i])]
    BY DEF RuleStmts
  <2>2. pre[i] = x
    BY <2>1
  <2> QED BY <1>1, <1>3, <2>2 DEF Among
<1>5. seedAlertRulesOnce = pre \o flag
  BY DEF seedAlertRulesOnce
<1> HIDE DEF pre
<1>6. Free(pre, "alerts_seeded")
  <2>1. \A i \in 1..Len(pre) : pre[i] \in RuleStmts
    BY <1>3, LenProperties
  <2> QED BY <2>1, RuleKinds DEF Free, Sets
<1>7. /\ flag \in Seq(Stmts) /\ Len(flag) = 1 /\ flag[1] = Put("alerts_seeded", "1")
      /\ pre \in Seq(Stmts)
  <2>1. Put("alerts_seeded", "1") \in Stmts /\ RuleStmts \subseteq Stmts
    BY DEF Stmts
  <2> QED BY <1>3, <2>1
<1>8. Sets(flag[1], "alerts_seeded")
  BY <1>7 DEF Sets, Put
<1> HIDE DEF flag
<1>9. Flagged(seedAlertRulesOnce, "alerts_seeded")
  <2>1. Flagged(flag, "alerts_seeded")
    BY <1>7, <1>8 DEF Flagged
  <2> QED BY <1>5, <1>7, <2>1, FlaggedJoined
<1>10. \A x \in RuleStmts : Ahead(seedAlertRulesOnce, x, "alerts_seeded")
  BY <1>3, <1>4, <1>5, <1>6, <1>7, FreeAhead, AheadFirst
<1> QED BY <1>5, <1>7, <1>9, <1>10, ConcatProperties

(* The last statement is the reload, and the flags that are set are not    *)
(* set again.                                                              *)
Ends(s) == s # <<>> => s[Len(s)] = Reload
LEMMA StartsFacts ==
  ASSUME NEW D
  PROVE  /\ Starts(D) \in Seq(Stmts) /\ Starts(D) # <<>> /\ Ends(Starts(D))
         /\ "initialized" \notin D => /\ Flagged(Starts(D), "initialized")
                                      /\ \A x \in SeedStmts : Ahead(Starts(D), x, "initialized")
         /\ "alerts_seeded" \notin D => /\ Flagged(Starts(D), "alerts_seeded")
                                        /\ \A x \in RuleStmts : Ahead(Starts(D), x, "alerts_seeded")
<1> DEFINE a == IF "initialized" \in D THEN <<>> ELSE seed
<1> DEFINE b == IF "alerts_seeded" \in D THEN <<>> ELSE seedAlertRulesOnce
<1> DEFINE last == <<Reload>>
<1>1. last \in Seq(Stmts) /\ Len(last) = 1 /\ last[1] = Reload
  BY DEF Stmts
<1>2. <<>> \in Seq(Stmts) /\ Free(<<>>, "alerts_seeded")
  BY DEF Free
<1>3. a \in Seq(Stmts) /\ Free(a, "alerts_seeded")
  BY <1>2, SeedFacts
<1>4. b \in Seq(Stmts)
  BY <1>2, RuleSeedFacts
<1>5. Starts(D) = a \o b \o last
  BY DEF Starts
<1>6. "initialized" \notin D =>
        Flagged(a, "initialized") /\ \A x \in SeedStmts : Ahead(a, x, "initialized")
  BY SeedFacts
<1>7. "alerts_seeded" \notin D =>
        Flagged(b, "alerts_seeded") /\ \A x \in RuleStmts : Ahead(b, x, "alerts_seeded")
  BY RuleSeedFacts
<1> HIDE DEF a, b, last
<1>8. a \o b \in Seq(Stmts)
  BY <1>3, <1>4, ConcatProperties
<1>9. /\ Starts(D) \in Seq(Stmts) /\ Len(Starts(D)) = Len(a \o b) + 1 /\ Len(a \o b) \in Nat
      /\ Starts(D)[Len(a \o b) + 1] = Reload
  <2>1. /\ a \o b \o last \in Seq(Stmts) /\ Len(a \o b \o last) = Len(a \o b) + Len(last)
        /\ Len(a \o b) \in Nat
    BY <1>1, <1>8, ConcatProperties, LenProperties
  <2>2. \A i \in 1..Len(a \o b) + Len(last) :
           (a \o b \o last)[i] = IF i <= Len(a \o b) THEN (a \o b)[i] ELSE last[i - Len(a \o b)]
    BY <1>1, <1>8, ConcatProperties
  <2>3. (a \o b \o last)[Len(a \o b) + 1] = last[1]
    BY <1>1, <2>1, <2>2
  <2> QED BY <1>1, <1>5, <2>1, <2>3
<1>10. Starts(D) # <<>> /\ Ends(Starts(D))
  BY <1>9 DEF Ends
<1>11. ASSUME "initialized" \notin D
       PROVE  /\ Flagged(Starts(D), "initialized")
              /\ \A x \in SeedStmts : Ahead(Starts(D), x, "initialized")
  <2>1. Flagged(a \o b, "initialized") /\ \A x \in SeedStmts : Ahead(a \o b, x, "initialized")
    BY <1>3, <1>4, <1>6, <1>11, FlaggedJoined, AheadFirst
  <2> QED BY <1>1, <1>5, <1>8, <2>1, FlaggedJoined, AheadFirst
<1>12. ASSUME "alerts_seeded" \notin D
       PROVE  /\ Flagged(Starts(D), "alerts_seeded")
              /\ \A x \in RuleStmts : Ahead(Starts(D), x, "alerts_seeded")
  <2>1. Flagged(a \o b, "alerts_seeded") /\ \A x \in RuleStmts : Ahead(a \o b, x, "alerts_seeded")
    BY <1>3, <1>4, <1>7, <1>12, FlaggedJoined, AheadLater
  <2> QED BY <1>1, <1>5, <1>8, <2>1, FlaggedJoined, AheadFirst
<1> QED BY <1>9, <1>10, <1>11, <1>12
---------------------------------------------------------------------------
(* Wherever a start was cut short: what the flag says is done is there, or *)
(* was deleted since; what is not done yet is ahead of its flag.           *)
There(kind, name) ==
  \/ kind = "check" /\ \E c \in check : c.name = name
  \/ kind = "peer" /\ name \in peer
  \/ kind = "rule" /\ \E r \in rule : r.name = name
Known(kind, name) == <<kind, name>> \in removed \/ There(kind, name)
Sown(x) ==
  /\ x.op = "set" => x.key \in DOMAIN setting
  /\ x.op = "alias" => alias
  /\ x.op \in {"check", "peer", "rule"} => Known(x.op, NameOf(x))
Progress(key, X) ==
  /\ key \in DOMAIN setting => \A x \in X : Sown(x)
  /\ key \notin DOMAIN setting => Flagged(boot, key) /\ \A x \in X : Sown(x) \/ Ahead(boot, x, key)
BootInv ==
  /\ boot \in Seq(Stmts) /\ Ends(boot)
  /\ Progress("initialized", SeedStmts) /\ Progress("alerts_seeded", RuleStmts)
  /\ ~Serving => NoEdits /\ stale = {}

(* No step takes a setting or the alias away, and a row of the file that   *)
(* goes is among the removed.                                              *)
LEMMA SettingsGrow ==
  ASSUME [SettingsStep]_settingsVars
  PROVE  DOMAIN setting \subseteq DOMAIN setting' /\ (alias => alias')
<1>1. CASE UNCHANGED tables
  BY <1>1 DEF tables
<1>2. CASE LoadNext
  BY <1>2 DEF LoadNext, SetSetting, tables
<1>3. CASE SettingsServe
  <2>1. ASSUME NEW e \in Editor, NEW key, NEW v, handlePut(e, key, v)
        PROVE  DOMAIN setting \subseteq DOMAIN setting' /\ (alias => alias')
    BY <2>1 DEF handlePut, SetSetting
  <2>2. ASSUME NEW e \in Editor, NEW b, NEW id,
               handleCreateAlert(e, b) \/ handleUpdateAlert(e, id, b) \/ handleDeleteAlert(e, id)
        PROVE  UNCHANGED <<setting, alias>>
    BY <2>2 DEF handleCreateAlert, handleUpdateAlert, handleDeleteAlert
  <2>3. ASSUME NEW e \in Editor, ListAlertRules(e) \/ Store(e) \/ ForgetRule(e)
        PROVE  DOMAIN setting \subseteq DOMAIN setting' /\ (alias => alias')
    BY <2>3 DEF ListAlertRules, Store, ForgetRule, tables
  <2>4. ASSUME NEW x, DeleteCheckConfig(x) \/ DeletePeer(x) PROVE UNCHANGED <<setting, alias>>
    BY <2>4 DEF DeleteCheckConfig, DeletePeer
  <2> QED BY <1>3, <2>1, <2>2, <2>3, <2>4 DEF SettingsServe
<1>4. CASE evaluate \/ \E p \in todo : evalRule(p)
  BY <1>1, <1>4 DEF evaluate, evalRule
<1>5. CASE SettingsRestart \/ UNCHANGED settingsVars
  BY <1>1, <1>5 DEF SettingsRestart, settingsVars
<1> QED BY <1>2, <1>3, <1>4, <1>5 DEF SettingsStep, SettingsRun

LEMMA UpdateKeeps ==
  ASSUME NEW e, NEW id, NEW b, handleUpdateAlert(e, id, b),
         NEW name, <<"rule", name>> \in Seeds, Known("rule", name)
  PROVE  Known("rule", name)'
<1> DEFINE r == WithId(normalizeAlertRule(b), id)
<1>1. r.name = b.name /\ r.id = id
  BY DEF WithId, normalizeAlertRule
<1>2. /\ rule' = {x \in rule : x.id # r.id} \cup {r}
      /\ removed' = removed \cup ({<<"rule", x.name>> : x \in {y \in rule : y.id = id /\ y.name # b.name}} \cap Seeds)
  BY DEF handleUpdateAlert, UpdateAlertRule, Gone
<1> HIDE DEF r
<1>3. CASE <<"rule", name>> \in removed
  BY <1>2, <1>3 DEF Known
<1>4. ASSUME NEW x \in rule, x.name = name PROVE Known("rule", name)'
  <2>1. CASE x.id # id
    BY <1>1, <1>2, <1>4, <2>1 DEF Known, There
  <2>2. CASE x.id = id /\ x.name = b.name
    BY <1>1, <1>2, <1>4, <2>2 DEF Known, There
  <2>3. CASE x.id = id /\ x.name # b.name
    BY <1>2, <1>4, <2>3 DEF Known
  <2> QED BY <2>1, <2>2, <2>3
<1> QED BY <1>3, <1>4 DEF Known, There

LEMMA DeleteKeeps ==
  ASSUME NEW e, NEW id, handleDeleteAlert(e, id),
         NEW name, <<"rule", name>> \in Seeds, Known("rule", name)
  PROVE  Known("rule", name)'
<1>1. /\ rule' = {x \in rule : x.id # id}
      /\ removed' = removed \cup ({<<"rule", x.name>> : x \in {y \in rule : y.id = id}} \cap Seeds)
  BY DEF handleDeleteAlert, DeleteAlertRule, Gone
<1>2. CASE <<"rule", name>> \in removed
  BY <1>1, <1>2 DEF Known
<1>3. ASSUME NEW x \in rule, x.name = name PROVE Known("rule", name)'
  BY <1>1, <1>3 DEF Known, There
<1> QED BY <1>2, <1>3 DEF Known, There

LEMMA KnownStays ==
  ASSUME [SettingsStep]_settingsVars, NEW kind, NEW name, <<kind, name>> \in Seeds, Known(kind, name)
  PROVE  Known(kind, name)'
<1>1. CASE check \subseteq check' /\ peer \subseteq peer' /\ rule \subseteq rule' /\ removed \subseteq removed'
  BY <1>1 DEF Known, There
<1>2. CASE LoadNext
  BY <1>1, <1>2 DEF LoadNext, CreateAlertRule, tables, ghosts
<1>3. CASE SettingsServe
  <2>1. ASSUME NEW e \in Editor, NEW id, NEW b, handleUpdateAlert(e, id, b)
        PROVE  Known(kind, name)'
    <3>1. UNCHANGED <<check, peer>> /\ removed \subseteq removed'
      BY <2>1 DEF handleUpdateAlert, Gone
    <3>2. CASE kind = "rule"
      BY <2>1, <3>2, UpdateKeeps
    <3>3. CASE kind # "rule"
      BY <3>1, <3>3 DEF Known, There
    <3> QED BY <3>2, <3>3
  <2>2. ASSUME NEW e \in Editor, NEW id, handleDeleteAlert(e, id)
        PROVE  Known(kind, name)'
    <3>1. UNCHANGED <<check, peer>> /\ removed \subseteq removed'
      BY <2>2 DEF handleDeleteAlert, Gone
    <3>2. CASE kind = "rule"
      BY <2>2, <3>2, DeleteKeeps
    <3>3. CASE kind # "rule"
      BY <3>1, <3>3 DEF Known, There
    <3> QED BY <3>2, <3>3
  <2>3. ASSUME NEW e \in Editor, NEW b, handleCreateAlert(e, b)
        PROVE  Known(kind, name)'
    BY <1>1, <2>3 DEF handleCreateAlert, CreateAlertRule
  <2>4. ASSUME NEW e \in Editor, NEW key, NEW v, handlePut(e, key, v)
        PROVE  Known(kind, name)'
    BY <1>1, <2>4 DEF handlePut
  <2>5. ASSUME NEW e \in Editor, ListAlertRules(e) \/ Store(e) \/ ForgetRule(e)
        PROVE  Known(kind, name)'
    BY <1>1, <2>5 DEF ListAlertRules, Store, ForgetRule, tables, ghosts
  <2>6. ASSUME NEW c \in check, DeleteCheckConfig(c) PROVE Known(kind, name)'
    <3>1. /\ check' = check \ {c} /\ removed' = removed \cup ({<<"check", c.name>>} \cap Seeds)
          /\ UNCHANGED <<peer, rule>>
      BY <2>6 DEF DeleteCheckConfig, Gone
    <3> QED BY <3>1 DEF Known, There
  <2>7. ASSUME NEW p \in peer, DeletePeer(p) PROVE Known(kind, name)'
    <3>1. /\ peer' = peer \ {p} /\ removed' = removed \cup ({<<"peer", p>>} \cap Seeds)
          /\ UNCHANGED <<check, rule>>
      BY <2>7 DEF DeletePeer, Gone
    <3> QED BY <3>1 DEF Known, There
  <2> QED BY <1>3, <2>1, <2>2, <2>3, <2>4, <2>5, <2>6, <2>7 DEF SettingsServe
<1>4. CASE evaluate \/ \E p \in todo : evalRule(p)
  BY <1>1, <1>4 DEF evaluate, evalRule, tables, ghosts
<1>5. CASE SettingsRestart \/ UNCHANGED settingsVars
  BY <1>1, <1>5 DEF SettingsRestart, settingsVars, tables, ghosts
<1> QED BY <1>2, <1>3, <1>4, <1>5 DEF SettingsStep, SettingsRun

LEMMA SownStays ==
  ASSUME [SettingsStep]_settingsVars, NEW x \in SeedStmts \cup RuleStmts, Sown(x)
  PROVE  Sown(x)'
<1>1. CASE x.op = "set"
  BY <1>1, SettingsGrow DEF Sown
<1>2. CASE x.op = "alias"
  BY <1>2, SettingsGrow DEF Sown
<1>3. CASE x.op \in {"check", "peer", "rule"}
  <2>1. <<x.op, NameOf(x)>> \in Seeds
    BY <1>3, SeedKinds, RuleKinds
  <2>2. Known(x.op, NameOf(x))'
    BY <1>3, <2>1, KnownStays DEF Sown
  <2> QED BY <1>3, <2>2 DEF Sown
<1> QED BY <1>1, <1>2, <1>3, SeedKinds, RuleKinds

LEMMA ExecutedSown ==
  ASSUME LoadNext, NEW x \in SeedStmts \cup RuleStmts, Head(boot) = x
  PROVE  Sown(x)'
<1>1. CASE x.op = "set"
  BY <1>1 DEF LoadNext, SetSetting, Sown
<1>2. CASE x.op = "alias"
  BY <1>2 DEF LoadNext, Sown
<1>3. CASE x.op = "check"
  <2>1. \E c \in check' : c.name = x.value
    <3>1. check' = check \cup {[id |-> Cardinality(check) + 1, name |-> x.value]}
      BY <1>3 DEF LoadNext
    <3>2. [id |-> Cardinality(check) + 1, name |-> x.value].name = x.value
      OBVIOUS
    <3> QED BY <3>1, <3>2
  <2> QED BY <1>3, <2>1 DEF Sown, Known, There, NameOf
<1>4. CASE x.op = "peer"
  BY <1>4 DEF LoadNext, Sown, Known, There, NameOf
<1>5. CASE x.op = "rule"
  <2>1. rule' = rule \cup {WithId(x.value, rules + 1)}
    BY <1>5 DEF LoadNext, CreateAlertRule
  <2>2. WithId(x.value, rules + 1).name = x.value.name
    BY DEF WithId
  <2>3. \E r \in rule' : r.name = x.value.name
    BY <2>1, <2>2
  <2> QED BY <1>5, <2>3 DEF Sown, Known, There, NameOf
<1> QED BY <1>1, <1>2, <1>3, <1>4, <1>5, SeedKinds, RuleKinds

(* One statement is executed: it is sown; those behind it move up.         *)
LEMMA LoadProgress ==
  ASSUME boot \in Seq(Stmts), LoadNext, NEW key, NEW X, X \subseteq SeedStmts \cup RuleStmts,
         Progress(key, X)
  PROVE  Progress(key, X)'
<1>1. /\ boot # <<>> /\ boot' = Tail(boot) /\ [SettingsStep]_settingsVars
  BY DEF LoadNext, Serving, SettingsStep, SettingsRun
<1>2. /\ Len(boot) \in Nat /\ Len(boot) > 0 /\ Head(boot) = boot[1]
      /\ Len(boot') = Len(boot) - 1 /\ \A i \in 1..Len(boot') : boot'[i] = boot[i + 1]
  BY <1>1, HeadTailProperties, EmptySeq, LenProperties
<1>3. ASSUME NEW x \in X, Sown(x) PROVE Sown(x)'
  BY <1>1, <1>3, SownStays
<1>4. ASSUME NEW x \in X, boot[1] = x PROVE Sown(x)'
  BY <1>2, <1>4, ExecutedSown
<1>5. CASE key \in DOMAIN setting
  <2>1. key \in (DOMAIN setting)'
    BY <1>1, <1>5, SettingsGrow
  <2>2. \A x \in X : Sown(x)'
    BY <1>3, <1>5 DEF Progress
  <2> QED BY <2>1, <2>2 DEF Progress
<1>6. CASE key \notin DOMAIN setting /\ Sets(boot[1], key)
  <2>1. key \in (DOMAIN setting)'
    BY <1>2, <1>6 DEF LoadNext, SetSetting, Sets
  <2>2. ASSUME NEW x \in X PROVE Sown(x)'
    <3>1. Sown(x) \/ Ahead(boot, x, key)
      BY <1>6 DEF Progress
    <3>2. ~Ahead(boot, x, key)
      BY <1>2, <1>6 DEF Ahead
    <3> QED BY <1>3, <3>1, <3>2
  <2> QED BY <2>1, <2>2 DEF Progress
<1>7. CASE key \notin DOMAIN setting /\ ~Sets(boot[1], key)
  <2>1. key \notin (DOMAIN setting)'
    BY <1>2, <1>7 DEF LoadNext, SetSetting, Sets, tables
  <2>2. Flagged(boot', key)
    <3>1. PICK i \in 1..Len(boot) : Sets(boot[i], key)
      BY <1>7 DEF Progress, Flagged
    <3>2. i - 1 \in 1..Len(boot') /\ boot'[i - 1] = boot[i]
      BY <1>2, <1>7, <3>1
    <3> QED BY <3>1, <3>2 DEF Flagged
  <2>3. ASSUME NEW x \in X PROVE Sown(x)' \/ Ahead(boot', x, key)
    <3>1. CASE Sown(x)
      BY <1>3, <3>1
    <3>2. CASE Ahead(boot, x, key)
      <4>1. PICK i \in 1..Len(boot) : boot[i] = x /\ \A k \in 1..i : ~Sets(boot[k], key)
        BY <3>2 DEF Ahead
      <4>2. CASE i = 1
        BY <1>4, <4>1, <4>2
      <4>3. CASE i # 1
        <5>1. i - 1 \in 1..Len(boot') /\ boot'[i - 1] = x
          BY <1>2, <4>1, <4>3
        <5>2. ASSUME NEW k \in 1..(i - 1) PROVE ~Sets(boot'[k], key)
          <6>1. k \in 1..Len(boot') /\ k + 1 \in 1..i /\ boot'[k] = boot[k + 1]
            BY <1>2, <4>1, <5>1
          <6> QED BY <4>1, <6>1
        <5> QED BY <5>1, <5>2 DEF Ahead
      <4> QED BY <4>2, <4>3
    <3> QED BY <1>7, <3>1, <3>2 DEF Progress
  <2> QED BY <2>1, <2>2, <2>3 DEF Progress
<1> QED BY <1>5, <1>6, <1>7

LEMMA LoadBoots ==
  ASSUME BootInv, LoadNext
  PROVE  BootInv'
<1>1. /\ boot # <<>> /\ boot' = Tail(boot) /\ UNCHANGED <<edit, stale>>
  BY DEF LoadNext, Serving, ghosts
<1>2. /\ boot' \in Seq(Stmts)
      /\ Len(boot) \in Nat /\ Len(boot') = Len(boot) - 1
      /\ \A i \in 1..Len(boot') : boot'[i] = boot[i + 1]
  BY <1>1, HeadTailProperties, LenProperties DEF BootInv
<1>3. Ends(boot)'
  <2>1. SUFFICES ASSUME boot' # <<>> PROVE boot'[Len(boot')] = Reload
    BY DEF Ends
  <2>2. Len(boot') \in 1..Len(boot')
    BY <1>2, <2>1, EmptySeq
  <2>3. boot'[Len(boot')] = boot[Len(boot)]
    BY <1>2, <2>2
  <2> QED BY <1>1, <2>3 DEF BootInv, Ends
<1>4. Progress("initialized", SeedStmts)' /\ Progress("alerts_seeded", RuleStmts)'
  BY LoadProgress DEF BootInv
<1>5. (~Serving => NoEdits /\ stale = {})'
  BY <1>1 DEF BootInv, Serving, NoEdits, Idle
<1> QED BY <1>2, <1>3, <1>4, <1>5 DEF BootInv

(* The other steps of a process that serves leave no statement behind.     *)
LEMMA ProgressStays ==
  ASSUME [SettingsStep]_settingsVars, UNCHANGED boot, NEW key, NEW X, X \subseteq SeedStmts \cup RuleStmts,
         Progress(key, X), key \in DOMAIN setting \/ key \notin (DOMAIN setting)'
  PROVE  Progress(key, X)'
<1>1. ASSUME NEW x \in X, Sown(x) PROVE Sown(x)'
  BY <1>1, SownStays
<1>2. DOMAIN setting \subseteq (DOMAIN setting)'
  BY SettingsGrow
<1> QED BY <1>1, <1>2 DEF Progress

LEMMA ServingSeeded ==
  ASSUME BootInv, Serving
  PROVE  /\ "initialized" \in DOMAIN setting /\ "alerts_seeded" \in DOMAIN setting
         /\ "general" \in DOMAIN setting /\ "notify" \in DOMAIN setting
         /\ \A x \in SeedStmts \cup RuleStmts : Sown(x)
<1>1. Len(boot) = 0
  BY EmptySeq DEF Serving
<1>2. \A key : ~Flagged(boot, key)
  BY <1>1 DEF Flagged
<1>3. "initialized" \in DOMAIN setting /\ "alerts_seeded" \in DOMAIN setting
  BY <1>2 DEF BootInv, Progress
<1>4. \A x \in SeedStmts \cup RuleStmts : Sown(x)
  BY <1>3 DEF BootInv, Progress
<1>5. /\ Put("general", Seconds(Config.general)) \in SeedStmts /\ Put("notify", Config.notify) \in SeedStmts
      /\ Put("general", Seconds(Config.general)).op = "set" /\ Put("general", Seconds(Config.general)).key = "general"
      /\ Put("notify", Config.notify).op = "set" /\ Put("notify", Config.notify).key = "notify"
  BY DEF Put, SeedStmts
<1>6. "general" \in DOMAIN setting /\ "notify" \in DOMAIN setting
  BY <1>4, <1>5 DEF Sown
<1> QED BY <1>3, <1>4, <1>6

LEMMA StartBoots ==
  ASSUME boot = Load, NoEdits, stale = {},
         "initialized" \in DOMAIN setting => \A x \in SeedStmts : Sown(x),
         "alerts_seeded" \in DOMAIN setting => \A x \in RuleStmts : Sown(x)
  PROVE  BootInv
<1>1. boot = Starts(DOMAIN setting)
  BY DEF Load, Starts, Reload
<1>2. boot \in Seq(Stmts) /\ Ends(boot)
  BY <1>1, StartsFacts
<1>3. Progress("initialized", SeedStmts) /\ Progress("alerts_seeded", RuleStmts)
  BY <1>1, StartsFacts DEF Progress
<1> QED BY <1>2, <1>3 DEF BootInv

LEMMA RestartBoots ==
  ASSUME BootInv, SettingsRestart
  PROVE  BootInv'
<1>1. /\ boot' = Load /\ edit' = [e \in Editor |-> NoEdit] /\ stale' = {} /\ UNCHANGED tables
  BY DEF SettingsRestart
<1>2. boot' = Starts(DOMAIN setting) /\ (DOMAIN setting)' = DOMAIN setting
  BY <1>1 DEF Load, Starts, Reload, tables
<1>3. ASSUME NEW x \in SeedStmts \cup RuleStmts, Sown(x) PROVE Sown(x)'
  BY <1>3, SownStays DEF SettingsStep
<1>4. boot' \in Seq(Stmts) /\ Ends(boot')
  BY <1>2, StartsFacts
<1>5. Progress("initialized", SeedStmts)'
  <2>1. "initialized" \in DOMAIN setting => \A x \in SeedStmts : Sown(x)'
    BY <1>3 DEF BootInv, Progress
  <2>2. "initialized" \notin DOMAIN setting =>
          Flagged(boot', "initialized") /\ \A x \in SeedStmts : Ahead(boot', x, "initialized")
    BY <1>2, StartsFacts
  <2> QED BY <1>2, <2>1, <2>2 DEF Progress
<1>6. Progress("alerts_seeded", RuleStmts)'
  <2>1. "alerts_seeded" \in DOMAIN setting => \A x \in RuleStmts : Sown(x)'
    BY <1>3 DEF BootInv, Progress
  <2>2. "alerts_seeded" \notin DOMAIN setting =>
          Flagged(boot', "alerts_seeded") /\ \A x \in RuleStmts : Ahead(boot', x, "alerts_seeded")
    BY <1>2, StartsFacts
  <2> QED BY <1>2, <2>1, <2>2 DEF Progress
<1>7. NoEdits' /\ stale' = {}
  BY <1>1 DEF NoEdits, Idle, NoEdit
<1> QED BY <1>4, <1>5, <1>6, <1>7 DEF BootInv, Ends

(* Only a process that serves takes requests and evaluates.                *)
LEMMA OnlyServing ==
  ASSUME BootInv, SettingsServe \/ evaluate \/ \E p \in todo : evalRule(p)
  PROVE  Serving /\ UNCHANGED boot
<1>1. ASSUME NEW e \in Editor, NEW b, NEW id,
             handleCreateAlert(e, b) \/ handleUpdateAlert(e, id, b) \/ handleDeleteAlert(e, id)
      PROVE  Serving /\ UNCHANGED boot
  BY <1>1 DEF handleCreateAlert, handleUpdateAlert, handleDeleteAlert, Submit
<1>2. ASSUME NEW e \in Editor, NEW key, NEW v, handlePut(e, key, v)
      PROVE  Serving /\ UNCHANGED boot
  BY <1>2 DEF handlePut, Submit
<1>3. ASSUME NEW e \in Editor, ListAlertRules(e) \/ Store(e) \/ ForgetRule(e)
      PROVE  Serving /\ UNCHANGED boot
  <2>1. ~NoEdits /\ UNCHANGED boot
    BY <1>3 DEF ListAlertRules, Store, ForgetRule, NoEdits, Idle
  <2> QED BY <2>1 DEF BootInv
<1>4. ASSUME NEW x, DeleteCheckConfig(x) \/ DeletePeer(x)
      PROVE  Serving /\ UNCHANGED boot
  BY <1>4 DEF DeleteCheckConfig, DeletePeer, service
<1>5. CASE evaluate \/ \E p \in todo : evalRule(p)
  BY <1>5 DEF evaluate, evalRule, service
<1> QED BY <1>1, <1>2, <1>3, <1>4, <1>5 DEF SettingsServe

LEMMA BootInductive == BootInv /\ [Next]_vars => BootInv'
<1> SUFFICES ASSUME BootInv, [SettingsStep]_settingsVars PROVE BootInv'
  BY StepsOfSettings
<1>1. CASE UNCHANGED settingsVars
  <2>1. UNCHANGED <<setting, boot, edit, stale>>
    BY <1>1 DEF settingsVars, tables, service, ghosts
  <2>2. Progress("initialized", SeedStmts)' /\ Progress("alerts_seeded", RuleStmts)'
    BY <2>1, ProgressStays DEF BootInv
  <2> QED BY <2>1, <2>2 DEF BootInv, Ends, Serving, NoEdits, Idle
<1>2. CASE SettingsServe \/ evaluate \/ \E p \in todo : evalRule(p)
  <2>1. Serving /\ UNCHANGED boot
    BY <1>2, OnlyServing
  <2>2. Progress("initialized", SeedStmts)' /\ Progress("alerts_seeded", RuleStmts)'
    BY <2>1, ServingSeeded, ProgressStays DEF BootInv
  <2> QED BY <2>1, <2>2 DEF BootInv, Ends, Serving
<1> QED BY <1>1, <1>2, LoadBoots, RestartBoots DEF SettingsStep, SettingsRun

LEMMA BootInitially == Init => BootInv
<1> SUFFICES ASSUME Init PROVE BootInv
  OBVIOUS
<1>1. /\ boot = Load /\ edit = [e \in Editor |-> NoEdit] /\ stale = {}
  BY DEF Init, SettingsInit
<1>2. NoEdits
  BY <1>1 DEF NoEdits, Idle, NoEdit
<1>3. CASE setting = <<>>
  <2>1. DOMAIN setting = {}
    BY <1>3
  <2> QED BY <1>1, <1>2, <2>1, StartBoots
<1>4. CASE /\ setting = [initialized |-> "1", general |-> Seconds(Config.general), notify |-> Config.notify]
           /\ check = {[id |-> i, name |-> Config.checks[i]] : i \in DOMAIN Config.checks}
           /\ peer = {Config.peers[i] : i \in DOMAIN Config.peers}
           /\ alias = (Config.alias # <<>>)
  <2>1. DOMAIN setting = {"initialized", "general", "notify"}
    BY <1>4
  <2>2. ASSUME NEW x \in SeedStmts PROVE Sown(x)
    <3>1. CASE x.op = "set"
      BY <2>1, <3>1, SeedKinds DEF Sown
    <3>2. CASE x \in Of("check", Config.checks)
      <4>1. PICK i \in DOMAIN Config.checks : x = [op |-> "check", value |-> Config.checks[i]]
        BY <3>2 DEF Of
      <4>2. PICK c \in check : c = [id |-> i, name |-> Config.checks[i]]
        BY <1>4
      <4>3. c.name = x.value /\ x.op = "check"
        BY <4>1, <4>2
      <4> QED BY <4>3 DEF Sown, Known, There, NameOf
    <3>3. CASE x \in Of("peer", Config.peers)
      <4>1. PICK i \in DOMAIN Config.peers : x = [op |-> "peer", value |-> Config.peers[i]]
        BY <3>3 DEF Of
      <4>2. x.value \in peer /\ x.op = "peer"
        BY <1>4, <4>1
      <4> QED BY <4>2 DEF Sown, Known, There, NameOf
    <3>4. CASE x \in Of("alias", Config.alias)
      <4>1. PICK i \in DOMAIN Config.alias : x = [op |-> "alias", value |-> Config.alias[i]]
        BY <3>4 DEF Of
      <4>2. Config.alias # <<>> /\ x.op = "alias"
        BY <4>1
      <4> QED BY <1>4, <4>2 DEF Sown
    <3> QED BY <3>1, <3>2, <3>3, <3>4 DEF SeedStmts, Put
  <2> QED BY <1>1, <1>2, <2>1, <2>2, StartBoots
<1> QED BY <1>3, <1>4 DEF Init, SettingsInit

LEMMA Boots == Spec => []BootInv
BY BootInitially, BootInductive, PTL DEF Spec
---------------------------------------------------------------------------
(* Rules reach the table normalized and validated, or normalized from the  *)
(* file's thresholds.                                                      *)
LEMMA ValidEvaluable ==
  ASSUME NEW b, validateAlertRule(normalizeAlertRule(b))
  PROVE  Evaluable(normalizeAlertRule(b))
<1> DEFINE n == normalizeAlertRule(b)
<1>1. n.source \in OfEntity <=> n.entity # ""
  BY DEF normalizeAlertRule
<1> HIDE DEF n
<1>2. /\ n.source \in Numeric \cup {"check_status", "peer"}
      /\ n.source \in Numeric => n.comparator \in {">=", ">", "<=", "<"}
      /\ n.severity \in {"warning", "critical"}
  BY DEF validateAlertRule, n
<1>3. (n.source \in Numeric => n.threshold >= 0)
      /\ (n.source \in Percent => n.threshold <= 100)
  BY DEF validateAlertRule, n, Percent, Numeric
<1>4. Evaluable(n)
  BY <1>1, <1>2, <1>3 DEF Evaluable
<1> QED BY <1>4 DEF n

LEMMA NumberedEvaluable ==
  ASSUME NEW r, NEW id, Evaluable(r)
  PROVE  Evaluable(WithId(r, id))
<1> DEFINE n == WithId(r, id)
<1>1. /\ n.source = r.source /\ n.entity = r.entity /\ n.comparator = r.comparator
      /\ n.threshold = r.threshold /\ n.severity = r.severity
  BY DEF WithId
<1> HIDE DEF n
<1>2. Evaluable(n)
  BY <1>1 DEF Evaluable
<1> QED BY <1>2 DEF n

RulesSound == \A r \in rule : Evaluable(r)

LEMMA RulesInductive == BootInv /\ RulesSound /\ [Next]_vars => RulesSound'
<1> SUFFICES ASSUME BootInv, RulesSound, [SettingsStep]_settingsVars PROVE RulesSound'
  BY StepsOfSettings
<1>1. CASE UNCHANGED rule
  BY <1>1 DEF RulesSound
<1>2. CASE LoadNext
  <2>1. CASE Head(boot).op = "rule"
    <3>1. boot # <<>> /\ rule' = rule \cup {WithId(Head(boot).value, rules + 1)}
      BY <1>2, <2>1 DEF LoadNext, Serving, CreateAlertRule
    <3>2. Head(boot) \in Stmts
      BY <3>1, HeadTailProperties DEF BootInv
    <3>3. Head(boot) \in RuleStmts
      <4>1. PICK s \in Stmts : s = Head(boot)
        BY <3>2
      <4>2. s \notin SeedStmts
        BY <2>1, <4>1, SeedKinds
      <4>3. s # Put("initialized", "1") /\ s # Put("alerts_seeded", "1") /\ s # Reload
        BY <2>1, <4>1 DEF Put, Reload
      <4> QED BY <4>1, <4>2, <4>3 DEF Stmts
    <3>4. Evaluable(WithId(Head(boot).value, rules + 1))
      BY <3>3, RuleKinds, NumberedEvaluable
    <3> QED BY <3>1, <3>4 DEF RulesSound
  <2> QED BY <1>1, <1>2, <2>1 DEF LoadNext, tables
<1>3. CASE SettingsServe
  <2>1. ASSUME NEW e, NEW b, handleCreateAlert(e, b) PROVE RulesSound'
    <3>1. /\ rule' = rule \cup {WithId(normalizeAlertRule(b), rules + 1)}
          /\ validateAlertRule(normalizeAlertRule(b))
      BY <2>1 DEF handleCreateAlert, CreateAlertRule
    <3>2. Evaluable(WithId(normalizeAlertRule(b), rules + 1))
      BY <3>1, ValidEvaluable, NumberedEvaluable
    <3> QED BY <3>1, <3>2 DEF RulesSound
  <2>2. ASSUME NEW e, NEW id, NEW b, handleUpdateAlert(e, id, b) PROVE RulesSound'
    <3> DEFINE r == normalizeAlertRule(b)
    <3> DEFINE n == WithId(r, id)
    <3>1. rule' \subseteq rule \cup {n}
      BY <2>2 DEF handleUpdateAlert, UpdateAlertRule
    <3>2. validateAlertRule(n)
      BY <2>2 DEF handleUpdateAlert
    <3>3. n.name = r.name /\ n.source = r.source /\ n.comparator = r.comparator
          /\ n.threshold = r.threshold /\ n.severity = r.severity
      BY DEF WithId
    <3> HIDE DEF n, r
    <3>4. validateAlertRule(r)
      BY <3>2, <3>3 DEF validateAlertRule
    <3>5. Evaluable(n)
      BY <3>4, ValidEvaluable, NumberedEvaluable DEF n, r
    <3> QED BY <3>1, <3>5 DEF RulesSound
  <2>3. ASSUME NEW e, NEW id, handleDeleteAlert(e, id) PROVE RulesSound'
    BY <2>3 DEF handleDeleteAlert, DeleteAlertRule, RulesSound
  <2>4. ASSUME NEW e, NEW key, NEW v, handlePut(e, key, v) PROVE RulesSound'
    BY <1>1, <2>4 DEF handlePut
  <2>5. ASSUME NEW e, ListAlertRules(e) \/ Store(e) \/ ForgetRule(e) PROVE RulesSound'
    BY <1>1, <2>5 DEF ListAlertRules, Store, ForgetRule, tables
  <2>6. ASSUME NEW x, DeleteCheckConfig(x) \/ DeletePeer(x) PROVE RulesSound'
    BY <1>1, <2>6 DEF DeleteCheckConfig, DeletePeer
  <2> QED BY <1>3, <2>1, <2>2, <2>3, <2>4, <2>5, <2>6 DEF SettingsServe
<1>4. CASE evaluate \/ \E p \in todo : evalRule(p)
  BY <1>1, <1>4 DEF evaluate, evalRule, tables
<1>5. CASE SettingsRestart \/ UNCHANGED settingsVars
  BY <1>1, <1>5 DEF SettingsRestart, settingsVars, tables
<1> QED BY <1>2, <1>3, <1>4, <1>5 DEF SettingsStep, SettingsRun

(* Every rule that is ever stored can be evaluated: those of the file,     *)
(* whatever its thresholds, and those of the dashboard, whatever its       *)
(* requests hold (seedAlertRulesOnce, normalizeAlertRule,                  *)
(* validateAlertRule, evalRule).                                           *)
THEOREM StoredRulesEvaluable == Spec => []RulesEvaluable
<1>1. Init => RulesSound
  BY DEF Init, SettingsInit, RulesSound
<1>2. RulesSound => RulesEvaluable
  BY DEF RulesSound, Evaluable, RulesEvaluable
<1> QED BY Boots, RulesInductive, <1>1, <1>2, PTL DEF Spec
---------------------------------------------------------------------------
(* Seeded once: as long as no start is cut short while it seeds, no row of  *)
(* the file is there when its statement is executed.                       *)
ChecksApart == \A i, j \in DOMAIN Config.checks : Config.checks[i] = Config.checks[j] => i = j
BodiesApart == \A b \in Bodies : <<"rule", b.name>> \notin Seeds

Once(s, op) ==
  \A i, j \in 1..Len(s) : s[i].op = op /\ s[j].op = op /\ NameOf(s[i]) = NameOf(s[j]) => i = j
None(s, op) == \A i \in 1..Len(s) : s[i].op # op

LEMMA NoneJoined ==
  ASSUME NEW S, NEW p \in Seq(S), NEW q \in Seq(S), NEW op, None(p, op), None(q, op)
  PROVE  None(p \o q, op)
BY Joined DEF None

LEMMA OnceJoined ==
  ASSUME NEW S, NEW p \in Seq(S), NEW q \in Seq(S), NEW op,
         (Once(p, op) /\ None(q, op)) \/ (None(p, op) /\ Once(q, op))
  PROVE  Once(p \o q, op)
<1> SUFFICES ASSUME NEW i \in 1..Len(p \o q), NEW j \in 1..Len(p \o q),
                    (p \o q)[i].op = op, (p \o q)[j].op = op,
                    NameOf((p \o q)[i]) = NameOf((p \o q)[j])
             PROVE  i = j
  BY DEF Once
<1>1. \/ i \in 1..Len(p) /\ (p \o q)[i] = p[i]
      \/ i - Len(p) \in 1..Len(q) /\ (p \o q)[i] = q[i - Len(p)]
  BY Joined
<1>2. \/ j \in 1..Len(p) /\ (p \o q)[j] = p[j]
      \/ j - Len(p) \in 1..Len(q) /\ (p \o q)[j] = q[j - Len(p)]
  BY Joined
<1>3. Len(p) \in Nat /\ Len(q) \in Nat /\ Len(p \o q) \in Nat
  BY Joined, LenProperties
<1>4. CASE Once(p, op) /\ None(q, op)
  <2>1. i \in 1..Len(p) /\ (p \o q)[i] = p[i] /\ j \in 1..Len(p) /\ (p \o q)[j] = p[j]
    BY <1>1, <1>2, <1>4 DEF None
  <2> QED BY <1>4, <2>1 DEF Once
<1>5. CASE None(p, op) /\ Once(q, op)
  <2>1. /\ i - Len(p) \in 1..Len(q) /\ (p \o q)[i] = q[i - Len(p)]
        /\ j - Len(p) \in 1..Len(q) /\ (p \o q)[j] = q[j - Len(p)]
    BY <1>1, <1>2, <1>5 DEF None
  <2>2. i - Len(p) = j - Len(p)
    BY <1>5, <2>1 DEF Once
  <2> QED BY <1>3, <2>2
<1> QED BY <1>4, <1>5

(* The default rules differ in their names.                                *)
Apart(s, N) ==
  /\ \A i, j \in 1..Len(s) : s[i].name = s[j].name => i = j
  /\ \A i \in 1..Len(s) : s[i].name \in N
LEMMA ThresholdApart ==
  ASSUME NEW p \in Seq(DefaultSet), NEW N, NEW s \in {"cpu", "mem", "disk"}, s \notin N, Apart(p, N)
  PROVE  p \o ThresholdRule(s) \in Seq(DefaultSet) /\ Apart(p \o ThresholdRule(s), N \cup {s})
<1> DEFINE d == DefaultRule(s, s, Config.thresholds[s])
<1>1. d \in DefaultSet /\ d.name = s
  BY DEF DefaultSet, DefaultRule
<1>2. ThresholdRule(s) = <<d>> \/ ThresholdRule(s) = <<>>
  BY DEF ThresholdRule
<1> HIDE DEF d
<1>3. CASE ThresholdRule(s) = <<>>
  <2>1. p \o ThresholdRule(s) = p
    BY <1>3, ConcatEmptySeq
  <2> QED BY <2>1 DEF Apart
<1>4. CASE ThresholdRule(s) = <<d>>
  <2>1. <<d>> \in Seq(DefaultSet) /\ Len(<<d>>) = 1 /\ <<d>>[1] = d
    BY <1>1
  <2>2. Len(p) \in Nat /\ p \o <<d>> \in Seq(DefaultSet) /\ Len(p \o <<d>>) = Len(p) + 1
    BY <2>1, ConcatProperties, LenProperties
  <2>3. \A i \in 1..Len(p) + 1 : (p \o <<d>>)[i] = IF i <= Len(p) THEN p[i] ELSE <<d>>[i - Len(p)]
    BY <2>1, <2>2, ConcatProperties
  <2>4. /\ \A i \in 1..Len(p) : (p \o <<d>>)[i] = p[i]
        /\ (p \o <<d>>)[Len(p) + 1] = d
    BY <2>1, <2>2, <2>3
  <2>5. \A i \in 1..Len(p) + 1 : i \in 1..Len(p) \/ i = Len(p) + 1
    BY <2>2
  <2>6. Apart(p \o <<d>>, N \cup {s})
    BY <1>1, <2>2, <2>4, <2>5 DEF Apart
  <2> QED BY <1>4, <2>2, <2>6
<1> QED BY <1>2, <1>3, <1>4

LEMMA DefaultsApart == \A i, j \in 1..Len(Defaults) : Defaults[i].name = Defaults[j].name => i = j
<1> DEFINE p == <<DefaultRule("check failing", "check_status", 0), DefaultRule("unreachable", "peer", 0)>>
<1> DEFINE N == {"check failing", "unreachable"}
<1>1. p \in Seq(DefaultSet)
  BY DEF DefaultSet
<1>0. p[1].name = "check failing" /\ p[2].name = "unreachable"
  BY DEF DefaultRule
<1>2. Len(p) = 2
  OBVIOUS
<1>3. Apart(p, N)
  <2> HIDE DEF p
  <2>1. \A i \in 1..Len(p) : (i = 1 \/ i = 2)
    BY <1>2
  <2>2. p[1].name # p[2].name /\ p[1].name \in N /\ p[2].name \in N
    BY <1>0
  <2> QED BY <2>1, <2>2 DEF Apart
<1> HIDE DEF p
<1>4. p \o ThresholdRule("cpu") \in Seq(DefaultSet) /\ Apart(p \o ThresholdRule("cpu"), N \cup {"cpu"})
  BY <1>1, <1>3, ThresholdApart
<1>5. /\ p \o ThresholdRule("cpu") \o ThresholdRule("mem") \in Seq(DefaultSet)
      /\ Apart(p \o ThresholdRule("cpu") \o ThresholdRule("mem"), N \cup {"cpu"} \cup {"mem"})
  BY <1>4, ThresholdApart
<1>6. Apart(p \o ThresholdRule("cpu") \o ThresholdRule("mem") \o ThresholdRule("disk"),
            N \cup {"cpu"} \cup {"mem"} \cup {"disk"})
  BY <1>5, ThresholdApart
<1>7. Defaults = p \o ThresholdRule("cpu") \o ThresholdRule("mem") \o ThresholdRule("disk")
  BY DEF Defaults, p
<1> QED BY <1>6, <1>7 DEF Apart

(* Neither the checks nor the default rules are seeded twice by a start.   *)
LEMMA SeedOnce ==
  ASSUME ChecksApart
  PROVE  Once(seed, "check") /\ None(seed, "rule")
<1> DEFINE two == <<Put("general", Seconds(Config.general)), Put("notify", Config.notify)>>
<1> DEFINE c == Each("check", Config.checks)
<1> DEFINE p == Each("peer", Config.peers)
<1> DEFINE a == Each("alias", Config.alias)
<1> DEFINE flag == <<Put("initialized", "1")>>
<1> DEFINE S == SeedStmts \cup {Put("initialized", "1")}
<1>1. two \in Seq(S) /\ None(two, "check") /\ None(two, "rule")
  <2>1. two \in Seq(S)
    BY DEF SeedStmts
  <2>2. Len(two) = 2 /\ two[1].op = "set" /\ two[2].op = "set"
    BY DEF Put
  <2>3. \A i \in 1..Len(two) : (i = 1 \/ i = 2)
    BY <2>2
  <2> HIDE DEF two
  <2> QED BY <2>1, <2>2, <2>3 DEF None
<1>2. flag \in Seq(S) /\ None(flag, "check") /\ None(flag, "rule")
  <2>1. flag \in Seq(S)
    OBVIOUS
  <2>2. Len(flag) = 1 /\ flag[1].op = "set"
    BY DEF Put
  <2> HIDE DEF flag
  <2> QED BY <2>1, <2>2 DEF None
<1>3. ASSUME NEW op, NEW names \in Seq(STRING), Of(op, names) \subseteq SeedStmts
      PROVE  /\ Each(op, names) \in Seq(S)
             /\ Len(Each(op, names)) = Len(names)
             /\ \A i \in 1..Len(names) : Each(op, names)[i].op = op /\ NameOf(Each(op, names)[i]) =
                    (IF op = "rule" THEN names[i].name ELSE names[i])
  <2>1. DOMAIN names = 1..Len(names) /\ Len(names) \in Nat
    BY LenProperties
  <2>2. Each(op, names) \in [1..Len(names) -> S]
    BY <1>3, <2>1 DEF Each, Of
  <2>3. ASSUME NEW i \in 1..Len(names)
        PROVE  Each(op, names)[i].op = op /\ Each(op, names)[i].value = names[i]
    BY <2>1 DEF Each
  <2> QED BY <2>1, <2>2, <2>3 DEF NameOf
<1>4. /\ c \in Seq(S) /\ None(c, "rule") /\ Once(c, "check")
      /\ p \in Seq(S) /\ None(p, "rule") /\ None(p, "check")
      /\ a \in Seq(S) /\ None(a, "rule") /\ None(a, "check")
  <2>1. /\ Of("check", Config.checks) \subseteq SeedStmts /\ Of("peer", Config.peers) \subseteq SeedStmts
        /\ Of("alias", Config.alias) \subseteq SeedStmts
    BY DEF SeedStmts
  <2>2. \A i, j \in 1..Len(Config.checks) : Config.checks[i] = Config.checks[j] => i = j
    BY FileLists, LenProperties DEF ChecksApart
  <2>3. /\ c \in Seq(S) /\ Len(c) = Len(Config.checks)
        /\ \A i \in 1..Len(c) : c[i].op = "check" /\ NameOf(c[i]) = Config.checks[i]
    BY <1>3, <2>1, FileLists
  <2>4. p \in Seq(S) /\ \A i \in 1..Len(p) : p[i].op = "peer"
    BY <1>3, <2>1, FileLists
  <2>5. a \in Seq(S) /\ \A i \in 1..Len(a) : a[i].op = "alias"
    BY <1>3, <2>1, FileLists
  <2> HIDE DEF c, p, a, S
  <2>6. Once(c, "check")
    BY <2>2, <2>3 DEF Once
  <2>7. None(c, "rule")
    BY <2>3 DEF None
  <2>8. None(p, "rule") /\ None(p, "check")
    BY <2>4 DEF None
  <2>9. None(a, "rule") /\ None(a, "check")
    BY <2>5 DEF None
  <2> QED BY <2>3, <2>4, <2>5, <2>6, <2>7, <2>8, <2>9
<1>5. seed = two \o c \o p \o a \o flag
  BY DEF seed
<1> HIDE DEF two, c, p, a, flag, S
<1>6. two \o c \in Seq(S) /\ None(two \o c, "rule") /\ Once(two \o c, "check")
  BY <1>1, <1>4, ConcatProperties, NoneJoined, OnceJoined
<1>7. two \o c \o p \in Seq(S) /\ None(two \o c \o p, "rule") /\ Once(two \o c \o p, "check")
  BY <1>4, <1>6, ConcatProperties, NoneJoined, OnceJoined
<1>8. two \o c \o p \o a \in Seq(S) /\ None(two \o c \o p \o a, "rule") /\ Once(two \o c \o p \o a, "check")
  BY <1>4, <1>7, ConcatProperties, NoneJoined, OnceJoined
<1> QED BY <1>2, <1>5, <1>8, NoneJoined, OnceJoined

LEMMA RuleSeedOnce == Once(seedAlertRulesOnce, "rule") /\ None(seedAlertRulesOnce, "check")
<1> DEFINE pre == [i \in DOMAIN Defaults |-> [op |-> "rule", value |-> normalizeAlertRule(Defaults[i])]]
<1> DEFINE flag == <<Put("alerts_seeded", "1")>>
<1> DEFINE S == RuleStmts \cup {Put("alerts_seeded", "1")}
<1>1. DOMAIN Defaults = 1..Len(Defaults) /\ Len(Defaults) \in Nat
  BY DefaultsListed, LenProperties
<1>2. pre \in [1..Len(Defaults) -> S]
  BY <1>1 DEF RuleStmts
<1>3. pre \in Seq(S) /\ Len(pre) = Len(Defaults)
  BY <1>1, <1>2
<1>4. ASSUME NEW i \in 1..Len(pre) PROVE pre[i].op = "rule" /\ NameOf(pre[i]) = Defaults[i].name
  <2>1. pre[i].op = "rule" /\ pre[i].value = normalizeAlertRule(Defaults[i])
    BY <1>1, <1>3
  <2>2. normalizeAlertRule(Defaults[i]).name = Defaults[i].name
    BY DEF normalizeAlertRule
  <2> HIDE DEF pre
  <2> QED BY <2>1, <2>2 DEF NameOf
<1>5. seedAlertRulesOnce = pre \o flag
  BY DEF seedAlertRulesOnce
<1> HIDE DEF pre
<1>6. Once(pre, "rule") /\ None(pre, "check")
  BY <1>3, <1>4, DefaultsApart DEF Once, None
<1>7. flag \in Seq(S) /\ None(flag, "check") /\ None(flag, "rule")
  <2>1. flag \in Seq(S)
    OBVIOUS
  <2>2. Len(flag) = 1 /\ flag[1].op = "set"
    BY DEF Put
  <2> HIDE DEF flag
  <2> QED BY <2>1, <2>2 DEF None
<1> HIDE DEF flag, S
<1> QED BY <1>3, <1>5, <1>6, <1>7, NoneJoined, OnceJoined

LEMMA StartsOnce ==
  ASSUME ChecksApart, NEW D
  PROVE  Once(Starts(D), "check") /\ Once(Starts(D), "rule")
<1> DEFINE a == IF "initialized" \in D THEN <<>> ELSE seed
<1> DEFINE b == IF "alerts_seeded" \in D THEN <<>> ELSE seedAlertRulesOnce
<1> DEFINE last == <<Reload>>
<1>1. last \in Seq(Stmts) /\ None(last, "check") /\ None(last, "rule")
  <2>1. last \in Seq(Stmts) /\ Len(last) = 1 /\ last[1].op = "reload"
    BY DEF Stmts, Reload
  <2> HIDE DEF last
  <2> QED BY <2>1 DEF None
<1>2. <<>> \in Seq(Stmts) /\ \A op : Once(<<>>, op) /\ None(<<>>, op)
  BY DEF Once, None
<1>3. a \in Seq(Stmts) /\ Once(a, "check") /\ None(a, "rule")
  BY <1>2, SeedFacts, SeedOnce
<1>4. b \in Seq(Stmts) /\ Once(b, "rule") /\ None(b, "check")
  BY <1>2, RuleSeedFacts, RuleSeedOnce
<1>5. Starts(D) = a \o b \o last
  BY DEF Starts
<1> HIDE DEF a, b, last
<1>6. a \o b \in Seq(Stmts) /\ Once(a \o b, "check") /\ Once(a \o b, "rule")
  BY <1>3, <1>4, ConcatProperties, OnceJoined
<1> QED BY <1>1, <1>5, <1>6, OnceJoined

Sows(x) == x.op \in {"check", "peer", "rule"}
RemovedGone ==
  \A kind, name : <<kind, name>> \in Seeds /\ <<kind, name>> \in removed => ~There(kind, name)
Single ==
  /\ \A a, b \in check : a.name = b.name /\ <<"check", a.name>> \in Seeds => a = b
  /\ \A a, b \in rule : a.name = b.name /\ <<"rule", a.name>> \in Seeds => a = b
Unsown ==
  /\ Once(boot, "check") /\ Once(boot, "rule")
  /\ \A i \in 1..Len(boot) : Sows(boot[i]) =>
       /\ <<boot[i].op, NameOf(boot[i])>> \notin removed
       /\ boot[i].op # "peer" => ~There(boot[i].op, NameOf(boot[i]))
Tables == IsFiniteSet(check) /\ IsFiniteSet(peer) /\ IsFiniteSet(rule)
OnceInv == ~cut => RemovedGone /\ Single /\ Unsown

LEMMA StatementKinds ==
  ASSUME NEW x \in Stmts
  PROVE  /\ x.op \in {"set", "check", "peer", "alias", "rule", "reload"}
         /\ Sows(x) => <<x.op, NameOf(x)>> \in Seeds
<1>1. CASE x \in SeedStmts
  BY <1>1, SeedKinds DEF Sows
<1>2. CASE x \in RuleStmts
  BY <1>2, RuleKinds
<1>3. CASE x \in {Put("initialized", "1"), Put("alerts_seeded", "1"), Reload}
  BY <1>3 DEF Put, Reload, Sows
<1> QED BY <1>1, <1>2, <1>3 DEF Stmts

LEMMA LoadOnce ==
  ASSUME BootInv, OnceInv, LoadNext
  PROVE  OnceInv'
<1>1. SUFFICES ASSUME ~cut' PROVE RemovedGone' /\ Single' /\ Unsown'
  BY DEF OnceInv
<1>2. /\ boot # <<>> /\ boot' = Tail(boot) /\ ~cut /\ removed' = removed
  BY <1>1 DEF LoadNext, Serving, ghosts
<1>3. /\ Len(boot) \in Nat /\ Len(boot) > 0 /\ Head(boot) = boot[1]
      /\ Len(boot') = Len(boot) - 1 /\ \A i \in 1..Len(boot') : boot'[i] = boot[i + 1]
  BY <1>2, HeadTailProperties, EmptySeq, LenProperties DEF BootInv
<1>4. PICK s \in Stmts : s = boot[1]
  BY <1>2, <1>3, HeadTailProperties DEF BootInv
<1>5. RemovedGone /\ Single /\ Unsown
  BY <1>2 DEF OnceInv
<1>6. Once(boot, "check")' /\ Once(boot, "rule")'
  <2>1. ASSUME NEW op, Once(boot, op) PROVE Once(boot', op)
    <3> SUFFICES ASSUME NEW i \in 1..Len(boot'), NEW j \in 1..Len(boot'),
                        boot'[i].op = op, boot'[j].op = op, NameOf(boot'[i]) = NameOf(boot'[j])
                 PROVE  i = j
      BY DEF Once
    <3>1. i + 1 \in 1..Len(boot) /\ j + 1 \in 1..Len(boot) /\ i \in Int /\ j \in Int
      BY <1>3
    <3>2. boot'[i] = boot[i + 1] /\ boot'[j] = boot[j + 1]
      BY <1>3
    <3>3. i + 1 = j + 1
      BY <2>1, <3>1, <3>2 DEF Once
    <3> QED BY <3>1, <3>3
  <2>2. Once(boot', "check") /\ Once(boot', "rule")
    BY <1>5, <2>1 DEF Unsown
  <2> QED BY <2>2 DEF Once
<1>7. Sows(s) => <<s.op, NameOf(s)>> \in Seeds /\ <<s.op, NameOf(s)>> \notin removed
                 /\ (s.op # "peer" => ~There(s.op, NameOf(s)))
  BY <1>3, <1>4, <1>5, StatementKinds DEF Unsown
<1>8. ASSUME NEW i \in 1..Len(boot'), Sows(boot'[i])
      PROVE  /\ i + 1 \in 1..Len(boot) /\ boot'[i] = boot[i + 1] /\ i + 1 # 1
             /\ <<boot'[i].op, NameOf(boot'[i])>> \notin removed'
             /\ boot'[i].op # "peer" =>
                  /\ ~There(boot'[i].op, NameOf(boot'[i]))
                  /\ s.op = boot'[i].op => NameOf(s) # NameOf(boot'[i])
  <2>1. i + 1 \in 1..Len(boot) /\ boot'[i] = boot[i + 1] /\ i + 1 # 1 /\ 1 \in 1..Len(boot)
    BY <1>3
  <2>2. <<boot[i + 1].op, NameOf(boot[i + 1])>> \notin removed
        /\ (boot[i + 1].op # "peer" => ~There(boot[i + 1].op, NameOf(boot[i + 1])))
    BY <1>5, <1>8, <2>1 DEF Unsown
  <2>3. boot[i + 1].op \in {"check", "rule"} /\ s.op = boot[i + 1].op => NameOf(s) # NameOf(boot[i + 1])
    BY <1>4, <1>5, <2>1 DEF Unsown, Once
  <2> QED BY <1>2, <1>8, <2>1, <2>2, <2>3 DEF Sows
<1>9. CASE ~Sows(s)
  <2>1. UNCHANGED <<check, peer, rule>>
    BY <1>3, <1>4, <1>9, StatementKinds DEF LoadNext, Sows, tables
  <2>2. \A kind, name : There(kind, name)' <=> There(kind, name)
    BY <2>1 DEF There
  <2>3. RemovedGone' /\ Single'
    BY <1>2, <1>5, <2>1, <2>2 DEF RemovedGone, Single
  <2>4. Unsown'
    BY <1>6, <1>8, <2>2 DEF Unsown
  <2> QED BY <2>3, <2>4
<1>10. CASE s.op = "check"
  <2>1. PICK n : n.name = NameOf(s) /\ check' = check \cup {n} /\ UNCHANGED <<peer, rule>>
    <3>1. check' = check \cup {[id |-> Cardinality(check) + 1, name |-> s.value]} /\ UNCHANGED <<peer, rule>>
      BY <1>3, <1>4, <1>10 DEF LoadNext
    <3>2. [id |-> Cardinality(check) + 1, name |-> s.value].name = NameOf(s)
      BY <1>10 DEF NameOf
    <3> QED BY <3>1, <3>2
  <2>2. \A kind, name : There(kind, name)' <=> There(kind, name) \/ (kind = "check" /\ name = NameOf(s))
    BY <2>1 DEF There
  <2>3. RemovedGone'
    BY <1>2, <1>5, <1>7, <1>10, <2>2 DEF RemovedGone, Sows
  <2>4. \A a \in check : a.name # NameOf(s)
    BY <1>7, <1>10 DEF Sows, There
  <2>5. Single'
    BY <1>5, <2>1, <2>4 DEF Single
  <2>6. Unsown'
    BY <1>6, <1>8, <1>10, <2>2 DEF Unsown
  <2> QED BY <2>3, <2>5, <2>6
<1>11. CASE s.op = "rule"
  <2>1. PICK n : n.name = NameOf(s) /\ rule' = rule \cup {n} /\ UNCHANGED <<check, peer>>
    <3>1. rule' = rule \cup {WithId(s.value, rules + 1)} /\ UNCHANGED <<check, peer>>
      BY <1>3, <1>4, <1>11 DEF LoadNext, CreateAlertRule
    <3>2. WithId(s.value, rules + 1).name = NameOf(s)
      BY <1>11 DEF WithId, NameOf
    <3> QED BY <3>1, <3>2
  <2>2. \A kind, name : There(kind, name)' <=> There(kind, name) \/ (kind = "rule" /\ name = NameOf(s))
    BY <2>1 DEF There
  <2>3. RemovedGone'
    BY <1>2, <1>5, <1>7, <1>11, <2>2 DEF RemovedGone, Sows
  <2>4. \A a \in rule : a.name # NameOf(s)
    BY <1>7, <1>11 DEF Sows, There
  <2>5. Single'
    BY <1>5, <2>1, <2>4 DEF Single
  <2>6. Unsown'
    BY <1>6, <1>8, <1>11, <2>2 DEF Unsown
  <2> QED BY <2>3, <2>5, <2>6
<1>12. CASE s.op = "peer"
  <2>1. peer' = peer \cup {NameOf(s)} /\ UNCHANGED <<check, rule>>
    BY <1>3, <1>4, <1>12 DEF LoadNext, NameOf
  <2>2. \A kind, name : There(kind, name)' <=> There(kind, name) \/ (kind = "peer" /\ name = NameOf(s))
    BY <2>1 DEF There
  <2>3. RemovedGone'
    BY <1>2, <1>5, <1>7, <1>12, <2>2 DEF RemovedGone, Sows
  <2>4. Single'
    BY <1>5, <2>1 DEF Single
  <2>5. Unsown'
    BY <1>6, <1>8, <2>2 DEF Unsown
  <2> QED BY <2>3, <2>4, <2>5
<1> QED BY <1>9, <1>10, <1>11, <1>12 DEF Sows

(* A start after one that was not cut short has nothing left to seed.      *)
LEMMA RestartOnce ==
  ASSUME BootInv, OnceInv, SettingsRestart
  PROVE  OnceInv'
<1>1. SUFFICES ASSUME ~cut' PROVE RemovedGone' /\ Single' /\ Unsown'
  BY DEF OnceInv
<1>2. /\ ~cut /\ (Serving \/ boot = <<Reload>>) /\ boot' = Starts(DOMAIN setting)
      /\ UNCHANGED <<check, peer, rule, removed>>
  BY <1>1 DEF SettingsRestart, Load, Starts, Reload, tables
<1>3. \A key : ~Flagged(boot, key)
  <2>1. CASE Serving
    BY <2>1, EmptySeq DEF Serving, Flagged
  <2>2. CASE boot = <<Reload>>
    <3>1. Len(boot) = 1 /\ boot[1] = Reload
      BY <2>2
    <3> QED BY <3>1 DEF Flagged, Sets, Reload
  <2> QED BY <1>2, <2>1, <2>2
<1>4. "initialized" \in DOMAIN setting /\ "alerts_seeded" \in DOMAIN setting
  BY <1>3 DEF BootInv, Progress
<1>5. boot' = <<Reload>>
  <2>1. boot' = <<>> \o <<>> \o <<Reload>>
    BY <1>2, <1>4 DEF Starts
  <2> QED BY <2>1
<1>6. Len(boot') = 1 /\ boot'[1] = Reload
  BY <1>5
<1>7. \A i \in 1..Len(boot') : boot'[i].op = "reload"
  BY <1>6 DEF Reload
<1>8. Unsown'
  BY <1>7 DEF Unsown, Once, Sows
<1>9. \A kind, name : There(kind, name)' <=> There(kind, name)
  BY <1>2 DEF There
<1>10. RemovedGone' /\ Single'
  BY <1>2, <1>9 DEF OnceInv, RemovedGone, Single
<1> QED BY <1>8, <1>10

(* Rules that come are not named as in the file; those that are removed    *)
(* are gone.                                                               *)
LEMMA RuleEditOnce ==
  ASSUME RemovedGone, Single, UNCHANGED <<check, peer>>,
         \A x \in rule' : x \in rule \/ <<"rule", x.name>> \notin Seeds,
         \A kind, name : <<kind, name>> \in removed' =>
           <<kind, name>> \in removed \/ \E x \in rule \ rule' : kind = "rule" /\ name = x.name
  PROVE  RemovedGone' /\ Single'
<1>1. ASSUME NEW kind, NEW name, <<kind, name>> \in Seeds, <<kind, name>> \in removed', There(kind, name)'
      PROVE  FALSE
  <2>1. There(kind, name)
    BY <1>1 DEF There
  <2>2. <<kind, name>> \notin removed
    BY <1>1, <2>1 DEF RemovedGone
  <2>3. PICK x \in rule \ rule' : kind = "rule" /\ name = x.name
    BY <1>1, <2>2
  <2>4. PICK y \in rule' : y.name = name
    BY <1>1, <2>3 DEF There
  <2>5. y \in rule
    BY <1>1, <2>3, <2>4
  <2>6. x = y
    BY <1>1, <2>3, <2>4, <2>5 DEF Single
  <2> QED BY <2>3, <2>4, <2>6
<1>2. Single'
  <2>1. ASSUME NEW a \in rule', NEW b \in rule', a.name = b.name, <<"rule", a.name>> \in Seeds PROVE a = b
    <3>1. a \in rule /\ b \in rule
      BY <2>1
    <3> QED BY <2>1, <3>1 DEF Single
  <2> QED BY <2>1 DEF Single
<1> QED BY <1>1, <1>2 DEF RemovedGone

(* What goes by an edit is gone; what comes is not named as in the file.   *)
LEMMA ServeOnce ==
  ASSUME BodiesApart, BootInv, OnceInv, SettingsServe
  PROVE  OnceInv'
<1>0. Serving /\ UNCHANGED <<boot, cut>>
  <2>1. Serving /\ UNCHANGED boot
    BY OnlyServing
  <2>2. ASSUME NEW e \in Editor, NEW b, NEW id,
               handleCreateAlert(e, b) \/ handleUpdateAlert(e, id, b) \/ handleDeleteAlert(e, id)
        PROVE  UNCHANGED cut
    BY <2>2 DEF handleCreateAlert, handleUpdateAlert, handleDeleteAlert
  <2>3. ASSUME NEW e \in Editor, NEW key, NEW v, handlePut(e, key, v) PROVE UNCHANGED cut
    BY <2>3 DEF handlePut
  <2>4. ASSUME NEW e \in Editor, ListAlertRules(e) \/ Store(e) \/ ForgetRule(e) PROVE UNCHANGED cut
    BY <2>4 DEF ListAlertRules, Store, ForgetRule, ghosts
  <2>5. ASSUME NEW x, DeleteCheckConfig(x) \/ DeletePeer(x) PROVE UNCHANGED cut
    BY <2>5 DEF DeleteCheckConfig, DeletePeer
  <2> QED BY <2>1, <2>2, <2>3, <2>4, <2>5 DEF SettingsServe
<1>1. SUFFICES ASSUME ~cut PROVE RemovedGone' /\ Single'
  <2>1. Len(boot') = 0
    BY <1>0, EmptySeq DEF Serving
  <2>2. Unsown'
    BY <2>1 DEF Unsown, Once
  <2> QED BY <1>0, <2>2 DEF OnceInv
<1>2. RemovedGone /\ Single
  BY <1>1 DEF OnceInv
<1>3. CASE UNCHANGED <<check, peer, rule, removed>>
  <2>1. \A kind, name : There(kind, name)' <=> There(kind, name)
    BY <1>3 DEF There
  <2> QED BY <1>2, <1>3, <2>1 DEF RemovedGone, Single
<1>5. ASSUME NEW e \in Editor, NEW b \in Bodies, handleCreateAlert(e, b) PROVE RemovedGone' /\ Single'
  <2>1. PICK n : n = WithId(normalizeAlertRule(b), rules + 1)
    OBVIOUS
  <2>2. rule' = rule \cup {n} /\ UNCHANGED <<check, peer, removed>>
    BY <1>5, <2>1 DEF handleCreateAlert, CreateAlertRule
  <2>3. n.name = b.name
    BY <2>1 DEF WithId, normalizeAlertRule
  <2>4. \A x \in rule' : x \in rule \/ <<"rule", x.name>> \notin Seeds
    BY <2>2, <2>3 DEF BodiesApart
  <2> QED BY <1>2, <2>2, <2>4, RuleEditOnce
<1>6. ASSUME NEW e \in Editor, NEW id, NEW b \in Bodies, handleUpdateAlert(e, id, b)
      PROVE  RemovedGone' /\ Single'
  <2>1. PICK n : n = WithId(normalizeAlertRule(b), id)
    OBVIOUS
  <2>2. n.name = b.name /\ n.id = id
    BY <2>1 DEF WithId, normalizeAlertRule
  <2>3. /\ rule' = {x \in rule : x.id # id} \cup {n} /\ UNCHANGED <<check, peer>>
        /\ removed' = removed \cup
             ({<<"rule", x.name>> : x \in {y \in rule : y.id = id /\ y.name # b.name}} \cap Seeds)
    BY <1>6, <2>1, <2>2 DEF handleUpdateAlert, UpdateAlertRule, Gone
  <2>4. \A x \in rule' : x \in rule \/ <<"rule", x.name>> \notin Seeds
    BY <2>2, <2>3 DEF BodiesApart
  <2>5. ASSUME NEW kind, NEW name, <<kind, name>> \in removed', <<kind, name>> \notin removed
        PROVE  \E x \in rule \ rule' : kind = "rule" /\ name = x.name
    <3>1. PICK x \in rule : x.id = id /\ x.name # b.name /\ <<kind, name>> = <<"rule", x.name>>
      BY <2>3, <2>5
    <3>2. x \notin rule'
      BY <2>2, <2>3, <3>1
    <3> QED BY <3>1, <3>2
  <2> QED BY <1>2, <2>3, <2>4, <2>5, RuleEditOnce
<1>7. ASSUME NEW e \in Editor, NEW id, handleDeleteAlert(e, id) PROVE RemovedGone' /\ Single'
  <2>1. /\ rule' = {x \in rule : x.id # id} /\ UNCHANGED <<check, peer>>
        /\ removed' = removed \cup ({<<"rule", x.name>> : x \in {y \in rule : y.id = id}} \cap Seeds)
    BY <1>7 DEF handleDeleteAlert, DeleteAlertRule, Gone
  <2>2. ASSUME NEW kind, NEW name, <<kind, name>> \in removed', <<kind, name>> \notin removed
        PROVE  \E x \in rule \ rule' : kind = "rule" /\ name = x.name
    <3>1. PICK x \in rule : x.id = id /\ <<kind, name>> = <<"rule", x.name>>
      BY <2>1, <2>2
    <3> QED BY <2>1, <3>1
  <2> QED BY <1>2, <2>1, <2>2, RuleEditOnce
<1>8. ASSUME NEW c \in check, DeleteCheckConfig(c) PROVE RemovedGone' /\ Single'
  <2>1. /\ check' = check \ {c} /\ UNCHANGED <<peer, rule>>
        /\ removed' = removed \cup ({<<"check", c.name>>} \cap Seeds)
    BY <1>8 DEF DeleteCheckConfig, Gone
  <2>2. ASSUME NEW kind, NEW name, <<kind, name>> \in Seeds, <<kind, name>> \in removed', There(kind, name)'
        PROVE  FALSE
    <3>1. There(kind, name)
      BY <2>1, <2>2 DEF There
    <3>2. <<kind, name>> \notin removed
      BY <1>2, <2>2, <3>1 DEF RemovedGone
    <3>3. <<kind, name>> = <<"check", c.name>>
      BY <2>1, <2>2, <3>2
    <3>4. kind = "check" /\ name = c.name
      BY <3>3
    <3>5. PICK d \in check : d # c /\ d.name = c.name
      BY <2>1, <2>2, <3>4 DEF There
    <3> QED BY <1>2, <2>2, <3>4, <3>5 DEF Single
  <2>3. Single'
    BY <1>2, <2>1 DEF Single
  <2> QED BY <2>2, <2>3 DEF RemovedGone
<1>9. ASSUME NEW p \in peer, DeletePeer(p) PROVE RemovedGone' /\ Single'
  <2>1. /\ peer' = peer \ {p} /\ UNCHANGED <<check, rule>>
        /\ removed' = removed \cup ({<<"peer", p>>} \cap Seeds)
    BY <1>9 DEF DeletePeer, Gone
  <2>2. ASSUME NEW kind, NEW name, <<kind, name>> \in Seeds, <<kind, name>> \in removed', There(kind, name)'
        PROVE  FALSE
    <3>1. There(kind, name)
      BY <2>1, <2>2 DEF There
    <3>2. <<kind, name>> \notin removed
      BY <1>2, <2>2, <3>1 DEF RemovedGone
    <3>3. <<kind, name>> = <<"peer", p>>
      BY <2>1, <2>2, <3>2
    <3>4. kind = "peer" /\ name = p
      BY <3>3
    <3> QED BY <2>1, <2>2, <3>4 DEF There
  <2>3. Single'
    BY <1>2, <2>1 DEF Single
  <2> QED BY <2>2, <2>3 DEF RemovedGone
<1>10. ASSUME NEW e \in Editor, NEW key, NEW v, handlePut(e, key, v) PROVE RemovedGone' /\ Single'
  BY <1>3, <1>10 DEF handlePut
<1>11. ASSUME NEW e \in Editor, ListAlertRules(e) \/ Store(e) \/ ForgetRule(e) PROVE RemovedGone' /\ Single'
  BY <1>3, <1>11 DEF ListAlertRules, Store, ForgetRule, tables, ghosts
<1> QED BY <1>5, <1>6, <1>7, <1>8, <1>9, <1>10, <1>11 DEF SettingsServe

LEMMA TablesInductive == Tables /\ [Next]_vars => Tables'
<1> SUFFICES ASSUME Tables, [SettingsStep]_settingsVars PROVE Tables'
  BY StepsOfSettings
<1>0. /\ IsFiniteSet(check) /\ IsFiniteSet(peer) /\ IsFiniteSet(rule)
      /\ \A S, x : IsFiniteSet(S) => IsFiniteSet(S \cup {x})
      /\ \A S, x : IsFiniteSet(S) => IsFiniteSet(S \ {x})
      /\ \A S, T : IsFiniteSet(S) /\ T \subseteq S => IsFiniteSet(T)
  BY FS_AddElement, FS_RemoveElement, FS_Subset DEF Tables
<1>1. CASE UNCHANGED <<check, peer, rule>>
  BY <1>0, <1>1 DEF Tables
<1>2. CASE LoadNext
  <2>1. PICK s : s = Head(boot)
    OBVIOUS
  <2>2. \/ UNCHANGED <<check, peer, rule>>
        \/ /\ \E x : check' = check \cup {x}
           /\ UNCHANGED <<peer, rule>>
        \/ /\ \E x : peer' = peer \cup {x}
           /\ UNCHANGED <<check, rule>>
        \/ /\ \E x : rule' = rule \cup {x}
           /\ UNCHANGED <<check, peer>>
    BY <1>2, <2>1 DEF LoadNext, CreateAlertRule, tables
  <2> QED BY <1>0, <2>2 DEF Tables
<1>3. CASE SettingsServe
  <2>1. ASSUME NEW e \in Editor, NEW b, handleCreateAlert(e, b) PROVE Tables'
    <3>1. \E x : rule' = rule \cup {x} /\ UNCHANGED <<check, peer>>
      BY <2>1 DEF handleCreateAlert, CreateAlertRule
    <3> QED BY <1>0, <3>1 DEF Tables
  <2>2. ASSUME NEW e \in Editor, NEW id, NEW b, handleUpdateAlert(e, id, b) PROVE Tables'
    <3>1. PICK n : rule' = {x \in rule : x.id # n.id} \cup {n} /\ UNCHANGED <<check, peer>>
      BY <2>2 DEF handleUpdateAlert, UpdateAlertRule
    <3>2. IsFiniteSet({x \in rule : x.id # n.id})
      BY <1>0
    <3> QED BY <1>0, <3>1, <3>2 DEF Tables
  <2>3. ASSUME NEW e \in Editor, NEW id, handleDeleteAlert(e, id) PROVE Tables'
    <3>1. rule' \subseteq rule /\ UNCHANGED <<check, peer>>
      BY <2>3 DEF handleDeleteAlert, DeleteAlertRule
    <3> QED BY <1>0, <3>1 DEF Tables
  <2>4. ASSUME NEW e \in Editor, NEW key, NEW v, handlePut(e, key, v) PROVE Tables'
    BY <1>1, <2>4 DEF handlePut
  <2>5. ASSUME NEW e \in Editor, ListAlertRules(e) \/ Store(e) \/ ForgetRule(e) PROVE Tables'
    BY <1>1, <2>5 DEF ListAlertRules, Store, ForgetRule, tables
  <2>6. ASSUME NEW c, DeleteCheckConfig(c) PROVE Tables'
    BY <1>0, <2>6 DEF DeleteCheckConfig, Tables
  <2>7. ASSUME NEW p, DeletePeer(p) PROVE Tables'
    BY <1>0, <2>7 DEF DeletePeer, Tables
  <2> QED BY <1>3, <2>1, <2>2, <2>3, <2>4, <2>5, <2>6, <2>7 DEF SettingsServe
<1>4. CASE evaluate \/ \E p \in todo : evalRule(p)
  BY <1>1, <1>4 DEF evaluate, evalRule, tables
<1>5. CASE SettingsRestart \/ UNCHANGED settingsVars
  BY <1>1, <1>5 DEF SettingsRestart, settingsVars, tables
<1> QED BY <1>2, <1>3, <1>4, <1>5 DEF SettingsStep, SettingsRun

LEMMA ListFinite ==
  ASSUME NEW n \in Nat, NEW f, NEW T, T = {f[i] : i \in 1..n}
  PROVE  IsFiniteSet(T)
<1> DEFINE g == [i \in 1..n |-> f[i]]
<1>1. g \in Surjection(1..n, T)
  BY DEF Surjection
<1>2. IsFiniteSet(1..n)
  BY FS_Interval
<1> QED BY <1>1, <1>2, FS_Surjection

LEMMA TablesInitially == Init => Tables
<1> SUFFICES ASSUME Init PROVE Tables
  OBVIOUS
<1>1. rule = {}
  BY DEF Init, SettingsInit
<1>2. CASE check = {} /\ peer = {}
  BY <1>1, <1>2, FS_EmptySet DEF Tables
<1>3. CASE /\ check = {[id |-> i, name |-> Config.checks[i]] : i \in DOMAIN Config.checks}
           /\ peer = {Config.peers[i] : i \in DOMAIN Config.peers}
  <2>1. /\ DOMAIN Config.checks = 1..Len(Config.checks) /\ Len(Config.checks) \in Nat
        /\ DOMAIN Config.peers = 1..Len(Config.peers) /\ Len(Config.peers) \in Nat
    BY FileLists, LenProperties
  <2>2. IsFiniteSet(peer)
    BY <1>3, <2>1, ListFinite
  <2>3. IsFiniteSet(check)
    <3> DEFINE f == [i \in 1..Len(Config.checks) |-> [id |-> i, name |-> Config.checks[i]]]
    <3>1. check = {f[i] : i \in 1..Len(Config.checks)}
      BY <1>3, <2>1
    <3> HIDE DEF f
    <3> QED BY <2>1, <3>1, ListFinite
  <2> QED BY <1>1, <2>2, <2>3, FS_EmptySet DEF Tables
<1> QED BY <1>2, <1>3 DEF Init, SettingsInit

(* How many rows a seed has. *)
LEMMA CopiesCounted ==
  ASSUME Tables, NEW kind, NEW name, <<kind, name>> \in Seeds
  PROVE  /\ Copies(<<kind, name>>) \in Nat
         /\ (Copies(<<kind, name>>) = 0) <=> ~There(kind, name)
         /\ Single => Copies(<<kind, name>>) <= 1
<1>1. kind \in {"check", "peer", "rule"}
  BY DEF Seeds
<1> DEFINE R == IF kind = "check" THEN {c \in check : c.name = name}
                ELSE IF kind = "peer" THEN {p \in peer : p = name} ELSE {r \in rule : r.name = name}
<1>2. Copies(<<kind, name>>) = Cardinality(R)
  BY <1>1 DEF Copies
<1>3. IsFiniteSet(R)
  BY FS_Subset DEF Tables
<1>4. R = {} <=> ~There(kind, name)
  BY <1>1 DEF There
<1>5. ASSUME Single, NEW a \in R, NEW b \in R PROVE a = b
  BY <1>1, <1>5 DEF Single
<1> HIDE DEF R
<1>6. Cardinality(R) \in Nat /\ (Cardinality(R) = 0 <=> R = {})
  BY <1>3, FS_EmptySet, FS_CardinalityType
<1>7. ASSUME Single PROVE Cardinality(R) <= 1
  <2>1. CASE R = {}
    BY <1>6, <2>1
  <2>2. ASSUME NEW a \in R PROVE Cardinality(R) <= 1
    <3>1. R = {a}
      BY <1>5, <1>7, <2>2
    <3> QED BY <3>1, FS_Singleton
  <2> QED BY <2>1, <2>2
<1> QED BY <1>2, <1>4, <1>6, <1>7

(* Each seed has a statement. *)
LEMMA SeedStatements ==
  ASSUME NEW s \in Seeds
  PROVE  \E x \in SeedStmts \cup RuleStmts : Sows(x) /\ s = <<x.op, NameOf(x)>>
<1>1. CASE \E i \in DOMAIN Config.checks : s = <<"check", Config.checks[i]>>
  <2>1. PICK i \in DOMAIN Config.checks : s = <<"check", Config.checks[i]>>
    BY <1>1
  <2>2. PICK x : x = [op |-> "check", value |-> Config.checks[i]]
    OBVIOUS
  <2>3. x \in SeedStmts
    BY <2>1, <2>2 DEF SeedStmts, Of
  <2>4. x.op = "check" /\ x.value = Config.checks[i]
    BY <2>2
  <2> QED BY <2>1, <2>3, <2>4 DEF Sows, NameOf
<1>2. CASE \E i \in DOMAIN Config.peers : s = <<"peer", Config.peers[i]>>
  <2>1. PICK i \in DOMAIN Config.peers : s = <<"peer", Config.peers[i]>>
    BY <1>2
  <2>2. PICK x : x = [op |-> "peer", value |-> Config.peers[i]]
    OBVIOUS
  <2>3. x \in SeedStmts
    BY <2>1, <2>2 DEF SeedStmts, Of
  <2>4. x.op = "peer" /\ x.value = Config.peers[i]
    BY <2>2
  <2> QED BY <2>1, <2>3, <2>4 DEF Sows, NameOf
<1>3. CASE \E i \in DOMAIN Defaults : s = <<"rule", Defaults[i].name>>
  <2>1. PICK i \in DOMAIN Defaults : s = <<"rule", Defaults[i].name>>
    BY <1>3
  <2>2. PICK x : x = [op |-> "rule", value |-> normalizeAlertRule(Defaults[i])]
    OBVIOUS
  <2>3. x \in RuleStmts
    BY <2>1, <2>2 DEF RuleStmts
  <2>4. normalizeAlertRule(Defaults[i]).name = Defaults[i].name
    BY DEF normalizeAlertRule
  <2>5. x.op = "rule" /\ x.value.name = Defaults[i].name
    BY <2>2, <2>4
  <2> QED BY <2>1, <2>3, <2>5 DEF Sows, NameOf
<1> QED BY <1>1, <1>2, <1>3 DEF Seeds

(* Wherever starts were cut short, nothing of the file is missing: seeds   *)
(* are executed before their flag.                                         *)
NothingMissing ==
  Serving =>
    /\ \A s \in Seeds \ removed : Copies(s) > 0
    /\ Config.alias # <<>> => alias

LEMMA NoneMissing == BootInv /\ Tables => NothingMissing
<1> SUFFICES ASSUME BootInv, Tables, Serving
             PROVE  /\ \A s \in Seeds \ removed : Copies(s) > 0
                    /\ Config.alias # <<>> => alias
  BY DEF NothingMissing
<1>1. ASSUME NEW s \in Seeds \ removed PROVE Copies(s) > 0
  <2>1. PICK x \in SeedStmts \cup RuleStmts : Sows(x) /\ s = <<x.op, NameOf(x)>>
    BY SeedStatements
  <2>2. Sown(x)
    BY ServingSeeded
  <2>3. There(x.op, NameOf(x))
    BY <2>1, <2>2 DEF Sown, Sows, Known
  <2> QED BY <2>1, <2>3, CopiesCounted
<1>2. ASSUME Config.alias # <<>> PROVE alias
  <2>1. 1 \in DOMAIN Config.alias
    BY <1>2, FileLists, EmptySeq, LenProperties
  <2>2. PICK x : x = [op |-> "alias", value |-> Config.alias[1]]
    OBVIOUS
  <2>3. x \in SeedStmts /\ x.op = "alias"
    BY <2>1, <2>2 DEF SeedStmts, Of
  <2> QED BY <2>3, ServingSeeded DEF Sown
<1> QED BY <1>1, <1>2

THEOREM NothingIsMissing == Spec => []NothingMissing
BY Boots, TablesInitially, TablesInductive, NoneMissing, PTL DEF Spec

LEMMA OnceInitially == ASSUME ChecksApart PROVE Init => OnceInv
<1> SUFFICES ASSUME Init PROVE OnceInv
  OBVIOUS
<1>1. /\ boot = Starts(DOMAIN setting) /\ rule = {} /\ removed = {}
  BY DEF Init, SettingsInit, Load, Starts, Reload
<1>2. Once(boot, "check") /\ Once(boot, "rule")
  BY <1>1, StartsOnce
<1>3. RemovedGone
  BY <1>1 DEF RemovedGone
<1>4. CASE setting = <<>> /\ check = {} /\ peer = {}
  BY <1>1, <1>2, <1>3, <1>4 DEF OnceInv, Single, Unsown, Sows, There
<1>5. CASE /\ setting = [initialized |-> "1", general |-> Seconds(Config.general), notify |-> Config.notify]
           /\ check = {[id |-> i, name |-> Config.checks[i]] : i \in DOMAIN Config.checks}
  <2>1. Single
    <3>1. ASSUME NEW a \in check, NEW b \in check, a.name = b.name PROVE a = b
      <4>1. PICK i \in DOMAIN Config.checks : a = [id |-> i, name |-> Config.checks[i]]
        BY <1>5
      <4>2. PICK j \in DOMAIN Config.checks : b = [id |-> j, name |-> Config.checks[j]]
        BY <1>5
      <4>3. Config.checks[i] = Config.checks[j]
        BY <3>1, <4>1, <4>2
      <4>4. i = j
        BY <4>3 DEF ChecksApart
      <4> QED BY <4>1, <4>2, <4>4
    <3> QED BY <1>1, <3>1 DEF Single
  <2>2. "initialized" \in DOMAIN setting
    BY <1>5
  <2>3. None(boot, "check")
    <3> DEFINE b == IF "alerts_seeded" \in DOMAIN setting THEN <<>> ELSE seedAlertRulesOnce
    <3> DEFINE last == <<Reload>>
    <3>1. last \in Seq(Stmts) /\ None(last, "check")
      <4>1. last \in Seq(Stmts) /\ Len(last) = 1 /\ last[1].op = "reload"
        BY DEF Stmts, Reload
      <4> HIDE DEF last
      <4> QED BY <4>1 DEF None
    <3>2. b \in Seq(Stmts) /\ None(b, "check")
      BY RuleSeedFacts, RuleSeedOnce DEF None
    <3>3. boot = <<>> \o b \o last
      BY <1>1, <2>2 DEF Starts
    <3> HIDE DEF b, last
    <3>4. boot = b \o last
      BY <3>1, <3>2, <3>3, ConcatEmptySeq
    <3> QED BY <3>1, <3>2, <3>4, NoneJoined
  <2> QED BY <1>1, <1>2, <1>3, <2>1, <2>3 DEF OnceInv, Unsown, Sows, None, There
<1> QED BY <1>4, <1>5 DEF Init, SettingsInit

LEMMA OnceInductive ==
  ASSUME BodiesApart
  PROVE  BootInv /\ OnceInv /\ [Next]_vars => OnceInv'
<1> SUFFICES ASSUME BootInv, OnceInv, [SettingsStep]_settingsVars PROVE OnceInv'
  BY StepsOfSettings
<1>1. CASE UNCHANGED <<check, peer, rule, removed, boot, cut>>
  <2>1. \A kind, name : There(kind, name)' <=> There(kind, name)
    BY <1>1 DEF There
  <2> QED BY <1>1, <2>1 DEF OnceInv, RemovedGone, Single, Unsown
<1>2. CASE evaluate \/ \E p \in todo : evalRule(p)
  BY <1>1, <1>2 DEF evaluate, evalRule, tables, service, ghosts
<1>3. CASE UNCHANGED settingsVars
  BY <1>1, <1>3 DEF settingsVars, tables, service, ghosts
<1> QED BY <1>2, <1>3, LoadOnce, RestartOnce, ServeOnce DEF SettingsStep, SettingsRun

(* Wherever starts were cut short, a process that serves has every check,  *)
(* peer, default rule and alias of its configuration file; exactly one of  *)
(* each if no start was cut short while seeding; and what was deleted      *)
(* stays deleted (Load, seed, seedAlertRulesOnce).  Rows are counted by    *)
(* name: the file's checks differ in theirs, and the dashboard submits no   *)
(* rule named like one of the file's.                                      *)
THEOREM SeedsAreSownOnce ==
  ASSUME ChecksApart, BodiesApart
  PROVE  Spec => []SeededOnce
<1>1. BootInv /\ Tables /\ OnceInv => SeededOnce
  <2> SUFFICES ASSUME BootInv, Tables, OnceInv, Serving
               PROVE  /\ \A s \in Seeds : IF s \in removed THEN cut \/ Copies(s) = 0 ELSE Copies(s) > 0
                      /\ ~cut => \A s \in Seeds : Copies(s) <= 1
                      /\ Config.alias # <<>> => alias
    BY DEF SeededOnce
  <2>1. (\A s \in Seeds \ removed : Copies(s) > 0) /\ (Config.alias # <<>> => alias)
    BY NoneMissing DEF NothingMissing
  <2>2. ASSUME NEW s \in Seeds, ~cut PROVE Copies(s) <= 1 /\ (s \in removed => Copies(s) = 0)
    <3>1. PICK x \in SeedStmts \cup RuleStmts : s = <<x.op, NameOf(x)>>
      BY SeedStatements
    <3>2. RemovedGone /\ Single
      BY <2>2 DEF OnceInv
    <3>3. s \in removed => ~There(x.op, NameOf(x))
      BY <2>2, <3>1, <3>2 DEF RemovedGone
    <3> QED BY <2>2, <3>1, <3>2, <3>3, CopiesCounted
  <2> QED BY <2>1, <2>2
<1> QED BY Boots, TablesInitially, TablesInductive, OnceInitially, OnceInductive, <1>1, PTL DEF Spec
==============================================================================
