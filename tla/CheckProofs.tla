---------------------------- MODULE CheckProofs ----------------------------
(***************************************************************************)
(* Proofs about CheckLifecycle, for any names, seeded checks and bounds:   *)
(* its types for any number of dashboards, and for one dashboard that the  *)
(* cache follows the table and that only the named races leave an alert    *)
(* behind.                                                                 *)
(***************************************************************************)
EXTENDS CheckLifecycle, TLAPS

(* A request reaches the forgetting steps only if it has a name to forget, *)
(* and the UPDATE only with the name of the body.                          *)
Sensible(r) == /\ r.step \in {"row", "alert"} => Forgets(r)
               /\ r.step = "update" => r.name \in Name
ForgetsWhat == \A e \in Editor : Sensible(req[e])

TypedOK == TypeOK /\ ForgetsWhat

(* The record of no request has the type of requests.                      *)
LEMMA NoReqType == NoReq \in Request
  BY DEF NoReq, Request, Step

(* A request that moves on to another step is a request.                   *)
LEMMA StepType ==
  ASSUME NEW r \in Request, NEW step \in Step
  PROVE  /\ [r EXCEPT !.step = step] \in Request
         /\ [r EXCEPT !.step = step].step = step
         /\ Forgets([r EXCEPT !.step = step]) <=> Forgets(r)
  BY DEF Request, Forgets

(* The names the cache knows are names.                                    *)
LEMMA NameByIDType ==
  ASSUME TypeOK, NEW id
  PROVE  NameByID(id) \in Name \cup {NoName}
<1>1. CASE \E c \in cache : c.id = id
  <2> DEFINE c == CHOOSE c \in cache : c.id = id
  <2>1. c \in cache
    BY <1>1
  <2>2. c.name \in Name
    BY <2>1 DEF TypeOK, Check
  <2> QED BY <1>1, <2>2 DEF NameByID
<1> QED BY <1>1 DEF NameByID

(* What a request to forget wants forgotten is a name.                     *)
LEMMA OldIsName ==
  ASSUME NEW r \in Request, Forgets(r)
  PROVE  r.old \in Name
  BY DEF Request, Forgets

(* An error of the database leaves a number of faults.                     *)
LEMMA FailType ==
  ASSUME TypeOK, NEW lost \in BOOLEAN, Fail(lost)
  PROVE  faults' \in Nat
  BY DEF TypeOK, Fail

(* Putting a request into one slot leaves the others as they are.          *)
LEMMA SlotType ==
  ASSUME TypedOK, NEW e \in Editor, NEW r \in Request,
         Sensible(r),
         req' = [req EXCEPT ![e] = r]
  PROVE  req' \in [Editor -> Request] /\ ForgetsWhat'
  BY DEF TypedOK, TypeOK, ForgetsWhat, Sensible, Forgets

(* The same for a request that only moves on.                              *)
LEMMA GotoType ==
  ASSUME TypedOK, NEW e \in Editor, NEW step \in Step \ {"update"}, Goto(e, step),
         step \in {"row", "alert"} => Forgets(req[e])
  PROVE  req' \in [Editor -> Request] /\ ForgetsWhat'
<1> DEFINE r == [req[e] EXCEPT !.step = step]
<1>1. req[e] \in Request
  BY DEF TypedOK, TypeOK
<1>2. r \in Request /\ r.step = step /\ (Forgets(r) <=> Forgets(req[e]))
  BY <1>1, StepType
<1>3. req' = [req EXCEPT ![e] = r]
  BY DEF Goto
<1>4. Sensible(r)
  BY <1>2 DEF Sensible
<1> HIDE DEF r
<1> QED BY <1>2, <1>3, <1>4, SlotType

(* The same for a request that ends.                                       *)
LEMMA FinishedType ==
  ASSUME TypedOK, NEW e \in Editor, Finished(e)
  PROVE  req' \in [Editor -> Request] /\ ForgetsWhat'
<1>1. Sensible(NoReq)
  BY DEF NoReq, Sensible
<1> QED BY <1>1, NoReqType, SlotType DEF Finished

(* Starting a request of a given record keeps the types.                   *)
LEMMA NewRequestType ==
  ASSUME TypedOK, NEW e \in Editor, NEW r \in Request,
         Sensible(r), NewRequest(e, r)
  PROVE  req' \in [Editor -> Request] /\ ForgetsWhat' /\ edits' \in Nat
<1>1. req' = [req EXCEPT ![e] = r] /\ edits' = edits + 1
  BY DEF NewRequest
<1>2. edits' \in Nat
  BY <1>1 DEF TypedOK, TypeOK
<1> QED BY <1>1, <1>2, SlotType

(* Every step of a request under way keeps the types.                      *)
LEMMA HandleType ==
  ASSUME TypedOK, NEW e \in Editor, Handle(e)
  PROVE  TypedOK'
<1> DEFINE r == req[e]
<1>0. r \in Request /\ TypeOK
  BY DEF TypedOK, TypeOK
<1>1. CASE UpdateRow(e)
  <2>0. r.name \in Name
    BY <1>1 DEF UpdateRow, TypedOK, ForgetsWhat, Sensible
  <2>1. table' \subseteq Check
    BY <1>0, <1>1, <2>0 DEF UpdateRow, TypeOK, Check, Request
  <2>2. req' \in [Editor -> Request] /\ ForgetsWhat'
    <3>1. CASE Finished(e)
      BY <3>1, FinishedType
    <3>2. CASE Goto(e, "load")
      BY <3>2, GotoType DEF Step
    <3> QED BY <1>1, <3>1, <3>2 DEF UpdateRow
  <2> QED BY <1>0, <1>1, <2>1, <2>2
          DEF UpdateRow, TypedOK, TypeOK, running, alerting, bounds, history
<1>2. CASE FindName(e)
  <2> DEFINE q == [r EXCEPT !.step = "delete", !.found = NameByID(r.id)]
  <2>1. NameByID(r.id) \in Name \cup {NoName}
    BY <1>0, NameByIDType
  <2>2. q \in Request /\ Sensible(q)
    BY <1>0, <2>1 DEF Request, Step, Sensible
  <2>3. req' = [req EXCEPT ![e] = q]
    BY <1>2 DEF FindName
  <2> HIDE DEF q
  <2>4. req' \in [Editor -> Request] /\ ForgetsWhat'
    BY <2>2, <2>3, SlotType
  <2> QED BY <1>0, <1>2, <2>4
          DEF FindName, TypedOK, TypeOK, config, running, alerting, bounds, history
<1>3. CASE DeleteRow(e)
  <2>1. req' \in [Editor -> Request] /\ ForgetsWhat'
    <3>1. CASE Goto(e, "load")
      BY <3>1, GotoType DEF Step
    <3>2. CASE Goto(e, "status")
      BY <3>2, GotoType DEF Step
    <3> QED BY <1>3, <3>1, <3>2 DEF DeleteRow
  <2>2. table' \subseteq Check
    BY <1>0, <1>3 DEF DeleteRow, TypeOK
  <2> QED BY <1>0, <1>3, <2>1, <2>2
          DEF DeleteRow, TypedOK, TypeOK, running, alerting, bounds, history
<1>4. CASE DeleteStatus(e)
  <2>1. req' \in [Editor -> Request] /\ ForgetsWhat'
    BY <1>4, GotoType DEF DeleteStatus, Step
  <2>2. row' \in [Name -> RowState] /\ faults' \in Nat
    BY <1>0, <1>4, FailType DEF DeleteStatus, TypeOK, RowState
  <2> QED BY <1>0, <1>4, <2>1, <2>2
          DEF DeleteStatus, TypedOK, TypeOK, config, alerting, history
<1>5. CASE LoadChecks(e)
  <2>1. CASE Fail(FALSE) /\ req' = [req EXCEPT ![e].step = "store", ![e].loaded = table]
             /\ UNCHANGED history
    <3> DEFINE q == [r EXCEPT !.step = "store", !.loaded = table]
    <3>1. q \in Request /\ Sensible(q)
      BY <1>0 DEF Request, Step, TypeOK, Sensible
    <3>2. req' = [req EXCEPT ![e] = q]
      BY <2>1
    <3> HIDE DEF q
    <3>3. req' \in [Editor -> Request] /\ ForgetsWhat'
      BY <3>1, <3>2, SlotType
    <3>4. faults' \in Nat
      BY <1>0, <2>1, FailType
    <3> QED BY <1>0, <1>5, <2>1, <3>3, <3>4
            DEF LoadChecks, TypedOK, TypeOK, config, running, alerting, history
  <2>2. CASE Fail(TRUE) /\ Finished(e) /\ missed' = TRUE
             /\ raced' = IF Forgets(req[e]) THEN raced \cup {req[e].old} ELSE raced
    <3>1. req' \in [Editor -> Request] /\ ForgetsWhat'
      BY <2>2, FinishedType
    <3>2. raced' \subseteq Name
      BY <1>0, <2>2, OldIsName DEF TypeOK
    <3>3. faults' \in Nat
      BY <1>0, <2>2, FailType
    <3> QED BY <1>0, <1>5, <2>2, <3>1, <3>2, <3>3
            DEF LoadChecks, TypedOK, TypeOK, config, running, alerting
  <2> QED BY <1>5, <2>1, <2>2 DEF LoadChecks
<1>6. CASE StoreChecks(e)
  <2>1. req' \in [Editor -> Request] /\ ForgetsWhat'
    <3>1. CASE Forgets(req[e])
      BY <1>6, <3>1, GotoType DEF StoreChecks, Step
    <3>2. CASE ~ Forgets(req[e])
      BY <1>6, <3>2, FinishedType DEF StoreChecks
    <3> QED BY <3>1, <3>2
  <2>2. cache' \subseteq Check
    BY <1>0, <1>6 DEF StoreChecks, Refreshed, Request
  <2> QED BY <1>0, <1>6, <2>1, <2>2
          DEF StoreChecks, TypedOK, TypeOK, running, alerting, bounds
<1>7. CASE ForgetRow(e)
  <2>1. Forgets(req[e])
    BY <1>7 DEF ForgetRow, TypedOK, ForgetsWhat, Sensible
  <2>2. req' \in [Editor -> Request] /\ ForgetsWhat'
    BY <1>7, <2>1, GotoType DEF ForgetRow, Step
  <2>3. r.old \in Name
    BY <1>0, <2>1, OldIsName
  <2>4. row' \in [Name -> RowState] /\ raced' \subseteq Name /\ faults' \in Nat
    BY <1>0, <1>7, <2>3, FailType DEF ForgetRow, TypeOK, RowState
  <2> QED BY <1>0, <1>7, <2>2, <2>4
          DEF ForgetRow, TypedOK, TypeOK, config, alerting
<1>8. CASE ForgetAlert(e)
  <2>1. r.old \in Name
    BY <1>0, <1>8, OldIsName DEF ForgetAlert, TypedOK, ForgetsWhat, Sensible
  <2>2. req' \in [Editor -> Request] /\ ForgetsWhat'
    BY <1>8, FinishedType DEF ForgetAlert
  <2>3. firing' \subseteq Name /\ raced' \subseteq Name
    BY <1>0, <1>8, <2>1 DEF ForgetAlert, TypeOK
  <2> QED BY <1>0, <1>8, <2>2, <2>3
          DEF ForgetAlert, TypedOK, TypeOK, config, running, bounds
<1> QED BY <1>1, <1>2, <1>3, <1>4, <1>5, <1>6, <1>7, <1>8 DEF Handle, Refresh

(* Every step keeps the types.                                             *)
LEMMA TypedInductive ==
  ASSUME TypedOK, [Next]_vars
  PROVE  TypedOK'
<1>0. TypeOK
  BY DEF TypedOK
<1>1. CASE UNCHANGED vars
  BY <1>1 DEF vars, config, running, alerting, bounds, history,
              TypedOK, TypeOK, ForgetsWhat, Sensible, Forgets
<1>2. ASSUME NEW e \in Editor, NEW n \in Name, CreateCheck(e, n, TRUE)
      PROVE  TypedOK'
  <2> DEFINE q == [NoReq EXCEPT !.op = "create", !.step = "load"]
  <2>1. q \in Request /\ Sensible(q)
    BY DEF NoReq, Request, Step, Sensible
  <2>2. NewRequest(e, q)
    BY <1>2 DEF CreateCheck
  <2> HIDE DEF q
  <2>3. req' \in [Editor -> Request] /\ ForgetsWhat' /\ edits' \in Nat
    BY <2>1, <2>2, NewRequestType
  <2>4. FirstId + edits \in Nat
    BY <1>0, SeedAssumption DEF TypeOK
  <2> DEFINE c == [id |-> FirstId + edits, name |-> n, enabled |-> TRUE]
  <2>5. c \in Check
    BY <2>4 DEF Check
  <2>6. table' = table \cup {c}
    BY <1>2 DEF CreateCheck
  <2>7. table' \subseteq Check
    BY <1>0, <2>5, <2>6 DEF TypeOK
  <2> QED BY <1>0, <1>2, <2>3, <2>7
          DEF CreateCheck, TypedOK, TypeOK, running, alerting, history
<1>3. ASSUME NEW e \in Editor, NEW id \in 1 .. (FirstId + edits - 1), NEW n \in Name,
             NEW b \in BOOLEAN, BeginUpdate(e, id, n, b)
      PROVE  TypedOK'
  <2> DEFINE q == [NoReq EXCEPT !.op = "update", !.step = "update", !.id = id,
                                !.name = n, !.enabled = b, !.old = NameByID(id)]
  <2>1. id \in Nat /\ NameByID(id) \in Name \cup {NoName}
    BY <1>0, NameByIDType, SeedAssumption DEF TypeOK
  <2>2. q \in Request /\ Sensible(q)
    BY <2>1 DEF NoReq, Request, Step, Sensible
  <2>3. NewRequest(e, q)
    BY <1>3 DEF BeginUpdate
  <2> HIDE DEF q
  <2>4. req' \in [Editor -> Request] /\ ForgetsWhat' /\ edits' \in Nat
    BY <2>2, <2>3, NewRequestType
  <2> QED BY <1>0, <1>3, <2>4
          DEF BeginUpdate, TypedOK, TypeOK, config, running, alerting, history
<1>4. ASSUME NEW e \in Editor, NEW id \in 1 .. (FirstId + edits - 1), BeginDelete(e, id)
      PROVE  TypedOK'
  <2> DEFINE q == [NoReq EXCEPT !.op = "delete", !.step = "find", !.id = id,
                                !.old = NameByID(id)]
  <2>1. id \in Nat /\ NameByID(id) \in Name \cup {NoName}
    BY <1>0, NameByIDType, SeedAssumption DEF TypeOK
  <2>2. q \in Request /\ Sensible(q)
    BY <2>1 DEF NoReq, Request, Step, Sensible
  <2>3. NewRequest(e, q)
    BY <1>4 DEF BeginDelete
  <2> HIDE DEF q
  <2>4. req' \in [Editor -> Request] /\ ForgetsWhat' /\ edits' \in Nat
    BY <2>2, <2>3, NewRequestType
  <2> QED BY <1>0, <1>4, <2>4
          DEF BeginDelete, TypedOK, TypeOK, config, running, alerting, history
<1>5. ASSUME NEW e \in Editor, Handle(e)
      PROVE  TypedOK'
  BY <1>5, HandleType
<1>6. ASSUME NEW c \in cache, Launch(c)
      PROVE  TypedOK'
  BY <1>0, <1>6 DEF Launch, TypedOK, TypeOK, Check, config, alerting, bounds, history,
                    ForgetsWhat, Sensible, Forgets
<1>7. ASSUME NEW n \in Name, Finish(n)
      PROVE  TypedOK'
  <2>1. row' \in [Name -> RowState] /\ faults' \in Nat
    BY <1>0, <1>7, FailType DEF Finish, TypeOK, RowState, Verdicts
  <2> QED BY <1>0, <1>7, <2>1
          DEF Finish, TypedOK, TypeOK, config, alerting, history, ForgetsWhat, Sensible, Forgets
<1>8. ASSUME NEW n \in Name, Observe(n)
      PROVE  TypedOK'
  <2>1. firing' \subseteq Name /\ seen' \in [Name -> RowState]
    BY <1>0, <1>8 DEF Observe, Observed, TypeOK, RowState
  <2> QED BY <1>0, <1>8, <2>1
          DEF Observe, TypedOK, TypeOK, config, running, bounds, history, ForgetsWhat, Sensible, Forgets
<1>9. CASE BeginPass
  <2>1. seen' \in [Name -> RowState] /\ faults' \in Nat
    BY <1>0, <1>9, FailType DEF BeginPass, TypeOK
  <2> QED BY <1>0, <1>9, <2>1
          DEF BeginPass, TypedOK, TypeOK, config, running, history, ForgetsWhat, Sensible, Forgets
<1>10. CASE Restart
  <2>1. faults' \in Nat
    BY <1>0, <1>10, FailType DEF Restart
  <2>2. req' \in [Editor -> Request] /\ ForgetsWhat'
    BY <1>10, NoReqType DEF Restart, ForgetsWhat, Sensible, NoReq
  <2>3. raced' \subseteq Name /\ seen' \in [Name -> RowState]
    BY <1>0, <1>10 DEF Restart, CutShort, TypeOK, RowState
  <2> QED BY <1>0, <1>10, <2>1, <2>2, <2>3 DEF Restart, TypedOK, TypeOK
<1> QED BY <1>1, <1>2, <1>3, <1>4, <1>5, <1>6, <1>7, <1>8, <1>9, <1>10 DEF Next

(* The first state has the types.                                          *)
LEMMA TypedInit ==
  ASSUME Init
  PROVE  TypedOK
<1>1. Sensible(NoReq)
  BY DEF Sensible, NoReq
<1>2. ForgetsWhat
  BY <1>1 DEF Init, ForgetsWhat
<1>3. TypeOK
  BY SeedAssumption, NoReqType DEF Init, TypeOK, RowState
<1> QED BY <1>2, <1>3 DEF TypedOK

(* The state keeps its types, whatever requests, runs, passes, errors and  *)
(* restarts there are.                                                     *)
THEOREM LifecycleTypeCorrect == Spec => []TypeOK
<1>1. TypedOK => TypeOK
  BY DEF TypedOK
<1> QED BY <1>1, TypedInit, TypedInductive, PTL DEF Spec

----------------------------------------------------------------------------
(***************************************************************************)
(* One dashboard.  A name leaves a trace (a run, a row, an alert) only     *)
(* while a configured check of that name is also cached, a request is on   *)
(* its way to forget it, or it counts as raced.                            *)
(***************************************************************************)
OneEditor == Editor # {} /\ \A e, f \in Editor : e = f

Trace(n) == n \in inflight \/ row[n] # "none" \/ seen[n] # "none" \/ n \in firing

\* The check d, as it is cached, is also the check as it is configured.
Configured(d) == \E c \in table : c.id = d.id /\ c.name = d.name
Backed(n) == \E d \in cache : d.name = n /\ Configured(d)

TraceBacked == \A n \in Name : Trace(n) => n \in raced \cup CutShort \/ Backed(n)

CacheBacked == \A d \in cache : d.name \in raced \cup CutShort \/ Configured(d)

\* Ids name one check each, in the table and in the cache.
UniqueIds ==
  /\ \A c \in table : c.id < FirstId + edits
  /\ \A c, d \in table : c.id = d.id => c = d
  /\ \A c, d \in cache : c.id = d.id => c = d

\* What a request has captured is still so.
Begun == {"update", "find", "delete"}
Fresh(r) ==
  /\ r.step = "update" => r.op = "update"
  /\ r.step \in {"find", "delete"} => r.op = "delete"
  /\ r.step \in Begun => r.old = NameByID(r.id)
  /\ r.step \in Begun \cup {"idle"} => missed \/ cache = table
  /\ r.step = "store" => r.loaded = table
  /\ r.step \in {"row", "alert"} => cache = table
AllFresh == \A e \in Editor : Fresh(req[e])

\* Between the two steps of forgetting, no row comes back unnoticed.
Forgotten ==
  \A e \in Editor : req[e].step = "alert" =>
    \/ req[e].old \in raced
    \/ Backed(req[e].old)
    \/ row[req[e].old] = "none" /\ req[e].old \notin inflight

LifecycleInv == /\ TypedOK /\ UniqueIds /\ AllFresh
                /\ TraceBacked /\ CacheBacked /\ Forgotten

(* What a request that moves on keeps.                                     *)
LEMMA GotoKeeps ==
  ASSUME TypedOK, NEW e \in Editor, NEW step \in Step, Goto(e, step)
  PROVE  /\ req'[e].step = step
         /\ req'[e].op = req[e].op /\ req'[e].id = req[e].id
         /\ req'[e].name = req[e].name /\ req'[e].old = req[e].old
         /\ (Forgets(req'[e]) <=> Forgets(req[e]))
<1>1. req[e] \in Request
  BY DEF TypedOK, TypeOK
<1>2. req'[e] = [req[e] EXCEPT !.step = step]
  BY DEF Goto, TypedOK, TypeOK
<1> QED BY <1>1, <1>2 DEF Request, Forgets

(* A request that ends leaves the editor idle.                             *)
LEMMA FinishedIs ==
  ASSUME TypedOK, NEW e \in Editor, Finished(e)
  PROVE  req'[e].step = "idle"
  BY DEF TypedOK, TypeOK, Finished, NoReq

\* A request at these steps has changed its row and may owe a name.
Removing == {"status", "load", "store", "row", "alert"}

(* With one editor, all that is cut short is what its request would forget.*)
LEMMA CutShortIs ==
  ASSUME OneEditor, NEW e \in Editor
  PROVE  CutShort = {n \in Name :
           /\ req[e].step \in Removing
           /\ Forgets(req[e])
           /\ n = req[e].old}
  BY DEF OneEditor, CutShort, Removing

(* If ids are unique, looking up the id of a cached check finds its name.  *)
LEMMA LookupFinds ==
  ASSUME UniqueIds, NEW d \in cache
  PROVE  NameByID(d.id) = d.name
<1> DEFINE c == CHOOSE c \in cache : c.id = d.id
<1>1. c \in cache /\ c.id = d.id
  OBVIOUS
<1>2. c = d
  BY <1>1 DEF UniqueIds
<1> QED BY <1>2 DEF NameByID

(* With one editor, what its request captured stays fresh: no other request*)
(* changes the table or the cache under it.                                *)
LEMMA FreshInductive ==
  ASSUME OneEditor, TypedOK, AllFresh, [Next]_vars
  PROVE  AllFresh'
<1>0. ASSUME NEW e \in Editor, Fresh(req[e])'
      PROVE  AllFresh'
  BY <1>0 DEF AllFresh, OneEditor
<1>1. CASE UNCHANGED <<config, req, missed>>
  BY <1>1 DEF config, AllFresh, Fresh, NameByID
<1>2. ASSUME NEW e \in Editor, NEW n \in Name, CreateCheck(e, n, TRUE)
      PROVE  AllFresh'
  <2>1. req'[e].step = "load"
    BY <1>2 DEF CreateCheck, NewRequest, NoReq, TypedOK, TypeOK
  <2> QED BY <1>0, <2>1 DEF Fresh, Begun
<1>3. ASSUME NEW e \in Editor, NEW id \in 1 .. (FirstId + edits - 1), NEW n \in Name,
             NEW b \in BOOLEAN, BeginUpdate(e, id, n, b)
      PROVE  AllFresh'
  <2>1. /\ req'[e].step = "update" /\ req'[e].op = "update"
        /\ req'[e].id = id /\ req'[e].old = NameByID(id)
    BY <1>3 DEF BeginUpdate, NewRequest, NoReq, TypedOK, TypeOK
  <2>2. req[e].step = "idle" /\ cache' = cache /\ table' = table /\ missed' = missed
    BY <1>3 DEF BeginUpdate, NewRequest, config, history
  <2>3. missed \/ cache = table
    BY <2>2 DEF AllFresh, Fresh, Begun
  <2> QED BY <1>0, <2>1, <2>2, <2>3 DEF Fresh, Begun, NameByID
<1>4. ASSUME NEW e \in Editor, NEW id \in 1 .. (FirstId + edits - 1), BeginDelete(e, id)
      PROVE  AllFresh'
  <2>1. /\ req'[e].step = "find" /\ req'[e].op = "delete"
        /\ req'[e].id = id /\ req'[e].old = NameByID(id)
    BY <1>4 DEF BeginDelete, NewRequest, NoReq, TypedOK, TypeOK
  <2>2. req[e].step = "idle" /\ cache' = cache /\ table' = table /\ missed' = missed
    BY <1>4 DEF BeginDelete, NewRequest, config, history
  <2>3. missed \/ cache = table
    BY <2>2 DEF AllFresh, Fresh, Begun
  <2> QED BY <1>0, <2>1, <2>2, <2>3 DEF Fresh, Begun, NameByID
<1>5. ASSUME NEW e \in Editor, UpdateRow(e)
      PROVE  AllFresh'
  <2>1. CASE Goto(e, "load")
    <3>1. req'[e].step = "load"
      BY <2>1, GotoKeeps DEF Step
    <3> QED BY <1>0, <3>1 DEF Fresh, Begun
  <2>2. CASE Finished(e) /\ UNCHANGED table
    <3>1. req'[e].step = "idle"
      BY <2>2, FinishedIs
    <3>2. missed' \/ cache' = table'
      BY <1>5, <2>2 DEF UpdateRow, AllFresh, Fresh, Begun, history
    <3> QED BY <1>0, <3>1, <3>2 DEF Fresh, Begun
  <2> QED BY <1>5, <2>1, <2>2 DEF UpdateRow
<1>6. ASSUME NEW e \in Editor, FindName(e)
      PROVE  AllFresh'
  <2>1. /\ req'[e].step = "delete" /\ req'[e].op = req[e].op
        /\ req'[e].id = req[e].id /\ req'[e].old = req[e].old
    BY <1>6 DEF FindName, TypedOK, TypeOK, Request
  <2>2. /\ req[e].step = "find"
        /\ cache' = cache /\ table' = table /\ missed' = missed
    BY <1>6 DEF FindName, config, history
  <2>3. /\ req[e].op = "delete" /\ req[e].old = NameByID(req[e].id)
        /\ (missed \/ cache = table)
    BY <2>2 DEF AllFresh, Fresh, Begun
  <2> QED BY <1>0, <2>1, <2>2, <2>3 DEF Fresh, Begun, NameByID
<1>7. ASSUME NEW e \in Editor, DeleteRow(e) \/ DeleteStatus(e)
      PROVE  AllFresh'
  <2>1. PICK step \in {"load", "status"} : Goto(e, step)
    BY <1>7 DEF DeleteRow, DeleteStatus
  <2>2. req'[e].step = step
    BY <2>1, GotoKeeps DEF Step
  <2> QED BY <1>0, <2>2 DEF Fresh, Begun
<1>8. ASSUME NEW e \in Editor, LoadChecks(e)
      PROVE  AllFresh'
  <2>1. CASE req' = [req EXCEPT ![e].step = "store", ![e].loaded = table]
    <3>1. req'[e].step = "store" /\ req'[e].loaded = table
      BY <2>1 DEF TypedOK, TypeOK, Request
    <3>2. table' = table
      BY <1>8 DEF LoadChecks, config
    <3> QED BY <1>0, <3>1, <3>2 DEF Fresh, Begun
  <2>2. CASE Finished(e) /\ missed' = TRUE
    <3>1. req'[e].step = "idle"
      BY <2>2, FinishedIs
    <3> QED BY <1>0, <2>2, <3>1 DEF Fresh, Begun
  <2> QED BY <1>8, <2>1, <2>2 DEF LoadChecks
<1>9. ASSUME NEW e \in Editor, StoreChecks(e)
      PROVE  AllFresh'
  <2>1. cache' = table'
    BY <1>9 DEF StoreChecks, Refreshed, AllFresh, Fresh
  <2>2. req'[e].step \in {"row", "idle"}
    BY <1>9, GotoKeeps, FinishedIs DEF StoreChecks, Step
  <2> QED BY <1>0, <2>1, <2>2 DEF Fresh, Begun
<1>10. ASSUME NEW e \in Editor, ForgetRow(e) \/ ForgetAlert(e)
       PROVE  AllFresh'
  <2>1. req'[e].step \in {"alert", "idle"}
    BY <1>10, GotoKeeps, FinishedIs DEF ForgetRow, ForgetAlert, Step
  <2>2. cache' = table'
    BY <1>10 DEF ForgetRow, ForgetAlert, AllFresh, Fresh, config
  <2> QED BY <1>0, <2>1, <2>2 DEF Fresh, Begun
<1>11. CASE Restart
  <2>1. \A e \in Editor : req'[e].step = "idle"
    BY <1>11 DEF Restart, NoReq
  <2>2. cache' = table'
    BY <1>11 DEF Restart
  <2> QED BY <2>1, <2>2 DEF AllFresh, Fresh, Begun
<1>12. ASSUME NEW e \in Editor, Handle(e)
       PROVE  AllFresh'
  BY <1>5, <1>6, <1>7, <1>8, <1>9, <1>10, <1>12 DEF Handle, Refresh
<1>13. CASE UNCHANGED vars
  BY <1>1, <1>13 DEF vars, history
<1>14. ASSUME NEW c \in cache, Launch(c)
       PROVE  AllFresh'
  BY <1>1, <1>14 DEF Launch, history
<1>15. ASSUME NEW n \in Name, Finish(n) \/ Observe(n)
       PROVE  AllFresh'
  BY <1>1, <1>15 DEF Finish, Observe, history
<1>16. CASE BeginPass
  BY <1>1, <1>16 DEF BeginPass, history
<1> QED BY <1>2, <1>3, <1>4, <1>11, <1>12, <1>13, <1>14, <1>15, <1>16 DEF Next

(* Ids stay unique: the INSERT gives out the next one, the UPDATE puts its *)
(* row in the place of the one with its id, the cache is a copy.           *)
LEMMA UniqueInductive ==
  ASSUME TypedOK, UniqueIds, AllFresh, [Next]_vars
  PROVE  UniqueIds'
<1>0. FirstId \in Nat /\ edits \in Nat /\ table \subseteq Check
  BY SeedAssumption DEF TypedOK, TypeOK
<1>1. CASE UNCHANGED <<config, edits>>
  BY <1>1 DEF config, UniqueIds
<1>2. ASSUME NEW e \in Editor, NEW n \in Name, CreateCheck(e, n, TRUE)
      PROVE  UniqueIds'
  <2> DEFINE new == [id |-> FirstId + edits, name |-> n, enabled |-> TRUE]
  <2>1. table' = table \cup {new} /\ edits' = edits + 1 /\ cache' = cache
    BY <1>2 DEF CreateCheck, NewRequest
  <2>2. new.id = FirstId + edits
    OBVIOUS
  <2>3. \A c \in table : c.id \in Nat
    BY <1>0 DEF Check
  <2> HIDE DEF new
  <2> QED BY <1>0, <2>1, <2>2, <2>3 DEF UniqueIds
<1>3. ASSUME UNCHANGED config, edits' = edits + 1
      PROVE  UniqueIds'
  <2>1. \A c \in table : c.id \in Nat
    BY <1>0 DEF Check
  <2> QED BY <1>0, <1>3, <2>1 DEF config, UniqueIds
<1>4. ASSUME NEW e \in Editor, UpdateRow(e)
      PROVE  UniqueIds'
  <2> DEFINE r == req[e]
             target == {c \in table : c.id = r.id}
             new == [id |-> r.id, name |-> r.name, enabled |-> r.enabled]
  <2>1. cache' = cache /\ edits' = edits
    BY <1>4 DEF UpdateRow, bounds
  <2>2. CASE table' = table
    BY <2>1, <2>2 DEF UniqueIds
  <2>3. CASE target # {} /\ table' = (table \ target) \cup {new}
    <3>1. new.id = r.id
      OBVIOUS
    <3>2. r.id < FirstId + edits
      BY <2>3 DEF UniqueIds
    <3> HIDE DEF new
    <3> QED BY <2>1, <2>3, <3>1, <3>2 DEF UniqueIds
  <2> QED BY <1>4, <2>2, <2>3 DEF UpdateRow
<1>5. ASSUME NEW e \in Editor, DeleteRow(e)
      PROVE  UniqueIds'
  BY <1>5 DEF DeleteRow, bounds, UniqueIds
<1>6. ASSUME NEW e \in Editor, StoreChecks(e)
      PROVE  UniqueIds'
  BY <1>6 DEF StoreChecks, Refreshed, bounds, AllFresh, Fresh, UniqueIds
<1>7. CASE Restart
  BY <1>7 DEF Restart, UniqueIds
<1>8. ASSUME NEW e \in Editor, Handle(e)
      PROVE  UniqueIds'
  BY <1>1, <1>4, <1>5, <1>6, <1>8 
     DEF Handle, Refresh, FindName, DeleteStatus, LoadChecks, ForgetRow, ForgetAlert, bounds
<1>9. ASSUME NEW e \in Editor, NEW id \in 1 .. (FirstId + edits - 1),
             \/ BeginDelete(e, id)
             \/ \E n \in Name, b \in BOOLEAN : BeginUpdate(e, id, n, b)
      PROVE  UniqueIds'
  BY <1>3, <1>9 DEF BeginDelete, BeginUpdate, NewRequest
<1>10. CASE UNCHANGED vars
  BY <1>1, <1>10 DEF vars, bounds
<1>11. CASE \/ \E c \in cache : Launch(c)
            \/ \E n \in Name : Finish(n) \/ Observe(n)
            \/ BeginPass
  BY <1>1, <1>11 DEF Launch, Finish, Observe, BeginPass, bounds
<1> QED BY <1>2, <1>7, <1>8, <1>9, <1>10, <1>11 DEF Next

(* What a request is to forget stays on the list of what would be cut short*)
(* while the request moves on.                                             *)
LEMMA CutShortKept ==
  ASSUME OneEditor, NEW e \in Editor,
         \/ req[e].step \notin Removing
         \/ ~ Forgets(req[e])
         \/ /\ req'[e].step \in Removing
            /\ Forgets(req'[e])
            /\ req'[e].old = req[e].old
  PROVE  CutShort \subseteq CutShort'
<1> SUFFICES ASSUME NEW n \in CutShort
             PROVE  n \in CutShort'
  OBVIOUS
<1>1. n \in Name /\ req[e].step \in Removing /\ Forgets(req[e]) /\ n = req[e].old
  BY CutShortIs
<1>2. req'[e].step \in Removing /\ Forgets(req'[e]) /\ n = req'[e].old
  BY <1>1
<1> QED BY <1>1, <1>2 DEF CutShort, Removing

(* The same for a request that only moves on.                              *)
LEMMA GotoCutShort ==
  ASSUME OneEditor, TypedOK, NEW e \in Editor, NEW step \in Removing, Goto(e, step)
  PROVE  CutShort \subseteq CutShort'
<1>1. /\ req'[e].step = step /\ req'[e].old = req[e].old
      /\ (Forgets(req'[e]) <=> Forgets(req[e]))
  BY GotoKeeps DEF Removing, Step
<1> QED BY <1>1, CutShortKept

(* A step that leaves the cache alone keeps every trace accounted for, if  *)
(* the traces it adds are, and if the cached checks it stops being         *)
(* configured are going to be forgotten.                                   *)
LEMMA Accounted ==
  ASSUME TraceBacked, CacheBacked, cache' = cache,
         raced \cup CutShort \subseteq raced' \cup CutShort',
         \A n \in Name : Trace(n)' => Trace(n) \/ n \in raced \cup CutShort \/ Backed(n),
         \A d \in cache : Configured(d) => Configured(d)' \/ d.name \in raced' \cup CutShort'
  PROVE  TraceBacked' /\ CacheBacked'
<1>1. CacheBacked'
  BY DEF CacheBacked
<1>2. ASSUME NEW n \in Name, Trace(n)'
      PROVE  n \in raced' \cup CutShort' \/ Backed(n)'
  <2>1. n \in raced \cup CutShort \/ Backed(n)
    BY <1>2 DEF TraceBacked
  <2>2. CASE Backed(n)
    BY <2>2 DEF Backed
  <2> QED BY <2>1, <2>2
<1> QED BY <1>1, <1>2 DEF TraceBacked

(* The same for a step that copies the table into the cache.               *)
LEMMA AccountedByCopy ==
  ASSUME TraceBacked, cache' = table, table' = table,
         raced \cup CutShort \subseteq raced' \cup CutShort',
         \A n \in Name : Trace(n)' => Trace(n)
  PROVE  TraceBacked' /\ CacheBacked'
<1>1. CacheBacked'
  BY DEF CacheBacked, Configured
<1>2. ASSUME NEW n \in Name, Trace(n)'
      PROVE  n \in raced' \cup CutShort' \/ Backed(n)'
  <2>1. n \in raced \cup CutShort \/ Backed(n)
    BY <1>2 DEF TraceBacked
  <2>2. CASE Backed(n)
    BY <2>2 DEF Backed, Configured
  <2> QED BY <2>1, <2>2
<1> QED BY <1>1, <1>2 DEF TraceBacked

(* The check that a row is taken from was cached under its old name, so    *)
(* that the request has that name to forget.                               *)
LEMMA OldNameCaptured ==
  ASSUME TypedOK, UniqueIds, AllFresh, NEW e \in Editor, req[e].step \in Begun,
         NEW d \in cache, d.id = req[e].id
  PROVE  req[e].old = d.name /\ d.name \in Name
<1>1. req[e].old = NameByID(d.id)
  BY DEF AllFresh, Fresh
<1>2. d.name \in Name
  BY DEF TypedOK, TypeOK, Check
<1> QED BY <1>1, <1>2, LookupFinds

(* No step of a request loses track of a trace.                            *)
LEMMA HandleTraces ==
  ASSUME OneEditor, LifecycleInv, NEW e \in Editor, Handle(e)
  PROVE  TraceBacked' /\ CacheBacked'
<1> DEFINE r == req[e]
<1>0. TypedOK /\ TypeOK /\ UniqueIds /\ AllFresh /\ TraceBacked /\ CacheBacked /\ Forgotten
  BY DEF LifecycleInv, TypedOK
<1>1. CASE UpdateRow(e)
  <2>1. /\ r.step = "update" /\ cache' = cache /\ raced' = raced
        /\ \A n \in Name : Trace(n)' => Trace(n)
    BY <1>1 DEF UpdateRow, running, alerting, history, Trace
  <2>2. CutShort \subseteq CutShort'
    BY <2>1, CutShortKept DEF Removing
  <2>3. ASSUME NEW d \in cache, Configured(d)
        PROVE  Configured(d)' \/ d.name \in CutShort'
    <3>1. CASE d.id # r.id \/ table' = table
      BY <1>1, <2>3, <3>1 DEF UpdateRow, Configured
    <3>2. CASE d.id = r.id /\ table' # table
      <4>1. r.old = d.name /\ d.name \in Name
        BY <1>0, <2>1, <3>2, OldNameCaptured DEF Begun
      <4>2. /\ Goto(e, "load")
            /\ [id |-> r.id, name |-> r.name, enabled |-> r.enabled] \in table'
        BY <1>1, <3>2 DEF UpdateRow
      <4>3. CASE r.name = d.name
        BY <3>2, <4>2, <4>3 DEF Configured
      <4>4. CASE r.name # d.name
        <5>1. r.op = "update"
          BY <1>0, <2>1 DEF AllFresh, Fresh
        <5>2. Forgets(r)
          BY <4>1, <4>4, <5>1, NameAssumption DEF Forgets
        <5>3. /\ req'[e].step = "load" /\ req'[e].old = d.name
              /\ Forgets(req'[e])
          BY <1>0, <4>1, <4>2, <5>2, GotoKeeps DEF Step
        <5> QED BY <4>1, <5>3 DEF CutShort
      <4> QED BY <4>3, <4>4
    <3> QED BY <3>1, <3>2
  <2> QED BY <1>0, <2>1, <2>2, <2>3, Accounted
<1>2. CASE FindName(e)
  <2>1. /\ r.step = "find" /\ cache' = cache /\ table' = table /\ raced' = raced
        /\ \A n \in Name : Trace(n)' => Trace(n)
    BY <1>2 DEF FindName, config, running, alerting, history, Trace
  <2>2. CutShort \subseteq CutShort'
    BY <2>1, CutShortKept DEF Removing
  <2>3. \A d \in cache : Configured(d) => Configured(d)'
    BY <2>1 DEF Configured
  <2> QED BY <1>0, <2>1, <2>2, <2>3, Accounted
<1>3. CASE DeleteRow(e)
  <2>1. /\ r.step = "delete" /\ cache' = cache /\ raced' = raced
        /\ \A n \in Name : Trace(n)' => Trace(n)
    BY <1>3 DEF DeleteRow, running, alerting, history, Trace
  <2>2. CutShort \subseteq CutShort'
    BY <2>1, CutShortKept DEF Removing
  <2>3. ASSUME NEW d \in cache, Configured(d)
        PROVE  Configured(d)' \/ d.name \in CutShort'
    <3>1. CASE d.id # r.id
      BY <1>3, <2>3, <3>1 DEF DeleteRow, Configured
    <3>2. CASE d.id = r.id
      <4>1. r.old = d.name /\ d.name \in Name
        BY <1>0, <2>1, <3>2, OldNameCaptured DEF Begun
      <4>2. Forgets(r)
        BY <1>0, <2>1, <4>1, NameAssumption DEF AllFresh, Fresh, Forgets
      <4>3. PICK step \in {"load", "status"} : Goto(e, step)
        BY <1>3 DEF DeleteRow
      <4>4. /\ req'[e].step = step /\ req'[e].old = d.name
            /\ Forgets(req'[e])
        BY <1>0, <4>1, <4>2, <4>3, GotoKeeps DEF Step
      <4> QED BY <4>1, <4>4 DEF CutShort
    <3> QED BY <3>1, <3>2
  <2> QED BY <1>0, <2>1, <2>2, <2>3, Accounted
<1>4. CASE DeleteStatus(e)
  <2>1. cache' = cache /\ table' = table /\ raced' = raced
    BY <1>4 DEF DeleteStatus, config, history
  <2>2. \A n \in Name : row'[n] # "none" => row[n] # "none"
    BY <1>0, <1>4 DEF DeleteStatus, TypeOK
  <2>3. \A n \in Name : Trace(n)' => Trace(n)
    BY <1>4, <2>2 DEF DeleteStatus, alerting, Trace
  <2>4. CutShort \subseteq CutShort'
    BY <1>0, <1>4, GotoCutShort DEF DeleteStatus, Removing
  <2>5. \A d \in cache : Configured(d) => Configured(d)'
    BY <2>1 DEF Configured
  <2> QED BY <1>0, <2>1, <2>3, <2>4, <2>5, Accounted
<1>5. CASE LoadChecks(e)
  <2>1. /\ r.step = "load" /\ cache' = cache /\ table' = table
        /\ \A n \in Name : Trace(n)' => Trace(n)
    BY <1>5 DEF LoadChecks, config, running, alerting, Trace
  <2>2. raced \cup CutShort \subseteq raced' \cup CutShort'
    <3>1. CASE /\ req' = [req EXCEPT ![e].step = "store", ![e].loaded = table]
               /\ UNCHANGED history
      <4>1. /\ req'[e].step = "store" /\ req'[e].old = r.old
            /\ (Forgets(r) => Forgets(req'[e]))
        BY <1>0, <3>1 DEF TypeOK, Request, Forgets
      <4>2. CutShort \subseteq CutShort'
        BY <4>1, CutShortKept DEF Removing
      <4> QED BY <3>1, <4>2 DEF history
    <3>2. CASE raced' = IF Forgets(req[e]) THEN raced \cup {req[e].old} ELSE raced
      BY <3>2, CutShortIs
    <3> QED BY <1>5, <3>1, <3>2 DEF LoadChecks
  <2>3. \A d \in cache : Configured(d) => Configured(d)'
    BY <2>1 DEF Configured
  <2> QED BY <1>0, <2>1, <2>2, <2>3, Accounted
<1>6. CASE StoreChecks(e)
  <2>1. /\ cache' = table /\ table' = table /\ raced' = raced
        /\ \A n \in Name : Trace(n)' => Trace(n)
    BY <1>0, <1>6 DEF StoreChecks, Refreshed, AllFresh, Fresh, running, alerting, Trace
  <2>2. CutShort \subseteq CutShort'
    <3>1. CASE Forgets(r)
      BY <1>0, <1>6, <3>1, GotoCutShort DEF StoreChecks, Removing
    <3>2. CASE ~ Forgets(r)
      BY <3>2, CutShortKept
    <3> QED BY <3>1, <3>2
  <2> QED BY <1>0, <2>1, <2>2, AccountedByCopy
<1>7. CASE ForgetRow(e)
  <2>1. cache' = cache /\ table' = table
    BY <1>7 DEF ForgetRow, config
  <2>2. raced \subseteq raced'
    BY <1>7 DEF ForgetRow
  <2>3. \A n \in Name : row'[n] # "none" => row[n] # "none"
    BY <1>0, <1>7 DEF ForgetRow, TypeOK
  <2>4. \A n \in Name : Trace(n)' => Trace(n)
    BY <1>7, <2>3 DEF ForgetRow, alerting, Trace
  <2>5. CutShort \subseteq CutShort'
    BY <1>0, <1>7, GotoCutShort DEF ForgetRow, Removing
  <2>6. \A d \in cache : Configured(d) => Configured(d)'
    BY <2>1 DEF Configured
  <2> QED BY <1>0, <2>1, <2>2, <2>4, <2>5, <2>6, Accounted
<1>8. CASE ForgetAlert(e)
  <2> DEFINE n == r.old
  <2>1. /\ r.step = "alert" /\ cache' = cache /\ table' = table
        /\ inflight' = inflight /\ row' = row /\ seen' = seen
        /\ firing' = firing \ {n}
        /\ raced' = IF n \in inflight \/ seen[n] # "none" THEN raced \cup {n} ELSE raced
    BY <1>8 DEF ForgetAlert, config, running
  <2>2. cache = table
    BY <1>0, <2>1 DEF AllFresh, Fresh
  <2>3. CacheBacked'
    BY <2>1, <2>2 DEF CacheBacked, Configured
  <2>4. CutShort \subseteq {n}
    BY CutShortIs
  <2>5. \A m \in Name : Backed(m) => Backed(m)'
    BY <2>1 DEF Backed, Configured
  <2>6. ASSUME NEW m \in Name, Trace(m)'
        PROVE  m \in raced' \/ Backed(m)
    <3>1. CASE m = n
      <4>1. m \in inflight \/ row[m] # "none" \/ seen[m] # "none"
        BY <2>1, <2>6, <3>1 DEF Trace
      <4>2. m \in raced \/ Backed(m) \/ (row[m] = "none" /\ m \notin inflight)
        BY <1>0, <2>1, <3>1 DEF Forgotten
      <4> QED BY <2>1, <3>1, <4>1, <4>2
    <3>2. CASE m # n
      <4>1. Trace(m)
        BY <2>1, <2>6 DEF Trace
      <4>2. m \in raced \/ Backed(m)
        BY <1>0, <2>4, <3>2, <4>1 DEF TraceBacked
      <4> QED BY <2>1, <4>2
    <3> QED BY <3>1, <3>2
  <2>7. TraceBacked'
    BY <2>5, <2>6 DEF TraceBacked
  <2> QED BY <2>3, <2>7
<1> QED BY <1>1, <1>2, <1>3, <1>4, <1>5, <1>6, <1>7, <1>8 DEF Handle, Refresh

(* No step at all does: what is launched is cached, what is stored was     *)
(* running, what is read was stored, and what fires was read.              *)
LEMMA TracesInductive ==
  ASSUME OneEditor, LifecycleInv, [Next]_vars
  PROVE  TraceBacked' /\ CacheBacked'
<1>0. TypedOK /\ TypeOK /\ TraceBacked /\ CacheBacked
  BY DEF LifecycleInv, TypedOK
<1>1. ASSUME config' = config, req' = req, raced' = raced,
             \A n \in Name : Trace(n)' => Trace(n) \/ n \in raced \cup CutShort \/ Backed(n)
      PROVE  TraceBacked' /\ CacheBacked'
  <2>1. cache' = cache /\ CutShort' = CutShort
    BY <1>1 DEF config, CutShort, Forgets
  <2>2. \A d \in cache : Configured(d) => Configured(d)'
    BY <1>1 DEF config, Configured
  <2> QED BY <1>0, <1>1, <2>1, <2>2, Accounted
<1>2. ASSUME NEW e \in Editor, NEW r, NewRequest(e, r), cache' = cache,
             table \subseteq table', UNCHANGED <<running, alerting, history>>
      PROVE  TraceBacked' /\ CacheBacked'
  <2>1. req[e].step = "idle"
    BY <1>2 DEF NewRequest
  <2>2. CutShort \subseteq CutShort'
    BY <2>1, CutShortKept DEF Removing
  <2>3. raced' = raced /\ \A n \in Name : Trace(n)' => Trace(n)
    BY <1>2 DEF running, alerting, history, Trace
  <2>4. \A d \in cache : Configured(d) => Configured(d)'
    BY <1>2 DEF Configured
  <2> QED BY <1>0, <1>2, <2>2, <2>3, <2>4, Accounted
<1>3. ASSUME NEW e \in Editor, NEW n \in Name, CreateCheck(e, n, TRUE)
      PROVE  TraceBacked' /\ CacheBacked'
  BY <1>2, <1>3 DEF CreateCheck
<1>4. ASSUME NEW e \in Editor, NEW id \in 1 .. (FirstId + edits - 1), NEW n \in Name,
             NEW b \in BOOLEAN, BeginUpdate(e, id, n, b)
      PROVE  TraceBacked' /\ CacheBacked'
  BY <1>2, <1>4 DEF BeginUpdate, config
<1>5. ASSUME NEW e \in Editor, NEW id \in 1 .. (FirstId + edits - 1), BeginDelete(e, id)
      PROVE  TraceBacked' /\ CacheBacked'
  BY <1>2, <1>5 DEF BeginDelete, config
<1>6. ASSUME NEW e \in Editor, Handle(e)
      PROVE  TraceBacked' /\ CacheBacked'
  BY <1>6, HandleTraces
<1>7. ASSUME NEW c \in cache, Launch(c)
      PROVE  TraceBacked' /\ CacheBacked'
  <2>1. c.name \in raced \cup CutShort \/ Backed(c.name)
    BY <1>0, <1>7 DEF CacheBacked, Backed
  <2>2. \A n \in Name : Trace(n)' => Trace(n) \/ n = c.name
    BY <1>7 DEF Launch, alerting, Trace
  <2> QED BY <1>1, <1>7, <2>1, <2>2 DEF Launch, history
<1>8. ASSUME NEW n \in Name, Finish(n)
      PROVE  TraceBacked' /\ CacheBacked'
  <2>1. \A m \in Name : row'[m] # "none" => row[m] # "none" \/ m = n
    BY <1>0, <1>8 DEF Finish, TypeOK
  <2>2. \A m \in Name : Trace(m)' => Trace(m)
    BY <1>8, <2>1 DEF Finish, alerting, Trace
  <2> QED BY <1>1, <1>8, <2>2 DEF Finish, history
<1>9. ASSUME NEW n \in Name, Observe(n)
      PROVE  TraceBacked' /\ CacheBacked'
  <2>1. \A m \in Name : seen'[m] # "none" => seen[m] # "none"
    BY <1>0, <1>9 DEF Observe, TypeOK
  <2>2. \A m \in firing' : m \in firing \/ m = n
    BY <1>9 DEF Observe, Observed
  <2>3. \A m \in Name : Trace(m)' => Trace(m)
    BY <1>9, <2>1, <2>2 DEF Observe, running, Trace
  <2> QED BY <1>1, <1>9, <2>3 DEF Observe, history
<1>10. CASE BeginPass
  <2>1. seen' = seen \/ seen' = row
    BY <1>10 DEF BeginPass
  <2>2. \A n \in Name : Trace(n)' => Trace(n)
    BY <1>10, <2>1 DEF BeginPass, running, Trace
  <2> QED BY <1>1, <1>10, <2>2 DEF BeginPass, history
<1>11. CASE Restart
  <2>1. /\ cache' = table /\ table' = table /\ raced' = raced \cup CutShort
        /\ row' = row /\ inflight' = {} /\ firing' = {}
        /\ \A n \in Name : seen'[n] = "none"
    BY <1>11 DEF Restart
  <2>2. \A n \in Name : Trace(n)' => Trace(n)
    BY <2>1 DEF Trace
  <2> QED BY <1>0, <2>1, <2>2, AccountedByCopy
<1>12. CASE UNCHANGED vars
  <2>1. \A n \in Name : Trace(n)' => Trace(n)
    BY <1>12 DEF vars, running, alerting, Trace
  <2> QED BY <1>1, <1>12, <2>1 DEF vars, history
<1> QED BY <1>3, <1>4, <1>5, <1>6, <1>7, <1>8, <1>9, <1>10, <1>11, <1>12 DEF Next

(* Between the two steps of forgetting only a run that was under way, or of*)
(* a check that has the name now, stores a verdict.                        *)
LEMMA ForgottenInductive ==
  ASSUME OneEditor, LifecycleInv, [Next]_vars
  PROVE  Forgotten'
<1>0. TypedOK /\ TypeOK /\ AllFresh /\ Forgotten
  BY DEF LifecycleInv, TypedOK
<1>1. ASSUME NEW e \in Editor, req'[e].step # "alert"
      PROVE  Forgotten'
  BY <1>1 DEF OneEditor, Forgotten
<1>2. ASSUME UNCHANGED <<config, req, raced>>,
             \A n \in Name : \/ row'[n] = row[n] /\ (n \in inflight' => n \in inflight)
                             \/ n \in inflight
                             \/ cache = table => Backed(n)
      PROVE  Forgotten'
  <2> SUFFICES ASSUME NEW e \in Editor, req[e].step = "alert"
               PROVE  \/ req[e].old \in raced
                      \/ Backed(req[e].old)
                      \/ row'[req[e].old] = "none" /\ req[e].old \notin inflight'
    BY <1>2 DEF Forgotten, Backed, Configured, config
  <2>1. cache = table /\ req[e].old \in Name
    BY <1>0, OldIsName DEF AllFresh, Fresh, TypedOK, TypeOK, ForgetsWhat, Sensible
  <2> QED BY <1>0, <1>2, <2>1 DEF Forgotten
<1>3. ASSUME NEW e \in Editor, ForgetRow(e)
      PROVE  Forgotten'
  <2> DEFINE n == req[e].old
  <2>1. req'[e].step = "alert" /\ req'[e].old = n
    BY <1>0, <1>3, GotoKeeps DEF ForgetRow, Step
  <2>2. n \in Name
    BY <1>0, <1>3, OldIsName DEF ForgetRow, TypedOK, TypeOK, ForgetsWhat, Sensible
  <2>3. n \in raced' \/ (row'[n] = "none" /\ n \notin inflight')
    BY <1>0, <1>3, <2>2 DEF ForgetRow, TypeOK
  <2> QED BY <2>1, <2>3 DEF OneEditor, Forgotten
<1>4. ASSUME NEW e \in Editor, Handle(e)
      PROVE  Forgotten'
  <2>1. CASE FindName(e) \/ LoadChecks(e)
    <3>1. req'[e].step \in {"delete", "store", "idle"}
      BY <1>0, <2>1, FinishedIs DEF FindName, LoadChecks, TypeOK, Request
    <3> QED BY <1>1, <3>1
  <2>2. CASE UpdateRow(e) \/ DeleteRow(e) \/ DeleteStatus(e) \/ StoreChecks(e) \/ ForgetAlert(e)
    <3>1. Finished(e) \/ \E step \in {"load", "status", "row"} : Goto(e, step)
      BY <2>2 DEF UpdateRow, DeleteRow, DeleteStatus, StoreChecks, ForgetAlert
    <3>2. req'[e].step \in {"idle", "load", "status", "row"}
      BY <1>0, <3>1, FinishedIs, GotoKeeps DEF Step
    <3> QED BY <1>1, <3>2
  <2> QED BY <1>3, <1>4, <2>1, <2>2 DEF Handle, Refresh
<1>5. ASSUME NEW c \in cache, Launch(c)
      PROVE  Forgotten'
  <2>1. cache = table => Backed(c.name)
    BY DEF Backed, Configured
  <2>2. row' = row /\ inflight' = inflight \cup {c.name}
    BY <1>5 DEF Launch
  <2> QED BY <1>2, <1>5, <2>1, <2>2 DEF Launch, history
<1>6. ASSUME NEW n \in Name, Finish(n)
      PROVE  Forgotten'
  <2>1. \A m \in Name : m # n => row'[m] = row[m]
    BY <1>0, <1>6 DEF Finish, TypeOK
  <2>2. n \in inflight /\ inflight' = inflight \ {n}
    BY <1>6 DEF Finish
  <2> QED BY <1>2, <1>6, <2>1, <2>2 DEF Finish, history
<1>7. CASE BeginPass \/ (\E n \in Name : Observe(n)) \/ UNCHANGED vars
  BY <1>2, <1>7 DEF BeginPass, Observe, vars, running, history
<1>8. CASE Restart
  BY <1>8 DEF Restart, Forgotten, NoReq
<1>9. ASSUME NEW e \in Editor,
              \/ \E n \in Name : CreateCheck(e, n, TRUE)
              \/ \E id \in 1 .. (FirstId + edits - 1), n \in Name, b \in BOOLEAN :
                   BeginUpdate(e, id, n, b)
              \/ \E id \in 1 .. (FirstId + edits - 1) : BeginDelete(e, id)
       PROVE  Forgotten'
  <2>1. req'[e].step \in {"load", "update", "find"}
    BY <1>0, <1>9 DEF CreateCheck, BeginUpdate, BeginDelete, NewRequest, NoReq, TypeOK
  <2> QED BY <1>1, <2>1
<1> QED BY <1>4, <1>5, <1>6, <1>7, <1>8, <1>9 DEF Next

(* Every step keeps all parts of the invariant.                            *)
LEMMA LifecycleInductive ==
  ASSUME OneEditor, LifecycleInv, [Next]_vars
  PROVE  LifecycleInv'
<1>1. TypedOK' /\ UniqueIds' /\ AllFresh'
  BY TypedInductive, UniqueInductive, FreshInductive DEF LifecycleInv
<1>2. TraceBacked' /\ CacheBacked' /\ Forgotten'
  BY TracesInductive, ForgottenInductive
<1> QED BY <1>1, <1>2 DEF LifecycleInv

(* The first state has them all: nothing runs and nothing has a trace.     *)
LEMMA LifecycleInit ==
  ASSUME Init
  PROVE  LifecycleInv
<1>1. TypedOK
  BY TypedInit
<1>2. \A e \in Editor : req[e].step = "idle"
  BY DEF Init, NoReq
<1>3. UniqueIds
  BY SeedAssumption DEF Init, UniqueIds
<1>4. AllFresh /\ Forgotten
  BY <1>2 DEF Init, AllFresh, Fresh, Begun, Forgotten
<1>5. TraceBacked /\ CacheBacked
  BY DEF Init, TraceBacked, CacheBacked, Trace, Configured
<1> QED BY <1>1, <1>3, <1>4, <1>5 DEF LifecycleInv

(* With one dashboard, an alert or a status row outlives its check only by *)
(* one of the races or faults that raced records, whatever the edits, runs,*)
(* passes, errors and restarts are and however they interleave.            *)
THEOREM OnlyRacesHang ==
  ASSUME OneEditor
  PROVE  Spec => []HangsOnlyIfRaced
<1>1. LifecycleInv => HangsOnlyIfRaced
  <2> SUFFICES ASSUME LifecycleInv, NEW n \in Name \ Names(table), Quiet(n),
                      n \in firing \/ row[n] # "none"
               PROVE  n \in raced
    BY DEF HangsOnlyIfRaced
  <2>1. n \in raced \cup CutShort \/ Backed(n)
    BY DEF LifecycleInv, TraceBacked, Trace
  <2>2. n \notin CutShort
    BY DEF Quiet, Idle, CutShort
  <2>3. ~ Backed(n)
    BY DEF Backed, Configured, Names
  <2> QED BY <2>1, <2>2, <2>3
<1> QED BY <1>1, LifecycleInit, LifecycleInductive, PTL DEF Spec

(* With one dashboard, the cache is the table whenever no request is under *)
(* way, unless the last read of the table failed.                          *)
THEOREM CacheFollowsTable ==
  ASSUME OneEditor
  PROVE  Spec => []CacheCurrent
<1>1. LifecycleInv => CacheCurrent
  BY DEF LifecycleInv, AllFresh, Fresh, Begun, CacheCurrent, Idle, OneEditor
<1> QED BY <1>1, LifecycleInit, LifecycleInductive, PTL DEF Spec
=============================================================================
