--------------------------- MODULE CheckLifecycle ---------------------------
(***************************************************************************)
(* The life of a service check: who configures it, who runs it, who keeps  *)
(* its status and who alerts on it.                                        *)
(*                                                                         *)
(*  - the dashboard's handlers (server/settings.go) create, update and     *)
(*    delete rows of check_config through settings.Service, which then     *)
(*    reloads its in-memory cache, and forget the status and the alert of  *)
(*    a name that is no longer used;                                       *)
(*  - the scheduler (scheduler/scheduler.go) launches what the cache lists,*)
(*    one goroutine per due check, which writes check_status when it ends; *)
(*  - the runner (alert/runner.go) reads all rows of check_status once per *)
(*    pass and has the engine observe each of them.                        *)
(*                                                                         *)
(* Every access to the database, the cache or the engine is a step of its  *)
(* own, in the order of the code; each is atomic (one SQLite connection,   *)
(* one mutex).  Abstracted: what a check does (its verdict is arbitrary),  *)
(* intervals (any idle check may be due), the rule's ForSec and            *)
(* RecoverGrace (module Engine; a transition may be due or not), and a     *)
(* second rule about checks.                                               *)
(***************************************************************************)
EXTENDS Integers, FiniteSets

CONSTANTS
  Name,       \* names a check may have
  Seeded,     \* the checks the first run seeds from the configuration file
  FirstId,    \* the first id given out after the seed
  Editor,     \* dashboard requests that may be under way at once
  MaxEdit,    \* bound: requests
  MaxFault    \* bound: database errors and restarts

NoName == "no name"   \* the empty string

ASSUME NameAssumption == NoName \notin Name
Check == [id : Nat, name : Name, enabled : BOOLEAN]

ASSUME SeedAssumption == /\ Seeded \subseteq Check
                         /\ FirstId \in Nat
                         /\ \A c \in Seeded : c.id < FirstId
                         /\ \A c, d \in Seeded : c.id = d.id => c = d
ASSUME LifecycleBounds == /\ MaxEdit \in Nat
                          /\ MaxFault \in Nat

VARIABLES
  table,     \* check_config: the configured checks
  cache,     \* settings.Service.checks
  row,       \* check_status: the stored verdict of each name
  inflight,  \* names with a run under way
  pass,      \* the runner's current pass: "none" yet, the "seed" pass or a "live" one
  seen,      \* rows the current pass has read and not observed yet
  firing,    \* names the engine counts as firing
  req,       \* req[e]: the request e is handling
  edits,     \* requests so far; ids below FirstId + edits have been given out
  faults,    \* database errors and restarts so far
  missed,    \* history: the last read of the table failed
  raced      \* history: names that were forgotten while a run or a pass was about
             \* to report on them, or whose removal an error or a restart cut short

config == <<table, cache>>
running == <<row, inflight>>
alerting == <<pass, seen, firing>>
bounds == <<edits, faults>>
history == <<missed, raced>>
vars == <<config, running, alerting, req, bounds, history>>

\* Seeded fault: the zero value of Status.
ZeroVerdicts == {"ok", "failing", ""}

Verdicts == {"ok", "failing"}   \* "unknown" alerts as "ok" does
RowState == {"none", "ok", "failing"}

Step == {"idle", "update", "find", "delete", "status", "load", "store", "row", "alert"}

Request == [op : {"none", "create", "update", "delete"}, step : Step, id : Nat,
            name : Name \cup {NoName},   \* the name in the body
            enabled : BOOLEAN,
            old : Name \cup {NoName},    \* the handler's checkNameByID
            found : Name \cup {NoName},  \* DeleteCheck's own lookup
            loaded : SUBSET Check]       \* loadChecks' result

NoReq == [op |-> "none", step |-> "idle", id |-> 0, name |-> NoName,
          enabled |-> FALSE, old |-> NoName, found |-> NoName, loaded |-> {}]

Names(S) == {c.name : c \in S}

\* checkNameByID, and the lookup in DeleteCheck.
NameByID(id) ==
  IF \E c \in cache : c.id = id
    THEN (CHOOSE c \in cache : c.id = id).name
    ELSE NoName

\* A step that fails spends one fault of the budget.
Fail(lost) == IF lost THEN faults < MaxFault /\ faults' = faults + 1
                      ELSE UNCHANGED faults

----------------------------------------------------------------------------
Init ==
  /\ table = Seeded
  /\ cache = Seeded
  /\ row = [n \in Name |-> "none"]
  /\ inflight = {}
  /\ pass = "none"
  /\ seen = [n \in Name |-> "none"]
  /\ firing = {}
  /\ req = [e \in Editor |-> NoReq]
  /\ edits = 0
  /\ faults = 0
  /\ missed = FALSE
  /\ raced = {}

(* The dashboard's requests. ----------------------------------------------*)
NewRequest(e, r) ==
  /\ req[e].step = "idle"
  /\ edits < MaxEdit
  /\ edits' = edits + 1
  /\ req' = [req EXCEPT ![e] = r]

Goto(e, step) == req' = [req EXCEPT ![e].step = step]

Finished(e) == req' = [req EXCEPT ![e] = NoReq]

\* handleCreateCheck, CreateCheck up to the INSERT.
CreateCheck(e, n, enabled) ==
  /\ NewRequest(e, [NoReq EXCEPT !.op = "create", !.step = "load"])
  /\ table' = table \cup {[id |-> FirstId + edits, name |-> n, enabled |-> enabled]}
  /\ UNCHANGED <<cache, running, alerting, faults, history>>

\* handleUpdateCheck: the old name is captured from the cache ...
BeginUpdate(e, id, n, enabled) ==
  /\ NewRequest(e, [NoReq EXCEPT !.op = "update", !.step = "update", !.id = id,
                                 !.name = n, !.enabled = enabled, !.old = NameByID(id)])
  /\ UNCHANGED <<config, running, alerting, faults, history>>

\* ... before the UPDATE; without such a row it ends with ErrCheckNotFound.
UpdateRow(e) ==
  LET r == req[e]
      target == {c \in table : c.id = r.id}
  IN /\ r.step = "update"
     /\ IF target = {}
          THEN Finished(e) /\ UNCHANGED table
          ELSE /\ table' = (table \ target)
                             \cup {[id |-> r.id, name |-> r.name, enabled |-> r.enabled]}
               /\ Goto(e, "load")
     /\ UNCHANGED <<cache, running, alerting, bounds, history>>

\* handleDeleteCheck and DeleteCheck look the name up, one after the other ...
BeginDelete(e, id) ==
  /\ NewRequest(e, [NoReq EXCEPT !.op = "delete", !.step = "find", !.id = id,
                                 !.old = NameByID(id)])
  /\ UNCHANGED <<config, running, alerting, faults, history>>

FindName(e) ==
  /\ req[e].step = "find"
  /\ req' = [req EXCEPT ![e].step = "delete", ![e].found = NameByID(req[e].id)]
  /\ UNCHANGED <<config, running, alerting, bounds, history>>

\* ... then the row is deleted (no error if there is none) ...
DeleteRow(e) ==
  /\ req[e].step = "delete"
  /\ table' = {c \in table : c.id # req[e].id}
  /\ Goto(e, IF req[e].found = NoName THEN "load" ELSE "status")
  /\ UNCHANGED <<cache, running, alerting, bounds, history>>

\* ... and its status; an error is ignored.
DeleteStatus(e) ==
  /\ req[e].step = "status"
  /\ Goto(e, "load")
  /\ \E lost \in BOOLEAN :
       /\ Fail(lost)
       /\ row' = IF lost THEN row ELSE [row EXCEPT ![req[e].found] = "none"]
  /\ UNCHANGED <<config, inflight, alerting, edits, history>>

\* Whether the request leaves a name behind that has to be forgotten.
\* Seeded fault: a rename is not noticed.
DeleteOnly(r) == r.op = "delete" /\ r.old # NoName
Forgets(r) == \/ r.op = "delete" /\ r.old # NoName
              \/ r.op = "update" /\ r.old # NoName /\ r.old # r.name

\* refreshChecks reads the table; an error ends the request there.
LoadChecks(e) ==
  /\ req[e].step = "load"
  /\ \/ /\ Fail(FALSE)
        /\ req' = [req EXCEPT ![e].step = "store", ![e].loaded = table]
        /\ UNCHANGED history
     \/ /\ Fail(TRUE)
        /\ Finished(e)
        /\ missed' = TRUE
        /\ raced' = IF Forgets(req[e]) THEN raced \cup {req[e].old} ELSE raced
  /\ UNCHANGED <<config, running, alerting, edits>>

\* Seeded faults: the new list is appended to the old one; the list is kept.
Appended(r) == cache \cup r.loaded
Kept(r) == cache
Refreshed(r) == r.loaded

\* refreshChecks replaces the cache by what it read.
StoreChecks(e) ==
  /\ req[e].step = "store"
  /\ cache' = Refreshed(req[e])
  /\ missed' = FALSE
  /\ IF Forgets(req[e]) THEN Goto(e, "row") ELSE Finished(e)
  /\ UNCHANGED <<table, running, alerting, bounds, raced>>

\* forgetCheckAlert: the status row goes first (an error is ignored) ...
ForgetRow(e) ==
  LET n == req[e].old
  IN /\ req[e].step = "row"
     /\ Goto(e, "alert")
     /\ \E lost \in BOOLEAN :
          /\ Fail(lost)
          /\ raced' = IF lost \/ n \in inflight THEN raced \cup {n} ELSE raced
          /\ row' = IF lost THEN row ELSE [row EXCEPT ![n] = "none"]
     /\ UNCHANGED <<config, inflight, alerting, edits, missed>>

\* ... then the engine's state: ForgetEntity.
ForgetAlert(e) ==
  LET n == req[e].old
  IN /\ req[e].step = "alert"
     /\ Finished(e)
     /\ firing' = firing \ {n}
     /\ raced' = IF n \in inflight \/ seen[n] # "none" THEN raced \cup {n} ELSE raced
     /\ UNCHANGED <<config, running, pass, seen, bounds, missed>>

(* The scheduler. ----------------------------------------------------------*)
\* reconcile comes to a check it read from the cache that is due.
Launch(c) ==
  /\ c \in cache
  /\ c.enabled
  /\ c.name \notin inflight
  /\ inflight' = inflight \cup {c.name}
  /\ UNCHANGED <<config, row, alerting, req, bounds, history>>

\* The run ends (checks.Run has a timeout); an error of the upsert is logged.
Finish(n) ==
  /\ n \in inflight
  /\ inflight' = inflight \ {n}
  /\ \E v \in Verdicts, lost \in BOOLEAN :
       /\ Fail(lost)
       /\ row' = IF lost THEN row ELSE [row EXCEPT ![n] = v]
  /\ UNCHANGED <<config, alerting, req, edits, history>>

(* The alert runner. -------------------------------------------------------*)
\* A pass reads every row of check_status, or none if that fails.
BeginPass ==
  /\ \A n \in Name : seen[n] = "none"
  /\ \E lost \in BOOLEAN :
       /\ Fail(lost)
       /\ seen' = IF lost THEN seen ELSE row
  /\ pass' = IF pass = "none" THEN "seed" ELSE "live"
  /\ UNCHANGED <<config, running, firing, req, edits, history>>

\* What the engine may make of a row: the seed pass takes it as it is, later a
\* transition waits until ForSec or RecoverGrace is over.
Observed(n) ==
  LET after == IF seen[n] = "failing" THEN firing \cup {n} ELSE firing \ {n}
  IN IF pass = "seed" THEN {after} ELSE {firing, after}

Observe(n) ==
  /\ seen[n] # "none"
  /\ firing' \in Observed(n)
  /\ seen' = [seen EXCEPT ![n] = "none"]
  /\ UNCHANGED <<config, running, pass, req, bounds, history>>

(* The process dies and starts again: Load reads the cache from the table. *)
\* What a request under way would still have forgotten.
CutShort == {n \in Name : \E e \in Editor :
               /\ req[e].step \in {"status", "load", "store", "row", "alert"}
               /\ Forgets(req[e])
               /\ n = req[e].old}

Restart ==
  /\ Fail(TRUE)
  /\ cache' = table
  /\ inflight' = {}
  /\ pass' = "none"
  /\ seen' = [n \in Name |-> "none"]
  /\ firing' = {}
  /\ req' = [e \in Editor |-> NoReq]
  /\ raced' = raced \cup CutShort
  /\ missed' = FALSE
  /\ UNCHANGED <<table, row, edits>>

----------------------------------------------------------------------------
Refresh(e) == LoadChecks(e) \/ StoreChecks(e)

Handle(e) == \/ UpdateRow(e) \/ FindName(e) \/ DeleteRow(e) \/ DeleteStatus(e)
             \/ Refresh(e) \/ ForgetRow(e) \/ ForgetAlert(e)

Next ==
  \/ \E e \in Editor, n \in Name : CreateCheck(e, n, TRUE)   \* an update may disable it
  \/ \E e \in Editor, id \in 1..(FirstId + edits - 1), n \in Name, b \in BOOLEAN : BeginUpdate(e, id, n, b)
  \/ \E e \in Editor, id \in 1..(FirstId + edits - 1) : BeginDelete(e, id)
  \/ \E e \in Editor : Handle(e)
  \/ \E c \in cache : Launch(c)
  \/ \E n \in Name : Finish(n) \/ Observe(n)
  \/ BeginPass
  \/ Restart

Spec == Init /\ [][Next]_vars

\* Handlers run to their end, the scheduler comes round to every due check and
\* every run ends by its timeout.
Fairness ==
  /\ \A e \in Editor : WF_vars(Handle(e))
  /\ \A n \in Name : /\ WF_vars(\E c \in cache : c.name = n /\ Launch(c))
                     /\ WF_vars(Finish(n))

FairSpec == Spec /\ Fairness

----------------------------------------------------------------------------
(* The state is of the types the code declares.                            *)
TypeOK ==
  /\ table \subseteq Check
  /\ cache \subseteq Check
  /\ row \in [Name -> RowState]
  /\ inflight \subseteq Name
  /\ pass \in {"none", "seed", "live"}
  /\ seen \in [Name -> RowState]
  /\ firing \subseteq Name
  /\ req \in [Editor -> Request]
  /\ edits \in Nat /\ faults \in Nat
  /\ missed \in BOOLEAN
  /\ raced \subseteq Name

Idle == \A e \in Editor : req[e].step = "idle"

(* Nothing is under way that could still report on n or forget it.         *)
Quiet(n) == Idle /\ n \notin inflight /\ seen[n] = "none" /\ n \notin Names(cache)

(* "So the alert doesn't hang firing forever": once a deleted (or renamed) *)
(* check's request has returned and nothing about it is under way, its name*)
(* is not listed as firing.                                                *)
NothingHangs ==
  \A n \in Name \ Names(table) : Quiet(n) => n \notin firing

(* What holds of it: an alert, or a status row that would raise it again,  *)
(* outlives its check only if a run or a pass was about to report on the   *)
(* check while it was forgotten, or if a database error or a restart cut   *)
(* the removal short.  Every other interleaving of the handlers with the   *)
(* scheduler and the runner leaves nothing behind.                         *)
HangsOnlyIfRaced ==
  \A n \in Name \ Names(table) :
    Quiet(n) /\ (n \in firing \/ row[n] # "none") => n \in raced

(* "Values are cached in memory and updated on write": when no request is  *)
(* under way and the last read did not fail, the scheduler works on the    *)
(* table as it is.                                                         *)
CacheCurrent == Idle /\ ~ missed => cache = table

(* An enabled check is run, however edits, runs, passes and restarts fall: *)
(* sooner or later it has a stored verdict, unless it is disabled, renamed *)
(* or deleted again, or reading the table failed.                          *)
Enabled(n) == \E c \in table : c.name = n /\ c.enabled
EveryCheckIsRun ==
  \A n \in Name : Enabled(n) ~> (row[n] # "none" \/ ~ Enabled(n) \/ missed)
=============================================================================
