------------------------------- MODULE Engine -------------------------------
(***************************************************************************)
(* The alert engine of internal/alert/engine.go, driven by the passes of   *)
(* internal/alert/runner.go.                                               *)
(*                                                                         *)
(* For each (rule, node, entity) the engine remembers a ruleState and turns*)
(* what the runner observes (the rule's condition is met, or not) into     *)
(* alerts: one when the condition has held for the rule's ForSec, one when *)
(* it has been clear for its RecoverGrace.  The runner observes everything *)
(* once per pass, under one clock reading; the first pass after a start    *)
(* only primes the state.  A subject a pass says nothing about (its rule   *)
(* is disabled, its peer muted, its row missing) is passed over.           *)
(*                                                                         *)
(* One unit of time is one pass.  Severity is abstracted: a level is "ok"  *)
(* or "firing".  A missing ruleState is read as one at level ok with no    *)
(* timer running, so it is modelled as one.                                *)
(***************************************************************************)
EXTENDS Integers, FiniteSets

CONSTANTS
  Rule,        \* alert rules
  Target,      \* <<node, entity>> pairs a rule may be about
  For,         \* For[r]: the rule's ForSec, in passes
  Grace,       \* Grace[r]: the rule's RecoverGrace, in passes
  Epoch,       \* the first clock reading; later than any ForSec
  MaxTime,     \* bound: passes
  MaxRestart,  \* bound: restarts
  MayForget,   \* whether rules, entities and nodes are removed
  MaySkip      \* whether a pass may pass over a subject

Nodes == {t[1] : t \in Target}

ASSUME DurationAssumption == /\ For \in [Rule -> Nat]
                             /\ Grace \in [Rule -> Nat]
                             /\ Epoch \in Nat
                             /\ \A r \in Rule : For[r] < Epoch
ASSUME EngineBounds == /\ MaxTime \in Nat
                       /\ MaxRestart \in Nat
                       /\ MayForget \in BOOLEAN
                       /\ MaySkip \in BOOLEAN

NoTime == 0   \* time.Time{}, the zero time

Subject == Rule \X Target

VARIABLES
  now,        \* the clock reading of the current pass
  seed,       \* whether this pass is the seed pass
  todo,       \* subjects the current pass has not come to yet
  state,      \* Engine.state
  record,     \* the last alert_event stored about each subject
  metSince,   \* observer: since when every pass has seen the condition met
  clearSince, \* observer: since when every pass has seen it clear
  boot,       \* when the process last started
  restarts    \* restarts so far

vars == <<now, seed, todo, state, record, metSince, clearSince, boot, restarts>>

Time == Nat
RuleState == [level : {"ok", "firing"}, breachSince : Time,
              recoveredAt : Time, firingSince : Time]

\* Seeded fault: the zero value of a string instead of LevelOK.
ZeroState == [level |-> "", breachSince |-> NoTime,
              recoveredAt |-> NoTime, firingSince |-> NoTime]

OkState == [level |-> "ok", breachSince |-> NoTime,
            recoveredAt |-> NoTime, firingSince |-> NoTime]

----------------------------------------------------------------------------
(* Observe, as a function of the remembered state st of a rule r.          *)
Since(t) == IF t = NoTime THEN now ELSE t

\* Seeded fault: an off-by-one in the comparison with ForSec.
FiresLate(r, st) == st.level = "ok" /\ now - Since(st.breachSince) > For[r]

Fires(r, st) == st.level = "ok" /\ now - Since(st.breachSince) >= For[r]

Recovers(r, st) == st.level # "ok" /\ now - Since(st.recoveredAt) >= Grace[r]

\* Seeded faults: the level changes at the breach, before the alert is due; the
\* recovery timer survives a relapse.
LevelAtBreach(r, st) ==
  [level |-> "firing", breachSince |-> Since(st.breachSince),
   recoveredAt |-> NoTime, firingSince |-> Since(st.breachSince)]
MetKeepsRecovery(r, st) ==
  [level |-> IF Fires(r, st) THEN "firing" ELSE st.level,
   breachSince |-> Since(st.breachSince),
   recoveredAt |-> st.recoveredAt,
   firingSince |-> IF Fires(r, st) THEN Since(st.breachSince) ELSE st.firingSince]

AfterMet(r, st) ==
  [level |-> IF Fires(r, st) THEN "firing" ELSE st.level,
   breachSince |-> Since(st.breachSince),
   recoveredAt |-> NoTime,
   firingSince |-> IF Fires(r, st) THEN Since(st.breachSince) ELSE st.firingSince]

\* Seeded faults: the breach timer survives a clear pass; a recovery leaves the
\* level alone; a firing alert is closed without waiting for RecoverGrace.
ClearKeepsBreach(r, st) ==
  IF Recovers(r, st) THEN OkState
  ELSE [st EXCEPT !.recoveredAt = IF st.level # "ok" THEN Since(@) ELSE @]
ClearKeepsLevel(r, st) ==
  [st EXCEPT !.breachSince = NoTime,
             !.recoveredAt = IF st.level # "ok" THEN Since(@) ELSE @]
ClearAtOnce(r, st) == OkState

AfterClear(r, st) ==
  IF Recovers(r, st) THEN OkState
  ELSE [st EXCEPT !.breachSince = NoTime,
                  !.recoveredAt = IF st.level # "ok" THEN Since(@) ELSE @]

\* Seeded fault: the seed pass does not prime what it finds broken.
NotPrimed(r, met) == OkState

\* The seed pass: as if the condition had been met for the whole of ForSec.
Primed(r, met) ==
  IF met THEN [level |-> "firing", breachSince |-> now - For[r],
               recoveredAt |-> NoTime, firingSince |-> now - For[r]]
  ELSE OkState

----------------------------------------------------------------------------
Init ==
  /\ now = Epoch
  /\ seed = TRUE
  /\ todo = Subject
  /\ state = [s \in Subject |-> OkState]
  /\ record = [s \in Subject |-> "none"]
  /\ metSince = [s \in Subject |-> NoTime]
  /\ clearSince = [s \in Subject |-> NoTime]
  /\ boot = Epoch
  /\ restarts = 0

\* What an onlooker who keeps no engine state knows of the condition.
Watch(s, met) ==
  /\ metSince' = [metSince EXCEPT ![s] = IF met THEN Since(@) ELSE NoTime]
  /\ clearSince' = [clearSince EXCEPT ![s] = IF met THEN NoTime ELSE Since(@)]

Done(s) == /\ s \in todo
           /\ todo' = todo \ {s}
           /\ UNCHANGED <<now, seed, boot, restarts>>

ObserveSeed(s, met) ==
  /\ Done(s)
  /\ seed
  /\ state' = [state EXCEPT ![s] = Primed(s[1], met)]
  /\ Watch(s, met)
  /\ UNCHANGED record

ObserveMet(s) ==
  /\ Done(s)
  /\ ~ seed
  /\ state' = [state EXCEPT ![s] = AfterMet(s[1], @)]
  /\ record' = [record EXCEPT ![s] = IF Fires(s[1], state[s]) THEN "firing" ELSE @]
  /\ Watch(s, TRUE)

ObserveClear(s) ==
  /\ Done(s)
  /\ ~ seed
  /\ state' = [state EXCEPT ![s] = AfterClear(s[1], @)]
  /\ record' = [record EXCEPT ![s] = IF Recovers(s[1], state[s]) THEN "recovered" ELSE @]
  /\ Watch(s, FALSE)

\* Nothing is observed of s in this pass.
PassOver(s) ==
  /\ MaySkip
  /\ Done(s)
  /\ metSince' = [metSince EXCEPT ![s] = NoTime]
  /\ clearSince' = [clearSince EXCEPT ![s] = NoTime]
  /\ UNCHANGED <<state, record>>

\* The next tick of Runner.Run.
NextPass ==
  /\ todo = {}
  /\ now < MaxTime
  /\ now' = now + 1
  /\ seed' = FALSE
  /\ todo' = Subject
  /\ UNCHANGED <<state, record, metSince, clearSince, boot, restarts>>

\* The process dies, anywhere in a pass, and starts again.
Restart ==
  /\ restarts < MaxRestart
  /\ now < MaxTime
  /\ now' = now + 1
  /\ boot' = now + 1
  /\ seed' = TRUE
  /\ todo' = Subject
  /\ state' = [s \in Subject |-> OkState]
  /\ metSince' = [s \in Subject |-> NoTime]
  /\ clearSince' = [s \in Subject |-> NoTime]
  /\ restarts' = restarts + 1
  /\ UNCHANGED record

Drop(S) ==
  /\ MayForget
  /\ state' = [s \in Subject |-> IF s \in S THEN OkState ELSE state[s]]
  /\ metSince' = [s \in Subject |-> IF s \in S THEN NoTime ELSE metSince[s]]
  /\ clearSince' = [s \in Subject |-> IF s \in S THEN NoTime ELSE clearSince[s]]
  /\ UNCHANGED <<now, seed, todo, record, boot, restarts>>

Forget(r) == Drop({s \in Subject : s[1] = r})
ForgetEntity(t) == Drop({s \in Subject : s[2] = t})
ForgetNode(n) == Drop({s \in Subject : s[2][1] = n})

Next ==
  \/ NextPass
  \/ Restart
  \/ \E s \in Subject : ObserveMet(s) \/ ObserveClear(s) \/ PassOver(s)
  \/ \E s \in Subject, met \in BOOLEAN : ObserveSeed(s, met)
  \/ \E r \in Rule : Forget(r)
  \/ \E t \in Target : ForgetEntity(t)
  \/ \E n \in Nodes : ForgetNode(n)

Spec == Init /\ [][Next]_vars

\* ActiveAlerts: what the dashboard lists as currently firing.
ActiveAlerts == {s \in Subject : state[s].level # "ok"}

----------------------------------------------------------------------------
(* The state is of the types the code declares.                            *)
TypeOK ==
  /\ now \in Time /\ boot \in Time /\ restarts \in Nat
  /\ seed \in BOOLEAN
  /\ todo \subseteq Subject
  /\ state \in [Subject -> RuleState]
  /\ record \in [Subject -> {"none", "firing", "recovered"}]
  /\ metSince \in [Subject -> Time]
  /\ clearSince \in [Subject -> Time]

OpensIncident(s) == state[s].level = "ok" /\ state'[s].level # "ok" /\ ~ seed
ClosesIncident(s) == state[s].level # "ok" /\ ObserveClear(s) /\ state'[s].level = "ok"

(* "ForSec (must hold continuously before firing)": an incident opens only *)
(* when every pass of the last ForSec saw the condition met.               *)
FiresOnlyWhenSustained ==
  [][\A s \in Subject : OpensIncident(s) =>
       metSince'[s] # NoTime /\ now - metSince'[s] >= For[s[1]]]_vars

(* "RecoverGrace (must stay clear before recovering)": an incident closes  *)
(* with a recovery alert only when every pass of the last RecoverGrace saw *)
(* the condition clear.                                                    *)
RecoversOnlyWhenSettled ==
  [][\A s \in Subject : ClosesIncident(s) =>
       clearSince'[s] # NoTime /\ now - clearSince'[s] >= Grace[s[1]]]_vars

(* No problem is overlooked and no incident outlives its problem: once a   *)
(* pass has observed a condition met (clear) for ForSec (RecoverGrace) on  *)
(* end, the engine counts it as firing (as ok).                            *)
NothingOverlooked ==
  \A s \in Subject \ todo :
    /\ metSince[s] # NoTime /\ now - metSince[s] >= For[s[1]] => s \in ActiveAlerts
    /\ clearSince[s] # NoTime /\ now - clearSince[s] >= Grace[s[1]] => s \notin ActiveAlerts

(* "A restart does not re-alert an already-firing rule": a condition that  *)
(* every pass since the start has seen met opens no incident.              *)
NoReAlert ==
  [][\A s \in Subject : OpensIncident(s) => metSince'[s] # boot]_vars

(* "Exactly ONE alert fires when a problem begins": an incident that began *)
(* since the start is listed as firing only if the last alert about it     *)
(* said so.                                                                *)
AnnouncedSinceStart ==
  \A s \in ActiveAlerts : state[s].firingSince > boot => record[s] = "firing"

(* "... and exactly ONE when it recovers": what was announced as firing,   *)
(* and has been observed since, is firing still.                           *)
EveryRecoveryAnnounced ==
  \A s \in Subject \ todo : record[s] = "firing" => s \in ActiveAlerts

(* The engine implements Incident: alerts are recorded on transitions and  *)
(* only then, one per transition.                                          *)
Removable == {{s \in Subject : s[1] = r} : r \in Rule}
             \cup {{s \in Subject : s[2] = t} : t \in Target}
             \cup {{s \in Subject : s[2][1] = n} : n \in Nodes}

I == INSTANCE Incident WITH
       Forgettable <- Removable,
       open <- ActiveAlerts,
       starting <- seed

ImplementsIncident == I!Spec
=============================================================================
