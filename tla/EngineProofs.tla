---------------------------- MODULE EngineProofs ----------------------------
(***************************************************************************)
(* Proofs about Engine, for every set of rules and targets, every duration *)
(* and every bound: its types, that no problem is overlooked, that it      *)
(* fires and recovers only on sustained conditions when no pass passes a   *)
(* subject over, that a restart does not re-alert, that every incident and *)
(* every recovery is announced, and that it implements Incident.           *)
(***************************************************************************)
EXTENDS Engine, TLAPS

(* A reset rule state has the type of rule states.                         *)
LEMMA OkStateType == OkState \in RuleState
  BY DEF OkState, RuleState, Time, NoTime

(* What the seed pass leaves behind is a rule state: the clock is past     *)
(* any ForSec, so the start it computes is a time.                         *)
LEMMA PrimedType ==
  ASSUME NEW r \in Rule, NEW met \in BOOLEAN, now \in Nat, now >= Epoch
  PROVE  Primed(r, met) \in RuleState
<1>1. now - For[r] \in Nat
  BY DurationAssumption
<1> QED BY <1>1, OkStateType DEF Primed, RuleState, Time, NoTime

(* What an observation of a met condition leaves behind is a rule state.   *)
LEMMA AfterMetType ==
  ASSUME NEW r \in Rule, NEW st \in RuleState, now \in Nat
  PROVE  AfterMet(r, st) \in RuleState
  BY DEF AfterMet, RuleState, Since, Time, NoTime

(* What an observation of a clear condition leaves behind is a rule        *)
(* state.                                                                  *)
LEMMA AfterClearType ==
  ASSUME NEW r \in Rule, NEW st \in RuleState, now \in Nat
  PROVE  AfterClear(r, st) \in RuleState
  BY OkStateType DEF AfterClear, RuleState, Since, Time, NoTime

(* The clock never runs behind the first reading, which seeding relies on. *)
TimedOK == TypeOK /\ now >= Epoch

(* The onlooker's memory keeps its types.                                  *)
LEMMA WatchType ==
  ASSUME TypeOK, NEW s \in Subject, NEW met \in BOOLEAN, Watch(s, met)
  PROVE  metSince' \in [Subject -> Time] /\ clearSince' \in [Subject -> Time]
  BY DEF Watch, TypeOK, Since, Time, NoTime

(* Every step keeps the types, and the clock past its first reading.       *)
LEMMA TimedInductive ==
  ASSUME TimedOK, [Next]_vars
  PROVE  TimedOK'
<1> USE DEF TimedOK
<1>1. CASE UNCHANGED vars
  BY <1>1 DEF vars, TypeOK
<1>2. CASE NextPass
  <2>1. now' = now + 1 /\ now \in Nat /\ Epoch \in Nat
    BY <1>2, DurationAssumption DEF NextPass, TypeOK, Time
  <2>2. now' \in Nat /\ now' >= Epoch
    BY <2>1
  <2>3. seed' \in BOOLEAN /\ todo' \subseteq Subject
    BY <1>2 DEF NextPass
  <2> QED BY <1>2, <2>2, <2>3 DEF NextPass, TypeOK, Time
<1>3. CASE Restart
  BY <1>3, OkStateType, DurationAssumption DEF Restart, TypeOK, Time, NoTime
<1>4. ASSUME NEW s \in Subject, NEW met \in BOOLEAN, ObserveSeed(s, met) PROVE TimedOK'
  <2>1. s[1] \in Rule
    BY DEF Subject
  <2>2. state' \in [Subject -> RuleState]
    BY <1>4, <2>1, PrimedType DEF ObserveSeed, TypeOK, Time
  <2> QED BY <1>4, <2>2, WatchType DEF ObserveSeed, Done, TypeOK
<1>5. ASSUME NEW s \in Subject, ObserveMet(s) PROVE TimedOK'
  <2>1. s[1] \in Rule
    BY DEF Subject
  <2>2. state' \in [Subject -> RuleState]
    BY <1>5, <2>1, AfterMetType DEF ObserveMet, TypeOK, Time
  <2>3. record' \in [Subject -> {"none", "firing", "recovered"}]
    BY <1>5 DEF ObserveMet, TypeOK
  <2> QED BY <1>5, <2>2, <2>3, WatchType DEF ObserveMet, Done, TypeOK
<1>6. ASSUME NEW s \in Subject, ObserveClear(s) PROVE TimedOK'
  <2>1. s[1] \in Rule
    BY DEF Subject
  <2>2. state' \in [Subject -> RuleState]
    BY <1>6, <2>1, AfterClearType DEF ObserveClear, TypeOK, Time
  <2>3. record' \in [Subject -> {"none", "firing", "recovered"}]
    BY <1>6 DEF ObserveClear, TypeOK
  <2> QED BY <1>6, <2>2, <2>3, WatchType DEF ObserveClear, Done, TypeOK
<1>7. ASSUME NEW s \in Subject, PassOver(s) PROVE TimedOK'
  BY <1>7 DEF PassOver, Done, TypeOK, Time, NoTime
<1>8. ASSUME NEW S, Drop(S) PROVE TimedOK'
  BY <1>8, OkStateType DEF Drop, TypeOK, Time, NoTime
<1> QED BY <1>1, <1>2, <1>3, <1>4, <1>5, <1>6, <1>7, <1>8
        DEF Next, Forget, ForgetEntity, ForgetNode

(* The types hold, and the clock shows its first reading, at the start.    *)
LEMMA TimedInitially == Init => TimedOK
  BY OkStateType, DurationAssumption DEF Init, TimedOK, TypeOK, Time, NoTime

(* The engine's state keeps its types.                                     *)
THEOREM EngineTypeCorrect == Spec => []TypeOK
<1>1. Spec => []TimedOK
  BY TimedInitially, TimedInductive, PTL DEF Spec
<1> QED BY <1>1, PTL DEF TimedOK

----------------------------------------------------------------------------
(***************************************************************************)
(* The engine's timers against what an onlooker saw.  A timer started no   *)
(* later than the onlooker's run of observations (it may have started      *)
(* before, across passes that said nothing), and is not yet due once the   *)
(* current pass has observed the subject.                                  *)
(***************************************************************************)
BreachTimer(s) ==
  state[s].level = "ok" =>
    /\ metSince[s] # NoTime => state[s].breachSince # NoTime
    /\ state[s].breachSince # NoTime =>
         /\ metSince[s] # NoTime => state[s].breachSince <= metSince[s]
         /\ ~ MaySkip => state[s].breachSince = metSince[s]
         /\ s \notin todo /\ metSince[s] # NoTime
              => now - state[s].breachSince < For[s[1]]

RecoveryTimer(s) ==
  state[s].level # "ok" =>
    /\ clearSince[s] # NoTime => state[s].recoveredAt # NoTime
    /\ state[s].recoveredAt # NoTime =>
         /\ clearSince[s] # NoTime => state[s].recoveredAt <= clearSince[s]
         /\ ~ MaySkip => state[s].recoveredAt = clearSince[s]
         /\ s \notin todo /\ clearSince[s] # NoTime
              => now - state[s].recoveredAt < Grace[s[1]]

NotFuture(s) ==
  /\ state[s].breachSince <= now /\ state[s].recoveredAt <= now
  /\ metSince[s] <= now /\ clearSince[s] <= now

TimerInv(s) == BreachTimer(s) /\ RecoveryTimer(s) /\ NotFuture(s)

EInv == TimedOK /\ \A s \in Subject : TimerInv(s)

(* A step that leaves a subject and the clock alone keeps its timers'      *)
(* invariant.                                                              *)
LEMMA TimerFrame ==
  ASSUME NEW s, TimerInv(s), now' = now, state'[s] = state[s],
         metSince'[s] = metSince[s], clearSince'[s] = clearSince[s],
         s \notin todo' => s \notin todo
  PROVE  TimerInv(s)'
  BY DEF TimerInv, BreachTimer, RecoveryTimer, NotFuture

(* A forgotten subject has no timer running.                               *)
LEMMA TimerReset ==
  ASSUME NEW s, now' \in Nat, state'[s] = OkState,
         metSince'[s] = NoTime, clearSince'[s] = NoTime
  PROVE  TimerInv(s)'
  BY DEF TimerInv, BreachTimer, RecoveryTimer, NotFuture, OkState, NoTime

(* The types of what the steps below compute with, for one subject.        *)
LEMMA SubjectTypes ==
  ASSUME TimedOK, NEW s \in Subject
  PROVE  /\ s[1] \in Rule /\ For[s[1]] \in Nat /\ Grace[s[1]] \in Nat
         /\ now \in Nat /\ now > 0 /\ now - For[s[1]] > 0
         /\ state[s] \in RuleState
         /\ state[s].breachSince \in Nat /\ state[s].recoveredAt \in Nat
         /\ state[s].level \in {"ok", "firing"}
         /\ metSince[s] \in Nat /\ clearSince[s] \in Nat
<1>1. s[1] \in Rule
  BY DEF Subject
<1>2. state[s] \in RuleState
  BY DEF TimedOK, TypeOK
<1> QED BY <1>1, <1>2, DurationAssumption DEF TimedOK, TypeOK, RuleState, Time

(* Observing a met condition keeps the timers' invariant: the breach       *)
(* timer starts with the onlooker's run or before it, and is not yet due   *)
(* unless the alert fires.                                                 *)
LEMMA MetTimer ==
  ASSUME TimedOK, NEW s \in Subject, TimerInv(s), ObserveMet(s)
  PROVE  TimerInv(s)'
<1> DEFINE st == state[s]
           new == AfterMet(s[1], st)
<1>1. /\ state'[s] = new
      /\ metSince'[s] = Since(metSince[s]) /\ clearSince'[s] = NoTime
      /\ now' = now
  BY DEF ObserveMet, Watch, Done, TimedOK, TypeOK
<1>2. /\ new.level = (IF Fires(s[1], st) THEN "firing" ELSE st.level)
      /\ new.breachSince = Since(st.breachSince)
      /\ new.recoveredAt = NoTime
  BY DEF AfterMet
<1> HIDE DEF new
<1>3. /\ Since(st.breachSince) \in Nat /\ Since(st.breachSince) <= now
      /\ Since(metSince[s]) \in Nat /\ Since(metSince[s]) <= now
  BY SubjectTypes DEF TimerInv, NotFuture, Since
<1>4. NotFuture(s)'
  BY <1>1, <1>2, <1>3, SubjectTypes DEF NotFuture, NoTime
<1>5. RecoveryTimer(s)'
  BY <1>1, <1>2 DEF RecoveryTimer
<1>6. BreachTimer(s)'
  <2> SUFFICES ASSUME new.level = "ok"
               PROVE  /\ new.breachSince # NoTime
                      /\ new.breachSince <= Since(metSince[s])
                      /\ ~ MaySkip => new.breachSince = Since(metSince[s])
                      /\ now - new.breachSince < For[s[1]]
    BY <1>1 DEF BreachTimer
  <2>1. st.level = "ok" /\ ~ Fires(s[1], st)
    BY <1>2
  <2>2. now - new.breachSince < For[s[1]]
    BY <1>2, <1>3, <2>1, SubjectTypes DEF Fires
  <2>3. new.breachSince # NoTime
    BY <1>2, SubjectTypes DEF Since, NoTime
  <2>4. /\ metSince[s] # NoTime => st.breachSince # NoTime
        /\ st.breachSince # NoTime /\ metSince[s] # NoTime => st.breachSince <= metSince[s]
        /\ st.breachSince # NoTime /\ ~ MaySkip => st.breachSince = metSince[s]
    BY <2>1 DEF TimerInv, BreachTimer
  <2>5. /\ new.breachSince <= Since(metSince[s])
        /\ ~ MaySkip => new.breachSince = Since(metSince[s])
    BY <1>2, <1>3, <2>4, SubjectTypes DEF Since
  <2> QED BY <2>2, <2>3, <2>5
<1> QED BY <1>4, <1>5, <1>6 DEF TimerInv

(* Observing a clear condition keeps the timers' invariant: so does the    *)
(* recovery timer.                                                         *)
LEMMA ClearTimer ==
  ASSUME TimedOK, NEW s \in Subject, TimerInv(s), ObserveClear(s)
  PROVE  TimerInv(s)'
<1> DEFINE st == state[s]
<1>1. /\ state'[s] = AfterClear(s[1], st)
      /\ clearSince'[s] = Since(clearSince[s]) /\ metSince'[s] = NoTime
      /\ now' = now
  BY DEF ObserveClear, Watch, Done, TimedOK, TypeOK
<1>2. Since(clearSince[s]) \in Nat /\ Since(clearSince[s]) <= now
  BY SubjectTypes DEF TimerInv, NotFuture, Since
<1>3. CASE AfterClear(s[1], st) = OkState
  BY <1>1, <1>2, <1>3, SubjectTypes
     DEF TimerInv, BreachTimer, RecoveryTimer, NotFuture, OkState, NoTime
<1>4. CASE st.level = "ok" /\ ~ Recovers(s[1], st)
  <2> DEFINE new == [st EXCEPT !.breachSince = NoTime]
  <2>1. /\ state'[s].level = "ok" /\ state'[s].breachSince = NoTime
        /\ state'[s].recoveredAt = st.recoveredAt
    BY <1>1, <1>4, SubjectTypes DEF AfterClear, RuleState
  <2> QED BY <1>1, <1>2, <2>1, SubjectTypes
          DEF TimerInv, BreachTimer, RecoveryTimer, NotFuture, NoTime
<1>5. CASE st.level # "ok" /\ ~ Recovers(s[1], st)
  <2>1. /\ state'[s].level # "ok" /\ state'[s].breachSince = NoTime
        /\ state'[s].recoveredAt = Since(st.recoveredAt)
    BY <1>1, <1>5, SubjectTypes DEF AfterClear, RuleState
  <2>2. Since(st.recoveredAt) \in Nat /\ Since(st.recoveredAt) <= now
    BY SubjectTypes DEF TimerInv, NotFuture, Since
  <2>3. now - Since(st.recoveredAt) < Grace[s[1]] /\ Since(st.recoveredAt) # NoTime
    BY <1>5, <2>2, SubjectTypes DEF Recovers, Since, NoTime
  <2>4. /\ clearSince[s] # NoTime => st.recoveredAt # NoTime
        /\ st.recoveredAt # NoTime /\ clearSince[s] # NoTime => st.recoveredAt <= clearSince[s]
        /\ st.recoveredAt # NoTime /\ ~ MaySkip => st.recoveredAt = clearSince[s]
    BY <1>5 DEF TimerInv, RecoveryTimer
  <2>5. /\ Since(st.recoveredAt) <= Since(clearSince[s])
        /\ ~ MaySkip => Since(st.recoveredAt) = Since(clearSince[s])
    BY <2>2, <2>4, <1>2, SubjectTypes DEF Since
  <2>6. BreachTimer(s)'
    BY <2>1 DEF BreachTimer
  <2>7. RecoveryTimer(s)'
    BY <1>1, <2>1, <2>3, <2>5 DEF RecoveryTimer
  <2>8. NotFuture(s)'
    BY <1>1, <1>2, <2>1, <2>2, SubjectTypes DEF NotFuture, NoTime
  <2> QED BY <2>6, <2>7, <2>8 DEF TimerInv
<1> QED BY <1>3, <1>4, <1>5 DEF AfterClear

(* The invariant holds at the start.                                       *)
LEMMA EInvInitially == Init => EInv
<1> SUFFICES ASSUME Init PROVE TimedOK /\ \A s \in Subject : TimerInv(s)
  BY DEF EInv
<1>1. TimedOK
  BY TimedInitially
<1>2. ASSUME NEW s \in Subject PROVE TimerInv(s)
  BY <1>1 DEF Init, TimedOK, TypeOK, Time, TimerInv, BreachTimer, RecoveryTimer,
              NotFuture, OkState, NoTime
<1> QED BY <1>1, <1>2

(* Every step keeps the invariant.                                         *)
LEMMA EInvInductive ==
  ASSUME EInv, [Next]_vars
  PROVE  EInv'
<1> USE DEF EInv
<1>0. TimedOK' /\ now' \in Nat
  BY TimedInductive DEF TimedOK, TypeOK, Time
<1> SUFFICES ASSUME NEW s \in Subject PROVE TimerInv(s)'
  BY <1>0
<1>1. CASE UNCHANGED vars
  BY <1>1, TimerFrame DEF vars
<1>2. CASE NextPass
  <2>1. s \in todo' /\ now' = now + 1 /\ UNCHANGED <<state, metSince, clearSince>>
    BY <1>2 DEF NextPass
  <2> QED BY <2>1, SubjectTypes DEF TimerInv, BreachTimer, RecoveryTimer, NotFuture
<1>3. CASE Restart
  BY <1>0, <1>3, TimerReset DEF Restart
<1>4. ASSUME NEW t \in Subject, NEW met \in BOOLEAN, ObserveSeed(t, met) PROVE TimerInv(s)'
  <2>1. CASE s = t
    <3>1. /\ state'[s] = Primed(s[1], met) /\ now' = now
          /\ metSince'[s] = (IF met THEN Since(metSince[s]) ELSE NoTime)
          /\ clearSince'[s] = (IF met THEN NoTime ELSE Since(clearSince[s]))
      BY <1>4, <2>1 DEF ObserveSeed, Done, Watch, TimedOK, TypeOK
    <3>2. /\ Since(metSince[s]) \in Nat /\ Since(metSince[s]) <= now
          /\ Since(clearSince[s]) \in Nat /\ Since(clearSince[s]) <= now
      BY SubjectTypes DEF TimerInv, NotFuture, Since
    <3>3. CASE met
      BY <3>1, <3>2, <3>3, SubjectTypes
         DEF Primed, TimerInv, BreachTimer, RecoveryTimer, NotFuture, NoTime
    <3>4. CASE ~ met
      BY <3>1, <3>2, <3>4, SubjectTypes
         DEF Primed, OkState, TimerInv, BreachTimer, RecoveryTimer, NotFuture, NoTime
    <3> QED BY <3>3, <3>4
  <2>2. CASE s # t
    BY <1>4, <2>2, TimerFrame DEF ObserveSeed, Done, Watch, TimedOK, TypeOK
  <2> QED BY <2>1, <2>2
<1>5. ASSUME NEW t \in Subject, ObserveMet(t) PROVE TimerInv(s)'
  <2>1. CASE s = t
    BY <1>5, <2>1, MetTimer
  <2>2. CASE s # t
    BY <1>5, <2>2, TimerFrame DEF ObserveMet, Done, Watch, TimedOK, TypeOK
  <2> QED BY <2>1, <2>2
<1>6. ASSUME NEW t \in Subject, ObserveClear(t) PROVE TimerInv(s)'
  <2>1. CASE s = t
    BY <1>6, <2>1, ClearTimer
  <2>2. CASE s # t
    BY <1>6, <2>2, TimerFrame DEF ObserveClear, Done, Watch, TimedOK, TypeOK
  <2> QED BY <2>1, <2>2
<1>7. ASSUME NEW t \in Subject, PassOver(t) PROVE TimerInv(s)'
  <2>1. CASE s = t
    <3>1. /\ MaySkip /\ state' = state /\ now' = now
          /\ metSince'[s] = NoTime /\ clearSince'[s] = NoTime
      BY <1>7, <2>1 DEF PassOver, Done, TimedOK, TypeOK
    <3> QED BY <3>1, SubjectTypes
            DEF TimerInv, BreachTimer, RecoveryTimer, NotFuture, NoTime
  <2>2. CASE s # t
    BY <1>7, <2>2, TimerFrame DEF PassOver, Done, TimedOK, TypeOK
  <2> QED BY <2>1, <2>2
<1>8. ASSUME NEW S, Drop(S) PROVE TimerInv(s)'
  <2>1. CASE s \in S
    BY <1>0, <1>8, <2>1, TimerReset DEF Drop
  <2>2. CASE s \notin S
    BY <1>8, <2>2, TimerFrame DEF Drop
  <2> QED BY <2>1, <2>2
<1> QED BY <1>1, <1>2, <1>3, <1>4, <1>5, <1>6, <1>7, <1>8
        DEF Next, Forget, ForgetEntity, ForgetNode

(* The invariant holds of every behaviour.                                 *)
LEMMA EInvAlways == Spec => []EInv
  BY EInvInitially, EInvInductive, PTL DEF Spec

(* However passes, restarts, removals and silent passes interleave, no     *)
(* sustained problem is overlooked and no incident outlives its problem.   *)
THEOREM NothingIsOverlooked == Spec => []NothingOverlooked
<1>1. EInv => NothingOverlooked
  <2> SUFFICES ASSUME EInv, NEW s \in Subject \ todo
               PROVE  /\ metSince[s] # NoTime /\ now - metSince[s] >= For[s[1]]
                            => s \in ActiveAlerts
                      /\ clearSince[s] # NoTime /\ now - clearSince[s] >= Grace[s[1]]
                            => s \notin ActiveAlerts
    BY DEF NothingOverlooked
  <2>1. BreachTimer(s) /\ RecoveryTimer(s) /\ TimedOK
    BY DEF EInv, TimerInv
  <2> QED BY <2>1, SubjectTypes DEF BreachTimer, RecoveryTimer, ActiveAlerts
<1> QED BY <1>1, EInvAlways, PTL

(* Only an observation of it opens an incident about a subject, outside of *)
(* the first pass after a start.                                           *)
LEMMA OnlyMetOpens ==
  ASSUME TimedOK, [Next]_vars, NEW s \in Subject, OpensIncident(s)
  PROVE  ObserveMet(s)
<1>1. state[s].level = "ok" /\ state'[s].level # "ok" /\ ~ seed
  BY DEF OpensIncident
<1>2. PICK t \in Subject : ObserveMet(t) \/ ObserveClear(t)
  <2>1. CASE UNCHANGED vars
    BY <1>1, <2>1 DEF vars
  <2>2. CASE NextPass
    BY <1>1, <2>2 DEF NextPass
  <2>3. CASE Restart
    BY <1>1, <2>3 DEF Restart, OkState
  <2>4. ASSUME NEW S, Drop(S) PROVE FALSE
    BY <1>1, <2>4 DEF Drop, OkState
  <2>5. ASSUME NEW u \in Subject, PassOver(u) PROVE FALSE
    BY <1>1, <2>5 DEF PassOver
  <2>6. ASSUME NEW u \in Subject, NEW met \in BOOLEAN, ObserveSeed(u, met) PROVE FALSE
    BY <1>1, <2>6 DEF ObserveSeed
  <2> QED BY <2>1, <2>2, <2>3, <2>4, <2>5, <2>6
          DEF Next, Forget, ForgetEntity, ForgetNode
<1>3. s = t
  BY <1>1, <1>2 DEF ObserveMet, ObserveClear, TimedOK, TypeOK
<1>4. ASSUME ObserveClear(s) PROVE FALSE
  <2>1. state'[s] = AfterClear(s[1], state[s])
    BY <1>4 DEF ObserveClear, TimedOK, TypeOK
  <2>2. state'[s].level = "ok"
    BY <1>1, <2>1, SubjectTypes DEF AfterClear, OkState, RuleState
  <2> QED BY <1>1, <2>2
<1> QED BY <1>2, <1>3, <1>4

(* When no pass passes a subject over, an incident opens only on a         *)
(* condition that every pass of the last ForSec saw met.                   *)
THEOREM FiresWhenSustained ==
  ASSUME ~ MaySkip
  PROVE  Spec => FiresOnlyWhenSustained
<1> DEFINE Sustained(s) == OpensIncident(s) =>
             metSince'[s] # NoTime /\ now - metSince'[s] >= For[s[1]]
<1>1. ASSUME EInv, [Next]_vars, NEW s \in Subject PROVE Sustained(s)
  <2> SUFFICES ASSUME OpensIncident(s)
               PROVE  metSince'[s] # NoTime /\ now - metSince'[s] >= For[s[1]]
    OBVIOUS
  <2>0. TimedOK /\ TimerInv(s)
    BY <1>1 DEF EInv
  <2>1. state[s].level = "ok" /\ state'[s].level # "ok" /\ ~ seed
    BY DEF OpensIncident
  <2>4. ObserveMet(s)
    BY <1>1, <2>0, OnlyMetOpens
  <2>5. /\ state'[s] = AfterMet(s[1], state[s])
        /\ metSince'[s] = Since(metSince[s])
    BY <2>0, <2>4 DEF ObserveMet, Watch, TimedOK, TypeOK
  <2>6. now - Since(state[s].breachSince) >= For[s[1]]
    BY <2>1, <2>5 DEF AfterMet, Fires
  <2>7. /\ metSince[s] # NoTime => state[s].breachSince # NoTime
        /\ state[s].breachSince # NoTime => state[s].breachSince = metSince[s]
    BY <2>0, <2>1 DEF TimerInv, BreachTimer
  <2>8. Since(metSince[s]) = Since(state[s].breachSince)
    BY <2>7 DEF Since
  <2> QED BY <2>0, <2>5, <2>6, <2>8, SubjectTypes DEF Since, NoTime
<1>2. EInv /\ [Next]_vars => [\A s \in Subject : Sustained(s)]_vars
  BY <1>1
<1> HIDE DEF Sustained
<1>3. Spec => [][\A s \in Subject : Sustained(s)]_vars
  BY <1>2, EInvAlways, PTL DEF Spec
<1> QED BY <1>3 DEF FiresOnlyWhenSustained, Sustained

(* When no pass passes a subject over, an incident closes with a recovery  *)
(* alert only on a condition that every pass of the last RecoverGrace saw  *)
(* clear.                                                                  *)
THEOREM RecoversWhenSettled ==
  ASSUME ~ MaySkip
  PROVE  Spec => RecoversOnlyWhenSettled
<1> DEFINE Settled(s) == ClosesIncident(s) =>
             clearSince'[s] # NoTime /\ now - clearSince'[s] >= Grace[s[1]]
<1>1. ASSUME EInv, [Next]_vars, NEW s \in Subject PROVE Settled(s)
  <2> SUFFICES ASSUME ClosesIncident(s)
               PROVE  clearSince'[s] # NoTime /\ now - clearSince'[s] >= Grace[s[1]]
    OBVIOUS
  <2>0. TimedOK /\ TimerInv(s)
    BY <1>1 DEF EInv
  <2>1. state[s].level # "ok" /\ ObserveClear(s) /\ state'[s].level = "ok"
    BY DEF ClosesIncident
  <2>2. /\ state'[s] = AfterClear(s[1], state[s])
        /\ clearSince'[s] = Since(clearSince[s])
    BY <2>0, <2>1 DEF ObserveClear, Watch, TimedOK, TypeOK
  <2>3. now - Since(state[s].recoveredAt) >= Grace[s[1]]
    BY <2>0, <2>1, <2>2, SubjectTypes DEF AfterClear, Recovers, RuleState
  <2>4. /\ clearSince[s] # NoTime => state[s].recoveredAt # NoTime
        /\ state[s].recoveredAt # NoTime => state[s].recoveredAt = clearSince[s]
    BY <2>0, <2>1 DEF TimerInv, RecoveryTimer
  <2>5. Since(clearSince[s]) = Since(state[s].recoveredAt)
    BY <2>4 DEF Since
  <2> QED BY <2>0, <2>2, <2>3, <2>5, SubjectTypes DEF Since, NoTime
<1>2. EInv /\ [Next]_vars => [\A s \in Subject : Settled(s)]_vars
  BY <1>1
<1> HIDE DEF Settled
<1>3. Spec => [][\A s \in Subject : Settled(s)]_vars
  BY <1>2, EInvAlways, PTL DEF Spec
<1> QED BY <1>3 DEF RecoversOnlyWhenSettled, Settled

----------------------------------------------------------------------------
(* The first pass after a start runs under the clock reading of the start, *)
(* and every later pass under a later one.                                 *)
BootClock == IF seed THEN now = boot ELSE now > boot

(* What the engine owes its own start about s: a condition met in every    *)
(* pass since then is firing already, and an incident that began since     *)
(* then was announced.                                                     *)
StartInv(s) ==
  /\ metSince[s] = boot => state[s].level # "ok"
  /\ state[s].level # "ok" /\ state[s].firingSince > boot => record[s] = "firing"

SInv == TimedOK /\ boot >= Epoch /\ BootClock /\ \A s \in Subject : StartInv(s)

(* A start is later than any ForSec, so never the zero time.               *)
LEMMA BootIsATime ==
  ASSUME SInv, NEW s \in Subject
  PROVE  /\ boot \in Nat /\ boot # NoTime
         /\ For[s[1]] \in Nat /\ now \in Nat
         /\ state[s] \in RuleState /\ metSince[s] \in Nat
  BY DurationAssumption DEF SInv, TimedOK, TypeOK, Subject, Time, NoTime

(* The invariant holds at the start.                                       *)
LEMMA SInvInitially == Init => SInv
<1> SUFFICES ASSUME Init
             PROVE  TimedOK /\ boot >= Epoch /\ BootClock /\ \A s \in Subject : StartInv(s)
  BY DEF SInv
<1>1. TimedOK
  BY TimedInitially
<1>2. boot >= Epoch /\ BootClock
  BY DurationAssumption DEF Init, BootClock
<1>3. ASSUME NEW s \in Subject PROVE StartInv(s)
  <2>1. Epoch # NoTime
    BY DurationAssumption DEF Subject, NoTime
  <2> QED BY <2>1 DEF Init, StartInv, OkState, NoTime
<1> QED BY <1>1, <1>2, <1>3

(* A step keeps the order of the clock and the start.                      *)
LEMMA BootClockInductive ==
  ASSUME SInv, [Next]_vars
  PROVE  boot' >= Epoch /\ BootClock'
<1> USE DEF SInv, BootClock
<1>0. now \in Nat /\ boot \in Nat /\ Epoch \in Nat /\ boot <= now
  BY DurationAssumption DEF TimedOK, TypeOK, Time
<1>1. CASE NextPass
  BY <1>0, <1>1 DEF NextPass
<1>2. CASE Restart
  BY <1>0, <1>2 DEF Restart, TimedOK
<1>3. CASE UNCHANGED <<now, seed, boot>>
  BY <1>3
<1> QED BY <1>1, <1>2, <1>3
        DEF Next, vars, ObserveMet, ObserveClear, ObserveSeed, PassOver, Done,
            Forget, ForgetEntity, ForgetNode, Drop

(* Every step keeps what the engine owes its start.                        *)
LEMMA SInvInductive ==
  ASSUME SInv, [Next]_vars
  PROVE  SInv'
<1> USE DEF StartInv
<1>0. TimedOK /\ TimedOK' /\ boot' >= Epoch /\ BootClock'
  BY TimedInductive, BootClockInductive DEF SInv
<1> SUFFICES ASSUME NEW s \in Subject PROVE StartInv(s)'
  BY <1>0 DEF SInv
<1>01. StartInv(s) /\ BootClock
  BY DEF SInv
<1>1. CASE UNCHANGED vars
  BY <1>1, <1>01 DEF vars
<1>2. CASE NextPass
  BY <1>2, <1>01 DEF NextPass
<1>3. CASE Restart
  <2>1. boot' # NoTime
    BY <1>3, <1>0, BootIsATime DEF Restart, NoTime, TimedOK, TypeOK, Time
  <2> QED BY <1>3, <2>1 DEF Restart, OkState
<1>4. ASSUME NEW t \in Subject, NEW met \in BOOLEAN, ObserveSeed(t, met) PROVE StartInv(s)'
  <2>1. CASE s = t
    <3>1. /\ state'[s] = Primed(s[1], met) /\ boot' = boot /\ record'[s] = record[s]
          /\ metSince'[s] = (IF met THEN Since(metSince[s]) ELSE NoTime)
          /\ now = boot
      BY <1>0, <1>01, <1>4, <2>1
         DEF ObserveSeed, Done, Watch, TimedOK, TypeOK, BootClock
    <3>2. CASE met
      BY <3>1, <3>2, BootIsATime DEF Primed
    <3>3. CASE ~ met
      BY <3>1, <3>3, BootIsATime DEF Primed, OkState
    <3> QED BY <3>2, <3>3
  <2>2. CASE s # t
    BY <1>0, <1>01, <1>4, <2>2 DEF ObserveSeed, Done, Watch, TimedOK, TypeOK
  <2> QED BY <2>1, <2>2
<1>5. ASSUME NEW t \in Subject, ObserveMet(t) PROVE StartInv(s)'
  <2>1. CASE s = t
    <3>1. /\ state'[s] = AfterMet(s[1], state[s]) /\ boot' = boot
          /\ metSince'[s] = Since(metSince[s])
          /\ record'[s] = IF Fires(s[1], state[s]) THEN "firing" ELSE record[s]
          /\ now # boot
      BY <1>0, <1>01, <1>5, <2>1, BootIsATime
         DEF ObserveMet, Done, Watch, TimedOK, TypeOK, BootClock
    <3>2. metSince'[s] = boot => metSince[s] = boot
      BY <3>1 DEF Since
    <3>3. metSince'[s] = boot' => state'[s].level # "ok"
      BY <3>1, <3>2, <1>01 DEF AfterMet
    <3>4. ~ Fires(s[1], state[s]) => /\ state'[s].level = state[s].level
                                     /\ state'[s].firingSince = state[s].firingSince
      BY <3>1 DEF AfterMet
    <3> QED BY <3>1, <3>3, <3>4, <1>01
  <2>2. CASE s # t
    BY <1>0, <1>01, <1>5, <2>2 DEF ObserveMet, Done, Watch, TimedOK, TypeOK
  <2> QED BY <2>1, <2>2
<1>6. ASSUME NEW t \in Subject, ObserveClear(t) PROVE StartInv(s)'
  <2>1. CASE s = t
    <3>1. /\ state'[s] = AfterClear(s[1], state[s]) /\ boot' = boot
          /\ metSince'[s] = NoTime
          /\ record'[s] = IF Recovers(s[1], state[s]) THEN "recovered" ELSE record[s]
      BY <1>0, <1>6, <2>1 DEF ObserveClear, Done, Watch, TimedOK, TypeOK
    <3>2. CASE Recovers(s[1], state[s])
      BY <3>1, <3>2, BootIsATime DEF AfterClear, OkState
    <3>3. CASE ~ Recovers(s[1], state[s])
      <4>1. /\ state'[s].level = state[s].level
            /\ state'[s].firingSince = state[s].firingSince
        BY <3>1, <3>3, BootIsATime DEF AfterClear, RuleState
      <4> QED BY <3>1, <3>3, <4>1, <1>01, BootIsATime
    <3> QED BY <3>2, <3>3
  <2>2. CASE s # t
    BY <1>0, <1>01, <1>6, <2>2 DEF ObserveClear, Done, Watch, TimedOK, TypeOK
  <2> QED BY <2>1, <2>2
<1>7. ASSUME NEW t \in Subject, PassOver(t) PROVE StartInv(s)'
  <2>1. metSince'[s] \in {metSince[s], NoTime} /\ UNCHANGED <<state, record, boot>>
    BY <1>0, <1>7 DEF PassOver, Done, TimedOK, TypeOK
  <2> QED BY <2>1, <1>01, BootIsATime
<1>8. ASSUME NEW S, Drop(S) PROVE StartInv(s)'
  <2>1. /\ \/ state'[s] = OkState /\ metSince'[s] = NoTime
           \/ state'[s] = state[s] /\ metSince'[s] = metSince[s]
        /\ UNCHANGED <<record, boot>>
    BY <1>8 DEF Drop
  <2> QED BY <2>1, <1>01, BootIsATime DEF OkState
<1> QED BY <1>1, <1>2, <1>3, <1>4, <1>5, <1>6, <1>7, <1>8
        DEF Next, Forget, ForgetEntity, ForgetNode

(* The invariant holds of every behaviour.                                 *)
LEMMA SInvAlways == Spec => []SInv
  BY SInvInitially, SInvInductive, PTL DEF Spec

(* A restart does not re-alert: however passes, restarts and removals      *)
(* interleave, a condition that every pass since the start has seen met    *)
(* opens no incident.                                                      *)
THEOREM RestartsDoNotReAlert == Spec => NoReAlert
<1> DEFINE Quiet(s) == OpensIncident(s) => metSince'[s] # boot
<1>1. ASSUME SInv, [Next]_vars, NEW s \in Subject PROVE Quiet(s)
  <2> SUFFICES ASSUME OpensIncident(s), metSince'[s] = boot PROVE FALSE
    OBVIOUS
  <2>1. ObserveMet(s) /\ ~ seed /\ state[s].level = "ok"
    BY <1>1, OnlyMetOpens DEF SInv, OpensIncident
  <2>2. metSince'[s] = Since(metSince[s]) /\ now # boot
    BY <1>1, <2>1, BootIsATime DEF ObserveMet, Watch, SInv, TimedOK, TypeOK, BootClock
  <2>3. metSince[s] = boot
    BY <2>2 DEF Since
  <2> QED BY <1>1, <2>1, <2>3 DEF SInv, StartInv
<1>2. SInv /\ [Next]_vars => [\A s \in Subject : Quiet(s)]_vars
  BY <1>1
<1> HIDE DEF Quiet
<1>3. Spec => [][\A s \in Subject : Quiet(s)]_vars
  BY <1>2, SInvAlways, PTL DEF Spec
<1> QED BY <1>3 DEF NoReAlert, Quiet

(* An incident that began since the start is listed as firing only if the  *)
(* last alert about it said so.                                            *)
THEOREM IncidentsAreAnnounced == Spec => []AnnouncedSinceStart
<1>1. SInv => AnnouncedSinceStart
  BY DEF SInv, StartInv, AnnouncedSinceStart, ActiveAlerts
<1> QED BY <1>1, SInvAlways, PTL

----------------------------------------------------------------------------
(* With no restart and nothing removed, the record of a subject says       *)
(* firing only while the engine does.                                      *)
Recorded ==
  /\ restarts = 0
  /\ \A s \in Subject : record[s] = "firing" => ~ seed /\ state[s].level # "ok"

(* Every step of an engine that never restarts and forgets nothing keeps   *)
(* it so: an alert is recorded by the step that changes the level.         *)
LEMMA RecordedInductive ==
  ASSUME MaxRestart = 0, ~ MayForget, TimedOK, Recorded, [Next]_vars
  PROVE  Recorded'
<1>1. CASE UNCHANGED vars
  BY <1>1 DEF vars, Recorded
<1>2. CASE NextPass
  BY <1>2 DEF NextPass, Recorded
<1>3. ~ Restart /\ \A S : ~ Drop(S)
  BY DEF Restart, Drop, Recorded
<1>4. ASSUME NEW t \in Subject, NEW met \in BOOLEAN, ObserveSeed(t, met) PROVE Recorded'
  BY <1>4 DEF ObserveSeed, Done, Recorded
<1>5. ASSUME NEW t \in Subject, ObserveMet(t) PROVE Recorded'
  <2>1. ~ seed' /\ restarts' = 0
    BY <1>5 DEF ObserveMet, Done, Recorded
  <2>2. ASSUME NEW s \in Subject, record'[s] = "firing" PROVE state'[s].level # "ok"
    <3>1. CASE s = t
      BY <1>5, <2>2, <3>1 DEF ObserveMet, AfterMet, Recorded, TimedOK, TypeOK
    <3>2. CASE s # t
      BY <1>5, <2>2, <3>2 DEF ObserveMet, Recorded, TimedOK, TypeOK
    <3> QED BY <3>1, <3>2
  <2> QED BY <2>1, <2>2 DEF Recorded
<1>6. ASSUME NEW t \in Subject, ObserveClear(t) PROVE Recorded'
  <2>1. ~ seed' /\ restarts' = 0
    BY <1>6 DEF ObserveClear, Done, Recorded
  <2>2. ASSUME NEW s \in Subject, record'[s] = "firing" PROVE state'[s].level # "ok"
    <3>1. CASE s = t
      <4>1. ~ Recovers(s[1], state[s]) /\ record[s] = "firing"
        BY <1>6, <2>2, <3>1 DEF ObserveClear, TimedOK, TypeOK
      <4>2. state'[s].level = state[s].level
        BY <1>6, <3>1, <4>1, SubjectTypes DEF ObserveClear, AfterClear, RuleState, TimedOK, TypeOK
      <4> QED BY <4>1, <4>2 DEF Recorded
    <3>2. CASE s # t
      BY <1>6, <2>2, <3>2 DEF ObserveClear, Recorded, TimedOK, TypeOK
    <3> QED BY <3>1, <3>2
  <2> QED BY <2>1, <2>2 DEF Recorded
<1>7. ASSUME NEW t \in Subject, PassOver(t) PROVE Recorded'
  BY <1>7 DEF PassOver, Done, Recorded
<1> QED BY <1>1, <1>2, <1>3, <1>4, <1>5, <1>6, <1>7
        DEF Next, Forget, ForgetEntity, ForgetNode

(* While the process lives and no rule, entity or node is removed, what    *)
(* was announced as firing is firing still: every recovery is announced.   *)
THEOREM RecoveriesAreAnnounced ==
  ASSUME MaxRestart = 0, ~ MayForget
  PROVE  Spec => []EveryRecoveryAnnounced
<1>1. Init => TimedOK /\ Recorded
  BY TimedInitially DEF Init, Recorded
<1>2. TimedOK /\ Recorded /\ [Next]_vars => (TimedOK /\ Recorded)'
  BY TimedInductive, RecordedInductive
<1>3. TimedOK /\ Recorded => EveryRecoveryAnnounced
  BY DEF Recorded, EveryRecoveryAnnounced, ActiveAlerts
<1> QED BY <1>1, <1>2, <1>3, PTL DEF Spec

----------------------------------------------------------------------------
(* No incident is open, and nothing recorded, at the start.                *)
LEMMA IncidentInit == Init => I!Init
  BY DEF Init, I!Init, ActiveAlerts, OkState

(* Every step of the engine is a step of Incident, or leaves its           *)
(* variables alone.                                                        *)
LEMMA IncidentStep ==
  ASSUME TimedOK, TimedOK', [Next]_vars
  PROVE  [I!Next]_(I!vars)
<1>1. CASE UNCHANGED vars
  BY <1>1 DEF vars, I!vars, ActiveAlerts
<1>2. CASE NextPass
  <2>1. UNCHANGED <<state, record>> /\ seed' = FALSE /\ seed \in BOOLEAN
    BY <1>2 DEF NextPass, TimedOK, TypeOK
  <2>2. ActiveAlerts' = ActiveAlerts
    BY <2>1 DEF ActiveAlerts
  <2> QED BY <2>1, <2>2 DEF I!Next, I!Started, I!vars
<1>3. CASE Restart
  <2>1. seed' = TRUE /\ record' = record /\ state' = [s \in Subject |-> OkState]
    BY <1>3 DEF Restart
  <2>2. ActiveAlerts' = {}
    BY <2>1 DEF ActiveAlerts, OkState
  <2> QED BY <2>1, <2>2 DEF I!Next, I!Restart
<1>4. ASSUME NEW s \in Subject, NEW met \in BOOLEAN, ObserveSeed(s, met) PROVE I!Prime(s)
  <2>1. /\ seed /\ UNCHANGED <<seed, record>>
        /\ state' = [state EXCEPT ![s] = Primed(s[1], met)]
    BY <1>4 DEF ObserveSeed, Done
  <2>2. ActiveAlerts' = IF met THEN ActiveAlerts \cup {s} ELSE ActiveAlerts \ {s}
    BY <2>1 DEF ActiveAlerts, Primed, OkState, TimedOK, TypeOK
  <2> QED BY <2>1, <2>2 DEF I!Prime
<1>5. ASSUME NEW s \in Subject, ObserveMet(s) PROVE [I!Next]_(I!vars)
  <2>1. /\ ~ seed /\ seed' = seed
        /\ state' = [state EXCEPT ![s] = AfterMet(s[1], @)]
        /\ record' = [record EXCEPT ![s] = IF Fires(s[1], state[s]) THEN "firing" ELSE @]
    BY <1>5 DEF ObserveMet, Done
  <2>2. CASE Fires(s[1], state[s])
    <3>1. s \notin ActiveAlerts
      BY <2>2 DEF Fires, ActiveAlerts
    <3>2. ActiveAlerts' = ActiveAlerts \cup {s}
      BY <2>1, <2>2 DEF AfterMet, ActiveAlerts, TimedOK, TypeOK
    <3>3. I!Open(s)
      BY <2>1, <2>2, <3>1, <3>2 DEF I!Open
    <3> QED BY <3>3 DEF I!Next
  <2>3. CASE ~ Fires(s[1], state[s])
    <3>1. record' = record
      BY <2>1, <2>3 DEF TimedOK, TypeOK
    <3>2. state'[s].level = state[s].level
      BY <2>1, <2>3 DEF AfterMet, TimedOK, TypeOK
    <3>3. ActiveAlerts' = ActiveAlerts
      BY <2>1, <3>2 DEF ActiveAlerts, TimedOK, TypeOK
    <3> QED BY <2>1, <3>1, <3>3 DEF I!vars
  <2> QED BY <2>2, <2>3
<1>6. ASSUME NEW s \in Subject, ObserveClear(s) PROVE [I!Next]_(I!vars)
  <2>1. /\ ~ seed /\ seed' = seed
        /\ state' = [state EXCEPT ![s] = AfterClear(s[1], @)]
        /\ record' = [record EXCEPT ![s] =
                         IF Recovers(s[1], state[s]) THEN "recovered" ELSE @]
    BY <1>6 DEF ObserveClear, Done
  <2>2. CASE Recovers(s[1], state[s])
    <3>1. s \in ActiveAlerts
      BY <2>2 DEF Recovers, ActiveAlerts
    <3>2. ActiveAlerts' = ActiveAlerts \ {s}
      BY <2>1, <2>2 DEF AfterClear, OkState, ActiveAlerts, TimedOK, TypeOK
    <3>3. I!Close(s)
      BY <2>1, <2>2, <3>1, <3>2 DEF I!Close
    <3> QED BY <3>3 DEF I!Next
  <2>3. CASE ~ Recovers(s[1], state[s])
    <3>1. record' = record
      BY <2>1, <2>3 DEF TimedOK, TypeOK
    <3>2. state'[s].level = state[s].level
      BY <2>1, <2>3, SubjectTypes DEF AfterClear, RuleState, TimedOK, TypeOK
    <3>3. ActiveAlerts' = ActiveAlerts
      BY <2>1, <3>2 DEF ActiveAlerts, TimedOK, TypeOK
    <3> QED BY <2>1, <3>1, <3>3 DEF I!vars
  <2> QED BY <2>2, <2>3
<1>7. ASSUME NEW s \in Subject, PassOver(s) PROVE UNCHANGED I!vars
  BY <1>7 DEF PassOver, Done, I!vars, ActiveAlerts
<1>8. ASSUME NEW S, Drop(S) PROVE I!Forget(S)
  BY <1>8 DEF Drop, I!Forget, ActiveAlerts, OkState
<1>9. ASSUME NEW r \in Rule, Forget(r) PROVE I!Next
  <2> DEFINE S == {s \in Subject : s[1] = r}
  <2>1. S \in Removable
    BY DEF Removable
  <2> QED BY <1>8, <1>9, <2>1 DEF I!Next, Forget
<1>10. ASSUME NEW t \in Target, ForgetEntity(t) PROVE I!Next
  <2> DEFINE S == {s \in Subject : s[2] = t}
  <2>1. S \in Removable
    BY DEF Removable
  <2> QED BY <1>8, <1>10, <2>1 DEF I!Next, ForgetEntity
<1>11. ASSUME NEW n \in Nodes, ForgetNode(n) PROVE I!Next
  <2> DEFINE S == {s \in Subject : s[2][1] = n}
  <2>1. S \in Removable
    BY DEF Removable
  <2> QED BY <1>8, <1>11, <2>1 DEF I!Next, ForgetNode
<1>12. ASSUME NEW s \in Subject, NEW met \in BOOLEAN, ObserveSeed(s, met) PROVE I!Next
  BY <1>4, <1>12 DEF I!Next
<1> QED BY <1>1, <1>2, <1>3, <1>5, <1>6, <1>7, <1>9, <1>10, <1>11, <1>12 DEF Next

(* Alerts are recorded on transitions and only then, one per transition,   *)
(* for any rules, targets and durations.                                   *)
THEOREM EngineImplementsIncident == Spec => ImplementsIncident
<1>1. Spec => []TimedOK
  BY TimedInitially, TimedInductive, PTL DEF Spec
<1> QED BY <1>1, IncidentInit, IncidentStep, PTL DEF Spec, ImplementsIncident, I!Spec
=============================================================================
