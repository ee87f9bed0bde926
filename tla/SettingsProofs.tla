--------------------------- MODULE SettingsProofs ---------------------------
(***************************************************************************)
(* Theorems about the settings of a running process (module Node): the     *)
(* requests of the dashboard, the cache, the runner and the engine, for    *)
(* any number of requests at once, failures and restarts.                  *)
(***************************************************************************)
EXTENDS NodeProofs

---------------------------------------------------------------------------
(* The requests and the cache are records, in whatever state they are.     *)
IsRequest(r) == r = [op |-> r.op, step |-> r.step, id |-> r.id, value |-> r.value]
Shaped ==
  /\ DOMAIN edit = Editor /\ \A e \in Editor : IsRequest(edit[e])
  /\ cache = [general |-> cache.general, notify |-> cache.notify, rules |-> cache.rules]

(* One request moves on.                                                   *)
Moves(e, r) ==
  /\ DOMAIN edit' = Editor /\ edit'[e] = r
  /\ \A d \in Editor \ {e} : edit'[d] = edit[d]
LEMMA OneMoves ==
  ASSUME Shaped, NEW e \in Editor, NEW r, edit' = [edit EXCEPT ![e] = r]
  PROVE  Moves(e, r)
BY DEF Shaped, Moves

LEMMA GoesMoves ==
  ASSUME Shaped, NEW e \in Editor, NEW step, Goes(e, step)
  PROVE  Moves(e, [op |-> edit[e].op, step |-> step, id |-> edit[e].id, value |-> edit[e].value])
<1>1. edit'[e] = [edit[e] EXCEPT !.step = step] /\ IsRequest(edit[e])
  BY DEF Goes, Shaped
<1>2. DOMAIN edit' = Editor /\ \A d \in Editor \ {e} : edit'[d] = edit[d]
  BY DEF Goes, Shaped
<1>3. edit'[e] = [op |-> edit[e].op, step |-> step, id |-> edit[e].id, value |-> edit[e].value]
  BY <1>1 DEF IsRequest
<1> QED BY <1>2, <1>3 DEF Moves

LEMMA DoneMoves ==
  ASSUME Shaped, NEW e \in Editor, Done(e)
  PROVE  Moves(e, NoEdit)
BY OneMoves DEF Done

(* A request of the dashboard that is let in. *)
LEMMA SubmitMoves ==
  ASSUME Shaped, NEW e \in Editor, NEW op, NEW step, NEW id, NEW value, Submit(e, op, step, id, value)
  PROVE  Moves(e, [op |-> op, step |-> step, id |-> id, value |-> value]) /\ Idle(e)
BY OneMoves DEF Submit

LEMMA MovesShaped ==
  ASSUME Shaped, NEW e \in Editor, NEW r, IsRequest(r), Moves(e, r)
  PROVE  DOMAIN edit' = Editor /\ \A d \in Editor : IsRequest(edit'[d])
BY DEF Shaped, Moves

LEMMA Requests ==
  /\ IsRequest(NoEdit)
  /\ \A op, step, id, value : IsRequest([op |-> op, step |-> step, id |-> id, value |-> value])
BY DEF IsRequest, NoEdit
---------------------------------------------------------------------------
(* What is about to fire, firing, cached or read is about a rule that is   *)
(* there; but for a rule that was updated, or one whose deletion has yet   *)
(* to reach the engine.                                                    *)
Excused(id) ==
  id \in loose \/ \E e \in Editor : ~Idle(e) /\ edit[e].op = "delete" /\ edit[e].id = id
Holds(r) == r.step = "store" /\ Part(r.op) = "rules"
Explained ==
  /\ \A p \in firing \cup todo : p \in Watched(rule) \/ Excused(p[1])
  /\ \A r \in cache.rules : r \in rule \/ Excused(r.id)
  /\ \A e \in Editor : Holds(edit[e]) => \A r \in edit[e].value : r \in rule \/ Excused(r.id)
FiringInv == Shaped /\ Explained

(* What a step may do to the rules: a rule that goes is excused, and an    *)
(* excuse stays.                                                           *)
RulesKept ==
  /\ \A r \in rule : r \in rule' \/ Excused(r.id)'
  /\ \A id : Excused(id) => Excused(id)'

LEMMA WatchedFacts ==
  ASSUME NEW R, NEW p
  PROVE  p \in Watched(R) <=> \E r \in R : r.enabled /\ \E s \in About(r) : p = <<r.id, s>>
BY DEF Watched

LEMMA SubjectsKept ==
  ASSUME RulesKept, NEW p, p \in Watched(rule) \/ Excused(p[1])
  PROVE  p \in Watched(rule') \/ Excused(p[1])'
<1>1. CASE Excused(p[1])
  BY <1>1 DEF RulesKept
<1>2. CASE p \in Watched(rule)
  <2>1. PICK r \in rule : r.enabled /\ \E s \in About(r) : p = <<r.id, s>>
    BY <1>2, WatchedFacts
  <2>2. CASE r \in rule'
    <3>1. p \in Watched(rule')
      BY <2>1, <2>2 DEF Watched
    <3> QED BY <3>1
  <2>3. CASE Excused(r.id)'
    <3>1. p[1] = r.id
      BY <2>1
    <3> QED BY <2>3, <3>1
  <2> QED BY <2>2, <2>3 DEF RulesKept
<1> QED BY <1>1, <1>2

(* A step after which the runner, the cache and the requests hold nothing  *)
(* but what they held or what is in the table.                             *)
LEMMA ExplainedStays ==
  ASSUME Explained, RulesKept,
         \A p \in firing' \cup todo' : p \in firing \cup todo \/ p \in Watched(rule'),
         \A r \in cache'.rules : r \in rule' \/ r \in cache.rules
           \/ \E e \in Editor : Holds(edit[e]) /\ r \in edit[e].value,
         \A e \in Editor : Holds(edit'[e]) =>
           \A r \in edit'[e].value : r \in rule' \/ (Holds(edit[e]) /\ r \in edit[e].value)
  PROVE  Explained'
<1>1. ASSUME NEW p \in firing' \cup todo' PROVE p \in Watched(rule') \/ Excused(p[1])'
  <2>1. CASE p \in firing \cup todo
    BY <2>1, SubjectsKept DEF Explained
  <2> QED BY <2>1
<1>2. \A r : r \in rule \/ Excused(r.id) => r \in rule' \/ Excused(r.id)'
  BY DEF RulesKept
<1>3. \A r \in cache'.rules : r \in rule' \/ Excused(r.id)'
  BY <1>2 DEF Explained
<1>4. \A e \in Editor : Holds(edit'[e]) => \A r \in edit'[e].value : r \in rule' \/ Excused(r.id)'
  BY <1>2 DEF Explained
<1> QED BY <1>1, <1>3, <1>4 DEF Explained, Holds

(* While no deletion ends, excuses stay.                                   *)
LEMMA ExcusesStay ==
  ASSUME NEW e \in Editor, NEW r, Moves(e, r), loose \subseteq loose',
         Idle(e) \/ edit[e].op # "delete"
           \/ (r.step # "idle" /\ r.op = "delete" /\ r.id = edit[e].id) \/ edit[e].id \in loose'
  PROVE  \A id : Excused(id) => Excused(id)'
<1> SUFFICES ASSUME NEW id, Excused(id) PROVE Excused(id)'
  OBVIOUS
<1>1. CASE id \in loose
  BY <1>1 DEF Excused
<1>2. ASSUME NEW d \in Editor, ~Idle(d), edit[d].op = "delete", edit[d].id = id PROVE Excused(id)'
  <2>1. CASE d # e
    BY <1>2, <2>1 DEF Moves, Excused, Idle
  <2>2. CASE d = e
    BY <1>2, <2>2 DEF Moves, Excused, Idle
  <2> QED BY <2>1, <2>2
<1> QED BY <1>1, <1>2 DEF Excused
(* The steps that leave the rules as they were, or add one.                *)
LEMMA LoadExplained ==
  ASSUME FiringInv, LoadNext
  PROVE  FiringInv'
<1>1. /\ rule \subseteq rule' /\ UNCHANGED <<edit, todo, firing, loose>>
      /\ UNCHANGED cache \/ (cache' = reload /\ rule' = rule)
  BY DEF LoadNext, CreateAlertRule, SetSetting, tables, runner, ghosts
<1>2. Shaped'
  BY <1>1 DEF FiringInv, Shaped, reload
<1>3. RulesKept
  BY <1>1 DEF RulesKept, Excused, Idle
<1>4. ASSUME NEW p, p \in Watched(rule) PROVE p \in Watched(rule')
  BY <1>1, <1>4 DEF Watched
<1>5. \A r \in cache'.rules : r \in rule' \/ r \in cache.rules
  BY <1>1 DEF reload
<1>6. Explained'
  BY <1>1, <1>3, <1>5, ExplainedStays DEF FiringInv
<1> QED BY <1>2, <1>6 DEF FiringInv

LEMMA CreateExplained ==
  ASSUME FiringInv, NEW e \in Editor, NEW b, handleCreateAlert(e, b)
  PROVE  FiringInv'
<1> DEFINE r == [op |-> "create", step |-> "list", id |-> rules + 1, value |-> {}]
<1>1. rule \subseteq rule' /\ UNCHANGED <<cache, todo, firing, loose>>
  BY DEF handleCreateAlert, CreateAlertRule, runner
<1>2. Moves(e, r) /\ Idle(e)
  BY SubmitMoves DEF handleCreateAlert, FiringInv
<1>3. IsRequest(r) /\ ~Holds(r)
  BY Requests DEF Holds
<1> HIDE DEF r
<1>4. Shaped'
  BY <1>1, <1>2, <1>3, MovesShaped DEF FiringInv, Shaped
<1>5. RulesKept
  BY <1>1, <1>2, ExcusesStay DEF RulesKept
<1>6. \A d \in Editor : Holds(edit'[d]) => Holds(edit[d]) /\ edit'[d] = edit[d]
  BY <1>2, <1>3 DEF Moves
<1>7. Explained'
  BY <1>1, <1>5, <1>6, ExplainedStays DEF FiringInv
<1> QED BY <1>4, <1>7 DEF FiringInv

LEMMA UpdateExplained ==
  ASSUME FiringInv, NEW e \in Editor, NEW id, NEW b, handleUpdateAlert(e, id, b)
  PROVE  FiringInv'
<1> DEFINE r == [op |-> "update", step |-> "list", id |-> id, value |-> {}]
<1>1. /\ \A x \in rule : x.id # id => x \in rule'
      /\ loose' = loose \cup {id} /\ UNCHANGED <<cache, todo, firing>>
  BY DEF handleUpdateAlert, UpdateAlertRule, WithId, runner
<1>2. Moves(e, r) /\ Idle(e)
  BY SubmitMoves DEF handleUpdateAlert, FiringInv
<1>3. IsRequest(r) /\ ~Holds(r)
  BY Requests DEF Holds
<1> HIDE DEF r
<1>4. Shaped'
  BY <1>1, <1>2, <1>3, MovesShaped DEF FiringInv, Shaped
<1>5. RulesKept
  <2>1. \A i : Excused(i) => Excused(i)'
    BY <1>1, <1>2, ExcusesStay
  <2>2. Excused(id)'
    BY <1>1 DEF Excused
  <2> QED BY <1>1, <2>1, <2>2 DEF RulesKept
<1>6. \A d \in Editor : Holds(edit'[d]) => Holds(edit[d]) /\ edit'[d] = edit[d]
  BY <1>2, <1>3 DEF Moves
<1>7. Explained'
  BY <1>1, <1>5, <1>6, ExplainedStays DEF FiringInv
<1> QED BY <1>4, <1>7 DEF FiringInv

(* The rule that goes is excused by the request that deletes it.           *)
LEMMA DeleteExplained ==
  ASSUME FiringInv, NEW e \in Editor, NEW id, handleDeleteAlert(e, id)
  PROVE  FiringInv'
<1> DEFINE r == [op |-> "delete", step |-> "list", id |-> id, value |-> {}]
<1>1. /\ \A x \in rule : x.id # id => x \in rule'
      /\ UNCHANGED <<cache, todo, firing, loose>>
  BY DEF handleDeleteAlert, DeleteAlertRule, runner
<1>2. Moves(e, r) /\ Idle(e)
  BY SubmitMoves DEF handleDeleteAlert, FiringInv
<1>3. /\ IsRequest(r) /\ ~Holds(r)
      /\ r.op = "delete" /\ r.step # "idle" /\ r.id = id
  BY Requests DEF Holds
<1> HIDE DEF r
<1>4. Shaped'
  BY <1>1, <1>2, <1>3, MovesShaped DEF FiringInv, Shaped
<1>5. RulesKept
  <2>1. \A i : Excused(i) => Excused(i)'
    BY <1>1, <1>2, ExcusesStay
  <2>2. Excused(id)'
    BY <1>2, <1>3 DEF Excused, Idle, Moves
  <2> QED BY <1>1, <2>1, <2>2 DEF RulesKept
<1>6. \A d \in Editor : Holds(edit'[d]) => Holds(edit[d]) /\ edit'[d] = edit[d]
  BY <1>2, <1>3 DEF Moves
<1>7. Explained'
  BY <1>1, <1>5, <1>6, ExplainedStays DEF FiringInv
<1> QED BY <1>4, <1>7 DEF FiringInv

LEMMA PutExplained ==
  ASSUME FiringInv, NEW e \in Editor, NEW key \in {"general", "notify"}, NEW v, handlePut(e, key, v)
  PROVE  FiringInv'
<1> DEFINE r == [op |-> key, step |-> "store", id |-> 0, value |-> {v}]
<1>1. UNCHANGED <<rule, cache, todo, firing, loose>>
  BY DEF handlePut, runner
<1>2. Moves(e, r) /\ Idle(e)
  BY SubmitMoves DEF handlePut, FiringInv
<1>3. IsRequest(r) /\ ~Holds(r)
  BY Requests DEF Holds, Part
<1> HIDE DEF r
<1>4. Shaped'
  BY <1>1, <1>2, <1>3, MovesShaped DEF FiringInv, Shaped
<1>5. RulesKept
  BY <1>1, <1>2, ExcusesStay DEF RulesKept
<1>6. \A d \in Editor : Holds(edit'[d]) => Holds(edit[d]) /\ edit'[d] = edit[d]
  BY <1>2, <1>3 DEF Moves
<1>7. Explained'
  BY <1>1, <1>5, <1>6, ExplainedStays DEF FiringInv
<1> QED BY <1>4, <1>7 DEF FiringInv

(* What is read is the table; a read that fails leaves the rule loose.     *)
LEMMA ListExplained ==
  ASSUME FiringInv, NEW e \in Editor, ListAlertRules(e)
  PROVE  FiringInv'
<1>1. UNCHANGED <<rule, cache, todo, firing>> /\ loose \subseteq loose'
  BY DEF ListAlertRules, tables, runner
<1>2. PICK r : /\ Moves(e, r) /\ IsRequest(r)
               /\ \/ r.step = "store" /\ r.op = edit[e].op /\ r.id = edit[e].id /\ r.value = rule
                  \/ r = NoEdit /\ edit[e].id \in loose'
  <2>1. CASE edit' = [edit EXCEPT ![e].step = "store", ![e].value = rule]
    <3> DEFINE r == [op |-> edit[e].op, step |-> "store", id |-> edit[e].id, value |-> rule]
    <3>1. edit[e] = [op |-> edit[e].op, step |-> edit[e].step, id |-> edit[e].id, value |-> edit[e].value]
          /\ DOMAIN edit = Editor
      BY DEF FiringInv, Shaped, IsRequest
    <3>2. edit'[e] = [[edit[e] EXCEPT !.step = "store"] EXCEPT !.value = rule]
      BY <2>1, <3>1
    <3>3. edit'[e] = r
      BY <3>1, <3>2
    <3>4. Moves(e, r)
      BY <2>1, <3>1, <3>3 DEF Moves
    <3> QED BY <3>4, Requests
  <2>2. CASE Done(e) /\ loose' = loose \cup {edit[e].id}
    BY <2>2, DoneMoves, Requests DEF FiringInv
  <2> QED BY <2>1, <2>2 DEF ListAlertRules
<1>3. Shaped'
  BY <1>1, <1>2, MovesShaped DEF FiringInv, Shaped
<1>4. RulesKept
  <2>1. \A i : Excused(i) => Excused(i)'
    BY <1>1, <1>2, ExcusesStay
  <2> QED BY <1>1, <2>1 DEF RulesKept
<1>5. \A d \in Editor \ {e} : edit'[d] = edit[d]
  BY <1>2 DEF Moves
<1>6. Holds(edit'[e]) => edit'[e].value = rule
  BY <1>2 DEF Moves, Holds, NoEdit
<1>7. \A d \in Editor : Holds(edit'[d]) =>
        \A x \in edit'[d].value : x \in rule' \/ (Holds(edit[d]) /\ x \in edit[d].value)
  BY <1>1, <1>5, <1>6
<1>8. Explained'
  BY <1>1, <1>4, <1>7, ExplainedStays DEF FiringInv
<1> QED BY <1>3, <1>8 DEF FiringInv

LEMMA StoreExplained ==
  ASSUME FiringInv, NEW e \in Editor, Store(e)
  PROVE  FiringInv'
<1>1. /\ UNCHANGED <<rule, todo, firing, loose>> /\ edit[e].step = "store"
      /\ cache' = [cache EXCEPT ![Part(edit[e].op)] = edit[e].value]
  BY DEF Store, Stored, tables, runner, ghosts
<1>2. PICK r : /\ Moves(e, r) /\ IsRequest(r) /\ ~Holds(r)
               /\ edit[e].op = "delete" => r.step = "forget" /\ r.op = "delete" /\ r.id = edit[e].id
  <2> DEFINE r == [op |-> edit[e].op, step |-> "forget", id |-> edit[e].id, value |-> edit[e].value]
  <2>1. CASE edit[e].op = "delete"
    <3>1. Moves(e, r)
      BY <2>1, GoesMoves DEF Store, FiringInv
    <3>2. IsRequest(r) /\ ~Holds(r) /\ r.step = "forget" /\ r.op = edit[e].op /\ r.id = edit[e].id
      BY Requests DEF Holds
    <3> HIDE DEF r
    <3> QED BY <2>1, <3>1, <3>2
  <2>2. CASE edit[e].op # "delete"
    BY <2>2, DoneMoves, Requests DEF Store, FiringInv, Holds, NoEdit
  <2> QED BY <2>1, <2>2
<1>3. Shaped' /\ (cache'.rules = cache.rules \/ (Holds(edit[e]) /\ cache'.rules = edit[e].value))
  <2>1. cache = [general |-> cache.general, notify |-> cache.notify, rules |-> cache.rules]
    BY DEF FiringInv, Shaped
  <2>2. Part(edit[e].op) \in {"general", "notify", "rules"}
    BY DEF Part
  <2>3. /\ cache' = [general |-> cache'.general, notify |-> cache'.notify, rules |-> cache'.rules]
        /\ Part(edit[e].op) = "rules" => cache'.rules = edit[e].value
        /\ Part(edit[e].op) # "rules" => cache'.rules = cache.rules
    BY <1>1, <2>1, <2>2
  <2> QED BY <1>1, <1>2, <2>3, MovesShaped DEF FiringInv, Shaped, Holds
<1>4. RulesKept
  <2>1. \A i : Excused(i) => Excused(i)'
    BY <1>1, <1>2, ExcusesStay
  <2> QED BY <1>1, <2>1 DEF RulesKept
<1>5. \A d \in Editor : Holds(edit'[d]) => Holds(edit[d]) /\ edit'[d] = edit[d]
  BY <1>2 DEF Moves
<1>6. \A x \in cache'.rules : x \in rule' \/ x \in cache.rules
        \/ \E d \in Editor : Holds(edit[d]) /\ x \in edit[d].value
  BY <1>3
<1>7. Explained'
  BY <1>1, <1>4, <1>5, <1>6, ExplainedStays DEF FiringInv
<1> QED BY <1>3, <1>7 DEF FiringInv

(* The engine forgets the rule: nothing of it fires, and nobody who works  *)
(* on it still goes without an excuse.                                     *)
LEMMA ForgetExplained ==
  ASSUME FiringInv, NEW e \in Editor, ForgetRule(e)
  PROVE  FiringInv'
<1>0. PICK id : id = edit[e].id
  OBVIOUS
<1>1. /\ UNCHANGED <<rule, cache, todo>> /\ loose \subseteq loose'
      /\ firing' = {p \in firing : p[1] # id}
      /\ InUse(id) => id \in loose'
      /\ edit[e].step = "forget"
  BY <1>0 DEF ForgetRule, Forget, tables
<1>2. Moves(e, NoEdit)
  BY DoneMoves DEF ForgetRule, FiringInv
<1>3. Shaped'
  BY <1>1, <1>2, Requests, MovesShaped DEF FiringInv, Shaped
<1>4. \A i : i # id /\ Excused(i) => Excused(i)'
  BY <1>0, <1>1, <1>2 DEF Excused, Moves, Idle
<1>5. id \in loose' => Excused(id)'
  BY DEF Excused
<1>6. \A d \in Editor : Holds(edit'[d]) => Holds(edit[d]) /\ edit'[d] = edit[d]
  BY <1>2 DEF Moves, Holds, NoEdit
<1>7. ASSUME NEW p \in firing' \cup todo' PROVE p \in Watched(rule') \/ Excused(p[1])'
  <2>1. p \in Watched(rule) \/ Excused(p[1])
    BY <1>1 DEF FiringInv, Explained
  <2>2. p[1] = id => p \in todo
    BY <1>1
  <2>3. p[1] = id => id \in loose'
    BY <1>1, <2>2 DEF InUse
  <2> QED BY <1>1, <1>4, <1>5, <2>1, <2>3
<1>8. ASSUME NEW r \in cache'.rules PROVE r \in rule' \/ Excused(r.id)'
  <2>1. r \in rule \/ Excused(r.id)
    BY <1>1 DEF FiringInv, Explained
  <2>2. r.id = id => id \in loose'
    BY <1>1 DEF InUse
  <2> QED BY <1>1, <1>4, <1>5, <2>1, <2>2
<1>9. ASSUME NEW d \in Editor, Holds(edit'[d]), NEW r \in edit'[d].value
      PROVE  r \in rule' \/ Excused(r.id)'
  <2>1. Holds(edit[d]) /\ r \in edit[d].value
    BY <1>6, <1>9
  <2>2. r \in rule \/ Excused(r.id)
    BY <2>1 DEF FiringInv, Explained
  <2>3. r.id = id => id \in loose'
    <3>1. d \in {x \in Editor : edit[x].step = "store" /\ Part(edit[x].op) = "rules"}
      BY <2>1 DEF Holds
    <3>2. r.id = id => InUse(id)
      BY <2>1, <3>1 DEF InUse
    <3> QED BY <1>1, <3>2
  <2> QED BY <1>1, <1>4, <1>5, <2>2, <2>3
<1>10. Explained'
  BY <1>7, <1>8, <1>9 DEF Explained, Holds
<1> QED BY <1>3, <1>10 DEF FiringInv

(* The runner works on what is cached.                                     *)
LEMMA RunExplained ==
  ASSUME FiringInv, evaluate \/ \E p \in todo : evalRule(p)
  PROVE  FiringInv'
<1>1. UNCHANGED <<rule, cache, edit, loose>>
  BY DEF evaluate, evalRule, tables, service, ghosts
<1>2. Shaped'
  BY <1>1 DEF FiringInv, Shaped
<1>3. RulesKept
  BY <1>1 DEF RulesKept, Excused, Idle
<1>4. CASE \E p \in todo : evalRule(p)
  <2>1. firing' \cup todo' \subseteq firing \cup todo
    BY <1>4 DEF evalRule
  <2>2. Explained'
    BY <1>1, <1>3, <2>1, ExplainedStays DEF FiringInv
  <2> QED BY <1>2, <2>2 DEF FiringInv
<1>5. CASE evaluate
  <2>1. todo' = Watched(cache.rules) /\ firing' = firing
    BY <1>5 DEF evaluate
  <2>2. ASSUME NEW p \in todo' PROVE p \in Watched(rule') \/ Excused(p[1])'
    <3>1. PICK r \in cache.rules : r.enabled /\ \E s \in About(r) : p = <<r.id, s>>
      BY <2>1, WatchedFacts
    <3>2. p[1] = r.id
      BY <3>1
    <3>3. CASE r \in rule
      BY <1>1, <3>1, <3>3 DEF Watched
    <3>4. CASE Excused(r.id)
      BY <1>3, <3>2, <3>4 DEF RulesKept
    <3> QED BY <3>3, <3>4 DEF FiringInv, Explained
  <2>3. ASSUME NEW p \in firing' PROVE p \in Watched(rule') \/ Excused(p[1])'
    BY <1>3, <2>1, SubjectsKept DEF FiringInv, Explained
  <2>4. Explained'
    BY <1>1, <1>3, <2>2, <2>3 DEF FiringInv, Explained, RulesKept
  <2> QED BY <1>2, <2>4 DEF FiringInv
<1> QED BY <1>4, <1>5

(* A restart loses all of it.                                              *)
LEMMA RestartExplained ==
  ASSUME SettingsRestart
  PROVE  FiringInv'
<1>1. /\ cache' = Empty /\ edit' = [e \in Editor |-> NoEdit] /\ todo' = {} /\ firing' = {}
  BY DEF SettingsRestart
<1>2. Shaped'
  BY <1>1, Requests DEF Shaped, Empty
<1>3. Explained'
  BY <1>1 DEF Explained, Empty, Holds, NoEdit
<1> QED BY <1>2, <1>3 DEF FiringInv

LEMMA FiringInitially == Init => FiringInv
<1> SUFFICES ASSUME Init PROVE FiringInv
  OBVIOUS
<1>1. /\ cache = Empty /\ edit = [e \in Editor |-> NoEdit] /\ todo = {} /\ firing = {}
  BY DEF Init, SettingsInit
<1>2. Shaped
  BY <1>1, Requests DEF Shaped, Empty
<1>3. Explained
  BY <1>1 DEF Explained, Empty, Holds, NoEdit
<1> QED BY <1>2, <1>3 DEF FiringInv

LEMMA ServeExplained ==
  ASSUME FiringInv, SettingsServe
  PROVE  FiringInv'
<1>1. ASSUME NEW e \in Editor,
             \/ \E b \in Bodies : handleCreateAlert(e, b) \/ \E id \in Edited : handleUpdateAlert(e, id, b)
             \/ \E id \in Edited : handleDeleteAlert(e, id)
      PROVE  FiringInv'
  BY <1>1, CreateExplained, UpdateExplained, DeleteExplained
<1>2. ASSUME NEW e \in Editor,
             \/ \E g \in Generals : handlePut(e, "general", g)
             \/ \E n \in Notifies : handlePut(e, "notify", n)
      PROVE  FiringInv'
  BY <1>2, PutExplained
<1>3. ASSUME NEW e \in Editor, ListAlertRules(e) \/ Store(e) \/ ForgetRule(e) PROVE FiringInv'
  BY <1>3, ListExplained, StoreExplained, ForgetExplained
<1>4. CASE (\E c \in check : DeleteCheckConfig(c)) \/ \E p \in peer : DeletePeer(p)
  <2>1. UNCHANGED <<rule, cache, edit, todo, firing, loose>>
    BY <1>4 DEF DeleteCheckConfig, DeletePeer, service, runner
  <2> QED BY <2>1 DEF FiringInv, Shaped, Explained, Excused, Idle
<1> QED BY <1>1, <1>2, <1>3, <1>4 DEF SettingsServe

LEMMA FiringInductive == FiringInv /\ [Next]_vars => FiringInv'
<1> SUFFICES ASSUME FiringInv, [SettingsStep]_settingsVars PROVE FiringInv'
  BY StepsOfSettings
<1>1. CASE UNCHANGED settingsVars
  BY <1>1 DEF settingsVars, tables, service, runner, ghosts, FiringInv, Shaped, Explained, Excused, Idle
<1>2. CASE SettingsRun
  BY <1>2, LoadExplained, RunExplained DEF SettingsRun
<1> QED BY <1>1, <1>2, ServeExplained, RestartExplained DEF SettingsStep

(* Whatever requests, passes, failures and restarts interleave: an alert   *)
(* is listed as firing only for a rule that is there, enabled and about    *)
(* its subject, but for a rule that was updated, or deleted while somebody *)
(* still worked on it (handleDeleteAlert, refreshAlertRules, Forget).      *)
THEOREM FiringAlertsAreExplained == Spec => []FiringExplained
<1>1. FiringInv => FiringExplained
  BY DEF FiringInv, Explained, Excused, FiringExplained, NoEdits
<1> QED BY FiringInitially, FiringInductive, <1>1, PTL DEF Spec
---------------------------------------------------------------------------
(* A part of the cache on which no edits overlapped: at most one request   *)
(* works on it, and what it brings, or has brought, is what the table      *)
(* holds; with no request at work the cache is the table.                  *)
Parts == {"general", "notify", "rules"}
Table(part) == IF part = "rules" THEN rule ELSE {setting[part]}
Works(e, part) == ~Idle(e) /\ Part(edit[e].op) = part
Brings(r, part, held) ==
  /\ part # "rules" => r.step = "store"
  /\ r.step = "store" => r.value = Table(part)
  /\ r.step = "forget" => held = Table(part)
Follows(part) ==
  /\ \A d, e \in Editor : Works(d, part) /\ Works(e, part) => d = e
  /\ \A e \in Editor : Works(e, part) => Brings(edit[e], part, cache[part])
  /\ (\A e \in Editor : ~Works(e, part)) => cache[part] = Table(part)
CacheInv == Serving => \A part \in Parts \ stale : Follows(part)

(* A request moves on; other parts than its own are as they were.          *)
LEMMA OtherFollows ==
  ASSUME NEW e \in Editor, NEW r, Moves(e, r), NEW part, Follows(part),
         Idle(e) \/ Part(edit[e].op) # part, r.step = "idle" \/ Part(r.op) # part,
         UNCHANGED <<cache[part], Table(part)>>
  PROVE  Follows(part)'
<1>1. \A d \in Editor \ {e} : edit'[d] = edit[d]
  BY DEF Moves
<1>2. ~Works(e, part) /\ ~Works(e, part)'
  BY DEF Works, Idle, Moves
<1>3. \A d \in Editor : Works(d, part)' <=> Works(d, part)
  BY <1>1, <1>2 DEF Works, Idle
<1>4. \A d, f \in Editor : Works(d, part)' /\ Works(f, part)' => d = f
  BY <1>3 DEF Follows
<1>5. ASSUME NEW d \in Editor, Works(d, part)' PROVE Brings(edit[d], part, cache[part])'
  <2>1. d # e /\ Brings(edit[d], part, cache[part])
    BY <1>2, <1>3, <1>5 DEF Follows
  <2>2. edit'[d] = edit[d]
    BY <1>1, <2>1
  <2> QED BY <2>1, <2>2 DEF Brings
<1>6. (\A d \in Editor : ~Works(d, part)') => cache'[part] = Table(part)'
  BY <1>3 DEF Follows
<1> QED BY <1>4, <1>5, <1>6 DEF Follows

(* The only request at work on a part.                                     *)
LEMMA SoleFollows ==
  ASSUME NEW e \in Editor, NEW r, Moves(e, r), NEW part,
         \A d \in Editor \ {e} : ~Works(d, part),
         r.step = "idle" => cache'[part] = Table(part)',
         r.step # "idle" => Part(r.op) = part /\ (part # "rules" => r.step = "store")
           /\ (r.step = "store" => r.value = Table(part)')
           /\ (r.step = "forget" => cache'[part] = Table(part)')
  PROVE  Follows(part)'
<1>1. \A d \in Editor \ {e} : ~Works(d, part)'
  BY DEF Moves, Works, Idle
<1>2. Works(e, part)' <=> r.step # "idle"
  BY DEF Moves, Works, Idle
<1>3. r.step # "idle" => Brings(edit[e], part, cache[part])'
  BY DEF Moves, Brings
<1> QED BY <1>1, <1>2, <1>3 DEF Follows

(* Nobody moves.                                                           *)
LEMMA SameFollows ==
  ASSUME UNCHANGED <<edit, cache>>, NEW part, Follows(part), UNCHANGED Table(part)
  PROVE  Follows(part)'
<1>1. \A d \in Editor : (Works(d, part)' <=> Works(d, part))
  BY DEF Works, Idle
<1>2. \A d \in Editor : Brings(edit[d], part, cache[part]) => Brings(edit[d], part, cache[part])'
  BY DEF Brings
<1> QED BY <1>1, <1>2 DEF Follows

(* A request that is let in: if others work on the part, it is stale.      *)
LEMMA SubmitFollows ==
  ASSUME Shaped, CacheInv, NEW e \in Editor, NEW op, NEW step, NEW id, NEW value,
         Submit(e, op, step, id, value), step # "idle", UNCHANGED <<boot, cache>>,
         Part(op) # "rules" => step = "store",
         step = "store" => value = Table(Part(op))',
         step # "forget",
         \A part \in Parts : part # Part(op) => UNCHANGED Table(part)
  PROVE  CacheInv'
<1> DEFINE r == [op |-> op, step |-> step, id |-> id, value |-> value]
<1>1. Moves(e, r) /\ Idle(e) /\ Serving
  BY SubmitMoves DEF Submit
<1>2. r.op = op /\ r.step = step /\ r.value = value
  OBVIOUS
<1> HIDE DEF r
<1>3. stale' = Touched(Part(op))
  BY DEF Submit
<1>4. ASSUME NEW part \in Parts \ stale' PROVE Follows(part)'
  <2>1. CASE part = Part(op)
    <3>1. \A d \in Editor : ~Works(d, part)
      BY <1>3, <1>4, <2>1 DEF Touched, Works
    <3> QED BY <1>1, <1>2, <2>1, <3>1, SoleFollows
  <2>2. CASE part # Part(op)
    <3>1. part \notin stale
      BY <1>3, <1>4, <2>2 DEF Touched
    <3>2. Follows(part) /\ UNCHANGED <<cache[part], Table(part)>>
      BY <1>1, <1>4, <2>2, <3>1 DEF CacheInv
    <3> QED BY <1>1, <1>2, <2>2, <3>2, OtherFollows
  <2> QED BY <2>1, <2>2
<1> QED BY <1>4 DEF CacheInv

LEMMA RuleEditsFollow ==
  ASSUME Shaped, BootInv, CacheInv, NEW e \in Editor, NEW b, NEW id,
         handleCreateAlert(e, b) \/ handleUpdateAlert(e, id, b) \/ handleDeleteAlert(e, id)
  PROVE  CacheInv'
<1>1. PICK op \in {"create", "update", "delete"} :
        \E i : Submit(e, op, "list", i, {}) /\ UNCHANGED <<boot, cache, setting>>
  BY DEF handleCreateAlert, handleUpdateAlert, handleDeleteAlert
<1>2. PICK i : Submit(e, op, "list", i, {}) /\ UNCHANGED <<boot, cache, setting>>
  BY <1>1
<1>3. Part(op) = "rules"
  BY <1>1 DEF Part
<1>4. \A part \in Parts : part # Part(op) => UNCHANGED Table(part)
  BY <1>2, <1>3 DEF Table
<1> QED BY <1>2, <1>3, <1>4, SubmitFollows

LEMMA PutFollows ==
  ASSUME Shaped, BootInv, CacheInv, NEW e \in Editor, NEW key \in {"general", "notify"}, NEW v,
         handlePut(e, key, v)
  PROVE  CacheInv'
<1>1. /\ SetSetting(key, v) /\ Submit(e, key, "store", 0, {v}) /\ UNCHANGED <<boot, cache, rule>>
  BY DEF handlePut
<1>2. Serving
  BY <1>1 DEF Submit
<1>3. "general" \in DOMAIN setting /\ "notify" \in DOMAIN setting
  BY <1>2, ServingSeeded
<1>4. Part(key) = key
  BY DEF Part
<1>5. \A k \in {"general", "notify"} : setting'[k] = IF k = key THEN v ELSE setting[k]
  BY <1>1, <1>3 DEF SetSetting
<1>6. Table(key)' = {v}
  BY <1>5 DEF Table
<1>7. ASSUME NEW part \in Parts, part # key PROVE UNCHANGED Table(part)
  BY <1>1, <1>5, <1>7 DEF Table, Parts
<1> QED BY <1>1, <1>4, <1>6, <1>7, SubmitFollows

(* Rules are read as they are.                                             *)
LEMMA ListFollows ==
  ASSUME Shaped, BootInv, CacheInv, NEW e \in Editor, ListAlertRules(e)
  PROVE  CacheInv'
<1>1. /\ edit[e].step = "list" /\ UNCHANGED <<tables, boot, cache>>
  BY DEF ListAlertRules
<1>2. Serving /\ ~Idle(e)
  BY <1>1 DEF BootInv, NoEdits, Idle
<1>3. PICK r : /\ Moves(e, r)
               /\ \/ r.step = "store" /\ r.op = edit[e].op /\ r.value = rule /\ stale' = stale
                  \/ r.step = "idle" /\ stale' = stale \cup {"rules"}
  <2>1. CASE edit' = [edit EXCEPT ![e].step = "store", ![e].value = rule] /\ UNCHANGED stale
    <3> DEFINE r == [op |-> edit[e].op, step |-> "store", id |-> edit[e].id, value |-> rule]
    <3>1. edit[e] = [op |-> edit[e].op, step |-> edit[e].step, id |-> edit[e].id, value |-> edit[e].value]
          /\ DOMAIN edit = Editor
      BY DEF Shaped, IsRequest
    <3>2. edit'[e] = [[edit[e] EXCEPT !.step = "store"] EXCEPT !.value = rule]
      BY <2>1, <3>1
    <3>3. edit'[e] = r
      BY <3>1, <3>2
    <3>4. Moves(e, r)
      BY <2>1, <3>1, <3>3 DEF Moves
    <3> QED BY <2>1, <3>4
  <2>2. CASE Done(e) /\ stale' = stale \cup {"rules"}
    BY <2>2, DoneMoves DEF NoEdit
  <2> QED BY <2>1, <2>2 DEF ListAlertRules
<1>4. \A part : UNCHANGED <<cache[part], Table(part)>>
  BY <1>1 DEF Table, tables
<1>5. ASSUME NEW part \in Parts \ stale' PROVE Follows(part)'
  <2>1. part \notin stale /\ Follows(part)
    BY <1>2, <1>3, <1>5 DEF CacheInv
  <2>2. CASE Part(edit[e].op) # part
    BY <1>3, <1>4, <2>1, <2>2, OtherFollows
  <2>3. CASE Part(edit[e].op) = part
    <3>1. Works(e, part)
      BY <1>2, <2>3 DEF Works
    <3>2. \A d \in Editor \ {e} : ~Works(d, part)
      BY <2>1, <3>1 DEF Follows
    <3>3. part = "rules"
      BY <1>1, <2>1, <3>1 DEF Follows, Brings
    <3>4. r.step = "store" /\ r.op = edit[e].op /\ r.value = Table(part)'
      BY <1>1, <1>3, <1>5, <3>3 DEF Table, tables
    <3> QED BY <1>3, <2>3, <3>2, <3>3, <3>4, SoleFollows
  <2> QED BY <2>2, <2>3
<1> QED BY <1>5 DEF CacheInv

LEMMA StoreFollows ==
  ASSUME Shaped, BootInv, CacheInv, NEW e \in Editor, Store(e)
  PROVE  CacheInv'
<1>1. /\ edit[e].step = "store" /\ UNCHANGED <<tables, boot, stale>>
      /\ cache' = [cache EXCEPT ![Part(edit[e].op)] = edit[e].value]
  BY DEF Store, Stored, ghosts
<1>2. Serving /\ ~Idle(e)
  BY <1>1 DEF BootInv, NoEdits, Idle
<1>3. PICK r : Moves(e, r) /\ (r.step = "idle" \/ (r.step = "forget" /\ r.op = edit[e].op))
               /\ (r.step = "forget" => edit[e].op = "delete")
  <2>1. CASE edit[e].op = "delete"
    BY <2>1, GoesMoves DEF Store
  <2>2. CASE edit[e].op # "delete"
    BY <2>2, DoneMoves DEF Store, NoEdit
  <2> QED BY <2>1, <2>2
<1>4. DOMAIN cache = Parts
  BY DEF Shaped, Parts
<1>5. \A part \in Parts : UNCHANGED Table(part)
  BY <1>1 DEF Table, tables
<1>6. ASSUME NEW part \in Parts \ stale' PROVE Follows(part)'
  <2>1. Follows(part)
    BY <1>1, <1>2, <1>6 DEF CacheInv
  <2>2. CASE Part(edit[e].op) # part
    <3>1. UNCHANGED <<cache[part], Table(part)>>
      BY <1>1, <1>4, <1>5, <2>2
    <3> QED BY <1>3, <2>1, <2>2, <3>1, OtherFollows
  <2>3. CASE Part(edit[e].op) = part
    <3>1. Works(e, part)
      BY <1>2, <2>3 DEF Works
    <3>2. (\A d \in Editor \ {e} : ~Works(d, part)) /\ edit[e].value = Table(part)
      BY <1>1, <2>1, <3>1 DEF Follows, Brings
    <3>3. cache'[part] = Table(part)'
      BY <1>1, <1>4, <1>5, <2>3, <3>2
    <3>4. r.step = "forget" => part = "rules"
      BY <1>3, <2>3 DEF Part
    <3> QED BY <1>3, <2>3, <3>2, <3>3, <3>4, SoleFollows
  <2> QED BY <2>2, <2>3
<1> QED BY <1>6 DEF CacheInv

LEMMA ForgetFollows ==
  ASSUME Shaped, BootInv, CacheInv, NEW e \in Editor, ForgetRule(e)
  PROVE  CacheInv'
<1>1. /\ edit[e].step = "forget" /\ UNCHANGED <<tables, boot, cache, stale>>
  BY DEF ForgetRule
<1>2. Serving /\ ~Idle(e)
  BY <1>1 DEF BootInv, NoEdits, Idle
<1>3. Moves(e, NoEdit) /\ NoEdit.step = "idle"
  BY DoneMoves DEF ForgetRule, NoEdit
<1>4. \A part : UNCHANGED <<cache[part], Table(part)>>
  BY <1>1 DEF Table, tables
<1>5. ASSUME NEW part \in Parts \ stale' PROVE Follows(part)'
  <2>1. Follows(part)
    BY <1>1, <1>2, <1>5 DEF CacheInv
  <2>2. CASE Part(edit[e].op) # part
    BY <1>3, <1>4, <2>1, <2>2, OtherFollows
  <2>3. CASE Part(edit[e].op) = part
    <3>1. Works(e, part)
      BY <1>2, <2>3 DEF Works
    <3>2. (\A d \in Editor \ {e} : ~Works(d, part)) /\ cache[part] = Table(part)
      BY <1>1, <2>1, <3>1 DEF Follows, Brings
    <3> QED BY <1>3, <1>4, <3>2, SoleFollows
  <2> QED BY <2>2, <2>3
<1> QED BY <1>5 DEF CacheInv

(* The last statement of a start fills the cache.                          *)
LEMMA LoadFollows ==
  ASSUME Shaped, BootInv, CacheInv, LoadNext
  PROVE  CacheInv'
<1>1. SUFFICES ASSUME Serving' PROVE \A part \in Parts : Follows(part)'
  BY DEF CacheInv
<1>2. /\ boot # <<>> /\ boot' = Tail(boot) /\ ~Serving /\ UNCHANGED edit
  BY DEF LoadNext, Serving
<1>3. Len(boot) \in Nat /\ Len(boot) > 0 /\ Head(boot) = boot[1] /\ Len(boot') = Len(boot) - 1
  BY <1>2, HeadTailProperties, EmptySeq, LenProperties DEF BootInv
<1>4. Len(boot) = 1
  BY <1>1, <1>3 DEF Serving
<1>5. Head(boot).op = "reload"
  BY <1>2, <1>3, <1>4 DEF BootInv, Ends, Reload
<1>6. cache' = reload /\ UNCHANGED tables
  BY <1>5 DEF LoadNext
<1>7. \A d \in Editor : Idle(d)'
  BY <1>2 DEF BootInv, NoEdits, Idle
<1>8. ASSUME NEW part \in Parts PROVE cache'[part] = Table(part)'
  BY <1>6, <1>8 DEF reload, Table, tables, Parts
<1> QED BY <1>7, <1>8 DEF Follows, Works

LEMMA CacheInductive == FiringInv /\ BootInv /\ BootInv' /\ CacheInv /\ [Next]_vars => CacheInv'
<1> SUFFICES ASSUME Shaped, BootInv, BootInv', CacheInv, [SettingsStep]_settingsVars PROVE CacheInv'
  BY StepsOfSettings DEF FiringInv
<1>1. CASE UNCHANGED <<setting, rule, boot, cache, edit, stale>>
  <2>1. \A part : UNCHANGED Table(part)
    BY <1>1 DEF Table
  <2> QED BY <1>1, <2>1, SameFollows DEF CacheInv, Serving
<1>2. CASE SettingsServe
  <2>1. ASSUME NEW x, DeleteCheckConfig(x) \/ DeletePeer(x) PROVE CacheInv'
    BY <1>1, <2>1 DEF DeleteCheckConfig, DeletePeer, service
  <2> QED BY <1>2, <2>1, RuleEditsFollow, PutFollows, ListFollows, StoreFollows, ForgetFollows
       DEF SettingsServe
<1>3. CASE evaluate \/ \E p \in todo : evalRule(p)
  BY <1>1, <1>3 DEF evaluate, evalRule, tables, service, ghosts
<1>4. CASE SettingsRestart
  <2>1. boot' # <<>>
    BY <1>4, StartsFacts DEF SettingsRestart, Load, Starts, Reload
  <2> QED BY <2>1 DEF CacheInv, Serving
<1>5. CASE UNCHANGED settingsVars
  BY <1>1, <1>5 DEF settingsVars, tables, service, ghosts
<1> QED BY <1>2, <1>3, <1>4, <1>5, LoadFollows DEF SettingsStep, SettingsRun

(* With no edit under way the service answers what the tables hold, but    *)
(* for settings whose edits overlapped or could not be read back; until    *)
(* somebody edits those again, or the process restarts (Service.Reload,    *)
(* SetGeneral, SetNotify, refreshAlertRules).                              *)
THEOREM TheCacheIsCurrent == Spec => []CacheFollows
<1>1. Init => CacheInv
  <2> SUFFICES ASSUME Init PROVE ~Serving
    BY DEF CacheInv
  <2>1. boot = Starts(DOMAIN setting)
    BY DEF Init, SettingsInit, Load, Starts, Reload
  <2> QED BY <2>1, StartsFacts DEF Serving
<1>2. FiringInv /\ CacheInv => CacheFollows
  <2> SUFFICES ASSUME FiringInv, CacheInv, Serving, NoEdits, NEW part \in DOMAIN cache \ stale
               PROVE  cache[part] = reload[part]
    BY DEF CacheFollows
  <2>1. part \in Parts
    BY DEF FiringInv, Shaped, Parts
  <2>2. cache[part] = Table(part)
    BY <2>1 DEF CacheInv, Follows, Works, NoEdits
  <2> QED BY <2>1, <2>2 DEF Table, Parts, reload
<1>3. Spec => []FiringInv
  BY FiringInitially, FiringInductive, PTL DEF Spec
<1> QED BY Boots, CacheInductive, <1>1, <1>2, <1>3, PTL DEF Spec
---------------------------------------------------------------------------
(* Numbers of rules were given out: wherever a rule is held, observed or   *)
(* firing.                                                                 *)
Keys == {"initialized", "alerts_seeded", "general", "notify"}
Given(R) == \A r \in R : r.id \in 1..rules
Numbered ==
  /\ rules \in Nat /\ Given(rule)
  /\ \A r, s \in rule : r.id = s.id => r = s
  /\ \A p \in todo \cup firing : p[1] \in 1..rules
  /\ Given(cache.rules)
  /\ \A e \in Editor : Holds(edit[e]) => Given(edit[e].value)
StepsKnown == \A e \in Editor : edit[e].step \in {"idle", "list", "store", "forget"}
ShapesInv == DOMAIN setting \subseteq Keys /\ Numbered /\ StepsKnown

LEMMA NumberedStays ==
  ASSUME Numbered, rules' \in Nat, rules <= rules', Given(rule)',
         \A r, s \in rule' : r.id = s.id => r = s,
         \A p \in todo' \cup firing' : p \in todo \cup firing \/ \E r \in cache.rules : p[1] = r.id,
         \A r \in cache'.rules : r \in cache.rules \/ r \in rule'
           \/ \E e \in Editor : Holds(edit[e]) /\ r \in edit[e].value,
         \A e \in Editor : Holds(edit'[e]) =>
           \A r \in edit'[e].value : r \in rule' \/ (Holds(edit[e]) /\ r \in edit[e].value)
  PROVE  Numbered'
<1>1. \A i \in 1..rules : i \in 1..rules'
  BY DEF Numbered
<1>2. ASSUME NEW p \in todo' \cup firing' PROVE p[1] \in 1..rules'
  BY <1>1, <1>2 DEF Numbered, Given
<1>3. Given(cache.rules)'
  <2>1. ASSUME NEW r \in cache'.rules PROVE r.id \in 1..rules'
    <3>1. CASE r \in cache.rules
      BY <1>1, <3>1 DEF Numbered, Given
    <3>2. CASE r \in rule'
      BY <3>2 DEF Given
    <3>3. ASSUME NEW e \in Editor, Holds(edit[e]), r \in edit[e].value PROVE r.id \in 1..rules'
      BY <1>1, <3>3 DEF Numbered, Given
    <3> QED BY <2>1, <3>1, <3>2, <3>3
  <2> QED BY <2>1 DEF Given
<1>4. ASSUME NEW e \in Editor, Holds(edit'[e]), NEW r \in edit'[e].value PROVE r.id \in 1..rules'
  <2>1. CASE r \in rule'
    BY <2>1 DEF Given
  <2>2. CASE Holds(edit[e]) /\ r \in edit[e].value
    BY <1>1, <2>2 DEF Numbered, Given
  <2> QED BY <1>4, <2>1, <2>2
<1> QED BY <1>2, <1>3, <1>4 DEF Numbered, Given, Holds

(* The table of rules, one statement at a time.                            *)
LEMMA CreateNumbered ==
  ASSUME Numbered, NEW r, CreateAlertRule(r)
  PROVE  /\ rules' \in Nat /\ rules <= rules' /\ Given(rule)'
         /\ \A x, y \in rule' : x.id = y.id => x = y
<1> DEFINE n == WithId(r, rules + 1)
<1>1. n.id = rules + 1
  BY DEF WithId
<1>2. rule' = rule \cup {n} /\ rules' = rules + 1
  BY DEF CreateAlertRule
<1> HIDE DEF n
<1>3. \A x \in rule : x.id \in 1..rules /\ x.id # rules + 1
  BY DEF Numbered, Given
<1>4. rules \in Nat
  BY DEF Numbered
<1>5. Given(rule)'
  BY <1>1, <1>2, <1>3, <1>4 DEF Given
<1> QED BY <1>1, <1>2, <1>3, <1>4, <1>5 DEF Numbered

LEMMA UpdateNumbered ==
  ASSUME Numbered, NEW r, UpdateAlertRule(r), \E x \in rule : x.id = r.id, UNCHANGED rules
  PROVE  /\ rules' \in Nat /\ rules <= rules' /\ Given(rule)'
         /\ \A x, y \in rule' : x.id = y.id => x = y
BY DEF Numbered, Given, UpdateAlertRule

LEMMA SameNumbered ==
  ASSUME Numbered, UNCHANGED rules, rule' \subseteq rule
  PROVE  /\ rules' \in Nat /\ rules <= rules' /\ Given(rule)'
         /\ \A x, y \in rule' : x.id = y.id => x = y
BY DEF Numbered, Given

LEMMA LoadShapes ==
  ASSUME BootInv, ShapesInv, LoadNext
  PROVE  ShapesInv'
<1>1. UNCHANGED <<edit, todo, firing>>
  BY DEF LoadNext, runner
<1>2. PICK s \in Stmts : s = Head(boot)
  BY HeadTailProperties DEF LoadNext, Serving, BootInv
<1>3. s.op = "set" => s.key \in Keys
  <2>1. CASE s \in SeedStmts
    BY <2>1, SeedKinds DEF Keys
  <2>2. CASE s \in RuleStmts
    BY <2>2, RuleKinds
  <2> QED BY <2>1, <2>2 DEF Stmts, Put, Reload, Keys
<1>4. DOMAIN setting' \subseteq Keys
  BY <1>2, <1>3 DEF LoadNext, SetSetting, ShapesInv, tables
<1>5. /\ rules' \in Nat /\ rules <= rules' /\ Given(rule)'
      /\ \A x, y \in rule' : x.id = y.id => x = y
  <2>1. CASE UNCHANGED <<rule, rules>>
    BY <2>1, SameNumbered DEF ShapesInv
  <2>2. CASE CreateAlertRule(s.value)
    BY <2>2, CreateNumbered DEF ShapesInv
  <2> QED BY <1>2, <2>1, <2>2 DEF LoadNext, tables
<1>6. \A r \in cache'.rules : r \in cache.rules \/ r \in rule'
  BY DEF LoadNext, reload, tables
<1>7. \A e \in Editor : Holds(edit'[e]) => Holds(edit[e]) /\ edit'[e] = edit[e]
  BY <1>1
<1>8. Numbered'
  BY <1>1, <1>5, <1>6, <1>7, NumberedStays DEF ShapesInv
<1> QED BY <1>1, <1>4, <1>8 DEF ShapesInv, StepsKnown

(* What the steps of a request share.                                      *)
LEMMA RequestShapes ==
  ASSUME ShapesInv, NEW e \in Editor, NEW r, Moves(e, r), UNCHANGED <<cache, todo>>, firing' \subseteq firing,
         DOMAIN setting' \subseteq Keys,
         rules' \in Nat, rules <= rules', Given(rule)', \A x, y \in rule' : x.id = y.id => x = y,
         r.step \in {"idle", "list", "store", "forget"},
         Holds(r) => r.value = rule'
  PROVE  ShapesInv'
<1>1. StepsKnown'
  BY DEF Moves, ShapesInv, StepsKnown
<1>2. \A d \in Editor \ {e} : edit'[d] = edit[d]
  BY DEF Moves
<1>3. edit'[e] = r
  BY DEF Moves
<1>4. ASSUME NEW d \in Editor, Holds(edit'[d]), NEW x \in edit'[d].value
      PROVE  x \in rule' \/ (Holds(edit[d]) /\ x \in edit[d].value)
  BY <1>2, <1>3, <1>4
<1>5. Numbered'
  BY <1>4, NumberedStays DEF ShapesInv
<1> QED BY <1>1, <1>5 DEF ShapesInv

LEMMA SubmitShapes ==
  ASSUME Shaped, ShapesInv, NEW e \in Editor, NEW op, NEW step, NEW id, NEW value,
         Submit(e, op, step, id, value), UNCHANGED <<cache, todo, firing>>,
         DOMAIN setting' \subseteq Keys,
         rules' \in Nat, rules <= rules', Given(rule)', \A x, y \in rule' : x.id = y.id => x = y,
         step = "list" \/ (step = "store" /\ Part(op) # "rules")
  PROVE  ShapesInv'
<1> DEFINE r == [op |-> op, step |-> step, id |-> id, value |-> value]
<1>1. Moves(e, r)
  BY SubmitMoves
<1>2. r.op = op /\ r.step = step
  OBVIOUS
<1> HIDE DEF r
<1>3. ~Holds(r)
  BY <1>2 DEF Holds
<1> QED BY <1>1, <1>2, <1>3, RequestShapes

LEMMA ServeShapes ==
  ASSUME Shaped, ShapesInv, SettingsServe
  PROVE  ShapesInv'
<1>0. DOMAIN setting \subseteq Keys /\ Numbered
  BY DEF ShapesInv
<1>1. ASSUME NEW e \in Editor, NEW b, handleCreateAlert(e, b) PROVE ShapesInv'
  <2>1. /\ Submit(e, "create", "list", rules + 1, {}) /\ UNCHANGED <<setting, cache, todo, firing>>
        /\ CreateAlertRule(normalizeAlertRule(b))
    BY <1>1 DEF handleCreateAlert, runner
  <2> QED BY <1>0, <2>1, CreateNumbered, SubmitShapes
<1>2. ASSUME NEW e \in Editor, NEW id, NEW b, handleUpdateAlert(e, id, b) PROVE ShapesInv'
  <2>1. WithId(normalizeAlertRule(b), id).id = id
    BY DEF WithId
  <2>2. /\ Submit(e, "update", "list", id, {}) /\ UNCHANGED <<setting, rules, cache, todo, firing>>
        /\ UpdateAlertRule(WithId(normalizeAlertRule(b), id)) /\ \E x \in rule : x.id = id
    BY <1>2 DEF handleUpdateAlert, runner
  <2> QED BY <1>0, <2>1, <2>2, UpdateNumbered, SubmitShapes
<1>3. ASSUME NEW e \in Editor, NEW id, handleDeleteAlert(e, id) PROVE ShapesInv'
  <2>1. /\ Submit(e, "delete", "list", id, {}) /\ UNCHANGED <<setting, rules, cache, todo, firing>>
        /\ rule' \subseteq rule
    BY <1>3 DEF handleDeleteAlert, DeleteAlertRule, runner
  <2> QED BY <1>0, <2>1, SameNumbered, SubmitShapes
<1>4. ASSUME NEW e \in Editor, NEW key \in {"general", "notify"}, NEW v, handlePut(e, key, v) PROVE ShapesInv'
  <2>1. /\ Submit(e, key, "store", 0, {v}) /\ UNCHANGED <<rule, rules, cache, todo, firing>>
        /\ DOMAIN setting' \subseteq Keys
    BY <1>0, <1>4 DEF handlePut, SetSetting, runner, Keys
  <2>2. Part(key) # "rules"
    BY DEF Part
  <2> QED BY <1>0, <2>1, <2>2, SameNumbered, SubmitShapes
<1>5. ASSUME NEW e \in Editor, ListAlertRules(e) PROVE ShapesInv'
  <2>1. UNCHANGED <<setting, rule, rules, cache, todo, firing>>
    BY <1>5 DEF ListAlertRules, tables, runner
  <2>2. PICK r : Moves(e, r) /\ r.step \in {"idle", "store"} /\ (r.step = "store" => r.value = rule)
    <3>1. CASE edit' = [edit EXCEPT ![e].step = "store", ![e].value = rule]
      <4> DEFINE r == [op |-> edit[e].op, step |-> "store", id |-> edit[e].id, value |-> rule]
      <4>1. edit[e] = [op |-> edit[e].op, step |-> edit[e].step, id |-> edit[e].id, value |-> edit[e].value]
            /\ DOMAIN edit = Editor
        BY DEF Shaped, IsRequest
      <4>2. edit'[e] = [[edit[e] EXCEPT !.step = "store"] EXCEPT !.value = rule]
        BY <3>1, <4>1
      <4>3. edit'[e] = r
        BY <4>1, <4>2
      <4>4. Moves(e, r)
        BY <3>1, <4>1, <4>3 DEF Moves
      <4> QED BY <4>4
    <3>2. CASE Done(e)
      BY <3>2, DoneMoves DEF NoEdit
    <3> QED BY <1>5, <3>1, <3>2 DEF ListAlertRules
  <2> QED BY <1>0, <2>1, <2>2, SameNumbered, RequestShapes DEF Holds
<1>6. ASSUME NEW e \in Editor, Store(e) PROVE ShapesInv'
  <2>1. /\ UNCHANGED <<setting, rule, rules, todo, firing>> /\ edit[e].step = "store"
        /\ cache' = [cache EXCEPT ![Part(edit[e].op)] = edit[e].value]
    BY <1>6 DEF Store, Stored, tables, runner
  <2>2. PICK r : Moves(e, r) /\ r.step \in {"idle", "forget"}
    <3>1. CASE edit[e].op = "delete"
      <4>1. Moves(e, [op |-> edit[e].op, step |-> "forget", id |-> edit[e].id, value |-> edit[e].value])
        BY <1>6, <3>1, GoesMoves DEF Store
      <4> QED BY <4>1
    <3>2. CASE edit[e].op # "delete"
      BY <1>6, <3>2, DoneMoves DEF Store, NoEdit
    <3> QED BY <3>1, <3>2
  <2>3. cache'.rules = cache.rules \/ (Holds(edit[e]) /\ cache'.rules = edit[e].value)
    <3>1. cache = [general |-> cache.general, notify |-> cache.notify, rules |-> cache.rules]
      BY DEF Shaped
    <3>2. Part(edit[e].op) \in {"general", "notify", "rules"}
      BY DEF Part
    <3>3. /\ Part(edit[e].op) = "rules" => cache'.rules = edit[e].value
          /\ Part(edit[e].op) # "rules" => cache'.rules = cache.rules
      BY <2>1, <3>1, <3>2
    <3> QED BY <2>1, <3>3 DEF Holds
  <2>4. \A d \in Editor : Holds(edit'[d]) => Holds(edit[d]) /\ edit'[d] = edit[d]
    BY <2>2 DEF Moves, Holds
  <2>5. Numbered'
    BY <1>0, <2>1, <2>3, <2>4, SameNumbered, NumberedStays
  <2>6. StepsKnown'
    BY <2>2 DEF Moves, ShapesInv, StepsKnown
  <2> QED BY <1>0, <2>1, <2>5, <2>6 DEF ShapesInv
<1>7. ASSUME NEW e \in Editor, ForgetRule(e) PROVE ShapesInv'
  <2>1. UNCHANGED <<setting, rule, rules, cache, todo>> /\ firing' \subseteq firing
    BY <1>7 DEF ForgetRule, Forget, tables
  <2>2. Moves(e, NoEdit) /\ NoEdit.step = "idle" /\ ~Holds(NoEdit)
    BY <1>7, DoneMoves DEF ForgetRule, NoEdit, Holds
  <2> QED BY <1>0, <2>1, <2>2, SameNumbered, RequestShapes
<1>8. ASSUME NEW x, DeleteCheckConfig(x) \/ DeletePeer(x) PROVE ShapesInv'
  <2>1. UNCHANGED <<setting, rule, rules, cache, edit, todo, firing>>
    BY <1>8 DEF DeleteCheckConfig, DeletePeer, service, runner
  <2> QED BY <2>1 DEF ShapesInv, Numbered, Given, Holds, StepsKnown
<1> QED BY <1>1, <1>2, <1>3, <1>4, <1>5, <1>6, <1>7, <1>8 DEF SettingsServe

LEMMA ShapesInductive == FiringInv /\ BootInv /\ ShapesInv /\ [Next]_vars => ShapesInv'
<1> SUFFICES ASSUME Shaped, BootInv, ShapesInv, [SettingsStep]_settingsVars PROVE ShapesInv'
  BY StepsOfSettings DEF FiringInv
<1>1. CASE evaluate \/ \E p \in todo : evalRule(p)
  <2>1. UNCHANGED <<setting, rule, rules, cache, edit>>
    BY <1>1 DEF evaluate, evalRule, tables, service
  <2>2. ASSUME NEW p \in todo' \cup firing'
        PROVE  p \in todo \cup firing \/ \E r \in cache.rules : p[1] = r.id
    <3>1. CASE \E q \in todo : evalRule(q)
      BY <2>2, <3>1 DEF evalRule
    <3>2. CASE evaluate
      <4>1. p \in firing \/ p \in Watched(cache.rules)
        BY <2>2, <3>2 DEF evaluate
      <4>2. CASE p \in Watched(cache.rules)
        <5>1. PICK r \in cache.rules : r.enabled /\ \E s \in About(r) : p = <<r.id, s>>
          BY <4>2, WatchedFacts
        <5> QED BY <5>1
      <4> QED BY <4>1, <4>2
    <3> QED BY <1>1, <3>1, <3>2
  <2>3. Numbered'
    BY <2>1, <2>2, SameNumbered, NumberedStays DEF ShapesInv
  <2> QED BY <2>1, <2>3 DEF ShapesInv, StepsKnown
<1>2. CASE SettingsRestart
  <2>1. /\ UNCHANGED <<setting, rule, rules>> /\ cache' = Empty /\ edit' = [e \in Editor |-> NoEdit]
        /\ todo' = {} /\ firing' = {}
    BY <1>2 DEF SettingsRestart, tables
  <2>2. cache'.rules = {} /\ StepsKnown' /\ \A e \in Editor : ~Holds(edit'[e])
    BY <2>1 DEF Empty, StepsKnown, NoEdit, Holds
  <2>3. Numbered'
    BY <2>1, <2>2, SameNumbered, NumberedStays DEF ShapesInv
  <2> QED BY <2>1, <2>2, <2>3 DEF ShapesInv
<1>3. CASE UNCHANGED settingsVars
  <2>1. UNCHANGED <<setting, rule, rules, cache, edit, todo, firing>>
    BY <1>3 DEF settingsVars, tables, service, runner
  <2> QED BY <2>1 DEF ShapesInv, Numbered, Given, Holds, StepsKnown
<1> QED BY <1>1, <1>2, <1>3, LoadShapes, ServeShapes DEF SettingsStep, SettingsRun

LEMMA ShapesInitially == Init => ShapesInv
<1> SUFFICES ASSUME Init PROVE ShapesInv
  OBVIOUS
<1>1. /\ rule = {} /\ rules = 0 /\ cache = Empty /\ edit = [e \in Editor |-> NoEdit]
      /\ todo = {} /\ firing = {}
  BY DEF Init, SettingsInit
<1>2. DOMAIN setting \subseteq Keys
  <2>1. CASE setting = <<>>
    BY <2>1
  <2>2. CASE setting = [initialized |-> "1", general |-> Seconds(Config.general), notify |-> Config.notify]
    BY <2>2 DEF Keys
  <2> QED BY <2>1, <2>2 DEF Init, SettingsInit
<1>3. cache.rules = {} /\ StepsKnown /\ \A e \in Editor : ~Holds(edit[e])
  BY <1>1 DEF Empty, StepsKnown, NoEdit, Holds
<1> QED BY <1>1, <1>2, <1>3 DEF ShapesInv, Numbered, Given

(* Events are counted one at a time, up to the bound. *)
Counted == events \in 0..MaxEvents
LEMMA EventsCounted == Counted /\ [Next]_vars => Counted'
<1> SUFFICES ASSUME Counted, [Next]_vars PROVE events' = events \/ Spent
  BY AccountsAssumption DEF Spent, Counted
<1>1. CASE SettingsServe
  <2>1. ASSUME NEW e \in Editor, NEW op, NEW step, NEW id, NEW value, Submit(e, op, step, id, value)
        PROVE  Spent
    BY <2>1 DEF Submit, EditSpent
  <2>2. ASSUME NEW e \in Editor, NEW b, NEW id,
               handleCreateAlert(e, b) \/ handleUpdateAlert(e, id, b) \/ handleDeleteAlert(e, id)
        PROVE  Spent
    BY <2>1, <2>2 DEF handleCreateAlert, handleUpdateAlert, handleDeleteAlert
  <2>3. ASSUME NEW e \in Editor, NEW key, NEW v, handlePut(e, key, v) PROVE Spent
    BY <2>1, <2>3 DEF handlePut
  <2>4. ASSUME NEW e \in Editor, ListAlertRules(e) \/ Store(e) \/ ForgetRule(e)
        PROVE  events' = events \/ Spent
    BY <2>4 DEF ListAlertRules, Store, ForgetRule
  <2>5. ASSUME NEW x, DeleteCheckConfig(x) \/ DeletePeer(x) PROVE Spent
    BY <2>5 DEF DeleteCheckConfig, DeletePeer, EditSpent
  <2> QED BY <1>1, <2>2, <2>3, <2>4, <2>5 DEF SettingsServe
<1>2. ASSUME NEW c \in Caller, Request(c) \/ Fails(c) PROVE Spent
  <2>1. CASE Fails(c)
    BY <2>1 DEF Fails
  <2>2. ASSUME NEW op, NEW step, NEW name, Begin(c, op, step, name) PROVE Spent
    BY <2>2 DEF Begin
  <2>3. CASE Request(c)
    BY <2>2, <2>3 DEF Request, handleAuthInit, handleAuthLogin, handleCreateUser, handleDeleteUser,
       handleSetUserPassword
  <2> QED BY <1>2, <2>1, <2>3
<1>3. ASSUME NEW c \in Caller, Handle(c), ~Fails(c) PROVE events' = events
  BY <1>3 DEF Handle, Insert, Lookup, newSession, SetPassword, Count, Remove, RemoveSessions
<1>4. CASE AccountsServe
  BY <1>2, <1>3, <1>4 DEF AccountsServe, handleAuthLogout, PruneExpired
<1>5. CASE Serve
  BY <1>1, <1>4, <1>5 DEF Serve, Tick
<1> QED BY <1>5 DEF Next, Restart, vars

(* The variables of a process have the shape the code gives them: numbers  *)
(* of accounts, sessions and rules were given out and are unique, and      *)
(* whoever holds one - a request, the runner, the engine, the cache - got  *)
(* it from its table.                                                      *)
THEOREM NodeTypes == Spec => []TypeOK
<1>1. ShapesInv => SettingsTypeOK
  <2> SUFFICES ASSUME ShapesInv PROVE SettingsTypeOK
    OBVIOUS
  <2>1. DOMAIN setting \subseteq {"initialized", "alerts_seeded", "general", "notify"}
    BY DEF ShapesInv, Keys
  <2>2. /\ \A r \in rule : r.id \in 1..rules
        /\ \A r, s \in rule : r.id = s.id => r = s
        /\ \A p \in todo \cup firing : p[1] \in 1..rules
        /\ \A r \in cache.rules : r.id \in 1..rules
    BY DEF ShapesInv, Numbered, Given
  <2>3. \A e \in Editor : edit[e].step \in {"idle", "list", "store", "forget"}
    BY DEF ShapesInv, StepsKnown
  <2> QED BY <2>1, <2>2, <2>3 DEF SettingsTypeOK
<1>2. AccountsInv /\ ShapesInv /\ Counted => TypeOK
  BY <1>1, InvTypes DEF TypeOK, Counted
<1>3. Spec => []FiringInv
  BY FiringInitially, FiringInductive, PTL DEF Spec
<1>4. Spec => []ShapesInv
  BY Boots, ShapesInitially, ShapesInductive, <1>3, PTL DEF Spec
<1>5. Init => Counted
  BY AccountsAssumption DEF Init, Counted
<1>6. Spec => []Counted
  BY EventsCounted, <1>5, PTL DEF Spec
<1> QED BY AccountsInvHolds, <1>2, <1>4, <1>6, PTL
==============================================================================
