------------------------------ MODULE Settings ------------------------------
(***************************************************************************)
(* The settings service (internal/settings) over the tables setting,       *)
(* alert_rule, check_config and peer: seeded from the configuration file   *)
(* at the first start, cached in memory, edited by the dashboard, and read *)
(* by the alert runner, which keeps the state of every rule in the engine. *)
(*                                                                         *)
(* The edits of checks are module CheckLifecycle's and those of peers      *)
(* Membership's; of them only the deletion of the row is here.             *)
(***************************************************************************)
EXTENDS Accounts

CONSTANTS
  File,         \* the configuration file: [general, notify, checks, peers, alias, thresholds]
  Editor,       \* settings requests that may be under way at once
  Bodies,       \* alert rules the dashboard may submit
  Generals, Notifies,  \* general and notification settings it may submit
  Subjects,     \* [source -> the subjects the runner observes for it]
  MaxEdits,     \* bound: settings are edited among the first MaxEdits events
  Edited,       \* bound: ids of the rules the dashboard updates or deletes
  Upgraded      \* whether the database may predate the alert rules

Numeric == {"cpu", "mem", "disk", "check_latency", "net_recv", "net_sent", "nodata"}
Percent == {"cpu", "mem", "disk"}
OfEntity == {"disk", "check_status", "check_latency", "peer", "nodata"}

(* The file's durations are in milliseconds; 0 is unset. *)
defaultOf == [metrics |-> 30000, poll |-> 15000, retention |-> 604800000]
defaultThreshold == 90
applyDefaults(c) ==
  [general    |-> [f \in DOMAIN c.general |-> IF c.general[f] = 0 THEN defaultOf[f] ELSE c.general[f]],
   thresholds |-> [t \in DOMAIN c.thresholds |-> IF c.thresholds[t] = 0 THEN defaultThreshold ELSE c.thresholds[t]],
   notify |-> c.notify, checks |-> c.checks, peers |-> c.peers, alias |-> c.alias]
Validate(c) ==
  /\ \A f \in DOMAIN c.general : c.general[f] > 0
  /\ \A t \in DOMAIN c.thresholds : c.thresholds[t] \in 0..100
Config == applyDefaults(File)

(* With a file that does not pass, the process does not start. *)
ASSUME SettingsAssumption ==
  /\ MaxEdits \in Nat /\ Edited \subseteq Nat /\ Upgraded \in BOOLEAN
  /\ File.thresholds \in [{"cpu", "mem", "disk"} -> Int]
  /\ {File.checks, File.peers, File.alias} \subseteq Seq(STRING)
  /\ Bodies \subseteq [name : STRING, enabled : BOOLEAN, source : STRING, entity : STRING,
                       comparator : STRING, threshold : Int, severity : STRING]
  /\ Validate(Config)

VARIABLES
  setting,   \* table setting: [key -> value] of the keys that are there
  rule,      \* table alert_rule
  rules,     \* rules created so far: AUTOINCREMENT
  check,     \* table check_config: [id, name]
  peer,      \* names in the table peer
  alias,     \* whether the node's own alias is stored
  boot,      \* the statements Load still has to execute
  cache,     \* settings.Service: [general, notify, rules], sets; the first two hold one value
  edit,      \* [Editor -> the request's state: [op, step, id, value]]
  todo,      \* <<rule, subject>> pairs the runner's pass has yet to observe
  firing,    \* <<rule, subject>> pairs the engine holds as firing
  cut,       \* ghost: the process stopped while Load was seeding
  removed,   \* ghost: <<kind, name>> of those seeds that were deleted or renamed
  stale,     \* ghost: settings whose edits overlapped, or could not be read back
  loose      \* ghost: rules updated, or deleted while somebody still worked on them

tables == <<setting, rule, rules, check, peer, alias>>
service == <<boot, cache, edit>>
runner == <<todo, firing>>
ghosts == <<cut, removed, stale, loose>>
settingsVars == <<tables, service, runner, ghosts>>

---------------------------------------------------------------------------
(* Rules and their validation.                                             *)

(* Seeded fault: the entity of a source that has none is kept. *)
normalizeKeepingEntity(r) ==
  [name |-> r.name, enabled |-> r.enabled, source |-> r.source, entity |-> r.entity,
   comparator |-> IF r.source \notin Numeric THEN "" ELSE IF r.comparator = "" THEN ">=" ELSE r.comparator,
   threshold  |-> IF r.source \notin Numeric THEN 0 ELSE r.threshold,
   severity   |-> IF r.severity = "" THEN "warning" ELSE r.severity]
normalizeAlertRule(r) ==
  [name |-> r.name, enabled |-> r.enabled, source |-> r.source,
   entity     |-> IF r.source \notin OfEntity THEN "" ELSE IF r.entity = "" THEN "*" ELSE r.entity,
   comparator |-> IF r.source \notin Numeric THEN "" ELSE IF r.comparator = "" THEN ">=" ELSE r.comparator,
   threshold  |-> IF r.source \notin Numeric THEN 0 ELSE r.threshold,
   severity   |-> IF r.severity = "" THEN "warning" ELSE r.severity]

validateAlertRule(r) ==
  /\ r.name # ""
  /\ r.source \in Numeric \cup {"check_status", "peer"}
  /\ r.severity \in {"warning", "critical"}
  /\ r.source \in Numeric =>
       /\ r.comparator \in {">=", ">", "<=", "<"}
       /\ r.threshold >= 0 /\ (r.source \in Percent => r.threshold <= 100)

validateGeneral(g) == \A field \in DOMAIN g : g[field] > 0
(* A channel is "off", "complete", or enabled with something missing. *)
validateNotify(n) == \A channel \in DOMAIN n : n[channel] # "incomplete"

WithId(r, id) ==
  [id |-> id, name |-> r.name, enabled |-> r.enabled, source |-> r.source, entity |-> r.entity,
   comparator |-> r.comparator, threshold |-> r.threshold, severity |-> r.severity]
CreateAlertRule(r) == rule' = rule \cup {WithId(r, rules + 1)} /\ rules' = rules + 1
UpdateAlertRule(r) == rule' = {x \in rule : x.id # r.id} \cup {r}
DeleteAlertRule(id) == rule' = {x \in rule : x.id # id}
SetSetting(key, value) ==
  setting' = [k \in DOMAIN setting \cup {key} |-> IF k = key THEN value ELSE setting[k]]

---------------------------------------------------------------------------
(* Load: the statements of a start.  Nobody else is running yet.           *)

Put(key, value) == [op |-> "set", key |-> key, value |-> value]
Each(op, names) == [i \in DOMAIN names |-> [op |-> op, value |-> names[i]]]
(* Durations of the file, in milliseconds, become seconds. *)
Seconds(g) == [field \in DOMAIN g |-> g[field] \div 1000]

(* Seeded fault: the flag before the lists. *)
seedFlagEarly ==
  <<Put("general", Seconds(Config.general)), Put("notify", Config.notify), Put("initialized", "1")>> \o
  Each("check", Config.checks) \o Each("peer", Config.peers) \o Each("alias", Config.alias)
seed ==
  <<Put("general", Seconds(Config.general)), Put("notify", Config.notify)>> \o
  Each("check", Config.checks) \o Each("peer", Config.peers) \o Each("alias", Config.alias) \o
  <<Put("initialized", "1")>>

DefaultRule(name, source, threshold) ==
  [name |-> name, enabled |-> TRUE, source |-> source, entity |-> IF source \in OfEntity THEN "*" ELSE "",
   comparator |-> IF source \in Numeric THEN ">=" ELSE "", threshold |-> threshold, severity |-> "critical"]
ThresholdRule(source) ==
  IF Config.thresholds[source] > 0 THEN <<DefaultRule(source, source, Config.thresholds[source])>> ELSE <<>>
Defaults ==
  <<DefaultRule("check failing", "check_status", 0), DefaultRule("unreachable", "peer", 0)>> \o
  ThresholdRule("cpu") \o ThresholdRule("mem") \o ThresholdRule("disk")
seedAlertRulesOnce ==
  [i \in DOMAIN Defaults |-> [op |-> "rule", value |-> normalizeAlertRule(Defaults[i])]] \o
  <<Put("alerts_seeded", "1")>>

Load ==
  (IF "initialized" \in DOMAIN setting THEN <<>> ELSE seed) \o
  (IF "alerts_seeded" \in DOMAIN setting THEN <<>> ELSE seedAlertRulesOnce) \o
  <<[op |-> "reload"]>>

(* What the configuration file asks for, by kind. *)
Seeds ==
  {<<"check", Config.checks[i]>> : i \in DOMAIN Config.checks} \cup
  {<<"peer", Config.peers[i]>> : i \in DOMAIN Config.peers} \cup
  {<<"rule", Defaults[i].name>> : i \in DOMAIN Defaults}
Gone(rows) == removed' = removed \cup (rows \cap Seeds)

Serving == boot = <<>>
Empty == [general |-> {}, notify |-> {}, rules |-> {}]
reload == [general |-> {setting["general"]}, notify |-> {setting["notify"]}, rules |-> rule]

LoadNext ==
  /\ ~Serving
  /\ boot' = Tail(boot)
  /\ LET s == Head(boot) IN
       \/ /\ s.op = "set" /\ SetSetting(s.key, s.value)
          /\ UNCHANGED <<rule, rules, check, peer, alias, cache>>
       \/ /\ s.op = "check" /\ check' = check \cup {[id |-> Cardinality(check) + 1, name |-> s.value]}
          /\ UNCHANGED <<setting, rule, rules, peer, alias, cache>>
       \/ /\ s.op = "peer" /\ peer' = peer \cup {s.value}
          /\ UNCHANGED <<setting, rule, rules, check, alias, cache>>
       \/ /\ s.op = "alias" /\ alias' = TRUE
          /\ UNCHANGED <<setting, rule, rules, check, peer, cache>>
       \/ /\ s.op = "rule" /\ CreateAlertRule(s.value)
          /\ UNCHANGED <<setting, check, peer, alias, cache>>
       \/ /\ s.op = "reload" /\ cache' = reload
          /\ UNCHANGED tables
  /\ UNCHANGED <<edit, runner, ghosts>>

---------------------------------------------------------------------------
(* The dashboard's edits, all behind requireAuth.  What a handler does up  *)
(* to its first statement is one step.                                     *)

EditSpent == events < MaxEdits /\ Spent
NoEdit == [op |-> "none", step |-> "idle", id |-> 0, value |-> {}]
Idle(e) == edit[e].step = "idle"
(* Which part of the cache a request is going to replace. *)
Part(op) == IF op \in {"general", "notify"} THEN op ELSE "rules"
Touched(part) == IF \E e \in Editor : ~Idle(e) /\ Part(edit[e].op) = part
                 THEN stale \cup {part} ELSE stale \ {part}
Submit(e, op, step, id, value) ==
  /\ Serving /\ requireAuth
  /\ Idle(e)
  /\ EditSpent
  /\ edit' = [edit EXCEPT ![e] = [op |-> op, step |-> step, id |-> id, value |-> value]]
  /\ stale' = Touched(Part(op))
Goes(e, step) == edit' = [edit EXCEPT ![e].step = step]
Done(e) == edit' = [edit EXCEPT ![e] = NoEdit]

handleCreateAlert(e, body) ==
  LET r == normalizeAlertRule(body) IN
  /\ validateAlertRule(r)
  /\ CreateAlertRule(r)
  /\ Submit(e, "create", "list", rules + 1, {})
  /\ UNCHANGED <<setting, check, peer, alias, boot, cache, runner, cut, removed, loose>>

(* Without such a rule it ends with ErrAlertRuleNotFound. *)
handleUpdateAlert(e, id, body) ==
  LET r == WithId(normalizeAlertRule(body), id) IN
  /\ validateAlertRule(r)
  /\ \E x \in rule : x.id = id
  /\ UpdateAlertRule(r)
  /\ Submit(e, "update", "list", id, {})
  /\ loose' = loose \cup {id}
  /\ Gone({<<"rule", x.name>> : x \in {y \in rule : y.id = id /\ y.name # body.name}})
  /\ UNCHANGED <<setting, rules, check, peer, alias, boot, cache, runner, cut>>

handleDeleteAlert(e, id) ==
  /\ DeleteAlertRule(id)
  /\ Submit(e, "delete", "list", id, {})
  /\ Gone({<<"rule", x.name>> : x \in {y \in rule : y.id = id}})
  /\ UNCHANGED <<setting, rules, check, peer, alias, boot, cache, runner, cut, loose>>

(* handlePutGeneral and handlePutNotify: the table, then the cache. *)
handlePut(e, key, value) ==
  /\ IF key = "general" THEN validateGeneral(value) ELSE validateNotify(value)
  /\ SetSetting(key, value)
  /\ Submit(e, key, "store", 0, {value})
  /\ UNCHANGED <<rule, rules, check, peer, alias, boot, cache, runner, cut, removed, loose>>

(* refreshAlertRules reads the table; an error ends the request.           *)
ListAlertRules(e) ==
  /\ edit[e].step = "list"
  /\ \/ /\ edit' = [edit EXCEPT ![e].step = "store", ![e].value = rule]
        /\ UNCHANGED <<stale, loose, events>>
     \/ /\ Spent /\ Done(e)
        /\ stale' = stale \cup {"rules"}
        /\ loose' = loose \cup {edit[e].id}
  /\ UNCHANGED <<tables, boot, cache, runner, cut, removed>>

(* It replaces the cache by what it read, as SetGeneral and SetNotify by   *)
(* what they wrote.                                                        *)
(* Seeded fault: rules are added to the cache, never taken away.           *)
StoredBeside(r) == IF Part(r.op) = "rules" THEN cache.rules \cup r.value ELSE r.value
Stored(r) == r.value
Store(e) ==
  /\ edit[e].step = "store"
  /\ cache' = [cache EXCEPT ![Part(edit[e].op)] = Stored(edit[e])]
  /\ IF edit[e].op = "delete" THEN Goes(e, "forget") ELSE Done(e)
  /\ UNCHANGED <<tables, boot, runner, ghosts, events>>

(* Whoever still works on a rule about to be forgotten brings it back. *)
InUse(id) ==
  \/ \E p \in todo : p[1] = id
  \/ \E r \in cache.rules \cup UNION {edit[d].value : d \in {x \in Editor : edit[x].step = "store"
                                                     /\ Part(edit[x].op) = "rules"}} : r.id = id
(* Seeded fault: the rule's state stays in the engine. *)
ForgetNothing(id) == firing
Forget(id) == {p \in firing : p[1] # id}
ForgetRule(e) ==
  /\ edit[e].step = "forget"
  /\ firing' = Forget(edit[e].id)
  /\ loose' = IF InUse(edit[e].id) THEN loose \cup {edit[e].id} ELSE loose
  /\ Done(e)
  /\ UNCHANGED <<tables, boot, cache, todo, cut, removed, stale, events>>

(* A check or a peer is deleted: the statement on its table.               *)
DeleteCheckConfig(c) ==
  /\ Serving /\ requireAuth /\ EditSpent
  /\ check' = check \ {c}
  /\ Gone({<<"check", c.name>>})
  /\ UNCHANGED <<setting, rule, rules, peer, alias, service, runner, cut, stale, loose>>
DeletePeer(p) ==
  /\ Serving /\ requireAuth /\ EditSpent
  /\ peer' = peer \ {p}
  /\ Gone({<<"peer", p>>})
  /\ UNCHANGED <<setting, rule, rules, check, alias, service, runner, cut, stale, loose>>

---------------------------------------------------------------------------
(* The alert runner: a pass takes the rules of the cache and observes what *)
(* the enabled ones are about.  Whether a condition is met, and a change   *)
(* due, is module Engine's; here it may be or not.                         *)

About(r) == {s \in Subjects[r.source] : r.entity \in {"", "*", s}}
Watched(R) == UNION {{<<r.id, s>> : s \in About(r)} : r \in {x \in R : x.enabled}}

evaluate ==
  /\ Serving /\ todo = {} /\ Watched(cache.rules) # {}
  /\ todo' = Watched(cache.rules)
  /\ UNCHANGED <<tables, service, firing, ghosts>>

evalRule(p) ==
  /\ Serving
  /\ todo' = todo \ {p}
  /\ firing' \in {firing \cup {p}, firing \ {p}}
  /\ UNCHANGED <<tables, service, ghosts>>

---------------------------------------------------------------------------
(* A database that was never used, or one of a version without rules.      *)
SettingsInit ==
  /\ \/ /\ setting = <<>> /\ check = {} /\ peer = {} /\ alias = FALSE
     \/ /\ Upgraded
        /\ setting = [initialized |-> "1", general |-> Seconds(Config.general), notify |-> Config.notify]
        /\ check = {[id |-> i, name |-> Config.checks[i]] : i \in DOMAIN Config.checks}
        /\ peer = {Config.peers[i] : i \in DOMAIN Config.peers}
        /\ alias = (Config.alias # <<>>)
  /\ rule = {} /\ rules = 0
  /\ boot = Load
  /\ cache = Empty
  /\ edit = [e \in Editor |-> NoEdit]
  /\ todo = {} /\ firing = {}
  /\ cut = FALSE /\ removed = {} /\ stale = {} /\ loose = {}

SettingsServe ==
  \/ \E e \in Editor :
       \/ \E b \in Bodies : handleCreateAlert(e, b) \/ \E id \in Edited : handleUpdateAlert(e, id, b)
       \/ \E id \in Edited : handleDeleteAlert(e, id)
       \/ \E g \in Generals : handlePut(e, "general", g)
       \/ \E n \in Notifies : handlePut(e, "notify", n)
       \/ ListAlertRules(e) \/ Store(e) \/ ForgetRule(e)
  \/ \E c \in check : DeleteCheckConfig(c)
  \/ \E p \in peer : DeletePeer(p)
SettingsRun == LoadNext \/ evaluate \/ \E p \in todo : evalRule(p)

(* The process stops, or a statement of Load fails, and it starts again:   *)
(* what was in memory is lost.                                             *)
SettingsRestart ==
  /\ boot' = Load /\ cache' = Empty
  /\ edit' = [e \in Editor |-> NoEdit]
  /\ todo' = {} /\ firing' = {}
  /\ cut' = (cut \/ (~Serving /\ boot # <<[op |-> "reload"]>>))
  /\ stale' = {} /\ loose' = {}
  /\ UNCHANGED <<tables, removed>>

---------------------------------------------------------------------------
(* The variables have the shape the code gives them. *)
SettingsTypeOK ==
  /\ DOMAIN setting \subseteq {"initialized", "alerts_seeded", "general", "notify"}
  /\ \A r \in rule : r.id \in 1..rules
  /\ \A r, s \in rule : r.id = s.id => r = s
  /\ \A p \in todo \cup firing : p[1] \in 1..rules
  /\ \A e \in Editor : edit[e].step \in {"idle", "list", "store", "forget"}
  /\ Serving => \A r \in cache.rules : r.id \in 1..rules

(* How often a row of the file is there. *)
Copies(s) ==
  CASE s[1] = "check" -> Cardinality({c \in check : c.name = s[2]})
    [] s[1] = "peer"  -> Cardinality({p \in peer : p = s[2]})
    [] s[1] = "rule"  -> Cardinality({r \in rule : r.name = s[2]})

(* Wherever starts were cut short, a process that serves has every check,  *)
(* peer, default rule and alias of its configuration file, on a new         *)
(* database and on one older than the rules; exactly one of each if no     *)
(* start was cut short while seeding; and what was deleted stays deleted   *)
(* (settings.go: "seeded once from the YAML config on first run", "won't   *)
(* have them resurrected on the next restart").                            *)
SeededOnce ==
  Serving =>
    /\ \A s \in Seeds : IF s \in removed THEN cut \/ Copies(s) = 0 ELSE Copies(s) > 0
    /\ ~cut => \A s \in Seeds : Copies(s) <= 1
    /\ Config.alias # <<>> => alias

(* Every stored rule, the seeded ones too, can be evaluated: the runner    *)
(* knows its source and its comparison, and it is about something (an      *)
(* empty entity matches no disk, check or peer; normalizeAlertRule,        *)
(* validateAlertRule, evalRule).                                           *)
RulesEvaluable ==
  \A r \in rule :
    /\ r.source \in Numeric \cup {"check_status", "peer"}
    /\ r.source \in Numeric => r.comparator \in {">=", ">", "<=", "<"} /\ r.threshold >= 0
    /\ r.source \in Percent => r.threshold <= 100
    /\ r.source \in OfEntity <=> r.entity # ""
    /\ r.severity \in {"warning", "critical"}

NoEdits == \A e \in Editor : Idle(e)

(* The service's cache is what the tables hold, unless two edits of the    *)
(* same setting overlapped or the table could not be read back (package    *)
(* settings: "cached in memory and updated on write").                     *)
CacheFollows ==
  Serving /\ NoEdits =>
    \A part \in DOMAIN cache \ stale : cache[part] = reload[part]

(* An alert is listed as firing only for a rule that is there, enabled and *)
(* about its subject; but a rule that was updated may leave an old alert   *)
(* behind, and one deleted while a pass, the cache or another edit still   *)
(* held it too (handleDeleteAlert, Engine.Forget).                         *)
FiringExplained ==
  NoEdits /\ todo = {} => \A p \in firing : p \in Watched(rule) \/ p[1] \in loose
=============================================================================
