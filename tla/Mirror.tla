------------------------------- MODULE Mirror -------------------------------
(***************************************************************************)
(* How one node's data reaches another's dashboard: the collector of the   *)
(* polled node Node (module Collector) samples its host into its own       *)
(* database src, its /api/peer endpoints serve the newest rows, and the    *)
(* poller of node Own fetches them one endpoint after the other and stores *)
(* them in its database db under the peer's name, while an admin of Own    *)
(* may delete, add, mute or rename the peer at any time.                   *)
(***************************************************************************)
EXTENDS Collector

CONSTANTS
  Own,            \* the node that polls Node
  Checks,         \* check names Node's admin configures
  Names,          \* display names
  CanMiss,        \* endpoints whose fetch may fail
  MaxPolls, MaxEdits, \* bounds of the instance
  MaxDisturbed,   \* bound: failed fetches, and collector cycles while something is in flight
  MaxEvents       \* bound: samples, polls, edits and disturbances together

ASSUME MirrorAssumption == Own # Node /\ IsFiniteSet(Checks)

VARIABLES
  checks,     \* Node's configured checks
  srcAlias,   \* Node's display name, "" when it has none
  db,         \* Own's database
  peer,       \* Own's row of the peer: None or [status, enabled]
  alias,      \* Own's cached display name of the peer
  poll,       \* the poll in flight: [stage, name, clean]
  deleting,   \* statements of a running handleDeletePeer already executed + 1
  renaming,   \* a rename pushed to the peer and not yet mirrored, or None
  raced,      \* ghost: something was stored for the peer during or after its deletion
  used        \* how much of every bound is spent

vars == <<collectorVars, checks, srcAlias, db, peer, alias, poll, deleting,
          renaming, raced, used>>
source == <<collectorVars, checks, srcAlias>>

Bounds == [polls |-> MaxPolls, edits |-> MaxEdits, disturbed |-> MaxDisturbed]
Spend(what) ==
  /\ used[what] < Bounds[what]
  /\ used.polls + used.edits + used.disturbed + spent.samples < MaxEvents
  /\ used' = [used EXCEPT ![what] = @ + 1]
(* What Own holds is no longer what its last poll left or fetched. *)
Unclean == poll' = [poll EXCEPT !.clean = FALSE]

(* A collector's cycle while a poll or a deletion is in flight, or a fetch *)
(* that fails. *)
Meanwhile ==
  IF poll.stage = 0 /\ deleting = 0 THEN UNCHANGED used
  ELSE Spend("disturbed")

(* Node's collector runs a cycle, or restarts. *)
Collect ==
  /\ CollectorNext
  /\ Unclean
  /\ Meanwhile
  /\ UNCHANGED <<checks, srcAlias, db, peer, alias, deleting, renaming, raced>>

(* The peer's scheduler stores a check result; its admin deletes the check. *)
CheckRuns(c, status) ==
  /\ c \in checks
  /\ src' = UpsertCheckStatus(src, {Row(Node, c, now, status)})
  /\ Unclean
  /\ Spend("edits")
  /\ UNCHANGED <<now, host, prev, spent, checks, srcAlias, db, peer, alias, deleting, renaming, raced>>

CheckDeleted(c) ==
  /\ c \in checks
  /\ checks' = checks \ {c}
  /\ src' = DeleteCheckStatus(src, Node, c)
  /\ Unclean
  /\ Spend("edits")
  /\ UNCHANGED <<now, host, prev, spent, srcAlias, db, peer, alias, deleting, renaming, raced>>

---------------------------------------------------------------------------
(* What the peer's endpoints answer: its own rows, the newest of a series. *)
(* Answers of a series are sequences, of a snapshot sets.                  *)

handlePeerMetrics ==
  LET latest == LatestMetric(src, Node)
  IN IF latest # <<>> THEN latest ELSE <<Row(Node, NoKey, now, Total(Reads(host)))>>

(* Every configured check, unknown until it ran, and any other stored row. *)
checksForNode ==
  CheckStatuses(src, Node) \cup
  {Row(Node, c, NoTime, "unknown") : c \in {n \in checks :
                                   \A r \in CheckStatuses(src, Node) : r.key # n}}

diskForNode       == DiskStatuses(src, Node)
netForNode        == LatestNetSample(src, Node)
netIfacesForNode  == NetInterfaces(src, Node)
cpuStateForNode   == LatestCPUState(src, Node)
coresForNode      == PerCore(src, Node)
diskIOForNode     == LatestDiskIOSamples(src, Node)
processesForNode  == TopProcesses(src, Node)
diskHealthForNode == [raid |-> RaidArrays(src, Node), smart |-> SmartDisks(src, Node)]
handlePeerIdentity == srcAlias

---------------------------------------------------------------------------
(* The poller, one endpoint after the other.  A fetch reads only what Node *)
(* holds and a store writes only what Own holds, so whatever happens       *)
(* between the two could as well happen before or after both: one step.    *)
(* Except for the display name, which a rename writes on both sides.       *)

storePeerMetrics(d, a) == InsertMetric(d, a[1])

storePeerChecks(d, a) ==
  UpsertCheckStatus(d, {Row(r.node, r.key, IF r.at = NoTime THEN now ELSE r.at, r.val) : r \in a})

(* Seeded fault: a mount the peer no longer reports is kept. *)
storePeerDiskKept(d, a) ==
  InsertDiskUsageSample(UpsertDiskStatus(d, a), SetToSeq(a))
storePeerDisk(d, a) ==
  DeleteDiskStatusesExcept(InsertDiskUsageSample(UpsertDiskStatus(d, a), SetToSeq(a)),
                           Node, {r.key : r \in a})

storePeerNet(d, a)           == IF a = <<>> THEN d ELSE InsertNetSample(d, a[1])
storePeerNetInterfaces(d, a) == ReplaceNetInterfaces(d, Node, a)
storePeerCPUState(d, a)      == IF a = <<>> THEN d ELSE InsertCPUState(d, a[1])
storePeerCPUCores(d, a)      == ReplacePerCore(d, Node, a)
storePeerDiskIO(d, a)        == InsertDiskIOSample(d, a)
storePeerProcesses(d, a)     == ReplaceProcessTop(d, Node, a)
storePeerDiskHealth(d, a)    == ReplaceSmartDisks(ReplaceRaidArrays(d, Node, a.raid), Node, a.smart)

Stages == <<"metrics", "checks", "disk", "net", "iface", "cpu", "cores",
            "diskio", "proc", "health", "identity">>

Answer(stage) ==
  CASE stage = "metrics"  -> handlePeerMetrics
    [] stage = "checks"   -> checksForNode
    [] stage = "disk"     -> diskForNode
    [] stage = "net"      -> netForNode
    [] stage = "iface"    -> netIfacesForNode
    [] stage = "cpu"      -> cpuStateForNode
    [] stage = "cores"    -> coresForNode
    [] stage = "diskio"   -> diskIOForNode
    [] stage = "proc"     -> processesForNode
    [] stage = "health"   -> diskHealthForNode

Stored(stage, a) ==
  CASE stage = "metrics"  -> storePeerMetrics(db, a)
    [] stage = "checks"   -> storePeerChecks(db, a)
    [] stage = "disk"     -> storePeerDisk(db, a)
    [] stage = "net"      -> storePeerNet(db, a)
    [] stage = "iface"    -> storePeerNetInterfaces(db, a)
    [] stage = "cpu"      -> storePeerCPUState(db, a)
    [] stage = "cores"    -> storePeerCPUCores(db, a)
    [] stage = "diskio"   -> storePeerDiskIO(db, a)
    [] stage = "proc"     -> storePeerProcesses(db, a)
    [] stage = "health"   -> storePeerDiskHealth(db, a)

Idle      == [stage |-> 0, name |-> None, clean |-> poll.clean]
NextStage == [stage |-> poll.stage + 1, name |-> None, clean |-> poll.clean]
At(name)  == poll.stage \in DOMAIN Stages /\ Stages[poll.stage] = name

(* SetPeerStatus touches no row when there is none. *)
SetStatus(s) == peer' = IF peer = None THEN None ELSE [peer EXCEPT !.status = s]

(* pollAll takes the peer when it is listed and enabled. *)
StartPoll ==
  /\ poll.stage = 0
  /\ peer # None /\ peer.enabled
  /\ poll' = [stage |-> 1, name |-> None, clean |-> TRUE]
  /\ Spend("polls")
  /\ UNCHANGED <<source, db, peer, alias, deleting, renaming, raced>>

(* Whatever a poll stores after the peer was deleted stays behind. *)
Stores == raced' = (raced \/ peer = None \/ deleting > 0)

FetchAndStore ==
  /\ poll.stage \in DOMAIN Stages /\ ~At("identity")
  /\ LET stage == Stages[poll.stage] IN db' = Stored(stage, Answer(stage))
  /\ poll' = NextStage
  /\ Stores
  /\ UNCHANGED <<source, peer, alias, deleting, renaming, used>>

(* A fetch that fails ends its own stage; that of the metrics the poll. *)
FetchFails ==
  /\ poll.stage \in DOMAIN Stages /\ Stages[poll.stage] \in CanMiss /\ poll.name = None
  /\ Spend("disturbed")
  /\ IF At("metrics") THEN SetStatus("down") ELSE UNCHANGED peer
  /\ poll' = [(IF At("metrics") THEN Idle ELSE NextStage) EXCEPT !.clean = FALSE]
  /\ UNCHANGED <<source, db, alias, deleting, renaming, raced>>

FetchIdentity ==
  /\ At("identity") /\ poll.name = None
  /\ poll' = [poll EXCEPT !.name = [name |-> handlePeerIdentity]]
  /\ UNCHANGED <<source, db, peer, alias, deleting, renaming, raced, used>>

storePeerIdentity ==
  /\ At("identity") /\ poll.name # None
  /\ alias' = poll.name.name
  /\ poll' = NextStage
  /\ Stores
  /\ UNCHANGED <<source, db, peer, deleting, renaming, used>>

EndPoll ==
  /\ poll.stage > Len(Stages)
  /\ SetStatus("ok")
  /\ poll' = Idle
  /\ UNCHANGED <<source, db, alias, deleting, renaming, raced, used>>

---------------------------------------------------------------------------
(* The admin of Own.                                                       *)

(* handleDeletePeer: the data tables one by one, the peer, its alias. *)
StartDelete ==
  /\ peer # None /\ deleting = 0
  /\ deleting' = 1
  /\ raced' = FALSE
  /\ Spend("edits")
  /\ UNCHANGED <<source, db, peer, alias, poll, renaming>>

Delete ==
  /\ deleting > 0
  /\ LET n == Len(DeleteNodeData) IN
     /\ db' = IF deleting <= n THEN DeleteNode(db, DeleteNodeData[deleting], Node) ELSE db
     /\ peer' = IF deleting = n + 1 THEN None ELSE peer
     /\ alias' = IF deleting = n + 2 THEN "" ELSE alias
     /\ deleting' = IF deleting = n + 2 THEN 0 ELSE deleting + 1
  /\ Unclean
  /\ UNCHANGED <<source, renaming, raced, used>>

handleCreatePeer ==
  /\ peer = None
  /\ \E muted \in BOOLEAN : peer' = [status |-> "unknown", enabled |-> ~muted]
  /\ UNCHANGED <<source, db, alias, poll, deleting, renaming, raced, used>>

Mute ==
  /\ peer # None
  /\ peer' = [peer EXCEPT !.enabled = ~@]
  /\ Spend("edits")
  /\ UNCHANGED <<source, db, alias, poll, deleting, renaming, raced>>

(* handleSetNodeAlias on Own: the name is pushed to the peer, then         *)
(* mirrored.                                                               *)
Rename(name) ==
  /\ peer # None /\ renaming = None
  /\ srcAlias' = name /\ renaming' = [name |-> name]
  /\ Unclean
  /\ Spend("edits")
  /\ UNCHANGED <<collectorVars, checks, db, peer, alias, deleting, raced>>

RenameMirrored ==
  /\ renaming # None
  /\ alias' = renaming.name /\ renaming' = None
  /\ raced' = (raced \/ peer = None \/ deleting > 0)
  /\ Unclean
  /\ UNCHANGED <<source, db, peer, deleting, used>>

(* Own's collector prunes, whatever node the rows are of. *)
PruneOwn ==
  /\ db' = prune(db, now) /\ db' # db
  /\ Unclean /\ Meanwhile
  /\ UNCHANGED <<source, peer, alias, deleting, renaming, raced>>

---------------------------------------------------------------------------
(* Own has sampled itself once; the peer is known and named nothing. *)
OwnRow(t) == Row(Own, NoKey, 0, 0)
Init ==
  /\ CollectorInit
  /\ checks = Checks
  /\ srcAlias = ""
  /\ db = [t \in Tables |-> IF t \in SeriesTables THEN <<OwnRow(t)>> ELSE {OwnRow(t)}]
  /\ peer = [status |-> "unknown", enabled |-> TRUE]
  /\ alias = ""
  /\ poll = [stage |-> 0, name |-> None, clean |-> FALSE]
  /\ deleting = 0 /\ renaming = None /\ raced = FALSE
  /\ used = [polls |-> 0, edits |-> 0, disturbed |-> 0]

Next ==
  \/ Collect
  \/ \E c \in Checks : CheckDeleted(c) \/ \E s \in {"ok", "failing"} : CheckRuns(c, s)
  \/ StartPoll \/ FetchAndStore \/ FetchIdentity \/ storePeerIdentity \/ FetchFails \/ EndPoll
  \/ StartDelete \/ Delete \/ handleCreatePeer \/ Mute
  \/ \E n \in Names : Rename(n)
  \/ RenameMirrored \/ PruneOwn

Spec == Init /\ [][Next]_vars

---------------------------------------------------------------------------
(* The variables have the shape the code gives them. *)
TypeOK ==
  /\ now \in Nat
  /\ \A d \in {src, db} :
       /\ DOMAIN d = Tables
       /\ \A t \in Tables : \A r \in RowsOf(d, t) :
            r.node \in {Own, Node} /\ r.at \in 0..now /\ r.key \in Units \cup Checks \cup {NoKey}
       /\ \A t \in SnapshotTables : \A r, s \in d[t] :
            r.node = s.node /\ r.key = s.key => r = s
  /\ peer = None \/ (peer.status \in {"unknown", "ok", "down"} /\ peer.enabled \in BOOLEAN)
  /\ poll.stage \in 0..(Len(Stages) + 1)
  /\ {alias, srcAlias} \subseteq Names \cup {""}
  /\ deleting \in 0..(Len(DeleteNodeData) + 2)

(* A poll in which no fetch failed and nothing else happened leaves Own    *)
(* with exactly what the peer shows of itself: no device, mount, process   *)
(* or array more, none less, none with another value; and with every check *)
(* and the display name of the peer (cluster.go pollNode, storePeerDisk etc.). *)
InStep ==
  poll.stage = 0 /\ poll.clean /\ peer # None =>
    /\ peer.status = "ok"
    /\ \A t \in SnapshotTables \ {"check_status"} :
         {r \in db[t] : r.node = Node} = {r \in src[t] : r.node = Node}
    /\ \A r \in checksForNode : \E m \in CheckStatuses(db, Node) :
         m.key = r.key /\ m.val = r.val /\ (r.at # NoTime => m.at = r.at)
    /\ LatestMetric(db, Node) = handlePeerMetrics
    /\ netForNode # <<>> => LatestNetSample(db, Node) = netForNode
    /\ cpuStateForNode # <<>> => LatestCPUState(db, Node) = cpuStateForNode
    /\ ToSet(diskIOForNode) \subseteq ToSet(LatestDiskIOSamples(db, Node))
    /\ alias = srcAlias

(* Once a peer is deleted nothing of it is left, the disk-I/O series       *)
(* apart, unless a poll or a rename stored something while the deletion    *)
(* ran or after it (handleDeleteNode, DeleteNodeData).                     *)
OrphansOnlyRaced ==
  peer = None /\ deleting = 0 /\ ~raced =>
    /\ alias = ""
    /\ \A t \in Tables \ {"disk_io_sample"} : \A r \in RowsOf(db, t) : r.node # Node

(* Whatever is polled, stored or deleted for the peer, Own keeps its own   *)
(* rows, and a series row for at least the retention time (collector.go    *)
(* prune).                                                                 *)
OwnDataKept ==
  /\ \A t \in SnapshotTables : OwnRow(t) \in db[t]
  /\ \A t \in SeriesTables : OwnRow(t) \in ToSet(db[t]) \/ (Retention > 0 /\ now > Retention)
=============================================================================
