------------------------------ MODULE Storage ------------------------------
(***************************************************************************)
(* The SQLite database of one node (internal/storage), as values.          *)
(*                                                                         *)
(* A database maps each data table to its rows.  Series tables only grow   *)
(* and are pruned: a sequence, in the order of their autoincremented id.   *)
(* Snapshot tables have the primary key (node, key): a set of rows.  The   *)
(* columns between the key and the timestamp are one field, val.  The      *)
(* database is opened with a single connection, so every operator below    *)
(* that stands for one statement or one transaction is one atomic change.  *)
(***************************************************************************)
EXTENDS Integers, Sequences, FiniteSets, SequencesExt

SeriesTables == {"metric_sample", "net_sample", "cpu_state_sample",
                 "disk_io_sample", "disk_usage_sample"}
SnapshotTables == {"check_status", "disk_status", "net_interface", "cpu_core",
                   "process_top", "raid_array", "smart_disk"}
Tables == SeriesTables \cup SnapshotTables

Row(node, key, at, val) == [node |-> node, key |-> key, at |-> at, val |-> val]
NoKey == "-"        \* the key of the tables that hold one reading per node

(* The tables of a new database. *)
schemaSQL == [t \in Tables |-> IF t \in SeriesTables THEN <<>> ELSE {}]

RowsOf(d, t) == IF t \in SeriesTables THEN ToSet(d[t]) ELSE d[t]

---------------------------------------------------------------------------
(* The statements all tables share. *)

Insert(d, t, rows) == [d EXCEPT ![t] = @ \o rows]
(* Seeded fault: the conflicting rows are not replaced. *)
UpsertBeside(d, t, rows) == [d EXCEPT ![t] = @ \cup rows]
(* Upserts of rows of different keys: in whatever order, the same result. *)
Upsert(d, t, rows) ==
  [d EXCEPT ![t] = {r \in @ : \A s \in rows : ~(r.node = s.node /\ r.key = s.key)} \cup rows]
(* Seeded fault: the delete has no WHERE clause. *)
ReplaceEverywhere(d, t, node, rows) == [d EXCEPT ![t] = rows]
Replace(d, t, node, rows) == [d EXCEPT ![t] = {r \in @ : r.node # node} \cup rows]
(* The rows of a series that are in a set, in their order. *)
Keep(s, rows) ==
  LET kept[i \in 0..Len(s)] ==
        IF i = 0 THEN <<>>
        ELSE IF s[i] \in rows THEN Append(kept[i - 1], s[i]) ELSE kept[i - 1]
  IN kept[Len(s)]
PruneTable(d, t, before) == [d EXCEPT ![t] = Keep(@, {r \in ToSet(@) : r.at >= before})]
DeleteNode(d, t, node) ==
  IF t \in SeriesTables
  THEN [d EXCEPT ![t] = Keep(@, {r \in ToSet(@) : r.node # node})]
  ELSE [d EXCEPT ![t] = {r \in @ : r.node # node}]

(* ORDER BY at, id over a set of row numbers of a series: the place of a   *)
(* row is the number of rows up to it.                                     *)
NotLater(rows, ids, i) ==
  {j \in ids : rows[j].at < rows[i].at \/ (rows[j].at = rows[i].at /\ j <= i)}
ByTime(rows, ids) ==
  [n \in 1..Cardinality(ids) |->
     rows[CHOOSE i \in ids : Cardinality(NotLater(rows, ids, i)) = n]]

LastOf(s, limit) ==
  IF limit <= 0 \/ Len(s) <= limit THEN s ELSE SubSeq(s, Len(s) - limit + 1, Len(s))

(* The rows of one node and key in [from, to]. *)
Between(d, t, node, key, from, to) ==
  {i \in DOMAIN d[t] : /\ d[t][i].node = node /\ d[t][i].key = key
                       /\ d[t][i].at >= from /\ d[t][i].at <= to}

(* Seeded fault: one bucket too few seconds wide is one bucket too many. *)
BucketSizeRounded(from, to, maxPoints) == 1
(* The width of a downsample bucket. *)
bucketSize(from, to, maxPoints) ==
  LET points == IF maxPoints < 1 THEN 1 ELSE maxPoints
      width  == (to - from) \div points
  IN IF to - from < 1 \/ width <= 1 THEN 1 ELSE width

(* The first row of every bucket of the window. *)
Decimate(d, t, node, key, from, to, maxPoints) ==
  LET size == bucketSize(from, to, maxPoints)
      ids  == Between(d, t, node, key, from, to)
      bucket(i) == (d[t][i].at - from) \div size
  IN ByTime(d[t], {i \in ids : \A j \in ids : bucket(j) = bucket(i) => i <= j})

(* ORDER BY at DESC, id DESC LIMIT 1 *)
Newest(d, t, node) ==
  LET ids == {i \in DOMAIN d[t] : d[t][i].node = node}
      newest(i) == \A j \in ids : d[t][j].at < d[t][i].at \/ (d[t][j].at = d[t][i].at /\ j <= i)
  IN IF ids = {} THEN <<>> ELSE <<d[t][CHOOSE i \in ids : newest(i)]>>

Recent(d, t, node, key, since, limit) ==
  LET ids == {i \in DOMAIN d[t] : /\ d[t][i].node = node /\ d[t][i].key = key
                                  /\ d[t][i].at >= since}
  IN LastOf(ByTime(d[t], ids), limit)

---------------------------------------------------------------------------
(* Series. *)

InsertMetric(d, row) == Insert(d, "metric_sample", <<row>>)
RecentMetrics(d, node, since, limit) == Recent(d, "metric_sample", node, NoKey, since, limit)
MetricsWindow(d, node, from, to, maxPoints) ==
  Decimate(d, "metric_sample", node, NoKey, from, to, maxPoints)
LatestMetric(d, node) == Newest(d, "metric_sample", node)
Prune(d, before) == PruneTable(d, "metric_sample", before)

InsertNetSample(d, row) == Insert(d, "net_sample", <<row>>)
RecentNetSamples(d, node, since, limit) == Recent(d, "net_sample", node, NoKey, since, limit)
NetSamplesWindow(d, node, from, to, maxPoints) ==
  Decimate(d, "net_sample", node, NoKey, from, to, maxPoints)
LatestNetSample(d, node) == Newest(d, "net_sample", node)
PruneNet(d, before) == PruneTable(d, "net_sample", before)

InsertCPUState(d, row) == Insert(d, "cpu_state_sample", <<row>>)
RecentCPUStates(d, node, since, limit) ==
  Recent(d, "cpu_state_sample", node, NoKey, since, limit)
CPUStateWindow(d, node, from, to, maxPoints) ==
  Decimate(d, "cpu_state_sample", node, NoKey, from, to, maxPoints)
LatestCPUState(d, node) == Newest(d, "cpu_state_sample", node)
PruneCPUState(d, before) == PruneTable(d, "cpu_state_sample", before)

InsertDiskUsageSample(d, rows) == Insert(d, "disk_usage_sample", rows)
DiskUsageWindow(d, node, mount, from, to, maxPoints) ==
  Decimate(d, "disk_usage_sample", node, mount, from, to, maxPoints)
RecentDiskUsage(d, node, mount, since) ==
  Recent(d, "disk_usage_sample", node, mount, since, 0)
PruneDiskUsage(d, before) == PruneTable(d, "disk_usage_sample", before)

InsertDiskIOSample(d, rows) == Insert(d, "disk_io_sample", rows)
PruneDiskIO(d, before) == PruneTable(d, "disk_io_sample", before)

IORows(d, node) == Keep(d["disk_io_sample"], {r \in ToSet(d["disk_io_sample"]) : r.node = node})
SumOf(rows) == FoldSeq(LAMBDA r, acc : acc + r.val, 0, rows)
IOPoints(rows, times) ==
  LET firsts == ByTime(rows, {i \in DOMAIN rows : /\ rows[i].at \in times
                                                  /\ \A j \in 1..(i - 1) : rows[j].at # rows[i].at})
      total(at) == SumOf(Keep(rows, {r \in ToSet(rows) : r.at = at}))
  IN [n \in DOMAIN firsts |-> [at |-> firsts[n].at, val |-> total(firsts[n].at)]]

(* The rows that carry the newest timestamp, every device of them. *)
LatestDiskIOSamples(d, node) ==
  LET rows == IORows(d, node)
  IN Keep(rows, {r \in ToSet(rows) : \A s \in ToSet(rows) : s.at <= r.at})
(* One point per timestamp, summed over the devices. *)
DiskIOHistory(d, node, since, limit) ==
  LET all  == IORows(d, node)
      rows == Keep(all, {r \in ToSet(all) : r.at >= since})
  IN LastOf(IOPoints(rows, {r.at : r \in ToSet(rows)}), limit)
(* The same, with only the first timestamp of every bucket. *)
DiskIOWindow(d, node, from, to, maxPoints) ==
  LET all   == IORows(d, node)
      rows  == Keep(all, {r \in ToSet(all) : r.at >= from /\ r.at <= to})
      size  == bucketSize(from, to, maxPoints)
      times == {r.at : r \in ToSet(rows)}
  IN IOPoints(rows, {x \in times : \A y \in times :
                       (x - from) \div size = (y - from) \div size => x <= y})

---------------------------------------------------------------------------
(* Snapshots. *)

UpsertCheckStatus(d, rows) == Upsert(d, "check_status", rows)
CheckStatuses(d, node) == {r \in d["check_status"] : r.node = node}
DeleteCheckStatus(d, node, name) ==
  [d EXCEPT !["check_status"] = {r \in @ : ~(r.node = node /\ r.key = name)}]

UpsertDiskStatus(d, rows) == Upsert(d, "disk_status", rows)
DiskStatuses(d, node) == {r \in d["disk_status"] : r.node = node}
DeleteDiskStatusesExcept(d, node, keep) ==
  [d EXCEPT !["disk_status"] = {r \in @ : r.node = node => r.key \in keep}]

ReplaceNetInterfaces(d, node, rows) == Replace(d, "net_interface", node, rows)
NetInterfaces(d, node) == {r \in d["net_interface"] : r.node = node}
ReplacePerCore(d, node, rows) == Replace(d, "cpu_core", node, rows)
PerCore(d, node) == {r \in d["cpu_core"] : r.node = node}
ReplaceProcessTop(d, node, rows) == Replace(d, "process_top", node, rows)
TopProcesses(d, node) == {r \in d["process_top"] : r.node = node}
ReplaceRaidArrays(d, node, rows) == Replace(d, "raid_array", node, rows)
RaidArrays(d, node) == {r \in d["raid_array"] : r.node = node}
ReplaceSmartDisks(d, node, rows) == Replace(d, "smart_disk", node, rows)
SmartDisks(d, node) == {r \in d["smart_disk"] : r.node = node}

(* Seeded fault: the table of another of the newer samplers is left out. *)
DeleteNodeDataOlder ==
  <<"metric_sample", "check_status", "disk_status", "disk_usage_sample",
    "net_sample", "cpu_state_sample", "process_top", "cpu_core",
    "net_interface", "raid_array">>
(* The tables DeleteNodeData clears, one statement each, in this order.    *)
DeleteNodeData ==
  <<"metric_sample", "check_status", "disk_status", "disk_usage_sample",
    "net_sample", "cpu_state_sample", "process_top", "cpu_core",
    "net_interface", "raid_array", "smart_disk">>
=============================================================================
