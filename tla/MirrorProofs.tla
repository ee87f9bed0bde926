---------------------------- MODULE MirrorProofs ----------------------------
(***************************************************************************)
(* Theorems about a node's data and its mirror on the node that polls it   *)
(* (module Mirror), for any units, checks, readings and names.             *)
(*                                                                         *)
(* MirrorInv says what the two databases are and that the mirror is never  *)
(* ahead of the peer; DeletionInv what a deletion under way has cleared;   *)
(* CleanInv what an undisturbed poll has brought over so far.              *)
(***************************************************************************)
EXTENDS Mirror, CollectorProofs

---------------------------------------------------------------------------
(* What one poll step stores.                                              *)
AllKeys == Units \cup Checks \cup {NoKey}
Nodes == {Own, Node}
(* The series of which the peer shows the newest rows. *)
LatestTables == {"metric_sample", "net_sample", "cpu_state_sample", "disk_io_sample"}

(* No row of the peer is newer than what the peer itself has. *)
NotAhead(d, s, t) ==
  \A m \in ToSet(d[t]) : m.node = Node /\ ToSet(s[t]) # {} => \E r \in ToSet(s[t]) : m.at <= r.at
Mirrors(d) == Fine(d, now, Nodes, AllKeys) /\ \A t \in LatestTables : NotAhead(d, src, t)
OthersKept(d, e) == \A t \in Tables : \A r \in RowsOf(d, t) : r.node # Node => r \in RowsOf(e, t)
Fetching == CollectorInv(AllKeys) /\ checks \subseteq Checks

StoredInto(d, e, ts) ==
  Mirrors(e) /\ OthersKept(d, e) /\ \A t \in Tables \ ts : e[t] = d[t]
RowsOfNode(d, t) == {r \in d[t] : r.node = Node}

LEMMA NodesApart == Node \in Nodes /\ Units \cup {NoKey} \subseteq AllKeys
BY DEF Nodes, AllKeys

LEMMA SourceRows ==
  ASSUME Fetching
  PROVE  /\ now \in Nat /\ DOMAIN src = Tables
         /\ \A t \in Tables : RowsFine(RowsOf(src, t), now, {Node}, AllKeys)
         /\ \A t \in Tables : RowsFine(RowsOf(src, t), now, Nodes, AllKeys)
         /\ \A t \in SnapshotTables : Snapshot(src[t]) /\ RowsOf(src, t) = src[t]
         /\ \A t \in SeriesTables : IsSeq(src[t]) /\ RowsOf(src, t) = ToSet(src[t])
         /\ \A t \in SnapshotTables : RowsOfNode(src, t) = src[t] /\ OfNode(src[t], Node)
<1>1. now \in Nat /\ Fine(src, now, {Node}, AllKeys)
  BY DEF Fetching, CollectorInv
<1>2. \A t \in Tables : RowsFine(RowsOf(src, t), now, {Node}, AllKeys)
  BY <1>1 DEF Fine, RowsFine
<1>3. \A t \in Tables : RowsFine(RowsOf(src, t), now, Nodes, AllKeys)
  BY <1>2, NodesApart DEF RowsFine, RowFine
<1>4. \A t \in SnapshotTables : Snapshot(src[t]) /\ RowsOf(src, t) = src[t]
  BY <1>1, TableKinds, RowsOfKind DEF Fine
<1>5. \A t \in SeriesTables : IsSeq(src[t]) /\ RowsOf(src, t) = ToSet(src[t])
  BY <1>1, TableKinds, RowsOfKind DEF Fine
<1>6. \A t \in SnapshotTables : \A r \in src[t] : r.node = Node
  BY <1>2, <1>4, TableKinds DEF RowsFine, RowFine
<1>7. \A t \in SnapshotTables : RowsOfNode(src, t) = src[t] /\ OfNode(src[t], Node)
  BY <1>6 DEF RowsOfNode, OfNode
<1>8. DOMAIN src = Tables
  BY <1>1 DEF Fine
<1> QED BY <1>1, <1>2, <1>3, <1>4, <1>5, <1>7, <1>8

LEMMA LatestAreSeries == LatestTables \subseteq SeriesTables /\ LatestTables \subseteq Tables
BY DEF LatestTables, SeriesTables, Tables

(* A table that is none of the latter is of no consequence to them. *)
LEMMA SnapshotAhead ==
  ASSUME NEW d, NEW e, NEW t \in Tables \ LatestTables, Writes(d, e, t),
         \A u \in LatestTables : NotAhead(d, src, u)
  PROVE  \A u \in LatestTables : NotAhead(e, src, u)
BY LatestAreSeries DEF NotAhead, Writes

LEMMA SnapshotStored ==
  ASSUME Fetching, NEW d, Mirrors(d), NEW t \in SnapshotTables, NEW e,
         e = Replace(d, t, Node, src[t])
  PROVE  StoredInto(d, e, {t}) /\ RowsOfNode(e, t) = src[t]
<1>1. /\ Snapshot(src[t]) /\ RowsFine(src[t], now, Nodes, AllKeys) /\ OfNode(src[t], Node)
      /\ now \in Int /\ t \in Tables
  <2>1. Snapshot(src[t]) /\ RowsOf(src, t) = src[t] /\ OfNode(src[t], Node)
    BY SourceRows
  <2>2. RowsFine(RowsOf(src, t), now, Nodes, AllKeys)
    BY SourceRows, TableKinds
  <2>3. now \in Int
    BY SourceRows
  <2> QED BY <2>1, <2>2, <2>3, TableKinds
<1>2. Fine(d, now, Nodes, AllKeys)
  BY DEF Mirrors
<1>3. Fine(e, now, Nodes, AllKeys)
  BY <1>1, <1>2, ReplaceFine
<1>4. Writes(d, e, t) /\ e[t] = {r \in d[t] : r.node # Node} \cup src[t]
  BY <1>2, ReplaceOp DEF Fine
<1>5. \A u \in LatestTables : NotAhead(e, src, u)
  BY <1>4, SnapshotAhead, TableKinds, LatestAreSeries DEF Mirrors
<1>6. OthersKept(d, e)
  <2> SUFFICES ASSUME NEW u \in Tables, NEW r \in RowsOf(d, u), r.node # Node
               PROVE  r \in RowsOf(e, u)
    BY DEF OthersKept
  <2>1. CASE u = t
    BY <1>4, <2>1, RowsOfKind
  <2>2. CASE u # t
    BY <1>4, <2>2 DEF Writes, RowsOf
  <2> QED BY <2>1, <2>2
<1>7. RowsOfNode(e, t) = src[t]
  BY <1>1, <1>4 DEF RowsOfNode, OfNode
<1>8. \A u \in Tables \ {t} : e[u] = d[u]
  BY <1>4 DEF Writes
<1> QED BY <1>3, <1>5, <1>6, <1>7, <1>8 DEF StoredInto, Mirrors

(* Rows of the peer put at the end of a series, none of them ahead of it. *)
LEMMA RowsStored ==
  ASSUME Fetching, NEW d, Mirrors(d), NEW t \in SeriesTables, NEW rows, IsSeq(rows),
         RowsFine(ToSet(rows), now, Nodes, AllKeys),
         t \in LatestTables => \A m \in ToSet(rows) :
           ToSet(src[t]) # {} => \E r \in ToSet(src[t]) : m.at <= r.at,
         NEW e, e = Insert(d, t, rows)
  PROVE  /\ StoredInto(d, e, {t}) /\ ToSet(e[t]) = ToSet(d[t]) \cup ToSet(rows)
         /\ e[t] = d[t] \o rows
<1>1. now \in Int /\ t \in Tables
  BY SourceRows, TableKinds
<1>2. Fine(d, now, Nodes, AllKeys)
  BY DEF Mirrors
<1>3. Fine(e, now, Nodes, AllKeys) /\ ToSet(e[t]) = ToSet(d[t]) \cup ToSet(rows)
  BY <1>1, <1>2, InsertFine
<1>4. Writes(d, e, t) /\ e[t] = d[t] \o rows
  BY <1>2, InsertOp DEF Fine
<1>5. ASSUME NEW u \in LatestTables PROVE NotAhead(e, src, u)
  <2>1. NotAhead(d, src, u) /\ u \in Tables
    BY LatestAreSeries DEF Mirrors
  <2>2. CASE u = t
    BY <1>3, <2>1, <2>2 DEF NotAhead
  <2>3. CASE u # t
    BY <1>4, <2>1, <2>3 DEF NotAhead, Writes
  <2> QED BY <2>2, <2>3
<1>6. OthersKept(d, e)
  <2> SUFFICES ASSUME NEW u \in Tables, NEW r \in RowsOf(d, u), r.node # Node
               PROVE  r \in RowsOf(e, u)
    BY DEF OthersKept
  <2>1. CASE u = t
    BY <1>3, <2>1, RowsOfKind
  <2>2. CASE u # t
    BY <1>4, <2>2 DEF Writes, RowsOf
  <2> QED BY <2>1, <2>2
<1>7. \A u \in Tables \ {t} : e[u] = d[u]
  BY <1>4 DEF Writes
<1> QED BY <1>3, <1>4, <1>5, <1>6, <1>7 DEF StoredInto, Mirrors

(* The newest row of the peer, or a live one when it has none. *)
LEMMA NewestStored ==
  ASSUME Fetching, NEW d, Mirrors(d), NEW t \in LatestTables, NEW r,
         RowFine(r, now, {Node}, AllKeys),
         IF ToSet(src[t]) = {} THEN r.at = now
         ELSE r \in ToSet(src[t]) /\ \A x \in ToSet(src[t]) : x.at <= r.at,
         NEW e, e = Insert(d, t, <<r>>)
  PROVE  StoredInto(d, e, {t}) /\ Newest(e, t, Node) = <<r>>
<1>1. t \in SeriesTables /\ t \in Tables /\ now \in Nat
  BY SourceRows, LatestAreSeries
<1>2. r.at \in 0..now /\ r.node = Node
  BY DEF RowFine
<1>3. \A x \in ToSet(src[t]) : x.at \in 0..now
  <2>1. RowsFine(RowsOf(src, t), now, {Node}, AllKeys) /\ RowsOf(src, t) = ToSet(src[t])
    BY <1>1, SourceRows
  <2> QED BY <2>1 DEF RowsFine, RowFine
<1>4. IsSeq(<<r>>) /\ ToSet(<<r>>) = {r}
  BY Single
<1>5. RowsFine(ToSet(<<r>>), now, Nodes, AllKeys)
  BY <1>4, NodesApart DEF RowsFine, RowFine
<1>6. \A m \in ToSet(<<r>>) : ToSet(src[t]) # {} => \E x \in ToSet(src[t]) : m.at <= x.at
  BY <1>2, <1>4
<1>7. StoredInto(d, e, {t}) /\ e[t] = d[t] \o <<r>>
  <2>1. PICK rows : rows = <<r>>
    OBVIOUS
  <2>2. IsSeq(rows) /\ RowsFine(ToSet(rows), now, Nodes, AllKeys) /\ e = Insert(d, t, rows)
    BY <1>4, <1>5, <2>1
  <2>3. \A m \in ToSet(rows) : ToSet(src[t]) # {} => \E x \in ToSet(src[t]) : m.at <= x.at
    BY <1>6, <2>1
  <2>4. StoredInto(d, e, {t})
    BY <1>1, <2>2, <2>3, RowsStored
  <2>5. e[t] = d[t] \o rows
    BY <1>1, <2>2, InsertOp DEF Mirrors, Fine
  <2> QED BY <2>1, <2>4, <2>5
<1>8. IsSeq(d[t]) /\ \A x \in ToSet(d[t]) : x.at \in 0..now
  <2>1. IsSeq(d[t]) /\ RowsOf(d, t) = ToSet(d[t])
    BY <1>1, RowsOfKind DEF Mirrors, Fine
  <2>2. \A x \in RowsOf(d, t) : x.at \in 0..now
    BY <1>1 DEF Mirrors, Fine, RowFine
  <2> QED BY <2>1, <2>2
<1>9. ASSUME NEW x \in ToSet(d[t]), x.node = Node PROVE x.at <= r.at
  <2>1. CASE ToSet(src[t]) = {}
    BY <1>1, <1>8, <1>9, <2>1
  <2>2. CASE ToSet(src[t]) # {}
    <3>1. NotAhead(d, src, t)
      BY DEF Mirrors
    <3>2. PICK y \in ToSet(src[t]) : x.at <= y.at
      BY <1>9, <2>2, <3>1 DEF NotAhead
    <3>3. y.at <= r.at /\ y.at \in 0..now /\ x.at \in 0..now
      BY <1>3, <1>8, <1>9, <2>2, <3>2
    <3> QED BY <1>2, <3>2, <3>3
  <2> QED BY <2>1, <2>2
<1>10. e[t] = d[t] \o <<r>> /\ now \in Nat
  BY <1>1, <1>7
<1>11. Newest(e, t, Node) = <<r>>
  BY <1>2, <1>8, <1>9, <1>10, NewestAppended
<1> QED BY <1>7, <1>11

LEMMA SourceNewest ==
  ASSUME Fetching, NEW t \in LatestTables
  PROVE  \/ ToSet(src[t]) = {} /\ Newest(src, t, Node) = <<>>
         \/ \E r \in ToSet(src[t]) : /\ Newest(src, t, Node) = <<r>>
                                     /\ RowFine(r, now, {Node}, AllKeys)
                                     /\ \A x \in ToSet(src[t]) : x.at <= r.at
<1>1. t \in SeriesTables /\ t \in Tables /\ now \in Nat
  BY SourceRows, LatestAreSeries
<1>2. IsSeq(src[t]) /\ \A x \in ToSet(src[t]) : RowFine(x, now, {Node}, AllKeys)
  <2>1. RowsFine(RowsOf(src, t), now, {Node}, AllKeys)
    BY <1>1, SourceRows
  <2>2. IsSeq(src[t]) /\ RowsOf(src, t) = ToSet(src[t])
    BY <1>1, SourceRows
  <2> QED BY <2>1, <2>2 DEF RowsFine
<1>3. \A x \in ToSet(src[t]) : x.at \in 0..now /\ x.node = Node
  BY <1>2 DEF RowFine
<1>4. \/ (\A r \in ToSet(src[t]) : r.node # Node) /\ Newest(src, t, Node) = <<>>
      \/ \E i : NewestIs(src[t], Node, i) /\ Newest(src, t, Node) = <<src[t][i]>>
  BY <1>1, <1>2, <1>3, NewestFacts
<1>5. CASE (\A r \in ToSet(src[t]) : r.node # Node) /\ Newest(src, t, Node) = <<>>
  BY <1>3, <1>5
<1>6. ASSUME NEW i, NewestIs(src[t], Node, i), Newest(src, t, Node) = <<src[t][i]>>
      PROVE  \E r \in ToSet(src[t]) : /\ Newest(src, t, Node) = <<r>>
                                      /\ RowFine(r, now, {Node}, AllKeys)
                                      /\ \A x \in ToSet(src[t]) : x.at <= r.at
  <2>1. PICK s : s = src[t] /\ IsSeq(s)
    BY <1>2
  <2>2. DOMAIN s = 1..Len(s) /\ ToSet(s) = {s[j] : j \in 1..Len(s)}
    <3>1. IsSeq(s)
      BY <2>1
    <3> HIDE <2>1
    <3> QED BY <3>1, SeqElements DEF IsSeq
  <2>3. i \in DOMAIN s /\ s[i] \in ToSet(s)
    BY <1>6, <2>1, <2>2 DEF NewestIs
  <2>4. ASSUME NEW x \in ToSet(s) PROVE x.at <= s[i].at
    <3>1. PICK j \in DOMAIN s : x = s[j]
      BY <2>2
    <3>2. s[j].at < s[i].at \/ s[j].at = s[i].at
      BY <1>3, <1>6, <2>1, <3>1 DEF NewestIs
    <3>3. s[j].at \in 0..now /\ s[i].at \in 0..now
      BY <1>3, <2>1, <2>3, <3>1
    <3> QED BY <3>1, <3>2, <3>3
  <2> QED BY <1>2, <1>6, <2>1, <2>3, <2>4
<1> QED BY <1>4, <1>5, <1>6

(* What is to be seen of the peer after each step.                         *)
MetricPart(d) == LatestMetric(d, Node) = handlePeerMetrics
ChecksPart(d) ==
  \A r \in checksForNode : \E m \in CheckStatuses(d, Node) :
    m.key = r.key /\ m.val = r.val /\ (r.at # NoTime => m.at = r.at)
NetPart(d) == netForNode # <<>> => LatestNetSample(d, Node) = netForNode
CPUPart(d) == cpuStateForNode # <<>> => LatestCPUState(d, Node) = cpuStateForNode
IOPart(d)  == ToSet(diskIOForNode) \subseteq ToSet(LatestDiskIOSamples(d, Node))
SamePart(d, t) == RowsOfNode(d, t) = src[t]

LEMMA MetricsStored ==
  ASSUME Fetching, NEW d, Mirrors(d), NEW e, e = storePeerMetrics(d, handlePeerMetrics)
  PROVE  StoredInto(d, e, {"metric_sample"}) /\ MetricPart(e)
<1> DEFINE t == "metric_sample"
<1>0. t \in LatestTables
  BY DEF LatestTables
<1>1. CASE ToSet(src[t]) = {}
  <2>1. Newest(src, t, Node) = <<>>
    BY <1>0, <1>1, SourceNewest
  <2>2. PICK r : r = Row(Node, NoKey, now, Total(Reads(host)))
    OBVIOUS
  <2>3. handlePeerMetrics = <<r>>
    BY <2>1, <2>2 DEF handlePeerMetrics, LatestMetric
  <2>4. r.at = now /\ RowFine(r, now, {Node}, AllKeys)
    BY <2>2, SourceRows DEF Row, RowFine, AllKeys
  <2>5. e = Insert(d, t, <<r>>)
    BY <2>3 DEF storePeerMetrics, InsertMetric
  <2>6. StoredInto(d, e, {t}) /\ Newest(e, t, Node) = <<r>>
    BY <1>0, <1>1, <2>4, <2>5, NewestStored
  <2> QED BY <2>3, <2>6 DEF MetricPart, LatestMetric
<1>2. CASE ToSet(src[t]) # {}
  <2>1. PICK r \in ToSet(src[t]) : /\ Newest(src, t, Node) = <<r>>
                                   /\ RowFine(r, now, {Node}, AllKeys)
                                   /\ \A x \in ToSet(src[t]) : x.at <= r.at
    BY <1>0, <1>2, SourceNewest
  <2>2. handlePeerMetrics = <<r>>
    <3>1. <<r>> # <<>>
      OBVIOUS
    <3> QED BY <2>1, <3>1 DEF handlePeerMetrics, LatestMetric
  <2>3. e = Insert(d, t, <<r>>)
    BY <2>2 DEF storePeerMetrics, InsertMetric
  <2>4. StoredInto(d, e, {t}) /\ Newest(e, t, Node) = <<r>>
    BY <1>0, <1>2, <2>1, <2>3, NewestStored
  <2> QED BY <2>2, <2>4 DEF MetricPart, LatestMetric
<1> QED BY <1>1, <1>2

LEMMA NoneStored ==
  ASSUME NEW d, Mirrors(d), NEW ts
  PROVE  StoredInto(d, d, ts)
BY DEF StoredInto, OthersKept

LEMMA NetStored ==
  ASSUME Fetching, NEW d, Mirrors(d), NEW e, e = storePeerNet(d, netForNode)
  PROVE  StoredInto(d, e, {"net_sample"}) /\ NetPart(e)
<1> DEFINE t == "net_sample"
<1>0. t \in LatestTables
  BY DEF LatestTables
<1>1. CASE netForNode = <<>>
  <2>1. e = d
    BY <1>1 DEF storePeerNet
  <2> QED BY <1>1, <2>1, NoneStored DEF NetPart
<1>2. CASE netForNode # <<>>
  <2>1. PICK r \in ToSet(src[t]) : /\ netForNode = <<r>>
                                   /\ RowFine(r, now, {Node}, AllKeys)
                                   /\ \A x \in ToSet(src[t]) : x.at <= r.at
    BY <1>0, <1>2, SourceNewest DEF netForNode, LatestNetSample
  <2>2. e = Insert(d, t, <<r>>)
    BY <1>2, <2>1 DEF storePeerNet, InsertNetSample
  <2>3. StoredInto(d, e, {t}) /\ Newest(e, t, Node) = <<r>>
    BY <1>0, <2>1, <2>2, NewestStored
  <2> QED BY <2>1, <2>3 DEF NetPart, LatestNetSample
<1> QED BY <1>1, <1>2

LEMMA CPUStored ==
  ASSUME Fetching, NEW d, Mirrors(d), NEW e, e = storePeerCPUState(d, cpuStateForNode)
  PROVE  StoredInto(d, e, {"cpu_state_sample"}) /\ CPUPart(e)
<1> DEFINE t == "cpu_state_sample"
<1>0. t \in LatestTables
  BY DEF LatestTables
<1>1. CASE cpuStateForNode = <<>>
  <2>1. e = d
    BY <1>1 DEF storePeerCPUState
  <2> QED BY <1>1, <2>1, NoneStored DEF CPUPart
<1>2. CASE cpuStateForNode # <<>>
  <2>1. PICK r \in ToSet(src[t]) : /\ cpuStateForNode = <<r>>
                                   /\ RowFine(r, now, {Node}, AllKeys)
                                   /\ \A x \in ToSet(src[t]) : x.at <= r.at
    BY <1>0, <1>2, SourceNewest DEF cpuStateForNode, LatestCPUState
  <2>2. e = Insert(d, t, <<r>>)
    BY <1>2, <2>1 DEF storePeerCPUState, InsertCPUState
  <2>3. StoredInto(d, e, {t}) /\ Newest(e, t, Node) = <<r>>
    BY <1>0, <2>1, <2>2, NewestStored
  <2> QED BY <2>1, <2>3 DEF CPUPart, LatestCPUState
<1> QED BY <1>1, <1>2

(* Every device's row of the newest time. *)
NewestTime(rows, node) ==
  {r \in rows : r.node = node /\ \A s \in rows : s.node = node => s.at <= r.at}

LEMMA LatestIO ==
  ASSUME NEW d, NEW node, IsSeq(d["disk_io_sample"])
  PROVE  /\ IsSeq(LatestDiskIOSamples(d, node))
         /\ ToSet(LatestDiskIOSamples(d, node)) = NewestTime(ToSet(d["disk_io_sample"]), node)
<1>1. PICK all : all = {r \in ToSet(d["disk_io_sample"]) : r.node = node}
  OBVIOUS
<1>2. PICK rows : rows = Keep(d["disk_io_sample"], all)
  OBVIOUS
<1>3. IsSeq(rows) /\ ToSet(rows) = ToSet(d["disk_io_sample"]) \cap all
  BY <1>2, KeepFacts
<1>4. PICK last : last = {r \in ToSet(rows) : \A s \in ToSet(rows) : s.at <= r.at}
  OBVIOUS
<1>5. IsSeq(Keep(rows, last)) /\ ToSet(Keep(rows, last)) = ToSet(rows) \cap last
  BY <1>3, KeepFacts
<1>6. LatestDiskIOSamples(d, node) = Keep(rows, last)
  BY <1>1, <1>2, <1>4 DEF LatestDiskIOSamples, IORows
<1>7. ToSet(rows) \cap last = NewestTime(ToSet(d["disk_io_sample"]), node)
  BY <1>1, <1>3, <1>4 DEF NewestTime
<1> QED BY <1>5, <1>6, <1>7

LEMMA DiskIOStored ==
  ASSUME Fetching, NEW d, Mirrors(d), NEW e, e = storePeerDiskIO(d, diskIOForNode)
  PROVE  StoredInto(d, e, {"disk_io_sample"}) /\ IOPart(e)
<1> DEFINE t == "disk_io_sample"
<1>0. t \in LatestTables /\ t \in SeriesTables /\ t \in Tables /\ now \in Nat
  BY SourceRows DEF LatestTables, SeriesTables, Tables
<1>1. IsSeq(src[t]) /\ \A x \in ToSet(src[t]) : RowFine(x, now, {Node}, AllKeys)
  <2>1. RowsFine(RowsOf(src, t), now, {Node}, AllKeys)
    BY <1>0, SourceRows
  <2>2. IsSeq(src[t]) /\ RowsOf(src, t) = ToSet(src[t])
    BY <1>0, SourceRows
  <2> QED BY <2>1, <2>2 DEF RowsFine
<1>2. PICK rows : rows = diskIOForNode
  OBVIOUS
<1>3. IsSeq(rows) /\ ToSet(rows) = NewestTime(ToSet(src[t]), Node)
  <2>1. IsSeq(LatestDiskIOSamples(src, Node))
    BY <1>1, LatestIO
  <2>2. ToSet(LatestDiskIOSamples(src, Node)) = NewestTime(ToSet(src[t]), Node)
    BY <1>1, LatestIO
  <2> QED BY <1>2, <2>1, <2>2 DEF diskIOForNode
<1>4. RowsFine(ToSet(rows), now, Nodes, AllKeys)
  BY <1>1, <1>3, NodesApart DEF RowsFine, RowFine, NewestTime
<1>5. \A m \in ToSet(rows) : ToSet(src[t]) # {} => \E r \in ToSet(src[t]) : m.at <= r.at
  BY <1>1, <1>3 DEF NewestTime, RowFine
<1>6. e = Insert(d, t, rows)
  BY <1>2 DEF storePeerDiskIO, InsertDiskIOSample
<1>7. StoredInto(d, e, {t})
  BY <1>0, <1>3, <1>4, <1>5, <1>6, RowsStored
<1>8. ToSet(e[t]) = ToSet(d[t]) \cup ToSet(rows)
  BY <1>0, <1>3, <1>4, <1>6, InsertFine DEF Mirrors
<1>9. /\ \A x \in ToSet(e[t]) : x.at \in 0..now
      /\ IsSeq(e[t])
  <2>1. Fine(e, now, Nodes, AllKeys)
    BY <1>7 DEF StoredInto, Mirrors
  <2>2. RowsOf(e, t) = ToSet(e[t])
    BY <1>0, RowsOfKind
  <2> QED BY <1>0, <2>1, <2>2 DEF Fine, RowFine
<1>10. ASSUME NEW r \in ToSet(rows) PROVE r \in NewestTime(ToSet(e[t]), Node)
  <2>1. r \in ToSet(src[t]) /\ r.node = Node /\ \A x \in ToSet(src[t]) : x.at <= r.at
    BY <1>1, <1>3, <1>10 DEF NewestTime, RowFine
  <2>2. NotAhead(e, src, t)
    BY <1>0, <1>7 DEF StoredInto, Mirrors
  <2>3. ASSUME NEW m \in ToSet(e[t]), m.node = Node PROVE m.at <= r.at
    <3>1. PICK x \in ToSet(src[t]) : m.at <= x.at
      BY <2>1, <2>2, <2>3 DEF NotAhead
    <3>2. x.at <= r.at /\ x.at \in 0..now /\ r.at \in 0..now /\ m.at \in 0..now
      BY <1>1, <1>9, <2>1, <2>3, <3>1 DEF RowFine
    <3> QED BY <3>1, <3>2
  <2> QED BY <1>8, <2>1, <2>3 DEF NewestTime
<1>11. ToSet(LatestDiskIOSamples(e, Node)) = NewestTime(ToSet(e[t]), Node)
  BY <1>9, LatestIO
<1>12. ToSet(diskIOForNode) \subseteq ToSet(LatestDiskIOSamples(e, Node))
  BY <1>2, <1>10, <1>11
<1> QED BY <1>7, <1>12 DEF IOPart

(* Upserted rows of the peer. *)
LEMMA RowsUpserted ==
  ASSUME NEW d, Mirrors(d), now \in Nat, NEW t \in SnapshotTables, NEW rows, Snapshot(rows),
         RowsFine(rows, now, Nodes, AllKeys), OfNode(rows, Node), NEW e, e = Upsert(d, t, rows)
  PROVE  /\ StoredInto(d, e, {t}) /\ rows \subseteq e[t]
         /\ \A r \in e[t] : r.node = Node /\ (\E s \in rows : s.key = r.key) => r \in rows
<1>1. Fine(d, now, Nodes, AllKeys) /\ now \in Int /\ t \in Tables
  BY TableKinds DEF Mirrors
<1>2. Fine(e, now, Nodes, AllKeys)
  BY <1>1, UpsertFine
<1>3. Writes(d, e, t)
  BY <1>1, UpsertOp DEF Fine
<1>4. e[t] = {r \in d[t] : \A s \in rows : ~(r.node = s.node /\ r.key = s.key)} \cup rows
  BY <1>1, UpsertOp DEF Fine
<1>5. \A u \in LatestTables : NotAhead(e, src, u)
  BY <1>3, SnapshotAhead, TableKinds, LatestAreSeries DEF Mirrors
<1>6. OthersKept(d, e)
  <2> SUFFICES ASSUME NEW u \in Tables, NEW r \in RowsOf(d, u), r.node # Node
               PROVE  r \in RowsOf(e, u)
    BY DEF OthersKept
  <2>1. CASE u = t
    BY <1>4, <2>1, RowsOfKind DEF OfNode
  <2>2. CASE u # t
    BY <1>3, <2>2 DEF Writes, RowsOf
  <2> QED BY <2>1, <2>2
<1>7. \A u \in Tables \ {t} : e[u] = d[u]
  BY <1>3 DEF Writes
<1>8. \A r \in e[t] : r.node = Node /\ (\E s \in rows : s.key = r.key) => r \in rows
  BY <1>4 DEF OfNode
<1> QED BY <1>2, <1>4, <1>5, <1>6, <1>7, <1>8 DEF StoredInto, Mirrors

LEMMA StoredThen ==
  ASSUME NEW d, NEW e, NEW f, NEW ts, NEW us, StoredInto(d, e, ts), StoredInto(e, f, us)
  PROVE  StoredInto(d, f, ts \cup us)
BY DEF StoredInto, OthersKept

LEMMA DiskStored ==
  ASSUME Fetching, NEW d, Mirrors(d), NEW e, e = storePeerDisk(d, diskForNode)
  PROVE  StoredInto(d, e, {"disk_status", "disk_usage_sample"}) /\ SamePart(e, "disk_status")
<1> DEFINE t == "disk_status"
           u == "disk_usage_sample"
<1>0. /\ t \in SnapshotTables /\ t \in Tables /\ u \in SeriesTables /\ u \in Tables
      /\ t \notin SeriesTables /\ t \notin LatestTables /\ u \notin LatestTables /\ u # t
  BY DEF SnapshotTables, SeriesTables, Tables, LatestTables
<1>1. PICK a : a = diskForNode
  OBVIOUS
<1>2. a = src[t] /\ Snapshot(a) /\ OfNode(a, Node)
  <2>1. a = RowsOfNode(src, t)
    BY <1>1 DEF diskForNode, DiskStatuses, RowsOfNode
  <2>2. Snapshot(src[t]) /\ OfNode(src[t], Node) /\ RowsOfNode(src, t) = src[t]
    BY <1>0, SourceRows
  <2> QED BY <2>1, <2>2
<1>3. RowsFine(a, now, Nodes, AllKeys)
  <2>1. RowsFine(RowsOf(src, t), now, Nodes, AllKeys)
    BY <1>0, SourceRows
  <2>2. RowsOf(src, t) = src[t]
    BY <1>0, SourceRows
  <2> QED BY <1>2, <2>1, <2>2
<1>4. now \in Nat
  BY SourceRows
<1>5. PICK e1 : e1 = Upsert(d, t, a)
  OBVIOUS
<1>6. StoredInto(d, e1, {t})
  BY <1>0, <1>2, <1>3, <1>4, <1>5, RowsUpserted
<1>7. a \subseteq e1[t] /\ \A r \in e1[t] : r.node = Node /\ (\E s \in a : s.key = r.key) => r \in a
  <2>1. a \subseteq e1[t]
    BY <1>0, <1>2, <1>3, <1>4, <1>5, RowsUpserted
  <2>2. \A r \in e1[t] : r.node = Node /\ (\E s \in a : s.key = r.key) => r \in a
    <3>1. DOMAIN d = Tables
      BY DEF Mirrors, Fine
    <3>2. e1[t] = {r \in d[t] : \A x \in a : ~(r.node = x.node /\ r.key = x.key)} \cup a
      BY <1>0, <1>5, <3>1, UpsertOp
    <3> QED BY <1>2, <3>2 DEF OfNode
  <2> QED BY <2>1, <2>2
<1>8. PICK list : list = SetToSeq(a)
  OBVIOUS
<1>9. IsSeq(list) /\ ToSet(list) = a
  BY <1>2, <1>8, Listed DEF Snapshot
<1>10. PICK e2 : e2 = Insert(e1, u, list)
  OBVIOUS
<1>11. StoredInto(e1, e2, {u})
  <2>1. Mirrors(e1) /\ RowsFine(ToSet(list), now, Nodes, AllKeys)
    BY <1>3, <1>6, <1>9 DEF StoredInto
  <2> QED BY <1>0, <1>9, <1>10, <2>1, RowsStored
<1>12. e = DeleteDiskStatusesExcept(e2, Node, {r.key : r \in a})
  BY <1>1, <1>5, <1>8, <1>10 DEF storePeerDisk, UpsertDiskStatus, InsertDiskUsageSample
<1>13. e2[t] = e1[t]
  BY <1>0, <1>11 DEF StoredInto
<1>14. PICK ks : ks = {r.key : r \in a}
  OBVIOUS
<1>15. Writes(e2, e, t) /\ e[t] = {r \in e2[t] : r.node = Node => r.key \in ks}
  BY <1>11, <1>12, <1>14, ExceptOp DEF StoredInto, Mirrors, Fine
<1>16. StoredInto(e2, e, {t})
  <2>1. Fine(e2, now, Nodes, AllKeys) /\ now \in Int
    BY <1>4, <1>11 DEF StoredInto, Mirrors
  <2>2. RowsOf(e, t) \subseteq RowsOf(e2, t)
    BY <1>0, <1>15, RowsOfKind
  <2>3. Fine(e, now, Nodes, AllKeys)
    BY <1>0, <1>15, <2>1, <2>2, FewerFine
  <2>4. \A w \in LatestTables : NotAhead(e2, src, w)
    BY <1>11 DEF StoredInto, Mirrors
  <2>5. \A w \in LatestTables : NotAhead(e, src, w)
    BY <1>0, <1>15, <2>4, SnapshotAhead
  <2>6. OthersKept(e2, e)
    <3> SUFFICES ASSUME NEW w \in Tables, NEW r \in RowsOf(e2, w), r.node # Node
                 PROVE  r \in RowsOf(e, w)
      BY DEF OthersKept
    <3>1. CASE w = t
      BY <1>0, <1>15, <3>1, RowsOfKind
    <3>2. CASE w # t
      BY <1>15, <3>2 DEF Writes, RowsOf
    <3> QED BY <3>1, <3>2
  <2>7. \A w \in Tables \ {t} : e[w] = e2[w]
    BY <1>15 DEF Writes
  <2> QED BY <2>3, <2>5, <2>6, <2>7 DEF StoredInto, Mirrors
<1>17. StoredInto(d, e, {t, u})
  <2>1. StoredInto(d, e2, {t} \cup {u})
    BY <1>6, <1>11, StoredThen
  <2>2. StoredInto(d, e, ({t} \cup {u}) \cup {t})
    BY <1>16, <2>1, StoredThen
  <2>3. ({t} \cup {u}) \cup {t} = {t, u}
    OBVIOUS
  <2> QED BY <2>2, <2>3
<1>18. RowsOfNode(e, t) = a
  <2>1. RowsOfNode(e, t) \subseteq a
    BY <1>7, <1>13, <1>14, <1>15 DEF RowsOfNode
  <2>2. a \subseteq RowsOfNode(e, t)
    BY <1>2, <1>7, <1>13, <1>14, <1>15 DEF RowsOfNode, OfNode
  <2> QED BY <2>1, <2>2
<1> QED BY <1>2, <1>17, <1>18 DEF SamePart

LEMMA ReplacedPart ==
  ASSUME Fetching, NEW d, Mirrors(d), NEW t \in SnapshotTables, NEW a, a = RowsOfNode(src, t),
         NEW e, e = Replace(d, t, Node, a)
  PROVE  StoredInto(d, e, {t}) /\ SamePart(e, t)
<1>1. a = src[t]
  BY SourceRows
<1>2. StoredInto(d, e, {t})
  BY <1>1, SnapshotStored
<1>3. RowsOfNode(e, t) = src[t]
  BY <1>1, SnapshotStored
<1> QED BY <1>2, <1>3 DEF SamePart

LEMMA HealthStored ==
  ASSUME Fetching, NEW d, Mirrors(d), NEW e, e = storePeerDiskHealth(d, diskHealthForNode)
  PROVE  /\ StoredInto(d, e, {"raid_array", "smart_disk"})
         /\ SamePart(e, "raid_array") /\ SamePart(e, "smart_disk")
<1>0. /\ "raid_array" \in SnapshotTables /\ "smart_disk" \in SnapshotTables
      /\ "raid_array" \in Tables
  BY DEF SnapshotTables, Tables
<1>1. PICK a : a = RowsOfNode(src, "raid_array")
  OBVIOUS
<1>2. PICK b : b = RowsOfNode(src, "smart_disk")
  OBVIOUS
<1>3. PICK e1 : e1 = Replace(d, "raid_array", Node, a)
  OBVIOUS
<1>4. StoredInto(d, e1, {"raid_array"}) /\ SamePart(e1, "raid_array")
  BY <1>0, <1>1, <1>3, ReplacedPart
<1>5. e = Replace(e1, "smart_disk", Node, b)
  <2>1. diskHealthForNode.raid = a /\ diskHealthForNode.smart = b
    BY <1>1, <1>2 DEF diskHealthForNode, RaidArrays, SmartDisks, RowsOfNode
  <2> QED BY <1>3, <2>1 DEF storePeerDiskHealth, ReplaceRaidArrays, ReplaceSmartDisks
<1>6. StoredInto(e1, e, {"smart_disk"}) /\ SamePart(e, "smart_disk")
  BY <1>0, <1>2, <1>4, <1>5, ReplacedPart DEF StoredInto
<1>7. SamePart(e, "raid_array")
  <2>1. e["raid_array"] = e1["raid_array"]
    BY <1>0, <1>6 DEF StoredInto
  <2> QED BY <1>4, <2>1 DEF SamePart, RowsOfNode
<1>8. StoredInto(d, e, {"raid_array"} \cup {"smart_disk"})
  BY <1>4, <1>6, StoredThen
<1>9. {"raid_array"} \cup {"smart_disk"} = {"raid_array", "smart_disk"}
  OBVIOUS
<1> QED BY <1>6, <1>7, <1>8, <1>9

(* The checks of the peer: its stored results, and those not run yet. *)
LEMMA ChecksStored ==
  ASSUME Fetching, NEW d, Mirrors(d), NEW e, e = storePeerChecks(d, checksForNode)
  PROVE  StoredInto(d, e, {"check_status"}) /\ ChecksPart(e)
<1> DEFINE t == "check_status"
<1>0. t \in SnapshotTables /\ t \in Tables /\ now \in Nat
  BY SourceRows DEF SnapshotTables, Tables
<1>1. PICK st : st = CheckStatuses(src, Node)
  OBVIOUS
<1>2. st = src[t] /\ Snapshot(st) /\ OfNode(st, Node)
  <2>1. st = RowsOfNode(src, t)
    BY <1>1 DEF CheckStatuses, RowsOfNode
  <2>2. Snapshot(src[t]) /\ OfNode(src[t], Node) /\ RowsOfNode(src, t) = src[t]
    BY <1>0, SourceRows
  <2> QED BY <2>1, <2>2
<1>3. RowsFine(st, now, Nodes, AllKeys)
  <2>1. RowsFine(RowsOf(src, t), now, Nodes, AllKeys)
    BY <1>0, SourceRows
  <2>2. RowsOf(src, t) = src[t]
    BY <1>0, SourceRows
  <2> QED BY <1>2, <2>1, <2>2
<1>4. PICK new : new = {n \in checks : \A r \in st : r.key # n}
  OBVIOUS
<1> DEFINE blank == [c \in new |-> Row(Node, c, NoTime, "unknown")]
           unknown == {blank[c] : c \in new}
<1>5. PICK a : a = checksForNode
  OBVIOUS
<1>6. a = st \cup unknown
  BY <1>1, <1>4, <1>5 DEF checksForNode
<1>7. IsFiniteSet(a)
  <2>1. IsFiniteSet(new)
    BY <1>4, MirrorAssumption, FS_Subset DEF Fetching
  <2>2. IsFiniteSet(unknown)
    <3> HIDE DEF blank
    <3>1. DOMAIN blank = new
      BY DEF blank
    <3> QED BY <2>1, <3>1, ImageFinite
  <2> QED BY <1>2, <1>6, <2>2, FS_Union DEF Snapshot
<1>8. \A c \in new : blank[c].node = Node /\ blank[c].key = c /\ blank[c].at = NoTime
  BY DEF Row
<1>9. /\ \A r \in a : r.node = Node /\ r.key \in AllKeys /\ (r.at = NoTime \/ r.at \in 0..now)
      /\ \A r, s \in a : r.key = s.key => r = s
  <2> HIDE DEF blank
  <2>1. ASSUME NEW r \in st PROVE r.node = Node /\ r.key \in AllKeys /\ r.at \in 0..now
    BY <1>2, <1>3 DEF OfNode, RowsFine, RowFine
  <2>2. ASSUME NEW r \in unknown
        PROVE  r.node = Node /\ r.key \in AllKeys /\ r.at = NoTime /\ r.key \in new
    BY <1>4, <1>8 DEF Fetching, AllKeys
  <2>3. \A r, s \in st : r.key = s.key => r = s
    BY <1>2 DEF Snapshot, Apart, OfNode
  <2>4. \A r, s \in unknown : r.key = s.key => r = s
    BY <1>8
  <2>5. \A r \in st, s \in unknown : r.key # s.key
    BY <1>4, <2>2
  <2> HIDE DEF unknown
  <2>6. \A r \in a : r.node = Node /\ r.key \in AllKeys /\ (r.at = NoTime \/ r.at \in 0..now)
    BY <1>6, <2>1, <2>2
  <2>7. \A r, s \in a : r.key = s.key => r = s
    BY <1>6, <2>3, <2>4, <2>5
  <2> QED BY <2>6, <2>7
<1> HIDE DEF unknown, blank
<1> DEFINE kept == [r \in a |-> Row(r.node, r.key, IF r.at = NoTime THEN now ELSE r.at, r.val)]
           rows == {kept[r] : r \in a}
<1>10. \A r \in a : /\ kept[r].node = Node /\ kept[r].key = r.key /\ kept[r].val = r.val
                    /\ kept[r].at = IF r.at = NoTime THEN now ELSE r.at
  BY <1>9 DEF Row
<1>11. e = Upsert(d, t, rows)
  BY <1>5 DEF storePeerChecks, UpsertCheckStatus
<1>12. IsFiniteSet(rows)
  <2> HIDE DEF kept
  <2>1. DOMAIN kept = a
    BY DEF kept
  <2> QED BY <1>7, <2>1, ImageFinite
<1> HIDE DEF kept
<1>13. Snapshot(rows)
  <2>1. ASSUME NEW r \in rows, NEW s \in rows, r.key = s.key PROVE r = s
    <3>1. PICK x \in a, y \in a : r = kept[x] /\ s = kept[y]
      BY <2>1
    <3>2. x = y
      BY <1>9, <1>10, <2>1, <3>1
    <3> QED BY <3>1, <3>2
  <2> HIDE DEF rows
  <2> QED BY <1>12, <2>1 DEF Snapshot, Apart
<1>14. OfNode(rows, Node) /\ RowsFine(rows, now, Nodes, AllKeys)
  <2>1. \A r \in a : kept[r].node = Node /\ kept[r].key \in AllKeys /\ kept[r].at \in 0..now
    <3> SUFFICES ASSUME NEW r \in a
                 PROVE  kept[r].node = Node /\ kept[r].key \in AllKeys /\ kept[r].at \in 0..now
      OBVIOUS
    <3>1. now \in 0..now
      BY <1>0
    <3> QED BY <1>9, <1>10, <3>1
  <2> QED BY <2>1, NodesApart DEF OfNode, RowsFine, RowFine
<1>15. PICK R : R = rows
  OBVIOUS
<1>16. StoredInto(d, e, {t})
  BY <1>0, <1>11, <1>13, <1>14, <1>15, RowsUpserted
<1>17. R \subseteq e[t]
  BY <1>0, <1>11, <1>13, <1>14, <1>15, RowsUpserted
<1>18. ASSUME NEW r \in a
       PROVE  \E m \in CheckStatuses(e, Node) :
                m.key = r.key /\ m.val = r.val /\ (r.at # NoTime => m.at = r.at)
  <2>1. kept[r] \in e[t]
    BY <1>15, <1>17, <1>18
  <2>2. kept[r] \in CheckStatuses(e, Node)
    BY <1>10, <2>1 DEF CheckStatuses
  <2> QED BY <1>10, <2>2
<1> QED BY <1>5, <1>16, <1>18 DEF ChecksPart

(* The part of the peer's data that a stage brings in. *)
StagePart(k, d) ==
  /\ k = 1 => MetricPart(d)
  /\ k = 2 => ChecksPart(d)
  /\ k = 3 => SamePart(d, "disk_status")
  /\ k = 4 => NetPart(d)
  /\ k = 5 => SamePart(d, "net_interface")
  /\ k = 6 => CPUPart(d)
  /\ k = 7 => SamePart(d, "cpu_core")
  /\ k = 8 => IOPart(d)
  /\ k = 9 => SamePart(d, "process_top")
  /\ k = 10 => SamePart(d, "raid_array") /\ SamePart(d, "smart_disk")
StageTables ==
  <<{"metric_sample"}, {"check_status"}, {"disk_status", "disk_usage_sample"}, {"net_sample"},
    {"net_interface"}, {"cpu_state_sample"}, {"cpu_core"}, {"disk_io_sample"}, {"process_top"},
    {"raid_array", "smart_disk"}>>

LEMMA Dispatch ==
  ASSUME FetchAndStore
  PROVE  /\ poll.stage \in 1..10
         /\ poll.stage = 1 => db' = storePeerMetrics(db, handlePeerMetrics)
         /\ poll.stage = 2 => db' = storePeerChecks(db, checksForNode)
         /\ poll.stage = 3 => db' = storePeerDisk(db, diskForNode)
         /\ poll.stage = 4 => db' = storePeerNet(db, netForNode)
         /\ poll.stage = 5 => db' = storePeerNetInterfaces(db, netIfacesForNode)
         /\ poll.stage = 6 => db' = storePeerCPUState(db, cpuStateForNode)
         /\ poll.stage = 7 => db' = storePeerCPUCores(db, coresForNode)
         /\ poll.stage = 8 => db' = storePeerDiskIO(db, diskIOForNode)
         /\ poll.stage = 9 => db' = storePeerProcesses(db, processesForNode)
         /\ poll.stage = 10 => db' = storePeerDiskHealth(db, diskHealthForNode)
<1>0. PICK k \in 1..11 : k = poll.stage /\ Stages[k] # "identity" /\ db' = Stored(Stages[k], Answer(Stages[k]))
  <2>1. DOMAIN Stages = 1..11
    BY DEF Stages
  <2>2. poll.stage \in DOMAIN Stages /\ ~At("identity")
    BY DEF FetchAndStore
  <2>3. db' = Stored(Stages[poll.stage], Answer(Stages[poll.stage]))
    BY DEF FetchAndStore
  <2>4. Stages[poll.stage] # "identity"
    BY <2>2 DEF At
  <2> QED BY <2>1, <2>2, <2>3, <2>4
<1>1. k \in 1..10
  BY <1>0 DEF Stages
<1>2. k = 1 => db' = storePeerMetrics(db, handlePeerMetrics)
  <2>1. k = 1 => Stages[k] = "metrics"
    BY DEF Stages
  <2> QED BY <1>0, <2>1 DEF Stored, Answer
<1>3. k = 2 => db' = storePeerChecks(db, checksForNode)
  <2>1. k = 2 => Stages[k] = "checks"
    BY DEF Stages
  <2> QED BY <1>0, <2>1 DEF Stored, Answer
<1>4. k = 3 => db' = storePeerDisk(db, diskForNode)
  <2>1. k = 3 => Stages[k] = "disk"
    BY DEF Stages
  <2> QED BY <1>0, <2>1 DEF Stored, Answer
<1>5. k = 4 => db' = storePeerNet(db, netForNode)
  <2>1. k = 4 => Stages[k] = "net"
    BY DEF Stages
  <2> QED BY <1>0, <2>1 DEF Stored, Answer
<1>6. k = 5 => db' = storePeerNetInterfaces(db, netIfacesForNode)
  <2>1. k = 5 => Stages[k] = "iface"
    BY DEF Stages
  <2> QED BY <1>0, <2>1 DEF Stored, Answer
<1>7. k = 6 => db' = storePeerCPUState(db, cpuStateForNode)
  <2>1. k = 6 => Stages[k] = "cpu"
    BY DEF Stages
  <2> QED BY <1>0, <2>1 DEF Stored, Answer
<1>8. k = 7 => db' = storePeerCPUCores(db, coresForNode)
  <2>1. k = 7 => Stages[k] = "cores"
    BY DEF Stages
  <2> QED BY <1>0, <2>1 DEF Stored, Answer
<1>9. k = 8 => db' = storePeerDiskIO(db, diskIOForNode)
  <2>1. k = 8 => Stages[k] = "diskio"
    BY DEF Stages
  <2> QED BY <1>0, <2>1 DEF Stored, Answer
<1>10. k = 9 => db' = storePeerProcesses(db, processesForNode)
  <2>1. k = 9 => Stages[k] = "proc"
    BY DEF Stages
  <2> QED BY <1>0, <2>1 DEF Stored, Answer
<1>11. k = 10 => db' = storePeerDiskHealth(db, diskHealthForNode)
  <2>1. k = 10 => Stages[k] = "health"
    BY DEF Stages
  <2> QED BY <1>0, <2>1 DEF Stored, Answer
<1> QED BY <1>0, <1>1, <1>2, <1>3, <1>4, <1>5, <1>6, <1>7, <1>8, <1>9, <1>10, <1>11

LEMMA StageStored ==
  ASSUME Fetching, Mirrors(db), FetchAndStore
  PROVE  StoredInto(db, db', StageTables[poll.stage]) /\ StagePart(poll.stage, db')
<1>0. PICK e : e = db'
  OBVIOUS
<1>1. CASE poll.stage = 1
  <2>1. StoredInto(db, e, {"metric_sample"}) /\ MetricPart(e)
    BY <1>0, <1>1, Dispatch, MetricsStored
  <2>2. StageTables[1] = {"metric_sample"}
    BY DEF StageTables
  <2> QED BY <1>0, <1>1, <2>1, <2>2 DEF StagePart
<1>2. CASE poll.stage = 2
  <2>1. StoredInto(db, e, {"check_status"}) /\ ChecksPart(e)
    BY <1>0, <1>2, Dispatch, ChecksStored
  <2>2. StageTables[2] = {"check_status"}
    BY DEF StageTables
  <2> QED BY <1>0, <1>2, <2>1, <2>2 DEF StagePart
<1>3. CASE poll.stage = 3
  <2>1. StoredInto(db, e, {"disk_status", "disk_usage_sample"}) /\ SamePart(e, "disk_status")
    BY <1>0, <1>3, Dispatch, DiskStored
  <2>2. StageTables[3] = {"disk_status", "disk_usage_sample"}
    BY DEF StageTables
  <2> QED BY <1>0, <1>3, <2>1, <2>2 DEF StagePart
<1>4. CASE poll.stage = 4
  <2>1. StoredInto(db, e, {"net_sample"}) /\ NetPart(e)
    BY <1>0, <1>4, Dispatch, NetStored
  <2>2. StageTables[4] = {"net_sample"}
    BY DEF StageTables
  <2> QED BY <1>0, <1>4, <2>1, <2>2 DEF StagePart
<1>5. CASE poll.stage = 5
  <2>1. e = Replace(db, "net_interface", Node, RowsOfNode(src, "net_interface"))
    BY <1>0, <1>5, Dispatch
       DEF storePeerNetInterfaces, ReplaceNetInterfaces, netIfacesForNode, NetInterfaces, RowsOfNode
  <2>2. "net_interface" \in SnapshotTables
    BY DEF SnapshotTables
  <2>3. StoredInto(db, e, {"net_interface"}) /\ SamePart(e, "net_interface")
    BY <2>1, <2>2, ReplacedPart
  <2>4. StageTables[5] = {"net_interface"}
    BY DEF StageTables
  <2> QED BY <1>0, <1>5, <2>3, <2>4 DEF StagePart
<1>6. CASE poll.stage = 6
  <2>1. StoredInto(db, e, {"cpu_state_sample"}) /\ CPUPart(e)
    BY <1>0, <1>6, Dispatch, CPUStored
  <2>2. StageTables[6] = {"cpu_state_sample"}
    BY DEF StageTables
  <2> QED BY <1>0, <1>6, <2>1, <2>2 DEF StagePart
<1>7. CASE poll.stage = 7
  <2>1. e = Replace(db, "cpu_core", Node, RowsOfNode(src, "cpu_core"))
    BY <1>0, <1>7, Dispatch DEF storePeerCPUCores, ReplacePerCore, coresForNode, PerCore, RowsOfNode
  <2>2. "cpu_core" \in SnapshotTables
    BY DEF SnapshotTables
  <2>3. StoredInto(db, e, {"cpu_core"}) /\ SamePart(e, "cpu_core")
    BY <2>1, <2>2, ReplacedPart
  <2>4. StageTables[7] = {"cpu_core"}
    BY DEF StageTables
  <2> QED BY <1>0, <1>7, <2>3, <2>4 DEF StagePart
<1>8. CASE poll.stage = 8
  <2>1. StoredInto(db, e, {"disk_io_sample"}) /\ IOPart(e)
    BY <1>0, <1>8, Dispatch, DiskIOStored
  <2>2. StageTables[8] = {"disk_io_sample"}
    BY DEF StageTables
  <2> QED BY <1>0, <1>8, <2>1, <2>2 DEF StagePart
<1>9. CASE poll.stage = 9
  <2>1. e = Replace(db, "process_top", Node, RowsOfNode(src, "process_top"))
    BY <1>0, <1>9, Dispatch
       DEF storePeerProcesses, ReplaceProcessTop, processesForNode, TopProcesses, RowsOfNode
  <2>2. "process_top" \in SnapshotTables
    BY DEF SnapshotTables
  <2>3. StoredInto(db, e, {"process_top"}) /\ SamePart(e, "process_top")
    BY <2>1, <2>2, ReplacedPart
  <2>4. StageTables[9] = {"process_top"}
    BY DEF StageTables
  <2> QED BY <1>0, <1>9, <2>3, <2>4 DEF StagePart
<1>10. CASE poll.stage = 10
  <2>1. StoredInto(db, e, {"raid_array", "smart_disk"})
    BY <1>0, <1>10, Dispatch, HealthStored
  <2>2. SamePart(e, "raid_array") /\ SamePart(e, "smart_disk")
    BY <1>0, <1>10, Dispatch, HealthStored
  <2>3. StageTables[10] = {"raid_array", "smart_disk"}
    BY DEF StageTables
  <2> QED BY <1>0, <1>10, <2>1, <2>2, <2>3 DEF StagePart
<1>11. poll.stage \in 1..10
  BY Dispatch
<1> QED BY <1>1, <1>2, <1>3, <1>4, <1>5, <1>6, <1>7, <1>8, <1>9, <1>10, <1>11

---------------------------------------------------------------------------
(* The inductive invariant of the mirror: what the variables are, and that *)
(* no series of the peer runs ahead of the peer.                           *)
DisplayNames == Names \cup {""}
Fetched == {None} \cup [name : DisplayNames]
Polls   == [stage : 0..12, name : Fetched, clean : BOOLEAN]
Peers   == {None} \cup [status : {"unknown", "ok", "down"}, enabled : BOOLEAN]
MirrorInv ==
  /\ Fetching /\ Mirrors(db)
  /\ poll \in Polls /\ peer \in Peers /\ renaming \in Fetched
  /\ srcAlias \in DisplayNames /\ alias \in DisplayNames
  /\ deleting \in 0..13 /\ raced \in BOOLEAN

LEMMA Lengths == Len(Stages) = 11 /\ DOMAIN Stages = 1..11 /\ Len(DeleteNodeData) = 11
BY DEF Stages, DeleteNodeData

(* Rows that are dropped from a series do not bring it ahead. *)
LEMMA FewerAhead ==
  ASSUME NEW d, NEW e, NEW t, NotAhead(d, src, t), ToSet(e[t]) \subseteq ToSet(d[t])
  PROVE  NotAhead(e, src, t)
BY DEF NotAhead

(* The peer's next cycle: what it drops is older than all it keeps. *)
LEMMA CycleAhead ==
  ASSUME NEW d, NEW s1, NEW s2, NEW t \in SeriesTables, NEW top \in Nat, NEW at \in Nat, top <= at,
         \A r \in ToSet(d[t]) : r.at \in 0..top,
         \A r \in ToSet(s1[t]) : r.at \in 0..top,
         Cycled(s1, s2, at), NotAhead(d, s1, t)
  PROVE  NotAhead(d, s2, t)
<1>0. Retention \in Nat
  BY CollectorAssumption
<1>1. PICK f : Grows(s1, f, at) /\ Pruned(f, s2, at)
  BY DEF Cycled
<1>2. \A r \in ToSet(f[t]) : r \in ToSet(s1[t]) \/ r.at = at
  BY <1>1 DEF Grows
<1>3. ToSet(s1[t]) \subseteq ToSet(f[t])
  BY <1>1 DEF Grows
<1>4. ToSet(s2[t]) = {r \in ToSet(f[t]) : Retention > 0 => r.at >= at - Retention}
  BY <1>1 DEF Pruned
<1> SUFFICES ASSUME NEW m \in ToSet(d[t]), m.node = Node, NEW x \in ToSet(s2[t])
             PROVE  \E r \in ToSet(s2[t]) : m.at <= r.at
  BY DEF NotAhead
<1>5. m.at \in 0..top /\ x \in ToSet(f[t]) /\ (Retention > 0 => x.at >= at - Retention)
  BY <1>4
<1>6. CASE x.at = at
  BY <1>5, <1>6
<1>7. CASE x \in ToSet(s1[t])
  <2>1. PICK r \in ToSet(s1[t]) : m.at <= r.at
    BY <1>7 DEF NotAhead
  <2>2. r \in ToSet(f[t]) /\ r.at \in 0..top /\ x.at \in 0..top
    BY <1>3, <1>7, <2>1
  <2>3. CASE Retention > 0 => r.at >= at - Retention
    <3>1. r \in ToSet(s2[t])
      BY <1>4, <2>2, <2>3
    <3> QED BY <2>1, <3>1
  <2>4. CASE Retention > 0 /\ ~(r.at >= at - Retention)
    <3>1. m.at <= x.at
      BY <1>0, <1>5, <2>1, <2>2, <2>4
    <3> QED BY <3>1
  <2> QED BY <2>3, <2>4
<1> QED BY <1>2, <1>5, <1>6, <1>7

LEMMA Same ==
  ASSUME Fetching, Mirrors(db), UNCHANGED <<collectorVars, checks, db>>
  PROVE  Fetching' /\ Mirrors(db)'
<1>1. UNCHANGED <<now, host, prev, src>>
  BY DEF collectorVars
<1>2. CollectorInv(AllKeys)'
  BY <1>1, CollectorInvStable DEF Fetching
<1> QED BY <1>1, <1>2 DEF Fetching, Mirrors

LEMMA CollectKeeps ==
  ASSUME Fetching, Mirrors(db), Collect
  PROVE  Fetching' /\ Mirrors(db)'
<1>1. CollectorNext /\ checks' = checks /\ db' = db
  BY DEF Collect
<1>2. Units \cup {NoKey} \subseteq AllKeys /\ CollectorInv(AllKeys)
  BY NodesApart DEF Fetching
<1>3. CollectorInv(AllKeys)'
  BY <1>1, <1>2, CycleKeeps
<1>4. now <= now' /\ (src' = src \/ Cycled(src, src', now'))
  BY <1>1, <1>2, CycleKeeps
<1>5. now \in Nat /\ now' \in Nat
  BY <1>2, <1>3 DEF CollectorInv
<1>6. Fine(db, now', Nodes, AllKeys)
  <2>1. PICK later \in Nat : later = now'
    BY <1>5
  <2>2. Fine(db, later, Nodes, AllKeys)
    BY <1>4, <1>5, <2>1, LaterIsFine DEF Mirrors
  <2> QED BY <2>1, <2>2
<1>7. ASSUME NEW t \in LatestTables PROVE NotAhead(db, src', t)
  <2>1. t \in SeriesTables /\ t \in Tables /\ NotAhead(db, src, t)
    BY LatestAreSeries DEF Mirrors
  <2>2. CASE src' = src
    BY <2>1, <2>2
  <2>3. CASE Cycled(src, src', now')
    <3>1. \A r \in ToSet(db[t]) : r.at \in 0..now
      <4>1. RowsOf(db, t) = ToSet(db[t])
        BY <2>1, RowsOfKind
      <4> QED BY <2>1, <4>1 DEF Mirrors, Fine, RowFine
    <3>2. \A r \in ToSet(src[t]) : r.at \in 0..now
      <4>1. RowsFine(RowsOf(src, t), now, {Node}, AllKeys) /\ RowsOf(src, t) = ToSet(src[t])
        BY <2>1, SourceRows
      <4> QED BY <4>1 DEF RowsFine, RowFine
    <3>3. PICK later \in Nat : later = now' /\ now <= later
      BY <1>4, <1>5
    <3>4. NotAhead(db, src', t)
      BY <1>5, <2>1, <2>3, <3>1, <3>2, <3>3, CycleAhead
    <3> QED BY <3>4
  <2> QED BY <1>4, <2>2, <2>3
<1> QED BY <1>1, <1>3, <1>6, <1>7 DEF Fetching, Mirrors

(* A statement on the peer's check results leaves its series alone. *)
LEMMA SourceSnapshot ==
  ASSUME Fetching, Mirrors(db), NEW t \in SnapshotTables, Writes(src, src', t),
         Fine(src', now, {Node}, AllKeys), UNCHANGED <<now, host, prev, db>>, checks' \subseteq checks
  PROVE  Fetching' /\ Mirrors(db)'
<1>1. CollectorInv(AllKeys)'
  BY DEF Fetching, CollectorInv
<1>2. \A u \in LatestTables : src'[u] = src[u]
  BY LatestAreSeries, TableKinds DEF Writes
<1>3. \A u \in LatestTables : NotAhead(db, src', u)
  BY <1>2 DEF Mirrors, NotAhead
<1> QED BY <1>1, <1>3 DEF Fetching, Mirrors

LEMMA CheckRunsKeeps ==
  ASSUME Fetching, Mirrors(db), NEW c, NEW status, CheckRuns(c, status)
  PROVE  Fetching' /\ Mirrors(db)'
<1>1. PICK r : r = Row(Node, c, now, status)
  OBVIOUS
<1>2. PICK rows : rows = {r}
  OBVIOUS
<1>3. "check_status" \in SnapshotTables /\ now \in Nat /\ now \in Int
  BY SourceRows DEF SnapshotTables
<1>4. RowFine(r, now, {Node}, AllKeys)
  BY <1>1, <1>3 DEF Row, RowFine, AllKeys, Fetching, CheckRuns
<1>5. Snapshot(rows) /\ RowsFine(rows, now, {Node}, AllKeys)
  BY <1>2, <1>4, FS_Singleton DEF Snapshot, Apart, RowsFine
<1>6. src' = Upsert(src, "check_status", rows)
  BY <1>1, <1>2 DEF CheckRuns, UpsertCheckStatus
<1>7. Fine(src, now, {Node}, AllKeys)
  BY DEF Fetching, CollectorInv
<1>8. Fine(src', now, {Node}, AllKeys)
  BY <1>3, <1>5, <1>6, <1>7, UpsertFine
<1>9. Writes(src, src', "check_status")
  BY <1>3, <1>6, <1>7, UpsertOp DEF Fine
<1>10. UNCHANGED <<now, host, prev, db>> /\ checks' \subseteq checks
  BY DEF CheckRuns
<1> QED BY <1>3, <1>8, <1>9, <1>10, SourceSnapshot

LEMMA CheckDeletedKeeps ==
  ASSUME Fetching, Mirrors(db), NEW c, CheckDeleted(c)
  PROVE  Fetching' /\ Mirrors(db)'
<1> DEFINE t == "check_status"
<1>1. t \in SnapshotTables /\ t \in Tables /\ t \notin SeriesTables /\ now \in Int
  BY SourceRows DEF SnapshotTables, SeriesTables, Tables
<1>2. Fine(src, now, {Node}, AllKeys)
  BY DEF Fetching, CollectorInv
<1>3. src' = DeleteCheckStatus(src, Node, c)
  BY DEF CheckDeleted
<1>4. Writes(src, src', t) /\ src'[t] \subseteq src[t]
  BY <1>2, <1>3, DeleteCheckOp DEF Fine
<1>5. RowsOf(src', t) \subseteq RowsOf(src, t)
  BY <1>1, <1>4, RowsOfKind
<1>6. Fine(src', now, {Node}, AllKeys)
  BY <1>1, <1>2, <1>4, <1>5, FewerFine
<1>7. UNCHANGED <<now, host, prev, db>> /\ checks' \subseteq checks
  BY DEF CheckDeleted
<1> QED BY <1>1, <1>4, <1>6, <1>7, SourceSnapshot

LEMMA StoreKeeps ==
  ASSUME Fetching, Mirrors(db), FetchAndStore
  PROVE  Fetching' /\ Mirrors(db)'
<1>1. UNCHANGED <<now, host, prev, src, checks>>
  BY DEF FetchAndStore, source, collectorVars
<1>2. Mirrors(db')
  BY StageStored DEF StoredInto
<1>3. CollectorInv(AllKeys)'
  BY <1>1, CollectorInvStable DEF Fetching
<1>4. Fetching'
  BY <1>1, <1>3 DEF Fetching
<1>5. Mirrors(db)'
  BY <1>1, <1>2 DEF Mirrors
<1> QED BY <1>4, <1>5

LEMMA DeletedTable ==
  ASSUME Delete, deleting \in 0..13
  PROVE  /\ deleting \in 1..11 => /\ DeleteNodeData[deleting] \in Tables
                                  /\ db' = DeleteNode(db, DeleteNodeData[deleting], Node)
                                  /\ peer' = peer /\ alias' = alias /\ deleting' = deleting + 1
         /\ deleting = 12 => db' = db /\ peer' = None /\ alias' = alias /\ deleting' = 13
         /\ deleting = 13 => db' = db /\ peer' = peer /\ alias' = "" /\ deleting' = 0
         /\ deleting \in 1..13
<1>1. Len(DeleteNodeData) = 11
  BY Lengths
<1>2. \A i \in 1..11 : DeleteNodeData[i] \in Tables
  BY DEF DeleteNodeData, Tables, SeriesTables, SnapshotTables
<1>3. deleting \in 1..13
  <2>1. deleting > 0
    BY DEF Delete
  <2> QED BY <2>1
<1>4. /\ db' = IF deleting <= 11 THEN DeleteNode(db, DeleteNodeData[deleting], Node) ELSE db
      /\ peer' = IF deleting = 12 THEN None ELSE peer
      /\ alias' = IF deleting = 13 THEN "" ELSE alias
      /\ deleting' = IF deleting = 13 THEN 0 ELSE deleting + 1
  <2>1. 11 + 1 = 12 /\ 11 + 2 = 13
    OBVIOUS
  <2> QED BY <1>1, <2>1 DEF Delete
<1>5. CASE deleting \in 1..11
  <2>1. deleting <= 11 /\ deleting # 12 /\ deleting # 13
    BY <1>5
  <2> QED BY <1>2, <1>3, <1>4, <1>5, <2>1
<1>6. CASE deleting = 12
  BY <1>3, <1>4, <1>6
<1>7. CASE deleting = 13
  <2>1. ~(deleting <= 11) /\ deleting # 12
    BY <1>7
  <2>2. db' = db /\ peer' = peer
    BY <1>4, <2>1
  <2>3. alias' = ""
    BY <1>4, <1>7
  <2>4. deleting' = 0
    BY <1>4, <1>7
  <2>5. deleting # 12 /\ deleting \notin 1..11
    BY <1>7
  <2> HIDE <1>4
  <2> QED BY <1>3, <1>7, <2>2, <2>3, <2>4, <2>5
<1> QED BY <1>3, <1>5, <1>6, <1>7

LEMMA DeleteKeeps ==
  ASSUME Fetching, Mirrors(db), deleting \in 0..13, Delete
  PROVE  Fetching' /\ Mirrors(db)'
<1>1. UNCHANGED <<now, host, prev, src, checks>>
  BY DEF Delete, source, collectorVars
<1>2. CASE db' = db
  BY <1>1, <1>2, Same DEF Delete, source
<1>3. CASE deleting \in 1..11
  <2>1. PICK t \in Tables : db' = DeleteNode(db, t, Node)
    BY <1>3, DeletedTable
  <2>2. now \in Int /\ Fine(db, now, Nodes, AllKeys)
    BY SourceRows DEF Mirrors
  <2>3. PICK e : e = DeleteNode(db, t, Node)
    OBVIOUS
  <2>4. Fine(e, now, Nodes, AllKeys) /\ RowsOf(e, t) = RowsBut(RowsOf(db, t), Node)
    <3>1. Fine(e, now, Nodes, AllKeys)
      BY <2>2, <2>3, DeleteFine
    <3>2. RowsOf(e, t) = RowsBut(RowsOf(db, t), Node)
      BY <2>2, <2>3, DeleteFine
    <3> QED BY <3>1, <3>2
  <2>5. Writes(db, e, t)
    BY <2>2, <2>3, DeleteOp DEF Fine
  <2>6. ASSUME NEW u \in LatestTables PROVE NotAhead(e, src, u)
    <3>1. u \in Tables /\ u \in SeriesTables /\ NotAhead(db, src, u)
      BY LatestAreSeries DEF Mirrors
    <3>2. ToSet(e[u]) \subseteq ToSet(db[u])
      <4>1. CASE u = t
        BY <2>4, <3>1, <4>1, RowsOfKind DEF RowsBut
      <4>2. CASE u # t
        BY <2>5, <3>1, <4>2 DEF Writes
      <4> QED BY <4>1, <4>2
    <3> QED BY <3>1, <3>2, FewerAhead
  <2>7. Mirrors(db')
    BY <2>1, <2>3, <2>4, <2>6 DEF Mirrors
  <2>8. CollectorInv(AllKeys)'
    BY <1>1, CollectorInvStable DEF Fetching
  <2>9. Fetching'
    BY <1>1, <2>8 DEF Fetching
  <2> QED BY <1>1, <2>7, <2>9 DEF Mirrors
<1>4. deleting \in 1..11 \/ db' = db
  <2>1. deleting \in 1..13
    BY DeletedTable
  <2>2. deleting \in {12, 13} => db' = db
    BY DeletedTable
  <2> QED BY <2>1, <2>2
<1> QED BY <1>2, <1>3, <1>4

LEMMA PruneKeeps ==
  ASSUME Fetching, Mirrors(db), PruneOwn
  PROVE  Fetching' /\ Mirrors(db)'
<1>1. UNCHANGED <<now, host, prev, src, checks>>
  BY DEF PruneOwn, source, collectorVars
<1>2. now \in Int /\ Fine(db, now, Nodes, AllKeys)
  BY SourceRows DEF Mirrors
<1>3. PICK e : e = prune(db, now)
  OBVIOUS
<1>4. Fine(e, now, Nodes, AllKeys) /\ Pruned(db, e, now)
  BY <1>2, <1>3, PruneSteps
<1>5. \A u \in LatestTables : NotAhead(e, src, u)
  <2> SUFFICES ASSUME NEW u \in LatestTables PROVE NotAhead(e, src, u)
    OBVIOUS
  <2>1. u \in SeriesTables /\ NotAhead(db, src, u)
    BY LatestAreSeries DEF Mirrors
  <2>2. ToSet(e[u]) \subseteq ToSet(db[u])
    BY <1>4, <2>1 DEF Pruned
  <2> QED BY <2>1, <2>2, FewerAhead
<1>6. Mirrors(db')
  BY <1>3, <1>4, <1>5 DEF Mirrors, PruneOwn
<1>7. CollectorInv(AllKeys)'
  BY <1>1, CollectorInvStable DEF Fetching
<1>8. Fetching'
  BY <1>1, <1>7 DEF Fetching
<1> QED BY <1>1, <1>6, <1>8 DEF Mirrors

(* What no other action changes. *)
LEMMA DataKept ==
  ASSUME MirrorInv, [Next]_vars
  PROVE  Fetching' /\ Mirrors(db)'
<1>0. Fetching /\ Mirrors(db) /\ deleting \in 0..13
  BY DEF MirrorInv
<1>1. CASE Collect
  BY <1>0, <1>1, CollectKeeps
<1>2. CASE \E c \in Checks : CheckDeleted(c)
  BY <1>0, <1>2, CheckDeletedKeeps
<1>3. CASE \E c \in Checks, s \in {"ok", "failing"} : CheckRuns(c, s)
  BY <1>0, <1>3, CheckRunsKeeps
<1>4. CASE FetchAndStore
  BY <1>0, <1>4, StoreKeeps
<1>5. CASE Delete
  BY <1>0, <1>5, DeleteKeeps
<1>6. CASE PruneOwn
  BY <1>0, <1>6, PruneKeeps
<1>7. CASE StartPoll \/ FetchIdentity \/ storePeerIdentity \/ FetchFails \/ EndPoll
  <2>1. UNCHANGED <<collectorVars, checks, db>>
    BY <1>7 DEF StartPoll, FetchIdentity, storePeerIdentity, FetchFails, EndPoll, source
  <2> QED BY <1>0, <2>1, Same
<1>8. CASE StartDelete \/ handleCreatePeer \/ Mute \/ (\E n \in Names : Rename(n)) \/ RenameMirrored
  <2>1. UNCHANGED <<collectorVars, checks, db>>
    BY <1>8 DEF StartDelete, handleCreatePeer, Mute, Rename, RenameMirrored, source
  <2> QED BY <1>0, <2>1, Same
<1>9. CASE UNCHANGED vars
  <2>1. UNCHANGED <<collectorVars, checks, db>>
    BY <1>9 DEF vars
  <2> QED BY <1>0, <2>1, Same
<1> QED BY <1>1, <1>2, <1>3, <1>4, <1>5, <1>6, <1>7, <1>8, <1>9 DEF Next

(* The poll in flight. *)
LEMMA PollSets ==
  ASSUME poll \in Polls
  PROVE  /\ poll.stage \in 0..12 /\ poll.name \in Fetched /\ poll.clean \in BOOLEAN
         /\ Idle \in Polls
         /\ poll.stage \in 0..11 => NextStage \in Polls
         /\ [poll EXCEPT !.clean = FALSE] \in Polls
<1>1. poll.stage \in 0..12 /\ poll.name \in Fetched /\ poll.clean \in BOOLEAN
  BY DEF Polls
<1>2. None \in Fetched
  BY DEF Fetched
<1>3. Idle \in Polls
  BY <1>1, <1>2 DEF Idle, Polls
<1>4. poll.stage \in 0..11 => NextStage \in Polls
  <2> SUFFICES ASSUME poll.stage \in 0..11 PROVE NextStage \in Polls
    OBVIOUS
  <2>1. PICK n \in 0..12 : n = poll.stage + 1
    BY <1>1
  <2> QED BY <1>1, <1>2, <2>1 DEF NextStage, Polls
<1>5. [poll EXCEPT !.clean = FALSE] \in Polls
  BY DEF Polls
<1> QED BY <1>1, <1>3, <1>4, <1>5

LEMMA NameFetched ==
  ASSUME NEW n \in Fetched, n # None
  PROVE  n.name \in DisplayNames
BY DEF Fetched

LEMMA StagesOfPoll ==
  /\ poll.stage \in DOMAIN Stages <=> poll.stage \in 1..11
  /\ At("identity") <=> poll.stage = 11
  /\ At("metrics") <=> poll.stage = 1
<1>1. \A k \in 1..11 : Stages[k] = "identity" <=> k = 11
  BY DEF Stages
<1>2. \A k \in 1..11 : Stages[k] = "metrics" <=> k = 1
  BY DEF Stages
<1> QED BY <1>1, <1>2, Lengths DEF At

LEMMA PollKept ==
  ASSUME MirrorInv, [Next]_vars
  PROVE  poll' \in Polls
<1>0. poll \in Polls /\ srcAlias \in DisplayNames
  BY DEF MirrorInv
<1>1. poll.stage \in 0..12 /\ poll.name \in Fetched /\ poll.clean \in BOOLEAN
  BY <1>0, PollSets
<1>2. CASE Unclean
  BY <1>0, <1>2, PollSets DEF Unclean
<1>3. CASE UNCHANGED poll
  BY <1>0, <1>3
<1>4. CASE StartPoll
  <2>1. poll' = [stage |-> 1, name |-> None, clean |-> TRUE]
    BY <1>4 DEF StartPoll
  <2>2. 1 \in 0..12 /\ None \in Fetched /\ TRUE \in BOOLEAN
    BY DEF Fetched
  <2> QED BY <2>1, <2>2 DEF Polls
<1>5. CASE FetchAndStore
  <2>1. poll' = NextStage /\ poll.stage \in 1..10
    BY <1>5, Dispatch DEF FetchAndStore
  <2> QED BY <1>0, <2>1, PollSets
<1>6. CASE FetchFails
  <2>1. poll' = [(IF At("metrics") THEN Idle ELSE NextStage) EXCEPT !.clean = FALSE]
    BY <1>6 DEF FetchFails
  <2>2. poll.stage \in 1..11
    BY <1>6, StagesOfPoll DEF FetchFails
  <2>3. Idle \in Polls /\ NextStage \in Polls
    BY <1>0, <2>2, PollSets
  <2>4. PICK p \in Polls : poll' = [p EXCEPT !.clean = FALSE]
    <3>1. CASE At("metrics")
      BY <2>1, <2>3, <3>1
    <3>2. CASE ~At("metrics")
      BY <2>1, <2>3, <3>2
    <3> QED BY <3>1, <3>2
  <2> QED BY <2>4 DEF Polls
<1>7. CASE FetchIdentity
  <2>1. poll' = [poll EXCEPT !.name = [name |-> srcAlias]]
    BY <1>7 DEF FetchIdentity, handlePeerIdentity
  <2>2. [name |-> srcAlias] \in Fetched
    BY <1>0 DEF Fetched
  <2> QED BY <1>0, <2>1, <2>2 DEF Polls
<1>8. CASE storePeerIdentity
  <2>1. poll' = NextStage /\ poll.stage = 11
    BY <1>8, StagesOfPoll DEF storePeerIdentity
  <2>2. poll.stage \in 0..11
    BY <2>1
  <2> QED BY <1>0, <2>1, <2>2, PollSets
<1>9. CASE EndPoll
  BY <1>0, <1>9, PollSets DEF EndPoll
<1>10. \/ Unclean \/ UNCHANGED poll \/ StartPoll \/ FetchAndStore \/ FetchFails \/ FetchIdentity
       \/ storePeerIdentity \/ EndPoll
  <2>1. CASE Collect \/ Delete \/ RenameMirrored \/ PruneOwn
    BY <2>1 DEF Collect, Delete, RenameMirrored, PruneOwn
  <2>2. CASE \E c \in Checks : CheckDeleted(c) \/ \E s \in {"ok", "failing"} : CheckRuns(c, s)
    BY <2>2 DEF CheckDeleted, CheckRuns
  <2>3. CASE \E n \in Names : Rename(n)
    BY <2>3 DEF Rename
  <2>4. CASE StartDelete \/ handleCreatePeer \/ Mute
    BY <2>4 DEF StartDelete, handleCreatePeer, Mute
  <2>5. CASE UNCHANGED vars
    BY <2>5 DEF vars
  <2> QED BY <2>1, <2>2, <2>3, <2>4, <2>5 DEF Next
<1> QED BY <1>2, <1>3, <1>4, <1>5, <1>6, <1>7, <1>8, <1>9, <1>10

(* The peer's row. *)
LEMMA PeerStatus ==
  ASSUME peer \in Peers, NEW s \in {"unknown", "ok", "down"}, SetStatus(s)
  PROVE  peer' \in Peers
<1>1. CASE peer = None
  BY <1>1 DEF SetStatus, Peers
<1>2. CASE peer # None
  <2>1. peer \in [status : {"unknown", "ok", "down"}, enabled : BOOLEAN]
    BY <1>2 DEF Peers
  <2>2. peer' = [peer EXCEPT !.status = s]
    BY <1>2 DEF SetStatus
  <2> QED BY <2>1, <2>2 DEF Peers
<1> QED BY <1>1, <1>2

LEMMA PeerKept ==
  ASSUME MirrorInv, [Next]_vars
  PROVE  peer' \in Peers
<1>0. peer \in Peers /\ deleting \in 0..13
  BY DEF MirrorInv
<1>1. CASE UNCHANGED peer
  BY <1>0, <1>1
<1>2. CASE SetStatus("down") \/ SetStatus("ok")
  BY <1>0, <1>2, PeerStatus
<1>3. CASE Delete
  <2>1. peer' = peer \/ peer' = None
    BY <1>3 DEF Delete
  <2> QED BY <1>0, <2>1 DEF Peers
<1>4. CASE handleCreatePeer
  <2>1. PICK muted \in BOOLEAN : peer' = [status |-> "unknown", enabled |-> ~muted]
    BY <1>4 DEF handleCreatePeer
  <2> QED BY <2>1 DEF Peers
<1>5. CASE Mute
  <2>1. peer # None /\ peer' = [peer EXCEPT !.enabled = ~@]
    BY <1>5 DEF Mute
  <2>2. peer \in [status : {"unknown", "ok", "down"}, enabled : BOOLEAN]
    BY <1>0, <2>1 DEF Peers
  <2>3. peer' \in [status : {"unknown", "ok", "down"}, enabled : BOOLEAN]
    BY <2>1, <2>2
  <2> QED BY <2>3 DEF Peers
<1>6. \/ UNCHANGED peer \/ SetStatus("down") \/ SetStatus("ok") \/ Delete \/ handleCreatePeer \/ Mute
  <2>1. CASE Collect \/ RenameMirrored \/ PruneOwn
    BY <2>1 DEF Collect, RenameMirrored, PruneOwn
  <2>2. CASE \E c \in Checks : CheckDeleted(c) \/ \E s \in {"ok", "failing"} : CheckRuns(c, s)
    BY <2>2 DEF CheckDeleted, CheckRuns
  <2>3. CASE \E n \in Names : Rename(n)
    BY <2>3 DEF Rename
  <2>4. CASE StartDelete \/ StartPoll \/ FetchAndStore \/ FetchIdentity \/ storePeerIdentity
    BY <2>4 DEF StartDelete, StartPoll, FetchAndStore, FetchIdentity, storePeerIdentity
  <2>5. CASE FetchFails \/ EndPoll
    BY <2>5 DEF FetchFails, EndPoll
  <2>6. CASE UNCHANGED vars
    BY <2>6 DEF vars
  <2> QED BY <2>1, <2>2, <2>3, <2>4, <2>5, <2>6 DEF Next
<1> QED BY <1>1, <1>2, <1>3, <1>4, <1>5, <1>6

(* Names, and where a deletion is. *)
LEMMA NamesKept ==
  ASSUME MirrorInv, [Next]_vars
  PROVE  srcAlias' \in DisplayNames /\ alias' \in DisplayNames /\ renaming' \in Fetched
<1>0. /\ srcAlias \in DisplayNames /\ alias \in DisplayNames /\ renaming \in Fetched
      /\ poll \in Polls /\ None \in Fetched /\ "" \in DisplayNames
  BY DEF MirrorInv, Fetched, DisplayNames
<1>1. CASE UNCHANGED <<srcAlias, alias, renaming>>
  BY <1>0, <1>1
<1>2. CASE storePeerIdentity
  <2>1. alias' = poll.name.name /\ poll.name # None /\ srcAlias' = srcAlias /\ renaming' = renaming
    BY <1>2 DEF storePeerIdentity, source
  <2> QED BY <1>0, <2>1, PollSets, NameFetched
<1>3. CASE Delete
  <2>1. (alias' = alias \/ alias' = "") /\ srcAlias' = srcAlias /\ renaming' = renaming
    BY <1>3 DEF Delete, source
  <2> QED BY <1>0, <2>1
<1>4. ASSUME NEW n \in Names, Rename(n)
      PROVE  srcAlias' \in DisplayNames /\ alias' \in DisplayNames /\ renaming' \in Fetched
  <2>1. srcAlias' = n /\ renaming' = [name |-> n] /\ alias' = alias
    BY <1>4 DEF Rename
  <2>2. n \in DisplayNames
    BY DEF DisplayNames
  <2>3. [name |-> n] \in Fetched
    BY <2>2 DEF Fetched
  <2> QED BY <1>0, <2>1, <2>2, <2>3
<1>5. CASE RenameMirrored
  <2>1. renaming # None /\ alias' = renaming.name /\ renaming' = None /\ srcAlias' = srcAlias
    BY <1>5 DEF RenameMirrored, source
  <2> QED BY <1>0, <2>1, NameFetched
<1>6. \/ UNCHANGED <<srcAlias, alias, renaming>> \/ storePeerIdentity \/ Delete
      \/ (\E n \in Names : Rename(n)) \/ RenameMirrored
  <2>1. CASE Collect \/ PruneOwn
    BY <2>1 DEF Collect, PruneOwn, source
  <2>2. CASE \E c \in Checks : CheckDeleted(c) \/ \E s \in {"ok", "failing"} : CheckRuns(c, s)
    BY <2>2 DEF CheckDeleted, CheckRuns
  <2>3. CASE StartDelete \/ handleCreatePeer \/ Mute
    BY <2>3 DEF StartDelete, handleCreatePeer, Mute, source
  <2>4. CASE StartPoll \/ FetchAndStore \/ FetchIdentity \/ FetchFails \/ EndPoll
    BY <2>4 DEF StartPoll, FetchAndStore, FetchIdentity, FetchFails, EndPoll, source
  <2>5. CASE UNCHANGED vars
    BY <2>5 DEF vars
  <2> QED BY <2>1, <2>2, <2>3, <2>4, <2>5 DEF Next
<1> QED BY <1>1, <1>2, <1>3, <1>4, <1>5, <1>6

LEMMA DeletionKept ==
  ASSUME MirrorInv, [Next]_vars
  PROVE  deleting' \in 0..13 /\ raced' \in BOOLEAN
<1>0. deleting \in 0..13 /\ raced \in BOOLEAN
  BY DEF MirrorInv
<1>1. CASE UNCHANGED <<deleting, raced>>
  BY <1>0, <1>1
<1>2. CASE Stores /\ deleting' = deleting
  BY <1>0, <1>2 DEF Stores
<1>3. CASE RenameMirrored
  BY <1>0, <1>3 DEF RenameMirrored
<1>4. CASE StartDelete
  <2>1. deleting' = 1 /\ raced' = FALSE
    BY <1>4 DEF StartDelete
  <2>2. deleting' \in 0..13
    BY <2>1
  <2>3. raced' \in BOOLEAN
    BY <2>1
  <2> QED BY <2>2, <2>3
<1>5. CASE Delete
  <2>1. raced' = raced
    BY <1>5 DEF Delete
  <2>2. deleting \in 1..11 => deleting' = deleting + 1
    BY <1>0, <1>5, DeletedTable
  <2>3. deleting = 12 => deleting' = 13
    BY <1>0, <1>5, DeletedTable
  <2>4. deleting = 13 => deleting' = 0
    BY <1>0, <1>5, DeletedTable
  <2>5. deleting \in 1..13
    BY <1>0, <1>5, DeletedTable
  <2>6. deleting' \in 0..13
    BY <2>2, <2>3, <2>4, <2>5
  <2> QED BY <1>0, <2>1, <2>6
<1>6. \/ UNCHANGED <<deleting, raced>> \/ (Stores /\ deleting' = deleting) \/ RenameMirrored
      \/ StartDelete \/ Delete
  <2>1. CASE Collect \/ PruneOwn
    BY <2>1 DEF Collect, PruneOwn
  <2>2. CASE \E c \in Checks : CheckDeleted(c) \/ \E s \in {"ok", "failing"} : CheckRuns(c, s)
    BY <2>2 DEF CheckDeleted, CheckRuns
  <2>3. CASE handleCreatePeer \/ Mute
    BY <2>3 DEF handleCreatePeer, Mute
  <2>4. CASE StartPoll \/ FetchIdentity \/ FetchFails \/ EndPoll
    BY <2>4 DEF StartPoll, FetchIdentity, FetchFails, EndPoll
  <2>5. CASE FetchAndStore \/ storePeerIdentity
    BY <2>5 DEF FetchAndStore, storePeerIdentity
  <2>6. CASE \E n \in Names : Rename(n)
    BY <2>6 DEF Rename
  <2>7. CASE UNCHANGED vars
    BY <2>7 DEF vars
  <2> QED BY <2>1, <2>2, <2>3, <2>4, <2>5, <2>6, <2>7 DEF Next
<1> QED BY <1>1, <1>2, <1>3, <1>4, <1>5, <1>6

LEMMA MirrorStep == MirrorInv /\ [Next]_vars => MirrorInv'
<1> SUFFICES ASSUME MirrorInv, [Next]_vars PROVE MirrorInv'
  OBVIOUS
<1>1. Fetching' /\ Mirrors(db)'
  BY DataKept
<1>2. poll' \in Polls /\ peer' \in Peers
  BY PollKept, PeerKept
<1>3. srcAlias' \in DisplayNames /\ alias' \in DisplayNames /\ renaming' \in Fetched
  BY NamesKept
<1>4. deleting' \in 0..13 /\ raced' \in BOOLEAN
  BY DeletionKept
<1> QED BY <1>1, <1>2, <1>3, <1>4 DEF MirrorInv

LEMMA MirrorStarts == Init => MirrorInv
<1> SUFFICES ASSUME Init PROVE MirrorInv
  OBVIOUS
<1>1. CollectorInit /\ checks = Checks
  BY DEF Init
<1>2. Fetching
  BY <1>1, CollectorStarts DEF Fetching
<1>3. now = 0
  BY <1>1 DEF CollectorInit
<1> DEFINE own == Row(Own, NoKey, 0, 0)
<1>4. db = [t \in Tables |-> IF t \in SeriesTables THEN <<own>> ELSE {own}]
  BY DEF Init, OwnRow
<1>5. own.node = Own /\ own.key = NoKey /\ own.at = 0
  BY DEF Row
<1> HIDE DEF own
<1>6. DOMAIN db = Tables /\ \A t \in SeriesTables : db[t] = <<own>>
  BY <1>4, TableKinds
<1>7. \A t \in SnapshotTables : db[t] = {own}
  BY <1>4, TableKinds
<1>8. \A t \in SeriesTables : IsSeq(db[t]) /\ ToSet(db[t]) = {own}
  BY <1>6, Single
<1>9. \A t \in SnapshotTables : Snapshot(db[t])
  BY <1>7, FS_Singleton DEF Snapshot, Apart
<1>10. RowFine(own, 0, Nodes, AllKeys)
  BY <1>5 DEF RowFine, Nodes, AllKeys
<1>11. \A t \in Tables : RowsOf(db, t) = {own}
  BY <1>7, <1>8, TableKinds, RowsOfKind
<1>12. Fine(db, now, Nodes, AllKeys)
  BY <1>3, <1>6, <1>8, <1>9, <1>10, <1>11 DEF Fine
<1>13. \A t \in LatestTables : NotAhead(db, src, t)
  BY <1>5, <1>8, LatestAreSeries, MirrorAssumption DEF NotAhead
<1>14. poll \in Polls
  <2>1. poll = [stage |-> 0, name |-> None, clean |-> FALSE]
    BY DEF Init
  <2>2. 0 \in 0..12 /\ None \in Fetched
    BY DEF Fetched
  <2> QED BY <2>1, <2>2 DEF Polls
<1>15. peer \in Peers
  <2>1. peer = [status |-> "unknown", enabled |-> TRUE]
    BY DEF Init
  <2> QED BY <2>1 DEF Peers
<1>16. srcAlias \in DisplayNames /\ alias \in DisplayNames /\ renaming \in Fetched
  BY DEF Init, DisplayNames, Fetched
<1>17. deleting \in 0..13 /\ raced \in BOOLEAN
  <2>1. deleting = 0 /\ raced = FALSE
    BY DEF Init
  <2>2. deleting \in 0..13
    BY <2>1
  <2>3. raced \in BOOLEAN
    BY <2>1
  <2> QED BY <2>2, <2>3
<1> QED BY <1>2, <1>12, <1>13, <1>14, <1>15, <1>16, <1>17 DEF MirrorInv, Mirrors

LEMMA MirrorAlways == Spec => []MirrorInv
BY MirrorStarts, MirrorStep, PTL DEF Spec

LEMMA MirrorShapes == MirrorInv => TypeOK
<1> SUFFICES ASSUME MirrorInv PROVE TypeOK
  OBVIOUS
<1>0. Fetching /\ Mirrors(db)
  BY DEF MirrorInv
<1>1. now \in Nat /\ Fine(src, now, {Node}, AllKeys)
  BY <1>0 DEF Fetching, CollectorInv
<1>2. Fine(src, now, Nodes, AllKeys)
  BY <1>1, MoreIsFine DEF Nodes
<1>3. Fine(db, now, Nodes, AllKeys)
  BY <1>0 DEF Mirrors
<1>4. ASSUME NEW d \in {src, db}
      PROVE  /\ DOMAIN d = Tables
             /\ \A t \in Tables : \A r \in RowsOf(d, t) :
                  r.node \in {Own, Node} /\ r.at \in 0..now /\ r.key \in Units \cup Checks \cup {NoKey}
             /\ \A t \in SnapshotTables : \A r, s \in d[t] :
                  r.node = s.node /\ r.key = s.key => r = s
  <2>1. Fine(d, now, Nodes, AllKeys)
    BY <1>2, <1>3
  <2> QED BY <2>1 DEF Fine, RowFine, Snapshot, Apart, Nodes, AllKeys
<1>5. peer = None \/ (peer.status \in {"unknown", "ok", "down"} /\ peer.enabled \in BOOLEAN)
  BY DEF MirrorInv, Peers
<1>6. poll.stage \in 0..(Len(Stages) + 1)
  <2>1. poll.stage \in 0..12
    BY PollSets DEF MirrorInv
  <2> QED BY <2>1, Lengths
<1>7. {alias, srcAlias} \subseteq Names \cup {""}
  BY DEF MirrorInv, DisplayNames
<1>8. deleting \in 0..(Len(DeleteNodeData) + 2)
  <2>1. deleting \in 0..13
    BY DEF MirrorInv
  <2> QED BY <2>1, Lengths
<1> QED BY <1>1, <1>4, <1>5, <1>6, <1>7, <1>8 DEF TypeOK

(* Own's copy of the peer keeps the shape of a database: rows of the two   *)
(* nodes only, at most one per key of a snapshot, none from the future;    *)
(* the poll never leaves its stages, nor a deletion its statements         *)
(* (cluster.go pollNode, storage.go DeleteNodeData).                       *)
THEOREM MirrorTypes == Spec => []TypeOK
BY MirrorAlways, MirrorShapes, PTL

---------------------------------------------------------------------------
(* Own's own rows.                                                         *)
LEMMA OwnRowFacts == \A t : OwnRow(t).node = Own /\ OwnRow(t).at = 0 /\ OwnRow(t).node # Node
BY MirrorAssumption DEF OwnRow, Row

LEMMA OwnKeptWhere ==
  ASSUME OwnDataKept, OthersKept(db, db'), now' = now
  PROVE  OwnDataKept'
<1>1. \A t \in SnapshotTables : OwnRow(t) \in db'[t]
  BY OwnRowFacts, TableKinds, RowsOfKind DEF OwnDataKept, OthersKept
<1>2. ASSUME NEW t \in SeriesTables
      PROVE  OwnRow(t) \in ToSet(db'[t]) \/ (Retention > 0 /\ now' > Retention)
  BY OwnRowFacts, TableKinds, RowsOfKind DEF OwnDataKept, OthersKept
<1>3. \A t : OwnRow(t)' = OwnRow(t)
  BY DEF OwnRow
<1> QED BY <1>1, <1>2, <1>3 DEF OwnDataKept

LEMMA OwnKeptLater ==
  ASSUME MirrorInv, OwnDataKept, UNCHANGED db, now' \in Nat, now <= now'
  PROVE  OwnDataKept'
<1>1. Retention \in Nat /\ now \in Nat
  BY CollectorAssumption, SourceRows DEF MirrorInv
<1>2. Retention > 0 /\ now > Retention => Retention > 0 /\ now' > Retention
  BY <1>1
<1> QED BY <1>2 DEF OwnDataKept, OwnRow

LEMMA OwnKeptStep ==
  ASSUME MirrorInv, OwnDataKept, [Next]_vars
  PROVE  OwnDataKept'
<1>0. Fetching /\ Mirrors(db) /\ deleting \in 0..13
  BY DEF MirrorInv
<1>1. now \in Nat /\ now' \in Nat
  <2>1. Fetching'
    BY DataKept
  <2> QED BY <1>0, <2>1 DEF Fetching, CollectorInv
<1>2. CASE Collect
  <2>1. CollectorNext /\ db' = db
    BY <1>2 DEF Collect
  <2>2. now <= now'
    BY <1>0, <2>1, NodesApart, CycleKeeps DEF Fetching
  <2> QED BY <1>1, <2>1, <2>2, OwnKeptLater
<1>3. CASE UNCHANGED <<now, db>>
  BY <1>1, <1>3, OwnKeptLater
<1>4. CASE FetchAndStore
  <2>1. OthersKept(db, db')
    BY <1>0, <1>4, StageStored DEF StoredInto
  <2>2. now' = now
    BY <1>4 DEF FetchAndStore, source, collectorVars
  <2> QED BY <2>1, <2>2, OwnKeptWhere
<1>5. CASE Delete
  <2>1. now' = now
    BY <1>5 DEF Delete, source, collectorVars
  <2>2. CASE deleting \in 1..11
    <3>1. PICK t \in Tables : db' = DeleteNode(db, t, Node)
      BY <1>0, <1>5, <2>2, DeletedTable
    <3>2. now \in Int /\ Fine(db, now, Nodes, AllKeys)
      BY <1>0, <1>1 DEF Mirrors
    <3>3. PICK e : e = DeleteNode(db, t, Node)
      OBVIOUS
    <3>4. RowsOf(e, t) = RowsBut(RowsOf(db, t), Node)
      BY <3>2, <3>3, DeleteFine
    <3>5. Writes(db, e, t)
      BY <3>2, <3>3, DeleteOp DEF Fine
    <3>6. OthersKept(db, e)
      BY <3>4, <3>5 DEF OthersKept, Writes, RowsBut, RowsOf
    <3> QED BY <2>1, <3>1, <3>3, <3>6, OwnKeptWhere
  <2>3. CASE deleting \in {12, 13}
    <3>1. db' = db
      BY <1>0, <1>5, <2>3, DeletedTable
    <3> QED BY <1>1, <2>1, <3>1, OwnKeptLater
  <2>4. deleting \in 1..13
    BY <1>0, <1>5, DeletedTable
  <2>5. deleting \in 1..11 \/ deleting \in {12, 13}
    BY <2>4
  <2> QED BY <2>2, <2>3, <2>5
<1>6. CASE PruneOwn
  <2>1. now' = now /\ db' = prune(db, now)
    BY <1>6 DEF PruneOwn, source, collectorVars
  <2>2. Pruned(db, db', now)
    BY <1>0, <1>1, <2>1, PruneSteps DEF Mirrors
  <2>3. Retention \in Nat
    BY CollectorAssumption
  <2>4. \A t \in SnapshotTables : OwnRow(t) \in db'[t]
    BY <2>2 DEF Pruned, OwnDataKept
  <2>5. ASSUME NEW t \in SeriesTables
        PROVE  OwnRow(t) \in ToSet(db'[t]) \/ (Retention > 0 /\ now > Retention)
    <3>1. CASE Retention > 0 /\ now > Retention
      BY <3>1
    <3>2. CASE ~(Retention > 0 /\ now > Retention)
      <4>1. OwnRow(t) \in ToSet(db[t])
        BY <3>2 DEF OwnDataKept
      <4>2. Retention > 0 => 0 >= now - Retention
        BY <1>1, <2>3, <3>2
      <4>3. Retention > 0 => OwnRow(t).at >= now - Retention
        BY <4>2, OwnRowFacts
      <4> QED BY <2>2, <4>1, <4>3 DEF Pruned
    <3> QED BY <3>1, <3>2
  <2>6. \A t : OwnRow(t)' = OwnRow(t)
    BY DEF OwnRow
  <2> QED BY <2>1, <2>4, <2>5, <2>6 DEF OwnDataKept
<1>7. CASE \/ (\E c \in Checks : CheckDeleted(c) \/ \E s \in {"ok", "failing"} : CheckRuns(c, s))
           \/ \E n \in Names : Rename(n)
  <2>1. UNCHANGED <<now, db>>
    BY <1>7 DEF CheckDeleted, CheckRuns, Rename, collectorVars
  <2> QED BY <1>3, <2>1
<1>8. CASE StartPoll \/ FetchIdentity \/ storePeerIdentity \/ FetchFails \/ EndPoll
  <2>1. UNCHANGED <<now, db>>
    BY <1>8 DEF StartPoll, FetchIdentity, storePeerIdentity, FetchFails, EndPoll, source, collectorVars
  <2> QED BY <1>3, <2>1
<1>9. CASE StartDelete \/ handleCreatePeer \/ Mute \/ RenameMirrored
  <2>1. UNCHANGED <<now, db>>
    BY <1>9 DEF StartDelete, handleCreatePeer, Mute, RenameMirrored, source, collectorVars
  <2> QED BY <1>3, <2>1
<1>10. CASE UNCHANGED vars
  <2>1. UNCHANGED <<now, db>>
    BY <1>10 DEF vars, collectorVars
  <2> QED BY <1>3, <2>1
<1> QED BY <1>2, <1>4, <1>5, <1>6, <1>7, <1>8, <1>9, <1>10 DEF Next

LEMMA OwnKeptStarts == Init => OwnDataKept
<1> SUFFICES ASSUME Init PROVE OwnDataKept
  OBVIOUS
<1>1. db = [t \in Tables |-> IF t \in SeriesTables THEN <<OwnRow(t)>> ELSE {OwnRow(t)}]
  BY DEF Init
<1>2. \A t \in SnapshotTables : OwnRow(t) \in db[t]
  BY <1>1, TableKinds
<1>3. \A t \in SeriesTables : db[t] = <<OwnRow(t)>>
  BY <1>1, TableKinds
<1>4. \A t \in SeriesTables : OwnRow(t) \in ToSet(db[t])
  BY <1>3, Single
<1> QED BY <1>2, <1>4 DEF OwnDataKept

(* Whatever is polled, stored, deleted or renamed, a node keeps its own    *)
(* rows: the snapshots for good, those of a series for at least the        *)
(* retention time (cluster.go, storage.go DeleteNodeData, collector.go     *)
(* prune).                                                                 *)
THEOREM OwnRowsAreKept == Spec => []OwnDataKept
<1>1. MirrorInv /\ OwnDataKept /\ [Next]_vars => OwnDataKept'
  BY OwnKeptStep
<1> QED BY <1>1, OwnKeptStarts, MirrorAlways, PTL DEF Spec

---------------------------------------------------------------------------
(* A deleted peer.                                                         *)
LEMMA NotNone ==
  ASSUME NEW S, NEW T, NEW x \in [status : S, enabled : T]
  PROVE  x # None
<1>1. DOMAIN x = {"status", "enabled"} /\ DOMAIN None = {"none"}
  BY DEF None
<1>2. "none" \in DOMAIN None /\ "none" \notin DOMAIN x
  BY <1>1
<1> QED BY <1>2

LEMMA StatusStays ==
  ASSUME peer \in Peers, NEW s \in {"unknown", "ok", "down"}, SetStatus(s)
  PROVE  /\ peer' = None => peer = None
         /\ peer # None => peer' # None /\ peer'.status = s
<1>1. CASE peer = None
  BY <1>1
<1>2. CASE peer # None
  <2>1. peer \in [status : {"unknown", "ok", "down"}, enabled : BOOLEAN]
    BY <1>2 DEF Peers
  <2>2. peer' = [peer EXCEPT !.status = s]
    BY <1>2 DEF SetStatus
  <2>3. peer' \in [status : {"unknown", "ok", "down"}, enabled : BOOLEAN] /\ peer'.status = s
    BY <2>1, <2>2
  <2>4. peer' # None
    BY <2>3, NotNone
  <2> QED BY <1>2, <2>3, <2>4
<1> QED BY <1>1, <1>2

LEMMA MuteStays ==
  ASSUME peer \in Peers, Mute
  PROVE  peer # None /\ peer' # None /\ peer'.status = peer.status
<1>1. peer # None /\ peer' = [peer EXCEPT !.enabled = ~@]
  BY DEF Mute
<1>2. peer \in [status : {"unknown", "ok", "down"}, enabled : BOOLEAN]
  BY <1>1 DEF Peers
<1>3. peer' \in [status : {"unknown", "ok", "down"}, enabled : BOOLEAN] /\ peer'.status = peer.status
  BY <1>1, <1>2
<1>4. peer' # None
  BY <1>3, NotNone
<1> QED BY <1>1, <1>3, <1>4

(* The tables a deletion has been through are free of the peer, all of     *)
(* them when the peer is gone, unless something was stored meanwhile.      *)
Free(d, t) == \A r \in RowsOf(d, t) : r.node # Node
DeletionInv ==
  /\ peer = None => deleting \in {0, 13}
  /\ ~raced => /\ \A i \in 1..11 : i < deleting \/ peer = None => Free(db, DeleteNodeData[i])
               /\ peer = None /\ deleting = 0 => alias = ""

LEMMA Quiet ==
  ASSUME DeletionInv, UNCHANGED <<db, alias, deleting, raced>>, peer' = None => peer = None
  PROVE  DeletionInv'
BY DEF DeletionInv, Free, RowsOf

LEMMA RacedStore ==
  ASSUME MirrorInv, DeletionInv, peer' = peer, deleting' = deleting,
         raced' = (raced \/ peer = None \/ deleting > 0)
  PROVE  DeletionInv'
<1>1. CASE raced'
  BY <1>1 DEF DeletionInv
<1>2. CASE ~raced'
  <2>1. ~raced /\ peer # None /\ ~(deleting > 0) /\ deleting \in 0..13
    BY <1>2 DEF MirrorInv
  <2>2. peer' # None
    BY <2>1
  <2>3. \A i \in 1..11 : ~(i < deleting')
    BY <2>1
  <2> QED BY <2>2, <2>3 DEF DeletionInv
<1> QED BY <1>1, <1>2

LEMMA FewerFree ==
  ASSUME NEW d, NEW e, NEW t, RowsOf(e, t) \subseteq RowsOf(d, t), Free(d, t)
  PROVE  Free(e, t)
BY DEF Free

LEMMA DeleteFrees ==
  ASSUME MirrorInv, DeletionInv, Delete
  PROVE  DeletionInv'
<1>0. Fetching /\ Mirrors(db) /\ deleting \in 0..13 /\ raced' = raced
  BY DEF MirrorInv, Delete
<1>1. CASE deleting \in 1..11
  <2>1. PICK t : /\ t \in Tables /\ t = DeleteNodeData[deleting]
                 /\ db' = DeleteNode(db, t, Node)
    BY <1>0, <1>1, DeletedTable
  <2>2. now \in Int /\ Fine(db, now, Nodes, AllKeys)
    BY <1>0, SourceRows DEF Mirrors
  <2>3. PICK e : e = DeleteNode(db, t, Node)
    OBVIOUS
  <2>4. RowsOf(e, t) = RowsBut(RowsOf(db, t), Node)
    BY <2>1, <2>2, <2>3, DeleteFine
  <2>5. Writes(db, e, t)
    BY <2>1, <2>2, <2>3, DeleteOp DEF Fine
  <2>6. \A u \in Tables : RowsOf(e, u) \subseteq RowsOf(db, u)
    BY <2>4, <2>5 DEF Writes, RowsBut, RowsOf
  <2>7. Free(db', t)
    BY <2>1, <2>3, <2>4 DEF Free, RowsBut
  <2>8. peer' = peer /\ deleting' = deleting + 1
    BY <1>0, <1>1, DeletedTable
  <2>9. peer # None
    <3>1. deleting \notin {0, 13}
      BY <1>1
    <3>2. peer = None => deleting \in {0, 13}
      BY DEF DeletionInv
    <3> QED BY <3>1, <3>2
  <2>10. ASSUME ~raced, NEW i \in 1..11, i < deleting' \/ peer' = None
         PROVE  Free(db', DeleteNodeData[i])
    <3>1. DeleteNodeData[i] \in Tables
      BY DEF DeleteNodeData, Tables, SeriesTables, SnapshotTables
    <3>2. CASE i = deleting
      BY <2>1, <2>7, <3>2
    <3>3. CASE i < deleting
      <4>1. Free(db, DeleteNodeData[i])
        BY <2>10, <3>3 DEF DeletionInv
      <4>2. RowsOf(db', DeleteNodeData[i]) \subseteq RowsOf(db, DeleteNodeData[i])
        BY <2>1, <2>3, <2>6, <3>1
      <4> QED BY <4>1, <4>2, FewerFree
    <3> QED BY <1>1, <2>8, <2>9, <2>10, <3>2, <3>3
  <2> QED BY <1>0, <2>8, <2>9, <2>10 DEF DeletionInv
<1>2. CASE deleting = 12
  <2>1. db' = db /\ peer' = None /\ deleting' = 13
    BY <1>0, <1>2, DeletedTable
  <2>2. \A i \in 1..11 : i < deleting
    BY <1>2
  <2>3. ~raced => \A i \in 1..11 : Free(db', DeleteNodeData[i])
    BY <2>1, <2>2 DEF DeletionInv
  <2>4. deleting' # 0 /\ deleting' \in {0, 13}
    BY <2>1
  <2> QED BY <1>0, <2>3, <2>4 DEF DeletionInv
<1>3. CASE deleting = 13
  <2>1. db' = db /\ peer' = peer /\ deleting' = 0
    BY <1>0, <1>3, DeletedTable
  <2>2. alias' = ""
    BY <1>0, <1>3, DeletedTable
  <2>3. \A i \in 1..11 : ~(i < deleting')
    BY <2>1
  <2>4. ~raced /\ peer' = None => \A i \in 1..11 : Free(db', DeleteNodeData[i])
    BY <2>1 DEF DeletionInv
  <2>5. deleting' \in {0, 13}
    BY <2>1
  <2> HIDE DEF DeletionInv
  <2> HIDE <2>1
  <2> QED BY <1>0, <2>2, <2>3, <2>4, <2>5 DEF DeletionInv
<1>4. deleting \in 1..13
  BY <1>0, DeletedTable
<1>5. deleting \in 1..11 \/ deleting = 12 \/ deleting = 13
  BY <1>4
<1> QED BY <1>1, <1>2, <1>3, <1>5

LEMMA PruneFrees ==
  ASSUME MirrorInv, DeletionInv, PruneOwn
  PROVE  DeletionInv'
<1>1. /\ Mirrors(db) /\ now \in Nat
      /\ db' = prune(db, now) /\ UNCHANGED <<peer, alias, deleting, raced>>
  BY SourceRows DEF MirrorInv, PruneOwn
<1>2. Pruned(db, db', now)
  BY <1>1, PruneSteps DEF Mirrors
<1>3. \A t \in Tables : RowsOf(db', t) \subseteq RowsOf(db, t)
  BY <1>2, TableKinds, RowsOfKind DEF Pruned
<1>4. \A i \in 1..11 : Free(db, DeleteNodeData[i]) => Free(db', DeleteNodeData[i])
  <2>1. \A i \in 1..11 : DeleteNodeData[i] \in Tables
    BY DEF DeleteNodeData, Tables, SeriesTables, SnapshotTables
  <2> QED BY <1>3, <2>1, FewerFree
<1> QED BY <1>1, <1>4 DEF DeletionInv

LEMMA DeletionStep ==
  ASSUME MirrorInv, DeletionInv, [Next]_vars
  PROVE  DeletionInv'
<1>0. peer \in Peers
  BY DEF MirrorInv
<1>1. CASE Delete
  BY <1>1, DeleteFrees
<1>2. CASE PruneOwn
  BY <1>2, PruneFrees
<1>3. CASE FetchAndStore \/ storePeerIdentity \/ RenameMirrored
  <2>1. /\ peer' = peer /\ deleting' = deleting
        /\ raced' = (raced \/ peer = None \/ deleting > 0)
    BY <1>3 DEF FetchAndStore, storePeerIdentity, RenameMirrored, Stores
  <2> QED BY <2>1, RacedStore
<1>4. CASE StartDelete
  <2>1. peer # None /\ peer' = peer /\ deleting' = 1
    BY <1>4 DEF StartDelete
  <2>2. \A i \in 1..11 : ~(i < deleting')
    BY <2>1
  <2> QED BY <2>1, <2>2 DEF DeletionInv
<1>5. CASE Collect
  BY <1>5, Quiet DEF Collect
<1>6. CASE \E c \in Checks : CheckDeleted(c) \/ \E s \in {"ok", "failing"} : CheckRuns(c, s)
  <2>1. UNCHANGED <<db, alias, deleting, raced, peer>>
    BY <1>6 DEF CheckDeleted, CheckRuns
  <2> QED BY <2>1, Quiet
<1>7. CASE \E n \in Names : Rename(n)
  <2>1. UNCHANGED <<db, alias, deleting, raced, peer>>
    BY <1>7 DEF Rename
  <2> QED BY <2>1, Quiet
<1>8. CASE StartPoll \/ FetchIdentity
  <2>1. UNCHANGED <<db, alias, deleting, raced, peer>>
    BY <1>8 DEF StartPoll, FetchIdentity
  <2> QED BY <2>1, Quiet
<1>9. CASE FetchFails
  <2>1. UNCHANGED <<db, alias, deleting, raced>> /\ (SetStatus("down") \/ peer' = peer)
    BY <1>9 DEF FetchFails
  <2>2. peer' = None => peer = None
    BY <1>0, <2>1, StatusStays
  <2> QED BY <2>1, <2>2, Quiet
<1>10. CASE EndPoll
  <2>1. UNCHANGED <<db, alias, deleting, raced>> /\ SetStatus("ok")
    BY <1>10 DEF EndPoll
  <2>2. peer' = None => peer = None
    BY <1>0, <2>1, StatusStays
  <2> QED BY <2>1, <2>2, Quiet
<1>11. CASE handleCreatePeer
  <2>1. UNCHANGED <<db, alias, deleting, raced>> /\ peer = None
    BY <1>11 DEF handleCreatePeer
  <2> QED BY <2>1, Quiet
<1>12. CASE Mute
  <2>1. UNCHANGED <<db, alias, deleting, raced>>
    BY <1>12 DEF Mute
  <2>2. peer' # None
    BY <1>0, <1>12, MuteStays
  <2> QED BY <2>1, <2>2, Quiet
<1>13. CASE UNCHANGED vars
  <2>1. UNCHANGED <<db, alias, deleting, raced, peer>>
    BY <1>13 DEF vars
  <2> QED BY <2>1, Quiet
<1> QED BY <1>1, <1>2, <1>3, <1>4, <1>5, <1>6, <1>7, <1>8, <1>9, <1>10, <1>11, <1>12, <1>13 DEF Next

LEMMA DeletionStarts == Init => DeletionInv
<1> SUFFICES ASSUME Init PROVE DeletionInv
  OBVIOUS
<1>1. deleting = 0
  BY DEF Init
<1>2. peer # None
  <2>1. peer = [status |-> "unknown", enabled |-> TRUE]
    BY DEF Init
  <2>2. peer \in [status : {"unknown"}, enabled : BOOLEAN]
    BY <2>1
  <2> QED BY <2>2, NotNone
<1>3. \A i \in 1..11 : ~(i < deleting)
  BY <1>1
<1> QED BY <1>2, <1>3 DEF DeletionInv

LEMMA DeletedEverywhere ==
  \A t \in Tables \ {"disk_io_sample"} : \E i \in 1..11 : t = DeleteNodeData[i]
<1>1. \A t \in Tables \ {"disk_io_sample"} :
        t \in {DeleteNodeData[1], DeleteNodeData[2], DeleteNodeData[3], DeleteNodeData[4],
               DeleteNodeData[5], DeleteNodeData[6], DeleteNodeData[7], DeleteNodeData[8],
               DeleteNodeData[9], DeleteNodeData[10], DeleteNodeData[11]}
  BY DEF DeleteNodeData, Tables, SeriesTables, SnapshotTables
<1> QED BY <1>1

LEMMA DeletedIsGone == DeletionInv => OrphansOnlyRaced
<1> SUFFICES ASSUME DeletionInv, peer = None, deleting = 0, ~raced
             PROVE  /\ alias = ""
                    /\ \A t \in Tables \ {"disk_io_sample"} : \A r \in RowsOf(db, t) : r.node # Node
  BY DEF OrphansOnlyRaced
<1>1. alias = ""
  BY DEF DeletionInv
<1>2. \A i \in 1..11 : Free(db, DeleteNodeData[i])
  BY DEF DeletionInv
<1>3. \A t \in Tables \ {"disk_io_sample"} : Free(db, t)
  BY <1>2, DeletedEverywhere
<1> QED BY <1>1, <1>3 DEF Free

(* A deleted peer leaves nothing behind but its disk-I/O history, unless   *)
(* an answer or a name was stored while the deletion ran or after it       *)
(* (server.go handleDeletePeer, storage.go DeleteNodeData).                *)
THEOREM DeletedPeersAreGone == Spec => []OrphansOnlyRaced
<1>1. MirrorInv /\ DeletionInv /\ [Next]_vars => DeletionInv'
  BY DeletionStep
<1> QED BY <1>1, DeletionStarts, MirrorAlways, DeletedIsGone, PTL DEF Spec
---------------------------------------------------------------------------
(* A clean poll.  What the steps behind a clean poll stored is still to be *)
(* seen: each step writes the tables of its own part only, and whatever    *)
(* else changes one of the two databases ends the cleanness.               *)
Progress == IF poll.stage = 0 THEN 12 ELSE poll.stage
Shown == \A k \in 1..10 : k < Progress => StagePart(k, db)
CleanInv ==
  poll.clean =>
    /\ peer # None
    /\ poll.stage = 0 => peer.status = "ok"
    /\ Shown
    /\ poll.stage \in {0, 12} => alias = srcAlias
    /\ poll.stage = 11 /\ poll.name # None => poll.name.name = srcAlias

LEMMA NewestOfTable ==
  ASSUME NEW d, NEW e, NEW t, NEW node, e[t] = d[t]
  PROVE  Newest(e, t, node) = Newest(d, t, node)
BY DEF Newest

LEMMA NewestIOOfTable ==
  ASSUME NEW d, NEW e, NEW node, e["disk_io_sample"] = d["disk_io_sample"]
  PROVE  LatestDiskIOSamples(e, node) = LatestDiskIOSamples(d, node)
BY DEF LatestDiskIOSamples, IORows

LEMMA SameOfTable ==
  ASSUME NEW d, NEW e, NEW t, e[t] = d[t], SamePart(d, t)
  PROVE  SamePart(e, t)
BY DEF SamePart, RowsOfNode

LEMMA PartOfTables ==
  ASSUME NEW k \in 1..10, NEW d, NEW e, \A t \in StageTables[k] : e[t] = d[t], StagePart(k, d)
  PROVE  StagePart(k, e)
<1>1. CASE k = 1
  <2>1. e["metric_sample"] = d["metric_sample"] /\ MetricPart(d)
    BY <1>1 DEF StageTables, StagePart
  <2>2. MetricPart(e)
    BY <2>1, NewestOfTable DEF MetricPart, LatestMetric
  <2> QED BY <1>1, <2>2 DEF StagePart
<1>2. CASE k = 2
  <2>1. e["check_status"] = d["check_status"] /\ ChecksPart(d)
    BY <1>2 DEF StageTables, StagePart
  <2>2. ChecksPart(e)
    BY <2>1 DEF ChecksPart, CheckStatuses
  <2> QED BY <1>2, <2>2 DEF StagePart
<1>3. CASE k = 3
  <2>1. e["disk_status"] = d["disk_status"] /\ SamePart(d, "disk_status")
    BY <1>3 DEF StageTables, StagePart
  <2>2. SamePart(e, "disk_status")
    BY <2>1, SameOfTable
  <2> QED BY <1>3, <2>2 DEF StagePart
<1>4. CASE k = 4
  <2>1. e["net_sample"] = d["net_sample"] /\ NetPart(d)
    BY <1>4 DEF StageTables, StagePart
  <2>2. NetPart(e)
    BY <2>1, NewestOfTable DEF NetPart, LatestNetSample
  <2> QED BY <1>4, <2>2 DEF StagePart
<1>5. CASE k = 5
  <2>1. e["net_interface"] = d["net_interface"] /\ SamePart(d, "net_interface")
    BY <1>5 DEF StageTables, StagePart
  <2>2. SamePart(e, "net_interface")
    BY <2>1, SameOfTable
  <2> QED BY <1>5, <2>2 DEF StagePart
<1>6. CASE k = 6
  <2>1. e["cpu_state_sample"] = d["cpu_state_sample"] /\ CPUPart(d)
    BY <1>6 DEF StageTables, StagePart
  <2>2. CPUPart(e)
    BY <2>1, NewestOfTable DEF CPUPart, LatestCPUState
  <2> QED BY <1>6, <2>2 DEF StagePart
<1>7. CASE k = 7
  <2>1. e["cpu_core"] = d["cpu_core"] /\ SamePart(d, "cpu_core")
    BY <1>7 DEF StageTables, StagePart
  <2>2. SamePart(e, "cpu_core")
    BY <2>1, SameOfTable
  <2> QED BY <1>7, <2>2 DEF StagePart
<1>8. CASE k = 8
  <2>1. e["disk_io_sample"] = d["disk_io_sample"] /\ IOPart(d)
    BY <1>8 DEF StageTables, StagePart
  <2>2. IOPart(e)
    BY <2>1, NewestIOOfTable DEF IOPart
  <2> QED BY <1>8, <2>2 DEF StagePart
<1>9. CASE k = 9
  <2>1. e["process_top"] = d["process_top"] /\ SamePart(d, "process_top")
    BY <1>9 DEF StageTables, StagePart
  <2>2. SamePart(e, "process_top")
    BY <2>1, SameOfTable
  <2> QED BY <1>9, <2>2 DEF StagePart
<1>10. CASE k = 10
  <2>1. e["raid_array"] = d["raid_array"] /\ e["smart_disk"] = d["smart_disk"]
    BY <1>10 DEF StageTables
  <2>2. SamePart(d, "raid_array") /\ SamePart(d, "smart_disk")
    BY <1>10 DEF StagePart
  <2>3. SamePart(e, "raid_array") /\ SamePart(e, "smart_disk")
    BY <2>1, <2>2, SameOfTable
  <2> QED BY <1>10, <2>3 DEF StagePart
<1> QED BY <1>1, <1>2, <1>3, <1>4, <1>5, <1>6, <1>7, <1>8, <1>9, <1>10

(* No two steps write the same table. *)
LEMMA StagesApart ==
  ASSUME NEW k \in 1..10, NEW j \in 1..10, k # j
  PROVE  \A t \in StageTables[j] : t \in Tables \ StageTables[k]
<1>1. StageTables[j] \subseteq Tables
  BY DEF StageTables, Tables, SeriesTables, SnapshotTables
<1>2. StageTables[j] \cap StageTables[k] = {}
  <2>1. CASE j = 1
    BY <2>1 DEF StageTables
  <2>2. CASE j = 2
    BY <2>2 DEF StageTables
  <2>3. CASE j = 3
    BY <2>3 DEF StageTables
  <2>4. CASE j = 4
    BY <2>4 DEF StageTables
  <2>5. CASE j = 5
    BY <2>5 DEF StageTables
  <2>6. CASE j = 6
    BY <2>6 DEF StageTables
  <2>7. CASE j = 7
    BY <2>7 DEF StageTables
  <2>8. CASE j = 8
    BY <2>8 DEF StageTables
  <2>9. CASE j = 9
    BY <2>9 DEF StageTables
  <2>10. CASE j = 10
    BY <2>10 DEF StageTables
  <2> QED BY <2>1, <2>2, <2>3, <2>4, <2>5, <2>6, <2>7, <2>8, <2>9, <2>10
<1> QED BY <1>1, <1>2

(* What is to be seen depends on what the peer shows. *)
LEMMA PartLater ==
  ASSUME UNCHANGED source, NEW k \in 1..10, StagePart(k, db')
  PROVE  StagePart(k, db)'
<1>0. UNCHANGED <<now, host, src, checks>>
  BY DEF source, collectorVars
<1>1. handlePeerMetrics' = handlePeerMetrics
  BY <1>0 DEF handlePeerMetrics
<1>2. checksForNode' = checksForNode
  BY <1>0 DEF checksForNode
<1>3. netForNode' = netForNode /\ cpuStateForNode' = cpuStateForNode /\ diskIOForNode' = diskIOForNode
  BY <1>0 DEF netForNode, cpuStateForNode, diskIOForNode
<1> QED BY <1>0, <1>1, <1>2, <1>3
        DEF StagePart, MetricPart, ChecksPart, NetPart, CPUPart, IOPart, SamePart

LEMMA ShownLater ==
  ASSUME UNCHANGED source, db' = db, Shown, Progress' = Progress
  PROVE  Shown'
<1>1. ASSUME NEW k \in 1..10, k < Progress' PROVE StagePart(k, db)'
  <2>1. StagePart(k, db)
    BY <1>1 DEF Shown
  <2> QED BY <2>1, PartLater
<1> QED BY <1>1 DEF Shown

LEMMA ShownStored ==
  ASSUME MirrorInv, FetchAndStore, Shown
  PROVE  Shown'
<1>1. UNCHANGED source /\ poll' = NextStage /\ poll.stage \in 1..10
  BY Dispatch DEF FetchAndStore
<1>2. Progress = poll.stage /\ Progress' = poll.stage + 1
  BY <1>1 DEF Progress, NextStage
<1>3. StoredInto(db, db', StageTables[poll.stage]) /\ StagePart(poll.stage, db')
  BY StageStored DEF MirrorInv
<1>4. ASSUME NEW k \in 1..10, k < poll.stage + 1 PROVE StagePart(k, db')
  <2>1. CASE k = poll.stage
    BY <1>3, <2>1
  <2>2. CASE k # poll.stage
    <3>1. k < Progress
      BY <1>1, <1>2, <1>4, <2>2
    <3>2. StagePart(k, db)
      BY <3>1 DEF Shown
    <3>3. \A t \in StageTables[k] : db'[t] = db[t]
      BY <1>1, <1>3, <2>2, StagesApart DEF StoredInto
    <3> QED BY <3>2, <3>3, PartOfTables
  <2> QED BY <2>1, <2>2
<1>5. \A k \in 1..10 : k < Progress' => StagePart(k, db)'
  BY <1>1, <1>2, <1>4, PartLater
<1> QED BY <1>5 DEF Shown

(* The steps that end the cleanness, and those that leave all it says. *)
LEMMA Dirtied ==
  ASSUME ~poll'.clean
  PROVE  CleanInv'
BY DEF CleanInv

LEMMA StillClean ==
  ASSUME CleanInv, UNCHANGED <<source, db, poll, alias>>,
         peer # None => peer' # None /\ peer'.status = peer.status
  PROVE  CleanInv'
<1>1. Progress' = Progress /\ srcAlias' = srcAlias
  BY DEF Progress, source
<1>2. CASE ~poll.clean
  BY <1>2, Dirtied
<1>3. CASE poll.clean
  <2>1. peer' # None /\ peer'.status = peer.status
    BY <1>3 DEF CleanInv
  <2>2. Shown'
    BY <1>1, <1>3, ShownLater DEF CleanInv
  <2> QED BY <1>1, <1>3, <2>1, <2>2 DEF CleanInv
<1> QED BY <1>2, <1>3

(* A step of the poll: the next stage, and what it has stored. *)
LEMMA NextStageIs ==
  ASSUME poll \in Polls
  PROVE  /\ NextStage.stage = poll.stage + 1 /\ NextStage.name = None /\ NextStage.clean = poll.clean
         /\ Idle.stage = 0 /\ Idle.name = None /\ Idle.clean = poll.clean
BY DEF NextStage, Idle

LEMMA CleanStart ==
  ASSUME MirrorInv, StartPoll
  PROVE  CleanInv'
<1>1. poll' = [stage |-> 1, name |-> None, clean |-> TRUE] /\ peer' = peer /\ peer # None
  BY DEF StartPoll
<1>2. poll'.stage = 1 /\ poll'.name = None
  BY <1>1
<1>3. Progress' = 1
  BY <1>2 DEF Progress
<1>4. \A k \in 1..10 : ~(k < 1)
  OBVIOUS
<1>5. Shown'
  BY <1>3, <1>4 DEF Shown
<1>6. poll'.stage # 0 /\ poll'.stage \notin {0, 12} /\ poll'.stage # 11
  BY <1>2
<1> QED BY <1>1, <1>5, <1>6 DEF CleanInv

LEMMA CleanStore ==
  ASSUME MirrorInv, CleanInv, FetchAndStore
  PROVE  CleanInv'
<1>1. poll' = NextStage /\ peer' = peer /\ poll.stage \in 1..10 /\ poll \in Polls
  BY Dispatch DEF FetchAndStore, MirrorInv
<1>2. poll'.stage = poll.stage + 1 /\ poll'.name = None /\ poll'.clean = poll.clean
  BY <1>1, NextStageIs
<1>3. poll'.stage # 0 /\ poll'.stage \notin {0, 12}
  BY <1>1, <1>2
<1>4. poll.clean => peer # None /\ Shown
  BY DEF CleanInv
<1>5. poll.clean => Shown'
  BY <1>4, ShownStored
<1> QED BY <1>1, <1>2, <1>3, <1>4, <1>5 DEF CleanInv

LEMMA CleanName ==
  ASSUME MirrorInv, CleanInv, FetchIdentity
  PROVE  CleanInv'
<1>1. poll' = [poll EXCEPT !.name = [name |-> srcAlias]] /\ poll \in Polls /\ poll.stage = 11
  BY StagesOfPoll DEF FetchIdentity, handlePeerIdentity, MirrorInv
<1>2. UNCHANGED <<source, db, peer, alias>>
  BY DEF FetchIdentity
<1>3. poll'.stage = poll.stage /\ poll'.clean = poll.clean /\ poll'.name = [name |-> srcAlias]
  BY <1>1 DEF Polls
<1>4. poll'.name.name = srcAlias
  BY <1>3
<1>5. Progress' = Progress /\ srcAlias' = srcAlias
  BY <1>2, <1>3 DEF Progress, source
<1>6. poll.clean => peer # None /\ Shown
  BY DEF CleanInv
<1>7. poll.clean => Shown'
  BY <1>2, <1>5, <1>6, ShownLater
<1>8. poll'.stage # 0 /\ poll'.stage \notin {0, 12}
  BY <1>1, <1>3
<1> QED BY <1>2, <1>3, <1>4, <1>5, <1>6, <1>7, <1>8 DEF CleanInv

LEMMA CleanNamed ==
  ASSUME MirrorInv, CleanInv, storePeerIdentity
  PROVE  CleanInv'
<1>1. poll' = NextStage /\ poll \in Polls /\ poll.stage = 11 /\ poll.name # None
  BY StagesOfPoll DEF storePeerIdentity, MirrorInv
<1>2. UNCHANGED <<source, db, peer>> /\ alias' = poll.name.name
  BY DEF storePeerIdentity
<1>3. poll'.stage = 12 /\ poll'.clean = poll.clean
  BY <1>1, NextStageIs
<1>4. poll.clean => peer # None /\ Shown /\ alias' = srcAlias
  BY <1>1, <1>2 DEF CleanInv
<1>5. Progress = 11 /\ Progress' = 12 /\ srcAlias' = srcAlias
  BY <1>1, <1>2, <1>3 DEF Progress, source
<1>6. ASSUME poll.clean PROVE Shown'
  <2>1. ASSUME NEW k \in 1..10 PROVE StagePart(k, db)'
    <3>1. k < 11
      OBVIOUS
    <3>2. StagePart(k, db)
      BY <1>4, <1>5, <1>6, <3>1 DEF Shown
    <3> QED BY <1>2, <3>2, PartLater
  <2> QED BY <2>1 DEF Shown
<1>7. poll'.stage # 0 /\ poll'.stage # 11
  BY <1>3
<1> QED BY <1>2, <1>3, <1>4, <1>5, <1>6, <1>7 DEF CleanInv

LEMMA CleanEnd ==
  ASSUME MirrorInv, CleanInv, EndPoll
  PROVE  CleanInv'
<1>1. poll' = Idle /\ poll \in Polls /\ peer \in Peers
  BY DEF EndPoll, MirrorInv
<1>2. UNCHANGED <<source, db, alias>> /\ SetStatus("ok")
  BY DEF EndPoll
<1>3. poll.stage = 12
  <2>1. poll.stage > Len(Stages)
    BY DEF EndPoll
  <2> QED BY <1>1, <2>1, Lengths, PollSets
<1>4. poll'.stage = 0 /\ poll'.clean = poll.clean
  BY <1>1, NextStageIs
<1>5. Progress = 12 /\ Progress' = 12 /\ srcAlias' = srcAlias
  BY <1>2, <1>3, <1>4 DEF Progress, source
<1>6. poll.clean => peer # None /\ Shown /\ alias = srcAlias
  BY <1>3 DEF CleanInv
<1>7. poll.clean => peer' # None /\ peer'.status = "ok"
  BY <1>1, <1>2, <1>6, StatusStays
<1>8. poll.clean => Shown'
  BY <1>2, <1>5, <1>6, ShownLater
<1>9. poll'.stage # 11
  BY <1>4
<1> QED BY <1>2, <1>4, <1>5, <1>6, <1>7, <1>8, <1>9 DEF CleanInv

LEMMA CleanStep ==
  ASSUME MirrorInv, CleanInv, [Next]_vars
  PROVE  CleanInv'
<1>0. poll \in Polls /\ peer \in Peers
  BY DEF MirrorInv
<1>1. CASE Unclean
  <2>1. ~poll'.clean
    BY <1>0, <1>1 DEF Unclean, Polls
  <2> QED BY <2>1, Dirtied
<1>2. CASE FetchFails
  <2>1. poll' = [(IF At("metrics") THEN Idle ELSE NextStage) EXCEPT !.clean = FALSE]
    BY <1>2 DEF FetchFails
  <2>2. poll' = [Idle EXCEPT !.clean = FALSE] \/ poll' = [NextStage EXCEPT !.clean = FALSE]
    BY <2>1
  <2>3. ~poll'.clean
    BY <2>2 DEF Idle, NextStage
  <2> QED BY <2>3, Dirtied
<1>3. CASE StartPoll
  BY <1>3, CleanStart
<1>4. CASE FetchAndStore
  BY <1>4, CleanStore
<1>5. CASE FetchIdentity
  BY <1>5, CleanName
<1>6. CASE storePeerIdentity
  BY <1>6, CleanNamed
<1>7. CASE EndPoll
  BY <1>7, CleanEnd
<1>8. CASE Mute
  <2>1. UNCHANGED <<source, db, poll, alias>>
    BY <1>8 DEF Mute
  <2>2. peer' # None /\ peer'.status = peer.status
    BY <1>0, <1>8, MuteStays
  <2> QED BY <2>1, <2>2, StillClean
<1>9. CASE handleCreatePeer
  <2>1. UNCHANGED <<source, db, poll, alias>> /\ peer = None
    BY <1>9 DEF handleCreatePeer
  <2> QED BY <2>1, StillClean
<1>10. CASE StartDelete
  <2>1. UNCHANGED <<source, db, poll, alias, peer>>
    BY <1>10 DEF StartDelete
  <2> QED BY <2>1, StillClean
<1>11. CASE UNCHANGED vars
  <2>1. UNCHANGED <<source, db, poll, alias, peer>>
    BY <1>11 DEF vars, source
  <2> QED BY <2>1, StillClean
<1>12. \/ Unclean \/ FetchFails \/ StartPoll \/ FetchAndStore \/ FetchIdentity \/ storePeerIdentity
       \/ EndPoll \/ Mute \/ handleCreatePeer \/ StartDelete \/ UNCHANGED vars
  <2>1. CASE Collect \/ Delete \/ RenameMirrored \/ PruneOwn
    BY <2>1 DEF Collect, Delete, RenameMirrored, PruneOwn
  <2>2. CASE \E c \in Checks : CheckDeleted(c) \/ \E s \in {"ok", "failing"} : CheckRuns(c, s)
    BY <2>2 DEF CheckDeleted, CheckRuns
  <2>3. CASE \E n \in Names : Rename(n)
    BY <2>3 DEF Rename
  <2> QED BY <2>1, <2>2, <2>3 DEF Next
<1> QED BY <1>1, <1>2, <1>3, <1>4, <1>5, <1>6, <1>7, <1>8, <1>9, <1>10, <1>11, <1>12

LEMMA CleanStarts == Init => CleanInv
<1> SUFFICES ASSUME Init PROVE CleanInv
  OBVIOUS
<1>1. poll = [stage |-> 0, name |-> None, clean |-> FALSE]
  BY DEF Init
<1>2. ~poll.clean
  BY <1>1
<1> QED BY <1>2 DEF CleanInv

LEMMA CleanIsInStep == MirrorInv /\ CleanInv => InStep
<1> SUFFICES ASSUME MirrorInv, CleanInv, poll.stage = 0, poll.clean, peer # None
             PROVE  /\ peer.status = "ok"
                    /\ \A t \in SnapshotTables \ {"check_status"} :
                         {r \in db[t] : r.node = Node} = {r \in src[t] : r.node = Node}
                    /\ \A r \in checksForNode : \E m \in CheckStatuses(db, Node) :
                         m.key = r.key /\ m.val = r.val /\ (r.at # NoTime => m.at = r.at)
                    /\ LatestMetric(db, Node) = handlePeerMetrics
                    /\ netForNode # <<>> => LatestNetSample(db, Node) = netForNode
                    /\ cpuStateForNode # <<>> => LatestCPUState(db, Node) = cpuStateForNode
                    /\ ToSet(diskIOForNode) \subseteq ToSet(LatestDiskIOSamples(db, Node))
                    /\ alias = srcAlias
  BY DEF InStep
<1>1. peer.status = "ok" /\ alias = srcAlias /\ Shown
  BY DEF CleanInv
<1>2. \A k \in 1..10 : StagePart(k, db)
  <2>1. \A k \in 1..10 : k < Progress
    BY DEF Progress
  <2> QED BY <1>1, <2>1 DEF Shown
<1>3. ChecksPart(db)
  BY <1>2 DEF StagePart
<1>4. MetricPart(db)
  BY <1>2 DEF StagePart
<1>5. NetPart(db) /\ CPUPart(db)
  BY <1>2 DEF StagePart
<1>6. IOPart(db)
  BY <1>2 DEF StagePart
<1>7. \A t \in SnapshotTables \ {"check_status"} : SamePart(db, t)
  <2>1. SamePart(db, "disk_status") /\ SamePart(db, "net_interface") /\ SamePart(db, "cpu_core")
    BY <1>2 DEF StagePart
  <2>2. SamePart(db, "process_top") /\ SamePart(db, "raid_array") /\ SamePart(db, "smart_disk")
    BY <1>2 DEF StagePart
  <2> QED BY <2>1, <2>2 DEF SnapshotTables
<1>8. \A t \in SnapshotTables \ {"check_status"} : RowsOfNode(db, t) = RowsOfNode(src, t)
  BY <1>7, SourceRows DEF SamePart, MirrorInv
<1> QED BY <1>1, <1>3, <1>4, <1>5, <1>6, <1>8
        DEF ChecksPart, MetricPart, NetPart, CPUPart, IOPart, RowsOfNode

(* A poll in which no fetch failed, with nothing else done to either node  *)
(* since it began, leaves exactly what the peer shows of itself: no row    *)
(* too many, none too few, each with the peer's value (cluster.go          *)
(* pollNode).                                                              *)
THEOREM MirrorsAgree == Spec => []InStep
<1>1. MirrorInv /\ CleanInv /\ [Next]_vars => CleanInv'
  BY CleanStep
<1> QED BY <1>1, CleanStarts, MirrorAlways, CleanIsInStep, PTL DEF Spec
=============================================================================
