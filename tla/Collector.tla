----------------------------- MODULE Collector -----------------------------
(***************************************************************************)
(* The metrics collector of a node (internal/collector) and the views the  *)
(* dashboard takes of what it stored.  Each cycle reads the host once per  *)
(* sampler, derives rates from the sampler's previous reading, writes the  *)
(* node's tables and prunes them.                                          *)
(*                                                                         *)
(* The counters the host's readers return are abstracted to one growing    *)
(* counter per unit (a device, mount, interface, core, process, array):    *)
(* every sampler reads the same units, and each may fail on its own.  A    *)
(* cycle is one action: nothing else writes the node's own rows of these   *)
(* tables.                                                                 *)
(***************************************************************************)
EXTENDS Storage, FiniteSetsExt

CONSTANTS
  Node,           \* this node
  Units,          \* devices, mounts, interfaces, cores, processes, arrays
  Readings,       \* what may happen to the host between two samples
  CanFail,        \* samplers that may fail
  Cores, TopN,    \* runtime.NumCPU, topProcessCount
  DiskSize,       \* capacity of a mount
  Retention,      \* of General, 0 keeps everything
  Horizon,        \* maxForecastHorizon
  MaxSamples, MaxFaults, MaxRestarts             \* bounds of the instance

ASSUME CollectorAssumption ==
  /\ Cores \in Nat \ {0} /\ TopN \in Nat \ {0} /\ Retention \in Nat
  /\ DiskSize \in Nat /\ Horizon \in Nat
  /\ IsFiniteSet(Units)
  /\ \A r \in Readings : /\ r.dt \in Nat /\ r.units \subseteq Units
                         /\ r.gain \in [Units -> Nat] /\ r.reset \subseteq Units
                         /\ \A u \in Units : r.gain[u] <= r.dt * Cores
                         /\ r.smart \in {"absent", "old", "new"}
  (* Cores are numbered from 0: as many of them are the same ones. *)
  /\ \A r, s \in Readings : r.units \subseteq s.units \/ s.units \subseteq r.units

VARIABLES
  now,        \* the clock, in seconds
  host,       \* [ctr, done, units, report]: counters, work done, SMART report
  prev,       \* the previous reading per sampler, or None
  src,        \* the node's database
  spent       \* how much of every bound is used

collectorVars == <<now, host, prev, src, spent>>

None == [none |-> TRUE]
NoTime == -1

---------------------------------------------------------------------------
(* The collector: one operator per sampler, d the database it writes, p    *)
(* its previous reading, rd the units and counters it reads at time at.    *)

Samplers == {"net", "iface", "cpu", "cores", "diskio", "proc"}

Total(rd) == MapThenSumSet(LAMBDA u : rd[u], DOMAIN rd)
Elapsed(p, at) == IF p = None THEN 0 ELSE at - p.at
Had(p, u) == p # None /\ u \in DOMAIN p.ctr

(* Seeded fault: no guard against a counter that went back, so the unsigned
   difference wraps. *)
perSecondUnguarded(cur, before, secs) ==
  IF secs <= 0 THEN 0 ELSE (2 * ((cur - before) % 256) + secs) \div (2 * secs)
(* Units per second, rounded to the nearest. *)
perSecond(cur, before, secs) ==
  IF cur < before \/ secs <= 0 THEN 0 ELSE (2 * (cur - before) + secs) \div (2 * secs)

(* 100 * num / den to two decimals, in hundredths. *)
round2(num, den) == (20000 * num + den) \div (2 * den)

Rate(p, rd, at, u) == IF Had(p, u) THEN perSecond(rd[u], p.ctr[u], Elapsed(p, at)) ELSE 0

sampleDisks(d, rd, at) ==
  LET rows == {Row(Node, u, at, rd[u]) : u \in DOMAIN rd}
  IN DeleteDiskStatusesExcept(
       InsertDiskUsageSample(UpsertDiskStatus(d, rows), SetToSeq(rows)), Node, DOMAIN rd)

sampleNet(d, p, rd, at) ==
  LET gain == IF p = None THEN 0 ELSE Total(rd) - Total(p.ctr)
      rate == IF Elapsed(p, at) > 0 /\ gain >= 0 THEN <<gain, Elapsed(p, at)>> ELSE <<0, 1>>
  IN InsertNetSample(d, Row(Node, NoKey, at, [bytes |-> Total(rd), rate |-> rate]))

sampleNetIface(d, p, rd, at) ==
  ReplaceNetInterfaces(d, Node,
    {Row(Node, u, at, [rate |-> Rate(p, rd, at, u), errs |-> rd[u]]) : u \in DOMAIN rd})

(* The first reading only primes; so does one without elapsed CPU time. *)
sampleCPUState(d, p, done, at) ==
  LET total == Total(done) - Total(p.done)
  IN IF p = None \/ total <= 0 THEN d
     ELSE InsertCPUState(d, Row(Node, NoKey, at,
            [u \in Units |-> IF done[u] > p.done[u]
                             THEN round2(done[u] - p.done[u], total) ELSE 0]))

(* A core accumulates Cores counts of CPU time per second.  The first      *)
(* reading and a changed core count only prime.                            *)
sampleCPUCores(d, p, rd, done, at) ==
  IF p = None \/ Cardinality(DOMAIN p.ctr) # Cardinality(DOMAIN rd) \/ Elapsed(p, at) <= 0
  THEN d
  ELSE LET total == Elapsed(p, at) * Cores
           pct(u)  == round2(done[u] - p.done[u], total)
       IN ReplacePerCore(d, Node,
            {Row(Node, u, at, IF pct(u) > 10000 THEN 10000 ELSE pct(u)) : u \in DOMAIN rd})

sampleDiskIO(d, p, rd, at) ==
  InsertDiskIOSample(d, SetToSeq({Row(Node, u, at, Rate(p, rd, at, u)) : u \in DOMAIN rd}))

(* The TopN processes by CPU share, ties by identity. *)
sampleProcesses(d, p, rd, at) ==
  LET gain(u)  == IF Had(p, u) /\ rd[u] > p.ctr[u] THEN rd[u] - p.ctr[u] ELSE 0
      share(u) == IF Elapsed(p, at) > 0 THEN round2(gain(u), Elapsed(p, at) * Cores) ELSE 0
      top == {s \in SUBSET DOMAIN rd :
                /\ Cardinality(s) = IF Cardinality(DOMAIN rd) < TopN
                                    THEN Cardinality(DOMAIN rd) ELSE TopN
                /\ \A u \in s, v \in DOMAIN rd \ s : share(u) >= share(v)}
  IN ReplaceProcessTop(d, Node, {Row(Node, u, at, share(u)) : u \in CHOOSE s \in top : TRUE})

(* RAID is read live, SMART from a report file another program writes. *)
sampleRaid(d, rd, at) == ReplaceRaidArrays(d, Node, {Row(Node, u, at, rd[u]) : u \in DOMAIN rd})
sampleSmart(d, rd, report, at) ==
  ReplaceSmartDisks(d, Node,
    IF report = NoTime THEN {} ELSE {Row(Node, u, at, report) : u \in DOMAIN rd})

prune(d, t) ==
  LET before == t - Retention
  IN IF Retention <= 0 THEN d
     ELSE PruneDiskUsage(PruneDiskIO(PruneCPUState(PruneNet(Prune(d, before), before),
                                                   before), before), before)

(* A unit that is gone or reset starts again from nothing. *)
HostAfter(r) ==
  [ctr    |-> [u \in Units |-> IF u \notin r.units THEN 0
                               ELSE IF u \in r.reset THEN r.gain[u]
                               ELSE host.ctr[u] + r.gain[u]],
   done   |-> [u \in Units |-> host.done[u] + r.gain[u]],
   units  |-> r.units,
   report |-> CASE r.smart = "absent" -> NoTime
                [] r.smart = "old"    -> host.report
                [] r.smart = "new"    -> now + r.dt]
Reads(h) == [u \in h.units |-> h.ctr[u]]

(* What one of the samplers leaves; one that fails writes nothing.         *)
sampled(name, failing, d, h, at) ==
  LET rd == Reads(h)
  IN IF name = failing THEN d
     ELSE CASE name = "metrics" -> InsertMetric(d, Row(Node, NoKey, at, Total(rd)))
            [] name = "disk"    -> sampleDisks(d, rd, at)
            [] name = "net"     -> sampleNet(d, prev["net"], rd, at)
            [] name = "iface"   -> sampleNetIface(d, prev["iface"], rd, at)
            [] name = "cpu"     -> sampleCPUState(d, prev["cpu"], h.done, at)
            [] name = "cores"   -> sampleCPUCores(d, prev["cores"], rd, h.done, at)
            [] name = "diskio"  -> sampleDiskIO(d, prev["diskio"], rd, at)
            [] name = "proc"    -> sampleProcesses(d, prev["proc"], rd, at)
            [] name = "raid"    -> sampleRaid(d, rd, at)
            [] name = "smart"   -> sampleSmart(d, rd, h.report, at)

(* One cycle: every sampler in turn; nothing at all when the first reading *)
(* (metrics.Collect) fails.                                                *)
Order == <<"metrics", "disk", "net", "iface", "cpu", "cores", "diskio", "proc", "raid", "smart">>
sampleOnce(d, h, at, failing) ==
  LET after[n \in 0..Len(Order)] ==
        IF n = 0 THEN d ELSE sampled(Order[n], failing, after[n - 1], h, at)
  IN IF failing = "metrics" THEN d ELSE after[Len(Order)]

Reading(s, h, at, failing) ==
  IF failing \in {s, "metrics"} THEN prev[s]
  ELSE [at |-> at, ctr |-> Reads(h), done |-> h.done]

Sample(r, failing) ==
  /\ spent.samples < MaxSamples
  /\ failing # "none" => spent.faults < MaxFaults
  /\ now' = now + r.dt
  /\ host' = HostAfter(r)
  /\ src' = prune(sampleOnce(src, host', now', failing), now')
  /\ prev' = [s \in Samplers |-> Reading(s, host', now', failing)]
  /\ spent' = [spent EXCEPT !.samples = @ + 1,
                            !.faults = IF failing = "none" THEN @ ELSE @ + 1]

(* The process restarts: the collector forgets every reading. *)
Restart ==
  /\ spent.restarts < MaxRestarts
  /\ \E s \in Samplers : prev[s] # None
  /\ prev' = [s \in Samplers |-> None]
  /\ spent' = [spent EXCEPT !.restarts = @ + 1]
  /\ UNCHANGED <<now, host, src>>

CollectorInit ==
  /\ now = 0
  /\ host = [ctr |-> [u \in Units |-> 0], done |-> [u \in Units |-> 0],
             units |-> {}, report |-> NoTime]
  /\ prev = [s \in Samplers |-> None]
  /\ src = schemaSQL
  /\ spent = [samples |-> 0, faults |-> 0, restarts |-> 0]

CollectorNext ==
  \/ \E r \in Readings, f \in CanFail \cup {"none"} : Sample(r, f)
  \/ Restart

CollectorSpec == CollectorInit /\ [][CollectorNext]_collectorVars

---------------------------------------------------------------------------
NoForecast == -1
Dot(f, g) == Total([i \in DOMAIN f |-> f[i] * g[i]])
(* Seeded fault: the headroom is measured from the first point. *)
fillForecastFromFirst(points) ==
  LET n == Len(points)
      x == [i \in 1..n |-> points[i].at - points[1].at]
      y == [i \in 1..n |-> points[i].val]
      varX  == n * Dot(x, x) - Total(x) * Total(x)
      covXY == n * Dot(x, y) - Total(x) * Total(y)
      left  == DiskSize - points[1].val
      eta   == (2 * left * varX + covXY) \div (2 * covXY)
  IN IF n < 3 \/ varX <= 0 \/ covXY <= 0 \/ left <= 0 THEN NoForecast
     ELSE IF eta > Horizon THEN NoForecast ELSE eta
(* Seconds until the mount is full, by linear regression over its history. *)
fillForecast(points) ==
  LET n == Len(points)
      x == [i \in 1..n |-> points[i].at - points[1].at]
      y == [i \in 1..n |-> points[i].val]
      varX  == n * Dot(x, x) - Total(x) * Total(x)
      covXY == n * Dot(x, y) - Total(x) * Total(y)
      left  == DiskSize - points[n].val
      eta   == (2 * left * varX + covXY) \div (2 * covXY)
  IN IF n < 3 \/ varX <= 0 \/ covXY <= 0 \/ left <= 0 THEN NoForecast
     ELSE IF eta > Horizon THEN NoForecast ELSE eta

---------------------------------------------------------------------------
(* The variables have the shape the code gives them. *)
CollectorTypeOK ==
  /\ now \in Nat
  /\ \A t \in Tables : \A r \in RowsOf(src, t) :
       r.node = Node /\ r.at \in 0..now /\ r.key \in Units \cup {NoKey}
  /\ \A t \in SnapshotTables : \A r, s \in src[t] : r.key = s.key => r = s
  /\ \A s \in Samplers :
       prev[s] = None \/ (prev[s].at \in 0..now /\ DOMAIN prev[s].ctr \subseteq Units)

(* A sample never shows more than the host did: the rate of a unit times   *)
(* the seconds since the sampler's previous reading is at most the work    *)
(* done in between, whatever was reset, replugged, missed or restarted;    *)
(* and the CPU breakdown adds up to the whole (collector.go).              *)
RatesHonestStep ==
  LET work(s, u) == host'.done[u] - prev[s].done[u]
      secs(s)    == now' - prev[s].at
      wrote(s)   == prev'[s] # prev[s] /\ None \notin {prev[s], prev'[s]}
      fits(s, u, rate) == 2 * rate * secs(s) <= 2 * work(s, u) + secs(s)
      cpu == LatestCPUState(src', Node)
  IN /\ wrote("iface") => \A r \in NetInterfaces(src', Node) : fits("iface", r.key, r.val.rate)
     /\ wrote("diskio") => \A r \in ToSet(LatestDiskIOSamples(src', Node)) :
                             r.at = now' /\ now' > now => fits("diskio", r.key, r.val)
     /\ wrote("proc") => \A r \in TopProcesses(src', Node) :
          2 * r.val * secs("proc") * Cores <= 20000 * work("proc", r.key) + secs("proc") * Cores
     /\ wrote("net") => LET r == LatestNetSample(src', Node)[1].val.rate IN
          r[1] * secs("net") <= Total([u \in Units |-> work("net", u)]) * r[2]
     /\ cpu # <<>> => LET sum == Total(cpu[1].val) IN
          sum \in (10000 - Cardinality(Units))..(10000 + Cardinality(Units))
     /\ \A r \in PerCore(src', Node) : r.val <= 10000
RatesHonest == [][RatesHonestStep]_collectorVars

(* A window and a limited history of at most k points beside the whole.    *)
ViewsOf(all, window, limited, k) ==
  /\ Len(window) <= 2 * k
  /\ ToSet(window) \subseteq ToSet(all)
  /\ all # <<>> => window # <<>> /\ Head(window) = Head(all)
  /\ IsSuffix(limited, all) /\ Len(limited) = IF Len(all) < k THEN Len(all) ELSE k
(* The views of every series from a time on. *)
HistoryOf(from, k) ==
  /\ ViewsOf(RecentMetrics(src, Node, from, 0), MetricsWindow(src, Node, from, now, k),
             RecentMetrics(src, Node, from, k), k)
  /\ ViewsOf(RecentNetSamples(src, Node, from, 0), NetSamplesWindow(src, Node, from, now, k),
             RecentNetSamples(src, Node, from, k), k)
  /\ ViewsOf(RecentCPUStates(src, Node, from, 0), CPUStateWindow(src, Node, from, now, k),
             RecentCPUStates(src, Node, from, k), k)
  /\ ViewsOf(DiskIOHistory(src, Node, from, 0), DiskIOWindow(src, Node, from, now, k),
             DiskIOHistory(src, Node, from, k), k)
  /\ \A u \in Units : LET all == RecentDiskUsage(src, Node, u, from) IN
       ViewsOf(all, DiskUsageWindow(src, Node, u, from, now, k), LastOf(all, k), k)

(* Every view of a series is bounded and true to it: at most twice the     *)
(* requested points, each of them a point of the full history, the first   *)
(* included; and the limited history is the tail of the full one           *)
(* (storage.go MetricsWindow, bucketSize, RecentMetrics and their like).   *)
HistoryBounded == \A from \in {0, 1}, k \in 1..2 : HistoryOf(from, k)

(* Points of a disk that fills by g every second, and the seconds it has   *)
(* left at that rate.                                                      *)
Steady(pts, g) ==
  LET n == Len(pts)
  IN /\ n >= 3 /\ pts[n].at > pts[1].at
     /\ \A i \in 1..n : pts[i].val - pts[1].val = g * (pts[i].at - pts[1].at)
Due(pts, g) == (2 * (DiskSize - pts[Len(pts)].val) + g) \div (2 * g)
FullWhenDue(pts, g) ==
  Steady(pts, g) /\ pts[Len(pts)].val < DiskSize /\ Due(pts, g) <= Horizon
    => fillForecast(pts) = Due(pts, g)
NeverIfStable(pts) ==
  (\A i \in 1..(Len(pts) - 1) : pts[i + 1].val <= pts[i].val) => fillForecast(pts) = NoForecast

(* A disk that fills at a constant rate is forecast to be full when it     *)
(* will be, a disk that does not fill never (forecast.go fillForecast over *)
(* RecentDiskUsage).                                                       *)
ForecastExact ==
  \A u \in Units : LET pts == RecentDiskUsage(src, Node, u, 0)
                   IN NeverIfStable(pts) /\ \A g \in 1..Cores : FullWhenDue(pts, g)

=============================================================================
