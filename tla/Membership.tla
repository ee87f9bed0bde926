----------------------------- MODULE Membership -----------------------------
(***************************************************************************)
(* Who knows whom: the peer tables of several nodes, filled by announces   *)
(* and gossip (internal/cluster), cleaned by self-heal, and edited by the  *)
(* dashboards (internal/server), all at once.                              *)
(*                                                                         *)
(* A URL is what NormalizeAddr makes of it: an address.  A node may be     *)
(* reachable at several addresses and a row may be named anything, so      *)
(* neither identifies a node; whoami does.  Secrets are numbers, 0 is none.*)
(***************************************************************************)
EXTENDS Integers, Sequences, FiniteSets, SequencesExt

CONSTANTS
  Node, Addr, Secret,
  Names,          \* every row name, in the order of ListPeers: a sequence
  Owner,          \* [Addr -> Node]: the node that answers at an address
  Advertise,      \* [Node -> Addr \cup {NoAddr}]: advertise_url
  NoAddr,
  ClusterSecret,  \* [Node -> Secret \cup {0}]: server.peer_secret
  Tables0,        \* peer tables the nodes may start with
  Edits,          \* what an admin may submit: [node, name, url, secret, muted]
  MaxRounds, MaxEdits, MaxLost, MaxCrashes,       \* bounds of the instance
  MaxLead,        \* bound: how many cycles a node may be ahead of a running one
  MaxEvents       \* bound: edits, lost calls and crashes together

ASSUME MembershipAssumption ==
  /\ Names \in Seq(ToSet(Names)) /\ \A i, j \in DOMAIN Names : Names[i] = Names[j] => i = j
  /\ Node \subseteq ToSet(Names) /\ Secret \subseteq Nat \ {0} /\ NoAddr \notin Addr
  /\ Owner \in [Addr -> Node]
  /\ \A n \in Node : Advertise[n] = NoAddr \/ (Advertise[n] \in Addr /\ Owner[Advertise[n]] = n)
  /\ ClusterSecret \in [Node -> Secret \cup {0}]
  /\ \A t \in Tables0 : t \in [Node -> UNION {[S -> [url : Addr, secret : Secret \cup {0}, enabled : BOOLEAN]] :
                                              S \in SUBSET ToSet(Names)}]
  /\ \A t \in Tables0, n \in Node : \A x \in DOMAIN t[n] : t[n][x].secret = 0 => x = Owner[t[n][x].url]
  /\ \A e \in Edits : /\ e.node \in Node /\ e.name \in ToSet(Names) \ {e.node} /\ e.url \in Addr
                      /\ e.secret \in Secret \cup {0} /\ e.muted \in BOOLEAN
  /\ MaxRounds \in Nat /\ MaxLead \in Nat

VARIABLES
  up,         \* the running nodes
  table,      \* [node -> [name -> [url, secret, enabled]]]: its peer rows
  fallback,   \* the poller's fallback secret, per node
  cyc,        \* the poller's cycle: [stage, todo, known, found]
  writes,     \* per node, the handlers that have checked and not yet written
  fresh,      \* ghost: names an admin edited since the poller listed the peers
  raced,      \* ghost: nodes where an update without a secret met another row than it checked
  rounds,     \* cycles a node has run since the last lost call or crash took effect
  used        \* [edits, lost, crashes] so far

vars == <<up, table, fallback, cyc, writes, fresh, raced, rounds, used>>

Bounds == [edits |-> MaxEdits, lost |-> MaxLost, crashes |-> MaxCrashes]
Spend(what) ==
  /\ used[what] < Bounds[what] /\ used.edits + used.lost + used.crashes < MaxEvents
  /\ used' = [used EXCEPT ![what] = @ + 1]

---------------------------------------------------------------------------
(* The peer table.                                                         *)

GetPeer(t, name) == name \in DOMAIN t
ListPeers(t) ==
  {[name |-> x, url |-> t[x].url, secret |-> t[x].secret, enabled |-> t[x].enabled] : x \in DOMAIN t}

(* A list of rows is a set of them, taken in the order of their names. *)
Before(x, y) == \E i, j \in DOMAIN Names : i < j /\ Names[i] = x /\ Names[j] = y
First(rows) == {p \in rows : \A q \in rows : ~Before(q.name, p.name)}

(* A row keeps its secret unless a new one comes, and its muted flag. *)
UpsertPeer(t, name, url, secret) ==
  [x \in DOMAIN t \cup {name} |->
     IF x # name THEN t[x]
     ELSE [url |-> url,
           secret |-> IF secret = 0 /\ x \in DOMAIN t THEN t[x].secret ELSE secret,
           enabled |-> x \in DOMAIN t => t[x].enabled]]
SetPeerEnabled(t, name, enabled) ==
  [x \in DOMAIN t |-> IF x = name THEN [t[x] EXCEPT !.enabled = enabled] ELSE t[x]]
DeletePeer(t, name) == [x \in DOMAIN t \ {name} |-> t[x]]

(* Seeded fault: the number of its uses for the secret itself. *)
CommonCount(t) ==
  LET uses(s) == Cardinality({x \in DOMAIN t : t[x].secret = s})
      held == {t[x].secret : x \in DOMAIN t} \ {0}
  IN IF held = {} THEN 0 ELSE CHOOSE k \in {uses(s) : s \in held} : \A s \in held : uses(s) <= k
(* The most frequent secret of the rows, the smallest of those. *)
CommonSecret(t) ==
  LET uses(s) == Cardinality({x \in DOMAIN t : t[x].secret = s})
      held == {t[x].secret : x \in DOMAIN t} \ {0}
  IN IF held = {} THEN 0
     ELSE CHOOSE s \in held : \A r \in held : uses(r) < uses(s) \/ (uses(r) = uses(s) /\ s <= r)

---------------------------------------------------------------------------
(* Calls between nodes.                                                    *)

(* Seeded fault: no fallback for a row without a secret. *)
ownSecret(n, p) == p.secret
effectiveSecret(n, p) == IF p.secret # 0 THEN p.secret ELSE fallback[n]
validSecret(m, s) ==
  (\E x \in DOMAIN table[m] : table[m][x].secret = s) \/ ClusterSecret[m] = s
requireSecret(m, s) == s # 0 /\ validSecret(m, s)
Answers(addr, s) == Owner[addr] \in up /\ requireSecret(Owner[addr], s)

(* The name the node at an address gives, or none. *)
probeName(n, addr) == IF Answers(addr, fallback[n]) THEN {Owner[addr]} ELSE {}

peerAtSameAddr(m, url) == \E x \in DOMAIN table[m] : table[m][x].url = url

(* The responder itself comes first, then the rows it polls. *)
handlePeerMembers(m) ==
  {[name |-> m, url |-> u, own |-> TRUE] : u \in {Advertise[m]} \ {NoAddr}} \cup
  {[name |-> p.name, url |-> p.url, own |-> FALSE] : p \in {r \in ListPeers(table[m]) : r.enabled}}
FirstMember(found) ==
  {c \in found : \A d \in found \ {c} : c.own \/ (~d.own /\ ~Before(d.name, c.name))}

---------------------------------------------------------------------------
(* The poller of node n.  Every loop takes the rows in order; a call that  *)
(* fails, for a node that is down, a secret refused, or a lost message,    *)
(* only skips the row.                                                     *)

Idle == [stage |-> "idle", todo |-> {}, known |-> {}, found |-> {}]
In(n, stage) == n \in up /\ cyc[n].stage = stage
Enabled(rows) == {p \in rows : p.enabled}
(* A call of the poller may get lost. *)
MayLose == UNCHANGED used \/ Spend("lost")
Lost == used' # used

(* Where a loop is done the next begins: gossip's with the rows that       *)
(* selfHeal kept, the cycle's end after that (pollAll is module Mirror's). *)
Onward(c) ==
  LET d == IF c.stage = "heal" /\ c.todo = {}
           THEN [stage |-> "gossip", todo |-> Enabled(c.known), known |-> c.known, found |-> {}]
           ELSE c
  IN IF d.stage = "gossip" /\ d.todo = {} /\ d.found = {} THEN Idle ELSE d

(* refreshFallback, and the rows announceAll is going to call. *)
StartCycle(n) ==
  /\ In(n, "idle") /\ rounds[n] < MaxRounds
  /\ \A m \in up : rounds[n] <= rounds[m] + MaxLead
  /\ fallback' = [fallback EXCEPT ![n] = IF ClusterSecret[n] # 0 THEN ClusterSecret[n]
                                         ELSE CommonSecret(table[n])]
  /\ cyc' = [cyc EXCEPT ![n] = [stage |-> "announce",
               todo |-> IF Advertise[n] = NoAddr THEN {} ELSE Enabled(ListPeers(table[n])),
               known |-> {}, found |-> {}]]
  /\ UNCHANGED <<up, table, writes, fresh, raced, used>>

(* The checks of handlePeerAnnounce at m; its write comes later, perhaps   *)
(* later than the caller waits for.                                        *)
handlePeerAnnounce(m, name, url, late) ==
  writes' = [writes EXCEPT ![m] =
    IF GetPeer(table[m], name) \/ ~peerAtSameAddr(m, url)
    THEN @ \cup {[op |-> "announce", name |-> name, url |-> url, secret |-> 0,
                  muted |-> FALSE, late |-> late]}
    ELSE @]
Waits(n) == \E m \in Node : \E w \in writes[m] : w.op = "announce" /\ w.name = n /\ ~w.late

announce(n) ==
  /\ In(n, "announce") /\ ~Waits(n)
  /\ MayLose
  /\ \E p \in First(cyc[n].todo) :
       /\ \/ /\ Answers(p.url, effectiveSecret(n, p))
             /\ handlePeerAnnounce(Owner[p.url], n, Advertise[n], Lost)
          \/ /\ Lost \/ ~Answers(p.url, effectiveSecret(n, p))
             /\ UNCHANGED writes
       /\ cyc' = [cyc EXCEPT ![n].todo = @ \ {p}]
  /\ UNCHANGED <<up, table, fallback, fresh, raced>>

(* Seeded fault: rows that carry a secret are probed too. *)
SuspectsOfAll(rows) == rows
(* The rows selfHeal probes. *)
Suspects(rows) == {p \in rows : p.secret = 0}

(* gossip lists the peers; every later check looks at this list. *)
StartGossip(n) ==
  /\ In(n, "announce") /\ cyc[n].todo = {} /\ ~Waits(n)
  /\ LET rows == ListPeers(table[n]) IN
       cyc' = [cyc EXCEPT ![n] = Onward([stage |-> "heal", todo |-> Suspects(rows),
                                        known |-> rows, found |-> {}])]
  /\ fresh' = [fresh EXCEPT ![n] = {}]
  /\ UNCHANGED <<up, table, fallback, writes, raced, used>>

selfHeal(n) ==
  /\ In(n, "heal")
  /\ MayLose
  /\ \E p \in First(cyc[n].todo) :
       LET self == ~Lost /\ n \in probeName(n, p.url) IN
       /\ cyc' = [cyc EXCEPT ![n] =
            Onward([stage |-> "heal", todo |-> @.todo \ {p}, found |-> {},
                    known |-> IF self THEN {k \in @.known : k.name # p.name} ELSE @.known])]
       /\ table' = [table EXCEPT ![n] = IF self THEN DeletePeer(@, p.name) ELSE @]
  /\ UNCHANGED <<up, fallback, writes, fresh, raced>>

(* The cheap checks of considerMember: they look at nothing but the list.  *)
Candidate(n, c, known) ==
  /\ c.name # n /\ c.url # Advertise[n]
  /\ \A k \in known : k.name # c.name /\ k.url # c.url

FetchMembers(n) ==
  /\ In(n, "gossip") /\ cyc[n].found = {}
  /\ MayLose
  /\ \E p \in First(cyc[n].todo) :
       LET resp == IF ~Lost /\ Answers(p.url, effectiveSecret(n, p))
                   THEN handlePeerMembers(Owner[p.url]) ELSE {} IN
       cyc' = [cyc EXCEPT ![n] =
                Onward([stage |-> "gossip", todo |-> @.todo \ {p}, known |-> @.known,
                        found |-> {c \in resp : Candidate(n, c, cyc[n].known)}])]
  /\ UNCHANGED <<up, table, fallback, writes, fresh, raced>>

(* Seeded fault: the member is stored under the name it was gossiped by. *)
NewUnderLabel(n, c, known) ==
  {name \in {c.name} : Candidate(n, c, known) /\ probeName(n, c.url) \notin {{}, {n}}}
(* The name under which a gossiped member is new, or none.                 *)
NewMember(n, c, known) ==
  {name \in probeName(n, c.url) :
     Candidate(n, c, known) /\ name # n /\ \A k \in known : k.name # name}

considerMember(n) ==
  /\ In(n, "gossip")
  /\ MayLose
  /\ \E c \in FirstMember(cyc[n].found) :
       LET new == IF Lost THEN {} ELSE NewMember(n, c, cyc[n].known)
           added == {[name |-> x, url |-> c.url, secret |-> 0, enabled |-> TRUE] : x \in new} IN
       /\ cyc' = [cyc EXCEPT ![n] =
            Onward([stage |-> "gossip", todo |-> @.todo, known |-> @.known \cup added,
                    found |-> @.found \ {c}])]
       /\ \/ new = {} /\ UNCHANGED table
          \/ \E x \in new : table' = [table EXCEPT ![n] = UpsertPeer(@, x, c.url, 0)]
  /\ UNCHANGED <<up, fallback, writes, fresh, raced>>

---------------------------------------------------------------------------
(* The dashboard.  A handler checks and then writes; others may write in   *)
(* between.                                                                *)

(* validatePeer, but for the name of the local node, which MembershipAssumption *)
(* keeps out of Edits.                                                          *)
validatePeer(e, secretRequired) == secretRequired => e.secret # 0

Submit(e, op) ==
  /\ e.node \in up
  /\ Spend("edits")
  /\ writes' = [writes EXCEPT ![e.node] =
       @ \cup {[op |-> op, name |-> e.name, url |-> e.url, secret |-> e.secret,
              muted |-> e.muted, late |-> FALSE]}]
  /\ UNCHANGED <<up, table, fallback, cyc, fresh, raced>>

handleCreatePeer(e) ==
  validatePeer(e, TRUE) /\ ~GetPeer(table[e.node], e.name) /\ Submit(e, "create")

HasSecret(t, name) == GetPeer(t, name) /\ t[name].secret # 0
handleUpdatePeer(e) ==
  /\ GetPeer(table[e.node], e.name)
  /\ validatePeer(e, e.secret # 0 \/ ~HasSecret(table[e.node], e.name))
  /\ Submit(e, "update")

handleDeletePeer(e) == GetPeer(table[e.node], e.name) /\ Submit(e, "delete")

(* A handler writes what it was about to.  Create and update set the muted *)
(* flag in a statement of its own.                                         *)
Write(m, w) ==
  /\ m \in up /\ w \in writes[m]
  /\ table' = [table EXCEPT ![m] =
       CASE w.op = "delete" -> DeletePeer(@, w.name)
         [] w.op = "enable" -> SetPeerEnabled(@, w.name, ~w.muted)
         [] OTHER           -> UpsertPeer(@, w.name, w.url, w.secret)]
  /\ writes' = [writes EXCEPT ![m] =
       (@ \ {w}) \cup (IF w.op \in {"create", "update"} THEN {[w EXCEPT !.op = "enable"]} ELSE {})]
  /\ fresh' = [fresh EXCEPT ![m] = IF w.op = "announce" THEN @ ELSE @ \cup {w.name}]
  /\ raced' = IF w.op = "update" /\ w.secret = 0 /\ ~HasSecret(table[m], w.name)
              THEN raced \cup {m} ELSE raced
  /\ UNCHANGED <<up, fallback, cyc, used>>

---------------------------------------------------------------------------
(* The process stops: what is not in the table is lost. *)
Stop(n) ==
  /\ n \in up
  /\ Spend("crashes")
  /\ up' = up \ {n}
  /\ fallback' = [fallback EXCEPT ![n] = 0]
  /\ cyc' = [cyc EXCEPT ![n] = Idle]
  /\ writes' = [writes EXCEPT ![n] = {}]
  /\ UNCHANGED <<table, fresh, raced>>

Start(n) ==
  /\ n \notin up
  /\ up' = up \cup {n}
  /\ UNCHANGED <<table, fallback, cyc, writes, fresh, raced, used>>

Init ==
  /\ up = Node
  /\ table \in Tables0
  /\ fallback = [n \in Node |-> 0]
  /\ cyc = [n \in Node |-> Idle]
  /\ writes = [n \in Node |-> {}]
  /\ fresh = [n \in Node |-> {}] /\ raced = {}
  /\ rounds = [n \in Node |-> 0]
  /\ used = [edits |-> 0, lost |-> 0, crashes |-> 0]

Poller(n) ==
  \/ StartCycle(n) \/ announce(n) \/ StartGossip(n) \/ selfHeal(n)
  \/ FetchMembers(n) \/ considerMember(n)
Handlers(n) == \E w \in writes[n] : Write(n, w)
Admin == \E e \in Edits : handleCreatePeer(e) \/ handleUpdatePeer(e) \/ handleDeletePeer(e)

(* After a lost call or a crash, or when an announce a node gave up on     *)
(* reaches that node's own table, the rounds are counted anew, and a cycle *)
(* under way is not one of them.                                           *)
Disturbed ==
  \/ used'.lost # used.lost \/ up' # up
  \/ \E n \in Node : \E w \in writes[n] \ writes'[n] : w.late /\ w.name = n
Counting ==
  rounds' = IF Disturbed
            THEN [n \in Node |-> IF cyc'[n].stage = "idle" THEN 0 ELSE -1]
            ELSE [n \in Node |-> IF cyc[n].stage # "idle" /\ cyc'[n].stage = "idle"
                                 THEN rounds[n] + 1 ELSE rounds[n]]

Next ==
  /\ \/ \E n \in Node : Poller(n) \/ Handlers(n) \/ Stop(n) \/ Start(n)
     \/ Admin
  /\ Counting

Spec == Init /\ [][Next]_vars

---------------------------------------------------------------------------
Row == [url : Addr, secret : Secret \cup {0}, enabled : BOOLEAN]
Listed == [name : ToSet(Names), url : Addr, secret : Secret \cup {0}, enabled : BOOLEAN]
Member == [name : ToSet(Names), url : Addr, own : BOOLEAN]
Cycle == [stage : {"idle", "announce", "heal", "gossip"}, todo : SUBSET Listed,
          known : SUBSET Listed, found : SUBSET Member]
Handler == [op : {"announce", "create", "update", "delete", "enable"}, name : ToSet(Names),
            url : Addr, secret : Secret \cup {0}, muted : BOOLEAN, late : BOOLEAN]

(* The variables have the shape the code gives them. *)
TypeOK ==
  /\ up \subseteq Node
  /\ DOMAIN table = Node
  /\ \A n \in Node : DOMAIN table[n] \subseteq ToSet(Names) /\ \A x \in DOMAIN table[n] : table[n][x] \in Row
  /\ fallback \in [Node -> Secret \cup {0}]
  /\ cyc \in [Node -> Cycle]
  /\ writes \in [Node -> SUBSET Handler]
  /\ fresh \in [Node -> SUBSET ToSet(Names)] /\ raced \subseteq Node
  /\ rounds \in [Node -> -1..MaxRounds]

(* A row nobody typed in, one without a secret, carries the name the node  *)
(* at its address gives itself, so no node is in a table twice because     *)
(* two peers call it by different names or reach it at different addresses *)
(* (gossip.go: "stored under its canonical name"); but for an update that  *)
(* re-inserted a row deleted under it.                                     *)
AutoRowsCanonical ==
  \A n \in Node \ raced : \A x \in DOMAIN table[n] :
    table[n][x].secret = 0 => x = Owner[table[n][x].url]

(* Gossip, self-heal and announces never remove a row an admin typed in,   *)
(* nor change its secret or its muting; and its URL becomes nothing but    *)
(* what the named node announces of itself.  Except for a row the admin    *)
(* edited after the poller listed the peers: that one is still judged by   *)
(* the list (CLUSTERING.md: "never auto-delete a peer that carries a       *)
(* per-link secret", "a hand-set URL/secret is never clobbered").          *)
HandSetKept ==
  [][\A n \in Node : \A x \in DOMAIN table[n] :
       table[n][x].secret # 0 /\ x \notin fresh'[n] =>
         /\ x \in DOMAIN table'[n]
         /\ table'[n][x].secret = table[n][x].secret
         /\ table'[n][x].enabled = table[n][x].enabled
         /\ table'[n][x].url # table[n][x].url =>
              x \in Node /\ table'[n][x].url = Advertise[x]]_vars

Lists(t, n, m) == \E x \in DOMAIN t[n] : Owner[t[n][x].url] = m
Knows(n, m) == Lists(table, n, m)

(* What n is told of m by its own table or by m's announce. *)
Learns(t, n, m) == Lists(t, n, m) \/ (Lists(t, m, n) /\ Advertise[m] # NoAddr)
(* A cluster of one secret and with no row muted, where a name stands for  *)
(* one node, and with a node in the middle that all others and itself      *)
(* learn of each other.                                                    *)
Star(t, s, hub, who) ==
  \A n \in Node :
    /\ \A x \in DOMAIN t[n] : /\ t[n][x].secret \in {0, s} /\ t[n][x].enabled
                             /\ Owner[t[n][x].url] = who[x]
    /\ \/ ClusterSecret[n] = s
       \/ ClusterSecret[n] = 0 /\ \E x \in DOMAIN t[n] : t[n][x].secret = s
    /\ n # hub => Learns(t, n, hub) /\ Learns(t, hub, n)
OneCluster ==
  \E s \in Secret, hub \in Node, who \in [ToSet(Names) -> Node] :
    /\ \A n \in Node : who[n] = n
    /\ \A t \in Tables0 : Star(t, s, hub, who)

(* Once every node has run two cycles that nothing disturbed (as many more *)
(* as one may be ahead of another), whatever was lost or restarted before: *)
(* in one cluster everybody knows everybody, and no node that holds its    *)
(* cluster's secret lists itself between its cycles ("the whole cluster    *)
(* discovers it within a cycle or two", "clearing phantom-self rows",      *)
(* CLUSTERING.md).                                                         *)
Settled ==
  up = Node /\ used.edits = 0 /\ (\A n \in Node : rounds[n] >= MaxLead + 2) =>
    \A n \in Node :
      /\ OneCluster => \A m \in Node \ {n} : Knows(n, m)
      /\ ClusterSecret[n] # 0 /\ cyc[n].stage = "idle" => \A x \in DOMAIN table[n] :
           table[n][x].secret = 0 => Owner[table[n][x].url] # n
=============================================================================
