--------------------------- MODULE MembershipProofs ---------------------------
(***************************************************************************)
(* Theorems about the peer tables (module Membership), for any cluster,    *)
(* whatever calls are lost, nodes restarted and rows edited: the types,    *)
(* the names of the rows nobody typed in, the safety of those that         *)
(* somebody did, and what two undisturbed cycles of every node add up to.  *)
(***************************************************************************)
EXTENDS Membership, WellFoundedInduction, FiniteSetTheorems, TLAPS

TableOK(t) == DOMAIN t \subseteq ToSet(Names) /\ \A x \in DOMAIN t : t[x] \in Row

---------------------------------------------------------------------------
(* The operators of the peer table.                                        *)

(* What UpsertPeer leaves: the row it was given, but for a secret and a    *)
(* muted flag that are there already, and the other rows as they were.     *)
LEMMA UpsertFacts ==
  ASSUME NEW t, NEW name, NEW url, NEW secret
  PROVE  LET u == UpsertPeer(t, name, url, secret)
         IN /\ DOMAIN u = DOMAIN t \cup {name}
            /\ \A x \in DOMAIN t : x # name => u[x] = t[x]
            /\ u[name].url = url
            /\ u[name].secret = IF secret = 0 /\ name \in DOMAIN t THEN t[name].secret ELSE secret
            /\ u[name] = [url |-> u[name].url, secret |-> u[name].secret, enabled |-> u[name].enabled]
            /\ name \in DOMAIN t /\ t[name].enabled \in BOOLEAN => u[name].enabled = t[name].enabled
            /\ name \notin DOMAIN t => u[name].enabled = TRUE
BY DEF UpsertPeer

LEMMA UpsertType ==
  ASSUME NEW t, TableOK(t), NEW name \in ToSet(Names), NEW url \in Addr, NEW secret \in Secret \cup {0}
  PROVE  TableOK(UpsertPeer(t, name, url, secret))
<1> DEFINE u == UpsertPeer(t, name, url, secret)
<1>1. /\ DOMAIN u = DOMAIN t \cup {name}
      /\ \A x \in DOMAIN t : x # name => u[x] = t[x]
      /\ u[name].url = url
      /\ u[name].secret = IF secret = 0 /\ name \in DOMAIN t THEN t[name].secret ELSE secret
      /\ u[name] = [url |-> u[name].url, secret |-> u[name].secret, enabled |-> u[name].enabled]
      /\ name \in DOMAIN t /\ t[name].enabled \in BOOLEAN => u[name].enabled = t[name].enabled
      /\ name \notin DOMAIN t => u[name].enabled = TRUE
  BY UpsertFacts
<1>2. name \in DOMAIN t => t[name].secret \in Secret \cup {0} /\ t[name].enabled \in BOOLEAN
  BY DEF TableOK, Row
<1> HIDE DEF u
<1>3. u[name].secret \in Secret \cup {0} /\ u[name].enabled \in BOOLEAN
  BY <1>1, <1>2
<1>4. u[name] \in Row
  BY <1>1, <1>3 DEF Row
<1>5. TableOK(u)
  BY <1>1, <1>4 DEF TableOK
<1> QED BY <1>5 DEF u

(* DeletePeer removes one row and leaves the others as they were.          *)
LEMMA DeleteFacts ==
  ASSUME NEW t, NEW name
  PROVE  LET u == DeletePeer(t, name)
         IN /\ DOMAIN u = DOMAIN t \ {name}
            /\ \A x \in DOMAIN u : u[x] = t[x]
            /\ TableOK(t) => TableOK(u)
BY DEF DeletePeer, TableOK

(* SetPeerEnabled changes nothing but one muted flag.                      *)
LEMMA EnableFacts ==
  ASSUME NEW t, NEW name, NEW on \in BOOLEAN, TableOK(t)
  PROVE  LET u == SetPeerEnabled(t, name, on)
         IN /\ DOMAIN u = DOMAIN t
            /\ \A x \in DOMAIN t : /\ x # name => u[x] = t[x]
                                   /\ u[x].url = t[x].url /\ u[x].secret = t[x].secret
            /\ TableOK(u)
<1> DEFINE u == SetPeerEnabled(t, name, on)
<1>1. DOMAIN u = DOMAIN t
  BY DEF SetPeerEnabled
<1>2. ASSUME NEW x \in DOMAIN t
      PROVE  /\ x # name => u[x] = t[x]
             /\ u[x].url = t[x].url /\ u[x].secret = t[x].secret
             /\ u[x] \in Row
  <2>1. t[x] \in Row
    BY DEF TableOK
  <2>2. u[x] = IF x = name THEN [t[x] EXCEPT !.enabled = on] ELSE t[x]
    BY DEF SetPeerEnabled
  <2> QED BY <2>1, <2>2 DEF Row
<1>3. TableOK(u)
  BY <1>1, <1>2 DEF TableOK
<1> QED BY <1>1, <1>2, <1>3

(* The names of rows are finitely many, so every table is finite.          *)
LEMMA NamesFinite == IsFiniteSet(ToSet(Names))
<1>1. PICK k \in Nat : DOMAIN Names = 1..k
  BY MembershipAssumption
<1>2. IsFiniteSet(DOMAIN Names)
  BY <1>1, FS_Interval
<1> DEFINE f == [i \in DOMAIN Names |-> Names[i]]
<1>3. f \in Surjection(DOMAIN Names, ToSet(Names))
  BY DEF Surjection, ToSet
<1> QED BY <1>2, <1>3, FS_Surjection

(* A non-empty set of naturals has a smallest element.                     *)
LEMMA LeastNatural ==
  ASSUME NEW S \in SUBSET Nat, S # {}
  PROVE  \E m \in S : \A i \in S : m <= i
<1>1. S \subseteq Nat
  OBVIOUS
<1>2. PICK m \in S : \A i \in S : ~ (<<i, m>> \in OpToRel(<, Nat))
  BY <1>1, WFMin, NatLessThanWellFounded
<1>3. ASSUME NEW i \in S PROVE m <= i
  <2>1. ~ (i < m) /\ i \in Nat /\ m \in Nat
    BY <1>1, <1>2 DEF OpToRel
  <2> QED BY <2>1
<1> QED BY <1>3

(* CommonSecret answers with a secret of the table, or with none.          *)
LEMMA CommonSecretType ==
  ASSUME NEW t, TableOK(t)
  PROVE  CommonSecret(t) \in Secret \cup {0}
<1> DEFINE users(s) == {x \in DOMAIN t : t[x].secret = s}
           uses(s) == Cardinality(users(s))
           held == {t[x].secret : x \in DOMAIN t} \ {0}
           best(s) == \A r \in held : uses(r) < uses(s) \/ (uses(r) = uses(s) /\ s <= r)
<1>0. \A x \in DOMAIN t : t[x].secret \in Secret \cup {0}
  BY DEF TableOK, Row
<1>1. held \subseteq Secret /\ held \subseteq Nat
  <2>1. Secret \subseteq Nat
    BY MembershipAssumption
  <2> QED BY <1>0, <2>1
<1>2. IsFiniteSet(DOMAIN t)
  BY NamesFinite, FS_Subset DEF TableOK
<1> DEFINE all == Cardinality(DOMAIN t)
<1>3. ASSUME NEW s PROVE uses(s) \in Nat /\ uses(s) <= all
  <2>1. users(s) \in SUBSET DOMAIN t
    OBVIOUS
  <2> HIDE DEF users
  <2>2. IsFiniteSet(users(s)) /\ Cardinality(users(s)) <= Cardinality(DOMAIN t)
    BY <1>2, <2>1, FS_Subset
  <2> QED BY <2>2, FS_CardinalityType
<1>4. all \in Nat
  BY <1>2, FS_CardinalityType
<1>5. CASE held = {}
  BY <1>5 DEF CommonSecret
<1>6. CASE held # {}
  <2> HIDE DEF uses, held, all
  <2> DEFINE rare == {all - uses(s) : s \in held}
  <2>1. rare \in SUBSET Nat /\ rare # {}
    BY <1>3, <1>4, <1>6
  <2>2. PICK d \in rare : \A i \in rare : d <= i
    BY <2>1, LeastNatural
  <2>3. PICK s \in held : d = all - uses(s)
    BY <2>2
  <2>4. ASSUME NEW r \in held PROVE uses(r) <= uses(s)
    <3>1. all - uses(r) \in rare
      OBVIOUS
    <3>2. d <= all - uses(r)
      BY <2>2, <3>1
    <3> QED BY <1>3, <1>4, <2>3, <3>2
  <2> DEFINE ties == {r \in held : uses(r) = uses(s)}
  <2>5. ties \in SUBSET Nat /\ ties # {}
    BY <1>1
  <2>6. PICK m \in ties : \A i \in ties : m <= i
    BY <2>5, LeastNatural
  <2>7. m \in held /\ best(m)
    <3> SUFFICES ASSUME NEW r \in held
                 PROVE  uses(r) < uses(m) \/ (uses(r) = uses(m) /\ m <= r)
      BY <2>6
    <3>1. uses(m) = uses(s) /\ uses(r) <= uses(s) /\ uses(r) \in Nat /\ uses(s) \in Nat
      BY <1>3, <2>4, <2>6
    <3>2. CASE uses(r) = uses(s)
      BY <2>6, <3>1, <3>2
    <3>3. CASE uses(r) # uses(s)
      BY <3>1, <3>3
    <3> QED BY <3>2, <3>3
  <2>8. (CHOOSE c \in held : best(c)) \in held
    BY <2>7
  <2>9. CommonSecret(t) = CHOOSE c \in held : best(c)
    BY <1>6 DEF CommonSecret, held, uses
  <2> QED BY <1>1, <2>8, <2>9
<1> QED BY <1>5, <1>6

(* What ListPeers, the filters of it and handlePeerMembers list is typed.  *)
LEMMA ListPeersType ==
  ASSUME NEW t, TableOK(t)
  PROVE  ListPeers(t) \subseteq Listed
<1> SUFFICES ASSUME NEW x \in DOMAIN t
             PROVE  [name |-> x, url |-> t[x].url, secret |-> t[x].secret, enabled |-> t[x].enabled]
                      \in Listed
  BY DEF ListPeers
<1>1. x \in ToSet(Names) /\ t[x] \in Row
  BY DEF TableOK
<1> QED BY <1>1 DEF Row, Listed

LEMMA MembersType ==
  ASSUME TypeOK, NEW m \in Node
  PROVE  handlePeerMembers(m) \subseteq Member
<1>1. ListPeers(table[m]) \subseteq Listed
  BY ListPeersType DEF TypeOK, TableOK
<1>2. ASSUME NEW u \in {Advertise[m]} \ {NoAddr}
      PROVE  [name |-> m, url |-> u, own |-> TRUE] \in Member
  BY MembershipAssumption DEF Member
<1>3. ASSUME NEW p \in ListPeers(table[m])
      PROVE  [name |-> p.name, url |-> p.url, own |-> FALSE] \in Member
  BY <1>1 DEF Listed, Member
<1> QED BY <1>2, <1>3 DEF handlePeerMembers

(* Where a loop is done the next begins, with the rows known by then.      *)
LEMMA OnwardFacts ==
  ASSUME NEW c \in Cycle, c.stage \in {"heal", "gossip"}
  PROVE  /\ Onward(c) \in Cycle
         /\ Onward(c).stage \in {"idle", "heal", "gossip"}
         /\ Onward(c).stage # "idle" => Onward(c).known = c.known
         /\ Onward(c).stage = "heal" => Onward(c).todo = c.todo /\ c.stage = "heal"
<1> DEFINE d == IF c.stage = "heal" /\ c.todo = {}
                THEN [stage |-> "gossip", todo |-> Enabled(c.known), known |-> c.known, found |-> {}]
                ELSE c
<1>1. Enabled(c.known) \subseteq Listed
  BY DEF Enabled, Cycle
<1>2. /\ d \in Cycle /\ d.stage \in {"heal", "gossip"} /\ d.known = c.known
      /\ d.stage = "heal" => d.todo = c.todo /\ c.stage = "heal"
  <2>1. CASE c.stage = "heal" /\ c.todo = {}
    BY <1>1, <2>1 DEF Cycle
  <2>2. CASE ~ (c.stage = "heal" /\ c.todo = {})
    BY <2>2
  <2> QED BY <2>1, <2>2
<1>3. Onward(c) \in {d, Idle}
  BY DEF Onward
<1>4. Idle \in Cycle /\ Idle.stage = "idle"
  BY DEF Idle, Cycle
<1> HIDE DEF d
<1> QED BY <1>2, <1>3, <1>4

---------------------------------------------------------------------------
(* The types are inductive together with two facts: who is in a cycle has  *)
(* rounds left, and who has no address of its own announces nothing.       *)
Busy == \A n \in Node : cyc[n].stage # "idle" => rounds[n] < MaxRounds
Announcing == \A n \in Node :
  cyc[n].stage = "announce" /\ cyc[n].todo # {} => Advertise[n] # NoAddr
Typed == TypeOK /\ Busy /\ Announcing

(* A handler that runs writes a row of a table's type, or removes one.     *)
LEMMA TableUpdate ==
  ASSUME TypeOK, NEW n \in Node, NEW t, TableOK(t), table' = [table EXCEPT ![n] = t]
  PROVE  /\ DOMAIN table' = Node
         /\ \A m \in Node : TableOK(table'[m])
         /\ table'[n] = t /\ \A m \in Node \ {n} : table'[m] = table[m]
BY DEF TypeOK, TableOK

LEMMA CycleUpdate ==
  ASSUME TypeOK, NEW n \in Node, NEW c \in Cycle, cyc' = [cyc EXCEPT ![n] = c]
  PROVE  /\ cyc' \in [Node -> Cycle]
         /\ cyc'[n] = c /\ \A m \in Node \ {n} : cyc'[m] = cyc[m]
BY DEF TypeOK

(* However the rounds are counted, they stay in their bounds.              *)
LEMMA RoundsTyped ==
  ASSUME Typed, Counting, cyc' \in [Node -> Cycle],
         \A n \in Node : cyc'[n].stage # "idle" => cyc[n].stage # "idle" \/ rounds[n] < MaxRounds
  PROVE  rounds' \in [Node -> -1..MaxRounds] /\ Busy'
<1>0. MaxRounds \in Nat
  BY MembershipAssumption
<1>1. \/ rounds' = [n \in Node |-> IF cyc'[n].stage = "idle" THEN 0 ELSE -1]
      \/ rounds' = [n \in Node |-> IF cyc[n].stage # "idle" /\ cyc'[n].stage = "idle"
                                   THEN rounds[n] + 1 ELSE rounds[n]]
  BY DEF Counting
<1>2. ASSUME NEW n \in Node
      PROVE  /\ rounds'[n] \in -1..MaxRounds
             /\ cyc'[n].stage # "idle" => rounds'[n] < MaxRounds
  <2>1. rounds[n] \in -1..MaxRounds
    BY DEF Typed, TypeOK
  <2>2. cyc[n].stage # "idle" => rounds[n] < MaxRounds
    BY DEF Typed, Busy
  <2>3. CASE rounds' = [m \in Node |-> IF cyc'[m].stage = "idle" THEN 0 ELSE -1]
    BY <1>0, <2>3
  <2>4. CASE rounds' = [m \in Node |-> IF cyc[m].stage # "idle" /\ cyc'[m].stage = "idle"
                                   THEN rounds[m] + 1 ELSE rounds[m]]
    BY <1>0, <2>1, <2>2, <2>4
  <2> QED BY <1>1, <2>3, <2>4
<1>3. DOMAIN rounds' = Node /\ rounds' = [n \in Node |-> rounds'[n]]
  BY <1>1
<1> QED BY <1>2, <1>3 DEF Busy

(* So does one step of one poller.                                         *)
LEMMA PollerTyped ==
  ASSUME Typed, Counting, NEW n \in Node, NEW c \in Cycle, cyc' = [cyc EXCEPT ![n] = c],
         c.stage # "idle" => cyc[n].stage # "idle" \/ rounds[n] < MaxRounds,
         c.stage = "announce" /\ c.todo # {} => Advertise[n] # NoAddr
  PROVE  /\ cyc' \in [Node -> Cycle] /\ rounds' \in [Node -> -1..MaxRounds]
         /\ Busy' /\ Announcing'
<1>1. /\ cyc' \in [Node -> Cycle]
      /\ cyc'[n] = c /\ \A m \in Node \ {n} : cyc'[m] = cyc[m]
  BY CycleUpdate DEF Typed
<1>2. \A m \in Node : cyc'[m].stage # "idle" => cyc[m].stage # "idle" \/ rounds[m] < MaxRounds
  BY <1>1
<1>3. Announcing'
  BY <1>1 DEF Typed, Announcing
<1> QED BY <1>1, <1>2, <1>3, RoundsTyped

LEMMA StartCycleTyped ==
  ASSUME Typed, Counting, NEW n \in Node, StartCycle(n)
  PROVE  Typed'
<1> DEFINE rows == IF Advertise[n] = NoAddr THEN {} ELSE Enabled(ListPeers(table[n]))
           c == [stage |-> "announce", todo |-> rows, known |-> {}, found |-> {}]
<1>1. /\ cyc' = [cyc EXCEPT ![n] = c] /\ rounds[n] < MaxRounds
      /\ fallback' = [fallback EXCEPT ![n] = IF ClusterSecret[n] # 0 THEN ClusterSecret[n]
                                             ELSE CommonSecret(table[n])]
      /\ UNCHANGED <<up, table, writes, fresh, raced>>
  BY DEF StartCycle
<1>2. TableOK(table[n])
  BY DEF Typed, TypeOK, TableOK
<1>3. rows \subseteq Listed
  BY <1>2, ListPeersType DEF Enabled
<1>4. rows # {} => Advertise[n] # NoAddr
  OBVIOUS
<1> HIDE DEF rows
<1>5. c \in Cycle /\ c.stage = "announce" /\ c.todo = rows
  BY <1>3 DEF Cycle
<1> HIDE DEF c
<1>6. fallback' \in [Node -> Secret \cup {0}]
  BY <1>1, <1>2, CommonSecretType, MembershipAssumption DEF Typed, TypeOK
<1> QED BY <1>1, <1>4, <1>5, <1>6, PollerTyped DEF Typed, TypeOK

LEMMA announceTyped ==
  ASSUME Typed, Counting, NEW n \in Node, announce(n)
  PROVE  Typed'
<1>1. PICK p \in cyc[n].todo :
        /\ \/ /\ Answers(p.url, effectiveSecret(n, p))
              /\ handlePeerAnnounce(Owner[p.url], n, Advertise[n], Lost)
           \/ UNCHANGED writes
        /\ cyc' = [cyc EXCEPT ![n].todo = @ \ {p}]
  BY DEF announce, First
<1>2. cyc[n] \in Cycle /\ cyc[n].stage = "announce" /\ UNCHANGED <<up, table, fallback, fresh, raced>>
  BY DEF announce, In, Typed, TypeOK
<1>3. Advertise[n] \in Addr /\ Advertise[n] # NoAddr
  BY <1>1, <1>2, MembershipAssumption DEF Typed, Announcing
<1> DEFINE c == [cyc[n] EXCEPT !.todo = @ \ {p}]
<1>4. c \in Cycle /\ c.stage = cyc[n].stage
  BY <1>2 DEF Cycle
<1>5. cyc' = [cyc EXCEPT ![n] = c]
  BY <1>1 DEF Typed, TypeOK
<1> HIDE DEF c
<1>6. /\ cyc' \in [Node -> Cycle] /\ rounds' \in [Node -> -1..MaxRounds]
      /\ Busy' /\ Announcing'
  BY <1>2, <1>3, <1>4, <1>5, PollerTyped
<1>7. writes' \in [Node -> SUBSET Handler]
  <2> DEFINE m == Owner[p.url]
             w == [op |-> "announce", name |-> n, url |-> Advertise[n], secret |-> 0,
                   muted |-> FALSE, late |-> Lost]
  <2>1. CASE UNCHANGED writes
    BY <2>1 DEF Typed, TypeOK
  <2>2. CASE Answers(p.url, effectiveSecret(n, p)) /\ handlePeerAnnounce(m, n, Advertise[n], Lost)
    <3>1. m \in Node
      BY <2>2 DEF Answers, Typed, TypeOK
    <3>2. w \in Handler
      BY <1>3, MembershipAssumption DEF Handler, Lost
    <3>3. \E ws \in {writes[m], writes[m] \cup {w}} : writes' = [writes EXCEPT ![m] = ws]
      BY <2>2 DEF handlePeerAnnounce
    <3> HIDE DEF w, m
    <3> QED BY <3>1, <3>2, <3>3 DEF Typed, TypeOK
  <2> QED BY <1>1, <2>1, <2>2
<1> QED BY <1>2, <1>6, <1>7 DEF Typed, TypeOK

LEMMA StartGossipTyped ==
  ASSUME Typed, Counting, NEW n \in Node, StartGossip(n)
  PROVE  Typed'
<1> DEFINE rows == ListPeers(table[n])
           c == [stage |-> "heal", todo |-> Suspects(rows), known |-> rows, found |-> {}]
<1>1. /\ cyc' = [cyc EXCEPT ![n] = Onward(c)] /\ fresh' = [fresh EXCEPT ![n] = {}]
      /\ cyc[n].stage = "announce"
      /\ UNCHANGED <<up, table, fallback, writes, raced>>
  BY DEF StartGossip, In
<1>2. rows \subseteq Listed /\ Suspects(rows) \subseteq Listed
  BY ListPeersType DEF Suspects, Typed, TypeOK, TableOK
<1>3. c \in Cycle /\ c.stage = "heal"
  BY <1>2 DEF Cycle
<1> HIDE DEF c
<1>4. Onward(c) \in Cycle /\ Onward(c).stage # "announce"
  BY <1>3, OnwardFacts
<1>5. fresh' \in [Node -> SUBSET ToSet(Names)]
  BY <1>1 DEF Typed, TypeOK
<1> QED BY <1>1, <1>4, <1>5, PollerTyped DEF Typed, TypeOK

LEMMA selfHealTyped ==
  ASSUME Typed, Counting, NEW n \in Node, selfHeal(n)
  PROVE  Typed'
<1>1. PICK p \in cyc[n].todo, self \in BOOLEAN :
        /\ cyc' = [cyc EXCEPT ![n] =
             Onward([stage |-> "heal", todo |-> @.todo \ {p}, found |-> {},
                     known |-> IF self THEN {k \in @.known : k.name # p.name} ELSE @.known])]
        /\ table' = [table EXCEPT ![n] = IF self THEN DeletePeer(@, p.name) ELSE @]
  BY DEF selfHeal, First
<1>2. cyc[n] \in Cycle /\ cyc[n].stage = "heal" /\ UNCHANGED <<up, fallback, writes, fresh, raced>>
  BY DEF selfHeal, In, Typed, TypeOK
<1> DEFINE c == [stage |-> "heal", todo |-> cyc[n].todo \ {p}, found |-> {},
                 known |-> IF self THEN {k \in cyc[n].known : k.name # p.name} ELSE cyc[n].known]
           t == IF self THEN DeletePeer(table[n], p.name) ELSE table[n]
<1>3. c \in Cycle /\ c.stage = "heal"
  BY <1>2 DEF Cycle
<1>4. TableOK(t)
  BY DeleteFacts DEF Typed, TypeOK, TableOK
<1>5. cyc' = [cyc EXCEPT ![n] = Onward(c)] /\ table' = [table EXCEPT ![n] = t]
  BY <1>1 DEF Typed, TypeOK
<1> HIDE DEF c, t
<1>6. Onward(c) \in Cycle /\ Onward(c).stage # "announce"
  BY <1>3, OnwardFacts
<1>7. DOMAIN table' = Node /\ \A m \in Node : TableOK(table'[m])
  BY <1>4, <1>5, TableUpdate DEF Typed
<1> QED BY <1>2, <1>5, <1>6, <1>7, PollerTyped DEF Typed, TypeOK, TableOK

LEMMA FetchMembersTyped ==
  ASSUME Typed, Counting, NEW n \in Node, FetchMembers(n)
  PROVE  Typed'
<1>0. PICK p \in cyc[n].todo :
        LET resp == IF ~Lost /\ Answers(p.url, effectiveSecret(n, p))
                    THEN handlePeerMembers(Owner[p.url]) ELSE {} IN
        cyc' = [cyc EXCEPT ![n] =
                 Onward([stage |-> "gossip", todo |-> @.todo \ {p}, known |-> @.known,
                         found |-> {c \in resp : Candidate(n, c, cyc[n].known)}])]
  BY DEF FetchMembers, First
<1> DEFINE resp == IF ~Lost /\ Answers(p.url, effectiveSecret(n, p))
                   THEN handlePeerMembers(Owner[p.url]) ELSE {}
<1>1. /\ resp = {} \/ (resp = handlePeerMembers(Owner[p.url]) /\ Owner[p.url] \in up)
      /\ cyc' = [cyc EXCEPT ![n] =
             Onward([stage |-> "gossip", todo |-> @.todo \ {p}, known |-> @.known,
                     found |-> {c \in resp : Candidate(n, c, cyc[n].known)}])]
  BY <1>0 DEF Answers
<1> HIDE DEF resp
<1>2. /\ cyc[n] \in Cycle /\ cyc[n].stage = "gossip"
      /\ UNCHANGED <<up, table, fallback, writes, fresh, raced>>
  BY DEF FetchMembers, In, Typed, TypeOK
<1>3. resp \subseteq Member
  <2>1. CASE resp # {}
    <3>1. Owner[p.url] \in Node
      BY <1>1, <2>1 DEF Typed, TypeOK
    <3> QED BY <1>1, <2>1, <3>1, MembersType DEF Typed
  <2>2. CASE resp = {}
    BY <2>2
  <2> QED BY <2>1, <2>2
<1> DEFINE c == [stage |-> "gossip", todo |-> cyc[n].todo \ {p}, known |-> cyc[n].known,
                 found |-> {m \in resp : Candidate(n, m, cyc[n].known)}]
<1>4. c \in Cycle /\ c.stage = "gossip"
  BY <1>2, <1>3 DEF Cycle
<1>5. cyc' = [cyc EXCEPT ![n] = Onward(c)]
  BY <1>1 DEF Typed, TypeOK
<1> HIDE DEF c
<1>6. Onward(c) \in Cycle /\ Onward(c).stage # "announce"
  BY <1>4, OnwardFacts
<1> QED BY <1>2, <1>5, <1>6, PollerTyped DEF Typed, TypeOK

LEMMA considerMemberTyped ==
  ASSUME Typed, Counting, NEW n \in Node, considerMember(n)
  PROVE  Typed'
<1>0. PICK m \in cyc[n].found :
        LET new == IF Lost THEN {} ELSE NewMember(n, m, cyc[n].known)
            added == {[name |-> x, url |-> m.url, secret |-> 0, enabled |-> TRUE] : x \in new} IN
        /\ cyc' = [cyc EXCEPT ![n] =
             Onward([stage |-> "gossip", todo |-> @.todo, known |-> @.known \cup added,
                     found |-> @.found \ {m}])]
        /\ \/ new = {} /\ UNCHANGED table
           \/ \E x \in new : table' = [table EXCEPT ![n] = UpsertPeer(@, x, m.url, 0)]
  BY DEF considerMember, FirstMember
<1> DEFINE new == IF Lost THEN {} ELSE NewMember(n, m, cyc[n].known)
<1>1. /\ new \subseteq NewMember(n, m, cyc[n].known)
      /\ cyc' = [cyc EXCEPT ![n] =
             Onward([stage |-> "gossip", todo |-> @.todo,
                     known |-> @.known \cup
                       {[name |-> x, url |-> m.url, secret |-> 0, enabled |-> TRUE] : x \in new},
                     found |-> @.found \ {m}])]
      /\ \/ UNCHANGED table
         \/ \E x \in new : table' = [table EXCEPT ![n] = UpsertPeer(@, x, m.url, 0)]
  BY <1>0
<1> HIDE DEF new
<1>2. /\ cyc[n] \in Cycle /\ cyc[n].stage = "gossip" /\ m \in Member
      /\ UNCHANGED <<up, fallback, writes, fresh, raced>>
  BY DEF considerMember, In, Typed, TypeOK, Cycle
<1>3. \A x \in new : x \in ToSet(Names)
  <2>1. \A x \in NewMember(n, m, cyc[n].known) : x = Owner[m.url]
    BY DEF NewMember, probeName
  <2>2. Owner[m.url] \in ToSet(Names) /\ m.url \in Addr
    BY <1>2, MembershipAssumption DEF Member
  <2> QED BY <1>1, <2>1, <2>2
<1> DEFINE added == {[name |-> x, url |-> m.url, secret |-> 0, enabled |-> TRUE] : x \in new}
           c == [stage |-> "gossip", todo |-> cyc[n].todo, known |-> cyc[n].known \cup added,
                 found |-> cyc[n].found \ {m}]
<1>4. added \subseteq Listed
  <2>1. m.url \in Addr
    BY <1>2 DEF Member
  <2>2. ASSUME NEW x \in new
        PROVE  [name |-> x, url |-> m.url, secret |-> 0, enabled |-> TRUE] \in Listed
    BY <1>3, <2>1 DEF Listed
  <2> QED BY <2>2
<1>5. cyc' = [cyc EXCEPT ![n] = Onward(c)]
  BY <1>1 DEF Typed, TypeOK
<1> HIDE DEF added
<1>6. c \in Cycle /\ c.stage = "gossip"
  BY <1>2, <1>4 DEF Cycle
<1> HIDE DEF c
<1>7. Onward(c) \in Cycle /\ Onward(c).stage # "announce"
  BY <1>6, OnwardFacts
<1>8. DOMAIN table' = Node /\ \A i \in Node : TableOK(table'[i])
  <2>1. CASE UNCHANGED table
    BY <2>1 DEF Typed, TypeOK, TableOK
  <2>2. ASSUME NEW x \in new, table' = [table EXCEPT ![n] = UpsertPeer(@, x, m.url, 0)]
        PROVE  DOMAIN table' = Node /\ \A i \in Node : TableOK(table'[i])
    <3>1. TableOK(table[n]) /\ m.url \in Addr
      BY <1>2 DEF Typed, TypeOK, TableOK, Member
    <3>2. TableOK(UpsertPeer(table[n], x, m.url, 0))
      BY <1>3, <3>1, UpsertType
    <3>3. table' = [table EXCEPT ![n] = UpsertPeer(table[n], x, m.url, 0)]
      BY <2>2
    <3> QED BY <3>2, <3>3, TableUpdate DEF Typed
  <2> QED BY <1>1, <2>1, <2>2
<1> QED BY <1>2, <1>5, <1>7, <1>8, PollerTyped DEF Typed, TypeOK, TableOK

(* Nothing but the handlers and the tables: the cycles go on as they were. *)
LEMMA CyclesStayTyped ==
  ASSUME Typed, Counting, UNCHANGED cyc
  PROVE  rounds' \in [Node -> -1..MaxRounds] /\ Busy' /\ Announcing'
<1>1. cyc' \in [Node -> Cycle]
  BY DEF Typed, TypeOK
<1>2. \A n \in Node : cyc'[n].stage # "idle" => cyc[n].stage # "idle" \/ rounds[n] < MaxRounds
  OBVIOUS
<1>3. Announcing'
  BY DEF Typed, Announcing
<1> QED BY <1>1, <1>2, <1>3, RoundsTyped

LEMMA WriteTyped ==
  ASSUME Typed, Counting, NEW n \in Node, NEW w \in writes[n], Write(n, w)
  PROVE  Typed'
<1>1. w \in Handler
  BY DEF Typed, TypeOK
<1>2. /\ UNCHANGED <<up, fallback, cyc>>
      /\ fresh' = [fresh EXCEPT ![n] = IF w.op = "announce" THEN @ ELSE @ \cup {w.name}]
      /\ raced' \in {raced, raced \cup {n}}
  BY DEF Write
<1>3. fresh' \in [Node -> SUBSET ToSet(Names)] /\ raced' \subseteq Node
  BY <1>1, <1>2 DEF Typed, TypeOK, Handler
<1>4. writes' \in [Node -> SUBSET Handler]
  <2> DEFINE next == [w EXCEPT !.op = "enable"]
  <2>1. next \in Handler
    BY <1>1 DEF Handler
  <2>2. \E ws \in {writes[n] \ {w}, (writes[n] \ {w}) \cup {next}} : writes' = [writes EXCEPT ![n] = ws]
    BY DEF Write
  <2> HIDE DEF next
  <2> QED BY <2>1, <2>2 DEF Typed, TypeOK
<1>5. PICK t : /\ table' = [table EXCEPT ![n] = t]
               /\ \/ t = DeletePeer(table[n], w.name)
                  \/ t = SetPeerEnabled(table[n], w.name, ~w.muted)
                  \/ t = UpsertPeer(table[n], w.name, w.url, w.secret)
  BY DEF Write
<1>6. TableOK(t)
  <2>1. TableOK(table[n]) /\ (~w.muted) \in BOOLEAN
    BY DEF Typed, TypeOK, TableOK
  <2>2. w.name \in ToSet(Names) /\ w.url \in Addr /\ w.secret \in Secret \cup {0}
    BY <1>1 DEF Handler
  <2>3. TableOK(DeletePeer(table[n], w.name))
    BY <2>1, DeleteFacts
  <2>4. TableOK(SetPeerEnabled(table[n], w.name, ~w.muted))
    BY <2>1, EnableFacts
  <2>5. TableOK(UpsertPeer(table[n], w.name, w.url, w.secret))
    BY <2>1, <2>2, UpsertType
  <2> QED BY <1>5, <2>3, <2>4, <2>5
<1>7. DOMAIN table' = Node /\ \A m \in Node : TableOK(table'[m])
  BY <1>5, <1>6, TableUpdate DEF Typed
<1>8. rounds' \in [Node -> -1..MaxRounds] /\ Busy' /\ Announcing'
  BY <1>2, CyclesStayTyped
<1> QED BY <1>2, <1>3, <1>4, <1>7, <1>8 DEF Typed, TypeOK, TableOK

LEMMA AdminTyped ==
  ASSUME Typed, Counting, Admin
  PROVE  Typed'
<1>1. PICK e \in Edits, op \in {"create", "update", "delete"} : Submit(e, op)
  BY DEF Admin, handleCreatePeer, handleUpdatePeer, handleDeletePeer
<1> DEFINE w == [op |-> op, name |-> e.name, url |-> e.url, secret |-> e.secret,
                 muted |-> e.muted, late |-> FALSE]
<1>2. /\ writes' = [writes EXCEPT ![e.node] = writes[e.node] \cup {w}]
      /\ UNCHANGED <<up, table, fallback, cyc, fresh, raced>>
  BY <1>1 DEF Submit
<1>3. w \in Handler
  BY MembershipAssumption DEF Handler
<1> HIDE DEF w
<1>4. writes' \in [Node -> SUBSET Handler]
  BY <1>2, <1>3 DEF Typed, TypeOK
<1>5. rounds' \in [Node -> -1..MaxRounds] /\ Busy' /\ Announcing'
  BY <1>2, CyclesStayTyped
<1> QED BY <1>2, <1>4, <1>5 DEF Typed, TypeOK

LEMMA StopTyped ==
  ASSUME Typed, Counting, NEW n \in Node, Stop(n)
  PROVE  Typed'
<1>1. /\ up' = up \ {n} /\ fallback' = [fallback EXCEPT ![n] = 0]
      /\ cyc' = [cyc EXCEPT ![n] = Idle] /\ writes' = [writes EXCEPT ![n] = {}]
      /\ UNCHANGED <<table, fresh, raced>>
  BY DEF Stop
<1>2. Idle \in Cycle /\ Idle.stage = "idle"
  BY DEF Idle, Cycle
<1>3. fallback' \in [Node -> Secret \cup {0}] /\ writes' \in [Node -> SUBSET Handler]
  BY <1>1 DEF Typed, TypeOK
<1>4. /\ cyc' \in [Node -> Cycle] /\ rounds' \in [Node -> -1..MaxRounds]
      /\ Busy' /\ Announcing'
  BY <1>1, <1>2, PollerTyped
<1> QED BY <1>1, <1>3, <1>4 DEF Typed, TypeOK

LEMMA StartTyped ==
  ASSUME Typed, Counting, NEW n \in Node, Start(n)
  PROVE  Typed'
<1>1. up' = up \cup {n} /\ UNCHANGED <<table, fallback, cyc, writes, fresh, raced>>
  BY DEF Start
<1>2. rounds' \in [Node -> -1..MaxRounds] /\ Busy' /\ Announcing'
  BY <1>1, CyclesStayTyped
<1> QED BY <1>1, <1>2 DEF Typed, TypeOK

LEMMA TypedInitially == Init => Typed
<1> SUFFICES ASSUME Init PROVE Typed
  OBVIOUS
<1>1. table \in Tables0 /\ MaxRounds \in Nat
  BY MembershipAssumption DEF Init
<1>2. table \in [Node -> UNION {[S -> [url : Addr, secret : Secret \cup {0}, enabled : BOOLEAN]] :
                                S \in SUBSET ToSet(Names)}]
  BY <1>1, MembershipAssumption
<1>3. ASSUME NEW n \in Node PROVE TableOK(table[n])
  <2>1. PICK S \in SUBSET ToSet(Names) :
          table[n] \in [S -> [url : Addr, secret : Secret \cup {0}, enabled : BOOLEAN]]
    BY <1>2
  <2> QED BY <2>1 DEF TableOK, Row
<1>4. Idle \in Cycle /\ Idle.stage = "idle"
  BY DEF Idle, Cycle
<1>5. TypeOK
  BY <1>1, <1>2, <1>3, <1>4 DEF Init, TypeOK, TableOK
<1> QED BY <1>4, <1>5 DEF Init, Typed, Busy, Announcing

LEMMA TypedInductive == Typed /\ [Next]_vars => Typed'
<1> SUFFICES ASSUME Typed, [Next]_vars PROVE Typed'
  OBVIOUS
<1>1. CASE UNCHANGED vars
  BY <1>1 DEF vars, Typed, TypeOK, Busy, Announcing
<1>2. ASSUME Counting, NEW n \in Node, Poller(n) PROVE Typed'
  BY <1>2, StartCycleTyped, announceTyped, StartGossipTyped, selfHealTyped, FetchMembersTyped,
     considerMemberTyped DEF Poller
<1>3. ASSUME Counting, NEW n \in Node, Handlers(n) PROVE Typed'
  BY <1>3, WriteTyped DEF Handlers
<1> QED BY <1>1, <1>2, <1>3, StopTyped, StartTyped, AdminTyped DEF Next

(* The tables, the poller's lists and the handlers under way keep the      *)
(* types the code declares, in any cluster.                                *)
THEOREM MembershipTypes == Spec => []TypeOK
<1>1. Typed => TypeOK
  BY DEF Typed
<1> QED BY TypedInitially, TypedInductive, <1>1, PTL DEF Spec
---------------------------------------------------------------------------
(* What the names and the safety of the rows need.  A row without a secret *)
(* is named as its node names itself, and so is whatever an announce that  *)
(* was let in is going to write.  A row with a secret that nobody edited   *)
(* since the poller listed the peers is on its list, so gossip adds none   *)
(* of that name; and none is among those it probes, so self-heal removes   *)
(* none.                                                                   *)
TableSound(n) == n \notin raced => \A x \in DOMAIN table[n] :
  table[n][x].secret = 0 => x = Owner[table[n][x].url]
WriteSound(w) ==
  /\ w.op = "announce" => w.secret = 0 /\ w.name \in Node /\ w.url = Advertise[w.name] /\ w.name = Owner[w.url]
  /\ w.op = "create" => w.secret # 0
KnownSound(n) == cyc[n].stage \in {"heal", "gossip"} =>
  \A x \in DOMAIN table[n] \ fresh[n] : table[n][x].secret # 0 => \E k \in cyc[n].known : k.name = x
SuspectsSound(n) == cyc[n].stage = "heal" =>
  \A p \in cyc[n].todo : p.name \in DOMAIN table[n] \ fresh[n] => table[n][p.name].secret = 0
Sound ==
  /\ \A n \in Node : TableSound(n) /\ KnownSound(n) /\ SuspectsSound(n)
  /\ \A n \in Node : \A w \in writes[n] : WriteSound(w)

(* What HandSetKept says of a step, for one node. *)
Kept(n) == \A x \in DOMAIN table[n] :
  table[n][x].secret # 0 /\ x \notin fresh'[n] =>
    /\ x \in DOMAIN table'[n]
    /\ table'[n][x].secret = table[n][x].secret
    /\ table'[n][x].enabled = table[n][x].enabled
    /\ table'[n][x].url # table[n][x].url =>
         x \in Node /\ table'[n][x].url = Advertise[x]
(* Whatever a step does to the table of a node, no row gets a secret but   *)
(* one an admin edits.                                                     *)
NoNewSecret(n) ==
  /\ fresh[n] \subseteq fresh'[n]
  /\ \A x \in DOMAIN table'[n] \ fresh'[n] : table'[n][x].secret # 0 =>
       x \in DOMAIN table[n] /\ table[n][x].secret # 0
Untouched(n) ==
  table'[n] = table[n] /\ cyc'[n] = cyc[n] /\ fresh'[n] = fresh[n] /\ raced \subseteq raced'
NodeSound(n) == TableSound(n) /\ KnownSound(n) /\ SuspectsSound(n)

(* A node the step has nothing to do with stays sound.                     *)
LEMMA UntouchedSound ==
  ASSUME NEW n \in Node, NodeSound(n), Untouched(n)
  PROVE  NodeSound(n)' /\ Kept(n)
BY DEF NodeSound, Untouched, TableSound, KnownSound, SuspectsSound, Kept

(* The list keeps to the table while the table gets no secret it has not.  *)
LEMMA ListsStay ==
  ASSUME NEW n \in Node, KnownSound(n), SuspectsSound(n), NoNewSecret(n),
         cyc'[n].stage \in {"heal", "gossip"} => cyc[n].stage \in {"heal", "gossip"},
         cyc'[n].stage \in {"heal", "gossip"} =>
           \A k \in cyc[n].known : k \in cyc'[n].known \/ k.name \notin DOMAIN table'[n],
         cyc'[n].stage = "heal" => cyc[n].stage = "heal" /\ cyc'[n].todo \subseteq cyc[n].todo
  PROVE  KnownSound(n)' /\ SuspectsSound(n)'
<1>1. KnownSound(n)'
  BY DEF KnownSound, NoNewSecret
<1>2. SuspectsSound(n)'
  BY DEF SuspectsSound, NoNewSecret
<1> QED BY <1>1, <1>2

(* A row stored under the name its node gives itself, or with a secret, is *)
(* sound; a row that carries a secret only takes a new URL.                *)
LEMMA UpsertSound ==
  ASSUME NEW n \in Node, TableSound(n), TableOK(table[n]), NEW name, NEW url, NEW secret,
         table'[n] = UpsertPeer(table[n], name, url, secret), raced \subseteq raced',
         n \notin raced' => \/ secret # 0
                            \/ name = Owner[url]
                            \/ HasSecret(table[n], name)
  PROVE  /\ TableSound(n)'
         /\ fresh[n] \subseteq fresh'[n] /\ (secret = 0 \/ name \in fresh'[n]) => NoNewSecret(n)
         /\ name \in fresh'[n] => Kept(n)
         /\ secret = 0 /\ name \in Node /\ url = Advertise[name] => Kept(n)
         /\ ~HasSecret(table[n], name) => Kept(n)
<1> DEFINE u == UpsertPeer(table[n], name, url, secret)
<1>1. /\ DOMAIN u = DOMAIN table[n] \cup {name}
      /\ \A x \in DOMAIN table[n] : x # name => u[x] = table[n][x]
      /\ u[name].url = url
      /\ u[name].secret = IF secret = 0 /\ name \in DOMAIN table[n] THEN table[n][name].secret ELSE secret
      /\ name \in DOMAIN table[n] /\ table[n][name].enabled \in BOOLEAN =>
           u[name].enabled = table[n][name].enabled
  BY DEF UpsertPeer
<1>2. name \in DOMAIN table[n] => table[n][name].enabled \in BOOLEAN
  BY DEF TableOK, Row
<1>3. table'[n] = u
  OBVIOUS
<1> HIDE DEF u
<1>4. TableSound(n)'
  BY <1>1, <1>3 DEF TableSound, HasSecret, GetPeer
<1>5. fresh[n] \subseteq fresh'[n] /\ (secret = 0 \/ name \in fresh'[n]) => NoNewSecret(n)
  BY <1>1, <1>3 DEF NoNewSecret
<1>6. name \in fresh'[n] => Kept(n)
  BY <1>1, <1>3 DEF Kept
<1>7. secret = 0 /\ name \in Node /\ url = Advertise[name] => Kept(n)
  BY <1>1, <1>2, <1>3 DEF Kept
<1>8. ~HasSecret(table[n], name) => Kept(n)
  BY <1>1, <1>3 DEF Kept, HasSecret, GetPeer
<1> QED BY <1>4, <1>5, <1>6, <1>7, <1>8

(* So is what DeletePeer leaves.                                           *)
LEMMA DeleteSound ==
  ASSUME NEW n \in Node, TableSound(n), NEW name, table'[n] = DeletePeer(table[n], name),
         raced \subseteq raced', fresh[n] \subseteq fresh'[n]
  PROVE  /\ TableSound(n)' /\ NoNewSecret(n)
         /\ (name \in DOMAIN table[n] \ fresh'[n] => table[n][name].secret = 0) => Kept(n)
BY DEF DeletePeer, TableSound, NoNewSecret, Kept

(* And what SetPeerEnabled leaves.                                         *)
LEMMA EnableSound ==
  ASSUME NEW n \in Node, TableSound(n), TableOK(table[n]), NEW name \in fresh'[n], NEW on \in BOOLEAN,
         table'[n] = SetPeerEnabled(table[n], name, on), raced \subseteq raced', fresh[n] \subseteq fresh'[n]
  PROVE  TableSound(n)' /\ NoNewSecret(n) /\ Kept(n)
<1>1. /\ DOMAIN table'[n] = DOMAIN table[n]
      /\ \A x \in DOMAIN table[n] :
           /\ x # name => table'[n][x] = table[n][x]
           /\ table'[n][x].url = table[n][x].url /\ table'[n][x].secret = table[n][x].secret
  BY EnableFacts
<1>2. TableSound(n)'
  BY <1>1 DEF TableSound
<1>3. NoNewSecret(n)
  BY <1>1 DEF NoNewSecret
<1>4. Kept(n)
  BY <1>1 DEF Kept
<1> QED BY <1>2, <1>3, <1>4
---------------------------------------------------------------------------
(* Each action keeps the tables, the lists and the rows.                   *)
StepSound == Sound' /\ \A n \in Node : Kept(n)

(* A step of one poller that writes no row of another node.                *)
LEMMA OneNodeSteps ==
  ASSUME Typed, Sound, NEW n \in Node, NodeSound(n)', Kept(n),
         \A m \in Node \ {n} : Untouched(m),
         \A m \in Node : \A w \in writes'[m] : w \in writes[m] \/ WriteSound(w)
  PROVE  StepSound
<1>1. \A m \in Node \ {n} : NodeSound(m)' /\ Kept(m)
  BY UntouchedSound DEF Sound, NodeSound
<1>2. \A m \in Node : \A w \in writes'[m] : WriteSound(w)
  BY DEF Sound
<1>3. \A m \in Node : \A w \in writes'[m] : WriteSound(w)'
  BY <1>2 DEF WriteSound
<1> QED BY <1>1, <1>3 DEF Sound, StepSound, NodeSound

LEMMA StartCycleSound ==
  ASSUME Typed, Sound, NEW n \in Node, StartCycle(n)
  PROVE  StepSound
<1> DEFINE c == [stage |-> "announce",
                 todo |-> IF Advertise[n] = NoAddr THEN {} ELSE Enabled(ListPeers(table[n])),
                 known |-> {}, found |-> {}]
<1>1. cyc' = [cyc EXCEPT ![n] = c] /\ UNCHANGED <<table, writes, fresh, raced>> /\ c.stage = "announce"
  BY DEF StartCycle
<1> HIDE DEF c
<1>2. cyc'[n].stage = "announce" /\ \A m \in Node \ {n} : Untouched(m)
  BY <1>1 DEF Typed, TypeOK, Untouched
<1>3. NodeSound(n)' /\ Kept(n)
  BY <1>1, <1>2 DEF Sound, NodeSound, TableSound, KnownSound, SuspectsSound, Kept
<1> QED BY <1>1, <1>2, <1>3, OneNodeSteps

LEMMA announceSound ==
  ASSUME Typed, Sound, NEW n \in Node, announce(n)
  PROVE  StepSound
<1>1. PICK p \in cyc[n].todo :
        /\ \/ /\ Answers(p.url, effectiveSecret(n, p))
              /\ handlePeerAnnounce(Owner[p.url], n, Advertise[n], Lost)
           \/ UNCHANGED writes
        /\ cyc' = [cyc EXCEPT ![n].todo = @ \ {p}]
  BY DEF announce, First
<1>2. cyc[n].stage = "announce" /\ UNCHANGED <<table, fresh, raced>>
  BY DEF announce, In
<1>3. Owner[Advertise[n]] = n
  BY <1>1, <1>2, MembershipAssumption DEF Typed, Announcing
<1>4. cyc'[n].stage = "announce" /\ \A m \in Node \ {n} : Untouched(m)
  <2>1. cyc[n] \in Cycle
    BY DEF Typed, TypeOK
  <2>2. cyc'[n] = [cyc[n] EXCEPT !.todo = @ \ {p}] /\ \A m \in Node \ {n} : cyc'[m] = cyc[m]
    BY <1>1 DEF Typed, TypeOK
  <2> QED BY <1>2, <2>1, <2>2 DEF Cycle, Untouched
<1>5. NodeSound(n)' /\ Kept(n)
  BY <1>2, <1>4 DEF Sound, NodeSound, TableSound, KnownSound, SuspectsSound, Kept
<1>6. \A m \in Node : \A w \in writes'[m] : w \in writes[m] \/ WriteSound(w)
  <2> DEFINE m == Owner[p.url]
             w == [op |-> "announce", name |-> n, url |-> Advertise[n], secret |-> 0,
                   muted |-> FALSE, late |-> Lost]
  <2>1. WriteSound(w)
    BY <1>3 DEF WriteSound
  <2>2. writes' = writes \/ \E ws \in {writes[m], writes[m] \cup {w}} : writes' = [writes EXCEPT ![m] = ws]
    BY <1>1 DEF handlePeerAnnounce
  <2> HIDE DEF w, m
  <2> QED BY <2>1, <2>2 DEF Typed, TypeOK
<1> QED BY <1>4, <1>5, <1>6, OneNodeSteps

(* The list the rest of the cycle looks at is the table as it is now.      *)
LEMMA StartGossipSound ==
  ASSUME Typed, Sound, NEW n \in Node, StartGossip(n)
  PROVE  StepSound
<1> DEFINE rows == ListPeers(table[n])
           c == [stage |-> "heal", todo |-> Suspects(rows), known |-> rows, found |-> {}]
<1>1. /\ cyc' = [cyc EXCEPT ![n] = Onward(c)] /\ fresh' = [fresh EXCEPT ![n] = {}]
      /\ UNCHANGED <<table, writes, raced>>
  BY DEF StartGossip
<1>2. rows \subseteq Listed /\ Suspects(rows) \subseteq Listed
  BY ListPeersType DEF Suspects, Typed, TypeOK, TableOK
<1>3. c \in Cycle /\ c.stage = "heal" /\ c.known = rows /\ c.todo = Suspects(rows)
  BY <1>2 DEF Cycle
<1>4. ASSUME NEW x \in DOMAIN table[n] PROVE \E k \in rows : k.name = x
  <2> DEFINE k == [name |-> x, url |-> table[n][x].url, secret |-> table[n][x].secret,
                   enabled |-> table[n][x].enabled]
  <2>1. k \in rows
    BY DEF ListPeers
  <2>2. k.name = x
    OBVIOUS
  <2> HIDE DEF k, rows
  <2> QED BY <2>1, <2>2
<1>5. \A p \in Suspects(rows) : p.name \in DOMAIN table[n] /\ table[n][p.name].secret = 0
  BY DEF ListPeers, Suspects
<1> HIDE DEF c, rows
<1>6. /\ Onward(c).stage # "idle" => Onward(c).known = rows
      /\ Onward(c).stage = "heal" => Onward(c).todo = Suspects(rows)
  BY <1>3, OnwardFacts
<1>7. cyc'[n] = Onward(c) /\ \A m \in Node \ {n} : Untouched(m)
  BY <1>1 DEF Typed, TypeOK, Untouched
<1>8. KnownSound(n)'
  BY <1>1, <1>4, <1>6, <1>7 DEF KnownSound
<1>9. SuspectsSound(n)'
  BY <1>1, <1>5, <1>6, <1>7 DEF SuspectsSound
<1>10. TableSound(n)' /\ Kept(n)
  BY <1>1 DEF Sound, TableSound, Kept
<1> QED BY <1>1, <1>7, <1>8, <1>9, <1>10, OneNodeSteps DEF NodeSound

(* Self-heal removes none but a row without a secret, or one edited since. *)
LEMMA selfHealSound ==
  ASSUME Typed, Sound, NEW n \in Node, selfHeal(n)
  PROVE  StepSound
<1>1. PICK p \in cyc[n].todo, self \in BOOLEAN :
        /\ cyc' = [cyc EXCEPT ![n] =
             Onward([stage |-> "heal", todo |-> @.todo \ {p}, found |-> {},
                     known |-> IF self THEN {k \in @.known : k.name # p.name} ELSE @.known])]
        /\ table' = [table EXCEPT ![n] = IF self THEN DeletePeer(@, p.name) ELSE @]
  BY DEF selfHeal, First
<1>2. cyc[n] \in Cycle /\ cyc[n].stage = "heal" /\ UNCHANGED <<writes, fresh, raced>>
  BY DEF selfHeal, In, Typed, TypeOK
<1> DEFINE left == IF self THEN {k \in cyc[n].known : k.name # p.name} ELSE cyc[n].known
           c == [stage |-> "heal", todo |-> cyc[n].todo \ {p}, found |-> {}, known |-> left]
           t == IF self THEN DeletePeer(table[n], p.name) ELSE table[n]
<1>3. c \in Cycle /\ c.stage = "heal" /\ c.known = left /\ c.todo \subseteq cyc[n].todo
  BY <1>2 DEF Cycle
<1>4. cyc' = [cyc EXCEPT ![n] = Onward(c)] /\ table' = [table EXCEPT ![n] = t]
  BY <1>1 DEF Typed, TypeOK
<1> HIDE DEF c
<1>5. /\ Onward(c).stage # "idle" => Onward(c).known = left
      /\ Onward(c).stage = "heal" => Onward(c).todo \subseteq cyc[n].todo
  BY <1>3, OnwardFacts
<1>6. cyc'[n] = Onward(c) /\ table'[n] = t /\ \A m \in Node \ {n} : Untouched(m)
  <2> HIDE DEF t
  <2> QED BY <1>2, <1>4 DEF Typed, TypeOK, Untouched
<1>7. TableSound(n) /\ KnownSound(n) /\ SuspectsSound(n)
  BY DEF Sound
<1>8. TableSound(n)' /\ NoNewSecret(n) /\ Kept(n)
  <2>1. CASE ~self
    BY <1>2, <1>6, <1>7, <2>1 DEF TableSound, NoNewSecret, Kept
  <2>2. CASE self
    <3>1. table'[n] = DeletePeer(table[n], p.name)
      BY <1>6, <2>2
    <3>2. p.name \in DOMAIN table[n] \ fresh'[n] => table[n][p.name].secret = 0
      BY <1>2, <1>7 DEF SuspectsSound
    <3> QED BY <1>2, <1>7, <3>1, <3>2, DeleteSound
  <2> QED BY <2>1, <2>2
<1>9. \A k \in cyc[n].known : k \in left \/ k.name \notin DOMAIN table'[n]
  <2>1. CASE ~self
    BY <2>1
  <2>2. CASE self
    <3>1. DOMAIN table'[n] = DOMAIN table[n] \ {p.name}
      BY <1>6, <2>2 DEF DeletePeer
    <3> QED BY <2>2, <3>1
  <2> QED BY <2>1, <2>2
<1> HIDE DEF t, left
<1>10. KnownSound(n)' /\ SuspectsSound(n)'
  BY <1>2, <1>5, <1>6, <1>7, <1>8, <1>9, ListsStay
<1> QED BY <1>2, <1>6, <1>8, <1>10, OneNodeSteps DEF NodeSound

LEMMA FetchMembersSound ==
  ASSUME Typed, Sound, NEW n \in Node, FetchMembers(n)
  PROVE  StepSound
<1>1. PICK c : /\ cyc' = [cyc EXCEPT ![n] = Onward(c)]
               /\ c \in Cycle /\ c.stage = "gossip" /\ c.known = cyc[n].known
  <2>1. PICK p \in cyc[n].todo :
        LET resp == IF ~Lost /\ Answers(p.url, effectiveSecret(n, p))
                    THEN handlePeerMembers(Owner[p.url]) ELSE {} IN
        cyc' = [cyc EXCEPT ![n] =
                 Onward([stage |-> "gossip", todo |-> @.todo \ {p}, known |-> @.known,
                         found |-> {c \in resp : Candidate(n, c, cyc[n].known)}])]
    BY DEF FetchMembers, First
  <2> DEFINE resp == IF ~Lost /\ Answers(p.url, effectiveSecret(n, p))
                     THEN handlePeerMembers(Owner[p.url]) ELSE {}
             c == [stage |-> "gossip", todo |-> cyc[n].todo \ {p}, known |-> cyc[n].known,
                   found |-> {m \in resp : Candidate(n, m, cyc[n].known)}]
  <2>2. cyc[n] \in Cycle
    BY DEF Typed, TypeOK
  <2>3. resp \subseteq Member
    <3>1. CASE Answers(p.url, effectiveSecret(n, p))
      <4>1. Owner[p.url] \in Node
        BY <3>1 DEF Answers, Typed, TypeOK
      <4> QED BY <4>1, MembersType DEF Typed
    <3>2. CASE ~Answers(p.url, effectiveSecret(n, p))
      BY <3>2
    <3> QED BY <3>1, <3>2
  <2>4. cyc' = [cyc EXCEPT ![n] = Onward(c)]
    BY <2>1 DEF Typed, TypeOK
  <2> HIDE DEF resp
  <2>5. c \in Cycle /\ c.stage = "gossip" /\ c.known = cyc[n].known
    BY <2>2, <2>3 DEF Cycle
  <2> HIDE DEF c
  <2> QED BY <2>4, <2>5
<1>2. cyc[n].stage = "gossip" /\ UNCHANGED <<table, writes, fresh, raced>>
  BY DEF FetchMembers, In
<1>3. Onward(c).stage # "heal" /\ (Onward(c).stage # "idle" => Onward(c).known = cyc[n].known)
  BY <1>1, OnwardFacts
<1>4. cyc'[n] = Onward(c) /\ \A m \in Node \ {n} : Untouched(m)
  BY <1>1, <1>2 DEF Typed, TypeOK, Untouched
<1>5. NodeSound(n)' /\ Kept(n)
  BY <1>2, <1>3, <1>4 DEF Sound, NodeSound, TableSound, KnownSound, SuspectsSound, Kept
<1> QED BY <1>2, <1>4, <1>5, OneNodeSteps

(* A member is stored under its own name, and under none that is listed.   *)
LEMMA considerMemberSound ==
  ASSUME Typed, Sound, NEW n \in Node, considerMember(n)
  PROVE  StepSound
<1>0. PICK m \in cyc[n].found :
        LET new == IF Lost THEN {} ELSE NewMember(n, m, cyc[n].known)
            added == {[name |-> x, url |-> m.url, secret |-> 0, enabled |-> TRUE] : x \in new} IN
        /\ cyc' = [cyc EXCEPT ![n] =
             Onward([stage |-> "gossip", todo |-> @.todo, known |-> @.known \cup added,
                     found |-> @.found \ {m}])]
        /\ \/ new = {} /\ UNCHANGED table
           \/ \E x \in new : table' = [table EXCEPT ![n] = UpsertPeer(@, x, m.url, 0)]
  BY DEF considerMember, FirstMember
<1> DEFINE new == IF Lost THEN {} ELSE NewMember(n, m, cyc[n].known)
           added == {[name |-> x, url |-> m.url, secret |-> 0, enabled |-> TRUE] : x \in new}
           c == [stage |-> "gossip", todo |-> cyc[n].todo, known |-> cyc[n].known \cup added,
                 found |-> cyc[n].found \ {m}]
<1>1. /\ cyc' = [cyc EXCEPT ![n] = Onward(c)]
      /\ \/ UNCHANGED table
         \/ \E x \in new : table' = [table EXCEPT ![n] = UpsertPeer(table[n], x, m.url, 0)]
  BY <1>0 DEF Typed, TypeOK
<1>2. /\ cyc[n] \in Cycle /\ cyc[n].stage = "gossip" /\ m \in Member
      /\ UNCHANGED <<writes, fresh, raced>>
  BY DEF considerMember, In, Typed, TypeOK, Cycle
<1>3. \A x \in new : x = Owner[m.url] /\ \A k \in cyc[n].known : k.name # x
  BY DEF NewMember, probeName
<1>4. m.url \in Addr /\ Owner[m.url] \in ToSet(Names)
  BY <1>2, MembershipAssumption DEF Member
<1> HIDE DEF new
<1>5. added \subseteq Listed
  <2>1. ASSUME NEW x \in new
        PROVE  [name |-> x, url |-> m.url, secret |-> 0, enabled |-> TRUE] \in Listed
    BY <1>3, <1>4 DEF Listed
  <2> QED BY <2>1
<1> HIDE DEF added
<1>6. c \in Cycle /\ c.stage = "gossip" /\ cyc[n].known \subseteq c.known
  BY <1>2, <1>5 DEF Cycle
<1> HIDE DEF c
<1>7. Onward(c).stage # "heal" /\ (Onward(c).stage # "idle" => cyc[n].known \subseteq Onward(c).known)
  BY <1>6, OnwardFacts
<1>8. cyc'[n] = Onward(c) /\ \A i \in Node \ {n} : Untouched(i)
  <2>1. \A i \in Node \ {n} : table'[i] = table[i]
    BY <1>1 DEF Typed, TypeOK
  <2> QED BY <1>1, <1>2, <2>1 DEF Typed, TypeOK, Untouched
<1>9. NodeSound(n) /\ TableOK(table[n])
  BY DEF Sound, NodeSound, Typed, TypeOK, TableOK
<1>10. TableSound(n)' /\ NoNewSecret(n) /\ Kept(n)
  <2>1. CASE UNCHANGED table
    BY <1>2, <1>9, <2>1 DEF NodeSound, TableSound, NoNewSecret, Kept
  <2>2. ASSUME NEW x \in new, table' = [table EXCEPT ![n] = UpsertPeer(table[n], x, m.url, 0)]
        PROVE  TableSound(n)' /\ NoNewSecret(n) /\ Kept(n)
    <3>1. table'[n] = UpsertPeer(table[n], x, m.url, 0)
      BY <2>2 DEF Typed, TypeOK
    <3>2. TableSound(n)' /\ NoNewSecret(n) /\ (~HasSecret(table[n], x) \/ x \in fresh'[n] => Kept(n))
      BY <1>2, <1>3, <1>9, <3>1, UpsertSound DEF NodeSound
    <3>3. ~HasSecret(table[n], x) \/ x \in fresh'[n]
      BY <1>2, <1>3, <1>9 DEF NodeSound, KnownSound, HasSecret, GetPeer
    <3> QED BY <3>2, <3>3
  <2> QED BY <1>1, <2>1, <2>2
<1>11. KnownSound(n)' /\ SuspectsSound(n)'
  BY <1>2, <1>7, <1>8, <1>9, <1>10, ListsStay DEF NodeSound
<1> QED BY <1>2, <1>8, <1>10, <1>11, OneNodeSteps DEF NodeSound

(* What a handler checked still holds of what it writes, whatever came in  *)
(* between; but for the update of a row that has gone.                     *)
LEMMA WriteSoundStep ==
  ASSUME Typed, Sound, NEW n \in Node, NEW w \in writes[n], Write(n, w)
  PROVE  StepSound
<1>1. WriteSound(w) /\ w \in Handler
  BY DEF Sound, Typed, TypeOK
<1>2. /\ UNCHANGED cyc /\ raced' \in {raced, raced \cup {n}}
      /\ w.op = "update" /\ w.secret = 0 /\ ~HasSecret(table[n], w.name) => n \in raced'
  BY DEF Write
<1>3. /\ fresh' = [fresh EXCEPT ![n] = IF w.op = "announce" THEN @ ELSE @ \cup {w.name}]
      /\ fresh[n] \subseteq fresh'[n] /\ (w.op # "announce" => w.name \in fresh'[n])
  BY DEF Write, Typed, TypeOK
<1>4. PICK t : /\ table' = [table EXCEPT ![n] = t]
               /\ \/ w.op = "delete" /\ t = DeletePeer(table[n], w.name)
                  \/ w.op = "enable" /\ t = SetPeerEnabled(table[n], w.name, ~w.muted)
                  \/ w.op \notin {"delete", "enable"} /\ t = UpsertPeer(table[n], w.name, w.url, w.secret)
  BY DEF Write
<1>5. table'[n] = t /\ \A m \in Node \ {n} : Untouched(m)
  <2>1. table'[n] = t /\ \A m \in Node \ {n} : table'[m] = table[m]
    BY <1>4 DEF Typed, TypeOK
  <2> QED BY <1>2, <1>3, <2>1 DEF Typed, TypeOK, Untouched
<1>6. NodeSound(n) /\ TableOK(table[n])
  BY DEF Sound, NodeSound, Typed, TypeOK, TableOK
<1>7. TableSound(n)' /\ NoNewSecret(n) /\ Kept(n)
  <2>1. CASE w.op = "delete"
    BY <1>2, <1>3, <1>4, <1>5, <1>6, <2>1, DeleteSound DEF NodeSound
  <2>2. CASE w.op = "enable"
    <3>1. (~w.muted) \in BOOLEAN
      OBVIOUS
    <3> QED BY <1>2, <1>3, <1>4, <1>5, <1>6, <2>2, <3>1, EnableSound DEF NodeSound
  <2>3. CASE w.op \in {"announce", "create", "update"}
    <3>1. table'[n] = UpsertPeer(table[n], w.name, w.url, w.secret)
      BY <1>4, <1>5, <2>3
    <3>2. n \notin raced' => w.secret # 0 \/ w.name = Owner[w.url] \/ HasSecret(table[n], w.name)
      BY <1>1, <1>2, <2>3 DEF WriteSound
    <3>3. w.op = "announce" => w.secret = 0 /\ w.name \in Node /\ w.url = Advertise[w.name]
      BY <1>1 DEF WriteSound
    <3> QED BY <1>2, <1>3, <1>6, <3>1, <3>2, <3>3, UpsertSound DEF NodeSound
  <2> QED BY <1>1, <2>1, <2>2, <2>3 DEF Handler
<1>8. KnownSound(n)' /\ SuspectsSound(n)'
  BY <1>2, <1>6, <1>7, ListsStay DEF NodeSound
<1>9. \A m \in Node : \A v \in writes'[m] : v \in writes[m] \/ WriteSound(v)
  <2> DEFINE next == [w EXCEPT !.op = "enable"]
  <2>1. WriteSound(next)
    BY <1>1 DEF WriteSound, Handler
  <2>2. \E ws \in {writes[n] \ {w}, (writes[n] \ {w}) \cup {next}} : writes' = [writes EXCEPT ![n] = ws]
    BY DEF Write
  <2> HIDE DEF next
  <2> QED BY <2>1, <2>2 DEF Typed, TypeOK
<1> QED BY <1>5, <1>7, <1>8, <1>9, OneNodeSteps DEF NodeSound

LEMMA AdminSound ==
  ASSUME Typed, Sound, Admin
  PROVE  StepSound
<1>1. PICK e \in Edits, op \in {"create", "update", "delete"} :
        Submit(e, op) /\ (op = "create" => e.secret # 0)
  BY DEF Admin, handleCreatePeer, handleUpdatePeer, handleDeletePeer, validatePeer
<1> DEFINE w == [op |-> op, name |-> e.name, url |-> e.url, secret |-> e.secret,
                 muted |-> e.muted, late |-> FALSE]
<1>2. /\ writes' = [writes EXCEPT ![e.node] = writes[e.node] \cup {w}]
      /\ UNCHANGED <<table, cyc, fresh, raced>>
  BY <1>1 DEF Submit
<1>3. WriteSound(w) /\ e.node \in Node
  BY <1>1, MembershipAssumption DEF WriteSound
<1> HIDE DEF w
<1>4. \A m \in Node : \A v \in writes'[m] : v \in writes[m] \/ WriteSound(v)
  BY <1>2, <1>3 DEF Typed, TypeOK
<1>5. \A m \in Node : Untouched(m)
  BY <1>2 DEF Untouched
<1>6. NodeSound(e.node)' /\ Kept(e.node)
  BY <1>3, <1>5, UntouchedSound DEF Sound, NodeSound
<1> QED BY <1>3, <1>4, <1>5, <1>6, OneNodeSteps

LEMMA StopSound ==
  ASSUME Typed, Sound, NEW n \in Node, Stop(n)
  PROVE  StepSound
<1>1. /\ cyc' = [cyc EXCEPT ![n] = Idle] /\ writes' = [writes EXCEPT ![n] = {}]
      /\ UNCHANGED <<table, fresh, raced>>
  BY DEF Stop
<1>2. cyc'[n].stage = "idle" /\ \A m \in Node \ {n} : Untouched(m)
  BY <1>1 DEF Typed, TypeOK, Untouched, Idle
<1>3. NodeSound(n)' /\ Kept(n)
  BY <1>1, <1>2 DEF Sound, NodeSound, TableSound, KnownSound, SuspectsSound, Kept
<1>4. \A m \in Node : \A w \in writes'[m] : w \in writes[m]
  BY <1>1 DEF Typed, TypeOK
<1> QED BY <1>2, <1>3, <1>4, OneNodeSteps

LEMMA StartSound ==
  ASSUME Typed, Sound, NEW n \in Node, Start(n)
  PROVE  StepSound
<1>1. UNCHANGED <<table, cyc, writes, fresh, raced>>
  BY DEF Start
<1>2. \A m \in Node : Untouched(m)
  BY <1>1 DEF Untouched
<1>3. NodeSound(n)' /\ Kept(n)
  BY <1>2, UntouchedSound DEF Sound, NodeSound
<1> QED BY <1>1, <1>2, <1>3, OneNodeSteps

LEMMA SoundInitially == Init => Sound
<1> SUFFICES ASSUME Init PROVE Sound
  OBVIOUS
<1>1. \A n \in Node : \A x \in DOMAIN table[n] :
        table[n][x].secret = 0 => x = Owner[table[n][x].url]
  BY MembershipAssumption DEF Init
<1>2. \A n \in Node : cyc[n].stage = "idle" /\ writes[n] = {}
  BY DEF Init, Idle
<1> QED BY <1>1, <1>2 DEF Sound, TableSound, KnownSound, SuspectsSound

LEMMA SoundInductive == Typed /\ Sound /\ [Next]_vars => StepSound
<1> SUFFICES ASSUME Typed, Sound, [Next]_vars PROVE StepSound
  OBVIOUS
<1>1. CASE UNCHANGED vars
  <2>1. UNCHANGED writes /\ \A n \in Node : Untouched(n)
    BY <1>1 DEF vars, Untouched
  <2>2. \A n \in Node : NodeSound(n)' /\ Kept(n)
    BY <2>1, UntouchedSound DEF Sound, NodeSound
  <2>3. \A n \in Node : \A w \in writes'[n] : WriteSound(w)'
    BY <2>1 DEF Sound, WriteSound
  <2> QED BY <2>2, <2>3 DEF StepSound, Sound, NodeSound
<1>2. ASSUME NEW n \in Node, Poller(n) PROVE StepSound
  BY <1>2, StartCycleSound, announceSound, StartGossipSound, selfHealSound, FetchMembersSound,
     considerMemberSound DEF Poller
<1>3. ASSUME NEW n \in Node, Handlers(n) PROVE StepSound
  BY <1>3, WriteSoundStep DEF Handlers
<1> QED BY <1>1, <1>2, <1>3, StopSound, StartSound, AdminSound DEF Next

(* In any cluster, whatever is announced, gossiped, edited, lost or        *)
(* restarted and in whatever order: a row without a secret carries the     *)
(* name the node at its address gives itself, but for the update of a row  *)
(* deleted under it (handlePeerAnnounce, considerMember, UpsertPeer).      *)
THEOREM UntypedRowsAreCanonical == Spec => []AutoRowsCanonical
<1>1. Sound => AutoRowsCanonical
  BY DEF Sound, TableSound, AutoRowsCanonical
<1>2. Typed /\ Sound /\ [Next]_vars => Sound'
  BY SoundInductive DEF StepSound
<1> QED BY TypedInitially, TypedInductive, SoundInitially, <1>1, <1>2, PTL DEF Spec

(* Nor does any of it remove a row an admin typed in, or change its secret *)
(* or its muting, or give it a URL but the one the named node announces;   *)
(* but for a row edited since the poller listed the peers (gossip,         *)
(* selfHeal, considerMember, handlePeerAnnounce).                          *)
THEOREM HandSetRowsAreKept == Spec => HandSetKept
<1> DEFINE Step == \A n \in Node : Kept(n)
<1>1. Typed /\ Sound /\ [Next]_vars => Sound' /\ Step
  BY SoundInductive DEF StepSound
<1>2. Spec => [][Step]_vars
  BY TypedInitially, TypedInductive, SoundInitially, <1>1, PTL DEF Spec
<1>3. Step <=> \A n \in Node : \A x \in DOMAIN table[n] :
       table[n][x].secret # 0 /\ x \notin fresh'[n] =>
         /\ x \in DOMAIN table'[n]
         /\ table'[n][x].secret = table[n][x].secret
         /\ table'[n][x].enabled = table[n][x].enabled
         /\ table'[n][x].url # table[n][x].url =>
              x \in Node /\ table'[n][x].url = Advertise[x]
  BY DEF Kept
<1> HIDE DEF Step
<1> QED BY <1>2, <1>3, PTL DEF HandSetKept

---------------------------------------------------------------------------
(* What two undisturbed cycles add up to.  As long as no admin has edited  *)
(* anything, the handlers under way are announces, and a node that waits   *)
(* for its own announce is still announcing.                               *)
Quiet == used.edits = 0
Plain == \A n \in Node : fresh[n] = {} /\ \A w \in writes[n] : w.op = "announce"
OwnWaits(n) == \A w \in writes[n] : w.name = n /\ ~w.late => cyc[n].stage = "announce"
Base ==
  /\ used \in [edits : Nat, lost : Nat, crashes : Nat]
  /\ Quiet => Plain /\ \A n \in Node : OwnWaits(n)

LEMMA SpendFacts ==
  ASSUME Base, NEW what \in {"edits", "lost", "crashes"}, Spend(what)
  PROVE  /\ used' \in [edits : Nat, lost : Nat, crashes : Nat]
         /\ used'[what] = used[what] + 1 /\ used' # used
         /\ \A other \in {"edits", "lost", "crashes"} \ {what} : used'[other] = used[other]
<1>1. used' = [used EXCEPT ![what] = used[what] + 1]
  BY DEF Spend
<1>2. used \in [edits : Nat, lost : Nat, crashes : Nat]
  BY DEF Base
<1>3. used[what] \in Nat /\ DOMAIN used = {"edits", "lost", "crashes"}
  BY <1>2
<1>4. used'[what] = used[what] + 1
  BY <1>1, <1>3
<1>5. \A other \in {"edits", "lost", "crashes"} \ {what} : used'[other] = used[other]
  BY <1>1, <1>3
<1>6. used' \in [edits : Nat, lost : Nat, crashes : Nat]
  <2>1. used[what] + 1 \in Nat
    BY <1>3
  <2> HIDE DEF Spend
  <2>2. CASE what = "edits"
    BY <1>1, <1>2, <2>1, <2>2
  <2>3. CASE what = "lost"
    BY <1>1, <1>2, <2>1, <2>3
  <2>4. CASE what = "crashes"
    BY <1>1, <1>2, <2>1, <2>4
  <2> QED BY <2>2, <2>3, <2>4
<1>7. used'[what] # used[what]
  BY <1>3, <1>4
<1> QED BY <1>4, <1>5, <1>6, <1>7

(* A call of a poller is lost and counted, or it is not.                   *)
LEMMA LossFacts ==
  ASSUME Base, MayLose
  PROVE  /\ used' \in [edits : Nat, lost : Nat, crashes : Nat]
         /\ used'.edits = used.edits
         /\ Lost => used'.lost # used.lost /\ Disturbed
         /\ ~Lost => used' = used
<1>1. CASE UNCHANGED used
  BY <1>1 DEF Base, Lost
<1>2. CASE Spend("lost")
  <2>1. /\ used' \in [edits : Nat, lost : Nat, crashes : Nat]
        /\ used'.lost = used.lost + 1 /\ used' # used /\ used'.edits = used.edits
    BY <1>2, SpendFacts
  <2>2. used.lost \in Nat
    BY DEF Base
  <2>3. used'.lost # used.lost
    BY <2>1, <2>2
  <2> QED BY <2>1, <2>3 DEF Lost, Disturbed
<1> QED BY <1>1, <1>2 DEF MayLose

(* A step of one poller that puts nothing but its own announces under way. *)
LEMMA PollerBase ==
  ASSUME Typed, Base, MayLose, UNCHANGED fresh, NEW n \in Node, NEW c,
         cyc' = [cyc EXCEPT ![n] = c],
         \A m \in Node : \A w \in writes'[m] :
           w \in writes[m] \/ (w.op = "announce" /\ w.name = n /\ c.stage = "announce"),
         Quiet => c.stage = "announce" \/ \A w \in writes[n] : w.name = n => w.late
  PROVE  Base'
<1>1. used' \in [edits : Nat, lost : Nat, crashes : Nat] /\ used'.edits = used.edits
  BY LossFacts
<1>2. cyc'[n] = c /\ \A m \in Node \ {n} : cyc'[m] = cyc[m]
  BY DEF Typed, TypeOK
<1>3. ASSUME Quiet' PROVE Plain' /\ \A m \in Node : OwnWaits(m)'
  <2>1. Quiet
    BY <1>1, <1>3 DEF Quiet
  <2>2. Plain'
    BY <2>1 DEF Base, Plain
  <2>3. ASSUME NEW m \in Node, NEW w \in writes'[m], w.name = m, ~w.late
        PROVE  cyc'[m].stage = "announce"
    <3>1. CASE m = n
      BY <1>2, <2>1, <2>3, <3>1
    <3>2. CASE m # n
      BY <1>2, <2>1, <2>3, <3>2 DEF Base, OwnWaits
    <3> QED BY <3>1, <3>2
  <2> QED BY <2>2, <2>3 DEF OwnWaits
<1> QED BY <1>1, <1>3 DEF Base

LEMMA PollersKeepBase ==
  ASSUME Typed, Base, NEW n \in Node, Poller(n)
  PROVE  Base'
<1>0. cyc[n] \in Cycle
  BY DEF Typed, TypeOK
<1>1. CASE StartCycle(n)
  <2> DEFINE rows == IF Advertise[n] = NoAddr THEN {} ELSE Enabled(ListPeers(table[n]))
             c == [stage |-> "announce", todo |-> rows, known |-> {}, found |-> {}]
  <2>1. cyc' = [cyc EXCEPT ![n] = c] /\ UNCHANGED <<writes, fresh, used>>
    BY <1>1 DEF StartCycle
  <2>2. rows \subseteq Listed
    BY ListPeersType DEF Enabled, Typed, TypeOK, TableOK
  <2> HIDE DEF rows
  <2>3. c \in Cycle /\ c.stage = "announce"
    BY <2>2 DEF Cycle
  <2> HIDE DEF c
  <2>4. MayLose
    BY <2>1 DEF MayLose
  <2> QED BY <2>1, <2>3, <2>4, PollerBase
<1>2. CASE announce(n)
  <2>1. PICK p \in cyc[n].todo :
          /\ \/ handlePeerAnnounce(Owner[p.url], n, Advertise[n], Lost)
             \/ UNCHANGED writes
          /\ cyc' = [cyc EXCEPT ![n].todo = @ \ {p}]
    BY <1>2 DEF announce, First
  <2> DEFINE c == [cyc[n] EXCEPT !.todo = @ \ {p}]
             w == [op |-> "announce", name |-> n, url |-> Advertise[n], secret |-> 0,
                   muted |-> FALSE, late |-> Lost]
             m == Owner[p.url]
  <2>2. cyc[n].stage = "announce" /\ MayLose /\ UNCHANGED fresh
    BY <1>2 DEF announce, In
  <2>3. c \in Cycle /\ c.stage = "announce"
    BY <1>0, <2>2 DEF Cycle
  <2>4. cyc' = [cyc EXCEPT ![n] = c]
    BY <2>1 DEF Typed, TypeOK
  <2>5. w.op = "announce" /\ w.name = n
    OBVIOUS
  <2>6. writes' = writes \/ \E ws \in {writes[m], writes[m] \cup {w}} : writes' = [writes EXCEPT ![m] = ws]
    BY <2>1 DEF handlePeerAnnounce
  <2> HIDE DEF c, w, m
  <2>7. \A i \in Node : \A v \in writes'[i] : v \in writes[i] \/ v = w
    BY <2>6 DEF Typed, TypeOK
  <2>8. \A i \in Node : \A v \in writes'[i] :
          v \in writes[i] \/ (v.op = "announce" /\ v.name = n /\ c.stage = "announce")
    BY <2>3, <2>5, <2>7
  <2> QED BY <2>2, <2>3, <2>4, <2>8, PollerBase
<1>3. CASE StartGossip(n)
  <2> DEFINE rows == ListPeers(table[n])
             c == [stage |-> "heal", todo |-> Suspects(rows), known |-> rows, found |-> {}]
  <2>1. /\ cyc' = [cyc EXCEPT ![n] = Onward(c)] /\ fresh' = [fresh EXCEPT ![n] = {}]
        /\ UNCHANGED <<writes, used>> /\ ~Waits(n)
    BY <1>3 DEF StartGossip
  <2>2. rows \subseteq Listed /\ Suspects(rows) \subseteq Listed
    BY ListPeersType DEF Suspects, Typed, TypeOK, TableOK
  <2> HIDE DEF rows
  <2>3. c \in Cycle /\ c.stage = "heal"
    BY <2>2 DEF Cycle
  <2> HIDE DEF c
  <2>4. Onward(c) \in Cycle
    BY <2>3, OnwardFacts
  <2>5. cyc'[n] = Onward(c) /\ \A m \in Node \ {n} : cyc'[m] = cyc[m]
    BY <2>1, <2>4, CycleUpdate DEF Typed
  <2>6. ASSUME Quiet' PROVE Plain' /\ \A m \in Node : OwnWaits(m)'
    <3>1. Quiet /\ Plain /\ \A m \in Node : OwnWaits(m)
      BY <2>1, <2>6 DEF Quiet, Base
    <3>2. Plain'
      BY <2>1, <3>1 DEF Plain, Typed, TypeOK
    <3>3. \A w \in writes[n] : w.name = n => w.late
      BY <2>1, <3>1 DEF Plain, Waits
    <3>4. \A m \in Node : OwnWaits(m)'
      BY <2>1, <2>5, <3>1, <3>3 DEF OwnWaits
    <3> QED BY <3>2, <3>4
  <2> QED BY <2>1, <2>6 DEF Base
<1>4. CASE selfHeal(n) \/ FetchMembers(n) \/ considerMember(n)
  <2>1. PICK c : cyc' = [cyc EXCEPT ![n] = c]
    BY <1>4 DEF selfHeal, FetchMembers, considerMember
  <2>2. cyc[n].stage \in {"heal", "gossip"} /\ MayLose /\ UNCHANGED <<writes, fresh>>
    BY <1>4 DEF selfHeal, FetchMembers, considerMember, In
  <2>3. Quiet => \A w \in writes[n] : w.name = n => w.late
    BY <2>2 DEF Base, OwnWaits
  <2> QED BY <2>1, <2>2, <2>3, PollerBase
<1> QED BY <1>1, <1>2, <1>3, <1>4 DEF Poller

LEMMA BaseInitially == Init => Base
BY DEF Init, Base, Plain, OwnWaits

LEMMA BaseInductive == Typed /\ Base /\ [Next]_vars => Base'
<1> SUFFICES ASSUME Typed, Base, [Next]_vars PROVE Base'
  OBVIOUS
<1>1. CASE UNCHANGED vars
  BY <1>1 DEF vars, Base, Quiet, Plain, OwnWaits
<1>2. ASSUME NEW n \in Node, NEW w \in writes[n], Write(n, w) PROVE Base'
  <2>1. UNCHANGED <<cyc, used>>
    BY <1>2 DEF Write
  <2>2. ASSUME Quiet' PROVE Plain' /\ \A m \in Node : OwnWaits(m)'
    <3>1. Quiet /\ Plain /\ \A m \in Node : OwnWaits(m)
      BY <2>1, <2>2 DEF Quiet, Base
    <3>2. w.op = "announce"
      BY <3>1 DEF Plain
    <3>3. writes' = [writes EXCEPT ![n] = writes[n] \ {w}] /\ UNCHANGED fresh
      BY <1>2, <3>2 DEF Write, Typed, TypeOK
    <3>4. \A m \in Node : writes'[m] \subseteq writes[m]
      BY <3>3 DEF Typed, TypeOK
    <3> QED BY <2>1, <3>1, <3>3, <3>4 DEF Plain, OwnWaits
  <2> QED BY <2>1, <2>2 DEF Base
<1>3. ASSUME Admin PROVE Base'
  <2>1. Spend("edits")
    BY <1>3 DEF Admin, handleCreatePeer, handleUpdatePeer, handleDeletePeer, Submit
  <2>2. used' \in [edits : Nat, lost : Nat, crashes : Nat] /\ used'.edits = used.edits + 1
    BY <2>1, SpendFacts
  <2>3. ~Quiet'
    BY <2>2 DEF Quiet, Base
  <2> QED BY <2>2, <2>3 DEF Base
<1>4. ASSUME NEW n \in Node, Stop(n) PROVE Base'
  <2>1. /\ Spend("crashes") /\ UNCHANGED fresh
        /\ cyc' = [cyc EXCEPT ![n] = Idle] /\ writes' = [writes EXCEPT ![n] = {}]
    BY <1>4 DEF Stop
  <2>2. used' \in [edits : Nat, lost : Nat, crashes : Nat] /\ used'.edits = used.edits
    BY <2>1, SpendFacts
  <2>3. /\ writes'[n] = {}
        /\ \A m \in Node \ {n} : cyc'[m] = cyc[m] /\ writes'[m] = writes[m]
    BY <2>1 DEF Typed, TypeOK
  <2> QED BY <2>1, <2>2, <2>3 DEF Base, Quiet, Plain, OwnWaits
<1>5. ASSUME NEW n \in Node, Start(n) PROVE Base'
  BY <1>5 DEF Start, Base, Quiet, Plain, OwnWaits
<1> QED BY <1>1, <1>2, <1>3, <1>4, <1>5, PollersKeepBase DEF Next, Handlers

(* Where a loop of the poller is done, in full.                            *)
LEMMA OnwardCases ==
  ASSUME NEW c \in Cycle, c.stage \in {"heal", "gossip"}
  PROVE  \/ Onward(c) = c /\ ~(c.stage = "heal" /\ c.todo = {})
         \/ /\ c.stage = "heal" /\ c.todo = {} /\ Onward(c).stage = "gossip"
            /\ Onward(c).todo = Enabled(c.known) /\ Onward(c).known = c.known /\ Onward(c).found = {}
         \/ c.stage = "heal" /\ c.todo = {} /\ Enabled(c.known) = {} /\ Onward(c) = Idle
         \/ c.stage = "gossip" /\ c.todo = {} /\ c.found = {} /\ Onward(c) = Idle
<1> DEFINE g == [stage |-> "gossip", todo |-> Enabled(c.known), known |-> c.known, found |-> {}]
<1>1. /\ g.stage = "gossip" /\ g.todo = Enabled(c.known) /\ g.known = c.known /\ g.found = {}
  OBVIOUS
<1>2. CASE c.stage = "heal" /\ c.todo = {}
  <2>1. Onward(c) = IF g.stage = "gossip" /\ g.todo = {} /\ g.found = {} THEN Idle ELSE g
    BY <1>2 DEF Onward
  <2> HIDE DEF g
  <2> QED BY <1>1, <1>2, <2>1
<1>3. CASE ~(c.stage = "heal" /\ c.todo = {})
  <2>1. Onward(c) = IF c.stage = "gossip" /\ c.todo = {} /\ c.found = {} THEN Idle ELSE c
    BY <1>3 DEF Onward
  <2> QED BY <1>3, <2>1
<1> QED BY <1>2, <1>3

(* How the cycles of one node are counted.                                 *)
LEMMA RoundFacts ==
  ASSUME Typed, Counting, NEW n \in Node
  PROVE  /\ rounds[n] \in Int /\ rounds'[n] \in Int
         /\ Disturbed => rounds'[n] <= 0 /\ (cyc'[n].stage # "idle" => rounds'[n] < 0)
         /\ ~Disturbed /\ cyc[n].stage # "idle" /\ cyc'[n].stage = "idle" => rounds'[n] = rounds[n] + 1
         /\ ~Disturbed /\ (cyc[n].stage = "idle" \/ cyc'[n].stage # "idle") => rounds'[n] = rounds[n]
<1>1. rounds[n] \in Int
  BY DEF Typed, TypeOK
<1>2. CASE Disturbed
  <2>1. rounds'[n] = IF cyc'[n].stage = "idle" THEN 0 ELSE -1
    BY <1>2 DEF Counting
  <2> QED BY <1>1, <1>2, <2>1
<1>3. CASE ~Disturbed
  <2>1. rounds'[n] = IF cyc[n].stage # "idle" /\ cyc'[n].stage = "idle" THEN rounds[n] + 1 ELSE rounds[n]
    BY <1>3 DEF Counting
  <2> QED BY <1>1, <1>3, <2>1
<1> QED BY <1>2, <1>3

(* The rows in which a node lists itself and that nobody typed in.  Where  *)
(* its cluster's secret tells a node's own answers, self-heal is going to  *)
(* remove them all, and nothing puts one there once it has begun.          *)
OwnRows(n) == {x \in DOMAIN table[n] : table[n][x].secret = 0 /\ Owner[table[n][x].url] = n}
Clearing(n) ==
  /\ cyc[n].stage # "idle" => fallback[n] = ClusterSecret[n]
  /\ cyc[n].stage = "heal" /\ rounds[n] >= 0 =>
       \A x \in OwnRows(n) : \E p \in cyc[n].todo : p.name = x /\ Owner[p.url] = n
  /\ cyc[n].stage = "gossip" /\ rounds[n] >= 0 => OwnRows(n) = {}
  /\ cyc[n].stage = "idle" /\ rounds[n] >= 1 => OwnRows(n) = {}
Cleared == Quiet => \A n \in Node : ClusterSecret[n] # 0 => Clearing(n)

LEMMA StaysCleared ==
  ASSUME Typed, Counting, NEW n \in Node, Clearing(n),
         cyc'[n] = cyc[n], fallback'[n] = fallback[n],
         \/ Disturbed \/ cyc[n].stage = "announce" \/ OwnRows(n)' \subseteq OwnRows(n)
  PROVE  Clearing(n)'
<1>1. /\ rounds[n] \in Int /\ rounds'[n] \in Int
      /\ Disturbed => rounds'[n] <= 0 /\ (cyc'[n].stage # "idle" => rounds'[n] < 0)
      /\ ~Disturbed => rounds'[n] = rounds[n]
  BY RoundFacts
<1>2. CASE Disturbed
  BY <1>1, <1>2 DEF Clearing
<1>3. CASE ~Disturbed /\ cyc[n].stage = "announce"
  BY <1>3 DEF Clearing
<1>4. CASE ~Disturbed /\ OwnRows(n)' \subseteq OwnRows(n)
  BY <1>1, <1>4 DEF Clearing
<1> QED BY <1>2, <1>3, <1>4

(* A row under the name of another node, at an address of that node.       *)
LEMMA NotOwn ==
  ASSUME NEW n \in Node, NEW name, NEW url, name # n, Owner[url] # n,
         table'[n] = UpsertPeer(table[n], name, url, 0)
  PROVE  OwnRows(n)' \subseteq OwnRows(n)
<1> DEFINE u == UpsertPeer(table[n], name, url, 0)
<1>1. /\ DOMAIN u = DOMAIN table[n] \cup {name}
      /\ \A x \in DOMAIN table[n] : x # name => u[x] = table[n][x]
      /\ u[name].url = url
  BY DEF UpsertPeer
<1>2. table'[n] = u
  OBVIOUS
<1> HIDE DEF u
<1> QED BY <1>1, <1>2 DEF OwnRows

LEMMA HealClears ==
  ASSUME Typed, Base, Counting, NEW n \in Node, selfHeal(n), ClusterSecret[n] # 0, Clearing(n)
  PROVE  Clearing(n)'
<1>1. PICK p \in cyc[n].todo :
        LET self == ~Lost /\ n \in probeName(n, p.url) IN
        /\ cyc' = [cyc EXCEPT ![n] =
             Onward([stage |-> "heal", todo |-> @.todo \ {p}, found |-> {},
                     known |-> IF self THEN {k \in @.known : k.name # p.name} ELSE @.known])]
        /\ table' = [table EXCEPT ![n] = IF self THEN DeletePeer(@, p.name) ELSE @]
  BY DEF selfHeal, First
<1> DEFINE self == ~Lost /\ n \in probeName(n, p.url)
           left == IF self THEN {k \in cyc[n].known : k.name # p.name} ELSE cyc[n].known
           c == [stage |-> "heal", todo |-> cyc[n].todo \ {p}, found |-> {}, known |-> left]
           t == IF self THEN DeletePeer(table[n], p.name) ELSE table[n]
<1>2. cyc[n] \in Cycle /\ cyc[n].stage = "heal" /\ n \in up /\ UNCHANGED fallback /\ MayLose
  BY DEF selfHeal, In, Typed, TypeOK
<1>3. c \in Cycle /\ c.stage = "heal" /\ c.todo = cyc[n].todo \ {p}
  BY <1>2 DEF Cycle
<1>4. cyc'[n] = Onward(c) /\ table'[n] = t
  BY <1>1 DEF Typed, TypeOK
<1> HIDE DEF c
<1>5. fallback[n] = ClusterSecret[n] /\ fallback'[n] = fallback[n]
  BY <1>2 DEF Clearing
<1>6. ~Lost /\ Owner[p.url] = n => self
  BY <1>2, <1>5 DEF probeName, Answers, requireSecret, validSecret
<1>7. Lost => Disturbed
  BY <1>2, LossFacts
<1> HIDE DEF self
<1>8. self => OwnRows(n)' = OwnRows(n) \ {p.name}
  BY <1>4 DEF DeletePeer, OwnRows
<1>9. ~self => OwnRows(n)' = OwnRows(n)
  BY <1>4 DEF OwnRows
<1> HIDE DEF t
<1>10. ~Disturbed /\ rounds[n] >= 0 =>
         \A x \in OwnRows(n)' : \E q \in c.todo : q.name = x /\ Owner[q.url] = n
  <2> SUFFICES ASSUME ~Disturbed, rounds[n] >= 0, NEW x \in OwnRows(n)'
               PROVE  \E q \in c.todo : q.name = x /\ Owner[q.url] = n
    OBVIOUS
  <2>1. x \in OwnRows(n)
    BY <1>8, <1>9
  <2>2. PICK q \in cyc[n].todo : q.name = x /\ Owner[q.url] = n
    BY <1>2, <2>1 DEF Clearing
  <2>3. q # p
    BY <1>6, <1>7, <1>8, <2>2
  <2> QED BY <1>3, <2>2, <2>3
<1>11. /\ rounds[n] \in Int /\ rounds'[n] \in Int
       /\ Disturbed => rounds'[n] <= 0 /\ (cyc'[n].stage # "idle" => rounds'[n] < 0)
       /\ ~Disturbed /\ cyc'[n].stage = "idle" => rounds'[n] = rounds[n] + 1
       /\ ~Disturbed /\ cyc'[n].stage # "idle" => rounds'[n] = rounds[n]
  BY <1>2, RoundFacts
<1>12. \/ cyc'[n] = c /\ c.stage = "heal"
       \/ cyc'[n].stage \in {"gossip", "idle"} /\ c.todo = {}
  BY <1>3, <1>4, OnwardCases DEF Idle
<1>13. ~Disturbed /\ rounds[n] >= 0 /\ cyc'[n].stage # "heal" => OwnRows(n)' = {}
  BY <1>3, <1>10, <1>12
<1>14. ~Disturbed /\ rounds[n] >= 0 /\ cyc'[n].stage = "heal" =>
         \A x \in OwnRows(n)' : \E q \in cyc'[n].todo : q.name = x /\ Owner[q.url] = n
  BY <1>10, <1>12
<1> QED BY <1>5, <1>11, <1>13, <1>14 DEF Clearing

LEMMA StartClears ==
  ASSUME Typed, Counting, NEW n \in Node, StartCycle(n), ClusterSecret[n] # 0
  PROVE  Clearing(n)'
<1> DEFINE rows == IF Advertise[n] = NoAddr THEN {} ELSE Enabled(ListPeers(table[n]))
           c == [stage |-> "announce", todo |-> rows, known |-> {}, found |-> {}]
<1>1. cyc' = [cyc EXCEPT ![n] = c]
  BY DEF StartCycle
<1>2. fallback' = [fallback EXCEPT ![n] = ClusterSecret[n]]
  BY DEF StartCycle
<1>3. c.stage = "announce"
  OBVIOUS
<1> HIDE DEF c
<1>4. cyc'[n].stage = "announce" /\ fallback'[n] = ClusterSecret[n]
  BY <1>1, <1>2, <1>3 DEF Typed, TypeOK
<1> QED BY <1>4 DEF Clearing

LEMMA GossipClears ==
  ASSUME Typed, Counting, NEW n \in Node, StartGossip(n), ClusterSecret[n] # 0, Clearing(n)
  PROVE  Clearing(n)'
<1> DEFINE rows == ListPeers(table[n])
           c == [stage |-> "heal", todo |-> Suspects(rows), known |-> rows, found |-> {}]
<1>1. /\ cyc' = [cyc EXCEPT ![n] = Onward(c)] /\ cyc[n].stage = "announce"
      /\ UNCHANGED <<up, table, fallback, writes, used>>
  BY DEF StartGossip, In
<1>2. rows \subseteq Listed /\ Suspects(rows) \subseteq Listed
  BY ListPeersType DEF Suspects, Typed, TypeOK, TableOK
<1>3. ASSUME NEW x \in OwnRows(n) PROVE \E p \in c.todo : p.name = x /\ Owner[p.url] = n
  <2> DEFINE p == [name |-> x, url |-> table[n][x].url, secret |-> table[n][x].secret,
                   enabled |-> table[n][x].enabled]
  <2>1. p \in rows /\ p.name = x /\ p.secret = table[n][x].secret /\ p.url = table[n][x].url
    BY DEF ListPeers, OwnRows
  <2> HIDE DEF p, rows
  <2> QED BY <2>1 DEF OwnRows, Suspects
<1>4. c \in Cycle /\ c.stage = "heal"
  BY <1>2 DEF Cycle
<1> HIDE DEF c
<1>5. cyc'[n] = Onward(c)
  BY <1>1 DEF Typed, TypeOK
<1>6. cyc'[n] = c \/ (cyc'[n].stage \in {"gossip", "idle"} /\ c.todo = {})
  BY <1>4, <1>5, OnwardCases DEF Idle
<1>7. OwnRows(n)' = OwnRows(n) /\ fallback'[n] = fallback[n]
  BY <1>1 DEF OwnRows
<1> QED BY <1>1, <1>3, <1>4, <1>6, <1>7 DEF Clearing

(* No member is taken for a new one that is the node itself.               *)
LEMMA MembersAreOthers ==
  ASSUME Typed, NEW n \in Node, considerMember(n)
  PROVE  /\ OwnRows(n)' \subseteq OwnRows(n)
         /\ \A m \in Node \ {n} : table'[m] = table[m]
<1>0. PICK m \in cyc[n].found :
        LET new == IF Lost THEN {} ELSE NewMember(n, m, cyc[n].known) IN
          \/ new = {} /\ UNCHANGED table
          \/ \E x \in new : table' = [table EXCEPT ![n] = UpsertPeer(@, x, m.url, 0)]
  BY DEF considerMember, FirstMember
<1>1. CASE UNCHANGED table
  BY <1>1 DEF OwnRows
<1>2. ASSUME NEW x \in NewMember(n, m, cyc[n].known),
             table' = [table EXCEPT ![n] = UpsertPeer(@, x, m.url, 0)]
      PROVE  /\ OwnRows(n)' \subseteq OwnRows(n)
             /\ \A i \in Node \ {n} : table'[i] = table[i]
  <2>1. x = Owner[m.url] /\ x # n
    BY <1>2 DEF NewMember, probeName
  <2>2. table'[n] = UpsertPeer(table[n], x, m.url, 0) /\ \A i \in Node \ {n} : table'[i] = table[i]
    BY <1>2 DEF Typed, TypeOK
  <2> QED BY <2>1, <2>2, NotOwn
<1> QED BY <1>0, <1>1, <1>2

LEMMA LateStagesClear ==
  ASSUME Typed, Counting, NEW n \in Node, FetchMembers(n) \/ considerMember(n),
         ClusterSecret[n] # 0, Clearing(n)
  PROVE  Clearing(n)'
<1>1. cyc[n].stage = "gossip" /\ UNCHANGED fallback
  BY DEF FetchMembers, considerMember, In
<1>2. OwnRows(n)' \subseteq OwnRows(n)
  BY MembersAreOthers DEF FetchMembers, OwnRows
<1>3. cyc'[n].stage # "heal"
  <2>1. PICK todo, known, found :
          cyc' = [cyc EXCEPT ![n] = Onward([stage |-> "gossip", todo |-> todo, known |-> known,
                                            found |-> found])]
    <3>1. CASE FetchMembers(n)
      BY <3>1 DEF FetchMembers
    <3>2. CASE considerMember(n)
      BY <3>2 DEF considerMember
    <3> QED BY <3>1, <3>2
  <2> DEFINE c == [stage |-> "gossip", todo |-> todo, known |-> known, found |-> found]
  <2>2. c.stage = "gossip"
    OBVIOUS
  <2>3. cyc' = [cyc EXCEPT ![n] = Onward(c)]
    BY <2>1
  <2> HIDE DEF c
  <2>4. cyc'[n] = Onward(c)
    BY <2>3 DEF Typed, TypeOK
  <2> QED BY <2>2, <2>4 DEF Onward, Idle
<1>4. /\ rounds[n] \in Int /\ rounds'[n] \in Int
      /\ Disturbed => rounds'[n] <= 0 /\ (cyc'[n].stage # "idle" => rounds'[n] < 0)
      /\ ~Disturbed /\ cyc'[n].stage = "idle" => rounds'[n] = rounds[n] + 1
      /\ ~Disturbed /\ cyc'[n].stage # "idle" => rounds'[n] = rounds[n]
  BY <1>1, RoundFacts
<1> QED BY <1>1, <1>2, <1>3, <1>4 DEF Clearing

(* A poller changes its own cycle and its own table only.                  *)
LEMMA SomeCycle ==
  ASSUME NEW n \in Node, Poller(n)
  PROVE  \E c : cyc' = [cyc EXCEPT ![n] = c]
<1>1. CASE StartCycle(n)
  BY <1>1 DEF StartCycle
<1>2. CASE announce(n)
  <2>1. PICK p : cyc' = [cyc EXCEPT ![n].todo = @ \ {p}]
    BY <1>2 DEF announce
  <2> QED BY <2>1
<1>3. CASE StartGossip(n)
  BY <1>3 DEF StartGossip
<1>4. CASE selfHeal(n)
  BY <1>4 DEF selfHeal
<1>5. CASE FetchMembers(n)
  BY <1>5 DEF FetchMembers
<1>6. CASE considerMember(n)
  BY <1>6 DEF considerMember
<1> QED BY <1>1, <1>2, <1>3, <1>4, <1>5, <1>6 DEF Poller

LEMMA OnlyOwnTable ==
  ASSUME Typed, NEW n \in Node, Poller(n), NEW m \in Node \ {n}
  PROVE  table'[m] = table[m]
<1>1. CASE selfHeal(n)
  BY <1>1 DEF selfHeal, Typed, TypeOK
<1>2. CASE StartCycle(n) \/ announce(n) \/ StartGossip(n) \/ FetchMembers(n)
  BY <1>2 DEF StartCycle, announce, StartGossip, FetchMembers
<1> QED BY <1>1, <1>2, MembersAreOthers DEF Poller

LEMMA AnnounceClears ==
  ASSUME Typed, NEW n \in Node, announce(n), Clearing(n)
  PROVE  Clearing(n)'
<1>1. PICK p : cyc' = [cyc EXCEPT ![n].todo = @ \ {p}]
  BY DEF announce
<1>2. cyc[n].stage = "announce" /\ cyc[n] \in Cycle /\ UNCHANGED fallback
  BY DEF announce, In, Typed, TypeOK
<1>3. cyc'[n].stage = "announce"
  BY <1>1, <1>2 DEF Typed, TypeOK, Cycle
<1> QED BY <1>2, <1>3 DEF Clearing

LEMMA WriteClears ==
  ASSUME Typed, Sound, Base, Quiet, Counting, NEW m \in Node, NEW w \in writes[m], Write(m, w),
         NEW n \in Node, Clearing(n)
  PROVE  Clearing(n)'
<1>1. w.op = "announce" /\ w.secret = 0 /\ w.name = Owner[w.url]
  BY DEF Base, Plain, Sound, WriteSound
<1>2. /\ table' = [table EXCEPT ![m] = UpsertPeer(table[m], w.name, w.url, 0)]
      /\ writes' = [writes EXCEPT ![m] = writes[m] \ {w}]
      /\ UNCHANGED <<fallback, cyc>>
  <2>1. table' = [table EXCEPT ![m] = UpsertPeer(@, w.name, w.url, w.secret)]
    BY <1>1 DEF Write
  <2>2. writes' = [writes EXCEPT ![m] = (@ \ {w}) \cup {}]
    BY <1>1 DEF Write
  <2>3. UNCHANGED <<fallback, cyc>>
    BY DEF Write
  <2> QED BY <1>1, <2>1, <2>2, <2>3 DEF Typed, TypeOK
<1>3. CASE n = m /\ w.name = n /\ w.late
  <2>1. w \in writes[n] \ writes'[n]
    BY <1>2, <1>3 DEF Typed, TypeOK
  <2>2. Disturbed
    BY <1>3, <2>1 DEF Disturbed
  <2> QED BY <1>2, <2>2, StaysCleared
<1>4. CASE n = m /\ w.name = n /\ ~w.late
  <2>1. cyc[n].stage = "announce"
    BY <1>4 DEF Base, OwnWaits
  <2> QED BY <1>2, <2>1, StaysCleared
<1>5. CASE n = m /\ w.name # n
  <2>1. table'[n] = UpsertPeer(table[n], w.name, w.url, 0)
    BY <1>2, <1>5 DEF Typed, TypeOK
  <2>2. OwnRows(n)' \subseteq OwnRows(n)
    BY <1>1, <1>5, <2>1, NotOwn
  <2> QED BY <1>2, <2>2, StaysCleared
<1>6. CASE n # m
  <2>1. table'[n] = table[n]
    BY <1>2, <1>6 DEF Typed, TypeOK
  <2> QED BY <1>2, <2>1, StaysCleared DEF OwnRows
<1> QED BY <1>3, <1>4, <1>5, <1>6

(* No step but an admin's is an edit.                                      *)
LEMMA QuietBefore ==
  ASSUME Typed, Base, [Next]_vars, Quiet'
  PROVE  Quiet /\ ~Admin
<1>1. ASSUME NEW n \in Node, Poller(n) PROVE Quiet
  <2>1. MayLose
    BY <1>1 DEF Poller, StartCycle, announce, StartGossip, selfHeal, FetchMembers, considerMember, MayLose
  <2> QED BY <2>1, LossFacts DEF Quiet
<1>2. ASSUME NEW n \in Node, Handlers(n) PROVE Quiet
  BY <1>2 DEF Handlers, Write, Quiet
<1>3. ASSUME NEW n \in Node, Stop(n) PROVE Quiet
  BY <1>3, SpendFacts DEF Stop, Quiet
<1>4. ASSUME NEW n \in Node, Start(n) PROVE Quiet
  BY <1>4 DEF Start, Quiet
<1>5. ~Admin
  <2> SUFFICES ASSUME Admin PROVE FALSE
    OBVIOUS
  <2>1. Spend("edits")
    BY DEF Admin, handleCreatePeer, handleUpdatePeer, handleDeletePeer, Submit
  <2>2. used'.edits = used.edits + 1 /\ used.edits \in Nat
    BY <2>1, SpendFacts DEF Base
  <2> QED BY <2>2 DEF Quiet
<1>6. CASE UNCHANGED vars
  BY <1>5, <1>6 DEF vars, Quiet
<1> QED BY <1>1, <1>2, <1>3, <1>4, <1>5, <1>6 DEF Next

LEMMA ClearedInitially == Init => Cleared
BY DEF Init, Cleared, Clearing, Idle

LEMMA ClearedInductive == Typed /\ Sound /\ Base /\ Cleared /\ [Next]_vars => Cleared'
<1> SUFFICES ASSUME Typed, Sound, Base, Cleared, [Next]_vars, Quiet',
                    NEW n \in Node, ClusterSecret[n] # 0
             PROVE  Clearing(n)'
  BY DEF Cleared
<1>1. Quiet /\ ~Admin
  BY QuietBefore
<1>2. Clearing(n)
  BY <1>1 DEF Cleared
<1>3. CASE UNCHANGED vars
  BY <1>2, <1>3 DEF vars, Clearing, OwnRows
<1>4. ASSUME Counting, NEW m \in Node, Poller(m) PROVE Clearing(n)'
  <2>1. CASE m = n
    BY <1>2, <1>4, <2>1, StartClears, GossipClears, HealClears, LateStagesClear, AnnounceClears DEF Poller
  <2>2. CASE m # n
    <3>1. cyc'[n] = cyc[n]
      <4>1. PICK c : cyc' = [cyc EXCEPT ![m] = c]
        BY <1>4, SomeCycle
      <4> QED BY <2>2, <4>1 DEF Typed, TypeOK
    <3>2. fallback'[n] = fallback[n]
      BY <1>4, <2>2 DEF Poller, StartCycle, announce, StartGossip, selfHeal, FetchMembers, considerMember, Typed, TypeOK
    <3>3. table'[n] = table[n]
      BY <1>4, <2>2, OnlyOwnTable
    <3> QED BY <1>2, <1>4, <3>1, <3>2, <3>3, StaysCleared DEF OwnRows
  <2> QED BY <2>1, <2>2
<1>5. ASSUME Counting, NEW m \in Node, Handlers(m) PROVE Clearing(n)'
  BY <1>1, <1>2, <1>5, WriteClears DEF Handlers
<1>6. ASSUME Counting, NEW m \in Node, Stop(m) PROVE Clearing(n)'
  <2>1. /\ up' # up /\ UNCHANGED table
        /\ cyc' = [cyc EXCEPT ![m] = Idle] /\ fallback' = [fallback EXCEPT ![m] = 0]
    BY <1>6 DEF Stop
  <2>2. Disturbed
    BY <2>1 DEF Disturbed
  <2>3. CASE m = n
    <3>1. cyc'[n].stage = "idle" /\ rounds'[n] <= 0 /\ rounds'[n] \in Int
      BY <1>6, <2>1, <2>2, <2>3, RoundFacts DEF Typed, TypeOK, Idle
    <3> QED BY <3>1 DEF Clearing
  <2>4. CASE m # n
    <3>1. cyc'[n] = cyc[n] /\ fallback'[n] = fallback[n]
      BY <2>1, <2>4 DEF Typed, TypeOK
    <3> QED BY <1>2, <1>6, <2>2, <3>1, StaysCleared
  <2> QED BY <2>3, <2>4
<1>7. ASSUME Counting, NEW m \in Node, Start(m) PROVE Clearing(n)'
  <2>1. UNCHANGED <<table, fallback, cyc>>
    BY <1>7 DEF Start
  <2> QED BY <1>2, <1>7, <2>1, StaysCleared DEF OwnRows
<1> QED BY <1>1, <1>3, <1>4, <1>5, <1>6, <1>7 DEF Next

---------------------------------------------------------------------------
(* One cluster: its secret, the node in its middle, and what a name means. *)
Fits(s, hub, who) == (\A n \in Node : who[n] = n) /\ \A t \in Tables0 : Star(t, s, hub, who)
Key == CHOOSE s \in Secret : \E hub \in Node, who \in [ToSet(Names) -> Node] : Fits(s, hub, who)
Hub == CHOOSE hub \in Node : \E who \in [ToSet(Names) -> Node] : Fits(Key, hub, who)
Who == CHOOSE who \in [ToSet(Names) -> Node] : Fits(Key, Hub, who)

LEMMA ClusterFacts ==
  ASSUME OneCluster
  PROVE  /\ Key \in Secret /\ Key # 0 /\ Hub \in Node
         /\ \A n \in Node : Who[n] = n
         /\ \A t \in Tables0 : Star(t, Key, Hub, Who)
<1>1. \E s \in Secret : \E hub \in Node, who \in [ToSet(Names) -> Node] : Fits(s, hub, who)
  BY DEF OneCluster, Fits
<1>2. Key \in Secret /\ \E hub \in Node, who \in [ToSet(Names) -> Node] : Fits(Key, hub, who)
  BY <1>1 DEF Key
<1>3. \E hub \in Node : \E who \in [ToSet(Names) -> Node] : Fits(Key, hub, who)
  BY <1>2
<1>4. Hub \in Node /\ \E who \in [ToSet(Names) -> Node] : Fits(Key, Hub, who)
  BY <1>3 DEF Hub
<1>5. Fits(Key, Hub, Who)
  BY <1>4 DEF Who
<1>6. Key # 0
  BY <1>2, MembershipAssumption
<1> QED BY <1>2, <1>4, <1>5, <1>6 DEF Fits

(* A row, a listed row and a table of the cluster; and a table as it was   *)
(* at the start, but for what the node has learned since.                  *)
FitRow(p) == p.secret \in {0, Key} /\ p.enabled /\ Owner[p.url] = Who[p.name]
FitTable(n) == \A x \in DOMAIN table[n] :
  table[n][x].secret \in {0, Key} /\ table[n][x].enabled /\ Owner[table[n][x].url] = Who[x]
HoldsKey(n) == ClusterSecret[n] = Key \/
  (ClusterSecret[n] = 0 /\ \E x \in DOMAIN table[n] : table[n][x].secret = Key)
TablesFit(t0) ==
  /\ \A n \in Node : FitTable(n) /\ HoldsKey(n)
  /\ \A n \in Node : \A m \in Node \ {n} : Lists(t0, n, m) => Knows(n, m)
Grown(n) == \A m \in Node \ {n} : Knows(n, m) => Knows(n, m)'

(* What a step of anybody does to the table of n as long as nobody edits.  *)
Learned(n) == \E name \in Node, url \in Addr :
  Owner[url] = name /\ table'[n] = UpsertPeer(table[n], name, url, 0)
Healed(n) == \E p \in cyc[n].todo :
  cyc[n].stage = "heal" /\ Owner[p.url] = n /\ table'[n] = DeletePeer(table[n], p.name)

LEMMA TableSteps ==
  ASSUME Typed, Sound, Base, Quiet', [Next]_vars, NEW n \in Node
  PROVE  table'[n] = table[n] \/ Learned(n) \/ Healed(n)
<1>1. Quiet /\ ~Admin
  BY QuietBefore
<1>2. ASSUME NEW m \in Node, Handlers(m) PROVE table'[n] = table[n] \/ Learned(n)
  <2>1. PICK w \in writes[m] : Write(m, w)
    BY <1>2 DEF Handlers
  <2>2. w.op = "announce" /\ w.secret = 0 /\ w.name = Owner[w.url] /\ w.name \in Node /\ w.url \in Addr
    BY <1>1 DEF Base, Plain, Sound, WriteSound, Typed, TypeOK, Handler
  <2>3. table' = [table EXCEPT ![m] = UpsertPeer(@, w.name, w.url, 0)]
    BY <2>1, <2>2 DEF Write
  <2>4. CASE m = n
    <3>1. table'[n] = UpsertPeer(table[n], w.name, w.url, 0)
      BY <2>3, <2>4 DEF Typed, TypeOK
    <3> QED BY <2>2, <3>1 DEF Learned
  <2>5. CASE m # n
    BY <2>3, <2>5 DEF Typed, TypeOK
  <2> QED BY <2>4, <2>5
<1>3. ASSUME selfHeal(n) PROVE table'[n] = table[n] \/ Healed(n)
  <2>1. PICK p \in cyc[n].todo :
          LET self == ~Lost /\ n \in probeName(n, p.url) IN
          table' = [table EXCEPT ![n] = IF self THEN DeletePeer(@, p.name) ELSE @]
    BY <1>3 DEF selfHeal, First
  <2>2. cyc[n].stage = "heal"
    BY <1>3 DEF selfHeal, In
  <2>3. CASE n \in probeName(n, p.url)
    <3>1. Owner[p.url] = n
      BY <2>3 DEF probeName
    <3> QED BY <2>1, <2>2, <3>1 DEF Healed, Typed, TypeOK
  <2>4. CASE n \notin probeName(n, p.url)
    BY <2>1, <2>4 DEF Typed, TypeOK
  <2> QED BY <2>3, <2>4
<1>4. ASSUME considerMember(n) PROVE table'[n] = table[n] \/ Learned(n)
  <2>1. PICK m \in cyc[n].found :
          LET new == IF Lost THEN {} ELSE NewMember(n, m, cyc[n].known) IN
            \/ new = {} /\ UNCHANGED table
            \/ \E x \in new : table' = [table EXCEPT ![n] = UpsertPeer(@, x, m.url, 0)]
    BY <1>4 DEF considerMember, FirstMember
  <2>2. m.url \in Addr
    BY DEF Typed, TypeOK, Cycle, Member
  <2>3. ASSUME NEW x \in NewMember(n, m, cyc[n].known),
               table' = [table EXCEPT ![n] = UpsertPeer(@, x, m.url, 0)]
        PROVE  Learned(n)
    <3>1. x = Owner[m.url] /\ x \in Node
      BY <2>2, <2>3, MembershipAssumption DEF NewMember, probeName
    <3>2. table'[n] = UpsertPeer(table[n], x, m.url, 0)
      BY <2>3 DEF Typed, TypeOK
    <3> QED BY <2>2, <3>1, <3>2 DEF Learned
  <2> QED BY <2>1, <2>3
<1>5. ASSUME NEW m \in Node, Poller(m) PROVE table'[n] = table[n] \/ Learned(n) \/ Healed(n)
  <2>1. CASE m # n
    BY <1>5, <2>1, OnlyOwnTable
  <2>2. CASE StartCycle(m) \/ announce(m) \/ StartGossip(m) \/ FetchMembers(m)
    BY <2>2 DEF StartCycle, announce, StartGossip, FetchMembers
  <2> QED BY <1>3, <1>4, <1>5, <2>1, <2>2 DEF Poller
<1>6. ASSUME NEW m \in Node, Stop(m) \/ Start(m) PROVE table'[n] = table[n]
  BY <1>6 DEF Stop, Start
<1>7. CASE UNCHANGED vars
  BY <1>7 DEF vars
<1> QED BY <1>1, <1>2, <1>5, <1>6, <1>7 DEF Next

(* Whatever that is: the table stays one of the cluster, and who was known *)
(* still is.                                                               *)
LEMMA FitStays ==
  ASSUME OneCluster, Typed, Sound, Base, Quiet, NEW n \in Node, FitTable(n), HoldsKey(n),
         \A p \in cyc[n].todo : FitRow(p),
         table'[n] = table[n] \/ Learned(n) \/ Healed(n)
  PROVE  FitTable(n)' /\ HoldsKey(n)' /\ Grown(n)
<1>1. CASE table'[n] = table[n]
  BY <1>1 DEF FitTable, HoldsKey, Grown, Knows, Lists
<1>2. CASE Learned(n)
  <2>1. PICK name \in Node, url \in Addr :
          Owner[url] = name /\ table'[n] = UpsertPeer(table[n], name, url, 0)
    BY <1>2 DEF Learned
  <2> DEFINE u == UpsertPeer(table[n], name, url, 0)
  <2>2. /\ DOMAIN u = DOMAIN table[n] \cup {name}
        /\ \A x \in DOMAIN table[n] : x # name => u[x] = table[n][x]
        /\ u[name].url = url
        /\ u[name].secret = IF name \in DOMAIN table[n] THEN table[n][name].secret ELSE 0
        /\ u[name].enabled = (name \in DOMAIN table[n] => table[n][name].enabled)
    BY DEF UpsertPeer
  <2>3. table'[n] = u
    BY <2>1
  <2> HIDE DEF u
  <2>4. Who[name] = name
    BY ClusterFacts
  <2>5. FitTable(n)'
    <3> SUFFICES ASSUME NEW x \in DOMAIN u
                 PROVE  u[x].secret \in {0, Key} /\ u[x].enabled /\ Owner[u[x].url] = Who[x]
      BY <2>3 DEF FitTable
    <3>1. CASE x = name
      BY <2>1, <2>2, <2>4, <3>1 DEF FitTable
    <3>2. CASE x # name
      BY <2>2, <3>2 DEF FitTable
    <3> QED BY <3>1, <3>2
  <2>6. \A x \in DOMAIN table[n] : x \in DOMAIN u /\ u[x].secret = table[n][x].secret
    BY <2>2
  <2>7. HoldsKey(n)'
    BY <2>3, <2>6 DEF HoldsKey
  <2>8. Grown(n)
    BY <2>3, <2>5, <2>6 DEF Grown, Knows, Lists, FitTable
  <2> QED BY <2>5, <2>7, <2>8
<1>3. CASE Healed(n)
  <2>1. PICK p \in cyc[n].todo :
          cyc[n].stage = "heal" /\ Owner[p.url] = n /\ table'[n] = DeletePeer(table[n], p.name)
    BY <1>3 DEF Healed
  <2>2. Who[p.name] = n
    BY <2>1 DEF FitRow
  <2>3. p.name \in DOMAIN table[n] => table[n][p.name].secret = 0
    BY <2>1 DEF Base, Plain, Sound, SuspectsSound
  <2>4. /\ DOMAIN table'[n] = DOMAIN table[n] \ {p.name}
        /\ \A x \in DOMAIN table'[n] : table'[n][x] = table[n][x]
    BY <2>1 DEF DeletePeer
  <2>5. FitTable(n)'
    BY <2>4 DEF FitTable
  <2>6. HoldsKey(n)'
    BY <2>3, <2>4, ClusterFacts DEF HoldsKey
  <2>7. Grown(n)
    BY <2>2, <2>4 DEF Grown, Knows, Lists, FitTable
  <2> QED BY <2>5, <2>6, <2>7
<1> QED BY <1>1, <1>2, <1>3

(* A cycle that works with rows of the cluster, its secret at hand.        *)
CycleFit(n) ==
  /\ cyc[n].stage # "idle" => fallback[n] = Key
  /\ \A p \in cyc[n].todo \cup cyc[n].known : FitRow(p)
  /\ \A k \in cyc[n].known : Owner[k.url] # n => Knows(n, Owner[k.url])
  /\ \A c \in cyc[n].found : Owner[c.url] = Who[c.name]
(* Whom the table of b named at the start has been told of b by its first  *)
(* undisturbed cycle, or is going to be.                                   *)
Pending(a, b) == \E w \in writes[a] : w.name = b /\ ~w.late
Told(b, t0) ==
  up = Node /\ rounds[b] >= 0 /\ Advertise[b] # NoAddr =>
    \A a \in Node \ {b} : Lists(t0, b, a) =>
      /\ cyc[b].stage = "announce" =>
           Knows(a, b) \/ Pending(a, b) \/ \E p \in cyc[b].todo : Owner[p.url] = a
      /\ cyc[b].stage \in {"heal", "gossip"} \/ rounds[b] >= 1 => Knows(a, b)
(* So the node in the middle and the others know each other when a later   *)
(* cycle begins, and by its end whoever runs it has fetched all others     *)
(* from the node in the middle, or is going to.                            *)
Linked == \A a \in Node \ {Hub} : Knows(a, Hub) /\ Knows(Hub, a)
Complete(n) == \A m \in Node \ {n} : Knows(n, m)
HubListed(n) == \E k \in cyc[n].known : Owner[k.url] = Hub
HubFetched(n) ==
  \/ \E p \in cyc[n].todo : Owner[p.url] = Hub
  \/ \A m \in Node \ {n} : Knows(n, m) \/ \E c \in cyc[n].found : Owner[c.url] = m
Fetched(n) ==
  up = Node /\ rounds[n] >= MaxLead + 1 =>
    /\ cyc[n].stage # "idle" \/ rounds[n] >= MaxLead + 2 => Linked
    /\ n # Hub /\ cyc[n].stage = "heal" => HubListed(n)
    /\ n # Hub /\ cyc[n].stage = "gossip" => HubFetched(n)
    /\ rounds[n] >= MaxLead + 2 => Complete(n)
NodeFit(n, t0) == CycleFit(n) /\ Told(n, t0) /\ Fetched(n)

(* What every step gives the nodes it is not about.                        *)
StepFit ==
  /\ \A n \in Node : Grown(n)
  /\ \A a, b \in Node : a # b /\ Pending(a, b) => Pending(a, b)' \/ Knows(a, b)' \/ Disturbed

LEMMA GrownAll ==
  ASSUME OneCluster, \A n \in Node : Grown(n)
  PROVE  /\ \A n \in Node : \A m \in Node \ {n} : Knows(n, m) => Knows(n, m)'
         /\ Linked => Linked' /\ \A n \in Node : Complete(n) => Complete(n)'
<1>1. \A n \in Node : \A m \in Node \ {n} : Knows(n, m) => Knows(n, m)'
  BY DEF Grown
<1> QED BY <1>1, ClusterFacts DEF Linked, Complete

LEMMA PendingStays ==
  ASSUME Typed, Sound, Base, Quiet', [Next]_vars,
         NEW a \in Node, NEW b \in Node, a # b, Pending(a, b)
  PROVE  Pending(a, b)' \/ Knows(a, b)' \/ Disturbed
<1>1. Quiet /\ ~Admin
  BY QuietBefore
<1>2. ASSUME writes[a] \subseteq writes'[a] PROVE Pending(a, b)'
  BY <1>2 DEF Pending
<1>3. ASSUME NEW n \in Node, Poller(n) PROVE writes[a] \subseteq writes'[a]
  <2>1. CASE announce(n)
    <3>1. PICK p : UNCHANGED writes \/ handlePeerAnnounce(Owner[p.url], n, Advertise[n], Lost)
      BY <2>1 DEF announce
    <3> QED BY <3>1 DEF handlePeerAnnounce, Typed, TypeOK
  <2>2. CASE ~announce(n)
    BY <1>3, <2>2 DEF Poller, StartCycle, StartGossip, selfHeal, FetchMembers, considerMember
  <2> QED BY <2>1, <2>2
<1>4. ASSUME NEW n \in Node, Handlers(n) PROVE Pending(a, b)' \/ Knows(a, b)'
  <2>1. PICK w \in writes[n] : Write(n, w)
    BY <1>4 DEF Handlers
  <2>2. w.op = "announce" /\ w.secret = 0 /\ w.name = Owner[w.url]
    BY <1>1 DEF Base, Plain, Sound, WriteSound
  <2>3. table' = [table EXCEPT ![n] = UpsertPeer(@, w.name, w.url, 0)]
    BY <2>1, <2>2 DEF Write
  <2>4. writes' = [writes EXCEPT ![n] = (@ \ {w}) \cup {}]
    BY <2>1, <2>2 DEF Write
  <2>5. PICK v \in writes[a] : v.name = b /\ ~v.late
    BY DEF Pending
  <2>6. CASE n = a /\ v = w
    <3> DEFINE u == UpsertPeer(table[a], b, w.url, 0)
    <3>1. table'[a] = u
      BY <2>3, <2>5, <2>6 DEF Typed, TypeOK
    <3>2. b \in DOMAIN u /\ u[b].url = w.url
      BY DEF UpsertPeer
    <3> HIDE DEF u
    <3> QED BY <2>2, <2>5, <2>6, <3>1, <3>2 DEF Knows, Lists
  <2>7. CASE ~(n = a /\ v = w)
    <3>1. v \in writes'[a]
      BY <2>4, <2>7 DEF Typed, TypeOK
    <3> QED BY <2>5, <3>1 DEF Pending
  <2> QED BY <2>6, <2>7
<1>5. ASSUME NEW n \in Node, Stop(n) PROVE Disturbed
  BY <1>5 DEF Stop, Disturbed
<1>6. ASSUME NEW n \in Node, Start(n) PROVE writes[a] \subseteq writes'[a]
  BY <1>6 DEF Start
<1>7. CASE UNCHANGED vars
  BY <1>2, <1>7 DEF vars
<1> QED BY <1>1, <1>2, <1>3, <1>4, <1>5, <1>6, <1>7 DEF Next

(* A node whose cycle a step leaves alone stays as it is.                  *)
LEMMA OthersFit ==
  ASSUME OneCluster, Typed, Counting, StepFit, NEW n \in Node, NEW t0, NodeFit(n, t0),
         cyc'[n] = cyc[n], fallback'[n] = fallback[n]
  PROVE  NodeFit(n, t0)'
<1>1. /\ rounds[n] \in Int /\ rounds'[n] \in Int
      /\ Disturbed => rounds'[n] <= 0 /\ (cyc[n].stage # "idle" => rounds'[n] < 0)
      /\ ~Disturbed => rounds'[n] = rounds[n]
  BY RoundFacts
<1>2. /\ \A i \in Node : \A m \in Node \ {i} : Knows(i, m) => Knows(i, m)'
      /\ Linked => Linked' /\ (Complete(n) => Complete(n)')
  BY GrownAll DEF StepFit
<1>3. ~Disturbed => up' = up
  BY DEF Disturbed
<1>4. CycleFit(n)'
  <2>1. \A k \in cyc[n].known : Owner[k.url] \in Node
    BY MembershipAssumption DEF Typed, TypeOK, Cycle, Listed
  <2> QED BY <1>2, <2>1 DEF NodeFit, CycleFit, FitRow
<1>5. Told(n, t0)'
  <2>1. CASE Disturbed
    <3>1. rounds'[n] >= 0 => rounds'[n] = 0 /\ cyc'[n].stage = "idle"
      BY <1>1, <2>1
    <3> QED BY <3>1 DEF Told
  <2>2. CASE ~Disturbed
    <3> SUFFICES ASSUME up = Node, rounds[n] >= 0, Advertise[n] # NoAddr,
                        NEW a \in Node \ {n}, Lists(t0, n, a)
                 PROVE  /\ cyc'[n].stage = "announce" =>
                             Knows(a, n)' \/ Pending(a, n)' \/ \E p \in cyc'[n].todo : Owner[p.url] = a
                        /\ cyc'[n].stage \in {"heal", "gossip"} \/ rounds'[n] >= 1 => Knows(a, n)'
      BY <1>1, <1>3, <2>2 DEF Told
    <3>1. /\ cyc[n].stage = "announce" =>
               Knows(a, n) \/ Pending(a, n) \/ \E p \in cyc[n].todo : Owner[p.url] = a
          /\ cyc[n].stage \in {"heal", "gossip"} \/ rounds[n] >= 1 => Knows(a, n)
      BY DEF NodeFit, Told
    <3>2. Knows(a, n) => Knows(a, n)'
      BY <1>2
    <3>3. Pending(a, n) => Pending(a, n)' \/ Knows(a, n)'
      BY <2>2 DEF StepFit
    <3> QED BY <1>1, <2>2, <3>1, <3>2, <3>3
  <2> QED BY <2>1, <2>2
<1>6. Fetched(n)'
  <2>0. MaxLead \in Nat
    BY MembershipAssumption
  <2>1. CASE Disturbed
    <3>1. ~(rounds'[n] >= MaxLead + 1)
      BY <1>1, <2>0, <2>1
    <3> QED BY <3>1 DEF Fetched
  <2>2. CASE ~Disturbed
    <3>1. rounds'[n] = rounds[n] /\ up' = up
      BY <1>1, <1>3, <2>2
    <3>2. HubListed(n) => HubListed(n)'
      BY DEF HubListed
    <3>3. HubFetched(n) => HubFetched(n)'
      BY <1>2 DEF HubFetched
    <3> QED BY <1>2, <3>1, <3>2, <3>3 DEF NodeFit, Fetched
  <2> QED BY <2>1, <2>2
<1> QED BY <1>4, <1>5, <1>6 DEF NodeFit

LEMMA CommonKey ==
  ASSUME OneCluster, NEW n \in Node, FitTable(n), \E x \in DOMAIN table[n] : table[n][x].secret = Key
  PROVE  CommonSecret(table[n]) = Key
<1> DEFINE t == table[n]
           uses(s) == Cardinality({x \in DOMAIN t : t[x].secret = s})
           held == {t[x].secret : x \in DOMAIN t} \ {0}
           best(s) == \A r \in held : uses(r) < uses(s) \/ (uses(r) = uses(s) /\ s <= r)
<1>0. Key \in Nat /\ Key # 0
  BY ClusterFacts, MembershipAssumption
<1>1. held = {Key} /\ Key \in Nat
  <2>1. \A x \in DOMAIN t : t[x].secret \in {0, Key}
    BY DEF FitTable
  <2>2. PICK x \in DOMAIN t : t[x].secret = Key
    OBVIOUS
  <2> QED BY <1>0, <2>1, <2>2
<1>2. CommonSecret(t) = CHOOSE s \in held : best(s)
  BY <1>1 DEF CommonSecret
<1>3. best(Key)
  <2> HIDE DEF uses, held
  <2> QED BY <1>1
<1> HIDE DEF best, held
<1>4. \E s \in held : best(s)
  BY <1>1, <1>3
<1> QED BY <1>1, <1>2, <1>4

(* Rows of a table of the cluster, as they are listed.                     *)
LEMMA ListsFit ==
  ASSUME NEW n \in Node, FitTable(n)
  PROVE  /\ \A p \in ListPeers(table[n]) : FitRow(p) /\ p.enabled /\ Knows(n, Owner[p.url])
         /\ \A m : Knows(n, m) => \E p \in Enabled(ListPeers(table[n])) : Owner[p.url] = m
<1> DEFINE row(x) == [name |-> x, url |-> table[n][x].url, secret |-> table[n][x].secret,
                      enabled |-> table[n][x].enabled]
<1>1. \A x : row(x).name = x /\ row(x).url = table[n][x].url /\ row(x).secret = table[n][x].secret
             /\ row(x).enabled = table[n][x].enabled
  OBVIOUS
<1>2. ListPeers(table[n]) = {row(x) : x \in DOMAIN table[n]}
  BY DEF ListPeers
<1> HIDE DEF row
<1>3. ASSUME NEW p \in ListPeers(table[n]) PROVE FitRow(p) /\ p.enabled /\ Knows(n, Owner[p.url])
  BY <1>1, <1>2 DEF FitTable, FitRow, Knows, Lists
<1>4. ASSUME NEW m, Knows(n, m) PROVE \E p \in Enabled(ListPeers(table[n])) : Owner[p.url] = m
  <2>1. PICK x \in DOMAIN table[n] : Owner[table[n][x].url] = m
    BY <1>4 DEF Knows, Lists
  <2>2. row(x) \in ListPeers(table[n]) /\ row(x).enabled
    BY <1>1, <1>2 DEF FitTable
  <2> QED BY <1>1, <2>1, <2>2 DEF Enabled
<1> QED BY <1>3, <1>4

(* When everybody has run an undisturbed cycle, the node in the middle and *)
(* the others know each other.                                             *)
LEMMA LinksMade ==
  ASSUME OneCluster, NEW t0 \in Tables0, TablesFit(t0), up = Node,
         \A m \in Node : Told(m, t0) /\ rounds[m] >= 1 /\ rounds[m] \in Int
  PROVE  Linked
<1>1. Hub \in Node /\ Star(t0, Key, Hub, Who)
  BY ClusterFacts
<1>2. ASSUME NEW a \in Node, NEW b \in Node, a # b, Learns(t0, a, b) PROVE Knows(a, b)
  <2>1. CASE Lists(t0, a, b)
    BY <1>2, <2>1 DEF TablesFit
  <2>2. CASE Lists(t0, b, a) /\ Advertise[b] # NoAddr
    <3>1. Told(b, t0) /\ rounds[b] >= 0 /\ rounds[b] >= 1
      OBVIOUS
    <3> QED BY <1>2, <2>2, <3>1 DEF Told
  <2> QED BY <1>2, <2>1, <2>2 DEF Learns
<1>3. \A a \in Node \ {Hub} : Learns(t0, a, Hub) /\ Learns(t0, Hub, a)
  BY <1>1 DEF Star
<1> QED BY <1>1, <1>2, <1>3 DEF Linked

LEMMA StartFits ==
  ASSUME OneCluster, Typed, Counting, StepFit, NEW t0 \in Tables0, TablesFit(t0),
         \A m \in Node : NodeFit(m, t0), NEW n \in Node, StartCycle(n)
  PROVE  NodeFit(n, t0)'
<1> DEFINE rows == IF Advertise[n] = NoAddr THEN {} ELSE Enabled(ListPeers(table[n]))
           c == [stage |-> "announce", todo |-> rows, known |-> {}, found |-> {}]
<1>1. /\ cyc' = [cyc EXCEPT ![n] = c] /\ cyc[n].stage = "idle"
      /\ fallback' = [fallback EXCEPT ![n] = IF ClusterSecret[n] # 0 THEN ClusterSecret[n]
                                             ELSE CommonSecret(table[n])]
      /\ \A m \in up : rounds[n] <= rounds[m] + MaxLead
      /\ UNCHANGED <<up, table, writes, used>>
  BY DEF StartCycle, In
<1>2. c.stage = "announce" /\ c.todo = rows /\ c.known = {} /\ c.found = {}
  OBVIOUS
<1>3. FitTable(n) /\ HoldsKey(n)
  BY DEF TablesFit
<1>4. /\ \A p \in rows : FitRow(p)
      /\ Advertise[n] # NoAddr => \A m : Knows(n, m) => \E p \in rows : Owner[p.url] = m
  BY <1>3, ListsFit DEF Enabled
<1> HIDE DEF c, rows
<1>5. cyc'[n] = c
  BY <1>1 DEF Typed, TypeOK
<1>6. fallback'[n] = Key
  <2>1. (IF ClusterSecret[n] # 0 THEN ClusterSecret[n] ELSE CommonSecret(table[n])) = Key
    BY <1>3, CommonKey, ClusterFacts DEF HoldsKey
  <2> QED BY <1>1, <2>1 DEF Typed, TypeOK
<1>7. ~Disturbed
  BY <1>1 DEF Disturbed
<1>8. rounds'[n] = rounds[n] /\ \A m \in Node : rounds[m] \in Int
  BY <1>1, <1>7, RoundFacts DEF Typed, TypeOK
<1>9. /\ \A i \in Node : \A m \in Node \ {i} : Knows(i, m) => Knows(i, m)'
      /\ Linked => Linked' /\ (Complete(n) => Complete(n)')
  BY GrownAll DEF StepFit
<1>10. CycleFit(n)'
  BY <1>2, <1>4, <1>5, <1>6 DEF CycleFit, FitRow
<1>11. Told(n, t0)'
  <2> SUFFICES ASSUME up = Node, rounds[n] >= 0, Advertise[n] # NoAddr,
                      NEW a \in Node \ {n}, Lists(t0, n, a)
               PROVE  (\E p \in cyc'[n].todo : Owner[p.url] = a) /\ (rounds[n] >= 1 => Knows(a, n)')
    BY <1>1, <1>2, <1>5, <1>8 DEF Told
  <2>1. Knows(n, a)
    BY DEF TablesFit
  <2>2. rounds[n] >= 1 => Knows(a, n)
    BY DEF NodeFit, Told
  <2> QED BY <1>2, <1>4, <1>5, <1>9, <2>1, <2>2
<1>12. Fetched(n)'
  <2> SUFFICES ASSUME up = Node, rounds[n] >= MaxLead + 1
               PROVE  Linked' /\ (rounds[n] >= MaxLead + 2 => Complete(n)')
    BY <1>1, <1>2, <1>5, <1>8 DEF Fetched
  <2>0. MaxLead \in Nat
    BY MembershipAssumption
  <2>1. ASSUME NEW m \in Node PROVE rounds[m] >= 1
    BY <1>1, <1>8, <2>0
  <2>2. Linked
    BY <1>8, <2>1, LinksMade DEF NodeFit
  <2>3. rounds[n] >= MaxLead + 2 => Complete(n)
    BY DEF NodeFit, Fetched
  <2> QED BY <1>9, <2>2, <2>3
<1> QED BY <1>10, <1>11, <1>12 DEF NodeFit

(* Whoever is called by a node of the cluster answers.                     *)
LEMMA CallsAnswered ==
  ASSUME OneCluster, up = Node, NEW m \in Node, HoldsKey(m), NEW url, Owner[url] = m
  PROVE  Answers(url, Key)
BY ClusterFacts DEF Answers, requireSecret, validSecret, HoldsKey

LEMMA AnnounceFits ==
  ASSUME OneCluster, Typed, Base, Quiet, Counting, StepFit, NEW t0 \in Tables0, TablesFit(t0),
         NEW n \in Node, NodeFit(n, t0), announce(n)
  PROVE  NodeFit(n, t0)'
<1>1. PICK p \in cyc[n].todo :
        /\ \/ handlePeerAnnounce(Owner[p.url], n, Advertise[n], Lost)
           \/ (Lost \/ ~Answers(p.url, effectiveSecret(n, p))) /\ UNCHANGED writes
        /\ cyc' = [cyc EXCEPT ![n].todo = @ \ {p}]
  BY DEF announce, First
<1>2. cyc[n] \in Cycle /\ cyc[n].stage = "announce" /\ MayLose /\ UNCHANGED <<up, table, fallback>>
  BY DEF announce, In, Typed, TypeOK
<1> DEFINE c == [cyc[n] EXCEPT !.todo = @ \ {p}]
<1>3. /\ c.stage = "announce" /\ c.todo = cyc[n].todo \ {p}
      /\ c.known = cyc[n].known /\ c.found = cyc[n].found
  BY <1>2 DEF Cycle
<1>4. cyc' = [cyc EXCEPT ![n] = c]
  BY <1>1 DEF Typed, TypeOK
<1> HIDE DEF c
<1>5. cyc'[n] = c
  BY <1>4 DEF Typed, TypeOK
<1>6. /\ rounds[n] \in Int /\ rounds'[n] \in Int
      /\ Disturbed => rounds'[n] < 0
      /\ ~Disturbed => rounds'[n] = rounds[n]
  BY <1>2, <1>3, <1>5, RoundFacts
<1>7. /\ \A i \in Node : \A m \in Node \ {i} : Knows(i, m) => Knows(i, m)'
      /\ Linked => Linked' /\ (Complete(n) => Complete(n)')
  BY GrownAll DEF StepFit
<1>8. \A q \in cyc[n].todo \cup cyc[n].known : q.url \in Addr /\ Owner[q.url] \in Node
  BY <1>2, MembershipAssumption DEF Cycle, Listed
<1>9. CycleFit(n)'
  BY <1>2, <1>3, <1>5, <1>7, <1>8 DEF NodeFit, CycleFit, FitRow
<1>10. Told(n, t0)'
  <2>1. CASE Disturbed
    <3>1. ~(rounds'[n] >= 0)
      BY <1>6, <2>1
    <3> QED BY <3>1 DEF Told
  <2>2. CASE ~Disturbed
    <3>0. ~Lost
      BY <1>2, <2>2, LossFacts
    <3> SUFFICES ASSUME up = Node, rounds[n] >= 0, Advertise[n] # NoAddr,
                        NEW a \in Node \ {n}, Lists(t0, n, a)
                 PROVE  /\ Knows(a, n)' \/ Pending(a, n)' \/ \E q \in cyc'[n].todo : Owner[q.url] = a
                        /\ rounds[n] >= 1 => Knows(a, n)'
      BY <1>2, <1>3, <1>5, <1>6, <2>2 DEF Told
    <3>1. /\ Knows(a, n) \/ Pending(a, n) \/ \E q \in cyc[n].todo : Owner[q.url] = a
          /\ rounds[n] >= 1 => Knows(a, n)
      BY <1>2 DEF NodeFit, Told
    <3>2. Knows(a, n) => Knows(a, n)'
      BY <1>7
    <3>3. Pending(a, n) => Pending(a, n)' \/ Knows(a, n)'
      BY <2>2 DEF StepFit
    <3>4. CASE Owner[p.url] = a
      <4>1. p.secret \in {0, Key} /\ fallback[n] = Key
        BY <1>2 DEF NodeFit, CycleFit, FitRow
      <4>2. effectiveSecret(n, p) = Key
        BY <4>1, ClusterFacts DEF effectiveSecret
      <4>3. HoldsKey(a)
        BY DEF TablesFit
      <4>4. Answers(p.url, effectiveSecret(n, p))
        BY <3>4, <4>2, <4>3, CallsAnswered
      <4> DEFINE w == [op |-> "announce", name |-> n, url |-> Advertise[n], secret |-> 0,
                       muted |-> FALSE, late |-> Lost]
      <4>5. writes' = [writes EXCEPT ![a] =
              IF GetPeer(table[a], n) \/ ~peerAtSameAddr(a, Advertise[n]) THEN @ \cup {w} ELSE @]
        BY <1>1, <3>0, <3>4, <4>4 DEF handlePeerAnnounce
      <4>6. w.name = n /\ ~w.late
        BY <3>0
      <4> HIDE DEF w
      <4>7. CASE GetPeer(table[a], n) \/ ~peerAtSameAddr(a, Advertise[n])
        <5>1. w \in writes'[a]
          BY <4>5, <4>7 DEF Typed, TypeOK
        <5>2. Pending(a, n)'
          BY <4>6, <5>1 DEF Pending
        <5> QED BY <3>1, <3>2, <5>2
      <4>8. CASE peerAtSameAddr(a, Advertise[n])
        <5>1. Owner[Advertise[n]] = n
          BY MembershipAssumption
        <5>2. Knows(a, n)
          BY <4>8, <5>1 DEF peerAtSameAddr, Knows, Lists
        <5> QED BY <3>1, <3>2, <5>2
      <4> QED BY <4>7, <4>8
    <3>5. CASE Owner[p.url] # a
      BY <1>3, <1>5, <3>1, <3>2, <3>3, <3>5
    <3> QED BY <3>4, <3>5
  <2> QED BY <2>1, <2>2
<1>11. Fetched(n)'
  <2>0. MaxLead \in Nat
    BY MembershipAssumption
  <2>1. CASE Disturbed
    <3>1. ~(rounds'[n] >= MaxLead + 1)
      BY <1>6, <2>0, <2>1
    <3> QED BY <3>1 DEF Fetched
  <2>2. CASE ~Disturbed
    <3>1. rounds'[n] = rounds[n] /\ up' = up /\ cyc'[n].stage = "announce"
      BY <1>2, <1>3, <1>5, <1>6, <2>2
    <3> QED BY <1>2, <1>7, <3>1 DEF NodeFit, Fetched
  <2> QED BY <2>1, <2>2
<1> QED BY <1>9, <1>10, <1>11 DEF NodeFit

(* What the poller goes on with fits when the loop it leaves does.         *)
LEMMA OnwardFits ==
  ASSUME OneCluster, Typed, Counting, NEW n \in Node, NEW t0, NEW c \in Cycle,
         c.stage \in {"heal", "gossip"}, cyc[n].stage # "idle", cyc'[n] = Onward(c), fallback'[n] = Key,
         \A p \in c.todo \cup c.known : FitRow(p),
         \A k \in c.known : Owner[k.url] # n => Knows(n, Owner[k.url])',
         \A f \in c.found : Owner[f.url] = Who[f.name],
         ~Disturbed /\ up = Node /\ rounds[n] >= 0 /\ Advertise[n] # NoAddr =>
           \A a \in Node \ {n} : Lists(t0, n, a) => Knows(a, n)',
         ~Disturbed /\ up = Node /\ rounds[n] >= MaxLead + 1 =>
           /\ Linked'
           /\ n # Hub /\ c.stage = "heal" => \E k \in c.known : Owner[k.url] = Hub
           /\ n # Hub /\ c.stage = "gossip" =>
                \/ \E p \in c.todo : Owner[p.url] = Hub
                \/ \A m \in Node \ {n} : Knows(n, m)' \/ \E f \in c.found : Owner[f.url] = m
           /\ rounds[n] >= MaxLead + 2 => Complete(n)'
  PROVE  NodeFit(n, t0)'
<1>1. /\ rounds[n] \in Int /\ rounds'[n] \in Int
      /\ Disturbed => rounds'[n] <= 0 /\ (cyc'[n].stage # "idle" => rounds'[n] < 0)
      /\ ~Disturbed /\ cyc'[n].stage = "idle" => rounds'[n] = rounds[n] + 1
      /\ ~Disturbed /\ cyc'[n].stage # "idle" => rounds'[n] = rounds[n]
  BY RoundFacts
<1>2. ~Disturbed => up' = up
  BY DEF Disturbed
<1>3. MaxLead \in Nat
  BY MembershipAssumption
<1>4. Enabled(c.known) = c.known
  BY DEF Enabled, FitRow
<1>5. Idle.stage = "idle" /\ Idle.todo = {} /\ Idle.known = {} /\ Idle.found = {}
  BY DEF Idle
<1>6. CASE cyc'[n] = c \/ /\ c.stage = "heal" /\ cyc'[n].stage = "gossip" /\ cyc'[n].todo = c.known
                          /\ cyc'[n].known = c.known /\ cyc'[n].found = {}
  <2>1. /\ cyc'[n].stage \in {"heal", "gossip"}
        /\ cyc'[n].todo \cup cyc'[n].known \subseteq c.todo \cup c.known
        /\ cyc'[n].known = c.known /\ cyc'[n].found \subseteq c.found
    BY <1>6
  <2>2. CycleFit(n)'
    BY <2>1 DEF CycleFit, FitRow
  <2>3. ~Disturbed => rounds'[n] = rounds[n] /\ up' = up
    BY <1>1, <1>2, <2>1
  <2>4. Told(n, t0)'
    <3>1. CASE Disturbed
      <4>1. ~(rounds'[n] >= 0)
        BY <1>1, <2>1, <3>1
      <4> QED BY <4>1 DEF Told
    <3>2. CASE ~Disturbed
      BY <2>1, <2>3, <3>2 DEF Told
    <3> QED BY <3>1, <3>2
  <2>5. Fetched(n)'
    <3>1. CASE Disturbed
      <4>1. ~(rounds'[n] >= MaxLead + 1)
        BY <1>1, <1>3, <3>1
      <4> QED BY <4>1 DEF Fetched
    <3>2. CASE ~Disturbed
      <4> SUFFICES ASSUME up = Node, rounds[n] >= MaxLead + 1
                   PROVE  /\ Linked'
                          /\ n # Hub /\ cyc'[n].stage = "heal" => HubListed(n)'
                          /\ n # Hub /\ cyc'[n].stage = "gossip" => HubFetched(n)'
                          /\ rounds[n] >= MaxLead + 2 => Complete(n)'
        BY <2>3, <3>2 DEF Fetched
      <4>1. n # Hub /\ cyc'[n].stage = "heal" => HubListed(n)'
        BY <1>6, <3>2 DEF HubListed
      <4>2. n # Hub /\ cyc'[n].stage = "gossip" => HubFetched(n)'
        BY <1>6, <3>2 DEF HubFetched
      <4> QED BY <3>2, <4>1, <4>2
    <3> QED BY <3>1, <3>2
  <2> QED BY <2>2, <2>4, <2>5 DEF NodeFit
<1>7. CASE /\ cyc'[n] = Idle /\ c.todo = {}
           /\ (c.stage = "heal" /\ c.known = {}) \/ (c.stage = "gossip" /\ c.found = {})
  <2>1. CycleFit(n)'
    BY <1>5, <1>7 DEF CycleFit
  <2>2. Told(n, t0)'
    <3>1. CASE Disturbed
      <4>1. ~(rounds'[n] >= 1)
        BY <1>1, <3>1
      <4> QED BY <1>5, <1>7, <4>1 DEF Told
    <3>2. CASE ~Disturbed
      <4>1. rounds'[n] >= 1 => rounds[n] >= 0
        BY <1>1, <1>5, <1>7, <3>2
      <4>2. up' = up /\ cyc'[n].stage = "idle"
        BY <1>2, <1>5, <1>7, <3>2
      <4> QED BY <3>2, <4>1, <4>2 DEF Told
    <3> QED BY <3>1, <3>2
  <2>3. Fetched(n)'
    <3>1. CASE Disturbed
      <4>1. ~(rounds'[n] >= MaxLead + 1)
        BY <1>1, <1>3, <3>1
      <4> QED BY <4>1 DEF Fetched
    <3>2. CASE ~Disturbed
      <4>1. rounds'[n] >= MaxLead + 2 => rounds[n] >= MaxLead + 1
        BY <1>1, <1>3, <1>5, <1>7, <3>2
      <4>2. up' = up /\ cyc'[n].stage = "idle"
        BY <1>2, <1>5, <1>7, <3>2
      <4> SUFFICES ASSUME up = Node, rounds[n] >= MaxLead + 1
                   PROVE  Linked' /\ Complete(n)'
        BY <4>1, <4>2 DEF Fetched
      <4>3. Linked'
        BY <3>2
      <4>4. CASE n = Hub
        BY <4>3, <4>4 DEF Linked, Complete
      <4>5. CASE n # Hub
        BY <1>7, <3>2, <4>5 DEF Complete
      <4> QED BY <4>3, <4>4, <4>5
    <3> QED BY <3>1, <3>2
  <2> QED BY <2>1, <2>2, <2>3 DEF NodeFit
<1> QED BY <1>4, <1>6, <1>7, OnwardCases

(* The gossip of a node that is done with its announces.                   *)
LEMMA GossipFits ==
  ASSUME OneCluster, Typed, Base, Quiet, Counting, StepFit, NEW t0 \in Tables0, TablesFit(t0),
         NEW n \in Node, NodeFit(n, t0), StartGossip(n)
  PROVE  NodeFit(n, t0)'
<1> DEFINE rows == ListPeers(table[n])
           c == [stage |-> "heal", todo |-> Suspects(rows), known |-> rows, found |-> {}]
<1>1. /\ cyc' = [cyc EXCEPT ![n] = Onward(c)] /\ cyc[n].stage = "announce" /\ cyc[n].todo = {}
      /\ ~Waits(n) /\ UNCHANGED <<up, table, fallback, writes, used>>
  BY DEF StartGossip, In
<1>2. c.stage = "heal" /\ c.todo = Suspects(rows) /\ c.known = rows /\ c.found = {}
  OBVIOUS
<1>3. rows \subseteq Listed /\ Suspects(rows) \subseteq rows
  BY ListPeersType DEF Suspects, Typed, TypeOK, TableOK
<1>4. /\ \A p \in rows : FitRow(p) /\ p.enabled /\ Knows(n, Owner[p.url])
      /\ \A m : Knows(n, m) => \E p \in rows : Owner[p.url] = m
  BY ListsFit DEF TablesFit, Enabled
<1> HIDE DEF rows
<1>5. c \in Cycle
  BY <1>3 DEF Cycle
<1> HIDE DEF c
<1>6. cyc'[n] = Onward(c)
  BY <1>1 DEF Typed, TypeOK
<1>7. /\ \A i \in Node : \A m \in Node \ {i} : Knows(i, m) => Knows(i, m)'
      /\ Linked => Linked' /\ (Complete(n) => Complete(n)')
  BY GrownAll DEF StepFit
<1>8. \A p \in rows : Owner[p.url] \in Node
  BY <1>3, MembershipAssumption DEF Listed
<1>9. fallback'[n] = Key
  BY <1>1 DEF NodeFit, CycleFit
<1>10. ASSUME up = Node, rounds[n] >= 0, Advertise[n] # NoAddr,
              NEW a \in Node \ {n}, Lists(t0, n, a)
       PROVE  Knows(a, n)'
  <2>1. Knows(a, n) \/ Pending(a, n)
    BY <1>1, <1>10 DEF NodeFit, Told
  <2>2. Pending(a, n) => Waits(n)
    BY DEF Pending, Waits, Base, Plain
  <2> QED BY <1>1, <1>7, <2>1, <2>2
<1>11. ASSUME up = Node, rounds[n] >= MaxLead + 1
       PROVE  /\ Linked' /\ (n # Hub => \E k \in rows : Owner[k.url] = Hub)
              /\ rounds[n] >= MaxLead + 2 => Complete(n)'
  <2>1. Linked /\ (rounds[n] >= MaxLead + 2 => Complete(n))
    BY <1>1, <1>11 DEF NodeFit, Fetched
  <2>2. n # Hub => Knows(n, Hub)
    BY <2>1 DEF Linked
  <2> QED BY <1>4, <1>7, <2>1, <2>2
<1>12. \A p \in c.todo \cup c.known : FitRow(p)
  BY <1>2, <1>3, <1>4
<1>13. \A k \in c.known : Owner[k.url] # n => Knows(n, Owner[k.url])'
  BY <1>2, <1>4, <1>7, <1>8
<1> QED BY <1>1, <1>2, <1>5, <1>6, <1>9, <1>10, <1>11, <1>12, <1>13, OnwardFits

LEMMA HealFits ==
  ASSUME OneCluster, Typed, Base, Counting, StepFit, NEW t0 \in Tables0,
         NEW n \in Node, NodeFit(n, t0), selfHeal(n)
  PROVE  NodeFit(n, t0)'
<1>1. PICK p \in cyc[n].todo :
        LET self == ~Lost /\ n \in probeName(n, p.url) IN
        cyc' = [cyc EXCEPT ![n] =
             Onward([stage |-> "heal", todo |-> @.todo \ {p}, found |-> {},
                     known |-> IF self THEN {k \in @.known : k.name # p.name} ELSE @.known])]
  BY DEF selfHeal, First
<1> DEFINE self == ~Lost /\ n \in probeName(n, p.url)
           left == IF self THEN {k \in cyc[n].known : k.name # p.name} ELSE cyc[n].known
           c == [stage |-> "heal", todo |-> cyc[n].todo \ {p}, found |-> {}, known |-> left]
<1>2. cyc[n] \in Cycle /\ cyc[n].stage = "heal" /\ UNCHANGED <<up, fallback>>
  BY DEF selfHeal, In, Typed, TypeOK
<1>3. left \subseteq cyc[n].known
  OBVIOUS
<1>4. c.stage = "heal" /\ c.todo = cyc[n].todo \ {p} /\ c.known = left /\ c.found = {}
  OBVIOUS
<1>5. c \in Cycle
  BY <1>2, <1>3 DEF Cycle
<1>6. cyc'[n] = Onward(c)
  BY <1>1 DEF Typed, TypeOK
<1>7. /\ CycleFit(n) /\ Told(n, t0) /\ Fetched(n)
  BY DEF NodeFit
<1>8. self => Owner[p.url] = n /\ Who[p.name] = n
  BY <1>7 DEF probeName, CycleFit, FitRow
<1>9. ASSUME NEW k \in cyc[n].known, Owner[k.url] # n PROVE k \in left
  <2>1. k.name # p.name \/ ~self
    BY <1>7, <1>8, <1>9 DEF CycleFit, FitRow
  <2> QED BY <2>1
<1> HIDE DEF c, left, self
<1>10. /\ \A i \in Node : \A m \in Node \ {i} : Knows(i, m) => Knows(i, m)'
       /\ Linked => Linked' /\ (Complete(n) => Complete(n)')
  BY GrownAll DEF StepFit
<1>11. \A k \in cyc[n].known : Owner[k.url] \in Node
  BY <1>2, MembershipAssumption DEF Cycle, Listed
<1>12. fallback'[n] = Key
  BY <1>2, <1>7 DEF CycleFit
<1>13. ASSUME up = Node, rounds[n] >= 0, Advertise[n] # NoAddr,
              NEW a \in Node \ {n}, Lists(t0, n, a)
       PROVE  Knows(a, n)'
  <2>1. Knows(a, n)
    BY <1>2, <1>7, <1>13 DEF Told
  <2> QED BY <1>10, <2>1
<1>14. ASSUME up = Node, rounds[n] >= MaxLead + 1
       PROVE  /\ Linked' /\ (n # Hub => \E k \in left : Owner[k.url] = Hub)
              /\ rounds[n] >= MaxLead + 2 => Complete(n)'
  <2>1. Linked /\ (n # Hub => HubListed(n)) /\ (rounds[n] >= MaxLead + 2 => Complete(n))
    BY <1>2, <1>7, <1>14 DEF Fetched
  <2>2. n # Hub => \E k \in left : Owner[k.url] = Hub
    BY <1>9, <2>1 DEF HubListed
  <2> QED BY <1>10, <2>1, <2>2
<1>15. \A q \in c.todo \cup c.known : FitRow(q)
  BY <1>3, <1>4, <1>7 DEF CycleFit
<1>16. \A k \in c.known : Owner[k.url] # n => Knows(n, Owner[k.url])'
  BY <1>3, <1>4, <1>7, <1>10, <1>11 DEF CycleFit
<1>17. \A f \in c.found : Owner[f.url] = Who[f.name]
  BY <1>4
<1>18. cyc[n].stage # "idle" /\ c.stage \in {"heal", "gossip"}
  BY <1>2, <1>4
<1> HIDE DEF selfHeal
<1> QED BY <1>4, <1>5, <1>6, <1>12, <1>13, <1>14, <1>15, <1>16, <1>17, <1>18, OnwardFits

(* What a node of the cluster answers: members under names that fit, and   *)
(* everybody it knows.                                                     *)
LEMMA MembersFit ==
  ASSUME OneCluster, Typed, NEW h \in Node, FitTable(h)
  PROVE  /\ handlePeerMembers(h) \subseteq Member
         /\ \A f \in handlePeerMembers(h) : Owner[f.url] = Who[f.name]
         /\ \A m : Knows(h, m) => \E f \in handlePeerMembers(h) : Owner[f.url] = m
<1> DEFINE self == {[name |-> h, url |-> u, own |-> TRUE] : u \in {Advertise[h]} \ {NoAddr}}
           polled == {r \in ListPeers(table[h]) : r.enabled}
           as(p) == [name |-> p.name, url |-> p.url, own |-> FALSE]
<1>1. handlePeerMembers(h) = self \cup {as(p) : p \in polled}
  BY DEF handlePeerMembers
<1>2. polled \subseteq Listed
  BY ListPeersType DEF Typed, TypeOK, TableOK
<1>3. /\ \A p \in polled : FitRow(p)
      /\ \A m : Knows(h, m) => \E p \in polled : Owner[p.url] = m
  BY ListsFit DEF Enabled
<1>4. \A p : as(p).name = p.name /\ as(p).url = p.url /\ as(p).own = FALSE
  OBVIOUS
<1>5. ASSUME NEW f \in self PROVE f \in Member /\ Owner[f.url] = Who[f.name]
  <2>1. PICK u \in {Advertise[h]} \ {NoAddr} : f = [name |-> h, url |-> u, own |-> TRUE]
    BY <1>5
  <2>2. u \in Addr /\ Owner[u] = h /\ h \in ToSet(Names)
    BY MembershipAssumption
  <2>3. f.name = h /\ f.url = u /\ f \in Member
    BY <2>1, <2>2 DEF Member
  <2> QED BY <2>2, <2>3, ClusterFacts
<1>6. \A p \in polled : as(p) \in Member
  BY <1>2 DEF Listed, Member
<1> HIDE DEF self, polled, as
<1>7. \A p \in polled : Owner[as(p).url] = Who[as(p).name]
  BY <1>3, <1>4 DEF FitRow
<1>8. ASSUME NEW f \in handlePeerMembers(h) PROVE f \in Member /\ Owner[f.url] = Who[f.name]
  BY <1>1, <1>5, <1>6, <1>7
<1>9. ASSUME NEW m, Knows(h, m) PROVE \E f \in handlePeerMembers(h) : Owner[f.url] = m
  <2>1. PICK p \in polled : Owner[p.url] = m
    BY <1>3, <1>9
  <2>2. as(p) \in handlePeerMembers(h) /\ Owner[as(p).url] = m
    BY <1>1, <1>4, <2>1
  <2> QED BY <2>2
<1> QED BY <1>8, <1>9

(* A member that the list rules out is known already, or is the node.      *)
LEMMA NoNews ==
  ASSUME OneCluster, NEW n \in Node, CycleFit(n), NEW f, f.url \in Addr, Owner[f.url] = Who[f.name],
         NEW m \in Node \ {n}, Owner[f.url] = m, ~Candidate(n, f, cyc[n].known)
  PROVE  Knows(n, m)
<1>1. f.name # n
  BY ClusterFacts
<1>2. f.url # Advertise[n]
  BY MembershipAssumption
<1>3. ASSUME NEW k \in cyc[n].known, k.name = f.name \/ k.url = f.url PROVE Knows(n, m)
  <2>1. Owner[k.url] = m
    BY <1>3 DEF CycleFit, FitRow
  <2> QED BY <2>1 DEF CycleFit
<1> QED BY <1>1, <1>2, <1>3 DEF Candidate

LEMMA FetchFits ==
  ASSUME OneCluster, Typed, Base, Counting, StepFit, NEW t0 \in Tables0, TablesFit(t0),
         NEW n \in Node, NodeFit(n, t0), FetchMembers(n)
  PROVE  NodeFit(n, t0)'
<1>1. PICK p \in cyc[n].todo :
        LET resp == IF ~Lost /\ Answers(p.url, effectiveSecret(n, p))
                    THEN handlePeerMembers(Owner[p.url]) ELSE {} IN
        cyc' = [cyc EXCEPT ![n] =
                 Onward([stage |-> "gossip", todo |-> @.todo \ {p}, known |-> @.known,
                         found |-> {e \in resp : Candidate(n, e, cyc[n].known)}])]
  BY DEF FetchMembers, First
<1> DEFINE resp == IF ~Lost /\ Answers(p.url, effectiveSecret(n, p))
                   THEN handlePeerMembers(Owner[p.url]) ELSE {}
           fnd == {e \in resp : Candidate(n, e, cyc[n].known)}
           c == [stage |-> "gossip", todo |-> cyc[n].todo \ {p}, known |-> cyc[n].known, found |-> fnd]
<1>2. cyc[n] \in Cycle /\ cyc[n].stage = "gossip" /\ cyc[n].found = {} /\ MayLose /\ UNCHANGED <<up, fallback>>
  BY DEF FetchMembers, In, Typed, TypeOK
<1>3. c.stage = "gossip" /\ c.todo = cyc[n].todo \ {p} /\ c.known = cyc[n].known /\ c.found = fnd
  OBVIOUS
<1>4. Owner[p.url] \in Node /\ p.url \in Addr
  BY <1>2, MembershipAssumption DEF Cycle, Listed
<1>5. \A f \in resp : f \in Member /\ Owner[f.url] = Who[f.name]
  BY <1>4, MembersFit DEF TablesFit
<1>6. cyc'[n] = Onward(c)
  BY <1>1 DEF Typed, TypeOK
<1>7. /\ CycleFit(n) /\ Told(n, t0) /\ Fetched(n)
  BY DEF NodeFit
<1>8. ~Lost /\ up = Node /\ Owner[p.url] = Hub => resp = handlePeerMembers(Hub)
  <2> SUFFICES ASSUME up = Node, Owner[p.url] = Hub PROVE Answers(p.url, effectiveSecret(n, p))
    OBVIOUS
  <2>1. p.secret \in {0, Key} /\ fallback[n] = Key
    BY <1>2, <1>7 DEF CycleFit, FitRow
  <2>2. effectiveSecret(n, p) = Key
    BY <2>1, ClusterFacts DEF effectiveSecret
  <2>3. HoldsKey(Owner[p.url])
    BY <1>4 DEF TablesFit
  <2> QED BY <1>4, <2>2, <2>3, CallsAnswered
<1> HIDE DEF resp
<1>9. fnd \subseteq Member /\ \A f \in fnd : Owner[f.url] = Who[f.name]
  BY <1>5
<1>10. \A f \in resp : f \in fnd \/ ~Candidate(n, f, cyc[n].known)
  OBVIOUS
<1> HIDE DEF fnd
<1>11. c \in Cycle
  BY <1>2, <1>9 DEF Cycle
<1> HIDE DEF c
<1>12. /\ \A i \in Node : \A m \in Node \ {i} : Knows(i, m) => Knows(i, m)'
       /\ Linked => Linked' /\ (Complete(n) => Complete(n)')
  BY GrownAll DEF StepFit
<1>13. \A k \in cyc[n].known : Owner[k.url] \in Node
  BY <1>2, MembershipAssumption DEF Cycle, Listed
<1>14. fallback'[n] = Key
  BY <1>2, <1>7 DEF CycleFit
<1>15. ASSUME up = Node, rounds[n] >= 0, Advertise[n] # NoAddr,
              NEW a \in Node \ {n}, Lists(t0, n, a)
       PROVE  Knows(a, n)'
  <2>1. Knows(a, n)
    BY <1>2, <1>7, <1>15 DEF Told
  <2> QED BY <1>12, <2>1
<1>16. ASSUME NEW m \in Node \ {n}, NEW f \in resp, Owner[f.url] = m
       PROVE  f \in fnd \/ Knows(n, m)
  <2>1. f.url \in Addr /\ Owner[f.url] = Who[f.name]
    BY <1>5 DEF Member
  <2> QED BY <1>7, <1>10, <1>16, <2>1, NoNews
<1>17. ASSUME ~Disturbed, up = Node, rounds[n] >= MaxLead + 1
       PROVE  /\ Linked'
              /\ n # Hub => \/ \E q \in c.todo : Owner[q.url] = Hub
                            \/ \A m \in Node \ {n} : Knows(n, m)' \/ \E f \in c.found : Owner[f.url] = m
              /\ rounds[n] >= MaxLead + 2 => Complete(n)'
  <2>1. Linked /\ (n # Hub => HubFetched(n)) /\ (rounds[n] >= MaxLead + 2 => Complete(n))
    BY <1>2, <1>7, <1>17 DEF Fetched
  <2>2. ASSUME n # Hub, Owner[p.url] = Hub, NEW m \in Node \ {n}
        PROVE  Knows(n, m)' \/ \E f \in c.found : Owner[f.url] = m
    <3>1. CASE m = Hub
      BY <1>12, <2>1, <2>2, <3>1, ClusterFacts DEF Linked
    <3>2. CASE m # Hub
      <4>1. Knows(Hub, m) /\ Hub \in Node /\ FitTable(Hub)
        BY <2>1, <3>2, ClusterFacts DEF Linked, TablesFit
      <4>2. ~Lost
        BY <1>2, <1>17, LossFacts
      <4>3. resp = handlePeerMembers(Hub)
        BY <1>8, <1>17, <2>2, <4>2
      <4>4. PICK f \in resp : Owner[f.url] = m
        BY <4>1, <4>3, MembersFit
      <4> QED BY <1>3, <1>12, <1>16, <4>4
    <3> QED BY <3>1, <3>2
  <2>3. ASSUME n # Hub, Owner[p.url] # Hub
        PROVE  \/ \E q \in c.todo : Owner[q.url] = Hub
               \/ \A m \in Node \ {n} : Knows(n, m)'
    BY <1>2, <1>3, <1>12, <2>1, <2>3 DEF HubFetched
  <2> QED BY <1>12, <2>1, <2>2, <2>3
<1>18. \A q \in c.todo \cup c.known : FitRow(q)
  BY <1>3, <1>7 DEF CycleFit
<1>19. \A k \in c.known : Owner[k.url] # n => Knows(n, Owner[k.url])'
  BY <1>3, <1>7, <1>12, <1>13 DEF CycleFit
<1>20. \A f \in c.found : Owner[f.url] = Who[f.name]
  BY <1>3, <1>9
<1>21. cyc[n].stage # "idle" /\ c.stage = "gossip"
  BY <1>2, <1>3
<1> HIDE DEF FetchMembers
<1> QED BY <1>6, <1>11, <1>14, <1>15, <1>17, <1>18, <1>19, <1>20, <1>21, OnwardFits

LEMMA ConsiderFits ==
  ASSUME OneCluster, Typed, Base, Counting, StepFit, NEW t0 \in Tables0, TablesFit(t0),
         NEW n \in Node, NodeFit(n, t0), considerMember(n)
  PROVE  NodeFit(n, t0)'
<1>1. PICK e \in cyc[n].found :
        LET new == IF Lost THEN {} ELSE NewMember(n, e, cyc[n].known)
            added == {[name |-> x, url |-> e.url, secret |-> 0, enabled |-> TRUE] : x \in new} IN
        /\ cyc' = [cyc EXCEPT ![n] =
             Onward([stage |-> "gossip", todo |-> @.todo, known |-> @.known \cup added,
                     found |-> @.found \ {e}])]
        /\ \/ new = {} /\ UNCHANGED table
           \/ \E x \in new : table' = [table EXCEPT ![n] = UpsertPeer(@, x, e.url, 0)]
  BY DEF considerMember, FirstMember
<1> DEFINE new == IF Lost THEN {} ELSE NewMember(n, e, cyc[n].known)
           row(x) == [name |-> x, url |-> e.url, secret |-> 0, enabled |-> TRUE]
           added == {row(x) : x \in new}
           c == [stage |-> "gossip", todo |-> cyc[n].todo, known |-> cyc[n].known \cup added,
                 found |-> cyc[n].found \ {e}]
<1>2. cyc[n] \in Cycle /\ cyc[n].stage = "gossip" /\ MayLose /\ UNCHANGED <<up, fallback>>
  BY DEF considerMember, In, Typed, TypeOK
<1>3. /\ c.stage = "gossip" /\ c.todo = cyc[n].todo /\ c.known = cyc[n].known \cup added
      /\ c.found = cyc[n].found \ {e}
  OBVIOUS
<1>4. e.url \in Addr /\ Owner[e.url] \in Node
  BY <1>2, MembershipAssumption DEF Cycle, Member
<1>5. /\ CycleFit(n) /\ Told(n, t0) /\ Fetched(n)
  BY DEF NodeFit
<1>6. fallback[n] = Key /\ fallback'[n] = Key /\ Owner[e.url] = Who[e.name]
  BY <1>2, <1>5 DEF CycleFit
<1>7. ASSUME NEW x \in new PROVE x = Owner[e.url] /\ x # n
  BY <1>7 DEF NewMember, probeName
<1>8. ASSUME NEW x \in new PROVE Knows(n, x)'
  <2>1. table' = [table EXCEPT ![n] = UpsertPeer(@, x, e.url, 0)]
    BY <1>1, <1>7, <1>8
  <2> DEFINE u == UpsertPeer(table[n], x, e.url, 0)
  <2>2. table'[n] = u
    BY <2>1 DEF Typed, TypeOK
  <2>3. x \in DOMAIN u /\ u[x].url = e.url
    BY DEF UpsertPeer
  <2> HIDE DEF u, new
  <2> QED BY <1>7, <1>8, <2>2, <2>3 DEF Knows, Lists
<1>9. ASSUME ~Lost, up = Node, NEW m \in Node \ {n}, Owner[e.url] = m
      PROVE  Knows(n, m) \/ Knows(n, m)'
  <2>1. HoldsKey(m)
    BY DEF TablesFit
  <2>2. Answers(e.url, Key)
    BY <1>9, <2>1, CallsAnswered
  <2>3. probeName(n, e.url) = {m}
    BY <1>6, <1>9, <2>2 DEF probeName
  <2>4. ASSUME NEW k \in cyc[n].known, k.name = m PROVE Knows(n, m)
    <3>1. Owner[k.url] = m
      BY <1>5, <2>4, ClusterFacts DEF CycleFit, FitRow
    <3> QED BY <1>5, <1>9, <3>1 DEF CycleFit
  <2>5. CASE ~Candidate(n, e, cyc[n].known)
    BY <1>4, <1>5, <1>6, <1>9, <2>5, NoNews
  <2>6. CASE Candidate(n, e, cyc[n].known) /\ \A k \in cyc[n].known : k.name # m
    <3>1. m \in new
      BY <1>9, <2>3, <2>6 DEF NewMember
    <3> QED BY <1>8, <3>1
  <2> QED BY <2>4, <2>5, <2>6
<1>10. \A x : row(x).name = x /\ row(x).url = e.url /\ row(x).secret = 0 /\ row(x).enabled = TRUE
  OBVIOUS
<1>11. ASSUME NEW x \in new PROVE row(x) \in Listed
  <2>1. x \in ToSet(Names)
    BY <1>4, <1>7, <1>11, MembershipAssumption
  <2> QED BY <1>4, <2>1 DEF Listed
<1>12. cyc'[n] = Onward(c)
  BY <1>1 DEF Typed, TypeOK
<1> HIDE DEF new, row
<1>13. added \subseteq Listed /\ \A q \in added : \E x \in new : q = row(x)
  BY <1>11
<1> HIDE DEF added
<1>14. c \in Cycle
  BY <1>2, <1>13 DEF Cycle
<1> HIDE DEF c
<1>15. ASSUME NEW q \in added PROVE FitRow(q) /\ Knows(n, Owner[q.url])'
  <2>1. PICK x \in new : q = row(x)
    BY <1>13, <1>15
  <2>2. Owner[q.url] = x /\ x = Who[x]
    BY <1>4, <1>7, <1>10, <2>1, ClusterFacts
  <2> QED BY <1>8, <1>10, <2>1, <2>2 DEF FitRow
<1>16. /\ \A i \in Node : \A m \in Node \ {i} : Knows(i, m) => Knows(i, m)'
       /\ Linked => Linked' /\ (Complete(n) => Complete(n)')
  BY GrownAll DEF StepFit
<1>17. \A k \in cyc[n].known : Owner[k.url] \in Node
  BY <1>2, MembershipAssumption DEF Cycle, Listed
<1>18. ASSUME up = Node, rounds[n] >= 0, Advertise[n] # NoAddr,
              NEW a \in Node \ {n}, Lists(t0, n, a)
       PROVE  Knows(a, n)'
  <2>1. Knows(a, n)
    BY <1>2, <1>5, <1>18 DEF Told
  <2> QED BY <1>16, <2>1
<1>19. ASSUME ~Disturbed, up = Node, rounds[n] >= MaxLead + 1
       PROVE  /\ Linked'
              /\ n # Hub => \/ \E q \in c.todo : Owner[q.url] = Hub
                            \/ \A m \in Node \ {n} : Knows(n, m)' \/ \E f \in c.found : Owner[f.url] = m
              /\ rounds[n] >= MaxLead + 2 => Complete(n)'
  <2>1. Linked /\ (n # Hub => HubFetched(n)) /\ (rounds[n] >= MaxLead + 2 => Complete(n))
    BY <1>2, <1>5, <1>19 DEF Fetched
  <2>2. ~Lost
    BY <1>2, <1>19, LossFacts
  <2>3. ASSUME NEW m \in Node \ {n}, Knows(n, m) \/ \E f \in cyc[n].found : Owner[f.url] = m
        PROVE  Knows(n, m)' \/ \E f \in c.found : Owner[f.url] = m
    BY <1>3, <1>9, <1>16, <1>19, <2>2, <2>3
  <2>4. n # Hub => \/ \E q \in c.todo : Owner[q.url] = Hub
                   \/ \A m \in Node \ {n} : Knows(n, m)' \/ \E f \in c.found : Owner[f.url] = m
    BY <1>3, <2>1, <2>3 DEF HubFetched
  <2> QED BY <1>16, <2>1, <2>4
<1>20. \A q \in c.todo \cup c.known : FitRow(q)
  BY <1>3, <1>5, <1>15 DEF CycleFit
<1>21. \A k \in c.known : Owner[k.url] # n => Knows(n, Owner[k.url])'
  BY <1>3, <1>5, <1>15, <1>16, <1>17 DEF CycleFit
<1>22. \A f \in c.found : Owner[f.url] = Who[f.name]
  BY <1>3, <1>5 DEF CycleFit
<1>23. cyc[n].stage # "idle" /\ c.stage = "gossip"
  BY <1>2, <1>3
<1> HIDE DEF considerMember
<1> QED BY <1>6, <1>12, <1>14, <1>18, <1>19, <1>20, <1>21, <1>22, <1>23, OnwardFits

(* One cluster, from its start to the first edit.                          *)
ClusterInv ==
  OneCluster /\ Quiet => \E t0 \in Tables0 : TablesFit(t0) /\ \A n \in Node : NodeFit(n, t0)

LEMMA ClusterInitially == Init => ClusterInv
<1> SUFFICES ASSUME Init, OneCluster
             PROVE  TablesFit(table) /\ \A n \in Node : NodeFit(n, table)
  BY DEF Init, ClusterInv
<1>1. Star(table, Key, Hub, Who)
  BY ClusterFacts DEF Init
<1>2. TablesFit(table)
  BY <1>1 DEF Star, TablesFit, FitTable, HoldsKey, Knows
<1>3. ASSUME NEW n \in Node PROVE NodeFit(n, table)
  <2>1. /\ cyc[n].stage = "idle" /\ cyc[n].todo = {} /\ cyc[n].known = {} /\ cyc[n].found = {}
        /\ rounds[n] = 0
    BY DEF Init, Idle
  <2>2. ~(rounds[n] >= 1) /\ ~(rounds[n] >= MaxLead + 1)
    BY <2>1, MembershipAssumption
  <2> QED BY <2>1, <2>2 DEF NodeFit, CycleFit, Told, Fetched
<1> QED BY <1>2, <1>3

(* A process that stops has no cycle, and its rounds are counted anew.     *)
LEMMA StoppedFits ==
  ASSUME Typed, Counting, NEW n \in Node, NEW t0, Stop(n)
  PROVE  NodeFit(n, t0)'
<1>1. up' # up /\ cyc'[n] = Idle
  BY DEF Stop, Typed, TypeOK
<1>2. /\ cyc'[n].stage = "idle" /\ cyc'[n].todo = {} /\ cyc'[n].known = {} /\ cyc'[n].found = {}
  BY <1>1 DEF Idle
<1>3. Disturbed
  BY <1>1 DEF Disturbed
<1>4. rounds'[n] \in Int /\ rounds'[n] <= 0
  BY <1>3, RoundFacts
<1>5. ~(rounds'[n] >= 1) /\ ~(rounds'[n] >= MaxLead + 1)
  BY <1>4, MembershipAssumption
<1> QED BY <1>2, <1>5 DEF NodeFit, CycleFit, Told, Fetched

LEMMA ClusterInductive == Typed /\ Sound /\ Base /\ ClusterInv /\ [Next]_vars => ClusterInv'
<1> SUFFICES ASSUME Typed, Sound, Base, ClusterInv, [Next]_vars, OneCluster, Quiet'
             PROVE  \E t0 \in Tables0 : TablesFit(t0)' /\ \A n \in Node : NodeFit(n, t0)'
  BY DEF ClusterInv
<1>1. Quiet /\ ~Admin
  BY QuietBefore
<1>2. PICK t0 \in Tables0 : TablesFit(t0) /\ \A n \in Node : NodeFit(n, t0)
  BY <1>1 DEF ClusterInv
<1>3. ASSUME NEW n \in Node PROVE FitTable(n)' /\ HoldsKey(n)' /\ Grown(n)
  <2>1. table'[n] = table[n] \/ Learned(n) \/ Healed(n)
    BY TableSteps
  <2>2. FitTable(n) /\ HoldsKey(n) /\ \A p \in cyc[n].todo : FitRow(p)
    BY <1>2 DEF TablesFit, NodeFit, CycleFit
  <2> QED BY <1>1, <2>1, <2>2, FitStays
<1>4. TablesFit(t0)'
  BY <1>2, <1>3 DEF TablesFit, Grown
<1>5. StepFit
  BY <1>3, PendingStays DEF StepFit
<1>6. Counting
  <2>1. CASE Next
    BY <2>1 DEF Next
  <2>2. CASE UNCHANGED vars
    <3>1. ~Disturbed
      BY <2>2 DEF vars, Disturbed
    <3>2. rounds' = rounds /\ cyc' = cyc /\ rounds = [n \in Node |-> rounds[n]]
      BY <2>2 DEF vars, Typed, TypeOK
    <3> QED BY <3>1, <3>2 DEF Counting
  <2> QED BY <2>1, <2>2
<1>7. ASSUME NEW n \in Node, NEW m \in Node, Poller(m) PROVE NodeFit(n, t0)'
  <2>1. CASE m = n
    BY <1>1, <1>2, <1>5, <1>6, <1>7, <2>1, StartFits, AnnounceFits, GossipFits, HealFits, FetchFits,
       ConsiderFits DEF Poller
  <2>2. CASE m # n
    <3>1. cyc'[n] = cyc[n]
      <4>1. PICK c : cyc' = [cyc EXCEPT ![m] = c]
        BY <1>7, SomeCycle
      <4> QED BY <2>2, <4>1 DEF Typed, TypeOK
    <3>2. fallback'[n] = fallback[n]
      BY <1>7, <2>2 DEF Poller, StartCycle, announce, StartGossip, selfHeal, FetchMembers, considerMember, Typed, TypeOK
    <3> QED BY <1>2, <1>5, <1>6, <3>1, <3>2, OthersFit
  <2> QED BY <2>1, <2>2
<1>8. ASSUME NEW n \in Node, NEW m \in Node, Handlers(m) PROVE NodeFit(n, t0)'
  <2>1. UNCHANGED <<fallback, cyc>>
    BY <1>8 DEF Handlers, Write
  <2> QED BY <1>2, <1>5, <1>6, <2>1, OthersFit
<1>9. ASSUME NEW n \in Node, NEW m \in Node, Stop(m) PROVE NodeFit(n, t0)'
  <2>1. CASE m = n
    BY <1>6, <1>9, <2>1, StoppedFits
  <2>2. CASE m # n
    <3>1. cyc'[n] = cyc[n] /\ fallback'[n] = fallback[n]
      BY <1>9, <2>2 DEF Stop, Typed, TypeOK
    <3> QED BY <1>2, <1>5, <1>6, <3>1, OthersFit
  <2> QED BY <2>1, <2>2
<1>10. ASSUME NEW n \in Node, NEW m \in Node, Start(m) PROVE NodeFit(n, t0)'
  <2>1. UNCHANGED <<fallback, cyc>>
    BY <1>10 DEF Start
  <2> QED BY <1>2, <1>5, <1>6, <2>1, OthersFit
<1>11. ASSUME NEW n \in Node, UNCHANGED vars PROVE NodeFit(n, t0)'
  <2>1. UNCHANGED <<fallback, cyc>>
    BY <1>11 DEF vars
  <2> QED BY <1>2, <1>5, <1>6, <2>1, OthersFit
<1>12. \A n \in Node : NodeFit(n, t0)'
  BY <1>1, <1>7, <1>8, <1>9, <1>10, <1>11 DEF Next
<1> QED BY <1>4, <1>12

(* Everybody's last cycle was complete, and nobody has put a row of a node *)
(* into its own table since.                                               *)
LEMMA SettledThen == Typed /\ Base /\ Cleared /\ ClusterInv => Settled
<1> SUFFICES ASSUME Typed, Base, Cleared, ClusterInv, up = Node, used.edits = 0,
                    \A n \in Node : rounds[n] >= MaxLead + 2, NEW n \in Node
             PROVE  /\ OneCluster => \A m \in Node \ {n} : Knows(n, m)
                    /\ ClusterSecret[n] # 0 /\ cyc[n].stage = "idle" => \A x \in DOMAIN table[n] :
                         table[n][x].secret = 0 => Owner[table[n][x].url] # n
  BY DEF Settled
<1>1. Quiet
  BY DEF Quiet
<1>2. rounds[n] >= MaxLead + 2 /\ rounds[n] >= MaxLead + 1 /\ rounds[n] >= 1
  BY MembershipAssumption DEF Typed, TypeOK
<1>3. ASSUME OneCluster PROVE Complete(n)
  BY <1>1, <1>2, <1>3 DEF ClusterInv, NodeFit, Fetched
<1>4. ASSUME ClusterSecret[n] # 0, cyc[n].stage = "idle" PROVE OwnRows(n) = {}
  BY <1>1, <1>2, <1>4 DEF Cleared, Clearing
<1> QED BY <1>3, <1>4 DEF Complete, OwnRows

(* In any cluster of one secret whose nodes can all reach one of them, and *)
(* it them: when every node has run two cycles that no lost call, restart  *)
(* or late announce disturbed, everybody knows everybody, whatever was     *)
(* lost before and however the cycles overlapped; and in any cluster, a    *)
(* node that holds the cluster's secret has removed its phantom rows       *)
(* (announceAll, gossip, considerMember, selfHeal, handlePeerAnnounce).    *)
THEOREM ClustersSettle == Spec => []Settled
<1> DEFINE Inv == Typed /\ Sound /\ Base /\ Cleared /\ ClusterInv
<1>1. Init => Inv
  BY TypedInitially, SoundInitially, BaseInitially, ClearedInitially, ClusterInitially
<1>2. Inv /\ [Next]_vars => Inv'
  BY TypedInductive, SoundInductive, BaseInductive, ClearedInductive, ClusterInductive DEF StepSound
<1>3. Inv => Settled
  BY SettledThen
<1> QED BY <1>1, <1>2, <1>3, PTL DEF Spec
==============================================================================
