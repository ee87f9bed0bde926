---------------------------- MODULE Coordinator ----------------------------
(***************************************************************************)
(* The cross-node alert election of internal/alert/coordination.go.        *)
(*                                                                         *)
(* Every node watches every peer, so one dead peer is an alert edge on     *)
(* each surviving node.  On an edge a node calls ShouldSend: it records    *)
(* its own candidacy in its ledger, asks its peers (POST alert-claim) whom *)
(* they know as owner, and delivers the alert only if it is the smallest   *)
(* name it heard of and nobody reported the incident as sent; the winner   *)
(* tells its peers (POST alert-sent).                                      *)
(*                                                                         *)
(* Names are natural numbers, ordered as the code orders strings; 0 is the *)
(* empty string.  A key is an incident key (source|node|entity|status)     *)
(* about a peer that is not in Node.  One occurrence of a key is one       *)
(* outage (or one recovery) of that peer, which each watcher may notice at *)
(* its own time, or miss.  A call lasts at most the 3 s of the HTTP        *)
(* client's timeout, a tick of `now' is minutes: time passes, and a new    *)
(* occurrence begins, only when no call about it is under way.             *)
(***************************************************************************)
EXTENDS Integers, FiniteSets

CONSTANTS
  Node,      \* the watching nodes
  Key,       \* incident keys
  PeersOf,   \* PeersOf[n]: enabled peers with a URL in n's table, minus subject
  TTL,       \* Coordinator.ttl, in ticks
  MinGap,    \* least time between the last edge of one occurrence and the next
  MaxOcc,    \* bound: occurrences of one key
  MaxTime,   \* bound: ticks
  MaxCrash,  \* bound: process crashes
  MaxLoss    \* bound: failures (lost or refused calls, failed reads and mails)

ASSUME NodeAssumption == Node \subseteq Nat \ {0}
ASSUME PeersAssumption == PeersOf \in [Node -> SUBSET Node]
ASSUME TimeAssumption == /\ TTL \in Nat
                         /\ MinGap \in Nat
                         /\ MaxTime \in Nat
ASSUME BoundAssumption == /\ MaxOcc \in Nat
                          /\ MaxCrash \in Nat
                          /\ MaxLoss \in Nat

NoOne == 0

VARIABLES
  now,      \* the clock, in ticks
  ledger,   \* ledger[n][k]: n's claimEntry for k
  call,     \* call[n][k]: n's latest ShouldSend call for k
  claims,   \* alert-claim requests under way: <<asker, peer, key>>
  sents,    \* alert-sent requests under way: <<sender, peer, key>>
  occ,      \* occ[k]: occurrences of k so far
  last,     \* last[k]: when a watcher last began a call for k
  crashes,  \* crashes so far
  losses    \* failures so far

vars == <<now, ledger, call, claims, sents, occ, last, crashes, losses>>

Phase == {"idle", "asking", "won", "mailed", "failed", "declined", "lost"}

Entry == [owner : Node \cup {NoOne}, sent : BOOLEAN, at : Nat \cup {-(TTL + 1)}]

Call == [occ : Nat, phase : Phase, peers : SUBSET Node, pending : SUBSET Node,
         owner : Node \cup {NoOne}, sentElsewhere : BOOLEAN, late : BOOLEAN]

----------------------------------------------------------------------------
(* A missing ledger entry and an expired one are reset alike by            *)
(* entryLocked, so a missing one is an entry that is expired at any time.  *)
NoEntry == [owner |-> NoOne, sent |-> FALSE, at |-> -(TTL + 1)]

NoCall == [occ |-> 0, phase |-> "idle", peers |-> {}, pending |-> {},
           owner |-> NoOne, sentElsewhere |-> FALSE, late |-> FALSE]

MinName(a, b) == IF a = NoOne \/ (b # NoOne /\ b < a) THEN b ELSE a

Expired(e) == now - e.at > TTL

EntryLocked(n, k) ==
  IF Expired(ledger[n][k])
    THEN [owner |-> NoOne, sent |-> FALSE, at |-> now]
    ELSE ledger[n][k]

\* Seeded faults: a claim recorded as a delivery; a claim stamped an expiry ago.
ClaimIsDelivery(e, n) == [owner |-> MinName(e.owner, n), sent |-> TRUE, at |-> now]
ClaimPreAged(e, n) == [owner |-> MinName(e.owner, n), sent |-> e.sent, at |-> now - TTL]

\* The entry HandleClaim and HandleSent leave behind for a caller n.
Claimed(e, n) == [owner |-> MinName(e.owner, n), sent |-> e.sent, at |-> now]
Delivered(e, n) == [owner |-> MinName(e.owner, n), sent |-> TRUE, at |-> now]

Asking(k) == {n \in Node : call[n][k].phase = "asking"}

\* The watchers that noticed the current occurrence of k, and what became of
\* them.  A sender is a node whose ShouldSend returned true.
Candidates(k) == {n \in Node : occ[k] > 0 /\ call[n][k].occ = occ[k]}
Senders(k) == {n \in Candidates(k) : call[n][k].phase \in {"won", "mailed", "failed"}}
Deciding(k) == {n \in Candidates(k) : call[n][k].phase = "asking"}
Declined(k) == {n \in Candidates(k) : call[n][k].phase = "declined"}
Lost(k) == {n \in Candidates(k) : call[n][k].phase = "lost"}

\* No call or request about k is under way.
Quiet(k) == /\ Asking(k) = {}
            /\ \A n, p \in Node : <<n, p, k>> \notin claims \cup sents

----------------------------------------------------------------------------
Init ==
  /\ now = 0
  /\ ledger = [n \in Node |-> [k \in Key |-> NoEntry]]
  /\ call = [n \in Node |-> [k \in Key |-> NoCall]]
  /\ claims = {}
  /\ sents = {}
  /\ occ = [k \in Key |-> 0]
  /\ last = [k \in Key |-> 0]
  /\ crashes = 0
  /\ losses = 0

\* The peer that k is about fails (or recovers) once more.
Occur(k) ==
  /\ occ[k] < MaxOcc
  /\ Quiet(k)
  /\ occ[k] > 0 => now >= last[k] + MinGap
  /\ occ' = [occ EXCEPT ![k] = @ + 1]
  /\ UNCHANGED <<now, ledger, call, claims, sents, last, crashes, losses>>

Tick ==
  /\ now < MaxTime
  /\ \A k \in Key : Quiet(k)
  /\ now' = now + 1
  /\ UNCHANGED <<ledger, call, claims, sents, occ, last, crashes, losses>>

\* A step that fails spends one failure of the budget.
Fail(lost) == IF lost THEN losses < MaxLoss /\ losses' = losses + 1
                      ELSE UNCHANGED losses

\* ShouldSend up to the requests: record our own candidacy, stand down if the
\* ledger already says sent, else ask the listed peers (none if ListPeers fails).
Begin(n, k) ==
  LET e == EntryLocked(n, k)
      mine == MinName(e.owner, n)
  IN /\ call[n][k].occ < occ[k]
     /\ call[n][k].phase # "asking"
     /\ ledger' = [ledger EXCEPT ![n][k] = [e EXCEPT !.owner = mine]]
     /\ last' = [last EXCEPT ![k] = now]
     /\ \E lost \in BOOLEAN :
          LET ps == IF lost THEN {} ELSE PeersOf[n] \ {n} IN
          /\ lost => ~ e.sent
          /\ Fail(lost)
          /\ call' = [call EXCEPT ![n][k] =
                        [occ |-> occ[k],
                         phase |-> IF e.sent THEN "declined" ELSE "asking",
                         peers |-> ps,
                         pending |-> IF e.sent THEN {} ELSE ps,
                         owner |-> mine,
                         sentElsewhere |-> FALSE,
                         late |-> Senders(k) \cap PeersOf[n] # {}]]
          /\ claims' = claims \cup (IF e.sent THEN {} ELSE {<<n, p, k>> : p \in ps})
     /\ UNCHANGED <<now, sents, occ, crashes>>

\* The asker's aggregate c once p's answer e is in, or p is given up on.
Answered(c, p, e, heard) ==
  [c EXCEPT !.pending = @ \ {p},
            !.owner = IF heard THEN MinName(@, e.owner) ELSE @,
            !.sentElsewhere = @ \/ (heard /\ e.sent)]

\* HandleClaim at p, and the answer folded into the asker's aggregate.  The
\* answer may be lost, and the asker may have given up before.
HandleClaim(n, p, k) ==
  LET e == Claimed(EntryLocked(p, k), n)
  IN /\ <<n, p, k>> \in claims
     /\ claims' = claims \ {<<n, p, k>>}
     /\ ledger' = [ledger EXCEPT ![p][k] = e]
     /\ \E lost \in BOOLEAN :
          LET heard == ~ lost /\ p \in call[n][k].pending IN
          /\ lost => p \in call[n][k].pending
          /\ Fail(lost)
          /\ call' = [call EXCEPT ![n][k] = Answered(@, p, e, heard)]
     /\ UNCHANGED <<now, sents, occ, last, crashes>>

\* askPeer fails: the request is lost, or handled after the asker gave up.
NoAnswer(n, p, k) ==
  /\ Fail(TRUE)
  /\ p \in call[n][k].pending
  /\ call' = [call EXCEPT ![n][k].pending = @ \ {p}]
  /\ claims' \in {claims, claims \ {<<n, p, k>>}}
  /\ UNCHANGED <<now, ledger, sents, occ, last, crashes>>

\* wg.Wait returned: some peer knows better, so stand down ...
StandDown(n, k) ==
  /\ call[n][k].phase = "asking"
  /\ call[n][k].pending = {}
  /\ call[n][k].sentElsewhere \/ call[n][k].owner # n
  /\ call' = [call EXCEPT ![n][k].phase = "declined"]
  /\ UNCHANGED <<now, ledger, claims, sents, occ, last, crashes, losses>>

\* ... or we won: commit to the ledger and, unless a rival's alert-sent came in
\* meanwhile, return true and tell the peers.
RacedOut(e, n) == e.sent /\ e.owner # n

\* Seeded fault: the win is not committed as sent.
CommitOwnerOnly(e, n) == [e EXCEPT !.owner = n]

Committed(e, n) == [e EXCEPT !.sent = TRUE, !.owner = n]

Win(n, k) ==
  LET e == EntryLocked(n, k)
  IN /\ call[n][k].phase = "asking"
     /\ call[n][k].pending = {}
     /\ ~ call[n][k].sentElsewhere /\ call[n][k].owner = n
     /\ ledger' = [ledger EXCEPT ![n][k] = Committed(e, n)]
     /\ \/ /\ RacedOut(e, n)
           /\ call' = [call EXCEPT ![n][k].phase = "declined"]
           /\ UNCHANGED sents
        \/ /\ ~ RacedOut(e, n)
           /\ call' = [call EXCEPT ![n][k].phase = "won"]
           /\ sents' = sents \cup {<<n, p, k>> : p \in call[n][k].peers}
     /\ UNCHANGED <<now, claims, occ, last, crashes, losses>>

HandleSent(n, p, k) ==
  /\ <<n, p, k>> \in sents
  /\ sents' = sents \ {<<n, p, k>>}
  /\ ledger' = [ledger EXCEPT ![p][k] = Delivered(EntryLocked(p, k), n)]
  /\ UNCHANGED <<now, call, claims, occ, last, crashes, losses>>

\* A request that never arrives.
Drop(n, p, k) ==
  /\ Fail(TRUE)
  /\ \/ /\ <<n, p, k>> \in sents
        /\ sents' = sents \ {<<n, p, k>>}
        /\ UNCHANGED claims
     \/ /\ <<n, p, k>> \in claims
        /\ p \notin call[n][k].pending
        /\ claims' = claims \ {<<n, p, k>>}
        /\ UNCHANGED sents
  /\ UNCHANGED <<now, ledger, call, occ, last, crashes>>

\* Dispatch: each channel is tried once; a failed send is logged, not retried.
Dispatch(n, k) ==
  /\ call[n][k].phase = "won"
  /\ \E lost \in BOOLEAN :
       /\ Fail(lost)
       /\ call' = [call EXCEPT ![n][k].phase = IF lost THEN "failed" ELSE "mailed"]
  /\ UNCHANGED <<now, ledger, claims, sents, occ, last, crashes>>

\* The process dies and restarts: the ledger and the calls are in memory only,
\* requests to it fail, and the engine's seed pass raises no second edge.
Crash(n) ==
  /\ crashes < MaxCrash
  /\ crashes' = crashes + 1
  /\ ledger' = [ledger EXCEPT ![n] = [k \in Key |-> NoEntry]]
  /\ call' = [m \in Node |-> [k \in Key |->
                IF m # n THEN [call[m][k] EXCEPT !.pending = @ \ {n}]
                ELSE IF call[n][k].phase \in {"asking", "won"}
                  THEN [call[n][k] EXCEPT !.phase = "lost", !.pending = {}]
                  ELSE call[n][k]]]
  /\ claims' = {c \in claims : c[2] # n}
  /\ sents' = {s \in sents : s[2] # n}
  /\ UNCHANGED <<now, occ, last, losses>>

----------------------------------------------------------------------------
Next ==
  \/ Tick
  \/ \E k \in Key : Occur(k)
  \/ \E n \in Node : Crash(n)
  \/ \E n \in Node, k \in Key :
       Begin(n, k) \/ StandDown(n, k) \/ Win(n, k) \/ Dispatch(n, k)
  \/ \E n, p \in Node, k \in Key :
       HandleClaim(n, p, k) \/ NoAnswer(n, p, k) \/ HandleSent(n, p, k) \/ Drop(n, p, k)

Spec == Init /\ [][Next]_vars

\* The HTTP client's timeout ends every request, so a call always gets past
\* wg.Wait; nothing forces a request to arrive.
Fairness == \A n \in Node, k \in Key :
  /\ WF_vars(StandDown(n, k))
  /\ WF_vars(Win(n, k))
  /\ \A p \in Node : WF_vars(HandleClaim(n, p, k) \/ NoAnswer(n, p, k))

FairSpec == Spec /\ Fairness

----------------------------------------------------------------------------
(* The state is of the types the code declares.                            *)
TypeOK ==
  /\ now \in Nat
  /\ ledger \in [Node -> [Key -> Entry]]
  /\ call \in [Node -> [Key -> Call]]
  /\ claims \subseteq Node \X Node \X Key
  /\ sents \subseteq Node \X Node \X Key
  /\ occ \in [Key -> Nat]
  /\ last \in [Key -> Nat]
  /\ crashes \in Nat
  /\ losses \in Nat

(* "Duplicates are acceptable, silence is not": whatever calls fail, once  *)
(* every watcher that noticed an occurrence has decided and one of them    *)
(* has stood down, some watcher's ShouldSend returned true.                *)
NoSilence ==
  \A k \in Key : Declined(k) # {} /\ Deciding(k) = {} => Senders(k) # {}

(* What remains of it when processes die: an occurrence somebody stood     *)
(* down for goes unannounced only if a watcher died in the middle of its   *)
(* own ShouldSend call or mail.  The crash of a bystander, of a watcher    *)
(* that has decided, or of a ledger's owner silences nobody.               *)
SilencedOnlyByLostWatcher ==
  \A k \in Key : Declined(k) # {} /\ Deciding(k) = {}
                   => Senders(k) \cup Lost(k) # {}

(* As long as nothing has failed, a watcher that notices an incident after *)
(* a peer it lists has won it stands down, whatever the other watchers are *)
(* in the middle of (TestCoordinatorElectsOneSender, for two in sequence). *)
LateWatcherStandsDown ==
  crashes = 0 /\ losses = 0
    => \A k \in Key : \A n \in Senders(k) : ~ call[n][k].late

(* "One node mails per incident": no two watchers of one occurrence send.  *)
OneSender == \A k \in Key : \A n, m \in Senders(k) : n = m

(* Whoever notices an incident first, sooner or later somebody sends it.   *)
AlertGetsOut == \A k \in Key : Candidates(k) # {} ~> Senders(k) # {}
============================================================================
