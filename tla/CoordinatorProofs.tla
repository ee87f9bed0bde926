------------------------- MODULE CoordinatorProofs -------------------------
(***************************************************************************)
(* Proofs about Coordinator, for every value of the constants: its types;  *)
(* that, as long as two occurrences of one incident are more than the      *)
(* ledger's TTL apart, an alert is silenced only by the crash of a watcher *)
(* in the middle of its own call; and so by nothing when none crashes; and *)
(* that, until an entry can expire and as long as nothing has failed, a    *)
(* late watcher stands down.                                               *)
(***************************************************************************)
EXTENDS Coordinator, WellFoundedInduction, TLAPS

(* The call of a watcher that has not noticed anything is of a call's type.*)
LEMMA NoCallType == NoCall \in Call
  BY DEF NoCall, Call, Phase, NoOne

(* The entry of a missing ledger key has the type of ledger entries.       *)
LEMMA NoEntryType == NoEntry \in Entry
  BY DEF NoEntry, Entry, NoOne

(* minName of a possibly empty name and a node's name is the name of a     *)
(* node: one of the two, and not after either name.                        *)
LEMMA MinNameFacts ==
  ASSUME NEW a \in Node \cup {NoOne}, NEW b \in Node
  PROVE  /\ MinName(a, b) \in Node
         /\ MinName(a, b) \in {a, b}
         /\ MinName(a, b) <= b
         /\ a # NoOne => MinName(a, b) <= a
  BY NodeAssumption DEF MinName, NoOne

(* Replacing one node's call about one incident keeps the calls' type.     *)
LEMMA CallUpdate ==
  ASSUME TypeOK, NEW n \in Node, NEW k \in Key, NEW c \in Call,
         call' = [call EXCEPT ![n][k] = c]
  PROVE  call' \in [Node -> [Key -> Call]]
  BY DEF TypeOK

(* entryLocked returns an entry; it is unexpired, and the stored one       *)
(* unless that was expired.                                                *)
LEMMA EntryLockedFacts ==
  ASSUME TypeOK, NEW n \in Node, NEW k \in Key
  PROVE  /\ EntryLocked(n, k) \in Entry
         /\ \/ EntryLocked(n, k) = [owner |-> NoOne, sent |-> FALSE, at |-> now]
            \/ /\ EntryLocked(n, k) = ledger[n][k]
               /\ ~ Expired(ledger[n][k])
<1>1. ledger[n][k] \in Entry /\ now \in Nat
  BY DEF TypeOK
<1>2. CASE Expired(ledger[n][k])
  BY <1>1, <1>2 DEF EntryLocked, Entry, NoOne
<1>3. CASE ~ Expired(ledger[n][k])
  BY <1>1, <1>3 DEF EntryLocked
<1> QED BY <1>2, <1>3

(* So does a step that only changes a call's phase.                        *)
LEMMA PhaseUpdate ==
  ASSUME TypeOK, NEW n \in Node, NEW k \in Key, NEW ph \in Phase,
         call' = [call EXCEPT ![n][k].phase = ph]
  PROVE  call' \in [Node -> [Key -> Call]]
<1> DEFINE c == [call[n][k] EXCEPT !.phase = ph]
<1>1. c \in Call
  <2>1. call[n][k] \in Call
    BY DEF TypeOK
  <2> QED BY <2>1 DEF Call
<1>2. call' = [call EXCEPT ![n][k] = c]
  BY DEF TypeOK
<1> QED BY <1>1, <1>2, CallUpdate

----------------------------------------------------------------------------
(* The state keeps the types the code declares, for every cluster, every   *)
(* set of incidents and every bound.                                       *)
THEOREM TypeCorrect == Spec => []TypeOK
<1>1. Init => TypeOK
  BY NoCallType, NoEntryType DEF Init, TypeOK
<1>2. TypeOK /\ [Next]_vars => TypeOK'
  <2> SUFFICES ASSUME TypeOK, [Next]_vars PROVE TypeOK'
    OBVIOUS
  <2> USE NodeAssumption
  <2>0. ASSUME NEW b, Fail(b) PROVE losses' \in Nat
    BY <2>0 DEF Fail, TypeOK
  <2>1. CASE UNCHANGED vars
    BY <2>1 DEF vars, TypeOK
  <2>2. CASE Tick
    BY <2>2 DEF Tick, TypeOK
  <2>3. ASSUME NEW k \in Key, Occur(k) PROVE TypeOK'
    BY <2>3 DEF Occur, TypeOK
  <2>4. ASSUME NEW n \in Node, Crash(n) PROVE TypeOK'
    <3>1. ledger' \in [Node -> [Key -> Entry]]
      BY <2>4, NoEntryType DEF Crash, TypeOK
    <3>2. call' \in [Node -> [Key -> Call]]
      <4> DEFINE after(m, k) ==
                   IF m # n THEN [call[m][k] EXCEPT !.pending = @ \ {n}]
                   ELSE IF call[n][k].phase \in {"asking", "won"}
                     THEN [call[n][k] EXCEPT !.phase = "lost", !.pending = {}]
                     ELSE call[n][k]
      <4>1. ASSUME NEW m \in Node, NEW k \in Key PROVE after(m, k) \in Call
        <5>1. call[m][k] \in Call
          BY DEF TypeOK
        <5> QED BY <5>1 DEF Call, Phase
      <4>2. call' = [m \in Node |-> [k \in Key |-> after(m, k)]]
        BY <2>4 DEF Crash
      <4> HIDE DEF after
      <4> QED BY <4>1, <4>2
    <3>3. claims' \subseteq claims /\ sents' \subseteq sents
      BY <2>4 DEF Crash
    <3>4. UNCHANGED <<now, occ, last, losses>> /\ crashes' = crashes + 1
      BY <2>4 DEF Crash
    <3> QED BY <3>1, <3>2, <3>3, <3>4 DEF TypeOK
  <2>5. ASSUME NEW n \in Node, NEW k \in Key, Begin(n, k) PROVE TypeOK'
    <3> DEFINE e == EntryLocked(n, k)
    <3>1. e \in Entry /\ MinName(e.owner, n) \in Node \cup {NoOne}
      <4>1. e \in Entry
        BY EntryLockedFacts
      <4>2. e.owner \in Node \cup {NoOne}
        BY <4>1 DEF Entry
      <4> QED BY <4>1, <4>2, MinNameFacts
    <3>2. [e EXCEPT !.owner = MinName(e.owner, n)] \in Entry
      BY <3>1 DEF Entry
    <3>3. ledger' \in [Node -> [Key -> Entry]]
      BY <2>5, <3>2 DEF Begin, TypeOK
    <3>4. PICK lost \in BOOLEAN :
             LET ps == IF lost THEN {} ELSE PeersOf[n] \ {n} IN
             /\ Fail(lost)
             /\ call' = [call EXCEPT ![n][k] =
                          [occ |-> occ[k],
                           phase |-> IF e.sent THEN "declined" ELSE "asking",
                           peers |-> ps,
                           pending |-> IF e.sent THEN {} ELSE ps,
                           owner |-> MinName(e.owner, n),
                           sentElsewhere |-> FALSE,
                           late |-> Senders(k) \cap PeersOf[n] # {}]]
             /\ claims' = claims \cup (IF e.sent THEN {} ELSE {<<n, p, k>> : p \in ps})
      BY <2>5 DEF Begin
    <3> DEFINE ps == IF lost THEN {} ELSE PeersOf[n] \ {n}
    <3>5. ps \subseteq Node
      BY PeersAssumption
    <3>6. call' \in [Node -> [Key -> Call]]
      <4>1. [occ |-> occ[k],
             phase |-> IF e.sent THEN "declined" ELSE "asking",
             peers |-> ps,
             pending |-> IF e.sent THEN {} ELSE ps,
             owner |-> MinName(e.owner, n),
             sentElsewhere |-> FALSE,
             late |-> Senders(k) \cap PeersOf[n] # {}] \in Call
        BY <3>1, <3>5 DEF Call, Phase, TypeOK
      <4> QED BY <3>4, <4>1 DEF TypeOK
    <3>7. claims' \subseteq Node \X Node \X Key
      BY <3>4, <3>5 DEF TypeOK
    <3> QED BY <2>5, <2>0, <3>3, <3>4, <3>6, <3>7 DEF Begin, TypeOK
  <2>6. ASSUME NEW n \in Node, NEW p \in Node, NEW k \in Key, HandleClaim(n, p, k)
        PROVE TypeOK'
    <3> DEFINE e == Claimed(EntryLocked(p, k), n)
    <3>1. e \in Entry
      <4>1. EntryLocked(p, k) \in Entry /\ now \in Nat
        BY EntryLockedFacts DEF TypeOK
      <4>2. MinName(EntryLocked(p, k).owner, n) \in Node
        BY <4>1, MinNameFacts DEF Entry
      <4> QED BY <4>1, <4>2 DEF Claimed, Entry
    <3>2. ledger' \in [Node -> [Key -> Entry]]
      BY <2>6, <3>1 DEF HandleClaim, TypeOK
    <3>3. PICK lost \in BOOLEAN :
             LET heard == ~ lost /\ p \in call[n][k].pending IN
             /\ Fail(lost)
             /\ call' = [call EXCEPT ![n][k] = Answered(@, p, e, heard)]
      BY <2>6 DEF HandleClaim
    <3>4. call[n][k] \in Call
      BY DEF TypeOK
    <3>5. MinName(call[n][k].owner, e.owner) \in Node \cup {NoOne}
      BY <3>1, <3>4 DEF Call, Entry, MinName
    <3>6. call' \in [Node -> [Key -> Call]]
      <4> DEFINE heard == ~ lost /\ p \in call[n][k].pending
                 c == Answered(call[n][k], p, e, heard)
      <4>1. e.sent \in BOOLEAN
        BY <3>1 DEF Entry
      <4>2. c \in Call
        BY <3>4, <3>5, <4>1 DEF Call, Answered
      <4>3. call' = [call EXCEPT ![n][k] = c]
        BY <3>3
      <4> QED BY <4>2, <4>3, CallUpdate
    <3> QED BY <2>6, <2>0, <3>2, <3>3, <3>6 DEF HandleClaim, TypeOK
  <2>7. ASSUME NEW n \in Node, NEW p \in Node, NEW k \in Key, NoAnswer(n, p, k)
        PROVE TypeOK'
    <3>1. call' \in [Node -> [Key -> Call]]
      <4> DEFINE c == [call[n][k] EXCEPT !.pending = @ \ {p}]
      <4>1. c \in Call
        <5>1. call[n][k] \in Call
          BY DEF TypeOK
        <5> QED BY <5>1 DEF Call
      <4>2. call' = [call EXCEPT ![n][k] = c]
        BY <2>7 DEF NoAnswer, TypeOK
      <4> QED BY <4>1, <4>2, CallUpdate
    <3> QED BY <2>7, <2>0, <3>1 DEF NoAnswer, TypeOK
  <2>8. ASSUME NEW n \in Node, NEW k \in Key, StandDown(n, k) PROVE TypeOK'
    <3>1. call' \in [Node -> [Key -> Call]]
      BY <2>8, PhaseUpdate DEF StandDown, Phase
    <3> QED BY <2>8, <3>1 DEF StandDown, TypeOK
  <2>9. ASSUME NEW n \in Node, NEW k \in Key, Win(n, k) PROVE TypeOK'
    <3>1. Committed(EntryLocked(n, k), n) \in Entry
      BY EntryLockedFacts DEF Committed, Entry
    <3>2. ledger' \in [Node -> [Key -> Entry]]
      BY <2>9, <3>1 DEF Win, TypeOK
    <3>3. call' \in [Node -> [Key -> Call]]
      BY <2>9, PhaseUpdate DEF Win, Phase
    <3>4. call[n][k].peers \subseteq Node
      BY DEF TypeOK, Call
    <3>5. sents' \subseteq Node \X Node \X Key
      BY <2>9, <3>4 DEF Win, TypeOK
    <3> QED BY <2>9, <3>2, <3>3, <3>5 DEF Win, TypeOK
  <2>10. ASSUME NEW n \in Node, NEW p \in Node, NEW k \in Key, HandleSent(n, p, k)
         PROVE TypeOK'
    <3>1. Delivered(EntryLocked(p, k), n) \in Entry
      <4>1. EntryLocked(p, k) \in Entry /\ now \in Nat
        BY EntryLockedFacts DEF TypeOK
      <4>2. MinName(EntryLocked(p, k).owner, n) \in Node
        BY <4>1, MinNameFacts DEF Entry
      <4> QED BY <4>1, <4>2 DEF Delivered, Entry
    <3> QED BY <2>10, <3>1 DEF HandleSent, TypeOK
  <2>11. ASSUME NEW n \in Node, NEW p \in Node, NEW k \in Key, Drop(n, p, k)
         PROVE TypeOK'
    BY <2>11, <2>0 DEF Drop, TypeOK
  <2>12. ASSUME NEW n \in Node, NEW k \in Key, Dispatch(n, k) PROVE TypeOK'
    <3>1. call' \in [Node -> [Key -> Call]]
      <4>1. PICK ph \in Phase : call' = [call EXCEPT ![n][k].phase = ph]
        BY <2>12 DEF Dispatch, Phase
      <4> QED BY <4>1, PhaseUpdate
    <3> QED BY <2>12, <2>0, <3>1 DEF Dispatch, TypeOK
  <2> QED BY <2>1, <2>2, <2>3, <2>4, <2>5, <2>6, <2>7, <2>8, <2>9, <2>10, <2>11, <2>12
          DEF Next
<1> QED BY <1>1, <1>2, PTL DEF Spec

----------------------------------------------------------------------------
(***************************************************************************)
(* SilencedOnlyByLostWatcher is not inductive: it says nothing of the      *)
(* flags and names that nodes have told each other.  The strengthening     *)
(* says, of one incident, that every name in circulation is a candidate's, *)
(* that every sent flag has a sender behind it (or one that died), and     *)
(* that a watcher stood down only for such a one or for a smaller          *)
(* candidate; and that all that is left of an earlier occurrence has       *)
(* expired by the time the next one begins.                                *)
(***************************************************************************)
Accounted(k) == Senders(k) \cup Lost(k)

Clocked(k) ==
  /\ last[k] <= now
  /\ ~ Quiet(k) => last[k] = now
  /\ \A n \in Node : ledger[n][k].at <= last[k]

Current(k) ==
  \A n \in Node :
    /\ call[n][k].occ <= occ[k]
    /\ call[n][k].phase = "asking" => n \in Candidates(k)
    /\ n \in Candidates(k) => call[n][k].phase # "idle"

LedgerInv(k) ==
  \A n \in Node : ~ Expired(ledger[n][k]) =>
    /\ ledger[n][k].owner \in Candidates(k) \cup {NoOne}
    /\ ledger[n][k].sent => Accounted(k) # {}

RequestInv(k) ==
  \A n, p \in Node :
    /\ <<n, p, k>> \in claims => n \in Candidates(k)
    /\ <<n, p, k>> \in sents => n \in Accounted(k)

AskingInv(k) ==
  \A n \in Asking(k) :
    /\ call[n][k].owner \in Candidates(k)
    /\ call[n][k].owner <= n
    /\ call[n][k].sentElsewhere => Accounted(k) # {}

DeclinedInv(k) ==
  \A n \in Declined(k) : Accounted(k) # {} \/ \E m \in Candidates(k) : m < n

KeyInv(k) == /\ Clocked(k) /\ Current(k) /\ LedgerInv(k)
             /\ RequestInv(k) /\ AskingInv(k) /\ DeclinedInv(k)

IInv == TypeOK /\ \A k \in Key : KeyInv(k)

(* A step that leaves alone all that concerns k keeps k's invariant.       *)
LEMMA Frame ==
  ASSUME NEW k \in Key, KeyInv(k),
         now' = now, occ'[k] = occ[k], last'[k] = last[k],
         \A n \in Node : call'[n][k] = call[n][k] /\ ledger'[n][k] = ledger[n][k],
         \A n, p \in Node : (<<n, p, k>> \in claims') = (<<n, p, k>> \in claims),
         \A n, p \in Node : (<<n, p, k>> \in sents') = (<<n, p, k>> \in sents)
  PROVE  KeyInv(k)'
<1>1. /\ Candidates(k)' = Candidates(k)
      /\ Accounted(k)' = Accounted(k)
      /\ Declined(k)' = Declined(k)
      /\ Asking(k)' = Asking(k)
  BY DEF Candidates, Accounted, Senders, Lost, Declined, Asking
<1>2. Quiet(k)' = Quiet(k)
  BY <1>1 DEF Quiet
<1>3. Clocked(k)'
  BY <1>2 DEF KeyInv, Clocked
<1>4. Current(k)'
  BY <1>1 DEF KeyInv, Current
<1>5. LedgerInv(k)'
  BY <1>1 DEF KeyInv, LedgerInv, Expired
<1>6. RequestInv(k)'
  BY <1>1 DEF KeyInv, RequestInv
<1>7. AskingInv(k)'
  BY <1>1 DEF KeyInv, AskingInv, Asking
<1>8. DeclinedInv(k)'
  BY <1>1 DEF KeyInv, DeclinedInv
<1> QED BY <1>3, <1>4, <1>5, <1>6, <1>7, <1>8 DEF KeyInv

(* What the lock hands to a handler: a current entry at most as old as the *)
(* clock, whose names and flags are those of the current occurrence.       *)
LEMMA LockedInv ==
  ASSUME TypeOK, NEW k \in Key, KeyInv(k), NEW n \in Node
  PROVE  LET e == EntryLocked(n, k)
         IN /\ e \in Entry
            /\ e.at <= now
            /\ e.owner \in Candidates(k) \cup {NoOne}
            /\ e.sent => Accounted(k) # {}
<1>1. now \in Nat /\ ledger[n][k] \in Entry /\ last[k] \in Nat
  BY DEF TypeOK
<1>2. ledger[n][k].at <= now
  BY <1>1, TimeAssumption DEF KeyInv, Clocked, Entry
<1>3. ~ Expired(ledger[n][k]) =>
        /\ ledger[n][k].owner \in Candidates(k) \cup {NoOne}
        /\ ledger[n][k].sent => Accounted(k) # {}
  BY DEF KeyInv, LedgerInv
<1>4. [owner |-> NoOne, sent |-> FALSE, at |-> now] \in Entry
  BY <1>1 DEF Entry
<1> QED BY <1>1, <1>2, <1>3, <1>4, EntryLockedFacts

(* Steps that change one call about k from asking to phase ph.             *)
LEMMA DecideSets ==
  ASSUME TypeOK, NEW k \in Key, NEW n \in Node, NEW ph \in Phase,
         call[n][k].phase = "asking", ph # "asking",
         call' = [call EXCEPT ![n][k].phase = ph], occ' = occ
  PROVE  /\ Candidates(k)' = Candidates(k)
         /\ Accounted(k) \subseteq Accounted(k)'
         /\ Asking(k)' = Asking(k) \ {n}
         /\ \A m \in Node : m # n => call'[m][k] = call[m][k]
         /\ call'[n][k].phase = ph
         /\ call'[n][k].occ = call[n][k].occ
<1>1. /\ \A m \in Node : m # n => call'[m][k] = call[m][k]
      /\ call'[n][k] = [call[n][k] EXCEPT !.phase = ph]
  BY DEF TypeOK
<1>2. call[n][k] \in Call
  BY DEF TypeOK
<1>3. call'[n][k].phase = ph /\ call'[n][k].occ = call[n][k].occ
  BY <1>1, <1>2 DEF Call
<1>4. Candidates(k)' = Candidates(k)
  BY <1>1, <1>3 DEF Candidates
<1>5. Accounted(k) \subseteq Accounted(k)'
  BY <1>1, <1>3, <1>4 DEF Accounted, Senders, Lost
<1>6. Asking(k)' = Asking(k) \ {n}
  BY <1>1, <1>3 DEF Asking
<1> QED BY <1>1, <1>3, <1>4, <1>5, <1>6

(* A watcher that stands down leaves behind a sender or a smaller          *)
(* candidate.                                                              *)
LEMMA StandDownInv ==
  ASSUME TypeOK, NEW n \in Node, NEW k \in Key, StandDown(n, k), KeyInv(k)
  PROVE  KeyInv(k)'
<1>1. /\ call[n][k].phase = "asking" /\ call' = [call EXCEPT ![n][k].phase = "declined"]
      /\ UNCHANGED <<now, ledger, claims, sents, occ, last>>
      /\ call[n][k].sentElsewhere \/ call[n][k].owner # n
  BY DEF StandDown
<1>2. /\ Candidates(k)' = Candidates(k)
      /\ Accounted(k) \subseteq Accounted(k)'
      /\ Asking(k)' = Asking(k) \ {n}
      /\ \A m \in Node : m # n => call'[m][k] = call[m][k]
      /\ call'[n][k].phase = "declined"
      /\ call'[n][k].occ = call[n][k].occ
  BY <1>1, DecideSets DEF Phase
<1>3. call'[n][k].phase = "declined" /\ call'[n][k].occ = call[n][k].occ
  BY <1>2
<1>4. Clocked(k)'
  BY <1>1, <1>2 DEF KeyInv, Clocked, Quiet
<1>5. Current(k)'
  BY <1>1, <1>2, <1>3 DEF KeyInv, Current
<1>6. LedgerInv(k)'
  BY <1>1, <1>2 DEF KeyInv, LedgerInv, Expired
<1>7. RequestInv(k)'
  BY <1>1, <1>2 DEF KeyInv, RequestInv
<1>8. AskingInv(k)'
  BY <1>1, <1>2 DEF KeyInv, AskingInv, Asking
<1>9. DeclinedInv(k)'
  <2>1. ASSUME NEW m \in Declined(k)', m # n PROVE m \in Declined(k)
    BY <1>1, <1>2, <2>1 DEF Declined
  <2>2. Accounted(k) # {} \/ \E m \in Candidates(k) : m < n
    <3>1. n \in Asking(k)
      BY <1>1 DEF Asking
    <3>2. /\ call[n][k].owner \in Candidates(k) /\ call[n][k].owner <= n
          /\ call[n][k].sentElsewhere => Accounted(k) # {}
      BY <3>1 DEF KeyInv, AskingInv
    <3>3. call[n][k].owner \in Nat /\ n \in Nat
      BY <3>2, NodeAssumption DEF Candidates
    <3> QED BY <1>1, <3>2, <3>3
  <2> QED BY <1>2, <2>1, <2>2 DEF KeyInv, DeclinedInv
<1> QED BY <1>4, <1>5, <1>6, <1>7, <1>8, <1>9 DEF KeyInv

(* The outcome of a mail changes nothing about who has decided what.       *)
LEMMA DispatchInv ==
  ASSUME TypeOK, NEW n \in Node, NEW k \in Key, Dispatch(n, k), KeyInv(k)
  PROVE  KeyInv(k)'
<1>1. PICK ph \in {"mailed", "failed"} :
        /\ call[n][k].phase = "won" /\ call' = [call EXCEPT ![n][k].phase = ph]
        /\ UNCHANGED <<now, ledger, claims, sents, occ, last>>
  BY DEF Dispatch
<1>2. call[n][k] \in Call
  BY DEF TypeOK
<1>3. /\ \A m \in Node : m # n => call'[m][k] = call[m][k]
      /\ call'[n][k] = [call[n][k] EXCEPT !.phase = ph]
  BY <1>1 DEF TypeOK
<1>4. call'[n][k].phase = ph /\ call'[n][k].occ = call[n][k].occ
  BY <1>2, <1>3 DEF Call
<1>5. /\ Candidates(k)' = Candidates(k)
      /\ Asking(k)' = Asking(k)
  BY <1>1, <1>3, <1>4 DEF Candidates, Asking
<1>6. /\ Accounted(k)' = Accounted(k)
      /\ Declined(k)' = Declined(k)
  BY <1>1, <1>3, <1>4, <1>5 DEF Accounted, Senders, Lost, Declined
<1>7. Clocked(k)'
  BY <1>1, <1>5 DEF KeyInv, Clocked, Quiet
<1>8. Current(k)'
  BY <1>1, <1>3, <1>4, <1>5 DEF KeyInv, Current
<1>9. LedgerInv(k)'
  BY <1>1, <1>5, <1>6 DEF KeyInv, LedgerInv, Expired
<1>10. RequestInv(k)'
  BY <1>1, <1>5, <1>6 DEF KeyInv, RequestInv
<1>11. AskingInv(k)'
  BY <1>1, <1>3, <1>5, <1>6 DEF KeyInv, AskingInv, Asking
<1>12. DeclinedInv(k)'
  BY <1>5, <1>6 DEF KeyInv, DeclinedInv
<1> QED BY <1>7, <1>8, <1>9, <1>10, <1>11, <1>12 DEF KeyInv

(* The watcher that wins is a sender, or has raced with one, whatever its  *)
(* ledger says of the loser.                                               *)
LEMMA WinInv ==
  ASSUME TypeOK, NEW n \in Node, NEW k \in Key, Win(n, k), KeyInv(k)
  PROVE  KeyInv(k)'
<1> DEFINE e == EntryLocked(n, k)
<1>1. PICK ph \in {"won", "declined"} :
        /\ call[n][k].phase = "asking" /\ call' = [call EXCEPT ![n][k].phase = ph]
        /\ ph = "declined" => RacedOut(e, n)
        /\ ph = "declined" => UNCHANGED sents
        /\ ph = "won" => sents' = sents \cup {<<n, p, k>> : p \in call[n][k].peers}
        /\ ledger' = [ledger EXCEPT ![n][k] = Committed(e, n)]
        /\ UNCHANGED <<now, claims, occ, last>>
  BY DEF Win
<1>2. /\ Candidates(k)' = Candidates(k)
      /\ Accounted(k) \subseteq Accounted(k)'
      /\ Asking(k)' = Asking(k) \ {n}
      /\ \A m \in Node : m # n => call'[m][k] = call[m][k]
      /\ call'[n][k].phase = ph
      /\ call'[n][k].occ = call[n][k].occ
  <2>1. ph \in Phase /\ ph # "asking" /\ occ' = occ /\ call[n][k].phase = "asking"
    BY <1>1 DEF Phase
  <2>2. call' = [call EXCEPT ![n][k].phase = ph]
    BY <1>1
  <2> QED BY <2>1, <2>2, DecideSets, TypeOK
<1>3. call'[n][k].phase = ph /\ call'[n][k].occ = call[n][k].occ
  BY <1>2
<1>4. n \in Candidates(k) /\ n \in Asking(k)
  BY <1>1 DEF KeyInv, Current, Asking
<1>5. ph = "won" => n \in Accounted(k)'
  BY <1>2, <1>3, <1>4 DEF Accounted, Senders, Lost
<1>6. Accounted(k)' # {}
  <2>1. CASE ph = "won"
    BY <1>5, <2>1
  <2>2. CASE ph = "declined"
    <3>1. e.sent
      BY <1>1, <2>2 DEF RacedOut
    <3> QED BY <1>2, <3>1, LockedInv
  <2> QED BY <2>1, <2>2
<1>7. e \in Entry /\ e.at <= now
  BY LockedInv
<1>8. /\ \A m \in Node : m # n => ledger'[m][k] = ledger[m][k]
      /\ ledger'[n][k] = Committed(e, n)
  BY <1>1 DEF TypeOK
<1>9. Committed(e, n).at = e.at /\ Committed(e, n).owner = n
  BY <1>7 DEF Committed, Entry
<1>10. last[k] = now
  BY <1>4 DEF KeyInv, Clocked, Quiet
<1>11. Clocked(k)'
  BY <1>1, <1>7, <1>8, <1>9, <1>10 DEF KeyInv, Clocked, Quiet
<1>12. Current(k)'
  BY <1>1, <1>2, <1>3 DEF KeyInv, Current
<1>13. LedgerInv(k)'
  BY <1>1, <1>2, <1>4, <1>6, <1>8, <1>9 DEF KeyInv, LedgerInv, Expired
<1>14. RequestInv(k)'
  <2> SUFFICES ASSUME NEW m \in Node, NEW p \in Node
               PROVE  /\ <<m, p, k>> \in claims' => m \in Candidates(k)'
                      /\ <<m, p, k>> \in sents' => m \in Accounted(k)'
    BY DEF RequestInv
  <2>1. /\ <<m, p, k>> \in claims => m \in Candidates(k)
        /\ <<m, p, k>> \in sents => m \in Accounted(k)
    BY DEF KeyInv, RequestInv
  <2>2. CASE ph = "won"
    BY <1>1, <1>2, <1>5, <2>1, <2>2
  <2>3. CASE ph = "declined"
    BY <1>1, <1>2, <2>1, <2>3
  <2> QED BY <2>2, <2>3
<1>15. AskingInv(k)'
  BY <1>1, <1>2, <1>6 DEF KeyInv, AskingInv, Asking
<1>16. DeclinedInv(k)'
  BY <1>6 DEF DeclinedInv
<1> QED BY <1>11, <1>12, <1>13, <1>14, <1>15, <1>16 DEF KeyInv

(* An alert-sent request comes from a sender, so the flag it sets is       *)
(* true.                                                                   *)
LEMMA HandleSentInv ==
  ASSUME TypeOK, NEW n \in Node, NEW p \in Node, NEW k \in Key,
         HandleSent(n, p, k), KeyInv(k)
  PROVE  KeyInv(k)'
<1> DEFINE e == EntryLocked(p, k)
<1>1. /\ <<n, p, k>> \in sents /\ sents' = sents \ {<<n, p, k>>}
      /\ ledger' = [ledger EXCEPT ![p][k] = Delivered(e, n)]
      /\ UNCHANGED <<now, call, claims, occ, last>>
  BY DEF HandleSent
<1>2. /\ Candidates(k)' = Candidates(k)
      /\ Accounted(k)' = Accounted(k)
      /\ Declined(k)' = Declined(k)
      /\ Asking(k)' = Asking(k)
  BY <1>1 DEF Candidates, Accounted, Senders, Lost, Declined, Asking
<1>3. n \in Accounted(k) /\ n \in Candidates(k)
  BY <1>1 DEF KeyInv, RequestInv, Accounted, Senders, Lost
<1>4. last[k] = now /\ now \in Nat
  BY <1>1 DEF KeyInv, Clocked, Quiet, TypeOK
<1>5. e \in Entry /\ e.owner \in Candidates(k) \cup {NoOne}
  BY LockedInv
<1>6. MinName(e.owner, n) \in Candidates(k)
  BY <1>3, <1>5 DEF MinName
<1>7. /\ \A m \in Node : m # p => ledger'[m][k] = ledger[m][k]
      /\ ledger'[p][k] = Delivered(e, n)
  BY <1>1 DEF TypeOK
<1>8. Clocked(k)'
  BY <1>1, <1>2, <1>4, <1>7 DEF KeyInv, Clocked, Quiet, Delivered
<1>9. Current(k)'
  BY <1>1, <1>2 DEF KeyInv, Current
<1>10. LedgerInv(k)'
  BY <1>1, <1>2, <1>3, <1>6, <1>7 DEF KeyInv, LedgerInv, Expired, Delivered
<1>11. RequestInv(k)'
  BY <1>1, <1>2 DEF KeyInv, RequestInv
<1>12. AskingInv(k)'
  BY <1>1, <1>2 DEF KeyInv, AskingInv
<1>13. DeclinedInv(k)'
  BY <1>1, <1>2 DEF KeyInv, DeclinedInv
<1> QED BY <1>8, <1>9, <1>10, <1>11, <1>12, <1>13 DEF KeyInv

(* Giving up on a peer tells the asker nothing.                            *)
LEMMA NoAnswerInv ==
  ASSUME TypeOK, NEW n \in Node, NEW p \in Node, NEW k \in Key,
         NoAnswer(n, p, k), KeyInv(k)
  PROVE  KeyInv(k)'
<1>1. /\ claims' \subseteq claims
      /\ p \in call[n][k].pending
      /\ call' = [call EXCEPT ![n][k].pending = @ \ {p}]
      /\ UNCHANGED <<now, ledger, sents, occ, last>>
  BY DEF NoAnswer
<1>2. \A m \in Node : /\ call'[m][k].occ = call[m][k].occ
                       /\ call'[m][k].phase = call[m][k].phase
                       /\ call'[m][k].owner = call[m][k].owner
                       /\ call'[m][k].sentElsewhere = call[m][k].sentElsewhere
  <2> SUFFICES ASSUME NEW m \in Node
               PROVE  /\ call'[m][k].occ = call[m][k].occ
                      /\ call'[m][k].phase = call[m][k].phase
                      /\ call'[m][k].owner = call[m][k].owner
                      /\ call'[m][k].sentElsewhere = call[m][k].sentElsewhere
    OBVIOUS
  <2>1. call[m][k] \in Call /\ call[n][k] \in Call
    BY DEF TypeOK
  <2>2. call'[m][k] = IF m = n THEN [call[n][k] EXCEPT !.pending = @ \ {p}] ELSE call[m][k]
    BY <1>1 DEF TypeOK
  <2> QED BY <2>1, <2>2 DEF Call
<1>3. /\ Candidates(k)' = Candidates(k)
      /\ Accounted(k)' = Accounted(k)
      /\ Declined(k)' = Declined(k)
      /\ Asking(k)' = Asking(k)
  BY <1>1, <1>2 DEF Candidates, Accounted, Senders, Lost, Declined, Asking
<1>4. Clocked(k)'
  BY <1>1, <1>3 DEF KeyInv, Clocked, Quiet
<1>5. Current(k)'
  BY <1>1, <1>2, <1>3 DEF KeyInv, Current
<1>6. LedgerInv(k)'
  BY <1>1, <1>3 DEF KeyInv, LedgerInv, Expired
<1>7. RequestInv(k)'
  BY <1>1, <1>3 DEF KeyInv, RequestInv
<1>8. AskingInv(k)'
  BY <1>2, <1>3 DEF KeyInv, AskingInv, Asking
<1>9. DeclinedInv(k)'
  BY <1>3 DEF KeyInv, DeclinedInv
<1> QED BY <1>4, <1>5, <1>6, <1>7, <1>8, <1>9 DEF KeyInv

(* A request that is lost changes no ledger and no call.                   *)
LEMMA DropInv ==
  ASSUME TypeOK, NEW n \in Node, NEW p \in Node, NEW k \in Key, NEW j \in Key,
         Drop(n, p, k), KeyInv(j)
  PROVE  KeyInv(j)'
<1>1. /\ claims' \subseteq claims /\ sents' \subseteq sents
      /\ UNCHANGED <<now, ledger, call, occ, last>>
  BY DEF Drop
<1>2. /\ Candidates(j)' = Candidates(j)
      /\ Accounted(j)' = Accounted(j)
      /\ Declined(j)' = Declined(j)
      /\ Asking(j)' = Asking(j)
  BY <1>1 DEF Candidates, Accounted, Senders, Lost, Declined, Asking
<1>3. Clocked(j)'
  BY <1>1, <1>2 DEF KeyInv, Clocked, Quiet
<1>4. RequestInv(j)'
  BY <1>1, <1>2 DEF KeyInv, RequestInv
<1> QED BY <1>1, <1>2, <1>3, <1>4
        DEF KeyInv, Current, LedgerInv, Expired, AskingInv, DeclinedInv

(* Answering a claim hands on only the names of candidates and flags that  *)
(* have a sender behind them.                                              *)
LEMMA HandleClaimInv ==
  ASSUME TypeOK, NEW n \in Node, NEW p \in Node, NEW k \in Key,
         HandleClaim(n, p, k), KeyInv(k)
  PROVE  KeyInv(k)'
<1> DEFINE e == Claimed(EntryLocked(p, k), n)
<1>1. PICK heard \in BOOLEAN :
        /\ <<n, p, k>> \in claims /\ claims' = claims \ {<<n, p, k>>}
        /\ ledger' = [ledger EXCEPT ![p][k] = e]
        /\ call' = [call EXCEPT ![n][k] = Answered(@, p, e, heard)]
        /\ UNCHANGED <<now, sents, occ, last>>
  BY DEF HandleClaim
<1> DEFINE c == Answered(call[n][k], p, e, heard)
<1>2. n \in Candidates(k)
  BY <1>1 DEF KeyInv, RequestInv
<1>3. last[k] = now /\ now \in Nat
  BY <1>1 DEF KeyInv, Clocked, Quiet, TypeOK
<1>4. EntryLocked(p, k) \in Entry /\ EntryLocked(p, k).owner \in Candidates(k) \cup {NoOne}
  BY LockedInv
<1>5. /\ e.owner \in Candidates(k)
      /\ e.sent => Accounted(k) # {}
      /\ e.at = now
  <2>1. MinName(EntryLocked(p, k).owner, n) \in Candidates(k)
    BY <1>2, <1>4 DEF MinName
  <2> QED BY <2>1, LockedInv DEF Claimed
<1>6. call[n][k] \in Call
  BY DEF TypeOK
<1>7. /\ c.occ = call[n][k].occ /\ c.phase = call[n][k].phase
      /\ c.owner = IF heard THEN MinName(call[n][k].owner, e.owner) ELSE call[n][k].owner
      /\ c.sentElsewhere = (call[n][k].sentElsewhere \/ (heard /\ e.sent))
  BY <1>6 DEF Answered, Call
<1>8. /\ \A m \in Node : m # n => call'[m][k] = call[m][k]
      /\ call'[n][k] = c
      /\ \A m \in Node : m # p => ledger'[m][k] = ledger[m][k]
      /\ ledger'[p][k] = e
  BY <1>1 DEF TypeOK
<1> HIDE DEF c, e
<1>9. /\ Candidates(k)' = Candidates(k)
      /\ Asking(k)' = Asking(k)
  BY <1>1, <1>7, <1>8 DEF Candidates, Asking
<1>10. /\ Accounted(k)' = Accounted(k)
       /\ Declined(k)' = Declined(k)
  <2>1. \A m \in Node : call'[m][k].phase = call[m][k].phase
    BY <1>7, <1>8
  <2> QED BY <1>9, <2>1 DEF Accounted, Senders, Lost, Declined, Candidates
<1>11. Clocked(k)'
  BY <1>1, <1>3, <1>5, <1>8, <1>9 DEF KeyInv, Clocked, Quiet
<1>12. Current(k)'
  BY <1>1, <1>7, <1>8, <1>9 DEF KeyInv, Current
<1>13. LedgerInv(k)'
  BY <1>1, <1>5, <1>8, <1>9, <1>10 DEF KeyInv, LedgerInv, Expired
<1>14. RequestInv(k)'
  BY <1>1, <1>9, <1>10 DEF KeyInv, RequestInv
<1>15. AskingInv(k)'
  <2> SUFFICES ASSUME NEW m \in Asking(k)
               PROVE  /\ call'[m][k].owner \in Candidates(k)
                      /\ call'[m][k].owner <= m
                      /\ call'[m][k].sentElsewhere => Accounted(k) # {}
    BY <1>9, <1>10 DEF AskingInv
  <2>1. /\ m \in Node
        /\ call[m][k].owner \in Candidates(k)
        /\ call[m][k].owner <= m
        /\ call[m][k].sentElsewhere => Accounted(k) # {}
    BY DEF KeyInv, AskingInv, Asking
  <2>2. CASE m # n
    BY <1>8, <2>1, <2>2
  <2>3. CASE m = n
    <3>1. call[n][k].owner \in Nat /\ n \in Nat /\ e.owner \in Nat
      BY <1>5, <2>1, <2>3, NodeAssumption DEF Candidates
    <3>2. c.owner \in Candidates(k) /\ c.owner <= n
      <4>1. CASE heard
        <5> DEFINE a == call[n][k].owner
        <5>1. a \in Candidates(k) /\ a \in Node /\ a # NoOne /\ a <= n
          BY <2>1, <2>3, NodeAssumption DEF Candidates, NoOne
        <5>2. e.owner \in Node
          BY <1>5 DEF Candidates
        <5>3. MinName(a, e.owner) \in {a, e.owner} /\ MinName(a, e.owner) <= a
          BY <5>1, <5>2, MinNameFacts
        <5>4. c.owner = MinName(a, e.owner)
          BY <1>7, <4>1
        <5> HIDE DEF a
        <5> QED BY <1>5, <3>1, <5>1, <5>2, <5>3, <5>4, NodeAssumption
      <4>2. CASE ~ heard
        BY <1>7, <2>1, <2>3, <4>2
      <4> QED BY <4>1, <4>2
    <3> QED BY <1>5, <1>7, <1>8, <2>1, <2>3, <3>2
  <2> QED BY <2>2, <2>3
<1>16. DeclinedInv(k)'
  BY <1>9, <1>10 DEF KeyInv, DeclinedInv
<1> QED BY <1>11, <1>12, <1>13, <1>14, <1>15, <1>16 DEF KeyInv

(* A watcher that begins becomes a candidate, and stands down at once      *)
(* only if its ledger knows of a sender.                                   *)
LEMMA BeginInv ==
  ASSUME TypeOK, NEW n \in Node, NEW k \in Key, Begin(n, k), KeyInv(k)
  PROVE  KeyInv(k)'
<1> DEFINE e == EntryLocked(n, k)
           mine == MinName(e.owner, n)
<1>1. PICK c \in [occ : {occ[k]}, phase : {IF e.sent THEN "declined" ELSE "asking"},
                   peers : SUBSET Node, pending : SUBSET Node, owner : {mine},
                   sentElsewhere : {FALSE}, late : BOOLEAN] :
        /\ call' = [call EXCEPT ![n][k] = c]
        /\ claims' \subseteq claims \cup {<<n, p, k>> : p \in Node}
  <2>1. PICK lost \in BOOLEAN :
           LET ps == IF lost THEN {} ELSE PeersOf[n] \ {n} IN
           /\ call' = [call EXCEPT ![n][k] =
                        [occ |-> occ[k],
                         phase |-> IF e.sent THEN "declined" ELSE "asking",
                         peers |-> ps,
                         pending |-> IF e.sent THEN {} ELSE ps,
                         owner |-> mine,
                         sentElsewhere |-> FALSE,
                         late |-> Senders(k) \cap PeersOf[n] # {}]]
           /\ claims' = claims \cup (IF e.sent THEN {} ELSE {<<n, p, k>> : p \in ps})
    BY DEF Begin
  <2> DEFINE ps == IF lost THEN {} ELSE PeersOf[n] \ {n}
             c == [occ |-> occ[k],
                   phase |-> IF e.sent THEN "declined" ELSE "asking",
                   peers |-> ps,
                   pending |-> IF e.sent THEN {} ELSE ps,
                   owner |-> mine,
                   sentElsewhere |-> FALSE,
                   late |-> Senders(k) \cap PeersOf[n] # {}]
  <2>2. ps \subseteq Node
    BY PeersAssumption
  <2>3. claims' \subseteq claims \cup {<<n, p, k>> : p \in Node}
    BY <2>1, <2>2
  <2>4. call' = [call EXCEPT ![n][k] = c]
    BY <2>1
  <2>5. c \in [occ : {occ[k]}, phase : {IF e.sent THEN "declined" ELSE "asking"},
               peers : SUBSET Node, pending : SUBSET Node, owner : {mine},
               sentElsewhere : {FALSE}, late : BOOLEAN]
    BY <2>2
  <2> HIDE DEF c
  <2> QED BY <2>3, <2>4, <2>5
<1>2. /\ call[n][k].occ < occ[k] /\ call[n][k].phase # "asking"
      /\ ledger' = [ledger EXCEPT ![n][k] = [e EXCEPT !.owner = mine]]
      /\ last' = [last EXCEPT ![k] = now]
      /\ UNCHANGED <<now, sents, occ>>
  BY DEF Begin
<1>3. /\ \A m \in Node : m # n => call'[m][k] = call[m][k]
      /\ call'[n][k] = c
      /\ \A m \in Node : m # n => ledger'[m][k] = ledger[m][k]
      /\ ledger'[n][k] = [e EXCEPT !.owner = mine]
      /\ last'[k] = now
  BY <1>1, <1>2 DEF TypeOK
<1>4. /\ e \in Entry /\ e.at <= now
      /\ e.owner \in Candidates(k) \cup {NoOne}
      /\ e.sent => Accounted(k) # {}
  BY LockedInv
<1>5. /\ ledger'[n][k].at = e.at /\ ledger'[n][k].owner = mine
      /\ ledger'[n][k].sent = e.sent
  BY <1>3, <1>4 DEF Entry
<1> HIDE DEF e
<1>6. occ[k] > 0 /\ n \notin Candidates(k)
  <2>1. call[n][k].occ \in Nat /\ occ[k] \in Nat
    BY DEF TypeOK, Call
  <2> QED BY <1>2, <2>1 DEF Candidates
<1>7. Candidates(k)' = Candidates(k) \cup {n}
  BY <1>1, <1>2, <1>3, <1>6 DEF Candidates
<1>8. Accounted(k) \subseteq Accounted(k)'
  <2> SUFFICES ASSUME NEW m \in Accounted(k) PROVE m \in Accounted(k)'
    OBVIOUS
  <2>1. m \in Candidates(k) /\ m \in Node /\ m # n
    BY <1>6 DEF Accounted, Senders, Lost, Candidates
  <2> QED BY <1>3, <1>7, <2>1 DEF Accounted, Senders, Lost
<1>9. mine \in Candidates(k)' /\ mine <= n
  <2>1. e.owner \in Node \cup {NoOne}
    BY <1>4 DEF Candidates
  <2>2. mine \in {e.owner, n} /\ mine <= n /\ mine \in Node
    BY <2>1, MinNameFacts
  <2>3. mine # NoOne
    BY <2>2, NodeAssumption DEF NoOne
  <2> QED BY <1>4, <1>7, <2>2, <2>3
<1> HIDE DEF mine
<1>10. Clocked(k)'
  <2>1. \A m \in Node : ledger[m][k].at <= now
    <3> SUFFICES ASSUME NEW m \in Node PROVE ledger[m][k].at <= now
      OBVIOUS
    <3>1. ledger[m][k] \in Entry /\ last[k] \in Nat /\ now \in Nat
      BY DEF TypeOK
    <3> QED BY <3>1, TimeAssumption DEF KeyInv, Clocked, Entry
  <2>2. now \in Nat
    BY DEF TypeOK
  <2> QED BY <1>2, <1>3, <1>4, <1>5, <2>1, <2>2 DEF Clocked
<1>11. Current(k)'
  <2>1. occ[k] \in Nat
    BY DEF TypeOK
  <2> QED BY <1>1, <1>2, <1>3, <1>7, <2>1 DEF KeyInv, Current
<1>12. LedgerInv(k)'
  BY <1>2, <1>3, <1>4, <1>5, <1>7, <1>8, <1>9 DEF KeyInv, LedgerInv, Expired
<1>13. RequestInv(k)'
  BY <1>1, <1>2, <1>7, <1>8 DEF KeyInv, RequestInv
<1>14. AskingInv(k)'
  <2> SUFFICES ASSUME NEW m \in Asking(k)'
               PROVE  /\ call'[m][k].owner \in Candidates(k)'
                      /\ call'[m][k].owner <= m
                      /\ call'[m][k].sentElsewhere => Accounted(k)' # {}
    BY DEF AskingInv
  <2>1. CASE m = n
    BY <1>1, <1>3, <1>9, <2>1
  <2>2. CASE m # n
    <3>1. m \in Asking(k)
      BY <1>3, <2>2 DEF Asking
    <3> QED BY <1>3, <1>7, <1>8, <2>2, <3>1 DEF KeyInv, AskingInv, Asking
  <2> QED BY <2>1, <2>2
<1>15. DeclinedInv(k)'
  <2> SUFFICES ASSUME NEW m \in Declined(k)'
               PROVE  Accounted(k)' # {} \/ \E i \in Candidates(k)' : i < m
    BY DEF DeclinedInv
  <2>1. CASE m = n
    <3>1. e.sent
      BY <1>1, <1>3, <2>1 DEF Declined
    <3> QED BY <1>4, <1>8, <3>1
  <2>2. CASE m # n
    <3>1. m \in Declined(k)
      <4>1. m \in Candidates(k) /\ m \in Node
        BY <1>7, <2>2 DEF Declined, Candidates
      <4> QED BY <1>3, <2>2, <4>1 DEF Declined
    <3> QED BY <1>7, <1>8, <3>1 DEF KeyInv, DeclinedInv
  <2> QED BY <2>1, <2>2
<1> QED BY <1>10, <1>11, <1>12, <1>13, <1>14, <1>15 DEF KeyInv

(* Time passes only while nobody talks about k, and expires entries only.  *)
LEMMA TickInv ==
  ASSUME TypeOK, Tick, NEW k \in Key, KeyInv(k)
  PROVE  KeyInv(k)'
<1>1. /\ Quiet(k) /\ now' = now + 1
      /\ UNCHANGED <<ledger, call, claims, sents, occ, last>>
  BY DEF Tick
<1>2. /\ Candidates(k)' = Candidates(k)
      /\ Accounted(k)' = Accounted(k)
      /\ Declined(k)' = Declined(k)
      /\ Asking(k)' = Asking(k)
  BY <1>1 DEF Candidates, Accounted, Senders, Lost, Declined, Asking
<1>3. Quiet(k)'
  BY <1>1, <1>2 DEF Quiet
<1>4. now \in Nat /\ last[k] \in Nat
  BY DEF TypeOK
<1>5. Clocked(k)'
  BY <1>1, <1>3, <1>4 DEF KeyInv, Clocked
<1>6. LedgerInv(k)'
  <2> SUFFICES ASSUME NEW n \in Node, ~ Expired(ledger[n][k])'
               PROVE  ~ Expired(ledger[n][k])
    BY <1>1, <1>2 DEF KeyInv, LedgerInv
  <2>1. ledger[n][k].at \in Int
    <3>1. ledger[n][k] \in Entry
      BY DEF TypeOK
    <3> QED BY <3>1, TimeAssumption DEF Entry
  <2> QED BY <1>1, <1>4, <2>1, TimeAssumption DEF Expired
<1> QED BY <1>1, <1>2, <1>5, <1>6
        DEF KeyInv, Current, RequestInv, AskingInv, DeclinedInv

(* A new occurrence of k finds nothing but expired entries about k.        *)
LEMMA OccurInv ==
  ASSUME TypeOK, NEW k \in Key, Occur(k), KeyInv(k), MinGap > TTL
  PROVE  KeyInv(k)'
<1>1. /\ Quiet(k)
      /\ occ[k] > 0 => now >= last[k] + MinGap
      /\ occ' = [occ EXCEPT ![k] = @ + 1]
      /\ UNCHANGED <<now, ledger, call, claims, sents, last>>
  BY DEF Occur
<1>2. occ[k] \in Nat /\ occ'[k] = occ[k] + 1 /\ now \in Nat /\ last[k] \in Nat
  BY <1>1 DEF TypeOK
<1>3. Candidates(k)' = {}
  <2> SUFFICES ASSUME NEW n \in Node PROVE call[n][k].occ # occ[k] + 1
    BY <1>1, <1>2 DEF Candidates
  <2>1. call[n][k].occ \in Nat /\ call[n][k].occ <= occ[k]
    BY DEF TypeOK, Call, KeyInv, Current
  <2> QED BY <1>2, <2>1
<1>4. Asking(k)' = {} /\ Quiet(k)'
  <2>1. Asking(k)' = Asking(k)
    BY <1>1 DEF Asking
  <2> QED BY <1>1, <2>1 DEF Quiet
<1>5. Clocked(k)'
  BY <1>1, <1>4 DEF KeyInv, Clocked
<1>6. Current(k)'
  <2> SUFFICES ASSUME NEW n \in Node
               PROVE  call[n][k].occ <= occ[k] + 1 /\ call[n][k].phase # "asking"
    BY <1>1, <1>2, <1>3 DEF Current
  <2>1. call[n][k].occ \in Nat /\ call[n][k].occ <= occ[k]
    BY DEF TypeOK, Call, KeyInv, Current
  <2> QED BY <1>1, <1>2, <2>1 DEF Quiet, Asking
<1>7. LedgerInv(k)'
  <2> SUFFICES ASSUME NEW n \in Node, ~ Expired(ledger[n][k])
               PROVE  ledger[n][k].owner = NoOne /\ ~ ledger[n][k].sent
    BY <1>1 DEF LedgerInv, Expired
  <2>1. ledger[n][k].at \in Int /\ ledger[n][k].at <= last[k]
    <3>1. ledger[n][k] \in Entry
      BY DEF TypeOK
    <3> QED BY <3>1, TimeAssumption DEF Entry, KeyInv, Clocked
  <2>2. occ[k] = 0
    BY <1>1, <1>2, <2>1, TimeAssumption DEF Expired
  <2>3. Candidates(k) = {} /\ Accounted(k) = {}
    BY <2>2 DEF Candidates, Accounted, Senders, Lost
  <2> QED BY <2>3 DEF KeyInv, LedgerInv
<1>8. RequestInv(k)'
  BY <1>1, <1>4 DEF RequestInv, Quiet
<1>9. AskingInv(k)'
  BY <1>4 DEF AskingInv
<1>10. DeclinedInv(k)'
  BY <1>3 DEF DeclinedInv, Declined
<1> QED BY <1>5, <1>6, <1>7, <1>8, <1>9, <1>10 DEF KeyInv

(* A crash of n forgets n's ledger, and turns n's calls and mails under    *)
(* way into lost ones; everyone else only stops waiting for n.             *)
LEMMA CrashInv ==
  ASSUME TypeOK, NEW n \in Node, NEW k \in Key, Crash(n), KeyInv(k)
  PROVE  KeyInv(k)'
<1>1. /\ claims' \subseteq claims /\ sents' \subseteq sents
      /\ UNCHANGED <<now, occ, last>>
  BY DEF Crash
<1>2. \A m \in Node : ledger'[m][k] = IF m = n THEN NoEntry ELSE ledger[m][k]
  BY DEF Crash, TypeOK
<1>3. ASSUME NEW m \in Node
      PROVE  /\ call'[m][k].occ = call[m][k].occ
             /\ call'[m][k].owner = call[m][k].owner
             /\ call'[m][k].sentElsewhere = call[m][k].sentElsewhere
             /\ \/ call'[m][k].phase = call[m][k].phase
                \/ /\ call[m][k].phase \in {"asking", "won"}
                   /\ call'[m][k].phase = "lost"
  <2>1. call[m][k] \in Call
    BY DEF TypeOK
  <2>2. call'[m][k] = IF m # n THEN [call[m][k] EXCEPT !.pending = @ \ {n}]
                      ELSE IF call[n][k].phase \in {"asking", "won"}
                        THEN [call[n][k] EXCEPT !.phase = "lost", !.pending = {}]
                        ELSE call[n][k]
    BY DEF Crash
  <2> QED BY <2>1, <2>2 DEF Call
<1>4. Candidates(k)' = Candidates(k) /\ Candidates(k) \subseteq Node
  BY <1>1, <1>3 DEF Candidates
<1>5. Asking(k)' \subseteq Asking(k)
  BY <1>3 DEF Asking
<1>6. Accounted(k) \subseteq Accounted(k)'
  <2> SUFFICES ASSUME NEW m \in Accounted(k) PROVE m \in Accounted(k)'
    OBVIOUS
  <2>1. m \in Candidates(k)' /\ m \in Node
    BY <1>4 DEF Accounted, Senders, Lost
  <2>2. call[m][k].phase \in {"won", "mailed", "failed", "lost"}
    BY DEF Accounted, Senders, Lost
  <2>3. call'[m][k].phase \in {"won", "mailed", "failed", "lost"}
    BY <1>3, <2>1, <2>2
  <2> QED BY <2>1, <2>3, <1>4 DEF Accounted, Senders, Lost
<1>7. Declined(k)' \subseteq Declined(k)
  BY <1>3, <1>4 DEF Declined
<1>8. ~ Quiet(k)' => ~ Quiet(k)
  BY <1>1, <1>5 DEF Quiet
<1>9. last[k] \in Nat
  BY DEF TypeOK
<1>10. Clocked(k)'
  BY <1>1, <1>2, <1>8, <1>9, TimeAssumption DEF KeyInv, Clocked, NoEntry
<1>11. Current(k)'
  BY <1>1, <1>3, <1>4 DEF KeyInv, Current
<1>12. LedgerInv(k)'
  BY <1>1, <1>2, <1>4, <1>6 DEF KeyInv, LedgerInv, Expired, NoEntry
<1>13. RequestInv(k)'
  BY <1>1, <1>4, <1>6 DEF KeyInv, RequestInv
<1>14. AskingInv(k)'
  BY <1>3, <1>4, <1>5, <1>6 DEF KeyInv, AskingInv, Asking
<1>15. DeclinedInv(k)'
  BY <1>4, <1>6, <1>7 DEF KeyInv, DeclinedInv
<1> QED BY <1>10, <1>11, <1>12, <1>13, <1>14, <1>15 DEF KeyInv

(* Of the candidates of an occurrence, one has the smallest name.          *)
LEMMA SmallestCandidate ==
  ASSUME NEW S \in SUBSET Node, S # {}
  PROVE  \E m \in S : \A i \in S : ~ (i < m)
<1>1. S \subseteq Nat
  BY NodeAssumption
<1>2. PICK m \in S : \A i \in S : ~ (<<i, m>> \in OpToRel(<, Nat))
  BY <1>1, WFMin, NatLessThanWellFounded
<1> QED BY <1>1, <1>2 DEF OpToRel

(* The invariant leaves no incident silent: were nobody to have sent it,   *)
(* the smallest candidate would have had no one to stand down for.         *)
LEMMA InvNoSilence == IInv => SilencedOnlyByLostWatcher
<1> SUFFICES ASSUME IInv, NEW k \in Key, Declined(k) # {}, Deciding(k) = {},
                    Accounted(k) = {}
             PROVE  FALSE
  BY DEF SilencedOnlyByLostWatcher, Accounted
<1>1. Candidates(k) # {} /\ Candidates(k) \subseteq Node
  BY DEF Declined, Candidates
<1>2. PICK m \in Candidates(k) : \A i \in Candidates(k) : ~ (i < m)
  BY <1>1, SmallestCandidate
<1>3. call[m][k].phase \in Phase
  BY <1>1 DEF IInv, TypeOK, Call
<1>4. call[m][k].phase # "idle"
  BY <1>1 DEF IInv, KeyInv, Current
<1>5. m \in Declined(k)
  BY <1>3, <1>4 DEF Phase, Declined, Deciding, Accounted, Senders, Lost
<1> QED BY <1>2, <1>5 DEF IInv, KeyInv, DeclinedInv

----------------------------------------------------------------------------
(* The strengthening is inductive when occurrences of one incident are     *)
(* more than the TTL apart.                                                *)
LEMMA InvInductive ==
  ASSUME MinGap > TTL, IInv, TypeOK', [Next]_vars
  PROVE  IInv'
<1> USE DEF IInv
<1> SUFFICES ASSUME NEW j \in Key PROVE KeyInv(j)'
  OBVIOUS
<1>0. KeyInv(j) /\ TypeOK
  OBVIOUS
<1>1. CASE UNCHANGED vars
  BY <1>0, <1>1, Frame DEF vars
<1>2. CASE Tick
  BY <1>0, <1>2, TickInv
<1>3. ASSUME NEW k \in Key, Occur(k) PROVE KeyInv(j)'
  <2>1. CASE j = k
    BY <1>0, <1>3, <2>1, OccurInv
  <2>2. CASE j # k
    <3>1. occ'[j] = occ[j]
      BY <1>0, <1>3, <2>2 DEF Occur, TypeOK
    <3> QED BY <1>0, <1>3, <3>1, Frame DEF Occur
  <2> QED BY <2>1, <2>2
<1>4. ASSUME NEW n \in Node, Crash(n) PROVE KeyInv(j)'
  BY <1>0, <1>4, CrashInv
<1>5. ASSUME NEW n \in Node, NEW k \in Key,
             Begin(n, k) \/ StandDown(n, k) \/ Win(n, k) \/ Dispatch(n, k)
      PROVE  KeyInv(j)'
  <2>1. CASE j = k
    BY <1>0, <1>5, <2>1, BeginInv, StandDownInv, WinInv, DispatchInv
  <2>2. CASE j # k
    <3>1. /\ now' = now /\ occ' = occ /\ last'[j] = last[j]
          /\ \A m \in Node : call'[m][j] = call[m][j]
          /\ \A m \in Node : ledger'[m][j] = ledger[m][j]
          /\ \A m, p \in Node : (<<m, p, j>> \in claims') = (<<m, p, j>> \in claims)
          /\ \A m, p \in Node : (<<m, p, j>> \in sents') = (<<m, p, j>> \in sents)
      <4>1. CASE Begin(n, k)
        BY <1>0, <2>2, <4>1 DEF Begin, TypeOK
      <4>2. CASE StandDown(n, k)
        BY <1>0, <2>2, <4>2 DEF StandDown, TypeOK
      <4>3. CASE Win(n, k)
        BY <1>0, <2>2, <4>3 DEF Win, TypeOK
      <4>4. CASE Dispatch(n, k)
        BY <1>0, <2>2, <4>4 DEF Dispatch, TypeOK
      <4> QED BY <1>5, <4>1, <4>2, <4>3, <4>4
    <3> QED BY <1>0, <3>1, Frame
  <2> QED BY <2>1, <2>2
<1>6. ASSUME NEW n \in Node, NEW p \in Node, NEW k \in Key,
             HandleClaim(n, p, k) \/ NoAnswer(n, p, k) \/ HandleSent(n, p, k)
      PROVE  KeyInv(j)'
  <2>1. CASE j = k
    BY <1>0, <1>6, <2>1, HandleClaimInv, NoAnswerInv, HandleSentInv
  <2>2. CASE j # k
    <3>1. /\ now' = now /\ occ' = occ /\ last' = last
          /\ \A m \in Node : call'[m][j] = call[m][j]
          /\ \A m \in Node : ledger'[m][j] = ledger[m][j]
          /\ \A m, i \in Node : (<<m, i, j>> \in claims') = (<<m, i, j>> \in claims)
          /\ \A m, i \in Node : (<<m, i, j>> \in sents') = (<<m, i, j>> \in sents)
      <4>1. CASE HandleClaim(n, p, k)
        BY <1>0, <2>2, <4>1 DEF HandleClaim, TypeOK
      <4>2. CASE NoAnswer(n, p, k)
        BY <1>0, <2>2, <4>2 DEF NoAnswer, TypeOK
      <4>3. CASE HandleSent(n, p, k)
        BY <1>0, <2>2, <4>3 DEF HandleSent, TypeOK
      <4> QED BY <1>6, <4>1, <4>2, <4>3
    <3> QED BY <1>0, <3>1, Frame
  <2> QED BY <2>1, <2>2
<1>7. ASSUME NEW n \in Node, NEW p \in Node, NEW k \in Key, Drop(n, p, k)
      PROVE  KeyInv(j)'
  BY <1>0, <1>7, DropInv
<1> QED BY <1>1, <1>2, <1>3, <1>4, <1>5, <1>6, <1>7 DEF Next

(* The invariant holds before the first occurrence.                        *)
LEMMA InvInitially == Init => IInv
<1>1. Init => TypeOK
  BY NoCallType, NoEntryType DEF Init, TypeOK
<1> SUFFICES ASSUME Init, NEW k \in Key PROVE KeyInv(k)
  BY <1>1 DEF IInv
<1>2. occ[k] = 0 /\ last[k] = 0 /\ now = 0 /\ claims = {} /\ sents = {}
  BY DEF Init
<1>3. \A n \in Node : call[n][k] = NoCall /\ ledger[n][k] = NoEntry
  BY DEF Init
<1>4. Candidates(k) = {} /\ Asking(k) = {} /\ Declined(k) = {}
  BY <1>2, <1>3 DEF Candidates, Asking, Declined, NoCall
<1>5. Clocked(k)
  BY <1>2, <1>3, <1>4, TimeAssumption DEF Clocked, Quiet, NoEntry
<1>6. Current(k)
  BY <1>2, <1>3, <1>4 DEF Current, NoCall
<1>7. LedgerInv(k)
  BY <1>2, <1>3 DEF LedgerInv, NoEntry
<1>8. RequestInv(k) /\ AskingInv(k) /\ DeclinedInv(k)
  BY <1>2, <1>4 DEF RequestInv, AskingInv, DeclinedInv
<1> QED BY <1>5, <1>6, <1>7, <1>8 DEF KeyInv

(* Whatever calls fail, whichever processes crash and however it all       *)
(* interleaves, in a cluster of any size and with any peer tables: an      *)
(* incident that recurs only after the ledger's TTL goes unannounced only  *)
(* if a watcher died in the middle of its own call or mail.                *)
THEOREM OnlyTheLostAreSilent ==
  ASSUME MinGap > TTL
  PROVE  Spec => []SilencedOnlyByLostWatcher
<1>1. IInv /\ TypeOK' /\ [Next]_vars => IInv'
  BY InvInductive
<1>2. Spec => []IInv
  BY <1>1, InvInitially, TypeCorrect, PTL DEF Spec
<1> QED BY <1>2, InvNoSilence, PTL

----------------------------------------------------------------------------
NoneLost == \A n \in Node, k \in Key : call[n][k].phase # "lost"

(* Only a crash makes a call a lost one.                                   *)
LEMMA OnlyCrashLoses ==
  ASSUME MaxCrash = 0, TypeOK, NoneLost, [Next]_vars
  PROVE  NoneLost'
<1> SUFFICES ASSUME NEW m \in Node, NEW j \in Key
             PROVE  call'[m][j].phase # "lost"
  BY DEF NoneLost
<1>0. /\ call \in [Node -> [Key -> Call]]
      /\ call[m][j] \in Call /\ call[m][j].phase # "lost"
  BY DEF TypeOK, NoneLost
<1>1. CASE UNCHANGED <<call>>
  BY <1>0, <1>1
<1>2. ASSUME NEW n \in Node, Crash(n) PROVE FALSE
  <2>1. crashes \in Nat /\ crashes < 0
    BY <1>2 DEF Crash, TypeOK
  <2> QED BY <2>1
<1>3. ASSUME NEW n \in Node, NEW k \in Key,
             Begin(n, k) \/ StandDown(n, k) \/ Win(n, k) \/ Dispatch(n, k)
      PROVE  call'[m][j].phase # "lost"
  <2>1. CASE Begin(n, k)
    BY <1>0, <2>1 DEF Begin
  <2>2. ASSUME NEW ph \in Phase \ {"lost"}, call' = [call EXCEPT ![n][k].phase = ph]
        PROVE  call'[m][j].phase # "lost"
    <3>1. call'[m][j] = IF m = n /\ j = k THEN [call[m][j] EXCEPT !.phase = ph]
                                         ELSE call[m][j]
      BY <1>0, <2>2
    <3> QED BY <1>0, <3>1 DEF Call
  <2>3. CASE StandDown(n, k)
    BY <2>2, <2>3 DEF StandDown, Phase
  <2>4. CASE Win(n, k)
    BY <2>2, <2>4 DEF Win, Phase
  <2>5. CASE Dispatch(n, k)
    BY <2>2, <2>5 DEF Dispatch, Phase
  <2> QED BY <1>3, <2>1, <2>3, <2>4, <2>5
<1>4. ASSUME NEW n \in Node, NEW p \in Node, NEW k \in Key,
             HandleClaim(n, p, k) \/ NoAnswer(n, p, k)
      PROVE  call'[m][j].phase # "lost"
  <2>1. CASE HandleClaim(n, p, k)
    BY <1>0, <2>1 DEF HandleClaim, Answered, Call
  <2>2. CASE NoAnswer(n, p, k)
    BY <1>0, <2>2 DEF NoAnswer, Call
  <2> QED BY <1>4, <2>1, <2>2
<1> QED BY <1>1, <1>2, <1>3, <1>4
        DEF Next, vars, Tick, Occur, HandleSent, Drop

(* "Silence is not [acceptable]": as long as no process crashes, whatever  *)
(* calls fail, no incident that recurs only after the TTL is silenced.     *)
THEOREM NobodySilenced ==
  ASSUME MaxCrash = 0, MinGap > TTL
  PROVE  Spec => []NoSilence
<1>1. Init => NoneLost
  BY DEF Init, NoneLost, NoCall
<1>2. TypeOK /\ NoneLost /\ [Next]_vars => NoneLost'
  BY OnlyCrashLoses
<1>3. NoneLost /\ SilencedOnlyByLostWatcher => NoSilence
  BY DEF NoneLost, SilencedOnlyByLostWatcher, NoSilence, Lost, Candidates
<1> QED BY <1>1, <1>2, <1>3, OnlyTheLostAreSilent, TypeCorrect, PTL DEF Spec

----------------------------------------------------------------------------
(* Until an entry can expire, as long as nothing has failed: a sender's    *)
(* ledger says sent, and a watcher that began after a peer it lists had    *)
(* won has been told, or is still waiting for such a peer's answer.        *)
SenderKnows(k) ==
  \A m \in Senders(k) : ledger[m][k].sent /\ ledger[m][k].at \in Nat

LateOnesLearn(k) ==
  \A n \in Asking(k) : call[n][k].late =>
    call[n][k].sentElsewhere \/ Senders(k) \cap call[n][k].pending # {}

NoLateSender(k) == \A n \in Senders(k) : ~ call[n][k].late

LateInv(k) == /\ \A n \in Node : call[n][k].occ <= occ[k]
              /\ SenderKnows(k) /\ LateOnesLearn(k) /\ NoLateSender(k)

NoFailure == crashes = 0 /\ losses = 0

LInv == now <= MaxTime /\ (NoFailure => \A k \in Key : LateInv(k))

(* A step that leaves alone all that concerns k keeps k's part of it.      *)
LEMMA LateFrame ==
  ASSUME NEW k \in Key, LateInv(k), occ'[k] = occ[k],
         \A n \in Node : call'[n][k] = call[n][k] /\ ledger'[n][k] = ledger[n][k]
  PROVE  LateInv(k)'
<1>1. Senders(k)' = Senders(k) /\ Asking(k)' = Asking(k)
  BY DEF Senders, Candidates, Asking
<1> QED BY <1>1 DEF LateInv, SenderKnows, LateOnesLearn, NoLateSender, Senders, Candidates, Asking

(* Nothing recorded within the last TTL has expired.                       *)
LEMMA NotExpired ==
  ASSUME TypeOK, NEW n \in Node, NEW k \in Key, now <= TTL
  PROVE  /\ ledger[n][k].at \in Nat => EntryLocked(n, k) = ledger[n][k]
         /\ EntryLocked(n, k).at \in Nat
<1>1. ledger[n][k] \in Entry /\ now \in Nat /\ TTL \in Nat
  BY TimeAssumption DEF TypeOK
<1>2. ledger[n][k].at \in Nat => ~ Expired(ledger[n][k])
  BY <1>1 DEF Expired
<1>3. ledger[n][k].at \notin Nat => Expired(ledger[n][k])
  <2> SUFFICES ASSUME ledger[n][k].at \notin Nat PROVE Expired(ledger[n][k])
    OBVIOUS
  <2>1. ledger[n][k].at = -(TTL + 1)
    BY <1>1 DEF Entry
  <2> QED BY <1>1, <2>1 DEF Expired
<1> QED BY <1>1, <1>2, <1>3 DEF EntryLocked

(* A step that fails shows in the count of failures.                       *)
LEMMA NoFailureFacts ==
  ASSUME TypeOK, [Next]_vars, NoFailure'
  PROVE  /\ NoFailure
         /\ \A b \in BOOLEAN : Fail(b) => b = FALSE
         /\ \A n \in Node : ~ Crash(n)
         /\ \A n, p \in Node, k \in Key : ~ NoAnswer(n, p, k) /\ ~ Drop(n, p, k)
<1>0. crashes \in Nat /\ losses \in Nat /\ crashes' = 0 /\ losses' = 0
  BY DEF TypeOK, NoFailure
<1>1. \A b \in BOOLEAN : Fail(b) => b = FALSE /\ losses = 0
  BY <1>0 DEF Fail
<1>2. ASSUME NEW n \in Node PROVE ~ Crash(n)
  <2>1. Crash(n) => crashes' = crashes + 1
    BY DEF Crash
  <2> QED BY <1>0, <2>1
<1>3. \A n, p \in Node, k \in Key : ~ NoAnswer(n, p, k) /\ ~ Drop(n, p, k)
  BY <1>0 DEF NoAnswer, Drop, Fail
<1>4. losses = 0 /\ crashes = 0
  <2>1. CASE UNCHANGED <<crashes, losses>>
    BY <1>0, <2>1
  <2>2. ASSUME NEW n \in Node, NEW p \in Node, NEW k \in Key,
               Begin(n, k) \/ Dispatch(n, k) \/ HandleClaim(n, p, k)
        PROVE  crashes' = crashes /\ \E b \in BOOLEAN : Fail(b)
    <3>1. CASE Begin(n, k)
      BY <3>1 DEF Begin
    <3>2. CASE Dispatch(n, k)
      BY <3>2 DEF Dispatch
    <3>3. CASE HandleClaim(n, p, k)
      BY <3>3 DEF HandleClaim
    <3> QED BY <2>2, <3>1, <3>2, <3>3
  <2>3. ASSUME NEW n \in Node, NEW p \in Node, NEW k \in Key,
               StandDown(n, k) \/ Win(n, k) \/ HandleSent(n, p, k)
        PROVE  UNCHANGED <<crashes, losses>>
    BY <2>3 DEF StandDown, Win, HandleSent
  <2>4. ASSUME Tick \/ UNCHANGED vars \/ \E k \in Key : Occur(k)
        PROVE  UNCHANGED <<crashes, losses>>
    BY <2>4 DEF Tick, vars, Occur
  <2> QED BY <1>0, <1>1, <1>2, <1>3, <2>1, <2>2, <2>3, <2>4 DEF Next
<1> QED BY <1>1, <1>2, <1>3, <1>4 DEF NoFailure

(* A watcher that begins asks every peer it lists, the senders among them. *)
LEMMA BeginLate ==
  ASSUME TypeOK, NEW n \in Node, NEW k \in Key, Begin(n, k), LateInv(k),
         \A b \in BOOLEAN : Fail(b) => b = FALSE
  PROVE  LateInv(k)'
<1> DEFINE e == EntryLocked(n, k)
           ps == PeersOf[n] \ {n}
           c == [occ |-> occ[k],
                 phase |-> IF e.sent THEN "declined" ELSE "asking",
                 peers |-> ps,
                 pending |-> IF e.sent THEN {} ELSE ps,
                 owner |-> MinName(e.owner, n),
                 sentElsewhere |-> FALSE,
                 late |-> Senders(k) \cap PeersOf[n] # {}]
<1>1. call' = [call EXCEPT ![n][k] = c]
  BY DEF Begin
<1>2. c.occ = occ[k] /\ c.phase \in {"declined", "asking"}
  OBVIOUS
<1>3. c.phase = "asking" /\ c.late => Senders(k) \cap PeersOf[n] # {} /\ c.pending = ps
  OBVIOUS
<1> HIDE DEF c
<1>4. /\ \A m \in Node : m # n => call'[m][k] = call[m][k] /\ ledger'[m][k] = ledger[m][k]
      /\ call'[n][k] = c /\ occ' = occ
  BY <1>1 DEF Begin, TypeOK
<1>5. n \notin Candidates(k) /\ occ[k] \in Nat
  <2>1. call[n][k].occ \in Nat /\ occ[k] \in Nat /\ call[n][k].occ < occ[k]
    BY DEF TypeOK, Call, Begin
  <2> QED BY <2>1 DEF Candidates
<1>6. Senders(k)' = Senders(k) /\ n \notin Senders(k)
  BY <1>2, <1>4, <1>5 DEF Senders, Candidates
<1>7. \A m \in Node : call'[m][k].occ <= occ'[k]
  BY <1>2, <1>4, <1>5 DEF LateInv
<1>8. SenderKnows(k)' /\ NoLateSender(k)'
  BY <1>4, <1>6 DEF LateInv, SenderKnows, NoLateSender, Senders, Candidates
<1>9. LateOnesLearn(k)'
  <2> SUFFICES ASSUME NEW m \in Asking(k)', call'[m][k].late
               PROVE  call'[m][k].sentElsewhere \/ Senders(k)' \cap call'[m][k].pending # {}
    BY DEF LateOnesLearn
  <2>1. CASE m = n
    <3>1. c.phase = "asking" /\ c.late
      BY <1>4, <2>1 DEF Asking
    <3> QED BY <1>3, <1>4, <1>6, <2>1, <3>1
  <2>2. CASE m # n
    <3>1. m \in Asking(k) /\ call'[m][k] = call[m][k]
      BY <1>4, <2>2 DEF Asking
    <3> QED BY <1>6, <3>1 DEF LateInv, LateOnesLearn
  <2> QED BY <2>1, <2>2
<1> QED BY <1>7, <1>8, <1>9 DEF LateInv

(* A sender that is asked answers that it has sent.                        *)
LEMMA HandleClaimLate ==
  ASSUME TypeOK, NEW n \in Node, NEW p \in Node, NEW k \in Key,
         HandleClaim(n, p, k), LateInv(k), now <= TTL,
         \A b \in BOOLEAN : Fail(b) => b = FALSE
  PROVE  LateInv(k)'
<1> DEFINE e == Claimed(EntryLocked(p, k), n)
           heard == p \in call[n][k].pending
           c == Answered(call[n][k], p, e, heard)
<1>0. /\ ledger' = [ledger EXCEPT ![p][k] = e]
      /\ occ' = occ
      /\ \E lost \in BOOLEAN :
           /\ Fail(lost)
           /\ call' = [call EXCEPT ![n][k] = Answered(@, p, e, ~ lost /\ heard)]
  BY DEF HandleClaim
<1>1. /\ ledger' = [ledger EXCEPT ![p][k] = e]
      /\ call' = [call EXCEPT ![n][k] = c]
      /\ occ' = occ
  <2>1. PICK lost \in BOOLEAN :
           Fail(lost) /\ call' = [call EXCEPT ![n][k] = Answered(@, p, e, ~ lost /\ heard)]
    BY <1>0
  <2>2. (~ lost /\ heard) = heard
    BY <2>1
  <2> HIDE DEF e, heard
  <2> QED BY <1>0, <2>1, <2>2
<1>2. e.sent = EntryLocked(p, k).sent /\ e.at = now /\ now \in Nat
  BY DEF Claimed, TypeOK
<1>3. call[n][k] \in Call
  BY DEF TypeOK
<1>4. /\ c.occ = call[n][k].occ /\ c.phase = call[n][k].phase /\ c.late = call[n][k].late
      /\ c.pending = call[n][k].pending \ {p}
      /\ c.sentElsewhere = (call[n][k].sentElsewhere \/ (heard /\ e.sent))
  BY <1>3 DEF Answered, Call
<1> HIDE DEF c, e
<1>5. /\ \A m \in Node : m # n => call'[m][k] = call[m][k]
      /\ call'[n][k] = c
      /\ \A m \in Node : m # p => ledger'[m][k] = ledger[m][k]
      /\ ledger'[p][k] = e
  BY <1>1 DEF TypeOK
<1>6. Senders(k)' = Senders(k) /\ Asking(k)' = Asking(k)
  BY <1>1, <1>4, <1>5 DEF Senders, Candidates, Asking
<1>7. p \in Senders(k) => e.sent
  <2> SUFFICES ASSUME p \in Senders(k) PROVE e.sent
    OBVIOUS
  <2>1. ledger[p][k].sent /\ ledger[p][k].at \in Nat
    BY DEF LateInv, SenderKnows
  <2> QED BY <1>2, <2>1, NotExpired
<1>8. SenderKnows(k)'
  BY <1>2, <1>5, <1>6, <1>7 DEF LateInv, SenderKnows, Senders, Candidates
<1>9. NoLateSender(k)'
  BY <1>4, <1>5, <1>6 DEF LateInv, NoLateSender, Senders, Candidates
<1>10. LateOnesLearn(k)'
  <2> SUFFICES ASSUME NEW m \in Asking(k), call'[m][k].late
               PROVE  call'[m][k].sentElsewhere \/ Senders(k) \cap call'[m][k].pending # {}
    BY <1>6 DEF LateOnesLearn
  <2>0. m \in Node
    BY DEF Asking
  <2>1. CASE m # n
    BY <1>5, <2>0, <2>1 DEF LateInv, LateOnesLearn
  <2>2. CASE m = n
    <3>1. call[n][k].sentElsewhere \/ \E i \in Senders(k) : i \in call[n][k].pending
      BY <1>4, <1>5, <2>2 DEF LateInv, LateOnesLearn
    <3>2. ASSUME NEW i \in Senders(k), i \in call[n][k].pending
          PROVE  c.sentElsewhere \/ i \in c.pending
      BY <1>4, <1>7, <3>2
    <3> QED BY <1>4, <1>5, <2>2, <3>1, <3>2
  <2> QED BY <2>1, <2>2
<1>11. \A m \in Node : call'[m][k].occ <= occ'[k]
  BY <1>1, <1>4, <1>5 DEF LateInv
<1> QED BY <1>8, <1>9, <1>10, <1>11 DEF LateInv

(* A watcher that wins has heard of no sender, so none of its peers was    *)
(* one when it began; and its ledger says sent from now on.                *)
LEMMA WinLate ==
  ASSUME TypeOK, NEW n \in Node, NEW k \in Key, Win(n, k), LateInv(k), now <= TTL
  PROVE  LateInv(k)'
<1> DEFINE e == EntryLocked(n, k)
<1>1. PICK ph \in {"won", "declined"} :
        /\ call[n][k].phase = "asking" /\ call' = [call EXCEPT ![n][k].phase = ph]
        /\ call[n][k].pending = {} /\ ~ call[n][k].sentElsewhere
        /\ ledger' = [ledger EXCEPT ![n][k] = Committed(e, n)]
        /\ occ' = occ
  BY DEF Win
<1>2. call[n][k] \in Call /\ e \in Entry /\ e.at \in Nat
  BY EntryLockedFacts, NotExpired DEF TypeOK
<1>3. /\ \A m \in Node : m # n => call'[m][k] = call[m][k] /\ ledger'[m][k] = ledger[m][k]
      /\ call'[n][k] = [call[n][k] EXCEPT !.phase = ph]
      /\ ledger'[n][k] = Committed(e, n)
  BY <1>1 DEF TypeOK
<1>4. /\ call'[n][k].phase = ph /\ call'[n][k].occ = call[n][k].occ
      /\ call'[n][k].late = call[n][k].late
  BY <1>2, <1>3 DEF Call
<1>5. ledger'[n][k].sent /\ ledger'[n][k].at \in Nat
  BY <1>2, <1>3 DEF Committed, Entry
<1>6. n \in Asking(k) /\ ~ call[n][k].late
  <2>1. n \in Asking(k)
    BY <1>1 DEF Asking
  <2> QED BY <1>1, <2>1 DEF LateInv, LateOnesLearn
<1>7. /\ Senders(k) \subseteq Senders(k)' /\ Senders(k)' \subseteq Senders(k) \cup {n}
      /\ Asking(k)' = Asking(k) \ {n}
  BY <1>1, <1>3, <1>4 DEF Senders, Candidates, Asking
<1>8. SenderKnows(k)' /\ NoLateSender(k)'
  BY <1>3, <1>4, <1>5, <1>6, <1>7 DEF LateInv, SenderKnows, NoLateSender, Senders, Candidates
<1>9. LateOnesLearn(k)'
  <2> SUFFICES ASSUME NEW m \in Asking(k)', call'[m][k].late
               PROVE  call'[m][k].sentElsewhere \/ Senders(k)' \cap call'[m][k].pending # {}
    BY DEF LateOnesLearn
  <2>1. m \in Asking(k) /\ m \in Node /\ m # n
    BY <1>7 DEF Asking
  <2>2. call'[m][k] = call[m][k]
    BY <1>3, <2>1
  <2> QED BY <1>7, <2>1, <2>2 DEF LateInv, LateOnesLearn
<1>10. \A m \in Node : call'[m][k].occ <= occ'[k]
  BY <1>1, <1>3, <1>4 DEF LateInv
<1> QED BY <1>8, <1>9, <1>10 DEF LateInv

(* Standing down and mailing change who is still asking, and nothing else  *)
(* about who won and who was told.                                         *)
LEMMA PhaseLate ==
  ASSUME TypeOK, NEW n \in Node, NEW k \in Key, StandDown(n, k) \/ Dispatch(n, k), LateInv(k)
  PROVE  LateInv(k)'
<1>1. PICK ph \in {"declined", "mailed", "failed"} :
        /\ call' = [call EXCEPT ![n][k].phase = ph]
        /\ \/ call[n][k].phase = "asking" /\ ph = "declined"
           \/ call[n][k].phase = "won" /\ ph # "declined"
        /\ UNCHANGED <<ledger, occ>>
  BY DEF StandDown, Dispatch
<1>2. call[n][k] \in Call
  BY DEF TypeOK
<1>3. /\ \A m \in Node : m # n => call'[m][k] = call[m][k]
      /\ call'[n][k] = [call[n][k] EXCEPT !.phase = ph]
  BY <1>1 DEF TypeOK
<1>4. /\ call'[n][k].phase = ph /\ call'[n][k].occ = call[n][k].occ
      /\ call'[n][k].late = call[n][k].late
  BY <1>2, <1>3 DEF Call
<1>5. Senders(k)' = Senders(k) /\ Asking(k)' \subseteq Asking(k) \ {n}
  BY <1>1, <1>3, <1>4 DEF Senders, Candidates, Asking
<1>6. SenderKnows(k)' /\ NoLateSender(k)'
  BY <1>1, <1>3, <1>4, <1>5 DEF LateInv, SenderKnows, NoLateSender, Senders, Candidates
<1>7. LateOnesLearn(k)'
  BY <1>3, <1>5 DEF LateInv, LateOnesLearn, Asking
<1>8. \A m \in Node : call'[m][k].occ <= occ'[k]
  BY <1>1, <1>3, <1>4 DEF LateInv
<1> QED BY <1>6, <1>7, <1>8 DEF LateInv

(* An alert-sent only ever adds to what a ledger knows.                    *)
LEMMA HandleSentLate ==
  ASSUME TypeOK, NEW n \in Node, NEW p \in Node, NEW k \in Key, HandleSent(n, p, k), LateInv(k)
  PROVE  LateInv(k)'
<1>1. /\ ledger' = [ledger EXCEPT ![p][k] = Delivered(EntryLocked(p, k), n)]
      /\ UNCHANGED <<call, occ>>
  BY DEF HandleSent
<1>2. /\ \A m \in Node : m # p => ledger'[m][k] = ledger[m][k]
      /\ ledger'[p][k].sent /\ ledger'[p][k].at \in Nat
  BY <1>1 DEF TypeOK, Delivered
<1>3. Senders(k)' = Senders(k) /\ Asking(k)' = Asking(k)
  BY <1>1 DEF Senders, Candidates, Asking
<1>4. SenderKnows(k)'
  BY <1>2, <1>3 DEF LateInv, SenderKnows, Senders, Candidates
<1> QED BY <1>1, <1>3, <1>4 DEF LateInv, LateOnesLearn, NoLateSender

(* A new occurrence has no senders yet, and nobody is asking.              *)
LEMMA OccurLate ==
  ASSUME TypeOK, NEW k \in Key, Occur(k), LateInv(k)
  PROVE  LateInv(k)'
<1>1. Asking(k) = {} /\ occ' = [occ EXCEPT ![k] = @ + 1] /\ UNCHANGED <<ledger, call>>
  BY DEF Occur, Quiet
<1>2. occ[k] \in Nat /\ occ'[k] = occ[k] + 1
  BY <1>1 DEF TypeOK
<1>3. ASSUME NEW n \in Node PROVE call'[n][k].occ < occ'[k]
  BY <1>1, <1>2 DEF LateInv, TypeOK, Call
<1>4. Senders(k)' = {}
  <2> SUFFICES ASSUME NEW n \in Node PROVE call'[n][k].occ # occ'[k]
    BY DEF Senders, Candidates
  <2>1. call[n][k].occ \in Nat
    BY DEF TypeOK, Call
  <2> QED BY <1>1, <1>2, <1>3, <2>1
<1>5. Asking(k)' = {}
  BY <1>1 DEF Asking
<1>6. \A n \in Node : call'[n][k].occ <= occ'[k]
  BY <1>1, <1>2, <1>3 DEF TypeOK, Call
<1> QED BY <1>4, <1>5, <1>6 DEF LateInv, SenderKnows, LateOnesLearn, NoLateSender

(* A step about one incident leaves the calls and entries of others alone. *)
LEMMA OthersUntouched ==
  ASSUME TypeOK, NEW n \in Node, NEW p \in Node, NEW k \in Key, NEW j \in Key, j # k,
         \/ Occur(k) \/ Begin(n, k) \/ StandDown(n, k) \/ Win(n, k) \/ Dispatch(n, k)
         \/ HandleClaim(n, p, k) \/ HandleSent(n, p, k)
  PROVE  /\ occ'[j] = occ[j]
         /\ \A m \in Node : call'[m][j] = call[m][j] /\ ledger'[m][j] = ledger[m][j]
<1>1. CASE Occur(k)
  BY <1>1 DEF Occur, TypeOK
<1>2. CASE Begin(n, k)
  BY <1>2 DEF Begin, TypeOK
<1>3. CASE StandDown(n, k)
  BY <1>3 DEF StandDown, TypeOK
<1>4. CASE Win(n, k)
  BY <1>4 DEF Win, TypeOK
<1>5. CASE Dispatch(n, k)
  BY <1>5 DEF Dispatch, TypeOK
<1>6. CASE HandleClaim(n, p, k)
  BY <1>6 DEF HandleClaim, TypeOK
<1>7. CASE HandleSent(n, p, k)
  BY <1>7 DEF HandleSent, TypeOK
<1> QED BY <1>1, <1>2, <1>3, <1>4, <1>5, <1>6, <1>7

(* Every step keeps it.                                                    *)
LEMMA LInvInductive ==
  ASSUME MaxTime <= TTL, TypeOK, LInv, [Next]_vars
  PROVE  LInv'
<1>1. now' <= MaxTime
  <2>1. CASE Tick
    BY <2>1, TimeAssumption DEF Tick, TypeOK
  <2>2. ASSUME NEW n \in Node, NEW p \in Node, NEW k \in Key,
               \/ Begin(n, k) \/ StandDown(n, k) \/ Win(n, k) \/ Dispatch(n, k)
               \/ HandleClaim(n, p, k) \/ NoAnswer(n, p, k)
               \/ HandleSent(n, p, k) \/ Drop(n, p, k)
        PROVE  now' = now
    <3>1. Begin(n, k) => now' = now
      BY DEF Begin
    <3>2. StandDown(n, k) \/ Win(n, k) \/ Dispatch(n, k) => now' = now
      BY DEF StandDown, Win, Dispatch
    <3>3. HandleClaim(n, p, k) => now' = now
      BY DEF HandleClaim
    <3>4. NoAnswer(n, p, k) \/ HandleSent(n, p, k) \/ Drop(n, p, k) => now' = now
      BY DEF NoAnswer, HandleSent, Drop
    <3> QED BY <2>2, <3>1, <3>2, <3>3, <3>4
  <2>3. ASSUME UNCHANGED vars \/ (\E k \in Key : Occur(k)) \/ \E n \in Node : Crash(n)
        PROVE  now' = now
    BY <2>3 DEF vars, Occur, Crash
  <2> QED BY <2>1, <2>2, <2>3 DEF Next, LInv
<1> SUFFICES ASSUME NoFailure', NEW j \in Key PROVE LateInv(j)'
  BY <1>1 DEF LInv
<1>2. /\ \A b \in BOOLEAN : Fail(b) => b = FALSE
      /\ \A n \in Node : ~ Crash(n)
      /\ \A n, p \in Node, k \in Key : ~ NoAnswer(n, p, k) /\ ~ Drop(n, p, k)
      /\ LateInv(j)
  BY NoFailureFacts DEF LInv
<1>3. now <= TTL
  BY TimeAssumption DEF LInv, TypeOK
<1>4. CASE UNCHANGED vars
  BY <1>2, <1>4, LateFrame DEF vars
<1>5. CASE Tick
  BY <1>2, <1>5, LateFrame DEF Tick
<1>6. ASSUME NEW k \in Key, Occur(k), NEW n \in Node PROVE LateInv(j)'
  <2>1. CASE j = k
    BY <1>2, <1>6, <2>1, OccurLate
  <2>2. CASE j # k
    BY <1>2, <1>6, <2>2, OthersUntouched, LateFrame
  <2> QED BY <2>1, <2>2
<1>7. ASSUME NEW n \in Node, NEW p \in Node, NEW k \in Key,
             \/ Begin(n, k) \/ StandDown(n, k) \/ Win(n, k) \/ Dispatch(n, k)
             \/ HandleClaim(n, p, k) \/ HandleSent(n, p, k)
      PROVE  LateInv(j)'
  <2>1. CASE j = k
    BY <1>2, <1>3, <1>7, <2>1,
       BeginLate, PhaseLate, WinLate, HandleClaimLate, HandleSentLate
  <2>2. CASE j # k
    BY <1>2, <1>7, <2>2, OthersUntouched, LateFrame
  <2> QED BY <2>1, <2>2
<1>8. CASE Node = {}
  BY <1>8 DEF LateInv, SenderKnows, LateOnesLearn, NoLateSender, Senders, Candidates, Asking
<1>9. CASE Node # {}
  BY <1>2, <1>4, <1>5, <1>6, <1>7, <1>9 DEF Next
<1> QED BY <1>8, <1>9

(* As long as nothing has failed and no ledger entry is old enough to      *)
(* expire, whatever the peer tables: a watcher that notices an incident    *)
(* after a peer it lists has won it stands down.                           *)
THEOREM LateWatchersStandDown ==
  ASSUME MaxTime <= TTL
  PROVE  Spec => []LateWatcherStandsDown
<1>1. Init => LInv
  BY TimeAssumption
     DEF Init, LInv, LateInv, SenderKnows, LateOnesLearn, NoLateSender, Senders, Candidates,
         Asking, NoCall
<1>2. TypeOK /\ LInv /\ [Next]_vars => LInv'
  BY LInvInductive
<1>3. LInv => LateWatcherStandsDown
  BY DEF LInv, NoFailure, LateInv, NoLateSender, LateWatcherStandsDown
<1> QED BY <1>1, <1>2, <1>3, TypeCorrect, PTL DEF Spec
============================================================================
