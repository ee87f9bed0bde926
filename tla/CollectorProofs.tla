--------------------------- MODULE CollectorProofs --------------------------
(***************************************************************************)
(* Theorems about the data of one node (modules Storage and Collector),    *)
(* for any units, counters and readings: what a statement leaves of the    *)
(* tables, what a sampler adds to them, and what a cycle keeps; and, with  *)
(* the laws of sums, that no rate is more than the host has done; what     *)
(* ByTime lists, how many points a window has, and what a regression makes *)
(* of points on a line.                                                    *)
(*                                                                         *)
(* CollectorInv says what the tables hold; HonestInv adds what makes the   *)
(* next rates honest: no counter has gained more than its unit has worked  *)
(* since the reading, and the shares in store add up; HistoryInv, what     *)
(* makes the views true: every series is in the order of its rows' times.  *)
(***************************************************************************)
EXTENDS Collector, SequenceTheorems, FiniteSetTheorems, WellFoundedInduction, TLAPS

---------------------------------------------------------------------------
(* Sequences.                                                              *)
IsSeq(s) == s \in Seq(ToSet(s))

LEMMA SeqElements ==
  ASSUME NEW S, NEW s \in Seq(S)
  PROVE  /\ IsSeq(s) /\ ToSet(s) \subseteq S
         /\ Len(s) \in Nat /\ DOMAIN s = 1..Len(s)
         /\ ToSet(s) = {s[i] : i \in 1..Len(s)}
<1>1. Len(s) \in Nat /\ s \in [1..Len(s) -> S] /\ DOMAIN s = 1..Len(s)
  BY LenProperties
<1>2. ToSet(s) = {s[i] : i \in 1..Len(s)} /\ ToSet(s) \subseteq S
  BY <1>1 DEF ToSet
<1>3. s \in [1..Len(s) -> ToSet(s)]
  BY <1>1, <1>2
<1>4. s \in Seq(ToSet(s))
  BY <1>1, <1>3
<1> QED BY <1>1, <1>2, <1>4 DEF IsSeq

LEMMA Joined ==
  ASSUME NEW s, NEW t, IsSeq(s), IsSeq(t)
  PROVE  /\ IsSeq(s \o t) /\ ToSet(s \o t) = ToSet(s) \cup ToSet(t)
         /\ Len(s \o t) = Len(s) + Len(t)
         /\ \A i \in 1..(Len(s) + Len(t)) :
              (s \o t)[i] = IF i <= Len(s) THEN s[i] ELSE t[i - Len(s)]
<1> DEFINE S == ToSet(s) \cup ToSet(t)
<1>1. s \in Seq(S) /\ t \in Seq(S)
  BY SeqMonotonic DEF IsSeq
<1>2. /\ s \o t \in Seq(S)
      /\ Len(s \o t) = Len(s) + Len(t)
      /\ \A i \in 1 .. Len(s) + Len(t) : (s \o t)[i] = IF i <= Len(s) THEN s[i] ELSE t[i - Len(s)]
  BY <1>1, ConcatProperties
<1>3. Len(s) \in Nat /\ Len(t) \in Nat
  BY <1>1, LenProperties
<1>4. ToSet(s) = {s[i] : i \in 1..Len(s)} /\ ToSet(t) = {t[i] : i \in 1..Len(t)}
  BY <1>1, SeqElements
<1>5. ToSet(s \o t) = {(s \o t)[i] : i \in 1..(Len(s) + Len(t))}
  BY <1>2, SeqElements
<1>6. ToSet(s) \subseteq ToSet(s \o t)
  BY <1>2, <1>3, <1>4, <1>5
<1>7. ToSet(t) \subseteq ToSet(s \o t)
  <2> SUFFICES ASSUME NEW i \in 1..Len(t) PROVE t[i] \in ToSet(s \o t)
    BY <1>4
  <2>1. Len(s) + i \in 1..(Len(s) + Len(t)) /\ ~(Len(s) + i <= Len(s)) /\ (Len(s) + i) - Len(s) = i
    BY <1>3
  <2>2. (s \o t)[Len(s) + i] = t[i]
    BY <1>2, <2>1
  <2> QED BY <1>5, <2>1, <2>2
<1>8. ToSet(s \o t) \subseteq ToSet(s) \cup ToSet(t)
  BY <1>2, SeqElements
<1> QED BY <1>2, <1>6, <1>7, <1>8, SeqElements

(* A single row, and no row. *)
LEMMA Single == ASSUME NEW x PROVE IsSeq(<<x>>) /\ ToSet(<<x>>) = {x} /\ Len(<<x>>) = 1
<1>1. <<x>> \in Seq({x}) /\ Len(<<x>>) = 1 /\ <<x>>[1] = x
  OBVIOUS
<1>2. 1..1 = {1}
  OBVIOUS
<1>3. ToSet(<<x>>) = {<<x>>[i] : i \in 1..1}
  BY <1>1, SeqElements
<1>4. ToSet(<<x>>) = {x}
  BY <1>1, <1>2, <1>3
<1> QED BY <1>1, <1>4, SeqElements

LEMMA NoRow == IsSeq(<<>>) /\ ToSet(<<>>) = {}
<1>1. <<>> \in Seq({}) /\ Len(<<>>) = 0
  BY EmptySeq
<1>2. 1..0 = {}
  OBVIOUS
<1> QED BY <1>1, <1>2, SeqElements

(* Every sequence of a finite set has its elements. *)
LEMMA Listed ==
  ASSUME NEW S, IsFiniteSet(S)
  PROVE  IsSeq(SetToSeq(S)) /\ ToSet(SetToSeq(S)) = S
<1> DEFINE n == Cardinality(S)
<1>1. n \in Nat /\ ExistsBijection(1..n, S)
  BY FS_CardinalityType
<1>2. PICK f : f \in Bijection(1..n, S)
  BY <1>1 DEF ExistsBijection
<1>3. f \in [1..n -> S] /\ IsInjective(f)
  BY <1>2 DEF Bijection, Injection, IsInjective
<1>4. SetToSeq(S) \in [1..n -> S] /\ IsInjective(SetToSeq(S))
  BY <1>3 DEF SetToSeq
<1> DEFINE g == SetToSeq(S)
<1> HIDE DEF g
<1>5. g \in [1..n -> S] /\ IsInjective(g)
  BY <1>4 DEF g
<1>6. g \in Injection(1..n, S)
  BY <1>5 DEF Injection, IsInjective
<1>7. IsFiniteSet(1..n) /\ Cardinality(1..n) = n
  BY <1>1, FS_Interval
<1>8. g \in Surjection(1..n, S)
  BY <1>6, <1>7, FS_Injection
<1>9. g \in Seq(S)
  BY <1>1, <1>5
<1>10. \A x \in S : \E i \in 1..n : g[i] = x
  BY <1>8 DEF Surjection
<1>11. DOMAIN g = 1..n
  BY <1>5
<1>12. ToSet(g) = S
  BY <1>5, <1>10, <1>11 DEF ToSet
<1> QED BY <1>9, <1>12, SeqElements DEF g

(* Keep is what it says: by induction over the length, like every law of a *)
(* recursive function here, from the least number that breaks it.          *)
LEMMA LeastOf ==
  ASSUME NEW S, S \subseteq Nat, S # {}
  PROVE  \E n \in S : \A m \in S : n <= m
<1>1. PICK n \in S : \A m \in S : <<m, n>> \notin OpToRel(<, Nat)
  BY WFMin, NatLessThanWellFounded
<1>2. \A m \in S : ~(m < n)
  BY <1>1 DEF OpToRel
<1> QED BY <1>2

KeptRows(s, rows, f, n) ==
  f = [i \in 0..n |-> IF i = 0 THEN <<>>
                      ELSE IF s[i] \in rows THEN Append(f[i - 1], s[i]) ELSE f[i - 1]]

LEMMA KeptExists ==
  ASSUME NEW s, NEW rows, NEW n \in Nat
  PROVE  \E f : KeptRows(s, rows, f, n)
<1> DEFINE Bad == {k \in Nat : ~ \E f : KeptRows(s, rows, f, k)}
<1>1. ASSUME Bad # {} PROVE FALSE
  <2>1. PICK k \in Bad : \A m \in Bad : k <= m
    BY <1>1, LeastOf
  <2>2. k # 0
    <3> DEFINE f == [i \in 0..0 |-> <<>>]
    <3>1. KeptRows(s, rows, f, 0)
      BY DEF KeptRows
    <3> QED BY <2>1, <3>1
  <2>3. k - 1 \in Nat /\ k - 1 \notin Bad
    BY <2>1, <2>2
  <2>4. PICK g : KeptRows(s, rows, g, k - 1)
    BY <2>3
  <2> DEFINE f == [i \in 0..k |-> IF i < k THEN g[i]
                                  ELSE IF s[k] \in rows THEN Append(g[k - 1], s[k]) ELSE g[k - 1]]
  <2>5. ASSUME NEW i \in 0..k
        PROVE  f[i] = IF i = 0 THEN <<>>
                      ELSE IF s[i] \in rows THEN Append(f[i - 1], s[i]) ELSE f[i - 1]
    <3>1. CASE i = k
      <4>1. f[i - 1] = g[k - 1] /\ i # 0
        BY <2>1, <2>2, <3>1
      <4> QED BY <3>1, <4>1
    <3>2. CASE i = 0
      <4>1. g[0] = <<>>
        BY <2>3, <2>4 DEF KeptRows
      <4> QED BY <2>1, <2>2, <3>2, <4>1
    <3>3. CASE i # 0 /\ i # k
      <4>1. i \in 0..(k - 1) /\ i - 1 \in 0..(k - 1)
        BY <2>1, <3>3
      <4>2. g[i] = IF s[i] \in rows THEN Append(g[i - 1], s[i]) ELSE g[i - 1]
        BY <2>4, <3>3, <4>1 DEF KeptRows
      <4>3. f[i] = g[i] /\ f[i - 1] = g[i - 1]
        BY <2>1, <3>3, <4>1
      <4> QED BY <3>3, <4>2, <4>3
    <3> QED BY <3>1, <3>2, <3>3
  <2>6. KeptRows(s, rows, f, k)
    <3> HIDE DEF f
    <3>1. f = [i \in 0..k |-> f[i]]
      BY DEF f
    <3> QED BY <2>5, <3>1 DEF KeptRows
  <2> QED BY <2>1, <2>6
<1> QED BY <1>1

KeptOf(s, rows, f, i) == f[i] \in Seq(ToSet(s)) /\ ToSet(f[i]) = {s[j] : j \in 1..i} \cap rows
KeptNext(s, rows, f, i) == f[i] = IF s[i] \in rows THEN Append(f[i - 1], s[i]) ELSE f[i - 1]
SoFar(s, rows, f) ==
  /\ Keep(s, rows) = f[Len(s)]
  /\ \A i \in 1..Len(s) : KeptNext(s, rows, f, i)
  /\ \A i \in 0..Len(s) : KeptOf(s, rows, f, i)
LEMMA KeptSoFar == ASSUME NEW s, NEW rows, IsSeq(s) PROVE \E f : SoFar(s, rows, f)
<1> DEFINE S == ToSet(s)
<1>1. /\ Len(s) \in Nat /\ DOMAIN s = 1..Len(s) /\ S = {s[i] : i \in 1..Len(s)}
      /\ \A i \in 1..Len(s) : s[i] \in S
  BY SeqElements DEF IsSeq
<1>2. PICK f : KeptRows(s, rows, f, Len(s)) /\ Keep(s, rows) = f[Len(s)]
  <2>1. \E f : KeptRows(s, rows, f, Len(s))
    BY <1>1, KeptExists
  <2>2. KeptRows(s, rows, CHOOSE f : KeptRows(s, rows, f, Len(s)), Len(s))
    BY <2>1
  <2>3. Keep(s, rows) = (CHOOSE f : KeptRows(s, rows, f, Len(s)))[Len(s)]
    BY DEF Keep, KeptRows
  <2> QED BY <2>2, <2>3
<1>3. ASSUME NEW i \in 0..Len(s)
      PROVE  f[i] = IF i = 0 THEN <<>>
                    ELSE IF s[i] \in rows THEN Append(f[i - 1], s[i]) ELSE f[i - 1]
  BY <1>2 DEF KeptRows
<1> DEFINE Good(k) == f[k] \in Seq(S) /\ ToSet(f[k]) = {s[i] : i \in 1..k} \cap rows
           Bad == {k \in 0..Len(s) : ~Good(k)}
<1>4. ASSUME Bad # {} PROVE FALSE
  <2>0. Bad \subseteq Nat
    BY <1>1
  <2>1. PICK k \in Bad : \A m \in Bad : k <= m
    <3> HIDE DEF Bad
    <3> QED BY <1>4, <2>0, LeastOf
  <2>2. k # 0
    <3>1. 1..0 = {} /\ 0 \in 0..Len(s)
      BY <1>1
    <3>2. f[0] = <<>>
      BY <1>3, <3>1
    <3>3. Good(0)
      BY <3>1, <3>2, NoRow, EmptySeq
    <3> QED BY <2>1, <3>3
  <2>3. k \in 1..Len(s) /\ k - 1 \in 0..Len(s) /\ k - 1 \notin Bad
    <3>1. k \in 1..Len(s) /\ k - 1 \in 0..Len(s) /\ ~(k <= k - 1)
      BY <1>1, <2>1, <2>2
    <3>2. k - 1 \notin Bad
      <4> HIDE DEF Bad
      <4> QED BY <2>1, <3>1
    <3> QED BY <3>1, <3>2
  <2>4. Good(k - 1)
    BY <2>3
  <2>5. {s[i] : i \in 1..k} = {s[i] : i \in 1..(k - 1)} \cup {s[k]}
    <3>1. 1..k = 1..(k - 1) \cup {k}
      BY <1>1, <2>3
    <3> QED BY <3>1
  <2>6. Good(k)
    <3>1. CASE s[k] \in rows
      <4>1. f[k] = Append(f[k - 1], s[k])
        <5>1. k \in 0..Len(s) /\ k # 0
          BY <1>1, <2>3
        <5> QED BY <1>3, <3>1, <5>1
      <4>2. /\ f[k] = f[k - 1] \o <<s[k]>> /\ f[k] \in Seq(S)
        <5>1. PICK g, x : g = f[k - 1] /\ x = s[k]
          OBVIOUS
        <5>2. g \in Seq(S) /\ x \in S
          BY <1>1, <2>3, <2>4, <5>1
        <5>3. Append(g, x) = g \o <<x>> /\ Append(g, x) \in Seq(S)
          BY <5>2, AppendIsConcat, AppendProperties
        <5> QED BY <4>1, <5>1, <5>3
      <4>3. ToSet(f[k]) = ToSet(f[k - 1]) \cup {s[k]}
        BY <2>4, <4>2, Joined, Single, SeqElements
      <4> QED BY <2>4, <2>5, <3>1, <4>2, <4>3
    <3>2. CASE s[k] \notin rows
      <4>1. f[k] = f[k - 1]
        <5>1. k \in 0..Len(s) /\ k # 0
          BY <1>1, <2>3
        <5> QED BY <1>3, <3>2, <5>1
      <4> QED BY <2>4, <2>5, <3>2, <4>1
    <3> QED BY <3>1, <3>2
  <2> QED BY <2>1, <2>6
<1>5. \A i \in 0..Len(s) : KeptOf(s, rows, f, i)
  BY <1>4 DEF KeptOf
<1>6. ASSUME NEW i \in 1..Len(s) PROVE KeptNext(s, rows, f, i)
  <2>1. i \in 0..Len(s) /\ i # 0
    BY <1>1
  <2> QED BY <1>3, <2>1 DEF KeptNext
<1> QED BY <1>2, <1>5, <1>6 DEF SoFar

LEMMA KeepFacts ==
  ASSUME NEW s, NEW rows, IsSeq(s)
  PROVE  IsSeq(Keep(s, rows)) /\ ToSet(Keep(s, rows)) = ToSet(s) \cap rows
<1>1. Len(s) \in Nat /\ ToSet(s) = {s[i] : i \in 1..Len(s)}
  BY SeqElements DEF IsSeq
<1>2. PICK f : SoFar(s, rows, f)
  BY KeptSoFar
<1>3. Len(s) \in 0..Len(s)
  BY <1>1
<1>4. Keep(s, rows) \in Seq(ToSet(s)) /\ ToSet(Keep(s, rows)) = ToSet(s) \cap rows
  BY <1>1, <1>2, <1>3 DEF SoFar, KeptOf
<1> QED BY <1>4, SeqElements

(* A last row that is kept stays the last. *)
LEMMA KeepLast ==
  ASSUME NEW s, NEW rows, IsSeq(s), Len(s) > 0, s[Len(s)] \in rows
  PROVE  \E k : IsSeq(k) /\ ToSet(k) \subseteq ToSet(s) /\ Keep(s, rows) = k \o <<s[Len(s)]>>
<1>1. PICK n : n = Len(s) /\ n \in Nat /\ n > 0 /\ ToSet(s) = {s[i] : i \in 1..n}
  BY SeqElements DEF IsSeq
<1>2. PICK f : SoFar(s, rows, f)
  BY KeptSoFar
<1>3. n \in 1..n /\ n - 1 \in 0..n
  BY <1>1
<1>4. PICK k, x : k = f[n - 1] /\ x = s[n]
  OBVIOUS
<1>5. k \in Seq(ToSet(s)) /\ x \in ToSet(s)
  BY <1>1, <1>2, <1>3, <1>4 DEF SoFar, KeptOf
<1>6. Keep(s, rows) = Append(k, x)
  BY <1>1, <1>2, <1>3, <1>4 DEF SoFar, KeptNext
<1>7. Append(k, x) = k \o <<x>>
  BY <1>5, AppendIsConcat
<1>8. IsSeq(k) /\ ToSet(k) \subseteq ToSet(s)
  BY <1>5, SeqElements
<1> QED BY <1>1, <1>4, <1>6, <1>7, <1>8

---------------------------------------------------------------------------
(* The newest row of a series.                                             *)
LEMMA GreatestOf ==
  ASSUME NEW S, S \subseteq Nat, S # {}, NEW b \in Nat, \A x \in S : x <= b
  PROVE  \E n \in S : \A m \in S : m <= n
<1> DEFINE T == {k \in Nat : b - k \in S /\ k <= b}
<1>1. PICK x \in S : TRUE
  OBVIOUS
<1>2. b - x \in Nat /\ b - x <= b /\ b - (b - x) = x
  BY <1>1
<1>3. T # {} /\ T \subseteq Nat
  BY <1>1, <1>2
<1>4. PICK k \in T : \A m \in T : k <= m
  <2> HIDE DEF T
  <2> QED BY <1>3, LeastOf
<1>5. b - k \in S /\ k \in Nat
  BY <1>4
<1>6. ASSUME NEW m \in S PROVE m <= b - k
  <2>1. m \in Nat /\ m <= b /\ b - m \in Nat /\ b - m <= b /\ b - (b - m) = m
    BY <1>6
  <2>2. b - m \in T
    BY <2>1
  <2>3. k <= b - m
    <3> HIDE DEF T
    <3> QED BY <1>4, <2>2
  <2> QED BY <1>5, <2>1, <2>3
<1> QED BY <1>5, <1>6

NewestIs(s, node, i) ==
  /\ i \in DOMAIN s /\ s[i].node = node
  /\ \A j \in DOMAIN s : s[j].node = node =>
       s[j].at < s[i].at \/ (s[j].at = s[i].at /\ j <= i)

LEMMA NewestThere ==
  ASSUME NEW s, IsSeq(s), NEW node, NEW top \in Nat, \A r \in ToSet(s) : r.at \in 0..top,
         \E r \in ToSet(s) : r.node = node
  PROVE  \E i : NewestIs(s, node, i)
<1>1. /\ Len(s) \in Nat /\ DOMAIN s = 1..Len(s) /\ ToSet(s) = {s[i] : i \in 1..Len(s)}
  BY SeqElements DEF IsSeq
<1> DEFINE ids == {i \in 1..Len(s) : s[i].node = node}
           times == {s[i].at : i \in ids}
<1>2. ids # {} /\ \A i \in ids : s[i].at \in 0..top
  BY <1>1
<1>3. times # {} /\ times \subseteq Nat /\ \A x \in times : x <= top
  <2> HIDE DEF ids
  <2> QED BY <1>2
<1>4. PICK at \in times : \A x \in times : x <= at
  <2> HIDE DEF times
  <2> QED BY <1>3, GreatestOf
<1> DEFINE last == {i \in ids : s[i].at = at}
<1>5. last # {} /\ last \subseteq Nat /\ \A i \in last : i <= Len(s)
  BY <1>1, <1>4
<1>6. PICK n \in last : \A i \in last : i <= n
  <2> HIDE DEF last
  <2> QED BY <1>1, <1>5, GreatestOf
<1>7. n \in 1..Len(s) /\ s[n].node = node /\ s[n].at = at
  BY <1>6
<1>8. ASSUME NEW j \in 1..Len(s), s[j].node = node
      PROVE  s[j].at < s[n].at \/ (s[j].at = s[n].at /\ j <= n)
  <2>1. j \in ids /\ s[j].at \in times
    BY <1>8
  <2>2. s[j].at <= at /\ s[j].at \in Nat /\ at \in Nat
    <3> HIDE DEF ids, times
    <3> QED BY <1>3, <1>4, <2>1
  <2>3. s[j].at = at => j <= n
    <3>1. s[j].at = at => j \in last
      BY <2>1
    <3> HIDE DEF last
    <3> QED BY <1>6, <3>1
  <2> QED BY <1>7, <2>2, <2>3
<1> QED BY <1>1, <1>7, <1>8 DEF NewestIs

LEMMA NewestFacts ==
  ASSUME NEW d, NEW t, IsSeq(d[t]), NEW node, NEW top \in Nat,
         \A r \in ToSet(d[t]) : r.at \in 0..top
  PROVE  /\ \/ (\A r \in ToSet(d[t]) : r.node # node) /\ Newest(d, t, node) = <<>>
            \/ \E i : NewestIs(d[t], node, i) /\ Newest(d, t, node) = <<d[t][i]>>
         /\ \A i : NewestIs(d[t], node, i) => Newest(d, t, node) = <<d[t][i]>>
<1>1. PICK s : s = d[t]
  OBVIOUS
<1>2. /\ Len(s) \in Nat /\ DOMAIN s = 1..Len(s) /\ ToSet(s) = {s[i] : i \in 1..Len(s)}
      /\ \A i \in 1..Len(s) : s[i].at \in 0..top
  <2>1. IsSeq(s)
    BY <1>1
  <2>2. Len(s) \in Nat /\ DOMAIN s = 1..Len(s) /\ ToSet(s) = {s[i] : i \in 1..Len(s)}
    BY <2>1, SeqElements DEF IsSeq
  <2> QED BY <1>1, <2>2
<1> DEFINE ids == {i \in DOMAIN s : s[i].node = node}
           newest(i) == \A j \in ids : s[j].at < s[i].at \/ (s[j].at = s[i].at /\ j <= i)
<1>3. Newest(d, t, node) = IF ids = {} THEN <<>> ELSE <<s[CHOOSE i \in ids : newest(i)]>>
  BY <1>1 DEF Newest
<1>4. \A i : NewestIs(s, node, i) <=> i \in ids /\ newest(i)
  BY DEF NewestIs
<1>5. ASSUME NEW i, NewestIs(s, node, i) PROVE Newest(d, t, node) = <<s[i]>>
  <2>1. i \in ids /\ newest(i)
    BY <1>4, <1>5
  <2>2. PICK c : c = CHOOSE j \in ids : newest(j)
    OBVIOUS
  <2>3. c \in ids /\ newest(c)
    BY <2>1, <2>2
  <2>4. c = i
    <3>1. c \in 1..Len(s) /\ i \in 1..Len(s) /\ s[c].at \in 0..top /\ s[i].at \in 0..top
      BY <1>2, <2>1, <2>3
    <3>2. s[c].at < s[i].at \/ (s[c].at = s[i].at /\ c <= i)
      BY <2>1, <2>3
    <3>3. s[i].at < s[c].at \/ (s[i].at = s[c].at /\ i <= c)
      BY <2>1, <2>3
    <3> QED BY <3>1, <3>2, <3>3
  <2> HIDE DEF ids, newest
  <2> QED BY <1>3, <2>1, <2>2, <2>4
<1>6. CASE \A r \in ToSet(s) : r.node # node
  <2>1. ids = {}
    BY <1>2, <1>6
  <2> HIDE DEF ids, newest
  <2> QED BY <1>1, <1>3, <1>5, <1>6, <2>1
<1>7. CASE \E r \in ToSet(s) : r.node = node
  <2>1. \E i : NewestIs(s, node, i)
    BY <1>1, <1>7, NewestThere
  <2> HIDE DEF ids, newest
  <2> QED BY <1>1, <1>5, <2>1
<1> QED BY <1>6, <1>7

(* A row appended at a time that no row of the node is after is the newest. *)
LEMMA NewestAppended ==
  ASSUME NEW d, NEW e, NEW t, NEW node, NEW top \in Nat, NEW r,
         IsSeq(d[t]), e[t] = d[t] \o <<r>>, r.node = node, r.at \in 0..top,
         \A x \in ToSet(d[t]) : x.at \in 0..top,
         \A x \in ToSet(d[t]) : x.node = node => x.at <= r.at
  PROVE  Newest(e, t, node) = <<r>>
<1>1. PICK s : s = d[t] /\ IsSeq(s)
  OBVIOUS
<1>2. /\ Len(s) \in Nat /\ DOMAIN s = 1..Len(s) /\ ToSet(s) = {s[i] : i \in 1..Len(s)}
  <2>1. IsSeq(s)
    BY <1>1
  <2> HIDE <1>1
  <2> QED BY <2>1, SeqElements DEF IsSeq
<1>3. PICK f : f = e[t]
  OBVIOUS
<1>4. /\ IsSeq(f) /\ ToSet(f) = ToSet(s) \cup {r} /\ Len(f) = Len(s) + 1
      /\ \A i \in 1..(Len(s) + 1) : f[i] = IF i <= Len(s) THEN s[i] ELSE <<r>>[i - Len(s)]
  BY <1>1, <1>3, Joined, Single
<1>5. DOMAIN f = 1..(Len(s) + 1)
  BY <1>4, SeqElements DEF IsSeq
<1>6. f[Len(s) + 1] = r
  <2>1. Len(s) + 1 \in 1..(Len(s) + 1) /\ ~(Len(s) + 1 <= Len(s)) /\ (Len(s) + 1) - Len(s) = 1
    BY <1>2
  <2> QED BY <1>4, <2>1
<1>7. ASSUME NEW j \in DOMAIN f, f[j].node = node
      PROVE  f[j].at < r.at \/ (f[j].at = r.at /\ j <= Len(s) + 1)
  <2>1. j \in 1..(Len(s) + 1) /\ j <= Len(s) + 1
    BY <1>2, <1>5
  <2>2. CASE j <= Len(s)
    <3>1. f[j] = s[j] /\ j \in 1..Len(s)
      BY <1>2, <1>4, <2>1, <2>2
    <3>2. s[j] \in ToSet(s)
      BY <1>2, <3>1
    <3>3. s[j].at <= r.at /\ s[j].at \in 0..top
      BY <1>1, <1>7, <3>1, <3>2
    <3> QED BY <2>1, <3>1, <3>3
  <2>3. CASE ~(j <= Len(s))
    <3>1. j = Len(s) + 1
      BY <1>2, <2>1, <2>3
    <3> QED BY <1>6, <2>1, <3>1
  <2> QED BY <2>2, <2>3
<1>8. NewestIs(f, node, Len(s) + 1)
  <2>1. Len(s) + 1 \in DOMAIN f
    BY <1>2, <1>5
  <2> QED BY <1>6, <1>7, <2>1 DEF NewestIs
<1>9. \A x \in ToSet(f) : x.at \in 0..top
  BY <1>1, <1>4
<1>10. IsSeq(e[t]) /\ \A x \in ToSet(e[t]) : x.at \in 0..top
  BY <1>3, <1>4, <1>9
<1>11. NewestIs(e[t], node, Len(s) + 1) => Newest(e, t, node) = <<e[t][Len(s) + 1]>>
  BY <1>10, NewestFacts
<1> QED BY <1>3, <1>6, <1>8, <1>11

---------------------------------------------------------------------------
(* Databases.                                                              *)
RowFine(r, top, nodes, keys) == r.node \in nodes /\ r.key \in keys /\ r.at \in 0..top
RowsFine(rows, top, nodes, keys) == \A r \in rows : RowFine(r, top, nodes, keys)
OfNode(rows, node) == \A r \in rows : r.node = node
Apart(rows) == \A r, s \in rows : r.node = s.node /\ r.key = s.key => r = s
Snapshot(rows) == Apart(rows) /\ IsFiniteSet(rows)

(* A database of rows of these nodes and keys, none of them from the future. *)
Fine(d, top, nodes, keys) ==
  /\ DOMAIN d = Tables
  /\ \A t \in SeriesTables : IsSeq(d[t])
  /\ \A t \in SnapshotTables : Snapshot(d[t])
  /\ \A t \in Tables : \A r \in RowsOf(d, t) : RowFine(r, top, nodes, keys)

(* A statement writes one table. *)
Writes(d, e, t) == DOMAIN e = Tables /\ \A u \in Tables : u # t => e[u] = d[u]

LEMMA TableKinds ==
  /\ SeriesTables \subseteq Tables /\ SnapshotTables \subseteq Tables
  /\ \A t \in Tables : t \in SeriesTables <=> t \notin SnapshotTables
BY DEF Tables, SeriesTables, SnapshotTables

LEMMA RowsOfKind ==
  ASSUME NEW d, NEW t \in Tables
  PROVE  /\ t \in SeriesTables => RowsOf(d, t) = ToSet(d[t])
         /\ t \in SnapshotTables => RowsOf(d, t) = d[t]
BY TableKinds DEF RowsOf

LEMMA OneWritten ==
  ASSUME NEW d, NEW e, NEW t \in Tables, NEW top \in Int, NEW nodes, NEW keys,
         Fine(d, top, nodes, keys), Writes(d, e, t),
         t \in SeriesTables => IsSeq(e[t]), t \in SnapshotTables => Snapshot(e[t]),
         \A r \in RowsOf(e, t) : RowFine(r, top, nodes, keys)
  PROVE  Fine(e, top, nodes, keys)
<1>1. \A u \in Tables : u # t => e[u] = d[u] /\ RowsOf(e, u) = RowsOf(d, u)
  BY DEF Writes, RowsOf
<1>2. DOMAIN e = Tables
  BY DEF Writes
<1>3. \A u \in SeriesTables : IsSeq(e[u])
  BY <1>1, TableKinds DEF Fine
<1>4. \A u \in SnapshotTables : Snapshot(e[u])
  BY <1>1, TableKinds DEF Fine
<1>5. \A u \in Tables : \A r \in RowsOf(e, u) : RowFine(r, top, nodes, keys)
  BY <1>1 DEF Fine
<1> QED BY <1>2, <1>3, <1>4, <1>5 DEF Fine

LEMMA LaterIsFine ==
  ASSUME NEW d, NEW top \in Int, NEW later \in Int, top <= later, NEW nodes, NEW keys,
         Fine(d, top, nodes, keys)
  PROVE  Fine(d, later, nodes, keys)
<1>1. \A r : RowFine(r, top, nodes, keys) => RowFine(r, later, nodes, keys)
  BY DEF RowFine
<1> QED BY <1>1 DEF Fine

LEMMA MoreIsFine ==
  ASSUME NEW d, NEW top, NEW nodes, NEW keys, NEW nodes2, NEW keys2,
         nodes \subseteq nodes2, keys \subseteq keys2, Fine(d, top, nodes, keys)
  PROVE  Fine(d, top, nodes2, keys2)
<1>1. \A r : RowFine(r, top, nodes, keys) => RowFine(r, top, nodes2, keys2)
  BY DEF RowFine
<1> QED BY <1>1 DEF Fine

(* What the statements write. *)
LEMMA InsertOp ==
  ASSUME NEW d, DOMAIN d = Tables, NEW t \in SeriesTables, NEW rows
  PROVE  Writes(d, Insert(d, t, rows), t) /\ Insert(d, t, rows)[t] = d[t] \o rows
BY TableKinds DEF Insert, Writes

LEMMA UpsertOp ==
  ASSUME NEW d, DOMAIN d = Tables, NEW t \in SnapshotTables, NEW rows
  PROVE  /\ Writes(d, Upsert(d, t, rows), t)
         /\ Upsert(d, t, rows)[t] =
              {r \in d[t] : \A s \in rows : ~(r.node = s.node /\ r.key = s.key)} \cup rows
BY TableKinds DEF Upsert, Writes

LEMMA ReplaceOp ==
  ASSUME NEW d, DOMAIN d = Tables, NEW t \in SnapshotTables, NEW node, NEW rows
  PROVE  /\ Writes(d, Replace(d, t, node, rows), t)
         /\ Replace(d, t, node, rows)[t] = {r \in d[t] : r.node # node} \cup rows
BY TableKinds DEF Replace, Writes

LEMMA PruneOp ==
  ASSUME NEW d, DOMAIN d = Tables, NEW t \in SeriesTables, NEW before
  PROVE  /\ Writes(d, PruneTable(d, t, before), t)
         /\ PruneTable(d, t, before)[t] = Keep(d[t], {r \in ToSet(d[t]) : r.at >= before})
BY TableKinds DEF PruneTable, Writes

LEMMA DeleteOp ==
  ASSUME NEW d, DOMAIN d = Tables, NEW t \in Tables, NEW node
  PROVE  /\ Writes(d, DeleteNode(d, t, node), t)
         /\ t \in SeriesTables =>
              DeleteNode(d, t, node)[t] = Keep(d[t], {r \in ToSet(d[t]) : r.node # node})
         /\ t \in SnapshotTables => DeleteNode(d, t, node)[t] = {r \in d[t] : r.node # node}
BY TableKinds DEF DeleteNode, Writes

LEMMA ExceptOp ==
  ASSUME NEW d, DOMAIN d = Tables, NEW node, NEW keep
  PROVE  /\ Writes(d, DeleteDiskStatusesExcept(d, node, keep), "disk_status")
         /\ DeleteDiskStatusesExcept(d, node, keep)["disk_status"] =
              {r \in d["disk_status"] : r.node = node => r.key \in keep}
BY DEF DeleteDiskStatusesExcept, Writes, Tables, SnapshotTables

LEMMA DeleteCheckOp ==
  ASSUME NEW d, DOMAIN d = Tables, NEW node, NEW name
  PROVE  /\ Writes(d, DeleteCheckStatus(d, node, name), "check_status")
         /\ DeleteCheckStatus(d, node, name)["check_status"] =
              {r \in d["check_status"] : ~(r.node = node /\ r.key = name)}
BY DEF DeleteCheckStatus, Writes, Tables, SnapshotTables

(* They leave a database behind. *)
LEMMA InsertFine ==
  ASSUME NEW d, NEW t \in SeriesTables, NEW rows, NEW top \in Int, NEW nodes, NEW keys,
         Fine(d, top, nodes, keys), IsSeq(rows), RowsFine(ToSet(rows), top, nodes, keys)
  PROVE  /\ Fine(Insert(d, t, rows), top, nodes, keys)
         /\ ToSet(Insert(d, t, rows)[t]) = ToSet(d[t]) \cup ToSet(rows)
<1>1. DOMAIN d = Tables /\ IsSeq(d[t]) /\ t \in Tables
  BY TableKinds DEF Fine
<1>2. PICK e : e = Insert(d, t, rows)
  OBVIOUS
<1>3. Writes(d, e, t) /\ e[t] = d[t] \o rows
  BY <1>1, <1>2, InsertOp
<1>4. IsSeq(e[t]) /\ ToSet(e[t]) = ToSet(d[t]) \cup ToSet(rows)
  BY <1>1, <1>3, Joined
<1>5. \A r \in ToSet(d[t]) : RowFine(r, top, nodes, keys)
  BY <1>1, RowsOfKind DEF Fine
<1>6. \A r \in RowsOf(e, t) : RowFine(r, top, nodes, keys)
  BY <1>1, <1>4, <1>5, RowsOfKind DEF RowsFine
<1>7. t \notin SnapshotTables
  BY TableKinds
<1> QED BY <1>1, <1>2, <1>3, <1>4, <1>6, <1>7, OneWritten

LEMMA UpsertFine ==
  ASSUME NEW d, NEW t \in SnapshotTables, NEW rows, NEW top \in Int, NEW nodes, NEW keys,
         Fine(d, top, nodes, keys), Snapshot(rows), RowsFine(rows, top, nodes, keys)
  PROVE  Fine(Upsert(d, t, rows), top, nodes, keys)
<1>1. DOMAIN d = Tables /\ Snapshot(d[t]) /\ t \in Tables /\ t \notin SeriesTables
  BY TableKinds DEF Fine
<1>2. PICK e : e = Upsert(d, t, rows)
  OBVIOUS
<1>3. /\ Writes(d, e, t)
      /\ e[t] = {r \in d[t] : \A s \in rows : ~(r.node = s.node /\ r.key = s.key)} \cup rows
  BY <1>1, <1>2, UpsertOp
<1>4. IsFiniteSet(e[t])
  <2>1. PICK Q : Q = {r \in d[t] : \A s \in rows : ~(r.node = s.node /\ r.key = s.key)}
    OBVIOUS
  <2>2. IsFiniteSet(Q)
    BY <1>1, <2>1, FS_Subset DEF Snapshot
  <2>3. e[t] = Q \cup rows
    BY <1>3, <2>1
  <2> QED BY <2>2, <2>3, FS_Union DEF Snapshot
<1>5. Apart(e[t])
  BY <1>1, <1>3 DEF Snapshot, Apart
<1>6. \A r \in RowsOf(e, t) : RowFine(r, top, nodes, keys)
  <2>1. \A r \in d[t] : RowFine(r, top, nodes, keys)
    BY <1>1, RowsOfKind DEF Fine
  <2> QED BY <1>1, <1>3, <2>1, RowsOfKind DEF RowsFine
<1> QED BY <1>1, <1>2, <1>3, <1>4, <1>5, <1>6, OneWritten DEF Snapshot

LEMMA ReplaceFine ==
  ASSUME NEW d, NEW t \in SnapshotTables, NEW node, NEW rows, NEW top \in Int, NEW nodes, NEW keys,
         Fine(d, top, nodes, keys), Snapshot(rows), RowsFine(rows, top, nodes, keys),
         OfNode(rows, node)
  PROVE  Fine(Replace(d, t, node, rows), top, nodes, keys)
<1>1. DOMAIN d = Tables /\ Snapshot(d[t]) /\ t \in Tables /\ t \notin SeriesTables
  BY TableKinds DEF Fine
<1>2. PICK e : e = Replace(d, t, node, rows)
  OBVIOUS
<1>3. Writes(d, e, t) /\ e[t] = {r \in d[t] : r.node # node} \cup rows
  BY <1>1, <1>2, ReplaceOp
<1>4. IsFiniteSet(e[t])
  <2>1. PICK Q : Q = {r \in d[t] : r.node # node}
    OBVIOUS
  <2>2. IsFiniteSet(Q)
    BY <1>1, <2>1, FS_Subset DEF Snapshot
  <2>3. e[t] = Q \cup rows
    BY <1>3, <2>1
  <2> QED BY <2>2, <2>3, FS_Union DEF Snapshot
<1>5. Apart(e[t])
  BY <1>1, <1>3 DEF Snapshot, Apart, OfNode
<1>6. \A r \in RowsOf(e, t) : RowFine(r, top, nodes, keys)
  <2>1. \A r \in d[t] : RowFine(r, top, nodes, keys)
    BY <1>1, RowsOfKind DEF Fine
  <2> QED BY <1>1, <1>3, <2>1, RowsOfKind DEF RowsFine
<1> QED BY <1>1, <1>2, <1>3, <1>4, <1>5, <1>6, OneWritten DEF Snapshot

(* Nothing but rows that were there. *)
LEMMA FewerFine ==
  ASSUME NEW d, NEW e, NEW t \in Tables, NEW top \in Int, NEW nodes, NEW keys,
         Fine(d, top, nodes, keys), Writes(d, e, t),
         t \in SeriesTables => IsSeq(e[t]), RowsOf(e, t) \subseteq RowsOf(d, t)
  PROVE  Fine(e, top, nodes, keys)
<1>1. t \in SnapshotTables => Snapshot(e[t])
  <2> SUFFICES ASSUME t \in SnapshotTables PROVE Snapshot(e[t])
    OBVIOUS
  <2>1. e[t] \subseteq d[t] /\ Snapshot(d[t])
    BY RowsOfKind DEF Fine
  <2>2. IsFiniteSet(e[t])
    BY <2>1, FS_Subset DEF Snapshot
  <2> QED BY <2>1, <2>2 DEF Snapshot, Apart
<1> QED BY <1>1, OneWritten DEF Fine

LEMMA PruneFine ==
  ASSUME NEW d, NEW t \in SeriesTables, NEW before, NEW top \in Int, NEW nodes, NEW keys,
         Fine(d, top, nodes, keys)
  PROVE  /\ Fine(PruneTable(d, t, before), top, nodes, keys)
         /\ ToSet(PruneTable(d, t, before)[t]) = {r \in ToSet(d[t]) : r.at >= before}
<1>1. DOMAIN d = Tables /\ IsSeq(d[t]) /\ t \in Tables
  BY TableKinds DEF Fine
<1>2. PICK e : e = PruneTable(d, t, before)
  OBVIOUS
<1>3. Writes(d, e, t) /\ e[t] = Keep(d[t], {r \in ToSet(d[t]) : r.at >= before})
  <2>1. /\ Writes(d, PruneTable(d, t, before), t)
        /\ PruneTable(d, t, before)[t] = Keep(d[t], {r \in ToSet(d[t]) : r.at >= before})
    BY <1>1, PruneOp
  <2> QED BY <1>2, <2>1
<1>4. IsSeq(e[t]) /\ ToSet(e[t]) = {r \in ToSet(d[t]) : r.at >= before}
  <2>1. PICK R : R = {r \in ToSet(d[t]) : r.at >= before}
    OBVIOUS
  <2>2. IsSeq(Keep(d[t], R)) /\ ToSet(Keep(d[t], R)) = ToSet(d[t]) \cap R
    BY <1>1, KeepFacts
  <2> QED BY <1>3, <2>1, <2>2
<1>5. RowsOf(e, t) \subseteq RowsOf(d, t)
  BY <1>1, <1>4, RowsOfKind
<1> QED BY <1>1, <1>2, <1>3, <1>4, <1>5, FewerFine

RowsBut(rows, node) == {r \in rows : r.node # node}
LEMMA DeleteFine ==
  ASSUME NEW d, NEW t \in Tables, NEW node, NEW top \in Int, NEW nodes, NEW keys,
         Fine(d, top, nodes, keys)
  PROVE  /\ Fine(DeleteNode(d, t, node), top, nodes, keys)
         /\ RowsOf(DeleteNode(d, t, node), t) = RowsBut(RowsOf(d, t), node)
<1>1. DOMAIN d = Tables
  BY DEF Fine
<1>2. PICK e : e = DeleteNode(d, t, node)
  OBVIOUS
<1>3. Writes(d, e, t)
  BY <1>1, <1>2, DeleteOp
<1>4. CASE t \in SeriesTables
  <2>1. PICK R : R = {r \in ToSet(d[t]) : r.node # node}
    OBVIOUS
  <2>2. IsSeq(Keep(d[t], R)) /\ ToSet(Keep(d[t], R)) = ToSet(d[t]) \cap R
    BY <1>4, KeepFacts DEF Fine
  <2>3. e[t] = Keep(d[t], R)
    <3>1. DeleteNode(d, t, node)[t] = Keep(d[t], {r \in ToSet(d[t]) : r.node # node})
      BY <1>1, <1>4 DEF DeleteNode
    <3> QED BY <1>2, <2>1, <3>1
  <2>4. IsSeq(e[t]) /\ RowsOf(e, t) = RowsBut(RowsOf(d, t), node)
    <3>1. RowsOf(e, t) = ToSet(d[t]) \cap R /\ RowsOf(d, t) = ToSet(d[t])
      BY <1>4, <2>2, <2>3, RowsOfKind
    <3>2. ToSet(d[t]) \cap R = {r \in ToSet(d[t]) : r.node # node}
      BY <2>1
    <3> QED BY <2>2, <2>3, <3>1, <3>2 DEF RowsBut
  <2>5. RowsOf(e, t) \subseteq RowsOf(d, t)
    BY <2>4 DEF RowsBut
  <2> QED BY <1>2, <1>3, <2>4, <2>5, FewerFine
<1>5. CASE t \in SnapshotTables
  <2>1. t \notin SeriesTables
    BY <1>5, TableKinds
  <2>2. RowsOf(e, t) = RowsBut(RowsOf(d, t), node)
    <3>1. e[t] = {r \in d[t] : r.node # node}
      <4>1. DeleteNode(d, t, node)[t] = {r \in d[t] : r.node # node}
        BY <1>1, <1>5, TableKinds DEF DeleteNode
      <4> QED BY <1>2, <4>1
    <3>2. RowsOf(e, t) = e[t] /\ RowsOf(d, t) = d[t]
      BY <1>5, RowsOfKind
    <3> QED BY <3>1, <3>2 DEF RowsBut
  <2>3. RowsOf(e, t) \subseteq RowsOf(d, t)
    BY <2>2 DEF RowsBut
  <2> QED BY <1>2, <1>3, <2>1, <2>2, <2>3, FewerFine
<1> QED BY <1>4, <1>5, TableKinds

---------------------------------------------------------------------------
(* The collector.                                                          *)
HostOK(h) == h.units \subseteq Units /\ h.ctr \in [Units -> Nat] /\ h.done \in [Units -> Nat]
ReadingOK(p, at) ==
  \/ p = None
  \/ /\ p.at \in 0..at /\ DOMAIN p.ctr \subseteq Units
     /\ \A u \in DOMAIN p.ctr : p.ctr[u] \in Nat

(* Series only get rows of the time of the cycle. *)
Grows(d, e, at) ==
  \A t \in SeriesTables : /\ ToSet(d[t]) \subseteq ToSet(e[t])
                          /\ \A r \in ToSet(e[t]) : r \in ToSet(d[t]) \/ r.at = at
(* A sampler leaves a database behind, and series that have grown. *)
SamplesInto(d, e, at, nodes, keys) == Fine(e, at, nodes, keys) /\ Grows(d, e, at)

LEMMA ReadsFacts ==
  ASSUME NEW h, HostOK(h)
  PROVE  /\ DOMAIN Reads(h) = h.units /\ DOMAIN Reads(h) \subseteq Units
         /\ \A u \in DOMAIN Reads(h) : Reads(h)[u] \in Nat
BY DEF HostOK, Reads

LEMMA ImageFinite ==
  ASSUME NEW U, IsFiniteSet(U), NEW f, DOMAIN f = U
  PROVE  IsFiniteSet({f[u] : u \in U})
<1> DEFINE R == {f[u] : u \in U}
           g == [u \in U |-> f[u]]
<1>1. g \in Surjection(U, R)
  BY DEF Surjection
<1> QED BY <1>1, FS_Surjection

UnitSet(U, at, v) == {Row(Node, u, at, v[u]) : u \in U}
LEMMA UnitRows ==
  ASSUME NEW U, U \subseteq Units, NEW at \in Nat, NEW v, NEW rows, rows = UnitSet(U, at, v)
  PROVE  /\ Snapshot(rows)
         /\ RowsFine(rows, at, {Node}, Units \cup {NoKey})
         /\ OfNode(rows, Node)
         /\ \A r \in rows : r.at = at
         /\ \A k : k \in U <=> \E r \in rows : r.key = k
<1>1. IsFiniteSet(U)
  BY CollectorAssumption, FS_Subset
<1> DEFINE f == [u \in U |-> Row(Node, u, at, v[u])]
<1>2. IsFiniteSet({f[u] : u \in U})
  BY <1>1, ImageFinite
<1>3. rows = {f[u] : u \in U}
  BY DEF UnitSet
<1>4. \A u \in U : f[u].node = Node /\ f[u].key = u /\ f[u].at = at
  BY DEF Row
<1>5. \A r \in rows : r.node = Node /\ r.at = at /\ RowFine(r, at, {Node}, Units \cup {NoKey})
  <2> HIDE DEF f
  <2> QED BY <1>3, <1>4 DEF RowFine
<1>6. Apart(rows)
  <2> HIDE DEF f
  <2>1. ASSUME NEW r \in rows, NEW s \in rows, r.key = s.key PROVE r = s
    <3>1. PICK u \in U, w \in U : r = f[u] /\ s = f[w]
      BY <1>3, <2>1
    <3>2. u = w
      BY <1>4, <2>1, <3>1
    <3> QED BY <3>1, <3>2
  <2> QED BY <2>1 DEF Apart
<1>7. \A k : k \in U <=> \E r \in rows : r.key = k
  <2> HIDE DEF f
  <2>1. \A u \in U : f[u] \in rows /\ f[u].key = u
    BY <1>3, <1>4
  <2>2. \A r \in rows : r.key \in U
    BY <1>3, <1>4
  <2> QED BY <2>1, <2>2
<1> QED BY <1>2, <1>3, <1>5, <1>6, <1>7 DEF Snapshot, RowsFine, OfNode

LEMMA FineKeys ==
  ASSUME NEW nodes, Node \in nodes, NEW keys, Units \cup {NoKey} \subseteq keys, NEW top, NEW rows,
         RowsFine(rows, top, {Node}, Units \cup {NoKey})
  PROVE  RowsFine(rows, top, nodes, keys)
BY DEF RowsFine, RowFine

LEMMA GrowsTrans ==
  ASSUME NEW d, NEW e, NEW f, NEW at, Grows(d, e, at), Grows(e, f, at)
  PROVE  Grows(d, f, at)
BY DEF Grows

LEMMA SnapshotGrows ==
  ASSUME NEW d, NEW e, NEW t \in SnapshotTables, NEW at, Writes(d, e, t)
  PROVE  Grows(d, e, at)
BY TableKinds DEF Grows, Writes

(* One row, or the rows of the units, go to a series; those of the units   *)
(* to a snapshot.                                                          *)
LEMMA SeriesSampled ==
  ASSUME NEW d, NEW t \in SeriesTables, NEW rows, NEW at \in Nat,
         NEW nodes, Node \in nodes, NEW keys, Units \cup {NoKey} \subseteq keys,
         Fine(d, at, nodes, keys), IsSeq(rows), \A r \in ToSet(rows) : r.at = at,
         RowsFine(ToSet(rows), at, {Node}, Units \cup {NoKey})
  PROVE  SamplesInto(d, Insert(d, t, rows), at, nodes, keys)
<1>1. RowsFine(ToSet(rows), at, nodes, keys) /\ at \in Int
  BY FineKeys
<1>2. /\ Fine(Insert(d, t, rows), at, nodes, keys)
      /\ ToSet(Insert(d, t, rows)[t]) = ToSet(d[t]) \cup ToSet(rows)
  BY <1>1, InsertFine
<1>3. Writes(d, Insert(d, t, rows), t)
  BY InsertOp DEF Fine
<1>4. Grows(d, Insert(d, t, rows), at)
  BY <1>2, <1>3, TableKinds DEF Grows, Writes
<1> QED BY <1>2, <1>4 DEF SamplesInto

LEMMA RowSampled ==
  ASSUME NEW d, NEW t \in SeriesTables, NEW val, NEW at \in Nat,
         NEW nodes, Node \in nodes, NEW keys, Units \cup {NoKey} \subseteq keys,
         Fine(d, at, nodes, keys)
  PROVE  SamplesInto(d, Insert(d, t, <<Row(Node, NoKey, at, val)>>), at, nodes, keys)
<1>1. PICK r : r = Row(Node, NoKey, at, val)
  OBVIOUS
<1>2. r.at = at /\ RowFine(r, at, {Node}, Units \cup {NoKey})
  BY <1>1 DEF Row, RowFine
<1>3. IsSeq(<<r>>) /\ ToSet(<<r>>) = {r}
  BY Single
<1>4. RowsFine(ToSet(<<r>>), at, {Node}, Units \cup {NoKey}) /\ \A x \in ToSet(<<r>>) : x.at = at
  BY <1>2, <1>3 DEF RowsFine
<1> QED BY <1>1, <1>3, <1>4, SeriesSampled

LEMMA SnapshotSampled ==
  ASSUME NEW d, NEW t \in SnapshotTables, NEW rows, NEW U, U \subseteq Units, NEW v, NEW at \in Nat,
         NEW nodes, Node \in nodes, NEW keys, Units \cup {NoKey} \subseteq keys,
         Fine(d, at, nodes, keys), rows = UnitSet(U, at, v)
  PROVE  SamplesInto(d, Replace(d, t, Node, rows), at, nodes, keys)
<1>1. Snapshot(rows) /\ OfNode(rows, Node)
  BY UnitRows
<1>2. RowsFine(rows, at, nodes, keys)
  BY UnitRows, FineKeys
<1>3. Fine(Replace(d, t, Node, rows), at, nodes, keys)
  BY <1>1, <1>2, ReplaceFine, at \in Int
<1>4. Writes(d, Replace(d, t, Node, rows), t)
  BY ReplaceOp DEF Fine
<1> QED BY <1>3, <1>4, SnapshotGrows DEF SamplesInto

LEMMA NothingSampled ==
  ASSUME NEW d, NEW at, NEW nodes, NEW keys, Fine(d, at, nodes, keys)
  PROVE  SamplesInto(d, d, at, nodes, keys)
BY DEF SamplesInto, Grows

(* Of a finite set of units, the k of the greatest share. *)
LEMMA Greatest ==
  ASSUME NEW D, IsFiniteSet(D), D # {}, NEW share, \A u \in D : share[u] \in Nat
  PROVE  \E u \in D : \A v \in D : share[v] <= share[u]
<1> DEFINE Lacks(E) == E # {} /\ ~ \E u \in E : \A v \in E : share[v] <= share[u]
           Bad == {n \in Nat : \E E \in SUBSET D : Cardinality(E) = n /\ Lacks(E)}
<1>1. ASSUME Bad # {} PROVE FALSE
  <2>0. Bad \subseteq Nat
    OBVIOUS
  <2>1. PICK n \in Bad : \A m \in Bad : n <= m
    <3> HIDE DEF Bad
    <3> QED BY <1>1, <2>0, LeastOf
  <2>2. PICK E \in SUBSET D : Cardinality(E) = n /\ Lacks(E)
    BY <2>1
  <2>3. PICK x \in E : TRUE
    BY <2>2
  <2>4. IsFiniteSet(E) /\ IsFiniteSet(E \ {x}) /\ Cardinality(E \ {x}) = n - 1 /\ n \in Nat
    BY <2>1, <2>2, <2>3, FS_Subset, FS_RemoveElement
  <2>5. n - 1 \in Nat
    BY <2>4, FS_CardinalityType
  <2>6. n - 1 \notin Bad
    <3> HIDE DEF Bad
    <3> QED BY <2>1, <2>4, <2>5
  <2>7. ~Lacks(E \ {x})
    <3> HIDE DEF Lacks
    <3>1. E \ {x} \in SUBSET D
      BY <2>2
    <3> QED BY <2>4, <2>5, <2>6, <3>1
  <2>8. CASE E \ {x} = {}
    <3>1. E = {x}
      BY <2>3, <2>8
    <3> QED BY <2>2, <2>3, <3>1
  <2>9. CASE E \ {x} # {}
    <3>1. PICK y \in E \ {x} : \A v \in E \ {x} : share[v] <= share[y]
      BY <2>7, <2>9
    <3>2. share[x] \in Nat /\ share[y] \in Nat /\ \A v \in E : share[v] \in Nat
      BY <2>2, <2>3, <3>1
    <3>3. CASE share[x] <= share[y]
      BY <2>2, <3>1, <3>3
    <3>4. CASE share[y] <= share[x]
      <4>1. \A v \in E : share[v] <= share[x]
        BY <3>1, <3>2, <3>4
      <4> QED BY <2>2, <2>3, <4>1
    <3> QED BY <3>2, <3>3, <3>4
  <2> QED BY <2>8, <2>9
<1>2. D \in SUBSET D /\ Cardinality(D) \in Nat
  BY FS_CardinalityType
<1> QED BY <1>1, <1>2

TopOf(D, share, s) == s \subseteq D /\ \A u \in s, v \in D \ s : share[u] >= share[v]
LEMMA TopExists ==
  ASSUME NEW D, IsFiniteSet(D), NEW share, \A u \in D : share[u] \in Nat,
         NEW k \in Nat, k <= Cardinality(D)
  PROVE  \E s \in SUBSET D : Cardinality(s) = k /\ TopOf(D, share, s)
<1> DEFINE Has(n) == \E s \in SUBSET D : Cardinality(s) = n /\ TopOf(D, share, s)
           Bad == {n \in Nat : n <= Cardinality(D) /\ ~Has(n)}
<1>0. Cardinality(D) \in Nat
  BY FS_CardinalityType
<1>1. ASSUME Bad # {} PROVE FALSE
  <2>0. Bad \subseteq Nat
    OBVIOUS
  <2>1. PICK n \in Bad : \A m \in Bad : n <= m
    <3> HIDE DEF Bad
    <3> QED BY <1>1, <2>0, LeastOf
  <2>2. n # 0
    <3>1. Has(0)
      <4>1. {} \in SUBSET D /\ Cardinality({}) = 0 /\ TopOf(D, share, {})
        BY FS_EmptySet DEF TopOf
      <4> QED BY <4>1
    <3> QED BY <2>1, <3>1
  <2>3. n - 1 \in Nat /\ n \in Nat /\ n <= Cardinality(D) /\ ~(n <= n - 1)
    BY <1>0, <2>1, <2>2
  <2>4. Has(n - 1)
    <3>1. n - 1 \notin Bad
      <4> HIDE DEF Bad
      <4> QED BY <2>1, <2>3
    <3> HIDE DEF Has
    <3> QED BY <1>0, <2>3, <3>1
  <2>5. PICK s \in SUBSET D : Cardinality(s) = n - 1 /\ TopOf(D, share, s)
    BY <2>4
  <2>6. IsFiniteSet(s) /\ IsFiniteSet(D \ s)
    BY <2>5, FS_Subset
  <2>7. D \ s # {}
    <3>1. CASE D \ s = {}
      <4>1. s = D
        BY <2>5, <3>1
      <4> QED BY <1>0, <2>3, <2>5, <4>1
    <3> QED BY <3>1
  <2>8. PICK x \in D \ s : \A v \in D \ s : share[v] <= share[x]
    BY <2>6, <2>7, Greatest
  <2> DEFINE T == s \cup {x}
  <2>9. Cardinality(T) = n /\ T \in SUBSET D
    <3>1. Cardinality(s \cup {x}) = (n - 1) + 1
      BY <2>5, <2>6, <2>8, FS_AddElement
    <3>2. (n - 1) + 1 = n
      BY <2>3
    <3> QED BY <2>5, <2>8, <3>1, <3>2
  <2>10. TopOf(D, share, T)
    <3> SUFFICES ASSUME NEW u \in T, NEW v \in D \ T PROVE share[u] >= share[v]
      BY <2>9 DEF TopOf
    <3>1. share[u] \in Nat /\ share[v] \in Nat
      BY <2>9
    <3>2. CASE u \in s
      BY <2>5, <3>2 DEF TopOf
    <3>3. CASE u = x
      BY <2>8, <3>1, <3>3
    <3> QED BY <3>2, <3>3
  <2>11. Has(n)
    <3> HIDE DEF T
    <3> QED BY <2>9, <2>10
  <2> QED BY <2>1, <2>11
<1> QED BY <1>0, <1>1

LEMMA UnitsSampled ==
  ASSUME NEW d, NEW t \in SeriesTables, NEW rows, NEW U, U \subseteq Units, NEW v, NEW at \in Nat,
         NEW nodes, Node \in nodes, NEW keys, Units \cup {NoKey} \subseteq keys,
         Fine(d, at, nodes, keys), rows = UnitSet(U, at, v)
  PROVE  SamplesInto(d, Insert(d, t, SetToSeq(rows)), at, nodes, keys)
<1>0. Snapshot(rows)
  BY UnitRows
<1>1. RowsFine(rows, at, {Node}, Units \cup {NoKey}) /\ \A r \in rows : r.at = at
  <2>1. RowsFine(rows, at, {Node}, Units \cup {NoKey})
    BY UnitRows
  <2>2. \A r \in rows : r.at = at
    BY UnitRows
  <2> QED BY <2>1, <2>2
<1>2. IsSeq(SetToSeq(rows)) /\ ToSet(SetToSeq(rows)) = rows
  BY <1>0, Listed DEF Snapshot
<1>3. PICK s : s = SetToSeq(rows)
  OBVIOUS
<1>4. /\ IsSeq(s) /\ \A r \in ToSet(s) : r.at = at
      /\ RowsFine(ToSet(s), at, {Node}, Units \cup {NoKey})
  BY <1>1, <1>2, <1>3
<1>5. SamplesInto(d, Insert(d, t, s), at, nodes, keys)
  BY <1>4, SeriesSampled
<1> QED BY <1>3, <1>5

(* A sampler that reads the host h at time at. *)
Sampling(d, h, at, nodes, keys) ==
  /\ at \in Nat /\ HostOK(h) /\ Node \in nodes /\ Units \cup {NoKey} \subseteq keys
  /\ Fine(d, at, nodes, keys)

LEMMA DisksSampled ==
  ASSUME NEW d, NEW h, NEW at, NEW nodes, NEW keys, Sampling(d, h, at, nodes, keys)
  PROVE  SamplesInto(d, sampleDisks(d, Reads(h), at), at, nodes, keys)
<1>0. /\ at \in Nat /\ at \in Int /\ Node \in nodes /\ Units \cup {NoKey} \subseteq keys
      /\ Fine(d, at, nodes, keys)
  BY DEF Sampling
<1>1. PICK U : U = DOMAIN Reads(h) /\ U \subseteq Units
  BY ReadsFacts DEF Sampling
<1>2. PICK rows : rows = {Row(Node, u, at, Reads(h)[u]) : u \in DOMAIN Reads(h)}
  OBVIOUS
<1>3. rows = UnitSet(U, at, Reads(h))
  BY <1>1, <1>2 DEF UnitSet
<1>4. Snapshot(rows) /\ RowsFine(rows, at, {Node}, Units \cup {NoKey})
  BY <1>0, <1>1, <1>3, UnitRows
<1>5. RowsFine(rows, at, nodes, keys)
  BY <1>0, <1>4, FineKeys
<1>6. PICK e : e = Upsert(d, "disk_status", rows)
  OBVIOUS
<1>7. "disk_status" \in SnapshotTables /\ "disk_usage_sample" \in SeriesTables /\ "disk_status" \in Tables
  BY DEF SnapshotTables, SeriesTables, Tables
<1>8. Fine(e, at, nodes, keys)
  BY <1>0, <1>4, <1>5, <1>6, <1>7, UpsertFine
<1>9. Grows(d, e, at)
  <2>1. Writes(d, e, "disk_status")
    BY <1>0, <1>6, <1>7, UpsertOp DEF Fine
  <2> QED BY <1>7, <2>1, SnapshotGrows
<1>10. PICK f : f = Insert(e, "disk_usage_sample", SetToSeq(rows))
  OBVIOUS
<1>11. SamplesInto(e, f, at, nodes, keys)
  BY <1>0, <1>1, <1>3, <1>7, <1>8, <1>10, UnitsSampled
<1>12. PICK g : g = DeleteDiskStatusesExcept(f, Node, DOMAIN Reads(h))
  OBVIOUS
<1>13. Writes(f, g, "disk_status") /\ g["disk_status"] \subseteq f["disk_status"]
  BY <1>11, <1>12, ExceptOp DEF SamplesInto, Fine
<1>14. Fine(g, at, nodes, keys)
  <2>1. "disk_status" \notin SeriesTables
    BY DEF SeriesTables
  <2>2. RowsOf(g, "disk_status") \subseteq RowsOf(f, "disk_status")
    BY <1>7, <1>13, RowsOfKind
  <2> QED BY <1>0, <1>7, <1>11, <1>13, <2>1, <2>2, FewerFine DEF SamplesInto
<1>15. Grows(d, g, at)
  BY <1>7, <1>9, <1>11, <1>13, SnapshotGrows, GrowsTrans DEF SamplesInto
<1>16. g = sampleDisks(d, Reads(h), at)
  BY <1>2, <1>6, <1>10, <1>12 DEF sampleDisks, UpsertDiskStatus, InsertDiskUsageSample
<1> QED BY <1>14, <1>15, <1>16 DEF SamplesInto

LEMMA NetSampled ==
  ASSUME NEW d, NEW p, NEW h, NEW at, NEW nodes, NEW keys, Sampling(d, h, at, nodes, keys)
  PROVE  SamplesInto(d, sampleNet(d, p, Reads(h), at), at, nodes, keys)
<1>1. PICK val : sampleNet(d, p, Reads(h), at) = Insert(d, "net_sample", <<Row(Node, NoKey, at, val)>>)
  BY DEF sampleNet, InsertNetSample
<1>2. "net_sample" \in SeriesTables
  BY DEF SeriesTables
<1> QED BY <1>1, <1>2, RowSampled DEF Sampling

LEMMA MetricSampled ==
  ASSUME NEW d, NEW h, NEW at, NEW nodes, NEW keys, Sampling(d, h, at, nodes, keys), NEW val
  PROVE  SamplesInto(d, InsertMetric(d, Row(Node, NoKey, at, val)), at, nodes, keys)
<1>1. "metric_sample" \in SeriesTables
  BY DEF SeriesTables
<1> QED BY <1>1, RowSampled DEF Sampling, InsertMetric

LEMMA CPUStateSampled ==
  ASSUME NEW d, NEW p, NEW h, NEW at, NEW nodes, NEW keys, Sampling(d, h, at, nodes, keys)
  PROVE  SamplesInto(d, sampleCPUState(d, p, h.done, at), at, nodes, keys)
<1>1. \/ sampleCPUState(d, p, h.done, at) = d
      \/ \E val : sampleCPUState(d, p, h.done, at)
                    = Insert(d, "cpu_state_sample", <<Row(Node, NoKey, at, val)>>)
  BY DEF sampleCPUState, InsertCPUState
<1>2. "cpu_state_sample" \in SeriesTables
  BY DEF SeriesTables
<1> QED BY <1>1, <1>2, RowSampled, NothingSampled DEF Sampling

LEMMA IfaceRows ==
  ASSUME NEW d, NEW p, NEW h, NEW at
  PROVE  \E v : /\ sampleNetIface(d, p, Reads(h), at)
                     = Replace(d, "net_interface", Node, UnitSet(DOMAIN Reads(h), at, v))
               /\ \A u \in DOMAIN Reads(h) : v[u].rate = Rate(p, Reads(h), at, u)
<1>1. PICK U : U = DOMAIN Reads(h)
  OBVIOUS
<1>2. PICK v : v = [u \in U |-> [rate |-> Rate(p, Reads(h), at, u), errs |-> Reads(h)[u]]]
  OBVIOUS
<1>3. PICK rows : rows = UnitSet(U, at, v)
  OBVIOUS
<1>4. rows = {Row(Node, u, at, [rate |-> Rate(p, Reads(h), at, u), errs |-> Reads(h)[u]]) : u \in U}
  BY <1>2, <1>3 DEF UnitSet
<1>5. sampleNetIface(d, p, Reads(h), at) = Replace(d, "net_interface", Node, rows)
  BY <1>1, <1>4 DEF sampleNetIface, ReplaceNetInterfaces
<1>6. \A u \in U : v[u].rate = Rate(p, Reads(h), at, u)
  BY <1>2
<1> QED BY <1>1, <1>3, <1>5, <1>6

LEMMA IfaceSampled ==
  ASSUME NEW d, NEW p, NEW h, NEW at, NEW nodes, NEW keys, Sampling(d, h, at, nodes, keys)
  PROVE  SamplesInto(d, sampleNetIface(d, p, Reads(h), at), at, nodes, keys)
<1>1. PICK U : U = DOMAIN Reads(h) /\ U \subseteq Units
  BY ReadsFacts DEF Sampling
<1>2. PICK v : sampleNetIface(d, p, Reads(h), at) = Replace(d, "net_interface", Node, UnitSet(U, at, v))
  BY <1>1, IfaceRows
<1>3. PICK rows : rows = UnitSet(U, at, v)
  OBVIOUS
<1>4. "net_interface" \in SnapshotTables
  BY DEF SnapshotTables
<1> QED BY <1>1, <1>2, <1>3, <1>4, SnapshotSampled DEF Sampling

LEMMA RaidSampled ==
  ASSUME NEW d, NEW h, NEW at, NEW nodes, NEW keys, Sampling(d, h, at, nodes, keys)
  PROVE  SamplesInto(d, sampleRaid(d, Reads(h), at), at, nodes, keys)
<1>1. PICK U : U = DOMAIN Reads(h) /\ U \subseteq Units
  BY ReadsFacts DEF Sampling
<1>2. PICK rows : rows = UnitSet(U, at, Reads(h))
  OBVIOUS
<1>3. sampleRaid(d, Reads(h), at) = Replace(d, "raid_array", Node, rows)
  BY <1>1, <1>2 DEF sampleRaid, ReplaceRaidArrays, UnitSet
<1>4. "raid_array" \in SnapshotTables
  BY DEF SnapshotTables
<1> QED BY <1>1, <1>2, <1>3, <1>4, SnapshotSampled DEF Sampling

LEMMA SmartSampled ==
  ASSUME NEW d, NEW h, NEW at, NEW nodes, NEW keys, Sampling(d, h, at, nodes, keys)
  PROVE  SamplesInto(d, sampleSmart(d, Reads(h), h.report, at), at, nodes, keys)
<1>1. PICK U : U = (IF h.report = NoTime THEN {} ELSE DOMAIN Reads(h)) /\ U \subseteq Units
  BY ReadsFacts DEF Sampling
<1>2. PICK v : v = [u \in U |-> h.report]
  OBVIOUS
<1>3. PICK rows : rows = UnitSet(U, at, v)
  OBVIOUS
<1>4. rows = IF h.report = NoTime THEN {} ELSE {Row(Node, u, at, h.report) : u \in DOMAIN Reads(h)}
  BY <1>1, <1>2, <1>3 DEF UnitSet
<1>5. sampleSmart(d, Reads(h), h.report, at) = Replace(d, "smart_disk", Node, rows)
  BY <1>4 DEF sampleSmart, ReplaceSmartDisks
<1>6. "smart_disk" \in SnapshotTables
  BY DEF SnapshotTables
<1> QED BY <1>1, <1>3, <1>5, <1>6, SnapshotSampled DEF Sampling

LEMMA CoresSampled ==
  ASSUME NEW d, NEW p, NEW h, NEW at, NEW nodes, NEW keys, Sampling(d, h, at, nodes, keys)
  PROVE  SamplesInto(d, sampleCPUCores(d, p, Reads(h), h.done, at), at, nodes, keys)
<1>1. PICK U : U = DOMAIN Reads(h) /\ U \subseteq Units
  BY ReadsFacts DEF Sampling
<1> DEFINE pct(u) == round2(h.done[u] - p.done[u], Elapsed(p, at) * Cores)
<1>2. PICK v : v = [u \in U |-> IF pct(u) > 10000 THEN 10000 ELSE pct(u)]
  <2> DEFINE shares == [u \in U |-> IF pct(u) > 10000 THEN 10000 ELSE pct(u)]
  <2> HIDE DEF shares
  <2>1. \E v : v = shares
    OBVIOUS
  <2> QED BY <2>1 DEF shares
<1>3. PICK rows : rows = UnitSet(U, at, v)
  OBVIOUS
<1>4. rows = {Row(Node, u, at, IF pct(u) > 10000 THEN 10000 ELSE pct(u)) : u \in U}
  <2> HIDE DEF pct
  <2> QED BY <1>2, <1>3 DEF UnitSet
<1>5. \/ sampleCPUCores(d, p, Reads(h), h.done, at) = d
      \/ sampleCPUCores(d, p, Reads(h), h.done, at) = Replace(d, "cpu_core", Node, rows)
  BY <1>1, <1>4 DEF sampleCPUCores, ReplacePerCore
<1>6. "cpu_core" \in SnapshotTables
  BY DEF SnapshotTables
<1>7. SamplesInto(d, Replace(d, "cpu_core", Node, rows), at, nodes, keys)
  BY <1>1, <1>3, <1>6, SnapshotSampled DEF Sampling
<1>8. SamplesInto(d, d, at, nodes, keys)
  BY NothingSampled DEF Sampling
<1> QED BY <1>5, <1>7, <1>8

LEMMA DiskIORows ==
  ASSUME NEW d, NEW p, NEW h, NEW at
  PROVE  \E v : /\ sampleDiskIO(d, p, Reads(h), at)
                     = Insert(d, "disk_io_sample", SetToSeq(UnitSet(DOMAIN Reads(h), at, v)))
               /\ \A u \in DOMAIN Reads(h) : v[u] = Rate(p, Reads(h), at, u)
<1>1. PICK U : U = DOMAIN Reads(h)
  OBVIOUS
<1>2. PICK v : v = [u \in U |-> Rate(p, Reads(h), at, u)]
  OBVIOUS
<1>3. PICK rows : rows = UnitSet(U, at, v)
  OBVIOUS
<1>4. rows = {Row(Node, u, at, Rate(p, Reads(h), at, u)) : u \in U}
  BY <1>2, <1>3 DEF UnitSet
<1>5. sampleDiskIO(d, p, Reads(h), at) = Insert(d, "disk_io_sample", SetToSeq(rows))
  BY <1>1, <1>4 DEF sampleDiskIO, InsertDiskIOSample
<1>6. \A u \in U : v[u] = Rate(p, Reads(h), at, u)
  BY <1>2
<1> QED BY <1>1, <1>3, <1>5, <1>6

LEMMA DiskIOSampled ==
  ASSUME NEW d, NEW p, NEW h, NEW at, NEW nodes, NEW keys, Sampling(d, h, at, nodes, keys)
  PROVE  SamplesInto(d, sampleDiskIO(d, p, Reads(h), at), at, nodes, keys)
<1>1. PICK U : U = DOMAIN Reads(h) /\ U \subseteq Units
  BY ReadsFacts DEF Sampling
<1>2. PICK v : sampleDiskIO(d, p, Reads(h), at) = Insert(d, "disk_io_sample", SetToSeq(UnitSet(U, at, v)))
  BY <1>1, DiskIORows
<1>3. PICK rows : rows = UnitSet(U, at, v)
  OBVIOUS
<1>4. "disk_io_sample" \in SeriesTables
  BY DEF SeriesTables
<1> QED BY <1>1, <1>2, <1>3, <1>4, UnitsSampled DEF Sampling

LEMMA Quotient ==
  ASSUME NEW x \in Int, NEW y \in Nat, y > 0
  PROVE  /\ x \div y \in Int /\ y * (x \div y) \in Int
         /\ y * (x \div y) <= x /\ x < y * (x \div y) + y
         /\ x >= 0 => x \div y \in Nat
OBVIOUS

LEMMA Round2 ==
  ASSUME NEW num \in Nat, NEW den \in Nat, den > 0
  PROVE  /\ round2(num, den) \in Nat
         /\ (2 * den) * round2(num, den) <= 20000 * num + den
         /\ (2 * den) * round2(num, den) >= 20000 * num - den
<1>1. 20000 * num + den \in Nat /\ 2 * den \in Nat /\ 2 * den > 0
  OBVIOUS
<1>2. PICK x, y : x = 20000 * num + den /\ y = 2 * den
  OBVIOUS
<1>3. x \in Nat /\ x \in Int /\ y \in Nat /\ y > 0 /\ x >= 0
  BY <1>1, <1>2
<1>4. PICK q : q = x \div y
  OBVIOUS
<1>5. q \in Nat /\ y * q \in Int /\ y * q <= x /\ x < y * q + y
  BY <1>3, <1>4, Quotient
<1>6. y * q >= 20000 * num - den
  BY <1>2, <1>5
<1> QED BY <1>2, <1>4, <1>5, <1>6 DEF round2

(* The share of CPU time of a process that gained so much of it.           *)
Gained(p, rd, u, g) == g \in Nat /\ (g = 0 \/ (Had(p, u) /\ g = rd[u] - p.ctr[u]))
ShareOf(p, at, g, x) ==
  x \in Nat /\ (2 * (Elapsed(p, at) * Cores)) * x <= 20000 * g + Elapsed(p, at) * Cores
LEMMA ProcessRows ==
  ASSUME NEW d, NEW p, NEW h, NEW at \in Nat, HostOK(h), ReadingOK(p, at)
  PROVE  \E U \in SUBSET Units : \E v :
           /\ sampleProcesses(d, p, Reads(h), at) = Replace(d, "process_top", Node, UnitSet(U, at, v))
           /\ \A u \in U : u \in DOMAIN Reads(h) /\ \E g : Gained(p, Reads(h), u, g) /\ ShareOf(p, at, g, v[u])
<1>1. PICK rd : rd = Reads(h) /\ DOMAIN rd \subseteq Units /\ \A u \in DOMAIN rd : rd[u] \in Nat
  BY ReadsFacts
<1> DEFINE gain(u)  == IF Had(p, u) /\ rd[u] > p.ctr[u] THEN rd[u] - p.ctr[u] ELSE 0
           share(u) == IF Elapsed(p, at) > 0 THEN round2(gain(u), Elapsed(p, at) * Cores) ELSE 0
           k        == IF Cardinality(DOMAIN rd) < TopN THEN Cardinality(DOMAIN rd) ELSE TopN
           top      == {s \in SUBSET DOMAIN rd :
                          /\ Cardinality(s) = k
                          /\ \A u \in s, v \in DOMAIN rd \ s : share(u) >= share(v)}
           shares   == [u \in DOMAIN rd |-> share(u)]
<1>2. \A u \in DOMAIN rd : gain(u) \in Nat /\ Gained(p, rd, u, gain(u))
  BY <1>1 DEF Had, ReadingOK, Gained
<1>3. Elapsed(p, at) \in Nat
  BY DEF Elapsed, ReadingOK
<1>4. ASSUME NEW u \in DOMAIN rd PROVE share(u) \in Nat /\ ShareOf(p, at, gain(u), share(u))
  <2>0. CASE ~(Elapsed(p, at) > 0)
    <3>1. PICK e, g : e = Elapsed(p, at) /\ g = gain(u)
      OBVIOUS
    <3>2. share(u) = 0 /\ e = 0 /\ g \in Nat
      BY <1>2, <1>3, <2>0, <3>1
    <3>3. e * Cores = 0
      BY <3>2, CollectorAssumption
    <3> HIDE DEF gain, share
    <3> QED BY <3>1, <3>2, <3>3 DEF ShareOf
  <2>5. CASE Elapsed(p, at) > 0
    <3>1. PICK den : den = Elapsed(p, at) * Cores
      OBVIOUS
    <3>2. den \in Nat /\ den > 0
      <4>1. PICK e : e = Elapsed(p, at)
        OBVIOUS
      <4>2. e \in Nat /\ e > 0 /\ Cores \in Nat /\ Cores > 0
        BY <1>3, <2>5, <4>1, CollectorAssumption
      <4>3. e * Cores \in Nat /\ e * Cores > 0
        BY <4>2
      <4> QED BY <3>1, <4>1, <4>3
    <3>3. PICK num \in Nat : num = gain(u)
      BY <1>2
    <3>4. share(u) = round2(num, den)
      BY <3>1, <3>3, <2>5
    <3> HIDE DEF gain, share
    <3> QED BY <3>1, <3>2, <3>3, <3>4, Round2 DEF ShareOf
  <2> QED BY <2>0, <2>5
<1>5. IsFiniteSet(DOMAIN rd)
  BY <1>1, CollectorAssumption, FS_Subset
<1>6. k \in Nat /\ k <= Cardinality(DOMAIN rd)
  BY <1>5, FS_CardinalityType, CollectorAssumption
<1> HIDE DEF gain, share, k
<1>7. \A u \in DOMAIN rd : shares[u] = share(u) /\ shares[u] \in Nat /\ ShareOf(p, at, gain(u), shares[u])
  BY <1>4
<1>8. top # {}
  <2> HIDE DEF shares
  <2>1. PICK s \in SUBSET DOMAIN rd : Cardinality(s) = k /\ TopOf(DOMAIN rd, shares, s)
    BY <1>5, <1>6, <1>7, TopExists
  <2>2. \A u \in s, v \in DOMAIN rd \ s : share(u) >= share(v)
    BY <1>7, <2>1 DEF TopOf
  <2> QED BY <2>1, <2>2
<1>9. PICK U : U = CHOOSE s \in top : TRUE
  OBVIOUS
<1>10. U \subseteq DOMAIN rd
  <2>1. U \in top
    <3> HIDE DEF top
    <3> QED BY <1>8, <1>9
  <2> QED BY <2>1
<1>11. PICK rows : rows = UnitSet(U, at, shares)
  OBVIOUS
<1>12. rows = {Row(Node, u, at, share(u)) : u \in U}
  <2> HIDE DEF shares
  <2> QED BY <1>7, <1>10, <1>11 DEF UnitSet
<1>13. sampleProcesses(d, p, Reads(h), at) = Replace(d, "process_top", Node, rows)
  BY <1>1, <1>9, <1>12 DEF sampleProcesses, ReplaceProcessTop, gain, share, k
<1>14. \A u \in U : u \in DOMAIN rd /\ \E g : Gained(p, rd, u, g) /\ ShareOf(p, at, g, shares[u])
  <2> HIDE DEF shares
  <2> QED BY <1>2, <1>7, <1>10
<1>15. U \in SUBSET Units
  BY <1>1, <1>10
<1> HIDE DEF shares
<1> QED BY <1>1, <1>11, <1>13, <1>14, <1>15

LEMMA ProcessesSampled ==
  ASSUME NEW d, NEW p, NEW h, NEW at, NEW nodes, NEW keys, Sampling(d, h, at, nodes, keys),
         ReadingOK(p, at)
  PROVE  SamplesInto(d, sampleProcesses(d, p, Reads(h), at), at, nodes, keys)
<1>1. PICK U : U \in SUBSET Units /\
        \E v : sampleProcesses(d, p, Reads(h), at) = Replace(d, "process_top", Node, UnitSet(U, at, v))
  BY ProcessRows DEF Sampling
<1>2. PICK v : sampleProcesses(d, p, Reads(h), at) = Replace(d, "process_top", Node, UnitSet(U, at, v))
  BY <1>1
<1>3. PICK rows : rows = UnitSet(U, at, v)
  OBVIOUS
<1>4. "process_top" \in SnapshotTables
  BY DEF SnapshotTables
<1> QED BY <1>1, <1>2, <1>3, <1>4, SnapshotSampled DEF Sampling

LEMMA SamplerIs ==
  ASSUME NEW d, NEW h, NEW at, NEW failing
  PROVE  /\ "metrics" # failing => sampled("metrics", failing, d, h, at) = InsertMetric(d, Row(Node, NoKey, at, Total(Reads(h))))
         /\ "disk" # failing => sampled("disk", failing, d, h, at) = sampleDisks(d, Reads(h), at)
         /\ "net" # failing => sampled("net", failing, d, h, at) = sampleNet(d, prev["net"], Reads(h), at)
         /\ "iface" # failing => sampled("iface", failing, d, h, at) = sampleNetIface(d, prev["iface"], Reads(h), at)
         /\ "cpu" # failing => sampled("cpu", failing, d, h, at) = sampleCPUState(d, prev["cpu"], h.done, at)
         /\ "cores" # failing => sampled("cores", failing, d, h, at) = sampleCPUCores(d, prev["cores"], Reads(h), h.done, at)
         /\ "diskio" # failing => sampled("diskio", failing, d, h, at) = sampleDiskIO(d, prev["diskio"], Reads(h), at)
         /\ "proc" # failing => sampled("proc", failing, d, h, at) = sampleProcesses(d, prev["proc"], Reads(h), at)
         /\ "raid" # failing => sampled("raid", failing, d, h, at) = sampleRaid(d, Reads(h), at)
         /\ "smart" # failing => sampled("smart", failing, d, h, at) = sampleSmart(d, Reads(h), h.report, at)
<1>1. "metrics" # failing => sampled("metrics", failing, d, h, at) = InsertMetric(d, Row(Node, NoKey, at, Total(Reads(h))))
  BY ZenonT(60) DEF sampled
<1>2. "disk" # failing => sampled("disk", failing, d, h, at) = sampleDisks(d, Reads(h), at)
  BY ZenonT(60) DEF sampled
<1>3. "net" # failing => sampled("net", failing, d, h, at) = sampleNet(d, prev["net"], Reads(h), at)
  BY ZenonT(60) DEF sampled
<1>4. "iface" # failing => sampled("iface", failing, d, h, at) = sampleNetIface(d, prev["iface"], Reads(h), at)
  BY ZenonT(60) DEF sampled
<1>5. "cpu" # failing => sampled("cpu", failing, d, h, at) = sampleCPUState(d, prev["cpu"], h.done, at)
  BY ZenonT(60) DEF sampled
<1>6. "cores" # failing => sampled("cores", failing, d, h, at) = sampleCPUCores(d, prev["cores"], Reads(h), h.done, at)
  BY ZenonT(60) DEF sampled
<1>7. "diskio" # failing => sampled("diskio", failing, d, h, at) = sampleDiskIO(d, prev["diskio"], Reads(h), at)
  BY ZenonT(60) DEF sampled
<1>8. "proc" # failing => sampled("proc", failing, d, h, at) = sampleProcesses(d, prev["proc"], Reads(h), at)
  BY ZenonT(60) DEF sampled
<1>9. "raid" # failing => sampled("raid", failing, d, h, at) = sampleRaid(d, Reads(h), at)
  BY ZenonT(60) DEF sampled
<1>10. "smart" # failing => sampled("smart", failing, d, h, at) = sampleSmart(d, Reads(h), h.report, at)
  BY ZenonT(60) DEF sampled
<1> QED BY <1>1, <1>2, <1>3, <1>4, <1>5, <1>6, <1>7, <1>8, <1>9, <1>10
LEMMA SamplerSampled ==
  ASSUME NEW d, NEW h, NEW at, NEW nodes, NEW keys, Sampling(d, h, at, nodes, keys),
         \A s \in Samplers : ReadingOK(prev[s], at), NEW failing,
         NEW name \in {"metrics", "disk", "net", "iface", "cpu", "cores", "diskio", "proc",
                       "raid", "smart"}
  PROVE  SamplesInto(d, sampled(name, failing, d, h, at), at, nodes, keys)
<1>1. CASE name = failing
  <2>1. sampled(name, failing, d, h, at) = d
    BY <1>1 DEF sampled
  <2> QED BY <2>1, NothingSampled DEF Sampling
<1>2. CASE name = "metrics" /\ name # failing
  BY <1>2, SamplerIs, MetricSampled
<1>3. CASE name = "disk" /\ name # failing
  BY <1>3, SamplerIs, DisksSampled
<1>4. CASE name = "net" /\ name # failing
  BY <1>4, SamplerIs, NetSampled
<1>5. CASE name = "iface" /\ name # failing
  BY <1>5, SamplerIs, IfaceSampled
<1>6. CASE name = "cpu" /\ name # failing
  BY <1>6, SamplerIs, CPUStateSampled
<1>7. CASE name = "cores" /\ name # failing
  BY <1>7, SamplerIs, CoresSampled
<1>8. CASE name = "diskio" /\ name # failing
  BY <1>8, SamplerIs, DiskIOSampled
<1>9. CASE name = "proc" /\ name # failing
  <2>1. ReadingOK(prev["proc"], at)
    BY DEF Samplers
  <2> QED BY <1>9, <2>1, SamplerIs, ProcessesSampled
<1>10. CASE name = "raid" /\ name # failing
  BY <1>10, SamplerIs, RaidSampled
<1>11. CASE name = "smart" /\ name # failing
  BY <1>11, SamplerIs, SmartSampled
<1> QED BY <1>1, <1>2, <1>3, <1>4, <1>5, <1>6, <1>7, <1>8, <1>9, <1>10, <1>11

(* A cycle runs one sampler after the other. *)
Run(d, h, at, failing, f, n) ==
  f = [i \in 0..n |-> IF i = 0 THEN d ELSE sampled(Order[i], failing, f[i - 1], h, at)]

LEMMA RunExists ==
  ASSUME NEW d, NEW h, NEW at, NEW failing, NEW n \in Nat
  PROVE  \E f : Run(d, h, at, failing, f, n)
<1> DEFINE Bad == {k \in Nat : ~ \E f : Run(d, h, at, failing, f, k)}
<1>1. ASSUME Bad # {} PROVE FALSE
  <2>1. PICK k \in Bad : \A m \in Bad : k <= m
    BY <1>1, LeastOf
  <2>2. k # 0
    <3> DEFINE f == [i \in 0..0 |-> d]
    <3>1. Run(d, h, at, failing, f, 0)
      BY DEF Run
    <3> QED BY <2>1, <3>1
  <2>3. k - 1 \in Nat /\ k - 1 \notin Bad
    BY <2>1, <2>2
  <2>4. PICK g : Run(d, h, at, failing, g, k - 1)
    BY <2>3
  <2> DEFINE f == [i \in 0..k |-> IF i < k THEN g[i] ELSE sampled(Order[k], failing, g[k - 1], h, at)]
  <2>5. ASSUME NEW i \in 0..k
        PROVE  f[i] = IF i = 0 THEN d ELSE sampled(Order[i], failing, f[i - 1], h, at)
    <3>1. CASE i = k
      <4>1. f[i - 1] = g[k - 1] /\ i # 0
        BY <2>1, <2>2, <3>1
      <4> QED BY <3>1, <4>1
    <3>2. CASE i = 0
      <4>1. g[0] = d
        BY <2>3, <2>4 DEF Run
      <4> QED BY <2>1, <2>2, <3>2, <4>1
    <3>3. CASE i # 0 /\ i # k
      <4>1. i \in 0..(k - 1) /\ i - 1 \in 0..(k - 1)
        BY <2>1, <3>3
      <4>2. g[i] = sampled(Order[i], failing, g[i - 1], h, at)
        BY <2>4, <3>3, <4>1 DEF Run
      <4>3. f[i] = g[i] /\ f[i - 1] = g[i - 1]
        BY <2>1, <3>3, <4>1
      <4> QED BY <3>3, <4>2, <4>3
    <3> QED BY <3>1, <3>2, <3>3
  <2>6. Run(d, h, at, failing, f, k)
    <3> HIDE DEF f
    <3>1. f = [i \in 0..k |-> f[i]]
      BY DEF f
    <3> QED BY <2>5, <3>1 DEF Run
  <2> QED BY <2>1, <2>6
<1> QED BY <1>1

LEMMA OrderOfSamplers ==
  /\ Len(Order) = 10
  /\ \A n \in 1..10 : Order[n] \in {"metrics", "disk", "net", "iface", "cpu", "cores", "diskio",
                                    "proc", "raid", "smart"}
BY DEF Order

LEMMA CycleRuns ==
  ASSUME NEW d, NEW h, NEW at, NEW nodes, NEW keys, Sampling(d, h, at, nodes, keys),
         \A s \in Samplers : ReadingOK(prev[s], at), NEW failing
  PROVE  \E f : /\ f[0] = d
                /\ \A i \in 1..10 : f[i] = sampled(Order[i], failing, f[i - 1], h, at)
                /\ \A i \in 0..10 : SamplesInto(d, f[i], at, nodes, keys)
                /\ sampleOnce(d, h, at, failing) = IF failing = "metrics" THEN d ELSE f[10]
<1>0. SamplesInto(d, d, at, nodes, keys)
  BY NothingSampled DEF Sampling
<1>1. PICK f : /\ Run(d, h, at, failing, f, 10)
               /\ sampleOnce(d, h, at, failing) = IF failing = "metrics" THEN d ELSE f[10]
  <2>1. \E f : Run(d, h, at, failing, f, 10)
    BY RunExists
  <2>2. Run(d, h, at, failing, CHOOSE f : Run(d, h, at, failing, f, 10), 10)
    BY <2>1
  <2>3. sampleOnce(d, h, at, failing) =
          IF failing = "metrics" THEN d ELSE (CHOOSE f : Run(d, h, at, failing, f, 10))[10]
    BY OrderOfSamplers DEF sampleOnce, Run
  <2> QED BY <2>2, <2>3
<1>2. ASSUME NEW i \in 0..10
      PROVE  f[i] = IF i = 0 THEN d ELSE sampled(Order[i], failing, f[i - 1], h, at)
  BY <1>1 DEF Run
<1> DEFINE Good(k) == SamplesInto(d, f[k], at, nodes, keys)
           Bad == {k \in 0..10 : ~Good(k)}
<1>3. ASSUME Bad # {} PROVE FALSE
  <2>0. Bad \subseteq Nat
    OBVIOUS
  <2>1. PICK k \in Bad : \A m \in Bad : k <= m
    <3> HIDE DEF Bad
    <3> QED BY <1>3, <2>0, LeastOf
  <2>2. k \in 0..10 /\ ~Good(k)
    BY <2>1
  <2>3. k # 0
    <3>1. f[0] = d
      BY <1>2
    <3> QED BY <1>0, <2>2, <3>1
  <2>4. k \in 1..10 /\ k - 1 \in 0..10 /\ ~(k <= k - 1)
    BY <2>2, <2>3
  <2>5. Good(k - 1)
    <3>1. k - 1 \notin Bad
      <4> HIDE DEF Bad
      <4> QED BY <2>1, <2>4
    <3> HIDE DEF Good
    <3> QED BY <2>4, <3>1
  <2>6. PICK e : e = f[k - 1] /\ SamplesInto(d, e, at, nodes, keys)
    BY <2>5
  <2>7. PICK g : g = sampled(Order[k], failing, e, h, at)
    OBVIOUS
  <2>8. Sampling(e, h, at, nodes, keys)
    BY <2>6 DEF Sampling, SamplesInto
  <2>9. SamplesInto(e, g, at, nodes, keys)
    BY <2>4, <2>7, <2>8, OrderOfSamplers, SamplerSampled
  <2>10. SamplesInto(d, g, at, nodes, keys)
    BY <2>6, <2>9, GrowsTrans DEF SamplesInto
  <2>11. g = f[k]
    BY <1>2, <2>2, <2>3, <2>6, <2>7
  <2> QED BY <2>2, <2>10, <2>11
<1>4. \A i \in 0..10 : Good(i)
  BY <1>3
<1>5. f[0] = d
  BY <1>2
<1>6. \A i \in 1..10 : f[i] = sampled(Order[i], failing, f[i - 1], h, at)
  <2> SUFFICES ASSUME NEW i \in 1..10 PROVE f[i] = sampled(Order[i], failing, f[i - 1], h, at)
    OBVIOUS
  <2>1. i \in 0..10 /\ i # 0
    OBVIOUS
  <2> QED BY <1>2, <2>1
<1> QED BY <1>1, <1>4, <1>5, <1>6

LEMMA CycleSampled ==
  ASSUME NEW d, NEW h, NEW at, NEW nodes, NEW keys, Sampling(d, h, at, nodes, keys),
         \A s \in Samplers : ReadingOK(prev[s], at), NEW failing
  PROVE  SamplesInto(d, sampleOnce(d, h, at, failing), at, nodes, keys)
<1>1. SamplesInto(d, d, at, nodes, keys)
  BY NothingSampled DEF Sampling
<1>2. PICK f : /\ \A i \in 0..10 : SamplesInto(d, f[i], at, nodes, keys)
               /\ sampleOnce(d, h, at, failing) = IF failing = "metrics" THEN d ELSE f[10]
  BY CycleRuns
<1>3. SamplesInto(d, f[10], at, nodes, keys)
  BY <1>2
<1> QED BY <1>1, <1>2, <1>3

(* Pruning takes the rows of the series that are older than the retention  *)
(* time, and nothing else.                                                 *)
Pruned(d, e, at) ==
  /\ \A t \in SnapshotTables : e[t] = d[t]
  /\ \A t \in SeriesTables :
       ToSet(e[t]) = {r \in ToSet(d[t]) : Retention > 0 => r.at >= at - Retention}

LEMMA PruneSteps ==
  ASSUME NEW d, NEW at \in Int, NEW top \in Int, NEW nodes, NEW keys, Fine(d, top, nodes, keys)
  PROVE  Fine(prune(d, at), top, nodes, keys) /\ Pruned(d, prune(d, at), at)
<1>0. Retention \in Nat
  BY CollectorAssumption
<1>1. CASE Retention <= 0
  <2>1. prune(d, at) = d
    BY <1>1 DEF prune
  <2> QED BY <1>0, <1>1, <2>1 DEF Pruned
<1>2. CASE ~(Retention <= 0)
  <2>1. PICK before \in Int : before = at - Retention
    BY <1>0
  <2>2. PICK e1 : e1 = PruneTable(d, "metric_sample", before)
    OBVIOUS
  <2>3. PICK e2 : e2 = PruneTable(e1, "net_sample", before)
    OBVIOUS
  <2>4. PICK e3 : e3 = PruneTable(e2, "cpu_state_sample", before)
    OBVIOUS
  <2>5. PICK e4 : e4 = PruneTable(e3, "disk_io_sample", before)
    OBVIOUS
  <2>6. PICK e5 : e5 = PruneTable(e4, "disk_usage_sample", before)
    OBVIOUS
  <2>7. prune(d, at) = e5
    BY <1>2, <2>1, <2>2, <2>3, <2>4, <2>5, <2>6
       DEF prune, Prune, PruneNet, PruneCPUState, PruneDiskIO, PruneDiskUsage
  <2>8. /\ "metric_sample" \in SeriesTables /\ "net_sample" \in SeriesTables
        /\ "cpu_state_sample" \in SeriesTables /\ "disk_io_sample" \in SeriesTables
        /\ "disk_usage_sample" \in SeriesTables
    BY DEF SeriesTables
  <2> DEFINE Left(e, f, t) ==
               /\ Fine(f, top, nodes, keys) /\ Writes(e, f, t)
               /\ ToSet(f[t]) = {r \in ToSet(e[t]) : r.at >= before}
  <2>9. ASSUME NEW e, Fine(e, top, nodes, keys), NEW t \in SeriesTables
        PROVE  Left(e, PruneTable(e, t, before), t)
    <3>1. Fine(PruneTable(e, t, before), top, nodes, keys)
      BY <2>9, PruneFine
    <3>2. ToSet(PruneTable(e, t, before)[t]) = {r \in ToSet(e[t]) : r.at >= before}
      BY <2>9, PruneFine
    <3>3. Writes(e, PruneTable(e, t, before), t)
      BY <2>9, PruneOp DEF Fine
    <3> QED BY <3>1, <3>2, <3>3
  <2>10. Left(d, e1, "metric_sample")
    BY <2>2, <2>8, <2>9
  <2>11. Left(e1, e2, "net_sample")
    BY <2>3, <2>8, <2>9, <2>10
  <2>12. Left(e2, e3, "cpu_state_sample")
    BY <2>4, <2>8, <2>9, <2>11
  <2>13. Left(e3, e4, "disk_io_sample")
    BY <2>5, <2>8, <2>9, <2>12
  <2>14. Left(e4, e5, "disk_usage_sample")
    BY <2>6, <2>8, <2>9, <2>13
  <2>15. \A t \in SnapshotTables : e5[t] = d[t]
    BY <2>8, <2>10, <2>11, <2>12, <2>13, <2>14, TableKinds DEF Writes
  <2>16. ASSUME NEW t \in SeriesTables
         PROVE  ToSet(e5[t]) = {r \in ToSet(d[t]) : Retention > 0 => r.at >= at - Retention}
    <3>0. Retention > 0
      BY <1>0, <1>2
    <3>1. \A r \in ToSet(d[t]) : (Retention > 0 => r.at >= at - Retention) <=> r.at >= before
      BY <2>1, <3>0
    <3>2. ToSet(e5[t]) = {r \in ToSet(d[t]) : r.at >= before}
      <4>1. CASE t = "metric_sample"
        BY <4>1, <2>8, <2>10, <2>11, <2>12, <2>13, <2>14, TableKinds DEF Writes
      <4>2. CASE t = "net_sample"
        BY <4>2, <2>8, <2>10, <2>11, <2>12, <2>13, <2>14, TableKinds DEF Writes
      <4>3. CASE t = "cpu_state_sample"
        BY <4>3, <2>8, <2>10, <2>11, <2>12, <2>13, <2>14, TableKinds DEF Writes
      <4>4. CASE t = "disk_io_sample"
        BY <4>4, <2>8, <2>10, <2>11, <2>12, <2>13, <2>14, TableKinds DEF Writes
      <4>5. CASE t = "disk_usage_sample"
        BY <4>5, <2>8, <2>10, <2>11, <2>12, <2>13, <2>14, TableKinds DEF Writes
      <4> QED BY <4>1, <4>2, <4>3, <4>4, <4>5 DEF SeriesTables
    <3> QED BY <3>1, <3>2
  <2> QED BY <2>7, <2>14, <2>15, <2>16 DEF Pruned
<1> QED BY <1>1, <1>2

---------------------------------------------------------------------------
(* The inductive invariant of the collector, over a set of keys that has   *)
(* those it writes.                                                        *)
CollectorInv(keys) ==
  /\ now \in Nat
  /\ HostOK(host)
  /\ \A s \in Samplers : ReadingOK(prev[s], now)
  /\ Fine(src, now, {Node}, keys)

(* The rows a cycle leaves of a database, and those it adds. *)
Cycled(d, e, at) == \E f : Grows(d, f, at) /\ Pruned(f, e, at)

LEMMA HostMoves ==
  ASSUME HostOK(host), NEW r \in Readings
  PROVE  HostOK(HostAfter(r))
<1>1. r.units \subseteq Units /\ r.gain \in [Units -> Nat]
  BY CollectorAssumption
<1>2. \A u \in Units : host.ctr[u] \in Nat /\ host.done[u] \in Nat /\ r.gain[u] \in Nat
  BY <1>1 DEF HostOK
<1>3. HostAfter(r).units = r.units
  BY DEF HostAfter
<1>4. HostAfter(r).ctr = [u \in Units |-> IF u \notin r.units THEN 0
                               ELSE IF u \in r.reset THEN r.gain[u]
                               ELSE host.ctr[u] + r.gain[u]]
  BY DEF HostAfter
<1>5. HostAfter(r).done = [u \in Units |-> host.done[u] + r.gain[u]]
  BY DEF HostAfter
<1>6. HostAfter(r).ctr \in [Units -> Nat]
  BY <1>2, <1>4
<1>7. HostAfter(r).done \in [Units -> Nat]
  BY <1>2, <1>5
<1> QED BY <1>1, <1>3, <1>6, <1>7 DEF HostOK

LEMMA LaterReading ==
  ASSUME NEW p, NEW at \in Nat, NEW later \in Nat, at <= later, ReadingOK(p, at)
  PROVE  ReadingOK(p, later)
BY DEF ReadingOK

LEMMA CycleKeeps ==
  ASSUME NEW keys, Units \cup {NoKey} \subseteq keys, CollectorInv(keys), CollectorNext
  PROVE  /\ CollectorInv(keys)' /\ now <= now'
         /\ src' = src \/ Cycled(src, src', now')
<1>1. CASE Restart
  <2>1. \A s \in Samplers : prev'[s] = None
    BY <1>1 DEF Restart
  <2>2. UNCHANGED <<now, host, src>>
    BY <1>1 DEF Restart
  <2> QED BY <2>1, <2>2 DEF CollectorInv, ReadingOK
<1>2. ASSUME NEW r \in Readings, NEW failing, Sample(r, failing)
      PROVE  /\ CollectorInv(keys)' /\ now <= now'
             /\ src' = src \/ Cycled(src, src', now')
  <2>1. now \in Nat /\ r.dt \in Nat /\ now' = now + r.dt
    BY <1>2, CollectorAssumption DEF CollectorInv, Sample
  <2>2. PICK at \in Nat : at = now' /\ now <= at
    BY <2>1
  <2>3. PICK h : h = host' /\ HostOK(h)
    BY <1>2, HostMoves DEF CollectorInv, Sample
  <2>4. Fine(src, at, {Node}, keys)
    BY <2>2, LaterIsFine DEF CollectorInv
  <2>5. \A s \in Samplers : ReadingOK(prev[s], at)
    BY <2>2, LaterReading DEF CollectorInv
  <2>6. Sampling(src, h, at, {Node}, keys)
    BY <2>2, <2>3, <2>4 DEF Sampling
  <2>7. PICK e : e = sampleOnce(src, h, at, failing)
    OBVIOUS
  <2>8. SamplesInto(src, e, at, {Node}, keys)
    BY <2>5, <2>6, <2>7, CycleSampled
  <2>9. src' = prune(e, at)
    BY <1>2, <2>2, <2>3, <2>7 DEF Sample
  <2>10. Fine(src', at, {Node}, keys) /\ Pruned(e, src', at)
    <3>1. PICK g : g = prune(e, at)
      OBVIOUS
    <3>2. Fine(g, at, {Node}, keys) /\ Pruned(e, g, at)
      BY <2>2, <2>8, <3>1, PruneSteps DEF SamplesInto
    <3> QED BY <2>9, <3>1, <3>2
  <2>11. Cycled(src, src', now')
    BY <2>2, <2>8, <2>10 DEF Cycled, SamplesInto
  <2>12. ASSUME NEW s \in Samplers PROVE ReadingOK(prev'[s], at)
    <3>1. prev'[s] = Reading(s, h, at, failing)
      BY <1>2, <2>2, <2>3 DEF Sample
    <3>2. CASE failing \in {s, "metrics"}
      BY <2>5, <3>1, <3>2 DEF Reading
    <3>3. CASE failing \notin {s, "metrics"}
      <4>1. PICK c : c = Reads(h) /\ DOMAIN c \subseteq Units /\ \A u \in DOMAIN c : c[u] \in Nat
        BY <2>3, ReadsFacts
      <4>2. prev'[s] = [at |-> at, ctr |-> c, done |-> h.done]
        BY <3>1, <3>3, <4>1 DEF Reading
      <4>3. prev'[s].at = at /\ prev'[s].ctr = c
        BY <4>2
      <4> QED BY <4>1, <4>3 DEF ReadingOK
    <3> QED BY <3>2, <3>3
  <2> QED BY <2>2, <2>3, <2>10, <2>11, <2>12 DEF CollectorInv
<1> QED BY <1>1, <1>2 DEF CollectorNext

LEMMA NewDatabase ==
  ASSUME NEW keys, NEW top, NEW nodes
  PROVE  Fine(schemaSQL, top, nodes, keys)
<1>1. DOMAIN schemaSQL = Tables
  BY DEF schemaSQL
<1>2. \A t \in SeriesTables : schemaSQL[t] = <<>>
  BY TableKinds DEF schemaSQL
<1>3. \A t \in SnapshotTables : schemaSQL[t] = {}
  BY TableKinds DEF schemaSQL
<1>4. \A t \in Tables : RowsOf(schemaSQL, t) = {}
  BY <1>2, <1>3, NoRow, TableKinds, RowsOfKind
<1>5. Snapshot({})
  BY FS_EmptySet DEF Snapshot, Apart
<1>6. \A t \in SeriesTables : IsSeq(schemaSQL[t])
  BY <1>2, NoRow
<1>7. \A t \in SnapshotTables : Snapshot(schemaSQL[t])
  BY <1>3, <1>5
<1> QED BY <1>1, <1>4, <1>6, <1>7 DEF Fine

LEMMA CollectorStarts ==
  ASSUME NEW keys, CollectorInit
  PROVE  CollectorInv(keys)
<1>1. now = 0 /\ src = schemaSQL
  BY DEF CollectorInit
<1>2. HostOK(host)
  <2>1. host.ctr = [u \in Units |-> 0] /\ host.done = [u \in Units |-> 0] /\ host.units = {}
    BY DEF CollectorInit
  <2> QED BY <2>1 DEF HostOK
<1>3. \A s \in Samplers : prev[s] = None
  BY DEF CollectorInit
<1> QED BY <1>1, <1>2, <1>3, NewDatabase DEF CollectorInv, ReadingOK

LEMMA CollectorInvStable ==
  ASSUME NEW keys, CollectorInv(keys), UNCHANGED <<now, host, prev, src>>
  PROVE  CollectorInv(keys)'
BY DEF CollectorInv

LEMMA CollectorTypes ==
  CollectorInv(Units \cup {NoKey}) => CollectorTypeOK
<1> SUFFICES ASSUME CollectorInv(Units \cup {NoKey}) PROVE CollectorTypeOK
  OBVIOUS
<1>1. now \in Nat
  BY DEF CollectorInv
<1>2. \A t \in Tables : \A r \in RowsOf(src, t) :
        r.node = Node /\ r.at \in 0..now /\ r.key \in Units \cup {NoKey}
  BY DEF CollectorInv, Fine, RowFine
<1>3. \A t \in SnapshotTables : \A r, s \in src[t] : r.key = s.key => r = s
  <2> SUFFICES ASSUME NEW t \in SnapshotTables, NEW r \in src[t], NEW s \in src[t], r.key = s.key
               PROVE  r = s
    OBVIOUS
  <2>1. r.node = Node /\ s.node = Node
    BY <1>2, TableKinds, RowsOfKind
  <2>2. Apart(src[t])
    BY DEF CollectorInv, Fine, Snapshot
  <2> QED BY <2>1, <2>2 DEF Apart
<1>4. \A s \in Samplers :
        prev[s] = None \/ (prev[s].at \in 0..now /\ DOMAIN prev[s].ctr \subseteq Units)
  BY DEF CollectorInv, ReadingOK
<1> QED BY <1>1, <1>2, <1>3, <1>4 DEF CollectorTypeOK

(* The collector writes rows of its own node, of units the host has or has *)
(* had, never from the future, and at most one row of a unit into a        *)
(* snapshot; and what it remembers of a reading is of the past (collector  *)
(* .go sampleOnce; the replacing and upserting statements of storage.go).  *)
THEOREM CollectorRows == CollectorSpec => []CollectorTypeOK
<1> DEFINE Inv == CollectorInv(Units \cup {NoKey})
<1>1. CollectorInit => Inv
  BY CollectorStarts
<1>2. Inv /\ [CollectorNext]_collectorVars => Inv'
  <2>1. ASSUME Inv, CollectorNext PROVE Inv'
    BY <2>1, CycleKeeps
  <2>2. ASSUME Inv, UNCHANGED collectorVars PROVE Inv'
    BY <2>2, CollectorInvStable DEF collectorVars
  <2> QED BY <2>1, <2>2
<1>3. Inv => CollectorTypeOK
  BY CollectorTypes
<1> HIDE DEF Inv
<1> QED BY <1>1, <1>2, <1>3, PTL DEF CollectorSpec

---------------------------------------------------------------------------
(* Sums.  Total picks the elements one by one in an order of its own; that *)
(* any order gives the same sum lets sums be compared element by element.  *)
Pick(s) == CHOOSE u \in s : TRUE
Adds(f, sum, S) ==
  sum = [s \in SUBSET S |-> IF s = {} THEN 0 ELSE f[Pick(s)] + sum[s \ {Pick(s)}]]
UpTo(S, n) == {s \in SUBSET S : Cardinality(s) <= n}
AddsUpTo(f, sum, S, n) ==
  sum = [s \in UpTo(S, n) |-> IF s = {} THEN 0 ELSE f[Pick(s)] + sum[s \ {Pick(s)}]]
Summing(f, sum, S) ==
  /\ \A s \in SUBSET S : sum[s] \in Int
  /\ sum[{}] = 0
  /\ \A s \in SUBSET S : \A x \in s : sum[s] = f[x] + sum[s \ {x}]

LEMMA Without ==
  ASSUME NEW S, IsFiniteSet(S), NEW s \in SUBSET S, NEW x \in s
  PROVE  /\ IsFiniteSet(s) /\ IsFiniteSet(s \ {x}) /\ s \ {x} \in SUBSET S
         /\ Cardinality(s) \in Nat /\ Cardinality(s \ {x}) \in Nat
         /\ Cardinality(s \ {x}) = Cardinality(s) - 1 /\ Cardinality(s) > 0
<1>1. IsFiniteSet(s)
  BY FS_Subset
<1>2. IsFiniteSet(s \ {x}) /\ Cardinality(s \ {x}) = Cardinality(s) - 1
  BY <1>1, FS_RemoveElement
<1>3. Cardinality(s) \in Nat /\ Cardinality(s \ {x}) \in Nat
  BY <1>1, <1>2, FS_CardinalityType
<1> QED BY <1>1, <1>2, <1>3

LEMMA OneLess ==
  ASSUME NEW S, IsFiniteSet(S), NEW n \in Nat, NEW s \in UpTo(S, n), NEW x \in s
  PROVE  n > 0 /\ s \ {x} \in UpTo(S, n - 1) /\ s \ {x} \in UpTo(S, n)
<1>1. s \in SUBSET S /\ Cardinality(s) <= n
  BY DEF UpTo
<1>2. PICK r : r = s \ {x}
  OBVIOUS
<1>3. /\ r \in SUBSET S /\ Cardinality(s) \in Nat /\ Cardinality(r) \in Nat
      /\ Cardinality(r) = Cardinality(s) - 1 /\ Cardinality(s) > 0
  BY <1>1, <1>2, Without
<1>4. Cardinality(r) <= n - 1 /\ Cardinality(r) <= n /\ n > 0
  BY <1>1, <1>3
<1> QED BY <1>2, <1>3, <1>4 DEF UpTo

LEMMA Picked == ASSUME NEW s, s # {} PROVE Pick(s) \in s
BY DEF Pick

LEMMA SumExists ==
  ASSUME NEW f, NEW S, IsFiniteSet(S), NEW n \in Nat
  PROVE  \E sum : AddsUpTo(f, sum, S, n)
<1> DEFINE Bad == {k \in Nat : ~ \E sum : AddsUpTo(f, sum, S, k)}
<1>1. ASSUME Bad # {} PROVE FALSE
  <2>1. PICK k \in Bad : \A m \in Bad : k <= m
    BY <1>1, LeastOf
  <2>2. ASSUME NEW s \in UpTo(S, 0) PROVE s = {}
    <3>1. ASSUME NEW x \in s PROVE FALSE
      <4>1. 0 \in Nat /\ ~(0 > 0)
        OBVIOUS
      <4> QED BY <2>2, <3>1, <4>1, OneLess
    <3> QED BY <3>1
  <2>3. k # 0
    <3> DEFINE g == [s \in UpTo(S, 0) |-> 0]
    <3>1. \A s \in UpTo(S, 0) : g[s] = IF s = {} THEN 0 ELSE f[Pick(s)] + g[s \ {Pick(s)}]
      BY <2>2
    <3>2. g = [s \in UpTo(S, 0) |-> g[s]]
      OBVIOUS
    <3>3. AddsUpTo(f, g, S, 0)
      <4> HIDE DEF g
      <4> QED BY <3>1, <3>2 DEF AddsUpTo
    <3> QED BY <2>1, <3>3
  <2>4. k \in Nat /\ k - 1 \in Nat /\ k - 1 \notin Bad
    BY <2>1, <2>3
  <2>5. PICK g : AddsUpTo(f, g, S, k - 1)
    BY <2>4
  <2> DEFINE rest(s) == g[s \ {Pick(s)}]
             h == [s \in UpTo(S, k) |-> IF s = {} THEN 0 ELSE f[Pick(s)] + rest(s)]
  <2>6. ASSUME NEW s \in UpTo(S, k), s # {}
        PROVE  h[s \ {Pick(s)}] = g[s \ {Pick(s)}]
    <3>1. PICK x : x = Pick(s) /\ x \in s
      BY <2>6, Picked
    <3>2. PICK r : r = s \ {x}
      OBVIOUS
    <3>4. r \in UpTo(S, k - 1) /\ r \in UpTo(S, k)
      BY <2>4, <2>6, <3>1, <3>2, OneLess
    <3>5. h[r] = IF r = {} THEN 0 ELSE f[Pick(r)] + g[r \ {Pick(r)}]
      BY <3>4
    <3>6. g[r] = IF r = {} THEN 0 ELSE f[Pick(r)] + g[r \ {Pick(r)}]
      BY <2>5, <3>4 DEF AddsUpTo
    <3>7. h[r] = g[r]
      BY <3>5, <3>6
    <3> HIDE DEF h
    <3> QED BY <3>1, <3>2, <3>7
  <2>7. \A s \in UpTo(S, k) : h[s] = IF s = {} THEN 0 ELSE f[Pick(s)] + h[s \ {Pick(s)}]
    BY <2>6
  <2>8. h = [s \in UpTo(S, k) |-> h[s]]
    OBVIOUS
  <2>9. AddsUpTo(f, h, S, k)
    <3> HIDE DEF h
    <3> QED BY <2>7, <2>8 DEF AddsUpTo
  <2> QED BY <2>1, <2>9
<1> QED BY <1>1

LEMMA AnyOrder ==
  ASSUME NEW f, NEW S, IsFiniteSet(S), \A x \in S : f[x] \in Int, NEW sum, Adds(f, sum, S)
  PROVE  Summing(f, sum, S)
<1>0. \A s \in SUBSET S : sum[s] = IF s = {} THEN 0 ELSE f[Pick(s)] + sum[s \ {Pick(s)}]
  BY DEF Adds
<1>1. sum[{}] = 0
  <2>1. {} \in SUBSET S
    OBVIOUS
  <2> QED BY <1>0, <2>1
<1> DEFINE Fine1(s) == sum[s] \in Int /\ \A x \in s : sum[s] = f[x] + sum[s \ {x}]
           Bad == {k \in Nat : \E s \in SUBSET S : Cardinality(s) = k /\ ~Fine1(s)}
<1>2. ASSUME Bad # {} PROVE FALSE
  <2>0. Bad \subseteq Nat
    OBVIOUS
  <2>1. PICK k \in Bad : \A m \in Bad : k <= m
    <3> HIDE DEF Bad
    <3> QED BY <1>2, <2>0, LeastOf
  <2>2. k \in Nat /\ \E s \in SUBSET S : Cardinality(s) = k /\ ~Fine1(s)
    BY <2>1
  <2>3. PICK s : s \in SUBSET S /\ Cardinality(s) = k /\ ~Fine1(s)
    BY <2>2
  <2>4. s # {}
    BY <1>1, <2>3
  <2>5. PICK p : p = Pick(s) /\ p \in s
    BY <2>4, Picked
  <2>6. sum[s] = f[p] + sum[s \ {p}]
    BY <1>0, <2>3, <2>4, <2>5
  <2>7. ASSUME NEW r \in SUBSET S, Cardinality(r) \in Nat, Cardinality(r) < k PROVE Fine1(r)
    <3>1. ~(k <= Cardinality(r))
      BY <2>2, <2>7
    <3>2. Cardinality(r) \notin Bad
      <4> HIDE DEF Bad
      <4> QED BY <2>1, <3>1
    <3> HIDE DEF Fine1
    <3> QED BY <2>7, <3>2
  <2>8. ASSUME NEW x \in s PROVE s \ {x} \in SUBSET S /\ Fine1(s \ {x})
    <3>1. PICK r : r = s \ {x}
      OBVIOUS
    <3>2. r \in SUBSET S /\ Cardinality(r) \in Nat /\ Cardinality(r) < k
      <4>1. /\ r \in SUBSET S /\ Cardinality(r) \in Nat /\ Cardinality(s) \in Nat
            /\ Cardinality(r) = Cardinality(s) - 1
        BY <2>3, <2>8, <3>1, Without
      <4> QED BY <2>3, <4>1
    <3> HIDE DEF Fine1
    <3> QED BY <2>7, <3>1, <3>2
  <2>9. sum[s] \in Int
    <3>1. sum[s \ {p}] \in Int /\ f[p] \in Int
      BY <2>3, <2>5, <2>8
    <3> QED BY <2>6, <3>1
  <2>10. ASSUME NEW x \in s PROVE sum[s] = f[x] + sum[s \ {x}]
    <3>1. CASE x = p
      BY <2>6, <3>1
    <3>2. CASE x # p
      <4>1. x \in s \ {p} /\ p \in s \ {x}
        BY <2>5, <2>10, <3>2
      <4>2. PICK both : both = (s \ {p}) \ {x} /\ both = (s \ {x}) \ {p}
        OBVIOUS
      <4>3. sum[s \ {p}] = f[x] + sum[both]
        BY <2>5, <2>8, <4>1, <4>2
      <4>4. sum[s \ {x}] = f[p] + sum[both]
        <5>1. PICK q : q = s \ {x}
          OBVIOUS
        <5>2. sum[q] = f[p] + sum[q \ {p}]
          <6>1. Fine1(q)
            <7> HIDE DEF Fine1
            <7> QED BY <2>8, <2>10, <5>1
          <6> QED BY <4>1, <5>1, <6>1
        <5> QED BY <4>2, <5>1, <5>2
      <4>5. both \in SUBSET S /\ sum[both] \in Int
        <5>1. PICK r : r = s \ {p}
          OBVIOUS
        <5>2. r \in SUBSET S /\ sum[r] = f[x] + sum[both] /\ both = r \ {x} /\ x \in r
          BY <2>5, <2>8, <4>1, <4>2, <4>3, <5>1
        <5>3. both \in SUBSET S /\ Cardinality(both) \in Nat /\ Cardinality(r) \in Nat
              /\ Cardinality(both) = Cardinality(r) - 1
          BY <5>2, Without
        <5>4. Cardinality(s) \in Nat /\ Cardinality(r) = Cardinality(s) - 1
          BY <2>3, <2>5, <5>1, Without
        <5>5. Cardinality(both) < k
          BY <2>3, <5>3, <5>4
        <5>6. Fine1(both)
          <6> HIDE DEF Fine1
          <6> QED BY <2>7, <5>3, <5>5
        <5> QED BY <5>3, <5>6
      <4>6. f[x] \in Int /\ f[p] \in Int
        BY <2>3, <2>5, <2>10
      <4> QED BY <2>6, <4>3, <4>4, <4>5, <4>6
    <3> QED BY <3>1, <3>2
  <2> QED BY <2>3, <2>9, <2>10
<1>3. ASSUME NEW s \in SUBSET S PROVE Fine1(s)
  <2>1. Cardinality(s) \in Nat
    BY FS_Subset, FS_CardinalityType
  <2>2. Cardinality(s) \notin Bad
    <3> HIDE DEF Bad
    <3> QED BY <1>2
  <2> HIDE DEF Fine1
  <2> QED BY <2>1, <2>2
<1> QED BY <1>1, <1>3 DEF Summing

LEMMA Summed ==
  ASSUME NEW f, IsFiniteSet(DOMAIN f), \A x \in DOMAIN f : f[x] \in Int
  PROVE  \E sum : Summing(f, sum, DOMAIN f) /\ Total(f) = sum[DOMAIN f]
<1> DEFINE S == DOMAIN f
<1>1. PICK n \in Nat : n = Cardinality(S)
  BY FS_CardinalityType
<1>2. ASSUME NEW s \in SUBSET S PROVE Cardinality(s) <= n
  <2>1. Cardinality(s) <= Cardinality(S)
    BY FS_Subset
  <2> QED BY <1>1, <2>1
<1>3. UpTo(S, n) = SUBSET S
  BY <1>2 DEF UpTo
<1>4. \E sum : Adds(f, sum, S)
  <2>1. PICK sum : AddsUpTo(f, sum, S, n)
    BY SumExists
  <2>2. Adds(f, sum, S)
    BY <1>3, <2>1 DEF Adds, AddsUpTo
  <2> QED BY <2>2
<1>5. PICK sum : sum = CHOOSE g : Adds(f, g, S)
  OBVIOUS
<1>6. Adds(f, sum, S)
  BY <1>4, <1>5
<1>7. Summing(f, sum, S)
  BY <1>6, AnyOrder
<1>8. Total(f) = sum[S]
  BY <1>5 DEF Total, MapThenSumSet, MapThenFoldSet, Adds, Pick
<1> QED BY <1>7, <1>8

(* Sums over parts of one set compare as their terms do.                   *)
LEMMA SumsCompare ==
  ASSUME NEW S, IsFiniteSet(S), NEW f, NEW g, NEW w,
         DOMAIN f \subseteq S, DOMAIN g \subseteq S, DOMAIN w = S,
         \A x \in DOMAIN f : f[x] \in Int, \A x \in DOMAIN g : g[x] \in Int,
         \A x \in S : w[x] \in Int,
         \A x \in S : /\ x \in DOMAIN f /\ x \in DOMAIN g => f[x] - g[x] <= w[x]
                      /\ x \in DOMAIN f /\ x \notin DOMAIN g => f[x] <= w[x]
                      /\ x \notin DOMAIN f /\ x \in DOMAIN g => 0 - g[x] <= w[x]
                      /\ x \notin DOMAIN f /\ x \notin DOMAIN g => 0 <= w[x]
  PROVE  Total(f) \in Int /\ Total(g) \in Int /\ Total(w) \in Int /\ Total(f) - Total(g) <= Total(w)
<1> DEFINE F == DOMAIN f
           G == DOMAIN g
<1>0. IsFiniteSet(F) /\ IsFiniteSet(G)
  BY FS_Subset
<1>1. PICK a : Summing(f, a, F) /\ Total(f) = a[F]
  BY <1>0, Summed
<1>2. PICK b : Summing(g, b, G) /\ Total(g) = b[G]
  BY <1>0, Summed
<1>3. PICK c : Summing(w, c, S) /\ Total(w) = c[S]
  BY Summed
<1> DEFINE Ordered(s) == a[s \cap F] - b[s \cap G] <= c[s]
           Bad == {k \in Nat : \E s \in SUBSET S : Cardinality(s) = k /\ ~Ordered(s)}
<1>4. ASSUME NEW s \in SUBSET S
      PROVE  a[s \cap F] \in Int /\ b[s \cap G] \in Int /\ c[s] \in Int
  BY <1>1, <1>2, <1>3 DEF Summing
<1>5. ASSUME Bad # {} PROVE FALSE
  <2>0. Bad \subseteq Nat
    OBVIOUS
  <2>1. PICK k \in Bad : \A m \in Bad : k <= m
    <3> HIDE DEF Bad
    <3> QED BY <1>5, <2>0, LeastOf
  <2>2. k \in Nat /\ \E s \in SUBSET S : Cardinality(s) = k /\ ~Ordered(s)
    BY <2>1
  <2>3. PICK s : s \in SUBSET S /\ Cardinality(s) = k /\ ~Ordered(s)
    BY <2>2
  <2>4. CASE s = {}
    <3>1. a[s \cap F] = 0 /\ b[s \cap G] = 0 /\ c[s] = 0
      <4>1. s \cap F = {} /\ s \cap G = {}
        BY <2>4
      <4> HIDE DEF F, G
      <4> QED BY <1>1, <1>2, <1>3, <2>4, <4>1 DEF Summing
    <3> HIDE DEF F, G
    <3> QED BY <2>3, <3>1
  <2>5. ASSUME NEW x \in s PROVE FALSE
    <3>1. PICK r : r = s \ {x}
      OBVIOUS
    <3>2. r \in SUBSET S /\ Cardinality(r) \in Nat /\ Cardinality(r) < k
      <4>1. /\ r \in SUBSET S /\ Cardinality(r) \in Nat /\ Cardinality(s) \in Nat
            /\ Cardinality(r) = Cardinality(s) - 1
        BY <2>3, <2>5, <3>1, Without
      <4> QED BY <2>3, <4>1
    <3>3. Ordered(r)
      <4>1. ~(k <= Cardinality(r))
        BY <2>2, <3>2
      <4>2. Cardinality(r) \notin Bad
        <5> HIDE DEF Bad
        <5> QED BY <2>1, <4>1
      <4> HIDE DEF Ordered
      <4> QED BY <3>2, <4>2
    <3>4. /\ a[r \cap F] \in Int /\ b[r \cap G] \in Int /\ c[r] \in Int
          /\ a[s \cap F] \in Int /\ b[s \cap G] \in Int /\ c[s] \in Int
      BY <1>4, <2>3, <3>2
    <3>5. c[s] = w[x] + c[r] /\ w[x] \in Int
      BY <1>3, <2>3, <2>5, <3>1 DEF Summing
    <3>6. x \in F => a[s \cap F] = f[x] + a[r \cap F] /\ f[x] \in Int
      <4>1. (s \cap F) \ {x} = r \cap F /\ s \cap F \in SUBSET F
        BY <3>1
      <4> HIDE DEF F
      <4>2. x \in F => a[s \cap F] = f[x] + a[r \cap F]
        BY <1>1, <2>5, <4>1 DEF Summing
      <4> QED BY <4>2 DEF F
    <3>7. x \in G => b[s \cap G] = g[x] + b[r \cap G] /\ g[x] \in Int
      <4>1. (s \cap G) \ {x} = r \cap G /\ s \cap G \in SUBSET G
        BY <3>1
      <4> HIDE DEF G
      <4>2. x \in G => b[s \cap G] = g[x] + b[r \cap G]
        BY <1>2, <2>5, <4>1 DEF Summing
      <4> QED BY <4>2 DEF G
    <3>8. (x \notin F => s \cap F = r \cap F) /\ (x \notin G => s \cap G = r \cap G)
      BY <3>1
    <3>9. /\ x \in F /\ x \in G => f[x] - g[x] <= w[x]
          /\ x \in F /\ x \notin G => f[x] <= w[x]
          /\ x \notin F /\ x \in G => 0 - g[x] <= w[x]
          /\ x \notin F /\ x \notin G => 0 <= w[x]
      BY <2>3, <2>5
    <3>10. PICK i, j, i1, j1 : i = a[r \cap F] /\ j = b[r \cap G] /\ i1 = a[s \cap F] /\ j1 = b[s \cap G]
      OBVIOUS
    <3>11. i \in Int /\ j \in Int /\ i1 \in Int /\ j1 \in Int /\ i - j <= c[r] /\ ~(i1 - j1 <= c[s])
      BY <2>3, <3>3, <3>4, <3>10
    <3>12. /\ x \in F => i1 = f[x] + i /\ f[x] \in Int
           /\ x \notin F => i1 = i
           /\ x \in G => j1 = g[x] + j /\ g[x] \in Int
           /\ x \notin G => j1 = j
      <4> HIDE DEF F, G
      <4> QED BY <3>6, <3>7, <3>8, <3>10
    <3> HIDE DEF F, G
    <3> QED BY <3>4, <3>5, <3>9, <3>11, <3>12
  <2> QED BY <2>4, <2>5
<1>6. S \in SUBSET S /\ Cardinality(S) \in Nat /\ S \cap F = F /\ S \cap G = G
  BY FS_CardinalityType
<1>7. Ordered(S)
  <2>1. Cardinality(S) \notin Bad
    <3> HIDE DEF Bad
    <3> QED BY <1>5
  <2> HIDE DEF Ordered
  <2> QED BY <1>6, <2>1
<1>8. a[F] - b[G] <= c[S]
  <2> HIDE DEF F, G
  <2> QED BY <1>6, <1>7
<1>9. a[F] \in Int /\ b[G] \in Int /\ c[S] \in Int
  <2>1. a[S \cap F] \in Int /\ b[S \cap G] \in Int /\ c[S] \in Int
    BY <1>4, <1>6
  <2> HIDE DEF F, G
  <2> QED BY <1>6, <2>1
<1> HIDE DEF F, G
<1> QED BY <1>1, <1>2, <1>3, <1>8, <1>9

LEMMA Distributes ==
  ASSUME NEW m \in Int, NEW x \in Int, NEW y \in Int
  PROVE  m * (x + y) = m * x + m * y /\ m * x \in Int /\ m * y \in Int /\ (x + 1) * m = x * m + m
OBVIOUS

(* Numbers that are each rounded to within half of a share of a whole add  *)
(* up to the whole, to within half for each of them.                       *)
Rounded(v, gain, whole) ==
  (2 * whole) * v <= 20000 * gain + whole /\ (2 * whole) * v >= 20000 * gain - whole
LEMMA SharesAddUp ==
  ASSUME NEW S, IsFiniteSet(S), NEW v, NEW d, NEW p, DOMAIN v = S, DOMAIN d = S, DOMAIN p = S,
         \A x \in S : v[x] \in Int /\ d[x] \in Int /\ p[x] \in Int,
         NEW whole \in Nat, whole > 0, whole = Total(d) - Total(p),
         \A x \in S : Rounded(v[x], d[x] - p[x], whole)
  PROVE  Total(v) \in (10000 - Cardinality(S))..(10000 + Cardinality(S))
<1>1. PICK a : Summing(v, a, S) /\ Total(v) = a[S]
  BY Summed
<1>2. PICK b : Summing(d, b, S) /\ Total(d) = b[S]
  BY Summed
<1>3. PICK c : Summing(p, c, S) /\ Total(p) = c[S]
  BY Summed
<1> DEFINE Near(s) == /\ (2 * whole) * a[s] <= 20000 * (b[s] - c[s]) + Cardinality(s) * whole
                      /\ (2 * whole) * a[s] >= 20000 * (b[s] - c[s]) - Cardinality(s) * whole
           Bad == {k \in Nat : \E s \in SUBSET S : Cardinality(s) = k /\ ~Near(s)}
<1>4. ASSUME NEW s \in SUBSET S
      PROVE  a[s] \in Int /\ b[s] \in Int /\ c[s] \in Int /\ Cardinality(s) \in Nat
  <2>1. Cardinality(s) \in Nat
    BY FS_Subset, FS_CardinalityType
  <2> QED BY <1>1, <1>2, <1>3, <2>1 DEF Summing
<1>5. ASSUME Bad # {} PROVE FALSE
  <2>0. Bad \subseteq Nat
    OBVIOUS
  <2>1. PICK k \in Bad : \A m \in Bad : k <= m
    <3> HIDE DEF Bad
    <3> QED BY <1>5, <2>0, LeastOf
  <2>2. k \in Nat /\ \E s \in SUBSET S : Cardinality(s) = k /\ ~Near(s)
    BY <2>1
  <2>3. PICK s : s \in SUBSET S /\ Cardinality(s) = k /\ ~Near(s)
    BY <2>2
  <2>4. CASE s = {}
    <3>1. a[s] = 0 /\ b[s] = 0 /\ c[s] = 0 /\ Cardinality(s) = 0
      BY <1>1, <1>2, <1>3, <2>4, FS_EmptySet DEF Summing
    <3> QED BY <2>3, <3>1
  <2>5. ASSUME NEW x \in s PROVE FALSE
    <3>0. Near(s) <=> /\ (2 * whole) * a[s] <= 20000 * (b[s] - c[s]) + Cardinality(s) * whole
                      /\ (2 * whole) * a[s] >= 20000 * (b[s] - c[s]) - Cardinality(s) * whole
      OBVIOUS
    <3> HIDE DEF Bad, Near
    <3>1. PICK r : r = s \ {x}
      OBVIOUS
    <3>2. /\ r \in SUBSET S /\ Cardinality(r) \in Nat /\ Cardinality(s) = Cardinality(r) + 1
          /\ Cardinality(r) < k
      <4>1. /\ r \in SUBSET S /\ Cardinality(r) \in Nat /\ Cardinality(s) \in Nat
            /\ Cardinality(r) = Cardinality(s) - 1
        BY <2>3, <2>5, <3>1, Without
      <4> QED BY <2>3, <4>1
    <3>3. Near(r)
      <4>1. ~(k <= Cardinality(r))
        BY <2>2, <3>2
      <4>2. Cardinality(r) \notin Bad
        BY <2>1, <4>1
      <4> QED BY <3>2, <4>2 DEF Bad
    <3>4. a[s] = v[x] + a[r] /\ b[s] = d[x] + b[r] /\ c[s] = p[x] + c[r]
      BY <1>1, <1>2, <1>3, <2>3, <2>5, <3>1 DEF Summing
    <3>5. PICK m \in Int : m = 2 * whole
      OBVIOUS
    <3>6. PICK v0, d0, p0, a0, b0, c0, n0 :
             /\ v0 = v[x] /\ d0 = d[x] /\ p0 = p[x]
             /\ a0 = a[r] /\ b0 = b[r] /\ c0 = c[r] /\ n0 = Cardinality(r)
      OBVIOUS
    <3>7. v0 \in Int /\ d0 \in Int /\ p0 \in Int /\ a0 \in Int /\ b0 \in Int /\ c0 \in Int /\ n0 \in Int
      BY <1>4, <2>3, <2>5, <3>2, <3>6
    <3>8. m * v0 <= 20000 * (d0 - p0) + whole /\ m * v0 >= 20000 * (d0 - p0) - whole
      BY <2>3, <2>5, <3>5, <3>6 DEF Rounded
    <3>9. m * a0 <= 20000 * (b0 - c0) + n0 * whole /\ m * a0 >= 20000 * (b0 - c0) - n0 * whole
      BY <3>3, <3>5, <3>6 DEF Near
    <3>10. m * (v0 + a0) = m * v0 + m * a0 /\ m * v0 \in Int /\ m * a0 \in Int
      BY <3>5, <3>7, Distributes
    <3>11. (n0 + 1) * whole = n0 * whole + whole /\ n0 * whole \in Int
      BY <3>7, Distributes
    <3>12. ~ /\ m * (v0 + a0) <= 20000 * ((d0 + b0) - (p0 + c0)) + (n0 + 1) * whole
             /\ m * (v0 + a0) >= 20000 * ((d0 + b0) - (p0 + c0)) - (n0 + 1) * whole
      BY <2>3, <3>0, <3>2, <3>4, <3>5, <3>6
    <3>13. PICK w1, w2, w3 : w1 = m * v0 /\ w2 = m * a0 /\ w3 = n0 * whole
      OBVIOUS
    <3>14. /\ w1 \in Int /\ w2 \in Int /\ w3 \in Int
           /\ w1 <= 20000 * (d0 - p0) + whole /\ w1 >= 20000 * (d0 - p0) - whole
           /\ w2 <= 20000 * (b0 - c0) + w3 /\ w2 >= 20000 * (b0 - c0) - w3
           /\ ~ /\ w1 + w2 <= 20000 * ((d0 + b0) - (p0 + c0)) + (w3 + whole)
                /\ w1 + w2 >= 20000 * ((d0 + b0) - (p0 + c0)) - (w3 + whole)
      BY <3>8, <3>9, <3>10, <3>11, <3>12, <3>13
    <3> QED BY <3>7, <3>14
  <2> QED BY <2>4, <2>5
<1>6. S \in SUBSET S
  OBVIOUS
<1>7. Near(S)
  <2>1. Cardinality(S) \notin Bad
    <3> HIDE DEF Bad
    <3> QED BY <1>5
  <2> HIDE DEF Near
  <2> QED BY <1>4, <1>6, <2>1
<1>8. PICK n, t : n = Cardinality(S) /\ t = a[S]
  OBVIOUS
<1>9. n \in Nat /\ t \in Int
  BY <1>4, <1>6, <1>8
<1>10. (2 * whole) * t <= 20000 * whole + n * whole /\ (2 * whole) * t >= 20000 * whole - n * whole
  BY <1>2, <1>3, <1>7, <1>8
<1>11. 2 * t <= 20000 + n /\ 2 * t >= 20000 - n
  <2>1. (2 * whole) * t = whole * (2 * t) /\ 20000 * whole + n * whole = whole * (20000 + n)
        /\ 20000 * whole - n * whole = whole * (20000 - n)
    BY <1>9
  <2>2. ASSUME NEW x \in Int, NEW y \in Int, whole * x <= whole * y PROVE x <= y
    <3>1. ASSUME x > y PROVE FALSE
      <4>1. x - y >= 1 /\ x - y \in Int
        BY <3>1
      <4>2. whole * (x - y) >= whole
        BY <4>1
      <4>3. whole * (x - y) = whole * x - whole * y
        BY <2>2
      <4>4. whole * x \in Int /\ whole * y \in Int
        BY <2>2
      <4> QED BY <2>2, <4>2, <4>3, <4>4
    <3> QED BY <2>2, <3>1
  <2>3. whole * (2 * t) <= whole * (20000 + n) /\ whole * (20000 - n) <= whole * (2 * t)
    BY <1>10, <2>1
  <2>4. 2 * t \in Int /\ 20000 + n \in Int /\ 20000 - n \in Int
    BY <1>9
  <2> QED BY <2>2, <2>3, <2>4
<1>12. t \in (10000 - n)..(10000 + n)
  BY <1>9, <1>11
<1> QED BY <1>1, <1>8, <1>12

---------------------------------------------------------------------------
(* Rates.  What a reading remembers of a unit's work is never more than    *)
(* the unit has done, and its counter has not gained more than the work    *)
(* since: a unit that is gone or reset starts again from nothing.          *)
WorkOf(h, p, u) == h.done[u] - p.done[u]
Worked(p, h) ==
  /\ p.done \in [Units -> Nat]
  /\ \A u \in Units :
       /\ WorkOf(h, p, u) \in Nat
       /\ u \in DOMAIN p.ctr => h.ctr[u] - p.ctr[u] <= WorkOf(h, p, u)
       /\ u \notin DOMAIN p.ctr => h.ctr[u] <= WorkOf(h, p, u)
GoneIsZero(h) == \A u \in Units : u \notin h.units => h.ctr[u] = 0

LEMMA HostAfterIs ==
  ASSUME HostOK(host), NEW r \in Readings, NEW u \in Units
  PROVE  /\ r.gain[u] \in Nat /\ host.ctr[u] \in Nat /\ host.done[u] \in Nat
         /\ HostAfter(r).done[u] = host.done[u] + r.gain[u]
         /\ HostAfter(r).units = r.units
         /\ u \notin r.units => HostAfter(r).ctr[u] = 0
         /\ u \in r.units => HostAfter(r).ctr[u] = r.gain[u]
                             \/ HostAfter(r).ctr[u] = host.ctr[u] + r.gain[u]
<1>1. r.gain \in [Units -> Nat]
  BY CollectorAssumption
<1>2. host.ctr[u] \in Nat /\ host.done[u] \in Nat /\ r.gain[u] \in Nat
  BY <1>1 DEF HostOK
<1>3. HostAfter(r).units = r.units
  BY DEF HostAfter
<1>4. HostAfter(r).ctr = [x \in Units |-> IF x \notin r.units THEN 0
                               ELSE IF x \in r.reset THEN r.gain[x]
                               ELSE host.ctr[x] + r.gain[x]]
  BY DEF HostAfter
<1>5. HostAfter(r).done = [x \in Units |-> host.done[x] + r.gain[x]]
  BY DEF HostAfter
<1>6. HostAfter(r).done[u] = host.done[u] + r.gain[u]
  BY <1>5
<1> QED BY <1>2, <1>3, <1>4, <1>6

LEMMA WorkGoesOn ==
  ASSUME HostOK(host), NEW r \in Readings, NEW p, Worked(p, host),
         \A u \in DOMAIN p.ctr : p.ctr[u] \in Nat
  PROVE  Worked(p, HostAfter(r)) /\ GoneIsZero(HostAfter(r))
<1>1. PICK h : h = HostAfter(r)
  OBVIOUS
<1>2. ASSUME NEW u \in Units
      PROVE  /\ WorkOf(h, p, u) \in Nat
             /\ u \in DOMAIN p.ctr => h.ctr[u] - p.ctr[u] <= WorkOf(h, p, u)
             /\ u \notin DOMAIN p.ctr => h.ctr[u] <= WorkOf(h, p, u)
             /\ u \notin h.units => h.ctr[u] = 0
  <2>1. PICK g, c, dn : g = r.gain[u] /\ c = host.ctr[u] /\ dn = host.done[u]
    OBVIOUS
  <2>2. /\ g \in Nat /\ c \in Nat /\ dn \in Nat /\ h.done[u] = dn + g
        /\ u \notin h.units => h.ctr[u] = 0
        /\ h.ctr[u] \in {0, g, c + g}
    BY <1>1, <2>1, HostAfterIs
  <2>3. PICK pd : pd = p.done[u] /\ pd \in Nat
    BY DEF Worked
  <2>4. dn - pd \in Nat
    BY <2>1, <2>3 DEF Worked, WorkOf
  <2>5. WorkOf(h, p, u) = (dn + g) - pd
    BY <2>2, <2>3 DEF WorkOf
  <2>6. u \in DOMAIN p.ctr => c - p.ctr[u] <= dn - pd /\ p.ctr[u] \in Nat
    BY <2>1, <2>3 DEF Worked, WorkOf
  <2>7. u \notin DOMAIN p.ctr => c <= dn - pd
    BY <2>1, <2>3 DEF Worked, WorkOf
  <2>8. WorkOf(h, p, u) \in Nat
    BY <2>2, <2>3, <2>4, <2>5
  <2>9. u \in DOMAIN p.ctr => h.ctr[u] - p.ctr[u] <= WorkOf(h, p, u)
    BY <2>2, <2>3, <2>4, <2>5, <2>6
  <2>10. u \notin DOMAIN p.ctr => h.ctr[u] <= WorkOf(h, p, u)
    BY <2>2, <2>3, <2>4, <2>5, <2>7
  <2> QED BY <2>2, <2>8, <2>9, <2>10
<1>3. p.done \in [Units -> Nat]
  BY DEF Worked
<1> QED BY <1>1, <1>2, <1>3 DEF Worked, GoneIsZero

LEMMA ReadNow ==
  ASSUME NEW h, HostOK(h), GoneIsZero(h), NEW at, NEW p, p = [at |-> at, ctr |-> Reads(h), done |-> h.done]
  PROVE  Worked(p, h)
<1>1. p.done = h.done /\ p.ctr = Reads(h)
  OBVIOUS
<1>2. DOMAIN p.ctr = h.units /\ \A u \in h.units : p.ctr[u] = h.ctr[u]
  BY <1>1 DEF Reads
<1>3. p.done \in [Units -> Nat]
  BY <1>1 DEF HostOK
<1>4. ASSUME NEW u \in Units
      PROVE  h.done[u] \in Nat /\ h.ctr[u] \in Nat /\ WorkOf(h, p, u) = 0
  <2>1. h.done[u] \in Nat /\ h.ctr[u] \in Nat
    BY DEF HostOK
  <2> QED BY <1>1, <2>1 DEF WorkOf
<1> QED BY <1>2, <1>3, <1>4 DEF Worked, GoneIsZero

LEMMA ElapsedIs ==
  ASSUME NEW p, p # None, NEW at \in Nat, ReadingOK(p, at)
  PROVE  at - p.at \in Nat /\ Elapsed(p, at) = at - p.at
<1>1. p.at \in 0..at
  BY DEF ReadingOK
<1> QED BY <1>1 DEF Elapsed

LEMMA ReadsIs ==
  ASSUME NEW h, HostOK(h)
  PROVE  /\ DOMAIN Reads(h) = h.units /\ DOMAIN Reads(h) \subseteq Units
         /\ \A u \in DOMAIN Reads(h) : u \in Units /\ Reads(h)[u] = h.ctr[u] /\ Reads(h)[u] \in Nat
<1>1. DOMAIN Reads(h) = h.units /\ h.units \subseteq Units
  BY DEF HostOK, Reads
<1>2. \A u \in h.units : Reads(h)[u] = h.ctr[u]
  BY DEF Reads
<1>3. \A u \in Units : h.ctr[u] \in Nat
  BY DEF HostOK
<1> QED BY <1>1, <1>2, <1>3

(* What one unit shows per second is no more than it has done.             *)
Fits(p, h, at, u, rate) == 2 * rate * (at - p.at) <= 2 * WorkOf(h, p, u) + (at - p.at)
LEMMA RateFits ==
  ASSUME NEW p, p # None, NEW h, HostOK(h), NEW at \in Nat, ReadingOK(p, at), Worked(p, h),
         NEW u \in DOMAIN Reads(h)
  PROVE  u \in Units /\ Fits(p, h, at, u, Rate(p, Reads(h), at, u))
<1>1. u \in Units /\ u \in h.units /\ Reads(h)[u] = h.ctr[u] /\ h.ctr[u] \in Nat
  BY ReadsIs
<1>2. PICK e : e = at - p.at /\ e \in Nat /\ Elapsed(p, at) = e
  BY ElapsedIs
<1>3. PICK w : w = WorkOf(h, p, u) /\ w \in Nat
  BY <1>1 DEF Worked
<1>4. ASSUME NEW x, x = 0 PROVE 2 * x * e <= 2 * w + e
  BY <1>2, <1>3, <1>4
<1>5. CASE ~Had(p, u)
  <2>1. Rate(p, Reads(h), at, u) = 0
    BY <1>5 DEF Rate
  <2> QED BY <1>1, <1>2, <1>3, <1>4, <2>1 DEF Fits
<1>6. CASE Had(p, u)
  <2>1. PICK c, b : c = h.ctr[u] /\ b = p.ctr[u] /\ c \in Nat /\ b \in Nat /\ c - b <= w
    BY <1>1, <1>3, <1>6 DEF Had, ReadingOK, Worked
  <2>2. PICK x : x = Rate(p, Reads(h), at, u) /\ x = perSecond(c, b, e)
    BY <1>1, <1>2, <1>6, <2>1 DEF Rate
  <2>3. CASE c < b \/ e <= 0
    <3>1. x = 0
      BY <2>2, <2>3 DEF perSecond
    <3> QED BY <1>1, <1>2, <1>3, <1>4, <2>2, <3>1 DEF Fits
  <2>4. CASE ~(c < b \/ e <= 0)
    <3>1. x = (2 * (c - b) + e) \div (2 * e)
      BY <2>2, <2>4 DEF perSecond
    <3>2. PICK n, m : n = 2 * (c - b) + e /\ m = 2 * e
      OBVIOUS
    <3>3. n \in Int /\ m \in Nat /\ m > 0
      BY <1>2, <2>1, <2>4, <3>2
    <3>4. x \in Int /\ m * x <= n
      BY <3>1, <3>2, <3>3, Quotient
    <3>5. 2 * x * e = m * x
      BY <1>2, <3>2, <3>4
    <3>6. n <= 2 * w + e
      BY <1>2, <1>3, <2>1, <3>2
    <3>7. 2 * x * e <= 2 * w + e
      <4>1. PICK y : y = m * x
        OBVIOUS
      <4>2. y \in Int /\ y <= n /\ 2 * x * e = y
        BY <3>3, <3>4, <3>5, <4>1
      <4> QED BY <1>2, <1>3, <3>3, <3>6, <4>2
    <3> QED BY <1>1, <1>2, <1>3, <2>2, <3>7 DEF Fits
  <2> QED BY <2>3, <2>4
<1> QED BY <1>5, <1>6

ShareFits(p, h, at, u, share) ==
  2 * share * (at - p.at) * Cores <= 20000 * WorkOf(h, p, u) + (at - p.at) * Cores
LEMMA ProcessFits ==
  ASSUME NEW p, p # None, NEW h, HostOK(h), NEW at \in Nat, ReadingOK(p, at), Worked(p, h),
         NEW u \in DOMAIN Reads(h), NEW g, Gained(p, Reads(h), u, g), NEW x, ShareOf(p, at, g, x)
  PROVE  u \in Units /\ ShareFits(p, h, at, u, x)
<1>1. u \in Units /\ u \in h.units /\ Reads(h)[u] = h.ctr[u] /\ h.ctr[u] \in Nat
  BY ReadsIs
<1>2. PICK e : e = at - p.at /\ e \in Nat /\ Elapsed(p, at) = e
  BY ElapsedIs
<1>3. PICK w : w = WorkOf(h, p, u) /\ w \in Nat
  BY <1>1 DEF Worked
<1>4. g \in Nat /\ g <= w
  <2>1. CASE g = 0
    BY <1>3, <2>1
  <2>2. CASE g # 0
    <3>1. u \in DOMAIN p.ctr /\ g = h.ctr[u] - p.ctr[u] /\ g \in Nat
      BY <1>1, <2>2 DEF Gained, Had
    <3> QED BY <1>1, <1>3, <3>1 DEF Worked
  <2> QED BY <2>1, <2>2
<1>5. PICK k : k = e * Cores /\ k \in Nat /\ Cores \in Nat
  BY <1>2, CollectorAssumption
<1>6. x \in Nat /\ (2 * k) * x <= 20000 * g + k
  BY <1>2, <1>5 DEF ShareOf
<1>7. 2 * x * e * Cores = (2 * k) * x
  BY <1>2, <1>5, <1>6
<1>8. PICK y : y = (2 * k) * x
  OBVIOUS
<1>9. y \in Int /\ y <= 20000 * g + k
  BY <1>5, <1>6, <1>8
<1>10. y <= 20000 * w + k
  BY <1>3, <1>4, <1>5, <1>9
<1> QED BY <1>1, <1>2, <1>3, <1>5, <1>7, <1>8, <1>10 DEF ShareFits

(* The network rate of the node is no more than all its units have done.   *)
NetFits(p, h, at, rate) ==
  rate[1] * (at - p.at) <= Total([u \in Units |-> WorkOf(h, p, u)]) * rate[2]
LEMMA NetRow ==
  ASSUME NEW d, NEW p, p # None, NEW h, HostOK(h), NEW at \in Nat, ReadingOK(p, at), Worked(p, h)
  PROVE  \E val : /\ sampleNet(d, p, Reads(h), at) = Insert(d, "net_sample", <<Row(Node, NoKey, at, val)>>)
                  /\ NetFits(p, h, at, val.rate)
<1>1. PICK e : e = at - p.at /\ e \in Nat /\ Elapsed(p, at) = e
  BY ElapsedIs
<1>2. PICK w : w = [u \in Units |-> WorkOf(h, p, u)]
  OBVIOUS
<1>3. PICK rd : rd = Reads(h) /\ DOMAIN rd = h.units /\ DOMAIN rd \subseteq Units
                /\ \A u \in DOMAIN rd : rd[u] = h.ctr[u] /\ rd[u] \in Nat
  BY ReadsIs
<1>4. PICK pc : pc = p.ctr /\ DOMAIN pc \subseteq Units /\ \A u \in DOMAIN pc : pc[u] \in Nat
  BY DEF ReadingOK
<1>5. ASSUME NEW u \in Units
      PROVE  /\ w[u] \in Nat
             /\ u \in DOMAIN rd /\ u \in DOMAIN pc => rd[u] - pc[u] <= w[u]
             /\ u \in DOMAIN rd /\ u \notin DOMAIN pc => rd[u] <= w[u]
             /\ u \notin DOMAIN rd /\ u \in DOMAIN pc => 0 - pc[u] <= w[u]
             /\ u \notin DOMAIN rd /\ u \notin DOMAIN pc => 0 <= w[u]
  <2>1. w[u] = WorkOf(h, p, u) /\ w[u] \in Nat
    BY <1>2 DEF Worked
  <2>2. u \in DOMAIN pc => h.ctr[u] - pc[u] <= w[u]
    BY <1>4, <2>1 DEF Worked
  <2>3. u \notin DOMAIN pc => h.ctr[u] <= w[u]
    BY <1>4, <2>1 DEF Worked
  <2>4. u \in DOMAIN rd => rd[u] = h.ctr[u]
    BY <1>3
  <2>5. u \in DOMAIN pc => pc[u] \in Nat
    BY <1>4
  <2> QED BY <2>1, <2>2, <2>3, <2>4, <2>5
<1>6. /\ Total(rd) \in Int /\ Total(pc) \in Int /\ Total(w) \in Int
      /\ Total(rd) - Total(pc) <= Total(w)
  <2>1. DOMAIN w = Units /\ IsFiniteSet(Units)
    BY <1>2, CollectorAssumption
  <2>2. /\ \A u \in DOMAIN rd : rd[u] \in Int
        /\ \A u \in DOMAIN pc : pc[u] \in Int
        /\ \A u \in Units : w[u] \in Int
    BY <1>3, <1>4, <1>5
  <2> HIDE <1>2
  <2> QED BY <1>3, <1>4, <1>5, <2>1, <2>2, SumsCompare
<1>7. PICK none : none = [u \in {} |-> 0]
  OBVIOUS
<1>8. Total(w) >= 0
  <2>1. DOMAIN w = Units /\ IsFiniteSet(Units) /\ DOMAIN none = {}
    BY <1>2, <1>7, CollectorAssumption
  <2>2. Total(none) - Total(none) <= Total(w) /\ Total(none) \in Int
    <3> HIDE <1>2, <1>7
    <3>1. \A u \in Units : w[u] \in Int /\ 0 <= w[u]
      BY <1>5
    <3> QED BY <2>1, <3>1, SumsCompare
  <2> QED BY <1>6, <2>2
<1>9. PICK gain, t : gain = Total(rd) - Total(pc) /\ t = Total(w)
  OBVIOUS
<1>10. gain \in Int /\ t \in Int /\ gain <= t /\ t >= 0
  BY <1>6, <1>8, <1>9
<1> DEFINE rate == IF e > 0 /\ gain >= 0 THEN <<gain, e>> ELSE <<0, 1>>
           val  == [bytes |-> Total(rd), rate |-> rate]
<1>11. sampleNet(d, p, Reads(h), at) = Insert(d, "net_sample", <<Row(Node, NoKey, at, val)>>)
  BY <1>1, <1>3, <1>4, <1>9 DEF sampleNet, InsertNetSample
<1>12. rate[1] * e <= t * rate[2]
  <2>1. CASE e > 0 /\ gain >= 0
    <3>1. rate[1] = gain /\ rate[2] = e
      BY <2>1
    <3>2. gain * e <= t * e
      <4>1. PICK x : x = t - gain /\ x \in Nat
        BY <1>10
      <4>2. x * e \in Nat /\ x * e = t * e - gain * e
        BY <1>1, <1>10, <4>1
      <4>3. t * e \in Int /\ gain * e \in Int
        BY <1>1, <1>10
      <4> QED BY <4>2, <4>3
    <3> HIDE DEF rate
    <3> QED BY <3>1, <3>2
  <2>2. CASE ~(e > 0 /\ gain >= 0)
    <3>1. rate[1] = 0 /\ rate[2] = 1
      BY <2>2
    <3> HIDE DEF rate
    <3> QED BY <1>1, <1>10, <3>1
  <2> QED BY <2>1, <2>2
<1>13. val.rate = rate
  OBVIOUS
<1> HIDE DEF val, rate
<1> QED BY <1>1, <1>2, <1>9, <1>11, <1>12, <1>13 DEF NetFits

(* The breakdown of CPU time adds up, and no core is busy for longer than  *)
(* there was time.                                                         *)
AddsUp(val) == Total(val) \in (10000 - Cardinality(Units))..(10000 + Cardinality(Units))
Broken(d, p, h, at, val) ==
  /\ sampleCPUState(d, p, h.done, at) = Insert(d, "cpu_state_sample", <<Row(Node, NoKey, at, val)>>)
  /\ AddsUp(val)
LEMMA CPURow ==
  ASSUME NEW d, NEW p, NEW h, HostOK(h), NEW at, p = None \/ Worked(p, h)
  PROVE  sampleCPUState(d, p, h.done, at) = d \/ \E val : Broken(d, p, h, at, val)
<1> DEFINE whole == Total(h.done) - Total(p.done)
           share(u) == IF h.done[u] > p.done[u] THEN round2(h.done[u] - p.done[u], whole) ELSE 0
           val == [u \in Units |-> share(u)]
<1>1. CASE p = None \/ whole <= 0
  BY <1>1 DEF sampleCPUState
<1>2. CASE ~(p = None \/ whole <= 0)
  <2>1. sampleCPUState(d, p, h.done, at) = Insert(d, "cpu_state_sample", <<Row(Node, NoKey, at, val)>>)
    BY <1>2 DEF sampleCPUState, InsertCPUState
  <2>2. PICK a, b : a = h.done /\ b = p.done
    OBVIOUS
  <2>3. a \in [Units -> Nat] /\ b \in [Units -> Nat] /\ IsFiniteSet(Units)
        /\ \A u \in Units : a[u] \in Nat /\ b[u] \in Nat /\ a[u] - b[u] \in Nat
    <3>1. a \in [Units -> Nat] /\ b \in [Units -> Nat] /\ IsFiniteSet(Units)
      BY <1>2, <2>2, CollectorAssumption DEF HostOK, Worked
    <3>2. \A u \in Units : a[u] - b[u] \in Nat
      BY <1>2, <2>2 DEF Worked, WorkOf
    <3> QED BY <3>1, <3>2
  <2>4. PICK w : w = Total(a) - Total(b)
    OBVIOUS
  <2>5. w = whole /\ w \in Nat /\ w > 0
    <3>1. DOMAIN a = Units /\ DOMAIN b = Units /\ \A u \in Units : a[u] \in Int /\ b[u] \in Int
      BY <2>3
    <3>2. \A u \in Units : 0 - b[u] <= a[u]
      BY <2>3
    <3>3. Total(a) \in Int
      <4>1. PICK sum : Summing(a, sum, DOMAIN a) /\ Total(a) = sum[DOMAIN a]
        BY <2>3, <3>1, Summed
      <4> QED BY <4>1 DEF Summing
    <3>4. Total(b) \in Int
      <4>1. PICK sum : Summing(b, sum, DOMAIN b) /\ Total(b) = sum[DOMAIN b]
        BY <2>3, <3>1, Summed
      <4> QED BY <4>1 DEF Summing
    <3>5. w = whole /\ w \in Int /\ ~(whole <= 0)
      BY <1>2, <2>2, <2>4, <3>3, <3>4
    <3> QED BY <3>5
  <2>6. ASSUME NEW u \in Units
        PROVE  share(u) \in Int /\ Rounded(share(u), a[u] - b[u], w)
    <3>1. PICK x, y : x = a[u] /\ y = b[u] /\ x \in Nat /\ y \in Nat /\ x - y \in Nat
      BY <2>3
    <3>2. CASE x > y
      <4>1. share(u) = round2(x - y, w)
        BY <2>2, <2>5, <3>1, <3>2
      <4> HIDE DEF share
      <4> QED BY <2>5, <3>1, <4>1, Round2 DEF Rounded
    <3>3. CASE ~(x > y)
      <4>1. share(u) = 0 /\ x - y = 0
        BY <2>2, <3>1, <3>3
      <4> HIDE DEF share
      <4> QED BY <2>5, <3>1, <4>1 DEF Rounded
    <3> QED BY <3>2, <3>3
  <2> HIDE DEF share
  <2>7. DOMAIN val = Units /\ \A u \in Units : val[u] \in Int /\ Rounded(val[u], a[u] - b[u], w)
    BY <2>6
  <2>8. AddsUp(val)
    <3> HIDE DEF val
    <3>1. /\ DOMAIN a = Units /\ DOMAIN b = Units
          /\ \A u \in Units : val[u] \in Int /\ a[u] \in Int /\ b[u] \in Int
      BY <2>3, <2>7
    <3>2. \A u \in Units : Rounded(val[u], a[u] - b[u], w)
      BY <2>7
    <3> QED BY <2>3, <2>4, <2>5, <2>7, <3>1, <3>2, SharesAddUp DEF AddsUp
  <2> HIDE DEF val
  <2> QED BY <2>1, <2>8 DEF Broken
<1> QED BY <1>1, <1>2

Capped(d, p, h, at, rows) ==
  /\ sampleCPUCores(d, p, Reads(h), h.done, at) = Replace(d, "cpu_core", Node, rows)
  /\ \A r \in rows : r.val <= 10000
CoresLeft(d, p, h, at) ==
  sampleCPUCores(d, p, Reads(h), h.done, at) = d \/ \E rows : Capped(d, p, h, at, rows)
LEMMA CoreRows ==
  ASSUME NEW d, NEW p, NEW h, HostOK(h), NEW at \in Nat, ReadingOK(p, at), p = None \/ Worked(p, h)
  PROVE  CoresLeft(d, p, h, at)
<1> DEFINE total == Elapsed(p, at) * Cores
           pct(u) == round2(h.done[u] - p.done[u], total)
           rows == {Row(Node, u, at, IF pct(u) > 10000 THEN 10000 ELSE pct(u)) : u \in DOMAIN Reads(h)}
<1>1. CASE p = None \/ Elapsed(p, at) <= 0
  BY <1>1 DEF sampleCPUCores, CoresLeft
<1>2. CASE ~(p = None \/ Elapsed(p, at) <= 0)
  <2>1. sampleCPUCores(d, p, Reads(h), h.done, at) \in {d, Replace(d, "cpu_core", Node, rows)}
    BY DEF sampleCPUCores, ReplacePerCore
  <2>2. total \in Nat /\ total > 0
    <3>1. PICK e : e = Elapsed(p, at) /\ e \in Nat /\ e > 0
      BY <1>2 DEF Elapsed, ReadingOK
    <3>2. Cores \in Nat /\ Cores > 0
      BY CollectorAssumption
    <3>3. e * Cores \in Nat /\ e * Cores > 0
      BY <3>1, <3>2
    <3> QED BY <3>1, <3>3
  <2>3. ASSUME NEW u \in DOMAIN Reads(h) PROVE pct(u) \in Nat
    <3>1. u \in Units
      BY DEF HostOK, Reads
    <3>2. h.done[u] - p.done[u] \in Nat
      BY <1>2, <3>1 DEF Worked, WorkOf
    <3> HIDE DEF total
    <3> QED BY <2>2, <3>2, Round2
  <2> HIDE DEF pct
  <2>4. ASSUME NEW r \in rows PROVE r.val <= 10000
    <3>1. PICK u \in DOMAIN Reads(h) : r = Row(Node, u, at, IF pct(u) > 10000 THEN 10000 ELSE pct(u))
      BY <2>4
    <3>2. r.val = IF pct(u) > 10000 THEN 10000 ELSE pct(u)
      BY <3>1 DEF Row
    <3> QED BY <2>3, <3>2
  <2> HIDE DEF rows
  <2> QED BY <2>1, <2>4 DEF Capped, CoresLeft
<1> QED BY <1>1, <1>2

---------------------------------------------------------------------------
(* Every sampler has tables of its own.                                    *)
Written == [metrics |-> {"metric_sample"}, disk |-> {"disk_status", "disk_usage_sample"},
            net |-> {"net_sample"}, iface |-> {"net_interface"}, cpu |-> {"cpu_state_sample"},
            cores |-> {"cpu_core"}, diskio |-> {"disk_io_sample"}, proc |-> {"process_top"},
            raid |-> {"raid_array"}, smart |-> {"smart_disk"}]
WritesIn(d, e, T) == DOMAIN e = Tables /\ \A t \in Tables : t \notin T => e[t] = d[t]

LEMMA DisksWrite ==
  ASSUME NEW d, DOMAIN d = Tables, NEW rd, NEW at
  PROVE  WritesIn(d, sampleDisks(d, rd, at), {"disk_status", "disk_usage_sample"})
<1>1. PICK rows : rows = {Row(Node, u, at, rd[u]) : u \in DOMAIN rd}
  OBVIOUS
<1>2. PICK e1 : e1 = Upsert(d, "disk_status", rows)
  OBVIOUS
<1>3. PICK e2 : e2 = Insert(e1, "disk_usage_sample", SetToSeq(rows))
  OBVIOUS
<1>4. PICK e3 : e3 = DeleteDiskStatusesExcept(e2, Node, DOMAIN rd)
  OBVIOUS
<1>5. sampleDisks(d, rd, at) = e3
  BY <1>1, <1>2, <1>3, <1>4 DEF sampleDisks, UpsertDiskStatus, InsertDiskUsageSample
<1>6. "disk_status" \in SnapshotTables /\ "disk_usage_sample" \in SeriesTables
  BY DEF SnapshotTables, SeriesTables
<1>7. Writes(d, e1, "disk_status")
  BY <1>2, <1>6, UpsertOp
<1>8. Writes(e1, e2, "disk_usage_sample")
  BY <1>3, <1>6, <1>7, InsertOp DEF Writes
<1>9. Writes(e2, e3, "disk_status")
  BY <1>4, <1>8, ExceptOp DEF Writes
<1> QED BY <1>5, <1>7, <1>8, <1>9 DEF Writes, WritesIn

LEMMA InsertWrites ==
  ASSUME NEW d, DOMAIN d = Tables, NEW t \in SeriesTables, NEW rows
  PROVE  WritesIn(d, Insert(d, t, rows), {t})
BY InsertOp DEF Writes, WritesIn

LEMMA ReplaceWrites ==
  ASSUME NEW d, DOMAIN d = Tables, NEW t \in SnapshotTables, NEW rows
  PROVE  WritesIn(d, Replace(d, t, Node, rows), {t})
BY ReplaceOp DEF Writes, WritesIn

LEMMA NothingWritten ==
  ASSUME NEW d, DOMAIN d = Tables, NEW T
  PROVE  WritesIn(d, d, T)
BY DEF WritesIn

LEMMA SamplerWrites ==
  ASSUME NEW d, DOMAIN d = Tables, NEW h, NEW at, NEW failing,
         NEW name \in {"metrics", "disk", "net", "iface", "cpu", "cores", "diskio", "proc",
                       "raid", "smart"}
  PROVE  WritesIn(d, sampled(name, failing, d, h, at), Written[name])
<1>1. CASE name = failing
  <2>1. sampled(name, failing, d, h, at) = d
    BY <1>1 DEF sampled
  <2> QED BY <2>1, NothingWritten
<1>0. /\ "metric_sample" \in SeriesTables /\ "net_sample" \in SeriesTables
      /\ "cpu_state_sample" \in SeriesTables /\ "disk_io_sample" \in SeriesTables
      /\ "net_interface" \in SnapshotTables /\ "cpu_core" \in SnapshotTables
      /\ "process_top" \in SnapshotTables /\ "raid_array" \in SnapshotTables
      /\ "smart_disk" \in SnapshotTables
  BY DEF SeriesTables, SnapshotTables
<1>2. CASE name = "metrics" /\ name # failing
  <2>1. WritesIn(d, InsertMetric(d, Row(Node, NoKey, at, Total(Reads(h)))), {"metric_sample"})
    BY <1>0, InsertWrites DEF InsertMetric
  <2>2. Written["metrics"] = {"metric_sample"}
    BY DEF Written
  <2> QED BY <1>2, <2>1, <2>2, SamplerIs
<1>3. CASE name = "disk" /\ name # failing
  <2>1. Written["disk"] = {"disk_status", "disk_usage_sample"}
    BY DEF Written
  <2> QED BY <1>3, <2>1, DisksWrite, SamplerIs
<1>4. CASE name = "net" /\ name # failing
  <2>1. WritesIn(d, sampleNet(d, prev["net"], Reads(h), at), {"net_sample"})
    BY <1>0, InsertWrites DEF sampleNet, InsertNetSample
  <2>2. Written["net"] = {"net_sample"}
    BY DEF Written
  <2> QED BY <1>4, <2>1, <2>2, SamplerIs
<1>5. CASE name = "iface" /\ name # failing
  <2>1. WritesIn(d, sampleNetIface(d, prev["iface"], Reads(h), at), {"net_interface"})
    <3>1. PICK v : sampleNetIface(d, prev["iface"], Reads(h), at)
                     = Replace(d, "net_interface", Node, UnitSet(DOMAIN Reads(h), at, v))
      BY IfaceRows
    <3> QED BY <1>0, <3>1, ReplaceWrites
  <2>2. Written["iface"] = {"net_interface"}
    BY DEF Written
  <2> QED BY <1>5, <2>1, <2>2, SamplerIs
<1>6. CASE name = "cpu" /\ name # failing
  <2>1. WritesIn(d, sampleCPUState(d, prev["cpu"], h.done, at), {"cpu_state_sample"})
    <3>1. \/ sampleCPUState(d, prev["cpu"], h.done, at) = d
          \/ \E row : sampleCPUState(d, prev["cpu"], h.done, at) = Insert(d, "cpu_state_sample", <<row>>)
      BY DEF sampleCPUState, InsertCPUState
    <3> QED BY <1>0, <3>1, InsertWrites, NothingWritten
  <2>2. Written["cpu"] = {"cpu_state_sample"}
    BY DEF Written
  <2> QED BY <1>6, <2>1, <2>2, SamplerIs
<1>7. CASE name = "cores" /\ name # failing
  <2>1. WritesIn(d, sampleCPUCores(d, prev["cores"], Reads(h), h.done, at), {"cpu_core"})
    <3>1. \/ sampleCPUCores(d, prev["cores"], Reads(h), h.done, at) = d
          \/ \E rows : sampleCPUCores(d, prev["cores"], Reads(h), h.done, at)
                         = Replace(d, "cpu_core", Node, rows)
      <4> DEFINE p == prev["cores"]
                 primes == \/ p = None \/ Elapsed(p, at) <= 0
                           \/ Cardinality(DOMAIN p.ctr) # Cardinality(DOMAIN Reads(h))
                 total == Elapsed(p, at) * Cores
                 pct(u) == round2(h.done[u] - p.done[u], total)
                 rows == {Row(Node, u, at, IF pct(u) > 10000 THEN 10000 ELSE pct(u)) : u \in DOMAIN Reads(h)}
      <4>1. primes => sampleCPUCores(d, p, Reads(h), h.done, at) = d
        BY DEF sampleCPUCores
      <4>2. ~primes => sampleCPUCores(d, p, Reads(h), h.done, at) = ReplacePerCore(d, Node, rows)
        BY DEF sampleCPUCores
      <4> HIDE DEF p, primes, rows
      <4>3. \/ sampleCPUCores(d, p, Reads(h), h.done, at) = d
            \/ \E v : sampleCPUCores(d, p, Reads(h), h.done, at) = ReplacePerCore(d, Node, v)
        BY <4>1, <4>2
      <4> QED BY <4>3 DEF ReplacePerCore, p
    <3> QED BY <1>0, <3>1, ReplaceWrites, NothingWritten
  <2>2. Written["cores"] = {"cpu_core"}
    BY DEF Written
  <2> QED BY <1>7, <2>1, <2>2, SamplerIs
<1>8. CASE name = "diskio" /\ name # failing
  <2>1. WritesIn(d, sampleDiskIO(d, prev["diskio"], Reads(h), at), {"disk_io_sample"})
    <3>1. PICK v : sampleDiskIO(d, prev["diskio"], Reads(h), at)
                     = Insert(d, "disk_io_sample", SetToSeq(UnitSet(DOMAIN Reads(h), at, v)))
      BY DiskIORows
    <3> QED BY <1>0, <3>1, InsertWrites
  <2>2. Written["diskio"] = {"disk_io_sample"}
    BY DEF Written
  <2> QED BY <1>8, <2>1, <2>2, SamplerIs
<1>9. CASE name = "proc" /\ name # failing
  <2>1. WritesIn(d, sampleProcesses(d, prev["proc"], Reads(h), at), {"process_top"})
    <3>1. \E rows : sampleProcesses(d, prev["proc"], Reads(h), at) = Replace(d, "process_top", Node, rows)
      BY DEF sampleProcesses, ReplaceProcessTop
    <3> QED BY <1>0, <3>1, ReplaceWrites
  <2>2. Written["proc"] = {"process_top"}
    BY DEF Written
  <2> QED BY <1>9, <2>1, <2>2, SamplerIs
<1>10. CASE name = "raid" /\ name # failing
  <2>1. WritesIn(d, sampleRaid(d, Reads(h), at), {"raid_array"})
    BY <1>0, ReplaceWrites DEF sampleRaid, ReplaceRaidArrays
  <2>2. Written["raid"] = {"raid_array"}
    BY DEF Written
  <2> QED BY <1>10, <2>1, <2>2, SamplerIs
<1>11. CASE name = "smart" /\ name # failing
  <2>1. WritesIn(d, sampleSmart(d, Reads(h), h.report, at), {"smart_disk"})
    BY <1>0, ReplaceWrites DEF sampleSmart, ReplaceSmartDisks
  <2>2. Written["smart"] = {"smart_disk"}
    BY DEF Written
  <2> QED BY <1>11, <2>1, <2>2, SamplerIs
<1> QED BY <1>1, <1>2, <1>3, <1>4, <1>5, <1>6, <1>7, <1>8, <1>9, <1>10, <1>11

(* What a cycle leaves of a table is what its sampler left of it.          *)
LEMMA TableOfCycle ==
  ASSUME NEW d, NEW h, NEW at, NEW nodes, NEW keys, Sampling(d, h, at, nodes, keys),
         \A s \in Samplers : ReadingOK(prev[s], at), NEW failing, failing # "metrics",
         NEW t \in Tables, NEW n \in 1..10,
         \A i \in 1..10 : i # n => t \notin Written[Order[i]]
  PROVE  \E e : /\ SamplesInto(d, e, at, nodes, keys) /\ e[t] = d[t]
                /\ sampleOnce(d, h, at, failing)[t] = sampled(Order[n], failing, e, h, at)[t]
<1>1. PICK f : /\ f[0] = d
               /\ \A i \in 1..10 : f[i] = sampled(Order[i], failing, f[i - 1], h, at)
               /\ \A i \in 0..10 : SamplesInto(d, f[i], at, nodes, keys)
               /\ sampleOnce(d, h, at, failing) = IF failing = "metrics" THEN d ELSE f[10]
  BY CycleRuns
<1> DEFINE Same(i) == f[i][t] = IF i < n THEN d[t] ELSE f[n][t]
           Bad == {i \in 0..10 : ~Same(i)}
<1>2. ASSUME Bad # {} PROVE FALSE
  <2>0. Bad \subseteq Nat
    OBVIOUS
  <2>1. PICK k \in Bad : \A m \in Bad : k <= m
    <3> HIDE DEF Bad
    <3> QED BY <1>2, <2>0, LeastOf
  <2>2. k \in 0..10 /\ ~Same(k)
    BY <2>1
  <2>3. k # 0 /\ k # n
    <3>1. 0 < n
      OBVIOUS
    <3> QED BY <1>1, <2>2, <3>1
  <2>4. k \in 1..10 /\ k - 1 \in 0..10 /\ ~(k <= k - 1) /\ (k - 1 < n <=> k < n)
    BY <2>2, <2>3
  <2>5. Same(k - 1)
    <3>1. k - 1 \notin Bad
      <4> HIDE DEF Bad
      <4> QED BY <2>1, <2>4
    <3> HIDE DEF Same
    <3> QED BY <2>4, <3>1
  <2>6. PICK e : e = f[k - 1] /\ DOMAIN e = Tables
    BY <1>1, <2>4 DEF SamplesInto, Fine
  <2>7. WritesIn(e, sampled(Order[k], failing, e, h, at), Written[Order[k]])
    BY <2>4, <2>6, OrderOfSamplers, SamplerWrites
  <2>8. t \notin Written[Order[k]]
    BY <2>3, <2>4
  <2>9. f[k] = sampled(Order[k], failing, e, h, at)
    BY <1>1, <2>4, <2>6
  <2>10. f[k][t] = f[k - 1][t]
    BY <2>6, <2>7, <2>8, <2>9 DEF WritesIn
  <2> QED BY <2>2, <2>4, <2>5, <2>10
<1>3. \A i \in 0..10 : Same(i)
  BY <1>2
<1>4. n - 1 \in 0..10 /\ n - 1 < n /\ 10 \in 0..10 /\ ~(10 < n)
  OBVIOUS
<1>5. f[n - 1][t] = d[t] /\ f[10][t] = f[n][t]
  BY <1>3, <1>4
<1>6. SamplesInto(d, f[n - 1], at, nodes, keys)
  BY <1>1, <1>4
<1>7. f[n] = sampled(Order[n], failing, f[n - 1], h, at)
  BY <1>1
<1>8. sampleOnce(d, h, at, failing) = f[10]
  BY <1>1
<1> QED BY <1>5, <1>6, <1>7, <1>8

---------------------------------------------------------------------------
(* After the cycle.                                                        *)
LEMMA NetPruned ==
  ASSUME NEW d, NEW at \in Nat, NEW nodes, NEW keys, Fine(d, at, nodes, keys)
  PROVE  \/ prune(d, at)["net_sample"] = d["net_sample"]
         \/ \E rows : /\ prune(d, at)["net_sample"] = Keep(d["net_sample"], rows)
                      /\ \A r \in ToSet(d["net_sample"]) : r.at = at => r \in rows
<1>0. Retention \in Nat
  BY CollectorAssumption
<1>1. CASE Retention <= 0
  BY <1>1 DEF prune
<1>2. CASE ~(Retention <= 0)
  <2>1. PICK before \in Int : before = at - Retention
    BY <1>0
  <2>2. PICK e1 : e1 = PruneTable(d, "metric_sample", before)
    OBVIOUS
  <2>3. PICK e2 : e2 = PruneTable(e1, "net_sample", before)
    OBVIOUS
  <2>4. PICK e3 : e3 = PruneTable(e2, "cpu_state_sample", before)
    OBVIOUS
  <2>5. PICK e4 : e4 = PruneTable(e3, "disk_io_sample", before)
    OBVIOUS
  <2>6. PICK e5 : e5 = PruneTable(e4, "disk_usage_sample", before)
    OBVIOUS
  <2>7. prune(d, at) = e5
    BY <1>2, <2>1, <2>2, <2>3, <2>4, <2>5, <2>6
       DEF prune, Prune, PruneNet, PruneCPUState, PruneDiskIO, PruneDiskUsage
  <2>8. /\ "metric_sample" \in SeriesTables /\ "net_sample" \in SeriesTables
        /\ "cpu_state_sample" \in SeriesTables /\ "disk_io_sample" \in SeriesTables
        /\ "disk_usage_sample" \in SeriesTables /\ "net_sample" \in Tables
    BY TableKinds DEF SeriesTables
  <2>9. Writes(d, e1, "metric_sample")
    BY <2>2, <2>8, PruneOp DEF Fine
  <2>20. DOMAIN e1 = Tables
    BY <2>9 DEF Writes
  <2>10. Writes(e1, e2, "net_sample")
    BY <2>3, <2>8, <2>20, PruneOp
  <2>21. e2["net_sample"] = Keep(e1["net_sample"], {r \in ToSet(e1["net_sample"]) : r.at >= before})
    BY <2>3, <2>8, <2>20 DEF PruneTable
  <2>22. DOMAIN e2 = Tables
    BY <2>10 DEF Writes
  <2>11. Writes(e2, e3, "cpu_state_sample")
    BY <2>4, <2>8, <2>22, PruneOp
  <2>23. DOMAIN e3 = Tables
    BY <2>11 DEF Writes
  <2>12. Writes(e3, e4, "disk_io_sample")
    BY <2>5, <2>8, <2>23, PruneOp
  <2>24. DOMAIN e4 = Tables
    BY <2>12 DEF Writes
  <2>13. Writes(e4, e5, "disk_usage_sample")
    BY <2>6, <2>8, <2>24, PruneOp
  <2>14. PICK s : s = d["net_sample"]
    OBVIOUS
  <2>15. e1["net_sample"] = s
    BY <2>8, <2>9, <2>14 DEF Writes
  <2>16. e5["net_sample"] = Keep(s, {r \in ToSet(s) : r.at >= before})
    BY <2>8, <2>11, <2>12, <2>13, <2>15, <2>21 DEF Writes
  <2>17. PICK rows : rows = {r \in ToSet(s) : r.at >= before}
    OBVIOUS
  <2>18. \A r \in ToSet(s) : r.at = at => r \in rows
    BY <1>0, <2>1, <2>17
  <2> QED BY <2>7, <2>14, <2>16, <2>17, <2>18
<1> QED BY <1>1, <1>2

(* A row appended by a cycle is the newest one after the pruning.          *)
LEMMA NewestAfterCycle ==
  ASSUME NEW d, NEW e, NEW at \in Nat, NEW nodes, NEW keys, NEW r,
         Fine(d, at, nodes, keys), Fine(e, at, nodes, keys),
         e["net_sample"] = d["net_sample"] \o <<r>>, r.node = Node, r.at = at
  PROVE  LatestNetSample(prune(e, at), Node) = <<r>>
<1>0. "net_sample" \in SeriesTables /\ "net_sample" \in Tables
  BY TableKinds DEF SeriesTables
<1>1. PICK s : s = d["net_sample"] /\ IsSeq(s)
  BY <1>0 DEF Fine
<1>2. \A x \in ToSet(s) : x.at \in 0..at
  BY <1>0, <1>1, RowsOfKind DEF Fine, RowFine
<1>3. PICK g : g = prune(e, at)
  OBVIOUS
<1>4. PICK f : f = e["net_sample"] /\ f = s \o <<r>>
  BY <1>1
<1>5. /\ IsSeq(f) /\ ToSet(f) = ToSet(s) \cup {r} /\ Len(f) = Len(s) + 1
      /\ \A i \in 1..(Len(s) + 1) : f[i] = IF i <= Len(s) THEN s[i] ELSE <<r>>[i - Len(s)]
  BY <1>1, <1>4, Joined, Single
<1>6. Len(s) \in Nat
  BY <1>1, SeqElements DEF IsSeq
<1>7. Len(f) > 0 /\ f[Len(f)] = r
  <2>1. /\ Len(s) + 1 \in 1..(Len(s) + 1) /\ ~(Len(s) + 1 <= Len(s)) /\ (Len(s) + 1) - Len(s) = 1
        /\ Len(s) + 1 > 0
    BY <1>6
  <2> QED BY <1>5, <2>1
<1>8. \E k : IsSeq(k) /\ ToSet(k) \subseteq ToSet(f) /\ g["net_sample"] = k \o <<r>>
  <2>1. CASE g["net_sample"] = f
    BY <1>1, <1>4, <1>5, <2>1
  <2>2. ASSUME NEW rows, g["net_sample"] = Keep(f, rows), \A x \in ToSet(f) : x.at = at => x \in rows
        PROVE  \E k : IsSeq(k) /\ ToSet(k) \subseteq ToSet(f) /\ g["net_sample"] = k \o <<r>>
    <3>1. f[Len(f)] \in rows
      BY <1>5, <1>7, <2>2
    <3>2. PICK k : IsSeq(k) /\ ToSet(k) \subseteq ToSet(f) /\ Keep(f, rows) = k \o <<f[Len(f)]>>
      BY <1>5, <1>7, <3>1, KeepLast
    <3> QED BY <1>7, <2>2, <3>2
  <2> QED BY <1>3, <1>4, <2>1, <2>2, NetPruned
<1>9. PICK k : IsSeq(k) /\ ToSet(k) \subseteq ToSet(f) /\ g["net_sample"] = k \o <<r>>
  BY <1>8
<1>10. PICK d0 : d0 = [d EXCEPT !["net_sample"] = k]
  OBVIOUS
<1>11. d0["net_sample"] = k
  BY <1>0, <1>10 DEF Fine
<1>12. \A x \in ToSet(k) : x.at \in 0..at /\ x.at <= r.at
  BY <1>2, <1>5, <1>9
<1>13. r.at \in 0..at /\ at \in Nat
  OBVIOUS
<1>14. Newest(g, "net_sample", Node) = <<r>>
  BY <1>9, <1>11, <1>12, <1>13, NewestAppended
<1> QED BY <1>3, <1>14 DEF LatestNetSample

LEMMA OrderIs ==
  /\ Order[1] = "metrics"
  /\ Order[2] = "disk"
  /\ Order[3] = "net"
  /\ Order[4] = "iface"
  /\ Order[5] = "cpu"
  /\ Order[6] = "cores"
  /\ Order[7] = "diskio"
  /\ Order[8] = "proc"
  /\ Order[9] = "raid"
  /\ Order[10] = "smart"
BY DEF Order

LEMMA WrittenIs ==
  /\ Written["metrics"] = {"metric_sample"}
  /\ Written["disk"] = {"disk_status", "disk_usage_sample"}
  /\ Written["net"] = {"net_sample"}
  /\ Written["iface"] = {"net_interface"}
  /\ Written["cpu"] = {"cpu_state_sample"}
  /\ Written["cores"] = {"cpu_core"}
  /\ Written["diskio"] = {"disk_io_sample"}
  /\ Written["proc"] = {"process_top"}
  /\ Written["raid"] = {"raid_array"}
  /\ Written["smart"] = {"smart_disk"}
BY DEF Written

Alone(t, n) == \A i \in 1..10 : i # n => t \notin Written[Order[i]]
LEMMA WrittenOnce ==
  /\ Alone("net_sample", 3) /\ "net_sample" \in Tables
  /\ Alone("net_interface", 4) /\ "net_interface" \in Tables
  /\ Alone("cpu_state_sample", 5) /\ "cpu_state_sample" \in Tables
  /\ Alone("cpu_core", 6) /\ "cpu_core" \in Tables
  /\ Alone("disk_io_sample", 7) /\ "disk_io_sample" \in Tables
  /\ Alone("process_top", 8) /\ "process_top" \in Tables
<1>1. \A i \in 1..10 : i \in {1, 2, 3, 4, 5, 6, 7, 8, 9, 10}
  OBVIOUS
<1>2. Alone("net_sample", 3)
  BY <1>1, OrderIs, WrittenIs DEF Alone
<1>3. Alone("net_interface", 4)
  BY <1>1, OrderIs, WrittenIs DEF Alone
<1>4. Alone("cpu_state_sample", 5)
  BY <1>1, OrderIs, WrittenIs DEF Alone
<1>5. Alone("cpu_core", 6)
  BY <1>1, OrderIs, WrittenIs DEF Alone
<1>6. Alone("disk_io_sample", 7)
  BY <1>1, OrderIs, WrittenIs DEF Alone
<1>7. Alone("process_top", 8)
  BY <1>1, OrderIs, WrittenIs DEF Alone
<1>8. /\ "net_sample" \in Tables /\ "net_interface" \in Tables /\ "cpu_state_sample" \in Tables
      /\ "cpu_core" \in Tables /\ "disk_io_sample" \in Tables /\ "process_top" \in Tables
  BY DEF Tables, SeriesTables, SnapshotTables
<1> QED BY <1>2, <1>3, <1>4, <1>5, <1>6, <1>7, <1>8

Keys == Units \cup {NoKey}
(* A cycle at a time with a host's readings, over one of a node's databases. *)
Cycle(d, h, at, failing, e) ==
  /\ at \in Nat /\ HostOK(h) /\ Fine(d, at, {Node}, Keys)
  /\ \A s \in Samplers : ReadingOK(prev[s], at) /\ (prev[s] # None => Worked(prev[s], h))
  /\ e = sampleOnce(d, h, at, failing)

Turn(d, h, at, failing, e, t, name, e1) ==
  Fine(e1, at, {Node}, Keys) /\ e1[t] = d[t] /\ e[t] = sampled(name, failing, e1, h, at)[t]
LEMMA CycleOf ==
  ASSUME NEW d, NEW h, NEW at, NEW failing, NEW e, Cycle(d, h, at, failing, e), failing # "metrics",
         NEW t \in Tables, NEW n \in 1..10, Alone(t, n)
  PROVE  \E e1 : Turn(d, h, at, failing, e, t, Order[n], e1)
<1>1. Sampling(d, h, at, {Node}, Keys)
  BY DEF Cycle, Sampling, Keys
<1>2. \A i \in 1..10 : i # n => t \notin Written[Order[i]]
  BY DEF Alone
<1>3. \A s \in Samplers : ReadingOK(prev[s], at)
  BY DEF Cycle
<1>4. PICK e1 : /\ SamplesInto(d, e1, at, {Node}, Keys) /\ e1[t] = d[t]
                /\ sampleOnce(d, h, at, failing)[t] = sampled(Order[n], failing, e1, h, at)[t]
  BY <1>1, <1>2, <1>3, TableOfCycle
<1> QED BY <1>4 DEF Cycle, SamplesInto, Turn

LEMMA TurnOf ==
  ASSUME NEW d, NEW h, NEW at, NEW failing, NEW e, Cycle(d, h, at, failing, e), failing # "metrics"
  PROVE  /\ \E e1 : Turn(d, h, at, failing, e, "net_sample", "net", e1)
         /\ \E e1 : Turn(d, h, at, failing, e, "net_interface", "iface", e1)
         /\ \E e1 : Turn(d, h, at, failing, e, "cpu_state_sample", "cpu", e1)
         /\ \E e1 : Turn(d, h, at, failing, e, "cpu_core", "cores", e1)
         /\ \E e1 : Turn(d, h, at, failing, e, "disk_io_sample", "diskio", e1)
         /\ \E e1 : Turn(d, h, at, failing, e, "process_top", "proc", e1)
<1>0. 3 \in 1..10 /\ 4 \in 1..10 /\ 5 \in 1..10 /\ 6 \in 1..10 /\ 7 \in 1..10 /\ 8 \in 1..10
  OBVIOUS
<1>1. \E e1 : Turn(d, h, at, failing, e, "net_sample", "net", e1)
  <2>1. \E e1 : Turn(d, h, at, failing, e, "net_sample", Order[3], e1)
    BY <1>0, WrittenOnce, CycleOf
  <2>2. Order[3] = "net"
    BY OrderIs
  <2> QED BY <2>1, <2>2
<1>2. \E e1 : Turn(d, h, at, failing, e, "net_interface", "iface", e1)
  <2>1. \E e1 : Turn(d, h, at, failing, e, "net_interface", Order[4], e1)
    BY <1>0, WrittenOnce, CycleOf
  <2>2. Order[4] = "iface"
    BY OrderIs
  <2> QED BY <2>1, <2>2
<1>3. \E e1 : Turn(d, h, at, failing, e, "cpu_state_sample", "cpu", e1)
  <2>1. \E e1 : Turn(d, h, at, failing, e, "cpu_state_sample", Order[5], e1)
    BY <1>0, WrittenOnce, CycleOf
  <2>2. Order[5] = "cpu"
    BY OrderIs
  <2> QED BY <2>1, <2>2
<1>4. \E e1 : Turn(d, h, at, failing, e, "cpu_core", "cores", e1)
  <2>1. \E e1 : Turn(d, h, at, failing, e, "cpu_core", Order[6], e1)
    BY <1>0, WrittenOnce, CycleOf
  <2>2. Order[6] = "cores"
    BY OrderIs
  <2> QED BY <2>1, <2>2
<1>5. \E e1 : Turn(d, h, at, failing, e, "disk_io_sample", "diskio", e1)
  <2>1. \E e1 : Turn(d, h, at, failing, e, "disk_io_sample", Order[7], e1)
    BY <1>0, WrittenOnce, CycleOf
  <2>2. Order[7] = "diskio"
    BY OrderIs
  <2> QED BY <2>1, <2>2
<1>6. \E e1 : Turn(d, h, at, failing, e, "process_top", "proc", e1)
  <2>1. \E e1 : Turn(d, h, at, failing, e, "process_top", Order[8], e1)
    BY <1>0, WrittenOnce, CycleOf
  <2>2. Order[8] = "proc"
    BY OrderIs
  <2> QED BY <2>1, <2>2
<1> QED BY <1>1, <1>2, <1>3, <1>4, <1>5, <1>6

LEMMA RowOfUnit ==
  ASSUME NEW U, NEW at, NEW v, NEW r \in UnitSet(U, at, v)
  PROVE  r.key \in U /\ r.val = v[r.key] /\ r.at = at /\ r.node = Node
<1>1. PICK u \in U : r = Row(Node, u, at, v[u])
  BY DEF UnitSet
<1>2. r.key = u /\ r.val = v[u] /\ r.at = at /\ r.node = Node
  BY <1>1 DEF Row
<1> QED BY <1>2

LEMMA Replaced ==
  ASSUME NEW d, NEW nodes, NEW keys, NEW at, Fine(d, at, nodes, keys), NEW t \in SnapshotTables,
         NEW rows, NEW r \in Replace(d, t, Node, rows)[t]
  PROVE  (r \in d[t] /\ r.node # Node) \/ r \in rows
<1>1. Replace(d, t, Node, rows)[t] = {x \in d[t] : x.node # Node} \cup rows
  BY ReplaceOp DEF Fine
<1> QED BY <1>1

LEMMA IfaceAfter ==
  ASSUME NEW d, NEW h, NEW at, NEW failing, NEW e, Cycle(d, h, at, failing, e),
         failing # "metrics", failing # "iface", prev["iface"] # None,
         NEW r \in e["net_interface"], r.node = Node
  PROVE  Fits(prev["iface"], h, at, r.key, r.val.rate)
<1>1. PICK e1 : Turn(d, h, at, failing, e, "net_interface", "iface", e1)
  BY TurnOf
<1>2. PICK v : /\ sampleNetIface(e1, prev["iface"], Reads(h), at)
                    = Replace(e1, "net_interface", Node, UnitSet(DOMAIN Reads(h), at, v))
               /\ \A u \in DOMAIN Reads(h) : v[u].rate = Rate(prev["iface"], Reads(h), at, u)
  BY IfaceRows
<1>3. r \in Replace(e1, "net_interface", Node, UnitSet(DOMAIN Reads(h), at, v))["net_interface"]
  BY <1>1, <1>2, SamplerIs DEF Turn
<1>4. r \in UnitSet(DOMAIN Reads(h), at, v)
  BY <1>1, <1>3, Replaced DEF SnapshotTables, Turn
<1>5. r.key \in DOMAIN Reads(h) /\ r.val.rate = Rate(prev["iface"], Reads(h), at, r.key)
  BY <1>2, <1>4, RowOfUnit
<1>6. "iface" \in Samplers
  BY DEF Samplers
<1> QED BY <1>5, <1>6, RateFits DEF Cycle

LEMMA ProcessesAfter ==
  ASSUME NEW d, NEW h, NEW at, NEW failing, NEW e, Cycle(d, h, at, failing, e),
         failing # "metrics", failing # "proc", prev["proc"] # None,
         NEW r \in e["process_top"], r.node = Node
  PROVE  ShareFits(prev["proc"], h, at, r.key, r.val)
<1>1. PICK e1 : Turn(d, h, at, failing, e, "process_top", "proc", e1)
  BY TurnOf
<1>2. PICK p : p = prev["proc"] /\ ReadingOK(p, at) /\ Worked(p, h) /\ p # None
  <2>1. "proc" \in Samplers
    BY DEF Samplers
  <2> QED BY <2>1 DEF Cycle
<1>3. at \in Nat /\ HostOK(h)
  BY DEF Cycle
<1>4. PICK U \in SUBSET Units : \E v :
        /\ sampleProcesses(e1, p, Reads(h), at) = Replace(e1, "process_top", Node, UnitSet(U, at, v))
        /\ \A u \in U : u \in DOMAIN Reads(h) /\ \E g : Gained(p, Reads(h), u, g) /\ ShareOf(p, at, g, v[u])
  BY <1>2, <1>3, ProcessRows
<1>5. PICK v :
        /\ sampleProcesses(e1, p, Reads(h), at) = Replace(e1, "process_top", Node, UnitSet(U, at, v))
        /\ \A u \in U : u \in DOMAIN Reads(h) /\ \E g : Gained(p, Reads(h), u, g) /\ ShareOf(p, at, g, v[u])
  BY <1>4
<1>6. r \in Replace(e1, "process_top", Node, UnitSet(U, at, v))["process_top"]
  BY <1>1, <1>2, <1>5, SamplerIs DEF Turn
<1>7. r \in UnitSet(U, at, v)
  BY <1>1, <1>6, Replaced DEF SnapshotTables, Turn
<1>8. r.key \in U /\ r.val = v[r.key]
  BY <1>7, RowOfUnit
<1>9. PICK g : Gained(p, Reads(h), r.key, g) /\ ShareOf(p, at, g, r.val) /\ r.key \in DOMAIN Reads(h)
  BY <1>5, <1>8
<1> QED BY <1>2, <1>3, <1>9, ProcessFits

LEMMA CycleFine ==
  ASSUME NEW d, NEW h, NEW at, NEW failing, NEW e, Cycle(d, h, at, failing, e)
  PROVE  Fine(e, at, {Node}, Keys) /\ Fine(prune(e, at), at, {Node}, Keys) /\ Pruned(e, prune(e, at), at)
<1>1. Sampling(d, h, at, {Node}, Keys) /\ at \in Int
  BY DEF Cycle, Sampling, Keys
<1>2. \A s \in Samplers : ReadingOK(prev[s], at)
  BY DEF Cycle
<1>3. Fine(e, at, {Node}, Keys)
  BY <1>1, <1>2, CycleSampled DEF Cycle, SamplesInto
<1> QED BY <1>1, <1>3, PruneSteps

LEMMA NetAfter ==
  ASSUME NEW d, NEW h, NEW at, NEW failing, NEW e, Cycle(d, h, at, failing, e),
         failing # "metrics", failing # "net", prev["net"] # None
  PROVE  \E val : /\ LatestNetSample(prune(e, at), Node) = <<Row(Node, NoKey, at, val)>>
                  /\ NetFits(prev["net"], h, at, val.rate)
<1>1. PICK e1 : Turn(d, h, at, failing, e, "net_sample", "net", e1)
  BY TurnOf
<1>2. PICK p : p = prev["net"] /\ ReadingOK(p, at) /\ Worked(p, h) /\ p # None
  <2>1. "net" \in Samplers
    BY DEF Samplers
  <2> QED BY <2>1 DEF Cycle
<1>3. at \in Nat /\ HostOK(h)
  BY DEF Cycle
<1>4. PICK val : /\ sampleNet(e1, p, Reads(h), at) = Insert(e1, "net_sample", <<Row(Node, NoKey, at, val)>>)
                 /\ NetFits(p, h, at, val.rate)
  BY <1>2, <1>3, NetRow
<1>10. PICK r : r = Row(Node, NoKey, at, val)
  OBVIOUS
<1>5. r.node = Node /\ r.at = at
  BY <1>10 DEF Row
<1>6. e["net_sample"] = d["net_sample"] \o <<r>>
  <2>1. "net_sample" \in SeriesTables /\ DOMAIN e1 = Tables
    BY <1>1 DEF SeriesTables, Turn, Fine
  <2>2. Insert(e1, "net_sample", <<r>>)["net_sample"] = e1["net_sample"] \o <<r>>
    BY <2>1, InsertOp
  <2>3. e["net_sample"] = sampleNet(e1, p, Reads(h), at)["net_sample"]
    BY <1>1, <1>2, SamplerIs DEF Turn
  <2> QED BY <1>1, <1>4, <1>10, <2>2, <2>3 DEF Turn
<1>7. Fine(d, at, {Node}, Keys) /\ Fine(e, at, {Node}, Keys)
  BY CycleFine DEF Cycle
<1>8. LatestNetSample(prune(e, at), Node) = <<r>>
  BY <1>3, <1>5, <1>6, <1>7, NewestAfterCycle
<1> QED BY <1>2, <1>4, <1>8, <1>10

LEMMA DiskIOAfter ==
  ASSUME NEW d, NEW h, NEW at, NEW failing, NEW e, Cycle(d, h, at, failing, e),
         failing # "metrics", failing # "diskio", prev["diskio"] # None,
         NEW r \in ToSet(e["disk_io_sample"]), r \notin ToSet(d["disk_io_sample"])
  PROVE  Fits(prev["diskio"], h, at, r.key, r.val)
<1>1. PICK e1 : Turn(d, h, at, failing, e, "disk_io_sample", "diskio", e1)
  BY TurnOf
<1>2. PICK v : /\ sampleDiskIO(e1, prev["diskio"], Reads(h), at)
                    = Insert(e1, "disk_io_sample", SetToSeq(UnitSet(DOMAIN Reads(h), at, v)))
               /\ \A u \in DOMAIN Reads(h) : v[u] = Rate(prev["diskio"], Reads(h), at, u)
  BY DiskIORows
<1>3. PICK rows : rows = UnitSet(DOMAIN Reads(h), at, v)
  OBVIOUS
<1>4. IsSeq(SetToSeq(rows)) /\ ToSet(SetToSeq(rows)) = rows
  <2>1. PICK U : U = DOMAIN Reads(h) /\ U \subseteq Units /\ at \in Nat
    BY ReadsIs DEF Cycle
  <2>3. rows = UnitSet(U, at, v)
    BY <1>3, <2>1
  <2>2. Snapshot(rows)
    BY <2>1, <2>3, UnitRows
  <2> QED BY <2>2, Listed DEF Snapshot
<1>5. e["disk_io_sample"] = d["disk_io_sample"] \o SetToSeq(rows)
  <2>1. "disk_io_sample" \in SeriesTables /\ DOMAIN e1 = Tables
    BY <1>1 DEF SeriesTables, Turn, Fine
  <2>2. Insert(e1, "disk_io_sample", SetToSeq(rows))["disk_io_sample"]
          = e1["disk_io_sample"] \o SetToSeq(rows)
    BY <2>1, InsertOp
  <2>3. e["disk_io_sample"] = sampleDiskIO(e1, prev["diskio"], Reads(h), at)["disk_io_sample"]
    BY <1>1, SamplerIs DEF Turn
  <2> QED BY <1>1, <1>2, <1>3, <2>2, <2>3 DEF Turn
<1>6. IsSeq(d["disk_io_sample"])
  BY DEF Cycle, Fine, SeriesTables
<1>7. r \in UnitSet(DOMAIN Reads(h), at, v)
  BY <1>3, <1>4, <1>5, <1>6, Joined
<1>8. r.key \in DOMAIN Reads(h) /\ r.val = Rate(prev["diskio"], Reads(h), at, r.key)
  BY <1>2, <1>7, RowOfUnit
<1>9. "diskio" \in Samplers
  BY DEF Samplers
<1> QED BY <1>8, <1>9, RateFits DEF Cycle

LEMMA CPUAfter ==
  ASSUME NEW d, NEW h, NEW at, NEW failing, NEW e, Cycle(d, h, at, failing, e),
         \A r \in ToSet(d["cpu_state_sample"]) : AddsUp(r.val)
  PROVE  \A r \in ToSet(e["cpu_state_sample"]) : AddsUp(r.val)
<1>1. CASE failing = "metrics"
  BY <1>1 DEF Cycle, sampleOnce
<1>2. CASE failing # "metrics"
  <2>1. PICK e1 : Turn(d, h, at, failing, e, "cpu_state_sample", "cpu", e1)
    BY <1>2, TurnOf
  <2>2. CASE failing = "cpu"
    <3>1. sampled("cpu", failing, e1, h, at) = e1
      BY <2>2 DEF sampled
    <3> QED BY <2>1, <3>1 DEF Turn
  <2>3. CASE failing # "cpu"
    <3>1. PICK p : p = prev["cpu"] /\ (p = None \/ Worked(p, h))
      <4>1. "cpu" \in Samplers
        BY DEF Samplers
      <4> QED BY <4>1 DEF Cycle
    <3>2. sampleCPUState(e1, p, h.done, at) = e1 \/ \E val : Broken(e1, p, h, at, val)
      <4>1. HostOK(h)
        BY DEF Cycle
      <4> QED BY <3>1, <4>1, CPURow
    <3>3. CASE sampleCPUState(e1, p, h.done, at) = e1
      BY <2>1, <2>3, <3>1, <3>3, SamplerIs DEF Turn
    <3>4. ASSUME NEW val, Broken(e1, p, h, at, val)
          PROVE  \A r \in ToSet(e["cpu_state_sample"]) : AddsUp(r.val)
      <4>1. PICK x : x = Row(Node, NoKey, at, val)
        OBVIOUS
      <4>7. x.val = val
        BY <4>1 DEF Row
      <4>2. "cpu_state_sample" \in SeriesTables /\ DOMAIN e1 = Tables
        BY <2>1 DEF SeriesTables, Turn, Fine
      <4>3. Insert(e1, "cpu_state_sample", <<x>>)["cpu_state_sample"] = e1["cpu_state_sample"] \o <<x>>
        BY <4>2, InsertOp
      <4>4. e["cpu_state_sample"] = d["cpu_state_sample"] \o <<x>>
        BY <2>1, <2>3, <3>1, <3>4, <4>1, <4>3, SamplerIs DEF Turn, Broken
      <4>5. IsSeq(d["cpu_state_sample"])
        BY <4>2 DEF Cycle, Fine
      <4>6. ToSet(e["cpu_state_sample"]) = ToSet(d["cpu_state_sample"]) \cup {x}
        BY <4>4, <4>5, Joined, Single
      <4> QED BY <3>4, <4>6, <4>7 DEF Broken
    <3> QED BY <3>2, <3>3, <3>4
  <2> QED BY <2>2, <2>3
<1> QED BY <1>1, <1>2

LEMMA CoresAfter ==
  ASSUME NEW d, NEW h, NEW at, NEW failing, NEW e, Cycle(d, h, at, failing, e),
         \A r \in d["cpu_core"] : r.val <= 10000
  PROVE  \A r \in e["cpu_core"] : r.val <= 10000
<1>1. CASE failing = "metrics"
  BY <1>1 DEF Cycle, sampleOnce
<1>2. CASE failing # "metrics"
  <2>1. PICK e1 : Turn(d, h, at, failing, e, "cpu_core", "cores", e1)
    BY <1>2, TurnOf
  <2>2. CASE failing = "cores"
    <3>1. sampled("cores", failing, e1, h, at) = e1
      BY <2>2 DEF sampled
    <3> QED BY <2>1, <3>1 DEF Turn
  <2>3. CASE failing # "cores"
    <3>1. PICK p : p = prev["cores"] /\ ReadingOK(p, at) /\ (p = None \/ Worked(p, h))
      <4>1. "cores" \in Samplers
        BY DEF Samplers
      <4> QED BY <4>1 DEF Cycle
    <3>2. sampleCPUCores(e1, p, Reads(h), h.done, at) = e1 \/ \E rows : Capped(e1, p, h, at, rows)
      <4>1. HostOK(h) /\ at \in Nat
        BY DEF Cycle
      <4>2. CoresLeft(e1, p, h, at)
        BY <3>1, <4>1, CoreRows
      <4> QED BY <4>2 DEF CoresLeft
    <3>3. CASE sampleCPUCores(e1, p, Reads(h), h.done, at) = e1
      BY <2>1, <2>3, <3>1, <3>3, SamplerIs DEF Turn
    <3>4. ASSUME NEW rows, Capped(e1, p, h, at, rows), NEW r \in e["cpu_core"]
          PROVE  r.val <= 10000
      <4>1. r \in Replace(e1, "cpu_core", Node, rows)["cpu_core"]
        BY <2>1, <2>3, <3>1, <3>4, SamplerIs DEF Turn, Capped
      <4>2. r \in e1["cpu_core"] \/ r \in rows
        BY <2>1, <4>1, Replaced DEF Turn, SnapshotTables
      <4> QED BY <2>1, <3>4, <4>2 DEF Turn, Capped
    <3> QED BY <3>2, <3>3, <3>4
  <2> QED BY <2>2, <2>3
<1> QED BY <1>1, <1>2

---------------------------------------------------------------------------
(* The inductive invariant of the rates: a unit that is gone reads zero;   *)
(* since a sampler's reading no counter has gained more than its unit has  *)
(* worked; the shares of CPU time in store add up, and no core's is more   *)
(* than the whole.                                                         *)
HonestInv ==
  /\ CollectorInv(Keys)
  /\ GoneIsZero(host)
  /\ \A s \in Samplers : prev[s] # None => Worked(prev[s], host)
  /\ \A r \in ToSet(src["cpu_state_sample"]) : AddsUp(r.val)
  /\ \A r \in src["cpu_core"] : r.val <= 10000

LEMMA HonestStarts == CollectorInit => HonestInv
<1> SUFFICES ASSUME CollectorInit PROVE HonestInv
  OBVIOUS
<1>1. CollectorInv(Keys)
  BY CollectorStarts
<1>2. GoneIsZero(host)
  <2>1. host.ctr = [u \in Units |-> 0]
    BY DEF CollectorInit
  <2> QED BY <2>1 DEF GoneIsZero
<1>3. \A s \in Samplers : prev[s] = None
  BY DEF CollectorInit
<1>4. src["cpu_state_sample"] = <<>> /\ src["cpu_core"] = {}
  BY DEF CollectorInit, schemaSQL, Tables, SeriesTables, SnapshotTables
<1> QED BY <1>1, <1>2, <1>3, <1>4, NoRow DEF HonestInv

LEMMA SampleIsCycle ==
  ASSUME HonestInv, NEW r \in Readings, NEW failing, Sample(r, failing)
  PROVE  \E e : /\ Cycle(src, host', now', failing, e) /\ src' = prune(e, now')
                /\ GoneIsZero(host') /\ now \in Nat /\ now <= now'
                /\ \A s \in Samplers : prev'[s] = Reading(s, host', now', failing)
<1>1. CollectorInv(Keys) /\ HostOK(host) /\ now \in Nat
  BY DEF HonestInv, CollectorInv
<1>2. r.dt \in Nat /\ now' = now + r.dt /\ host' = HostAfter(r)
  BY CollectorAssumption DEF Sample
<1>3. PICK at \in Nat : at = now' /\ now <= at
  BY <1>1, <1>2
<1>4. PICK h : h = host' /\ HostOK(h)
  BY <1>1, <1>2, HostMoves
<1>5. GoneIsZero(h)
  BY <1>1, <1>2, <1>4, HostAfterIs DEF GoneIsZero
<1>6. Fine(src, at, {Node}, Keys)
  BY <1>1, <1>3, LaterIsFine DEF CollectorInv
<1>7. ASSUME NEW s \in Samplers
      PROVE  ReadingOK(prev[s], at) /\ (prev[s] # None => Worked(prev[s], h))
  <2>1. ReadingOK(prev[s], at) /\ ReadingOK(prev[s], now)
    BY <1>1, <1>3, LaterReading DEF CollectorInv
  <2>2. ASSUME prev[s] # None PROVE Worked(prev[s], h)
    <3>1. Worked(prev[s], host)
      BY <2>2 DEF HonestInv
    <3>2. \A u \in DOMAIN prev[s].ctr : prev[s].ctr[u] \in Nat
      BY <2>1, <2>2 DEF ReadingOK
    <3> QED BY <1>1, <1>2, <1>4, <3>1, <3>2, WorkGoesOn
  <2> QED BY <2>1, <2>2
<1>8. PICK e : e = sampleOnce(src, h, at, failing)
  OBVIOUS
<1>9. Cycle(src, h, at, failing, e)
  BY <1>4, <1>6, <1>7, <1>8 DEF Cycle
<1>10. src' = prune(e, at)
  BY <1>3, <1>4, <1>8 DEF Sample
<1>11. \A s \in Samplers : prev'[s] = Reading(s, h, at, failing)
  BY <1>3, <1>4 DEF Sample
<1> QED BY <1>1, <1>3, <1>4, <1>5, <1>9, <1>10, <1>11

LEMMA HonestKept ==
  ASSUME HonestInv, CollectorNext
  PROVE  HonestInv'
<1>1. CASE Restart
  <2>1. \A s \in Samplers : prev'[s] = None
    BY <1>1 DEF Restart
  <2>2. UNCHANGED <<now, host, src>>
    BY <1>1 DEF Restart
  <2>3. CollectorInv(Keys)'
    BY CycleKeeps DEF HonestInv, Keys
  <2> QED BY <2>1, <2>2, <2>3 DEF HonestInv, AddsUp
<1>2. ASSUME NEW r \in Readings, NEW failing, Sample(r, failing)
      PROVE  HonestInv'
  <2>1. PICK e : /\ Cycle(src, host', now', failing, e) /\ src' = prune(e, now')
                 /\ GoneIsZero(host') /\ now \in Nat /\ now <= now'
                 /\ \A s \in Samplers : prev'[s] = Reading(s, host', now', failing)
    BY <1>2, SampleIsCycle
  <2>2. CollectorInv(Keys)'
    BY CycleKeeps DEF HonestInv, Keys
  <2>3. PICK h, at, g : h = host' /\ at = now' /\ g = src'
    OBVIOUS
  <2>4. Cycle(src, h, at, failing, e) /\ g = prune(e, at) /\ GoneIsZero(h)
    BY <2>1, <2>3
  <2>5. Pruned(e, g, at)
    BY <2>4, CycleFine
  <2>6. \A x \in ToSet(g["cpu_state_sample"]) : AddsUp(x.val)
    <3>1. \A x \in ToSet(e["cpu_state_sample"]) : AddsUp(x.val)
      BY <2>4, CPUAfter DEF HonestInv
    <3>2. ToSet(g["cpu_state_sample"]) \subseteq ToSet(e["cpu_state_sample"])
      BY <2>5 DEF Pruned, SeriesTables
    <3> QED BY <3>1, <3>2
  <2>7. \A x \in g["cpu_core"] : x.val <= 10000
    <3>1. \A x \in e["cpu_core"] : x.val <= 10000
      BY <2>4, CoresAfter DEF HonestInv
    <3>2. g["cpu_core"] = e["cpu_core"]
      BY <2>5 DEF Pruned, SnapshotTables
    <3> QED BY <3>1, <3>2
  <2>8. ASSUME NEW s \in Samplers, prev'[s] # None PROVE Worked(prev'[s], h)
    <3>1. PICK p : p = prev'[s] /\ p = Reading(s, h, at, failing) /\ p # None
      BY <2>1, <2>3, <2>8
    <3>2. CASE failing \in {s, "metrics"}
      <4>1. p = prev[s]
        BY <3>1, <3>2 DEF Reading
      <4> QED BY <2>4, <3>1, <4>1 DEF Cycle
    <3>3. CASE failing \notin {s, "metrics"}
      <4>1. p = [at |-> at, ctr |-> Reads(h), done |-> h.done]
        BY <3>1, <3>3 DEF Reading
      <4>2. HostOK(h)
        BY <2>4 DEF Cycle
      <4> QED BY <2>4, <3>1, <4>1, <4>2, ReadNow
    <3> QED BY <3>2, <3>3
  <2> QED BY <2>2, <2>3, <2>4, <2>6, <2>7, <2>8 DEF HonestInv, AddsUp
<1> QED BY <1>1, <1>2 DEF CollectorNext

SharesHold(d) ==
  /\ \A r \in ToSet(d["cpu_state_sample"]) : AddsUp(r.val)
  /\ \A r \in d["cpu_core"] : r.val <= 10000
SharesShown(d) ==
  /\ LatestCPUState(d, Node) # <<>> => AddsUp(LatestCPUState(d, Node)[1].val)
  /\ \A r \in PerCore(d, Node) : r.val <= 10000
LEMMA HonestViews ==
  ASSUME NEW d, NEW top \in Nat, Fine(d, top, {Node}, Keys), SharesHold(d)
  PROVE  SharesShown(d)
<1>1. "cpu_state_sample" \in SeriesTables /\ "cpu_state_sample" \in Tables
  BY TableKinds DEF SeriesTables
<1>2. PICK s : s = d["cpu_state_sample"] /\ IsSeq(s)
  BY <1>1 DEF Fine
<1>3. \A r \in ToSet(s) : r.at \in 0..top
  BY <1>1, <1>2, RowsOfKind DEF Fine, RowFine
<1>4. ASSUME LatestCPUState(d, Node) # <<>> PROVE AddsUp(LatestCPUState(d, Node)[1].val)
  <2>1. PICK i : NewestIs(s, Node, i) /\ Newest(d, "cpu_state_sample", Node) = <<s[i]>>
    BY <1>2, <1>3, <1>4, NewestFacts DEF LatestCPUState
  <2>2. s[i] \in ToSet(s)
    BY <1>2, <2>1, SeqElements DEF NewestIs, IsSeq
  <2>3. LatestCPUState(d, Node)[1] = s[i]
    BY <2>1 DEF LatestCPUState
  <2> QED BY <1>2, <2>2, <2>3 DEF SharesHold
<1>5. \A r \in PerCore(d, Node) : r.val <= 10000
  BY DEF PerCore, SharesHold
<1> QED BY <1>4, <1>5 DEF SharesShown

LEMMA LatestIOAre ==
  ASSUME NEW d, IsSeq(d["disk_io_sample"]), NEW node, NEW r \in ToSet(LatestDiskIOSamples(d, node))
  PROVE  r \in ToSet(d["disk_io_sample"])
<1>1. PICK s : s = d["disk_io_sample"] /\ IsSeq(s)
  OBVIOUS
<1>2. PICK mine : mine = {x \in ToSet(s) : x.node = node}
  OBVIOUS
<1>3. PICK rows : rows = Keep(s, mine) /\ rows = IORows(d, node)
  BY <1>1, <1>2 DEF IORows
<1>4. IsSeq(rows) /\ ToSet(rows) \subseteq ToSet(s)
  <2>1. IsSeq(s)
    BY <1>1
  <2>2. IsSeq(Keep(s, mine)) /\ ToSet(Keep(s, mine)) = ToSet(s) \cap mine
    BY <2>1, KeepFacts
  <2>3. rows = Keep(s, mine)
    BY <1>3
  <2> QED BY <2>2, <2>3
<1>5. PICK last : last = {x \in ToSet(rows) : \A y \in ToSet(rows) : y.at <= x.at}
  OBVIOUS
<1>6. LatestDiskIOSamples(d, node) = Keep(rows, last)
  BY <1>3, <1>5 DEF LatestDiskIOSamples
<1>7. r \in ToSet(rows)
  BY <1>4, <1>6, KeepFacts
<1> QED BY <1>1, <1>4, <1>7

Wrote(s) == prev'[s] # prev[s] /\ None \notin {prev[s], prev'[s]}
LEMMA HonestSample ==
  ASSUME HonestInv, NEW q \in Readings, NEW failing, Sample(q, failing)
  PROVE  /\ Wrote("iface") => \A r \in NetInterfaces(src', Node) :
              Fits(prev["iface"], host', now', r.key, r.val.rate)
         /\ Wrote("diskio") => \A r \in ToSet(LatestDiskIOSamples(src', Node)) :
              r.at = now' /\ now' > now => Fits(prev["diskio"], host', now', r.key, r.val)
         /\ Wrote("proc") => \A r \in TopProcesses(src', Node) :
              ShareFits(prev["proc"], host', now', r.key, r.val)
         /\ Wrote("net") => NetFits(prev["net"], host', now', LatestNetSample(src', Node)[1].val.rate)
<1>1. PICK e : /\ Cycle(src, host', now', failing, e) /\ src' = prune(e, now')
               /\ GoneIsZero(host') /\ now \in Nat /\ now <= now'
               /\ \A s \in Samplers : prev'[s] = Reading(s, host', now', failing)
  BY SampleIsCycle
<1>2. PICK h, at, g : h = host' /\ at = now' /\ g = src'
  OBVIOUS
<1>3. Cycle(src, h, at, failing, e) /\ g = prune(e, at)
  BY <1>1, <1>2
<1>4. Pruned(e, g, at)
  BY <1>3, CycleFine
<1>5. ASSUME NEW s \in Samplers, Wrote(s)
      PROVE  failing # "metrics" /\ failing # s /\ prev[s] # None
  <2>1. prev'[s] = Reading(s, h, at, failing)
    BY <1>1, <1>2
  <2> QED BY <1>5, <2>1 DEF Wrote, Reading
<1>6. ASSUME Wrote("iface"), NEW r \in NetInterfaces(g, Node)
      PROVE  Fits(prev["iface"], h, at, r.key, r.val.rate)
  <2>1. r \in e["net_interface"] /\ r.node = Node
    BY <1>4, <1>6 DEF NetInterfaces, Pruned, SnapshotTables
  <2>2. "iface" \in Samplers
    BY DEF Samplers
  <2>3. failing # "metrics" /\ failing # "iface" /\ prev["iface"] # None
    BY <1>5, <1>6, <2>2
  <2> QED BY <1>3, <2>1, <2>3, IfaceAfter
<1>7. ASSUME Wrote("diskio"), NEW r \in ToSet(LatestDiskIOSamples(g, Node)), r.at = at, at > now
      PROVE  Fits(prev["diskio"], h, at, r.key, r.val)
  <2>1. Fine(g, at, {Node}, Keys) /\ Fine(e, at, {Node}, Keys)
    BY <1>3, CycleFine
  <2>2. "disk_io_sample" \in SeriesTables /\ "disk_io_sample" \in Tables
    BY TableKinds DEF SeriesTables
  <2>3. IsSeq(g["disk_io_sample"])
    BY <2>1, <2>2 DEF Fine
  <2>4. r \in ToSet(g["disk_io_sample"])
    BY <1>7, <2>3, LatestIOAre
  <2>5. r \in ToSet(e["disk_io_sample"])
    BY <1>4, <2>2, <2>4 DEF Pruned
  <2>6. r \notin ToSet(src["disk_io_sample"])
    <3>1. ASSUME r \in ToSet(src["disk_io_sample"]) PROVE r.at \in 0..now
      BY <2>2, <3>1, RowsOfKind DEF HonestInv, CollectorInv, Fine, RowFine
    <3>2. at \in Nat /\ now \in Nat
      BY <1>1, <1>3 DEF Cycle
    <3>3. ~(r.at \in 0..now)
      BY <1>7, <3>2
    <3> QED BY <3>1, <3>3
  <2>7. "diskio" \in Samplers
    BY DEF Samplers
  <2>8. failing # "metrics" /\ failing # "diskio" /\ prev["diskio"] # None
    BY <1>5, <1>7, <2>7
  <2> QED BY <1>3, <2>5, <2>6, <2>8, DiskIOAfter
<1>8. ASSUME Wrote("proc"), NEW r \in TopProcesses(g, Node)
      PROVE  ShareFits(prev["proc"], h, at, r.key, r.val)
  <2>1. r \in e["process_top"] /\ r.node = Node
    BY <1>4, <1>8 DEF TopProcesses, Pruned, SnapshotTables
  <2>2. "proc" \in Samplers
    BY DEF Samplers
  <2>3. failing # "metrics" /\ failing # "proc" /\ prev["proc"] # None
    BY <1>5, <1>8, <2>2
  <2> QED BY <1>3, <2>1, <2>3, ProcessesAfter
<1>9. ASSUME Wrote("net")
      PROVE  NetFits(prev["net"], h, at, LatestNetSample(g, Node)[1].val.rate)
  <2>1. "net" \in Samplers
    BY DEF Samplers
  <2>2. failing # "metrics" /\ failing # "net" /\ prev["net"] # None
    BY <1>5, <1>9, <2>1
  <2>3. PICK val : /\ LatestNetSample(prune(e, at), Node) = <<Row(Node, NoKey, at, val)>>
                   /\ NetFits(prev["net"], h, at, val.rate)
    BY <1>3, <2>2, NetAfter
  <2>4. PICK r : r = Row(Node, NoKey, at, val)
    OBVIOUS
  <2>5. r.val = val
    BY <2>4 DEF Row
  <2>6. LatestNetSample(g, Node)[1] = r
    BY <1>3, <2>3, <2>4
  <2> QED BY <2>3, <2>5, <2>6
<1> QED BY <1>2, <1>6, <1>7, <1>8, <1>9

LEMMA HonestStep ==
  ASSUME HonestInv, CollectorNext
  PROVE  RatesHonestStep
<1>1. HonestInv'
  BY HonestKept
<1>2. /\ LatestCPUState(src', Node) # <<>> => AddsUp(LatestCPUState(src', Node)[1].val)
      /\ \A r \in PerCore(src', Node) : r.val <= 10000
  <2>1. PICK g, at : g = src' /\ at = now'
    OBVIOUS
  <2>2. Fine(g, at, {Node}, Keys) /\ at \in Nat /\ SharesHold(g)
    BY <1>1, <2>1 DEF HonestInv, CollectorInv, SharesHold, AddsUp
  <2>3. SharesShown(g)
    BY <2>2, HonestViews
  <2> QED BY <2>1, <2>3 DEF SharesShown
<1>3. /\ Wrote("iface") => \A r \in NetInterfaces(src', Node) :
              Fits(prev["iface"], host', now', r.key, r.val.rate)
      /\ Wrote("diskio") => \A r \in ToSet(LatestDiskIOSamples(src', Node)) :
              r.at = now' /\ now' > now => Fits(prev["diskio"], host', now', r.key, r.val)
      /\ Wrote("proc") => \A r \in TopProcesses(src', Node) :
              ShareFits(prev["proc"], host', now', r.key, r.val)
      /\ Wrote("net") => NetFits(prev["net"], host', now', LatestNetSample(src', Node)[1].val.rate)
  <2>1. CASE Restart
    <3>1. \A s \in Samplers : ~Wrote(s)
      BY <2>1 DEF Restart, Wrote
    <3>2. "iface" \in Samplers /\ "diskio" \in Samplers /\ "proc" \in Samplers /\ "net" \in Samplers
      BY DEF Samplers
    <3> QED BY <3>1, <3>2
  <2>2. ASSUME NEW q \in Readings, NEW failing, Sample(q, failing)
        PROVE  /\ Wrote("iface") => \A r \in NetInterfaces(src', Node) :
                    Fits(prev["iface"], host', now', r.key, r.val.rate)
               /\ Wrote("diskio") => \A r \in ToSet(LatestDiskIOSamples(src', Node)) :
                    r.at = now' /\ now' > now => Fits(prev["diskio"], host', now', r.key, r.val)
               /\ Wrote("proc") => \A r \in TopProcesses(src', Node) :
                    ShareFits(prev["proc"], host', now', r.key, r.val)
               /\ Wrote("net") => NetFits(prev["net"], host', now', LatestNetSample(src', Node)[1].val.rate)
    BY <2>2, HonestSample
  <2> QED BY <2>1, <2>2 DEF CollectorNext
<1> QED BY <1>2, <1>3 DEF RatesHonestStep, Wrote, Fits, ShareFits, NetFits, AddsUp, WorkOf

(* Whatever is reset, unplugged, missed or restarted, for any units and    *)
(* readings: no rate of a disk, interface, process or of the whole network *)
(* is more than the host has done since the reading before, the breakdown  *)
(* of CPU time adds up to the whole within half a hundredth for each of    *)
(* its parts, and no core is more than fully busy (collector.go perSecond, *)
(* sampleCPUState, sampleCPUCores, sampleProcesses, sampleNet).            *)
THEOREM RatesAreHonest == CollectorSpec => RatesHonest
<1>1. CollectorInit => HonestInv
  BY HonestStarts
<1>2. HonestInv /\ [CollectorNext]_collectorVars => HonestInv'
  <2>1. ASSUME HonestInv, CollectorNext PROVE HonestInv'
    BY <2>1, HonestKept
  <2>2. ASSUME HonestInv, UNCHANGED collectorVars PROVE HonestInv'
    BY <2>2 DEF collectorVars, HonestInv, CollectorInv, AddsUp
  <2> QED BY <2>1, <2>2
<1>3. HonestInv /\ [CollectorNext]_collectorVars => [RatesHonestStep]_collectorVars
  BY HonestStep
<1> QED BY <1>1, <1>2, <1>3, PTL DEF CollectorSpec, RatesHonest

---------------------------------------------------------------------------
(* Rows ordered by time.                                                   *)
Dated(s) == \A i \in 1..Len(s) : s[i].at \in Int
InOrder(s) == \A i, j \in 1..Len(s) : i <= j => s[i].at <= s[j].at
Before(s, j, i) == s[j].at < s[i].at \/ (s[j].at = s[i].at /\ j <= i)
Sorts(s, ids, c, p) ==
  /\ p \in [1..c -> ids]
  /\ \A i \in ids : \E n \in 1..c : p[n] = i
  /\ \A m, n \in 1..c : m < n => p[m] # p[n] /\ Before(s, p[m], p[n])
  /\ ByTime(s, ids) = [n \in 1..c |-> s[p[n]]]

LEMMA FewIds ==
  ASSUME NEW s, IsSeq(s), NEW ids, ids \subseteq 1..Len(s)
  PROVE  Len(s) \in Nat /\ IsFiniteSet(ids) /\ Cardinality(ids) \in Nat
<1>1. Len(s) \in Nat
  BY SeqElements DEF IsSeq
<1>2. IsFiniteSet(1..Len(s))
  BY <1>1, FS_Interval
<1>3. IsFiniteSet(ids)
  BY <1>2, FS_Subset
<1> QED BY <1>1, <1>3, FS_CardinalityType

LEMMA Ranks ==
  ASSUME NEW s, IsSeq(s), Dated(s), NEW ids, ids \subseteq 1..Len(s)
  PROVE  /\ \A i \in ids : Cardinality(NotLater(s, ids, i)) \in 1..Cardinality(ids)
         /\ \A i, j \in ids : i # j /\ Before(s, j, i) =>
              Cardinality(NotLater(s, ids, j)) < Cardinality(NotLater(s, ids, i))
<1>1. Len(s) \in Nat /\ IsFiniteSet(ids) /\ Cardinality(ids) \in Nat
  BY FewIds
<1>2. \A i \in ids : NotLater(s, ids, i) = {j \in ids : Before(s, j, i)}
  BY DEF NotLater, Before
<1>3. ASSUME NEW i \in ids
      PROVE  /\ NotLater(s, ids, i) \in SUBSET ids /\ i \in NotLater(s, ids, i)
             /\ IsFiniteSet(NotLater(s, ids, i))
  <2>1. s[i].at \in Int /\ i \in Int
    BY <1>1 DEF Dated
  <2>2. Before(s, i, i)
    BY <2>1 DEF Before
  <2>3. NotLater(s, ids, i) \in SUBSET ids /\ i \in NotLater(s, ids, i)
    BY <1>2, <2>2
  <2> QED BY <1>1, <2>3, FS_Subset
<1>4. ASSUME NEW i \in ids PROVE Cardinality(NotLater(s, ids, i)) \in 1..Cardinality(ids)
  <2>1. PICK S : S = NotLater(s, ids, i)
    OBVIOUS
  <2>2. S \in SUBSET ids /\ i \in S /\ IsFiniteSet(S)
    BY <1>3, <2>1
  <2>3. Cardinality(S) \in Nat /\ Cardinality(S) <= Cardinality(ids)
    BY <1>1, <2>2, FS_CardinalityType, FS_Subset
  <2>4. Cardinality(S) # 0
    BY <2>2, FS_EmptySet
  <2>5. Cardinality(S) \in 1..Cardinality(ids)
    BY <1>1, <2>3, <2>4
  <2> QED BY <2>1, <2>5
<1>5. ASSUME NEW i \in ids, NEW j \in ids, i # j, Before(s, j, i)
      PROVE  Cardinality(NotLater(s, ids, j)) < Cardinality(NotLater(s, ids, i))
  <2>1. PICK S, R : S = NotLater(s, ids, i) /\ R = NotLater(s, ids, j)
    OBVIOUS
  <2>2. \A k \in ids : s[k].at \in Int /\ k \in Int
    BY <1>1 DEF Dated
  <2>3. i \in S /\ IsFiniteSet(S) /\ IsFiniteSet(R)
    BY <1>3, <2>1
  <2>4. ASSUME NEW k \in R PROVE k \in S
    <3>1. k \in ids /\ Before(s, k, j)
      BY <1>2, <2>1
    <3>2. Before(s, k, i)
      BY <1>5, <2>2, <3>1 DEF Before
    <3> QED BY <1>2, <2>1, <3>1, <3>2
  <2>5. i \notin R
    <3>1. ~Before(s, i, j)
      BY <1>5, <2>2 DEF Before
    <3> QED BY <1>2, <2>1, <3>1
  <2>6. R \in SUBSET S /\ R # S
    BY <2>3, <2>4, <2>5
  <2>7. Cardinality(R) <= Cardinality(S) /\ Cardinality(R) # Cardinality(S)
    BY <2>3, <2>6, FS_Subset
  <2>8. Cardinality(R) \in Nat /\ Cardinality(S) \in Nat
    BY <2>3, FS_CardinalityType
  <2>9. Cardinality(R) < Cardinality(S)
    BY <2>7, <2>8
  <2> QED BY <2>1, <2>9
<1> QED BY <1>4, <1>5

LEMMA Sorted ==
  ASSUME NEW s, IsSeq(s), Dated(s), NEW ids, ids \subseteq 1..Len(s)
  PROVE  \E p : Sorts(s, ids, Cardinality(ids), p)
<1>1. PICK c \in Nat : c = Cardinality(ids)
  BY FewIds
<1>2. PICK rank : rank = [i \in ids |-> Cardinality(NotLater(s, ids, i))]
  OBVIOUS
<1>3. rank \in [ids -> 1..c]
  BY <1>1, <1>2, Ranks
<1>4. \A i \in ids : s[i].at \in Int /\ i \in Int
  BY FewIds DEF Dated
<1>5. \A i, j \in ids : Before(s, j, i) \/ Before(s, i, j)
  BY <1>4 DEF Before
<1>6. \A i, j \in ids : i # j /\ Before(s, j, i) => rank[j] < rank[i]
  BY <1>2, Ranks
<1>7. ASSUME NEW i \in ids, NEW j \in ids, i # j PROVE rank[i] # rank[j]
  <2>1. rank[i] < rank[j] \/ rank[j] < rank[i]
    BY <1>5, <1>6, <1>7
  <2>2. rank[i] \in Int /\ rank[j] \in Int
    BY <1>3
  <2> QED BY <2>1, <2>2
<1>8. rank \in Injection(ids, 1..c)
  BY <1>3, <1>7 DEF Injection, IsInjective
<1>9. IsFiniteSet(1..c) /\ Cardinality(1..c) = c
  BY FS_Interval
<1>10. rank \in Surjection(ids, 1..c)
  BY <1>1, <1>8, <1>9, FS_Injection
<1>11. PICK p : p = [n \in 1..c |-> CHOOSE i \in ids : Cardinality(NotLater(s, ids, i)) = n]
  OBVIOUS
<1>12. ASSUME NEW n \in 1..c PROVE p[n] \in ids /\ rank[p[n]] = n
  <2>1. \E i \in ids : rank[i] = n
    BY <1>10 DEF Surjection
  <2>2. \E i \in ids : Cardinality(NotLater(s, ids, i)) = n
    BY <1>2, <2>1
  <2>3. p[n] \in ids /\ Cardinality(NotLater(s, ids, p[n])) = n
    BY <1>11, <2>2
  <2> QED BY <1>2, <2>3
<1>13. p \in [1..c -> ids]
  BY <1>11, <1>12
<1>14. ASSUME NEW i \in ids PROVE \E n \in 1..c : p[n] = i
  <2>1. PICK n \in 1..c : n = rank[i]
    BY <1>3
  <2>2. p[n] = i
    BY <1>7, <1>12, <2>1
  <2> QED BY <2>2
<1>15. ASSUME NEW m \in 1..c, NEW n \in 1..c, m < n PROVE p[m] # p[n] /\ Before(s, p[m], p[n])
  <2>1. PICK i \in ids, j \in ids : i = p[m] /\ j = p[n]
    BY <1>12
  <2>2. rank[i] = m /\ rank[j] = n
    BY <1>12, <2>1
  <2>3. i # j
    BY <1>15, <2>2
  <2>4. Before(s, i, j)
    <3>1. CASE Before(s, j, i)
      <4>1. n < m
        BY <1>6, <2>2, <2>3, <3>1
      <4> QED BY <1>15, <4>1
    <3> QED BY <1>5, <3>1
  <2> QED BY <2>1, <2>3, <2>4
<1>16. ByTime(s, ids) = [n \in 1..c |-> s[p[n]]]
  <2>1. ByTime(s, ids) = [n \in 1..c |-> s[CHOOSE i \in ids : Cardinality(NotLater(s, ids, i)) = n]]
    BY <1>1 DEF ByTime
  <2>2. \A n \in 1..c : p[n] = CHOOSE i \in ids : Cardinality(NotLater(s, ids, i)) = n
    BY <1>11
  <2> QED BY <2>1, <2>2
<1>17. Sorts(s, ids, c, p)
  BY <1>13, <1>14, <1>15, <1>16 DEF Sorts
<1> QED BY <1>1, <1>17

(* What ByTime returns: the rows, none of them twice, in their order, the  *)
(* earliest first.                                                         *)
FirstOf(s, ids, i) == i \in ids /\ \A j \in ids : Before(s, i, j)
ListsByTime(s, ids, b) ==
  /\ IsSeq(b) /\ Len(b) = Cardinality(ids) /\ Len(b) \in Nat
  /\ ToSet(b) = {s[i] : i \in ids}
  /\ Dated(b) /\ InOrder(b)
  /\ ids # {} => b # <<>> /\ \E i \in ids : FirstOf(s, ids, i) /\ b[1] = s[i]
  /\ ids = {} => b = <<>>
LEMMA ByTimeFacts ==
  ASSUME NEW s, IsSeq(s), Dated(s), NEW ids, ids \subseteq 1..Len(s)
  PROVE  ListsByTime(s, ids, ByTime(s, ids))
<1>1. PICK c \in Nat : c = Cardinality(ids) /\ IsFiniteSet(ids)
  BY FewIds
<1>2. PICK p : Sorts(s, ids, c, p)
  BY <1>1, Sorted
<1>3. PICK b : b = [n \in 1..c |-> s[p[n]]] /\ b = ByTime(s, ids)
  BY <1>2 DEF Sorts
<1>4. \A n \in 1..c : p[n] \in ids /\ b[n] = s[p[n]]
  BY <1>2, <1>3 DEF Sorts
<1>5. \A i \in ids : s[i].at \in Int /\ i \in Int /\ i \in 1..Len(s)
  BY FewIds DEF Dated
<1>6. b \in Seq({s[i] : i \in ids}) /\ Len(b) = c /\ DOMAIN b = 1..c
  BY <1>3, <1>4
<1>7. IsSeq(b) /\ ToSet(b) = {b[n] : n \in 1..c}
  BY <1>6, SeqElements
<1>8. ToSet(b) = {s[i] : i \in ids}
  <2>1. ASSUME NEW i \in ids PROVE \E n \in 1..c : b[n] = s[i]
    <3>1. PICK n \in 1..c : p[n] = i
      BY <1>2 DEF Sorts
    <3> QED BY <1>4, <3>1
  <2>2. \A n \in 1..c : b[n] \in {s[i] : i \in ids}
    BY <1>4
  <2>3. {s[i] : i \in ids} \subseteq {b[n] : n \in 1..c}
    BY <2>1
  <2> QED BY <1>7, <2>2, <2>3
<1>9. Dated(b)
  BY <1>4, <1>5, <1>6 DEF Dated
<1>10. InOrder(b)
  <2> SUFFICES ASSUME NEW m \in 1..c, NEW n \in 1..c, m <= n PROVE b[m].at <= b[n].at
    BY <1>6 DEF InOrder
  <2>1. PICK i \in ids, j \in ids : i = p[m] /\ j = p[n] /\ b[m] = s[i] /\ b[n] = s[j]
    BY <1>4
  <2>2. CASE m = n
    BY <1>5, <2>1, <2>2
  <2>3. CASE m # n
    <3>1. Before(s, i, j)
      BY <1>2, <2>1, <2>3 DEF Sorts
    <3> QED BY <1>5, <2>1, <3>1 DEF Before
  <2> QED BY <2>2, <2>3
<1>11. ASSUME ids # {} PROVE b # <<>> /\ \E i \in ids : FirstOf(s, ids, i) /\ b[1] = s[i]
  <2>1. c > 0
    <3>1. c # 0
      BY <1>1, <1>11, FS_EmptySet
    <3> QED BY <3>1
  <2>2. 1 \in 1..c
    BY <2>1
  <2>3. PICK i \in ids : i = p[1] /\ b[1] = s[i]
    BY <1>4, <2>2
  <2>4. ASSUME NEW j \in ids PROVE Before(s, i, j)
    <3>1. PICK n \in 1..c : p[n] = j
      BY <1>2 DEF Sorts
    <3>2. CASE n = 1
      BY <1>5, <2>3, <3>1, <3>2 DEF Before
    <3>3. CASE n # 1
      BY <1>2, <2>2, <2>3, <3>1, <3>3 DEF Sorts
    <3> QED BY <3>2, <3>3
  <2>5. b # <<>>
    BY <1>6, <2>1
  <2> QED BY <2>3, <2>4, <2>5 DEF FirstOf
<1>12. ASSUME ids = {} PROVE b = <<>>
  <2>1. c = 0
    BY <1>1, <1>12, FS_EmptySet
  <2> QED BY <1>6, <2>1
<1> QED BY <1>1, <1>3, <1>6, <1>7, <1>8, <1>9, <1>10, <1>11, <1>12 DEF ListsByTime

---------------------------------------------------------------------------
(* The views of a series.                                                  *)
LEMMA TailOf ==
  ASSUME NEW s, IsSeq(s), NEW k \in Nat, k > 0
  PROVE  /\ IsSuffix(LastOf(s, k), s)
         /\ Len(LastOf(s, k)) = IF Len(s) < k THEN Len(s) ELSE k
<1>1. PICK n \in Nat : n = Len(s) /\ \A i \in 1..n : s[i] \in ToSet(s)
  BY SeqElements DEF IsSeq
<1>2. PICK m \in Nat : m = IF n < k THEN n ELSE k
  BY <1>1
<1>3. m <= n
  BY <1>2
<1>4. PICK t : t = LastOf(s, k)
  OBVIOUS
<1>5. Len(t) = m /\ \A i \in 1..m : t[i] = s[n - m + i]
  <2>1. CASE n <= k
    <3>1. t = s /\ m = n
      BY <1>1, <1>2, <1>4, <2>1 DEF LastOf
    <3>2. \A i \in 1..m : n - m + i = i
      BY <3>1
    <3> QED BY <1>1, <3>1, <3>2
  <2>2. CASE n > k
    <3>1. t = SubSeq(s, n - k + 1, n) /\ m = k
      BY <1>1, <1>2, <1>4, <2>2 DEF LastOf
    <3>2. n - k + 1 \in Int /\ n \in Int /\ n - k + 1 \in 1..n /\ n - (n - k + 1) + 1 = k
      BY <2>2
    <3>3. \A i \in (n - k + 1)..n : s[i] \in ToSet(s)
      BY <1>1, <3>2
    <3>4. Len(t) = k /\ \A i \in 1..k : t[i] = s[(n - k + 1) + i - 1]
      BY <3>1, <3>2, <3>3, SubSeqProperties
    <3>5. \A i \in 1..k : (n - k + 1) + i - 1 = n - k + i
      OBVIOUS
    <3> QED BY <3>1, <3>4, <3>5
  <2> QED BY <2>1, <2>2
<1>6. PICK a, b : a = Reverse(t) /\ b = Reverse(s)
  OBVIOUS
<1>7. a = [i \in 1..m |-> t[m - i + 1]] /\ b = [i \in 1..n |-> s[n - i + 1]]
  BY <1>1, <1>5, <1>6 DEF Reverse
<1>8. \A i \in 1..m : m - i + 1 \in 1..m /\ n - m + (m - i + 1) = n - i + 1 /\ i \in 1..n
  BY <1>3
<1>9. ASSUME NEW i \in 1..m PROVE a[i] = b[i]
  <2>1. a[i] = t[m - i + 1] /\ b[i] = s[n - i + 1]
    BY <1>7, <1>8
  <2>2. t[m - i + 1] = s[n - m + (m - i + 1)]
    BY <1>5, <1>8
  <2> QED BY <1>8, <2>1, <2>2
<1>10. \A i \in 1..n : b[i] \in ToSet(s)
  <2>1. \A i \in 1..n : n - i + 1 \in 1..n
    OBVIOUS
  <2> QED BY <1>1, <1>7, <2>1
<1>11. \A i \in 1..m : a[i] \in ToSet(s) /\ b[i] \in ToSet(s)
  BY <1>8, <1>9, <1>10
<1>12. Len(a) = m /\ Len(b) = n
  BY <1>7
<1>13. /\ SubSeq(a, 1, m) \in Seq(ToSet(s)) /\ Len(SubSeq(a, 1, m)) = m
       /\ \A i \in 1..m : SubSeq(a, 1, m)[i] = a[i]
  <2>1. 1 \in Int /\ m \in Int /\ m - 1 + 1 = m /\ (IF 1 <= m THEN m - 1 + 1 ELSE 0) = m
    OBVIOUS
  <2>2. /\ SubSeq(a, 1, m) \in Seq(ToSet(s)) /\ Len(SubSeq(a, 1, m)) = m
        /\ \A i \in 1..m : SubSeq(a, 1, m)[i] = a[1 + i - 1]
    BY <1>11, <2>1, SubSeqProperties
  <2>3. \A i \in 1..m : 1 + i - 1 = i
    OBVIOUS
  <2> QED BY <2>2, <2>3
<1>14. /\ SubSeq(b, 1, m) \in Seq(ToSet(s)) /\ Len(SubSeq(b, 1, m)) = m
       /\ \A i \in 1..m : SubSeq(b, 1, m)[i] = b[i]
  <2>1. 1 \in Int /\ m \in Int /\ m - 1 + 1 = m /\ (IF 1 <= m THEN m - 1 + 1 ELSE 0) = m
    OBVIOUS
  <2>2. /\ SubSeq(b, 1, m) \in Seq(ToSet(s)) /\ Len(SubSeq(b, 1, m)) = m
        /\ \A i \in 1..m : SubSeq(b, 1, m)[i] = b[1 + i - 1]
    BY <1>11, <2>1, SubSeqProperties
  <2>3. \A i \in 1..m : 1 + i - 1 = i
    OBVIOUS
  <2> QED BY <2>2, <2>3
<1>15. SubSeq(a, 1, m) = SubSeq(b, 1, m)
  <2>1. PICK x, y : x = SubSeq(a, 1, m) /\ y = SubSeq(b, 1, m)
    OBVIOUS
  <2>2. x \in Seq(ToSet(s)) /\ y \in Seq(ToSet(s)) /\ Len(x) = m /\ Len(y) = m
    BY <1>13, <1>14, <2>1
  <2>3. \A i \in 1..m : x[i] = y[i]
    BY <1>9, <1>13, <1>14, <2>1
  <2> QED BY <2>1, <2>2, <2>3, SeqEqual
<1>16. IsPrefix(a, b)
  BY <1>3, <1>12, <1>15 DEF IsPrefix
<1>17. IsSuffix(t, s)
  BY <1>6, <1>16 DEF IsSuffix
<1> QED BY <1>1, <1>2, <1>4, <1>5, <1>17

LEMMA Viewed ==
  ASSUME NEW all, IsSeq(all), NEW window, IsSeq(window), NEW k \in Nat, k > 0,
         Len(window) <= 2 * k, ToSet(window) \subseteq ToSet(all),
         all # <<>> => window # <<>> /\ window[1] = all[1]
  PROVE  ViewsOf(all, window, LastOf(all, k), k)
<1>1. all # <<>> => Head(window) = Head(all)
  <2>1. all # <<>> => Head(all) = all[1]
    BY DEF IsSeq
  <2>2. window # <<>> => Head(window) = window[1]
    BY DEF IsSeq
  <2> QED BY <2>1, <2>2
<1>2. IsSuffix(LastOf(all, k), all) /\ Len(LastOf(all, k)) = IF Len(all) < k THEN Len(all) ELSE k
  BY TailOf
<1> QED BY <1>1, <1>2 DEF ViewsOf

(* The buckets of a window: no more than twice the points asked for.       *)
LEMMA Scaled ==
  ASSUME NEW m \in Nat, NEW x \in Int, NEW y \in Int, x <= y
  PROVE  m * x \in Int /\ m * y \in Int /\ m * x <= m * y
OBVIOUS

LEMMA BucketNumber ==
  ASSUME NEW from \in Int, NEW to \in Int, NEW k \in Nat, k > 0, NEW at \in Int, from <= at, at <= to
  PROVE  (at - from) \div bucketSize(from, to, k) \in 0..(2 * k - 1)
<1>1. PICK span \in Nat : span = to - from
  <2>1. to - from \in Nat
    OBVIOUS
  <2> QED BY <2>1
<1>2. PICK w \in Nat : w = span \div k /\ k * w \in Int /\ k * w <= span /\ span < k * w + k
  <2>1. span \div k \in Nat /\ k * (span \div k) \in Int /\ k * (span \div k) <= span
        /\ span < k * (span \div k) + k
    BY <1>1, Quotient
  <2> QED BY <2>1
<1>3. PICK size : size = bucketSize(from, to, k)
  OBVIOUS
<1>4. size = IF span < 1 \/ w <= 1 THEN 1 ELSE w
  <2>1. ~(k < 1)
    OBVIOUS
  <2> QED BY <1>1, <1>2, <1>3, <2>1 DEF bucketSize
<1>5. size \in Nat /\ size > 0 /\ size * (2 * k) \in Int
  BY <1>4
<1>6. span < size * (2 * k)
  <2>1. CASE span < 1
    <3>1. size = 1
      BY <1>4, <2>1
    <3> QED BY <2>1, <3>1
  <2>2. CASE w <= 1
    <3>1. size = 1
      BY <1>4, <2>2
    <3>2. k * w <= k * 1
      BY <2>2, Scaled
    <3> QED BY <1>2, <3>1, <3>2
  <2>3. CASE ~(span < 1 \/ w <= 1)
    <3>1. size = w
      BY <1>4, <2>3
    <3>2. k * 1 <= k * w
      BY <2>3, Scaled
    <3>3. w * (2 * k) = k * w + k * w
      OBVIOUS
    <3> QED BY <1>2, <3>1, <3>2, <3>3
  <2> QED BY <2>1, <2>2, <2>3
<1>7. PICK q : q = (at - from) \div size
  OBVIOUS
<1>8. PICK x \in Nat : x = at - from /\ x <= span
  <2>1. at - from \in Nat /\ at - from <= span
    BY <1>1
  <2> QED BY <2>1
<1>9. q \in Nat /\ size * q \in Int /\ size * q <= x
  <2>1. x \div size \in Nat /\ size * (x \div size) \in Int /\ size * (x \div size) <= x
    BY <1>5, Quotient
  <2> QED BY <1>7, <1>8, <2>1
<1>10. ASSUME q >= 2 * k PROVE FALSE
  <2>1. size * (2 * k) <= size * q
    BY <1>5, <1>9, <1>10, Scaled
  <2> QED BY <1>5, <1>6, <1>8, <1>9, <2>1
<1>11. q \in 0..(2 * k - 1)
  BY <1>9, <1>10
<1> QED BY <1>3, <1>7, <1>11

(* Rows whose buckets all differ are no more than the buckets.             *)
LEMMA OnePerBucket ==
  ASSUME NEW from \in Int, NEW to \in Int, NEW k \in Nat, k > 0, NEW s, NEW ids, IsFiniteSet(ids),
         \A i \in ids : s[i].at \in Int /\ from <= s[i].at /\ s[i].at <= to,
         \A i, j \in ids : (s[i].at - from) \div bucketSize(from, to, k)
                             = (s[j].at - from) \div bucketSize(from, to, k) => i = j
  PROVE  Cardinality(ids) <= 2 * k
<1>1. PICK bucket : bucket = [i \in ids |-> (s[i].at - from) \div bucketSize(from, to, k)]
  OBVIOUS
<1>2. \A i \in ids : bucket[i] \in 0..(2 * k - 1)
  BY <1>1, BucketNumber
<1>3. bucket \in Injection(ids, 0..(2 * k - 1))
  BY <1>1, <1>2 DEF Injection, IsInjective
<1>4. IsFiniteSet(0..(2 * k - 1)) /\ Cardinality(0..(2 * k - 1)) = 2 * k
  BY FS_Interval
<1> QED BY <1>3, <1>4, FS_Injection

(* The window and the limited history of one series, over its rows of one  *)
(* node and key.                                                           *)
LEMMA SeriesViewed ==
  ASSUME NEW d, NEW t, IsSeq(d[t]), Dated(d[t]), InOrder(d[t]), NEW node, NEW key,
         NEW from \in Int, NEW to \in Int, NEW k \in Nat, k > 0,
         \A i \in 1..Len(d[t]) : d[t][i].at <= to
  PROVE  ViewsOf(Recent(d, t, node, key, from, 0), Decimate(d, t, node, key, from, to, k),
                 LastOf(Recent(d, t, node, key, from, 0), k), k)
<1>1. PICK s : s = d[t]
  OBVIOUS
<1>2. IsSeq(s) /\ Dated(s) /\ InOrder(s) /\ Len(s) \in Nat /\ DOMAIN s = 1..Len(s)
  BY <1>1, SeqElements DEF IsSeq
<1>3. PICK ids : ids = {i \in 1..Len(s) : s[i].node = node /\ s[i].key = key /\ s[i].at >= from}
  OBVIOUS
<1>4. PICK all : all = ByTime(s, ids)
  OBVIOUS
<1>5. Recent(d, t, node, key, from, 0) = all
  BY <1>1, <1>2, <1>3, <1>4 DEF Recent, LastOf
<1>6. Between(d, t, node, key, from, to) = ids
  BY <1>1, <1>2, <1>3 DEF Between
<1>7. PICK size : size = bucketSize(from, to, k)
  OBVIOUS
<1>8. PICK few : few = {i \in ids : \A j \in ids :
                          (s[j].at - from) \div size = (s[i].at - from) \div size => i <= j}
  OBVIOUS
<1>9. PICK window : window = ByTime(s, few)
  OBVIOUS
<1>10. Decimate(d, t, node, key, from, to, k) = window
  BY <1>1, <1>6, <1>7, <1>8, <1>9 DEF Decimate
<1>11. ids \subseteq 1..Len(s) /\ few \subseteq ids /\ few \subseteq 1..Len(s)
  BY <1>3, <1>8
<1>12. ListsByTime(s, ids, all) /\ ListsByTime(s, few, window)
  BY <1>2, <1>4, <1>9, <1>11, ByTimeFacts
<1>13. \A i \in ids : s[i].at \in Int /\ i \in Int /\ from <= s[i].at /\ s[i].at <= to
  BY <1>1, <1>2, <1>3 DEF Dated
<1>14. Cardinality(few) <= 2 * k
  <2>1. IsFiniteSet(few)
    BY <1>2, <1>11, FewIds
  <2>2. ASSUME NEW i \in few, NEW j \in few,
               (s[i].at - from) \div size = (s[j].at - from) \div size
        PROVE  i = j
    <3>1. i <= j /\ j <= i
      BY <1>8, <2>2
    <3> QED BY <1>11, <1>13, <3>1
  <2>3. \A i, j \in few : (s[i].at - from) \div bucketSize(from, to, k)
                           = (s[j].at - from) \div bucketSize(from, to, k) => i = j
    BY <1>7, <2>2
  <2>4. \A i \in few : s[i].at \in Int /\ from <= s[i].at /\ s[i].at <= to
    BY <1>11, <1>13
  <2> QED BY <2>1, <2>3, <2>4, OnePerBucket
<1>15. ToSet(window) \subseteq ToSet(all)
  BY <1>11, <1>12 DEF ListsByTime
<1>16. ASSUME all # <<>> PROVE window # <<>> /\ window[1] = all[1]
  <2>1. ids # {}
    BY <1>12, <1>16 DEF ListsByTime
  <2>2. PICK i \in ids : FirstOf(s, ids, i) /\ all[1] = s[i]
    BY <1>12, <2>1 DEF ListsByTime
  <2>3. i \in few
    <3> SUFFICES ASSUME NEW j \in ids PROVE i <= j
      BY <1>8
    <3>1. Before(s, i, j)
      BY <2>2 DEF FirstOf
    <3>2. s[j].at < s[i].at => ~Before(s, i, j)
      BY <1>13 DEF Before
    <3>3. j < i => s[j].at <= s[i].at
      BY <1>2, <1>11, <1>13 DEF InOrder
    <3> QED BY <1>13, <3>1, <3>3 DEF Before
  <2>4. PICK j \in few : FirstOf(s, few, j) /\ window[1] = s[j] /\ window # <<>>
    BY <1>12, <2>3 DEF ListsByTime
  <2>5. Before(s, i, j) /\ Before(s, j, i)
    BY <1>11, <2>2, <2>3, <2>4 DEF FirstOf
  <2>6. i = j
    BY <1>11, <1>13, <2>3, <2>4, <2>5 DEF Before
  <2> QED BY <2>2, <2>4, <2>6
<1>17. IsSeq(all) /\ IsSeq(window) /\ Len(window) <= 2 * k
  BY <1>12, <1>14 DEF ListsByTime
<1> QED BY <1>5, <1>10, <1>15, <1>16, <1>17, Viewed

---------------------------------------------------------------------------
(* Throughput: one point for every time, of the rows of every device.      *)
FirstIds(s, times) == {i \in 1..Len(s) : s[i].at \in times /\ \A j \in 1..(i - 1) : s[j].at # s[i].at}
PointsOf(s, times, v, b) ==
  /\ IsSeq(b) /\ Len(b) = Cardinality(FirstIds(s, times))
  /\ ToSet(b) = {[at |-> x, val |-> v[x]] : x \in times}
  /\ times = {} => b = <<>>
  /\ times # {} => /\ b # <<>>
                   /\ \E x \in times : /\ \A y \in times : x <= y
                                       /\ b[1] = [at |-> x, val |-> v[x]]
LEMMA EveryTime ==
  ASSUME NEW s, IsSeq(s), NEW times, times \subseteq {s[i].at : i \in 1..Len(s)}, NEW x \in times
  PROVE  \E i \in FirstIds(s, times) : s[i].at = x
<1>1. PICK n \in Nat : n = Len(s)
  BY SeqElements DEF IsSeq
<1>2. PICK S : S = {i \in 1..n : s[i].at = x}
  OBVIOUS
<1>3. S # {} /\ S \subseteq Nat
  BY <1>1, <1>2
<1>4. PICK i \in S : \A j \in S : i <= j
  BY <1>3, LeastOf
<1>5. ASSUME NEW j \in 1..(i - 1) PROVE s[j].at # s[i].at
  <2>1. j \in 1..n /\ j < i /\ i \in Nat
    BY <1>2, <1>4
  <2>2. ~(i <= j)
    BY <2>1
  <2> QED BY <1>2, <1>4, <2>1, <2>2
<1>6. i \in FirstIds(s, times) /\ s[i].at = x
  BY <1>1, <1>2, <1>4, <1>5 DEF FirstIds
<1> QED BY <1>6

LEMMA IOPointsFacts ==
  ASSUME NEW s, IsSeq(s), Dated(s), NEW times, times \subseteq {s[i].at : i \in 1..Len(s)}, NEW v,
         \A x \in times : v[x] = SumOf(Keep(s, {r \in ToSet(s) : r.at = x}))
  PROVE  PointsOf(s, times, v, IOPoints(s, times))
<1>1. PICK ids : ids = FirstIds(s, times)
  OBVIOUS
<1>2. PICK b : b = ByTime(s, ids)
  OBVIOUS
<1>3. ids \subseteq 1..Len(s) /\ \A i \in ids : s[i].at \in times /\ s[i].at \in Int /\ i \in Int
  BY <1>1, FewIds DEF FirstIds, Dated
<1>4. ListsByTime(s, ids, b)
  BY <1>2, <1>3, ByTimeFacts
<1>5. PICK c : c = IOPoints(s, times)
  OBVIOUS
<1>6. DOMAIN s = 1..Len(s) /\ DOMAIN b = 1..Len(b) /\ Len(b) \in Nat
      /\ \A n \in 1..Len(b) : b[n] \in ToSet(b)
  BY <1>4, SeqElements DEF ListsByTime, IsSeq
<1>7. c = [n \in 1..Len(b) |-> [at |-> b[n].at,
                                val |-> SumOf(Keep(s, {r \in ToSet(s) : r.at = b[n].at}))]]
  BY <1>1, <1>2, <1>5, <1>6 DEF IOPoints, FirstIds
<1>8. ASSUME NEW n \in 1..Len(b)
      PROVE  b[n].at \in times /\ c[n] = [at |-> b[n].at, val |-> v[b[n].at]]
  <2>1. b[n].at \in times
    BY <1>3, <1>4, <1>6 DEF ListsByTime
  <2> QED BY <1>7, <2>1
<1>9. ASSUME NEW x \in times
      PROVE  \E n \in 1..Len(b) : c[n] = [at |-> x, val |-> v[x]]
  <2>1. PICK i \in ids : s[i].at = x
    BY <1>1, EveryTime
  <2>2. s[i] \in ToSet(b)
    BY <1>4 DEF ListsByTime
  <2>3. PICK n \in 1..Len(b) : b[n] = s[i]
    <3>1. ToSet(b) = {b[n] : n \in 1..Len(b)}
      BY <1>4, SeqElements DEF ListsByTime, IsSeq
    <3> QED BY <2>2, <3>1
  <2> QED BY <1>8, <2>1, <2>3
<1>10. PICK T : T = {[at |-> x, val |-> v[x]] : x \in times}
  OBVIOUS
<1>11. c \in Seq(T) /\ Len(c) = Len(b)
  <2>1. \A n \in 1..Len(b) : c[n] \in T
    BY <1>8, <1>10
  <2> QED BY <1>6, <1>7, <2>1
<1>12. IsSeq(c) /\ ToSet(c) = {c[n] : n \in 1..Len(b)}
  BY <1>11, SeqElements
<1>13. ToSet(c) = T
  <2>1. T \subseteq {c[n] : n \in 1..Len(b)}
    BY <1>9, <1>10
  <2>2. ToSet(c) \subseteq T
    BY <1>11, SeqElements
  <2> QED BY <1>12, <2>1, <2>2
<1>14. ASSUME times = {} PROVE c = <<>>
  <2>1. ids = {}
    BY <1>3, <1>14
  <2>2. b = <<>>
    BY <1>4, <2>1 DEF ListsByTime
  <2> QED BY <1>11, <2>2
<1>15. ASSUME times # {}
       PROVE  c # <<>> /\ \E x \in times : /\ \A y \in times : x <= y
                                           /\ c[1] = [at |-> x, val |-> v[x]]
  <2>1. ids # {}
    BY <1>1, <1>15, EveryTime
  <2>2. PICK i \in ids : FirstOf(s, ids, i) /\ b[1] = s[i] /\ b # <<>>
    BY <1>4, <2>1 DEF ListsByTime
  <2>3. 1 \in 1..Len(b)
    <3>1. Len(b) # 0
      BY <1>4, <2>2 DEF ListsByTime, IsSeq
    <3> QED BY <1>6, <3>1
  <2>4. c # <<>>
    BY <1>11, <2>3
  <2>5. ASSUME NEW y \in times PROVE s[i].at <= y
    <3>1. PICK j \in ids : s[j].at = y
      BY <1>1, EveryTime
    <3>2. Before(s, i, j)
      BY <2>2 DEF FirstOf
    <3> QED BY <1>3, <3>1, <3>2 DEF Before
  <2> QED BY <1>3, <1>8, <2>2, <2>3, <2>4, <2>5
<1> QED BY <1>1, <1>4, <1>5, <1>10, <1>11, <1>12, <1>13, <1>14, <1>15 DEF PointsOf, ListsByTime

(* The laws of Keep a view needs: what it keeps of ordered rows is ordered. *)
LEMMA KeepsOrder ==
  ASSUME NEW s, IsSeq(s), Dated(s), InOrder(s), NEW rows
  PROVE  Dated(Keep(s, rows)) /\ InOrder(Keep(s, rows))
<1>1. PICK n \in Nat : n = Len(s) /\ ToSet(s) = {s[i] : i \in 1..n}
  BY SeqElements DEF IsSeq
<1>2. PICK f : SoFar(s, rows, f)
  BY KeptSoFar
<1>3. \A i \in 1..n : s[i].at \in Int
  BY <1>1 DEF Dated
<1> DEFINE Good(i) == Dated(f[i]) /\ InOrder(f[i])
           Bad == {i \in 0..n : ~Good(i)}
<1>4. \A i \in 0..n : f[i] \in Seq(ToSet(s)) /\ ToSet(f[i]) = {s[j] : j \in 1..i} \cap rows
  BY <1>1, <1>2 DEF SoFar, KeptOf
<1>5. Good(0)
  <2>0. 0 \in 0..n
    BY <1>1
  <2>1. PICK g : g = f[0] /\ g \in Seq(ToSet(s)) /\ ToSet(g) \subseteq {s[j] : j \in 1..0}
    BY <1>4, <2>0
  <2>2. Len(g) \in Nat /\ ToSet(g) = {g[j] : j \in 1..Len(g)}
    BY <2>1, SeqElements
  <2>3. ASSUME NEW j \in 1..Len(g) PROVE FALSE
    <3>1. g[j] \in {s[i] : i \in 1..0}
      BY <2>1, <2>2
    <3>2. PICK i \in 1..0 : TRUE
      BY <3>1
    <3> QED BY <3>2
  <2> QED BY <2>1, <2>3 DEF Dated, InOrder
<1>6. ASSUME NEW i \in 1..n, Good(i - 1) PROVE Good(i)
  <2>1. i - 1 \in 0..n /\ i \in 0..n
    BY <1>6
  <2>2. PICK g : g = f[i - 1] /\ g \in Seq(ToSet(s))
    BY <1>4, <2>1
  <2>3. PICK m \in Nat : m = Len(g) /\ ToSet(g) = {g[j] : j \in 1..m}
    BY <2>2, SeqElements
  <2>4. \A j \in 1..m : g[j].at \in Int /\ g[j].at <= s[i].at
    <3> SUFFICES ASSUME NEW j \in 1..m PROVE g[j].at \in Int /\ g[j].at <= s[i].at
      OBVIOUS
    <3>1. g[j] \in {s[k] : k \in 1..(i - 1)}
      BY <1>4, <2>1, <2>2, <2>3
    <3>2. PICK k \in 1..(i - 1) : g[j] = s[k]
      BY <3>1
    <3>3. k \in 1..n /\ k <= i
      BY <1>6
    <3> QED BY <1>1, <1>3, <3>2, <3>3 DEF InOrder
  <2>5. CASE s[i] \in rows
    <3>1. f[i] = Append(g, s[i])
      BY <1>1, <1>2, <2>2, <2>5 DEF SoFar, KeptNext
    <3>0. s[i] \in ToSet(s) /\ 1..Len(g) = 1..m
      BY <1>1, <2>3
    <3>2. PICK h : h = f[i] /\ Len(h) = m + 1 /\ h[m + 1] = s[i] /\ \A j \in 1..m : h[j] = g[j]
      <4>1. /\ Len(Append(g, s[i])) = Len(g) + 1 /\ Append(g, s[i])[Len(g) + 1] = s[i]
            /\ \A j \in 1..Len(g) : Append(g, s[i])[j] = g[j]
        BY <2>2, <3>0, AppendProperties
      <4> QED BY <2>3, <3>0, <3>1, <4>1
    <3>3. \A j \in 1..(m + 1) : j \in 1..m \/ j = m + 1
      OBVIOUS
    <3>4. \A j \in 1..(m + 1) : h[j].at \in Int /\ h[j].at <= s[i].at
      BY <1>3, <2>4, <3>2, <3>3
    <3>5. \A j, k \in 1..m : j <= k => h[j].at <= h[k].at
      <4>1. \A j, k \in 1..Len(g) : j <= k => g[j].at <= g[k].at
        BY <1>6, <2>2 DEF InOrder
      <4> QED BY <2>3, <3>0, <3>2, <4>1
    <3>6. ASSUME NEW j \in 1..(m + 1), NEW k \in 1..(m + 1), j <= k PROVE h[j].at <= h[k].at
      <4>1. CASE k = m + 1
        BY <3>2, <3>4, <4>1
      <4>2. CASE k # m + 1
        <5>1. j \in 1..m /\ k \in 1..m
          BY <3>6, <4>2
        <5> QED BY <3>5, <3>6, <5>1
      <4> QED BY <4>1, <4>2
    <3> QED BY <3>2, <3>4, <3>6 DEF Dated, InOrder
  <2>6. CASE s[i] \notin rows
    <3>1. f[i] = g
      BY <1>1, <1>2, <2>2, <2>6 DEF SoFar, KeptNext
    <3> QED BY <1>6, <2>2, <3>1
  <2> QED BY <2>5, <2>6
<1>7. ASSUME Bad # {} PROVE FALSE
  <2>1. Bad \subseteq Nat
    OBVIOUS
  <2>2. PICK i \in Bad : \A m \in Bad : i <= m
    <3> HIDE DEF Bad
    <3> QED BY <1>7, <2>1, LeastOf
  <2>3. i \in 0..n /\ ~Good(i)
    BY <2>2
  <2>4. i # 0
    BY <1>5, <2>3
  <2>5. i \in 1..n /\ i - 1 \in 0..n /\ i - 1 < i
    BY <2>3, <2>4
  <2>6. i - 1 \notin Bad
    <3> HIDE DEF Bad
    <3> QED BY <2>2, <2>5
  <2>7. Good(i - 1)
    BY <2>5, <2>6
  <2> QED BY <1>6, <2>3, <2>5, <2>7
<1>8. Good(n)
  <2>1. n \in 0..n
    BY <1>1
  <2> QED BY <1>7, <2>1
<1>9. Keep(s, rows) = f[n]
  BY <1>1, <1>2 DEF SoFar
<1> QED BY <1>8, <1>9

LEMMA KeepsDates ==
  ASSUME NEW s, IsSeq(s), Dated(s), NEW rows
  PROVE  IsSeq(Keep(s, rows)) /\ Dated(Keep(s, rows))
<1>1. PICK k : k = Keep(s, rows)
  OBVIOUS
<1>2. IsSeq(k) /\ ToSet(k) = ToSet(s) \cap rows
  BY <1>1, KeepFacts
<1>3. ToSet(s) = {s[i] : i \in 1..Len(s)} /\ ToSet(k) = {k[i] : i \in 1..Len(k)}
  BY <1>2, SeqElements DEF IsSeq
<1>4. \A x \in ToSet(s) : x.at \in Int
  BY <1>3 DEF Dated
<1>5. \A i \in 1..Len(k) : k[i] \in ToSet(s)
  BY <1>2, <1>3
<1> QED BY <1>1, <1>2, <1>4, <1>5 DEF Dated

LEMMA ThroughputViewed ==
  ASSUME NEW d, IsSeq(d["disk_io_sample"]), Dated(d["disk_io_sample"]), NEW node,
         NEW from \in Int, NEW to \in Int, NEW k \in Nat, k > 0,
         \A r \in ToSet(d["disk_io_sample"]) : r.at <= to
  PROVE  ViewsOf(DiskIOHistory(d, node, from, 0), DiskIOWindow(d, node, from, to, k),
                 DiskIOHistory(d, node, from, k), k)
<1>1. PICK own : own = IORows(d, node)
  OBVIOUS
<1>2. IsSeq(own) /\ Dated(own) /\ \A r \in ToSet(own) : r.at <= to
  <2>1. PICK s : s = d["disk_io_sample"]
    OBVIOUS
  <2>2. own = Keep(s, {r \in ToSet(s) : r.node = node})
    BY <1>1, <2>1 DEF IORows
  <2>3. IsSeq(own) /\ Dated(own)
    BY <2>1, <2>2, KeepsDates
  <2>4. ToSet(own) \subseteq ToSet(s)
    BY <2>1, <2>2, KeepFacts
  <2> QED BY <2>1, <2>3, <2>4
<1>3. PICK s : s = Keep(own, {r \in ToSet(own) : r.at >= from})
  OBVIOUS
<1>4. s = Keep(own, {r \in ToSet(own) : r.at >= from /\ r.at <= to})
  <2>1. {r \in ToSet(own) : r.at >= from} = {r \in ToSet(own) : r.at >= from /\ r.at <= to}
    BY <1>2
  <2> QED BY <1>3, <2>1
<1>5. IsSeq(s) /\ Dated(s)
  BY <1>2, <1>3, KeepsDates
<1>6. ToSet(s) = {s[i] : i \in 1..Len(s)} /\ Len(s) \in Nat
  BY <1>5, SeqElements DEF IsSeq
<1>7. \A i \in 1..Len(s) : s[i].at \in Int /\ from <= s[i].at /\ s[i].at <= to
  <2>1. ToSet(s) = ToSet(own) \cap {r \in ToSet(own) : r.at >= from}
    BY <1>2, <1>3, KeepFacts
  <2>2. \A r \in ToSet(s) : r.at >= from /\ r.at <= to
    BY <1>2, <2>1
  <2>3. \A i \in 1..Len(s) : s[i].at \in Int
    BY <1>5 DEF Dated
  <2>4. \A i \in 1..Len(s) : s[i].at >= from /\ s[i].at <= to
    BY <1>6, <2>2
  <2> QED BY <2>3, <2>4
<1>8. PICK times : times = {r.at : r \in ToSet(s)}
  OBVIOUS
<1>9. times = {s[i].at : i \in 1..Len(s)} /\ \A x \in times : x \in Int
  <2>1. times = {s[i].at : i \in 1..Len(s)}
    BY <1>6, <1>8
  <2> QED BY <1>7, <2>1
<1>10. PICK size : size = bucketSize(from, to, k)
  OBVIOUS
<1>11. PICK few : few = {x \in times : \A y \in times :
                           (x - from) \div size = (y - from) \div size => x <= y}
  OBVIOUS
<1>12. PICK v : v = [x \in times |-> SumOf(Keep(s, {r \in ToSet(s) : r.at = x}))]
  OBVIOUS
<1>13. PICK all, window : all = IOPoints(s, times) /\ window = IOPoints(s, few)
  OBVIOUS
<1>14. few \subseteq times
  BY <1>11
<1>15. PointsOf(s, times, v, all) /\ PointsOf(s, few, v, window)
  <2>1. \A x \in times : v[x] = SumOf(Keep(s, {r \in ToSet(s) : r.at = x}))
    BY <1>12
  <2>2. PointsOf(s, times, v, IOPoints(s, times))
    BY <1>5, <1>9, <2>1, IOPointsFacts
  <2>3. \A x \in few : v[x] = SumOf(Keep(s, {r \in ToSet(s) : r.at = x}))
    BY <1>14, <2>1
  <2>4. few \subseteq {s[i].at : i \in 1..Len(s)}
    BY <1>9, <1>14
  <2>5. PointsOf(s, few, v, IOPoints(s, few))
    BY <1>5, <2>3, <2>4, IOPointsFacts
  <2> QED BY <1>13, <2>2, <2>5
<1>16. /\ DiskIOHistory(d, node, from, 0) = all
       /\ DiskIOHistory(d, node, from, k) = LastOf(all, k)
  <2>1. LastOf(all, 0) = all
    BY DEF LastOf
  <2> QED BY <1>1, <1>3, <1>8, <1>13, <2>1 DEF DiskIOHistory
<1>17. DiskIOWindow(d, node, from, to, k) = window
  BY <1>1, <1>4, <1>8, <1>10, <1>11, <1>13 DEF DiskIOWindow
<1>18. Len(window) <= 2 * k
  <2>1. PICK ids : ids = FirstIds(s, few)
    OBVIOUS
  <2>2. ids \subseteq 1..Len(s) /\ \A i \in ids : s[i].at \in few /\ i \in Int
    BY <1>6, <2>1 DEF FirstIds
  <2>3. IsFiniteSet(ids)
    BY <1>5, <2>2, FewIds
  <2>4. \A i \in ids : s[i].at \in Int /\ from <= s[i].at /\ s[i].at <= to
    BY <1>7, <2>2
  <2>5. ASSUME NEW i \in ids, NEW j \in ids,
               (s[i].at - from) \div size = (s[j].at - from) \div size
        PROVE  i = j
    <3>1. s[i].at <= s[j].at /\ s[j].at <= s[i].at
      BY <1>11, <2>2, <2>5
    <3>2. s[i].at = s[j].at
      BY <2>4, <3>1
    <3>3. ~(j \in 1..(i - 1)) /\ ~(i \in 1..(j - 1))
      BY <2>1, <3>2 DEF FirstIds
    <3>4. i \in Nat /\ j \in Nat /\ i >= 1 /\ j >= 1
      BY <1>6, <2>2
    <3> QED BY <3>3, <3>4
  <2>6. \A i, j \in ids : (s[i].at - from) \div bucketSize(from, to, k)
                          = (s[j].at - from) \div bucketSize(from, to, k) => i = j
    BY <1>10, <2>5
  <2>7. Cardinality(ids) <= 2 * k
    BY <2>3, <2>4, <2>6, OnePerBucket
  <2> QED BY <1>15, <2>1, <2>7 DEF PointsOf
<1>19. ToSet(window) \subseteq ToSet(all)
  BY <1>14, <1>15 DEF PointsOf
<1>20. ASSUME all # <<>> PROVE window # <<>> /\ window[1] = all[1]
  <2>1. times # {}
    BY <1>15, <1>20 DEF PointsOf
  <2>2. PICK x \in times : (\A y \in times : x <= y) /\ all[1] = [at |-> x, val |-> v[x]]
    BY <1>15, <2>1 DEF PointsOf
  <2>3. x \in few
    BY <1>11, <2>2
  <2>4. PICK z \in few : /\ \A y \in few : z <= y
                         /\ window[1] = [at |-> z, val |-> v[z]] /\ window # <<>>
    BY <1>15, <2>3 DEF PointsOf
  <2>5. x <= z /\ z <= x
    BY <1>14, <2>2, <2>3, <2>4
  <2>6. x = z
    BY <1>9, <1>14, <2>5
  <2> QED BY <2>2, <2>4, <2>6
<1>21. IsSeq(all) /\ IsSeq(window)
  BY <1>15 DEF PointsOf
<1>22. ViewsOf(all, window, LastOf(all, k), k)
  BY <1>18, <1>19, <1>20, <1>21, Viewed
<1> QED BY <1>16, <1>17, <1>22

---------------------------------------------------------------------------
(* Every series stays in the order of its rows' times.                     *)
Ordered(d) == /\ DOMAIN d = Tables
              /\ \A t \in SeriesTables : IsSeq(d[t]) /\ Dated(d[t]) /\ InOrder(d[t])
Adding(s, at, new) ==
  new = s \/ \E rows : IsSeq(rows) /\ new = s \o rows /\ \A r \in ToSet(rows) : r.at = at

LEMMA FineIsDated ==
  ASSUME NEW d, NEW top \in Int, NEW nodes, NEW keys, Fine(d, top, nodes, keys), NEW t \in SeriesTables
  PROVE  IsSeq(d[t]) /\ Dated(d[t]) /\ (\A r \in ToSet(d[t]) : r.at \in 0..top)
         /\ \A i \in 1..Len(d[t]) : d[t][i].at \in 0..top
<1>1. IsSeq(d[t]) /\ t \in Tables
  BY TableKinds DEF Fine
<1>2. RowsOf(d, t) = ToSet(d[t])
  BY <1>1, RowsOfKind
<1>3. \A r \in ToSet(d[t]) : r.at \in 0..top
  BY <1>1, <1>2 DEF Fine, RowFine
<1>4. \A i \in 1..Len(d[t]) : d[t][i] \in ToSet(d[t])
  BY <1>1, SeqElements DEF IsSeq
<1>5. \A i \in 1..Len(d[t]) : d[t][i].at \in 0..top
  BY <1>3, <1>4
<1>6. Dated(d[t])
  BY <1>5 DEF Dated
<1> QED BY <1>1, <1>3, <1>5, <1>6

LEMMA AddedInOrder ==
  ASSUME NEW s, IsSeq(s), Dated(s), InOrder(s), NEW at \in Int, \A i \in 1..Len(s) : s[i].at <= at,
         NEW new, Adding(s, at, new)
  PROVE  InOrder(new)
<1>1. CASE new = s
  BY <1>1
<1>2. ASSUME NEW rows, IsSeq(rows), new = s \o rows, \A r \in ToSet(rows) : r.at = at
      PROVE  InOrder(new)
  <2>1. PICK n \in Nat, m \in Nat : n = Len(s) /\ m = Len(rows)
    BY <1>2, SeqElements DEF IsSeq
  <2>2. \A i \in 1..m : rows[i] \in ToSet(rows)
    BY <1>2, <2>1, SeqElements DEF IsSeq
  <2>3. Len(new) = n + m /\ \A i \in 1..(n + m) : new[i] = IF i <= n THEN s[i] ELSE rows[i - n]
    BY <1>2, <2>1, Joined
  <2>4. \A i \in 1..(n + m) : i <= n => i \in 1..n /\ new[i] = s[i]
    BY <2>3
  <2>5. ASSUME NEW i \in 1..(n + m), ~(i <= n) PROVE new[i].at = at
    <3>1. i - n \in 1..m /\ new[i] = rows[i - n]
      BY <2>3, <2>5
    <3> QED BY <1>2, <2>2, <3>1
  <2>6. \A i \in 1..n : s[i].at \in Int /\ s[i].at <= at
    BY <2>1 DEF Dated
  <2>7. ASSUME NEW i \in 1..(n + m), NEW j \in 1..(n + m), i <= j PROVE new[i].at <= new[j].at
    <3>1. CASE j <= n
      <4>1. i <= n
        BY <2>7, <3>1
      <4> QED BY <2>1, <2>4, <2>7, <3>1, <4>1 DEF InOrder
    <3>2. CASE ~(j <= n) /\ i <= n
      BY <2>4, <2>5, <2>6, <3>2
    <3>3. CASE ~(j <= n) /\ ~(i <= n)
      BY <2>5, <3>3
    <3> QED BY <3>1, <3>2, <3>3
  <2> QED BY <2>3, <2>7 DEF InOrder
<1> QED BY <1>1, <1>2 DEF Adding

LEMMA UsageRows ==
  ASSUME NEW d, DOMAIN d = Tables, NEW rd, NEW at
  PROVE  \E e : /\ Writes(d, e, "disk_status") /\ e["disk_usage_sample"] = d["disk_usage_sample"]
                /\ sampleDisks(d, rd, at)["disk_usage_sample"]
                     = Insert(e, "disk_usage_sample",
                              SetToSeq(UnitSet(DOMAIN rd, at, rd)))["disk_usage_sample"]
<1>1. PICK rows : rows = {Row(Node, u, at, rd[u]) : u \in DOMAIN rd} /\ rows = UnitSet(DOMAIN rd, at, rd)
  BY DEF UnitSet
<1>2. PICK e1 : e1 = Upsert(d, "disk_status", rows)
  OBVIOUS
<1>3. PICK e2 : e2 = Insert(e1, "disk_usage_sample", SetToSeq(rows))
  OBVIOUS
<1>4. PICK e3 : e3 = DeleteDiskStatusesExcept(e2, Node, DOMAIN rd)
  OBVIOUS
<1>5. sampleDisks(d, rd, at) = e3
  BY <1>1, <1>2, <1>3, <1>4 DEF sampleDisks, UpsertDiskStatus, InsertDiskUsageSample
<1>6. /\ "disk_status" \in SnapshotTables /\ "disk_usage_sample" \in SeriesTables
      /\ "disk_usage_sample" \in Tables /\ "disk_usage_sample" # "disk_status"
  BY DEF SnapshotTables, SeriesTables, Tables
<1>7. Writes(d, e1, "disk_status")
  BY <1>2, <1>6, UpsertOp
<1>8. Writes(e1, e2, "disk_usage_sample")
  BY <1>3, <1>6, <1>7, InsertOp DEF Writes
<1>9. Writes(e2, e3, "disk_status")
  BY <1>4, <1>8, ExceptOp DEF Writes
<1>10. e3["disk_usage_sample"] = e2["disk_usage_sample"] /\ e1["disk_usage_sample"] = d["disk_usage_sample"]
  BY <1>6, <1>7, <1>9 DEF Writes
<1> QED BY <1>1, <1>3, <1>5, <1>7, <1>10

LEMMA SamplerAdds ==
  ASSUME NEW d, NEW h, NEW at, NEW failing, NEW nodes, NEW keys, Fine(d, at, nodes, keys),
         at \in Nat, HostOK(h)
  PROVE  /\ Adding(d["metric_sample"], at, sampled("metrics", failing, d, h, at)["metric_sample"])
         /\ Adding(d["disk_usage_sample"], at, sampled("disk", failing, d, h, at)["disk_usage_sample"])
         /\ Adding(d["net_sample"], at, sampled("net", failing, d, h, at)["net_sample"])
         /\ Adding(d["cpu_state_sample"], at, sampled("cpu", failing, d, h, at)["cpu_state_sample"])
         /\ Adding(d["disk_io_sample"], at, sampled("diskio", failing, d, h, at)["disk_io_sample"])
<1>1. /\ "metric_sample" \in SeriesTables /\ "net_sample" \in SeriesTables
      /\ "cpu_state_sample" \in SeriesTables /\ "disk_io_sample" \in SeriesTables
      /\ "disk_usage_sample" \in SeriesTables /\ DOMAIN d = Tables
  BY DEF SeriesTables, Fine
<1>2. ASSUME NEW t \in SeriesTables, NEW val
      PROVE  Adding(d[t], at, Insert(d, t, <<Row(Node, NoKey, at, val)>>)[t])
  <2>1. PICK r : r = Row(Node, NoKey, at, val)
    OBVIOUS
  <2>6. r.at = at
    BY <2>1 DEF Row
  <2>2. IsSeq(<<r>>) /\ ToSet(<<r>>) = {r}
    BY Single
  <2>3. Insert(d, t, <<r>>)[t] = d[t] \o <<r>>
    BY <1>1, InsertOp
  <2>4. \A x \in ToSet(<<r>>) : x.at = at
    BY <2>2, <2>6
  <2>5. Adding(d[t], at, Insert(d, t, <<r>>)[t])
    BY <2>2, <2>3, <2>4 DEF Adding
  <2> QED BY <2>1, <2>5
<1>3. PICK U : U = DOMAIN Reads(h) /\ U \subseteq Units
  BY ReadsIs
<1>4. ASSUME NEW t \in SeriesTables, NEW v, NEW e, DOMAIN e = Tables
      PROVE  Adding(e[t], at, Insert(e, t, SetToSeq(UnitSet(U, at, v)))[t])
  <2>1. PICK rows : rows = UnitSet(U, at, v)
    OBVIOUS
  <2>2. Snapshot(rows)
    BY <1>3, <2>1, UnitRows
  <2>3. PICK l : l = SetToSeq(rows) /\ IsSeq(l) /\ ToSet(l) = rows
    BY <2>2, Listed DEF Snapshot
  <2>4. \A x \in ToSet(l) : x.at = at
    BY <2>1, <2>3, RowOfUnit
  <2>5. Insert(e, t, l)[t] = e[t] \o l
    BY <1>4, InsertOp
  <2>6. Adding(e[t], at, Insert(e, t, l)[t])
    BY <2>3, <2>4, <2>5 DEF Adding
  <2> QED BY <2>1, <2>3, <2>6
<1>5. \A name, s : failing = name => sampled(name, failing, d, h, at) = d
  BY DEF sampled
<1>6. \A s : Adding(s, at, s)
  BY DEF Adding
<1>7. Adding(d["metric_sample"], at, sampled("metrics", failing, d, h, at)["metric_sample"])
  <2>1. CASE failing = "metrics"
    BY <1>5, <1>6, <2>1
  <2>2. CASE failing # "metrics"
    <3>1. PICK val : InsertMetric(d, Row(Node, NoKey, at, Total(Reads(h))))
                       = Insert(d, "metric_sample", <<Row(Node, NoKey, at, val)>>)
      BY DEF InsertMetric
    <3> QED BY <1>1, <1>2, <2>2, <3>1, SamplerIs
  <2> QED BY <2>1, <2>2
<1>8. Adding(d["net_sample"], at, sampled("net", failing, d, h, at)["net_sample"])
  <2>1. CASE failing = "net"
    BY <1>5, <1>6, <2>1
  <2>2. CASE failing # "net"
    <3>1. PICK val : sampleNet(d, prev["net"], Reads(h), at)
                       = Insert(d, "net_sample", <<Row(Node, NoKey, at, val)>>)
      BY DEF sampleNet, InsertNetSample
    <3> QED BY <1>1, <1>2, <2>2, <3>1, SamplerIs
  <2> QED BY <2>1, <2>2
<1>9. Adding(d["cpu_state_sample"], at, sampled("cpu", failing, d, h, at)["cpu_state_sample"])
  <2>1. CASE failing = "cpu"
    BY <1>5, <1>6, <2>1
  <2>2. CASE failing # "cpu"
    <3>1. \/ sampleCPUState(d, prev["cpu"], h.done, at) = d
          \/ \E val : sampleCPUState(d, prev["cpu"], h.done, at)
                        = Insert(d, "cpu_state_sample", <<Row(Node, NoKey, at, val)>>)
      BY DEF sampleCPUState, InsertCPUState
    <3>2. sampled("cpu", failing, d, h, at) = sampleCPUState(d, prev["cpu"], h.done, at)
      BY <2>2, SamplerIs
    <3>3. CASE sampleCPUState(d, prev["cpu"], h.done, at) = d
      BY <1>6, <3>2, <3>3
    <3>4. ASSUME NEW val, sampleCPUState(d, prev["cpu"], h.done, at)
                            = Insert(d, "cpu_state_sample", <<Row(Node, NoKey, at, val)>>)
          PROVE  Adding(d["cpu_state_sample"], at, sampled("cpu", failing, d, h, at)["cpu_state_sample"])
      BY <1>1, <1>2, <3>2, <3>4
    <3> QED BY <3>1, <3>3, <3>4
  <2> QED BY <2>1, <2>2
<1>10. Adding(d["disk_io_sample"], at, sampled("diskio", failing, d, h, at)["disk_io_sample"])
  <2>1. CASE failing = "diskio"
    BY <1>5, <1>6, <2>1
  <2>2. CASE failing # "diskio"
    <3>1. PICK v : sampleDiskIO(d, prev["diskio"], Reads(h), at)
                     = Insert(d, "disk_io_sample", SetToSeq(UnitSet(U, at, v)))
      BY <1>3, DiskIORows
    <3> QED BY <1>1, <1>4, <2>2, <3>1, SamplerIs
  <2> QED BY <2>1, <2>2
<1>11. Adding(d["disk_usage_sample"], at, sampled("disk", failing, d, h, at)["disk_usage_sample"])
  <2>1. CASE failing = "disk"
    BY <1>5, <1>6, <2>1
  <2>2. CASE failing # "disk"
    <3>1. PICK e : /\ Writes(d, e, "disk_status")
                   /\ sampleDisks(d, Reads(h), at)["disk_usage_sample"]
                        = Insert(e, "disk_usage_sample", SetToSeq(UnitSet(U, at, Reads(h))))["disk_usage_sample"]
      BY <1>1, <1>3, UsageRows
    <3>2. e["disk_usage_sample"] = d["disk_usage_sample"] /\ DOMAIN e = Tables
      BY <1>1, <3>1, TableKinds DEF Writes
    <3> QED BY <1>1, <1>4, <2>2, <3>1, <3>2, SamplerIs
  <2> QED BY <2>1, <2>2
<1> QED BY <1>7, <1>8, <1>9, <1>10, <1>11

---------------------------------------------------------------------------
LEMMA SeriesOnce ==
  /\ Alone("metric_sample", 1) /\ "metric_sample" \in Tables
  /\ Alone("disk_usage_sample", 2) /\ "disk_usage_sample" \in Tables
<1>1. \A i \in 1..10 : i \in {1, 2, 3, 4, 5, 6, 7, 8, 9, 10}
  OBVIOUS
<1>2. Alone("metric_sample", 1)
  BY <1>1, OrderIs, WrittenIs DEF Alone
<1>3. Alone("disk_usage_sample", 2)
  BY <1>1, OrderIs, WrittenIs DEF Alone
<1>4. "metric_sample" \in Tables /\ "disk_usage_sample" \in Tables
  BY DEF Tables, SeriesTables
<1> QED BY <1>2, <1>3, <1>4

LEMMA SeriesTurns ==
  ASSUME NEW d, NEW h, NEW at, NEW failing, NEW e, Cycle(d, h, at, failing, e), failing # "metrics"
  PROVE  /\ \E e1 : Turn(d, h, at, failing, e, "metric_sample", "metrics", e1)
         /\ \E e1 : Turn(d, h, at, failing, e, "disk_usage_sample", "disk", e1)
<1>0. 1 \in 1..10 /\ 2 \in 1..10
  OBVIOUS
<1>1. \E e1 : Turn(d, h, at, failing, e, "metric_sample", "metrics", e1)
  <2>1. \E e1 : Turn(d, h, at, failing, e, "metric_sample", Order[1], e1)
    BY <1>0, SeriesOnce, CycleOf
  <2>2. Order[1] = "metrics"
    BY OrderIs
  <2> QED BY <2>1, <2>2
<1>2. \E e1 : Turn(d, h, at, failing, e, "disk_usage_sample", "disk", e1)
  <2>1. \E e1 : Turn(d, h, at, failing, e, "disk_usage_sample", Order[2], e1)
    BY <1>0, SeriesOnce, CycleOf
  <2>2. Order[2] = "disk"
    BY OrderIs
  <2> QED BY <2>1, <2>2
<1> QED BY <1>1, <1>2

LEMMA CycleAdds ==
  ASSUME NEW d, NEW h, NEW at, NEW failing, NEW e, Cycle(d, h, at, failing, e), NEW t \in SeriesTables
  PROVE  Adding(d[t], at, e[t])
<1>1. CASE failing = "metrics"
  BY <1>1 DEF Cycle, sampleOnce, Adding
<1>2. CASE failing # "metrics"
  <2>1. at \in Nat /\ HostOK(h)
    BY DEF Cycle
  <2>2. CASE t = "metric_sample"
    <3>1. PICK e1 : Turn(d, h, at, failing, e, "metric_sample", "metrics", e1)
      BY <1>2, SeriesTurns
    <3>2. Adding(e1["metric_sample"], at, sampled("metrics", failing, e1, h, at)["metric_sample"])
      BY <2>1, <3>1, SamplerAdds DEF Turn
    <3> QED BY <2>2, <3>1, <3>2 DEF Turn
  <2>3. CASE t = "disk_usage_sample"
    <3>1. PICK e1 : Turn(d, h, at, failing, e, "disk_usage_sample", "disk", e1)
      BY <1>2, SeriesTurns
    <3>2. Adding(e1["disk_usage_sample"], at, sampled("disk", failing, e1, h, at)["disk_usage_sample"])
      BY <2>1, <3>1, SamplerAdds DEF Turn
    <3> QED BY <2>3, <3>1, <3>2 DEF Turn
  <2>4. CASE t = "net_sample"
    <3>1. PICK e1 : Turn(d, h, at, failing, e, "net_sample", "net", e1)
      BY <1>2, TurnOf
    <3>2. Adding(e1["net_sample"], at, sampled("net", failing, e1, h, at)["net_sample"])
      BY <2>1, <3>1, SamplerAdds DEF Turn
    <3> QED BY <2>4, <3>1, <3>2 DEF Turn
  <2>5. CASE t = "cpu_state_sample"
    <3>1. PICK e1 : Turn(d, h, at, failing, e, "cpu_state_sample", "cpu", e1)
      BY <1>2, TurnOf
    <3>2. Adding(e1["cpu_state_sample"], at, sampled("cpu", failing, e1, h, at)["cpu_state_sample"])
      BY <2>1, <3>1, SamplerAdds DEF Turn
    <3> QED BY <2>5, <3>1, <3>2 DEF Turn
  <2>6. CASE t = "disk_io_sample"
    <3>1. PICK e1 : Turn(d, h, at, failing, e, "disk_io_sample", "diskio", e1)
      BY <1>2, TurnOf
    <3>2. Adding(e1["disk_io_sample"], at, sampled("diskio", failing, e1, h, at)["disk_io_sample"])
      BY <2>1, <3>1, SamplerAdds DEF Turn
    <3> QED BY <2>6, <3>1, <3>2 DEF Turn
  <2> QED BY <2>2, <2>3, <2>4, <2>5, <2>6 DEF SeriesTables
<1> QED BY <1>1, <1>2

AllInOrder(d) == \A t \in SeriesTables : InOrder(d[t])
LEMMA CycleInOrder ==
  ASSUME NEW d, NEW h, NEW at, NEW failing, NEW e, Cycle(d, h, at, failing, e), AllInOrder(d)
  PROVE  AllInOrder(e)
<1> SUFFICES ASSUME NEW t \in SeriesTables PROVE InOrder(e[t])
  BY DEF AllInOrder
<1>1. at \in Int /\ Fine(d, at, {Node}, Keys)
  BY DEF Cycle
<1>2. IsSeq(d[t]) /\ Dated(d[t]) /\ \A i \in 1..Len(d[t]) : d[t][i].at \in 0..at
  BY <1>1, FineIsDated
<1>3. PICK s : s = d[t] /\ \A i \in 1..Len(s) : s[i].at <= at
  BY <1>1, <1>2
<1>4. PICK new : new = e[t] /\ Adding(s, at, new)
  BY <1>3, CycleAdds
<1>5. InOrder(s)
  BY <1>3 DEF AllInOrder
<1> QED BY <1>1, <1>2, <1>3, <1>4, <1>5, AddedInOrder

LEMMA PruneInOrder ==
  ASSUME NEW d, NEW t \in SeriesTables, NEW before, NEW top \in Int, NEW nodes, NEW keys,
         Fine(d, top, nodes, keys), AllInOrder(d)
  PROVE  AllInOrder(PruneTable(d, t, before))
<1> SUFFICES ASSUME NEW u \in SeriesTables PROVE InOrder(PruneTable(d, t, before)[u])
  BY DEF AllInOrder
<1>1. PICK e : e = PruneTable(d, t, before)
  OBVIOUS
<1>2. Writes(d, e, t) /\ e[t] = Keep(d[t], {r \in ToSet(d[t]) : r.at >= before})
  BY <1>1, PruneOp DEF Fine
<1>3. CASE u # t
  BY <1>1, <1>2, <1>3, TableKinds DEF Writes, AllInOrder
<1>4. CASE u = t
  <2>1. IsSeq(d[t]) /\ Dated(d[t])
    BY FineIsDated
  <2>2. InOrder(d[t])
    BY DEF AllInOrder
  <2>3. InOrder(Keep(d[t], {r \in ToSet(d[t]) : r.at >= before}))
    BY <2>1, <2>2, KeepsOrder
  <2> QED BY <1>1, <1>2, <1>4, <2>3
<1> QED BY <1>3, <1>4

LEMMA PruningInOrder ==
  ASSUME NEW d, NEW at \in Int, NEW top \in Int, NEW nodes, NEW keys, Fine(d, top, nodes, keys),
         AllInOrder(d)
  PROVE  AllInOrder(prune(d, at))
<1>1. CASE Retention <= 0
  BY <1>1 DEF prune
<1>2. CASE ~(Retention <= 0)
  <2>1. PICK before : before = at - Retention
    OBVIOUS
  <2> DEFINE Left(e) == Fine(e, top, nodes, keys) /\ AllInOrder(e)
  <2>2. ASSUME NEW e, Left(e), NEW t \in SeriesTables PROVE Left(PruneTable(e, t, before))
    <3>1. Fine(e, top, nodes, keys) /\ AllInOrder(e)
      BY <2>2
    <3>2. Fine(PruneTable(e, t, before), top, nodes, keys)
      BY <3>1, PruneFine
    <3>3. AllInOrder(PruneTable(e, t, before))
      BY <3>1, PruneInOrder
    <3> QED BY <3>2, <3>3
  <2>3. Left(d)
    OBVIOUS
  <2>4. Left(prune(d, at)) => AllInOrder(prune(d, at))
    OBVIOUS
  <2> HIDE DEF Left
  <2>5. PICK e1 : e1 = PruneTable(d, "metric_sample", before)
    OBVIOUS
  <2>6. PICK e2 : e2 = PruneTable(e1, "net_sample", before)
    OBVIOUS
  <2>7. PICK e3 : e3 = PruneTable(e2, "cpu_state_sample", before)
    OBVIOUS
  <2>8. PICK e4 : e4 = PruneTable(e3, "disk_io_sample", before)
    OBVIOUS
  <2>9. PICK e5 : e5 = PruneTable(e4, "disk_usage_sample", before)
    OBVIOUS
  <2>10. prune(d, at) = e5
    BY <1>2, <2>1, <2>5, <2>6, <2>7, <2>8, <2>9
       DEF prune, Prune, PruneNet, PruneCPUState, PruneDiskIO, PruneDiskUsage
  <2>11. /\ "metric_sample" \in SeriesTables /\ "net_sample" \in SeriesTables
         /\ "cpu_state_sample" \in SeriesTables /\ "disk_io_sample" \in SeriesTables
         /\ "disk_usage_sample" \in SeriesTables
    BY DEF SeriesTables
  <2>12. Left(e1) /\ Left(e2) /\ Left(e3) /\ Left(e4) /\ Left(e5)
    <3>1. Left(e1)
      BY <2>2, <2>3, <2>5, <2>11
    <3>2. Left(e2)
      BY <2>2, <2>6, <2>11, <3>1
    <3>3. Left(e3)
      BY <2>2, <2>7, <2>11, <3>2
    <3>4. Left(e4)
      BY <2>2, <2>8, <2>11, <3>3
    <3>5. Left(e5)
      BY <2>2, <2>9, <2>11, <3>4
    <3> QED BY <3>1, <3>2, <3>3, <3>4, <3>5
  <2> QED BY <2>4, <2>10, <2>12
<1> QED BY <1>1, <1>2

UsageCounts(d) == \A r \in ToSet(d["disk_usage_sample"]) : r.val \in Nat
LEMMA UsageAfter ==
  ASSUME NEW d, NEW h, NEW at, NEW failing, NEW e, Cycle(d, h, at, failing, e), UsageCounts(d)
  PROVE  UsageCounts(e)
<1>1. CASE failing = "metrics"
  BY <1>1 DEF Cycle, sampleOnce
<1>2. CASE failing # "metrics"
  <2>1. PICK e1 : Turn(d, h, at, failing, e, "disk_usage_sample", "disk", e1)
    BY <1>2, SeriesTurns
  <2>2. CASE failing = "disk"
    <3>1. sampled("disk", failing, e1, h, at) = e1
      BY <2>2 DEF sampled
    <3> QED BY <2>1, <3>1 DEF Turn, UsageCounts
  <2>3. CASE failing # "disk"
    <3>1. at \in Nat /\ HostOK(h)
      BY DEF Cycle
    <3>2. PICK U, v : /\ v = Reads(h) /\ U = DOMAIN v /\ U \subseteq Units
                      /\ \A u \in U : v[u] \in Nat
      BY <3>1, ReadsIs
    <3>3. PICK rows : rows = UnitSet(U, at, v)
      OBVIOUS
    <3>4. Snapshot(rows)
      BY <3>1, <3>2, <3>3, UnitRows
    <3>5. PICK l : l = SetToSeq(rows) /\ IsSeq(l) /\ ToSet(l) = rows
      BY <3>4, Listed DEF Snapshot
    <3>6. "disk_usage_sample" \in SeriesTables /\ DOMAIN e1 = Tables
          /\ IsSeq(d["disk_usage_sample"])
      BY <2>1 DEF SeriesTables, Turn, Fine, Cycle
    <3>7. PICK f : /\ Writes(e1, f, "disk_status") /\ f["disk_usage_sample"] = e1["disk_usage_sample"]
                   /\ sampleDisks(e1, v, at)["disk_usage_sample"]
                        = Insert(f, "disk_usage_sample", l)["disk_usage_sample"]
      BY <3>2, <3>3, <3>5, <3>6, UsageRows
    <3>8. Insert(f, "disk_usage_sample", l)["disk_usage_sample"] = f["disk_usage_sample"] \o l
      BY <3>6, <3>7, InsertOp DEF Writes
    <3>9. e["disk_usage_sample"] = d["disk_usage_sample"] \o l
      BY <2>1, <2>3, <3>2, <3>7, <3>8, SamplerIs DEF Turn
    <3>10. ToSet(e["disk_usage_sample"]) = ToSet(d["disk_usage_sample"]) \cup rows
      BY <3>5, <3>6, <3>9, Joined
    <3>11. \A r \in rows : r.val \in Nat
      BY <3>2, <3>3, RowOfUnit
    <3> QED BY <3>10, <3>11 DEF UsageCounts
  <2> QED BY <2>2, <2>3
<1> QED BY <1>1, <1>2

HistoryInv == HonestInv /\ AllInOrder(src) /\ UsageCounts(src)
LEMMA HistoryStarts == CollectorInit => HistoryInv
<1> SUFFICES ASSUME CollectorInit PROVE HistoryInv
  OBVIOUS
<1>1. src = schemaSQL
  BY DEF CollectorInit
<1>2. \A t \in SeriesTables : src[t] = <<>>
  BY <1>1, TableKinds DEF schemaSQL
<1>3. AllInOrder(src)
  <2>1. \A i \in 1..Len(<<>>) : FALSE
    OBVIOUS
  <2>2. InOrder(<<>>)
    BY <2>1 DEF InOrder
  <2> QED BY <1>2, <2>2 DEF AllInOrder
<1>4. UsageCounts(src)
  <2>1. "disk_usage_sample" \in SeriesTables
    BY DEF SeriesTables
  <2>2. src["disk_usage_sample"] = <<>>
    BY <1>2, <2>1
  <2> QED BY <2>2, NoRow DEF UsageCounts
<1> QED BY <1>3, <1>4, HonestStarts DEF HistoryInv

LEMMA HistoryKept ==
  ASSUME HistoryInv, CollectorNext
  PROVE  HistoryInv'
<1>0. HonestInv /\ HonestInv'
  BY HonestKept DEF HistoryInv
<1>1. CASE Restart
  <2>1. src' = src
    BY <1>1 DEF Restart
  <2> QED BY <1>0, <2>1 DEF HistoryInv, AllInOrder, InOrder, UsageCounts
<1>2. ASSUME NEW r \in Readings, NEW failing, Sample(r, failing)
      PROVE  HistoryInv'
  <2>1. PICK e : /\ Cycle(src, host', now', failing, e) /\ src' = prune(e, now')
                 /\ GoneIsZero(host') /\ now \in Nat /\ now <= now'
                 /\ \A s \in Samplers : prev'[s] = Reading(s, host', now', failing)
    BY <1>0, <1>2, SampleIsCycle
  <2>2. PICK d, h, at, g : d = src /\ h = host' /\ at = now' /\ g = src'
    OBVIOUS
  <2>3. Cycle(d, h, at, failing, e) /\ g = prune(e, at) /\ at \in Nat
    BY <2>1, <2>2 DEF Cycle
  <2>4. Fine(e, at, {Node}, Keys) /\ Pruned(e, g, at)
    BY <2>3, CycleFine
  <2>5. AllInOrder(d) /\ UsageCounts(d)
    BY <2>2 DEF HistoryInv
  <2>6. AllInOrder(g)
    <3>1. AllInOrder(e)
      BY <2>3, <2>5, CycleInOrder
    <3>2. at \in Int
      BY <2>3
    <3> QED BY <2>3, <2>4, <3>1, <3>2, PruningInOrder
  <2>7. UsageCounts(g)
    <3>1. UsageCounts(e)
      BY <2>3, <2>5, UsageAfter
    <3>2. ToSet(g["disk_usage_sample"]) \subseteq ToSet(e["disk_usage_sample"])
      BY <2>4 DEF Pruned, SeriesTables
    <3> QED BY <3>1, <3>2 DEF UsageCounts
  <2> QED BY <1>0, <2>2, <2>6, <2>7 DEF HistoryInv, AllInOrder, InOrder, UsageCounts
<1> QED BY <1>1, <1>2 DEF CollectorNext

LEMMA HistoryAlways == CollectorSpec => []HistoryInv
<1>1. HistoryInv /\ [CollectorNext]_collectorVars => HistoryInv'
  <2>1. ASSUME HistoryInv, UNCHANGED collectorVars PROVE HistoryInv'
    BY <2>1 DEF collectorVars, HistoryInv, HonestInv, CollectorInv, AddsUp, AllInOrder, InOrder, UsageCounts
  <2> QED BY <2>1, HistoryKept
<1> QED BY <1>1, HistoryStarts, PTL DEF CollectorSpec

---------------------------------------------------------------------------
LEMMA ViewsHold ==
  ASSUME HistoryInv, NEW from \in Int, NEW k \in Nat, k > 0
  PROVE  HistoryOf(from, k)
<1>1. now \in Nat /\ now \in Int /\ Fine(src, now, {Node}, Keys)
  BY DEF HistoryInv, HonestInv, CollectorInv
<1>2. ASSUME NEW t \in SeriesTables
      PROVE  /\ IsSeq(src[t]) /\ Dated(src[t]) /\ InOrder(src[t])
             /\ \A i \in 1..Len(src[t]) : src[t][i].at <= now
             /\ \A r \in ToSet(src[t]) : r.at <= now
  <2>1. IsSeq(src[t]) /\ Dated(src[t]) /\ (\A r \in ToSet(src[t]) : r.at \in 0..now)
        /\ \A i \in 1..Len(src[t]) : src[t][i].at \in 0..now
    BY <1>1, FineIsDated
  <2>2. InOrder(src[t])
    BY DEF HistoryInv, AllInOrder
  <2>3. \A x \in 0..now : x <= now
    BY <1>1
  <2> QED BY <2>1, <2>2, <2>3
<1>3. \A t, key : Recent(src, t, Node, key, from, k) = LastOf(Recent(src, t, Node, key, from, 0), k)
  <2>1. \A s : LastOf(s, 0) = s
    BY DEF LastOf
  <2> QED BY <2>1 DEF Recent
<1>4. ASSUME NEW t \in SeriesTables, NEW key
      PROVE  ViewsOf(Recent(src, t, Node, key, from, 0), Decimate(src, t, Node, key, from, now, k),
                     LastOf(Recent(src, t, Node, key, from, 0), k), k)
  BY <1>1, <1>2, SeriesViewed
<1>5. /\ "metric_sample" \in SeriesTables /\ "net_sample" \in SeriesTables
      /\ "cpu_state_sample" \in SeriesTables /\ "disk_io_sample" \in SeriesTables
      /\ "disk_usage_sample" \in SeriesTables
  BY DEF SeriesTables
<1>6. ViewsOf(RecentMetrics(src, Node, from, 0), MetricsWindow(src, Node, from, now, k),
              RecentMetrics(src, Node, from, k), k)
  BY <1>3, <1>4, <1>5 DEF RecentMetrics, MetricsWindow
<1>7. ViewsOf(RecentNetSamples(src, Node, from, 0), NetSamplesWindow(src, Node, from, now, k),
              RecentNetSamples(src, Node, from, k), k)
  BY <1>3, <1>4, <1>5 DEF RecentNetSamples, NetSamplesWindow
<1>8. ViewsOf(RecentCPUStates(src, Node, from, 0), CPUStateWindow(src, Node, from, now, k),
              RecentCPUStates(src, Node, from, k), k)
  BY <1>3, <1>4, <1>5 DEF RecentCPUStates, CPUStateWindow
<1>9. ViewsOf(DiskIOHistory(src, Node, from, 0), DiskIOWindow(src, Node, from, now, k),
              DiskIOHistory(src, Node, from, k), k)
  <2>1. /\ IsSeq(src["disk_io_sample"]) /\ Dated(src["disk_io_sample"])
        /\ \A r \in ToSet(src["disk_io_sample"]) : r.at <= now
    BY <1>2, <1>5
  <2> QED BY <1>1, <2>1, ThroughputViewed
<1>10. \A u \in Units : ViewsOf(RecentDiskUsage(src, Node, u, from),
                                DiskUsageWindow(src, Node, u, from, now, k),
                                LastOf(RecentDiskUsage(src, Node, u, from), k), k)
  BY <1>4, <1>5 DEF RecentDiskUsage, DiskUsageWindow
<1> QED BY <1>6, <1>7, <1>8, <1>9, <1>10 DEF HistoryOf

(* Every window and every limited history of a node's series is bounded    *)
(* and true to the whole, for any units and readings: a window holds at    *)
(* most two points for each asked for, all of them points of the series    *)
(* and the first of it among them, because the width bucketSize returns    *)
(* never splits the span into more than twice as many buckets              *)
(* (storage.go MetricsWindow, bucketSize, RecentMetrics and their like).   *)
THEOREM HistoryIsBounded == CollectorSpec => []HistoryBounded
<1>1. HistoryInv => HistoryBounded
  <2> SUFFICES ASSUME HistoryInv, NEW from \in {0, 1}, NEW k \in 1..2 PROVE HistoryOf(from, k)
    BY DEF HistoryBounded
  <2>1. from \in Int /\ k \in Nat /\ k > 0
    OBVIOUS
  <2> QED BY <2>1, ViewsHold
<1> QED BY <1>1, HistoryAlways, PTL

(* The same from any time on and for any number of points.                 *)
THEOREM EveryViewHolds ==
  CollectorSpec => [](\A from \in Int, k \in Nat \ {0} : HistoryOf(from, k))
<1>1. HistoryInv => \A from \in Int, k \in Nat \ {0} : HistoryOf(from, k)
  <2> SUFFICES ASSUME HistoryInv, NEW from \in Int, NEW k \in Nat \ {0} PROVE HistoryOf(from, k)
    OBVIOUS
  <2>1. k \in Nat /\ k > 0
    OBVIOUS
  <2> QED BY <2>1, ViewsHold
<1> QED BY <1>1, HistoryAlways, PTL

---------------------------------------------------------------------------
(* Linear regression.                                                      *)
LEMMA EverySubset ==
  ASSUME NEW S, IsFiniteSet(S), NEW Good, {} \in Good,
         \A s \in SUBSET S : \A x \in s : s \ {x} \in Good => s \in Good
  PROVE  SUBSET S \subseteq Good
<1> DEFINE Bad == {k \in Nat : \E s \in SUBSET S : Cardinality(s) = k /\ s \notin Good}
<1>1. ASSUME Bad # {} PROVE FALSE
  <2>1. Bad \subseteq Nat
    OBVIOUS
  <2>2. PICK k \in Bad : \A m \in Bad : k <= m
    <3> HIDE DEF Bad
    <3> QED BY <1>1, <2>1, LeastOf
  <2>3. k \in Nat /\ \E s \in SUBSET S : Cardinality(s) = k /\ s \notin Good
    BY <2>2
  <2>4. PICK s \in SUBSET S : Cardinality(s) = k /\ s \notin Good
    BY <2>3
  <2>5. PICK x \in s : TRUE
    BY <2>4
  <2>6. PICK r : r = s \ {x}
    OBVIOUS
  <2>7. r \in SUBSET S /\ Cardinality(r) \in Nat /\ Cardinality(r) = k - 1
    BY <2>4, <2>5, <2>6, Without
  <2>8. r \notin Good
    BY <2>4, <2>5, <2>6
  <2>9. Cardinality(r) \in Bad
    BY <2>7, <2>8
  <2>10. k <= Cardinality(r)
    <3> HIDE DEF Bad
    <3> QED BY <2>2, <2>9
  <2> QED BY <2>3, <2>7, <2>10
<1>2. ASSUME NEW s \in SUBSET S PROVE s \in Good
  <2>1. Cardinality(s) \in Nat
    BY FS_Subset, FS_CardinalityType
  <2>2. Cardinality(s) \notin Bad
    <3> HIDE DEF Bad
    <3> QED BY <1>1
  <2> QED BY <2>1, <2>2
<1> QED BY <1>2

(* A function on a finite set to the integers. *)
IntsOn(f, S) == DOMAIN f = S /\ \A i \in S : f[i] \in Int
Mixed(a, f, b, g, c, h, d, k) == a * f + b * g + c * h + d * k

Mixes(m, S, a, f, b, g, c, h, d, k) ==
  \A i \in S : m[i] = Mixed(a, f[i], b, g[i], c, h[i], d, k[i])
(* A sum of combinations is the combination of the sums. *)
LEMMA Linear ==
  ASSUME NEW S, IsFiniteSet(S), NEW a \in Int, NEW b \in Int, NEW c \in Int, NEW d \in Int,
         NEW f, NEW g, NEW h, NEW k, NEW m,
         IntsOn(f, S), IntsOn(g, S), IntsOn(h, S), IntsOn(k, S), IntsOn(m, S),
         Mixes(m, S, a, f, b, g, c, h, d, k)
  PROVE  /\ Total(f) \in Int /\ Total(g) \in Int /\ Total(h) \in Int /\ Total(k) \in Int
         /\ Total(m) \in Int
         /\ Total(m) = Mixed(a, Total(f), b, Total(g), c, Total(h), d, Total(k))
<1>1. PICK F : Summing(f, F, S) /\ Total(f) = F[S]
  BY Summed DEF IntsOn
<1>2. PICK G : Summing(g, G, S) /\ Total(g) = G[S]
  BY Summed DEF IntsOn
<1>3. PICK H : Summing(h, H, S) /\ Total(h) = H[S]
  BY Summed DEF IntsOn
<1>4. PICK K : Summing(k, K, S) /\ Total(k) = K[S]
  BY Summed DEF IntsOn
<1>5. PICK M : Summing(m, M, S) /\ Total(m) = M[S]
  BY Summed DEF IntsOn
<1> DEFINE Good == {s \in SUBSET S : M[s] = Mixed(a, F[s], b, G[s], c, H[s], d, K[s])}
<1>6. \A s \in SUBSET S : F[s] \in Int /\ G[s] \in Int /\ H[s] \in Int /\ K[s] \in Int /\ M[s] \in Int
  BY <1>1, <1>2, <1>3, <1>4, <1>5 DEF Summing
<1>7. {} \in Good
  <2>1. F[{}] = 0 /\ G[{}] = 0 /\ H[{}] = 0 /\ K[{}] = 0 /\ M[{}] = 0
    BY <1>1, <1>2, <1>3, <1>4, <1>5 DEF Summing
  <2>2. Mixed(a, 0, b, 0, c, 0, d, 0) = 0
    BY DEF Mixed
  <2>3. {} \in SUBSET S
    OBVIOUS
  <2> QED BY <2>1, <2>2, <2>3
<1>8. ASSUME NEW s \in SUBSET S, NEW x \in s, s \ {x} \in Good PROVE s \in Good
  <2>1. PICK r \in SUBSET S : r = s \ {x}
    OBVIOUS
  <2>2. /\ F[s] = f[x] + F[r] /\ G[s] = g[x] + G[r] /\ H[s] = h[x] + H[r]
        /\ K[s] = k[x] + K[r] /\ M[s] = m[x] + M[r]
    BY <1>1, <1>2, <1>3, <1>4, <1>5, <2>1 DEF Summing
  <2>3. /\ f[x] \in Int /\ g[x] \in Int /\ h[x] \in Int /\ k[x] \in Int /\ m[x] \in Int
        /\ F[r] \in Int /\ G[r] \in Int /\ H[r] \in Int /\ K[r] \in Int /\ M[r] \in Int
    BY <1>6 DEF IntsOn
  <2>4. M[r] = Mixed(a, F[r], b, G[r], c, H[r], d, K[r])
    BY <1>8, <2>1
  <2>5. m[x] = Mixed(a, f[x], b, g[x], c, h[x], d, k[x])
    BY DEF Mixes
  <2>6. PICK f1 \in Int, g1 \in Int, h1 \in Int, k1 \in Int : f1 = f[x] /\ g1 = g[x] /\ h1 = h[x] /\ k1 = k[x]
    BY <2>3
  <2>7. PICK f2 \in Int, g2 \in Int, h2 \in Int, k2 \in Int : f2 = F[r] /\ g2 = G[r] /\ h2 = H[r] /\ k2 = K[r]
    BY <2>3
  <2>8. /\ a * (f1 + f2) = a * f1 + a * f2 /\ a * f1 \in Int /\ a * f2 \in Int
        /\ b * (g1 + g2) = b * g1 + b * g2 /\ b * g1 \in Int /\ b * g2 \in Int
        /\ c * (h1 + h2) = c * h1 + c * h2 /\ c * h1 \in Int /\ c * h2 \in Int
        /\ d * (k1 + k2) = d * k1 + d * k2 /\ d * k1 \in Int /\ d * k2 \in Int
    BY Distributes
  <2>9. m[x] = a * f1 + b * g1 + c * h1 + d * k1 /\ M[r] = a * f2 + b * g2 + c * h2 + d * k2
    BY <2>4, <2>5, <2>6, <2>7 DEF Mixed
  <2>10. F[s] = f1 + f2 /\ G[s] = g1 + g2 /\ H[s] = h1 + h2 /\ K[s] = k1 + k2
    BY <2>2, <2>6, <2>7
  <2>11. Mixed(a, F[s], b, G[s], c, H[s], d, K[s])
           = a * (f1 + f2) + b * (g1 + g2) + c * (h1 + h2) + d * (k1 + k2)
    BY <2>10 DEF Mixed
  <2> QED BY <2>2, <2>8, <2>9, <2>11
<1>9. SUBSET S \subseteq Good
  <2> HIDE DEF Good
  <2> QED BY <1>7, <1>8, EverySubset
<1>10. S \in Good
  BY <1>9
<1> QED BY <1>1, <1>2, <1>3, <1>4, <1>5, <1>6, <1>10

LEMMA SumIsInt ==
  ASSUME NEW S, IsFiniteSet(S), NEW f, IntsOn(f, S)
  PROVE  Total(f) \in Int
<1>1. PICK sum : Summing(f, sum, S) /\ Total(f) = sum[S]
  BY Summed DEF IntsOn
<1> QED BY <1>1 DEF Summing

Scales(m, S, a, f, b, g) == \A i \in S : m[i] = a * f[i] + b * g[i]
Combined(m, a, f, b, g) == m = a * f + b * g
LEMMA TwoTerms ==
  ASSUME NEW S, IsFiniteSet(S), NEW a \in Int, NEW b \in Int, NEW f, NEW g, NEW m,
         IntsOn(f, S), IntsOn(g, S), IntsOn(m, S), Scales(m, S, a, f, b, g)
  PROVE  Combined(Total(m), a, Total(f), b, Total(g))
<1>1. PICK z \in Int : z = 0
  OBVIOUS
<1>2. ASSUME NEW x \in Int, NEW y \in Int PROVE Mixed(a, x, b, y, z, x, z, x) = a * x + b * y
  <2>1. a * x \in Int /\ b * y \in Int /\ z * x = 0
    BY <1>1
  <2> QED BY <1>1, <2>1 DEF Mixed
<1>3. ASSUME NEW i \in S PROVE m[i] = Mixed(a, f[i], b, g[i], z, f[i], z, f[i])
  <2>1. PICK x \in Int, y \in Int : x = f[i] /\ y = g[i]
    BY DEF IntsOn
  <2>2. m[i] = a * x + b * y
    BY <2>1 DEF Scales
  <2> QED BY <1>2, <2>1, <2>2
<1>4. Mixes(m, S, a, f, b, g, z, f, z, f)
  BY <1>3 DEF Mixes
<1>5. Total(m) = Mixed(a, Total(f), b, Total(g), z, Total(f), z, Total(f))
  BY <1>4, Linear
<1>6. PICK x \in Int, y \in Int : x = Total(f) /\ y = Total(g)
  BY SumIsInt
<1> QED BY <1>2, <1>5, <1>6 DEF Combined

LEMMA Ones ==
  ASSUME NEW S, IsFiniteSet(S), NEW one, IntsOn(one, S), \A i \in S : one[i] = 1
  PROVE  Total(one) = Cardinality(S)
<1>1. PICK sum : Summing(one, sum, S) /\ Total(one) = sum[S]
  BY Summed DEF IntsOn
<1> DEFINE Good == {s \in SUBSET S : sum[s] = Cardinality(s)}
<1>2. {} \in Good
  BY <1>1, FS_EmptySet DEF Summing
<1>3. ASSUME NEW s \in SUBSET S, NEW x \in s, s \ {x} \in Good PROVE s \in Good
  <2>1. Cardinality(s) \in Nat /\ Cardinality(s \ {x}) = Cardinality(s) - 1
    BY Without
  <2>2. sum[s] = 1 + sum[s \ {x}]
    BY <1>1 DEF Summing
  <2> QED BY <1>3, <2>1, <2>2
<1>4. SUBSET S \subseteq Good
  <2> HIDE DEF Good
  <2> QED BY <1>2, <1>3, EverySubset
<1>5. S \in Good
  BY <1>4
<1> QED BY <1>1, <1>5

(* A sum of terms of one sign. *)
LEMMA NotNegative ==
  ASSUME NEW S, IsFiniteSet(S), NEW f, IntsOn(f, S), \A i \in S : f[i] >= 0
  PROVE  /\ Total(f) \in Int /\ Total(f) >= 0
         /\ (\E i \in S : f[i] > 0) => Total(f) > 0
<1>1. PICK sum : Summing(f, sum, S) /\ Total(f) = sum[S]
  BY Summed DEF IntsOn
<1> DEFINE Good == {s \in SUBSET S : sum[s] >= 0}
<1>2. {} \in Good
  BY <1>1 DEF Summing
<1>3. ASSUME NEW s \in SUBSET S, NEW x \in s, s \ {x} \in Good PROVE s \in Good
  <2>1. sum[s] = f[x] + sum[s \ {x}] /\ sum[s \ {x}] \in Int
    BY <1>1 DEF Summing
  <2>2. f[x] \in Int /\ f[x] >= 0
    BY DEF IntsOn
  <2> QED BY <1>3, <2>1, <2>2
<1>4. SUBSET S \subseteq Good
  <2> HIDE DEF Good
  <2> QED BY <1>2, <1>3, EverySubset
<1>5. sum[S] \in Int /\ sum[S] >= 0
  BY <1>1, <1>4 DEF Summing
<1>6. ASSUME NEW i \in S, f[i] > 0 PROVE sum[S] > 0
  <2>1. sum[S] = f[i] + sum[S \ {i}] /\ sum[S \ {i}] \in Int
    BY <1>1 DEF Summing
  <2>2. S \ {i} \in SUBSET S
    OBVIOUS
  <2>3. sum[S \ {i}] >= 0
    BY <1>4, <2>2
  <2>4. f[i] \in Int
    BY DEF IntsOn
  <2> QED BY <1>6, <2>1, <2>3, <2>4
<1> QED BY <1>1, <1>5, <1>6

---------------------------------------------------------------------------
(* The sums of a regression over n points. *)
Regression(n, x, y, sx, sy, sxx, sxy) ==
  /\ n \in Nat /\ IntsOn(x, 1..n) /\ IntsOn(y, 1..n)
  /\ sx = Total(x) /\ sy = Total(y) /\ sxx = Dot(x, x) /\ sxy = Dot(x, y)
LEMMA Products ==
  ASSUME NEW n \in Nat, NEW x, NEW y, IntsOn(x, 1..n), IntsOn(y, 1..n)
  PROVE  \E xy : IntsOn(xy, 1..n) /\ Dot(x, y) = Total(xy) /\ \A i \in 1..n : xy[i] = x[i] * y[i]
<1>1. PICK xy : xy = [i \in 1..n |-> x[i] * y[i]]
  OBVIOUS
<1>2. ASSUME NEW i \in 1..n PROVE xy[i] = x[i] * y[i] /\ xy[i] \in Int
  <2>1. x[i] \in Int /\ y[i] \in Int
    BY DEF IntsOn
  <2> QED BY <1>1, <2>1
<1>3. IntsOn(xy, 1..n)
  BY <1>1, <1>2 DEF IntsOn
<1>4. Dot(x, y) = Total(xy)
  BY <1>1 DEF Dot, IntsOn
<1> QED BY <1>2, <1>3, <1>4

LEMMA One ==
  ASSUME NEW n \in Nat
  PROVE  \E one : IntsOn(one, 1..n) /\ Total(one) = n /\ \A i \in 1..n : one[i] = 1
<1>1. PICK one : one = [i \in 1..n |-> 1]
  OBVIOUS
<1>2. IntsOn(one, 1..n) /\ \A i \in 1..n : one[i] = 1
  BY <1>1 DEF IntsOn
<1>3. IsFiniteSet(1..n) /\ Cardinality(1..n) = n
  BY FS_Interval
<1> QED BY <1>2, <1>3, Ones

LEMMA RegressionTypes ==
  ASSUME NEW n, NEW x, NEW y, NEW sx, NEW sy, NEW sxx, NEW sxy,
         Regression(n, x, y, sx, sy, sxx, sxy)
  PROVE  /\ sx \in Int /\ sy \in Int /\ sxx \in Int /\ sxy \in Int
         /\ IsFiniteSet(1..n)
<1>1. n \in Nat /\ IsFiniteSet(1..n)
  BY FS_Interval DEF Regression
<1>2. sx \in Int /\ sy \in Int
  BY <1>1, SumIsInt DEF Regression
<1>3. PICK xx : IntsOn(xx, 1..n) /\ sxx = Total(xx)
  BY Products DEF Regression
<1>4. PICK xy : IntsOn(xy, 1..n) /\ sxy = Total(xy)
  BY Products DEF Regression
<1>5. sxx \in Int
  BY <1>1, <1>3, SumIsInt
<1>6. sxy \in Int
  BY <1>1, <1>4, SumIsInt
<1> QED BY <1>1, <1>2, <1>5, <1>6

(* The points lie on a line: the covariance is its slope times the variance. *)
SteadySum(n, sx, sxx, c, g) ==
  n * (c * sx + g * sxx) - sx * (c * n + g * sx) = g * (n * sxx - sx * sx)
LEMMA SteadySums ==
  ASSUME NEW n \in Int, NEW sx \in Int, NEW sxx \in Int, NEW c \in Int, NEW g \in Int
  PROVE  SteadySum(n, sx, sxx, c, g)
BY DEF SteadySum

Line(x, y, n, c, g) == \A i \in 1..n : y[i] = c + g * x[i]
Sloped(n, sx, sy, sxx, sxy, g) == n * sxy - sx * sy = g * (n * sxx - sx * sx)
LEMMA OnALine ==
  ASSUME NEW n, NEW x, NEW y, NEW sx, NEW sy, NEW sxx, NEW sxy,
         Regression(n, x, y, sx, sy, sxx, sxy), NEW c \in Int, NEW g \in Int,
         Line(x, y, n, c, g)
  PROVE  Sloped(n, sx, sy, sxx, sxy, g)
<1>1. /\ n \in Nat /\ IsFiniteSet(1..n) /\ IntsOn(x, 1..n) /\ IntsOn(y, 1..n)
      /\ sx = Total(x) /\ sy = Total(y)
      /\ sx \in Int /\ sy \in Int /\ sxx \in Int /\ sxy \in Int
  BY RegressionTypes DEF Regression
<1>2. PICK one : IntsOn(one, 1..n) /\ Total(one) = n /\ \A i \in 1..n : one[i] = 1
  BY <1>1, One
<1>3. PICK xx : IntsOn(xx, 1..n) /\ sxx = Total(xx) /\ \A i \in 1..n : xx[i] = x[i] * x[i]
  BY <1>1, Products DEF Regression
<1>4. PICK xy : IntsOn(xy, 1..n) /\ sxy = Total(xy) /\ \A i \in 1..n : xy[i] = x[i] * y[i]
  BY <1>1, Products DEF Regression
<1>5. sy = c * n + g * sx
  <2>1. ASSUME NEW i \in 1..n PROVE y[i] = c * one[i] + g * x[i]
    <3>1. x[i] \in Int /\ y[i] = c + g * x[i] /\ one[i] = 1
      BY <1>1, <1>2 DEF IntsOn, Line
    <3> QED BY <3>1
  <2>2. Scales(y, 1..n, c, one, g, x)
    BY <2>1 DEF Scales
  <2>3. Combined(Total(y), c, Total(one), g, Total(x))
    BY <1>1, <1>2, <2>2, TwoTerms
  <2> QED BY <1>1, <1>2, <2>3 DEF Combined
<1>6. sxy = c * sx + g * sxx
  <2>1. ASSUME NEW i \in 1..n PROVE xy[i] = c * x[i] + g * xx[i]
    <3>1. x[i] \in Int /\ y[i] = c + g * x[i]
      BY <1>1 DEF IntsOn, Line
    <3>2. xx[i] = x[i] * x[i] /\ xy[i] = x[i] * (c + g * x[i])
      BY <1>3, <1>4, <3>1
    <3>3. x[i] * (c + g * x[i]) = c * x[i] + g * (x[i] * x[i])
      BY <3>1
    <3> QED BY <3>2, <3>3
  <2>2. Scales(xy, 1..n, c, x, g, xx)
    BY <2>1 DEF Scales
  <2>3. Combined(Total(xy), c, Total(x), g, Total(xx))
    BY <1>1, <1>3, <1>4, <2>2, TwoTerms
  <2> QED BY <1>1, <1>3, <1>4, <2>3 DEF Combined
<1>7. n \in Int
  BY <1>1
<1>8. SteadySum(n, sx, sxx, c, g)
  BY <1>1, <1>7, SteadySums
<1> QED BY <1>5, <1>6, <1>8 DEF Sloped, SteadySum

---------------------------------------------------------------------------
(* The variance of points that are not all at one time. *)
SquareIs(n, sx, x, w) ==
  /\ w \in Int /\ w >= 0 /\ (n * x # sx => w > 0)
  /\ w = (n * n) * (x * x) + (0 - 2 * (n * sx)) * x + (sx * sx) * 1
LEMMA Squares ==
  ASSUME NEW n \in Int, NEW sx \in Int, NEW x \in Int, NEW w, w = (n * x - sx) * (n * x - sx)
  PROVE  SquareIs(n, sx, x, w)
<1>1. PICK v \in Int, u \in Int : v = n * x /\ u = v - sx
  OBVIOUS
<1>2. u * u \in Int /\ u * u >= 0 /\ (u # 0 => u * u > 0)
  OBVIOUS
<1>3. (n * x - sx) * (n * x - sx) = (n * n) * (x * x) + (0 - 2 * (n * sx)) * x + (sx * sx) * 1
  OBVIOUS
<1> QED BY <1>1, <1>2, <1>3 DEF SquareIs

SquaresAre(n, sx, sxx) ==
  (n * n) * sxx + (0 - 2 * (n * sx)) * sx + (sx * sx) * n = n * (n * sxx - sx * sx)
LEMMA VarianceSum ==
  ASSUME NEW n \in Int, NEW sx \in Int, NEW sxx \in Int
  PROVE  SquaresAre(n, sx, sxx)
BY DEF SquaresAre
LEMMA PositiveFactor ==
  ASSUME NEW n \in Nat, NEW v \in Int, n * v > 0
  PROVE  v > 0
OBVIOUS

LEMMA Varies ==
  ASSUME NEW n, NEW x, NEW y, NEW sx, NEW sy, NEW sxx, NEW sxy,
         Regression(n, x, y, sx, sy, sxx, sxy), n >= 2, x[1] = 0, x[n] > 0
  PROVE  n * sxx - sx * sx \in Int /\ n * sxx - sx * sx > 0
<1>1. /\ n \in Nat /\ n \in Int /\ IsFiniteSet(1..n) /\ IntsOn(x, 1..n)
      /\ sx = Total(x) /\ sx \in Int /\ sxx \in Int
  BY RegressionTypes DEF Regression
<1>2. PICK one : IntsOn(one, 1..n) /\ Total(one) = n /\ \A i \in 1..n : one[i] = 1
  BY <1>1, One
<1>3. PICK xx : IntsOn(xx, 1..n) /\ sxx = Total(xx) /\ \A i \in 1..n : xx[i] = x[i] * x[i]
  BY <1>1, Products DEF Regression
<1>4. PICK q : q = [i \in 1..n |-> (n * x[i] - sx) * (n * x[i] - sx)]
  OBVIOUS
<1>5. PICK a \in Int, b \in Int, c \in Int, z \in Int :
        a = n * n /\ b = 0 - 2 * (n * sx) /\ c = sx * sx /\ z = 0
  BY <1>1
<1>6. ASSUME NEW i \in 1..n
      PROVE  /\ q[i] \in Int /\ q[i] >= 0 /\ (n * x[i] # sx => q[i] > 0)
             /\ q[i] = Mixed(a, xx[i], b, x[i], c, one[i], z, x[i])
  <2>1. PICK v \in Int : v = x[i]
    BY <1>1 DEF IntsOn
  <2>2. /\ q[i] \in Int /\ q[i] >= 0 /\ (n * v # sx => q[i] > 0)
        /\ q[i] = (n * n) * (v * v) + (0 - 2 * (n * sx)) * v + (sx * sx) * 1
    <3>1. q[i] = (n * v - sx) * (n * v - sx)
      BY <1>4, <2>1
    <3>2. SquareIs(n, sx, v, q[i])
      BY <1>1, <3>1, Squares
    <3> QED BY <3>2 DEF SquareIs
  <2>3. q[i] = a * xx[i] + b * v + c * one[i]
    BY <1>2, <1>3, <1>5, <2>1, <2>2
  <2>4. a * xx[i] \in Int /\ b * v \in Int /\ c * one[i] \in Int /\ z * v = 0
    BY <1>2, <1>3, <1>5 DEF IntsOn
  <2> QED BY <2>1, <2>2, <2>3, <2>4 DEF Mixed
<1>7. IntsOn(q, 1..n) /\ Mixes(q, 1..n, a, xx, b, x, c, one, z, x)
  BY <1>4, <1>6 DEF IntsOn, Mixes
<1>8. Total(q) = Mixed(a, Total(xx), b, Total(x), c, Total(one), z, Total(x))
  BY <1>1, <1>2, <1>3, <1>7, Linear
<1>9. Total(q) = n * (n * sxx - sx * sx)
  <2>1. a * sxx \in Int /\ b * sx \in Int /\ c * n \in Int /\ z * sx = 0
    BY <1>1, <1>5
  <2>2. Total(q) = a * sxx + b * sx + c * n
    <3>1. Total(q) = Mixed(a, sxx, b, sx, c, n, z, sx)
      BY <1>1, <1>2, <1>3, <1>8
    <3>2. Mixed(a, sxx, b, sx, c, n, z, sx) = a * sxx + b * sx + c * n
      BY <2>1 DEF Mixed
    <3> QED BY <3>1, <3>2
  <2>3. a * sxx + b * sx + c * n = n * (n * sxx - sx * sx)
    <3>1. (n * n) * sxx + (0 - 2 * (n * sx)) * sx + (sx * sx) * n = n * (n * sxx - sx * sx)
      <4>1. SquaresAre(n, sx, sxx)
        BY <1>1, VarianceSum
      <4> QED BY <4>1 DEF SquaresAre
    <3> QED BY <1>5, <3>1
  <2> QED BY <2>2, <2>3
<1>10. \E i \in 1..n : q[i] > 0
  <2>1. 1 \in 1..n /\ n \in 1..n
    BY <1>1
  <2>2. CASE sx # 0
    <3>1. n * x[1] = 0
      BY <1>1
    <3> QED BY <1>6, <2>1, <2>2, <3>1
  <2>3. CASE sx = 0
    <3>1. PICK v \in Int : v = x[n] /\ v > 0
      BY <1>1, <2>1 DEF IntsOn
    <3>2. n * v # 0
      BY <1>1, <3>1
    <3> QED BY <1>6, <2>1, <2>3, <3>1, <3>2
  <2> QED BY <2>2, <2>3
<1>11. Total(q) > 0
  BY <1>1, <1>6, <1>7, <1>10, NotNegative
<1>12. PICK v \in Int : v = n * sxx - sx * sx
  BY <1>1
<1>13. v > 0
  BY <1>1, <1>9, <1>11, <1>12, PositiveFactor
<1> QED BY <1>12, <1>13

---------------------------------------------------------------------------
(* Of series that move against each other the covariance is not positive. *)
LEMMA Against ==
  ASSUME NEW p \in Int, NEW q \in Int, p <= 0, q >= 0
  PROVE  p * q \in Int /\ p * q <= 0
OBVIOUS
LEMMA Crossed ==
  ASSUME NEW a \in Int, NEW b \in Int, NEW u \in Int, NEW v \in Int
  PROVE  (a - u) * (b - v) = (a * b) * 1 + (0 - a) * v + (0 - b) * u + 1 * (u * v)
OBVIOUS
CrossesAre(n, sx, sy, sxy) ==
  n * sxy + (0 - sy) * sx + (0 - sx) * sy + sxy * n = 2 * (n * sxy - sx * sy)
LEMMA CrossedSum ==
  ASSUME NEW n \in Int, NEW sx \in Int, NEW sy \in Int, NEW sxy \in Int
  PROVE  CrossesAre(n, sx, sy, sxy)
BY DEF CrossesAre

LEMMA NotPositive ==
  ASSUME NEW S, IsFiniteSet(S), NEW f, IntsOn(f, S), \A i \in S : f[i] <= 0
  PROVE  Total(f) \in Int /\ Total(f) <= 0
<1>1. PICK m : m = [i \in S |-> 0 - f[i]]
  OBVIOUS
<1>2. ASSUME NEW i \in S PROVE m[i] \in Int /\ m[i] >= 0 /\ f[i] \in Int /\ m[i] = (0 - 1) * f[i] + 0 * f[i]
  <2>1. f[i] \in Int /\ f[i] <= 0 /\ m[i] = 0 - f[i]
    BY <1>1 DEF IntsOn
  <2> QED BY <2>1
<1>3. IntsOn(m, S)
  BY <1>1, <1>2 DEF IntsOn
<1>4. PICK a \in Int, b \in Int : a = 0 - 1 /\ b = 0
  OBVIOUS
<1>5. Scales(m, S, a, f, b, f)
  BY <1>2, <1>4 DEF Scales
<1>6. Combined(Total(m), a, Total(f), b, Total(f))
  BY <1>3, <1>5, TwoTerms
<1>7. Total(m) \in Int /\ Total(m) >= 0
  BY <1>2, <1>3, NotNegative
<1>8. Total(f) \in Int
  BY SumIsInt
<1> QED BY <1>4, <1>6, <1>7, <1>8 DEF Combined

Opposed(x, y, n) ==
  \A i, j \in 1..n : i <= j => x[i] <= x[j] /\ y[j] <= y[i]
LEMMA RowOfPairs ==
  ASSUME NEW n, NEW x, NEW y, NEW sx, NEW sy, NEW sxx, NEW sxy,
         Regression(n, x, y, sx, sy, sxx, sxy), Opposed(x, y, n), NEW i \in 1..n
  PROVE  /\ x[i] \in Int /\ y[i] \in Int
         /\ n * (x[i] * y[i]) + (0 - sy) * x[i] + (0 - sx) * y[i] + sxy * 1 <= 0
<1>1. /\ n \in Nat /\ IsFiniteSet(1..n) /\ IntsOn(x, 1..n) /\ IntsOn(y, 1..n)
      /\ sx = Total(x) /\ sy = Total(y)
      /\ sx \in Int /\ sy \in Int /\ sxx \in Int /\ sxy \in Int
  BY RegressionTypes DEF Regression
<1>2. PICK one : IntsOn(one, 1..n) /\ Total(one) = n /\ \A j \in 1..n : one[j] = 1
  BY <1>1, One
<1>3. PICK xy : IntsOn(xy, 1..n) /\ sxy = Total(xy) /\ \A j \in 1..n : xy[j] = x[j] * y[j]
  BY <1>1, Products DEF Regression
<1>4. PICK a \in Int, b \in Int : a = x[i] /\ b = y[i]
  BY <1>1 DEF IntsOn
<1>5. PICK t : t = [j \in 1..n |-> (a - x[j]) * (b - y[j])]
  OBVIOUS
<1>6. PICK p \in Int, c \in Int, d \in Int, e \in Int : p = a * b /\ c = 0 - a /\ d = 0 - b /\ e = 1
  BY <1>4
<1>7. ASSUME NEW j \in 1..n
      PROVE  t[j] \in Int /\ t[j] <= 0 /\ t[j] = Mixed(p, one[j], c, y[j], d, x[j], e, xy[j])
  <2>1. PICK u \in Int, v \in Int : u = x[j] /\ v = y[j]
    BY <1>1 DEF IntsOn
  <2>2. t[j] = (a - u) * (b - v)
    BY <1>5, <2>1
  <2>3. t[j] \in Int /\ t[j] <= 0
    <3>1. i \in Int /\ j \in Int
      OBVIOUS
    <3>2. CASE i <= j
      <4>1. a - u <= 0 /\ b - v >= 0 /\ a - u \in Int /\ b - v \in Int
        BY <1>4, <2>1, <3>2 DEF Opposed
      <4> QED BY <2>2, <4>1, Against
    <3>3. CASE j <= i
      <4>1. a - u >= 0 /\ b - v <= 0 /\ a - u \in Int /\ b - v \in Int
        BY <1>4, <2>1, <3>3 DEF Opposed
      <4>2. (b - v) * (a - u) \in Int /\ (b - v) * (a - u) <= 0
        BY <4>1, Against
      <4>3. (b - v) * (a - u) = (a - u) * (b - v)
        BY <1>4, <2>1
      <4> QED BY <2>2, <4>2, <4>3
    <3> QED BY <3>1, <3>2, <3>3
  <2>4. t[j] = p * 1 + c * v + d * u + e * (u * v)
    BY <1>6, <2>2, Crossed
  <2>5. t[j] = p * one[j] + c * y[j] + d * x[j] + e * xy[j]
    BY <1>2, <1>3, <2>1, <2>4
  <2> QED BY <2>3, <2>5 DEF Mixed
<1>8. IntsOn(t, 1..n) /\ Mixes(t, 1..n, p, one, c, y, d, x, e, xy)
  BY <1>5, <1>7 DEF IntsOn, Mixes
<1>9. Total(t) = Mixed(p, Total(one), c, Total(y), d, Total(x), e, Total(xy))
  BY <1>1, <1>2, <1>3, <1>8, Linear
<1>10. Total(t) <= 0
  BY <1>1, <1>7, <1>8, NotPositive
<1>11. p * n + c * sy + d * sx + e * sxy <= 0
  BY <1>1, <1>2, <1>3, <1>9, <1>10 DEF Mixed
<1>12. p * n + c * sy + d * sx + e * sxy = n * (a * b) + (0 - sy) * a + (0 - sx) * b + sxy * 1
  BY <1>1, <1>6
<1> QED BY <1>4, <1>11, <1>12

LEMMA NotTogether ==
  ASSUME NEW n, NEW x, NEW y, NEW sx, NEW sy, NEW sxx, NEW sxy,
         Regression(n, x, y, sx, sy, sxx, sxy), Opposed(x, y, n)
  PROVE  n * sxy - sx * sy <= 0
<1>1. /\ n \in Nat /\ n \in Int /\ IsFiniteSet(1..n) /\ IntsOn(x, 1..n) /\ IntsOn(y, 1..n)
      /\ sx = Total(x) /\ sy = Total(y)
      /\ sx \in Int /\ sy \in Int /\ sxx \in Int /\ sxy \in Int
  BY RegressionTypes DEF Regression
<1>2. PICK one : IntsOn(one, 1..n) /\ Total(one) = n /\ \A i \in 1..n : one[i] = 1
  BY <1>1, One
<1>3. PICK xy : IntsOn(xy, 1..n) /\ sxy = Total(xy) /\ \A i \in 1..n : xy[i] = x[i] * y[i]
  BY <1>1, Products DEF Regression
<1>4. PICK c \in Int, d \in Int : c = 0 - sy /\ d = 0 - sx
  BY <1>1
<1>5. PICK t : t = [i \in 1..n |-> n * xy[i] + c * x[i] + d * y[i] + sxy * one[i]]
  OBVIOUS
<1>6. ASSUME NEW i \in 1..n
      PROVE  t[i] \in Int /\ t[i] <= 0 /\ t[i] = Mixed(n, xy[i], c, x[i], d, y[i], sxy, one[i])
  <2>1. /\ x[i] \in Int /\ y[i] \in Int
        /\ n * (x[i] * y[i]) + (0 - sy) * x[i] + (0 - sx) * y[i] + sxy * 1 <= 0
    BY RowOfPairs
  <2>2. t[i] = n * (x[i] * y[i]) + (0 - sy) * x[i] + (0 - sx) * y[i] + sxy * 1
    BY <1>2, <1>3, <1>4, <1>5
  <2>3. t[i] = Mixed(n, xy[i], c, x[i], d, y[i], sxy, one[i])
    BY <1>5 DEF Mixed
  <2>4. n * xy[i] \in Int /\ c * x[i] \in Int /\ d * y[i] \in Int /\ sxy * one[i] \in Int
    <3>1. PICK u \in Int, v \in Int, w \in Int, o \in Int :
            u = x[i] /\ v = y[i] /\ w = xy[i] /\ o = one[i]
      BY <1>2, <1>3, <2>1 DEF IntsOn
    <3>2. n * w \in Int /\ c * u \in Int /\ d * v \in Int /\ sxy * o \in Int
      BY <1>1
    <3> QED BY <3>1, <3>2
  <2>5. t[i] \in Int
    BY <1>5, <2>4
  <2> QED BY <2>1, <2>2, <2>3, <2>5
<1>7. IntsOn(t, 1..n) /\ Mixes(t, 1..n, n, xy, c, x, d, y, sxy, one)
  BY <1>5, <1>6 DEF IntsOn, Mixes
<1>8. Total(t) = Mixed(n, Total(xy), c, Total(x), d, Total(y), sxy, Total(one))
  BY <1>1, <1>2, <1>3, <1>7, Linear
<1>9. Total(t) <= 0
  BY <1>1, <1>6, <1>7, NotPositive
<1>10. n * sxy + c * sx + d * sy + sxy * n <= 0
  BY <1>1, <1>2, <1>3, <1>8, <1>9 DEF Mixed
<1>11. 2 * (n * sxy - sx * sy) <= 0
  <2>1. n * sxy + (0 - sy) * sx + (0 - sx) * sy + sxy * n = 2 * (n * sxy - sx * sy)
    <3>1. CrossesAre(n, sx, sy, sxy)
      BY <1>1, CrossedSum
    <3> QED BY <3>1 DEF CrossesAre
  <2> QED BY <1>4, <1>10, <2>1
<1>12. PICK v \in Int : v = n * sxy - sx * sy
  BY <1>1
<1> QED BY <1>11, <1>12

---------------------------------------------------------------------------
(* A common factor leaves a quotient as it is. *)
Times(p, v, a) == p = v * a
SameQuotient(p, m, a, b) == p \div m = a \div b
LEMMA Cancelled ==
  ASSUME NEW v \in Nat, v > 0, NEW a \in Int, NEW b \in Nat, b > 0,
         NEW p, NEW m, Times(p, v, a), Times(m, v, b)
  PROVE  SameQuotient(p, m, a, b)
<1>0. p = v * a /\ m = v * b
  BY DEF Times
<1>1. PICK q \in Int : q = a \div b /\ b * q \in Int /\ b * q <= a /\ a < b * q + b
  BY Quotient
<1>2. p \in Int /\ m \in Nat /\ m > 0
  BY <1>0
<1>3. PICK r \in Int : r = p \div m /\ m * r \in Int /\ m * r <= p /\ p < m * r + m
  BY <1>2, Quotient
<1>4. PICK w \in Int : w = b * q /\ w <= a /\ a + 1 <= w + b
  BY <1>1
<1>5. v * w <= v * a /\ v * (a + 1) <= v * (w + b) /\ v * (a + 1) = v * a + v /\ v * (w + b) = v * w + v * b
  <2>1. v * w <= v * a
    BY <1>4, Scaled
  <2>2. v * (a + 1) <= v * (w + b)
    <3>1. PICK c \in Int, d \in Int : c = a + 1 /\ d = w + b
      OBVIOUS
    <3>2. v * c <= v * d
      BY <1>4, <3>1, Scaled
    <3> QED BY <3>1, <3>2
  <2>3. v * (a + 1) = v * a + v /\ v * (w + b) = v * w + v * b
    OBVIOUS
  <2> QED BY <2>1, <2>2, <2>3
<1>6. v * w = m * q
  BY <1>0, <1>4
<1>7. m * q <= p /\ p < m * q + m /\ m * q \in Int
  BY <1>0, <1>2, <1>5, <1>6
<1>8. ~(q + 1 <= r)
  <2> SUFFICES ASSUME q + 1 <= r PROVE FALSE
    OBVIOUS
  <2>1. PICK c \in Int : c = q + 1
    OBVIOUS
  <2>2. m * c <= m * r /\ m * c = m * q + m
    <3>1. m * c <= m * r
      BY <1>2, <2>1, Scaled
    <3>2. m * c = m * q + m
      BY <1>2, <2>1
    <3> QED BY <3>1, <3>2
  <2> QED BY <1>2, <1>3, <1>7, <2>2
<1>9. ~(r + 1 <= q)
  <2> SUFFICES ASSUME r + 1 <= q PROVE FALSE
    OBVIOUS
  <2>1. PICK c \in Int : c = r + 1
    OBVIOUS
  <2>2. m * c <= m * q /\ m * c = m * r + m
    <3>1. m * c <= m * q
      BY <1>2, <2>1, Scaled
    <3>2. m * c = m * r + m
      BY <1>2, <2>1
    <3> QED BY <3>1, <3>2
  <2> QED BY <1>2, <1>3, <1>7, <2>2
<1> QED BY <1>1, <1>3, <1>8, <1>9 DEF SameQuotient

(* What fillForecast makes of the sums of its points. *)
Points(pts) == IsSeq(pts) /\ Dated(pts) /\ InOrder(pts) /\ \A i \in 1..Len(pts) : pts[i].val \in Int
Forecast(n, varX, covXY, left) ==
  IF n < 3 \/ varX <= 0 \/ covXY <= 0 \/ left <= 0 THEN NoForecast
  ELSE IF (2 * left * varX + covXY) \div (2 * covXY) > Horizon THEN NoForecast
       ELSE (2 * left * varX + covXY) \div (2 * covXY)
Fitted(pts, x, y, sx, sy, sxx, sxy) ==
  /\ Regression(Len(pts), x, y, sx, sy, sxx, sxy)
  /\ \A i \in 1..Len(pts) : x[i] = pts[i].at - pts[1].at /\ y[i] = pts[i].val
  /\ fillForecast(pts) = Forecast(Len(pts), Len(pts) * sxx - sx * sx, Len(pts) * sxy - sx * sy,
                                  DiskSize - pts[Len(pts)].val)
LEMMA FittedSums ==
  ASSUME NEW pts, Points(pts)
  PROVE  \E x, y, sx, sy, sxx, sxy : Fitted(pts, x, y, sx, sy, sxx, sxy)
<1>1. PICK n \in Nat : n = Len(pts)
  BY SeqElements DEF Points, IsSeq
<1>2. PICK x, y : x = [i \in 1..n |-> pts[i].at - pts[1].at] /\ y = [i \in 1..n |-> pts[i].val]
  OBVIOUS
<1>3. ASSUME NEW i \in 1..n
      PROVE  x[i] \in Int /\ y[i] \in Int /\ x[i] = pts[i].at - pts[1].at /\ y[i] = pts[i].val
  <2>1. 1 \in 1..n
    OBVIOUS
  <2>2. pts[i].at \in Int /\ pts[1].at \in Int
    BY <1>1, <2>1 DEF Points, Dated
  <2>3. pts[i].val \in Int
    BY <1>1 DEF Points
  <2> QED BY <1>2, <2>2, <2>3
<1>4. IntsOn(x, 1..n) /\ IntsOn(y, 1..n)
  BY <1>2, <1>3 DEF IntsOn
<1>5. PICK sx, sy, sxx, sxy : sx = Total(x) /\ sy = Total(y) /\ sxx = Dot(x, x) /\ sxy = Dot(x, y)
  OBVIOUS
<1>6. Regression(n, x, y, sx, sy, sxx, sxy)
  BY <1>4, <1>5 DEF Regression
<1>7. fillForecast(pts) = Forecast(n, n * sxx - sx * sx, n * sxy - sx * sy, DiskSize - pts[n].val)
  BY <1>1, <1>2, <1>5 DEF fillForecast, Forecast
<1>8. Fitted(pts, x, y, sx, sy, sxx, sxy)
  BY <1>1, <1>3, <1>6, <1>7 DEF Fitted
<1> QED BY <1>8

---------------------------------------------------------------------------
LEMMA StableNever ==
  ASSUME NEW pts, Points(pts)
  PROVE  NeverIfStable(pts)
<1> SUFFICES ASSUME \A i \in 1..(Len(pts) - 1) : pts[i + 1].val <= pts[i].val
             PROVE  fillForecast(pts) = NoForecast
  BY DEF NeverIfStable
<1>1. PICK x, y, sx, sy, sxx, sxy : Fitted(pts, x, y, sx, sy, sxx, sxy)
  BY FittedSums
<1>2. PICK n \in Nat : n = Len(pts)
  BY SeqElements DEF Points, IsSeq
<1>3. Regression(n, x, y, sx, sy, sxx, sxy)
  BY <1>1, <1>2 DEF Fitted
<1>4. \A i \in 1..n : y[i] \in Int /\ y[i] = pts[i].val
  BY <1>1, <1>2 DEF Fitted, Points
<1> DEFINE Bad == {d \in Nat : \E i \in 1..n : i + d \in 1..n /\ ~(y[i + d] <= y[i])}
<1>5. ASSUME Bad # {} PROVE FALSE
  <2>1. Bad \subseteq Nat
    OBVIOUS
  <2>2. PICK d \in Bad : \A m \in Bad : d <= m
    <3> HIDE DEF Bad
    <3> QED BY <1>5, <2>1, LeastOf
  <2>3. d \in Nat /\ \E i \in 1..n : i + d \in 1..n /\ ~(y[i + d] <= y[i])
    BY <2>2
  <2>4. PICK i \in 1..n : i + d \in 1..n /\ ~(y[i + d] <= y[i])
    BY <2>3
  <2>5. d # 0
    BY <1>4, <2>4
  <2>6. d - 1 \in Nat /\ i + (d - 1) \in 1..n /\ (i + (d - 1)) + 1 = i + d
    BY <2>3, <2>4, <2>5
  <2>7. d - 1 \notin Bad
    <3> HIDE DEF Bad
    <3> QED BY <2>2, <2>3, <2>6
  <2>8. y[i + (d - 1)] <= y[i]
    BY <2>6, <2>7
  <2>9. PICK j : j = i + (d - 1) /\ j \in 1..n /\ j + 1 = i + d
    BY <2>6
  <2>10. j \in 1..(Len(pts) - 1)
    BY <1>2, <2>4, <2>9
  <2>11. pts[j + 1].val <= pts[j].val
    BY <2>10
  <2>12. y[i + d] <= y[j]
    BY <1>4, <2>4, <2>9, <2>11
  <2>13. y[i + d] \in Int /\ y[j] \in Int /\ y[i] \in Int
    BY <1>4, <2>4, <2>9
  <2> QED BY <2>4, <2>8, <2>9, <2>12, <2>13
<1>6. Opposed(x, y, n)
  <2> SUFFICES ASSUME NEW i \in 1..n, NEW j \in 1..n, i <= j
               PROVE  x[i] <= x[j] /\ y[j] <= y[i]
    BY DEF Opposed
  <2>1. x[i] <= x[j]
    <3>1. pts[i].at <= pts[j].at
      BY <1>2 DEF Points, InOrder
    <3>2. 1 \in 1..n
      OBVIOUS
    <3>3. pts[i].at \in Int /\ pts[j].at \in Int /\ pts[1].at \in Int
      BY <1>2, <3>2 DEF Points, Dated
    <3>4. x[i] = pts[i].at - pts[1].at /\ x[j] = pts[j].at - pts[1].at
      BY <1>1, <1>2 DEF Fitted
    <3> QED BY <3>1, <3>3, <3>4
  <2>2. y[j] <= y[i]
    <3>1. PICK d \in Nat : d = j - i /\ i + d = j
      <4>1. j - i \in Nat /\ i + (j - i) = j
        OBVIOUS
      <4> QED BY <4>1
    <3>2. d \notin Bad
      <4> HIDE DEF Bad
      <4> QED BY <1>5
    <3> QED BY <3>1, <3>2
  <2> QED BY <2>1, <2>2
<1>7. n * sxy - sx * sy <= 0
  BY <1>3, <1>6, NotTogether
<1>8. fillForecast(pts) = Forecast(n, n * sxx - sx * sx, n * sxy - sx * sy, DiskSize - pts[n].val)
  BY <1>1, <1>2 DEF Fitted
<1> QED BY <1>7, <1>8 DEF Forecast

LEMMA SteadyFull ==
  ASSUME NEW pts, Points(pts), NEW g \in Nat, g > 0
  PROVE  FullWhenDue(pts, g)
<1> SUFFICES ASSUME Steady(pts, g), pts[Len(pts)].val < DiskSize, Due(pts, g) <= Horizon
             PROVE  fillForecast(pts) = Due(pts, g)
  BY DEF FullWhenDue
<1>1. PICK x, y, sx, sy, sxx, sxy : Fitted(pts, x, y, sx, sy, sxx, sxy)
  BY FittedSums
<1>2. PICK n \in Nat : n = Len(pts) /\ n >= 3 /\ pts[n].at > pts[1].at
  BY SeqElements DEF Points, IsSeq, Steady
<1>3. Regression(n, x, y, sx, sy, sxx, sxy)
  BY <1>1, <1>2 DEF Fitted
<1>4. 1 \in 1..n /\ n \in 1..n
  BY <1>2
<1>5. pts[1].at \in Int /\ pts[n].at \in Int
  BY <1>2, <1>4 DEF Points, Dated
<1>6. pts[1].val \in Int /\ pts[n].val \in Int /\ DiskSize \in Nat /\ Horizon \in Nat
  BY <1>2, <1>4, CollectorAssumption DEF Points
<1>7. \A i \in 1..n : x[i] = pts[i].at - pts[1].at /\ y[i] = pts[i].val
  BY <1>1, <1>2 DEF Fitted
<1>8. x[1] = 0 /\ x[n] > 0
  BY <1>2, <1>4, <1>5, <1>7
<1>9. PICK v \in Nat : v = n * sxx - sx * sx /\ v > 0
  <2>1. n * sxx - sx * sx \in Int /\ n * sxx - sx * sx > 0
    BY <1>2, <1>3, <1>8, Varies
  <2> QED BY <2>1
<1>10. n * sxy - sx * sy = g * v
  <2>1. PICK c \in Int : c = pts[1].val
    BY <1>6
  <2>2. ASSUME NEW i \in 1..n PROVE y[i] = c + g * x[i]
    <3>1. pts[i].val - pts[1].val = g * (pts[i].at - pts[1].at)
      BY <1>2 DEF Steady
    <3>2. pts[i].val \in Int
      BY <1>2 DEF Points
    <3> QED BY <1>7, <2>1, <3>1, <3>2
  <2>3. g \in Int
    OBVIOUS
  <2>4. Line(x, y, n, c, g)
    BY <2>2 DEF Line
  <2>5. Sloped(n, sx, sy, sxx, sxy, g)
    BY <1>3, <2>3, <2>4, OnALine
  <2> QED BY <1>9, <2>5 DEF Sloped
<1>11. PICK left \in Int : left = DiskSize - pts[n].val /\ left > 0
  <2>1. DiskSize - pts[n].val \in Int /\ DiskSize - pts[n].val > 0
    BY <1>2, <1>6
  <2> QED BY <2>1
<1>12. fillForecast(pts) = Forecast(n, v, g * v, left)
  BY <1>1, <1>2, <1>9, <1>10, <1>11 DEF Fitted
<1>13. g * v \in Int /\ g * v > 0
  BY <1>9
<1>14. PICK eta : eta = (2 * left * v + g * v) \div (2 * (g * v))
  OBVIOUS
<1>15. eta = Due(pts, g)
  <2>1. PICK a \in Int, b \in Nat : a = 2 * left + g /\ b = 2 * g /\ b > 0
    OBVIOUS
  <2>2. PICK p, m : p = 2 * left * v + g * v /\ m = 2 * (g * v)
    OBVIOUS
  <2>3. Times(p, v, a) /\ Times(m, v, b)
    BY <2>1, <2>2 DEF Times
  <2>7. SameQuotient(p, m, a, b)
    BY <1>9, <2>1, <2>3, Cancelled
  <2>4. p \div m = a \div b
    BY <2>7 DEF SameQuotient
  <2>5. eta = p \div m
    BY <1>14, <2>2
  <2>6. Due(pts, g) = a \div b
    BY <1>2, <1>11, <2>1 DEF Due
  <2> QED BY <2>4, <2>5, <2>6
<1>16. eta \in Int /\ eta <= Horizon
  <2>1. 2 * left * v + g * v \in Int /\ 2 * (g * v) \in Nat /\ 2 * (g * v) > 0
    BY <1>9, <1>13
  <2>2. eta \in Int
    BY <1>14, <2>1, Quotient
  <2> QED BY <1>15, <2>2
<1>17. Forecast(n, v, g * v, left) = eta
  <2>1. PICK cov \in Int : cov = g * v /\ cov > 0
    BY <1>13
  <2>2. eta = (2 * left * v + cov) \div (2 * cov)
    BY <1>14, <2>1
  <2>3. ~(n < 3 \/ v <= 0 \/ cov <= 0 \/ left <= 0)
    BY <1>2, <1>9, <1>11, <2>1
  <2>4. ~(eta > Horizon)
    BY <1>6, <1>16
  <2>5. Forecast(n, v, cov, left) = eta
    BY <2>2, <2>3, <2>4, Zenon DEF Forecast
  <2> QED BY <2>1, <2>5
<1> QED BY <1>12, <1>15, <1>17

---------------------------------------------------------------------------
LEMMA ForecastPoints ==
  ASSUME HistoryInv, NEW u, NEW since \in Int
  PROVE  Points(RecentDiskUsage(src, Node, u, since))
<1>1. PICK s : s = src["disk_usage_sample"]
  OBVIOUS
<1>2. IsSeq(s) /\ Dated(s) /\ Len(s) \in Nat /\ DOMAIN s = 1..Len(s)
  <2>1. "disk_usage_sample" \in SeriesTables
    BY DEF SeriesTables
  <2>2. now \in Int /\ Fine(src, now, {Node}, Keys)
    BY DEF HistoryInv, HonestInv, CollectorInv
  <2>3. IsSeq(s) /\ Dated(s)
    BY <1>1, <2>1, <2>2, FineIsDated
  <2> QED BY <2>3, SeqElements DEF IsSeq
<1>3. PICK ids : ids = {i \in 1..Len(s) : s[i].node = Node /\ s[i].key = u /\ s[i].at >= since}
  OBVIOUS
<1>4. PICK pts : pts = ByTime(s, ids)
  OBVIOUS
<1>5. RecentDiskUsage(src, Node, u, since) = pts
  BY <1>1, <1>2, <1>3, <1>4 DEF RecentDiskUsage, Recent, LastOf
<1>6. ids \subseteq 1..Len(s)
  BY <1>3
<1>7. ListsByTime(s, ids, pts)
  BY <1>2, <1>4, <1>6, ByTimeFacts
<1>8. \A i \in 1..Len(pts) : pts[i].val \in Int
  <2>1. \A i \in 1..Len(s) : s[i] \in ToSet(s)
    BY <1>2, SeqElements DEF IsSeq
  <2>2. \A r \in ToSet(pts) : r \in ToSet(s)
    BY <1>6, <1>7, <2>1 DEF ListsByTime
  <2>3. \A i \in 1..Len(pts) : pts[i] \in ToSet(pts)
    BY <1>7, SeqElements DEF ListsByTime, IsSeq
  <2>4. \A r \in ToSet(s) : r.val \in Nat
    BY <1>1 DEF HistoryInv, UsageCounts
  <2>5. \A i \in 1..Len(pts) : pts[i].val \in Nat
    BY <2>2, <2>3, <2>4
  <2> QED BY <2>5
<1> QED BY <1>5, <1>7, <1>8 DEF Points, ListsByTime

(* Whatever a mount's history: a disk that never grew is never forecast to *)
(* fill, and one that has grown by the same amount every second is         *)
(* forecast to be full exactly when it will be (forecast.go fillForecast). *)
THEOREM ForecastIsExact == CollectorSpec => []ForecastExact
<1>1. HistoryInv => ForecastExact
  <2> SUFFICES ASSUME HistoryInv, NEW u \in Units, NEW pts, pts = RecentDiskUsage(src, Node, u, 0)
               PROVE  NeverIfStable(pts) /\ \A g \in 1..Cores : FullWhenDue(pts, g)
    BY DEF ForecastExact
  <2>1. 0 \in Int
    OBVIOUS
  <2>2. Points(pts)
    BY <2>1, ForecastPoints
  <2>3. NeverIfStable(pts)
    BY <2>2, StableNever
  <2>4. ASSUME NEW g \in 1..Cores PROVE FullWhenDue(pts, g)
    <3>1. g \in Nat /\ g > 0
      BY CollectorAssumption
    <3> QED BY <2>2, <3>1, SteadyFull
  <2> QED BY <2>3, <2>4
<1> QED BY <1>1, HistoryAlways, PTL

(* The same at any rate of growth and over any part of the history: the    *)
(* forecast of a steady disk does not depend on how far back it looks.     *)
THEOREM EverySteadyDisk ==
  CollectorSpec => [](\A u \in Units, g \in Nat \ {0}, since \in Int :
                        FullWhenDue(RecentDiskUsage(src, Node, u, since), g))
<1>1. HistoryInv => \A u \in Units, g \in Nat \ {0}, since \in Int :
                      FullWhenDue(RecentDiskUsage(src, Node, u, since), g)
  <2> SUFFICES ASSUME HistoryInv, NEW u \in Units, NEW g \in Nat \ {0}, NEW since \in Int,
                      NEW pts, pts = RecentDiskUsage(src, Node, u, since)
               PROVE  FullWhenDue(pts, g)
    OBVIOUS
  <2>1. Points(pts)
    BY ForecastPoints
  <2>2. g \in Nat /\ g > 0
    OBVIOUS
  <2> QED BY <2>1, <2>2, SteadyFull
<1> QED BY <1>1, HistoryAlways, PTL
=============================================================================
