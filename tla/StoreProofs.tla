----------------------------- MODULE StoreProofs ------------------------------
(* Proofs about what a node stores beside its blocks: the journal adds up       *)
(* (JournalAddsUp), and the variable store holds what its callers were told and *)
(* writes atomic batches whole (ReportedIsStored, AtomicBatchesAreWhole), for any *)
(* heights, chains, writers, namespaces, calls and bounds.                     *)
EXTENDS Journal, Vars, CollectionProofs

(* The journal.                                                              *)

(* The configuration names no chain with a writer twice (types.ts, adapters:     *)
(* ['mock']); of a chain it names twice, every journal is written twice.       *)
EachChainOnce == IsInjective(Targets)

(* The types in parts.  Flights are finitely many, and what is left of one is     *)
(* the end of the chains to write to.                                         *)
Journals == {j \in Seq(Heights) : IsJournal(j)}
QueueTypes == pending \in Seq(Heights) /\ Ascending(pending)
FlightTypes ==
    /\ IsFiniteSet(flights)
    /\ flights \subseteq [journal : Journals, left : Seq(Registered), by : {"timer", "flush"}]
    /\ \A f \in flights : \E n \in 0..Len(Targets) : f.left = SubSeq(Targets, n + 1, Len(Targets))
CountTypes ==
    /\ totalWritten \in Nat /\ timers \in 0..MaxTimers /\ held \in BOOLEAN /\ (held => timers > 0)
    /\ {checkpoint, saved, resumed} \subseteq Checkpoint /\ since \in Nat
    /\ restarts \in 0..MaxRestarts
HistoryTypes ==
    /\ added \subseteq Heights /\ settled \subseteq Journals
    /\ landed \in [Registered -> Seq(Journals)]
JournalTyped == QueueTypes /\ FlightTypes /\ CountTypes /\ HistoryTypes

(* A journal is under way in one flight, or settled, and shares no block with     *)
(* another or with the queue.                                                 *)
OneFlight == \A f, g \in flights : f.journal = g.journal => f = g
Accounted ==
    /\ added = Elements(pending) \cup Covered(Flying \cup settled)
    /\ \A j \in Flying \cup settled :
          Disjoint(j, pending) /\ \A k \in (Flying \cup settled) \ {j} : Disjoint(j, k)
    /\ Flying \cap settled = {}

(* The writes that landed are finitely many, and not fewer than those counted.    *)
Landings == UNION {{a} \X DOMAIN landed[a] : a \in Registered}
Counted ==
    /\ checkpoint.total = resumed.total + totalWritten
    /\ checkpoint.total = saved.total + since /\ since < CheckpointInterval
    /\ IsFiniteSet(Landings) /\ totalWritten <= Cardinality(Landings)

JournalIInv == JournalTyped /\ OneFlight /\ Accounted /\ LandsOnce /\ Counted

-----------------------------------------------------------------------------
(* What is kept of a sorted sequence is sorted.                                  *)
LEMMA KeptAscending ==
    ASSUME NEW s \in Seq(Heights), Ascending(s), NEW S
    PROVE  /\ Filtered(s, S) \in Seq(Heights) /\ Ascending(Filtered(s, S))
           /\ Elements(Filtered(s, S)) = Elements(s) \cap S
<1> DEFINE n == Cardinality(KeptIn(s, S))
<1>0. PICK t : t = Filtered(s, S)
  OBVIOUS
<1>1. /\ t \in Seq(Heights)
      /\ \A k \in DOMAIN t : \E i \in DOMAIN s : t[k] = s[i] /\ s[i] \in S
      /\ \A i \in DOMAIN s : s[i] \in S => \E k \in DOMAIN t : t[k] = s[i]
  <2>1. Filtered(s, S) \in Seq(Heights)
    BY FilteredProperties
  <2>2. \A k \in DOMAIN Filtered(s, S) : \E i \in DOMAIN s : Filtered(s, S)[k] = s[i] /\ s[i] \in S
    BY FilteredProperties
  <2>3. \A i \in DOMAIN s : s[i] \in S => \E k \in DOMAIN Filtered(s, S) : Filtered(s, S)[k] = s[i]
    BY FilteredProperties
  <2> QED BY <1>0, <2>1, <2>2, <2>3
<1>2. PICK f \in [1..n -> KeptIn(s, S)] :
        /\ \A k \in DOMAIN t : t[k] = s[f[k]]
        /\ \A k, l \in DOMAIN t : k < l => f[k] < f[l]
  BY <1>0, FilteredEnumerates
<1>3. DOMAIN t = 1..n
  BY <1>0, FilteredEnumerates
<1> HIDE DEF n
<1>4. \A k \in DOMAIN t : f[k] \in DOMAIN s
  BY <1>2, <1>3 DEF KeptIn
<1>5. Ascending(t)
  BY <1>2, <1>4 DEF Ascending
<1>6. Elements(t) = Elements(s) \cap S
  BY <1>1 DEF Elements
<1> QED BY <1>0, <1>1, <1>5, <1>6

(* A sorted sequence below h, h, and one above it, joined.                       *)
LEMMA JoinedAscending ==
    ASSUME NEW a \in Seq(Heights), Ascending(a), NEW b \in Seq(Heights), Ascending(b), NEW h \in Heights,
           \A x \in Elements(a) : x < h, \A x \in Elements(b) : x > h
    PROVE  LET s == a \o <<h>> \o b
           IN  s \in Seq(Heights) /\ Ascending(s) /\ Elements(s) = Elements(a) \cup {h} \cup Elements(b)
<1> DEFINE s == a \o <<h>> \o b
           m == Len(a)
           n == Len(b)
<1>1. Heights \subseteq Nat
  BY JournalAssumption
<1>2. m \in Nat /\ DOMAIN a = 1..m /\ n \in Nat /\ DOMAIN b = 1..n
  OBVIOUS
<1>3. <<h>> \in Seq(Heights) /\ Len(<<h>>) = 1 /\ <<h>>[1] = h
  OBVIOUS
<1>4. PICK c : c = a \o <<h>>
  OBVIOUS
<1>5. /\ c \in Seq(Heights) /\ Len(c) = m + 1
      /\ \A i \in 1..m + 1 : c[i] = IF i <= m THEN a[i] ELSE h
  <2>1. /\ a \o <<h>> \in Seq(Heights) /\ Len(a \o <<h>>) = m + 1
        /\ \A i \in 1..m + 1 : (a \o <<h>>)[i] = IF i <= m THEN a[i] ELSE <<h>>[i - m]
    BY <1>3, ConcatProperties
  <2>2. ASSUME NEW i \in 1..m + 1, ~(i <= m) PROVE <<h>>[i - m] = h
    <3>1. i - m = 1
      BY <1>2, <2>2
    <3> QED BY <1>3, <3>1
  <2> QED BY <1>4, <2>1, <2>2
<1>6. s = c \o b
  BY <1>4
<1>7. /\ s \in Seq(Heights) /\ Len(s) = m + 1 + n
      /\ \A i \in 1..m + 1 + n : s[i] = IF i <= m + 1 THEN c[i] ELSE b[i - (m + 1)]
  BY <1>5, <1>6, ConcatProperties
<1>8. DOMAIN s = 1..m + 1 + n
  BY <1>7
<1> HIDE DEF s, m, n
<1>9. \A i \in 1..m : s[i] = a[i] /\ a[i] \in Elements(a) /\ a[i] \in Nat
  <2> SUFFICES ASSUME NEW i \in 1..m PROVE s[i] = a[i] /\ a[i] \in Elements(a) /\ a[i] \in Nat
    OBVIOUS
  <2>1. a[i] \in Heights /\ a[i] \in Elements(a)
    BY <1>2 DEF Elements
  <2>2. i \in 1..m + 1 /\ i \in 1..m + 1 + n /\ i <= m + 1 /\ i <= m
    BY <1>2
  <2> QED BY <1>1, <1>5, <1>7, <2>1, <2>2
<1>10. s[m + 1] = h
  BY <1>2, <1>5, <1>7
<1>11. \A i \in m + 2..m + 1 + n : s[i] = b[i - (m + 1)] /\ i - (m + 1) \in 1..n
  BY <1>2, <1>7
<1>12. \A i \in 1..n : b[i] \in Elements(b) /\ b[i] \in Nat
  <2> SUFFICES ASSUME NEW i \in 1..n PROVE b[i] \in Elements(b) /\ b[i] \in Nat
    OBVIOUS
  <2>1. b[i] \in Heights /\ b[i] \in Elements(b)
    BY <1>2 DEF Elements
  <2> QED BY <1>1, <2>1
<1>13. Ascending(s)
  <2> SUFFICES ASSUME NEW i \in 1..m + 1 + n, NEW j \in 1..m + 1 + n, i < j PROVE s[i] < s[j]
    BY <1>8 DEF Ascending
  <2>1. CASE j \in 1..m
    BY <1>2, <1>9, <2>1 DEF Ascending
  <2>2. CASE j = m + 1
    BY <1>2, <1>9, <1>10, <2>2
  <2>3. CASE j \in m + 2..m + 1 + n /\ i \in m + 2..m + 1 + n
    <3>1. i - (m + 1) < j - (m + 1)
      BY <1>2
    <3> QED BY <1>2, <1>11, <2>3, <3>1 DEF Ascending
  <2>4. CASE j \in m + 2..m + 1 + n /\ i \in 1..m + 1
    <3>1. s[j] > h /\ s[j] \in Nat
      BY <1>11, <1>12, <2>4
    <3>2. s[i] <= h /\ s[i] \in Nat /\ h \in Nat
      BY <1>1, <1>2, <1>9, <1>10, <2>4
    <3> QED BY <3>1, <3>2
  <2> QED BY <1>2, <2>1, <2>2, <2>3, <2>4
<1>14. Elements(s) = Elements(a) \cup {h} \cup Elements(b)
  <2>1. ASSUME NEW x \in Elements(s) PROVE x \in Elements(a) \cup {h} \cup Elements(b)
    <3>1. PICK i \in 1..m + 1 + n : x = s[i]
      BY <1>8 DEF Elements
    <3>2. i \in 1..m \/ i = m + 1 \/ i \in m + 2..m + 1 + n
      BY <1>2
    <3> QED BY <1>9, <1>10, <1>11, <1>12, <3>1, <3>2
  <2>2. ASSUME NEW x \in Elements(a) PROVE x \in Elements(s)
    <3>1. PICK i \in 1..m : x = a[i]
      BY <1>2 DEF Elements
    <3>2. i \in DOMAIN s
      BY <1>2, <1>8
    <3> QED BY <1>9, <3>1, <3>2 DEF Elements
  <2>3. h \in Elements(s)
    <3>1. m + 1 \in DOMAIN s
      BY <1>2, <1>8
    <3> QED BY <1>10, <3>1 DEF Elements
  <2>4. ASSUME NEW x \in Elements(b) PROVE x \in Elements(s)
    <3>1. PICK i \in 1..n : x = b[i]
      BY <1>2 DEF Elements
    <3>2. i + (m + 1) \in DOMAIN s /\ i + (m + 1) \in m + 2..m + 1 + n /\ i + (m + 1) - (m + 1) = i
      BY <1>2, <1>8
    <3>3. PICK k : k = i + (m + 1)
      OBVIOUS
    <3>4. s[k] = x
      <4>1. s[k] = b[k - (m + 1)]
        BY <1>11, <3>2, <3>3
      <4>2. k - (m + 1) = i
        BY <1>2, <3>3
      <4> QED BY <3>1, <4>1, <4>2
    <3> QED BY <3>2, <3>3, <3>4 DEF Elements
  <2> QED BY <2>1, <2>2, <2>3, <2>4
<1> QED BY <1>7, <1>13, <1>14 DEF s

(* A block that is not in the queue is put in its place.                         *)
LEMMA InsertedProperties ==
    ASSUME QueueTypes, NEW h \in Heights, h \notin Elements(pending)
    PROVE  /\ Inserted(h) \in Seq(Heights) /\ Ascending(Inserted(h))
           /\ Elements(Inserted(h)) = Elements(pending) \cup {h}
<1>1. pending \in Seq(Heights) /\ Ascending(pending) /\ Heights \subseteq Nat
  BY JournalAssumption DEF QueueTypes
<1>2. Elements(pending) \subseteq Heights
  BY <1>1 DEF Elements
<1>3. PICK a : a = Below(h)
  OBVIOUS
<1>4. PICK b : b = Above(h)
  OBVIOUS
<1>5. a \in Seq(Heights) /\ Ascending(a) /\ Elements(a) = Elements(pending) \cap {x \in Heights : x < h}
  BY <1>1, <1>3, KeptAscending DEF Below
<1>6. b \in Seq(Heights) /\ Ascending(b) /\ Elements(b) = Elements(pending) \cap {x \in Heights : x > h}
  BY <1>1, <1>4, KeptAscending DEF Above
<1>7. Elements(pending) \cup {h} = Elements(a) \cup {h} \cup Elements(b)
  <2>1. ASSUME NEW x \in Elements(pending) PROVE x \in Heights /\ (x < h \/ x > h)
    <3>1. x \in Nat /\ h \in Nat /\ x # h
      BY <1>1, <1>2
    <3> QED BY <1>2, <3>1
  <2> QED BY <1>5, <1>6, <2>1
<1>8. Inserted(h) = a \o <<h>> \o b
  BY <1>3, <1>4 DEF Inserted
<1> QED BY <1>5, <1>6, <1>7, <1>8, JoinedAscending

(* The first blocks of the queue make a journal, and the rest stay.              *)
LEMMA BatchProperties ==
    ASSUME QueueTypes, pending # <<>>
    PROVE  /\ Batch \in Journals /\ Rest \in Seq(Heights) /\ Ascending(Rest)
           /\ Elements(Batch) \cup Elements(Rest) = Elements(pending) /\ Disjoint(Batch, Rest)
<1> DEFINE n == Len(pending)
           m == Least(n)
<1>1. pending \in Seq(Heights) /\ Ascending(pending) /\ BatchSize \in Nat \ {0} /\ Heights \subseteq Nat
  BY JournalAssumption DEF QueueTypes
<1>2. n \in Nat /\ n >= 1 /\ DOMAIN pending = 1..n /\ \A i \in 1..n : pending[i] \in Heights
  BY <1>1
<1>3. m \in 1..n /\ m <= BatchSize
  BY <1>1, <1>2 DEF Least
<1>4. Batch = SubSeq(pending, 1, m) /\ Rest = SubSeq(pending, m + 1, n)
  BY DEF Batch, Rest
<1> HIDE DEF n, m
<1>5. /\ Batch \in Seq(Heights) /\ Len(Batch) = m
      /\ \A i \in 1..m : Batch[i] = pending[i]
  BY <1>2, <1>3, <1>4, SubSeqProperties
<1>6. /\ Rest \in Seq(Heights) /\ Len(Rest) = n - m
      /\ \A i \in 1..n - m : Rest[i] = pending[m + i]
  <2>1. \A i \in m + 1..n : pending[i] \in Heights
    BY <1>2, <1>3
  <2>2. /\ SubSeq(pending, m + 1, n) \in Seq(Heights)
        /\ Len(SubSeq(pending, m + 1, n)) = IF m + 1 <= n THEN n - (m + 1) + 1 ELSE 0
        /\ \A i \in 1..n - (m + 1) + 1 : SubSeq(pending, m + 1, n)[i] = pending[m + 1 + i - 1]
    BY <1>2, <1>3, <2>1, SubSeqProperties
  <2>3. \A i \in 1..n - m : m + 1 + i - 1 = m + i /\ i \in 1..n - (m + 1) + 1
    BY <1>2, <1>3
  <2> QED BY <1>2, <1>3, <1>4, <2>2, <2>3
<1>7. DOMAIN Batch = 1..m /\ DOMAIN Rest = 1..n - m
  BY <1>2, <1>3, <1>5, <1>6
<1>8. \A i, j \in 1..n : i < j => pending[i] < pending[j]
  BY <1>1, <1>2 DEF Ascending
<1>9. Ascending(Batch)
  BY <1>2, <1>3, <1>5, <1>7, <1>8 DEF Ascending
<1>10. Ascending(Rest)
  <2> SUFFICES ASSUME NEW i \in 1..n - m, NEW j \in 1..n - m, i < j PROVE Rest[i] < Rest[j]
    BY <1>7 DEF Ascending
  <2>1. m + i \in 1..n /\ m + j \in 1..n /\ m + i < m + j
    BY <1>2, <1>3
  <2> QED BY <1>6, <1>8, <2>1
<1>11. Elements(Batch) = {pending[i] : i \in 1..m}
  BY <1>5, <1>7 DEF Elements
<1>12. Elements(Rest) = {pending[i] : i \in m + 1..n}
  <2>1. \A i \in m + 1..n : i - m \in 1..n - m /\ m + (i - m) = i
    BY <1>2, <1>3
  <2>2. \A i \in 1..n - m : m + i \in m + 1..n
    BY <1>2, <1>3
  <2>3. Elements(Rest) = {pending[m + i] : i \in 1..n - m}
    BY <1>6, <1>7 DEF Elements
  <2>4. ASSUME NEW i \in m + 1..n PROVE pending[i] \in {pending[m + k] : k \in 1..n - m}
    BY <2>1
  <2> QED BY <2>2, <2>3, <2>4
<1>13. Elements(pending) = {pending[i] : i \in 1..n}
  BY <1>2 DEF Elements
<1>14. Elements(Batch) \cup Elements(Rest) = Elements(pending)
  <2>1. 1..n = (1..m) \cup (m + 1..n)
    BY <1>2, <1>3
  <2> QED BY <1>11, <1>12, <1>13, <2>1
<1>15. Disjoint(Batch, Rest)
  <2>1. ASSUME NEW i \in 1..m, NEW j \in m + 1..n PROVE pending[i] # pending[j]
    <3>1. i \in 1..n /\ j \in 1..n /\ i < j
      BY <1>2, <1>3
    <3>2. pending[i] < pending[j] /\ pending[i] \in Nat /\ pending[j] \in Nat
      BY <1>1, <1>2, <1>8, <3>1
    <3> QED BY <3>2
  <2> QED BY <1>11, <1>12, <2>1 DEF Disjoint
<1>16. Batch \in Journals
  BY <1>1, <1>3, <1>5, <1>7, <1>9 DEF Journals, IsJournal, Elements
<1> QED BY <1>6, <1>10, <1>14, <1>15, <1>16

-----------------------------------------------------------------------------
\* A batch goes to registered chains only.
LEMMA TargetsAreRegistered == Targets \in Seq(Registered) /\ Len(Targets) \in Nat
<1>1. PICK t : t = Targets
  OBVIOUS
<1>2. Adapters \in Seq(STRING)
  BY JournalAssumption
<1>3. t \in Seq(STRING)
  BY <1>1, <1>2, FilteredProperties DEF Targets
<1>4. \A k \in DOMAIN t : t[k] \in Registered
  <2>1. \A k \in DOMAIN Filtered(Adapters, Registered) : \E i \in DOMAIN Adapters :
           Filtered(Adapters, Registered)[k] = Adapters[i] /\ Adapters[i] \in Registered
    BY <1>2, FilteredProperties
  <2> QED BY <1>1, <2>1 DEF Targets
<1>5. t \in [1..Len(t) -> Registered] /\ Len(t) \in Nat
  BY <1>3, <1>4
<1>6. t \in Seq(Registered)
  BY <1>5, SeqDef
<1> QED BY <1>1, <1>5, <1>6

(* The first of the chains that are left is none of the others.                  *)
LEMMA LeftOfFlight ==
    ASSUME EachChainOnce, NEW n \in 0..Len(Targets), NEW s, s = SubSeq(Targets, n + 1, Len(Targets))
    PROVE  /\ s \in Seq(Registered)
           /\ s # <<>> => /\ Head(s) \in Registered /\ Head(s) \in Elements(s)
                          /\ n + 1 \in 0..Len(Targets)
                          /\ Tail(s) = SubSeq(Targets, n + 2, Len(Targets))
                          /\ Tail(s) \in Seq(Registered) /\ Elements(Tail(s)) \subseteq Elements(s)
                          /\ Head(s) \notin Elements(Tail(s))
<1>1. PICK t : t = Targets
  OBVIOUS
<1>2. PICK m : m = Len(t)
  OBVIOUS
<1>3. t \in Seq(Registered) /\ m \in Nat /\ n \in 0..m /\ DOMAIN t = 1..m /\ IsInjective(t)
  BY <1>1, <1>2, TargetsAreRegistered DEF EachChainOnce
<1>4. \A i \in 1..m : t[i] \in Registered
  BY <1>2, <1>3
<1>5. /\ s \in Seq(Registered) /\ Len(s) = IF n + 1 <= m THEN m - (n + 1) + 1 ELSE 0
      /\ \A i \in 1..m - (n + 1) + 1 : s[i] = t[n + 1 + i - 1]
  <2>1. \A i \in n + 1..m : t[i] \in Registered
    BY <1>3, <1>4
  <2> QED BY <1>1, <1>2, <1>3, <2>1, SubSeqProperties
<1>6. ASSUME s # <<>>
      PROVE  /\ Head(s) \in Registered /\ Head(s) \in Elements(s)
             /\ n + 1 \in 0..m
             /\ Tail(s) = SubSeq(t, n + 2, m)
             /\ Tail(s) \in Seq(Registered) /\ Elements(Tail(s)) \subseteq Elements(s)
             /\ Head(s) \notin Elements(Tail(s))
  <2>1. n + 1 <= m
    BY <1>3, <1>5, <1>6
  <2>2. Len(s) = m - n /\ Len(s) \in Nat /\ DOMAIN s = 1..m - n
    BY <1>3, <1>5, <2>1
  <2>3. \A i \in 1..m - n : s[i] = t[n + i]
    <3>1. \A i \in 1..m - n : n + 1 + i - 1 = n + i /\ i \in 1..m - (n + 1) + 1
      BY <1>3
    <3> QED BY <1>5, <3>1
  <2>4. Head(s) = s[1] /\ 1 \in 1..m - n
    BY <1>3, <1>5, <1>6, <2>1
  <2>5. Head(s) \in Registered /\ Head(s) \in Elements(s)
    <3>1. Head(s) \in Registered
      BY <1>5, <1>6, HeadTailProperties
    <3>2. Head(s) \in Elements(s)
      BY <2>2, <2>4 DEF Elements
    <3> QED BY <3>1, <3>2
  <2>6. PICK u : u = Tail(s)
    OBVIOUS
  <2>7. u \in Seq(Registered) /\ Len(u) = m - n - 1 /\ \A i \in 1..Len(u) : u[i] = s[i + 1]
    BY <1>5, <1>6, <2>2, <2>6, HeadTailProperties
  <2>8. u = SubSeq(t, n + 2, m)
    <3>1. n + 1 \in 1..Len(t) /\ m \in n + 1..Len(t) /\ n + 1 + 1 = n + 2
      BY <1>2, <1>3, <2>1
    <3>2. Tail(SubSeq(t, n + 1, m)) = SubSeq(t, n + 1 + 1, m)
      BY <1>3, <3>1, HeadTailOfSubSeq
    <3> QED BY <1>1, <1>2, <2>6, <3>1, <3>2
  <2>9. DOMAIN u = 1..m - n - 1 /\ \A i \in 1..m - n - 1 : i + 1 \in DOMAIN s
    BY <1>3, <2>1, <2>2, <2>7
  <2>10. \A i \in DOMAIN u : u[i] = s[i + 1] /\ i + 1 \in DOMAIN s
    BY <2>7, <2>9
  <2>11. Elements(u) \subseteq Elements(s)
    BY <2>10 DEF Elements
  <2>12. ASSUME NEW i \in DOMAIN u PROVE u[i] # Head(s)
    <3>1. i \in Nat /\ i + 1 \in 1..m - n /\ 1 \in 1..m - n
      BY <2>2, <2>4, <2>9, <2>10
    <3>2. PICK k, l : k = n + (i + 1) /\ l = n + 1
      OBVIOUS
    <3>3. k \in 1..m /\ l \in 1..m /\ k # l
      BY <1>3, <3>1, <3>2, <2>12, <2>9
    <3>4. t[k] # t[l]
      BY <1>3, <3>3 DEF IsInjective
    <3> QED BY <2>3, <2>4, <2>10, <3>1, <3>2, <3>4
  <2>13. Head(s) \notin Elements(u)
    BY <2>12 DEF Elements
  <2>14. n + 1 \in 0..m
    BY <1>3, <2>1
  <2> QED BY <2>5, <2>6, <2>7, <2>8, <2>11, <2>13, <2>14
<1> QED BY <1>1, <1>2, <1>5, <1>6

\* What the types say of one batch in flight.
LEMMA FlightFacts ==
    ASSUME FlightTypes, NEW f \in flights
    PROVE  /\ f = [journal |-> f.journal, left |-> f.left, by |-> f.by]
           /\ f.journal \in Journals /\ f.left \in Seq(Registered) /\ f.by \in {"timer", "flush"}
           /\ \E n \in 0..Len(Targets) : f.left = SubSeq(Targets, n + 1, Len(Targets))
  BY DEF FlightTypes

\* A batch that takes off has all its writes before it.
LEMMA NewFlight ==
    ASSUME QueueTypes, pending # <<>>, NEW by \in {"timer", "flush"}, EachChainOnce
    PROVE  /\ Flight(by) \in [journal : Journals, left : Seq(Registered), by : {"timer", "flush"}]
           /\ Flight(by).journal = Batch /\ Flight(by).left = Targets
           /\ \E n \in 0..Len(Targets) : Flight(by).left = SubSeq(Targets, n + 1, Len(Targets))
<1>1. Batch \in Journals /\ Targets \in Seq(Registered)
  BY BatchProperties, TargetsAreRegistered
<1>2. Targets = SubSeq(Targets, 0 + 1, Len(Targets)) /\ 0 \in 0..Len(Targets)
  BY TargetsAreRegistered, SubSeqFull
<1> QED BY <1>1, <1>2 DEF Flight

(* Every journal has a block.                                                    *)
LEMMA JournalHasBlock == ASSUME NEW j \in Journals PROVE Elements(j) # {} /\ Elements(j) \subseteq Heights
<1>1. j \in Seq(Heights) /\ Len(j) >= 1
  BY JournalAssumption DEF Journals, IsJournal
<1>2. 1 \in DOMAIN j
  BY <1>1
<1> QED BY <1>1, <1>2 DEF Elements

(* Calls that return settle what they wrote.                                     *)
Written(F) == {g.journal : g \in F}
SettledBy(F) == settled \cup Written(flights \ F)
LEMMA CallsReturn ==
    ASSUME JournalIInv, NEW F \in SUBSET flights
    PROVE  /\ Written(F) \cup SettledBy(F) = Flying \cup settled
           /\ Written(F) \cap SettledBy(F) = {} /\ SettledBy(F) \subseteq Journals
<1>1. FlightTypes /\ HistoryTypes /\ OneFlight /\ Accounted
  BY DEF JournalIInv, JournalTyped
<1>2. \A g \in flights : g.journal \in Journals
  BY <1>1, FlightFacts
<1>3. Flying \cap settled = {}
  BY <1>1 DEF Accounted
<1>4. settled \subseteq Journals
  BY <1>1 DEF HistoryTypes
<1>5. Written(F) \cup SettledBy(F) = Flying \cup settled
  BY DEF Flying, Written, SettledBy
<1>6. Written(F) \cap SettledBy(F) = {}
  BY <1>1, <1>3 DEF OneFlight, Flying, Written, SettledBy
<1> QED BY <1>2, <1>4, <1>5, <1>6 DEF Written, SettledBy

(* A batch is taken while the calls outside F return: the blocks go from the     *)
(* queue to one journal, which no chain has.                                  *)
LEMMA BatchTaken ==
    ASSUME JournalIInv, EachChainOnce, pending # <<>>, NEW by \in {"timer", "flush"},
           NEW F \in SUBSET flights, settled' = SettledBy(F),
           flights' = F \cup {Flight(by)}, pending' = Rest, UNCHANGED <<added, landed>>
    PROVE  QueueTypes' /\ FlightTypes' /\ HistoryTypes' /\ OneFlight' /\ Accounted' /\ LandsOnce'
<1>1. QueueTypes /\ FlightTypes /\ HistoryTypes /\ OneFlight /\ Accounted /\ LandsOnce
  BY DEF JournalIInv, JournalTyped
<1>2. PICK b, r, new : b = Batch /\ r = Rest /\ new = Flight(by)
  OBVIOUS
<1>3. /\ b \in Journals /\ r \in Seq(Heights) /\ Ascending(r)
      /\ Elements(b) \cup Elements(r) = Elements(pending) /\ Disjoint(b, r)
  BY <1>1, <1>2, BatchProperties
<1>4. /\ new \in [journal : Journals, left : Seq(Registered), by : {"timer", "flush"}]
      /\ new.journal = b
      /\ \E n \in 0..Len(Targets) : new.left = SubSeq(Targets, n + 1, Len(Targets))
  BY <1>1, <1>2, NewFlight
<1>5. PICK S, K : S = SettledBy(F) /\ K = Written(F)
  OBVIOUS
<1>6. K \cup S = Flying \cup settled /\ K \cap S = {} /\ S \subseteq Journals
  BY <1>5, CallsReturn
<1>7. settled' = S /\ flights' = F \cup {new} /\ pending' = r
  BY <1>2, <1>5
<1>8. Flying' = K \cup {b}
  BY <1>4, <1>5, <1>7 DEF Flying, Written
<1>9. PICK J : J = Flying \cup settled
  OBVIOUS
<1>10. Flying' \cup settled' = J \cup {b} /\ K \subseteq J /\ S \subseteq J
  BY <1>6, <1>7, <1>8, <1>9
<1>11. Elements(b) # {}
  BY <1>3, JournalHasBlock
<1>12. /\ added = Elements(pending) \cup Covered(J)
       /\ \A j \in J : Disjoint(j, pending) /\ \A k \in J \ {j} : Disjoint(j, k)
  BY <1>1, <1>9 DEF Accounted
<1>13. \A j \in J : Disjoint(j, b) /\ Disjoint(j, r)
  BY <1>3, <1>12 DEF Disjoint
<1>14. b \notin J
  BY <1>11, <1>13 DEF Disjoint
<1>15. QueueTypes'
  BY <1>3, <1>7 DEF QueueTypes
<1>16. FlightTypes'
  <2>1. IsFiniteSet(F \cup {new})
    <3>1. IsFiniteSet(F)
      BY <1>1, FS_Subset DEF FlightTypes
    <3> QED BY <3>1, FS_AddElement
  <2>2. F \cup {new} \subseteq [journal : Journals, left : Seq(Registered), by : {"timer", "flush"}]
    BY <1>1, <1>4 DEF FlightTypes
  <2>3. \A f \in F \cup {new} : \E n \in 0..Len(Targets) : f.left = SubSeq(Targets, n + 1, Len(Targets))
    BY <1>1, <1>4 DEF FlightTypes
  <2> QED BY <1>7, <2>1, <2>2, <2>3 DEF FlightTypes
<1>17. HistoryTypes'
  BY <1>1, <1>6, <1>7 DEF HistoryTypes
<1>18. \A f \in F : f.journal \in K /\ f.journal # b
  BY <1>5, <1>10, <1>14 DEF Written
<1>19. OneFlight'
  BY <1>1, <1>4, <1>7, <1>18 DEF OneFlight
<1>20. Accounted'
  <2>1. added' = Elements(r) \cup Covered(J \cup {b})
    BY <1>3, <1>12 DEF Covered
  <2>2. \A j \in J \cup {b} : Disjoint(j, r) /\ \A k \in (J \cup {b}) \ {j} : Disjoint(j, k)
    <3>1. \A j, k : Disjoint(j, k) <=> Disjoint(k, j)
      BY DEF Disjoint
    <3> QED BY <1>3, <1>12, <1>13, <3>1
  <2>3. (K \cup {b}) \cap S = {}
    BY <1>6, <1>10, <1>14
  <2>4. Flying' \cap settled' = {}
    BY <1>7, <1>8, <2>3
  <2>5. added' = Elements(pending)' \cup Covered(Flying \cup settled)'
    BY <1>7, <1>10, <2>1 DEF Covered, Elements
  <2>6. \A j \in Flying' \cup settled' : Disjoint(j, pending') /\ \A k \in (Flying' \cup settled') \ {j} : Disjoint(j, k)
    BY <1>7, <1>10, <2>2
  <2> QED BY <2>4, <2>5, <2>6 DEF Accounted, Disjoint, Elements
<1>21. LandsOnce'
  <2> SUFFICES ASSUME NEW a \in Registered
               PROVE  /\ \A i, k \in DOMAIN landed[a] : i # k => Disjoint(landed[a][i], landed[a][k])
                      /\ Elements(landed[a]) \subseteq J \cup {b}
                      /\ \A f \in F \cup {new} : a \in Elements(f.left) => f.journal \notin Elements(landed[a])
    BY <1>7, <1>10 DEF LandsOnce
  <2>1. Elements(landed[a]) \subseteq J
    BY <1>1, <1>9 DEF LandsOnce
  <2>2. \A f \in F : a \in Elements(f.left) => f.journal \notin Elements(landed[a])
    BY <1>1 DEF LandsOnce
  <2>3. new.journal \notin Elements(landed[a])
    BY <1>4, <1>14, <2>1
  <2>4. \A i, k \in DOMAIN landed[a] : i # k => Disjoint(landed[a][i], landed[a][k])
    BY <1>1 DEF LandsOnce
  <2> QED BY <2>1, <2>2, <2>3, <2>4
<1> QED BY <1>15, <1>16, <1>17, <1>19, <1>20, <1>21

(* A call returns and none begins.                                               *)
LEMMA CallEnds ==
    ASSUME JournalIInv, NEW f \in flights, flights' = flights \ {f}, settled' = settled \cup {f.journal},
           UNCHANGED <<pending, added, landed>>
    PROVE  QueueTypes' /\ FlightTypes' /\ HistoryTypes' /\ OneFlight' /\ Accounted' /\ LandsOnce'
<1>1. QueueTypes /\ FlightTypes /\ HistoryTypes /\ OneFlight /\ Accounted /\ LandsOnce
  BY DEF JournalIInv, JournalTyped
<1>2. PICK F : F = flights \ {f}
  OBVIOUS
<1>3. PICK S, K : S = SettledBy(F) /\ K = Written(F)
  OBVIOUS
<1>4. flights \ F = {f} /\ {g.journal : g \in {f}} = {f.journal}
  BY <1>2
<1>5. flights' = F /\ settled' = S /\ F \subseteq flights
  BY <1>2, <1>3, <1>4 DEF SettledBy, Written
<1>6. K \cup S = Flying \cup settled /\ K \cap S = {} /\ S \subseteq Journals
  <2>1. F \in SUBSET flights
    BY <1>2
  <2> QED BY <1>3, <2>1, CallsReturn
<1>7. Flying' = K
  BY <1>3, <1>5 DEF Flying, Written
<1>8. QueueTypes' /\ HistoryTypes'
  BY <1>1, <1>5, <1>6 DEF QueueTypes, HistoryTypes
<1>9. FlightTypes'
  <2>1. IsFiniteSet(F)
    BY <1>1, <1>5, FS_Subset DEF FlightTypes
  <2> QED BY <1>1, <1>5, <2>1 DEF FlightTypes
<1>10. OneFlight'
  BY <1>1, <1>5 DEF OneFlight
<1>11. Accounted'
  BY <1>1, <1>5, <1>6, <1>7 DEF Accounted
<1>12. LandsOnce'
  BY <1>1, <1>5, <1>6, <1>7 DEF LandsOnce
<1> QED BY <1>8, <1>9, <1>10, <1>11, <1>12

(* A writer answers: the flight goes on to the chains that are left, and the      *)
(* journal may be on this one.                                                *)
LEMMA WriterAnswers ==
    ASSUME JournalIInv, EachChainOnce, NEW f \in flights, f.left # <<>>, flights' = Answered(f),
           Land(f) \/ UNCHANGED landed, UNCHANGED <<pending, added, settled>>
    PROVE  QueueTypes' /\ FlightTypes' /\ HistoryTypes' /\ OneFlight' /\ Accounted' /\ LandsOnce'
<1>1. QueueTypes /\ FlightTypes /\ HistoryTypes /\ OneFlight /\ Accounted /\ LandsOnce
  BY DEF JournalIInv, JournalTyped
<1>2. PICK a, t : a = Head(f.left) /\ t = Tail(f.left)
  OBVIOUS
<1>3. PICK n \in 0..Len(Targets) : f.left = SubSeq(Targets, n + 1, Len(Targets))
  BY <1>1, FlightFacts
<1>4. /\ a \in Registered /\ a \in Elements(f.left) /\ n + 1 \in 0..Len(Targets)
      /\ t = SubSeq(Targets, n + 2, Len(Targets)) /\ t \in Seq(Registered)
      /\ Elements(t) \subseteq Elements(f.left) /\ a \notin Elements(t)
  BY <1>2, <1>3, LeftOfFlight
<1>5. PICK g : g = [f EXCEPT !.left = t]
  OBVIOUS
<1>6. /\ g \in [journal : Journals, left : Seq(Registered), by : {"timer", "flush"}]
      /\ g.journal = f.journal /\ g.left = t
  <2>1. f \in [journal : Journals, left : Seq(Registered), by : {"timer", "flush"}]
    BY <1>1 DEF FlightTypes
  <2> QED BY <1>4, <1>5, <2>1
<1>7. flights' = (flights \ {f}) \cup {g}
  BY <1>2, <1>5 DEF Answered
<1>8. Flying' = Flying
  BY <1>6, <1>7 DEF Flying
<1>9. FlightTypes'
  <2>1. IsFiniteSet((flights \ {f}) \cup {g})
    <3>1. IsFiniteSet(flights \ {f})
      BY <1>1, FS_RemoveElement DEF FlightTypes
    <3> QED BY <3>1, FS_AddElement
  <2>2. \E m \in 0..Len(Targets) : g.left = SubSeq(Targets, m + 1, Len(Targets))
    <3>1. n + 1 + 1 = n + 2
      BY TargetsAreRegistered
    <3> QED BY <1>4, <1>6, <3>1
  <2> QED BY <1>1, <1>6, <1>7, <2>1, <2>2 DEF FlightTypes
<1>10. OneFlight'
  BY <1>1, <1>6, <1>7 DEF OneFlight
<1>11. QueueTypes' /\ Accounted'
  BY <1>1, <1>8 DEF QueueTypes, Accounted
<1>12. \A h \in flights \ {f} : h.journal # f.journal
  BY <1>1 DEF OneFlight
<1>13. PICK J : J = Flying \cup settled
  OBVIOUS
<1>14. f.journal \in J /\ \A j \in J : \A k \in J \ {j} : Disjoint(j, k)
  BY <1>1, <1>13 DEF Accounted, Flying
<1>15. f.journal \in Journals
  BY <1>1, FlightFacts
<1>16. CASE UNCHANGED landed
  <2>1. HistoryTypes'
    BY <1>1, <1>16 DEF HistoryTypes
  <2>2. LandsOnce'
    <3> SUFFICES ASSUME NEW c \in Registered
                 PROVE  /\ \A i, k \in DOMAIN landed[c] : i # k => Disjoint(landed[c][i], landed[c][k])
                        /\ Elements(landed[c]) \subseteq J
                        /\ \A h \in (flights \ {f}) \cup {g} : c \in Elements(h.left) => h.journal \notin Elements(landed[c])
      BY <1>7, <1>8, <1>13, <1>16 DEF LandsOnce
    <3> QED BY <1>1, <1>4, <1>6, <1>13 DEF LandsOnce
  <2> QED BY <1>9, <1>10, <1>11, <2>1, <2>2
<1>17. CASE Land(f)
  <2>1. landed' = [landed EXCEPT ![a] = Append(landed[a], f.journal)] /\ landed \in [Registered -> Seq(Journals)]
    BY <1>1, <1>2, <1>17 DEF Land, HistoryTypes
  <2>2. PICK s : s = landed[a]
    OBVIOUS
  <2>3. PICK u : u = Append(s, f.journal)
    OBVIOUS
  <2>4. /\ s \in Seq(Journals) /\ u \in Seq(Journals) /\ Len(s) \in Nat /\ Len(u) = Len(s) + 1
        /\ \A i \in 1..Len(s) : u[i] = s[i]
        /\ u[Len(s) + 1] = f.journal
    BY <1>4, <1>15, <2>1, <2>2, <2>3, AppendProperties
  <2>5. landed' \in [Registered -> Seq(Journals)] /\ landed'[a] = u /\ \A c \in Registered : c # a => landed'[c] = landed[c]
    BY <1>4, <2>1, <2>2, <2>3, <2>4
  <2>6. HistoryTypes'
    BY <1>1, <2>5 DEF HistoryTypes
  <2>7. Elements(u) = Elements(s) \cup {f.journal}
    <3>1. DOMAIN u = 1..Len(s) + 1 /\ DOMAIN s = 1..Len(s)
      BY <2>4
    <3>2. \A i \in 1..Len(s) + 1 : i \in 1..Len(s) \/ i = Len(s) + 1
      BY <2>4
    <3>3. Len(s) + 1 \in DOMAIN u /\ 1..Len(s) \subseteq DOMAIN u
      BY <2>4, <3>1
    <3> QED BY <2>4, <3>1, <3>2, <3>3 DEF Elements
  <2>8. f.journal \notin Elements(s) /\ Elements(s) \subseteq J
    BY <1>1, <1>4, <1>13, <2>2 DEF LandsOnce
  <2>9. \A i, k \in DOMAIN u : i # k => Disjoint(u[i], u[k])
    <3>1. \A i, k \in DOMAIN s : i # k => Disjoint(s[i], s[k])
      BY <1>1, <1>4, <2>2 DEF LandsOnce
    <3>2. \A i \in DOMAIN u : i \in DOMAIN s \/ i = Len(s) + 1
      BY <2>4
    <3>3. \A i \in DOMAIN s : u[i] = s[i] /\ s[i] \in Elements(s)
      BY <2>4 DEF Elements
    <3>4. \A i \in DOMAIN s : Disjoint(s[i], f.journal) /\ Disjoint(f.journal, s[i])
      BY <1>14, <2>8, <3>3
    <3> QED BY <2>4, <3>1, <3>2, <3>3, <3>4
  <2>10. LandsOnce'
    <3> SUFFICES ASSUME NEW c \in Registered
                 PROVE  /\ \A i, k \in DOMAIN landed'[c] : i # k => Disjoint(landed'[c][i], landed'[c][k])
                        /\ Elements(landed'[c]) \subseteq J
                        /\ \A h \in (flights \ {f}) \cup {g} : c \in Elements(h.left) => h.journal \notin Elements(landed'[c])
      BY <1>7, <1>8, <1>13 DEF LandsOnce
    <3>1. CASE c = a
      <4>1. \A h \in flights \ {f} : c \in Elements(h.left) => h.journal \notin Elements(u)
        BY <1>1, <1>12, <2>2, <2>7, <3>1 DEF LandsOnce
      <4>2. c \notin Elements(g.left)
        BY <1>4, <1>6, <3>1
      <4> QED BY <1>14, <2>5, <2>7, <2>8, <2>9, <3>1, <4>1, <4>2
    <3>2. CASE c # a
      <4>1. landed'[c] = landed[c]
        BY <2>5, <3>2
      <4>2. /\ \A i, k \in DOMAIN landed[c] : i # k => Disjoint(landed[c][i], landed[c][k])
            /\ Elements(landed[c]) \subseteq J
            /\ \A h \in flights : c \in Elements(h.left) => h.journal \notin Elements(landed[c])
        BY <1>1, <1>13 DEF LandsOnce
      <4>3. c \in Elements(g.left) => g.journal \notin Elements(landed[c])
        BY <1>4, <1>6, <4>2
      <4> QED BY <4>1, <4>2, <4>3
    <3> QED BY <3>1, <3>2
  <2> QED BY <1>9, <1>10, <1>11, <2>6, <2>10
<1> QED BY <1>16, <1>17

-----------------------------------------------------------------------------
(* A journal that lands is one landing more.                                     *)
LEMMA LandingsGrow ==
    ASSUME HistoryTypes, IsFiniteSet(Landings), NEW f, f.left # <<>>, f.left \in Seq(Registered),
           f.journal \in Journals, Land(f)
    PROVE  IsFiniteSet(Landings') /\ Cardinality(Landings') = Cardinality(Landings) + 1
<1>1. PICK a : a = Head(f.left)
  OBVIOUS
<1>2. a \in Registered
  BY <1>1, HeadTailProperties
<1>3. landed' = [landed EXCEPT ![a] = Append(landed[a], f.journal)] /\ landed \in [Registered -> Seq(Journals)]
  BY <1>1 DEF Land, HistoryTypes
<1>4. PICK s : s = landed[a]
  OBVIOUS
<1>5. PICK u : u = Append(s, f.journal)
  OBVIOUS
<1>6. s \in Seq(Journals) /\ u \in Seq(Journals) /\ Len(s) \in Nat /\ Len(u) = Len(s) + 1
  BY <1>2, <1>3, <1>4, <1>5, AppendProperties
<1>7. DOMAIN s = 1..Len(s) /\ DOMAIN u = (1..Len(s)) \cup {Len(s) + 1} /\ Len(s) + 1 \notin 1..Len(s)
  <2>1. DOMAIN u = 1..Len(s) + 1 /\ DOMAIN s = 1..Len(s)
    BY <1>6
  <2> QED BY <1>6, <2>1
<1>8. /\ DOMAIN landed'[a] = DOMAIN landed[a] \cup {Len(s) + 1}
      /\ Len(s) + 1 \notin DOMAIN landed[a]
      /\ \A c \in Registered : c # a => landed'[c] = landed[c]
  BY <1>2, <1>3, <1>4, <1>5, <1>7
<1>9. PICK x : x = <<a, Len(s) + 1>>
  OBVIOUS
<1>10. \A p : p \in Landings <=> \E c \in Registered : \E i \in DOMAIN landed[c] : p = <<c, i>>
  BY DEF Landings
<1>11. \A p : p \in Landings' <=> \E c \in Registered : \E i \in DOMAIN landed'[c] : p = <<c, i>>
  BY DEF Landings
<1>12. \A p : p \in Landings' <=> p \in Landings \/ p = x
  <2> TAKE p
  <2>1. ASSUME p \in Landings' PROVE p \in Landings \/ p = x
    BY <1>8, <1>9, <1>10, <1>11, <2>1
  <2>2. ASSUME p \in Landings PROVE p \in Landings'
    <3>1. PICK c \in Registered : \E i \in DOMAIN landed[c] : p = <<c, i>>
      BY <1>10, <2>2
    <3>2. \E i \in DOMAIN landed'[c] : p = <<c, i>>
      BY <1>8, <3>1
    <3> QED BY <1>11, <3>1, <3>2
  <2>3. x \in Landings'
    BY <1>2, <1>8, <1>9, <1>11
  <2> QED BY <2>1, <2>2, <2>3
<1>13. x \notin Landings
  BY <1>8, <1>9, <1>10
<1>14. Landings' = Landings \cup {x}
  BY <1>12
<1> QED BY <1>13, <1>14, FS_AddElement

\* Steps that leave the counters and checkpoints keep what they count.
LEMMA CountsUntouched ==
    ASSUME Counted, UNCHANGED <<checkpoint, resumed, totalWritten, saved, since, landed>>
    PROVE  Counted'
  BY DEF Counted, Landings

\* Nothing is pending, in flight or counted.
LEMMA JournalStarts == Init => JournalIInv
<1> SUFFICES ASSUME Init PROVE JournalIInv
  OBVIOUS
<1>1. QueueTypes
  BY DEF Init, QueueTypes, Ascending
<1>2. FlightTypes
  BY FS_EmptySet DEF Init, FlightTypes
<1>3. CountTypes
  <2>1. checkpoint \in Checkpoint /\ saved = checkpoint /\ resumed = checkpoint
    BY DEF Init, Checkpoint
  <2>2. totalWritten \in Nat /\ since \in Nat /\ timers \in 0..MaxTimers /\ restarts \in 0..MaxRestarts
    BY JournalAssumption DEF Init
  <2>3. held \in BOOLEAN /\ ~held
    BY DEF Init
  <2> QED BY <2>1, <2>2, <2>3 DEF CountTypes
<1>4. HistoryTypes
  BY DEF Init, HistoryTypes
<1>5. Flying = {} /\ settled = {} /\ Elements(pending) = {} /\ added = {}
  BY DEF Init, Flying, Elements
<1>6. OneFlight /\ Accounted
  <2>1. Covered({}) = {}
    BY DEF Covered
  <2> QED BY <1>5, <2>1 DEF Accounted, OneFlight, Init
<1>7. \A a \in Registered : DOMAIN landed[a] = {} /\ Elements(landed[a]) = {}
  BY DEF Init, Elements
<1>8. LandsOnce
  BY <1>7 DEF LandsOnce
<1>9. Counted
  <2>1. Landings = {}
    BY <1>7 DEF Landings
  <2> QED BY <2>1, FS_EmptySet, JournalAssumption DEF Init, Counted
<1> QED BY <1>1, <1>2, <1>3, <1>4, <1>6, <1>8, <1>9 DEF JournalIInv, JournalTyped

\* addBlock: a block is inserted at its height.
LEMMA AddBlockStep == ASSUME JournalIInv, NEW h \in Heights, AddBlock(h) PROVE JournalIInv'
<1>1. QueueTypes /\ FlightTypes /\ CountTypes /\ HistoryTypes /\ OneFlight /\ Accounted /\ LandsOnce /\ Counted
  BY DEF JournalIInv, JournalTyped
<1>2. /\ h \notin added /\ pending' = Inserted(h) /\ added' = added \cup {h}
      /\ UNCHANGED <<flights, totalWritten, timers, held, checkpoint, since, saved, restarts, resumed, landed, settled>>
  BY DEF AddBlock, timer, finalizer
<1>3. PICK p : p = Inserted(h)
  OBVIOUS
<1>4. PICK J : J = Flying \cup settled
  OBVIOUS
<1>5. Flying' = Flying /\ J = Flying' \cup settled'
  BY <1>2, <1>4 DEF Flying
<1>6. /\ added = Elements(pending) \cup Covered(J)
      /\ \A j \in J : Disjoint(j, pending) /\ \A k \in J \ {j} : Disjoint(j, k)
      /\ Flying \cap settled = {}
  BY <1>1, <1>4 DEF Accounted
<1>7. p \in Seq(Heights) /\ Ascending(p) /\ Elements(p) = Elements(pending) \cup {h}
  BY <1>1, <1>2, <1>3, <1>6, InsertedProperties
<1>8. QueueTypes' /\ FlightTypes' /\ CountTypes' /\ HistoryTypes'
  BY <1>1, <1>2, <1>3, <1>7 DEF QueueTypes, FlightTypes, CountTypes, HistoryTypes
<1>9. \A j \in J : h \notin Elements(j)
  BY <1>2, <1>6 DEF Covered
<1>10. added' = Elements(p) \cup Covered(J)
  BY <1>2, <1>6, <1>7
<1>11. \A j \in J : Disjoint(j, p)
  BY <1>6, <1>7, <1>9 DEF Disjoint
<1>12. Accounted'
  <2>1. pending' = p /\ settled' = settled
    BY <1>2, <1>3
  <2> QED BY <1>5, <1>6, <1>10, <1>11, <2>1 DEF Accounted
<1>13. OneFlight' /\ LandsOnce'
  BY <1>1, <1>2, <1>5 DEF OneFlight, LandsOnce
<1> QED BY <1>1, <1>2, <1>8, <1>12, <1>13, CountsUntouched DEF JournalIInv, JournalTyped

\* start and stop of the batch timer.
LEMMA TimerSteps == ASSUME JournalIInv, Start \/ Stop PROVE JournalIInv'
<1>1. QueueTypes /\ FlightTypes /\ CountTypes /\ HistoryTypes /\ OneFlight /\ Accounted /\ LandsOnce /\ Counted
  BY DEF JournalIInv, JournalTyped
<1>2. UNCHANGED <<pending, flights, totalWritten, checkpoint, since, saved, restarts, resumed, added, landed, settled>>
  BY DEF Start, Stop, collector, finalizer, history
<1>3. CountTypes'
  <2>1. timers \in 0..MaxTimers /\ MaxTimers \in Nat /\ (held => timers > 0)
    BY <1>1, JournalAssumption DEF CountTypes
  <2>2. CASE Start
    <3>1. timers' \in 0..MaxTimers /\ timers' > 0 /\ held' = TRUE
      BY <2>1, <2>2 DEF Start
    <3> QED BY <1>1, <1>2, <3>1 DEF CountTypes
  <2>3. CASE Stop
    <3>1. timers' \in 0..MaxTimers /\ held' = FALSE
      BY <2>1, <2>3 DEF Stop
    <3> QED BY <1>1, <1>2, <3>1 DEF CountTypes
  <2> QED BY <2>2, <2>3
<1>4. QueueTypes' /\ FlightTypes' /\ HistoryTypes' /\ OneFlight' /\ Accounted' /\ LandsOnce'
  BY <1>1, <1>2 DEF QueueTypes, FlightTypes, HistoryTypes, OneFlight, Accounted, LandsOnce, Flying
<1> QED BY <1>1, <1>2, <1>3, <1>4, CountsUntouched DEF JournalIInv, JournalTyped

\* The timer and flush take a batch off the queue.
LEMMA TakeSteps == ASSUME JournalIInv, EachChainOnce, Tick \/ Flush PROVE JournalIInv'
<1>1. CountTypes /\ Counted /\ QueueTypes
  BY DEF JournalIInv, JournalTyped
<1>2. UNCHANGED <<totalWritten, timers, held, checkpoint, since, saved, restarts, resumed, added, landed, settled>> /\ pending' = Rest
  BY DEF Tick, Flush, timer, finalizer, history
<1>3. pending # <<>>
  <2>1. CASE Tick
    <3>1. Len(pending) >= 1
      BY <1>1, <2>1, JournalAssumption DEF Tick, QueueTypes
    <3> QED BY <3>1
  <2>2. CASE Flush
    BY <2>2 DEF Flush
  <2> QED BY <2>1, <2>2
<1>4. PICK by \in {"timer", "flush"} : flights' = flights \cup {Flight(by)}
  BY DEF Tick, Flush
<1>5. PICK F : F = flights
  OBVIOUS
<1>6. settled' = SettledBy(F) /\ flights' = F \cup {Flight(by)} /\ F \in SUBSET flights
  BY <1>2, <1>4, <1>5 DEF SettledBy, Written
<1>7. QueueTypes' /\ FlightTypes' /\ HistoryTypes' /\ OneFlight' /\ Accounted' /\ LandsOnce'
  BY <1>2, <1>3, <1>6, BatchTaken
<1>8. CountTypes'
  BY <1>1, <1>2 DEF CountTypes
<1> QED BY <1>1, <1>2, <1>7, <1>8, CountsUntouched DEF JournalIInv, JournalTyped

(* A record that counts one more journal is still a checkpoint.                  *)
LEMMA CheckpointCounts ==
    ASSUME CountTypes, Counted, JournalWritten
    PROVE  /\ {checkpoint', saved'} \subseteq Checkpoint /\ since' \in Nat /\ since' < CheckpointInterval
           /\ checkpoint'.total = checkpoint.total + 1 /\ checkpoint'.total = saved'.total + since'
<1> DEFINE counted == [checkpoint EXCEPT !.total = @ + 1]
<1>1. checkpoint \in Checkpoint /\ saved \in Checkpoint /\ since \in Nat
  BY DEF CountTypes
<1>2. counted \in Checkpoint /\ counted.total = checkpoint.total + 1
  BY <1>1 DEF Checkpoint
<1>3. checkpoint.total \in Nat /\ saved.total \in Nat /\ CheckpointInterval \in Nat \ {0}
  BY <1>1, JournalAssumption DEF Checkpoint
<1>4. checkpoint.total = saved.total + since /\ since < CheckpointInterval
  BY DEF Counted
<1>5. checkpoint' = counted
  BY DEF JournalWritten
<1> HIDE DEF counted
<1>6. CASE since + 1 >= CheckpointInterval
  <2>1. saved' = counted /\ since' = 0
    BY <1>6 DEF JournalWritten, counted
  <2> QED BY <1>2, <1>3, <1>5, <2>1
<1>7. CASE ~(since + 1 >= CheckpointInterval)
  <2>1. saved' = saved /\ since' = since + 1
    BY <1>7 DEF JournalWritten
  <2> QED BY <1>1, <1>2, <1>3, <1>4, <1>5, <1>7, <2>1
<1> QED BY <1>6, <1>7

\* A write to a target chain that is confirmed.
LEMMA WriteOkStep == ASSUME JournalIInv, EachChainOnce, NEW f \in flights, WriteOk(f) PROVE JournalIInv'
<1>1. FlightTypes /\ CountTypes /\ HistoryTypes /\ Counted
  BY DEF JournalIInv, JournalTyped
<1>2. /\ f.left # <<>> /\ flights' = Answered(f) /\ totalWritten' = totalWritten + 1 /\ JournalWritten /\ Land(f)
      /\ UNCHANGED <<pending, timers, held, restarts, resumed, added, settled>>
  BY DEF WriteOk, timer
<1>3. QueueTypes' /\ FlightTypes' /\ HistoryTypes' /\ OneFlight' /\ Accounted' /\ LandsOnce'
  BY <1>2, WriterAnswers
<1>4. /\ {checkpoint', saved'} \subseteq Checkpoint /\ since' \in Nat /\ since' < CheckpointInterval
      /\ checkpoint'.total = checkpoint.total + 1 /\ checkpoint'.total = saved'.total + since'
  BY <1>1, <1>2, CheckpointCounts
<1>5. CountTypes'
  BY <1>1, <1>2, <1>4 DEF CountTypes
<1>6. f.left \in Seq(Registered) /\ f.journal \in Journals
  BY <1>1, FlightFacts
<1>7. IsFiniteSet(Landings) /\ totalWritten <= Cardinality(Landings) /\ checkpoint.total = resumed.total + totalWritten
  BY <1>1 DEF Counted
<1>8. IsFiniteSet(Landings') /\ Cardinality(Landings') = Cardinality(Landings) + 1
  BY <1>1, <1>2, <1>6, <1>7, LandingsGrow
<1>9. Cardinality(Landings) \in Nat
  BY <1>7, FS_CardinalityType
<1>10. totalWritten' <= Cardinality(Landings')
  <2>1. totalWritten \in Nat
    BY <1>1 DEF CountTypes
  <2> QED BY <1>2, <1>7, <1>8, <1>9, <2>1
<1>11. checkpoint'.total = resumed'.total + totalWritten'
  <2>1. totalWritten \in Nat /\ resumed.total \in Nat
    BY <1>1 DEF CountTypes, Checkpoint
  <2> QED BY <1>2, <1>4, <1>7, <2>1
<1>12. Counted'
  BY <1>4, <1>8, <1>10, <1>11 DEF Counted
<1> QED BY <1>3, <1>5, <1>12 DEF JournalIInv, JournalTyped

\* A write to a target chain that fails, landed or not.
LEMMA WriteFailsStep == ASSUME JournalIInv, EachChainOnce, NEW f \in flights, WriteFails(f) PROVE JournalIInv'
<1>1. FlightTypes /\ CountTypes /\ HistoryTypes /\ Counted
  BY DEF JournalIInv, JournalTyped
<1>2. /\ f.left # <<>> /\ flights' = Answered(f) /\ (Land(f) \/ UNCHANGED landed)
      /\ UNCHANGED <<pending, totalWritten, timers, held, checkpoint, since, saved, restarts, resumed, added, settled>>
  BY DEF WriteFails, timer, finalizer
<1>3. QueueTypes' /\ FlightTypes' /\ HistoryTypes' /\ OneFlight' /\ Accounted' /\ LandsOnce'
  BY <1>2, WriterAnswers
<1>4. CountTypes'
  BY <1>1, <1>2 DEF CountTypes
<1>5. CASE UNCHANGED landed
  BY <1>1, <1>2, <1>3, <1>4, <1>5, CountsUntouched DEF JournalIInv, JournalTyped
<1>6. CASE Land(f)
  <2>1. f.left \in Seq(Registered) /\ f.journal \in Journals
    BY <1>1, FlightFacts
  <2>2. IsFiniteSet(Landings) /\ totalWritten <= Cardinality(Landings)
    BY <1>1 DEF Counted
  <2>3. IsFiniteSet(Landings') /\ Cardinality(Landings') = Cardinality(Landings) + 1
    BY <1>1, <1>2, <1>6, <2>1, <2>2, LandingsGrow
  <2>4. Cardinality(Landings) \in Nat
    BY <2>2, FS_CardinalityType
  <2>5. totalWritten' <= Cardinality(Landings')
    <3>1. totalWritten \in Nat
      BY <1>1 DEF CountTypes
    <3> QED BY <1>2, <2>2, <2>3, <2>4, <3>1
  <2>6. Counted'
    BY <1>1, <1>2, <2>3, <2>5 DEF Counted
  <2> QED BY <1>3, <1>4, <2>6 DEF JournalIInv, JournalTyped
<1> QED BY <1>2, <1>5, <1>6

\* A batch that was written to every target returns.
LEMMA ReturnSteps ==
    ASSUME JournalIInv, EachChainOnce, NEW f \in flights, BatchReturns(f) \/ FlushReturns(f)
    PROVE  JournalIInv'
<1>1. FlightTypes /\ CountTypes /\ Counted
  BY DEF JournalIInv, JournalTyped
<1>2. CASE BatchReturns(f)
  <2>1. /\ flights' = flights \ {f} /\ settled' = settled \cup {f.journal}
        /\ checkpoint' = [checkpoint EXCEPT !.lastHeight = LastOf(f.journal)]
        /\ UNCHANGED <<pending, totalWritten, timers, held, since, saved, restarts, resumed, added, landed>>
    BY <1>2 DEF BatchReturns, Settle, timer
  <2>2. QueueTypes' /\ FlightTypes' /\ HistoryTypes' /\ OneFlight' /\ Accounted' /\ LandsOnce'
    BY <2>1, CallEnds
  <2>3. LastOf(f.journal) \in Heights
    <3>1. f.journal \in Seq(Heights) /\ Len(f.journal) >= 1
      BY <1>1, FlightFacts, JournalAssumption DEF Journals, IsJournal
    <3> QED BY <3>1 DEF LastOf
  <2>4. checkpoint' \in Checkpoint /\ checkpoint'.total = checkpoint.total
    <3>1. checkpoint \in Checkpoint
      BY <1>1 DEF CountTypes
    <3> QED BY <2>1, <2>3, <3>1 DEF Checkpoint
  <2>5. CountTypes'
    BY <1>1, <2>1, <2>4 DEF CountTypes
  <2>6. Counted'
    BY <1>1, <2>1, <2>4 DEF Counted, Landings
  <2> QED BY <2>2, <2>5, <2>6 DEF JournalIInv, JournalTyped
<1>3. CASE FlushReturns(f)
  <2>1. settled' = settled \cup {f.journal} /\ UNCHANGED <<totalWritten, timers, held, checkpoint, since, saved, restarts, resumed, added, landed>>
    BY <1>3 DEF FlushReturns, Settle, timer, finalizer
  <2>2. QueueTypes' /\ FlightTypes' /\ HistoryTypes' /\ OneFlight' /\ Accounted' /\ LandsOnce'
    <3>1. CASE pending = <<>>
      BY <1>3, <2>1, <3>1, CallEnds DEF FlushReturns
    <3>2. CASE pending # <<>>
      <4>1. PICK F : F = flights \ {f}
        OBVIOUS
      <4>2. flights' = F \cup {Flight("flush")} /\ pending' = Rest /\ F \in SUBSET flights
        BY <1>3, <3>2, <4>1 DEF FlushReturns
      <4>3. settled' = SettledBy(F)
        <5>1. flights \ F = {f}
          BY <4>1
        <5> QED BY <2>1, <5>1 DEF SettledBy, Written
      <4> QED BY <2>1, <3>2, <4>2, <4>3, BatchTaken
    <3> QED BY <3>1, <3>2
  <2>3. CountTypes'
    BY <1>1, <2>1 DEF CountTypes
  <2> QED BY <1>1, <2>1, <2>2, <2>3, CountsUntouched DEF JournalIInv, JournalTyped
<1> QED BY <1>2, <1>3

\* A restart, from the checkpoint that was saved.
LEMMA RestartStep == ASSUME JournalIInv, Restart PROVE JournalIInv'
<1>1. CountTypes /\ Counted
  BY DEF JournalIInv, JournalTyped
<1>2. QueueTypes'
  BY DEF Restart, QueueTypes, Ascending
<1>3. FlightTypes'
  BY FS_EmptySet DEF Restart, FlightTypes
<1>4. CountTypes'
  <2>1. saved \in Checkpoint /\ restarts' \in 0..MaxRestarts
    BY <1>1, JournalAssumption DEF CountTypes, Restart
  <2>2. checkpoint' = saved /\ saved' = saved /\ resumed' = saved
    BY DEF Restart
  <2>3. timers' = 0 /\ held' = FALSE /\ totalWritten' = 0 /\ since' = 0 /\ 0 \in 0..MaxTimers
    BY JournalAssumption DEF Restart
  <2> QED BY <2>1, <2>2, <2>3 DEF CountTypes
<1>5. HistoryTypes'
  BY DEF Restart, HistoryTypes
<1>6. Flying' = {} /\ settled' = {} /\ Elements(pending') = {} /\ added' = {}
  BY DEF Restart, Flying, Elements
<1>7. OneFlight' /\ Accounted'
  <2>1. Covered({}) = {}
    BY DEF Covered
  <2>2. added' = Elements(pending') \cup Covered(Flying' \cup settled')
    BY <1>6, <2>1
  <2> QED BY <1>6, <2>2 DEF Accounted, OneFlight, Restart
<1>8. \A a \in Registered : DOMAIN landed'[a] = {} /\ Elements(landed'[a]) = {}
  BY DEF Restart, Elements
<1>9. LandsOnce'
  BY <1>6, <1>8 DEF LandsOnce, Restart
<1>10. Counted'
  <2>1. Landings' = {}
    BY <1>8 DEF Landings
  <2>2. saved.total \in Nat
    BY <1>1 DEF CountTypes, Checkpoint
  <2>3. checkpoint'.total = saved.total /\ saved'.total = saved.total /\ resumed'.total = saved.total /\ totalWritten' = 0 /\ since' = 0
    BY DEF Restart
  <2> QED BY <2>1, <2>2, <2>3, FS_EmptySet, JournalAssumption DEF Counted
<1> QED BY <1>2, <1>3, <1>4, <1>5, <1>7, <1>9, <1>10 DEF JournalIInv, JournalTyped

-----------------------------------------------------------------------------
\* Every step keeps the invariant.
LEMMA JournalStep == ASSUME EachChainOnce PROVE JournalIInv /\ [Next]_vars => JournalIInv'
<1> SUFFICES ASSUME JournalIInv, [Next]_vars PROVE JournalIInv'
  OBVIOUS
<1>1. CASE \E h \in Heights : AddBlock(h)
  BY <1>1, AddBlockStep
<1>2. CASE Start \/ Stop
  BY <1>2, TimerSteps
<1>3. CASE Tick \/ Flush
  BY <1>3, TakeSteps
<1>4. CASE \E f \in flights : Answers(f)
  BY <1>4, WriteOkStep, WriteFailsStep, ReturnSteps DEF Answers
<1>5. CASE UNCHANGED vars
  <2>1. /\ QueueTypes' /\ FlightTypes' /\ CountTypes' /\ HistoryTypes'
        /\ OneFlight' /\ Accounted' /\ LandsOnce' /\ Counted'
    BY <1>5, CountsUntouched DEF JournalIInv, JournalTyped, vars, collector, timer, finalizer, history,
       QueueTypes, FlightTypes, CountTypes, HistoryTypes, OneFlight, Accounted, LandsOnce, Flying
  <2> QED BY <2>1 DEF JournalIInv, JournalTyped
<1> QED BY <1>1, <1>2, <1>3, <1>4, <1>5, RestartStep DEF Next

(* A checkpoint ends where a journal ended that was settled.                      *)
Resumes == ends \subseteq Heights /\ ResumesAtSettled

\* What the invariant says of the journal.
LEMMA JournalImplies == ASSUME JournalIInv, Resumes PROVE JournalAddsUp
<1>1. QueueTypes /\ FlightTypes /\ CountTypes /\ HistoryTypes /\ OneFlight /\ Accounted /\ LandsOnce /\ Counted
  BY DEF JournalIInv, JournalTyped
<1>2. TypeOK
  <2>1. Elements(pending) \subseteq Heights /\ Ascending(pending)
    BY <1>1 DEF QueueTypes, Elements
  <2>2. \A f \in flights : /\ IsJournal(f.journal) /\ f.by \in {"timer", "flush"}
                           /\ \E n \in 0..Len(Targets) : f.left = SubSeq(Targets, n + 1, Len(Targets))
    BY <1>1, FlightFacts DEF Journals
  <2>3. added \subseteq Heights /\ (\A j \in settled : IsJournal(j)) /\ DOMAIN landed = Registered
    BY <1>1 DEF HistoryTypes, Journals
  <2>4. ends \subseteq Heights
    BY DEF Resumes
  <2> QED BY <1>1, <2>1, <2>2, <2>3, <2>4 DEF TypeOK, CountTypes
<1>3. Cardinality(flights) = Cardinality(Flying)
  <2>1. PICK g : g = [f \in flights |-> f.journal]
    OBVIOUS
  <2>2. g \in Bijection(flights, Flying)
    <3>1. g \in [flights -> Flying] /\ \A f \in flights : g[f] = f.journal
      BY <2>1 DEF Flying
    <3>2. \A a, b \in flights : g[a] = g[b] => a = b
      BY <1>1, <3>1 DEF OneFlight
    <3>3. \A j \in Flying : \E f \in flights : g[f] = j
      BY <3>1 DEF Flying
    <3> QED BY <3>1, <3>2, <3>3 DEF Bijection, Injection, Surjection, IsInjective
  <2> QED BY <1>1, <2>2, FS_Bijection DEF FlightTypes, ExistsBijection
<1>4. BlocksAccounted
  BY <1>1, <1>2, <1>3 DEF BlocksAccounted, Accounted
<1>5. CountsAgree
  BY <1>1 DEF CountsAgree, Counted, Landings
<1> QED BY <1>1, <1>4, <1>5 DEF JournalAddsUp, Resumes

\* The counting of a write leaves the height of the checkpoint, and a batch that
\* returns settles its journal.
LEMMA ResumesStep == ASSUME JournalIInv, Resumes, [Next]_vars PROVE Resumes'
<1>1. /\ ends \subseteq Heights
      /\ {checkpoint.lastHeight, saved.lastHeight, resumed.lastHeight} \subseteq ends \cup {0}
  BY DEF Resumes, ResumesAtSettled
<1>2. FlightTypes /\ {checkpoint, saved, resumed} \subseteq Checkpoint
  BY DEF JournalIInv, JournalTyped, CountTypes
<1>3. CASE UNCHANGED <<checkpoint, saved, resumed, ends>>
  BY <1>1, <1>3 DEF Resumes, ResumesAtSettled
<1>4. CASE \E f \in flights : WriteOk(f)
  <2>1. JournalWritten /\ UNCHANGED <<resumed, ends>>
    BY <1>4 DEF WriteOk
  <2>2. checkpoint'.lastHeight = checkpoint.lastHeight
    BY <1>2, <2>1 DEF JournalWritten, Checkpoint
  <2>3. saved' = saved \/ saved' = checkpoint'
    BY <2>1 DEF JournalWritten
  <2> QED BY <1>1, <2>1, <2>2, <2>3 DEF Resumes, ResumesAtSettled
<1>5. CASE \E f \in flights : BatchReturns(f) \/ FlushReturns(f)
  <2>1. PICK f \in flights : BatchReturns(f) \/ FlushReturns(f)
    BY <1>5
  <2>2. LastOf(f.journal) \in Heights
    <3>1. f.journal \in Seq(Heights) /\ Len(f.journal) >= 1
      BY <1>2, FlightFacts, JournalAssumption DEF Journals, IsJournal
    <3> QED BY <3>1 DEF LastOf
  <2>3. ends' = ends \cup {LastOf(f.journal)} /\ UNCHANGED <<saved, resumed>>
    BY <2>1 DEF BatchReturns, FlushReturns, Settle, finalizer
  <2>4. checkpoint'.lastHeight \in {checkpoint.lastHeight, LastOf(f.journal)}
    <3>1. CASE BatchReturns(f)
      BY <1>2, <3>1 DEF BatchReturns, Checkpoint
    <3>2. CASE FlushReturns(f)
      BY <3>2 DEF FlushReturns, finalizer
    <3> QED BY <2>1, <3>1, <3>2
  <2> QED BY <1>1, <2>2, <2>3, <2>4 DEF Resumes, ResumesAtSettled
<1>6. CASE Restart
  <2>1. checkpoint' = saved /\ resumed' = saved /\ saved' = saved /\ ends' = ends \cap {saved.lastHeight}
    BY <1>6 DEF Restart
  <2> QED BY <1>1, <2>1 DEF Resumes, ResumesAtSettled
<1>7. CASE \E h \in Heights : AddBlock(h)
  BY <1>3, <1>7 DEF AddBlock, finalizer
<1>8. CASE Start \/ Stop \/ Tick \/ Flush
  BY <1>3, <1>8 DEF Start, Stop, Tick, Flush, finalizer, history
<1>9. CASE \E f \in flights : WriteFails(f)
  BY <1>3, <1>9 DEF WriteFails, finalizer
<1>10. CASE UNCHANGED vars
  BY <1>3, <1>10 DEF vars, finalizer, history
<1> QED BY <1>4, <1>5, <1>6, <1>7, <1>8, <1>9, <1>10 DEF Next, Answers

(* However ticks and flushes overlap at the awaits of the writers, and whichever  *)
(* writer fails: in one run of the process no block given to the collector is     *)
(* lost or in two journals, none is on a chain twice, and what was written is     *)
(* what collector and checkpoint count; the run after a restart begins where a    *)
(* journal ended that was settled (processReadyBatches, flush, writeToAdapters,   *)
(* onJournalWritten, loadCheckpoint).                                         *)
THEOREM JournalIsExact == ASSUME EachChainOnce PROVE Spec => []JournalAddsUp
<1>1. Spec => []JournalIInv
  BY JournalStarts, JournalStep, PTL DEF Spec
<1>2. Init => Resumes
  BY DEF Init, Resumes, ResumesAtSettled
<1>3. JournalIInv /\ Resumes /\ [Next]_vars => Resumes'
  BY ResumesStep
<1>4. JournalIInv /\ Resumes => JournalAddsUp
  BY JournalImplies
<1> QED BY <1>1, <1>2, <1>3, <1>4, PTL DEF Spec

-----------------------------------------------------------------------------
(* The variable store.                                                       *)

(* A call under way is a write or batch, a delete or a change of an access list.  *)
SetOps == [var : Variables, expected : Nat \cup {None}]
Batching == {"validate", "set", "results", "refused", "thrown"}
Batches == [at : Batching, caller : Addresses, ops : Operations, atomic : BOOLEAN, i : Nat \ {0}, may : Verdicts,
            validations : Seq(BOOLEAN), results : Seq(BOOLEAN), alone : BOOLEAN]
Deletes == [at : {"delete"}, op : SetOps, may : Verdicts, alone : BOOLEAN]
ListChanges == [at : {"list"}, ns : Namespaces, list : Nat, change : Changes, may : Verdicts, alone : BOOLEAN]
CallTypes ==
    /\ call \in [Slots -> Batches \cup Deletes \cup ListChanges \cup {Idle}]
    /\ \A c \in Slots : call[c] # Idle /\ call[c].at \in Batching => call[c].i <= Len(call[c].ops)

(* The store: TypeOK in parts, with the lists as a sequence.                      *)
Acls == {acls[i] : i \in DOMAIN acls}
StoreTypes ==
    /\ namespaces \in [Namespaces -> 0..Len(acls)] /\ acls \in Seq(Acls)
    /\ \A i \in DOMAIN acls : /\ {"owner", "grants"} \subseteq DOMAIN acls[i]
                              /\ acls[i].owner \in Addresses /\ acls[i].grants \in [Addresses -> Grants \cup {None}]
    /\ started \in 0..MaxCalls /\ now \in 1..MaxTime
    /\ granted \in [Namespaces -> [Addresses -> Grants \cup {None}]]
VersionTypes ==
    /\ variables \in [Variables -> [version : Nat, updatedBy : Addresses] \cup {None}]
    /\ acked \in [Variables -> Seq(Nat)]
    /\ \A v \in Variables :
          acked[v] = [i \in 1..(IF variables[v] = None THEN 0 ELSE variables[v].version + 1) |-> i - 1]

(* A list belongs to one namespace, the list a call holds to the namespace it      *)
(* changes; unless changes raced it is still the list of that namespace.          *)
Changing(c) == call[c] # Idle /\ call[c].at = "list"
ListsApart ==
    /\ \A m, n \in Namespaces : namespaces[m] # 0 /\ namespaces[m] = namespaces[n] => m = n
    /\ \A c \in Slots : Changing(c) =>
          /\ call[c].list \in DOMAIN acls /\ namespaces[call[c].ns] # 0
          /\ \A n \in Namespaces \ {call[c].ns} : namespaces[n] # call[c].list
ListsCurrent ==
    \A c \in Slots : Changing(c) /\ call[c].ns \notin raced =>
        /\ call[c].list = namespaces[call[c].ns]
        /\ \A d \in Slots \ {c} : Changing(d) /\ call[d].ns = call[c].ns =>
              call[c].change.op = "grant" /\ call[d].change.op = "grant"
GrantsOfNew == \A ns \in Namespaces : namespaces[ns] = 0 => granted[ns] = [a \in Addresses |-> None]

(* While a batch is alone, what it validated holds, and what it has not yet written *)
(* can be written.                                                              *)
May == [ns \in Namespaces |-> [a \in Addresses |-> checkPermission(ns, a, "write")]]
Can(f, j) == May[f.ops[j].var[1]][f.caller] = "granted"
Fits(f, j) == Can(f, j) /\ VersionMatches(f.ops[j])
Distinct(f) == \A i, j \in DOMAIN f.ops : f.ops[i].var = f.ops[j].var => i = j
AloneIsAlone ==
    \A c \in Slots : call[c] # Idle /\ call[c].alone => \A d \in Slots \ {c} : call[d] = Idle
NothingWritten ==
    \A c \in Slots : call[c] # Idle /\ call[c].at \in {"validate", "refused"} => call[c].results = <<>>
FrameFits(f) ==
    f.at \in Batching /\ f.alone /\ f.atomic =>
        /\ f.at = "validate" => /\ Len(f.validations) = f.i - 1 /\ f.may = May[f.ops[f.i].var[1]][f.caller]
                                /\ \A j \in 1..(f.i - 1) : f.validations[j] => Fits(f, j)
        /\ f.at = "set" => f.may = "granted"
        /\ f.at \in {"set", "results"} => \A j \in DOMAIN f.ops : Can(f, j)
        /\ f.at = "thrown" => f.results = <<>>
        /\ Distinct(f) =>
              /\ f.at = "set" => \A j \in DOMAIN f.ops : j >= f.i => Fits(f, j)
              /\ f.at = "results" => \A j \in DOMAIN f.ops : j > f.i => Fits(f, j)
              /\ f.at \in {"set", "results"} => \A j \in DOMAIN f.results : f.results[j]
BatchFits == \A c \in Slots : call[c] # Idle => FrameFits(call[c])
VarsIInv ==
    /\ CallTypes /\ StoreTypes /\ VersionTypes /\ ListsApart /\ ListsCurrent /\ GrantsOfNew /\ GrantsAreKept
    /\ AloneIsAlone /\ NothingWritten /\ BatchFits

LEMMA VarsConstants ==
    /\ \A ops \in Operations : ops \in Seq(SetOps) /\ ops # <<>> /\ Len(ops) \in Nat \ {0} /\ DOMAIN ops = 1..Len(ops) /\ ops[1] \in SetOps
    /\ None \notin [version : Nat, updatedBy : Addresses] /\ MaxCalls \in Nat /\ MaxTime \in Nat \ {0}
<1>1. \A ops \in Operations : ops \in Seq(SetOps) /\ ops # <<>>
  BY TypesAssumption DEF SetOps
<1>2. \A ops \in Operations : Len(ops) \in Nat \ {0} /\ DOMAIN ops = 1..Len(ops) /\ ops[1] \in SetOps
  BY <1>1
<1> QED BY <1>1, <1>2, TypesAssumption, BoundsAssumption

(* The calls that are disturbed, and the one that moves.                         *)
Frames == Batches \cup Deletes \cup ListChanges
LEMMA FrameKinds ==
    ASSUME NEW f \in Frames
    PROVE  /\ f.at \in Batching => f \in Batches
           /\ f.at = "delete" => f \in Deletes
           /\ f.at = "list" => f \in ListChanges
           /\ f.alone \in BOOLEAN /\ f.may \in Verdicts /\ f.at \in Batching \cup {"delete", "list"}
BY DEF Frames, Batches, Deletes, ListChanges, Batching

LEMMA DisturbedFrame ==
    ASSUME NEW f \in Frames \cup {Idle}
    PROVE  /\ Disturbed(f) \in Frames \cup {Idle}
           /\ Disturbed(f) # Idle => f # Idle /\ ~ Disturbed(f).alone /\ Disturbed(f).at = f.at
           /\ f # Idle /\ f.at \in Batching => Disturbed(f).i = f.i /\ Disturbed(f).ops = f.ops /\ Disturbed(f).results = f.results
           /\ f # Idle /\ f.at = "list" => Disturbed(f).ns = f.ns /\ Disturbed(f).list = f.list /\ Disturbed(f).change = f.change
<1>1. CASE f = Idle
  BY <1>1 DEF Disturbed
<1>2. CASE f # Idle
  <2>1. PICK g : g = [f EXCEPT !.alone = FALSE]
    OBVIOUS
  <2>2. CASE f \in Batches
    BY <1>2, <2>1, <2>2 DEF Disturbed, Frames, Batches, Batching
  <2>3. CASE f \in Deletes
    BY <1>2, <2>1, <2>3 DEF Disturbed, Frames, Deletes, Batching
  <2>4. CASE f \in ListChanges
    BY <1>2, <2>1, <2>4 DEF Disturbed, Frames, ListChanges, Batching
  <2> QED BY <1>2, <2>2, <2>3, <2>4 DEF Frames
<1> QED BY <1>1, <1>2

LEMMA AllDisturbed ==
    ASSUME CallTypes, NEW S \in SUBSET Slots, \A d \in S : call'[d] = Disturbed(call[d])
    PROVE  \A d \in S :
              /\ call'[d] \in Frames \cup {Idle}
              /\ call'[d] # Idle => call[d] # Idle /\ ~ call'[d].alone /\ call'[d].at = call[d].at
              /\ call[d] # Idle /\ call[d].at \in Batching =>
                    call'[d].i = call[d].i /\ call'[d].ops = call[d].ops /\ call'[d].results = call[d].results
              /\ call[d] # Idle /\ call[d].at = "list" =>
                    call'[d].ns = call[d].ns /\ call'[d].list = call[d].list /\ call'[d].change = call[d].change
              /\ call[d] = Idle => call'[d] = Idle
<1>1. \A d \in S : call[d] \in Frames \cup {Idle}
  BY DEF CallTypes, Frames
<1>2. \A d \in S : call[d] = Idle => call'[d] = Idle
  BY DEF Disturbed
<1> QED BY <1>1, <1>2, DisturbedFrame

LEMMA MayKept ==
    ASSUME UNCHANGED <<namespaces, acls, now>>
    PROVE  May' = May
<1>1. ASSUME NEW ns \in Namespaces, NEW a \in Addresses
      PROVE  checkPermission(ns, a, "write")' = checkPermission(ns, a, "write")
  <2>1. Permits(ns, a, "write")' <=> Permits(ns, a, "write")
    BY DEF Permits, ListAllows, checkGrant
  <2>2. HasNoDefaults(ns)' <=> HasNoDefaults(ns)
    BY DEF HasNoDefaults
  <2> QED BY <2>1, <2>2 DEF checkPermission
<1> QED BY <1>1, Zenon DEF May

(* A call begins. The facts about the batches need those of its own frame only.    *)
LEMMA CallBegins ==
    ASSUME VarsIInv, NEW c \in Slots, NEW f \in Frames, Begin(c, f), f.alone = NobodyElse,
           f.at \in Batching =>
              /\ f.i = 1 /\ f.ops \in Operations /\ f.results = <<>> /\ f.validations = <<>> /\ f.at \in {"validate", "set"}
              /\ f.may = May[f.ops[1].var[1]][f.caller] /\ (f.at = "set" => ~ f.atomic)
    PROVE  /\ CallTypes' /\ StoreTypes' /\ VersionTypes' /\ GrantsOfNew' /\ AloneIsAlone' /\ NothingWritten' /\ BatchFits'
           /\ call'[c] = f
           /\ \A d \in Slots \ {c} : Changing(d)' => /\ Changing(d)
                  /\ call'[d].ns = call[d].ns /\ call'[d].list = call[d].list /\ call'[d].change = call[d].change
<1> USE DEF VarsIInv
<1>1. /\ call[c] = Idle /\ started' = started + 1 /\ started < MaxCalls /\ UNCHANGED <<namespaces, acls, variables, now, acked, granted>>
      /\ call' = [d \in Slots |-> IF d = c THEN f ELSE Disturbed(call[d])]
  BY DEF Begin
<1>2. call'[c] = f /\ \A d \in Slots \ {c} : call'[d] = Disturbed(call[d])
  BY <1>1
<1>3. \A d \in Slots \ {c} :
         /\ call'[d] \in Frames \cup {Idle}
         /\ call'[d] # Idle => call[d] # Idle /\ ~ call'[d].alone /\ call'[d].at = call[d].at
         /\ call[d] # Idle /\ call[d].at \in Batching =>
               call'[d].i = call[d].i /\ call'[d].ops = call[d].ops /\ call'[d].results = call[d].results
         /\ call[d] # Idle /\ call[d].at = "list" =>
               call'[d].ns = call[d].ns /\ call'[d].list = call[d].list /\ call'[d].change = call[d].change
         /\ call[d] = Idle => call'[d] = Idle
  BY <1>2, AllDisturbed
<1>4. CallTypes'
  <2>1. \A d \in Slots : call'[d] \in Frames \cup {Idle}
    BY <1>2, <1>3
  <2>2. \A d \in Slots : call'[d] # Idle /\ call'[d].at \in Batching => call'[d].i <= Len(call'[d].ops)
    BY <1>2, <1>3, VarsConstants DEF CallTypes
  <2> QED BY <1>1, <2>1, <2>2 DEF CallTypes, Frames
<1>5. StoreTypes'
  BY <1>1, VarsConstants DEF StoreTypes, Acls
<1>6. VersionTypes' /\ GrantsOfNew'
  BY <1>1 DEF VersionTypes, GrantsOfNew
<1>7. AloneIsAlone'
  <2>1. f.alone => \A d \in Slots \ {c} : call'[d] = Idle
    BY <1>3 DEF NobodyElse
  <2>2. \A d \in Slots \ {c} : call'[d] # Idle => ~ call'[d].alone
    BY <1>3
  <2> QED BY <1>2, <2>1, <2>2 DEF AloneIsAlone
<1>8. NothingWritten'
  BY <1>2, <1>3 DEF NothingWritten, Batching
<1>9. BatchFits'
  <2>1. May' = May
    BY <1>1, MayKept
  <2> SUFFICES ASSUME f.at = "validate", f.alone, f.atomic
               PROVE  Len(f.validations) = f.i - 1 /\ f.may = May'[f.ops[f.i].var[1]][f.caller]
    BY <1>2, <1>3 DEF BatchFits, FrameFits, Batching
  <2> QED BY <2>1 DEF Batching
<1>10. \A d \in Slots \ {c} : Changing(d)' => /\ Changing(d)
                  /\ call'[d].ns = call[d].ns /\ call'[d].list = call[d].list /\ call'[d].change = call[d].change
  BY <1>3 DEF Changing
<1> QED BY <1>2, <1>4, <1>5, <1>6, <1>7, <1>8, <1>9, <1>10

(* While the lists and what is known of them stay, so do the facts about them.      *)
LEMMA ListsStay ==
    ASSUME ListsApart, ListsCurrent, GrantsAreKept, UNCHANGED <<namespaces, acls, granted, raced>>,
           \A c \in Slots : Changing(c)' => /\ Changing(c)
                  /\ call'[c].ns = call[c].ns /\ call'[c].list = call[c].list /\ call'[c].change = call[c].change
    PROVE  ListsApart' /\ ListsCurrent' /\ GrantsAreKept'
<1>1. ListsApart'
  BY DEF ListsApart
<1>2. ListsCurrent'
  BY DEF ListsCurrent
<1> QED BY <1>1, <1>2 DEF GrantsAreKept

LEMMA Permitted ==
    /\ \A ns, a, p : checkPermission(ns, a, p) \in Verdicts
    /\ \A op \in SetOps : op.var \in Variables /\ op.var[1] \in Namespaces
    /\ \A op \in SetOps, a \in Addresses : MayWrite(a, op) = May[op.var[1]][a] /\ May[op.var[1]][a] \in Verdicts
<1>1. ASSUME NEW ns, NEW a, NEW p PROVE checkPermission(ns, a, p) \in Verdicts
  BY DEF checkPermission, Verdicts
<1>2. \A op \in SetOps : op.var \in Variables /\ op.var[1] \in Namespaces
  BY DEF SetOps, Variables
<1>3. ASSUME NEW op \in SetOps, NEW a \in Addresses
      PROVE MayWrite(a, op) = May[op.var[1]][a] /\ May[op.var[1]][a] \in Verdicts
  <2>1. May[op.var[1]][a] = checkPermission(op.var[1], a, "write")
    BY <1>2, Zenon DEF May
  <2> QED BY <1>1, <2>1 DEF MayWrite
<1> QED BY <1>1, <1>2, <1>3

LEMMA WriteStep ==
    ASSUME VarsIInv, NEW c \in Slots, NEW a \in Addresses, NEW ops \in Operations, NEW atomic \in BOOLEAN, Write(c, a, ops, atomic)
    PROVE  VarsIInv'
<1>1. PICK f : f = [at |-> IF atomic THEN "validate" ELSE "set", caller |-> a, ops |-> ops, atomic |-> atomic, i |-> 1,
                    may |-> MayWrite(a, ops[1]), validations |-> <<>>, results |-> <<>>, alone |-> NobodyElse]
  OBVIOUS
<1>2. Begin(c, f) /\ UNCHANGED raced
  BY <1>1 DEF Write
<1>3. ops[1] \in SetOps
  BY VarsConstants
<1>4. f.may = May[ops[1].var[1]][a] /\ f.may \in Verdicts
  BY <1>1, <1>3, Permitted
<1>5. /\ f \in Batches /\ f.i = 1 /\ f.ops = ops /\ f.results = <<>> /\ f.validations = <<>> /\ f.caller = a
      /\ f.at \in {"validate", "set"} /\ (f.at = "set" => ~ f.atomic) /\ f.alone = NobodyElse
  <2>1. NobodyElse \in BOOLEAN
    BY DEF NobodyElse
  <2>2. f.at \in {"validate", "set"} /\ (f.at = "set" => ~ atomic)
    BY <1>1
  <2>3. /\ f = [at |-> f.at, caller |-> a, ops |-> ops, atomic |-> atomic, i |-> 1, may |-> f.may,
                validations |-> <<>>, results |-> <<>>, alone |-> f.alone] /\ f.alone = NobodyElse
    BY <1>1
  <2>4. f.may \in Verdicts /\ <<>> \in Seq(BOOLEAN)
    BY <1>4
  <2>5. PICK t \in Batching, m \in Verdicts, b \in BOOLEAN :
           f = [at |-> t, caller |-> a, ops |-> ops, atomic |-> atomic, i |-> 1, may |-> m,
                validations |-> <<>>, results |-> <<>>, alone |-> b]
    BY <2>1, <2>2, <2>3, <2>4 DEF Batching
  <2>6. f \in Batches
    BY <2>4, <2>5 DEF Batches
  <2> QED BY <2>2, <2>3, <2>6
<1>6. /\ CallTypes' /\ StoreTypes' /\ VersionTypes' /\ GrantsOfNew' /\ AloneIsAlone' /\ NothingWritten' /\ BatchFits'
      /\ call'[c] = f
      /\ \A d \in Slots \ {c} : Changing(d)' => /\ Changing(d)
             /\ call'[d].ns = call[d].ns /\ call'[d].list = call[d].list /\ call'[d].change = call[d].change
  BY <1>2, <1>4, <1>5, CallBegins DEF Frames
<1>7. UNCHANGED <<namespaces, acls, granted, raced>>
  BY <1>2 DEF Begin
<1>8. \A d \in Slots : Changing(d)' => d # c
  BY <1>5, <1>6 DEF Changing
<1> QED BY <1>6, <1>7, <1>8, ListsStay DEF VarsIInv

LEMMA DeleteStep ==
    ASSUME VarsIInv, NEW c \in Slots, NEW a \in Addresses, NEW op \in SetOps, Delete(c, a, op)
    PROVE  VarsIInv'
<1>1. PICK f : f = [at |-> "delete", op |-> op, may |-> checkPermission(op.var[1], a, "delete"), alone |-> NobodyElse]
  OBVIOUS
<1>2. Begin(c, f) /\ UNCHANGED raced
  BY <1>1 DEF Delete
<1>3. f \in Deletes /\ f.at = "delete" /\ f.alone = NobodyElse
  <2>1. NobodyElse \in BOOLEAN
    BY DEF NobodyElse
  <2>2. f.may \in Verdicts /\ f = [at |-> "delete", op |-> op, may |-> f.may, alone |-> f.alone] /\ f.alone = NobodyElse
    BY <1>1, Permitted
  <2> QED BY <2>1, <2>2 DEF Deletes
<1>4. /\ CallTypes' /\ StoreTypes' /\ VersionTypes' /\ GrantsOfNew' /\ AloneIsAlone' /\ NothingWritten' /\ BatchFits'
      /\ call'[c] = f
      /\ \A d \in Slots \ {c} : Changing(d)' => /\ Changing(d)
             /\ call'[d].ns = call[d].ns /\ call'[d].list = call[d].list /\ call'[d].change = call[d].change
  BY <1>2, <1>3, CallBegins DEF Frames, Batching
<1>5. UNCHANGED <<namespaces, acls, granted, raced>>
  BY <1>2 DEF Begin
<1>6. \A d \in Slots : Changing(d)' => d # c
  BY <1>3, <1>4 DEF Changing
<1> QED BY <1>4, <1>5, <1>6, ListsStay DEF VarsIInv

LEMMA ChangeListStep ==
    ASSUME VarsIInv, NEW c \in Slots, NEW a \in Addresses, NEW ns \in Namespaces, NEW change \in Changes, ChangeList(c, a, ns, change)
    PROVE  VarsIInv'
<1>1. PICK f : f = [at |-> "list", ns |-> ns, list |-> namespaces[ns], change |-> change,
                    may |-> checkPermission(ns, a, "admin"), alone |-> NobodyElse]
  OBVIOUS
<1>2. Begin(c, f) /\ namespaces[ns] # 0 /\ call[c] = Idle
  BY <1>1 DEF ChangeList, Begin
<1>3. namespaces[ns] \in DOMAIN acls
  BY <1>2 DEF VarsIInv, StoreTypes
<1>4. f \in ListChanges /\ f.at = "list" /\ f.alone = NobodyElse /\ f.ns = ns /\ f.list = namespaces[ns] /\ f.change = change
  <2>1. NobodyElse \in BOOLEAN /\ namespaces[ns] \in Nat
    BY DEF NobodyElse, VarsIInv, StoreTypes
  <2>2. /\ f.may \in Verdicts /\ f = [at |-> "list", ns |-> ns, list |-> namespaces[ns], change |-> change, may |-> f.may, alone |-> f.alone]
        /\ f.alone = NobodyElse
    BY <1>1, Permitted
  <2> QED BY <2>1, <2>2 DEF ListChanges
<1>5. /\ CallTypes' /\ StoreTypes' /\ VersionTypes' /\ GrantsOfNew' /\ AloneIsAlone' /\ NothingWritten' /\ BatchFits'
      /\ call'[c] = f
      /\ \A d \in Slots \ {c} : Changing(d)' => /\ Changing(d)
             /\ call'[d].ns = call[d].ns /\ call'[d].list = call[d].list /\ call'[d].change = call[d].change
  BY <1>2, <1>4, CallBegins DEF Frames, Batching
<1>6. UNCHANGED <<namespaces, acls, granted>>
  BY <1>2 DEF Begin
<1>7. /\ raced \subseteq raced'
      /\ \A d \in Slots : Changing(d) /\ call[d].ns = ns /\ "update" \in {change.op, call[d].change.op} => ns \in raced'
  BY DEF ChangeList, Changing
<1>8. \A d \in Slots : Changing(d) => call[d].change.op \in {"grant", "update"}
  BY FrameKinds DEF VarsIInv, CallTypes, Frames, Changing, ListChanges, Changes
<1>9. change.op \in {"grant", "update"}
  BY DEF Changes
<1>10. ListsApart'
  <2>1. \A n \in Namespaces \ {ns} : namespaces[n] # namespaces[ns]
    BY <1>2 DEF VarsIInv, ListsApart
  <2> QED BY <1>2, <1>3, <1>4, <1>5, <1>6, <2>1 DEF VarsIInv, ListsApart, Changing
<1>11. ListsCurrent'
  <2> SUFFICES ASSUME NEW d \in Slots, Changing(d)', call'[d].ns \notin raced'
               PROVE  /\ call'[d].list = namespaces'[call'[d].ns]
                      /\ \A e \in Slots \ {d} : Changing(e)' /\ call'[e].ns = call'[d].ns =>
                            call'[d].change.op = "grant" /\ call'[e].change.op = "grant"
    BY DEF ListsCurrent
  <2>1. CASE d = c
    <3>1. ns \notin raced'
      BY <1>4, <1>5, <2>1
    <3>2. \A e \in Slots \ {c} : Changing(e)' /\ call'[e].ns = ns => change.op = "grant" /\ call'[e].change.op = "grant"
      BY <1>5, <1>7, <1>8, <1>9, <3>1
    <3> QED BY <1>4, <1>5, <1>6, <2>1, <3>2
  <2>2. CASE d # c
    <3>1. /\ Changing(d) /\ call'[d].ns = call[d].ns /\ call'[d].list = call[d].list /\ call'[d].change = call[d].change
          /\ call[d].ns \notin raced /\ call[d].ns \notin raced'
      BY <1>5, <1>7, <2>2
    <3>2. /\ call[d].list = namespaces[call[d].ns]
          /\ \A e \in Slots \ {d} : Changing(e) /\ call[e].ns = call[d].ns =>
                call[d].change.op = "grant" /\ call[e].change.op = "grant"
      BY <3>1 DEF VarsIInv, ListsCurrent
    <3>3. ASSUME NEW e \in Slots \ {d}, Changing(e)', call'[e].ns = call'[d].ns
          PROVE call'[d].change.op = "grant" /\ call'[e].change.op = "grant"
      <4>1. CASE e = c
        BY <1>4, <1>5, <1>7, <1>8, <1>9, <3>1, <3>3, <4>1
      <4>2. CASE e # c
        BY <1>5, <3>1, <3>2, <3>3, <4>2
      <4> QED BY <4>1, <4>2
    <3> QED BY <1>6, <3>1, <3>2, <3>3
  <2> QED BY <2>1, <2>2
<1>12. GrantsAreKept'
  BY <1>6, <1>7 DEF VarsIInv, GrantsAreKept
<1> QED BY <1>5, <1>10, <1>11, <1>12 DEF VarsIInv

(* Everybody is disturbed, and nobody is alone.                                  *)
LEMMA AllMove ==
    ASSUME VarsIInv, call' = [c \in Slots |-> Disturbed(call[c])]
    PROVE  /\ CallTypes' /\ AloneIsAlone' /\ NothingWritten' /\ BatchFits'
           /\ \A c \in Slots : Changing(c)' => /\ Changing(c)
                  /\ call'[c].ns = call[c].ns /\ call'[c].list = call[c].list /\ call'[c].change = call[c].change
<1> USE DEF VarsIInv
<1>1. \A d \in Slots :
              /\ call'[d] \in Frames \cup {Idle}
              /\ call'[d] # Idle => call[d] # Idle /\ ~ call'[d].alone /\ call'[d].at = call[d].at
              /\ call[d] # Idle /\ call[d].at \in Batching =>
                    call'[d].i = call[d].i /\ call'[d].ops = call[d].ops /\ call'[d].results = call[d].results
              /\ call[d] # Idle /\ call[d].at = "list" =>
                    call'[d].ns = call[d].ns /\ call'[d].list = call[d].list /\ call'[d].change = call[d].change
              /\ call[d] = Idle => call'[d] = Idle
  BY AllDisturbed
<1>2. CallTypes'
  BY <1>1 DEF CallTypes, Frames
<1>3. AloneIsAlone' /\ NothingWritten' /\ BatchFits'
  BY <1>1 DEF AloneIsAlone, NothingWritten, BatchFits, FrameFits, Batching
<1> QED BY <1>1, <1>2, <1>3 DEF Changing

(* A call goes on to g, or returns; the others are not alone.                      *)
LEMMA CallMoves ==
    ASSUME VarsIInv, NEW c \in Slots, call[c] # Idle, NEW g, Goto(c, g),
           g # Idle => /\ g \in Batches /\ g.i <= Len(g.ops) /\ g.alone = call[c].alone
                       /\ g.at \in {"validate", "refused"} => g.results = <<>>
                       /\ FrameFits(g)'
    PROVE  /\ CallTypes' /\ AloneIsAlone' /\ NothingWritten' /\ BatchFits'
           /\ \A d \in Slots : Changing(d)' => Changing(d) /\ call'[d] = call[d]
<1> USE DEF VarsIInv
<1>1. call'[c] = g /\ \A d \in Slots \ {c} : call'[d] = call[d]
  BY DEF Goto, CallTypes
<1>2. \A d \in Slots \ {c} : call[d] # Idle => ~ call[d].alone
  BY DEF AloneIsAlone
<1>3. CallTypes'
  <2>1. call' = [call EXCEPT ![c] = g] /\ g \in Batches \cup {Idle}
    BY DEF Goto
  <2>2. \A d \in Slots : call'[d] # Idle /\ call'[d].at \in Batching => call'[d].i <= Len(call'[d].ops)
    BY <1>1 DEF CallTypes
  <2> QED BY <2>1, <2>2 DEF CallTypes
<1>4. AloneIsAlone'
  BY <1>1, <1>2 DEF AloneIsAlone
<1>5. NothingWritten'
  BY <1>1 DEF NothingWritten
<1>6. BatchFits'
  <2> SUFFICES ASSUME NEW d \in Slots, call'[d] # Idle PROVE FrameFits(call[d])'
    BY DEF BatchFits
  <2>1. CASE d = c
    BY <1>1, <2>1 DEF FrameFits, Distinct, Can, Fits, VersionMatches
  <2>2. CASE d # c
    BY <1>1, <1>2, <2>2 DEF FrameFits
  <2> QED BY <2>1, <2>2
<1>7. \A d \in Slots : Changing(d)' => Changing(d) /\ call'[d] = call[d]
  BY <1>1 DEF Changing, Batches, Batching
<1> QED BY <1>3, <1>4, <1>5, <1>6, <1>7

(* A list is added, or one is changed in place.                                  *)
LEMMA ListAdded ==
    ASSUME StoreTypes, NEW e, acls' = Append(acls, e)
    PROVE  /\ Len(acls) \in Nat /\ Len(acls') = Len(acls) + 1 /\ DOMAIN acls = 1..Len(acls) /\ DOMAIN acls' = 1..(Len(acls) + 1)
           /\ acls'[Len(acls) + 1] = e /\ \A i \in DOMAIN acls : acls'[i] = acls[i]
           /\ acls' \in Seq(Acls')
<1>1. PICK S : S = Acls \cup {e}
  OBVIOUS
<1>2. acls \in Seq(Acls)
  BY DEF StoreTypes
<1>3. acls \in Seq(S) /\ e \in S
  <2>1. \A i \in 1..Len(acls) : acls[i] \in S
    BY <1>1, <1>2
  <2> QED BY <1>1, <1>2, <2>1, SeqDef
<1>4. /\ Len(acls) \in Nat /\ Len(acls') = Len(acls) + 1 /\ DOMAIN acls = 1..Len(acls) /\ DOMAIN acls' = 1..(Len(acls) + 1)
      /\ acls'[Len(acls) + 1] = e /\ \A i \in DOMAIN acls : acls'[i] = acls[i]
  BY <1>3
<1>5. acls' \in Seq(S) /\ Len(acls') \in Nat
  BY <1>3
<1>6. acls' = [i \in DOMAIN acls' |-> acls'[i]] /\ DOMAIN acls' = 1..Len(acls')
  <2>1. PICK t : t = acls'
    OBVIOUS
  <2>2. t \in [1..Len(t) -> S]
    BY <1>5, <2>1, LenProperties
  <2> QED BY <2>1, <2>2
<1>7. \A i \in DOMAIN acls' : acls'[i] \in Acls'
  BY DEF Acls
<1>8. acls' \in [1..Len(acls') -> Acls']
  BY <1>6, <1>7
<1>9. acls' \in Seq(Acls')
  BY <1>5, <1>8, SeqDef
<1> QED BY <1>4, <1>9

LEMMA CreateStep ==
    ASSUME VarsIInv, NEW n \in Creations, createNamespace(n.ns, n.owner, n.defaults)
    PROVE  VarsIInv'
<1> USE DEF VarsIInv
<1>1. PICK ns \in Namespaces : ns = n.ns /\ n.owner \in Addresses
  BY TypesAssumption
<1>2. PICK e : e = [owner |-> n.owner, defaultPermissions |-> n.defaults, grants |-> [a \in Addresses |-> None]]
  OBVIOUS
<1>3. /\ namespaces[ns] = 0 /\ acls' = Append(acls, e) /\ namespaces' = [namespaces EXCEPT ![ns] = Len(acls')]
      /\ call' = [c \in Slots |-> Disturbed(call[c])] /\ UNCHANGED <<variables, now, started, acked, granted, raced>>
  BY <1>1, <1>2 DEF createNamespace
<1>4. /\ CallTypes' /\ AloneIsAlone' /\ NothingWritten' /\ BatchFits'
      /\ \A c \in Slots : Changing(c)' => /\ Changing(c)
             /\ call'[c].ns = call[c].ns /\ call'[c].list = call[c].list /\ call'[c].change = call[c].change
  BY <1>3, AllMove
<1>5. /\ Len(acls) \in Nat /\ Len(acls') = Len(acls) + 1 /\ DOMAIN acls = 1..Len(acls) /\ DOMAIN acls' = 1..(Len(acls) + 1)
      /\ acls'[Len(acls) + 1] = e /\ \A i \in DOMAIN acls : acls'[i] = acls[i]
      /\ acls' \in Seq(Acls')
  BY <1>3, ListAdded
<1>6. /\ namespaces' \in [Namespaces -> 0..Len(acls')] /\ namespaces'[ns] = Len(acls) + 1
      /\ \A m \in Namespaces \ {ns} : namespaces'[m] = namespaces[m] /\ namespaces[m] \in 0..Len(acls)
  BY <1>3, <1>5 DEF StoreTypes
<1>7. {"owner", "grants"} \subseteq DOMAIN e /\ e.owner \in Addresses /\ e.grants = [a \in Addresses |-> None]
  BY <1>1, <1>2
<1>8. StoreTypes'
  BY <1>3, <1>5, <1>6, <1>7 DEF StoreTypes
<1>9. VersionTypes'
  BY <1>3 DEF VersionTypes
<1>10. \A c \in Slots : Changing(c) => call[c].list \in 1..Len(acls) /\ call[c].ns # ns /\ call[c].ns \in Namespaces
  <2>1. \A c \in Slots : Changing(c) => call[c].ns \in Namespaces
    BY FrameKinds DEF CallTypes, Frames, Changing, ListChanges
  <2> QED BY <1>3, <1>5, <2>1 DEF ListsApart
<1>11. ListsApart'
  <2>1. \A l, m \in Namespaces : namespaces'[l] # 0 /\ namespaces'[l] = namespaces'[m] => l = m
    BY <1>5, <1>6 DEF ListsApart
  <2>2. ASSUME NEW c \in Slots, Changing(c)'
        PROVE  /\ call'[c].list \in DOMAIN acls' /\ namespaces'[call'[c].ns] # 0
               /\ \A m \in Namespaces \ {call'[c].ns} : namespaces'[m] # call'[c].list
    <3>1. Changing(c) /\ call'[c].ns = call[c].ns /\ call'[c].list = call[c].list
      BY <1>4, <2>2
    <3> QED BY <1>5, <1>6, <1>10, <3>1 DEF ListsApart
  <2> QED BY <2>1, <2>2 DEF ListsApart
<1>12. ListsCurrent'
  BY <1>3, <1>4, <1>6, <1>10 DEF ListsCurrent
<1>13. GrantsOfNew'
  BY <1>3, <1>5, <1>6 DEF GrantsOfNew
<1>14. GrantsAreKept'
  <2> SUFFICES ASSUME NEW m \in Namespaces \ raced', namespaces'[m] # 0 PROVE acls'[namespaces'[m]].grants = granted'[m]
    BY DEF GrantsAreKept
  <2>1. CASE m = ns
    BY <1>3, <1>5, <1>6, <1>7, <2>1 DEF GrantsOfNew
  <2>2. CASE m # ns
    BY <1>3, <1>5, <1>6, <2>2 DEF GrantsAreKept
  <2> QED BY <2>1, <2>2
<1> QED BY <1>4, <1>8, <1>9, <1>11, <1>12, <1>13, <1>14

LEMMA TimeStep == ASSUME VarsIInv, TimePasses PROVE VarsIInv'
<1> USE DEF VarsIInv
<1>1. /\ call' = [c \in Slots |-> Disturbed(call[c])] /\ now < MaxTime /\ now' = now + 1
      /\ UNCHANGED <<namespaces, acls, variables, started, acked, granted, raced>>
  BY DEF TimePasses
<1>2. /\ CallTypes' /\ AloneIsAlone' /\ NothingWritten' /\ BatchFits'
      /\ \A c \in Slots : Changing(c)' => /\ Changing(c)
             /\ call'[c].ns = call[c].ns /\ call'[c].list = call[c].list /\ call'[c].change = call[c].change
  BY <1>1, AllMove
<1>3. StoreTypes' /\ VersionTypes' /\ GrantsOfNew'
  BY <1>1, VarsConstants DEF StoreTypes, Acls, VersionTypes, GrantsOfNew
<1> QED BY <1>1, <1>2, <1>3, ListsStay

-----------------------------------------------------------------------------
(* The steps of a batch.                                                        *)
LEMMA BatchFrame ==
    ASSUME VarsIInv, NEW c \in Slots, call[c] # Idle, call[c].at \in Batching
    PROVE  LET f == call[c] IN
           /\ f \in Batches /\ f.i \in 1..Len(f.ops) /\ f.i \in DOMAIN f.ops /\ Len(f.ops) \in Nat /\ f.ops \in Operations
           /\ DOMAIN f.ops = 1..Len(f.ops) /\ f.caller \in Addresses /\ f.may \in Verdicts
           /\ \A j \in DOMAIN f.ops : f.ops[j] \in SetOps /\ f.ops[j].var \in Variables /\ f.ops[j].var[1] \in Namespaces
           /\ f.results \in Seq(BOOLEAN) /\ f.validations \in Seq(BOOLEAN)
           /\ FrameFits(f) /\ (f.at \in {"validate", "refused"} => f.results = <<>>)
<1> DEFINE f == call[c]
<1>1. f \in Batches /\ f.i <= Len(f.ops)
  BY FrameKinds DEF VarsIInv, CallTypes, Frames
<1>2. f.ops \in Operations /\ f.i \in Nat \ {0} /\ f.caller \in Addresses /\ f.may \in Verdicts /\ f.results \in Seq(BOOLEAN) /\ f.validations \in Seq(BOOLEAN)
  BY <1>1 DEF Batches
<1>3. f.ops \in Seq(SetOps) /\ Len(f.ops) \in Nat \ {0} /\ DOMAIN f.ops = 1..Len(f.ops)
  BY <1>2, VarsConstants
<1>4. FrameFits(f) /\ (f.at \in {"validate", "refused"} => f.results = <<>>)
  BY DEF VarsIInv, BatchFits, NothingWritten
<1> QED BY <1>1, <1>2, <1>3, <1>4, Permitted

LEMMA OnlyCallsMove ==
    ASSUME VarsIInv, UNCHANGED <<namespaces, acls, variables, now, started, acked, granted, raced>>, CallTypes',
           AloneIsAlone', NothingWritten', BatchFits', \A d \in Slots : Changing(d)' => Changing(d) /\ call'[d] = call[d]
    PROVE  VarsIInv'
<1>1. StoreTypes' /\ VersionTypes' /\ GrantsOfNew'
  BY DEF VarsIInv, StoreTypes, Acls, VersionTypes, GrantsOfNew
<1> QED BY <1>1, ListsStay DEF VarsIInv

LEMMA NextOperationStep == ASSUME VarsIInv, NEW c \in Slots, NextOperation(c) PROVE VarsIInv'
<1> DEFINE f == call[c]
<1>1. /\ f # Idle /\ f.at = "results" /\ f.i < Len(f.ops) /\ UNCHANGED <<namespaces, acls, variables, now, started, acked, granted, raced>>
  BY DEF NextOperation
<1>2. PICK g : g = [f EXCEPT !.i = @ + 1, !.at = "set", !.may = MayWrite(f.caller, f.ops[f.i + 1])]
  OBVIOUS
<1>3. /\ f \in Batches /\ f.i \in 1..Len(f.ops) /\ Len(f.ops) \in Nat /\ FrameFits(f) /\ DOMAIN f.ops = 1..Len(f.ops) /\ f.caller \in Addresses
      /\ \A j \in DOMAIN f.ops : f.ops[j] \in SetOps /\ f.ops[j].var \in Variables /\ f.ops[j].var[1] \in Namespaces
  BY <1>1, BatchFrame DEF Batching
<1>4. f.ops[f.i + 1] \in SetOps
  BY <1>1, <1>3
<1>5. MayWrite(f.caller, f.ops[f.i + 1]) \in Verdicts /\ MayWrite(f.caller, f.ops[f.i + 1]) = May[f.ops[f.i + 1].var[1]][f.caller]
  BY <1>3, <1>4, Permitted
<1> HIDE DEF f
<1>0. PICK m \in Verdicts : m = MayWrite(f.caller, f.ops[f.i + 1])
  BY <1>5
<1>6. /\ g \in Batches /\ g.i = f.i + 1 /\ g.at = "set" /\ g.ops = f.ops /\ g.caller = f.caller /\ g.atomic = f.atomic /\ g.alone = f.alone
      /\ g.results = f.results /\ g.may = May[f.ops[f.i + 1].var[1]][f.caller]
  <2>1. g = [f EXCEPT !.i = f.i + 1, !.at = "set", !.may = m] /\ f.i + 1 \in Nat \ {0}
    BY <1>0, <1>2, <1>3
  <2>2. m = May[f.ops[f.i + 1].var[1]][f.caller]
    BY <1>0, <1>5
  <2> QED BY <1>3, <2>1, <2>2 DEF Batches, Batching
<1>7. g.i <= Len(g.ops)
  BY <1>1, <1>3, <1>6
<1>8. May' = May
  BY <1>1, MayKept
<1>9. FrameFits(g)'
  <2> SUFFICES ASSUME f.alone, f.atomic
               PROVE  /\ g.may = "granted" /\ \A j \in DOMAIN g.ops : Can(g, j)'
                      /\ Distinct(f) => /\ \A j \in DOMAIN g.ops : j >= g.i => Fits(g, j)'
                                        /\ \A j \in DOMAIN g.results : g.results[j]
    BY <1>6 DEF FrameFits, Distinct
  <2>1. /\ \A j \in DOMAIN f.ops : Can(f, j)
        /\ Distinct(f) => (\A j \in DOMAIN f.ops : j > f.i => Fits(f, j)) /\ \A j \in DOMAIN f.results : f.results[j]
    BY <1>1, <1>3 DEF FrameFits, Batching
  <2>2. Distinct(f) => \A j \in DOMAIN g.ops : j >= g.i => Fits(f, j)
    BY <1>3, <1>6, <2>1
  <2>3. f.i + 1 \in DOMAIN f.ops /\ f.i + 1 > f.i
    BY <1>1, <1>3
  <2>4. g.may = "granted"
    BY <1>6, <2>1, <2>3 DEF Can
  <2>5. \A j \in DOMAIN g.ops : Can(g, j)'
    BY <1>6, <1>8, <2>1 DEF Can
  <2> QED BY <1>1, <1>6, <1>8, <2>1, <2>2, <2>4, <2>5 DEF Can, Fits, VersionMatches
<1>10. Goto(c, g)
  BY <1>2 DEF NextOperation, f
<1> QED BY <1>1, <1>6, <1>7, <1>9, <1>10, CallMoves, OnlyCallsMove DEF f

LEMMA ReturnStep == ASSUME VarsIInv, NEW c \in Slots, Return(c) PROVE VarsIInv'
BY CallMoves, OnlyCallsMove DEF Return

LEMMA ValidateStep == ASSUME VarsIInv, NEW c \in Slots, Validate(c) PROVE VarsIInv'
<1> DEFINE f == call[c]
<1>1. f # Idle /\ f.at = "validate" /\ UNCHANGED <<namespaces, acls, variables, now, started, acked, granted, raced>>
  BY DEF Validate
<1>2. PICK ok \in BOOLEAN : ok = (f.may = "granted" /\ VersionMatches(f.ops[f.i]))
  OBVIOUS
<1>3. PICK g : g = Validated(f, ok)
  OBVIOUS
<1>4. /\ f \in Batches /\ f.i \in 1..Len(f.ops) /\ Len(f.ops) \in Nat /\ FrameFits(f) /\ DOMAIN f.ops = 1..Len(f.ops) /\ f.caller \in Addresses
      /\ \A j \in DOMAIN f.ops : f.ops[j] \in SetOps /\ f.ops[j].var \in Variables /\ f.ops[j].var[1] \in Namespaces
      /\ f.results = <<>> /\ f.validations \in Seq(BOOLEAN)
  BY <1>1, BatchFrame DEF Batching
<1>5. \A j \in DOMAIN f.ops : /\ MayWrite(f.caller, f.ops[j]) = May[f.ops[j].var[1]][f.caller]
                              /\ May[f.ops[j].var[1]][f.caller] \in Verdicts
  BY <1>4, Permitted
<1>6. May' = May
  BY <1>1, MayKept
<1>7. Goto(c, IF f.may = "throws" THEN [f EXCEPT !.at = "thrown"] ELSE g)
  BY <1>2, <1>3 DEF Validate
<1> HIDE DEF f
<1>8. CASE f.may = "throws"
  <2>1. PICK h : h = [f EXCEPT !.at = "thrown"]
    OBVIOUS
  <2>2. h \in Batches /\ h.i = f.i /\ h.ops = f.ops /\ h.at = "thrown" /\ h.alone = f.alone /\ h.results = <<>>
    BY <1>4, <2>1 DEF Batches, Batching
  <2>3. FrameFits(h)'
    BY <2>2 DEF FrameFits
  <2>4. Goto(c, h)
    BY <1>7, <1>8, <2>1
  <2> QED BY <1>1, <1>4, <2>2, <2>3, <2>4, CallMoves, OnlyCallsMove DEF f
<1>9. SUFFICES ASSUME Goto(c, g) PROVE VarsIInv'
  BY <1>7, <1>8
<1>10. PICK valid \in Seq(BOOLEAN) : valid = Append(f.validations, ok)
  BY <1>4, AppendProperties, Zenon
<1>11. /\ Len(f.validations) \in Nat /\ Len(valid) = Len(f.validations) + 1 /\ DOMAIN valid = 1..Len(valid) /\ valid[Len(valid)] = ok
      /\ \A j \in 1..Len(f.validations) : valid[j] = f.validations[j]
  BY <1>4, <1>10
<1>12. f.alone /\ f.atomic =>
         Len(valid) = f.i /\ \A j \in 1..f.i : valid[j] => Fits(f, j)
  <2> SUFFICES ASSUME f.alone, f.atomic PROVE Len(valid) = f.i /\ \A j \in 1..f.i : valid[j] => Fits(f, j)
    OBVIOUS
  <2>1. /\ Len(f.validations) = f.i - 1 /\ f.may = May[f.ops[f.i].var[1]][f.caller]
        /\ \A j \in 1..(f.i - 1) : f.validations[j] => Fits(f, j)
    BY <1>1, <1>4 DEF FrameFits, Batching
  <2>2. Len(valid) = f.i /\ valid[f.i] = ok
    BY <1>4, <1>11, <2>1
  <2>3. ok => Fits(f, f.i)
    BY <1>2, <1>4, <2>1 DEF Fits, Can
  <2>4. \A j \in 1..(f.i - 1) : valid[j] = f.validations[j]
    BY <1>4, <1>11, <2>1
  <2>5. \A j \in 1..f.i : j = f.i \/ j \in 1..(f.i - 1)
    <3>1. f.i \in Nat
      BY <1>4
    <3> QED BY ONLY <3>1
  <2> QED BY <2>1, <2>2, <2>3, <2>4, <2>5
<1>13. CASE f.i < Len(f.ops)
  <2>1. f.i + 1 \in DOMAIN f.ops
    BY <1>4, <1>13
  <2>2. PICK m \in Verdicts : m = MayWrite(f.caller, f.ops[f.i + 1]) /\ m = May[f.ops[f.i + 1].var[1]][f.caller]
    BY <1>5, <2>1
  <2>3. g = [f EXCEPT !.i = f.i + 1, !.may = m, !.validations = valid]
    BY <1>3, <1>10, <1>13, <2>2 DEF Validated
  <2>4. /\ g \in Batches /\ g.i = f.i + 1 /\ g.at = "validate" /\ g.ops = f.ops /\ g.caller = f.caller /\ g.atomic = f.atomic
        /\ g.alone = f.alone /\ g.results = f.results /\ g.may = m /\ g.validations = valid
    <3>1. PICK n \in Nat \ {0} : n = f.i + 1
      BY <1>4
    <3> QED BY <1>1, <1>4, <2>3, <3>1 DEF Batches
  <2>5. FrameFits(g)'
    <3> SUFFICES ASSUME f.alone, f.atomic
                 PROVE  /\ Len(g.validations) = g.i - 1 /\ g.may = May'[g.ops[g.i].var[1]][g.caller]
                        /\ \A j \in 1..(g.i - 1) : g.validations[j] => Fits(g, j)'
      BY <2>4 DEF FrameFits, Distinct
    <3>1. g.i - 1 = f.i
      BY <1>4, <2>4
    <3> QED BY <1>1, <1>6, <1>12, <2>2, <2>4, <3>1 DEF Can, Fits, VersionMatches
  <2>6. g.i <= Len(g.ops)
    BY <1>4, <1>13, <2>4
  <2> QED BY <1>1, <1>4, <1>9, <2>4, <2>5, <2>6, CallMoves, OnlyCallsMove DEF f
<1>14. CASE ~ f.i < Len(f.ops) /\ FALSE \in ToSet(valid)
  <2>1. g = [f EXCEPT !.at = "refused"]
    BY <1>3, <1>10, <1>14 DEF Validated
  <2>2. g \in Batches /\ g.i = f.i /\ g.ops = f.ops /\ g.at = "refused" /\ g.alone = f.alone /\ g.results = f.results
    BY <1>4, <2>1 DEF Batches, Batching
  <2>3. FrameFits(g)'
    BY <2>2 DEF FrameFits
  <2> QED BY <1>1, <1>4, <1>9, <2>2, <2>3, CallMoves, OnlyCallsMove DEF f
<1>15. CASE ~ f.i < Len(f.ops) /\ FALSE \notin ToSet(valid)
  <2>1. 1 \in DOMAIN f.ops /\ f.i = Len(f.ops)
    BY <1>4, <1>15
  <2>2. PICK m \in Verdicts : m = MayWrite(f.caller, f.ops[1]) /\ m = May[f.ops[1].var[1]][f.caller]
    BY <1>5, <2>1
  <2>3. g = [f EXCEPT !.at = "set", !.i = 1, !.may = m, !.validations = <<>>]
    BY <1>3, <1>10, <1>15, <2>2 DEF Validated
  <2>4. /\ g \in Batches /\ g.i = 1 /\ g.at = "set" /\ g.ops = f.ops /\ g.caller = f.caller /\ g.atomic = f.atomic
        /\ g.alone = f.alone /\ g.results = f.results /\ g.may = m
    <3>1. <<>> \in Seq(BOOLEAN)
      OBVIOUS
    <3>2. g = [at |-> "set", caller |-> f.caller, ops |-> f.ops, atomic |-> f.atomic, i |-> 1, may |-> m,
                validations |-> <<>>, results |-> f.results, alone |-> f.alone]
      BY <1>4, <2>3 DEF Batches
    <3>3. f.atomic \in BOOLEAN /\ f.alone \in BOOLEAN /\ f.ops \in Operations /\ f.results \in Seq(BOOLEAN)
      BY <1>4 DEF Batches
    <3> QED BY <1>4, <3>1, <3>2, <3>3 DEF Batches, Batching
  <2>5. \A j \in 1..Len(valid) : valid[j]
    <3>1. \A j \in 1..Len(valid) : valid[j] \in BOOLEAN
      BY <1>10
    <3> QED BY <1>11, <1>15, <3>1 DEF ToSet
  <2>6. FrameFits(g)'
    <3> SUFFICES ASSUME f.alone, f.atomic
                 PROVE  /\ g.may = "granted" /\ \A j \in DOMAIN g.ops : Can(g, j)' /\ Fits(g, j)'
                        /\ \A j \in DOMAIN g.results : g.results[j]
      BY <2>4 DEF FrameFits, Distinct
    <3>1. \A j \in DOMAIN f.ops : Fits(f, j)
      BY <1>4, <1>12, <2>1, <2>5
    <3>2. g.may = "granted"
      BY <2>1, <2>2, <2>4, <3>1 DEF Fits, Can
    <3>3. \A j \in DOMAIN g.results : g.results[j]
      BY <1>4, <2>4
    <3> QED BY <1>1, <1>6, <2>4, <3>1, <3>2, <3>3 DEF Can, Fits, VersionMatches
  <2>7. g.i <= Len(g.ops)
    BY <1>4, <2>1, <2>4
  <2> QED BY <1>1, <1>9, <2>4, <2>6, <2>7, CallMoves, OnlyCallsMove DEF f
<1> QED BY <1>13, <1>14, <1>15

-----------------------------------------------------------------------------
(* The variables are written and deleted.                                        *)
LEMMA VersionsMove ==
    ASSUME VarsIInv, NEW v \in Variables, NEW a \in Addresses,
           \/ /\ variables' = [variables EXCEPT ![v] = None] /\ acked' = [acked EXCEPT ![v] = <<>>]
           \/ LET n == IF variables[v] = None THEN 0 ELSE variables[v].version + 1 IN
              /\ variables' = [variables EXCEPT ![v] = [version |-> n, updatedBy |-> a]]
              /\ acked' = [acked EXCEPT ![v] = Append(@, n)]
    PROVE  VersionTypes' /\ \A w \in Variables \ {v} : variables'[w] = variables[w]
<1> USE DEF VarsIInv
<1>1. /\ variables \in [Variables -> [version : Nat, updatedBy : Addresses] \cup {None}] /\ acked \in [Variables -> Seq(Nat)]
      /\ None \notin [version : Nat, updatedBy : Addresses]
  BY VarsConstants DEF VersionTypes
<1>2. \A w \in Variables \ {v} : variables'[w] = variables[w] /\ acked'[w] = acked[w]
  BY <1>1
<1> DEFINE Versions(w) == IF variables[w] = None THEN 0 ELSE variables[w].version + 1
<1>3. \A w \in Variables : acked[w] = [i \in 1..Versions(w) |-> i - 1] /\ Versions(w) \in Nat
  BY <1>1 DEF VersionTypes
<1>4. CASE variables' = [variables EXCEPT ![v] = None] /\ acked' = [acked EXCEPT ![v] = <<>>]
  <2>1. variables'[v] = None /\ acked'[v] = <<>>
    BY <1>1, <1>4
  <2>2. acked'[v] = [i \in 1..0 |-> i - 1]
    BY <2>1
  <2>3. \A w \in Variables : acked'[w] = [i \in 1..(IF variables'[w] = None THEN 0 ELSE variables'[w].version + 1) |-> i - 1]
    BY <1>2, <1>3, <2>1, <2>2
  <2> QED BY <1>1, <1>2, <1>4, <2>3 DEF VersionTypes
<1>5. CASE LET n == Versions(v) IN
             /\ variables' = [variables EXCEPT ![v] = [version |-> n, updatedBy |-> a]]
             /\ acked' = [acked EXCEPT ![v] = Append(@, n)]
  <2>1. PICK n \in Nat : n = Versions(v)
    BY <1>3
  <2> HIDE DEF Versions
  <2>2. /\ variables'[v] = [version |-> n, updatedBy |-> a] /\ variables'[v] # None /\ variables'[v].version + 1 = n + 1
        /\ variables' \in [Variables -> [version : Nat, updatedBy : Addresses] \cup {None}]
    BY <1>1, <1>5, <2>1
  <2>3. acked'[v] = Append(acked[v], n) /\ acked[v] = [i \in 1..n |-> i - 1] /\ acked[v] \in Seq(Nat)
    BY <1>1, <1>3, <1>5, <2>1
  <2>4. acked'[v] = [i \in 1..(n + 1) |-> i - 1]
    <3>1. Len(acked[v]) = n
      BY <2>3
    <3>2. /\ acked'[v] \in Seq(Nat) /\ DOMAIN acked'[v] = 1..(n + 1)
          /\ \A i \in 1..(n + 1) : acked'[v][i] = i - 1
      BY <2>3, <3>1
    <3>3. acked'[v] \in [1..Len(acked'[v]) -> Nat]
      BY <3>2, LenProperties
    <3> QED BY <3>2, <3>3
  <2>5. acked' \in [Variables -> Seq(Nat)]
    BY <1>1, <1>5, <2>1, <2>3
  <2>6. \A w \in Variables : acked'[w] = [i \in 1..(IF variables'[w] = None THEN 0 ELSE variables'[w].version + 1) |-> i - 1]
    BY <1>2, <1>3, <2>2, <2>4 DEF Versions
  <2> QED BY <1>2, <2>2, <2>5, <2>6 DEF VersionTypes
<1> QED BY <1>2, <1>4, <1>5

LEMMA OnlyVariablesMove ==
    ASSUME VarsIInv, UNCHANGED <<namespaces, acls, now, started, granted, raced>>, CallTypes', VersionTypes',
           AloneIsAlone', NothingWritten', BatchFits', \A d \in Slots : Changing(d)' => Changing(d) /\ call'[d] = call[d]
    PROVE  VarsIInv'
<1>1. StoreTypes' /\ GrantsOfNew'
  BY DEF VarsIInv, StoreTypes, Acls, GrantsOfNew
<1> QED BY <1>1, ListsStay DEF VarsIInv

LEMMA SetStep == ASSUME VarsIInv, NEW c \in Slots, Set(c) PROVE VarsIInv'
<1> DEFINE f == call[c]
<1>1. f # Idle /\ f.at = "set" /\ UNCHANGED <<namespaces, acls, now, started, granted, raced>>
  BY DEF Set
<1>2. /\ f \in Batches /\ f.i \in 1..Len(f.ops) /\ f.i \in DOMAIN f.ops /\ Len(f.ops) \in Nat /\ FrameFits(f) /\ DOMAIN f.ops = 1..Len(f.ops)
      /\ f.caller \in Addresses /\ f.results \in Seq(BOOLEAN)
      /\ \A j \in DOMAIN f.ops : f.ops[j] \in SetOps /\ f.ops[j].var \in Variables /\ f.ops[j].var[1] \in Namespaces
  BY <1>1, BatchFrame DEF Batching
<1>3. PICK op \in SetOps : op = f.ops[f.i] /\ op.var \in Variables
  BY <1>2
<1>4. PICK ok \in BOOLEAN : ok = (f.may = "granted" /\ VersionMatches(op))
  OBVIOUS
<1>5. PICK g : g = [f EXCEPT !.results = Append(@, ok), !.at = "results"]
  OBVIOUS
<1>6. Goto(c, IF f.may = "throws" THEN [f EXCEPT !.at = "thrown"] ELSE g)
  BY <1>3, <1>4, <1>5, Zenon DEF Set
<1>7. VersionTypes' /\ \A w \in Variables \ {op.var} : variables'[w] = variables[w]
  <2>1. CASE ok
    <3>1. /\ variables' = [variables EXCEPT ![op.var] = [version |-> NextVersion(op), updatedBy |-> f.caller]]
          /\ acked' = [acked EXCEPT ![op.var] = Append(@, NextVersion(op))]
      BY <1>3, <1>4, <2>1 DEF Set
    <3> QED BY <1>2, <1>3, <3>1, VersionsMove DEF NextVersion
  <2>2. CASE ~ ok
    <3>1. UNCHANGED <<variables, acked>>
      BY <1>3, <1>4, <2>2 DEF Set
    <3> QED BY <3>1 DEF VarsIInv, VersionTypes
  <2> QED BY <2>1, <2>2
<1> HIDE DEF f
<1>8. CASE f.may = "throws"
  <2>1. PICK h : h = [f EXCEPT !.at = "thrown"]
    OBVIOUS
  <2>2. h \in Batches /\ h.i = f.i /\ h.ops = f.ops /\ h.at = "thrown" /\ h.alone = f.alone /\ h.atomic = f.atomic
    BY <1>2, <2>1 DEF Batches, Batching
  <2>3. ~ (f.alone /\ f.atomic)
    BY <1>1, <1>2, <1>8 DEF FrameFits, Batching
  <2>4. FrameFits(h)'
    BY <2>2, <2>3 DEF FrameFits
  <2>5. Goto(c, h)
    BY <1>6, <1>8, <2>1
  <2> QED BY <1>1, <1>2, <1>7, <2>2, <2>4, <2>5, CallMoves, OnlyVariablesMove DEF f
<1>9. SUFFICES ASSUME Goto(c, g) PROVE VarsIInv'
  BY <1>6, <1>8
<1>10. PICK results \in Seq(BOOLEAN) : results = Append(f.results, ok)
  BY <1>2, AppendProperties, Zenon
<1>11. g \in Batches /\ g.i = f.i /\ g.at = "results" /\ g.ops = f.ops /\ g.caller = f.caller /\ g.atomic = f.atomic
      /\ g.alone = f.alone /\ g.results = results
  <2>1. g = [f EXCEPT !.results = results, !.at = "results"]
    BY <1>2, <1>5, <1>10 DEF Batches
  <2> QED BY <1>2, <2>1 DEF Batches, Batching
<1>12. FrameFits(g)'
  <2>4. May' = May
    BY <1>1, MayKept
  <2>6. f.alone /\ f.atomic => \A j \in DOMAIN g.ops : Can(g, j)'
    BY <1>1, <1>2, <1>11, <2>4 DEF FrameFits, Batching, Can
  <2> SUFFICES ASSUME f.alone, f.atomic, Distinct(f)
               PROVE  (\A j \in DOMAIN g.ops : j > g.i => Fits(g, j)') /\ \A j \in DOMAIN g.results : g.results[j]
    BY <1>11, <2>6 DEF FrameFits, Distinct
  <2>1. f.may = "granted" /\ (\A j \in DOMAIN f.ops : j >= f.i => Fits(f, j)) /\ \A j \in DOMAIN f.results : f.results[j]
    BY <1>1, <1>2 DEF FrameFits, Batching
  <2>2. ok
    <3>1. Fits(f, f.i)
      <4>1. f.i >= f.i
        BY <1>2
      <4> QED BY <1>2, <2>1, <4>1
    <3>2. VersionMatches(op)
      BY <1>3, <3>1 DEF Fits
    <3> QED BY <1>4, <2>1, <3>2
  <2>3. \A j \in DOMAIN results : results[j]
    BY <1>2, <1>10, <2>1, <2>2
  <2>5. ASSUME NEW j \in DOMAIN f.ops, j > f.i PROVE Fits(g, j)'
    <3>1. Fits(f, j) /\ f.ops[j].var # op.var /\ f.ops[j].var \in Variables
      BY <1>2, <1>3, <2>1, <2>5 DEF Distinct
    <3>2. variables'[f.ops[j].var] = variables[f.ops[j].var]
      BY <1>7, <3>1
    <3> QED BY <1>11, <2>4, <3>1, <3>2 DEF Can, Fits, VersionMatches
  <2> QED BY <1>11, <2>3, <2>5
<1>13. g.i <= Len(g.ops)
  BY <1>2, <1>11
<1> QED BY <1>1, <1>9, <1>7, <1>11, <1>12, <1>13, CallMoves, OnlyVariablesMove DEF f

LEMMA DeleteVarStep == ASSUME VarsIInv, NEW c \in Slots, DeleteVar(c) PROVE VarsIInv'
<1> DEFINE f == call[c]
<1>1. f # Idle /\ f.at = "delete" /\ Goto(c, Idle) /\ UNCHANGED <<namespaces, acls, now, started, granted, raced>>
  BY DEF DeleteVar
<1>2. f.op.var \in Variables
  <2>1. f \in Deletes
    BY <1>1, FrameKinds DEF VarsIInv, CallTypes, Frames
  <2> QED BY <2>1, Permitted DEF Deletes
<1>3. VersionTypes'
  <2>1. CASE variables' = [variables EXCEPT ![f.op.var] = None] /\ acked' = [acked EXCEPT ![f.op.var] = <<>>]
    <3>1. \A a \in Addresses : VersionTypes'
      BY <1>2, <2>1, VersionsMove
    <3>2. PICK v \in Variables : v = f.op.var
      BY <1>2
    <3>3. /\ variables \in [Variables -> [version : Nat, updatedBy : Addresses] \cup {None}] /\ acked \in [Variables -> Seq(Nat)]
          /\ \A w \in Variables : acked[w] = [i \in 1..(IF variables[w] = None THEN 0 ELSE variables[w].version + 1) |-> i - 1]
      BY DEF VarsIInv, VersionTypes
    <3>4. variables'[v] = None /\ acked'[v] = <<>> /\ \A w \in Variables \ {v} : variables'[w] = variables[w] /\ acked'[w] = acked[w]
      BY <2>1, <3>2, <3>3
    <3>5. acked'[v] = [i \in 1..0 |-> i - 1]
      BY <3>4
    <3>6. \A w \in Variables : acked'[w] = [i \in 1..(IF variables'[w] = None THEN 0 ELSE variables'[w].version + 1) |-> i - 1]
      BY <3>3, <3>4, <3>5
    <3> QED BY <2>1, <3>2, <3>3, <3>6 DEF VersionTypes
  <2>2. CASE UNCHANGED <<variables, acked>>
    BY <2>2 DEF VarsIInv, VersionTypes
  <2> QED BY <2>1, <2>2 DEF DeleteVar
<1> QED BY <1>1, <1>3, CallMoves, OnlyVariablesMove

-----------------------------------------------------------------------------
(* An access list changes.                                                      *)
LEMMA ListStep == ASSUME VarsIInv, NEW c \in Slots, ListChanged(c) PROVE VarsIInv'
<1> USE DEF VarsIInv
<1>1. PICK f : f = call[c]
  OBVIOUS
<1>2. f # Idle /\ f.at = "list" /\ Goto(c, Idle) /\ UNCHANGED <<variables, now, started, acked, raced>>
  BY <1>1 DEF ListChanged
<1>3. f \in ListChanges
  BY <1>1, <1>2, FrameKinds DEF CallTypes, Frames
<1>4. f.ns \in Namespaces /\ f.change \in Changes
  BY <1>3 DEF ListChanges
<1>5. /\ f.list \in DOMAIN acls /\ namespaces[f.ns] # 0 /\ \A n \in Namespaces \ {f.ns} : namespaces[n] # f.list
      /\ f.ns \notin raced => f.list = namespaces[f.ns]
  BY <1>1, <1>2 DEF ListsApart, ListsCurrent, Changing
<1>6. /\ CallTypes' /\ AloneIsAlone' /\ NothingWritten'
      /\ \A d \in Slots : Changing(d)' => d # c /\ Changing(d) /\ call'[d] = call[d]
  <2>1. call'[c] = Idle
    BY <1>2 DEF Goto, CallTypes
  <2> QED BY <1>1, <1>2, <2>1, CallMoves DEF Changing
<1>7. BatchFits'
  BY <1>1, <1>2, CallMoves
<1>8. VersionTypes'
  BY <1>2 DEF VersionTypes
<1>9. CASE f.may # "granted"
  <2>1. UNCHANGED <<namespaces, acls, granted>>
    BY <1>1, <1>2, <1>9 DEF ListChanged
  <2>2. StoreTypes' /\ GrantsOfNew'
    BY <1>2, <2>1 DEF StoreTypes, Acls, GrantsOfNew
  <2> QED BY <1>2, <1>6, <1>7, <1>8, <2>1, <2>2, ListsStay
<1>10. CASE f.change.op = "grant" /\ WithGrant(f) /\ granted' = [granted EXCEPT ![f.ns][f.change.grantee] = f.change.grant]
  <2>1. PICK a \in Addresses, r \in Grants \cup {None} : a = f.change.grantee /\ r = f.change.grant
    BY <1>4, <1>10 DEF Changes
  <2>2. UNCHANGED namespaces /\ acls' = [acls EXCEPT ![f.list].grants[a] = r] /\ granted' = [granted EXCEPT ![f.ns][a] = r]
    BY <1>10, <2>1 DEF WithGrant
  <2>3. /\ acls \in Seq(Acls) /\ DOMAIN acls = 1..Len(acls) /\ Len(acls) \in Nat
        /\ {"owner", "grants"} \subseteq DOMAIN acls[f.list] /\ acls[f.list].owner \in Addresses
        /\ acls[f.list].grants \in [Addresses -> Grants \cup {None}]
    BY <1>5 DEF StoreTypes
  <2>4. PICK e : e = [acls[f.list] EXCEPT !.grants = [acls[f.list].grants EXCEPT ![a] = r]]
    OBVIOUS
  <2>5. /\ {"owner", "grants"} \subseteq DOMAIN e /\ e.owner \in Addresses /\ e.grants = [acls[f.list].grants EXCEPT ![a] = r]
        /\ e.grants \in [Addresses -> Grants \cup {None}]
    BY <2>3, <2>4
  <2>6. acls' = [acls EXCEPT ![f.list] = e]
    BY <2>2, <2>3, <2>4
  <2>7. /\ acls' \in Seq(Acls') /\ Len(acls') = Len(acls) /\ DOMAIN acls' = DOMAIN acls
        /\ acls'[f.list] = e /\ \A i \in DOMAIN acls \ {f.list} : acls'[i] = acls[i]
    <3>1. PICK S : S = Acls \cup {e}
      OBVIOUS
    <3>2. acls \in [1..Len(acls) -> S] /\ e \in S
      BY <2>3, <3>1, LenProperties
    <3>3. acls' \in [1..Len(acls) -> S] /\ acls'[f.list] = e /\ \A i \in DOMAIN acls \ {f.list} : acls'[i] = acls[i]
      BY <1>5, <2>6, <3>2
    <3>4. acls' \in [1..Len(acls) -> Acls']
      BY <3>3 DEF Acls
    <3>5. acls' \in Seq(Acls')
      BY <2>3, <3>4, SeqDef
    <3> QED BY <2>3, <3>3, <3>5
  <2>8. /\ granted' \in [Namespaces -> [Addresses -> Grants \cup {None}]]
        /\ granted'[f.ns] = [granted[f.ns] EXCEPT ![a] = r] /\ \A n \in Namespaces \ {f.ns} : granted'[n] = granted[n]
    BY <1>4, <2>2 DEF StoreTypes
  <2>9. StoreTypes'
    BY <1>2, <2>2, <2>3, <2>5, <2>7, <2>8 DEF StoreTypes
  <2>10. ListsApart'
    BY <1>6, <2>2, <2>7 DEF ListsApart
  <2>11. ListsCurrent'
    BY <1>2, <1>6, <2>2 DEF ListsCurrent
  <2>12. GrantsOfNew'
    BY <1>5, <2>2, <2>8 DEF GrantsOfNew
  <2>13. GrantsAreKept'
    <3> SUFFICES ASSUME NEW n \in Namespaces \ raced, namespaces[n] # 0 PROVE acls'[namespaces[n]].grants = granted'[n]
      BY <1>2, <2>2 DEF GrantsAreKept
    <3>1. acls[namespaces[n]].grants = granted[n] /\ namespaces[n] \in DOMAIN acls
      BY <2>3 DEF GrantsAreKept, StoreTypes
    <3>2. CASE n = f.ns
      <4>1. namespaces[n] = f.list /\ acls'[namespaces[n]].grants = e.grants /\ acls[f.list].grants = granted[f.ns]
        BY <1>5, <2>7, <3>1, <3>2
      <4> QED BY <2>5, <2>8, <3>2, <4>1
    <3>3. CASE n # f.ns
      BY <1>5, <2>7, <2>8, <3>1, <3>3
    <3> QED BY <3>2, <3>3
  <2> QED BY <1>6, <1>7, <1>8, <2>9, <2>10, <2>11, <2>12, <2>13
<1>11. CASE /\ f.change.op = "update" /\ WithUpdate(f)
            /\ granted' = IF "grants" \in DOMAIN f.change.updates
                          THEN [granted EXCEPT ![f.ns] = f.change.updates.grants] ELSE granted
  <2>1. PICK u \in Updates : u = f.change.updates
    BY <1>4, <1>11 DEF Changes
  <2>2. PICK e : e = Overlaid(acls[f.list], u)
    OBVIOUS
  <2>3. acls' = Append(acls, e) /\ namespaces' = [namespaces EXCEPT ![f.ns] = Len(acls')]
    BY <1>11, <2>1, <2>2 DEF WithUpdate
  <2>4. /\ Len(acls) \in Nat /\ Len(acls') = Len(acls) + 1 /\ DOMAIN acls = 1..Len(acls) /\ DOMAIN acls' = 1..(Len(acls) + 1)
        /\ acls'[Len(acls) + 1] = e /\ \A i \in DOMAIN acls : acls'[i] = acls[i]
        /\ acls' \in Seq(Acls')
    BY <2>3, ListAdded
  <2>5. /\ {"owner", "grants"} \subseteq DOMAIN acls[f.list] /\ acls[f.list].owner \in Addresses
        /\ acls[f.list].grants \in [Addresses -> Grants \cup {None}]
    BY <1>5 DEF StoreTypes
  <2>6. /\ {"owner", "grants"} \subseteq DOMAIN e
        /\ e.owner = (IF "owner" \in DOMAIN u THEN u.owner ELSE acls[f.list].owner)
        /\ e.grants = (IF "grants" \in DOMAIN u THEN u.grants ELSE acls[f.list].grants)
    BY <2>2, <2>5 DEF Overlaid
  <2>7. e.owner \in Addresses /\ e.grants \in [Addresses -> Grants \cup {None}]
    BY <2>5, <2>6, TypesAssumption
  <2>8. /\ namespaces' \in [Namespaces -> 0..Len(acls')] /\ namespaces'[f.ns] = Len(acls) + 1
        /\ \A m \in Namespaces \ {f.ns} : namespaces'[m] = namespaces[m] /\ namespaces[m] \in 0..Len(acls)
    BY <1>4, <2>3, <2>4 DEF StoreTypes
  <2>9. /\ granted' \in [Namespaces -> [Addresses -> Grants \cup {None}]]
        /\ granted'[f.ns] = (IF "grants" \in DOMAIN u THEN u.grants ELSE granted[f.ns])
        /\ \A n \in Namespaces \ {f.ns} : granted'[n] = granted[n]
    <3>1. "grants" \in DOMAIN u => u.grants \in [Addresses -> Grants \cup {None}]
      BY TypesAssumption
    <3> QED BY <1>4, <1>11, <2>1, <3>1 DEF StoreTypes
  <2>10. StoreTypes'
    BY <1>2, <2>4, <2>6, <2>7, <2>8, <2>9 DEF StoreTypes
  <2>11. \A d \in Slots : Changing(d) => call[d].list \in 1..Len(acls) /\ call[d].ns \in Namespaces
    <3>1. \A d \in Slots : Changing(d) => call[d].ns \in Namespaces
      BY FrameKinds DEF CallTypes, Frames, Changing, ListChanges
    <3> QED BY <2>4, <3>1 DEF ListsApart
  <2>12. ListsApart'
    <3>1. \A l, m \in Namespaces : namespaces'[l] # 0 /\ namespaces'[l] = namespaces'[m] => l = m
      BY <2>4, <2>8 DEF ListsApart
    <3>2. ASSUME NEW d \in Slots, Changing(d)'
          PROVE  /\ call'[d].list \in DOMAIN acls' /\ namespaces'[call'[d].ns] # 0
                 /\ \A m \in Namespaces \ {call'[d].ns} : namespaces'[m] # call'[d].list
      <4>1. Changing(d) /\ call'[d] = call[d]
        BY <1>6, <3>2
      <4> QED BY <2>4, <2>8, <2>11, <4>1 DEF ListsApart
    <3> QED BY <3>1, <3>2 DEF ListsApart
  <2>13. ListsCurrent'
    <3> SUFFICES ASSUME NEW d \in Slots, Changing(d)', call'[d].ns \notin raced'
                 PROVE  /\ call'[d].list = namespaces'[call'[d].ns]
                        /\ \A x \in Slots \ {d} : Changing(x)' /\ call'[x].ns = call'[d].ns =>
                              call'[d].change.op = "grant" /\ call'[x].change.op = "grant"
      BY DEF ListsCurrent
    <3>1. d # c /\ Changing(d) /\ call'[d] = call[d] /\ call[d].ns \notin raced
      BY <1>2, <1>6
    <3>2. call[d].ns # f.ns
      BY <1>1, <1>2, <1>11, <3>1 DEF ListsCurrent, Changing
    <3> QED BY <1>6, <2>8, <2>11, <3>1, <3>2 DEF ListsCurrent
  <2>14. GrantsOfNew'
    BY <2>4, <2>8, <2>9 DEF GrantsOfNew
  <2>15. GrantsAreKept'
    <3> SUFFICES ASSUME NEW n \in Namespaces \ raced, namespaces'[n] # 0 PROVE acls'[namespaces'[n]].grants = granted'[n]
      BY <1>2 DEF GrantsAreKept
    <3>1. CASE n = f.ns
      <4>1. acls[f.list].grants = granted[f.ns]
        BY <1>5, <3>1 DEF GrantsAreKept
      <4> QED BY <2>4, <2>6, <2>8, <2>9, <3>1, <4>1
    <3>2. CASE n # f.ns
      BY <2>4, <2>8, <2>9, <3>2 DEF GrantsAreKept
    <3> QED BY <3>1, <3>2
  <2> QED BY <1>6, <1>7, <1>8, <2>10, <2>12, <2>13, <2>14, <2>15
<1> QED BY <1>1, <1>9, <1>10, <1>11 DEF ListChanged

-----------------------------------------------------------------------------
LEMMA VarsStarts == VarsInit => VarsIInv
<1> SUFFICES ASSUME VarsInit PROVE VarsIInv
  OBVIOUS
<1> USE DEF VarsInit
<1>1. CallTypes
  BY DEF CallTypes
<1>2. StoreTypes
  BY VarsConstants DEF StoreTypes
<1>3. VersionTypes
  <2>1. \A v \in Variables : variables[v] = None /\ acked[v] = <<>>
    OBVIOUS
  <2>2. <<>> = [i \in 1..0 |-> i - 1]
    OBVIOUS
  <2>3. \A v \in Variables : acked[v] = [i \in 1..(IF variables[v] = None THEN 0 ELSE variables[v].version + 1) |-> i - 1]
    BY <2>1, <2>2
  <2> QED BY <2>3 DEF VersionTypes
<1>4. ListsApart /\ ListsCurrent /\ GrantsOfNew /\ GrantsAreKept
  BY DEF ListsApart, ListsCurrent, GrantsOfNew, GrantsAreKept, Changing
<1>5. AloneIsAlone /\ NothingWritten /\ BatchFits
  BY DEF AloneIsAlone, NothingWritten, BatchFits
<1> QED BY <1>1, <1>2, <1>3, <1>4, <1>5 DEF VarsIInv

LEMMA VarsStep == VarsIInv /\ [VarsNext]_varstore => VarsIInv'
<1> SUFFICES ASSUME VarsIInv, [VarsNext]_varstore PROVE VarsIInv'
  OBVIOUS
<1>1. CASE UNCHANGED varstore
  <2>1. UNCHANGED <<namespaces, acls, variables, now, call, started, acked, granted, raced>>
    BY <1>1 DEF varstore
  <2>2. CallTypes' /\ AloneIsAlone' /\ NothingWritten'
    BY <2>1 DEF VarsIInv, CallTypes, AloneIsAlone, NothingWritten
  <2>3. BatchFits'
    <3>1. May' = May
      BY <2>1, MayKept
    <3> QED BY <2>1, <3>1 DEF VarsIInv, BatchFits, FrameFits, Can, Fits, VersionMatches
  <2> QED BY <2>1, <2>2, <2>3, OnlyCallsMove DEF Changing
<1>2. ASSUME NEW n \in Creations, createNamespace(n.ns, n.owner, n.defaults) PROVE VarsIInv'
  BY <1>2, CreateStep
<1>3. ASSUME NEW c \in Slots, NEW a \in Addresses, NEW ops \in Operations, NEW atomic \in BOOLEAN, Write(c, a, ops, atomic)
      PROVE  VarsIInv'
  BY <1>3, WriteStep
<1>4. ASSUME NEW c \in Slots, NEW a \in Addresses, NEW ops \in Operations, Delete(c, a, ops[1]) PROVE VarsIInv'
  BY <1>4, DeleteStep, VarsConstants
<1>5. ASSUME NEW c \in Slots, NEW a \in Addresses, NEW ns \in Namespaces, NEW change \in Changes, ChangeList(c, a, ns, change)
      PROVE  VarsIInv'
  BY <1>5, ChangeListStep
<1>6. ASSUME NEW c \in Slots, Resume(c) PROVE VarsIInv'
  BY <1>6, SetStep, NextOperationStep, ValidateStep, ReturnStep, DeleteVarStep, ListStep DEF Resume
<1>7. CASE TimePasses
  BY <1>7, TimeStep
<1> QED BY <1>1, <1>2, <1>3, <1>4, <1>5, <1>6, <1>7 DEF VarsNext

LEMMA VarsImplies == VarsIInv => ReportedIsStored /\ AtomicBatchesAreWhole
<1> SUFFICES ASSUME VarsIInv PROVE ReportedIsStored /\ AtomicBatchesAreWhole
  OBVIOUS
<1> USE DEF VarsIInv
<1>1. VarsTypeOK
  <2>1. \A c \in Slots : call[c] # Idle => call[c].may \in Verdicts
    BY FrameKinds DEF CallTypes, Frames
  <2>2. \A v \in Variables : variables[v] = None \/ variables[v] \in [version : Nat, updatedBy : Addresses]
    BY DEF VersionTypes
  <2> QED BY <2>1, <2>2 DEF VarsTypeOK, StoreTypes
<1>2. ReportedIsStored
  BY <1>1 DEF ReportedIsStored, VersionsAreCounted, VersionTypes
<1>3. ASSUME NEW c \in Slots, call[c] # Idle, call[c].at = "results", call[c].atomic, call[c].alone,
             IsInjective([i \in DOMAIN call[c].ops |-> call[c].ops[i].var])
      PROVE  FALSE \notin ToSet(call[c].results)
  <2>1. Distinct(call[c])
    BY <1>3 DEF IsInjective, Distinct
  <2>2. \A j \in DOMAIN call[c].results : call[c].results[j]
    BY <1>3, <2>1 DEF BatchFits, FrameFits, Batching
  <2> QED BY <2>2 DEF ToSet
<1>4. ASSUME NEW c \in Slots, call[c] # Idle, call[c].at = "thrown", call[c].atomic, call[c].alone
      PROVE  call[c].results = <<>>
  BY <1>4 DEF BatchFits, FrameFits, Batching
<1>5. AtomicBatchesAreWhole
  BY <1>3, <1>4 DEF AtomicBatchesAreWhole, NothingWritten
<1> QED BY <1>2, <1>5

(* Whatever calls overlap at their awaits (InMemoryVarStore): versions are those the      *)
(* writers were told, without a gap, and the grants are the reported ones unless an       *)
(* update raced.                                                                          *)
THEOREM ReportsAreKept == VarsSpec => []ReportedIsStored
<1>1. VarsSpec => []VarsIInv
  BY VarsStarts, VarsStep, PTL DEF VarsSpec
<1> QED BY <1>1, VarsImplies, PTL

(* An atomic batch that its validation refuses has written nothing, nor has one that       *)
(* throws while nothing else happened to the store; and one that was alone, of different   *)
(* variables, has written everything (InMemoryVarStore.batch).                             *)
THEOREM BatchesAreWhole == VarsSpec => []AtomicBatchesAreWhole
<1>1. VarsSpec => []VarsIInv
  BY VarsStarts, VarsStep, PTL DEF VarsSpec
<1> QED BY <1>1, VarsImplies, PTL
===============================================================================
