--------------------------- MODULE ListenerProofs ----------------------------
(* Proof that what listens to the chain for queries tells what it tells         *)
(* (ListenersTellTheChain): the indexer of transactions and state changes, up to *)
(* its limits, and the event logs, through blocks, evictions and reorgs, for any *)
(* transactions, nodes, logs and bounds.                                       *)
EXTENDS EventLogs, ChainProofs

-------------------------------------------------------------------------------
(* Sequences: flattening, and what a longer one holds.                       *)

(* What FlattenSeq does.  Flat says what its recursive function is.             *)
Flat(X, q, g) ==
    /\ g \in [1..Len(q) -> Seq(X)]
    /\ \A i \in 1..Len(q) : g[i] = IF i = 1 THEN q[i] ELSE g[i - 1] \o q[i]

LEMMA FlatAppend ==
    ASSUME NEW X, NEW q \in Seq(Seq(X)), NEW g, Flat(X, q, g), NEW x \in Seq(X)
    PROVE  \E h : Flat(X, Append(q, x), h) /\ (\A i \in 1..Len(q) : h[i] = g[i])
                  /\ h[Len(q) + 1] = IF q = <<>> THEN x ELSE g[Len(q)] \o x
<1>1. PICK l \in Nat : l = Len(q)
  BY LenProperties
<1>2. PICK p : p = Append(q, x)
  OBVIOUS
<1>3. p \in Seq(Seq(X)) /\ Len(p) = l + 1 /\ p[l + 1] = x /\ \A i \in 1..l : p[i] = q[i]
  <2>1. PICK T : T = Seq(X)
    OBVIOUS
  <2>2. q \in Seq(T) /\ x \in T
    BY <2>1
  <2> QED BY <1>1, <1>2, <2>1, <2>2, AppendProperties
<1>4. q = <<>> <=> l = 0
  BY <1>1, EmptySeq, LenProperties
<1>5. g \in [1..l -> Seq(X)] /\ \A i \in 1..l : g[i] = IF i = 1 THEN q[i] ELSE g[i - 1] \o q[i]
  BY <1>1 DEF Flat
<1>6. PICK y : y = IF l = 0 THEN x ELSE g[l] \o x
  OBVIOUS
<1>7. y \in Seq(X)
  <2>1. ASSUME l # 0 PROVE g[l] \o x \in Seq(X)
    <3>1. g[l] \in Seq(X)
      BY <1>5, <2>1
    <3> QED BY <3>1, ConcatProperties
  <2> QED BY <1>6, <2>1
<1>8. PICK h : h = [i \in 1..l + 1 |-> IF i = l + 1 THEN y ELSE g[i]]
  OBVIOUS
<1>9. (\A i \in 1..l : h[i] = g[i] /\ i # l + 1 /\ i \in 1..l + 1) /\ h[l + 1] = y
  BY <1>1, <1>8
<1>10. h \in [1..l + 1 -> Seq(X)]
  <2>1. \A i \in 1..l + 1 : i # l + 1 => i \in 1..l
    BY <1>1
  <2>2. \A i \in 1..l + 1 : (IF i = l + 1 THEN y ELSE g[i]) \in Seq(X)
    BY <1>5, <1>7, <2>1
  <2> QED BY <1>8, <2>2
<1>11. ASSUME NEW i \in 1..l + 1 PROVE h[i] = IF i = 1 THEN p[i] ELSE h[i - 1] \o p[i]
  <2>1. CASE i = l + 1
    <3>1. l # 0 => i - 1 \in 1..l /\ i - 1 = l /\ i # 1
      BY <2>1
    <3>2. l = 0 => i = 1
      BY <2>1
    <3> QED BY <1>3, <1>6, <1>9, <2>1, <3>1, <3>2
  <2>2. CASE i # l + 1
    <3>1. i \in 1..l /\ (i # 1 => i - 1 \in 1..l)
      BY <1>1, <2>2
    <3> QED BY <1>3, <1>5, <1>9, <3>1
  <2> QED BY <2>1, <2>2
<1>12. Flat(X, p, h)
  BY <1>3, <1>10, <1>11 DEF Flat
<1> QED BY <1>1, <1>2, <1>4, <1>6, <1>9, <1>12

LEMMA FlatExists ==
    ASSUME NEW X, NEW q \in Seq(Seq(X))
    PROVE  \E g : Flat(X, q, g)
<1> DEFINE G == {p \in Seq(Seq(X)) : \E g : Flat(X, p, g)}
           T == Seq(X)
<1>1. <<>> \in G
  <2>1. 1..0 = {} /\ Len(<<>>) = 0
    BY EmptySeq
  <2>2. Flat(X, <<>>, [i \in 1..0 |-> <<>>])
    BY <2>1 DEF Flat
  <2> QED BY <2>2, EmptySeq
<1>2. ASSUME NEW p \in Seq(T), p \in G, NEW x \in T PROVE Append(p, x) \in G
  <2>1. \E h : Flat(X, Append(p, x), h)
    BY <1>2, FlatAppend
  <2>2. Append(p, x) \in Seq(T)
    <3> HIDE DEF T
    <3> QED BY AppendProperties
  <2> QED BY <2>1, <2>2
<1>3. \A p \in Seq(T) : p \in G
  <2> HIDE DEF G, T
  <2> QED BY <1>1, <1>2, SeqsByAppending
<1> QED BY <1>3

LEMMA FlatUnique ==
    ASSUME NEW X, NEW q \in Seq(Seq(X)), NEW g, NEW h, Flat(X, q, g), Flat(X, q, h)
    PROVE  g = h
<1>1. PICK l \in Nat : l = Len(q)
  BY LenProperties
<1>2. PICK S : S = {0} \cup {i \in 1..l : g[i] = h[i]}
  OBVIOUS
<1>3. ASSUME NEW i \in 1..l, i - 1 \in S PROVE i \in S
  <2>1. CASE i = 1
    BY <1>1, <1>2, <2>1 DEF Flat
  <2>2. CASE i # 1
    <3>1. i - 1 # 0
      BY <2>2
    <3>2. g[i - 1] = h[i - 1]
      BY <1>2, <1>3, <3>1
    <3> QED BY <1>1, <1>2, <2>2, <3>2 DEF Flat
  <2> QED BY <2>1, <2>2
<1>4. \A i \in 0..l : i \in S
  BY <1>2, <1>3, StepByStep
<1>5. \A i \in 1..l : g[i] = h[i]
  BY <1>2, <1>4
<1> QED BY <1>1, <1>5 DEF Flat

LEMMA FlattenIs ==
    ASSUME NEW X, NEW q \in Seq(Seq(X)), NEW g, Flat(X, q, g)
    PROVE  FlattenSeq(q) = IF q = <<>> THEN <<>> ELSE g[Len(q)]
<1>1. Len(q) \in Nat /\ (q = <<>> <=> Len(q) = 0)
  BY EmptySeq, LenProperties
<1> DEFINE Unfolds(f) == f = [i \in 1..Len(q) |-> IF i = 1 THEN q[i] ELSE f[i - 1] \o q[i]]
<1>2. ASSUME NEW f, Unfolds(f) PROVE Flat(X, q, f)
  <2>1. DOMAIN f = 1..Len(q) /\ \A i \in 1..Len(q) : f[i] = IF i = 1 THEN q[i] ELSE f[i - 1] \o q[i]
    BY <1>2
  <2>2. PICK S : S = {0} \cup {i \in 1..Len(q) : f[i] \in Seq(X)}
    OBVIOUS
  <2>3. \A i \in 1..Len(q) : q[i] \in Seq(X)
    <3>1. PICK T : T = Seq(X)
      OBVIOUS
    <3>2. q \in Seq(T)
      BY <3>1
    <3> QED BY <3>1, <3>2, ElementOfSeq
  <2>4. ASSUME NEW i \in 1..Len(q), i - 1 \in S PROVE i \in S
    <3>1. CASE i = 1
      BY <2>1, <2>2, <2>3, <3>1
    <3>2. CASE i # 1
      <4>1. f[i - 1] \in Seq(X)
        BY <2>2, <2>4, <3>2
      <4>2. f[i - 1] \o q[i] \in Seq(X)
        BY <2>3, <4>1, ConcatProperties
      <4> QED BY <2>1, <2>2, <3>2, <4>2
    <3> QED BY <3>1, <3>2
  <2>5. \A i \in 0..Len(q) : i \in S
    BY <1>1, <2>2, <2>4, StepByStep
  <2>6. \A i \in 1..Len(q) : f[i] \in Seq(X)
    BY <2>2, <2>5
  <2>7. f \in [1..Len(q) -> Seq(X)]
    <3>1. f = [i \in 1..Len(q) |-> f[i]]
      BY <1>2, <2>1
    <3> QED BY <2>6, <3>1
  <2> QED BY <2>1, <2>7 DEF Flat
<1>3. Unfolds(g)
  BY DEF Flat
<1>4. \A f : Unfolds(f) => f = g
  BY <1>2, FlatUnique
<1>5. (CHOOSE f : Unfolds(f)) = g
  <2> HIDE DEF Unfolds
  <2> QED BY <1>3, <1>4
<1>6. CASE q = <<>>
  BY <1>1, <1>6 DEF FlattenSeq
<1>7. CASE q # <<>>
  <2>1. FlattenSeq(q) = (CHOOSE f : Unfolds(f))[Len(q)]
    BY <1>1, <1>7 DEF FlattenSeq
  <2> QED BY <1>5, <1>7, <2>1
<1> QED BY <1>6, <1>7

\* One more.
LEMMA FlattenAppend ==
    ASSUME NEW X, NEW q \in Seq(Seq(X)), NEW x \in Seq(X)
    PROVE  /\ FlattenSeq(q) \in Seq(X) /\ FlattenSeq(<<>>) = <<>>
           /\ FlattenSeq(Append(q, x)) = FlattenSeq(q) \o x
<1>1. PICK g : Flat(X, q, g)
  BY FlatExists
<1>2. PICK h : /\ Flat(X, Append(q, x), h) /\ (\A i \in 1..Len(q) : h[i] = g[i])
               /\ h[Len(q) + 1] = IF q = <<>> THEN x ELSE g[Len(q)] \o x
  BY <1>1, FlatAppend
<1>3. FlattenSeq(q) = IF q = <<>> THEN <<>> ELSE g[Len(q)]
  BY <1>1, FlattenIs
<1>4. Len(q) \in Nat /\ (q # <<>> => Len(q) \in 1..Len(q))
  BY EmptySeq, LenProperties
<1>5. FlattenSeq(q) \in Seq(X)
  <2>1. q # <<>> => g[Len(q)] \in Seq(X)
    BY <1>1, <1>4 DEF Flat
  <2> QED BY <1>3, <2>1, EmptySeq
<1>6. Append(q, x) \in Seq(Seq(X)) /\ Len(Append(q, x)) = Len(q) + 1 /\ Append(q, x) # <<>>
  <2>1. PICK T : T = Seq(X)
    OBVIOUS
  <2>2. q \in Seq(T) /\ x \in T
    BY <2>1
  <2>3. Append(q, x) \in Seq(T) /\ Len(Append(q, x)) = Len(q) + 1
    BY <2>2, AppendProperties
  <2>4. Len(q) + 1 # 0
    BY <1>4
  <2> QED BY <2>1, <2>3, <2>4, EmptySeq
<1>7. FlattenSeq(Append(q, x)) = h[Len(q) + 1]
  BY <1>2, <1>6, FlattenIs
<1>8. <<>> \o x = x
  BY ConcatEmptySeq
<1>9. FlattenSeq(<<>>) = <<>>
  BY EmptySeq DEF FlattenSeq
<1> QED BY <1>2, <1>3, <1>5, <1>7, <1>8, <1>9

\* A sequence up to one of its elements.
LEMMA PrefixGrows ==
    ASSUME NEW X, NEW s \in Seq(X)
    PROVE  /\ SubSeq(s, 1, 0) = <<>> /\ SubSeq(s, 1, Len(s)) = s
           /\ \A i \in 0..Len(s) : SubSeq(s, 1, i) \in Seq(X) /\ Len(SubSeq(s, 1, i)) = i
           /\ \A i \in 1..Len(s) : SubSeq(s, 1, i) = Append(SubSeq(s, 1, i - 1), s[i]) /\ s[i] \in X
<1>1. PICK l \in Nat : l = Len(s)
  BY LenProperties
<1>2. SubSeq(s, 1, 0) = <<>> /\ SubSeq(s, 1, Len(s)) = s
  BY SubSeqEmpty, SubSeqFull
<1>3. \A i \in 1..l : s[i] \in X
  BY <1>1, ElementOfSeq
<1>4. ASSUME NEW i \in 0..l PROVE SubSeq(s, 1, i) \in Seq(X) /\ Len(SubSeq(s, 1, i)) = i
  <2>1. \A j \in 1..i : s[j] \in X
    BY <1>3
  <2>2. SubSeq(s, 1, i) \in Seq(X) /\ Len(SubSeq(s, 1, i)) = IF 1 <= i THEN i - 1 + 1 ELSE 0
    BY <2>1, SubSeqProperties
  <2> QED BY <2>2
<1>5. ASSUME NEW i \in 1..l PROVE SubSeq(s, 1, i) = Append(SubSeq(s, 1, i - 1), s[i])
  <2>1. 1 \in 1..Len(s) /\ i \in 1..Len(s) /\ i - 1 \in 0..l
    BY <1>1
  <2>2. SubSeq(s, 1, i) = SubSeq(s, 1, i - 1) \o <<s[i]>>
    BY <2>1, SubSeqRecursiveSecond
  <2>3. SubSeq(s, 1, i - 1) \in Seq(X)
    BY <1>4, <2>1
  <2>4. SubSeq(s, 1, i - 1) \o <<s[i]>> = Append(SubSeq(s, 1, i - 1), s[i])
    BY <1>3, <2>3, AppendIsConcat
  <2> QED BY <2>2, <2>4
<1> QED BY <1>1, <1>2, <1>3, <1>4, <1>5

-------------------------------------------------------------------------------
(* What the logs of a chain are.                                             *)

\* A sequence without its last element.
LEMMA LastApart ==
    ASSUME NEW Y, NEW l \in Nat, NEW f \in [1..l + 1 -> Y], NEW g, g = [i \in 1..l |-> f[i]]
    PROVE  f = Append(g, f[l + 1]) /\ g \in Seq(Y) /\ f \in Seq(Y) /\ Len(g) = l /\ f[l + 1] \in Y
<1>1. \A i \in 1..l : i \in 1..l + 1
  OBVIOUS
<1>2. g \in [1..l -> Y] /\ l + 1 \in 1..l + 1 /\ l + 1 \in Nat
  BY <1>1
<1>3. g \in Seq(Y) /\ f \in Seq(Y) /\ f[l + 1] \in Y
  BY <1>2, SeqDef
<1>4. Len(g) = l /\ Len(f) = l + 1
  BY <1>2, <1>3, LenProperties
<1>5. PICK x : x = f[l + 1]
  OBVIOUS
<1>6. Append(g, x) \in Seq(Y) /\ Len(Append(g, x)) = l + 1 /\ Append(g, x)[l + 1] = x /\ \A i \in 1..l : Append(g, x)[i] = g[i]
  BY <1>3, <1>4, <1>5, AppendProperties
<1>7. \A i \in 1..l + 1 : f[i] = Append(g, x)[i]
  <2>1. \A i \in 1..l + 1 : i \in 1..l \/ i = l + 1
    OBVIOUS
  <2> QED BY <1>5, <1>6, <2>1
<1>8. f = Append(g, x)
  BY <1>3, <1>4, <1>6, <1>7, SeqEqual
<1> QED BY <1>3, <1>4, <1>5, <1>8

\* A sequence of sequences, flattened, ends with the last of them.
LEMMA FlattenLast ==
    ASSUME NEW Y, NEW l \in Nat, NEW f \in [1..l + 1 -> Seq(Y)], NEW g, g = [i \in 1..l |-> f[i]]
    PROVE  FlattenSeq(f) = FlattenSeq(g) \o f[l + 1] /\ FlattenSeq(g) \in Seq(Y) /\ FlattenSeq(f) \in Seq(Y)
<1>1. PICK T : T = Seq(Y)
  OBVIOUS
<1>2. f = Append(g, f[l + 1]) /\ g \in Seq(T) /\ f[l + 1] \in T
  BY <1>1, LastApart
<1>3. FlattenSeq(g) \in Seq(Y) /\ FlattenSeq(f) = FlattenSeq(g) \o f[l + 1]
  BY <1>1, <1>2, FlattenAppend
<1>4. FlattenSeq(f) \in Seq(Y)
  BY <1>1, <1>2, <1>3, ConcatProperties
<1> QED BY <1>3, <1>4

LEMMA FlattenNone == FlattenSeq(<<>>) = <<>>
<1>1. <<>> \in Seq(Seq({})) /\ <<>> \in Seq({})
  BY EmptySeq
<1> QED BY <1>1, FlattenAppend

-----------------------------------------------------------------------------
(* The logs.                                                                  *)

LogRecs == [tx : Txs, index : Nat, labels : SUBSET Labels, height : Nat]

\* The logs of one transaction.
LEMMA KeptTypes ==
    ASSUME NEW t \in Txs, NEW h \in Nat
    PROVE  /\ Events(t, h) \in Seq(LogRecs) /\ Kept(t, h) \in Seq(LogRecs)
           /\ Len(Events(t, h)) = Len(Emits[t])
           /\ \A k \in DOMAIN Events(t, h) : Events(t, h)[k].tx = t /\ Events(t, h)[k].height = h
           /\ \A k \in DOMAIN Kept(t, h) : Kept(t, h)[k].tx = t /\ Kept(t, h)[k].height = h
<1>1. Emits[t] \in Seq(SUBSET Labels)
  BY EventLogsAssumption
<1>2. PICK n \in Nat : n = Len(Emits[t]) /\ DOMAIN Emits[t] = 1..n /\ Emits[t] \in [1..n -> SUBSET Labels]
  BY <1>1, LenProperties
<1>3. PICK e : e = Events(t, h)
  OBVIOUS
<1>4. e = [k \in 1..n |-> [tx |-> t, index |-> k, labels |-> Emits[t][k], height |-> h]]
  BY <1>2, <1>3 DEF Events
<1>5. \A k \in 1..n : e[k] \in LogRecs /\ e[k].tx = t /\ e[k].height = h
  BY <1>2, <1>4 DEF LogRecs
<1>6. e \in [1..n -> LogRecs]
  BY <1>4, <1>5
<1>7. e \in Seq(LogRecs) /\ Len(e) = n /\ DOMAIN e = 1..n
  BY <1>6, SeqDef, LenProperties
<1>8. Kept(t, h) = IF n > MaxEventsPerTx THEN <<>> ELSE e
  BY <1>2, <1>3 DEF Kept
<1>9. DOMAIN <<>> = {}
  OBVIOUS
<1> QED BY <1>2, <1>3, <1>5, <1>7, <1>8, <1>9, EmptySeq

\* The logs of a block: of no transaction, and of one more.
LEMMA NoLogsIn ==
    ASSUME NEW h
    PROVE  LogsIn(<<>>, h) = <<>>
<1>1. PICK q : q = [k \in DOMAIN <<>> |-> Kept(<<>>[k], h)]
  OBVIOUS
<1>2. q = <<>>
  BY <1>1
<1> QED BY <1>1, <1>2, FlattenNone DEF LogsIn

LEMMA LogsInAppend ==
    ASSUME NEW b \in Seq(Txs), NEW t \in Txs, NEW h \in Nat
    PROVE  /\ LogsIn(b, h) \in Seq(LogRecs)
           /\ LogsIn(Append(b, t), h) = LogsIn(b, h) \o Kept(t, h)
<1>1. PICK l \in Nat : l = Len(b) /\ DOMAIN b = 1..l
  BY LenProperties
<1>2. PICK c : c = Append(b, t)
  OBVIOUS
<1>3. c \in Seq(Txs) /\ DOMAIN c = 1..l + 1 /\ c[l + 1] = t /\ \A i \in 1..l : c[i] = b[i]
  BY <1>1, <1>2, AppendProperties, LenProperties
<1>4. PICK f, g : f = [k \in 1..l + 1 |-> Kept(c[k], h)] /\ g = [k \in 1..l |-> Kept(b[k], h)]
  OBVIOUS
<1>5. \A k \in 1..l + 1 : c[k] \in Txs /\ Kept(c[k], h) \in Seq(LogRecs)
  <2>1. \A k \in 1..l + 1 : c[k] \in Txs
    BY <1>3, LenProperties
  <2> QED BY <2>1, KeptTypes
<1>6. f \in [1..l + 1 -> Seq(LogRecs)] /\ g = [k \in 1..l |-> f[k]] /\ f[l + 1] = Kept(t, h)
  <2>1. \A k \in 1..l : k \in 1..l + 1
    OBVIOUS
  <2>2. l + 1 \in 1..l + 1
    OBVIOUS
  <2> QED BY <1>3, <1>4, <1>5, <2>1, <2>2
<1>7. FlattenSeq(f) = FlattenSeq(g) \o Kept(t, h) /\ FlattenSeq(g) \in Seq(LogRecs)
  BY <1>6, FlattenLast
<1>8. LogsIn(c, h) = FlattenSeq(f) /\ LogsIn(b, h) = FlattenSeq(g)
  BY <1>1, <1>3, <1>4 DEF LogsIn
<1> QED BY <1>2, <1>7, <1>8

LEMMA LogsInTypes ==
    ASSUME NEW b \in Seq(Txs), NEW h \in Nat
    PROVE  /\ LogsIn(b, h) \in Seq(LogRecs)
           /\ \A k \in DOMAIN LogsIn(b, h) : LogsIn(b, h)[k].height = h
<1> DEFINE G == {q \in Seq(Txs) : /\ LogsIn(q, h) \in Seq(LogRecs)
                                  /\ \A k \in DOMAIN LogsIn(q, h) : LogsIn(q, h)[k].height = h}
<1>1. <<>> \in G
  <2>1. LogsIn(<<>>, h) = <<>> /\ DOMAIN <<>> = {}
    BY NoLogsIn
  <2> QED BY <2>1, EmptySeq
<1>2. ASSUME NEW q \in Seq(Txs), q \in G, NEW t \in Txs PROVE Append(q, t) \in G
  <2>1. PICK u, v : u = LogsIn(q, h) /\ v = Kept(t, h)
    OBVIOUS
  <2>2. u \in Seq(LogRecs) /\ v \in Seq(LogRecs) /\ LogsIn(Append(q, t), h) = u \o v
    BY <2>1, KeptTypes, LogsInAppend
  <2>3. PICK m \in Nat, n \in Nat : m = Len(u) /\ n = Len(v) /\ DOMAIN u = 1..m /\ DOMAIN v = 1..n
    BY <2>2, LenProperties
  <2>4. u \o v \in Seq(LogRecs) /\ DOMAIN (u \o v) = 1..m + n
    BY <2>2, <2>3, ConcatProperties, LenProperties
  <2>5. \A k \in 1..m : u[k].height = h
    BY <1>2, <2>1, <2>3
  <2>6. \A k \in 1..n : v[k].height = h
    BY <2>1, <2>3, KeptTypes
  <2>7. ASSUME NEW k \in 1..m + n PROVE (u \o v)[k].height = h
    <3>1. (u \o v)[k] = IF k <= m THEN u[k] ELSE v[k - m]
      BY <2>2, <2>3, ConcatProperties
    <3>2. k <= m => k \in 1..m
      OBVIOUS
    <3>3. ~(k <= m) => k - m \in 1..n
      OBVIOUS
    <3> QED BY <2>5, <2>6, <3>1, <3>2, <3>3
  <2>8. Append(q, t) \in Seq(Txs)
    BY AppendProperties
  <2> QED BY <2>2, <2>4, <2>7, <2>8
<1>3. \A q \in Seq(Txs) : q \in G
  <2> HIDE DEF G
  <2> QED BY <1>1, <1>2, SeqsByAppending
<1> QED BY <1>3

\* The logs of a chain.
LEMMA NoLogsOn == LogsOn(<<>>) = <<>>
<1>1. PICK q : q = [k \in DOMAIN <<>> |-> LogsIn(<<>>[k], k)]
  OBVIOUS
<1>2. q = <<>>
  BY <1>1
<1> QED BY <1>1, <1>2, FlattenNone DEF LogsOn

LEMMA LogsOnAppend ==
    ASSUME NEW c \in Seq(Seq(Txs)), NEW b \in Seq(Txs)
    PROVE  /\ LogsOn(c) \in Seq(LogRecs)
           /\ LogsOn(Append(c, b)) = LogsOn(c) \o LogsIn(b, Len(c) + 1)
<1>1. PICK T : T = Seq(Txs)
  OBVIOUS
<1>2. PICK l \in Nat : l = Len(c) /\ DOMAIN c = 1..l
  BY <1>1, LenProperties
<1>3. PICK d : d = Append(c, b)
  OBVIOUS
<1>4. d \in Seq(T) /\ DOMAIN d = 1..l + 1 /\ d[l + 1] = b /\ \A i \in 1..l : d[i] = c[i]
  BY <1>1, <1>2, <1>3, AppendProperties, LenProperties
<1>5. PICK f, g : f = [k \in 1..l + 1 |-> LogsIn(d[k], k)] /\ g = [k \in 1..l |-> LogsIn(c[k], k)]
  OBVIOUS
<1>6. \A k \in 1..l + 1 : LogsIn(d[k], k) \in Seq(LogRecs)
  <2>1. \A k \in 1..l + 1 : d[k] \in T /\ k \in Nat
    BY <1>4, LenProperties
  <2> QED BY <1>1, <2>1, LogsInTypes
<1>7. f \in [1..l + 1 -> Seq(LogRecs)] /\ g = [k \in 1..l |-> f[k]] /\ f[l + 1] = LogsIn(b, l + 1)
  <2>1. \A k \in 1..l : k \in 1..l + 1
    OBVIOUS
  <2>2. l + 1 \in 1..l + 1
    OBVIOUS
  <2> QED BY <1>4, <1>5, <1>6, <2>1, <2>2
<1>8. FlattenSeq(f) = FlattenSeq(g) \o LogsIn(b, l + 1) /\ FlattenSeq(g) \in Seq(LogRecs)
  BY <1>7, FlattenLast
<1>9. LogsOn(d) = FlattenSeq(f) /\ LogsOn(c) = FlattenSeq(g)
  BY <1>2, <1>4, <1>5 DEF LogsOn
<1> QED BY <1>2, <1>3, <1>8, <1>9

LEMMA LogsOnTypes ==
    ASSUME NEW c \in Seq(Seq(Txs))
    PROVE  /\ LogsOn(c) \in Seq(LogRecs)
           /\ \A k \in DOMAIN LogsOn(c) : LogsOn(c)[k].height \in 1..Len(c)
<1>1. PICK T : T = Seq(Txs)
  OBVIOUS
<1> DEFINE G == {q \in Seq(T) : /\ LogsOn(q) \in Seq(LogRecs)
                                /\ \A k \in DOMAIN LogsOn(q) : LogsOn(q)[k].height \in 1..Len(q)}
<1>2. <<>> \in G
  <2>2. LogsOn(<<>>) = <<>> /\ DOMAIN <<>> = {}
    BY NoLogsOn
  <2> QED BY <2>2, EmptySeq
<1>3. ASSUME NEW q \in Seq(T), q \in G, NEW b \in T PROVE Append(q, b) \in G
  <2>1. PICK l \in Nat : l = Len(q)
    BY LenProperties
  <2>2. PICK u, v : u = LogsOn(q) /\ v = LogsIn(b, l + 1)
    OBVIOUS
  <2>3. u \in Seq(LogRecs) /\ v \in Seq(LogRecs) /\ LogsOn(Append(q, b)) = u \o v /\ \A k \in DOMAIN v : v[k].height = l + 1
    <3>1. q \in Seq(Seq(Txs)) /\ b \in Seq(Txs) /\ l + 1 \in Nat
      BY <1>1
    <3>2. LogsOn(q) \in Seq(LogRecs) /\ LogsOn(Append(q, b)) = LogsOn(q) \o LogsIn(b, Len(q) + 1)
      BY <3>1, LogsOnAppend
    <3>3. LogsIn(b, l + 1) \in Seq(LogRecs) /\ \A k \in DOMAIN LogsIn(b, l + 1) : LogsIn(b, l + 1)[k].height = l + 1
      BY <3>1, LogsInTypes
    <3> QED BY <2>1, <2>2, <3>2, <3>3
  <2>4. PICK m \in Nat, n \in Nat : m = Len(u) /\ n = Len(v) /\ DOMAIN u = 1..m /\ DOMAIN v = 1..n
    BY <2>3, LenProperties
  <2>5. u \o v \in Seq(LogRecs) /\ DOMAIN (u \o v) = 1..m + n
    BY <2>3, <2>4, ConcatProperties, LenProperties
  <2>6. \A k \in 1..m : u[k].height \in 1..l
    BY <1>3, <2>1, <2>2, <2>4
  <2>7. ASSUME NEW k \in 1..m + n PROVE (u \o v)[k].height \in 1..l + 1
    <3>1. (u \o v)[k] = IF k <= m THEN u[k] ELSE v[k - m]
      BY <2>3, <2>4, ConcatProperties
    <3>2. k <= m => k \in 1..m
      OBVIOUS
    <3>3. ~(k <= m) => k - m \in 1..n
      OBVIOUS
    <3>4. l + 1 \in 1..l + 1 /\ \A j \in 1..l : j \in 1..l + 1
      OBVIOUS
    <3>5. k <= m => (u \o v)[k].height \in 1..l
      BY <2>6, <3>1, <3>2
    <3>6. ~(k <= m) => (u \o v)[k].height = l + 1
      BY <2>3, <2>4, <3>1, <3>3
    <3> QED BY <3>4, <3>5, <3>6
  <2>8. Append(q, b) \in Seq(T) /\ Len(Append(q, b)) = l + 1
    BY <2>1, AppendProperties
  <2> QED BY <2>3, <2>5, <2>7, <2>8
<1>4. \A q \in Seq(T) : q \in G
  <2> HIDE DEF G
  <2> QED BY <1>2, <1>3, SeqsByAppending
<1> QED BY <1>1, <1>4

-------------------------------------------------------------------------------
(* The store of logs.                                                        *)

TxLogs(t) == {e \in LogRecs : e.tx = t}
LabelLogs(x) == {e \in LogRecs : x \in e.labels}
HeightLogs(h) == {e \in LogRecs : e.height = h}
OtherLogs(h) == {e \in LogRecs : e.height # h}

\* The lists the model makes are those of these sets.
LEMMA ListsOfLogs ==
    ASSUME NEW q \in Seq(LogRecs), NEW t, NEW x, NEW h
    PROVE  /\ OfTx(q, t) = Filtered(q, TxLogs(t)) /\ Labelled(q, x) = Filtered(q, LabelLogs(x))
           /\ AtHeight(q, h) = Filtered(q, HeightLogs(h)) /\ Except(q, h) = Filtered(q, OtherLogs(h))
<1>1. \A i \in DOMAIN q : q[i] \in LogRecs /\ q[i] \in ToSet(q)
  BY ElementOfSeq, LenProperties DEF ToSet
<1>2. OfTx(q, t) = Filtered(q, TxLogs(t))
  <2>1. \A i \in DOMAIN q : q[i] \in {e \in ToSet(q) : e.tx = t} <=> q[i] \in TxLogs(t)
    BY <1>1 DEF TxLogs
  <2> QED BY <2>1, FilteredSame DEF OfTx
<1>3. Labelled(q, x) = Filtered(q, LabelLogs(x))
  <2>1. \A i \in DOMAIN q : q[i] \in {e \in ToSet(q) : x \in e.labels} <=> q[i] \in LabelLogs(x)
    BY <1>1 DEF LabelLogs
  <2> QED BY <2>1, FilteredSame DEF Labelled
<1>4. AtHeight(q, h) = Filtered(q, HeightLogs(h))
  <2>1. \A i \in DOMAIN q : q[i] \in {e \in ToSet(q) : e.height = h} <=> q[i] \in HeightLogs(h)
    BY <1>1 DEF HeightLogs
  <2> QED BY <2>1, FilteredSame DEF AtHeight
<1>5. Except(q, h) = Filtered(q, OtherLogs(h))
  <2>1. \A i \in DOMAIN q : q[i] \in {e \in ToSet(q) : e.height # h} <=> q[i] \in OtherLogs(h)
    BY <1>1 DEF OtherLogs
  <2> QED BY <2>1, FilteredSame DEF Except
<1> QED BY <1>2, <1>3, <1>4, <1>5

\* What it is for the store l of logs to tell of the logs q.
LogStores == [byTx : [Txs -> Seq(LogRecs)], byLabel : [Labels -> Seq(LogRecs)],
              byBlock : UNION {[D -> Seq(LogRecs)] : D \in SUBSET Nat}, count : Nat]
LogTells(l, q) ==
    /\ l \in LogStores
    /\ \A t \in Txs : l.byTx[t] = Filtered(q, TxLogs(t))
    /\ \A x \in Labels : l.byLabel[x] = Filtered(q, LabelLogs(x))
    /\ \A h \in Nat : At(l.byBlock, h) = Filtered(q, HeightLogs(h))
    /\ \A h \in DOMAIN l.byBlock : l.byBlock[h] # <<>>
    /\ l.count = Len(q)

LEMMA NothingLogged == LogTells(NoLogs, <<>>)
<1>1. /\ NoLogs.byTx = [t \in Txs |-> <<>>] /\ NoLogs.byLabel = [x \in Labels |-> <<>>]
      /\ NoLogs.byBlock = [h \in {} |-> <<>>] /\ NoLogs.count = 0
      /\ NoLogs = [byTx |-> NoLogs.byTx, byLabel |-> NoLogs.byLabel, byBlock |-> NoLogs.byBlock, count |-> NoLogs.count]
  BY DEF NoLogs
<1>2. <<>> \in Seq(LogRecs) /\ Len(<<>>) = 0
  BY EmptySeq
<1>3. NoLogs \in LogStores
  <2>1. NoLogs.byBlock \in [{} -> Seq(LogRecs)] /\ {} \in SUBSET Nat
    BY <1>1
  <2>2. NoLogs.byTx \in [Txs -> Seq(LogRecs)] /\ NoLogs.byLabel \in [Labels -> Seq(LogRecs)] /\ NoLogs.count \in Nat
    BY <1>1, <1>2
  <2> HIDE DEF NoLogs
  <2> QED BY <1>1, <2>1, <2>2 DEF LogStores
<1>4. \A h \in Nat : At(NoLogs.byBlock, h) = <<>>
  BY <1>1 DEF At
<1>5. DOMAIN NoLogs.byBlock = {}
  BY <1>1
<1> HIDE DEF NoLogs
<1> QED BY <1>1, <1>2, <1>3, <1>4, <1>5, FilteredEmpty DEF LogTells

\* The logs of one more transaction.
LEMMA EventsTell ==
    ASSUME NEW q \in Seq(LogRecs), NEW l, LogTells(l, q), NEW t \in Txs, NEW h \in Nat
    PROVE  LogTells(AddEvents(l, Events(t, h)), q \o Kept(t, h)) /\ q \o Kept(t, h) \in Seq(LogRecs)
<1>1. PICK e, p : e = Events(t, h) /\ p = q \o Kept(t, h)
  OBVIOUS
<1>2. /\ e \in Seq(LogRecs) /\ Kept(t, h) \in Seq(LogRecs) /\ Len(e) \in Nat /\ DOMAIN e = 1..Len(e)
      /\ \A k \in DOMAIN e : e[k].tx = t /\ e[k].height = h /\ e[k] \in LogRecs
      /\ Kept(t, h) = IF Len(e) > MaxEventsPerTx THEN <<>> ELSE e
  <2>1. /\ e \in Seq(LogRecs) /\ Kept(t, h) \in Seq(LogRecs) /\ Len(e) = Len(Emits[t])
        /\ \A k \in DOMAIN e : e[k].tx = t /\ e[k].height = h
    BY <1>1, KeptTypes
  <2>2. Kept(t, h) = IF Len(e) > MaxEventsPerTx THEN <<>> ELSE e
    BY <1>1, <2>1 DEF Kept
  <2> QED BY <2>1, <2>2, ElementOfSeq, LenProperties
<1>3. p \in Seq(LogRecs)
  BY <1>1, <1>2, ConcatProperties
<1>4. CASE e = <<>> \/ Len(e) > MaxEventsPerTx
  <2>1. Kept(t, h) = <<>>
    BY <1>2, <1>4
  <2>2. p = q
    BY <1>1, <2>1, ConcatEmptySeq
  <2>3. AddEvents(l, e) = l
    BY <1>4 DEF AddEvents
  <2> QED BY <1>1, <1>3, <2>2, <2>3
<1>5. CASE ~(e = <<>> \/ Len(e) > MaxEventsPerTx)
  <2>1. p = q \o e
    BY <1>1, <1>2, <1>5
  <2>2. Head(e) = e[1] /\ 1 \in DOMAIN e /\ Len(e) # 0
    BY <1>2, <1>5, EmptySeq
  <2>3. Head(e).tx = t /\ Head(e).height = h
    BY <1>2, <2>2
  <2>4. /\ DOMAIN l.byTx = Txs /\ DOMAIN l.byLabel = Labels /\ l.count \in Nat
        /\ l = [byTx |-> l.byTx, byLabel |-> l.byLabel, byBlock |-> l.byBlock, count |-> l.count]
        /\ \E D \in SUBSET Nat : l.byBlock \in [D -> Seq(LogRecs)]
    BY DEF LogTells, LogStores
  <2>5. PICK m : m = AddEvents(l, e)
    OBVIOUS
  <2>6. m = [l EXCEPT !.byTx[t] = @ \o e, !.byLabel = [x \in Labels |-> @[x] \o Labelled(e, x)],
                      !.byBlock = [g \in DOMAIN @ \cup {h} |-> IF g = h THEN At(@, g) \o e ELSE @[g]],
                      !.count = @ + Len(e)]
    BY <1>5, <2>3, <2>5 DEF AddEvents
  <2>7. /\ m.byTx = [u \in Txs |-> IF u = t THEN l.byTx[t] \o e ELSE l.byTx[u]]
        /\ m.byLabel = [x \in Labels |-> l.byLabel[x] \o Labelled(e, x)]
        /\ m.byBlock = [g \in DOMAIN l.byBlock \cup {h} |-> IF g = h THEN At(l.byBlock, g) \o e ELSE l.byBlock[g]]
        /\ m.count = l.count + Len(e)
        /\ m = [byTx |-> m.byTx, byLabel |-> m.byLabel, byBlock |-> m.byBlock, count |-> m.count]
    BY <2>4, <2>6
  <2>8. \A S : Filtered(p, S) = Filtered(q, S) \o Filtered(e, S) /\ Filtered(p, S) \in Seq(LogRecs) /\ Filtered(q, S) \in Seq(LogRecs)
    <3>1. ASSUME NEW S PROVE Filtered(p, S) = Filtered(q, S) \o Filtered(e, S) /\ Filtered(p, S) \in Seq(LogRecs) /\ Filtered(q, S) \in Seq(LogRecs)
      <4>1. Filtered(q \o e, S) = Filtered(q, S) \o Filtered(e, S)
        BY <1>2, FilteredConcat
      <4>2. Filtered(p, S) \in Seq(LogRecs) /\ Filtered(q, S) \in Seq(LogRecs)
        BY <1>3, FilteredProperties
      <4> QED BY <2>1, <4>1, <4>2
    <3> QED BY <3>1
  <2>9. ASSUME NEW u \in Txs PROVE m.byTx[u] = Filtered(p, TxLogs(u))
    <3>1. CASE u = t
      <4>1. \A i \in DOMAIN e : e[i] \in TxLogs(u)
        BY <1>2, <3>1 DEF TxLogs
      <4>2. Filtered(e, TxLogs(u)) = e
        BY <1>2, <4>1, FilteredWhole
      <4>3. l.byTx[t] = Filtered(q, TxLogs(u))
        BY <3>1 DEF LogTells
      <4> QED BY <2>7, <2>8, <3>1, <4>2, <4>3
    <3>2. CASE u # t
      <4>1. \A i \in DOMAIN e : e[i] \notin TxLogs(u)
        BY <1>2, <3>2 DEF TxLogs
      <4>2. Filtered(e, TxLogs(u)) = <<>>
        BY <1>2, <4>1, FilteredWhole
      <4>3. Filtered(p, TxLogs(u)) = Filtered(q, TxLogs(u))
        BY <2>8, <4>2, ConcatEmptySeq
      <4>4. l.byTx[u] = Filtered(q, TxLogs(u))
        BY DEF LogTells
      <4> QED BY <2>7, <3>2, <4>3, <4>4
    <3> QED BY <3>1, <3>2
  <2>10. ASSUME NEW x \in Labels PROVE m.byLabel[x] = Filtered(p, LabelLogs(x))
    <3>1. Labelled(e, x) = Filtered(e, LabelLogs(x))
      BY <1>2, ListsOfLogs
    <3>2. l.byLabel[x] = Filtered(q, LabelLogs(x))
      BY DEF LogTells
    <3>3. m.byLabel[x] = l.byLabel[x] \o Labelled(e, x)
      BY <2>7
    <3>4. Filtered(p, LabelLogs(x)) = Filtered(q, LabelLogs(x)) \o Filtered(e, LabelLogs(x))
      BY <2>8
    <3> QED BY <3>1, <3>2, <3>3, <3>4
  <2>11. ASSUME NEW g \in Nat PROVE At(m.byBlock, g) = Filtered(p, HeightLogs(g))
    <3>1. At(l.byBlock, g) = Filtered(q, HeightLogs(g))
      BY DEF LogTells
    <3>2. CASE g = h
      <4>1. \A i \in DOMAIN e : e[i] \in HeightLogs(g)
        BY <1>2, <3>2 DEF HeightLogs
      <4>2. Filtered(e, HeightLogs(g)) = e
        BY <1>2, <4>1, FilteredWhole
      <4>3. At(m.byBlock, g) = At(l.byBlock, g) \o e
        <5>1. g \in DOMAIN m.byBlock /\ m.byBlock[g] = At(l.byBlock, g) \o e
          BY <2>7, <3>2
        <5> QED BY <5>1 DEF At
      <4> QED BY <2>8, <3>1, <4>2, <4>3
    <3>3. CASE g # h
      <4>1. \A i \in DOMAIN e : e[i] \notin HeightLogs(g)
        BY <1>2, <3>3 DEF HeightLogs
      <4>2. Filtered(e, HeightLogs(g)) = <<>>
        BY <1>2, <4>1, FilteredWhole
      <4>3. Filtered(p, HeightLogs(g)) = Filtered(q, HeightLogs(g))
        BY <2>8, <4>2, ConcatEmptySeq
      <4>4. At(m.byBlock, g) = At(l.byBlock, g)
        BY <2>7, <3>3 DEF At
      <4> QED BY <3>1, <4>3, <4>4
    <3> QED BY <3>2, <3>3
  <2>12. PICK D \in SUBSET Nat : l.byBlock \in [D -> Seq(LogRecs)]
    BY <2>4
  <2>13. \A g \in DOMAIN m.byBlock : m.byBlock[g] # <<>> /\ g \in Nat /\ m.byBlock[g] \in Seq(LogRecs)
    <3>1. ASSUME NEW g \in DOMAIN m.byBlock, g = h PROVE m.byBlock[g] # <<>> /\ g \in Nat /\ m.byBlock[g] \in Seq(LogRecs)
      <4>1. At(l.byBlock, g) = Filtered(q, HeightLogs(g))
        BY <3>1 DEF LogTells
      <4>2. PICK w \in Seq(LogRecs) : w = At(l.byBlock, g)
        BY <2>8, <4>1
      <4>3. m.byBlock[g] = w \o e
        BY <2>7, <3>1, <4>2
      <4>4. w \o e \in Seq(LogRecs) /\ Len(w \o e) = Len(w) + Len(e) /\ Len(w) \in Nat
        BY <1>2, ConcatProperties, LenProperties
      <4>5. Len(w \o e) # 0
        BY <1>2, <2>2, <4>4
      <4> QED BY <3>1, <4>3, <4>4, <4>5, EmptySeq
    <3>2. ASSUME NEW g \in DOMAIN m.byBlock, g # h PROVE m.byBlock[g] # <<>> /\ g \in Nat /\ m.byBlock[g] \in Seq(LogRecs)
      <4>1. g \in DOMAIN l.byBlock /\ m.byBlock[g] = l.byBlock[g]
        BY <2>7, <3>2
      <4>2. l.byBlock[g] # <<>>
        BY <4>1 DEF LogTells
      <4> QED BY <2>12, <4>1, <4>2
    <3> QED BY <3>1, <3>2
  <2>14. m.count = Len(p)
    <3>1. l.count = Len(q)
      BY DEF LogTells
    <3> QED BY <1>2, <2>1, <2>7, <3>1, ConcatProperties
  <2>15. m \in LogStores
    <3>1. m.byTx \in [Txs -> Seq(LogRecs)] /\ m.byLabel \in [Labels -> Seq(LogRecs)]
      <4>1. (\A u \in Txs : m.byTx[u] \in Seq(LogRecs)) /\ \A x \in Labels : m.byLabel[x] \in Seq(LogRecs)
        BY <2>8, <2>9, <2>10
      <4>2. m.byTx = [u \in Txs |-> m.byTx[u]] /\ m.byLabel = [x \in Labels |-> m.byLabel[x]]
        BY <2>7
      <4> QED BY <4>1, <4>2
    <3>2. m.byBlock \in [DOMAIN m.byBlock -> Seq(LogRecs)] /\ DOMAIN m.byBlock \in SUBSET Nat
      BY <2>7, <2>13
    <3>3. m.count \in Nat
      BY <1>2, <2>4, <2>7
    <3> QED BY <2>7, <3>1, <3>2, <3>3 DEF LogStores
  <2>16. LogTells(m, p)
    BY <2>9, <2>10, <2>11, <2>13, <2>14, <2>15 DEF LogTells
  <2> QED BY <1>1, <1>3, <2>5, <2>16
<1> QED BY <1>4, <1>5

\* The logs of a height are forgotten.
LEMMA RemovalTells ==
    ASSUME NEW q \in Seq(LogRecs), NEW l, LogTells(l, q), NEW h \in Nat
    PROVE  LogTells(RemoveByBlock(l, h), Filtered(q, OtherLogs(h))) /\ Filtered(q, OtherLogs(h)) \in Seq(LogRecs)
<1>1. PICK p \in Seq(LogRecs) : p = Filtered(q, OtherLogs(h))
  BY FilteredProperties
<1>2. \A S : /\ Filtered(p, S) = Filtered(q, OtherLogs(h) \cap S) /\ Filtered(p, S) \in Seq(LogRecs)
             /\ Filtered(Filtered(q, S), OtherLogs(h)) = Filtered(q, S \cap OtherLogs(h)) /\ Filtered(q, S) \in Seq(LogRecs)
  BY <1>1, FilteredTwice, FilteredProperties
<1>3. \A S : Filtered(Filtered(q, S), OtherLogs(h)) = Filtered(p, S)
  <2>1. ASSUME NEW S PROVE Filtered(Filtered(q, S), OtherLogs(h)) = Filtered(p, S)
    <3>1. S \cap OtherLogs(h) = OtherLogs(h) \cap S
      OBVIOUS
    <3> QED BY <1>2, <3>1
  <2> QED BY <2>1
<1>4. /\ DOMAIN l.byTx = Txs /\ DOMAIN l.byLabel = Labels
      /\ l = [byTx |-> l.byTx, byLabel |-> l.byLabel, byBlock |-> l.byBlock, count |-> l.count]
      /\ \E D \in SUBSET Nat : l.byBlock \in [D -> Seq(LogRecs)]
  BY DEF LogTells, LogStores
<1>5. PICK m : m = RemoveByBlock(l, h)
  OBVIOUS
<1>6. /\ m.byTx = [t \in Txs |-> Except(l.byTx[t], h)] /\ m.byLabel = [x \in Labels |-> Except(l.byLabel[x], h)]
      /\ m.byBlock = Drop(l.byBlock, {h}) /\ m.count = l.count - Len(At(l.byBlock, h))
      /\ m = [byTx |-> m.byTx, byLabel |-> m.byLabel, byBlock |-> m.byBlock, count |-> m.count]
  BY <1>4, <1>5 DEF RemoveByBlock
<1>7. \A t \in Txs : m.byTx[t] = Filtered(p, TxLogs(t))
  <2>1. ASSUME NEW t \in Txs PROVE m.byTx[t] = Filtered(p, TxLogs(t))
    <3>1. l.byTx[t] = Filtered(q, TxLogs(t))
      BY DEF LogTells
    <3>2. l.byTx[t] \in Seq(LogRecs)
      BY <1>2, <3>1
    <3>3. Except(l.byTx[t], h) = Filtered(l.byTx[t], OtherLogs(h))
      BY <3>2, ListsOfLogs
    <3> QED BY <1>3, <1>6, <3>1, <3>3
  <2> QED BY <2>1
<1>8. \A x \in Labels : m.byLabel[x] = Filtered(p, LabelLogs(x))
  <2>1. ASSUME NEW x \in Labels PROVE m.byLabel[x] = Filtered(p, LabelLogs(x))
    <3>1. l.byLabel[x] = Filtered(q, LabelLogs(x))
      BY DEF LogTells
    <3>2. l.byLabel[x] \in Seq(LogRecs)
      BY <1>2, <3>1
    <3>3. Except(l.byLabel[x], h) = Filtered(l.byLabel[x], OtherLogs(h))
      BY <3>2, ListsOfLogs
    <3> QED BY <1>3, <1>6, <3>1, <3>3
  <2> QED BY <2>1
<1>9. ASSUME NEW g \in Nat PROVE At(m.byBlock, g) = Filtered(p, HeightLogs(g))
  <2>1. CASE g = h
    <3>1. g \notin DOMAIN m.byBlock
      BY <1>6, <2>1 DEF Drop
    <3>2. At(m.byBlock, g) = <<>>
      BY <3>1 DEF At
    <3>3. OtherLogs(h) \cap HeightLogs(g) = {}
      BY <2>1 DEF OtherLogs, HeightLogs
    <3>4. Filtered(q, {}) = <<>>
      BY FilteredWhole
    <3> QED BY <1>2, <3>2, <3>3, <3>4
  <2>2. CASE g # h
    <3>1. At(m.byBlock, g) = At(l.byBlock, g)
      BY <1>6, <2>2 DEF At, Drop
    <3>2. OtherLogs(h) \cap HeightLogs(g) = HeightLogs(g)
      BY <2>2 DEF OtherLogs, HeightLogs
    <3>3. At(l.byBlock, g) = Filtered(q, HeightLogs(g))
      BY DEF LogTells
    <3> QED BY <1>2, <3>1, <3>2, <3>3
  <2> QED BY <2>1, <2>2
<1>10. \A g \in DOMAIN m.byBlock : g \in DOMAIN l.byBlock /\ m.byBlock[g] = l.byBlock[g]
  BY <1>6 DEF Drop
<1>11. \A g \in DOMAIN m.byBlock : m.byBlock[g] # <<>>
  BY <1>10 DEF LogTells
<1>12. m.count = Len(p) /\ m.count \in Nat
  <2>1. At(l.byBlock, h) = Filtered(q, HeightLogs(h)) /\ l.count = Len(q)
    BY DEF LogTells
  <2>2. LogRecs \ OtherLogs(h) = HeightLogs(h)
    BY DEF OtherLogs, HeightLogs
  <2>3. Len(p) = Len(q) - Len(Filtered(q, HeightLogs(h)))
    BY <1>1, <2>2, FilteredParts
  <2> QED BY <1>1, <1>6, <2>1, <2>3, LenProperties
<1>13. m \in LogStores
  <2>1. m.byTx \in [Txs -> Seq(LogRecs)] /\ m.byLabel \in [Labels -> Seq(LogRecs)]
    BY <1>2, <1>6, <1>7, <1>8
  <2>2. PICK D \in SUBSET Nat : l.byBlock \in [D -> Seq(LogRecs)]
    BY <1>4
  <2>3. m.byBlock \in [DOMAIN m.byBlock -> Seq(LogRecs)] /\ DOMAIN m.byBlock \in SUBSET Nat
    BY <1>6, <1>10, <2>2 DEF Drop
  <2> QED BY <1>6, <1>12, <2>1, <2>3 DEF LogStores
<1>14. LogTells(m, p)
  BY <1>7, <1>8, <1>9, <1>11, <1>12, <1>13 DEF LogTells
<1> QED BY <1>1, <1>5, <1>14

-------------------------------------------------------------------------------
(* Logging a block, forgetting a height.                                     *)

\* The logs of the transactions of one block.
EventsStay(height, P, T) == \A x \in P, t \in T : AddEvents(x, Events(t, height)) \in P
EventsTrace(height, P, T, base, q, r) ==
    /\ r \in [0..Len(q) -> P] /\ r[0] = base
    /\ \A n \in 1..Len(q) : q[n] \in T /\ r[n - 1] \in P /\ r[n] = AddEvents(r[n - 1], Events(q[n], height))

LEMMA EventsLead ==
    ASSUME NEW P, NEW T, NEW height, EventsStay(height, P, T), NEW base \in P, NEW q \in Seq(T)
    PROVE  \E r : EventsTrace(height, P, T, base, q, r) /\ r[Len(q)] = LogBlock(base, q, height)
<1> DEFINE F == [x \in P |-> [t \in T |-> AddEvents(x, Events(t, height))]]
           Unfolds(h) ==
               h = [D \in SUBSET DOMAIN q |-> IF D = {} THEN base
                                              ELSE AddEvents(h[D \ {LastIn(D)}], Events(q[LastIn(D)], height))]
<1>1. Stepwise(F, P, T)
  BY DEF Stepwise, EventsStay
<1>2. \A x \in P, t \in T : F[x][t] = AddEvents(x, Events(t, height))
  OBVIOUS
<1>3. PICK g : g = CHOOSE h : Unfolds(h)
  OBVIOUS
<1>4. LogBlock(base, q, height) = g[DOMAIN q]
  BY <1>3 DEF LogBlock, FoldLeft, MapThenFoldSet, Max, LastIn
<1> HIDE DEF F
<1>5. PICK h : Folds(F, P, T, base, q, h)
  BY <1>1, FoldsTyped
<1>6. Unfolds(h)
  <2>1. \A D \in SUBSET DOMAIN q : D # {} => h[D] = AddEvents(h[D \ {LastIn(D)}], Events(q[LastIn(D)], height))
    BY <1>2, <1>5 DEF Folds, Leads
  <2>2. h \in [SUBSET DOMAIN q -> P] /\ h[{}] = base
    BY <1>5 DEF Folds, Leads
  <2> QED BY <2>1, <2>2
<1>7. Unfolds(g)
  BY <1>3, <1>6
<1>8. Unrolls(F, P, base, q, g)
  <2>1. ASSUME NEW D \in SUBSET DOMAIN q, D # {}, g[D \ {LastIn(D)}] \in P
        PROVE  g[D] = F[g[D \ {LastIn(D)}]][q[LastIn(D)]]
    <3>1. q[LastIn(D)] \in T
      BY <1>5, <2>1 DEF Folds
    <3>2. g[D] = AddEvents(g[D \ {LastIn(D)}], Events(q[LastIn(D)], height))
      BY <1>7, <2>1
    <3> QED BY <1>2, <2>1, <3>1, <3>2
  <2>2. g[{}] = base
    BY <1>7
  <2> QED BY <2>1, <2>2 DEF Unrolls
<1>9. PICK r : Trace(F, P, T, base, q, r) /\ r[Len(q)] = g[DOMAIN q]
  BY <1>1, <1>8, FoldsLead
<1>10. \A n \in 1..Len(q) : q[n] \in T /\ r[n - 1] \in P /\ r[n] = AddEvents(r[n - 1], Events(q[n], height))
  BY <1>2, <1>9 DEF Trace
<1> QED BY <1>4, <1>9, <1>10 DEF Trace, EventsTrace

\* The logs of several blocks.
LogBlocksStay(c, P, T) == \A x \in P, t \in T : LogBlock(x, c[t], t) \in P
LogBlocksTrace(c, P, T, base, q, r) ==
    /\ r \in [0..Len(q) -> P] /\ r[0] = base
    /\ \A n \in 1..Len(q) : q[n] \in T /\ r[n - 1] \in P /\ r[n] = LogBlock(r[n - 1], c[q[n]], q[n])

LEMMA LogBlocksLead ==
    ASSUME NEW P, NEW T, NEW c, LogBlocksStay(c, P, T), NEW base \in P, NEW q \in Seq(T)
    PROVE  \E r : LogBlocksTrace(c, P, T, base, q, r) /\ r[Len(q)] = LogBlocks(base, c, q)
<1> DEFINE F == [x \in P |-> [t \in T |-> LogBlock(x, c[t], t)]]
           Unfolds(h) ==
               h = [D \in SUBSET DOMAIN q |-> IF D = {} THEN base
                                              ELSE LogBlock(h[D \ {LastIn(D)}], c[q[LastIn(D)]], q[LastIn(D)])]
<1>1. Stepwise(F, P, T)
  BY DEF Stepwise, LogBlocksStay
<1>2. \A x \in P, t \in T : F[x][t] = LogBlock(x, c[t], t)
  OBVIOUS
<1>3. PICK g : g = CHOOSE h : Unfolds(h)
  OBVIOUS
<1>4. LogBlocks(base, c, q) = g[DOMAIN q]
  BY <1>3 DEF LogBlocks, FoldLeft, MapThenFoldSet, Max, LastIn
<1> HIDE DEF F
<1>5. PICK h : Folds(F, P, T, base, q, h)
  BY <1>1, FoldsTyped
<1>6. Unfolds(h)
  <2>1. \A D \in SUBSET DOMAIN q : D # {} => h[D] = LogBlock(h[D \ {LastIn(D)}], c[q[LastIn(D)]], q[LastIn(D)])
    BY <1>2, <1>5 DEF Folds, Leads
  <2>2. h \in [SUBSET DOMAIN q -> P] /\ h[{}] = base
    BY <1>5 DEF Folds, Leads
  <2> QED BY <2>1, <2>2
<1>7. Unfolds(g)
  BY <1>3, <1>6
<1>8. Unrolls(F, P, base, q, g)
  <2>1. ASSUME NEW D \in SUBSET DOMAIN q, D # {}, g[D \ {LastIn(D)}] \in P
        PROVE  g[D] = F[g[D \ {LastIn(D)}]][q[LastIn(D)]]
    <3>1. q[LastIn(D)] \in T
      BY <1>5, <2>1 DEF Folds
    <3>2. g[D] = LogBlock(g[D \ {LastIn(D)}], c[q[LastIn(D)]], q[LastIn(D)])
      BY <1>7, <2>1
    <3> QED BY <1>2, <2>1, <3>1, <3>2
  <2>2. g[{}] = base
    BY <1>7
  <2> QED BY <2>1, <2>2 DEF Unrolls
<1>9. PICK r : Trace(F, P, T, base, q, r) /\ r[Len(q)] = g[DOMAIN q]
  BY <1>1, <1>8, FoldsLead
<1>10. \A n \in 1..Len(q) : q[n] \in T /\ r[n - 1] \in P /\ r[n] = LogBlock(r[n - 1], c[q[n]], q[n])
  BY <1>2, <1>9 DEF Trace
<1> QED BY <1>4, <1>9, <1>10 DEF Trace, LogBlocksTrace

\* Several heights are forgotten.
RemovalsStay(P, T) == \A x \in P, t \in T : RemoveByBlock(x, t) \in P
RemovalsTrace(P, T, base, q, r) ==
    /\ r \in [0..Len(q) -> P] /\ r[0] = base
    /\ \A n \in 1..Len(q) : q[n] \in T /\ r[n - 1] \in P /\ r[n] = RemoveByBlock(r[n - 1], q[n])

LEMMA RemovalsLead ==
    ASSUME NEW P, NEW T, RemovalsStay(P, T), NEW base \in P, NEW q \in Seq(T)
    PROVE  \E r : RemovalsTrace(P, T, base, q, r) /\ r[Len(q)] = FoldLeft(RemoveByBlock, base, q)
<1> DEFINE F == [x \in P |-> [t \in T |-> RemoveByBlock(x, t)]]
           Unfolds(h) ==
               h = [D \in SUBSET DOMAIN q |-> IF D = {} THEN base
                                              ELSE RemoveByBlock(h[D \ {LastIn(D)}], q[LastIn(D)])]
<1>1. Stepwise(F, P, T)
  BY DEF Stepwise, RemovalsStay
<1>2. \A x \in P, t \in T : F[x][t] = RemoveByBlock(x, t)
  OBVIOUS
<1>3. PICK g : g = CHOOSE h : Unfolds(h)
  OBVIOUS
<1>4. FoldLeft(RemoveByBlock, base, q) = g[DOMAIN q]
  BY <1>3 DEF FoldLeft, MapThenFoldSet, Max, LastIn
<1> HIDE DEF F
<1>5. PICK h : Folds(F, P, T, base, q, h)
  BY <1>1, FoldsTyped
<1>6. Unfolds(h)
  <2>1. \A D \in SUBSET DOMAIN q : D # {} => h[D] = RemoveByBlock(h[D \ {LastIn(D)}], q[LastIn(D)])
    BY <1>2, <1>5 DEF Folds, Leads
  <2>2. h \in [SUBSET DOMAIN q -> P] /\ h[{}] = base
    BY <1>5 DEF Folds, Leads
  <2> QED BY <2>1, <2>2
<1>7. Unfolds(g)
  BY <1>3, <1>6
<1>8. Unrolls(F, P, base, q, g)
  <2>1. ASSUME NEW D \in SUBSET DOMAIN q, D # {}, g[D \ {LastIn(D)}] \in P
        PROVE  g[D] = F[g[D \ {LastIn(D)}]][q[LastIn(D)]]
    <3>1. q[LastIn(D)] \in T
      BY <1>5, <2>1 DEF Folds
    <3>2. g[D] = RemoveByBlock(g[D \ {LastIn(D)}], q[LastIn(D)])
      BY <1>7, <2>1
    <3> QED BY <1>2, <2>1, <3>1, <3>2
  <2>2. g[{}] = base
    BY <1>7
  <2> QED BY <2>1, <2>2 DEF Unrolls
<1>9. PICK r : Trace(F, P, T, base, q, r) /\ r[Len(q)] = g[DOMAIN q]
  BY <1>1, <1>8, FoldsLead
<1>10. \A n \in 1..Len(q) : q[n] \in T /\ r[n - 1] \in P /\ r[n] = RemoveByBlock(r[n - 1], q[n])
  BY <1>2, <1>9 DEF Trace
<1> QED BY <1>4, <1>9, <1>10 DEF Trace, RemovalsTrace

TellingStores == {l \in LogStores : \E q \in Seq(LogRecs) : LogTells(l, q)}

LEMMA LogBlockTells ==
    ASSUME NEW q \in Seq(LogRecs), NEW l, LogTells(l, q), NEW b \in Seq(Txs), NEW h \in Nat
    PROVE  LogTells(LogBlock(l, b, h), q \o LogsIn(b, h)) /\ q \o LogsIn(b, h) \in Seq(LogRecs)
<1>1. EventsStay(h, TellingStores, Txs)
  <2>1. ASSUME NEW k \in TellingStores, NEW t \in Txs PROVE AddEvents(k, Events(t, h)) \in TellingStores
    <3>1. PICK p \in Seq(LogRecs) : LogTells(k, p)
      BY DEF TellingStores
    <3>2. LogTells(AddEvents(k, Events(t, h)), p \o Kept(t, h)) /\ p \o Kept(t, h) \in Seq(LogRecs)
      BY <3>1, EventsTell
    <3> QED BY <3>2 DEF TellingStores, LogTells
  <2> QED BY <2>1 DEF EventsStay
<1>2. l \in TellingStores
  BY DEF TellingStores, LogTells
<1>3. PICK r : EventsTrace(h, TellingStores, Txs, l, b, r) /\ r[Len(b)] = LogBlock(l, b, h)
  BY <1>1, <1>2, EventsLead
<1>4. PICK n \in Nat : n = Len(b)
  BY LenProperties
<1> DEFINE In(i) == LogsIn(SubSeq(b, 1, i), h)
           S == {i \in 0..n : q \o In(i) \in Seq(LogRecs) /\ LogTells(r[i], q \o In(i))}
<1>5. 0 \in S
  <2>1. In(0) = <<>>
    BY PrefixGrows, NoLogsIn
  <2>2. q \o In(0) = q
    BY <2>1, ConcatEmptySeq
  <2>3. r[0] = l
    BY <1>3 DEF EventsTrace
  <2> HIDE DEF In
  <2>4. q \o In(0) \in Seq(LogRecs) /\ LogTells(r[0], q \o In(0))
    BY <2>2, <2>3
  <2> QED BY <2>4
<1>6. ASSUME NEW i \in 1..n, i - 1 \in S PROVE i \in S
  <2>1. PICK p, t : p = SubSeq(b, 1, i - 1) /\ t = b[i]
    OBVIOUS
  <2>2. p \in Seq(Txs) /\ t \in Txs /\ SubSeq(b, 1, i) = Append(p, t)
    <3>1. i - 1 \in 0..n
      OBVIOUS
    <3> QED BY <1>4, <2>1, <3>1, PrefixGrows
  <2>3. PICK u, v : u = In(i - 1) /\ v = Kept(t, h)
    OBVIOUS
  <2>4. In(i) = u \o v /\ u \in Seq(LogRecs) /\ v \in Seq(LogRecs)
    <3>1. LogsIn(Append(p, t), h) = LogsIn(p, h) \o Kept(t, h) /\ LogsIn(p, h) \in Seq(LogRecs)
      BY <2>2, LogsInAppend
    <3>2. v \in Seq(LogRecs)
      BY <2>2, <2>3, KeptTypes
    <3> QED BY <2>1, <2>2, <2>3, <3>1, <3>2
  <2>5. (q \o u) \o v = q \o In(i)
    <3>1. (q \o u) \o v = q \o (u \o v)
      BY <2>4, ConcatAssociative
    <3> QED BY <2>4, <3>1
  <2>6. r[i] = AddEvents(r[i - 1], Events(t, h))
    BY <1>3, <1>4, <2>1 DEF EventsTrace
  <2>7. q \o u \in Seq(LogRecs) /\ LogTells(r[i - 1], q \o u)
    BY <1>6, <2>3
  <2>8. LogTells(AddEvents(r[i - 1], Events(t, h)), (q \o u) \o v) /\ (q \o u) \o v \in Seq(LogRecs)
    BY <2>2, <2>3, <2>7, EventsTell
  <2> HIDE DEF In
  <2> QED BY <2>5, <2>6, <2>8
<1>7. n \in S
  <2> HIDE DEF S
  <2>1. \A i \in 0..n : i \in S
    BY <1>5, <1>6, StepByStep
  <2> QED BY <2>1
<1>8. In(n) = LogsIn(b, h)
  BY <1>4, PrefixGrows
<1> HIDE DEF In
<1> QED BY <1>3, <1>4, <1>7, <1>8

\* From the height n to the end of c.
LEMMA Above ==
    ASSUME NEW c \in Seq(Seq(Txs)), NEW n \in 0..Len(c)
    PROVE  /\ Len(c) \in Nat /\ NewHeights(n, c) \in Seq(1..Len(c)) /\ Len(NewHeights(n, c)) = Len(c) - n
           /\ \A i \in 1..Len(c) - n : NewHeights(n, c)[i] = n + i /\ n + i \in 1..Len(c)
           /\ \A h \in 1..Len(c) : c[h] \in Seq(Txs)
<1>1. PICK X : X = Seq(Txs)
  OBVIOUS
<1>2. PICK l \in Nat : l = Len(c)
  BY <1>1, LenProperties
<1>3. PICK q : q = [k \in 1..l - n |-> n + k]
  OBVIOUS
<1>4. q = NewHeights(n, c) /\ l - n \in Nat /\ q \in [1..l - n -> 1..l]
  BY <1>2, <1>3 DEF NewHeights
<1>5. q \in Seq(1..l) /\ Len(q) = l - n
  <2>1. PICK k \in Nat : k = l - n
    BY <1>4
  <2>2. q \in [1..k -> 1..l]
    BY <1>4, <2>1
  <2>3. q \in Seq(1..l)
    BY <2>2, SeqDef
  <2> QED BY <2>1, <2>2, <2>3, LenProperties
<1>6. \A h \in 1..l : c[h] \in Seq(Txs)
  BY <1>1, <1>2, ElementOfSeq
<1> QED BY <1>2, <1>3, <1>4, <1>5, <1>6

\* The logs of the blocks of c above n.
LEMMA LogBlocksTell ==
    ASSUME NEW c \in Seq(Seq(Txs)), NEW n \in 0..Len(c), NEW l, LogTells(l, LogsOn(SubSeq(c, 1, n)))
    PROVE  LogTells(LogBlocks(l, c, NewHeights(n, c)), LogsOn(c))
<1>1. PICK q, m : q = NewHeights(n, c) /\ m = Len(c) - n
  OBVIOUS
<1>2. /\ Len(c) \in Nat /\ m \in Nat /\ q \in Seq(1..Len(c)) /\ Len(q) = m
      /\ (\A i \in 1..m : q[i] = n + i /\ n + i \in 1..Len(c)) /\ \A h \in 1..Len(c) : c[h] \in Seq(Txs)
  <2>1. /\ Len(c) \in Nat /\ q \in Seq(1..Len(c)) /\ Len(q) = m
        /\ \A i \in 1..m : q[i] = n + i /\ n + i \in 1..Len(c)
    BY <1>1, Above
  <2>2. \A h \in 1..Len(c) : c[h] \in Seq(Txs)
    BY Above
  <2> QED BY <1>1, <2>1, <2>2
<1>3. PICK X : X = Seq(Txs)
  OBVIOUS
<1>4. c \in Seq(X)
  BY <1>3
<1>5. LogBlocksStay(c, TellingStores, 1..Len(c))
  <2>1. ASSUME NEW k \in TellingStores, NEW h \in 1..Len(c) PROVE LogBlock(k, c[h], h) \in TellingStores
    <3>1. PICK p \in Seq(LogRecs) : LogTells(k, p)
      BY DEF TellingStores
    <3>2. LogTells(LogBlock(k, c[h], h), p \o LogsIn(c[h], h)) /\ p \o LogsIn(c[h], h) \in Seq(LogRecs)
      <4>1. c[h] \in Seq(Txs) /\ h \in Nat
        BY <1>2
      <4> QED BY <3>1, <4>1, LogBlockTells
    <3> QED BY <3>2 DEF TellingStores, LogTells
  <2> QED BY <2>1 DEF LogBlocksStay
<1>6. ASSUME NEW i \in 0..Len(c) PROVE SubSeq(c, 1, i) \in Seq(Seq(Txs)) /\ LogsOn(SubSeq(c, 1, i)) \in Seq(LogRecs) /\ Len(SubSeq(c, 1, i)) = i
  <2>1. SubSeq(c, 1, i) \in Seq(X) /\ Len(SubSeq(c, 1, i)) = i
    BY <1>4, PrefixGrows
  <2> QED BY <1>3, <2>1, LogsOnTypes
<1>7. l \in TellingStores
  BY <1>6 DEF TellingStores, LogTells
<1>8. PICK r : LogBlocksTrace(c, TellingStores, 1..Len(c), l, q, r) /\ r[Len(q)] = LogBlocks(l, c, q)
  BY <1>2, <1>5, <1>7, LogBlocksLead
<1> DEFINE On(i) == LogsOn(SubSeq(c, 1, n + i))
           S == {i \in 0..m : LogTells(r[i], On(i))}
<1>9. 0 \in S
  <2>1. r[0] = l /\ n + 0 = n
    BY <1>8 DEF LogBlocksTrace
  <2> QED BY <1>2, <2>1
<1>10. ASSUME NEW i \in 1..m, i - 1 \in S PROVE i \in S
  <2>1. PICK j : j = n + i
    OBVIOUS
  <2>2. j \in 1..Len(c) /\ j - 1 = n + (i - 1) /\ j - 1 \in 0..Len(c) /\ q[i] = j
    BY <1>2, <2>1
  <2>3. PICK p : p = SubSeq(c, 1, j - 1)
    OBVIOUS
  <2>4. SubSeq(c, 1, j) = Append(p, c[j]) /\ p \in Seq(Seq(Txs)) /\ Len(p) = j - 1 /\ LogsOn(p) \in Seq(LogRecs) /\ c[j] \in Seq(Txs)
    <3>1. SubSeq(c, 1, j) = Append(p, c[j])
      BY <1>4, <2>2, <2>3, PrefixGrows
    <3> QED BY <1>2, <1>6, <2>2, <2>3, <3>1
  <2>5. LogsOn(Append(p, c[j])) = LogsOn(p) \o LogsIn(c[j], Len(p) + 1)
    BY <2>4, LogsOnAppend
  <2>6. On(i) = LogsOn(p) \o LogsIn(c[j], j) /\ On(i - 1) = LogsOn(p)
    <3>1. Len(p) + 1 = j /\ n + (i - 1) = j - 1
      BY <2>2, <2>4
    <3> QED BY <2>1, <2>3, <2>4, <2>5, <3>1
  <2>7. r[i] = LogBlock(r[i - 1], c[j], j)
    BY <1>2, <1>8, <2>2 DEF LogBlocksTrace
  <2>8. LogTells(r[i - 1], LogsOn(p))
    BY <1>10, <2>6
  <2>9. LogTells(LogBlock(r[i - 1], c[j], j), LogsOn(p) \o LogsIn(c[j], j))
    <3>1. j \in Nat /\ c[j] \in Seq(Txs) /\ LogsOn(p) \in Seq(LogRecs)
      BY <2>2, <2>4
    <3> QED BY <2>8, <3>1, LogBlockTells
  <2> HIDE DEF On
  <2>10. LogTells(r[i], On(i))
    BY <2>6, <2>7, <2>9
  <2> QED BY <2>10
<1>11. m \in S
  <2> HIDE DEF S
  <2>1. \A i \in 0..m : i \in S
    BY <1>2, <1>9, <1>10, StepByStep
  <2> QED BY <1>2, <2>1
<1>12. On(m) = LogsOn(c)
  <2>1. n + m = Len(c)
    BY <1>1, <1>2
  <2> QED BY <1>4, <2>1, PrefixGrows
<1> HIDE DEF On
<1> QED BY <1>1, <1>2, <1>8, <1>11, <1>12

\* The logs of a chain up to a height.
LogsTo(h) == {e \in LogRecs : e.height <= h}

LEMMA LogsUpTo ==
    ASSUME NEW c \in Seq(Seq(Txs)), NEW n \in 0..Len(c)
    PROVE  Filtered(LogsOn(c), LogsTo(n)) = LogsOn(SubSeq(c, 1, n))
<1>1. PICK X : X = Seq(Txs)
  OBVIOUS
<1>2. c \in Seq(X) /\ Len(c) \in Nat
  BY <1>1, LenProperties
<1>3. PICK m \in Nat : m = Len(c) - n
  BY <1>2
<1> DEFINE On(i) == LogsOn(SubSeq(c, 1, n + i))
           S == {i \in 0..m : Filtered(On(i), LogsTo(n)) = LogsOn(SubSeq(c, 1, n))}
<1>4. ASSUME NEW i \in 0..Len(c)
      PROVE  /\ SubSeq(c, 1, i) \in Seq(Seq(Txs)) /\ LogsOn(SubSeq(c, 1, i)) \in Seq(LogRecs) /\ Len(SubSeq(c, 1, i)) = i
             /\ \A k \in DOMAIN LogsOn(SubSeq(c, 1, i)) : LogsOn(SubSeq(c, 1, i))[k].height \in 1..i
  <2>1. SubSeq(c, 1, i) \in Seq(X) /\ Len(SubSeq(c, 1, i)) = i
    BY <1>2, PrefixGrows
  <2> QED BY <1>1, <2>1, LogsOnTypes
<1>5. 0 \in S
  <2>1. n + 0 = n
    BY <1>2
  <2>2. PICK p \in Seq(LogRecs) : p = LogsOn(SubSeq(c, 1, n)) /\ \A k \in DOMAIN p : p[k].height \in 1..n
    BY <1>4
  <2>3. \A k \in DOMAIN p : p[k] \in LogsTo(n)
    <3>1. \A k \in DOMAIN p : p[k] \in LogRecs /\ p[k].height <= n
      BY <2>2, ElementOfSeq, LenProperties
    <3> QED BY <3>1 DEF LogsTo
  <2>4. Filtered(p, LogsTo(n)) = p
    BY <2>3, FilteredWhole
  <2> QED BY <1>3, <2>1, <2>2, <2>4
<1>6. ASSUME NEW i \in 1..m, i - 1 \in S PROVE i \in S
  <2>1. PICK j : j = n + i
    OBVIOUS
  <2>2. j \in 1..Len(c) /\ j - 1 = n + (i - 1) /\ j - 1 \in 0..Len(c) /\ j > n /\ j \in Nat
    BY <1>2, <1>3, <2>1
  <2>3. PICK p : p = SubSeq(c, 1, j - 1)
    OBVIOUS
  <2>4. SubSeq(c, 1, j) = Append(p, c[j]) /\ p \in Seq(Seq(Txs)) /\ Len(p) = j - 1 /\ LogsOn(p) \in Seq(LogRecs) /\ c[j] \in Seq(Txs)
    <3>1. c[j] \in Seq(Txs)
      BY <2>2, Above
    <3> QED BY <1>2, <1>4, <2>2, <2>3, <3>1, PrefixGrows
  <2>5. LogsOn(Append(p, c[j])) = LogsOn(p) \o LogsIn(c[j], Len(p) + 1)
    BY <2>4, LogsOnAppend
  <2>6. On(i) = LogsOn(p) \o LogsIn(c[j], j) /\ On(i - 1) = LogsOn(p)
    <3>1. Len(p) + 1 = j /\ n + (i - 1) = j - 1
      BY <2>2, <2>4
    <3> QED BY <2>1, <2>3, <2>4, <2>5, <3>1
  <2>7. PICK v \in Seq(LogRecs) : v = LogsIn(c[j], j) /\ \A k \in DOMAIN v : v[k].height = j
    <3>1. j \in Nat /\ c[j] \in Seq(Txs)
      BY <2>2, <2>4
    <3>2. LogsIn(c[j], j) \in Seq(LogRecs) /\ \A k \in DOMAIN LogsIn(c[j], j) : LogsIn(c[j], j)[k].height = j
      BY <3>1, LogsInTypes
    <3> QED BY ONLY <3>2
  <2>8. \A k \in DOMAIN v : v[k] \notin LogsTo(n)
    BY <2>2, <2>7 DEF LogsTo
  <2>9. Filtered(v, LogsTo(n)) = <<>>
    BY <2>8, FilteredWhole
  <2>10. Filtered(LogsOn(p) \o v, LogsTo(n)) = Filtered(LogsOn(p), LogsTo(n)) \o Filtered(v, LogsTo(n))
    BY <2>4, FilteredConcat
  <2>11. Filtered(LogsOn(p), LogsTo(n)) \in Seq(LogRecs)
    BY <2>4, FilteredProperties
  <2>12. Filtered(LogsOn(p) \o v, LogsTo(n)) = Filtered(LogsOn(p), LogsTo(n))
    BY <2>9, <2>10, <2>11, ConcatEmptySeq
  <2> HIDE DEF On
  <2>13. Filtered(On(i), LogsTo(n)) = Filtered(On(i - 1), LogsTo(n))
    BY <2>6, <2>7, <2>12
  <2> QED BY <1>6, <2>13
<1>7. m \in S
  <2> HIDE DEF S
  <2>1. \A i \in 0..m : i \in S
    BY <1>5, <1>6, StepByStep
  <2> QED BY <2>1
<1>8. On(m) = LogsOn(c)
  <2>1. n + m = Len(c)
    BY <1>2, <1>3
  <2> QED BY <1>2, <2>1, PrefixGrows
<1> HIDE DEF On
<1> QED BY <1>7, <1>8

\* A reorg forgets what is above the fork.
LEMMA RemovalsTell ==
    ASSUME NEW c \in Seq(Seq(Txs)), NEW n \in 0..Len(c), NEW l, LogTells(l, LogsOn(c))
    PROVE  LogTells(FoldLeft(RemoveByBlock, l, NewHeights(n, c)), LogsOn(SubSeq(c, 1, n)))
<1>1. PICK q, m : q = NewHeights(n, c) /\ m = Len(c) - n
  OBVIOUS
<1>2. /\ Len(c) \in Nat /\ m \in Nat /\ q \in Seq(1..Len(c)) /\ Len(q) = m
      /\ \A i \in 1..m : q[i] = n + i /\ n + i \in 1..Len(c)
  <2>1. /\ Len(c) \in Nat /\ q \in Seq(1..Len(c)) /\ Len(q) = m
        /\ \A i \in 1..m : q[i] = n + i /\ n + i \in 1..Len(c)
    BY <1>1, Above
  <2>2. \A h \in 1..Len(c) : c[h] \in Seq(Txs)
    BY Above
  <2> QED BY <1>1, <2>1, <2>2
<1>3. RemovalsStay(TellingStores, 1..Len(c))
  <2>1. ASSUME NEW k \in TellingStores, NEW h \in 1..Len(c) PROVE RemoveByBlock(k, h) \in TellingStores
    <3>1. PICK p \in Seq(LogRecs) : LogTells(k, p)
      BY DEF TellingStores
    <3>2. LogTells(RemoveByBlock(k, h), Filtered(p, OtherLogs(h))) /\ Filtered(p, OtherLogs(h)) \in Seq(LogRecs)
      BY <3>1, RemovalTells
    <3> QED BY <3>2 DEF TellingStores, LogTells
  <2> QED BY <2>1 DEF RemovalsStay
<1>4. PICK p : p = LogsOn(c)
  OBVIOUS
<1>5. p \in Seq(LogRecs) /\ \A k \in DOMAIN p : p[k] \in LogRecs /\ p[k].height \in 1..Len(c)
  <2>1. p \in Seq(LogRecs) /\ \A k \in DOMAIN p : p[k].height \in 1..Len(c)
    BY <1>4, LogsOnTypes
  <2> QED BY <2>1, ElementOfSeq, LenProperties
<1>6. l \in TellingStores
  BY <1>4, <1>5 DEF TellingStores, LogTells
<1>7. PICK r : RemovalsTrace(TellingStores, 1..Len(c), l, q, r) /\ r[Len(q)] = FoldLeft(RemoveByBlock, l, q)
  BY <1>2, <1>3, <1>6, RemovalsLead
<1> DEFINE Left(i) == {e \in LogRecs : e.height \notin n + 1..n + i}
           S == {i \in 0..m : LogTells(r[i], Filtered(p, Left(i)))}
<1>8. 0 \in S
  <2>1. \A k \in DOMAIN p : p[k] \in Left(0)
    BY <1>2, <1>5
  <2>2. Filtered(p, Left(0)) = p
    BY <1>5, <2>1, FilteredWhole
  <2>3. r[0] = l
    BY <1>7 DEF RemovalsTrace
  <2> QED BY <1>2, <1>4, <2>2, <2>3
<1>9. ASSUME NEW i \in 1..m, i - 1 \in S PROVE i \in S
  <2>1. PICK j : j = n + i
    OBVIOUS
  <2>2. j \in 1..Len(c) /\ j \in Nat /\ q[i] = j
    BY <1>2, <2>1
  <2>3. r[i] = RemoveByBlock(r[i - 1], j)
    BY <1>2, <1>7, <2>2 DEF RemovalsTrace
  <2>4. PICK s \in Seq(LogRecs) : s = Filtered(p, Left(i - 1)) /\ LogTells(r[i - 1], s)
    BY <1>5, <1>9, FilteredProperties
  <2>5. LogTells(RemoveByBlock(r[i - 1], j), Filtered(s, OtherLogs(j)))
    BY <2>2, <2>4, RemovalTells
  <2>6. Filtered(s, OtherLogs(j)) = Filtered(p, Left(i - 1) \cap OtherLogs(j))
    BY <1>5, <2>4, FilteredTwice
  <2>7. Left(i - 1) \cap OtherLogs(j) = Left(i)
    <3>1. \A e \in LogRecs : e.height \in Nat
      BY DEF LogRecs
    <3>2. \A h \in Nat : (h \notin n + 1..n + (i - 1) /\ h # j) <=> h \notin n + 1..n + i
      BY <1>2, <2>1
    <3> QED BY <3>1, <3>2 DEF OtherLogs
  <2>8. LogTells(r[i], Filtered(p, Left(i)))
    BY <2>3, <2>5, <2>6, <2>7
  <2> QED BY <2>8
<1>10. m \in S
  <2> HIDE DEF S
  <2>1. \A i \in 0..m : i \in S
    BY <1>2, <1>8, <1>9, StepByStep
  <2> QED BY <1>2, <2>1
<1>11. Filtered(p, Left(m)) = Filtered(p, LogsTo(n))
  <2>1. \A h \in 1..Len(c) : h \notin n + 1..n + m <=> h <= n
    BY <1>1, <1>2
  <2>2. \A k \in DOMAIN p : p[k] \in Left(m) <=> p[k] \in LogsTo(n)
    BY <1>5, <2>1 DEF LogsTo
  <2> QED BY <2>2, FilteredSame
<1>12. Filtered(p, LogsTo(n)) = LogsOn(SubSeq(c, 1, n))
  BY <1>4, LogsUpTo
<1> QED BY <1>1, <1>2, <1>7, <1>10, <1>11, <1>12

\* The logs after a step of the chain.
LEMMA LogsGrow ==
    ASSUME node \in Nodes, chain \in Chains, Once(chain), NEW n, NEW b, NEW new, Grown(n, b, new),
           NEW l, LogTells(l, LogsOn(chain))
    PROVE  LogTells(LogBlocks(FoldLeft(RemoveByBlock, l, NewHeights(n, chain)), new, NewHeights(n, new)), LogsOn(new))
<1>1. /\ new \in Chains /\ Len(new) > n /\ Upto(new, n) = Upto(chain, n) /\ n \in 0..Len(chain)
  BY GrownTypes DEF Grown
<1>2. chain \in Seq(Seq(Txs)) /\ new \in Seq(Seq(Txs)) /\ n \in 0..Len(new)
  BY <1>1, ChainsOfTxs, ChainTypes
<1>3. PICK m : m = FoldLeft(RemoveByBlock, l, NewHeights(n, chain))
  OBVIOUS
<1>4. LogTells(m, LogsOn(SubSeq(chain, 1, n)))
  BY <1>1, <1>2, <1>3, RemovalsTell
<1>5. LogTells(m, LogsOn(SubSeq(new, 1, n)))
  BY <1>1, <1>4 DEF Upto
<1>6. LogTells(LogBlocks(m, new, NewHeights(n, new)), LogsOn(new))
  BY <1>2, <1>5, LogBlocksTell
<1> QED BY <1>3, <1>6

LogsFollow == "logs" \in node.with => LogTells(logs, LogsOn(chain))

LEMMA LogsSay ==
    ASSUME node \in Nodes, chain \in Chains, LogsFollow
    PROVE  LogsTellTheChain
<1> SUFFICES ASSUME "logs" \in node.with, LogTells(logs, LogsOn(chain)) PROVE LogsTellTheChain
  BY DEF LogsFollow, LogsTellTheChain
<1>1. chain \in Seq(Seq(Txs)) /\ Len(chain) \in Nat /\ DOMAIN chain = 1..Len(chain)
  BY ChainsOfTxs, ChainTypes
<1>2. PICK q \in Seq(LogRecs) : q = LogsOn(chain) /\ \A k \in DOMAIN q : q[k].height \in 1..Len(chain)
  BY <1>1, LogsOnTypes
<1>3. \A t \in Txs : logs.byTx[t] = OfTx(q, t)
  BY <1>2, ListsOfLogs DEF LogTells
<1>4. \A x \in Labels : logs.byLabel[x] = Labelled(q, x)
  BY <1>2, ListsOfLogs DEF LogTells
<1>5. ASSUME NEW h \in DOMAIN chain PROVE At(logs.byBlock, h) = AtHeight(q, h)
  <2>1. h \in Nat
    BY <1>1
  <2> QED BY <1>2, <2>1, ListsOfLogs DEF LogTells
<1>6. ASSUME NEW h \in DOMAIN logs.byBlock PROVE h \in DOMAIN chain
  <2>1. h \in Nat /\ logs.byBlock[h] # <<>> /\ At(logs.byBlock, h) = logs.byBlock[h]
    BY <1>6 DEF LogTells, LogStores, At
  <2>2. PICK s \in Seq(LogRecs) : s = Filtered(q, HeightLogs(h)) /\ s # <<>>
           /\ \A k \in DOMAIN s : \E i \in DOMAIN q : s[k] = q[i] /\ q[i] \in HeightLogs(h)
    <3>1. PICK s : s = Filtered(q, HeightLogs(h))
      OBVIOUS
    <3>2. s # <<>>
      BY <1>2, <2>1, <3>1 DEF LogTells
    <3> QED BY <3>1, <3>2, FilteredProperties
  <2>3. 1 \in DOMAIN s
    BY <2>2, EmptySeq, LenProperties
  <2>4. PICK i \in DOMAIN q : q[i] \in HeightLogs(h)
    BY <2>2, <2>3
  <2>5. h = q[i].height
    BY <2>4 DEF HeightLogs
  <2> QED BY <1>1, <1>2, <2>5
<1>7. logs.count = Len(q)
  BY <1>2 DEF LogTells
<1> QED BY <1>2, <1>3, <1>4, <1>5, <1>6, <1>7 DEF LogsTellTheChain

-------------------------------------------------------------------------------
(* The index of transactions: its types, and taking one out.                 *)

ChangeRecs == [state : States, tx : Txs, height : Nat]
Indexes == [txs : UNION {[D -> Nat] : D \in SUBSET Txs},
            bySender : [Senders -> Seq(Txs)], byState : [States -> Seq(Txs)],
            byHeight : UNION {[D -> Seq(Txs)] : D \in SUBSET Nat}, from : Nat, to : Nat,
            changes : Seq(ChangeRecs), changesByState : [States -> Seq(ChangeRecs)],
            changesByTx : [Txs -> Seq(ChangeRecs)]]
Held(i) == DOMAIN i.txs

LEMMA IndexTypes ==
    ASSUME NEW i \in Indexes
    PROVE  /\ Held(i) \subseteq Txs /\ (\A t \in Held(i) : i.txs[t] \in Nat) /\ i.txs = [t \in Held(i) |-> i.txs[t]]
           /\ i.bySender \in [Senders -> Seq(Txs)] /\ i.byState \in [States -> Seq(Txs)]
           /\ DOMAIN i.byHeight \subseteq Nat /\ (\A h \in DOMAIN i.byHeight : i.byHeight[h] \in Seq(Txs))
           /\ i.byHeight = [h \in DOMAIN i.byHeight |-> i.byHeight[h]]
           /\ (\A h : At(i.byHeight, h) \in Seq(Txs)) /\ i.from \in Nat /\ i.to \in Nat
           /\ i.changes \in Seq(ChangeRecs) /\ i.changesByState \in [States -> Seq(ChangeRecs)]
           /\ i.changesByTx \in [Txs -> Seq(ChangeRecs)]
           /\ i = [txs |-> i.txs, bySender |-> i.bySender, byState |-> i.byState, byHeight |-> i.byHeight,
                   from |-> i.from, to |-> i.to, changes |-> i.changes, changesByState |-> i.changesByState,
                   changesByTx |-> i.changesByTx]
<1>1. PICK D \in SUBSET Txs : i.txs \in [D -> Nat]
  BY DEF Indexes
<1>2. PICK E \in SUBSET Nat : i.byHeight \in [E -> Seq(Txs)]
  BY DEF Indexes
<1>3. \A h : At(i.byHeight, h) \in Seq(Txs)
  BY <1>2, EmptySeq DEF At
<1>4. /\ i.bySender \in [Senders -> Seq(Txs)] /\ i.byState \in [States -> Seq(Txs)] /\ i.from \in Nat /\ i.to \in Nat
      /\ i.changes \in Seq(ChangeRecs) /\ i.changesByState \in [States -> Seq(ChangeRecs)]
      /\ i.changesByTx \in [Txs -> Seq(ChangeRecs)]
      /\ i = [txs |-> i.txs, bySender |-> i.bySender, byState |-> i.byState, byHeight |-> i.byHeight,
              from |-> i.from, to |-> i.to, changes |-> i.changes, changesByState |-> i.changesByState,
              changesByTx |-> i.changesByTx]
  BY DEF Indexes
<1>5. Held(i) \subseteq Txs /\ (\A t \in Held(i) : i.txs[t] \in Nat) /\ i.txs = [t \in Held(i) |-> i.txs[t]]
  BY <1>1 DEF Held
<1>6. /\ DOMAIN i.byHeight \subseteq Nat /\ (\A h \in DOMAIN i.byHeight : i.byHeight[h] \in Seq(Txs))
      /\ i.byHeight = [h \in DOMAIN i.byHeight |-> i.byHeight[h]]
  BY <1>2
<1> QED BY <1>3, <1>4, <1>5, <1>6

\* What an index of transactions is made of, the changes left as they are.
SameChanges(i, j) ==
    /\ j.changes = i.changes /\ j.changesByState = i.changesByState /\ j.changesByTx = i.changesByTx
SameTxs(i, j) ==
    /\ j.txs = i.txs /\ j.bySender = i.bySender /\ j.byState = i.byState /\ j.byHeight = i.byHeight
    /\ j.from = i.from /\ j.to = i.to

LEMMA IndexMade ==
    ASSUME NEW i \in Indexes, NEW j, SameChanges(i, j),
           j = [txs |-> j.txs, bySender |-> j.bySender, byState |-> j.byState, byHeight |-> j.byHeight,
                from |-> j.from, to |-> j.to, changes |-> j.changes, changesByState |-> j.changesByState,
                changesByTx |-> j.changesByTx],
           DOMAIN j.txs \subseteq Txs, \A t \in DOMAIN j.txs : j.txs[t] \in Nat, j.txs = [t \in DOMAIN j.txs |-> j.txs[t]],
           j.bySender \in [Senders -> Seq(Txs)], j.byState \in [States -> Seq(Txs)],
           DOMAIN j.byHeight \subseteq Nat, \A h \in DOMAIN j.byHeight : j.byHeight[h] \in Seq(Txs),
           j.byHeight = [h \in DOMAIN j.byHeight |-> j.byHeight[h]], j.from \in Nat, j.to \in Nat
    PROVE  j \in Indexes
<1>1. j.txs \in [DOMAIN j.txs -> Nat] /\ j.byHeight \in [DOMAIN j.byHeight -> Seq(Txs)]
  OBVIOUS
<1>2. j.txs \in UNION {[D -> Nat] : D \in SUBSET Txs} /\ j.byHeight \in UNION {[D -> Seq(Txs)] : D \in SUBSET Nat}
  BY <1>1
<1>3. j.changes \in Seq(ChangeRecs) /\ j.changesByState \in [States -> Seq(ChangeRecs)] /\ j.changesByTx \in [Txs -> Seq(ChangeRecs)]
  BY IndexTypes DEF SameChanges
<1> QED BY <1>2, <1>3 DEF Indexes

\* removeTx: the type of what it leaves, and what it leaves.
LEMMA TxRemoved ==
    ASSUME NEW i \in Indexes, NEW t \in Txs, NEW j, j = RemoveTx(i, t)
    PROVE  /\ j \in Indexes /\ SameChanges(i, j) /\ j.from = i.from /\ j.to = i.to
           /\ Held(j) = Held(i) \ {t} /\ \A u \in Held(j) : j.txs[u] = i.txs[u]
           /\ t \in Held(i) =>
                /\ \A s \in Senders : j.bySender[s] = IF s = Sender[t] THEN Without(i.bySender[s], t) ELSE i.bySender[s]
                /\ \A s \in States : j.byState[s] = IF s \in Touches[t] THEN Without(i.byState[s], t) ELSE i.byState[s]
                /\ \A h : At(j.byHeight, h) = IF h = i.txs[t] /\ h \in DOMAIN i.byHeight
                                              THEN Without(At(i.byHeight, h), t) ELSE At(i.byHeight, h)
<1>1. CASE t \notin Held(i)
  <2>1. j = i
    BY <1>1 DEF RemoveTx, Held
  <2>2. Held(i) = Held(i) \ {t}
    BY <1>1
  <2> QED BY <1>1, <2>1, <2>2 DEF SameChanges
<1>2. CASE t \in Held(i)
  <2>1. j = [i EXCEPT !.txs = Drop(@, {t}), !.bySender[Sender[t]] = Without(@, t),
                      !.byState = [s \in States |-> IF s \in Touches[t] THEN Without(@[s], t) ELSE @[s]],
                      !.byHeight[i.txs[t]] = Without(@, t)]
    BY <1>2 DEF RemoveTx, Held
  <2>2. /\ j.txs = [u \in Held(i) \ {t} |-> i.txs[u]]
        /\ j.bySender = [i.bySender EXCEPT ![Sender[t]] = Without(@, t)]
        /\ j.byState = [s \in States |-> IF s \in Touches[t] THEN Without(i.byState[s], t) ELSE i.byState[s]]
        /\ j.byHeight = [i.byHeight EXCEPT ![i.txs[t]] = Without(@, t)]
        /\ j.from = i.from /\ j.to = i.to /\ SameChanges(i, j)
        /\ j = [txs |-> j.txs, bySender |-> j.bySender, byState |-> j.byState, byHeight |-> j.byHeight,
                from |-> j.from, to |-> j.to, changes |-> j.changes, changesByState |-> j.changesByState,
                changesByTx |-> j.changesByTx]
    <3>1. i = [txs |-> i.txs, bySender |-> i.bySender, byState |-> i.byState, byHeight |-> i.byHeight,
               from |-> i.from, to |-> i.to, changes |-> i.changes, changesByState |-> i.changesByState,
               changesByTx |-> i.changesByTx]
      BY IndexTypes
    <3> QED BY <2>1, <3>1 DEF Drop, Held, SameChanges
  <2>3. /\ Sender[t] \in Senders /\ i.bySender \in [Senders -> Seq(Txs)] /\ i.byState \in [States -> Seq(Txs)]
        /\ DOMAIN i.byHeight \subseteq Nat /\ \A h \in DOMAIN i.byHeight : i.byHeight[h] \in Seq(Txs)
    BY TxTypes, IndexTypes
  <2>4. \A q \in Seq(Txs) : Without(q, t) \in Seq(Txs)
    BY WithoutOne DEF Without
  <2>5. j.bySender = [s \in Senders |-> IF s = Sender[t] THEN Without(i.bySender[s], t) ELSE i.bySender[s]]
    BY <2>2, <2>3
  <2>6. DOMAIN j.byHeight = DOMAIN i.byHeight
        /\ j.byHeight = [h \in DOMAIN i.byHeight |-> IF h = i.txs[t] THEN Without(i.byHeight[h], t) ELSE i.byHeight[h]]
    BY <2>2
  <2>7. \A h : At(j.byHeight, h) = IF h = i.txs[t] /\ h \in DOMAIN i.byHeight
                                   THEN Without(At(i.byHeight, h), t) ELSE At(i.byHeight, h)
    BY <2>6 DEF At
  <2>8. j.bySender \in [Senders -> Seq(Txs)] /\ j.byState \in [States -> Seq(Txs)]
    BY <2>2, <2>3, <2>4, <2>5
  <2>9. \A h \in DOMAIN j.byHeight : j.byHeight[h] \in Seq(Txs)
    BY <2>3, <2>4, <2>6
  <2>10. /\ DOMAIN j.txs = Held(i) \ {t} /\ DOMAIN j.txs \subseteq Txs /\ j.txs = [u \in DOMAIN j.txs |-> j.txs[u]]
         /\ \A u \in DOMAIN j.txs : j.txs[u] = i.txs[u] /\ j.txs[u] \in Nat
    <3>1. DOMAIN j.txs = Held(i) \ {t} /\ j.txs = [u \in DOMAIN j.txs |-> j.txs[u]] /\ \A u \in DOMAIN j.txs : j.txs[u] = i.txs[u]
      BY <2>2
    <3>2. Held(i) \subseteq Txs /\ \A u \in Held(i) : i.txs[u] \in Nat
      BY IndexTypes
    <3> QED BY <3>1, <3>2
  <2>11. j.from \in Nat /\ j.to \in Nat /\ DOMAIN j.byHeight \subseteq Nat /\ j.byHeight = [h \in DOMAIN j.byHeight |-> j.byHeight[h]]
    <3>1. i.from \in Nat /\ i.to \in Nat
      BY IndexTypes
    <3>2. DOMAIN j.byHeight \subseteq Nat
      BY ONLY <2>3, <2>6
    <3>3. j.byHeight = [h \in DOMAIN j.byHeight |-> j.byHeight[h]]
      BY ONLY <2>6
    <3> QED BY <2>2, <3>1, <3>2, <3>3
  <2>12. j \in Indexes
    BY <2>2, <2>8, <2>9, <2>10, <2>11, IndexMade
  <2> QED BY <2>2, <2>5, <2>7, <2>10, <2>12 DEF Held
<1> QED BY <1>1, <1>2

\* The lists by sender, state and height hold what the index holds.
ListsHold(i) ==
    /\ i \in Indexes /\ IsFiniteSet(Held(i))
    /\ \A s \in Senders : ToSet(i.bySender[s]) = {t \in Held(i) : Sender[t] = s}
    /\ \A s \in States : ToSet(i.byState[s]) = {t \in Held(i) : s \in Touches[t]}
    /\ \A h \in Nat : ToSet(At(i.byHeight, h)) = {t \in Held(i) : i.txs[t] = h}

LEMMA NothingIndexed == NoIndexer \in Indexes /\ ListsHold(NoIndexer) /\ Held(NoIndexer) = {} /\ NoIndexer.changes = <<>>
<1>1. PICK i : i = NoIndexer
  OBVIOUS
<1>2. /\ i.txs = [t \in {} |-> 0] /\ i.bySender = [s \in Senders |-> <<>>] /\ i.byState = [s \in States |-> <<>>]
      /\ i.byHeight = [h \in {} |-> <<>>] /\ i.from = 0 /\ i.to = 0 /\ i.changes = <<>>
      /\ i.changesByState = [s \in States |-> <<>>] /\ i.changesByTx = [t \in Txs |-> <<>>]
      /\ i = [txs |-> i.txs, bySender |-> i.bySender, byState |-> i.byState, byHeight |-> i.byHeight,
              from |-> i.from, to |-> i.to, changes |-> i.changes, changesByState |-> i.changesByState,
              changesByTx |-> i.changesByTx]
  BY <1>1 DEF NoIndexer
<1>3. <<>> \in Seq(Txs) /\ <<>> \in Seq(ChangeRecs)
  BY EmptySeq
<1>4. i.txs \in [{} -> Nat] /\ i.byHeight \in [{} -> Seq(Txs)] /\ {} \in SUBSET Nat /\ {} \in SUBSET Txs
  BY <1>2
<1>5. i.txs \in UNION {[D -> Nat] : D \in SUBSET Txs} /\ i.byHeight \in UNION {[D -> Seq(Txs)] : D \in SUBSET Nat}
  BY <1>4
<1>6. /\ i.bySender \in [Senders -> Seq(Txs)] /\ i.byState \in [States -> Seq(Txs)] /\ i.from \in Nat /\ i.to \in Nat
      /\ i.changes \in Seq(ChangeRecs) /\ i.changesByState \in [States -> Seq(ChangeRecs)]
      /\ i.changesByTx \in [Txs -> Seq(ChangeRecs)]
  BY <1>2, <1>3
<1>7. i \in Indexes
  BY <1>2, <1>5, <1>6 DEF Indexes
<1>8. Held(i) = {} /\ IsFiniteSet({})
  BY <1>2, FS_EmptySet DEF Held
<1>9. ToSet(<<>>) = {}
  BY DEF ToSet
<1>10. \A h : At(i.byHeight, h) = <<>>
  BY <1>2 DEF At
<1> QED BY <1>1, <1>2, <1>7, <1>8, <1>9, <1>10 DEF ListsHold

LEMMA ListsAfterRemoval ==
    ASSUME NEW i, ListsHold(i), NEW t \in Txs, NEW j, j = RemoveTx(i, t)
    PROVE  /\ ListsHold(j) /\ SameChanges(i, j) /\ j.from = i.from /\ j.to = i.to
           /\ Held(j) = Held(i) \ {t} /\ (\A u \in Held(j) : j.txs[u] = i.txs[u])
           /\ \A h \in Nat : At(j.byHeight, h) = IF t \in Held(i) /\ h = i.txs[t]
                                                 THEN Without(At(i.byHeight, h), t) ELSE At(i.byHeight, h)
<1>1. /\ i \in Indexes /\ j \in Indexes /\ SameChanges(i, j) /\ j.from = i.from /\ j.to = i.to
      /\ Held(j) = Held(i) \ {t} /\ \A u \in Held(j) : j.txs[u] = i.txs[u]
  BY TxRemoved DEF ListsHold
<1>2. \A q \in Seq(Txs) : ToSet(Without(q, t)) = ToSet(q) \ {t}
  BY WithoutOne DEF Without
<1>3. IsFiniteSet(Held(j))
  BY <1>1, FS_Subset DEF ListsHold
<1>4. CASE t \in Held(i)
  <2>1. i.txs[t] \in DOMAIN i.byHeight
    <3>1. i.txs[t] \in Nat
      BY <1>1, <1>4, IndexTypes
    <3>2. t \in ToSet(At(i.byHeight, i.txs[t]))
      BY <1>4, <3>1 DEF ListsHold
    <3>3. ToSet(<<>>) = {}
      BY DEF ToSet
    <3> QED BY <3>2, <3>3 DEF At
  <2>2. /\ \A s \in Senders : j.bySender[s] = IF s = Sender[t] THEN Without(i.bySender[s], t) ELSE i.bySender[s]
        /\ \A s \in States : j.byState[s] = IF s \in Touches[t] THEN Without(i.byState[s], t) ELSE i.byState[s]
        /\ \A h : At(j.byHeight, h) = IF h = i.txs[t] THEN Without(At(i.byHeight, h), t) ELSE At(i.byHeight, h)
    BY <1>1, <1>4, <2>1, TxRemoved
  <2>3. ASSUME NEW s \in Senders PROVE ToSet(j.bySender[s]) = {u \in Held(j) : Sender[u] = s}
    <3>1. i.bySender[s] \in Seq(Txs) /\ ToSet(i.bySender[s]) = {u \in Held(i) : Sender[u] = s}
      BY <1>1, IndexTypes DEF ListsHold
    <3>2. ToSet(Without(i.bySender[s], t)) = ToSet(i.bySender[s]) \ {t}
      BY <1>2, <3>1
    <3> QED BY <1>1, <2>2, <3>1, <3>2
  <2>4. ASSUME NEW s \in States PROVE ToSet(j.byState[s]) = {u \in Held(j) : s \in Touches[u]}
    <3>1. i.byState[s] \in Seq(Txs) /\ ToSet(i.byState[s]) = {u \in Held(i) : s \in Touches[u]}
      BY <1>1, IndexTypes DEF ListsHold
    <3>2. ToSet(Without(i.byState[s], t)) = ToSet(i.byState[s]) \ {t}
      BY <1>2, <3>1
    <3> QED BY <1>1, <2>2, <3>1, <3>2
  <2>5. ASSUME NEW h \in Nat PROVE ToSet(At(j.byHeight, h)) = {u \in Held(j) : j.txs[u] = h}
    <3>1. At(i.byHeight, h) \in Seq(Txs) /\ ToSet(At(i.byHeight, h)) = {u \in Held(i) : i.txs[u] = h}
      BY <1>1, IndexTypes DEF ListsHold
    <3>2. ToSet(Without(At(i.byHeight, h), t)) = ToSet(At(i.byHeight, h)) \ {t}
      BY <1>2, <3>1
    <3>3. {u \in Held(j) : j.txs[u] = h} = {u \in Held(i) : i.txs[u] = h} \ {t}
      BY <1>1
    <3> QED BY <1>1, <2>2, <3>1, <3>2, <3>3
  <2>6. ListsHold(j)
    BY <1>1, <1>3, <2>3, <2>4, <2>5 DEF ListsHold
  <2> QED BY <1>1, <1>4, <2>2, <2>6
<1>5. CASE t \notin Held(i)
  <2>1. j = i
    BY <1>5 DEF RemoveTx, Held
  <2> QED BY <1>1, <1>5, <2>1
<1> QED BY <1>4, <1>5

\* The lists of the heights below n are kept in the order of the chain c and hold its
\* newest transactions: all above the height from, none below, and at it the end of
\* the block.
EndOf(X, q, b) == \E e \in Seq(X) : b = e \o q
HoldsNewest(i, c) ==
    /\ \A t \in Held(i) : i.txs[t] \in 1..Len(c)
    /\ i.to = Len(c)
    /\ Held(i) # {} =>
         /\ i.from \in 1..Len(c)
         /\ \A h \in 1..Len(c) : h > i.from => At(i.byHeight, h) = c[h]
         /\ \A h \in 1..Len(c) : h < i.from => At(i.byHeight, h) = <<>>
         /\ At(i.byHeight, i.from) # <<>> /\ EndOf(Txs, At(i.byHeight, i.from), c[i.from])

\* No transaction is on the chain twice.
Sole(c) ==
    \A h, g \in 1..Len(c) : \A k \in DOMAIN c[h], j \in DOMAIN c[g] : c[h][k] = c[g][j] => h = g /\ k = j

\* A sequence is its head and the rest.
LEMMA HeadApart ==
    ASSUME NEW X, NEW q \in Seq(X), q # <<>>
    PROVE  /\ q = <<Head(q)>> \o Tail(q) /\ Head(q) \in X /\ Tail(q) \in Seq(X) /\ Len(Tail(q)) = Len(q) - 1
           /\ ToSet(Tail(q)) \subseteq ToSet(q) /\ Head(q) \in ToSet(q)
           /\ IsInjective(q) => IsInjective(Tail(q)) /\ Head(q) \notin ToSet(Tail(q))
<1>1. PICK n \in Nat : n = Len(q) /\ DOMAIN q = 1..n /\ n # 0
  BY EmptySeq, LenProperties
<1>2. PICK x \in X, r \in Seq(X) : x = Head(q) /\ r = Tail(q)
  BY HeadTailProperties
<1>3. Len(r) = n - 1 /\ (\A i \in 1..n - 1 : r[i] = q[i + 1]) /\ q[1] = x
  BY <1>1, <1>2, HeadTailProperties
<1>4. PICK o : o = <<x>>
  OBVIOUS
<1>5. o \in Seq(X) /\ Len(o) = 1 /\ o[1] = x
  BY <1>4
<1>6. PICK y \in Seq(X) : y = o \o r /\ Len(y) = n
  <2>1. o \o r \in Seq(X) /\ Len(o \o r) = 1 + (n - 1)
    <3>1. o \o r \in Seq(X) /\ Len(o \o r) = Len(o) + Len(r)
      BY <1>5, ConcatProperties
    <3> QED BY <1>3, <1>5, <3>1
  <2>2. 1 + (n - 1) = n
    BY <1>1
  <2> QED BY <2>1, <2>2
<1>7. ASSUME NEW i \in 1..n PROVE y[i] = q[i]
  <2>1. y[i] = IF i <= 1 THEN o[i] ELSE r[i - 1]
    BY <1>3, <1>5, <1>6, ConcatProperties
  <2>2. i # 1 => i - 1 \in 1..n - 1 /\ ~(i <= 1) /\ (i - 1) + 1 = i
    BY <1>1
  <2> QED BY <1>3, <1>5, <2>1, <2>2
<1>8. y = q
  BY <1>1, <1>6, <1>7, SeqEqual
<1>9. ToSet(r) \subseteq ToSet(q) /\ (IsInjective(q) => IsInjective(r))
  BY <1>2, WithoutFirst
<1>10. 1 \in DOMAIN q
  BY <1>1
<1>11. x \in ToSet(q)
  BY <1>3, <1>10 DEF ToSet
<1>12. ASSUME IsInjective(q), x \in ToSet(r) PROVE FALSE
  <2>1. DOMAIN r = 1..n - 1
    BY <1>3, LenProperties
  <2>2. PICK i \in 1..n - 1 : r[i] = x
    BY <1>12, <2>1 DEF ToSet
  <2>3. q[i + 1] = q[1] /\ i + 1 \in 1..n /\ i + 1 # 1
    BY <1>3, <2>2
  <2> QED BY <1>1, <1>10, <1>12, <2>3 DEF IsInjective
<1> QED BY <1>1, <1>2, <1>3, <1>4, <1>6, <1>8, <1>9, <1>11, <1>12

\* A sequence that ends another.
LEMMA EndFacts ==
    ASSUME NEW X, NEW b \in Seq(X), NEW q \in Seq(X), EndOf(X, q, b)
    PROVE  /\ ToSet(q) \subseteq ToSet(b) /\ (IsInjective(b) => IsInjective(q))
           /\ \A k \in DOMAIN b : IsInjective(b) /\ b[k] \in ToSet(q) => \A j \in DOMAIN b : j >= k => b[j] \in ToSet(q)
           /\ \A t \in X : EndOf(X, Append(q, t), Append(b, t))
           /\ q # <<>> => EndOf(X, Tail(q), b) /\ Tail(q) \in Seq(X)
<1>1. PICK e \in Seq(X) : b = e \o q
  BY DEF EndOf
<1>2. PICK m \in Nat, n \in Nat : m = Len(e) /\ n = Len(q) /\ DOMAIN e = 1..m /\ DOMAIN q = 1..n
  BY LenProperties
<1>3. DOMAIN b = 1..m + n /\ Len(b) = m + n
  BY <1>1, <1>2, ConcatProperties, LenProperties
<1>4. \A k \in 1..m + n : b[k] = IF k <= m THEN e[k] ELSE q[k - m]
  BY <1>1, <1>2, ConcatProperties
<1>5. ASSUME NEW k \in 1..n PROVE m + k \in 1..m + n /\ b[m + k] = q[k]
  <2>1. m + k \in 1..m + n /\ ~(m + k <= m) /\ (m + k) - m = k
    BY <1>2
  <2> QED BY <1>4, <2>1
<1>6. ToSet(b) = {b[k] : k \in 1..m + n} /\ ToSet(q) = {q[k] : k \in 1..n}
  BY <1>2, <1>3 DEF ToSet
<1>7. ToSet(q) \subseteq ToSet(b)
  BY <1>5, <1>6
<1>8. ASSUME IsInjective(b) PROVE IsInjective(q)
  <2>1. \A j, k \in 1..m + n : b[j] = b[k] => j = k
    BY <1>3, <1>8 DEF IsInjective
  <2>2. ASSUME NEW j \in 1..n, NEW k \in 1..n, q[j] = q[k] PROVE j = k
    <3>1. m + j = m + k
      BY <1>5, <2>1, <2>2
    <3> QED BY <3>1
  <2> QED BY <1>2, <2>2 DEF IsInjective
<1>9. ASSUME NEW k \in DOMAIN b, IsInjective(b), b[k] \in ToSet(q), NEW j \in DOMAIN b, j >= k PROVE b[j] \in ToSet(q)
  <2>1. PICK x \in 1..n : q[x] = b[k]
    BY <1>6, <1>9
  <2>2. m + x = k
    BY <1>3, <1>5, <1>9, <2>1 DEF IsInjective
  <2>3. j - m \in 1..n /\ ~(j <= m) /\ j \in 1..m + n
    BY <1>3, <1>9, <2>2
  <2> QED BY <1>4, <1>6, <2>3
<1>10. ASSUME NEW t \in X PROVE EndOf(X, Append(q, t), Append(b, t))
  <2>1. e \o Append(q, t) = Append(e \o q, t)
    BY ConcatAppend
  <2> QED BY <1>1, <2>1 DEF EndOf
<1>11. ASSUME q # <<>> PROVE EndOf(X, Tail(q), b) /\ Tail(q) \in Seq(X)
  <2>1. PICK r \in Seq(X) : r = Tail(q)
    BY <1>11, HeadTailProperties
  <2>2. PICK x \in X : x = Head(q)
    BY <1>11, HeadTailProperties
  <2>3. q = <<x>> \o r
    BY <1>11, <2>1, <2>2, HeadApart
  <2>4. <<x>> \in Seq(X) /\ e \o <<x>> \in Seq(X)
    BY ConcatProperties
  <2>5. e \o (<<x>> \o r) = (e \o <<x>>) \o r
    BY <2>4, ConcatAssociative
  <2> QED BY <1>1, <2>1, <2>3, <2>4, <2>5 DEF EndOf
<1> QED BY <1>7, <1>8, <1>9, <1>10, <1>11

-------------------------------------------------------------------------------
(* The oldest transaction leaves.                                            *)

LEMMA WithoutHead ==
    ASSUME NEW X, NEW q \in Seq(X), q # <<>>, IsInjective(q)
    PROVE  Without(q, Head(q)) = Tail(q)
<1>1. PICK x \in X, r \in Seq(X) : /\ x = Head(q) /\ r = Tail(q) /\ q = <<x>> \o r /\ x \notin ToSet(r)
                                      /\ ToSet(r) \subseteq ToSet(q)
  BY HeadApart
<1>2. PICK S : S = ToSet(q) \ {x}
  OBVIOUS
<1>3. PICK o : o = <<x>>
  OBVIOUS
<1>4. o \in Seq(X) /\ \A i \in DOMAIN o : o[i] \notin S
  BY <1>2, <1>3
<1>5. \A i \in DOMAIN r : r[i] \in S
  <2>1. \A i \in DOMAIN r : r[i] \in ToSet(r)
    BY DEF ToSet
  <2> QED BY <1>1, <1>2, <2>1
<1>6. Filtered(o, S) = <<>> /\ Filtered(r, S) = r
  BY <1>4, <1>5, FilteredWhole
<1>7. Filtered(o \o r, S) = Filtered(o, S) \o Filtered(r, S)
  BY <1>4, FilteredConcat
<1>8. <<>> \o r = r
  BY ConcatEmptySeq
<1>9. Filtered(q, S) = r
  BY <1>1, <1>3, <1>6, <1>7, <1>8
<1> QED BY <1>1, <1>2, <1>9 DEF Without

\* evictOldestTx, apart from what it removes: the heights below the new lowest go.
NextFrom(left) ==
    LET held == {h \in left.from..left.to : At(left.byHeight, h) # <<>>}
    IN  IF held # {} THEN CHOOSE h \in held : \A g \in held : h <= g
        ELSE IF left.from <= left.to THEN left.to + 1 ELSE left.from

FromNext(left) == [left EXCEPT !.byHeight = Drop(@, left.from..NextFrom(left) - 1), !.from = NextFrom(left)]

LEMMA NextFromIs ==
    ASSUME NEW left \in Indexes
    PROVE  /\ NextFrom(left) \in Nat /\ left.from <= NextFrom(left)
           /\ \A h \in left.from..NextFrom(left) - 1 : h <= left.to => At(left.byHeight, h) = <<>>
           /\ (\E h \in left.from..left.to : At(left.byHeight, h) # <<>>)
                => NextFrom(left) \in left.from..left.to /\ At(left.byHeight, NextFrom(left)) # <<>>
<1>1. PICK f \in Nat, t \in Nat : f = left.from /\ t = left.to
  BY IndexTypes
<1>2. PICK held : held = {h \in f..t : At(left.byHeight, h) # <<>>}
  OBVIOUS
<1>3. NextFrom(left) = IF held # {} THEN CHOOSE h \in held : \A g \in held : h <= g ELSE IF f <= t THEN t + 1 ELSE f
  BY <1>1, <1>2 DEF NextFrom
<1>4. CASE held # {}
  <2>1. held \in SUBSET Nat
    BY <1>2
  <2>2. \E h \in held : \A g \in held : h <= g
    BY <1>4, <2>1, LeastElement
  <2>3. PICK m \in held : m = NextFrom(left) /\ \A g \in held : m <= g
    BY <1>3, <1>4, <2>2
  <2>4. \A h \in f..m - 1 : h <= t => h \in f..t /\ h \notin held
    BY <1>1, <1>2, <2>3
  <2> QED BY <1>1, <1>2, <2>3, <2>4
<1>5. CASE held = {}
  <2>1. NextFrom(left) \in Nat /\ f <= NextFrom(left)
    BY <1>1, <1>3, <1>5
  <2>2. \A h \in f..t : At(left.byHeight, h) = <<>>
    BY <1>2, <1>5
  <2>3. \A h \in f..NextFrom(left) - 1 : h <= t => h \in f..t
    BY <1>1, <2>1
  <2> QED BY <1>1, <2>1, <2>2, <2>3
<1> QED BY <1>4, <1>5

LEMMA OldestOut ==
    ASSUME NEW i \in Indexes, i.from # 0, NEW left,
           left = IF At(i.byHeight, i.from) = <<>> THEN i ELSE RemoveTx(i, Head(i.byHeight[i.from])),
           NEW j, j = EvictOldestTx(i)
    PROVE  /\ left \in Indexes /\ j \in Indexes /\ SameChanges(left, j) /\ SameChanges(i, j)
           /\ j.txs = left.txs /\ j.bySender = left.bySender /\ j.byState = left.byState
           /\ j.from = NextFrom(left) /\ j.to = left.to
           /\ \A h : At(j.byHeight, h) = IF h \in left.from..NextFrom(left) - 1 THEN <<>> ELSE At(left.byHeight, h)
<1>1. left \in Indexes /\ SameChanges(i, left)
  <2>1. CASE At(i.byHeight, i.from) = <<>>
    BY <2>1 DEF SameChanges
  <2>2. CASE At(i.byHeight, i.from) # <<>>
    <3>1. i.byHeight[i.from] = At(i.byHeight, i.from) /\ At(i.byHeight, i.from) \in Seq(Txs)
      BY <2>2, IndexTypes DEF At
    <3>2. Head(i.byHeight[i.from]) \in Txs
      BY <2>2, <3>1, HeadApart
    <3> QED BY <2>2, <3>2, TxRemoved
  <2> QED BY <2>1, <2>2
<1>2. PICK m \in Nat : m = NextFrom(left)
  BY <1>1, NextFromIs
<1>3. j = [left EXCEPT !.byHeight = Drop(@, left.from..m - 1), !.from = m]
  <2>1. EvictOldestTx(i) = FromNext(IF At(i.byHeight, i.from) = <<>> THEN i ELSE RemoveTx(i, Head(i.byHeight[i.from])))
    BY DEF EvictOldestTx, FromNext, NextFrom
  <2>2. j = FromNext(left)
    BY <2>1
  <2> QED BY <1>2, <2>2 DEF FromNext
<1>4. left = [txs |-> left.txs, bySender |-> left.bySender, byState |-> left.byState, byHeight |-> left.byHeight,
              from |-> left.from, to |-> left.to, changes |-> left.changes, changesByState |-> left.changesByState,
              changesByTx |-> left.changesByTx]
  BY <1>1, IndexTypes
<1>5. /\ j.txs = left.txs /\ j.bySender = left.bySender /\ j.byState = left.byState /\ j.to = left.to /\ j.from = m
      /\ j.byHeight = Drop(left.byHeight, left.from..m - 1) /\ SameChanges(left, j)
      /\ j = [txs |-> j.txs, bySender |-> j.bySender, byState |-> j.byState, byHeight |-> j.byHeight,
              from |-> j.from, to |-> j.to, changes |-> j.changes, changesByState |-> j.changesByState,
              changesByTx |-> j.changesByTx]
  BY <1>3, <1>4 DEF SameChanges
<1>6. /\ DOMAIN j.byHeight \subseteq DOMAIN left.byHeight
      /\ \A h \in DOMAIN j.byHeight : j.byHeight[h] = left.byHeight[h]
      /\ j.byHeight = [h \in DOMAIN j.byHeight |-> j.byHeight[h]]
  BY <1>5 DEF Drop
<1>7. \A h : At(j.byHeight, h) = IF h \in left.from..m - 1 THEN <<>> ELSE At(left.byHeight, h)
  BY <1>5 DEF At, Drop
<1>8. j \in Indexes
  <2>1. /\ DOMAIN left.txs \subseteq Txs /\ (\A t \in DOMAIN left.txs : left.txs[t] \in Nat) /\ left.txs = [t \in DOMAIN left.txs |-> left.txs[t]]
        /\ left.bySender \in [Senders -> Seq(Txs)] /\ left.byState \in [States -> Seq(Txs)]
        /\ DOMAIN left.byHeight \subseteq Nat /\ (\A h \in DOMAIN left.byHeight : left.byHeight[h] \in Seq(Txs)) /\ left.to \in Nat
    BY <1>1, IndexTypes DEF Held
  <2>2. DOMAIN j.byHeight \subseteq Nat /\ \A h \in DOMAIN j.byHeight : j.byHeight[h] \in Seq(Txs)
    BY <1>6, <2>1
  <2>3. DOMAIN j.txs \subseteq Txs /\ (\A t \in DOMAIN j.txs : j.txs[t] \in Nat) /\ j.txs = [t \in DOMAIN j.txs |-> j.txs[t]]
    BY <1>5, <2>1
  <2> QED BY <1>1, <1>2, <1>5, <1>6, <2>1, <2>2, <2>3, IndexMade
<1>9. SameChanges(i, j)
  BY <1>1, <1>5 DEF SameChanges
<1> QED BY <1>1, <1>2, <1>5, <1>7, <1>8, <1>9

\* evictOldestTx, of an index of the chain c that holds two transactions or more.
LEMMA OldestEvicted ==
    ASSUME NEW c \in Seq(Seq(Txs)), Sole(c), NEW i, ListsHold(i), HoldsNewest(i, c), Cardinality(Held(i)) >= 2,
           NEW j, j = EvictOldestTx(i)
    PROVE  /\ ListsHold(j) /\ HoldsNewest(j, c) /\ SameChanges(i, j) /\ Held(j) # {} /\ Held(j) \subseteq Held(i)
           /\ Cardinality(Held(j)) = Cardinality(Held(i)) - 1
<1>1. i \in Indexes /\ IsFiniteSet(Held(i)) /\ Cardinality(Held(i)) \in Nat /\ Held(i) \subseteq Txs
  BY IndexTypes, FS_CardinalityType DEF ListsHold
<1>2. Held(i) # {}
  <2> SUFFICES ASSUME Held(i) = {} PROVE FALSE
    OBVIOUS
  <2>1. Cardinality(Held(i)) = 0
    BY FS_EmptySet
  <2> QED BY <2>1
<1>3. /\ (\A t \in Held(i) : i.txs[t] \in 1..Len(c)) /\ i.to = Len(c) /\ i.from \in 1..Len(c)
      /\ \A h \in 1..Len(c) : h > i.from => At(i.byHeight, h) = c[h]
      /\ \A h \in 1..Len(c) : h < i.from => At(i.byHeight, h) = <<>>
      /\ At(i.byHeight, i.from) # <<>> /\ EndOf(Txs, At(i.byHeight, i.from), c[i.from])
  BY <1>2 DEF HoldsNewest
<1>4. PICK f \in 1..Len(c) : f = i.from
  BY <1>3
<1>5. PICK l \in Nat : l = Len(c) /\ \A h \in 1..l : c[h] \in Seq(Txs)
  BY Above
<1>6. PICK q \in Seq(Txs) : q = At(i.byHeight, f) /\ q = i.byHeight[f] /\ q # <<>> /\ EndOf(Txs, q, c[f]) /\ f # 0
  <2>1. PICK q : q = At(i.byHeight, f)
    OBVIOUS
  <2>2. q \in Seq(Txs)
    BY <1>1, <2>1, IndexTypes
  <2>3. q # <<>> /\ EndOf(Txs, q, c[f])
    BY <1>3, <1>4, <2>1
  <2>4. q = i.byHeight[f]
    BY <2>1, <2>3 DEF At
  <2> QED BY <1>4, <2>1, <2>2, <2>3, <2>4
<1>7. IsInjective(q)
  <2>1. c[f] \in Seq(Txs) /\ IsInjective(c[f])
    <3>1. c[f] \in Seq(Txs)
      BY <1>4, <1>5
    <3>2. \A k, h \in DOMAIN c[f] : c[f][k] = c[f][h] => k = h
      BY <1>4 DEF Sole
    <3> QED BY <3>1, <3>2 DEF IsInjective
  <2> QED BY <1>6, <2>1, EndFacts
<1>8. PICK x \in Txs : x = Head(q) /\ x \in ToSet(q) /\ Without(q, x) = Tail(q)
  BY <1>6, <1>7, HeadApart, WithoutHead
<1>9. PICK left : left = RemoveTx(i, x)
  OBVIOUS
<1>10. /\ ListsHold(left) /\ left.from = i.from /\ left.to = i.to
       /\ Held(left) = Held(i) \ {x} /\ (\A u \in Held(left) : left.txs[u] = i.txs[u])
       /\ \A h \in Nat : At(left.byHeight, h) = IF x \in Held(i) /\ h = i.txs[x]
                                                THEN Without(At(i.byHeight, h), x) ELSE At(i.byHeight, h)
  BY <1>9, ListsAfterRemoval
<1>11. x \in Held(i) /\ i.txs[x] = f
  <2>1. f \in Nat
    BY <1>4
  <2> QED BY <1>6, <1>8, <2>1 DEF ListsHold
<1>12. PICK m : m = NextFrom(left)
  OBVIOUS
<1>13. /\ j \in Indexes /\ SameChanges(i, j) /\ j.txs = left.txs /\ j.bySender = left.bySender /\ j.byState = left.byState
       /\ j.from = m /\ j.to = l
       /\ \A h : At(j.byHeight, h) = IF h \in f..m - 1 THEN <<>> ELSE At(left.byHeight, h)
  <2>1. left = IF At(i.byHeight, i.from) = <<>> THEN i ELSE RemoveTx(i, Head(i.byHeight[i.from]))
    BY <1>4, <1>6, <1>8, <1>9
  <2>2. i.from # 0
    BY <1>4, <1>6
  <2>3. /\ j \in Indexes /\ SameChanges(i, j)
        /\ j.txs = left.txs /\ j.bySender = left.bySender /\ j.byState = left.byState
        /\ j.from = NextFrom(left) /\ j.to = left.to
        /\ \A h : At(j.byHeight, h) = IF h \in left.from..NextFrom(left) - 1 THEN <<>> ELSE At(left.byHeight, h)
    BY <1>1, <2>1, <2>2, OldestOut, SMTT(60)
  <2>4. left.from = f /\ left.to = l
    BY <1>3, <1>4, <1>5, <1>10
  <2> QED BY <1>12, <2>3, <2>4
<1>14. Cardinality(Held(left)) = Cardinality(Held(i)) - 1 /\ Held(left) # {}
  <2>1. Cardinality(Held(left)) = Cardinality(Held(i)) - 1
    BY <1>1, <1>10, <1>11, FS_RemoveElement
  <2>2. ASSUME Held(left) = {} PROVE FALSE
    <3>1. Cardinality(Held(left)) = 0
      BY <2>2, FS_EmptySet
    <3> QED BY <1>1, <2>1, <3>1
  <2> QED BY <2>1, <2>2
<1>15. /\ left \in Indexes /\ m \in Nat /\ f <= m /\ (\A h \in f..m - 1 : h <= l => At(left.byHeight, h) = <<>>)
       /\ m \in f..l /\ At(left.byHeight, m) # <<>>
  <2>1. PICK u \in Held(left) : TRUE
    BY <1>14
  <2>2. left.txs[u] \in 1..l /\ left.txs[u] \in Nat
    BY <1>3, <1>5, <1>10, <2>1
  <2>3. u \in ToSet(At(left.byHeight, left.txs[u]))
    BY <1>10, <2>1, <2>2 DEF ListsHold
  <2>4. ToSet(<<>>) = {}
    BY DEF ToSet
  <2>5. At(left.byHeight, left.txs[u]) # <<>>
    BY <2>3, <2>4
  <2>6. left.txs[u] >= f
    <3> SUFFICES ASSUME left.txs[u] < f PROVE FALSE
      BY <1>4, <2>2
    <3>1. At(i.byHeight, left.txs[u]) = <<>>
      BY <1>3, <1>4, <1>5, <2>2
    <3>2. At(left.byHeight, left.txs[u]) = At(i.byHeight, left.txs[u])
      BY <1>4, <1>10, <1>11, <2>2
    <3> QED BY <2>5, <3>1, <3>2
  <2>7. left.txs[u] \in left.from..left.to
    BY <1>3, <1>4, <1>5, <1>10, <2>2, <2>6
  <2>8. left \in Indexes /\ left.from = f /\ left.to = l
    BY <1>3, <1>4, <1>5, <1>10 DEF ListsHold
  <2>9. /\ m \in Nat /\ f <= m /\ (\A h \in f..m - 1 : h <= l => At(left.byHeight, h) = <<>>)
        /\ m \in f..l /\ At(left.byHeight, m) # <<>>
    BY <1>12, <2>5, <2>7, <2>8, NextFromIs
  <2> QED BY <2>8, <2>9
<1>16. \A h \in Nat : At(j.byHeight, h) = At(left.byHeight, h)
  <2> SUFFICES ASSUME NEW h \in Nat PROVE At(j.byHeight, h) = At(left.byHeight, h)
    OBVIOUS
  <2>1. h \in f..m - 1 => h <= l
    BY <1>5, <1>15
  <2> QED BY <1>13, <1>15, <2>1
<1>17. ListsHold(j)
  <2>1. Held(j) = Held(left) /\ IsFiniteSet(Held(left))
    BY <1>10, <1>13 DEF ListsHold, Held
  <2>2. \A s \in Senders : ToSet(j.bySender[s]) = {t \in Held(j) : Sender[t] = s}
    BY <1>10, <1>13, <2>1 DEF ListsHold
  <2>3. \A s \in States : ToSet(j.byState[s]) = {t \in Held(j) : s \in Touches[t]}
    BY <1>10, <1>13, <2>1 DEF ListsHold
  <2>4. \A h \in Nat : ToSet(At(j.byHeight, h)) = {t \in Held(j) : j.txs[t] = h}
    BY <1>10, <1>13, <1>16, <2>1 DEF ListsHold
  <2> QED BY <1>13, <2>1, <2>2, <2>3, <2>4 DEF ListsHold
<1>18. HoldsNewest(j, c)
  <2>1. Held(j) = Held(left) /\ \A t \in Held(j) : j.txs[t] \in 1..Len(c)
    BY <1>3, <1>10, <1>13 DEF Held
  <2>2. \A h \in 1..l : At(j.byHeight, h) = IF h = f THEN Tail(q) ELSE At(i.byHeight, h)
    <3> SUFFICES ASSUME NEW h \in 1..l PROVE At(j.byHeight, h) = IF h = f THEN Tail(q) ELSE At(i.byHeight, h)
      OBVIOUS
    <3>1. h \in Nat
      OBVIOUS
    <3>2. At(j.byHeight, h) = IF h = f THEN Without(At(i.byHeight, h), x) ELSE At(i.byHeight, h)
      BY <1>10, <1>11, <1>16, <3>1
    <3> QED BY <1>6, <1>8, <3>2
  <2>3. ASSUME NEW h \in 1..l, h > m PROVE At(j.byHeight, h) = c[h]
    <3>1. h # f /\ h > f
      BY <1>4, <1>15, <2>3
    <3>2. At(i.byHeight, h) = c[h]
      BY <1>3, <1>4, <1>5, <3>1
    <3> QED BY <2>2, <3>1, <3>2
  <2>4. ASSUME NEW h \in 1..l, h < m PROVE At(j.byHeight, h) = <<>>
    <3>1. CASE h < f
      BY <1>3, <1>4, <1>5, <2>2, <3>1
    <3>2. CASE ~(h < f)
      <4>1. h \in f..m - 1
        BY <1>4, <1>15, <2>4, <3>2
      <4> QED BY <1>15, <1>16, <4>1
    <3> QED BY <3>1, <3>2
  <2>5. At(j.byHeight, m) # <<>> /\ m \in 1..l
    BY <1>4, <1>15, <1>16
  <2>6. EndOf(Txs, At(j.byHeight, m), c[m])
    <3>1. c[m] \in Seq(Txs) /\ c[f] \in Seq(Txs)
      BY <1>4, <1>5, <2>5
    <3>2. CASE m = f
      <4>1. EndOf(Txs, Tail(q), c[f])
        BY <1>6, <3>1, EndFacts
      <4> QED BY <2>2, <2>5, <3>2, <4>1
    <3>3. CASE m # f
      <4>1. At(j.byHeight, m) = c[m]
        BY <1>3, <1>4, <1>5, <1>15, <2>2, <2>5, <3>3
      <4>2. c[m] = <<>> \o c[m] /\ <<>> \in Seq(Txs)
        BY <3>1, ConcatEmptySeq, EmptySeq
      <4> QED BY <4>1, <4>2 DEF EndOf
    <3> QED BY <3>2, <3>3
  <2> QED BY <1>5, <1>13, <2>1, <2>3, <2>4, <2>5, <2>6 DEF HoldsNewest
<1>19. Held(j) = Held(left)
  BY <1>13 DEF Held
<1> QED BY <1>10, <1>13, <1>14, <1>17, <1>18, <1>19

-------------------------------------------------------------------------------
(* A transaction enters.                                                     *)

\* addTx, once there is room.
WithTx(room, t, h) ==
    [room EXCEPT !.txs = [u \in DOMAIN @ \cup {t} |-> IF u = t THEN h ELSE @[u]],
                 !.bySender[Sender[t]] = Added(@, t),
                 !.byState = [s \in States |-> IF s \in Touches[t] THEN Added(@[s], t) ELSE @[s]],
                 !.byHeight = [g \in DOMAIN @ \cup {h} |-> IF g = h THEN Added(At(@, g), t) ELSE @[g]]]

LEMMA AddedIs ==
    ASSUME NEW q \in Seq(Txs), NEW t \in Txs
    PROVE  /\ Added(q, t) \in Seq(Txs) /\ ToSet(Added(q, t)) = ToSet(q) \cup {t}
           /\ t \notin ToSet(q) => Added(q, t) = Append(q, t)
<1>1. Append(q, t) \in Seq(Txs) /\ ToSet(Append(q, t)) = ToSet(q) \cup {t}
  BY WithOneMore
<1> QED BY <1>1 DEF Added

LEMMA TxIn ==
    ASSUME NEW i \in Indexes, NEW t \in Txs, NEW h \in Nat, NEW j, j = WithTx(i, t, h)
    PROVE  /\ j \in Indexes /\ SameChanges(i, j) /\ j.from = i.from /\ j.to = i.to
           /\ Held(j) = Held(i) \cup {t} /\ \A u \in Held(j) : j.txs[u] = IF u = t THEN h ELSE i.txs[u]
           /\ \A s \in Senders : j.bySender[s] = IF s = Sender[t] THEN Added(i.bySender[s], t) ELSE i.bySender[s]
           /\ \A s \in States : j.byState[s] = IF s \in Touches[t] THEN Added(i.byState[s], t) ELSE i.byState[s]
           /\ \A g \in Nat : At(j.byHeight, g) = IF g = h THEN Added(At(i.byHeight, g), t) ELSE At(i.byHeight, g)
<1>1. /\ Sender[t] \in Senders /\ i.bySender \in [Senders -> Seq(Txs)] /\ i.byState \in [States -> Seq(Txs)]
      /\ DOMAIN i.byHeight \subseteq Nat /\ (\A g \in DOMAIN i.byHeight : i.byHeight[g] \in Seq(Txs))
      /\ \A g : At(i.byHeight, g) \in Seq(Txs)
  BY TxTypes, IndexTypes
<1>2. i = [txs |-> i.txs, bySender |-> i.bySender, byState |-> i.byState, byHeight |-> i.byHeight,
           from |-> i.from, to |-> i.to, changes |-> i.changes, changesByState |-> i.changesByState,
           changesByTx |-> i.changesByTx]
  BY IndexTypes
<1>3. /\ j.txs = [u \in Held(i) \cup {t} |-> IF u = t THEN h ELSE i.txs[u]]
      /\ j.bySender = [i.bySender EXCEPT ![Sender[t]] = Added(@, t)]
      /\ j.byState = [s \in States |-> IF s \in Touches[t] THEN Added(i.byState[s], t) ELSE i.byState[s]]
      /\ j.byHeight = [g \in DOMAIN i.byHeight \cup {h} |-> IF g = h THEN Added(At(i.byHeight, g), t) ELSE i.byHeight[g]]
      /\ j.from = i.from /\ j.to = i.to /\ SameChanges(i, j)
      /\ j = [txs |-> j.txs, bySender |-> j.bySender, byState |-> j.byState, byHeight |-> j.byHeight,
              from |-> j.from, to |-> j.to, changes |-> j.changes, changesByState |-> j.changesByState,
              changesByTx |-> j.changesByTx]
  BY <1>2 DEF WithTx, Held, SameChanges
<1>4. j.bySender = [s \in Senders |-> IF s = Sender[t] THEN Added(i.bySender[s], t) ELSE i.bySender[s]]
  BY <1>1, <1>3
<1>5. \A g : At(j.byHeight, g) = IF g = h THEN Added(At(i.byHeight, g), t) ELSE At(i.byHeight, g)
  BY <1>3 DEF At
<1>6. \A q \in Seq(Txs) : Added(q, t) \in Seq(Txs)
  BY AddedIs
<1>7. j.bySender \in [Senders -> Seq(Txs)] /\ j.byState \in [States -> Seq(Txs)]
  BY <1>1, <1>3, <1>4, <1>6
<1>8. /\ DOMAIN j.byHeight \subseteq Nat /\ j.byHeight = [g \in DOMAIN j.byHeight |-> j.byHeight[g]]
      /\ \A g \in DOMAIN j.byHeight : j.byHeight[g] \in Seq(Txs)
  BY <1>1, <1>3, <1>6
<1>9. /\ Held(j) = Held(i) \cup {t} /\ (\A u \in Held(j) : j.txs[u] = IF u = t THEN h ELSE i.txs[u])
      /\ j.txs = [u \in DOMAIN j.txs |-> j.txs[u]]
  BY <1>3 DEF Held
<1>10. DOMAIN j.txs \subseteq Txs /\ \A u \in DOMAIN j.txs : j.txs[u] \in Nat
  <2>1. Held(i) \subseteq Txs /\ \A u \in Held(i) : i.txs[u] \in Nat
    BY IndexTypes
  <2>2. Held(j) = DOMAIN j.txs
    BY DEF Held
  <2> QED BY <1>9, <2>1, <2>2
<1>11. j \in Indexes
  <2>1. j.from \in Nat /\ j.to \in Nat
    BY <1>3, IndexTypes
  <2> QED BY <1>3, <1>7, <1>8, <1>9, <1>10, <2>1, IndexMade
<1>12. SameChanges(i, j) /\ j.from = i.from /\ j.to = i.to
  BY <1>3
<1>13. \A s \in Senders : j.bySender[s] = IF s = Sender[t] THEN Added(i.bySender[s], t) ELSE i.bySender[s]
  BY ONLY <1>4
<1>14. \A s \in States : j.byState[s] = IF s \in Touches[t] THEN Added(i.byState[s], t) ELSE i.byState[s]
  BY ONLY <1>3
<1> QED BY ONLY <1>5, <1>9, <1>11, <1>12, <1>13, <1>14

\* addTx is of an index, whatever the index.
LEMMA AddTxTypes ==
    ASSUME NEW i \in Indexes, NEW t \in Txs, NEW h \in Nat
    PROVE  AddTx(i, t, h) \in Indexes /\ SameChanges(i, AddTx(i, t, h))
<1>1. PICK room : room = IF Cardinality(DOMAIN i.txs) >= MaxIndexedTxs THEN EvictOldestTx(i) ELSE i
  OBVIOUS
<1>2. AddTx(i, t, h) = WithTx(room, t, h)
  BY <1>1 DEF AddTx, WithTx
<1>3. room \in Indexes /\ SameChanges(i, room)
  <2>1. i \in Indexes /\ SameChanges(i, i)
    BY DEF SameChanges
  <2>2. i.from = 0 => EvictOldestTx(i) = i
    BY DEF EvictOldestTx
  <2>3. i.from # 0 => EvictOldestTx(i) \in Indexes /\ SameChanges(i, EvictOldestTx(i))
    BY OldestOut
  <2> QED BY <1>1, <2>1, <2>2, <2>3
<1>4. WithTx(room, t, h) \in Indexes /\ SameChanges(room, WithTx(room, t, h))
  BY <1>3, TxIn
<1>5. SameChanges(i, WithTx(room, t, h))
  BY <1>3, <1>4 DEF SameChanges
<1> QED BY <1>2, <1>4, <1>5

\* d is the chain c with one transaction more in its last block.
Longer(c, d, t) ==
    /\ Len(c) # 0 /\ Len(d) = Len(c) /\ (\A g \in 1..Len(c) : g < Len(c) => d[g] = c[g])
    /\ d[Len(c)] = Append(c[Len(c)], t)

LEMMA SoleOfLonger ==
    ASSUME NEW c \in Seq(Seq(Txs)), NEW d \in Seq(Seq(Txs)), NEW t \in Txs, Longer(c, d, t), Sole(d)
    PROVE  Sole(c) /\ \A g \in 1..Len(c) : t \notin ToSet(c[g])
<1>1. PICK l \in Nat : l = Len(c) /\ (\A h \in 1..l : c[h] \in Seq(Txs) /\ d[h] \in Seq(Txs)) /\ Len(d) = l /\ l \in 1..l
  <2>1. Len(c) \in Nat /\ \A h \in 1..Len(c) : c[h] \in Seq(Txs)
    BY LenProperties, Above
  <2>2. \A h \in 1..Len(d) : d[h] \in Seq(Txs)
    BY Above
  <2> QED BY <2>1, <2>2 DEF Longer
<1>2. PICK b \in Seq(Txs), n \in Nat : b = c[l] /\ n = Len(b) /\ DOMAIN b = 1..n
  BY <1>1, LenProperties
<1>3. PICK e \in Seq(Txs) : e = d[l] /\ e = Append(b, t) /\ DOMAIN e = 1..n + 1 /\ e[n + 1] = t /\ \A k \in 1..n : e[k] = b[k]
  <2>1. PICK e : e = Append(b, t)
    OBVIOUS
  <2>2. e \in Seq(Txs) /\ Len(e) = n + 1 /\ e[n + 1] = t /\ \A k \in 1..n : e[k] = b[k]
    BY <1>2, <2>1, AppendProperties
  <2>3. DOMAIN e = 1..n + 1
    BY <2>2, LenProperties
  <2>4. e = d[l]
    BY <1>1, <1>2, <2>1 DEF Longer
  <2> QED BY <2>1, <2>2, <2>3, <2>4
<1>4. \A h \in 1..l : h # l => d[h] = c[h]
  BY <1>1 DEF Longer
<1>5. \A h \in 1..l : \A k \in DOMAIN c[h] : k \in DOMAIN d[h] /\ c[h][k] = d[h][k]
  <2> SUFFICES ASSUME NEW h \in 1..l, NEW k \in DOMAIN c[h] PROVE k \in DOMAIN d[h] /\ c[h][k] = d[h][k]
    OBVIOUS
  <2>1. CASE h = l
    <3>1. k \in 1..n /\ k \in 1..n + 1
      BY <1>2, <2>1
    <3> QED BY <1>2, <1>3, <2>1, <3>1
  <2>2. CASE h # l
    BY <1>4, <2>2
  <2> QED BY <2>1, <2>2
<1>6. Sole(c)
  <2> SUFFICES ASSUME NEW h \in 1..l, NEW g \in 1..l, NEW k \in DOMAIN c[h], NEW j \in DOMAIN c[g], c[h][k] = c[g][j]
               PROVE  h = g /\ k = j
    BY <1>1 DEF Sole
  <2>1. k \in DOMAIN d[h] /\ j \in DOMAIN d[g] /\ d[h][k] = d[g][j]
    BY <1>5
  <2> QED BY <1>1, <2>1 DEF Sole
<1>7. ASSUME NEW g \in 1..l, t \in ToSet(c[g]) PROVE FALSE
  <2>1. PICK k \in DOMAIN c[g] : c[g][k] = t
    BY <1>7 DEF ToSet
  <2>2. k \in DOMAIN d[g] /\ d[g][k] = d[l][n + 1] /\ n + 1 \in DOMAIN d[l]
    BY <1>3, <1>5, <2>1
  <2>3. g = l /\ k = n + 1
    BY <1>1, <2>2 DEF Sole
  <2>4. k \in 1..n
    BY <1>2, <2>1, <2>3
  <2> QED BY <2>3, <2>4
<1> QED BY <1>1, <1>6, <1>7

\* The height of a transaction held is that of its block.
LEMMA HeldOnChain ==
    ASSUME NEW c \in Seq(Seq(Txs)), NEW i, ListsHold(i), HoldsNewest(i, c), NEW t \in Held(i)
    PROVE  i.txs[t] \in 1..Len(c) /\ t \in ToSet(c[i.txs[t]]) /\ i.txs[t] >= i.from
<1>1. PICK h \in 1..Len(c) : h = i.txs[t] /\ h \in Nat
  BY DEF HoldsNewest
<1>2. PICK q \in Seq(Txs) : q = At(i.byHeight, h) /\ t \in ToSet(q)
  <2>1. At(i.byHeight, h) \in Seq(Txs)
    BY IndexTypes DEF ListsHold
  <2> QED BY <1>1, <2>1 DEF ListsHold
<1>3. q # <<>>
  BY <1>2 DEF ToSet
<1>4. /\ i.from \in 1..Len(c) /\ (h > i.from => q = c[h]) /\ (h < i.from => q = <<>>)
      /\ (h = i.from => EndOf(Txs, q, c[h]))
  BY <1>1, <1>2 DEF HoldsNewest
<1>5. c[h] \in Seq(Txs) /\ Len(c) \in Nat
  BY Above, LenProperties
<1>6. CASE h > i.from
  BY <1>1, <1>2, <1>4, <1>5, <1>6
<1>7. CASE h = i.from
  <2>1. ToSet(q) \subseteq ToSet(c[h])
    BY <1>4, <1>5, <1>7, EndFacts
  <2> QED BY <1>1, <1>2, <1>5, <1>7, <2>1
<1> QED BY <1>1, <1>3, <1>4, <1>6, <1>7

\* An index of the chain c, up to the limit.
IndexOf(i, c) ==
    /\ ListsHold(i) /\ HoldsNewest(i, c) /\ Cardinality(Held(i)) <= MaxIndexedTxs
    /\ Held(i) = {} => i.from = Len(c)

LEMMA RoomMade ==
    ASSUME NEW c \in Seq(Seq(Txs)), Sole(c), NEW i, IndexOf(i, c),
           NEW room, room = IF Cardinality(DOMAIN i.txs) >= MaxIndexedTxs THEN EvictOldestTx(i) ELSE i
    PROVE  IndexOf(room, c) /\ Cardinality(Held(room)) < MaxIndexedTxs /\ Held(room) \subseteq Held(i)
<1>1. IsFiniteSet(Held(i)) /\ Cardinality(Held(i)) \in Nat /\ MaxIndexedTxs \in Nat /\ MaxIndexedTxs >= 2
  BY FS_CardinalityType, IndexerAssumption DEF IndexOf, ListsHold
<1>2. CASE Cardinality(Held(i)) >= MaxIndexedTxs
  <2>1. room = EvictOldestTx(i)
    BY <1>2 DEF Held
  <2>2. Cardinality(Held(i)) >= 2 /\ ListsHold(i) /\ HoldsNewest(i, c)
    BY <1>1, <1>2 DEF IndexOf
  <2>3. /\ ListsHold(room) /\ HoldsNewest(room, c) /\ Held(room) # {} /\ Held(room) \subseteq Held(i)
        /\ Cardinality(Held(room)) = Cardinality(Held(i)) - 1
    BY <2>1, <2>2, OldestEvicted
  <2>4. Cardinality(Held(room)) < MaxIndexedTxs
    BY <1>1, <2>3 DEF IndexOf
  <2> QED BY <1>1, <2>3, <2>4 DEF IndexOf
<1>3. CASE ~(Cardinality(Held(i)) >= MaxIndexedTxs)
  <2>1. room = i
    BY <1>3 DEF Held
  <2> QED BY <1>1, <1>3, <2>1
<1> QED BY <1>2, <1>3

\* addTx of the next transaction of the last block.
LEMMA TxAdded ==
    ASSUME NEW c \in Seq(Seq(Txs)), NEW d \in Seq(Seq(Txs)), NEW t \in Txs, Longer(c, d, t), Sole(d),
           NEW i, IndexOf(i, c), NEW j, j = AddTx(i, t, Len(c))
    PROVE  IndexOf(j, d)
<1>1. PICK h \in Nat : h = Len(c) /\ h # 0 /\ Len(d) = h /\ (\A g \in 1..h : g < h => d[g] = c[g]) /\ d[h] = Append(c[h], t)
  BY LenProperties DEF Longer
<1>2. Sole(c) /\ (\A g \in 1..h : t \notin ToSet(c[g])) /\ (\A g \in 1..h : c[g] \in Seq(Txs)) /\ h \in 1..h
  <2>1. Sole(c) /\ \A g \in 1..Len(c) : t \notin ToSet(c[g])
    BY SoleOfLonger
  <2>2. \A g \in 1..Len(c) : c[g] \in Seq(Txs)
    BY Above
  <2> QED BY <1>1, <2>1, <2>2
<1>3. PICK room : room = IF Cardinality(DOMAIN i.txs) >= MaxIndexedTxs THEN EvictOldestTx(i) ELSE i
  OBVIOUS
<1>4. IndexOf(room, c) /\ Cardinality(Held(room)) < MaxIndexedTxs
  BY <1>2, <1>3, RoomMade
<1>5. j = WithTx(room, t, h)
  BY <1>1, <1>3 DEF AddTx, WithTx
<1>6. room \in Indexes /\ ListsHold(room) /\ HoldsNewest(room, c)
  BY <1>4 DEF IndexOf, ListsHold
<1>7. /\ j \in Indexes /\ j.from = room.from /\ j.to = room.to
      /\ Held(j) = Held(room) \cup {t} /\ (\A u \in Held(j) : j.txs[u] = IF u = t THEN h ELSE room.txs[u])
      /\ (\A s \in Senders : j.bySender[s] = IF s = Sender[t] THEN Added(room.bySender[s], t) ELSE room.bySender[s])
      /\ (\A s \in States : j.byState[s] = IF s \in Touches[t] THEN Added(room.byState[s], t) ELSE room.byState[s])
      /\ \A g \in Nat : At(j.byHeight, g) = IF g = h THEN Added(At(room.byHeight, g), t) ELSE At(room.byHeight, g)
  <2>1. h \in Nat
    BY <1>1
  <2> QED BY ONLY <1>5, <1>6, <2>1, t \in Txs, TxIn
<1>8. t \notin Held(room)
  <2> SUFFICES ASSUME t \in Held(room) PROVE FALSE
    OBVIOUS
  <2>1. room.txs[t] \in 1..Len(c) /\ t \in ToSet(c[room.txs[t]])
    BY <1>6, HeldOnChain
  <2> QED BY <1>1, <1>2, <2>1
<1>9. ListsHold(j)
  <2>1. IsFiniteSet(Held(j))
    <3>1. IsFiniteSet(Held(room))
      BY <1>6 DEF ListsHold
    <3>2. Held(j) = Held(room) \cup {t}
      BY <1>7
    <3> QED BY ONLY <3>1, <3>2, FS_AddElement
  <2>2. ASSUME NEW s \in Senders PROVE ToSet(j.bySender[s]) = {u \in Held(j) : Sender[u] = s}
    <3>1. room.bySender[s] \in Seq(Txs) /\ ToSet(room.bySender[s]) = {u \in Held(room) : Sender[u] = s}
      BY <1>6, IndexTypes DEF ListsHold
    <3>2. ToSet(Added(room.bySender[s], t)) = ToSet(room.bySender[s]) \cup {t}
      BY <3>1, AddedIs
    <3>3. j.bySender[s] = IF s = Sender[t] THEN Added(room.bySender[s], t) ELSE room.bySender[s]
      BY <1>7
    <3>4. {u \in Held(j) : Sender[u] = s} = IF s = Sender[t] THEN {u \in Held(room) : Sender[u] = s} \cup {t}
                                            ELSE {u \in Held(room) : Sender[u] = s}
      BY <1>7
    <3> QED BY <3>1, <3>2, <3>3, <3>4
  <2>3. ASSUME NEW s \in States PROVE ToSet(j.byState[s]) = {u \in Held(j) : s \in Touches[u]}
    <3>1. room.byState[s] \in Seq(Txs) /\ ToSet(room.byState[s]) = {u \in Held(room) : s \in Touches[u]}
      BY <1>6, IndexTypes DEF ListsHold
    <3>2. ToSet(Added(room.byState[s], t)) = ToSet(room.byState[s]) \cup {t}
      BY <3>1, AddedIs
    <3> QED BY <1>7, <3>1, <3>2
  <2>4. ASSUME NEW g \in Nat PROVE ToSet(At(j.byHeight, g)) = {u \in Held(j) : j.txs[u] = g}
    <3>1. At(room.byHeight, g) \in Seq(Txs) /\ ToSet(At(room.byHeight, g)) = {u \in Held(room) : room.txs[u] = g}
      BY <1>6, IndexTypes DEF ListsHold
    <3>2. ToSet(Added(At(room.byHeight, g), t)) = ToSet(At(room.byHeight, g)) \cup {t}
      BY <3>1, AddedIs
    <3>3. {u \in Held(j) : j.txs[u] = g} = IF g = h THEN {u \in Held(room) : room.txs[u] = g} \cup {t}
                                           ELSE {u \in Held(room) : room.txs[u] = g}
      BY <1>7, <1>8
    <3> QED BY <1>7, <3>1, <3>2, <3>3
  <2> QED BY <1>7, <2>1, <2>2, <2>3, <2>4 DEF ListsHold
<1>10. PICK q \in Seq(Txs) : /\ q = At(room.byHeight, h) /\ t \notin ToSet(q) /\ At(j.byHeight, h) = Append(q, t)
                             /\ Append(q, t) # <<>>
  <2>1. PICK q \in Seq(Txs) : q = At(room.byHeight, h)
    BY <1>6, IndexTypes
  <2>2. t \notin ToSet(q)
    BY <1>6, <1>8, <2>1 DEF ListsHold
  <2>3. Added(q, t) = Append(q, t)
    BY <2>2, AddedIs
  <2>4. Append(q, t) # <<>>
    <3>1. Append(q, t) \in Seq(Txs) /\ Len(Append(q, t)) = Len(q) + 1 /\ Len(q) \in Nat
      BY AppendProperties, LenProperties
    <3>2. Len(Append(q, t)) # 0
      BY <3>1
    <3> QED BY <3>1, <3>2, EmptySeq
  <2> QED BY <1>7, <2>1, <2>2, <2>3, <2>4
<1>11. HoldsNewest(j, d)
  <2>1. \A u \in Held(j) : j.txs[u] \in 1..Len(d)
    BY <1>1, <1>2, <1>6, <1>7 DEF HoldsNewest
  <2>2. j.to = Len(d)
    BY <1>1, <1>6, <1>7 DEF HoldsNewest
  <2>3. CASE Held(room) = {}
    <3>1. j.from = h
      BY <1>1, <1>4, <1>7, <2>3 DEF IndexOf
    <3>2. \A g \in Nat : At(room.byHeight, g) = <<>>
      <4> SUFFICES ASSUME NEW g \in Nat PROVE At(room.byHeight, g) = <<>>
        OBVIOUS
      <4>1. PICK r \in Seq(Txs) : r = At(room.byHeight, g)
        BY <1>6, IndexTypes
      <4>2. ToSet(r) = {}
        BY <1>6, <2>3, <4>1 DEF ListsHold
      <4>3. r # <<>> => Head(r) \in ToSet(r)
        BY HeadApart
      <4> QED BY <4>1, <4>2, <4>3
    <3>3. EndOf(Txs, q, c[h])
      <4>1. q = <<>> /\ c[h] \in Seq(Txs)
        BY <1>2, <1>10, <3>2
      <4>2. c[h] \o <<>> = c[h]
        BY <4>1, ConcatEmptySeq
      <4> QED BY <4>1, <4>2 DEF EndOf
    <3>4. EndOf(Txs, Append(q, t), d[h])
      BY <1>1, <1>2, <3>3, EndFacts
    <3>5. \A g \in 1..h : g < h => At(j.byHeight, g) = <<>>
      <4>1. \A g \in 1..h : g \in Nat /\ (g < h => g # h)
        BY <1>1
      <4> QED BY <1>7, <3>2, <4>1
    <3>6. \A g \in 1..h : ~(g > h)
      BY <1>1
    <3>7. At(j.byHeight, h) # <<>> /\ EndOf(Txs, At(j.byHeight, h), d[h])
      BY <1>10, <3>4
    <3> QED BY <1>1, <1>2, <2>1, <2>2, <3>1, <3>5, <3>6, <3>7 DEF HoldsNewest
  <2>4. CASE Held(room) # {}
    <3>1. PICK f \in 1..h : f = room.from /\ f = j.from
      BY <1>1, <1>6, <1>7, <2>4 DEF HoldsNewest
    <3>2. /\ \A g \in 1..h : g > f => At(room.byHeight, g) = c[g]
          /\ \A g \in 1..h : g < f => At(room.byHeight, g) = <<>>
          /\ At(room.byHeight, f) # <<>> /\ EndOf(Txs, At(room.byHeight, f), c[f])
      BY <1>1, <1>6, <2>4, <3>1 DEF HoldsNewest
    <3>3. ASSUME NEW g \in 1..h, g > f PROVE At(j.byHeight, g) = d[g]
      <4>1. CASE g = h
        <5>1. q = c[h]
          BY <1>10, <3>2, <3>3, <4>1
        <5> QED BY <1>1, <1>10, <4>1, <5>1
      <4>2. CASE g # h
        <5>1. g < h /\ d[g] = c[g]
          BY <1>1, <4>2
        <5> QED BY <1>7, <3>2, <3>3, <4>2, <5>1
      <4> QED BY <4>1, <4>2
    <3>4. ASSUME NEW g \in 1..h, g < f PROVE At(j.byHeight, g) = <<>>
      <4>1. g # h
        BY <3>1, <3>4
      <4> QED BY <1>7, <3>2, <3>4, <4>1
    <3>5. At(j.byHeight, f) # <<>> /\ EndOf(Txs, At(j.byHeight, f), d[f])
      <4>1. CASE f = h
        <5>1. EndOf(Txs, q, c[h])
          BY <1>10, <3>2, <4>1
        <5>2. EndOf(Txs, Append(q, t), d[h])
          BY <1>1, <1>2, <5>1, EndFacts
        <5> QED BY <1>10, <4>1, <5>2
      <4>2. CASE f # h
        <5>1. f < h /\ d[f] = c[f]
          BY <1>1, <3>1, <4>2
        <5> QED BY <1>7, <3>2, <4>2, <5>1
      <4> QED BY <4>1, <4>2
    <3> QED BY <1>1, <2>1, <2>2, <3>1, <3>3, <3>4, <3>5 DEF HoldsNewest
  <2> QED BY <2>3, <2>4
<1>12. Cardinality(Held(j)) <= MaxIndexedTxs
  <2>1. IsFiniteSet(Held(room)) /\ Cardinality(Held(room)) \in Nat /\ MaxIndexedTxs \in Nat
    BY <1>6, FS_CardinalityType, IndexerAssumption DEF ListsHold
  <2>2. Cardinality(Held(j)) = Cardinality(Held(room)) + 1
    BY <1>7, <1>8, <2>1, FS_AddElement
  <2> QED BY <1>4, <2>1, <2>2
<1>13. Held(j) # {}
  BY <1>7
<1> QED BY <1>9, <1>11, <1>12, <1>13 DEF IndexOf

-------------------------------------------------------------------------------
(* The transactions of a block.                                              *)

\* The transactions of one block are indexed.
AddsStay(height, P, T) == \A x \in P, t \in T : AddTx(x, t, height) \in P
AddsTrace(height, P, T, base, q, r) ==
    /\ r \in [0..Len(q) -> P] /\ r[0] = base
    /\ \A n \in 1..Len(q) : q[n] \in T /\ r[n - 1] \in P /\ r[n] = AddTx(r[n - 1], q[n], height)

LEMMA AddsLead ==
    ASSUME NEW P, NEW T, NEW height, AddsStay(height, P, T), NEW base \in P, NEW q \in Seq(T)
    PROVE  \E r : AddsTrace(height, P, T, base, q, r) /\ r[Len(q)] = IndexTxs(base, q, height)
<1> DEFINE F == [x \in P |-> [t \in T |-> AddTx(x, t, height)]]
           Unfolds(h) ==
               h = [D \in SUBSET DOMAIN q |-> IF D = {} THEN base
                                              ELSE AddTx(h[D \ {LastIn(D)}], q[LastIn(D)], height)]
<1>1. Stepwise(F, P, T)
  BY DEF Stepwise, AddsStay
<1>2. \A x \in P, t \in T : F[x][t] = AddTx(x, t, height)
  OBVIOUS
<1>3. PICK g : g = CHOOSE h : Unfolds(h)
  OBVIOUS
<1>4. IndexTxs(base, q, height) = g[DOMAIN q]
  BY <1>3 DEF IndexTxs, FoldLeft, MapThenFoldSet, Max, LastIn
<1> HIDE DEF F
<1>5. PICK h : Folds(F, P, T, base, q, h)
  BY <1>1, FoldsTyped
<1>6. Unfolds(h)
  <2>1. \A D \in SUBSET DOMAIN q : D # {} => h[D] = AddTx(h[D \ {LastIn(D)}], q[LastIn(D)], height)
    BY <1>2, <1>5 DEF Folds, Leads
  <2>2. h \in [SUBSET DOMAIN q -> P] /\ h[{}] = base
    BY <1>5 DEF Folds, Leads
  <2> QED BY <2>1, <2>2
<1>7. Unfolds(g)
  BY <1>3, <1>6
<1>8. Unrolls(F, P, base, q, g)
  <2>1. ASSUME NEW D \in SUBSET DOMAIN q, D # {}, g[D \ {LastIn(D)}] \in P
        PROVE  g[D] = F[g[D \ {LastIn(D)}]][q[LastIn(D)]]
    <3>1. q[LastIn(D)] \in T
      BY <1>5, <2>1 DEF Folds
    <3>2. g[D] = AddTx(g[D \ {LastIn(D)}], q[LastIn(D)], height)
      BY <1>7, <2>1
    <3> QED BY <1>2, <2>1, <3>1, <3>2
  <2>2. g[{}] = base
    BY <1>7
  <2> QED BY <2>1, <2>2 DEF Unrolls
<1>9. PICK r : Trace(F, P, T, base, q, r) /\ r[Len(q)] = g[DOMAIN q]
  BY <1>1, <1>8, FoldsLead
<1>10. \A n \in 1..Len(q) : q[n] \in T /\ r[n - 1] \in P /\ r[n] = AddTx(r[n - 1], q[n], height)
  BY <1>2, <1>9 DEF Trace
<1> QED BY <1>4, <1>9, <1>10 DEF Trace, AddsTrace

\* The changes of one block.
ChangesStay(P, T) == \A x \in P, t \in T : AddStateChange(x, t) \in P
ChangesTrace(P, T, base, q, r) ==
    /\ r \in [0..Len(q) -> P] /\ r[0] = base
    /\ \A n \in 1..Len(q) : q[n] \in T /\ r[n - 1] \in P /\ r[n] = AddStateChange(r[n - 1], q[n])

LEMMA ChangesLead ==
    ASSUME NEW P, NEW T, ChangesStay(P, T), NEW base \in P, NEW q \in Seq(T)
    PROVE  \E r : ChangesTrace(P, T, base, q, r) /\ r[Len(q)] = FoldLeft(AddStateChange, base, q)
<1> DEFINE F == [x \in P |-> [t \in T |-> AddStateChange(x, t)]]
           Unfolds(h) ==
               h = [D \in SUBSET DOMAIN q |-> IF D = {} THEN base
                                              ELSE AddStateChange(h[D \ {LastIn(D)}], q[LastIn(D)])]
<1>1. Stepwise(F, P, T)
  BY DEF Stepwise, ChangesStay
<1>2. \A x \in P, t \in T : F[x][t] = AddStateChange(x, t)
  OBVIOUS
<1>3. PICK g : g = CHOOSE h : Unfolds(h)
  OBVIOUS
<1>4. FoldLeft(AddStateChange, base, q) = g[DOMAIN q]
  BY <1>3 DEF FoldLeft, MapThenFoldSet, Max, LastIn
<1> HIDE DEF F
<1>5. PICK h : Folds(F, P, T, base, q, h)
  BY <1>1, FoldsTyped
<1>6. Unfolds(h)
  <2>1. \A D \in SUBSET DOMAIN q : D # {} => h[D] = AddStateChange(h[D \ {LastIn(D)}], q[LastIn(D)])
    BY <1>2, <1>5 DEF Folds, Leads
  <2>2. h \in [SUBSET DOMAIN q -> P] /\ h[{}] = base
    BY <1>5 DEF Folds, Leads
  <2> QED BY <2>1, <2>2
<1>7. Unfolds(g)
  BY <1>3, <1>6
<1>8. Unrolls(F, P, base, q, g)
  <2>1. ASSUME NEW D \in SUBSET DOMAIN q, D # {}, g[D \ {LastIn(D)}] \in P
        PROVE  g[D] = F[g[D \ {LastIn(D)}]][q[LastIn(D)]]
    <3>1. q[LastIn(D)] \in T
      BY <1>5, <2>1 DEF Folds
    <3>2. g[D] = AddStateChange(g[D \ {LastIn(D)}], q[LastIn(D)])
      BY <1>7, <2>1
    <3> QED BY <1>2, <2>1, <3>1, <3>2
  <2>2. g[{}] = base
    BY <1>7
  <2> QED BY <2>1, <2>2 DEF Unrolls
<1>9. PICK r : Trace(F, P, T, base, q, r) /\ r[Len(q)] = g[DOMAIN q]
  BY <1>1, <1>8, FoldsLead
<1>10. \A n \in 1..Len(q) : q[n] \in T /\ r[n - 1] \in P /\ r[n] = AddStateChange(r[n - 1], q[n])
  BY <1>2, <1>9 DEF Trace
<1> QED BY <1>4, <1>9, <1>10 DEF Trace, ChangesTrace

\* Several transactions are removed.
RemovesStay(P, T) == \A x \in P, t \in T : RemoveTx(x, t) \in P
RemovesTrace(P, T, base, q, r) ==
    /\ r \in [0..Len(q) -> P] /\ r[0] = base
    /\ \A n \in 1..Len(q) : q[n] \in T /\ r[n - 1] \in P /\ r[n] = RemoveTx(r[n - 1], q[n])

LEMMA RemovesLead ==
    ASSUME NEW P, NEW T, RemovesStay(P, T), NEW base \in P, NEW q \in Seq(T)
    PROVE  \E r : RemovesTrace(P, T, base, q, r) /\ r[Len(q)] = FoldLeft(RemoveTx, base, q)
<1> DEFINE F == [x \in P |-> [t \in T |-> RemoveTx(x, t)]]
           Unfolds(h) ==
               h = [D \in SUBSET DOMAIN q |-> IF D = {} THEN base
                                              ELSE RemoveTx(h[D \ {LastIn(D)}], q[LastIn(D)])]
<1>1. Stepwise(F, P, T)
  BY DEF Stepwise, RemovesStay
<1>2. \A x \in P, t \in T : F[x][t] = RemoveTx(x, t)
  OBVIOUS
<1>3. PICK g : g = CHOOSE h : Unfolds(h)
  OBVIOUS
<1>4. FoldLeft(RemoveTx, base, q) = g[DOMAIN q]
  BY <1>3 DEF FoldLeft, MapThenFoldSet, Max, LastIn
<1> HIDE DEF F
<1>5. PICK h : Folds(F, P, T, base, q, h)
  BY <1>1, FoldsTyped
<1>6. Unfolds(h)
  <2>1. \A D \in SUBSET DOMAIN q : D # {} => h[D] = RemoveTx(h[D \ {LastIn(D)}], q[LastIn(D)])
    BY <1>2, <1>5 DEF Folds, Leads
  <2>2. h \in [SUBSET DOMAIN q -> P] /\ h[{}] = base
    BY <1>5 DEF Folds, Leads
  <2> QED BY <2>1, <2>2
<1>7. Unfolds(g)
  BY <1>3, <1>6
<1>8. Unrolls(F, P, base, q, g)
  <2>1. ASSUME NEW D \in SUBSET DOMAIN q, D # {}, g[D \ {LastIn(D)}] \in P
        PROVE  g[D] = F[g[D \ {LastIn(D)}]][q[LastIn(D)]]
    <3>1. q[LastIn(D)] \in T
      BY <1>5, <2>1 DEF Folds
    <3>2. g[D] = RemoveTx(g[D \ {LastIn(D)}], q[LastIn(D)])
      BY <1>7, <2>1
    <3> QED BY <1>2, <2>1, <3>1, <3>2
  <2>2. g[{}] = base
    BY <1>7
  <2> QED BY <2>1, <2>2 DEF Unrolls
<1>9. PICK r : Trace(F, P, T, base, q, r) /\ r[Len(q)] = g[DOMAIN q]
  BY <1>1, <1>8, FoldsLead
<1>10. \A n \in 1..Len(q) : q[n] \in T /\ r[n - 1] \in P /\ r[n] = RemoveTx(r[n - 1], q[n])
  BY <1>2, <1>9 DEF Trace
<1> QED BY <1>4, <1>9, <1>10 DEF Trace, RemovesTrace

\* Several blocks are indexed.
IndexesStay(c, P, T) == \A x \in P, t \in T : IndexBlock(x, c[t], t) \in P
IndexesTrace(c, P, T, base, q, r) ==
    /\ r \in [0..Len(q) -> P] /\ r[0] = base
    /\ \A n \in 1..Len(q) : q[n] \in T /\ r[n - 1] \in P /\ r[n] = IndexBlock(r[n - 1], c[q[n]], q[n])

LEMMA IndexesLead ==
    ASSUME NEW P, NEW T, NEW c, IndexesStay(c, P, T), NEW base \in P, NEW q \in Seq(T)
    PROVE  \E r : IndexesTrace(c, P, T, base, q, r) /\ r[Len(q)] = IndexBlocks(base, c, q)
<1> DEFINE F == [x \in P |-> [t \in T |-> IndexBlock(x, c[t], t)]]
           Unfolds(h) ==
               h = [D \in SUBSET DOMAIN q |-> IF D = {} THEN base
                                              ELSE IndexBlock(h[D \ {LastIn(D)}], c[q[LastIn(D)]], q[LastIn(D)])]
<1>1. Stepwise(F, P, T)
  BY DEF Stepwise, IndexesStay
<1>2. \A x \in P, t \in T : F[x][t] = IndexBlock(x, c[t], t)
  OBVIOUS
<1>3. PICK g : g = CHOOSE h : Unfolds(h)
  OBVIOUS
<1>4. IndexBlocks(base, c, q) = g[DOMAIN q]
  BY <1>3 DEF IndexBlocks, FoldLeft, MapThenFoldSet, Max, LastIn
<1> HIDE DEF F
<1>5. PICK h : Folds(F, P, T, base, q, h)
  BY <1>1, FoldsTyped
<1>6. Unfolds(h)
  <2>1. \A D \in SUBSET DOMAIN q : D # {} => h[D] = IndexBlock(h[D \ {LastIn(D)}], c[q[LastIn(D)]], q[LastIn(D)])
    BY <1>2, <1>5 DEF Folds, Leads
  <2>2. h \in [SUBSET DOMAIN q -> P] /\ h[{}] = base
    BY <1>5 DEF Folds, Leads
  <2> QED BY <2>1, <2>2
<1>7. Unfolds(g)
  BY <1>3, <1>6
<1>8. Unrolls(F, P, base, q, g)
  <2>1. ASSUME NEW D \in SUBSET DOMAIN q, D # {}, g[D \ {LastIn(D)}] \in P
        PROVE  g[D] = F[g[D \ {LastIn(D)}]][q[LastIn(D)]]
    <3>1. q[LastIn(D)] \in T
      BY <1>5, <2>1 DEF Folds
    <3>2. g[D] = IndexBlock(g[D \ {LastIn(D)}], c[q[LastIn(D)]], q[LastIn(D)])
      BY <1>7, <2>1
    <3> QED BY <1>2, <2>1, <3>1, <3>2
  <2>2. g[{}] = base
    BY <1>7
  <2> QED BY <2>1, <2>2 DEF Unrolls
<1>9. PICK r : Trace(F, P, T, base, q, r) /\ r[Len(q)] = g[DOMAIN q]
  BY <1>1, <1>8, FoldsLead
<1>10. \A n \in 1..Len(q) : q[n] \in T /\ r[n - 1] \in P /\ r[n] = IndexBlock(r[n - 1], c[q[n]], q[n])
  BY <1>2, <1>9 DEF Trace
<1> QED BY <1>4, <1>9, <1>10 DEF Trace, IndexesTrace

\* A block that is put on a chain, up to one of its transactions.
LEMMA Onto ==
    ASSUME NEW c \in Seq(Seq(Txs)), NEW b \in Seq(Txs)
    PROVE  /\ Append(c, b) \in Seq(Seq(Txs)) /\ Len(Append(c, b)) = Len(c) + 1 /\ Len(c) \in Nat
           /\ Append(c, b)[Len(c) + 1] = b /\ \A g \in 1..Len(c) : Append(c, b)[g] = c[g] /\ c[g] \in Seq(Txs)
<1>1. PICK X : X = Seq(Txs)
  OBVIOUS
<1>2. c \in Seq(X) /\ b \in X
  BY <1>1
<1>3. /\ Append(c, b) \in Seq(X) /\ Len(Append(c, b)) = Len(c) + 1 /\ Len(c) \in Nat
      /\ Append(c, b)[Len(c) + 1] = b /\ \A g \in 1..Len(c) : Append(c, b)[g] = c[g]
  BY <1>2, AppendProperties, LenProperties
<1>4. \A g \in 1..Len(c) : c[g] \in X
  BY <1>2, ElementOfSeq
<1> QED BY <1>1, <1>3, <1>4

LEMMA SoleOfPart ==
    ASSUME NEW c \in Seq(Seq(Txs)), NEW b \in Seq(Txs), Sole(Append(c, b)), NEW n \in 0..Len(b)
    PROVE  Sole(Append(c, SubSeq(b, 1, n)))
<1>1. PICK p \in Seq(Txs) : p = SubSeq(b, 1, n) /\ DOMAIN p = 1..n
  <2>1. SubSeq(b, 1, n) \in Seq(Txs) /\ Len(SubSeq(b, 1, n)) = n
    BY PrefixGrows
  <2> QED BY <2>1, LenProperties
<1>2. PICK l \in Nat : l = Len(c)
  BY Onto
<1>3. PICK d : d = Append(c, p)
  OBVIOUS
<1>4. PICK e : e = Append(c, b)
  OBVIOUS
<1>5. Len(d) = l + 1 /\ Len(e) = l + 1 /\ d[l + 1] = p /\ e[l + 1] = b /\ \A g \in 1..l : d[g] = c[g] /\ e[g] = c[g]
  BY <1>1, <1>2, <1>3, <1>4, Onto
<1>6. \A k \in 1..n : k \in DOMAIN b /\ p[k] = b[k]
  <2>1. PICK m \in Nat : m = Len(b) /\ DOMAIN b = 1..m /\ n \in 0..m
    BY LenProperties
  <2>2. p = SubSeq(b, 1, n) /\ \A k \in 1..n : b[k] \in Txs
    BY <1>1, <2>1, ElementOfSeq
  <2>3. \A k \in 1..n : p[k] = b[k]
    <3>1. \A k \in 1..n - 1 + 1 : SubSeq(b, 1, n)[k] = b[1 + k - 1]
      BY <2>1, <2>2, SubSeqProperties
    <3> QED BY <2>1, <2>2, <3>1
  <2> QED BY <2>1, <2>3
<1>7. \A g \in 1..l + 1 : \A k \in DOMAIN d[g] : k \in DOMAIN e[g] /\ d[g][k] = e[g][k]
  <2> SUFFICES ASSUME NEW g \in 1..l + 1, NEW k \in DOMAIN d[g] PROVE k \in DOMAIN e[g] /\ d[g][k] = e[g][k]
    OBVIOUS
  <2>1. CASE g = l + 1
    BY <1>1, <1>5, <1>6, <2>1
  <2>2. CASE g # l + 1
    <3>1. g \in 1..l
      BY <2>2
    <3> QED BY <1>5, <3>1
  <2> QED BY <2>1, <2>2
<1>8. Sole(d)
  <2> SUFFICES ASSUME NEW h \in 1..l + 1, NEW g \in 1..l + 1, NEW k \in DOMAIN d[h], NEW j \in DOMAIN d[g], d[h][k] = d[g][j]
               PROVE  h = g /\ k = j
    BY <1>5 DEF Sole
  <2>1. k \in DOMAIN e[h] /\ j \in DOMAIN e[g] /\ e[h][k] = e[g][j]
    BY <1>7
  <2> QED BY <1>4, <1>5, <2>1 DEF Sole
<1> QED BY <1>1, <1>3, <1>8

\* indexBlock, before any of its transactions.
Ranged(i, h) ==
    [i EXCEPT !.from = IF i.txs = <<>> \/ h < @ THEN h ELSE @, !.to = IF h > @ THEN h ELSE @]

LEMMA RangedTypes ==
    ASSUME NEW i \in Indexes, NEW h \in Nat
    PROVE  /\ Ranged(i, h) \in Indexes /\ SameChanges(i, Ranged(i, h))
           /\ LET j == Ranged(i, h) IN
              /\ j.txs = i.txs /\ j.bySender = i.bySender /\ j.byState = i.byState /\ j.byHeight = i.byHeight
              /\ j.from = (IF i.txs = <<>> \/ h < i.from THEN h ELSE i.from) /\ j.to = (IF h > i.to THEN h ELSE i.to)
<1>1. PICK j : j = Ranged(i, h)
  OBVIOUS
<1>2. i = [txs |-> i.txs, bySender |-> i.bySender, byState |-> i.byState, byHeight |-> i.byHeight,
           from |-> i.from, to |-> i.to, changes |-> i.changes, changesByState |-> i.changesByState,
           changesByTx |-> i.changesByTx]
  BY IndexTypes
<1>3. /\ j.txs = i.txs /\ j.bySender = i.bySender /\ j.byState = i.byState /\ j.byHeight = i.byHeight
      /\ j.from = (IF i.txs = <<>> \/ h < i.from THEN h ELSE i.from) /\ j.to = (IF h > i.to THEN h ELSE i.to)
      /\ SameChanges(i, j)
      /\ j = [txs |-> j.txs, bySender |-> j.bySender, byState |-> j.byState, byHeight |-> j.byHeight,
              from |-> j.from, to |-> j.to, changes |-> j.changes, changesByState |-> j.changesByState,
              changesByTx |-> j.changesByTx]
  BY <1>1, <1>2 DEF Ranged, SameChanges
<1>4. j.from \in Nat /\ j.to \in Nat
  <2>1. i.from \in Nat /\ i.to \in Nat
    BY IndexTypes
  <2> QED BY <1>3, <2>1
<1>5. j \in Indexes
  <2>1. /\ DOMAIN i.txs \subseteq Txs /\ (\A t \in DOMAIN i.txs : i.txs[t] \in Nat) /\ i.txs = [t \in DOMAIN i.txs |-> i.txs[t]]
        /\ i.bySender \in [Senders -> Seq(Txs)] /\ i.byState \in [States -> Seq(Txs)]
        /\ DOMAIN i.byHeight \subseteq Nat /\ (\A g \in DOMAIN i.byHeight : i.byHeight[g] \in Seq(Txs))
        /\ i.byHeight = [g \in DOMAIN i.byHeight |-> i.byHeight[g]]
    BY IndexTypes DEF Held
  <2> QED BY <1>3, <1>4, <2>1, IndexMade
<1> QED BY <1>1, <1>3, <1>5

LEMMA RangedIs ==
    ASSUME NEW c \in Seq(Seq(Txs)), NEW i, ListsHold(i), HoldsNewest(i, c), Cardinality(Held(i)) <= MaxIndexedTxs
    PROVE  IndexOf(Ranged(i, Len(c) + 1), Append(c, <<>>))
<1>1. PICK l \in Nat, d \in Seq(Seq(Txs)) : /\ l = Len(c) /\ d = Append(c, <<>>) /\ Len(d) = l + 1 /\ d[l + 1] = <<>>
                                           /\ \A g \in 1..l : d[g] = c[g]
  <2>1. <<>> \in Seq(Txs)
    BY EmptySeq
  <2> QED BY <2>1, Onto
<1>2. PICK h \in Nat : h = l + 1
  BY <1>1
<1>3. PICK j : j = Ranged(i, h)
  OBVIOUS
<1>4. /\ j \in Indexes /\ j.txs = i.txs /\ j.bySender = i.bySender /\ j.byState = i.byState /\ j.byHeight = i.byHeight
      /\ j.from = (IF i.txs = <<>> \/ h < i.from THEN h ELSE i.from) /\ j.to = (IF h > i.to THEN h ELSE i.to)
  <2>1. i \in Indexes
    BY DEF ListsHold
  <2> QED BY <1>2, <1>3, <2>1, RangedTypes
<1>5. Held(j) = Held(i) /\ ListsHold(j)
  BY <1>4 DEF ListsHold, Held
<1>6. At(j.byHeight, h) = <<>>
  <2>1. PICK q \in Seq(Txs) : q = At(j.byHeight, h)
    BY <1>4, IndexTypes
  <2>2. ASSUME q # <<>> PROVE FALSE
    <3>1. Head(q) \in ToSet(q)
      BY <2>2, HeadApart
    <3>2. Head(q) \in Held(i) /\ i.txs[Head(q)] = h
      BY <1>2, <1>4, <2>1, <3>1 DEF ListsHold
    <3>3. i.txs[Head(q)] \in 1..l
      BY <1>1, <3>2 DEF HoldsNewest
    <3> QED BY <1>1, <1>2, <3>2, <3>3
  <2> QED BY <2>1, <2>2
<1>7. j.to = h /\ \A t \in Held(j) : j.txs[t] \in 1..h
  <2>1. i.to = l /\ \A t \in Held(i) : i.txs[t] \in 1..l
    BY <1>1 DEF HoldsNewest
  <2> QED BY <1>1, <1>2, <1>4, <1>5, <2>1
<1>8. CASE Held(i) = {}
  <2>1. i.txs = <<>>
    <3>1. i.txs = [t \in {} |-> i.txs[t]]
      <4>1. i \in Indexes
        BY DEF ListsHold
      <4> QED BY <1>8, <4>1, IndexTypes
    <3> QED BY <3>1
  <2>2. j.from = h
    BY <1>4, <2>1
  <2>3. HoldsNewest(j, d)
    BY <1>1, <1>2, <1>5, <1>7, <1>8 DEF HoldsNewest
  <2> QED BY <1>1, <1>2, <1>3, <1>5, <2>2, <2>3 DEF IndexOf
<1>9. CASE Held(i) # {}
  <2>1. PICK f \in 1..l : /\ f = i.from /\ (\A g \in 1..l : g > f => At(i.byHeight, g) = c[g])
                          /\ (\A g \in 1..l : g < f => At(i.byHeight, g) = <<>>)
                          /\ At(i.byHeight, f) # <<>> /\ EndOf(Txs, At(i.byHeight, f), c[f])
    BY <1>1, <1>9 DEF HoldsNewest
  <2>2. i.txs # <<>>
    BY <1>9 DEF Held
  <2>3. j.from = f /\ f \in 1..h
    BY <1>1, <1>2, <1>4, <2>1, <2>2
  <2>4. \A g \in 1..h : g = h \/ g \in 1..l
    BY ONLY l \in Nat, <1>2
  <2>5. \A g \in 1..h : g > f => At(j.byHeight, g) = d[g]
    BY <1>1, <1>2, <1>4, <1>6, <2>1, <2>4
  <2>6. \A g \in 1..h : g < f => At(j.byHeight, g) = <<>>
    BY <1>4, <1>6, <2>1, <2>4
  <2>7. At(j.byHeight, f) # <<>> /\ EndOf(Txs, At(j.byHeight, f), d[f])
    BY <1>1, <1>4, <2>1
  <2>8. HoldsNewest(j, d)
    BY <1>1, <1>2, <1>7, <2>3, <2>5, <2>6, <2>7 DEF HoldsNewest
  <2> QED BY <1>1, <1>2, <1>3, <1>5, <1>9, <2>8 DEF IndexOf
<1> QED BY <1>8, <1>9

LEMMA IndexTxsTypes ==
    ASSUME NEW i \in Indexes, NEW b \in Seq(Txs), NEW h \in Nat
    PROVE  /\ IndexTxs(i, b, h) \in Indexes /\ SameChanges(i, IndexTxs(i, b, h))
           /\ \E r : AddsTrace(h, Indexes, Txs, i, b, r) /\ r[Len(b)] = IndexTxs(i, b, h)
<1> DEFINE P == {x \in Indexes : SameChanges(i, x)}
<1>1. AddsStay(h, P, Txs)
  <2>1. ASSUME NEW x \in P, NEW t \in Txs PROVE AddTx(x, t, h) \in P
    <3>1. AddTx(x, t, h) \in Indexes /\ SameChanges(x, AddTx(x, t, h)) /\ SameChanges(i, x)
      BY AddTxTypes
    <3>2. SameChanges(i, AddTx(x, t, h))
      BY <3>1 DEF SameChanges
    <3> QED BY <3>1, <3>2
  <2> QED BY <2>1 DEF AddsStay
<1>2. i \in P
  BY DEF SameChanges
<1>3. AddsStay(h, Indexes, Txs)
  BY AddTxTypes DEF AddsStay
<1>4. PICK r : AddsTrace(h, P, Txs, i, b, r) /\ r[Len(b)] = IndexTxs(i, b, h)
  <2> HIDE DEF P
  <2> QED BY <1>1, <1>2, AddsLead
<1>5. Len(b) \in 0..Len(b)
  BY LenProperties
<1>6. r[Len(b)] \in P
  BY <1>4, <1>5 DEF AddsTrace
<1>7. \E s : AddsTrace(h, Indexes, Txs, i, b, s) /\ s[Len(b)] = IndexTxs(i, b, h)
  BY <1>3, AddsLead
<1> QED BY <1>4, <1>6, <1>7

\* The transactions of a block.
LEMMA TxsIndexed ==
    ASSUME NEW c \in Seq(Seq(Txs)), NEW b \in Seq(Txs), Sole(Append(c, b)),
           NEW i, ListsHold(i), HoldsNewest(i, c), Cardinality(Held(i)) <= MaxIndexedTxs
    PROVE  IndexOf(IndexTxs(Ranged(i, Len(c) + 1), b, Len(c) + 1), Append(c, b))
<1>1. PICK h \in Nat, n \in Nat : h = Len(c) + 1 /\ n = Len(b)
  BY Onto, LenProperties
<1>2. PICK base : base = Ranged(i, h)
  OBVIOUS
<1>3. IndexOf(base, Append(c, <<>>)) /\ base \in Indexes
  <2>1. IndexOf(base, Append(c, <<>>))
    BY <1>1, <1>2, RangedIs
  <2> QED BY <2>1 DEF IndexOf, ListsHold
<1>4. PICK r : AddsTrace(h, Indexes, Txs, base, b, r) /\ r[n] = IndexTxs(base, b, h)
  BY <1>1, <1>3, IndexTxsTypes
<1> DEFINE On(k) == Append(c, SubSeq(b, 1, k))
           S == {k \in 0..n : IndexOf(r[k], On(k))}
<1>5. 0 \in S
  <2>1. SubSeq(b, 1, 0) = <<>>
    BY PrefixGrows
  <2>2. r[0] = base
    BY <1>4 DEF AddsTrace
  <2>3. On(0) = Append(c, <<>>)
    BY <2>1
  <2> HIDE DEF On
  <2>4. IndexOf(r[0], On(0))
    BY <1>3, <2>2, <2>3
  <2> QED BY <1>1, <2>4
<1>6. ASSUME NEW k \in 1..n, k - 1 \in S PROVE k \in S
  <2>1. PICK p \in Seq(Txs), t \in Txs : p = SubSeq(b, 1, k - 1) /\ t = b[k] /\ SubSeq(b, 1, k) = Append(p, t)
    <3>1. k - 1 \in 0..n
      OBVIOUS
    <3>2. SubSeq(b, 1, k - 1) \in Seq(Txs)
      BY <1>1, <3>1, PrefixGrows
    <3>3. SubSeq(b, 1, k) = Append(SubSeq(b, 1, k - 1), b[k]) /\ b[k] \in Txs
      BY <1>1, PrefixGrows
    <3> QED BY <3>2, <3>3
  <2>2. PICK q \in Seq(Txs) : q = Append(p, t)
    BY <2>1, AppendProperties
  <2>3. PICK x \in Seq(Seq(Txs)), y \in Seq(Seq(Txs)) : x = Append(c, p) /\ y = Append(c, q)
    BY Onto
  <2>4. Longer(x, y, t) /\ Len(x) = h
    <3>1. Len(c) \in Nat /\ Len(x) = h /\ Len(y) = h /\ x[h] = p /\ y[h] = q /\ \A g \in 1..Len(c) : x[g] = c[g] /\ y[g] = c[g]
      BY <1>1, <2>3, Onto
    <3>2. \A g \in 1..h : g < h => g \in 1..Len(c)
      BY <1>1, <3>1
    <3>3. h # 0
      BY <1>1, <3>1
    <3> QED BY <2>2, <3>1, <3>2, <3>3 DEF Longer
  <2>5. Sole(y)
    <3>1. k \in 0..Len(b)
      BY <1>1
    <3> QED BY <2>1, <2>2, <2>3, <3>1, SoleOfPart
  <2>6. r[k] = AddTx(r[k - 1], t, h)
    BY <1>1, <1>4, <2>1 DEF AddsTrace
  <2>7. IndexOf(r[k - 1], x)
    BY <1>6, <2>1, <2>3
  <2>8. IndexOf(r[k], y)
    BY <2>4, <2>5, <2>6, <2>7, TxAdded
  <2>9. On(k) = y
    BY <2>1, <2>2, <2>3
  <2> HIDE DEF On
  <2> QED BY <2>8, <2>9
<1>7. n \in S
  <2> HIDE DEF S
  <2>1. \A k \in 0..n : k \in S
    BY <1>5, <1>6, StepByStep
  <2> QED BY <2>1
<1>8. On(n) = Append(c, b)
  BY <1>1, PrefixGrows
<1> HIDE DEF On
<1> QED BY <1>1, <1>2, <1>4, <1>7, <1>8

-------------------------------------------------------------------------------
(* What a chain changes.                                                     *)

\* A sequence over some elements is one over more, and one whose elements are in a set
\* is one over that.
LEMMA SeqWider ==
    ASSUME NEW X, NEW q \in Seq(X), NEW Y
    PROVE  /\ X \subseteq Y => q \in Seq(Y)
           /\ (\A k \in DOMAIN q : q[k] \in Y) => q \in Seq(Y)
<1>1. PICK n \in Nat : n = Len(q) /\ DOMAIN q = 1..n /\ q \in [1..n -> X]
  BY LenProperties
<1>2. ASSUME \A k \in DOMAIN q : q[k] \in Y PROVE q \in Seq(Y)
  <2>1. q \in [1..n -> Y]
    BY <1>1, <1>2
  <2> QED BY <2>1, SeqDef
<1> QED BY <1>1, <1>2

\* Two sequences without repetitions that share no element, one after the other.
LEMMA InjectiveConcat ==
    ASSUME NEW X, NEW s \in Seq(X), NEW t \in Seq(X), IsInjective(s), IsInjective(t),
           \A k \in DOMAIN s, j \in DOMAIN t : s[k] # t[j]
    PROVE  IsInjective(s \o t)
<1>1. PICK m \in Nat, n \in Nat : m = Len(s) /\ n = Len(t) /\ DOMAIN s = 1..m /\ DOMAIN t = 1..n
  BY LenProperties
<1>2. PICK u \in Seq(X) : u = s \o t /\ DOMAIN u = 1..m + n /\ \A k \in 1..m + n : u[k] = IF k <= m THEN s[k] ELSE t[k - m]
  <2>1. s \o t \in Seq(X) /\ Len(s \o t) = m + n /\ \A k \in 1..m + n : (s \o t)[k] = IF k <= m THEN s[k] ELSE t[k - m]
    BY <1>1, ConcatProperties
  <2>2. PICK u : u = s \o t
    OBVIOUS
  <2>3. u \in Seq(X) /\ DOMAIN u = 1..m + n /\ \A k \in 1..m + n : u[k] = IF k <= m THEN s[k] ELSE t[k - m]
    BY <2>1, <2>2, LenProperties
  <2> QED BY <2>2, <2>3
<1>3. ASSUME NEW k \in 1..m + n, NEW j \in 1..m + n, u[k] = u[j] PROVE k = j
  <2>1. u[k] = (IF k <= m THEN s[k] ELSE t[k - m]) /\ u[j] = (IF j <= m THEN s[j] ELSE t[j - m])
    BY <1>2
  <2>2. (k <= m => k \in DOMAIN s) /\ (j <= m => j \in DOMAIN s)
    BY <1>1
  <2>3. (~(k <= m) => k - m \in DOMAIN t) /\ (~(j <= m) => j - m \in DOMAIN t)
    BY <1>1
  <2>4. CASE k <= m /\ j <= m
    BY <1>3, <2>1, <2>2, <2>4 DEF IsInjective
  <2>5. CASE ~(k <= m) /\ ~(j <= m)
    <3>1. k - m = j - m
      BY <1>3, <2>1, <2>3, <2>5 DEF IsInjective
    <3> QED BY <3>1
  <2>6. CASE k <= m /\ ~(j <= m)
    BY <1>3, <2>1, <2>2, <2>3, <2>6
  <2>7. CASE ~(k <= m) /\ j <= m
    BY <1>3, <2>1, <2>2, <2>3, <2>7
  <2> QED BY <2>4, <2>5, <2>6, <2>7
<1> QED BY <1>2, <1>3 DEF IsInjective

\* What one transaction changes.
TxChangeRecs(t, h) == {r \in ChangeRecs : r.tx = t /\ r.height = h}

LEMMA TxChangesTypes ==
    ASSUME NEW t \in Txs, NEW h \in Nat
    PROVE  TxChanges(t, h) \in Seq(TxChangeRecs(t, h)) /\ IsInjective(TxChanges(t, h))
<1>1. PICK q \in Seq(Touches[t]) : q = SetToSeq(Touches[t]) /\ IsInjective(q)
  BY TxTypes, SetInSequence
<1>2. PICK n \in Nat : n = Len(q) /\ DOMAIN q = 1..n /\ \A k \in 1..n : q[k] \in States
  <2>1. \A k \in DOMAIN q : q[k] \in Touches[t]
    BY LenProperties
  <2> QED BY <2>1, LenProperties, TxTypes
<1>3. PICK e : e = [k \in 1..n |-> [state |-> q[k], tx |-> t, height |-> h]]
  OBVIOUS
<1>4. e = TxChanges(t, h)
  BY <1>1, <1>2, <1>3 DEF TxChanges
<1>5. \A k \in 1..n : e[k] \in TxChangeRecs(t, h)
  BY <1>2, <1>3 DEF TxChangeRecs, ChangeRecs
<1>6. e \in Seq(TxChangeRecs(t, h))
  <2>1. e \in [1..n -> TxChangeRecs(t, h)]
    BY <1>3, <1>5
  <2> QED BY <2>1, SeqDef
<1>7. IsInjective(e)
  <2>1. ASSUME NEW k \in 1..n, NEW j \in 1..n, e[k] = e[j] PROVE k = j
    <3>1. e[k].state = q[k] /\ e[j].state = q[j]
      BY <1>3
    <3> QED BY <1>1, <1>2, <2>1, <3>1 DEF IsInjective
  <2> QED BY <1>3, <2>1 DEF IsInjective
<1> QED BY <1>4, <1>6, <1>7

\* A sequence of sequences, flattened.
LEMMA FlattenTypes ==
    ASSUME NEW Y, NEW l \in Nat, NEW f \in [1..l -> Seq(Y)]
    PROVE  FlattenSeq(f) \in Seq(Y)
<1>1. PICK T : T = Seq(Y)
  OBVIOUS
<1>2. f \in Seq(T)
  BY <1>1, SeqDef
<1>3. <<>> \in T
  BY <1>1, EmptySeq
<1> QED BY <1>1, <1>2, <1>3, FlattenAppend

\* What a block changes: no transaction, and one more.
BlockChangeRecs(b, h) == {r \in ChangeRecs : r.tx \in ToSet(b) /\ r.height = h}

LEMMA NoBlockChanges ==
    ASSUME NEW h
    PROVE  BlockChanges(<<>>, h) = <<>>
<1>1. PICK q : q = [k \in DOMAIN <<>> |-> TxChanges(<<>>[k], h)]
  OBVIOUS
<1>2. q = <<>>
  BY <1>1
<1> QED BY <1>1, <1>2, FlattenNone DEF BlockChanges

LEMMA BlockChangesTypes ==
    ASSUME NEW b \in Seq(Txs), NEW h \in Nat
    PROVE  BlockChanges(b, h) \in Seq(BlockChangeRecs(b, h)) /\ BlockChanges(b, h) \in Seq(ChangeRecs)
<1>1. PICK l \in Nat : l = Len(b) /\ DOMAIN b = 1..l /\ \A k \in 1..l : b[k] \in Txs /\ b[k] \in ToSet(b)
  <2>1. \A k \in DOMAIN b : b[k] \in Txs
    BY LenProperties
  <2> QED BY <2>1, LenProperties DEF ToSet
<1>2. PICK f : f = [k \in 1..l |-> TxChanges(b[k], h)]
  OBVIOUS
<1>3. ASSUME NEW k \in 1..l PROVE f[k] \in Seq(BlockChangeRecs(b, h))
  <2>1. f[k] \in Seq(TxChangeRecs(b[k], h))
    BY <1>1, <1>2, TxChangesTypes
  <2>2. TxChangeRecs(b[k], h) \subseteq BlockChangeRecs(b, h)
    BY <1>1 DEF TxChangeRecs, BlockChangeRecs
  <2> QED BY <2>1, <2>2, SeqWider
<1>4. f \in [1..l -> Seq(BlockChangeRecs(b, h))]
  BY <1>2, <1>3
<1>5. FlattenSeq(f) \in Seq(BlockChangeRecs(b, h))
  BY <1>4, FlattenTypes
<1>6. BlockChanges(b, h) = FlattenSeq(f)
  BY <1>1, <1>2 DEF BlockChanges
<1>7. BlockChangeRecs(b, h) \subseteq ChangeRecs
  BY DEF BlockChangeRecs
<1> QED BY <1>5, <1>6, <1>7, SeqWider

LEMMA BlockChangesAppend ==
    ASSUME NEW b \in Seq(Txs), NEW t \in Txs, NEW h \in Nat
    PROVE  BlockChanges(Append(b, t), h) = BlockChanges(b, h) \o TxChanges(t, h)
<1>1. PICK l \in Nat : l = Len(b) /\ DOMAIN b = 1..l
  BY LenProperties
<1>2. PICK c : c = Append(b, t)
  OBVIOUS
<1>3. c \in Seq(Txs) /\ DOMAIN c = 1..l + 1 /\ c[l + 1] = t /\ \A i \in 1..l : c[i] = b[i]
  BY <1>1, <1>2, AppendProperties, LenProperties
<1>4. PICK f, g : f = [k \in 1..l + 1 |-> TxChanges(c[k], h)] /\ g = [k \in 1..l |-> TxChanges(b[k], h)]
  OBVIOUS
<1>5. ASSUME NEW k \in 1..l + 1 PROVE TxChanges(c[k], h) \in Seq(ChangeRecs)
  <2>1. c[k] \in Txs
    BY <1>3, LenProperties
  <2>2. TxChangeRecs(c[k], h) \subseteq ChangeRecs
    BY DEF TxChangeRecs
  <2> QED BY <2>1, <2>2, TxChangesTypes, SeqWider
<1>6. f \in [1..l + 1 -> Seq(ChangeRecs)] /\ g = [k \in 1..l |-> f[k]] /\ f[l + 1] = TxChanges(t, h)
  <2>1. \A k \in 1..l : k \in 1..l + 1
    OBVIOUS
  <2>2. l + 1 \in 1..l + 1
    OBVIOUS
  <2> QED BY <1>3, <1>4, <1>5, <2>1, <2>2
<1>7. FlattenSeq(f) = FlattenSeq(g) \o TxChanges(t, h)
  BY <1>6, FlattenLast
<1>8. BlockChanges(c, h) = FlattenSeq(f) /\ BlockChanges(b, h) = FlattenSeq(g)
  BY <1>1, <1>3, <1>4 DEF BlockChanges
<1> QED BY <1>2, <1>7, <1>8

\* A block without repetitions changes nothing twice.
LEMMA BlockChangesAlone ==
    ASSUME NEW b \in Seq(Txs), IsInjective(b), NEW h \in Nat
    PROVE  IsInjective(BlockChanges(b, h))
<1> DEFINE G == {q \in Seq(Txs) : IsInjective(q) => IsInjective(BlockChanges(q, h))}
<1>1. <<>> \in G
  <2>1. BlockChanges(<<>>, h) = <<>> /\ IsInjective(<<>>)
    BY NoBlockChanges DEF IsInjective
  <2> QED BY <2>1, EmptySeq
<1>2. ASSUME NEW q \in Seq(Txs), q \in G, NEW t \in Txs PROVE Append(q, t) \in G
  <2>1. Append(q, t) \in Seq(Txs)
    BY AppendProperties
  <2>2. ASSUME IsInjective(Append(q, t)) PROVE IsInjective(BlockChanges(Append(q, t), h))
    <3>1. PICK l \in Nat : /\ l = Len(q) /\ DOMAIN q = 1..l /\ DOMAIN Append(q, t) = 1..l + 1
                           /\ Append(q, t)[l + 1] = t /\ \A k \in 1..l : Append(q, t)[k] = q[k]
      BY <2>1, AppendProperties, LenProperties
    <3>2. \A k \in 1..l : k \in 1..l + 1 /\ k # l + 1 /\ l + 1 \in 1..l + 1
      OBVIOUS
    <3>3. IsInjective(q)
      BY <2>2, <3>1, <3>2 DEF IsInjective
    <3>4. t \notin ToSet(q)
      BY <2>2, <3>1, <3>2 DEF IsInjective, ToSet
    <3>5. PICK u, v : u = BlockChanges(q, h) /\ v = TxChanges(t, h)
      OBVIOUS
    <3>6. IsInjective(u) /\ IsInjective(v)
      BY <1>2, <3>3, <3>5, TxChangesTypes
    <3>7. u \in Seq(BlockChangeRecs(q, h)) /\ v \in Seq(TxChangeRecs(t, h))
      BY <3>5, BlockChangesTypes, TxChangesTypes
    <3>8. u \in Seq(ChangeRecs) /\ v \in Seq(ChangeRecs)
      BY <3>7, SeqWider DEF BlockChangeRecs, TxChangeRecs
    <3>9. \A k \in DOMAIN u, j \in DOMAIN v : u[k] # v[j]
      <4>1. \A k \in DOMAIN u : u[k].tx \in ToSet(q)
        <5>1. \A k \in DOMAIN u : u[k] \in BlockChangeRecs(q, h)
          BY <3>7, ElementOfSeq, LenProperties
        <5> QED BY <5>1 DEF BlockChangeRecs
      <4>2. \A j \in DOMAIN v : v[j].tx = t
        <5>1. \A j \in DOMAIN v : v[j] \in TxChangeRecs(t, h)
          BY <3>7, ElementOfSeq, LenProperties
        <5> QED BY <5>1 DEF TxChangeRecs
      <4> QED BY <3>4, <4>1, <4>2
    <3>10. IsInjective(u \o v)
      BY <3>6, <3>8, <3>9, InjectiveConcat
    <3> QED BY <3>5, <3>10, BlockChangesAppend
  <2> QED BY <2>1, <2>2
<1>3. \A q \in Seq(Txs) : q \in G
  <2> HIDE DEF G
  <2> QED BY <1>1, <1>2, SeqsByAppending
<1> QED BY <1>3

\* What a chain changes.
ChangesBelow(n) == {r \in ChangeRecs : r.height \in 1..n}

LEMMA NoChangesOn == ChangesOn(<<>>) = <<>>
<1>1. PICK q : q = [k \in DOMAIN <<>> |-> BlockChanges(<<>>[k], k)]
  OBVIOUS
<1>2. q = <<>>
  BY <1>1
<1> QED BY <1>1, <1>2, FlattenNone DEF ChangesOn

LEMMA ChangesOnAppend ==
    ASSUME NEW c \in Seq(Seq(Txs)), NEW b \in Seq(Txs)
    PROVE  ChangesOn(Append(c, b)) = ChangesOn(c) \o BlockChanges(b, Len(c) + 1)
<1>1. PICK l \in Nat, d \in Seq(Seq(Txs)) :
        l = Len(c) /\ d = Append(c, b) /\ Len(d) = l + 1 /\ d[l + 1] = b /\ \A g \in 1..l : d[g] = c[g]
  BY Onto
<1>2. PICK T : T = Seq(Txs)
  OBVIOUS
<1>3. DOMAIN c = 1..l /\ DOMAIN d = 1..l + 1 /\ \A k \in 1..l + 1 : d[k] \in T
  BY <1>1, <1>2, LenProperties
<1>4. PICK f, g : f = [k \in 1..l + 1 |-> BlockChanges(d[k], k)] /\ g = [k \in 1..l |-> BlockChanges(c[k], k)]
  OBVIOUS
<1>5. \A k \in 1..l + 1 : BlockChanges(d[k], k) \in Seq(ChangeRecs)
  <2>1. \A k \in 1..l + 1 : d[k] \in T /\ k \in Nat
    BY <1>3
  <2> QED BY <1>2, <2>1, BlockChangesTypes
<1>6. f \in [1..l + 1 -> Seq(ChangeRecs)] /\ g = [k \in 1..l |-> f[k]] /\ f[l + 1] = BlockChanges(b, l + 1)
  <2>1. \A k \in 1..l : k \in 1..l + 1
    OBVIOUS
  <2>2. l + 1 \in 1..l + 1
    OBVIOUS
  <2> QED BY <1>1, <1>4, <1>5, <2>1, <2>2
<1>7. FlattenSeq(f) = FlattenSeq(g) \o BlockChanges(b, l + 1)
  BY <1>6, FlattenLast
<1>8. ChangesOn(d) = FlattenSeq(f) /\ ChangesOn(c) = FlattenSeq(g)
  BY <1>1, <1>3, <1>4 DEF ChangesOn
<1> QED BY <1>1, <1>7, <1>8

LEMMA ChangesOnTypes ==
    ASSUME NEW c \in Seq(Seq(Txs))
    PROVE  ChangesOn(c) \in Seq(ChangesBelow(Len(c))) /\ ChangesOn(c) \in Seq(ChangeRecs)
<1>1. PICK T : T = Seq(Txs)
  OBVIOUS
<1>2. PICK l \in Nat : l = Len(c) /\ DOMAIN c = 1..l /\ \A k \in 1..l : c[k] \in T
  BY <1>1, LenProperties
<1>3. PICK f : f = [k \in 1..l |-> BlockChanges(c[k], k)]
  OBVIOUS
<1>4. ASSUME NEW k \in 1..l PROVE f[k] \in Seq(ChangesBelow(l))
  <2>1. f[k] \in Seq(BlockChangeRecs(c[k], k))
    <3>1. k \in Nat /\ c[k] \in Seq(Txs)
      BY <1>1, <1>2
    <3> QED BY <1>3, <3>1, BlockChangesTypes
  <2>2. BlockChangeRecs(c[k], k) \subseteq ChangesBelow(l)
    BY DEF BlockChangeRecs, ChangesBelow
  <2> QED BY <2>1, <2>2, SeqWider
<1>5. f \in [1..l -> Seq(ChangesBelow(l))]
  BY <1>3, <1>4
<1>6. FlattenSeq(f) \in Seq(ChangesBelow(l))
  BY <1>5, FlattenTypes
<1>7. ChangesOn(c) = FlattenSeq(f)
  BY <1>2, <1>3 DEF ChangesOn
<1>8. ChangesBelow(l) \subseteq ChangeRecs
  BY DEF ChangesBelow
<1> QED BY <1>2, <1>6, <1>7, <1>8, SeqWider

\* The blocks of a chain on which no transaction is twice, but for the last.
LEMMA SoleBelow ==
    ASSUME NEW c \in Seq(Seq(Txs)), NEW b \in Seq(Txs), Sole(Append(c, b))
    PROVE  Sole(c) /\ IsInjective(b)
<1>1. PICK l \in Nat, d \in Seq(Seq(Txs)) :
        l = Len(c) /\ d = Append(c, b) /\ Len(d) = l + 1 /\ d[l + 1] = b /\ \A g \in 1..l : d[g] = c[g]
  BY Onto
<1>2. l + 1 \in 1..l + 1 /\ \A g \in 1..l : g \in 1..l + 1
  OBVIOUS
<1>3. Sole(d)
  BY <1>1
<1>4. Sole(c)
  BY <1>1, <1>2, <1>3 DEF Sole
<1>5. IsInjective(b)
  <2>1. \A k \in DOMAIN d[l + 1], j \in DOMAIN d[l + 1] : d[l + 1][k] = d[l + 1][j] => k = j
    BY <1>1, <1>2, <1>3 DEF Sole
  <2> QED BY <1>1, <2>1 DEF IsInjective
<1> QED BY <1>4, <1>5

LEMMA ChangesAlone ==
    ASSUME NEW c \in Seq(Seq(Txs)), Sole(c)
    PROVE  IsInjective(ChangesOn(c))
<1>1. PICK T : T = Seq(Txs)
  OBVIOUS
<1> DEFINE G == {q \in Seq(T) : Sole(q) => IsInjective(ChangesOn(q))}
<1>2. <<>> \in G
  <2>1. ChangesOn(<<>>) = <<>> /\ IsInjective(<<>>)
    BY NoChangesOn DEF IsInjective
  <2> QED BY <2>1, EmptySeq
<1>3. ASSUME NEW q \in Seq(T), q \in G, NEW b \in T PROVE Append(q, b) \in G
  <2>1. q \in Seq(Seq(Txs)) /\ b \in Seq(Txs)
    BY <1>1
  <2>2. ASSUME Sole(Append(q, b)) PROVE IsInjective(ChangesOn(Append(q, b)))
    <3>1. PICK h \in Nat, l \in Nat : l = Len(q) /\ h = l + 1
      BY <2>1, Onto
    <3>2. PICK u, v : u = ChangesOn(q) /\ v = BlockChanges(b, h)
      OBVIOUS
    <3>3. IsInjective(u) /\ IsInjective(v)
      <4>1. Sole(q) /\ IsInjective(b)
        BY <2>1, <2>2, SoleBelow
      <4> QED BY <1>3, <2>1, <3>2, <4>1, BlockChangesAlone
    <3>4. /\ u \in Seq(ChangesBelow(l)) /\ v \in Seq(BlockChangeRecs(b, h))
          /\ u \in Seq(ChangeRecs) /\ v \in Seq(ChangeRecs)
      BY <2>1, <3>1, <3>2, ChangesOnTypes, BlockChangesTypes
    <3>5. \A k \in DOMAIN u, j \in DOMAIN v : u[k] # v[j]
      <4>1. \A k \in DOMAIN u : u[k].height \in 1..l
        <5>1. \A k \in DOMAIN u : u[k] \in ChangesBelow(l)
          BY <3>4, ElementOfSeq, LenProperties
        <5> QED BY <5>1 DEF ChangesBelow
      <4>2. \A j \in DOMAIN v : v[j].height = h
        <5>1. \A j \in DOMAIN v : v[j] \in BlockChangeRecs(b, h)
          BY <3>4, ElementOfSeq, LenProperties
        <5> QED BY <5>1 DEF BlockChangeRecs
      <4>3. h \notin 1..l
        BY <3>1
      <4> QED BY <4>1, <4>2, <4>3
    <3>6. IsInjective(u \o v)
      BY <3>3, <3>4, <3>5, InjectiveConcat
    <3> QED BY <2>1, <3>1, <3>2, <3>6, ChangesOnAppend
  <2>3. Append(q, b) \in Seq(T)
    BY AppendProperties
  <2> QED BY <2>2, <2>3
<1>4. \A q \in Seq(T) : q \in G
  <2> HIDE DEF G
  <2> QED BY <1>2, <1>3, SeqsByAppending
<1> QED BY <1>1, <1>4

-------------------------------------------------------------------------------
(* The index of changes.                                                     *)

\* The changes of a state and of a transaction.
StateRecs(s) == {r \in ChangeRecs : r.state = s}
TxRecs(t) == {r \in ChangeRecs : r.tx = t}

\* The changes of the index are the last of q.
ChangesTell(i, q) ==
    /\ i \in Indexes /\ Len(i.changes) <= MaxStateChanges /\ EndOf(ChangeRecs, i.changes, q)
    /\ \A s \in States : i.changesByState[s] = Filtered(i.changes, StateRecs(s))
    /\ \A t \in Txs : i.changesByTx[t] = Filtered(i.changes, TxRecs(t))

\* What a filter makes of the head and of the rest.
LEMMA FilteredHead ==
    ASSUME NEW X, NEW q \in Seq(X), q # <<>>, NEW S
    PROVE  Filtered(q, S) = IF Head(q) \in S THEN <<Head(q)>> \o Filtered(Tail(q), S) ELSE Filtered(Tail(q), S)
<1>1. PICK x \in X, r \in Seq(X) : x = Head(q) /\ r = Tail(q) /\ q = <<x>> \o r
  BY HeadApart
<1>2. PICK o : o = <<x>>
  OBVIOUS
<1>3. o \in Seq(X) /\ \A i \in DOMAIN o : o[i] = x
  BY <1>2
<1>4. Filtered(o, S) = IF x \in S THEN o ELSE <<>>
  BY <1>3, FilteredWhole
<1>5. Filtered(o \o r, S) = Filtered(o, S) \o Filtered(r, S)
  BY <1>3, FilteredConcat
<1>6. PICK m \in Seq(X) : m = Filtered(r, S) /\ <<>> \o m = m
  BY FilteredProperties, ConcatEmptySeq
<1> QED BY <1>1, <1>2, <1>4, <1>5, <1>6

\* One element, in front.
LEMMA InFront ==
    ASSUME NEW X, NEW x \in X, NEW r \in Seq(X)
    PROVE  <<x>> \o r \in Seq(X) /\ <<x>> \o r # <<>> /\ Head(<<x>> \o r) = x /\ Tail(<<x>> \o r) = r
<1>0. PICK o : o = <<x>>
  OBVIOUS
<1>1. o \in Seq(X) /\ Len(o) = 1 /\ o[1] = x
  BY <1>0
<1>2. PICK n \in Nat : n = Len(r) /\ DOMAIN r = 1..n
  BY LenProperties
<1>3. PICK q \in Seq(X) : q = o \o r /\ Len(q) = n + 1 /\ \A i \in 1..n + 1 : q[i] = IF i <= 1 THEN x ELSE r[i - 1]
  <2>1. o \o r \in Seq(X) /\ Len(o \o r) = Len(o) + Len(r)
        /\ \A i \in 1..Len(o) + Len(r) : (o \o r)[i] = IF i <= Len(o) THEN o[i] ELSE r[i - Len(o)]
    BY <1>1, ConcatProperties
  <2>2. 1 + n = n + 1
    BY <1>2
  <2>3. Len(o \o r) = n + 1 /\ \A i \in 1..n + 1 : (o \o r)[i] = IF i <= 1 THEN o[i] ELSE r[i - 1]
    BY <1>1, <1>2, <2>1, <2>2
  <2>4. \A i \in 1..n + 1 : i <= 1 => i = 1
    OBVIOUS
  <2>5. PICK q \in Seq(X) : q = o \o r
    BY <2>1
  <2>6. Len(q) = n + 1 /\ \A i \in 1..n + 1 : q[i] = IF i <= 1 THEN x ELSE r[i - 1]
    BY <1>1, <2>3, <2>4, <2>5
  <2> QED BY <2>5, <2>6
<1>4. q # <<>> /\ q[1] = x
  <2>1. 1 \in 1..n + 1
    BY <1>2
  <2> QED BY <1>3, <2>1
<1>5. Head(q) = x
  BY <1>4
<1>6. Tail(q) \in Seq(X) /\ Len(Tail(q)) = n /\ \A i \in 1..n : Tail(q)[i] = q[i + 1]
  <2>1. /\ Tail(q) \in Seq(X) /\ Len(Tail(q)) = Len(q) - 1
        /\ \A i \in 1..Len(Tail(q)) : Tail(q)[i] = q[i + 1]
    BY <1>4, HeadTailProperties
  <2> QED BY <1>3, <2>1
<1>7. \A i \in 1..n : q[i + 1] = r[i]
  <2>1. \A i \in 1..n : i + 1 \in 1..n + 1 /\ ~(i + 1 <= 1) /\ (i + 1) - 1 = i
    BY <1>2
  <2> QED BY <1>3, <2>1
<1>8. Tail(q) = r
  BY <1>2, <1>6, <1>7, SeqEqual
<1> QED BY <1>0, <1>3, <1>4, <1>5, <1>8

LEMMA ChangesMade ==
    ASSUME NEW i \in Indexes, NEW j, SameTxs(i, j),
           j = [txs |-> j.txs, bySender |-> j.bySender, byState |-> j.byState, byHeight |-> j.byHeight,
                from |-> j.from, to |-> j.to, changes |-> j.changes, changesByState |-> j.changesByState,
                changesByTx |-> j.changesByTx],
           j.changes \in Seq(ChangeRecs), j.changesByState \in [States -> Seq(ChangeRecs)],
           j.changesByTx \in [Txs -> Seq(ChangeRecs)]
    PROVE  j \in Indexes
<1>1. i.txs \in UNION {[D -> Nat] : D \in SUBSET Txs} /\ i.byHeight \in UNION {[D -> Seq(Txs)] : D \in SUBSET Nat}
  BY DEF Indexes
<1>2. i.bySender \in [Senders -> Seq(Txs)] /\ i.byState \in [States -> Seq(Txs)] /\ i.from \in Nat /\ i.to \in Nat
  BY IndexTypes
<1> QED BY <1>1, <1>2 DEF Indexes, SameTxs

\* evictOldestStateChange.
LEMMA OldestChangeOut ==
    ASSUME NEW i \in Indexes, i.changes # <<>>, NEW j, j = EvictOldestStateChange(i)
    PROVE  /\ j \in Indexes /\ SameTxs(i, j) /\ j.changes = Tail(i.changes)
           /\ \A s \in States : j.changesByState[s] =
                IF s = Head(i.changes).state /\ i.changesByState[s] # <<>> /\ Head(i.changesByState[s]) = Head(i.changes)
                THEN Tail(i.changesByState[s]) ELSE i.changesByState[s]
           /\ \A t \in Txs : j.changesByTx[t] =
                IF t = Head(i.changes).tx THEN Without(i.changesByTx[t], Head(i.changes)) ELSE i.changesByTx[t]
<1>1. /\ i.changes \in Seq(ChangeRecs) /\ i.changesByState \in [States -> Seq(ChangeRecs)]
      /\ i.changesByTx \in [Txs -> Seq(ChangeRecs)]
      /\ i = [txs |-> i.txs, bySender |-> i.bySender, byState |-> i.byState, byHeight |-> i.byHeight,
              from |-> i.from, to |-> i.to, changes |-> i.changes, changesByState |-> i.changesByState,
              changesByTx |-> i.changesByTx]
  BY IndexTypes
<1>2. PICK o \in ChangeRecs, r \in Seq(ChangeRecs) : o = Head(i.changes) /\ r = Tail(i.changes)
  BY <1>1, HeadTailProperties
<1>3. o.state \in States /\ o.tx \in Txs
  BY DEF ChangeRecs
<1>4. /\ SameTxs(i, j) /\ j.changes = r
      /\ j.changesByState = [i.changesByState EXCEPT ![o.state] = IF @ # <<>> /\ Head(@) = o THEN Tail(@) ELSE @]
      /\ j.changesByTx = [i.changesByTx EXCEPT ![o.tx] = Without(@, o)]
      /\ j = [txs |-> j.txs, bySender |-> j.bySender, byState |-> j.byState, byHeight |-> j.byHeight,
              from |-> j.from, to |-> j.to, changes |-> j.changes, changesByState |-> j.changesByState,
              changesByTx |-> j.changesByTx]
  BY <1>1, <1>2 DEF EvictOldestStateChange, SameTxs
<1>5. j.changesByState = [s \in States |-> IF s = o.state /\ i.changesByState[s] # <<>> /\ Head(i.changesByState[s]) = o
                                           THEN Tail(i.changesByState[s]) ELSE i.changesByState[s]]
  BY <1>1, <1>3, <1>4
<1>6. j.changesByTx = [t \in Txs |-> IF t = o.tx THEN Without(i.changesByTx[t], o) ELSE i.changesByTx[t]]
  BY <1>1, <1>3, <1>4
<1>7. j.changesByState \in [States -> Seq(ChangeRecs)]
  <2>1. \A s \in States : i.changesByState[s] \in Seq(ChangeRecs)
    BY <1>1
  <2>2. \A s \in States : i.changesByState[s] # <<>> => Tail(i.changesByState[s]) \in Seq(ChangeRecs)
    BY <2>1, HeadTailProperties
  <2> QED BY <1>5, <2>1, <2>2
<1>8. j.changesByTx \in [Txs -> Seq(ChangeRecs)]
  <2>1. \A t \in Txs : i.changesByTx[t] \in Seq(ChangeRecs)
    BY <1>1
  <2>2. \A t \in Txs : Without(i.changesByTx[t], o) \in Seq(ChangeRecs)
    BY <2>1, FilteredProperties DEF Without
  <2> QED BY <1>6, <2>1, <2>2
<1>9. j \in Indexes
  BY <1>4, <1>7, <1>8, ChangesMade
<1> QED BY <1>2, <1>4, <1>5, <1>6, <1>9

LEMMA OldestChangeEvicted ==
    ASSUME NEW q \in Seq(ChangeRecs), IsInjective(q), NEW i, ChangesTell(i, q), i.changes # <<>>,
           NEW j, j = EvictOldestStateChange(i)
    PROVE  ChangesTell(j, q) /\ SameTxs(i, j) /\ Len(j.changes) = Len(i.changes) - 1
<1>1. i \in Indexes
  BY DEF ChangesTell
<1>2. PICK p \in Seq(ChangeRecs) : p = i.changes /\ p # <<>> /\ EndOf(ChangeRecs, p, q) /\ IsInjective(p) /\ Len(p) <= MaxStateChanges
  <2>1. i.changes \in Seq(ChangeRecs)
    BY <1>1, IndexTypes
  <2> QED BY <2>1, EndFacts DEF ChangesTell
<1>3. PICK o \in ChangeRecs, r \in Seq(ChangeRecs) :
        o = Head(p) /\ r = Tail(p) /\ Len(r) = Len(p) - 1 /\ EndOf(ChangeRecs, r, q) /\ IsInjective(r) /\ o \notin ToSet(r)
  <2>1. Head(p) \in ChangeRecs /\ Tail(p) \in Seq(ChangeRecs) /\ Len(Tail(p)) = Len(p) - 1
        /\ IsInjective(Tail(p)) /\ Head(p) \notin ToSet(Tail(p))
    BY <1>2, HeadApart
  <2> QED BY <1>2, <2>1, EndFacts
<1>4. /\ j \in Indexes /\ SameTxs(i, j) /\ j.changes = r
      /\ \A s \in States : j.changesByState[s] =
           IF s = o.state /\ i.changesByState[s] # <<>> /\ Head(i.changesByState[s]) = o
           THEN Tail(i.changesByState[s]) ELSE i.changesByState[s]
      /\ \A t \in Txs : j.changesByTx[t] = IF t = o.tx THEN Without(i.changesByTx[t], o) ELSE i.changesByTx[t]
  BY <1>1, <1>2, <1>3, OldestChangeOut
<1>5. ASSUME NEW s \in States PROVE j.changesByState[s] = Filtered(r, StateRecs(s))
  <2>1. PICK m \in Seq(ChangeRecs) : m = Filtered(r, StateRecs(s))
    BY FilteredProperties
  <2>2. i.changesByState[s] = IF o \in StateRecs(s) THEN <<o>> \o m ELSE m
    BY <1>2, <1>3, <2>1, FilteredHead DEF ChangesTell
  <2>3. o \in StateRecs(s) <=> s = o.state
    BY DEF StateRecs
  <2>4. <<o>> \o m # <<>> /\ Head(<<o>> \o m) = o /\ Tail(<<o>> \o m) = m
    BY InFront
  <2> QED BY <1>4, <2>1, <2>2, <2>3, <2>4
<1>6. ASSUME NEW t \in Txs PROVE j.changesByTx[t] = Filtered(r, TxRecs(t))
  <2>1. PICK m \in Seq(ChangeRecs) : m = Filtered(r, TxRecs(t))
    BY FilteredProperties
  <2>2. i.changesByTx[t] = Filtered(p, TxRecs(t)) /\ i.changesByTx[t] = IF o \in TxRecs(t) THEN <<o>> \o m ELSE m
    BY <1>2, <1>3, <2>1, FilteredHead DEF ChangesTell
  <2>3. o \in TxRecs(t) <=> t = o.tx
    BY DEF TxRecs
  <2>4. PICK a \in Seq(ChangeRecs) : a = <<o>> \o m /\ a # <<>> /\ Head(a) = o /\ Tail(a) = m
    BY InFront
  <2>5. IsInjective(Filtered(p, TxRecs(t)))
    BY <1>2, FilteredProperties
  <2>6. o \in TxRecs(t) => Without(a, o) = m
    <3>1. o \in TxRecs(t) => IsInjective(a)
      BY <2>2, <2>4, <2>5
    <3>2. IsInjective(a) => Without(a, Head(a)) = Tail(a)
      BY <2>4, WithoutHead
    <3> QED BY <2>4, <3>1, <3>2
  <2> QED BY <1>4, <2>1, <2>2, <2>3, <2>4, <2>6
<1>7. Len(r) <= MaxStateChanges
  <2>1. Len(p) \in Nat /\ MaxStateChanges \in Nat
    BY IndexerAssumption, LenProperties
  <2> QED BY <1>2, <1>3, <2>1
<1>8. ChangesTell(j, q)
  BY <1>3, <1>4, <1>5, <1>6, <1>7 DEF ChangesTell
<1> QED BY <1>2, <1>3, <1>4, <1>8

\* addStateChange, once there is room.
WithChange(room, change) ==
    [room EXCEPT !.changes = Append(@, change), !.changesByState[change.state] = Append(@, change),
                 !.changesByTx[change.tx] = Append(@, change)]

LEMMA ChangeIn ==
    ASSUME NEW i \in Indexes, NEW x \in ChangeRecs, NEW j, j = WithChange(i, x)
    PROVE  /\ j \in Indexes /\ SameTxs(i, j) /\ j.changes = Append(i.changes, x)
           /\ \A s \in States : j.changesByState[s] = IF s = x.state THEN Append(i.changesByState[s], x) ELSE i.changesByState[s]
           /\ \A t \in Txs : j.changesByTx[t] = IF t = x.tx THEN Append(i.changesByTx[t], x) ELSE i.changesByTx[t]
<1>1. /\ i.changes \in Seq(ChangeRecs) /\ i.changesByState \in [States -> Seq(ChangeRecs)]
      /\ i.changesByTx \in [Txs -> Seq(ChangeRecs)]
      /\ i = [txs |-> i.txs, bySender |-> i.bySender, byState |-> i.byState, byHeight |-> i.byHeight,
              from |-> i.from, to |-> i.to, changes |-> i.changes, changesByState |-> i.changesByState,
              changesByTx |-> i.changesByTx]
  BY IndexTypes
<1>2. x.state \in States /\ x.tx \in Txs
  BY DEF ChangeRecs
<1>3. /\ SameTxs(i, j) /\ j.changes = Append(i.changes, x)
      /\ j.changesByState = [i.changesByState EXCEPT ![x.state] = Append(@, x)]
      /\ j.changesByTx = [i.changesByTx EXCEPT ![x.tx] = Append(@, x)]
      /\ j = [txs |-> j.txs, bySender |-> j.bySender, byState |-> j.byState, byHeight |-> j.byHeight,
              from |-> j.from, to |-> j.to, changes |-> j.changes, changesByState |-> j.changesByState,
              changesByTx |-> j.changesByTx]
  BY <1>1 DEF WithChange, SameTxs
<1>4. /\ j.changesByState = [s \in States |-> IF s = x.state THEN Append(i.changesByState[s], x) ELSE i.changesByState[s]]
      /\ j.changesByTx = [t \in Txs |-> IF t = x.tx THEN Append(i.changesByTx[t], x) ELSE i.changesByTx[t]]
  BY <1>1, <1>2, <1>3
<1>5. \A q \in Seq(ChangeRecs) : Append(q, x) \in Seq(ChangeRecs)
  BY AppendProperties
<1>6. /\ j.changes \in Seq(ChangeRecs) /\ j.changesByState \in [States -> Seq(ChangeRecs)]
      /\ j.changesByTx \in [Txs -> Seq(ChangeRecs)]
  <2>1. \A s \in States : i.changesByState[s] \in Seq(ChangeRecs) /\ Append(i.changesByState[s], x) \in Seq(ChangeRecs)
    BY <1>1, <1>5
  <2>2. \A t \in Txs : i.changesByTx[t] \in Seq(ChangeRecs) /\ Append(i.changesByTx[t], x) \in Seq(ChangeRecs)
    BY <1>1, <1>5
  <2>3. j.changes \in Seq(ChangeRecs)
    BY <1>1, <1>3, <1>5
  <2>4. j.changesByState \in [States -> Seq(ChangeRecs)]
    BY <1>4, <2>1
  <2>5. j.changesByTx \in [Txs -> Seq(ChangeRecs)]
    BY <1>4, <2>2
  <2> QED BY <2>3, <2>4, <2>5
<1>7. j \in Indexes
  BY <1>3, <1>6, ChangesMade
<1> QED BY <1>3, <1>4, <1>7

\* Room for a change.
LEMMA ChangeRoom ==
    ASSUME NEW i \in Indexes, NEW x \in ChangeRecs
    PROVE  \E room : /\ room = (IF Len(i.changes) >= MaxStateChanges THEN EvictOldestStateChange(i) ELSE i)
                     /\ AddStateChange(i, x) = WithChange(room, x) /\ room \in Indexes /\ SameTxs(i, room)
                     /\ (Len(i.changes) >= MaxStateChanges => i.changes # <<>>)
<1>1. Len(i.changes) >= MaxStateChanges => i.changes # <<>>
  <2>1. MaxStateChanges \in Nat \ {0} /\ Len(<<>>) = 0
    BY IndexerAssumption
  <2> QED BY <2>1
<1>2. PICK room : room = IF Len(i.changes) >= MaxStateChanges THEN EvictOldestStateChange(i) ELSE i
  OBVIOUS
<1>3. room \in Indexes /\ SameTxs(i, room)
  <2>1. CASE Len(i.changes) >= MaxStateChanges
    BY <1>1, <1>2, <2>1, OldestChangeOut
  <2>2. CASE ~(Len(i.changes) >= MaxStateChanges)
    BY <1>2, <2>2 DEF SameTxs
  <2> QED BY <2>1, <2>2
<1>4. AddStateChange(i, x) = WithChange(room, x)
  BY <1>2 DEF AddStateChange, WithChange
<1> QED BY <1>1, <1>2, <1>3, <1>4

LEMMA AddStateChangeTypes ==
    ASSUME NEW i \in Indexes, NEW x \in ChangeRecs
    PROVE  AddStateChange(i, x) \in Indexes /\ SameTxs(i, AddStateChange(i, x))
<1>1. PICK room \in Indexes : AddStateChange(i, x) = WithChange(room, x) /\ SameTxs(i, room)
  BY ChangeRoom
<1>2. AddStateChange(i, x) \in Indexes /\ SameTxs(room, AddStateChange(i, x))
  BY <1>1, ChangeIn
<1> QED BY <1>1, <1>2 DEF SameTxs

\* addStateChange of the next change of q.
LEMMA ChangeAdded ==
    ASSUME NEW q \in Seq(ChangeRecs), IsInjective(q), NEW i, ChangesTell(i, q), NEW x \in ChangeRecs
    PROVE  ChangesTell(AddStateChange(i, x), Append(q, x))
<1>1. i \in Indexes /\ i.changes \in Seq(ChangeRecs) /\ Len(i.changes) \in Nat /\ MaxStateChanges \in Nat \ {0}
  <2>1. i \in Indexes
    BY DEF ChangesTell
  <2>2. i.changes \in Seq(ChangeRecs)
    BY <2>1, IndexTypes
  <2> QED BY <2>1, <2>2, IndexerAssumption, LenProperties
<1>2. PICK room \in Indexes : /\ room = (IF Len(i.changes) >= MaxStateChanges THEN EvictOldestStateChange(i) ELSE i)
                              /\ AddStateChange(i, x) = WithChange(room, x)
                              /\ (Len(i.changes) >= MaxStateChanges => i.changes # <<>>)
  BY <1>1, ChangeRoom
<1>3. ChangesTell(room, q) /\ Len(room.changes) + 1 <= MaxStateChanges
  <2>1. CASE Len(i.changes) >= MaxStateChanges
    <3>1. ChangesTell(room, q) /\ Len(room.changes) = Len(i.changes) - 1
      BY <1>2, <2>1, OldestChangeEvicted
    <3>2. Len(i.changes) <= MaxStateChanges
      BY DEF ChangesTell
    <3> QED BY <1>1, <3>1, <3>2
  <2>2. CASE ~(Len(i.changes) >= MaxStateChanges)
    BY <1>1, <1>2, <2>2
  <2> QED BY <2>1, <2>2
<1>4. PICK j : j = AddStateChange(i, x)
  OBVIOUS
<1>5. PICK p \in Seq(ChangeRecs) : p = room.changes /\ EndOf(ChangeRecs, p, q)
  BY <1>3, IndexTypes DEF ChangesTell
<1>6. /\ j \in Indexes /\ j.changes = Append(p, x)
      /\ \A s \in States : j.changesByState[s] = IF s = x.state THEN Append(room.changesByState[s], x) ELSE room.changesByState[s]
      /\ \A t \in Txs : j.changesByTx[t] = IF t = x.tx THEN Append(room.changesByTx[t], x) ELSE room.changesByTx[t]
  <2>1. j = WithChange(room, x)
    BY <1>2, <1>4
  <2>2. /\ j \in Indexes /\ j.changes = Append(room.changes, x)
        /\ \A s \in States : j.changesByState[s] = IF s = x.state THEN Append(room.changesByState[s], x) ELSE room.changesByState[s]
        /\ \A t \in Txs : j.changesByTx[t] = IF t = x.tx THEN Append(room.changesByTx[t], x) ELSE room.changesByTx[t]
    BY <2>1, ChangeIn
  <2> QED BY <1>5, <2>2
<1>7. Len(Append(p, x)) <= MaxStateChanges /\ EndOf(ChangeRecs, Append(p, x), Append(q, x))
  <2>1. Len(Append(p, x)) = Len(p) + 1
    BY AppendProperties
  <2> QED BY <1>3, <1>5, <2>1, EndFacts
<1>8. ASSUME NEW s \in States PROVE j.changesByState[s] = Filtered(Append(p, x), StateRecs(s))
  <2>1. room.changesByState[s] = Filtered(p, StateRecs(s))
    BY <1>3, <1>5 DEF ChangesTell
  <2>2. x \in StateRecs(s) <=> s = x.state
    BY DEF StateRecs
  <2>3. Filtered(Append(p, x), StateRecs(s)) = IF x \in StateRecs(s) THEN Append(Filtered(p, StateRecs(s)), x) ELSE Filtered(p, StateRecs(s))
    BY FilteredAppend
  <2> QED BY <1>6, <2>1, <2>2, <2>3
<1>9. ASSUME NEW t \in Txs PROVE j.changesByTx[t] = Filtered(Append(p, x), TxRecs(t))
  <2>1. room.changesByTx[t] = Filtered(p, TxRecs(t))
    BY <1>3, <1>5 DEF ChangesTell
  <2>2. x \in TxRecs(t) <=> t = x.tx
    BY DEF TxRecs
  <2>3. Filtered(Append(p, x), TxRecs(t)) = IF x \in TxRecs(t) THEN Append(Filtered(p, TxRecs(t)), x) ELSE Filtered(p, TxRecs(t))
    BY FilteredAppend
  <2> QED BY <1>6, <2>1, <2>2, <2>3
<1>10. ChangesTell(j, Append(q, x))
  BY <1>6, <1>7, <1>8, <1>9 DEF ChangesTell
<1> QED BY <1>4, <1>10

\* A sequence without repetitions has none up to any place.
LEMMA PrefixAlone ==
    ASSUME NEW X, NEW q \in Seq(X), NEW e \in Seq(X), IsInjective(q \o e), NEW k \in 0..Len(e)
    PROVE  q \o SubSeq(e, 1, k) \in Seq(X) /\ IsInjective(q \o SubSeq(e, 1, k))
<1>1. PICK p \in Seq(X) : p = SubSeq(e, 1, k) /\ Len(p) = k
  <2>1. SubSeq(e, 1, k) \in Seq(X) /\ Len(SubSeq(e, 1, k)) = k
    BY PrefixGrows
  <2> QED BY <2>1
<1>2. PICK m \in Nat, n \in Nat : m = Len(q) /\ n = Len(e) /\ k \in 0..n
  BY LenProperties
<1>3. \A i \in 1..k : p[i] = e[i]
  <2>1. \A i \in 1..n : e[i] \in X
    BY <1>2, ElementOfSeq
  <2>2. \A i \in 1..k : e[i] \in X
    BY <1>2, <2>1
  <2>3. \A i \in 1..k - 1 + 1 : SubSeq(e, 1, k)[i] = e[1 + i - 1]
    BY <1>2, <2>2, SubSeqProperties
  <2> QED BY <1>1, <1>2, <2>3
<1>4. /\ q \o p \in Seq(X) /\ Len(q \o p) = m + k /\ \A i \in 1..m + k : (q \o p)[i] = IF i <= m THEN q[i] ELSE p[i - m]
  BY <1>1, <1>2, ConcatProperties
<1>5. /\ q \o e \in Seq(X) /\ Len(q \o e) = m + n /\ \A i \in 1..m + n : (q \o e)[i] = IF i <= m THEN q[i] ELSE e[i - m]
  BY <1>2, ConcatProperties
<1>6. PICK u, v : u = q \o p /\ v = q \o e
  OBVIOUS
<1>7. DOMAIN u = 1..m + k /\ DOMAIN v = 1..m + n
  BY <1>4, <1>5, <1>6, LenProperties
<1>8. ASSUME NEW i \in 1..m + k PROVE i \in 1..m + n /\ u[i] = v[i]
  <2>1. i \in 1..m + n
    BY <1>2
  <2>2. ~(i <= m) => i - m \in 1..k
    BY <1>2
  <2> QED BY <1>3, <1>4, <1>5, <1>6, <2>1, <2>2
<1>9. IsInjective(u)
  <2>1. ASSUME NEW i \in 1..m + k, NEW j \in 1..m + k, u[i] = u[j] PROVE i = j
    <3>1. i \in 1..m + n /\ j \in 1..m + n /\ v[i] = v[j]
      BY <1>8, <2>1
    <3> QED BY <1>6, <1>7, <3>1 DEF IsInjective
  <2> QED BY <1>7, <2>1 DEF IsInjective
<1> QED BY <1>1, <1>4, <1>6, <1>9

\* The changes of the index after all of e.
LEMMA ChangesAllTell ==
    ASSUME NEW q \in Seq(ChangeRecs), NEW e \in Seq(ChangeRecs), IsInjective(q \o e),
           NEW i, ChangesTell(i, q), NEW j, j = FoldLeft(AddStateChange, i, e)
    PROVE  ChangesTell(j, q \o e) /\ SameTxs(i, j)
<1> DEFINE P == {x \in Indexes : SameTxs(i, x)}
<1>1. ChangesStay(P, ChangeRecs)
  <2>1. ASSUME NEW x \in P, NEW t \in ChangeRecs PROVE AddStateChange(x, t) \in P
    <3>1. AddStateChange(x, t) \in Indexes /\ SameTxs(x, AddStateChange(x, t)) /\ SameTxs(i, x)
      BY AddStateChangeTypes
    <3>2. SameTxs(i, AddStateChange(x, t))
      BY <3>1 DEF SameTxs
    <3> QED BY <3>1, <3>2
  <2> QED BY <2>1 DEF ChangesStay
<1>2. i \in P
  BY DEF SameTxs, ChangesTell
<1>3. PICK r : ChangesTrace(P, ChangeRecs, i, e, r) /\ r[Len(e)] = j
  <2> HIDE DEF P
  <2> QED BY <1>1, <1>2, ChangesLead
<1>4. PICK n \in Nat : n = Len(e)
  BY LenProperties
<1>5. r[n] \in P
  BY <1>3, <1>4 DEF ChangesTrace
<1> DEFINE On(k) == q \o SubSeq(e, 1, k)
           S == {k \in 0..n : ChangesTell(r[k], On(k))}
<1>6. 0 \in S
  <2>1. On(0) = q
    BY PrefixGrows, ConcatEmptySeq
  <2>2. r[0] = i
    BY <1>3 DEF ChangesTrace
  <2> HIDE DEF On
  <2>3. ChangesTell(r[0], On(0))
    BY <2>1, <2>2
  <2> QED BY <1>4, <2>3
<1>7. ASSUME NEW k \in 1..n, k - 1 \in S PROVE k \in S
  <2>1. PICK p \in Seq(ChangeRecs), x \in ChangeRecs : p = SubSeq(e, 1, k - 1) /\ x = e[k] /\ SubSeq(e, 1, k) = Append(p, x)
    <3>1. k - 1 \in 0..n
      OBVIOUS
    <3>2. SubSeq(e, 1, k - 1) \in Seq(ChangeRecs)
      BY <1>4, <3>1, PrefixGrows
    <3>3. SubSeq(e, 1, k) = Append(SubSeq(e, 1, k - 1), e[k]) /\ e[k] \in ChangeRecs
      BY <1>4, PrefixGrows
    <3> QED BY <3>2, <3>3
  <2>2. PICK d \in Seq(ChangeRecs) : d = q \o p /\ IsInjective(d)
    <3>1. k - 1 \in 0..Len(e)
      BY <1>4
    <3> QED BY <2>1, <3>1, PrefixAlone
  <2>3. On(k) = Append(d, x)
    BY <2>1, <2>2, ConcatAppend
  <2>4. On(k - 1) = d
    BY <2>1, <2>2
  <2>5. r[k] = AddStateChange(r[k - 1], x)
    BY <1>3, <1>4, <2>1 DEF ChangesTrace
  <2> HIDE DEF On
  <2>6. ChangesTell(r[k - 1], d)
    BY <1>7, <2>4
  <2>7. ChangesTell(r[k], On(k))
    BY <2>2, <2>3, <2>5, <2>6, ChangeAdded
  <2> QED BY <2>7
<1>8. n \in S
  <2> HIDE DEF S
  <2>1. \A k \in 0..n : k \in S
    BY <1>6, <1>7, StepByStep
  <2> QED BY <2>1
<1>9. On(n) = q \o e
  BY <1>4, PrefixGrows
<1>10. SameTxs(i, j)
  BY <1>3, <1>4, <1>5
<1> HIDE DEF On
<1> QED BY <1>3, <1>4, <1>8, <1>9, <1>10

\* The index tells what the chain c tells.
IxTells(i, c) ==
    /\ ListsHold(i) /\ HoldsNewest(i, c) /\ Cardinality(Held(i)) <= MaxIndexedTxs
    /\ ChangesTell(i, ChangesOn(c))

\* indexBlock.
LEMMA BlockIndexed ==
    ASSUME NEW c \in Seq(Seq(Txs)), NEW b \in Seq(Txs), Sole(Append(c, b)), NEW i, IxTells(i, c)
    PROVE  IxTells(IndexBlock(i, b, Len(c) + 1), Append(c, b))
<1>1. PICK h \in Nat : h = Len(c) + 1
  BY Onto
<1>2. PICK d \in Seq(Seq(Txs)) : d = Append(c, b)
  BY Onto
<1>3. PICK m : m = IndexTxs(Ranged(i, h), b, h)
  OBVIOUS
<1>4. PICK j : j = FoldLeft(AddStateChange, m, BlockChanges(b, h))
  OBVIOUS
<1>5. IndexBlock(i, b, h) = j
  BY <1>3, <1>4 DEF IndexBlock, Ranged
<1>6. i \in Indexes /\ ListsHold(i) /\ HoldsNewest(i, c) /\ Cardinality(Held(i)) <= MaxIndexedTxs /\ ChangesTell(i, ChangesOn(c))
  BY DEF IxTells, ListsHold
<1>7. IndexOf(m, d)
  BY <1>1, <1>2, <1>3, <1>6, TxsIndexed
<1>8. m \in Indexes /\ SameChanges(i, m)
  <2>1. Ranged(i, h) \in Indexes /\ SameChanges(i, Ranged(i, h))
    BY <1>6, RangedTypes
  <2>2. m \in Indexes /\ SameChanges(Ranged(i, h), m)
    BY <1>3, <2>1, IndexTxsTypes
  <2> QED BY <2>1, <2>2 DEF SameChanges
<1>9. PICK q \in Seq(ChangeRecs), e \in Seq(ChangeRecs) :
        q = ChangesOn(c) /\ e = BlockChanges(b, h) /\ ChangesOn(d) = q \o e
  BY <1>1, <1>2, ChangesOnTypes, BlockChangesTypes, ChangesOnAppend
<1>10. IsInjective(q \o e)
  BY <1>2, <1>9, ChangesAlone
<1>11. ChangesTell(m, q)
  BY <1>6, <1>8, <1>9 DEF ChangesTell, SameChanges
<1>12. ChangesTell(j, q \o e) /\ SameTxs(m, j)
  BY <1>4, <1>9, <1>10, <1>11, ChangesAllTell
<1>13. j \in Indexes /\ Held(j) = Held(m)
  BY <1>12 DEF ChangesTell, SameTxs, Held
<1>14. ListsHold(j) /\ HoldsNewest(j, d) /\ Cardinality(Held(j)) <= MaxIndexedTxs
  <2>1. ListsHold(j)
    BY <1>7, <1>12, <1>13 DEF IndexOf, ListsHold, SameTxs
  <2>2. HoldsNewest(j, d)
    BY <1>7, <1>12, <1>13 DEF IndexOf, HoldsNewest, SameTxs
  <2> QED BY <1>7, <1>13, <2>1, <2>2 DEF IndexOf
<1>15. IxTells(j, d)
  BY <1>9, <1>12, <1>14 DEF IxTells
<1> QED BY <1>1, <1>2, <1>5, <1>15

LEMMA IndexBlockTypes ==
    ASSUME NEW i \in Indexes, NEW b \in Seq(Txs), NEW h \in Nat
    PROVE  IndexBlock(i, b, h) \in Indexes
<1>1. PICK m \in Indexes : m = IndexTxs(Ranged(i, h), b, h)
  BY RangedTypes, IndexTxsTypes
<1>2. PICK e \in Seq(ChangeRecs) : e = BlockChanges(b, h)
  BY BlockChangesTypes
<1>3. ChangesStay(Indexes, ChangeRecs)
  BY AddStateChangeTypes DEF ChangesStay
<1>4. PICK r : ChangesTrace(Indexes, ChangeRecs, m, e, r) /\ r[Len(e)] = FoldLeft(AddStateChange, m, e)
  BY <1>3, ChangesLead
<1>5. Len(e) \in 0..Len(e)
  BY LenProperties
<1>6. r[Len(e)] \in Indexes
  BY <1>4, <1>5 DEF ChangesTrace
<1> QED BY <1>1, <1>2, <1>4, <1>6 DEF IndexBlock, Ranged

\* A part of a chain.
LEMMA SoleUpTo ==
    ASSUME NEW c \in Seq(Seq(Txs)), Sole(c), NEW n \in 0..Len(c)
    PROVE  /\ SubSeq(c, 1, n) \in Seq(Seq(Txs)) /\ Len(SubSeq(c, 1, n)) = n /\ Sole(SubSeq(c, 1, n))
           /\ \A g \in 1..n : SubSeq(c, 1, n)[g] = c[g]
<1>1. PICK X : X = Seq(Txs)
  OBVIOUS
<1>2. PICK l \in Nat : l = Len(c) /\ c \in Seq(X) /\ n \in 0..l
  BY <1>1, LenProperties
<1>3. PICK p \in Seq(X) : p = SubSeq(c, 1, n) /\ Len(p) = n
  <2>1. SubSeq(c, 1, n) \in Seq(X) /\ Len(SubSeq(c, 1, n)) = n
    BY <1>2, PrefixGrows
  <2> QED BY <2>1
<1>4. \A g \in 1..n : p[g] = c[g] /\ g \in 1..l
  <2>1. \A g \in 1..l : c[g] \in X
    BY <1>2, ElementOfSeq
  <2>2. \A g \in 1..n : c[g] \in X /\ g \in 1..l
    BY <1>2, <2>1
  <2>3. \A g \in 1..n - 1 + 1 : SubSeq(c, 1, n)[g] = c[1 + g - 1]
    BY <1>2, <2>2, SubSeqProperties
  <2> QED BY <1>2, <1>3, <2>2, <2>3
<1>5. Sole(p)
  BY <1>2, <1>3, <1>4 DEF Sole
<1> QED BY <1>1, <1>3, <1>4, <1>5

\* The blocks of c above n.
LEMMA BlocksIndexed ==
    ASSUME NEW c \in Seq(Seq(Txs)), Sole(c), NEW n \in 0..Len(c), NEW i, IxTells(i, SubSeq(c, 1, n))
    PROVE  IxTells(IndexBlocks(i, c, NewHeights(n, c)), c)
<1>1. PICK q, m : q = NewHeights(n, c) /\ m = Len(c) - n
  OBVIOUS
<1>2. /\ Len(c) \in Nat /\ m \in Nat /\ q \in Seq(1..Len(c)) /\ Len(q) = m
      /\ (\A k \in 1..m : q[k] = n + k /\ n + k \in 1..Len(c)) /\ \A h \in 1..Len(c) : c[h] \in Seq(Txs)
  <2>1. /\ Len(c) \in Nat /\ q \in Seq(1..Len(c)) /\ Len(q) = m
        /\ \A k \in 1..m : q[k] = n + k /\ n + k \in 1..Len(c)
    BY <1>1, Above
  <2>2. \A h \in 1..Len(c) : c[h] \in Seq(Txs)
    BY Above
  <2> QED BY <1>1, <2>1, <2>2
<1>3. PICK X : X = Seq(Txs)
  OBVIOUS
<1>4. c \in Seq(X)
  BY <1>3
<1>5. IndexesStay(c, Indexes, 1..Len(c))
  <2>1. ASSUME NEW x \in Indexes, NEW h \in 1..Len(c) PROVE IndexBlock(x, c[h], h) \in Indexes
    <3>1. c[h] \in Seq(Txs) /\ h \in Nat
      BY <1>2
    <3> QED BY <3>1, IndexBlockTypes
  <2> QED BY <2>1 DEF IndexesStay
<1>6. i \in Indexes
  BY DEF IxTells, ListsHold
<1>7. PICK r : IndexesTrace(c, Indexes, 1..Len(c), i, q, r) /\ r[Len(q)] = IndexBlocks(i, c, q)
  BY <1>2, <1>5, <1>6, IndexesLead
<1> DEFINE On(k) == SubSeq(c, 1, n + k)
           S == {k \in 0..m : IxTells(r[k], On(k))}
<1>8. 0 \in S
  <2>1. r[0] = i /\ n + 0 = n
    BY <1>7 DEF IndexesTrace
  <2> QED BY <1>2, <2>1
<1>9. ASSUME NEW k \in 1..m, k - 1 \in S PROVE k \in S
  <2>1. PICK j : j = n + k
    OBVIOUS
  <2>2. j \in 1..Len(c) /\ j - 1 = n + (k - 1) /\ j - 1 \in 0..Len(c) /\ j \in 0..Len(c) /\ q[k] = j /\ j \in Nat
    BY <1>2, <2>1
  <2>3. PICK p : p = SubSeq(c, 1, j - 1)
    OBVIOUS
  <2>4. SubSeq(c, 1, j) = Append(p, c[j]) /\ p \in Seq(Seq(Txs)) /\ Len(p) = j - 1 /\ c[j] \in Seq(Txs) /\ Sole(Append(p, c[j]))
    <3>1. SubSeq(c, 1, j) = Append(p, c[j])
      BY <1>4, <2>2, <2>3, PrefixGrows
    <3>2. p \in Seq(Seq(Txs)) /\ Len(p) = j - 1 /\ Sole(SubSeq(c, 1, j))
      BY <2>2, <2>3, SoleUpTo
    <3> QED BY <1>2, <2>2, <3>1, <3>2
  <2>5. On(k) = Append(p, c[j]) /\ On(k - 1) = p
    BY <2>1, <2>2, <2>3, <2>4
  <2>6. r[k] = IndexBlock(r[k - 1], c[j], j)
    BY <1>2, <1>7, <2>2 DEF IndexesTrace
  <2>7. IxTells(r[k - 1], p)
    BY <1>9, <2>5
  <2>8. IxTells(IndexBlock(r[k - 1], c[j], j), Append(p, c[j]))
    <3>1. Len(p) + 1 = j
      BY <2>2, <2>4
    <3>2. IxTells(IndexBlock(r[k - 1], c[j], Len(p) + 1), Append(p, c[j]))
      BY <2>4, <2>7, BlockIndexed
    <3> QED BY <3>1, <3>2
  <2> HIDE DEF On
  <2>9. IxTells(r[k], On(k))
    BY <2>5, <2>6, <2>8
  <2> QED BY <2>9
<1>10. m \in S
  <2> HIDE DEF S
  <2>1. \A k \in 0..m : k \in S
    BY <1>2, <1>8, <1>9, StepByStep
  <2> QED BY <1>2, <2>1
<1>11. On(m) = c
  <2>1. n + m = Len(c)
    BY <1>1, <1>2
  <2> QED BY <1>4, <2>1, PrefixGrows
<1> HIDE DEF On
<1> QED BY <1>1, <1>2, <1>7, <1>10, <1>11

-------------------------------------------------------------------------------
(* A reorg.                                                                  *)

\* What a chain changes up to a height.
ChangesTo(n) == {r \in ChangeRecs : r.height <= n}

LEMMA ChangesUpTo ==
    ASSUME NEW c \in Seq(Seq(Txs)), NEW n \in 0..Len(c)
    PROVE  Filtered(ChangesOn(c), ChangesTo(n)) = ChangesOn(SubSeq(c, 1, n))
<1>1. PICK X : X = Seq(Txs)
  OBVIOUS
<1>2. c \in Seq(X) /\ Len(c) \in Nat
  BY <1>1, LenProperties
<1>3. PICK m \in Nat : m = Len(c) - n
  BY <1>2
<1> DEFINE On(i) == ChangesOn(SubSeq(c, 1, n + i))
           S == {i \in 0..m : Filtered(On(i), ChangesTo(n)) = ChangesOn(SubSeq(c, 1, n))}
<1>4. ASSUME NEW i \in 0..Len(c)
      PROVE  SubSeq(c, 1, i) \in Seq(Seq(Txs)) /\ Len(SubSeq(c, 1, i)) = i /\ ChangesOn(SubSeq(c, 1, i)) \in Seq(ChangesBelow(i))
  <2>1. SubSeq(c, 1, i) \in Seq(X) /\ Len(SubSeq(c, 1, i)) = i
    BY <1>2, PrefixGrows
  <2> QED BY <1>1, <2>1, ChangesOnTypes
<1>5. 0 \in S
  <2>1. n + 0 = n
    BY <1>2
  <2>2. PICK p \in Seq(ChangesBelow(n)) : p = ChangesOn(SubSeq(c, 1, n))
    BY <1>4
  <2>3. \A k \in DOMAIN p : p[k] \in ChangesTo(n)
    <3>1. ChangesBelow(n) \subseteq ChangesTo(n)
      BY DEF ChangesBelow, ChangesTo
    <3> QED BY <3>1, LenProperties
  <2>4. Filtered(p, ChangesTo(n)) = p
    BY <2>3, FilteredWhole
  <2> QED BY <1>3, <2>1, <2>2, <2>4
<1>6. ASSUME NEW i \in 1..m, i - 1 \in S PROVE i \in S
  <2>1. PICK j : j = n + i
    OBVIOUS
  <2>2. j \in 1..Len(c) /\ j - 1 = n + (i - 1) /\ j - 1 \in 0..Len(c) /\ j > n /\ j \in Nat
    BY <1>2, <1>3, <2>1
  <2>3. PICK p : p = SubSeq(c, 1, j - 1)
    OBVIOUS
  <2>4. SubSeq(c, 1, j) = Append(p, c[j]) /\ p \in Seq(Seq(Txs)) /\ Len(p) = j - 1 /\ c[j] \in Seq(Txs)
    <3>1. c[j] \in Seq(Txs)
      BY <2>2, Above
    <3> QED BY <1>2, <1>4, <2>2, <2>3, <3>1, PrefixGrows
  <2>5. PICK u \in Seq(ChangeRecs), v \in Seq(ChangeRecs) :
          u = ChangesOn(p) /\ v = BlockChanges(c[j], j) /\ v \in Seq(BlockChangeRecs(c[j], j))
    BY <2>2, <2>4, ChangesOnTypes, BlockChangesTypes
  <2>6. On(i) = u \o v /\ On(i - 1) = u
    <3>1. Len(p) + 1 = j /\ n + (i - 1) = j - 1
      BY <2>2, <2>4
    <3>2. ChangesOn(Append(p, c[j])) = ChangesOn(p) \o BlockChanges(c[j], Len(p) + 1)
      BY <2>4, ChangesOnAppend
    <3> QED BY <2>1, <2>3, <2>4, <2>5, <3>1, <3>2
  <2>7. \A k \in DOMAIN v : v[k] \notin ChangesTo(n)
    <3>1. \A k \in DOMAIN v : v[k] \in BlockChangeRecs(c[j], j)
      BY <2>5, ElementOfSeq, LenProperties
    <3> QED BY <2>2, <3>1 DEF ChangesTo, BlockChangeRecs
  <2>8. Filtered(v, ChangesTo(n)) = <<>>
    BY <2>7, FilteredWhole
  <2>9. Filtered(u \o v, ChangesTo(n)) = Filtered(u, ChangesTo(n)) \o Filtered(v, ChangesTo(n))
    BY FilteredConcat
  <2>10. Filtered(u, ChangesTo(n)) \in Seq(ChangeRecs)
    BY FilteredProperties
  <2>11. Filtered(u \o v, ChangesTo(n)) = Filtered(u, ChangesTo(n))
    BY <2>8, <2>9, <2>10, ConcatEmptySeq
  <2> HIDE DEF On
  <2>12. Filtered(On(i), ChangesTo(n)) = Filtered(On(i - 1), ChangesTo(n))
    BY <2>6, <2>11
  <2> QED BY <1>6, <2>12
<1>7. m \in S
  <2> HIDE DEF S
  <2>1. \A i \in 0..m : i \in S
    BY <1>5, <1>6, StepByStep
  <2> QED BY <2>1
<1>8. On(m) = ChangesOn(c)
  <2>1. n + m = Len(c)
    BY <1>2, <1>3
  <2> QED BY <1>2, <2>1, PrefixGrows
<1> HIDE DEF On
<1> QED BY <1>7, <1>8

\* handleReorg removes what is above the fork.
LEMMA TxsRemoved ==
    ASSUME NEW n \in Nat, NEW i, ListsHold(i), NEW R, R = {t \in Held(i) : i.txs[t] > n},
           NEW j, j = FoldLeft(RemoveTx, i, SetToSeq(R))
    PROVE  /\ ListsHold(j) /\ j.from = i.from /\ Held(j) = Held(i) \ R /\ (\A t \in Held(j) : j.txs[t] = i.txs[t])
           /\ \A h \in 0..n : At(j.byHeight, h) = At(i.byHeight, h)
<1>1. PICK q \in Seq(R) : q = SetToSeq(R) /\ ToSet(q) = R
  <2>1. IsFiniteSet(R)
    BY FS_Subset DEF ListsHold
  <2> QED BY <2>1, SetInSequence
<1>2. R \subseteq Txs
  BY IndexTypes DEF ListsHold
<1> DEFINE P == {x : x \in {y \in Indexes : /\ ListsHold(y) /\ y.from = i.from
                                            /\ (\A t \in Held(y) : t \in Held(i) /\ y.txs[t] = i.txs[t])
                                            /\ \A h \in 0..n : At(y.byHeight, h) = At(i.byHeight, h)}}
<1>3. ASSUME NEW x \in P, NEW t \in R
      PROVE  RemoveTx(x, t) \in P /\ Held(RemoveTx(x, t)) = Held(x) \ {t}
  <2>1. PICK y : y = RemoveTx(x, t)
    OBVIOUS
  <2>2. /\ ListsHold(y) /\ y.from = x.from
        /\ Held(y) = Held(x) \ {t} /\ (\A u \in Held(y) : y.txs[u] = x.txs[u])
        /\ \A h \in Nat : At(y.byHeight, h) = IF t \in Held(x) /\ h = x.txs[t]
                                              THEN Without(At(x.byHeight, h), t) ELSE At(x.byHeight, h)
    BY <1>2, <2>1, ListsAfterRemoval
  <2>3. ASSUME NEW h \in 0..n PROVE At(y.byHeight, h) = At(i.byHeight, h)
    <3>1. t \in Held(x) => x.txs[t] > n
      OBVIOUS
    <3>2. h \in Nat /\ ~(h > n)
      OBVIOUS
    <3>3. t \in Held(x) => h # x.txs[t]
      BY <3>1, <3>2
    <3> QED BY <2>2, <3>2, <3>3
  <2>4. y \in Indexes
    BY <2>2 DEF ListsHold
  <2>5. \A u \in Held(y) : u \in Held(i) /\ y.txs[u] = i.txs[u]
    BY <2>2
  <2> QED BY <2>1, <2>2, <2>3, <2>4, <2>5
<1>4. RemovesStay(P, R)
  BY <1>3 DEF RemovesStay
<1>5. i \in P
  BY DEF ListsHold
<1>6. PICK r : RemovesTrace(P, R, i, q, r) /\ r[Len(q)] = j
  <2> HIDE DEF P
  <2>1. j = FoldLeft(RemoveTx, i, q)
    BY <1>1
  <2>2. \E r : RemovesTrace(P, R, i, q, r) /\ r[Len(q)] = FoldLeft(RemoveTx, i, q)
    <3>1. q \in Seq(R)
      BY <1>1
    <3> QED BY ONLY <1>4, <1>5, <3>1, RemovesLead
  <2> QED BY <2>1, <2>2
<1>7. PICK m \in Nat : m = Len(q) /\ DOMAIN q = 1..m
  BY LenProperties
<1> DEFINE S == {k \in 0..m : Held(r[k]) = Held(i) \ {q[l] : l \in 1..k}}
<1>8. 0 \in S
  <2>1. r[0] = i
    BY <1>6 DEF RemovesTrace
  <2> QED BY <1>7, <2>1
<1>9. ASSUME NEW k \in 1..m, k - 1 \in S PROVE k \in S
  <2>1. q[k] \in R /\ r[k - 1] \in P /\ r[k] = RemoveTx(r[k - 1], q[k])
    BY <1>6, <1>7 DEF RemovesTrace
  <2>2. Held(r[k]) = Held(r[k - 1]) \ {q[k]}
    <3> HIDE DEF P
    <3> QED BY <1>3, <2>1
  <2>3. {q[l] : l \in 1..k} = {q[l] : l \in 1..k - 1} \cup {q[k]}
    <3>1. \A l \in 1..k : l \in 1..k - 1 \/ l = k
      OBVIOUS
    <3>2. k \in 1..k /\ \A l \in 1..k - 1 : l \in 1..k
      OBVIOUS
    <3> QED BY <3>1, <3>2
  <2> QED BY <1>9, <2>2, <2>3
<1>10. Held(j) = Held(i) \ R
  <2>1. m \in S
    <3> HIDE DEF S
    <3>1. \A k \in 0..m : k \in S
      BY <1>8, <1>9, StepByStep
    <3> QED BY <3>1
  <2>2. {q[l] : l \in 1..m} = R
    BY <1>1, <1>7 DEF ToSet
  <2> QED BY <1>6, <1>7, <2>1, <2>2
<1>11. j \in P
  <2>1. m \in 0..m
    OBVIOUS
  <2> HIDE DEF P
  <2> QED BY <1>6, <1>7, <2>1 DEF RemovesTrace
<1> QED BY <1>10, <1>11

\* The index j is what a reorg to the height n leaves of the index i.
LeftOf(i, n, j) ==
    /\ j \in Indexes /\ ListsHold(j) /\ j.from = i.from /\ j.to = n
    /\ Held(j) \subseteq Held(i) /\ (\A t \in Held(j) : ~(i.txs[t] > n)) /\ (\A t \in Held(j) : j.txs[t] = i.txs[t])
    /\ (\A h \in 0..n : At(j.byHeight, h) = At(i.byHeight, h))
    /\ j.changes = Filtered(i.changes, ChangesTo(n))
    /\ (\A s \in States : j.changesByState[s] = Filtered(j.changes, StateRecs(s)))
    /\ \A t \in Txs : j.changesByTx[t] = Filtered(j.changes, TxRecs(t))

LEMMA ReorgedIs ==
    ASSUME NEW i \in Indexes, ListsHold(i), NEW n \in Nat, NEW j, j = OnReorg(i, n)
    PROVE  LeftOf(i, n, j)
<1>a. PICK R : R = {t \in Held(i) : i.txs[t] > n}
  OBVIOUS
<1>b. PICK k : k = FoldLeft(RemoveTx, i, SetToSeq(R))
  OBVIOUS
<1>0. /\ ListsHold(k) /\ k.from = i.from /\ Held(k) = Held(i) \ R /\ (\A t \in Held(k) : k.txs[t] = i.txs[t])
      /\ \A h \in 0..n : At(k.byHeight, h) = At(i.byHeight, h)
  BY <1>a, <1>b, TxsRemoved
<1>1. i.changes \in Seq(ChangeRecs)
  BY IndexTypes
<1>2. PICK p \in Seq(ChangeRecs) : p = Filtered(i.changes, ChangesTo(n))
  BY <1>1, FilteredProperties
<1>3. UpToHeight(i.changes, n) = p
  <2>1. PICK q : q = i.changes
    OBVIOUS
  <2>2. \A a \in DOMAIN q : q[a] \in {c \in ToSet(q) : c.height <= n} <=> q[a] \in ChangesTo(n)
    <3>1. \A a \in DOMAIN q : q[a] \in ToSet(q) /\ q[a] \in ChangeRecs
      BY <1>1, <2>1, ElementOfSeq, LenProperties DEF ToSet
    <3> QED BY <3>1 DEF ChangesTo
  <2>3. Filtered(q, {c \in ToSet(q) : c.height <= n}) = Filtered(q, ChangesTo(n))
    BY <2>2, FilteredSame
  <2> QED BY <1>2, <2>1, <2>3 DEF UpToHeight
<1>4. \A a \in DOMAIN p : p[a] \in ToSet(p) /\ p[a] \in ChangeRecs
  BY ElementOfSeq, LenProperties DEF ToSet
<1>5. ASSUME NEW s \in States PROVE OfState(p, s) = Filtered(p, StateRecs(s)) /\ OfState(p, s) \in Seq(ChangeRecs)
  <2>1. \A a \in DOMAIN p : p[a] \in {c \in ToSet(p) : c.state = s} <=> p[a] \in StateRecs(s)
    BY <1>4 DEF StateRecs
  <2>2. Filtered(p, {c \in ToSet(p) : c.state = s}) = Filtered(p, StateRecs(s))
    BY <2>1, FilteredSame
  <2> QED BY <2>2, FilteredProperties DEF OfState
<1>6. ASSUME NEW t \in Txs PROVE OfTx(p, t) = Filtered(p, TxRecs(t)) /\ OfTx(p, t) \in Seq(ChangeRecs)
  <2>1. \A a \in DOMAIN p : p[a] \in {c \in ToSet(p) : c.tx = t} <=> p[a] \in TxRecs(t)
    BY <1>4 DEF TxRecs
  <2>2. Filtered(p, {c \in ToSet(p) : c.tx = t}) = Filtered(p, TxRecs(t))
    BY <2>1, FilteredSame
  <2> QED BY <2>2, FilteredProperties DEF OfTx
<1>7. k \in Indexes /\ k = [txs |-> k.txs, bySender |-> k.bySender, byState |-> k.byState, byHeight |-> k.byHeight,
           from |-> k.from, to |-> k.to, changes |-> k.changes, changesByState |-> k.changesByState,
           changesByTx |-> k.changesByTx]
  BY <1>0, IndexTypes DEF ListsHold
<1>8. j = [k EXCEPT !.changes = p, !.changesByState = [s \in States |-> OfState(p, s)],
                    !.changesByTx = [t \in Txs |-> OfTx(p, t)], !.to = n]
  BY <1>3, <1>a, <1>b DEF OnReorg, Held
<1>9. /\ j.txs = k.txs /\ j.bySender = k.bySender /\ j.byState = k.byState /\ j.byHeight = k.byHeight
      /\ j.from = k.from /\ j.to = n /\ j.changes = p
      /\ j.changesByState = [s \in States |-> OfState(p, s)] /\ j.changesByTx = [t \in Txs |-> OfTx(p, t)]
      /\ j = [txs |-> j.txs, bySender |-> j.bySender, byState |-> j.byState, byHeight |-> j.byHeight,
              from |-> j.from, to |-> j.to, changes |-> j.changes, changesByState |-> j.changesByState,
              changesByTx |-> j.changesByTx]
  BY <1>7, <1>8
<1>10. PICK x : x = [k EXCEPT !.to = n]
  OBVIOUS
<1>11. x \in Indexes /\ SameTxs(x, j)
  <2>1. x \in Indexes
    BY <1>7, <1>10 DEF Indexes
  <2> QED BY <1>7, <1>9, <1>10, <2>1 DEF SameTxs
<1>12. j.changesByState \in [States -> Seq(ChangeRecs)] /\ j.changesByTx \in [Txs -> Seq(ChangeRecs)]
  BY <1>5, <1>6, <1>9
<1>13. j \in Indexes
  BY <1>9, <1>11, <1>12, ChangesMade
<1>14. Held(j) = Held(k)
  BY <1>9 DEF Held
<1>15. ListsHold(j)
  BY <1>0, <1>9, <1>13, <1>14 DEF ListsHold
<1>16. Held(j) \subseteq Held(i) /\ (\A t \in Held(j) : ~(i.txs[t] > n))
  BY <1>0, <1>14, <1>a
<1>17. (\A t \in Held(j) : j.txs[t] = i.txs[t]) /\ \A h \in 0..n : At(j.byHeight, h) = At(i.byHeight, h)
  BY <1>0, <1>9, <1>14
<1> QED BY <1>0, <1>2, <1>5, <1>6, <1>9, <1>13, <1>15, <1>16, <1>17 DEF LeftOf

\* A filter keeps the end of a sequence at the end.
LEMMA EndFiltered ==
    ASSUME NEW X, NEW q \in Seq(X), NEW p \in Seq(X), EndOf(X, p, q), NEW S
    PROVE  EndOf(X, Filtered(p, S), Filtered(q, S)) /\ Len(Filtered(p, S)) <= Len(p)
<1>1. PICK e \in Seq(X) : q = e \o p
  BY DEF EndOf
<1>2. Filtered(e \o p, S) = Filtered(e, S) \o Filtered(p, S)
  BY FilteredConcat
<1>3. Filtered(e, S) \in Seq(X)
  BY FilteredProperties
<1>4. EndOf(X, Filtered(p, S), Filtered(q, S))
  BY <1>1, <1>2, <1>3 DEF EndOf
<1> QED BY <1>4, FilteredProperties

LEMMA Reorged ==
    ASSUME NEW c \in Seq(Seq(Txs)), Sole(c), NEW n \in 0..Len(c), NEW i, IxTells(i, c)
    PROVE  IxTells(OnReorg(i, n), SubSeq(c, 1, n))
<1>1. PICK l \in Nat, d \in Seq(Seq(Txs)) :
        l = Len(c) /\ n \in 0..l /\ d = SubSeq(c, 1, n) /\ Len(d) = n /\ \A g \in 1..n : d[g] = c[g]
  BY SoleUpTo, Above
<1>2. i \in Indexes /\ ListsHold(i) /\ HoldsNewest(i, c) /\ Cardinality(Held(i)) <= MaxIndexedTxs /\ ChangesTell(i, ChangesOn(c))
  BY DEF IxTells, ListsHold
<1>3. PICK j : j = OnReorg(i, n)
  OBVIOUS
<1>4. LeftOf(i, n, j)
  <2>1. n \in Nat
    BY <1>1
  <2> QED BY <1>2, <1>3, <2>1, ReorgedIs
<1>5. \A t \in Held(j) : t \in Held(i) /\ j.txs[t] = i.txs[t] /\ j.txs[t] \in 1..n
  <2>1. \A t \in Held(i) : i.txs[t] \in 1..l
    BY <1>1, <1>2 DEF HoldsNewest
  <2> QED BY <1>1, <1>4, <2>1 DEF LeftOf
<1>6. HoldsNewest(j, d)
  <2>1. CASE Held(j) = {}
    BY <1>1, <1>4, <2>1 DEF HoldsNewest, LeftOf
  <2>2. CASE Held(j) # {}
    <3>1. PICK t \in Held(j) : t \in Held(i) /\ i.txs[t] \in 1..n
      BY <1>5, <2>2
    <3>2. PICK f \in 1..l : /\ f = i.from /\ (\A g \in 1..l : g > f => At(i.byHeight, g) = c[g])
                            /\ (\A g \in 1..l : g < f => At(i.byHeight, g) = <<>>)
                            /\ At(i.byHeight, f) # <<>> /\ EndOf(Txs, At(i.byHeight, f), c[f])
      BY <1>1, <1>2, <3>1 DEF HoldsNewest
    <3>3. f \in 1..n
      <4>1. i.txs[t] >= i.from
        BY <1>2, <3>1, HeldOnChain
      <4> QED BY <1>1, <3>1, <3>2, <4>1
    <3>4. \A g \in 1..n : g \in 1..l /\ g \in 0..n
      BY <1>1
    <3>5. j.from = f /\ \A g \in 1..n : At(j.byHeight, g) = At(i.byHeight, g)
      BY <1>4, <3>2, <3>4 DEF LeftOf
    <3> QED BY <1>1, <1>4, <1>5, <3>2, <3>3, <3>4, <3>5 DEF HoldsNewest, LeftOf
  <2> QED BY <2>1, <2>2
<1>7. Cardinality(Held(j)) <= MaxIndexedTxs
  <2>1. Held(j) \subseteq Held(i) /\ IsFiniteSet(Held(i))
    BY <1>2, <1>4 DEF ListsHold, LeftOf
  <2>2. Cardinality(Held(j)) <= Cardinality(Held(i)) /\ Cardinality(Held(j)) \in Nat /\ Cardinality(Held(i)) \in Nat
    BY <2>1, FS_Subset, FS_CardinalityType
  <2> QED BY <1>2, <2>2, IndexerAssumption
<1>8. ChangesTell(j, ChangesOn(d))
  <2>1. PICK q \in Seq(ChangeRecs), p \in Seq(ChangeRecs) :
          q = ChangesOn(c) /\ p = i.changes /\ EndOf(ChangeRecs, p, q) /\ Len(p) <= MaxStateChanges
    BY <1>2, ChangesOnTypes, IndexTypes DEF ChangesTell
  <2>2. EndOf(ChangeRecs, Filtered(p, ChangesTo(n)), Filtered(q, ChangesTo(n))) /\ Len(Filtered(p, ChangesTo(n))) <= Len(p)
    BY <2>1, EndFiltered
  <2>3. ChangesOn(d) = Filtered(q, ChangesTo(n))
    BY <1>1, <2>1, ChangesUpTo
  <2>4. EndOf(ChangeRecs, j.changes, ChangesOn(d))
    BY <1>4, <2>1, <2>2, <2>3 DEF LeftOf
  <2>5. Len(j.changes) <= MaxStateChanges
    <3>1. j.changes \in Seq(ChangeRecs)
      BY <1>4, IndexTypes DEF LeftOf
    <3>2. Len(p) \in Nat /\ Len(j.changes) \in Nat /\ MaxStateChanges \in Nat
      BY <3>1, IndexerAssumption, LenProperties
    <3> QED BY <1>4, <2>1, <2>2, <3>2 DEF LeftOf
  <2> QED BY <1>4, <2>4, <2>5 DEF ChangesTell, LeftOf
<1>9. IxTells(j, d)
  BY <1>4, <1>6, <1>7, <1>8 DEF IxTells, LeftOf
<1> QED BY <1>1, <1>3, <1>9

-------------------------------------------------------------------------------
(* A step of the chain.                                                      *)

\* A new block holds no transaction twice.
LEMMA BlockAlone ==
    ASSUME node \in Nodes, NEW c \in Chains, NEW b \in BlocksAfter(c)
    PROVE  IsInjective(b)
<1>1. PICK l \in Nat : l = Len(b) /\ DOMAIN b = 1..l /\ b \in Seq(node.txs)
  BY BlocksFit, LenProperties
<1> DEFINE D(i) == {k \in 1..(i-1) : Sender[b[k]] = Sender[b[i]]}
<1>2. ASSUME NEW i \in 1..l PROVE IsFiniteSet(D(i)) /\ Cardinality(D(i)) \in Nat
  <2>1. 1 \in Int /\ i - 1 \in Int
    OBVIOUS
  <2>2. IsFiniteSet(1..(i-1))
    BY <2>1, FS_Interval
  <2>3. D(i) \subseteq 1..(i-1)
    OBVIOUS
  <2> HIDE DEF D
  <2> QED BY <2>2, <2>3, FS_Subset, FS_CardinalityType
<1>3. ASSUME NEW i \in 1..l, NEW j \in 1..l, b[i] = b[j], i < j PROVE FALSE
  <2>1. D(i) \subseteq D(j) /\ i \in D(j) /\ i \notin D(i)
    BY <1>3
  <2>2. PICK n \in Nat : n = NextOnChain(c, Sender[b[i]]) /\ n = NextOnChain(c, Sender[b[j]])
    <3>1. NextOnChain(c, Sender[b[i]]) \in Nat
      BY ChainTypes
    <3> HIDE DEF NextOnChain
    <3> QED BY <1>3, <3>1
  <2>3. Nonce[b[i]] = n + Cardinality(D(i)) /\ Nonce[b[j]] = n + Cardinality(D(j))
    <3>1. i \in 1..Len(b) /\ j \in 1..Len(b)
      BY <1>1
    <3> HIDE DEF NextOnChain
    <3> QED BY <2>2, <3>1, BlocksFit
  <2>4. Cardinality(D(i)) = Cardinality(D(j))
    <3>1. PICK x \in Nat, y \in Nat : x = Cardinality(D(i)) /\ y = Cardinality(D(j))
      BY <1>2
    <3>2. n + x = n + y
      BY <1>3, <2>3, <3>1
    <3> QED BY <3>1, <3>2
  <2>5. D(i) = D(j)
    <3>1. IsFiniteSet(D(j)) /\ D(i) \subseteq D(j)
      BY <1>2, <2>1
    <3> HIDE DEF D
    <3> QED BY <2>4, <3>1, FS_Subset
  <2> HIDE DEF D
  <2> QED BY <2>1, <2>5
<1>4. ASSUME NEW i \in 1..l, NEW j \in 1..l, b[i] = b[j] PROVE i = j
  <2>1. ~(i < j) /\ ~(j < i)
    BY <1>3, <1>4
  <2> QED BY <2>1
<1> QED BY <1>1, <1>4 DEF IsInjective

LEMMA SoleMore ==
    ASSUME node \in Nodes, NEW c \in Chains, Once(c), Sole(c), NEW b \in BlocksAfter(c)
    PROVE  Sole(Append(c, b))
<1>1. PICK l \in Nat : l = Len(c) /\ DOMAIN c = 1..l
  BY ChainTypes
<1>2. PICK X : X = Seq(node.txs)
  OBVIOUS
<1>3. c \in Seq(X) /\ b \in X
  BY <1>2, BlocksFit DEF Chains
<1>4. PICK d : d = Append(c, b) /\ Len(d) = l + 1 /\ (\A i \in 1..l : d[i] = c[i]) /\ d[l + 1] = b
  BY <1>1, <1>3, AppendProperties
<1>5. IsInjective(b)
  BY BlockAlone
<1>6. ASSUME NEW h \in 1..l, NEW k \in DOMAIN c[h], NEW j \in DOMAIN b, c[h][k] = b[j] PROVE FALSE
  <2>1. PICK t : t = b[j]
    OBVIOUS
  <2>2. t \in TxsOf(b) /\ t \in TxsOf(c[h])
    BY <1>6, <2>1 DEF TxsOf, ToSet
  <2>3. t \in ChainTxs(c)
    BY <1>1, <2>2 DEF ChainTxs
  <2> QED BY <2>2, <2>3, NewBlockIsNew
<1>7. Sole(d)
  <2> SUFFICES ASSUME NEW h \in 1..l + 1, NEW g \in 1..l + 1, NEW k \in DOMAIN d[h], NEW j \in DOMAIN d[g], d[h][k] = d[g][j]
               PROVE  h = g /\ k = j
    BY <1>4 DEF Sole
  <2>1. (h \in 1..l \/ h = l + 1) /\ (g \in 1..l \/ g = l + 1)
    OBVIOUS
  <2>2. CASE h \in 1..l /\ g \in 1..l
    BY <1>1, <1>4, <2>2 DEF Sole
  <2>3. CASE h = l + 1 /\ g = l + 1
    BY <1>4, <1>5, <2>3 DEF IsInjective
  <2>4. CASE h \in 1..l /\ g = l + 1
    BY <1>4, <1>6, <2>4
  <2>5. CASE h = l + 1 /\ g \in 1..l
    BY <1>4, <1>6, <2>5
  <2> QED BY <2>1, <2>2, <2>3, <2>4, <2>5
<1> QED BY <1>4, <1>7

\* A step of the chain.
LEMMA SoleGrow ==
    ASSUME node \in Nodes, chain \in Chains, Once(chain), Sole(chain), NEW n, NEW b, NEW new, Grown(n, b, new)
    PROVE  Sole(new)
<1>1. /\ Upto(chain, n) \in Chains /\ Once(Upto(chain, n)) /\ b \in BlocksAfter(Upto(chain, n))
      /\ Append(Upto(chain, n), b) \in Chains /\ Once(Append(Upto(chain, n), b)) /\ n \in 0..Len(chain)
  BY GrownTypes DEF Grown
<1>2. Sole(Upto(chain, n))
  <2>1. chain \in Seq(Seq(Txs))
    BY ChainsOfTxs
  <2> QED BY <1>1, <2>1, SoleUpTo DEF Upto
<1>3. Sole(Append(Upto(chain, n), b))
  BY <1>1, <1>2, SoleMore
<1>4. PICK m : m = Append(Upto(chain, n), b)
  OBVIOUS
<1>5. ASSUME NEW c \in BlocksAfter(m) PROVE Sole(Append(m, c))
  BY <1>1, <1>3, <1>4, <1>5, SoleMore
<1> QED BY <1>3, <1>4, <1>5 DEF Grown

\* The index after a step of the chain.
LEMMA IxGrow ==
    ASSUME node \in Nodes, chain \in Chains, Once(chain), Sole(chain), NEW n, NEW b, NEW new, Grown(n, b, new),
           NEW i, IxTells(i, chain)
    PROVE  IxTells(IndexBlocks(IF n < Len(chain) THEN OnReorg(i, n) ELSE i, new, NewHeights(n, new)), new)
<1>1. /\ new \in Chains /\ Len(new) > n /\ Upto(new, n) = Upto(chain, n) /\ n \in 0..Len(chain) /\ Sole(new)
  BY GrownTypes, SoleGrow DEF Grown
<1>2. chain \in Seq(Seq(Txs)) /\ new \in Seq(Seq(Txs)) /\ n \in 0..Len(new) /\ Len(chain) \in Nat
  BY <1>1, ChainsOfTxs, ChainTypes
<1>3. PICK start : start = IF n < Len(chain) THEN OnReorg(i, n) ELSE i
  OBVIOUS
<1>4. IxTells(start, SubSeq(chain, 1, n))
  <2>1. CASE n < Len(chain)
    BY <1>1, <1>2, <1>3, <2>1, Reorged
  <2>2. CASE ~(n < Len(chain))
    <3>1. n = Len(chain)
      BY <1>1, <1>2, <2>2
    <3>2. SubSeq(chain, 1, n) = chain
      BY <3>1, UptoAll DEF Upto
    <3> QED BY <1>3, <2>2, <3>2
  <2> QED BY <2>1, <2>2
<1>5. IxTells(start, SubSeq(new, 1, n))
  BY <1>1, <1>4 DEF Upto
<1>6. IxTells(IndexBlocks(start, new, NewHeights(n, new)), new)
  BY <1>1, <1>2, <1>5, BlocksIndexed
<1> QED BY <1>3, <1>6

-------------------------------------------------------------------------------
(* What the listeners say.                                                   *)

\* Where the end of a sequence begins.
LEMMA EndBegins ==
    ASSUME NEW X, NEW q \in Seq(X), NEW p \in Seq(X), EndOf(X, p, q)
    PROVE  \E n \in 0..Len(q) : p = SubSeq(q, n + 1, Len(q))
<1>1. PICK e \in Seq(X) : q = e \o p
  BY DEF EndOf
<1>2. PICK m \in Nat, n \in Nat : m = Len(e) /\ n = Len(p)
  BY LenProperties
<1>3. Len(q) = m + n /\ \A i \in 1..m + n : q[i] = IF i <= m THEN e[i] ELSE p[i - m]
  BY <1>1, <1>2, ConcatProperties
<1>4. \A i \in 1..m + n : q[i] \in X
  BY <1>3, ElementOfSeq
<1>5. PICK r : r = SubSeq(q, m + 1, m + n)
  OBVIOUS
<1>6. r \in Seq(X) /\ Len(r) = n /\ \A i \in 1..n : r[i] = q[m + 1 + i - 1]
  <2>1. m + 1 \in Int /\ m + n \in Int /\ \A i \in m + 1..m + n : q[i] \in X
    BY <1>4
  <2>2. /\ SubSeq(q, m + 1, m + n) \in Seq(X)
        /\ Len(SubSeq(q, m + 1, m + n)) = IF m + 1 <= m + n THEN (m + n) - (m + 1) + 1 ELSE 0
        /\ \A i \in 1..(m + n) - (m + 1) + 1 : SubSeq(q, m + 1, m + n)[i] = q[m + 1 + i - 1]
    <3>1. PICK a \in Int, b \in Int : a = m + 1 /\ b = m + n
      BY <2>1
    <3>2. \A i \in a..b : q[i] \in X
      BY <2>1, <3>1
    <3>3. /\ SubSeq(q, a, b) \in Seq(X) /\ Len(SubSeq(q, a, b)) = IF a <= b THEN b - a + 1 ELSE 0
          /\ \A i \in 1..b - a + 1 : SubSeq(q, a, b)[i] = q[a + i - 1]
      BY ONLY <3>2, a \in Int, b \in Int, SubSeqProperties
    <3> QED BY <3>1, <3>3
  <2>3. (m + n) - (m + 1) + 1 = n /\ (~(m + 1 <= m + n) => n = 0)
    BY <1>2
  <2> QED BY <1>5, <2>2, <2>3
<1>7. \A i \in 1..n : q[m + 1 + i - 1] = p[i]
  <2>1. \A i \in 1..n : m + 1 + i - 1 \in 1..m + n /\ ~(m + 1 + i - 1 <= m) /\ (m + 1 + i - 1) - m = i
    BY <1>2
  <2> QED BY <1>3, <2>1
<1>8. r = p
  BY <1>2, <1>6, <1>7, SeqEqual
<1>9. m \in 0..Len(q)
  BY <1>2, <1>3
<1> QED BY <1>3, <1>5, <1>8, <1>9

IxFollow == "indexer" \in node.with => IxTells(ix, chain)

\* The transactions held are the newest.
LEMMA IxNewest ==
    ASSUME NEW c \in Seq(Seq(Txs)), Sole(c), NEW i, IxTells(i, c),
           NEW h \in 1..Len(c), NEW k \in DOMAIN c[h]
    PROVE  /\ c[h][k] \in Held(i) => i.txs[c[h][k]] = h
           /\ c[h][k] \notin Held(i) => \A g \in 1..h : \A j \in DOMAIN c[g] :
                g < h \/ j <= k => c[g][j] \notin Held(i)
<1>1. PICK l \in Nat : l = Len(c) /\ \A g \in 1..l : c[g] \in Seq(Txs)
  BY Above
<1>2. i \in Indexes /\ ListsHold(i) /\ HoldsNewest(i, c)
  BY DEF IxTells, ListsHold
<1>3. ASSUME NEW g \in 1..l, NEW j \in DOMAIN c[g], c[g][j] \in Held(i)
      PROVE  i.txs[c[g][j]] = g
  <2>1. PICK t, m : t = c[g][j] /\ m = i.txs[t]
    OBVIOUS
  <2>2. m \in 1..l /\ t \in ToSet(c[m])
    BY <1>1, <1>2, <1>3, <2>1, HeldOnChain
  <2>3. PICK n \in DOMAIN c[m] : c[m][n] = t
    BY <2>2 DEF ToSet
  <2>4. m \in 1..Len(c) /\ g \in 1..Len(c) /\ c[m][n] = c[g][j]
    BY <1>1, <2>1, <2>2, <2>3
  <2>5. m = g
    BY ONLY Sole(c), <2>4, n \in DOMAIN c[m], j \in DOMAIN c[g] DEF Sole
  <2> QED BY <2>1, <2>5
<1>4. ASSUME c[h][k] \notin Held(i), NEW g \in 1..h, NEW j \in DOMAIN c[g], g < h \/ j <= k, c[g][j] \in Held(i)
      PROVE  FALSE
  <2>1. h \in 1..l /\ g \in 1..l /\ h \in Nat /\ g \in Nat
    BY <1>1
  <2>2. PICK t, u : t = c[h][k] /\ u = c[g][j]
    OBVIOUS
  <2>3. PICK f \in 1..l : /\ f = i.from /\ (\A a \in 1..l : a > f => At(i.byHeight, a) = c[a])
                          /\ (\A a \in 1..l : a < f => At(i.byHeight, a) = <<>>)
                          /\ EndOf(Txs, At(i.byHeight, f), c[f])
    BY <1>1, <1>2, <1>4 DEF HoldsNewest
  <2>4. u \in ToSet(At(i.byHeight, g)) /\ t \notin ToSet(At(i.byHeight, h))
    <3>1. i.txs[u] = g
      BY <1>3, <1>4, <2>1, <2>2
    <3>2. u \in {v \in Held(i) : i.txs[v] = g} /\ t \notin {v \in Held(i) : i.txs[v] = h}
      BY <1>4, <2>2, <3>1
    <3> QED BY <1>2, <2>1, <3>2 DEF ListsHold
  <2>5. ~(g < f)
    <3>1. At(i.byHeight, g) # <<>>
      BY <2>4 DEF ToSet
    <3> QED BY <2>1, <2>3, <3>1
  <2>6. ~(h > f)
    <3>1. t \in ToSet(c[h])
      BY <2>2 DEF ToSet
    <3> QED BY <2>1, <2>3, <2>4, <3>1
  <2>7. g = h /\ h = f /\ j <= k
    BY <1>4, <2>1, <2>3, <2>5, <2>6
  <2>8. PICK q \in Seq(Txs), b \in Seq(Txs) : q = At(i.byHeight, f) /\ b = c[f] /\ EndOf(Txs, q, b)
    <3>1. At(i.byHeight, f) \in Seq(Txs)
      BY <1>2, IndexTypes
    <3> QED BY <1>1, <2>3, <3>1
  <2>9. IsInjective(b)
    BY <1>1, <2>3, <2>8 DEF Sole, IsInjective
  <2>10. \A n \in DOMAIN b : b[n] \in ToSet(q) => \A a \in DOMAIN b : a >= n => b[a] \in ToSet(q)
    BY <2>8, <2>9, EndFacts
  <2>11. j \in DOMAIN b /\ k \in DOMAIN b /\ b[j] = u /\ b[k] = t /\ u \in ToSet(q) /\ t \notin ToSet(q)
    BY <2>2, <2>4, <2>7, <2>8
  <2>12. k >= j
    BY <2>7
  <2> QED BY <2>10, <2>11, <2>12
<1>5. h \in 1..l
  BY <1>1
<1> QED BY <1>3, <1>4, <1>5

LEMMA IxSays ==
    ASSUME node \in Nodes, chain \in Chains, Sole(chain), IxFollow
    PROVE  IndexTellsTheChain
<1> SUFFICES ASSUME "indexer" \in node.with, IxTells(ix, chain) PROVE IndexTellsTheChain
  BY DEF IxFollow, IndexTellsTheChain
<1>1. chain \in Seq(Seq(Txs)) /\ Len(chain) \in Nat /\ DOMAIN chain = 1..Len(chain)
  BY ChainsOfTxs, ChainTypes
<1>2. ix \in Indexes /\ ListsHold(ix) /\ HoldsNewest(ix, chain) /\ Cardinality(Held(ix)) <= MaxIndexedTxs
      /\ ChangesTell(ix, ChangesOn(chain))
  BY DEF IxTells, ListsHold
<1>3. DOMAIN ix.txs = Held(ix)
  BY DEF Held
<1>4. Held(ix) \subseteq ChainTxs(chain)
  <2> SUFFICES ASSUME NEW t \in Held(ix) PROVE t \in ChainTxs(chain)
    OBVIOUS
  <2>1. ix.txs[t] \in DOMAIN chain /\ t \in ToSet(chain[ix.txs[t]])
    BY <1>1, <1>2, HeldOnChain
  <2> QED BY <2>1 DEF ChainTxs, TxsOf
<1>5. NewestOnly
  BY <1>1, <1>3, IxNewest DEF NewestOnly
<1>6. PICK p \in Seq(ChangeRecs) : p = ix.changes /\ \A a \in DOMAIN p : p[a] \in ToSet(p) /\ p[a] \in ChangeRecs
  <2>1. PICK p \in Seq(ChangeRecs) : p = ix.changes
    BY <1>2, IndexTypes
  <2> QED BY <2>1, ElementOfSeq, LenProperties DEF ToSet
<1>7. ASSUME NEW s \in States PROVE ix.changesByState[s] = OfState(p, s)
  <2>1. \A a \in DOMAIN p : p[a] \in {c \in ToSet(p) : c.state = s} <=> p[a] \in StateRecs(s)
    BY <1>6 DEF StateRecs
  <2>2. Filtered(p, {c \in ToSet(p) : c.state = s}) = Filtered(p, StateRecs(s))
    BY <2>1, FilteredSame
  <2> QED BY <1>2, <1>6, <2>2 DEF OfState, ChangesTell
<1>8. ASSUME NEW t \in Txs PROVE ix.changesByTx[t] = OfTx(p, t)
  <2>1. \A a \in DOMAIN p : p[a] \in {c \in ToSet(p) : c.tx = t} <=> p[a] \in TxRecs(t)
    BY <1>6 DEF TxRecs
  <2>2. Filtered(p, {c \in ToSet(p) : c.tx = t}) = Filtered(p, TxRecs(t))
    BY <2>1, FilteredSame
  <2> QED BY <1>2, <1>6, <2>2 DEF OfTx, ChangesTell
<1>9. ListsAgree
  <2>1. \A h \in DOMAIN chain : h \in Nat
    BY <1>1
  <2>2. \A h \in DOMAIN chain : ToSet(At(ix.byHeight, h)) = {t \in Held(ix) : ix.txs[t] = h}
    BY <1>2, <2>1 DEF ListsHold
  <2>3. /\ \A s \in Senders : ToSet(ix.bySender[s]) = {t \in Held(ix) : Sender[t] = s}
        /\ \A s \in States : ToSet(ix.byState[s]) = {t \in Held(ix) : s \in Touches[t]}
    BY <1>2 DEF ListsHold
  <2> QED BY <1>3, <1>6, <1>7, <1>8, <2>2, <2>3 DEF ListsAgree
<1>10. LastChanges /\ Len(ix.changes) <= MaxStateChanges
  <2>1. PICK q \in Seq(ChangeRecs) : q = ChangesOn(chain) /\ EndOf(ChangeRecs, p, q)
    BY <1>1, <1>2, <1>6, ChangesOnTypes DEF ChangesTell
  <2>2. \E n \in 0..Len(q) : p = SubSeq(q, n + 1, Len(q))
    BY <2>1, EndBegins
  <2> QED BY <1>2, <1>6, <2>1, <2>2 DEF LastChanges, ChangesTell
<1> QED BY <1>2, <1>3, <1>4, <1>5, <1>9, <1>10 DEF IndexTellsTheChain

\* The inductive invariant of the node and its listeners.
ListenersIInv == NodeIInv /\ Sole(chain) /\ IxFollow /\ LogsFollow

LEMMA IxStarts == IxTells(NoIndexer, <<>>)
<1>1. HoldsNewest(NoIndexer, <<>>)
  <2>1. NoIndexer.to = 0 /\ Len(<<>>) = 0
    BY DEF NoIndexer
  <2> QED BY <2>1, NothingIndexed DEF HoldsNewest
<1>2. Cardinality(Held(NoIndexer)) <= MaxIndexedTxs
  <2>1. Cardinality(Held(NoIndexer)) = 0 /\ MaxIndexedTxs \in Nat
    BY NothingIndexed, FS_EmptySet, IndexerAssumption
  <2> QED BY <2>1
<1>3. ChangesTell(NoIndexer, ChangesOn(<<>>))
  <2>1. ChangesOn(<<>>) = <<>> /\ <<>> \in Seq(ChangeRecs)
    BY NoChangesOn, EmptySeq
  <2>2. EndOf(ChangeRecs, <<>>, <<>>)
    <3>1. <<>> \o <<>> = <<>>
      BY <2>1, ConcatEmptySeq
    <3> QED BY <2>1, <3>1 DEF EndOf
  <2>3. Len(<<>>) <= MaxStateChanges
    BY IndexerAssumption
  <2>4. \A S : Filtered(<<>>, S) = <<>>
    BY FilteredEmpty
  <2>5. /\ \A s \in States : NoIndexer.changesByState[s] = <<>>
        /\ \A t \in Txs : NoIndexer.changesByTx[t] = <<>>
    BY DEF NoIndexer
  <2> QED BY <2>1, <2>2, <2>3, <2>4, <2>5, NothingIndexed DEF ChangesTell
<1> QED BY <1>1, <1>2, <1>3, NothingIndexed DEF IxTells

LEMMA ListenersStart == ListenersInit => ListenersIInv
<1> SUFFICES ASSUME ListenersInit PROVE ListenersIInv
  OBVIOUS
<1>1. NodeIInv /\ chain = <<>> /\ ix = NoIndexer /\ logs = NoLogs
  BY NodeStarts DEF ListenersInit, IndexerInit, FastInit, PoolInit
<1>2. Sole(chain)
  <2>1. Len(chain) = 0
    BY <1>1
  <2> QED BY <2>1 DEF Sole
<1>3. IxFollow
  BY <1>1, IxStarts DEF IxFollow
<1>4. LogsFollow
  BY <1>1, NothingLogged, NoLogsOn DEF LogsFollow
<1> QED BY <1>1, <1>2, <1>3, <1>4 DEF ListenersIInv

\* What they tell when neither the chain nor they change.
LEMMA ListenersStay ==
    ASSUME ListenersIInv, chain' = chain, node' = node,
           ix' = ix \/ "indexer" \notin node.with, logs' = logs \/ "logs" \notin node.with
    PROVE  Sole(chain)' /\ IxFollow' /\ LogsFollow'
<1>1. Sole(chain)'
  BY DEF ListenersIInv, Sole
<1>2. IxFollow'
  BY DEF ListenersIInv, IxFollow
<1>3. LogsFollow'
  BY DEF ListenersIInv, LogsFollow
<1> QED BY <1>1, <1>2, <1>3

LEMMA ListenersStep == ListenersIInv /\ ListenersNext => ListenersIInv'
<1> SUFFICES ASSUME ListenersIInv, ListenersNext PROVE ListenersIInv'
  OBVIOUS
<1>1. FastNext /\ NodeIInv /\ FastIInv /\ PoolIInv /\ node \in Nodes /\ chain \in Chains /\ Once(chain) /\ Sole(chain)
  BY DEF ListenersNext, IndexerNext, ListenersIInv, NodeIInv, FastIInv, PoolIInv
<1>2. NodeIInv'
  BY <1>1, NodeSteps
<1>3. node' = node /\ (chain' = chain \/ \E n, b : Grown(n, b, chain'))
  <2>1. CASE PoolNext /\ Follow
    BY <1>1, <2>1, PoolSteps, NewChains
  <2>2. CASE \E t \in Txs : TrackPreflight(t) \/ Cleanup(t)
    BY <2>2 DEF TrackPreflight, Cleanup, poolVars
  <2> QED BY <1>1, <2>1, <2>2 DEF FastNext
<1>4. CASE chain' = chain
  <2>1. ix' = ix /\ logs' = logs
    BY <1>4 DEF ListenersNext, IndexerNext
  <2> QED BY <1>2, <1>3, <1>4, <2>1, ListenersStay DEF ListenersIInv
<1>5. CASE \E n, b : Grown(n, b, chain')
  <2>1. PICK new : new = chain'
    OBVIOUS
  <2>2. PICK n, b : Grown(n, b, new)
    BY <1>5, <2>1
  <2>3. Common(chain, new) = n /\ new # chain
    BY <1>1, <2>2, GrownParts
  <2>4. Sole(new)
    BY <1>1, <2>2, SoleGrow
  <2>5. "indexer" \in node.with => IxTells(ix', new)
    <3> SUFFICES ASSUME "indexer" \in node.with PROVE IxTells(ix', new)
      OBVIOUS
    <3>1. IxTells(ix, chain)
      BY DEF ListenersIInv, IxFollow
    <3>2. IxTells(IndexBlocks(IF n < Len(chain) THEN OnReorg(ix, n) ELSE ix, new, NewHeights(n, new)), new)
      BY <1>1, <2>2, <3>1, IxGrow
    <3>3. ix' = IndexBlocks(IF n < Len(chain) THEN OnReorg(ix, n) ELSE ix, new, NewHeights(n, new))
      BY <2>1, <2>3 DEF ListenersNext, IndexerNext
    <3> QED BY <3>2, <3>3
  <2>6. "logs" \in node.with => LogTells(logs', LogsOn(new))
    <3> SUFFICES ASSUME "logs" \in node.with PROVE LogTells(logs', LogsOn(new))
      OBVIOUS
    <3>1. LogTells(logs, LogsOn(chain))
      BY DEF ListenersIInv, LogsFollow
    <3>2. LogTells(LogBlocks(FoldLeft(RemoveByBlock, logs, NewHeights(n, chain)), new, NewHeights(n, new)), LogsOn(new))
      BY <1>1, <2>2, <3>1, LogsGrow
    <3>3. logs' = LogBlocks(FoldLeft(RemoveByBlock, logs, NewHeights(n, chain)), new, NewHeights(n, new))
      BY <2>1, <2>3 DEF ListenersNext
    <3> QED BY <3>2, <3>3
  <2>7. Sole(chain)'
    BY <2>1, <2>4 DEF Sole
  <2>8. IxFollow'
    BY <1>3, <2>1, <2>5 DEF IxFollow
  <2>9. LogsFollow'
    BY <1>3, <2>1, <2>6 DEF LogsFollow
  <2> QED BY <1>2, <2>7, <2>8, <2>9 DEF ListenersIInv
<1> QED BY <1>3, <1>4, <1>5

LEMMA ListenersRest ==
    ASSUME ListenersIInv, UNCHANGED <<poolVars, fast, ix, logs>>
    PROVE  ListenersIInv'
<1>1. NodeIInv'
  BY NodeRests DEF ListenersIInv
<1>2. chain' = chain /\ node' = node /\ ix' = ix /\ logs' = logs
  BY DEF poolVars
<1> QED BY <1>1, <1>2, ListenersStay DEF ListenersIInv

\* The indexer and the logs tell what the chain tells, after any blocks, reorgs and
\* evictions (Indexer.indexBlock, evictOldestTx, evictOldestStateChange and
\* handleReorg, InMemoryEventLogStore.addEvents and removeByBlock).
THEOREM ListenersAlwaysTellTheChain == ListenersSpec => []ListenersTellTheChain
<1>1. ListenersInit => ListenersIInv
  BY ListenersStart
<1>2. ListenersIInv /\ [ListenersNext]_<<poolVars, fast, ix, logs>> => ListenersIInv'
  BY ListenersStep, ListenersRest
<1>3. ListenersIInv => ListenersTellTheChain
  <2> SUFFICES ASSUME ListenersIInv PROVE ListenersTellTheChain
    OBVIOUS
  <2>1. node \in Nodes /\ chain \in Chains /\ Sole(chain) /\ IxFollow /\ LogsFollow
    BY DEF ListenersIInv, NodeIInv, FastIInv, PoolIInv
  <2> QED BY <2>1, IxSays, LogsSay DEF ListenersTellTheChain
<1> QED BY <1>1, <1>2, <1>3, PTL DEF ListenersSpec
===============================================================================
