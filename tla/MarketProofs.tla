----------------------------- MODULE MarketProofs -----------------------------
(* Proofs about the order book (OrderBook) and about the grids over it         *)
(* (MarketGrid), for every set of traders, prices, sizes and grid parameters.  *)
(* The first part is about the book alone, under Spec: types, limits of trades *)
(* and closed orders; the second about book and grids together, under GridSpec. *)
EXTENDS MarketGrid, CollectionProofs

-----------------------------------------------------------------------------
(* Arithmetic and queues.                                                  *)

\* A quote amount and a fee are natural numbers.
LEMMA QuoteAmountNat ==
    ASSUME NEW price \in Nat, NEW size \in Nat
    PROVE  QuoteAmount(price, size) \in Nat
  BY DEF QuoteAmount

\* So is the fee (calcFee).
LEMMA FeeNat ==
    ASSUME NEW amount \in Nat
    PROVE  Fee(amount) \in Nat
  <1>1. FeeBps \in Nat  BY MarketAssumption
  <1>2. amount * FeeBps \in Nat  BY <1>1
  <1> QED  BY <1>2 DEF Fee

\* What an order locks is a natural number.
LEMMA LockedForNat ==
    ASSUME NEW side \in Sides, NEW price \in Nat, NEW size \in Nat
    PROVE  LockedFor(side, price, size) \in Nat /\ TokenOf(side) \in Tokens
  BY QuoteAmountNat DEF LockedFor, TokenOf, Sides, Tokens

Distinct(ids) == \A i, j \in DOMAIN ids : ids[i] = ids[j] => i = j

\* Taking an element out of a queue moves those behind it one place up.
LEMMA WithoutPlaces ==
    ASSUME NEW ids \in Seq(Nat), NEW id, \E k \in DOMAIN ids : ids[k] = id
    PROVE  \E k \in 1..Len(ids) :
              /\ ids[k] = id
              /\ Without(ids, id) \in Seq(Nat)
              /\ Len(Without(ids, id)) = Len(ids) - 1
              /\ \A i \in 1..Len(Without(ids, id)) : /\ i < k => Without(ids, id)[i] = ids[i]
                                                     /\ i >= k => Without(ids, id)[i] = ids[i+1]
  <1> DEFINE at == {k \in DOMAIN ids : ids[k] = id}
  <1>0. at # {}
    OBVIOUS
  <1>1. PICK k \in at : k = CHOOSE j \in at : TRUE
    BY <1>0
  <1>2. k \in 1..Len(ids) /\ ids[k] = id
    BY <1>1, LenProperties
  <1> DEFINE front == SubSeq(ids, 1, k-1)
             back == SubSeq(ids, k+1, Len(ids))
  <1>3. PICK W : W = Without(ids, id)
    OBVIOUS
  <1>4. W = front \o back
    BY <1>0, <1>1, <1>3 DEF Without, RemoveAt
  <1>5. /\ front \in Seq(Nat) /\ Len(front) = k - 1
        /\ \A i \in 1..(k-1) : front[i] = ids[i]
    BY <1>2, LenProperties, SubSeqProperties, ElementOfSeq
  <1>6. /\ back \in Seq(Nat) /\ Len(back) = Len(ids) - k
        /\ \A i \in 1..(Len(ids) - k) : back[i] = ids[k+i]
    <2>1. \A i \in k+1..Len(ids) : ids[i] \in Nat
      BY <1>2, LenProperties, ElementOfSeq
    <2>2. k+1 \in Int /\ Len(ids) \in Int
      BY <1>2, LenProperties
    <2>3. /\ back \in Seq(Nat) /\ Len(back) = IF k+1 <= Len(ids) THEN Len(ids) - (k+1) + 1 ELSE 0
          /\ \A i \in 1..(Len(ids) - (k+1) + 1) : back[i] = ids[(k+1) + i - 1]
      BY <2>1, <2>2, SubSeqProperties
    <2> HIDE DEF back
    <2>4. ASSUME NEW i \in 1..(Len(ids) - k) PROVE back[i] = ids[k+i]
      <3>1. i \in 1..(Len(ids) - (k+1) + 1) /\ (k+1) + i - 1 = k+i
        BY <1>2, <2>2, SMTT(20)
      <3> QED  BY <2>3, <3>1
    <2>5. Len(back) = Len(ids) - k
      BY <1>2, <2>2, <2>3
    <2> QED  BY <2>3, <2>4, <2>5
  <1> HIDE DEF front, back
  <1>7. /\ W \in Seq(Nat)
        /\ Len(W) = Len(ids) - 1
        /\ \A i \in 1..Len(W) : /\ i < k => W[i] = ids[i]
                                /\ i >= k => W[i] = ids[i+1]
    <2>1. /\ W \in Seq(Nat)
          /\ Len(W) = Len(front) + Len(back)
          /\ \A i \in 1..(Len(front) + Len(back)) :
               W[i] = IF i <= Len(front) THEN front[i] ELSE back[i - Len(front)]
      BY <1>4, <1>5, <1>6, ConcatProperties
    <2>2. Len(ids) \in Nat /\ k \in Nat /\ k >= 1 /\ k <= Len(ids)
      BY <1>2, LenProperties
    <2>3. Len(W) = Len(ids) - 1
      BY <2>1, <2>2, <1>5, <1>6
    <2>4. ASSUME NEW i \in 1..Len(W)
          PROVE  (i < k => W[i] = ids[i]) /\ (i >= k => W[i] = ids[i+1])
      <3>1. ASSUME i < k  PROVE W[i] = ids[i]
        BY <3>1, <2>1, <2>2, <2>3, <1>5, <1>6
      <3>2. ASSUME i >= k  PROVE W[i] = ids[i+1]
        <4>1. PICK j \in 1..(Len(ids) - k) : j = i - (k-1)
          BY <3>2, <2>2, <2>3
        <4>2. W[i] = back[j] /\ k + j = i + 1
          BY <3>2, <4>1, <2>1, <2>2, <2>3, <1>5, <1>6
        <4>3. back[j] = ids[k+j]
          BY <1>6, <4>1
        <4> QED  BY <4>2, <4>3
      <3> QED  BY <3>1, <3>2
    <2> QED  BY <2>1, <2>3, <2>4
  <1> QED  BY <1>2, <1>3, <1>7

\* Taking an element out of a queue that holds it at most once leaves the
\* other elements, each still once.
LEMMA WithoutProperties ==
    ASSUME NEW ids \in Seq(Nat), NEW id, Distinct(ids)
    PROVE  /\ Without(ids, id) \in Seq(Nat)
           /\ Distinct(Without(ids, id))
           /\ \A i \in DOMAIN Without(ids, id) :
                 /\ Without(ids, id)[i] # id
                 /\ \E j \in DOMAIN ids : ids[j] = Without(ids, id)[i]
  <1>1. CASE ~ \E k \in DOMAIN ids : ids[k] = id
    BY <1>1 DEF Without, Distinct
  <1>2. CASE \E k \in DOMAIN ids : ids[k] = id
    <2>3. PICK W : W = Without(ids, id)
      OBVIOUS
    <2>2. PICK k \in 1..Len(ids) :
             /\ ids[k] = id /\ W \in Seq(Nat) /\ Len(W) = Len(ids) - 1
             /\ \A i \in 1..Len(W) : (i < k => W[i] = ids[i]) /\ (i >= k => W[i] = ids[i+1])
      BY <1>2, <2>3, WithoutPlaces
    <2>7. /\ W \in Seq(Nat)
          /\ Len(W) = Len(ids) - 1
          /\ \A i \in 1..Len(W) : /\ i < k => W[i] = ids[i]
                                  /\ i >= k => W[i] = ids[i+1]
      BY <2>2
    <2>8. DOMAIN W = 1..Len(W) /\ DOMAIN ids = 1..Len(ids) /\ Len(ids) \in Nat
      BY <2>7, LenProperties
    <2>9. \A i \in DOMAIN W : \E j \in DOMAIN ids : ids[j] = W[i] /\ j # k
      <3> SUFFICES ASSUME NEW i \in 1..Len(W)
                   PROVE  \E j \in DOMAIN ids : ids[j] = W[i] /\ j # k
        BY <2>8
      <3>1. ASSUME i < k  PROVE i \in DOMAIN ids /\ ids[i] = W[i] /\ i # k
        BY <3>1, <2>2, <2>7, <2>8
      <3>2. ASSUME i >= k  PROVE i + 1 \in DOMAIN ids /\ ids[i+1] = W[i] /\ i + 1 # k
        BY <3>2, <2>2, <2>7, <2>8
      <3>3. i < k \/ i >= k
        BY <2>2, <2>7, <2>8
      <3> QED  BY <3>1, <3>2, <3>3
    <2>10. \A i \in DOMAIN W : W[i] # id
      BY <2>2, <2>8, <2>9 DEF Distinct
    <2>11. Distinct(W)
      <3> SUFFICES ASSUME NEW i \in 1..Len(W), NEW j \in 1..Len(W), W[i] = W[j]
                   PROVE  i = j
        BY <2>8 DEF Distinct
      <3> DEFINE from(n) == IF n < k THEN n ELSE n + 1
      <3>1. from(i) \in DOMAIN ids /\ from(j) \in DOMAIN ids
        <4>1. \A n \in 1..Len(W) : n \in 1..Len(ids) /\ n + 1 \in 1..Len(ids)
          BY <2>7, <2>8
        <4> QED  BY <4>1, <2>8
      <3>2. W[i] = ids[from(i)] /\ W[j] = ids[from(j)]
        <4>1. \A n \in 1..Len(W) : W[n] = ids[from(n)]
          <5> SUFFICES ASSUME NEW n \in 1..Len(W)  PROVE W[n] = ids[from(n)]
            OBVIOUS
          <5>1. n < k \/ n >= k
            BY <2>2, <2>7, <2>8
          <5> QED  BY <5>1, <2>2, <2>7, <2>8
        <4> QED  BY <4>1
      <3>3. from(i) = from(j)
        <4> HIDE DEF from
        <4> QED  BY <3>1, <3>2 DEF Distinct
      <3>4. i \in Int /\ j \in Int /\ k \in Int
        BY <2>2, <2>7, <2>8
      <3> QED  BY <3>3, <3>4
    <2> QED  BY <2>3, <2>7, <2>9, <2>10, <2>11
  <1> QED  BY <1>1, <1>2

-----------------------------------------------------------------------------
(* Price levels.                                                           *)

\* Writing a level changes that level only.
LEMMA SetLevelProperties ==
    ASSUME NEW L, IsLevels(L), NEW side \in Sides, NEW price \in Nat, NEW lvl \in Level
    PROVE  /\ IsLevels(SetLevel(L, side, price, lvl))
           /\ \A s \in Sides : \A p : p \in DOMAIN SetLevel(L, side, price, lvl)[s] <=>
                 p \in DOMAIN L[s] \/ (s = side /\ p = price)
           /\ \A s \in Sides : \A p \in DOMAIN SetLevel(L, side, price, lvl)[s] :
                 SetLevel(L, side, price, lvl)[s][p] =
                   IF s = side /\ p = price THEN lvl ELSE L[s][p]
  BY DEF SetLevel, IsLevels

\* Deleting a level removes it and no other.
LEMMA DeleteLevelProperties ==
    ASSUME NEW L, IsLevels(L), NEW side \in Sides, NEW price \in Nat
    PROVE  /\ IsLevels(DeleteLevel(L, side, price))
           /\ \A s \in Sides : \A p : p \in DOMAIN DeleteLevel(L, side, price)[s] <=>
                 p \in DOMAIN L[s] /\ (s # side \/ p # price)
           /\ \A s \in Sides : \A p \in DOMAIN DeleteLevel(L, side, price)[s] :
                 DeleteLevel(L, side, price)[s][p] = L[s][p]
  BY DEF DeleteLevel, IsLevels

\* The best price of a side is one of its levels, or there is none.
LEMMA BestProperties ==
    ASSUME NEW L, IsLevels(L), NEW side \in Sides
    PROVE  /\ Best(L, side) \in Price
           /\ Best(L, side) # NoPrice => Best(L, side) \in DOMAIN L[side]
  <1> DEFINE First(p) == \A q \in DOMAIN L[side] : Ahead(side, p, q)
  <1>1. CASE \E p \in DOMAIN L[side] : First(p)
    <2>1. PICK p \in DOMAIN L[side] : p = CHOOSE q \in DOMAIN L[side] : First(q)
      BY <1>1
    <2>2. Best(L, side) = p
      BY <1>1, <2>1 DEF Best
    <2> QED  BY <2>1, <2>2 DEF IsLevels, Price
  <1>2. CASE ~ \E p \in DOMAIN L[side] : First(p)
    <2>1. Best(L, side) = NoPrice
      BY <1>2 DEF Best
    <2> QED  BY <2>1 DEF Price
  <1> QED  BY <1>1, <1>2

\* The cached best prices are prices of the market, or none.
LEMMA TopOfType ==
    ASSUME NEW L, IsLevels(L), NEW last \in Price
    PROVE  TopOf(L, last) \in [bid : Price, ask : Price, last : Price]
  BY BestProperties DEF TopOf, Sides

\* Every queue holds each of its orders once, and only live orders of its own
\* side and price.
Queues(L, O) ==
    \A s \in Sides : \A p \in DOMAIN L[s] :
        /\ Distinct(L[s][p].ids)
        /\ \A i \in DOMAIN L[s][p].ids :
              /\ L[s][p].ids[i] \in DOMAIN O
              /\ O[L[s][p].ids[i]].side = s
              /\ O[L[s][p].ids[i]].price = p
              /\ O[L[s][p].ids[i]].status \in {"open", "partial"}

Absent(L, id) ==
    \A s \in Sides : \A p \in DOMAIN L[s] :
        \A i \in DOMAIN L[s][p].ids : L[s][p].ids[i] # id

\* Removing an order from its level keeps the queues right and leaves no
\* queue that holds it.
LEMMA LevelRemoveProperties ==
    ASSUME NEW L, IsLevels(L), NEW O, Queues(L, O), NEW id \in DOMAIN O,
           O[id].side \in Sides, O[id].price \in Nat, NEW size \in Nat
    PROVE  LET L2 == LevelRemove(L, O[id].side, O[id].price, size, id)
           IN  IsLevels(L2) /\ Queues(L2, O) /\ Absent(L2, id)
  <1> DEFINE side == O[id].side
             price == O[id].price
             ids == L[side][price].ids
             agg == L[side][price].aggregate - size
             L2 == LevelRemove(L, side, price, size, id)
  <1>1. ASSUME NEW s \in Sides, NEW p \in DOMAIN L[s], s # side \/ p # price
        PROVE  \A i \in DOMAIN L[s][p].ids : L[s][p].ids[i] # id
    BY <1>1 DEF Queues
  <1>2. CASE price \notin DOMAIN L[side]
    <2>1. L2 = L
      BY <1>2 DEF LevelRemove
    <2> QED  BY <1>1, <1>2, <2>1 DEF Absent
  <1>3. CASE price \in DOMAIN L[side] /\ (agg <= 0 \/ Without(ids, id) = <<>>)
    <2>1. L2 = DeleteLevel(L, side, price)
      BY <1>3 DEF LevelRemove
    <2> HIDE DEF L2
    <2>2. IsLevels(L2)
      BY <2>1, DeleteLevelProperties
    <2>3. \A s \in Sides : \A p \in DOMAIN L2[s] :
             p \in DOMAIN L[s] /\ L2[s][p] = L[s][p] /\ (s # side \/ p # price)
      <3>1. \A s \in Sides : \A p : p \in DOMAIN L2[s] <=>
               p \in DOMAIN L[s] /\ (s # side \/ p # price)
        BY <2>1, DeleteLevelProperties
      <3>2. \A s \in Sides : \A p \in DOMAIN L2[s] : L2[s][p] = L[s][p]
        BY <2>1, DeleteLevelProperties
      <3> QED  BY <3>1, <3>2
    <2>4. Queues(L2, O)
      BY <2>3 DEF Queues
    <2>5. Absent(L2, id)
      BY <1>1, <2>3 DEF Absent
    <2> QED  BY <2>2, <2>4, <2>5 DEF L2
  <1>4. CASE price \in DOMAIN L[side] /\ ~ (agg <= 0 \/ Without(ids, id) = <<>>)
    <2> DEFINE lvl == [aggregate |-> agg, ids |-> Without(ids, id)]
    <2>1. L2 = SetLevel(L, side, price, lvl)
      BY <1>4 DEF LevelRemove
    <2>2. ids \in Seq(Nat) /\ agg \in Int /\ Distinct(ids)
      BY <1>4 DEF IsLevels, Level, Queues
    <2>3. /\ Without(ids, id) \in Seq(Nat) /\ Distinct(Without(ids, id))
          /\ \A i \in DOMAIN Without(ids, id) :
                 /\ Without(ids, id)[i] # id
                 /\ \E j \in DOMAIN ids : ids[j] = Without(ids, id)[i]
      BY <2>2, WithoutProperties
    <2>4. lvl \in Level /\ lvl.ids = Without(ids, id)
      BY <2>2, <2>3 DEF Level
    <2> HIDE DEF L2, lvl
    <2>5. IsLevels(L2)
      BY <2>1, <2>4, SetLevelProperties
    <2>6. \A s \in Sides : \A p \in DOMAIN L2[s] :
             /\ p \in DOMAIN L[s]
             /\ s # side \/ p # price => L2[s][p] = L[s][p]
             /\ s = side /\ p = price => L2[s][p].ids = Without(ids, id)
      <3>1. \A s \in Sides : \A p : p \in DOMAIN L2[s] <=>
               p \in DOMAIN L[s] \/ (s = side /\ p = price)
        BY <2>1, <2>4, SetLevelProperties
      <3>2. \A s \in Sides : \A p \in DOMAIN L2[s] :
               L2[s][p] = IF s = side /\ p = price THEN lvl ELSE L[s][p]
        BY <2>1, <2>4, SetLevelProperties
      <3> QED  BY <1>4, <3>1, <3>2, <2>4
    <2>7. ASSUME NEW i \in DOMAIN Without(ids, id)
          PROVE  /\ Without(ids, id)[i] \in DOMAIN O
                 /\ O[Without(ids, id)[i]].side = side
                 /\ O[Without(ids, id)[i]].price = price
                 /\ O[Without(ids, id)[i]].status \in {"open", "partial"}
      <3>1. PICK j \in DOMAIN ids : ids[j] = Without(ids, id)[i]
        BY <2>3
      <3> QED  BY <1>4, <3>1 DEF Queues
    <2>8. Queues(L2, O)
      <3> SUFFICES ASSUME NEW s \in Sides, NEW p \in DOMAIN L2[s]
                   PROVE  /\ Distinct(L2[s][p].ids)
                          /\ \A i \in DOMAIN L2[s][p].ids :
                                /\ L2[s][p].ids[i] \in DOMAIN O
                                /\ O[L2[s][p].ids[i]].side = s
                                /\ O[L2[s][p].ids[i]].price = p
                                /\ O[L2[s][p].ids[i]].status \in {"open", "partial"}
        BY DEF Queues
      <3>1. CASE s = side /\ p = price
        <4>1. L2[s][p].ids = Without(ids, id)
          BY <3>1, <2>6
        <4> HIDE DEF ids
        <4> QED  BY <3>1, <4>1, <2>3, <2>7
      <3>2. CASE s # side \/ p # price
        BY <3>2, <2>6 DEF Queues
      <3> QED  BY <3>1, <3>2
    <2>9. Absent(L2, id)
      <3> SUFFICES ASSUME NEW s \in Sides, NEW p \in DOMAIN L2[s]
                   PROVE  \A i \in DOMAIN L2[s][p].ids : L2[s][p].ids[i] # id
        BY DEF Absent
      <3>1. CASE s = side /\ p = price
        <4>1. L2[s][p].ids = Without(ids, id)
          BY <3>1, <2>6
        <4> QED  BY <4>1, <2>3
      <3>2. CASE s # side \/ p # price
        BY <3>2, <2>6, <1>1
      <3> QED  BY <3>1, <3>2
    <2> QED  BY <2>5, <2>8, <2>9 DEF L2
  <1> QED  BY <1>2, <1>3, <1>4

\* Changing the record of an order that no queue holds keeps the queues right.
LEMMA QueuesOfOthers ==
    ASSUME NEW L, NEW O, NEW O2, NEW id, Queues(L, O), Absent(L, id),
           DOMAIN O \subseteq DOMAIN O2,
           \A other \in DOMAIN O : other # id => O2[other] = O[other]
    PROVE  Queues(L, O2)
  BY DEF Queues, Absent

\* So does a change that leaves an order live, on its side and at its price.
LEMMA QueuesOfLive ==
    ASSUME NEW L, NEW O, NEW O2, NEW id \in DOMAIN O, Queues(L, O),
           DOMAIN O \subseteq DOMAIN O2,
           \A other \in DOMAIN O : other # id => O2[other] = O[other],
           O2[id].side = O[id].side, O2[id].price = O[id].price,
           O2[id].status \in {"open", "partial"}
    PROVE  Queues(L, O2)
  BY DEF Queues

\* Adding a new order to a level queues it behind the others.
LEMMA LevelAddProperties ==
    ASSUME NEW L, IsLevels(L), NEW O, Queues(L, O), NEW id \in Nat, id \notin DOMAIN O,
           NEW O2, DOMAIN O2 = DOMAIN O \cup {id},
           \A other \in DOMAIN O : O2[other] = O[other],
           NEW side \in Sides, NEW price \in Nat, NEW size \in Nat,
           O2[id].side = side, O2[id].price = price, O2[id].status = "open"
    PROVE  LET L2 == LevelAdd(L, side, price, size, id)
           IN  IsLevels(L2) /\ Queues(L2, O2)
  <1> DEFINE L2 == LevelAdd(L, side, price, size, id)
             lvl == IF price \in DOMAIN L[side]
                    THEN [aggregate |-> L[side][price].aggregate + size,
                          ids |-> Append(L[side][price].ids, id)]
                    ELSE [aggregate |-> size, ids |-> <<id>>]
  <1>1. L2 = SetLevel(L, side, price, lvl)
    BY DEF LevelAdd
  <1>2. Queues(L, O2) /\ Absent(L, id)
    BY DEF Queues, Absent
  <1>3. /\ lvl \in Level /\ Distinct(lvl.ids)
        /\ \A i \in DOMAIN lvl.ids :
              \/ lvl.ids[i] = id
              \/ /\ price \in DOMAIN L[side]
                 /\ i \in DOMAIN L[side][price].ids
                 /\ lvl.ids[i] = L[side][price].ids[i]
    <2>1. CASE price \in DOMAIN L[side]
      <3> DEFINE q == L[side][price].ids
      <3>1. q \in Seq(Nat) /\ L[side][price].aggregate \in Int /\ Distinct(q)
        BY <2>1 DEF IsLevels, Level, Queues
      <3>2. \A i \in DOMAIN q : q[i] # id
        BY <2>1, <1>2 DEF Absent
      <3>3. /\ lvl.ids = Append(q, id) /\ Append(q, id) \in Seq(Nat)
            /\ DOMAIN Append(q, id) = 1..(Len(q) + 1)
            /\ \A i \in 1..Len(q) : Append(q, id)[i] = q[i]
            /\ Append(q, id)[Len(q) + 1] = id
            /\ DOMAIN q = 1..Len(q) /\ Len(q) \in Nat
        BY <2>1, <3>1, AppendProperties, LenProperties
      <3>4. lvl \in Level
        BY <2>1, <3>1, <3>3 DEF Level
      <3>5. Distinct(lvl.ids)
        <4> HIDE DEF q, lvl
        <4> SUFFICES ASSUME NEW i \in 1..(Len(q) + 1), NEW j \in 1..(Len(q) + 1),
                            Append(q, id)[i] = Append(q, id)[j]
                     PROVE  i = j
          BY <3>3 DEF Distinct
        <4>1. i \in 1..Len(q) \/ i = Len(q) + 1
          BY <3>3
        <4>2. j \in 1..Len(q) \/ j = Len(q) + 1
          BY <3>3
        <4> QED  BY <4>1, <4>2, <3>1, <3>2, <3>3 DEF Distinct
      <3>6. ASSUME NEW i \in 1..(Len(q) + 1)
            PROVE  \/ Append(q, id)[i] = id
                   \/ (i \in DOMAIN q /\ Append(q, id)[i] = q[i])
        <4> HIDE DEF q, lvl
        <4>1. i \in 1..Len(q) \/ i = Len(q) + 1
          BY <3>3
        <4> QED  BY <4>1, <3>3
      <3>7. \A i \in DOMAIN lvl.ids :
               lvl.ids[i] = id \/ (i \in DOMAIN q /\ lvl.ids[i] = q[i])
        <4> HIDE DEF q, lvl
        <4> QED  BY <3>3, <3>6
      <3> HIDE DEF lvl
      <3> QED  BY <2>1, <3>4, <3>5, <3>7
    <2>2. CASE price \notin DOMAIN L[side]
      <3>1. lvl = [aggregate |-> size, ids |-> <<id>>]
        BY <2>2
      <3>2. <<id>> \in Seq(Nat) /\ Len(<<id>>) = 1 /\ <<id>>[1] = id
        OBVIOUS
      <3>3. DOMAIN <<id>> = 1..1
        BY <3>2, LenProperties
      <3>4. lvl \in Level /\ lvl.ids = <<id>>
        <4> HIDE DEF lvl
        <4> QED  BY <3>1, <3>2 DEF Level
      <3>5. \A i \in 1..1 : i = 1
        OBVIOUS
      <3> HIDE DEF lvl
      <3> QED  BY <3>2, <3>3, <3>4, <3>5 DEF Distinct
    <2> QED  BY <2>1, <2>2
  <1> HIDE DEF L2, lvl
  <1>4. IsLevels(L2)
    BY <1>1, <1>3, SetLevelProperties
  <1>5. \A s \in Sides : \A p \in DOMAIN L2[s] :
           /\ s = side /\ p = price => L2[s][p] = lvl
           /\ s # side \/ p # price => p \in DOMAIN L[s] /\ L2[s][p] = L[s][p]
    <2>1. \A s \in Sides : \A p : p \in DOMAIN L2[s] <=>
             p \in DOMAIN L[s] \/ (s = side /\ p = price)
      BY <1>1, <1>3, SetLevelProperties
    <2>2. \A s \in Sides : \A p \in DOMAIN L2[s] :
             L2[s][p] = IF s = side /\ p = price THEN lvl ELSE L[s][p]
      BY <1>1, <1>3, SetLevelProperties
    <2> QED  BY <2>1, <2>2
  <1>6. Queues(L2, O2)
    <2> SUFFICES ASSUME NEW s \in Sides, NEW p \in DOMAIN L2[s]
                 PROVE  /\ Distinct(L2[s][p].ids)
                        /\ \A i \in DOMAIN L2[s][p].ids :
                              /\ L2[s][p].ids[i] \in DOMAIN O2
                              /\ O2[L2[s][p].ids[i]].side = s
                              /\ O2[L2[s][p].ids[i]].price = p
                              /\ O2[L2[s][p].ids[i]].status \in {"open", "partial"}
      BY DEF Queues
    <2>1. CASE s = side /\ p = price
      <3>1. L2[s][p] = lvl
        BY <2>1, <1>5
      <3> QED  BY <2>1, <3>1, <1>2, <1>3 DEF Queues
    <2>2. CASE s # side \/ p # price
      BY <2>2, <1>2, <1>5 DEF Queues
    <2> QED  BY <2>1, <2>2
  <1> QED  BY <1>4, <1>6 DEF L2

\* Shrinking a level keeps the queues right.
LEMMA LevelReduceProperties ==
    ASSUME NEW L, IsLevels(L), NEW O, Queues(L, O),
           NEW side \in Sides, NEW price \in Nat, NEW size \in Nat
    PROVE  LET L2 == LevelReduce(L, side, price, size)
           IN  IsLevels(L2) /\ Queues(L2, O)
  <1> DEFINE L2 == LevelReduce(L, side, price, size)
             agg == L[side][price].aggregate - size
             lvl == [aggregate |-> agg, ids |-> L[side][price].ids]
  <1>1. CASE price \notin DOMAIN L[side]
    BY <1>1 DEF LevelReduce
  <1>2. CASE price \in DOMAIN L[side] /\ agg <= 0
    <2>1. L2 = DeleteLevel(L, side, price)
      BY <1>2 DEF LevelReduce
    <2> HIDE DEF L2
    <2>2. \A s \in Sides : \A p \in DOMAIN L2[s] :
             p \in DOMAIN L[s] /\ L2[s][p] = L[s][p]
      BY <2>1, DeleteLevelProperties
    <2> QED  BY <2>1, <2>2, DeleteLevelProperties DEF Queues, L2
  <1>3. CASE price \in DOMAIN L[side] /\ ~ agg <= 0
    <2>1. L2 = SetLevel(L, side, price, lvl)
      BY <1>3 DEF LevelReduce
    <2>2. lvl \in Level /\ lvl.ids = L[side][price].ids
      BY <1>3 DEF IsLevels, Level
    <2> HIDE DEF L2, lvl
    <2>3. \A s \in Sides : \A p : p \in DOMAIN L2[s] <=>
             p \in DOMAIN L[s] \/ (s = side /\ p = price)
      BY <2>1, <2>2, SetLevelProperties
    <2>4. \A s \in Sides : \A p \in DOMAIN L2[s] :
             L2[s][p] = IF s = side /\ p = price THEN lvl ELSE L[s][p]
      BY <2>1, <2>2, SetLevelProperties
    <2>5. \A s \in Sides : \A p \in DOMAIN L2[s] :
             p \in DOMAIN L[s] /\ L2[s][p].ids = L[s][p].ids
      BY <1>3, <2>2, <2>3, <2>4
    <2>6. Queues(L2, O)
      BY <2>5 DEF Queues
    <2>7. IsLevels(L2)
      BY <2>1, <2>2, SetLevelProperties
    <2> QED  BY <2>6, <2>7 DEF L2
  <1> QED  BY <1>1, <1>2, <1>3

\* What a trade does to one of its orders and to that order's level.
LEMMA AfterFillProperties ==
    ASSUME NEW L, IsLevels(L), NEW O, Queues(L, O), NEW id \in DOMAIN O,
           O[id] \in Order, NEW size \in Nat,
           NEW O2, O2 = [O EXCEPT ![id] = Fill(O[id], size)]
    PROVE  LET L2 == AfterFill(L, id, O[id], size)
           IN  IsLevels(L2) /\ Queues(L2, O2)
  <1> DEFINE L2 == AfterFill(L, id, O[id], size)
  <1>1. O[id].side \in Sides /\ O[id].price \in Nat
    BY DEF Order
  <1>2. /\ DOMAIN O2 = DOMAIN O
        /\ \A other \in DOMAIN O : other # id => O2[other] = O[other]
    OBVIOUS
  <1>3. CASE O[id].remaining = size
    <2>1. L2 = LevelRemove(L, O[id].side, O[id].price, size, id)
      BY <1>3 DEF AfterFill
    <2> HIDE DEF L2
    <2>2. IsLevels(L2) /\ Queues(L2, O) /\ Absent(L2, id)
      BY <1>1, <2>1, LevelRemoveProperties
    <2>3. Queues(L2, O2)
      BY <1>2, <2>2, QueuesOfOthers
    <2> QED  BY <2>2, <2>3 DEF L2
  <1>4. CASE O[id].remaining # size
    <2>1. L2 = LevelReduce(L, O[id].side, O[id].price, size)
      BY <1>4 DEF AfterFill
    <2> HIDE DEF L2
    <2>2. IsLevels(L2) /\ Queues(L2, O)
      BY <1>1, <2>1, LevelReduceProperties
    <2>3. /\ O2[id].side = O[id].side /\ O2[id].price = O[id].price
          /\ O2[id].status = "partial"
      BY <1>4 DEF Fill, Order
    <2>4. Queues(L2, O2)
      BY <1>2, <2>2, <2>3, QueuesOfLive
    <2> QED  BY <2>2, <2>4 DEF L2
  <1> QED  BY <1>3, <1>4

-----------------------------------------------------------------------------
(* The inductive invariant.  TypeOK alone is not inductive: a turn of the  *)
(* loop looks up the orders at the heads of two queues, so it needs to     *)
(* know that queues hold orders that exist, of their own side and price.   *)

\* An order is closed exactly when nothing of it is left.
ClosedIffEmpty ==
    \A id \in DOMAIN orders :
        orders[id].remaining = 0 <=> orders[id].status \in {"filled", "cancelled"}

TapeOK ==
    /\ \A i \in DOMAIN tape : tape[i].maker \in DOMAIN orders /\ tape[i].taker \in DOMAIN orders
    /\ NoTradeThrough

Inv == TypeOK /\ Queues(levels, orders) /\ ClosedIffEmpty /\ TapeOK

\* Locking and releasing keep the escrow a table of natural numbers.
LEMMA AdjustEscrowType ==
    ASSUME NEW e \in [Traders -> [Tokens -> Int]], NEW t \in Traders,
           NEW token \in Tokens, NEW delta \in Int
    PROVE  AdjustEscrow(e, t, token, delta) \in [Traders -> [Tokens -> Int]]
  BY DEF AdjustEscrow

\* The tape stays right while it does not grow and orders keep their terms.
LEMMA TapeKept ==
    ASSUME TapeOK, tape' = tape, DOMAIN orders \subseteq DOMAIN orders',
           \A id \in DOMAIN orders : /\ orders'[id].side = orders[id].side
                                     /\ orders'[id].price = orders[id].price
    PROVE  TapeOK'
  BY DEF TapeOK, NoTradeThrough

\* What cancelling an order does.
LEMMA CancelProperties ==
    ASSUME Inv, NEW id \in DOMAIN orders, CancelInternal(id),
           orders[id].status # "filled", tape' = tape
    PROVE  /\ DOMAIN orders' = DOMAIN orders
           /\ orders' \in [DOMAIN orders' -> Order]
           /\ IsLevels(levels') /\ Queues(levels', orders')
           /\ top' \in [bid : Price, ask : Price, last : Price]
           /\ escrow' \in [Traders -> [Tokens -> Int]]
           /\ ClosedIffEmpty'
           /\ TapeOK'
           /\ \A other \in DOMAIN orders :
                 orders[other].status \in {"filled", "cancelled"} => orders'[other] = orders[other]
  <1> DEFINE o == orders[id]
             L == LevelRemove(levels, o.side, o.price, o.remaining, id)
  <1>1. /\ o \in Order /\ o.side \in Sides /\ o.price \in Nat /\ o.remaining \in Nat
        /\ o.owner \in Traders
    BY DEF Inv, TypeOK, Order
  <1>2. levels' = L /\ top' = TopOf(L, top.last)
    BY DEF CancelInternal
  <1>3. orders' = [orders EXCEPT ![id].status = "cancelled", ![id].remaining = 0]
    BY DEF CancelInternal
  <1>4. IsLevels(L) /\ Queues(L, orders) /\ Absent(L, id)
    BY <1>1, LevelRemoveProperties DEF Inv, TypeOK
  <1>5. /\ DOMAIN orders' = DOMAIN orders
        /\ \A other \in DOMAIN orders : other # id => orders'[other] = orders[other]
        /\ orders'[id] = [o EXCEPT !.status = "cancelled", !.remaining = 0]
        /\ orders' = [i \in DOMAIN orders |-> orders'[i]]
    BY <1>3 DEF Inv, TypeOK
  <1>6. /\ orders'[id] \in Order /\ orders'[id].status = "cancelled"
        /\ orders'[id].remaining = 0
        /\ orders'[id].side = o.side /\ orders'[id].price = o.price
    <2> HIDE DEF o
    <2>1. "cancelled" \in Statuses /\ 0 \in Nat
      BY DEF Statuses
    <2> QED  BY <1>1, <1>5, <2>1 DEF Order
  <1> HIDE DEF L
  <1>7. orders' \in [DOMAIN orders' -> Order]
    BY <1>5, <1>6 DEF Inv, TypeOK
  <1>8. Queues(levels', orders')
    BY <1>2, <1>4, <1>5, QueuesOfOthers
  <1>9. top' \in [bid : Price, ask : Price, last : Price]
    BY <1>2, <1>4, TopOfType DEF Inv, TypeOK
  <1>10. escrow' \in [Traders -> [Tokens -> Int]]
    <2>1. LockedFor(o.side, o.price, o.remaining) \in Nat /\ TokenOf(o.side) \in Tokens
      BY <1>1, LockedForNat
    <2>2. - LockedFor(o.side, o.price, o.remaining) \in Int
      BY <2>1
    <2>3. escrow' = AdjustEscrow(escrow, o.owner, TokenOf(o.side),
                                 - LockedFor(o.side, o.price, o.remaining))
      BY DEF CancelInternal
    <2> QED  BY <1>1, <2>1, <2>2, <2>3, AdjustEscrowType DEF Inv, TypeOK
  <1>11. ClosedIffEmpty'
    BY <1>5, <1>6 DEF Inv, ClosedIffEmpty
  <1>12. TapeOK'
    <2>1. \A other \in DOMAIN orders : /\ orders'[other].side = orders[other].side
                                       /\ orders'[other].price = orders[other].price
      BY <1>5, <1>6
    <2> QED  BY <1>5, <2>1, TapeKept DEF Inv
  <1>13. ASSUME NEW other \in DOMAIN orders, orders[other].status \in {"filled", "cancelled"}
         PROVE  orders'[other] = orders[other]
    <2>1. CASE other # id
      BY <2>1, <1>5
    <2>2. CASE other = id
      <3>1. o.status = "cancelled" /\ o.remaining = 0
        BY <1>13, <2>2 DEF Inv, ClosedIffEmpty
      <3>2. o = [o EXCEPT !.status = "cancelled", !.remaining = 0]
        BY <1>1, <3>1 DEF Order
      <3> QED  BY <2>2, <3>2, <1>5
    <2> QED  BY <2>1, <2>2
  <1> QED  BY <1>2, <1>4, <1>5, <1>7, <1>8, <1>9, <1>10, <1>11, <1>12, <1>13

\* Closed orders are final: what a step may not do to them.
ClosedKept ==
    \A id \in DOMAIN orders :
        orders[id].status \in {"filled", "cancelled"} => orders'[id] = orders[id]

\* An empty market satisfies the invariant.
LEMMA InitInv == Init => Inv
  <1> SUFFICES ASSUME Init  PROVE Inv
    OBVIOUS
  <1>1. TypeOK
    BY DEF Init, TypeOK, IsLevels, Sides, Tokens, Price, Idle
  <1>2. Queues(levels, orders)
    BY DEF Init, Queues
  <1>3. ClosedIffEmpty
    BY DEF Init, ClosedIffEmpty
  <1>4. TapeOK
    BY DEF Init, TapeOK, NoTradeThrough
  <1> QED  BY <1>1, <1>2, <1>3, <1>4 DEF Inv

\* Placing an order, rejected, resting or about to be matched, keeps the invariant.
LEMMA PlaceOrderStep ==
    ASSUME Inv, NEW t \in Traders, NEW side \in Sides, NEW price \in Prices,
           NEW size \in Sizes, NEW flags \in FlagSets,
           PlaceOrder(t, side, price, size, flags)
    PROVE  Inv' /\ ClosedKept
  <1>1. price \in Nat /\ size \in Nat /\ price > 0 /\ size > 0
    BY InputsAssumption DEF PlaceOrder, ValidOrder
  <1> DEFINE o == NewOrder(t, side, price, size)
             L == LevelAdd(levels, side, price, size, nextId)
  <1>2. /\ o \in Order /\ o.side = side /\ o.price = price /\ o.status = "open"
        /\ o.remaining = size
    BY <1>1 DEF NewOrder, Order, Statuses, Inv, TypeOK
  <1>3. nextId \in Nat /\ nextId \notin DOMAIN orders /\ nextId' = nextId + 1
        /\ IsLevels(levels) /\ Queues(levels, orders)
    BY DEF Inv, TypeOK, PlaceOrder
  <1>4. ASSUME NEW r, r \in Order, orders' = WithOrder(nextId, r),
               r.remaining = 0 <=> r.status \in {"filled", "cancelled"}
        PROVE  /\ DOMAIN orders' = DOMAIN orders \cup {nextId}
               /\ orders'[nextId] = r
               /\ \A id \in DOMAIN orders : orders'[id] = orders[id]
               /\ orders' \in [DOMAIN orders' -> Order]
               /\ DOMAIN orders' \subseteq 0..(nextId' - 1)
               /\ ClosedIffEmpty'
               /\ TapeOK'
               /\ ClosedKept
    <2>1. /\ DOMAIN orders' = DOMAIN orders \cup {nextId}
          /\ orders'[nextId] = r
          /\ \A id \in DOMAIN orders : orders'[id] = orders[id]
          /\ orders' \in [DOMAIN orders' -> Order]
      BY <1>3, <1>4 DEF WithOrder, Inv, TypeOK
    <2>2. DOMAIN orders' \subseteq 0..(nextId' - 1)
      BY <1>3, <2>1 DEF Inv, TypeOK
    <2>3. ClosedIffEmpty'
      BY <1>4, <2>1 DEF Inv, ClosedIffEmpty
    <2>4. TapeOK'
      BY <2>1, TapeKept DEF Inv, PlaceOrder
    <2>5. ClosedKept
      BY <2>1 DEF ClosedKept
    <2> QED  BY <2>1, <2>2, <2>3, <2>4, <2>5
  <1> HIDE DEF L, o
  <1>5. CASE RejectPostOnly(t, side, price, size)
    <2> DEFINE r == [o EXCEPT !.remaining = 0, !.status = "cancelled"]
               M == LevelRemove(L, side, price, size, nextId)
    <2>1. /\ r \in Order /\ r.remaining = 0 /\ r.status = "cancelled"
          /\ r.side = side /\ r.price = price
      BY <1>2 DEF Order, Statuses
    <2>2. /\ orders' = WithOrder(nextId, r) /\ levels' = M /\ top' = TopOf(M, top.last)
          /\ UNCHANGED <<escrow, call>> /\ outcome' = "throw"
      BY <1>5 DEF RejectPostOnly, L, o
    <2> HIDE DEF r
    <2>3. /\ DOMAIN orders' = DOMAIN orders \cup {nextId}
          /\ orders'[nextId] = r
          /\ \A id \in DOMAIN orders : orders'[id] = orders[id]
          /\ orders' \in [DOMAIN orders' -> Order]
          /\ DOMAIN orders' \subseteq 0..(nextId' - 1)
          /\ ClosedIffEmpty' /\ TapeOK' /\ ClosedKept
      BY <2>1, <2>2, <1>4
    <2> DEFINE O == WithOrder(nextId, o)
    <2>4. /\ DOMAIN O = DOMAIN orders \cup {nextId} /\ O[nextId] = o
          /\ \A id \in DOMAIN orders : O[id] = orders[id]
      BY <1>3 DEF WithOrder
    <2> HIDE DEF O, M
    <2>5. IsLevels(L) /\ Queues(L, O)
      <3>1. O[nextId].side = side /\ O[nextId].price = price /\ O[nextId].status = "open"
        BY <1>2, <2>4
      <3> QED  BY <1>1, <1>3, <2>4, <3>1, LevelAddProperties DEF L
    <2>6. IsLevels(M) /\ Queues(M, O) /\ Absent(M, nextId)
      BY <1>1, <1>2, <2>4, <2>5, LevelRemoveProperties DEF M
    <2>7. Queues(M, orders')
      BY <2>3, <2>4, <2>6, QueuesOfOthers
    <2>8. top' \in [bid : Price, ask : Price, last : Price]
      BY <2>2, <2>6, TopOfType DEF Inv, TypeOK
    <2>9. TypeOK'
      BY <1>3, <2>2, <2>3, <2>6, <2>8 DEF Inv, TypeOK, PlaceOrder
    <2> QED  BY <2>2, <2>3, <2>7, <2>9 DEF Inv
  <1>6. CASE Rest(t, side, price, size, flags)
    <2>1. /\ orders' = WithOrder(nextId, o) /\ levels' = L /\ top' = TopOf(L, top.last)
          /\ escrow' = AdjustEscrow(escrow, t, TokenOf(side), LockedFor(side, price, size))
          /\ call' = IF {"ioc", "fok"} \cap flags # {}
                     THEN Matching(MaxMatches, nextId, "fok" \in flags) ELSE Idle
          /\ outcome' = "ok"
      BY <1>6 DEF Rest, L, o
    <2>2. /\ DOMAIN orders' = DOMAIN orders \cup {nextId}
          /\ orders'[nextId] = o
          /\ \A id \in DOMAIN orders : orders'[id] = orders[id]
          /\ orders' \in [DOMAIN orders' -> Order]
          /\ DOMAIN orders' \subseteq 0..(nextId' - 1)
          /\ ClosedIffEmpty' /\ TapeOK' /\ ClosedKept
      <3>1. o.remaining = 0 <=> o.status \in {"filled", "cancelled"}
        BY <1>1, <1>2
      <3> QED  BY <1>2, <1>4, <2>1, <3>1
    <2>3. IsLevels(L) /\ Queues(L, orders')
      <3>1. /\ orders'[nextId].side = side /\ orders'[nextId].price = price
            /\ orders'[nextId].status = "open"
        BY <1>2, <2>2
      <3> QED  BY <1>1, <1>3, <2>2, <3>1, LevelAddProperties DEF L
    <2>4. top' \in [bid : Price, ask : Price, last : Price]
      BY <2>1, <2>3, TopOfType DEF Inv, TypeOK
    <2>5. escrow' \in [Traders -> [Tokens -> Int]]
      BY <1>1, <2>1, LockedForNat, AdjustEscrowType DEF Inv, TypeOK
    <2>6. /\ call' \in [op : {"idle", "match"}, left : Nat, index : Nat,
                         order : Nat \cup {NoOrder}, fok : BOOLEAN]
          /\ call'.order # NoOrder => call'.order \in DOMAIN orders'
      BY <1>3, <2>1, <2>2, MarketAssumption DEF Matching, Idle
    <2>7. TypeOK'
      BY <1>3, <2>1, <2>2, <2>3, <2>4, <2>5, <2>6 DEF Inv, TypeOK, PlaceOrder
    <2> QED  BY <2>1, <2>2, <2>3, <2>7 DEF Inv
  <1> QED  BY <1>5, <1>6 DEF PlaceOrder

\* A trader's cancellation keeps the invariant.
LEMMA CancelOrderStep ==
    ASSUME Inv, NEW id \in DOMAIN orders, CancelOrder(id)
    PROVE  Inv' /\ ClosedKept
  <1>1. /\ CancelInternal(id) /\ orders[id].status # "filled"
        /\ UNCHANGED <<market, nextId, trades, tape, height, call>> /\ outcome' = "ok"
    BY DEF CancelOrder
  <1>2. /\ DOMAIN orders' = DOMAIN orders
        /\ orders' \in [DOMAIN orders' -> Order]
        /\ IsLevels(levels') /\ Queues(levels', orders')
        /\ top' \in [bid : Price, ask : Price, last : Price]
        /\ escrow' \in [Traders -> [Tokens -> Int]]
        /\ ClosedIffEmpty' /\ TapeOK' /\ ClosedKept
    BY <1>1, CancelProperties DEF ClosedKept
  <1>3. TypeOK'
    BY <1>1, <1>2 DEF Inv, TypeOK
  <1> QED  BY <1>2, <1>3 DEF Inv

\* So does the cancellation of what an ioc or fok order has left.
LEMMA MatchEndCancelStep ==
    ASSUME Inv, MatchEndCancel
    PROVE  Inv' /\ ClosedKept
  <1> DEFINE id == call.order
  <1>1. /\ CancelInternal(id)
        /\ UNCHANGED <<market, nextId, trades, tape, height>>
        /\ call' = Idle /\ outcome' \in {"ok", "throw"}
    BY DEF MatchEndCancel
  <1>2. id \in DOMAIN orders /\ orders[id].status # "filled"
    <2>1. id \in DOMAIN orders /\ orders[id].remaining > 0 /\ orders[id].remaining \in Nat
      BY DEF Inv, TypeOK, MatchEndCancel, Unfilled, Order
    <2> QED  BY <2>1 DEF Inv, ClosedIffEmpty
  <1> HIDE DEF id
  <1>3. /\ DOMAIN orders' = DOMAIN orders
        /\ orders' \in [DOMAIN orders' -> Order]
        /\ IsLevels(levels') /\ Queues(levels', orders')
        /\ top' \in [bid : Price, ask : Price, last : Price]
        /\ escrow' \in [Traders -> [Tokens -> Int]]
        /\ ClosedIffEmpty' /\ TapeOK' /\ ClosedKept
    BY <1>1, <1>2, CancelProperties DEF ClosedKept
  <1>4. TypeOK'
    BY <1>1, <1>3 DEF Inv, TypeOK, Idle
  <1> QED  BY <1>3, <1>4 DEF Inv

\* The order at the head of the best level of a side.
LEMMA HeadOfBest ==
    ASSUME Inv, NEW side \in Sides, NEW p, p = Best(levels, side), p # NoPrice,
           levels[side][p].ids # <<>>,
           NEW id, id = Head(levels[side][p].ids)
    PROVE  /\ id \in DOMAIN orders
           /\ orders[id] \in Order
           /\ orders[id].side = side /\ orders[id].price = p
           /\ orders[id].status \in {"open", "partial"}
  <1>1. IsLevels(levels) /\ Queues(levels, orders)
    BY DEF Inv, TypeOK
  <1>2. p \in DOMAIN levels[side]
    BY <1>1, BestProperties
  <1> DEFINE ids == levels[side][p].ids
  <1>3. ids \in Seq(Nat)
    BY <1>1, <1>2 DEF IsLevels, Level
  <1>4. 1 \in DOMAIN ids /\ Head(ids) = ids[1]
    <2> HIDE DEF ids
    <2>1. Len(ids) \in Nat \ {0}
      BY <1>3, EmptySeq DEF ids
    <2> QED  BY <1>3, <2>1, LenProperties
  <1>5. id \in DOMAIN orders /\ orders[id].side = side /\ orders[id].price = p
        /\ orders[id].status \in {"open", "partial"}
    BY <1>1, <1>2, <1>4 DEF Queues
  <1> QED  BY <1>5 DEF Inv, TypeOK

\* What a trade does to the record of one of its orders.
LEMMA FillProperties ==
    ASSUME NEW o \in Order, NEW size \in Nat, size <= o.remaining
    PROVE  /\ Fill(o, size) \in Order
           /\ Fill(o, size).side = o.side /\ Fill(o, size).price = o.price
           /\ Fill(o, size).remaining = 0 <=> Fill(o, size).status \in {"filled", "cancelled"}
  <1>1. o.remaining \in Nat /\ o.remaining - size \in Nat
    BY DEF Order
  <1>2. PICK st \in Statuses :
           /\ st = IF o.remaining = size THEN "filled" ELSE "partial"
           /\ Fill(o, size) = [o EXCEPT !.remaining = @ - size, !.status = st]
    BY DEF Fill, Statuses
  <1>3. /\ Fill(o, size) \in Order
        /\ Fill(o, size).side = o.side /\ Fill(o, size).price = o.price
        /\ Fill(o, size).remaining = o.remaining - size /\ Fill(o, size).status = st
    BY <1>1, <1>2 DEF Order
  <1>4. o.remaining - size = 0 <=> o.remaining = size
    BY <1>1
  <1>5. st \in {"filled", "cancelled"} <=> o.remaining = size
    BY <1>2
  <1> QED  BY <1>3, <1>4, <1>5

\* One trade of the matching loop, both orders and both levels, keeps the invariant.
LEMMA MatchStepStep ==
    ASSUME Inv, MatchStep
    PROVE  Inv' /\ ClosedKept
  <1> DEFINE bp == Best(levels, "bid")
             ap == Best(levels, "ask")
  <1>1. PICK b, a : /\ b = Head(levels["bid"][bp].ids)
                    /\ a = Head(levels["ask"][ap].ids)
                    /\ Trades(b, a)
    BY DEF MatchStep
  <1>2. /\ bp # NoPrice /\ ap # NoPrice /\ bp >= ap
        /\ levels["bid"][bp].ids # <<>> /\ levels["ask"][ap].ids # <<>>
    BY DEF MatchStep, CanMatch
  <1>3. /\ b \in DOMAIN orders /\ orders[b] \in Order /\ orders[b].side = "bid"
        /\ orders[b].price = bp /\ orders[b].status \in {"open", "partial"}
    BY <1>1, <1>2, HeadOfBest DEF Sides
  <1>4. /\ a \in DOMAIN orders /\ orders[a] \in Order /\ orders[a].side = "ask"
        /\ orders[a].price = ap /\ orders[a].status \in {"open", "partial"}
    BY <1>1, <1>2, HeadOfBest DEF Sides
  <1> DEFINE bid == orders[b]
             ask == orders[a]
             price == IF BidIsMaker(bid, ask) THEN bid.price ELSE ask.price
             size == IF bid.remaining < ask.remaining THEN bid.remaining ELSE ask.remaining
             trade == TradeOf(b, a, price, size)
             key == <<height, call.index>>
             L1 == AfterFill(levels, b, bid, size)
             L2 == AfterFill(L1, a, ask, size)
             O1 == [orders EXCEPT ![b] = Fill(bid, size)]
             e1 == AdjustEscrow(escrow, bid.owner, "quote", - QuoteAmount(price, size))
  <1>5. /\ trades' = [k \in DOMAIN trades \cup {key} |->
                        IF k = key THEN trade ELSE trades[k]]
        /\ tape' = Append(tape, trade)
        /\ orders' = [orders EXCEPT ![b] = Fill(bid, size), ![a] = Fill(ask, size)]
        /\ escrow' = AdjustEscrow(e1, ask.owner, "base", - size)
        /\ levels' = L2
        /\ top' = TopOf(L2, price)
    BY <1>1 DEF Trades
  <1>6. /\ price \in Nat /\ size \in Nat /\ ap <= price /\ price <= bp
        /\ size <= bid.remaining /\ size <= ask.remaining
        /\ b \in Nat /\ a \in Nat /\ b # a
    BY <1>2, <1>3, <1>4 DEF Order, Inv, TypeOK
  <1>7. Fill(bid, size) \in Order /\ Fill(ask, size) \in Order
    BY <1>3, <1>4, <1>6, FillProperties
  <1> HIDE DEF bp, ap, price, size, trade, L1, L2, e1
  <1>8. /\ DOMAIN orders' = DOMAIN orders
        /\ orders' \in [DOMAIN orders' -> Order]
        /\ orders'[b] = Fill(bid, size) /\ orders'[a] = Fill(ask, size)
        /\ \A id \in DOMAIN orders : id # b /\ id # a => orders'[id] = orders[id]
        /\ orders' = [O1 EXCEPT ![a] = Fill(O1[a], size)]
        /\ O1[a] = ask /\ DOMAIN O1 = DOMAIN orders
    BY <1>3, <1>4, <1>5, <1>6, <1>7 DEF Inv, TypeOK
  <1>9. IsLevels(L1) /\ Queues(L1, O1)
    BY <1>3, <1>6, AfterFillProperties DEF Inv, TypeOK, L1
  <1>10. IsLevels(L2) /\ Queues(L2, orders')
    <2> HIDE DEF O1
    <2>1. L2 = AfterFill(L1, a, O1[a], size)
      BY <1>8 DEF L2
    <2> QED  BY <1>4, <1>6, <1>8, <1>9, <2>1, AfterFillProperties
  <1> HIDE DEF O1
  <1>11. ClosedIffEmpty'
    BY <1>3, <1>4, <1>6, <1>8, FillProperties DEF Inv, ClosedIffEmpty
  <1>12. ClosedKept
    BY <1>3, <1>4, <1>8 DEF ClosedKept
  <1>13. /\ trade \in Trade
         /\ {trade.maker, trade.taker} = {a, b}
         /\ trade.price = price
         /\ IF trade.side = "bid" THEN trade.taker = b /\ trade.maker = a
                                  ELSE trade.taker = a /\ trade.maker = b
    <2>1. QuoteAmount(price, size) \in Nat /\ Fee(QuoteAmount(price, size)) \in Nat
      BY <1>6, QuoteAmountNat, FeeNat
    <2> QED  BY <1>6, <2>1 DEF trade, TradeOf, Trade, Sides, Inv, TypeOK
  <1>14. /\ tape' \in Seq(Trade) /\ DOMAIN tape' = 1..(Len(tape) + 1)
         /\ DOMAIN tape = 1..Len(tape) /\ Len(tape) \in Nat
         /\ \A i \in 1..Len(tape) : tape'[i] = tape[i]
         /\ tape'[Len(tape) + 1] = trade
    BY <1>5, <1>13, AppendProperties, LenProperties DEF Inv, TypeOK
  <1>15. \A id \in DOMAIN orders : /\ orders'[id].side = orders[id].side
                                   /\ orders'[id].price = orders[id].price
    BY <1>3, <1>4, <1>6, <1>8, FillProperties
  <1>16. TapeOK'
    <2> SUFFICES ASSUME NEW i \in 1..(Len(tape) + 1)
                 PROVE  LET t == tape'[i]
                            x == IF t.side = "bid" THEN t.taker ELSE t.maker
                            y == IF t.side = "bid" THEN t.maker ELSE t.taker
                        IN  /\ t.maker \in DOMAIN orders' /\ t.taker \in DOMAIN orders'
                            /\ orders'[x].side = "bid" /\ orders'[y].side = "ask"
                            /\ orders'[y].price <= t.price /\ t.price <= orders'[x].price
      BY <1>14 DEF TapeOK, NoTradeThrough
    <2>1. i \in 1..Len(tape) \/ i = Len(tape) + 1
      BY <1>14
    <2>2. CASE i \in 1..Len(tape)
      BY <2>2, <1>8, <1>14, <1>15 DEF Inv, TapeOK, NoTradeThrough
    <2>3. CASE i = Len(tape) + 1
      <3>1. tape'[i] = trade
        BY <2>3, <1>14
      <3> QED  BY <3>1, <1>3, <1>4, <1>6, <1>8, <1>13, <1>15
    <2> QED  BY <2>1, <2>2, <2>3
  <1>17. /\ trades' \in [DOMAIN trades' -> Trade] /\ DOMAIN trades' \subseteq Nat \X Nat
    BY <1>5, <1>13 DEF Inv, TypeOK
  <1>18. escrow' \in [Traders -> [Tokens -> Int]]
    <2>1. /\ bid.owner \in Traders /\ ask.owner \in Traders
          /\ - QuoteAmount(price, size) \in Int /\ - size \in Int
      BY <1>3, <1>4, <1>6, QuoteAmountNat DEF Order
    <2>2. e1 \in [Traders -> [Tokens -> Int]]
      BY <2>1, AdjustEscrowType DEF Inv, TypeOK, Tokens, e1
    <2> QED  BY <1>5, <2>1, <2>2, AdjustEscrowType DEF Tokens
  <1>19. top' \in [bid : Price, ask : Price, last : Price]
    BY <1>5, <1>6, <1>10, TopOfType DEF Price
  <1>20. TypeOK'
    <2>1. /\ UNCHANGED <<market, nextId, height, outcome>>
          /\ call' = [call EXCEPT !.left = @ - 1, !.index = @ + 1] /\ call.left > 0
      BY DEF MatchStep
    <2>2. /\ call' \in [op : {"idle", "match"}, left : Nat, index : Nat,
                         order : Nat \cup {NoOrder}, fok : BOOLEAN]
          /\ call'.order = call.order
      <3>1. call \in [op : {"idle", "match"}, left : Nat, index : Nat,
                      order : Nat \cup {NoOrder}, fok : BOOLEAN]
        BY DEF Inv, TypeOK
      <3>2. call.left - 1 \in Nat /\ call.index + 1 \in Nat
        BY <2>1, <3>1
      <3> QED  BY <2>1, <3>1, <3>2
    <2> QED  BY <1>5, <1>8, <1>10, <1>14, <1>17, <1>18, <1>19, <2>1, <2>2 DEF Inv, TypeOK
  <1> QED  BY <1>5, <1>10, <1>11, <1>12, <1>16, <1>20 DEF Inv

\* The steps that leave the orders, their levels and the tape alone.
LEMMA OtherStep ==
    ASSUME Inv, \/ CreateMarket
                \/ \E budget \in Budgets : StartMatch(budget)
                \/ MatchEnd
                \/ NextBlock
                \/ UNCHANGED vars
    PROVE  Inv' /\ ClosedKept
  <1>1. UNCHANGED <<orders, levels, tape, nextId, trades, escrow>>
    BY DEF CreateMarket, StartMatch, MatchEnd, NextBlock, vars
  <1>2. Queues(levels, orders)' /\ ClosedIffEmpty' /\ TapeOK' /\ ClosedKept
    BY <1>1, TapeKept DEF Inv, Queues, ClosedIffEmpty, ClosedKept
  <1>3. CASE CreateMarket
    BY <1>1, <1>2, <1>3 DEF CreateMarket, Inv, TypeOK, Price
  <1>4. CASE \E budget \in Budgets : StartMatch(budget)
    <2>1. PICK budget \in Budgets : StartMatch(budget)
      BY <1>4
    <2>2. PICK n \in Nat : call' = Matching(n, NoOrder, FALSE)
      <3> DEFINE n == IF budget = 0 \/ budget > MaxMatches THEN MaxMatches ELSE budget
      <3>1. n \in Nat
        BY InputsAssumption, MarketAssumption
      <3>2. call' = Matching(n, NoOrder, FALSE)
        BY <2>1 DEF StartMatch
      <3> HIDE DEF n
      <3> QED  BY <3>1, <3>2
    <2> QED  BY <1>1, <1>2, <2>1, <2>2 DEF StartMatch, Matching, Inv, TypeOK
  <1>5. CASE MatchEnd
    BY <1>1, <1>2, <1>5 DEF MatchEnd, Idle, Inv, TypeOK
  <1>6. CASE NextBlock
    <2>1. height' \in Nat
      BY <1>6 DEF NextBlock, Inv, TypeOK
    <2> QED  BY <1>1, <1>2, <1>6, <2>1 DEF NextBlock, Inv, TypeOK
  <1>7. CASE UNCHANGED vars
    BY <1>1, <1>2, <1>7 DEF vars, Inv, TypeOK
  <1> QED  BY <1>3, <1>4, <1>5, <1>6, <1>7

\* Every step keeps the invariant.
LEMMA NextInv ==
    ASSUME Inv, [Next]_vars
    PROVE  Inv' /\ ClosedKept
  BY PlaceOrderStep, CancelOrderStep, MatchStepStep, MatchEndCancelStep, OtherStep
     DEF Next, Loop

-----------------------------------------------------------------------------
(* Theorems.                                                               *)

\* The invariant holds in every reachable state.
THEOREM Invariance == Spec => []Inv
  <1>1. Inv /\ [Next]_vars => Inv'
    BY NextInv
  <1> QED  BY InitInv, <1>1, PTL DEF Spec

\* Type correctness.
THEOREM TypeCorrectness == Spec => []TypeOK
  <1>1. Inv => TypeOK
    BY DEF Inv
  <1> QED  BY Invariance, <1>1, PTL

\* No trade is worse for either side than the order it fills, for any sequence
\* of placements, cancellations and matching calls and any budgets.
THEOREM TradesWithinLimits == Spec => []NoTradeThrough
  <1>1. Inv => NoTradeThrough
    BY DEF Inv, TapeOK
  <1> QED  BY Invariance, <1>1, PTL

\* A closed order never changes again.
THEOREM ClosedOrdersAreFinal == Spec => TerminalOrdersAreFinal
  <1>1. Inv /\ [Next]_vars =>
          [\A id \in DOMAIN orders :
             orders[id].status \in {"filled", "cancelled"} => orders'[id] = orders[id]]_vars
    BY NextInv DEF ClosedKept
  <1> QED  BY Invariance, <1>1, PTL DEF Spec, TerminalOrdersAreFinal

-----------------------------------------------------------------------------
(* Tables of orders.                                                          *)

LiveIn(O, s) == {id \in DOMAIN O : O[id].side = s /\ O[id].status \in {"open", "partial"}}
LiveInAt(O, s, p) == {id \in LiveIn(O, s) : O[id].price = p}
LeftOf(O) == [id \in DOMAIN O |-> O[id].remaining]

\* A table is finite, and an order in it is closed exactly when nothing is left.
Table(O) ==
    /\ IsFiniteSet(DOMAIN O) /\ DOMAIN O \subseteq Nat
    /\ \A id \in DOMAIN O :
          /\ O[id] \in Order
          /\ O[id].remaining = 0 <=> O[id].status \in {"filled", "cancelled"}

\* O2 is O with the record of id, which keeps its terms, written.
Writes(O, O2, id) ==
    /\ DOMAIN O2 = DOMAIN O \cup {id}
    /\ \A other \in DOMAIN O : other # id => O2[other] = O[other]
    /\ id \in DOMAIN O => /\ O2[id].owner = O[id].owner /\ O2[id].side = O[id].side
                          /\ O2[id].price = O[id].price

\* A live order has something left.
LEMMA LiveHasRest ==
    ASSUME NEW O, Table(O), NEW s, NEW id \in LiveIn(O, s)
    PROVE  id \in DOMAIN O /\ O[id].remaining \in Nat /\ O[id].remaining > 0
<1>1. /\ id \in DOMAIN O /\ O[id] \in Order
      /\ O[id].remaining = 0 <=> O[id].status \in {"filled", "cancelled"}
      /\ O[id].status \in {"open", "partial"}
  BY DEF LiveIn, Table
<1>2. O[id].remaining \in Nat
  BY <1>1 DEF Order
<1> QED BY <1>1, <1>2

\* What a set of orders has left is a number, at least what each of them has.
LEMMA LeftSums ==
    ASSUME NEW O, Table(O), NEW R \in SUBSET DOMAIN O
    PROVE  /\ Summable(LeftOf(O), R)
           /\ SumFunctionOnSet(LeftOf(O), R) \in Nat
           /\ \A id \in R : /\ LeftOf(O)[id] = O[id].remaining
                            /\ LeftOf(O)[id] <= SumFunctionOnSet(LeftOf(O), R)
<1>1. IsFiniteSet(R)
  BY FS_Subset DEF Table
<1>2. \A id \in R : LeftOf(O)[id] = O[id].remaining /\ LeftOf(O)[id] \in Nat
  BY DEF LeftOf, Table, Order
<1>3. Summable(LeftOf(O), R)
  BY <1>1, <1>2 DEF Summable
<1> QED BY <1>1, <1>2, <1>3, SumPositive

\* It is positive when one of them is live.
LEMMA LeftPositive ==
    ASSUME NEW O, Table(O), NEW s, NEW p
    PROVE  /\ LiveInAt(O, s, p) \in SUBSET DOMAIN O
           /\ SumFunctionOnSet(LeftOf(O), LiveInAt(O, s, p)) \in Nat
           /\ LiveInAt(O, s, p) = {} <=> SumFunctionOnSet(LeftOf(O), LiveInAt(O, s, p)) = 0
<1> DEFINE R == LiveInAt(O, s, p)
<1>1. R \in SUBSET DOMAIN O
  BY DEF LiveInAt, LiveIn
<1>2. /\ Summable(LeftOf(O), R) /\ SumFunctionOnSet(LeftOf(O), R) \in Nat
      /\ \A id \in R : LeftOf(O)[id] = O[id].remaining /\ LeftOf(O)[id] <= SumFunctionOnSet(LeftOf(O), R)
  BY <1>1, LeftSums
<1>3. ASSUME R = {} PROVE SumFunctionOnSet(LeftOf(O), R) = 0
  BY <1>2, <1>3, SumFacts
<1>4. ASSUME NEW id \in R PROVE SumFunctionOnSet(LeftOf(O), R) # 0
  <2>1. id \in LiveIn(O, s)
    BY DEF LiveInAt
  <2>2. O[id].remaining \in Nat /\ O[id].remaining > 0
    BY <2>1, LiveHasRest
  <2> HIDE DEF R
  <2> QED BY <1>2, <2>2
<1> QED BY <1>1, <1>2, <1>3, <1>4

\* Writing one order leaves the live orders of the other levels, and what they
\* have left, as they were.
LEMMA LiveElsewhere ==
    ASSUME NEW O, NEW O2, NEW id, Table(O), Table(O2), Writes(O, O2, id),
           NEW s, NEW p, s # O2[id].side \/ p # O2[id].price
    PROVE  /\ LiveInAt(O2, s, p) = LiveInAt(O, s, p)
           /\ SumFunctionOnSet(LeftOf(O2), LiveInAt(O2, s, p)) = SumFunctionOnSet(LeftOf(O), LiveInAt(O, s, p))
<1> DEFINE R == LiveInAt(O, s, p)
<1>1. LiveInAt(O2, s, p) = R
  BY DEF LiveInAt, LiveIn, Writes
<1>2. R \in SUBSET DOMAIN O /\ \A other \in R : other # id /\ other \in DOMAIN O2
  BY DEF LiveInAt, LiveIn, Writes
<1>3. Summable(LeftOf(O), R)
  BY <1>2, LeftSums
<1>4. \A other \in R : LeftOf(O2)[other] = LeftOf(O)[other]
  BY <1>2 DEF LeftOf, Writes
<1> HIDE DEF R
<1>5. SumFunctionOnSet(LeftOf(O2), R) = SumFunctionOnSet(LeftOf(O), R)
  BY <1>3, <1>4, SumSame
<1> QED BY <1>1, <1>5 DEF R

-----------------------------------------------------------------------------
(* Queues: who is in one, and in what order.                                  *)

Holds(q, x) == \E i \in DOMAIN q : q[i] = x
Ascending(q) == \A i, j \in DOMAIN q : i < j => q[i] < q[j]

\* Taking an order out of an ascending queue leaves the others, ascending.
LEMMA WithoutAscending ==
    ASSUME NEW q \in Seq(Nat), NEW id, Ascending(q)
    PROVE  /\ Without(q, id) \in Seq(Nat) /\ Ascending(Without(q, id))
           /\ \A x : Holds(Without(q, id), x) <=> Holds(q, x) /\ x # id
<1>1. CASE ~ Holds(q, id)
  <2>1. Without(q, id) = q
    BY <1>1 DEF Holds, Without
  <2> QED BY <1>1, <2>1 DEF Holds
<1>2. CASE Holds(q, id)
  <2>1. PICK W : W = Without(q, id)
    OBVIOUS
  <2>2. PICK k \in 1..Len(q) :
           /\ q[k] = id /\ W \in Seq(Nat) /\ Len(W) = Len(q) - 1
           /\ \A i \in 1..Len(W) : (i < k => W[i] = q[i]) /\ (i >= k => W[i] = q[i+1])
    BY <1>2, <2>1, WithoutPlaces DEF Holds
  <2>3. DOMAIN W = 1..Len(W) /\ DOMAIN q = 1..Len(q) /\ Len(q) \in Nat
    BY <2>2, LenProperties
  <2>4. \A i \in 1..Len(q) : q[i] \in Nat
    BY <2>3, ElementOfSeq
  <2>5. Ascending(W)
    <3> SUFFICES ASSUME NEW i \in 1..Len(W), NEW j \in 1..Len(W), i < j PROVE W[i] < W[j]
      BY <2>3 DEF Ascending
    <3>1. i \in 1..Len(q) /\ j \in 1..Len(q) /\ i + 1 \in 1..Len(q) /\ j + 1 \in 1..Len(q)
      <4>1. PICK n \in Nat, m \in Int : n = Len(q) /\ m = Len(W) /\ m = n - 1
        BY <2>2, <2>3
      <4>2. i \in 1..m /\ j \in 1..m
        BY <4>1
      <4>3. i \in 1..n /\ j \in 1..n /\ i + 1 \in 1..n /\ j + 1 \in 1..n
        BY <4>1, <4>2
      <4> QED BY <4>1, <4>3
    <3>2. \A m, n \in 1..Len(q) : m < n => q[m] < q[n]
      BY <2>3 DEF Ascending
    <3>3. CASE j < k
      BY <2>2, <3>1, <3>2, <3>3
    <3>4. CASE i < k /\ j >= k
      <4>1. W[i] = q[i] /\ W[j] = q[j+1] /\ i < j + 1
        BY <2>2, <3>1, <3>4
      <4> QED BY <3>1, <3>2, <4>1
    <3>5. CASE i >= k
      <4>1. j >= k /\ i + 1 < j + 1
        BY <2>2, <3>5
      <4>2. W[i] = q[i+1] /\ W[j] = q[j+1]
        BY <2>2, <3>5, <4>1
      <4> QED BY <3>1, <3>2, <4>1, <4>2
    <3> QED BY <2>2, <2>3, <3>3, <3>4, <3>5
  <2>6. ASSUME NEW m \in 1..Len(q), NEW n \in 1..Len(q), q[m] = q[n] PROVE m = n
    BY <2>3, <2>4, <2>6 DEF Ascending
  <2>7. ASSUME NEW x, Holds(W, x) PROVE Holds(q, x) /\ x # id
    <3>1. PICK i \in 1..Len(W) : W[i] = x
      BY <2>3, <2>7 DEF Holds
    <3>2. PICK m \in 1..Len(q) : q[m] = x /\ m # k
      <4>1. i \in 1..Len(q) /\ i + 1 \in 1..Len(q)
        BY <2>2, <2>3
      <4>2. CASE i < k
        BY <2>2, <3>1, <4>1, <4>2
      <4>3. CASE i >= k
        <5>1. i + 1 # k /\ q[i+1] = x
          BY <2>2, <3>1, <4>3
        <5> QED BY <4>1, <5>1
      <4> QED BY <4>2, <4>3, <4>1
    <3> QED BY <2>2, <2>3, <2>6, <3>2 DEF Holds
  <2>8. ASSUME NEW x, Holds(q, x), x # id PROVE Holds(W, x)
    <3>1. PICK m \in 1..Len(q) : q[m] = x
      BY <2>3, <2>8 DEF Holds
    <3>2. m # k
      BY <2>2, <2>8, <3>1
    <3>3. CASE m < k
      <4>1. m \in 1..Len(W)
        BY <2>2, <2>3, <3>3
      <4> QED BY <2>2, <2>3, <3>1, <3>3, <4>1 DEF Holds
    <3>4. CASE m > k
      <4>1. PICK j \in 1..Len(W) : j = m - 1 /\ j >= k
        BY <2>2, <2>3, <3>4
      <4>2. W[j] = q[j+1] /\ j + 1 = m
        BY <2>2, <4>1
      <4> QED BY <2>3, <3>1, <4>1, <4>2 DEF Holds
    <3> QED BY <2>2, <2>3, <3>2, <3>3, <3>4
  <2> QED BY <2>1, <2>2, <2>5, <2>7, <2>8
<1> QED BY <1>1, <1>2

\* An order above all those in an ascending queue may be appended to it.
LEMMA AppendAscending ==
    ASSUME NEW q \in Seq(Nat), NEW id \in Nat, Ascending(q), \A x \in Nat : Holds(q, x) => x < id
    PROVE  /\ Append(q, id) \in Seq(Nat) /\ Ascending(Append(q, id))
           /\ \A x : Holds(Append(q, id), x) <=> Holds(q, x) \/ x = id
<1>1. PICK A : A = Append(q, id)
  OBVIOUS
<1>2. PICK n \in Nat : n = Len(q)
  BY LenProperties
<1>3. /\ A \in Seq(Nat) /\ DOMAIN A = 1..n + 1 /\ DOMAIN q = 1..n
      /\ \A i \in 1..n : A[i] = q[i]
      /\ A[n + 1] = id
  BY <1>1, <1>2, AppendProperties, LenProperties
<1>4. \A i \in 1..n : q[i] \in Nat /\ q[i] < id
  BY <1>3, ElementOfSeq, LenProperties DEF Holds
<1>5. \A i \in 1..n + 1 : i \in 1..n \/ i = n + 1
  OBVIOUS
<1>6. Ascending(A)
  <2> SUFFICES ASSUME NEW i \in 1..n + 1, NEW j \in 1..n + 1, i < j PROVE A[i] < A[j]
    BY <1>3 DEF Ascending
  <2>1. i \in 1..n
    OBVIOUS
  <2>2. CASE j \in 1..n
    BY <1>3, <2>1, <2>2 DEF Ascending
  <2>3. CASE j = n + 1
    BY <1>3, <1>4, <2>1, <2>3
  <2> QED BY <1>5, <2>2, <2>3
<1>7. \A x : Holds(A, x) <=> Holds(q, x) \/ x = id
  <2>1. n + 1 \in 1..n + 1 /\ \A i \in 1..n : i \in 1..n + 1
    OBVIOUS
  <2> QED BY <1>3, <1>5, <2>1 DEF Holds
<1> QED BY <1>1, <1>3, <1>6, <1>7

-----------------------------------------------------------------------------
(* Price levels and orders.                                                   *)

\* A level says of a set of orders who they are, in order of arrival, and what
\* they have left together.
Tells(lvl, O, ids) ==
    /\ Ascending(lvl.ids)
    /\ \A x : Holds(lvl.ids, x) <=> x \in ids
    /\ lvl.aggregate = SumFunctionOnSet(LeftOf(O), ids)

Mirror(L, O) ==
    \A s \in Sides :
        /\ \A p : p \in DOMAIN L[s] <=> LiveInAt(O, s, p) # {}
        /\ \A p \in DOMAIN L[s] : Tells(L[s][p], O, LiveInAt(O, s, p))

\* What the level of an order has left changes by what the order has left.
LEMMA LeftChanges ==
    ASSUME NEW O, NEW O2, NEW id, Table(O), Table(O2), Writes(O, O2, id),
           NEW s, NEW p, s = O2[id].side, p = O2[id].price
    PROVE  /\ O2[id].remaining \in Nat /\ (id \in DOMAIN O => O[id].remaining \in Nat)
           /\ SumFunctionOnSet(LeftOf(O2), LiveInAt(O2, s, p)) =
                 SumFunctionOnSet(LeftOf(O), LiveInAt(O, s, p))
                   - (IF id \in DOMAIN O THEN O[id].remaining ELSE 0) + O2[id].remaining
           /\ \A other : other # id => (other \in LiveInAt(O2, s, p) <=> other \in LiveInAt(O, s, p))
<1> DEFINE S == LiveInAt(O, s, p)
           R == LiveInAt(O2, s, p)
           v == LeftOf(O)
           w == LeftOf(O2)
<1>1. \A other : other # id => (other \in S <=> other \in R)
  BY DEF LiveInAt, LiveIn, Writes
<1>2. S \in SUBSET DOMAIN O /\ R \in SUBSET DOMAIN O2 /\ id \in DOMAIN O2
  BY DEF LiveInAt, LiveIn, Writes
<1>3. Summable(v, S) /\ Summable(w, R)
  BY <1>2, LeftSums
<1>4. \A other \in S : other # id => w[other] = v[other]
  BY <1>2 DEF LeftOf, Writes
<1>5. O2[id].remaining \in Nat /\ (id \in DOMAIN O => O[id].remaining \in Nat)
  BY <1>2 DEF Table, Order
<1>6. (IF id \in S THEN v[id] ELSE 0) = (IF id \in DOMAIN O THEN O[id].remaining ELSE 0)
  <2>1. CASE id \in S
    BY <1>2, <2>1 DEF LeftOf
  <2>2. CASE id \in DOMAIN O /\ id \notin S
    <3>1. O[id].side = s /\ O[id].price = p
      BY <2>2 DEF Writes
    <3>2. O[id].status \notin {"open", "partial"}
      BY <2>2, <3>1 DEF LiveInAt, LiveIn
    <3>3. O[id].remaining = 0
      BY <2>2, <3>2 DEF Table, Order, Statuses
    <3> QED BY <2>2, <3>3
  <2>3. CASE id \notin DOMAIN O
    BY <1>2, <2>3
  <2> QED BY <2>1, <2>2, <2>3
<1>7. (IF id \in R THEN w[id] ELSE 0) = O2[id].remaining
  <2>1. CASE id \in R
    BY <1>2, <2>1 DEF LeftOf
  <2>2. CASE id \notin R
    <3>1. O2[id].status \notin {"open", "partial"}
      BY <1>2, <2>2 DEF LiveInAt, LiveIn
    <3>2. O2[id].remaining = 0
      BY <1>2, <3>1 DEF Table, Order, Statuses
    <3> QED BY <2>2, <3>2
  <2> QED BY <2>1, <2>2
<1> HIDE DEF S, R, v, w
<1>8. SumFunctionOnSet(w, R) = SumFunctionOnSet(v, S) - (IF id \in S THEN v[id] ELSE 0)
                                                      + (IF id \in R THEN w[id] ELSE 0)
  BY <1>1, <1>3, <1>4, SumDiffersAt
<1>9. SumFunctionOnSet(w, R) = SumFunctionOnSet(v, S) - (IF id \in DOMAIN O THEN O[id].remaining ELSE 0)
                                                      + O2[id].remaining
  BY <1>6, <1>7, <1>8
<1> QED BY <1>1, <1>5, <1>9 DEF S, R, v, w

\* Writing an order and the level of its price keeps the levels true when that
\* level is.
LEMMA MirrorElsewhere ==
    ASSUME NEW L, NEW L2, NEW O, NEW O2, NEW id, Table(O), Table(O2), Writes(O, O2, id), Mirror(L, O),
           NEW side \in Sides, NEW price, side = O2[id].side, price = O2[id].price,
           \A s \in Sides : \A p : s # side \/ p # price =>
              (p \in DOMAIN L2[s] <=> p \in DOMAIN L[s]) /\ (p \in DOMAIN L2[s] => L2[s][p] = L[s][p]),
           price \in DOMAIN L2[side] <=> LiveInAt(O2, side, price) # {},
           price \in DOMAIN L2[side] => Tells(L2[side][price], O2, LiveInAt(O2, side, price))
    PROVE  Mirror(L2, O2)
<1> SUFFICES ASSUME NEW s \in Sides, NEW p
             PROVE  /\ p \in DOMAIN L2[s] <=> LiveInAt(O2, s, p) # {}
                    /\ p \in DOMAIN L2[s] => Tells(L2[s][p], O2, LiveInAt(O2, s, p))
  BY DEF Mirror
<1>1. CASE s = side /\ p = price
  BY <1>1
<1>2. CASE s # side \/ p # price
  <2>1. /\ LiveInAt(O2, s, p) = LiveInAt(O, s, p)
        /\ SumFunctionOnSet(LeftOf(O2), LiveInAt(O2, s, p)) = SumFunctionOnSet(LeftOf(O), LiveInAt(O, s, p))
    BY <1>2, LiveElsewhere
  <2>2. /\ p \in DOMAIN L[s] <=> LiveInAt(O, s, p) # {}
        /\ p \in DOMAIN L[s] => Tells(L[s][p], O, LiveInAt(O, s, p))
    BY DEF Mirror
  <2> QED BY <1>2, <2>1, <2>2 DEF Tells
<1> QED BY <1>1, <1>2

\* A new order goes to the end of its level, or makes one.
LEMMA MirrorAdd ==
    ASSUME NEW L, NEW O, NEW O2, NEW id \in Nat, Table(O), Table(O2), Writes(O, O2, id),
           IsLevels(L), Mirror(L, O), \A other \in DOMAIN O : other < id,
           O2[id].status = "open"
    PROVE  Mirror(LevelAdd(L, O2[id].side, O2[id].price, O2[id].remaining, id), O2)
<1> DEFINE side == O2[id].side
           price == O2[id].price
           size == O2[id].remaining
           L2 == LevelAdd(L, side, price, size, id)
           lvl == IF price \in DOMAIN L[side]
                  THEN [aggregate |-> L[side][price].aggregate + size,
                        ids |-> Append(L[side][price].ids, id)]
                  ELSE [aggregate |-> size, ids |-> <<id>>]
           S == LiveInAt(O, side, price)
           R == LiveInAt(O2, side, price)
           sumS == SumFunctionOnSet(LeftOf(O), S)
           sumR == SumFunctionOnSet(LeftOf(O2), R)
<1>1. side \in Sides /\ price \in Nat /\ size \in Nat /\ id \in DOMAIN O2
  BY DEF Table, Order, Writes
<1>2. id \notin DOMAIN O /\ id \notin S /\ id \in R
  <2>1. id \notin DOMAIN O
    BY DEF Table
  <2> QED BY <1>1, <2>1 DEF LiveInAt, LiveIn
<1>3. sumR = sumS - (IF id \in DOMAIN O THEN O[id].remaining ELSE 0) + size
  BY LeftChanges
<1>4. \A other : other # id => (other \in R <=> other \in S)
  BY LeftChanges
<1>5. sumS \in Nat /\ (S = {} <=> sumS = 0)
  BY LeftPositive
<1>6. sumR = sumS + size
  <2> HIDE DEF sumS, sumR, size, S
  <2> QED BY <1>1, <1>2, <1>3, <1>5
<1>7. lvl \in Level /\ Tells(lvl, O2, R)
  <2>1. CASE price \in DOMAIN L[side]
    <3> DEFINE q == L[side][price].ids
    <3>1. q \in Seq(Nat) /\ L[side][price].aggregate \in Int
      BY <1>1, <2>1 DEF IsLevels, Level
    <3>2. /\ Ascending(q) /\ \A x : Holds(q, x) <=> x \in S
          /\ L[side][price].aggregate = sumS
      BY <1>1, <2>1 DEF Mirror, Tells
    <3>3. \A x \in Nat : Holds(q, x) => x < id
      BY <3>2 DEF LiveInAt, LiveIn
    <3>4. /\ Append(q, id) \in Seq(Nat) /\ Ascending(Append(q, id))
          /\ \A x : Holds(Append(q, id), x) <=> Holds(q, x) \/ x = id
      BY <3>1, <3>2, <3>3, AppendAscending
    <3>5. lvl = [aggregate |-> L[side][price].aggregate + size, ids |-> Append(q, id)]
      BY <2>1
    <3>6. \A x : Holds(Append(q, id), x) <=> x \in R
      BY <1>2, <1>4, <3>2, <3>4
    <3>7. L[side][price].aggregate + size = sumR /\ L[side][price].aggregate + size \in Int
      <4> HIDE DEF sumS, sumR, size
      <4> QED BY <1>1, <1>5, <1>6, <3>2
    <3>8. /\ lvl.aggregate = L[side][price].aggregate + size
          /\ lvl.ids = Append(q, id) /\ lvl \in Level
      <4> HIDE DEF lvl, q, side, price, size
      <4> QED BY <3>4, <3>5, <3>7 DEF Level
    <3> HIDE DEF lvl, q
    <3> QED BY <3>4, <3>6, <3>7, <3>8 DEF Tells
  <2>2. CASE price \notin DOMAIN L[side]
    <3>1. S = {}
      BY <1>1, <2>2 DEF Mirror
    <3>2. PICK q : q = <<id>>
      OBVIOUS
    <3>3. lvl = [aggregate |-> size, ids |-> q]
      BY <2>2, <3>2
    <3>4. q \in Seq(Nat) /\ Len(q) = 1 /\ q[1] = id
      BY <3>2
    <3>5. DOMAIN q = 1..1 /\ \A i \in 1..1 : i = 1
      BY <3>4, LenProperties
    <3>6. Ascending(q) /\ \A x : Holds(q, x) <=> x \in R
      BY <1>2, <1>4, <3>1, <3>4, <3>5 DEF Ascending, Holds
    <3>7. size = sumR
      <4> HIDE DEF sumS, sumR, size
      <4> QED BY <1>1, <1>5, <1>6, <3>1
    <3>8. lvl.aggregate = size /\ lvl.ids = q /\ lvl \in Level
      <4> HIDE DEF lvl, size
      <4> QED BY <1>1, <3>3, <3>4 DEF Level
    <3> HIDE DEF lvl
    <3> QED BY <3>6, <3>7, <3>8 DEF Tells
  <2> QED BY <2>1, <2>2
<1>8. L2 = SetLevel(L, side, price, lvl)
  BY DEF LevelAdd
<1> HIDE DEF lvl, L2
<1>9. /\ \A s \in Sides : \A p : p \in DOMAIN L2[s] <=> p \in DOMAIN L[s] \/ (s = side /\ p = price)
      /\ \A s \in Sides : \A p \in DOMAIN L2[s] :
            L2[s][p] = IF s = side /\ p = price THEN lvl ELSE L[s][p]
  BY <1>1, <1>7, <1>8, SetLevelProperties
<1>10. price \in DOMAIN L2[side] /\ L2[side][price] = lvl
  BY <1>1, <1>9
<1>11. \A s \in Sides : \A p : s # side \/ p # price =>
          (p \in DOMAIN L2[s] <=> p \in DOMAIN L[s]) /\ (p \in DOMAIN L2[s] => L2[s][p] = L[s][p])
  BY <1>9
<1> HIDE DEF sumS, sumR
<1>12. Mirror(L2, O2)
  BY <1>1, <1>2, <1>7, <1>10, <1>11, MirrorElsewhere
<1> QED BY <1>12 DEF L2

\* Taking an order off its level, or finding a closed one not there, and closing it.
LEMMA MirrorRemove ==
    ASSUME NEW L, NEW O, NEW O2, NEW id \in DOMAIN O, Table(O), Table(O2), Writes(O, O2, id),
           IsLevels(L), Mirror(L, O), O2[id].status \in {"filled", "cancelled"}
    PROVE  Mirror(LevelRemove(L, O[id].side, O[id].price, O[id].remaining, id), O2)
<1> DEFINE side == O[id].side
           price == O[id].price
           size == O[id].remaining
           L2 == LevelRemove(L, side, price, size, id)
           S == LiveInAt(O, side, price)
           R == LiveInAt(O2, side, price)
           sumS == SumFunctionOnSet(LeftOf(O), S)
           sumR == SumFunctionOnSet(LeftOf(O2), R)
           q == L[side][price].ids
           agg == L[side][price].aggregate - size
<1>1. /\ side \in Sides /\ price \in Nat /\ size \in Nat /\ id \in DOMAIN O2
      /\ side = O2[id].side /\ price = O2[id].price /\ O2[id].remaining = 0
  BY DEF Table, Order, Writes
<1>2. id \notin R
  BY DEF LiveInAt, LiveIn
<1>3. sumR = sumS - size
  <2>1. sumR = sumS - (IF id \in DOMAIN O THEN O[id].remaining ELSE 0) + O2[id].remaining
    BY <1>1, LeftChanges
  <2>2. sumS \in Nat
    BY LeftPositive
  <2>3. sumR = sumS - size + 0
    <3> HIDE DEF sumS, sumR
    <3> QED BY <1>1, <2>1
  <2> HIDE DEF sumS, sumR, size
  <2> QED BY <1>1, <2>2, <2>3
<1>4. \A other : other # id => (other \in R <=> other \in S)
  BY <1>1, LeftChanges
<1>5. sumR \in Nat /\ (R = {} <=> sumR = 0)
  BY LeftPositive
<1>6. CASE price \notin DOMAIN L[side]
  <2>1. L2 = L
    BY <1>6 DEF LevelRemove
  <2>2. S = {}
    BY <1>1, <1>6 DEF Mirror
  <2>3. R = {}
    BY <1>2, <1>4, <2>2
  <2> HIDE DEF L2
  <2>4. Mirror(L2, O2)
    BY <1>1, <1>6, <2>1, <2>3, MirrorElsewhere
  <2> QED BY <2>4 DEF L2
<1>7. CASE price \in DOMAIN L[side]
  <2>1. q \in Seq(Nat)
    BY <1>1, <1>7 DEF IsLevels, Level
  <2>2. Ascending(q) /\ (\A x : Holds(q, x) <=> x \in S) /\ L[side][price].aggregate = sumS
    BY <1>1, <1>7 DEF Mirror, Tells
  <2>3. agg = sumR
    BY <1>3, <2>2
  <2>4. /\ Without(q, id) \in Seq(Nat) /\ Ascending(Without(q, id))
        /\ \A x : Holds(Without(q, id), x) <=> Holds(q, x) /\ x # id
    BY <2>1, <2>2, WithoutAscending
  <2>5. \A x : Holds(Without(q, id), x) <=> x \in R
    BY <1>2, <1>4, <2>2, <2>4
  <2>6. CASE agg <= 0 \/ Without(q, id) = <<>>
    <3>1. R = {}
      <4>1. CASE agg <= 0
        <5> HIDE DEF agg, sumR, R
        <5> QED BY <1>5, <2>3, <4>1
      <4>2. CASE Without(q, id) = <<>>
        <5>1. \A x : ~ Holds(<<>>, x)
          BY DEF Holds
        <5> QED BY <2>5, <4>2, <5>1
      <4> QED BY <2>6, <4>1, <4>2
    <3>2. L2 = DeleteLevel(L, side, price)
      BY <1>7, <2>6 DEF LevelRemove
    <3> HIDE DEF L2
    <3>3. /\ \A s \in Sides : \A p : p \in DOMAIN L2[s] <=> p \in DOMAIN L[s] /\ (s # side \/ p # price)
          /\ \A s \in Sides : \A p \in DOMAIN L2[s] : L2[s][p] = L[s][p]
      BY <1>1, <3>2, DeleteLevelProperties
    <3>4. price \notin DOMAIN L2[side]
      BY <1>1, <3>3
    <3>5. \A s \in Sides : \A p : s # side \/ p # price =>
             (p \in DOMAIN L2[s] <=> p \in DOMAIN L[s]) /\ (p \in DOMAIN L2[s] => L2[s][p] = L[s][p])
      BY <3>3
    <3>6. Mirror(L2, O2)
      BY <1>1, <3>1, <3>4, <3>5, MirrorElsewhere
    <3> QED BY <3>6 DEF L2
  <2>7. CASE ~ (agg <= 0 \/ Without(q, id) = <<>>)
    <3> DEFINE lvl == [aggregate |-> agg, ids |-> Without(q, id)]
    <3>1. R # {}
      <4> HIDE DEF agg, sumR, R
      <4> QED BY <1>5, <2>3, <2>7
    <3>2. L2 = SetLevel(L, side, price, lvl)
      BY <1>7, <2>7 DEF LevelRemove
    <3>3. lvl \in Level /\ lvl.aggregate = sumR /\ lvl.ids = Without(q, id)
      <4> HIDE DEF agg, sumR, q
      <4> QED BY <1>5, <2>3, <2>4 DEF Level
    <3> HIDE DEF lvl, L2
    <3>4. Tells(lvl, O2, R)
      BY <2>4, <2>5, <3>3 DEF Tells
    <3>5. /\ \A s \in Sides : \A p : p \in DOMAIN L2[s] <=> p \in DOMAIN L[s] \/ (s = side /\ p = price)
          /\ \A s \in Sides : \A p \in DOMAIN L2[s] :
                L2[s][p] = IF s = side /\ p = price THEN lvl ELSE L[s][p]
      BY <1>1, <3>2, <3>3, SetLevelProperties
    <3>6. price \in DOMAIN L2[side] /\ L2[side][price] = lvl
      BY <1>1, <3>5
    <3>7. \A s \in Sides : \A p : s # side \/ p # price =>
             (p \in DOMAIN L2[s] <=> p \in DOMAIN L[s]) /\ (p \in DOMAIN L2[s] => L2[s][p] = L[s][p])
      BY <3>5
    <3> HIDE DEF sumR
    <3>8. Mirror(L2, O2)
      BY <1>1, <3>1, <3>4, <3>6, <3>7, MirrorElsewhere
    <3> QED BY <3>8 DEF L2
  <2> QED BY <2>6, <2>7
<1> QED BY <1>6, <1>7

\* Filling a part of a live order leaves it in its place.
LEMMA MirrorReduce ==
    ASSUME NEW L, NEW O, NEW O2, NEW id \in DOMAIN O, Table(O), Table(O2), Writes(O, O2, id),
           IsLevels(L), Mirror(L, O), O[id].status \in {"open", "partial"}, O2[id].status = "partial",
           NEW size \in Nat, O2[id].remaining = O[id].remaining - size
    PROVE  Mirror(LevelReduce(L, O[id].side, O[id].price, size), O2)
<1> DEFINE side == O[id].side
           price == O[id].price
           L2 == LevelReduce(L, side, price, size)
           S == LiveInAt(O, side, price)
           R == LiveInAt(O2, side, price)
           sumS == SumFunctionOnSet(LeftOf(O), S)
           sumR == SumFunctionOnSet(LeftOf(O2), R)
           q == L[side][price].ids
           agg == L[side][price].aggregate - size
           lvl == [aggregate |-> agg, ids |-> q]
<1>1. /\ side \in Sides /\ price \in Nat /\ id \in DOMAIN O2
      /\ side = O2[id].side /\ price = O2[id].price /\ O[id].remaining \in Nat
  BY DEF Table, Order, Writes
<1>2. id \in R /\ id \in S
  BY <1>1 DEF LiveInAt, LiveIn
<1>3. sumR = sumS - size
  <2>1. sumR = sumS - (IF id \in DOMAIN O THEN O[id].remaining ELSE 0) + O2[id].remaining
    BY <1>1, LeftChanges
  <2>2. sumS \in Nat
    BY LeftPositive
  <2>3. sumR = sumS - O[id].remaining + (O[id].remaining - size)
    <3> HIDE DEF sumS, sumR
    <3> QED BY <2>1
  <2> HIDE DEF sumS, sumR
  <2> QED BY <1>1, <2>2, <2>3
<1>4. \A other : other # id => (other \in R <=> other \in S)
  BY <1>1, LeftChanges
<1>5. sumR \in Nat /\ (R = {} <=> sumR = 0)
  BY LeftPositive
<1>6. price \in DOMAIN L[side]
  BY <1>1, <1>2 DEF Mirror
<1>7. q \in Seq(Nat)
  BY <1>1, <1>6 DEF IsLevels, Level
<1>8. Ascending(q) /\ (\A x : Holds(q, x) <=> x \in S) /\ L[side][price].aggregate = sumS
  BY <1>1, <1>6 DEF Mirror, Tells
<1>9. agg = sumR /\ ~ agg <= 0
  <2>1. agg = sumR
    BY <1>3, <1>8
  <2> HIDE DEF agg, sumR, R
  <2> QED BY <1>2, <1>5, <2>1
<1>10. L2 = SetLevel(L, side, price, lvl)
  BY <1>6, <1>9 DEF LevelReduce
<1>11. lvl \in Level /\ lvl.aggregate = sumR /\ lvl.ids = q
  <2> HIDE DEF agg, sumR, q
  <2> QED BY <1>5, <1>7, <1>9 DEF Level
<1> HIDE DEF lvl, L2
<1>12. Tells(lvl, O2, R)
  BY <1>2, <1>4, <1>8, <1>11 DEF Tells
<1>13. /\ \A s \in Sides : \A p : p \in DOMAIN L2[s] <=> p \in DOMAIN L[s] \/ (s = side /\ p = price)
       /\ \A s \in Sides : \A p \in DOMAIN L2[s] :
             L2[s][p] = IF s = side /\ p = price THEN lvl ELSE L[s][p]
  BY <1>1, <1>10, <1>11, SetLevelProperties
<1>14. price \in DOMAIN L2[side] /\ L2[side][price] = lvl
  BY <1>1, <1>13
<1>15. \A s \in Sides : \A p : s # side \/ p # price =>
          (p \in DOMAIN L2[s] <=> p \in DOMAIN L[s]) /\ (p \in DOMAIN L2[s] => L2[s][p] = L[s][p])
  BY <1>13
<1> HIDE DEF sumR
<1>16. Mirror(L2, O2)
  BY <1>1, <1>2, <1>12, <1>14, <1>15, MirrorElsewhere
<1> QED BY <1>16 DEF L2

\* What a fill writes of an order.
LEMMA FillWrites ==
    ASSUME NEW o \in Order, NEW size \in Nat, size <= o.remaining
    PROVE  /\ Fill(o, size) \in Order
           /\ Fill(o, size).owner = o.owner /\ Fill(o, size).side = o.side
           /\ Fill(o, size).price = o.price /\ Fill(o, size).size = o.size
           /\ Fill(o, size).remaining = o.remaining - size
           /\ Fill(o, size).status = IF o.remaining = size THEN "filled" ELSE "partial"
<1>1. o.remaining \in Nat /\ o.remaining - size \in Nat
  BY DEF Order
<1>2. PICK st \in Statuses : st = IF o.remaining = size THEN "filled" ELSE "partial"
  BY DEF Statuses
<1>3. Fill(o, size) = [o EXCEPT !.remaining = @ - size, !.status = st]
  BY <1>2 DEF Fill
<1> QED BY <1>1, <1>2, <1>3 DEF Order

\* Filling a live order, its level with it, keeps the levels true.
LEMMA MirrorFill ==
    ASSUME NEW L, NEW O, NEW O2, NEW id \in DOMAIN O, Table(O), IsLevels(L), Mirror(L, O),
           O[id].status \in {"open", "partial"},
           NEW size \in Nat, size <= O[id].remaining,
           DOMAIN O2 = DOMAIN O, O2[id] = Fill(O[id], size),
           \A other \in DOMAIN O : other # id => O2[other] = O[other]
    PROVE  Table(O2) /\ Writes(O, O2, id) /\ Mirror(AfterFill(L, id, O[id], size), O2)
<1>1. O[id] \in Order /\ O[id].remaining \in Nat
  BY DEF Table, Order
<1>2. /\ O2[id] \in Order
      /\ O2[id].owner = O[id].owner /\ O2[id].side = O[id].side /\ O2[id].price = O[id].price
      /\ O2[id].remaining = O[id].remaining - size
      /\ O2[id].status = IF O[id].remaining = size THEN "filled" ELSE "partial"
  BY <1>1, FillWrites
<1>3. O2[id].remaining = 0 <=> O2[id].status \in {"filled", "cancelled"}
  BY <1>1, <1>2
<1>4. Table(O2)
  BY <1>2, <1>3 DEF Table
<1>5. Writes(O, O2, id)
  BY <1>2 DEF Writes
<1>6. CASE O[id].remaining = size
  <2>1. Mirror(LevelRemove(L, O[id].side, O[id].price, O[id].remaining, id), O2)
    BY <1>2, <1>4, <1>5, <1>6, MirrorRemove
  <2> QED BY <1>4, <1>5, <1>6, <2>1 DEF AfterFill
<1>7. CASE O[id].remaining # size
  <2>1. Mirror(LevelReduce(L, O[id].side, O[id].price, size), O2)
    BY <1>2, <1>4, <1>5, <1>7, MirrorReduce
  <2> QED BY <1>4, <1>5, <1>7, <2>1 DEF AfterFill
<1> QED BY <1>6, <1>7

\* The best level of a side is the best price of its live orders.
LEMMA BestIsBest ==
    ASSUME NEW L, NEW O, Table(O), IsLevels(L), Mirror(L, O), NEW side \in Sides
    PROVE  /\ LiveIn(O, side) = {} => Best(L, side) = NoPrice
           /\ LiveIn(O, side) # {} =>
                 /\ Best(L, side) \in DOMAIN L[side] /\ Best(L, side) \in Nat
                 /\ \A id \in LiveIn(O, side) : /\ O[id].price \in Nat
                                                /\ Ahead(side, Best(L, side), O[id].price)
                 /\ \E id \in LiveIn(O, side) : O[id].price = Best(L, side)
<1> DEFINE D == DOMAIN L[side]
           First(p) == \A q \in D : Ahead(side, p, q)
           best == Best(L, side)
<1>1. D \in SUBSET Nat
  BY DEF IsLevels
<1>2. \A p : p \in D <=> \E id \in LiveIn(O, side) : O[id].price = p
  <2>1. \A p : p \in D <=> LiveInAt(O, side, p) # {}
    BY DEF Mirror
  <2> QED BY <2>1 DEF LiveInAt
<1>3. CASE LiveIn(O, side) = {}
  <2>1. ~ \E p \in D : First(p)
    BY <1>2, <1>3
  <2> QED BY <1>3, <2>1 DEF Best
<1>4. CASE LiveIn(O, side) # {}
  <2>1. D # {}
    BY <1>2, <1>4
  <2>2. \E p \in D : First(p)
    <3>1. CASE side = "ask"
      <4>1. PICK p \in D : \A q \in D : p <= q
        BY <1>1, <2>1, LeastElement
      <4> QED BY <3>1, <4>1 DEF Ahead
    <3>2. CASE side = "bid"
      <4> DEFINE v == [id \in DOMAIN O |-> O[id].price]
      <4>1. \A id \in DOMAIN O : v[id] = O[id].price /\ v[id] \in Nat
        BY DEF Table, Order
      <4> HIDE DEF v
      <4>2. PICK n \in Nat : \A id \in DOMAIN O : v[id] <= n
        <5>1. /\ SumFunctionOnSet(v, DOMAIN O) \in Nat
              /\ \A id \in DOMAIN O : v[id] <= SumFunctionOnSet(v, DOMAIN O)
          BY <4>1, SumPositive DEF Table
        <5> QED BY <5>1
      <4>3. \A p \in D : p <= n
        BY <1>2, <4>1, <4>2 DEF LiveIn
      <4>4. PICK p \in D : \A q \in D : q <= p
        BY <1>1, <2>1, <4>3, GreatestElement
      <4>5. \A q \in D : p >= q
        BY <1>1, <4>4
      <4> QED BY <3>2, <4>5 DEF Ahead
    <3> QED BY <3>1, <3>2 DEF Sides
  <2>3. PICK c : c = CHOOSE p \in D : First(p)
    OBVIOUS
  <2>4. c \in D /\ First(c)
    BY <2>2, <2>3
  <2>5. best = c
    BY <2>2, <2>3 DEF Best
  <2> HIDE DEF best
  <2>6. \A id \in LiveIn(O, side) : O[id].price \in Nat /\ O[id].price \in D
    BY <1>2 DEF LiveIn, Table, Order
  <2> HIDE DEF D
  <2> QED BY <1>1, <1>2, <1>4, <2>4, <2>5, <2>6 DEF best, D
<1> QED BY <1>3, <1>4

-----------------------------------------------------------------------------
(* What is locked and what the orders may have to pay.                        *)

OwnIn(O, s, t) == {id \in LiveIn(O, s) : O[id].owner = t}
LocksOf(O, s) == [id \in DOMAIN O |-> LockedFor(s, O[id].price, O[id].remaining)]
Owed(O, s, t) == SumFunctionOnSet(LocksOf(O, s), OwnIn(O, s, t))

\* An order's part in what its owner owes; a closed one has none.
Share(O, id, s, t) ==
    IF id \in DOMAIN O /\ O[id].side = s /\ O[id].owner = t
    THEN LockedFor(s, O[id].price, O[id].remaining) ELSE 0

\* A closed order locks nothing, another a natural number.
LEMMA LocksNat ==
    ASSUME NEW o \in Order
    PROVE  /\ \A s \in Sides : LockedFor(s, o.price, o.remaining) \in Nat
           /\ o.remaining = 0 => \A s \in Sides : LockedFor(s, o.price, o.remaining) = 0
<1>1. o.price \in Nat /\ o.remaining \in Nat
  BY DEF Order
<1>2. PICK p \in Nat : p = o.price
  BY <1>1
<1>3. p * 0 = 0
  OBVIOUS
<1> QED BY <1>1, <1>2, <1>3, LockedForNat DEF LockedFor, QuoteAmount

\* What a trader owes is a number.
LEMMA OwedInt ==
    ASSUME NEW O, Table(O), NEW s \in Sides, NEW t
    PROVE  Owed(O, s, t) \in Int
<1>1. OwnIn(O, s, t) \in SUBSET DOMAIN O
  BY DEF OwnIn, LiveIn
<1>2. IsFiniteSet(OwnIn(O, s, t))
  BY <1>1, FS_Subset DEF Table
<1>3. \A id \in DOMAIN O : LocksOf(O, s)[id] \in Int
  BY LocksNat DEF LocksOf, Table
<1>4. Summable(LocksOf(O, s), OwnIn(O, s, t))
  BY <1>1, <1>2, <1>3 DEF Summable
<1> QED BY <1>4, SumFacts DEF Owed

\* Writing one order changes what its owner owes by its part, and nothing else.
LEMMA OwedChanges ==
    ASSUME NEW O, NEW O2, NEW id, Table(O), Table(O2), Writes(O, O2, id), NEW s \in Sides, NEW t
    PROVE  /\ Owed(O, s, t) \in Int /\ Owed(O2, s, t) \in Int
           /\ Share(O, id, s, t) \in Int /\ Share(O2, id, s, t) \in Int
           /\ Owed(O2, s, t) = Owed(O, s, t) - Share(O, id, s, t) + Share(O2, id, s, t)
<1> DEFINE S == OwnIn(O, s, t)
           R == OwnIn(O2, s, t)
           v == LocksOf(O, s)
           w == LocksOf(O2, s)
<1>1. S \in SUBSET DOMAIN O /\ R \in SUBSET DOMAIN O2
  BY DEF OwnIn, LiveIn
<1>2. \A other \in DOMAIN O : v[other] \in Int /\ v[other] = LockedFor(s, O[other].price, O[other].remaining)
  BY LocksNat DEF LocksOf, Table
<1>3. \A other \in DOMAIN O2 : w[other] \in Int /\ w[other] = LockedFor(s, O2[other].price, O2[other].remaining)
  BY LocksNat DEF LocksOf, Table
<1>4. Summable(v, S) /\ Summable(w, R)
  <2>1. IsFiniteSet(S) /\ IsFiniteSet(R)
    BY <1>1, FS_Subset DEF Table
  <2> QED BY <1>1, <1>2, <1>3, <2>1 DEF Summable
<1>5. \A other : other # id => (other \in S <=> other \in R)
  BY DEF OwnIn, LiveIn, Writes
<1>6. \A other \in S : other # id => w[other] = v[other]
  <2>1. \A other \in S : other # id => O2[other] = O[other] /\ other \in DOMAIN O2
    BY <1>1 DEF Writes
  <2> HIDE DEF S, v, w
  <2> QED BY <1>1, <1>2, <1>3, <2>1
<1>7. ASSUME NEW P, Table(P)
      PROVE  (IF id \in OwnIn(P, s, t) THEN LocksOf(P, s)[id] ELSE 0) = Share(P, id, s, t)
  <2>1. CASE id \in OwnIn(P, s, t)
    BY <2>1 DEF OwnIn, LiveIn, LocksOf, Share
  <2>2. CASE id \notin OwnIn(P, s, t) /\ id \in DOMAIN P /\ P[id].side = s /\ P[id].owner = t
    <3>1. P[id].status \notin {"open", "partial"} /\ P[id] \in Order
      BY <1>7, <2>2 DEF OwnIn, LiveIn, Table
    <3>2. P[id].remaining = 0
      BY <2>2, <3>1, <1>7 DEF Table, Order, Statuses
    <3>3. LockedFor(s, P[id].price, P[id].remaining) = 0
      BY <3>1, <3>2, LocksNat
    <3> QED BY <2>2, <3>3 DEF Share
  <2>3. CASE id \notin OwnIn(P, s, t) /\ ~(id \in DOMAIN P /\ P[id].side = s /\ P[id].owner = t)
    BY <2>3 DEF Share
  <2> QED BY <2>1, <2>2, <2>3
<1>8. Share(O, id, s, t) \in Int /\ Share(O2, id, s, t) \in Int
  BY LocksNat DEF Share, Table
<1>9. /\ SumFunctionOnSet(v, S) \in Int /\ SumFunctionOnSet(w, R) \in Int
      /\ SumFunctionOnSet(w, R) = SumFunctionOnSet(v, S) - (IF id \in S THEN v[id] ELSE 0)
                                                         + (IF id \in R THEN w[id] ELSE 0)
  <2> HIDE DEF S, R, v, w
  <2> QED BY <1>4, <1>5, <1>6, SumDiffersAt
<1>10. /\ (IF id \in S THEN v[id] ELSE 0) = Share(O, id, s, t)
       /\ (IF id \in R THEN w[id] ELSE 0) = Share(O2, id, s, t)
  BY <1>7
<1> HIDE DEF S, R, v, w
<1>11. SumFunctionOnSet(w, R) = SumFunctionOnSet(v, S) - Share(O, id, s, t) + Share(O2, id, s, t)
  BY <1>9, <1>10
<1> QED BY <1>8, <1>9, <1>11 DEF Owed, S, R, v, w

\* The escrow of every trader moves with what the trader owes: the base exactly,
\* the quote at least as far.
Follows(e, e2, O, O2) ==
    \A t \in Traders :
        /\ e2[t]["base"] - Owed(O2, "ask", t) = e[t]["base"] - Owed(O, "ask", t)
        /\ e2[t]["quote"] - Owed(O2, "bid", t) >= e[t]["quote"] - Owed(O, "bid", t)

\* What locking or releasing does to each balance.
LEMMA EscrowAdjusted ==
    ASSUME NEW e \in [Traders -> [Tokens -> Int]], NEW t \in Traders, NEW k \in Tokens, NEW d \in Int
    PROVE  \A u \in Traders : \A j \in Tokens :
              AdjustEscrow(e, t, k, d)[u][j] = e[u][j] + (IF u = t /\ j = k THEN d ELSE 0)
<1> SUFFICES ASSUME NEW u \in Traders, NEW j \in Tokens
             PROVE  AdjustEscrow(e, t, k, d)[u][j] = e[u][j] + (IF u = t /\ j = k THEN d ELSE 0)
  OBVIOUS
<1>1. e[u][j] \in Int
  OBVIOUS
<1>2. CASE u = t /\ j = k
  BY <1>1, <1>2 DEF AdjustEscrow
<1>3. CASE u = t /\ j # k
  BY <1>1, <1>3 DEF AdjustEscrow
<1>4. CASE u # t
  BY <1>1, <1>4 DEF AdjustEscrow
<1> QED BY <1>2, <1>3, <1>4

\* Locking or releasing what the writing of an order calls for.
LEMMA LockFollows ==
    ASSUME NEW e \in [Traders -> [Tokens -> Int]], NEW O, NEW O2, NEW id,
           Table(O), Table(O2), Writes(O, O2, id), NEW delta \in Int,
           NEW side \in Sides, NEW t \in Traders, side = O2[id].side, t = O2[id].owner,
           side = "ask" => delta = Share(O2, id, side, t) - Share(O, id, side, t),
           side = "bid" => delta >= Share(O2, id, side, t) - Share(O, id, side, t)
    PROVE  Follows(e, AdjustEscrow(e, t, TokenOf(side), delta), O, O2)
<1> DEFINE k == TokenOf(side)
           e2 == AdjustEscrow(e, t, k, delta)
<1>1. k \in Tokens /\ (k = "quote" <=> side = "bid") /\ (k = "base" <=> side = "ask")
  BY DEF TokenOf, Tokens, Sides
<1>2. \A u \in Traders : \A j \in Tokens : e2[u][j] = e[u][j] + (IF u = t /\ j = k THEN delta ELSE 0)
  BY <1>1, EscrowAdjusted
<1>3. "ask" \in Sides /\ "bid" \in Sides /\ "base" \in Tokens /\ "quote" \in Tokens
  BY DEF Sides, Tokens
<1>4. ASSUME NEW u \in Traders, NEW s \in Sides, u # t \/ s # side
      PROVE  Share(O, id, s, u) = 0 /\ Share(O2, id, s, u) = 0
  BY <1>4 DEF Share, Writes
<1> SUFFICES ASSUME NEW u \in Traders
             PROVE  /\ e2[u]["base"] - Owed(O2, "ask", u) = e[u]["base"] - Owed(O, "ask", u)
                    /\ e2[u]["quote"] - Owed(O2, "bid", u) >= e[u]["quote"] - Owed(O, "bid", u)
  BY DEF Follows
<1>5. e[u]["base"] \in Int /\ e[u]["quote"] \in Int
  BY <1>3
<1>6. \A s \in Sides :
         /\ Owed(O, s, u) \in Int /\ Owed(O2, s, u) \in Int
         /\ Share(O, id, s, u) \in Int /\ Share(O2, id, s, u) \in Int
         /\ Owed(O2, s, u) = Owed(O, s, u) - Share(O, id, s, u) + Share(O2, id, s, u)
  BY OwedChanges
<1>7. /\ e2[u]["base"] = e[u]["base"] + (IF u = t /\ side = "ask" THEN delta ELSE 0)
      /\ e2[u]["quote"] = e[u]["quote"] + (IF u = t /\ side = "bid" THEN delta ELSE 0)
  BY <1>1, <1>2, <1>3
<1> HIDE DEF e2, k
<1>8. e2[u]["base"] - Owed(O2, "ask", u) = e[u]["base"] - Owed(O, "ask", u)
  <2>1. CASE u = t /\ side = "ask"
    BY <1>3, <1>5, <1>6, <1>7, <2>1
  <2>2. CASE ~(u = t /\ side = "ask")
    <3>1. Share(O, id, "ask", u) = 0 /\ Share(O2, id, "ask", u) = 0
      BY <1>3, <1>4, <2>2
    <3> QED BY <1>3, <1>5, <1>6, <1>7, <2>2, <3>1
  <2> QED BY <2>1, <2>2
<1>9. e2[u]["quote"] - Owed(O2, "bid", u) >= e[u]["quote"] - Owed(O, "bid", u)
  <2>1. CASE u = t /\ side = "bid"
    BY <1>3, <1>5, <1>6, <1>7, <2>1
  <2>2. CASE ~(u = t /\ side = "bid")
    <3>1. Share(O, id, "bid", u) = 0 /\ Share(O2, id, "bid", u) = 0
      BY <1>3, <1>4, <2>2
    <3> QED BY <1>3, <1>5, <1>6, <1>7, <2>2, <3>1
  <2> QED BY <2>1, <2>2
<1> QED BY <1>8, <1>9

-----------------------------------------------------------------------------
(* What an order traded, by the tape.                                         *)

SizesOf(T) == [i \in DOMAIN T |-> T[i].size]
Naming(T, id) == {i \in DOMAIN T : id \in {T[i].maker, T[i].taker}}
Traded(T, id) == SumFunctionOnSet(SizesOf(T), Naming(T, id))

FillOK(o, filled) ==
    IF o.status = "cancelled"
    THEN o.remaining = 0 /\ filled < o.size
    ELSE /\ o.remaining + filled = o.size
         /\ o.status = "open" <=> filled = 0
         /\ o.status = "filled" <=> o.remaining = 0

\* FillsMatchTape, order by order.
LEMMA FillsByOrder ==
    FillsMatchTape <=> \A id \in DOMAIN orders : FillOK(orders[id], Traded(tape, id))
BY DEF FillsMatchTape, FillOK, Traded, SizesOf, Naming

\* The same in the next state.
LEMMA FillsByOrderNext ==
    FillsMatchTape' <=> \A id \in DOMAIN orders' : FillOK(orders'[id], Traded(tape', id))
BY DEF FillsMatchTape, FillOK, Traded, SizesOf, Naming

\* What an order traded is a natural number, zero when no trade names it.
LEMMA TradedNat ==
    ASSUME NEW T \in Seq(Trade), NEW id
    PROVE  /\ Traded(T, id) \in Nat /\ Summable(SizesOf(T), Naming(T, id))
           /\ Naming(T, id) = {} => Traded(T, id) = 0
<1>1. DOMAIN T = 1..Len(T) /\ Len(T) \in Nat /\ \A i \in DOMAIN T : T[i] \in Trade
  BY LenProperties, ElementOfSeq
<1>2. IsFiniteSet(Naming(T, id))
  <2>1. IsFiniteSet(1..Len(T))
    BY <1>1, FS_Interval
  <2>2. Naming(T, id) \subseteq 1..Len(T)
    BY <1>1 DEF Naming
  <2> QED BY <2>1, <2>2, FS_Subset
<1>3. \A i \in Naming(T, id) : SizesOf(T)[i] \in Nat
  BY <1>1 DEF Naming, SizesOf, Trade
<1>4. Summable(SizesOf(T), Naming(T, id))
  BY <1>2, <1>3 DEF Summable
<1> QED BY <1>2, <1>3, <1>4, SumPositive, SumFacts DEF Traded

\* A trade more adds its size to what its two orders traded.
LEMMA TradedAppend ==
    ASSUME NEW T \in Seq(Trade), NEW t \in Trade, NEW id
    PROVE  Traded(Append(T, t), id) =
              Traded(T, id) + (IF id \in {t.maker, t.taker} THEN t.size ELSE 0)
<1>1. PICK U : U = Append(T, t)
  OBVIOUS
<1>2. PICK n \in Nat : n = Len(T)
  BY LenProperties
<1>3. /\ U \in Seq(Trade) /\ DOMAIN U = 1..n + 1 /\ DOMAIN T = 1..n
      /\ \A i \in 1..n : U[i] = T[i]
      /\ U[n + 1] = t
  BY <1>1, <1>2, AppendProperties, LenProperties
<1>4. \A i : i \in 1..n + 1 <=> i \in 1..n \/ i = n + 1
  BY <1>2
<1>5. n + 1 \notin 1..n
  BY <1>2
<1> DEFINE S == Naming(T, id)
           R == Naming(U, id)
<1>6. \A i : i # n + 1 => (i \in S <=> i \in R)
  BY <1>3, <1>4 DEF Naming
<1>7. \A i \in S : i # n + 1 => SizesOf(U)[i] = SizesOf(T)[i]
  BY <1>3, <1>4 DEF Naming, SizesOf
<1>8. n + 1 \notin S /\ (n + 1 \in R <=> id \in {t.maker, t.taker}) /\ SizesOf(U)[n + 1] = t.size
  BY <1>3, <1>4, <1>5 DEF Naming, SizesOf
<1>9. /\ Summable(SizesOf(T), S) /\ Summable(SizesOf(U), R)
      /\ Traded(T, id) \in Nat /\ t.size \in Nat
  BY <1>3, TradedNat DEF Trade
<1> HIDE DEF S, R
<1>10. PICK x : x = n + 1
  OBVIOUS
<1>11. SumFunctionOnSet(SizesOf(U), R) = SumFunctionOnSet(SizesOf(T), S)
          - (IF x \in S THEN SizesOf(T)[x] ELSE 0) + (IF x \in R THEN SizesOf(U)[x] ELSE 0)
  BY <1>6, <1>7, <1>9, <1>10, SumDiffersAt
<1>12. /\ (IF x \in S THEN SizesOf(T)[x] ELSE 0) = 0
       /\ (IF x \in R THEN SizesOf(U)[x] ELSE 0) = (IF id \in {t.maker, t.taker} THEN t.size ELSE 0)
  BY <1>8, <1>10
<1>13. Traded(U, id) = Traded(T, id) - 0 + (IF id \in {t.maker, t.taker} THEN t.size ELSE 0)
  BY <1>11, <1>12 DEF Traded, S, R
<1> QED BY <1>1, <1>9, <1>13

-----------------------------------------------------------------------------
(* The book.                                                                  *)

\* While a handler is inside the matching loop nothing has been refused, and the
\* order it waits for has not been cancelled.
CallInv ==
    call.op = "match" =>
        /\ outcome = "ok"
        /\ call.order # NoOrder => orders[call.order].status # "cancelled"

BookInv ==
    /\ Inv
    /\ Mirror(levels, orders)
    /\ FillsMatchTape
    /\ CallInv
    /\ market = "none" => DOMAIN orders = {}

\* What every step does to the orders there are: none is lost, changes its terms
\* or comes back to life.
Evolves(O, O2) ==
    \A id \in DOMAIN O :
        /\ id \in DOMAIN O2
        /\ O2[id].owner = O[id].owner /\ O2[id].side = O[id].side /\ O2[id].price = O[id].price
        /\ O2[id].status \in {"open", "partial"} => O[id].status \in {"open", "partial"}

\* The orders the model keeps are a table.
LEMMA TableIs ==
    ASSUME NEW O, NEW n \in Nat, DOMAIN O \subseteq 0..(n - 1), O \in [DOMAIN O -> Order],
           \A id \in DOMAIN O : O[id].remaining = 0 <=> O[id].status \in {"filled", "cancelled"}
    PROVE  Table(O)
<1>1. IsFiniteSet(0..(n - 1))
  <2>1. PICK m \in Int : m = n - 1
    OBVIOUS
  <2>2. IsFiniteSet(0..m)
    BY FS_Interval
  <2> QED BY <2>1, <2>2
<1>2. IsFiniteSet(DOMAIN O)
  BY <1>1, FS_Subset
<1> QED BY <1>2 DEF Table

\* So under the invariant.
LEMMA OrdersTable == Inv => Table(orders)
<1> SUFFICES ASSUME Inv PROVE Table(orders)
  OBVIOUS
<1>1. PICK n \in Nat : n = nextId
  BY DEF Inv, TypeOK
<1> QED BY <1>1, TableIs DEF Inv, TypeOK, ClosedIffEmpty

\* And in the next state.
LEMMA OrdersTableNext == Inv' => Table(orders')
<1> SUFFICES ASSUME Inv' PROVE Table(orders')
  OBVIOUS
<1>1. PICK n \in Nat : n = nextId'
  BY DEF Inv, TypeOK
<1> QED BY <1>1, TableIs DEF Inv, TypeOK, ClosedIffEmpty

-----------------------------------------------------------------------------
(* The changes a handler makes to the book.                                   *)

\* While the tape stands still only the order that is written has to be looked at.
LEMMA FillsWritten ==
    ASSUME FillsMatchTape, tape' = tape, NEW id, Writes(orders, orders', id),
           FillOK(orders'[id], Traded(tape, id))
    PROVE  FillsMatchTape'
BY FillsByOrder, FillsByOrderNext DEF Writes

\* No trade names an order that is not there yet.
LEMMA FreshTradedNothing ==
    ASSUME Inv
    PROVE  Traded(tape, nextId) = 0 /\ nextId \in Nat /\ nextId \notin DOMAIN orders
           /\ \A id \in DOMAIN orders : id \in Nat /\ id < nextId
<1>1. tape \in Seq(Trade) /\ nextId \in Nat /\ DOMAIN orders \subseteq 0..(nextId - 1)
  BY DEF Inv, TypeOK
<1>2. nextId \notin DOMAIN orders /\ \A id \in DOMAIN orders : id \in Nat /\ id < nextId
  BY <1>1
<1>3. Naming(tape, nextId) = {}
  BY <1>2 DEF Inv, TapeOK, Naming
<1> QED BY <1>1, <1>2, <1>3, TradedNat

\* What an order is when it is made.
LEMMA NewOrderFields ==
    ASSUME Inv, NEW t \in Traders, NEW side \in Sides, NEW price \in Nat, NEW size \in Nat
    PROVE  LET o == NewOrder(t, side, price, size)
           IN  /\ o \in Order /\ o.owner = t /\ o.side = side /\ o.price = price
               /\ o.size = size /\ o.remaining = size /\ o.status = "open"
<1>1. height \in Nat
  BY DEF Inv, TypeOK
<1> QED BY <1>1 DEF NewOrder, Order, Statuses

\* A new order that rests.
LEMMA AddKeeps ==
    ASSUME BookInv, NEW t \in Traders, NEW side \in Sides, NEW price \in Nat, NEW size \in Nat \ {0},
           NEW id, id = nextId,
           NEW O2, O2 = WithOrder(id, NewOrder(t, side, price, size))
    PROVE  /\ Table(O2) /\ Writes(orders, O2, id) /\ Evolves(orders, O2) /\ id \notin DOMAIN orders
           /\ O2[id].owner = t /\ O2[id].side = side /\ O2[id].price = price
           /\ O2[id].remaining = size /\ O2[id].status = "open" /\ O2[id].size = size
           /\ IsLevels(LevelAdd(levels, side, price, size, id))
           /\ Mirror(LevelAdd(levels, side, price, size, id), O2)
           /\ FillOK(O2[id], Traded(tape, id))
<1>1. /\ Inv /\ Table(orders) /\ IsLevels(levels) /\ Queues(levels, orders) /\ Mirror(levels, orders)
      /\ \A other \in DOMAIN orders : orders[other] \in Order
  BY OrdersTable DEF BookInv, Inv, TypeOK, Table
<1>2. /\ Traded(tape, id) = 0 /\ id \in Nat /\ id \notin DOMAIN orders
      /\ \A other \in DOMAIN orders : other \in Nat /\ other < id
  BY <1>1, FreshTradedNothing
<1> DEFINE o == NewOrder(t, side, price, size)
<1>3. /\ o \in Order /\ o.owner = t /\ o.side = side /\ o.price = price
      /\ o.size = size /\ o.remaining = size /\ o.status = "open"
  BY <1>1, NewOrderFields
<1> HIDE DEF o
<1>4. /\ DOMAIN O2 = DOMAIN orders \cup {id} /\ O2[id] = o
      /\ \A other \in DOMAIN orders : O2[other] = orders[other]
  BY <1>2 DEF WithOrder, o
<1>5. Writes(orders, O2, id)
  BY <1>2, <1>4 DEF Writes
<1>6. Table(O2)
  <2>1. IsFiniteSet(DOMAIN O2)
    BY <1>1, <1>4, FS_AddElement DEF Table
  <2>2. o.remaining = 0 <=> o.status \in {"filled", "cancelled"}
    BY <1>3
  <2> QED BY <1>1, <1>2, <1>3, <1>4, <2>1, <2>2 DEF Table
<1>7. Evolves(orders, O2)
  BY <1>4 DEF Evolves
<1>8. IsLevels(LevelAdd(levels, side, price, size, id))
  <2>1. O2[id].side = side /\ O2[id].price = price /\ O2[id].status = "open"
    BY <1>3, <1>4
  <2> QED BY <1>1, <1>2, <1>4, <2>1, LevelAddProperties
<1>9. Mirror(LevelAdd(levels, side, price, size, id), O2)
  <2>1. Mirror(LevelAdd(levels, O2[id].side, O2[id].price, O2[id].remaining, id), O2)
    BY <1>1, <1>2, <1>3, <1>4, <1>5, <1>6, MirrorAdd
  <2> QED BY <1>3, <1>4, <2>1
<1>10. FillOK(O2[id], Traded(tape, id))
  BY <1>2, <1>3, <1>4 DEF FillOK
<1> QED BY <1>2, <1>3, <1>4, <1>5, <1>6, <1>7, <1>8, <1>9, <1>10

\* A post-only order that is refused: put in the book and taken out again.
LEMMA RejectKeeps ==
    ASSUME BookInv, NEW t \in Traders, NEW side \in Sides, NEW price \in Nat, NEW size \in Nat \ {0},
           NEW id, id = nextId,
           NEW r \in Order, r.owner = t, r.side = side, r.price = price, r.size = size,
           r.remaining = 0, r.status = "cancelled",
           NEW O2, O2 = WithOrder(id, r)
    PROVE  /\ Table(O2) /\ Writes(orders, O2, id) /\ Evolves(orders, O2)
           /\ O2[id].side = side /\ O2[id].owner = t /\ O2[id].remaining = 0 /\ O2[id] \in Order
           /\ id \notin DOMAIN orders
           /\ Mirror(LevelRemove(LevelAdd(levels, side, price, size, id), side, price, size, id), O2)
           /\ FillOK(O2[id], Traded(tape, id))
<1> DEFINE o == NewOrder(t, side, price, size)
           O == WithOrder(id, o)
           L == LevelAdd(levels, side, price, size, id)
<1>1. /\ Table(O) /\ Writes(orders, O, id) /\ id \notin DOMAIN orders
      /\ O[id].owner = t /\ O[id].side = side /\ O[id].price = price
      /\ O[id].remaining = size /\ O[id].status = "open" /\ O[id].size = size
      /\ IsLevels(L) /\ Mirror(L, O)
  BY AddKeeps
<1>4. O2 = WithOrder(id, r)
  OBVIOUS
<1>5. Traded(tape, id) = 0
  BY FreshTradedNothing DEF BookInv
<1> HIDE DEF o
<1>6. /\ r \in Order /\ r.owner = t /\ r.side = side /\ r.price = price /\ r.size = size
      /\ r.remaining = 0 /\ r.status = "cancelled"
  OBVIOUS
<1>7. /\ DOMAIN O2 = DOMAIN orders \cup {id} /\ O2[id] = r
      /\ \A other \in DOMAIN orders : O2[other] = orders[other]
      /\ DOMAIN O = DOMAIN O2 /\ \A other \in DOMAIN orders : O[other] = orders[other]
  BY <1>1, <1>4 DEF WithOrder
<1> HIDE DEF O, L
<1>8. Writes(orders, O2, id) /\ Writes(O, O2, id) /\ id \in DOMAIN O
  BY <1>1, <1>6, <1>7 DEF Writes
<1>9. Table(O2)
  <2>1. r.remaining = 0 <=> r.status \in {"filled", "cancelled"}
    BY <1>6
  <2>2. \A other \in DOMAIN O : other # id => O2[other] = O[other]
    BY <1>7
  <2> QED BY <1>1, <1>6, <1>7, <2>1, <2>2 DEF Table
<1>10. Evolves(orders, O2)
  BY <1>7 DEF Evolves
<1>11. Mirror(LevelRemove(L, O[id].side, O[id].price, O[id].remaining, id), O2)
  BY <1>1, <1>6, <1>7, <1>8, <1>9, MirrorRemove
<1>12. FillOK(O2[id], Traded(tape, id))
  BY <1>5, <1>6, <1>7 DEF FillOK
<1> QED BY <1>1, <1>6, <1>7, <1>8, <1>9, <1>10, <1>11, <1>12 DEF L

\* An order that is cancelled, again perhaps.
LEMMA CancelKeeps ==
    ASSUME BookInv, NEW id \in DOMAIN orders, orders[id].status # "filled",
           NEW O2, O2 = [orders EXCEPT ![id].status = "cancelled", ![id].remaining = 0]
    PROVE  /\ Table(O2) /\ Writes(orders, O2, id) /\ Evolves(orders, O2) /\ DOMAIN O2 = DOMAIN orders
           /\ O2[id].side = orders[id].side /\ O2[id].owner = orders[id].owner
           /\ O2[id].remaining = 0 /\ O2[id].status = "cancelled" /\ O2[id] \in Order
           /\ Mirror(LevelRemove(levels, orders[id].side, orders[id].price, orders[id].remaining, id), O2)
           /\ FillOK(O2[id], Traded(tape, id))
<1>1. /\ Inv /\ Table(orders) /\ IsLevels(levels) /\ Mirror(levels, orders)
      /\ tape \in Seq(Trade) /\ orders \in [DOMAIN orders -> Order]
      /\ FillOK(orders[id], Traded(tape, id))
  BY OrdersTable, FillsByOrder DEF BookInv, Inv, TypeOK
<1>2. orders[id] \in Order
  BY <1>1
<1>3. PICK r : r = [orders[id] EXCEPT !.status = "cancelled", !.remaining = 0]
  OBVIOUS
<1>4. /\ DOMAIN O2 = DOMAIN orders /\ O2[id] = r
      /\ \A other \in DOMAIN orders : other # id => O2[other] = orders[other]
  BY <1>1, <1>3
<1>5. /\ r \in Order /\ r.owner = orders[id].owner /\ r.side = orders[id].side
      /\ r.price = orders[id].price /\ r.size = orders[id].size
      /\ r.remaining = 0 /\ r.status = "cancelled"
  <2>1. "cancelled" \in Statuses /\ 0 \in Nat
    BY DEF Statuses
  <2> QED BY <1>2, <1>3, <2>1 DEF Order
<1>6. Writes(orders, O2, id)
  BY <1>4, <1>5 DEF Writes
<1>7. Table(O2)
  <2>1. r.remaining = 0 <=> r.status \in {"filled", "cancelled"}
    BY <1>5
  <2> QED BY <1>1, <1>4, <1>5, <2>1 DEF Table
<1>8. Evolves(orders, O2)
  BY <1>4, <1>5 DEF Evolves
<1>9. Mirror(LevelRemove(levels, orders[id].side, orders[id].price, orders[id].remaining, id), O2)
  BY <1>1, <1>4, <1>5, <1>6, <1>7, MirrorRemove
<1>10. FillOK(O2[id], Traded(tape, id))
  <2>1. Traded(tape, id) \in Nat /\ orders[id].remaining \in Nat /\ orders[id].size \in Nat
    BY <1>1, <1>2, TradedNat DEF Order
  <2>2. Traded(tape, id) < orders[id].size
    <3>1. CASE orders[id].status = "cancelled"
      BY <1>1, <3>1 DEF FillOK
    <3>2. CASE orders[id].status # "cancelled"
      <4>1. orders[id].remaining + Traded(tape, id) = orders[id].size /\ orders[id].remaining # 0
        BY <1>1, <3>2 DEF FillOK
      <4> QED BY <2>1, <4>1
    <3> QED BY <3>1, <3>2
  <2> QED BY <1>4, <1>5, <2>2 DEF FillOK
<1> QED BY <1>4, <1>5, <1>6, <1>7, <1>8, <1>9, <1>10

\* Two changes that the escrow follows, one after the other.
LEMMA FollowsTwice ==
    ASSUME NEW e \in [Traders -> [Tokens -> Int]], NEW e1 \in [Traders -> [Tokens -> Int]],
           NEW e2 \in [Traders -> [Tokens -> Int]], NEW O, NEW O1, NEW O2,
           \A s \in Sides, t \in Traders : Owed(O, s, t) \in Int /\ Owed(O1, s, t) \in Int /\ Owed(O2, s, t) \in Int,
           Follows(e, e1, O, O1), Follows(e1, e2, O1, O2)
    PROVE  Follows(e, e2, O, O2)
<1> SUFFICES ASSUME NEW t \in Traders
             PROVE  /\ e2[t]["base"] - Owed(O2, "ask", t) = e[t]["base"] - Owed(O, "ask", t)
                    /\ e2[t]["quote"] - Owed(O2, "bid", t) >= e[t]["quote"] - Owed(O, "bid", t)
  BY DEF Follows
<1>1. "ask" \in Sides /\ "bid" \in Sides /\ "base" \in Tokens /\ "quote" \in Tokens
  BY DEF Sides, Tokens
<1>2. /\ e[t]["base"] \in Int /\ e1[t]["base"] \in Int /\ e2[t]["base"] \in Int
      /\ e[t]["quote"] \in Int /\ e1[t]["quote"] \in Int /\ e2[t]["quote"] \in Int
  BY <1>1
<1>3. \A s \in Sides : Owed(O, s, t) \in Int /\ Owed(O1, s, t) \in Int /\ Owed(O2, s, t) \in Int
  OBVIOUS
<1>4. /\ e1[t]["base"] - Owed(O1, "ask", t) = e[t]["base"] - Owed(O, "ask", t)
      /\ e1[t]["quote"] - Owed(O1, "bid", t) >= e[t]["quote"] - Owed(O, "bid", t)
      /\ e2[t]["base"] - Owed(O2, "ask", t) = e1[t]["base"] - Owed(O1, "ask", t)
      /\ e2[t]["quote"] - Owed(O2, "bid", t) >= e1[t]["quote"] - Owed(O1, "bid", t)
  BY DEF Follows
<1> QED BY <1>1, <1>2, <1>3, <1>4

\* A lower price pays no more for the same size.
LEMMA PaysNoMore ==
    ASSUME NEW p \in Nat, NEW q \in Nat, NEW n \in Nat, p <= q
    PROVE  p * n <= q * n /\ p * n \in Nat /\ q * n \in Nat
<1>1. PICK d \in Nat : q = p + d
  <2>1. q - p \in Nat /\ q = p + (q - p)
    OBVIOUS
  <2> QED BY <2>1
<1>2. q * n = p * n + d * n
  BY <1>1
<1>3. d * n \in Nat /\ p * n \in Nat
  BY <1>1
<1> QED BY <1>2, <1>3

\* A fill lowers what the order locks: by the size on an ask, by the size at the
\* limit price on a bid.
LEMMA FillUnlocks ==
    ASSUME NEW price \in Nat, NEW rest \in Nat, NEW size \in Nat, size <= rest
    PROVE  /\ LockedFor("ask", price, rest - size) - LockedFor("ask", price, rest) = - size
           /\ LockedFor("bid", price, rest - size) - LockedFor("bid", price, rest) = - (price * size)
<1>1. price * (rest - size) = price * rest - price * size
  OBVIOUS
<1>2. price * rest \in Int /\ price * size \in Int
  OBVIOUS
<1> QED BY <1>1, <1>2 DEF LockedFor, QuoteAmount

\* The escrow follows the fill of an order at a price its limit allows.
LEMMA FillFollows ==
    ASSUME NEW e \in [Traders -> [Tokens -> Int]], NEW O, NEW O2, NEW id \in DOMAIN O,
           Table(O), Table(O2), Writes(O, O2, id), NEW size \in Nat, size <= O[id].remaining,
           O2[id].remaining = O[id].remaining - size,
           NEW price \in Nat, O[id].side = "bid" => price <= O[id].price,
           NEW paid, paid = IF O[id].side = "bid" THEN QuoteAmount(price, size) ELSE size
    PROVE  Follows(e, AdjustEscrow(e, O[id].owner, TokenOf(O[id].side), - paid), O, O2)
<1>1. /\ O[id] \in Order /\ O2[id] \in Order /\ id \in DOMAIN O2
      /\ O2[id].side = O[id].side /\ O2[id].owner = O[id].owner /\ O2[id].price = O[id].price
  BY DEF Table, Writes
<1>2. PICK t \in Traders, side \in Sides, limit \in Nat, rest \in Nat :
         t = O[id].owner /\ side = O[id].side /\ limit = O[id].price /\ rest = O[id].remaining
  BY <1>1 DEF Order
<1>3. /\ Share(O, id, side, t) = LockedFor(side, limit, rest)
      /\ Share(O2, id, side, t) = LockedFor(side, limit, rest - size)
  BY <1>1, <1>2 DEF Share
<1>4. /\ LockedFor("ask", limit, rest - size) - LockedFor("ask", limit, rest) = - size
      /\ LockedFor("bid", limit, rest - size) - LockedFor("bid", limit, rest) = - (limit * size)
  BY <1>2, FillUnlocks
<1>5. CASE side = "ask"
  <2>1. paid = size /\ - size \in Int
    BY <1>2, <1>5
  <2>2. - size = Share(O2, id, side, t) - Share(O, id, side, t)
    BY <1>3, <1>4, <1>5
  <2>3. side # "bid"
    BY <1>5
  <2>4. Follows(e, AdjustEscrow(e, t, TokenOf(side), - size), O, O2)
    BY <1>1, <1>2, <2>1, <2>2, <2>3, LockFollows
  <2> QED BY <1>2, <2>1, <2>4
<1>6. CASE side = "bid"
  <2>1. price * size <= limit * size /\ price * size \in Nat /\ limit * size \in Nat
    BY <1>2, <1>6, PaysNoMore
  <2>2. PICK d \in Int : d = - (price * size)
    BY <2>1
  <2>3. d >= - (limit * size)
    BY <2>1, <2>2
  <2>4. d >= Share(O2, id, side, t) - Share(O, id, side, t)
    BY <1>3, <1>4, <1>6, <2>3
  <2>5. side # "ask"
    BY <1>6
  <2>6. Follows(e, AdjustEscrow(e, t, TokenOf(side), d), O, O2)
    BY <1>1, <1>2, <2>4, <2>5, LockFollows
  <2>7. - paid = d
    BY <1>2, <1>6, <2>2 DEF QuoteAmount
  <2> QED BY <1>2, <2>6, <2>7
<1> QED BY <1>2, <1>5, <1>6 DEF Sides

\* One trade of the matching loop: two fills, each with its level and its escrow.
LEMMA TradeKeeps ==
    ASSUME BookInv, CanMatch,
           NEW b, b = Head(levels["bid"][Best(levels, "bid")].ids),
           NEW a, a = Head(levels["ask"][Best(levels, "ask")].ids), Trades(b, a)
    PROVE  /\ Table(orders') /\ Mirror(levels', orders') /\ FillsMatchTape'
           /\ DOMAIN orders' = DOMAIN orders /\ Evolves(orders, orders')
           /\ \A id \in DOMAIN orders : orders'[id].status = "cancelled" => orders[id].status = "cancelled"
           /\ Follows(escrow, escrow', orders, orders')
           /\ \E t \in Trade : tape' = Append(tape, t) /\ {t.maker, t.taker} = {a, b}
           /\ orders[b].side = "bid" /\ orders[a].side = "ask"
           /\ orders[b].price = Best(levels, "bid") /\ orders[a].price = Best(levels, "ask")
<1>1. /\ Inv /\ Table(orders) /\ IsLevels(levels) /\ Mirror(levels, orders) /\ Queues(levels, orders)
      /\ tape \in Seq(Trade) /\ orders \in [DOMAIN orders -> Order] /\ height \in Nat
      /\ escrow \in [Traders -> [Tokens -> Int]]
      /\ \A id \in DOMAIN orders : FillOK(orders[id], Traded(tape, id))
  BY OrdersTable, FillsByOrder DEF BookInv, Inv, TypeOK
<1>2. PICK bp, ap : bp = Best(levels, "bid") /\ ap = Best(levels, "ask")
  OBVIOUS
<1>3. /\ bp # NoPrice /\ ap # NoPrice /\ bp >= ap
      /\ levels["bid"][bp].ids # <<>> /\ levels["ask"][ap].ids # <<>>
  BY <1>2 DEF CanMatch
<1>4. /\ b \in DOMAIN orders /\ orders[b] \in Order /\ orders[b].side = "bid"
      /\ orders[b].price = bp /\ orders[b].status \in {"open", "partial"}
  BY <1>1, <1>2, <1>3, HeadOfBest DEF Sides
<1>5. /\ a \in DOMAIN orders /\ orders[a] \in Order /\ orders[a].side = "ask"
      /\ orders[a].price = ap /\ orders[a].status \in {"open", "partial"}
  BY <1>1, <1>2, <1>3, HeadOfBest DEF Sides
<1>6. PICK bid, ask : bid = orders[b] /\ ask = orders[a]
  OBVIOUS
<1>7. PICK price : price = IF BidIsMaker(bid, ask) THEN bid.price ELSE ask.price
  OBVIOUS
<1>8. PICK size : size = IF bid.remaining < ask.remaining THEN bid.remaining ELSE ask.remaining
  OBVIOUS
<1>9. /\ price \in Nat /\ size \in Nat /\ ap <= price /\ price <= bp
      /\ size <= bid.remaining /\ size <= ask.remaining
      /\ bid.remaining \in Nat /\ ask.remaining \in Nat
      /\ b \in Nat /\ a \in Nat /\ b # a
  <2>1. b \in Nat /\ a \in Nat
    BY <1>1, <1>4, <1>5 DEF Table
  <2>2. bid.remaining \in Nat /\ ask.remaining \in Nat /\ bid.price \in Nat /\ ask.price \in Nat
    BY <1>4, <1>5, <1>6 DEF Order
  <2>3. b # a
    BY <1>4, <1>5
  <2>4. price \in {ap, bp} /\ ap \in Nat /\ bp \in Nat
    BY <1>4, <1>5, <1>6, <1>7, <2>2
  <2> QED BY <1>3, <1>8, <2>1, <2>2, <2>3, <2>4
<1>10. size > 0
  <2>1. b \in LiveIn(orders, "bid") /\ a \in LiveIn(orders, "ask")
    BY <1>4, <1>5 DEF LiveIn
  <2>2. bid.remaining > 0 /\ ask.remaining > 0
    BY <1>1, <1>6, <2>1, LiveHasRest
  <2> QED BY <1>8, <1>9, <2>2
<1>11. PICK trade : trade = TradeOf(b, a, price, size)
  OBVIOUS
<1>12. PICK O1 : O1 = [orders EXCEPT ![b] = Fill(bid, size)]
  OBVIOUS
<1>13. PICK L1 : L1 = AfterFill(levels, b, bid, size)
  OBVIOUS
<1>14. PICK e1 : e1 = AdjustEscrow(escrow, bid.owner, "quote", - QuoteAmount(price, size))
  OBVIOUS
<1>15. /\ tape' = Append(tape, trade)
       /\ orders' = [orders EXCEPT ![b] = Fill(bid, size), ![a] = Fill(ask, size)]
       /\ escrow' = AdjustEscrow(e1, ask.owner, "base", - size)
       /\ levels' = AfterFill(L1, a, ask, size)
  BY <1>6, <1>7, <1>8, <1>11, <1>12, <1>13, <1>14 DEF Trades
<1>16. /\ trade \in Trade /\ {trade.maker, trade.taker} = {a, b} /\ trade.size = size
  <2>1. QuoteAmount(price, size) \in Nat /\ Fee(QuoteAmount(price, size)) \in Nat
    BY <1>9, QuoteAmountNat, FeeNat
  <2> QED BY <1>1, <1>9, <1>11, <2>1 DEF TradeOf, Trade, Sides
<1>17. /\ DOMAIN O1 = DOMAIN orders /\ O1[b] = Fill(orders[b], size) /\ O1[a] = ask
       /\ \A id \in DOMAIN orders : id # b => O1[id] = orders[id]
  BY <1>1, <1>4, <1>5, <1>6, <1>9, <1>12
<1>18. /\ DOMAIN orders' = DOMAIN orders /\ orders'[a] = Fill(O1[a], size)
       /\ \A id \in DOMAIN orders : id # a => orders'[id] = O1[id]
       /\ orders'[b] = Fill(bid, size) /\ orders'[a] = Fill(ask, size)
  BY <1>1, <1>4, <1>5, <1>6, <1>9, <1>12, <1>15
<1>19. Table(O1) /\ Writes(orders, O1, b) /\ Mirror(L1, O1)
  BY <1>1, <1>4, <1>6, <1>9, <1>13, <1>17, MirrorFill
<1>20. IsLevels(L1)
  BY <1>1, <1>4, <1>6, <1>9, <1>12, <1>13, AfterFillProperties
<1>21. Table(orders') /\ Writes(O1, orders', a) /\ Mirror(levels', orders')
  <2>1. levels' = AfterFill(L1, a, O1[a], size) /\ size <= O1[a].remaining
    BY <1>9, <1>15, <1>17
  <2>2. a \in DOMAIN O1 /\ O1[a].status \in {"open", "partial"} /\ DOMAIN orders' = DOMAIN O1
    BY <1>5, <1>6, <1>17, <1>18
  <2> QED BY <1>9, <1>17, <1>18, <1>19, <1>20, <2>1, <2>2, MirrorFill
<1>22. /\ orders'[b].owner = bid.owner /\ orders'[b].side = bid.side /\ orders'[b].price = bid.price
       /\ orders'[b].size = bid.size /\ orders'[b].remaining = bid.remaining - size
       /\ orders'[b].status = IF bid.remaining = size THEN "filled" ELSE "partial"
  BY <1>4, <1>6, <1>9, <1>18, FillWrites
<1>23. /\ orders'[a].owner = ask.owner /\ orders'[a].side = ask.side /\ orders'[a].price = ask.price
       /\ orders'[a].size = ask.size /\ orders'[a].remaining = ask.remaining - size
       /\ orders'[a].status = IF ask.remaining = size THEN "filled" ELSE "partial"
  BY <1>5, <1>6, <1>9, <1>18, FillWrites
<1>24. \A id \in DOMAIN orders : id # b /\ id # a => orders'[id] = orders[id]
  BY <1>17, <1>18
<1>25. Evolves(orders, orders')
  BY <1>4, <1>5, <1>6, <1>18, <1>22, <1>23, <1>24 DEF Evolves
<1>26. \A id \in DOMAIN orders : orders'[id].status = "cancelled" => orders[id].status = "cancelled"
  BY <1>22, <1>23, <1>24
<1>27. FillsMatchTape'
  <2>1. \A id : Traded(tape', id) = Traded(tape, id) + (IF id \in {a, b} THEN size ELSE 0)
    BY <1>1, <1>15, <1>16, TradedAppend
  <2>2. \A id : Traded(tape, id) \in Nat
    BY <1>1, TradedNat
  <2>3. ASSUME NEW o, NEW o2, NEW filled \in Nat, o \in Order, FillOK(o, filled),
               o.status \in {"open", "partial"}, size <= o.remaining,
               o2.size = o.size, o2.remaining = o.remaining - size,
               o2.status = IF o.remaining = size THEN "filled" ELSE "partial"
        PROVE  FillOK(o2, filled + size)
    <3>1. o.remaining \in Nat /\ o.size \in Nat
      BY <2>3 DEF Order
    <3>2. o.remaining + filled = o.size
      BY <2>3 DEF FillOK
    <3>3. (o.remaining - size) + (filled + size) = o.size
      BY <1>9, <2>3, <3>1, <3>2
    <3>4. (o2.remaining = 0 <=> o.remaining = size) /\ filled + size # 0
      BY <1>9, <1>10, <2>3, <3>1
    <3> QED BY <2>3, <3>3, <3>4 DEF FillOK
  <2>4. ASSUME NEW id \in DOMAIN orders PROVE FillOK(orders'[id], Traded(tape', id))
    <3>1. PICK f \in Nat : f = Traded(tape, id)
      BY <2>2
    <3>2. CASE id = b
      <4>1. FillOK(orders'[b], f + size)
        BY <1>1, <1>4, <1>6, <1>9, <1>22, <2>3, <3>1, <3>2
      <4> QED BY <2>1, <3>1, <3>2, <4>1
    <3>3. CASE id = a
      <4>1. FillOK(orders'[a], f + size)
        BY <1>1, <1>5, <1>6, <1>9, <1>23, <2>3, <3>1, <3>3
      <4> QED BY <2>1, <3>1, <3>3, <4>1
    <3>4. CASE id # a /\ id # b
      <4>1. Traded(tape', id) = f
        BY <2>1, <3>1, <3>4
      <4> QED BY <1>1, <1>24, <3>1, <3>4, <4>1
    <3> QED BY <3>2, <3>3, <3>4
  <2> QED BY <1>18, <2>4, FillsByOrderNext
<1>28. Follows(escrow, escrow', orders, orders')
  <2>1. QuoteAmount(price, size) \in Nat /\ bid.owner \in Traders /\ ask.owner \in Traders
    BY <1>4, <1>5, <1>6, <1>9, QuoteAmountNat DEF Order
  <2>2. "quote" \in Tokens /\ "base" \in Tokens /\ - QuoteAmount(price, size) \in Int /\ - size \in Int
    BY <1>9, <2>1 DEF Tokens
  <2>3. e1 \in [Traders -> [Tokens -> Int]]
    BY <1>1, <1>14, <2>1, <2>2, AdjustEscrowType
  <2>4. escrow' \in [Traders -> [Tokens -> Int]]
    BY <1>15, <2>1, <2>2, <2>3, AdjustEscrowType
  <2>5. Follows(escrow, e1, orders, O1)
    <3>1. PICK paid : paid = IF orders[b].side = "bid" THEN QuoteAmount(price, size) ELSE size
      OBVIOUS
    <3>2. paid = QuoteAmount(price, size) /\ TokenOf(orders[b].side) = "quote"
      BY <1>4, <3>1 DEF TokenOf
    <3>3. O1[b].remaining = orders[b].remaining - size
      BY <1>6, <1>17, <1>18, <1>22
    <3>4. price <= orders[b].price
      BY <1>4, <1>9
    <3>5. Follows(escrow, AdjustEscrow(escrow, orders[b].owner, TokenOf(orders[b].side), - paid), orders, O1)
      BY <1>1, <1>4, <1>6, <1>9, <1>19, <3>1, <3>3, <3>4, FillFollows
    <3> QED BY <1>6, <1>14, <3>2, <3>5
  <2>6. Follows(e1, escrow', O1, orders')
    <3>1. PICK paid : paid = IF O1[a].side = "bid" THEN QuoteAmount(price, size) ELSE size
      OBVIOUS
    <3>2. paid = size /\ TokenOf(O1[a].side) = "base" /\ O1[a].side # "bid"
      BY <1>5, <1>6, <1>17, <3>1 DEF TokenOf
    <3>3. orders'[a].remaining = O1[a].remaining - size /\ size <= O1[a].remaining
      BY <1>9, <1>17, <1>23
    <3>4. a \in DOMAIN O1
      BY <1>5, <1>17
    <3>5. Follows(e1, AdjustEscrow(e1, O1[a].owner, TokenOf(O1[a].side), - paid), O1, orders')
      BY <1>9, <1>19, <1>21, <2>3, <3>1, <3>2, <3>3, <3>4, FillFollows
    <3> QED BY <1>15, <1>17, <3>2, <3>5
  <2>7. \A s \in Sides, t \in Traders :
           Owed(orders, s, t) \in Int /\ Owed(O1, s, t) \in Int /\ Owed(orders', s, t) \in Int
    BY <1>1, <1>19, <1>21, OwedChanges
  <2>8. escrow \in [Traders -> [Tokens -> Int]]
    BY <1>1
  <2>9. PICK e, e2, O, O2 : e = escrow /\ e2 = escrow' /\ O = orders /\ O2 = orders'
    OBVIOUS
  <2>10. /\ e \in [Traders -> [Tokens -> Int]] /\ e2 \in [Traders -> [Tokens -> Int]]
         /\ \A s \in Sides, t \in Traders : Owed(O, s, t) \in Int /\ Owed(O1, s, t) \in Int /\ Owed(O2, s, t) \in Int
         /\ Follows(e, e1, O, O1) /\ Follows(e1, e2, O1, O2)
    BY ONLY <2>4, <2>5, <2>6, <2>7, <2>8, <2>9
  <2>11. Follows(e, e2, O, O2)
    BY ONLY <2>3, <2>10, FollowsTwice
  <2> QED BY <2>9, <2>11
<1> QED BY <1>2, <1>4, <1>5, <1>15, <1>16, <1>18, <1>21, <1>25, <1>26, <1>27, <1>28

-----------------------------------------------------------------------------
(* The handlers of the order book.                                            *)

TopFresh == top.bid = Best(levels, "bid") /\ top.ask = Best(levels, "ask")

BookKept ==
    /\ BookInv'
    /\ Evolves(orders, orders')
    /\ Follows(escrow, escrow', orders, orders')
    /\ TopFresh => TopFresh'

\* Recomputing the top of the book makes it fresh.
LEMMA RecomputedTop ==
    ASSUME NEW last, top' = TopOf(levels', last)
    PROVE  TopFresh'
BY DEF TopOf, TopFresh

\* A step that leaves the orders, the levels, the tape and the escrow alone.
LEMMA SameBook ==
    ASSUME BookInv, UNCHANGED <<orders, levels, tape, escrow>>
    PROVE  /\ Mirror(levels', orders') /\ FillsMatchTape'
           /\ Evolves(orders, orders') /\ Follows(escrow, escrow', orders, orders')
<1>1. Mirror(levels', orders') /\ FillsMatchTape'
  BY FillsByOrder, FillsByOrderNext DEF BookInv
<1>2. Evolves(orders, orders')
  BY DEF Evolves
<1>3. Follows(escrow, escrow', orders, orders')
  <2>1. Table(orders) /\ escrow \in [Traders -> [Tokens -> Int]]
    BY OrdersTable DEF BookInv, Inv, TypeOK
  <2>3. "base" \in Tokens /\ "quote" \in Tokens /\ "bid" \in Sides /\ "ask" \in Sides
    BY DEF Tokens, Sides
  <2>4. \A t \in Traders : escrow[t]["quote"] \in Int /\ Owed(orders, "bid", t) \in Int
    BY <2>1, <2>3, OwedInt
  <2> QED BY <2>4 DEF Follows
<1> QED BY <1>1, <1>2, <1>3

\* SYS.MKT_ORDER_PLACE.
LEMMA PlaceOrderKeeps ==
    ASSUME BookInv, Inv', NEW t \in Traders, NEW side \in Sides, NEW price \in Prices,
           NEW size \in Sizes, NEW flags \in FlagSets, PlaceOrder(t, side, price, size, flags)
    PROVE  BookKept
<1>1. /\ call = Idle /\ market = "active" /\ price \in Nat /\ size \in Nat \ {0}
      /\ UNCHANGED <<market, tape>>
  BY InputsAssumption DEF PlaceOrder, ValidOrder
<1>2. /\ Inv /\ FillsMatchTape /\ escrow \in [Traders -> [Tokens -> Int]] /\ Table(orders) /\ nextId \in Nat
  BY OrdersTable DEF BookInv, Inv, TypeOK
<1>3. PICK id : id = nextId
  OBVIOUS
<1>4. CASE RejectPostOnly(t, side, price, size)
  <2>0. PICK r : r = [NewOrder(t, side, price, size) EXCEPT !.remaining = 0, !.status = "cancelled"]
    OBVIOUS
  <2>8. /\ r \in Order /\ r.owner = t /\ r.side = side /\ r.price = price /\ r.size = size
        /\ r.remaining = 0 /\ r.status = "cancelled"
    <3>1. PICK o : o = NewOrder(t, side, price, size)
      OBVIOUS
    <3>2. o \in Order /\ o.owner = t /\ o.side = side /\ o.price = price /\ o.size = size
      BY <1>1, <1>2, <3>1, NewOrderFields
    <3>3. r = [o EXCEPT !.remaining = 0, !.status = "cancelled"]
      BY <2>0, <3>1
    <3>4. "cancelled" \in Statuses /\ 0 \in Nat
      BY DEF Statuses
    <3> QED BY <3>2, <3>3, <3>4 DEF Order
  <2>1. PICK O2 : O2 = WithOrder(id, r)
    OBVIOUS
  <2>2. /\ orders' = O2 /\ UNCHANGED <<escrow, call>>
        /\ levels' = LevelRemove(LevelAdd(levels, side, price, size, id), side, price, size, id)
        /\ top' = TopOf(levels', top.last)
    BY <1>3, <1>4, <2>0, <2>1 DEF RejectPostOnly
  <2>3. /\ Table(O2) /\ Writes(orders, O2, id) /\ Evolves(orders, O2)
        /\ O2[id].side = side /\ O2[id].owner = t /\ O2[id].remaining = 0 /\ O2[id] \in Order
        /\ id \notin DOMAIN orders
        /\ Mirror(LevelRemove(LevelAdd(levels, side, price, size, id), side, price, size, id), O2)
        /\ FillOK(O2[id], Traded(tape, id))
    BY <1>1, <1>3, <2>1, <2>8, RejectKeeps
  <2>4. FillsMatchTape'
    BY <1>1, <1>2, <2>2, <2>3, FillsWritten
  <2>5. CallInv'
    BY <1>1, <2>2 DEF CallInv, Idle
  <2>6. Follows(escrow, escrow', orders, orders')
    <3>1. Share(O2, id, side, t) = 0 /\ Share(orders, id, side, t) = 0
      BY <2>3, LocksNat DEF Share
    <3>2. Follows(escrow, AdjustEscrow(escrow, t, TokenOf(side), 0), orders, O2)
      <4>1. PICK d \in Int : d = 0
        OBVIOUS
      <4>2. d = Share(O2, id, side, t) - Share(orders, id, side, t)
        BY <3>1, <4>1
      <4>3. d >= Share(O2, id, side, t) - Share(orders, id, side, t)
        BY <3>1, <4>1
      <4>4. Follows(escrow, AdjustEscrow(escrow, t, TokenOf(side), d), orders, O2)
        BY <1>2, <2>3, <4>2, <4>3, LockFollows
      <4> QED BY <4>1, <4>4
    <3>3. AdjustEscrow(escrow, t, TokenOf(side), 0) = escrow
      <4>1. TokenOf(side) \in Tokens
        BY DEF TokenOf, Tokens
      <4>2. AdjustEscrow(escrow, t, TokenOf(side), 0) \in [Traders -> [Tokens -> Int]]
        BY <1>2, <4>1, AdjustEscrowType
      <4>3. \A u \in Traders : \A j \in Tokens :
               AdjustEscrow(escrow, t, TokenOf(side), 0)[u][j] =
                  escrow[u][j] + (IF u = t /\ j = TokenOf(side) THEN 0 ELSE 0)
        BY <1>2, <4>1, EscrowAdjusted
      <4>4. \A u \in Traders : \A j \in Tokens :
               AdjustEscrow(escrow, t, TokenOf(side), 0)[u][j] = escrow[u][j]
        BY <1>2, <4>3
      <4>5. \A u \in Traders : AdjustEscrow(escrow, t, TokenOf(side), 0)[u] = escrow[u]
        BY <1>2, <4>2, <4>4
      <4> QED BY <1>2, <4>2, <4>5
    <3> QED BY <2>2, <3>2, <3>3
  <2>7. TopFresh'
    BY <2>2, RecomputedTop
  <2> QED BY <1>1, <2>2, <2>3, <2>4, <2>5, <2>6, <2>7 DEF BookKept, BookInv
<1>5. CASE Rest(t, side, price, size, flags)
  <2>1. PICK O2 : O2 = WithOrder(id, NewOrder(t, side, price, size))
    OBVIOUS
  <2>2. /\ orders' = O2 /\ levels' = LevelAdd(levels, side, price, size, id)
        /\ top' = TopOf(levels', top.last)
        /\ escrow' = AdjustEscrow(escrow, t, TokenOf(side), LockedFor(side, price, size))
        /\ call' = IF {"ioc", "fok"} \cap flags # {}
                   THEN Matching(MaxMatches, nextId, "fok" \in flags) ELSE Idle
        /\ outcome' = "ok"
    BY <1>3, <1>5, <2>1 DEF Rest
  <2>3. /\ Table(O2) /\ Writes(orders, O2, id) /\ Evolves(orders, O2) /\ id \notin DOMAIN orders
        /\ O2[id].owner = t /\ O2[id].side = side /\ O2[id].price = price
        /\ O2[id].remaining = size /\ O2[id].status = "open"
        /\ Mirror(LevelAdd(levels, side, price, size, id), O2)
        /\ FillOK(O2[id], Traded(tape, id))
    BY <1>1, <1>3, <2>1, AddKeeps
  <2>4. FillsMatchTape'
    BY <1>1, <1>2, <2>2, <2>3, FillsWritten
  <2>5. CallInv'
    <3>1. call'.order # NoOrder => call'.order = id
      BY <1>3, <2>2 DEF Matching, Idle
    <3> QED BY <2>2, <2>3, <3>1 DEF CallInv
  <2>6. Follows(escrow, escrow', orders, orders')
    <3>1. id \in DOMAIN O2
      BY <2>3 DEF Writes
    <3>2. PICK d : d = LockedFor(side, price, size)
      OBVIOUS
    <3>3. Share(O2, id, side, t) = d /\ Share(orders, id, side, t) = 0 /\ d \in Nat
      BY <1>1, <2>3, <3>1, <3>2, LockedForNat DEF Share
    <3>4. d \in Int /\ d = d - 0 /\ d >= d - 0
      BY <3>3
    <3>5. Follows(escrow, AdjustEscrow(escrow, t, TokenOf(side), d), orders, O2)
      BY <1>2, <2>3, <3>3, <3>4, LockFollows
    <3> QED BY <2>2, <3>2, <3>5
  <2>7. TopFresh'
    BY <2>2, RecomputedTop
  <2> QED BY <1>1, <2>2, <2>3, <2>4, <2>5, <2>6, <2>7 DEF BookKept, BookInv
<1> QED BY <1>4, <1>5 DEF PlaceOrder

\* cancelOrderInternal, for whichever handler calls it.
LEMMA CancelInternalKeeps ==
    ASSUME BookInv, NEW id \in DOMAIN orders, orders[id].status # "filled", CancelInternal(id), tape' = tape
    PROVE  /\ Mirror(levels', orders') /\ FillsMatchTape' /\ Evolves(orders, orders')
           /\ Follows(escrow, escrow', orders, orders') /\ TopFresh'
           /\ DOMAIN orders' = DOMAIN orders /\ orders'[id].status = "cancelled"
           /\ \A other \in DOMAIN orders : other # id => orders'[other] = orders[other]
<1>1. /\ Inv /\ FillsMatchTape /\ escrow \in [Traders -> [Tokens -> Int]] /\ Table(orders)
  BY OrdersTable DEF BookInv, Inv, TypeOK
<1>2. PICK O2 : O2 = [orders EXCEPT ![id].status = "cancelled", ![id].remaining = 0]
  OBVIOUS
<1>3. PICK o : o = orders[id]
  OBVIOUS
<1>4. /\ orders' = O2 /\ levels' = LevelRemove(levels, o.side, o.price, o.remaining, id)
      /\ escrow' = AdjustEscrow(escrow, o.owner, TokenOf(o.side), - LockedFor(o.side, o.price, o.remaining))
      /\ top' = TopOf(levels', top.last)
  BY <1>2, <1>3 DEF CancelInternal
<1>5. /\ Table(O2) /\ Writes(orders, O2, id) /\ Evolves(orders, O2) /\ DOMAIN O2 = DOMAIN orders
      /\ O2[id].side = o.side /\ O2[id].owner = o.owner
      /\ O2[id].remaining = 0 /\ O2[id].status = "cancelled" /\ O2[id] \in Order
      /\ Mirror(LevelRemove(levels, o.side, o.price, o.remaining, id), O2)
      /\ FillOK(O2[id], Traded(tape, id))
  BY <1>2, <1>3, CancelKeeps
<1>6. FillsMatchTape'
  BY <1>1, <1>4, <1>5, FillsWritten
<1>7. Follows(escrow, escrow', orders, orders')
  <2>1. o \in Order /\ o.side \in Sides /\ o.owner \in Traders
    BY <1>1, <1>3 DEF Table, Order
  <2>2. PICK d \in Int : d = - LockedFor(o.side, o.price, o.remaining)
    BY <2>1, LocksNat
  <2>3. Share(O2, id, o.side, o.owner) = 0
    BY <1>5, <2>1, LocksNat DEF Share
  <2>4. Share(orders, id, o.side, o.owner) = LockedFor(o.side, o.price, o.remaining)
    BY <1>3 DEF Share
  <2>5. LockedFor(o.side, o.price, o.remaining) \in Nat
    BY <2>1, LocksNat
  <2>6. /\ d = Share(O2, id, o.side, o.owner) - Share(orders, id, o.side, o.owner)
        /\ d >= Share(O2, id, o.side, o.owner) - Share(orders, id, o.side, o.owner)
    BY <2>2, <2>3, <2>4, <2>5
  <2>7. PICK side \in Sides, t \in Traders : side = o.side /\ t = o.owner
    BY <2>1
  <2>8. Follows(escrow, AdjustEscrow(escrow, t, TokenOf(side), d), orders, O2)
    BY <1>1, <1>5, <2>6, <2>7, LockFollows
  <2> QED BY <1>4, <2>2, <2>7, <2>8
<1>8. TopFresh'
  BY <1>4, RecomputedTop
<1>9. \A other \in DOMAIN orders : other # id => orders'[other] = orders[other]
  BY <1>4, <1>5 DEF Writes
<1> QED BY <1>4, <1>5, <1>6, <1>7, <1>8, <1>9

\* SYS.MKT_ORDER_CANCEL.
LEMMA CancelOrderKeeps ==
    ASSUME BookInv, Inv', NEW id \in DOMAIN orders, CancelOrder(id)
    PROVE  BookKept
<1>1. /\ CancelInternal(id) /\ orders[id].status # "filled" /\ call = Idle
      /\ UNCHANGED <<market, tape, call>>
  BY DEF CancelOrder
<1>2. /\ Mirror(levels', orders') /\ FillsMatchTape' /\ Evolves(orders, orders')
      /\ Follows(escrow, escrow', orders, orders') /\ TopFresh' /\ DOMAIN orders' = DOMAIN orders
  BY <1>1, CancelInternalKeeps
<1>3. CallInv'
  BY <1>1 DEF CallInv, Idle
<1> QED BY <1>1, <1>2, <1>3 DEF BookKept, BookInv

\* The end of the loop that cancels what an immediate order has left.
LEMMA MatchEndCancelKeeps ==
    ASSUME BookInv, Inv', MatchEndCancel
    PROVE  /\ BookKept
           /\ call.order \in DOMAIN orders /\ orders'[call.order].status = "cancelled"
<1>1. PICK id : id = call.order
  OBVIOUS
<1>2. CancelInternal(id) /\ call' = Idle /\ UNCHANGED <<market, tape>> /\ Unfilled
  BY <1>1 DEF MatchEndCancel
<1>3. id \in DOMAIN orders /\ orders[id].status # "filled"
  <2>1. id \in DOMAIN orders /\ orders[id].remaining > 0 /\ orders[id].remaining \in Nat
    BY <1>1, <1>2 DEF BookInv, Inv, TypeOK, Unfilled, Order
  <2> QED BY <2>1 DEF BookInv, Inv, ClosedIffEmpty
<1>4. /\ Mirror(levels', orders') /\ FillsMatchTape' /\ Evolves(orders, orders')
      /\ Follows(escrow, escrow', orders, orders') /\ TopFresh' /\ DOMAIN orders' = DOMAIN orders
      /\ orders'[id].status = "cancelled"
  BY <1>2, <1>3, CancelInternalKeeps
<1>5. CallInv'
  BY <1>2 DEF CallInv, Idle
<1> QED BY <1>1, <1>2, <1>3, <1>4, <1>5 DEF BookKept, BookInv

\* A turn of the matching loop.
LEMMA MatchStepKeeps ==
    ASSUME BookInv, Inv', MatchStep
    PROVE  BookKept
<1>1. /\ CanMatch /\ UNCHANGED <<market, outcome>> /\ call.op = "match"
      /\ call' = [call EXCEPT !.left = @ - 1, !.index = @ + 1]
  BY DEF MatchStep
<1>2. PICK b, a : /\ b = Head(levels["bid"][Best(levels, "bid")].ids)
                  /\ a = Head(levels["ask"][Best(levels, "ask")].ids)
                  /\ Trades(b, a)
  BY DEF MatchStep
<1>3. /\ Mirror(levels', orders') /\ FillsMatchTape' /\ Evolves(orders, orders')
      /\ Follows(escrow, escrow', orders, orders') /\ DOMAIN orders' = DOMAIN orders
      /\ \A id \in DOMAIN orders : orders'[id].status = "cancelled" => orders[id].status = "cancelled"
  BY <1>1, <1>2, TradeKeeps
<1>4. TopFresh'
  <2>1. PICK last : top' = TopOf(levels', last)
    BY <1>2 DEF Trades
  <2> QED BY <2>1, RecomputedTop
<1>5. CallInv'
  <2>1. call'.order = call.order
    BY <1>1 DEF BookInv, Inv, TypeOK
  <2>2. call.order # NoOrder => call.order \in DOMAIN orders
    BY DEF BookInv, Inv, TypeOK
  <2> QED BY <1>1, <1>3, <2>1, <2>2 DEF BookInv, CallInv
<1> QED BY <1>1, <1>3, <1>4, <1>5 DEF BookKept, BookInv

\* The other steps.
LEMMA OtherKeeps ==
    ASSUME BookInv, Inv', \/ CreateMarket
                          \/ \E budget \in Budgets : StartMatch(budget)
                          \/ MatchEnd
                          \/ NextBlock
                          \/ UNCHANGED vars
    PROVE  BookKept
<1>1. UNCHANGED <<orders, levels, tape, escrow>>
  BY DEF CreateMarket, StartMatch, MatchEnd, NextBlock, vars
<1>2. /\ Mirror(levels', orders') /\ FillsMatchTape'
      /\ Evolves(orders, orders') /\ Follows(escrow, escrow', orders, orders')
  BY <1>1, SameBook
<1>3. CASE CreateMarket
  <2>1. market = "none" /\ market' = "active" /\ call = Idle /\ UNCHANGED call
        /\ top' = [bid |-> NoPrice, ask |-> NoPrice, last |-> NoPrice]
    BY <1>3 DEF CreateMarket
  <2>2. Table(orders) /\ IsLevels(levels) /\ Mirror(levels, orders) /\ DOMAIN orders = {}
    BY <2>1, OrdersTable DEF BookInv, Inv, TypeOK
  <2>3. \A s \in Sides : Best(levels, s) = NoPrice
    BY <2>2, BestIsBest DEF LiveIn
  <2>4. TopFresh'
    BY <1>1, <2>1, <2>3 DEF TopFresh, Sides
  <2>5. CallInv'
    BY <2>1 DEF CallInv, Idle
  <2> QED BY <1>1, <1>2, <2>1, <2>4, <2>5 DEF BookKept, BookInv
<1>4. CASE \E budget \in Budgets : StartMatch(budget)
  <2>1. UNCHANGED <<market, top>> /\ outcome' = "ok" /\ call'.order = NoOrder
    BY <1>4 DEF StartMatch, Matching
  <2> QED BY <1>1, <1>2, <2>1 DEF BookKept, BookInv, CallInv, TopFresh
<1>5. CASE MatchEnd
  <2>1. UNCHANGED <<market, top>> /\ call' = Idle
    BY <1>5 DEF MatchEnd
  <2> QED BY <1>1, <1>2, <2>1 DEF BookKept, BookInv, CallInv, TopFresh, Idle
<1>6. CASE NextBlock
  <2>1. UNCHANGED <<market, top, call>> /\ call = Idle
    BY <1>6 DEF NextBlock
  <2> QED BY <1>1, <1>2, <2>1 DEF BookKept, BookInv, CallInv, TopFresh, Idle
<1>7. CASE UNCHANGED vars
  <2>1. UNCHANGED <<market, top, call, outcome>>
    BY <1>7 DEF vars
  <2> QED BY <1>1, <1>2, <2>1 DEF BookKept, BookInv, CallInv, TopFresh
<1> QED BY <1>3, <1>4, <1>5, <1>6, <1>7

\* Every step of the order book keeps the book.
LEMMA BookStep ==
    ASSUME BookInv, [Next]_vars
    PROVE  BookKept /\ ClosedKept
<1>1. Inv' /\ ClosedKept
  BY NextInv DEF BookInv
<1> QED BY <1>1, PlaceOrderKeeps, CancelOrderKeeps, MatchStepKeeps, MatchEndCancelKeeps, OtherKeeps
        DEF Next, Loop

-----------------------------------------------------------------------------
(* What a step of the order book does that the invariant does not say.        *)

\* The order at the head of the best level has priority over all on its side.
LEMMA HeadHasPriority ==
    ASSUME BookInv, NEW side \in Sides, NEW p, p = Best(levels, side), p # NoPrice,
           levels[side][p].ids # <<>>, NEW id, id = Head(levels[side][p].ids)
    PROVE  \A other \in Live(side) :
              ~ Better(side, orders[other].price, p) /\ (orders[other].price = p => id <= other)
<1>1. Inv /\ Table(orders) /\ IsLevels(levels) /\ Mirror(levels, orders)
  BY OrdersTable DEF BookInv, Inv, TypeOK
<1>2. Live(side) = LiveIn(orders, side)
  BY DEF Live, LiveIn
<1>3. p \in Nat /\ p \in DOMAIN levels[side]
      /\ \A other \in LiveIn(orders, side) : orders[other].price \in Nat /\ Ahead(side, p, orders[other].price)
  BY <1>1, BestIsBest
<1> DEFINE q == levels[side][p].ids
<1>4. q \in Seq(Nat)
  BY <1>1, <1>3 DEF IsLevels, Level
<1>5. Ascending(q) /\ \A x : Holds(q, x) <=> x \in LiveInAt(orders, side, p)
  BY <1>1, <1>3 DEF Mirror, Tells
<1>6. 1 \in DOMAIN q /\ Head(q) = q[1] /\ DOMAIN q = 1..Len(q) /\ Len(q) \in Nat
  <2> HIDE DEF q
  <2>1. Len(q) \in Nat \ {0}
    BY <1>4, EmptySeq DEF q
  <2> QED BY <1>4, <2>1, LenProperties
<1>7. ASSUME NEW other \in Live(side) PROVE ~ Better(side, orders[other].price, p)
  BY <1>2, <1>3, <1>7 DEF Ahead, Better, Sides
<1>8. ASSUME NEW other \in Live(side), orders[other].price = p PROVE id <= other
  <2>1. Holds(q, other)
    BY <1>2, <1>5, <1>8 DEF LiveInAt
  <2>2. PICK i \in DOMAIN q : q[i] = other
    BY <2>1 DEF Holds
  <2>3. id = q[1] /\ q[1] \in Nat /\ q[i] \in Nat
    BY <1>4, <1>6, ElementOfSeq
  <2>4. i = 1 \/ 1 < i
    BY <1>6
  <2> QED BY <1>5, <1>6, <2>2, <2>3, <2>4 DEF Ascending
<1> QED BY <1>7, <1>8

\* What PriceTimePriority says of a step.
PriorityKept ==
    Len(tape') > Len(tape) =>
        LET t == tape'[Len(tape')]
        IN  \A id \in {t.maker, t.taker} :
               LET o == orders[id]
               IN  \A other \in Live(o.side) :
                      /\ ~ Better(o.side, orders[other].price, o.price)
                      /\ orders[other].price = o.price => id <= other

\* A step that does not trade has nothing to answer for.
LEMMA NoTradeNoQuestion ==
    ASSUME BookInv, tape' = tape
    PROVE  PriorityKept
<1>1. Len(tape) \in Nat
  BY LenProperties DEF BookInv, Inv, TypeOK
<1>2. ~(Len(tape') > Len(tape))
  BY <1>1
<1> QED BY <1>2 DEF PriorityKept

\* Every trade is made for the orders with priority.
LEMMA PriorityStep ==
    ASSUME BookInv, [Next]_vars
    PROVE  PriorityKept
<1>1. CASE MatchStep
  <2>1. PICK b, a : /\ b = Head(levels["bid"][Best(levels, "bid")].ids)
                    /\ a = Head(levels["ask"][Best(levels, "ask")].ids)
                    /\ Trades(b, a) /\ CanMatch
    BY <1>1 DEF MatchStep
  <2>2. PICK bp, ap : bp = Best(levels, "bid") /\ ap = Best(levels, "ask")
    OBVIOUS
  <2>3. PICK t \in Trade : tape' = Append(tape, t) /\ {t.maker, t.taker} = {a, b}
    BY <2>1, TradeKeeps
  <2>4. /\ orders[b].side = "bid" /\ orders[a].side = "ask"
        /\ orders[b].price = bp /\ orders[a].price = ap
    BY <2>1, <2>2, TradeKeeps
  <2>5. /\ bp # NoPrice /\ ap # NoPrice
        /\ levels["bid"][bp].ids # <<>> /\ levels["ask"][ap].ids # <<>>
    BY <2>1, <2>2 DEF CanMatch
  <2>6. \A other \in Live("bid") :
           ~ Better("bid", orders[other].price, bp) /\ (orders[other].price = bp => b <= other)
    BY <2>1, <2>2, <2>5, HeadHasPriority DEF Sides
  <2>7. \A other \in Live("ask") :
           ~ Better("ask", orders[other].price, ap) /\ (orders[other].price = ap => a <= other)
    BY <2>1, <2>2, <2>5, HeadHasPriority DEF Sides
  <2>8. tape'[Len(tape')] = t
    <3>1. tape \in Seq(Trade)
      BY DEF BookInv, Inv, TypeOK
    <3> QED BY <2>3, <3>1, AppendProperties
  <2>9. ASSUME NEW id \in {t.maker, t.taker}, NEW other \in Live(orders[id].side)
        PROVE  /\ ~ Better(orders[id].side, orders[other].price, orders[id].price)
               /\ orders[other].price = orders[id].price => id <= other
    <3>1. CASE id = b
      BY <2>4, <2>6, <2>9, <3>1
    <3>2. CASE id = a
      BY <2>4, <2>7, <2>9, <3>2
    <3> QED BY <2>3, <3>1, <3>2
  <2> QED BY <2>8, <2>9 DEF PriorityKept
<1>2. CASE tape' = tape
  BY <1>2, NoTradeNoQuestion
<1> QED BY <1>1, <1>2 DEF Next, Loop, CreateMarket, PlaceOrder, CancelOrder, StartMatch, MatchEnd,
        MatchEndCancel, NextBlock, vars

\* A loop that has more turns to make and does not trade finds no bid at or above
\* an ask: the cached best prices are the best prices, and levels are not empty.
LEMMA NoCrossLeft ==
    ASSUME BookInv, TopFresh, ~ CanMatch, NEW b \in LiveIn(orders, "bid"), NEW a \in LiveIn(orders, "ask")
    PROVE  orders[b].price < orders[a].price
<1>1. Inv /\ Table(orders) /\ IsLevels(levels) /\ Mirror(levels, orders)
  BY OrdersTable DEF BookInv, Inv, TypeOK
<1>2. PICK bp, ap : bp = Best(levels, "bid") /\ ap = Best(levels, "ask")
  OBVIOUS
<1>3. /\ bp \in DOMAIN levels["bid"] /\ bp \in Nat /\ orders[b].price \in Nat /\ orders[b].price <= bp
  <2>1. /\ bp \in DOMAIN levels["bid"] /\ bp \in Nat
        /\ orders[b].price \in Nat /\ Ahead("bid", bp, orders[b].price)
    BY <1>1, <1>2, BestIsBest DEF Sides
  <2> QED BY <2>1 DEF Ahead
<1>4. /\ ap \in DOMAIN levels["ask"] /\ ap \in Nat /\ orders[a].price \in Nat /\ ap <= orders[a].price
  <2>1. /\ ap \in DOMAIN levels["ask"] /\ ap \in Nat
        /\ orders[a].price \in Nat /\ Ahead("ask", ap, orders[a].price)
    BY <1>1, <1>2, BestIsBest DEF Sides
  <2> QED BY <2>1 DEF Ahead
<1>5. ASSUME NEW side \in Sides, NEW p \in DOMAIN levels[side] PROVE levels[side][p].ids # <<>>
  <2>1. LiveInAt(orders, side, p) # {} /\ \A x : Holds(levels[side][p].ids, x) <=> x \in LiveInAt(orders, side, p)
    BY <1>1 DEF Mirror, Tells
  <2>2. \A x : ~ Holds(<<>>, x)
    BY DEF Holds
  <2> QED BY <2>1, <2>2
<1>6. levels["bid"][bp].ids # <<>> /\ levels["ask"][ap].ids # <<>>
  BY <1>3, <1>4, <1>5 DEF Sides
<1>7. bp # NoPrice /\ ap # NoPrice
  BY <1>3, <1>4, InputsAssumption
<1>8. top.bid = bp /\ top.ask = ap
  BY <1>2 DEF TopFresh
<1>9. ~(bp >= ap)
  BY <1>2, <1>6, <1>7, <1>8 DEF CanMatch
<1> QED BY <1>3, <1>4, <1>9

\* What a handler leaves when its matching loop ends.
LEMMA CleanStep ==
    ASSUME BookInv, TopFresh, [Next]_vars
    PROVE  DrainsTheCross /\ ImmediateOrdersNeverRest
<1>1. BookInv' /\ Evolves(orders, orders')
  BY BookStep DEF BookKept
<1>2. CASE MatchEnd \/ MatchEndCancel
  <2>1. DOMAIN orders' = DOMAIN orders /\ LoopOver
    <3>1. CASE MatchEnd
      BY <3>1 DEF MatchEnd
    <3>2. CASE MatchEndCancel
      <4>1. call.order \in DOMAIN orders
        BY <1>1, <3>2, MatchEndCancelKeeps DEF BookInv
      <4>2. DOMAIN orders' = DOMAIN orders
        BY <3>2, <4>1 DEF MatchEndCancel, CancelInternal
      <4> QED BY <3>2, <4>2 DEF MatchEndCancel
    <3> QED BY <1>2, <3>1, <3>2
  <2>2. DrainsTheCross
    <3> SUFFICES ASSUME call.op = "match", call.left > 0, NEW b \in Live("bid")', NEW a \in Live("ask")'
                 PROVE  orders'[b].price < orders'[a].price
      BY DEF DrainsTheCross
    <3>1. ~ CanMatch
      <4>1. call.left # 0
        BY DEF BookInv, Inv, TypeOK
      <4> QED BY <2>1, <4>1 DEF LoopOver
    <3>2. /\ b \in LiveIn(orders, "bid") /\ orders'[b].price = orders[b].price
          /\ a \in LiveIn(orders, "ask") /\ orders'[a].price = orders[a].price
      BY <1>1, <2>1 DEF Live, LiveIn, Evolves
    <3> QED BY <3>1, <3>2, NoCrossLeft
  <2>3. CASE MatchEnd
    <3>1. ~ Unfilled /\ UNCHANGED <<orders, outcome>>
      BY <2>3 DEF MatchEnd
    <3>2. ASSUME call.op = "match", call.order # NoOrder
          PROVE  orders[call.order].status = "filled" /\ outcome = "ok"
      <4>1. call.order \in DOMAIN orders /\ orders[call.order] \in Order
        BY <3>2 DEF BookInv, Inv, TypeOK
      <4>2. orders[call.order].remaining = 0
        BY <3>1, <3>2, <4>1 DEF Unfilled, Order
      <4>3. orders[call.order].status \in {"filled", "cancelled"}
        BY <4>1, <4>2 DEF BookInv, Inv, ClosedIffEmpty
      <4> QED BY <3>2, <4>3 DEF BookInv, CallInv
    <3>3. ImmediateOrdersNeverRest
      BY <3>1, <3>2 DEF ImmediateOrdersNeverRest
    <3> QED BY <2>2, <3>3
  <2>4. CASE MatchEndCancel
    <3>1. orders'[call.order].status = "cancelled"
      BY <1>1, <2>4, MatchEndCancelKeeps DEF BookInv
    <3>2. call.fok => outcome' = "throw"
      BY <2>4 DEF MatchEndCancel
    <3>3. ImmediateOrdersNeverRest
      BY <3>1, <3>2 DEF ImmediateOrdersNeverRest
    <3> QED BY <2>2, <3>3
  <2> QED BY <1>2, <2>3, <2>4
<1>3. CASE call.op # "match" \/ call'.op # "idle"
  BY <1>3 DEF DrainsTheCross, ImmediateOrdersNeverRest
<1>4. ASSUME call.op = "match", call'.op = "idle" PROVE MatchEnd \/ MatchEndCancel
  <2>1. call # Idle
    BY <1>4 DEF Idle
  <2>2. ~ MatchStep
    BY <1>4 DEF MatchStep, BookInv, Inv, TypeOK
  <2>3. call' # call
    BY <1>4
  <2> QED BY <2>1, <2>2, <2>3 DEF Next, Loop, CreateMarket, PlaceOrder, CancelOrder, StartMatch, NextBlock, vars
<1> QED BY <1>2, <1>3, <1>4

-----------------------------------------------------------------------------
(* What a grid plans to place.                                                *)

\* What the levels still to be placed lock, with and without the next one.
LEMMA LockedFacts ==
    ASSUME NEW todo \in Seq(GridLevel), NEW n \in Nat, NEW s \in Sides
    PROVE  /\ Locked(todo, n, s) \in Int
           /\ n \in DOMAIN todo =>
                 Locked(todo, n, s) = Locked(todo, n + 1, s)
                    + (IF todo[n].side = s THEN LockedFor(s, todo[n].price, todo[n].size) ELSE 0)
           /\ n > Len(todo) => Locked(todo, n, s) = 0
<1> DEFINE v == [i \in DOMAIN todo |-> LockedFor(s, todo[i].price, todo[i].size)]
           From(m) == {i \in DOMAIN todo : i >= m /\ todo[i].side = s}
<1>1. DOMAIN todo = 1..Len(todo) /\ Len(todo) \in Nat /\ \A i \in DOMAIN todo : todo[i] \in GridLevel
  BY LenProperties, ElementOfSeq
<1>2. \A i \in DOMAIN todo : v[i] = LockedFor(s, todo[i].price, todo[i].size) /\ v[i] \in Int
  BY <1>1, LockedForNat DEF GridLevel
<1>3. \A m : Summable(v, From(m))
  <2>1. IsFiniteSet(DOMAIN todo)
    BY <1>1, FS_Interval
  <2>2. \A m : IsFiniteSet(From(m))
    <3> SUFFICES ASSUME NEW m PROVE IsFiniteSet(From(m))
      OBVIOUS
    <3>1. From(m) \subseteq DOMAIN todo
      OBVIOUS
    <3> QED BY <2>1, <3>1, FS_Subset
  <2> QED BY <1>2, <2>2 DEF Summable
<1>4. \A m : Locked(todo, m, s) = SumFunctionOnSet(v, From(m)) /\ SumFunctionOnSet(v, From(m)) \in Int
  <2>1. \A m : SumFunctionOnSet(v, From(m)) \in Int
    BY <1>3, SumFacts
  <2> QED BY <2>1 DEF Locked
<1>5. ASSUME n \in DOMAIN todo
      PROVE  Locked(todo, n, s) = Locked(todo, n + 1, s)
                + (IF todo[n].side = s THEN LockedFor(s, todo[n].price, todo[n].size) ELSE 0)
  <2>1. PICK S, R : S = From(n) /\ R = From(n + 1)
    OBVIOUS
  <2>2. \A y : y # n => (y \in S <=> y \in R)
    BY <1>1, <2>1
  <2>3. n \notin R /\ (n \in S <=> todo[n].side = s)
    BY <1>1, <1>5, <2>1
  <2>4. Summable(v, S) /\ Summable(v, R)
    BY <1>3, <2>1
  <2> HIDE DEF v, From
  <2>5. /\ SumFunctionOnSet(v, S) \in Int /\ SumFunctionOnSet(v, R) \in Int
        /\ SumFunctionOnSet(v, R) = SumFunctionOnSet(v, S) - (IF n \in S THEN v[n] ELSE 0)
                                                           + (IF n \in R THEN v[n] ELSE 0)
    <3>1. PICK x, u, w : x = n /\ u = v /\ w = v
      OBVIOUS
    <3>2. /\ Summable(u, S) /\ Summable(w, R)
          /\ \A y : y # x => (y \in S <=> y \in R)
          /\ \A y \in S : y # x => w[y] = u[y]
      BY <2>2, <2>4, <3>1
    <3>4. /\ SumFunctionOnSet(u, S) \in Int /\ SumFunctionOnSet(w, R) \in Int
          /\ SumFunctionOnSet(w, R) = SumFunctionOnSet(u, S) - (IF x \in S THEN u[x] ELSE 0)
                                                             + (IF x \in R THEN w[x] ELSE 0)
      BY <3>2, SumDiffersAt
    <3> QED BY <3>1, <3>4
  <2>6. /\ (IF n \in R THEN v[n] ELSE 0) = 0
        /\ (IF n \in S THEN v[n] ELSE 0) =
              (IF todo[n].side = s THEN LockedFor(s, todo[n].price, todo[n].size) ELSE 0)
    BY <1>2, <1>5, <2>3
  <2>7. (IF n \in S THEN v[n] ELSE 0) \in Int
    BY <1>2, <1>5
  <2>8. SumFunctionOnSet(v, S) = SumFunctionOnSet(v, R) + (IF n \in S THEN v[n] ELSE 0)
    BY <2>5, <2>6, <2>7
  <2>9. Locked(todo, n, s) = SumFunctionOnSet(v, S) /\ Locked(todo, n + 1, s) = SumFunctionOnSet(v, R)
    BY <1>4, <2>1
  <2> QED BY <2>6, <2>8, <2>9
<1>6. ASSUME n > Len(todo) PROVE Locked(todo, n, s) = 0
  <2>1. From(n) = {}
    BY <1>1, <1>6
  <2>2. SumFunctionOnSet(v, {}) = 0
    BY <1>3, SumFacts
  <2> QED BY <1>4, <2>1, <2>2
<1> QED BY <1>4, <1>5, <1>6

\* The levels of a grid, whatever its parameters, are levels of positive size.
LEMMA GridLevelsType ==
    ASSUME NEW p \in GridParams, ValidParams(p)
    PROVE  GridLevels(p) \in Seq(GridLevel) /\ \A i \in DOMAIN GridLevels(p) : GridLevels(p)[i].size > 0
<1> DEFINE At(side, i) == [side |-> side, price |-> GridPrice(p, side, i), size |-> SizePerLevel(p)]
           Pairs == [k \in 1..(2 * p.levelsPerSide) |->
                        At(IF k % 2 = 1 THEN "bid" ELSE "ask", (k + 1) \div 2)]
           Wanted == {l \in GridLevel : l.side \in p.sideBias /\ (l.side = "bid" => l.price > 0)}
<1>1. PICK n \in Nat : n = 2 * p.levelsPerSide
  BY GridAssumption DEF GridParam
<1>2. DOMAIN Pairs = 1..n /\ \A k \in 1..n : Pairs[k].size = SizePerLevel(p)
  BY <1>1
<1>3. SizePerLevel(p) > 0
  BY GridSizeAssumption
<1>4. PICK P, W : P = Pairs /\ W = Wanted
  OBVIOUS
<1>5. P = [k \in 1..n |-> P[k]]
  BY <1>1, <1>4
<1>6. GridLevels(p) = Filtered(P, W) /\ W \subseteq GridLevel
  BY <1>4 DEF GridLevels
<1>7. DOMAIN P = 1..n /\ \A k \in 1..n : P[k].size = SizePerLevel(p)
  BY <1>2, <1>4
<1> HIDE DEF Pairs, Wanted
<1>8. PICK X : X = {P[k] : k \in 1..n}
  OBVIOUS
<1>9. P \in Seq(X)
  <2>1. P \in [1..n -> X]
    BY <1>5, <1>7, <1>8
  <2> QED BY <2>1, SeqDef
<1>10. PICK F : F = Filtered(P, W)
  OBVIOUS
<1>11. F \in Seq(X)
  BY <1>9, <1>10, FilteredProperties
<1>12. \A k \in DOMAIN F : \E i \in DOMAIN P : F[k] = P[i] /\ P[i] \in W
  BY <1>9, <1>10, FilteredProperties
<1>13. F = [k \in 1..Len(F) |-> F[k]] /\ DOMAIN F = 1..Len(F) /\ Len(F) \in Nat
  BY <1>11, LenProperties, SeqDef
<1>14. \A k \in DOMAIN F : F[k] \in GridLevel /\ F[k].size > 0
  BY <1>3, <1>6, <1>7, <1>12
<1>15. F \in Seq(GridLevel)
  <2>1. F \in [1..Len(F) -> GridLevel]
    BY <1>13, <1>14
  <2> QED BY <1>13, <2>1, SeqDef
<1> QED BY <1>6, <1>10, <1>14, <1>15

-----------------------------------------------------------------------------
(* The inductive invariant of the order book with grids.                      *)

\* What the levels of a grid being created will still lock for a trader.
Pending(s, t) ==
    IF Under("create") /\ work.owner = t THEN Locked(work.todo, Placing, s) ELSE 0

Covered ==
    \A t \in Traders :
        /\ escrow[t]["base"] = Owed(orders, "ask", t) + Pending("ask", t)
        /\ escrow[t]["quote"] >= Owed(orders, "bid", t) + Pending("bid", t)

GridRecord == [owner : Traders, orderIds : Seq(Nat), status : {"active", "cancelled"}]
Ids(g) == ToSet(grids[g].orderIds)
IsLive(id) == orders[id].status \in {"open", "partial"}

GridTyped ==
    /\ DOMAIN grids \subseteq Nat
    /\ grids \in [DOMAIN grids -> GridRecord]
    /\ work = NoWork \/ work \in Creation \/ work \in Cancellation

\* A grid handler runs alone; the one that creates does in an active market, and
\* places orders of positive size, its own and no other grid's; the one that
\* cancels has every order of its grid that is still live before it.
WorkOK ==
    /\ work # NoWork => call = Idle
    /\ Under("create") =>
          /\ market = "active"
          /\ \A i \in DOMAIN work.todo : work.todo[i].size > 0
          /\ \A id \in ToSet(work.made) : id \in DOMAIN orders /\ orders[id].owner = work.owner
          /\ \A g \in DOMAIN grids : Ids(g) \cap ToSet(work.made) = {}
    /\ Under("cancel") =>
          /\ work.id \in DOMAIN grids
          /\ ToSet(work.todo) \subseteq Ids(work.id)
          /\ \A id \in Ids(work.id) : IsLive(id) => id \in ToSet(work.todo)

\* The orders of a grid exist and are its owner's, those of a cancelled grid are
\* closed, and no order is of two grids.
GridsApart ==
    \A g \in DOMAIN grids :
        /\ \A id \in Ids(g) : /\ id \in DOMAIN orders /\ orders[id].owner = grids[g].owner
                              /\ grids[g].status = "cancelled" => ~ IsLive(id)
        /\ \A h \in DOMAIN grids \ {g} : Ids(g) \cap Ids(h) = {}

TopKnown == Under("create") \/ TopFresh

GridInv == BookInv /\ TopKnown /\ Covered /\ GridTyped /\ WorkOK /\ GridsApart

\* What a queue holds with one more order, and without its first.
LEMMA QueueSets ==
    ASSUME NEW q \in Seq(Nat)
    PROVE  /\ \A id \in Nat : Append(q, id) \in Seq(Nat) /\ ToSet(Append(q, id)) = ToSet(q) \cup {id}
           /\ q # <<>> => /\ Tail(q) \in Seq(Nat) /\ Head(q) \in Nat
                          /\ ToSet(q) = ToSet(Tail(q)) \cup {Head(q)}
<1>1. ASSUME NEW id \in Nat PROVE Append(q, id) \in Seq(Nat) /\ ToSet(Append(q, id)) = ToSet(q) \cup {id}
  <2>1. PICK A : A = Append(q, id)
    OBVIOUS
  <2>2. PICK n \in Nat : n = Len(q)
    BY LenProperties
  <2>3. /\ A \in Seq(Nat) /\ DOMAIN A = 1..n + 1 /\ DOMAIN q = 1..n
        /\ \A i \in 1..n : A[i] = q[i]
        /\ A[n + 1] = id
    BY <2>1, <2>2, AppendProperties, LenProperties
  <2>4. \A i : i \in 1..n + 1 <=> i \in 1..n \/ i = n + 1
    BY <2>2
  <2>5. ToSet(A) = ToSet(q) \cup {id}
    BY <2>3, <2>4 DEF ToSet
  <2> QED BY <2>1, <2>3, <2>5
<1>2. ASSUME q # <<>>
      PROVE  /\ Tail(q) \in Seq(Nat) /\ Head(q) \in Nat
             /\ ToSet(q) = ToSet(Tail(q)) \cup {Head(q)}
  <2>1. PICK T, n : T = Tail(q) /\ n = Len(q)
    OBVIOUS
  <2>2. /\ n \in Nat \ {0} /\ T \in Seq(Nat) /\ Len(T) = n - 1 /\ Head(q) = q[1]
        /\ DOMAIN q = 1..n /\ \A i \in 1..n : q[i] \in Nat
    BY <1>2, <2>1, EmptySeq, LenProperties, ElementOfSeq, HeadTailProperties
  <2>3. DOMAIN T = 1..n - 1
    BY <2>2, LenProperties
  <2>4. \A i \in 1..n - 1 : T[i] = q[i + 1]
    BY <1>2, <2>1, <2>2, HeadTailProperties
  <2>5. ASSUME NEW i \in 1..n PROVE i = 1 \/ \E k \in 1..n - 1 : k + 1 = i
    <3>1. CASE i # 1
      <4>1. i - 1 \in 1..n - 1 /\ (i - 1) + 1 = i
        BY <2>2, <3>1
      <4> QED BY <4>1
    <3> QED BY <3>1
  <2>6. 1 \in 1..n /\ \A k \in 1..n - 1 : k + 1 \in 1..n
    BY <2>2
  <2>7. ToSet(q) \subseteq ToSet(T) \cup {Head(q)}
    <3> SUFFICES ASSUME NEW i \in 1..n PROVE q[i] \in ToSet(T) \cup {Head(q)}
      BY <2>2 DEF ToSet
    <3>1. CASE i = 1
      BY <2>2, <3>1
    <3>2. CASE i # 1
      <4>1. PICK k \in 1..n - 1 : k + 1 = i
        BY <2>5, <3>2
      <4> QED BY <2>3, <2>4, <4>1 DEF ToSet
    <3> QED BY <3>1, <3>2
  <2>8. ToSet(T) \cup {Head(q)} \subseteq ToSet(q)
    BY <2>2, <2>3, <2>4, <2>6 DEF ToSet
  <2> QED BY <2>1, <2>2, <2>7, <2>8
<1> QED BY <1>1, <1>2

\* Which handler is under way, by the shape of its state.
LEMMA WorkShapes ==
    ASSUME GridTyped
    PROVE  /\ Under("create") => work \in Creation
           /\ Under("cancel") => work \in Cancellation
           /\ ~(Under("create") /\ Under("cancel"))
BY DEF GridTyped, Under, Creation, Cancellation

\* The steps of a grid handler that leave the orders, their levels and the tape
\* alone keep the order book's own invariant.
LEMMA GridKeepsInv ==
    ASSUME Inv, UNCHANGED <<market, orders, levels, trades, tape, height, call>>,
           nextId' \in Nat, nextId <= nextId', escrow' \in [Traders -> [Tokens -> Int]],
           top' \in [bid : Price, ask : Price, last : Price], outcome' \in {"ok", "throw"}
    PROVE  Inv'
<1>1. Queues(levels, orders)' /\ ClosedIffEmpty' /\ TapeOK'
  BY TapeKept DEF Inv, Queues, ClosedIffEmpty
<1>2. DOMAIN orders' \subseteq 0..(nextId' - 1)
  BY DEF Inv, TypeOK
<1>3. TypeOK'
  BY <1>2 DEF Inv, TypeOK
<1> QED BY <1>1, <1>3 DEF Inv

\* An empty market satisfies the invariant.
LEMMA GridInitInv == GridInit => GridInv
<1> SUFFICES ASSUME GridInit PROVE GridInv
  OBVIOUS
<1>1. Inv /\ DOMAIN orders = {} /\ DOMAIN grids = {} /\ work = NoWork /\ call = Idle /\ tape = <<>>
  BY InitInv DEF GridInit, Init
<1>2. levels = [s \in Sides |-> [p \in {} |-> Idle]]
  BY DEF GridInit, Init
<1>3. Mirror(levels, orders)
  BY <1>1, <1>2 DEF Mirror, LiveInAt, LiveIn
<1>4. FillsMatchTape
  BY <1>1 DEF FillsMatchTape
<1>5. BookInv
  BY <1>1, <1>3, <1>4 DEF BookInv, CallInv, Idle
<1>6. TopFresh
  <2>1. Table(orders) /\ IsLevels(levels)
    BY <1>1, OrdersTable DEF Inv, TypeOK
  <2>2. \A s \in Sides : Best(levels, s) = NoPrice
    BY <1>1, <1>3, <2>1, BestIsBest DEF LiveIn
  <2> QED BY <2>2 DEF TopFresh, GridInit, Init, Sides
<1>7. Covered
  <2> SUFFICES ASSUME NEW t \in Traders
               PROVE  /\ escrow[t]["base"] = Owed(orders, "ask", t) + Pending("ask", t)
                      /\ escrow[t]["quote"] >= Owed(orders, "bid", t) + Pending("bid", t)
    BY DEF Covered
  <2>1. escrow[t]["base"] = 0 /\ escrow[t]["quote"] = 0
    BY DEF GridInit, Init, Tokens
  <2>2. \A s : Pending(s, t) = 0
    BY <1>1 DEF Pending, Under
  <2>3. \A s : Owed(orders, s, t) = 0
    <3>1. \A s : OwnIn(orders, s, t) = {}
      BY <1>1 DEF OwnIn, LiveIn
    <3>2. \A v : Summable(v, {})
      BY FS_EmptySet DEF Summable
    <3> QED BY <3>1, <3>2, SumFacts DEF Owed
  <2> QED BY <2>1, <2>2, <2>3
<1>8. GridTyped
  BY <1>1 DEF GridTyped, GridInit
<1>9. WorkOK /\ GridsApart
  BY <1>1 DEF WorkOK, GridsApart, Under
<1> QED BY <1>5, <1>6, <1>7, <1>8, <1>9 DEF GridInv, TopKnown

\* Grids stay apart while orders evolve.
LEMMA ApartKept ==
    ASSUME GridsApart, Evolves(orders, orders'), grids' = grids
    PROVE  GridsApart'
BY DEF GridsApart, Evolves, Ids, IsLive

\* What is locked stays enough while it follows what is owed and no grid is being made.
LEMMA CoveredKept ==
    ASSUME GridInv, BookInv', Follows(escrow, escrow', orders, orders'),
           ~ Under("create"), ~ Under("create")'
    PROVE  Covered'
<1> SUFFICES ASSUME NEW t \in Traders
             PROVE  /\ escrow'[t]["base"] = Owed(orders', "ask", t) + Pending("ask", t)'
                    /\ escrow'[t]["quote"] >= Owed(orders', "bid", t) + Pending("bid", t)'
  BY DEF Covered, Owed
<1>1. Table(orders) /\ Table(orders')
  BY OrdersTable, OrdersTableNext DEF GridInv, BookInv
<1>2. "base" \in Tokens /\ "quote" \in Tokens /\ "bid" \in Sides /\ "ask" \in Sides
  BY DEF Tokens, Sides
<1>3. \A s \in Sides : Owed(orders, s, t) \in Int /\ Owed(orders', s, t) \in Int
  BY <1>1, OwedInt
<1>4. \A k \in Tokens : escrow[t][k] \in Int /\ escrow'[t][k] \in Int
  BY DEF GridInv, BookInv, Inv, TypeOK
<1>5. \A s : Pending(s, t) = 0 /\ Pending(s, t)' = 0
  BY DEF Pending
<1>6. /\ escrow[t]["base"] = Owed(orders, "ask", t) + Pending("ask", t)
      /\ escrow[t]["quote"] >= Owed(orders, "bid", t) + Pending("bid", t)
  BY DEF GridInv, Covered
<1>7. /\ escrow'[t]["base"] - Owed(orders', "ask", t) = escrow[t]["base"] - Owed(orders, "ask", t)
      /\ escrow'[t]["quote"] - Owed(orders', "bid", t) >= escrow[t]["quote"] - Owed(orders, "bid", t)
  BY DEF Follows
<1> QED BY <1>2, <1>3, <1>4, <1>5, <1>6, <1>7

\* An instruction on orders.
LEMMA OrderInstructionKeeps ==
    ASSUME GridInv, OrderInstruction
    PROVE  GridInv' /\ ClosedKept
<1>1. work = NoWork /\ work' = NoWork /\ grids' = grids /\ Next
  BY DEF OrderInstruction
<1>2. /\ BookInv' /\ Evolves(orders, orders') /\ Follows(escrow, escrow', orders, orders')
      /\ ClosedKept /\ (TopFresh => TopFresh')
  BY <1>1, BookStep DEF GridInv, BookKept
<1>3. ~ Under("create") /\ ~ Under("create")' /\ ~ Under("cancel")'
  BY <1>1 DEF Under
<1>4. TopFresh'
  BY <1>2, <1>3 DEF GridInv, TopKnown
<1>5. Covered'
  BY <1>2, <1>3, CoveredKept
<1>6. GridTyped' /\ GridsApart'
  BY <1>1, <1>2, ApartKept DEF GridInv, GridTyped
<1>7. WorkOK'
  BY <1>1, <1>3 DEF WorkOK
<1>8. TopKnown'
  BY <1>4 DEF TopKnown
<1>9. BookInv' /\ ClosedKept
  BY <1>2
<1>10. GridInv'
  BY <1>5, <1>6, <1>7, <1>8, <1>9 DEF GridInv
<1> QED BY <1>9, <1>10

\* SYS.MKT_GRID_CREATE, up to its loop: everything the levels will lock is locked.
LEMMA GridCreateKeeps ==
    ASSUME GridInv, NEW t \in Traders, NEW p \in GridParams, GridCreate(t, p)
    PROVE  GridInv'
<1>1. PICK todo : todo = GridLevels(p)
  OBVIOUS
<1>2. PICK base, quote : base = Locked(todo, 1, "ask") /\ quote = Locked(todo, 1, "bid")
  OBVIOUS
<1>3. /\ call = Idle /\ work = NoWork /\ market = "active" /\ ValidParams(p)
      /\ escrow' = AdjustEscrow(AdjustEscrow(escrow, t, "base", base), t, "quote", quote)
      /\ nextId' = nextId + 1 /\ outcome' = "ok"
      /\ work' = [op |-> "create", id |-> nextId, owner |-> t, todo |-> todo, made |-> <<>>]
      /\ UNCHANGED <<market, orders, levels, top, trades, tape, height, call, grids>>
  BY <1>1, <1>2 DEF GridCreate
<1>4. todo \in Seq(GridLevel) /\ \A i \in DOMAIN todo : todo[i].size > 0
  BY <1>1, <1>3, GridLevelsType
<1>5. "base" \in Tokens /\ "quote" \in Tokens /\ "bid" \in Sides /\ "ask" \in Sides /\ 1 \in Nat
  BY DEF Tokens, Sides
<1>6. base \in Int /\ quote \in Int
  BY <1>2, <1>4, <1>5, LockedFacts
<1>7. /\ Inv /\ nextId \in Nat /\ escrow \in [Traders -> [Tokens -> Int]]
      /\ top \in [bid : Price, ask : Price, last : Price]
  BY DEF GridInv, BookInv, Inv, TypeOK
<1>8. PICK e1 : e1 = AdjustEscrow(escrow, t, "base", base)
  OBVIOUS
<1>9. e1 \in [Traders -> [Tokens -> Int]]
  BY <1>5, <1>6, <1>7, <1>8, AdjustEscrowType
<1>10. escrow' = AdjustEscrow(e1, t, "quote", quote) /\ escrow' \in [Traders -> [Tokens -> Int]]
  BY <1>3, <1>5, <1>6, <1>8, <1>9, AdjustEscrowType
<1>11. Inv'
  <2>1. nextId' \in Nat /\ nextId <= nextId'
    BY <1>3, <1>7
  <2> QED BY <1>3, <1>7, <1>10, <2>1, GridKeepsInv
<1>12. Mirror(levels', orders') /\ FillsMatchTape'
  BY <1>3, FillsByOrder, FillsByOrderNext DEF GridInv, BookInv
<1>13. BookInv'
  BY <1>3, <1>11, <1>12 DEF GridInv, BookInv, CallInv, Idle
<1>14. work' \in Creation /\ Under("create")' /\ ~ Under("cancel")'
  <2>1. <<>> \in Seq(Nat)
    OBVIOUS
  <2>2. work' \in Creation
    BY <1>3, <1>4, <1>7, <2>1 DEF Creation
  <2>3. work' # NoWork
    BY <2>2, GridAssumption
  <2> QED BY <1>3, <2>2, <2>3 DEF Under
<1>15. GridTyped'
  BY <1>3, <1>14 DEF GridInv, GridTyped
<1>16. WorkOK'
  <2>1. ToSet(work'.made) = {} /\ work'.todo = todo
    BY <1>3 DEF ToSet
  <2> QED BY <1>3, <1>4, <1>14, <2>1 DEF WorkOK
<1>17. GridsApart'
  BY <1>3 DEF GridInv, GridsApart, Ids, IsLive
<1>18. Covered'
  <2> SUFFICES ASSUME NEW u \in Traders
               PROVE  /\ escrow'[u]["base"] = Owed(orders', "ask", u) + Pending("ask", u)'
                      /\ escrow'[u]["quote"] >= Owed(orders', "bid", u) + Pending("bid", u)'
    BY DEF Covered, Owed
  <2>1. Placing' = 1 /\ work'.owner = t /\ work'.todo = todo
    BY <1>3 DEF Placing
  <2>2. /\ Pending("ask", u)' = (IF u = t THEN base ELSE 0)
        /\ Pending("bid", u)' = (IF u = t THEN quote ELSE 0)
    BY <1>2, <1>14, <2>1 DEF Pending
  <2>3. /\ e1[u]["base"] = escrow[u]["base"] + (IF u = t THEN base ELSE 0)
        /\ e1[u]["quote"] = escrow[u]["quote"] + 0
    BY <1>5, <1>6, <1>7, <1>8, EscrowAdjusted
  <2>4. /\ escrow'[u]["base"] = e1[u]["base"] + 0
        /\ escrow'[u]["quote"] = e1[u]["quote"] + (IF u = t THEN quote ELSE 0)
    BY <1>5, <1>6, <1>9, <1>10, EscrowAdjusted
  <2>5. /\ escrow[u]["base"] = Owed(orders, "ask", u) + Pending("ask", u)
        /\ escrow[u]["quote"] >= Owed(orders, "bid", u) + Pending("bid", u)
    BY DEF GridInv, Covered
  <2>6. Pending("ask", u) = 0 /\ Pending("bid", u) = 0
    BY <1>3 DEF Pending, Under
  <2>7. escrow[u]["base"] \in Int /\ escrow[u]["quote"] \in Int
    BY <1>5, <1>7
  <2>8. /\ Owed(orders, "ask", u) \in Int /\ Owed(orders, "bid", u) \in Int
        /\ Owed(orders', "ask", u) = Owed(orders, "ask", u)
        /\ Owed(orders', "bid", u) = Owed(orders, "bid", u)
    BY <1>3, <1>5, <1>7, OrdersTable, OwedInt
  <2> QED BY <1>6, <2>2, <2>3, <2>4, <2>5, <2>6, <2>7, <2>8
<1> QED BY <1>13, <1>14, <1>15, <1>16, <1>17, <1>18 DEF GridInv, TopKnown

\* One turn of the loop that creates a grid: the order takes over what its level
\* still had to lock.
LEMMA GridPlaceKeeps ==
    ASSUME GridInv, GridPlace
    PROVE  GridInv' /\ ClosedKept
<1>1. /\ work \in Creation /\ Under("create") /\ ~ Under("cancel") /\ work # NoWork
      /\ call = Idle /\ market = "active"
      /\ \A i \in DOMAIN work.todo : work.todo[i].size > 0
  BY WorkShapes DEF GridInv, GridPlace, WorkOK, Under
<1>2. PICK id, n, t, todo, made :
         id = nextId /\ n = Placing /\ t = work.owner /\ todo = work.todo /\ made = work.made
  OBVIOUS
<1>3. PICK side, price, size :
         side = todo[n].side /\ price = todo[n].price /\ size = todo[n].size
  OBVIOUS
<1>4. /\ t \in Traders /\ todo \in Seq(GridLevel) /\ made \in Seq(Nat) /\ n = Len(made) + 1
      /\ n <= Len(todo)
  BY <1>1, <1>2 DEF Creation, GridPlace, Placing
<1>5. /\ n \in Nat /\ n \in DOMAIN todo
      /\ side \in Sides /\ price \in Nat /\ size \in Nat \ {0}
  <2>1. Len(made) \in Nat /\ Len(todo) \in Nat /\ DOMAIN todo = 1..Len(todo)
    BY <1>4, LenProperties
  <2>2. n \in Nat /\ n \in DOMAIN todo
    BY <1>4, <2>1
  <2>3. todo[n] \in GridLevel
    BY <1>4, <2>1, <2>2, ElementOfSeq
  <2> QED BY <1>1, <1>2, <1>3, <2>2, <2>3 DEF GridLevel
<1>6. PICK O2 : O2 = WithOrder(id, NewOrder(t, side, price, size))
  OBVIOUS
<1>7. /\ orders' = O2 /\ levels' = LevelAdd(levels, side, price, size, id) /\ nextId' = id + 1
      /\ work' = [work EXCEPT !.made = Append(@, nextId)]
      /\ UNCHANGED <<market, top, escrow, trades, tape, height, call, outcome, grids>>
  BY <1>2, <1>3, <1>6 DEF GridPlace
<1>8. /\ work' \in Creation /\ work'.made = Append(made, id) /\ work'.todo = todo /\ work'.owner = t
      /\ id \in Nat
  <2>1. id \in Nat
    BY <1>2 DEF GridInv, BookInv, Inv, TypeOK
  <2>2. work' = [work EXCEPT !.made = Append(made, id)] /\ Append(made, id) \in Seq(Nat)
    BY <1>2, <1>4, <1>7, <2>1, QueueSets
  <2> QED BY <1>1, <1>2, <2>1, <2>2 DEF Creation
<1>9. Under("create")' /\ ~ Under("cancel")' /\ work' # NoWork
  BY <1>8, GridAssumption DEF Under, Creation
<1>10. /\ Inv /\ BookInv /\ FillsMatchTape /\ escrow \in [Traders -> [Tokens -> Int]] /\ Table(orders)
       /\ IsLevels(levels) /\ Queues(levels, orders)
  BY OrdersTable DEF GridInv, BookInv, Inv, TypeOK
<1>11. /\ Table(O2) /\ Writes(orders, O2, id) /\ Evolves(orders, O2) /\ id \notin DOMAIN orders
       /\ O2[id].owner = t /\ O2[id].side = side /\ O2[id].price = price
       /\ O2[id].remaining = size /\ O2[id].status = "open"
       /\ IsLevels(levels')
       /\ Mirror(levels', O2)
       /\ FillOK(O2[id], Traded(tape, id))
  BY <1>2, <1>5, <1>4, <1>6, <1>7, <1>10, AddKeeps
<1>12. /\ DOMAIN O2 = DOMAIN orders \cup {id}
       /\ \A other \in DOMAIN orders : O2[other] = orders[other]
       /\ O2 \in [DOMAIN O2 -> Order]
  <2>1. O2 = [i \in DOMAIN O2 |-> O2[i]]
    BY <1>6 DEF WithOrder
  <2> QED BY <1>11, <2>1 DEF Writes, Table
<1>13. Inv'
  <2>1. Queues(levels', O2)
    BY <1>5, <1>7, <1>8, <1>10, <1>11, <1>12, LevelAddProperties
  <2>2. DOMAIN O2 \subseteq 0..(nextId' - 1) /\ nextId' \in Nat
    BY <1>2, <1>7, <1>8, <1>12 DEF GridInv, BookInv, Inv, TypeOK
  <2>3. ClosedIffEmpty'
    BY <1>7, <1>11 DEF Table, ClosedIffEmpty
  <2>4. TapeOK'
    BY <1>7, <1>10, <1>12, TapeKept DEF Inv
  <2>5. TypeOK'
    BY <1>7, <1>10, <1>11, <1>12, <2>2 DEF Inv, TypeOK
  <2> QED BY <1>7, <2>1, <2>3, <2>4, <2>5 DEF Inv
<1>14. BookInv'
  <2>1. FillsMatchTape'
    BY <1>7, <1>10, <1>11, FillsWritten
  <2> QED BY <1>1, <1>7, <1>11, <1>13, <2>1 DEF BookInv, CallInv, Idle
<1>15. ClosedKept
  BY <1>7, <1>12 DEF ClosedKept
<1>16. Covered'
  <2> SUFFICES ASSUME NEW u \in Traders
               PROVE  /\ escrow'[u]["base"] = Owed(orders', "ask", u) + Pending("ask", u)'
                      /\ escrow'[u]["quote"] >= Owed(orders', "bid", u) + Pending("bid", u)'
    BY DEF Covered, Owed
  <2>1. Placing' = n + 1
    <3>1. Len(work'.made) = Len(made) + 1
      BY <1>4, <1>8, AppendProperties
    <3> QED BY <1>4, <3>1 DEF Placing
  <2>2. \A s : /\ Pending(s, u) = IF u = t THEN Locked(todo, n, s) ELSE 0
               /\ Pending(s, u)' = IF u = t THEN Locked(todo, n + 1, s) ELSE 0
    BY <1>1, <1>2, <1>8, <1>9, <2>1 DEF Pending
  <2>3. ASSUME NEW s \in Sides
        PROVE  /\ Owed(orders, s, u) \in Int /\ Owed(O2, s, u) \in Int
               /\ Pending(s, u) \in Int /\ Pending(s, u)' \in Int
               /\ Owed(O2, s, u) + Pending(s, u)' = Owed(orders, s, u) + Pending(s, u)
    <3>1. PICK d : d = LockedFor(s, price, size)
      OBVIOUS
    <3>2. d \in Int
      BY <1>5, <3>1, LockedForNat
    <3>3. id \in DOMAIN O2
      BY <1>12
    <3>4. /\ Share(orders, id, s, u) = 0
          /\ Share(O2, id, s, u) = IF u = t /\ s = side THEN d ELSE 0
      BY <1>11, <3>1, <3>3 DEF Share
    <3>5. /\ Owed(orders, s, u) \in Int /\ Owed(O2, s, u) \in Int
          /\ Owed(O2, s, u) = Owed(orders, s, u) - Share(orders, id, s, u) + Share(O2, id, s, u)
      BY <1>10, <1>11, OwedChanges
    <3>6. /\ Locked(todo, n, s) \in Int
          /\ Locked(todo, n, s) = Locked(todo, n + 1, s) + (IF side = s THEN d ELSE 0)
      BY <1>3, <1>4, <1>5, <3>1, LockedFacts
    <3>7. Locked(todo, n + 1, s) \in Int
      <4>1. PICK m \in Nat : m = n + 1
        BY <1>5
      <4> QED BY <1>4, <4>1, LockedFacts
    <3> QED BY <2>2, <3>2, <3>4, <3>5, <3>6, <3>7
  <2>4. "bid" \in Sides /\ "ask" \in Sides /\ "base" \in Tokens /\ "quote" \in Tokens
    BY DEF Sides, Tokens
  <2>5. escrow[u]["base"] \in Int /\ escrow[u]["quote"] \in Int
    BY <1>10, <2>4
  <2>6. /\ escrow[u]["base"] = Owed(orders, "ask", u) + Pending("ask", u)
        /\ escrow[u]["quote"] >= Owed(orders, "bid", u) + Pending("bid", u)
    BY DEF GridInv, Covered
  <2> QED BY <1>7, <2>3, <2>4, <2>5, <2>6
<1>17. WorkOK'
  <2>1. ToSet(work'.made) = ToSet(made) \cup {id}
    BY <1>4, <1>8, QueueSets
  <2>2. \A x \in ToSet(made) : x \in DOMAIN orders /\ orders[x].owner = t
    BY <1>1, <1>2 DEF GridInv, WorkOK
  <2>3. \A x \in ToSet(work'.made) : x \in DOMAIN orders' /\ orders'[x].owner = work'.owner
    BY <1>7, <1>8, <1>11, <1>12, <2>1, <2>2
  <2>4. \A g \in DOMAIN grids : Ids(g) \cap ToSet(work'.made) = {}
    <3>1. \A g \in DOMAIN grids : Ids(g) \cap ToSet(made) = {}
      BY <1>1, <1>2 DEF GridInv, WorkOK
    <3>2. \A g \in DOMAIN grids : id \notin Ids(g)
      BY <1>11 DEF GridInv, GridsApart
    <3> QED BY <2>1, <3>1, <3>2
  <2>5. \A i \in DOMAIN work'.todo : work'.todo[i].size > 0
    BY <1>1, <1>2, <1>8
  <2> QED BY <1>1, <1>7, <1>9, <2>3, <2>4, <2>5 DEF WorkOK, Ids
<1>18. GridTyped'
  BY <1>7, <1>8 DEF GridInv, GridTyped
<1>19. GridsApart'
  BY <1>7, <1>11, ApartKept DEF GridInv
<1>20. TopKnown'
  BY <1>9 DEF TopKnown
<1>21. GridInv'
  BY <1>14, <1>16, <1>17, <1>18, <1>19, <1>20 DEF GridInv
<1> QED BY <1>15, <1>21

\* The end of that loop: nothing is left to lock, and the top of the book is
\* computed again.
LEMMA GridCreatedKeeps ==
    ASSUME GridInv, GridCreated
    PROVE  GridInv'
<1>1. /\ work \in Creation /\ Under("create") /\ ~ Under("cancel")
  BY WorkShapes DEF GridInv, GridCreated
<1>2. PICK id, t, todo, made :
         id = work.id /\ t = work.owner /\ todo = work.todo /\ made = work.made
  OBVIOUS
<1>3. t \in Traders /\ todo \in Seq(GridLevel) /\ made \in Seq(Nat) /\ Placing \in Nat
  <2>1. t \in Traders /\ todo \in Seq(GridLevel) /\ made \in Seq(Nat)
    BY <1>1, <1>2 DEF Creation
  <2> QED BY <1>2, <2>1, LenProperties DEF Placing
<1>4. /\ DOMAIN grids' = DOMAIN grids \cup {id}
      /\ grids' = [g \in DOMAIN grids' |-> grids'[g]]
      /\ grids'[id] = [owner |-> t, orderIds |-> made, status |-> "active"]
      /\ \A g \in DOMAIN grids : g # id => grids'[g] = grids[g]
      /\ top' = TopOf(levels', top.last)
      /\ work' = NoWork /\ Placing > Len(todo)
      /\ UNCHANGED <<market, nextId, orders, levels, escrow, trades, tape, height, call, outcome>>
  BY <1>2 DEF GridCreated
<1>5. /\ Inv /\ IsLevels(levels) /\ top.last \in Price /\ nextId \in Nat
      /\ escrow \in [Traders -> [Tokens -> Int]] /\ outcome \in {"ok", "throw"}
  BY DEF GridInv, BookInv, Inv, TypeOK
<1>6. TopFresh'
  BY <1>4, RecomputedTop
<1>7. Inv'
  <2>1. top' \in [bid : Price, ask : Price, last : Price]
    <3>1. TopOf(levels, top.last) \in [bid : Price, ask : Price, last : Price]
      BY <1>5, TopOfType
    <3> QED BY <1>4, <3>1
  <2> QED BY <1>4, <1>5, <2>1, GridKeepsInv
<1>8. BookInv'
  <2>1. Mirror(levels', orders') /\ FillsMatchTape'
    BY <1>4, FillsByOrder, FillsByOrderNext DEF GridInv, BookInv
  <2> QED BY <1>4, <1>7, <2>1 DEF GridInv, BookInv, CallInv
<1>9. ~ Under("create")' /\ ~ Under("cancel")'
  BY <1>4 DEF Under
<1>10. Covered'
  <2> SUFFICES ASSUME NEW u \in Traders
               PROVE  /\ escrow'[u]["base"] = Owed(orders', "ask", u) + Pending("ask", u)'
                      /\ escrow'[u]["quote"] >= Owed(orders', "bid", u) + Pending("bid", u)'
    BY DEF Covered, Owed
  <2>1. \A s \in Sides : Pending(s, u) = 0 /\ Pending(s, u)' = 0
    <3>1. PICK n \in Nat : n = Placing
      BY <1>3
    <3>2. \A s \in Sides : Locked(todo, n, s) = 0
      BY <1>3, <1>4, <3>1, LockedFacts
    <3> QED BY <1>2, <1>9, <3>1, <3>2 DEF Pending
  <2>2. "bid" \in Sides /\ "ask" \in Sides
    BY DEF Sides
  <2>3. /\ escrow[u]["base"] = Owed(orders, "ask", u) + Pending("ask", u)
        /\ escrow[u]["quote"] >= Owed(orders, "bid", u) + Pending("bid", u)
    BY DEF GridInv, Covered
  <2> QED BY <1>4, <2>1, <2>2, <2>3
<1>11. /\ grids'[id] \in GridRecord
       /\ grids'[id].owner = t /\ grids'[id].orderIds = made /\ grids'[id].status = "active"
  BY <1>3, <1>4 DEF GridRecord
<1>12. GridTyped'
  <2>1. \A g \in DOMAIN grids' : grids'[g] \in GridRecord
    BY <1>4, <1>11 DEF GridInv, GridTyped
  <2>2. grids' \in [DOMAIN grids' -> GridRecord]
    BY <1>4, <2>1
  <2>3. DOMAIN grids' \subseteq Nat
    BY <1>1, <1>2, <1>4 DEF Creation, GridInv, GridTyped
  <2> QED BY <1>4, <2>2, <2>3 DEF GridTyped
<1>13. WorkOK'
  BY <1>4, <1>9 DEF WorkOK
<1>14. GridsApart'
  <2>1. /\ \A x \in ToSet(made) : x \in DOMAIN orders /\ orders[x].owner = t
        /\ \A g \in DOMAIN grids : Ids(g) \cap ToSet(made) = {}
    BY <1>1, <1>2 DEF GridInv, WorkOK
  <2>2. /\ Ids(id)' = ToSet(made)
        /\ \A g \in DOMAIN grids : g # id => Ids(g)' = Ids(g)
    BY <1>4, <1>11 DEF Ids
  <2>3. ASSUME NEW g \in DOMAIN grids', NEW x \in Ids(g)'
        PROVE  /\ x \in DOMAIN orders' /\ orders'[x].owner = grids'[g].owner
               /\ grids'[g].status = "cancelled" => ~ IsLive(x)'
    <3>1. CASE g = id
      BY <1>4, <1>11, <2>1, <2>2, <3>1
    <3>2. CASE g # id
      <4>1. g \in DOMAIN grids /\ x \in Ids(g) /\ grids'[g] = grids[g]
        BY <1>4, <2>2, <3>2
      <4>2. /\ x \in DOMAIN orders /\ orders[x].owner = grids[g].owner
            /\ grids[g].status = "cancelled" => ~ IsLive(x)
        BY <4>1 DEF GridInv, GridsApart
      <4> QED BY <1>4, <4>1, <4>2 DEF IsLive
    <3> QED BY <3>1, <3>2
  <2>4. ASSUME NEW g \in DOMAIN grids', NEW h \in DOMAIN grids' \ {g}
        PROVE  Ids(g)' \cap Ids(h)' = {}
    <3>1. \A x, y \in DOMAIN grids : x # y => Ids(x) \cap Ids(y) = {}
      BY DEF GridInv, GridsApart
    <3>2. CASE g = id
      BY <1>4, <2>1, <2>2, <3>2
    <3>3. CASE h = id
      BY <1>4, <2>1, <2>2, <3>3
    <3>4. CASE g # id /\ h # id
      BY <1>4, <2>2, <3>1, <3>4
    <3> QED BY <3>2, <3>3, <3>4
  <2> QED BY <2>3, <2>4 DEF GridsApart
<1>15. TopKnown'
  BY <1>6 DEF TopKnown
<1> QED BY <1>8, <1>10, <1>12, <1>13, <1>14, <1>15 DEF GridInv

\* SYS.MKT_GRID_CANCEL, up to its loop: all the orders of the grid are before it.
LEMMA GridCancelKeeps ==
    ASSUME GridInv, NEW g \in DOMAIN grids, GridCancel(g)
    PROVE  GridInv'
<1>1. /\ call = Idle /\ work = NoWork /\ outcome' = "ok"
      /\ work' = [op |-> "cancel", id |-> g, todo |-> grids[g].orderIds]
      /\ UNCHANGED <<market, nextId, orders, levels, top, escrow, trades, tape, height, call, grids>>
  BY DEF GridCancel
<1>2. /\ Inv /\ top \in [bid : Price, ask : Price, last : Price] /\ nextId \in Nat
      /\ escrow \in [Traders -> [Tokens -> Int]]
  BY DEF GridInv, BookInv, Inv, TypeOK
<1>3. Inv'
  BY <1>1, <1>2, GridKeepsInv
<1>4. BookInv'
  <2>1. Mirror(levels', orders') /\ FillsMatchTape'
    BY <1>1, FillsByOrder, FillsByOrderNext DEF GridInv, BookInv
  <2> QED BY <1>1, <1>3, <2>1 DEF GridInv, BookInv, CallInv, Idle
<1>5. ~ Under("create") /\ ~ Under("create")'
  BY <1>1 DEF Under
<1>6. grids[g] \in GridRecord
  BY DEF GridInv, GridTyped
<1>7. work' \in Cancellation
  <2>1. g \in Nat
    BY DEF GridInv, GridTyped
  <2> QED BY <1>1, <1>6, <2>1 DEF GridRecord, Cancellation
<1>8. GridTyped'
  BY <1>1, <1>7 DEF GridInv, GridTyped
<1>9. WorkOK'
  <2>1. work'.id = g /\ ToSet(work'.todo) = Ids(g)
    BY <1>1 DEF Ids
  <2> QED BY <1>1, <1>5, <2>1 DEF WorkOK, Ids
<1>10. GridsApart'
  BY <1>1 DEF GridInv, GridsApart, Ids, IsLive
<1>11. TopKnown'
  <2>1. TopFresh
    BY <1>5 DEF GridInv, TopKnown
  <2> QED BY <1>1, <2>1 DEF TopKnown, TopFresh
<1>12. Covered'
  <2> SUFFICES ASSUME NEW u \in Traders
               PROVE  /\ escrow'[u]["base"] = Owed(orders', "ask", u) + Pending("ask", u)'
                      /\ escrow'[u]["quote"] >= Owed(orders', "bid", u) + Pending("bid", u)'
    BY DEF Covered, Owed
  <2>1. \A s : Pending(s, u)' = Pending(s, u)
    BY <1>5 DEF Pending
  <2>2. /\ escrow[u]["base"] = Owed(orders, "ask", u) + Pending("ask", u)
        /\ escrow[u]["quote"] >= Owed(orders, "bid", u) + Pending("bid", u)
    BY DEF GridInv, Covered
  <2> QED BY <1>1, <2>1, <2>2
<1> QED BY <1>4, <1>8, <1>9, <1>10, <1>11, <1>12 DEF GridInv

\* One turn of that loop: the order is closed, or was already.
LEMMA GridCancelOrderKeeps ==
    ASSUME GridInv, GridCancelOrder
    PROVE  GridInv' /\ ClosedKept
<1>1. /\ work \in Cancellation /\ Under("cancel") /\ ~ Under("create") /\ work # NoWork
      /\ call = Idle /\ work.todo # <<>>
  BY WorkShapes DEF GridInv, GridCancelOrder, WorkOK, Under
<1>2. PICK q, id : q = work.todo /\ id = Head(q)
  OBVIOUS
<1>3. /\ q \in Seq(Nat) /\ Tail(q) \in Seq(Nat) /\ ToSet(q) = ToSet(Tail(q)) \cup {id}
      /\ work' = [work EXCEPT !.todo = Tail(q)]
      /\ UNCHANGED <<market, nextId, trades, tape, height, call, outcome, grids>>
  <2>1. q \in Seq(Nat)
    BY <1>1, <1>2 DEF Cancellation
  <2>2. Tail(q) \in Seq(Nat) /\ ToSet(q) = ToSet(Tail(q)) \cup {id}
    BY <1>1, <1>2, <2>1, QueueSets
  <2> QED BY <1>2, <2>1, <2>2 DEF GridCancelOrder
<1>4. /\ work' \in Cancellation /\ work'.todo = Tail(q) /\ work'.id = work.id
  BY <1>1, <1>3 DEF Cancellation
<1>5. Under("cancel")' /\ ~ Under("create")' /\ work' # NoWork
  BY <1>4, GridAssumption DEF Under, Cancellation
<1>6. /\ work.id \in DOMAIN grids
      /\ ToSet(q) \subseteq Ids(work.id)
      /\ \A x \in Ids(work.id) : IsLive(x) => x \in ToSet(q)
  BY <1>1, <1>2 DEF GridInv, WorkOK
<1>7. id \in DOMAIN orders
  BY <1>3, <1>6 DEF GridInv, GridsApart
<1>8. /\ BookInv /\ Inv /\ TopFresh
  BY <1>1 DEF GridInv, BookInv, TopKnown
<1>9. /\ BookInv' /\ ClosedKept /\ Evolves(orders, orders') /\ Follows(escrow, escrow', orders, orders')
      /\ TopFresh' /\ ~ IsLive(id)'
  <2>1. CASE Open(id) /\ CancelInternal(id)
    <3>1. orders[id].status # "filled"
      BY <2>1 DEF Open
    <3>2. /\ Mirror(levels', orders') /\ FillsMatchTape' /\ Evolves(orders, orders')
          /\ Follows(escrow, escrow', orders, orders') /\ TopFresh'
          /\ DOMAIN orders' = DOMAIN orders /\ orders'[id].status = "cancelled"
      BY <1>3, <1>7, <1>8, <2>1, <3>1, CancelInternalKeeps
    <3>3. /\ orders' \in [DOMAIN orders' -> Order]
          /\ IsLevels(levels') /\ Queues(levels', orders')
          /\ top' \in [bid : Price, ask : Price, last : Price]
          /\ escrow' \in [Traders -> [Tokens -> Int]]
          /\ ClosedIffEmpty' /\ TapeOK' /\ ClosedKept
      BY <1>3, <1>7, <1>8, <2>1, <3>1, CancelProperties DEF ClosedKept
    <3>4. TypeOK'
      BY <1>3, <1>8, <3>2, <3>3 DEF Inv, TypeOK
    <3>5. Inv'
      BY <3>3, <3>4 DEF Inv
    <3>6. CallInv'
      BY <1>1, <1>3 DEF CallInv, Idle
    <3>7. BookInv'
      BY <1>3, <1>8, <3>2, <3>5, <3>6 DEF BookInv
    <3> QED BY <3>2, <3>3, <3>7 DEF IsLive
  <2>2. CASE ~ Open(id) /\ UNCHANGED <<escrow, levels, orders, top>>
    <3>1. /\ Mirror(levels', orders') /\ FillsMatchTape'
          /\ Evolves(orders, orders') /\ Follows(escrow, escrow', orders, orders')
      BY <1>3, <1>8, <2>2, SameBook
    <3>2. Inv'
      <4>1. /\ nextId \in Nat /\ escrow \in [Traders -> [Tokens -> Int]]
            /\ top \in [bid : Price, ask : Price, last : Price] /\ outcome \in {"ok", "throw"}
        BY <1>8 DEF Inv, TypeOK
      <4> QED BY <1>3, <1>8, <2>2, <4>1, GridKeepsInv
    <3>3. BookInv'
      BY <1>1, <1>3, <1>8, <2>2, <3>1, <3>2 DEF BookInv, CallInv, Idle
    <3>4. ClosedKept /\ TopFresh' /\ ~ IsLive(id)'
      BY <1>8, <2>2 DEF ClosedKept, TopFresh, IsLive, Open
    <3> QED BY <3>1, <3>3, <3>4
  <2> QED BY <1>2, <2>1, <2>2 DEF GridCancelOrder
<1>10. Covered'
  BY <1>1, <1>5, <1>9, CoveredKept
<1>11. GridTyped'
  BY <1>3, <1>4 DEF GridInv, GridTyped
<1>12. GridsApart'
  BY <1>3, <1>9, ApartKept DEF GridInv
<1>13. WorkOK'
  <2>1. ToSet(work'.todo) \subseteq Ids(work.id)
    BY <1>3, <1>4, <1>6
  <2>2. ASSUME NEW x \in Ids(work.id), IsLive(x)'
        PROVE  x \in ToSet(work'.todo)
    <3>1. x # id
      BY <1>9, <2>2
    <3>2. x \in DOMAIN orders
      BY <1>6 DEF GridInv, GridsApart
    <3>3. IsLive(x)
      BY <1>9, <2>2, <3>2 DEF Evolves, IsLive
    <3> QED BY <1>3, <1>4, <1>6, <3>1, <3>3
  <2>3. work'.id \in DOMAIN grids' /\ Ids(work.id)' = Ids(work.id)
    BY <1>3, <1>4, <1>6 DEF Ids
  <2> QED BY <1>1, <1>3, <1>4, <1>5, <2>1, <2>2, <2>3 DEF WorkOK, Ids, IsLive
<1>14. TopKnown'
  BY <1>9 DEF TopKnown
<1>15. GridInv'
  BY <1>9, <1>10, <1>11, <1>12, <1>13, <1>14 DEF GridInv
<1> QED BY <1>9, <1>15

\* The end of that loop: no order of the grid is left to cancel.
LEMMA GridCancelledKeeps ==
    ASSUME GridInv, GridCancelled
    PROVE  GridInv'
<1>1. /\ work \in Cancellation /\ Under("cancel") /\ ~ Under("create")
      /\ work.todo = <<>> /\ work' = NoWork
      /\ UNCHANGED vars
  BY WorkShapes DEF GridInv, GridCancelled
<1>2. PICK c : c = work.id
  OBVIOUS
<1>3. /\ UNCHANGED <<market, orders, levels, trades, tape, height, call, nextId, escrow, top, outcome>>
  BY <1>1 DEF vars
<1>4. c \in DOMAIN grids /\ \A x \in Ids(c) : ~ IsLive(x)
  <2>1. ToSet(work.todo) = {}
    BY <1>1 DEF ToSet
  <2> QED BY <1>1, <1>2, <2>1 DEF GridInv, WorkOK
<1>5. /\ DOMAIN grids' = DOMAIN grids /\ grids' = [g \in DOMAIN grids |-> grids'[g]]
      /\ grids[c] \in GridRecord
      /\ grids'[c] = [grids[c] EXCEPT !.status = "cancelled"]
      /\ \A g \in DOMAIN grids : g # c => grids'[g] = grids[g]
  BY <1>2, <1>4 DEF GridInv, GridTyped, GridCancelled
<1>6. /\ grids'[c] \in GridRecord
      /\ grids'[c].orderIds = grids[c].orderIds /\ grids'[c].owner = grids[c].owner
  BY <1>5 DEF GridRecord
<1>7. BookInv'
  <2>1. /\ Inv /\ nextId \in Nat /\ escrow \in [Traders -> [Tokens -> Int]]
        /\ top \in [bid : Price, ask : Price, last : Price] /\ outcome \in {"ok", "throw"}
    BY DEF GridInv, BookInv, Inv, TypeOK
  <2>2. Inv'
    BY <1>3, <2>1, GridKeepsInv
  <2>3. Mirror(levels', orders') /\ FillsMatchTape'
    BY <1>3, FillsByOrder, FillsByOrderNext DEF GridInv, BookInv
  <2> QED BY <1>3, <2>2, <2>3 DEF GridInv, BookInv, CallInv
<1>8. TopKnown'
  <2>1. TopFresh
    BY <1>1 DEF GridInv, TopKnown
  <2> QED BY <1>3, <2>1 DEF TopKnown, TopFresh
<1>9. ~ Under("create")' /\ ~ Under("cancel")'
  BY <1>1 DEF Under
<1>10. Covered'
  <2> SUFFICES ASSUME NEW u \in Traders
               PROVE  /\ escrow'[u]["base"] = Owed(orders', "ask", u) + Pending("ask", u)'
                      /\ escrow'[u]["quote"] >= Owed(orders', "bid", u) + Pending("bid", u)'
    BY DEF Covered, Owed
  <2>1. \A s : Pending(s, u)' = Pending(s, u)
    BY <1>1, <1>9 DEF Pending
  <2>2. /\ escrow[u]["base"] = Owed(orders, "ask", u) + Pending("ask", u)
        /\ escrow[u]["quote"] >= Owed(orders, "bid", u) + Pending("bid", u)
    BY DEF GridInv, Covered
  <2> QED BY <1>3, <2>1, <2>2
<1>11. GridTyped'
  <2>1. \A g \in DOMAIN grids : grids'[g] \in GridRecord
    BY <1>5, <1>6 DEF GridInv, GridTyped
  <2> QED BY <1>1, <1>5, <2>1 DEF GridInv, GridTyped
<1>12. WorkOK'
  BY <1>1, <1>9 DEF WorkOK
<1>13. GridsApart'
  <2>1. \A g \in DOMAIN grids : Ids(g)' = Ids(g) /\ grids'[g].owner = grids[g].owner
    BY <1>5, <1>6 DEF Ids
  <2>2. \A x : IsLive(x)' <=> IsLive(x)
    BY <1>3 DEF IsLive
  <2>3. ASSUME NEW g \in DOMAIN grids, NEW x \in Ids(g)
        PROVE  /\ x \in DOMAIN orders' /\ orders'[x].owner = grids'[g].owner
               /\ grids'[g].status = "cancelled" => ~ IsLive(x)'
    <3>1. /\ x \in DOMAIN orders /\ orders[x].owner = grids[g].owner
          /\ grids[g].status = "cancelled" => ~ IsLive(x)
      BY DEF GridInv, GridsApart
    <3>2. CASE g = c
      BY <1>3, <1>4, <2>1, <2>2, <3>1, <3>2
    <3>3. CASE g # c
      BY <1>3, <1>5, <2>1, <2>2, <3>1, <3>3
    <3> QED BY <3>2, <3>3
  <2>4. \A g \in DOMAIN grids : \A h \in DOMAIN grids \ {g} : Ids(g)' \cap Ids(h)' = {}
    BY <2>1 DEF GridInv, GridsApart
  <2> QED BY <1>5, <2>1, <2>3, <2>4 DEF GridsApart
<1> QED BY <1>7, <1>8, <1>10, <1>11, <1>12, <1>13 DEF GridInv

\* A step of a grid handler trades nothing and is in no matching loop.
GridHandlerStep ==
    \/ \E t \in Traders, p \in GridParams : GridCreate(t, p)
    \/ \E g \in DOMAIN grids : GridCancel(g)
    \/ GridLoop
    \/ UNCHANGED gridVars

\* The steps of a grid handler make no trade and end no matching loop.
LEMMA GridHandlerQuiet ==
    ASSUME GridInv, GridHandlerStep
    PROVE  PriorityKept /\ DrainsTheCross /\ ImmediateOrdersNeverRest
<1>1. tape' = tape /\ call' = call
  BY DEF GridHandlerStep, GridCreate, GridCancel, GridLoop, GridPlace, GridCreated,
         GridCancelOrder, GridCancelled, gridVars, vars
<1>2. PriorityKept
  BY <1>1, NoTradeNoQuestion DEF GridInv
<1>3. ~ (call.op = "match" /\ call'.op = "idle")
  BY <1>1
<1> QED BY <1>2, <1>3 DEF DrainsTheCross, ImmediateOrdersNeverRest

\* The steps of a grid handler keep the invariant, and closed orders as they are.
LEMMA GridHandlerKeeps ==
    ASSUME GridInv, GridHandlerStep
    PROVE  GridInv' /\ ClosedKept
<1>1. ASSUME NEW t \in Traders, NEW p \in GridParams, GridCreate(t, p)
      PROVE  GridInv' /\ ClosedKept
  <2>1. GridInv'
    BY <1>1, GridCreateKeeps
  <2> QED BY <1>1, <2>1 DEF GridCreate, ClosedKept
<1>2. ASSUME NEW g \in DOMAIN grids, GridCancel(g)
      PROVE  GridInv' /\ ClosedKept
  <2>1. GridInv'
    BY <1>2, GridCancelKeeps
  <2> QED BY <1>2, <2>1 DEF GridCancel, ClosedKept
<1>3. CASE GridPlace
  BY <1>3, GridPlaceKeeps
<1>4. CASE GridCreated
  <2>1. GridInv'
    BY <1>4, GridCreatedKeeps
  <2> QED BY <1>4, <2>1 DEF GridCreated, ClosedKept
<1>5. CASE GridCancelOrder
  BY <1>5, GridCancelOrderKeeps
<1>6. CASE GridCancelled
  <2>1. GridInv'
    BY <1>6, GridCancelledKeeps
  <2> QED BY <1>6, <2>1 DEF GridCancelled, vars, ClosedKept
<1>7. CASE UNCHANGED gridVars
  <2>1. UNCHANGED <<market, nextId, orders, levels, top, escrow, trades, tape, height, call,
                    outcome, grids, work>>
    BY <1>7 DEF gridVars, vars
  <2>2. BookInv'
    <3>1. /\ Inv /\ nextId \in Nat /\ escrow \in [Traders -> [Tokens -> Int]]
          /\ top \in [bid : Price, ask : Price, last : Price] /\ outcome \in {"ok", "throw"}
      BY DEF GridInv, BookInv, Inv, TypeOK
    <3>2. Inv'
      BY <2>1, <3>1, GridKeepsInv
    <3>3. Mirror(levels', orders') /\ FillsMatchTape'
      BY <2>1, FillsByOrder, FillsByOrderNext DEF GridInv, BookInv
    <3> QED BY <2>1, <3>2, <3>3 DEF GridInv, BookInv, CallInv
  <2>3. TopKnown'
    BY <2>1 DEF GridInv, TopKnown, TopFresh, Under
  <2>4. \A s, u : Pending(s, u)' = Pending(s, u)
    BY <2>1 DEF Pending, Under, Placing
  <2>5. Covered'
    BY <2>1, <2>4 DEF GridInv, Covered, Owed
  <2>6. GridTyped' /\ GridsApart'
    BY <2>1 DEF GridInv, GridTyped, GridsApart, Ids, IsLive
  <2>7. WorkOK'
    BY <2>1 DEF GridInv, WorkOK, Under, Ids, IsLive
  <2>8. ClosedKept
    BY <2>1 DEF ClosedKept
  <2> QED BY <2>2, <2>3, <2>5, <2>6, <2>7, <2>8 DEF GridInv
<1> QED BY <1>1, <1>2, <1>3, <1>4, <1>5, <1>6, <1>7 DEF GridHandlerStep, GridLoop

\* Every step of the market.
LEMMA GridStep ==
    ASSUME GridInv, [GridNext]_gridVars
    PROVE  GridInv' /\ ClosedKept /\ PriorityKept /\ DrainsTheCross /\ ImmediateOrdersNeverRest
<1>1. CASE OrderInstruction
  <2>1. GridInv' /\ ClosedKept
    BY <1>1, OrderInstructionKeeps
  <2>2. BookInv /\ TopFresh
    BY <1>1 DEF GridInv, TopKnown, OrderInstruction, Under
  <2>3. [Next]_vars
    BY <1>1 DEF OrderInstruction
  <2>4. PriorityKept
    BY <2>2, <2>3, PriorityStep
  <2>5. DrainsTheCross /\ ImmediateOrdersNeverRest
    BY <2>2, <2>3, CleanStep
  <2> QED BY <2>1, <2>4, <2>5
<1>2. CASE GridHandlerStep
  BY <1>2, GridHandlerQuiet, GridHandlerKeeps
<1> QED BY <1>1, <1>2 DEF GridNext, GridHandlerStep

-----------------------------------------------------------------------------
(* What the invariant says in the words of the properties.                 *)

\* The levels, the tape and the cached best prices agree with the orders.
LEMMA InvMirrors == GridInv => BookMirrorsOrders
<1> SUFFICES ASSUME GridInv PROVE BookMirrorsOrders
  OBVIOUS
<1>1. /\ Table(orders) /\ IsLevels(levels) /\ Mirror(levels, orders) /\ FillsMatchTape
  BY OrdersTable DEF GridInv, BookInv, Inv, TypeOK
<1>2. \A s : Live(s) = LiveIn(orders, s)
  BY DEF Live, LiveIn
<1>3. \A s, p : LiveAt(s, p) = LiveInAt(orders, s, p)
  BY <1>2 DEF LiveAt, LiveInAt
<1>4. \A ids : Remaining(ids) = SumFunctionOnSet(LeftOf(orders), ids)
  BY DEF Remaining, LeftOf
<1>5. LevelsMirrorOrders
  <2> SUFFICES ASSUME NEW s \in Sides
               PROVE  /\ {orders[id].price : id \in Live(s)} = DOMAIN levels[s]
                      /\ \A p \in DOMAIN levels[s] :
                            /\ ToSet(levels[s][p].ids) = LiveAt(s, p)
                            /\ \A i, j \in DOMAIN levels[s][p].ids :
                                  i < j => levels[s][p].ids[i] < levels[s][p].ids[j]
                            /\ levels[s][p].aggregate = Remaining(LiveAt(s, p))
    BY DEF LevelsMirrorOrders
  <2>1. \A p : p \in DOMAIN levels[s] <=> \E id \in Live(s) : orders[id].price = p
    BY <1>1, <1>2 DEF Mirror, LiveInAt
  <2>2. {orders[id].price : id \in Live(s)} = DOMAIN levels[s]
    BY <2>1
  <2>3. ASSUME NEW p \in DOMAIN levels[s]
        PROVE  /\ ToSet(levels[s][p].ids) = LiveAt(s, p)
               /\ \A i, j \in DOMAIN levels[s][p].ids :
                     i < j => levels[s][p].ids[i] < levels[s][p].ids[j]
               /\ levels[s][p].aggregate = Remaining(LiveAt(s, p))
    <3>1. Tells(levels[s][p], orders, LiveInAt(orders, s, p))
      BY <1>1 DEF Mirror
    <3>2. PICK q : q = levels[s][p].ids
      OBVIOUS
    <3>3. \A x : x \in ToSet(q) <=> Holds(q, x)
      BY DEF ToSet, Holds
    <3>4. ToSet(q) = LiveAt(s, p)
      BY <1>3, <3>1, <3>2, <3>3 DEF Tells
    <3> QED BY <1>3, <1>4, <3>1, <3>2, <3>4 DEF Tells, Ascending
  <2> QED BY <2>2, <2>3
<1>6. Under("create") \/ TopIsBestLive
  <2> SUFFICES ASSUME ~ Under("create") PROVE TopIsBestLive
    OBVIOUS
  <2>1. top.bid = Best(levels, "bid") /\ top.ask = Best(levels, "ask")
    BY DEF GridInv, TopKnown, TopFresh
  <2>2. ASSUME NEW s \in Sides, NEW p, p = Best(levels, s)
        PROVE  IF Live(s) = {} THEN p = NoPrice
               ELSE /\ \E id \in Live(s) : orders[id].price = p
                    /\ \A id \in Live(s) : ~ Better(s, orders[id].price, p)
    <3>1. CASE LiveIn(orders, s) = {}
      BY <1>1, <1>2, <2>2, <3>1, BestIsBest
    <3>2. CASE LiveIn(orders, s) # {}
      <4>1. /\ p \in Nat
            /\ \A id \in LiveIn(orders, s) : /\ orders[id].price \in Nat
                                             /\ Ahead(s, p, orders[id].price)
            /\ \E id \in LiveIn(orders, s) : orders[id].price = p
        BY <1>1, <2>2, <3>2, BestIsBest
      <4>2. ASSUME NEW id \in LiveIn(orders, s)
            PROVE  ~ Better(s, orders[id].price, p)
        BY <4>1 DEF Better, Ahead, Sides
      <4> QED BY <1>2, <3>2, <4>1, <4>2
    <3> QED BY <3>1, <3>2
  <2>3. "bid" \in Sides /\ "ask" \in Sides
    BY DEF Sides
  <2> QED BY <2>1, <2>2, <2>3 DEF TopIsBestLive
<1> QED BY <1>1, <1>5, <1>6 DEF BookMirrorsOrders

\* The escrow covers what the orders and the levels of a grid in the making owe.
LEMMA InvCovers == GridInv => EscrowCoversOrders
<1> SUFFICES ASSUME GridInv, NEW t \in Traders
             PROVE  LET Own(side) == {id \in Live(side) : orders[id].owner = t}
                        ToCome(side) == IF Under("create") /\ work.owner = t
                                      THEN Locked(work.todo, Placing, side) ELSE 0
                        Quote == [id \in DOMAIN orders |-> QuoteAmount(orders[id].price, orders[id].remaining)]
                    IN  /\ escrow[t]["base"] = Remaining(Own("ask")) + ToCome("ask")
                        /\ escrow[t]["quote"] >= SumFunctionOnSet(Quote, Own("bid")) + ToCome("bid")
  BY DEF EscrowCoversOrders
<1>1. /\ escrow[t]["base"] = Owed(orders, "ask", t) + Pending("ask", t)
      /\ escrow[t]["quote"] >= Owed(orders, "bid", t) + Pending("bid", t)
  BY DEF GridInv, Covered
<1>2. \A s : {id \in Live(s) : orders[id].owner = t} = OwnIn(orders, s, t)
  BY DEF Live, LiveIn, OwnIn
<1>3. LocksOf(orders, "ask") = [id \in DOMAIN orders |-> orders[id].remaining]
  BY DEF LocksOf, LockedFor
<1>4. LocksOf(orders, "bid") = [id \in DOMAIN orders |-> QuoteAmount(orders[id].price, orders[id].remaining)]
  BY DEF LocksOf, LockedFor
<1>5. Owed(orders, "ask", t) = Remaining({id \in Live("ask") : orders[id].owner = t})
  BY <1>2, <1>3 DEF Owed, Remaining
<1>6. Owed(orders, "bid", t) =
        SumFunctionOnSet([id \in DOMAIN orders |-> QuoteAmount(orders[id].price, orders[id].remaining)],
                         {id \in Live("bid") : orders[id].owner = t})
  BY <1>2, <1>4 DEF Owed
<1> QED BY <1>1, <1>5, <1>6 DEF Pending

\* The orders of a cancelled grid are out of the book, and grids share none.
LEMMA InvApart == GridInv => CancelledGridsAreOut
<1> SUFFICES ASSUME GridInv, NEW g \in DOMAIN grids
             PROVE  /\ \A id \in Ids(g) : orders[id].owner = grids[g].owner
                    /\ grids[g].status = "cancelled" => Ids(g) \cap (Live("bid") \cup Live("ask")) = {}
                    /\ \A h \in DOMAIN grids \ {g} : Ids(g) \cap Ids(h) = {}
  BY DEF CancelledGridsAreOut, Ids
<1>1. /\ \A id \in Ids(g) : /\ id \in DOMAIN orders /\ orders[id].owner = grids[g].owner
                            /\ grids[g].status = "cancelled" => ~ IsLive(id)
      /\ \A h \in DOMAIN grids \ {g} : Ids(g) \cap Ids(h) = {}
  BY DEF GridInv, GridsApart
<1>2. \A id \in Live("bid") \cup Live("ask") : IsLive(id)
  BY DEF Live, IsLive
<1> QED BY <1>1, <1>2

-----------------------------------------------------------------------------
(* The theorems, for any traders, inputs and parameters of the market.     *)

\* The invariant holds in every state the market reaches.
THEOREM GridInvariance == GridSpec => []GridInv
<1>1. GridInv /\ [GridNext]_gridVars => GridInv'
  BY GridStep
<1> QED BY GridInitInv, <1>1, PTL DEF GridSpec

\* Orders, price levels and the tape of trades tell one story after every step,
\* and so do the cached best prices outside the loop that creates a grid
\* (updatePriceLevel, updateTopOfBook and updateOrder, exec.ts).
THEOREM BookIsTrue == GridSpec => []BookMirrorsOrders
BY GridInvariance, InvMirrors, PTL

\* What is locked covers what may still have to be paid, so that adjustEscrow
\* never throws in the middle of a handler (store.ts).
THEOREM EscrowIsEnough == GridSpec => []EscrowCoversOrders
BY GridInvariance, InvCovers, PTL

\* A cancelled grid has left the book and no order is of two grids
\* (handleMKT_GRID_CANCEL).
THEOREM CancelledGridsLeave == GridSpec => []CancelledGridsAreOut
BY GridInvariance, InvApart, PTL

\* With grids too no trade is worse for either side than its order allows.
THEOREM GridTradesWithinLimits == GridSpec => []NoTradeThrough
<1>1. GridInv => NoTradeThrough
  BY DEF GridInv, BookInv, Inv, TapeOK
<1> QED BY GridInvariance, <1>1, PTL

\* Every trade is made for the orders with priority, the better price first and
\* the earlier order among equals (matchOrders).
THEOREM PriorityHolds == GridSpec => PriceTimePriority
<1>1. GridInv /\ [GridNext]_gridVars =>
        [Len(tape') > Len(tape) =>
           LET t == tape'[Len(tape')]
           IN  \A id \in {t.maker, t.taker} :
                  LET o == orders[id]
                  IN  \A other \in Live(o.side) :
                         /\ ~ Better(o.side, orders[other].price, o.price)
                         /\ orders[other].price = o.price => id <= other]_vars
  BY GridStep DEF PriorityKept
<1> QED BY GridInvariance, <1>1, PTL DEF GridSpec, PriceTimePriority

\* An order that is filled or cancelled never changes again, whatever grids do.
THEOREM GridOrdersAreFinal == GridSpec => TerminalOrdersAreFinal
<1>1. GridInv /\ [GridNext]_gridVars =>
        [\A id \in DOMAIN orders :
           orders[id].status \in {"filled", "cancelled"} => orders'[id] = orders[id]]_vars
  BY GridStep DEF ClosedKept
<1> QED BY GridInvariance, <1>1, PTL DEF GridSpec, TerminalOrdersAreFinal

\* A matching loop that stops early leaves no cross, and no immediate order rests
\* (matchOrders, handleMKT_ORDER_PLACE).
THEOREM LoopsEndClean == GridSpec => MatchingEndsClean
<1>1. GridInv /\ [GridNext]_gridVars => [DrainsTheCross /\ ImmediateOrdersNeverRest]_vars
  BY GridStep
<1> QED BY GridInvariance, <1>1, PTL DEF GridSpec, MatchingEndsClean
===============================================================================
