----------------------------- MODULE OrderBook -----------------------------
(***************************************************************************)
(* The order book of one market: the SYS.MKT_* order handlers of           *)
(* src/src/markets/exec.ts over the InMemoryMarketStore of store.ts.       *)
(*                                                                         *)
(* A handler runs to completion before the next instruction starts (the    *)
(* executor awaits it), so everything up to a handler's matching loop is   *)
(* one action; each turn of the loop of matchOrders is an action of its    *)
(* own, and `call` says which handler is inside the loop.  An order is     *)
(* named by the nonce it was made with (makeOrderId), so identifiers grow  *)
(* in the order in which orders reach the book.                            *)
(*                                                                         *)
(* Escrow is an integer: store.adjustEscrow throws when it would go below  *)
(* zero, which would leave a handler half done.  The model subtracts and   *)
(* EscrowCoversOrders (MarketGrid) states that the throw cannot happen.    *)
(* OCC versions are not kept: one handler at a time always passes the      *)
(* version it read.                                                        *)
(***************************************************************************)
EXTENDS Integers, Sequences, FiniteSets, FiniteSetsExt, SequencesExt

CONSTANTS
    Traders,        \* addresses that submit instructions
    Prices,         \* prices an instruction may name
    Sizes,          \* sizes an instruction may name
    FlagSets,       \* combinations of order flags an instruction may carry
    Budgets,        \* values of maxMatches an instruction may name (0: absent)
    TickSize,       \* market.tickSize
    LotSize,        \* market.lotSize
    FeeBps,         \* market.feeBps
    MaxMatches,     \* MAX_MATCHES_PER_CALL
    NoPrice,        \* null in TopOfBook
    NoOrder,        \* no order waits for the end of the matching loop
    MaxNonce,       \* bound of the model: identifiers handed out
    MaxHeight       \* bound of the model: block heights

Flags == {"post_only", "ioc", "fok"}

ASSUME TradersAssumption == NoOrder \notin Nat
ASSUME InputsAssumption ==
    /\ Prices \subseteq Nat /\ Sizes \subseteq Nat /\ Budgets \subseteq Nat
    /\ FlagSets \subseteq SUBSET Flags
    /\ NoPrice \notin Nat
ASSUME MarketAssumption ==
    /\ TickSize \in Nat \ {0} /\ LotSize \in Nat \ {0}
    /\ FeeBps \in 0..10000
    /\ MaxMatches \in Nat \ {0}
ASSUME BoundsAssumption == MaxNonce \in Nat /\ MaxHeight \in Nat

VARIABLES
    market,     \* "none" until MKT_CREATE, then "active"
    nextId,     \* nonceCounter
    orders,     \* order identifier -> order record
    levels,     \* side -> price -> [aggregate, ids]
    top,        \* TopOfBook: best prices and last trade price
    escrow,     \* trader -> token -> lockedAmount
    trades,     \* the trade table: <<height, tradeIndex>> -> trade
    tape,       \* every TRADE_EXECUTED event, in order
    height,     \* ctx.currentBlockHeight
    call,       \* the handler inside the matching loop
    outcome     \* how the last handler ended: "ok" or "throw"

vars == <<market, nextId, orders, levels, top, escrow, trades, tape, height,
          call, outcome>>

Sides == {"bid", "ask"}
Tokens == {"base", "quote"}
Statuses == {"open", "partial", "filled", "cancelled"}

Order == [owner : Traders, side : Sides, price : Nat, size : Nat,
          remaining : Nat, status : Statuses, createdAt : Nat]
Trade == [maker : Nat, taker : Nat, side : Sides, price : Nat, size : Nat,
          quote : Nat, fee : Nat, height : Nat]
Price == Nat \cup {NoPrice}

Idle == [op |-> "idle", left |-> 0, index |-> 0, order |-> NoOrder, fok |-> FALSE]
Matching(left, order, fok) ==
    [op |-> "match", left |-> left, index |-> 0, order |-> order, fok |-> fok]

-----------------------------------------------------------------------------
(* Amounts.                                                                *)

TokenOf(side) == IF side = "bid" THEN "quote" ELSE "base"
QuoteAmount(price, size) == price * size
Fee(amount) == (amount * FeeBps) \div 10000
\* (bug) a bid locks its size instead of its quote amount
LockedForBug(side, price, size) == size
LockedFor(side, price, size) == IF side = "bid" THEN QuoteAmount(price, size) ELSE size

AdjustEscrow(e, t, token, delta) == [e EXCEPT ![t][token] = @ + delta]

-----------------------------------------------------------------------------
(* Price levels: updatePriceLevel and the best level of a side.            *)

SetLevel(L, side, price, lvl) ==
    [L EXCEPT ![side] =
        [p \in DOMAIN L[side] \cup {price} |-> IF p = price THEN lvl ELSE L[side][p]]]
DeleteLevel(L, side, price) ==
    [L EXCEPT ![side] = [p \in DOMAIN L[side] \ {price} |-> L[side][p]]]

Without(ids, id) ==
    LET at == {k \in DOMAIN ids : ids[k] = id}
    IN  IF at = {} THEN ids ELSE RemoveAt(ids, CHOOSE k \in at : TRUE)

\* (bug) a new order goes to the head of its queue
LevelAddBug(L, side, price, size, id) ==
    SetLevel(L, side, price,
        IF price \in DOMAIN L[side]
        THEN [aggregate |-> L[side][price].aggregate + size,
              ids |-> <<id>> \o L[side][price].ids]
        ELSE [aggregate |-> size, ids |-> <<id>>])
LevelAdd(L, side, price, size, id) ==
    SetLevel(L, side, price,
        IF price \in DOMAIN L[side]
        THEN [aggregate |-> L[side][price].aggregate + size,
              ids |-> Append(L[side][price].ids, id)]
        ELSE [aggregate |-> size, ids |-> <<id>>])

LevelRemove(L, side, price, size, id) ==
    IF price \notin DOMAIN L[side] THEN L
    ELSE LET agg == L[side][price].aggregate - size
             ids == Without(L[side][price].ids, id)
         IN  IF agg <= 0 \/ ids = <<>>
             THEN DeleteLevel(L, side, price)
             ELSE SetLevel(L, side, price, [aggregate |-> agg, ids |-> ids])

LevelReduce(L, side, price, size) ==
    IF price \notin DOMAIN L[side] THEN L
    ELSE LET agg == L[side][price].aggregate - size
         IN  IF agg <= 0
             THEN DeleteLevel(L, side, price)
             ELSE SetLevel(L, side, price,
                           [aggregate |-> agg, ids |-> L[side][price].ids])

Ahead(side, p, q) == IF side = "bid" THEN p >= q ELSE p <= q

Best(L, side) ==
    LET First(p) == \A q \in DOMAIN L[side] : Ahead(side, p, q)
    IN  IF \E p \in DOMAIN L[side] : First(p)
        THEN CHOOSE p \in DOMAIN L[side] : First(p)
        ELSE NoPrice

\* (bug) the cached best prices are not recomputed
TopOfBug(L, last) == [top EXCEPT !.last = last]
TopOf(L, last) == [bid |-> Best(L, "bid"), ask |-> Best(L, "ask"), last |-> last]

-----------------------------------------------------------------------------
(* Handlers.                                                               *)

Init ==
    /\ market = "none"
    /\ nextId = 0
    /\ orders = [id \in {} |-> Idle]
    /\ levels = [s \in Sides |-> [p \in {} |-> Idle]]
    /\ top = [bid |-> NoPrice, ask |-> NoPrice, last |-> NoPrice]
    /\ escrow = [t \in Traders |-> [k \in Tokens |-> 0]]
    /\ trades = [k \in {} |-> Idle]
    /\ tape = <<>>
    /\ height = 0
    /\ call = Idle
    /\ outcome = "ok"

\* SYS.MKT_CREATE; a second one throws before it changes anything.
CreateMarket ==
    /\ call = Idle
    /\ market = "none"
    /\ market' = "active"
    /\ top' = [bid |-> NoPrice, ask |-> NoPrice, last |-> NoPrice]
    /\ outcome' = "ok"
    /\ UNCHANGED <<nextId, orders, levels, escrow, trades, tape, height, call>>

ValidOrder(price, size) ==
    /\ price > 0
    /\ size > 0
    /\ price % TickSize = 0
    /\ size % LotSize = 0
    /\ size >= LotSize

Crosses(side, price) ==
    \/ side = "bid" /\ top.ask # NoPrice /\ price >= top.ask
    \/ side = "ask" /\ top.bid # NoPrice /\ price <= top.bid

NewOrder(t, side, price, size) ==
    [owner |-> t, side |-> side, price |-> price, size |-> size,
     remaining |-> size, status |-> "open", createdAt |-> height]

WithOrder(id, o) ==
    [i \in DOMAIN orders \cup {id} |-> IF i = id THEN o ELSE orders[i]]

\* A post-only order that would cross is put in the book and taken out again
\* before the handler throws; only its cancelled record is left.
RejectPostOnly(t, side, price, size) ==
    LET L == LevelRemove(LevelAdd(levels, side, price, size, nextId),
                         side, price, size, nextId)
    IN  /\ orders' = WithOrder(nextId, [NewOrder(t, side, price, size) EXCEPT
                                           !.remaining = 0, !.status = "cancelled"])
        /\ levels' = L
        /\ top' = TopOf(L, top.last)
        /\ outcome' = "throw"
        /\ UNCHANGED <<escrow, call>>

\* An order without ioc or fok stays where it is put, crossing or not.
Rest(t, side, price, size, flags) ==
    LET L == LevelAdd(levels, side, price, size, nextId)
    IN  /\ orders' = WithOrder(nextId, NewOrder(t, side, price, size))
        /\ levels' = L
        /\ top' = TopOf(L, top.last)
        /\ escrow' = AdjustEscrow(escrow, t, TokenOf(side),
                                  LockedFor(side, price, size))
        /\ call' = IF {"ioc", "fok"} \cap flags # {}
                   THEN Matching(MaxMatches, nextId, "fok" \in flags)
                   ELSE Idle
        /\ outcome' = "ok"

\* SYS.MKT_ORDER_PLACE, up to the matching loop of an ioc or fok order.
PlaceOrder(t, side, price, size, flags) ==
    /\ call = Idle
    /\ nextId < MaxNonce
    /\ market = "active"
    /\ ValidOrder(price, size)
    /\ nextId' = nextId + 1
    /\ \/ /\ "post_only" \in flags /\ Crosses(side, price)
          /\ RejectPostOnly(t, side, price, size)
       \/ /\ ~ ("post_only" \in flags /\ Crosses(side, price))
          /\ Rest(t, side, price, size, flags)
    /\ UNCHANGED <<market, trades, tape, height>>

\* cancelOrderInternal: release what the order still locks, take it out of
\* its level, close it and recompute the top of the book.
CancelInternal(id) ==
    LET o == orders[id]
        L == LevelRemove(levels, o.side, o.price, o.remaining, id)
    IN  /\ escrow' = AdjustEscrow(escrow, o.owner, TokenOf(o.side),
                                  - LockedFor(o.side, o.price, o.remaining))
        /\ levels' = L
        /\ orders' = [orders EXCEPT ![id].status = "cancelled", ![id].remaining = 0]
        /\ top' = TopOf(L, top.last)

\* (bug) filled orders are not refused
CancelOrderBug(id) ==
    /\ call = Idle
    /\ id \in DOMAIN orders
    /\ CancelInternal(id)
    /\ outcome' = "ok"
    /\ UNCHANGED <<market, nextId, trades, tape, height, call>>

\* SYS.MKT_ORDER_CANCEL by the owner.  Only a filled order is refused: an
\* order that is already cancelled is cancelled again, releasing nothing.
CancelOrder(id) ==
    /\ call = Idle
    /\ id \in DOMAIN orders
    /\ orders[id].status # "filled"
    /\ CancelInternal(id)
    /\ outcome' = "ok"
    /\ UNCHANGED <<market, nextId, trades, tape, height, call>>

\* SYS.MKT_ORDER_MATCH, up to its matching loop.
StartMatch(budget) ==
    /\ call = Idle
    /\ market = "active"
    /\ call' = Matching(IF budget = 0 \/ budget > MaxMatches
                        THEN MaxMatches ELSE budget, NoOrder, FALSE)
    /\ outcome' = "ok"
    /\ UNCHANGED <<market, nextId, orders, levels, top, escrow, trades, tape, height>>

\* (bug) prices that meet do not match
CanMatchBug ==
    /\ top.bid # NoPrice /\ top.ask # NoPrice /\ top.bid > top.ask
    /\ levels["bid"][top.bid].ids # <<>>
    /\ levels["ask"][top.ask].ids # <<>>
\* (bug) both sides have orders, whatever their prices
CanMatchBug2 ==
    /\ top.bid # NoPrice /\ top.ask # NoPrice
    /\ levels["bid"][top.bid].ids # <<>>
    /\ levels["ask"][top.ask].ids # <<>>

\* The conditions under which a turn of matchOrders trades.
CanMatch ==
    LET bid == Best(levels, "bid")
        ask == Best(levels, "ask")
    IN  /\ top.bid # NoPrice /\ top.ask # NoPrice /\ top.bid >= top.ask
        /\ bid # NoPrice /\ ask # NoPrice /\ bid >= ask
        /\ levels["bid"][bid].ids # <<>>
        /\ levels["ask"][ask].ids # <<>>

BidIsMaker(bid, ask) == bid.createdAt <= ask.createdAt

\* (bug) a fill takes the order's whole size off what remains
FillBug(o, size) ==
    [o EXCEPT !.remaining = @ - o.size,
              !.status = IF o.remaining = size THEN "filled" ELSE "partial"]
Fill(o, size) ==
    [o EXCEPT !.remaining = @ - size,
              !.status = IF o.remaining = size THEN "filled" ELSE "partial"]

\* (bug) a partly filled order leaves its level
AfterFillBug(L, id, o, size) == LevelRemove(L, o.side, o.price, size, id)
AfterFill(L, id, o, size) ==
    IF o.remaining = size THEN LevelRemove(L, o.side, o.price, size, id)
                          ELSE LevelReduce(L, o.side, o.price, size)

TradeOf(b, a, price, size) ==
    LET bidMakes == BidIsMaker(orders[b], orders[a])
        quote == QuoteAmount(price, size)
    IN  [maker |-> IF bidMakes THEN b ELSE a, taker |-> IF bidMakes THEN a ELSE b,
         side |-> IF bidMakes THEN "ask" ELSE "bid", price |-> price, size |-> size,
         quote |-> quote, fee |-> Fee(quote), height |-> height]

\* One turn of matchOrders between the first order of the best bid level (b)
\* and the first order of the best ask level (a).
Trades(b, a) ==
    LET bid == orders[b]
        ask == orders[a]
        price == IF BidIsMaker(bid, ask) THEN bid.price ELSE ask.price
        size == IF bid.remaining < ask.remaining THEN bid.remaining ELSE ask.remaining
        trade == TradeOf(b, a, price, size)
        key == <<height, call.index>>
        L == AfterFill(AfterFill(levels, b, bid, size), a, ask, size)
    IN  /\ trades' = [k \in DOMAIN trades \cup {key} |->
                         IF k = key THEN trade ELSE trades[k]]
        /\ tape' = Append(tape, trade)
        /\ orders' = [orders EXCEPT ![b] = Fill(bid, size), ![a] = Fill(ask, size)]
        /\ escrow' = AdjustEscrow(
                       AdjustEscrow(escrow, bid.owner, "quote", - QuoteAmount(price, size)),
                       ask.owner, "base", - size)
        /\ levels' = L
        /\ top' = TopOf(L, price)

MatchStep ==
    /\ call.op = "match"
    /\ call.left > 0
    /\ CanMatch
    /\ Trades(Head(levels["bid"][Best(levels, "bid")].ids),
              Head(levels["ask"][Best(levels, "ask")].ids))
    /\ call' = [call EXCEPT !.left = @ - 1, !.index = @ + 1]
    /\ UNCHANGED <<market, nextId, height, outcome>>

LoopOver == call.op = "match" /\ (call.left = 0 \/ ~ CanMatch)
Unfilled == call.order # NoOrder /\ orders[call.order].remaining > 0

\* The end of the loop when nothing is left to undo.
MatchEnd ==
    /\ LoopOver
    /\ ~ Unfilled
    /\ call' = Idle
    /\ UNCHANGED <<market, nextId, orders, levels, top, escrow, trades, tape, height,
                   outcome>>

\* The end of the loop for an ioc or fok order that is not filled: the rest
\* is cancelled, and the handler of a fok order throws.
MatchEndCancel ==
    /\ LoopOver
    /\ Unfilled
    /\ CancelInternal(call.order)
    /\ outcome' = IF call.fok THEN "throw" ELSE "ok"
    /\ call' = Idle
    /\ UNCHANGED <<market, nextId, trades, tape, height>>

\* The chain moves on between two instructions.
NextBlock ==
    /\ call = Idle
    /\ height < MaxHeight
    /\ height' = height + 1
    /\ UNCHANGED <<market, nextId, orders, levels, top, escrow, trades, tape, call,
                   outcome>>

Loop == MatchStep \/ MatchEnd \/ MatchEndCancel

Next ==
    \/ CreateMarket
    \/ \E t \in Traders, side \in Sides, price \in Prices, size \in Sizes,
          flags \in FlagSets : PlaceOrder(t, side, price, size, flags)
    \/ \E id \in DOMAIN orders : CancelOrder(id)
    \/ \E budget \in Budgets : StartMatch(budget)
    \/ Loop
    \/ NextBlock

Spec == Init /\ [][Next]_vars
-----------------------------------------------------------------------------
(* Properties.                                                             *)

Level == [aggregate : Int, ids : Seq(Nat)]
IsLevels(L) ==
    /\ L = [s \in Sides |-> L[s]]
    /\ \A s \in Sides : DOMAIN L[s] \subseteq Nat /\ L[s] \in [DOMAIN L[s] -> Level]

TypeOK ==
    /\ market \in {"none", "active"}
    /\ nextId \in Nat
    /\ DOMAIN orders \subseteq 0..(nextId - 1)
    /\ orders \in [DOMAIN orders -> Order]
    /\ IsLevels(levels)
    /\ top \in [bid : Price, ask : Price, last : Price]
    /\ escrow \in [Traders -> [Tokens -> Int]]
    /\ DOMAIN trades \subseteq Nat \X Nat
    /\ trades \in [DOMAIN trades -> Trade]
    /\ tape \in Seq(Trade)
    /\ height \in Nat
    /\ call \in [op : {"idle", "match"}, left : Nat, index : Nat,
                 order : Nat \cup {NoOrder}, fok : BOOLEAN]
    /\ call.order # NoOrder => call.order \in DOMAIN orders
    /\ outcome \in {"ok", "throw"}

Live(side) ==
    {id \in DOMAIN orders : orders[id].side = side
                            /\ orders[id].status \in {"open", "partial"}}
LiveAt(side, price) == {id \in Live(side) : orders[id].price = price}
Remaining(ids) == SumFunctionOnSet([id \in DOMAIN orders |-> orders[id].remaining], ids)

\* The price levels say of the live orders exactly what the orders say: every
\* level queues the live orders of its price and no other, in the order they
\* arrived, under the sum of what they have left (updatePriceLevel against
\* createOrder and updateOrder, exec.ts).
LevelsMirrorOrders ==
    \A side \in Sides :
        /\ {orders[id].price : id \in Live(side)} = DOMAIN levels[side]
        /\ \A p \in DOMAIN levels[side] :
              /\ ToSet(levels[side][p].ids) = LiveAt(side, p)
              /\ \A i, j \in DOMAIN levels[side][p].ids :
                    i < j => levels[side][p].ids[i] < levels[side][p].ids[j]
              /\ levels[side][p].aggregate = Remaining(LiveAt(side, p))

\* An order has sold or bought what the trades say, no more than its size, and
\* is filled exactly when all of it was (updateOrder calls of matchOrders
\* against the TRADE_EXECUTED events).
FillsMatchTape ==
    \A id \in DOMAIN orders :
        LET o == orders[id]
            filled == SumFunctionOnSet([i \in DOMAIN tape |-> tape[i].size],
                                       {i \in DOMAIN tape : id \in {tape[i].maker, tape[i].taker}})
        IN  IF o.status = "cancelled"
            THEN o.remaining = 0 /\ filled < o.size
            ELSE /\ o.remaining + filled = o.size
                 /\ o.status = "open" <=> filled = 0
                 /\ o.status = "filled" <=> o.remaining = 0

\* The cached top of the book is the best price among the live orders, which
\* is what post-only and the loop's first test rely on (updateTopOfBook).
Better(side, p, q) == (side = "bid" /\ p > q) \/ (side = "ask" /\ p < q)
TopIsBestLive ==
    LET IsBest(side, p) ==
            IF Live(side) = {} THEN p = NoPrice
            ELSE /\ \E id \in Live(side) : orders[id].price = p
                 /\ \A id \in Live(side) : ~ Better(side, orders[id].price, p)
    IN  IsBest("bid", top.bid) /\ IsBest("ask", top.ask)

\* Every trade is at a price both of its orders accept, whichever of the two
\* the code calls the maker (matchOrders).
NoTradeThrough ==
    \A i \in DOMAIN tape :
        LET t == tape[i]
            bid == IF t.side = "bid" THEN t.taker ELSE t.maker
            ask == IF t.side = "bid" THEN t.maker ELSE t.taker
        IN  /\ orders[bid].side = "bid" /\ orders[ask].side = "ask"
            /\ orders[ask].price <= t.price /\ t.price <= orders[bid].price

\* A trade is made for the order with priority on each side: no live order of
\* that side has a better price, none at the same price came earlier
\* (README: price-time priority matching).
PriceTimePriority ==
    [][Len(tape') > Len(tape) =>
         LET t == tape'[Len(tape')]
         IN  \A id \in {t.maker, t.taker} :
                LET o == orders[id]
                IN  \A other \in Live(o.side) :
                       /\ ~ Better(o.side, orders[other].price, o.price)
                       /\ orders[other].price = o.price => id <= other]_vars

\* An order that is filled or cancelled never changes again, a repeated
\* cancellation included (handleMKT_ORDER_CANCEL, matchOrders).
TerminalOrdersAreFinal ==
    [][\A id \in DOMAIN orders :
         orders[id].status \in {"filled", "cancelled"} => orders'[id] = orders[id]]_vars

\* A matching loop that stops before its budget is used up leaves no bid that
\* crosses an ask (the breaks of matchOrders).
DrainsTheCross ==
    call.op = "match" /\ call.left > 0 /\ call'.op = "idle" =>
        \A b \in Live("bid")', a \in Live("ask")' :
            orders'[b].price < orders'[a].price

\* An ioc or fok order is out of the book when its handler returns or throws,
\* and a fok handler succeeds only for an order that traded completely
\* (handleMKT_ORDER_PLACE).
ImmediateOrdersNeverRest ==
    call.op = "match" /\ call'.op = "idle" /\ call.order # NoOrder =>
        /\ orders'[call.order].status \in {"filled", "cancelled"}
        /\ call.fok => (outcome' = "ok" <=> orders'[call.order].status = "filled")

\* What a handler leaves behind when its matching loop ends, bounded or not.
MatchingEndsClean == [][DrainsTheCross /\ ImmediateOrdersNeverRest]_vars
=============================================================================
