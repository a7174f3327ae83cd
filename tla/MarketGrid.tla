----------------------------- MODULE MarketGrid -----------------------------
(***************************************************************************)
(* Liquidity grids over the order book: SYS.MKT_GRID_CREATE and            *)
(* SYS.MKT_GRID_CANCEL of src/src/markets/exec.ts.  As in OrderBook each   *)
(* turn of a handler's loop is an action, and no other instruction is      *)
(* executed until the handler is through: `work` is its local state.       *)
(* A grid takes its identifier from the same counter as orders.            *)
(***************************************************************************)
EXTENDS OrderBook, Filters

CONSTANTS
    GridParams,     \* parameters a grid may be created with
    GeomScale,      \* GEOM_RATIO_SCALE
    MaxLevels,      \* MAX_LEVELS_PER_SIDE
    MaxOrders,      \* bound of the model: orders in all
    NoWork          \* no grid handler is under way

GridParam == [centerPrice : Nat, halfWidth : Nat, levelsPerSide : Nat, mode : {"arith", "geom"},
              geomRatio : Nat, totalBaseSize : Nat, sideBias : SUBSET Sides \ {{}}]
GridLevel == [side : Sides, price : Nat, size : Nat]
Creation == [op : {"create"}, id : Nat, owner : Traders, todo : Seq(GridLevel), made : Seq(Nat)]
Cancellation == [op : {"cancel"}, id : Nat, todo : Seq(Nat)]

ASSUME GridAssumption ==
    /\ GeomScale \in Nat \ {0} /\ MaxLevels \in Nat \ {0} /\ MaxOrders \in Nat
    /\ GridParams \subseteq GridParam
    /\ NoWork \notin Creation \cup Cancellation

VARIABLES
    grids,          \* grid identifier -> owner, orderIds, status
    work            \* the grid handler under way, with what it has left to do

gridVars == <<vars, grids, work>>

-----------------------------------------------------------------------------
(* computeGridLevels.                                                      *)

ValidParams(p) ==
    /\ p.centerPrice > 0 /\ p.halfWidth > 0 /\ p.totalBaseSize > 0
    /\ p.levelsPerSide \in 1..MaxLevels
    /\ p.mode = "geom" => p.geomRatio > GeomScale /\ p.geomRatio <= 2 * GeomScale

AlignToTick(price) == (price \div TickSize) * TickSize

\* The i-th price below or above the centre.
GridPrice(p, side, i) ==
    LET offset == (p.halfWidth \div p.levelsPerSide) * i
        multiplier[k \in 0..i] ==
            IF k = 0 THEN GeomScale ELSE (multiplier[k - 1] * p.geomRatio) \div GeomScale
    IN  AlignToTick(
          IF p.mode = "arith"
          THEN IF side = "bid" THEN p.centerPrice - offset ELSE p.centerPrice + offset
          ELSE IF side = "bid" THEN (p.centerPrice * GeomScale) \div multiplier[i]
                               ELSE (p.centerPrice * multiplier[i]) \div GeomScale)

SizePerLevel(p) == p.totalBaseSize \div (p.levelsPerSide * Cardinality(p.sideBias))

\* Bid and ask of each step away from the centre; a bid that would not be
\* positive is left out, and its share of the size with it.
GridLevels(p) ==
    LET At(side, i) == [side |-> side, price |-> GridPrice(p, side, i), size |-> SizePerLevel(p)]
        Pairs == [k \in 1..(2 * p.levelsPerSide) |->
                     At(IF k % 2 = 1 THEN "bid" ELSE "ask", (k + 1) \div 2)]
        Wanted == {l \in GridLevel : l.side \in p.sideBias /\ (l.side = "bid" => l.price > 0)}
    IN  Filtered(Pairs, Wanted)

\* Grids smaller than their number of levels, whose orders would have size zero,
\* are not among the inputs.
ASSUME GridSizeAssumption == \A p \in GridParams : ValidParams(p) => SizePerLevel(p) > 0

\* What the levels of one side lock, from the n-th level on.
Locked(todo, n, side) ==
    SumFunctionOnSet([i \in DOMAIN todo |-> LockedFor(side, todo[i].price, todo[i].size)],
                     {i \in DOMAIN todo : i >= n /\ todo[i].side = side})

-----------------------------------------------------------------------------
(* SYS.MKT_GRID_CREATE.                                                    *)

GridInit ==
    /\ Init
    /\ grids = [id \in {} |-> NoWork]
    /\ work = NoWork

\* Everything before the loop: all that the levels will need is locked.
GridCreate(t, p) ==
    LET todo == GridLevels(p)
    IN  /\ call = Idle /\ work = NoWork
        /\ market = "active"
        /\ ValidParams(p)
        /\ nextId + Len(todo) < MaxNonce
        /\ Cardinality(DOMAIN orders) + Len(todo) <= MaxOrders
        /\ escrow' = AdjustEscrow(AdjustEscrow(escrow, t, "base", Locked(todo, 1, "ask")),
                                  t, "quote", Locked(todo, 1, "bid"))
        /\ nextId' = nextId + 1
        /\ work' = [op |-> "create", id |-> nextId, owner |-> t, todo |-> todo, made |-> <<>>]
        /\ outcome' = "ok"
        /\ UNCHANGED <<market, orders, levels, top, trades, tape, height, call, grids>>

Under(op) == work # NoWork /\ work.op = op
Placing == Len(work.made) + 1

\* One turn of the loop: the order of a level rests, crossing or not.
GridPlace ==
    /\ Under("create") /\ Placing <= Len(work.todo)
    /\ LET l == work.todo[Placing]
       IN  /\ orders' = WithOrder(nextId, NewOrder(work.owner, l.side, l.price, l.size))
           /\ levels' = LevelAdd(levels, l.side, l.price, l.size, nextId)
    /\ nextId' = nextId + 1
    /\ work' = [work EXCEPT !.made = Append(@, nextId)]
    /\ UNCHANGED <<market, top, escrow, trades, tape, height, call, outcome, grids>>

GridCreated ==
    /\ Under("create") /\ Placing > Len(work.todo)
    /\ grids' = [id \in DOMAIN grids \cup {work.id} |->
                    IF id = work.id
                    THEN [owner |-> work.owner, orderIds |-> work.made, status |-> "active"]
                    ELSE grids[id]]
    /\ top' = TopOf(levels, top.last)
    /\ work' = NoWork
    /\ UNCHANGED <<market, nextId, orders, levels, escrow, trades, tape, height, call, outcome>>

-----------------------------------------------------------------------------
(* SYS.MKT_GRID_CANCEL, by the owner.                                      *)

\* (bug) the loop begins with the second order
GridCancelBug(id) ==
    /\ call = Idle /\ work = NoWork
    /\ id \in DOMAIN grids
    /\ grids[id].status # "cancelled"
    /\ work' = [op |-> "cancel", id |-> id, todo |-> Tail(grids[id].orderIds)]
    /\ outcome' = "ok"
    /\ UNCHANGED <<market, nextId, orders, levels, top, escrow, trades, tape, height, call,
                   grids>>
GridCancel(id) ==
    /\ call = Idle /\ work = NoWork
    /\ id \in DOMAIN grids
    /\ grids[id].status # "cancelled"
    /\ work' = [op |-> "cancel", id |-> id, todo |-> grids[id].orderIds]
    /\ outcome' = "ok"
    /\ UNCHANGED <<market, nextId, orders, levels, top, escrow, trades, tape, height, call,
                   grids>>

Open(id) == orders[id].status \notin {"filled", "cancelled"}

\* One turn of the loop: an order that is not closed is cancelled.
GridCancelOrder ==
    /\ Under("cancel") /\ work.todo # <<>>
    /\ LET id == Head(work.todo)
       IN  \/ Open(id) /\ CancelInternal(id)
           \/ ~ Open(id) /\ UNCHANGED <<escrow, levels, orders, top>>
    /\ work' = [work EXCEPT !.todo = Tail(@)]
    /\ UNCHANGED <<market, nextId, trades, tape, height, call, outcome, grids>>

GridCancelled ==
    /\ Under("cancel") /\ work.todo = <<>>
    /\ grids' = [grids EXCEPT ![work.id].status = "cancelled"]
    /\ work' = NoWork
    /\ UNCHANGED vars

\* An instruction on orders, with the bound on their number.
OrderInstruction ==
    /\ work = NoWork
    /\ Next
    /\ Cardinality(DOMAIN orders') <= MaxOrders
    /\ UNCHANGED <<grids, work>>

GridLoop == GridPlace \/ GridCreated \/ GridCancelOrder \/ GridCancelled

GridNext ==
    \/ OrderInstruction
    \/ \E t \in Traders, p \in GridParams : GridCreate(t, p)
    \/ \E id \in DOMAIN grids : GridCancel(id)
    \/ GridLoop

GridSpec == GridInit /\ [][GridNext]_gridVars
-----------------------------------------------------------------------------
(* Properties.                                                             *)

\* Orders, price levels, trades and the cached best prices are records of one
\* book, written by separate store calls.  The first three tell the same after
\* every step, and so do the best prices, except inside the loop that creates a
\* grid (updatePriceLevel, updateTopOfBook and updateOrder, exec.ts).
BookMirrorsOrders ==
    /\ LevelsMirrorOrders
    /\ FillsMatchTape
    /\ Under("create") \/ TopIsBestLive

\* What is locked for a trader covers what the live orders, and the levels of
\* a grid being created, may still have to pay, so adjustEscrow never throws in
\* the middle of a trade or a cancellation (adjustEscrow, store.ts; the sums of
\* handleMKT_GRID_CREATE).  The base is locked exactly.
EscrowCoversOrders ==
    \A t \in Traders :
        LET Own(side) == {id \in Live(side) : orders[id].owner = t}
            Pending(side) == IF Under("create") /\ work.owner = t
                             THEN Locked(work.todo, Placing, side) ELSE 0
            Quote == [id \in DOMAIN orders |-> QuoteAmount(orders[id].price, orders[id].remaining)]
        IN  /\ escrow[t]["base"] = Remaining(Own("ask")) + Pending("ask")
            /\ escrow[t]["quote"] >= SumFunctionOnSet(Quote, Own("bid")) + Pending("bid")

\* A cancelled grid has no order left in the book, whatever traded or was
\* cancelled before, and grids share no order (handleMKT_GRID_CANCEL).
CancelledGridsAreOut ==
    \A g \in DOMAIN grids :
        LET ids == ToSet(grids[g].orderIds)
        IN  /\ \A id \in ids : orders[id].owner = grids[g].owner
            /\ grids[g].status = "cancelled" => ids \cap (Live("bid") \cup Live("ask")) = {}
            /\ \A h \in DOMAIN grids \ {g} : ids \cap ToSet(grids[h].orderIds) = {}
=============================================================================
