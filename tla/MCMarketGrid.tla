---------------------------- MODULE MCMarketGrid ----------------------------
(* The order book with grids on an instance small enough for TLC: one with a *)
(* bid and an ask, and a geometric one with two bids, at 1 and at 3 divided  *)
(* by four, which is no price.                                               *)
EXTENDS MarketGrid, TLC

CONSTANTS t1, t2

Grid(center, width, n, mode, ratio, size, bias) ==
    [centerPrice |-> center, halfWidth |-> width, levelsPerSide |-> n, mode |-> mode,
     geomRatio |-> ratio, totalBaseSize |-> size, sideBias |-> bias]
MCGridParams ==
    {Grid(3, 1, 1, "arith", 0, 4, Sides), Grid(3, 1, 2, "geom", 20, 4, {"bid"})}
TraderSymmetry == Permutations(Traders)
=============================================================================
