---------------------------- MODULE MCPaymaster -----------------------------
(* One paymaster with one sender, and, beside them, two addresses, two states *)
(* that pay rent and two calls.                                              *)
EXTENDS Economics, TLC
CONSTANTS patron, client, miner, s1, s2, c1, c2
MCMinActive == -1
EconomySymmetry == Permutations({c1, c2}) \cup Permutations({s1, s2})
=============================================================================
