------------------------------ MODULE MCBridge ------------------------------
(* Two requests for TLC that the liquidity covers one at a time; the second  *)
(* pays more than the least its client asks for.                             *)
EXTENDS Bridge, TLC
CONSTANTS r1, r2
Pays == r1 :> 2 @@ r2 :> 3
Asks == r1 :> 2 @@ r2 :> 2
=============================================================================
