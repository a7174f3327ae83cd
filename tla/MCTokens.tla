------------------------------ MODULE MCTokens ------------------------------
(* Two holders and one instance: a caller that is the owner, and another   *)
(* that is approved, operator or receiver.                                 *)
EXTENDS Tokens, TLC
MCMaxCalls == [FT |-> 4, NFT |-> 4, SFT |-> 5]
Symmetry == Permutations(Holders) \cup Permutations(TokenCalls)
=============================================================================
