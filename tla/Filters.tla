------------------------------- MODULE Filters --------------------------------
(* What filter does to an array, and delete to the order of a Map.           *)
EXTENDS Naturals, FiniteSets, Sequences

(* The elements of s that are in S, in their order: the k-th of them is the   *)
(* one that k - 1 of them precede.                                          *)
KeptIn(s, S) == {i \in DOMAIN s : s[i] \in S}
Before(K, i) == {j \in K : j < i}
Filtered(s, S) ==
    [k \in 1..Cardinality(KeptIn(s, S)) |-> s[CHOOSE i \in KeptIn(s, S) : Cardinality(Before(KeptIn(s, S), i)) = k - 1]]
===============================================================================
