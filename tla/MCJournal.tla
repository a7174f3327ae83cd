----------------------------- MODULE MCJournal ------------------------------
(* Final blocks in batches of two, and three configured chains of which one   *)
(* has no writer.                                                             *)
EXTENDS Journal, TLC

MCAdapters == <<"a", "b", "c">>
=============================================================================
