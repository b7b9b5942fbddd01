----------------------------- MODULE MCLoginFlow -----------------------------
(* An instance of LoginFlow for TLC.                                       *)
EXTENDS LoginFlow, TLC

Symmetric == Permutations(Keys) \cup Permutations(Threads)
=============================================================================
