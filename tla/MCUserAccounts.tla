--------------------------- MODULE MCUserAccounts ---------------------------
(* An instance of UserAccounts for TLC.                                    *)
EXTENDS UserAccounts, TLC

Symmetric == Permutations(Users) \cup Permutations(Threads)
=============================================================================
