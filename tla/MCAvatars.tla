------------------------------ MODULE MCAvatars ------------------------------
(* An instance of Avatars for TLC.                                         *)
EXTENDS Avatars, TLC

Symmetric == Permutations(Threads) \cup Permutations(Files)
=============================================================================
