--------------------------- MODULE MCLoginThrottle ---------------------------
(* Instances of LoginThrottle for TLC.                                     *)
EXTENDS LoginThrottle, TLC

(* Workers and addresses are interchangeable.                              *)
Symmetry == Permutations(Workers) \cup Permutations(Ips)
=============================================================================
