---------------------------- MODULE MCAuditChain ----------------------------
(***************************************************************************)
(* The instances of AuditChain that TLC runs: one configuration for a      *)
(* database that serialises transactions, one for row locks only, and two  *)
(* that are kept beside the runs for what the code lets happen.            *)
(***************************************************************************)
EXTENDS AuditChain
=============================================================================
