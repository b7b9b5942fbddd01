---------------------------- MODULE MCEmailQueue ----------------------------
(***************************************************************************)
(* Small instances of EmailQueue for TLC: the sequence of retry delays and *)
(* the lifetimes, which a configuration file cannot write down.            *)
(***************************************************************************)
EXTENDS EmailQueue

(* One tick after the first attempt, then one or two (base and jitter).    *)
MCSchedule == <<{1}, {1, 2}>>

(* A request without expires_at, and one that outlives a tick of time.     *)
MCLifetimes == {NoExpiry, 1}
=============================================================================
