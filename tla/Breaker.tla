------------------------------- MODULE Breaker -------------------------------
(***************************************************************************)
(* The circuit breaker of accounts/circuit_breaker.py as a value and the   *)
(* operations on it.  Every method of the class runs under one lock, so a  *)
(* method is one operator.  CircuitBreaker.tla shares one breaker between  *)
(* the threads of a web process; EmailQueue.tla gives one to each notifier *)
(* process.                                                                *)
(*                                                                         *)
(* Time is kept as what is left of the cooldown: `open' is _opened_at /=   *)
(* 0.0, and `cool' is cooldown_seconds - (monotonic() - _opened_at), never *)
(* below 0, so "cooldown elapsed" is cool = 0.                             *)
(***************************************************************************)
EXTENDS Integers

CONSTANTS
  Threshold,   \* failure_threshold
  Cooldown,    \* cooldown_seconds, in ticks of the model's clock
  FailureCap   \* where the model's failure counter stops counting

(* The code never compares the counter with anything above the threshold,  *)
(* so saturating it at a cap at or above the threshold loses nothing.      *)
ASSUME BreakerAssumption ==
  /\ Threshold \in Nat \ {0}
  /\ Cooldown \in Nat \ {0}
  /\ FailureCap \in Nat
  /\ FailureCap >= Threshold

Breakers == [failures : 0 .. FailureCap, open : BOOLEAN, cool : 0 .. Cooldown]

Closed == [failures |-> 0, open |-> FALSE, cool |-> 0]

(***************************************************************************)
(* Plausible bugs, for the sensitivity checks: no probe is ever allowed, a *)
(* success clears only the counter or only the opening, a failed probe     *)
(* does not re-arm.                                                        *)
(***************************************************************************)
AllowOnlyClosed(b) == ~ b.open
SuccessKeepsOpen(b) == [b EXCEPT !.failures = 0]
SuccessKeepsCount(b) == [b EXCEPT !.open = FALSE, !.cool = 0]
FailureKeepsCooldown(b) ==
  LET n == IF b.failures = FailureCap THEN b.failures ELSE b.failures + 1
  IN  IF n >= Threshold /\ ~ b.open
      THEN [failures |-> n, open |-> TRUE, cool |-> Cooldown]
      ELSE [b EXCEPT !.failures = n]
-----------------------------------------------------------------------------
(* allow(): closed, or open with the cooldown elapsed.                     *)
Allow(b) == ~ b.open \/ b.cool = 0

RecordSuccess(b) == Closed

CountFailure(n) == IF n = FailureCap THEN n ELSE n + 1

(* A failure that finds the cooldown elapsed re-arms it and is not         *)
(* counted; any other failure is counted, and opens a closed breaker when  *)
(* it reaches the threshold.                                               *)
RecordFailure(b) ==
  IF b.open /\ b.cool = 0
  THEN [b EXCEPT !.cool = Cooldown]
  ELSE LET n == CountFailure(b.failures)
       IN  IF n >= Threshold /\ ~ b.open
           THEN [failures |-> n, open |-> TRUE, cool |-> Cooldown]
           ELSE [b EXCEPT !.failures = n]

(* One tick of the monotonic clock.                                        *)
Elapse(b) == [b EXCEPT !.cool = IF b.cool = 0 THEN 0 ELSE b.cool - 1]

=============================================================================
