--------------------------- MODULE CircuitBreaker ---------------------------
(***************************************************************************)
(* One breaker shared by the request threads of a web process, as av.py    *)
(* (clamd) and validators.py (HIBP) use it: ask allow(), make the call     *)
(* outside the lock, report the outcome.  Between the answer of allow()    *)
(* and the report any number of other threads may do the same, and the     *)
(* dependency may go down or come back.                                    *)
(***************************************************************************)
EXTENDS Breaker

CONSTANT Callers  \* threads of the process

VARIABLES
  shared,   \* the process's singleton
  call,     \* what each thread is doing
  probe,    \* was the thread's call let through by an open breaker
  up        \* is the dependency answering

callVars == <<shared, call, probe, up>>

(* A call in flight already has its fate, which its thread does not know:  *)
(* it met the dependency up ("ok") or down ("bad").                        *)
CallState == {"idle", "ok", "bad"}

CallTypeOK ==
  /\ shared \in Breakers
  /\ call \in [Callers -> CallState]
  /\ probe \in [Callers -> BOOLEAN]
  /\ up \in BOOLEAN

CallInit ==
  /\ shared = Closed
  /\ call = [c \in Callers |-> "idle"]
  /\ probe = [c \in Callers |-> FALSE]
  /\ up = TRUE

(* A refused thread takes its fail-open branch and changes nothing here,   *)
(* so only an allowed call is a step.                                      *)
StartCall(c) ==
  /\ call[c] = "idle"
  /\ Allow(shared)
  /\ call' = [call EXCEPT ![c] = IF up THEN "ok" ELSE "bad"]
  /\ probe' = [probe EXCEPT ![c] = shared.open]
  /\ UNCHANGED <<shared, up>>

Finish(c) ==
  /\ call' = [call EXCEPT ![c] = "idle"]
  /\ probe' = [probe EXCEPT ![c] = FALSE]
  /\ UNCHANGED up

CallSucceeds(c) ==
  /\ call[c] = "ok"
  /\ shared' = RecordSuccess(shared)
  /\ Finish(c)

CallFails(c) ==
  /\ call[c] = "bad"
  /\ shared' = RecordFailure(shared)
  /\ Finish(c)

(* validators.py reports only URLError, TimeoutError and OSError: another  *)
(* exception (a garbled HTTP reply) leaves the breaker as it was.          *)
CallEscapes(c) ==
  /\ call[c] = "bad"
  /\ Finish(c)
  /\ UNCHANGED shared

Tick ==
  /\ shared' = Elapse(shared)
  /\ UNCHANGED <<call, probe, up>>

GoDown == up /\ up' = FALSE /\ UNCHANGED <<shared, call, probe>>

ComeBack == ~ up /\ up' = TRUE /\ UNCHANGED <<shared, call, probe>>

CallNext ==
  \/ \E c \in Callers : StartCall(c) \/ CallSucceeds(c) \/ CallFails(c)
                                     \/ CallEscapes(c)
  \/ Tick
  \/ GoDown
  \/ ComeBack

(* Threads run, transports time out, and time passes; the dependency owes  *)
(* nothing.  WF of StartCall is traffic: without any, nothing probes.      *)
CallFairness ==
  /\ WF_callVars(Tick)
  /\ \A c \in Callers : WF_callVars(StartCall(c))
                     /\ WF_callVars(CallSucceeds(c))
                     /\ WF_callVars(CallFails(c) \/ CallEscapes(c))

CallSpec == CallInit /\ [][CallNext]_callVars /\ CallFairness

-----------------------------------------------------------------------------
(* The counter and the open flag agree whatever the order in which the     *)
(* threads report: a closed breaker is always below the threshold, and an  *)
(* open one at or above it, although a re-arming failure is not counted    *)
(* and late failures of calls started before the opening are.  The code    *)
(* keeps the two fields by separate assignments in record_failure.         *)
OpenIffThreshold ==
  /\ shared.open <=> shared.failures >= Threshold
  /\ ~ shared.open => shared.cool = 0

(* "HALF_OPEN --fail--> OPEN (cooldown restarts)": once any call reports a *)
(* failure to an open breaker, further calls are refused, whichever of     *)
(* several simultaneous probes it was and however late it reports.         *)
FailureWhileOpenRefuses ==
  [][\A c \in Callers :
       CallFails(c) /\ shared.open => shared'.open /\ ~ Allow(shared')]_callVars

(* Only an answer of the dependency closes the breaker: time, failures and *)
(* escaping exceptions never do.                                           *)
OnlySuccessCloses ==
  [][shared.open /\ ~ shared'.open => \E c \in Callers : CallSucceeds(c)]_callVars

(* A breaker never stays open on a dependency that came back for good: the *)
(* cooldown always ends, the next call probes, and the stragglers that     *)
(* failed before cannot keep it open.                                      *)
Recovers == <>[]up => <>[](~ shared.open)

(* The state machine in the module's docstring (lines 16-19): the cooldown *)
(* leads to HALF_OPEN, "the next call is a probe", that is, one call.      *)
SingleProbe ==
  \A c, d \in Callers : probe[c] /\ probe[d] => c = d
=============================================================================
