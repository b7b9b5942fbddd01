--------------------------- MODULE Breaker_proofs ---------------------------
(***************************************************************************)
(* Proofs about the two users of a breaker: CircuitBreaker, the threads of *)
(* a web process, for any number of them, any threshold and any cooldown;  *)
(* and EmailQueue, the outbound mail, for any messages, notifiers,         *)
(* schedule, attempt limit and number of crashes.                          *)
(***************************************************************************)
EXTENDS CircuitBreaker, EmailQueue, TLAPS

(***************************************************************************)
(* The breaker.  The first lemmas settle what the operations do to a       *)
(* breaker value; an action changes the breaker by one of them or not at   *)
(* all.                                                                    *)
(***************************************************************************)
(* OpenIffThreshold of CircuitBreaker, as a predicate of a breaker value.  *)
Agrees(b) ==
  /\ b.open <=> b.failures >= Threshold
  /\ ~ b.open => b.cool = 0

SoundBreakers == {b \in Breakers : Agrees(b)}

LEMMA ClosedSound == Closed \in SoundBreakers
BY BreakerAssumption DEF Closed, SoundBreakers, Breakers, Agrees

(* A report of success or failure, and the clock, keep the two fields of   *)
(* the breaker in agreement and within their ranges.                       *)
LEMMA RecordSuccessSound == ASSUME NEW b \in SoundBreakers PROVE RecordSuccess(b) \in SoundBreakers
BY ClosedSound DEF RecordSuccess

LEMMA RecordFailureSound == ASSUME NEW b \in SoundBreakers PROVE RecordFailure(b) \in SoundBreakers
<1> USE BreakerAssumption DEF SoundBreakers, Breakers, Agrees
<1>1. CASE b.open /\ b.cool = 0
  BY <1>1 DEF RecordFailure
<1>2. CASE ~ (b.open /\ b.cool = 0)
  <2> DEFINE n == CountFailure(b.failures)
  <2>1. n \in 0 .. FailureCap /\ n >= b.failures
    BY DEF CountFailure
  <2>2. CASE n >= Threshold /\ ~ b.open
    BY <1>2, <2>1, <2>2 DEF RecordFailure
  <2>3. CASE ~ (n >= Threshold /\ ~ b.open)
    BY <1>2, <2>1, <2>3 DEF RecordFailure
  <2> QED BY <2>2, <2>3
<1> QED BY <1>1, <1>2

LEMMA ElapseSound == ASSUME NEW b \in SoundBreakers PROVE Elapse(b) \in SoundBreakers
BY BreakerAssumption DEF SoundBreakers, Breakers, Agrees, Elapse

-----------------------------------------------------------------------------
CallInv == CallTypeOK /\ shared \in SoundBreakers

LEMMA CallInitInv == CallInit => CallInv
BY ClosedSound DEF CallInit, CallInv, CallTypeOK, CallState, SoundBreakers

LEMMA CallNextInv == CallInv /\ [CallNext]_callVars => CallInv'
<1> SUFFICES ASSUME CallInv, [CallNext]_callVars PROVE CallInv'
  OBVIOUS
<1> USE DEF CallInv, CallTypeOK, CallState, SoundBreakers
<1>1. ASSUME NEW c \in Callers, StartCall(c) PROVE CallInv'
  BY <1>1 DEF StartCall, Breakers
<1>2. ASSUME NEW c \in Callers, CallSucceeds(c) PROVE CallInv'
  BY <1>2, RecordSuccessSound DEF CallSucceeds, Finish
<1>3. ASSUME NEW c \in Callers, CallFails(c) PROVE CallInv'
  BY <1>3, RecordFailureSound DEF CallFails, Finish
<1>4. ASSUME NEW c \in Callers, CallEscapes(c) PROVE CallInv'
  BY <1>4 DEF CallEscapes, Finish
<1>5. CASE Tick
  BY <1>5, ElapseSound DEF Tick
<1>6. CASE GoDown \/ ComeBack
  BY <1>6 DEF GoDown, ComeBack
<1>7. CASE UNCHANGED callVars
  BY <1>7 DEF callVars
<1> QED BY <1>1, <1>2, <1>3, <1>4, <1>5, <1>6, <1>7 DEF CallNext

LEMMA CallAlwaysInv == CallSpec => []CallInv
BY CallInitInv, CallNextInv, PTL DEF CallSpec

(* Every thread, the breaker and the dependency stay within their ranges:  *)
(* the failure counter and the remaining cooldown never leave theirs.      *)
THEOREM CallsTypeCorrect == CallSpec => []CallTypeOK
<1>1. CallInv => CallTypeOK
  BY DEF CallInv
<1> QED BY <1>1, CallAlwaysInv, PTL

(* The open flag and the counter of CircuitBreaker agree, for any number   *)
(* of threads reporting in any order.                                      *)
THEOREM OpenAgreesWithCount == CallSpec => []OpenIffThreshold
<1>1. CallInv => OpenIffThreshold
  BY DEF CallInv, SoundBreakers, Agrees, OpenIffThreshold
<1> QED BY <1>1, CallAlwaysInv, PTL

-----------------------------------------------------------------------------
(* A failure that meets an open breaker leaves it open and refusing:       *)
(* record_failure re-arms the cooldown or finds it still running.          *)
THEOREM FailureRefuses == CallSpec => FailureWhileOpenRefuses
<1>1. CallInv /\ [CallNext]_callVars =>
        [\A c \in Callers :
           CallFails(c) /\ shared.open => shared'.open /\ ~ Allow(shared')]_callVars
  <2> SUFFICES ASSUME CallInv, NEW c \in Callers, CallFails(c), shared.open
               PROVE  shared'.open /\ ~ Allow(shared')
    OBVIOUS
  <2> USE BreakerAssumption DEF CallInv, SoundBreakers, Breakers, CallFails, RecordFailure, Allow
  <2>1. CASE shared.cool = 0
    BY <2>1
  <2>2. CASE shared.cool # 0
    BY <2>2
  <2> QED BY <2>1, <2>2
<1> QED BY <1>1, CallAlwaysInv, PTL DEF CallSpec, FailureWhileOpenRefuses

(* Nothing but an answer of the dependency closes an open breaker.         *)
THEOREM SuccessAloneCloses == CallSpec => OnlySuccessCloses
<1>1. CallInv /\ [CallNext]_callVars =>
        [shared.open /\ ~ shared'.open => \E c \in Callers : CallSucceeds(c)]_callVars
  <2> SUFFICES ASSUME CallInv, CallNext, shared.open, ~ shared'.open
               PROVE  \E c \in Callers : CallSucceeds(c)
    OBVIOUS
  <2> USE DEF CallInv, SoundBreakers, Breakers
  <2>1. ASSUME NEW c \in Callers, CallFails(c) PROVE FALSE
    BY <2>1 DEF CallFails, RecordFailure
  <2>2. ASSUME NEW c \in Callers, StartCall(c) \/ CallEscapes(c) PROVE FALSE
    BY <2>2 DEF StartCall, CallEscapes
  <2>3. ~ (Tick \/ GoDown \/ ComeBack)
    BY DEF Tick, Elapse, GoDown, ComeBack
  <2> QED BY <2>1, <2>2, <2>3 DEF CallNext
<1> QED BY <1>1, CallAlwaysInv, PTL DEF CallSpec, OnlySuccessCloses

-----------------------------------------------------------------------------
(***************************************************************************)
(* The mail queue.                                                         *)
(*                                                                         *)
(* The inductive invariant has four parts beside the types.  Locks: a      *)
(* worker inside its transaction holds a pending row, and no other worker  *)
(* holds that row.  Content: a row exists exactly once the request thread  *)
(* has inserted it, and while it is pending it can be sent.  Counts: every *)
(* acceptance is either the recorded one or one that nobody could record.  *)
(* Audits: the trail follows the row.  Counts and Audits need Locks: the   *)
(* row a worker reports on is still the pending row it took.               *)
(***************************************************************************)
Locks ==
  /\ \A w \in Workers :
       InTransaction(w) => job[w] \in Msgs /\ status[job[w]] = "pending"
  /\ OneSender

Content ==
  \A m \in Msgs :
    /\ request[m] \in {"new", "sending", "accepted", "raised"} => status[m] = "none"
    /\ request[m] = "queued" => status[m] # "none"
    /\ status[m] = "pending" => body[m] /\ attempts[m] < MaxAttempts

(* Has the program taken note of an acceptance, or will it unless it dies. *)
Recorded(m) ==
  \/ request[m] = "accepted"
  \/ request[m] = "answered" /\ status[m] = "none"
  \/ status[m] = "sent"
  \/ \E w \in Workers : phase[w] = "accepted" /\ job[w] = m

Counts ==
  \A m \in Msgs : accepted[m] = unsure[m] + (IF Recorded(m) THEN 1 ELSE 0)

Audits ==
  \A m \in Msgs :
    /\ trail[m].delivered = (IF status[m] = "sent" THEN 1 ELSE 0)
    /\ trail[m].gaveUp = (IF status[m] = "failed" THEN 1 ELSE 0)
    /\ trail[m].queued \in {0, 1}
    /\ request[m] \in RequestStates \ {"answered", "died"} => trail[m].queued = 0
    /\ request[m] = "answered" /\ status[m] # "none" => trail[m].queued = 1

Inv == TypeOK /\ Locks /\ Content /\ Counts /\ Audits

-----------------------------------------------------------------------------
(* What a user of the breaker needs to know of it to be well typed.        *)
LEMMA BreakerTypes ==
  ASSUME NEW b \in Breakers
  PROVE  /\ Closed \in Breakers
         /\ RecordSuccess(b) \in Breakers
         /\ RecordFailure(b) \in Breakers
         /\ Elapse(b) \in Breakers
<1> USE BreakerAssumption DEF Breakers
<1>1. Closed \in Breakers /\ RecordSuccess(b) \in Breakers
  BY DEF Closed, RecordSuccess
<1>2. RecordFailure(b) \in Breakers
  <2>1. CountFailure(b.failures) \in 0 .. FailureCap
    BY DEF CountFailure
  <2> QED BY <2>1 DEF RecordFailure
<1>3. Elapse(b) \in Breakers
  BY DEF Elapse
<1> QED BY <1>1, <1>2, <1>3

LEMMA RetryDelaysType ==
  ASSUME NEW n \in Nat \ {0} PROVE RetryDelays(n) \subseteq Nat
<1>1. (IF n < Len(Schedule) THEN n ELSE Len(Schedule)) \in 1 .. Len(Schedule)
  BY EmailQueueAssumption
<1> QED BY <1>1, EmailQueueAssumption DEF RetryDelays

LEMMA Bounds ==
  /\ MaxAttempts \in Nat /\ MaxAttempts >= 2
  /\ MaxCrashes \in Nat
  /\ NoMsg \notin Msgs
BY EmailQueueAssumption

LEMMA TrailTypes ==
  ASSUME NEW t \in [Msgs -> Trails], NEW m \in Msgs
  PROVE  /\ [t EXCEPT ![m].queued = t[m].queued + 1] \in [Msgs -> Trails]
         /\ [t EXCEPT ![m].gaveUp = t[m].gaveUp + 1] \in [Msgs -> Trails]
         /\ [t EXCEPT ![m].delivered = t[m].delivered + 1] \in [Msgs -> Trails]
<1>1. t[m] \in Trails
  OBVIOUS
<1>2. /\ [t[m] EXCEPT !.queued = t[m].queued + 1] \in Trails
      /\ [t[m] EXCEPT !.gaveUp = t[m].gaveUp + 1] \in Trails
      /\ [t[m] EXCEPT !.delivered = t[m].delivered + 1] \in Trails
  BY <1>1 DEF Trails
<1> QED BY <1>2

LEMMA InitInv == Init => Inv
<1> SUFFICES ASSUME Init PROVE Inv
  OBVIOUS
<1> USE EmailQueueAssumption DEF Init
<1>1. TypeOK
  BY BreakerAssumption DEF TypeOK, RequestStates, Statuses, Phases, NoTrail, Trails,
     NoExpiry, Breakers, Closed
<1>2. Locks /\ Content
  BY DEF Locks, OneSender, InTransaction, Content
<1>3. Counts /\ Audits
  BY DEF Counts, Recorded, Audits, NoTrail, RequestStates
<1> QED BY <1>1, <1>2, <1>3 DEF Inv

-----------------------------------------------------------------------------
(* The request thread and the administrator move no worker; a worker moves *)
(* no request.  Types first.                                               *)
LEMMA RequestTypes ==
  ASSUME Inv, NEW m \in Msgs, RequestStep(m) \/ RetryNow(m)
  PROVE  TypeOK'
<1> USE DEF Inv, TypeOK, Move, mail, worker, history, RequestStates, Statuses
<1>1. CASE Request(m)
  BY <1>1, EmailQueueAssumption DEF Request, NoExpiry
<1>2. CASE InlineAccepted(m)
  <2>1. accepted[m] + 1 \in Nat
    OBVIOUS
  <2> QED BY <1>2, <2>1 DEF InlineAccepted
<1>3. CASE InlineReturns(m)
  BY <1>3 DEF InlineReturns
<1>4. CASE InlineRaises(m)
  BY <1>4 DEF InlineRaises
<1>5. CASE Enqueue(m)
  BY <1>5, Bounds, RetryDelaysType DEF Enqueue
<1>6. CASE AuditQueued(m)
  BY <1>6, TrailTypes DEF AuditQueued
<1>7. CASE RequestDies(m)
  BY <1>7, Bounds DEF RequestDies
<1>8. CASE RetryNow(m)
  BY <1>8 DEF RetryNow
<1> QED BY <1>1, <1>2, <1>3, <1>4, <1>5, <1>6, <1>7, <1>8 DEF RequestStep

LEMMA WorkerTypes ==
  ASSUME Inv, NEW w \in Workers, WorkerStep(w)
  PROVE  TypeOK'
<1> USE BreakerTypes DEF Inv, TypeOK, mail, worker, history, Statuses, Phases
<1>1. CASE BeginTick(w)
  BY <1>1 DEF BeginTick, Due
<1>2. CASE EndTick(w)
  BY <1>2 DEF EndTick
<1>3. ASSUME NEW m \in Msgs, SkipRow(w, m) PROVE TypeOK'
  BY <1>3 DEF SkipRow, Reach
<1>4. ASSUME NEW m \in Msgs, DropExpired(w, m) PROVE TypeOK'
  BY <1>4, TrailTypes DEF DropExpired, Reach
<1>5. ASSUME NEW m \in Msgs, TakeRow(w, m) PROVE TypeOK'
  BY <1>5 DEF TakeRow, Reach
<1>6. CASE Accepted(w)
  BY <1>6 DEF Accepted, Locks, InTransaction
<1>7. CASE Delivered(w)
  <2>1. job[w] \in Msgs
    BY <1>7 DEF Delivered, Locks, InTransaction
  <2> QED BY <1>7, <2>1, TrailTypes DEF Delivered, NextRow
<1>8. CASE SendRaises(w)
  <2>1. job[w] \in Msgs /\ attempts[job[w]] < MaxAttempts
    BY <1>8 DEF SendRaises, Locks, Content
  <2>2. attempts[job[w]] + 1 \in 1 .. MaxAttempts
    BY <2>1, Bounds
  <2>3. RetryDelays(attempts[job[w]] + 1) \subseteq Nat
    BY <2>2, Bounds, RetryDelaysType
  <2>4. attempts' \in [Msgs -> 0 .. MaxAttempts] /\ unsure' \in [Msgs -> Nat]
    BY <1>8, <2>1, <2>2 DEF SendRaises
  <2>5. status' \in [Msgs -> Statuses] /\ trail' \in [Msgs -> Trails]
    <3>1. [trail EXCEPT ![job[w]].gaveUp = trail[job[w]].gaveUp + 1] \in [Msgs -> Trails]
      BY <2>1, TrailTypes
    <3> QED BY <1>8, <2>1, <3>1 DEF SendRaises
  <2>6. retryIn' \in [Msgs -> Nat]
    BY <1>8, <2>1, <2>3 DEF SendRaises
  <2> QED BY <1>8, <2>4, <2>5, <2>6 DEF SendRaises, NextRow
<1>9. CASE WorkerDies(w)
  <2>1. phase[w] = "accepted" => job[w] \in Msgs
    BY DEF Locks, InTransaction
  <2>2. unsure' \in [Msgs -> Nat] /\ crashes' \in 0 .. MaxCrashes
    BY <1>9, <2>1, Bounds DEF WorkerDies
  <2> QED BY <1>9, <2>2 DEF WorkerDies
<1>10. CASE NewProcess(w)
  BY <1>10 DEF NewProcess
<1> QED BY <1>1, <1>2, <1>3, <1>4, <1>5, <1>6, <1>7, <1>8, <1>9, <1>10
        DEF WorkerStep

-----------------------------------------------------------------------------
(* What a request step does to the rows: at most, it inserts one.          *)
LEMMA RequestRows ==
  ASSUME Inv, NEW m \in Msgs, RequestStep(m) \/ RetryNow(m)
  PROVE  /\ UNCHANGED worker
         /\ \A x \in Msgs : status[x] = "pending" => status'[x] = "pending"
<1> USE DEF Inv, TypeOK, mail, worker
<1>1. CASE Enqueue(m)
  BY <1>1 DEF Enqueue, Move
<1>2. CASE ~ Enqueue(m)
  BY <1>2 DEF RequestStep, Request, InlineAccepted, InlineReturns, InlineRaises,
              AuditQueued, RequestDies, RetryNow
<1> QED BY <1>1, <1>2

LEMMA RequestLocks ==
  ASSUME Inv, NEW m \in Msgs, RequestStep(m) \/ RetryNow(m)
  PROVE  Locks'
BY RequestRows DEF Inv, Locks, OneSender, InTransaction, worker

(* A worker enters a transaction only with a row nobody holds, and changes *)
(* the status of a row only when it holds it or leaves it behind.          *)
LEMMA WorkerLocks ==
  ASSUME Inv, NEW w \in Workers, WorkerStep(w)
  PROVE  Locks'
<1> USE DEF Inv, TypeOK, Locks, OneSender, InTransaction, mail
<1>1. CASE BeginTick(w) \/ EndTick(w) \/ NewProcess(w)
  BY <1>1 DEF BeginTick, EndTick, NewProcess
<1>2. ASSUME NEW m \in Msgs, SkipRow(w, m) PROVE Locks'
  BY <1>2 DEF SkipRow
<1>3. ASSUME NEW m \in Msgs, DropExpired(w, m) PROVE Locks'
  BY <1>3 DEF DropExpired, Available, Locked
<1>4. ASSUME NEW m \in Msgs, TakeRow(w, m) PROVE Locks'
  BY <1>4 DEF TakeRow, Available, Locked
<1>5. CASE Accepted(w)
  BY <1>5 DEF Accepted
<1>6. CASE Delivered(w)
  BY <1>6 DEF Delivered, NextRow
<1>7. CASE SendRaises(w)
  BY <1>7 DEF SendRaises, NextRow
<1>8. CASE WorkerDies(w)
  BY <1>8 DEF WorkerDies
<1> QED BY <1>1, <1>2, <1>3, <1>4, <1>5, <1>6, <1>7, <1>8 DEF WorkerStep

-----------------------------------------------------------------------------
LEMMA RequestContent ==
  ASSUME Inv, NEW m \in Msgs, RequestStep(m) \/ RetryNow(m)
  PROVE  Content'
<1> USE DEF Inv, TypeOK, Content, mail
<1>1. CASE Enqueue(m)
  BY <1>1, Bounds DEF Enqueue, Move
<1>2. CASE RetryNow(m)
  BY <1>2 DEF RetryNow
<1>3. CASE RequestStep(m) /\ ~ Enqueue(m)
  <2>1. UNCHANGED mail
    BY <1>3 DEF RequestStep, Request, InlineAccepted, InlineReturns,
                InlineRaises, AuditQueued, RequestDies
  <2>2. PICK to \in RequestStates :
          /\ request' = [request EXCEPT ![m] = to]
          /\ to \in {"sending", "accepted", "raised"} => status[m] = "none"
          /\ to \notin {"new", "queued"}
    BY <1>3 DEF RequestStep, Request, InlineAccepted, InlineReturns,
                InlineRaises, AuditQueued, RequestDies, Move, RequestStates
  <2> QED BY <2>1, <2>2 DEF RequestStates
<1> QED BY <1>1, <1>2, <1>3

LEMMA WorkerContent ==
  ASSUME Inv, NEW w \in Workers, WorkerStep(w)
  PROVE  Content'
<1> USE DEF Inv, TypeOK, Content, mail
<1>1. CASE BeginTick(w) \/ EndTick(w) \/ NewProcess(w) \/ Accepted(w) \/ WorkerDies(w)
  BY <1>1 DEF BeginTick, EndTick, NewProcess, Accepted, WorkerDies
<1>2. ASSUME NEW m \in Msgs, SkipRow(w, m) \/ TakeRow(w, m) PROVE Content'
  BY <1>2 DEF SkipRow, TakeRow
<1>3. ASSUME NEW m \in Msgs, DropExpired(w, m) PROVE Content'
  BY <1>3 DEF DropExpired, Available
<1>4. CASE Delivered(w)
  BY <1>4 DEF Delivered, Locks, InTransaction
<1>5. CASE SendRaises(w)
  <2>1. job[w] \in Msgs /\ status[job[w]] = "pending"
    BY <1>5 DEF SendRaises, Locks
  <2>2. attempts' = [attempts EXCEPT ![job[w]] = attempts[job[w]] + 1]
    BY <1>5 DEF SendRaises
  <2>3. UNCHANGED <<request, body>>
    BY <1>5 DEF SendRaises
  <2>4. CASE status' = [status EXCEPT ![job[w]] = "failed"]
    BY <2>1, <2>2, <2>3, <2>4
  <2>5. CASE attempts[job[w]] + 1 < MaxAttempts /\ UNCHANGED status
    BY <2>1, <2>2, <2>3, <2>5
  <2>6. ~ GivesUp(attempts[job[w]] + 1) => attempts[job[w]] + 1 < MaxAttempts
    BY <2>1, Bounds DEF GivesUp
  <2> QED BY <1>5, <2>4, <2>5, <2>6 DEF SendRaises
<1> QED BY <1>1, <1>2, <1>3, <1>4, <1>5 DEF WorkerStep

-----------------------------------------------------------------------------
(* Counts.  A step about message m leaves what is recorded of the others.  *)
LEMMA RequestCounts ==
  ASSUME Inv, NEW m \in Msgs, RequestStep(m) \/ RetryNow(m)
  PROVE  Counts'
<1> DEFINE Held(x) == \E w \in Workers : phase[w] = "accepted" /\ job[w] = x
<1>1. \A x \in Msgs : Held(x) => status[x] = "pending"
  BY DEF Inv, Locks, InTransaction
<1>2. \A x \in Msgs : Held(x)' <=> Held(x)
  BY RequestRows DEF worker
<1>3. CASE RetryNow(m)
  BY <1>3 DEF RetryNow, Inv, Counts, Recorded, worker, history
<1>4. CASE RequestStep(m)
  <2> HIDE DEF Held
  <2> USE DEF Inv, TypeOK, Content, Counts, Recorded, Move, mail, history
  <2> USE <1>1, <1>2
  <2>0. \A x \in Msgs :
           (Recorded(x) <=> \/ request[x] = "accepted"
                            \/ request[x] = "answered" /\ status[x] = "none"
                            \/ status[x] = "sent"
                            \/ Held(x))
    BY DEF Held
  <2>1. \A x \in Msgs :
           (Recorded(x)' <=> \/ request'[x] = "accepted"
                             \/ request'[x] = "answered" /\ status'[x] = "none"
                             \/ status'[x] = "sent"
                             \/ Held(x))
    BY DEF Held
  <2> HIDE DEF Recorded
  <2>2. CASE Request(m)
    BY <2>0, <2>1, <2>2 DEF Request
  <2>3. CASE InlineAccepted(m)
    BY <2>0, <2>1, <2>3 DEF InlineAccepted
  <2>4. CASE InlineReturns(m)
    BY <2>0, <2>1, <2>4 DEF InlineReturns
  <2>5. CASE InlineRaises(m)
    BY <2>0, <2>1, <2>5 DEF InlineRaises
  <2>6. CASE Enqueue(m)
    BY <2>0, <2>1, <2>6 DEF Enqueue
  <2>7. CASE AuditQueued(m)
    BY <2>0, <2>1, <2>7 DEF AuditQueued
  <2>8. CASE RequestDies(m)
    BY <2>0, <2>1, <2>8 DEF RequestDies
  <2> QED BY <1>4, <2>2, <2>3, <2>4, <2>5, <2>6, <2>7, <2>8 DEF RequestStep
<1> QED BY <1>3, <1>4

LEMMA WorkerCounts ==
  ASSUME Inv, NEW w \in Workers, WorkerStep(w)
  PROVE  Counts'
<1> USE DEF Inv, TypeOK, Counts, Recorded, mail, history
<1>1. CASE BeginTick(w) \/ EndTick(w) \/ NewProcess(w)
  BY <1>1 DEF BeginTick, EndTick, NewProcess
<1>2. ASSUME NEW m \in Msgs, SkipRow(w, m) PROVE Counts'
  BY <1>2 DEF SkipRow
<1>3. ASSUME NEW m \in Msgs, TakeRow(w, m) PROVE Counts'
  BY <1>3 DEF TakeRow, Reach
<1>4. ASSUME NEW m \in Msgs, DropExpired(w, m) PROVE Counts'
  BY <1>4 DEF DropExpired, Available
<1>5. CASE Accepted(w)
  BY <1>5 DEF Accepted, Locks, OneSender, InTransaction, Content
<1>6. CASE Delivered(w)
  BY <1>6 DEF Delivered, NextRow, Locks, OneSender, InTransaction, Content
<1>7. CASE SendRaises(w)
  BY <1>7 DEF SendRaises, NextRow, Locks, OneSender, InTransaction, Content
<1>8. CASE WorkerDies(w)
  BY <1>8 DEF WorkerDies, Locks, OneSender, InTransaction, Content
<1> QED BY <1>1, <1>2, <1>3, <1>4, <1>5, <1>6, <1>7, <1>8 DEF WorkerStep

-----------------------------------------------------------------------------
LEMMA RequestAudits ==
  ASSUME Inv, NEW m \in Msgs, RequestStep(m) \/ RetryNow(m)
  PROVE  Audits'
<1> USE DEF Inv, TypeOK, Audits, Content, Move, RequestStates, mail, history, Trails
<1>1. CASE Enqueue(m)
  BY <1>1 DEF Enqueue
<1>2. CASE AuditQueued(m)
  BY <1>2 DEF AuditQueued
<1>3. CASE RetryNow(m)
  BY <1>3 DEF RetryNow
<1>4. CASE Request(m) \/ InlineAccepted(m) \/ InlineReturns(m) \/ InlineRaises(m)
           \/ RequestDies(m)
  BY <1>4 DEF Request, InlineAccepted, InlineReturns, InlineRaises, RequestDies
<1> QED BY <1>1, <1>2, <1>3, <1>4 DEF RequestStep

LEMMA WorkerAudits ==
  ASSUME Inv, NEW w \in Workers, WorkerStep(w)
  PROVE  Audits'
<1> USE DEF Inv, TypeOK, Audits, RequestStates, mail, history, Trails
<1>1. CASE BeginTick(w) \/ EndTick(w) \/ NewProcess(w) \/ Accepted(w) \/ WorkerDies(w)
  BY <1>1 DEF BeginTick, EndTick, NewProcess, Accepted, WorkerDies
<1>2. ASSUME NEW m \in Msgs, SkipRow(w, m) \/ TakeRow(w, m) PROVE Audits'
  BY <1>2 DEF SkipRow, TakeRow
<1>3. ASSUME NEW m \in Msgs, DropExpired(w, m) PROVE Audits'
  BY <1>3 DEF DropExpired, Available
<1>4. CASE Delivered(w)
  BY <1>4 DEF Delivered, Locks, InTransaction
<1>5. CASE SendRaises(w)
  <2>1. job[w] \in Msgs /\ status[job[w]] = "pending" /\ UNCHANGED request
    BY <1>5 DEF SendRaises, Locks
  <2>2. CASE UNCHANGED <<status, trail>>
    BY <2>1, <2>2
  <2>3. CASE /\ status' = [status EXCEPT ![job[w]] = "failed"]
             /\ trail' = [trail EXCEPT ![job[w]].gaveUp = trail[job[w]].gaveUp + 1]
    BY <2>1, <2>3
  <2> QED BY <1>5, <2>2, <2>3 DEF SendRaises
<1> QED BY <1>1, <1>2, <1>3, <1>4, <1>5 DEF WorkerStep

-----------------------------------------------------------------------------
LEMMA TimeInv == ASSUME Inv, TimePasses PROVE Inv'
<1> USE DEF Inv, TypeOK, TimePasses, history
<1>1. TypeOK'
  BY BreakerTypes DEF Sooner, NoExpiry
<1>2. Locks' /\ Content'
  BY DEF Locks, OneSender, InTransaction, Content
<1>3. Counts' /\ Audits'
  BY DEF Counts, Recorded, Audits
<1> QED BY <1>1, <1>2, <1>3

LEMMA StutterInv == ASSUME Inv, UNCHANGED vars PROVE Inv'
BY DEF Inv, vars, TypeOK, Locks, OneSender, InTransaction, Content, Counts,
       Recorded, Audits

LEMMA NextInv == Inv /\ [Next]_vars => Inv'
<1> SUFFICES ASSUME Inv, [Next]_vars PROVE Inv'
  OBVIOUS
<1>1. ASSUME NEW m \in Msgs, RequestStep(m) \/ RetryNow(m) PROVE Inv'
  BY <1>1, RequestTypes, RequestLocks, RequestContent, RequestCounts,
     RequestAudits DEF Inv
<1>2. ASSUME NEW w \in Workers, WorkerStep(w) PROVE Inv'
  BY <1>2, WorkerTypes, WorkerLocks, WorkerContent, WorkerCounts, WorkerAudits
     DEF Inv
<1>3. CASE TimePasses
  BY <1>3, TimeInv
<1>4. CASE UNCHANGED vars
  BY <1>4, StutterInv
<1> QED BY <1>1, <1>2, <1>3, <1>4 DEF Next

LEMMA AlwaysInv == Spec => []Inv
BY InitInv, NextInv, PTL DEF Spec

-----------------------------------------------------------------------------
(* Rows, workers, counters and trail stay within their types; in           *)
(* particular no row counts more than MaxAttempts attempts.                *)
THEOREM TypeCorrect == Spec => []TypeOK
<1>1. Inv => TypeOK
  BY DEF Inv
<1> QED BY <1>1, AlwaysInv, PTL

(* No two notifiers ever talk to the server about the same row at once.    *)
THEOREM SendersExclude == Spec => []OneSender
<1>1. Inv => OneSender
  BY DEF Inv, Locks
<1> QED BY <1>1, AlwaysInv, PTL

(* Whatever is picked up for sending still has its body and an attempt.    *)
THEOREM RowsStaySendable == Spec => []RowsSendable
<1>1. Inv => RowsSendable
  BY DEF Inv, Locks, Content, RowsSendable
<1> QED BY <1>1, AlwaysInv, PTL

(* A server takes a message twice only after an acceptance the program     *)
(* could not record: at-least-once delivery has no other duplicates.       *)
THEOREM DuplicatesExplained == Spec => []AcceptedOnceUnlessUnsure
<1>1. Inv => AcceptedOnceUnlessUnsure
  <2> SUFFICES ASSUME Inv, NEW m \in Msgs PROVE accepted[m] <= unsure[m] + 1
    BY DEF AcceptedOnceUnlessUnsure
  <2>1. unsure[m] \in Nat
    BY DEF Inv, TypeOK
  <2>2. accepted[m] = unsure[m] \/ accepted[m] = unsure[m] + 1
    BY <2>1 DEF Inv, Counts
  <2> QED BY <2>1, <2>2
<1> QED BY <1>1, AlwaysInv, PTL

(* The audit rows and the queue row agree in every reachable state.        *)
THEOREM TrailFollowsRow == Spec => []TrailMatches
<1>1. Inv => TrailMatches
  <2> SUFFICES ASSUME Inv PROVE TrailMatches
    OBVIOUS
  <2>1. \A m \in Msgs : request[m] \in RequestStates /\ trail[m] \in Trails
    BY DEF Inv, TypeOK
  <2> QED BY <2>1 DEF Inv, Audits, Content, TrailMatches, RequestStates, Trails
<1> QED BY <1>1, AlwaysInv, PTL

-----------------------------------------------------------------------------
(* The refinement needs one fact more: what a tick found expired has       *)
(* stayed so, and nothing has expired that nobody has asked to send.       *)
Expiries ==
  /\ \A w \in Workers : \A m \in late[w] : expiresIn[m] = 0 /\ request[m] # "new"
  /\ \A m \in Msgs : request[m] = "new" => expiresIn[m] = NoExpiry

LEMMA InitExpiries == Init => Expiries
BY DEF Init, Expiries

LEMMA NextExpiries == Inv /\ Expiries /\ [Next]_vars => Expiries'
<1> SUFFICES ASSUME Inv, Expiries, [Next]_vars PROVE Expiries'
  OBVIOUS
<1> USE DEF Inv, TypeOK, Expiries
<1>1. ASSUME NEW m \in Msgs, Request(m) PROVE Expiries'
  BY <1>1 DEF Request, Move, worker
<1>2. ASSUME NEW m \in Msgs, RetryNow(m) \/ (RequestStep(m) /\ ~ Request(m))
      PROVE  Expiries'
  <2>1. UNCHANGED <<expiresIn, late>>
    BY <1>2 DEF RequestStep, InlineAccepted, InlineReturns, InlineRaises,
       Enqueue, AuditQueued, RequestDies, RetryNow, worker
  <2>2. \A x \in Msgs : request'[x] = "new" <=> request[x] = "new"
    BY <1>2 DEF RequestStep, InlineAccepted, InlineReturns, InlineRaises,
       Enqueue, AuditQueued, RequestDies, RetryNow, Move
  <2> QED BY <2>1, <2>2
<1>3. ASSUME NEW w \in Workers, BeginTick(w) PROVE Expiries'
  <2>1. PICK picked \in SUBSET Due :
          late' = [late EXCEPT ![w] = {m \in picked : Expired(m)}]
    BY <1>3 DEF BeginTick
  <2>2. \A m \in picked : m \in Msgs /\ request[m] # "new"
    BY DEF Due, Content
  <2> QED BY <1>3, <2>1, <2>2 DEF BeginTick, Expired
<1>4. ASSUME NEW w \in Workers, WorkerStep(w), ~ BeginTick(w) PROVE Expiries'
  <2>1. UNCHANGED <<request, expiresIn>>
    BY <1>4 DEF WorkerStep, EndTick, SkipRow, DropExpired, TakeRow, Accepted,
       Delivered, SendRaises, WorkerDies, NewProcess
  <2>2. \A v \in Workers : late'[v] \subseteq late[v]
    BY <1>4 DEF WorkerStep, EndTick, SkipRow, DropExpired, TakeRow, Accepted,
       Delivered, SendRaises, WorkerDies, NewProcess
  <2> QED BY <2>1, <2>2
<1>5. CASE TimePasses
  BY <1>5 DEF TimePasses, Sooner, NoExpiry
<1>6. CASE UNCHANGED vars
  BY <1>6 DEF vars
<1> QED BY <1>1, <1>2, <1>3, <1>4, <1>5, <1>6 DEF Next

-----------------------------------------------------------------------------
(* The abstract step of each concrete one, under the mapping of EmailQueue.*)
AbstractStep == [Promise!PromiseNext]_(Promise!promise)

(* A step that says of one message what becomes of it, in the terms of     *)
(* MailPromise: its fate, and whether a server has had it.                 *)
FateBecomes(m, fate) == \A x \in Msgs : Fate(x)' = IF x = m THEN fate ELSE Fate(x)
FatesStay == \A x \in Msgs : Fate(x)' = Fate(x)
HandedStay == \A x \in Msgs : (accepted[x] > 0)' = (accepted[x] > 0)
ExpiredStay == \A x \in Msgs : (expiresIn[x] = 0)' = (expiresIn[x] = 0)

LEMMA FateSame ==
  ASSUME NEW x, request'[x] = request[x], status'[x] = status[x]
  PROVE  Fate(x)' = Fate(x)
BY DEF Fate

LEMMA FateOfRow ==
  ASSUME NEW x
  PROVE  /\ status[x] = "pending" => Fate(x) = "kept"
         /\ status'[x] = "sent" => Fate(x)' = "sent"
         /\ status'[x] = "failed" => Fate(x)' = "failed"
<1>1. status[x] = "pending" => Fate(x) = "kept"
  BY DEF Fate
<1>2. status'[x] = "sent" => Fate(x)' = "sent"
  BY DEF Fate
<1>3. status'[x] = "failed" => Fate(x)' = "failed"
  BY DEF Fate
<1> QED BY <1>1, <1>2, <1>3

LEMMA HandedOnce ==
  ASSUME TypeOK, NEW m \in Msgs,
         accepted' = [accepted EXCEPT ![m] = accepted[m] + 1]
  PROVE  \A x \in Msgs : (accepted[x] > 0)' = IF x = m THEN TRUE ELSE accepted[x] > 0
<1>1. accepted[m] \in Nat /\ accepted'[m] = accepted[m] + 1
  BY DEF TypeOK
<1>2. \A x \in Msgs : x # m => accepted'[x] = accepted[x]
  BY DEF TypeOK
<1>3. (accepted'[m] > 0) = TRUE
  BY <1>1
<1> TAKE x \in Msgs
<1>4. CASE x = m
  BY <1>3, <1>4
<1>5. CASE x # m
  BY <1>2, <1>5
<1> QED BY <1>4, <1>5

LEMMA PromiseStutter ==
  ASSUME FatesStay, HandedStay, ExpiredStay, UNCHANGED attempts
  PROVE  AbstractStep
BY DEF AbstractStep, Promise!promise, FatesStay, HandedStay, ExpiredStay

LEMMA PromiseSteps ==
  ASSUME NEW m \in Msgs,
         \/ Promise!Ask(m) \/ Promise!HandOver(m) \/ Promise!Report(m)
         \/ Promise!Keep(m) \/ Promise!FailOnce(m) \/ Promise!GiveUp(m)
         \/ Promise!Lose(m)
  PROVE  AbstractStep
BY DEF AbstractStep, Promise!PromiseNext

LEMMA PromiseOfInit == Init => Promise!PromiseInit
<1> SUFFICES ASSUME Init PROVE Promise!PromiseInit
  OBVIOUS
<1>1. \A m \in Msgs : Fate(m) = "unasked"
  BY DEF Init, Fate
<1>2. \A m \in Msgs : (accepted[m] > 0) = FALSE /\ (expiresIn[m] = 0) = FALSE
  BY DEF Init, NoExpiry
<1>3. attempts = [m \in Msgs |-> 0]
  BY DEF Init
<1> QED BY <1>1, <1>2, <1>3 DEF Promise!PromiseInit

(* The steps of a request that a flow can tell apart.                      *)
LEMMA RequestPromise ==
  ASSUME Inv, Expiries, NEW m \in Msgs, RequestStep(m) \/ RetryNow(m)
  PROVE  AbstractStep
<1> USE DEF Inv, TypeOK, Content, Move, mail, history
<1>1. CASE Request(m)
  <2>1. Fate(m) = "unasked" /\ FateBecomes(m, "asked")
    BY <1>1 DEF Request, Fate, FateBecomes
  <2>2. HandedStay /\ ExpiredStay /\ UNCHANGED attempts
    BY <1>1, EmailQueueAssumption DEF Request, Expiries, HandedStay, ExpiredStay, NoExpiry
  <2>3. Promise!Ask(m)
    BY <2>1, <2>2 DEF FateBecomes, HandedStay, ExpiredStay, Promise!Ask
  <2> QED BY <2>3, PromiseSteps
<1>2. CASE InlineAccepted(m)
  <2>1. Fate(m) = "asked" /\ FatesStay
    BY <1>2 DEF InlineAccepted, Fate, FatesStay
  <2>2. /\ \A x \in Msgs : (accepted[x] > 0)' = IF x = m THEN TRUE ELSE accepted[x] > 0
        /\ ExpiredStay /\ UNCHANGED attempts
    BY <1>2, HandedOnce DEF InlineAccepted, ExpiredStay
  <2>3. Promise!HandOver(m)
    BY <2>1, <2>2 DEF FatesStay, ExpiredStay, Promise!HandOver
  <2> QED BY <2>3, PromiseSteps
<1>3. CASE InlineReturns(m)
  <2>1. Fate(m) = "asked" /\ FateBecomes(m, "sent")
    BY <1>3 DEF InlineReturns, Fate, FateBecomes
  <2>2. HandedStay /\ ExpiredStay /\ UNCHANGED attempts
    BY <1>3 DEF InlineReturns, HandedStay, ExpiredStay
  <2>3. accepted[m] > 0
    BY <1>3 DEF InlineReturns, Counts, Recorded
  <2>4. Promise!Report(m)
    BY <2>1, <2>2, <2>3 DEF FateBecomes, HandedStay, ExpiredStay, Promise!Report
  <2> QED BY <2>4, PromiseSteps
<1>4. CASE InlineRaises(m) \/ AuditQueued(m) \/ RetryNow(m)
  <2>1. FatesStay
    <3>1. CASE RetryNow(m)
      BY <3>1, FateSame DEF RetryNow, FatesStay
    <3>2. CASE InlineRaises(m)
      BY <3>2 DEF InlineRaises, Fate, FatesStay
    <3>3. CASE AuditQueued(m)
      BY <3>3 DEF AuditQueued, Fate, FatesStay, Statuses
    <3> QED BY <1>4, <3>1, <3>2, <3>3
  <2>2. HandedStay /\ ExpiredStay /\ UNCHANGED attempts
    BY <1>4 DEF InlineRaises, AuditQueued, RetryNow, HandedStay, ExpiredStay
  <2> QED BY <2>1, <2>2, PromiseStutter
<1>5. CASE Enqueue(m)
  <2>1. Fate(m) = "asked" /\ FateBecomes(m, "kept")
    BY <1>5 DEF Enqueue, Fate, FateBecomes
  <2>2. HandedStay /\ ExpiredStay /\ attempts' = [attempts EXCEPT ![m] = 1]
    BY <1>5 DEF Enqueue, HandedStay, ExpiredStay
  <2>3. Promise!Keep(m)
    BY <2>1, <2>2 DEF FateBecomes, HandedStay, ExpiredStay, Promise!Keep
  <2> QED BY <2>3, PromiseSteps
<1>6. CASE RequestDies(m)
  <2>1. HandedStay /\ ExpiredStay /\ UNCHANGED attempts
    BY <1>6 DEF RequestDies, HandedStay, ExpiredStay
  <2>2. CASE request[m] = "queued"
    <3>1. FatesStay
      BY <1>6, <2>2 DEF RequestDies, Fate, FatesStay, Statuses
    <3> QED BY <2>1, <3>1, PromiseStutter
  <2>3. CASE request[m] # "queued"
    <3>1. Fate(m) = "asked" /\ FateBecomes(m, "lost")
      BY <1>6, <2>3 DEF RequestDies, Fate, FateBecomes
    <3>2. Promise!Lose(m)
      BY <2>1, <3>1 DEF FateBecomes, HandedStay, ExpiredStay, Promise!Lose
    <3> QED BY <3>2, PromiseSteps
  <2> QED BY <2>2, <2>3
<1> QED BY <1>1, <1>2, <1>3, <1>4, <1>5, <1>6 DEF RequestStep

(* The steps of a worker: what it reports of the row that it holds.        *)
LEMMA WorkerPromise ==
  ASSUME Inv, Expiries, NEW w \in Workers, WorkerStep(w)
  PROVE  AbstractStep
<1> USE DEF Inv, TypeOK, mail, history
<1>1. ASSUME UNCHANGED <<status, request, accepted, attempts, expiresIn>>
      PROVE  AbstractStep
  <2>1. FatesStay /\ HandedStay /\ ExpiredStay
    BY <1>1 DEF FatesStay, HandedStay, ExpiredStay, Fate
  <2> QED BY <1>1, <2>1, PromiseStutter
<1>2. CASE BeginTick(w) \/ EndTick(w) \/ WorkerDies(w) \/ NewProcess(w)
  BY <1>1, <1>2 DEF BeginTick, EndTick, WorkerDies, NewProcess
<1>3. ASSUME NEW m \in Msgs, SkipRow(w, m) \/ TakeRow(w, m) PROVE AbstractStep
  BY <1>1, <1>3 DEF SkipRow, TakeRow
<1>4. ASSUME NEW m \in Msgs, DropExpired(w, m) PROVE AbstractStep
  <2>1. Fate(m) = "kept" /\ FateBecomes(m, "failed")
    BY <1>4, FateSame, FateOfRow DEF DropExpired, Available, FateBecomes
  <2>2. HandedStay /\ ExpiredStay /\ UNCHANGED attempts
    BY <1>4 DEF DropExpired, HandedStay, ExpiredStay
  <2>3. expiresIn[m] = 0
    BY <1>4 DEF DropExpired, Expiries
  <2>4. Promise!GiveUp(m)
    BY <2>1, <2>2, <2>3 DEF FateBecomes, HandedStay, ExpiredStay, Promise!GiveUp
  <2> QED BY <2>4, PromiseSteps
<1>5. CASE Accepted(w)
  <2>0. job[w] \in Msgs
    BY <1>5 DEF Accepted, Locks, InTransaction
  <2>1. Fate(job[w]) = "kept" /\ FatesStay
    BY <1>5, FateSame, FateOfRow DEF Accepted, Locks, InTransaction, FatesStay
  <2>2. /\ \A x \in Msgs :
             (accepted[x] > 0)' = IF x = job[w] THEN TRUE ELSE accepted[x] > 0
        /\ ExpiredStay /\ UNCHANGED attempts
    BY <1>5, <2>0, HandedOnce DEF Accepted, ExpiredStay
  <2>3. \E m \in Msgs : Promise!HandOver(m)
    BY <2>0, <2>1, <2>2 DEF FatesStay, ExpiredStay, Promise!HandOver
  <2> QED BY <2>3, PromiseSteps
<1>6. CASE Delivered(w)
  <2>1. /\ job[w] \in Msgs
        /\ Fate(job[w]) = "kept" /\ FateBecomes(job[w], "sent")
    BY <1>6, FateSame, FateOfRow DEF Delivered, Locks, InTransaction, FateBecomes
  <2>2. HandedStay /\ ExpiredStay /\ UNCHANGED attempts
    BY <1>6 DEF Delivered, HandedStay, ExpiredStay
  <2>3. accepted[job[w]] > 0
    BY <1>6, <2>1 DEF Delivered, Counts, Recorded
  <2>4. Promise!Report(job[w])
    BY <2>1, <2>2, <2>3 DEF FateBecomes, HandedStay, ExpiredStay, Promise!Report
  <2> QED BY <2>1, <2>4, PromiseSteps
<1>7. CASE SendRaises(w)
  <2>1. /\ job[w] \in Msgs /\ status[job[w]] = "pending"
        /\ attempts[job[w]] < MaxAttempts
        /\ attempts' = [attempts EXCEPT ![job[w]] = attempts[job[w]] + 1]
    BY <1>7 DEF SendRaises, Locks, Content
  <2>2. HandedStay /\ ExpiredStay /\ Fate(job[w]) = "kept"
    BY <1>7, <2>1, FateOfRow DEF SendRaises, HandedStay, ExpiredStay
  <2>3. CASE GivesUp(attempts[job[w]] + 1)
    <3>1. attempts[job[w]] + 1 = MaxAttempts
      BY <2>1, <2>3, Bounds DEF GivesUp
    <3>2. FateBecomes(job[w], "failed")
      BY <1>7, <2>1, <2>3, FateSame, FateOfRow DEF SendRaises, FateBecomes
    <3>3. Promise!GiveUp(job[w])
      BY <2>1, <2>2, <3>1, <3>2
         DEF FateBecomes, HandedStay, ExpiredStay, Promise!GiveUp
    <3> QED BY <2>1, <3>3, PromiseSteps
  <2>4. CASE ~ GivesUp(attempts[job[w]] + 1)
    <3>1. attempts[job[w]] + 1 < MaxAttempts
      BY <2>1, <2>4, Bounds DEF GivesUp
    <3>2. FatesStay
      BY <1>7, <2>1, <2>4 DEF SendRaises, Fate, FatesStay
    <3>3. Promise!FailOnce(job[w])
      BY <2>1, <2>2, <3>1, <3>2
         DEF FatesStay, HandedStay, ExpiredStay, Promise!FailOnce
    <3> QED BY <2>1, <3>3, PromiseSteps
  <2> QED BY <2>3, <2>4
<1> QED BY <1>2, <1>3, <1>4, <1>5, <1>6, <1>7 DEF WorkerStep

LEMMA TimePromise == ASSUME Inv, TimePasses PROVE AbstractStep
<1> USE DEF Inv, TypeOK, TimePasses, history
<1>1. FatesStay /\ HandedStay /\ UNCHANGED attempts
  BY DEF FatesStay, HandedStay, Fate
<1>2. \A x \in Msgs : expiresIn[x] = 0 => expiresIn'[x] = 0
  BY DEF Sooner
<1>3. Promise!Expire
  BY <1>1, <1>2 DEF Promise!Expire, FatesStay, HandedStay
<1> QED BY <1>3 DEF AbstractStep, Promise!PromiseNext

LEMMA PromiseNext == Inv /\ Expiries /\ [Next]_vars => AbstractStep
<1> SUFFICES ASSUME Inv, Expiries, [Next]_vars PROVE AbstractStep
  OBVIOUS
<1>1. CASE UNCHANGED vars
  BY <1>1, PromiseStutter DEF vars, FatesStay, HandedStay, ExpiredStay, Fate
<1> QED BY <1>1, RequestPromise, WorkerPromise, TimePromise DEF Next

(* The queue, its notifiers, locks, crashes and breakers implement the     *)
(* promise of MailPromise.                                                 *)
THEOREM QueueImplementsPromise == Spec => ImplementsPromise
<1> QED BY PromiseOfInit, PromiseNext, AlwaysInv, InitExpiries, NextExpiries, PTL
        DEF Spec, ImplementsPromise, Promise!PromiseSpec, AbstractStep
=============================================================================
