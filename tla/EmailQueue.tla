----------------------------- MODULE EmailQueue -----------------------------
(***************************************************************************)
(* The outbound email retry queue: services/email_queue.py, the row of     *)
(* models.OutboundEmail, the "retry now" admin action and the notifier     *)
(* process that runs one tick (ameli_app.workers.notifier.run_once).       *)
(*                                                                         *)
(* A request thread sends inline and, when that raises, inserts a pending  *)
(* row and then, in another transaction, audits it.  A notifier takes a    *)
(* snapshot of due row ids and, for each, opens a transaction that locks   *)
(* the row with SKIP LOCKED, talks to the SMTP server while it holds the   *)
(* lock, and commits the outcome.  Either process can die between any two  *)
(* steps; the database then rolls the open transaction back.  The database *)
(* is PostgreSQL; on SQLite, which has no SKIP LOCKED, the code asks for   *)
(* one worker only, and that is this module with one worker.               *)
(*                                                                         *)
(* Times are what is left until a moment: 0 is "now or past".              *)
(***************************************************************************)
EXTENDS Breaker, Sequences, FiniteSets

CONSTANTS
  Msgs,         \* one element per call of send_with_retry
  Workers,      \* notifier processes (the service, an operator's notify-once)
  NoMsg,
  MaxAttempts,  \* max_attempts of a row; every caller leaves the default
  MaxBatch,     \* max_batch of a tick
  Schedule,     \* retry delays after each attempt, as sets: base and jitter
  Lifetimes,    \* values of expires_at - now at the request, and NoExpiry
  MaxCrashes    \* bound on process deaths, a limit of the model

NoExpiry == -1

(* With max_attempts = 1 the code would still try twice: the row is        *)
(* inserted with attempts = 1 and only a further failure compares.         *)
ASSUME EmailQueueAssumption ==
  /\ MaxAttempts \in Nat /\ MaxAttempts >= 2
  /\ MaxBatch \in Nat \ {0}
  /\ MaxCrashes \in Nat
  /\ Schedule \in Seq(SUBSET Nat) /\ Len(Schedule) > 0
  /\ Lifetimes \subseteq (Nat \ {0}) \cup {NoExpiry}
  /\ NoMsg \notin Msgs

VARIABLES
  request,    \* where the thread that called send_with_retry stands
  status,     \* the row: "none" until it is inserted
  attempts,   \* row.attempts
  retryIn,    \* row.next_retry_at
  expiresIn,  \* expires_at, of the request and then of the row
  body,       \* does the row still hold the body of the message
  phase,      \* where a worker stands in process_email_queue
  job,        \* the row its open transaction holds locked
  batch,      \* pending_ids not yet walked
  late,       \* those of them that had expired at `current', the tick's start
  breaker,    \* _smtp_breaker of the worker's process
  crashes,
  (* history *)
  accepted,   \* times an SMTP server took the message
  unsure,     \* acceptances that no process lived, or was told, to record
  trail       \* audit rows written about the message

mail == <<status, attempts, retryIn, body>>
worker == <<phase, job, batch, late, breaker>>
history == <<accepted, unsure, trail>>
vars == <<request, status, attempts, retryIn, expiresIn, body, phase, job,
          batch, late, breaker, crashes, accepted, unsure, trail>>

RequestStates == {"new", "sending", "accepted", "raised", "queued",
                  "answered", "died"}
Statuses == {"none", "pending", "sent", "failed"}
Phases == {"idle", "tick", "sending", "accepted"}
Trails == [queued : Nat, gaveUp : Nat, delivered : Nat]
NoTrail == [queued |-> 0, gaveUp |-> 0, delivered |-> 0]

TypeOK ==
  /\ request \in [Msgs -> RequestStates]
  /\ status \in [Msgs -> Statuses]
  /\ attempts \in [Msgs -> 0 .. MaxAttempts]
  /\ retryIn \in [Msgs -> Nat]
  /\ expiresIn \in [Msgs -> Nat \cup {NoExpiry}]
  /\ body \in [Msgs -> BOOLEAN]
  /\ phase \in [Workers -> Phases]
  /\ job \in [Workers -> Msgs \cup {NoMsg}]
  /\ batch \in [Workers -> SUBSET Msgs]
  /\ late \in [Workers -> SUBSET Msgs]
  /\ breaker \in [Workers -> Breakers]
  /\ crashes \in 0 .. MaxCrashes
  /\ accepted \in [Msgs -> Nat]
  /\ unsure \in [Msgs -> Nat]
  /\ trail \in [Msgs -> Trails]

Init ==
  /\ request = [m \in Msgs |-> "new"]
  /\ status = [m \in Msgs |-> "none"]
  /\ attempts = [m \in Msgs |-> 0]
  /\ retryIn = [m \in Msgs |-> 0]
  /\ expiresIn = [m \in Msgs |-> NoExpiry]
  /\ body = [m \in Msgs |-> FALSE]
  /\ phase = [w \in Workers |-> "idle"]
  /\ job = [w \in Workers |-> NoMsg]
  /\ batch = [w \in Workers |-> {}]
  /\ late = [w \in Workers |-> {}]
  /\ breaker = [w \in Workers |-> Closed]
  /\ crashes = 0
  /\ accepted = [m \in Msgs |-> 0]
  /\ unsure = [m \in Msgs |-> 0]
  /\ trail = [m \in Msgs |-> NoTrail]

(* _email_retry_delay_seconds: the schedule's last entry repeats.          *)
RetryDelays(n) == Schedule[IF n < Len(Schedule) THEN n ELSE Len(Schedule)]

InTransaction(w) == phase[w] \in {"sending", "accepted"}
Locked(m) == \E w \in Workers : InTransaction(w) /\ job[w] = m

-----------------------------------------------------------------------------
(* send_with_retry, in the thread of the request.                          *)

Move(m, from, to) ==
  /\ request[m] \in from
  /\ request' = [request EXCEPT ![m] = to]

Request(m) ==
  /\ Move(m, {"new"}, "sending")
  /\ \E life \in Lifetimes : expiresIn' = [expiresIn EXCEPT ![m] = life]
  /\ UNCHANGED <<mail, worker, crashes, history>>

InlineAccepted(m) ==
  /\ Move(m, {"sending"}, "accepted")
  /\ accepted' = [accepted EXCEPT ![m] = accepted[m] + 1]
  /\ UNCHANGED <<mail, expiresIn, worker, crashes, unsure, trail>>

InlineReturns(m) ==
  /\ Move(m, {"accepted"}, "answered")
  /\ UNCHANGED <<mail, expiresIn, worker, crashes, history>>

(* An exception: a refusal, or an accepted message whose reply was lost.   *)
InlineRaises(m) ==
  /\ Move(m, {"sending", "accepted"}, "raised")
  /\ unsure' = IF request[m] = "accepted"
               THEN [unsure EXCEPT ![m] = unsure[m] + 1] ELSE unsure
  /\ UNCHANGED <<mail, expiresIn, worker, crashes, accepted, trail>>

Enqueue(m) ==
  /\ Move(m, {"raised"}, "queued")
  /\ status' = [status EXCEPT ![m] = "pending"]
  /\ attempts' = [attempts EXCEPT ![m] = 1]
  /\ \E d \in RetryDelays(1) : retryIn' = [retryIn EXCEPT ![m] = d]
  /\ body' = [body EXCEPT ![m] = TRUE]
  /\ UNCHANGED <<expiresIn, worker, crashes, history>>

AuditQueued(m) ==
  /\ Move(m, {"queued"}, "answered")
  /\ trail' = [trail EXCEPT ![m].queued = trail[m].queued + 1]
  /\ UNCHANGED <<mail, expiresIn, worker, crashes, accepted, unsure>>

RequestDies(m) ==
  /\ crashes < MaxCrashes
  /\ Move(m, {"sending", "accepted", "raised", "queued"}, "died")
  /\ unsure' = IF request[m] = "accepted"
               THEN [unsure EXCEPT ![m] = unsure[m] + 1] ELSE unsure
  /\ crashes' = crashes + 1
  /\ UNCHANGED <<mail, expiresIn, worker, accepted, trail>>

-----------------------------------------------------------------------------
(* process_email_queue, one tick of one notifier process.                  *)

(* Plausible bugs, for the sensitivity checks: a row without expires_at is *)
(* taken for an expired one, the row's status is not looked at again under *)
(* the lock, the last attempt is miscounted.                               *)
ExpiredOrNone(m) == expiresIn[m] <= 0
AvailableIgnoringStatus(m) == status[m] # "none" /\ ~ Locked(m)
GivesUpLate(n) == n > MaxAttempts

Due == {m \in Msgs : status[m] = "pending" /\ retryIn[m] = 0}

Expired(m) == expiresIn[m] = 0

(* The snapshot of at most MaxBatch due ids.  The order the code asks for  *)
(* is abstracted to any choice of them.  A tick that finds nothing due, or *)
(* its breaker open, returns having changed nothing: it is no step.        *)
(* expires_at never changes, so comparing it with the tick's `current' is  *)
(* settled here although the code does it when it reaches the row.         *)
BeginTick(w) ==
  /\ phase[w] = "idle"
  /\ Due # {}
  /\ Allow(breaker[w])
  /\ \E picked \in SUBSET Due :
       /\ picked # {} /\ Cardinality(picked) <= MaxBatch
       /\ Cardinality(picked) < MaxBatch => picked = Due
       /\ batch' = [batch EXCEPT ![w] = picked]
       /\ late' = [late EXCEPT ![w] = {m \in picked : Expired(m)}]
  /\ phase' = [phase EXCEPT ![w] = "tick"]
  /\ UNCHANGED <<request, mail, expiresIn, job, breaker, crashes, history>>

(* End of the loop, or the break of a breaker that opened mid-batch.       *)
EndTick(w) ==
  /\ phase[w] = "tick"
  /\ batch[w] = {} \/ ~ Allow(breaker[w])
  /\ phase' = [phase EXCEPT ![w] = "idle"]
  /\ batch' = [batch EXCEPT ![w] = {}]
  /\ late' = [late EXCEPT ![w] = {}]
  /\ UNCHANGED <<request, mail, expiresIn, job, breaker, crashes, history>>

Reach(w, m) ==
  /\ phase[w] = "tick"
  /\ m \in batch[w]
  /\ Allow(breaker[w])
  /\ batch' = [batch EXCEPT ![w] = batch[w] \ {m}]

(* SELECT ... WHERE status = 'pending' FOR UPDATE SKIP LOCKED.             *)
Available(m) == status[m] = "pending" /\ ~ Locked(m)

SkipRow(w, m) ==
  /\ Reach(w, m)
  /\ ~ Available(m)
  /\ UNCHANGED <<request, mail, expiresIn, phase, job, late, breaker, crashes,
                 history>>

DropExpired(w, m) ==
  /\ Reach(w, m)
  /\ Available(m)
  /\ m \in late[w]
  /\ status' = [status EXCEPT ![m] = "failed"]
  /\ body' = [body EXCEPT ![m] = FALSE]
  /\ trail' = [trail EXCEPT ![m].gaveUp = trail[m].gaveUp + 1]
  /\ UNCHANGED <<request, attempts, retryIn, expiresIn, phase, job, late,
                 breaker, crashes, accepted, unsure>>

TakeRow(w, m) ==
  /\ Reach(w, m)
  /\ Available(m)
  /\ m \notin late[w]
  /\ phase' = [phase EXCEPT ![w] = "sending"]
  /\ job' = [job EXCEPT ![w] = m]
  /\ UNCHANGED <<request, mail, expiresIn, late, breaker, crashes, history>>

Accepted(w) ==
  /\ phase[w] = "sending"
  /\ phase' = [phase EXCEPT ![w] = "accepted"]
  /\ accepted' = [accepted EXCEPT ![job[w]] = accepted[job[w]] + 1]
  /\ UNCHANGED <<request, mail, expiresIn, job, batch, late, breaker, crashes,
                 unsure, trail>>

NextRow(w) ==
  /\ phase' = [phase EXCEPT ![w] = "tick"]
  /\ job' = [job EXCEPT ![w] = NoMsg]

(* send() returned: commit "sent", the purge and the deferred audit row    *)
(* (every caller of send_with_retry names an audit_action).                *)
Delivered(w) ==
  LET m == job[w] IN
  /\ phase[w] = "accepted"
  /\ breaker' = [breaker EXCEPT ![w] = RecordSuccess(breaker[w])]
  /\ status' = [status EXCEPT ![m] = "sent"]
  /\ body' = [body EXCEPT ![m] = FALSE]
  /\ trail' = [trail EXCEPT ![m].delivered = trail[m].delivered + 1]
  /\ NextRow(w)
  /\ UNCHANGED <<request, attempts, retryIn, expiresIn, batch, late, crashes,
                 accepted, unsure>>

GivesUp(n) == n >= MaxAttempts

(* send() raised, before or after the server took the message: commit one  *)
(* more attempt, and either the new retry time or the final failure.       *)
SendRaises(w) ==
  LET m == job[w]
      n == attempts[m] + 1 IN
  /\ InTransaction(w)
  /\ breaker' = [breaker EXCEPT ![w] = RecordFailure(breaker[w])]
  /\ unsure' = IF phase[w] = "accepted"
               THEN [unsure EXCEPT ![m] = unsure[m] + 1] ELSE unsure
  /\ attempts' = [attempts EXCEPT ![m] = n]
  /\ \/ /\ GivesUp(n)
        /\ status' = [status EXCEPT ![m] = "failed"]
        /\ trail' = [trail EXCEPT ![m].gaveUp = trail[m].gaveUp + 1]
        /\ UNCHANGED retryIn
     \/ /\ ~ GivesUp(n)
        /\ \E d \in RetryDelays(n) : retryIn' = [retryIn EXCEPT ![m] = d]
        /\ UNCHANGED <<status, trail>>
  /\ NextRow(w)
  /\ UNCHANGED <<request, expiresIn, body, batch, late, crashes, accepted>>

(* The process dies, or an exception outside the inner try (a failing      *)
(* record_audit) ends the tick: the open transaction rolls back, and the   *)
(* breaker goes with the process.                                          *)
WorkerDies(w) ==
  /\ crashes < MaxCrashes
  /\ phase[w] # "idle"
  /\ unsure' = IF phase[w] = "accepted"
               THEN [unsure EXCEPT ![job[w]] = unsure[job[w]] + 1] ELSE unsure
  /\ phase' = [phase EXCEPT ![w] = "idle"]
  /\ job' = [job EXCEPT ![w] = NoMsg]
  /\ batch' = [batch EXCEPT ![w] = {}]
  /\ late' = [late EXCEPT ![w] = {}]
  /\ breaker' = [breaker EXCEPT ![w] = Closed]
  /\ crashes' = crashes + 1
  /\ UNCHANGED <<request, mail, expiresIn, accepted, trail>>

(* The systemd unit runs each tick in a process of its own, a shell or a   *)
(* test runs several in one: between ticks the breaker may be a new one.   *)
NewProcess(w) ==
  /\ phase[w] = "idle"
  /\ breaker[w] # Closed
  /\ breaker' = [breaker EXCEPT ![w] = Closed]
  /\ UNCHANGED <<request, mail, expiresIn, phase, job, batch, late, crashes,
                 history>>

-----------------------------------------------------------------------------
(* The admin action retry_now: its UPDATE waits for a row lock, and then   *)
(* re-reads the status.                                                    *)
RetryNow(m) ==
  /\ Available(m)
  /\ retryIn[m] > 0
  /\ retryIn' = [retryIn EXCEPT ![m] = 0]
  /\ UNCHANGED <<request, status, attempts, body, expiresIn, worker, crashes,
                 history>>

Sooner(t) == IF t > 0 THEN t - 1 ELSE t

TimePasses ==
  /\ retryIn' = [m \in Msgs |-> Sooner(retryIn[m])]
  /\ expiresIn' = [m \in Msgs |-> Sooner(expiresIn[m])]
  /\ breaker' = [w \in Workers |-> Elapse(breaker[w])]
  /\ UNCHANGED <<request, status, attempts, body, phase, job, batch, late,
                 crashes, history>>

RequestStep(m) ==
  \/ Request(m) \/ InlineAccepted(m) \/ InlineReturns(m) \/ InlineRaises(m)
  \/ Enqueue(m) \/ AuditQueued(m) \/ RequestDies(m)

WorkerStep(w) ==
  \/ BeginTick(w) \/ EndTick(w)
  \/ \E m \in Msgs : SkipRow(w, m) \/ DropExpired(w, m) \/ TakeRow(w, m)
  \/ Accepted(w) \/ Delivered(w) \/ SendRaises(w)
  \/ WorkerDies(w) \/ NewProcess(w)

Next ==
  \/ \E m \in Msgs : RequestStep(m) \/ RetryNow(m)
  \/ \E w \in Workers : WorkerStep(w)
  \/ TimePasses

(* The notifier loop starts tick after tick, a tick walks its rows, and a  *)
(* send ends: the server answers or the transport times out.  Nothing      *)
(* obliges the server to accept, an operator to press, or anyone to die.   *)
Fairness ==
  /\ WF_vars(TimePasses)
  /\ \A w \in Workers :
       /\ WF_vars(BeginTick(w))
       /\ WF_vars(EndTick(w))
       /\ WF_vars(\E m \in Msgs : SkipRow(w, m) \/ DropExpired(w, m)
                                  \/ TakeRow(w, m))
       /\ WF_vars(Delivered(w) \/ SendRaises(w))

Spec == Init /\ [][Next]_vars /\ Fairness

-----------------------------------------------------------------------------
(* "concurrent workers pick disjoint rows": however the snapshots of two   *)
(* ticks overlap, two processes never talk to the server about the same    *)
(* row at the same time.                                                   *)
OneSender ==
  \A v, w \in Workers :
    InTransaction(v) /\ InTransaction(w) /\ job[v] = job[w] => v = w

(* A row that a worker may still pick up or is sending has its content and *)
(* an attempt left: whatever was rolled back, skipped, hurried by an admin *)
(* or retried by another tick, the purge and the verdict come together.    *)
RowsSendable ==
  /\ \A m \in Msgs : status[m] = "pending" => body[m] /\ attempts[m] < MaxAttempts
  /\ \A w \in Workers : InTransaction(w) => status[job[w]] = "pending"

(* Delivery is at least once, and every copy after the first is explained: *)
(* a message is accepted again only after an acceptance that the process   *)
(* did not live to record or was told had failed.                          *)
AcceptedOnceUnlessUnsure ==
  \A m \in Msgs : accepted[m] <= unsure[m] + 1

(* The audit rows tell the story of the row they are about: one delivery   *)
(* or one final failure exactly when the row says so, and a missing        *)
(* "queued" row only where the requesting process died or has yet to write *)
(* it (row and audit row are two commits).                                 *)
TrailMatches ==
  \A m \in Msgs :
    /\ trail[m].delivered = (IF status[m] = "sent" THEN 1 ELSE 0)
    /\ trail[m].gaveUp = (IF status[m] = "failed" THEN 1 ELSE 0)
    /\ trail[m].queued <= 1
    /\ status[m] # "none" /\ trail[m].queued = 0 => request[m] \in {"queued", "died"}

(* No row stays pending for ever: refused again and again, skipped by an   *)
(* open breaker, or dropped half-way by a dying notifier, each row ends    *)
(* sent or failed as long as notifiers keep ticking.                       *)
EventuallyResolved ==
  \A m \in Msgs : status[m] = "pending" ~> status[m] \in {"sent", "failed"}

Fate(m) ==
  CASE status[m] = "pending" -> "kept"
    [] status[m] \in {"sent", "failed"} -> status[m]
    [] status[m] = "none" /\ request[m] = "new" -> "unasked"
    [] status[m] = "none" /\ request[m] = "answered" -> "sent"
    [] status[m] = "none" /\ request[m] = "died" -> "lost"
    [] OTHER -> "asked"

Promise == INSTANCE MailPromise WITH
  fate <- [m \in Msgs |-> Fate(m)],
  handed <- [m \in Msgs |-> accepted[m] > 0],
  tries <- attempts,
  expired <- [m \in Msgs |-> expiresIn[m] = 0]

(* Queue, locks, ticks and crashes together keep the promise made to the   *)
(* callers of send_with_retry: see MailPromise.                            *)
ImplementsPromise == Promise!PromiseSpec

(* "Walk the OutboundEmail pending rows whose retry time elapsed" (the     *)
(* docstring, line 222): no row is attempted before its next_retry_at.     *)
BackoffRespected ==
  [][\A w \in Workers, m \in Msgs : TakeRow(w, m) => retryIn[m] = 0]_vars
=============================================================================
