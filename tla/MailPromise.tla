----------------------------- MODULE MailPromise -----------------------------
(***************************************************************************)
(* What send_with_retry and its notifier promise to a flow that hands them *)
(* a message (services/email_queue.py): the message is delivered at least  *)
(* once, or kept and retried until it is delivered, until MaxAttempts      *)
(* failures have been counted, or until its content has expired; and the   *)
(* verdict, once given, is final.  Nothing is said here of queues,         *)
(* workers, locks, crashes or breakers: EmailQueue implements this module. *)
(***************************************************************************)
EXTENDS Integers

CONSTANTS Msgs, MaxAttempts

VARIABLES
  fate,     \* what has become of the message
  handed,   \* has a mail server accepted it, at least once
  tries,    \* failures counted against it
  expired   \* is its content no longer worth delivering

promise == <<fate, handed, tries, expired>>

Fates == {"unasked", "asked", "kept", "sent", "failed", "lost"}

PromiseInit ==
  /\ fate = [m \in Msgs |-> "unasked"]
  /\ handed = [m \in Msgs |-> FALSE]
  /\ tries = [m \in Msgs |-> 0]
  /\ expired = [m \in Msgs |-> FALSE]

Ask(m) ==
  /\ fate[m] = "unasked"
  /\ fate' = [fate EXCEPT ![m] = "asked"]
  /\ UNCHANGED <<handed, tries, expired>>

HandOver(m) ==
  /\ fate[m] \in {"asked", "kept"}
  /\ handed' = [handed EXCEPT ![m] = TRUE]
  /\ UNCHANGED <<fate, tries, expired>>

(* "sent" is only ever said of a message some server accepted.             *)
Report(m) ==
  /\ fate[m] \in {"asked", "kept"}
  /\ handed[m]
  /\ fate' = [fate EXCEPT ![m] = "sent"]
  /\ UNCHANGED <<handed, tries, expired>>

Keep(m) ==
  /\ fate[m] = "asked"
  /\ fate' = [fate EXCEPT ![m] = "kept"]
  /\ tries' = [tries EXCEPT ![m] = 1]
  /\ UNCHANGED <<handed, expired>>

FailOnce(m) ==
  /\ fate[m] = "kept"
  /\ tries[m] + 1 < MaxAttempts
  /\ tries' = [tries EXCEPT ![m] = tries[m] + 1]
  /\ UNCHANGED <<fate, handed, expired>>

GiveUp(m) ==
  /\ fate[m] = "kept"
  /\ \/ /\ tries[m] + 1 = MaxAttempts
        /\ tries' = [tries EXCEPT ![m] = MaxAttempts]
     \/ expired[m] /\ UNCHANGED tries
  /\ fate' = [fate EXCEPT ![m] = "failed"]
  /\ UNCHANGED <<handed, expired>>

(* Only while the asking process still holds the message can it be lost.   *)
Lose(m) ==
  /\ fate[m] = "asked"
  /\ fate' = [fate EXCEPT ![m] = "lost"]
  /\ UNCHANGED <<handed, tries, expired>>

(* Time makes any number of messages expire at once.                       *)
Expire ==
  /\ expired' \in [Msgs -> BOOLEAN]
  /\ \A m \in Msgs : expired[m] => expired'[m]
  /\ UNCHANGED <<fate, handed, tries>>

PromiseNext ==
  \/ \E m \in Msgs : Ask(m) \/ HandOver(m) \/ Report(m) \/ Keep(m)
                     \/ FailOnce(m) \/ GiveUp(m) \/ Lose(m)
  \/ Expire

PromiseSpec == PromiseInit /\ [][PromiseNext]_promise
=============================================================================
