---------------------------- MODULE SecondFactor ----------------------------
(***************************************************************************)
(* The second factor of one account: services/mfa.py,                      *)
(* services/email_change.py and the views over them, with the columns of   *)
(* models.User they touch and the tables MFARecoveryCode,                  *)
(* MFAEmailChallenge and EmailChangeRequest.                               *)
(*                                                                         *)
(* No transaction spans a handler (autocommit, no ATOMIC_REQUESTS): each   *)
(* reads the user's row once, decides from that copy, and then issues its  *)
(* statements one by one.  So a handler here is a plan, fixed when it      *)
(* reads the row: the columns it will save and the statements still to     *)
(* run, and every statement is a step of its own that any other handler,   *)
(* or the death of the process, may precede.  What reads the row and       *)
(* checks the password, without writing, is one step.                      *)
(*                                                                         *)
(* Time is counted in units of the interval between two codes.             *)
(***************************************************************************)
EXTENDS Naturals, FiniteSets, Sequences

CONSTANTS
  Threads,      \* requests that the web workers run at the same time
  Ops,          \* the handlers this instance lets run, a part of AllOps
  Secrets,      \* TOTP secrets; a fresh one is any not in use
  Batches,      \* batches of recovery codes, each stood for by one code
  Codes,        \* rows of MFAEmailChallenge
  Changes,      \* rows of EmailChangeRequest
  Addresses,
  None,
  Ttl,          \* EMAIL_CODE_TTL_SECONDS
  Hour,         \* the window of the hourly limit
  HourlyLimit,  \* EMAIL_CODE_HOURLY_LIMIT
  MaxHandlers   \* bound on handlers begun, a limit of the model

Disables == {"disable-totp", "disable-email", "disable-all"}
Mints == {"confirm-totp", "confirm-email", "regenerate"}
Links == {"confirm-change", "cancel-change", "cancel-in-app"}
AllOps == Disables \cup Mints \cup Links \cup
  {"start-totp", "send-code", "admin-disable", "admin-update", "password",
   "recovery", "email-login", "request-change"}

ASSUME SecondFactorAssumption ==
  /\ Ops \subseteq AllOps
  /\ None \notin Secrets \cup Batches \cup Codes \cup Changes \cup Addresses
  /\ Secrets \cap Addresses = {}
  /\ {Ttl, Hour, HourlyLimit, MaxHandlers} \subseteq Nat

(* What a handler writes, as far as writing it late matters, and the two   *)
(* accidents the recovery codes and the change of address feel: "torn" is  *)
(* an address that was written by a handler that died before it said so.   *)
Accidents == {"enrol totp", "remove factor", "whole row", "other", "torn"}
Kind(op) ==
  CASE op \in {"start-totp", "confirm-totp"} -> "enrol totp"
    [] op \in Disables \cup {"confirm-change"} -> "remove factor"
    [] op \in {"admin-update", "password"} -> "whole row"
    [] OTHER -> "other"

VARIABLES
  row,         \* the columns of models.User
  recovery,    \* MFARecoveryCode: is the code of a batch there, is it used
  challenge,   \* MFAEmailChallenge
  change,      \* EmailChangeRequest
  job,         \* what each thread is doing
  left,        \* handlers that may still begin
  (* history *)
  accidents,   \* kinds of write made from a copy that was out of date;
               \* a death, and codes written by two handlers at once: other
  crossed,     \* of which table two handlers have replaced the row at once
  proved,      \* secrets a code of which, addresses a mail to which came back
  applied,     \* change requests whose address has been written
  detached     \* was it a change of address that last switched MFA off

tables == <<recovery, challenge, change>>
history == <<accidents, crossed, proved, applied, detached>>
vars == <<row, recovery, challenge, change, job, left, accidents, crossed,
          proved, applied, detached>>

Rows == [totp : BOOLEAN, email : BOOLEAN, enabled : BOOLEAN,
         required : BOOLEAN, secret : Secrets \cup {None}, addr : Addresses]
Columns == {"totp", "email", "enabled", "required", "secret", "addr"}

(* `at' is the mailbox a code can be read in, once it has been delivered.  *)
Challenges == [at : Addresses \cup {None}, used : BOOLEAN, age : 0 .. Hour]

NoChange == [new |-> None, confirmed |-> FALSE, cancelled |-> FALSE,
             expired |-> FALSE, sent |-> FALSE]
Requests ==
  {NoChange} \cup
  [new : Addresses, confirmed : BOOLEAN, cancelled : BOOLEAN,
   expired : BOOLEAN, sent : BOOLEAN]

Idle == [op |-> "idle"]
Steps == {"save", "drop-recovery", "mint", "drop-challenges", "find-code",
          "use-code", "limit", "burn", "create", "send", "use-recovery",
          "supersede", "open", "mail", "close", "cancel"}

TypeOK ==
  /\ row \in Rows
  /\ recovery \in [Batches -> {"none", "unused", "used"}]
  /\ challenge \in [Codes -> Challenges \cup {None}]
  /\ change \in [Changes -> Requests]
  /\ \A t \in Threads : job[t] = Idle \/
       /\ job[t].op \in Ops
       /\ DOMAIN job[t].save \subseteq Columns
       /\ job[t].found \in
            {None} \cup Secrets \cup Batches \cup Codes \cup Changes
       /\ job[t].fresh \in BOOLEAN
       /\ job[t].todo \in Seq(Steps) /\ job[t].todo # <<>>
  /\ accidents \subseteq Accidents /\ applied \subseteq Changes
  /\ left \in 0 .. MaxHandlers
  /\ proved \subseteq Secrets \cup Addresses
  /\ crossed \subseteq {"challenge", "change"}
  /\ detached \in BOOLEAN

(* An account that nothing is happening to: its flags agree, it has the    *)
(* recovery codes of its last enrolment, its factors have been proved.  A  *)
(* mandate or a pending secret is there in instances that handle them.     *)
Settled(r) ==
  /\ r.enabled = (r.totp \/ r.email)
  /\ r.totp => r.secret # None
  /\ r.required => "admin-update" \in Ops
  /\ r.secret # None => r.totp \/ "start-totp" \in Ops

Init ==
  /\ row \in {r \in Rows : Settled(r)}
  /\ \E n \in Batches :
       recovery = [b \in Batches |-> IF row.enabled /\ b = n THEN "unused"
                                    ELSE "none"]
  /\ proved = (IF row.totp THEN {row.secret} ELSE {})
                \cup (IF row.email THEN {row.addr} ELSE {})
  /\ challenge = [c \in Codes |-> None]
  /\ change = [q \in Changes |-> NoChange]
  /\ job = [t \in Threads |-> Idle]
  /\ left = MaxHandlers
  /\ accidents = {} /\ crossed = {} /\ applied = {} /\ detached = FALSE

-----------------------------------------------------------------------------
(* The rows in use: an id is taken again once nothing remembers it.        *)

Busy == {t \in Threads : job[t] # Idle}
At(t, step) == t \in Busy /\ Head(job[t].todo) = step
Recall(field) == {job[t][field] : t \in Busy}

FreshSecrets ==
  Secrets \ ({row.secret} \cup Recall("found")
             \cup {job[t].save.secret : t \in {u \in Busy :
                     "secret" \in DOMAIN job[u].save}})
FreshCodes == {c \in Codes : challenge[c] = None} \ Recall("found")
FreshChanges == {q \in Changes : change[q] = NoChange} \ Recall("found")
FreshBatches ==
  {b \in Batches : recovery[b] = "none"} \ Recall("found")

Live(c) ==
  /\ challenge[c] # None
  /\ ~challenge[c].used
  /\ challenge[c].age < Ttl

Open(q) ==
  /\ change[q] # NoChange
  /\ ~change[q].confirmed
  /\ ~change[q].cancelled

Remains(step, todo) == \E i \in DOMAIN todo : todo[i] = step
TouchesRecovery(todo) == Remains("drop-recovery", todo) \/ Remains("mint", todo)

Witness(kind, happens) ==
  accidents' = IF happens THEN accidents \cup {kind} ELSE accidents

(* `save' holds the columns the plan will write, or the address it will    *)
(* write to; `found' the row, or the secret, it works on; `fresh' whether  *)
(* what it decided from is still what is stored.                           *)
Begin(t, op, save, found, todo) ==
  /\ op \in Ops
  /\ job[t] = Idle
  /\ left > 0 /\ left' = left - 1
  /\ job' = [job EXCEPT ![t] = [op |-> op, save |-> save, found |-> found,
                                fresh |-> TRUE, todo |-> todo]]
  /\ Witness("other", /\ TouchesRecovery(todo)
                      /\ \E u \in Busy : TouchesRecovery(job[u].todo))
  /\ UNCHANGED <<row, tables, crossed, proved, applied, detached>>

NoColumns == [f \in {} |-> FALSE]

(* The rest of the plan of t; the step may have made other plans stale.    *)
WillWrite(todo) == Remains("save", todo) \/ Remains("cancel", todo)
Rest(t) ==
  LET todo == Tail(job[t].todo)
  IN IF todo = <<>> THEN Idle
     ELSE [job[t] EXCEPT !.todo = todo,
                         !.fresh = WillWrite(todo) => job[t].fresh,
                         !.save = IF At(t, "save") THEN NoColumns
                                  ELSE job[t].save]
Disturbs(u) ==
  /\ WillWrite(job[u].todo)
  /\ \/ Remains("save", job[u].todo) /\ row' # row
     \/ /\ job[u].found \in Changes
        /\ change'[job[u].found] # change[job[u].found]
Advance(t) ==
  job' = [u \in Threads |->
            IF u = t THEN Rest(t)
            ELSE IF u \in Busy /\ Disturbs(u)
                 THEN [job[u] EXCEPT !.fresh = FALSE] ELSE job[u]]
Abandon(t) == job' = [job EXCEPT ![t] = Idle]

Forget == <<"drop-recovery">>
IssueOnTop == <<"mint">>
Issue == <<"drop-recovery", "mint">>
Unless(condition, steps) == IF condition THEN <<>> ELSE steps

-----------------------------------------------------------------------------
(* The handlers of the profile: what each reads, refuses and plans.        *)

StartTotpAnyway(t) ==
  /\ FreshSecrets # {}
  /\ Begin(t, "start-totp", [secret |-> CHOOSE s \in FreshSecrets : TRUE],
           None, <<"save">>)

StartTotp(t) ==
  /\ ~row.totp
  /\ FreshSecrets # {}
  /\ Begin(t, "start-totp", [secret |-> CHOOSE s \in FreshSecrets : TRUE],
           None, <<"save">>)

(* A code of the authenticator is checked against the secret of the copy;  *)
(* the person has scanned whichever secret they were last shown.           *)
ConfirmTotp(t) ==
  /\ ~row.totp
  /\ row.secret # None
  /\ Begin(t, "confirm-totp", [totp |-> TRUE, enabled |-> TRUE], row.secret,
           <<"save">> \o Unless(row.enabled, Issue))

DisableTotpUnmandated(t) ==
  /\ row.totp \/ row.secret # None
  /\ Begin(t, "disable-totp",
           [totp |-> FALSE, secret |-> None, enabled |-> row.email], None,
           <<"save">> \o Unless(row.email, Forget))

DisableTotp(t) ==
  /\ row.totp \/ row.secret # None
  /\ ~(row.required /\ ~row.email)
  /\ Begin(t, "disable-totp",
           [totp |-> FALSE, secret |-> None, enabled |-> row.email], None,
           <<"save">> \o Unless(row.email, Forget))

DisableEmailAlone(t) ==
  /\ row.email \/ \E c \in Codes : challenge[c] # None
  /\ ~(row.required /\ ~row.totp)
  /\ Begin(t, "disable-email", [email |-> FALSE], None,
           <<"save", "drop-challenges">> \o Unless(row.totp, Forget))

DisableEmail(t) ==
  /\ row.email \/ \E c \in Codes : challenge[c] # None
  /\ ~(row.required /\ ~row.totp)
  /\ Begin(t, "disable-email", [email |-> FALSE, enabled |-> row.totp], None,
           <<"save", "drop-challenges">> \o Unless(row.totp, Forget))

Cleared == [totp |-> FALSE, email |-> FALSE, enabled |-> FALSE,
            secret |-> None]

DisableAll(t) ==
  /\ row.enabled \/ row.secret # None \/ row.totp \/ row.email
  /\ ~row.required
  /\ Begin(t, "disable-all", Cleared, None,
           <<"save", "drop-recovery", "drop-challenges">>)

AdminDisable(t) ==
  Begin(t, "admin-disable",
        [f \in DOMAIN Cleared \cup {"required"} |->
           IF f = "required" THEN FALSE ELSE Cleared[f]],
        None, <<"save", "drop-recovery", "drop-challenges">>)

(* update_user_account sets mfa_required and saves every column.           *)
AdminUpdate(t) ==
  \E b \in BOOLEAN :
    Begin(t, "admin-update", [row EXCEPT !.required = b], None, <<"save">>)

(* change_password_for_user, reset_user_password, complete_password_reset: *)
(* new columns of the password, and the copy of every other one.           *)
SavePassword(t) == Begin(t, "password", row, None, <<"save">>)

MailCode(t) ==
  Begin(t, "send-code", [addr |-> row.addr], None,
        <<"limit", "burn", "create", "send">>)

StartEmail(t) == ~row.email /\ MailCode(t)

(* Asked for again on the login page, or for the sudo page.                *)
Resend(t) == row.email /\ MailCode(t)

ConfirmEmail(t) ==
  /\ ~row.email
  /\ Begin(t, "confirm-email", [email |-> TRUE, enabled |-> TRUE], None,
           <<"find-code", "use-code", "save">> \o Unless(row.enabled, Issue))

(* The login page and the sudo page accept a code mailed to the user.      *)
EmailLogin(t) ==
  /\ row.email
  /\ Begin(t, "email-login", NoColumns, None, <<"find-code", "use-code">>)

Regenerate(t) ==
  /\ row.enabled
  /\ Begin(t, "regenerate", NoColumns, None, Issue)

(* consume_recovery_code: the look-up, and then the save of used_at.       *)
Recovery(t) ==
  /\ row.enabled
  /\ \E b \in Batches :
       /\ recovery[b] = "unused"
       /\ Begin(t, "recovery", NoColumns, b, <<"use-recovery">>)

RequestChangeAtOnce(t) ==
  \E a \in Addresses \ {row.addr} :
    Begin(t, "request-change", [addr |-> a], None,
          <<"save", "supersede", "open", "mail">>)

RequestChange(t) ==
  \E a \in Addresses \ {row.addr} :
    Begin(t, "request-change", [addr |-> a], None,
          <<"supersede", "open", "mail">>)

ConfirmChangeAgain(t) ==
  \E q \in Changes :
    /\ change[q] # NoChange /\ ~change[q].expired /\ change[q].sent
    /\ Begin(t, "confirm-change", [addr |-> change[q].new], q,
             <<"save", "close">>)

(* confirm_email_change: the request and its user are one query.           *)
Moving(q) ==
  LET new == [addr |-> change[q].new, email |-> FALSE, enabled |-> row.totp]
      saved == IF ~row.email THEN {"addr"}
               ELSE IF row.totp THEN {"addr", "email"} ELSE DOMAIN new
  IN [f \in saved |-> new[f]]

(* By the link mailed to the new address, and the button on its page.      *)
ConfirmChange(t) ==
  \E q \in Changes :
    /\ Open(q) /\ ~change[q].expired /\ change[q].sent
    /\ Begin(t, "confirm-change", Moving(q), q,
             Unless(~row.email, <<"drop-challenges">>) \o <<"save", "close">>)

(* By the link of the alert, which is mailed after the confirmation.       *)
CancelChange(t) ==
  \E q \in Changes :
    /\ Open(q) /\ change[q].sent
    /\ Begin(t, "cancel-change", NoColumns, q, <<"cancel">>)

(* The view takes the newest of the open requests; two are open only after *)
(* two requests have crossed, and then it is either.                       *)
CancelInApp(t) ==
  \E q \in Changes :
    /\ Open(q)
    /\ Begin(t, "cancel-in-app", NoColumns, q, <<"cancel">>)

Start(t) ==
  \/ StartTotp(t) \/ ConfirmTotp(t) \/ DisableTotp(t) \/ DisableEmail(t)
  \/ DisableAll(t) \/ AdminDisable(t) \/ AdminUpdate(t) \/ SavePassword(t)
  \/ StartEmail(t) \/ Resend(t) \/ ConfirmEmail(t) \/ EmailLogin(t)
  \/ Regenerate(t) \/ Recovery(t) \/ RequestChange(t) \/ ConfirmChange(t)
  \/ CancelChange(t) \/ CancelInApp(t)

-----------------------------------------------------------------------------
(* The statements, each run by autocommit.                                 *)

WriteOver(t, isLate) == Witness(Kind(job[t].op), isLate)

Save(t) ==
  /\ At(t, "save")
  /\ LET j == job[t]
     IN /\ row' = [f \in Columns |->
                     IF f \in DOMAIN j.save THEN j.save[f] ELSE row[f]]
        /\ proved' =
             CASE j.op = "start-totp" -> proved \ {j.save.secret}
               [] j.op = "confirm-totp" -> proved \cup {j.found}
               [] j.op = "confirm-change" -> proved \cup {j.save.addr}
               [] OTHER -> proved
        /\ applied' = IF j.op = "confirm-change" THEN applied \cup {j.found}
                      ELSE applied
        /\ detached' = IF row'.enabled = row.enabled THEN detached
                       ELSE j.op = "confirm-change"
  /\ WriteOver(t, ~job[t].fresh)
  /\ UNCHANGED <<tables, crossed>>
  /\ Advance(t)

DropRecovery(t) ==
  /\ At(t, "drop-recovery")
  /\ recovery' = [b \in Batches |-> "none"]
  /\ UNCHANGED <<row, challenge, change, history>>
  /\ Advance(t)

Mint(t) ==
  /\ At(t, "mint")
  /\ FreshBatches # {}
  /\ recovery' =
       [recovery EXCEPT ![CHOOSE b \in FreshBatches : TRUE] = "unused"]
  /\ UNCHANGED <<row, challenge, change, history>>
  /\ Advance(t)

(* save(update_fields) of a row that is gone raises: nothing is accepted.  *)
UseRecovery(t) ==
  /\ At(t, "use-recovery")
  /\ UNCHANGED <<row, challenge, change, crossed, proved, applied, detached>>
  /\ LET b == job[t].found
     IN IF recovery[b] = "none"
        THEN Abandon(t) /\ UNCHANGED <<recovery, accidents>>
        ELSE /\ recovery' = [recovery EXCEPT ![b] = "used"]
             /\ WriteOver(t, recovery[b] = "used")
             /\ Advance(t)

DropChallenges(t) ==
  /\ At(t, "drop-challenges")
  /\ challenge' = [c \in Codes |-> None]
  /\ UNCHANGED <<row, recovery, change, history>>
  /\ Advance(t)

(* _check_email_mfa_rate_limit, over the rows that are still there.        *)
WithinLimit ==
  LET recent == {c \in Codes : challenge[c] # None}
  IN /\ \A c \in recent : challenge[c].age >= 1
     /\ Cardinality({c \in recent : challenge[c].age < Hour}) < HourlyLimit

CheckLimit(t) ==
  /\ At(t, "limit")
  /\ UNCHANGED <<row, tables, history>>
  /\ IF WithinLimit THEN Advance(t) ELSE Abandon(t)

Burn(t) ==
  /\ At(t, "burn")
  /\ challenge' = [c \in Codes |-> IF challenge[c] = None THEN None
                                   ELSE [challenge[c] EXCEPT !.used = TRUE]]
  /\ UNCHANGED <<row, recovery, change, history>>
  /\ Advance(t)

Crossing(t, step, what) ==
  crossed' = IF \E u \in Threads \ {t} : At(u, step)
             THEN crossed \cup {what} ELSE crossed

CreateCode(t) ==
  /\ At(t, "create")
  /\ FreshCodes # {}
  /\ LET c == CHOOSE x \in FreshCodes : TRUE IN
       /\ challenge' = [challenge EXCEPT ![c] =
              [at |-> None, used |-> FALSE, age |-> 0]]
       /\ job' = [job EXCEPT ![t].found = c, ![t].todo = Tail(job[t].todo)]
  /\ Crossing(t, "create", "challenge")
  /\ UNCHANGED <<row, recovery, change, accidents, proved, applied, detached>>

(* The SMTP server may refuse: the view answers 502, the row stays.        *)
SendMail(t) ==
  /\ At(t, "send")
  /\ LET c == job[t].found
     IN \/ /\ challenge[c] # None
           /\ challenge' = [challenge EXCEPT ![c].at = job[t].save.addr]
        \/ UNCHANGED challenge
  /\ UNCHANGED <<row, recovery, change, history>>
  /\ Advance(t)

(* consume_email_mfa_code: what is typed is a code that came by mail.      *)
FindCode(t) ==
  /\ At(t, "find-code")
  /\ \/ \E c \in Codes :
          /\ Live(c) /\ challenge[c].at # None
          /\ job' = [job EXCEPT ![t].found = c, ![t].todo = Tail(job[t].todo)]
     \/ Abandon(t)
  /\ UNCHANGED <<row, tables, history>>

UseCode(t) ==
  /\ At(t, "use-code")
  /\ UNCHANGED <<row, recovery, change, crossed, applied, detached>>
  /\ LET c == job[t].found
     IN IF challenge[c] = None
        THEN Abandon(t) /\ UNCHANGED <<challenge, accidents, proved>>
        ELSE /\ challenge' = [challenge EXCEPT ![c].used = TRUE]
             /\ proved' = proved \cup {challenge[c].at}
             /\ WriteOver(t, challenge[c].used)
             /\ Advance(t)

SupersedeNothing(t) ==
  /\ At(t, "supersede")
  /\ UNCHANGED <<row, tables, history>>
  /\ Advance(t)

Supersede(t) ==
  /\ At(t, "supersede")
  /\ change' = [q \in Changes |-> IF Open(q)
                 THEN [change[q] EXCEPT !.cancelled = TRUE] ELSE change[q]]
  /\ UNCHANGED <<row, recovery, challenge, history>>
  /\ Advance(t)

OpenChange(t) ==
  /\ At(t, "open")
  /\ FreshChanges # {}
  /\ LET q == CHOOSE x \in FreshChanges : TRUE IN
       /\ change' = [change EXCEPT ![q] =
              [NoChange EXCEPT !.new = job[t].save.addr]]
       /\ job' = [job EXCEPT ![t].found = q, ![t].todo = Tail(job[t].todo)]
  /\ Crossing(t, "open", "change")
  /\ UNCHANGED <<row, recovery, challenge, accidents, proved, applied, detached>>

(* The confirmation and then the alert; the alert is best effort, a        *)
(* confirmation that raises leaves the request open without a link.        *)
MailChange(t) ==
  /\ At(t, "mail")
  /\ LET q == job[t].found
     IN \/ change' = [change EXCEPT ![q].sent = TRUE]
        \/ UNCHANGED change
  /\ UNCHANGED <<row, recovery, challenge, history>>
  /\ Advance(t)

CloseChange(t) ==
  /\ At(t, "close")
  /\ change' = [change EXCEPT ![job[t].found].confirmed = TRUE]
  /\ UNCHANGED <<row, recovery, challenge, history>>
  /\ Advance(t)

Cancel(t) ==
  /\ At(t, "cancel")
  /\ change' = [change EXCEPT ![job[t].found].cancelled = TRUE]
  /\ WriteOver(t, ~job[t].fresh)
  /\ UNCHANGED <<row, recovery, challenge, crossed, proved, applied, detached>>
  /\ Advance(t)

Statement(t) ==
  \/ Save(t) \/ DropRecovery(t) \/ Mint(t) \/ UseRecovery(t)
  \/ DropChallenges(t) \/ CheckLimit(t) \/ Burn(t) \/ CreateCode(t)
  \/ SendMail(t) \/ FindCode(t) \/ UseCode(t) \/ Supersede(t)
  \/ OpenChange(t) \/ MailChange(t) \/ CloseChange(t) \/ Cancel(t)

(* A web worker is killed: its statements so far stay.                     *)
Die(t) ==
  /\ job[t] # Idle
  /\ Abandon(t)
  /\ Witness(IF At(t, "close") THEN "torn" ELSE "other", TRUE)
  /\ UNCHANGED <<row, tables, crossed, proved, applied, detached>>

Tick ==
  /\ challenge' = [c \in Codes |->
       IF challenge[c] = None \/ challenge[c].age = Hour THEN challenge[c]
       ELSE [challenge[c] EXCEPT !.age = challenge[c].age + 1]]
  /\ UNCHANGED <<row, recovery, change, job, history>>

Expire(q) ==
  /\ Open(q)
  /\ change' = [change EXCEPT ![q].expired = TRUE]
  /\ UNCHANGED <<row, recovery, challenge, job, history>>

(* retention.py deletes resolved rows days later, when no handler that      *)
(* could still know them is running.                                       *)
Sweep ==
  /\ challenge' = [c \in Codes |->
       IF challenge[c] # None /\ challenge[c].used /\ challenge[c].age = Hour
       THEN None ELSE challenge[c]]
  /\ change' = [q \in Changes |-> IF change[q].confirmed \/ change[q].cancelled
                                  THEN NoChange ELSE change[q]]
  /\ applied' = {q \in applied : change'[q] # NoChange}
  /\ Busy = {}
  /\ UNCHANGED <<row, recovery, job, accidents, crossed, proved, detached>>

Next ==
  \/ \E t \in Threads : Start(t)
  \/ /\ \/ \E t \in Threads : Statement(t) \/ Die(t)
        \/ Tick
        \/ \E q \in Changes : Expire(q)
        \/ Sweep
     /\ UNCHANGED left

Spec == Init /\ [][Next]_vars

-----------------------------------------------------------------------------
(* Properties.                                                             *)

(* mfa_enabled, the only column the login and the gates look at, is true   *)
(* exactly when a factor is on, whatever has been enrolled, disabled or    *)
(* stacked, by whom and over whichever deaths - unless the user switched a *)
(* factor off from a copy of the row that had gone stale.  Enrolments,     *)
(* whole-row saves and administrators may be as late as they like.         *)
FlagsAgree ==
  "remove factor" \notin accidents
    => (row.enabled <=> row.totp \/ row.email)

(* The factor that guards the account is one the person can present: while *)
(* TOTP is on the stored secret is one a code of which was typed back, not *)
(* the secret of a later enrolment page nor an empty column.  Only one of  *)
(* the two enrolment handlers saving from a stale copy breaks it.          *)
TotpSecretProved ==
  row.totp /\ "enrol totp" \notin accidents => row.secret \in proved

(* The factor is never on for an address that has not answered: each       *)
(* address it is on for has typed back a code or followed a link.  Only a  *)
(* whole-row save can put an old, unproved address back.                   *)
FactorAddressProved ==
  row.email /\ "whole row" \notin accidents => row.addr \in proved

(* Recovery codes follow the factors: never two batches at once, one batch *)
(* while MFA is enabled and none once the last factor is off.  It takes    *)
(* two handlers of the codes at once, a death between two statements or an *)
(* update from a stale copy to break it; and the codes that outlast the    *)
(* last factor are those of an account whose address was changed, where    *)
(* the confirmation switches the email factor off and leaves them.         *)
CodesMatchFactors ==
  LET there == {b \in Batches : recovery[b] # "none"}
  IN /\ Cardinality(there) > 1 => "other" \in accidents
     /\ Busy = {} /\ accidents = {} =>
          /\ row.enabled => there # {}
          /\ there # {} => row.enabled \/ detached

(* An administrator's mandate outlasts everything its user can do from the *)
(* profile: with mfa_required set the account does not fall back below MFA *)
(* and the mandate is not lifted, except by an administrator, by a change  *)
(* of address or by a save from a stale copy.                              *)
MandateKept ==
  [][row.required /\ ((row.enabled /\ ~row'.enabled) \/ ~row'.required) =>
       \E t \in Threads :
         /\ At(t, "save")
         /\ \/ job[t].op \in {"admin-disable", "admin-update", "confirm-change"}
            \/ ~job[t].fresh]_row

(* At most one emailed code works and at most one change of address is     *)
(* open, however often they are asked for and however the mails fail,      *)
(* unless two requests were between retiring the old row and inserting     *)
(* theirs at the same time.                                                *)
OnePending ==
  /\ "challenge" \in crossed \/ Cardinality({c \in Codes : Live(c)}) <= 1
  /\ "change" \in crossed \/ Cardinality({q \in Changes : Open(q)}) <= 1

(* A link of confirmation moves the address once: never again after it has *)
(* been applied, unless a process died before it could record that it had, *)
(* or something else ran between its reading and its writing.              *)
ChangeAppliedOnce ==
  [][\A t \in Threads :
       At(t, "save") /\ job'[t] # job[t] /\ job[t].op = "confirm-change"
         /\ job[t].found \in applied
       => \/ "torn" \in accidents \/ ~job[t].fresh
          \/ \E u \in Threads : At(u, "close") /\ job[u].found = job[t].found]_vars
=============================================================================
