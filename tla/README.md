# A TLA+ model of the AMELI App Template

This directory specifies the parts of the AMELI App Template (a Django
application: `src/src/ameli_web`, `src/src/ameli_app`) whose correctness depends
on the order in which several processes, threads, transactions and failures
meet. Paths below leave out the prefix `src/src/`; `accounts/` stands for
`ameli_web/accounts/`.

Contents: [inventory](#1-inventory) - [modules](#2-modules) - [runs](#3-runs-what-tlc-checks)
- [fairness](#4-fairness) - [proofs](#5-proofs) - [disagreements with the
documentation](#6-where-code-and-documentation-disagree) - [limits](#7-what-is-not-modelled)
- [plan](#8-plan)

## 1. Inventory

**Processes.** An ASGI web process (`uvicorn`, synchronous views in threads), a
notifier started again and again by systemd (`ameli_app/workers/notify.py`, one
tick of the email queue per process), a maintenance process (retention sweep), the
`verify-audit` timer, and operators using the CLI (`ameli_app/cli.py`) and the
admin. All share one database: PostgreSQL (READ COMMITTED, autocommit,
no `ATOMIC_REQUESTS`) or SQLite when no PostgreSQL is configured. State outside the
database: one circuit breaker per dependency and process, the audit key each
process read from the env file when it started, and the env file.

| Component | State | Operations | What is hard | What makes it correct |
|---|---|---|---|---|
| Circuit breaker `accounts/circuit_breaker.py` | failure count, opening time, per process | allow, record_success, record_failure | calls run outside the lock and report late and out of order | counter and flag agree; a failed probe re-arms; only success closes; it recovers |
| Email retry queue `accounts/services/email_queue.py` | `OutboundEmail` rows, the tick's snapshot, the open transaction | send_with_retry, process_email_queue, retry_now | send inside a transaction, crash, overlapping ticks, stale snapshot and clock | one sender per row; duplicates only after an unrecorded acceptance; final verdicts; every row resolved |
| Audit chain `accounts/services/audit.py` | `AuditEvent` rows with prev_hmac and hmac, the key in each process | record_audit, verify_audit_chain | concurrent appends, keys that differ between processes | every row linked to the one before; verification finds what was altered and nothing else |
| Key rotation `audit.py`, `ameli_app/cli.py` | the same rows, env file | rotate_audit_key, apply_audit_key_to_env_file, restart | walk against appends, crash between commit and env file, old keys in memory | the chain verifies under the new key |
| Retention `accounts/services/retention.py` | the same rows and five other tables | run_retention_sweep | prune and re-stamp against appends and rotation | survivors stay, in order, and verify |
| Login throttle and lockout `accounts/services/throttle.py` | `ThrottleCounter` rows, `User.locked_at`, lockout audit rows | bump, sliding read, reserve, permanent lock, unlock, reset | bump and read in two transactions, bucket boundaries, audit rows that outlive an unlock | never more than the cap admitted; a lock only on repeated lockouts; unlock effective |
| MFA factors `accounts/services/mfa.py` | four flags of `User`, secret, recovery codes, email challenges | start, confirm and disable per factor, admin disable, regenerate, consume | unlocked read-check-write, partial saves | a mandated account never loses its last factor; codes are spent once |
| Email change `accounts/services/email_change.py` | `EmailChangeRequest` | request, confirm, cancel, expire | confirm against cancel or supersede | exactly one outcome |
| Sessions `accounts/services/session.py`, middleware | `UserSession`, session store | sync, revoke, revoke others, absolute ceiling | revocation against a request under way | a revoked session stays revoked |
| Sudo `accounts/services/sudo.py` | grant in the session, failure counter | grant, verify, revoke | failure budget against a running grant | no sudo without fresh credentials |
| Login flow `accounts/views/auth.py` | pending keys of the session | password step, second factor, resend | two steps, each throttled, user state changing between them | no session without every factor required |
| User administration `accounts/services/user.py` | `User` rows | bootstrap, create, update, delete, purge | whole-row saves of stale copies | an active superadmin remains |
| Password reset `accounts/services/password_reset.py` | token over the password hash | request, complete | concurrent completions | a token works once |
| Auth alerts `accounts/services/auth_alerts.py` | cooldown stamp of the user | alert on crossing | unlocked check and stamp | one alert per cooldown |
| Avatars `accounts/services/user.py`, `accounts/views/profile.py`, `ameli_web/urls.py` | files of the storage, the column `avatar` | upload with scan, replace, remove, serve | no transaction spans file and row | the name in the row is that of a file; an unscanned file has its audit row |
| Maintenance and gates `accounts/services/maintenance.py`, `accounts/middleware.py` | singleton flag | enable, disable, gate chain | gates that exclude each other | every gate leaves open the page it sends to |

Interaction: web requests, the notifier, the sweep and the CLI all call
`record_audit`; password reset, MFA and auth alerts hand messages to
`send_with_retry`; the notifier asks the SMTP breaker, uploads the antivirus
breaker, password validation the HIBP breaker; the throttle calls auth alerts and
reads the audit table; the login flow composes throttle, factors and sessions.

The hazards this leads to are listed line by line in `PROJECT.json`, each with the
properties about it, or the reason why there is none yet.

## 2. Modules

```
Breaker            values and operations of one breaker
  CircuitBreaker   a breaker shared by the threads of a process
  EmailQueue       the queue; one breaker per notifier process
     MCEmailQueue  schedules and lifetimes for TLC
MailPromise        what a caller of send_with_retry is promised (EmailQueue implements it)
AuditChain         the log, its writers, rotation and prune
  MCAuditChain     model values for TLC
LoginThrottle      the gates and the lockout ladder of one account
  MCLoginThrottle  symmetry for TLC
SecondFactor       factors, recovery codes, mailed codes, change of address of one account
  MCSecondFactor   the handlers each of two instances lets run
UserAccounts       the rows of users over their life, administration and reset links
  MCUserAccounts   symmetry for TLC
LoginFlow          the sessions of one account: login, rotation, revocation, new passwords
  MCLoginFlow      symmetry for TLC
Gates              middlewares, decorators, sudo grant and maintenance window
Avatars            the picture of one account: file, column, scan
  MCAvatars        symmetry for TLC
Breaker_proofs (CircuitBreaker and EmailQueue), AuditChain_proofs,
LoginThrottle_proofs, SecondFactor_proofs, UserAccounts_proofs, LoginFlow_proofs,
Gates_proofs, Avatars_proofs
```

**Breaker** is `CircuitBreaker` as a record: `failures`, `open` (`_opened_at !=
0.0`) and `cool`, what is left of the cooldown. Every method runs under one lock
and is one operator. The counter saturates at `FailureCap`, at or above the
threshold, beyond which the code never distinguishes values.

**CircuitBreaker** adds what the lock does not cover: between `allow()` and the
report a thread is in a call whose fate (`ok`, `bad`) was settled by the state of
the dependency when it started. `CallEscapes` is the exception that
`accounts/validators.py:115` does not catch. A refused call changes nothing and is
no step. Its specification is `CallSpec` (`CallInit`, `CallNext`, `CallFairness`), so that
`Breaker_proofs` can extend it together with `EmailQueue`.

**EmailQueue** keeps one function over messages per column of `OutboundEmail`
(`status`, `attempts`, `retryIn`, `expiresIn`, `body`), the position of the request
thread, and per worker the tick's snapshot (`batch`), the rows of it that had
expired when it was taken (`late`; `expires_at` never changes, so the comparison
with `current` can be settled then), the row locked by the open transaction
(`job`) and the breaker. Times are distances: 0 is "now or past". The inline send,
the insertion of the row and the audit row are three steps, as they are three
commits; a worker's transaction is "taken", "accepted by the server", and a commit
(`Delivered`, `SendRaises`, `DropExpired`) that writes the row and its audit row
together. `WorkerDies` is death at any of these points, and equally an exception of
`record_audit`, which the inner `try` does not cover. `NewProcess` is systemd's
new process per tick: its breaker is new. `accepted`, `unsure` and `trail` are
history: how often a server took the message, how often nobody could know, and
which audit rows were written.

**MailPromise** is the abstract specification: a message is asked for, kept,
handed over, and ends sent, failed or (only while its own request is still running)
lost. `Promise` in EmailQueue instantiates it with the mapping `Fate`.

**AuditChain** has the rows in id order with the data of a row reduced to "what it
said when written" (its id) or `Altered`. HMAC is a free constructor: a mac is the
sequence of `<<key, data>>` pairs under it, so two macs are equal exactly when the
histories are. Every transaction is a read step and a commit step. `Serial = TRUE`
is SQLite, where a transaction that read before another's commit cannot commit
("database is locked"); `Serial = FALSE` is PostgreSQL, where the lock on
the last row makes the second writer wait and then gives it the same row again.
The re-stamping walk is the loop of the code, as a recursive function (`Restamp`). A key may
be pinned at any time, while a sweep that started without one is under way too: `cleared` is
history, the stamped rows whose `prev_hmac` such a sweep blanked, until a walk with a key
stamps them again. The rotation follows the recipe of
`docs/OPERATIONS.md`: `from_key` is what the env file holds, the env file is
rewritten after a clean verification, and processes come back with the new key at
their own `Restart`. Ids are taken to be in commit order.

**LoginThrottle** follows one account through `check_login_throttle`, as the
password form and the second-factor form call it. An attempt is a request at one of
the points where others can come between: the address gate passed (`PassIpGate`),
the reservation committed (`Reserve`), let through or refused by the sliding read
(`Admit`, `Refuse`), the outcome (`WrongCredential`, `BlankForm`, `AwaitFactor`,
`LogIn`), and after a refusal `maybe_permanently_lock` (`Climb`). `locked_at` and the
address count are read in one step, since nothing that happens between the two reads
depends on both. A counter is the pair of the rows that are ever read, of the current and
of the previous window; `Tick` turns them. Time is an integer clock; the sliding share is
exact (in the code a float that rounding can only raise). `lockouts` counts
the `login_locked_out` rows per tick, up to `Recent` of them: more rows of one tick
than the query returns make no difference. An attempt without budget for its address
changes nothing kept here and is no step. `mine`, `admitted` and `unlock` are
history: where a request's reservation is, how many were let through per window of
their reservation, and whether anybody was since the last unlock.

**SecondFactor**, **UserAccounts**, **LoginFlow** and **Avatars** share a form, because
the code has one: no transaction spans a request (autocommit, no `ATOMIC_REQUESTS`),
so a handler reads its row once, decides, and issues its statements one by one. `job[t]`
is what thread `t` has decided and where it is; every statement is a step; `Die` is
the end of the worker before the next one; `left` bounds how many handlers begin.
Reading and deciding, which write nothing, are one step. Where the code saves a whole
row from its copy (`user.save()`) so does the model, and each of these modules keeps as
history which writes were made from a copy out of date (`accidents`, `fresh`,
`reverted`, `dangling`): the properties hold without an exception for those handlers
that save only their own columns, and name the exception where the code is open to one.

**SecondFactor**: a plan is the columns a handler will save and the list of statements
left (`Issue`, `Forget`, ...), in the order of the code - `disable_mfa_email_for_self`
saves the flags first, `confirm_email_change` deletes the challenges first. The
mandate's check is in the guard of the disabling handlers, as in the code, not in the
save. A batch of ten recovery codes is one code, TOTP codes are right for one secret.
`challenge[c].at` is the mailbox in which a code can be read. History: `proved`, the secrets
and addresses somebody answered from; `detached`, whether it was the confirmation of a change
of address that last switched MFA off.

**UserAccounts**: the columns that decide something (`is_superuser`, `is_active`,
`must_change_password`, the hash), for every user. Hashes are salted, so each one set is
new; a reset token is the hash it signs. `update_user_account` locks the superadmins and
looks again in the transaction that saves (`Refused`), all others just save. `Delete` and
`PurgeNext` remove the row by name whatever it says by then. A call of
`update_user_account` may set any of the role, the access, the flag and the password together
(`Updates`), of one's own row the last two (`OwnUpdates`). `temp` is the password an
administrator last asked to have changed; saving the user with the flag down takes the demand
back. A fresh deployment and one in
use are both initial states.

**LoginFlow**: per session key the row of `django_session` (whose data say for which
hash the login holds, when the last credential was given, when it was last used) and the
row of `UserSession`. The request loads the session once and saves it whole with its
answer, unless the row is gone by then (`UpdateError`). `Stamp` is the save of
`sync_request_session`, which writes `revoked_at` back as it read it. `SaveUser` is
`update_user_account` by an administrator: the whole row as it was read in a step before
(`AdminUpdate`), so that it may bring an old hash back. Django's part is its own: `Rotate`
inserts the row of the new key, `DropOld` deletes that of the old one (`cycle_key`), and the
answer saves the session. `typed` (which password the holder typed), `ended`, `parked`,
`overtaken` and `crossed` are history: overtaken is whoever has typed a password, in a login or
a change still under way, when another handler writes a different hash; a session that comes
out of that is `crossed`. Time passes only between
requests: a request lasts at most a worker's timeout, the shortest of the ages is minutes.

**Gates**: `Verdict` is the chain of middlewares in the order of `MIDDLEWARE` followed by
the decorators, over nine families of paths; it is a function of the user, the window
and the session as the request loaded them. Requests are either one of the five with an
effect of their own (`Effects`) or stand-ins for the rest (`Plain`: a page that reads, a
view behind sudo). `User` is a browser with a person: it follows redirects, does what the
page asks, and otherwise wants the home page, or the end of the window if it may. The
sudo grant is a field of the session, so it is saved and lost with it. The
`OperationalError` branch of the maintenance gate is an arrival that takes the window
for closed whatever the row says (`Closed`).

**Avatars**: the file and the column that names it. `Scan` is the antivirus call with its
three outcomes, and the audit row of a failed one comes before the file (`Note`).
`SaveWhole` is any of the whole-row saves of other handlers, from which `update_fields`
does not protect the column `avatar`.

Plausible bugs used to test the sensitivity of the properties (operators such as
`SurvivorsOffByOne`, `IssueOnTop`, `RefusedNever`) stand beside the definition
they alter and are used by no specification.

## 3. Runs: what TLC checks

| Run | Instance | Result |
|---|---|---|
| `breaker` | 3 threads, threshold 2, cooldown 2; 1,304 states | passes: `OpenIffThreshold`, `FailureWhileOpenRefuses`, `Recovers` |
| `email` | 1 message, 4 attempts, 2 notifiers, 2 crashes, breaker threshold 1; 76,851 states | passes: `TypeOK`, `RowsSendable`, `AcceptedOnceUnlessUnsure`, `TrailMatches`, `ImplementsPromise`, `EventuallyResolved` |
| `audit` | SQLite, 2 writers, 2 keys, 5 rows, 1 outside edit; 724,131 states | passes: `ChainLinked`, `RestampVerifies`, `HistoryPreserved` |
| `audit_fork` | PostgreSQL, 2 writers, 4 rows | `ChainLinked` is violated (section 6) |
| `throttle` | 2 requests, 1 address, window 2, caps 3 and 2, threshold 2, clock to 3; 2,662,156 states up to symmetry | passes: `TypeOK`, `HardCeiling`, `SlidingCeiling`, `IpFloodBound`, `LockJustified` |
| `throttle_unlock` | 1 request at a time, clock to 5 | `UnlockGivesAnAttempt` is violated (section 6) |
| `factors` | 2 threads, 4 handlers out of eleven kinds, 2 secrets, 2 batches, 1 code; 527,542 states up to symmetry | passes: `FlagsAgree`, `TotpSecretProved`, `CodesMatchFactors`, `MandateKept` |
| `email_factor` | 2 threads, 4 handlers out of nine kinds, 2 codes, 2 changes, 2 addresses; 529,907 states up to symmetry | passes: `CodesMatchFactors`, `FactorAddressProved`, `OnePending`, `ChangeAppliedOnce` |
| `accounts` | 2 users, 2 threads, 4 handlers; 1,742,597 states up to symmetry | passes: `TempMustChange`, `AdminRemains`, `TokenOnce` |
| `login` | 3 keys, 2 threads, 3 handlers, ceiling 2, idle 1, pending 1; 2,365,047 states up to symmetry | passes: `CeilingHolds`, `RevokedStaysOut`, `ServedKnowsPassword` |
| `gates` | User and 1 tab, grace 1, threshold 1, 4 events; 147,787 states | passes: `RedirectsEnd`, `SudoGuessesBounded`, `ActsOnFreshProof`, `MustChangeClears`, `MandateMet`, `OperatorEndsWindow` |
| `avatars` | 3 threads, 5 files, 4 handlers; 126,381 states up to symmetry | passes: `PictureIsThere`, `LeaksBounded`, `OutagesNoted` |

The type invariants of the modules whose configuration does not list `TypeOK` were
checked on the same instances; those of `CircuitBreaker`, `AuditChain`, `SecondFactor`,
`LoginFlow` and `Gates` are theorems (section 5), as are `OnlySuccessCloses` and
`OneSender`.

Six configurations are kept beside these runs. Each shows, in a few seconds, a trace to
something the code does and a comment or a document says it does not (section 6); run
them with `tlc -config <file> <module>`: `MCCircuitBreakerProbe` (`CircuitBreaker`),
`MCEmailQueueBackoff` (`MCEmailQueue`), `MCAuditChainRotation` and
`MCAuditChainWindow` (`MCAuditChain`), `MCLoginThrottleBurst` (`MCLoginThrottle`),
`MCUserAccountsLost` (`MCUserAccounts`).

**Why the bounds are enough.** Three threads give a late success and a late
failure beside a probe. A threshold of 2 separates "counts" from "opens".
One message meets every fault of the queue - its rows do not refer to each other - with
two notifiers that overlap on it, and four attempts cover the schedule beyond its last
entry (a delay of one tick, then one or two: base and jitter); that a second message
changes nothing for the safety properties is proved, not checked. Five audit rows suffice
for a legacy row between chained ones, a rotation row, a prune that keeps some, its
anchor, and an append after that. `MaxCrashes`, `MaxRows`, `MaxEdits`, `FailureCap`,
`MaxHandlers` and `MaxEvents` exist only in the model.

In the throttle two requests suffice for a reservation between another's
reservation and its verdict, for a login that deletes a pending reservation, and for the
overshoot of the address gate; a cap of 3 is the smallest the code recommends for the
sliding count, and with a window of two ticks a half of the previous one slides out,
which rounding up and rounding down tell apart. The window of an address (3 ticks) and that
of the account turn at different times. `Recent` and `Lookback` are 2 rows and 1 window
there (10 and 6 in the code), so that both cut something off. `MaxTime` and
`MaxBumps` exist only in the model.

In the four modules of handlers two threads suffice for every race of two, which is what
their code is open to; four handlers give a setting-up before the race and a third
handler after it (enrol, disable twice at once, enrol again; two resets around a
change; upload and removal around a whole-row save). Three threads in `avatars` let two
uploads cross a removal. `login` has three keys: the one revoked, the one revoking and the one a
rotation opens; three handlers, because one request alone has up to seven statements; the
ceiling is longer than the idle timeout, so that a session in use reaches it. What takes more
handlers than that - a rotation and then the way to the ceiling, a session used while its user
was disabled and met by the ceiling after - is covered by the theorem `CeilingAlwaysHolds`
only. In `gates`
a grace of one tick and a threshold of one make every grant expire and the second guess
wait; one tab is enough to hold an old copy of the session; four events pay for a
mandate, a demotion, a tick and a mistake in any order. Identifiers (files, secrets,
batches, codes, changes) are reused once nothing remembers them, and there are enough for
those that live at a time.

Symmetry is declared over threads and interchangeable identifiers, in runs without
liveness properties. Deadlock is not checked where the number of handlers, events or ticks
is bounded, since such a system may come to rest; the other three never may. A tick of
the notifier that finds nothing due, or an open breaker before the first row, changes
nothing: it is a stutter, not an action.

## 4. Fairness

`CircuitBreaker`: time passes (the monotonic clock), a call ends (all transports
have timeouts), and there is traffic (`StartCall` of a thread that stays allowed);
the dependency owes nothing. `Recovers` therefore supposes only what it says, that the
dependency is up from some point on.

`EmailQueue`: time passes, notifiers keep ticking (systemd restarts them), a tick
walks its rows, and a send ends. No fairness for acceptance by the server, for
`retry_now`, or for deaths; these are bounded by `MaxCrashes` because a notifier that
dies at every row would resolve nothing, in the code as well.

`Gates`: the person goes on (`UserArrives`), a request once served is answered
(`Continue`, per thread: workers have a timeout), and the bucket of the failure counter
turns with the clock (`Turn`). Ticks of the grace, mistakes, other tabs, and acts of other
administrators owe nothing; they are bounded by `MaxEvents`, which says that there is a
time after which the operator is quick enough to act within one grace and nobody keeps
undoing what the person does. No property could hold against an administrator who resets
a password as often as it is changed.

The others are checked for safety only and state no fairness.

## 5. Proofs

TLAPS checks, for every value of the constants that the named assumptions allow
(`BreakerAssumption`, `EmailQueueAssumption`, ... one per module; TLC evaluates them in
every run), a theorem for every safety property that a passing run checks. An assumption says what
a constant is: that `None` is none of the values it stands beside, that secrets are not
addresses, that a set of threads whose members are counted is finite, that sizes are numbers
and not zero where the code divides by them or never configures zero. None of them bounds
how many there are of anything.

The pattern is the same everywhere. A property is not inductive as it stands; what is
missing is what a request under way still knows, or still has in front of it. The
strengthening was checked by TLC on the instance of the run first and then proved: one lemma
for each action or group of actions, one for stuttering, and the theorem combines them.

* **Breaker** (`Breaker_proofs`): `CallsTypeCorrect`, `OpenAgreesWithCount` (every
  operator of `Breaker` keeps the agreement), and from it the action properties
  `FailureRefuses` and `SuccessAloneCloses`.
* **Mail queue** (`Breaker_proofs`): `TypeCorrect`, `SendersExclude`, `RowsStaySendable`,
  `DuplicatesExplained`, `TrailFollowsRow`, and `QueueImplementsPromise`: the initial states
  map to `PromiseInit` and every step to a step of `MailPromise` or a stutter. The
  strengthening says what the phase of a worker means (a worker in a transaction has a job,
  it is pending, and no other worker has it), what the place of the request means for the
  row (no row before `Enqueue`, none at all unless the inline send raised), and that
  acceptances are matched by a record or by `unsure` except for the one a process is about
  to record.
* **Audit chain** (`AuditChain_proofs`): `AuditChainTyped`; `HistoryAlwaysPreserved` from
  the order of the ids alone, whether transactions serialise or not; `ChainAlwaysLinked` and
  `RestampAlwaysVerifies` under `Serial = TRUE`. That hypothesis is needed: `audit_fork` is
  the counterexample without it. The invariant (`Serialised`) says that nothing is stamped
  before a key is pinned (`Unkeyed`), that what an open transaction has read is what is
  there or it can no longer commit (`Reads`), and that the rows are joined, but for those in
  `cleared` (`Joined`: a keyless sweep blanks what a row says of its predecessor, never what
  the row behind it says of that row). The walk that re-stamps is a recursive function; what
  it computes is found without induction over data: a first row at which it and a closed form
  differ would have no cause (the lemma `LoopIsClosedForm`, from the well-foundedness of the
  naturals), and the closed form is what the proofs go on with.
* **Login throttle** (`LoginThrottle_proofs`): `ThrottleTypes`, `CeilingIsHard`,
  `CeilingSlides`, `FloodIsBounded`, `LockAlwaysJustified`. For the ceilings the
  strengthening (`Reserved`) says that the row of a window holds, beside the attempts let
  through, those still waiting for their verdict, as a cardinality; the address bound needs
  the same for the requests past the gate (`Budgeted`). The sliding bound rests on
  arithmetic lemmas about the rounded share. The ladder's loop keeps, for every number up
  to its count, a set of so many rows far enough apart (`Evidence`).
* **Second factor** (`SecondFactor_proofs`): all rests on `Base`, which says of every
  handler which statements can be left in which order (`Formed`) and what was true of the
  row when it decided and still is while its copy is fresh (`Decided`). On it
  `FlagsAlwaysAgree` and `MandateAlwaysKept` (a whole-row copy agrees with itself, `Flags`);
  `TotpSecretAlwaysProved` (the secret of an enrolment page is in nobody else's hands,
  `Apart`, `SecretProved`); `FactorAddressAlwaysProved` (every mail under way goes to the
  address of the row or to one that has answered, `AddressProved`); `NeverTwoBatches` and
  `CodesAlwaysMatchFactors` (whoever is between its save and its statements on the codes
  will leave them as the flag says, `Matched`); `AlwaysOnePending` (who is about to insert
  a row has retired the old one, `NoneLeft`); `ChangeAlwaysAppliedOnce` (`Noted`).
  All of them hold for every choice of handlers; the confirmation of a change of
  address, which drops the email factor and leaves the codes (section 6), is in
  `CodesAlwaysMatchFactors` as `detached`.
* **Users** (`UserAccounts_proofs`): `LastAdminRemains` (`Decided`: an update
  takes no enabled superadmin away or asks its transaction to look for another; a
  deletion or a purge is not of a superadmin, as far as its copy is fresh);
  `TempAlwaysMustChange` and `TokenUsedOnce` from `Hashed`: a whole row on its way
  carries a hash nobody else has, or the one it read; a link that has been used signs a hash
  that is gone.
* **Sessions** (`LoginFlow_proofs`): `LoginFlowTyped`; `EndedHasNoSession` and
  `RevokedKeysStayOut`: a key whose revocation is over has no row of
  `django_session` and no request under way began with it afterwards, because the answer
  only writes a row that is there and `cycle_key` only opens a key nobody had (the record,
  whose `revoked_at` can be written back, plays no part in it). `CeilingAlwaysHolds`
  rests on `Fits`, which says of the stored row and of every copy a request may save
  back: the record is at most one idle timeout younger than the last credential.
  `ServedAlwaysKnowsPassword` rests on `Own` (the key of a new row is only in the hands of the
  request that made it) and on `Honest`: whoever is in under some hash typed the password of
  that hash, or the session is in `crossed`; whoever is about to be let in typed the password
  of the copy at hand, or is in `overtaken`.
* **Gates** (`Gates_proofs`): `GatesTyped`; `RedirectsAlwaysEnd`, from the order of
  the gates alone, which is why `Verdict` is a chain of conditions; `SudoGuessesAlwaysBounded`
  from `Counts`: failures and guesses under way stay below the limit, and every wrong guess
  not yet counted belongs to a request under way; `ActsAlwaysOnFreshProof` from `Proofs`: a
  grant, in the session or in a copy that can still be saved, is not younger than the
  credentials behind it, and copies of a session rotated away are dead.
* **Pictures** (`Avatars_proofs`): `PictureStaysThere` (the file of an upload is nobody's
  old file and not in the row until `SaveRow` puts it there, `Apart`; the file about to be
  dropped is no longer the one of the row, `Replaced`); `UncheckedAreNoted` (unscanned
  files, and the requests that may still store one, are matched with audit rows);
  `LeaksAlwaysBounded` (what is stored, but neither in the row nor an upload's own, is
  at most as much as the accidents, `Strays`; a removal's file does not come back, `Swept`).

Only model-checked: the liveness properties `Recovers`, `EventuallyResolved`,
`MustChangeClears`, `MandateMet` and `OperatorEndsWindow` (liveness under fairness is
outside what the prover does); the type invariants of `UserAccounts` and `Avatars`, of which
the proofs use the parts they need; and the two counterexamples with the six beside them.

## 6. Where code and documentation disagree

Two of these are findings with a run of their own (`audit_fork`, `throttle_unlock`; the
wording is quoted in `PROJECT.json`). For the others a configuration is kept beside the
runs (section 3).

* **Forked audit chain on PostgreSQL** (`audit_fork`). The lock on the last row
  makes writers wait for each other, and the second then stamps its row over the
  row it waited for, not over the first writer's new one. An empty table locks
  nothing.
* **Unlock undone** (`throttle_unlock`). The gate counter and the lockout rows survive
  the unlock, so the user's next request can lock the account again.
* **Rotation under running processes** (`MCAuditChainRotation`). A row recorded with the
  old key between the rotation's commit and the restart breaks the chain for good.
* **Verifying a window** (`MCAuditChainWindow`). `--from-id` in mid-chain reports a break.
* **Backoff of overlapping ticks** (`MCEmailQueueBackoff`). The re-read under the lock
  looks at the status, not at `next_retry_at`.
* **Several probes** (`MCCircuitBreakerProbe`). HALF_OPEN lets every caller through until
  one reports.
* **A burst hides the ladder** (`MCLoginThrottleBurst`). The ten newest lockout rows may all
  belong to one burst; then no earlier window is counted and the account is never
  locked for good.
* **The last superadmin** (`MCUserAccountsLost`). `update_user_account` locks the active
  superadmins and re-checks, so that two of them cannot demote each other at once (comment at
  `accounts/services/user.py:264-272`). Any other handler that saves a whole row it read
  before, such as a reset of the password of a user promoted meanwhile, writes the old role
  back without looking; and the purge deletes whom it listed.

Read in the code, without a run. Mail, throttle and audit: a row of the email queue that expires while a tick
walks the rows before it is sent all the same (expiry is compared with the clock read at the
start of the tick); lockouts half a window apart count as distinct windows, so three of
them fit into two windows (`LockJustified` says half a window for that reason); the
second-factor form calls the ladder but writes `login_mfa_locked_out`, which it does
not count; a request that pauses between reservation and verdict until the window has
turned, or whose reservation a login deletes, is judged by a count that no longer
contains it (`HardCeiling` speaks of the others); the runbook (`docs/OPERATIONS.md:806-811`) says the
prune demotes surviving rows to legacy rows, the code re-chains them; the prune does
not verify before re-stamping, and the rotation verifies before its transaction;
a sweep that started without a key and ends after the first key was pinned clears `prev_hmac`
of rows chained meanwhile (`retention.py:168-172`; `cleared` in `ChainLinked`), which then no
longer verify until a rotation or a prune stamps them again; exit code 2 ("refused")
is also returned when the verification after a committed rotation fails.

Users: `bootstrap_superadmin` is skipped when there is a superadmin, though a disabled one;
the purge's docstring says superadmins are never touched, the loop deletes by name without
looking again (`user.py:511-545`); two completions that both passed the check of one reset
link before either saved both set a password (`password_reset.py:157-166`; `TokenOnce`
excepts a completion whose reading was overtaken); a change of role made between another
handler's reading and its whole-row save is undone; every path that deletes a user leaves the avatar file
behind; Django's own admin bypasses the guard of the last superadmin; groups are kept and
never read for authorisation.

Sessions: a revocation that meets a request just rotating the key is escaped, since the
data move to a key it does not know; the `UserSession` rows of rotated keys are neither
revoked nor swept; the branch of `UserSessionMiddleware` for disabled users
(`middleware.py:169`) is never taken, since Django's backend already returns an anonymous
user for them, so their sessions live on unrecorded and the ceiling starts when they are
enabled again (`parked` in `CeilingHolds`); a login that waits for its second factor
outlives a change of the password, and an own change whose last read finds the hash another
has written meanwhile keeps the session under it (`crossed` in `ServedKnowsPassword`); the
other may be a reset, a new password of an administrator, or any whole-row save that puts an
old hash back (`user.py:304`), and with it the password that was replaced;
an administrator's
change of the own password in the admin panel does not refresh the session's hash.

Factors: `verify_sudo_credentials` says that failures revoke the grant (`sudo.py:150-156`),
it only counts them (180-182); the mandate is absolute for self-service by the comment
at `mfa.py:140-142`, but confirming a change of address drops the email factor
(`email_change.py:232-240`) and leaves the recovery codes (`detached`), and two requests that
disable one factor each, at once, both find the other one on and leave none
(`mfa.py:148-201`; `MandateKept` excepts saves from a stale copy); two enrolments confirmed at
once may leave two batches of codes or none; a confirmation and a cancellation that read the
same open request leave it confirmed and cancelled with the address moved; one mailed or recovery code can be consumed by two requests at
once; a user who must enrol and may not end a maintenance window gets 503 on the
enrolment page until it ends; a sudo grant is lost when a request that loaded the session
before it answers after it.

## 7. What is not modelled

Deliberately: rendering, exports, pagination, metrics, telemetry and logging (they
read and do not decide), parsing of configuration and arguments, the
wire protocols of clamd, HIBP and SMTP (a call succeeds, fails, or fails after it
took effect), the checks and the conversion of images, static assets, and deployment
scripts.

Within the modelled components: the deletion of resolved rows after 30 days, the tick's
counters (reporting only; `skipped_breaker` over-counts skipped rows), the order in
which a batch is taken (any order is allowed), and a `max_attempts` of 1, which no
caller uses and with which the code would still try twice. The batch of the queue is not
cut short by a breaker that opens in its middle, since one message is what the run has; the
theorems about the queue hold for any number. In `SecondFactor`, a TOTP code is
right or wrong and not tied to a time step, and `change_email_for_self`, which no view
calls, is left out. In `UserAccounts`, the columns that decide nothing (names,
preferences, groups), and Django's own admin. In `LoginFlow`, the sessions of one account, so
that taking over a browser's session by another user is not there. In `Gates`, families of
paths stand for all their members, a request is one of `Effects` or `Plain`, and what a view
does is in the other modules; an enrolment confirmed with a session that is gone by then
would open a second one, of which `Gates` keeps none. In `Avatars`, one account.

Not at all: the alerts about failed logins (`auth_alerts.py`: a mail and a cooldown
stamp that feed back into nothing else; two crossings can both send) and the throttle of the
forms that request a reset or another code, which counts like those in `LoginThrottle` and
locks nothing.

Two assumptions about time: in `LoginFlow` no request lasts a tick, since the
shortest age there is minutes and a worker is killed long before; in `Gates` the grace is
longer than a few requests of one person (section 4).

## 8. Plan

What is left, the most useful first:

1. Proofs: the abstract log of item 3 as a refinement theorem; what verification finds, as a
   theorem about `Intact` (a table altered after it was stamped does not verify).
2. Models: the alert with its cooldown stamp; the gates of the reset and resend forms; the
   three tables of the sweep that only delete.
3. An abstract specification for `AuditChain` with `Serial`: an append-only log of what
   was recorded, cut at the front by the prune, which `HistoryPreserved` now says in part.
