---------------------------- MODULE LoginThrottle ----------------------------
(***************************************************************************)
(* The login gates of services/throttle.py, for one account, as the login  *)
(* form and the second-factor form use them.  An attempt reads locked_at   *)
(* and the failures of its address, reserves a place in the account's      *)
(* counter in one transaction, reads the sliding count in another, and     *)
(* only then is the credential checked.  Any number of requests may stand  *)
(* between those steps, and the window may turn under them.                *)
(*                                                                         *)
(* A counter row belongs to one window; only the rows of the current and   *)
(* of the previous window are ever read, so a counter is that pair.        *)
(***************************************************************************)
EXTENDS FiniteSetsExt, Integers

CONSTANTS
  Workers,    \* request threads
  Ips,        \* client addresses
  Window,     \* LOGIN_LOCKOUT_USER_WINDOW, in ticks
  IpWindow,   \* LOGIN_THROTTLE_IP_WINDOW, in ticks
  UserMax,    \* LOGIN_LOCKOUT_USER_MAX
  IpMax,      \* LOGIN_THROTTLE_IP_MAX
  Threshold,  \* LOCKOUT_PERMANENT_CONSECUTIVE; 0 disables the permanent lock
  Recent,     \* lockout rows maybe_permanently_lock looks at (10 in the code)
  Lookback,   \* windows it looks back (6 in the code)
  MaxTime,    \* bound on the clock
  MaxBumps    \* bound on the reservations of one window

ASSUME ThrottleAssumption ==
  /\ IsFiniteSet(Workers)
  /\ {Window, IpWindow, Recent, Lookback} \subseteq Nat \ {0}
  /\ {UserMax, IpMax} \subseteq Nat \ {0}
  /\ {Threshold, MaxTime, MaxBumps} \subseteq Nat

VARIABLES
  now,       \* the database clock, in ticks
  gate,      \* ThrottleCounter rows of scope login_gate_user
  ipFails,   \* ThrottleCounter rows of scope login_fail_ip, per address
  lockouts,  \* login_locked_out audit rows of the account, counted by time
  locked,    \* User.locked_at is set
  pending,   \* some session has passed the password step of an MFA account
  att,       \* the attempt each worker is serving
  mine,      \* the counter row that holds the worker's reservation
  admitted,  \* attempts let through, by the window of their reservation
  unlock     \* how the last unlock by an admin stands, see UnlockStates

vars == <<now, gate, ipFails, lockouts, locked, pending, att, mine, admitted,
          unlock>>

Counter == [cur : Nat, prev : Nat]
Zero == [cur |-> 0, prev |-> 0]
Kinds == {"password", "mfa"}
Idle == [step |-> "idle"]
Ladder == [step |-> "ladder"]
Underway == [step : {"reserve", "verify", "admitted"}, ip : Ips, kind : Kinds]
Rows == {"cur", "prev", "gone"}

(* "fresh": no refusal was under way, and nobody was admitted since.       *)
UnlockStates == {"never", "fresh", "used"}

TypeOK ==
  /\ now \in 0..MaxTime
  /\ gate \in Counter
  /\ ipFails \in [Ips -> Counter]
  /\ lockouts \in [0..MaxTime -> 0..Recent]
  /\ locked \in BOOLEAN /\ pending \in BOOLEAN
  /\ unlock \in UnlockStates
  /\ att \in [Workers -> Underway \cup {Idle, Ladder}]
  /\ mine \in [Workers -> Rows]
  /\ admitted \in Counter

Init ==
  /\ now = 0
  /\ gate = Zero
  /\ ipFails = [i \in Ips |-> Zero]
  /\ lockouts = [t \in 0..MaxTime |-> 0]
  /\ locked = FALSE /\ pending = FALSE
  /\ unlock = "never"
  /\ att = [w \in Workers |-> Idle]
  /\ mine = [w \in Workers |-> "gone"]
  /\ admitted = Zero

-----------------------------------------------------------------------------
(* Counters.                                                               *)

(* A counter that counts the wrong way.                                    *)
BumpReversed(c) == [c EXCEPT !.cur = @ - 1]

Bump(c) == [c EXCEPT !.cur = @ + 1]

Turn(c) == [cur |-> 0, prev |-> c.cur]

(* Seconds into the current window.                                        *)
Elapsed(size) == now % size

(* Truncating, the under-count the code warns against.                     *)
SlidingTruncated(c, size) ==
  c.cur + (c.prev * (size - Elapsed(size))) \div size

(* cur + ceil(prev * (window - elapsed) / window).                         *)
Sliding(c, size) ==
  c.cur + c.prev - (c.prev * Elapsed(size)) \div size

-----------------------------------------------------------------------------
(* The lockout ladder.                                                     *)

(* The times of the rows _consecutive_lockouts_for reads: the newest       *)
(* Recent ones, no older than the lookback.                                *)
RowTimes ==
  {t \in 0..now :
     /\ lockouts[t] > 0
     /\ now - t <= Lookback * Window
     /\ FoldSet(LAMBDA u, n : lockouts[u] + n, 0, t + 1 .. now) < Recent}

(* Every row counted on its own, as if each were a window.                 *)
ConsecutiveLockoutsUngrouped ==
  FoldSet(LAMBDA t, n : lockouts[t] + n, 0, RowTimes)

(* The loop over those rows, newest first: the first one counts, and so    *)
(* does each that is half a window or more older than the last one that    *)
(* did.  Strikes[k] is where it stands when it has been k ticks back.      *)
CountRow(acc, t) ==
  IF t \in RowTimes /\ (acc.n = 0 \/ 2 * (acc.last - t) >= Window)
    THEN [n |-> acc.n + 1, last |-> t]
    ELSE acc

Strikes[k \in 0 .. now + 1] ==
  IF k = 0 THEN [n |-> 0, last |-> now] ELSE CountRow(Strikes[k - 1], now + 1 - k)

ConsecutiveLockouts == Strikes[now + 1].n

(* Only the login form writes login_locked_out; the second-factor form     *)
(* writes login_mfa_locked_out, which nobody counts.  More than Recent rows *)
(* of one tick are as good as Recent.                                      *)
RecordLockout(kind) ==
  lockouts' = IF kind = "password" /\ lockouts[now] < Recent
                THEN [lockouts EXCEPT ![now] = @ + 1]
                ELSE lockouts

-----------------------------------------------------------------------------
(* One attempt.                                                            *)

(* The forms a client can post: the second one needs a pending login.      *)
Form(kind) == kind = "mfa" => pending

GoTo(w, step) == att' = [att EXCEPT ![w].step = step]

Done(w) ==
  /\ att' = [att EXCEPT ![w] = Idle]
  /\ mine' = [mine EXCEPT ![w] = "gone"]

(* locked_at is set: refused before anything is counted.                   *)
MeetLock(w, kind) ==
  /\ att[w] = Idle /\ Form(kind)
  /\ locked
  /\ att' = [att EXCEPT ![w] = Ladder]
  /\ RecordLockout(kind)
  /\ UNCHANGED <<now, gate, ipFails, locked, pending, mine, admitted, unlock>>

(* An off-by-one in the address gate.                                      *)
PassIpGateLoose(w, ip, kind) ==
  /\ att[w] = Idle /\ Form(kind)
  /\ ~ locked
  /\ Sliding(ipFails[ip], IpWindow) <= IpMax
  /\ att' = [att EXCEPT ![w] = [step |-> "reserve", ip |-> ip, kind |-> kind]]
  /\ UNCHANGED <<now, gate, ipFails, lockouts, locked, pending, mine,
                 admitted, unlock>>

(* locked_at is not set and the address has budget.  (Without budget the   *)
(* attempt ends in LoginThrottled and changes nothing kept here.)          *)
PassIpGate(w, ip, kind) ==
  /\ att[w] = Idle /\ Form(kind)
  /\ ~ locked
  /\ Sliding(ipFails[ip], IpWindow) < IpMax
  /\ att' = [att EXCEPT ![w] = [step |-> "reserve", ip |-> ip, kind |-> kind]]
  /\ UNCHANGED <<now, gate, ipFails, lockouts, locked, pending, mine,
                 admitted, unlock>>

Reserve(w) ==
  /\ att[w].step = "reserve"
  /\ gate.cur < MaxBumps
  /\ gate' = Bump(gate)
  /\ mine' = [mine EXCEPT ![w] = "cur"]
  /\ GoTo(w, "verify")
  /\ UNCHANGED <<now, ipFails, lockouts, locked, pending, admitted, unlock>>

(* The reservation that filled the gate is let through as well.            *)
WithinCapLoose(c) == Sliding(c, Window) <= UserMax + 1

WithinCap(c) == Sliding(c, Window) <= UserMax

(* The sliding read that follows the reservation lets the attempt through. *)
Admit(w) ==
  /\ att[w].step = "verify"
  /\ WithinCap(gate)
  /\ admitted' = IF mine[w] = "cur" THEN Bump(admitted) ELSE admitted
  /\ mine' = [mine EXCEPT ![w] = "gone"]
  /\ unlock' = IF unlock = "fresh" THEN "used" ELSE unlock
  /\ GoTo(w, "admitted")
  /\ UNCHANGED <<now, gate, ipFails, lockouts, locked, pending>>

Refuse(w) ==
  /\ att[w].step = "verify"
  /\ ~ WithinCap(gate)
  /\ RecordLockout(att[w].kind)
  /\ mine' = [mine EXCEPT ![w] = "gone"]
  /\ att' = [att EXCEPT ![w] = Ladder]
  /\ UNCHANGED <<now, gate, ipFails, locked, pending, admitted, unlock>>

(* maybe_permanently_lock, called after every AccountLocked.               *)
Climb(w) ==
  /\ att[w] = Ladder
  /\ locked' = (locked \/ Threshold \in 1..ConsecutiveLockouts)
  /\ Done(w)
  /\ UNCHANGED <<now, gate, ipFails, lockouts, pending, admitted, unlock>>

-----------------------------------------------------------------------------
(* What becomes of an attempt that was let through.                        *)

(* record_login_failure; the user's own failures are counted for an alert. *)
CountFailure(ip) == ipFails' = [ipFails EXCEPT ![ip] = Bump(@)]

(* Wrong password or code.                                                 *)
WrongCredential(w) ==
  /\ att[w].step = "admitted"
  /\ CountFailure(att[w].ip)
  /\ Done(w)
  /\ UNCHANGED <<now, gate, lockouts, locked, pending, admitted, unlock>>

(* A form without a credential fails no check and counts no failure.       *)
BlankForm(w) ==
  /\ att[w].step = "admitted"
  /\ Done(w)
  /\ UNCHANGED <<now, gate, ipFails, lockouts, locked, pending, admitted, unlock>>

(* The right password of an account with a second factor.                  *)
AwaitFactor(w) ==
  /\ att[w].step = "admitted" /\ att[w].kind = "password"
  /\ pending' = TRUE
  /\ Done(w)
  /\ UNCHANGED <<now, gate, ipFails, lockouts, locked, admitted, unlock>>

(* user_logged_in deletes the account's gate rows, those of reservations   *)
(* that wait for their sliding read included; the address keeps its count. *)
LogIn(w) ==
  /\ att[w].step = "admitted"
  /\ gate' = Zero
  /\ admitted' = Zero
  /\ att' = [att EXCEPT ![w] = Idle]
  /\ mine' = [v \in Workers |-> "gone"]
  /\ UNCHANGED <<now, ipFails, lockouts, locked, pending, unlock>>

-----------------------------------------------------------------------------
(* admin_unlock_user: clears the flag, neither the gate nor the audit rows. *)
AdminUnlock ==
  /\ locked
  /\ locked' = FALSE
  /\ unlock' = IF \E w \in Workers : att[w] = Ladder THEN "used" ELSE "fresh"
  /\ UNCHANGED <<now, gate, ipFails, lockouts, pending, att, mine, admitted>>

OlderRow(row) == IF row = "cur" THEN "prev" ELSE "gone"

Tick ==
  /\ now < MaxTime
  /\ now' = now + 1
  /\ IF now' % Window = 0
       THEN /\ gate' = Turn(gate)
            /\ admitted' = Turn(admitted)
            /\ mine' = [w \in Workers |-> OlderRow(mine[w])]
       ELSE UNCHANGED <<gate, admitted, mine>>
  /\ ipFails' = IF now' % IpWindow = 0
                  THEN [i \in Ips |-> Turn(ipFails[i])] ELSE ipFails
  /\ UNCHANGED <<lockouts, locked, pending, att, unlock>>

Next ==
  \/ \E w \in Workers :
       \/ \E kind \in Kinds : MeetLock(w, kind)
       \/ \E ip \in Ips, kind \in Kinds : PassIpGate(w, ip, kind)
       \/ Reserve(w) \/ Admit(w) \/ Refuse(w) \/ Climb(w)
       \/ WrongCredential(w) \/ BlankForm(w) \/ AwaitFactor(w) \/ LogIn(w)
  \/ AdminUnlock
  \/ Tick

Spec == Init /\ [][Next]_vars

-----------------------------------------------------------------------------
(* Correctness.                                                            *)

(* The hard ceiling of check_login_throttle: however the requests are      *)
(* interleaved, at most UserMax of the attempts reserved in one window are *)
(* let through in it, counting since the last successful login.            *)
HardCeiling == admitted.cur <= UserMax /\ admitted.prev <= UserMax

(* What the sliding term adds: a burst that straddles the turn of the      *)
(* window stays under the cap but for the share of the first half that has *)
(* already slid out.                                                       *)
SlidingCeiling ==
  admitted.prev + admitted.cur
    <= UserMax + (admitted.prev * Elapsed(Window)) \div Window

(* The address gate is soft: it reads before the outcome is known.  What   *)
(* it allows past the cap is one failure per other request under way.      *)
IpFloodBound ==
  \A i \in Ips : ipFails[i].cur <= IpMax - 1 + Cardinality(Workers)

(* An account is locked for good only on evidence: as many lockouts as the *)
(* threshold asks, within the lookback, half a window or more apart.       *)
LockEarned ==
  \E S \in SUBSET {t \in 0..now : lockouts[t] > 0 /\ now - t <= Lookback * Window} :
    /\ Cardinality(S) = Threshold
    /\ \A a, b \in S : a > b => 2 * (a - b) >= Window

LockJustified == [][~ locked /\ locked' => LockEarned]_vars

(* "Clear locked_at so the user can attempt to log in again": after an     *)
(* unlock the account is not locked anew before somebody got an attempt.   *)
UnlockGivesAnAttempt == [][unlock = "fresh" /\ ~ locked => ~ locked']_vars

(* "When the audit log records enough consecutive login_locked_out rows    *)
(* for the same username, the next maybe_permanently_lock call flips       *)
(* locked_at": lockouts in Threshold windows in a row lock the account.    *)
LockoutsInARow ==
  \A k \in now \div Window - Threshold + 1 .. now \div Window :
    \E t \in 0..now : lockouts[t] > 0 /\ t \div Window = k

ThirdStrikeLocks ==
  [][\A w \in Workers : Climb(w) /\ unlock = "never" /\ Threshold > 0 /\ LockoutsInARow
                          => locked']_vars
=============================================================================
