------------------------------- MODULE Gates -------------------------------
(***************************************************************************)
(* What stands between a signed-in request and its view: the middlewares   *)
(* for maintenance, forced password change, mandated second factor, admin  *)
(* access and the native admin (accounts/middleware.py, in the order of    *)
(* settings/applications.py), the decorators of admin_views/_common.py,    *)
(* sudo mode (services/sudo.py, admin_views/sudo.py) and the maintenance   *)
(* window (services/maintenance.py, admin_views/maintenance.py).           *)
(*                                                                         *)
(* One account in one browser.  A request decides on the user, the window  *)
(* and the session as it loaded them; the sudo grant is a field of that    *)
(* session, and the answer saves the whole session back, unless the row    *)
(* has been rotated away meanwhile.  Tabs send whatever they like; User    *)
(* wants the home page, or the end of the window when it can end it, and   *)
(* does what each page it is shown asks for.                               *)
(***************************************************************************)
EXTENDS Naturals, FiniteSets

CONSTANTS
  Tabs,
  User,
  None,
  Grace,       \* SUDO_GRACE_SECONDS, in ticks
  Threshold,   \* _SUDO_FAIL_THRESHOLD
  MaxEvents    \* bound on ticks, mistakes, requests of tabs, acts of others

Threads == Tabs \cup {User}

ASSUME GatesAssumption ==
  /\ IsFiniteSet(Tabs) /\ User \notin Tabs /\ None \notin Threads
  /\ {Grace, Threshold} \subseteq Nat \ {0}
  /\ MaxEvents \in Nat

VARIABLES
  account,  \* models.User: role, must_change_password, mfa_required, mfa_enabled
  window,   \* models.MaintenanceMode
  grant,    \* what is left of sudo_until in the session, 0 for none
  fails,    \* the sudo_fail_user counter of the current bucket
  job,
  next,     \* the request User sends next
  left,
  (* history *)
  proof,    \* time since this session proved password and code, at most Grace
  tries     \* wrong sudo credentials checked in the current bucket

vars == <<account, window, grant, fails, job, next, left, proof, tries>>

(* What a request is for: a family of paths and whether it writes.         *)
Paths == {"home", "profile", "password", "mfa", "logout",
          "admin", "sudo", "maintenance", "native"}
Requests == [path : Paths, write : BOOLEAN]
Get(p) == [path |-> p, write |-> FALSE]
Post(p) == [path |-> p, write |-> TRUE]

Accounts == [super : BOOLEAN, must : BOOLEAN, required : BOOLEAN, enrolled : BOOLEAN]
Windows == [active : BOOLEAN, readOnly : BOOLEAN]
Idle == [at |-> "idle"]

TypeOK ==
  /\ account \in Accounts /\ window \in Windows
  /\ grant \in 0 .. Grace /\ proof \in 0 .. Grace
  /\ fails \in 0 .. Threshold + Cardinality(Threads)
  /\ tries \in 0 .. Threshold + Cardinality(Threads)
  /\ next \in Requests /\ left \in 0 .. MaxEvents
  /\ \A t \in Threads : job[t] = Idle \/
       /\ job[t].at \in {"view", "verify", "bump", "flip", "answer"}
       /\ job[t].request \in Requests
       /\ job[t].grant \in 0 .. Grace
       /\ job[t].alive \in BOOLEAN
       /\ job[t].copy \in Windows \cup {None}

(* Signed in, under both mandates or under none; the rest comes about.     *)
Init ==
  /\ account \in {a \in Accounts : a.must = a.required /\ ~a.enrolled}
  /\ window \in {w \in Windows : w.readOnly}
  /\ grant = 0 /\ fails = 0
  /\ job = [t \in Threads |-> Idle]
  /\ next = Get("home")
  /\ left = MaxEvents
  /\ proof = Grace /\ tries = 0

-----------------------------------------------------------------------------
(* The gates, in their order.  Each says who is sent where.                *)

(* BYPASS_PREFIXES: /admin/, /django-admin/, /logout/, /profile/password/. *)
MaintenanceBypassShort ==
  {"logout", "admin", "sudo", "maintenance", "native"}
MaintenanceBypass == {"password", "logout", "admin", "sudo", "maintenance", "native"}

Refused503ToAll(r, w) ==
  /\ w.active /\ w.readOnly
  /\ r.write /\ r.path \notin MaintenanceBypass

Refused503(r, w) ==
  /\ w.active /\ w.readOnly
  /\ r.write
  /\ r.path \notin MaintenanceBypass
  /\ ~account.super

MustChangeAllowedShort == {"logout"}
MustChangeAllowed == {"password", "logout"}
MustChange(r) == account.must /\ r.path \notin MustChangeAllowed

MfaRequiredAllowedShort == {"profile", "logout", "password"}
MfaRequiredAllowed == {"profile", "logout", "password", "mfa"}
MfaRequired(r) ==
  /\ account.required /\ ~account.enrolled
  /\ r.path \notin MfaRequiredAllowed

(* AdminAccessAuditMiddleware, every path under /admin.                    *)
AdminDenied(r) == r.path \in {"admin", "sudo", "maintenance"} /\ ~account.super

(* DjangoAdminSudoGateMiddleware; is_staff is the role.                    *)
NativeDenied(r) == r.path = "native" /\ account.super /\ grant = 0

(* What the gates, and the decorators and first lines of the views behind  *)
(* them, answer: a page to go to, or a word.                               *)
Verdict(r, w) ==
  IF Refused503(r, w) THEN "503"
  ELSE IF MustChange(r) THEN "password"
  ELSE IF MfaRequired(r) \/ AdminDenied(r) THEN "profile"
  ELSE IF NativeDenied(r) THEN "admin"
  ELSE IF r = Post("maintenance") /\ grant = 0 THEN "need_sudo"
  ELSE IF r = Get("password") /\ ~account.must THEN "profile"
  ELSE IF r.path = "native" /\ ~account.super THEN "forbidden"
  ELSE "serve"

-----------------------------------------------------------------------------
(* User, the person: follows redirects and does what the page asks.        *)

Want == IF account.super /\ window.active THEN Post("maintenance") ELSE Get("home")

Follow(t, verdict) ==
  next' = IF t # User THEN next
          ELSE IF verdict \in Paths THEN Get(verdict)
          ELSE IF verdict = "need_sudo" THEN Post("sudo") ELSE Want

AfterPage(r) ==
  CASE r = Get("password") -> Post("password")
    [] r = Get("profile") /\ account.required /\ ~account.enrolled -> Post("mfa")
    [] OTHER -> Want

-----------------------------------------------------------------------------
(* A request.  The maintenance state is read once; when the database does  *)
(* not answer the gate takes it for read-only (OperationalError).          *)

Closed == [active |-> TRUE, readOnly |-> TRUE]

Arrive(t, r, w) ==
  /\ job[t] = Idle
  /\ job' = IF Verdict(r, w) # "serve" THEN job
            ELSE [job EXCEPT ![t] = [at |-> "view", request |-> r, grant |-> grant,
                                     alive |-> TRUE, copy |-> None]]
  /\ Follow(t, Verdict(r, w))
  /\ UNCHANGED <<account, window, grant, fails, proof, tries>>

(* The requests with an effect of their own, and two for all the others.   *)
Effects == {Post(p) : p \in {"password", "mfa", "logout", "sudo", "maintenance"}}
Plain == {Get("home"), Post("native")}

TabArrives(t) ==
  /\ left > 0 /\ left' = left - 1
  /\ \E r \in Effects \cup Plain, w \in {window, Closed} : Arrive(t, r, w)

UserArrives == Arrive(User, next, window) /\ UNCHANGED left

Viewing(t, r) == job[t].at = "view" /\ job[t].request = r

(* The session is a new row now; the copies of the old one save nowhere.   *)
Rotated(t) ==
  job' = [s \in Threads |->
            IF s = t \/ job[s] = Idle THEN Idle ELSE [job[s] EXCEPT !.alive = FALSE]]

Respond(t) == next' = IF t = User THEN AfterPage(job[t].request) ELSE next

(* Every other answer, with the save of the session.                       *)
Answer(t) ==
  /\ \/ job[t].at = "answer"
     \/ job[t].at = "view" /\ job[t].request \notin Effects
  /\ grant' = IF job[t].alive THEN job[t].grant ELSE grant
  /\ job' = [job EXCEPT ![t] = Idle]
  /\ Respond(t)
  /\ UNCHANGED <<account, window, fails, proof, tries>>

(* change_password_view: the flag down, and a new session without a grant. *)
(* (Between its save and the new session nobody is served with the old     *)
(* one, whose hash is out of date.)                                        *)
GrantAfterChangeKept(t) == job[t].grant
GrantAfterChange(t) == 0

ChangePassword(t) ==
  /\ Viewing(t, Post("password"))
  /\ account' = [account EXCEPT !.must = FALSE]
  /\ grant' = GrantAfterChange(t)
  /\ proof' = Grace
  /\ Rotated(t)
  /\ Respond(t)
  /\ UNCHANGED <<window, fails, tries>>

(* The views under /profile/mfa/, up to the confirmation that rotates the  *)
(* key and takes the data of the session along.                            *)
Enrol(t) ==
  /\ Viewing(t, Post("mfa"))
  /\ account' = [account EXCEPT !.enrolled = TRUE]
  /\ IF job[t].alive THEN grant' = job[t].grant /\ Rotated(t)
     ELSE job' = [job EXCEPT ![t] = Idle] /\ UNCHANGED grant
  /\ Respond(t)
  /\ UNCHANGED <<window, fails, proof, tries>>

(* logout_view, and the login after it.                                    *)
Logout(t) ==
  /\ Viewing(t, Post("logout"))
  /\ grant' = 0 /\ proof' = Grace
  /\ Rotated(t)
  /\ Respond(t)
  /\ UNCHANGED <<account, window, fails, tries>>

-----------------------------------------------------------------------------
(* admin_sudo: the counter is read, the credentials are checked, a failure *)
(* is counted - three moments.                                             *)

CheckThrottle(t) ==
  /\ Viewing(t, Post("sudo"))
  /\ job' = [job EXCEPT ![t].at = IF fails >= Threshold THEN "answer" ELSE "verify"]
  /\ UNCHANGED <<account, window, grant, fails, next, proof, tries>>

VerifyCredentials(t) ==
  /\ job[t].at = "verify"
  /\ job' = [job EXCEPT ![t].at = "answer", ![t].grant = Grace]
  /\ proof' = IF job[t].alive THEN 0 ELSE proof
  /\ UNCHANGED <<account, window, grant, fails, next, tries>>

RejectCredentials(t) ==
  /\ job[t].at = "verify"
  /\ left > 0 /\ left' = left - 1
  /\ job' = [job EXCEPT ![t].at = "bump"]
  /\ tries' = tries + 1
  /\ UNCHANGED <<account, window, grant, fails, next, proof>>

CountedNever == fails
Counted == fails + 1

RecordFailure(t) ==
  /\ job[t].at = "bump"
  /\ fails' = Counted
  /\ job' = [job EXCEPT ![t].at = "answer"]
  /\ UNCHANGED <<account, window, grant, next, proof, tries>>

-----------------------------------------------------------------------------
(* admin_maintenance_toggle: enable_maintenance and disable_maintenance    *)
(* read the row, and save the whole of it if there is something to change. *)

Toggled(t) ==
  {[active |-> FALSE, readOnly |-> window.readOnly]}
    \cup (IF t = User THEN {} ELSE {[active |-> TRUE, readOnly |-> b] : b \in BOOLEAN})

ReadWindow(t) ==
  /\ Viewing(t, Post("maintenance"))
  /\ \E w \in Toggled(t) :
       job' = [job EXCEPT ![t] =
                 IF w.active = window.active THEN [@ EXCEPT !.at = "answer"]
                 ELSE [@ EXCEPT !.at = "flip", !.copy = w]]
  /\ UNCHANGED <<account, window, grant, fails, next, proof, tries>>

SaveWindow(t) ==
  /\ job[t].at = "flip"
  /\ window' = job[t].copy
  /\ job' = [job EXCEPT ![t].at = "answer", ![t].copy = None]
  /\ UNCHANGED <<account, grant, fails, next, proof, tries>>

-----------------------------------------------------------------------------

Continue(t) ==
  \/ Answer(t) \/ ChangePassword(t) \/ Enrol(t) \/ Logout(t)
  \/ CheckThrottle(t) \/ VerifyCredentials(t) \/ RecordFailure(t)
  \/ ReadWindow(t) \/ SaveWindow(t)

(* Other administrators.  A reset ends the sessions: User logs in anew.    *)
AdminReset ==
  /\ account' = [account EXCEPT !.must = TRUE]
  /\ grant' = 0 /\ proof' = Grace
  /\ Rotated(None)
  /\ UNCHANGED <<window, fails, next, tries>>

AdminUpdates ==
  /\ account' \in {[account EXCEPT !.required = ~@], [account EXCEPT !.super = ~@],
                   [account EXCEPT !.enrolled = FALSE]}
  /\ UNCHANGED <<window, grant, fails, job, next, proof, tries>>

OtherToggles ==
  /\ window' = [active |-> ~window.active, readOnly |-> TRUE]
  /\ UNCHANGED <<account, grant, fails, job, next, proof, tries>>

Less(n) == IF n = 0 THEN 0 ELSE n - 1

Tick ==
  /\ grant' = Less(grant)
  /\ proof' = IF proof < Grace THEN proof + 1 ELSE Grace
  /\ job' = [t \in Threads |->
               IF job[t] = Idle THEN Idle ELSE [job[t] EXCEPT !.grant = Less(@)]]
  /\ UNCHANGED <<account, window, fails, next, tries>>

(* A new bucket of the counter.                                            *)
Turn ==
  /\ fails > 0 \/ tries > 0
  /\ fails' = 0 /\ tries' = 0
  /\ UNCHANGED <<account, window, grant, job, next, left, proof>>

Next ==
  \/ UserArrives
  \/ \E t \in Tabs : TabArrives(t)
  \/ \E t \in Threads : RejectCredentials(t) \/ (Continue(t) /\ UNCHANGED left)
  \/ /\ left > 0 /\ left' = left - 1
     /\ AdminReset \/ AdminUpdates \/ OtherToggles \/ Tick
  \/ Turn

(* Requests are served, User goes on, and a bucket ends.                   *)
Fairness ==
  /\ WF_vars(UserArrives)
  /\ \A t \in Threads : WF_vars(Continue(t) /\ UNCHANGED left)
  /\ WF_vars(Turn)

Spec == Init /\ [][Next]_vars /\ Fairness

-----------------------------------------------------------------------------
(* Properties.                                                             *)

(* Redirects come to an end: whatever the flags, no two gates send a       *)
(* browser back and forth.                                                 *)
Hop(p) == LET v == Verdict(Get(p), window) IN IF v \in Paths THEN v ELSE p
RedirectsEnd ==
  \A p \in Paths : LET q == Hop(Hop(p)) IN Verdict(Get(q), window) \notin Paths

(* Behind sudo a request is let through only if this session proved its    *)
(* credentials less than Grace ago, and not before a change of password or *)
(* a logout: no older copy of the session saved late brings a grant back.  *)
ActsOnFreshProof ==
  [][\A t \in Threads :
       /\ job[t] = Idle /\ job'[t] # Idle
       /\ job'[t].request \in {Post("maintenance"), Post("native"), Get("native")}
       => proof < Grace]_vars

(* A bucket lets at most the threshold and one guess per further request   *)
(* under way through, although checking and counting are apart.            *)
SudoGuessesBounded == tries < Threshold + Cardinality(Threads)

(* A user who must change the password gets to do it, during a window too, *)
(* and however long that lasts.                                            *)
MustChangeClears == account.must ~> ~account.must

(* A mandated second factor can be enrolled; only a read-only window can   *)
(* keep a public user from it.                                             *)
MandateMet ==
  account.required /\ ~account.enrolled ~>
    \/ ~account.required \/ account.enrolled
    \/ ~account.super /\ window = Closed

(* A superadmin can end the window alone, with both mandates on it, and    *)
(* whatever failures of sudo the other tabs run up.                        *)
OperatorEndsWindow ==
  window.active /\ account.super ~> ~window.active \/ ~account.super
=============================================================================
