----------------------------- MODULE LoginFlow -----------------------------
(***************************************************************************)
(* The sessions of one account: views/auth.py (password, second factor,    *)
(* logout), services/session.py, signals.py, UserSessionMiddleware, the    *)
(* revocations of views/sessions.py and admin_views/sessions.py, and what  *)
(* a new password does to the sessions.                                    *)
(*                                                                         *)
(* A session is two rows under one key: Django's Session, which holds the  *)
(* data of the login, and the project's UserSession, which holds when the  *)
(* key was first seen and whether it has been revoked.  A request loads    *)
(* the Session once, works on the copy and saves the whole of it back when *)
(* it answers; every statement of it commits by itself.                    *)
(*                                                                         *)
(* Time passes between requests only: the shortest of the ages is minutes, *)
(* and a worker is killed long before that.                                *)
(***************************************************************************)
EXTENDS Naturals, FiniteSets

CONSTANTS
  Keys,
  Threads,
  None,
  MaxAge,      \* SESSION_ABSOLUTE_MAX_AGE_SECONDS, in ticks
  CookieAge,   \* SESSION_COOKIE_AGE: the idle timeout
  PendingTTL,  \* PENDING_MFA_TTL
  MaxHandlers  \* bound on handlers begun, a limit of the model

VARIABLES
  user,     \* models.User: the password hash, is_active, mfa_enabled
  store,    \* django_session, None where there is no such row
  rec,      \* models.UserSession
  job,      \* what each thread is in the middle of
  unsent,   \* keys of new rows that no answer has handed to a browser yet
  left,     \* handlers that may still begin
  (* history *)
  ended,    \* keys whose revocation or logout has been completed
  overtaken,\* threads and pending keys whose holder typed a password since
            \* when another has written a different hash
  crossed,  \* keys opened by a holder who had been overtaken
  parked    \* keys kept alive by requests while their user was disabled

history == <<ended, overtaken, crossed, parked>>
vars == <<user, store, rec, job, unsent, left, ended, overtaken, crossed, parked>>

(* Hashes are salted, so each password set has a new one.                  *)
Hashes == 0 .. MaxHandlers
AgeLimit == MaxAge + CookieAge

(* The data of a session: the hash the login was checked against, None     *)
(* while the second factor is awaited; the hash of the password its holder *)
(* typed; the time since its last credential, and since it was last used.  *)
Blobs == [auth : Hashes \cup {None}, typed : Hashes,
          age : 0 .. AgeLimit, idle : 0 .. CookieAge]
Blob(auth, typed) == [auth |-> auth, typed |-> typed, age |-> 0, idle |-> 0]
Records == [revoked : BOOLEAN, age : 0 .. MaxAge]
Accounts == [pw : Hashes, active : BOOLEAN, mfa : BOOLEAN]

ASSUME LoginFlowAssumption ==
  /\ None \notin Keys \cup Hashes \cup Blobs \cup Records \cup Accounts
  /\ Keys \cap Threads = {}
  /\ {MaxAge, CookieAge, PendingTTL, MaxHandlers} \subseteq Nat \ {0}

Points == {"idle", "sync", "stamp", "view", "login", "save", "update", "list",
           "revoke", "drop", "rehash", "cycle", "record", "answer"}
Idle == [at |-> "idle"]

TypeOK ==
  /\ user \in Accounts
  /\ store \in [Keys -> Blobs \cup {None}]
  /\ rec \in [Keys -> Records \cup {None}]
  /\ left \in 0 .. MaxHandlers
  /\ {unsent, ended, crossed, parked} \subseteq SUBSET Keys
  /\ overtaken \subseteq Keys \cup Threads
  /\ \A t \in Threads : job[t] = Idle \/
       /\ job[t].at \in Points
       /\ {job[t].key, job[t].target} \subseteq Keys \cup {None}
       /\ job[t].data \in Blobs \cup {None}
       /\ job[t].copy \in Accounts \cup {None}
       /\ job[t].queue \subseteq Keys
       /\ job[t].then \in {"rehash", "record", "answer", "gone"}
       /\ job[t].late \in BOOLEAN

(* An account with some logins of its own.                                 *)
Init ==
  /\ user \in {a \in Accounts : a.pw = 0 /\ a.active}
  /\ \E in \in SUBSET Keys :
       /\ store = [k \in Keys |-> IF k \in in THEN Blob(0, 0) ELSE None]
       /\ rec = [k \in Keys |-> IF k \in in THEN [revoked |-> FALSE, age |-> 0]
                                ELSE None]
  /\ job = [t \in Threads |-> Idle]
  /\ left = MaxHandlers
  /\ unsent = {}
  /\ ended = {} /\ overtaken = {} /\ crossed = {} /\ parked = {}

-----------------------------------------------------------------------------

Has(k) == store[k] # None

(* get_new_session_key: a key nobody has or had.                           *)
Fresh ==
  {k \in Keys : ~Has(k) /\ rec[k] = None /\ k \notin ended \cup crossed \cup parked
                  /\ \A t \in Threads :
                       job[t] # Idle => k \notin {job[t].key, job[t].target}}
NewKey == CHOOSE k \in Fresh : TRUE

(* A salt that gives a hash nobody holds.                                  *)
NewHashes ==
  {h \in Hashes :
    /\ h # user.pw
    /\ \A k \in Keys : Has(k) => h \notin {store[k].auth, store[k].typed}
    /\ \A t \in Threads : job[t] # Idle =>
         /\ job[t].data # None => h \notin {job[t].data.auth, job[t].data.typed}
         /\ job[t].copy # None => h # job[t].copy.pw}
NewHash == CHOOSE h \in NewHashes : TRUE

Request(at, k, data, copy) ==
  [at |-> at, key |-> k, data |-> data, copy |-> copy, queue |-> {},
   target |-> None, then |-> "answer", late |-> k \in ended]

Begin(t, j) ==
  /\ job[t] = Idle
  /\ left > 0 /\ left' = left - 1
  /\ job' = [job EXCEPT ![t] = j]

Goto(t, at) == job' = [job EXCEPT ![t].at = at]
Finish(t) == job' = [job EXCEPT ![t] = Idle]
At(t, at) == job[t].at = at

-----------------------------------------------------------------------------
(* A request with a session that is logged in.                             *)

(* AuthenticationMiddleware loads the user behind the session.             *)
Arrive(t) ==
  \E k \in Keys :
    /\ Has(k) /\ k \notin unsent
    /\ store[k].auth = user.pw /\ user.active
    /\ Begin(t, Request("sync", k, store[k], None))
    /\ UNCHANGED <<user, store, rec, unsent, history>>

(* A hash that is no longer the stored one flushes the session; behind a   *)
(* disabled user, or before the second factor, it stays as it is.          *)
ArriveAnonymous(k) ==
  /\ Has(k) /\ k \notin unsent
  /\ store[k].auth = None \/ store[k].auth # user.pw \/ ~user.active
  /\ store' = [store EXCEPT ![k] =
       IF user.active /\ @.auth # None THEN None ELSE [@ EXCEPT !.idle = 0]]
  /\ parked' = IF user.active THEN parked ELSE parked \cup {k}
  /\ UNCHANGED <<user, rec, job, unsent, ended, overtaken, crossed>>

(* sync_request_session: get_or_create of the record.                      *)
Sync(t) ==
  /\ At(t, "sync")
  /\ LET k == job[t].key IN
       IF rec[k] # None /\ rec[k].revoked
       THEN /\ store' = [store EXCEPT ![k] = None]
            /\ Finish(t)
            /\ UNCHANGED rec
       ELSE /\ rec' = [rec EXCEPT ![k] =
                         IF @ = None THEN [revoked |-> FALSE, age |-> 0] ELSE @]
            /\ Goto(t, "stamp")
            /\ UNCHANGED store
  /\ UNCHANGED <<user, unsent, history>>

(* Its save writes revoked_at back as it read it; then the ceiling.        *)
StampedAnew(r) == [revoked |-> FALSE, age |-> 0]
Stamped(r) == [r EXCEPT !.revoked = FALSE]
Leaving(j) == [j EXCEPT !.at = "revoke", !.queue = {j.key}, !.then = "gone"]

Stamp(t) ==
  /\ At(t, "stamp")
  /\ LET k == job[t].key IN
       /\ rec' = [rec EXCEPT ![k] = Stamped(@)]
       /\ job' = [job EXCEPT ![t] =
                    IF rec[k].age >= MaxAge THEN Leaving(@)
                    ELSE [@ EXCEPT !.at = "view"]]
  /\ UNCHANGED <<user, store, unsent, history>>

(* The answer: SessionMiddleware saves the copy, which fails when the row  *)
(* is gone, and sends the key.  An administrator's own change of password  *)
(* answers right after the revocations, with the hash as it was.           *)
Answer(t) ==
  /\ job[t].at \in {"view", "answer", "rehash"}
  /\ store' = [store EXCEPT ![job[t].key] =
                 IF @ = None THEN None ELSE [job[t].data EXCEPT !.idle = 0]]
  /\ unsent' = unsent \ {job[t].key}
  /\ Finish(t)
  /\ UNCHANGED <<user, rec, history>>

(* cycle_key: a new row with the data in memory, under a key that only the *)
(* answer will tell, in which what the view changes afterwards is saved.   *)
NewRow(data) ==
  /\ Fresh # {}
  /\ store' = [store EXCEPT ![NewKey] = data]
  /\ unsent' = unsent \cup {NewKey}

Moved(j, data, then) ==
  [j EXCEPT !.at = IF j.key = None THEN then ELSE "cycle",
            !.key = NewKey, !.target = j.key, !.data = data, !.then = then]

(* The views that rotate the key, each after a code or a password.         *)
Rotate(t) ==
  /\ At(t, "view")
  /\ NewRow(job[t].data)
  /\ job' = [job EXCEPT ![t] =
                Moved(@, [job[t].data EXCEPT !.age = 0, !.idle = 0], "answer")]
  /\ crossed' = IF job[t].key \in crossed THEN crossed \cup {NewKey} ELSE crossed
  /\ UNCHANGED <<user, rec, ended, overtaken, parked>>

(* Its second statement: the old row goes, if it is still there.           *)
DropOld(t) ==
  /\ At(t, "cycle")
  /\ store' = [store EXCEPT ![job[t].target] = None]
  /\ job' = [job EXCEPT ![t].at = job[t].then, ![t].target = None]
  /\ UNCHANGED <<user, rec, unsent, history>>

Logout(t) ==
  /\ At(t, "view")
  /\ job' = [job EXCEPT ![t] = Leaving(@)]
  /\ UNCHANGED <<user, store, rec, unsent, history>>

-----------------------------------------------------------------------------
(* Revocations.                                                            *)

Unrevoked == {k \in Keys : rec[k] # None /\ ~rec[k].revoked}

RevokeOne(t) ==
  /\ At(t, "view")
  /\ \E k \in Keys \ {job[t].key} :
       /\ rec[k] # None
       /\ job' = [job EXCEPT ![t].at = "revoke", ![t].queue = {k}]
  /\ UNCHANGED <<user, store, rec, unsent, history>>

RevokeOthers(t) ==
  /\ At(t, "view")
  /\ Goto(t, "list")
  /\ UNCHANGED <<user, store, rec, unsent, history>>

AdminRevoke(t) ==
  \E k \in Keys :
    /\ rec[k] # None
    /\ Begin(t, [Request("revoke", None, None, None)
                   EXCEPT !.queue = {k}, !.then = "gone"])
    /\ UNCHANGED <<user, store, rec, unsent, history>>

(* Once the last key is dealt with the handler goes on.                    *)
Proceed(j) ==
  IF j.queue # {} THEN [j EXCEPT !.at = "revoke", !.target = None]
  ELSE IF j.then = "gone" THEN Idle
  ELSE [j EXCEPT !.at = j.then, !.target = None]

(* revoke_other_sessions reads the records to revoke, and takes them one   *)
(* by one.                                                                 *)
List(t) ==
  /\ At(t, "list")
  /\ job' = [job EXCEPT ![t] =
               Proceed([@ EXCEPT !.queue = Unrevoked \ {job[t].key}])]
  /\ UNCHANGED <<user, store, rec, unsent, history>>

(* revoke_session_record, first statement: the record.                     *)
RevokeRecord(t) ==
  /\ At(t, "revoke")
  /\ \E k \in job[t].queue :
       /\ rec' = [rec EXCEPT ![k] = IF @ = None THEN None
                                    ELSE [@ EXCEPT !.revoked = TRUE]]
       /\ job' = [job EXCEPT ![t].at = "drop", ![t].target = k]
  /\ UNCHANGED <<user, store, unsent, history>>

(* Second statement: the Session.                                          *)
WithoutNothing(k) == store
Without(k) == [store EXCEPT ![k] = None]

DropSession(t) ==
  /\ At(t, "drop")
  /\ LET k == job[t].target IN
       /\ store' = Without(k)
       /\ ended' = ended \cup {k}
       /\ job' = [job EXCEPT ![t] = Proceed([@ EXCEPT !.queue = job[t].queue \ {k}])]
  /\ UNCHANGED <<user, rec, unsent, overtaken, crossed, parked>>

-----------------------------------------------------------------------------
(* Passwords.                                                              *)

(* change_password_for_user reads the row and checks the current password. *)
ChangePassword(t) ==
  /\ At(t, "view")
  /\ user.active
  /\ job' = [job EXCEPT ![t].at = "save", ![t].copy = user,
                        ![t].then = "rehash"]
  /\ UNCHANGED <<user, store, rec, unsent, history>>

(* reset_user_password and complete_password_reset: nobody's session.      *)
ResetPassword(t) ==
  /\ Begin(t, [Request("save", None, None, user) EXCEPT !.then = "gone"])
  /\ UNCHANGED <<user, store, rec, unsent, history>>

(* A write of the password column: whoever has typed a password before, in *)
(* a login or in a change that is still under way, has been overtaken, but *)
(* for the thread that writes.                                             *)
Pending(k) == Has(k) /\ store[k].auth = None
TypedBefore(t) ==
  /\ job[t] # Idle
  /\ job[t].then = "rehash" \/ (job[t].at = "login" /\ job[t].key = None)

Overtaking(t) ==
  (overtaken \ {t}) \cup {k \in Keys : Pending(k)}
                    \cup {x \in Threads \ {t} : TypedBefore(x)}

(* The save of the whole row, with the new hash.                           *)
SavePassword(t) ==
  /\ At(t, "save")
  /\ NewHashes # {}
  /\ user' = [job[t].copy EXCEPT !.pw = NewHash]
  /\ job' = [job EXCEPT ![t].at = "list", ![t].copy = user']
  /\ overtaken' = Overtaking(t)
  /\ UNCHANGED <<store, rec, unsent, ended, crossed, parked>>

(* update_session_auth_hash, with the row read once more; whoever typed    *)
(* the new password knows that one.                                        *)
Rehash(t) ==
  /\ At(t, "rehash")
  /\ NewRow(job[t].data)
  /\ job' = [job EXCEPT ![t] = Moved(@, Blob(user.pw, job[t].copy.pw), "answer")]
  /\ crossed' = IF t \in overtaken THEN crossed \cup {NewKey} ELSE crossed
  /\ UNCHANGED <<user, rec, ended, overtaken, parked>>

(* update_user_account, by an administrator: the row is read ...           *)
AdminUpdate(t) ==
  /\ Begin(t, [Request("update", None, None, user) EXCEPT !.then = "gone"])
  /\ UNCHANGED <<user, store, rec, unsent, history>>

(* ... and saved as a whole, with what the administrator changed, so that  *)
(* whatever was saved in between is undone, a new password included.       *)
SaveUser(t) ==
  /\ At(t, "update")
  /\ \E enabled \in BOOLEAN, pw \in {job[t].copy.pw} \cup {h \in NewHashes : h = NewHash} :
       user' = [job[t].copy EXCEPT !.active = enabled, !.pw = pw]
  /\ overtaken' = IF user'.pw = user.pw THEN overtaken ELSE Overtaking(t)
  /\ Finish(t)
  /\ UNCHANGED <<store, rec, unsent, ended, crossed, parked>>

-----------------------------------------------------------------------------
(* Logging in.                                                             *)

(* TemplateLoginView: the password is checked against the row as read.     *)
TypePassword(t) ==
  /\ user.active
  /\ Begin(t, Request("login", None, Blob(None, user.pw), user))
  /\ overtaken' = overtaken \ {t}
  /\ UNCHANGED <<user, store, rec, unsent, ended, crossed, parked>>

(* verify_mfa_view: a pending login of at most PENDING_MFA_TTL, its user   *)
(* read again, and a code that is right.                                   *)
PendingUser(k) ==
  /\ Pending(k) /\ k \notin unsent
  /\ store[k].age <= PendingTTL
  /\ user.active

TypeCode(t) ==
  \E k \in Keys :
    /\ PendingUser(k) /\ user.mfa
    /\ Begin(t, Request("login", k, store[k], user))
    /\ overtaken' = IF k \in overtaken THEN overtaken \cup {t} ELSE overtaken \ {t}
    /\ UNCHANGED <<user, store, rec, unsent, ended, crossed, parked>>

(* form_valid, when there is a second factor: the login is put off, in a   *)
(* new session.                                                            *)
PutOff(t) ==
  /\ At(t, "login")
  /\ job[t].key = None /\ job[t].copy.mfa
  /\ Fresh # {}
  /\ store' = [store EXCEPT ![NewKey] = job[t].data]
  /\ unsent' = unsent \ {NewKey}
  /\ overtaken' = IF t \in overtaken THEN overtaken \cup {NewKey}
                  ELSE overtaken \ {NewKey}
  /\ Finish(t)
  /\ UNCHANGED <<user, rec, ended, crossed, parked>>

(* Otherwise, and after the code, auth_login moves the session to a new    *)
(* key, with the hash of the row as the view has read it.                  *)
LoginHashReread(t) == user.pw
LoginHash(t) == job[t].copy.pw

Login(t) ==
  /\ At(t, "login")
  /\ job[t].key # None \/ ~job[t].copy.mfa
  /\ NewRow(job[t].data)
  /\ job' = [job EXCEPT ![t] = Moved(@, Blob(LoginHash(t), job[t].data.typed), "record")]
  /\ crossed' = IF job[t].key # None /\ t \in overtaken THEN crossed \cup {NewKey}
                ELSE crossed
  /\ UNCHANGED <<user, rec, ended, overtaken, parked>>

(* _record_login: the record of the new key.                               *)
RecordLogin(t) ==
  /\ At(t, "record")
  /\ rec' = [rec EXCEPT ![job[t].key] = [revoked |-> FALSE, age |-> 0]]
  /\ Goto(t, "answer")
  /\ UNCHANGED <<user, store, unsent, history>>

-----------------------------------------------------------------------------
(* The rest of the world.                                                  *)

(* The pages of the second factor save their columns, and no others.       *)
SwitchFactor ==
  /\ left > 0 /\ left' = left - 1
  /\ user' = [user EXCEPT !.mfa = ~@]
  /\ UNCHANGED <<store, rec, job, unsent, history>>

Die(t) ==
  /\ job[t] # Idle
  /\ Finish(t)
  /\ UNCHANGED <<user, store, rec, unsent, history>>

Older(n, bound) == IF n < bound THEN n + 1 ELSE bound

Aged(b) ==
  IF b = None \/ b.idle = CookieAge THEN None
  ELSE [b EXCEPT !.age = Older(@, AgeLimit), !.idle = @ + 1]

Tick ==
  /\ \A t \in Threads : job[t] = Idle
  /\ store' = [k \in Keys |-> Aged(store[k])]
  /\ rec' = [k \in Keys |-> IF rec[k] = None THEN None
                            ELSE [rec[k] EXCEPT !.age = Older(@, MaxAge)]]
  /\ UNCHANGED <<user, job, unsent, history>>

Start(t) ==
  \/ Arrive(t) \/ AdminRevoke(t) \/ ResetPassword(t) \/ AdminUpdate(t)
  \/ TypePassword(t) \/ TypeCode(t)

Continue(t) ==
  \/ Sync(t) \/ Stamp(t) \/ Answer(t) \/ Rotate(t) \/ DropOld(t) \/ Logout(t)
  \/ RevokeOne(t) \/ RevokeOthers(t) \/ List(t) \/ RevokeRecord(t) \/ DropSession(t)
  \/ ChangePassword(t) \/ SavePassword(t) \/ Rehash(t) \/ SaveUser(t)
  \/ PutOff(t) \/ Login(t) \/ RecordLogin(t) \/ Die(t)

Next ==
  \/ \E t \in Threads : Start(t)
  \/ SwitchFactor
  \/ /\ \/ \E t \in Threads : Continue(t)
        \/ \E k \in Keys : ArriveAnonymous(k)
        \/ Tick
     /\ UNCHANGED left

Spec == Init /\ [][Next]_vars

-----------------------------------------------------------------------------
(* Properties.                                                             *)

(* A request that comes with a key whose revocation or logout is over is   *)
(* not served, although the save of another request can wipe the revoked   *)
(* mark of the record out.                                                 *)
RevokedStaysOut ==
  [][\A t \in Threads : At(t, "stamp") /\ job'[t].at = "view" => ~job[t].late]_vars

(* Whoever is served has proved the password that is stored now, however   *)
(* logins, changes, resets and whole-row saves of older copies overlap.    *)
(* The exceptions are those of crossed, and come about in two ways, both   *)
(* after another has written a different hash behind the holder's back: a  *)
(* second factor given for a password typed before that, and an own change *)
(* whose last read finds the other's hash.  The other may be a reset, an   *)
(* administrator's new password, or a save that restores the old hash.     *)
ServedKnowsPassword ==
  [][\A t \in Threads :
       At(t, "idle") /\ job'[t].at = "sync" =>
         \/ job'[t].data.typed = user.pw
         \/ job'[t].key \in crossed]_vars

(* Nobody is served longer than the ceiling and one idle timeout after the *)
(* last password or code, whatever rotations and idle gaps come between,   *)
(* except with a session that was in use while its user was disabled: no   *)
(* record is kept of it then, and the ceiling counts from the record.      *)
CeilingHolds ==
  \A t \in Threads :
    At(t, "view") => job[t].data.age < AgeLimit \/ job[t].key \in parked
=============================================================================
