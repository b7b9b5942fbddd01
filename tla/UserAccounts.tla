---------------------------- MODULE UserAccounts ----------------------------
(***************************************************************************)
(* The rows of accounts/models.User over their life: services/user.py,     *)
(* services/password_reset.py, the views over them and the CLI commands    *)
(* that create and purge users.                                            *)
(*                                                                         *)
(* A handler reads the row of the user it works on, decides, sets some     *)
(* attributes of its copy and calls user.save(), which writes every column *)
(* back - an UPDATE, or an INSERT when the row is gone.  Reading and       *)
(* writing are two statements with anything in between, except that        *)
(* update_user_account, when it takes an active superadmin away, locks the *)
(* set of them and looks again in the transaction that saves.              *)
(*                                                                         *)
(* The sessions a new password ends are in module LoginFlow, the columns   *)
(* of the second factor in SecondFactor.                                   *)
(***************************************************************************)
EXTENDS Naturals, FiniteSets, Sequences

CONSTANTS
  Users,
  Threads,
  None,
  MaxHandlers   \* bound on handlers begun, a limit of the model

(* Password hashes are salted: each one set is new.                        *)
Hashes == 0 .. (2 * MaxHandlers)
Rows == [super : BOOLEAN, active : BOOLEAN, must : BOOLEAN, pw : Hashes]

ASSUME UserAccountsAssumption ==
  /\ None \notin Users /\ None \notin Rows /\ None \notin Hashes
  /\ MaxHandlers \in Nat

VARIABLES
  row,       \* models.User, None while there is no such row
  idle,      \* users whose updated_at is older than the cutoff of a purge
  links,     \* reset links mailed: the user and the hash that is signed
  job,
  left,      \* handlers that may still begin
  (* history *)
  temp,      \* the password an administrator has asked to be changed at login
  spent,     \* links with which a reset has been completed
  reverted   \* users whose row was written from a copy out of date

vars == <<row, idle, links, job, left, temp, spent, reverted>>

Ops == {"bootstrap", "create", "update", "delete", "reset", "change",
        "complete", "purge", "delete-me"}
Saving == {"update", "reset", "change", "complete"}
Idle == [op |-> "idle"]

TypeOK ==
  /\ row \in [Users -> Rows \cup {None}]
  /\ idle \subseteq Users /\ reverted \subseteq Users
  /\ links \subseteq Users \X Hashes /\ spent \subseteq links
  /\ left \in 0 .. MaxHandlers
  /\ temp \in [Users -> Hashes \cup {None}]
  /\ \A t \in Threads : job[t] = Idle \/
       /\ job[t].op \in Ops
       /\ job[t].on \in Users \cup {None}
       /\ job[t].copy \in Rows \cup {None}
       /\ job[t].guarded \in BOOLEAN /\ job[t].fresh \in BOOLEAN
       /\ job[t].link \in (Users \X Hashes) \cup {None}
       /\ job[t].queue \subseteq Users

(* A new deployment, or accounts in any state an administrator left them.  *)
Init ==
  /\ row \in [Users -> {r \in Rows : r.pw = 0} \cup {None}]
  /\ \/ \A u \in Users : row[u] = None
     \/ \E u \in Users : row[u] # None /\ row[u].super /\ row[u].active
  /\ idle = {} /\ links = {} /\ spent = {} /\ reverted = {}
  /\ temp = [u \in Users |->
               IF row[u] # None /\ row[u].must THEN 0 ELSE None]
  /\ job = [t \in Threads |-> Idle]
  /\ left = MaxHandlers

-----------------------------------------------------------------------------

Exists(u) == row[u] # None
Superadmins == {u \in Users : Exists(u) /\ row[u].super}
ActiveAdmins == {u \in Superadmins : row[u].active}

Busy == {t \in Threads : job[t] # Idle}
Free == {t \in Threads : job[t] = Idle /\ left > 0}
Doing(t, ops) == job[t].op \in ops

HashesOf(u) ==
  {temp[u]} \cup {l[2] : l \in {k \in links : k[1] = u}}
    \cup (IF Exists(u) THEN {row[u].pw} ELSE {})
    \cup {job[t].copy.pw : t \in {s \in Busy :
                                    job[s].on = u /\ job[s].copy # None}}
NewHash(u) ==
  LET new == Hashes \ HashesOf(u) IN {h \in new : \A g \in new : h <= g}

Plan(op, u, copy) ==
  [op |-> op, on |-> u, copy |-> copy, guarded |-> FALSE, fresh |-> TRUE,
   link |-> None, queue |-> {}]

Begin(t, plan) ==
  /\ left' = left - 1
  /\ job' = [job EXCEPT ![t] = plan]
  /\ UNCHANGED <<row, idle, links, temp, spent, reverted>>

(* What a handler decided is out of date once another step has changed the *)
(* row it read.                                                            *)
Becomes(t, plan) ==
  job' = [s \in Threads |->
            IF s = t THEN plan
            ELSE IF s \in Busy /\ \E u \in {job[s].on} \cup job[s].queue :
                                     u # None /\ row'[u] # row[u]
                 THEN [job[s] EXCEPT !.fresh = FALSE] ELSE job[s]]

-----------------------------------------------------------------------------
(* The handlers.                                                           *)

NewRows(u, isSuper) ==
  [super : {isSuper}, active : {TRUE}, must : BOOLEAN, pw : NewHash(u)]

(* bootstrap_superadmin, from the CLI.                                     *)
Bootstrap(t) ==
  /\ Superadmins = {}
  /\ \E u \in Users : \E new \in NewRows(u, TRUE) :
       Begin(t, Plan("bootstrap", u, new))

(* create_user_account, from the panel and from the CLI.                   *)
CreateUser(t) ==
  \E u \in Users, isSuper \in BOOLEAN :
    /\ ~Exists(u)
    /\ \E new \in NewRows(u, isSuper) : Begin(t, Plan("create", u, new))

(* What one call of the panel may set: any of the role, the access, the    *)
(* flag and the password together; of their own row, the last two.         *)
Updates(u) ==
  [super : BOOLEAN, active : BOOLEAN, must : BOOLEAN,
   pw : {row[u].pw} \cup NewHash(u)]
OwnUpdates(u) ==
  {c \in Updates(u) : c.super = row[u].super /\ c.active = row[u].active}

ReducesAdmin(u, copy) ==
  /\ row[u].super /\ row[u].active
  /\ ~copy.super \/ ~copy.active

UpdateAccount(t) ==
  \E actor \in ActiveAdmins, u \in Users :
    /\ Exists(u)
    /\ \E copy \in IF u = actor THEN OwnUpdates(u) ELSE Updates(u) :
         Begin(t, [Plan("update", u, copy)
                     EXCEPT !.guarded = ReducesAdmin(u, copy)])

(* The CLI and the panel never take a superadmin away.                     *)
Deletable(u) == Exists(u) /\ ~row[u].super

(* delete_user_account writes its tombstone and then deletes; the audit    *)
(* rows of all of these are module AuditChain's.                           *)
DeleteAccount(t) ==
  /\ ActiveAdmins # {}
  /\ \E u \in Users : Deletable(u) /\ Begin(t, Plan("delete", u, None))

DeleteMyAccount(t) ==
  \E u \in Users :
    /\ Deletable(u) /\ row[u].active
    /\ Begin(t, Plan("delete-me", u, None))

ResetPassword(t) ==
  \E actor \in ActiveAdmins, u \in Users, must \in BOOLEAN :
    /\ Exists(u) /\ u # actor
    /\ \E h \in NewHash(u) :
         Begin(t, Plan("reset", u, [row[u] EXCEPT !.pw = h, !.must = must]))

OwnPasswordUnsaved(u) == {[row[u] EXCEPT !.must = FALSE]}
OwnPassword(u) == {[row[u] EXCEPT !.pw = h, !.must = FALSE] : h \in NewHash(u)}

ChangePassword(t) ==
  \E u \in Users :
    /\ Exists(u) /\ row[u].active
    /\ \E copy \in OwnPassword(u) : Begin(t, Plan("change", u, copy))

(* The token signs the hash, the last login, the address and a time; that  *)
(* a login, a new address or a timeout voids it too only takes away.       *)
LinkFor(u) ==
  IF Exists(u) /\ row[u].active THEN {<<u, row[u].pw>>} ELSE {}

RequestReset(u) ==
  /\ left > 0 /\ left' = left - 1
  /\ \E l \in LinkFor(u) : links' = links \cup {l}
  /\ UNCHANGED <<row, idle, job, temp, spent, reverted>>

CompleteResetAgain(t) ==
  \E l \in links :
    LET u == l[1] IN
      /\ Exists(u) /\ row[u].active
      /\ \E copy \in OwnPassword(u) :
           Begin(t, [Plan("complete", u, copy) EXCEPT !.link = l])

(* get_user_for_reset_token.                                               *)
Checks(l) == Exists(l[1]) /\ row[l[1]].active /\ l[2] = row[l[1]].pw

CompleteReset(t) ==
  \E l \in links :
    /\ Checks(l)
    /\ \E copy \in OwnPassword(l[1]) :
         Begin(t, [Plan("complete", l[1], copy) EXCEPT !.link = l])

(* purge_inactive_users lists the candidates, then takes them one by one.  *)
Candidates ==
  {u \in idle : Deletable(u) /\ ~row[u].active}

Purge(t) ==
  /\ Candidates # {}
  /\ Begin(t, [Plan("purge", None, None)
                 EXCEPT !.queue = Candidates])

Start(t) ==
  \/ Bootstrap(t) \/ CreateUser(t) \/ UpdateAccount(t) \/ DeleteAccount(t)
  \/ DeleteMyAccount(t) \/ ResetPassword(t) \/ ChangePassword(t)
  \/ CompleteReset(t) \/ Purge(t)

-----------------------------------------------------------------------------
(* The statements.                                                         *)

(* The INSERT fails on the unique username.                                *)
Create(t) ==
  /\ Doing(t, {"bootstrap", "create"})
  /\ LET u == job[t].on
         new == job[t].copy
     IN IF Exists(u) THEN UNCHANGED <<row, temp>>
        ELSE /\ row' = [row EXCEPT ![u] = new]
             /\ temp' = [temp EXCEPT ![u] = IF new.must THEN new.pw ELSE None]
  /\ UNCHANGED <<idle, links, spent, reverted>>
  /\ Becomes(t, Idle)

RefusedNever(t) == FALSE
Refused(t) == job[t].guarded /\ ActiveAdmins \subseteq {job[t].on}

(* The transaction of update_user_account, or the save of the others.      *)
Save(t) ==
  /\ Doing(t, Saving)
  /\ LET j == job[t]
         u == job[t].on
     IN IF Refused(t)
        THEN UNCHANGED <<row, idle, temp, spent, reverted>>
        ELSE /\ row' = [row EXCEPT ![u] = j.copy]
             /\ idle' = idle \ {u}
             /\ temp' =
                  [temp EXCEPT ![u] =
                     IF j.op \notin {"reset", "update"} THEN @
                     ELSE IF j.copy.must THEN j.copy.pw ELSE None]
             /\ spent' = spent \cup ({j.link} \ {None})
             /\ reverted' = IF j.fresh THEN reverted ELSE reverted \cup {u}
  /\ UNCHANGED links
  /\ Becomes(t, Idle)

Remove(u) ==
  /\ row' = [row EXCEPT ![u] = None]
  /\ idle' = idle \ {u}
  /\ temp' = [temp EXCEPT ![u] = None]
  /\ UNCHANGED <<links, spent, reverted>>

Delete(t) ==
  /\ Doing(t, {"delete", "delete-me"})
  /\ Remove(job[t].on)
  /\ Becomes(t, Idle)

(* One turn of the loop: the row is fetched again, by name, and deleted    *)
(* whatever it says now.                                                   *)
PurgeNext(t) ==
  /\ Doing(t, {"purge"})
  /\ \E u \in job[t].queue :
       /\ Remove(u)
       /\ Becomes(t, IF job[t].queue = {u} THEN Idle
                     ELSE [job[t] EXCEPT !.queue = @ \ {u}])

Statement(t) == Create(t) \/ Save(t) \/ Delete(t) \/ PurgeNext(t)

(* A worker or a command is killed before its statement.                   *)
Die(t) ==
  /\ job[t] # Idle
  /\ job' = [job EXCEPT ![t] = Idle]
  /\ UNCHANGED <<row, idle, links, temp, spent, reverted>>

(* A year without a save.                                                  *)
GrowOld(u) ==
  /\ Exists(u) /\ ~row[u].active
  /\ idle' = idle \cup {u}
  /\ UNCHANGED <<row, links, job, temp, spent, reverted>>

Next ==
  \/ \E t \in Free : Start(t)
  \/ \E u \in Users : RequestReset(u)
  \/ /\ \/ \E t \in Threads : Statement(t) \/ Die(t)
        \/ \E u \in Users : GrowOld(u)
     /\ UNCHANGED left

Spec == Init /\ [][Next]_vars

-----------------------------------------------------------------------------
(* Properties.                                                             *)

Stale(t) == job[t] # Idle /\ job'[t] # job[t] /\ ~job[t].fresh

(* The deployment never loses its last enabled superadmin, whoever demotes,*)
(* disables, deletes or purges whom at the same time: it takes a handler   *)
(* whose copy of the row had gone stale to do that.                        *)
AdminRemains ==
  [][ActiveAdmins # {} /\ ActiveAdmins' = {} => \E t \in Threads : Stale(t)]_vars

(* Without the exception it is what the comment of update_user_account     *)
(* says of its lock; whole rows saved from stale copies get past it.       *)
AdminAlwaysRemains == [][ActiveAdmins # {} => ActiveAdmins' # {}]_row

(* A mailed reset link sets a password once: the hash it signs is gone     *)
(* then, and stays gone unless a whole row is saved from an older copy.    *)
TokenOnce ==
  [][\A t \in Threads :
       /\ Doing(t, {"complete"}) /\ job'[t] # job[t] /\ row' # row
       /\ job[t].link \in spent
       => ~job[t].fresh \/ job[t].on \in reverted]_vars

(* A password an administrator asked to be changed opens nothing but the   *)
(* page to change it: as long as it is the stored one the flag is up, in   *)
(* whatever order resets, changes and whole-row saves of old copies land,  *)
(* unless an administrator saved the user with the flag down.              *)
TempMustChange ==
  \A u \in Users : Exists(u) /\ row[u].pw = temp[u] => row[u].must
=============================================================================
