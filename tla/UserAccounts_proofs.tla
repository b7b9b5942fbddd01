------------------------- MODULE UserAccounts_proofs -------------------------
(***************************************************************************)
(* For any number of users and handlers: a deployment keeps an enabled     *)
(* superadmin until a handler acts on a row that changed since it was      *)
(* read; a password an administrator asked to be changed must be; a reset  *)
(* link is used once.                                                      *)
(***************************************************************************)
EXTENDS UserAccounts, TLAPS

(* Saving the copy leaves the users with an enabled superadmin if this one *)
(* is, or asks the transaction to look for another.                        *)
Harmless(j) ==
  \/ j.guarded
  \/ row[j.on].super /\ row[j.on].active => j.copy.super /\ j.copy.active

(* What was true of the row when the handler decided, and still is.        *)
Decided(j) ==
  /\ j.op \in Saving => Exists(j.on) /\ Harmless(j)
  /\ j.op \in {"delete", "delete-me"} => Exists(j.on) /\ ~row[j.on].super
  /\ \A u \in j.queue : Exists(u) /\ ~row[u].super

Formed(j) ==
  \/ j = Idle
  \/ /\ j \in [op : Ops, on : Users \cup {None}, copy : {j.copy},
               guarded : BOOLEAN, fresh : BOOLEAN, link : {j.link},
               queue : SUBSET Users]
     /\ j.op # "purge" => j.on \in Users /\ j.queue = {}
     /\ j.op \in Saving \cup {"bootstrap", "create"} => j.copy \in Rows

Sound(j) == Formed(j) /\ (j # Idle /\ j.fresh => Decided(j))

IInv ==
  /\ row = [u \in Users |-> row[u]]
  /\ \A u \in Users : row[u] \in Rows \cup {None}
  /\ job = [t \in Threads |-> job[t]]
  /\ \A t \in Threads : Sound(job[t])
  /\ idle \subseteq Users /\ \A l \in links : l[1] \in Users

(* Every initial state satisfies the invariant.                            *)
LEMMA InitInv == Init => IInv
<1> SUFFICES ASSUME Init PROVE IInv
  OBVIOUS
<1>1. \A u \in Users : row[u] \in Rows \cup {None}
  BY DEF Init
<1>2. \A t \in Threads : Sound(job[t])
  BY DEF Init, Sound, Formed
<1> QED
  BY <1>1, <1>2 DEF Init, IInv

-----------------------------------------------------------------------------
(* The handlers that begin.                                                *)

(* A handler that begins with a sound plan changes nothing else.           *)
LEMMA BeginKeeps ==
  ASSUME IInv, NEW t \in Threads, NEW j, Begin(t, j), Sound(j)
  PROVE  IInv'
<1>1. UNCHANGED <<row, idle, links>> /\ job' = [job EXCEPT ![t] = j]
  BY DEF Begin
<1>2. \A s \in Threads : Sound(job[s])'
  BY <1>1 DEF IInv, Sound, Formed, Decided, Harmless, Exists
<1> QED
  BY <1>1, <1>2 DEF IInv

(* A plan about one user, whose row is there when it has to be.            *)
LEMMA PlanSound ==
  ASSUME NEW op \in Ops \ {"purge"}, NEW u \in Users, NEW copy,
         op \in Saving \cup {"bootstrap", "create"} => copy \in Rows,
         op \in Saving => Exists(u),
         op \in {"delete", "delete-me"} => Exists(u) /\ ~row[u].super
  PROVE  /\ op \notin Saving => Sound(Plan(op, u, copy))
         /\ (row[u].super /\ row[u].active => copy.super /\ copy.active)
            => /\ Sound(Plan(op, u, copy))
               /\ \A l : Sound([Plan(op, u, copy) EXCEPT !.link = l])
         /\ \A g \in BOOLEAN :
              g \/ (row[u].super /\ row[u].active => copy.super /\ copy.active)
              => Sound([Plan(op, u, copy) EXCEPT !.guarded = g])
<1> DEFINE Same == row[u].super /\ row[u].active => copy.super /\ copy.active
           Plans(l) == [op : {op}, on : {u}, copy : {copy}, guarded : BOOLEAN,
                        fresh : {TRUE}, link : {l}, queue : {{}}]
<1>1. ASSUME NEW l, NEW r \in Plans(l), op \in Saving => r.guarded \/ Same
      PROVE  Sound(r)
  <2>1. Formed(r)
    BY <1>1 DEF Formed, Ops, Saving
  <2>2. Decided(r)
    BY <1>1 DEF Decided, Harmless
  <2> QED
    BY <2>1, <2>2 DEF Sound
<1>2. Plan(op, u, copy) \in Plans(None)
  BY DEF Plan
<1>3. ASSUME NEW l PROVE [Plan(op, u, copy) EXCEPT !.link = l] \in Plans(l)
  BY DEF Plan
<1>4. ASSUME NEW g \in BOOLEAN
      PROVE  /\ [Plan(op, u, copy) EXCEPT !.guarded = g] \in Plans(None)
             /\ [Plan(op, u, copy) EXCEPT !.guarded = g].guarded = g
  BY DEF Plan
<1> HIDE DEF Plans, Same
<1>5. op \notin Saving \/ Same => Sound(Plan(op, u, copy))
  BY <1>1, <1>2
<1>6. ASSUME Same, NEW l PROVE Sound([Plan(op, u, copy) EXCEPT !.link = l])
  BY <1>1, <1>3, <1>6
<1>7. ASSUME NEW g \in BOOLEAN, g \/ Same
      PROVE  Sound([Plan(op, u, copy) EXCEPT !.guarded = g])
  BY <1>1, <1>4, <1>7
<1> USE DEF Same
<1> QED
  BY <1>5, <1>6, <1>7

(* A copy of a row that leaves its holder as much of an administrator.     *)
Alike(r, c) == c \in Rows /\ c.super = r.super /\ c.active = r.active

(* Setting a password, or the flag that goes with it, leaves the rest.     *)
LEMMA Copies ==
  ASSUME IInv, NEW u \in Users, Exists(u)
  PROVE  /\ row[u] \in Rows
         /\ \A h \in NewHash(u), m \in BOOLEAN :
              Alike(row[u], [row[u] EXCEPT !.pw = h, !.must = m])
         /\ \A c \in OwnPassword(u) : Alike(row[u], c)
         /\ \A c \in Updates(u) : /\ c \in Rows
                                  /\ c.pw = row[u].pw \/ c.pw \in NewHash(u)
<1>1. row[u] \in Rows
  BY DEF IInv, Exists
<1>2. NewHash(u) \subseteq Hashes
  BY DEF NewHash
<1>3. ASSUME NEW h \in NewHash(u), NEW m \in BOOLEAN
      PROVE  Alike(row[u], [row[u] EXCEPT !.pw = h, !.must = m])
  BY <1>1, <1>2 DEF Alike, Rows
<1>4. ASSUME NEW c \in OwnPassword(u) PROVE Alike(row[u], c)
  BY <1>3 DEF OwnPassword
<1>5. ASSUME NEW c \in Updates(u)
      PROVE  c \in Rows /\ (c.pw = row[u].pw \/ c.pw \in NewHash(u))
  BY <1>1, <1>2 DEF Updates, Rows
<1> QED
  BY <1>1, <1>3, <1>4, <1>5

(* Every handler begins with what it checked of the row.                   *)
LEMMA StartKeeps ==
  ASSUME IInv, NEW t \in Free, Start(t) PROVE IInv'
<1>0. t \in Threads
  BY DEF Free
<1> SUFFICES \E j : Begin(t, j) /\ Sound(j)
  BY <1>0, BeginKeeps
<1>1. CASE Bootstrap(t) \/ CreateUser(t)
  <2>1. PICK op \in {"bootstrap", "create"}, u \in Users, b \in BOOLEAN :
          \E new \in NewRows(u, b) : Begin(t, Plan(op, u, new))
    BY <1>1 DEF Bootstrap, CreateUser
  <2>2. PICK new \in NewRows(u, b) : Begin(t, Plan(op, u, new))
    BY <2>1
  <2>3. new \in Rows
    BY DEF NewRows, NewHash, Rows
  <2> QED
    BY <2>2, <2>3, PlanSound DEF Ops, Saving
<1>2. CASE UpdateAccount(t)
  <2>0. PICK u \in Users : Exists(u) /\ \E c \in Updates(u) :
          Begin(t, [Plan("update", u, c) EXCEPT !.guarded = ReducesAdmin(u, c)])
    BY <1>2 DEF UpdateAccount, OwnUpdates
  <2>1. PICK c \in Updates(u) :
          Begin(t, [Plan("update", u, c) EXCEPT !.guarded = ReducesAdmin(u, c)])
    BY <2>0
  <2>2. c \in Rows /\ row[u] \in Rows
    BY <2>0, Copies
  <2>3. ReducesAdmin(u, c) \in BOOLEAN
    BY DEF ReducesAdmin
  <2>4. ReducesAdmin(u, c) \/ (row[u].super /\ row[u].active => c.super /\ c.active)
    BY DEF ReducesAdmin
  <2>5. Sound([Plan("update", u, c) EXCEPT !.guarded = ReducesAdmin(u, c)])
    BY <2>0, <2>2, <2>3, <2>4, PlanSound DEF Ops, Saving
  <2> QED
    BY <2>1, <2>5
<1>3. CASE DeleteAccount(t) \/ DeleteMyAccount(t)
  <2>1. PICK op \in {"delete", "delete-me"}, u \in Users :
          Exists(u) /\ ~row[u].super /\ Begin(t, Plan(op, u, None))
    BY <1>3 DEF DeleteAccount, DeleteMyAccount, Deletable
  <2> QED
    BY <2>1, PlanSound DEF Ops, Saving
<1>4. CASE ResetPassword(t)
  <2>1. PICK u \in Users, m \in BOOLEAN : Exists(u) /\ \E h \in NewHash(u) :
          Begin(t, Plan("reset", u, [row[u] EXCEPT !.pw = h, !.must = m]))
    BY <1>4 DEF ResetPassword
  <2>2. PICK c : Alike(row[u], c) /\ Begin(t, Plan("reset", u, c))
    BY <2>1, Copies
  <2> QED
    BY <2>1, <2>2, PlanSound DEF Alike, Ops, Saving
<1>5. CASE ChangePassword(t)
  <2>1. PICK u \in Users : Exists(u) /\ \E c \in OwnPassword(u) :
          Begin(t, Plan("change", u, c))
    BY <1>5 DEF ChangePassword
  <2>2. PICK c : Alike(row[u], c) /\ Begin(t, Plan("change", u, c))
    BY <2>1, Copies
  <2> QED
    BY <2>1, <2>2, PlanSound DEF Alike, Ops, Saving
<1>6. CASE CompleteReset(t)
  <2>1. PICK l \in links : Exists(l[1]) /\ \E c \in OwnPassword(l[1]) :
          Begin(t, [Plan("complete", l[1], c) EXCEPT !.link = l])
    BY <1>6 DEF CompleteReset, Checks
  <2>2. l[1] \in Users
    BY DEF IInv
  <2>3. PICK c : Alike(row[l[1]], c)
                   /\ Begin(t, [Plan("complete", l[1], c) EXCEPT !.link = l])
    BY <2>1, <2>2, Copies
  <2> QED
    BY <2>1, <2>2, <2>3, PlanSound DEF Alike, Ops, Saving
<1>7. CASE Purge(t)
  <2> DEFINE j == [Plan("purge", None, None) EXCEPT !.queue = Candidates]
  <2>1. Sound(j)
    BY DEF Sound, Formed, Decided, Candidates, Deletable, Exists, Plan, Idle, Ops, Saving, IInv
  <2> QED
    BY <1>7, <2>1 DEF Purge
<1> QED
  BY <1>1, <1>2, <1>3, <1>4, <1>5, <1>6, <1>7 DEF Start

-----------------------------------------------------------------------------
(* The statements.                                                         *)

(* Whoever read one of the rows that change is marked.                     *)
LEMMA BecomesKeeps ==
  ASSUME IInv, NEW t \in Threads, NEW j, Becomes(t, j), Sound(j)',
         row' = [u \in Users |-> row'[u]],
         \A u \in Users : row'[u] \in Rows \cup {None},
         idle' \subseteq Users, UNCHANGED links
  PROVE  IInv'
<1>1. ASSUME NEW s \in Threads, s # t PROVE Sound(job[s])'
  <2>1. Sound(job[s])
    BY DEF IInv
  <2>2. CASE job[s] = Idle
    <3>1. job'[s] = Idle
      BY <1>1, <2>2 DEF Becomes, Busy
    <3> QED
      BY <3>1 DEF Sound, Formed
  <2>3. CASE job[s] # Idle /\ \E u \in {job[s].on} \cup job[s].queue :
                               u # None /\ row'[u] # row[u]
    <3>1. job'[s] = [job[s] EXCEPT !.fresh = FALSE]
      BY <1>1, <2>3 DEF Becomes, Busy
    <3> QED
      BY <2>1, <2>3, <3>1 DEF Sound, Formed, Ops, Idle
  <2>4. CASE job[s] # Idle /\ \A u \in {job[s].on} \cup job[s].queue :
                               u # None => row'[u] = row[u]
    <3>1. job'[s] = job[s]
      BY <1>1, <2>4 DEF Becomes, Busy
    <3>2. \A u \in job[s].queue : row'[u] = row[u]
      BY <2>1, <2>4, UserAccountsAssumption DEF Sound, Formed
    <3>3. job[s].op # "purge" => row'[job[s].on] = row[job[s].on]
      BY <2>1, <2>4, UserAccountsAssumption DEF Sound, Formed
    <3>4. Formed(job[s])'
      BY <2>1, <3>1 DEF Sound, Formed
    <3>5. job[s].fresh => Decided(job[s])'
      <4>1. HAVE job[s].fresh
      <4>2. Decided(job[s])
        BY <2>1, <2>4, <4>1 DEF Sound
      <4> QED
        BY <4>2, <3>1, <3>2, <3>3 DEF Decided, Harmless, Exists, Saving
    <3> QED
      BY <3>1, <3>4, <3>5 DEF Sound
  <2> QED
    BY <2>2, <2>3, <2>4
<1>2. job' = [s \in Threads |-> job'[s]] /\ job'[t] = j
  BY DEF Becomes
<1>3. \A s \in Threads : Sound(job[s])'
  BY <1>1, <1>2 DEF Sound, Formed, Decided, Harmless, Exists
<1> QED
  BY <1>2, <1>3 DEF IInv

(* A thread with nothing left to do holds nothing.                         *)
LEMMA IdleSound == Sound(Idle) /\ Sound(Idle)'
BY DEF Sound, Formed

(* A statement is that of a handler under way.                             *)
LEMMA SoundJob ==
  ASSUME IInv, NEW t \in Threads, Statement(t)
  PROVE  Sound(job[t]) /\ job[t] # Idle
BY DEF IInv, Statement, Create, Save, Delete, PurgeNext, Doing, Idle, Saving

(* Create writes a row where there is none.                                *)
LEMMA CreateKeeps ==
  ASSUME IInv, NEW t \in Threads, Create(t) PROVE IInv'
<1>1. job[t].copy \in Rows
  BY SoundJob DEF Statement, Sound, Formed, Create, Doing, Saving
<1>2. /\ row' = [u \in Users |-> row'[u]]
      /\ \A u \in Users : row'[u] \in Rows \cup {None}
  BY <1>1 DEF IInv, Create
<1> QED
  BY <1>2, IdleSound, BecomesKeeps DEF Create, IInv

(* Save writes a row that is one.                                          *)
LEMMA SaveKeeps ==
  ASSUME IInv, NEW t \in Threads, Save(t) PROVE IInv'
<1>1. job[t].copy \in Rows
  BY SoundJob DEF Statement, Sound, Formed, Save, Doing, Saving
<1>2. /\ row' = [u \in Users |-> row'[u]]
      /\ \A u \in Users : row'[u] \in Rows \cup {None}
      /\ idle' \subseteq Users
  BY <1>1 DEF IInv, Save
<1> QED
  BY <1>2, IdleSound, BecomesKeeps DEF Save, IInv

(* Remove leaves the other rows alone.                                     *)
LEMMA RemoveKeeps ==
  ASSUME IInv, NEW t \in Threads, NEW u \in Users, NEW j,
         Remove(u), Becomes(t, j), Sound(j)'
  PROVE  IInv'
<1>1. /\ row' = [x \in Users |-> row'[x]]
      /\ \A x \in Users : row'[x] \in Rows \cup {None}
      /\ idle' \subseteq Users
  BY DEF IInv, Remove
<1> QED
  BY <1>1, BecomesKeeps DEF Remove

(* Every statement keeps the invariant.                                    *)
LEMMA StatementKeeps ==
  ASSUME IInv, NEW t \in Threads, Statement(t) PROVE IInv'
<1>0. Sound(job[t]) /\ job[t] # Idle
  BY SoundJob
<1>1. CASE Delete(t)
  <2>1. job[t].on \in Users
    BY <1>0, <1>1 DEF Sound, Formed, Delete, Doing
  <2> QED
    BY <1>1, <2>1, IdleSound, RemoveKeeps DEF Delete
<1>2. CASE PurgeNext(t)
  <2>1. PICK u \in job[t].queue :
          Remove(u) /\ Becomes(t, IF job[t].queue = {u} THEN Idle
                                  ELSE [job[t] EXCEPT !.queue = @ \ {u}])
    BY <1>2 DEF PurgeNext
  <2>2. PICK j : j = [job[t] EXCEPT !.queue = job[t].queue \ {u}]
    OBVIOUS
  <2>3. u \in Users
    BY <1>0 DEF Sound, Formed
  <2>4. Formed(j)'
    BY <1>0, <1>2, <2>2 DEF Sound, Formed, PurgeNext, Doing, Ops, Idle, Saving
  <2>5. Sound(j)'
    <3>1. j.op = "purge" /\ j.fresh = job[t].fresh /\ j.queue = job[t].queue \ {u}
      BY <1>0, <1>2, <2>2 DEF Sound, Formed, PurgeNext, Doing
    <3>2. job[t].fresh => \A x \in job[t].queue : Exists(x) /\ ~row[x].super
      BY <1>0 DEF Sound, Decided
    <3>3. \A x \in job[t].queue \ {u} : row'[x] = row[x]
      BY <1>0, <2>1 DEF Remove, IInv, Sound, Formed
    <3>4. j.fresh => Decided(j)'
      BY <3>1, <3>2, <3>3 DEF Decided, Exists, Saving
    <3> QED
      BY <2>4, <3>4 DEF Sound
  <2> QED
    BY <2>1, <2>3, <2>2, <2>5, IdleSound, RemoveKeeps
<1> QED
  BY <1>1, <1>2, CreateKeeps, SaveKeeps DEF Statement

(* No step leaves a handler with a decision that has gone stale unmarked.  *)
LEMMA NextInv == IInv /\ [Next]_vars => IInv'
<1> SUFFICES ASSUME IInv, [Next]_vars PROVE IInv'
  OBVIOUS
<1>1. CASE \E t \in Free : Start(t)
  BY <1>1, StartKeeps
<1>2. CASE \E u \in Users : RequestReset(u)
  <2>1. PICK u \in Users : RequestReset(u)
    BY <1>2
  <2>2. \A l \in links' : l[1] \in Users
    BY <2>1 DEF RequestReset, LinkFor, IInv
  <2>3. UNCHANGED <<row, idle, job>>
    BY <2>1 DEF RequestReset
  <2> QED
    BY <2>2, <2>3 DEF IInv, Sound, Formed, Decided, Harmless, Exists
<1>3. CASE \E t \in Threads : Statement(t)
  BY <1>3, StatementKeeps
<1>4. CASE \E t \in Threads : Die(t)
  <2>1. PICK t \in Threads : Die(t)
    BY <1>4
  <2>2. \A s \in Threads : Sound(job[s])'
    BY <2>1 DEF Die, IInv, Sound, Formed, Decided, Harmless, Exists
  <2> QED
    BY <2>1, <2>2 DEF Die, IInv
<1>5. CASE \E u \in Users : GrowOld(u)
  BY <1>5 DEF GrowOld, IInv, Sound, Formed, Decided, Harmless, Exists
<1>6. CASE UNCHANGED vars
  BY <1>6 DEF vars, IInv, Sound, Formed, Decided, Harmless, Exists
<1> QED
  BY <1>1, <1>2, <1>3, <1>4, <1>5, <1>6 DEF Next

-----------------------------------------------------------------------------
(* The last enabled superadmin.                                            *)

(* A statement of a handler whose decision still stands leaves one.        *)
LEMMA FreshLeavesOne ==
  ASSUME IInv, NEW t \in Threads, Statement(t), job[t].fresh, ActiveAdmins # {}
  PROVE  ActiveAdmins' # {}
<1>0. Sound(job[t]) /\ job[t] # Idle /\ Decided(job[t])
  BY SoundJob DEF Sound
<1>1. \A u \in Users : u \in ActiveAdmins <=> Exists(u) /\ row[u].super /\ row[u].active
  BY DEF ActiveAdmins, Superadmins
<1>2. \A u \in Users : u \in ActiveAdmins' <=>
        row'[u] # None /\ row'[u].super /\ row'[u].active
  BY DEF ActiveAdmins, Superadmins, Exists
<1>3. PICK a \in Users : a \in ActiveAdmins
  BY DEF ActiveAdmins, Superadmins
<1>4. CASE row'[a] = row[a]
  BY <1>1, <1>2, <1>3, <1>4 DEF Exists
<1>5. CASE Create(t)
  <2>1. a # job[t].on \/ row' = row
    BY <1>1, <1>3, <1>5 DEF Create
  <2> QED
    BY <1>4, <1>5, <2>1 DEF Create, IInv
<1>6. CASE Save(t)
  <2> DEFINE u == job[t].on
  <2>1. u \in Users /\ job[t].copy \in Rows /\ Exists(u) /\ Harmless(job[t])
    BY <1>0, <1>6 DEF Sound, Formed, Decided, Save, Doing, Saving
  <2>2. CASE Refused(t)
    BY <1>4, <1>6, <2>2 DEF Save
  <2>3. CASE ~Refused(t) /\ \E b \in ActiveAdmins : b # u
    <3>1. PICK b \in ActiveAdmins : b # u
      BY <2>3
    <3>2. b \in Users /\ row'[b] = row[b]
      BY <3>1, <1>6, <2>3 DEF Save, IInv, ActiveAdmins, Superadmins
    <3> QED
      BY <3>1, <3>2, <1>1, <1>2 DEF Exists
  <2>4. CASE ~Refused(t) /\ \A b \in ActiveAdmins : b = u
    <3>1. job[t].guarded = FALSE /\ a = u
      BY <1>0, <1>3, <2>4 DEF Refused, Sound, Formed
    <3>2. job[t].copy.super /\ job[t].copy.active /\ job[t].copy # None
      BY <1>1, <1>3, <2>1, <3>1, UserAccountsAssumption DEF Harmless
    <3>3. row'[u] = job[t].copy
      BY <1>6, <2>1, <2>4 DEF Save, IInv
    <3> QED
      BY <1>2, <2>1, <3>2, <3>3
  <2> QED
    BY <2>2, <2>3, <2>4
<1>7. CASE Delete(t)
  <2>1. a # job[t].on
    BY <1>0, <1>1, <1>3, <1>7 DEF Decided, Delete, Doing
  <2> QED
    BY <1>4, <1>7, <2>1 DEF Delete, Remove, IInv
<1>8. CASE PurgeNext(t)
  <2>1. PICK u \in job[t].queue : Remove(u)
    BY <1>8 DEF PurgeNext
  <2>2. a # u
    BY <1>0, <1>1, <1>3 DEF Decided
  <2> QED
    BY <1>4, <2>1, <2>2 DEF Remove, IInv
<1> QED
  BY <1>5, <1>6, <1>7, <1>8 DEF Statement

(* A statement ends its handler, or takes a user off its list.             *)
LEMMA StatementMoves ==
  ASSUME IInv, NEW t \in Threads, Statement(t) PROVE job'[t] # job[t]
<1>0. Sound(job[t]) /\ job[t] # Idle
  BY SoundJob
<1>1. CASE Create(t) \/ Save(t) \/ Delete(t)
  BY <1>0, <1>1 DEF Create, Save, Delete, Becomes
<1>2. CASE PurgeNext(t)
  <2>1. PICK u \in job[t].queue :
          job'[t] = IF job[t].queue = {u} THEN Idle
                    ELSE [job[t] EXCEPT !.queue = job[t].queue \ {u}]
    BY <1>2 DEF PurgeNext, Becomes
  <2>2. job[t].queue # {u} => job'[t].queue = job[t].queue \ {u}
    BY <1>0, <2>1 DEF Sound, Formed
  <2> QED
    BY <1>0, <2>1, <2>2
<1> QED
  BY <1>1, <1>2 DEF Statement

(* The guard of update_user_account (services/user.py), the refusals of    *)
(* its callers and the purge's choice of candidates together keep the last *)
(* enabled superadmin: only a handler that acts on a row another one has   *)
(* changed since it was read takes that away.                              *)
THEOREM LastAdminRemains == Spec => AdminRemains
<1> DEFINE Lost == ActiveAdmins # {} /\ ActiveAdmins' = {}
           Excused == \E t \in Threads : Stale(t)
<1>1. Init => IInv
  BY InitInv
<1>2. IInv /\ [Next]_vars => IInv'
  BY NextInv
<1>3. ASSUME IInv, [Next]_vars, Lost PROVE Excused
  <2>1. row' # row
    BY <1>3 DEF ActiveAdmins, Superadmins, Exists
  <2>2. PICK t \in Threads : Statement(t)
    BY <1>3, <2>1 DEF Next, vars, Start, Begin, Bootstrap, CreateUser, UpdateAccount,
       DeleteAccount, DeleteMyAccount, ResetPassword, ChangePassword, CompleteReset,
       Purge, RequestReset, Die, GrowOld
  <2>3. job[t] # Idle /\ job'[t] # job[t]
    BY <1>3, <2>2, SoundJob, StatementMoves
  <2>4. ~job[t].fresh
    BY <1>3, <2>2, FreshLeavesOne
  <2> QED
    BY <2>3, <2>4 DEF Stale
<1>4. IInv /\ [Next]_vars => [Lost => Excused]_vars
  BY <1>3
<1> QED
  BY <1>1, <1>2, <1>4, PTL DEF Spec, AdminRemains

-----------------------------------------------------------------------------
(* Passwords in flight.  A whole row that is about to be saved carries a   *)
(* hash: one that nobody else has (Novel), or, from the panel, the one the *)
(* row had when it was read (Unaltered).                                   *)
Carries(j) == j # Idle /\ j.op \in Saving \cup {"bootstrap", "create"}

Novel(t) ==
  /\ Exists(job[t].on) => row[job[t].on].pw # job[t].copy.pw
  /\ \A l \in links : l[1] = job[t].on => l[2] # job[t].copy.pw
  /\ \A s \in Threads \ {t} :
       Carries(job[s]) /\ job[s].on = job[t].on => job[s].copy.pw # job[t].copy.pw

Unaltered(j) ==
  j.op = "update" /\ (j.fresh => Exists(j.on) /\ j.copy.pw = row[j.on].pw)

(* What a user chooses is not what an administrator asked to be changed.   *)
KeepsTemp(j) ==
  j.op \in {"change", "complete"} => j.copy.pw # temp[j.on]

(* A reset was begun with a link that signs the hash the row had then.     *)
Signed(j) ==
  /\ j.op = "complete" =>
       /\ j.link \in links /\ j.link[1] = j.on
       /\ j.fresh => Exists(j.on) /\ j.link[2] = row[j.on].pw
  /\ j.op # "complete" => j.link = None

Pending(t) ==
  Carries(job[t]) => /\ Novel(t) \/ Unaltered(job[t])
                     /\ KeepsTemp(job[t])
                     /\ Signed(job[t])

(* A link that has been used signs a hash that is gone.                    *)
SpentGone ==
  \A l \in spent :
    /\ l \in links
    /\ Exists(l[1]) /\ row[l[1]].pw = l[2] => l[1] \in reverted

Hashed ==
  /\ IInv
  /\ links \subseteq Users \X Hashes
  /\ temp = [u \in Users |-> temp[u]]
  /\ TempMustChange
  /\ \A t \in Threads : Pending(t)
  /\ SpentGone

(* What a handler that carries a row holds.                                *)
LEMMA Carried ==
  ASSUME IInv, NEW t \in Threads, Carries(job[t])
  PROVE  /\ job[t] # Idle /\ job[t].on \in Users
         /\ job[t].copy \in Rows /\ job[t].copy # None
         /\ job[t].copy.pw \in Hashes /\ job[t].copy.must \in BOOLEAN
         /\ job[t].fresh \in BOOLEAN
<1>1. Sound(job[t]) /\ job[t] # Idle
  BY DEF IInv, Carries
<1>2. job[t].on \in Users /\ job[t].copy \in Rows /\ job[t].fresh \in BOOLEAN
  BY <1>1 DEF Sound, Formed, Carries, Saving
<1> QED BY <1>1, <1>2, UserAccountsAssumption DEF Rows

LEMMA NewHashIs ==
  ASSUME IInv, NEW u \in Users, NEW h \in NewHash(u)
  PROVE  /\ h \in Hashes /\ h # temp[u]
         /\ \A l \in links : l[1] = u => l[2] # h
         /\ Exists(u) => row[u].pw # h
         /\ \A s \in Threads : Carries(job[s]) /\ job[s].on = u => job[s].copy.pw # h
<1>1. h \in Hashes /\ h \notin HashesOf(u)
  BY DEF NewHash
<1>2. ASSUME NEW s \in Threads, Carries(job[s]), job[s].on = u
      PROVE  job[s].copy.pw \in HashesOf(u)
  BY <1>2, Carried DEF HashesOf, Busy
<1>3. \A l \in links : l[1] = u => l[2] \in HashesOf(u)
  BY DEF HashesOf
<1>4. temp[u] \in HashesOf(u) /\ (Exists(u) => row[u].pw \in HashesOf(u))
  BY DEF HashesOf
<1> QED BY <1>1, <1>2, <1>3, <1>4

(* A handler that begins, with a new hash or with the row's own.           *)
Admissible(u, j) ==
  /\ j.on = u
  /\ \/ j.copy.pw \in NewHash(u)
     \/ j.op = "update" /\ Exists(u) /\ j.copy.pw = row[u].pw
  /\ KeepsTemp(j)
  /\ Signed(j)

LEMMA BeginPending ==
  ASSUME Hashed, NEW t \in Free, NEW u \in Users, NEW j, Begin(t, j),
         Carries(j) => Admissible(u, j)
  PROVE  \A s \in Threads : Pending(s)'
<1>0. IInv /\ \A s \in Threads : Pending(s)
  BY DEF Hashed
<1>1. /\ t \in Threads /\ job' = [job EXCEPT ![t] = j]
      /\ job[t] = Idle /\ UNCHANGED <<row, links, temp>> /\ job = [s \in Threads |-> job[s]]
  BY <1>0 DEF Begin, IInv, Free
<1>2. job'[t] = j /\ \A s \in Threads \ {t} : job'[s] = job[s]
  BY <1>1
<1>3. ASSUME NEW s \in Threads \ {t}, Carries(job[s]), Carries(j), job[s].on = j.on
      PROVE  Novel(s) => job[s].copy.pw # j.copy.pw
  <2>1. CASE j.copy.pw \in NewHash(u)
    BY <1>0, <1>3, <2>1, NewHashIs DEF Admissible
  <2>2. CASE Exists(u) /\ j.copy.pw = row[u].pw
    BY <1>3, <2>2 DEF Novel, Admissible
  <2> QED BY <1>3, <2>1, <2>2 DEF Admissible
<1>4. ASSUME NEW s \in Threads, s # t, Carries(job[s])
      PROVE  Pending(s)'
  <2>1. Pending(s) /\ job'[s] = job[s]
    BY <1>0, <1>2, <1>4
  <2>2. Novel(s) => Novel(s)'
    <3> SUFFICES ASSUME Novel(s) PROVE Novel(s)'
      OBVIOUS
    <3>1. \A r \in Threads \ {s} :
            Carries(job'[r]) /\ job'[r].on = job[s].on => job'[r].copy.pw # job[s].copy.pw
      <4> SUFFICES ASSUME NEW r \in Threads \ {s}, Carries(job'[r]), job'[r].on = job[s].on
                   PROVE  job'[r].copy.pw # job[s].copy.pw
        OBVIOUS
      <4>1. CASE r = t
        BY <1>2, <1>3, <1>4, <4>1
      <4>2. CASE r # t
        BY <1>2, <4>2 DEF Novel
      <4> QED BY <4>1, <4>2
    <3> QED BY <1>1, <2>1, <3>1 DEF Novel, Exists, Carries
  <2>3. (Unaltered(job[s]) => Unaltered(job[s])') /\ (Signed(job[s]) => Signed(job[s])')
        /\ (KeepsTemp(job[s]) => KeepsTemp(job[s])')
    BY <1>1, <2>1 DEF Unaltered, Signed, KeepsTemp, Exists
  <2> QED BY <1>4, <2>1, <2>2, <2>3 DEF Pending
<1>5. ASSUME Carries(j)
      PROVE  Pending(t)'
  <2>0. Admissible(u, j)
    BY <1>5
  <2>1. Signed(job[t])' /\ KeepsTemp(job[t])'
    BY <1>1, <1>2, <2>0 DEF Admissible, Signed, KeepsTemp, Exists
  <2>2. CASE j.copy.pw \in NewHash(u)
    <3>1. /\ Exists(u) => row[u].pw # j.copy.pw
          /\ \A l \in links : l[1] = u => l[2] # j.copy.pw
          /\ \A s \in Threads : Carries(job[s]) /\ job[s].on = u
                                 => job[s].copy.pw # j.copy.pw
      BY <1>0, <2>2, NewHashIs
    <3>2. Novel(t)'
      BY <1>1, <1>2, <2>0, <3>1 DEF Novel, Exists, Carries, Admissible
    <3> QED BY <2>1, <3>2 DEF Pending
  <2>3. CASE j.op = "update" /\ Exists(u) /\ j.copy.pw = row[u].pw
    <3>1. Unaltered(job[t])'
      BY <1>1, <1>2, <2>0, <2>3 DEF Unaltered, Exists, Admissible
    <3> QED BY <2>1, <3>1 DEF Pending
  <2> QED BY <2>0, <2>2, <2>3 DEF Admissible
<1>6. \A s \in Threads : ~Carries(job'[s]) => Pending(s)'
  BY DEF Pending, Carries
<1>7. ASSUME NEW s \in Threads PROVE Pending(s)'
  BY <1>2, <1>4, <1>5, <1>6
<1> QED BY <1>7

(* The fields a plan is about.                                             *)
LEMMA PlanFields ==
  ASSUME NEW op, NEW u, NEW copy
  PROVE  LET p == Plan(op, u, copy) IN
         /\ /\ p.op = op /\ p.on = u /\ p.copy = copy /\ p.link = None
         /\ \A g : LET r == [p EXCEPT !.guarded = g] IN
              r.op = op /\ r.on = u /\ r.copy = copy /\ r.link = None
         /\ \A l : LET r == [p EXCEPT !.link = l] IN
              r.op = op /\ r.on = u /\ r.copy = copy /\ r.link = l
BY DEF Plan

LEMMA NewAdmissible ==
  ASSUME IInv, NEW u \in Users, NEW j, j.on = u, j.copy.pw \in NewHash(u), Signed(j)
  PROVE  Admissible(u, j)
<1>1. j.copy.pw # temp[u]
  BY NewHashIs
<1> QED BY <1>1 DEF Admissible, KeepsTemp

LEMMA OwnPasswordNew ==
  ASSUME IInv, NEW u \in Users, Exists(u), NEW c \in OwnPassword(u)
  PROVE  c.pw \in NewHash(u)
<1>1. row[u] \in Rows
  BY DEF IInv, Exists
<1>2. PICK h \in NewHash(u) : c = [row[u] EXCEPT !.pw = h, !.must = FALSE]
  BY DEF OwnPassword
<1> PICK r : r = row[u]
  OBVIOUS
<1>3. r \in Rows /\ c = [r EXCEPT !.pw = h, !.must = FALSE]
  BY <1>1, <1>2
<1>4. c.pw = h
  BY <1>3 DEF Rows
<1> QED BY <1>4

LEMMA StartPending ==
  ASSUME Hashed, NEW t \in Free, Start(t)
  PROVE  \A s \in Threads : Pending(s)'
<1>0. IInv /\ \A l \in links : l[1] \in Users
  BY DEF Hashed, IInv
<1>1. CASE Bootstrap(t) \/ CreateUser(t)
  <2>1. PICK op \in {"bootstrap", "create"}, u \in Users, b \in BOOLEAN :
          \E new \in NewRows(u, b) : Begin(t, Plan(op, u, new))
    BY <1>1 DEF Bootstrap, CreateUser
  <2>2. PICK new \in NewRows(u, b) : Begin(t, Plan(op, u, new))
    BY <2>1
  <2>3. new.pw \in NewHash(u)
    BY DEF NewRows
  <2> PICK j : j = Plan(op, u, new)
    OBVIOUS
  <2>4. j.op = op /\ j.on = u /\ j.copy = new /\ j.link = None
    BY PlanFields
  <2>5. Admissible(u, j)
    BY <1>0, <2>3, <2>4, NewAdmissible DEF Signed
  <2> QED BY <2>2, <2>5, BeginPending
<1>2. CASE UpdateAccount(t)
  <2>0. PICK u \in Users : Exists(u) /\ \E c \in Updates(u) :
          Begin(t, [Plan("update", u, c) EXCEPT !.guarded = ReducesAdmin(u, c)])
    BY <1>2 DEF UpdateAccount, OwnUpdates
  <2>1. PICK c \in Updates(u) :
          Begin(t, [Plan("update", u, c) EXCEPT !.guarded = ReducesAdmin(u, c)])
    BY <2>0
  <2> PICK g : g = ReducesAdmin(u, c)
    OBVIOUS
  <2> PICK j : j = [Plan("update", u, c) EXCEPT !.guarded = g]
    OBVIOUS
  <2>2. j.op = "update" /\ j.on = u /\ j.copy = c /\ j.link = None
    BY PlanFields
  <2>3. c.pw \in NewHash(u) \/ c.pw = row[u].pw
    BY <1>0, <2>0, Copies
  <2>5. Admissible(u, j)
    BY <2>0, <2>2, <2>3 DEF Admissible, KeepsTemp, Signed
  <2>6. Begin(t, j)
    BY <2>1
  <2> QED BY <2>5, <2>6, BeginPending
<1>3. CASE DeleteAccount(t) \/ DeleteMyAccount(t)
  <2>1. PICK op \in {"delete", "delete-me"}, u \in Users : Begin(t, Plan(op, u, None))
    BY <1>3 DEF DeleteAccount, DeleteMyAccount
  <2>2. ~Carries(Plan(op, u, None))
    BY PlanFields DEF Carries, Saving
  <2> QED BY <2>1, <2>2, BeginPending
<1>4. CASE ResetPassword(t)
  <2>1. PICK u \in Users, m \in BOOLEAN : Exists(u) /\ \E h \in NewHash(u) :
          Begin(t, Plan("reset", u, [row[u] EXCEPT !.pw = h, !.must = m]))
    BY <1>4 DEF ResetPassword
  <2>2. PICK h \in NewHash(u) :
          Begin(t, Plan("reset", u, [row[u] EXCEPT !.pw = h, !.must = m]))
    BY <2>1
  <2> PICK r : r = row[u]
    OBVIOUS
  <2> PICK c : c = [r EXCEPT !.pw = h, !.must = m]
    OBVIOUS
  <2>3. c.pw = h
    <3>1. r \in Rows
      BY <1>0, <2>1 DEF IInv, Exists
    <3> QED BY <3>1 DEF Rows
  <2> PICK j : j = Plan("reset", u, c)
    OBVIOUS
  <2>4. j.op = "reset" /\ j.on = u /\ j.copy = c /\ j.link = None
    BY PlanFields
  <2>5. Admissible(u, j)
    <3>1. j.copy.pw \in NewHash(u)
      BY <2>3, <2>4
    <3>2. Signed(j)
      BY <2>4 DEF Signed
    <3> QED BY <1>0, <2>4, <3>1, <3>2, NewAdmissible
  <2>6. Begin(t, j)
    BY <2>2
  <2> QED BY <2>5, <2>6, BeginPending
<1>5. CASE ChangePassword(t)
  <2>1. PICK u \in Users : Exists(u) /\ \E c \in OwnPassword(u) :
          Begin(t, Plan("change", u, c))
    BY <1>5 DEF ChangePassword
  <2>2. PICK c \in OwnPassword(u) : Begin(t, Plan("change", u, c))
    BY <2>1
  <2> PICK j : j = Plan("change", u, c)
    OBVIOUS
  <2>3. j.op = "change" /\ j.on = u /\ j.copy = c /\ j.link = None
    BY PlanFields
  <2>4. Admissible(u, j)
    BY <1>0, <2>1, <2>3, OwnPasswordNew, NewAdmissible DEF Signed
  <2> QED BY <2>2, <2>4, BeginPending
<1>6. CASE CompleteReset(t)
  <2>1. PICK l \in links : Exists(l[1]) /\ l[2] = row[l[1]].pw
                           /\ \E c \in OwnPassword(l[1]) :
                                Begin(t, [Plan("complete", l[1], c) EXCEPT !.link = l])
    BY <1>6 DEF CompleteReset, Checks
  <2> PICK u : u = l[1]
    OBVIOUS
  <2>2. PICK c \in OwnPassword(u) : Begin(t, [Plan("complete", u, c) EXCEPT !.link = l])
    BY <2>1
  <2> PICK j : j = [Plan("complete", u, c) EXCEPT !.link = l]
    OBVIOUS
  <2>3. j.op = "complete" /\ j.on = u /\ j.copy = c /\ j.link = l
    BY PlanFields
  <2>4. u \in Users /\ Exists(u)
    BY <1>0, <2>1
  <2>5. c.pw \in NewHash(u)
    BY <1>0, <2>4, OwnPasswordNew
  <2>6. Signed(j)
    BY <2>1, <2>3, <2>4 DEF Signed
  <2>7. Admissible(u, j)
    BY <1>0, <2>3, <2>4, <2>5, <2>6, NewAdmissible
  <2> QED BY <2>2, <2>4, <2>7, BeginPending
<1>7. CASE Purge(t)
  <2> DEFINE j == [Plan("purge", None, None) EXCEPT !.queue = Candidates]
  <2>1. ~Carries(j)
    BY DEF Carries, Plan, Saving
  <2>2. Begin(t, j)
    BY <1>7 DEF Purge
  <2> HIDE DEF j
  <2>3. PICK u : u \in Users
    BY <1>0, <1>7 DEF Purge, Candidates, Deletable, IInv
  <2> QED BY <2>1, <2>2, <2>3, BeginPending
<1> QED
  BY <1>1, <1>2, <1>3, <1>4, <1>5, <1>6, <1>7 DEF Start

(* A statement writes one row: with the copy it carries, or with nothing.  *)
LEMMA WritePending ==
  ASSUME Hashed, NEW t \in Threads, NEW u \in Users, NEW new, NEW tmp, NEW j,
         row' = [row EXCEPT ![u] = new], temp' = [temp EXCEPT ![u] = tmp],
         UNCHANGED links, Becomes(t, j), ~Carries(j),
         \/ new = None /\ tmp = None
         \/ new = row[u] /\ tmp = temp[u]
         \/ /\ Carries(job[t]) /\ job[t].on = u /\ new = job[t].copy
            /\ tmp \in {temp[u], None, new.pw}
  PROVE  \A s \in Threads : Pending(s)'
<1>0. /\ IInv /\ \A s \in Threads : Pending(s)
      /\ temp = [v \in Users |-> temp[v]]
      /\ row = [v \in Users |-> row[v]]
  BY DEF Hashed, IInv
<1>1. job'[t] = j /\ \A s \in Threads \ {t} :
        job'[s] = IF s \in Busy /\ \E v \in {job[s].on} \cup job[s].queue :
                                      v # None /\ row'[v] # row[v]
                  THEN [job[s] EXCEPT !.fresh = FALSE] ELSE job[s]
  BY DEF Becomes
<1>2. /\ row'[u] = new /\ temp'[u] = tmp
      /\ \A v \in Users \ {u} : row'[v] = row[v] /\ temp'[v] = temp[v]
  BY <1>0
<1>3. ASSUME NEW s \in Threads \ {t}, Carries(job'[s])
      PROVE  /\ Carries(job[s]) /\ job[s].on \in Users
             /\ job'[s].op = job[s].op /\ job'[s].on = job[s].on
             /\ job'[s].copy = job[s].copy /\ job'[s].link = job[s].link
             /\ job'[s].fresh => job[s].fresh /\ row'[job[s].on] = row[job[s].on]
  <2>1. Sound(job[s])
    BY <1>0 DEF IInv
  <2>2. CASE job[s] = Idle
    <3>1. job'[s] = Idle
      BY <1>1, <2>2 DEF Busy
    <3> QED BY <1>3, <3>1 DEF Carries
  <2>3. CASE job[s] # Idle /\ \E v \in {job[s].on} \cup job[s].queue :
                                v # None /\ row'[v] # row[v]
    <3>1. job'[s] = [job[s] EXCEPT !.fresh = FALSE]
      BY <1>1, <2>3 DEF Busy
    <3>2. /\ job'[s].op = job[s].op /\ job'[s].on = job[s].on
          /\ job'[s].copy = job[s].copy /\ job'[s].link = job[s].link
          /\ ~job'[s].fresh
      BY <2>1, <2>3, <3>1 DEF Sound, Formed
    <3>3. Carries(job[s])
      BY <1>3, <2>3, <3>2 DEF Carries
    <3>4. job[s].on \in Users
      BY <1>0, <3>3, Carried
    <3> QED BY <3>2, <3>3, <3>4
  <2>4. CASE job[s] # Idle /\ \A v \in {job[s].on} \cup job[s].queue :
                                v # None => row'[v] = row[v]
    <3>1. job'[s] = job[s]
      BY <1>1, <2>4 DEF Busy
    <3>2. Carries(job[s]) /\ job[s].on \in Users
      BY <1>0, <1>3, <3>1, Carried
    <3>3. job[s].on # None
      BY <3>2, UserAccountsAssumption
    <3> QED BY <2>4, <3>1, <3>2, <3>3
  <2> QED BY <2>2, <2>3, <2>4
<1>4. ASSUME NEW s \in Threads \ {t}, Carries(job'[s])
      PROVE  Pending(s)'
  <2>0. /\ Carries(job[s]) /\ job[s].on \in Users
        /\ job'[s].op = job[s].op /\ job'[s].on = job[s].on
        /\ job'[s].copy = job[s].copy /\ job'[s].link = job[s].link
        /\ job'[s].fresh => job[s].fresh /\ row'[job[s].on] = row[job[s].on]
    BY <1>3, <1>4
  <2>1. (Novel(s) \/ Unaltered(job[s])) /\ KeepsTemp(job[s]) /\ Signed(job[s])
    BY <1>0, <2>0 DEF Pending
  <2>2. Novel(s) => Novel(s)'
    <3> SUFFICES ASSUME Novel(s) PROVE Novel(s)'
      OBVIOUS
    <3>1. row'[job[s].on] # None => row'[job[s].on].pw # job[s].copy.pw
      <4>1. CASE job[s].on = u
        BY <1>2, <2>0, <4>1 DEF Novel, Exists
      <4>2. CASE job[s].on # u
        BY <1>2, <2>0, <4>2 DEF Novel, Exists
      <4> QED BY <4>1, <4>2
    <3>2. \A l \in links' : l[1] = job[s].on => l[2] # job[s].copy.pw
      BY DEF Novel
    <3>3. \A r \in Threads \ {s} :
            Carries(job'[r]) /\ job'[r].on = job[s].on => job'[r].copy.pw # job[s].copy.pw
      <4> SUFFICES ASSUME NEW r \in Threads \ {s}, Carries(job'[r]), job'[r].on = job[s].on
                   PROVE  job'[r].copy.pw # job[s].copy.pw
        OBVIOUS
      <4>1. r # t
        BY <1>1
      <4>2. Carries(job[r]) /\ job[r].on = job'[r].on /\ job[r].copy = job'[r].copy
        BY <1>3, <4>1
      <4> QED BY <4>2 DEF Novel
    <3> QED BY <2>0, <3>1, <3>2, <3>3 DEF Novel, Exists, Carries
  <2>3. Unaltered(job[s]) => Unaltered(job[s])'
    BY <2>0 DEF Unaltered, Exists
  <2>4. Signed(job[s])'
    BY <2>0, <2>1 DEF Signed, Exists
  <2>5. KeepsTemp(job[s])'
    <3>1. CASE job[s].on # u
      <4>1. temp'[job[s].on] = temp[job[s].on]
        BY <1>2, <2>0, <3>1
      <4> QED BY <2>0, <2>1, <4>1 DEF KeepsTemp
    <3>2. CASE job[s].on = u /\ tmp = temp[u]
      BY <1>2, <2>0, <2>1, <3>2 DEF KeepsTemp
    <3>3. CASE job[s].on = u /\ tmp = None
      <4>1. job[s].copy.pw # None
        BY <1>0, <2>0, Carried, UserAccountsAssumption
      <4> QED BY <1>2, <2>0, <3>3, <4>1 DEF KeepsTemp
    <3>4. CASE job[s].on = u /\ tmp # temp[u] /\ tmp # None
      <4>1. Carries(job[t]) /\ job[t].on = u /\ tmp = job[t].copy.pw
        BY <3>4
      <4>2. CASE job[s].op = "update"
        BY <2>0, <4>2 DEF KeepsTemp
      <4>3. CASE job[s].op # "update"
        <5>1. Novel(s)
          BY <2>1, <4>3 DEF Unaltered
        <5>2. job[s].copy.pw # tmp
          BY <2>0, <3>4, <4>1, <5>1 DEF Novel
        <5> QED BY <1>2, <2>0, <3>4, <5>2 DEF KeepsTemp
      <4> QED BY <4>2, <4>3
    <3> QED BY <3>1, <3>2, <3>3, <3>4
  <2> QED BY <2>1, <2>2, <2>3, <2>4, <2>5 DEF Pending
<1>5. \A s \in Threads : ~Carries(job'[s]) => Pending(s)'
  BY DEF Pending, Carries
<1>6. ASSUME NEW s \in Threads PROVE Pending(s)'
  BY <1>1, <1>4, <1>5
<1> QED BY <1>6

(* What a statement writes, for the lemma above.                           *)
LEMMA StatementPending ==
  ASSUME Hashed, NEW t \in Threads, Statement(t)
  PROVE  \A s \in Threads : Pending(s)'
<1>0. /\ IInv /\ Sound(job[t]) /\ job[t] # Idle
      /\ temp = [v \in Users |-> temp[v]]
      /\ row = [v \in Users |-> row[v]]
  BY SoundJob DEF Hashed, IInv
<1>1. ~Carries(Idle)
  BY DEF Carries
<1>2. row = [row EXCEPT ![job[t].on] = row[job[t].on]]
      /\ temp = [temp EXCEPT ![job[t].on] = temp[job[t].on]]
  BY <1>0
<1>3. CASE Create(t)
  <2> PICK u : u = job[t].on
    OBVIOUS
  <2>1. Carries(job[t]) /\ u \in Users
    BY <1>0, <1>3, Carried DEF Create, Doing, Carries
  <2>3. CASE Exists(u)
    <3>1. row' = [row EXCEPT ![u] = row[u]] /\ temp' = [temp EXCEPT ![u] = temp[u]]
      BY <1>2, <1>3, <2>3 DEF Create
    <3>2. UNCHANGED links /\ Becomes(t, Idle)
      BY <1>3 DEF Create
    <3> QED BY <1>1, <2>1, <3>1, <3>2, WritePending
  <2>4. CASE ~Exists(u)
    <3> PICK new : new = job[t].copy
      OBVIOUS
    <3> PICK tmp : tmp = IF new.must THEN new.pw ELSE None
      OBVIOUS
    <3>1. row' = [row EXCEPT ![u] = new] /\ temp' = [temp EXCEPT ![u] = tmp]
      BY <1>3, <2>4 DEF Create
    <3>2. tmp \in {temp[u], None, new.pw}
      OBVIOUS
    <3>3. UNCHANGED links /\ Becomes(t, Idle)
      BY <1>3 DEF Create
    <3> QED BY <1>1, <2>1, <3>1, <3>2, <3>3, WritePending
  <2> QED BY <2>3, <2>4
<1>4. CASE Save(t)
  <2> PICK u : u = job[t].on
    OBVIOUS
  <2>1. Carries(job[t]) /\ u \in Users
    BY <1>0, <1>4, Carried DEF Save, Doing, Carries
  <2>2. UNCHANGED links /\ Becomes(t, Idle)
    BY <1>4 DEF Save
  <2>3. CASE Refused(t)
    <3>1. row' = [row EXCEPT ![u] = row[u]] /\ temp' = [temp EXCEPT ![u] = temp[u]]
      BY <1>2, <1>4, <2>3 DEF Save
    <3> QED BY <1>1, <2>1, <2>2, <3>1, WritePending
  <2>4. CASE ~Refused(t)
    <3> PICK new : new = job[t].copy
      OBVIOUS
    <3> PICK tmp : tmp = IF job[t].op \notin {"reset", "update"} THEN temp[u]
                     ELSE IF new.must THEN new.pw ELSE None
      OBVIOUS
    <3>1. row' = [row EXCEPT ![u] = new] /\ temp' = [temp EXCEPT ![u] = tmp]
      BY <1>4, <2>4 DEF Save
    <3>2. tmp \in {temp[u], None, new.pw}
      OBVIOUS
    <3> QED BY <1>1, <2>1, <2>2, <3>1, <3>2, WritePending
  <2> QED BY <2>3, <2>4
<1>5. CASE Delete(t)
  <2> PICK u : u = job[t].on
    OBVIOUS
  <2>1. u \in Users
    BY <1>0, <1>5 DEF Sound, Formed, Delete, Doing
  <2>2. /\ row' = [row EXCEPT ![u] = None] /\ temp' = [temp EXCEPT ![u] = None]
        /\ UNCHANGED links /\ Becomes(t, Idle)
    BY <1>5 DEF Delete, Remove
  <2> QED BY <1>1, <2>1, <2>2, WritePending
<1>6. CASE PurgeNext(t)
  <2>1. PICK u \in job[t].queue :
          Remove(u) /\ Becomes(t, IF job[t].queue = {u} THEN Idle
                                  ELSE [job[t] EXCEPT !.queue = @ \ {u}])
    BY <1>6 DEF PurgeNext
  <2> PICK j : j = IF job[t].queue = {u} THEN Idle
                   ELSE [job[t] EXCEPT !.queue = job[t].queue \ {u}]
    OBVIOUS
  <2>2. u \in Users /\ ~Carries(j)
    <3>1. u \in Users /\ job[t].op = "purge"
      BY <1>0, <1>6 DEF Sound, Formed, PurgeNext, Doing
    <3>2. j # Idle => j.op = "purge"
      BY <1>0, <3>1 DEF Sound, Formed
    <3> QED BY <3>1, <3>2 DEF Carries, Saving
  <2>3. /\ row' = [row EXCEPT ![u] = None] /\ temp' = [temp EXCEPT ![u] = None]
        /\ UNCHANGED links /\ Becomes(t, j)
    BY <2>1 DEF Remove
  <2> QED BY <2>2, <2>3, WritePending
<1> QED BY <1>3, <1>4, <1>5, <1>6 DEF Statement

(* A statement that leaves a temporary password leaves the flag up, and a  *)
(* used link's hash does not come back but from a stale copy.              *)
LEMMA StatementMarks ==
  ASSUME Hashed, NEW t \in Threads, Statement(t)
  PROVE  /\ temp' = [u \in Users |-> temp'[u]]
         /\ links' = links
         /\ TempMustChange'
         /\ SpentGone'
<1>0. /\ IInv /\ Sound(job[t]) /\ job[t] # Idle /\ Pending(t)
      /\ temp = [v \in Users |-> temp[v]]
      /\ row = [v \in Users |-> row[v]]
      /\ TempMustChange /\ SpentGone
      /\ \A l \in links : l[1] \in Users
  BY SoundJob DEF Hashed, IInv
<1>1. ASSUME row' = row, UNCHANGED <<temp, links, spent, reverted>>
      PROVE  /\ temp' = [u \in Users |-> temp'[u]] /\ links' = links
             /\ TempMustChange' /\ SpentGone'
  BY <1>0, <1>1 DEF TempMustChange, SpentGone, Exists
<1>2. CASE Create(t)
  <2> PICK u : u = job[t].on
    OBVIOUS
  <2>1. /\ Carries(job[t]) /\ u \in Users /\ job[t].op # "update"
        /\ job[t].copy \in Rows /\ job[t].copy.pw \in Hashes /\ job[t].copy.must \in BOOLEAN
    BY <1>0, <1>2, Carried DEF Create, Doing, Carries
  <2>2. UNCHANGED <<links, spent, reverted>>
    BY <1>2 DEF Create
  <2>3. CASE Exists(u)
    BY <1>1, <1>2, <2>2, <2>3 DEF Create
  <2>4. CASE ~Exists(u)
    <3> PICK new : new = job[t].copy
      OBVIOUS
    <3> PICK tmp : tmp = IF new.must THEN new.pw ELSE None
      OBVIOUS
    <3>1. row' = [row EXCEPT ![u] = new] /\ temp' = [temp EXCEPT ![u] = tmp]
      BY <1>2, <2>4 DEF Create
    <3>2. /\ row'[u] = new /\ temp'[u] = tmp /\ temp' = [v \in Users |-> temp'[v]]
          /\ \A v \in Users \ {u} : row'[v] = row[v] /\ temp'[v] = temp[v]
      BY <1>0, <2>1, <3>1
    <3>3. new.pw # None
      BY <2>1, UserAccountsAssumption
    <3>4. TempMustChange'
      BY <1>0, <2>1, <3>2, <3>3 DEF TempMustChange, Exists
    <3>5. Novel(t)
      BY <1>0, <2>1 DEF Pending, Unaltered
    <3>6. \A l \in links : l[1] = u => l[2] # new.pw
      BY <3>5 DEF Novel
    <3>7. SpentGone'
      BY <1>0, <2>2, <3>2, <3>6 DEF SpentGone, Exists
    <3> QED BY <2>2, <3>2, <3>4, <3>7
  <2> QED BY <2>3, <2>4
<1>3. CASE Save(t)
  <2> PICK u : u = job[t].on
    OBVIOUS
  <2>1. /\ Carries(job[t]) /\ u \in Users
        /\ job[t].copy \in Rows /\ job[t].copy.pw \in Hashes /\ job[t].copy.must \in BOOLEAN
        /\ job[t].fresh \in BOOLEAN
    BY <1>0, <1>3, Carried DEF Save, Doing, Carries
  <2>2. UNCHANGED links /\ job[t].op \in Saving
    BY <1>3 DEF Save, Doing
  <2>3. CASE Refused(t)
    BY <1>1, <1>3, <2>3 DEF Save
  <2>4. CASE ~Refused(t)
    <3> PICK new : new = job[t].copy
      OBVIOUS
    <3> PICK tmp : tmp = IF job[t].op \notin {"reset", "update"} THEN temp[u]
                     ELSE IF new.must THEN new.pw ELSE None
      OBVIOUS
    <3>1. /\ row' = [row EXCEPT ![u] = new] /\ temp' = [temp EXCEPT ![u] = tmp]
          /\ spent' = spent \cup ({job[t].link} \ {None})
          /\ reverted' = IF job[t].fresh THEN reverted ELSE reverted \cup {u}
      BY <1>3, <2>4 DEF Save
    <3>2. /\ row'[u] = new /\ temp'[u] = tmp /\ temp' = [v \in Users |-> temp'[v]]
          /\ \A v \in Users \ {u} : row'[v] = row[v] /\ temp'[v] = temp[v]
      BY <1>0, <2>1, <3>1
    <3>3. new.pw # None /\ new # None
      BY <2>1, UserAccountsAssumption
    <3>4. KeepsTemp(job[t]) /\ Signed(job[t]) /\ (Novel(t) \/ Unaltered(job[t]))
      BY <1>0, <2>1 DEF Pending
    <3>5. new.pw = tmp => new.must
      <4>1. CASE job[t].op \in {"reset", "update"}
        BY <2>1, <3>3, <4>1
      <4>2. CASE job[t].op \in {"change", "complete"}
        BY <3>4, <4>2 DEF KeepsTemp
      <4> QED BY <2>2, <4>1, <4>2 DEF Saving
    <3>6. TempMustChange'
      BY <1>0, <2>1, <3>2, <3>5 DEF TempMustChange, Exists
    <3>7. ASSUME NEW l \in spent', Exists(l[1])', row'[l[1]].pw = l[2]
          PROVE  l \in links /\ l[1] \in reverted'
      <4>1. l \in links
        BY <1>0, <3>1, <3>4, <3>7 DEF SpentGone, Signed
      <4>2. l[1] \in Users
        BY <1>0, <4>1
      <4>3. CASE l[1] # u
        <5>1. row'[l[1]] = row[l[1]]
          BY <3>2, <4>2, <4>3
        <5>2. l \in spent
          <6>1. l \in spent \/ (l = job[t].link /\ job[t].link # None)
            BY <3>1, <3>7
          <6>2. job[t].link # None => job[t].link[1] = u
            BY <3>4 DEF Signed
          <6> QED BY <4>3, <6>1, <6>2
        <5> QED BY <1>0, <3>1, <3>7, <4>1, <5>1, <5>2 DEF SpentGone, Exists
      <4>4. CASE l[1] = u /\ ~job[t].fresh
        BY <3>1, <4>1, <4>4
      <4>5. CASE l[1] = u /\ job[t].fresh
        <5>1. ~Novel(t)
          BY <3>2, <3>7, <4>1, <4>5 DEF Novel
        <5>2. job[t].op = "update" /\ Exists(u) /\ new.pw = row[u].pw
          BY <3>4, <4>5, <5>1 DEF Unaltered
        <5>3. l \in spent
          BY <3>1, <3>4, <3>7, <5>2 DEF Signed
        <5>4. Exists(u) /\ row[u].pw = l[2]
          BY <3>2, <3>7, <4>5, <5>2
        <5>5. l[1] \in reverted
          BY <1>0, <4>5, <5>3, <5>4 DEF SpentGone
        <5> QED BY <3>1, <4>1, <5>5
      <4> QED BY <2>1, <4>3, <4>4, <4>5
    <3>8. \A l \in spent' : l \in links
      BY <1>0, <3>1, <3>4 DEF SpentGone, Signed
    <3>9. SpentGone'
      BY <2>2, <3>7, <3>8 DEF SpentGone
    <3> QED BY <2>2, <3>2, <3>6, <3>9
  <2> QED BY <2>3, <2>4
<1>4. ASSUME NEW u \in Users, Remove(u)
      PROVE  /\ temp' = [v \in Users |-> temp'[v]] /\ links' = links
             /\ TempMustChange' /\ SpentGone'
  <2>1. /\ row' = [row EXCEPT ![u] = None] /\ temp' = [temp EXCEPT ![u] = None]
        /\ UNCHANGED <<links, spent, reverted>>
    BY <1>4 DEF Remove
  <2>2. /\ row'[u] = None /\ temp' = [v \in Users |-> temp'[v]]
        /\ \A v \in Users \ {u} : row'[v] = row[v] /\ temp'[v] = temp[v]
    BY <1>0, <2>1
  <2>3. TempMustChange'
    BY <1>0, <2>2 DEF TempMustChange, Exists
  <2>4. SpentGone'
    BY <1>0, <2>1, <2>2 DEF SpentGone, Exists
  <2> QED BY <2>1, <2>2, <2>3, <2>4
<1>5. CASE Delete(t)
  <2>1. job[t].on \in Users
    BY <1>0, <1>5 DEF Sound, Formed, Delete, Doing
  <2> QED BY <1>4, <1>5, <2>1 DEF Delete
<1>6. CASE PurgeNext(t)
  <2>1. PICK u \in job[t].queue : Remove(u)
    BY <1>6 DEF PurgeNext
  <2>2. u \in Users
    BY <1>0 DEF Sound, Formed
  <2> QED BY <1>4, <2>1, <2>2
<1> QED BY <1>2, <1>3, <1>5, <1>6 DEF Statement

(* A link is mailed for the hash that is stored, which no hash in flight   *)
(* that is new can be.                                                     *)
LEMMA RequestPending ==
  ASSUME Hashed, NEW u \in Users, RequestReset(u)
  PROVE  /\ \A s \in Threads : Pending(s)'
         /\ links' \subseteq Users \X Hashes
         /\ SpentGone'
<1>0. IInv /\ (\A s \in Threads : Pending(s)) /\ SpentGone /\ links \subseteq Users \X Hashes
  BY DEF Hashed
<1>1. /\ Exists(u) /\ links' = links \cup {<<u, row[u].pw>>}
      /\ UNCHANGED <<row, job, temp, spent, reverted>>
  BY DEF RequestReset, LinkFor
<1>2. row[u].pw \in Hashes
  <2>1. row[u] \in Rows
    BY <1>0, <1>1 DEF IInv, Exists
  <2> QED BY <2>1 DEF Rows
<1>3. ASSUME NEW s \in Threads
      PROVE  Pending(s)'
  <2>1. Pending(s)
    BY <1>0
  <2>2. Novel(s) => Novel(s)'
    <3> SUFFICES ASSUME Novel(s) PROVE Novel(s)'
      OBVIOUS
    <3>1. \A l \in links' : l[1] = job[s].on => l[2] # job[s].copy.pw
      <4> SUFFICES ASSUME NEW l \in links', l[1] = job[s].on
                   PROVE  l[2] # job[s].copy.pw
        OBVIOUS
      <4>1. CASE l \in links
        BY <4>1 DEF Novel
      <4>2. CASE l = <<u, row[u].pw>>
        <5>1. job[s].on = u /\ l[2] = row[u].pw
          BY <4>2
        <5> QED BY <1>1, <5>1 DEF Novel
      <4> QED BY <1>1, <4>1, <4>2
    <3> QED BY <1>1, <3>1 DEF Novel, Exists, Carries
  <2>3. /\ Unaltered(job[s]) => Unaltered(job[s])'
        /\ KeepsTemp(job[s]) => KeepsTemp(job[s])'
        /\ Signed(job[s]) => Signed(job[s])'
    BY <1>1 DEF Unaltered, KeepsTemp, Signed, Exists
  <2> QED BY <1>1, <2>1, <2>2, <2>3 DEF Pending, Carries
<1>4. SpentGone'
  BY <1>0, <1>1 DEF SpentGone, Exists
<1>5. links' \subseteq Users \X Hashes
  BY <1>0, <1>1, <1>2
<1> QED BY <1>3, <1>4, <1>5

(* The invariant of the passwords in flight is inductive.                  *)
LEMMA HashedStep == Hashed /\ [Next]_vars => Hashed'
<1> SUFFICES ASSUME Hashed, [Next]_vars PROVE Hashed'
  OBVIOUS
<1>0. /\ IInv /\ IInv' /\ links \subseteq Users \X Hashes
      /\ temp = [u \in Users |-> temp[u]] /\ TempMustChange /\ SpentGone
      /\ \A s \in Threads : Pending(s)
  BY NextInv DEF Hashed
<1>1. ASSUME NEW t \in Free, Start(t) PROVE Hashed'
  <2>1. UNCHANGED <<row, links, temp, spent, reverted>>
    BY <1>1 DEF Start, Begin, Bootstrap, CreateUser, UpdateAccount, DeleteAccount,
       DeleteMyAccount, ResetPassword, ChangePassword, CompleteReset, Purge
  <2>2. \A s \in Threads : Pending(s)'
    BY <1>1, StartPending
  <2> QED BY <1>0, <2>1, <2>2 DEF Hashed, TempMustChange, SpentGone, Exists
<1>2. ASSUME NEW u \in Users, RequestReset(u) PROVE Hashed'
  <2>1. UNCHANGED <<row, temp>>
    BY <1>2 DEF RequestReset
  <2>2. /\ \A s \in Threads : Pending(s)'
        /\ links' \subseteq Users \X Hashes
        /\ SpentGone'
    BY <1>2, RequestPending
  <2> QED BY <1>0, <2>1, <2>2 DEF Hashed, TempMustChange, Exists
<1>3. ASSUME NEW t \in Threads, Statement(t) PROVE Hashed'
  BY <1>0, <1>3, StatementPending, StatementMarks DEF Hashed
<1>4. ASSUME NEW t \in Threads, Die(t) PROVE Hashed'
  <2>1. /\ job' = [job EXCEPT ![t] = Idle] /\ UNCHANGED <<row, links, temp, spent, reverted>>
        /\ job = [s \in Threads |-> job[s]]
    BY <1>0, <1>4 DEF Die, IInv
  <2>2. ~Carries(job'[t]) /\ \A s \in Threads \ {t} : job'[s] = job[s]
    BY <2>1 DEF Carries
  <2>3. \A s \in Threads : Carries(job'[s]) => Carries(job[s]) /\ job'[s] = job[s]
    BY <2>2
  <2>4. ASSUME NEW s \in Threads, Carries(job'[s]) PROVE Pending(s)'
    <3>1. job'[s] = job[s] /\ Pending(s) /\ Carries(job[s])
      BY <1>0, <2>3, <2>4
    <3>2. Novel(s) => Novel(s)'
      BY <2>1, <2>3, <3>1 DEF Novel, Exists
    <3> QED BY <2>1, <3>1, <3>2 DEF Pending, Unaltered, KeepsTemp, Signed, Exists
  <2>5. \A s \in Threads : ~Carries(job'[s]) => Pending(s)'
    BY DEF Pending, Carries
  <2> QED BY <1>0, <2>1, <2>4, <2>5 DEF Hashed, TempMustChange, SpentGone, Exists
<1>5. ASSUME UNCHANGED <<row, links, job, temp, spent, reverted>> PROVE Hashed'
  BY <1>0, <1>5 DEF Hashed, TempMustChange, SpentGone, Exists, Pending, Carries, Novel,
     Unaltered, KeepsTemp, Signed
<1>6. ASSUME (\E u \in Users : GrowOld(u)) \/ UNCHANGED vars
      PROVE  UNCHANGED <<row, links, job, temp, spent, reverted>>
  BY <1>6 DEF GrowOld, vars
<1> QED BY <1>1, <1>2, <1>3, <1>4, <1>5, <1>6 DEF Next

LEMMA HashedInit == Init => Hashed
<1> SUFFICES ASSUME Init PROVE Hashed
  OBVIOUS
<1>1. IInv
  BY InitInv
<1>2. \A t \in Threads : Pending(t)
  BY DEF Init, Pending, Carries
<1>3. /\ links = {} /\ spent = {}
      /\ temp = [u \in Users |-> IF row[u] # None /\ row[u].must THEN 0 ELSE None]
      /\ \A u \in Users : row[u] \in Rows \cup {None}
  BY <1>1 DEF Init, IInv
<1>4. TempMustChange
  <2> SUFFICES ASSUME NEW u \in Users, Exists(u), row[u].pw = temp[u], ~row[u].must
               PROVE  FALSE
    BY <1>1 DEF TempMustChange
  <2>1. row[u].pw \in Hashes
    BY <1>3 DEF Exists, Rows
  <2>2. temp[u] = None
    BY <1>3
  <2> QED BY <2>1, <2>2, UserAccountsAssumption
<1> QED BY <1>1, <1>2, <1>3, <1>4 DEF Hashed, SpentGone

(* A password an administrator asked to be changed opens nothing but the   *)
(* page to change it, in whatever order resets, changes and saves land.    *)
THEOREM TempAlwaysMustChange == Spec => []TempMustChange
<1>1. Hashed => TempMustChange
  BY DEF Hashed
<1> QED BY <1>1, HashedInit, HashedStep, PTL DEF Spec

(* A mailed reset link sets a password once, unless a whole row is saved   *)
(* from an older copy.                                                     *)
THEOREM TokenUsedOnce == Spec => TokenOnce
<1> DEFINE A == \A t \in Threads :
                  Doing(t, {"complete"}) /\ job'[t] # job[t] /\ row' # row
                  /\ job[t].link \in spent
                  => ~job[t].fresh \/ job[t].on \in reverted
<1>1. ASSUME Hashed PROVE A
  <2> SUFFICES ASSUME NEW t \in Threads, Doing(t, {"complete"}), job[t].link \in spent,
                      job[t].fresh
               PROVE  job[t].on \in reverted
    OBVIOUS
  <2>1. job[t].op = "complete" /\ job[t] # Idle
    BY DEF Doing, Idle
  <2>2. Pending(t) /\ SpentGone
    BY <1>1 DEF Hashed
  <2>3. Signed(job[t])
    BY <2>1, <2>2 DEF Pending, Carries, Saving
  <2> QED BY <2>1, <2>2, <2>3 DEF Signed, SpentGone
<1>2. Hashed /\ [Next]_vars => [A]_vars
  BY <1>1
<1>3. [A]_vars => [\A t \in Threads :
                     /\ Doing(t, {"complete"}) /\ job'[t] # job[t] /\ row' # row
                     /\ job[t].link \in spent
                     => ~job[t].fresh \/ job[t].on \in reverted]_vars
  OBVIOUS
<1> HIDE DEF A
<1> QED BY <1>2, <1>3, HashedInit, HashedStep, PTL DEF Spec, TokenOnce

=============================================================================
