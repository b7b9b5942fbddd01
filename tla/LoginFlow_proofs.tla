-------------------------- MODULE LoginFlow_proofs --------------------------
(***************************************************************************)
(* The sessions of one account, for any number of keys, requests and       *)
(* handlers, and any ages.                                                 *)
(*                                                                         *)
(* Four invariants, each on top of the ones before it.  IInv is about      *)
(* keys: no step of any handler brings a row of django_session back under  *)
(* a key that has been dealt with.  Own is about the keys of new rows: no  *)
(* request but the one that made a row has its key.  Fits is about ages:   *)
(* the record of a key is hardly younger than the credential behind it.    *)
(* Honest is about passwords: what a session was let in with is what its   *)
(* holder typed, unless another password came in between.                  *)
(***************************************************************************)
EXTENDS LoginFlow, TLAPS

(* What a request may hold, whatever the data it carries.                  *)
Sound(j) ==
  \/ j = Idle
  \/ /\ j \in [at : Points \ {"idle"}, key : Keys \cup {None}, data : {j.data},
               copy : {j.copy}, queue : SUBSET Keys, target : Keys \cup {None},
               then : {"rehash", "record", "answer", "gone"}, late : {FALSE}]
     /\ j.at \in {"sync", "stamp", "view", "cycle", "record"} => j.key \in Keys
     /\ j.at \in {"drop", "cycle"} => j.target \in Keys
     /\ j.at = "cycle" => j.then \in {"answer", "record"}
     /\ j.then = "record" => j.at \in {"cycle", "record", "answer"}
     /\ j.then = "rehash" => j.at \in {"save", "list", "revoke", "drop", "rehash"}
     /\ j.at = "rehash" => j.then = "rehash"

Jobs == job = [t \in Threads |-> job[t]] /\ \A t \in Threads : Sound(job[t])

Ended ==
  /\ store = [k \in Keys |-> store[k]] /\ rec = [k \in Keys |-> rec[k]]
  /\ ended \subseteq Keys
  /\ \A k \in ended : store[k] = None

IInv == Jobs /\ Ended

(* Nothing that is there is None.                                          *)
LEMMA NotNone ==
  /\ None \notin Keys /\ None \notin Hashes /\ None \notin Blobs
  /\ None \notin Records /\ None \notin Accounts
BY LoginFlowAssumption

(* Replacing one request by a sound one.                                   *)
LEMMA JobsKept ==
  ASSUME Jobs, NEW t \in Threads, NEW j, Sound(j), job' = [job EXCEPT ![t] = j]
  PROVE  Jobs'
BY DEF Jobs

(* The key of a new row is nobody's, and has no record.                    *)
LEMMA NewKeyIs ==
  ASSUME Fresh # {}
  PROVE  /\ NewKey \in Keys /\ rec[NewKey] = None /\ ~Has(NewKey)
         /\ NewKey \notin ended
         /\ \A t \in Threads : job[t] # Idle => NewKey # job[t].key
BY DEF NewKey, Fresh

-----------------------------------------------------------------------------
(* The steps, as what they do to the request.                              *)

(* A request with a copy of a session that may be saved back.              *)
Served(j) ==
  \/ j.at \in {"sync", "stamp", "view", "cycle", "record", "answer", "rehash"}
  \/ j.at \in {"list", "revoke", "drop", "save"} /\ j.then # "gone"

(* A request that begins, with nothing or with a row of the table.         *)
Starts(j) ==
  /\ j.at \in {"sync", "revoke", "save", "update", "login"}
  /\ j.at = "sync" =>
       /\ j.key \in Keys /\ Has(j.key) /\ j.key \notin unsent
       /\ j.data = store[j.key] /\ j.data.auth = user.pw /\ j.copy = None
  /\ j.at \in {"revoke", "save", "update"} =>
       j.key = None /\ j.data = None /\ j.copy \in {None, user} /\ j.then = "gone"
  /\ j.at \in {"save", "update"} => j.copy = user
  /\ j.at = "login" =>
       /\ j.copy = user
       /\ \/ j.key = None /\ j.data = Blob(None, user.pw)
          \/ j.key \in Keys /\ PendingUser(j.key) /\ j.data = store[j.key]
  /\ j.then # "rehash"

(* A request that goes on with what it has, or is over.                    *)
Follows(j, j2) ==
  \/ j2 = Idle
  \/ /\ j2.key = j.key /\ j2.data = j.data
     /\ j2.at \in {"stamp", "view", "save", "list", "revoke", "drop", "rehash",
                   "record", "answer"}
     /\ j2.at = "stamp" => j.at = "sync"
     /\ j2.at = "view" => j.at = "stamp"
     /\ j2.at = "record" => j.at = "cycle"
     /\ j2.at # "stamp" => j.at # "sync"
     /\ Served(j2) => Served(j)
     /\ \/ /\ j2.copy = j.copy /\ j2.then \in {j.then, "gone"}
           /\ "save" \notin {j.at, j2.at}
        \/ j2.copy = user /\ j2.at = "save" /\ j2.then = "rehash"
        \/ j2.copy = user' /\ j2.at = "list" /\ j2.then = j.then /\ j.at = "save"

(* A request that has moved to a new key, with a credential just given.    *)
Moves(j, j2) ==
  /\ j2.key = NewKey /\ j2.copy = j.copy
  /\ j2.at \in {"cycle", "record", "answer"} /\ j2.then \in {"answer", "record"}

(* A request that comes with a key that has not been dealt with.           *)
LEMMA RequestIs ==
  ASSUME NEW at, NEW k, NEW data, NEW copy, k \notin ended
  PROVE  Request(at, k, data, copy) =
           [at |-> at, key |-> k, data |-> data, copy |-> copy, queue |-> {},
            target |-> None, then |-> "answer", late |-> FALSE]
<1>1. (k \in ended) = FALSE
  OBVIOUS
<1> QED
  BY <1>1 DEF Request

(* What the handlers that begin do.                                        *)
LEMMA StartIs ==
  ASSUME IInv, NEW t \in Threads, Start(t)
  PROVE  /\ \E j : /\ Begin(t, j) /\ Sound(j) /\ Starts(j)
                   /\ IF j.at # "login" THEN overtaken' = overtaken
                      ELSE IF j.key # None /\ j.key \in overtaken
                           THEN overtaken' = overtaken \cup {t}
                           ELSE overtaken' = overtaken \ {t}
         /\ UNCHANGED <<user, store, rec, unsent, ended, crossed, parked>>
<1>0. \A k \in Keys : Has(k) => k \notin ended
  BY NotNone DEF IInv, Ended, Has
<1>1. None \notin ended
  BY NotNone DEF IInv, Ended
<1>2. CASE Arrive(t)
  <2>1. PICK k \in Keys : /\ Has(k) /\ k \notin unsent /\ store[k].auth = user.pw
                          /\ Begin(t, Request("sync", k, store[k], None))
    BY <1>2 DEF Arrive
  <2>2. PICK j : j = Request("sync", k, store[k], None)
    OBVIOUS
  <2>3. j = [at |-> "sync", key |-> k, data |-> store[k], copy |-> None, queue |-> {},
             target |-> None, then |-> "answer", late |-> FALSE]
    BY <1>0, <2>1, <2>2, RequestIs
  <2>4. Sound(j)
    BY <2>3 DEF Sound, Points
  <2>5. Starts(j)
    BY <2>1, <2>3 DEF Starts
  <2> QED
    BY <1>2, <2>1, <2>2, <2>3, <2>4, <2>5 DEF Arrive, history
<1>3. CASE AdminRevoke(t)
  <2>1. PICK r : r = Request("revoke", None, None, None)
    OBVIOUS
  <2>2. PICK k \in Keys : Begin(t, [r EXCEPT !.queue = {k}, !.then = "gone"])
    BY <1>3, <2>1 DEF AdminRevoke
  <2>3. PICK j : j = [r EXCEPT !.queue = {k}, !.then = "gone"]
    OBVIOUS
  <2>4. j = [at |-> "revoke", key |-> None, data |-> None, copy |-> None, queue |-> {k},
             target |-> None, then |-> "gone", late |-> FALSE]
    <3>1. r = [at |-> "revoke", key |-> None, data |-> None, copy |-> None, queue |-> {},
               target |-> None, then |-> "answer", late |-> FALSE]
      BY <1>1, <2>1, RequestIs
    <3> QED
      BY <2>3, <3>1
  <2>5. Sound(j)
    BY <2>4 DEF Sound, Points
  <2>6. Starts(j)
    BY <2>4 DEF Starts
  <2>7. Begin(t, j)
    BY <2>2, <2>3 DEF Begin
  <2>8. j.at # "login"
    BY <2>4
  <2> QED
    BY <1>3, <2>5, <2>6, <2>7, <2>8 DEF AdminRevoke, history
<1>4. CASE ResetPassword(t)
  <2>1. PICK r : r = Request("save", None, None, user)
    OBVIOUS
  <2>2. PICK j : j = [r EXCEPT !.then = "gone"]
    OBVIOUS
  <2>3. j = [at |-> "save", key |-> None, data |-> None, copy |-> user, queue |-> {},
             target |-> None, then |-> "gone", late |-> FALSE]
    <3>1. r = [at |-> "save", key |-> None, data |-> None, copy |-> user, queue |-> {},
               target |-> None, then |-> "answer", late |-> FALSE]
      BY <1>1, <2>1, RequestIs
    <3> QED
      BY <2>2, <3>1
  <2>4. Sound(j)
    BY <2>3 DEF Sound, Points
  <2>5. Starts(j)
    BY <2>3 DEF Starts
  <2>6. Begin(t, j) /\ j.at # "login"
    BY <1>4, <2>1, <2>2, <2>3 DEF ResetPassword
  <2> QED
    BY <1>4, <2>4, <2>5, <2>6 DEF ResetPassword, history
<1>5. CASE AdminUpdate(t)
  <2>1. PICK r : r = Request("update", None, None, user)
    OBVIOUS
  <2>2. PICK j : j = [r EXCEPT !.then = "gone"]
    OBVIOUS
  <2>3. j = [at |-> "update", key |-> None, data |-> None, copy |-> user, queue |-> {},
             target |-> None, then |-> "gone", late |-> FALSE]
    <3>1. r = [at |-> "update", key |-> None, data |-> None, copy |-> user, queue |-> {},
               target |-> None, then |-> "answer", late |-> FALSE]
      BY <1>1, <2>1, RequestIs
    <3> QED
      BY <2>2, <3>1
  <2>4. Sound(j)
    BY <2>3 DEF Sound, Points
  <2>5. Starts(j)
    BY <2>3 DEF Starts
  <2>6. Begin(t, j) /\ j.at # "login"
    BY <1>5, <2>1, <2>2, <2>3 DEF AdminUpdate
  <2> QED
    BY <1>5, <2>4, <2>5, <2>6 DEF AdminUpdate, history
<1>6. CASE TypePassword(t)
  <2>0. PICK b : b = Blob(None, user.pw)
    OBVIOUS
  <2>1. PICK j : j = Request("login", None, b, user)
    OBVIOUS
  <2>2. j = [at |-> "login", key |-> None, data |-> b, copy |-> user,
             queue |-> {}, target |-> None, then |-> "answer", late |-> FALSE]
    BY <1>1, <2>1, RequestIs
  <2>3. Sound(j)
    BY <2>2 DEF Sound, Points
  <2>4. Starts(j)
    BY <2>0, <2>2 DEF Starts
  <2> QED
    BY <1>6, <2>0, <2>1, <2>2, <2>3, <2>4 DEF TypePassword
<1>7. CASE TypeCode(t)
  <2>1. PICK k \in Keys :
          /\ PendingUser(k) /\ Begin(t, Request("login", k, store[k], user))
          /\ overtaken' = IF k \in overtaken THEN overtaken \cup {t} ELSE overtaken \ {t}
    BY <1>7 DEF TypeCode
  <2>2. PICK j : j = Request("login", k, store[k], user)
    OBVIOUS
  <2>3. j = [at |-> "login", key |-> k, data |-> store[k], copy |-> user, queue |-> {},
             target |-> None, then |-> "answer", late |-> FALSE]
    BY <1>0, <2>1, <2>2, RequestIs DEF PendingUser, Pending
  <2>4. Sound(j)
    BY <2>3 DEF Sound, Points
  <2>5. Starts(j)
    BY <2>1, <2>3 DEF Starts
  <2>6. IF j.key # None /\ j.key \in overtaken THEN overtaken' = overtaken \cup {t}
        ELSE overtaken' = overtaken \ {t}
    BY <2>1, <2>3, NotNone
  <2>7. j.at = "login"
    BY <2>3
  <2> QED
    BY <1>7, <2>1, <2>2, <2>4, <2>5, <2>6, <2>7 DEF TypeCode
<1> QED
  BY <1>2, <1>3, <1>4, <1>5, <1>6, <1>7 DEF Start

(* Going on after a revocation: with the next key, or where the handler    *)
(* was to go.                                                              *)
LEMMA ProceedIs ==
  ASSUME NEW j, NEW q \in SUBSET Keys, Sound(j), j.at \in {"list", "drop"}
  PROVE  /\ Sound(Proceed([j EXCEPT !.queue = q]))
         /\ Follows(j, Proceed([j EXCEPT !.queue = q]))
<1>1. PICK j1 : j1 = [j EXCEPT !.queue = q]
  OBVIOUS
<1>2. j # Idle
  BY DEF Idle
<1>3. /\ j1 = [at |-> j.at, key |-> j.key, data |-> j.data, copy |-> j.copy, queue |-> q,
               target |-> j.target, then |-> j.then, late |-> FALSE]
      /\ j.key \in Keys \cup {None} /\ j.then \in {"rehash", "answer", "gone"}
  BY <1>1, <1>2 DEF Sound
<1>4. CASE q # {}
  <2>1. PICK j2 : j2 = [j1 EXCEPT !.at = "revoke", !.target = None]
    OBVIOUS
  <2>2. j2 = Proceed(j1)
    BY <1>3, <1>4, <2>1 DEF Proceed
  <2>3. j2 = [at |-> "revoke", key |-> j.key, data |-> j.data, copy |-> j.copy,
              queue |-> q, target |-> None, then |-> j.then, late |-> FALSE]
    BY <1>3, <2>1
  <2>4. Sound(j2)
    BY <1>3, <2>3 DEF Sound, Points
  <2>5. Follows(j, j2)
    BY <1>3, <2>3 DEF Follows, Served
  <2> QED
    BY <1>1, <2>2, <2>4, <2>5
<1>5. CASE q = {} /\ j.then = "gone"
  <2>1. Proceed(j1) = Idle
    BY <1>3, <1>5 DEF Proceed
  <2> QED
    BY <1>1, <2>1 DEF Sound, Follows
<1>6. CASE q = {} /\ j.then # "gone"
  <2>1. PICK j2 : j2 = [j1 EXCEPT !.at = j1.then, !.target = None]
    OBVIOUS
  <2>2. j2 = Proceed(j1)
    BY <1>3, <1>6, <2>1 DEF Proceed
  <2>3. j2 = [at |-> j.then, key |-> j.key, data |-> j.data, copy |-> j.copy,
              queue |-> q, target |-> None, then |-> j.then, late |-> FALSE]
    BY <1>3, <2>1
  <2>4. Sound(j2)
    BY <1>3, <1>6, <2>3 DEF Sound, Points
  <2>5. Follows(j, j2)
    BY <1>3, <1>6, <2>3 DEF Follows, Served
  <2> QED
    BY <1>1, <2>2, <2>4, <2>5
<1> QED
  BY <1>4, <1>5, <1>6

(* Leaving, for a logout or at the ceiling.                                *)
LEMMA LeavingIs ==
  ASSUME NEW j, Sound(j), j.at \in {"stamp", "view"}
  PROVE  Sound(Leaving(j)) /\ Follows(j, Leaving(j))
<1>1. PICK j2 : j2 = Leaving(j)
  OBVIOUS
<1>2. j # Idle
  BY DEF Idle
<1>3. /\ j2 = [at |-> "revoke", key |-> j.key, data |-> j.data, copy |-> j.copy,
               queue |-> {j.key}, target |-> j.target, then |-> "gone", late |-> FALSE]
      /\ j.key \in Keys /\ j.target \in Keys \cup {None}
  BY <1>1, <1>2 DEF Sound, Leaving
<1>4. Sound(j2)
  BY <1>3 DEF Sound, Points
<1>5. Follows(j, j2)
  BY <1>3 DEF Follows, Served
<1> QED
  BY <1>1, <1>4, <1>5

(* Going to another place with nothing changed.                            *)
LEMMA GotoIs ==
  ASSUME NEW j, Sound(j), NEW p,
         \/ (j.at = "sync" /\ p = "stamp") \/ (j.at = "stamp" /\ p = "view")
         \/ (j.at = "view" /\ p = "list") \/ (j.at = "record" /\ p = "answer")
  PROVE  Sound([j EXCEPT !.at = p]) /\ Follows(j, [j EXCEPT !.at = p])
<1>1. PICK j2 : j2 = [j EXCEPT !.at = p]
  OBVIOUS
<1>2. j # Idle
  BY DEF Idle
<1>3. /\ j2 = [at |-> p, key |-> j.key, data |-> j.data, copy |-> j.copy,
               queue |-> j.queue, target |-> j.target, then |-> j.then, late |-> FALSE]
      /\ j.key \in Keys /\ j.target \in Keys \cup {None} /\ j.queue \in SUBSET Keys
      /\ j.then \in {"record", "answer", "gone"}
      /\ j.then = "record" => p = "answer"
  BY <1>1, <1>2 DEF Sound
<1>4. p \in Points \ {"idle"} /\ p \in {"stamp", "view", "list", "answer"}
  BY DEF Points
<1>5. Sound(j2)
  BY <1>3, <1>4 DEF Sound
<1>6. Follows(j, j2)
  BY <1>3 DEF Follows, Served
<1> QED
  BY <1>1, <1>5, <1>6

(* The steps after which the request has the key it had.                   *)
MovesOn(t) ==
  \/ Sync(t) \/ Stamp(t) \/ Answer(t) \/ DropOld(t) \/ Logout(t)
  \/ RevokeOne(t) \/ RevokeOthers(t) \/ List(t) \/ RevokeRecord(t) \/ DropSession(t)
  \/ ChangePassword(t) \/ SavePassword(t) \/ SaveUser(t)
  \/ PutOff(t) \/ RecordLogin(t) \/ Die(t)

LEMMA MovesOnIs ==
  ASSUME IInv, NEW t \in Threads, MovesOn(t)
  PROVE  /\ job[t] # Idle
         /\ \E j : job' = [job EXCEPT ![t] = j] /\ Sound(j) /\ Follows(job[t], j)
<1>0. Sound(job[t]) /\ job = [s \in Threads |-> job[s]]
  BY DEF IInv, Jobs
<1>1. job[t] # Idle
  <2>1. \/ job[t].at \in Points \ {"idle"}
        \/ Die(t)
    BY DEF MovesOn, Sync, Stamp, Answer, DropOld, Logout, RevokeOne, RevokeOthers, List,
       RevokeRecord, DropSession, ChangePassword, SavePassword, SaveUser, PutOff,
       RecordLogin, At, Points
  <2> QED
    BY <2>1 DEF Die, Idle
<1> DEFINE Goal == \E j : /\ job' = [job EXCEPT ![t] = j]
                          /\ Sound(j) /\ Follows(job[t], j)
<1> SUFFICES Goal
  BY <1>1
<1>2. ASSUME Finish(t) PROVE Goal
  BY <1>2 DEF Finish, Sound, Follows
<1>3. CASE Sync(t)
  <2>1. Finish(t) \/ job' = [job EXCEPT ![t] = [job[t] EXCEPT !.at = "stamp"]]
    BY <1>0, <1>3 DEF Sync, Goto
  <2>2. job[t].at = "sync"
    BY <1>3 DEF Sync, At
  <2> QED
    BY <1>0, <1>2, <2>1, <2>2, GotoIs
<1>4. CASE Stamp(t)
  <2>1. \/ job' = [job EXCEPT ![t] = Leaving(job[t])]
        \/ job' = [job EXCEPT ![t] = [job[t] EXCEPT !.at = "view"]]
    BY <1>0, <1>4 DEF Stamp
  <2>2. job[t].at = "stamp"
    BY <1>4 DEF Stamp, At
  <2> QED
    BY <1>0, <2>1, <2>2, GotoIs, LeavingIs
<1>5. CASE Answer(t) \/ SaveUser(t) \/ PutOff(t) \/ Die(t)
  BY <1>2, <1>5 DEF Answer, SaveUser, PutOff, Die
<1>6. CASE DropOld(t)
  <2>0. job[t].at = "cycle"
    BY <1>6 DEF DropOld, At
  <2>1. PICK j : j = [job[t] EXCEPT !.at = job[t].then, !.target = None]
    OBVIOUS
  <2>2. job' = [job EXCEPT ![t] = j]
    BY <1>0, <1>6, <2>1 DEF DropOld
  <2>3. /\ j = [at |-> job[t].then, key |-> job[t].key, data |-> job[t].data,
                copy |-> job[t].copy, queue |-> job[t].queue, target |-> None,
                then |-> job[t].then, late |-> FALSE]
        /\ job[t].key \in Keys /\ job[t].queue \in SUBSET Keys
        /\ job[t].then \in {"answer", "record"}
    BY <1>0, <1>1, <2>0, <2>1 DEF Sound
  <2>4. Sound(j)
    BY <2>3 DEF Sound, Points
  <2>5. Follows(job[t], j)
    BY <2>0, <2>3 DEF Follows, Served
  <2> QED
    BY <2>2, <2>4, <2>5
<1>7. CASE Logout(t)
  BY <1>0, <1>7, LeavingIs DEF Logout, At
<1>8. CASE RevokeOne(t)
  <2>0. job[t].at = "view"
    BY <1>8 DEF RevokeOne, At
  <2>1. PICK k \in Keys : job' = [job EXCEPT ![t].at = "revoke", ![t].queue = {k}]
    BY <1>8 DEF RevokeOne
  <2>2. PICK j : j = [job[t] EXCEPT !.at = "revoke", !.queue = {k}]
    OBVIOUS
  <2>3. job' = [job EXCEPT ![t] = j]
    BY <1>0, <2>1, <2>2
  <2>4. /\ j = [at |-> "revoke", key |-> job[t].key, data |-> job[t].data,
                copy |-> job[t].copy, queue |-> {k}, target |-> job[t].target,
                then |-> job[t].then, late |-> FALSE]
        /\ job[t].key \in Keys /\ job[t].target \in Keys \cup {None}
        /\ job[t].then \in {"answer", "gone"}
    BY <1>0, <1>1, <2>0, <2>2 DEF Sound
  <2>5. Sound(j)
    BY <2>4 DEF Sound, Points
  <2>6. Follows(job[t], j)
    BY <2>0, <2>4 DEF Follows, Served
  <2> QED
    BY <2>3, <2>5, <2>6
<1>9. CASE RevokeOthers(t)
  <2>1. job' = [job EXCEPT ![t] = [job[t] EXCEPT !.at = "list"]]
    BY <1>0, <1>9 DEF RevokeOthers, Goto
  <2>2. job[t].at = "view"
    BY <1>9 DEF RevokeOthers, At
  <2> QED
    BY <1>0, <2>1, <2>2, GotoIs
<1>10. CASE List(t)
  <2>1. PICK q \in SUBSET Keys : q = Unrevoked \ {job[t].key}
    BY DEF Unrevoked
  <2>2. job' = [job EXCEPT ![t] = Proceed([job[t] EXCEPT !.queue = q])]
    BY <1>0, <1>10, <2>1 DEF List
  <2>3. job[t].at = "list"
    BY <1>10 DEF List, At
  <2> QED
    BY <1>0, <2>2, <2>3, ProceedIs
<1>11. CASE RevokeRecord(t)
  <2>0. job[t].at = "revoke"
    BY <1>11 DEF RevokeRecord, At
  <2>1. PICK k \in job[t].queue : job' = [job EXCEPT ![t].at = "drop", ![t].target = k]
    BY <1>11 DEF RevokeRecord
  <2>2. PICK j : j = [job[t] EXCEPT !.at = "drop", !.target = k]
    OBVIOUS
  <2>3. job' = [job EXCEPT ![t] = j]
    BY <1>0, <2>1, <2>2
  <2>4. /\ j = [at |-> "drop", key |-> job[t].key, data |-> job[t].data,
                copy |-> job[t].copy, queue |-> job[t].queue, target |-> k,
                then |-> job[t].then, late |-> FALSE]
        /\ job[t].key \in Keys \cup {None} /\ job[t].queue \in SUBSET Keys /\ k \in Keys
        /\ job[t].then \in {"rehash", "answer", "gone"}
    BY <1>0, <1>1, <2>0, <2>1, <2>2 DEF Sound
  <2>5. Sound(j)
    BY <2>4 DEF Sound, Points
  <2>6. Follows(job[t], j)
    BY <2>0, <2>4 DEF Follows, Served
  <2> QED
    BY <2>3, <2>5, <2>6
<1>12. CASE DropSession(t)
  <2>1. job[t].at = "drop"
    BY <1>12 DEF DropSession, At
  <2>2. PICK q \in SUBSET Keys : q = job[t].queue \ {job[t].target}
    BY <1>0, <1>1 DEF Sound
  <2>3. job' = [job EXCEPT ![t] = Proceed([job[t] EXCEPT !.queue = q])]
    BY <1>0, <1>12, <2>2 DEF DropSession
  <2> QED
    BY <1>0, <2>1, <2>3, ProceedIs
<1>13. CASE ChangePassword(t)
  <2>0. job[t].at = "view"
    BY <1>13 DEF ChangePassword, At
  <2>1. PICK j : j = [job[t] EXCEPT !.at = "save", !.copy = user, !.then = "rehash"]
    OBVIOUS
  <2>2. job' = [job EXCEPT ![t] = j]
    BY <1>0, <1>13, <2>1 DEF ChangePassword
  <2>3. /\ j = [at |-> "save", key |-> job[t].key, data |-> job[t].data,
                copy |-> user, queue |-> job[t].queue, target |-> job[t].target,
                then |-> "rehash", late |-> FALSE]
        /\ job[t].key \in Keys /\ job[t].target \in Keys \cup {None}
        /\ job[t].queue \in SUBSET Keys
    BY <1>0, <1>1, <2>0, <2>1 DEF Sound
  <2>4. Sound(j)
    BY <2>3 DEF Sound, Points
  <2>5. Follows(job[t], j)
    BY <2>0, <2>3 DEF Follows, Served
  <2> QED
    BY <2>2, <2>4, <2>5
<1>14. CASE SavePassword(t)
  <2>0. job[t].at = "save"
    BY <1>14 DEF SavePassword, At
  <2>1. PICK j : j = [job[t] EXCEPT !.at = "list", !.copy = user']
    OBVIOUS
  <2>2. job' = [job EXCEPT ![t] = j]
    <3>1. job' = [job EXCEPT ![t].at = "list", ![t].copy = user']
      BY <1>14 DEF SavePassword
    <3> QED
      BY <1>0, <2>1, <3>1
  <2>3. /\ j = [at |-> "list", key |-> job[t].key, data |-> job[t].data,
                copy |-> user', queue |-> job[t].queue, target |-> job[t].target,
                then |-> job[t].then, late |-> FALSE]
        /\ job[t].key \in Keys \cup {None} /\ job[t].target \in Keys \cup {None}
        /\ job[t].queue \in SUBSET Keys /\ job[t].then \in {"rehash", "answer", "gone"}
    BY <1>0, <1>1, <2>0, <2>1 DEF Sound
  <2>4. Sound(j)
    BY <2>3 DEF Sound, Points
  <2>5. Follows(job[t], j)
    BY <2>0, <2>3 DEF Follows, Served
  <2> QED
    BY <2>2, <2>4, <2>5
<1>15. CASE RecordLogin(t)
  <2>1. job' = [job EXCEPT ![t] = [job[t] EXCEPT !.at = "answer"]]
    BY <1>0, <1>15 DEF RecordLogin, Goto
  <2>2. job[t].at = "record"
    BY <1>15 DEF RecordLogin, At
  <2> QED
    BY <1>0, <2>1, <2>2, GotoIs
<1> QED
  BY <1>3, <1>4, <1>5, <1>6, <1>7, <1>8, <1>9, <1>10, <1>11, <1>12, <1>13, <1>14,
     <1>15 DEF MovesOn

(* The steps after which it has the key of a new row.                      *)
LEMMA MovedIs ==
  ASSUME NEW j, Sound(j), j # Idle, NEW data, NEW then \in {"answer", "record"},
         NewKey \in Keys
  PROVE  /\ Sound(Moved(j, data, then)) /\ Moves(j, Moved(j, data, then))
         /\ Moved(j, data, then).data = data
<1>1. PICK j2 : j2 = Moved(j, data, then)
  OBVIOUS
<1>2. j.key \in Keys \cup {None} /\ j.queue \in SUBSET Keys
  BY DEF Sound
<1>4. CASE j.key = None
  <2>1. j2 = [j EXCEPT !.at = then, !.key = NewKey, !.target = j.key, !.data = data,
                       !.then = then]
    BY <1>1, <1>4 DEF Moved
  <2>2. j2 = [at |-> then, key |-> NewKey, data |-> data, copy |-> j.copy,
              queue |-> j.queue, target |-> j.key, then |-> then, late |-> FALSE]
    BY <2>1 DEF Sound
  <2>3. Sound(j2)
    BY <1>2, <2>2 DEF Sound, Points
  <2> QED
    BY <1>1, <2>2, <2>3 DEF Moves
<1>5. CASE j.key \in Keys
  <2>1. j2 = [j EXCEPT !.at = "cycle", !.key = NewKey, !.target = j.key, !.data = data,
                       !.then = then]
    BY <1>1, <1>5, NotNone DEF Moved
  <2>2. j2 = [at |-> "cycle", key |-> NewKey, data |-> data, copy |-> j.copy,
              queue |-> j.queue, target |-> j.key, then |-> then, late |-> FALSE]
    BY <2>1 DEF Sound
  <2>3. Sound(j2)
    BY <1>2, <1>5, <2>2 DEF Sound, Points
  <2> QED
    BY <1>1, <2>2, <2>3 DEF Moves
<1> QED
  BY <1>2, <1>4, <1>5

Relocates(t) == Rotate(t) \/ Rehash(t) \/ Login(t)

LEMMA RelocatesIs ==
  ASSUME IInv, NEW t \in Threads, Relocates(t)
  PROVE  /\ job[t] # Idle /\ Fresh # {}
         /\ store' = [store EXCEPT ![NewKey] = job[t].data]
         /\ unsent' = unsent \cup {NewKey}
         /\ UNCHANGED <<user, rec, ended, overtaken, parked>>
         /\ \E data, j :
              /\ job' = [job EXCEPT ![t] = j] /\ Sound(j) /\ Moves(job[t], j)
              /\ j.data = data
              /\ Rotate(t) => data = [job[t].data EXCEPT !.age = 0, !.idle = 0]
              /\ Rehash(t) => data = Blob(user.pw, job[t].copy.pw)
              /\ Login(t) => data = Blob(LoginHash(t), job[t].data.typed)
<1>0. Sound(job[t]) /\ job = [s \in Threads |-> job[s]]
  BY DEF IInv, Jobs
<1>1. /\ job[t].at \in {"view", "rehash", "login"}
      /\ Rotate(t) => job[t].at = "view"
      /\ Rehash(t) => job[t].at = "rehash"
      /\ Login(t) => job[t].at = "login"
  BY DEF Relocates, Rotate, Rehash, Login, At
<1>2. job[t] # Idle
  BY <1>1 DEF Idle
<1>3. /\ Fresh # {}
      /\ store' = [store EXCEPT ![NewKey] = job[t].data]
      /\ unsent' = unsent \cup {NewKey}
      /\ UNCHANGED <<user, rec, ended, overtaken, parked>>
  BY DEF Relocates, Rotate, Rehash, Login, NewRow
<1> DEFINE rotated == [job[t].data EXCEPT !.age = 0, !.idle = 0]
           rehashed == Blob(user.pw, job[t].copy.pw)
           loggedin == Blob(LoginHash(t), job[t].data.typed)
<1>4. PICK data : /\ Rotate(t) => data = rotated
                  /\ Rehash(t) => data = rehashed
                  /\ Login(t) => data = loggedin
  <2> HIDE DEF rotated, rehashed, loggedin
  <2>1. CASE Rotate(t)
    BY <1>1, <2>1
  <2>2. CASE Rehash(t)
    BY <1>1, <2>2
  <2>3. CASE Login(t)
    BY <1>1, <2>3
  <2> QED
    BY <2>1, <2>2, <2>3 DEF Relocates
<1>5. PICK then \in {"answer", "record"} :
        job' = [job EXCEPT ![t] = Moved(job[t], data, then)]
  <2>1. CASE Rotate(t)
    BY <1>0, <1>4, <2>1 DEF Rotate
  <2>2. CASE Rehash(t)
    BY <1>0, <1>4, <2>2 DEF Rehash
  <2>3. CASE Login(t)
    BY <1>0, <1>4, <2>3 DEF Login
  <2> QED
    BY <2>1, <2>2, <2>3 DEF Relocates
<1>6. PICK j : j = Moved(job[t], data, then)
  OBVIOUS
<1>7. Sound(j) /\ Moves(job[t], j) /\ j.data = data
  BY <1>0, <1>2, <1>3, <1>6, NewKeyIs, MovedIs
<1>8. job' = [job EXCEPT ![t] = j]
  BY <1>5, <1>6
<1> HIDE DEF rotated, rehashed, loggedin
<1>9. /\ job' = [job EXCEPT ![t] = j] /\ Sound(j) /\ Moves(job[t], j) /\ j.data = data
      /\ Rotate(t) => data = rotated
      /\ Rehash(t) => data = rehashed
      /\ Login(t) => data = loggedin
  BY <1>4, <1>7, <1>8
<1> QED
  BY <1>2, <1>3, <1>9 DEF rotated, rehashed, loggedin

(* Every step of a request that is under way is one or the other.          *)
LEMMA ContinueIs ==
  ASSUME NEW t \in Threads PROVE Continue(t) <=> MovesOn(t) \/ Relocates(t)
BY DEF Continue, MovesOn, Relocates

-----------------------------------------------------------------------------
(* The first invariant.                                                    *)

LEMMA InitInv == Init => IInv
<1> SUFFICES ASSUME Init PROVE IInv
  OBVIOUS
<1>1. Jobs
  BY DEF Init, Jobs, Sound
<1>2. Ended
  BY DEF Init, Ended
<1> QED
  BY <1>1, <1>2 DEF IInv

(* The table keeps the keys out that have been dealt with: rows are only   *)
(* written where there is one, or under the key of a new row.              *)
LEMMA EndedKept ==
  ASSUME IInv, NEW t \in Threads, MovesOn(t) PROVE Ended'
<1>0. Ended /\ Sound(job[t])
  BY DEF IInv, Jobs
<1>9. rec' = [k \in Keys |-> rec'[k]]
  <2>1. CASE rec' = rec
    BY <1>0, <2>1 DEF Ended
  <2>2. CASE Sync(t)
    BY <1>0, <2>2 DEF Sync, Ended
  <2>3. CASE Stamp(t)
    BY <1>0, <2>3 DEF Stamp, Ended
  <2>4. CASE RecordLogin(t)
    BY <1>0, <2>4 DEF RecordLogin, Ended
  <2>5. CASE RevokeRecord(t)
    BY <1>0, <2>5 DEF RevokeRecord, Ended
  <2> QED
    BY <2>1, <2>2, <2>3, <2>4, <2>5 DEF MovesOn, Answer, DropOld, Logout, RevokeOne,
       RevokeOthers, List, DropSession, ChangePassword, SavePassword, SaveUser, PutOff, Die
<1>1. CASE UNCHANGED <<store, ended>>
  BY <1>0, <1>1, <1>9 DEF Ended
<1>2. CASE Sync(t) \/ Answer(t) \/ DropOld(t)
  <2>1. UNCHANGED ended
    BY <1>2 DEF Sync, Answer, DropOld, history
  <2>2. PICK b : \/ store' = store
                 \/ store' = [store EXCEPT ![job[t].key] = None]
                 \/ store' = [store EXCEPT ![job[t].target] = None]
                 \/ store' = [store EXCEPT ![job[t].key] = IF @ = None THEN None ELSE b]
    BY <1>2 DEF Sync, Answer, DropOld
  <2> QED
    BY <1>0, <1>9, <2>1, <2>2 DEF Ended
<1>3. CASE PutOff(t)
  <2>1. Fresh # {} /\ store' = [store EXCEPT ![NewKey] = job[t].data] /\ UNCHANGED ended
    BY <1>3 DEF PutOff
  <2> QED
    BY <1>0, <1>9, <2>1, NewKeyIs DEF Ended
<1>4. CASE DropSession(t)
  <2>1. /\ store' = [store EXCEPT ![job[t].target] = None]
        /\ ended' = ended \cup {job[t].target} /\ job[t].at = "drop"
    BY <1>4 DEF DropSession, Without, At
  <2>2. PICK k \in Keys : k = job[t].target
    <3>1. job[t].at = "drop" /\ job[t] # Idle /\ Sound(job[t])
      BY <1>0, <2>1 DEF Idle
    <3> QED
      BY <3>1 DEF Sound
  <2>3. store' = [store EXCEPT ![k] = None] /\ ended' = ended \cup {k}
    BY <2>1, <2>2
  <2> QED
    BY <1>0, <1>9, <2>3 DEF Ended
<1> QED
  BY <1>1, <1>2, <1>3, <1>4 DEF MovesOn, Stamp, Logout, RevokeOne, RevokeOthers, List,
     RevokeRecord, ChangePassword, SavePassword, SaveUser, RecordLogin, Die, history

(* Every step keeps the invariant.                                         *)
LEMMA NextInv == IInv /\ [Next]_vars => IInv'
<1> SUFFICES ASSUME IInv, [Next]_vars PROVE IInv'
  OBVIOUS
<1>0. Jobs /\ Ended
  BY DEF IInv
<1>1. ASSUME NEW t \in Threads, Start(t) PROVE IInv'
  <2>1. PICK j : Begin(t, j) /\ Sound(j)
    BY <1>1, StartIs
  <2>2. UNCHANGED <<store, rec, ended>>
    BY <1>1, StartIs
  <2>3. Jobs'
    BY <1>0, <2>1, JobsKept DEF Begin
  <2> QED
    BY <1>0, <2>2, <2>3 DEF IInv, Ended
<1>2. ASSUME NEW t \in Threads, MovesOn(t) PROVE IInv'
  <2>1. PICK j : job' = [job EXCEPT ![t] = j] /\ Sound(j)
    BY <1>2, MovesOnIs
  <2>2. Jobs'
    BY <1>0, <2>1, JobsKept
  <2> QED
    BY <1>2, <2>2, EndedKept DEF IInv
<1>3. ASSUME NEW t \in Threads, Relocates(t) PROVE IInv'
  <2>1. PICK j : job' = [job EXCEPT ![t] = j] /\ Sound(j)
    BY <1>3, RelocatesIs
  <2>2. Jobs'
    BY <1>0, <2>1, JobsKept
  <2>3. /\ Fresh # {} /\ UNCHANGED <<rec, ended>>
        /\ store' = [store EXCEPT ![NewKey] = job[t].data]
    BY <1>3, RelocatesIs
  <2>4. Ended'
    BY <1>0, <2>3, NewKeyIs DEF Ended
  <2> QED
    BY <2>2, <2>4 DEF IInv
<1>4. CASE SwitchFactor
  BY <1>4 DEF SwitchFactor, IInv, Jobs, Ended, history
<1>5. CASE \E k \in Keys : ArriveAnonymous(k)
  <2>1. PICK k \in Keys : ArriveAnonymous(k)
    BY <1>5
  <2>2. PICK b : Has(k) /\ store' = [store EXCEPT ![k] = b] /\ UNCHANGED <<job, rec, ended>>
    BY <2>1 DEF ArriveAnonymous
  <2>3. k \notin ended
    BY <1>0, <2>2 DEF Has, Ended
  <2>4. Ended'
    BY <1>0, <2>2, <2>3 DEF Ended
  <2>5. Jobs'
    BY <1>0, <2>2 DEF Jobs
  <2> QED
    BY <2>4, <2>5 DEF IInv
<1>6. CASE Tick
  <2>1. Ended'
    BY <1>0, <1>6 DEF Tick, Aged, Ended, history
  <2>2. Jobs'
    BY <1>0, <1>6 DEF Tick, Jobs
  <2> QED
    BY <2>1, <2>2 DEF IInv
<1>7. CASE UNCHANGED vars
  BY <1>7 DEF vars, IInv, Jobs, Ended
<1> QED
  BY <1>1, <1>2, <1>3, <1>4, <1>5, <1>6, <1>7, ContinueIs DEF Next

(* A key whose revocation or logout is over has no session, and no request *)
(* is being served that began with it after that: revoke_session_record    *)
(* (services/session.py) deletes the row for good, because the middleware  *)
(* can only save a row that is there and cycle_key only opens fresh ones.  *)
THEOREM EndedHasNoSession == Spec => []IInv
<1>1. Init => IInv
  BY InitInv
<1>2. IInv /\ [Next]_vars => IInv'
  BY NextInv
<1> QED
  BY <1>1, <1>2, PTL DEF Spec

(* No request that came with such a key is served.                         *)
THEOREM RevokedKeysStayOut == Spec => RevokedStaysOut
<1> DEFINE Out == \A t \in Threads :
                   At(t, "stamp") /\ job'[t].at = "view" => ~job[t].late
<1>1. ASSUME IInv PROVE Out
  <2> SUFFICES ASSUME NEW t \in Threads, At(t, "stamp") PROVE ~job[t].late
    OBVIOUS
  <2>1. Sound(job[t]) /\ job[t] # Idle
    BY <1>1 DEF IInv, Jobs, At, Idle
  <2> QED
    BY <2>1 DEF Sound
<1>2. IInv /\ [Next]_vars => [Out]_vars
  BY <1>1
<1> QED
  BY <1>2, EndedHasNoSession, PTL DEF RevokedStaysOut, Spec

-----------------------------------------------------------------------------
(* The second invariant: whose the key of a new row is.                    *)

New(j) == j.at \in {"cycle", "record"}

Own ==
  \A t \in Threads : New(job[t]) =>
    /\ job[t].key \in unsent /\ rec[job[t].key] = None
    /\ \A s \in Threads \ {t} : job[s] = Idle \/ job[s].key # job[t].key

(* What a step of one request has to see to: its own new key, and those of *)
(* the others.                                                             *)
Alone(t, j) ==
  New(j) =>
    /\ j.key \in unsent' /\ rec'[j.key] = None
    /\ \A s \in Threads \ {t} : job[s] = Idle \/ job[s].key # j.key

Spared(t, j) ==
  \A s \in Threads \ {t} : New(job[s]) =>
    /\ job[s].key \in unsent' /\ rec'[job[s].key] = None
    /\ j = Idle \/ j.key # job[s].key

LEMMA OwnKept ==
  ASSUME Jobs, Own, NEW t \in Threads, NEW j, job' = [job EXCEPT ![t] = j],
         Alone(t, j), Spared(t, j)
  PROVE  Own'
<1>1. \A s \in Threads : job'[s] = IF s = t THEN j ELSE job[s]
  BY DEF Jobs
<1> SUFFICES ASSUME NEW s \in Threads, New(job'[s])
             PROVE  /\ job'[s].key \in unsent' /\ rec'[job'[s].key] = None
                    /\ \A x \in Threads \ {s} :
                         job'[x] = Idle \/ job'[x].key # job'[s].key
  BY DEF Own, New
<1>2. CASE s = t
  BY <1>1, <1>2 DEF Alone
<1>3. CASE s # t
  <2>1. PICK i : i = job[s] /\ job'[s] = i /\ New(i)
    BY <1>1, <1>3
  <2>2. i.key \in unsent' /\ rec'[i.key] = None /\ (j = Idle \/ j.key # i.key)
    BY <1>3, <2>1 DEF Spared
  <2>3. \A x \in Threads \ {s} : job[x] = Idle \/ job[x].key # i.key
    BY <2>1 DEF Own
  <2> QED
    BY <1>1, <2>1, <2>2, <2>3
<1> QED
  BY <1>2, <1>3

(* The key of another's new row is neither the request's nor fresh.        *)
LEMMA OthersKey ==
  ASSUME IInv, Own, NEW t \in Threads, NEW s \in Threads \ {t}, New(job[s])
  PROVE  /\ job[s] # Idle /\ job[s].key \in Keys
         /\ job[s].key \in unsent /\ rec[job[s].key] = None
         /\ job[t] = Idle \/ job[t].key # job[s].key
         /\ Fresh # {} => NewKey # job[s].key
<1>1. job[s] # Idle
  BY DEF New, Idle
<1>2. job[s].key \in Keys
  BY <1>1 DEF IInv, Jobs, Sound, New
<1>3. Fresh # {} => NewKey # job[s].key
  BY <1>1, NewKeyIs
<1> QED
  BY <1>1, <1>2, <1>3 DEF Own

LEMMA OwnInit == Init => Own
BY DEF Init, Own, New, Idle

(* What a step that moves on does to the keys of new rows, and to records. *)
LEMMA MovesOnKeys ==
  ASSUME IInv, NEW t \in Threads, MovesOn(t), NEW k \in Keys,
         job[t].key # k, Fresh # {} => NewKey # k
  PROVE  /\ k \in unsent => k \in unsent'
         /\ rec[k] = None => rec'[k] = None
<1>1. CASE UNCHANGED <<unsent, rec>>
  BY <1>1
<1>2. CASE Answer(t) \/ PutOff(t)
  BY <1>2 DEF Answer, PutOff
<1>3. CASE Sync(t) \/ Stamp(t) \/ RecordLogin(t)
  <2>1. unsent' = unsent
    BY <1>3 DEF Sync, Stamp, RecordLogin
  <2>2. \E r : rec' = rec \/ rec' = [rec EXCEPT ![job[t].key] = r]
    <3>1. CASE Sync(t)
      BY <3>1 DEF Sync
    <3>2. CASE Stamp(t)
      BY <3>2 DEF Stamp
    <3>3. CASE RecordLogin(t)
      BY <3>3 DEF RecordLogin
    <3> QED
      BY <1>3, <3>1, <3>2, <3>3
  <2> QED
    BY <2>1, <2>2 DEF IInv, Ended
<1>4. CASE RevokeRecord(t)
  BY <1>4 DEF RevokeRecord, IInv, Ended
<1> QED
  BY <1>1, <1>2, <1>3, <1>4 DEF MovesOn, DropOld, Logout, RevokeOne, RevokeOthers, List,
     DropSession, ChangePassword, SavePassword, SaveUser, Die, history

LEMMA OwnNext == IInv /\ Own /\ [Next]_vars => Own'
<1> SUFFICES ASSUME IInv, Own, [Next]_vars PROVE Own'
  OBVIOUS
<1>0. Jobs
  BY DEF IInv
<1>1. ASSUME NEW t \in Threads, Start(t) PROVE Own'
  <2>1. PICK j : Begin(t, j) /\ Sound(j) /\ Starts(j)
    BY <1>1, StartIs
  <2>2. UNCHANGED <<rec, unsent>> /\ job' = [job EXCEPT ![t] = j]
    BY <1>1, <2>1, StartIs DEF Begin
  <2>3. ~New(j) /\ (j.key \in Keys => j.key \notin unsent)
    BY <2>1, NotNone DEF Starts, New, PendingUser
  <2>4. Spared(t, j)
    BY <2>2, <2>3, OthersKey DEF Spared
  <2>5. Alone(t, j)
    BY <2>3 DEF Alone
  <2> QED
    BY <1>0, <2>2, <2>4, <2>5, OwnKept
<1>2. ASSUME NEW t \in Threads, MovesOn(t) PROVE Own'
  <2>1. PICK j : job' = [job EXCEPT ![t] = j] /\ Sound(j) /\ Follows(job[t], j)
    BY <1>2, MovesOnIs
  <2>2. job[t] # Idle
    BY <1>2, MovesOnIs
  <2>3. Spared(t, j)
    <3> SUFFICES ASSUME NEW s \in Threads \ {t}, New(job[s])
                 PROVE  /\ job[s].key \in unsent' /\ rec'[job[s].key] = None
                        /\ j = Idle \/ j.key # job[s].key
      BY DEF Spared
    <3>1. PICK k \in Keys : k = job[s].key
      BY OthersKey
    <3>2. /\ k \in unsent /\ rec[k] = None /\ job[t].key # k
          /\ Fresh # {} => NewKey # k
      BY <2>2, <3>1, OthersKey
    <3>3. k \in unsent' /\ rec'[k] = None
      BY <1>2, <3>2, MovesOnKeys
    <3> QED
      BY <2>1, <3>1, <3>2, <3>3 DEF Follows
  <2>4. Alone(t, j)
    <3> SUFFICES ASSUME New(j)
                 PROVE  /\ j.key \in unsent' /\ rec'[j.key] = None
                        /\ \A s \in Threads \ {t} : job[s] = Idle \/ job[s].key # j.key
      BY DEF Alone
    <3>1. j.key = job[t].key /\ job[t].at = "cycle" /\ j.at = "record"
      BY <2>1 DEF Follows, New, Idle
    <3>2. DropOld(t) \/ Answer(t) \/ Die(t)
      BY <1>2, <3>1 DEF MovesOn, Sync, Stamp, Logout, RevokeOne, RevokeOthers, List,
         RevokeRecord, DropSession, ChangePassword, SavePassword, SaveUser, PutOff,
         RecordLogin, At
    <3>3. DropOld(t)
      <4>1. Die(t) => job'[t] = Idle
        BY <1>0 DEF Die, Finish, Jobs
      <4>2. job'[t] = j
        BY <1>0, <2>1 DEF Jobs
      <4> QED
        BY <3>1, <3>2, <4>1, <4>2 DEF Answer, Idle
    <3>4. UNCHANGED <<rec, unsent>>
      BY <3>3 DEF DropOld
    <3> QED
      BY <3>1, <3>4 DEF Own, New
  <2> QED
    BY <1>0, <2>1, <2>3, <2>4, OwnKept
<1>3. ASSUME NEW t \in Threads, Relocates(t) PROVE Own'
  <2>1. PICK j : job' = [job EXCEPT ![t] = j] /\ Moves(job[t], j)
    BY <1>3, RelocatesIs
  <2>2. Fresh # {} /\ unsent' = unsent \cup {NewKey} /\ rec' = rec
    BY <1>3, RelocatesIs
  <2>3. \A s \in Threads : job[s] = Idle \/ job[s].key # NewKey
    BY <2>2, NewKeyIs
  <2>4. rec[NewKey] = None /\ j.key = NewKey
    BY <2>1, <2>2, NewKeyIs DEF Moves
  <2>5. Spared(t, j)
    BY <2>2, <2>4, OthersKey DEF Spared
  <2>6. Alone(t, j)
    BY <2>2, <2>3, <2>4 DEF Alone
  <2> QED
    BY <1>0, <2>1, <2>5, <2>6, OwnKept
<1>4. CASE UNCHANGED <<job, unsent, rec>>
  BY <1>4 DEF Own, New
<1>5. CASE Tick
  BY <1>5 DEF Tick, Own, New, Idle
<1> QED
  BY <1>1, <1>2, <1>3, <1>4, <1>5, ContinueIs DEF Next, SwitchFactor, ArriveAnonymous, vars

LEMMA OwnAlways == Spec => []Own
<1>1. IInv /\ Own /\ [Next]_vars => Own'
  BY OwnNext
<1> QED
  BY <1>1, OwnInit, EndedHasNoSession, PTL DEF Spec

-----------------------------------------------------------------------------
(* The third invariant: how old a session is.                              *)
(*                                                                         *)
(* The data of a session lives in two places, the row and the copies of    *)
(* the requests in flight, and goes from one to the other, so the          *)
(* invariant says the same of both.                                        *)

(* The types of what a request carries, at the places that look at it.     *)
Holds(j) ==
  \/ j = Idle
  \/ /\ j.data \in Blobs \cup {None}
     /\ j.copy \in Accounts \cup {None}
     /\ j.at \in {"save", "login", "update"} => j.copy \in Accounts
     /\ j.then = "rehash" => j.copy \in Accounts
     /\ j.at = "login" => j.data \in Blobs /\ j.data.auth = None
     /\ Served(j) => j.key \in Keys /\ j.data \in Blobs /\ j.data.auth \in Hashes

(* The record of a key is at most one idle timeout younger than the last   *)
(* credential; without a record the session has not been used since then.  *)
Within(b, k, r, slack) ==
  IF r[k] = None THEN b.age <= slack ELSE b.age <= r[k].age + CookieAge

(* For a row that somebody may have the key of, and for a request that has *)
(* a copy.                                                                 *)
RowFits(k, b, r, u, p) ==
  b # None /\ b.auth # None /\ k \notin u => k \in p \/ Within(b, k, r, b.idle)

JobFits(j, r, p) ==
  Served(j) =>
    /\ j.at = "stamp" => r[j.key] # None
    /\ j.at # "sync" => r[j.key] # None \/ j.data.age = 0
    /\ j.key \in p \/ Within(j.data, j.key, r, CookieAge)
    /\ j.at = "view" => j.data.age < AgeLimit \/ j.key \in p

World ==
  /\ user \in Accounts
  /\ store \in [Keys -> Blobs \cup {None}]
  /\ rec \in [Keys -> Records \cup {None}]

AllJobs == \A t \in Threads : Holds(job[t]) /\ JobFits(job[t], rec, parked)
AllRows == \A k \in Keys : RowFits(k, store[k], rec, unsent, parked)

Fits == World /\ AllJobs /\ AllRows

(* What every step but a tick does to the tables the invariant looks at:   *)
(* records come and are not replaced.                                      *)
Onward(r, r2, p, p2) ==
  /\ p \subseteq p2
  /\ \A k \in Keys : r[k] # None => r2[k] # None /\ r2[k].age = r[k].age

(* The numbers are natural numbers.                                        *)
LEMMA Numbers ==
  /\ MaxAge \in Nat /\ CookieAge \in Nat /\ AgeLimit \in Nat
  /\ AgeLimit = MaxAge + CookieAge /\ MaxAge > 0 /\ CookieAge > 0
  /\ \A b \in Blobs : b.age \in Nat /\ b.idle \in Nat /\ b.idle <= CookieAge
                      /\ b.age <= AgeLimit
  /\ \A x \in Records : x.age \in Nat /\ x.age <= MaxAge
BY LoginFlowAssumption DEF AgeLimit, Blobs, Records

(* A request that is not touched still fits.                               *)
LEMMA JobCalm ==
  ASSUME NEW j, NEW r \in [Keys -> Records \cup {None}],
         NEW r2 \in [Keys -> Records \cup {None}], NEW p, NEW p2,
         Onward(r, r2, p, p2), Holds(j), JobFits(j, r, p)
  PROVE  JobFits(j, r2, p2)
<1> SUFFICES ASSUME Served(j) PROVE JobFits(j, r2, p2)
  BY DEF JobFits
<1>1. j.key \in Keys /\ j.data \in Blobs
  BY DEF Holds, Served, Idle
<1>2. /\ j.at = "stamp" => r2[j.key] # None
      /\ j.at # "sync" => r2[j.key] # None \/ j.data.age = 0
  BY <1>1 DEF JobFits, Onward
<1>3. j.key \in p2 \/ Within(j.data, j.key, r2, CookieAge)
  <2>1. CASE j.key \in p
    BY <2>1 DEF Onward
  <2>2. CASE j.key \notin p /\ r[j.key] = None
    <3>1. j.data.age <= CookieAge
      BY <2>2 DEF JobFits, Within
    <3>2. r2[j.key] \in Records \cup {None}
      BY <1>1
    <3> QED
      BY <1>1, <3>1, <3>2, Numbers DEF Within
  <2>3. CASE j.key \notin p /\ r[j.key] # None
    BY <1>1, <2>3 DEF JobFits, Within, Onward
  <2> QED
    BY <2>1, <2>2, <2>3
<1>4. j.at = "view" => j.data.age < AgeLimit \/ j.key \in p2
  BY DEF JobFits, Onward
<1> QED
  BY <1>2, <1>3, <1>4 DEF JobFits

(* Nor does a row that is not touched.                                     *)
LEMMA RowCalm ==
  ASSUME NEW k \in Keys, NEW b \in Blobs \cup {None},
         NEW r \in [Keys -> Records \cup {None}],
         NEW r2 \in [Keys -> Records \cup {None}], NEW p, NEW p2, NEW u, NEW u2,
         Onward(r, r2, p, p2), RowFits(k, b, r, u, p), k \in u => k \in u2
  PROVE  RowFits(k, b, r2, u2, p2)
<1> SUFFICES ASSUME b # None, b.auth # None, k \notin u2
             PROVE  k \in p2 \/ Within(b, k, r2, b.idle)
  BY DEF RowFits
<1>1. b \in Blobs /\ k \notin u
  OBVIOUS
<1>2. CASE k \in p
  BY <1>2 DEF Onward
<1>3. CASE k \notin p /\ r[k] = None
  <2>1. b.age <= b.idle
    BY <1>1, <1>3 DEF RowFits, Within
  <2>2. r2[k] \in Records \cup {None}
    OBVIOUS
  <2>3. CASE r2[k] = None
    BY <2>1, <2>3 DEF Within
  <2>4. CASE r2[k] \in Records
    BY <1>1, <2>1, <2>4, Numbers, NotNone DEF Within
  <2> QED
    BY <2>2, <2>3, <2>4
<1>4. CASE k \notin p /\ r[k] # None
  BY <1>1, <1>4 DEF RowFits, Within, Onward
<1> QED
  BY <1>2, <1>3, <1>4

(* What is left of a row by a step.                                        *)
RowKept(k) ==
  \/ store'[k] = None
  \/ store'[k] = store[k] /\ (k \in unsent => k \in unsent')
  \/ RowFits(k, store'[k], rec', unsent', parked')

Typed == /\ user' \in Accounts
         /\ store' \in [Keys -> Blobs \cup {None}]
         /\ rec' \in [Keys -> Records \cup {None}]

(* A step whose every job and row is as it was or fits again.              *)
LEMMA CalmFits ==
  ASSUME Fits, Typed, Onward(rec, rec', parked, parked'),
         \A t \in Threads : job'[t] # job[t] =>
           Holds(job'[t]) /\ JobFits(job'[t], rec', parked'),
         \A k \in Keys : RowKept(k)
  PROVE  Fits'
<1>1. World'
  BY DEF World, Typed
<1>2. AllJobs'
  <2> SUFFICES ASSUME NEW t \in Threads
               PROVE  Holds(job'[t]) /\ JobFits(job'[t], rec', parked')
    BY DEF AllJobs
  <2>1. CASE job'[t] = job[t]
    <3>1. PICK j : j = job[t]
      OBVIOUS
    <3>2. Holds(j) /\ JobFits(j, rec, parked)
      BY <3>1 DEF Fits, AllJobs
    <3>3. JobFits(j, rec', parked')
      BY <3>2, JobCalm DEF Fits, World, Typed
    <3> QED
      BY <2>1, <3>1, <3>2, <3>3
  <2> QED
    BY <2>1
<1>3. AllRows'
  <2> SUFFICES ASSUME NEW k \in Keys
               PROVE  RowFits(k, store'[k], rec', unsent', parked')
    BY DEF AllRows
  <2>1. CASE store'[k] = store[k] /\ (k \in unsent => k \in unsent')
    <3>1. RowFits(k, store[k], rec, unsent, parked) /\ store[k] \in Blobs \cup {None}
      BY DEF Fits, AllRows, World
    <3>2. RowFits(k, store[k], rec', unsent', parked')
      BY <2>1, <3>1, RowCalm DEF Fits, World, Typed
    <3> QED
      BY <2>1, <3>2
  <2>2. CASE store'[k] = None
    BY <2>2 DEF RowFits
  <2> QED
    BY <2>1, <2>2 DEF RowKept
<1> QED
  BY <1>1, <1>2, <1>3 DEF Fits

(* The same for a step of one request.                                     *)
LEMMA StepFits ==
  ASSUME Fits, Jobs, NEW t \in Threads, NEW j, job' = [job EXCEPT ![t] = j],
         Holds(j), JobFits(j, rec', parked'), Typed,
         Onward(rec, rec', parked, parked'),
         \A k \in Keys : RowKept(k)
  PROVE  Fits'
<1>1. \A s \in Threads : job'[s] = IF s = t THEN j ELSE job[s]
  BY DEF Jobs
<1>2. \A s \in Threads : job'[s] # job[s] =>
        Holds(job'[s]) /\ JobFits(job'[s], rec', parked')
  BY <1>1
<1> QED
  BY <1>2, CalmFits

(* And for one that leaves the records alone, and the rows but for a few   *)
(* it deletes.                                                             *)
LEMMA MoveFits ==
  ASSUME Fits, Jobs, NEW t \in Threads, NEW j, job' = [job EXCEPT ![t] = j],
         Holds(j), JobFits(j, rec, parked), user' \in Accounts,
         UNCHANGED <<rec, unsent, parked>>,
         store' = store \/ \E k \in Keys : store' = [store EXCEPT ![k] = None]
  PROVE  Fits'
<1>1. Onward(rec, rec', parked, parked')
  BY DEF Onward
<1>2. Typed
  BY DEF Fits, World, Typed
<1>3. \A k \in Keys : RowKept(k)
  BY DEF Fits, World, RowKept
<1>4. JobFits(j, rec', parked')
  OBVIOUS
<1> QED
  BY <1>1, <1>2, <1>3, <1>4, StepFits

(* A request that is over fits.                                            *)
LEMMA IdleFits ==
  /\ Holds(Idle)
  /\ \A r, p : JobFits(Idle, r, p)
BY DEF Holds, JobFits, Served, Idle

(* A request that moves on holds what it held, and fits if it did: but for *)
(* the three places below.                                                 *)
LEMMA FollowsHolds ==
  ASSUME NEW j, NEW j2, Holds(j), j # Idle, Follows(j, j2), Fits, user' \in Accounts
  PROVE  Holds(j2)
<1>1. CASE j2 = Idle
  BY <1>1 DEF Holds
<1>2. CASE j2 # Idle
  <2>1. user \in Accounts
    BY DEF Fits, World
  <2>2. j2.data \in Blobs \cup {None}
    BY <1>2 DEF Holds, Follows
  <2>3. /\ j2.copy \in Accounts \cup {None}
        /\ j2.then = "rehash" => j2.copy \in Accounts
        /\ j2.at = "save" => j2.copy \in Accounts
    <3>1. CASE j2.copy = j.copy /\ j2.then \in {j.then, "gone"} /\ j2.at # "save"
      BY <3>1 DEF Holds
    <3>2. CASE j2.copy \in {user, user'}
      BY <2>1, <3>2
    <3> QED
      BY <1>2, <3>1, <3>2 DEF Follows
  <2>4. j2.at \notin {"login", "update"}
    BY <1>2 DEF Follows
  <2>5. Served(j2) => j2.key \in Keys /\ j2.data \in Blobs /\ j2.data.auth \in Hashes
    BY <1>2 DEF Follows, Holds
  <2> QED
    BY <2>2, <2>3, <2>4, <2>5 DEF Holds
<1> QED
  BY <1>1, <1>2

LEMMA FollowsFits ==
  ASSUME NEW j, NEW j2, NEW r, NEW p, JobFits(j, r, p), Follows(j, j2),
         j2.at \notin {"stamp", "view"}
  PROVE  JobFits(j2, r, p)
BY DEF Follows, JobFits, Served, Idle

(* What a request knows about itself.                                      *)
LEMMA JobIs ==
  ASSUME IInv, Fits, NEW t \in Threads
  PROVE  /\ Jobs /\ Sound(job[t]) /\ Holds(job[t])
         /\ JobFits(job[t], rec, parked)
BY DEF IInv, Jobs, Fits, AllJobs

(* A row that is there.                                                    *)
LEMMA RowIs ==
  ASSUME Fits, NEW k \in Keys, Has(k)
  PROVE  store[k] \in Blobs /\ RowFits(k, store[k], rec, unsent, parked)
BY DEF Fits, World, AllRows, Has

(* The handlers that begin: only a request with a session takes a copy to  *)
(* serve, and it takes the row as it is.                                   *)
LEMMA StartFits ==
  ASSUME IInv, Fits, NEW t \in Threads, Start(t)
  PROVE  Fits'
<1>0. user \in Accounts /\ user.pw \in Hashes /\ Blob(None, user.pw) \in Blobs
  <2>1. user \in Accounts /\ user.pw \in Hashes
    BY DEF Fits, World, Accounts
  <2> QED
    BY <2>1, Numbers DEF Blob, Blobs
<1>1. PICK j : Begin(t, j) /\ Starts(j)
  BY StartIs
<1>2. UNCHANGED <<user, store, rec, unsent, parked>>
  BY StartIs
<1>3. Holds(j) /\ JobFits(j, rec, parked)
  <2>1. CASE j.at = "sync"
    <3>1. PICK k \in Keys : k = j.key
      BY <1>1, <2>1 DEF Starts
    <3>2. /\ Has(k) /\ k \notin unsent /\ j.data = store[k] /\ j.data.auth \in Hashes
          /\ j.copy = None /\ j.then # "rehash"
      BY <1>0, <1>1, <2>1, <3>1 DEF Starts
    <3>3. j.data \in Blobs /\ RowFits(k, j.data, rec, unsent, parked)
      BY <3>2, RowIs
    <3>4. Holds(j)
      BY <2>1, <3>1, <3>2, <3>3 DEF Holds
    <3>5. k \in parked \/ Within(j.data, k, rec, j.data.idle)
      BY <3>2, <3>3, NotNone DEF RowFits
    <3>6. k \in parked \/ Within(j.data, k, rec, CookieAge)
      BY <3>3, <3>5, Numbers DEF Within
    <3>7. JobFits(j, rec, parked)
      BY <2>1, <3>1, <3>6 DEF JobFits
    <3> QED
      BY <3>4, <3>7
  <2>2. CASE j.at \in {"revoke", "save", "update"}
    <3>1. /\ j.data = None /\ j.copy \in {None, user} /\ j.then = "gone"
          /\ j.at \in {"save", "update"} => j.copy = user
      BY <1>1, <2>2 DEF Starts
    <3>2. ~Served(j)
      BY <2>2, <3>1 DEF Served
    <3> QED
      BY <1>0, <2>2, <3>1, <3>2 DEF Holds, JobFits
  <2>3. CASE j.at = "login"
    <3>1. j.copy = user /\ j.then # "rehash"
      BY <1>1, <2>3 DEF Starts
    <3>2. j.data \in Blobs /\ j.data.auth = None
      <4>1. Blob(None, user.pw).auth = None
        BY DEF Blob
      <4> QED
        BY <1>0, <1>1, <2>3, <4>1, RowIs DEF Starts, PendingUser, Pending
    <3>3. ~Served(j)
      BY <2>3 DEF Served
    <3> QED
      BY <1>0, <2>3, <3>1, <3>2, <3>3 DEF Holds, JobFits
  <2> QED
    BY <1>1, <2>1, <2>2, <2>3 DEF Starts
<1>4. job' = [job EXCEPT ![t] = j] /\ Jobs /\ user' \in Accounts
  BY <1>0, <1>1, <1>2 DEF Begin, IInv
<1> QED
  BY <1>2, <1>3, <1>4, MoveFits

(* A new password leaves an account.                                       *)
LEMMA UserTyped ==
  ASSUME IInv, Fits, NEW t \in Threads, MovesOn(t)
  PROVE  user' \in Accounts
<1>0. user \in Accounts /\ Holds(job[t])
  BY JobIs DEF Fits, World
<1>1. \A a \in Accounts, h \in Hashes : [a EXCEPT !.pw = h] \in Accounts
  BY DEF Accounts
<1>2. CASE SavePassword(t)
  <2>1. job[t].at = "save" /\ NewHashes # {} /\ user' = [job[t].copy EXCEPT !.pw = NewHash]
    BY <1>2 DEF SavePassword, At
  <2>2. NewHash \in Hashes
    BY <2>1 DEF NewHash, NewHashes
  <2>3. job[t].copy \in Accounts
    BY <1>0, <2>1 DEF Holds, Idle
  <2> QED
    BY <1>1, <2>1, <2>2, <2>3
<1>3. CASE SaveUser(t)
  <2>1. job[t].at = "update"
    BY <1>3 DEF SaveUser, At
  <2>2. PICK a \in Accounts : a = job[t].copy
    BY <1>0, <2>1 DEF Holds, Idle
  <2>3. PICK enabled \in BOOLEAN, pw \in {a.pw} \cup {h \in NewHashes : h = NewHash} :
          user' = [a EXCEPT !.active = enabled, !.pw = pw]
    BY <1>3, <2>2 DEF SaveUser
  <2>4. pw \in Hashes
    BY <2>2 DEF NewHashes, Accounts
  <2> QED
    BY <2>3, <2>4 DEF Accounts
<1>4. CASE user' = user
  BY <1>0, <1>4
<1> QED
  BY <1>2, <1>3, <1>4 DEF MovesOn, Sync, Stamp, Answer, DropOld, Logout, RevokeOne,
     RevokeOthers, List, RevokeRecord, DropSession, ChangePassword, PutOff, RecordLogin,
     Die, history

(* The steps that leave the records alone, and write no row.               *)
LEMMA PlainFits ==
  ASSUME IInv, Fits, NEW t \in Threads,
         \/ DropOld(t) \/ Logout(t) \/ RevokeOne(t) \/ RevokeOthers(t) \/ List(t)
         \/ DropSession(t) \/ ChangePassword(t) \/ SavePassword(t) \/ SaveUser(t) \/ Die(t)
  PROVE  Fits'
<1>1. MovesOn(t)
  BY DEF MovesOn
<1>2. PICK j : job' = [job EXCEPT ![t] = j] /\ Sound(j) /\ Follows(job[t], j)
  BY <1>1, MovesOnIs
<1>3. job[t] # Idle /\ user' \in Accounts /\ Jobs /\ Sound(job[t])
  BY <1>1, MovesOnIs, UserTyped, JobIs
<1>4. Holds(j)
  <2>1. Holds(job[t])
    BY JobIs
  <2> QED
    BY <1>2, <1>3, <2>1, FollowsHolds
<1>5. UNCHANGED <<rec, unsent, parked>>
  BY DEF DropOld, Logout, RevokeOne, RevokeOthers, List, DropSession, ChangePassword,
     SavePassword, SaveUser, Die, history
<1>6. store' = store \/ \E k \in Keys : store' = [store EXCEPT ![k] = None]
  <2>1. CASE DropOld(t) \/ DropSession(t)
    <3>1. store' = [store EXCEPT ![job[t].target] = None] /\ job[t].at \in {"cycle", "drop"}
      BY <2>1 DEF DropOld, DropSession, Without, At
    <3>2. job[t].target \in Keys
      BY <1>3, <3>1 DEF Sound
    <3> QED
      BY <3>1, <3>2
  <2>2. CASE store' = store
    BY <2>2
  <2> QED
    BY <2>1, <2>2 DEF Logout, RevokeOne, RevokeOthers, List, ChangePassword,
       SavePassword, SaveUser, Die, history
<1>7. JobFits(j, rec, parked)
  <2>1. job[t].at \notin {"sync", "stamp"} \/ j = Idle
    <3>1. CASE Die(t)
      <4>1. job'[t] = Idle /\ job'[t] = j
        BY <1>2, <1>3, <3>1 DEF Die, Finish, Jobs
      <4> QED
        BY <4>1
    <3>2. CASE ~Die(t)
      BY <3>2 DEF DropOld, Logout, RevokeOne, RevokeOthers, List, DropSession,
         ChangePassword, SavePassword, SaveUser, At
    <3> QED
      BY <3>1, <3>2
  <2>2. j.at \notin {"stamp", "view"}
    BY <1>2, <2>1 DEF Follows, Idle
  <2>3. JobFits(job[t], rec, parked)
    BY JobIs
  <2> QED
    BY <1>2, <2>2, <2>3, FollowsFits
<1> QED
  BY <1>2, <1>3, <1>4, <1>5, <1>6, <1>7, MoveFits

(* A step that moves on, with the record of its key changed, or its row.   *)
LEMMA ChangeFits ==
  ASSUME IInv, Fits, NEW t \in Threads, NEW j, job' = [job EXCEPT ![t] = j],
         Follows(job[t], j), JobFits(j, rec', parked'), UNCHANGED <<user, parked>>,
         MovesOn(t), Typed, Onward(rec, rec', parked, parked'),
         \A k \in Keys : RowKept(k)
  PROVE  Fits'
<1>1. user' \in Accounts /\ job[t] # Idle /\ Jobs /\ Holds(job[t])
  BY JobIs, MovesOnIs, UserTyped
<1>2. Holds(j)
  BY <1>1, FollowsHolds
<1> QED
  BY <1>1, <1>2, StepFits

(* The records get_or_create leaves: one more, or as they were.            *)
LEMMA SyncFits ==
  ASSUME IInv, Fits, NEW t \in Threads, Sync(t)
  PROVE  Fits'
<1> DEFINE k == job[t].key
           new == [revoked |-> FALSE, age |-> 0]
<1>0. /\ Jobs /\ Holds(job[t]) /\ Sound(job[t]) /\ JobFits(job[t], rec, parked)
      /\ job[t].at = "sync" /\ UNCHANGED <<user, unsent, parked>>
  BY JobIs DEF Sync, At, history
<1>1. k \in Keys /\ Served(job[t]) /\ job[t].data \in Blobs
  BY <1>0 DEF Holds, Served, Idle
<1>2. /\ store \in [Keys -> Blobs \cup {None}] /\ rec \in [Keys -> Records \cup {None}]
      /\ user \in Accounts
  BY DEF Fits, World
<1>3. PICK j : job' = [job EXCEPT ![t] = j] /\ Sound(j) /\ Follows(job[t], j)
  BY MovesOnIs DEF MovesOn
<1>4. job'[t] = j
  BY <1>0, <1>3 DEF Jobs
<1>5. CASE rec[k] # None /\ rec[k].revoked
  <2>1. store' = [store EXCEPT ![k] = None] /\ rec' = rec /\ Finish(t)
    BY <1>5 DEF Sync
  <2>2. job' = [job EXCEPT ![t] = Idle]
    BY <2>1 DEF Finish
  <2> QED
    BY <1>0, <1>1, <1>2, <2>1, <2>2, IdleFits, MoveFits
<1>6. CASE ~(rec[k] # None /\ rec[k].revoked)
  <2>0. /\ store' = store /\ Goto(t, "stamp")
        /\ rec' = [rec EXCEPT ![k] = IF @ = None THEN new ELSE @]
    BY <1>6 DEF Sync
  <2>1. j.at = "stamp"
    BY <1>0, <1>4, <2>0 DEF Goto, Jobs, Sound, Idle
  <2>2. new \in Records /\ new.age = 0
    BY Numbers DEF Records
  <2>3. rec' \in [Keys -> Records \cup {None}]
    BY <1>2, <2>0, <2>2
  <2>4. Onward(rec, rec', parked, parked')
    BY <1>0, <1>2, <2>0 DEF Onward
  <2>5. rec'[k] # None
    BY <1>1, <1>2, <2>0, <2>2, NotNone
  <2>6. Typed
    BY <1>0, <1>2, <2>0, <2>3 DEF Typed
  <2>7. JobFits(job[t], rec', parked')
    BY <1>0, <1>2, <2>3, <2>4, JobCalm
  <2>8. j.key = k /\ j.data = job[t].data
    BY <1>3, <2>1 DEF Follows, Idle
  <2>9. JobFits(j, rec', parked')
    BY <1>1, <2>1, <2>5, <2>7, <2>8 DEF JobFits
  <2>10. \A x \in Keys : RowKept(x)
    BY <1>0, <2>0 DEF RowKept
  <2>11. MovesOn(t)
    BY DEF MovesOn
  <2> QED
    BY <1>0, <1>3, <2>4, <2>6, <2>9, <2>10, <2>11, ChangeFits
<1> QED
  BY <1>5, <1>6

(* The ceiling counts from the record: below it, the credential is younger *)
(* than the ceiling and one idle timeout.                                  *)
LEMMA StampFits ==
  ASSUME IInv, Fits, NEW t \in Threads, Stamp(t)
  PROVE  Fits'
<1> DEFINE k == job[t].key
<1>0. /\ Jobs /\ Holds(job[t]) /\ Sound(job[t]) /\ JobFits(job[t], rec, parked)
      /\ job[t].at = "stamp" /\ UNCHANGED <<user, store, unsent, parked>>
  BY JobIs DEF Stamp, At, history
<1>1. k \in Keys /\ Served(job[t]) /\ job[t].data \in Blobs /\ rec[k] # None
  BY <1>0 DEF Holds, Served, JobFits, Idle
<1>2. /\ store \in [Keys -> Blobs \cup {None}] /\ rec \in [Keys -> Records \cup {None}]
      /\ user \in Accounts
  BY DEF Fits, World
<1>3. rec[k] \in Records
  BY <1>1, <1>2
<1>4. Stamped(rec[k]) \in Records /\ Stamped(rec[k]).age = rec[k].age
  BY <1>3 DEF Stamped, Records
<1>5. rec' = [rec EXCEPT ![k] = Stamped(rec[k])]
  BY <1>1, <1>2 DEF Stamp
<1>6. rec' \in [Keys -> Records \cup {None}]
  BY <1>2, <1>4, <1>5
<1>7. Onward(rec, rec', parked, parked')
  BY <1>0, <1>2, <1>4, <1>5, NotNone DEF Onward
<1>8. JobFits(job[t], rec', parked')
  BY <1>0, <1>2, <1>6, <1>7, JobCalm
<1>9. PICK j : job' = [job EXCEPT ![t] = j] /\ Sound(j) /\ Follows(job[t], j)
  BY MovesOnIs DEF MovesOn
<1>10. j.at = "view" => rec[k].age < MaxAge
  <2>1. job'[t] = j
    BY <1>0, <1>9 DEF Jobs
  <2>2. CASE rec[k].age >= MaxAge
    <3>1. job'[t] = Leaving(job[t])
      BY <1>0, <2>2 DEF Stamp, Jobs
    <3> QED
      BY <1>0, <2>1, <3>1 DEF Leaving, Sound, Idle
  <2>3. CASE ~(rec[k].age >= MaxAge)
    BY <1>3, <2>3, Numbers
  <2> QED
    BY <2>2, <2>3
<1>11. JobFits(j, rec', parked')
  <2>1. CASE j.at = "view"
    <3>1. j.key = k /\ j.data = job[t].data
      BY <1>9, <2>1 DEF Follows, Idle
    <3>2. k \in parked \/ job[t].data.age <= rec[k].age + CookieAge
      BY <1>0, <1>1 DEF JobFits, Within
    <3>3. job[t].data.age \in Nat /\ rec[k].age \in Nat
      BY <1>1, <1>3, Numbers
    <3>4. job[t].data.age < AgeLimit \/ k \in parked'
      BY <1>0, <1>10, <2>1, <3>2, <3>3, Numbers
    <3> QED
      BY <1>0, <1>1, <1>8, <2>1, <3>1, <3>4 DEF JobFits
  <2>2. CASE j.at # "view"
    <3>1. j.at \notin {"stamp", "view"}
      BY <1>0, <1>9, <2>2 DEF Follows, Idle
    <3> QED
      BY <1>8, <1>9, <3>1, FollowsFits
  <2> QED
    BY <2>1, <2>2
<1>12. Typed /\ \A x \in Keys : RowKept(x)
  BY <1>0, <1>2, <1>6 DEF Typed, RowKept
<1>13. MovesOn(t)
  BY DEF MovesOn
<1> QED
  BY <1>0, <1>7, <1>9, <1>11, <1>12, <1>13, ChangeFits

(* A revocation marks the record, which keeps its age.                     *)
LEMMA RevokeFits ==
  ASSUME IInv, Fits, NEW t \in Threads, RevokeRecord(t)
  PROVE  Fits'
<1>0. /\ Jobs /\ Sound(job[t]) /\ Holds(job[t]) /\ JobFits(job[t], rec, parked)
      /\ job[t].at = "revoke" /\ UNCHANGED <<user, store, unsent, parked>>
  BY JobIs DEF RevokeRecord, At, history
<1>1. /\ store \in [Keys -> Blobs \cup {None}] /\ rec \in [Keys -> Records \cup {None}]
      /\ user \in Accounts
  BY DEF Fits, World
<1>2. PICK k \in job[t].queue :
        rec' = [rec EXCEPT ![k] = IF @ = None THEN None ELSE [@ EXCEPT !.revoked = TRUE]]
  BY DEF RevokeRecord
<1>3. k \in Keys
  <2>1. job[t] # Idle /\ Sound(job[t])
    BY <1>0 DEF Idle
  <2> QED
    BY <2>1 DEF Sound
<1>4. \A x \in Records : [x EXCEPT !.revoked = TRUE] \in Records
                         /\ [x EXCEPT !.revoked = TRUE].age = x.age
  BY DEF Records
<1>5. rec' \in [Keys -> Records \cup {None}]
  BY <1>1, <1>2, <1>4
<1>6. \A x \in Keys : rec[x] # None => rec'[x] # None /\ rec'[x].age = rec[x].age
  <2> SUFFICES ASSUME NEW x \in Keys, rec[x] # None
               PROVE  rec'[x] # None /\ rec'[x].age = rec[x].age
    OBVIOUS
  <2>1. rec[x] \in Records
    BY <1>1
  <2>2. CASE x = k
    BY <1>1, <1>2, <1>4, <2>1, <2>2, NotNone
  <2>3. CASE x # k
    BY <1>1, <1>2, <2>3
  <2> QED
    BY <2>2, <2>3
<1>7. Onward(rec, rec', parked, parked')
  BY <1>0, <1>6 DEF Onward
<1>8. PICK j : job' = [job EXCEPT ![t] = j] /\ Sound(j) /\ Follows(job[t], j)
  BY MovesOnIs DEF MovesOn
<1>9. JobFits(job[t], rec', parked')
  BY <1>0, <1>1, <1>5, <1>7, JobCalm
<1>10. j.at \notin {"stamp", "view"}
  BY <1>0, <1>8 DEF Follows, Idle
<1>11. JobFits(j, rec', parked')
  BY <1>8, <1>9, <1>10, FollowsFits
<1>12. Typed /\ \A x \in Keys : RowKept(x)
  BY <1>0, <1>1, <1>5 DEF Typed, RowKept
<1>13. MovesOn(t)
  BY DEF MovesOn
<1> QED
  BY <1>0, <1>7, <1>8, <1>11, <1>12, <1>13, ChangeFits

(* The record of a login: there was none, since nobody else has the key.   *)
LEMMA RecordFits ==
  ASSUME IInv, Own, Fits, NEW t \in Threads, RecordLogin(t)
  PROVE  Fits'
<1> DEFINE new == [revoked |-> FALSE, age |-> 0]
<1>0. /\ Jobs /\ Sound(job[t]) /\ Holds(job[t]) /\ JobFits(job[t], rec, parked)
      /\ job[t].at = "record" /\ UNCHANGED <<user, store, unsent, parked>>
      /\ rec' = [rec EXCEPT ![job[t].key] = new]
  BY JobIs DEF RecordLogin, At, history
<1>1. /\ store \in [Keys -> Blobs \cup {None}] /\ rec \in [Keys -> Records \cup {None}]
      /\ user \in Accounts
  BY DEF Fits, World
<1>2. rec[job[t].key] = None
  BY <1>0 DEF Own, New
<1>3. new \in Records
  BY Numbers DEF Records
<1>4. rec' \in [Keys -> Records \cup {None}]
  BY <1>0, <1>1, <1>3
<1>5. Onward(rec, rec', parked, parked')
  BY <1>0, <1>1, <1>2 DEF Onward
<1>6. PICK j : job' = [job EXCEPT ![t] = j] /\ Sound(j) /\ Follows(job[t], j)
  BY MovesOnIs DEF MovesOn
<1>7. JobFits(job[t], rec', parked')
  BY <1>0, <1>1, <1>4, <1>5, JobCalm
<1>8. j.at \notin {"stamp", "view"}
  BY <1>0, <1>6 DEF Follows, Idle
<1>9. JobFits(j, rec', parked')
  BY <1>6, <1>7, <1>8, FollowsFits
<1>10. Typed /\ \A x \in Keys : RowKept(x)
  BY <1>0, <1>1, <1>4 DEF Typed, RowKept
<1>11. MovesOn(t)
  BY DEF MovesOn
<1> QED
  BY <1>0, <1>5, <1>6, <1>9, <1>10, <1>11, ChangeFits

(* The copy that is saved back is as old as the row.                       *)
LEMMA AnswerFits ==
  ASSUME IInv, Fits, NEW t \in Threads, Answer(t)
  PROVE  Fits'
<1> DEFINE k == job[t].key
<1>0. /\ Jobs /\ Holds(job[t]) /\ Sound(job[t]) /\ JobFits(job[t], rec, parked)
      /\ job[t].at \in {"view", "answer", "rehash"}
      /\ UNCHANGED <<user, rec, parked>> /\ unsent' = unsent \ {k}
  BY JobIs DEF Answer, history
<1>1. k \in Keys /\ Served(job[t]) /\ job[t].data \in Blobs
  BY <1>0 DEF Holds, Served, Idle
<1>2. /\ store \in [Keys -> Blobs \cup {None}] /\ rec \in [Keys -> Records \cup {None}]
      /\ user \in Accounts
  BY DEF Fits, World
<1>3. PICK b : b = [job[t].data EXCEPT !.idle = 0]
  OBVIOUS
<1>4. b \in Blobs /\ b.age = job[t].data.age /\ b.idle = 0
  BY <1>1, <1>3, Numbers DEF Blobs
<1>5. RowFits(k, b, rec, unsent', parked)
  <2>1. rec[k] # None \/ b.age = 0
    BY <1>0, <1>1, <1>4 DEF JobFits
  <2>2. k \in parked \/ Within(job[t].data, k, rec, CookieAge)
    BY <1>0, <1>1 DEF JobFits
  <2>3. k \in parked \/ Within(b, k, rec, b.idle)
    BY <1>4, <2>1, <2>2 DEF Within
  <2> QED
    BY <2>3 DEF RowFits
<1>6. store' = [store EXCEPT ![k] = IF @ = None THEN None ELSE b]
  BY <1>3 DEF Answer
<1>7. Typed
  BY <1>0, <1>2, <1>4, <1>6 DEF Typed
<1>8. \A x \in Keys : RowKept(x)
  BY <1>0, <1>2, <1>5, <1>6 DEF RowKept
<1>9. Onward(rec, rec', parked, parked')
  BY <1>0 DEF Onward
<1>10. job' = [job EXCEPT ![t] = Idle]
  BY DEF Answer, Finish
<1> QED
  BY <1>0, <1>7, <1>8, <1>9, <1>10, IdleFits, StepFits

(* A login that is put off is not let in yet.                              *)
LEMMA PutOffFits ==
  ASSUME IInv, Fits, NEW t \in Threads, PutOff(t)
  PROVE  Fits'
<1>0. /\ Jobs /\ Holds(job[t]) /\ job[t].at = "login" /\ UNCHANGED <<user, rec, parked>>
      /\ Fresh # {} /\ unsent' = unsent \ {NewKey}
      /\ store' = [store EXCEPT ![NewKey] = job[t].data]
      /\ job' = [job EXCEPT ![t] = Idle]
  BY JobIs DEF PutOff, At, Finish
<1>1. job[t].data \in Blobs /\ job[t].data.auth = None
  BY <1>0 DEF Holds, Idle
<1>2. PICK k \in Keys : k = NewKey
  BY <1>0, NewKeyIs
<1>3. Typed
  BY <1>0, <1>1 DEF Typed, Fits, World
<1>4. \A x \in Keys : RowKept(x)
  BY <1>0, <1>1, <1>2 DEF RowKept, RowFits, Fits, World
<1>5. Onward(rec, rec', parked, parked')
  BY <1>0 DEF Onward
<1> QED
  BY <1>0, <1>3, <1>4, <1>5, IdleFits, StepFits

(* The copy of a new session has a credential that was just given; its row *)
(* is in nobody's hands before that copy is saved.                         *)
LEMMA RelocatesFits ==
  ASSUME IInv, Fits, NEW t \in Threads, Relocates(t)
  PROVE  Fits'
<1>0. /\ Jobs /\ Holds(job[t]) /\ job[t] # Idle /\ Fresh # {}
      /\ UNCHANGED <<user, rec, parked>>
      /\ unsent' = unsent \cup {NewKey}
      /\ store' = [store EXCEPT ![NewKey] = job[t].data]
  BY JobIs, RelocatesIs
<1>1. PICK data, j :
        /\ job' = [job EXCEPT ![t] = j] /\ Sound(j) /\ Moves(job[t], j) /\ j.data = data
        /\ Rotate(t) => data = [job[t].data EXCEPT !.age = 0, !.idle = 0]
        /\ Rehash(t) => data = Blob(user.pw, job[t].copy.pw)
        /\ Login(t) => data = Blob(LoginHash(t), job[t].data.typed)
  BY RelocatesIs
<1>2. job[t].data \in Blobs /\ job[t].copy \in Accounts \cup {None}
  <2>1. job[t].at \in {"view", "rehash", "login"}
    BY DEF Relocates, Rotate, Rehash, Login, At
  <2> QED
    BY <1>0, <2>1 DEF Holds, Served
<1>3. data \in Blobs /\ data.age = 0 /\ data.auth \in Hashes
  <2>1. CASE Rotate(t)
    <3>1. PICK d \in Blobs : d = job[t].data
      BY <1>2
    <3>2. d.auth \in Hashes
      BY <1>0, <2>1, <3>1 DEF Holds, Rotate, At, Served
    <3>3. 0 \in 0 .. AgeLimit /\ 0 \in 0 .. CookieAge
      BY Numbers
    <3>4. data = [d EXCEPT !.age = 0, !.idle = 0]
      BY <1>1, <2>1, <3>1
    <3> QED
      BY <3>2, <3>3, <3>4 DEF Blobs
  <2>2. \A a, b \in Hashes : /\ Blob(a, b) \in Blobs /\ Blob(a, b).age = 0
                             /\ Blob(a, b).auth = a
    BY Numbers DEF Blob, Blobs
  <2>3. CASE Rehash(t)
    <3>1. job[t].then = "rehash"
      BY <1>0, <2>3 DEF Rehash, At, IInv, Jobs, Sound
    <3>2. job[t].copy \in Accounts
      BY <1>0, <3>1 DEF Holds
    <3>3. job[t].copy.pw \in Hashes
      BY <3>2 DEF Accounts
    <3> QED
      BY <1>1, <2>2, <2>3, <3>3 DEF Fits, World, Accounts
  <2>4. CASE Login(t)
    <3>1. job[t].copy.pw \in Hashes /\ job[t].data.typed \in Hashes
      BY <1>0, <1>2, <2>4 DEF Login, At, Holds, Accounts, Blobs
    <3> QED
      BY <1>1, <2>2, <2>4, <3>1 DEF LoginHash
  <2> QED
    BY <2>1, <2>3, <2>4 DEF Relocates
<1>4. PICK k \in Keys : k = NewKey
  BY <1>0, NewKeyIs
<1>5. j.key = k /\ j.at \in {"cycle", "record", "answer"} /\ j.then # "rehash"
      /\ j.copy = job[t].copy
  BY <1>1, <1>4 DEF Moves
<1>6. Holds(j)
  BY <1>1, <1>2, <1>3, <1>5 DEF Holds
<1>7. JobFits(j, rec', parked')
  <2>1. Within(data, k, rec', CookieAge)
    <3>1. rec[k] = None
      BY <1>0, <1>4, NewKeyIs
    <3> QED
      BY <1>0, <1>3, <3>1, Numbers DEF Within
  <2> QED
    BY <1>1, <1>3, <1>5, <2>1 DEF JobFits
<1>8. Typed
  BY <1>0, <1>2 DEF Typed, Fits, World
<1>9. \A x \in Keys : RowKept(x)
  BY <1>0, <1>4 DEF RowKept, RowFits, Fits, World
<1>10. Onward(rec, rec', parked, parked')
  BY <1>0 DEF Onward
<1> QED
  BY <1>0, <1>1, <1>6, <1>7, <1>8, <1>9, <1>10, StepFits

(* A request behind a disabled user, or before the second factor, only     *)
(* makes the session look used; then it is parked, or not logged in.       *)
LEMMA AnonymousFits ==
  ASSUME IInv, Fits, NEW k \in Keys, ArriveAnonymous(k)
  PROVE  Fits'
<1>1. PICK b \in Blobs : b = store[k]
  BY RowIs DEF ArriveAnonymous
<1>2. PICK b2 : b2 = IF user.active /\ b.auth # None THEN None
                     ELSE [b EXCEPT !.idle = 0]
  OBVIOUS
<1>3. store' = [store EXCEPT ![k] = b2] /\ UNCHANGED <<user, rec, job, unsent>>
  BY <1>1, <1>2 DEF ArriveAnonymous
<1>4. parked' = IF user.active THEN parked ELSE parked \cup {k}
  BY DEF ArriveAnonymous
<1>5. [b EXCEPT !.idle = 0] \in Blobs
  BY Numbers DEF Blobs
<1>6. Typed
  BY <1>2, <1>3, <1>5 DEF Fits, World, Typed
<1>7. Onward(rec, rec', parked, parked')
  BY <1>3, <1>4 DEF Onward
<1>8. RowFits(k, b2, rec', unsent', parked')
  <2>1. CASE b2 = None
    BY <2>1 DEF RowFits
  <2>2. CASE user.active /\ b2 # None
    <3>1. b.auth = None /\ b2 = [b EXCEPT !.idle = 0]
      BY <1>2, <2>2
    <3>2. b2.auth = None
      BY <3>1 DEF Blobs
    <3> QED
      BY <3>2 DEF RowFits
  <2>3. CASE ~user.active
    <3>1. k \in parked'
      BY <1>4, <2>3
    <3> QED
      BY <3>1 DEF RowFits
  <2> QED
    BY <2>1, <2>2, <2>3
<1>9. \A x \in Keys : RowKept(x)
  BY <1>3, <1>8 DEF Fits, World, RowKept
<1> QED
  BY <1>3, <1>6, <1>7, <1>9, CalmFits

(* Ages grow by one up to their bound.                                     *)
LEMMA OlderIs ==
  ASSUME NEW n \in Nat, NEW bound \in Nat, n <= bound
  PROVE  /\ Older(n, bound) \in Nat /\ Older(n, bound) <= bound
         /\ Older(n, bound) <= n + 1
         /\ n < bound => Older(n, bound) = n + 1
         /\ n >= bound => Older(n, bound) = bound
BY DEF Older

(* A tick ages a session that is still alive, and deletes the others.      *)
LEMMA AgedIs ==
  ASSUME NEW b \in Blobs
  PROVE  \/ Aged(b) = None
         \/ /\ Aged(b) \in Blobs /\ b.idle < CookieAge
            /\ Aged(b).auth = b.auth /\ Aged(b).typed = b.typed
            /\ Aged(b).idle = b.idle + 1 /\ Aged(b).age <= b.age + 1
<1>1. CASE b.idle = CookieAge
  BY <1>1 DEF Aged
<1>2. CASE b.idle # CookieAge
  <2>1. b # None /\ b.idle \in Nat /\ b.idle < CookieAge /\ b.age \in Nat /\ b.age <= AgeLimit
    BY <1>2, Numbers, NotNone
  <2>2. PICK a \in 0 .. AgeLimit : a = Older(b.age, AgeLimit) /\ a <= b.age + 1
    BY <2>1, OlderIs, Numbers
  <2>3. PICK i \in 0 .. CookieAge : i = b.idle + 1
    BY <2>1, Numbers
  <2>4. Aged(b) = [b EXCEPT !.age = a, !.idle = i]
    BY <1>2, <2>1, <2>2, <2>3 DEF Aged
  <2>5. PICK x : x = [b EXCEPT !.age = a, !.idle = i]
    OBVIOUS
  <2>6. /\ x \in Blobs /\ x.auth = b.auth /\ x.typed = b.typed
        /\ x.age = a /\ x.idle = i
    BY <2>5 DEF Blobs
  <2> QED
    BY <2>1, <2>2, <2>3, <2>4, <2>5, <2>6
<1> QED
  BY <1>1, <1>2

(* The record ages with the session, and stops at the ceiling, which the   *)
(* age of the session passes by one idle timeout at most.                  *)
LEMMA TickRow ==
  ASSUME NEW k \in Keys, NEW b \in Blobs, NEW p, NEW u,
         NEW r \in [Keys -> Records \cup {None}], NEW r2,
         RowFits(k, b, r, u, p),
         r2[k] = IF r[k] = None THEN None
                 ELSE [r[k] EXCEPT !.age = Older(@, MaxAge)]
  PROVE  RowFits(k, Aged(b), r2, u, p)
<1> SUFFICES ASSUME Aged(b) # None, Aged(b).auth # None, k \notin u
             PROVE  RowFits(k, Aged(b), r2, u, p)
  BY DEF RowFits
<1>1. PICK a : a = Aged(b)
  OBVIOUS
<1>2. /\ a \in Blobs /\ a.auth = b.auth
      /\ a.idle = b.idle + 1 /\ a.age <= b.age + 1
  BY <1>1, AgedIs
<1>3. b # None /\ b.auth # None
  BY <1>1, <1>2, NotNone
<1>5. k \in p \/ Within(a, k, r2, a.idle)
  <2>0. /\ a.age \in Nat /\ b.age \in Nat /\ b.idle \in Nat /\ a.idle \in Nat
        /\ a.age <= AgeLimit
    BY <1>2, Numbers
  <2>1. k \in p \/ Within(b, k, r, b.idle)
    BY <1>3 DEF RowFits
  <2>2. CASE r[k] = None
    BY <1>2, <2>0, <2>1, <2>2 DEF Within
  <2>3. CASE r[k] # None
    <3>1. PICK x \in Records : x = r[k]
      BY <2>3
    <3>2. x.age \in Nat /\ x.age <= MaxAge
      BY Numbers
    <3>3. PICK n \in Nat : n = Older(x.age, MaxAge)
      BY <3>2, OlderIs, Numbers
    <3>4. r2[k] = [x EXCEPT !.age = n]
      BY <2>3, <3>1, <3>3
    <3>5. [x EXCEPT !.age = n] \in Records /\ [x EXCEPT !.age = n].age = n
      <4>1. n \in 0 .. MaxAge
        BY <3>2, <3>3, OlderIs, Numbers
      <4> QED
        BY <4>1 DEF Records
    <3>6. r2[k] # None /\ r2[k].age = n
      BY <3>4, <3>5, NotNone
    <3>7. CASE x.age < MaxAge
      <4>1. n = x.age + 1
        BY <3>2, <3>3, <3>7, OlderIs, Numbers
      <4>2. k \in p \/ b.age <= x.age + CookieAge
        BY <2>1, <2>3, <3>1 DEF Within
      <4> QED
        BY <1>2, <2>0, <3>2, <3>6, <4>1, <4>2, Numbers DEF Within
    <3>8. CASE ~(x.age < MaxAge)
      <4>1. n = MaxAge
        BY <3>2, <3>3, <3>8, OlderIs, Numbers
      <4> QED
        BY <2>0, <3>6, <4>1, Numbers DEF Within
    <3> QED
      BY <3>7, <3>8
  <2> QED
    BY <2>2, <2>3
<1> QED
  BY <1>1, <1>5 DEF RowFits

(* Time passes between requests.                                           *)
LEMMA TickFits ==
  ASSUME IInv, Fits, Tick
  PROVE  Fits'
<1>0. /\ store \in [Keys -> Blobs \cup {None}]
      /\ rec \in [Keys -> Records \cup {None}]
      /\ UNCHANGED <<user, job, unsent, parked>>
  BY DEF Fits, World, Tick, history
<1>1. /\ store' = [k \in Keys |-> Aged(store[k])]
      /\ rec' = [k \in Keys |-> IF rec[k] = None THEN None
                                ELSE [rec[k] EXCEPT !.age = Older(@, MaxAge)]]
  BY DEF Tick
<1>2. store' \in [Keys -> Blobs \cup {None}]
  <2>1. \A k \in Keys : Aged(store[k]) \in Blobs \cup {None}
    <3> SUFFICES ASSUME NEW k \in Keys PROVE Aged(store[k]) \in Blobs \cup {None}
      OBVIOUS
    <3>1. CASE store[k] = None
      BY <3>1 DEF Aged
    <3>2. CASE store[k] \in Blobs
      BY <3>2, AgedIs
    <3> QED
      BY <1>0, <3>1, <3>2
  <2> QED
    BY <1>1, <2>1
<1>3. rec' \in [Keys -> Records \cup {None}]
  <2>1. \A x \in Records : [x EXCEPT !.age = Older(@, MaxAge)] \in Records
    <3> SUFFICES ASSUME NEW x \in Records
                 PROVE  [x EXCEPT !.age = Older(@, MaxAge)] \in Records
      OBVIOUS
    <3>1. PICK n \in 0 .. MaxAge : n = Older(x.age, MaxAge)
      BY OlderIs, Numbers
    <3> QED
      BY <3>1 DEF Records
  <2> QED
    BY <1>0, <1>1, <2>1
<1>4. AllRows'
  <2> SUFFICES ASSUME NEW k \in Keys
               PROVE  RowFits(k, store'[k], rec', unsent', parked')
    BY DEF AllRows
  <2>1. RowFits(k, store[k], rec, unsent, parked)
    BY DEF Fits, AllRows
  <2>2. CASE store[k] = None
    BY <1>1, <2>2 DEF Aged, RowFits
  <2>3. CASE store[k] \in Blobs
    <3>1. PICK r2 : r2 = rec'
      OBVIOUS
    <3>2. r2[k] = IF rec[k] = None THEN None
                  ELSE [rec[k] EXCEPT !.age = Older(@, MaxAge)]
      BY <1>1, <3>1
    <3>3. RowFits(k, Aged(store[k]), r2, unsent, parked)
      BY <1>0, <2>1, <2>3, <3>2, TickRow
    <3> QED
      BY <1>0, <1>1, <3>1, <3>3
  <2> QED
    BY <1>0, <2>2, <2>3
<1>5. AllJobs'
  <2> SUFFICES ASSUME NEW t \in Threads
               PROVE  Holds(job'[t]) /\ JobFits(job'[t], rec', parked')
    BY DEF AllJobs
  <2>1. job'[t] = Idle
    BY <1>0 DEF Tick
  <2> QED
    BY <2>1, IdleFits
<1> QED
  BY <1>0, <1>2, <1>3, <1>4, <1>5 DEF Fits, World

(* The columns of the second factor are not looked at.                      *)
LEMMA SwitchFits ==
  ASSUME IInv, Fits, SwitchFactor
  PROVE  Fits'
<1>1. user' \in Accounts
  BY DEF SwitchFactor, Fits, World, Accounts
<1>2. UNCHANGED <<store, rec, job, unsent, parked>>
  BY DEF SwitchFactor, history
<1> QED
  BY <1>1, <1>2 DEF Fits, World, AllJobs, AllRows

(* Every initial state fits.                                               *)
LEMMA InitFits == Init => Fits
<1> SUFFICES ASSUME Init PROVE Fits
  OBVIOUS
<1>0. /\ 0 \in Hashes /\ Blob(0, 0) \in Blobs
      /\ [revoked |-> FALSE, age |-> 0] \in Records
  BY LoginFlowAssumption, Numbers DEF Hashes, Blob, Blobs, Records
<1>1. PICK in \in SUBSET Keys :
        /\ store = [k \in Keys |-> IF k \in in THEN Blob(0, 0) ELSE None]
        /\ rec = [k \in Keys |-> IF k \in in THEN [revoked |-> FALSE, age |-> 0]
                                 ELSE None]
  BY DEF Init
<1>2. World
  BY <1>0, <1>1 DEF Init, World
<1>3. AllJobs
  BY IdleFits DEF Init, AllJobs
<1>4. AllRows
  <2> SUFFICES ASSUME NEW k \in Keys PROVE RowFits(k, store[k], rec, unsent, parked)
    BY DEF AllRows
  <2>1. CASE k \in in
    <3>1. PICK b : b = Blob(0, 0)
      OBVIOUS
    <3>2. b.age = 0 /\ b.idle = 0
      BY <3>1 DEF Blob
    <3>3. store[k] = b /\ rec[k] # None /\ rec[k].age = 0
      BY <1>0, <1>1, <2>1, <3>1, NotNone
    <3>4. Within(b, k, rec, b.idle)
      BY <3>2, <3>3, Numbers DEF Within
    <3> QED
      BY <3>3, <3>4 DEF RowFits
  <2>2. CASE k \notin in
    BY <1>1, <2>2 DEF RowFits
  <2> QED
    BY <2>1, <2>2
<1> QED
  BY <1>2, <1>3, <1>4 DEF Fits

(* Every step keeps the third invariant.                                   *)
LEMMA FitsNext == IInv /\ Own /\ Fits /\ [Next]_vars => Fits'
<1> SUFFICES ASSUME IInv, Own, Fits, [Next]_vars PROVE Fits'
  OBVIOUS
<1>1. CASE \E t \in Threads : Start(t)
  BY <1>1, StartFits
<1>2. CASE \E t \in Threads : MovesOn(t)
  BY <1>2, SyncFits, StampFits, AnswerFits, RevokeFits, RecordFits, PutOffFits, PlainFits
     DEF MovesOn
<1>3. CASE \E t \in Threads : Relocates(t)
  BY <1>3, RelocatesFits
<1>4. CASE \E k \in Keys : ArriveAnonymous(k)
  BY <1>4, AnonymousFits
<1>5. CASE Tick
  BY <1>5, TickFits
<1>6. CASE SwitchFactor
  BY <1>6, SwitchFits
<1>7. CASE UNCHANGED vars
  BY <1>7 DEF vars, Fits, World, AllJobs, AllRows
<1> QED
  BY <1>1, <1>2, <1>3, <1>4, <1>5, <1>6, <1>7, ContinueIs DEF Next

LEMMA FitsAlways == Spec => []Fits
<1>1. IInv /\ Own /\ Fits /\ [Next]_vars => Fits'
  BY FitsNext
<1> QED
  BY <1>1, InitFits, EndedHasNoSession, OwnAlways, PTL DEF Spec

(* Nobody is served longer than the ceiling and one idle timeout after the *)
(* last password or code, for any ceiling, timeout and number of sessions: *)
(* the record a session is measured by (sync_request_session,              *)
(* services/session.py) is opened at most one idle timeout after the       *)
(* credential, since a session that is not used for longer is gone, and no *)
(* step replaces it.                                                       *)
THEOREM CeilingAlwaysHolds == Spec => []CeilingHolds
<1>1. IInv /\ Fits => CeilingHolds
  <2> SUFFICES ASSUME IInv, Fits, NEW t \in Threads, At(t, "view")
               PROVE  job[t].data.age < AgeLimit \/ job[t].key \in parked
    BY DEF CeilingHolds
  <2> QED
    BY JobIs DEF At, JobFits, Served
<1> QED
  BY <1>1, FitsAlways, EndedHasNoSession, PTL

-----------------------------------------------------------------------------
(* The fourth invariant: who knows what.                                   *)

(* Whoever is let in typed the password behind the hash it was let in      *)
(* with, unless it was overtaken on the way.                               *)
Knows(b, k, c) == b.typed = b.auth \/ k \in c

JobHonest(t, j, pw, o, c) ==
  j # Idle =>
    /\ Served(j) => Knows(j.data, j.key, c)
    /\ j.at = "login" => j.data.typed = j.copy.pw \/ (j.key # None /\ t \in o)
    /\ j.at = "login" /\ j.key = None => j.data.typed = pw \/ t \in o
    /\ j.then = "rehash" /\ j.at # "save" => j.copy.pw = pw \/ t \in o

RowHonest(k, b, pw, u, o, c) ==
  b # None /\ k \notin u =>
    IF b.auth = None THEN b.typed = pw \/ k \in o ELSE Knows(b, k, c)

Honest ==
  /\ \A t \in Threads : JobHonest(t, job[t], user.pw, overtaken, crossed)
  /\ \A k \in Keys : RowHonest(k, store[k], user.pw, unsent, overtaken, crossed)

(* What a step of one request leaves of the others: they stay overtaken,   *)
(* and are when the password changes behind their back.                    *)
OthersKept(t) ==
  \A s \in Threads \ {t} :
    /\ s \in overtaken => s \in overtaken'
    /\ user'.pw # user.pw /\ TypedBefore(s) => s \in overtaken'

RowStays(k) ==
  \/ store'[k] = None
  \/ /\ store'[k] = store[k]
     /\ k \in unsent => k \in unsent'
     /\ k \in overtaken => k \in overtaken'
     /\ user'.pw # user.pw /\ Pending(k) => k \in overtaken'
  \/ RowHonest(k, store'[k], user'.pw, unsent', overtaken', crossed')

LEMMA HonestKept ==
  ASSUME Jobs, Honest, NEW t \in Threads, NEW j, job' = [job EXCEPT ![t] = j],
         JobHonest(t, j, user'.pw, overtaken', crossed'),
         crossed \subseteq crossed', OthersKept(t), \A k \in Keys : RowStays(k)
  PROVE  Honest'
<1>1. \A s \in Threads : job'[s] = IF s = t THEN j ELSE job[s]
  BY DEF Jobs
<1>2. ASSUME NEW s \in Threads
      PROVE  JobHonest(s, job'[s], user'.pw, overtaken', crossed')
  <2>1. CASE s = t
    BY <1>1, <2>1
  <2>2. CASE s # t
    <3>1. PICK i : i = job[s] /\ job'[s] = i
      BY <1>1, <2>2
    <3>2. JobHonest(s, i, user.pw, overtaken, crossed)
      BY <3>1 DEF Honest
    <3>3. s \in overtaken => s \in overtaken'
      BY <2>2 DEF OthersKept
    <3>4. user'.pw # user.pw /\ i # Idle /\ (i.then = "rehash" \/ (i.at = "login" /\ i.key = None))
            => s \in overtaken'
      BY <2>2, <3>1 DEF OthersKept, TypedBefore
    <3>5. JobHonest(s, i, user'.pw, overtaken', crossed')
      BY <3>2, <3>3, <3>4 DEF JobHonest, Knows
    <3> QED
      BY <3>1, <3>5
  <2> QED
    BY <2>1, <2>2
<1>3. ASSUME NEW k \in Keys
      PROVE  RowHonest(k, store'[k], user'.pw, unsent', overtaken', crossed')
  <2>1. CASE store'[k] = None
    BY <2>1 DEF RowHonest
  <2>2. CASE /\ store'[k] = store[k]
             /\ k \in unsent => k \in unsent'
             /\ k \in overtaken => k \in overtaken'
             /\ user'.pw # user.pw /\ Pending(k) => k \in overtaken'
    <3>1. PICK b : b = store[k] /\ store'[k] = b
      BY <2>2
    <3>2. RowHonest(k, b, user.pw, unsent, overtaken, crossed)
      BY <3>1 DEF Honest
    <3>3. user'.pw # user.pw /\ b # None /\ b.auth = None => k \in overtaken'
      BY <2>2, <3>1 DEF Pending, Has
    <3>4. RowHonest(k, b, user'.pw, unsent', overtaken', crossed')
      BY <2>2, <3>2, <3>3 DEF RowHonest, Knows
    <3> QED
      BY <3>1, <3>4
  <2> QED
    BY <1>3, <2>1, <2>2 DEF RowStays
<1> QED
  BY <1>2, <1>3 DEF Honest

(* A request that is over has nothing to be honest about.                  *)
LEMMA IdleHonest == \A t, pw, o, c : JobHonest(t, Idle, pw, o, c)
BY DEF JobHonest

(* Keys are not threads.                                                   *)
LEMMA Apart == \A k \in Keys, t \in Threads : k # t
BY LoginFlowAssumption

LEMMA StartHonest ==
  ASSUME IInv, Fits, Honest, NEW t \in Threads, Start(t)
  PROVE  Honest'
<1>0. PICK j : /\ Begin(t, j) /\ Sound(j) /\ Starts(j)
               /\ IF j.at # "login" THEN overtaken' = overtaken
                  ELSE IF j.key # None /\ j.key \in overtaken
                       THEN overtaken' = overtaken \cup {t}
                       ELSE overtaken' = overtaken \ {t}
  BY StartIs
<1>1. UNCHANGED <<user, store, rec, unsent, crossed>>
  BY StartIs
<1>2. job' = [job EXCEPT ![t] = j] /\ Jobs
  BY <1>0 DEF Begin, IInv
<1>3. \A x : x # t /\ x \in overtaken => x \in overtaken'
  BY <1>0
<1>4. OthersKept(t)
  BY <1>1, <1>3 DEF OthersKept
<1>5. \A k \in Keys : RowStays(k)
  BY <1>1, <1>3, Apart DEF RowStays
<1>6. user.pw \in Hashes
  BY DEF Fits, World, Accounts
<1>7. JobHonest(t, j, user'.pw, overtaken', crossed')
  <2>1. CASE j.at = "sync"
    <3>1. PICK k \in Keys : k = j.key
      BY <1>0, <2>1 DEF Starts
    <3>2. Has(k) /\ k \notin unsent /\ j.data = store[k] /\ j.data.auth = user.pw
      BY <1>0, <2>1, <3>1 DEF Starts
    <3>3. RowHonest(k, store[k], user.pw, unsent, overtaken, crossed)
      BY DEF Honest
    <3>4. Knows(j.data, k, crossed)
      BY <1>6, <3>2, <3>3, NotNone DEF RowHonest, Has
    <3>5. j.then # "rehash"
      BY <1>0 DEF Starts
    <3> QED
      BY <1>1, <2>1, <3>1, <3>4, <3>5 DEF JobHonest
  <2>2. CASE j.at \in {"revoke", "save", "update"}
    <3>1. j.then = "gone"
      BY <1>0, <2>2 DEF Starts
    <3> QED
      BY <2>2, <3>1 DEF JobHonest, Served
  <2>3. CASE j.at = "login" /\ j.key = None
    <3>1. j.copy = user /\ j.then # "rehash"
      BY <1>0, <2>3 DEF Starts
    <3>2. j.data = Blob(None, user.pw)
      BY <1>0, <2>3, NotNone DEF Starts
    <3>3. j.data.typed = user.pw
      BY <3>2 DEF Blob
    <3> QED
      BY <1>1, <2>3, <3>1, <3>3 DEF JobHonest, Served
  <2>4. CASE j.at = "login" /\ j.key # None
    <3>1. PICK k \in Keys : k = j.key
      BY <1>0, <2>4 DEF Starts
    <3>2. /\ j.copy = user /\ j.then # "rehash"
          /\ Pending(k) /\ k \notin unsent /\ j.data = store[k]
      BY <1>0, <2>4, <3>1 DEF Starts, PendingUser
    <3>3. RowHonest(k, store[k], user.pw, unsent, overtaken, crossed)
      BY DEF Honest
    <3>4. j.data.typed = user.pw \/ k \in overtaken
      BY <3>2, <3>3 DEF RowHonest, Pending, Has
    <3>5. k \in overtaken => t \in overtaken'
      BY <1>0, <2>4, <3>1
    <3> QED
      BY <2>4, <3>2, <3>4, <3>5 DEF JobHonest, Served
  <2> QED
    BY <1>0, <2>1, <2>2, <2>3, <2>4 DEF Starts
<1> QED
  BY <1>1, <1>2, <1>4, <1>5, <1>7, HonestKept

(* A request that goes on knows what it knew; a change of its own, the     *)
(* password it has written.                                                *)
LEMMA FollowsHonest ==
  ASSUME NEW t, NEW j, NEW j2, j # Idle, JobHonest(t, j, user.pw, overtaken, crossed),
         Follows(j, j2), Sound(j),
         t \in overtaken => t \in overtaken' \/ j.at = "save",
         user'.pw = user.pw \/ j.at = "save", UNCHANGED crossed
  PROVE  JobHonest(t, j2, user'.pw, overtaken', crossed')
<1> SUFFICES ASSUME j2 # Idle PROVE JobHonest(t, j2, user'.pw, overtaken', crossed')
  BY IdleHonest
<1>1. Served(j2) => Knows(j2.data, j2.key, crossed')
  BY DEF Follows, JobHonest, Knows
<1>2. j2.at # "login"
  BY DEF Follows
<1>3. j2.then = "rehash" /\ j2.at # "save" => j2.copy.pw = user'.pw \/ t \in overtaken'
  <2> SUFFICES ASSUME j2.then = "rehash", j2.at # "save"
               PROVE  j2.copy.pw = user'.pw \/ t \in overtaken'
    OBVIOUS
  <2>1. CASE j.at = "save"
    <3>1. j2.copy = user'
      BY <2>1 DEF Follows
    <3> QED
      BY <3>1
  <2>2. CASE j.at # "save"
    <3>1. j2.copy = j.copy /\ j.then = "rehash"
      BY <2>2 DEF Follows
    <3> QED
      BY <2>2, <3>1 DEF JobHonest
  <2> QED
    BY <2>1, <2>2
<1> QED
  BY <1>1, <1>2, <1>3 DEF JobHonest

(* The steps that neither write the password nor a row.                    *)
LEMMA PlainHonest ==
  ASSUME IInv, Honest, NEW t \in Threads, MovesOn(t),
         UNCHANGED <<user, unsent, overtaken>>,
         \A k \in Keys : store'[k] \in {store[k], None}
  PROVE  Honest'
<1>1. PICK j : job' = [job EXCEPT ![t] = j] /\ Follows(job[t], j)
  BY MovesOnIs
<1>2. job[t] # Idle /\ Jobs /\ Sound(job[t])
  BY MovesOnIs DEF IInv, Jobs
<1>3. UNCHANGED crossed
  BY DEF MovesOn, Sync, Stamp, Answer, DropOld, Logout, RevokeOne, RevokeOthers, List,
     RevokeRecord, DropSession, ChangePassword, SavePassword, SaveUser, PutOff,
     RecordLogin, Die, history
<1>4. JobHonest(t, job[t], user.pw, overtaken, crossed)
  BY DEF Honest
<1>5. JobHonest(t, j, user'.pw, overtaken', crossed')
  BY <1>1, <1>2, <1>3, <1>4, FollowsHonest
<1>6. OthersKept(t) /\ \A k \in Keys : RowStays(k)
  BY DEF OthersKept, RowStays
<1> QED
  BY <1>1, <1>2, <1>3, <1>5, <1>6, HonestKept

(* Whoever writes the password overtakes the others.                       *)
LEMMA OvertakingIs ==
  ASSUME NEW t \in Threads, overtaken' = Overtaking(t)
  PROVE  /\ OthersKept(t)
         /\ \A k \in Keys : k \in overtaken \/ Pending(k) => k \in overtaken'
BY Apart DEF Overtaking, OthersKept

LEMMA WriteHonest ==
  ASSUME IInv, Honest, NEW t \in Threads, SavePassword(t) \/ SaveUser(t)
  PROVE  Honest'
<1>1. PICK j : job' = [job EXCEPT ![t] = j] /\ Follows(job[t], j)
  BY MovesOnIs DEF MovesOn
<1>2. job[t] # Idle /\ Jobs /\ Sound(job[t])
  BY MovesOnIs DEF MovesOn, IInv, Jobs
<1>3. UNCHANGED <<store, unsent, crossed>>
  BY DEF SavePassword, SaveUser
<1>4. \/ overtaken' = Overtaking(t)
      \/ overtaken' = overtaken /\ user'.pw = user.pw
  BY DEF SavePassword, SaveUser
<1>5. OthersKept(t) /\ \A k \in Keys : RowStays(k)
  <2>1. CASE overtaken' = Overtaking(t)
    BY <1>3, <2>1, OvertakingIs DEF RowStays
  <2>2. CASE overtaken' = overtaken /\ user'.pw = user.pw
    BY <1>3, <2>2 DEF RowStays, OthersKept
  <2> QED
    BY <1>4, <2>1, <2>2
<1>6. JobHonest(t, j, user'.pw, overtaken', crossed')
  <2>1. CASE SavePassword(t)
    <3>1. job[t].at = "save"
      BY <2>1 DEF SavePassword, At
    <3>2. JobHonest(t, job[t], user.pw, overtaken, crossed)
      BY DEF Honest
    <3> QED
      BY <1>1, <1>2, <1>3, <3>1, <3>2, FollowsHonest
  <2>2. CASE SaveUser(t)
    <3>1. j = Idle
      <4>1. job'[t] = Idle /\ job'[t] = j
        BY <1>1, <1>2, <2>2 DEF SaveUser, Finish, Jobs
      <4> QED
        BY <4>1
    <3> QED
      BY <3>1, IdleHonest
  <2> QED
    BY <2>1, <2>2
<1> QED
  BY <1>1, <1>2, <1>3, <1>5, <1>6, HonestKept

(* The copy that is saved back knows as much as the request.               *)
LEMMA AnswerHonest ==
  ASSUME IInv, Fits, Honest, NEW t \in Threads, Answer(t)
  PROVE  Honest'
<1> DEFINE k == job[t].key
<1>0. /\ Jobs /\ Holds(job[t]) /\ job[t].at \in {"view", "answer", "rehash"}
      /\ UNCHANGED <<user, overtaken, crossed>> /\ unsent' = unsent \ {k}
      /\ job' = [job EXCEPT ![t] = Idle]
  BY JobIs DEF Answer, history, Finish
<1>1. /\ k \in Keys /\ Served(job[t]) /\ job[t].data \in Blobs /\ job[t].data.auth # None
      /\ job[t] # Idle
  BY <1>0, NotNone DEF Holds, Served, Idle
<1>2. PICK b : b = [job[t].data EXCEPT !.idle = 0]
  OBVIOUS
<1>3. b.auth = job[t].data.auth /\ b.typed = job[t].data.typed
  BY <1>1, <1>2 DEF Blobs
<1>4. Knows(job[t].data, k, crossed)
  BY <1>1 DEF Honest, JobHonest
<1>5. RowHonest(k, b, user'.pw, unsent', overtaken', crossed')
  BY <1>0, <1>1, <1>3, <1>4 DEF RowHonest, Knows
<1>6. store' = [store EXCEPT ![k] = IF @ = None THEN None ELSE b]
  BY <1>2 DEF Answer
<1>7. \A x \in Keys : RowStays(x)
  BY <1>0, <1>5, <1>6 DEF RowStays, Fits, World
<1>8. OthersKept(t)
  BY <1>0 DEF OthersKept
<1> QED
  BY <1>0, <1>7, <1>8, IdleHonest, HonestKept

(* A login that is put off is overtaken when its thread was.               *)
LEMMA PutOffHonest ==
  ASSUME IInv, Fits, Honest, NEW t \in Threads, PutOff(t)
  PROVE  Honest'
<1>0. /\ Jobs /\ Holds(job[t]) /\ job[t].at = "login" /\ job[t].key = None
      /\ UNCHANGED <<user, crossed>> /\ unsent' = unsent \ {NewKey} /\ Fresh # {}
      /\ store' = [store EXCEPT ![NewKey] = job[t].data]
      /\ job' = [job EXCEPT ![t] = Idle]
  BY JobIs DEF PutOff, At, Finish
<1>1. PICK k \in Keys : k = NewKey
  BY <1>0, NewKeyIs
<1>2. job[t] # Idle /\ job[t].data.auth = None
  BY <1>0 DEF Holds, Idle
<1>3. job[t].data.typed = user.pw \/ t \in overtaken
  BY <1>0, <1>2 DEF Honest, JobHonest
<1>4. /\ t \in overtaken => k \in overtaken'
      /\ \A x : x # k /\ x \in overtaken => x \in overtaken'
  BY <1>1 DEF PutOff
<1>5. RowHonest(k, job[t].data, user'.pw, unsent', overtaken', crossed')
  BY <1>0, <1>2, <1>3, <1>4 DEF RowHonest
<1>6. \A x \in Keys : RowStays(x)
  BY <1>0, <1>1, <1>4, <1>5 DEF RowStays, Fits, World
<1>7. OthersKept(t)
  BY <1>0, <1>4, Apart DEF OthersKept
<1> QED
  BY <1>0, <1>6, <1>7, IdleHonest, HonestKept

(* A new key is crossed when its holder was overtaken.                     *)
LEMMA RelocatesHonest ==
  ASSUME IInv, Fits, Honest, NEW t \in Threads, Relocates(t)
  PROVE  Honest'
<1>0. /\ Jobs /\ Sound(job[t]) /\ Holds(job[t]) /\ job[t] # Idle /\ Fresh # {}
      /\ UNCHANGED <<user, overtaken>>
      /\ unsent' = unsent \cup {NewKey}
      /\ store' = [store EXCEPT ![NewKey] = job[t].data]
      /\ JobHonest(t, job[t], user.pw, overtaken, crossed)
  BY JobIs, RelocatesIs DEF Honest
<1>1. PICK data, j :
        /\ job' = [job EXCEPT ![t] = j] /\ Moves(job[t], j) /\ j.data = data
        /\ Rotate(t) => data = [job[t].data EXCEPT !.age = 0, !.idle = 0]
        /\ Rehash(t) => data = Blob(user.pw, job[t].copy.pw)
        /\ Login(t) => data = Blob(LoginHash(t), job[t].data.typed)
  BY RelocatesIs
<1>2. PICK k \in Keys : k = NewKey
  BY <1>0, NewKeyIs
<1>3. crossed \subseteq crossed'
  BY DEF Relocates, Rotate, Rehash, Login
<1>4. Knows(data, k, crossed')
  <2>1. CASE Rotate(t)
    <3>1. Knows(job[t].data, job[t].key, crossed) /\ job[t].data \in Blobs
      BY <1>0, <2>1 DEF Rotate, At, JobHonest, Holds, Served
    <3>2. data.auth = job[t].data.auth /\ data.typed = job[t].data.typed
      BY <1>1, <2>1, <3>1 DEF Blobs
    <3>3. job[t].key \in crossed => k \in crossed'
      BY <1>2, <2>1 DEF Rotate
    <3> QED
      BY <3>1, <3>2, <3>3 DEF Knows
  <2>2. \A a, b : Blob(a, b).auth = a /\ Blob(a, b).typed = b
    BY DEF Blob
  <2>3. CASE Rehash(t)
    <3>1. job[t].then = "rehash" /\ job[t].at # "save"
      BY <1>0, <2>3 DEF Rehash, At, Sound
    <3>2. job[t].copy.pw = user.pw \/ t \in overtaken
      BY <1>0, <3>1 DEF JobHonest
    <3>3. t \in overtaken => k \in crossed'
      BY <1>2, <2>3 DEF Rehash
    <3> QED
      BY <1>1, <2>2, <2>3, <3>2, <3>3 DEF Knows
  <2>4. CASE Login(t)
    <3>1. job[t].data.typed = job[t].copy.pw \/ (job[t].key # None /\ t \in overtaken)
      BY <1>0, <2>4 DEF Login, At, JobHonest
    <3>2. job[t].key # None /\ t \in overtaken => k \in crossed'
      BY <1>2, <2>4 DEF Login
    <3> QED
      BY <1>1, <2>2, <2>4, <3>1, <3>2 DEF Knows, LoginHash
  <2> QED
    BY <2>1, <2>3, <2>4 DEF Relocates
<1>5. /\ j.key = k /\ j.at \in {"cycle", "record", "answer"} /\ j.then # "rehash"
  BY <1>1, <1>2 DEF Moves
<1>6. JobHonest(t, j, user'.pw, overtaken', crossed')
  BY <1>1, <1>4, <1>5 DEF JobHonest
<1>7. \A x \in Keys : RowStays(x)
  <2>1. k \in unsent'
    BY <1>0, <1>2
  <2>2. RowHonest(k, job[t].data, user'.pw, unsent', overtaken', crossed')
    BY <2>1 DEF RowHonest
  <2> QED
    BY <1>0, <1>2, <2>2 DEF RowStays, Fits, World
<1>8. OthersKept(t)
  BY <1>0 DEF OthersKept
<1> QED
  BY <1>0, <1>1, <1>3, <1>6, <1>7, <1>8, HonestKept


(* A request behind a disabled user, or before the second factor, leaves   *)
(* what its session is for as it was.                                      *)
LEMMA AnonymousHonest ==
  ASSUME Fits, Honest, NEW k \in Keys, ArriveAnonymous(k)
  PROVE  Honest'
<1>1. PICK b \in Blobs : b = store[k]
  BY RowIs DEF ArriveAnonymous
<1>2. PICK b2 : b2 = IF user.active /\ b.auth # None THEN None
                     ELSE [b EXCEPT !.idle = 0]
  OBVIOUS
<1>3. /\ store' = [store EXCEPT ![k] = b2]
      /\ UNCHANGED <<user, job, unsent, overtaken, crossed>>
  BY <1>1, <1>2 DEF ArriveAnonymous
<1>4. b2 = None \/ (b2.auth = b.auth /\ b2.typed = b.typed)
  BY <1>2 DEF Blobs
<1>5. b # None /\ RowHonest(k, b, user.pw, unsent, overtaken, crossed)
  BY <1>1, NotNone DEF Honest
<1>6. RowHonest(k, b2, user.pw, unsent, overtaken, crossed)
  BY <1>4, <1>5 DEF RowHonest, Knows
<1>7. \A x \in Keys : RowHonest(x, store'[x], user.pw, unsent, overtaken, crossed)
  BY <1>3, <1>6 DEF Honest, Fits, World
<1> QED
  BY <1>3, <1>7 DEF Honest

LEMMA TickHonest ==
  ASSUME Fits, Honest, Tick
  PROVE  Honest'
<1>1. UNCHANGED <<user, job, unsent, overtaken, crossed>>
  BY DEF Tick, history
<1>2. ASSUME NEW k \in Keys
      PROVE  RowHonest(k, store'[k], user.pw, unsent, overtaken, crossed)
  <2> PICK b, b2 : b = store[k] /\ b2 = Aged(b)
    OBVIOUS
  <2>1. b \in Blobs \cup {None} /\ b = store[k] /\ b2 = Aged(b) /\ b2 = store'[k]
    BY DEF Fits, World, Tick
  <2>2. CASE b = None
    BY <2>1, <2>2 DEF Aged, RowHonest
  <2>3. CASE b # None
    <3>1. b2 = None \/ (b2.auth = b.auth /\ b2.typed = b.typed)
      BY <2>1, <2>3, AgedIs
    <3>2. RowHonest(k, b, user.pw, unsent, overtaken, crossed)
      BY <2>1 DEF Honest
    <3> QED
      BY <2>1, <2>3, <3>1, <3>2 DEF RowHonest, Knows
  <2> QED
    BY <2>2, <2>3
<1> QED
  BY <1>1, <1>2 DEF Honest

LEMMA SwitchHonest ==
  ASSUME Fits, Honest, SwitchFactor
  PROVE  Honest'
<1>1. user'.pw = user.pw /\ UNCHANGED <<store, job, unsent, overtaken, crossed>>
  BY DEF SwitchFactor, history, Fits, World, Accounts
<1> QED
  BY <1>1 DEF Honest

LEMMA InitHonest == Init => Honest
<1> SUFFICES ASSUME Init PROVE Honest
  OBVIOUS
<1>1. \A t \in Threads : JobHonest(t, job[t], user.pw, overtaken, crossed)
  BY IdleHonest DEF Init
<1>2. ASSUME NEW k \in Keys
      PROVE  RowHonest(k, store[k], user.pw, unsent, overtaken, crossed)
  <2>1. PICK b : b = Blob(0, 0)
    OBVIOUS
  <2>2. b.auth = 0 /\ b.typed = 0 /\ user.pw = 0 /\ 0 # None
    BY <2>1, LoginFlowAssumption DEF Blob, Init, Hashes
  <2>3. store[k] \in {b, None}
    BY <2>1 DEF Init
  <2> QED
    BY <2>2, <2>3 DEF RowHonest, Knows
<1> QED
  BY <1>1, <1>2 DEF Honest

(* Every step keeps the fourth invariant.                                  *)
LEMMA HonestNext == IInv /\ Fits /\ Honest /\ [Next]_vars => Honest'
<1> SUFFICES ASSUME IInv, Fits, Honest, [Next]_vars PROVE Honest'
  OBVIOUS
<1>1. CASE \E t \in Threads : Start(t)
  BY <1>1, StartHonest
<1>2. ASSUME NEW t \in Threads, MovesOn(t) PROVE Honest'
  <2>1. CASE \/ Sync(t) \/ Stamp(t) \/ DropOld(t) \/ Logout(t) \/ RevokeOne(t)
             \/ RevokeOthers(t) \/ List(t) \/ RevokeRecord(t) \/ DropSession(t)
             \/ ChangePassword(t) \/ RecordLogin(t) \/ Die(t)
    <3>1. UNCHANGED <<user, unsent, overtaken>>
      BY <2>1 DEF Sync, Stamp, DropOld, Logout, RevokeOne, RevokeOthers, List,
         RevokeRecord, DropSession, ChangePassword, RecordLogin, Die, history
    <3>2. store' = store \/ \E k : store' = [store EXCEPT ![k] = None]
      BY <2>1 DEF Sync, Stamp, DropOld, Logout, RevokeOne, RevokeOthers, List,
         RevokeRecord, DropSession, Without, ChangePassword, RecordLogin, Die
    <3>3. \A k \in Keys : store'[k] \in {store[k], None}
      BY <3>2 DEF Fits, World
    <3> QED
      BY <1>2, <3>1, <3>3, PlainHonest
  <2> QED
    BY <1>2, <2>1, WriteHonest, AnswerHonest, PutOffHonest DEF MovesOn
<1>3. CASE \E t \in Threads : Relocates(t)
  BY <1>3, RelocatesHonest
<1>4. CASE \E k \in Keys : ArriveAnonymous(k)
  BY <1>4, AnonymousHonest
<1>5. CASE Tick
  BY <1>5, TickHonest
<1>6. CASE SwitchFactor
  BY <1>6, SwitchHonest
<1>7. CASE UNCHANGED vars
  BY <1>7 DEF vars, Honest
<1> QED
  BY <1>1, <1>2, <1>3, <1>4, <1>5, <1>6, <1>7, ContinueIs DEF Next

LEMMA HonestAlways == Spec => []Honest
<1>1. IInv /\ Fits /\ Honest /\ [Next]_vars => Honest'
  BY HonestNext
<1> QED
  BY <1>1, InitHonest, EndedHasNoSession, FitsAlways, PTL DEF Spec

(* Whoever is served typed the password that is stored now, for any number *)
(* of sessions, requests and password changes, with a whole-row save       *)
(* (update_user_account, services/user.py) that brings back an old hash    *)
(* among them, unless it was overtaken: by a write behind a pending second *)
(* factor (verify_mfa_view) or before the last read of an own change       *)
(* (update_session_auth_hash).                                             *)
THEOREM ServedAlwaysKnowsPassword == Spec => []Honest /\ ServedKnowsPassword
<1> DEFINE A == \A t \in Threads :
                  At(t, "idle") /\ job'[t].at = "sync" =>
                    \/ job'[t].data.typed = user.pw
                    \/ job'[t].key \in crossed
<1>1. ASSUME IInv, Fits, Honest, [Next]_vars, NEW t \in Threads,
             At(t, "idle"), job'[t].at = "sync"
      PROVE  job'[t].data.typed = user.pw \/ job'[t].key \in crossed
  <2>0. Jobs
    BY <1>1 DEF IInv
  <2>1. ASSUME NEW s \in Threads, NEW j, job' = [job EXCEPT ![s] = j],
               j.at # "sync"
        PROVE  FALSE
    <3>1. job'[t] = j \/ job'[t] = job[t]
      BY <2>0, <2>1 DEF Jobs
    <3> QED
      BY <1>1, <2>1, <3>1 DEF At
  <2>2. ~\E s \in Threads : MovesOn(s)
    <3> SUFFICES ASSUME NEW s \in Threads, MovesOn(s) PROVE FALSE
      OBVIOUS
    <3>1. PICK j : job' = [job EXCEPT ![s] = j] /\ Follows(job[s], j)
      BY <1>1, MovesOnIs
    <3>2. j.at # "sync"
      BY <3>1 DEF Follows, Idle
    <3> QED
      BY <2>1, <3>1, <3>2
  <2>3. ~\E s \in Threads : Relocates(s)
    <3> SUFFICES ASSUME NEW s \in Threads, Relocates(s) PROVE FALSE
      OBVIOUS
    <3>1. PICK j : job' = [job EXCEPT ![s] = j] /\ Moves(job[s], j)
      BY <1>1, RelocatesIs
    <3>2. j.at # "sync"
      BY <3>1 DEF Moves
    <3> QED
      BY <2>1, <3>1, <3>2
  <2>4. job' # job
    BY <1>1 DEF At
  <2>5. PICK s \in Threads : Start(s)
    BY <1>1, <2>2, <2>3, <2>4, ContinueIs DEF Next, ArriveAnonymous, Tick, SwitchFactor, vars
  <2>6. PICK j : Begin(s, j) /\ Starts(j)
    BY <1>1, <2>5, StartIs
  <2>7. job' = [job EXCEPT ![s] = j]
    BY <2>6 DEF Begin
  <2>8. j.at = "sync" /\ job'[t] = j
    <3>1. j.at = "sync"
      BY <2>1, <2>7
    <3>2. job'[t] = j \/ job'[t] = job[t]
      BY <2>0, <2>7 DEF Jobs
    <3> QED
      BY <1>1, <3>1, <3>2 DEF At
  <2>9. PICK k \in Keys : k = j.key
    BY <2>6, <2>8 DEF Starts
  <2>10. Has(k) /\ k \notin unsent /\ j.data = store[k] /\ j.data.auth = user.pw
    BY <2>6, <2>8, <2>9 DEF Starts
  <2>11. RowHonest(k, store[k], user.pw, unsent, overtaken, crossed)
    BY <1>1 DEF Honest
  <2>12. user.pw # None
    BY <1>1, NotNone DEF Fits, World, Accounts
  <2>13. Knows(j.data, k, crossed)
    BY <2>10, <2>11, <2>12 DEF RowHonest, Has
  <2> QED
    BY <2>8, <2>9, <2>10, <2>13 DEF Knows
<1>2. IInv /\ Fits /\ Honest /\ [Next]_vars => [A]_vars
  BY <1>1
<1>3. [A]_vars => [\A t \in Threads :
                     At(t, "idle") /\ job'[t].at = "sync" =>
                       \/ job'[t].data.typed = user.pw
                       \/ job'[t].key \in crossed]_vars
  OBVIOUS
<1> HIDE DEF A
<1> QED
  BY <1>2, <1>3, HonestAlways, FitsAlways, EndedHasNoSession, PTL
     DEF Spec, ServedKnowsPassword

-----------------------------------------------------------------------------
(* The counters and the histories: handlers are counted down, and only     *)
(* keys and threads are remembered.                                        *)
Counted ==
  /\ left \in 0 .. MaxHandlers
  /\ ended \subseteq Keys /\ crossed \subseteq Keys /\ parked \subseteq Keys
  /\ unsent \subseteq Keys /\ overtaken \subseteq Keys \cup Threads

LEMMA CountedInit == Init => Counted
BY LoginFlowAssumption DEF Init, Counted

(* A step remembers one more key at most.                                  *)
LEMMA CountedNext == IInv /\ Fits /\ Counted /\ [Next]_vars => Counted'
<1> SUFFICES ASSUME IInv, Fits, Counted, [Next]_vars PROVE Counted'
  OBVIOUS
<1>1. left' = left \/ (left > 0 /\ left' = left - 1)
  BY DEF Next, SwitchFactor, Start, Arrive, AdminRevoke, ResetPassword, AdminUpdate,
         TypePassword, TypeCode, Begin, vars
<1>2. left' \in 0 .. MaxHandlers
  BY <1>1, LoginFlowAssumption DEF Counted
<1>3. ended' \subseteq Keys
  BY NextInv DEF IInv, Ended
<1>4. /\ crossed' \subseteq Keys /\ parked' \subseteq Keys
      /\ unsent' \subseteq Keys /\ overtaken' \subseteq Keys \cup Threads
  <2>1. CASE \E t \in Threads : Start(t)
    <3>1. PICK t \in Threads : Start(t)
      BY <2>1
    <3>2. UNCHANGED <<unsent, crossed, parked>>
      BY <3>1, StartIs
    <3>3. overtaken' \in {overtaken, overtaken \cup {t}, overtaken \ {t}}
      BY <3>1, StartIs
    <3> QED
      BY <3>2, <3>3 DEF Counted
  <2>2. CASE \E t \in Threads : Relocates(t)
    <3>1. PICK t \in Threads : Relocates(t)
      BY <2>2
    <3>2. /\ NewKey \in Keys /\ unsent' = unsent \cup {NewKey}
          /\ UNCHANGED <<overtaken, parked>>
      BY <3>1, RelocatesIs, NewKeyIs
    <3>3. crossed' \in {crossed, crossed \cup {NewKey}}
      BY <3>1 DEF Relocates, Rotate, Rehash, Login
    <3> QED
      BY <3>2, <3>3 DEF Counted
  <2>3. CASE \E t \in Threads : MovesOn(t)
    <3>1. PICK t \in Threads : MovesOn(t)
      BY <2>3
    <3>2. UNCHANGED <<crossed, parked>> /\ unsent' \subseteq unsent
      BY <3>1 DEF MovesOn, Sync, Stamp, Answer, DropOld, Logout, RevokeOne, RevokeOthers,
         List, RevokeRecord, DropSession, ChangePassword, SavePassword, SaveUser, PutOff,
         RecordLogin, Die, history
    <3>3. \/ overtaken' = overtaken \/ overtaken' = Overtaking(t)
          \/ Fresh # {} /\ overtaken' \in {overtaken \cup {NewKey}, overtaken \ {NewKey}}
      BY <3>1 DEF MovesOn, Sync, Stamp, Answer, DropOld, Logout, RevokeOne, RevokeOthers,
         List, RevokeRecord, DropSession, ChangePassword, SavePassword, SaveUser, PutOff,
         RecordLogin, Die, history
    <3>4. Overtaking(t) \subseteq Keys \cup Threads
      BY DEF Overtaking, Counted
    <3>5. Fresh # {} => NewKey \in Keys
      BY NewKeyIs
    <3> QED
      BY <3>2, <3>3, <3>4, <3>5 DEF Counted
  <2>4. CASE \E k \in Keys : ArriveAnonymous(k)
    <3>1. PICK k \in Keys : ArriveAnonymous(k)
      BY <2>4
    <3>2. UNCHANGED <<unsent, crossed, overtaken>> /\ parked' \in {parked, parked \cup {k}}
      BY <3>1 DEF ArriveAnonymous
    <3> QED
      BY <3>2 DEF Counted
  <2>5. CASE Tick \/ SwitchFactor \/ UNCHANGED vars
    BY <2>5 DEF Tick, SwitchFactor, vars, history, Counted
  <2> QED
    BY <2>1, <2>2, <2>3, <2>4, <2>5, ContinueIs DEF Next
<1> QED
  BY <1>2, <1>3, <1>4 DEF Counted

(* Every state has its type: the rows, the records, and what each request  *)
(* carries at each point of its handler.                                   *)
THEOREM LoginFlowTyped == Spec => []TypeOK
<1>1. IInv /\ Fits /\ Counted => TypeOK
  <2> SUFFICES ASSUME IInv, Fits, Counted PROVE TypeOK
    OBVIOUS
  <2>1. ASSUME NEW t \in Threads, job[t] # Idle
        PROVE  /\ job[t].at \in Points
               /\ {job[t].key, job[t].target} \subseteq Keys \cup {None}
               /\ job[t].data \in Blobs \cup {None}
               /\ job[t].copy \in Accounts \cup {None}
               /\ job[t].queue \subseteq Keys
               /\ job[t].then \in {"rehash", "record", "answer", "gone"}
               /\ job[t].late \in BOOLEAN
    <3>1. Sound(job[t]) /\ Holds(job[t])
      BY JobIs
    <3> QED
      BY <2>1, <3>1 DEF Sound, Holds
  <2> QED
    BY <2>1 DEF TypeOK, Counted, Fits, World
<1> QED
  BY <1>1, CountedInit, CountedNext, FitsAlways, EndedHasNoSession, PTL DEF Spec
=============================================================================
