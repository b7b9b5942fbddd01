--------------------------- MODULE Avatars_proofs ---------------------------
(***************************************************************************)
(* Three promises of the pictures, for any number of requests and files:   *)
(* the name in the row is that of a file that is there; no file that was   *)
(* let in unscanned goes without a line in the audit trail; and the files  *)
(* nothing names are at most as many as the accidents and the uploads that *)
(* are under way.                                                          *)
(***************************************************************************)
EXTENDS Avatars, FiniteSetTheorems, TLAPS

Jobs == [at : Points, old : Files \cup {None}, new : Files \cup {None},
         failed : BOOLEAN]
Formed(j) == j = Idle \/ j \in Jobs

(* The file of an upload is its own until the row names it.                *)
Apart(t) ==
  At(t, "save") =>
    /\ job[t].new \in stored /\ job[t].new # avatar
    /\ \A s \in Threads : job[s] # Idle =>
         job[s].old # job[t].new /\ (s # t => job[s].new # job[t].new)

(* The file an upload is about to drop is no longer the one of the row.    *)
Replaced(t) ==
  At(t, "drop") => avatar # job[t].old \/ avatar = None \/ dangling

Typed ==
  /\ avatar \in Files \cup {None}
  /\ stored \subseteq Files
  /\ ~exists => avatar = None
  /\ job = [t \in Threads |-> job[t]]
  /\ \A t \in Threads : Formed(job[t])

IInv ==
  /\ Typed
  /\ \A t \in Threads : Apart(t) /\ Replaced(t)
  /\ PictureIsThere

(* What the property says, without the status codes.                       *)
There ==
  avatar # None =>
    \/ avatar \in stored
    \/ dangling
    \/ \E t \in Threads : At(t, "clear") /\ job[t].old = avatar

(* A picture that is there answers 200 to its owner.                       *)
LEMMA PictureIsThereMeans == (PictureIsThere <=> There) /\ (PictureIsThere <=> There)'
BY DEF PictureIsThere, There, Media

(* Every initial state satisfies the invariant.                            *)
LEMMA InitInv == Init => IInv
<1> SUFFICES ASSUME Init PROVE IInv
  OBVIOUS
<1>1. Typed
  BY DEF Init, Typed, Formed
<1>2. \A t \in Threads : Apart(t) /\ Replaced(t)
  BY DEF Init, Apart, Replaced, At, Idle
<1>3. There
  BY DEF Init, There
<1> QED
  BY <1>1, <1>2, <1>3, PictureIsThereMeans DEF IInv

(* A job at some point is one that has begun.                              *)
LEMMA Working ==
  ASSUME Typed, NEW t \in Threads, job[t].at \in Points
  PROVE  job[t] \in Jobs /\ job[t] # Idle
BY DEF Typed, Formed, Idle, Points

(* A request that arrives takes the name in the row for its old file.      *)
LEMMA BeginKeeps ==
  ASSUME IInv, NEW t \in Threads, NEW p \in {"scan", "unlink", "whole"}, Begin(t, p)
  PROVE  IInv'
<1> DEFINE j == [at |-> p, old |-> avatar, new |-> None, failed |-> FALSE]
<1>1. job' = [job EXCEPT ![t] = j] /\ job[t] = Idle
        /\ UNCHANGED <<exists, avatar, stored, dangling>>
  BY DEF Begin, row, history
<1>2. Typed'
  BY <1>1 DEF IInv, Typed, Formed, Jobs, Points
<1>3. ASSUME NEW s \in Threads PROVE Apart(s)' /\ Replaced(s)'
  BY <1>1, AvatarsAssumption DEF IInv, Typed, Apart, Replaced, At, Idle
<1>4. There'
  BY <1>1, PictureIsThereMeans DEF IInv, Typed, There, At, Idle
<1> QED
  BY <1>2, <1>3, <1>4, PictureIsThereMeans DEF IInv

(* Moving on, with nothing but the point and the outcome of the scan.      *)
LEMMA MoveKeeps ==
  ASSUME IInv, NEW t \in Threads, NEW p \in {"note", "store"}, NEW b \in BOOLEAN,
         job[t].at \in {"scan", "note"},
         job' = [job EXCEPT ![t] = [job[t] EXCEPT !.at = p, !.failed = b]],
         UNCHANGED <<exists, avatar, stored, dangling>>
  PROVE  IInv'
<1>0. job[t] \in Jobs /\ job[t] # Idle
  BY Working DEF IInv, Points
<1>1. Typed'
  BY <1>0 DEF IInv, Typed, Formed, Jobs, Points
<1>2. ASSUME NEW s \in Threads PROVE Apart(s)' /\ Replaced(s)'
  BY <1>0 DEF IInv, Typed, Apart, Replaced, At, Idle, Jobs
<1>3. There'
  BY <1>0, PictureIsThereMeans DEF IInv, Typed, There, At, Idle, Jobs
<1> QED
  BY <1>1, <1>2, <1>3, PictureIsThereMeans DEF IInv

(* A request that ends, and what it may take with it.                      *)
LEMMA FinishKeeps ==
  ASSUME IInv, NEW t \in Threads, Finish(t), UNCHANGED <<exists, avatar>>,
         stored' = stored \/ (At(t, "drop") /\ stored' = stored \ {job[t].old}),
         dangling => dangling',
         At(t, "clear") => dangling' \/ avatar = None
  PROVE  IInv'
<1>1. Typed'
  BY DEF IInv, Typed, Formed, Finish
<1>2. ASSUME NEW s \in Threads PROVE Apart(s)' /\ Replaced(s)'
  BY DEF IInv, Typed, Apart, Replaced, At, Idle, Finish
<1>3. There'
  BY PictureIsThereMeans DEF IInv, Typed, There, At, Idle, Finish, Replaced
<1> QED
  BY <1>1, <1>2, <1>3, PictureIsThereMeans DEF IInv

-----------------------------------------------------------------------------
(* The steps that write.                                                   *)

(* Store writes a file whose name nobody has.                              *)
LEMMA StoreKeeps ==
  ASSUME IInv, NEW t \in Threads, Store(t) PROVE IInv'
<1>0. job[t] \in Jobs /\ job[t] # Idle
  BY Working DEF IInv, Points, Store, At
<1>1. PICK f \in Fresh :
        /\ stored' = stored \cup {f}
        /\ job' = [job EXCEPT ![t].at = "save", ![t].new = f]
  BY DEF Store
<1>2. /\ f \in Files /\ f \notin stored /\ f # avatar
      /\ \A s \in Threads : job[s] # Idle => job[s].old # f /\ job[s].new # f
  BY <1>1 DEF Fresh, Known
<1>3. job'[t] = [job[t] EXCEPT !.at = "save", !.new = f]
        /\ \A s \in Threads : s # t => job'[s] = job[s]
  BY <1>1 DEF IInv, Typed
<1>4. UNCHANGED <<exists, avatar, dangling>>
  BY DEF Store, row
<1>5. Typed'
  BY <1>0, <1>1, <1>2, <1>3, <1>4 DEF IInv, Typed, Formed, Jobs, Points
<1>6. Apart(t)' /\ Replaced(t)'
  <2>1. job'[t].at = "save" /\ job'[t].new = f /\ job'[t].old = job[t].old
    BY <1>0, <1>3 DEF Jobs
  <2>2. f \in stored' /\ f # avatar'
    BY <1>1, <1>2, <1>4
  <2>3. \A s \in Threads : job'[s] # Idle =>
          job'[s].old # f /\ (s # t => job'[s].new # f)
    <3>1. job'[t].old # f
      BY <1>0, <1>2, <2>1
    <3>2. \A s \in Threads \ {t} : job'[s] # Idle => job'[s].old # f /\ job'[s].new # f
      BY <1>2, <1>3
    <3> QED
      BY <3>1, <3>2
  <2>4. Apart(t)'
    BY <2>1, <2>2, <2>3 DEF Apart
  <2>5. Replaced(t)'
    BY <2>1 DEF Replaced, At
  <2> QED
    BY <2>4, <2>5
<1>7. ASSUME NEW s \in Threads, s # t PROVE Apart(s)' /\ Replaced(s)'
  <2>1. job'[s] = job[s] /\ Apart(s) /\ Replaced(s)
    BY <1>3, <1>7 DEF IInv
  <2>2. At(s, "save") => job[s] # Idle
    BY DEF At, Idle
  <2>3. job'[t].old = job[t].old /\ job'[t].new = f
    BY <1>0, <1>3 DEF Jobs
  <2>4. Apart(s)'
    <3> SUFFICES ASSUME At(s, "save")'
                 PROVE  /\ job[s].new \in stored' /\ job[s].new # avatar'
                        /\ \A r \in Threads : job'[r] # Idle =>
                             /\ job'[r].old # job[s].new
                             /\ r # s => job'[r].new # job[s].new
      BY <2>1 DEF Apart
    <3>1. At(s, "save") /\ job[s].new # f
      BY <1>2, <2>1, <2>2 DEF At
    <3>2. /\ job[s].new \in stored /\ job[s].new # avatar
          /\ \A r \in Threads : job[r] # Idle =>
               job[r].old # job[s].new /\ (r # s => job[r].new # job[s].new)
      BY <2>1, <3>1 DEF Apart
    <3>3. ASSUME NEW r \in Threads, job'[r] # Idle
          PROVE  job'[r].old # job[s].new /\ (r # s => job'[r].new # job[s].new)
      <4>1. CASE r = t
        BY <1>0, <2>3, <3>1, <3>2, <4>1
      <4>2. CASE r # t
        BY <1>3, <3>2, <3>3, <4>2
      <4> QED BY <4>1, <4>2
    <3> QED
      BY <1>1, <1>4, <3>2, <3>3
  <2> QED
    BY <1>4, <2>1, <2>4 DEF Replaced, At
<1>8. There'
  <2>1. There /\ At(t, "store")
    BY PictureIsThereMeans DEF IInv, Store
  <2>2. \A s \in Threads : At(s, "clear") => job'[s] = job[s]
    BY <1>3, <2>1 DEF At
  <2> QED
    BY <1>1, <1>4, <2>1, <2>2 DEF There, At
<1> QED
  BY <1>5, <1>6, <1>7, <1>8, PictureIsThereMeans DEF IInv

(* SaveRow names a file that is there and that is nobody else's.           *)
LEMMA SaveRowKeeps ==
  ASSUME IInv, NEW t \in Threads, SaveRow(t) PROVE IInv'
<1>0. job[t] \in Jobs /\ job[t] # Idle /\ Apart(t)
  BY Working DEF IInv, Points, SaveRow, At
<1>1. CASE ~exists
  BY <1>1, FinishKeeps DEF SaveRow, At
<1>2. CASE exists
  <2>1. /\ avatar' = job[t].new /\ UNCHANGED <<exists, stored, dangling>>
        /\ job'[t] = [job[t] EXCEPT !.at = "drop"]
        /\ \A s \in Threads : s # t => job'[s] = job[s]
    BY <1>2 DEF SaveRow, Goto, IInv, Typed
  <2>2. /\ job[t].new \in stored
        /\ \A s \in Threads : job[s] # Idle =>
             job[s].old # job[t].new /\ (s # t => job[s].new # job[t].new)
    BY <1>0 DEF Apart, SaveRow
  <2>3. Typed'
    BY <1>0, <1>2, <2>1, <2>2 DEF SaveRow, Goto, IInv, Typed, Formed, Jobs, Points
  <2>4. Apart(t)' /\ Replaced(t)'
    BY <1>0, <2>1, <2>2 DEF Apart, Replaced, At, Jobs
  <2>5. ASSUME NEW s \in Threads, s # t PROVE Apart(s)' /\ Replaced(s)'
    <3>1. job'[s] = job[s] /\ Apart(s)
      BY <2>1, <2>5 DEF IInv
    <3>2. At(s, "save") \/ At(s, "drop") => job[s] # Idle
      BY DEF At, Idle
    <3>3. job'[t].old = job[t].old /\ job'[t].new = job[t].new
      BY <1>0, <2>1 DEF Jobs
    <3>4. \A r \in Threads : job'[r] # Idle => job[r] # Idle
            /\ job'[r].old = job[r].old /\ job'[r].new = job[r].new
      BY <1>0, <2>1, <3>3
    <3>5. Apart(s)'
      BY <1>0, <2>1, <2>2, <2>5, <3>1, <3>2, <3>4 DEF Apart, At
    <3>6. Replaced(s)'
      BY <2>1, <2>2, <2>5, <3>1, <3>2 DEF Replaced, At
    <3> QED
      BY <3>5, <3>6
  <2>6. There'
    BY <2>1, <2>2 DEF There
  <2> QED
    BY <2>3, <2>4, <2>5, <2>6, PictureIsThereMeans DEF IInv
<1> QED
  BY <1>1, <1>2 DEF IInv, Typed

(* Unlink takes a file nobody is uploading.                                *)
LEMMA UnlinkKeeps ==
  ASSUME IInv, NEW t \in Threads, Unlink(t) PROVE IInv'
<1>0. job[t] \in Jobs /\ job[t] # Idle
  BY Working DEF IInv, Points, Unlink, At
<1>1. /\ UNCHANGED <<exists, avatar, dangling>> /\ stored' = stored \ {job[t].old}
      /\ job' = [job EXCEPT ![t].at = "clear"]
  BY DEF Unlink, Goto, row, history
<1>2. job'[t] = [job[t] EXCEPT !.at = "clear"]
        /\ \A s \in Threads : s # t => job'[s] = job[s]
  BY <1>1 DEF IInv, Typed
<1>3. Typed'
  BY <1>0, <1>1, <1>2 DEF IInv, Typed, Formed, Jobs, Points
<1>4. \A s \in Threads : job'[s].old = job[s].old /\ job'[s].new = job[s].new
        /\ (s # t => job'[s].at = job[s].at)
  BY <1>0, <1>2 DEF Jobs
<1>5. ASSUME NEW s \in Threads PROVE Apart(s)' /\ Replaced(s)'
  <2>1. Apart(s) /\ Replaced(s)
    BY DEF IInv
  <2>2. CASE s = t
    BY <1>0, <1>2, <2>2 DEF Apart, Replaced, At, Jobs
  <2>3. CASE s # t
    <3>1. \A r \in Threads : job'[r] # Idle => job[r] # Idle
      BY <1>0, <1>2
    <3> QED
      BY <1>0, <1>1, <1>4, <2>1, <2>3, <3>1 DEF Apart, Replaced, At
  <2> QED
    BY <2>2, <2>3
<1>6. There'
  <2>1. At(t, "clear")' /\ job'[t].old = job[t].old
    BY <1>0, <1>2 DEF At, Jobs
  <2>2. There
    BY PictureIsThereMeans DEF IInv
  <2>3. \A s \in Threads : At(s, "clear") => At(s, "clear")'
    BY <1>4, <2>1 DEF At
  <2> QED
    BY <1>1, <1>4, <2>1, <2>2, <2>3 DEF There
<1> QED
  BY <1>3, <1>5, <1>6, PictureIsThereMeans DEF IInv

(* The file of an upload that is not in the row is in nobody else's hands. *)
LEMMA Uploading ==
  ASSUME IInv, NEW s \in Threads, At(s, "save")
  PROVE  /\ job[s].new \notin {avatar, None}
         /\ \A t \in Threads : job[t] # Idle => job[s].new # job[t].old
<1>1. Apart(s) /\ stored \subseteq Files
  BY DEF IInv, Typed
<1> QED
  BY <1>1, AvatarsAssumption DEF Apart

(* The other writes of the row put nothing new in it.                      *)
LEMMA RowKeeps ==
  ASSUME IInv, NEW t \in Threads, Finish(t) \/ job' = job, UNCHANGED stored,
         dangling => dangling',
         avatar' \in {avatar, None} \/ (dangling' /\ avatar' \in Files),
         \A s \in Threads : At(s, "save") => job[s].new # avatar',
         ~exists' => avatar' = None,
         At(t, "clear") /\ Finish(t) => avatar' = None
  PROVE  IInv'
<1>1. Typed'
  BY DEF IInv, Typed, Formed, Finish
<1>2. \A s \in Threads : job'[s] = Idle \/ job'[s] = job[s]
  BY DEF IInv, Typed, Finish
<1>3. ASSUME NEW s \in Threads PROVE Apart(s)' /\ Replaced(s)'
  <2>1. CASE job'[s] = Idle
    BY <2>1 DEF Apart, Replaced, At, Idle
  <2>2. CASE job'[s] = job[s]
    <3>1. Apart(s) /\ Replaced(s)
      BY DEF IInv
    <3>2. Apart(s)'
      BY <1>2, <2>2, <3>1 DEF Apart, At
    <3>3. Replaced(s)'
      BY <2>2, <3>1 DEF Replaced, At
    <3> QED
      BY <3>2, <3>3
  <2> QED
    BY <1>2, <2>1, <2>2
<1>4. There'
  <2>1. There
    BY PictureIsThereMeans DEF IInv
  <2>2. avatar' # None => \A s \in Threads : At(s, "clear") => job'[s] = job[s]
    BY DEF IInv, Typed, Finish, At
  <2> QED
    BY <2>1, <2>2 DEF There, At
<1> QED
  BY <1>1, <1>3, <1>4, PictureIsThereMeans DEF IInv

(* Every step of a request that is under way keeps the invariant.          *)
LEMMA ContinueKeeps ==
  ASSUME IInv, NEW t \in Threads, Continue(t) PROVE IInv'
<1>1. CASE Scan(t)
  <2>1. job[t] \in Jobs
    BY <1>1, Working DEF IInv, Scan, At, Points
  <2>2. CASE Finish(t)
    BY <1>1, <2>2, FinishKeeps DEF Scan, At, row, history
  <2>3. CASE ~Finish(t)
    <3>1. PICK p \in {"note", "store"}, b \in BOOLEAN :
            job' = [job EXCEPT ![t] = [job[t] EXCEPT !.at = p, !.failed = b]]
      <4>1. Goto(t, "store") =>
              job' = [job EXCEPT ![t] = [job[t] EXCEPT !.at = "store",
                                                       !.failed = job[t].failed]]
        BY <2>1 DEF Goto, Jobs, IInv, Typed
      <4>2. job[t].failed \in BOOLEAN
        BY <2>1 DEF Jobs
      <4> QED
        BY <1>1, <2>3, <4>1, <4>2 DEF Scan, IInv, Typed
    <3> QED
      BY <1>1, <3>1, MoveKeeps DEF Scan, At, row, history
  <2> QED
    BY <2>2, <2>3
<1>2. CASE Note(t)
  <2>1. job[t] \in Jobs
    BY <1>2, Working DEF IInv, Note, At, Points
  <2>2. job' = [job EXCEPT ![t] = [job[t] EXCEPT !.at = "store",
                                                 !.failed = job[t].failed]]
    BY <1>2, <2>1 DEF Note, Goto, Jobs, IInv, Typed
  <2>3. job[t].failed \in BOOLEAN
    BY <2>1 DEF Jobs
  <2> QED
    BY <1>2, <2>2, <2>3, MoveKeeps DEF Note, At, row
<1>3. CASE DropOld(t)
  BY <1>3, FinishKeeps DEF DropOld, At, row, history
<1>4. CASE ClearRow(t)
  <2>1. avatar' = None
    BY <1>4 DEF ClearRow, IInv, Typed
  <2> QED
    BY <1>4, <2>1, Uploading, RowKeeps DEF ClearRow
<1>5. CASE SaveWhole(t)
  <2>1. job[t] \in Jobs /\ job[t] # Idle
    BY <1>5, Working DEF IInv, SaveWhole, At, Points
  <2>2. \A s \in Threads : At(s, "save") => job[s].new # avatar'
    BY <1>5, <2>1, Uploading DEF SaveWhole
  <2>3. avatar' \in {avatar, None} \/ (dangling' /\ avatar' \in Files)
    BY <1>5, <2>1 DEF SaveWhole, Stale, Jobs
  <2> QED
    BY <1>5, <2>2, <2>3, RowKeeps DEF SaveWhole, At
<1>6. CASE Die(t)
  BY <1>6, FinishKeeps DEF Die, row
<1> QED
  BY <1>1, <1>2, <1>3, <1>4, <1>5, <1>6, StoreKeeps, SaveRowKeeps, UnlinkKeeps
     DEF Continue

(* Every step keeps the invariant.                                         *)
LEMMA NextInv == IInv /\ [Next]_vars => IInv'
<1> SUFFICES ASSUME IInv, [Next]_vars PROVE IInv'
  OBVIOUS
<1>1. CASE \E t \in Threads : Upload(t) \/ Remove(t) \/ ReadWhole(t)
  BY <1>1, BeginKeeps DEF Upload, Remove, ReadWhole
<1>2. CASE \E t \in Threads : Continue(t)
  BY <1>2, ContinueKeeps
<1>3. CASE DeleteAccount
  <2>1. Typed'
    BY <1>3 DEF DeleteAccount, IInv, Typed
  <2>2. \A t \in Threads : Apart(t)' /\ Replaced(t)'
    BY <1>3, Uploading DEF DeleteAccount, IInv, Apart, Replaced, At
  <2>3. There'
    BY <1>3 DEF DeleteAccount, There
  <2> QED
    BY <2>1, <2>2, <2>3, PictureIsThereMeans DEF IInv
<1>4. CASE UNCHANGED vars
  BY <1>4 DEF vars, IInv, Typed, Formed, Apart, Replaced, PictureIsThere, Media, At
<1> QED
  BY <1>1, <1>2, <1>3, <1>4 DEF Next

(* However uploads, removals and whole-row saves overlap, the picture the  *)
(* row names is there: replace_avatar (services/user.py) drops the old     *)
(* file only once the row names the new one, whose name is nobody else's.  *)
THEOREM PictureStaysThere == Spec => []PictureIsThere
<1>1. Init => IInv
  BY InitInv
<1>2. IInv /\ [Next]_vars => IInv'
  BY NextInv
<1>3. IInv => PictureIsThere
  BY DEF IInv
<1> QED
  BY <1>1, <1>2, <1>3, PTL DEF Spec

-----------------------------------------------------------------------------
(* Files let in unscanned.  A request that has noted its failed scan and   *)
(* not stored its file yet has its own line in the trail to use.           *)

Noted == {t \in Threads : At(t, "store") /\ job[t].failed}

Unscanned(t) == At(t, "scan") => job[t].failed = FALSE

Counted ==
  /\ \A t \in Threads : Unscanned(t)
  /\ noted \in Nat
  /\ IsFiniteSet(unchecked)
  /\ Cardinality(unchecked) + Cardinality(Noted) <= noted

(* A step that adds nobody to those who noted, and no file.                *)
LEMMA NoMoreNoted ==
  ASSUME Counted, IsFiniteSet(Threads), Noted' \subseteq Noted,
         UNCHANGED <<unchecked, noted>>, \A t \in Threads : Unscanned(t)'
  PROVE  Counted'
<1>1. IsFiniteSet(Noted) /\ IsFiniteSet(Noted')
  BY FS_Subset DEF Noted
<1>2. Cardinality(Noted') <= Cardinality(Noted)
  BY <1>1, FS_Subset
<1>3. Cardinality(Noted) \in Nat /\ Cardinality(Noted') \in Nat
        /\ Cardinality(unchecked) \in Nat
  BY <1>1, FS_CardinalityType DEF Counted
<1>4. Cardinality(unchecked) + Cardinality(Noted') <= noted'
  BY <1>2, <1>3 DEF Counted
<1> QED
  BY <1>4 DEF Counted

(* One element more, at most.                                              *)
LEMMA OneMore ==
  ASSUME NEW S, NEW x, IsFiniteSet(S)
  PROVE  IsFiniteSet(S \cup {x}) /\ Cardinality(S \cup {x}) <= Cardinality(S) + 1
<1>1. Cardinality(S) \in Nat
  BY FS_CardinalityType
<1>2. IsFiniteSet(S \cup {x})
        /\ Cardinality(S \cup {x}) =
             IF x \in S THEN Cardinality(S) ELSE Cardinality(S) + 1
  BY FS_AddElement
<1> QED
  BY <1>1, <1>2

(* Note adds a line, and at most one request that may use it.              *)
LEMMA NoteCounted ==
  ASSUME Typed, Counted, IsFiniteSet(Threads), NEW t \in Threads, Note(t)
  PROVE  Counted'
<1>0. job[t] \in Jobs
  BY Working DEF Note, At, Points
<1>1. job'[t] = [job[t] EXCEPT !.at = "store"]
        /\ \A s \in Threads : s # t => job'[s] = job[s]
  BY DEF Note, Goto, Typed
<1>2. Noted' \subseteq Noted \cup {t} /\ \A s \in Threads : Unscanned(s)'
  BY <1>0, <1>1 DEF Noted, At, Counted, Unscanned, Jobs
<1>3. IsFiniteSet(Noted) /\ IsFiniteSet(Noted')
  BY FS_Subset DEF Noted
<1>4. IsFiniteSet(Noted \cup {t})
        /\ Cardinality(Noted \cup {t}) <= Cardinality(Noted) + 1
  BY <1>3, OneMore
<1>5. Cardinality(Noted') <= Cardinality(Noted \cup {t})
  BY <1>2, <1>4, FS_Subset
<1>6. Cardinality(Noted) \in Nat /\ Cardinality(Noted') \in Nat
        /\ Cardinality(unchecked) \in Nat /\ Cardinality(Noted \cup {t}) \in Nat
  BY <1>3, <1>4, FS_CardinalityType DEF Counted
<1>7. noted' = noted + 1 /\ UNCHANGED unchecked
  BY DEF Note
<1>8. noted' \in Nat /\ Cardinality(unchecked') + Cardinality(Noted') <= noted'
  BY <1>4, <1>5, <1>6, <1>7 DEF Counted
<1> QED
  BY <1>2, <1>7, <1>8 DEF Counted

(* Store uses the line up.                                                 *)
LEMMA StoreCounted ==
  ASSUME Typed, Counted, IsFiniteSet(Threads), NEW t \in Threads, Store(t)
  PROVE  Counted'
<1>0. job[t] \in Jobs
  BY Working DEF Store, At, Points
<1>1. PICK f \in Fresh :
        /\ unchecked' = IF job[t].failed THEN unchecked \cup {f} ELSE unchecked
        /\ job' = [job EXCEPT ![t].at = "save", ![t].new = f]
  BY DEF Store
<1>2. job'[t] = [job[t] EXCEPT !.at = "save", !.new = f]
        /\ \A s \in Threads : s # t => job'[s] = job[s]
  BY <1>1 DEF Typed
<1>3. UNCHANGED noted
  BY DEF Store
<1>4. Noted' = Noted \ {t} /\ \A s \in Threads : Unscanned(s)'
  <2>1. job'[t].at = "save"
    BY <1>0, <1>2 DEF Jobs
  <2>2. \A s \in Threads : Unscanned(s)'
    BY <1>2, <2>1 DEF At, Counted, Unscanned
  <2>3. \A s \in Threads : s \in Noted' <=> s \in Noted \ {t}
    BY <1>2, <2>1 DEF Noted, At
  <2> QED
    BY <2>2, <2>3 DEF Noted
<1>5. IsFiniteSet(Noted)
  BY FS_Subset DEF Noted
<1>6. CASE job[t].failed
  <2>1. t \in Noted
    BY <1>6 DEF Noted, Store
  <2>2. Cardinality(Noted') = Cardinality(Noted) - 1
    BY <1>4, <1>5, <2>1, FS_RemoveElement
  <2>3. IsFiniteSet(unchecked') /\ Cardinality(unchecked') <= Cardinality(unchecked) + 1
    BY <1>1, <1>6, OneMore DEF Counted
  <2>4. Cardinality(Noted) \in Nat /\ Cardinality(unchecked) \in Nat
          /\ Cardinality(unchecked') \in Nat
    BY <1>5, <2>3, FS_CardinalityType DEF Counted
  <2>5. Cardinality(unchecked') + Cardinality(Noted') <= noted'
    BY <1>3, <2>2, <2>3, <2>4 DEF Counted
  <2> QED
    BY <1>3, <1>4, <2>3, <2>5 DEF Counted
<1>7. CASE ~job[t].failed
  BY <1>1, <1>3, <1>4, <1>7, NoMoreNoted
<1> QED
  BY <1>6, <1>7

Quiet(j) ==
  /\ j.at = "scan" => j.failed = FALSE
  /\ ~(j.at = "store" /\ j.failed)

(* The steps of a request that neither note a failure nor write a file.    *)
LEMMA RestCounted ==
  ASSUME Typed, Counted, IsFiniteSet(Threads), NEW t \in Threads,
         \/ Upload(t) \/ Remove(t) \/ ReadWhole(t) \/ Scan(t) \/ SaveRow(t)
         \/ DropOld(t) \/ Unlink(t) \/ ClearRow(t) \/ SaveWhole(t) \/ Die(t)
  PROVE  Counted'
<1>1. UNCHANGED <<unchecked, noted>>
  BY DEF Upload, Remove, ReadWhole, Begin, Scan, SaveRow, DropOld, Unlink, ClearRow,
         SaveWhole, Die, history
<1>2. PICK j : Quiet(j) /\ job' = [job EXCEPT ![t] = j]
  <2>1. CASE Upload(t) \/ Remove(t) \/ ReadWhole(t)
    <3>1. \A p : Quiet([at |-> p, old |-> avatar, new |-> None, failed |-> FALSE])
      BY DEF Quiet
    <3> QED
      BY <2>1, <3>1 DEF Upload, Remove, ReadWhole, Begin
  <2>2. CASE Finish(t)
    <3>1. Quiet(Idle)
      BY DEF Quiet, Idle
    <3> QED
      BY <2>2, <3>1 DEF Finish
  <2>3. CASE Scan(t) /\ ~Finish(t)
    <3>1. job[t] \in Jobs /\ job[t].failed = FALSE
      BY <2>3, Working DEF Scan, At, Points, Counted, Unscanned
    <3>2. job' = [job EXCEPT ![t] = [job[t] EXCEPT !.at = "store"]] \/
          job' = [job EXCEPT ![t] = [job[t] EXCEPT !.at = "note", !.failed = TRUE]]
      BY <2>3 DEF Scan, Goto, Typed
    <3>3. Quiet([job[t] EXCEPT !.at = "store"])
            /\ Quiet([job[t] EXCEPT !.at = "note", !.failed = TRUE])
      BY <3>1 DEF Quiet, Jobs
    <3> QED
      BY <3>2, <3>3
  <2>4. CASE (SaveRow(t) /\ ~Finish(t)) \/ Unlink(t)
    <3>1. job[t] \in Jobs
      BY <2>4, Working DEF SaveRow, Unlink, At, Points
    <3>2. PICK p \in {"drop", "clear"} :
            job' = [job EXCEPT ![t] = [job[t] EXCEPT !.at = p]]
      BY <2>4 DEF SaveRow, Unlink, Goto, Typed
    <3>3. Quiet([job[t] EXCEPT !.at = p])
      BY <3>1 DEF Quiet, Jobs
    <3> QED
      BY <3>2, <3>3
  <2> QED
    BY <2>1, <2>2, <2>3, <2>4 DEF DropOld, ClearRow, SaveWhole, Die
<1>3. job'[t] = j /\ \A s \in Threads : s # t => job'[s] = job[s]
  BY <1>2 DEF Typed
<1>4. Noted' \subseteq Noted /\ \A s \in Threads : Unscanned(s)'
  BY <1>2, <1>3 DEF Noted, At, Unscanned, Counted, Quiet
<1> QED
  BY <1>1, <1>4, NoMoreNoted

(* Every step keeps the count.                                             *)
LEMMA CountedNext ==
  ASSUME Typed, Counted, IsFiniteSet(Threads), [Next]_vars PROVE Counted'
<1>1. CASE \E t \in Threads : Upload(t) \/ Remove(t) \/ ReadWhole(t) \/ Continue(t)
  BY <1>1, NoteCounted, StoreCounted, RestCounted DEF Continue
<1>2. CASE DeleteAccount \/ UNCHANGED vars
  <2>1. UNCHANGED <<unchecked, noted, job>>
    BY <1>2 DEF DeleteAccount, vars
  <2>2. UNCHANGED Noted /\ \A t \in Threads : Unscanned(t)'
    BY <2>1 DEF Noted, At, Unscanned, Counted
  <2> QED
    BY <2>1, <2>2, NoMoreNoted
<1> QED
  BY <1>1, <1>2 DEF Next

(* A file that came in because the scanner did not answer has its line in  *)
(* the audit trail: update_avatar (views/profile.py) writes the line       *)
(* before it stores the file, and a death in between leaves a line too     *)
(* many, never one too few.                                                *)
THEOREM UncheckedAreNoted == Spec => []OutagesNoted
<1>1. Init => IInv /\ Counted
  <2> SUFFICES ASSUME Init PROVE IInv /\ Counted
    OBVIOUS
  <2>1. Noted = {}
    BY DEF Init, Noted, At, Idle
  <2>2. Counted
    BY <2>1, FS_EmptySet DEF Init, Counted, Unscanned, At, Idle
  <2> QED
    BY <2>2, InitInv
<1>2. IInv /\ Counted /\ [Next]_vars => (IInv /\ Counted)'
  BY NextInv, CountedNext, AvatarsAssumption DEF IInv
<1>3. IInv /\ Counted => OutagesNoted
  <2> SUFFICES ASSUME Counted PROVE OutagesNoted
    OBVIOUS
  <2>1. IsFiniteSet(Noted)
    BY FS_Subset, AvatarsAssumption DEF Noted
  <2>2. Cardinality(Noted) \in Nat /\ Cardinality(unchecked) \in Nat
    BY <2>1, FS_CardinalityType DEF Counted
  <2> QED
    BY <2>2 DEF Counted, OutagesNoted
<1> QED
  BY <1>1, <1>2, <1>3, PTL DEF Spec


-----------------------------------------------------------------------------
(* Files nothing names.  Counting them against the uploads under way is    *)
(* not inductive: an upload may drop a file that is gone already, and then *)
(* accounts for none.  What is, is that the files that are no upload's are *)
(* at most as many as the accidents.                                       *)

(* The file an upload under way has for itself: the new one until the row  *)
(* names it, then the old one.                                             *)
Busy == {t \in Threads : job[t].at \in {"save", "drop"}}
Spare(j) == IF j.at = "save" THEN j.new ELSE j.old
Spares == {Spare(job[t]) : t \in Busy}
Stray == (stored \ {avatar}) \ Spares

(* A removal that has unlinked its file does not find it there again.      *)
Swept == \A t \in Threads : At(t, "clear") => job[t].old \notin stored

Strays ==
  /\ IsFiniteSet(stored)
  /\ leaks \in Nat
  /\ Cardinality(Stray) <= leaks

(* No more strays, or one more and an accident to account for it.          *)
LEMMA StraysKept ==
  ASSUME Strays, IsFiniteSet(stored'),
         \/ Stray' \subseteq Stray /\ leaks' \in {leaks, leaks + 1}
         \/ leaks' = leaks + 1 /\ \E x : Stray' \subseteq Stray \cup {x}
  PROVE  Strays'
<1>1. IsFiniteSet(Stray) /\ IsFiniteSet(Stray')
  BY FS_Subset DEF Strays, Stray
<1>2. Cardinality(Stray) \in Nat /\ Cardinality(Stray') \in Nat
  BY <1>1, FS_CardinalityType
<1>3. CASE Stray' \subseteq Stray /\ leaks' \in {leaks, leaks + 1}
  <2>1. Cardinality(Stray') <= Cardinality(Stray)
    BY <1>1, <1>3, FS_Subset
  <2> QED
    BY <1>2, <1>3, <2>1 DEF Strays
<1>4. CASE leaks' = leaks + 1 /\ \E x : Stray' \subseteq Stray \cup {x}
  <2>1. PICK x : Stray' \subseteq Stray \cup {x}
    BY <1>4
  <2>2. IsFiniteSet(Stray \cup {x}) /\ Cardinality(Stray \cup {x}) <= Cardinality(Stray) + 1
    BY <1>1, OneMore
  <2>3. Cardinality(Stray') <= Cardinality(Stray \cup {x})
    BY <2>1, <2>2, FS_Subset
  <2>4. Cardinality(Stray \cup {x}) \in Nat
    BY <2>2, FS_CardinalityType
  <2> QED
    BY <1>2, <1>4, <2>2, <2>3, <2>4 DEF Strays
<1> QED
  BY <1>3, <1>4

(* One request moves: the spares of the others stay what they are, and it  *)
(* has its own one or none.                                                *)
LEMMA SparesMove ==
  ASSUME NEW t \in Threads, \A s \in Threads : s # t => job'[s] = job[s]
  PROVE  /\ Spares \subseteq Spares' \cup (IF t \in Busy THEN {Spare(job[t])} ELSE {})
         /\ t \in Busy' => Spare(job'[t]) \in Spares'
<1>1. ASSUME NEW f \in Spares, f \notin Spares' PROVE t \in Busy /\ f = Spare(job[t])
  <2>1. PICK s \in Busy : f = Spare(job[s])
    BY <1>1 DEF Spares
  <2>2. s = t
    BY <1>1, <2>1 DEF Spares, Busy
  <2> QED
    BY <2>1, <2>2
<1>2. t \in Busy' => Spare(job'[t]) \in Spares'
  BY DEF Spares
<1> QED
  BY <1>1, <1>2


(* What a step of one request leaves alone.                                *)
LEMMA OneMoves ==
  ASSUME IInv, NEW t \in Threads,
         Upload(t) \/ Remove(t) \/ ReadWhole(t) \/ Continue(t)
  PROVE  \A s \in Threads : s # t => job'[s] = job[s]
<1>1. \E j : job' = [job EXCEPT ![t] = j]
  BY DEF Upload, Remove, ReadWhole, Begin, Continue, Scan, Note, Store, SaveRow,
         DropOld, Unlink, ClearRow, SaveWhole, Die, Finish, Goto, IInv, Typed
<1> QED
  BY <1>1 DEF IInv, Typed

(* A removal keeps its word: nobody writes under a name that is known.     *)
LEMMA SweptNext ==
  ASSUME IInv, Swept, [Next]_vars PROVE Swept'
<1>1. ASSUME NEW t \in Threads, Upload(t) \/ Remove(t) \/ ReadWhole(t) PROVE Swept'
  <2>1. \A s \in Threads : s # t => job'[s] = job[s]
    BY <1>1, OneMoves
  <2>2. job'[t].at # "clear" /\ UNCHANGED stored
    BY <1>1 DEF Upload, Remove, ReadWhole, Begin, IInv, Typed
  <2> QED
    BY <2>1, <2>2 DEF Swept, At
<1>2. ASSUME NEW t \in Threads, Store(t) PROVE Swept'
  <2>1. PICK f \in Fresh : /\ stored' = stored \cup {f}
                           /\ job' = [job EXCEPT ![t].at = "save", ![t].new = f]
    BY <1>2 DEF Store
  <2>2. \A s \in Threads : s # t => job'[s] = job[s]
    BY <1>2, OneMoves DEF Continue
  <2>3. job[t] \in Jobs
    BY <1>2, Working DEF IInv, Store, At, Points
  <2>4. job'[t].at = "save"
    BY <2>1, <2>3 DEF IInv, Typed, Jobs
  <2>5. \A s \in Threads : At(s, "clear") => job[s] # Idle
    BY DEF At, Idle
  <2>6. \A s \in Threads : At(s, "clear") => job[s].old # f
    BY <2>1, <2>5 DEF Fresh, Known
  <2> SUFFICES ASSUME NEW s \in Threads, job'[s].at = "clear"
               PROVE  job'[s].old \notin stored'
    BY DEF Swept, At
  <2>7. s # t
    BY <2>4
  <2>8. job'[s] = job[s] /\ At(s, "clear")
    BY <2>2, <2>7 DEF At
  <2>9. job[s].old \notin stored /\ job[s].old # f
    BY <2>6, <2>8 DEF Swept
  <2> QED
    BY <2>1, <2>8, <2>9
<1>3. ASSUME NEW t \in Threads, Unlink(t) PROVE Swept'
  <2>1. \A s \in Threads : s # t => job'[s] = job[s]
    BY <1>3, OneMoves DEF Continue
  <2>2. job[t] \in Jobs /\ job'[t] = [job[t] EXCEPT !.at = "clear"]
    BY <1>3, Working DEF IInv, Typed, Unlink, Goto, At, Points
  <2>3. job'[t].old = job[t].old /\ stored' = stored \ {job[t].old}
    BY <1>3, <2>2 DEF Unlink, Jobs
  <2> QED
    BY <2>1, <2>3 DEF Swept, At
<1>4. ASSUME NEW t \in Threads,
             \/ Scan(t) \/ Note(t) \/ SaveRow(t) \/ DropOld(t) \/ ClearRow(t)
             \/ SaveWhole(t) \/ Die(t)
      PROVE  Swept'
  <2>1. \A s \in Threads : s # t => job'[s] = job[s]
    BY <1>4, OneMoves DEF Continue
  <2>2. stored' \subseteq stored
    BY <1>4 DEF Scan, Note, SaveRow, DropOld, ClearRow, SaveWhole, Die
  <2>3. job'[t].at # "clear"
    <3>1. CASE Finish(t)
      BY <3>1 DEF Finish, IInv, Typed, Idle
    <3>2. CASE ~Finish(t)
      <4>1. Scan(t) \/ Note(t) \/ SaveRow(t)
        BY <1>4, <3>2 DEF DropOld, ClearRow, SaveWhole, Die
      <4>2. job[t] \in Jobs
        BY <4>1, Working DEF IInv, Scan, Note, SaveRow, At, Points
      <4>3. \/ \E p \in {"store", "drop"} : job' = [job EXCEPT ![t].at = p]
            \/ job' = [job EXCEPT ![t].at = "note", ![t].failed = TRUE]
        BY <3>2, <4>1 DEF Scan, Note, SaveRow, Goto
      <4> QED
        BY <4>2, <4>3 DEF IInv, Typed, Jobs
    <3> QED
      BY <3>1, <3>2
  <2> QED
    BY <2>1, <2>2, <2>3 DEF Swept, At
<1>5. CASE DeleteAccount \/ UNCHANGED vars
  BY <1>5 DEF DeleteAccount, vars, Swept, At
<1> QED
  BY <1>1, <1>2, <1>3, <1>4, <1>5 DEF Next, Continue

-----------------------------------------------------------------------------
(* The steps of the handlers, by what they do to the files.                *)

(* A step of a request without a spare that writes no file and no name.    *)
LEMMA CalmStrays ==
  ASSUME IInv, Strays, NEW t \in Threads, t \notin Busy,
         \A s \in Threads : s # t => job'[s] = job[s],
         stored' \subseteq stored, UNCHANGED <<avatar, leaks>>
  PROVE  Strays'
<1>1. Spares \subseteq Spares'
  BY SparesMove
<1>2. Stray' \subseteq Stray
  BY <1>1 DEF Stray
<1>3. IsFiniteSet(stored')
  BY FS_Subset DEF Strays
<1> QED
  BY <1>2, <1>3, StraysKept

(* A new file is the spare of its upload.                                  *)
LEMMA StoreStrays ==
  ASSUME IInv, Strays, NEW t \in Threads, Store(t)
  PROVE  Strays'
<1>1. PICK f \in Fresh : /\ stored' = stored \cup {f}
                         /\ job' = [job EXCEPT ![t].at = "save", ![t].new = f]
  BY DEF Store
<1>2. \A s \in Threads : s # t => job'[s] = job[s]
  BY OneMoves DEF Continue
<1>3. job[t] \in Jobs /\ t \notin Busy
  BY Working DEF IInv, Store, At, Points, Busy
<1>4. job'[t].at = "save" /\ job'[t].new = f
  BY <1>1, <1>3 DEF IInv, Typed, Jobs
<1>5. Spares \subseteq Spares' /\ f \in Spares'
  BY <1>2, <1>3, <1>4, SparesMove DEF Busy, Spare
<1>6. Stray' \subseteq Stray /\ leaks' = leaks
  BY <1>1, <1>5 DEF Store, row, Stray
<1>7. IsFiniteSet(stored')
  BY <1>1, OneMore DEF Strays
<1> QED
  BY <1>6, <1>7, StraysKept

(* The row takes the new file, and the old one becomes the spare; a name   *)
(* the upload has not seen is overwritten, or there is no row to take it.  *)
LEMMA SaveRowStrays ==
  ASSUME IInv, Strays, NEW t \in Threads, SaveRow(t)
  PROVE  Strays'
<1>1. \A s \in Threads : s # t => job'[s] = job[s]
  BY OneMoves DEF Continue
<1>2. job[t] \in Jobs /\ job[t].at = "save" /\ t \in Busy
  BY Working DEF IInv, SaveRow, At, Points, Busy
<1>3. stored' = stored /\ IsFiniteSet(stored') /\ leaks \in Nat
      /\ None \notin stored
  BY AvatarsAssumption DEF SaveRow, Strays, IInv, Typed
<1>4. Spares \subseteq Spares' \cup {job[t].new}
  BY <1>1, <1>2, SparesMove DEF Spare
<1>5. CASE ~exists
  <2>1. avatar' = avatar /\ leaks' = leaks + 1
    BY <1>5 DEF SaveRow, Leak
  <2>2. Stray' \subseteq Stray \cup {job[t].new}
    BY <1>3, <1>4, <2>1 DEF Stray
  <2> QED
    BY <1>3, <2>1, <2>2, StraysKept
<1>6. CASE exists
  <2>1. avatar' = job[t].new /\ job'[t] = [job[t] EXCEPT !.at = "drop"]
        /\ leaks' = IF Overwrites(t) THEN leaks + 1 ELSE leaks
    BY <1>6 DEF SaveRow, Goto, Leak, IInv, Typed
  <2>2. job[t].old \in Spares'
    <3>1. job'[t].at = "drop" /\ job'[t].old = job[t].old
      BY <1>2, <2>1 DEF Jobs
    <3> QED
      BY <1>1, <3>1, SparesMove DEF Busy, Spare
  <2>3. Stray' \subseteq Stray \cup ({avatar} \ {job[t].old, None})
    BY <1>3, <1>4, <2>1, <2>2 DEF Stray
  <2> QED
    BY <1>3, <2>1, <2>3, StraysKept DEF Overwrites
<1> QED
  BY <1>5, <1>6 DEF IInv, Typed

(* The spare is dropped, and is one no more.                               *)
LEMMA DropStrays ==
  ASSUME IInv, Strays, NEW t \in Threads, DropOld(t)
  PROVE  Strays'
<1>1. \A s \in Threads : s # t => job'[s] = job[s]
  BY OneMoves DEF Continue
<1>2. job[t].at = "drop" /\ t \in Busy /\ UNCHANGED <<avatar, leaks>>
      /\ stored' = stored \ {job[t].old}
  BY DEF DropOld, At, Busy, row, history
<1>3. Spares \subseteq Spares' \cup {job[t].old}
  BY <1>1, <1>2, SparesMove DEF Spare
<1>4. Stray' \subseteq Stray
  BY <1>2, <1>3 DEF Stray
<1>5. IsFiniteSet(stored')
  BY <1>2, FS_Subset DEF Strays
<1> QED
  BY <1>2, <1>4, <1>5, StraysKept

(* The other writes of the row lose at most the name that was in it.       *)
LEMMA ForgetStrays ==
  ASSUME IInv, Strays, UNCHANGED stored, Spares \subseteq Spares',
         \/ avatar' = avatar /\ leaks' \in {leaks, leaks + 1}
         \/ avatar \notin stored /\ leaks' \in {leaks, leaks + 1}
         \/ leaks' = leaks + 1
  PROVE  Strays'
<1>1. Stray' \subseteq Stray \cup {avatar}
  BY DEF Stray
<1>2. CASE avatar' = avatar \/ avatar \notin stored
  <2>1. Stray' \subseteq Stray
    BY <1>2 DEF Stray
  <2> QED
    BY <2>1, StraysKept DEF Strays
<1>3. CASE ~(avatar' = avatar \/ avatar \notin stored)
  BY <1>1, <1>3, StraysKept DEF Strays
<1> QED
  BY <1>2, <1>3

(* A removal clears the name of a file it has unlinked, or one it has not  *)
(* seen; a whole row puts its old name back, or overwrites one.            *)
LEMMA ClearStrays ==
  ASSUME IInv, Strays, Swept, NEW t \in Threads, ClearRow(t) \/ SaveWhole(t)
  PROVE  Strays'
<1>1. \A s \in Threads : s # t => job'[s] = job[s]
  BY OneMoves DEF Continue
<1>2. t \notin Busy /\ UNCHANGED stored
  BY DEF ClearRow, SaveWhole, At, Busy
<1>3. Spares \subseteq Spares'
  BY <1>1, <1>2, SparesMove
<1>4. None \notin stored
  BY AvatarsAssumption DEF IInv, Typed
<1>5. leaks' = IF Overwrites(t) THEN leaks + 1 ELSE leaks
  BY DEF ClearRow, SaveWhole, Leak
<1>6. CASE Overwrites(t)
  BY <1>2, <1>3, <1>5, <1>6, ForgetStrays
<1>7. CASE ~Overwrites(t)
  <2>1. avatar = None \/ avatar = job[t].old
    BY <1>7 DEF Overwrites
  <2>2. CASE ClearRow(t)
    BY <1>2, <1>3, <1>4, <1>5, <1>7, <2>1, <2>2, ForgetStrays DEF ClearRow, Swept
  <2>3. CASE SaveWhole(t)
    BY <1>2, <1>3, <1>4, <1>5, <1>7, <2>1, <2>3, ForgetStrays DEF SaveWhole
  <2> QED
    BY <2>2, <2>3
<1> QED
  BY <1>6, <1>7

(* A worker that dies between the stores leaves its spare.                 *)
LEMMA DieStrays ==
  ASSUME IInv, Strays, NEW t \in Threads, Die(t)
  PROVE  Strays'
<1>1. \A s \in Threads : s # t => job'[s] = job[s]
  BY OneMoves DEF Continue
<1>2. UNCHANGED <<avatar, stored>>
      /\ leaks' = IF t \in Busy THEN leaks + 1 ELSE leaks
  BY DEF Die, row, Leak, Busy
<1>3. CASE t \notin Busy
  BY <1>1, <1>2, <1>3, CalmStrays
<1>4. CASE t \in Busy
  <2>1. Spares \subseteq Spares' \cup {Spare(job[t])}
    BY <1>1, <1>4, SparesMove
  <2>2. Stray' \subseteq Stray \cup {Spare(job[t])}
    BY <1>2, <2>1 DEF Stray
  <2> QED
    BY <1>2, <1>4, <2>2, StraysKept DEF Strays
<1> QED
  BY <1>3, <1>4

(* The steps that write neither a file nor a name.                         *)
LEMMA OtherStrays ==
  ASSUME IInv, Strays, NEW t \in Threads,
         \/ Upload(t) \/ Remove(t) \/ ReadWhole(t) \/ Scan(t) \/ Note(t) \/ Unlink(t)
  PROVE  Strays'
<1>1. \A s \in Threads : s # t => job'[s] = job[s]
  BY OneMoves DEF Continue
<1>2. t \notin Busy
  BY DEF Upload, Remove, ReadWhole, Begin, Scan, Note, Unlink, At, Busy, Idle
<1>3. stored' \subseteq stored /\ UNCHANGED <<avatar, leaks>>
  BY DEF Upload, Remove, ReadWhole, Begin, Scan, Note, Unlink, row, history
<1> QED
  BY <1>1, <1>2, <1>3, CalmStrays

(* Every step keeps the count of strays.                                   *)
LEMMA StraysNext ==
  ASSUME IInv, Strays, Swept, [Next]_vars PROVE Strays'
<1>1. CASE DeleteAccount
  <2>1. job' = job /\ stored' = stored /\ avatar' = None
        /\ leaks' = IF avatar # None THEN leaks + 1 ELSE leaks
    BY <1>1 DEF DeleteAccount, Leak
  <2>2. Spares' = Spares
    BY <2>1 DEF Spares, Busy
  <2> QED
    BY <2>1, <2>2, ForgetStrays
<1>2. CASE UNCHANGED vars
  <2>1. Spares' = Spares
    BY <1>2 DEF vars, Spares, Busy
  <2> QED
    BY <1>2, <2>1, ForgetStrays DEF vars
<1>3. CASE \E t \in Threads : Upload(t) \/ Remove(t) \/ ReadWhole(t) \/ Continue(t)
  BY <1>3, OtherStrays, StoreStrays, SaveRowStrays, DropStrays, ClearStrays,
     DieStrays DEF Continue
<1> QED
  BY <1>1, <1>2, <1>3 DEF Next

(* Every upload has one spare.                                             *)
LEMMA SparesCount ==
  ASSUME IsFiniteSet(Threads)
  PROVE  /\ IsFiniteSet(Spares) /\ IsFiniteSet(Busy)
         /\ Cardinality(Spares) <= Cardinality(Busy)
<1> DEFINE f == [t \in Busy |-> Spare(job[t])]
<1>1. f \in Surjection(Busy, Spares)
  BY DEF Surjection, Spares
<1>2. IsFiniteSet(Busy)
  BY FS_Subset DEF Busy
<1> QED
  BY <1>1, <1>2, FS_Surjection

(* Files nothing names do not pile up, for any number of requests and      *)
(* files: replace_avatar and delete_avatar (services/user.py) lose track   *)
(* of a file only by an accident, and of one file each time.               *)
THEOREM LeaksAlwaysBounded == Spec => []LeaksBounded
<1>1. Init => IInv /\ Swept /\ Strays
  <2> SUFFICES ASSUME Init PROVE Swept /\ Strays
    BY InitInv
  <2>1. Swept
    BY DEF Init, Swept, At, Idle
  <2>2. IsFiniteSet(stored)
    <3>1. IsFiniteSet({avatar})
      BY FS_Singleton
    <3>2. stored \in SUBSET {avatar}
      BY DEF Init
    <3> QED
      BY <3>1, <3>2, FS_Subset
  <2>3. Stray = {}
    BY DEF Init, Stray
  <2> QED
    BY <2>1, <2>2, <2>3, FS_EmptySet DEF Init, Strays
<1>2. IInv /\ Swept /\ Strays /\ [Next]_vars => (IInv /\ Swept /\ Strays)'
  BY NextInv, SweptNext, StraysNext
<1>3. Strays => LeaksBounded
  <2> SUFFICES ASSUME Strays PROVE LeaksBounded
    OBVIOUS
  <2>1. IsFiniteSet(stored \ {avatar}) /\ IsFiniteSet(Stray)
    BY FS_Subset DEF Strays, Stray
  <2>2. /\ IsFiniteSet(Spares) /\ IsFiniteSet(Busy)
        /\ Cardinality(Spares) <= Cardinality(Busy)
    BY SparesCount, AvatarsAssumption
  <2>3. /\ IsFiniteSet(Stray \cup Spares)
        /\ Cardinality(Stray \cup Spares)
             = Cardinality(Stray) + Cardinality(Spares) - Cardinality(Stray \cap Spares)
    BY <2>1, <2>2, FS_Union
  <2>4. IsFiniteSet(Stray \cap Spares)
    BY <2>1, FS_Intersection
  <2>5. stored \ {avatar} \in SUBSET (Stray \cup Spares)
    BY DEF Stray
  <2>6. Cardinality(stored \ {avatar}) <= Cardinality(Stray \cup Spares)
    BY <2>3, <2>5, FS_Subset
  <2>7. /\ Cardinality(Stray) \in Nat /\ Cardinality(Spares) \in Nat
        /\ Cardinality(Stray \cap Spares) \in Nat /\ Cardinality(Busy) \in Nat
        /\ Cardinality(Stray \cup Spares) \in Nat
        /\ Cardinality(stored \ {avatar}) \in Nat
    BY <2>1, <2>2, <2>3, <2>4, FS_CardinalityType
  <2>8. Cardinality(stored \ {avatar}) <= leaks + Cardinality(Busy)
    BY <2>2, <2>3, <2>6, <2>7 DEF Strays
  <2> QED
    BY <2>8 DEF LeaksBounded, Busy
<1> QED
  BY <1>1, <1>2, <1>3, PTL DEF Spec
=============================================================================
