---------------------------- MODULE Gates_proofs ----------------------------
(***************************************************************************)
(* The gates of a signed-in request, for any number of tabs, any grace     *)
(* period and any throttle of sudo.                                        *)
(*                                                                         *)
(* Two parts beside the types.  Counts: what the throttle has counted, and *)
(* who is still guessing, stays below a limit that the number of requests  *)
(* sets.  Proofs: the credentials behind a grant, in the session or in a   *)
(* copy that can still be saved, are no older than the grant.  That no two *)
(* gates send a browser back and forth follows from their order alone.     *)
(***************************************************************************)
EXTENDS Gates, FiniteSetTheorems, TLAPS

JobRecords ==
  [at : {"view", "verify", "bump", "flip", "answer"}, request : Requests,
   grant : 0 .. Grace, alive : BOOLEAN, copy : Windows \cup {None}]
Sound(j) == j = Idle \/ (j \in JobRecords /\ (j.at = "flip" => j.copy \in Windows))

Jobs == job = [t \in Threads |-> job[t]] /\ \A t \in Threads : Sound(job[t])
Data ==
  /\ account \in Accounts /\ window \in Windows
  /\ grant \in 0 .. Grace /\ proof \in 0 .. Grace
  /\ fails \in Nat /\ tries \in Nat
  /\ next \in Requests /\ left \in 0 .. MaxEvents
Typed == Jobs /\ Data

(* Whoever is between the throttle and its count, and whoever has been     *)
(* found wrong and is not counted yet.                                     *)
Guessing == {t \in Threads : job[t].at \in {"verify", "bump"}}
Bumping == {t \in Threads : job[t].at = "bump"}
Counts ==
  /\ fails + Cardinality(Guessing) < Threshold + Cardinality(Threads)
  /\ tries <= fails + Cardinality(Bumping)

(* The credentials behind a grant are as old as the grant, or younger.     *)
Late(g, p) == g = 0 \/ g + p <= Grace
Proofs ==
  /\ Late(grant, proof)
  /\ \A t \in Threads : job[t] # Idle /\ job[t].alive => Late(job[t].grant, proof)

IInv == Typed /\ Counts /\ Proofs

(* The numbers.                                                            *)
LEMMA Numbers ==
  /\ Grace \in Nat /\ Grace > 0 /\ Threshold \in Nat /\ Threshold > 0
  /\ MaxEvents \in Nat /\ IsFiniteSet(Threads) /\ Cardinality(Threads) \in Nat
<1>1. IsFiniteSet(Threads)
  BY GatesAssumption, FS_AddElement DEF Threads
<1> QED
  BY <1>1, GatesAssumption, FS_CardinalityType

(* Every page and every form is a request.                                 *)
LEMMA RequestsAre ==
  /\ \A p \in Paths : Get(p) \in Requests /\ Post(p) \in Requests
  /\ Want \in Requests /\ \A r : AfterPage(r) \in Requests
  /\ Effects \subseteq Requests /\ Plain \subseteq Requests
<1>1. \A p \in Paths : Get(p) \in Requests /\ Post(p) \in Requests
  BY DEF Get, Post, Requests
<1>2. Want \in Requests
  BY <1>1 DEF Want, Paths
<1>3. \A r : AfterPage(r) \in Requests
  BY <1>1, <1>2 DEF AfterPage, Paths
<1>4. Effects \subseteq Requests /\ Plain \subseteq Requests
  BY <1>1 DEF Effects, Plain, Paths
<1> QED
  BY <1>1, <1>2, <1>3, <1>4

LEMMA FollowIs ==
  ASSUME NEW t, NEW v, Follow(t, v), next \in Requests PROVE next' \in Requests
<1>1. "sudo" \in Paths
  BY DEF Paths
<1> QED
  BY <1>1, RequestsAre DEF Follow

(* A job is what its fields are.                                           *)
LEMMA JobIs ==
  ASSUME Typed, NEW t \in Threads, job[t] # Idle
  PROVE  job[t] \in JobRecords /\ (job[t].at = "flip" => job[t].copy \in Windows)
BY DEF Typed, Jobs, Sound

LEMMA AtWork ==
  ASSUME NEW j, j.at # "idle" PROVE j # Idle
BY DEF Idle

(* One job changes.                                                        *)
LEMMA JobKept ==
  ASSUME Jobs, NEW t \in Threads, NEW j, Sound(j), job' = [job EXCEPT ![t] = j]
  PROVE  Jobs' /\ job'[t] = j /\ \A s \in Threads : s # t => job'[s] = job[s]
BY DEF Jobs

(* The copies of the old session are dead after a rotation.                *)
LEMMA RotatedKept ==
  ASSUME Jobs, NEW t, Rotated(t)
  PROVE  /\ Jobs'
         /\ \A s \in Threads :
              \/ job'[s] = Idle /\ (s = t \/ job[s] = Idle)
              \/ job[s] # Idle /\ job'[s].alive = FALSE /\ job'[s].at = job[s].at
<1>1. \A s \in Threads :
        job'[s] = IF s = t \/ job[s] = Idle THEN Idle ELSE [job[s] EXCEPT !.alive = FALSE]
  BY DEF Rotated
<1>2. job' = [s \in Threads |-> job'[s]]
  BY DEF Rotated
<1>3. ASSUME NEW s \in Threads
      PROVE  /\ Sound(job'[s])
             /\ \/ job'[s] = Idle /\ (s = t \/ job[s] = Idle)
                \/ job[s] # Idle /\ job'[s].alive = FALSE /\ job'[s].at = job[s].at
  <2>1. CASE s = t \/ job[s] = Idle
    BY <1>1, <2>1 DEF Sound
  <2>2. CASE ~(s = t \/ job[s] = Idle)
    <3>1. PICK j : j = [job[s] EXCEPT !.alive = FALSE]
      OBVIOUS
    <3>2. job'[s] = j
      BY <1>1, <2>2, <3>1
    <3>3. job[s] \in JobRecords /\ (job[s].at = "flip" => job[s].copy \in Windows)
      BY <2>2 DEF Jobs, Sound
    <3>4. /\ j \in JobRecords /\ j.at = job[s].at /\ j.copy = job[s].copy
          /\ j.alive = FALSE
      BY <3>1, <3>3 DEF JobRecords
    <3> QED
      BY <2>2, <3>2, <3>3, <3>4 DEF Sound
  <2> QED
    BY <2>1, <2>2
<1> QED
  BY <1>2, <1>3 DEF Jobs

-----------------------------------------------------------------------------
(* The types.                                                              *)

(* What an update of a job leaves sound.                                   *)
LEMMA SoundMoves ==
  ASSUME NEW j \in JobRecords
  PROVE  /\ \A p \in {"view", "verify", "bump", "answer"} : Sound([j EXCEPT !.at = p])
         /\ \A p \in {"view", "verify", "bump", "answer"}, g \in 0 .. Grace :
              Sound([j EXCEPT !.at = p, !.grant = g])
         /\ \A w \in Windows : Sound([j EXCEPT !.at = "flip", !.copy = w])
         /\ Sound([j EXCEPT !.at = "answer", !.copy = None])
         /\ \A g \in 0 .. Grace :
              (j.at = "flip" => j.copy \in Windows) => Sound([j EXCEPT !.grant = g])
<1>1. ASSUME NEW p \in {"view", "verify", "bump", "answer"}
      PROVE  Sound([j EXCEPT !.at = p])
  BY DEF Sound, JobRecords
<1>2. ASSUME NEW p \in {"view", "verify", "bump", "answer"}, NEW g \in 0 .. Grace
      PROVE  Sound([j EXCEPT !.at = p, !.grant = g])
  BY DEF Sound, JobRecords
<1>3. ASSUME NEW w \in Windows PROVE Sound([j EXCEPT !.at = "flip", !.copy = w])
  BY DEF Sound, JobRecords
<1>4. Sound([j EXCEPT !.at = "answer", !.copy = None])
  BY DEF Sound, JobRecords
<1>5. ASSUME NEW g \in 0 .. Grace, j.at = "flip" => j.copy \in Windows
      PROVE  Sound([j EXCEPT !.grant = g])
  BY <1>5 DEF Sound, JobRecords
<1> QED
  BY <1>1, <1>2, <1>3, <1>4, <1>5

(* A request that is let through begins with the grant of the session.     *)
LEMMA ArriveTyped ==
  ASSUME Typed, NEW t \in Threads, NEW r \in Requests, NEW w, Arrive(t, r, w),
         left' \in 0 .. MaxEvents
  PROVE  Typed'
<1>1. Jobs'
  <2> DEFINE j == [at |-> "view", request |-> r, grant |-> grant, alive |-> TRUE,
                   copy |-> None]
  <2>1. Sound(j)
    BY DEF Sound, JobRecords, Typed, Data
  <2>2. job' = job \/ job' = [job EXCEPT ![t] = j]
    BY DEF Arrive
  <2> QED
    BY <2>1, <2>2, JobKept DEF Typed, Jobs
<1>2. next' \in Requests
  BY FollowIs DEF Arrive, Typed, Data
<1> QED
  BY <1>1, <1>2 DEF Arrive, Typed, Data

(* The page shown says where User goes next.                               *)
LEMMA RespondIs ==
  ASSUME NEW t, Respond(t), next \in Requests PROVE next' \in Requests
BY RequestsAre DEF Respond

(* The steps of a request that is served.                                  *)
LEMMA ContinueTyped ==
  ASSUME Typed, NEW t \in Threads,
         (Continue(t) /\ UNCHANGED left) \/ RejectCredentials(t)
  PROVE  Typed'
<1>0. job[t] \in JobRecords /\ (job[t].at = "flip" => job[t].copy \in Windows)
  <2>1. job[t].at # "idle"
    BY DEF Continue, Answer, ChangePassword, Enrol, Logout, CheckThrottle,
           VerifyCredentials, RecordFailure, ReadWindow, SaveWindow,
           RejectCredentials, Viewing
  <2> QED
    BY <2>1, JobIs, AtWork
<1>1. Jobs /\ Sound(Idle) /\ left \in 0 .. MaxEvents
  BY DEF Typed, Data, Sound
<1>2. CASE Answer(t)
  <2>1. Jobs'
    BY <1>1, <1>2, JobKept DEF Answer
  <2>2. grant' \in 0 .. Grace
    BY <1>0, <1>2 DEF Answer, JobRecords, Typed, Data
  <2>3. next' \in Requests
    BY <1>2, RespondIs DEF Answer, Typed, Data
  <2>4. left' \in 0 .. MaxEvents
    BY <1>1, <1>2 DEF Answer, RejectCredentials
  <2> QED
    BY <1>2, <2>1, <2>2, <2>3, <2>4 DEF Answer, Typed, Data
<1>3. CASE ChangePassword(t) /\ UNCHANGED left
  <2>1. Jobs' /\ next' \in Requests
    BY <1>1, <1>3, RotatedKept, RespondIs DEF ChangePassword, Typed, Data
  <2>2. account' \in Accounts
    BY <1>3 DEF ChangePassword, Accounts, Typed, Data
  <2>3. grant' \in 0 .. Grace /\ proof' \in 0 .. Grace
    BY <1>3, Numbers DEF ChangePassword, GrantAfterChange
  <2> QED
    BY <1>1, <1>3, <2>1, <2>2, <2>3 DEF ChangePassword, Typed, Data
<1>4. CASE Enrol(t) /\ UNCHANGED left
  <2>1. Jobs' /\ next' \in Requests
    BY <1>1, <1>4, RotatedKept, JobKept, RespondIs DEF Enrol, Typed, Data
  <2>2. account' \in Accounts
    BY <1>4 DEF Enrol, Accounts, Typed, Data
  <2>3. grant' \in 0 .. Grace
    BY <1>0, <1>4 DEF Enrol, JobRecords, Typed, Data
  <2> QED
    BY <1>1, <1>4, <2>1, <2>2, <2>3 DEF Enrol, Typed, Data
<1>5. CASE Logout(t) /\ UNCHANGED left
  <2>1. Jobs' /\ next' \in Requests
    BY <1>1, <1>5, RotatedKept, RespondIs DEF Logout, Typed, Data
  <2>2. grant' \in 0 .. Grace /\ proof' \in 0 .. Grace
    BY <1>5, Numbers DEF Logout
  <2> QED
    BY <1>1, <1>5, <2>1, <2>2 DEF Logout, Typed, Data
<1>6. CASE CheckThrottle(t) /\ UNCHANGED left
  <2>1. PICK p \in {"answer", "verify"} :
          job' = [job EXCEPT ![t] = [job[t] EXCEPT !.at = p]]
    BY <1>1, <1>6 DEF CheckThrottle, Jobs
  <2>2. Jobs'
    BY <1>0, <1>1, <2>1, SoundMoves, JobKept
  <2> QED
    BY <1>6, <2>2 DEF CheckThrottle, Typed, Data
<1>7. CASE VerifyCredentials(t) /\ UNCHANGED left
  <2>1. job' = [job EXCEPT ![t] = [job[t] EXCEPT !.at = "answer", !.grant = Grace]]
    BY <1>1, <1>7 DEF VerifyCredentials, Jobs
  <2>2. Grace \in 0 .. Grace /\ 0 \in 0 .. Grace
    BY Numbers
  <2>3. Sound([job[t] EXCEPT !.at = "answer", !.grant = Grace])
    BY <1>0, <2>2, SoundMoves
  <2>4. Jobs'
    BY <1>1, <2>1, <2>3, JobKept
  <2>5. proof' \in 0 .. Grace
    BY <1>7, <2>2 DEF VerifyCredentials, Typed, Data
  <2> QED
    BY <1>7, <2>4, <2>5 DEF VerifyCredentials, Typed, Data
<1>8. CASE RecordFailure(t) /\ UNCHANGED left
  <2>1. job' = [job EXCEPT ![t] = [job[t] EXCEPT !.at = "answer"]]
    BY <1>1, <1>8 DEF RecordFailure, Jobs
  <2>2. Jobs'
    BY <1>0, <1>1, <2>1, SoundMoves, JobKept
  <2> QED
    BY <1>8, <2>2 DEF RecordFailure, Counted, Typed, Data
<1>9. CASE ReadWindow(t) /\ UNCHANGED left
  <2>1. PICK w \in Toggled(t) :
          job' = [job EXCEPT ![t] =
                    IF w.active = window.active THEN [@ EXCEPT !.at = "answer"]
                    ELSE [@ EXCEPT !.at = "flip", !.copy = w]]
    BY <1>9 DEF ReadWindow
  <2>2. w \in Windows
    <3>1. window.readOnly \in BOOLEAN
      BY DEF Windows, Typed, Data
    <3>2. CASE w = [active |-> FALSE, readOnly |-> window.readOnly]
      BY <3>1, <3>2 DEF Windows
    <3>3. CASE \E b \in BOOLEAN : w = [active |-> TRUE, readOnly |-> b]
      BY <3>3 DEF Windows
    <3> QED
      BY <3>2, <3>3 DEF Toggled
  <2>3. \/ job' = [job EXCEPT ![t] = [job[t] EXCEPT !.at = "answer"]]
        \/ job' = [job EXCEPT ![t] = [job[t] EXCEPT !.at = "flip", !.copy = w]]
    BY <1>1, <2>1 DEF Jobs
  <2>4. Jobs'
    BY <1>0, <1>1, <2>2, <2>3, SoundMoves, JobKept
  <2> QED
    BY <1>9, <2>4 DEF ReadWindow, Typed, Data
<1>10. CASE SaveWindow(t) /\ UNCHANGED left
  <2>1. job' = [job EXCEPT ![t] = [job[t] EXCEPT !.at = "answer", !.copy = None]]
    BY <1>1, <1>10 DEF SaveWindow, Jobs
  <2>2. Jobs'
    BY <1>0, <1>1, <2>1, SoundMoves, JobKept
  <2>3. window' \in Windows
    BY <1>0, <1>10 DEF SaveWindow
  <2> QED
    BY <1>10, <2>2, <2>3 DEF SaveWindow, Typed, Data
<1>11. CASE RejectCredentials(t)
  <2>1. job' = [job EXCEPT ![t] = [job[t] EXCEPT !.at = "bump"]]
    BY <1>1, <1>11 DEF RejectCredentials, Jobs
  <2>2. Jobs'
    BY <1>0, <1>1, <2>1, SoundMoves, JobKept
  <2>3. left' \in 0 .. MaxEvents
    BY <1>1, <1>11, Numbers DEF RejectCredentials
  <2> QED
    BY <1>11, <2>2, <2>3 DEF RejectCredentials, Typed, Data
<1> QED
  BY <1>2, <1>3, <1>4, <1>5, <1>6, <1>7, <1>8, <1>9, <1>10, <1>11 DEF Continue

(* A tick ages every grant there is.                                       *)
LEMMA LessIs ==
  ASSUME NEW n \in 0 .. Grace
  PROVE  Less(n) \in 0 .. Grace /\ Less(n) <= n /\ (n > 0 => Less(n) = n - 1)
BY Numbers DEF Less

LEMMA TickJobs ==
  ASSUME Typed, Tick, NEW t \in Threads
  PROVE  /\ Sound(job'[t]) /\ job'[t].at = job[t].at
         /\ job'[t] # Idle => /\ job[t] # Idle /\ job'[t].alive = job[t].alive
                              /\ job'[t].grant = Less(job[t].grant)
<1>1. job'[t] = IF job[t] = Idle THEN Idle ELSE [job[t] EXCEPT !.grant = Less(@)]
  BY DEF Tick
<1>2. CASE job[t] = Idle
  BY <1>1, <1>2 DEF Sound
<1>3. CASE job[t] # Idle
  <2>1. PICK j \in JobRecords : j = job[t] /\ (j.at = "flip" => j.copy \in Windows)
    BY <1>3, JobIs
  <2>2. PICK g \in 0 .. Grace : g = Less(j.grant)
    BY LessIs DEF JobRecords
  <2>3. PICK j2 : j2 = [j EXCEPT !.grant = g]
    OBVIOUS
  <2>4. job'[t] = j2
    BY <1>1, <1>3, <2>1, <2>2, <2>3
  <2>5. Sound(j2) /\ j2.at = j.at /\ j2.alive = j.alive /\ j2.grant = g
    BY <2>1, <2>3, SoundMoves DEF JobRecords
  <2> QED
    BY <1>3, <2>1, <2>2, <2>4, <2>5
<1> QED
  BY <1>2, <1>3

(* Everybody else, and the clock.                                          *)
LEMMA OthersTyped ==
  ASSUME Typed, AdminReset \/ AdminUpdates \/ OtherToggles \/ Tick,
         left' \in 0 .. MaxEvents
  PROVE  Typed'
<1>1. CASE AdminReset
  <2>1. Jobs'
    BY <1>1, RotatedKept DEF AdminReset, Typed
  <2>2. account' \in Accounts
    BY <1>1 DEF AdminReset, Accounts, Typed, Data
  <2>3. grant' \in 0 .. Grace /\ proof' \in 0 .. Grace
    BY <1>1, Numbers DEF AdminReset
  <2> QED
    BY <1>1, <2>1, <2>2, <2>3 DEF AdminReset, Typed, Data
<1>2. CASE AdminUpdates
  <2>1. account' \in Accounts
    BY <1>2 DEF AdminUpdates, Accounts, Typed, Data
  <2> QED
    BY <1>2, <2>1 DEF AdminUpdates, Typed, Data, Jobs
<1>3. CASE OtherToggles
  <2>1. window' \in Windows
    BY <1>3 DEF OtherToggles, Windows, Typed, Data
  <2> QED
    BY <1>3, <2>1 DEF OtherToggles, Typed, Data, Jobs
<1>4. CASE Tick
  <2>1. job' = [t \in Threads |-> job'[t]]
    BY <1>4 DEF Tick
  <2>2. Jobs'
    BY <1>4, <2>1, TickJobs DEF Jobs
  <2>3. grant' \in 0 .. Grace
    BY <1>4, LessIs DEF Tick, Typed, Data
  <2>4. proof' \in 0 .. Grace
    BY <1>4, Numbers DEF Tick, Typed, Data
  <2> QED
    BY <1>4, <2>2, <2>3, <2>4 DEF Tick, Typed, Data
<1> QED
  BY <1>1, <1>2, <1>3, <1>4

LEMMA TypedNext == Typed /\ [Next]_vars => Typed'
<1> SUFFICES ASSUME Typed, [Next]_vars PROVE Typed'
  OBVIOUS
<1>0. left \in 0 .. MaxEvents /\ next \in Requests
      /\ (left > 0 => left - 1 \in 0 .. MaxEvents)
  BY Numbers DEF Typed, Data
<1>1. CASE UserArrives
  BY <1>0, <1>1, ArriveTyped DEF UserArrives, Threads
<1>2. CASE \E t \in Tabs : TabArrives(t)
  BY <1>0, <1>2, ArriveTyped, RequestsAre DEF TabArrives, Threads
<1>3. CASE \E t \in Threads : RejectCredentials(t) \/ (Continue(t) /\ UNCHANGED left)
  BY <1>3, ContinueTyped
<1>4. CASE left > 0 /\ left' = left - 1
           /\ (AdminReset \/ AdminUpdates \/ OtherToggles \/ Tick)
  BY <1>0, <1>4, OthersTyped
<1>5. CASE Turn
  BY <1>5 DEF Turn, Typed, Data, Jobs
<1>6. CASE UNCHANGED vars
  BY <1>6 DEF vars, Typed, Data, Jobs
<1> QED
  BY <1>1, <1>2, <1>3, <1>4, <1>5, <1>6 DEF Next

-----------------------------------------------------------------------------
(* The throttle of sudo.                                                   *)

LEMMA Crowds ==
  /\ IsFiniteSet(Guessing) /\ IsFiniteSet(Bumping) /\ Bumping \subseteq Guessing
  /\ Cardinality(Guessing) \in Nat /\ Cardinality(Bumping) \in Nat
  /\ Cardinality(Bumping) <= Cardinality(Guessing)
  /\ Cardinality(Guessing) <= Cardinality(Threads)
<1>1. Bumping \subseteq Guessing /\ Guessing \subseteq Threads
  BY DEF Bumping, Guessing
<1> QED
  BY <1>1, Numbers, FS_Subset, FS_CardinalityType

(* Nobody guesses who did not before, nobody is found wrong, and whoever   *)
(* was found wrong waits for the count.                                    *)
Calm ==
  /\ UNCHANGED <<fails, tries>>
  /\ \A s \in Threads :
       \/ job'[s].at = job[s].at
       \/ job[s].at # "bump" /\ job'[s].at \notin {"verify", "bump"}

LEMMA CalmCounts == ASSUME Typed, Typed', Counts, Calm PROVE Counts'
<1>1. Guessing' \subseteq Guessing /\ Bumping' = Bumping
  BY DEF Calm, Guessing, Bumping
<1>2. Cardinality(Guessing') <= Cardinality(Guessing) /\ Cardinality(Guessing') \in Nat
  BY <1>1, Crowds, FS_Subset, FS_CardinalityType
<1> QED
  BY <1>1, <1>2, Crowds, Numbers DEF Counts, Calm, Typed, Data

(* The throttle looks at the counter before the guess.                     *)
LEMMA CheckCounts ==
  ASSUME Typed, Typed', Counts, NEW t \in Threads, CheckThrottle(t)
  PROVE  Counts'
<1>0. UNCHANGED <<fails, tries>> /\ Jobs /\ job[t].at = "view" /\ job[t] \in JobRecords
  <2>1. job[t].at = "view"
    BY DEF CheckThrottle, Viewing
  <2> QED
    BY <2>1, JobIs, AtWork DEF CheckThrottle, Typed
<1>1. PICK p : p = IF fails >= Threshold THEN "answer" ELSE "verify"
  OBVIOUS
<1>2. job' = [job EXCEPT ![t] = [job[t] EXCEPT !.at = p]]
  BY <1>1, <1>0 DEF CheckThrottle, Jobs
<1>3. job'[t].at = p /\ \A s \in Threads : s # t => job'[s] = job[s]
  BY <1>0, <1>2 DEF Jobs, JobRecords
<1>4. CASE fails >= Threshold
  BY <1>0, <1>1, <1>3, <1>4, CalmCounts DEF Calm
<1>5. CASE ~ (fails >= Threshold)
  <2>1. Bumping' = Bumping
    BY <1>0, <1>1, <1>3, <1>5 DEF Bumping
  <2>2. Guessing' \subseteq Threads
    BY DEF Guessing
  <2>3. Cardinality(Guessing') \in Nat /\ Cardinality(Guessing') <= Cardinality(Threads)
    BY <2>2, Numbers, FS_Subset, FS_CardinalityType
  <2> QED
    BY <1>0, <1>5, <2>1, <2>3, Numbers, Crowds DEF Counts, Typed, Data
<1> QED
  BY <1>4, <1>5

(* A wrong guess, and its count.                                           *)
LEMMA GuessCounts ==
  ASSUME Typed, Typed', Counts, NEW t \in Threads,
         RejectCredentials(t) \/ RecordFailure(t)
  PROVE  Counts'
<1>0. Jobs /\ job[t] \in JobRecords /\ t \in Guessing
  <2>1. job[t].at \in {"verify", "bump"}
    BY DEF RejectCredentials, RecordFailure
  <2> QED
    BY <2>1, JobIs, AtWork DEF Typed, Guessing
<1>1. CASE RejectCredentials(t)
  <2>1. job' = [job EXCEPT ![t] = [job[t] EXCEPT !.at = "bump"]]
    BY <1>0, <1>1 DEF RejectCredentials, Jobs
  <2>2. job'[t].at = "bump" /\ \A s \in Threads : s # t => job'[s] = job[s]
    BY <1>0, <2>1 DEF Jobs, JobRecords
  <2>3. job[t].at = "verify"
    BY <1>1 DEF RejectCredentials
  <2>4. Guessing' = Guessing /\ Bumping' = Bumping \cup {t} /\ t \notin Bumping
    BY <2>2, <2>3 DEF Guessing, Bumping
  <2>5. Cardinality(Bumping') = Cardinality(Bumping) + 1
    BY <2>4, Crowds, FS_AddElement
  <2> QED
    BY <1>1, <2>4, <2>5, Crowds, Numbers DEF Counts, RejectCredentials, Typed, Data
<1>2. CASE RecordFailure(t)
  <2>1. job' = [job EXCEPT ![t] = [job[t] EXCEPT !.at = "answer"]]
    BY <1>0, <1>2 DEF RecordFailure, Jobs
  <2>2. job'[t].at = "answer" /\ \A s \in Threads : s # t => job'[s] = job[s]
    BY <1>0, <2>1 DEF Jobs, JobRecords
  <2>3. job[t].at = "bump"
    BY <1>2 DEF RecordFailure
  <2>4. Guessing' = Guessing \ {t} /\ Bumping' = Bumping \ {t} /\ t \in Bumping
    BY <2>2, <2>3 DEF Guessing, Bumping
  <2>5. /\ Cardinality(Bumping') = Cardinality(Bumping) - 1
        /\ Cardinality(Guessing') = Cardinality(Guessing) - 1
    BY <1>0, <2>4, Crowds, FS_RemoveElement
  <2>6. fails' = fails + 1 /\ tries' = tries
    BY <1>2 DEF RecordFailure, Counted
  <2> QED
    BY <2>5, <2>6, Crowds, Numbers DEF Counts, Typed, Data
<1> QED
  BY <1>1, <1>2

LEMMA OneCalm ==
  ASSUME Jobs, NEW t \in Threads, NEW j, job' = [job EXCEPT ![t] = j],
         UNCHANGED <<fails, tries>>,
         job[t].at # "bump", j.at \notin {"verify", "bump"}
  PROVE  Calm
BY DEF Jobs, Calm

LEMMA RotatedCalm ==
  ASSUME Jobs, NEW t, t \in Threads => job[t].at # "bump", Rotated(t),
         UNCHANGED <<fails, tries>>
  PROVE  Calm
<1>1. Idle.at \notin {"verify", "bump"}
  BY DEF Idle
<1>2. ASSUME NEW s \in Threads
      PROVE  \/ job'[s].at = job[s].at
             \/ job[s].at # "bump" /\ job'[s].at \notin {"verify", "bump"}
  <2>1. CASE job'[s] = Idle /\ s = t
    BY <1>1, <2>1
  <2>2. CASE job'[s] = Idle /\ job[s] = Idle
    BY <2>2
  <2>3. CASE job'[s].at = job[s].at
    BY <2>3
  <2> QED
    BY <2>1, <2>2, <2>3, RotatedKept
<1> QED
  BY <1>2 DEF Calm

(* A request begins, goes on or ends without a guess.                      *)
LEMMA ContinueCounts ==
  ASSUME Typed, Typed', Counts, NEW t \in Threads, Continue(t)
  PROVE  Counts'
<1>0. Jobs /\ Idle.at \notin {"verify", "bump"}
  BY DEF Typed, Idle
<1>1. CASE Answer(t)
  BY <1>0, <1>1, OneCalm, CalmCounts DEF Answer
<1>2. CASE ChangePassword(t)
  BY <1>0, <1>2, RotatedCalm, CalmCounts DEF ChangePassword, Viewing
<1>3. CASE Enrol(t)
  <2>1. job[t].at # "bump" /\ UNCHANGED <<fails, tries>>
    BY <1>3 DEF Enrol, Viewing
  <2>2. Rotated(t) \/ job' = [job EXCEPT ![t] = Idle]
    BY <1>3 DEF Enrol
  <2> QED
    BY <1>0, <2>1, <2>2, RotatedCalm, OneCalm, CalmCounts
<1>4. CASE Logout(t)
  BY <1>0, <1>4, RotatedCalm, CalmCounts DEF Logout, Viewing
<1>5. CASE CheckThrottle(t)
  BY <1>5, CheckCounts
<1>6. CASE VerifyCredentials(t)
  <2>1. job[t] \in JobRecords /\ job[t].at = "verify"
    BY <1>6, JobIs, AtWork DEF VerifyCredentials
  <2>2. PICK j : j = [job[t] EXCEPT !.at = "answer", !.grant = Grace]
    OBVIOUS
  <2>3. job' = [job EXCEPT ![t] = j]
    BY <1>0, <1>6, <2>2 DEF VerifyCredentials, Jobs
  <2>4. j.at = "answer"
    BY <2>1, <2>2 DEF JobRecords
  <2> QED
    BY <1>0, <1>6, <2>1, <2>3, <2>4, OneCalm, CalmCounts DEF VerifyCredentials
<1>7. CASE RecordFailure(t)
  BY <1>7, GuessCounts
<1>8. CASE ReadWindow(t)
  <2>1. job[t] \in JobRecords /\ job[t].at = "view"
    BY <1>8, JobIs, AtWork DEF ReadWindow, Viewing
  <2>2. PICK w \in Toggled(t) :
          job' = [job EXCEPT ![t] =
                    IF w.active = window.active THEN [@ EXCEPT !.at = "answer"]
                    ELSE [@ EXCEPT !.at = "flip", !.copy = w]]
    BY <1>8 DEF ReadWindow
  <2>3. PICK j : j = IF w.active = window.active THEN [job[t] EXCEPT !.at = "answer"]
                     ELSE [job[t] EXCEPT !.at = "flip", !.copy = w]
    OBVIOUS
  <2>4. job' = [job EXCEPT ![t] = j]
    BY <1>0, <2>2, <2>3 DEF Jobs
  <2>5. j.at \in {"answer", "flip"}
    BY <2>1, <2>3 DEF JobRecords
  <2> QED
    BY <1>0, <1>8, <2>1, <2>4, <2>5, OneCalm, CalmCounts DEF ReadWindow
<1>9. CASE SaveWindow(t)
  <2>1. job[t] \in JobRecords /\ job[t].at = "flip"
    BY <1>9, JobIs, AtWork DEF SaveWindow
  <2>2. PICK j : j = [job[t] EXCEPT !.at = "answer", !.copy = None]
    OBVIOUS
  <2>3. job' = [job EXCEPT ![t] = j]
    BY <1>0, <1>9, <2>2 DEF SaveWindow, Jobs
  <2>4. j.at = "answer"
    BY <2>1, <2>2 DEF JobRecords
  <2> QED
    BY <1>0, <1>9, <2>1, <2>3, <2>4, OneCalm, CalmCounts DEF SaveWindow
<1> QED
  BY <1>1, <1>2, <1>3, <1>4, <1>5, <1>6, <1>7, <1>8, <1>9 DEF Continue

LEMMA ArriveCounts ==
  ASSUME Typed, Typed', Counts, NEW t \in Threads, NEW r, NEW w, Arrive(t, r, w),
         UNCHANGED tries
  PROVE  Counts'
<1>1. Jobs /\ job[t].at # "bump" /\ UNCHANGED <<fails, tries>>
  BY DEF Arrive, Typed, Idle
<1>2. CASE job' = job
  BY <1>1, <1>2, CalmCounts DEF Calm
<1>3. CASE job' # job
  <2>1. PICK j : j = [at |-> "view", request |-> r, grant |-> grant, alive |-> TRUE,
                      copy |-> None]
    OBVIOUS
  <2>2. job' = [job EXCEPT ![t] = j] /\ j.at = "view"
    BY <1>3, <2>1 DEF Arrive
  <2> QED
    BY <1>1, <2>2, OneCalm, CalmCounts
<1> QED
  BY <1>2, <1>3

LEMMA CountsNext == Typed /\ Typed' /\ Counts /\ [Next]_vars => Counts'
<1> SUFFICES ASSUME Typed, Typed', Counts, [Next]_vars PROVE Counts'
  OBVIOUS
<1>0. Jobs
  BY DEF Typed
<1>1. CASE UserArrives
  BY <1>1, ArriveCounts DEF UserArrives, Arrive, Threads
<1>2. CASE \E t \in Tabs : TabArrives(t)
  <2>1. PICK t \in Tabs : \E r, w : Arrive(t, r, w)
    BY <1>2 DEF TabArrives
  <2> QED
    BY <2>1, ArriveCounts DEF Arrive, Threads
<1>3. CASE \E t \in Threads : RejectCredentials(t) \/ (Continue(t) /\ UNCHANGED left)
  BY <1>3, ContinueCounts, GuessCounts
<1>4. CASE AdminReset
  <2>1. Rotated(None) /\ UNCHANGED <<fails, tries>>
    BY <1>4 DEF AdminReset
  <2> QED
    BY <1>0, <2>1, GatesAssumption, RotatedCalm, CalmCounts
<1>5. CASE AdminUpdates \/ OtherToggles
  BY <1>5, CalmCounts DEF AdminUpdates, OtherToggles, Calm
<1>6. CASE Tick
  BY <1>6, TickJobs, CalmCounts DEF Tick, Calm
<1>7. CASE Turn
  <2>1. Guessing' = Guessing /\ Bumping' = Bumping /\ fails' = 0 /\ tries' = 0
    BY <1>7 DEF Turn, Guessing, Bumping
  <2> QED
    BY <2>1, Crowds, Numbers DEF Counts
<1>8. CASE UNCHANGED vars
  BY <1>8, CalmCounts DEF vars, Calm
<1> QED
  BY <1>1, <1>2, <1>3, <1>4, <1>5, <1>6, <1>7, <1>8 DEF Next

-----------------------------------------------------------------------------
(* Grants and the credentials behind them.                                 *)

Aged(j, p) == j # Idle /\ j.alive => Late(j.grant, p)

LEMMA ProofsAre == Proofs <=> Late(grant, proof) /\ \A t \in Threads : Aged(job[t], proof)
BY DEF Proofs, Aged

(* Newer credentials do no harm.                                           *)
LEMMA Newer ==
  ASSUME NEW j, Sound(j), NEW p \in 0 .. Grace, NEW q \in 0 .. Grace, q <= p
  PROVE  /\ Aged(j, p) => Aged(j, q)
         /\ \A g \in 0 .. Grace : Late(g, p) => Late(g, q)
         /\ Aged(j, 0)
<1>1. \A g \in 0 .. Grace : (Late(g, p) => Late(g, q)) /\ Late(g, 0)
  BY Numbers DEF Late
<1>2. j # Idle => j.grant \in 0 .. Grace
  BY DEF Sound, JobRecords
<1> QED
  BY <1>1, <1>2 DEF Aged

(* One job changes, and the credentials are not older for it.              *)
LEMMA OneProof ==
  ASSUME Typed, Typed', Proofs, NEW t \in Threads, NEW j, job' = [job EXCEPT ![t] = j],
         proof' <= proof, Late(grant', proof'), Aged(j, proof')
  PROVE  Proofs'
<1>1. job'[t] = j /\ \A s \in Threads : s # t => job'[s] = job[s]
  BY DEF Typed, Jobs
<1>2. \A s \in Threads : Sound(job[s])
  BY DEF Typed, Jobs
<1>3. proof \in 0 .. Grace /\ proof' \in 0 .. Grace
  BY DEF Typed, Data
<1>4. ASSUME NEW s \in Threads PROVE Aged(job'[s], proof')
  <2>1. CASE s = t
    BY <1>1, <2>1
  <2>2. CASE s # t
    BY <1>1, <1>2, <1>3, <2>2, Newer, ProofsAre
  <2> QED
    BY <2>1, <2>2
<1> QED
  BY <1>4 DEF Proofs, Aged

(* The copies that a rotation leaves are dead, and the clock may stand     *)
(* where it will.                                                          *)
LEMMA RotatedProofs ==
  ASSUME Typed, NEW t, Rotated(t), Late(grant', proof') PROVE Proofs'
<1>1. \A s \in Threads : job'[s] # Idle => ~ job'[s].alive
  BY RotatedKept DEF Typed
<1> QED
  BY <1>1 DEF Proofs

LEMMA ContinueProofs ==
  ASSUME Typed, Typed', Proofs, NEW t \in Threads,
         Continue(t) \/ RejectCredentials(t)
  PROVE  Proofs'
<1>0. /\ Jobs /\ job[t] # Idle /\ job[t] \in JobRecords
      /\ proof \in 0 .. Grace /\ proof' \in 0 .. Grace /\ Grace \in Nat
      /\ Late(grant, proof) /\ Aged(job[t], proof)
      /\ \A p : Aged(Idle, p) /\ Late(0, p)
  <2>1. job[t].at # "idle"
    BY DEF Continue, Answer, ChangePassword, Enrol, Logout, CheckThrottle,
           VerifyCredentials, RecordFailure, ReadWindow, SaveWindow,
           RejectCredentials, Viewing
  <2>2. \A p : Aged(Idle, p) /\ Late(0, p)
    BY DEF Aged, Late
  <2> QED
    BY <2>1, <2>2, JobIs, AtWork, ProofsAre, Numbers DEF Typed, Data
<1>1. CASE Answer(t)
  <2>1. job' = [job EXCEPT ![t] = Idle] /\ proof' = proof
    BY <1>1 DEF Answer
  <2>2. Late(grant', proof')
    BY <1>0, <1>1 DEF Answer, Aged
  <2>3. proof' <= proof /\ Aged(Idle, proof')
    BY <1>0, <2>1
  <2> QED
    BY <2>1, <2>2, <2>3, OneProof
<1>2. CASE ChangePassword(t)
  BY <1>0, <1>2, RotatedProofs DEF ChangePassword, GrantAfterChange
<1>3. CASE Enrol(t)
  <2>1. CASE job[t].alive
    <3>1. Rotated(t) /\ grant' = job[t].grant /\ proof' = proof
      BY <1>3, <2>1 DEF Enrol
    <3>2. Late(grant', proof')
      BY <1>0, <2>1, <3>1 DEF Aged
    <3> QED
      BY <3>1, <3>2, RotatedProofs
  <2>2. CASE ~ job[t].alive
    <3>1. job' = [job EXCEPT ![t] = Idle] /\ grant' = grant /\ proof' = proof
      BY <1>3, <2>2 DEF Enrol
    <3>2. proof' <= proof /\ Aged(Idle, proof') /\ Late(grant', proof')
      BY <1>0, <3>1
    <3> QED
      BY <3>1, <3>2, OneProof
  <2> QED
    BY <2>1, <2>2
<1>4. CASE Logout(t)
  BY <1>0, <1>4, RotatedProofs DEF Logout
<1>5. CASE CheckThrottle(t) \/ RecordFailure(t) \/ RejectCredentials(t)
  <2>1. PICK p : job' = [job EXCEPT ![t] = [job[t] EXCEPT !.at = p]]
    BY <1>0, <1>5 DEF CheckThrottle, RecordFailure, RejectCredentials, Jobs
  <2>2. PICK j : j = [job[t] EXCEPT !.at = p]
    OBVIOUS
  <2>3. Aged(j, proof)
    BY <1>0, <2>2 DEF Aged, JobRecords
  <2>4. grant' = grant /\ proof' = proof
    BY <1>5 DEF CheckThrottle, RecordFailure, RejectCredentials
  <2>5. proof' <= proof /\ Aged(j, proof') /\ Late(grant', proof')
    BY <1>0, <2>3, <2>4
  <2> QED
    BY <2>1, <2>2, <2>5, OneProof
<1>6. CASE VerifyCredentials(t)
  <2>1. PICK j : j = [job[t] EXCEPT !.at = "answer", !.grant = Grace]
    OBVIOUS
  <2>2. job' = [job EXCEPT ![t] = j]
    BY <1>0, <1>6, <2>1 DEF VerifyCredentials, Jobs
  <2>3. j.grant = Grace /\ j.alive = job[t].alive
    BY <1>0, <2>1 DEF JobRecords
  <2>4. grant' = grant /\ proof' = (IF job[t].alive THEN 0 ELSE proof)
    BY <1>6 DEF VerifyCredentials
  <2>5. proof' <= proof
    BY <1>0, <2>4
  <2>6. Late(grant', proof')
    BY <1>0, <2>4, <2>5 DEF Late, Typed, Data
  <2>7. Aged(j, proof')
    BY <1>0, <2>3, <2>4 DEF Aged, Late
  <2> QED
    BY <2>2, <2>5, <2>6, <2>7, OneProof
<1>7. CASE ReadWindow(t)
  <2>1. PICK w \in Toggled(t) :
          job' = [job EXCEPT ![t] =
                    IF w.active = window.active THEN [@ EXCEPT !.at = "answer"]
                    ELSE [@ EXCEPT !.at = "flip", !.copy = w]]
    BY <1>7 DEF ReadWindow
  <2>2. PICK j : j = IF w.active = window.active THEN [job[t] EXCEPT !.at = "answer"]
                     ELSE [job[t] EXCEPT !.at = "flip", !.copy = w]
    OBVIOUS
  <2>3. job' = [job EXCEPT ![t] = j]
    BY <1>0, <2>1, <2>2 DEF Jobs
  <2>4. Aged(j, proof)
    BY <1>0, <2>2 DEF Aged, JobRecords
  <2>5. grant' = grant /\ proof' = proof
    BY <1>7 DEF ReadWindow
  <2>6. proof' <= proof /\ Aged(j, proof') /\ Late(grant', proof')
    BY <1>0, <2>4, <2>5
  <2> QED
    BY <2>3, <2>6, OneProof
<1>8. CASE SaveWindow(t)
  <2>1. PICK j : j = [job[t] EXCEPT !.at = "answer", !.copy = None]
    OBVIOUS
  <2>2. job' = [job EXCEPT ![t] = j]
    BY <1>0, <1>8, <2>1 DEF SaveWindow, Jobs
  <2>3. Aged(j, proof)
    BY <1>0, <2>1 DEF Aged, JobRecords
  <2>4. grant' = grant /\ proof' = proof
    BY <1>8 DEF SaveWindow
  <2>5. proof' <= proof /\ Aged(j, proof') /\ Late(grant', proof')
    BY <1>0, <2>3, <2>4
  <2> QED
    BY <2>2, <2>5, OneProof
<1> QED
  BY <1>1, <1>2, <1>3, <1>4, <1>5, <1>6, <1>7, <1>8 DEF Continue

LEMMA ArriveProofs ==
  ASSUME Typed, Typed', Proofs, NEW t \in Threads, NEW r, NEW w, Arrive(t, r, w)
  PROVE  Proofs'
<1>1. /\ grant' = grant /\ proof' = proof /\ proof \in 0 .. Grace
      /\ Late(grant, proof)
  BY DEF Arrive, Proofs, Typed, Data
<1>2. CASE job' = job
  BY <1>1, <1>2 DEF Proofs
<1>3. CASE job' # job
  <2>1. PICK j : j = [at |-> "view", request |-> r, grant |-> grant, alive |-> TRUE,
                      copy |-> None]
    OBVIOUS
  <2>2. job' = [job EXCEPT ![t] = j] /\ j.grant = grant
    BY <1>3, <2>1 DEF Arrive
  <2>3. proof' <= proof /\ Aged(j, proof') /\ Late(grant', proof')
    BY <1>1, <2>2 DEF Aged
  <2> QED
    BY <2>2, <2>3, OneProof
<1> QED
  BY <1>2, <1>3

(* Grants shrink at least as fast as the credentials age.                  *)
LEMMA TickProofs == ASSUME Typed, Proofs, Tick PROVE Proofs'
<1>1. ASSUME NEW g \in 0 .. Grace, Late(g, proof) PROVE Late(Less(g), proof')
  <2>1. /\ proof \in 0 .. Grace /\ Grace \in Nat
        /\ proof' = IF proof < Grace THEN proof + 1 ELSE Grace
    BY Numbers DEF Tick, Typed, Data
  <2> QED
    BY <1>1, <2>1 DEF Late, Less
<1>2. Late(grant', proof')
  BY <1>1 DEF Proofs, Tick, Typed, Data
<1>3. ASSUME NEW t \in Threads, job'[t] # Idle, job'[t].alive
      PROVE  Late(job'[t].grant, proof')
  <2>1. job[t] # Idle /\ job[t].alive /\ job'[t].grant = Less(job[t].grant)
    BY <1>3, TickJobs
  <2>2. job[t].grant \in 0 .. Grace
    BY <2>1, JobIs DEF JobRecords
  <2> QED
    BY <1>1, <2>1, <2>2 DEF Proofs
<1> QED
  BY <1>2, <1>3 DEF Proofs

LEMMA ProofsNext == Typed /\ Typed' /\ Proofs /\ [Next]_vars => Proofs'
<1> SUFFICES ASSUME Typed, Typed', Proofs, [Next]_vars PROVE Proofs'
  OBVIOUS
<1>1. CASE UserArrives
  BY <1>1, ArriveProofs DEF UserArrives, Threads
<1>2. CASE \E t \in Tabs : TabArrives(t)
  <2>1. PICK t \in Tabs : \E r, w : Arrive(t, r, w)
    BY <1>2 DEF TabArrives
  <2> QED
    BY <2>1, ArriveProofs DEF Threads
<1>3. CASE \E t \in Threads : RejectCredentials(t) \/ (Continue(t) /\ UNCHANGED left)
  BY <1>3, ContinueProofs
<1>4. CASE AdminReset
  BY <1>4, RotatedProofs DEF AdminReset, Late
<1>5. CASE AdminUpdates \/ OtherToggles
  BY <1>5 DEF AdminUpdates, OtherToggles, Proofs
<1>6. CASE Tick
  BY <1>6, TickProofs
<1>7. CASE Turn
  BY <1>7 DEF Turn, Proofs
<1>8. CASE UNCHANGED vars
  BY <1>8 DEF vars, Proofs
<1> QED
  BY <1>1, <1>2, <1>3, <1>4, <1>5, <1>6, <1>7, <1>8 DEF Next

-----------------------------------------------------------------------------
(* All of it, along the whole behaviour.                                   *)

LEMMA InitInv == Init => IInv
<1> SUFFICES ASSUME Init PROVE IInv
  OBVIOUS
<1>1. Typed
  <2>1. account \in Accounts /\ window \in Windows
    BY DEF Init
  <2>2. Jobs
    BY DEF Init, Jobs, Sound
  <2>3. next \in Requests
    BY RequestsAre DEF Init, Paths
  <2> QED
    BY <2>1, <2>2, <2>3, Numbers DEF Init, Typed, Data
<1>2. Counts
  <2>1. Guessing = {} /\ Bumping = {}
    BY DEF Init, Idle, Guessing, Bumping
  <2>2. fails = 0 /\ tries = 0
    BY DEF Init
  <2> QED
    BY <2>1, <2>2, Numbers, FS_EmptySet DEF Counts
<1>3. Proofs
  BY DEF Init, Proofs, Late
<1> QED
  BY <1>1, <1>2, <1>3 DEF IInv

LEMMA NextInv == IInv /\ [Next]_vars => IInv'
BY TypedNext, CountsNext, ProofsNext DEF IInv

LEMMA AlwaysInv == Spec => []IInv
BY InitInv, NextInv, PTL DEF Spec

(* However many tabs guess at the sudo credentials at once, one bucket of  *)
(* admin_sudo's throttle lets fewer wrong guesses through than its         *)
(* threshold and the requests of the session together: every guess whose   *)
(* count is not in yet belongs to a request that is still under way.       *)
THEOREM SudoGuessesAlwaysBounded == Spec => []SudoGuessesBounded
<1>1. IInv => SudoGuessesBounded
  BY Crowds, Numbers DEF IInv, Counts, Typed, Data, SudoGuessesBounded
<1> QED
  BY <1>1, AlwaysInv, PTL

(* Every variable of Gates stays within its range, the two counters of the *)
(* throttle below the threshold and one guess per request: none of them    *)
(* outgrows what the model, for a check, has to bound.                     *)
THEOREM GatesTyped == Spec => []TypeOK
<1>1. IInv => TypeOK
  <2> SUFFICES ASSUME IInv PROVE TypeOK
    OBVIOUS
  <2>1. ASSUME NEW t \in Threads
        PROVE  job[t] = Idle \/
                 /\ job[t].at \in {"view", "verify", "bump", "flip", "answer"}
                 /\ job[t].request \in Requests
                 /\ job[t].grant \in 0 .. Grace
                 /\ job[t].alive \in BOOLEAN
                 /\ job[t].copy \in Windows \cup {None}
    BY DEF IInv, Typed, Jobs, Sound, JobRecords
  <2>2. /\ fails \in 0 .. Threshold + Cardinality(Threads)
        /\ tries \in 0 .. Threshold + Cardinality(Threads)
    BY Crowds, Numbers DEF IInv, Counts, Typed, Data
  <2> QED
    BY <2>1, <2>2 DEF IInv, Typed, Data, TypeOK
<1> QED
  BY <1>1, AlwaysInv, PTL

-----------------------------------------------------------------------------
(* A request behind sudo that is let through.                              *)

LEMMA Names ==
  /\ \A p : Get(p).path = p /\ Get(p).write = FALSE
  /\ \A p : Post(p).path = p /\ Post(p).write = TRUE
  /\ \A p, q : Get(p) # Post(q)
BY DEF Get, Post

LEMMA SudoAsked ==
  ASSUME NEW r \in {Post("maintenance"), Post("native"), Get("native")}, NEW w,
         Verdict(r, w) = "serve"
  PROVE  grant # 0
<1>1. ~ (Refused503(r, w) \/ MustChange(r) \/ MfaRequired(r) \/ AdminDenied(r))
  BY DEF Verdict
<1>2. CASE r = Post("maintenance")
  BY <1>1, <1>2 DEF Verdict
<1>3. CASE r.path = "native"
  <2>1. r # Post("maintenance") /\ r # Get("password")
    BY <1>3, Names
  <2> QED
    BY <1>1, <1>3, <2>1 DEF Verdict, NativeDenied
<1> QED
  BY <1>2, <1>3, Names

(* The job of a request is its own from the beginning, and never another's.*)
LEMMA BeginsServed ==
  ASSUME Typed, Next, NEW t \in Threads, job[t] = Idle, job'[t] # Idle
  PROVE  \E w : Verdict(job'[t].request, w) = "serve"
<1>0. Jobs /\ job[t].at = "idle"
  BY DEF Typed, Idle
<1>1. ASSUME NEW s \in Threads, NEW r, NEW w, Arrive(s, r, w)
      PROVE  \E x : Verdict(job'[t].request, x) = "serve"
  <2>1. PICK j : j = [at |-> "view", request |-> r, grant |-> grant, alive |-> TRUE,
                      copy |-> None]
    OBVIOUS
  <2>2. Verdict(r, w) = "serve" /\ job' = [job EXCEPT ![s] = j] /\ j.request = r
    BY <1>1, <2>1 DEF Arrive
  <2>3. job'[t] = j
    BY <1>0, <2>2 DEF Jobs
  <2> QED
    BY <2>2, <2>3
<1>2. ASSUME NEW s \in Threads, Continue(s) \/ RejectCredentials(s) PROVE FALSE
  <2>1. job[s].at # "idle" /\ s # t
    BY <1>0, <1>2 DEF Continue, Answer, ChangePassword, Enrol, Logout, CheckThrottle,
           VerifyCredentials, RecordFailure, ReadWindow, SaveWindow,
           RejectCredentials, Viewing
  <2>2. Rotated(s) \/ \E j : job' = [job EXCEPT ![s] = j]
    BY <1>2 DEF Continue, Answer, ChangePassword, Enrol, Logout, CheckThrottle,
           VerifyCredentials, RecordFailure, ReadWindow, SaveWindow,
           RejectCredentials
  <2>3. CASE Rotated(s)
    BY <2>1, <2>3 DEF Rotated
  <2>4. CASE \E j : job' = [job EXCEPT ![s] = j]
    BY <1>0, <2>1, <2>4 DEF Jobs
  <2> QED
    BY <2>2, <2>3, <2>4
<1>3. CASE AdminReset \/ AdminUpdates \/ OtherToggles \/ Tick \/ Turn
  BY <1>3 DEF AdminReset, Rotated, AdminUpdates, OtherToggles, Tick, Turn
<1> QED
  BY <1>1, <1>2, <1>3 DEF Next, UserArrives, TabArrives, Threads

(* The native admin and the maintenance form are served only to a session  *)
(* that proved password and code less than a grace period ago, for every   *)
(* order in which the saves of its sessions land.                          *)
THEOREM ActsAlwaysOnFreshProof == Spec => ActsOnFreshProof
<1>1. IInv /\ [Next]_vars =>
        [\A t \in Threads :
           /\ job[t] = Idle /\ job'[t] # Idle
           /\ job'[t].request \in {Post("maintenance"), Post("native"), Get("native")}
           => proof < Grace]_vars
  <2> SUFFICES ASSUME IInv, Next, NEW t \in Threads, job[t] = Idle, job'[t] # Idle,
                      job'[t].request \in {Post("maintenance"), Post("native"), Get("native")}
               PROVE  proof < Grace
    OBVIOUS
  <2>1. grant # 0
    BY BeginsServed, SudoAsked DEF IInv
  <2> QED
    BY <2>1, Numbers DEF IInv, Typed, Data, Proofs, Late
<1> QED
  BY <1>1, AlwaysInv, PTL DEF Spec, ActsOnFreshProof

-----------------------------------------------------------------------------
(* Where a page sends a browser.                                           *)

LEMMA VerdictOfPage ==
  ASSUME NEW p \in Paths, NEW w
  PROVE  LET mfa == account.required /\ ~account.enrolled
         IN  Verdict(Get(p), w) =
               IF account.must /\ p \notin {"password", "logout"} THEN "password"
               ELSE IF \/ mfa /\ p \notin {"profile", "logout", "password", "mfa"}
                       \/ p \in {"admin", "sudo", "maintenance"} /\ ~account.super
                    THEN "profile"
               ELSE IF p = "native" /\ account.super /\ grant = 0 THEN "admin"
               ELSE IF p = "password" /\ ~account.must THEN "profile"
               ELSE IF p = "native" /\ ~account.super THEN "forbidden"
               ELSE "serve"
<1> DEFINE r == Get(p)
<1>1. r.path = p /\ r.write = FALSE /\ r # Post("maintenance")
  BY Names
<1>2. r = Get("password") <=> p = "password"
  BY Names
<1>3. ~ Refused503(r, w)
  BY <1>1 DEF Refused503
<1>4. MustChange(r) <=> account.must /\ p \notin {"password", "logout"}
  BY <1>1 DEF MustChange, MustChangeAllowed
<1>5. MfaRequired(r) <=> /\ account.required /\ ~account.enrolled
                         /\ p \notin {"profile", "logout", "password", "mfa"}
  BY <1>1 DEF MfaRequired, MfaRequiredAllowed
<1>6. AdminDenied(r) <=> p \in {"admin", "sudo", "maintenance"} /\ ~account.super
  BY <1>1 DEF AdminDenied
<1>7. NativeDenied(r) <=> p = "native" /\ account.super /\ grant = 0
  BY <1>1 DEF NativeDenied
<1> HIDE DEF r
<1>8. Verdict(r, w) =
        IF MustChange(r) THEN "password"
        ELSE IF MfaRequired(r) \/ AdminDenied(r) THEN "profile"
        ELSE IF NativeDenied(r) THEN "admin"
        ELSE IF p = "password" /\ ~account.must THEN "profile"
        ELSE IF p = "native" /\ ~account.super THEN "forbidden"
        ELSE "serve"
  BY <1>1, <1>2, <1>3 DEF Verdict
<1> QED
  BY <1>4, <1>5, <1>6, <1>7, <1>8 DEF r

(* A page that another one sends to sends nowhere.                         *)
LEMMA OneHop ==
  ASSUME NEW p \in Paths, NEW w, Verdict(Get(p), w) \in Paths
  PROVE  Verdict(Get(Verdict(Get(p), w)), w) \notin Paths
<1>0. "serve" \notin Paths /\ {"password", "profile", "admin"} \subseteq Paths
  BY DEF Paths
<1>1. PICK v : v = Verdict(Get(p), w)
  OBVIOUS
<1>2. CASE v = "password"
  <2>1. account.must
    BY <1>1, <1>2, VerdictOfPage
  <2> QED
    BY <1>0, <1>1, <1>2, <2>1, VerdictOfPage
<1>3. CASE v = "profile"
  <2>1. ~ account.must
    BY <1>1, <1>3, VerdictOfPage
  <2> QED
    BY <1>0, <1>1, <1>3, <2>1, VerdictOfPage
<1>4. CASE v = "admin"
  <2>1. ~ account.must /\ account.super /\ ~ (account.required /\ ~account.enrolled)
    BY <1>1, <1>4, VerdictOfPage
  <2> QED
    BY <1>0, <1>1, <1>4, <2>1, VerdictOfPage
<1>5. v \in {"password", "profile", "admin"}
  BY <1>1, VerdictOfPage DEF Paths
<1> QED
  BY <1>2, <1>3, <1>4, <1>5

(* Wherever a browser starts, and whatever its account and the window,     *)
(* the gates of middleware.py and the views behind them agree on a page    *)
(* that answers: what one gate demands, no other one forbids.              *)
THEOREM RedirectsAlwaysEnd == Spec => []RedirectsEnd
<1>1. RedirectsEnd
  <2> SUFFICES ASSUME NEW p \in Paths
               PROVE  Verdict(Get(Hop(Hop(p))), window) \notin Paths
    BY DEF RedirectsEnd
  <2>1. ASSUME NEW q \in Paths
        PROVE  Hop(q) \in Paths /\ Verdict(Get(Hop(q)), window) \notin Paths
    BY OneHop DEF Hop
  <2> QED
    BY <2>1
<1> QED
  BY <1>1, PTL
=============================================================================
