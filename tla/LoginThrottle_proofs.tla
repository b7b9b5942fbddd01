------------------------ MODULE LoginThrottle_proofs ------------------------
(***************************************************************************)
(* Proofs about LoginThrottle, for any number of requests and addresses,   *)
(* any windows and any caps.                                               *)
(*                                                                         *)
(* The ceilings hold because a reservation precedes the count that judges  *)
(* it: the rows of a window hold, beside every attempt let through, those  *)
(* that still wait for their verdict.  IInv says so with cardinalities.    *)
(*                                                                         *)
(* An account is locked for good only on evidence because each row the     *)
(* loop counts adds one to a set of rows that are far enough apart.        *)
(***************************************************************************)
EXTENDS LoginThrottle, FiniteSetTheorems, WellFoundedInduction, TLAPS

(* The requests whose reservation is in the given row, not yet judged.     *)
Waiting(row) == {w \in Workers : att[w].step = "verify" /\ mine[w] = row}

(* The requests of an address that have passed its gate and may yet fail.  *)
InFlight(ip) == {w \in Workers : att[w] \in Underway /\ att[w].ip = ip}

Reserved ==
  /\ \A w \in Workers : mine[w] # "gone" => att[w].step = "verify"
  /\ admitted.cur + Cardinality(Waiting("cur")) <= gate.cur
  /\ admitted.prev <= gate.prev

Budgeted ==
  \A i \in Ips : ipFails[i].cur + Cardinality(InFlight(i))
                   <= IpMax - 1 + Cardinality(Workers)

IInv == TypeOK /\ Reserved /\ HardCeiling /\ SlidingCeiling /\ Budgeted

-----------------------------------------------------------------------------
(* Arithmetic of the sliding count.                                        *)

LEMMA DivBelow ==
  ASSUME NEW x \in Nat, NEW d \in Nat \ {0}, NEW q \in Int, x < (q + 1) * d
  PROVE  x \div d <= q
<1> DEFINE r == x \div d
<1>1. r \in Int /\ d * r <= x
  BY Z3
<1>2. d * r < d * (q + 1)
  BY <1>1, Z3
<1>3. ~ (q + 1 <= r)
  <2> SUFFICES ASSUME q + 1 <= r PROVE FALSE
    OBVIOUS
  <2>1. d * (q + 1) <= d * r
    BY <1>1, Z3
  <2> QED BY <1>1, <1>2, <2>1, Z3
<1> QED BY <1>1, <1>3

LEMMA DivAbove ==
  ASSUME NEW x \in Nat, NEW d \in Nat \ {0}
  PROVE  x \div d \in Nat /\ x < (x \div d + 1) * d
BY Z3

(* The share of the previous window that has slid out is part of it.       *)
LEMMA ShareBound ==
  ASSUME NEW p \in Nat, NEW e \in Nat, NEW d \in Nat \ {0}, e < d
  PROVE  (p * e) \div d \in 0..p
<1>1. p * e \in Nat /\ p * e < (p + 1) * d
  BY Z3
<1> QED BY <1>1, DivBelow, DivAbove

LEMMA Distribute ==
  ASSUME NEW k \in Int, NEW m \in Int, NEW d \in Int
  PROVE  /\ (k + m) * d = k * d + m * d
         /\ (k + m + 1) * d = (k + 1) * d + m * d
BY Z3

(* The share that still counts grows with the window it is a share of.     *)
LEMMA ShareMonotone ==
  ASSUME NEW a \in Nat, NEW p \in Nat, NEW e \in Nat, NEW d \in Nat \ {0},
         e < d, a <= p
  PROVE  (p * e) \div d <= (a * e) \div d + (p - a)
<1>1. a * e \in Nat /\ p * e \in Nat
  BY Z3
<1>2. PICK k \in Nat : k = (a * e) \div d /\ a * e < (k + 1) * d
  BY <1>1, DivAbove
<1>3. PICK m \in Nat : m = p - a
  OBVIOUS
<1>4. p * e = a * e + m * e /\ m * e <= m * d
  <2>1. p = a + m
    BY <1>3
  <2>2. m * e <= m * d
    BY Z3
  <2> QED BY <2>1, <2>2, Distribute
<1>5. p * e < (k + m + 1) * d
  <2>1. (k + m + 1) * d = (k + 1) * d + m * d
    BY Distribute
  <2>2. (k + 1) * d \in Int /\ m * d \in Int /\ m * e \in Int
    BY Z3
  <2> QED BY <1>1, <1>2, <1>4, <2>1, <2>2
<1>6. (p * e) \div d <= k + m
  BY <1>1, <1>5, DivBelow
<1> QED BY <1>2, <1>3, <1>6

(* It shrinks as time goes by.                                             *)
LEMMA ShareLater ==
  ASSUME NEW a \in Nat, NEW e \in Nat, NEW f \in Nat, NEW d \in Nat \ {0}, e <= f
  PROVE  (a * e) \div d <= (a * f) \div d
<1>1. a * e \in Nat /\ a * f \in Nat /\ a * e <= a * f
  BY Z3
<1>2. a * f < ((a * f) \div d + 1) * d /\ (a * f) \div d \in Nat
  BY <1>1, DivAbove
<1>3. a * e < ((a * f) \div d + 1) * d
  BY <1>1, <1>2, Z3
<1> QED BY <1>1, <1>2, <1>3, DivBelow

LEMMA DivMod ==
  ASSUME NEW n \in Nat, NEW d \in Nat \ {0}
  PROVE  \E q \in Nat : n = q * d + (n % d) /\ n % d \in 0..d-1
<1>1. n \div d \in Nat
  BY DivAbove
<1>2. n % d \in 0..d-1
  OBVIOUS
<1>3. n = d * (n \div d) + (n % d)
  BY Z3
<1>4. d * (n \div d) = (n \div d) * d
  BY <1>1, Z3
<1> QED BY <1>1, <1>2, <1>3, <1>4

(* Between two turns of a window its elapsed time grows by one.            *)
LEMMA NextElapsed ==
  ASSUME NEW n \in Nat, NEW d \in Nat \ {0}, (n + 1) % d # 0
  PROVE  (n + 1) % d = (n % d) + 1
<1>1. PICK q \in Nat, r \in 0..d-1 : n = q * d + r /\ r = n % d
  BY DivMod
<1>2. PICK p \in Nat, s \in 0..d-1 : n + 1 = p * d + s /\ s = (n + 1) % d
  <2>1. n + 1 \in Nat
    OBVIOUS
  <2> QED BY <2>1, DivMod
<1>3. q * d \in Nat /\ p * d \in Nat
  BY Z3
<1>4. CASE p = q
  <2>1. PICK m \in Nat : m = q * d /\ m = p * d
    BY <1>3, <1>4
  <2>2. n = m + r /\ n + 1 = m + s
    BY <1>1, <1>2, <2>1
  <2>3. s = r + 1
    BY <2>2
  <2> QED BY <1>1, <1>2, <2>3
<1>5. CASE p <= q - 1
  <2>1. p * d <= (q - 1) * d
    BY <1>5, Z3
  <2>2. (q - 1) * d = q * d - d
    BY Z3
  <2> QED BY <1>1, <1>2, <1>3, <2>1, <2>2
<1>6. CASE q + 1 <= p
  <2>1. (q + 1) * d <= p * d
    BY <1>6, Z3
  <2>2. (q + 1) * d = q * d + d
    BY Z3
  <2> QED BY <1>1, <1>2, <1>3, <2>1, <2>2
<1> QED BY <1>4, <1>5, <1>6

LEMMA Constants ==
  /\ Window \in Nat \ {0} /\ IpWindow \in Nat \ {0} /\ Recent \in Nat \ {0}
  /\ UserMax \in Nat \ {0} /\ IpMax \in Nat \ {0}
  /\ MaxTime \in Nat /\ MaxBumps \in Nat
  /\ IsFiniteSet(Workers) /\ Cardinality(Workers) \in Nat
BY ThrottleAssumption, FS_CardinalityType

LEMMA ElapsedType ==
  ASSUME NEW size \in Nat \ {0}, now \in Nat
  PROVE  Elapsed(size) \in Nat /\ Elapsed(size) < size
BY DEF Elapsed

(* The count that judges a reservation is never below its own window's.    *)
LEMMA SlidingCountsAll ==
  ASSUME NEW c \in Counter, NEW size \in Nat \ {0}, now \in Nat
  PROVE  Sliding(c, size) \in Nat /\ c.cur <= Sliding(c, size)
<1>1. c.cur \in Nat /\ c.prev \in Nat
  BY DEF Counter
<1>2. (c.prev * Elapsed(size)) \div size \in 0..c.prev
  BY <1>1, ElapsedType, ShareBound
<1> QED BY <1>1, <1>2 DEF Sliding

-----------------------------------------------------------------------------
(* Types.                                                                  *)

LEMMA CounterTypes ==
  /\ Zero \in Counter /\ Zero.cur = 0 /\ Zero.prev = 0
  /\ \A c \in Counter :
       /\ c.cur \in Nat /\ c.prev \in Nat
       /\ Bump(c) \in Counter /\ Bump(c).cur = c.cur + 1 /\ Bump(c).prev = c.prev
       /\ Turn(c) \in Counter /\ Turn(c).cur = 0 /\ Turn(c).prev = c.cur
BY DEF Counter, Zero, Bump, Turn

(* A request that has passed the gates holds a record with an address.     *)
LEMMA UnderwayTypes ==
  ASSUME TypeOK, NEW w \in Workers,
         att[w].step \in {"reserve", "verify", "admitted"}
  PROVE  /\ att[w] \in Underway /\ att[w].ip \in Ips /\ att[w].kind \in Kinds
         /\ \A step \in {"reserve", "verify", "admitted"} :
              /\ [att EXCEPT ![w].step = step]
                    = [att EXCEPT ![w] = [att[w] EXCEPT !.step = step]]
              /\ [att[w] EXCEPT !.step = step] \in Underway
              /\ [att[w] EXCEPT !.step = step].step = step
              /\ [att[w] EXCEPT !.step = step].ip = att[w].ip
BY DEF TypeOK, Underway, Idle, Ladder

LEMMA LockoutTypes ==
  ASSUME TypeOK, NEW kind \in Kinds, RecordLockout(kind)
  PROVE  lockouts' \in [0..MaxTime -> 0..Recent]
<1>1. CASE kind = "password" /\ lockouts[now] < Recent
  <2>1. lockouts[now] + 1 \in 0..Recent
    BY <1>1, Constants DEF TypeOK
  <2> QED BY <1>1, <2>1 DEF RecordLockout, TypeOK
<1>2. CASE ~ (kind = "password" /\ lockouts[now] < Recent)
  BY <1>2 DEF RecordLockout, TypeOK
<1> QED BY <1>1, <1>2

LEMMA DoneTypes ==
  ASSUME TypeOK, NEW w \in Workers, Done(w)
  PROVE  /\ att' \in [Workers -> Underway \cup {Idle, Ladder}]
         /\ mine' \in [Workers -> Rows]
BY DEF TypeOK, Done, Rows

LEMMA GoToTypes ==
  ASSUME TypeOK, NEW w \in Workers,
         att[w].step \in {"reserve", "verify", "admitted"},
         NEW step \in {"reserve", "verify", "admitted"}, GoTo(w, step)
  PROVE  att' \in [Workers -> Underway \cup {Idle, Ladder}]
BY UnderwayTypes DEF TypeOK, GoTo

LEMMA TypeStep == TypeOK /\ [Next]_vars => TypeOK'
<1> SUFFICES ASSUME TypeOK, [Next]_vars PROVE TypeOK'
  OBVIOUS
<1>1. ASSUME NEW w \in Workers, NEW kind \in Kinds, MeetLock(w, kind)
      PROVE  TypeOK'
  BY <1>1, LockoutTypes DEF MeetLock, TypeOK
<1>2. ASSUME NEW w \in Workers, NEW ip \in Ips, NEW kind \in Kinds,
             PassIpGate(w, ip, kind)
      PROVE  TypeOK'
  <2>1. [step |-> "reserve", ip |-> ip, kind |-> kind] \in Underway
    BY DEF Underway
  <2> QED BY <1>2, <2>1 DEF PassIpGate, TypeOK
<1>3. ASSUME NEW w \in Workers, Reserve(w) PROVE TypeOK'
  <2>1. gate' \in Counter /\ mine' \in [Workers -> Rows]
    BY <1>3, CounterTypes DEF Reserve, TypeOK, Rows
  <2>2. att' \in [Workers -> Underway \cup {Idle, Ladder}]
    BY <1>3, GoToTypes DEF Reserve
  <2> QED BY <1>3, <2>1, <2>2 DEF Reserve, TypeOK
<1>4. ASSUME NEW w \in Workers, Admit(w) PROVE TypeOK'
  <2>1. /\ admitted' \in Counter /\ mine' \in [Workers -> Rows]
        /\ unlock' \in UnlockStates
    BY <1>4, CounterTypes DEF Admit, TypeOK, Rows, UnlockStates
  <2>2. att' \in [Workers -> Underway \cup {Idle, Ladder}]
    BY <1>4, GoToTypes DEF Admit
  <2> QED BY <1>4, <2>1, <2>2 DEF Admit, TypeOK
<1>5. ASSUME NEW w \in Workers, Refuse(w) PROVE TypeOK'
  <2>1. lockouts' \in [0..MaxTime -> 0..Recent]
    BY <1>5, UnderwayTypes, LockoutTypes DEF Refuse
  <2>2. mine' \in [Workers -> Rows] /\ att' \in [Workers -> Underway \cup {Idle, Ladder}]
    BY <1>5 DEF Refuse, TypeOK, Rows
  <2> QED BY <1>5, <2>1, <2>2 DEF Refuse, TypeOK
<1>6. ASSUME NEW w \in Workers, Climb(w) PROVE TypeOK'
  <2>1. locked' \in BOOLEAN
    BY <1>6 DEF Climb, TypeOK
  <2> QED BY <1>6, <2>1, DoneTypes DEF Climb, TypeOK
<1>7. ASSUME NEW w \in Workers, WrongCredential(w) PROVE TypeOK'
  <2>1. ipFails' \in [Ips -> Counter]
    BY <1>7, UnderwayTypes, CounterTypes DEF WrongCredential, CountFailure, TypeOK
  <2> QED BY <1>7, <2>1, DoneTypes DEF WrongCredential, CountFailure, TypeOK
<1>8. ASSUME NEW w \in Workers, BlankForm(w) PROVE TypeOK'
  BY <1>8, DoneTypes DEF BlankForm, TypeOK
<1>9. ASSUME NEW w \in Workers, AwaitFactor(w) PROVE TypeOK'
  BY <1>9, DoneTypes DEF AwaitFactor, TypeOK
<1>10. ASSUME NEW w \in Workers, LogIn(w) PROVE TypeOK'
  BY <1>10, CounterTypes DEF LogIn, TypeOK, Rows
<1>11. CASE AdminUnlock
  BY <1>11 DEF AdminUnlock, TypeOK, UnlockStates
<1>12. CASE Tick
  <2>1. now' \in 0..MaxTime
    BY <1>12, Constants DEF Tick, TypeOK
  <2>2. ipFails' \in [Ips -> Counter]
    BY <1>12, CounterTypes DEF Tick, TypeOK
  <2>3. gate' \in Counter /\ admitted' \in Counter /\ mine' \in [Workers -> Rows]
    BY <1>12, CounterTypes DEF Tick, TypeOK, OlderRow, Rows
  <2> QED BY <1>12, <2>1, <2>2, <2>3 DEF Tick, TypeOK
<1>13. CASE UNCHANGED vars
  BY <1>13 DEF vars, TypeOK
<1> QED BY <1>1, <1>2, <1>3, <1>4, <1>5, <1>6, <1>7, <1>8, <1>9, <1>10, <1>11,
           <1>12, <1>13 DEF Next

-----------------------------------------------------------------------------
(* Reservations.                                                           *)

LEMMA SetTypes ==
  ASSUME NEW S \in SUBSET Workers
  PROVE  /\ IsFiniteSet(S) /\ Cardinality(S) \in Nat
         /\ Cardinality(S) <= Cardinality(Workers)
         /\ \A w \in Workers \ S : Cardinality(S \cup {w}) = Cardinality(S) + 1
         /\ \A w \in S : /\ Cardinality(S \ {w}) = Cardinality(S) - 1
                         /\ Cardinality(S) >= 1
<1>1. /\ IsFiniteSet(S) /\ Cardinality(S) \in Nat
      /\ Cardinality(S) <= Cardinality(Workers)
  BY Constants, FS_Subset, FS_CardinalityType
<1>2. \A w \in Workers \ S : Cardinality(S \cup {w}) = Cardinality(S) + 1
  BY <1>1, FS_AddElement
<1>3. \A w \in S : Cardinality(S \ {w}) = Cardinality(S) - 1
  BY <1>1, FS_RemoveElement
<1>4. \A w \in S : Cardinality(S \ {w}) \in Nat
  <2>1. \A w \in S : IsFiniteSet(S \ {w})
    BY <1>1, FS_RemoveElement
  <2> QED BY <2>1, FS_CardinalityType
<1> QED BY <1>1, <1>2, <1>3, <1>4

(* What Reserved says is kept by a step that leaves the counters and the   *)
(* waiting requests alone.                                                 *)
LEMMA ReservedKept ==
  ASSUME Reserved, UNCHANGED <<gate, admitted>>,
         \A w \in Workers : mine'[w] # "gone" => att'[w].step = "verify",
         Waiting("cur")' = Waiting("cur")
  PROVE  Reserved'
BY DEF Reserved

LEMMA JudgedNotWaiting ==
  ASSUME TypeOK, Reserved, NEW w \in Workers, att[w].step = "verify",
         att' = [att EXCEPT ![w] = att'[w]], att'[w].step # "verify",
         mine' = [mine EXCEPT ![w] = "gone"]
  PROVE  /\ Waiting("cur")' = Waiting("cur") \ {w}
         /\ \A v \in Workers : mine'[v] # "gone" => att'[v].step = "verify"
BY DEF TypeOK, Reserved, Waiting

(* A request that is not being judged comes and goes without changing      *)
(* anything that waits.                                                    *)
LEMMA OthersWait ==
  ASSUME TypeOK, Reserved, NEW w \in Workers, att[w].step # "verify",
         att' = [att EXCEPT ![w] = att'[w]], att'[w].step # "verify",
         mine' = mine \/ mine' = [mine EXCEPT ![w] = "gone"]
  PROVE  /\ Waiting("cur")' = Waiting("cur")
         /\ \A v \in Workers : mine'[v] # "gone" => att'[v].step = "verify"
BY DEF TypeOK, Reserved, Waiting

LEMMA DoneWaits ==
  ASSUME TypeOK, Reserved, NEW w \in Workers, att[w].step # "verify",
         Done(w), UNCHANGED <<gate, admitted>>
  PROVE  Reserved'
<1>1. /\ att' = [att EXCEPT ![w] = att'[w]] /\ att'[w].step # "verify"
      /\ mine' = [mine EXCEPT ![w] = "gone"]
  BY DEF Done, TypeOK, Idle
<1> QED BY <1>1, OthersWait, ReservedKept

LEMMA WaitingTypes ==
  /\ Waiting("cur") \in SUBSET Workers
  /\ Cardinality(Waiting("cur")) \in Nat
BY SetTypes DEF Waiting

(* The attempt let through is not the last one the row accounts for.       *)
LEMMA AdmitBelow ==
  ASSUME TypeOK, Reserved, NEW w \in Workers, Admit(w)
  PROVE  /\ admitted'.cur <= gate.cur
         /\ admitted'.cur + Cardinality(Waiting("cur")') <= gate.cur
         /\ admitted'.prev = admitted.prev
         /\ \A v \in Workers : mine'[v] # "gone" => att'[v].step = "verify"
<1>1. att'[w].step = "admitted" /\ att' = [att EXCEPT ![w] = att'[w]]
  BY UnderwayTypes DEF Admit, GoTo, TypeOK
<1>2. /\ Waiting("cur")' = Waiting("cur") \ {w}
      /\ \A v \in Workers : mine'[v] # "gone" => att'[v].step = "verify"
  BY <1>1, JudgedNotWaiting DEF Admit
<1>3. /\ gate.cur \in Nat /\ admitted.cur \in Nat
      /\ admitted.cur + Cardinality(Waiting("cur")) <= gate.cur
  BY CounterTypes DEF TypeOK, Reserved
<1>4. CASE mine[w] = "cur"
  <2>1. admitted'.cur = admitted.cur + 1 /\ admitted'.prev = admitted.prev
    BY <1>4, CounterTypes DEF Admit, TypeOK
  <2>2. w \in Waiting("cur")
    BY <1>4 DEF Admit, Waiting
  <2>3. /\ Cardinality(Waiting("cur") \ {w}) = Cardinality(Waiting("cur")) - 1
        /\ Cardinality(Waiting("cur")) >= 1
    BY <2>2, SetTypes, WaitingTypes
  <2>4. Cardinality(Waiting("cur")') = Cardinality(Waiting("cur")) - 1
    BY <1>2, <2>3
  <2>5. admitted'.cur + Cardinality(Waiting("cur")') <= gate.cur
    BY <1>3, <2>1, <2>4, WaitingTypes
  <2>6. admitted'.cur <= gate.cur
    BY <1>3, <2>1, <2>3, WaitingTypes
  <2> QED BY <1>2, <2>1, <2>5, <2>6
<1>5. CASE mine[w] # "cur"
  <2>1. admitted' = admitted
    BY <1>5 DEF Admit
  <2>2. Waiting("cur")' = Waiting("cur")
    BY <1>2, <1>5 DEF Waiting
  <2> QED BY <1>2, <1>3, <2>1, <2>2, WaitingTypes
<1> QED BY <1>4, <1>5

LEMMA ReservedStep == TypeOK /\ Reserved /\ [Next]_vars => Reserved'
<1> SUFFICES ASSUME TypeOK, Reserved, [Next]_vars PROVE Reserved'
  OBVIOUS
<1>1. ASSUME NEW w \in Workers, NEW kind \in Kinds, MeetLock(w, kind)
      PROVE  Reserved'
  <2>1. /\ att[w].step # "verify" /\ att'[w].step # "verify"
        /\ att' = [att EXCEPT ![w] = att'[w]]
    BY <1>1 DEF MeetLock, TypeOK, Idle, Ladder
  <2> QED BY <1>1, <2>1, OthersWait, ReservedKept DEF MeetLock
<1>2. ASSUME NEW w \in Workers, NEW ip \in Ips, NEW kind \in Kinds,
             PassIpGate(w, ip, kind)
      PROVE  Reserved'
  <2>1. /\ att[w].step # "verify" /\ att'[w].step # "verify"
        /\ att' = [att EXCEPT ![w] = att'[w]]
    BY <1>2 DEF PassIpGate, TypeOK, Idle
  <2> QED BY <1>2, <2>1, OthersWait, ReservedKept DEF PassIpGate
<1>3. ASSUME NEW w \in Workers, Reserve(w) PROVE Reserved'
  <2>1. att'[w].step = "verify" /\ \A v \in Workers \ {w} : att'[v] = att[v]
    BY <1>3, UnderwayTypes DEF Reserve, GoTo, TypeOK
  <2>2. mine'[w] = "cur" /\ \A v \in Workers \ {w} : mine'[v] = mine[v]
    BY <1>3 DEF Reserve, TypeOK
  <2>3. Waiting("cur")' = Waiting("cur") \cup {w} /\ w \notin Waiting("cur")
    BY <1>3, <2>1, <2>2 DEF Reserve, Waiting
  <2>4. Cardinality(Waiting("cur")') = Cardinality(Waiting("cur")) + 1
    BY <2>3, SetTypes, WaitingTypes
  <2>5. /\ gate'.cur = gate.cur + 1 /\ gate'.prev = gate.prev /\ gate.cur \in Nat
        /\ admitted' = admitted /\ admitted.cur \in Nat
    BY <1>3, CounterTypes DEF Reserve, TypeOK
  <2>6. \A v \in Workers : mine'[v] # "gone" => att'[v].step = "verify"
    BY <2>1, <2>2 DEF Reserved
  <2> QED BY <2>4, <2>5, <2>6, WaitingTypes DEF Reserved
<1>4. ASSUME NEW w \in Workers, Admit(w) PROVE Reserved'
  <2>1. gate' = gate
    BY <1>4 DEF Admit
  <2> QED BY <1>4, <2>1, AdmitBelow DEF Reserved
<1>5. ASSUME NEW w \in Workers, Refuse(w) PROVE Reserved'
  <2>1. att'[w].step # "verify" /\ att' = [att EXCEPT ![w] = att'[w]]
    BY <1>5 DEF Refuse, TypeOK, Ladder
  <2>2. /\ Waiting("cur")' = Waiting("cur") \ {w}
        /\ \A v \in Workers : mine'[v] # "gone" => att'[v].step = "verify"
    BY <1>5, <2>1, JudgedNotWaiting DEF Refuse
  <2>3. Cardinality(Waiting("cur")') <= Cardinality(Waiting("cur"))
    <3>1. CASE w \in Waiting("cur")
      BY <3>1, <2>2, SetTypes, WaitingTypes
    <3>2. CASE w \notin Waiting("cur")
      <4>1. Waiting("cur")' = Waiting("cur")
        BY <3>2, <2>2
      <4> QED BY <4>1, WaitingTypes
    <3> QED BY <3>1, <3>2
  <2>4. Cardinality(Waiting("cur")') \in Nat
    BY <2>2, SetTypes, WaitingTypes
  <2>5. /\ gate' = gate /\ admitted' = admitted
        /\ gate.cur \in Nat /\ admitted.cur \in Nat
    BY <1>5, CounterTypes DEF Refuse, TypeOK
  <2> QED BY <2>2, <2>3, <2>4, <2>5, WaitingTypes DEF Reserved
<1>6. ASSUME NEW w \in Workers, Climb(w) PROVE Reserved'
  BY <1>6, DoneWaits DEF Climb, Ladder
<1>7. ASSUME NEW w \in Workers, WrongCredential(w) PROVE Reserved'
  BY <1>7, DoneWaits DEF WrongCredential, CountFailure
<1>8. ASSUME NEW w \in Workers, BlankForm(w) PROVE Reserved'
  BY <1>8, DoneWaits DEF BlankForm
<1>9. ASSUME NEW w \in Workers, AwaitFactor(w) PROVE Reserved'
  BY <1>9, DoneWaits DEF AwaitFactor
<1>10. ASSUME NEW w \in Workers, LogIn(w) PROVE Reserved'
  <2>1. Waiting("cur")' = {} /\ \A v \in Workers : mine'[v] = "gone"
    BY <1>10 DEF LogIn, Waiting
  <2>2. Cardinality(Waiting("cur")') = 0
    BY <2>1, FS_EmptySet
  <2> QED BY <1>10, <2>1, <2>2, CounterTypes DEF LogIn, Reserved
<1>11. CASE AdminUnlock
  BY <1>11 DEF AdminUnlock, Reserved, Waiting
<1>12. CASE Tick
  <2>1. CASE now' % Window = 0
    <3>1. Waiting("cur")' = {}
      BY <1>12, <2>1 DEF Tick, Waiting, OlderRow
    <3>2. \A v \in Workers : mine'[v] # "gone" => att'[v].step = "verify"
      BY <1>12, <2>1 DEF Tick, OlderRow, Reserved
    <3>3. /\ gate'.cur = 0 /\ gate'.prev = gate.cur
          /\ admitted'.cur = 0 /\ admitted'.prev = admitted.cur
      BY <1>12, <2>1, CounterTypes DEF Tick, TypeOK
    <3>4. admitted.cur <= gate.cur
      BY CounterTypes, WaitingTypes DEF Reserved, TypeOK
    <3>5. Cardinality(Waiting("cur")') = 0
      BY <3>1, FS_EmptySet
    <3> QED BY <3>2, <3>3, <3>4, <3>5 DEF Reserved
  <2>2. CASE now' % Window # 0
    BY <1>12, <2>2 DEF Tick, Reserved, Waiting
  <2> QED BY <2>1, <2>2
<1>13. CASE UNCHANGED vars
  BY <1>13 DEF vars, Reserved, Waiting
<1> QED BY <1>1, <1>2, <1>3, <1>4, <1>5, <1>6, <1>7, <1>8, <1>9, <1>10, <1>11,
           <1>12, <1>13 DEF Next

-----------------------------------------------------------------------------
(* The ceilings.                                                           *)

(* What the code compares with the cap, for a request it lets through.     *)
LEMMA AdmitJudged ==
  ASSUME TypeOK, Reserved, NEW w \in Workers, Admit(w)
  PROVE  /\ gate.cur <= UserMax
         /\ gate.cur + gate.prev - (gate.prev * Elapsed(Window)) \div Window <= UserMax
<1>1. gate.cur <= Sliding(gate, Window) /\ Sliding(gate, Window) \in Nat
  BY SlidingCountsAll, Constants DEF TypeOK
<1>2. Sliding(gate, Window) <= UserMax
  BY DEF Admit, WithinCap
<1>3. gate.cur \in Nat
  BY CounterTypes DEF TypeOK
<1> QED BY <1>1, <1>2, <1>3, Constants DEF Sliding

LEMMA CeilingTypes ==
  ASSUME TypeOK
  PROVE  /\ admitted.cur \in Nat /\ admitted.prev \in Nat
         /\ gate.cur \in Nat /\ gate.prev \in Nat
         /\ Elapsed(Window) \in Nat /\ Elapsed(Window) < Window
         /\ UserMax \in Nat /\ Window \in Nat \ {0} /\ now \in Nat
BY CounterTypes, ElapsedType, Constants DEF TypeOK

LEMMA HardStep ==
  TypeOK /\ Reserved /\ HardCeiling /\ [Next]_vars => HardCeiling'
<1> SUFFICES ASSUME TypeOK, Reserved, HardCeiling, [Next]_vars PROVE HardCeiling'
  OBVIOUS
<1>1. ASSUME NEW w \in Workers, Admit(w) PROVE HardCeiling'
  <2>1. admitted'.cur <= gate.cur /\ admitted'.prev = admitted.prev
    BY <1>1, AdmitBelow
  <2>2. gate.cur <= UserMax
    BY <1>1, AdmitJudged
  <2>3. admitted'.cur \in Nat
    BY TypeStep, CounterTypes DEF TypeOK
  <2> QED BY <2>1, <2>2, <2>3, CeilingTypes DEF HardCeiling
<1>2. ASSUME NEW w \in Workers, LogIn(w) PROVE HardCeiling'
  BY <1>2, CounterTypes, CeilingTypes DEF LogIn, HardCeiling
<1>3. CASE Tick
  BY <1>3, CounterTypes, CeilingTypes DEF Tick, HardCeiling, TypeOK
<1>4. CASE UNCHANGED admitted
  BY <1>4 DEF HardCeiling
<1> QED BY <1>1, <1>2, <1>3, <1>4
        DEF Next, vars, MeetLock, PassIpGate, Reserve, Refuse, Climb,
            WrongCredential, CountFailure, BlankForm, AwaitFactor, AdminUnlock

LEMMA SlidingStep ==
  TypeOK /\ Reserved /\ HardCeiling /\ SlidingCeiling /\ [Next]_vars => SlidingCeiling'
<1> SUFFICES ASSUME TypeOK, Reserved, HardCeiling, SlidingCeiling, [Next]_vars
             PROVE  SlidingCeiling'
  OBVIOUS
<1> DEFINE Slid(p) == (p * Elapsed(Window)) \div Window
<1>1. ASSUME NEW w \in Workers, Admit(w) PROVE SlidingCeiling'
  <2>1. /\ admitted'.prev = admitted.prev /\ admitted'.cur <= gate.cur
        /\ admitted'.cur \in Nat
    BY <1>1, AdmitBelow, TypeStep, CounterTypes DEF TypeOK
  <2>2. Elapsed(Window)' = Elapsed(Window)
    BY <1>1 DEF Admit, Elapsed
  <2>3. PICK s \in Nat : s = Slid(gate.prev) /\ gate.cur + gate.prev - s <= UserMax
    BY <1>1, AdmitJudged, CeilingTypes, ShareBound
  <2>4. PICK r \in Nat : r = Slid(admitted.prev)
    BY CeilingTypes, ShareBound
  <2>5. admitted.prev <= gate.prev
    BY DEF Reserved
  <2>6. s <= r + (gate.prev - admitted.prev)
    BY <2>3, <2>4, <2>5, CeilingTypes, ShareMonotone
  <2>7. admitted'.prev + admitted'.cur <= UserMax + r
    BY <2>1, <2>3, <2>5, <2>6, CeilingTypes
  <2> QED BY <2>1, <2>2, <2>4, <2>7 DEF SlidingCeiling
<1>2. ASSUME NEW w \in Workers, LogIn(w) PROVE SlidingCeiling'
  <2>1. admitted'.prev = 0 /\ admitted'.cur = 0 /\ Elapsed(Window)' = Elapsed(Window)
    BY <1>2, CounterTypes DEF LogIn, Elapsed
  <2>2. (0 * Elapsed(Window)) \div Window \in Nat
    BY CeilingTypes, ShareBound
  <2> QED BY <2>1, <2>2, CeilingTypes DEF SlidingCeiling
<1>3. CASE Tick /\ now' % Window = 0
  <2>1. /\ admitted'.prev = admitted.cur /\ admitted'.cur = 0
        /\ Elapsed(Window)' = 0
    BY <1>3, CounterTypes DEF Tick, Elapsed, TypeOK
  <2>2. (admitted.cur * 0) \div Window \in Nat
    BY CeilingTypes, ShareBound
  <2> QED BY <2>1, <2>2, CeilingTypes DEF SlidingCeiling, HardCeiling
<1>4. CASE Tick /\ now' % Window # 0
  <2>1. admitted' = admitted
    BY <1>4 DEF Tick
  <2>2. Elapsed(Window)' = Elapsed(Window) + 1
    BY <1>4, CeilingTypes, NextElapsed DEF Tick, Elapsed
  <2>3. PICK e \in Nat : e = Elapsed(Window) /\ Elapsed(Window)' = e + 1
    BY <2>2, CeilingTypes
  <2>4. (admitted.prev * e) \div Window <= (admitted.prev * (e + 1)) \div Window
    BY CeilingTypes, ShareLater
  <2>5. /\ (admitted.prev * e) \div Window \in Int
        /\ (admitted.prev * (e + 1)) \div Window \in Int
    <3>1. admitted.prev * e \in Nat /\ admitted.prev * (e + 1) \in Nat
      BY CeilingTypes, Z3
    <3> QED BY <3>1, CeilingTypes, DivAbove
  <2>6. admitted.prev + admitted.cur <= UserMax + (admitted.prev * e) \div Window
    BY <2>3 DEF SlidingCeiling
  <2> DEFINE now_ == (admitted.prev * e) \div Window
             then_ == (admitted.prev * (e + 1)) \div Window
  <2>7. admitted.prev + admitted.cur <= UserMax + then_
    <3>1. now_ \in Int /\ then_ \in Int /\ now_ <= then_
      BY <2>4, <2>5
    <3>2. admitted.prev + admitted.cur <= UserMax + now_
      BY <2>6
    <3> HIDE DEF now_, then_
    <3> QED BY <3>1, <3>2, CeilingTypes
  <2> QED BY <2>1, <2>3, <2>7 DEF SlidingCeiling
<1>5. CASE UNCHANGED <<admitted, now>>
  BY <1>5 DEF SlidingCeiling, Elapsed
<1> QED BY <1>1, <1>2, <1>3, <1>4, <1>5
        DEF Next, vars, MeetLock, PassIpGate, Reserve, Refuse, Climb,
            WrongCredential, CountFailure, BlankForm, AwaitFactor, AdminUnlock

-----------------------------------------------------------------------------
(* The address gate.                                                       *)

LEMMA InFlightTypes ==
  \A i \in Ips :
    /\ InFlight(i) \in SUBSET Workers
    /\ Cardinality(InFlight(i)) \in Nat
    /\ Cardinality(InFlight(i)) <= Cardinality(Workers)
BY SetTypes DEF InFlight

LEMMA BudgetTypes ==
  ASSUME TypeOK, NEW i \in Ips
  PROVE  /\ ipFails[i] \in Counter /\ ipFails[i].cur \in Nat
         /\ IpMax \in Nat \ {0} /\ Cardinality(Workers) \in Nat
BY CounterTypes, Constants DEF TypeOK

LEMMA FewerInFlight ==
  ASSUME NEW S \in SUBSET Workers, NEW T \in SUBSET S
  PROVE  Cardinality(T) \in Nat /\ Cardinality(T) <= Cardinality(S)
BY SetTypes, FS_Subset

(* A step that counts no failure and lets nobody past the address gate.    *)
LEMMA BudgetKept ==
  ASSUME TypeOK, Budgeted, ipFails' = ipFails,
         \A i \in Ips : InFlight(i)' \subseteq InFlight(i)
  PROVE  Budgeted'
<1> SUFFICES ASSUME NEW i \in Ips
             PROVE  ipFails'[i].cur + Cardinality(InFlight(i)')
                      <= IpMax - 1 + Cardinality(Workers)
  BY DEF Budgeted
<1>1. ipFails[i].cur + Cardinality(InFlight(i)) <= IpMax - 1 + Cardinality(Workers)
  BY DEF Budgeted
<1>2. /\ Cardinality(InFlight(i)') \in Nat
      /\ Cardinality(InFlight(i)') <= Cardinality(InFlight(i))
  BY InFlightTypes, FewerInFlight
<1> QED BY <1>1, <1>2, BudgetTypes, InFlightTypes

LEMMA LeavesFlight ==
  ASSUME TypeOK, NEW w \in Workers, att' = [att EXCEPT ![w] = att'[w]],
         att'[w] \in {Idle, Ladder}
  PROVE  \A i \in Ips : InFlight(i)' = InFlight(i) \ {w}
BY DEF TypeOK, InFlight, Underway, Idle, Ladder

LEMMA StaysInFlight ==
  ASSUME TypeOK, NEW w \in Workers,
         att[w].step \in {"reserve", "verify", "admitted"},
         NEW step \in {"reserve", "verify", "admitted"}, GoTo(w, step)
  PROVE  \A i \in Ips : InFlight(i)' = InFlight(i)
<1>1. att' = [att EXCEPT ![w] = att'[w]] /\ att'[w] \in Underway /\ att'[w].ip = att[w].ip
  BY UnderwayTypes DEF GoTo, TypeOK
<1>2. att[w] \in Underway
  BY UnderwayTypes
<1> QED BY <1>1, <1>2 DEF InFlight, TypeOK

LEMMA DoneLeaves ==
  ASSUME TypeOK, Budgeted, NEW w \in Workers, Done(w), ipFails' = ipFails
  PROVE  Budgeted'
<1>1. att' = [att EXCEPT ![w] = att'[w]] /\ att'[w] = Idle
  BY DEF Done, TypeOK
<1> QED BY <1>1, LeavesFlight, BudgetKept

LEMMA BudgetStep == TypeOK /\ Budgeted /\ [Next]_vars => Budgeted'
<1> SUFFICES ASSUME TypeOK, Budgeted, [Next]_vars PROVE Budgeted'
  OBVIOUS
<1>1. ASSUME NEW w \in Workers, NEW kind \in Kinds, MeetLock(w, kind)
      PROVE  Budgeted'
  <2>1. att' = [att EXCEPT ![w] = att'[w]] /\ att'[w] = Ladder
    BY <1>1 DEF MeetLock, TypeOK
  <2> QED BY <1>1, <2>1, LeavesFlight, BudgetKept DEF MeetLock
<1>2. ASSUME NEW w \in Workers, NEW ip \in Ips, NEW kind \in Kinds,
             PassIpGate(w, ip, kind)
      PROVE  Budgeted'
  <2> SUFFICES ASSUME NEW i \in Ips
               PROVE  ipFails'[i].cur + Cardinality(InFlight(i)')
                        <= IpMax - 1 + Cardinality(Workers)
    BY DEF Budgeted
  <2>1. ipFails' = ipFails
    BY <1>2 DEF PassIpGate
  <2>2. CASE i = ip
    <3>1. ipFails[i].cur <= Sliding(ipFails[i], IpWindow)
          /\ Sliding(ipFails[i], IpWindow) \in Nat
      BY SlidingCountsAll, BudgetTypes, Constants DEF TypeOK
    <3>2. ipFails[i].cur < IpMax
      BY <1>2, <2>2, <3>1, BudgetTypes DEF PassIpGate
    <3>3. /\ Cardinality(InFlight(i)') \in Nat
          /\ Cardinality(InFlight(i)') <= Cardinality(Workers)
      BY SetTypes DEF InFlight
    <3> QED BY <2>1, <3>2, <3>3, BudgetTypes
  <2>3. CASE i # ip
    <3>1. InFlight(i)' = InFlight(i)
      BY <1>2, <2>3 DEF PassIpGate, InFlight, TypeOK, Underway, Idle
    <3> QED BY <2>1, <3>1 DEF Budgeted
  <2> QED BY <2>2, <2>3
<1>3. ASSUME NEW w \in Workers, Reserve(w) PROVE Budgeted'
  BY <1>3, StaysInFlight, BudgetKept DEF Reserve
<1>4. ASSUME NEW w \in Workers, Admit(w) PROVE Budgeted'
  BY <1>4, StaysInFlight, BudgetKept DEF Admit
<1>5. ASSUME NEW w \in Workers, Refuse(w) PROVE Budgeted'
  <2>1. att' = [att EXCEPT ![w] = att'[w]] /\ att'[w] = Ladder
    BY <1>5 DEF Refuse, TypeOK
  <2> QED BY <1>5, <2>1, LeavesFlight, BudgetKept DEF Refuse
<1>6. ASSUME NEW w \in Workers, Climb(w) PROVE Budgeted'
  BY <1>6, DoneLeaves DEF Climb
<1>7. ASSUME NEW w \in Workers, WrongCredential(w) PROVE Budgeted'
  <2> SUFFICES ASSUME NEW i \in Ips
               PROVE  ipFails'[i].cur + Cardinality(InFlight(i)')
                        <= IpMax - 1 + Cardinality(Workers)
    BY DEF Budgeted
  <2>1. InFlight(i)' = InFlight(i) \ {w}
    <3>1. att' = [att EXCEPT ![w] = att'[w]] /\ att'[w] = Idle
      BY <1>7 DEF WrongCredential, CountFailure, Done, TypeOK
    <3> QED BY <3>1, LeavesFlight
  <2>2. ipFails[i].cur + Cardinality(InFlight(i)) <= IpMax - 1 + Cardinality(Workers)
    BY DEF Budgeted
  <2>3. CASE att[w].ip = i
    <3>1. w \in InFlight(i)
      BY <1>7, <2>3, UnderwayTypes DEF WrongCredential, CountFailure, InFlight
    <3>2. Cardinality(InFlight(i)') = Cardinality(InFlight(i)) - 1
      BY <2>1, <3>1, SetTypes, InFlightTypes
    <3>3. ipFails'[i].cur = ipFails[i].cur + 1
      BY <1>7, <2>3, CounterTypes, BudgetTypes DEF WrongCredential, CountFailure, TypeOK
    <3> QED BY <2>2, <3>2, <3>3, BudgetTypes, InFlightTypes
  <2>4. CASE att[w].ip # i
    <3>1. InFlight(i)' = InFlight(i)
      BY <2>1, <2>4 DEF InFlight
    <3>2. ipFails'[i] = ipFails[i]
      BY <1>7, <2>4 DEF WrongCredential, CountFailure, TypeOK
    <3> QED BY <2>2, <3>1, <3>2
  <2> QED BY <2>3, <2>4
<1>8. ASSUME NEW w \in Workers, BlankForm(w) PROVE Budgeted'
  BY <1>8, DoneLeaves DEF BlankForm
<1>9. ASSUME NEW w \in Workers, AwaitFactor(w) PROVE Budgeted'
  BY <1>9, DoneLeaves DEF AwaitFactor
<1>10. ASSUME NEW w \in Workers, LogIn(w) PROVE Budgeted'
  <2>1. att' = [att EXCEPT ![w] = att'[w]] /\ att'[w] = Idle
    BY <1>10 DEF LogIn, TypeOK
  <2> QED BY <1>10, <2>1, LeavesFlight, BudgetKept DEF LogIn
<1>11. CASE AdminUnlock
  BY <1>11, BudgetKept DEF AdminUnlock, InFlight
<1>12. CASE Tick
  <2> SUFFICES ASSUME NEW i \in Ips
               PROVE  ipFails'[i].cur + Cardinality(InFlight(i)')
                        <= IpMax - 1 + Cardinality(Workers)
    BY DEF Budgeted
  <2>1. InFlight(i)' = InFlight(i)
    BY <1>12 DEF Tick, InFlight
  <2>2. ipFails'[i].cur = 0 \/ ipFails' = ipFails
    BY <1>12, CounterTypes DEF Tick, TypeOK
  <2>3. ipFails[i].cur + Cardinality(InFlight(i)) <= IpMax - 1 + Cardinality(Workers)
    BY DEF Budgeted
  <2> QED BY <2>1, <2>2, <2>3, BudgetTypes, InFlightTypes
<1>13. CASE UNCHANGED vars
  BY <1>13, BudgetKept DEF vars, InFlight
<1> QED BY <1>1, <1>2, <1>3, <1>4, <1>5, <1>6, <1>7, <1>8, <1>9, <1>10, <1>11,
           <1>12, <1>13 DEF Next

-----------------------------------------------------------------------------
(* The results.                                                            *)

LEMMA InitIInv == Init => IInv
<1> SUFFICES ASSUME Init PROVE IInv
  OBVIOUS
<1>1. TypeOK
  <2>1. now \in 0..MaxTime /\ lockouts \in [0..MaxTime -> 0..Recent]
    BY Constants DEF Init
  <2>2. gate \in Counter /\ ipFails \in [Ips -> Counter] /\ admitted \in Counter
    BY CounterTypes DEF Init
  <2>3. /\ att \in [Workers -> Underway \cup {Idle, Ladder}]
        /\ mine \in [Workers -> Rows]
    BY DEF Init, Rows
  <2> QED BY <2>1, <2>2, <2>3 DEF Init, TypeOK, UnlockStates
<1>2. Waiting("cur") = {} /\ \A i \in Ips : InFlight(i) = {}
  BY DEF Init, Waiting, InFlight, Idle, Underway
<1>3. Cardinality({}) = 0
  BY FS_EmptySet
<1>4. Reserved
  <2>1. Cardinality(Waiting("cur")) = 0
    BY <1>2, <1>3
  <2> QED BY <2>1, CounterTypes DEF Init, Reserved
<1>5. HardCeiling
  BY CounterTypes, Constants DEF Init, HardCeiling
<1>6. SlidingCeiling
  <2>1. (0 * Elapsed(Window)) \div Window \in Nat
    BY <1>1, CeilingTypes, ShareBound
  <2> QED BY <2>1, CounterTypes, Constants DEF Init, SlidingCeiling
<1>7. Budgeted
  <2>1. \A i \in Ips : Cardinality(InFlight(i)) = 0 /\ ipFails[i].cur = 0
    BY <1>2, <1>3, CounterTypes DEF Init
  <2> QED BY <2>1, Constants DEF Budgeted
<1> QED BY <1>1, <1>4, <1>5, <1>6, <1>7 DEF IInv

LEMMA StepIInv == IInv /\ [Next]_vars => IInv'
BY TypeStep, ReservedStep, HardStep, SlidingStep, BudgetStep DEF IInv

LEMMA IInvBounds == IInv => IpFloodBound
<1> SUFFICES ASSUME IInv, NEW i \in Ips
             PROVE  ipFails[i].cur <= IpMax - 1 + Cardinality(Workers)
  BY DEF IpFloodBound
<1> QED BY BudgetTypes, InFlightTypes DEF IInv, Budgeted

LEMMA AlwaysIInv == Spec => []IInv
BY InitIInv, StepIInv, PTL DEF Spec

(* Every variable keeps its type.                                          *)
THEOREM ThrottleTypes == Spec => []TypeOK
<1>1. IInv => TypeOK
  BY DEF IInv
<1> QED BY <1>1, AlwaysIInv, PTL

(* However many requests there are and however they are interleaved, no    *)
(* window lets more than UserMax of its own attempts through.              *)
THEOREM CeilingIsHard == Spec => []HardCeiling
<1>1. IInv => HardCeiling
  BY DEF IInv
<1> QED BY <1>1, AlwaysIInv, PTL

(* Two neighbouring windows let through at most UserMax attempts and the   *)
(* share of the older ones that has slid out.                              *)
THEOREM CeilingSlides == Spec => []SlidingCeiling
<1>1. IInv => SlidingCeiling
  BY DEF IInv
<1> QED BY <1>1, AlwaysIInv, PTL

(* The failures of an address pass its cap by at most the other requests   *)
(* under way.                                                              *)
THEOREM FloodIsBounded == Spec => []IpFloodBound
BY AlwaysIInv, IInvBounds, PTL

-----------------------------------------------------------------------------
(* The ladder.  The loop over the lockouts is a recursive function of the  *)
(* ticks it has gone back; what holds before every row holds after all.    *)

LEMMA Least ==
  ASSUME NEW S, S \subseteq Nat, S # {}
  PROVE  \E y \in S : \A z \in S : ~(z < y)
<1>1. PICK y \in S : \A z \in S : ~(<<z, y>> \in OpToRel(<, Nat))
  BY NatLessThanWellFounded, WFMin
<1> QED BY <1>1 DEF OpToRel

(* What the loop is after k ticks, when it was f before.                   *)
After(f, k) ==
  IF k = 0 THEN [n |-> 0, last |-> now] ELSE CountRow(f[k - 1], now + 1 - k)

LEMMA PartOfLoop ==
  ASSUME now \in Nat
  PROVE  \A k \in 0 .. now + 1 : \E f : \A i \in 0 .. k : f[i] = After(f, i)
<1> DEFINE T == {k \in 0 .. now + 1 : ~ \E f : \A i \in 0 .. k : f[i] = After(f, i)}
<1> SUFFICES ASSUME T # {} PROVE FALSE
  OBVIOUS
<1>1. PICK y \in T : \A z \in T : ~(z < y)
  <2>1. T \subseteq Nat
    OBVIOUS
  <2> HIDE DEF T
  <2> QED BY <2>1, Least
<1>2. y \in 0 .. now + 1 /\ ~ \E f : \A i \in 0 .. y : f[i] = After(f, i)
  OBVIOUS
<1>3. CASE y = 0
  <2> DEFINE g == [i \in 0 .. 0 |-> [n |-> 0, last |-> now]]
  <2>1. \A i \in 0 .. y : g[i] = After(g, i)
    BY <1>3 DEF After
  <2> QED BY <1>2, <2>1
<1>4. CASE y > 0
  <2>1. y - 1 \in 0 .. now + 1 /\ y - 1 < y
    BY <1>2, <1>4
  <2>2. y - 1 \notin T
    BY <1>1, <2>1
  <2>3. PICK f : \A i \in 0 .. y - 1 : f[i] = After(f, i)
    BY <2>1, <2>2
  <2> DEFINE g == [i \in 0 .. y |-> IF i < y THEN f[i] ELSE After(f, y)]
  <2>4. ASSUME NEW i \in 0 .. y PROVE g[i] = After(g, i)
    <3>1. CASE i = 0
      BY <1>2, <1>4, <2>3, <3>1 DEF After
    <3>2. CASE i > 0
      <4>1. i - 1 \in 0 .. y /\ i - 1 < y
        BY <1>2, <3>2
      <4>2. g[i - 1] = f[i - 1]
        BY <4>1
      <4>3. g[i] = After(f, i)
        <5>1. CASE i < y
          BY <1>2, <2>3, <5>1
        <5>2. CASE i = y
          BY <1>2, <5>2
        <5> QED BY <1>2, <5>1, <5>2
      <4> HIDE DEF g
      <4> QED BY <3>2, <4>2, <4>3 DEF After
    <3> QED BY <1>2, <3>1, <3>2
  <2> HIDE DEF g
  <2> QED BY <1>2, <2>4
<1> QED BY <1>2, <1>3, <1>4

LEMMA StrikesAre ==
  ASSUME now \in Nat
  PROVE  \A k \in 0 .. now + 1 : Strikes[k] = After(Strikes, k)
<1> DEFINE D(f) == [k \in 0 .. now + 1 |-> After(f, k)]
<1>1. Strikes = CHOOSE f : f = D(f)
  BY DEF Strikes, After
<1>2. \E f : f = D(f)
  <2>1. PICK f : \A i \in 0 .. now + 1 : f[i] = After(f, i)
    BY PartOfLoop
  <2> DEFINE h == [i \in 0 .. now + 1 |-> f[i]]
  <2>2. ASSUME NEW i \in 0 .. now + 1 PROVE h[i] = After(h, i)
    <3>1. h[i] = After(f, i)
      BY <2>1
    <3>2. i > 0 => h[i - 1] = f[i - 1]
      OBVIOUS
    <3>3. i = 0 \/ i > 0
      OBVIOUS
    <3> HIDE DEF h
    <3> QED BY <3>1, <3>2, <3>3 DEF After
  <2>3. h = [i \in 0 .. now + 1 |-> h[i]]
    OBVIOUS
  <2> HIDE DEF h
  <2>4. h = D(h)
    BY <2>2, <2>3
  <2> QED BY <2>4
<1>3. Strikes = D(Strikes)
  <2> HIDE DEF D
  <2> QED BY <1>1, <1>2
<1> QED BY <1>3

(* So many lockouts, none before the last that counted, and half a window  *)
(* between any two.                                                        *)
Spaced(S) == \A a, b \in S : a > b => 2 * (a - b) >= Window
Evidence(acc) ==
  /\ acc.n \in Nat /\ acc.last \in Int
  /\ \A m \in 0 .. acc.n :
       \E S \in SUBSET RowTimes :
         /\ IsFiniteSet(S) /\ Cardinality(S) = m
         /\ Spaced(S) /\ \A a \in S : a >= acc.last

LEMMA RowsAre == now \in Nat => RowTimes \subseteq 0 .. now
BY DEF RowTimes

LEMMA EvidenceKept ==
  ASSUME now \in Nat, NEW acc, Evidence(acc), NEW t \in Int
  PROVE  Evidence(CountRow(acc, t))
<1>0. Window \in Nat \ {0} /\ RowTimes \subseteq Int
  BY ThrottleAssumption, RowsAre
<1>1. CASE ~ (t \in RowTimes /\ (acc.n = 0 \/ 2 * (acc.last - t) >= Window))
  BY <1>1 DEF CountRow
<1>2. CASE t \in RowTimes /\ (acc.n = 0 \/ 2 * (acc.last - t) >= Window)
  <2>1. PICK new : new = [n |-> acc.n + 1, last |-> t]
    OBVIOUS
  <2>2. CountRow(acc, t) = new
    BY <1>2, <2>1 DEF CountRow
  <2>3. acc.n \in Nat /\ acc.last \in Int /\ new.n = acc.n + 1 /\ new.last = t
    BY <2>1 DEF Evidence
  <2>4. acc.n = 0 \/ t < acc.last
    BY <1>0, <1>2, <2>3
  <2>5. ASSUME NEW m \in 0 .. acc.n + 1
        PROVE  \E S \in SUBSET RowTimes :
                 /\ IsFiniteSet(S) /\ Cardinality(S) = m
                 /\ Spaced(S) /\ \A a \in S : a >= t
    <3>1. CASE m = 0
      BY <3>1, FS_EmptySet DEF Spaced
    <3>2. CASE m > 0
      <4>1. m - 1 \in 0 .. acc.n
        BY <2>3, <3>2
      <4>2. PICK S \in SUBSET RowTimes :
              /\ IsFiniteSet(S) /\ Cardinality(S) = m - 1
              /\ Spaced(S) /\ \A a \in S : a >= acc.last
        BY <4>1 DEF Evidence
      <4>3. ASSUME NEW a \in S PROVE a > t /\ 2 * (a - t) >= Window
        <5>1. acc.n # 0
          <6>1. CASE acc.n = 0
            <7>1. m - 1 = 0
              BY <3>2, <6>1
            <7>2. S = {}
              BY <4>2, <7>1, FS_EmptySet
            <7> QED BY <7>2
          <6> QED BY <6>1
        <5>2. a \in Int /\ a >= acc.last
          BY <1>0, <4>2
        <5> QED BY <1>0, <1>2, <2>3, <2>4, <5>1, <5>2
      <4>4. t \notin S
        BY <4>3
      <4>5. IsFiniteSet(S \cup {t}) /\ Cardinality(S \cup {t}) = m
        <5>1. IsFiniteSet(S \cup {t}) /\ Cardinality(S \cup {t}) = Cardinality(S) + 1
          BY <4>2, <4>4, FS_AddElement
        <5> QED BY <2>3, <4>2, <5>1
      <4>6. Spaced(S \cup {t})
        <5> SUFFICES ASSUME NEW a \in S \cup {t}, NEW b \in S \cup {t}, a > b
                     PROVE  2 * (a - b) >= Window
          BY DEF Spaced
        <5>1. a \in Int /\ b \in Int
          BY <1>0, <4>2
        <5>2. CASE a \in S /\ b \in S
          BY <4>2, <5>2 DEF Spaced
        <5>3. CASE a \in S /\ b = t
          BY <4>3, <5>3
        <5>4. CASE a = t
          BY <4>3, <5>1, <5>4
        <5> QED BY <5>2, <5>3, <5>4
      <4>7. \A a \in S \cup {t} : a >= t
        <5>1. \A a \in S : a \in Int /\ a > t
          BY <1>0, <4>2, <4>3
        <5> QED BY <5>1
      <4>8. S \cup {t} \in SUBSET RowTimes
        BY <1>2, <4>2
      <4> QED BY <4>5, <4>6, <4>7, <4>8
    <3> QED BY <2>3, <3>1, <3>2
  <2> QED BY <2>2, <2>3, <2>5 DEF Evidence
<1> QED BY <1>1, <1>2

LEMMA StrikesHaveEvidence ==
  ASSUME now \in Nat
  PROVE  \A k \in 0 .. now + 1 : Evidence(Strikes[k])
<1> DEFINE T == {k \in 0 .. now + 1 : ~ Evidence(Strikes[k])}
<1> SUFFICES ASSUME T # {} PROVE FALSE
  OBVIOUS
<1>1. PICK y \in T : \A z \in T : ~(z < y)
  <2>1. T \subseteq Nat
    OBVIOUS
  <2> HIDE DEF T
  <2> QED BY <2>1, Least
<1>2. y \in 0 .. now + 1 /\ ~ Evidence(Strikes[y]) /\ Strikes[y] = After(Strikes, y)
  BY StrikesAre
<1>3. CASE y = 0
  <2>1. PICK acc : acc = [n |-> 0, last |-> now]
    OBVIOUS
  <2>2. Strikes[y] = acc /\ acc.n = 0 /\ acc.last = now
    BY <1>2, <1>3, <2>1 DEF After
  <2>3. Evidence(acc)
    BY <2>2, FS_EmptySet DEF Evidence, Spaced
  <2> QED BY <1>2, <2>2, <2>3
<1>4. CASE y > 0
  <2>1. y - 1 \in 0 .. now + 1 /\ y - 1 < y /\ now + 1 - y \in Int
    BY <1>2, <1>4
  <2>2. Evidence(Strikes[y - 1])
    BY <1>1, <2>1
  <2>3. Strikes[y] = CountRow(Strikes[y - 1], now + 1 - y)
    BY <1>2, <1>4 DEF After
  <2> QED BY <1>2, <2>1, <2>2, <2>3, EvidenceKept
<1> QED BY <1>2, <1>3, <1>4

(* maybe_permanently_lock locks an account only on as many lockouts as the *)
(* threshold asks, within the lookback and half a window or more apart,    *)
(* for any threshold, lookback and limit on the rows it reads.             *)
THEOREM LockAlwaysJustified == Spec => LockJustified
<1>1. TypeOK /\ [Next]_vars => [~ locked /\ locked' => LockEarned]_vars
  <2> SUFFICES ASSUME TypeOK, Next, ~ locked, locked' PROVE LockEarned
    OBVIOUS
  <2>0. now \in Nat
    BY ThrottleAssumption DEF TypeOK
  <2>1. Threshold \in 1 .. Strikes[now + 1].n
    BY DEF Next, MeetLock, PassIpGate, Reserve, Admit, Refuse, Climb, WrongCredential,
       CountFailure,
           BlankForm, AwaitFactor, LogIn, AdminUnlock, Tick, ConsecutiveLockouts
  <2>2. Evidence(Strikes[now + 1])
    BY <2>0, StrikesHaveEvidence
  <2>3. PICK S \in SUBSET RowTimes : Cardinality(S) = Threshold /\ Spaced(S)
    BY <2>1, <2>2, ThrottleAssumption DEF Evidence
  <2>4. RowTimes \subseteq {t \in 0..now : lockouts[t] > 0 /\ now - t <= Lookback * Window}
    BY DEF RowTimes
  <2> QED BY <2>3, <2>4 DEF LockEarned, Spaced
<1> QED BY <1>1, ThrottleTypes, PTL DEF Spec, LockJustified
=============================================================================
