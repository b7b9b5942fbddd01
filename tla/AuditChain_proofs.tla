-------------------------- MODULE AuditChain_proofs --------------------------
(***************************************************************************)
(* The audit chain, for any processes, keys and lengths of the log: the    *)
(* re-stamping walk is what its closed form says, what it leaves verifies, *)
(* and on a database that serialises transactions no interleaving of       *)
(* appends, rotation, prune, restarts and roll-backs unlinks a row.        *)
(*                                                                         *)
(* A writer reads the last row in one step and inserts over it in another; *)
(* so ChainLinked needs that what an open transaction has read is what is  *)
(* still there (Reads), and that ids grow (Log).  A sweep without a key    *)
(* blanks every prev_hmac: ChainLinked names the rows for which that       *)
(* mattered, and the proof shows that the rows behind them stay linked.    *)
(***************************************************************************)
EXTENDS AuditChain, SequenceTheorems, WellFoundedInduction, TLAPS

-----------------------------------------------------------------------------
(* The largest member of a bounded set, by the well-foundedness of <.      *)
LEMMA MaxIs ==
  ASSUME NEW S, S \subseteq Int, NEW m \in S, \A x \in S : x <= m
  PROVE  Max(S) = m
<1>1. \A y \in S : m >= y
  OBVIOUS
<1>2. Max(S) \in S /\ \A y \in S : Max(S) >= y
  BY <1>1 DEF Max
<1>3. \A a, b \in Int : a >= b /\ b >= a => a = b
  OBVIOUS
<1> QED BY <1>1, <1>2, <1>3

LEMMA Least ==
  ASSUME NEW S, S \subseteq Nat, S # {}
  PROVE  \E y \in S : \A z \in S : ~(z < y)
<1>1. IsWellFoundedOn(OpToRel(<, Nat), Nat)
  BY NatLessThanWellFounded
<1>2. PICK y \in S : \A z \in S : ~(<<z, y>> \in OpToRel(<, Nat))
  BY <1>1, WFMin
<1> QED BY <1>2 DEF OpToRel

LEMMA MaxExists ==
  ASSUME NEW n \in Nat, NEW S, S \subseteq 0 .. n, S # {}
  PROVE  Max(S) \in S /\ \A x \in S : x <= Max(S)
<1> DEFINE T == {n - x : x \in S}
<1>1. T \subseteq Nat /\ T # {}
  <2>1. \A x \in S : n - x \in Nat
    OBVIOUS
  <2>2. PICK x : x \in S
    OBVIOUS
  <2>3. n - x \in T
    BY <2>2
  <2> QED BY <2>1, <2>3
<1>4. PICK y \in T : \A z \in T : ~(z < y)
  <2> HIDE DEF T
  <2> QED BY <1>1, Least
<1>5. PICK m \in S : y = n - m
  BY <1>4
<1>6. ASSUME NEW x \in S PROVE x <= m
  <2>1. n - x \in T
    OBVIOUS
  <2>2. ~(n - x < n - m)
    BY <1>4, <1>5, <2>1
  <2>3. x \in Int /\ m \in Int
    OBVIOUS
  <2> QED BY <2>2, <2>3
<1>7. S \subseteq Int
  OBVIOUS
<1>8. Max(S) = m
  BY <1>6, <1>7, MaxIs
<1> QED BY <1>6, <1>8

-----------------------------------------------------------------------------
(* The walk in closed form: where the run of stamped rows began, and what  *)
(* it stamps.  The stamp of row i covers the rows since the last legacy    *)
(* row, and is empty for a legacy row.                                     *)
Start(rs, i) == Max({0} \cup {j \in 1 .. i : ~ Chained(rs[j])})

Stamp(rs, i, k) ==
  [j \in 1 .. (i - Start(rs, i)) |-> <<k, rs[Start(rs, i) + j].data>>]

Macs == Seq(Keys \X Nat)

LEMMA RowOf ==
  ASSUME NEW rs \in Seq(Rows), NEW i \in 1 .. Len(rs)
  PROVE  /\ i \in DOMAIN rs /\ rs[i] \in Rows
         /\ rs[i].id \in Nat /\ rs[i].data \in Nat
         /\ rs[i].prev \in Macs /\ rs[i].mac \in Macs
<1>1. rs[i] \in Rows /\ i \in DOMAIN rs
  BY ElementOfSeq, LenProperties
<1>2. \A r \in Rows : r.id \in Nat /\ r.data \in Nat /\ r.prev \in Macs /\ r.mac \in Macs
  BY DEF Rows, Macs
<1> QED BY <1>1, <1>2

LEMMA MacIs ==
  ASSUME NEW prev \in Macs, NEW k \in Keys, NEW d \in Nat
  PROVE  /\ Mac(k, prev, d) \in Macs /\ Mac(k, prev, d) # NoMac
         /\ Front(Mac(k, prev, d)) = prev
         /\ Len(Mac(k, prev, d)) = Len(prev) + 1
<1> DEFINE m == Append(prev, <<k, d>>)
<1>1. <<k, d>> \in Keys \X Nat /\ prev \in Seq(Keys \X Nat)
  BY DEF Macs
<1>2. /\ m \in Seq(Keys \X Nat) /\ m # <<>> /\ Len(m) = Len(prev) + 1
      /\ \A i \in 1 .. Len(prev) : m[i] = prev[i]
  BY <1>1, AppendProperties
<1>3. Front(m) = prev
  <2> HIDE DEF m
  <2>1. Len(m) - 1 = Len(prev) /\ Len(prev) \in Nat
    BY <1>1, <1>2
  <2>2. \A i \in 1 .. Len(prev) : m[i] \in Keys \X Nat
    BY <1>1, <1>2
  <2>3. /\ SubSeq(m, 1, Len(prev)) \in Seq(Keys \X Nat)
        /\ Len(SubSeq(m, 1, Len(prev))) = Len(prev)
        /\ \A i \in 1 .. Len(prev) : SubSeq(m, 1, Len(prev))[i] = m[i]
    BY <2>1, <2>2, SubSeqProperties
  <2>4. SubSeq(m, 1, Len(prev)) = prev
    BY <1>1, <1>2, <2>3, SeqEqual
  <2> QED BY <2>1, <2>4 DEF Front
<1> QED BY <1>1, <1>2, <1>3 DEF Mac, Macs, NoMac

LEMMA StartIs ==
  ASSUME NEW rs \in Seq(Rows), NEW i \in 0 .. Len(rs)
  PROVE  /\ Start(rs, i) \in 0 .. i
         /\ i = 0 => Start(rs, i) = 0
         /\ i > 0 /\ ~Chained(rs[i]) => Start(rs, i) = i
         /\ i > 0 /\ Chained(rs[i]) => /\ Start(rs, i) = Start(rs, i - 1)
                                       /\ Start(rs, i) \in 0 .. i - 1
<1> DEFINE S(n) == {0} \cup {j \in 1 .. n : ~Chained(rs[j])}
<1>1. \A n \in 0 .. Len(rs) : S(n) \subseteq 0 .. n /\ 0 \in S(n)
  OBVIOUS
<1>2. \A n \in 0 .. Len(rs) : Start(rs, n) \in S(n) /\ \A x \in S(n) : x <= Start(rs, n)
  <2> SUFFICES ASSUME NEW n \in 0 .. Len(rs)
               PROVE  Start(rs, n) \in S(n) /\ \A x \in S(n) : x <= Start(rs, n)
    OBVIOUS
  <2>1. Start(rs, n) = Max(S(n))
    BY DEF Start
  <2> HIDE DEF S
  <2> QED BY <1>1, <2>1, MaxExists
<1>3. Start(rs, i) \in 0 .. i
  BY <1>1, <1>2
<1>4. ASSUME i > 0, ~Chained(rs[i]) PROVE Start(rs, i) = i
  <2>1. i \in S(i)
    BY <1>4
  <2> HIDE DEF S
  <2> QED BY <1>2, <1>3, <2>1
<1>5. ASSUME i > 0, Chained(rs[i])
      PROVE  Start(rs, i) = Start(rs, i - 1) /\ Start(rs, i) \in 0 .. i - 1
  <2>1. S(i) = S(i - 1)
    BY <1>5
  <2>2. Start(rs, i) = Start(rs, i - 1)
    BY <2>1 DEF Start
  <2> QED BY <1>1, <1>2, <1>5, <2>2
<1> QED BY <1>3, <1>4, <1>5

LEMMA StampIs ==
  ASSUME NEW rs \in Seq(Rows), NEW k \in Keys, NEW i \in 0 .. Len(rs)
  PROVE  /\ Stamp(rs, i, k) \in Macs
         /\ i = 0 => Stamp(rs, i, k) = NoMac
         /\ i > 0 /\ ~Chained(rs[i]) => Stamp(rs, i, k) = NoMac
         /\ i > 0 /\ Chained(rs[i]) =>
              /\ Stamp(rs, i - 1, k) \in Macs
              /\ Stamp(rs, i, k) = Mac(k, Stamp(rs, i - 1, k), rs[i].data)
<1>1. ASSUME NEW n \in 0 .. Len(rs)
      PROVE  /\ Stamp(rs, n, k) \in Macs /\ Len(Stamp(rs, n, k)) = n - Start(rs, n)
             /\ \A j \in 1 .. n - Start(rs, n) :
                  Stamp(rs, n, k)[j] = <<k, rs[Start(rs, n) + j].data>>
             /\ n - Start(rs, n) \in Nat
  <2>1. Start(rs, n) \in 0 .. n
    BY StartIs
  <2>2. \A j \in 1 .. n - Start(rs, n) : <<k, rs[Start(rs, n) + j].data>> \in Keys \X Nat
    <3> SUFFICES ASSUME NEW j \in 1 .. n - Start(rs, n)
                 PROVE  rs[Start(rs, n) + j].data \in Nat
      OBVIOUS
    <3>1. Start(rs, n) + j \in 1 .. Len(rs)
      BY <2>1
    <3> QED BY <3>1, RowOf
  <2> DEFINE m == n - Start(rs, n)
             s == [j \in 1 .. m |-> <<k, rs[Start(rs, n) + j].data>>]
  <2>3. m \in Nat
    BY <2>1
  <2>4. s \in [1 .. m -> Keys \X Nat] /\ Stamp(rs, n, k) = s
    BY <2>2 DEF Stamp
  <2>5. \A j \in 1 .. m : s[j] = <<k, rs[Start(rs, n) + j].data>>
    OBVIOUS
  <2>6. s \in Seq(Keys \X Nat) /\ Len(s) = m
    <3> HIDE DEF m, s
    <3> QED BY <2>3, <2>4
  <2> HIDE DEF s
  <2> QED BY <2>3, <2>4, <2>5, <2>6 DEF Macs
<1>2. \A s \in Macs : Len(s) = 0 => s = NoMac
  BY DEF Macs, NoMac
<1>3. i = 0 => Stamp(rs, i, k) = NoMac
  BY <1>1, <1>2, StartIs
<1>4. i > 0 /\ ~Chained(rs[i]) => Stamp(rs, i, k) = NoMac
  BY <1>1, <1>2, StartIs
<1>5. ASSUME i > 0, Chained(rs[i])
      PROVE  /\ Stamp(rs, i - 1, k) \in Macs
             /\ Stamp(rs, i, k) = Mac(k, Stamp(rs, i - 1, k), rs[i].data)
  <2> DEFINE a == Stamp(rs, i, k)
             b == Stamp(rs, i - 1, k)
             f == Start(rs, i)
             n == i - 1 - f
  <2>1. f = Start(rs, i - 1) /\ f \in 0 .. i - 1 /\ i - 1 \in 0 .. Len(rs)
    BY <1>5, StartIs
  <2>2. /\ a \in Macs /\ Len(a) = n + 1 /\ b \in Macs /\ Len(b) = n /\ n \in Nat
        /\ \A j \in 1 .. n + 1 : a[j] = <<k, rs[f + j].data>>
        /\ \A j \in 1 .. n : b[j] = <<k, rs[f + j].data>>
    <3>1. i - f = n + 1 /\ f = Start(rs, i) /\ f = Start(rs, i - 1) /\ i \in 0 .. Len(rs)
      BY <2>1
    <3>2. /\ a \in Macs /\ Len(a) = i - f /\ i - f \in Nat
          /\ \A j \in 1 .. i - f : a[j] = <<k, rs[f + j].data>>
      BY <1>1, <3>1
    <3>3. /\ b \in Macs /\ Len(b) = n /\ n \in Nat
          /\ \A j \in 1 .. n : b[j] = <<k, rs[f + j].data>>
      <4> DEFINE m == i - 1
      <4>1. m \in 0 .. Len(rs) /\ f = Start(rs, m) /\ b = Stamp(rs, m, k) /\ n = m - f
        BY <2>1
      <4> HIDE DEF m, f, b, n
      <4> QED BY <1>1, <4>1
    <3> QED BY <3>1, <3>2, <3>3
  <2>3. f + (n + 1) = i
    BY <2>1
  <2>4. rs[i].data \in Nat
    BY <1>5, RowOf
  <2> PICK d : d = rs[i].data
    OBVIOUS
  <2>5. a[n + 1] = <<k, d>> /\ \A j \in 1 .. n : a[j] = b[j]
    <3>1. a[n + 1] = <<k, rs[f + (n + 1)].data>>
      BY <2>2
    <3>2. \A j \in 1 .. n : j \in 1 .. n + 1
      BY <2>2
    <3> QED BY <2>2, <2>3, <3>1, <3>2
  <2> HIDE DEF a, b, f, n
  <2>6. /\ Append(b, <<k, d>>) \in Seq(Keys \X Nat)
        /\ Len(Append(b, <<k, d>>)) = n + 1
        /\ \A j \in 1 .. n : Append(b, <<k, d>>)[j] = b[j]
        /\ Append(b, <<k, d>>)[n + 1] = <<k, d>>
    <3>1. <<k, d>> \in Keys \X Nat
      BY <2>4
    <3>2. b \in Seq(Keys \X Nat) /\ Len(b) = n
      BY <2>2 DEF Macs
    <3> PICK S, e : S = Keys \X Nat /\ e = <<k, d>>
      OBVIOUS
    <3>3. b \in Seq(S) /\ e \in S
      BY <3>1, <3>2
    <3>4. /\ Append(b, e) \in Seq(S) /\ Len(Append(b, e)) = Len(b) + 1
          /\ \A j \in 1 .. Len(b) : Append(b, e)[j] = b[j]
          /\ Append(b, e)[Len(b) + 1] = e
      BY <3>3, AppendProperties
    <3> QED BY <3>2, <3>4
  <2>7. \A j \in 1 .. n + 1 : a[j] = Append(b, <<k, d>>)[j]
    <3> PICK c : c = Append(b, <<k, d>>)
      OBVIOUS
    <3>1. \A j \in 1 .. n + 1 : j \in 1 .. n \/ j = n + 1
      BY <2>2
    <3>2. (\A j \in 1 .. n : c[j] = b[j]) /\ c[n + 1] = <<k, d>>
      BY <2>6
    <3>3. \A j \in 1 .. n + 1 : a[j] = c[j]
      BY <2>5, <3>1, <3>2, Zenon
    <3> QED BY <3>3
  <2>8. a = Append(b, <<k, d>>)
    BY <2>2, <2>6, <2>7, SeqEqual DEF Macs
  <2> QED BY <2>2, <2>8 DEF a, b, Mac
<1> QED BY <1>1, <1>3, <1>4, <1>5

(* The loop of the code, started at the top, computes the closed form: the *)
(* closed form solves the loop's equation, and the equation has only one   *)
(* solution (a first difference would have no cause).                      *)
LEMMA LoopIsClosedForm ==
  ASSUME NEW rs \in Seq(Rows), NEW k \in Keys
  PROVE  NewPrev(rs, k) = [n \in 0 .. Len(rs) |-> Stamp(rs, n, k)]
<1> DEFINE D(f) == [n \in 0 .. Len(rs) |->
                      IF n = 0 THEN NoMac
                      ELSE IF Chained(rs[n]) THEN Mac(k, f[n - 1], rs[n].data)
                      ELSE NoMac]
           g == [n \in 0 .. Len(rs) |-> Stamp(rs, n, k)]
           w == NewPrev(rs, k)
<1>0. Len(rs) \in Nat
  BY LenProperties
<1>1. NewPrev(rs, k) = CHOOSE f : f = D(f)
  BY DEF NewPrev
<1>2. g = D(g)
  <2>1. ASSUME NEW n \in 0 .. Len(rs)
        PROVE  g[n] = D(g)[n]
    <3>1. n > 0 => n - 1 \in 0 .. Len(rs)
      BY <1>0
    <3>2. n > 0 => g[n - 1] = Stamp(rs, n - 1, k)
      BY <3>1
    <3>3. /\ n = 0 => g[n] = NoMac
          /\ n > 0 /\ ~Chained(rs[n]) => g[n] = NoMac
          /\ n > 0 /\ Chained(rs[n]) => g[n] = Mac(k, g[n - 1], rs[n].data)
      BY <3>2, StampIs
    <3>4. n = 0 \/ n > 0
      OBVIOUS
    <3> HIDE DEF g
    <3> QED BY <3>3, <3>4
  <2>2. g = [n \in 0 .. Len(rs) |-> g[n]] /\ D(g) = [n \in 0 .. Len(rs) |-> D(g)[n]]
    OBVIOUS
  <2> HIDE DEF g, D
  <2> QED BY <2>1, <2>2
<1>3. w = D(w)
  <2> HIDE DEF g, D
  <2> QED BY <1>1, <1>2
<1>4. \A n \in 0 .. Len(rs) : w[n] = g[n]
  <2> DEFINE T == {n \in 0 .. Len(rs) : w[n] # g[n]}
  <2> SUFFICES ASSUME T # {} PROVE FALSE
    OBVIOUS
  <2>1. PICK y \in T : \A z \in T : ~(z < y)
    <3>1. T \subseteq Nat
      OBVIOUS
    <3> HIDE DEF T
    <3> QED BY <3>1, Least
  <2>2. y \in 0 .. Len(rs) /\ w[y] # g[y]
    BY <2>1
  <2>3. y > 0 => y - 1 \in 0 .. Len(rs)
    BY <1>0, <2>2
  <2>4. y > 0 => w[y - 1] = g[y - 1]
    <3>1. y > 0 => y - 1 < y
      BY <2>2
    <3> QED BY <2>1, <2>3, <3>1
  <2>5. /\ w[y] = D(w)[y] /\ g[y] = D(g)[y]
    <3> HIDE DEF D, g, w
    <3> QED BY <1>2, <1>3
  <2>6. D(w)[y] = D(g)[y]
    <3> HIDE DEF g, w
    <3>1. y = 0 \/ y > 0
      BY <2>2
    <3> QED BY <2>2, <2>4, <3>1
  <2> HIDE DEF D, g, w
  <2> QED BY <2>2, <2>5, <2>6
<1>5. w = [n \in 0 .. Len(rs) |-> w[n]]
  <2>1. D(w) = [n \in 0 .. Len(rs) |-> D(w)[n]]
    OBVIOUS
  <2> HIDE DEF D, w
  <2> QED BY <1>3, <2>1
<1> HIDE DEF w, D
<1> QED BY <1>4, <1>5 DEF w

-----------------------------------------------------------------------------
(* What the walk leaves.                                                   *)
Verified(rs, k) ==
  \A i \in 1 .. Len(rs) : Chained(rs[i]) => Linked(rs, i) /\ Authentic(rs, i, k)
Joined(rs, out) ==
  \A i \in 1 .. Len(rs) :
    Chained(rs[i]) /\ rs[i].id \notin out
      => Linked(rs, i) /\ rs[i].prev = Front(rs[i].mac)

LEMMA VerifiedIsIntact ==
  ASSUME NEW rs \in Seq(Rows), NEW k
  PROVE  Intact(rs, k) <=> Verified(rs, k)
BY LenProperties DEF Intact, Breaks, Verified

LEMMA VerifiedIsJoined ==
  ASSUME NEW rs \in Seq(Rows), NEW k \in Keys, Verified(rs, k), NEW out
  PROVE  Joined(rs, out)
<1> SUFFICES ASSUME NEW i \in 1 .. Len(rs), Chained(rs[i])
             PROVE  Linked(rs, i) /\ rs[i].prev = Front(rs[i].mac)
  BY DEF Joined
<1>1. Linked(rs, i) /\ rs[i].mac = Mac(k, rs[i].prev, rs[i].data)
  BY DEF Verified, Authentic
<1> QED BY <1>1, RowOf, MacIs

LEMMA RestampInClosedForm ==
  ASSUME NEW rs \in Seq(Rows), NEW k \in Keys
  PROVE  Restamp(rs, k) =
           [i \in DOMAIN rs |->
              IF Chained(rs[i])
              THEN [rs[i] EXCEPT !.prev = Stamp(rs, i - 1, k), !.mac = Stamp(rs, i, k)]
              ELSE rs[i]]
<1>0. Len(rs) \in Nat /\ DOMAIN rs = 1 .. Len(rs)
  BY LenProperties
<1>1. \A n \in 0 .. Len(rs) : NewPrev(rs, k)[n] = Stamp(rs, n, k)
  <2>1. NewPrev(rs, k) = [n \in 0 .. Len(rs) |-> Stamp(rs, n, k)]
    BY LoopIsClosedForm
  <2> QED BY <2>1
<1> PICK walk : walk = NewPrev(rs, k)
  OBVIOUS
<1>2. \A i \in DOMAIN rs : walk[i - 1] = Stamp(rs, i - 1, k) /\ walk[i] = Stamp(rs, i, k)
  <2>1. \A i \in DOMAIN rs : i \in 0 .. Len(rs) /\ i - 1 \in 0 .. Len(rs)
    BY <1>0
  <2> QED BY <1>1, <2>1
<1> QED BY <1>2 DEF Restamp

LEMMA RestampIs ==
  ASSUME NEW rs \in Seq(Rows), NEW k \in Keys
  PROVE  LET st == Restamp(rs, k) IN
         /\ st \in Seq(Rows) /\ Len(st) = Len(rs)
         /\ \A i \in 1 .. Len(rs) :
              /\ st[i].id = rs[i].id /\ st[i].data = rs[i].data
              /\ Chained(st[i]) <=> Chained(rs[i])
              /\ ~Chained(rs[i]) => st[i] = rs[i]
              /\ Chained(rs[i]) =>
                   /\ st[i].prev = Stamp(rs, i - 1, k)
                   /\ st[i].mac = Stamp(rs, i, k)
                   /\ st[i].mac = Mac(k, st[i].prev, st[i].data)
<1> DEFINE st == Restamp(rs, k)
<1>0. Len(rs) \in Nat /\ DOMAIN rs = 1 .. Len(rs)
  BY LenProperties
<1>a. st = [i \in DOMAIN rs |->
              IF Chained(rs[i])
              THEN [rs[i] EXCEPT !.prev = Stamp(rs, i - 1, k), !.mac = Stamp(rs, i, k)]
              ELSE rs[i]]
  BY RestampInClosedForm
<1>1. ASSUME NEW i \in 1 .. Len(rs)
      PROVE  /\ st[i] \in Rows
             /\ st[i].id = rs[i].id /\ st[i].data = rs[i].data
             /\ Chained(st[i]) <=> Chained(rs[i])
             /\ ~Chained(rs[i]) => st[i] = rs[i]
             /\ Chained(rs[i]) =>
                  /\ st[i].prev = Stamp(rs, i - 1, k)
                  /\ st[i].mac = Stamp(rs, i, k)
                  /\ st[i].mac = Mac(k, st[i].prev, st[i].data)
  <2>1. rs[i] \in Rows /\ rs[i].data \in Nat /\ i \in 0 .. Len(rs) /\ i > 0 /\ i \in DOMAIN rs
    BY <1>0, RowOf
  <2>2. CASE ~Chained(rs[i])
    BY <1>a, <2>1, <2>2
  <2>3. CASE Chained(rs[i])
    <3> PICK a : a = Stamp(rs, i - 1, k)
      OBVIOUS
    <3> PICK b : b = Stamp(rs, i, k)
      OBVIOUS
    <3> PICK r : r = rs[i]
      OBVIOUS
    <3>1. a \in Macs /\ b \in Macs /\ b = Mac(k, a, r.data)
      BY <2>1, <2>3, StampIs
    <3>2. b # NoMac
      <4>1. a \in Macs /\ r.data \in Nat
        BY <2>1, <3>1
      <4>2. Mac(k, a, r.data) # NoMac
        BY <4>1, MacIs
      <4> QED BY <3>1, <4>2
    <3>3. st[i] = [r EXCEPT !.prev = a, !.mac = b]
      BY <1>a, <2>1, <2>3
    <3>4. r \in [id : Nat, data : Nat, prev : Seq(Keys \X Nat), mac : Seq(Keys \X Nat)]
      BY <2>1 DEF Rows
    <3>5. /\ st[i] \in [id : Nat, data : Nat, prev : Seq(Keys \X Nat), mac : Seq(Keys \X Nat)]
          /\ st[i].id = r.id /\ st[i].data = r.data /\ st[i].prev = a /\ st[i].mac = b
      <4> HIDE DEF st
      <4> QED BY <3>1, <3>3, <3>4 DEF Macs
    <3> HIDE DEF st
    <3> QED BY <2>3, <3>1, <3>2, <3>5 DEF Chained, Rows
  <2> QED BY <2>2, <2>3
<1>2. st = [i \in 1 .. Len(rs) |-> st[i]]
  BY <1>0, <1>a
<1>3. st \in Seq(Rows) /\ Len(st) = Len(rs)
  <2> HIDE DEF st
  <2>1. st \in [1 .. Len(rs) -> Rows]
    BY <1>1, <1>2
  <2> QED BY <1>0, <2>1
<1> HIDE DEF st
<1> QED BY <1>1, <1>3 DEF st

LEMMA RestampVerified ==
  ASSUME NEW rs \in Seq(Rows), NEW k \in Keys
  PROVE  Verified(Restamp(rs, k), k)
<1> DEFINE st == Restamp(rs, k)
<1>1. /\ st \in Seq(Rows) /\ Len(st) = Len(rs) /\ Len(rs) \in Nat
      /\ \A i \in 1 .. Len(rs) :
           /\ Chained(st[i]) <=> Chained(rs[i])
           /\ ~Chained(rs[i]) => st[i] = rs[i]
           /\ Chained(rs[i]) =>
                /\ st[i].prev = Stamp(rs, i - 1, k)
                /\ st[i].mac = Stamp(rs, i, k)
                /\ st[i].mac = Mac(k, st[i].prev, st[i].data)
  BY RestampIs, LenProperties
<1>2. ASSUME NEW i \in 1 .. Len(rs), Chained(st[i])
      PROVE  st[i].prev = Before(st, i)
  <2>1. st[i].prev = Stamp(rs, i - 1, k)
    BY <1>1, <1>2
  <2>2. CASE i = 1
    <3>1. Stamp(rs, 0, k) = NoMac
      BY <1>1, StampIs
    <3> QED BY <2>1, <2>2, <3>1 DEF Before
  <2>3. CASE i # 1
    <3>1. i - 1 \in 1 .. Len(rs) /\ i - 1 \in 0 .. Len(rs) /\ i - 1 > 0
      BY <1>1, <2>3
    <3>2. CASE Chained(rs[i - 1])
      BY <1>1, <2>1, <2>3, <3>1, <3>2 DEF Before
    <3>3. CASE ~Chained(rs[i - 1])
      <4>1. Stamp(rs, i - 1, k) = NoMac
        BY <3>1, <3>3, StampIs
      <4>2. st[i - 1].mac = NoMac
        BY <1>1, <3>1, <3>3 DEF Chained
      <4> QED BY <2>1, <2>3, <4>1, <4>2 DEF Before
    <3> QED BY <3>2, <3>3
  <2> QED BY <2>2, <2>3
<1> HIDE DEF st
<1> QED BY <1>1, <1>2 DEF Verified, Linked, Authentic, st

Growing(rs) == \A i, j \in 1 .. Len(rs) : i < j => rs[i].id < rs[j].id

(* Over the rows it read the walk's UPDATEs leave exactly what it stamped. *)
LEMMA RewriteIs ==
  ASSUME NEW rs \in Seq(Rows), NEW st \in Seq(Rows), Len(st) = Len(rs), Growing(rs),
         \A i \in 1 .. Len(rs) : /\ st[i].id = rs[i].id /\ st[i].data = rs[i].data
                                 /\ ~Chained(st[i]) => st[i] = rs[i]
  PROVE  Rewrite(rs, st) = st
<1>0. Len(rs) \in Nat /\ DOMAIN rs = 1 .. Len(rs) /\ DOMAIN st = 1 .. Len(rs)
  BY LenProperties
<1> DEFINE New(i) == {j \in DOMAIN st : st[j].id = rs[i].id /\ Chained(st[j])}
<1>1. ASSUME NEW i \in 1 .. Len(rs)
      PROVE  Rewrite(rs, st)[i] = st[i]
  <2>1. ASSUME NEW j \in 1 .. Len(rs), st[j].id = rs[i].id
        PROVE  j = i
    <3>1. rs[j].id = rs[i].id /\ rs[i].id \in Nat
      BY <2>1, RowOf
    <3>2. ~(i < j) /\ ~(j < i)
      BY <3>1 DEF Growing
    <3> QED BY <3>2
  <2>2. Rewrite(rs, st)[i] =
          IF New(i) = {} THEN rs[i]
          ELSE [rs[i] EXCEPT !.prev = st[Max(New(i))].prev, !.mac = st[Max(New(i))].mac]
    BY <1>0 DEF Rewrite
  <2>3. CASE ~Chained(st[i])
    <3>1. New(i) = {}
      BY <1>0, <2>1, <2>3
    <3> HIDE DEF New
    <3> QED BY <2>2, <2>3, <3>1
  <2>4. CASE Chained(st[i])
    <3>1. New(i) = {i}
      BY <1>0, <2>1, <2>4
    <3>2. Max(New(i)) = i
      <4>1. {i} \subseteq Int /\ i \in {i} /\ \A x \in {i} : x <= i
        OBVIOUS
      <4>2. Max({i}) = i
        BY <4>1, MaxIs
      <4> QED BY <3>1, <4>2
    <3> PICK r : r = rs[i]
      OBVIOUS
    <3> PICK s : s = st[i]
      OBVIOUS
    <3>3. Rewrite(rs, st)[i] = [r EXCEPT !.prev = s.prev, !.mac = s.mac]
      <4> HIDE DEF New
      <4> QED BY <2>2, <3>1, <3>2
    <3>4. /\ r \in [id : Nat, data : Nat, prev : Seq(Keys \X Nat), mac : Seq(Keys \X Nat)]
          /\ s \in [id : Nat, data : Nat, prev : Seq(Keys \X Nat), mac : Seq(Keys \X Nat)]
          /\ s.id = r.id /\ s.data = r.data
      BY RowOf DEF Rows
    <3>5. [r EXCEPT !.prev = s.prev, !.mac = s.mac] = s
      BY <3>4
    <3> QED BY <3>3, <3>5
  <2> QED BY <2>3, <2>4
<1>2. Rewrite(rs, st) = [i \in 1 .. Len(rs) |-> Rewrite(rs, st)[i]]
  BY <1>0 DEF Rewrite
<1>3. st = [i \in 1 .. Len(rs) |-> st[i]]
  BY <1>0
<1> QED BY <1>1, <1>2, <1>3

(* Whatever it read, it changes nothing but the two stamps.                *)
LEMMA RewriteKeeps ==
  ASSUME NEW rs \in Seq(Rows), NEW st \in Seq(Rows)
  PROVE  /\ Rewrite(rs, st) \in Seq(Rows) /\ Len(Rewrite(rs, st)) = Len(rs)
         /\ \A i \in 1 .. Len(rs) : /\ Rewrite(rs, st)[i].id = rs[i].id
                                    /\ Rewrite(rs, st)[i].data = rs[i].data
<1>0. /\ Len(rs) \in Nat /\ DOMAIN rs = 1 .. Len(rs)
      /\ Len(st) \in Nat /\ DOMAIN st = 1 .. Len(st)
  BY LenProperties
<1> DEFINE New(i) == {j \in DOMAIN st : st[j].id = rs[i].id /\ Chained(st[j])}
<1>1. ASSUME NEW i \in 1 .. Len(rs)
      PROVE  /\ Rewrite(rs, st)[i] \in Rows
             /\ Rewrite(rs, st)[i].id = rs[i].id /\ Rewrite(rs, st)[i].data = rs[i].data
  <2>1. Rewrite(rs, st)[i] =
          IF New(i) = {} THEN rs[i]
          ELSE [rs[i] EXCEPT !.prev = st[Max(New(i))].prev, !.mac = st[Max(New(i))].mac]
    BY <1>0 DEF Rewrite
  <2>2. rs[i] \in Rows
    BY RowOf
  <2>3. ASSUME New(i) # {}
        PROVE  Max(New(i)) \in 1 .. Len(st)
    <3>1. New(i) \subseteq 0 .. Len(st) /\ New(i) \subseteq 1 .. Len(st)
      BY <1>0
    <3> HIDE DEF New
    <3> QED BY <1>0, <2>3, <3>1, MaxExists
  <2> PICK r : r = rs[i]
    OBVIOUS
  <2>4. CASE New(i) = {}
    <3> HIDE DEF New
    <3> QED BY <2>1, <2>2, <2>4
  <2>5. CASE New(i) # {}
    <3> PICK s : s = st[Max(New(i))]
      OBVIOUS
    <3>1. s \in Rows
      <4> HIDE DEF New
      <4> QED BY <2>3, <2>5, RowOf
    <3>2. Rewrite(rs, st)[i] = [r EXCEPT !.prev = s.prev, !.mac = s.mac]
      <4> HIDE DEF New
      <4> QED BY <2>1, <2>5
    <3>3. /\ [r EXCEPT !.prev = s.prev, !.mac = s.mac] \in Rows
          /\ [r EXCEPT !.prev = s.prev, !.mac = s.mac].id = r.id
          /\ [r EXCEPT !.prev = s.prev, !.mac = s.mac].data = r.data
      BY <2>2, <3>1 DEF Rows
    <3> QED BY <3>2, <3>3
  <2> QED BY <2>4, <2>5
<1>2. Rewrite(rs, st) = [i \in 1 .. Len(rs) |-> Rewrite(rs, st)[i]]
  BY <1>0 DEF Rewrite
<1>3. Rewrite(rs, st) \in [1 .. Len(rs) -> Rows]
  BY <1>1, <1>2
<1>4. \A f \in [1 .. Len(rs) -> Rows] : f \in Seq(Rows) /\ Len(f) = Len(rs)
  BY <1>0
<1> QED BY <1>1, <1>3, <1>4

(* A row after the last.                                                   *)
LEMMA AppendIs ==
  ASSUME NEW rs \in Seq(Rows), NEW r \in Rows
  PROVE  LET more == Append(rs, r) IN
         /\ more \in Seq(Rows) /\ Len(more) = Len(rs) + 1 /\ more # <<>>
         /\ \A i \in 1 .. Len(rs) : more[i] = rs[i] /\ Before(more, i) = Before(rs, i)
         /\ more[Len(rs) + 1] = r
         /\ Before(more, Len(rs) + 1) = LastMac(rs)
         /\ \A i \in 1 .. Len(more) : i \in 1 .. Len(rs) \/ i = Len(rs) + 1
<1> DEFINE more == Append(rs, r)
<1>1. /\ more \in Seq(Rows) /\ more # <<>> /\ Len(more) = Len(rs) + 1
      /\ \A i \in 1 .. Len(rs) : more[i] = rs[i]
      /\ more[Len(rs) + 1] = r
  BY AppendProperties
<1>2. Len(rs) \in Nat /\ (rs = <<>> <=> Len(rs) = 0)
  BY LenProperties, EmptySeq
<1> HIDE DEF more
<1>3. \A i \in 1 .. Len(rs) : Before(more, i) = Before(rs, i)
  <2> SUFFICES ASSUME NEW i \in 1 .. Len(rs), i # 1
               PROVE  more[i - 1] = rs[i - 1]
    BY DEF Before
  <2>1. i - 1 \in 1 .. Len(rs)
    BY <1>2
  <2> QED BY <1>1, <2>1
<1>4. Before(more, Len(rs) + 1) = LastMac(rs)
  <2>1. CASE Len(rs) = 0
    BY <1>2, <2>1 DEF Before, LastMac
  <2>2. CASE Len(rs) # 0
    <3>1. Len(rs) \in 1 .. Len(rs) /\ Len(rs) + 1 # 1 /\ (Len(rs) + 1) - 1 = Len(rs)
      BY <1>2, <2>2
    <3> QED BY <1>1, <1>2, <2>2, <3>1 DEF Before, LastMac
  <2> QED BY <2>1, <2>2
<1>5. \A i \in 1 .. Len(more) : i \in 1 .. Len(rs) \/ i = Len(rs) + 1
  BY <1>1, <1>2
<1> QED BY <1>1, <1>3, <1>4, <1>5 DEF more

LEMMA LastMacIs ==
  ASSUME NEW rs \in Seq(Rows)
  PROVE  LastMac(rs) \in Macs
<1>1. CASE rs = <<>>
  <2>1. <<>> \in Seq(Keys \X Nat)
    BY EmptySeq
  <2> QED BY <1>1, <2>1 DEF LastMac, NoMac, Macs
<1>2. CASE rs # <<>>
  <2>1. Len(rs) \in 1 .. Len(rs)
    BY <1>2, EmptySeq
  <2> QED BY <1>2, <2>1, RowOf DEF LastMac
<1> QED BY <1>1, <1>2

LEMMA AppendJoined ==
  ASSUME NEW rs \in Seq(Rows), NEW r \in Rows, NEW out, Joined(rs, out),
         Chained(r) => r.prev = LastMac(rs) /\ r.prev = Front(r.mac)
  PROVE  Joined(Append(rs, r), out)
<1> DEFINE more == Append(rs, r)
<1>1. /\ Len(more) = Len(rs) + 1
      /\ \A i \in 1 .. Len(rs) : more[i] = rs[i] /\ Before(more, i) = Before(rs, i)
      /\ more[Len(rs) + 1] = r /\ Before(more, Len(rs) + 1) = LastMac(rs)
      /\ \A i \in 1 .. Len(more) : i \in 1 .. Len(rs) \/ i = Len(rs) + 1
  BY AppendIs
<1> HIDE DEF more
<1> QED BY <1>1 DEF Joined, Linked, more

LEMMA AppendVerified ==
  ASSUME NEW rs \in Seq(Rows), NEW r \in Rows, NEW k, Verified(rs, k),
         Chained(r) => r.prev = LastMac(rs) /\ r.mac = Mac(k, r.prev, r.data)
  PROVE  Verified(Append(rs, r), k)
<1> DEFINE more == Append(rs, r)
<1>1. /\ Len(more) = Len(rs) + 1
      /\ \A i \in 1 .. Len(rs) : more[i] = rs[i] /\ Before(more, i) = Before(rs, i)
      /\ more[Len(rs) + 1] = r /\ Before(more, Len(rs) + 1) = LastMac(rs)
      /\ \A i \in 1 .. Len(more) : i \in 1 .. Len(rs) \/ i = Len(rs) + 1
  BY AppendIs
<1> HIDE DEF more
<1> QED BY <1>1 DEF Verified, Linked, Authentic, more

LEMMA AppendGrowing ==
  ASSUME NEW rs \in Seq(Rows), NEW r \in Rows, Growing(rs),
         \A i \in 1 .. Len(rs) : rs[i].id < r.id
  PROVE  Growing(Append(rs, r))
<1> DEFINE more == Append(rs, r)
<1>1. /\ Len(more) = Len(rs) + 1 /\ Len(rs) \in Nat
      /\ \A i \in 1 .. Len(rs) : more[i] = rs[i]
      /\ more[Len(rs) + 1] = r
      /\ \A i \in 1 .. Len(more) : i \in 1 .. Len(rs) \/ i = Len(rs) + 1
  BY AppendIs, LenProperties
<1> HIDE DEF more
<1>2. ASSUME NEW i \in 1 .. Len(more), NEW j \in 1 .. Len(more), i < j
      PROVE  more[i].id < more[j].id
  <2>1. i \in 1 .. Len(rs)
    BY <1>1, <1>2
  <2> QED BY <1>1, <1>2, <2>1 DEF Growing
<1> QED BY <1>2 DEF Growing, more

LEMMA SurvivorsAre ==
  ASSUME rows \in Seq(Rows), NEW cut \in 1 .. Len(rows), Growing(rows)
  PROVE  /\ Survivors(cut) \in Seq(Rows) /\ Len(Survivors(cut)) = Len(rows) - cut
         /\ \A i \in 1 .. Len(rows) - cut : Survivors(cut)[i] = rows[cut + i]
                                              /\ cut + i \in 1 .. Len(rows)
         /\ Growing(Survivors(cut))
<1> DEFINE s == Survivors(cut)
<1>0. Len(rows) \in Nat
  BY LenProperties
<1>1. \A i \in cut + 1 .. Len(rows) : rows[i] \in Rows
  BY <1>0, RowOf
<1>2. /\ s \in Seq(Rows)
      /\ Len(s) = IF cut + 1 <= Len(rows) THEN Len(rows) - (cut + 1) + 1 ELSE 0
      /\ \A i \in 1 .. Len(rows) - (cut + 1) + 1 : s[i] = rows[(cut + 1) + i - 1]
  BY <1>0, <1>1, SubSeqProperties DEF Survivors
<1> HIDE DEF s
<1>3. Len(s) = Len(rows) - cut
  BY <1>0, <1>2
<1>4. \A i \in 1 .. Len(rows) - cut : s[i] = rows[cut + i] /\ cut + i \in 1 .. Len(rows)
  <2> SUFFICES ASSUME NEW i \in 1 .. Len(rows) - cut
               PROVE  s[i] = rows[cut + i] /\ cut + i \in 1 .. Len(rows)
    OBVIOUS
  <2>1. i \in 1 .. Len(rows) - (cut + 1) + 1 /\ (cut + 1) + i - 1 = cut + i
    BY <1>0
  <2>2. cut + i \in 1 .. Len(rows)
    BY <1>0
  <2> QED BY <1>2, <2>1, <2>2
<1>5. Growing(s)
  <2> SUFFICES ASSUME NEW i \in 1 .. Len(rows) - cut, NEW j \in 1 .. Len(rows) - cut, i < j
               PROVE  s[i].id < s[j].id
    BY <1>3 DEF Growing
  <2>1. cut + i < cut + j
    BY <1>0
  <2> QED BY <1>4, <2>1 DEF Growing
<1> QED BY <1>2, <1>3, <1>4, <1>5 DEF s

-----------------------------------------------------------------------------
(* The log as it stands: rows in the order of their ids, all given out, and *)
(* no prev_hmac on a row without a stamp.                                  *)
Plain(rs) == \A i \in 1 .. Len(rs) : Chained(rs[i]) \/ rs[i].prev = NoMac
Below(rs, n) == \A i \in 1 .. Len(rs) : rs[i].id < n

Log ==
  /\ rows \in Seq(Rows)
  /\ Plain(rows)
  /\ nextId \in Nat \ {0}
  /\ Growing(rows)
  /\ Below(rows, nextId)

(* An open transaction of record_audit has a key to stamp with.            *)
Keyring ==
  /\ envKey \in Keys \cup {NoKey}
  /\ memKey \in [Writers -> Keys \cup {NoKey}]
  /\ seen \in [Writers -> Nat \cup {Out}]
  /\ \A w \in Writers : InTransaction(w) => memKey[w] \in Keys
  /\ dbKey \in Keys \cup {NoKey}
  /\ edits \in 0 .. MaxEdits

(* A rotation under way has a key to go to; the prune's cut is inside the  *)
(* log, which nobody else shortens.                                        *)
Rotating ==
  /\ rot \in [phase : {"idle", "verified", "walking", "committed", "applied"},
              to : Keys \cup {NoKey}, snap : Seq(Rows)]
  /\ rot.phase # "idle" => rot.to \in Keys

Sweeping ==
  /\ sweep \in [phase : {"idle", "started", "walking"},
                key : Keys \cup {NoKey}, cut : Nat, snap : Seq(Rows)]
  /\ sweep.phase = "walking" => sweep.cut \in 1 .. Len(rows)

Blanking == cleared \subseteq Nat

Base == Log /\ Keyring /\ Rotating /\ Sweeping /\ Blanking

LEMMA BaseTyped ==
  ASSUME Base
  PROVE  TypeOK
<1>1. \A i \in DOMAIN rows : Chained(rows[i]) \/ rows[i].prev = NoMac
  BY LenProperties DEF Base, Log, Plain
<1> QED BY <1>1 DEF Base, Log, Keyring, Rotating, Sweeping, Blanking, TypeOK

LEMMA RowIs ==
  ASSUME NEW n \in Nat \ {0}, NEW prev \in Macs, NEW mac \in Macs
  PROVE  /\ Row(n, prev, mac) \in Rows
         /\ Row(n, prev, mac).id = n /\ Row(n, prev, mac).data = n
         /\ Row(n, prev, mac).prev = prev /\ Row(n, prev, mac).mac = mac
BY DEF Row, Rows, Macs

LEMMA NoMacIs == NoMac \in Macs
<1>1. <<>> \in Seq(Keys \X Nat)
  BY EmptySeq
<1> QED BY <1>1 DEF NoMac, Macs

(* Every commit adds one row to a log that is in order.                    *)
LEMMA AppendLog ==
  ASSUME nextId \in Nat \ {0}, nextId' = nextId + 1,
         NEW old \in Seq(Rows), Plain(old), Growing(old), Below(old, nextId),
         NEW prev \in Macs, NEW mac \in Macs, mac # NoMac \/ prev = NoMac,
         rows' = Append(old, Row(nextId, prev, mac))
  PROVE  Log' /\ Len(rows') = Len(old) + 1
<1> DEFINE r == Row(nextId, prev, mac)
<1>1. r \in Rows /\ r.id = nextId /\ r.prev = prev /\ r.mac = mac
  BY RowIs
<1> HIDE DEF r
<1> PICK more : more = Append(old, r)
  OBVIOUS
<1>2. /\ more \in Seq(Rows) /\ Len(more) = Len(old) + 1
      /\ \A i \in 1 .. Len(old) : more[i] = old[i]
      /\ more[Len(old) + 1] = r
      /\ \A i \in 1 .. Len(more) : i \in 1 .. Len(old) \/ i = Len(old) + 1
  BY <1>1, AppendIs
<1>3. Growing(more)
  BY <1>1, AppendGrowing DEF Below
<1>4. Plain(more)
  BY <1>1, <1>2 DEF Plain, Chained
<1>5. Below(more, nextId + 1)
  <2> SUFFICES ASSUME NEW i \in 1 .. Len(more)
               PROVE  more[i].id < nextId + 1
    BY DEF Below
  <2>1. CASE i \in 1 .. Len(old)
    <3>1. more[i].id < nextId /\ more[i].id \in Nat
      BY <1>2, <2>1, RowOf DEF Below
    <3> QED BY <3>1
  <2>2. CASE i = Len(old) + 1
    BY <1>1, <1>2, <2>2
  <2> QED BY <1>2, <2>1, <2>2
<1>6. rows' = more
  BY DEF r
<1>7. nextId + 1 \in Nat \ {0}
  OBVIOUS
<1> QED BY <1>2, <1>3, <1>4, <1>5, <1>6, <1>7 DEF Log

LEMMA RewriteLog ==
  ASSUME NEW rs \in Seq(Rows), NEW st \in Seq(Rows), NEW n \in Nat,
         Plain(rs), Growing(rs), Below(rs, n)
  PROVE  /\ Rewrite(rs, st) \in Seq(Rows) /\ Len(Rewrite(rs, st)) = Len(rs)
         /\ Plain(Rewrite(rs, st)) /\ Growing(Rewrite(rs, st)) /\ Below(Rewrite(rs, st), n)
<1> DEFINE out == Rewrite(rs, st)
           New(i) == {j \in DOMAIN st : st[j].id = rs[i].id /\ Chained(st[j])}
<1>0. /\ Len(rs) \in Nat /\ DOMAIN rs = 1 .. Len(rs)
      /\ Len(st) \in Nat /\ DOMAIN st = 1 .. Len(st)
  BY LenProperties
<1>1. /\ out \in Seq(Rows) /\ Len(out) = Len(rs)
      /\ \A i \in 1 .. Len(rs) : out[i].id = rs[i].id
  BY RewriteKeeps
<1>2. ASSUME NEW i \in 1 .. Len(rs)
      PROVE  Chained(out[i]) \/ out[i].prev = NoMac
  <2>1. out[i] =
          IF New(i) = {} THEN rs[i]
          ELSE [rs[i] EXCEPT !.prev = st[Max(New(i))].prev, !.mac = st[Max(New(i))].mac]
    BY <1>0 DEF Rewrite
  <2>2. CASE New(i) = {}
    <3> HIDE DEF New, out
    <3> QED BY <2>1, <2>2 DEF Plain
  <2>3. CASE New(i) # {}
    <3>1. New(i) \subseteq 0 .. Len(st)
      BY <1>0
    <3>2. Max(New(i)) \in New(i)
      <4> HIDE DEF New
      <4> QED BY <1>0, <2>3, <3>1, MaxExists
    <3> PICK m : m = Max(New(i))
      OBVIOUS
    <3>3. m \in New(i)
      <4> HIDE DEF New
      <4> QED BY <3>2
    <3>4. Chained(st[m])
      BY <3>3
    <3> PICK s : s = st[m]
      OBVIOUS
    <3> PICK r : r = rs[i]
      OBVIOUS
    <3>5. r \in Rows
      BY RowOf
    <3>6. out[i] = [r EXCEPT !.prev = s.prev, !.mac = s.mac]
      <4> HIDE DEF New, out
      <4> QED BY <2>1, <2>3
    <3>7. [r EXCEPT !.prev = s.prev, !.mac = s.mac].mac = s.mac
      BY <3>5 DEF Rows
    <3> HIDE DEF out
    <3> QED BY <3>4, <3>6, <3>7 DEF Chained
  <2> QED BY <2>2, <2>3
<1>3. Plain(out)
  <2> HIDE DEF out
  <2> QED BY <1>1, <1>2 DEF Plain
<1> HIDE DEF out
<1>4. Growing(out)
  <2> SUFFICES ASSUME NEW i \in 1 .. Len(rs), NEW j \in 1 .. Len(rs), i < j
               PROVE  out[i].id < out[j].id
    BY <1>1 DEF Growing
  <2>1. rs[i].id < rs[j].id
    BY DEF Growing
  <2> QED BY <1>1, <2>1
<1>5. Below(out, n)
  <2> SUFFICES ASSUME NEW i \in 1 .. Len(rs)
               PROVE  out[i].id < n
    BY <1>1 DEF Below
  <2>1. rs[i].id < n
    BY DEF Below
  <2> QED BY <1>1, <2>1
<1> QED BY <1>1, <1>3, <1>4, <1>5 DEF out

LEMMA SurvivorsLog ==
  ASSUME Log, NEW cut \in 1 .. Len(rows)
  PROVE  /\ Survivors(cut) \in Seq(Rows) /\ Len(Survivors(cut)) = Len(rows) - cut
         /\ Plain(Survivors(cut)) /\ Growing(Survivors(cut)) /\ Below(Survivors(cut), nextId)
<1>1. /\ Survivors(cut) \in Seq(Rows) /\ Len(Survivors(cut)) = Len(rows) - cut
      /\ \A i \in 1 .. Len(rows) - cut : Survivors(cut)[i] = rows[cut + i]
                                           /\ cut + i \in 1 .. Len(rows)
      /\ Growing(Survivors(cut))
  BY SurvivorsAre DEF Log
<1> QED BY <1>1 DEF Log, Plain, Below

(* The mac record_audit chains to: some row's, or none.                    *)
LEMMA SeenMacIs ==
  ASSUME rows \in Seq(Rows), NEW w
  PROVE  SeenMac(w) \in Macs
<1> DEFINE found == {i \in DOMAIN rows : rows[i].id = seen[w]}
<1>1. found \subseteq 0 .. Len(rows) /\ found \subseteq 1 .. Len(rows) /\ Len(rows) \in Nat
  BY LenProperties
<1>2. SeenMac(w) = IF found = {} THEN NoMac ELSE rows[Max(found)].mac
  BY DEF SeenMac
<1> HIDE DEF found
<1>3. CASE found = {}
  BY <1>2, <1>3, NoMacIs
<1>4. CASE found # {}
  <2>1. Max(found) \in 1 .. Len(rows)
    BY <1>1, <1>4, MaxExists
  <2> QED BY <1>2, <1>4, <2>1, RowOf
<1> QED BY <1>3, <1>4

LEMMA RecordLog ==
  ASSUME Base, NEW w \in Writers, RecordUnstamped(w) \/ RecordInserts(w)
  PROVE  Log' /\ Len(rows') = Len(rows) + 1
<1>1. /\ rows \in Seq(Rows) /\ Plain(rows) /\ Growing(rows) /\ Below(rows, nextId)
      /\ nextId \in Nat \ {0}
  BY DEF Base, Log
<1>2. CASE RecordUnstamped(w)
  BY <1>1, <1>2, NoMacIs, AppendLog DEF RecordUnstamped
<1>3. CASE RecordInserts(w)
  <2> PICK prev : prev = SeenMac(w)
    OBVIOUS
  <2>1. prev \in Macs /\ memKey[w] \in Keys
    BY <1>1, <1>3, SeenMacIs DEF Base, Keyring, RecordInserts
  <2> PICK mac : mac = Mac(memKey[w], prev, nextId)
    OBVIOUS
  <2>2. mac \in Macs /\ mac # NoMac
    BY <1>1, <2>1, MacIs
  <2>3. rows' = Append(rows, Row(nextId, prev, mac)) /\ nextId' = nextId + 1
    BY <1>3 DEF RecordInserts
  <2> QED BY <1>1, <2>1, <2>2, <2>3, AppendLog
<1> QED BY <1>2, <1>3

(* The last mac of a re-stamped log and the mac the transaction's own row  *)
(* puts on top of it.                                                      *)
LEMMA OnTop ==
  ASSUME NEW st \in Seq(Rows), NEW k \in Keys, NEW n \in Nat
  PROVE  /\ LastMac(st) \in Macs
         /\ Mac(k, LastMac(st), n) \in Macs /\ Mac(k, LastMac(st), n) # NoMac
BY LastMacIs, MacIs

LEMMA RotateLog ==
  ASSUME Base, RotateCommits
  PROVE  Log' /\ Len(rows') = Len(rows) + 1
<1> DEFINE st == Restamp(rot.snap, rot.to)
<1>1. /\ rows \in Seq(Rows) /\ Plain(rows) /\ Growing(rows) /\ Below(rows, nextId)
      /\ nextId \in Nat \ {0} /\ nextId \in Nat
  BY DEF Base, Log
<1>2. rot.snap \in Seq(Rows) /\ rot.to \in Keys
  BY DEF Base, Rotating, RotateCommits
<1>3. st \in Seq(Rows)
  BY <1>2, RestampIs
<1>4. /\ rows' = Append(Rewrite(rows, st),
                        Row(nextId, LastMac(st), Mac(rot.to, LastMac(st), nextId)))
      /\ nextId' = nextId + 1
  BY DEF RotateCommits
<1> HIDE DEF st
<1> PICK old : old = Rewrite(rows, st)
  OBVIOUS
<1>5. /\ old \in Seq(Rows) /\ Len(old) = Len(rows)
      /\ Plain(old) /\ Growing(old) /\ Below(old, nextId)
  BY <1>1, <1>3, RewriteLog
<1>6. LastMac(st) \in Macs /\ Mac(rot.to, LastMac(st), nextId) \in Macs
      /\ Mac(rot.to, LastMac(st), nextId) # NoMac
  BY <1>1, <1>2, <1>3, OnTop
<1> QED BY <1>1, <1>4, <1>5, <1>6, AppendLog

LEMMA SweepLog ==
  ASSUME Base, SweepCommits
  PROVE  Log'
<1> DEFINE st == Restamp(sweep.snap, sweep.key)
<1>1. Log /\ nextId \in Nat \ {0} /\ nextId \in Nat /\ sweep.cut \in 1 .. Len(rows)
  BY DEF Base, Log, Sweeping, SweepCommits
<1>2. sweep.snap \in Seq(Rows) /\ sweep.key \in Keys
  BY DEF Base, Sweeping, SweepCommits
<1>3. st \in Seq(Rows)
  BY <1>2, RestampIs
<1>4. /\ rows' = Append(Rewrite(Survivors(sweep.cut), st),
                        Row(nextId, LastMac(st), Mac(sweep.key, LastMac(st), nextId)))
      /\ nextId' = nextId + 1
  BY DEF SweepCommits
<1> HIDE DEF st
<1> PICK left : left = Survivors(sweep.cut)
  OBVIOUS
<1>5. /\ left \in Seq(Rows) /\ Plain(left) /\ Growing(left) /\ Below(left, nextId)
  BY <1>1, SurvivorsLog
<1> PICK old : old = Rewrite(left, st)
  OBVIOUS
<1>6. /\ old \in Seq(Rows) /\ Plain(old) /\ Growing(old) /\ Below(old, nextId)
  BY <1>1, <1>3, <1>5, RewriteLog
<1>7. LastMac(st) \in Macs /\ Mac(sweep.key, LastMac(st), nextId) \in Macs
      /\ Mac(sweep.key, LastMac(st), nextId) # NoMac
  BY <1>1, <1>2, <1>3, OnTop
<1> QED BY <1>1, <1>4, <1>6, <1>7, AppendLog

(* The prune without a key clears every prev_hmac and nothing else.        *)
Cleared(rs) == [i \in DOMAIN rs |-> [rs[i] EXCEPT !.prev = NoMac]]

LEMMA ClearedIs ==
  ASSUME NEW rs \in Seq(Rows), NEW n, Growing(rs), Below(rs, n)
  PROVE  /\ Cleared(rs) \in Seq(Rows) /\ Len(Cleared(rs)) = Len(rs)
         /\ \A i \in 1 .. Len(rs) : /\ Cleared(rs)[i].id = rs[i].id
                                    /\ Cleared(rs)[i].data = rs[i].data
                                    /\ Cleared(rs)[i].prev = NoMac
                                    /\ Cleared(rs)[i].mac = rs[i].mac
         /\ Plain(Cleared(rs)) /\ Growing(Cleared(rs)) /\ Below(Cleared(rs), n)
<1> DEFINE out == Cleared(rs)
<1>0. Len(rs) \in Nat /\ DOMAIN rs = 1 .. Len(rs)
  BY LenProperties
<1>1. ASSUME NEW i \in 1 .. Len(rs)
      PROVE  /\ out[i] \in Rows /\ out[i].id = rs[i].id /\ out[i].data = rs[i].data
             /\ out[i].prev = NoMac /\ out[i].mac = rs[i].mac
  <2> PICK r : r = rs[i]
    OBVIOUS
  <2>1. r \in Rows
    BY RowOf
  <2>2. /\ [r EXCEPT !.prev = NoMac] \in Rows
        /\ [r EXCEPT !.prev = NoMac].id = r.id /\ [r EXCEPT !.prev = NoMac].data = r.data
        /\ [r EXCEPT !.prev = NoMac].prev = NoMac /\ [r EXCEPT !.prev = NoMac].mac = r.mac
    BY <2>1, NoMacIs DEF Rows, Macs
  <2>3. out[i] = [r EXCEPT !.prev = NoMac]
    BY <1>0 DEF Cleared
  <2> QED BY <2>2, <2>3
<1>2. out = [i \in 1 .. Len(rs) |-> out[i]]
  BY <1>0 DEF Cleared
<1> HIDE DEF out
<1>3. out \in [1 .. Len(rs) -> Rows]
  BY <1>1, <1>2
<1>4. out \in Seq(Rows) /\ Len(out) = Len(rs)
  BY <1>0, <1>3
<1>5. Growing(out)
  <2> SUFFICES ASSUME NEW i \in 1 .. Len(rs), NEW j \in 1 .. Len(rs), i < j
               PROVE  out[i].id < out[j].id
    BY <1>4 DEF Growing
  <2>1. rs[i].id < rs[j].id
    BY DEF Growing
  <2> QED BY <1>1, <2>1
<1>6. Below(out, n)
  <2> SUFFICES ASSUME NEW i \in 1 .. Len(rs)
               PROVE  out[i].id < n
    BY <1>4 DEF Below
  <2>1. rs[i].id < n
    BY DEF Below
  <2> QED BY <1>1, <2>1
<1>7. Plain(out)
  BY <1>1, <1>4 DEF Plain
<1> QED BY <1>1, <1>4, <1>5, <1>6, <1>7 DEF out

LEMMA ClearLog ==
  ASSUME Base, SweepCommitsUnstamped
  PROVE  Log'
<1>1. Log /\ nextId \in Nat \ {0} /\ nextId \in Nat /\ sweep.cut \in 1 .. Len(rows)
  BY DEF Base, Log, Sweeping, SweepCommitsUnstamped
<1> PICK left : left = Survivors(sweep.cut)
  OBVIOUS
<1>2. /\ left \in Seq(Rows) /\ Growing(left) /\ Below(left, nextId)
  BY <1>1, SurvivorsLog
<1> PICK old : old = Cleared(left)
  OBVIOUS
<1>3. /\ old \in Seq(Rows) /\ Plain(old) /\ Growing(old) /\ Below(old, nextId)
  BY <1>2, ClearedIs
<1>4. rows' = Append(old, Row(nextId, NoMac, NoMac)) /\ nextId' = nextId + 1
  BY DEF SweepCommitsUnstamped, Cleared
<1> QED BY <1>1, <1>3, <1>4, NoMacIs, AppendLog

(* An outside change: a row says something else, nothing moves.            *)
LEMMA EditLog ==
  ASSUME Base, NEW i \in DOMAIN rows, EditRow(i)
  PROVE  /\ Log' /\ Len(rows') = Len(rows)
         /\ \A j \in 1 .. Len(rows) : /\ rows'[j].id = rows[j].id
                                      /\ rows'[j].prev = rows[j].prev
                                      /\ rows'[j].mac = rows[j].mac
<1>1. /\ rows \in Seq(Rows) /\ Plain(rows) /\ Growing(rows) /\ Below(rows, nextId)
      /\ nextId \in Nat \ {0} /\ Len(rows) \in Nat /\ DOMAIN rows = 1 .. Len(rows)
  BY LenProperties DEF Base, Log
<1>2. rows' = [rows EXCEPT ![i].data = Altered] /\ nextId' = nextId
  BY DEF EditRow
<1> PICK out : out = rows'
  OBVIOUS
<1>3. ASSUME NEW j \in 1 .. Len(rows)
      PROVE  out[j] \in Rows /\ out[j].id = rows[j].id
             /\ out[j].prev = rows[j].prev /\ out[j].mac = rows[j].mac
  <2> PICK r : r = rows[j]
    OBVIOUS
  <2>1. r \in Rows
    BY <1>1, RowOf
  <2>2. /\ [r EXCEPT !.data = Altered] \in Rows /\ [r EXCEPT !.data = Altered].id = r.id
        /\ [r EXCEPT !.data = Altered].prev = r.prev /\ [r EXCEPT !.data = Altered].mac = r.mac
    BY <2>1 DEF Rows, Altered
  <2>3. out[j] = r \/ out[j] = [r EXCEPT !.data = Altered]
    BY <1>1, <1>2
  <2> QED BY <2>1, <2>2, <2>3
<1>4. out = [j \in 1 .. Len(rows) |-> out[j]]
  BY <1>1, <1>2
<1>5. out \in Seq(Rows) /\ Len(out) = Len(rows)
  <2>1. out \in [1 .. Len(rows) -> Rows]
    BY <1>3, <1>4
  <2> QED BY <1>1, <2>1
<1>6. Growing(out)
  <2> SUFFICES ASSUME NEW a \in 1 .. Len(rows), NEW b \in 1 .. Len(rows), a < b
               PROVE  out[a].id < out[b].id
    BY <1>5 DEF Growing
  <2>1. rows[a].id < rows[b].id
    BY <1>1 DEF Growing
  <2> QED BY <1>3, <2>1
<1>7. Below(out, nextId)
  <2> SUFFICES ASSUME NEW a \in 1 .. Len(rows)
               PROVE  out[a].id < nextId
    BY <1>5 DEF Below
  <2>1. rows[a].id < nextId
    BY <1>1 DEF Below
  <2> QED BY <1>3, <2>1
<1>8. Plain(out)
  BY <1>1, <1>3, <1>5 DEF Plain, Chained
<1> QED BY <1>1, <1>2, <1>3, <1>5, <1>6, <1>7, <1>8 DEF Log

-----------------------------------------------------------------------------
(* A step of the whole system, spelled out.                                *)
LEMMA Steps ==
  ASSUME Next
  PROVE  \/ \E w \in Writers : \/ RecordUnstamped(w) \/ RecordSelects(w) \/ Restart(w)
                               \/ RecordInserts(w) \/ RecordRollsBack(w)
         \/ \E to \in Keys : RotateVerifies(to)
         \/ RotateReads \/ RotateCommits \/ RotateRollsBack \/ ApplyEnv
         \/ PinFirstKey
         \/ SweepStarts \/ SweepReads \/ SweepCommits \/ SweepCommitsUnstamped
         \/ SweepEnds
         \/ \E i \in DOMAIN rows : EditRow(i)
BY Zenon DEF Next

LEMMA LogKept ==
  ASSUME Log, UNCHANGED <<rows, nextId>>
  PROVE  Log' /\ Len(rows') = Len(rows)
BY DEF Log

LEMMA LogStep ==
  ASSUME Base, Next
  PROVE  /\ Log'
         /\ sweep.phase = "walking" /\ sweep' = sweep => sweep.cut \in 1 .. Len(rows')
<1>0. Log /\ Len(rows) \in Nat /\ (sweep.phase = "walking" => sweep.cut \in 1 .. Len(rows))
  BY LenProperties DEF Base, Log, Sweeping
<1>1. ASSUME NEW w \in Writers, RecordUnstamped(w) \/ RecordInserts(w)
      PROVE  Log' /\ Len(rows') = Len(rows) + 1
  BY <1>1, RecordLog
<1>2. ASSUME RotateCommits PROVE Log' /\ Len(rows') = Len(rows) + 1
  BY <1>2, RotateLog
<1>3. ASSUME SweepCommits PROVE Log' /\ sweep'.phase # "walking"
  BY <1>3, SweepLog DEF SweepCommits, IdleSweep
<1>4. ASSUME SweepCommitsUnstamped PROVE Log' /\ sweep'.phase # "walking"
  BY <1>4, ClearLog DEF SweepCommitsUnstamped, IdleSweep
<1>5. ASSUME NEW i \in DOMAIN rows, EditRow(i) PROVE Log' /\ Len(rows') = Len(rows)
  BY <1>5, EditLog
<1>6. ASSUME NEW w \in Writers, RecordSelects(w) \/ Restart(w) \/ RecordRollsBack(w)
      PROVE  Log' /\ Len(rows') = Len(rows)
  BY <1>0, <1>6, LogKept DEF RecordSelects, Restart, RecordRollsBack
<1>7. ASSUME \/ \E to \in Keys : RotateVerifies(to)
             \/ RotateReads \/ RotateRollsBack \/ ApplyEnv
             \/ PinFirstKey \/ SweepStarts \/ SweepReads \/ SweepEnds
      PROVE  Log' /\ Len(rows') = Len(rows)
  <2>1. UNCHANGED <<rows, nextId>>
    BY <1>7 DEF RotateVerifies, RotateReads, RotateRollsBack, ApplyEnv, PinFirstKey,
                SweepStarts, SweepReads, SweepEnds
  <2> QED BY <1>0, <2>1, LogKept
<1> QED BY <1>0, <1>1, <1>2, <1>3, <1>4, <1>5, <1>6, <1>7, Steps

LEMMA KeyringStep ==
  ASSUME Base, Next
  PROVE  Keyring'
<1> USE DEF InTransaction, Out
<1>0. Keyring /\ Rotating /\ Log
  BY DEF Base
<1>1. ASSUME NEW w \in Writers, RecordSelects(w)
      PROVE  Keyring'
  <2>1. LastId \in Nat
    <3>1. CASE rows = <<>>
      BY <3>1 DEF LastId
    <3>2. CASE rows # <<>>
      <4>1. Len(rows) \in 1 .. Len(rows)
        BY <1>0, <3>2, EmptySeq, LenProperties DEF Log
      <4> QED BY <1>0, <3>2, <4>1, RowOf DEF LastId, Log
    <3> QED BY <3>1, <3>2
  <2> PICK n : n = LastId
    OBVIOUS
  <2>2. seen' = [seen EXCEPT ![w] = n] /\ memKey[w] \in Keys
        /\ UNCHANGED <<envKey, memKey, dbKey, edits>>
    BY <1>0, <1>1 DEF RecordSelects, Keyring
  <2>3. seen' \in [Writers -> Nat \cup {Out}]
        /\ \A v \in Writers : v # w => seen'[v] = seen[v]
    BY <1>0, <2>1, <2>2 DEF Keyring
  <2> QED BY <1>0, <2>2, <2>3 DEF Keyring
<1>2. ASSUME NEW w \in Writers, Restart(w)
      PROVE  Keyring'
  <2>1. /\ memKey' = [memKey EXCEPT ![w] = envKey] /\ seen' = [seen EXCEPT ![w] = Out]
        /\ UNCHANGED <<envKey, dbKey, edits>>
    BY <1>2 DEF Restart
  <2>2. /\ memKey' \in [Writers -> Keys \cup {NoKey}]
        /\ seen' \in [Writers -> Nat \cup {Out}]
        /\ seen'[w] = Out
        /\ \A v \in Writers : v # w => seen'[v] = seen[v] /\ memKey'[v] = memKey[v]
    BY <1>0, <2>1 DEF Keyring
  <2> QED BY <1>0, <2>1, <2>2 DEF Keyring
<1>3. ASSUME NEW w \in Writers, RecordInserts(w) \/ RecordRollsBack(w)
      PROVE  Keyring'
  <2>1. /\ seen' = [seen EXCEPT ![w] = Out]
        /\ dbKey' \in {dbKey, memKey[w]}
        /\ UNCHANGED <<envKey, memKey, edits>>
    BY <1>3 DEF RecordInserts, RecordRollsBack
  <2>2. /\ seen' \in [Writers -> Nat \cup {Out}]
        /\ seen'[w] = Out
        /\ \A v \in Writers : v # w => seen'[v] = seen[v]
    BY <1>0, <2>1 DEF Keyring
  <2>3. dbKey' \in Keys \cup {NoKey}
    BY <1>0, <2>1 DEF Keyring
  <2> QED BY <1>0, <2>1, <2>2, <2>3 DEF Keyring
<1>4. ASSUME NEW w \in Writers, RecordUnstamped(w)
      PROVE  Keyring'
  BY <1>0, <1>4 DEF RecordUnstamped, Keyring
<1>5. ASSUME NEW to \in Keys, RotateVerifies(to)
      PROVE  Keyring'
  BY <1>0, <1>5 DEF RotateVerifies, Keyring
<1>6. ASSUME RotateReads \/ RotateRollsBack \/ SweepStarts \/ SweepReads
             \/ SweepCommitsUnstamped \/ SweepEnds
      PROVE  Keyring'
  <2>1. UNCHANGED <<envKey, memKey, seen, dbKey, edits>>
    BY <1>6 DEF RotateReads, RotateRollsBack, SweepStarts, SweepReads,
                SweepCommitsUnstamped, SweepEnds
  <2> QED BY <1>0, <2>1 DEF Keyring
<1>7. ASSUME RotateCommits
      PROVE  Keyring'
  <2>1. dbKey' = rot.to /\ UNCHANGED <<envKey, memKey, seen, edits>> /\ rot.to \in Keys
    BY <1>0, <1>7 DEF RotateCommits, Rotating
  <2> QED BY <1>0, <2>1 DEF Keyring
<1>8. ASSUME ApplyEnv
      PROVE  Keyring'
  <2>1. envKey' = rot.to /\ UNCHANGED <<memKey, seen, dbKey, edits>> /\ rot.to \in Keys
    BY <1>0, <1>8 DEF ApplyEnv, Rotating
  <2> QED BY <1>0, <2>1 DEF Keyring
<1>9. ASSUME PinFirstKey
      PROVE  Keyring'
  BY <1>0, <1>9 DEF PinFirstKey, Keyring
<1>10. ASSUME SweepCommits
       PROVE  Keyring'
  <2>1. dbKey' = sweep.key /\ UNCHANGED <<envKey, memKey, seen, edits>>
        /\ sweep.key \in Keys \cup {NoKey}
    BY <1>10 DEF SweepCommits, Base, Sweeping
  <2> QED BY <1>0, <2>1 DEF Keyring
<1>11. ASSUME NEW i \in DOMAIN rows, EditRow(i)
       PROVE  Keyring'
  <2>1. edits < MaxEdits /\ edits' = edits + 1 /\ UNCHANGED <<envKey, memKey, seen, dbKey>>
    BY <1>11 DEF EditRow
  <2>2. edits' \in 0 .. MaxEdits
    BY <1>0, <2>1, AuditChainAssumption DEF Keyring
  <2> QED BY <1>0, <2>1, <2>2 DEF Keyring
<1> QED BY <1>1, <1>2, <1>3, <1>4, <1>5, <1>6, <1>7, <1>8, <1>9, <1>10, <1>11, Steps

LEMMA RotatingStep ==
  ASSUME Base, Next
  PROVE  Rotating'
<1> DEFINE R == [phase : {"idle", "verified", "walking", "committed", "applied"},
                 to : Keys \cup {NoKey}, snap : Seq(Rows)]
<1>0. /\ rot \in R /\ (rot.phase # "idle" => rot.to \in Keys)
      /\ rows \in Seq(Rows) /\ <<>> \in Seq(Rows)
  BY EmptySeq DEF Base, Rotating, Log
<1>1. ASSUME NEW to \in Keys, RotateVerifies(to)
      PROVE  Rotating'
  <2>1. rot' = [rot EXCEPT !.phase = "verified", !.to = to]
    BY <1>1 DEF RotateVerifies
  <2>2. rot' \in R /\ rot'.to = to
    BY <1>0, <2>1
  <2> QED BY <2>2 DEF Rotating
<1>2. ASSUME RotateReads
      PROVE  Rotating'
  <2>1. rot' = [rot EXCEPT !.phase = "walking", !.snap = rows] /\ rot.phase # "idle"
    BY <1>2 DEF RotateReads
  <2>2. rot' \in R /\ rot'.to = rot.to
    BY <1>0, <2>1
  <2> QED BY <1>0, <2>1, <2>2 DEF Rotating
<1>3. ASSUME RotateCommits
      PROVE  Rotating'
  <2>1. rot' = [rot EXCEPT !.phase = "committed", !.snap = <<>>] /\ rot.phase # "idle"
    BY <1>3 DEF RotateCommits
  <2>2. rot' \in R /\ rot'.to = rot.to
    BY <1>0, <2>1
  <2> QED BY <1>0, <2>1, <2>2 DEF Rotating
<1>4. ASSUME RotateRollsBack
      PROVE  Rotating'
  <2>1. rot' = [phase |-> "idle", to |-> NoKey, snap |-> <<>>]
    BY <1>4 DEF RotateRollsBack, IdleRotation
  <2>2. rot' \in R /\ rot'.phase = "idle"
    BY <1>0, <2>1
  <2> QED BY <2>2 DEF Rotating
<1>5. ASSUME ApplyEnv
      PROVE  Rotating'
  <2>1. rot' = [rot EXCEPT !.phase = "applied"] /\ rot.phase # "idle"
    BY <1>5 DEF ApplyEnv
  <2>2. rot' \in R /\ rot'.to = rot.to
    BY <1>0, <2>1
  <2> QED BY <1>0, <2>1, <2>2 DEF Rotating
<1>6. ASSUME rot' = rot PROVE Rotating'
  BY <1>6 DEF Base, Rotating
<1>7. ASSUME NEW w \in Writers,
             \/ RecordUnstamped(w) \/ RecordSelects(w) \/ Restart(w)
             \/ RecordInserts(w) \/ RecordRollsBack(w)
      PROVE  rot' = rot
  BY <1>7 DEF RecordUnstamped, RecordSelects, Restart, RecordInserts, RecordRollsBack
<1>8. ASSUME \/ PinFirstKey
             \/ SweepStarts \/ SweepReads \/ SweepCommits \/ SweepCommitsUnstamped
             \/ SweepEnds \/ \E i \in DOMAIN rows : EditRow(i)
      PROVE  rot' = rot
  BY <1>8 DEF PinFirstKey, SweepStarts, SweepReads, SweepCommits, SweepCommitsUnstamped,
              SweepEnds, EditRow
<1> QED BY <1>1, <1>2, <1>3, <1>4, <1>5, <1>6, <1>7, <1>8, Steps

LEMMA SweepingStep ==
  ASSUME Base, Next
  PROVE  Sweeping'
<1> DEFINE W == [phase : {"idle", "started", "walking"},
                 key : Keys \cup {NoKey}, cut : Nat, snap : Seq(Rows)]
<1>0. /\ sweep \in W /\ rows \in Seq(Rows) /\ <<>> \in Seq(Rows)
      /\ envKey \in Keys \cup {NoKey}
  BY EmptySeq DEF Base, Sweeping, Log, Keyring
<1>1. ASSUME SweepStarts
      PROVE  Sweeping'
  <2>1. sweep' = [sweep EXCEPT !.phase = "started", !.key = envKey]
    BY <1>1 DEF SweepStarts
  <2>2. sweep' \in W /\ sweep'.phase = "started"
    BY <1>0, <2>1
  <2> QED BY <2>2 DEF Sweeping
<1>2. ASSUME SweepReads
      PROVE  Sweeping'
  <2>1. PICK cut \in DOMAIN rows :
          sweep' = [sweep EXCEPT !.phase = "walking", !.cut = cut, !.snap = Survivors(cut)]
    BY <1>2 DEF SweepReads
  <2>2. cut \in 1 .. Len(rows) /\ Len(rows') = Len(rows) /\ Len(rows) \in Nat
    BY <1>0, <1>2, LenProperties DEF SweepReads
  <2> PICK left : left = Survivors(cut)
    OBVIOUS
  <2>3. left \in Seq(Rows)
    BY <2>2, SurvivorsLog DEF Base
  <2>4. sweep' \in W /\ sweep'.cut = cut
    <3>1. sweep' = [sweep EXCEPT !.phase = "walking", !.cut = cut, !.snap = left]
      BY <2>1
    <3>2. cut \in Nat
      BY <2>2
    <3>3. \A s \in W : /\ [s EXCEPT !.phase = "walking", !.cut = cut, !.snap = left] \in W
                       /\ [s EXCEPT !.phase = "walking", !.cut = cut, !.snap = left].cut = cut
      BY <2>3, <3>2
    <3> HIDE DEF W
    <3> QED BY <1>0, <3>1, <3>3
  <2> QED BY <2>2, <2>4 DEF Sweeping
<1>3. ASSUME SweepCommits \/ SweepCommitsUnstamped \/ SweepEnds
      PROVE  Sweeping'
  <2>1. sweep' = [phase |-> "idle", key |-> NoKey, cut |-> 0, snap |-> <<>>]
    BY <1>3 DEF SweepCommits, SweepCommitsUnstamped, SweepEnds, IdleSweep
  <2>2. sweep' \in W /\ sweep'.phase = "idle"
    BY <1>0, <2>1
  <2> QED BY <2>2 DEF Sweeping
<1>4. ASSUME sweep' = sweep PROVE Sweeping'
  <2>1. sweep.phase = "walking" => sweep.cut \in 1 .. Len(rows')
    BY <1>4, LogStep
  <2> QED BY <1>0, <1>4, <2>1 DEF Sweeping
<1>5. ASSUME NEW w \in Writers,
             \/ RecordUnstamped(w) \/ RecordSelects(w) \/ Restart(w)
             \/ RecordInserts(w) \/ RecordRollsBack(w)
      PROVE  sweep' = sweep
  BY <1>5 DEF RecordUnstamped, RecordSelects, Restart, RecordInserts, RecordRollsBack
<1>6. ASSUME \/ \E to \in Keys : RotateVerifies(to)
             \/ RotateReads \/ RotateCommits \/ RotateRollsBack \/ ApplyEnv
             \/ PinFirstKey \/ \E i \in DOMAIN rows : EditRow(i)
      PROVE  sweep' = sweep
  BY <1>6 DEF RotateVerifies, RotateReads, RotateCommits, RotateRollsBack, ApplyEnv,
              PinFirstKey, EditRow
<1> QED BY <1>1, <1>2, <1>3, <1>4, <1>5, <1>6, Steps

LEMMA BlankingStep ==
  ASSUME Base, Next
  PROVE  Blanking'
<1>0. cleared \subseteq Nat
  BY DEF Base, Blanking
<1>1. ASSUME RotateCommits \/ SweepCommits
      PROVE  cleared' \subseteq Nat
  BY <1>0, <1>1 DEF RotateCommits, SweepCommits
<1>2. ASSUME SweepCommitsUnstamped
      PROVE  cleared' \subseteq Nat
  <2>1. sweep.cut \in 1 .. Len(rows) /\ Log
    BY <1>2 DEF SweepCommitsUnstamped, Base, Sweeping
  <2> PICK left : left = Survivors(sweep.cut)
    OBVIOUS
  <2>2. left \in Seq(Rows)
    BY <2>1, SurvivorsLog
  <2>3. Blanked(left) \subseteq Nat
    BY <2>2, RowOf, LenProperties DEF Blanked
  <2>4. cleared' = cleared \cup Blanked(left)
    BY <1>2 DEF SweepCommitsUnstamped
  <2> QED BY <1>0, <2>3, <2>4
<1>3. ASSUME NEW w \in Writers,
             \/ RecordUnstamped(w) \/ RecordSelects(w) \/ Restart(w)
             \/ RecordInserts(w) \/ RecordRollsBack(w)
      PROVE  cleared' = cleared
  BY <1>3 DEF RecordUnstamped, RecordSelects, Restart, RecordInserts, RecordRollsBack
<1>4. ASSUME \/ \E to \in Keys : RotateVerifies(to)
             \/ RotateReads \/ RotateRollsBack \/ ApplyEnv
             \/ PinFirstKey \/ SweepStarts \/ SweepReads \/ SweepEnds
             \/ \E i \in DOMAIN rows : EditRow(i)
      PROVE  cleared' = cleared
  BY <1>4 DEF RotateVerifies, RotateReads, RotateRollsBack, ApplyEnv, PinFirstKey,
              SweepStarts, SweepReads, SweepEnds, EditRow
<1> QED BY <1>0, <1>1, <1>2, <1>3, <1>4, Steps DEF Blanking

LEMMA BaseStep ==
  ASSUME Base, [Next]_vars
  PROVE  Base'
<1>1. CASE Next
  BY <1>1, LogStep, KeyringStep, RotatingStep, SweepingStep, BlankingStep DEF Base
<1>2. CASE UNCHANGED vars
  BY <1>2 DEF vars, Base, Log, Keyring, Rotating, Sweeping, Blanking, InTransaction
<1> QED BY <1>1, <1>2

LEMMA BaseInit ==
  ASSUME Init
  PROVE  Base
<1>1. /\ rows = <<>> /\ nextId = 1 /\ edits = 0 /\ dbKey = envKey
      /\ rot = [phase |-> "idle", to |-> NoKey, snap |-> <<>>]
      /\ sweep = [phase |-> "idle", key |-> NoKey, cut |-> 0, snap |-> <<>>]
      /\ memKey = [w \in Writers |-> envKey] /\ seen = [w \in Writers |-> Out]
      /\ envKey \in Keys \cup {NoKey}
  BY DEF Init, IdleRotation, IdleSweep
<1>2. <<>> \in Seq(Rows) /\ Len(<<>>) = 0
  BY EmptySeq
<1>3. Log
  BY <1>1, <1>2 DEF Log, Plain, Growing, Below
<1>4. Keyring
  <2>1. memKey \in [Writers -> Keys \cup {NoKey}] /\ seen \in [Writers -> Nat \cup {Out}]
        /\ \A w \in Writers : seen[w] = Out
    BY <1>1
  <2> QED BY <1>1, <2>1, AuditChainAssumption DEF Keyring, InTransaction
<1>5. Rotating
  BY <1>1, <1>2 DEF Rotating
<1>6. Sweeping
  BY <1>1, <1>2 DEF Sweeping
<1>7. Blanking
  BY DEF Init, Blanking
<1> QED BY <1>3, <1>4, <1>5, <1>6, <1>7 DEF Base

(* The audit log and everyone's keys keep their types, with ids in order   *)
(* and the sweep's cut inside the log, whether or not transactions         *)
(* serialise.                                                              *)
THEOREM AuditChainBase == Spec => []Base
BY BaseInit, BaseStep, PTL DEF Spec

THEOREM AuditChainTyped == Spec => []TypeOK
<1>1. Base => TypeOK
  BY BaseTyped
<1> QED BY <1>1, AuditChainBase, PTL

-----------------------------------------------------------------------------
(* The log's history.  A committed row is found again where the commit     *)
(* left it.                                                                *)
LEMMA AppendKeeps ==
  ASSUME NEW old \in Seq(Rows), NEW r, NEW i \in 1 .. Len(old)
  PROVE  i \in DOMAIN Append(old, r) /\ Append(old, r)[i] = old[i]
<1>1. old \in Seq(Rows \cup {r}) /\ Len(old) \in Nat
  <2>1. old \in [1 .. Len(old) -> Rows] /\ Len(old) \in Nat
    BY LenProperties
  <2>2. old \in [1 .. Len(old) -> Rows \cup {r}]
    BY <2>1
  <2> QED BY <2>1, <2>2
<1>2. /\ Append(old, r) \in Seq(Rows \cup {r}) /\ Len(Append(old, r)) = Len(old) + 1
      /\ Append(old, r)[i] = old[i]
  BY <1>1, AppendProperties
<1>3. DOMAIN Append(old, r) = 1 .. Len(old) + 1
  BY <1>2, LenProperties
<1> QED BY <1>1, <1>2, <1>3

Kept(i) ==
  \E j \in DOMAIN rows' : rows'[j].id = rows[i].id /\ rows'[j].data = rows[i].data

LEMMA AllKept ==
  ASSUME Base, Next, NEW i \in DOMAIN rows
  PROVE  Pruned(i) \/ Kept(i) \/ edits' > edits
<1>0. /\ Log /\ rows \in Seq(Rows) /\ i \in 1 .. Len(rows) /\ Len(rows) \in Nat
      /\ Growing(rows)
  BY LenProperties DEF Base, Log
<1>1. ASSUME rows' = rows PROVE Kept(i)
  BY <1>1 DEF Kept
<1>2. ASSUME NEW old \in Seq(Rows), NEW r, rows' = Append(old, r), NEW j \in 1 .. Len(old),
             old[j].id = rows[i].id, old[j].data = rows[i].data
      PROVE  Kept(i)
  <2>1. j \in DOMAIN Append(old, r) /\ Append(old, r)[j] = old[j]
    BY AppendKeeps
  <2> PICK more : more = Append(old, r)
    OBVIOUS
  <2>2. j \in DOMAIN more /\ more[j] = old[j] /\ rows' = more
    BY <1>2, <2>1
  <2> QED BY <1>2, <2>2 DEF Kept
<1>3. ASSUME NEW w \in Writers, RecordUnstamped(w) \/ RecordInserts(w)
      PROVE  Kept(i)
  <2>1. PICK r : rows' = Append(rows, r)
    BY <1>3 DEF RecordUnstamped, RecordInserts
  <2> QED BY <1>0, <1>2, <2>1
<1>4. ASSUME RotateCommits
      PROVE  Kept(i)
  <2> DEFINE st == Restamp(rot.snap, rot.to)
  <2>1. st \in Seq(Rows)
    BY <1>4, RestampIs DEF Base, Rotating, RotateCommits
  <2>2. PICK r : rows' = Append(Rewrite(rows, st), r)
    BY <1>4 DEF RotateCommits
  <2> HIDE DEF st
  <2> PICK old : old = Rewrite(rows, st)
    OBVIOUS
  <2>3. /\ old \in Seq(Rows) /\ Len(old) = Len(rows)
        /\ old[i].id = rows[i].id /\ old[i].data = rows[i].data
    BY <1>0, <2>1, RewriteKeeps
  <2> QED BY <1>0, <1>2, <2>2, <2>3
<1>5. ASSUME SweepCommits \/ SweepCommitsUnstamped
      PROVE  Pruned(i) \/ Kept(i)
  <2>1. CASE i <= sweep.cut
    BY <1>5, <2>1 DEF Pruned
  <2>2. CASE ~(i <= sweep.cut)
    <3>1. sweep.cut \in 1 .. Len(rows)
      BY <1>5 DEF Base, Sweeping, SweepCommits, SweepCommitsUnstamped
    <3> PICK left : left = Survivors(sweep.cut)
      OBVIOUS
    <3>2. /\ left \in Seq(Rows) /\ Len(left) = Len(rows) - sweep.cut
          /\ \A j \in 1 .. Len(rows) - sweep.cut : left[j] = rows[sweep.cut + j]
          /\ Growing(left) /\ Below(left, nextId)
      BY <1>0, <3>1, SurvivorsAre, SurvivorsLog
    <3> DEFINE j == i - sweep.cut
    <3>3. j \in 1 .. Len(left) /\ j \in 1 .. Len(rows) - sweep.cut /\ sweep.cut + j = i
      BY <1>0, <2>2, <3>1, <3>2
    <3>4. left[j] = rows[i]
      <4> HIDE DEF j
      <4>1. left[j] = rows[sweep.cut + j]
        BY <3>2, <3>3
      <4> QED BY <3>3, <4>1
    <3> HIDE DEF j
    <3>5. CASE SweepCommits
      <4> DEFINE st == Restamp(sweep.snap, sweep.key)
      <4>1. sweep.snap \in Seq(Rows) /\ sweep.key \in Keys
        BY <3>5 DEF Base, Sweeping, SweepCommits
      <4>2. st \in Seq(Rows)
        BY <4>1, RestampIs
      <4>3. PICK r : rows' = Append(Rewrite(left, st), r)
        BY <3>5 DEF SweepCommits
      <4> HIDE DEF st
      <4> PICK old : old = Rewrite(left, st)
        OBVIOUS
      <4>4. /\ old \in Seq(Rows) /\ Len(old) = Len(left)
            /\ old[j].id = rows[i].id /\ old[j].data = rows[i].data
        BY <3>2, <3>3, <3>4, <4>2, RewriteKeeps
      <4> QED BY <1>2, <3>3, <4>3, <4>4
    <3>6. CASE SweepCommitsUnstamped
      <4> PICK old : old = Cleared(left)
        OBVIOUS
      <4>1. rows' = Append(old, Row(nextId, NoMac, NoMac))
        BY <3>6 DEF SweepCommitsUnstamped, Cleared
      <4>2. /\ old \in Seq(Rows) /\ Len(old) = Len(left)
            /\ old[j].id = rows[i].id /\ old[j].data = rows[i].data
        BY <3>2, <3>3, <3>4, ClearedIs
      <4> QED BY <1>2, <3>3, <4>1, <4>2
    <3> QED BY <1>5, <3>5, <3>6
  <2> QED BY <2>1, <2>2
<1>6. ASSUME \E k \in DOMAIN rows : EditRow(k)
      PROVE  edits' > edits
  <2>1. edits' = edits + 1 /\ edits \in Nat
    BY <1>6 DEF EditRow, Base, Keyring
  <2> QED BY <2>1
<1>7. ASSUME \/ \E w \in Writers : RecordSelects(w) \/ Restart(w) \/ RecordRollsBack(w)
             \/ \E to \in Keys : RotateVerifies(to)
             \/ RotateReads \/ RotateRollsBack \/ ApplyEnv
             \/ PinFirstKey \/ SweepStarts \/ SweepReads \/ SweepEnds
      PROVE  rows' = rows
  BY <1>7 DEF RecordSelects, Restart, RecordRollsBack, RotateVerifies, RotateReads,
              RotateRollsBack, ApplyEnv, PinFirstKey, SweepStarts, SweepReads, SweepEnds
<1> QED BY <1>1, <1>3, <1>4, <1>5, <1>6, <1>7, Steps

(* No interleaving, and no isolation level, loses or rewrites a committed  *)
(* row, or puts one out of order.                                          *)
THEOREM HistoryAlwaysPreserved == Spec => HistoryPreserved
<1> DEFINE A == /\ \A i \in DOMAIN rows : Pruned(i) \/ Kept(i) \/ edits' > edits
                /\ \A i, j \in DOMAIN rows' : i < j => rows'[i].id < rows'[j].id
<1>1. Base /\ [Next]_vars => [A]_vars
  <2> SUFFICES ASSUME Base, Next PROVE A
    OBVIOUS
  <2>1. \A i \in DOMAIN rows : Pruned(i) \/ Kept(i) \/ edits' > edits
    BY AllKept
  <2>2. \A i, j \in DOMAIN rows' : i < j => rows'[i].id < rows'[j].id
    <3>1. Log'
      BY LogStep
    <3>2. rows' \in Seq(Rows) /\ \A i, j \in 1 .. Len(rows') : i < j => rows'[i].id < rows'[j].id
      BY <3>1 DEF Log, Growing
    <3> QED BY <3>2, LenProperties
  <2> QED BY <2>1, <2>2
<1>2. [A]_vars => [/\ \A i \in DOMAIN rows :
                        \/ Pruned(i)
                        \/ \E j \in DOMAIN rows' : /\ rows'[j].id = rows[i].id
                                                  /\ rows'[j].data = rows[i].data
                        \/ edits' > edits
                   /\ \A i, j \in DOMAIN rows' : i < j => rows'[i].id < rows'[j].id]_vars
  BY DEF Kept
<1> HIDE DEF A
<1> QED BY <1>1, <1>2, AuditChainBase, PTL DEF Spec, HistoryPreserved

-----------------------------------------------------------------------------
(* Before the first key is pinned nothing is stamped and nothing stamps.   *)
Unkeyed ==
  /\ envKey = NoKey => /\ \A w \in Writers : memKey[w] = NoKey
                       /\ \A i \in 1 .. Len(rows) : ~Chained(rows[i])
                       /\ rot.phase = "idle"
  /\ sweep.phase # "idle" /\ sweep.key # NoKey => envKey # NoKey

(* When transactions serialise, what an open one has read is what is there.*)
Reads ==
  /\ \A w \in Writers : InTransaction(w) => seen[w] = LastId
  /\ rot.phase = "walking" => rot.snap = rows
  /\ sweep.phase = "walking" => sweep.snap = Survivors(sweep.cut)

Quiet == WritersOut(Writers) /\ RotationOut /\ SweepOut

LEMMA EnvKeyStep ==
  ASSUME Base, Next
  PROVE  /\ envKey # NoKey => envKey' # NoKey
         /\ envKey' # envKey => ApplyEnv \/ PinFirstKey
<1>1. ASSUME ApplyEnv PROVE envKey' # NoKey
  BY <1>1, AuditChainAssumption DEF ApplyEnv, Base, Rotating
<1>2. ASSUME PinFirstKey PROVE envKey = NoKey
  BY <1>2 DEF PinFirstKey
<1>3. ASSUME NEW w \in Writers,
             \/ RecordUnstamped(w) \/ RecordSelects(w) \/ Restart(w)
             \/ RecordInserts(w) \/ RecordRollsBack(w)
      PROVE  envKey' = envKey
  BY <1>3 DEF RecordUnstamped, RecordSelects, Restart, RecordInserts, RecordRollsBack
<1>4. ASSUME \/ \E to \in Keys : RotateVerifies(to)
             \/ RotateReads \/ RotateCommits \/ RotateRollsBack
             \/ SweepStarts \/ SweepReads \/ SweepCommits \/ SweepCommitsUnstamped
             \/ SweepEnds \/ \E i \in DOMAIN rows : EditRow(i)
      PROVE  envKey' = envKey
  BY <1>4 DEF RotateVerifies, RotateReads, RotateCommits, RotateRollsBack, SweepStarts,
              SweepReads, SweepCommits, SweepCommitsUnstamped, SweepEnds, EditRow
<1> QED BY <1>1, <1>2, <1>3, <1>4, Steps

LEMMA NoneChained ==
  ASSUME NEW old \in Seq(Rows), NEW n \in Nat \ {0},
         \A i \in 1 .. Len(old) : ~Chained(old[i])
  PROVE  \A i \in 1 .. Len(Append(old, Row(n, NoMac, NoMac))) :
           ~Chained(Append(old, Row(n, NoMac, NoMac))[i])
<1> PICK r : r = Row(n, NoMac, NoMac)
  OBVIOUS
<1>1. r \in Rows /\ r.mac = NoMac
  BY NoMacIs, RowIs
<1> PICK more : more = Append(old, r)
  OBVIOUS
<1>2. \A i \in 1 .. Len(more) :
        (i \in 1 .. Len(old) /\ more[i] = old[i]) \/ more[i] = r
  BY <1>1, AppendIs
<1>3. \A i \in 1 .. Len(more) : ~Chained(more[i])
  BY <1>1, <1>2 DEF Chained
<1> QED BY <1>3

LEMMA ClearedUnchained ==
  ASSUME Base, Unkeyed, SweepCommitsUnstamped, envKey = NoKey
  PROVE  \A i \in 1 .. Len(rows') : ~Chained(rows'[i])
<1>1. Log /\ nextId \in Nat \ {0} /\ sweep.cut \in 1 .. Len(rows) /\ rows \in Seq(Rows) /\ Growing(rows)
  BY DEF Base, Log, Sweeping, SweepCommitsUnstamped
<1>2. \A i \in 1 .. Len(rows) : ~Chained(rows[i])
  BY DEF Unkeyed, SweepCommitsUnstamped
<1> PICK left : left = Survivors(sweep.cut)
  OBVIOUS
<1>3. /\ left \in Seq(Rows) /\ Len(left) = Len(rows) - sweep.cut
      /\ \A j \in 1 .. Len(rows) - sweep.cut : /\ left[j] = rows[sweep.cut + j]
                                               /\ sweep.cut + j \in 1 .. Len(rows)
      /\ Growing(left) /\ Below(left, nextId)
  BY <1>1, SurvivorsAre, SurvivorsLog
<1>4. \A j \in 1 .. Len(left) : ~Chained(left[j])
  BY <1>2, <1>3
<1> PICK old : old = Cleared(left)
  OBVIOUS
<1>5. old \in Seq(Rows) /\ \A i \in 1 .. Len(old) : ~Chained(old[i])
  <2>1. /\ old \in Seq(Rows) /\ Len(old) = Len(left)
        /\ \A i \in 1 .. Len(left) : old[i].mac = left[i].mac
    BY <1>3, ClearedIs
  <2> QED BY <1>4, <2>1 DEF Chained
<1>6. rows' = Append(old, Row(nextId, NoMac, NoMac))
  BY DEF SweepCommitsUnstamped, Cleared
<1>7. \A i \in 1 .. Len(Append(old, Row(nextId, NoMac, NoMac))) :
        ~Chained(Append(old, Row(nextId, NoMac, NoMac))[i])
  BY <1>1, <1>5, NoneChained
<1> QED BY <1>6, <1>7

LEMMA UnkeyedStep ==
  ASSUME Base, Unkeyed, Next
  PROVE  Unkeyed'
<1>0. /\ rows \in Seq(Rows) /\ nextId \in Nat \ {0}
      /\ memKey \in [Writers -> Keys \cup {NoKey}]
      /\ \A w \in Writers : InTransaction(w) => memKey[w] \in Keys
      /\ NoKey \notin Keys
  BY AuditChainAssumption DEF Base, Log, Keyring
<1>1. ASSUME envKey' = NoKey
      PROVE  /\ \A w \in Writers : memKey'[w] = NoKey
             /\ \A i \in 1 .. Len(rows') : ~Chained(rows'[i])
             /\ rot'.phase = "idle"
  <2>1. /\ envKey = NoKey /\ rot.phase = "idle"
        /\ \A w \in Writers : memKey[w] = NoKey
        /\ \A i \in 1 .. Len(rows) : ~Chained(rows[i])
    BY <1>1, EnvKeyStep DEF Unkeyed
  <2>2. ASSUME NEW w \in Writers, RecordUnstamped(w)
        PROVE  /\ \A i \in 1 .. Len(rows') : ~Chained(rows'[i])
               /\ UNCHANGED <<memKey, rot>>
    <3>1. rows' = Append(rows, Row(nextId, NoMac, NoMac)) /\ UNCHANGED <<memKey, rot>>
      BY <2>2 DEF RecordUnstamped
    <3> QED BY <1>0, <2>1, <3>1, NoneChained
  <2>3. ASSUME NEW w \in Writers, Restart(w)
        PROVE  UNCHANGED <<rows, rot>> /\ \A v \in Writers : memKey'[v] = NoKey
    BY <1>0, <2>1, <2>3 DEF Restart
  <2>4. ASSUME NEW w \in Writers, RecordInserts(w) \/ RecordSelects(w)
        PROVE  FALSE
    BY <1>0, <2>1, <2>4 DEF RecordInserts, RecordSelects
  <2>5. ASSUME \/ \E to \in Keys : RotateVerifies(to)
               \/ RotateReads \/ RotateCommits \/ RotateRollsBack \/ ApplyEnv
               \/ PinFirstKey \/ SweepCommits
               \/ \E i \in DOMAIN rows : EditRow(i)
        PROVE  FALSE
    <3>1. DOMAIN rows = 1 .. Len(rows)
      BY <1>0, LenProperties
    <3>2. ASSUME SweepCommits PROVE FALSE
      BY <2>1, <3>2 DEF SweepCommits, Unkeyed
    <3>3. ASSUME PinFirstKey PROVE FALSE
      BY <1>0, <1>1, <3>3 DEF PinFirstKey
    <3> QED BY <2>1, <2>5, <3>1, <3>2, <3>3
         DEF RotateVerifies, MayRotate, RotateReads, RotateCommits, RotateRollsBack, ApplyEnv, EditRow
  <2>6. ASSUME SweepCommitsUnstamped
        PROVE  /\ \A i \in 1 .. Len(rows') : ~Chained(rows'[i])
               /\ UNCHANGED <<memKey, rot>>
    BY <2>1, <2>6, ClearedUnchained DEF SweepCommitsUnstamped
  <2>7. ASSUME \/ \E w \in Writers : RecordRollsBack(w)
               \/ SweepStarts \/ SweepReads \/ SweepEnds
        PROVE  UNCHANGED <<rows, memKey, rot>>
    BY <2>7 DEF RecordRollsBack, SweepStarts, SweepReads, SweepEnds
  <2> QED BY <2>1, <2>2, <2>3, <2>4, <2>5, <2>6, <2>7, Steps
<1>2. sweep'.phase # "idle" /\ sweep'.key # NoKey => envKey' # NoKey
  <2> DEFINE W == [phase : {"idle", "started", "walking"},
                   key : Keys \cup {NoKey}, cut : Nat, snap : Seq(Rows)]
  <2>0. sweep \in W
    BY DEF Base, Sweeping
  <2>1. ASSUME SweepStarts
        PROVE  sweep'.key = envKey /\ envKey' = envKey
    BY <2>0, <2>1 DEF SweepStarts
  <2>2. ASSUME SweepReads
        PROVE  sweep'.key = sweep.key /\ envKey' = envKey /\ sweep.phase # "idle"
    <3>1. PICK cut : sweep' = [sweep EXCEPT !.phase = "walking", !.cut = cut,
                                             !.snap = Survivors(cut)]
      BY <2>2 DEF SweepReads
    <3> PICK left : left = Survivors(cut)
      OBVIOUS
    <3>2. sweep' = [sweep EXCEPT !.phase = "walking", !.cut = cut, !.snap = left]
      BY <3>1
    <3>3. sweep'.key = sweep.key
      BY <2>0, <3>2
    <3> QED BY <2>2, <3>3 DEF SweepReads
  <2>3. ASSUME SweepCommits \/ SweepCommitsUnstamped \/ SweepEnds
        PROVE  sweep'.phase = "idle"
    BY <2>3 DEF SweepCommits, SweepCommitsUnstamped, SweepEnds, IdleSweep
  <2>4. ASSUME PinFirstKey
        PROVE  envKey' # NoKey
    BY <1>0, <2>4 DEF PinFirstKey
  <2>5. ASSUME ApplyEnv
        PROVE  sweep' = sweep /\ envKey # NoKey /\ envKey' # NoKey
    <3>1. envKey # NoKey
      BY <2>5 DEF ApplyEnv, Unkeyed
    <3> QED BY <2>5, <3>1, EnvKeyStep DEF ApplyEnv
  <2>6. ASSUME NEW w \in Writers,
               \/ RecordUnstamped(w) \/ RecordSelects(w) \/ Restart(w)
               \/ RecordInserts(w) \/ RecordRollsBack(w)
        PROVE  sweep' = sweep /\ envKey' = envKey
    BY <2>6 DEF RecordUnstamped, RecordSelects, Restart, RecordInserts, RecordRollsBack
  <2>7. ASSUME \/ \E to \in Keys : RotateVerifies(to)
               \/ RotateReads \/ RotateCommits \/ RotateRollsBack
               \/ \E i \in DOMAIN rows : EditRow(i)
        PROVE  sweep' = sweep /\ envKey' = envKey
    BY <2>7 DEF RotateVerifies, RotateReads, RotateCommits, RotateRollsBack, EditRow
  <2>8. sweep.phase # "idle" /\ sweep.key # NoKey => envKey # NoKey
    BY DEF Unkeyed
  <2> HIDE DEF W
  <2> QED BY <2>1, <2>2, <2>3, <2>4, <2>5, <2>6, <2>7, <2>8, Steps
<1> QED BY <1>1, <1>2 DEF Unkeyed

LEMMA ReadsStep ==
  ASSUME Serial, Base, Reads, Next
  PROVE  Reads'
<1> USE DEF InTransaction, WritersOut, RotationOut, SweepOut
<1>0. /\ seen \in [Writers -> Nat \cup {Out}]
      /\ rot \in [phase : {"idle", "verified", "walking", "committed", "applied"},
                  to : Keys \cup {NoKey}, snap : Seq(Rows)]
      /\ sweep \in [phase : {"idle", "started", "walking"},
                    key : Keys \cup {NoKey}, cut : Nat, snap : Seq(Rows)]
  BY DEF Base, Keyring, Rotating, Sweeping
<1>1. ASSUME Quiet' PROVE Reads'
  BY <1>1 DEF Quiet, Reads
<1>2. ASSUME NEW w \in Writers, RecordUnstamped(w)
      PROVE  Quiet'
  BY <1>2 DEF RecordUnstamped, WriterMayCommit, Quiet
<1>3. ASSUME NEW w \in Writers, RecordInserts(w)
      PROVE  Quiet'
  <2>1. seen' = [seen EXCEPT ![w] = Out] /\ rot' = rot /\ sweep' = sweep
        /\ RotationOut /\ SweepOut /\ \A v \in Writers \ {w} : seen[v] = Out
    BY <1>3 DEF RecordInserts, WriterMayCommit
  <2>2. \A v \in Writers : seen'[v] = Out
    BY <1>0, <2>1
  <2> QED BY <2>1, <2>2 DEF Quiet
<1>4. ASSUME RotateCommits
      PROVE  Quiet'
  <2>1. rot' = [rot EXCEPT !.phase = "committed", !.snap = <<>>]
    BY <1>4 DEF RotateCommits
  <2>2. rot'.phase = "committed"
    BY <1>0, <2>1
  <2> QED BY <1>4, <2>2 DEF RotateCommits, RotationMayCommit, Quiet
<1>5. ASSUME SweepCommits \/ SweepCommitsUnstamped
      PROVE  Quiet'
  <2>1. sweep'.phase = "idle"
    BY <1>5 DEF SweepCommits, SweepCommitsUnstamped, IdleSweep
  <2> QED BY <1>5, <2>1 DEF SweepCommits, SweepCommitsUnstamped, SweepMayCommit, Quiet
<1>6. ASSUME NEW i \in DOMAIN rows, EditRow(i)
      PROVE  Quiet'
  BY <1>6 DEF EditRow, Quiet
<1>7. ASSUME rows' = rows
      PROVE  LastId' = LastId /\ \A n : Survivors(n)' = Survivors(n)
  BY <1>7 DEF LastId, Survivors
<1>8. ASSUME rows' = rows, UNCHANGED <<rot, sweep>>,
             \A v \in Writers : seen'[v] # Out => seen'[v] = seen[v] \/ seen'[v] = LastId
      PROVE  Reads'
  <2>1. \A v \in Writers : seen'[v] # Out => seen'[v] = LastId'
    BY <1>7, <1>8 DEF Reads
  <2>2. rot'.phase = "walking" => rot'.snap = rows'
    BY <1>8 DEF Reads
  <2>3. sweep'.phase = "walking" => sweep'.snap = SubSeq(rows', sweep'.cut + 1, Len(rows'))
    BY <1>8 DEF Reads, Survivors
  <2> QED BY <2>1, <2>2, <2>3 DEF Reads, Survivors
<1>9. ASSUME NEW w \in Writers, RecordSelects(w) \/ Restart(w) \/ RecordRollsBack(w)
      PROVE  Reads'
  <2> PICK n : n = LastId
    OBVIOUS
  <2>1. /\ rows' = rows /\ UNCHANGED <<rot, sweep>>
        /\ seen' = [seen EXCEPT ![w] = n] \/ seen' = [seen EXCEPT ![w] = Out]
    BY <1>9 DEF RecordSelects, Restart, RecordRollsBack
  <2>2. \A v \in Writers : seen'[v] # Out => seen'[v] = seen[v] \/ seen'[v] = n
    BY <1>0, <2>1
  <2> QED BY <1>8, <2>1, <2>2
<1>10. ASSUME rows' = rows, seen' = seen
       PROVE  \A v \in Writers : InTransaction(v)' => seen'[v] = LastId'
  BY <1>7, <1>10 DEF Reads
<1>11. ASSUME rows' = rows, seen' = seen, sweep' = sweep,
              rot'.phase = "walking" => rot'.snap = rows
       PROVE  Reads'
  <2>1. sweep'.phase = "walking" => sweep'.snap = SubSeq(rows', sweep'.cut + 1, Len(rows'))
    BY <1>11 DEF Reads, Survivors
  <2> QED BY <1>10, <1>11, <2>1 DEF Reads, Survivors
<1>12. ASSUME rows' = rows, seen' = seen, rot' = rot,
              sweep'.phase = "walking" =>
                sweep'.snap = SubSeq(rows, sweep'.cut + 1, Len(rows))
       PROVE  Reads'
  <2>1. rot'.phase = "walking" => rot'.snap = rows'
    BY <1>12 DEF Reads
  <2> QED BY <1>10, <1>12, <2>1 DEF Reads, Survivors
<1>13. ASSUME \/ \E to \in Keys : RotateVerifies(to)
              \/ RotateRollsBack \/ ApplyEnv
       PROVE  rot'.phase # "walking" /\ rows' = rows /\ seen' = seen /\ sweep' = sweep
  <2>1. \/ \E to \in Keys : rot' = [rot EXCEPT !.phase = "verified", !.to = to]
        \/ rot' = [phase |-> "idle", to |-> NoKey, snap |-> <<>>]
        \/ rot' = [rot EXCEPT !.phase = "applied"]
    BY <1>13 DEF RotateVerifies, RotateRollsBack, ApplyEnv, IdleRotation
  <2>2. rot'.phase # "walking"
    <3>1. ASSUME NEW to, rot' = [rot EXCEPT !.phase = "verified", !.to = to]
          PROVE  rot'.phase = "verified"
      BY <1>0, <3>1
    <3>2. ASSUME rot' = [rot EXCEPT !.phase = "applied"]
          PROVE  rot'.phase = "applied"
      BY <1>0, <3>2
    <3>3. ASSUME rot' = [phase |-> "idle", to |-> NoKey, snap |-> <<>>]
          PROVE  rot'.phase = "idle"
      BY <3>3
    <3> QED BY <2>1, <3>1, <3>2, <3>3
  <2>3. rows' = rows /\ seen' = seen /\ sweep' = sweep
    BY <1>13 DEF RotateVerifies, RotateRollsBack, ApplyEnv
  <2> QED BY <2>2, <2>3
<1>14. ASSUME RotateReads
       PROVE  rot'.snap = rows /\ rows' = rows /\ seen' = seen /\ sweep' = sweep
  BY <1>0, <1>14 DEF RotateReads
<1>15. ASSUME PinFirstKey
       PROVE  rot' = rot /\ rows' = rows /\ seen' = seen /\ sweep' = sweep
  BY <1>15 DEF PinFirstKey
<1>16. ASSUME SweepStarts \/ SweepEnds
       PROVE  sweep'.phase # "walking" /\ rows' = rows /\ seen' = seen /\ rot' = rot
  <2>1. \/ sweep' = [sweep EXCEPT !.phase = "started", !.key = envKey]
        \/ sweep' = [phase |-> "idle", key |-> NoKey, cut |-> 0, snap |-> <<>>]
    BY <1>16 DEF SweepStarts, SweepEnds, IdleSweep
  <2>2. sweep'.phase # "walking"
    <3>1. ASSUME sweep' = [sweep EXCEPT !.phase = "started", !.key = envKey]
          PROVE  sweep'.phase = "started"
      BY <1>0, <3>1
    <3>2. ASSUME sweep' = [phase |-> "idle", key |-> NoKey, cut |-> 0, snap |-> <<>>]
          PROVE  sweep'.phase = "idle"
      BY <3>2
    <3> QED BY <2>1, <3>1, <3>2
  <2>3. rows' = rows /\ seen' = seen /\ rot' = rot
    BY <1>16 DEF SweepStarts, SweepEnds
  <2> QED BY <2>2, <2>3
<1>17. ASSUME SweepReads
       PROVE  /\ sweep'.snap = SubSeq(rows, sweep'.cut + 1, Len(rows))
              /\ rows' = rows /\ seen' = seen /\ rot' = rot
  <2>1. PICK cut : sweep' = [sweep EXCEPT !.phase = "walking", !.cut = cut,
                                           !.snap = Survivors(cut)]
    BY <1>17 DEF SweepReads
  <2> PICK left : left = Survivors(cut)
    OBVIOUS
  <2>2. sweep' = [sweep EXCEPT !.phase = "walking", !.cut = cut, !.snap = left]
    BY <2>1
  <2>3. sweep'.cut = cut /\ sweep'.snap = left
    BY <1>0, <2>2
  <2> QED BY <1>17, <2>3 DEF SweepReads, Survivors
<1>18. sweep.phase = "walking" => sweep.snap = SubSeq(rows, sweep.cut + 1, Len(rows))
  BY DEF Reads, Survivors
<1> QED BY <1>1, <1>2, <1>3, <1>4, <1>5, <1>6, <1>9, <1>11, <1>12, <1>13, <1>14, <1>15,
           <1>16, <1>17, <1>18, Steps

-----------------------------------------------------------------------------
(* Over a log that nobody else has changed since it was read, the walk     *)
(* leaves a chain that verifies, and so does the row put on top of it.     *)
LEMMA RewriteVerified ==
  ASSUME NEW rs \in Seq(Rows), Growing(rs), NEW k \in Keys, NEW n \in Nat \ {0}
  PROVE  LET st == Restamp(rs, k) IN
         Verified(Append(Rewrite(rs, st), Row(n, LastMac(st), Mac(k, LastMac(st), n))), k)
<1> DEFINE st == Restamp(rs, k)
<1>1. /\ st \in Seq(Rows) /\ Len(st) = Len(rs)
      /\ \A i \in 1 .. Len(rs) : /\ st[i].id = rs[i].id /\ st[i].data = rs[i].data
                                 /\ Chained(st[i]) <=> Chained(rs[i])
                                 /\ ~Chained(rs[i]) => st[i] = rs[i]
  BY RestampIs
<1>2. Verified(st, k)
  BY RestampVerified
<1> HIDE DEF st
<1>3. Rewrite(rs, st) = st
  <2>1. \A i \in 1 .. Len(rs) : /\ st[i].id = rs[i].id /\ st[i].data = rs[i].data
                                /\ ~Chained(st[i]) => st[i] = rs[i]
    BY <1>1
  <2> QED BY <1>1, <2>1, RewriteIs
<1> PICK prev : prev = LastMac(st)
  OBVIOUS
<1> PICK mac : mac = Mac(k, prev, n)
  OBVIOUS
<1>4. prev \in Macs /\ mac \in Macs
  BY <1>1, OnTop
<1> PICK r : r = Row(n, prev, mac)
  OBVIOUS
<1>5. r \in Rows /\ r.data = n /\ r.prev = prev /\ r.mac = mac
  BY <1>4, RowIs
<1>6. Verified(Append(st, r), k)
  BY <1>1, <1>2, <1>5, AppendVerified
<1> QED BY <1>3, <1>6 DEF st

LEMMA RotateVerified ==
  ASSUME Serial, Base, Reads, RotateCommits
  PROVE  Verified(rows', rot.to)
<1>1. rows \in Seq(Rows) /\ Growing(rows) /\ nextId \in Nat \ {0} /\ rot.to \in Keys
  BY DEF Base, Log, Rotating, RotateCommits
<1>2. rot.snap = rows
  BY DEF Reads, RotateCommits
<1> DEFINE st == Restamp(rows, rot.to)
<1>3. rows' = Append(Rewrite(rows, st),
                     Row(nextId, LastMac(st), Mac(rot.to, LastMac(st), nextId)))
  BY <1>2 DEF RotateCommits
<1> QED BY <1>1, <1>3, RewriteVerified

LEMMA SweepVerified ==
  ASSUME Serial, Base, Reads, SweepCommits
  PROVE  Verified(rows', sweep.key) /\ sweep.key \in Keys
<1>1. Log /\ nextId \in Nat \ {0} /\ sweep.key \in Keys /\ sweep.cut \in 1 .. Len(rows)
  BY DEF Base, Log, Sweeping, SweepCommits
<1> PICK left : left = Survivors(sweep.cut)
  OBVIOUS
<1>2. left \in Seq(Rows) /\ Growing(left)
  BY <1>1, SurvivorsLog
<1>3. sweep.snap = left
  BY DEF Reads, SweepCommits
<1> DEFINE st == Restamp(left, sweep.key)
<1>4. rows' = Append(Rewrite(left, st),
                     Row(nextId, LastMac(st), Mac(sweep.key, LastMac(st), nextId)))
  BY <1>3 DEF SweepCommits
<1>5. Verified(Append(Rewrite(left, st),
                      Row(nextId, LastMac(st), Mac(sweep.key, LastMac(st), nextId))),
               sweep.key)
  BY <1>1, <1>2, RewriteVerified
<1> QED BY <1>1, <1>4, <1>5

(* What record_audit chains to is the last row, if that is what it read.   *)
LEMMA SeenMacIsLast ==
  ASSUME rows \in Seq(Rows), Growing(rows), NEW w, seen[w] = LastId
  PROVE  SeenMac(w) = LastMac(rows)
<1> DEFINE found == {i \in DOMAIN rows : rows[i].id = seen[w]}
<1>1. SeenMac(w) = IF found = {} THEN NoMac ELSE rows[Max(found)].mac
  BY DEF SeenMac
<1>2. Len(rows) \in Nat /\ DOMAIN rows = 1 .. Len(rows)
  BY LenProperties
<1>3. CASE rows = <<>>
  <2>1. Len(rows) = 0
    BY <1>3, EmptySeq
  <2>2. found = {}
    BY <1>2, <2>1
  <2> QED BY <1>1, <1>3, <2>2 DEF LastMac
<1>4. CASE rows # <<>>
  <2>1. Len(rows) \in 1 .. Len(rows)
    BY <1>2, <1>4, EmptySeq
  <2>2. seen[w] = rows[Len(rows)].id
    BY <1>4 DEF LastId
  <2>3. ASSUME NEW i \in 1 .. Len(rows), rows[i].id = seen[w]
        PROVE  i = Len(rows)
    <3>1. rows[i].id = rows[Len(rows)].id /\ rows[i].id \in Nat
      BY <2>2, <2>3, RowOf
    <3>2. ~(i < Len(rows))
      BY <2>1, <3>1 DEF Growing
    <3>3. \A n \in Nat : \A a \in 1 .. n : ~(a < n) => a = n
      OBVIOUS
    <3> HIDE DEF found
    <3> QED BY <1>2, <3>2, <3>3, Zenon
  <2>4. found = {Len(rows)}
    BY <1>2, <2>1, <2>2, <2>3
  <2>5. Max({Len(rows)}) = Len(rows)
    <3>1. \A x \in {Len(rows)} : x <= Len(rows)
      BY <1>2
    <3>2. {Len(rows)} \subseteq Int /\ Len(rows) \in {Len(rows)}
      BY <1>2
    <3> QED BY <3>1, <3>2, MaxIs
  <2> HIDE DEF found
  <2> QED BY <1>1, <1>4, <2>4, <2>5 DEF LastMac
<1> QED BY <1>3, <1>4

(* A sweep without a key: a row that was blanked by it is excepted from    *)
(* now on, and one that had no predecessor to name still has none.         *)
LEMMA ClearedJoined ==
  ASSUME Base, Joined(rows, cleared), SweepCommitsUnstamped
  PROVE  Joined(rows', cleared')
<1>1. /\ Log /\ nextId \in Nat \ {0} /\ sweep.cut \in 1 .. Len(rows)
      /\ rows \in Seq(Rows) /\ Growing(rows) /\ Len(rows) \in Nat
  BY LenProperties DEF Base, Log, Sweeping, SweepCommitsUnstamped
<1> PICK cut : cut = sweep.cut
  OBVIOUS
<1> PICK left : left = Survivors(cut)
  OBVIOUS
<1>2. /\ left \in Seq(Rows) /\ Len(left) = Len(rows) - cut /\ cut \in 1 .. Len(rows)
      /\ \A j \in 1 .. Len(left) : /\ left[j] = rows[cut + j]
                                   /\ cut + j \in 1 .. Len(rows)
      /\ Growing(left) /\ Below(left, nextId) /\ DOMAIN left = 1 .. Len(left)
  BY <1>1, SurvivorsAre, SurvivorsLog, LenProperties
<1> PICK old : old = Cleared(left)
  OBVIOUS
<1>3. /\ old \in Seq(Rows) /\ Len(old) = Len(left)
      /\ \A i \in 1 .. Len(left) : /\ old[i].id = left[i].id /\ old[i].prev = NoMac
                                   /\ old[i].mac = left[i].mac
  BY <1>2, ClearedIs
<1> PICK out : out = cleared'
  OBVIOUS
<1>4. out = cleared \cup Blanked(left)
  BY DEF SweepCommitsUnstamped
<1>5. ASSUME NEW i \in 1 .. Len(old), Chained(old[i]), old[i].id \notin out
      PROVE  Linked(old, i) /\ old[i].prev = Front(old[i].mac)
  <2>1. /\ i \in 1 .. Len(left) /\ left[i] = rows[cut + i] /\ cut + i \in 1 .. Len(rows)
        /\ i \in DOMAIN left
    BY <1>2, <1>3, <1>5
  <2>2. Chained(left[i]) /\ left[i].id \notin cleared /\ left[i].id \notin Blanked(left)
    BY <1>3, <1>4, <1>5, <2>1 DEF Chained
  <2>3. left[i].prev = NoMac
    BY <2>1, <2>2 DEF Blanked
  <2>4. Linked(rows, cut + i) /\ rows[cut + i].prev = Front(rows[cut + i].mac)
    BY <2>1, <2>2 DEF Joined
  <2>5. Before(rows, cut + i) = NoMac /\ Front(left[i].mac) = NoMac
    BY <2>1, <2>3, <2>4 DEF Linked
  <2>6. Before(old, i) = NoMac
    <3>1. CASE i = 1
      BY <3>1 DEF Before
    <3>2. CASE i # 1
      <4>1. i - 1 \in 1 .. Len(left) /\ (cut + i) - 1 = cut + (i - 1) /\ cut + i # 1
        <5>1. cut \in Nat /\ cut > 0 /\ Len(left) \in Nat /\ i \in 1 .. Len(left)
          <6>1. cut \in 1 .. Len(rows) /\ Len(rows) \in Nat
            BY <1>1, <1>2
          <6> QED BY <1>2, <2>1, <6>1, LenProperties
        <5>2. \A n, m \in Nat : \A j \in 1 .. n :
                j # 1 /\ m > 0 => /\ j - 1 \in 1 .. n /\ (m + j) - 1 = m + (j - 1)
                                 /\ m + j # 1
          OBVIOUS
        <5> QED BY <3>2, <5>1, <5>2
      <4>2. rows[(cut + i) - 1].mac = NoMac
        BY <2>5, <4>1 DEF Before
      <4>3. left[i - 1] = rows[cut + (i - 1)] /\ old[i - 1].mac = left[i - 1].mac
        BY <1>2, <1>3, <4>1
      <4>4. left[i - 1] = rows[(cut + i) - 1]
        BY <4>1, <4>3
      <4> QED BY <3>2, <4>2, <4>3, <4>4 DEF Before
    <3> QED BY <3>1, <3>2
  <2> QED BY <1>3, <2>1, <2>5, <2>6 DEF Linked
<1>6. Joined(old, out)
  BY <1>5 DEF Joined
<1> PICK r : r = Row(nextId, NoMac, NoMac)
  OBVIOUS
<1>7. r \in Rows /\ r.mac = NoMac
  BY <1>1, NoMacIs, RowIs
<1>8. Joined(Append(old, r), out)
  BY <1>3, <1>6, <1>7, AppendJoined DEF Chained
<1>9. rows' = Append(old, r)
  BY DEF SweepCommitsUnstamped, Cleared
<1> QED BY <1>8, <1>9

LEMMA JoinedStep ==
  ASSUME Serial, Base, Unkeyed, Reads, Joined(rows, cleared), Next
  PROVE  Joined(rows, cleared)'
<1>0. /\ rows \in Seq(Rows) /\ Growing(rows) /\ nextId \in Nat \ {0} /\ nextId \in Nat
      /\ \A w \in Writers : InTransaction(w) => memKey[w] \in Keys
      /\ rows' \in Seq(Rows)
  <2>1. Log'
    BY LogStep
  <2> QED BY <2>1 DEF Base, Log, Keyring
<1>1. ASSUME rows' = rows, cleared' = cleared PROVE Joined(rows', cleared')
  BY <1>1
<1>2. ASSUME NEW w \in Writers, RecordUnstamped(w)
      PROVE  Joined(rows', cleared')
  <2> PICK r : r = Row(nextId, NoMac, NoMac)
    OBVIOUS
  <2>1. r \in Rows /\ r.mac = NoMac
    BY <1>0, NoMacIs, RowIs
  <2>2. rows' = Append(rows, r) /\ cleared' = cleared
    BY <1>2 DEF RecordUnstamped
  <2>3. Joined(Append(rows, r), cleared)
    BY <1>0, <2>1, AppendJoined DEF Chained
  <2> QED BY <2>2, <2>3
<1>3. ASSUME NEW w \in Writers, RecordInserts(w)
      PROVE  Joined(rows', cleared')
  <2>1. memKey[w] \in Keys /\ SeenMac(w) = LastMac(rows)
    BY <1>0, <1>3, SeenMacIsLast DEF RecordInserts, Reads
  <2> PICK prev : prev = LastMac(rows)
    OBVIOUS
  <2> PICK mac : mac = Mac(memKey[w], prev, nextId)
    OBVIOUS
  <2>2. prev \in Macs /\ mac \in Macs /\ Front(mac) = prev
    BY <1>0, <2>1, LastMacIs, MacIs
  <2> PICK r : r = Row(nextId, prev, mac)
    OBVIOUS
  <2>3. r \in Rows /\ r.prev = prev /\ r.mac = mac
    BY <1>0, <2>2, RowIs
  <2>4. rows' = Append(rows, r) /\ cleared' = cleared
    BY <1>3, <2>1 DEF RecordInserts
  <2>5. Joined(Append(rows, r), cleared)
    BY <1>0, <2>2, <2>3, AppendJoined
  <2> QED BY <2>4, <2>5
<1>4. ASSUME RotateCommits
      PROVE  Joined(rows', cleared')
  <2>1. Verified(rows', rot.to) /\ rot.to \in Keys
    BY <1>4, RotateVerified DEF Base, Rotating, RotateCommits
  <2> QED BY <1>0, <2>1, VerifiedIsJoined
<1>5. ASSUME SweepCommits
      PROVE  Joined(rows', cleared')
  <2>1. Verified(rows', sweep.key) /\ sweep.key \in Keys
    BY <1>5, SweepVerified
  <2> QED BY <1>0, <2>1, VerifiedIsJoined
<1>6. ASSUME SweepCommitsUnstamped
      PROVE  Joined(rows', cleared')
  BY <1>6, ClearedJoined
<1>7. ASSUME NEW i \in DOMAIN rows, EditRow(i)
      PROVE  Joined(rows', cleared')
  <2> PICK out : out = rows'
    OBVIOUS
  <2>1. /\ Len(out) = Len(rows) /\ Len(rows) \in Nat
        /\ \A j \in 1 .. Len(rows) : /\ out[j].prev = rows[j].prev /\ out[j].mac = rows[j].mac
                                     /\ out[j].id = rows[j].id
    BY <1>0, <1>7, EditLog, LenProperties
  <2>2. \A j \in 1 .. Len(rows) : Before(out, j) = Before(rows, j)
    <3> SUFFICES ASSUME NEW j \in 1 .. Len(rows), j # 1
                 PROVE  out[j - 1].mac = rows[j - 1].mac
      BY DEF Before
    <3>1. j - 1 \in 1 .. Len(rows)
      BY <2>1
    <3> QED BY <2>1, <3>1
  <2>3. Joined(out, cleared)
    BY <2>1, <2>2 DEF Joined, Linked, Chained
  <2>4. cleared' = cleared
    BY <1>7 DEF EditRow
  <2> QED BY <2>3, <2>4
<1>8. ASSUME \/ \E w \in Writers : RecordSelects(w) \/ Restart(w) \/ RecordRollsBack(w)
             \/ \E to \in Keys : RotateVerifies(to)
             \/ RotateReads \/ RotateRollsBack \/ ApplyEnv
             \/ PinFirstKey \/ SweepStarts \/ SweepReads \/ SweepEnds
      PROVE  rows' = rows /\ cleared' = cleared
  BY <1>8 DEF RecordSelects, Restart, RecordRollsBack, RotateVerifies, RotateReads,
              RotateRollsBack, ApplyEnv, PinFirstKey, SweepStarts, SweepReads, SweepEnds
<1>9. Joined(rows', cleared')
  BY <1>1, <1>2, <1>3, <1>4, <1>5, <1>6, <1>7, <1>8, Steps
<1> QED BY <1>9

(* On a database that serialises transactions: everything the theorems     *)
(* below need, as one inductive invariant.                                 *)
Serialised == Base /\ Unkeyed /\ Reads /\ Joined(rows, cleared)

LEMMA SerialisedStep ==
  ASSUME Serial
  PROVE  /\ Init => Serialised
         /\ Serialised /\ [Next]_vars => Serialised'
<1>1. ASSUME Init PROVE Serialised
  <2>1. /\ rows = <<>> /\ rot.phase = "idle" /\ sweep.phase = "idle"
        /\ \A w \in Writers : memKey[w] = envKey /\ seen[w] = Out
    BY <1>1 DEF Init, IdleRotation, IdleSweep
  <2>2. Len(<<>>) = 0
    BY EmptySeq
  <2> QED BY <1>1, <2>1, <2>2, BaseInit
       DEF Serialised, Unkeyed, Reads, Joined, InTransaction
<1>2. ASSUME Serialised, Next PROVE Serialised'
  <2>1. Base /\ Unkeyed /\ Reads /\ Joined(rows, cleared)
    BY <1>2 DEF Serialised
  <2>2. Base' /\ Unkeyed'
    BY <1>2, <2>1, BaseStep, UnkeyedStep
  <2>3. Reads'
    BY <1>2, <2>1, ReadsStep
  <2>4. Joined(rows, cleared)'
    BY <1>2, <2>1, JoinedStep
  <2> QED BY <2>2, <2>3, <2>4 DEF Serialised
<1>3. ASSUME Serialised, UNCHANGED vars PROVE Serialised'
  <2>1. Base'
    BY <1>3, BaseStep DEF Serialised
  <2>2. UNCHANGED <<rows, envKey, memKey, seen, rot, sweep, cleared>>
    BY <1>3 DEF vars
  <2>3. Unkeyed' /\ Joined(rows, cleared)'
    BY <1>3, <2>2 DEF Serialised, Unkeyed
  <2>4. Reads'
    BY <1>3, <2>2 DEF Serialised, Reads, InTransaction, LastId, Survivors
  <2> QED BY <2>1, <2>3, <2>4 DEF Serialised
<1> QED BY <1>1, <1>2, <1>3

LEMMA AlwaysSerialised ==
  ASSUME Serial
  PROVE  Spec => []Serialised
BY SerialisedStep, PTL DEF Spec

(* "Concurrent writers serialise": on a database that serialises            *)
(* transactions every stamped row carries the mac of the row before it,    *)
(* whatever the writers, the rotation and the prune do to each other, but  *)
(* for the rows whose prev_hmac a sweep older than the first key blanked.  *)
THEOREM ChainAlwaysLinked ==
  ASSUME Serial
  PROVE  Spec => []ChainLinked
<1>1. ASSUME Serialised
      PROVE  ChainLinked
  <2>1. rows \in Seq(Rows) /\ Joined(rows, cleared)
    BY <1>1 DEF Serialised, Base, Log
  <2> QED BY <2>1, LenProperties DEF Joined, ChainLinked
<1> QED BY <1>1, AlwaysSerialised, PTL

(* There a rotation or a prune leaves a chain that verifies from end to    *)
(* end under the key it stamped with, the row of its own included.         *)
THEOREM RestampAlwaysVerifies ==
  ASSUME Serial
  PROVE  Spec => RestampVerifies
<1>1. ASSUME Serialised, Next
      PROVE  /\ RotateCommits => Intact(rows', rot.to)
             /\ SweepCommits => Intact(rows', sweep.key)
  <2>1. Base /\ Reads /\ rows' \in Seq(Rows)
    <3>1. Base
      BY <1>1 DEF Serialised
    <3>2. Log'
      BY <1>1, <3>1, LogStep
    <3> QED BY <1>1, <3>1, <3>2 DEF Serialised, Log
  <2>2. ASSUME RotateCommits PROVE Intact(rows', rot.to)
    BY <2>1, <2>2, RotateVerified, VerifiedIsIntact
  <2>3. ASSUME SweepCommits PROVE Intact(rows', sweep.key)
    BY <2>1, <2>3, SweepVerified, VerifiedIsIntact
  <2> QED BY <2>2, <2>3
<1>2. Serialised /\ [Next]_vars
        => [/\ RotateCommits => Intact(rows', rot.to)
            /\ SweepCommits => Intact(rows', sweep.key)]_vars
  BY <1>1
<1> QED BY <1>2, AlwaysSerialised, PTL DEF Spec, RestampVerifies

=============================================================================
