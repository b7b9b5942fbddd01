------------------------ MODULE SecondFactor_proofs ------------------------
(***************************************************************************)
(* The second factor, for any number of requests, secrets, codes, changes  *)
(* of address and handlers, and any choice of the handlers that run.       *)
(*                                                                         *)
(* Every property needs to know what a handler still has in front of it    *)
(* (Formed) and what was true of the row when it decided and still is, as  *)
(* long as its copy is fresh (Decided): a fresh copy is one that no        *)
(* statement of another handler has made stale.  On that base each         *)
(* property has an invariant of its own.                                   *)
(***************************************************************************)
EXTENDS SecondFactor, FiniteSetTheorems, SequenceTheorems, TLAPS

(* What is left to do of each handler, at any time.                        *)
Issued == {<<"drop-recovery", "mint">>, <<"mint">>}
Planned(op, todo) ==
  \/ op \in {"start-totp", "admin-update", "password"} /\ todo = <<"save">>
  \/ /\ op = "confirm-totp"
     /\ todo \in {<<"save">>, <<"save", "drop-recovery", "mint">>} \cup Issued
  \/ /\ op = "disable-totp"
     /\ todo \in {<<"save">>, <<"save", "drop-recovery">>, <<"drop-recovery">>}
  \/ /\ op = "disable-email"
     /\ todo \in {<<"save", "drop-challenges">>, <<"drop-challenges">>,
                  <<"save", "drop-challenges", "drop-recovery">>,
                  <<"drop-challenges", "drop-recovery">>, <<"drop-recovery">>}
  \/ /\ op \in {"disable-all", "admin-disable"}
     /\ todo \in {<<"save", "drop-recovery", "drop-challenges">>,
                  <<"drop-recovery", "drop-challenges">>, <<"drop-challenges">>}
  \/ /\ op = "send-code"
     /\ todo \in {<<"limit", "burn", "create", "send">>,
                  <<"burn", "create", "send">>, <<"create", "send">>, <<"send">>}
  \/ /\ op = "confirm-email"
     /\ todo \in {<<"find-code", "use-code", "save">>, <<"use-code", "save">>,
                  <<"save">>,
                  <<"find-code", "use-code", "save", "drop-recovery", "mint">>,
                  <<"use-code", "save", "drop-recovery", "mint">>,
                  <<"save", "drop-recovery", "mint">>} \cup Issued
  \/ op = "email-login" /\ todo \in {<<"find-code", "use-code">>, <<"use-code">>}
  \/ op = "regenerate" /\ todo \in Issued
  \/ op = "recovery" /\ todo = <<"use-recovery">>
  \/ /\ op = "request-change"
     /\ todo \in {<<"supersede", "open", "mail">>, <<"open", "mail">>, <<"mail">>}
  \/ /\ op = "confirm-change"
     /\ todo \in {<<"drop-challenges", "save", "close">>, <<"save", "close">>,
                  <<"close">>}
  \/ op \in {"cancel-change", "cancel-in-app"} /\ todo = <<"cancel">>

Saving(j) == Remains("save", j.todo)

(* The columns each handler saves.                                         *)
Saved(j) ==
  /\ j.op = "start-totp" => \E s \in Secrets : j.save = [secret |-> s]
  /\ j.op = "confirm-totp" =>
       j.save = [totp |-> TRUE, enabled |-> TRUE] /\ j.found \in Secrets
  /\ j.op = "disable-totp" => \E b \in BOOLEAN :
       j.save = [totp |-> FALSE, secret |-> None, enabled |-> b]
  /\ j.op = "disable-email" => \E b \in BOOLEAN :
       j.save = [email |-> FALSE, enabled |-> b]
  /\ j.op = "disable-all" => j.save = Cleared
  /\ j.op = "admin-disable" =>
       j.save = [totp |-> FALSE, email |-> FALSE, enabled |-> FALSE,
                 secret |-> None, required |-> FALSE]
  /\ j.op \in {"admin-update", "password"} => j.save \in Rows
  /\ j.op = "confirm-email" => j.save = [email |-> TRUE, enabled |-> TRUE]
  /\ j.op = "confirm-change" => \E a \in Addresses :
       j.save \in {[addr |-> a], [addr |-> a, email |-> FALSE],
                   [addr |-> a, email |-> FALSE, enabled |-> FALSE]}

(* Rows that a handler works on are there until it is done: `codes' and    *)
(* `asked' stand for the tables challenge and change, before or after.     *)
HeldIn(j, codes, asked) ==
  /\ j.op \in {"send-code", "request-change"} =>
       \E a \in Addresses : j.save = [addr |-> a]
  /\ Head(j.todo) \in {"send", "use-code"} => j.found \in Codes
  /\ Head(j.todo) = "use-code" =>
       codes[j.found] = None \/ codes[j.found].at # None
  /\ Head(j.todo) \in {"mail", "close", "cancel"} \/ j.op = "confirm-change" =>
       j.found \in Changes /\ asked[j.found] # NoChange
  /\ Head(j.todo) = "use-recovery" => j.found \in Batches

FormedIn(j, codes, asked) ==
  \/ j = Idle
  \/ /\ j \in [op : Ops, save : {j.save}, fresh : BOOLEAN, todo : {j.todo},
               found : {None} \cup Secrets \cup Batches \cup Codes \cup Changes]
     /\ Planned(j.op, j.todo)
     /\ DOMAIN j.save \subseteq Columns
     /\ Saving(j) => Saved(j)
     /\ HeldIn(j, codes, asked)

(* What was true of the row when the handler decided, and still is: `r'    *)
(* stands for the row, before or after.                                    *)
DecidedOn(j, r, asked) ==
  /\ j.op = "start-totp" => ~r.totp
  /\ j.op = "confirm-totp" =>
       /\ ~r.totp /\ j.found = r.secret
       /\ Remains("mint", j.todo) <=> ~r.enabled
  /\ j.op = "disable-totp" =>
       /\ j.save.enabled = r.email /\ (r.required => r.email)
       /\ Remains("drop-recovery", j.todo) <=> ~r.email
  /\ j.op = "disable-email" =>
       /\ j.save.enabled = r.totp /\ (r.required => r.totp)
       /\ Remains("drop-recovery", j.todo) <=> ~r.totp
  /\ j.op = "disable-all" => ~r.required
  /\ j.op = "admin-update" =>
       \E b \in BOOLEAN : j.save = [r EXCEPT !.required = b]
  /\ j.op = "password" => j.save = r
  /\ j.op = "confirm-email" => (Remains("mint", j.todo) <=> ~r.enabled)
  /\ j.op = "confirm-change" =>
       /\ r.email <=> "email" \in DOMAIN j.save
       /\ r.email => (r.totp <=> "enabled" \notin DOMAIN j.save)
       /\ ~asked[j.found].confirmed

Held(j) == HeldIn(j, challenge, change)
Formed(j) == FormedIn(j, challenge, change)
Decided(j) == DecidedOn(j, row, change)

Fresh(j) == j # Idle /\ j.fresh /\ Saving(j)

Types ==
  /\ row \in Rows
  /\ recovery \in [Batches -> {"none", "unused", "used"}]
  /\ challenge \in [Codes -> Challenges \cup {None}]
  /\ change \in [Changes -> Requests]
  /\ accidents \subseteq Accidents /\ applied \subseteq Changes
  /\ left \in 0 .. MaxHandlers
  /\ proved \subseteq Secrets \cup Addresses
  /\ crossed \subseteq {"challenge", "change"}

Base ==
  /\ Types
  /\ job = [t \in Threads |-> job[t]]
  /\ \A t \in Threads : Formed(job[t]) /\ (Fresh(job[t]) => Decided(job[t]))

-----------------------------------------------------------------------------
(* The invariant behind each property.                                     *)
WholeRow(j) == j # Idle /\ j.op \in {"admin-update", "password"}

Flags ==
  "remove factor" \notin accidents =>
    /\ row.enabled <=> row.totp \/ row.email
    /\ \A t \in Threads : WholeRow(job[t]) =>
         (job[t].save.enabled <=> job[t].save.totp \/ job[t].save.email)

(* The secret of an enrolment about to be saved is nowhere else.           *)
Apart ==
  \A t \in Threads : job[t] # Idle /\ job[t].op = "start-totp" =>
    /\ job[t].save.secret # row.secret
    /\ \A u \in Threads \ {t} :
         job[u] # Idle /\ Saving(job[u]) /\ "secret" \in DOMAIN job[u].save =>
           job[u].save.secret # job[t].save.secret

SecretProved ==
  "enrol totp" \notin accidents =>
    /\ row.totp => row.secret \in proved
    /\ \A t \in Threads : WholeRow(job[t]) /\ job[t].save.totp =>
         job[t].save.secret \in proved

AddressProved ==
  "whole row" \notin accidents =>
    /\ row.email => row.addr \in proved
    /\ \A t \in Threads :
         /\ job[t] # Idle /\ job[t].op = "confirm-email" /\ Saving(job[t])
         /\ ~Remains("use-code", job[t].todo)
         => row.addr \in proved
    /\ \/ row.addr \in proved
       \/ /\ \A c \in Codes : challenge[c] = None
                                \/ challenge[c].at \in {None, row.addr}
          /\ \A t \in Threads : job[t] # Idle /\ job[t].op = "send-code" =>
               job[t].save.addr = row.addr

There == {b \in Batches : recovery[b] # "none"}
Touches(t) == job[t] # Idle /\ TouchesRecovery(job[t].todo)

OneBatch ==
  "other" \notin accidents =>
    /\ \A t, u \in Threads : Touches(t) /\ Touches(u) => t = u
    /\ \A t \in Threads : At(t, "mint") => There = {}
    /\ \A b, c \in There : b = c

(* Beside the handler that is between its save and its last statement on   *)
(* the codes, which will leave them as the flag says, the two agree - but  *)
(* for the codes that a change of address has left behind.                 *)
Agreed(there) == (row.enabled => there) /\ (there => row.enabled \/ detached)

Matched ==
  accidents = {} =>
    \/ /\ \A t \in Threads : Touches(t) => Saving(job[t])
       /\ Agreed(There # {})
    \/ \E t \in Threads :
         /\ Touches(t) /\ ~Saving(job[t])
         /\ Agreed(Remains("mint", job[t].todo))

NoneLeft ==
  /\ "challenge" \notin crossed =>
       /\ \A t \in Threads : At(t, "create") => \A c \in Codes : ~Live(c)
       /\ \A c, d \in Codes : Live(c) /\ Live(d) => c = d
  /\ "change" \notin crossed =>
       /\ \A t \in Threads : At(t, "open") => \A q \in Changes : ~Open(q)
       /\ \A q, r \in Changes : Open(q) /\ Open(r) => q = r

Noted ==
  \A q \in applied :
    /\ change[q] # NoChange
    /\ \/ "torn" \in accidents \/ change[q].confirmed
       \/ \E u \in Threads : At(u, "close") /\ job[u].found = q

-----------------------------------------------------------------------------
(* A plan is its first statement and the rest.                             *)
LEMMA List1 ==
  ASSUME NEW a
  PROVE  Head(<<a>>) = a /\ Tail(<<a>>) = <<>> /\ <<a>> # <<>>
OBVIOUS

LEMMA List2 ==
  ASSUME NEW a, NEW b
  PROVE  Head(<<a, b>>) = a /\ Tail(<<a, b>>) = <<b>> /\ <<a, b>> # <<>>
OBVIOUS

LEMMA List3 ==
  ASSUME NEW a, NEW b, NEW c
  PROVE  Head(<<a, b, c>>) = a /\ Tail(<<a, b, c>>) = <<b, c>> /\ <<a, b, c>> # <<>>
OBVIOUS

LEMMA List4 ==
  ASSUME NEW a, NEW b, NEW c, NEW d
  PROVE  Head(<<a, b, c, d>>) = a /\ Tail(<<a, b, c, d>>) = <<b, c, d>> /\ <<a, b, c, d>> # <<>>
OBVIOUS

LEMMA List5 ==
  ASSUME NEW a, NEW b, NEW c, NEW d, NEW e
  PROVE  Head(<<a, b, c, d, e>>) = a /\ Tail(<<a, b, c, d, e>>) = <<b, c, d, e>> /\ <<a, b, c, d, e>> # <<>>
OBVIOUS

LEMMA RemainsRest ==
  ASSUME NEW S, NEW todo \in Seq(S), todo # <<>>, NEW s
  PROVE  Remains(s, todo) <=> s = Head(todo) \/ Remains(s, Tail(todo))
<1>1. ASSUME NEW i \in DOMAIN todo, todo[i] = s, i # 1
      PROVE  i - 1 \in DOMAIN Tail(todo) /\ Tail(todo)[i - 1] = s
  BY <1>1, HeadTailProperties
<1>2. ASSUME NEW i \in DOMAIN Tail(todo), Tail(todo)[i] = s
      PROVE  i + 1 \in DOMAIN todo /\ todo[i + 1] = s
  BY <1>2, HeadTailProperties
<1>3. 1 \in DOMAIN todo /\ Head(todo) = todo[1]
  OBVIOUS
<1> QED BY <1>1, <1>2, <1>3 DEF Remains

LEMMA Remains1 == ASSUME NEW a, NEW s PROVE Remains(s, <<a>>) <=> s = a
BY DEF Remains

LEMMA Remains2 ==
  ASSUME NEW a, NEW b, NEW s PROVE Remains(s, <<a, b>>) <=> s = a \/ s = b
BY DEF Remains

LEMMA Remains3 ==
  ASSUME NEW a, NEW b, NEW c, NEW s
  PROVE  Remains(s, <<a, b, c>>) <=> s = a \/ s = b \/ s = c
BY DEF Remains

LEMMA Remains4 ==
  ASSUME NEW a, NEW b, NEW c, NEW d, NEW s
  PROVE  Remains(s, <<a, b, c, d>>) <=> s = a \/ s = b \/ s = c \/ s = d
BY DEF Remains

LEMMA Remains5 ==
  ASSUME NEW a, NEW b, NEW c, NEW d, NEW e, NEW s
  PROVE  Remains(s, <<a, b, c, d, e>>) <=>
           s = a \/ s = b \/ s = c \/ s = d \/ s = e
BY DEF Remains

LEMMA RemainsNone == \A s : ~Remains(s, <<>>)
BY DEF Remains

LEMMA Join11 ==
  ASSUME NEW a, NEW b PROVE <<a>> \o <<b>> = <<a, b>>
<1> DEFINE s == <<a>> \o <<b>>
<1>1. s \in Seq({a, b}) /\ Len(s) = 2
  OBVIOUS
<1>2. s[1] = a /\ s[2] = b
  OBVIOUS
<1>3. <<a, b>> \in Seq({a, b}) /\ Len(<<a, b>>) = 2
  OBVIOUS
<1>4. \A i \in 1 .. 2 : s[i] = <<a, b>>[i]
  BY <1>2
<1>5. s = <<a, b>>
  <2> HIDE DEF s
  <2> QED BY <1>1, <1>3, <1>4, SeqEqual
<1> QED BY <1>5

LEMMA Join12 ==
  ASSUME NEW a, NEW b, NEW c PROVE <<a>> \o <<b, c>> = <<a, b, c>>
<1> DEFINE s == <<a>> \o <<b, c>>
<1>1. s \in Seq({a, b, c}) /\ Len(s) = 3
  OBVIOUS
<1>2. s[1] = a /\ s[2] = b /\ s[3] = c
  OBVIOUS
<1>3. <<a, b, c>> \in Seq({a, b, c}) /\ Len(<<a, b, c>>) = 3
  OBVIOUS
<1>4. \A i \in 1 .. 3 : s[i] = <<a, b, c>>[i]
  BY <1>2
<1>5. s = <<a, b, c>>
  <2> HIDE DEF s
  <2> QED BY <1>1, <1>3, <1>4, SeqEqual
<1> QED BY <1>5

LEMMA Join21 ==
  ASSUME NEW a, NEW b, NEW c PROVE <<a, b>> \o <<c>> = <<a, b, c>>
<1> DEFINE s == <<a, b>> \o <<c>>
<1>1. s \in Seq({a, b, c}) /\ Len(s) = 3
  OBVIOUS
<1>2. s[1] = a /\ s[2] = b /\ s[3] = c
  OBVIOUS
<1>3. <<a, b, c>> \in Seq({a, b, c}) /\ Len(<<a, b, c>>) = 3
  OBVIOUS
<1>4. \A i \in 1 .. 3 : s[i] = <<a, b, c>>[i]
  BY <1>2
<1>5. s = <<a, b, c>>
  <2> HIDE DEF s
  <2> QED BY <1>1, <1>3, <1>4, SeqEqual
<1> QED BY <1>5

LEMMA Join32 ==
  ASSUME NEW a, NEW b, NEW c, NEW d, NEW e PROVE <<a, b, c>> \o <<d, e>> = <<a, b, c, d, e>>
<1> DEFINE s == <<a, b, c>> \o <<d, e>>
<1>1. s \in Seq({a, b, c, d, e}) /\ Len(s) = 5
  OBVIOUS
<1>2. s[1] = a /\ s[2] = b /\ s[3] = c /\ s[4] = d /\ s[5] = e
  OBVIOUS
<1>3. <<a, b, c, d, e>> \in Seq({a, b, c, d, e}) /\ Len(<<a, b, c, d, e>>) = 5
  OBVIOUS
<1>4. \A i \in 1 .. 5 : s[i] = <<a, b, c, d, e>>[i]
  BY <1>2
<1>5. s = <<a, b, c, d, e>>
  <2> HIDE DEF s
  <2> QED BY <1>1, <1>3, <1>4, SeqEqual
<1> QED BY <1>5

LEMMA Joins ==
  /\ <<"save">> \o <<>> = <<"save">>
  /\ <<"save">> \o Issue = <<"save", "drop-recovery", "mint">>
  /\ <<"save">> \o Forget = <<"save", "drop-recovery">>
  /\ <<"save", "drop-challenges">> \o <<>> = <<"save", "drop-challenges">>
  /\ <<"save", "drop-challenges">> \o Forget =
       <<"save", "drop-challenges", "drop-recovery">>
  /\ <<"find-code", "use-code", "save">> \o <<>> =
       <<"find-code", "use-code", "save">>
  /\ <<"find-code", "use-code", "save">> \o Issue =
       <<"find-code", "use-code", "save", "drop-recovery", "mint">>
  /\ <<>> \o <<"save", "close">> = <<"save", "close">>
  /\ <<"drop-challenges">> \o <<"save", "close">> =
       <<"drop-challenges", "save", "close">>
<1>1. /\ <<"save">> \o <<>> = <<"save">>
      /\ <<"save", "drop-challenges">> \o <<>> = <<"save", "drop-challenges">>
      /\ <<"find-code", "use-code", "save">> \o <<>> =
           <<"find-code", "use-code", "save">>
      /\ <<>> \o <<"save", "close">> = <<"save", "close">>
  OBVIOUS
<1> QED BY <1>1, Join11, Join12, Join21, Join32 DEF Issue, Forget

(* What follows what: the rest of a plan is a plan of the same handler, a  *)
(* handler saves once, drops before it mints, burns before it creates.     *)
AfterSave == {<<>>, <<"drop-recovery", "mint">>, <<"drop-recovery">>,
              <<"drop-challenges">>, <<"drop-challenges", "drop-recovery">>,
              <<"drop-recovery", "drop-challenges">>, <<"close">>}
Later == {<<"mint">>, <<"use-code">>, <<"burn", "create", "send">>,
          <<"create", "send">>, <<"send">>, <<"open", "mail">>, <<"mail">>}
Before == [mint |-> "drop-recovery", create |-> "burn", open |-> "supersede",
           mail |-> "open", send |-> "create", close |-> "save"]

Orderly(op, todo) ==
  /\ todo \in Seq(Steps) /\ todo # <<>>
  /\ Tail(todo) = <<>> \/ Planned(op, Tail(todo))
  /\ Head(todo) = "save" => Tail(todo) \in AfterSave
  /\ Head(todo) \in {"mint", "cancel", "close"} => Tail(todo) = <<>>
  /\ Head(todo) = "drop-recovery" =>
       Tail(todo) \in {<<>>, <<"mint">>, <<"drop-challenges">>}
  /\ Head(todo) = "find-code" => Tail(todo) # <<>> /\ Head(Tail(todo)) = "use-code"
  /\ Tail(todo) # <<>> => LET next == Head(Tail(todo)) IN
       /\ next \in DOMAIN Before => Head(todo) = Before[next]
       /\ next = "use-code" => Head(todo) = "find-code"
       /\ next \notin {"limit", "find-code", "use-recovery", "supersede", "cancel"}
  /\ op \in {"start-totp", "admin-update", "password"} => todo = <<"save">>
  /\ Head(todo) = "save" =>
       op \in Disables \cup {"start-totp", "confirm-totp", "admin-disable", "password",
                           "admin-update", "confirm-email", "confirm-change"}
  /\ Head(todo) \in {"limit", "burn", "create", "send"} => op = "send-code"
  /\ Head(todo) \in {"find-code", "use-code"} => op \in {"confirm-email", "email-login"}
  /\ Head(todo) \in {"supersede", "open", "mail"} => op = "request-change"
  /\ Head(todo) = "close" => op = "confirm-change"
  /\ Head(todo) = "create" => Tail(todo) = <<"send">>
  /\ Head(todo) = "open" => Tail(todo) = <<"mail">>
  /\ op = "send-code" => Head(todo) \in {"limit", "burn", "create", "send"}
  /\ op = "request-change" => Head(todo) \in {"supersede", "open", "mail"}
  /\ op = "confirm-change" => Head(todo) \in {"drop-challenges", "save", "close"}
  /\ op \notin {"confirm-email", "confirm-change"} =>
       Tail(todo) \in AfterSave \cup Later

LEMMA Order ==
  ASSUME NEW op, NEW todo, Planned(op, todo)
  PROVE  Orderly(op, todo)
<1>1. CASE op \in {"start-totp", "admin-update", "password"}
  <2>1. CASE todo = <<"save">>
    BY <1>1, <2>1, List1 DEF Orderly, Before, AfterSave, Later, Steps, Disables, Planned, Issued
  <2> QED BY <1>1, <2>1 DEF Planned, Issued
<1>2. CASE op = "confirm-totp"
  <2>1. CASE todo = <<"save">>
    BY <1>2, <2>1, List1 DEF Orderly, Before, AfterSave, Later, Steps, Disables, Planned, Issued
  <2>2. CASE todo = <<"save", "drop-recovery", "mint">>
    BY <1>2, <2>2, List2, List3 DEF Orderly, Before, AfterSave, Later, Steps, Disables, Planned, Issued
  <2>3. CASE todo = <<"drop-recovery", "mint">>
    BY <1>2, <2>3, List1, List2 DEF Orderly, Before, AfterSave, Later, Steps, Disables, Planned, Issued
  <2>4. CASE todo = <<"mint">>
    BY <1>2, <2>4, List1 DEF Orderly, Before, AfterSave, Later, Steps, Disables, Planned, Issued
  <2> QED BY <1>2, <2>1, <2>2, <2>3, <2>4 DEF Planned, Issued
<1>3. CASE op = "disable-totp"
  <2>1. CASE todo = <<"save">>
    BY <1>3, <2>1, List1 DEF Orderly, Before, AfterSave, Later, Steps, Disables, Planned, Issued
  <2>2. CASE todo = <<"save", "drop-recovery">>
    BY <1>3, <2>2, List1, List2 DEF Orderly, Before, AfterSave, Later, Steps, Disables, Planned, Issued
  <2>3. CASE todo = <<"drop-recovery">>
    BY <1>3, <2>3, List1 DEF Orderly, Before, AfterSave, Later, Steps, Disables, Planned, Issued
  <2> QED BY <1>3, <2>1, <2>2, <2>3 DEF Planned, Issued
<1>4. CASE op = "disable-email"
  <2>1. CASE todo = <<"save", "drop-challenges">>
    BY <1>4, <2>1, List1, List2 DEF Orderly, Before, AfterSave, Later, Steps, Disables, Planned, Issued
  <2>2. CASE todo = <<"drop-challenges">>
    BY <1>4, <2>2, List1 DEF Orderly, Before, AfterSave, Later, Steps, Disables, Planned, Issued
  <2>3. CASE todo = <<"save", "drop-challenges", "drop-recovery">>
    BY <1>4, <2>3, List2, List3 DEF Orderly, Before, AfterSave, Later, Steps, Disables, Planned, Issued
  <2>4. CASE todo = <<"drop-challenges", "drop-recovery">>
    BY <1>4, <2>4, List1, List2 DEF Orderly, Before, AfterSave, Later, Steps, Disables, Planned, Issued
  <2>5. CASE todo = <<"drop-recovery">>
    BY <1>4, <2>5, List1 DEF Orderly, Before, AfterSave, Later, Steps, Disables, Planned, Issued
  <2> QED BY <1>4, <2>1, <2>2, <2>3, <2>4, <2>5 DEF Planned, Issued
<1>5. CASE op \in {"disable-all", "admin-disable"}
  <2>1. CASE todo = <<"save", "drop-recovery", "drop-challenges">>
    BY <1>5, <2>1, List2, List3 DEF Orderly, Before, AfterSave, Later, Steps, Disables, Planned, Issued
  <2>2. CASE todo = <<"drop-recovery", "drop-challenges">>
    BY <1>5, <2>2, List1, List2 DEF Orderly, Before, AfterSave, Later, Steps, Disables, Planned, Issued
  <2>3. CASE todo = <<"drop-challenges">>
    BY <1>5, <2>3, List1 DEF Orderly, Before, AfterSave, Later, Steps, Disables, Planned, Issued
  <2> QED BY <1>5, <2>1, <2>2, <2>3 DEF Planned, Issued
<1>6. CASE op = "send-code"
  <2>1. CASE todo = <<"limit", "burn", "create", "send">>
    BY <1>6, <2>1, List3, List4 DEF Orderly, Before, AfterSave, Later, Steps, Disables, Planned, Issued
  <2>2. CASE todo = <<"burn", "create", "send">>
    BY <1>6, <2>2, List2, List3 DEF Orderly, Before, AfterSave, Later, Steps, Disables, Planned, Issued
  <2>3. CASE todo = <<"create", "send">>
    BY <1>6, <2>3, List1, List2 DEF Orderly, Before, AfterSave, Later, Steps, Disables, Planned, Issued
  <2>4. CASE todo = <<"send">>
    BY <1>6, <2>4, List1 DEF Orderly, Before, AfterSave, Later, Steps, Disables, Planned, Issued
  <2> QED BY <1>6, <2>1, <2>2, <2>3, <2>4 DEF Planned, Issued
<1>7. CASE op = "confirm-email"
  <2>1. CASE todo = <<"find-code", "use-code", "save">>
    BY <1>7, <2>1, List2, List3 DEF Orderly, Before, AfterSave, Later, Steps, Disables, Planned, Issued
  <2>2. CASE todo = <<"use-code", "save">>
    BY <1>7, <2>2, List1, List2 DEF Orderly, Before, AfterSave, Later, Steps, Disables, Planned, Issued
  <2>3. CASE todo = <<"save">>
    BY <1>7, <2>3, List1 DEF Orderly, Before, AfterSave, Later, Steps, Disables, Planned, Issued
  <2>4. CASE todo = <<"find-code", "use-code", "save", "drop-recovery", "mint">>
    BY <1>7, <2>4, List4, List5 DEF Orderly, Before, AfterSave, Later, Steps, Disables, Planned, Issued
  <2>5. CASE todo = <<"use-code", "save", "drop-recovery", "mint">>
    BY <1>7, <2>5, List3, List4 DEF Orderly, Before, AfterSave, Later, Steps, Disables, Planned, Issued
  <2>6. CASE todo = <<"save", "drop-recovery", "mint">>
    BY <1>7, <2>6, List2, List3 DEF Orderly, Before, AfterSave, Later, Steps, Disables, Planned, Issued
  <2>7. CASE todo = <<"drop-recovery", "mint">>
    BY <1>7, <2>7, List1, List2 DEF Orderly, Before, AfterSave, Later, Steps, Disables, Planned, Issued
  <2>8. CASE todo = <<"mint">>
    BY <1>7, <2>8, List1 DEF Orderly, Before, AfterSave, Later, Steps, Disables, Planned, Issued
  <2> QED BY <1>7, <2>1, <2>2, <2>3, <2>4, <2>5, <2>6, <2>7, <2>8 DEF Planned, Issued
<1>8. CASE op = "email-login"
  <2>1. CASE todo = <<"find-code", "use-code">>
    BY <1>8, <2>1, List1, List2 DEF Orderly, Before, AfterSave, Later, Steps, Disables, Planned, Issued
  <2>2. CASE todo = <<"use-code">>
    BY <1>8, <2>2, List1 DEF Orderly, Before, AfterSave, Later, Steps, Disables, Planned, Issued
  <2> QED BY <1>8, <2>1, <2>2 DEF Planned, Issued
<1>9. CASE op = "regenerate"
  <2>1. CASE todo = <<"drop-recovery", "mint">>
    BY <1>9, <2>1, List1, List2 DEF Orderly, Before, AfterSave, Later, Steps, Disables, Planned, Issued
  <2>2. CASE todo = <<"mint">>
    BY <1>9, <2>2, List1 DEF Orderly, Before, AfterSave, Later, Steps, Disables, Planned, Issued
  <2> QED BY <1>9, <2>1, <2>2 DEF Planned, Issued
<1>10. CASE op = "recovery"
  <2>1. CASE todo = <<"use-recovery">>
    BY <1>10, <2>1, List1 DEF Orderly, Before, AfterSave, Later, Steps, Disables, Planned, Issued
  <2> QED BY <1>10, <2>1 DEF Planned, Issued
<1>11. CASE op = "request-change"
  <2>1. CASE todo = <<"supersede", "open", "mail">>
    BY <1>11, <2>1, List2, List3 DEF Orderly, Before, AfterSave, Later, Steps, Disables, Planned, Issued
  <2>2. CASE todo = <<"open", "mail">>
    BY <1>11, <2>2, List1, List2 DEF Orderly, Before, AfterSave, Later, Steps, Disables, Planned, Issued
  <2>3. CASE todo = <<"mail">>
    BY <1>11, <2>3, List1 DEF Orderly, Before, AfterSave, Later, Steps, Disables, Planned, Issued
  <2> QED BY <1>11, <2>1, <2>2, <2>3 DEF Planned, Issued
<1>12. CASE op = "confirm-change"
  <2>1. CASE todo = <<"drop-challenges", "save", "close">>
    BY <1>12, <2>1, List2, List3 DEF Orderly, Before, AfterSave, Later, Steps, Disables, Planned, Issued
  <2>2. CASE todo = <<"save", "close">>
    BY <1>12, <2>2, List1, List2 DEF Orderly, Before, AfterSave, Later, Steps, Disables, Planned, Issued
  <2>3. CASE todo = <<"close">>
    BY <1>12, <2>3, List1 DEF Orderly, Before, AfterSave, Later, Steps, Disables, Planned, Issued
  <2> QED BY <1>12, <2>1, <2>2, <2>3 DEF Planned, Issued
<1>13. CASE op \in {"cancel-change", "cancel-in-app"}
  <2>1. CASE todo = <<"cancel">>
    BY <1>13, <2>1, List1 DEF Orderly, Before, AfterSave, Later, Steps, Disables, Planned, Issued
  <2> QED BY <1>13, <2>1 DEF Planned, Issued
<1> QED BY <1>1, <1>2, <1>3, <1>4, <1>5, <1>6, <1>7, <1>8, <1>9, <1>10, <1>11, <1>12, <1>13 DEF Planned

(* What is still to come, from the statement about to run and the rest.    *)
LEMMA Rests ==
  ASSUME NEW op, NEW todo, Planned(op, todo)
  PROVE  /\ \A s : Remains(s, todo) <=> s = Head(todo) \/ Remains(s, Tail(todo))
         /\ Head(todo) \in {"save", "cancel"} => ~WillWrite(Tail(todo))
         /\ Head(todo) = "mint" => ~TouchesRecovery(Tail(todo))
         /\ Head(todo) = "drop-recovery" =>
              /\ ~Remains("drop-recovery", Tail(todo))
              /\ Remains("mint", Tail(todo)) => Head(Tail(todo)) = "mint"
         /\ Head(todo) = "save" => ~Remains("use-code", Tail(todo))
         /\ Remains("save", Tail(todo)) =>
              /\ op \in {"confirm-email", "confirm-change"}
              /\ Head(todo) \notin {"save", "mint", "drop-recovery", "cancel"}
<1>1. Orderly(op, todo)
  BY Order
<1>2. \A s : Remains(s, todo) <=> s = Head(todo) \/ Remains(s, Tail(todo))
  BY <1>1, RemainsRest DEF Orderly
<1>3. Head(todo) \in {"save", "cancel"} =>
        ~WillWrite(Tail(todo)) /\ ~Remains("use-code", Tail(todo))
  <2>1. Head(todo) \in {"save", "cancel"} => Tail(todo) \in AfterSave
    BY <1>1 DEF Orderly, AfterSave
  <2>2. \A l \in AfterSave : ~WillWrite(l) /\ ~Remains("use-code", l)
    BY Remains1, Remains2, RemainsNone DEF AfterSave, WillWrite
  <2> QED BY <2>1, <2>2
<1>4. Head(todo) = "mint" =>
        ~TouchesRecovery(Tail(todo)) /\ ~Remains("save", Tail(todo))
  BY <1>1, RemainsNone DEF Orderly, TouchesRecovery
<1>5. Head(todo) = "drop-recovery" =>
        /\ ~Remains("drop-recovery", Tail(todo)) /\ ~Remains("save", Tail(todo))
        /\ Remains("mint", Tail(todo)) => Head(Tail(todo)) = "mint"
  <2>1. Head(todo) = "drop-recovery" =>
          Tail(todo) \in {<<>>, <<"mint">>, <<"drop-challenges">>}
    BY <1>1 DEF Orderly
  <2>2. \A l \in {<<>>, <<"mint">>, <<"drop-challenges">>} :
          /\ ~Remains("drop-recovery", l) /\ ~Remains("save", l)
          /\ Remains("mint", l) => Head(l) = "mint"
    BY Remains1, RemainsNone, List1
  <2> QED BY <2>1, <2>2
<1>6. Remains("save", Tail(todo)) => op \in {"confirm-email", "confirm-change"}
  <2>1. \A l \in AfterSave : ~Remains("save", l)
    BY Remains1, Remains2, RemainsNone DEF AfterSave
  <2>2. \A l \in Later : ~Remains("save", l)
    BY Remains1, Remains2, Remains3 DEF Later
  <2> QED BY <1>1, <2>1, <2>2 DEF Orderly
<1>7. Head(todo) \in {"save", "cancel"} => ~Remains("save", Tail(todo))
  BY <1>3 DEF WillWrite
<1> QED BY <1>2, <1>3, <1>4, <1>5, <1>6, <1>7

-----------------------------------------------------------------------------
(* What a step of t does to the plans: t goes on or ends, and every other  *)
(* plan stays as it is, or loses its freshness if what it was made from is *)
(* no longer there.                                                        *)
Onward(t) ==
  /\ job' = [u \in Threads |-> job'[u]]
  /\ \/ job'[t] = Idle
     \/ /\ Tail(job[t].todo) # <<>>
        /\ job'[t] \in [op : {job[t].op}, save : {job'[t].save},
                        found : {job'[t].found}, fresh : BOOLEAN,
                        todo : {Tail(job[t].todo)}]
        /\ job'[t].fresh /\ WillWrite(Tail(job[t].todo)) => job[t].fresh
        /\ job'[t].save = (IF At(t, "save") THEN NoColumns ELSE job[t].save)
        /\ job'[t].found = job[t].found
             \/ Head(job[t].todo) \in {"find-code", "create", "open"}
  /\ \A u \in Threads \ {t} :
       /\ \/ job'[u] = job[u]
          \/ job[u] # Idle /\ job'[u] = [job[u] EXCEPT !.fresh = FALSE]
       /\ Fresh(job'[u]) =>
            /\ job'[u] = job[u] /\ row' = row
            /\ job[u].found \in Changes => change'[job[u].found] = change[job[u].found]

LEMMA Busies ==
  ASSUME Base, NEW t \in Busy
  PROVE  /\ t \in Threads /\ job[t] # Idle
         /\ job[t] \in [op : Ops, save : {job[t].save}, fresh : BOOLEAN,
                        todo : {job[t].todo}, found : {job[t].found}]
         /\ job[t].found \in
              {None} \cup Secrets \cup Batches \cup Codes \cup Changes
         /\ Planned(job[t].op, job[t].todo)
         /\ Orderly(job[t].op, job[t].todo)
         /\ job[t].op # "idle"
<1>1. t \in Threads /\ job[t] # Idle /\ Formed(job[t])
  BY DEF Busy, Base
<1>2. Planned(job[t].op, job[t].todo)
  BY <1>1 DEF Formed, FormedIn
<1>3. job[t].op # "idle"
  BY <1>2 DEF Planned
<1> QED BY <1>1, <1>2, <1>3, Order DEF Formed, FormedIn

LEMMA AdvanceOnward ==
  ASSUME Base, NEW t \in Busy, Advance(t)
  PROVE  Onward(t)
<1>1. t \in Threads /\ job' = [u \in Threads |-> job'[u]]
  BY Busies DEF Advance
<1>2. job'[t] = Rest(t)
  BY <1>1 DEF Advance
<1>5. ASSUME NEW u \in Threads \ {t}
      PROVE  /\ \/ job'[u] = job[u]
                \/ job[u] # Idle /\ job'[u] = [job[u] EXCEPT !.fresh = FALSE]
             /\ Fresh(job'[u]) =>
                  /\ job'[u] = job[u] /\ row' = row
                  /\ job[u].found \in Changes =>
                       change'[job[u].found] = change[job[u].found]
  <2>1. CASE u \notin Busy
    BY <2>1, <1>1 DEF Advance, Busy, Fresh
  <2>2. CASE u \in Busy /\ Disturbs(u)
    <3>1. job'[u] = [job[u] EXCEPT !.fresh = FALSE]
      BY <2>2, <1>1 DEF Advance
    <3>2. ~job'[u].fresh
      BY <2>2, <3>1, Busies
    <3> QED BY <2>2, <3>1, <3>2 DEF Fresh, Busy
  <2>3. CASE u \in Busy /\ ~Disturbs(u)
    <3>1. job'[u] = job[u]
      BY <2>3, <1>1 DEF Advance
    <3> QED BY <2>3, <3>1 DEF Fresh, Disturbs, Saving, WillWrite
  <2> QED BY <2>1, <2>2, <2>3
<1>3. CASE Tail(job[t].todo) = <<>>
  BY <1>1, <1>2, <1>3, <1>5 DEF Onward, Rest
<1>4. CASE Tail(job[t].todo) # <<>>
  <2> DEFINE j == job[t]
  <2>1. job'[t] = [j EXCEPT !.todo = Tail(j.todo),
                            !.fresh = WillWrite(Tail(j.todo)) => j.fresh,
                            !.save = IF At(t, "save") THEN NoColumns ELSE j.save]
    BY <1>2, <1>4 DEF Rest
  <2>2. job'[t] \in [op : {j.op}, save : {job'[t].save}, found : {job'[t].found},
                     fresh : BOOLEAN, todo : {Tail(j.todo)}]
        /\ job'[t].fresh = (WillWrite(Tail(j.todo)) => j.fresh)
        /\ job'[t].save = (IF At(t, "save") THEN NoColumns ELSE j.save)
        /\ job'[t].found = j.found
    <3> HIDE DEF j
    <3>1. j \in [op : Ops, save : {j.save}, fresh : BOOLEAN, todo : {j.todo},
                 found : {j.found}]
      BY Busies DEF j
    <3> QED BY <2>1, <3>1
  <2> QED BY <1>1, <1>4, <1>5, <2>2 DEF Onward
<1> QED BY <1>3, <1>4

-----------------------------------------------------------------------------
(* A plan as its handler makes it, from the row as it is.                  *)
Proper(j) ==
  /\ Formed(j) /\ j # Idle /\ j.fresh
  /\ Saving(j) => Decided(j)
  /\ Head(j.todo) \in {"save", "limit", "find-code", "drop-recovery", "use-recovery",
                       "supersede", "drop-challenges", "cancel"}
  /\ j.op = "start-totp" => j.save.secret \in FreshSecrets
  /\ j.op = "send-code" => j.save.addr = row.addr
  /\ j.op = "confirm-email" => Remains("use-code", j.todo)
  /\ TouchesRecovery(j.todo) /\ ~Saving(j) => row.enabled /\ Remains("mint", j.todo)

Begun(t, j) ==
  /\ Proper(j)
  /\ job[t] = Idle /\ job' = [job EXCEPT ![t] = j]
  /\ left > 0 /\ left' = left - 1
  /\ Witness("other", /\ TouchesRecovery(j.todo)
                      /\ \E u \in Busy : TouchesRecovery(job[u].todo))
  /\ UNCHANGED <<row, tables, crossed, proved, applied, detached>>

LEMMA BeginBegun ==
  ASSUME NEW t, NEW op, NEW save, NEW found, NEW todo,
         Begin(t, op, save, found, todo),
         NEW j, j = [op |-> op, save |-> save, found |-> found, fresh |-> TRUE,
                     todo |-> todo],
         Planned(op, todo), DOMAIN save \subseteq Columns,
         found \in {None} \cup Secrets \cup Batches \cup Codes \cup Changes,
         Saving(j) => Saved(j) /\ Decided(j),
         Head(todo) \in {"save", "limit", "find-code", "drop-recovery",
                         "use-recovery", "supersede", "drop-challenges", "cancel"},
         op \in {"send-code", "request-change"} =>
           \E a \in Addresses : save = [addr |-> a],
         Head(todo) = "cancel" \/ op = "confirm-change" =>
           found \in Changes /\ change[found] # NoChange,
         Head(todo) = "use-recovery" => found \in Batches,
         op = "start-totp" => save.secret \in FreshSecrets,
         op = "send-code" => save.addr = row.addr,
         op = "confirm-email" => Remains("use-code", todo),
         TouchesRecovery(todo) /\ ~Saving(j) => row.enabled /\ Remains("mint", todo)
  PROVE  \E k : Begun(t, k)
<1>1. /\ j.op = op /\ j.save = save /\ j.found = found /\ j.fresh /\ j.todo = todo
      /\ j \in [op : {op}, save : {save}, fresh : BOOLEAN, todo : {todo}, found : {found}]
  OBVIOUS
<1>2. op \in Ops /\ op # "idle"
  BY DEF Begin, Planned
<1>3. j # Idle
  BY <1>1, <1>2 DEF Idle
<1>4. Held(j)
  BY <1>1 DEF Held, HeldIn
<1>5. Formed(j)
  BY <1>1, <1>2, <1>4 DEF Formed, FormedIn, Held
<1>6. Proper(j)
  BY <1>1, <1>3, <1>5 DEF Proper
<1> QED BY <1>1, <1>6 DEF Begin, Begun

(* Each handler in turn: what it plans is what the row allows it to plan.  *)
Made(op, save, found, todo) ==
  [op |-> op, save |-> save, found |-> found, fresh |-> TRUE, todo |-> todo]

LEMMA EnrolBegun ==
  ASSUME Base, NEW t \in Threads, StartTotp(t) \/ ConfirmTotp(t) \/ ConfirmEmail(t)
  PROVE  \E k : Begun(t, k)
<1>1. CASE StartTotp(t)
  <2>1. PICK s \in FreshSecrets : Begin(t, "start-totp", [secret |-> s], None, <<"save">>)
    BY <1>1 DEF StartTotp
  <2> DEFINE j == Made("start-totp", [secret |-> s], None, <<"save">>)
  <2>2. s \in Secrets
    BY DEF FreshSecrets
  <2>3. Saved(j) /\ Decided(j)
    BY <1>1, <2>2 DEF Saved, Decided, DecidedOn, StartTotp, Made
  <2>4. Planned("start-totp", <<"save">>) /\ DOMAIN [secret |-> s] \subseteq Columns
    BY DEF Planned, Columns
  <2> QED BY <2>1, <2>2, <2>3, <2>4, BeginBegun, List1, Remains1 DEF Made, TouchesRecovery, Saving
<1>2. CASE ConfirmTotp(t)
  <2> DEFINE save == [totp |-> TRUE, enabled |-> TRUE]
             todo == IF row.enabled THEN <<"save">>
                     ELSE <<"save", "drop-recovery", "mint">>
             j == Made("confirm-totp", save, row.secret, todo)
  <2>1. <<"save">> \o Unless(row.enabled, Issue) = todo
    BY Joins DEF Unless
  <2>2. Begin(t, "confirm-totp", save, row.secret, todo)
    BY <1>2, <2>1 DEF ConfirmTotp
  <2>3. Remains("mint", todo) <=> ~row.enabled
    BY Remains1, Remains3
  <2>4. Head(todo) = "save" /\ Remains("save", todo)
    BY List1, List3, Remains1, Remains3
  <2>5. Planned("confirm-totp", todo) /\ DOMAIN save \subseteq Columns
    BY DEF Planned, Columns
  <2> HIDE DEF todo
  <2>6. ~row.totp /\ row.secret \in Secrets
    BY <1>2 DEF ConfirmTotp, Base, Types, Rows
  <2>7. Saved(j) /\ Decided(j)
    BY <2>3, <2>6 DEF Saved, Decided, DecidedOn, Made
  <2> QED BY <2>2, <2>4, <2>5, <2>6, <2>7, BeginBegun DEF Made, TouchesRecovery, Saving
<1>3. CASE ConfirmEmail(t)
  <2> DEFINE save == [email |-> TRUE, enabled |-> TRUE]
             todo == IF row.enabled THEN <<"find-code", "use-code", "save">>
                     ELSE <<"find-code", "use-code", "save", "drop-recovery", "mint">>
             j == Made("confirm-email", save, None, todo)
  <2>1. <<"find-code", "use-code", "save">> \o Unless(row.enabled, Issue) = todo
    BY Joins DEF Unless
  <2>2. Begin(t, "confirm-email", save, None, todo)
    BY <1>3, <2>1 DEF ConfirmEmail
  <2>3. Remains("mint", todo) <=> ~row.enabled
    BY Remains3, Remains5
  <2>4. Head(todo) = "find-code" /\ Remains("save", todo) /\ Remains("use-code", todo)
    BY List3, List5, Remains3, Remains5
  <2>5. Planned("confirm-email", todo) /\ DOMAIN save \subseteq Columns
    BY DEF Planned, Columns
  <2> HIDE DEF todo
  <2>6. Saved(j) /\ Decided(j)
    BY <2>3 DEF Saved, Decided, DecidedOn, Made
  <2> QED BY <2>2, <2>4, <2>5, <2>6, BeginBegun DEF Made, TouchesRecovery, Saving
<1> QED BY <1>1, <1>2, <1>3

LEMMA DisableBegun ==
  ASSUME Base, NEW t \in Threads,
         DisableTotp(t) \/ DisableEmail(t) \/ DisableAll(t) \/ AdminDisable(t)
  PROVE  \E k : Begun(t, k)
<1>1. CASE DisableTotp(t)
  <2> DEFINE save == [totp |-> FALSE, secret |-> None, enabled |-> row.email]
             todo == IF row.email THEN <<"save">> ELSE <<"save", "drop-recovery">>
             j == Made("disable-totp", save, None, todo)
  <2>1. <<"save">> \o Unless(row.email, Forget) = todo
    BY Joins DEF Unless
  <2>2. Begin(t, "disable-totp", save, None, todo)
    BY <1>1, <2>1 DEF DisableTotp
  <2>3. Remains("drop-recovery", todo) <=> ~row.email
    BY Remains1, Remains2
  <2>4. Head(todo) = "save" /\ Remains("save", todo)
    BY List1, List2, Remains1, Remains2
  <2>5. Planned("disable-totp", todo) /\ DOMAIN save \subseteq Columns
    BY DEF Planned, Columns
  <2> HIDE DEF todo
  <2>6. row.email \in BOOLEAN /\ (row.required => row.email)
    BY <1>1 DEF DisableTotp, Base, Types, Rows
  <2>7. Saved(j) /\ Decided(j)
    BY <2>3, <2>6 DEF Saved, Decided, DecidedOn, Made
  <2> QED BY <2>2, <2>4, <2>5, <2>7, BeginBegun DEF Made, TouchesRecovery, Saving
<1>2. CASE DisableEmail(t)
  <2> DEFINE save == [email |-> FALSE, enabled |-> row.totp]
             todo == IF row.totp THEN <<"save", "drop-challenges">>
                     ELSE <<"save", "drop-challenges", "drop-recovery">>
             j == Made("disable-email", save, None, todo)
  <2>1. <<"save", "drop-challenges">> \o Unless(row.totp, Forget) = todo
    BY Joins DEF Unless
  <2>2. Begin(t, "disable-email", save, None, todo)
    BY <1>2, <2>1 DEF DisableEmail
  <2>3. Remains("drop-recovery", todo) <=> ~row.totp
    BY Remains2, Remains3
  <2>4. Head(todo) = "save" /\ Remains("save", todo)
    BY List2, List3, Remains2, Remains3
  <2>5. Planned("disable-email", todo) /\ DOMAIN save \subseteq Columns
    BY DEF Planned, Columns
  <2> HIDE DEF todo
  <2>6. row.totp \in BOOLEAN /\ (row.required => row.totp)
    BY <1>2 DEF DisableEmail, Base, Types, Rows
  <2>7. Saved(j) /\ Decided(j)
    BY <2>3, <2>6 DEF Saved, Decided, DecidedOn, Made
  <2> QED BY <2>2, <2>4, <2>5, <2>7, BeginBegun DEF Made, TouchesRecovery, Saving
<1> DEFINE all == <<"save", "drop-recovery", "drop-challenges">>
<1>3. Head(all) = "save" /\ Remains("save", all)
  BY List3, Remains3
<1>4. CASE DisableAll(t)
  <2> DEFINE j == Made("disable-all", Cleared, None, all)
  <2>1. Begin(t, "disable-all", Cleared, None, all)
    BY <1>4 DEF DisableAll
  <2>2. Saved(j) /\ Decided(j)
    BY <1>4 DEF DisableAll, Saved, Decided, DecidedOn, Made
  <2>3. Planned("disable-all", all) /\ DOMAIN Cleared \subseteq Columns
    BY DEF Planned, Cleared, Columns
  <2> HIDE DEF all
  <2> QED BY <1>3, <2>1, <2>2, <2>3, BeginBegun DEF Made, TouchesRecovery, Saving
<1>5. CASE AdminDisable(t)
  <2> DEFINE save == [totp |-> FALSE, email |-> FALSE, enabled |-> FALSE,
                      secret |-> None, required |-> FALSE]
             j == Made("admin-disable", save, None, all)
  <2>1. [f \in DOMAIN Cleared \cup {"required"} |->
           IF f = "required" THEN FALSE ELSE Cleared[f]] = save
    <3>1. DOMAIN Cleared \cup {"required"} = DOMAIN save
      BY DEF Cleared
    <3>2. \A f \in DOMAIN save :
            (IF f = "required" THEN FALSE ELSE Cleared[f]) = save[f]
      <4>1. /\ Cleared["totp"] = FALSE /\ Cleared["email"] = FALSE
            /\ Cleared["enabled"] = FALSE /\ Cleared["secret"] = None
            /\ save["totp"] = FALSE /\ save["email"] = FALSE
            /\ save["enabled"] = FALSE /\ save["secret"] = None
            /\ save["required"] = FALSE
        BY DEF Cleared
      <4>2. DOMAIN save = {"totp", "email", "enabled", "secret", "required"}
        OBVIOUS
      <4> HIDE DEF save
      <4> QED BY <4>1, <4>2
    <3> HIDE DEF save
    <3>3. save = [f \in DOMAIN save |-> save[f]]
      BY DEF save
    <3> QED BY <3>1, <3>2, <3>3
  <2>2. Begin(t, "admin-disable", save, None, all)
    BY <1>5, <2>1 DEF AdminDisable
  <2>3. Saved(j) /\ Decided(j)
    BY DEF Saved, Decided, DecidedOn, Made
  <2>4. Planned("admin-disable", all) /\ DOMAIN save \subseteq Columns
    BY DEF Planned, Columns
  <2> HIDE DEF all
  <2> QED BY <1>3, <2>2, <2>3, <2>4, BeginBegun DEF Made, TouchesRecovery, Saving
<1> QED BY <1>1, <1>2, <1>4, <1>5

(* The same for a handler that saves nothing.                              *)
LEMMA PlainBegun ==
  ASSUME NEW t, NEW op, NEW save, NEW found, NEW todo,
         Begin(t, op, save, found, todo), ~Remains("save", todo),
         Planned(op, todo), DOMAIN save \subseteq Columns,
         found \in {None} \cup Secrets \cup Batches \cup Codes \cup Changes,
         Head(todo) \in {"save", "limit", "find-code", "drop-recovery",
                         "use-recovery", "supersede", "drop-challenges", "cancel"},
         op \in {"send-code", "request-change"} =>
           \E a \in Addresses : save = [addr |-> a],
         Head(todo) = "cancel" => found \in Changes /\ change[found] # NoChange,
         Head(todo) = "use-recovery" => found \in Batches,
         op = "send-code" => save.addr = row.addr,
         op \notin {"start-totp", "confirm-email", "confirm-change"},
         TouchesRecovery(todo) => row.enabled /\ Remains("mint", todo)
  PROVE  \E k : Begun(t, k)
<1> DEFINE j == Made(op, save, found, todo)
<1>1. j = [op |-> op, save |-> save, found |-> found, fresh |-> TRUE, todo |-> todo]
  BY DEF Made
<1>2. j.todo = todo
  BY <1>1
<1> HIDE DEF j
<1>3. ~Saving(j)
  BY <1>2 DEF Saving
<1> QED BY <1>1, <1>3, BeginBegun

LEMMA TwoFields ==
  ASSUME NEW g, NEW a, NEW b, g["addr"] = a, g["email"] = b
  PROVE  [f \in {"addr", "email"} |-> g[f]] = [addr |-> a, email |-> b]
<1> DEFINE x == [f \in {"addr", "email"} |-> g[f]]
           y == [addr |-> a, email |-> b]
<1>1. /\ x = [f \in {"addr", "email"} |-> x[f]]
      /\ y = [f \in {"addr", "email"} |-> y[f]]
  OBVIOUS
<1>2. x["addr"] = y["addr"] /\ x["email"] = y["email"]
  OBVIOUS
<1> HIDE DEF x, y
<1>3. \A f \in {"addr", "email"} : x[f] = y[f]
  BY <1>2
<1>4. x = y
  BY <1>1, <1>3
<1> QED BY <1>4 DEF x, y

LEMMA SaveBegun ==
  ASSUME Base, NEW t \in Threads,
         AdminUpdate(t) \/ SavePassword(t) \/ RequestChange(t) \/ ConfirmChange(t)
  PROVE  \E k : Begun(t, k)
<1>1. CASE AdminUpdate(t)
  <2>1. PICK b \in BOOLEAN : Begin(t, "admin-update", [row EXCEPT !.required = b], None, <<"save">>)
    BY <1>1 DEF AdminUpdate
  <2> DEFINE save == [row EXCEPT !.required = b]
             j == Made("admin-update", save, None, <<"save">>)
  <2>2. save \in Rows /\ DOMAIN save = Columns
    BY DEF Base, Types, Rows, Columns
  <2>3. Saved(j) /\ Decided(j)
    BY <2>2 DEF Saved, Decided, DecidedOn, Made
  <2>4. Planned("admin-update", <<"save">>)
    BY DEF Planned
  <2> HIDE DEF save
  <2> QED BY <2>1, <2>2, <2>3, <2>4, BeginBegun, List1, Remains1 DEF Made, TouchesRecovery, Saving, save
<1>2. CASE SavePassword(t)
  <2> DEFINE j == Made("password", row, None, <<"save">>)
  <2>1. Begin(t, "password", row, None, <<"save">>)
    BY <1>2 DEF SavePassword
  <2>2. row \in Rows /\ DOMAIN row = Columns
    BY DEF Base, Types, Rows, Columns
  <2>3. Saved(j) /\ Decided(j)
    BY <2>2 DEF Saved, Decided, DecidedOn, Made
  <2>4. Planned("password", <<"save">>)
    BY DEF Planned
  <2> QED BY <2>1, <2>2, <2>3, <2>4, BeginBegun, List1, Remains1 DEF Made, TouchesRecovery, Saving
<1>3. CASE RequestChange(t)
  <2>1. PICK a \in Addresses :
          Begin(t, "request-change", [addr |-> a], None, <<"supersede", "open", "mail">>)
    BY <1>3 DEF RequestChange
  <2> DEFINE todo == <<"supersede", "open", "mail">>
             save == [addr |-> a]
  <2>2. /\ Head(todo) = "supersede" /\ ~Remains("save", todo)
        /\ ~Remains("mint", todo) /\ ~Remains("drop-recovery", todo)
    BY List3, Remains3
  <2>3. Planned("request-change", todo)
    BY DEF Planned
  <2>4. DOMAIN save \subseteq Columns /\ \E b \in Addresses : save = [addr |-> b]
    BY DEF Columns
  <2>5. Begin(t, "request-change", save, None, todo)
    BY <2>1
  <2> HIDE DEF todo, save
  <2> QED BY <2>2, <2>3, <2>4, <2>5, PlainBegun DEF TouchesRecovery
<1>4. CASE ConfirmChange(t)
  <2> DEFINE full(q) == [addr |-> change[q].new, email |-> FALSE, enabled |-> row.totp]
             saved == IF ~row.email THEN {"addr"}
                      ELSE IF row.totp THEN {"addr", "email"} ELSE {"addr", "email", "enabled"}
             save(q) == [f \in saved |-> full(q)[f]]
             todo == IF row.email THEN <<"drop-challenges", "save", "close">>
                     ELSE <<"save", "close">>
             j(q) == Made("confirm-change", save(q), q, todo)
  <2>1. Unless(~row.email, <<"drop-challenges">>) \o <<"save", "close">> = todo
    BY Joins DEF Unless
  <2>2. PICK q \in Changes :
          Open(q) /\ Begin(t, "confirm-change", save(q), q, todo)
    <3>1. \A q : DOMAIN full(q) = {"addr", "email", "enabled"}
      OBVIOUS
    <3> QED BY <1>4, <2>1, <3>1 DEF ConfirmChange, Moving
  <2>3. /\ Head(todo) \in {"save", "drop-challenges"} /\ Remains("save", todo)
        /\ ~Remains("mint", todo) /\ ~Remains("drop-recovery", todo)
    BY List2, List3, Remains2, Remains3
  <2>4. Planned("confirm-change", todo) /\ DOMAIN save(q) \subseteq Columns
    BY DEF Planned, Columns
  <2> HIDE DEF todo
  <2>5. change[q] # NoChange /\ ~change[q].confirmed /\ change[q].new \in Addresses
    BY <2>2 DEF Open, Base, Types, Requests
  <2>6. \E a \in Addresses :
          save(q) \in {[addr |-> a], [addr |-> a, email |-> FALSE],
                       [addr |-> a, email |-> FALSE, enabled |-> FALSE]}
    <3> DEFINE a == change[q].new
    <3>1. CASE ~row.email
      <4>1. save(q) = [addr |-> a]
        BY <3>1
      <4> QED BY <4>1, <2>5
    <3>2. CASE row.email /\ row.totp
      <4>1. save(q) = [addr |-> a, email |-> FALSE]
        <5>1. saved = {"addr", "email"}
          BY <3>2
        <5>2. PICK F : F = full(q)
          OBVIOUS
        <5>3. F["addr"] = a /\ F["email"] = FALSE
          BY <5>2
        <5>4. save(q) = [f \in {"addr", "email"} |-> F[f]]
          BY <5>1, <5>2
        <5>5. [f \in {"addr", "email"} |-> F[f]] = [addr |-> a, email |-> FALSE]
          BY <5>3, TwoFields
        <5> QED BY <5>4, <5>5
      <4> QED BY <4>1, <2>5
    <3>3. CASE row.email /\ ~row.totp
      <4>1. row.totp = FALSE
        BY <3>3 DEF Base, Types, Rows
      <4>2. save(q) = [addr |-> a, email |-> FALSE, enabled |-> FALSE]
        BY <3>3, <4>1
      <4> QED BY <4>2, <2>5
    <3> QED BY <3>1, <3>2, <3>3
  <2>7. Saved(j(q))
    BY <2>6 DEF Saved, Made
  <2>8. Decided(j(q))
    <3>1. /\ "email" \in DOMAIN save(q) <=> row.email
          /\ "enabled" \notin DOMAIN save(q) <=> ~row.email \/ row.totp
      OBVIOUS
    <3> HIDE DEF save
    <3> QED BY <2>5, <3>1 DEF Decided, DecidedOn, Made
  <2> HIDE DEF save
  <2> QED BY <2>2, <2>3, <2>4, <2>5, <2>7, <2>8, BeginBegun DEF Made, TouchesRecovery, Saving
<1> QED BY <1>1, <1>2, <1>3, <1>4

LEMMA OtherBegun ==
  ASSUME Base, NEW t \in Threads,
         \/ StartEmail(t) \/ Resend(t) \/ EmailLogin(t) \/ Regenerate(t) \/ Recovery(t)
         \/ CancelChange(t) \/ CancelInApp(t)
  PROVE  \E k : Begun(t, k)
<1>0. DOMAIN NoColumns \subseteq Columns
  BY DEF NoColumns
<1>1. CASE StartEmail(t) \/ Resend(t)
  <2> DEFINE todo == <<"limit", "burn", "create", "send">>
  <2>1. Begin(t, "send-code", [addr |-> row.addr], None, todo)
    BY <1>1 DEF StartEmail, Resend, MailCode
  <2>2. /\ Head(todo) = "limit" /\ ~Remains("save", todo)
        /\ ~Remains("mint", todo) /\ ~Remains("drop-recovery", todo)
    BY List4, Remains4
  <2>3. Planned("send-code", todo) /\ DOMAIN [addr |-> row.addr] \subseteq Columns
    BY DEF Planned, Columns
  <2>4. row.addr \in Addresses
    BY DEF Base, Types, Rows
  <2> HIDE DEF todo
  <2> QED BY <2>1, <2>2, <2>3, <2>4, PlainBegun DEF TouchesRecovery
<1>2. CASE EmailLogin(t)
  <2> DEFINE todo == <<"find-code", "use-code">>
  <2>1. Begin(t, "email-login", NoColumns, None, todo)
    BY <1>2 DEF EmailLogin
  <2>2. /\ Head(todo) = "find-code" /\ ~Remains("save", todo)
        /\ ~Remains("mint", todo) /\ ~Remains("drop-recovery", todo)
    BY List2, Remains2
  <2>3. Planned("email-login", todo)
    BY DEF Planned
  <2> HIDE DEF todo
  <2> QED BY <1>0, <2>1, <2>2, <2>3, PlainBegun DEF TouchesRecovery
<1>3. CASE Regenerate(t)
  <2> DEFINE todo == <<"drop-recovery", "mint">>
  <2>1. Begin(t, "regenerate", NoColumns, None, todo) /\ row.enabled
    BY <1>3 DEF Regenerate, Issue
  <2>2. /\ Head(todo) = "drop-recovery" /\ ~Remains("save", todo)
        /\ Remains("mint", todo)
    BY List2, Remains2
  <2>3. Planned("regenerate", todo)
    BY DEF Planned, Issued
  <2> HIDE DEF todo
  <2> QED BY <1>0, <2>1, <2>2, <2>3, PlainBegun DEF TouchesRecovery
<1>4. CASE Recovery(t)
  <2> DEFINE todo == <<"use-recovery">>
  <2>1. PICK b \in Batches : Begin(t, "recovery", NoColumns, b, todo)
    BY <1>4 DEF Recovery
  <2>2. /\ Head(todo) = "use-recovery" /\ ~Remains("save", todo)
        /\ ~Remains("mint", todo) /\ ~Remains("drop-recovery", todo)
    BY List1, Remains1
  <2>3. Planned("recovery", todo)
    BY DEF Planned
  <2> HIDE DEF todo
  <2> QED BY <1>0, <2>1, <2>2, <2>3, PlainBegun DEF TouchesRecovery
<1>5. CASE CancelChange(t) \/ CancelInApp(t)
  <2> DEFINE todo == <<"cancel">>
  <2>1. PICK op \in {"cancel-change", "cancel-in-app"}, q \in Changes :
          Open(q) /\ Begin(t, op, NoColumns, q, todo)
    BY <1>5 DEF CancelChange, CancelInApp
  <2>2. /\ Head(todo) = "cancel" /\ ~Remains("save", todo)
        /\ ~Remains("mint", todo) /\ ~Remains("drop-recovery", todo)
    BY List1, Remains1
  <2>3. Planned(op, todo)
    BY DEF Planned
  <2>4. change[q] # NoChange
    BY <2>1 DEF Open
  <2> HIDE DEF todo
  <2> QED BY <1>0, <2>1, <2>2, <2>3, <2>4, PlainBegun DEF TouchesRecovery
<1> QED BY <1>1, <1>2, <1>3, <1>4, <1>5

LEMMA StartBegun ==
  ASSUME Base, NEW t \in Threads, Start(t)
  PROVE  \E k : Begun(t, k)
BY EnrolBegun, DisableBegun, SaveBegun, OtherBegun DEF Start

-----------------------------------------------------------------------------
(* The statements move the plans the same way, whichever they are.         *)
LEMMA AbandonOnward ==
  ASSUME Base, NEW t \in Busy, Abandon(t), row' = row, change' = change
  PROVE  Onward(t)
BY Busies DEF Abandon, Onward, Base, Busy, Fresh

LEMMA MovedOnward ==
  ASSUME Base, NEW t \in Busy, NEW f,
         job' = [job EXCEPT ![t].found = f, ![t].todo = Tail(job[t].todo)],
         Head(job[t].todo) \in {"find-code", "create", "open"}, row' = row,
         \A u \in Busy : job[u].found \in Changes =>
           change'[job[u].found] = change[job[u].found]
  PROVE  Onward(t) /\ job'[t] # Idle /\ job'[t].found = f
<1> DEFINE j == job[t]
<1>1. /\ t \in Threads /\ Orderly(j.op, j.todo) /\ j.op # "idle"
      /\ j \in [op : Ops, save : {j.save}, fresh : BOOLEAN, todo : {j.todo},
                found : {j.found}]
  BY Busies
<1>2. ~At(t, "save") /\ Tail(j.todo) # <<>>
  BY <1>1, List1 DEF Orderly, At
<1>3. /\ job' = [u \in Threads |-> job'[u]]
      /\ \A u \in Threads \ {t} : job'[u] = job[u]
      /\ job'[t] = [j EXCEPT !.found = f, !.todo = Tail(j.todo)]
  BY <1>1 DEF Base
<1>4. /\ job'[t] \in [op : {j.op}, save : {job'[t].save}, found : {job'[t].found},
                      fresh : BOOLEAN, todo : {Tail(j.todo)}]
      /\ job'[t].save = j.save /\ job'[t].fresh = j.fresh
      /\ job'[t].found = f /\ job'[t].op = j.op
  <2> HIDE DEF j
  <2> QED BY <1>1, <1>3
<1>5. job'[t] # Idle
  BY <1>1, <1>4 DEF Idle
<1>6. (WillWrite(Tail(j.todo)) /\ j.fresh) => j.fresh
  OBVIOUS
<1> QED BY <1>1, <1>2, <1>3, <1>4, <1>5 DEF Onward, Fresh, Busy

(* What outlives every statement: a challenge that is gone stays gone and  *)
(* one that has been delivered stays delivered, while it is remembered; a  *)
(* request of a change is never taken away.                                *)
Lasting ==
  /\ \A c \in Recall("found") \cap Codes :
       challenge[c] = None \/ challenge[c].at # None =>
         challenge'[c] = None \/ challenge'[c].at # None
  /\ \A q \in Changes : change[q] # NoChange => change'[q] # NoChange

LEMMA FreshChange ==
  ASSUME FreshChanges # {}
  PROVE  LET q == CHOOSE x \in FreshChanges : TRUE
         IN q \in Changes /\ change[q] = NoChange /\ q \notin Recall("found")
BY DEF FreshChanges

LEMMA FreshCode ==
  ASSUME FreshCodes # {}
  PROVE  LET c == CHOOSE x \in FreshCodes : TRUE
         IN c \in Codes /\ challenge[c] = None /\ c \notin Recall("found")
BY DEF FreshCodes

LEMMA StatementOnward ==
  ASSUME Base, NEW t \in Threads, Statement(t)
  PROVE  t \in Busy /\ Onward(t)
<1>1. t \in Busy
  BY DEF Statement, At, Save, DropRecovery, Mint, UseRecovery, DropChallenges,
         CheckLimit, Burn, CreateCode, SendMail, FindCode, UseCode, Supersede,
         OpenChange, MailChange, CloseChange, Cancel
<1>2. CASE Advance(t)
  BY <1>1, <1>2, AdvanceOnward
<1>3. CASE UseRecovery(t) \/ CheckLimit(t) \/ UseCode(t)
  BY <1>1, <1>2, <1>3, AbandonOnward DEF UseRecovery, CheckLimit, UseCode, tables
<1>4. CASE FindCode(t)
  <2>1. CASE Abandon(t)
    BY <1>1, <1>4, <2>1, AbandonOnward DEF FindCode, tables
  <2>2. CASE \E c \in Codes : job' = [job EXCEPT ![t].found = c, ![t].todo = Tail(job[t].todo)]
    BY <1>1, <1>4, <2>2, MovedOnward DEF FindCode, tables, At
  <2> QED BY <1>4, <2>1, <2>2 DEF FindCode
<1>5. CASE CreateCode(t)
  BY <1>1, <1>5, MovedOnward DEF CreateCode, At
<1>6. CASE OpenChange(t)
  <2> DEFINE q == CHOOSE x \in FreshChanges : TRUE
  <2>1. q \in Changes /\ q \notin Recall("found")
    BY <1>6, FreshChange DEF OpenChange
  <2>2. /\ change' = [change EXCEPT ![q] = [NoChange EXCEPT !.new = job[t].save.addr]]
        /\ job' = [job EXCEPT ![t].found = q, ![t].todo = Tail(job[t].todo)]
        /\ At(t, "open") /\ row' = row
    BY <1>6 DEF OpenChange
  <2>3. change = [r \in Changes |-> change[r]]
    BY DEF Base, Types
  <2> HIDE DEF q
  <2>4. \A u \in Busy : job[u].found \in Changes =>
          change'[job[u].found] = change[job[u].found]
    BY <2>1, <2>2, <2>3 DEF Recall
  <2> QED BY <1>1, <2>2, <2>4, MovedOnward DEF At
<1> QED BY <1>1, <1>2, <1>3, <1>4, <1>5, <1>6
      DEF Statement, Save, DropRecovery, Mint, DropChallenges, Burn, SendMail,
          Supersede, MailChange, CloseChange, Cancel

-----------------------------------------------------------------------------
(* What a save does to the row, handler by handler.                        *)
Same(fields) == \A f \in fields : row'[f] = row[f]

LEMMA SaveColumns ==
  ASSUME Base, NEW t \in Threads, Save(t)
  PROVE  /\ row' = [f \in Columns |-> row'[f]]
         /\ \A f \in Columns :
              row'[f] = IF f \in DOMAIN job[t].save THEN job[t].save[f] ELSE row[f]
BY DEF Save

LEMMA RowIs ==
  ASSUME NEW r, r = [f \in Columns |-> r[f]], r.totp \in BOOLEAN,
         r.email \in BOOLEAN, r.enabled \in BOOLEAN, r.required \in BOOLEAN,
         r.secret \in Secrets \cup {None}, r.addr \in Addresses
  PROVE  r \in Rows
BY DEF Columns, Rows

LEMMA SaveRow ==
  ASSUME Base, NEW t \in Threads, Save(t)
  PROVE  LET j == job[t] IN
         /\ row' \in Rows /\ Saved(j)
         /\ j.op = "start-totp" =>
              /\ row'.secret = j.save.secret /\ j.save.secret \in Secrets
              /\ Same(Columns \ {"secret"})
         /\ j.op = "confirm-totp" =>
              row'.totp /\ row'.enabled /\ Same(Columns \ {"totp", "enabled"})
         /\ j.op = "disable-totp" =>
              /\ ~row'.totp /\ row'.secret = None /\ row'.enabled = j.save.enabled
              /\ Same({"email", "required", "addr"})
         /\ j.op = "disable-email" =>
              /\ ~row'.email /\ row'.enabled = j.save.enabled
              /\ Same(Columns \ {"email", "enabled"})
         /\ j.op \in {"disable-all", "admin-disable"} =>
              /\ ~row'.totp /\ ~row'.email /\ ~row'.enabled /\ row'.secret = None
              /\ Same({"addr"})
              /\ j.op = "disable-all" => Same({"required"})
         /\ j.op \in {"admin-update", "password"} => row' = j.save
         /\ j.op = "confirm-email" =>
              row'.email /\ row'.enabled /\ Same(Columns \ {"email", "enabled"})
         /\ j.op = "confirm-change" =>
              /\ row'.addr = j.save.addr
              /\ IF "email" \in DOMAIN j.save THEN ~row'.email
                 ELSE row'.email = row.email
              /\ IF "enabled" \in DOMAIN j.save THEN ~row'.enabled
                 ELSE row'.enabled = row.enabled
              /\ Same({"totp", "required", "secret"})
<1> DEFINE j == job[t]
           save == j.save
<1>1. /\ t \in Busy /\ Head(j.todo) = "save"
      /\ Formed(j) /\ j # Idle /\ Orderly(j.op, j.todo)
  BY Busies DEF Save, At, Busy, Base
<1>2. Saved(j)
  <2>1. Planned(j.op, j.todo)
    BY <1>1 DEF Formed, FormedIn
  <2>2. Saving(j)
    BY <1>1, <2>1, Rests DEF Saving
  <2> QED BY <1>1, <2>2 DEF Formed, FormedIn
<1>3. /\ row \in Rows /\ row = [f \in Columns |-> row[f]]
      /\ row.totp \in BOOLEAN /\ row.email \in BOOLEAN /\ row.enabled \in BOOLEAN
      /\ row.required \in BOOLEAN /\ row.secret \in Secrets \cup {None}
      /\ row.addr \in Addresses
  BY DEF Base, Types, Rows, Columns
<1>4. /\ row'.totp = IF "totp" \in DOMAIN save THEN save.totp ELSE row.totp
      /\ row'.email = IF "email" \in DOMAIN save THEN save.email ELSE row.email
      /\ row'.enabled = IF "enabled" \in DOMAIN save THEN save.enabled ELSE row.enabled
      /\ row'.required = IF "required" \in DOMAIN save THEN save.required ELSE row.required
      /\ row'.secret = IF "secret" \in DOMAIN save THEN save.secret ELSE row.secret
      /\ row'.addr = IF "addr" \in DOMAIN save THEN save.addr ELSE row.addr
  BY SaveColumns DEF Columns
<1>5. row' = [f \in Columns |-> row'[f]]
  BY SaveColumns
<1>6. j.op \in Disables \cup {"start-totp", "confirm-totp", "admin-disable", "password",
                             "admin-update", "confirm-email", "confirm-change"}
  BY <1>1 DEF Orderly
<1>7. \A F : Same(F) <=> \A f \in F : row'[f] = row[f]
  BY DEF Same
<1> HIDE DEF save
<1>8. CASE j.op = "start-totp"
  <2>0. PICK s \in Secrets : save = [secret |-> s]
    BY <1>2, <1>8 DEF Saved, save
  <2>1. save.secret \in Secrets /\ DOMAIN save = {"secret"}
    BY <2>0
  <2>2. row' \in Rows
    BY <1>3, <1>4, <1>5, <2>1, RowIs
  <2> QED BY <1>2, <1>4, <1>8, <2>1, <2>2 DEF Same, Columns, save
<1>9. CASE j.op = "confirm-totp"
  <2>1. save.totp = TRUE /\ save.enabled = TRUE /\ DOMAIN save = {"totp", "enabled"}
    BY <1>2, <1>9 DEF Saved, save
  <2>2. row' \in Rows
    BY <1>3, <1>4, <1>5, <2>1, RowIs
  <2> QED BY <1>2, <1>4, <1>9, <2>1, <2>2 DEF Same, Columns, save
<1>10. CASE j.op = "disable-totp"
  <2>0. PICK b \in BOOLEAN : save = [totp |-> FALSE, secret |-> None, enabled |-> b]
    BY <1>2, <1>10 DEF Saved, save
  <2>1. /\ save.totp = FALSE /\ save.secret = None /\ save.enabled \in BOOLEAN
        /\ DOMAIN save = {"totp", "secret", "enabled"}
    BY <2>0
  <2>2. row' \in Rows
    BY <1>3, <1>4, <1>5, <2>1, RowIs
  <2> QED BY <1>2, <1>4, <1>10, <2>1, <2>2 DEF Same, Columns, save
<1>11. CASE j.op = "disable-email"
  <2>0. PICK b \in BOOLEAN : save = [email |-> FALSE, enabled |-> b]
    BY <1>2, <1>11 DEF Saved, save
  <2>1. save.email = FALSE /\ save.enabled \in BOOLEAN /\ DOMAIN save = {"email", "enabled"}
    BY <2>0
  <2>2. row' \in Rows
    BY <1>3, <1>4, <1>5, <2>1, RowIs
  <2> QED BY <1>2, <1>4, <1>11, <2>1, <2>2 DEF Same, Columns, save
<1>12. CASE j.op = "disable-all"
  <2>0. save = [totp |-> FALSE, email |-> FALSE, enabled |-> FALSE, secret |-> None]
    BY <1>2, <1>12 DEF Saved, save, Cleared
  <2>1. /\ save.totp = FALSE /\ save.email = FALSE /\ save.enabled = FALSE
        /\ save.secret = None /\ DOMAIN save = {"totp", "email", "enabled", "secret"}
    BY <2>0
  <2>2. row' \in Rows
    BY <1>3, <1>4, <1>5, <2>1, RowIs
  <2> QED BY <1>2, <1>4, <1>12, <2>1, <2>2 DEF Same, Columns, save
<1>13. CASE j.op = "admin-disable"
  <2>0. save = [totp |-> FALSE, email |-> FALSE, enabled |-> FALSE, secret |-> None,
               required |-> FALSE]
    BY <1>2, <1>13 DEF Saved, save
  <2>1. /\ save.totp = FALSE /\ save.email = FALSE /\ save.enabled = FALSE
        /\ save.secret = None /\ save.required = FALSE
        /\ DOMAIN save = {"totp", "email", "enabled", "secret", "required"}
    BY <2>0
  <2>2. row' \in Rows
    BY <1>3, <1>4, <1>5, <2>1, RowIs
  <2> QED BY <1>2, <1>4, <1>13, <2>1, <2>2 DEF Same, Columns, save
<1>14. CASE j.op \in {"admin-update", "password"}
  <2>1. save \in Rows /\ save = [f \in Columns |-> save[f]] /\ DOMAIN save = Columns
    BY <1>2, <1>14 DEF Saved, save, Rows, Columns
  <2>2. \A f \in Columns : row'[f] = save[f]
    BY <2>1, SaveColumns DEF save
  <2>3. row' = save
    BY <1>5, <2>1, <2>2
  <2> QED BY <1>2, <1>14, <2>1, <2>3 DEF save
<1>15. CASE j.op = "confirm-email"
  <2>1. save.email = TRUE /\ save.enabled = TRUE /\ DOMAIN save = {"email", "enabled"}
    BY <1>2, <1>15 DEF Saved, save
  <2>2. row' \in Rows
    BY <1>3, <1>4, <1>5, <2>1, RowIs
  <2> QED BY <1>2, <1>4, <1>15, <2>1, <2>2 DEF Same, Columns, save
<1>16. CASE j.op = "confirm-change"
  <2>1. /\ save.addr \in Addresses /\ "addr" \in DOMAIN save
        /\ "email" \in DOMAIN save => save.email = FALSE
        /\ "enabled" \in DOMAIN save => save.enabled = FALSE
        /\ DOMAIN save \subseteq {"addr", "email", "enabled"}
    <3>1. PICK a \in Addresses :
            save \in {[addr |-> a], [addr |-> a, email |-> FALSE],
                      [addr |-> a, email |-> FALSE, enabled |-> FALSE]}
      BY <1>2, <1>16 DEF Saved, save
    <3>2. CASE save = [addr |-> a]
      BY <3>2
    <3>3. CASE save = [addr |-> a, email |-> FALSE]
      BY <3>3
    <3>4. CASE save = [addr |-> a, email |-> FALSE, enabled |-> FALSE]
      BY <3>4
    <3> QED BY <3>1, <3>2, <3>3, <3>4
  <2>2. row' \in Rows
    BY <1>3, <1>4, <1>5, <2>1, RowIs
  <2> QED BY <1>2, <1>4, <1>16, <2>1, <2>2 DEF Same, Columns, save
<1> QED BY <1>6, <1>8, <1>9, <1>10, <1>11, <1>12, <1>13, <1>14, <1>15, <1>16
      DEF Disables

-----------------------------------------------------------------------------
(* Types, and what a statement does to the rows that handlers remember.    *)
LEMMA Kinds ==
  ASSUME NEW op, NEW late, accidents \subseteq Accidents, Witness(Kind(op), late)
  PROVE  accidents' \subseteq Accidents /\ accidents \subseteq accidents'
BY DEF Kind, Witness, Accidents

LEMMA Crosses ==
  ASSUME NEW t, NEW step, NEW what \in {"challenge", "change"}, Types,
         Crossing(t, step, what)
  PROVE  crossed' \subseteq {"challenge", "change"} /\ crossed \subseteq crossed'
BY DEF Crossing, Types

LEMMA StatementTypes ==
  ASSUME Base, NEW t \in Threads, Statement(t), UNCHANGED left
  PROVE  Types' /\ Lasting
<1> DEFINE j == job[t]
<1>1. /\ t \in Busy /\ Types /\ Held(j)
  BY StatementOnward DEF Base, Formed, FormedIn, Held, Busy
<1>2. ASSUME UNCHANGED <<row, tables, proved, applied>>,
             accidents' \subseteq Accidents, crossed' \subseteq {"challenge", "change"}
      PROVE  Types' /\ Lasting
  BY <1>1, <1>2 DEF Types, Lasting, tables
<1>3. CASE Save(t)
  <2>1. row' \in Rows
    BY <1>3, SaveRow
  <2>2. accidents' \subseteq Accidents
    BY <1>1, <1>3, Kinds DEF Save, WriteOver, Types
  <2>3. j.op = "confirm-totp" => j.found \in Secrets
    BY <1>3, SaveRow DEF Saved
  <2>4. j.op = "confirm-change" => j.save.addr \in Addresses /\ j.found \in Changes
    <3>1. j.op = "confirm-change" => j.save.addr = row'.addr
      BY <1>3, SaveRow
    <3> QED BY <1>1, <2>1, <3>1 DEF Rows, Held, HeldIn
  <2>5. proved' \subseteq Secrets \cup Addresses /\ applied' \subseteq Changes
    BY <1>1, <1>3, <2>3, <2>4 DEF Save, Types
  <2> QED BY <1>1, <1>3, <2>1, <2>2, <2>5 DEF Save, Types, Lasting, tables
<1>4. CASE DropRecovery(t)
  BY <1>1, <1>4 DEF DropRecovery, Types, Lasting, history
<1>5. CASE Mint(t)
  BY <1>1, <1>5 DEF Mint, Types, Lasting, history
<1>6. CASE UseRecovery(t)
  <2>1. accidents' \subseteq Accidents
    BY <1>1, <1>6, Kinds DEF UseRecovery, WriteOver, Types
  <2>2. recovery' \in [Batches -> {"none", "unused", "used"}]
    BY <1>1, <1>6 DEF UseRecovery, Types
  <2> QED BY <1>1, <1>6, <2>1, <2>2 DEF UseRecovery, Types, Lasting
<1>7. CASE DropChallenges(t)
  BY <1>1, <1>7 DEF DropChallenges, Types, Lasting, Recall, history
<1>8. CASE CheckLimit(t)
  BY <1>1, <1>2, <1>8 DEF CheckLimit, history, Types
<1>9. CASE Burn(t)
  <2>1. \A x \in Challenges : [x EXCEPT !.used = TRUE] \in Challenges
                              /\ [x EXCEPT !.used = TRUE].at = x.at
    BY DEF Challenges
  <2>2. challenge' \in [Codes -> Challenges \cup {None}]
    BY <1>1, <1>9, <2>1 DEF Burn, Types
  <2> QED BY <1>1, <1>9, <2>1, <2>2 DEF Burn, Types, Lasting, history
<1>10. CASE CreateCode(t)
  <2> DEFINE c == CHOOSE x \in FreshCodes : TRUE
  <2>1. c \in Codes /\ challenge[c] = None /\ c \notin Recall("found")
    BY <1>10, FreshCode DEF CreateCode
  <2>2. [at |-> None, used |-> FALSE, age |-> 0] \in Challenges
    BY SecondFactorAssumption DEF Challenges, SecondFactorAssumption
  <2>3. challenge' = [challenge EXCEPT ![c] = [at |-> None, used |-> FALSE, age |-> 0]]
    BY <1>10 DEF CreateCode
  <2> HIDE DEF c
  <2>4. crossed' \subseteq {"challenge", "change"}
    BY <1>1, <1>10, Crosses DEF CreateCode
  <2>5. UNCHANGED <<row, recovery, change, accidents, proved, applied>>
    BY <1>10 DEF CreateCode
  <2>6. Types'
    BY <1>1, <2>1, <2>2, <2>3, <2>4, <2>5 DEF Types
  <2>7. Lasting
    BY <1>1, <2>1, <2>3, <2>5 DEF Types, Lasting
  <2> QED BY <2>6, <2>7
<1>11. CASE SendMail(t)
  <2> DEFINE c == j.found
  <2>1. c \in Codes /\ j.save.addr \in Addresses
    <3>1. j.op = "send-code"
      BY <1>1, <1>11, Busies DEF SendMail, At, Orderly
    <3>2. PICK a \in Addresses : j.save = [addr |-> a]
      BY <1>1, <3>1 DEF Held, HeldIn
    <3>3. j.save.addr = a
      BY <3>2
    <3> QED BY <1>1, <1>11, <3>3 DEF SendMail, At, Held, HeldIn
  <2>2. \A x \in Challenges, a \in Addresses :
          [x EXCEPT !.at = a] \in Challenges /\ [x EXCEPT !.at = a].at # None
    BY SecondFactorAssumption DEF Challenges, SecondFactorAssumption
  <2>3. CASE challenge' = challenge
    BY <1>1, <1>2, <1>11, <2>3 DEF SendMail, history, Types, tables
  <2>4. CASE challenge[c] # None /\ challenge' = [challenge EXCEPT ![c].at = j.save.addr]
    <3>1. /\ challenge' = [challenge EXCEPT ![c] = [challenge[c] EXCEPT !.at = j.save.addr]]
          /\ challenge[c] \in Challenges
      BY <1>1, <2>1, <2>4 DEF Types
    <3>2. /\ challenge' \in [Codes -> Challenges \cup {None}]
          /\ challenge'[c] # None => challenge'[c].at # None
          /\ \A d \in Codes \ {c} : challenge'[d] = challenge[d]
      <4> HIDE DEF c
      <4> QED BY <1>1, <2>1, <2>2, <3>1 DEF Types
    <3> QED BY <1>1, <1>11, <2>1, <3>2 DEF SendMail, Types, Lasting, history
  <2> QED BY <1>11, <2>3, <2>4 DEF SendMail
<1>12. CASE FindCode(t)
  BY <1>1, <1>2, <1>12 DEF FindCode, history, Types
<1>13. CASE UseCode(t)
  <2> DEFINE c == j.found
  <2>1. c \in Codes /\ (challenge[c] = None \/ challenge[c].at # None)
    BY <1>1, <1>13 DEF UseCode, At, Held, HeldIn
  <2>2. CASE challenge[c] = None
    BY <1>1, <1>2, <1>13, <2>2 DEF UseCode, Types, tables
  <2>3. CASE challenge[c] # None
    <3>1. challenge[c] \in Challenges /\ challenge[c].at \in Addresses
      BY <1>1, <2>1, <2>3 DEF Types, Challenges
    <3>2. \A x \in Challenges : [x EXCEPT !.used = TRUE] \in Challenges
                                /\ [x EXCEPT !.used = TRUE].at = x.at
      BY DEF Challenges
    <3>3. /\ challenge' = [challenge EXCEPT ![c] = [challenge[c] EXCEPT !.used = TRUE]]
          /\ proved' = proved \cup {challenge[c].at}
      BY <1>13, <2>3 DEF UseCode
    <3>4. accidents' \subseteq Accidents
      BY <1>1, <1>13, <2>3, Kinds DEF UseCode, WriteOver, Types
    <3>5. challenge' \in [Codes -> Challenges \cup {None}]
      BY <1>1, <2>1, <3>1, <3>2, <3>3 DEF Types
    <3>6. Lasting
      BY <1>1, <1>13, <2>1, <3>1, <3>2, <3>3 DEF Lasting, Types, UseCode
    <3> QED BY <1>1, <1>13, <3>1, <3>3, <3>4, <3>5, <3>6 DEF UseCode, Types
  <2> QED BY <2>2, <2>3
<1>14. CASE Supersede(t)
  <2>1. \A x \in Requests : x # NoChange =>
          /\ [x EXCEPT !.cancelled = TRUE] \in Requests
          /\ [x EXCEPT !.cancelled = TRUE].cancelled
    BY DEF Requests
  <2>2. change' \in [Changes -> Requests]
    BY <1>1, <1>14, <2>1 DEF Supersede, Types, Open
  <2>3. ~NoChange.cancelled
    BY DEF NoChange
  <2>4. Lasting
    BY <1>1, <1>14, <2>1, <2>3 DEF Supersede, Types, Open, Lasting
  <2> QED BY <1>1, <1>14, <2>2, <2>4 DEF Supersede, Types, history
<1>15. CASE OpenChange(t)
  <2> DEFINE q == CHOOSE x \in FreshChanges : TRUE
             new == [NoChange EXCEPT !.new = j.save.addr]
  <2>1. q \in Changes /\ change[q] = NoChange
    BY <1>15, FreshChange DEF OpenChange
  <2>2. j.save.addr \in Addresses
    <3>1. j.op = "request-change"
      BY <1>1, <1>15, Busies DEF OpenChange, At, Orderly
    <3>2. PICK a \in Addresses : j.save = [addr |-> a]
      BY <1>1, <3>1 DEF Held, HeldIn
    <3> QED BY <3>2
  <2>3. new \in Requests
    BY <2>2 DEF Requests, NoChange
  <2>4. change' = [change EXCEPT ![q] = new]
    BY <1>15 DEF OpenChange
  <2>5. crossed' \subseteq {"challenge", "change"}
    BY <1>1, <1>15, Crosses DEF OpenChange
  <2>6. new # NoChange
    BY <2>2, SecondFactorAssumption DEF NoChange, SecondFactorAssumption
  <2> HIDE DEF q, new
  <2> QED BY <1>1, <1>15, <2>1, <2>3, <2>4, <2>5, <2>6 DEF OpenChange, Types, Lasting
<1>16. CASE MailChange(t)
  <2>1. \A x \in Requests : x # NoChange =>
          [x EXCEPT !.sent = TRUE] \in Requests /\ [x EXCEPT !.sent = TRUE].sent
    BY DEF Requests
  <2>2. ~NoChange.sent
    BY DEF NoChange
  <2>3. j.found \in Changes /\ change[j.found] # NoChange
    BY <1>1, <1>16 DEF MailChange, At, Held, HeldIn
  <2>4. CASE change' = change
    BY <1>1, <1>2, <1>16, <2>4 DEF MailChange, Types, history, tables
  <2>5. CASE change' = [change EXCEPT ![j.found] = [change[j.found] EXCEPT !.sent = TRUE]]
    <3> HIDE DEF j
    <3>1. change' \in [Changes -> Requests]
      BY <1>1, <2>1, <2>3, <2>5 DEF Types
    <3>2. \A q \in Changes : change[q] # NoChange => change'[q] # NoChange
      BY <1>1, <2>1, <2>2, <2>3, <2>5 DEF Types
    <3> QED BY <1>1, <1>16, <3>1, <3>2 DEF MailChange, Types, Lasting, history
  <2> QED BY <1>16, <2>4, <2>5 DEF MailChange
<1>17. CASE CloseChange(t)
  <2>1. \A x \in Requests : x # NoChange =>
          [x EXCEPT !.confirmed = TRUE] \in Requests /\ [x EXCEPT !.confirmed = TRUE].confirmed
    BY DEF Requests
  <2>2. ~NoChange.confirmed
    BY DEF NoChange
  <2>3. j.found \in Changes /\ change[j.found] # NoChange
    BY <1>1, <1>17 DEF CloseChange, At, Held, HeldIn
  <2>4. change' = [change EXCEPT ![j.found] = [change[j.found] EXCEPT !.confirmed = TRUE]]
    BY <1>17 DEF CloseChange
  <2> HIDE DEF j
  <2>5. change' \in [Changes -> Requests]
    BY <1>1, <2>1, <2>3, <2>4 DEF Types
  <2>6. \A q \in Changes : change[q] # NoChange => change'[q] # NoChange
    BY <1>1, <2>1, <2>2, <2>3, <2>4 DEF Types
  <2> QED BY <1>1, <1>17, <2>5, <2>6 DEF CloseChange, Types, Lasting, history
<1>18. CASE Cancel(t)
  <2>1. \A x \in Requests : x # NoChange =>
          [x EXCEPT !.cancelled = TRUE] \in Requests /\ [x EXCEPT !.cancelled = TRUE].cancelled
    BY DEF Requests
  <2>2. ~NoChange.cancelled
    BY DEF NoChange
  <2>3. j.found \in Changes /\ change[j.found] # NoChange
    BY <1>1, <1>18 DEF Cancel, At, Held, HeldIn
  <2>4. change' = [change EXCEPT ![j.found] = [change[j.found] EXCEPT !.cancelled = TRUE]]
    BY <1>18 DEF Cancel
  <2>5. accidents' \subseteq Accidents
    BY <1>1, <1>18, Kinds DEF Cancel, WriteOver, Types
  <2> HIDE DEF j
  <2>6. change' \in [Changes -> Requests]
    BY <1>1, <2>1, <2>3, <2>4 DEF Types
  <2>7. \A q \in Changes : change[q] # NoChange => change'[q] # NoChange
    BY <1>1, <2>1, <2>2, <2>3, <2>4 DEF Types
  <2> QED BY <1>1, <1>18, <2>5, <2>6, <2>7 DEF Cancel, Types, Lasting
<1> QED BY <1>3, <1>4, <1>5, <1>6, <1>7, <1>8, <1>9, <1>10, <1>11, <1>12, <1>13,
           <1>14, <1>15, <1>16, <1>17, <1>18 DEF Statement

-----------------------------------------------------------------------------
(* The base holds of every reachable state.                                *)
LEMMA StatementAt ==
  ASSUME NEW t, Statement(t)
  PROVE  /\ At(t, "save") => Save(t)
         /\ At(t, "drop-recovery") => DropRecovery(t)
         /\ At(t, "mint") => Mint(t)
         /\ At(t, "drop-challenges") => DropChallenges(t)
         /\ At(t, "burn") => Burn(t)
         /\ At(t, "create") => CreateCode(t)
         /\ At(t, "send") => SendMail(t)
         /\ At(t, "mail") => MailChange(t)
         /\ At(t, "cancel") => Cancel(t)
         /\ At(t, "use-recovery") => UseRecovery(t)
         /\ At(t, "find-code") => FindCode(t)
         /\ At(t, "use-code") => UseCode(t)
         /\ At(t, "supersede") => Supersede(t)
         /\ At(t, "open") => OpenChange(t)
         /\ At(t, "close") => CloseChange(t)
<1>1. /\ Save(t) => Head(job[t].todo) = "save"
      /\ DropRecovery(t) => Head(job[t].todo) = "drop-recovery"
      /\ Mint(t) => Head(job[t].todo) = "mint"
      /\ UseRecovery(t) => Head(job[t].todo) = "use-recovery"
      /\ DropChallenges(t) => Head(job[t].todo) = "drop-challenges"
      /\ CheckLimit(t) => Head(job[t].todo) = "limit"
      /\ Burn(t) => Head(job[t].todo) = "burn"
      /\ SendMail(t) => Head(job[t].todo) = "send"
  BY DEF At, Save, DropRecovery, Mint, UseRecovery, DropChallenges, CheckLimit, Burn,
         SendMail
<1>2. /\ CreateCode(t) => Head(job[t].todo) = "create"
      /\ FindCode(t) => Head(job[t].todo) = "find-code"
      /\ UseCode(t) => Head(job[t].todo) = "use-code"
      /\ Supersede(t) => Head(job[t].todo) = "supersede"
      /\ OpenChange(t) => Head(job[t].todo) = "open"
      /\ MailChange(t) => Head(job[t].todo) = "mail"
      /\ CloseChange(t) => Head(job[t].todo) = "close"
      /\ Cancel(t) => Head(job[t].todo) = "cancel"
  BY DEF At, CreateCode, FindCode, UseCode, Supersede, OpenChange, MailChange,
         CloseChange, Cancel
<1> QED BY <1>1, <1>2 DEF At, Statement

LEMMA StatementHeld ==
  ASSUME Base, NEW t \in Threads, Statement(t), UNCHANGED left, job'[t] # Idle
  PROVE  Held(job[t])'
<1> DEFINE j == job[t]
           k == job'[t]
           h == Head(j.todo)
           n == Head(Tail(j.todo))
<1>1. /\ t \in Busy /\ Held(j) /\ Lasting /\ Orderly(j.op, j.todo) /\ Types
  BY StatementOnward, StatementTypes, Busies DEF Base, Formed, FormedIn, Held, Busy
<1>2. /\ Tail(j.todo) # <<>> /\ k.op = j.op /\ k.todo = Tail(j.todo)
      /\ h # "save" => k.save = j.save
      /\ h \notin {"find-code", "create", "open"} => k.found = j.found
  BY <1>1, StatementOnward DEF Onward, At
<1>3. /\ n = "send" => h = "create"
      /\ n = "use-code" => h = "find-code"
      /\ n = "mail" => h = "open"
      /\ n \notin {"cancel", "use-recovery"}
      /\ n = "close" => h = "save"
  BY <1>1, <1>2 DEF Orderly, Before
<1>4. Planned(j.op, Tail(j.todo))
  BY <1>1, <1>2 DEF Orderly
<1>5. n = "close" => j.op = "confirm-change"
  <2>1. Orderly(j.op, Tail(j.todo))
    BY <1>4, Order
  <2> QED BY <2>1 DEF Orderly
<1>6. k.op \in {"send-code", "request-change"} => \E a \in Addresses : k.save = [addr |-> a]
  <2>1. j.op \in {"send-code", "request-change"} => h # "save"
    BY <1>1 DEF Orderly
  <2> QED BY <1>1, <1>2, <2>1 DEF Held, HeldIn
<1>7. n = "send" => k.found \in Codes
  <2>1. ASSUME n = "send"
        PROVE  k.found \in Codes
    <3>1. CreateCode(t)
      BY <1>1, <1>3, <2>1, StatementAt DEF At
    <3> DEFINE c == CHOOSE x \in FreshCodes : TRUE
    <3>2. /\ c \in Codes
          /\ job' = [job EXCEPT ![t].found = c, ![t].todo = Tail(job[t].todo)]
      BY <3>1, FreshCode DEF CreateCode
    <3>3. /\ t \in Threads /\ h = "create" /\ UNCHANGED <<row, change>>
      BY <1>3, <2>1, <3>1 DEF CreateCode
    <3> HIDE DEF c
    <3>4. k.found = c
      BY <1>1, <3>2, <3>3, MovedOnward
    <3> QED BY <3>2, <3>4
  <2> QED BY <2>1
<1>8. n = "use-code" => k.found \in Codes /\ challenge'[k.found].at # None
  <2>1. ASSUME n = "use-code"
        PROVE  k.found \in Codes /\ challenge'[k.found].at # None
    <3>1. FindCode(t)
      BY <1>1, <1>3, <2>1, StatementAt DEF At
    <3>2. ~Abandon(t)
      BY <1>1 DEF Abandon, Base
    <3>3. PICK c \in Codes :
            /\ challenge[c].at # None
            /\ job' = [job EXCEPT ![t].found = c, ![t].todo = Tail(job[t].todo)]
      BY <3>1, <3>2 DEF FindCode
    <3>4. h = "find-code" /\ UNCHANGED <<row, change, challenge>>
      BY <1>3, <2>1, <3>1 DEF FindCode, tables
    <3>5. k.found = c
      BY <1>1, <3>3, <3>4, MovedOnward
    <3> QED BY <3>3, <3>4, <3>5
  <2> QED BY <2>1
<1>9. n = "mail" => k.found \in Changes /\ change'[k.found] # NoChange
  <2>1. ASSUME n = "mail"
        PROVE  k.found \in Changes /\ change'[k.found] # NoChange
    <3>1. OpenChange(t) /\ h = "open"
      BY <1>1, <1>3, <2>1, StatementAt DEF At
    <3> DEFINE q == CHOOSE x \in FreshChanges : TRUE
               new == [NoChange EXCEPT !.new = j.save.addr]
    <3>2. /\ q \in Changes /\ q \notin Recall("found")
          /\ job' = [job EXCEPT ![t].found = q, ![t].todo = Tail(job[t].todo)]
          /\ change' = [change EXCEPT ![q] = new] /\ row' = row
      BY <3>1, FreshChange DEF OpenChange
    <3>3. new # NoChange
      <4>1. j.op = "request-change"
        BY <1>1, <3>1 DEF Orderly
      <4>2. PICK a \in Addresses : j.save = [addr |-> a]
        BY <1>1, <4>1 DEF Held, HeldIn
      <4>3. j.save.addr = a
        BY <4>2
      <4> HIDE DEF j
      <4> QED BY <4>3, SecondFactorAssumption DEF NoChange, SecondFactorAssumption
    <3>4. change = [r \in Changes |-> change[r]]
      BY <1>1 DEF Types
    <3> HIDE DEF q, new
    <3>5. \A u \in Busy : job[u].found \in Changes =>
            change'[job[u].found] = change[job[u].found]
      BY <3>2, <3>4 DEF Recall
    <3>6. k.found = q
      BY <1>1, <3>1, <3>2, <3>5, MovedOnward
    <3> QED BY <3>2, <3>3, <3>4, <3>6
  <2> QED BY <2>1
<1>10. k.op = "confirm-change" => k.found \in Changes /\ change'[k.found] # NoChange
  <2>1. j.op = "confirm-change" => h \notin {"find-code", "create", "open"}
    BY <1>1 DEF Orderly
  <2> QED BY <1>1, <1>2, <2>1 DEF Held, HeldIn, Lasting
<1> QED BY <1>2, <1>3, <1>5, <1>6, <1>7, <1>8, <1>9, <1>10 DEF Held, HeldIn

(* What a handler holds, and whether its copy is right, for the others.    *)
LEMMA HeldLasts ==
  ASSUME Base, NEW u \in Busy, Lasting,
         NEW k, k.op = job[u].op, k.save = job[u].save, k.found = job[u].found,
         k.todo = job[u].todo, HeldIn(job[u], challenge, change)
  PROVE  HeldIn(k, challenge', change')
BY DEF HeldIn, Lasting, Recall

LEMMA OtherStays ==
  ASSUME Base, NEW t \in Threads, Onward(t), Lasting, NEW u \in Threads \ {t}
  PROVE  /\ FormedIn(job'[u], challenge', change')
         /\ Fresh(job'[u]) => DecidedOn(job'[u], row', change')
<1> DEFINE j == job[u]
<1>1. FormedIn(j, challenge, change) /\ (Fresh(j) => DecidedOn(j, row, change))
  BY DEF Base, Formed, Decided
<1>2. CASE job'[u] = j
  <2>1. FormedIn(j, challenge', change')
    <3>1. CASE j = Idle
      BY <3>1 DEF FormedIn
    <3>2. CASE j # Idle
      <4>1. u \in Busy /\ HeldIn(j, challenge, change)
        BY <1>1, <3>2 DEF FormedIn, Busy
      <4>2. HeldIn(j, challenge', change')
        BY <4>1, HeldLasts
      <4> QED BY <1>1, <3>2, <4>2 DEF FormedIn
    <3> QED BY <3>1, <3>2
  <2>2. ASSUME Fresh(j)
        PROVE  DecidedOn(j, row', change')
    <3>1. /\ row' = row
          /\ j.found \in Changes => change'[j.found] = change[j.found]
      BY <1>2, <2>2 DEF Onward
    <3>2. j.op = "confirm-change" => j.found \in Changes
      BY <1>1, <2>2 DEF FormedIn, HeldIn, Fresh
    <3> QED BY <1>1, <2>2, <3>1, <3>2 DEF DecidedOn
  <2> QED BY <1>2, <2>1, <2>2
<1>3. CASE job'[u] # j
  <2>1. u \in Busy /\ job'[u] = [j EXCEPT !.fresh = FALSE] /\ ~Fresh(job'[u])
    BY <1>3 DEF Onward, Busy
  <2> PICK k : k = job'[u]
    OBVIOUS
  <2>2. j # Idle
    BY <2>1 DEF Busy
  <2>3. /\ j \in [op : Ops, save : {j.save}, fresh : BOOLEAN, todo : {j.todo},
                  found : {None} \cup Secrets \cup Batches \cup Codes \cup Changes]
        /\ Planned(j.op, j.todo) /\ DOMAIN j.save \subseteq Columns
        /\ Saving(j) => Saved(j)
        /\ HeldIn(j, challenge, change)
    BY <1>1, <2>2 DEF FormedIn
  <2>4. /\ k \in [op : Ops, save : {k.save}, fresh : BOOLEAN, todo : {k.todo},
                  found : {None} \cup Secrets \cup Batches \cup Codes \cup Changes]
        /\ k.op = j.op /\ k.save = j.save /\ k.found = j.found /\ k.todo = j.todo
    <3> HIDE DEF j
    <3> QED BY <2>1, <2>3
  <2>5. HeldIn(k, challenge', change')
    BY <2>1, <2>3, <2>4, HeldLasts
  <2>6. Saving(k) => Saved(k)
    BY <2>3, <2>4 DEF Saving, Saved
  <2> HIDE DEF j
  <2>7. FormedIn(k, challenge', change')
    BY <2>3, <2>4, <2>5, <2>6 DEF FormedIn
  <2> QED BY <2>1, <2>7
<1> QED BY <1>2, <1>3

LEMMA StatementBase ==
  ASSUME Base, NEW t \in Threads, Statement(t), UNCHANGED left
  PROVE  Base'
<1>1. /\ t \in Busy /\ Onward(t) /\ Types' /\ Lasting
  BY StatementOnward, StatementTypes
<1>2. \A u \in Threads \ {t} :
         /\ FormedIn(job'[u], challenge', change')
         /\ Fresh(job'[u]) => DecidedOn(job'[u], row', change')
  BY <1>1, OtherStays
<1>3. /\ FormedIn(job'[t], challenge', change')
      /\ Fresh(job'[t]) => DecidedOn(job'[t], row', change')
  <2>1. CASE job'[t] = Idle
    BY <2>1 DEF FormedIn, Fresh
  <2>2. CASE job'[t] # Idle
    <3> PICK k : k = job'[t]
      OBVIOUS
    <3> DEFINE j == job[t]
               rest == Tail(j.todo)
    <3>1. /\ rest # <<>> /\ k.op = j.op /\ k.todo = rest /\ k.fresh \in BOOLEAN
          /\ k.fresh /\ WillWrite(rest) => j.fresh
          /\ k.save = IF Head(j.todo) = "save" THEN NoColumns ELSE j.save
          /\ k.found = j.found \/ Head(j.todo) \in {"find-code", "create", "open"}
          /\ k \in [op : {k.op}, save : {k.save}, found : {k.found}, fresh : BOOLEAN,
                    todo : {k.todo}]
      BY <1>1, <2>2 DEF Onward, At
    <3>2. /\ Planned(j.op, j.todo) /\ Orderly(j.op, j.todo) /\ j.op \in Ops
          /\ j.found \in {None} \cup Secrets \cup Batches \cup Codes \cup Changes
      BY <1>1, Busies
    <3>11. DOMAIN j.save \subseteq Columns /\ (Saving(j) => Saved(j))
      BY <1>1 DEF Base, Formed, FormedIn, Busy
    <3>3. Planned(k.op, k.todo)
      BY <3>1, <3>2 DEF Orderly
    <3>4. HeldIn(k, challenge', change')
      BY <2>2, StatementHeld DEF Held
    <3> HIDE DEF j
    <3>5. k.found \in {None} \cup Secrets \cup Batches \cup Codes \cup Changes
      <4>1. CASE k.found = j.found
        BY <3>2, <4>1
      <4>2. CASE Head(j.todo) \in {"find-code", "create", "open"}
        <5>1. Head(rest) \in {"use-code", "send", "mail"}
          BY <3>1, <3>2, <4>2, List1, List2 DEF Orderly
        <5> QED BY <3>1, <3>4, <5>1 DEF HeldIn
      <4> QED BY <3>1, <4>1, <4>2
    <3>6. DOMAIN k.save \subseteq Columns
      <4>2. DOMAIN NoColumns \subseteq Columns
        BY DEF NoColumns
      <4> QED BY <3>1, <3>11, <4>2
    <3>7. Saving(k) => /\ Saving(j) /\ k.save = j.save /\ k.op \in {"confirm-email", "confirm-change"}
                       /\ Head(j.todo) \notin {"mint", "drop-recovery"}
      BY <3>1, <3>2, Rests DEF Saving
    <3>8. Saving(k) => Saved(k)
      BY <3>1, <3>7, <3>11 DEF Saved
    <3>9. FormedIn(k, challenge', change')
      BY <3>1, <3>2, <3>3, <3>4, <3>5, <3>6, <3>8 DEF FormedIn
    <3>10. ASSUME Fresh(k)
           PROVE  DecidedOn(k, row', change')
      <4>1. Saving(k) /\ Fresh(j)
        BY <1>1, <3>1, <3>7, <3>10 DEF Fresh, Busy, Saving, WillWrite, j
      <4>2. DecidedOn(j, row, change)
        BY <4>1 DEF Base, Decided, j
      <4>3. row' = row
        <5>1. Head(j.todo) # "save"
          BY <3>1, <3>2, <4>1, Rests DEF Saving
        <5> QED BY <1>1, <5>1 DEF Statement, At, Save, DropRecovery, Mint, UseRecovery,
                   DropChallenges, CheckLimit, Burn, CreateCode, SendMail, FindCode,
                   UseCode, Supersede, OpenChange, MailChange, CloseChange, Cancel, j
      <4>4. CASE k.op = "confirm-email"
        <5>1. Remains("mint", k.todo) <=> Remains("mint", j.todo)
          BY <3>1, <3>2, <3>7, <4>1, Rests
        <5> QED BY <3>1, <4>2, <4>3, <4>4, <5>1 DEF DecidedOn
      <4>5. CASE k.op = "confirm-change"
        <5>1. Head(j.todo) = "drop-challenges"
          <6>1. Head(j.todo) \in {"drop-challenges", "save", "close"}
            BY <3>1, <3>2, <4>5 DEF Orderly
          <6>2. Head(j.todo) # "save" /\ Head(j.todo) # "close"
            BY <3>1, <3>2, <3>7, <4>1, Rests DEF Saving, Orderly
          <6> QED BY <6>1, <6>2
        <5>2. change' = change /\ k.found = j.found /\ k.save = j.save
          BY <1>1, <3>1, <3>7, <4>1, <5>1, StatementAt DEF At, DropChallenges, j
        <5> QED BY <3>1, <4>2, <4>3, <4>5, <5>2 DEF DecidedOn
      <4> QED BY <3>7, <4>1, <4>4, <4>5
    <3> QED BY <3>9, <3>10
  <2> QED BY <2>1, <2>2
<1>4. job' = [u \in Threads |-> job'[u]]
  BY <1>1 DEF Onward
<1> QED BY <1>1, <1>2, <1>3, <1>4 DEF Base, Formed, Decided

(* The steps of no handler: time, the expiry and the sweep.                *)
Quiet ==
  /\ UNCHANGED <<row, recovery, job, left, accidents, crossed, proved, detached>>
  /\ challenge' \in [Codes -> Challenges \cup {None}]
  /\ \A c \in Codes : challenge'[c] # None =>
       /\ challenge[c] # None
       /\ challenge'[c].at = challenge[c].at /\ challenge'[c].used = challenge[c].used
       /\ challenge'[c].age < Ttl => challenge[c].age < Ttl
  /\ change' \in [Changes -> Requests]
  /\ \A q \in Changes : change'[q] # NoChange =>
       /\ change[q] # NoChange /\ change'[q].confirmed = change[q].confirmed
       /\ change'[q].cancelled = change[q].cancelled
  /\ applied' \subseteq applied
  /\ \A q \in applied' : change[q] # NoChange => change'[q] # NoChange
  /\ Busy # {} => \A q \in Changes : change[q] # NoChange => change'[q] # NoChange

LEMMA TickQuiet ==
  ASSUME Base, Tick, UNCHANGED left
  PROVE  Quiet
<1>1. \A x \in Challenges : x.age # Hour =>
        /\ [x EXCEPT !.age = x.age + 1] \in Challenges
        /\ [x EXCEPT !.age = x.age + 1].at = x.at
        /\ [x EXCEPT !.age = x.age + 1].used = x.used
        /\ [x EXCEPT !.age = x.age + 1].age < Ttl => x.age < Ttl
  BY SecondFactorAssumption DEF Challenges, SecondFactorAssumption
<1>2. /\ challenge \in [Codes -> Challenges \cup {None}]
      /\ change \in [Changes -> Requests]
  BY DEF Base, Types
<1>3. challenge' = [c \in Codes |->
        IF challenge[c] = None \/ challenge[c].age = Hour THEN challenge[c]
        ELSE [challenge[c] EXCEPT !.age = challenge[c].age + 1]]
  BY DEF Tick
<1>4. challenge' \in [Codes -> Challenges \cup {None}]
  BY <1>1, <1>2, <1>3
<1>5. \A c \in Codes : challenge'[c] # None =>
       /\ challenge[c] # None
       /\ challenge'[c].at = challenge[c].at /\ challenge'[c].used = challenge[c].used
       /\ challenge'[c].age < Ttl => challenge[c].age < Ttl
  BY <1>1, <1>2, <1>3
<1>6. UNCHANGED <<row, recovery, change, job, accidents, crossed, proved, applied, detached>>
  BY DEF Tick, history
<1> QED BY <1>2, <1>4, <1>5, <1>6 DEF Quiet

LEMMA ExpireQuiet ==
  ASSUME Base, NEW q \in Changes, Expire(q), UNCHANGED left
  PROVE  Quiet
<1>1. \A x \in Requests : x # NoChange =>
        /\ [x EXCEPT !.expired = TRUE] \in Requests
        /\ [x EXCEPT !.expired = TRUE].expired
        /\ [x EXCEPT !.expired = TRUE].confirmed = x.confirmed
        /\ [x EXCEPT !.expired = TRUE].cancelled = x.cancelled
  BY DEF Requests
<1>2. /\ challenge \in [Codes -> Challenges \cup {None}]
      /\ change \in [Changes -> Requests] /\ change[q] # NoChange
  BY DEF Base, Types, Expire, Open
<1>3. change' = [change EXCEPT ![q] = [change[q] EXCEPT !.expired = TRUE]]
  BY DEF Expire
<1>4. ~NoChange.expired
  BY DEF NoChange
<1>5. change' \in [Changes -> Requests]
  BY <1>1, <1>2, <1>3
<1>6. \A r \in Changes :
        /\ change'[r] # NoChange =>
             /\ change[r] # NoChange /\ change'[r].confirmed = change[r].confirmed
             /\ change'[r].cancelled = change[r].cancelled
        /\ change[r] # NoChange => change'[r] # NoChange
  BY <1>1, <1>2, <1>3, <1>4
<1>7. UNCHANGED <<row, recovery, challenge, job, accidents, crossed, proved, applied, detached>>
  BY DEF Expire, history
<1>8. applied \subseteq Changes
  BY DEF Base, Types
<1> QED BY <1>2, <1>5, <1>6, <1>7, <1>8 DEF Quiet

LEMMA SweepQuiet ==
  ASSUME Base, Sweep, UNCHANGED left
  PROVE  Quiet
<1>1. /\ challenge \in [Codes -> Challenges \cup {None}]
      /\ change \in [Changes -> Requests] /\ applied \subseteq Changes
  BY DEF Base, Types
<1>2. NoChange \in Requests
  BY DEF Requests
<1> QED BY <1>1, <1>2 DEF Quiet, Sweep

LEMMA Steppings ==
  ASSUME Base, [Next]_vars
  PROVE  \/ \E t \in Threads : \E k : Begun(t, k)
         \/ UNCHANGED left /\ \E t \in Threads : Statement(t)
         \/ UNCHANGED left /\ \E t \in Threads : Die(t)
         \/ Quiet
<1>1. CASE UNCHANGED vars
  BY <1>1 DEF vars, Quiet, Base, Types
<1>2. CASE \E t \in Threads : Start(t)
  BY <1>2, StartBegun
<1>3. CASE Tick /\ UNCHANGED left
  BY <1>3, TickQuiet
<1>4. CASE UNCHANGED left /\ \E q \in Changes : Expire(q)
  BY <1>4, ExpireQuiet
<1>5. CASE Sweep /\ UNCHANGED left
  BY <1>5, SweepQuiet
<1> QED BY <1>1, <1>2, <1>3, <1>4, <1>5 DEF Next

LEMMA BegunBase ==
  ASSUME Base, NEW t \in Threads, NEW k, Begun(t, k)
  PROVE  Base'
<1>1. UNCHANGED <<row, recovery, challenge, change, crossed, proved, applied>>
  BY DEF Begun, tables
<1>2. accidents' \subseteq Accidents /\ left' \in 0 .. MaxHandlers
  <2>1. left \in 0 .. MaxHandlers /\ MaxHandlers \in Nat /\ accidents \subseteq Accidents
    BY SecondFactorAssumption DEF Base, Types, SecondFactorAssumption
  <2>2. left > 0 /\ left' = left - 1
    BY DEF Begun
  <2>3. accidents' \subseteq Accidents
    BY <2>1 DEF Begun, Witness, Accidents
  <2> QED BY <2>1, <2>2, <2>3
<1>3. Types'
  BY <1>1, <1>2 DEF Base, Types
<1>4. /\ job' = [u \in Threads |-> job'[u]] /\ job'[t] = k
      /\ \A u \in Threads \ {t} : job'[u] = job[u]
  BY DEF Begun, Base
<1>5. /\ FormedIn(k, challenge', change')
      /\ Fresh(k) => DecidedOn(k, row', change')
  BY <1>1 DEF Begun, Proper, Formed, Decided, Fresh
<1>6. \A u \in Threads \ {t} :
        /\ FormedIn(job'[u], challenge', change')
        /\ Fresh(job'[u]) => DecidedOn(job'[u], row', change')
  BY <1>1, <1>4 DEF Base, Formed, Decided
<1> QED BY <1>3, <1>4, <1>5, <1>6 DEF Base, Formed, Decided

LEMMA DieOnward ==
  ASSUME Base, NEW t \in Threads, Die(t)
  PROVE  t \in Busy /\ Onward(t) /\ job'[t] = Idle
BY AbandonOnward DEF Die, tables, Busy, Abandon, Base

LEMMA DieBase ==
  ASSUME Base, NEW t \in Threads, Die(t), UNCHANGED left
  PROVE  Base'
<1>1. t \in Busy /\ Onward(t) /\ job'[t] = Idle
  BY DieOnward
<1>2. UNCHANGED <<row, recovery, challenge, change, crossed, proved, applied>>
  BY DEF Die, tables
<1>3. accidents' \subseteq Accidents
  BY DEF Die, Witness, Base, Types, Accidents
<1>4. Types' /\ Lasting
  BY <1>2, <1>3 DEF Base, Types, Lasting
<1>5. \A u \in Threads \ {t} :
         /\ FormedIn(job'[u], challenge', change')
         /\ Fresh(job'[u]) => DecidedOn(job'[u], row', change')
  BY <1>1, <1>4, OtherStays
<1>6. FormedIn(job'[t], challenge', change') /\ ~Fresh(job'[t])
  BY <1>1 DEF FormedIn, Fresh
<1> QED BY <1>1, <1>4, <1>5, <1>6 DEF Base, Formed, Decided, Onward

LEMMA QuietBase ==
  ASSUME Base, Quiet
  PROVE  Base'
<1>1. Types'
  BY DEF Base, Types, Quiet
<1>2. ASSUME NEW t \in Busy
      PROVE  /\ FormedIn(job[t], challenge', change')
             /\ Fresh(job[t]) => DecidedOn(job[t], row', change')
  <2> DEFINE j == job[t]
  <2>1. /\ t \in Threads /\ j # Idle /\ FormedIn(j, challenge, change)
        /\ Fresh(j) => DecidedOn(j, row, change)
    BY DEF Base, Formed, Decided, Busy
  <2>2. \A q \in Changes : change[q] # NoChange => change'[q] # NoChange
    BY DEF Quiet
  <2> HIDE DEF j
  <2>3. HeldIn(j, challenge', change')
    <3>1. HeldIn(j, challenge, change)
      BY <2>1 DEF FormedIn
    <3>2. \A c \in Codes : challenge[c] = None \/ challenge[c].at # None =>
            challenge'[c] = None \/ challenge'[c].at # None
      BY DEF Quiet
    <3> QED BY <2>2, <3>1, <3>2 DEF HeldIn
  <2>4. FormedIn(j, challenge', change')
    BY <2>1, <2>3 DEF FormedIn
  <2>5. ASSUME Fresh(j)
        PROVE  DecidedOn(j, row', change')
    <3>1. j.op = "confirm-change" => j.found \in Changes /\ change[j.found] # NoChange
      BY <2>1 DEF FormedIn, HeldIn
    <3>2. j.op = "confirm-change" => change'[j.found].confirmed = change[j.found].confirmed
      BY <2>2, <3>1 DEF Quiet
    <3> QED BY <2>1, <2>5, <3>2 DEF DecidedOn, Quiet
  <2> QED BY <2>4, <2>5 DEF j
<1>3. \A t \in Threads \ Busy : FormedIn(job[t], challenge', change') /\ ~Fresh(job[t])
  BY DEF Busy, FormedIn, Fresh
<1>4. job' = job
  BY DEF Quiet
<1> QED BY <1>1, <1>2, <1>3, <1>4 DEF Base, Formed, Decided

LEMMA BaseInit ==
  ASSUME Init
  PROVE  Base
<1>1. /\ row \in Rows /\ left \in 0 .. MaxHandlers
      /\ recovery \in [Batches -> {"none", "unused", "used"}]
      /\ challenge \in [Codes -> Challenges \cup {None}]
      /\ change \in [Changes -> Requests]
  BY SecondFactorAssumption DEF Init, Requests, SecondFactorAssumption
<1>2. proved \subseteq Secrets \cup Addresses
  <2>1. row.totp => row.secret \in Secrets
    BY <1>1 DEF Init, Settled, Rows
  <2>2. row.addr \in Addresses
    BY <1>1 DEF Rows
  <2> QED BY <2>1, <2>2 DEF Init
<1>3. Types
  BY <1>1, <1>2 DEF Init, Types
<1>4. /\ job = [t \in Threads |-> job[t]]
      /\ \A t \in Threads : Formed(job[t]) /\ ~Fresh(job[t])
  BY DEF Init, Formed, FormedIn, Fresh
<1> QED BY <1>3, <1>4 DEF Base

LEMMA BaseStep ==
  ASSUME Base, [Next]_vars
  PROVE  Base'
BY Steppings, BegunBase, StatementBase, DieBase, QuietBase

THEOREM SecondFactorBase == Spec => []Base
<1>1. Init => Base
  BY BaseInit
<1>2. Base /\ [Next]_vars => Base'
  BY BaseStep
<1> QED BY <1>1, <1>2, PTL DEF Spec


-----------------------------------------------------------------------------
(* What the properties ask of a statement: what it leaves as it was.       *)
LEMMA Copies ==
  ASSUME Base, NEW t \in Busy, Onward(t), NEW u \in Threads
  PROVE  /\ u # t => /\ job'[u] = Idle <=> job[u] = Idle
                     /\ job'[u].op = job[u].op /\ job'[u].save = job[u].save
                     /\ job'[u].todo = job[u].todo /\ job'[u].found = job[u].found
         /\ job'[t] # Idle =>
              /\ Tail(job[t].todo) # <<>>
              /\ job'[t].op = job[t].op /\ job'[t].todo = Tail(job[t].todo)
              /\ job'[t].save = IF At(t, "save") THEN NoColumns ELSE job[t].save
              /\ job'[t].found = job[t].found
                   \/ Head(job[t].todo) \in {"find-code", "create", "open"}
<1>1. CASE u # t
  <2>1. CASE job'[u] = job[u]
    BY <1>1, <2>1 DEF Onward
  <2>2. CASE job'[u] # job[u]
    <3>1. u \in Busy /\ job'[u] = [job[u] EXCEPT !.fresh = FALSE]
      BY <1>1, <2>2 DEF Onward, Busy
    <3>2. PICK j : j = job[u]
      OBVIOUS
    <3>3. j \in [op : Ops, save : {j.save}, fresh : BOOLEAN, todo : {j.todo},
                 found : {j.found}]
          /\ j.op # "idle" /\ j # Idle
      BY <3>1, <3>2, Busies
    <3>4. PICK k : k = job'[u]
      OBVIOUS
    <3>5. k.op = j.op /\ k.save = j.save /\ k.todo = j.todo /\ k.found = j.found
      BY <3>1, <3>2, <3>3, <3>4
    <3>6. k # Idle
      BY <3>3, <3>5 DEF Idle
    <3> QED BY <1>1, <3>2, <3>3, <3>4, <3>5, <3>6 DEF Onward
  <2> QED BY <2>1, <2>2
<1>2. CASE u = t
  BY <1>2 DEF Onward
<1>3. job'[t] # Idle =>
        /\ Tail(job[t].todo) # <<>>
        /\ job'[t].op = job[t].op /\ job'[t].todo = Tail(job[t].todo)
        /\ job'[t].save = IF At(t, "save") THEN NoColumns ELSE job[t].save
        /\ job'[t].found = job[t].found
             \/ Head(job[t].todo) \in {"find-code", "create", "open"}
  BY DEF Onward
<1> QED BY <1>1, <1>2, <1>3

LEMMA Records ==
  ASSUME NEW t, Statement(t)
  PROVE  /\ accidents \subseteq accidents' /\ crossed \subseteq crossed'
         /\ Head(job[t].todo) # "save" =>
              /\ row' = row /\ detached' = detached
              /\ applied' = applied /\ proved \subseteq proved'
         /\ Head(job[t].todo) \notin {"save", "use-code"} => proved' = proved
         /\ Head(job[t].todo) \notin {"drop-recovery", "mint", "use-recovery"} =>
              recovery' = recovery
         /\ Head(job[t].todo) \notin {"drop-challenges", "burn", "create", "send",
                                      "use-code"} => challenge' = challenge
         /\ Head(job[t].todo) \notin {"supersede", "open", "mail", "close", "cancel"}
              => change' = change
<1>1. CASE Save(t)
  BY <1>1 DEF Save, At, WriteOver, Witness, tables
<1>2. CASE DropRecovery(t) \/ Mint(t)
  BY <1>2 DEF DropRecovery, Mint, At, history
<1>3. CASE UseRecovery(t)
  BY <1>3 DEF UseRecovery, At, WriteOver, Witness
<1>4. CASE DropChallenges(t) \/ CheckLimit(t) \/ Burn(t)
  BY <1>4 DEF DropChallenges, CheckLimit, Burn, At, history, tables
<1>5. CASE CreateCode(t)
  BY <1>5 DEF CreateCode, At, Crossing
<1>6. CASE SendMail(t)
  BY <1>6 DEF SendMail, At, history
<1>7. CASE FindCode(t)
  BY <1>7 DEF FindCode, At, history, tables
<1>8. CASE UseCode(t)
  BY <1>8 DEF UseCode, At, WriteOver, Witness
<1>9. CASE Supersede(t) \/ MailChange(t) \/ CloseChange(t)
  BY <1>9 DEF Supersede, MailChange, CloseChange, At, history
<1>10. CASE OpenChange(t)
  BY <1>10 DEF OpenChange, At, Crossing
<1>11. CASE Cancel(t)
  BY <1>11 DEF Cancel, At, WriteOver, Witness
<1> QED BY <1>1, <1>2, <1>3, <1>4, <1>5, <1>6, <1>7, <1>8, <1>9, <1>10, <1>11
      DEF Statement

(* Types of the whole model: no handler ever holds a row, a column or a    *)
(* statement that its code does not work on.                               *)
THEOREM SecondFactorTyped == Spec => []TypeOK
<1>1. Base /\ detached \in BOOLEAN => TypeOK
  <2> SUFFICES ASSUME Base, detached \in BOOLEAN PROVE TypeOK
    OBVIOUS
  <2>1. \A t \in Threads : job[t] = Idle \/
          /\ job[t].op \in Ops
          /\ DOMAIN job[t].save \subseteq Columns
          /\ job[t].found \in
               {None} \cup Secrets \cup Batches \cup Codes \cup Changes
          /\ job[t].fresh \in BOOLEAN
          /\ job[t].todo \in Seq(Steps) /\ job[t].todo # <<>>
    <3> SUFFICES ASSUME NEW t \in Threads, job[t] # Idle
                 PROVE  /\ job[t].op \in Ops
                        /\ DOMAIN job[t].save \subseteq Columns
                        /\ job[t].found \in
                             {None} \cup Secrets \cup Batches \cup Codes \cup Changes
                        /\ job[t].fresh \in BOOLEAN
                        /\ job[t].todo \in Seq(Steps) /\ job[t].todo # <<>>
      OBVIOUS
    <3>1. t \in Busy
      BY DEF Busy
    <3>2. job[t].op \in Ops /\ job[t].fresh \in BOOLEAN
      BY <3>1, Busies
    <3>3. job[t].todo \in Seq(Steps) /\ job[t].todo # <<>>
      BY <3>1, Busies DEF Orderly
    <3>4. DOMAIN job[t].save \subseteq Columns
      BY DEF Base, Formed, FormedIn
    <3> QED BY <3>1, <3>2, <3>3, <3>4, Busies
  <2> QED BY <2>1 DEF Base, Types, TypeOK
<1>2. Init => Base /\ detached \in BOOLEAN
  BY BaseInit DEF Init
<1>3. Base /\ detached \in BOOLEAN /\ [Next]_vars => (detached \in BOOLEAN)'
  <2> SUFFICES ASSUME Base, detached \in BOOLEAN, [Next]_vars
               PROVE  detached' \in BOOLEAN
    OBVIOUS
  <2>1. ASSUME NEW t \in Threads, NEW k, Begun(t, k) PROVE detached' = detached
    BY <2>1 DEF Begun
  <2>2. ASSUME NEW t \in Threads, Statement(t) PROVE detached' \in BOOLEAN
    <3>1. CASE Head(job[t].todo) = "save"
      <4>1. Save(t)
        BY <2>2, <3>1, StatementAt, StatementOnward DEF At
      <4>2. detached' = detached \/ detached' = (job[t].op = "confirm-change")
        BY <4>1 DEF Save
      <4>3. CASE detached' = detached
        BY <4>3
      <4>4. CASE detached' = (job[t].op = "confirm-change")
        BY <4>4
      <4> QED BY <4>2, <4>3, <4>4
    <3>2. CASE Head(job[t].todo) # "save"
      BY <2>2, <3>2, Records
    <3> QED BY <3>1, <3>2
  <2>3. ASSUME NEW t \in Threads, Die(t) PROVE detached' = detached
    BY <2>3 DEF Die
  <2>4. Quiet => detached' = detached
    BY DEF Quiet
  <2> QED BY <2>1, <2>2, <2>3, <2>4, Steppings
<1>4. Base /\ [Next]_vars => Base'
  BY BaseStep
<1> QED BY <1>1, <1>2, <1>3, <1>4, PTL DEF Spec

LEMMA FreshSave ==
  ASSUME Base, NEW t \in Threads, Save(t)
  PROVE  /\ t \in Busy /\ Head(job[t].todo) = "save" /\ Saving(job[t])
         /\ job[t].fresh => Decided(job[t])
         /\ ~job[t].fresh => Kind(job[t].op) \in accidents'
         /\ job[t].op \in Disables \cup
              {"start-totp", "confirm-totp", "admin-disable", "password",
               "admin-update", "confirm-email", "confirm-change"}
<1>1. t \in Busy /\ Head(job[t].todo) = "save"
  BY DEF Save, At
<1>2. Saving(job[t]) /\ Orderly(job[t].op, job[t].todo)
  BY <1>1, Busies, Rests DEF Saving
<1>3. job[t].fresh => Decided(job[t])
  BY <1>1, <1>2 DEF Fresh, Base, Busy
<1>4. ~job[t].fresh => Kind(job[t].op) \in accidents'
  BY DEF Save, WriteOver, Witness
<1> QED BY <1>1, <1>2, <1>3, <1>4 DEF Orderly

(* The handlers that save every column do only that.                       *)
LEMMA WholeRows ==
  ASSUME Base, NEW t \in Threads, WholeRow(job[t])
  PROVE  /\ t \in Busy /\ job[t].todo = <<"save">> /\ Saving(job[t])
         /\ job[t].save \in Rows
<1>1. t \in Busy /\ Orderly(job[t].op, job[t].todo)
  BY Busies DEF WholeRow, Busy
<1>2. job[t].todo = <<"save">>
  BY <1>1 DEF Orderly, WholeRow
<1>3. Saving(job[t])
  BY <1>2, Remains1 DEF Saving
<1> QED BY <1>1, <1>2, <1>3 DEF Base, Formed, FormedIn, Busy, Saved, WholeRow

LEMMA WholeRowsStay ==
  ASSUME Base, NEW t \in Busy, Onward(t), NEW u \in Threads, WholeRow(job'[u])
  PROVE  u # t /\ WholeRow(job[u]) /\ job'[u].save = job[u].save
<1>1. u = t => Tail(job[t].todo) # <<>> /\ job[t].op = job'[t].op
  BY Copies DEF WholeRow
<1>2. u # t
  <2>1. ASSUME u = t PROVE FALSE
    <3>1. WholeRow(job[t])
      BY <1>1, <2>1 DEF WholeRow, Busy
    <3>2. job[t].todo = <<"save">>
      BY <3>1, WholeRows DEF Busy
    <3> QED BY <1>1, <2>1, <3>2, List1
  <2> QED BY <2>1
<1> QED BY <1>2, Copies DEF WholeRow

(* A whole-row handler that has just begun holds the row as it is.         *)
LEMMA WholeRowBegun ==
  ASSUME Base, NEW t \in Threads, NEW k, Begun(t, k), WholeRow(k)
  PROVE  /\ k.save.totp = row.totp /\ k.save.email = row.email
         /\ k.save.enabled = row.enabled /\ k.save.secret = row.secret
         /\ k.save.addr = row.addr
<1>1. Planned(k.op, k.todo) /\ Proper(k)
  BY DEF Begun, Proper, Formed, FormedIn
<1>2. k.todo = <<"save">>
  BY <1>1, Order DEF Orderly, WholeRow
<1>3. Decided(k)
  BY <1>1, <1>2, Remains1 DEF Proper, Saving
<1>4. row \in Rows
  BY DEF Base, Types
<1>5. CASE k.op = "password"
  BY <1>3, <1>5 DEF Decided, DecidedOn
<1>6. CASE k.op = "admin-update"
  <2>1. PICK b \in BOOLEAN : k.save = [row EXCEPT !.required = b]
    BY <1>3, <1>6 DEF Decided, DecidedOn
  <2> QED BY <1>4, <2>1 DEF Rows
<1> QED BY <1>5, <1>6 DEF WholeRow

-----------------------------------------------------------------------------
(* FlagsAgree.                                                             *)
LEMMA FlagsSave ==
  ASSUME Base, Flags, NEW t \in Threads, Save(t), "remove factor" \notin accidents'
  PROVE  row'.enabled <=> row'.totp \/ row'.email
<1> DEFINE j == job[t]
<1>1. /\ Kind(j.op) = "remove factor" => Decided(j)
      /\ j.op \in Disables \cup
              {"start-totp", "confirm-totp", "admin-disable", "password",
               "admin-update", "confirm-email", "confirm-change"}
      /\ t \in Busy
  BY FreshSave
<1>2. row.enabled <=> row.totp \/ row.email
  BY DEF Flags, Save, WriteOver, Witness
<1>3. CASE j.op \in {"start-totp", "confirm-totp", "confirm-email"}
  BY <1>2, <1>3, SaveRow DEF Same, Columns
<1>4. CASE j.op \in {"disable-all", "admin-disable"}
  BY <1>4, SaveRow
<1>5. CASE j.op = "disable-totp"
  <2>1. j.save.enabled = row.email
    BY <1>1, <1>5 DEF Kind, Disables, Decided, DecidedOn
  <2> QED BY <1>5, <2>1, SaveRow DEF Same
<1>6. CASE j.op = "disable-email"
  <2>1. j.save.enabled = row.totp
    BY <1>1, <1>6 DEF Kind, Disables, Decided, DecidedOn
  <2> QED BY <1>6, <2>1, SaveRow DEF Same, Columns
<1>7. CASE j.op \in {"admin-update", "password"}
  <2>1. WholeRow(j) /\ row' = j.save
    BY <1>1, <1>7, SaveRow DEF WholeRow, Busy
  <2>2. "remove factor" \notin accidents
    BY DEF Save, WriteOver, Witness
  <2> QED BY <2>1, <2>2 DEF Flags
<1>8. CASE j.op = "confirm-change"
  <2>1. /\ row.email <=> "email" \in DOMAIN j.save
        /\ row.email => (row.totp <=> "enabled" \notin DOMAIN j.save)
    BY <1>1, <1>8 DEF Kind, Decided, DecidedOn
  <2>2. "enabled" \in DOMAIN j.save => "email" \in DOMAIN j.save
    <3>1. PICK a \in Addresses :
            j.save \in {[addr |-> a], [addr |-> a, email |-> FALSE],
                        [addr |-> a, email |-> FALSE, enabled |-> FALSE]}
      BY <1>8, SaveRow DEF Saved
    <3>2. CASE j.save = [addr |-> a]
      BY <3>2
    <3>3. CASE j.save = [addr |-> a, email |-> FALSE]
      BY <3>3
    <3>4. CASE j.save = [addr |-> a, email |-> FALSE, enabled |-> FALSE]
      BY <3>4
    <3> QED BY <3>1, <3>2, <3>3, <3>4
  <2>3. /\ row'.totp = row.totp
        /\ IF "email" \in DOMAIN j.save THEN ~row'.email ELSE row'.email = row.email
        /\ IF "enabled" \in DOMAIN j.save THEN ~row'.enabled
           ELSE row'.enabled = row.enabled
    BY <1>8, SaveRow DEF Same
  <2> QED BY <1>2, <2>1, <2>2, <2>3
<1> QED BY <1>1, <1>3, <1>4, <1>5, <1>6, <1>7, <1>8 DEF Disables

LEMMA FlagsStep ==
  ASSUME Base, Flags, [Next]_vars
  PROVE  Flags'
<1> SUFFICES ASSUME "remove factor" \notin accidents'
             PROVE  /\ row'.enabled <=> row'.totp \/ row'.email
                    /\ \A u \in Threads : WholeRow(job'[u]) =>
                         (job'[u].save.enabled <=> job'[u].save.totp \/ job'[u].save.email)
  BY DEF Flags
<1>1. ASSUME NEW t \in Threads, NEW k, Begun(t, k)
      PROVE  /\ row'.enabled <=> row'.totp \/ row'.email
             /\ \A u \in Threads : WholeRow(job'[u]) =>
                  (job'[u].save.enabled <=> job'[u].save.totp \/ job'[u].save.email)
  <2>1. /\ row' = row /\ "remove factor" \notin accidents
        /\ job'[t] = k /\ \A u \in Threads \ {t} : job'[u] = job[u]
    BY <1>1 DEF Begun, Witness, Base
  <2>2. row.enabled <=> row.totp \/ row.email
    BY <2>1 DEF Flags
  <2>3. WholeRow(k) => (k.save.enabled <=> k.save.totp \/ k.save.email)
    BY <1>1, <2>2, WholeRowBegun
  <2>4. \A u \in Threads \ {t} : WholeRow(job'[u]) =>
          (job'[u].save.enabled <=> job'[u].save.totp \/ job'[u].save.email)
    BY <2>1 DEF Flags
  <2> QED BY <2>1, <2>2, <2>3, <2>4
<1>2. ASSUME NEW t \in Busy, Onward(t), accidents \subseteq accidents'
      PROVE  \A u \in Threads : WholeRow(job'[u]) =>
               (job'[u].save.enabled <=> job'[u].save.totp \/ job'[u].save.email)
  BY <1>2, WholeRowsStay DEF Flags
<1>3. ASSUME NEW t \in Threads, Statement(t)
      PROVE  /\ row'.enabled <=> row'.totp \/ row'.email
             /\ \A u \in Threads : WholeRow(job'[u]) =>
                  (job'[u].save.enabled <=> job'[u].save.totp \/ job'[u].save.email)
  <2>1. t \in Busy /\ Onward(t) /\ accidents \subseteq accidents'
    BY <1>3, StatementOnward, Records
  <2>2. CASE At(t, "save")
    BY <1>2, <1>3, <2>1, <2>2, StatementAt, FlagsSave
  <2>3. CASE ~At(t, "save")
    <3>1. row' = row
      BY <1>3, <2>1, <2>3, Records DEF At
    <3> QED BY <1>2, <2>1, <3>1 DEF Flags
  <2> QED BY <2>2, <2>3
<1>4. ASSUME NEW t \in Threads, Die(t)
      PROVE  /\ row'.enabled <=> row'.totp \/ row'.email
             /\ \A u \in Threads : WholeRow(job'[u]) =>
                  (job'[u].save.enabled <=> job'[u].save.totp \/ job'[u].save.email)
  <2>1. t \in Busy /\ Onward(t) /\ accidents \subseteq accidents' /\ row' = row
    BY <1>4, DieOnward DEF Die, Witness
  <2> QED BY <1>2, <2>1 DEF Flags
<1>5. CASE Quiet
  BY <1>5 DEF Flags, Quiet
<1> QED BY <1>1, <1>3, <1>4, <1>5, Steppings

(* mfa_enabled says whether a factor is on, unless a factor was switched   *)
(* off from a copy of the row that had gone stale (mfa.py disables,        *)
(* email_change.py).                                                       *)
THEOREM FlagsAlwaysAgree == Spec => []FlagsAgree
<1>1. Init => Base /\ Flags
  BY BaseInit DEF Init, Settled, Flags, WholeRow
<1>2. Base /\ Flags /\ [Next]_vars => (Base /\ Flags)'
  BY BaseStep, FlagsStep
<1>3. Flags => FlagsAgree
  BY DEF Flags, FlagsAgree
<1> QED BY <1>1, <1>2, <1>3, PTL DEF Spec

-----------------------------------------------------------------------------
(* MandateKept.                                                            *)
LEMMA MandateSave ==
  ASSUME Base, NEW t \in Threads, Save(t), row.required,
         (row.enabled /\ ~row'.enabled) \/ ~row'.required
  PROVE  \/ job[t].op \in {"admin-disable", "admin-update", "confirm-change"}
         \/ ~job[t].fresh
<1> SUFFICES ASSUME job[t].fresh,
                    job[t].op \notin {"admin-disable", "admin-update", "confirm-change"}
             PROVE  FALSE
  OBVIOUS
<1> DEFINE j == job[t]
<1>1. /\ Decided(j)
      /\ j.op \in Disables \cup {"start-totp", "confirm-totp", "password",
                                 "confirm-email"}
  BY FreshSave
<1>2. CASE j.op = "start-totp"
  BY <1>2, SaveRow DEF Same, Columns
<1>3. CASE j.op = "confirm-totp"
  BY <1>3, SaveRow DEF Same, Columns
<1>4. CASE j.op = "confirm-email"
  BY <1>4, SaveRow DEF Same, Columns
<1>5. CASE j.op = "disable-totp"
  <2>1. j.save.enabled = row.email /\ row.email
    BY <1>1, <1>5 DEF Decided, DecidedOn
  <2> QED BY <1>5, <2>1, SaveRow DEF Same
<1>6. CASE j.op = "disable-email"
  <2>1. j.save.enabled = row.totp /\ row.totp
    BY <1>1, <1>6 DEF Decided, DecidedOn
  <2> QED BY <1>6, <2>1, SaveRow DEF Same, Columns
<1>7. CASE j.op = "disable-all"
  BY <1>1, <1>7 DEF Decided, DecidedOn
<1>8. CASE j.op = "password"
  <2>1. row' = row
    BY <1>1, <1>8, SaveRow DEF Decided, DecidedOn
  <2> QED BY <2>1
<1> QED BY <1>1, <1>2, <1>3, <1>4, <1>5, <1>6, <1>7, <1>8 DEF Disables

LEMMA RowWrites ==
  ASSUME Base, [Next]_vars, row' # row
  PROVE  \E t \in Threads : Save(t) /\ At(t, "save")
<1>1. ASSUME NEW t \in Threads, Statement(t)
      PROVE  Save(t) /\ At(t, "save")
  <2>1. t \in Busy
    BY <1>1, StatementOnward
  <2>2. At(t, "save")
    BY <1>1, <2>1, Records DEF At
  <2> QED BY <1>1, <2>2, StatementAt
<1> QED BY <1>1, Steppings DEF Begun, Die, Quiet

(* With mfa_required set, nothing the user does from the profile turns MFA *)
(* off or lifts the mandate: only an administrator, a change of address or *)
(* a save from a stale copy does.                                          *)
THEOREM MandateAlwaysKept == Spec => MandateKept
<1>1. Base /\ [Next]_vars =>
        [row.required /\ ((row.enabled /\ ~row'.enabled) \/ ~row'.required) =>
           \E t \in Threads :
             /\ At(t, "save")
             /\ \/ job[t].op \in {"admin-disable", "admin-update", "confirm-change"}
                \/ ~job[t].fresh]_row
  BY RowWrites, MandateSave
<1> QED BY <1>1, SecondFactorBase, PTL DEF Spec, MandateKept

-----------------------------------------------------------------------------
(* TotpSecretProved.                                                       *)
LEMMA Savers ==
  ASSUME NEW j, Planned(j.op, j.todo), Saving(j)
  PROVE  j.op \in Disables \cup {"start-totp", "confirm-totp", "admin-disable",
           "password", "admin-update", "confirm-email", "confirm-change"}
BY Order, Rests DEF Saving, Orderly

LEMMA SecretSavers ==
  ASSUME NEW j, Planned(j.op, j.todo), Saving(j), Saved(j), j # Idle,
         "secret" \in DOMAIN j.save
  PROVE  \/ j.op = "start-totp" /\ j.save.secret \in Secrets
         \/ WholeRow(j)
         \/ j.op # "start-totp" /\ j.save.secret = None
<1>1. j.op \in Disables \cup {"start-totp", "confirm-totp", "admin-disable",
           "password", "admin-update", "confirm-email", "confirm-change"}
  BY Savers
<1>2. CASE j.op = "start-totp"
  <2>1. PICK s \in Secrets : j.save = [secret |-> s]
    BY <1>2 DEF Saved
  <2> QED BY <1>2, <2>1
<1>3. CASE j.op \in {"confirm-totp", "confirm-email"}
  <2>1. j.save \in {[totp |-> TRUE, enabled |-> TRUE], [email |-> TRUE, enabled |-> TRUE]}
    BY <1>3 DEF Saved
  <2>2. CASE j.save = [totp |-> TRUE, enabled |-> TRUE]
    BY <2>2
  <2>3. CASE j.save = [email |-> TRUE, enabled |-> TRUE]
    BY <2>3
  <2> QED BY <2>1, <2>2, <2>3
<1>4. CASE j.op = "disable-totp"
  <2>1. PICK b \in BOOLEAN : j.save = [totp |-> FALSE, secret |-> None, enabled |-> b]
    BY <1>4 DEF Saved
  <2> QED BY <1>4, <2>1
<1>5. CASE j.op = "disable-email"
  <2>1. PICK b \in BOOLEAN : j.save = [email |-> FALSE, enabled |-> b]
    BY <1>5 DEF Saved
  <2> QED BY <2>1
<1>6. CASE j.op = "disable-all"
  <2>1. j.save = [totp |-> FALSE, email |-> FALSE, enabled |-> FALSE, secret |-> None]
    BY <1>6 DEF Saved, Cleared
  <2> QED BY <1>6, <2>1
<1>7. CASE j.op = "admin-disable"
  <2>1. j.save = [totp |-> FALSE, email |-> FALSE, enabled |-> FALSE,
                  secret |-> None, required |-> FALSE]
    BY <1>7 DEF Saved
  <2> QED BY <1>7, <2>1
<1>8. CASE j.op \in {"password", "admin-update"}
  BY <1>8 DEF WholeRow
<1>9. CASE j.op = "confirm-change"
  <2>1. PICK a \in Addresses :
          j.save \in {[addr |-> a], [addr |-> a, email |-> FALSE],
                      [addr |-> a, email |-> FALSE, enabled |-> FALSE]}
    BY <1>9 DEF Saved
  <2>2. CASE j.save = [addr |-> a]
    BY <2>2
  <2>3. CASE j.save = [addr |-> a, email |-> FALSE]
    BY <2>3
  <2>4. CASE j.save = [addr |-> a, email |-> FALSE, enabled |-> FALSE]
    BY <2>4
  <2> QED BY <2>1, <2>2, <2>3, <2>4
<1> QED BY <1>1, <1>2, <1>3, <1>4, <1>5, <1>6, <1>7, <1>8, <1>9 DEF Disables

LEMMA Enrolling ==
  ASSUME NEW j, j.op = "start-totp", j # Idle, FormedIn(j, challenge, change)
  PROVE  /\ j.todo = <<"save">> /\ Saving(j) /\ j.save.secret \in Secrets
         /\ "secret" \in DOMAIN j.save
<1>1. Planned(j.op, j.todo) /\ (Saving(j) => Saved(j))
  BY DEF FormedIn
<1>2. j.todo = <<"save">>
  BY <1>1, Order DEF Orderly
<1>3. Saving(j)
  BY <1>2, Remains1 DEF Saving
<1>4. PICK s \in Secrets : j.save = [secret |-> s]
  BY <1>1, <1>3 DEF Saved
<1> QED BY <1>2, <1>3, <1>4

LEMMA ApartBegun ==
  ASSUME Base, Apart, NEW t \in Threads, NEW k, Begun(t, k)
  PROVE  Apart'
<1>1. /\ row' = row /\ job'[t] = k /\ job[t] = Idle
      /\ \A u \in Threads \ {t} : job'[u] = job[u]
  BY DEF Begun, Base
<1>2. /\ Planned(k.op, k.todo) /\ (Saving(k) => Saved(k)) /\ k # Idle
      /\ FormedIn(k, challenge, change) /\ Proper(k)
  BY DEF Begun, Proper, Formed, FormedIn
<1>3. None \notin Secrets
  BY SecondFactorAssumption DEF SecondFactorAssumption
<1>4. ASSUME k.op = "start-totp"
      PROVE  /\ k.save.secret # row.secret
             /\ \A u \in Threads \ {t} :
                  job[u] # Idle /\ Saving(job[u]) /\ "secret" \in DOMAIN job[u].save =>
                    job[u].save.secret # k.save.secret
  <2>1. k.save.secret \in FreshSecrets
    BY <1>2, <1>4 DEF Proper
  <2> QED BY <2>1 DEF FreshSecrets, Busy
<1>5. ASSUME NEW u \in Threads \ {t}, job[u] # Idle, job[u].op = "start-totp"
      PROVE  /\ job[u].save.secret # row.secret
             /\ \A v \in Threads \ {u} :
                  job'[v] # Idle /\ Saving(job'[v]) /\ "secret" \in DOMAIN job'[v].save =>
                    job'[v].save.secret # job[u].save.secret
  <2>1. job[u].save.secret \in Secrets /\ Saving(job[u]) /\ "secret" \in DOMAIN job[u].save
    BY <1>5, Enrolling DEF Base, Formed
  <2>2. job[u].save.secret # row.secret
    BY <1>5 DEF Apart
  <2>3. ASSUME Saving(k), "secret" \in DOMAIN k.save
        PROVE  k.save.secret # job[u].save.secret
    <3>1. CASE k.op = "start-totp"
      BY <1>4, <1>5, <2>1, <3>1
    <3>2. CASE WholeRow(k)
      BY <2>2, <3>2, WholeRowBegun
    <3>3. CASE k.save.secret = None
      BY <1>3, <2>1, <3>3
    <3> QED BY <1>2, <2>3, <3>1, <3>2, <3>3, SecretSavers
  <2> QED BY <1>1, <1>5, <2>2, <2>3 DEF Apart
<1> QED BY <1>1, <1>4, <1>5 DEF Apart

LEMMA ApartOnward ==
  ASSUME Base, Apart, NEW t \in Busy, Onward(t), row'.secret = row.secret \/ Save(t)
  PROVE  Apart'
<1>1. ASSUME NEW u \in Threads, job'[u] # Idle, job'[u].op = "start-totp"
      PROVE  /\ u # t /\ job[u] # Idle /\ job[u].op = "start-totp"
             /\ job[u].save.secret = job'[u].save.secret
  <2>1. u # t
    <3>1. ASSUME u = t PROVE FALSE
      <4>1. job[t].op = "start-totp" /\ Tail(job[t].todo) # <<>> /\ job[t] # Idle
        BY <1>1, <3>1, Copies DEF Busy
      <4>2. job[t].todo = <<"save">>
        BY <4>1, Enrolling DEF Base, Formed, Busy
      <4> QED BY <4>1, <4>2, List1
    <3> QED BY <3>1
  <2> QED BY <1>1, <2>1, Copies
<1>2. ASSUME NEW u \in Threads \ {t}, job[u] # Idle, job[u].op = "start-totp"
      PROVE  job[u].save.secret # row'.secret
  <2>1. CASE row'.secret = row.secret
    BY <1>2, <2>1 DEF Apart
  <2>2. CASE Save(t) /\ row'.secret # row.secret
    <3>1. /\ "secret" \in Columns /\ t \in Threads
          /\ row'["secret"] = IF "secret" \in DOMAIN job[t].save
                              THEN job[t].save["secret"] ELSE row["secret"]
      BY <2>2, SaveColumns DEF Columns, Busy
    <3>2. "secret" \in DOMAIN job[t].save /\ row'.secret = job[t].save.secret
      BY <2>2, <3>1
    <3>3. Saving(job[t]) /\ job[t] # Idle
      BY <2>2, <3>1, FreshSave DEF Busy
    <3> QED BY <1>2, <3>1, <3>2, <3>3 DEF Apart
  <2> QED BY <2>1, <2>2
<1>3. ASSUME NEW v \in Threads, job'[v] # Idle, Saving(job'[v])
      PROVE  job[v] # Idle /\ Saving(job[v]) /\ job'[v].save = job[v].save
  <2>1. CASE v # t
    BY <1>3, <2>1, Copies DEF Saving
  <2>2. CASE v = t
    <3>1. /\ Planned(job[t].op, job[t].todo) /\ job'[t].todo = Tail(job[t].todo)
          /\ job'[t].save = IF At(t, "save") THEN NoColumns ELSE job[t].save
      BY <1>3, <2>2, Copies, Busies
    <3> QED BY <1>3, <2>2, <3>1, Rests DEF Saving, At, Busy
  <2> QED BY <2>1, <2>2
<1> QED BY <1>1, <1>2, <1>3 DEF Apart

LEMMA ApartStep ==
  ASSUME Base, Apart, [Next]_vars
  PROVE  Apart'
<1>1. ASSUME NEW t \in Threads, Statement(t) PROVE Apart'
  <2>1. t \in Busy /\ Onward(t)
    BY <1>1, StatementOnward
  <2>2. row'.secret = row.secret \/ Save(t)
    BY <1>1, <2>1, Records, StatementAt DEF At
  <2> QED BY <2>1, <2>2, ApartOnward
<1>2. ASSUME NEW t \in Threads, Die(t) PROVE Apart'
  BY <1>2, DieOnward, ApartOnward DEF Die
<1>3. CASE Quiet
  BY <1>3 DEF Apart, Quiet
<1> QED BY <1>1, <1>2, <1>3, ApartBegun, Steppings

LEMMA SecretSave ==
  ASSUME Base, Apart, SecretProved, NEW t \in Threads, Save(t),
         "enrol totp" \notin accidents'
  PROVE  /\ row'.totp => row'.secret \in proved'
         /\ \A u \in Threads \ {t} : WholeRow(job[u]) /\ job[u].save.totp =>
              job[u].save.secret \in proved'
<1> DEFINE j == job[t]
<1>1. /\ Kind(j.op) = "enrol totp" => Decided(j)
      /\ j.op \in Disables \cup
              {"start-totp", "confirm-totp", "admin-disable", "password",
               "admin-update", "confirm-email", "confirm-change"}
      /\ t \in Busy /\ j # Idle
  BY FreshSave DEF Busy
<1>2. /\ row.totp => row.secret \in proved
      /\ \A u \in Threads : WholeRow(job[u]) /\ job[u].save.totp =>
           job[u].save.secret \in proved
  BY DEF SecretProved, Save, WriteOver, Witness
<1>3. /\ j.op = "start-totp" => proved' = proved \ {j.save.secret}
      /\ j.op = "confirm-totp" => proved' = proved \cup {j.found}
      /\ j.op # "start-totp" => proved \subseteq proved'
  BY DEF Save
<1>4. CASE j.op = "start-totp"
  <2>1. ~row.totp
    BY <1>1, <1>4 DEF Kind, Disables, Decided, DecidedOn
  <2>2. ~row'.totp
    BY <1>4, <2>1, SaveRow DEF Same, Columns
  <2>3. ASSUME NEW u \in Threads \ {t}, WholeRow(job[u])
        PROVE  job[u].save.secret # j.save.secret
    <3>1. Saving(job[u]) /\ job[u].save \in Rows /\ job[u] # Idle
      BY <2>3, WholeRows DEF WholeRow
    <3>2. "secret" \in DOMAIN job[u].save
      BY <3>1 DEF Rows
    <3> QED BY <1>1, <1>4, <3>1, <3>2 DEF Apart
  <2> QED BY <1>2, <1>3, <1>4, <2>2, <2>3
<1>5. CASE j.op = "confirm-totp"
  <2>1. j.found = row.secret
    BY <1>1, <1>5 DEF Kind, Disables, Decided, DecidedOn
  <2>2. row'.secret = row.secret
    BY <1>5, SaveRow DEF Same, Columns
  <2> QED BY <1>2, <1>3, <1>5, <2>1, <2>2
<1>6. CASE j.op \in {"disable-totp", "disable-all", "admin-disable"}
  <2>1. ~row'.totp
    BY <1>6, SaveRow
  <2> QED BY <1>2, <1>3, <1>6, <2>1
<1>7. CASE j.op \in {"disable-email", "confirm-email", "confirm-change"}
  <2>1. row'.totp = row.totp /\ row'.secret = row.secret
    BY <1>7, SaveRow DEF Same, Columns
  <2> QED BY <1>2, <1>3, <1>7, <2>1
<1>8. CASE j.op \in {"admin-update", "password"}
  <2>1. WholeRow(j) /\ row' = j.save
    BY <1>1, <1>8, SaveRow DEF WholeRow
  <2> QED BY <1>2, <1>3, <1>8, <2>1
<1> QED BY <1>1, <1>4, <1>5, <1>6, <1>7, <1>8 DEF Disables

LEMMA SecretStep ==
  ASSUME Base, Apart, SecretProved, [Next]_vars
  PROVE  SecretProved'
<1> DEFINE Goal == /\ row'.totp => row'.secret \in proved'
                   /\ \A u \in Threads : WholeRow(job'[u]) /\ job'[u].save.totp =>
                        job'[u].save.secret \in proved'
<1> SUFFICES ASSUME "enrol totp" \notin accidents'
             PROVE  Goal
  BY DEF SecretProved
<1>1. ASSUME NEW t \in Threads, NEW k, Begun(t, k)
      PROVE  Goal
  <2>1. /\ row' = row /\ proved' = proved /\ "enrol totp" \notin accidents
        /\ job'[t] = k /\ \A u \in Threads \ {t} : job'[u] = job[u]
    BY <1>1 DEF Begun, Witness, Base
  <2>2. row.totp => row.secret \in proved
    BY <2>1 DEF SecretProved
  <2>3. WholeRow(k) /\ k.save.totp => k.save.secret \in proved
    BY <1>1, <2>2, WholeRowBegun
  <2>4. \A u \in Threads \ {t} : WholeRow(job'[u]) /\ job'[u].save.totp =>
          job'[u].save.secret \in proved
    BY <2>1 DEF SecretProved
  <2> QED BY <2>1, <2>2, <2>3, <2>4
<1>2. ASSUME NEW t \in Threads, Statement(t)
      PROVE  Goal
  <2>1. t \in Busy /\ Onward(t) /\ accidents \subseteq accidents'
    BY <1>2, StatementOnward, Records
  <2>2. CASE At(t, "save")
    <3>1. Save(t)
      BY <1>2, <2>2, StatementAt
    <3> QED BY <2>1, <3>1, SecretSave, WholeRowsStay
  <2>3. CASE ~At(t, "save")
    <3>1. row' = row /\ proved \subseteq proved'
      BY <1>2, <2>1, <2>3, Records DEF At
    <3> QED BY <2>1, <3>1, WholeRowsStay DEF SecretProved
  <2> QED BY <2>2, <2>3
<1>3. ASSUME NEW t \in Threads, Die(t)
      PROVE  Goal
  <2>1. t \in Busy /\ Onward(t)
    BY <1>3, DieOnward
  <2>2. row' = row /\ proved' = proved /\ accidents \subseteq accidents'
    BY <1>3 DEF Die, Witness
  <2> QED BY <2>1, <2>2, WholeRowsStay DEF SecretProved
<1>4. CASE Quiet
  BY <1>4 DEF SecretProved, Quiet
<1> HIDE DEF Goal
<1> QED BY <1>1, <1>2, <1>3, <1>4, Steppings

(* While TOTP is on, a code of the stored secret was typed back: the two   *)
(* enrolment handlers of mfa.py may break it only from a stale copy.       *)
THEOREM TotpSecretAlwaysProved == Spec => []TotpSecretProved
<1>1. Init => Base /\ Apart /\ SecretProved
  BY BaseInit DEF Init, Apart, SecretProved, WholeRow
<1>2. Base /\ Apart /\ SecretProved /\ [Next]_vars => (Base /\ Apart /\ SecretProved)'
  BY BaseStep, ApartStep, SecretStep
<1>3. SecretProved => TotpSecretProved
  BY DEF SecretProved, TotpSecretProved
<1> QED BY <1>1, <1>2, <1>3, PTL DEF Spec

-----------------------------------------------------------------------------
(* FactorAddressProved.                                                    *)
Answered(j) == j # Idle /\ j.op = "confirm-email" /\ Saving(j) /\ ~Remains("use-code", j.todo)

LEMMA AddressSave ==
  ASSUME Base, AddressProved, NEW t \in Threads, Save(t),
         "whole row" \notin accidents'
  PROVE  /\ row'.email => row'.addr \in proved'
         /\ \/ row'.addr \in proved'
            \/ /\ row'.addr = row.addr
               /\ row.addr \in proved => row.addr \in proved'
<1> DEFINE j == job[t]
<1>1. /\ Kind(j.op) = "whole row" => Decided(j)
      /\ j.op \in Disables \cup
              {"start-totp", "confirm-totp", "admin-disable", "password",
               "admin-update", "confirm-email", "confirm-change"}
      /\ t \in Busy /\ j # Idle /\ Saving(j) /\ Head(j.todo) = "save"
      /\ Planned(j.op, j.todo)
  BY FreshSave, Busies DEF Busy
<1>2. /\ row.email => row.addr \in proved
      /\ Answered(j) => row.addr \in proved
  BY DEF AddressProved, Save, WriteOver, Witness, Answered
<1>3. /\ j.op = "start-totp" => proved' = proved \ {j.save.secret}
      /\ j.op = "confirm-change" => proved' = proved \cup {j.save.addr}
      /\ j.op # "start-totp" => proved \subseteq proved'
  BY DEF Save
<1>4. row.addr \in proved => row.addr \in proved'
  <2>1. j.op = "start-totp" => j.save.secret # row.addr
    <3>1. j.op = "start-totp" => j.save.secret \in Secrets
      BY SaveRow
    <3>2. row.addr \in Addresses
      BY DEF Base, Types, Rows
    <3> QED BY <3>1, <3>2, SecondFactorAssumption DEF SecondFactorAssumption
  <2> QED BY <1>3, <2>1
<1>5. CASE j.op \in {"start-totp", "confirm-totp", "disable-totp"}
  <2>1. row'.email = row.email /\ row'.addr = row.addr
    BY <1>5, SaveRow DEF Same, Columns
  <2> QED BY <1>2, <1>4, <2>1
<1>6. CASE j.op \in {"disable-email", "disable-all", "admin-disable"}
  <2>1. CASE j.op = "disable-email"
    BY <1>4, <2>1, SaveRow DEF Same, Columns
  <2>2. CASE j.op \in {"disable-all", "admin-disable"}
    BY <1>4, <2>2, SaveRow DEF Same
  <2> QED BY <1>6, <2>1, <2>2
<1>7. CASE j.op \in {"admin-update", "password"}
  <2>1. row'.email = row.email /\ row'.addr = row.addr
    <3>1. Decided(j) /\ row' = j.save
      BY <1>1, <1>7, SaveRow DEF Kind, Disables
    <3>2. row \in Rows
      BY DEF Base, Types
    <3>3. CASE j.op = "password"
      BY <3>1, <3>3 DEF Decided, DecidedOn
    <3>4. CASE j.op = "admin-update"
      <4>1. PICK b \in BOOLEAN : j.save = [row EXCEPT !.required = b]
        BY <3>1, <3>4 DEF Decided, DecidedOn
      <4> QED BY <3>1, <3>2, <4>1 DEF Rows
    <3> QED BY <1>7, <3>3, <3>4
  <2> QED BY <1>2, <1>4, <2>1
<1>8. CASE j.op = "confirm-email"
  <2>1. row'.addr = row.addr
    BY <1>8, SaveRow DEF Same, Columns
  <2>2. Answered(j)
    BY <1>1, <1>8, Rests DEF Answered
  <2> QED BY <1>2, <1>4, <2>1, <2>2
<1>9. CASE j.op = "confirm-change"
  <2>1. row'.addr = j.save.addr
    BY <1>9, SaveRow
  <2> QED BY <1>3, <1>9, <2>1
<1> QED BY <1>1, <1>5, <1>6, <1>7, <1>8, <1>9 DEF Disables

(* The mails in flight go to the address of the row, or it has answered.   *)
Mailed ==
  /\ \A c \in Codes : challenge[c] = None \/ challenge[c].at \in {None, row.addr}
  /\ \A t \in Threads : job[t] # Idle /\ job[t].op = "send-code" =>
       job[t].save.addr = row.addr

LEMMA OneCode ==
  ASSUME Types, NEW d \in Codes, challenge[d] # None, NEW x,
         challenge' = [challenge EXCEPT ![d] = x]
  PROVE  /\ challenge[d] \in Challenges
         /\ \A c \in Codes : challenge'[c] = IF c = d THEN x ELSE challenge[c]
BY DEF Types

LEMMA MailedStatement ==
  ASSUME Base, Mailed, NEW t \in Threads, Statement(t), UNCHANGED left,
         row'.addr = row.addr
  PROVE  Mailed'
<1>1. /\ t \in Busy /\ Onward(t) /\ Types /\ Types'
      /\ Orderly(job[t].op, job[t].todo)
  BY StatementOnward, StatementTypes, Busies DEF Base
<1>2. \A u \in Threads : job'[u] # Idle /\ job'[u].op = "send-code" =>
        job'[u].save.addr = row'.addr
  <2>1. ASSUME NEW u \in Threads, job'[u] # Idle, job'[u].op = "send-code"
        PROVE  job[u] # Idle /\ job[u].op = "send-code" /\ job'[u].save = job[u].save
    <3>1. CASE u # t
      BY <1>1, <2>1, <3>1, Copies
    <3>2. CASE u = t
      <4>1. job[t].op = "send-code" /\ job'[t].save = IF At(t, "save") THEN NoColumns ELSE job[t].save
        BY <1>1, <2>1, <3>2, Copies
      <4>2. ~At(t, "save")
        BY <1>1, <4>1 DEF Orderly, At
      <4> QED BY <1>1, <3>2, <4>1, <4>2 DEF Busy
    <3> QED BY <3>1, <3>2
  <2> QED BY <2>1 DEF Mailed
<1>3. \A c \in Codes : challenge'[c] = None \/ challenge'[c].at \in {None, row.addr}
  <2>1. CASE Head(job[t].todo) \notin {"drop-challenges", "burn", "create", "send",
                                       "use-code"}
    BY <2>1, Records DEF Mailed
  <2>2. CASE DropChallenges(t)
    BY <2>2 DEF DropChallenges
  <2>3. CASE Burn(t)
    <3>1. \A x \in Challenges : [x EXCEPT !.used = TRUE].at = x.at
      BY DEF Challenges
    <3> QED BY <1>1, <2>3, <3>1 DEF Burn, Types, Mailed
  <2>4. CASE CreateCode(t)
    <3> DEFINE c == CHOOSE x \in FreshCodes : TRUE
    <3>1. challenge' = [challenge EXCEPT ![c] = [at |-> None, used |-> FALSE, age |-> 0]]
      BY <2>4 DEF CreateCode
    <3> HIDE DEF c
    <3> QED BY <1>1, <3>1 DEF Types, Mailed
  <2>5. CASE UseCode(t)
    <3>1. \A x \in Challenges : [x EXCEPT !.used = TRUE].at = x.at
      BY DEF Challenges
    <3> PICK d : d = job[t].found
      OBVIOUS
    <3> PICK y : y = [challenge[d] EXCEPT !.used = TRUE]
      OBVIOUS
    <3>2. \/ challenge' = challenge
          \/ challenge[d] # None /\ challenge' = [challenge EXCEPT ![d] = y]
      BY <2>5 DEF UseCode
    <3>3. d \in Codes
      BY <1>1, <2>5 DEF UseCode, At, Base, Formed, FormedIn, HeldIn, Busy
    <3>4. CASE challenge' # challenge
      <4>1. challenge[d] # None /\ challenge' = [challenge EXCEPT ![d] = y]
        BY <3>2, <3>4
      <4>2. /\ challenge[d] \in Challenges
            /\ \A c \in Codes : challenge'[c] = IF c = d THEN y ELSE challenge[c]
        <5>1. challenge \in [Codes -> Challenges \cup {None}]
          BY <1>1 DEF Types
        <5> QED BY <3>3, <4>1, <5>1
      <4>3. y.at \in {None, row.addr}
        BY <3>1, <3>3, <4>1, <4>2 DEF Mailed
      <4>4. challenge'[d].at \in {None, row.addr}
        BY <3>3, <4>2, <4>3
      <4>5. \A c \in Codes \ {d} : challenge'[c] = challenge[c]
        BY <4>2
      <4> QED BY <4>4, <4>5 DEF Mailed
    <3> QED BY <3>4 DEF Mailed
  <2>6. CASE SendMail(t)
    <3>1. job[t].op = "send-code"
      BY <1>1, <2>6 DEF SendMail, At, Orderly
    <3>2. job[t].save.addr = row.addr
      BY <1>1, <3>1 DEF Mailed, Busy
    <3>3. \A x \in Challenges : [x EXCEPT !.at = row.addr].at = row.addr
      BY DEF Challenges
    <3>4. \/ challenge' = challenge
          \/ /\ challenge[job[t].found] # None
             /\ challenge' = [challenge EXCEPT ![job[t].found] =
                               [challenge[job[t].found] EXCEPT !.at = row.addr]]
      BY <2>6, <3>2 DEF SendMail
    <3>5. job[t].found \in Codes
      BY <1>1, <2>6 DEF SendMail, At, Base, Formed, FormedIn, HeldIn, Busy
    <3>6. CASE challenge' # challenge
      <4>1. /\ challenge[job[t].found] \in Challenges
            /\ \A c \in Codes : challenge'[c] =
                 IF c = job[t].found
                 THEN [challenge[job[t].found] EXCEPT !.at = row.addr]
                 ELSE challenge[c]
        BY <1>1, <3>4, <3>5, <3>6, OneCode
      <4> QED BY <3>3, <3>5, <4>1 DEF Mailed
    <3> QED BY <3>6 DEF Mailed
  <2> QED BY <1>1, <2>1, <2>2, <2>3, <2>4, <2>5, <2>6, StatementAt DEF At
<1> QED BY <1>2, <1>3 DEF Mailed

LEMMA AddressStep ==
  ASSUME Base, AddressProved, [Next]_vars
  PROVE  AddressProved'
<1> DEFINE Goal == /\ row'.email => row'.addr \in proved'
                   /\ \A u \in Threads : Answered(job'[u]) => row'.addr \in proved'
                   /\ row'.addr \in proved' \/ Mailed'
<1>0. AddressProved <=> ("whole row" \notin accidents =>
                           /\ row.email => row.addr \in proved
                           /\ \A u \in Threads : Answered(job[u]) => row.addr \in proved
                           /\ row.addr \in proved \/ Mailed)
  BY DEF AddressProved, Answered, Mailed
<1> SUFFICES ASSUME "whole row" \notin accidents'
             PROVE  Goal
  BY DEF AddressProved, Answered, Mailed
<1>1. ASSUME NEW t \in Threads, NEW k, Begun(t, k)
      PROVE  Goal
  <2>1. /\ row' = row /\ proved' = proved /\ "whole row" \notin accidents
        /\ challenge' = challenge
        /\ job'[t] = k /\ \A u \in Threads \ {t} : job'[u] = job[u]
    BY <1>1 DEF Begun, Witness, Base, tables
  <2>2. ~Answered(k)
    BY <1>1 DEF Begun, Proper, Answered
  <2>3. k.op = "send-code" => k.save.addr = row.addr
    BY <1>1 DEF Begun, Proper
  <2>4. Mailed => Mailed'
    BY <2>1, <2>3 DEF Mailed
  <2> QED BY <1>0, <2>1, <2>2, <2>4
<1>2. ASSUME NEW t \in Threads, Statement(t), UNCHANGED left
      PROVE  Goal
  <2>1. /\ t \in Busy /\ Onward(t) /\ accidents \subseteq accidents'
        /\ Planned(job[t].op, job[t].todo)
    BY <1>2, StatementOnward, Records, Busies
  <2>2. /\ row.email => row.addr \in proved
        /\ \A u \in Threads : Answered(job[u]) => row.addr \in proved
        /\ row.addr \in proved \/ Mailed
    BY <1>0, <2>1
  <2>3. ASSUME NEW u \in Threads, Answered(job'[u]), ~Answered(job[u])
        PROVE  u = t /\ Head(job[t].todo) = "use-code"
    <3>1. CASE u # t
      BY <2>1, <2>3, <3>1, Copies DEF Answered, Saving
    <3>2. CASE u = t
      <4>1. job'[t].todo = Tail(job[t].todo) /\ job'[t].op = job[t].op /\ job[t] # Idle
        BY <2>1, <2>3, <3>2, Copies DEF Answered, Busy
      <4>2. \A s : Remains(s, job[t].todo) <=>
                    s = Head(job[t].todo) \/ Remains(s, Tail(job[t].todo))
        BY <2>1, Rests
      <4>3. job[t].op = "confirm-email" /\ Saving(job[t])
        BY <2>3, <3>2, <4>1, <4>2 DEF Answered, Saving
      <4>4. ~Remains("use-code", Tail(job[t].todo)) /\ Remains("use-code", job[t].todo)
        BY <2>3, <3>2, <4>1, <4>3 DEF Answered
      <4> QED BY <3>2, <4>2, <4>4
    <3> QED BY <3>1, <3>2
  <2>4. CASE At(t, "save")
    <3>1. Save(t)
      BY <1>2, <2>4, StatementAt
    <3>2. /\ row'.email => row'.addr \in proved'
          /\ \/ row'.addr \in proved'
             \/ /\ row'.addr = row.addr
                /\ row.addr \in proved => row.addr \in proved'
      BY <3>1, AddressSave
    <3>3. row'.addr = row.addr /\ Mailed => Mailed'
      BY <1>2, MailedStatement
    <3>4. \A u \in Threads : Answered(job'[u]) => Answered(job[u])
      BY <2>3, <2>4 DEF At
    <3> QED BY <2>2, <3>2, <3>3, <3>4
  <2>5. CASE ~At(t, "save")
    <3>1. row' = row /\ proved \subseteq proved'
      BY <1>2, <2>1, <2>5, Records DEF At
    <3>2. Mailed => Mailed'
      BY <1>2, <3>1, MailedStatement
    <3>3. ASSUME At(t, "use-code"), job'[t] # Idle
          PROVE  row.addr \in proved'
      <4>1. UseCode(t)
        BY <1>2, <3>3, StatementAt
      <4> DEFINE c == job[t].found
      <4>2. c \in Codes /\ (challenge[c] = None \/ challenge[c].at # None)
        BY <2>1, <3>3 DEF Base, Formed, FormedIn, HeldIn, At, Busy
      <4>3. challenge[c] # None /\ proved' = proved \cup {challenge[c].at}
        BY <2>1, <3>3, <4>1 DEF UseCode, Abandon, Base
      <4> QED BY <2>2, <4>2, <4>3 DEF Mailed
    <3>4. \A u \in Threads : Answered(job'[u]) => row.addr \in proved'
      BY <2>1, <2>2, <2>3, <3>1, <3>3 DEF At, Answered
    <3> QED BY <2>2, <3>1, <3>2, <3>4
  <2> QED BY <2>4, <2>5
<1>3. ASSUME NEW t \in Threads, Die(t)
      PROVE  Goal
  <2>1. t \in Busy /\ Onward(t) /\ job'[t] = Idle
    BY <1>3, DieOnward
  <2>2. UNCHANGED <<row, proved, challenge>> /\ accidents \subseteq accidents'
    BY <1>3 DEF Die, Witness, tables
  <2>3. \A u \in Threads : Answered(job'[u]) => Answered(job[u])
    BY <2>1, Copies DEF Answered, Saving
  <2>4. Mailed => Mailed'
    BY <2>1, <2>2, Copies DEF Mailed
  <2> QED BY <1>0, <2>2, <2>3, <2>4
<1>4. CASE Quiet
  <2>1. UNCHANGED <<row, proved, accidents, job>>
    BY <1>4 DEF Quiet
  <2>2. Mailed => Mailed'
    BY <1>4, <2>1 DEF Mailed, Quiet
  <2> QED BY <1>0, <2>1, <2>2
<1> HIDE DEF Goal
<1> QED BY <1>1, <1>2, <1>3, <1>4, Steppings

(* The email factor is never on for an address that has not typed back a   *)
(* code or followed a link, unless a whole-row save came from a stale copy *)
(* (services/user.py, services/password_reset.py).                         *)
THEOREM FactorAddressAlwaysProved == Spec => []FactorAddressProved
<1>1. Init => Base /\ AddressProved
  <2>1. ASSUME Init PROVE AddressProved
    BY <2>1 DEF Init, AddressProved
  <2> QED BY <2>1, BaseInit
<1>2. Base /\ AddressProved /\ [Next]_vars => (Base /\ AddressProved)'
  BY BaseStep, AddressStep
<1>3. AddressProved => FactorAddressProved
  BY DEF AddressProved, FactorAddressProved
<1> QED BY <1>1, <1>2, <1>3, PTL DEF Spec

-----------------------------------------------------------------------------
(* CodesMatchFactors.                                                      *)
Unused == {b \in Batches : recovery'[b] # "none"}

LEMMA TouchOnward ==
  ASSUME Base, NEW t \in Busy, Onward(t), NEW u \in Threads,
         job'[u] # Idle, TouchesRecovery(job'[u].todo)
  PROVE  /\ Touches(u)
         /\ u = t => /\ Head(job[t].todo) # "mint"
                     /\ job'[t].todo = Tail(job[t].todo) /\ Tail(job[t].todo) # <<>>
<1>1. CASE u # t
  BY <1>1, Copies DEF Touches
<1>2. CASE u = t
  <2>1. /\ Planned(job[t].op, job[t].todo) /\ job'[t].todo = Tail(job[t].todo)
        /\ Tail(job[t].todo) # <<>>
    BY <1>2, Copies, Busies
  <2>2. \A s : Remains(s, job[t].todo) <=>
           s = Head(job[t].todo) \/ Remains(s, Tail(job[t].todo))
    BY <2>1, Rests
  <2>3. Head(job[t].todo) # "mint"
    BY <1>2, <2>1, Rests
  <2> QED BY <1>2, <2>1, <2>2, <2>3 DEF Touches, TouchesRecovery, Busy
<1> QED BY <1>1, <1>2

LEMMA AtTouches ==
  ASSUME Base, NEW t \in Threads, At(t, "mint") \/ At(t, "drop-recovery")
  PROVE  Touches(t)
<1>1. t \in Busy /\ Planned(job[t].op, job[t].todo)
  BY Busies DEF At
<1> QED BY <1>1, Rests DEF At, Touches, TouchesRecovery, Busy

LEMMA OneBatchBegun ==
  ASSUME Base, OneBatch, NEW t \in Threads, NEW k, Begun(t, k)
  PROVE  OneBatch'
<1> SUFFICES ASSUME "other" \notin accidents'
             PROVE  /\ \A u, v \in Threads : Touches(u)' /\ Touches(v)' => u = v
                    /\ \A u \in Threads : At(u, "mint")' => Unused = {}
                    /\ \A b, c \in Unused : b = c
  BY DEF OneBatch, There, Unused
<1>1. /\ recovery' = recovery /\ job'[t] = k /\ job[t] = Idle
      /\ \A u \in Threads \ {t} : job'[u] = job[u]
      /\ "other" \notin accidents
      /\ TouchesRecovery(k.todo) => \A u \in Threads : ~Touches(u)
      /\ Head(k.todo) # "mint"
  BY DEF Begun, Base, tables, Witness, Proper, Touches, Busy
<1>2. Unused = There
  BY <1>1 DEF Unused, There
<1>3. \A u \in Threads \ {t} : At(u, "mint")' => At(u, "mint")
  BY <1>1 DEF At, Busy
<1>4. ~At(t, "mint")'
  BY <1>1 DEF At, Busy
<1>5. \A u \in Threads \ {t} : Touches(u)' => Touches(u)
  BY <1>1 DEF Touches
<1>6. Touches(t)' => TouchesRecovery(k.todo)
  BY <1>1 DEF Touches
<1> QED BY <1>1, <1>2, <1>3, <1>4, <1>5, <1>6 DEF OneBatch

LEMMA OneBatchStatement ==
  ASSUME Base, OneBatch, NEW t \in Threads, Statement(t)
  PROVE  OneBatch'
<1> SUFFICES ASSUME "other" \notin accidents'
             PROVE  /\ \A u, v \in Threads : Touches(u)' /\ Touches(v)' => u = v
                    /\ \A u \in Threads : At(u, "mint")' => Unused = {}
                    /\ \A b, c \in Unused : b = c
  BY DEF OneBatch, There, Unused
<1>1. /\ t \in Busy /\ Onward(t) /\ "other" \notin accidents
      /\ Planned(job[t].op, job[t].todo) /\ Orderly(job[t].op, job[t].todo)
  BY StatementOnward, Records, Busies
<1>2. /\ \A u, v \in Threads : Touches(u) /\ Touches(v) => u = v
      /\ \A u \in Threads : At(u, "mint") => There = {}
      /\ \A b, c \in There : b = c
  BY <1>1 DEF OneBatch
<1>3. \A u \in Threads : Touches(u)' => Touches(u)
  BY <1>1, TouchOnward DEF Touches
<1>4. ASSUME NEW u \in Threads, At(u, "mint")'
      PROVE  IF u = t THEN At(t, "drop-recovery") ELSE At(u, "mint")
  <2>1. CASE u # t
    BY <1>1, <1>4, <2>1, Copies DEF At, Busy
  <2>2. CASE u = t
    <3>1. Tail(job[t].todo) # <<>> /\ Head(Tail(job[t].todo)) = "mint"
      BY <1>1, <1>4, <2>2, Copies DEF At, Busy
    <3>2. Head(job[t].todo) = "drop-recovery"
      BY <1>1, <3>1 DEF Orderly, Before
    <3> QED BY <1>1, <2>2, <3>2 DEF At
  <2> QED BY <2>1, <2>2
<1>5. CASE At(t, "drop-recovery")
  <2>1. recovery' = [b \in Batches |-> "none"]
    BY <1>5, StatementAt DEF DropRecovery
  <2>2. Unused = {}
    BY <2>1 DEF Unused
  <2> QED BY <1>2, <1>3, <2>2
<1>6. CASE At(t, "mint")
  <2> DEFINE n == CHOOSE b \in FreshBatches : TRUE
  <2>1. recovery' = [recovery EXCEPT ![n] = "unused"]
    BY <1>6, StatementAt DEF Mint
  <2> HIDE DEF n
  <2>2. There = {} /\ Touches(t)
    BY <1>2, <1>6, AtTouches
  <2>3. \A b, c \in Unused : b = c
    BY <2>1, <2>2 DEF Unused, There, Base, Types
  <2>4. \A u \in Threads : ~At(u, "mint")'
    <3>1. ASSUME NEW u \in Threads, At(u, "mint")' PROVE FALSE
      <4>1. CASE u = t
        BY <1>4, <1>6, <3>1, <4>1 DEF At
      <4>2. CASE u # t
        BY <1>2, <1>4, <2>2, <3>1, <4>2, AtTouches
      <4> QED BY <4>1, <4>2
    <3> QED BY <3>1
  <2> QED BY <1>2, <1>3, <2>3, <2>4
<1>7. CASE ~At(t, "drop-recovery") /\ ~At(t, "mint")
  <2>1. Unused = There
    <3>1. CASE At(t, "use-recovery")
      <4>1. \/ recovery' = recovery
            \/ /\ recovery[job[t].found] # "none"
               /\ recovery' = [recovery EXCEPT ![job[t].found] = "used"]
        BY <3>1, StatementAt DEF UseRecovery
      <4> QED BY <4>1 DEF Unused, There, Base, Types
    <3>2. CASE ~At(t, "use-recovery")
      <4>1. recovery' = recovery
        BY <1>1, <1>7, <3>2, Records DEF At
      <4> QED BY <4>1 DEF Unused, There
    <3> QED BY <3>1, <3>2
  <2> QED BY <1>2, <1>3, <1>4, <1>7, <2>1
<1> QED BY <1>5, <1>6, <1>7

LEMMA OneBatchStep ==
  ASSUME Base, OneBatch, [Next]_vars
  PROVE  OneBatch'
<1>1. ASSUME NEW t \in Threads, Die(t) PROVE OneBatch'
  <2>1. t \in Busy /\ Onward(t) /\ job'[t] = Idle
    BY <1>1, DieOnward
  <2>2. recovery' = recovery /\ accidents \subseteq accidents'
    BY <1>1 DEF Die, tables, Witness
  <2>3. \A u \in Threads : Touches(u)' => Touches(u)
    BY <2>1, TouchOnward DEF Touches
  <2>4. \A u \in Threads : At(u, "mint")' => At(u, "mint")
    BY <2>1, Copies DEF At, Busy
  <2> QED BY <2>2, <2>3, <2>4 DEF OneBatch, There
<1>2. CASE Quiet
  BY <1>2 DEF OneBatch, Quiet, Touches, At, Busy, There
<1> QED BY <1>1, <1>2, OneBatchBegun, OneBatchStatement, Steppings

LEMMA OneBatchInit ==
  ASSUME Init
  PROVE  OneBatch
<1>1. PICK n \in Batches :
        recovery = [b \in Batches |-> IF row.enabled /\ b = n THEN "unused" ELSE "none"]
  BY DEF Init
<1>2. \A b, c \in There : b = c
  BY <1>1 DEF There
<1> QED BY <1>2 DEF Init, OneBatch, Touches, At, Busy

(* Which plans touch the codes, and to what end.                           *)
LEMMA Touching ==
  ASSUME NEW op, NEW todo, Planned(op, todo), TouchesRecovery(todo)
  PROVE  /\ op \notin {"start-totp", "admin-update", "password", "confirm-change"}
         /\ op \in {"confirm-totp", "confirm-email"} => Remains("mint", todo)
         /\ op \in Disables \cup {"admin-disable"} => ~Remains("mint", todo)
         /\ Head(todo) \notin {"limit", "use-recovery"}
         /\ Head(todo) \in {"find-code", "use-code"} => Remains("save", todo)
<1>1. CASE todo \in {<<"save">>, <<"mint">>, <<"drop-recovery">>, <<"drop-challenges">>,
                     <<"send">>, <<"use-code">>, <<"use-recovery">>, <<"mail">>,
                     <<"close">>, <<"cancel">>}
  <2>1. todo \in {<<"mint">>, <<"drop-recovery">>}
    BY <1>1, Remains1 DEF TouchesRecovery
  <2>2. CASE todo = <<"mint">>
    BY <2>2, Remains1, List1 DEF Planned, Disables, Issued
  <2>3. CASE todo = <<"drop-recovery">>
    BY <2>3, Remains1, List1 DEF Planned, Disables, Issued
  <2> QED BY <2>1, <2>2, <2>3
<1>2. CASE todo \in {<<"drop-recovery", "mint">>, <<"save", "drop-recovery">>,
                     <<"save", "drop-challenges">>, <<"drop-challenges", "drop-recovery">>,
                     <<"drop-recovery", "drop-challenges">>, <<"create", "send">>,
                     <<"use-code", "save">>, <<"find-code", "use-code">>,
                     <<"open", "mail">>, <<"save", "close">>}
  <2>1. todo \in {<<"drop-recovery", "mint">>, <<"save", "drop-recovery">>,
                  <<"drop-challenges", "drop-recovery">>,
                  <<"drop-recovery", "drop-challenges">>}
    BY <1>2, Remains2 DEF TouchesRecovery
  <2>2. CASE todo = <<"drop-recovery", "mint">>
    BY <2>2, Remains2, List2 DEF Planned, Disables, Issued
  <2>3. CASE todo = <<"save", "drop-recovery">>
    BY <2>3, Remains2, List2 DEF Planned, Disables, Issued
  <2>4. CASE todo = <<"drop-challenges", "drop-recovery">>
    BY <2>4, Remains2, List2 DEF Planned, Disables, Issued
  <2>5. CASE todo = <<"drop-recovery", "drop-challenges">>
    BY <2>5, Remains2, List2 DEF Planned, Disables, Issued
  <2> QED BY <2>1, <2>2, <2>3, <2>4, <2>5
<1>3. CASE todo \in {<<"save", "drop-recovery", "mint">>,
                     <<"save", "drop-challenges", "drop-recovery">>,
                     <<"save", "drop-recovery", "drop-challenges">>,
                     <<"burn", "create", "send">>, <<"find-code", "use-code", "save">>,
                     <<"supersede", "open", "mail">>, <<"drop-challenges", "save", "close">>}
  <2>1. todo \in {<<"save", "drop-recovery", "mint">>,
                  <<"save", "drop-challenges", "drop-recovery">>,
                  <<"save", "drop-recovery", "drop-challenges">>}
    BY <1>3, Remains3 DEF TouchesRecovery
  <2>2. CASE todo = <<"save", "drop-recovery", "mint">>
    BY <2>2, Remains3, List3 DEF Planned, Disables, Issued
  <2>3. CASE todo = <<"save", "drop-challenges", "drop-recovery">>
    BY <2>3, Remains3, List3 DEF Planned, Disables, Issued
  <2>4. CASE todo = <<"save", "drop-recovery", "drop-challenges">>
    BY <2>4, Remains3, List3 DEF Planned, Disables, Issued
  <2> QED BY <2>1, <2>2, <2>3, <2>4
<1>4. CASE todo \in {<<"limit", "burn", "create", "send">>,
                     <<"use-code", "save", "drop-recovery", "mint">>}
  <2>1. todo = <<"use-code", "save", "drop-recovery", "mint">>
    BY <1>4, Remains4 DEF TouchesRecovery
  <2> QED BY <2>1, Remains4, List4 DEF Planned, Disables, Issued
<1>5. CASE todo = <<"find-code", "use-code", "save", "drop-recovery", "mint">>
  BY <1>5, Remains5, List5 DEF Planned, Disables, Issued
<1>6. \/ todo \in {<<"save">>, <<"mint">>, <<"drop-recovery">>, <<"drop-challenges">>,
                   <<"send">>, <<"use-code">>, <<"use-recovery">>, <<"mail">>,
                   <<"close">>, <<"cancel">>}
      \/ todo \in {<<"drop-recovery", "mint">>, <<"save", "drop-recovery">>,
                   <<"save", "drop-challenges">>, <<"drop-challenges", "drop-recovery">>,
                   <<"drop-recovery", "drop-challenges">>, <<"create", "send">>,
                   <<"use-code", "save">>, <<"find-code", "use-code">>,
                   <<"open", "mail">>, <<"save", "close">>}
      \/ todo \in {<<"save", "drop-recovery", "mint">>,
                   <<"save", "drop-challenges", "drop-recovery">>,
                   <<"save", "drop-recovery", "drop-challenges">>,
                   <<"burn", "create", "send">>, <<"find-code", "use-code", "save">>,
                   <<"supersede", "open", "mail">>,
                   <<"drop-challenges", "save", "close">>}
      \/ todo \in {<<"limit", "burn", "create", "send">>,
                   <<"use-code", "save", "drop-recovery", "mint">>}
      \/ todo = <<"find-code", "use-code", "save", "drop-recovery", "mint">>
  BY DEF Planned, Issued
<1> QED BY <1>1, <1>2, <1>3, <1>4, <1>5, <1>6

LEMMA Clearing ==
  ASSUME NEW op, NEW todo, Planned(op, todo), Remains("save", todo),
         op \in {"disable-all", "admin-disable"}
  PROVE  Remains("drop-recovery", todo)
<1>1. todo \in {<<"save", "drop-recovery", "drop-challenges">>,
                  <<"drop-recovery", "drop-challenges">>, <<"drop-challenges">>}
  BY DEF Planned, Disables
<1> QED BY <1>1, Remains1, Remains2, Remains3

(* A statement that cannot refuse is followed by the next one.             *)
LEMMA GoesOn ==
  ASSUME Base, NEW t \in Threads, Statement(t), Tail(job[t].todo) # <<>>,
         Head(job[t].todo) \notin {"limit", "find-code", "use-code", "use-recovery"}
  PROVE  job'[t] # Idle
<1>1. t \in Busy
  BY StatementOnward
<1>2. CASE Advance(t)
  <2>1. job'[t] = Rest(t)
    BY <1>2 DEF Advance
  <2>2. PICK j : j = job[t]
    OBVIOUS
  <2>3. /\ j \in [op : Ops, save : {j.save}, fresh : BOOLEAN, todo : {j.todo},
                  found : {j.found}]
        /\ j.op # "idle"
    BY <1>1, <2>2, Busies
  <2>4. Rest(t) = [j EXCEPT !.todo = Tail(j.todo),
                            !.fresh = WillWrite(Tail(j.todo)) => j.fresh,
                            !.save = IF At(t, "save") THEN NoColumns ELSE j.save]
    BY <2>2 DEF Rest
  <2>5. Rest(t).op = j.op
    BY <2>3, <2>4
  <2> QED BY <2>1, <2>3, <2>5 DEF Idle
<1>3. CASE CreateCode(t)
  <2>1. t \in Busy /\ Head(job[t].todo) = "create"
    BY <1>3 DEF CreateCode, At
  <2>2. row' = row /\ change' = change
    BY <1>3 DEF CreateCode
  <2> QED BY <1>3, <2>1, <2>2, MovedOnward DEF CreateCode
<1>4. CASE OpenChange(t)
  <2>1. PICK q : job' = [job EXCEPT ![t].found = q, ![t].todo = Tail(job[t].todo)]
    BY <1>4 DEF OpenChange
  <2>2. PICK j : j = job[t]
    OBVIOUS
  <2>3. /\ j \in [op : Ops, save : {j.save}, fresh : BOOLEAN, todo : {j.todo},
                  found : {j.found}]
        /\ j.op # "idle"
    BY <1>1, <2>2, Busies
  <2>4. job'[t] = [j EXCEPT !.found = q, !.todo = Tail(j.todo)]
    BY <2>1, <2>2 DEF Base
  <2>5. job'[t].op = j.op
    BY <2>3, <2>4
  <2> QED BY <2>3, <2>5 DEF Idle
<1>5. ~CheckLimit(t) /\ ~FindCode(t) /\ ~UseCode(t) /\ ~UseRecovery(t)
  BY DEF CheckLimit, FindCode, UseCode, UseRecovery, At
<1> QED BY <1>2, <1>3, <1>4, <1>5
      DEF Statement, Save, DropRecovery, Mint, DropChallenges, Burn, SendMail,
          Supersede, MailChange, CloseChange, Cancel

(* A timely save leaves the flag as the codes will be, or as it was, or it *)
(* is that of a change of address that switches MFA off.                   *)
Left == row'.enabled = row.enabled /\ detached' = detached
Cut == ~row'.enabled /\ row.enabled /\ detached'

LEMMA MatchedSaves ==
  ASSUME Base, Flags, NEW t \in Threads, Save(t), Statement(t), accidents' = {}
  PROVE  /\ Touches(t) => /\ Touches(t)' /\ ~Saving(job[t])'
                          /\ row'.enabled <=> Remains("mint", job[t].todo)'
         /\ ~Touches(t) => Left \/ Cut
<1> DEFINE j == job[t]
<1>1. /\ t \in Busy /\ j # Idle /\ Head(j.todo) = "save" /\ Saving(j) /\ Decided(j)
      /\ j.op \in Disables \cup {"start-totp", "confirm-totp", "admin-disable",
               "password", "admin-update", "confirm-email", "confirm-change"}
      /\ Planned(j.op, j.todo) /\ Onward(t) /\ j.op \in Ops
  BY FreshSave, StatementOnward, Busies DEF Busy
<1>2. /\ row.enabled <=> row.totp \/ row.email
  BY Records DEF Flags
<1>3. row \in Rows /\ row' \in Rows
  BY SaveRow DEF Base, Types
<1>4. Touches(t) <=> TouchesRecovery(j.todo)
  BY <1>1 DEF Touches
<1>5. ASSUME Touches(t)
      PROVE  /\ Touches(t)' /\ ~Saving(job[t])'
             /\ Remains("mint", job[t].todo)' <=> Remains("mint", j.todo)
  <2>1. /\ \A s : Remains(s, j.todo) <=> s = "save" \/ Remains(s, Tail(j.todo))
        /\ ~Remains("save", Tail(j.todo))
    BY <1>1, Rests
  <2>2. Tail(j.todo) # <<>>
    <3>1. \E s : Remains(s, Tail(j.todo))
      BY <1>4, <1>5, <2>1 DEF TouchesRecovery
    <3> PICK rest : rest = Tail(j.todo)
      OBVIOUS
    <3> QED BY <3>1, RemainsNone
  <2>3. job'[t] # Idle
    BY <1>1, <2>2, GoesOn
  <2>4. job'[t].todo = Tail(j.todo)
    BY <1>1, <2>3, Copies
  <2> QED BY <1>4, <1>5, <2>1, <2>3, <2>4 DEF Touches, TouchesRecovery, Saving
<1>6. ASSUME Touches(t)
      PROVE  row'.enabled <=> Remains("mint", j.todo)
  <2>1. /\ j.op \notin {"start-totp", "admin-update", "password", "confirm-change"}
        /\ j.op \in {"confirm-totp", "confirm-email"} => Remains("mint", j.todo)
        /\ j.op \in Disables \cup {"admin-disable"} => ~Remains("mint", j.todo)
    BY <1>1, <1>4, <1>6, Touching
  <2>2. CASE j.op \in {"confirm-totp", "confirm-email"}
    <3>1. row'.enabled
      BY <2>2, SaveRow
    <3> QED BY <2>1, <2>2, <3>1
  <2>3. CASE j.op \in {"disable-all", "admin-disable"}
    <3>1. ~row'.enabled
      BY <2>3, SaveRow
    <3> QED BY <2>1, <2>3, <3>1 DEF Disables
  <2>4. CASE j.op = "disable-totp"
    <3>1. Remains("drop-recovery", j.todo)
      BY <1>4, <1>6, <2>1, <2>4 DEF Disables, TouchesRecovery
    <3>2. row'.enabled = row.email /\ ~row.email
      BY <1>1, <2>4, <3>1, SaveRow DEF Decided, DecidedOn
    <3> QED BY <2>1, <2>4, <3>2 DEF Disables
  <2>5. CASE j.op = "disable-email"
    <3>1. Remains("drop-recovery", j.todo)
      BY <1>4, <1>6, <2>1, <2>5 DEF Disables, TouchesRecovery
    <3>2. row'.enabled = row.totp /\ ~row.totp
      BY <1>1, <2>5, <3>1, SaveRow DEF Decided, DecidedOn
    <3> QED BY <2>1, <2>5, <3>2 DEF Disables
  <2> QED BY <1>1, <2>1, <2>2, <2>3, <2>4, <2>5 DEF Disables
<1>8. /\ row'.enabled = row.enabled => Left
      /\ row'.enabled # row.enabled => (detached' = (j.op = "confirm-change"))
  BY DEF Save, Left
<1>7. ASSUME ~Touches(t)
      PROVE  row'.enabled = row.enabled \/ (j.op = "confirm-change" /\ ~row'.enabled)
  <2>1. ~Remains("mint", j.todo) /\ ~Remains("drop-recovery", j.todo)
    BY <1>4, <1>7 DEF TouchesRecovery
  <2>2. CASE j.op = "start-totp"
    BY <2>2, SaveRow DEF Same, Columns
  <2>3. CASE j.op \in {"confirm-totp", "confirm-email"}
    <3>1. row.enabled
      BY <1>1, <2>1, <2>3 DEF Decided, DecidedOn
    <3>2. row'.enabled
      BY <2>3, SaveRow
    <3> QED BY <1>3, <3>1, <3>2 DEF Rows
  <2>4. CASE j.op \in {"disable-all", "admin-disable"}
    BY <1>1, <2>1, <2>4, Clearing DEF Saving
  <2>5. CASE j.op = "disable-totp"
    <3>1. row'.enabled = row.email /\ row.email
      BY <1>1, <2>1, <2>5, SaveRow DEF Decided, DecidedOn
    <3> QED BY <1>2, <1>3, <3>1 DEF Rows
  <2>6. CASE j.op = "disable-email"
    <3>1. row'.enabled = row.totp /\ row.totp
      BY <1>1, <2>1, <2>6, SaveRow DEF Decided, DecidedOn
    <3> QED BY <1>2, <1>3, <3>1 DEF Rows
  <2>7. CASE j.op \in {"admin-update", "password"}
    <3>1. WholeRow(j) /\ row' = j.save
      BY <1>1, <2>7, SaveRow DEF WholeRow
    <3>2. j.op = "password" => j.save = row
      BY <1>1 DEF Decided, DecidedOn
    <3>3. j.op = "admin-update" => j.save.enabled = row.enabled
      <4>1. j.op = "admin-update" => \E b \in BOOLEAN : j.save = [row EXCEPT !.required = b]
        BY <1>1 DEF Decided, DecidedOn
      <4> QED BY <1>3, <4>1 DEF Rows
    <3> QED BY <2>7, <3>1, <3>2, <3>3
  <2>8. CASE j.op = "confirm-change"
    <3>1. IF "enabled" \in DOMAIN j.save THEN ~row'.enabled
          ELSE row'.enabled = row.enabled
      BY <2>8, SaveRow
    <3> QED BY <2>8, <3>1
  <2> QED BY <1>1, <2>2, <2>3, <2>4, <2>5, <2>6, <2>7, <2>8 DEF Disables
<1>9. ASSUME ~Touches(t), row'.enabled # row.enabled
      PROVE  Cut
  BY <1>3, <1>7, <1>8, <1>9 DEF Cut, Rows
<1> QED BY <1>5, <1>6, <1>8, <1>9

LEMMA MatchedStatement ==
  ASSUME Base, Flags, OneBatch, Matched, NEW t \in Threads, Statement(t),
         UNCHANGED left
  PROVE  Matched'
<1> DEFINE Will(u) == /\ Touches(u) /\ ~Saving(job[u])
                      /\ row.enabled => Remains("mint", job[u].todo)
                      /\ Remains("mint", job[u].todo) => row.enabled \/ detached
           Done == /\ \A u \in Threads : Touches(u)' => Saving(job[u])'
                   /\ row'.enabled => Unused # {}
                   /\ Unused # {} => row'.enabled \/ detached'
           h == Head(job[t].todo)
<1> SUFFICES ASSUME accidents' = {}
             PROVE  Done \/ \E u \in Threads : Will(u)'
  BY DEF Matched, Agreed, There, Unused
<1>1. /\ t \in Busy /\ Onward(t) /\ accidents = {}
      /\ Planned(job[t].op, job[t].todo) /\ Orderly(job[t].op, job[t].todo)
  BY StatementOnward, Records, Busies
<1>2. /\ \/ /\ \A u \in Threads : Touches(u) => Saving(job[u])
            /\ row.enabled => There # {}
            /\ There # {} => row.enabled \/ detached
         \/ \E u \in Threads : Will(u)
      /\ \A u, v \in Threads : Touches(u) /\ Touches(v) => u = v
  BY <1>1 DEF Matched, Agreed, OneBatch
<1>3. ASSUME NEW u \in Threads, Touches(u)'
      PROVE  /\ Touches(u)
             /\ u # t => job'[u].todo = job[u].todo
             /\ u = t => job'[t].todo = Tail(job[t].todo)
  BY <1>1, <1>3, TouchOnward, Copies DEF Touches
<1>4. \A u \in Threads \ {t} : Touches(u) => Touches(u)' /\ job'[u].todo = job[u].todo
  BY <1>1, Copies DEF Touches
<1>5. \A s : Remains(s, job[t].todo) <=> s = h \/ Remains(s, Tail(job[t].todo))
  BY <1>1, Rests
<1>6. CASE h = "save"
  <2>1. Save(t) /\ recovery' = recovery
    BY <1>1, <1>6, Records, StatementAt DEF At
  <2>2. /\ Touches(t) => /\ Touches(t)' /\ ~Saving(job[t])'
                         /\ row'.enabled <=> Remains("mint", job[t].todo)'
        /\ ~Touches(t) => \/ row'.enabled = row.enabled /\ detached' = detached
                          \/ ~row'.enabled /\ detached'
    BY <2>1, MatchedSaves DEF Left, Cut
  <2>3. CASE Touches(t)
    BY <2>2, <2>3
  <2>4. CASE ~Touches(t)
    <3>1. \A u \in Threads : Touches(u)' => Touches(u) /\ job'[u].todo = job[u].todo
      BY <1>3, <2>4
    <3>2. \A u \in Threads : Touches(u) => Touches(u)' /\ job'[u].todo = job[u].todo
      BY <1>4, <2>4
    <3>3. Unused = There
      BY <2>1 DEF Unused, There
    <3>4. ASSUME NEW u \in Threads, Will(u) PROVE Will(u)'
      BY <2>2, <2>4, <3>2, <3>4 DEF Saving
    <3> QED BY <1>2, <2>2, <2>4, <3>1, <3>3, <3>4 DEF Saving
  <2> QED BY <2>3, <2>4
<1>7. CASE h = "drop-recovery"
  <2>1. Touches(t) /\ DropRecovery(t) /\ row' = row /\ detached' = detached
    BY <1>1, <1>7, AtTouches, StatementAt, Records DEF At
  <2>2. ~Saving(job[t])
    BY <1>1, <1>5, <1>7, Rests DEF Saving
  <2>3. /\ row.enabled => Remains("mint", job[t].todo)
        /\ Remains("mint", job[t].todo) => row.enabled \/ detached
    BY <1>2, <2>1, <2>2
  <2>4. Unused = {}
    BY <2>1 DEF DropRecovery, Unused
  <2>5. CASE Remains("mint", job[t].todo)
    <3>1. Remains("mint", Tail(job[t].todo))
      BY <1>5, <1>7, <2>5
    <3>2. Tail(job[t].todo) # <<>>
      <4> PICK rest : rest = Tail(job[t].todo)
        OBVIOUS
      <4> QED BY <3>1, RemainsNone
    <3>3. job'[t] # Idle
      BY <1>7, <3>2, GoesOn
    <3>4. job'[t].todo = Tail(job[t].todo)
      BY <1>1, <3>3, Copies
    <3>5. Touches(t)' /\ ~Saving(job[t])' /\ Remains("mint", job[t].todo)'
      BY <1>5, <2>2, <3>1, <3>3, <3>4 DEF Touches, TouchesRecovery, Saving
    <3> QED BY <2>1, <2>3, <2>5, <3>5
  <2>6. CASE ~Remains("mint", job[t].todo)
    <3>1. ~TouchesRecovery(Tail(job[t].todo))
      BY <1>1, <1>5, <1>7, <2>6, Rests DEF TouchesRecovery
    <3>2. \A u \in Threads : ~Touches(u)'
      <4> SUFFICES ASSUME NEW u \in Threads, Touches(u)' PROVE FALSE
        OBVIOUS
      <4>1. u = t /\ job'[t].todo = Tail(job[t].todo)
        BY <1>2, <1>3, <2>1
      <4> QED BY <3>1, <4>1 DEF Touches
    <3> QED BY <2>1, <2>3, <2>4, <2>6, <3>2
  <2> QED BY <2>5, <2>6
<1>8. CASE h = "mint"
  <2>1. Touches(t) /\ Mint(t) /\ row' = row /\ detached' = detached
    BY <1>1, <1>8, AtTouches, StatementAt, Records DEF At
  <2>2. ~Saving(job[t]) /\ Remains("mint", job[t].todo)
    BY <1>1, <1>5, <1>8, Rests DEF Saving
  <2>3. row.enabled \/ detached
    BY <1>2, <2>1, <2>2
  <2>4. Unused # {}
    <3> PICK n : n = CHOOSE b \in FreshBatches : TRUE
      OBVIOUS
    <3>1. n \in Batches /\ recovery' = [recovery EXCEPT ![n] = "unused"]
      BY <2>1 DEF Mint, FreshBatches
    <3>2. recovery'[n] = "unused"
      BY <3>1 DEF Base, Types
    <3> QED BY <3>1, <3>2 DEF Unused
  <2>5. \A u \in Threads : ~Touches(u)'
    <3> SUFFICES ASSUME NEW u \in Threads, Touches(u)' PROVE FALSE
      OBVIOUS
    <3>1. u = t /\ job'[t].todo = Tail(job[t].todo)
      BY <1>2, <1>3, <2>1
    <3> QED BY <1>1, <1>8, <3>1, Rests DEF Touches
  <2> QED BY <2>1, <2>3, <2>4, <2>5
<1>9. CASE h \notin {"save", "drop-recovery", "mint"}
  <2>1. row' = row /\ detached' = detached
    BY <1>9, Records
  <2>2. Unused = There
    <3>1. CASE h = "use-recovery"
      <4>1. \/ recovery' = recovery
            \/ /\ recovery[job[t].found] # "none"
               /\ recovery' = [recovery EXCEPT ![job[t].found] = "used"]
        BY <1>1, <3>1, StatementAt DEF UseRecovery, At
      <4> QED BY <4>1 DEF Unused, There, Base, Types
    <3>2. CASE h # "use-recovery"
      <4>1. recovery' = recovery
        BY <1>9, <3>2, Records
      <4> QED BY <4>1 DEF Unused, There
    <3> QED BY <3>1, <3>2
  <2>3. \A u \in Threads : Touches(u)' /\ Saving(job[u]) => Saving(job[u])'
    <3> SUFFICES ASSUME NEW u \in Threads, Touches(u)', Saving(job[u])
                 PROVE  Saving(job[u])'
      OBVIOUS
    <3> QED BY <1>3, <1>5, <1>9 DEF Saving
  <2>4. ASSUME NEW u \in Threads, Will(u) PROVE Will(u)'
    <3>1. CASE u # t
      BY <1>4, <2>1, <2>4, <3>1 DEF Saving
    <3>2. CASE u = t
      <4>1. h \notin {"limit", "find-code", "use-code", "use-recovery"}
        BY <1>1, <2>4, <3>2, Touching DEF Touches, Saving
      <4>2. TouchesRecovery(Tail(job[t].todo)) /\ ~Remains("save", Tail(job[t].todo))
        BY <1>5, <1>9, <2>4, <3>2 DEF Touches, TouchesRecovery, Saving
      <4>3. Tail(job[t].todo) # <<>>
        <5> PICK rest : rest = Tail(job[t].todo)
          OBVIOUS
        <5> QED BY <4>2, RemainsNone DEF TouchesRecovery
      <4>4. job'[t] # Idle
        BY <4>1, <4>3, GoesOn
      <4>5. job'[t].todo = Tail(job[t].todo)
        BY <1>1, <4>4, Copies
      <4>6. Remains("mint", job[t].todo)' <=> Remains("mint", job[t].todo)
        BY <1>5, <1>9, <4>5
      <4> QED BY <2>1, <2>4, <3>2, <4>2, <4>4, <4>5, <4>6 DEF Touches, Saving
    <3> QED BY <3>1, <3>2
  <2> QED BY <1>2, <1>3, <2>1, <2>2, <2>3, <2>4
<1> QED BY <1>6, <1>7, <1>8, <1>9

LEMMA MatchedStep ==
  ASSUME Base, Flags, OneBatch, Matched, [Next]_vars
  PROVE  Matched'
<1>1. ASSUME NEW t \in Threads, Die(t) PROVE Matched'
  BY <1>1 DEF Matched, Die, Witness
<1>2. CASE Quiet
  BY <1>2 DEF Quiet, Matched, Agreed, Touches, There
<1>3. ASSUME NEW t \in Threads, NEW k, Begun(t, k) PROVE Matched'
  <2> SUFFICES ASSUME accidents' = {}
               PROVE  \/ /\ \A u \in Threads : Touches(u)' => Saving(job[u])'
                         /\ row'.enabled => Unused # {}
                         /\ Unused # {} => row'.enabled \/ detached'
                      \/ \E u \in Threads :
                           /\ Touches(u)' /\ ~Saving(job[u])'
                           /\ row'.enabled => Remains("mint", job[u].todo)'
                           /\ Remains("mint", job[u].todo)'
                                => row'.enabled \/ detached'
    BY DEF Matched, Agreed, There, Unused
  <2>1. /\ row' = row /\ detached' = detached /\ recovery' = recovery /\ job'[t] = k /\ job[t] = Idle
        /\ \A u \in Threads \ {t} : job'[u] = job[u]
        /\ accidents = {}
        /\ TouchesRecovery(k.todo) => \A u \in Threads : ~Touches(u)
        /\ k # Idle
        /\ TouchesRecovery(k.todo) /\ ~Saving(k) => row.enabled /\ Remains("mint", k.todo)
    BY <1>3 DEF Begun, Base, tables, Witness, Proper, Touches, Busy
  <2>2. Unused = There
    BY <2>1 DEF Unused, There
  <2>3. \/ /\ \A u \in Threads : Touches(u) => Saving(job[u])
           /\ row.enabled => There # {}
           /\ There # {} => row.enabled \/ detached
        \/ \E u \in Threads :
             /\ Touches(u) /\ ~Saving(job[u])
             /\ row.enabled => Remains("mint", job[u].todo)
             /\ Remains("mint", job[u].todo) => row.enabled \/ detached
    BY <2>1 DEF Matched, Agreed
  <2>4. \A u \in Threads \ {t} : Touches(u)' <=> Touches(u)
    BY <2>1 DEF Touches
  <2>5. Touches(t)' <=> TouchesRecovery(k.todo)
    BY <2>1 DEF Touches
  <2>6. ~Touches(t)
    BY <2>1 DEF Touches
  <2>7. CASE TouchesRecovery(k.todo) /\ ~Saving(k)
    BY <2>1, <2>5, <2>7 DEF Saving
  <2>8. CASE ~(TouchesRecovery(k.todo) /\ ~Saving(k))
    BY <2>1, <2>2, <2>3, <2>4, <2>5, <2>6, <2>8 DEF Saving
  <2> QED BY <2>7, <2>8
<1> QED BY <1>1, <1>2, <1>3, MatchedStatement, Steppings

LEMMA MatchedInit ==
  ASSUME Init
  PROVE  Matched
<1>1. PICK n \in Batches :
        recovery = [b \in Batches |-> IF row.enabled /\ b = n THEN "unused" ELSE "none"]
  BY DEF Init
<1>2. row.enabled <=> There # {}
  BY <1>1 DEF There
<1> QED BY <1>2 DEF Init, Matched, Agreed, Touches

LEMMA AtMostOne ==
  ASSUME NEW S, \A x, y \in S : x = y
  PROVE  IsFiniteSet(S) /\ Cardinality(S) <= 1
<1>1. CASE S = {}
  BY <1>1, FS_EmptySet
<1>2. CASE S # {}
  <2>1. PICK x : S = {x}
    BY <1>2
  <2>2. IsFiniteSet({x}) /\ Cardinality({x}) = 1
    BY FS_Singleton
  <2> QED BY <2>1, <2>2
<1> QED BY <1>1, <1>2

(* Whatever the handlers, no account ever has two batches of recovery      *)
(* codes, unless two handlers of the codes ran at once or one of them died *)
(* or used what was used up (services/mfa.py).                             *)
THEOREM NeverTwoBatches ==
  Spec => [](Cardinality({b \in Batches : recovery[b] # "none"}) > 1
               => "other" \in accidents)
<1>1. Init => Base /\ OneBatch
  BY BaseInit, OneBatchInit
<1>2. Base /\ OneBatch /\ [Next]_vars => (Base /\ OneBatch)'
  BY BaseStep, OneBatchStep
<1>3. OneBatch => (Cardinality({b \in Batches : recovery[b] # "none"}) > 1
                     => "other" \in accidents)
  <2> SUFFICES ASSUME OneBatch, "other" \notin accidents
               PROVE  ~(Cardinality({b \in Batches : recovery[b] # "none"}) > 1)
    OBVIOUS
  <2>1. \A b, c \in There : b = c
    BY DEF OneBatch
  <2>2. /\ IsFiniteSet(There) /\ Cardinality(There) <= 1
    BY <2>1, AtMostOne
  <2>3. Cardinality(There) \in Nat
    BY <2>2, FS_CardinalityType
  <2> QED BY <2>2, <2>3 DEF There
<1> QED BY <1>1, <1>2, <1>3, PTL DEF Spec

(* Whichever handlers run, the link that confirms a change of address      *)
(* among them, the codes follow the factors: one batch while MFA is on and *)
(* none when it is off, but for the codes left by a change of address that *)
(* switched MFA off (services/mfa.py, services/email_change.py).           *)
THEOREM CodesAlwaysMatchFactors == Spec => []CodesMatchFactors
<1> DEFINE Inv == Base /\ Flags /\ OneBatch /\ Matched
<1>1. Init => Inv
  BY BaseInit, OneBatchInit, MatchedInit DEF Init, Settled, Flags, WholeRow
<1>2. Inv /\ [Next]_vars => Inv'
  BY BaseStep, FlagsStep, OneBatchStep, MatchedStep
<1>3. Inv => CodesMatchFactors
  <2> SUFFICES ASSUME Inv
               PROVE  /\ Cardinality(There) > 1 => "other" \in accidents
                      /\ Busy = {} /\ accidents = {} => Agreed(There # {})
    BY DEF CodesMatchFactors, Agreed, There
  <2>1. ASSUME "other" \notin accidents PROVE ~(Cardinality(There) > 1)
    <3>1. \A b, c \in There : b = c
      BY <2>1 DEF OneBatch
    <3>2. /\ IsFiniteSet(There) /\ Cardinality(There) <= 1
      BY <3>1, AtMostOne
    <3>3. Cardinality(There) \in Nat
      BY <3>2, FS_CardinalityType
    <3> QED BY <3>2, <3>3
  <2>2. ASSUME Busy = {}, accidents = {} PROVE Agreed(There # {})
    <3>1. \A t \in Threads : ~Touches(t)
      BY <2>2 DEF Busy, Touches
    <3> QED BY <2>2, <3>1 DEF Matched
  <2> QED BY <2>1, <2>2
<1> QED BY <1>1, <1>2, <1>3, PTL DEF Spec

-----------------------------------------------------------------------------
(* OnePending.                                                             *)
Usable(x) == x # None /\ ~x.used /\ x.age < Ttl
Asked(x) == x # NoChange /\ ~x.confirmed /\ ~x.cancelled

(* Only the insertion of a code makes one work, after which only that one  *)
(* may be new; retiring leaves none.                                       *)
LEMMA LiveShrinks ==
  ASSUME Base, NEW t \in Threads, Statement(t)
  PROVE  /\ ~At(t, "create") => \A c \in Codes : Usable(challenge'[c]) => Live(c)
         /\ At(t, "burn") => \A c \in Codes : ~Usable(challenge'[c])
         /\ At(t, "create") => \E n \in Codes : \A c \in Codes \ {n} :
                                 Usable(challenge'[c]) => Live(c)
<1>1. t \in Busy /\ Types
  BY StatementOnward DEF Base
<1>2. \A x \in Challenges : [x EXCEPT !.used = TRUE].used
  BY DEF Challenges
<1>3. CASE Head(job[t].todo) \notin {"drop-challenges", "burn", "create", "send", "use-code"}
  BY <1>3, Records DEF At, Usable, Live
<1>4. CASE DropChallenges(t)
  BY <1>4 DEF DropChallenges, Usable, At
<1>5. CASE Burn(t)
  <2>1. \A c \in Codes : challenge'[c] = IF challenge[c] = None THEN None
                                         ELSE [challenge[c] EXCEPT !.used = TRUE]
    BY <1>5 DEF Burn
  <2>2. \A c \in Codes : challenge[c] # None => challenge[c] \in Challenges
    BY <1>1 DEF Types
  <2>3. \A c \in Codes : challenge[c] # None => challenge'[c].used
    BY <1>2, <2>1, <2>2
  <2> QED BY <1>5, <2>1, <2>3 DEF Usable, Burn, At
<1>6. CASE CreateCode(t)
  <2> PICK n : n = CHOOSE x \in FreshCodes : TRUE
    OBVIOUS
  <2>1. n \in Codes /\ At(t, "create")
        /\ challenge' = [challenge EXCEPT ![n] = [at |-> None, used |-> FALSE, age |-> 0]]
    BY <1>6, FreshCode DEF CreateCode
  <2>2. \A c \in Codes \ {n} : challenge'[c] = challenge[c]
    BY <1>1, <2>1 DEF Types
  <2> QED BY <2>1, <2>2 DEF Usable, Live, At
<1>7. CASE SendMail(t)
  <2>1. /\ job[t].found \in Codes /\ At(t, "send")
        /\ \/ challenge' = challenge
           \/ /\ challenge[job[t].found] # None
              /\ challenge' = [challenge EXCEPT ![job[t].found] =
                                [challenge[job[t].found] EXCEPT !.at = job[t].save.addr]]
    BY <1>1, <1>7 DEF SendMail, At, Base, Formed, FormedIn, HeldIn, Busy
  <2> PICK d, a : d = job[t].found /\ a = job[t].save.addr
    OBVIOUS
  <2>2. CASE challenge' # challenge
    <3>1. /\ challenge[d] \in Challenges
          /\ \A c \in Codes : challenge'[c] =
               IF c = d THEN [challenge[d] EXCEPT !.at = a] ELSE challenge[c]
      BY <1>1, <2>1, <2>2, OneCode
    <3>2. [challenge[d] EXCEPT !.at = a].used = challenge[d].used
          /\ [challenge[d] EXCEPT !.at = a].age = challenge[d].age
      BY <3>1 DEF Challenges
    <3> QED BY <2>1, <2>2, <3>1, <3>2 DEF Usable, Live, At
  <2> QED BY <2>1, <2>2 DEF Usable, Live, At
<1>8. CASE UseCode(t)
  <2>1. /\ job[t].found \in Codes /\ At(t, "use-code")
        /\ \/ challenge' = challenge
           \/ /\ challenge[job[t].found] # None
              /\ challenge' = [challenge EXCEPT ![job[t].found] =
                                [challenge[job[t].found] EXCEPT !.used = TRUE]]
    BY <1>1, <1>8 DEF UseCode, At, Base, Formed, FormedIn, HeldIn, Busy
  <2> PICK d : d = job[t].found
    OBVIOUS
  <2>2. CASE challenge' # challenge
    <3>1. /\ challenge[d] \in Challenges
          /\ \A c \in Codes : challenge'[c] =
               IF c = d THEN [challenge[d] EXCEPT !.used = TRUE] ELSE challenge[c]
      BY <1>1, <2>1, <2>2, OneCode
    <3> QED BY <1>2, <2>1, <2>2, <3>1 DEF Usable, Live, At
  <2> QED BY <2>1, <2>2 DEF Usable, Live, At
<1> QED BY <1>1, <1>3, <1>4, <1>5, <1>6, <1>7, <1>8, StatementAt DEF At

LEMMA OpenShrinks ==
  ASSUME Base, NEW t \in Threads, Statement(t)
  PROVE  /\ ~At(t, "open") => \A q \in Changes : Asked(change'[q]) => Open(q)
         /\ At(t, "supersede") => \A q \in Changes : ~Asked(change'[q])
         /\ At(t, "open") => \E n \in Changes : \A q \in Changes \ {n} :
                               Asked(change'[q]) => Open(q)
<1>1. t \in Busy /\ Types
  BY StatementOnward DEF Base
<1>2. CASE Head(job[t].todo) \notin {"supersede", "open", "mail", "close", "cancel"}
  BY <1>2, Records DEF At, Asked, Open
<1>3. CASE Supersede(t)
  <2>1. \A x \in Requests : x # NoChange => [x EXCEPT !.cancelled = TRUE].cancelled
    BY DEF Requests
  <2>2. \A q \in Changes : change'[q] = IF Open(q) THEN [change[q] EXCEPT !.cancelled = TRUE]
                                        ELSE change[q]
    BY <1>3 DEF Supersede
  <2>3. \A q \in Changes : change[q] \in Requests
    BY <1>1 DEF Types
  <2>4. \A q \in Changes : Open(q) => change'[q].cancelled
    BY <2>1, <2>2, <2>3 DEF Open
  <2> QED BY <1>3, <2>2, <2>4 DEF Asked, Open, Supersede, At
<1>4. CASE OpenChange(t)
  <2> PICK n : n = CHOOSE x \in FreshChanges : TRUE
    OBVIOUS
  <2> PICK x : x = [NoChange EXCEPT !.new = job[t].save.addr]
    OBVIOUS
  <2>1. n \in Changes /\ At(t, "open") /\ change' = [change EXCEPT ![n] = x]
    BY <1>4, FreshChange DEF OpenChange
  <2>2. \A q \in Changes \ {n} : change'[q] = change[q]
    BY <1>1, <2>1 DEF Types
  <2>3. \A q \in Changes \ {n} : Asked(change'[q]) => Open(q)
    BY <2>2 DEF Asked, Open
  <2>4. ~At(t, "supersede")
    BY <2>1 DEF At
  <2> QED BY <2>1, <2>3, <2>4
<1>5. CASE MailChange(t) \/ CloseChange(t) \/ Cancel(t)
  <2> PICK d : d = job[t].found
    OBVIOUS
  <2>1. /\ d \in Changes /\ change[d] # NoChange
        /\ Head(job[t].todo) \in {"mail", "close", "cancel"}
    BY <1>1, <1>5 DEF MailChange, CloseChange, Cancel, At, Base, Formed, FormedIn, HeldIn, Busy
  <2>2. \/ change' = change
        \/ change' = [change EXCEPT ![d] = [change[d] EXCEPT !.sent = TRUE]]
        \/ change' = [change EXCEPT ![d] = [change[d] EXCEPT !.confirmed = TRUE]]
        \/ change' = [change EXCEPT ![d] = [change[d] EXCEPT !.cancelled = TRUE]]
    <3>1. change = [q \in Changes |-> change[q]]
      BY <1>1 DEF Types
    <3>2. CASE MailChange(t)
      BY <3>1, <3>2 DEF MailChange
    <3>3. CASE CloseChange(t)
      BY <3>1, <3>3 DEF CloseChange
    <3>4. CASE Cancel(t)
      BY <3>1, <3>4 DEF Cancel
    <3> QED BY <1>5, <3>2, <3>3, <3>4
  <2>3. \A x \in Requests : x # NoChange =>
          /\ [x EXCEPT !.sent = TRUE].confirmed = x.confirmed
          /\ [x EXCEPT !.sent = TRUE].cancelled = x.cancelled
          /\ [x EXCEPT !.confirmed = TRUE].confirmed
          /\ [x EXCEPT !.cancelled = TRUE].cancelled
    BY DEF Requests
  <2>4. change[d] \in Requests
    BY <1>1, <2>1 DEF Types
  <2>5. \A q \in Changes \ {d} : change'[q] = change[q]
    BY <1>1, <2>2 DEF Types
  <2>6. Asked(change'[d]) => Open(d)
    <3> PICK x, y : x = change[d] /\ y = change'[d]
      OBVIOUS
    <3>1. \/ y = x
          \/ y = [x EXCEPT !.sent = TRUE]
          \/ y = [x EXCEPT !.confirmed = TRUE]
          \/ y = [x EXCEPT !.cancelled = TRUE]
      <4>1. change \in [Changes -> Requests]
        BY <1>1 DEF Types
      <4> QED BY <2>1, <2>2, <4>1
    <3>2. x \in Requests /\ x # NoChange
      BY <2>1, <2>4
    <3>3. Asked(y) => ~x.confirmed /\ ~x.cancelled
      BY <2>3, <3>1, <3>2 DEF Asked
    <3> QED BY <3>2, <3>3 DEF Open
  <2> QED BY <2>1, <2>5, <2>6 DEF Asked, Open, At
<1> QED BY <1>1, <1>2, <1>3, <1>4, <1>5, StatementAt DEF At

LEMMA NoneLeftStatement ==
  ASSUME Base, NoneLeft, NEW t \in Threads, Statement(t)
  PROVE  NoneLeft'
<1>1. /\ t \in Busy /\ Onward(t) /\ crossed \subseteq crossed'
      /\ Orderly(job[t].op, job[t].todo)
  BY StatementOnward, Records, Busies
<1>2. ASSUME NEW u \in Threads, NEW s \in {"create", "open"}, At(u, s)'
      PROVE  IF u = t THEN At(t, Before[s]) ELSE At(u, s)
  <2>1. CASE u # t
    BY <1>1, <1>2, <2>1, Copies DEF At, Busy
  <2>2. CASE u = t
    <3>1. Tail(job[t].todo) # <<>> /\ Head(Tail(job[t].todo)) = s
      BY <1>1, <1>2, <2>2, Copies DEF At, Busy
    <3>2. Head(job[t].todo) = Before[s]
      BY <1>1, <3>1 DEF Orderly, Before
    <3> QED BY <1>1, <2>2, <3>2 DEF At
  <2> QED BY <2>1, <2>2
<1>3. ASSUME "challenge" \notin crossed'
      PROVE  /\ \A u \in Threads : At(u, "create")' => \A c \in Codes : ~Usable(challenge'[c])
             /\ \A c, d \in Codes : Usable(challenge'[c]) /\ Usable(challenge'[d]) => c = d
  <2>1. /\ \A u \in Threads : At(u, "create") => \A c \in Codes : ~Live(c)
        /\ \A c, d \in Codes : Live(c) /\ Live(d) => c = d
    BY <1>1, <1>3 DEF NoneLeft
  <2>2. CASE At(t, "create")
    <3>1. \A u \in Threads \ {t} : ~At(u, "create")
      BY <1>3, <2>2, StatementAt DEF CreateCode, Crossing
    <3>2. \A u \in Threads : ~At(u, "create")'
      BY <1>2, <2>2, <3>1 DEF Before, At
    <3> QED BY <2>1, <2>2, <3>2, LiveShrinks
  <2>3. CASE ~At(t, "create")
    <3>1. \A c \in Codes : Usable(challenge'[c]) => Live(c)
      BY <2>3, LiveShrinks
    <3>2. At(t, "burn") => \A c \in Codes : ~Usable(challenge'[c])
      BY LiveShrinks
    <3> QED BY <1>2, <2>1, <3>1, <3>2 DEF Before
  <2> QED BY <2>2, <2>3
<1>4. ASSUME "change" \notin crossed'
      PROVE  /\ \A u \in Threads : At(u, "open")' => \A q \in Changes : ~Asked(change'[q])
             /\ \A q, r \in Changes : Asked(change'[q]) /\ Asked(change'[r]) => q = r
  <2>1. /\ \A u \in Threads : At(u, "open") => \A q \in Changes : ~Open(q)
        /\ \A q, r \in Changes : Open(q) /\ Open(r) => q = r
    BY <1>1, <1>4 DEF NoneLeft
  <2>2. CASE At(t, "open")
    <3>1. \A u \in Threads \ {t} : ~At(u, "open")
      BY <1>4, <2>2, StatementAt DEF OpenChange, Crossing
    <3>2. \A u \in Threads : ~At(u, "open")'
      BY <1>2, <2>2, <3>1 DEF Before, At
    <3> QED BY <2>1, <2>2, <3>2, OpenShrinks
  <2>3. CASE ~At(t, "open")
    <3>1. \A q \in Changes : Asked(change'[q]) => Open(q)
      BY <2>3, OpenShrinks
    <3>2. At(t, "supersede") => \A q \in Changes : ~Asked(change'[q])
      BY OpenShrinks
    <3> QED BY <1>2, <2>1, <3>1, <3>2 DEF Before
  <2> QED BY <2>2, <2>3
<1> QED BY <1>3, <1>4 DEF NoneLeft, Live, Open, Usable, Asked

LEMMA NoneLeftStep ==
  ASSUME Base, NoneLeft, [Next]_vars
  PROVE  NoneLeft'
<1>1. ASSUME NEW t \in Threads, NEW k, Begun(t, k) PROVE NoneLeft'
  <2>1. /\ challenge' = challenge /\ change' = change /\ crossed' = crossed
        /\ job'[t] = k /\ \A u \in Threads \ {t} : job'[u] = job[u]
        /\ Head(k.todo) \notin {"create", "open"}
    BY <1>1 DEF Begun, Base, tables, Proper
  <2>2. \A u \in Threads, s \in {"create", "open"} : At(u, s)' => At(u, s)
    BY <2>1 DEF At, Busy
  <2> QED BY <2>1, <2>2 DEF NoneLeft, Live, Open
<1>2. ASSUME NEW t \in Threads, Die(t) PROVE NoneLeft'
  <2>1. t \in Busy /\ Onward(t) /\ job'[t] = Idle
    BY <1>2, DieOnward
  <2>2. challenge' = challenge /\ change' = change /\ crossed' = crossed
    BY <1>2 DEF Die, tables
  <2>3. \A u \in Threads, s \in {"create", "open"} : At(u, s)' => At(u, s)
    BY <2>1, Copies DEF At, Busy
  <2> QED BY <2>2, <2>3 DEF NoneLeft, Live, Open
<1>3. CASE Quiet
  <2>1. /\ \A c \in Codes : Usable(challenge'[c]) => Live(c)
        /\ \A q \in Changes : Asked(change'[q]) => Open(q)
    BY <1>3 DEF Quiet, Usable, Live, Asked, Open
  <2>2. job' = job /\ crossed' = crossed
    BY <1>3 DEF Quiet
  <2> QED BY <2>1, <2>2 DEF NoneLeft, Live, Open, Usable, Asked, At, Busy
<1> QED BY <1>1, <1>2, <1>3, NoneLeftStatement, Steppings

(* At most one emailed code works and one change of address is open,       *)
(* unless two requests inserted theirs at the same time (mfa.py,           *)
(* _create_and_send_email_challenge; email_change.py, request_email_change).        *)
THEOREM AlwaysOnePending == Spec => []OnePending
<1>1. Init => Base /\ NoneLeft
  BY BaseInit DEF Init, NoneLeft, At, Busy, Live, Open
<1>2. Base /\ NoneLeft /\ [Next]_vars => (Base /\ NoneLeft)'
  BY BaseStep, NoneLeftStep
<1>3. NoneLeft => OnePending
  <2> SUFFICES ASSUME NoneLeft PROVE OnePending
    OBVIOUS
  <2>1. ASSUME "challenge" \notin crossed
        PROVE  Cardinality({c \in Codes : Live(c)}) <= 1
    <3>1. \A c, d \in {x \in Codes : Live(x)} : c = d
      BY <2>1 DEF NoneLeft
    <3> QED BY <3>1, AtMostOne
  <2>2. ASSUME "change" \notin crossed
        PROVE  Cardinality({q \in Changes : Open(q)}) <= 1
    <3>1. \A q, r \in {x \in Changes : Open(x)} : q = r
      BY <2>2 DEF NoneLeft
    <3> QED BY <3>1, AtMostOne
  <2> QED BY <2>1, <2>2 DEF OnePending
<1> QED BY <1>1, <1>2, <1>3, PTL DEF Spec

-----------------------------------------------------------------------------
(* ChangeAppliedOnce.                                                      *)
LEMMA ClosesNext ==
  ASSUME NEW todo, Planned("confirm-change", todo), Head(todo) = "save"
  PROVE  Tail(todo) = <<"close">>
<1>1. todo \in {<<"drop-challenges", "save", "close">>, <<"save", "close">>, <<"close">>}
  BY DEF Planned, Disables
<1>2. CASE todo = <<"drop-challenges", "save", "close">>
  BY <1>2, List3
<1>3. CASE todo = <<"save", "close">>
  BY <1>3, List2
<1>4. CASE todo = <<"close">>
  BY <1>4, List1
<1> QED BY <1>1, <1>2, <1>3, <1>4

LEMMA StaysConfirmed ==
  ASSUME Base, NEW t \in Threads, Statement(t), NEW q \in Changes,
         change[q] # NoChange, change[q].confirmed
  PROVE  change'[q].confirmed
<1>1. t \in Busy /\ Types
  BY StatementOnward DEF Base
<1>2. change[q] \in Requests
  BY <1>1 DEF Types
<1>3. \A x \in Requests : x # NoChange =>
        /\ [x EXCEPT !.sent = TRUE].confirmed = x.confirmed
        /\ [x EXCEPT !.cancelled = TRUE].confirmed = x.confirmed
        /\ [x EXCEPT !.confirmed = TRUE].confirmed
  BY DEF Requests
<1>4. CASE Head(job[t].todo) \notin {"supersede", "open", "mail", "close", "cancel"}
  BY <1>4, Records
<1>5. CASE Supersede(t)
  <2>1. change'[q] = change[q] \/ change'[q] = [change[q] EXCEPT !.cancelled = TRUE]
    BY <1>5 DEF Supersede
  <2> QED BY <1>2, <1>3, <2>1
<1>6. CASE OpenChange(t)
  <2> PICK n : n = CHOOSE x \in FreshChanges : TRUE
    OBVIOUS
  <2> PICK x : x = [NoChange EXCEPT !.new = job[t].save.addr]
    OBVIOUS
  <2>1. change[n] = NoChange /\ change' = [change EXCEPT ![n] = x]
    BY <1>6, FreshChange DEF OpenChange
  <2> QED BY <1>1, <2>1 DEF Types
<1>7. CASE MailChange(t) \/ CloseChange(t) \/ Cancel(t)
  <2> PICK d : d = job[t].found
    OBVIOUS
  <2>1. change = [r \in Changes |-> change[r]]
    BY <1>1 DEF Types
  <2>2. \/ change' = change
        \/ change' = [change EXCEPT ![d] = [change[d] EXCEPT !.sent = TRUE]]
        \/ change' = [change EXCEPT ![d] = [change[d] EXCEPT !.confirmed = TRUE]]
        \/ change' = [change EXCEPT ![d] = [change[d] EXCEPT !.cancelled = TRUE]]
    <3>1. CASE MailChange(t)
      BY <2>1, <3>1 DEF MailChange
    <3>2. CASE CloseChange(t)
      BY <2>1, <3>2 DEF CloseChange
    <3>3. CASE Cancel(t)
      BY <2>1, <3>3 DEF Cancel
    <3> QED BY <1>7, <3>1, <3>2, <3>3
  <2>3. CASE d = q
    <3>1. \/ change'[q] = change[q]
          \/ change'[q] = [change[q] EXCEPT !.sent = TRUE]
          \/ change'[q] = [change[q] EXCEPT !.confirmed = TRUE]
          \/ change'[q] = [change[q] EXCEPT !.cancelled = TRUE]
      BY <2>1, <2>2, <2>3
    <3> QED BY <1>2, <1>3, <3>1
  <2>4. CASE d # q
    BY <2>1, <2>2, <2>4
  <2> QED BY <2>3, <2>4
<1> QED BY <1>1, <1>4, <1>5, <1>6, <1>7, StatementAt DEF At

LEMMA NotedStatement ==
  ASSUME Base, Noted, NEW t \in Threads, Statement(t), UNCHANGED left
  PROVE  Noted'
<1>1. /\ t \in Busy /\ Onward(t) /\ accidents \subseteq accidents' /\ Lasting
      /\ Types /\ Planned(job[t].op, job[t].todo) /\ Orderly(job[t].op, job[t].todo)
  BY StatementOnward, StatementTypes, Records, Busies DEF Base
<1>2. ASSUME NEW q \in applied
      PROVE  /\ change'[q] # NoChange
             /\ \/ "torn" \in accidents' \/ change'[q].confirmed
                \/ \E u \in Threads : At(u, "close")' /\ job'[u].found = q
  <2>1. /\ q \in Changes /\ change[q] # NoChange /\ change'[q] # NoChange
        /\ \/ "torn" \in accidents \/ change[q].confirmed
           \/ \E u \in Threads : At(u, "close") /\ job[u].found = q
    BY <1>1 DEF Noted, Types, Lasting
  <2>2. CASE "torn" \in accidents
    BY <1>1, <2>1, <2>2
  <2>3. CASE change[q].confirmed
    BY <2>1, <2>3, StaysConfirmed
  <2>4. ASSUME NEW u \in Threads, At(u, "close"), job[u].found = q
        PROVE  change'[q].confirmed \/ (At(u, "close")' /\ job'[u].found = q)
    <3>1. CASE u # t
      BY <1>1, <2>4, <3>1, Copies DEF At, Busy
    <3>2. CASE u = t
      <4>1. CloseChange(t)
        BY <2>4, <3>2, StatementAt
      <4>2. change' = [change EXCEPT ![q] = [change[q] EXCEPT !.confirmed = TRUE]]
        BY <1>1, <2>4, <3>2, <4>1 DEF CloseChange, Types
      <4>3. change'[q] = [change[q] EXCEPT !.confirmed = TRUE] /\ change[q] \in Requests
        BY <1>1, <2>1, <4>2 DEF Types
      <4>4. \A x \in Requests : x # NoChange => [x EXCEPT !.confirmed = TRUE].confirmed
        BY DEF Requests
      <4> QED BY <2>1, <4>3, <4>4
    <3> QED BY <3>1, <3>2
  <2> QED BY <2>1, <2>2, <2>3, <2>4
<1>3. ASSUME NEW q \in applied', q \notin applied
      PROVE  /\ change'[q] # NoChange
             /\ \E u \in Threads : At(u, "close")' /\ job'[u].found = q
  <2>1. Head(job[t].todo) = "save"
    BY <1>3, Records
  <2>2. Save(t)
    BY <1>1, <2>1, StatementAt DEF At
  <2>3. job[t].op = "confirm-change" /\ q = job[t].found
    BY <1>3, <2>2 DEF Save
  <2>4. q \in Changes /\ change[q] # NoChange
    BY <1>1, <2>3 DEF Base, Formed, FormedIn, HeldIn, Busy
  <2>5. Tail(job[t].todo) = <<"close">>
    BY <1>1, <2>1, <2>3, ClosesNext
  <2>6. job'[t] # Idle
    <3>1. Tail(job[t].todo) # <<>>
      BY <2>5, List1
    <3> QED BY <2>1, <3>1, GoesOn
  <2>7. job'[t].todo = <<"close">> /\ job'[t].found = q
    BY <1>1, <2>1, <2>3, <2>5, <2>6, Copies
  <2> QED BY <1>1, <2>4, <2>6, <2>7, List1 DEF Lasting, At, Busy
<1> QED BY <1>2, <1>3 DEF Noted

LEMMA NotedStep ==
  ASSUME Base, Noted, [Next]_vars
  PROVE  Noted'
<1>1. ASSUME NEW t \in Threads, NEW k, Begun(t, k) PROVE Noted'
  <2>1. /\ change' = change /\ applied' = applied /\ accidents \subseteq accidents'
        /\ job[t] = Idle /\ \A u \in Threads \ {t} : job'[u] = job[u]
    BY <1>1 DEF Begun, Base, tables, Witness
  <2>2. \A u \in Threads : At(u, "close") => At(u, "close")' /\ job'[u] = job[u]
    BY <2>1 DEF At, Busy
  <2> QED BY <2>1, <2>2 DEF Noted
<1>2. ASSUME NEW t \in Threads, Die(t) PROVE Noted'
  <2>1. t \in Busy /\ Onward(t)
    BY <1>2, DieOnward
  <2>2. /\ change' = change /\ applied' = applied /\ accidents \subseteq accidents'
        /\ At(t, "close") => "torn" \in accidents'
    BY <1>2 DEF Die, tables, Witness
  <2>3. \A u \in Threads \ {t} : At(u, "close") =>
          At(u, "close")' /\ job'[u].found = job[u].found
    BY <2>1, Copies DEF At, Busy
  <2> QED BY <2>2, <2>3 DEF Noted
<1>3. CASE Quiet
  <2>1. /\ applied' \subseteq applied /\ applied \subseteq Changes
        /\ job' = job /\ accidents' = accidents
    BY <1>3 DEF Quiet, Base, Types
  <2>2. \A q \in applied' : change[q] # NoChange /\ change'[q] # NoChange
                              /\ change'[q].confirmed = change[q].confirmed
    BY <1>3, <2>1 DEF Quiet, Noted
  <2> QED BY <2>1, <2>2 DEF Noted, At, Busy
<1> QED BY <1>1, <1>2, <1>3, NotedStatement, Steppings

(* A link of confirmation moves the address once: a second handler of the  *)
(* same request saves only from a stale copy, or while the first has yet   *)
(* to record that it did, or died before it could (email_change.py,        *)
(* confirm_email_change).                                                  *)
THEOREM ChangeAlwaysAppliedOnce == Spec => ChangeAppliedOnce
<1>1. Init => Base /\ Noted
  BY BaseInit DEF Init, Noted
<1>2. Base /\ Noted /\ [Next]_vars => (Base /\ Noted)'
  BY BaseStep, NotedStep
<1> DEFINE Once ==
      \A t \in Threads :
        At(t, "save") /\ job'[t] # job[t] /\ job[t].op = "confirm-change"
          /\ job[t].found \in applied
        => \/ "torn" \in accidents \/ ~job[t].fresh
           \/ \E u \in Threads : At(u, "close") /\ job[u].found = job[t].found
<1>3. Base /\ Noted => Once
  <2> SUFFICES ASSUME Base, Noted, NEW t \in Threads, At(t, "save"),
                      job[t].op = "confirm-change", job[t].found \in applied,
                      "torn" \notin accidents, job[t].fresh
               PROVE  \E u \in Threads : At(u, "close") /\ job[u].found = job[t].found
    OBVIOUS
  <2>1. t \in Busy /\ Planned(job[t].op, job[t].todo) /\ Head(job[t].todo) = "save"
    BY Busies DEF At
  <2>2. Fresh(job[t])
    BY <2>1, Rests DEF Fresh, Saving, Busy
  <2>3. ~change[job[t].found].confirmed
    BY <2>2 DEF Base, Decided, DecidedOn
  <2> QED BY <2>3 DEF Noted
<1>4. Base /\ Noted /\ [Next]_vars => [Once]_vars
  BY <1>3
<1> QED BY <1>1, <1>2, <1>4, PTL DEF Spec, ChangeAppliedOnce

=============================================================================
