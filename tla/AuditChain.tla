----------------------------- MODULE AuditChain -----------------------------
(***************************************************************************)
(* The HMAC-chained audit log: services/audit.py, the prune of             *)
(* services/retention.py, and the processes that share the table and its   *)
(* key.                                                                    *)
(*                                                                         *)
(* Writers are the processes that call record_audit.  Each holds the key   *)
(* it read from the env file when it started.  The operator's rotation     *)
(* re-stamps the chain with a new key, rewrites the env file and restarts  *)
(* the writers; the maintenance sweep deletes the oldest rows and          *)
(* re-stamps what is left with the key that it started with.               *)
(*                                                                         *)
(* A transaction is two steps: what its statements read, and its commit.   *)
(* On SQLite (Serial) two transactions cannot both read and then both      *)
(* commit: the loser gets "database is locked" and rolls back.  On         *)
(* PostgreSQL, in READ COMMITTED, a row lock orders them and no more.      *)
(*                                                                         *)
(* HMAC-SHA256 is abstracted to a free constructor: a mac is the sequence  *)
(* of the <<key, data>> pairs that went into it, so equal macs mean equal  *)
(* histories, and the empty sequence is the empty hmac of a legacy row.    *)
(***************************************************************************)
EXTENDS Integers, SequencesExt

CONSTANTS
  Writers,   \* processes that record audit rows (api threads, workers, CLI)
  Keys,      \* values of AMELI_APP_AUDIT_HMAC_KEY
  NoKey,     \* the variable is empty: rows are written without a stamp
  Serial,    \* transactions serialise (SQLite), or only rows lock (PostgreSQL)
  MaxRows,   \* bound on rows ever written
  MaxEdits   \* bound on changes from outside the program

ASSUME AuditChainAssumption ==
  /\ NoKey \notin Keys
  /\ Serial \in BOOLEAN
  /\ MaxRows \in Nat /\ MaxEdits \in Nat

VARIABLES
  rows,     \* AuditEvent, in id order
  nextId,
  envKey,   \* the env file
  memKey,   \* settings.AUDIT_HMAC_KEY of each writer
  seen,     \* the last row's id a writer's open transaction read, 0 for none
  rot,      \* the rotation, in the operator's shell
  sweep,    \* the prune, in the maintenance process
  dbKey,    \* history: the key that stamped the chain as a whole
  cleared,  \* history: ids of stamped rows whose prev_hmac a sweep blanked
  edits     \* history: the outside changes so far

vars == <<rows, nextId, envKey, memKey, seen, rot, sweep, dbKey, cleared, edits>>

Out == -1
NoMac == <<>>
Altered == 0  \* what a row says once something outside has changed it

Mac(k, prev, data) == Append(prev, <<k, data>>)

(* A row says what it said when it was written (its id stands for it).     *)
Row(id, prev, mac) == [id |-> id, data |-> id, prev |-> prev, mac |-> mac]
Rows == [id : Nat, data : Nat, prev : Seq(Keys \X Nat), mac : Seq(Keys \X Nat)]

Chained(r) == r.mac # NoMac

TypeOK ==
  /\ rows \in Seq(Rows)
  /\ \A i \in DOMAIN rows : Chained(rows[i]) \/ rows[i].prev = NoMac
  /\ nextId \in Nat \ {0}
  /\ envKey \in Keys \cup {NoKey}
  /\ memKey \in [Writers -> Keys \cup {NoKey}]
  /\ seen \in [Writers -> Nat \cup {Out}]
  /\ rot \in [phase : {"idle", "verified", "walking", "committed", "applied"},
              to : Keys \cup {NoKey}, snap : Seq(Rows)]
  /\ sweep \in [phase : {"idle", "started", "walking"},
                key : Keys \cup {NoKey}, cut : Nat, snap : Seq(Rows)]
  /\ dbKey \in Keys \cup {NoKey}
  /\ cleared \subseteq Nat
  /\ edits \in 0 .. MaxEdits

IdleRotation == [phase |-> "idle", to |-> NoKey, snap |-> <<>>]
IdleSweep == [phase |-> "idle", key |-> NoKey, cut |-> 0, snap |-> <<>>]

Init ==
  /\ rows = <<>>
  /\ nextId = 1
  /\ envKey \in Keys \cup {NoKey}
  /\ memKey = [w \in Writers |-> envKey]
  /\ seen = [w \in Writers |-> Out]
  /\ rot = IdleRotation
  /\ sweep = IdleSweep
  /\ dbKey = envKey
  /\ cleared = {}
  /\ edits = 0

-----------------------------------------------------------------------------
(* verify_audit_chain.  The walk's expected_prev is the mac of the row     *)
(* before, "" for the first row walked; after a legacy row it is "", which *)
(* is a legacy row's mac.  Verify is the set of rows the walk would stop   *)
(* at; it stops at the first.                                              *)
Before(rs, i) == IF i = 1 THEN NoMac ELSE rs[i - 1].mac

Linked(rs, i) == rs[i].prev = Before(rs, i)
Authentic(rs, i, k) == rs[i].mac = Mac(k, rs[i].prev, rs[i].data)

Breaks(rs, k) ==
  {i \in DOMAIN rs : Chained(rs[i]) /\ ~ (Linked(rs, i) /\ Authentic(rs, i, k))}

Intact(rs, k) == Breaks(rs, k) = {}

(* The loop that rotate_audit_key and _prune_audit_with_anchor share, down *)
(* the rows in id order: new_prev after the first n of them.  Each chained *)
(* row is stamped again over it; a legacy row starts it afresh.  The first *)
(* form is a plausible bug, for the sensitivity checks: no fresh start.    *)
NewPrevThroughLegacy(rs, k) ==
  LET prev[n \in 0 .. Len(rs)] ==
        IF n = 0 THEN NoMac
        ELSE IF Chained(rs[n]) THEN Mac(k, prev[n - 1], rs[n].data) ELSE prev[n - 1]
  IN  prev

NewPrev(rs, k) ==
  LET prev[n \in 0 .. Len(rs)] ==
        IF n = 0 THEN NoMac
        ELSE IF Chained(rs[n]) THEN Mac(k, prev[n - 1], rs[n].data) ELSE NoMac
  IN  prev

Restamp(rs, k) ==
  LET walk == NewPrev(rs, k) IN
  [i \in DOMAIN rs |->
     IF Chained(rs[i])
     THEN [rs[i] EXCEPT !.prev = walk[i - 1], !.mac = walk[i]]
     ELSE rs[i]]

(* What a walk over the snapshot leaves in the table: UPDATE ... WHERE pk  *)
(* sets the two stamps of rows that are still there, and touches no other. *)
Rewrite(table, stamped) ==
  [i \in DOMAIN table |->
     LET new == {j \in DOMAIN stamped : /\ stamped[j].id = table[i].id
                                        /\ Chained(stamped[j])}
     IN  IF new = {} THEN table[i]
         ELSE [table[i] EXCEPT !.prev = stamped[Max(new)].prev,
                               !.mac = stamped[Max(new)].mac]]

Ids(rs) == {rs[i].id : i \in DOMAIN rs}

LastMac(rs) == IF rs = <<>> THEN NoMac ELSE rs[Len(rs)].mac

-----------------------------------------------------------------------------
InTransaction(w) == seen[w] # Out

(* On SQLite a commit waits for the transactions that have read, and times *)
(* out; so the transactions that commit have run one after the other.      *)
WritersOut(W) == \A w \in W : ~ InTransaction(w)
RotationOut == rot.phase # "walking"
SweepOut == sweep.phase # "walking"

WriterMayCommit(w) == Serial => WritersOut(Writers \ {w}) /\ RotationOut /\ SweepOut
RotationMayCommit == Serial => WritersOut(Writers) /\ SweepOut
SweepMayCommit == Serial => WritersOut(Writers) /\ RotationOut

HasRoom == nextId <= MaxRows

(* Plausible bug: the ORDER BY the wrong way round.                        *)
OldestId == IF rows = <<>> THEN 0 ELSE rows[1].id

(* record_audit with no key: one INSERT.                                   *)
RecordUnstamped(w) ==
  /\ memKey[w] = NoKey
  /\ ~ InTransaction(w) /\ WriterMayCommit(w)
  /\ HasRoom
  /\ rows' = Append(rows, Row(nextId, NoMac, NoMac))
  /\ nextId' = nextId + 1
  /\ UNCHANGED <<envKey, memKey, seen, rot, sweep, dbKey, cleared, edits>>

(* record_audit with a key: SELECT ... ORDER BY id DESC LIMIT 1 FOR UPDATE *)
(* finds the last row committed by then ...                                *)
LastId == IF rows = <<>> THEN 0 ELSE rows[Len(rows)].id

RecordSelects(w) ==
  /\ memKey[w] # NoKey
  /\ ~ InTransaction(w)
  /\ HasRoom
  /\ seen' = [seen EXCEPT ![w] = LastId]
  /\ UNCHANGED <<rows, nextId, envKey, memKey, rot, sweep, dbKey, cleared, edits>>

(* ... waits for that row, whatever has been committed after it, takes its *)
(* mac as it is by then, and inserts the stamped row.  An empty table      *)
(* leaves nothing to wait for, and a row pruned meanwhile none to read.    *)
SeenMac(w) ==
  LET found == {i \in DOMAIN rows : rows[i].id = seen[w]}
  IN  IF found = {} THEN NoMac ELSE rows[Max(found)].mac

RecordInserts(w) ==
  /\ InTransaction(w) /\ WriterMayCommit(w)
  /\ HasRoom
  /\ rows' = Append(rows, Row(nextId, SeenMac(w),
                              Mac(memKey[w], SeenMac(w), nextId)))
  /\ nextId' = nextId + 1
  /\ dbKey' = IF dbKey = NoKey THEN memKey[w] ELSE dbKey
  /\ seen' = [seen EXCEPT ![w] = Out]
  /\ UNCHANGED <<envKey, memKey, rot, sweep, cleared, edits>>

RecordRollsBack(w) ==
  /\ InTransaction(w)
  /\ seen' = [seen EXCEPT ![w] = Out]
  /\ UNCHANGED <<rows, nextId, envKey, memKey, rot, sweep, dbKey, cleared, edits>>

-----------------------------------------------------------------------------
(* What rotate_audit_key asks before it touches a row; a refusal changes   *)
(* nothing: no step.                                                       *)
MayRotate(from, to) ==
  /\ from # NoKey
  /\ from # to
  /\ Intact(rows, from)

(* ameli-app rotate-audit-key, once, by the recipe of the operations guide:*)
(* the key to leave is what the env file holds.                            *)
RotateVerifies(to) ==
  /\ rot.phase = "idle"
  /\ MayRotate(envKey, to)
  /\ rot' = [rot EXCEPT !.phase = "verified", !.to = to]
  /\ UNCHANGED <<rows, nextId, envKey, memKey, seen, sweep, dbKey, cleared, edits>>

RotateReads ==
  /\ rot.phase = "verified"
  /\ rot' = [rot EXCEPT !.phase = "walking", !.snap = rows]
  /\ UNCHANGED <<rows, nextId, envKey, memKey, seen, sweep, dbKey, cleared, edits>>

RotateCommits ==
  LET stamped == Restamp(rot.snap, rot.to)
      last == LastMac(stamped) IN
  /\ rot.phase = "walking" /\ RotationMayCommit
  /\ HasRoom
  /\ rows' = Append(Rewrite(rows, stamped),
                    Row(nextId, last, Mac(rot.to, last, nextId)))
  /\ nextId' = nextId + 1
  /\ dbKey' = rot.to
  /\ cleared' = cleared \ Ids(rot.snap)
  /\ rot' = [rot EXCEPT !.phase = "committed", !.snap = <<>>]
  /\ UNCHANGED <<envKey, memKey, seen, sweep, edits>>

RotateRollsBack ==
  /\ rot.phase \in {"verified", "walking"}
  /\ rot' = IdleRotation
  /\ UNCHANGED <<rows, nextId, envKey, memKey, seen, sweep, dbKey, cleared, edits>>

(* --apply-env, if the verification after the commit is clean: a temporary *)
(* file and a rename, so a crash or a failed write leaves the old file.    *)
ApplyEnv ==
  /\ rot.phase = "committed"
  /\ Intact(rows, rot.to)
  /\ envKey' = rot.to
  /\ rot' = [rot EXCEPT !.phase = "applied"]
  /\ UNCHANGED <<rows, nextId, memKey, seen, sweep, dbKey, cleared, edits>>

(* systemctl restart, a crash, or the next tick of a oneshot worker: the   *)
(* process comes back with the key of the env file.                        *)
Restart(w) ==
  /\ memKey[w] # envKey
  /\ memKey' = [memKey EXCEPT ![w] = envKey]
  /\ seen' = [seen EXCEPT ![w] = Out]
  /\ UNCHANGED <<rows, nextId, envKey, rot, sweep, dbKey, cleared, edits>>

(* The operator pins a first key.  A sweep started before that goes on     *)
(* without one.                                                            *)
PinFirstKey ==
  /\ envKey = NoKey
  /\ envKey' \in Keys
  /\ UNCHANGED <<rows, nextId, memKey, seen, rot, sweep, dbKey, cleared, edits>>

-----------------------------------------------------------------------------
(* _prune_audit_with_anchor, the audit step of run_retention_sweep, in a   *)
(* maintenance process started now.  The row the sweep records when it is  *)
(* done, in a transaction of its own, is a writer's.                       *)
SweepStarts ==
  /\ sweep.phase = "idle"
  /\ sweep' = [sweep EXCEPT !.phase = "started", !.key = envKey]
  /\ UNCHANGED <<rows, nextId, envKey, memKey, seen, rot, dbKey, cleared, edits>>

(* A plausible bug: the prune takes one row more than the cutoff says.     *)
SurvivorsOffByOne(cut) == SubSeq(rows, cut + 2, Len(rows))

Survivors(cut) == SubSeq(rows, cut + 1, Len(rows))

(* DELETE of the rows older than the cutoff, the first cut of them and at  *)
(* least one, and the SELECT of the survivors.  Rows are as old as their   *)
(* ids say, and nobody else deletes any.                                   *)
SweepReads ==
  /\ sweep.phase = "started"
  /\ \E cut \in DOMAIN rows :
       sweep' = [sweep EXCEPT !.phase = "walking", !.cut = cut,
                              !.snap = Survivors(cut)]
  /\ UNCHANGED <<rows, nextId, envKey, memKey, seen, rot, dbKey, cleared, edits>>

SweepCommits ==
  LET stamped == Restamp(sweep.snap, sweep.key)
      last == LastMac(stamped) IN
  /\ sweep.phase = "walking" /\ SweepMayCommit
  /\ sweep.key # NoKey
  /\ HasRoom
  /\ rows' = Append(Rewrite(Survivors(sweep.cut), stamped),
                    Row(nextId, last, Mac(sweep.key, last, nextId)))
  /\ nextId' = nextId + 1
  /\ dbKey' = sweep.key
  /\ cleared' = cleared \ Ids(sweep.snap)
  /\ sweep' = IdleSweep
  /\ UNCHANGED <<envKey, memKey, seen, rot, edits>>

(* Without a key: prev_hmac is cleared everywhere, the anchor is legacy.   *)
(* "The chain is already empty" (retention.py:169), unless a key has been  *)
(* pinned and rows chained since this process started.                     *)
Blanked(left) ==
  {left[i].id : i \in {j \in DOMAIN left : Chained(left[j]) /\ left[j].prev # NoMac}}

SweepCommitsUnstamped ==
  /\ sweep.phase = "walking" /\ SweepMayCommit
  /\ sweep.key = NoKey
  /\ HasRoom
  /\ LET left == Survivors(sweep.cut) IN
       rows' = Append([i \in DOMAIN left |-> [left[i] EXCEPT !.prev = NoMac]],
                      Row(nextId, NoMac, NoMac))
       /\ cleared' = cleared \cup Blanked(left)
  /\ nextId' = nextId + 1
  /\ sweep' = IdleSweep
  /\ UNCHANGED <<envKey, memKey, seen, rot, dbKey, edits>>

(* Nothing old enough, an error, or the process dies.                      *)
SweepEnds ==
  /\ sweep.phase # "idle"
  /\ sweep' = IdleSweep
  /\ UNCHANGED <<rows, nextId, envKey, memKey, seen, rot, dbKey, cleared, edits>>

-----------------------------------------------------------------------------
(* Something other than this program changes what a stamped row says.      *)
EditRow(i) ==
  /\ edits < MaxEdits
  /\ Chained(rows[i])
  /\ Serial => WritersOut(Writers) /\ RotationOut /\ SweepOut
  /\ rows' = [rows EXCEPT ![i].data = Altered]
  /\ edits' = edits + 1
  /\ UNCHANGED <<nextId, envKey, memKey, seen, rot, sweep, dbKey, cleared>>

Next ==
  \/ \E w \in Writers : RecordUnstamped(w) \/ RecordSelects(w) \/ Restart(w)
                        \/ RecordInserts(w) \/ RecordRollsBack(w)
  \/ \E to \in Keys : RotateVerifies(to)
  \/ RotateReads \/ RotateCommits \/ RotateRollsBack \/ ApplyEnv
  \/ PinFirstKey
  \/ SweepStarts \/ SweepReads \/ SweepCommits \/ SweepCommitsUnstamped
  \/ SweepEnds
  \/ \E i \in DOMAIN rows : EditRow(i)

Spec == Init /\ [][Next]_vars

-----------------------------------------------------------------------------
(* "concurrent writers serialise: every committed row references the       *)
(* correct prev_hmac" (record_audit's docstring): every stamped row        *)
(* carries the mac of the row before it and was stamped over that mac,     *)
(* through appends by several processes, rotation, prune and roll-backs,   *)
(* whichever keys they hold and whatever was edited.  The exception is a   *)
(* sweep whose process started before the first key was pinned: it blanks  *)
(* the prev_hmac of the rows chained meanwhile.  Those rows, and no other, *)
(* stay unlinked until a rotation or a prune with a key stamps them again. *)
ChainLinked ==
  \A i \in DOMAIN rows :
    Chained(rows[i]) /\ rows[i].id \notin cleared
      => /\ Linked(rows, i)
         /\ rows[i].prev = Front(rows[i].mac)

(* A rotation or a prune leaves a chain that verifies from end to end      *)
(* under the key it used: the walk that stamps and the walk that verifies  *)
(* agree about legacy rows, about the new head and about the row the       *)
(* transaction adds.                                                       *)
RestampVerifies ==
  [][/\ RotateCommits => Intact(rows', rot.to)
     /\ SweepCommits => Intact(rows', sweep.key)]_vars

Pruned(i) == i <= sweep.cut /\ (SweepCommits \/ SweepCommitsUnstamped)

(* The log only grows at its end and only the prune shortens it, from the  *)
(* oldest row on: no other step, re-stamping included, drops, moves or     *)
(* rewrites what a committed row says, except the outside change itself.   *)
HistoryPreserved ==
  [][/\ \A i \in DOMAIN rows :
          \/ Pruned(i)
          \/ \E j \in DOMAIN rows' : /\ rows'[j].id = rows[i].id
                                    /\ rows'[j].data = rows[i].data
          \/ edits' > edits
     /\ \A i, j \in DOMAIN rows' : i < j => rows'[i].id < rows'[j].id]_vars

(* "The chain stays verifiable after rotation" (docs/OPERATIONS.md:1568):  *)
(* once the recipe is through, the env file rewritten and every process    *)
(* restarted, verify-audit is clean.                                       *)
VerifiableAfterRotation ==
  rot.phase = "applied" /\ edits = 0 /\ (\A w \in Writers : memKey[w] = envKey)
    => Intact(rows, envKey)

(* "Use range flags to spot-check a window" (docs/OPERATIONS.md:1539): a   *)
(* chain that verifies from end to end verifies from any row on.           *)
WindowVerifies ==
  Intact(rows, dbKey) =>
    \A i \in DOMAIN rows : Intact(SubSeq(rows, i, Len(rows)), dbKey)
=============================================================================
