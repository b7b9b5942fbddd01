------------------------------- MODULE Avatars -------------------------------
(***************************************************************************)
(* The picture of one account: update_avatar and delete_avatar_view of     *)
(* views/profile.py, the antivirus scan (av.py), replace_avatar and        *)
(* delete_avatar (services/user.py), and what /media/ answers (urls.py).   *)
(*                                                                         *)
(* The picture is a file of the storage and a column of the user's row     *)
(* that names it, and no transaction spans the two.  A request loads the   *)
(* row when it arrives and works from that copy, through a scan that may   *)
(* take seconds; file names are random, so none is used twice.  Whether a  *)
(* form is refused and how pixels are converted leaves nothing behind and  *)
(* is not here; a scan that an open breaker skips is one that failed.      *)
(***************************************************************************)
EXTENDS Naturals, FiniteSets

CONSTANTS
  Threads,
  Files,
  None,
  MaxHandlers   \* bound on handlers begun, a limit of the model

ASSUME AvatarsAssumption ==
  /\ None \notin Files /\ IsFiniteSet(Threads)
  /\ MaxHandlers \in Nat

VARIABLES
  exists,    \* whether models.User still has the row
  avatar,    \* its column avatar
  stored,    \* the files under media/avatars
  job,
  left,      \* handlers that may still begin
  (* history *)
  unchecked, \* files that were let in because the scan failed
  noted,     \* audit rows saying that a scan failed
  leaks,     \* accidents, each of which may leave a file behind
  dangling   \* whether an accident may have left a name without its file

row == <<exists, avatar>>
history == <<unchecked, noted, leaks, dangling>>
vars == <<exists, avatar, stored, job, left, unchecked, noted, leaks, dangling>>

Points == {"scan", "note", "store", "save", "drop", "unlink", "clear", "whole"}
Idle == [at |-> "idle"]

TypeOK ==
  /\ exists \in BOOLEAN
  /\ avatar \in Files \cup {None}
  /\ stored \subseteq Files /\ unchecked \subseteq Files
  /\ {left, noted} \subseteq 0 .. MaxHandlers
  /\ leaks \in Nat /\ dangling \in BOOLEAN
  /\ \A t \in Threads : job[t] = Idle \/
       /\ job[t].at \in Points
       /\ {job[t].old, job[t].new} \subseteq Files \cup {None}
       /\ job[t].failed \in BOOLEAN

Init ==
  /\ exists = TRUE
  /\ avatar \in Files \cup {None}
  /\ stored = {avatar} \ {None}
  /\ job = [t \in Threads |-> Idle]
  /\ left = MaxHandlers
  /\ unchecked = {} /\ noted = 0 /\ leaks = 0 /\ dangling = FALSE

-----------------------------------------------------------------------------

At(t, point) == job[t].at = point
Goto(t, point) == job' = [job EXCEPT ![t].at = point]
Finish(t) == job' = [job EXCEPT ![t] = Idle]

Begin(t, point) ==
  /\ exists
  /\ job[t] = Idle
  /\ left > 0 /\ left' = left - 1
  /\ job' = [job EXCEPT ![t] = [at |-> point, old |-> avatar, new |-> None,
                                failed |-> FALSE]]
  /\ UNCHANGED <<row, stored, history>>

(* avatar_upload_to: a name nobody has or remembers.                       *)
Known ==
  stored \cup {avatar} \cup unchecked
    \cup UNION {{job[t].old, job[t].new} : t \in {s \in Threads : job[s] # Idle}}
Fresh == Files \ Known

Upload(t) == Begin(t, "scan")
Remove(t) == avatar # None /\ Begin(t, "unlink")

(* Whoever saves the whole row: an administrator, a new password.          *)
ReadWhole(t) == Begin(t, "whole")

-----------------------------------------------------------------------------
(* update_avatar and replace_avatar.                                       *)

(* scan_bytes: disabled or ok, infected, or check_failed, which goes on    *)
(* once it has been put in the audit trail.                                *)
ScanUnnoted(t) ==
  /\ At(t, "scan")
  /\ \/ Goto(t, "store")
     \/ Finish(t)
     \/ job' = [job EXCEPT ![t].at = "store", ![t].failed = TRUE]
  /\ UNCHANGED <<row, stored, left, history>>

Scan(t) ==
  /\ At(t, "scan")
  /\ \/ Goto(t, "store")
     \/ Finish(t)
     \/ job' = [job EXCEPT ![t].at = "note", ![t].failed = TRUE]
  /\ UNCHANGED <<row, stored, left, history>>

Note(t) ==
  /\ At(t, "note")
  /\ noted' = noted + 1
  /\ Goto(t, "store")
  /\ UNCHANGED <<row, stored, left, unchecked, leaks, dangling>>

(* user.avatar.save writes the file, the row keeps the old name.           *)
StoreInPlace(t) ==
  /\ At(t, "store")
  /\ \E f \in Fresh :
       /\ stored' = (stored \ {job[t].old}) \cup {f}
       /\ unchecked' = IF job[t].failed THEN unchecked \cup {f} ELSE unchecked
       /\ job' = [job EXCEPT ![t].at = "save", ![t].new = f]
  /\ UNCHANGED <<row, left, noted, leaks, dangling>>

Store(t) ==
  /\ At(t, "store")
  /\ \E f \in Fresh :
       /\ stored' = stored \cup {f}
       /\ unchecked' = IF job[t].failed THEN unchecked \cup {f} ELSE unchecked
       /\ job' = [job EXCEPT ![t].at = "save", ![t].new = f]
  /\ UNCHANGED <<row, left, noted, leaks, dangling>>

(* A write over a name the handler has not seen.                           *)
Stale(t) == avatar # job[t].old
Overwrites(t) == avatar \notin {None, job[t].old}
Leak(happens) == leaks' = IF happens THEN leaks + 1 ELSE leaks

(* save(update_fields=...) raises when the row is gone.                    *)
SaveRow(t) ==
  /\ At(t, "save")
  /\ IF exists THEN avatar' = job[t].new /\ Goto(t, "drop")
     ELSE UNCHANGED avatar /\ Finish(t)
  /\ Leak(~exists \/ Overwrites(t))
  /\ UNCHANGED <<exists, stored, left, unchecked, noted, dangling>>

DropNothing(t) ==
  /\ At(t, "drop")
  /\ Finish(t)
  /\ UNCHANGED <<row, stored, left, history>>

DropOld(t) ==
  /\ At(t, "drop")
  /\ stored' = stored \ {job[t].old}
  /\ Finish(t)
  /\ UNCHANGED <<row, left, history>>

-----------------------------------------------------------------------------
(* delete_avatar: the file, the row, and then the file once more, which is *)
(* gone by then.                                                           *)

Unlink(t) ==
  /\ At(t, "unlink")
  /\ stored' = stored \ {job[t].old}
  /\ Goto(t, "clear")
  /\ UNCHANGED <<row, left, history>>

ClearRow(t) ==
  /\ At(t, "clear")
  /\ avatar' = IF exists THEN None ELSE avatar
  /\ Finish(t)
  /\ Leak(Overwrites(t))
  /\ UNCHANGED <<exists, stored, left, unchecked, noted, dangling>>

-----------------------------------------------------------------------------
(* Others: whole rows, the end of the account, the end of a worker.        *)

(* save() without update_fields inserts the row again if it has to.        *)
SaveWhole(t) ==
  /\ At(t, "whole")
  /\ exists' = TRUE
  /\ avatar' = job[t].old
  /\ Finish(t)
  /\ Leak(Overwrites(t))
  /\ dangling' = (dangling \/ Stale(t))
  /\ UNCHANGED <<stored, left, unchecked, noted>>

(* Every path that deletes a user leaves the file.                         *)
DeleteAccount ==
  /\ exists
  /\ exists' = FALSE
  /\ avatar' = None
  /\ Leak(avatar # None)
  /\ UNCHANGED <<stored, job, unchecked, noted, dangling>>

Die(t) ==
  /\ job[t] # Idle
  /\ Finish(t)
  /\ Leak(job[t].at \in {"save", "drop"})
  /\ dangling' = (dangling \/ At(t, "clear"))
  /\ UNCHANGED <<row, stored, left, unchecked, noted>>

Continue(t) ==
  \/ Scan(t) \/ Note(t) \/ Store(t) \/ SaveRow(t) \/ DropOld(t)
  \/ Unlink(t) \/ ClearRow(t) \/ SaveWhole(t) \/ Die(t)

Next ==
  \/ \E t \in Threads : Upload(t) \/ Remove(t) \/ ReadWhole(t) \/ Continue(t)
  \/ left > 0 /\ left' = left - 1 /\ DeleteAccount

Spec == Init /\ [][Next]_vars

-----------------------------------------------------------------------------
(* Properties.                                                             *)

(* _authenticated_media: the owner is whoever's row has the very name.     *)
Media(f, isOwner, isAdmin) ==
  IF ~isOwner /\ ~isAdmin THEN "403" ELSE IF f \in stored THEN "200" ELSE "404"

(* The name in the row is never that of a file that is gone, whatever      *)
(* uploads and removals overlap: a broken picture takes a removal under    *)
(* way or dead between its two stores, or a whole row saved from an older  *)
(* copy.                                                                   *)
PictureIsThere ==
  avatar # None =>
    \/ Media(avatar, TRUE, FALSE) = "200"
    \/ dangling
    \/ \E t \in Threads : At(t, "clear") /\ job[t].old = avatar

(* Files nothing names do not pile up: each accident - a death between the *)
(* stores, a write over a name that was not seen, the end of the account - *)
(* leaves at most one, and each upload under way accounts for one.         *)
LeaksBounded ==
  Cardinality(stored \ {avatar})
    <= leaks + Cardinality({t \in Threads : job[t].at \in {"save", "drop"}})

(* Every file that was let in because the scanner did not answer has its   *)
(* line in the audit trail, wherever a worker was killed.                  *)
OutagesNoted == Cardinality(unchecked) <= noted
=============================================================================
