--------------------------- MODULE InstallJournal ---------------------------
(***************************************************************************)
(* How the PC side of a Share replaces one file (LocalStore in             *)
(* crates/rowd-core/src/storage.rs): install_file displaces the current    *)
(* file into .rowd/recovery under a journal record, publishes the verified *)
(* bytes without clobbering, and settles the record; recover finishes or   *)
(* undoes whatever a crash or a lost race left behind; resolve_recovery    *)
(* and cleanup_recovery are the user's answers to what recover refuses.    *)
(*                                                                         *)
(* Around the store runs an editor that never takes the store's lock: it   *)
(* may replace, delete, or write through a descriptor it already holds,    *)
(* between any two steps.  A crash may come between any two steps as well; *)
(* an I/O error that makes install_file return early leaves the same disk. *)
(***************************************************************************)
EXTENDS Naturals, FiniteSets

CONSTANTS
  Path,        \* relative paths of regular files in the Share
  Content,     \* file contents, told apart by their BLAKE3 hash
  Id,          \* journal identifiers (random_id, never reused while recorded)
  Absent,      \* no file there
  NoJournal,   \* no record under this identifier
  Nobody,      \* no identifier
  Idle         \* no installation in progress

MaybeContent == Content \cup {Absent}

\* struct Journal; old_hash is what the store read before displacing.
Journal == [path : Path, old : MaybeContent, new : Content, finished : BOOLEAN]

\* The arguments and locals of install_file; restoring is the record a
\* resolve_recovery("restore") answers, or Nobody for a sync round.
Operation == [path : Path, expected : MaybeContent, new : Content,
              id : Id \cup {Nobody}, restoring : Id \cup {Nobody}]

OpRecord(p, expected, new, i, restoring) ==
  [path |-> p, expected |-> expected, new |-> new, id |-> i, restoring |-> restoring]

\* journal.finished = true, written back with atomic_json.
Settled(j) == [path |-> j.path, old |-> j.old, new |-> j.new, finished |-> TRUE]

ASSUME MarkersAssumption ==
  /\ Absent \notin Content
  /\ NoJournal \notin Journal
  /\ Nobody \notin Id
  /\ Idle \notin Operation
  /\ "shut" \notin Id /\ "target" \notin Id

VARIABLES
  target,    \* the file at each path, as any other program sees it
  backup,    \* .rowd/recovery/<id>
  journal,   \* .rowd/recovery/<id>.json
  handle,    \* where the editor's open descriptor leads: nowhere, to the
             \* file at the path, or to the inode now kept as a backup
  pc,        \* the next step of the store, "closed" when nobody holds the lock
  op,        \* the installation in progress
  todo,      \* records recover has still to look at
  cur,       \* the record recover or cleanup_recovery works on
  copy,      \* recover's temporary copy of a backup
  fresh,     \* what became of the file just published
  required,  \* the record the last recover refused with RECOVERY_REQUIRED
  touched,   \* ghost: records whose path or backup somebody else changed
             \* while they were unfinished
  late       \* ghost: records whose backup was written through a descriptor

disk  == <<target, backup, journal>>
work  == <<op, todo, cur, copy, fresh>>
vars  == <<disk, handle, pc, work, required, touched, late>>

Recorded   == {i \in Id : journal[i] # NoJournal}
Unfinished == {i \in Recorded : ~journal[i].finished}
\* Bound of the instance: random_id always finds a new name, Id may run out.
FreeId     == Recorded # Id
PendingAt(p) == {i \in Unfinished : journal[i].path = p}

Init ==
  /\ target \in [Path -> MaybeContent]
  /\ backup = [i \in Id |-> Absent]
  /\ journal = [i \in Id |-> NoJournal]
  /\ handle = [p \in Path |-> "shut"]
  /\ pc = "closed"
  /\ op = Idle
  /\ todo = {}
  /\ cur = Nobody
  /\ copy = Absent
  /\ fresh = "intact"
  /\ required = Nobody
  /\ touched = {}
  /\ late = {}

-----------------------------------------------------------------------------
(* The editor: any other program of the user.                              *)

\* The installation has published and not yet returned.
Published(p) == pc \in {"confirm", "finish", "return"} /\ op.path = p

\* Save by renaming a new file over the path, or create it.
Save(p, c) ==
  /\ target[p] # c
  /\ target' = [target EXCEPT ![p] = c]
  /\ handle' = [handle EXCEPT ![p] = IF @ = "target" THEN "shut" ELSE @]
  /\ fresh' = IF Published(p) /\ fresh = "intact" THEN "replaced" ELSE fresh
  /\ touched' = touched \cup PendingAt(p)
  /\ UNCHANGED <<backup, journal, pc, op, todo, cur, copy, required, late>>

Remove(p) ==
  /\ target[p] # Absent
  /\ target' = [target EXCEPT ![p] = Absent]
  /\ handle' = [handle EXCEPT ![p] = IF @ = "target" THEN "shut" ELSE @]
  /\ fresh' = IF Published(p) /\ fresh = "intact" THEN "replaced" ELSE fresh
  /\ touched' = touched \cup PendingAt(p)
  /\ UNCHANGED <<backup, journal, pc, op, todo, cur, copy, required, late>>

OpenFile(p) ==
  /\ target[p] # Absent
  /\ handle[p] = "shut"
  /\ handle' = [handle EXCEPT ![p] = "target"]
  /\ UNCHANGED <<disk, pc, work, required, touched, late>>

\* A write through the descriptor changes the inode wherever it is now.
WriteInPlace(p, c) ==
  /\ handle[p] = "target"
  /\ target[p] # c
  /\ target' = [target EXCEPT ![p] = c]
  /\ fresh' = IF Published(p) /\ fresh = "intact" THEN "edited" ELSE fresh
  /\ touched' = touched \cup PendingAt(p)
  /\ UNCHANGED <<backup, journal, handle, pc, op, todo, cur, copy, required, late>>

WriteDisplaced(p, c) ==
  /\ handle[p] \in Id
  /\ backup[handle[p]] # c
  /\ backup' = [backup EXCEPT ![handle[p]] = c]
  /\ touched' = touched \cup (Unfinished \cap {handle[p]})
  /\ late' = late \cup {handle[p]}
  /\ UNCHANGED <<target, journal, handle, pc, work, required>>

Editor ==
  \E p \in Path :
    \/ \E c \in Content : Save(p, c) \/ WriteInPlace(p, c) \/ WriteDisplaced(p, c)
    \/ Remove(p)
    \/ OpenFile(p)

-----------------------------------------------------------------------------
(* Opening the store: open_impl takes the lock, then recover settles every *)
(* unfinished record before anything may be scanned or installed.          *)

\* The store is dropped: by the end of the round, an error or a crash.
Shut ==
  /\ pc' = "closed"
  /\ op' = Idle
  /\ todo' = {}
  /\ cur' = Nobody
  /\ copy' = Absent
  /\ fresh' = "intact"

StartRecover ==
  /\ pc' = "recover"
  /\ todo' = Unfinished

Open ==
  /\ pc = "closed"
  /\ StartRecover
  /\ required' = Nobody
  /\ UNCHANGED <<disk, handle, op, cur, copy, fresh, touched, late>>

\* The displaced file is missing from its path: copy the backup next to it.
RecoverPick(i) ==
  /\ pc = "recover"
  /\ i \in todo
  /\ cur' = i
  /\ \/ /\ target[journal[i].path] = Absent
        /\ backup[i] # Absent
        /\ copy' = backup[i]
        /\ pc' = "copied"
     \/ /\ target[journal[i].path] # Absent \/ backup[i] = Absent
        /\ copy' = Absent
        /\ pc' = "check"
  /\ UNCHANGED <<disk, handle, op, todo, fresh, required, touched, late>>

\* persist_noclobber: refuses a path that somebody filled in the meantime.
RecoverPublish ==
  /\ pc = "copied"
  /\ LET p == journal[cur].path IN
     \/ /\ target[p] = Absent
        /\ target' = [target EXCEPT ![p] = copy]
        /\ touched' = touched \cup (PendingAt(p) \ {cur})
        /\ copy' = Absent
        /\ pc' = "check"
        /\ UNCHANGED <<backup, journal, op, todo, cur, fresh>>
     \/ /\ target[p] # Absent
        /\ Shut
        /\ UNCHANGED <<disk, touched>>
  /\ UNCHANGED <<handle, required, late>>

\* Mutant: forgets the crash between the record and the displacement.
ExplainedDisplaced(i) ==
  LET j == journal[i]
      now == target[j.path]
  IN IF now = Absent
     THEN j.old = Absent /\ backup[i] = Absent
     ELSE backup[i] = now \/ j.new = now

\* Mutant: forgets the crash between the publication and the record.
ExplainedUnpublished(i) ==
  LET j == journal[i]
      now == target[j.path]
  IN IF now = Absent
     THEN j.old = Absent /\ backup[i] = Absent
     ELSE backup[i] = now \/ (backup[i] = Absent /\ j.old = now)

\* What recover can explain: the file was put back, was never displaced, or
\* is the new version; or there was no file and there still is none.
Explained(i) ==
  LET j == journal[i]
      now == target[j.path]
  IN IF now = Absent
     THEN j.old = Absent /\ backup[i] = Absent
     ELSE \/ backup[i] = now
          \/ backup[i] = Absent /\ j.old = now
          \/ j.new = now

RecoverCheck ==
  /\ pc = "check"
  /\ \/ /\ Explained(cur)
        /\ pc' = "settle"
        /\ UNCHANGED <<work, required>>
     \/ /\ ~Explained(cur)
        /\ required' = cur
        /\ Shut
  /\ UNCHANGED <<disk, handle, touched, late>>

RecoverSettle ==
  /\ pc = "settle"
  /\ journal' = [journal EXCEPT ![cur] = Settled(@)]
  /\ todo' = todo \ {cur}
  /\ cur' = Nobody
  /\ pc' = "recover"
  /\ UNCHANGED <<target, backup, handle, op, copy, fresh, required, touched, late>>

\* Mutant: does not wait for the remaining records.
RecoverDoneEarly ==
  /\ pc = "recover"
  /\ IF op = Idle THEN pc' = "ready" /\ UNCHANGED work ELSE Shut
  /\ UNCHANGED <<disk, handle, required, touched, late>>

\* A recover called by open_impl leaves the store usable; one called by
\* install_file after a lost race is followed by its STALE_TARGET error.
RecoverDone ==
  /\ pc = "recover"
  /\ todo = {}
  /\ IF op = Idle THEN pc' = "ready" /\ UNCHANGED work ELSE Shut
  /\ UNCHANGED <<disk, handle, required, touched, late>>

Close ==
  /\ pc = "ready"
  /\ Shut
  /\ UNCHANGED <<disk, handle, required, touched, late>>

Crash ==
  /\ pc \notin {"closed", "ready"}
  /\ Shut
  /\ UNCHANGED <<disk, handle, required, touched, late>>

Recovery ==
  \/ Open \/ RecoverPublish \/ RecoverCheck \/ RecoverSettle \/ RecoverDone
  \/ \E i \in Id : RecoverPick(i)

-----------------------------------------------------------------------------
(* install_file.                                                           *)

\* A sync round asks for `new` over the version its scan compared.
Install(p, expected, new) ==
  /\ pc = "ready"
  /\ FreeId
  /\ op' = OpRecord(p, expected, new, Nobody, Nobody)
  /\ pc' = "read"
  /\ UNCHANGED <<disk, handle, todo, cur, copy, fresh, required, touched, late>>

\* current(): the file already is the entry, is not the one expected, or is.
InstallRead ==
  /\ pc = "read"
  /\ LET seen == target[op.path] IN
     \/ /\ seen = op.new
        /\ pc' = "return"
        /\ UNCHANGED work
     \/ /\ seen # op.new /\ seen # op.expected
        /\ Shut
     \/ /\ seen # op.new /\ seen = op.expected
        /\ pc' = "record"
        /\ UNCHANGED work
  /\ UNCHANGED <<disk, handle, required, touched, late>>

\* The record is durable before anything moves.
InstallRecord(i) ==
  /\ pc = "record"
  /\ journal[i] = NoJournal
  /\ journal' = [journal EXCEPT ![i] =
        [path |-> op.path, old |-> op.expected, new |-> op.new, finished |-> FALSE]]
  /\ op' = OpRecord(op.path, op.expected, op.new, i, op.restoring)
  /\ pc' = IF op.expected = Absent THEN "publish" ELSE "displace"
  /\ touched' = IF target[op.path] = op.expected THEN touched \ {i} ELSE touched \cup {i}
  /\ late' = late \ {i}
  /\ UNCHANGED <<target, backup, handle, todo, cur, copy, fresh, required>>

\* Mutant: deletes the file where it should rename it.
InstallDisplaceDeletes ==
  /\ pc = "displace"
  /\ LET p == op.path IN
     /\ target[p] # Absent
     /\ target' = [target EXCEPT ![p] = Absent]
     /\ handle' = [handle EXCEPT ![p] = "shut"]
     /\ touched' = touched \cup (PendingAt(p) \ {op.id})
  /\ pc' = "publish"
  /\ UNCHANGED <<backup, journal, work, required, late>>

\* rename(target, backup) takes whatever inode is there now, with the
\* descriptors that lead to it, and fails when there is none.
InstallDisplace ==
  /\ pc = "displace"
  /\ LET p == op.path IN
     \/ /\ target[p] # Absent
        /\ backup' = [backup EXCEPT ![op.id] = target[p]]
        /\ target' = [target EXCEPT ![p] = Absent]
        /\ handle' = [handle EXCEPT ![p] = IF @ = "target" THEN op.id ELSE @]
        /\ touched' = touched \cup (PendingAt(p) \ {op.id})
        /\ pc' = "verify"
        /\ UNCHANGED <<journal, work>>
     \/ /\ target[p] = Absent
        /\ Shut
        /\ UNCHANGED <<disk, handle, touched>>
  /\ UNCHANGED <<required, late>>

\* Mutant: trusts what was read before the displacement.
InstallVerifyBlind ==
  /\ pc = "verify"
  /\ pc' = "publish"
  /\ UNCHANGED <<disk, handle, work, required, touched, late>>

\* Hash what was really displaced; an unexpected version is put back.
InstallVerify ==
  /\ pc = "verify"
  /\ \/ /\ backup[op.id] = op.expected
        /\ pc' = "publish"
        /\ UNCHANGED todo
     \/ /\ backup[op.id] # op.expected
        /\ StartRecover
  /\ UNCHANGED <<disk, handle, op, cur, copy, fresh, required, touched, late>>

\* Mutant: persist instead of persist_noclobber.
InstallPublishClobbers ==
  /\ pc = "publish"
  /\ target' = [target EXCEPT ![op.path] = op.new]
  /\ touched' = touched \cup (PendingAt(op.path) \ {op.id})
  /\ pc' = "confirm"
  /\ UNCHANGED <<backup, journal, handle, work, required, late>>

\* persist_noclobber again: a path recreated meanwhile keeps its new file.
InstallPublish ==
  /\ pc = "publish"
  /\ LET p == op.path IN
     \/ /\ target[p] = Absent
        /\ target' = [target EXCEPT ![p] = op.new]
        /\ touched' = touched \cup (PendingAt(p) \ {op.id})
        /\ pc' = "confirm"
        /\ UNCHANGED todo
     \/ /\ target[p] # Absent
        /\ StartRecover
        /\ UNCHANGED <<target, touched>>
  /\ UNCHANGED <<backup, journal, handle, op, cur, copy, fresh, required, late>>

\* The published inode must still be the staged one.
InstallConfirm ==
  /\ pc = "confirm"
  /\ \/ /\ fresh = "edited"
        /\ Shut
     \/ /\ fresh # "edited"
        /\ pc' = "finish"
        /\ UNCHANGED work
  /\ UNCHANGED <<disk, handle, required, touched, late>>

InstallFinish ==
  /\ pc = "finish"
  /\ journal' = [journal EXCEPT ![op.id] = Settled(@)]
  /\ pc' = "return"
  /\ UNCHANGED <<target, backup, handle, work, required, touched, late>>

\* remember_installed: the path must still be what was published.
InstallReturn ==
  /\ pc = "return"
  /\ \/ /\ fresh # "intact"
        /\ Shut
     \/ /\ fresh = "intact"
        /\ IF op.restoring = Nobody
           THEN pc' = "ready" /\ op' = Idle
           ELSE pc' = "resolve" /\ UNCHANGED op
        /\ UNCHANGED <<todo, cur, copy, fresh>>
  /\ UNCHANGED <<disk, handle, required, touched, late>>

\* An installation that has begun runs to its end.
InstallStep ==
  \/ \E i \in Id : InstallRecord(i)
  \/ InstallRead \/ InstallDisplace \/ InstallVerify \/ InstallPublish
  \/ InstallConfirm \/ InstallFinish \/ InstallReturn

Installation ==
  \/ \E p \in Path, e \in MaybeContent, n \in Content : Install(p, e, n)
  \/ InstallStep

-----------------------------------------------------------------------------
(* The user's answers: open_recovery takes the lock and skips recover.     *)

Keep(i) ==
  /\ pc = "closed"
  /\ i \in Unfinished
  /\ journal' = [journal EXCEPT ![i] = Settled(@)]
  /\ required' = Nobody
  /\ UNCHANGED <<target, backup, handle, pc, work, touched, late>>

\* Mutant: does not ask whether there is a backup.
RestoreUnchecked(i) ==
  /\ pc = "closed"
  /\ i \in Recorded
  /\ FreeId
  /\ op' = OpRecord(journal[i].path, target[journal[i].path], backup[i], Nobody, i)
  /\ pc' = "read"
  /\ required' = Nobody
  /\ UNCHANGED <<disk, handle, todo, cur, copy, fresh, touched, late>>

\* "restore" is an installation of the backup over what is there now.
Restore(i) ==
  /\ pc = "closed"
  /\ i \in Recorded
  /\ backup[i] # Absent
  /\ FreeId
  /\ op' = OpRecord(journal[i].path, target[journal[i].path], backup[i], Nobody, i)
  /\ pc' = "read"
  /\ required' = Nobody
  /\ UNCHANGED <<disk, handle, todo, cur, copy, fresh, touched, late>>

\* The record that was answered is settled only after its version is back.
Resolve ==
  /\ pc = "resolve"
  /\ journal' = [journal EXCEPT ![op.restoring] = Settled(@)]
  /\ Shut
  /\ UNCHANGED <<target, backup, handle, required, touched, late>>

\* Mutant: the record goes first.
CleanupRecordFirst(i) ==
  /\ pc = "closed"
  /\ i \in Recorded \ Unfinished
  /\ journal' = [journal EXCEPT ![i] = NoJournal]
  /\ cur' = i
  /\ pc' = "cleanup"
  /\ required' = Nobody
  /\ UNCHANGED <<target, backup, handle, op, todo, copy, fresh, touched, late>>

\* cleanup_recovery: first the backup, then the record that leads to it.
CleanupBackup(i) ==
  /\ pc = "closed"
  /\ i \in Recorded \ Unfinished
  /\ backup' = [backup EXCEPT ![i] = Absent]
  /\ handle' = [p \in Path |-> IF handle[p] = i THEN "shut" ELSE handle[p]]
  /\ cur' = i
  /\ pc' = "cleanup"
  /\ required' = Nobody
  /\ UNCHANGED <<target, journal, op, todo, copy, fresh, touched, late>>

CleanupRecord ==
  /\ pc = "cleanup"
  /\ journal' = [journal EXCEPT ![cur] = NoJournal]
  /\ touched' = touched \ {cur}
  /\ late' = late \ {cur}
  /\ Shut
  /\ UNCHANGED <<target, backup, handle, required>>

User ==
  \/ Resolve \/ CleanupRecord
  \/ \E i \in Id : Keep(i) \/ Restore(i) \/ CleanupBackup(i)

-----------------------------------------------------------------------------
Store == Recovery \/ Installation \/ Close \/ Crash

Next == Store \/ User \/ Editor

Spec == Init /\ [][Next]_vars

\* The store runs straight through its code once it is called, and the
\* daemon opens the Share again in every round.
Fairness ==
  /\ WF_vars(Recovery)
  /\ WF_vars(InstallStep)
  /\ WF_vars(Resolve \/ CleanupRecord)

FairSpec == Spec /\ Fairness

-----------------------------------------------------------------------------
TypeOK ==
  /\ target \in [Path -> MaybeContent]
  /\ backup \in [Id -> MaybeContent]
  /\ journal \in [Id -> Journal \cup {NoJournal}]
  /\ handle \in [Path -> {"shut", "target"} \cup Id]
  /\ pc \in {"closed", "recover", "copied", "check", "settle", "ready", "read",
             "record", "displace", "verify", "publish", "confirm", "finish",
             "return", "resolve", "cleanup"}
  /\ op \in Operation \cup {Idle}
  /\ todo \subseteq Id
  /\ cur \in Id \cup {Nobody}
  /\ copy \in MaybeContent
  /\ fresh \in {"intact", "edited", "replaced"}
  /\ required \in Id \cup {Nobody}
  /\ touched \subseteq Id
  /\ late \subseteq Id

(* Everything the user could still get back for a path: the file itself    *)
(* and the backups that a record leads to.                                 *)
Kept(p) ==
  ({target[p]} \cup {backup[i] : i \in {k \in Recorded : journal[k].path = p}}) \ {Absent}

(* No step of install_file or recover, and no crash between them, makes a  *)
(* version disappear: what was at the path or among its listed backups is  *)
(* still at one of them, however the editor's steps interleave.            *)
NothingLost ==
  [][(Store \/ Resolve) => \A p \in Path : Kept(p) \subseteq Kept(p)']_vars

(* A replacement nobody interferes with is atomic at every crash point of  *)
(* install_file: without a backup the path holds the old version (or the   *)
(* new one where there was none); with a backup the backup is the old      *)
(* version and the path is empty, old or new.                              *)
ReplaceIsAtomic ==
  \A i \in Unfinished \ touched :
    LET j == journal[i]
        now == target[j.path]
    IN IF backup[i] = Absent
       THEN now = j.old \/ (j.old = Absent /\ now = j.new)
       ELSE backup[i] = j.old /\ now \in {Absent, j.old, j.new}

(* recover refuses a record (RECOVERY_REQUIRED, which keeps the Share from *)
(* opening) only when the path or the backup was changed by something else *)
(* while the record was unfinished: a crash alone never blocks a Share.    *)
BlockedOnlyIfTouched ==
  required # Nobody => required \in touched

(* A version that install_file supersedes is the one the reconciliation    *)
(* compared, unless a descriptor opened before wrote to it after it was    *)
(* displaced.                                                              *)
SupersedesOnlyExpected ==
  pc \in {"publish", "confirm", "finish"} /\ op.expected # Absent =>
    backup[op.id] = op.expected \/ op.id \in late

(* A store that may scan or install has no unfinished record except the    *)
(* one its own installation is working on.                                 *)
SettledBeforeUse ==
  /\ pc = "ready" => Unfinished = {}
  /\ op # Idle /\ op.restoring = Nobody => Unfinished \subseteq {op.id}

(* A backup always has the record by which recovery_entries lists it, also *)
(* when cleanup_recovery is interrupted.                                   *)
BackupIsListed ==
  \A i \in Id : backup[i] # Absent => i \in Recorded

(* A crash alone needs no user: as long as nothing else changed what an    *)
(* unfinished record is about, the Share gets to open again and again once *)
(* crashes and recovery commands cease.                                    *)
UndisturbedOpens ==
  [](touched = {}) /\ <>[][~Crash /\ ~User]_vars => []<>(pc = "ready")

=============================================================================
