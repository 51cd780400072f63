------------------------------ MODULE SafInstall ------------------------------
(***************************************************************************)
(* How the phone replaces one file of a Share (FolderAccess.kt): install   *)
(* compares, copies the old and the new version to private files, records  *)
(* them, compares again and writes the document in place; recoverPending,  *)
(* which full scans run first, settles the records it can explain;         *)
(* resolveRecovery is the user's answer to the others.                     *)
(*                                                                         *)
(* The Storage Access Framework has no rename over a file: the write       *)
(* truncates the document and may stop anywhere, and other apps of the     *)
(* user may change the document between any two steps.                     *)
(*                                                                         *)
(* The private copies of a record are the versions its hashes name (both   *)
(* are verified before the record is written), so the record stands for    *)
(* them; copies left without a record are never used.                      *)
(***************************************************************************)
EXTENDS Naturals, FiniteSets

CONSTANTS
  Path,        \* paths of regular files in the Share
  Content,     \* contents, told apart by their BLAKE3 hash
  Fragment,    \* contents that an unfinished write can leave behind
  Empty,       \* the content of a document just created
  Id,          \* record identifiers (UUIDs)
  Absent,      \* no document there
  NoJournal,   \* no record under this identifier
  Nobody,      \* no identifier
  Idle         \* no installation in progress

MaybeContent == Content \cup {Absent}

Journal == [path : Path, old : MaybeContent, new : Content, finished : BOOLEAN]

Operation == [path : Path, expected : MaybeContent, new : Content,
              id : Id \cup {Nobody}, restoring : Id \cup {Nobody}]

OpRecord(p, expected, new, i, restoring) ==
  [path |-> p, expected |-> expected, new |-> new, id |-> i, restoring |-> restoring]

Settled(j) == [path |-> j.path, old |-> j.old, new |-> j.new, finished |-> TRUE]

ASSUME SafAssumption ==
  /\ Absent \notin Content
  /\ Fragment \subseteq Content /\ Empty \in Fragment
  /\ NoJournal \notin Journal
  /\ Nobody \notin Id
  /\ Idle \notin Operation

VARIABLES
  file,      \* the document at each path
  torn,      \* ghost: what is there is what a write of Rowd left unfinished
  journal,   \* recovery/<id>.json
  pc,        \* the next step; "closed" when the service does not run
  op,        \* the installation in progress
  todo,      \* records recoverPending has still to look at
  cur,       \* the record it is about to settle
  full,      \* the running round began with a full scan
  trust,     \* a delta is possible: the token of the last round, the scan's cache
  required,  \* the record the last recoverPending refused
  over,      \* ghost: the version the running write truncated
  edited,    \* ghost: somebody changed the document after it was rechecked
  touched,   \* ghost: records whose path somebody else has changed since
  begun      \* ghost: records whose write has begun

vars == <<file, torn, journal, pc, op, todo, cur, full, trust, required,
          over, edited, touched, begun>>
work == <<op, todo, cur>>
disk == <<file, torn, journal>>
ghosts == <<over, edited, touched, begun>>

Recorded   == {i \in Id : journal[i] # NoJournal}
Unfinished == {i \in Recorded : ~journal[i].finished}
FreeId     == Recorded # Id     \* bound of the instance
PendingAt(p) == {i \in Unfinished : journal[i].path = p}

Init ==
  /\ file \in [Path -> MaybeContent]
  /\ torn = [p \in Path |-> FALSE]
  /\ journal = [i \in Id |-> NoJournal]
  /\ pc = "closed"
  /\ op = Idle
  /\ todo = {}
  /\ cur = Nobody
  /\ full = FALSE
  /\ trust = FALSE
  /\ required = Nobody
  /\ over = Absent
  /\ edited = FALSE
  /\ touched = {}
  /\ begun = {}

-----------------------------------------------------------------------------
(* Other apps.                                                             *)

Save(p, c) ==
  /\ file[p] # c
  /\ file' = [file EXCEPT ![p] = c]
  /\ torn' = [torn EXCEPT ![p] = FALSE]
  /\ edited' = (edited \/ (pc \in {"create", "write", "writing"} /\ op.path = p))
  /\ touched' = touched \cup PendingAt(p)
  /\ UNCHANGED <<journal, pc, work, full, trust, required, over, begun>>

Editor == \E p \in Path, c \in MaybeContent : Save(p, c)

-----------------------------------------------------------------------------
(* The service: sessions and rounds.                                       *)

Rest(state) ==
  /\ pc' = state
  /\ op' = Idle
  /\ todo' = {}
  /\ cur' = Nobody

\* The service starts with a new FolderAccess, which has no scan cache.
StartService ==
  /\ pc = "closed"
  /\ pc' = "idle"
  /\ trust' = FALSE
  /\ UNCHANGED <<disk, work, full, required, ghosts>>

\* The service ends, or the process is killed between any two steps.
StopService ==
  /\ pc # "closed"
  /\ Rest("closed")
  /\ UNCHANGED <<disk, full, trust, required, ghosts>>

\* An exception ends the round, not the session; for a restore it ends the
\* user's command.
Throw == Rest(IF op = Idle \/ op.restoring = Nobody THEN "idle" ELSE "closed")

\* An error of the provider, the disk or the peer.
Fail ==
  /\ pc \notin {"closed", "idle"}
  /\ Throw
  /\ UNCHANGED <<disk, full, trust, required, ghosts>>

\* Mutant: reads the folder without looking at the records.
FullScanUnrecovered ==
  /\ pc = "idle"
  /\ pc' = "round"
  /\ full' = TRUE
  /\ required' = Nobody
  /\ UNCHANGED <<disk, work, trust, ghosts>>

\* startScanJson and startNamespaceJson run recoverPending first.
FullScan ==
  /\ pc = "idle"
  /\ pc' = "recover"
  /\ todo' = Unfinished
  /\ full' = TRUE
  /\ required' = Nobody
  /\ UNCHANGED <<disk, op, cur, trust, ghosts>>

\* Mutant: does not recognise an installation that never wrote.
RecoverCheckNew(i) ==
  /\ pc = "recover"
  /\ i \in todo
  /\ \/ /\ file[journal[i].path] = journal[i].new
        /\ cur' = i
        /\ pc' = "settle"
        /\ UNCHANGED <<op, todo, required>>
     \/ /\ file[journal[i].path] # journal[i].new
        /\ required' = i
        /\ Throw
  /\ UNCHANGED <<disk, full, trust, ghosts>>

RecoverCheck(i) ==
  /\ pc = "recover"
  /\ i \in todo
  /\ LET known == {journal[i].old, journal[i].new} IN
     \/ /\ file[journal[i].path] \in known
        /\ cur' = i
        /\ pc' = "settle"
        /\ UNCHANGED <<op, todo, required>>
     \/ /\ file[journal[i].path] \notin known
        /\ required' = i
        /\ Throw
  /\ UNCHANGED <<disk, full, trust, ghosts>>

RecoverSettle ==
  /\ pc = "settle"
  /\ journal' = [journal EXCEPT ![cur] = Settled(@)]
  /\ todo' = todo \ {cur}
  /\ cur' = Nobody
  /\ pc' = "recover"
  /\ UNCHANGED <<file, torn, op, full, trust, required, ghosts>>

RecoverDone ==
  /\ pc = "recover"
  /\ todo = {}
  /\ pc' = "round"
  /\ UNCHANGED <<disk, work, full, trust, required, ghosts>>

\* startDeltaScanJson does not run recoverPending.
DeltaScan ==
  /\ pc = "idle"
  /\ trust
  /\ pc' = "round"
  /\ full' = FALSE
  /\ UNCHANGED <<disk, work, trust, required, ghosts>>

\* The end of a full scan's hash stream takes the token of the last round.
StreamEnd ==
  /\ pc = "round" /\ full /\ trust
  /\ trust' = FALSE
  /\ UNCHANGED <<disk, work, pc, full, required, ghosts>>

Done ==
  /\ pc = "round"
  /\ pc' = "idle"
  /\ trust' = TRUE
  /\ UNCHANGED <<disk, work, full, required, ghosts>>

Round ==
  \/ FullScan \/ RecoverSettle \/ RecoverDone \/ StreamEnd \/ DeltaScan \/ Done
  \/ \E i \in Id : RecoverCheck(i)

-----------------------------------------------------------------------------
(* install, which refuses while a hash stream is open.                     *)

Install(p, expected, new) ==
  /\ pc = "round" /\ ~(full /\ trust)
  /\ FreeId
  /\ op' = OpRecord(p, expected, new, Nobody, Nobody)
  /\ pc' = "compare"
  /\ edited' = FALSE
  /\ over' = Absent
  /\ UNCHANGED <<disk, todo, cur, full, trust, required, touched, begun>>

\* A path expected to be free is not looked at yet.
InstallCompare ==
  /\ pc = "compare"
  /\ LET seen == IF op.expected = Absent THEN Absent ELSE file[op.path]
         replay == op.expected # Absent /\ seen = op.new
     IN
     \/ /\ replay
        /\ pc' = "replay"
        /\ UNCHANGED work
     \/ /\ ~replay /\ seen # op.expected
        /\ Throw
     \/ /\ ~replay /\ seen = op.expected
        /\ pc' = "copy"
        /\ UNCHANGED work
  /\ UNCHANGED <<disk, full, trust, required, ghosts>>

\* Back to the round, or to the record the user's restore answers.
Answer ==
  IF op.restoring = Nobody
  THEN Rest("round")
  ELSE pc' = "resolve" /\ UNCHANGED work

InstallReplay ==
  /\ pc = "replay"
  /\ IF file[op.path] = op.new THEN Answer ELSE Throw
  /\ UNCHANGED <<disk, full, trust, required, ghosts>>

\* The copy of the old version must have the expected hash.
InstallCopy ==
  /\ pc = "copy"
  /\ IF op.expected = Absent \/ file[op.path] = op.expected
     THEN pc' = "record" /\ UNCHANGED work
     ELSE Throw
  /\ UNCHANGED <<disk, full, trust, required, ghosts>>

\* Mutant: records no old version.
InstallRecordNewOnly(i) ==
  /\ pc = "record"
  /\ journal[i] = NoJournal
  /\ journal' = [journal EXCEPT ![i] =
        [path |-> op.path, old |-> Absent, new |-> op.new, finished |-> FALSE]]
  /\ op' = OpRecord(op.path, op.expected, op.new, i, op.restoring)
  /\ pc' = "recheck"
  /\ touched' = IF file[op.path] = op.expected THEN touched ELSE touched \cup {i}
  /\ UNCHANGED <<file, torn, todo, cur, full, trust, required, over, edited, begun>>

InstallRecord(i) ==
  /\ pc = "record"
  /\ journal[i] = NoJournal
  /\ journal' = [journal EXCEPT ![i] =
        [path |-> op.path, old |-> op.expected, new |-> op.new, finished |-> FALSE]]
  /\ op' = OpRecord(op.path, op.expected, op.new, i, op.restoring)
  /\ pc' = "recheck"
  /\ touched' = IF file[op.path] = op.expected THEN touched ELSE touched \cup {i}
  /\ UNCHANGED <<file, torn, todo, cur, full, trust, required, over, edited, begun>>

\* Mutant: trusts the first comparison.
InstallRecheckBlind ==
  /\ pc = "recheck"
  /\ pc' = IF op.expected = Absent THEN "create" ELSE "write"
  /\ UNCHANGED <<disk, work, full, trust, required, ghosts>>

InstallRecheck ==
  /\ pc = "recheck"
  /\ LET now == file[op.path]
         there == op.expected = Absent /\ now = op.new
     IN pc' = IF there THEN "finish"
              ELSE IF now # op.expected THEN "withdraw"
              ELSE IF op.expected = Absent THEN "create" ELSE "write"
  /\ UNCHANGED <<disk, work, full, trust, required, ghosts>>

\* Nothing was written: the record is settled and the installation refused.
InstallWithdraw ==
  /\ pc = "withdraw"
  /\ journal' = [journal EXCEPT ![op.id] = Settled(@)]
  /\ Throw
  /\ UNCHANGED <<file, torn, full, trust, required, ghosts>>

\* What a write of this installation leaves at the path.
Leave(f) ==
  LET p == op.path IN
  /\ file' = [file EXCEPT ![p] = f]
  /\ torn' = [torn EXCEPT ![p] =
       f \notin {op.expected, op.new} \/ (@ /\ f = file[p])]
  /\ over' = IF op.id \in begun THEN over ELSE file[p]
  /\ begun' = begun \cup {op.id}
  /\ touched' = touched \cup (PendingAt(p) \ {op.id})

\* A provider gives a new document another name if the path was taken.
InstallCreate ==
  /\ pc = "create"
  /\ \/ /\ file[op.path] = Absent
        /\ Leave(Empty)
        /\ pc' = "write"
        /\ UNCHANGED <<work, edited>>
     \/ /\ file[op.path] # Absent
        /\ Throw
        /\ UNCHANGED <<file, torn, ghosts>>
  /\ UNCHANGED <<journal, full, trust, required>>

\* openFileDescriptor("rwt") truncates; without a document it fails.
InstallTruncate ==
  /\ pc = "write"
  /\ \/ /\ file[op.path] # Absent
        /\ \E f \in Fragment : Leave(f)
        /\ pc' = "writing"
        /\ UNCHANGED <<work, edited>>
     \/ /\ file[op.path] = Absent
        /\ Throw
        /\ UNCHANGED <<file, torn, ghosts>>
  /\ UNCHANGED <<journal, full, trust, required>>

\* A document that was replaced meanwhile does not get the bytes, one that
\* somebody else writes to may end up with bytes of both.
InstallWrite ==
  /\ pc = "writing"
  /\ \/ /\ file[op.path] # Absent
        /\ Leave(op.new)
     \/ /\ edited /\ file[op.path] # Absent
        /\ \E f \in Fragment \ {op.expected, op.new} : Leave(f)
     \/ /\ edited
        /\ UNCHANGED <<file, torn, over, begun, touched>>
  /\ pc' = "verify"
  /\ UNCHANGED <<journal, work, full, trust, required, edited>>

\* Mutant: takes the write for granted.
InstallVerifyNothing ==
  /\ pc = "verify"
  /\ pc' = "finish"
  /\ UNCHANGED <<disk, work, full, trust, required, ghosts>>

InstallVerify ==
  /\ pc = "verify"
  /\ IF file[op.path] = op.new THEN pc' = "finish" /\ UNCHANGED work ELSE Throw
  /\ UNCHANGED <<disk, full, trust, required, ghosts>>

InstallFinish ==
  /\ pc = "finish"
  /\ journal' = [journal EXCEPT ![op.id] = Settled(@)]
  /\ Answer
  /\ UNCHANGED <<file, torn, full, trust, required, ghosts>>

Installation ==
  \/ \E p \in Path, e \in MaybeContent, n \in Content : Install(p, e, n)
  \/ \E i \in Id : InstallRecord(i)
  \/ InstallCompare \/ InstallReplay \/ InstallCopy \/ InstallRecheck
  \/ InstallWithdraw \/ InstallCreate \/ InstallTruncate \/ InstallWrite
  \/ InstallVerify \/ InstallFinish

-----------------------------------------------------------------------------
(* The user's answers, only while the service does not run (busy).         *)

\* "Manter atual": what is there is what the user wants.
Keep(i) ==
  /\ pc = "closed"
  /\ i \in Unfinished
  /\ journal' = [journal EXCEPT ![i] = Settled(@)]
  /\ torn' = [torn EXCEPT ![journal[i].path] = FALSE]
  /\ UNCHANGED <<file, pc, work, full, trust, required, ghosts>>

\* Mutant: does not ask whether there is an old version.
RestoreUnchecked(i) ==
  /\ pc = "closed"
  /\ i \in Recorded
  /\ FreeId
  /\ op' = OpRecord(journal[i].path, file[journal[i].path], journal[i].old, Nobody, i)
  /\ pc' = "compare"
  /\ edited' = FALSE
  /\ over' = Absent
  /\ UNCHANGED <<disk, todo, cur, full, trust, required, touched, begun>>

\* "Restaurar anterior": an installation of the old version over what is there.
Restore(i) ==
  /\ pc = "closed"
  /\ i \in Recorded
  /\ journal[i].old # Absent
  /\ FreeId
  /\ op' = OpRecord(journal[i].path, file[journal[i].path], journal[i].old, Nobody, i)
  /\ pc' = "compare"
  /\ edited' = FALSE
  /\ over' = Absent
  /\ UNCHANGED <<disk, todo, cur, full, trust, required, touched, begun>>

Resolve ==
  /\ pc = "resolve"
  /\ journal' = [journal EXCEPT ![op.restoring] = Settled(@)]
  /\ Rest("closed")
  /\ UNCHANGED <<file, torn, full, trust, required, ghosts>>

User == Resolve \/ \E i \in Id : Keep(i) \/ Restore(i)

-----------------------------------------------------------------------------
Service == StartService \/ StopService \/ Fail \/ Round \/ Installation

Next == Service \/ User \/ Editor

Spec == Init /\ [][Next]_vars

-----------------------------------------------------------------------------
TypeOK ==
  /\ file \in [Path -> MaybeContent]
  /\ torn \in [Path -> BOOLEAN]
  /\ journal \in [Id -> Journal \cup {NoJournal}]
  /\ pc \in {"closed", "idle", "recover", "settle", "round", "compare", "replay",
             "copy", "record", "recheck", "withdraw", "create", "write", "writing",
             "verify", "finish", "resolve"}
  /\ op \in Operation \cup {Idle}
  /\ todo \subseteq Id
  /\ cur \in Id \cup {Nobody}
  /\ full \in BOOLEAN
  /\ trust \in BOOLEAN
  /\ required \in Id \cup {Nobody}
  /\ over \in MaybeContent
  /\ edited \in BOOLEAN
  /\ touched \subseteq Id
  /\ begun \subseteq Id

(* What an unfinished write left at a path always has a record that the    *)
(* user can restore from and that recoverPending refuses: no later         *)
(* installation, crash or recovery settles it over the torn file.          *)
TornIsRecorded ==
  \A p \in Path : torn[p] =>
    \E i \in PendingAt(p) : file[p] \notin {journal[i].old, journal[i].new}

(* A round that began with a full scan never reads a torn file as if the   *)
(* user had written it.                                                    *)
FullRoundReadsWhole ==
  pc = "round" /\ full => \A p \in Path : ~torn[p]

(* recoverPending refuses a record only if its write had begun or somebody *)
(* else changed the path: a stop before the write never blocks the Share.  *)
BlockedOnlyIfDisturbed ==
  required # Nobody => required \in touched \cup begun

(* A write truncates the version that was expected, or one that somebody   *)
(* saved after the last comparison (SAF has no compare-and-replace).       *)
TruncatesOnlyExpected ==
  pc \in {"writing", "verify"} /\ ~edited => over = op.expected

(* What the user could get back for a path: a whole file there and the     *)
(* copies of its records.                                                  *)
Kept(p) ==
  (({file[p]} \ {f \in MaybeContent : torn[p]})
     \cup UNION {{journal[i].old, journal[i].new} :
                   i \in {k \in Recorded : journal[k].path = p}}) \ {Absent}

(* No step of the service, and no stop between two, takes a version away,  *)
(* except one saved between the last comparison and the write.             *)
NothingLost ==
  [][(Service \/ Resolve) /\ ~edited => \A p \in Path : Kept(p) \subseteq Kept(p)']_vars

=============================================================================
