------------------------ MODULE InstallJournalProofs ------------------------
(***************************************************************************)
(* Proofs about InstallJournal for any set of paths, contents and          *)
(* identifiers.  The safety properties follow from one inductive           *)
(* invariant, which adds to them what the program counter says of the      *)
(* record being worked on.  With it every step of the store, of its user   *)
(* and of an editor is a step of ConditionalReplace or a stutter.          *)
(***************************************************************************)
EXTENDS InstallReplaces, TLAPS

Recovering == {"recover", "copied", "check", "settle"}
Displacing == {"displace", "verify", "publish", "confirm", "finish"}

\* Nothing is in progress when nobody holds the lock, and a refusal is
\* remembered only until the store is opened again.
AtRest ==
  /\ pc \in {"closed", "ready", "cleanup"} => op = Idle
  /\ pc # "closed" => required = Nobody
  /\ pc = "cleanup" =>
       cur \in Recorded /\ backup[cur] = Absent /\ \A p \in Path : handle[p] # cur
  /\ pc \in {"read", "record", "return", "resolve"} \cup Displacing => op # Idle
  /\ pc \in {"read", "record"} => op.id = Nobody
  /\ pc = "return" /\ op.restoring = Nobody => Unfinished = {}
  /\ pc = "resolve" => op.restoring # Nobody
  /\ op # Idle /\ op.restoring # Nobody => op.restoring \in Recorded

\* recover still owes exactly the unfinished records, and what it is about to
\* publish or check is what an undisturbed record says.
RecoverInv ==
  /\ pc \in Recovering => todo = Unfinished
  /\ pc \in {"copied", "check", "settle"} => cur \in Unfinished
  /\ pc = "copied" /\ cur \notin touched => copy = journal[cur].old
  /\ pc = "copied" => copy # Absent
  /\ pc \in {"check", "copied"} /\ cur \notin touched /\ backup[cur] # Absent =>
       pc = "copied" \/ target[journal[cur].path] # Absent
  /\ pc = "copied" /\ cur \notin touched => backup[cur] # Absent

\* The record of the installation in progress is its own, and untouched it
\* is exactly where install_file left it.
DisplaceInv ==
  pc \in Displacing =>
    /\ op.id \in Unfinished
    /\ journal[op.id].path = op.path
    /\ journal[op.id].old = op.expected
    /\ journal[op.id].new = op.new
    /\ pc = "displace" => backup[op.id] = Absent /\ op.expected # Absent
    /\ pc = "displace" /\ op.id \notin touched => target[op.path] = op.expected
    /\ pc = "verify" /\ op.id \notin touched =>
         target[op.path] = Absent /\ backup[op.id] = op.expected
    /\ pc = "publish" /\ op.id \notin touched => backup[op.id] = op.expected

\* A descriptor to a displaced file leads to a listed backup.
HandleInv ==
  \A p \in Path : handle[p] \in Id =>
    /\ handle[p] \in Recorded
    /\ journal[handle[p]].path = p
    /\ backup[handle[p]] # Absent

IInv ==
  /\ TypeOK
  /\ AtRest
  /\ RecoverInv
  /\ DisplaceInv
  /\ HandleInv
  /\ ReplaceIsAtomic
  /\ BlockedOnlyIfTouched
  /\ SupersedesOnlyExpected
  /\ SettledBeforeUse
  /\ BackupIsListed

-----------------------------------------------------------------------------
(* Every step below is about what the invariant's parts say, so they are   *)
(* expanded throughout; the actions are cited where they are used.         *)
USE MarkersAssumption
    DEF IInv, TypeOK, AtRest, RecoverInv, DisplaceInv, HandleInv,
        ReplaceIsAtomic, BlockedOnlyIfTouched, SupersedesOnlyExpected,
        SettledBeforeUse, BackupIsListed,
        Recorded, Unfinished, PendingAt, MaybeContent, Journal, Operation,
        disk, work, vars, Recovering, Displacing

\* No record, no backup and a closed store to begin with.
LEMMA InitInv == Init => IInv
BY DEF Init

(* Writing a record back as finished changes neither what is recorded nor  *)
(* what the record says, and takes exactly that record off the unfinished. *)
LEMMA SettleRecord ==
  ASSUME IInv, NEW i \in Recorded, journal' = [journal EXCEPT ![i] = Settled(@)]
  PROVE  /\ Recorded' = Recorded
         /\ Unfinished' = Unfinished \ {i}
         /\ journal' \in [Id -> Journal \cup {NoJournal}]
         /\ \A k \in Recorded : /\ journal'[k].path = journal[k].path
                               /\ journal'[k].old = journal[k].old
                               /\ journal'[k].new = journal[k].new
<1>1. journal[i] \in Journal
  OBVIOUS
<1>2. Settled(journal[i]) \in Journal
  BY <1>1 DEF Settled
<1>3. /\ journal' \in [Id -> Journal \cup {NoJournal}]
      /\ journal'[i] = Settled(journal[i])
      /\ \A k \in Id \ {i} : journal'[k] = journal[k]
  BY <1>1, <1>2
<1>4. /\ Settled(journal[i]).finished
      /\ Settled(journal[i]).path = journal[i].path
      /\ Settled(journal[i]).old = journal[i].old
      /\ Settled(journal[i]).new = journal[i].new
  BY DEF Settled
<1>5. Recorded' = Recorded
  BY <1>1, <1>2, <1>3
<1> QED
  BY <1>2, <1>3, <1>4, <1>5

(* The four steps that settle a record share one argument: given what      *)
(* SettleRecord says, only the step's own changes to pc and the locals     *)
(* are left to look at.                                                    *)
LEMMA RecoverSettleInv ==
  ASSUME IInv, RecoverSettle
  PROVE  IInv'
<1>1. cur \in Recorded /\ cur \in Id
  BY DEF RecoverSettle
<1>2. journal' = [journal EXCEPT ![cur] = Settled(@)]
  BY DEF RecoverSettle
<1>3. /\ Recorded' = Recorded
      /\ Unfinished' = Unfinished \ {cur}
      /\ journal' \in [Id -> Journal \cup {NoJournal}]
      /\ \A k \in Recorded : /\ journal'[k].path = journal[k].path
                            /\ journal'[k].old = journal[k].old
                            /\ journal'[k].new = journal[k].new
  BY <1>1, <1>2, SettleRecord
<1>4. Recorded \subseteq Id /\ Unfinished \subseteq Recorded
  OBVIOUS
<1> HIDE DEF Recorded, Unfinished
<1>11. TypeOK'
  BY <1>1, <1>3, <1>4 DEF RecoverSettle
<1>12. AtRest'
  BY <1>1, <1>3, <1>4 DEF RecoverSettle
<1>13. RecoverInv'
  BY <1>1, <1>3, <1>4 DEF RecoverSettle
<1>14. DisplaceInv'
  BY <1>1, <1>3, <1>4 DEF RecoverSettle
<1>15. HandleInv'
  BY <1>1, <1>3, <1>4 DEF RecoverSettle
<1>16. ReplaceIsAtomic'
  BY <1>1, <1>3, <1>4 DEF RecoverSettle
<1>17. BlockedOnlyIfTouched'
  BY <1>1, <1>3, <1>4 DEF RecoverSettle
<1>18. SupersedesOnlyExpected'
  BY <1>1, <1>3, <1>4 DEF RecoverSettle
<1>19. SettledBeforeUse'
  BY <1>1, <1>3, <1>4 DEF RecoverSettle
<1>20. BackupIsListed'
  BY <1>1, <1>3, <1>4 DEF RecoverSettle
<1> QED
  BY <1>11, <1>12, <1>13, <1>14, <1>15, <1>16, <1>17, <1>18, <1>19, <1>20

\* The user's "keep" settles a record while the store is closed.
LEMMA KeepInv ==
  ASSUME IInv, NEW i \in Id, Keep(i)
  PROVE  IInv'
<1>1. i \in Recorded /\ i \in Id
  BY DEF Keep
<1>2. journal' = [journal EXCEPT ![i] = Settled(@)]
  BY DEF Keep
<1>3. /\ Recorded' = Recorded
      /\ Unfinished' = Unfinished \ {i}
      /\ journal' \in [Id -> Journal \cup {NoJournal}]
      /\ \A k \in Recorded : /\ journal'[k].path = journal[k].path
                            /\ journal'[k].old = journal[k].old
                            /\ journal'[k].new = journal[k].new
  BY <1>1, <1>2, SettleRecord
<1>4. Recorded \subseteq Id /\ Unfinished \subseteq Recorded
  OBVIOUS
<1> HIDE DEF Recorded, Unfinished
<1>11. TypeOK'
  BY <1>1, <1>3, <1>4 DEF Keep
<1>12. AtRest'
  BY <1>1, <1>3, <1>4 DEF Keep
<1>13. RecoverInv'
  BY <1>1, <1>3, <1>4 DEF Keep
<1>14. DisplaceInv'
  BY <1>1, <1>3, <1>4 DEF Keep
<1>15. HandleInv'
  BY <1>1, <1>3, <1>4 DEF Keep
<1>16. ReplaceIsAtomic'
  BY <1>1, <1>3, <1>4 DEF Keep
<1>17. BlockedOnlyIfTouched'
  BY <1>1, <1>3, <1>4 DEF Keep
<1>18. SupersedesOnlyExpected'
  BY <1>1, <1>3, <1>4 DEF Keep
<1>19. SettledBeforeUse'
  BY <1>1, <1>3, <1>4 DEF Keep
<1>20. BackupIsListed'
  BY <1>1, <1>3, <1>4 DEF Keep
<1> QED
  BY <1>11, <1>12, <1>13, <1>14, <1>15, <1>16, <1>17, <1>18, <1>19, <1>20

\* A restore ends by settling the record that it answered.
LEMMA ResolveInv ==
  ASSUME IInv, Resolve
  PROVE  IInv'
<1>1. op.restoring \in Recorded /\ op.restoring \in Id
  BY DEF Resolve
<1>2. journal' = [journal EXCEPT ![op.restoring] = Settled(@)]
  BY DEF Resolve
<1>3. /\ Recorded' = Recorded
      /\ Unfinished' = Unfinished \ {op.restoring}
      /\ journal' \in [Id -> Journal \cup {NoJournal}]
      /\ \A k \in Recorded : /\ journal'[k].path = journal[k].path
                            /\ journal'[k].old = journal[k].old
                            /\ journal'[k].new = journal[k].new
  BY <1>1, <1>2, SettleRecord
<1>4. Recorded \subseteq Id /\ Unfinished \subseteq Recorded
  OBVIOUS
<1> HIDE DEF Recorded, Unfinished
<1>11. TypeOK'
  BY <1>1, <1>3, <1>4 DEF Resolve, Shut
<1>12. AtRest'
  BY <1>1, <1>3, <1>4 DEF Resolve, Shut
<1>13. RecoverInv'
  BY <1>1, <1>3, <1>4 DEF Resolve, Shut
<1>14. DisplaceInv'
  BY <1>1, <1>3, <1>4 DEF Resolve, Shut
<1>15. HandleInv'
  BY <1>1, <1>3, <1>4 DEF Resolve, Shut
<1>16. ReplaceIsAtomic'
  BY <1>1, <1>3, <1>4 DEF Resolve, Shut
<1>17. BlockedOnlyIfTouched'
  BY <1>1, <1>3, <1>4 DEF Resolve, Shut
<1>18. SupersedesOnlyExpected'
  BY <1>1, <1>3, <1>4 DEF Resolve, Shut
<1>19. SettledBeforeUse'
  BY <1>1, <1>3, <1>4 DEF Resolve, Shut
<1>20. BackupIsListed'
  BY <1>1, <1>3, <1>4 DEF Resolve, Shut
<1> QED
  BY <1>11, <1>12, <1>13, <1>14, <1>15, <1>16, <1>17, <1>18, <1>19, <1>20

\* An installation ends by settling its own record.
LEMMA InstallFinishInv ==
  ASSUME IInv, InstallFinish
  PROVE  IInv'
<1>1. op.id \in Recorded /\ op.id \in Id
  BY DEF InstallFinish
<1>2. journal' = [journal EXCEPT ![op.id] = Settled(@)]
  BY DEF InstallFinish
<1>3. /\ Recorded' = Recorded
      /\ Unfinished' = Unfinished \ {op.id}
      /\ journal' \in [Id -> Journal \cup {NoJournal}]
      /\ \A k \in Recorded : /\ journal'[k].path = journal[k].path
                            /\ journal'[k].old = journal[k].old
                            /\ journal'[k].new = journal[k].new
  BY <1>1, <1>2, SettleRecord
<1>4. Recorded \subseteq Id /\ Unfinished \subseteq Recorded
  OBVIOUS
<1> HIDE DEF Recorded, Unfinished
<1>11. TypeOK'
  BY <1>1, <1>3, <1>4 DEF InstallFinish
<1>12. AtRest'
  BY <1>1, <1>3, <1>4 DEF InstallFinish
<1>13. RecoverInv'
  BY <1>1, <1>3, <1>4 DEF InstallFinish
<1>14. DisplaceInv'
  BY <1>1, <1>3, <1>4 DEF InstallFinish
<1>15. HandleInv'
  BY <1>1, <1>3, <1>4 DEF InstallFinish
<1>16. ReplaceIsAtomic'
  BY <1>1, <1>3, <1>4 DEF InstallFinish
<1>17. BlockedOnlyIfTouched'
  BY <1>1, <1>3, <1>4 DEF InstallFinish
<1>18. SupersedesOnlyExpected'
  BY <1>1, <1>3, <1>4 DEF InstallFinish
<1>19. SettledBeforeUse'
  BY <1>1, <1>3, <1>4 DEF InstallFinish
<1>20. BackupIsListed'
  BY <1>1, <1>3, <1>4 DEF InstallFinish
<1> QED
  BY <1>11, <1>12, <1>13, <1>14, <1>15, <1>16, <1>17, <1>18, <1>19, <1>20

(* A new record: the identifier is fresh, so it has no backup, no editor's *)
(* descriptor leads to it, and untouched it starts with the old version in *)
(* place.                                                                  *)
LEMMA InstallRecordInv ==
  ASSUME IInv, NEW i \in Id, InstallRecord(i)
  PROVE  IInv'
<1> DEFINE r == [path |-> op.path, old |-> op.expected, new |-> op.new, finished |-> FALSE]
<1>1. op \in Operation /\ op # Idle
  BY DEF InstallRecord
<1>2. /\ op' \in Operation /\ op' # Idle
      /\ op'.id = i /\ op'.path = op.path /\ op'.expected = op.expected
      /\ op'.new = op.new /\ op'.restoring = op.restoring
  BY <1>1 DEF InstallRecord, OpRecord
<1>3. /\ r \in Journal /\ ~r.finished
      /\ r.path = op.path /\ r.old = op.expected /\ r.new = op.new
  BY <1>1
<1>4. /\ journal' \in [Id -> Journal \cup {NoJournal}]
      /\ journal'[i] = r
      /\ \A k \in Id \ {i} : journal'[k] = journal[k]
  BY <1>3 DEF InstallRecord
<1> HIDE DEF r
<1>5. i \notin Recorded
  BY DEF InstallRecord
<1>6. Recorded' = Recorded \cup {i}
  BY <1>3, <1>4
<1>7. Unfinished' = Unfinished \cup {i}
  BY <1>3, <1>4, <1>5, <1>6
<1>8. backup[i] = Absent /\ Unfinished \subseteq Id
  BY <1>5
<1> HIDE DEF Recorded, Unfinished
<1>11. TypeOK'
  BY <1>1, <1>2, <1>3, <1>4, <1>5, <1>6, <1>7, <1>8 DEF InstallRecord
<1>12. AtRest'
  BY <1>1, <1>2, <1>3, <1>4, <1>5, <1>6, <1>7, <1>8 DEF InstallRecord
<1>13. RecoverInv'
  BY <1>1, <1>2, <1>3, <1>4, <1>5, <1>6, <1>7, <1>8 DEF InstallRecord
<1>14. DisplaceInv'
  BY <1>1, <1>2, <1>3, <1>4, <1>5, <1>6, <1>7, <1>8 DEF InstallRecord
<1>15. HandleInv'
  BY <1>1, <1>2, <1>3, <1>4, <1>5, <1>6, <1>7, <1>8 DEF InstallRecord
<1>16. ReplaceIsAtomic'
  BY <1>1, <1>2, <1>3, <1>4, <1>5, <1>6, <1>7, <1>8 DEF InstallRecord
<1>17. BlockedOnlyIfTouched'
  BY <1>1, <1>2, <1>3, <1>4, <1>5, <1>6, <1>7, <1>8 DEF InstallRecord
<1>18. SupersedesOnlyExpected'
  BY <1>1, <1>2, <1>3, <1>4, <1>5, <1>6, <1>7, <1>8 DEF InstallRecord
<1>19. SettledBeforeUse'
  BY <1>1, <1>2, <1>3, <1>4, <1>5, <1>6, <1>7, <1>8 DEF InstallRecord
<1>20. BackupIsListed'
  BY <1>1, <1>2, <1>3, <1>4, <1>5, <1>6, <1>7, <1>8 DEF InstallRecord
<1> QED
  BY <1>11, <1>12, <1>13, <1>14, <1>15, <1>16, <1>17, <1>18, <1>19, <1>20

(* A write through a descriptor to a displaced file: it can only lead to a *)
(* listed backup, and if the record is unfinished it counts as touched.    *)
LEMMA WriteDisplacedInv ==
  ASSUME IInv, NEW p \in Path, NEW c \in Content, WriteDisplaced(p, c)
  PROVE  IInv'
<1>11. TypeOK'
  BY DEF WriteDisplaced
<1>12. AtRest'
  BY DEF WriteDisplaced
<1>13. RecoverInv'
  BY DEF WriteDisplaced
<1>14. DisplaceInv'
  BY DEF WriteDisplaced
<1>15. HandleInv'
  BY DEF WriteDisplaced
<1>16. ReplaceIsAtomic'
  BY DEF WriteDisplaced
<1>17. BlockedOnlyIfTouched'
  BY DEF WriteDisplaced
<1>18. SupersedesOnlyExpected'
  BY DEF WriteDisplaced
<1>19. SettledBeforeUse'
  BY DEF WriteDisplaced
<1>20. BackupIsListed'
  BY DEF WriteDisplaced
<1> QED
  BY <1>11, <1>12, <1>13, <1>14, <1>15, <1>16, <1>17, <1>18, <1>19, <1>20

\* Whatever an editor does counts as a touch of the pending records.
LEMMA EditorInv ==
  ASSUME IInv, Editor
  PROVE  IInv'
<1>1. ASSUME NEW p \in Path, NEW c \in Content, Save(p, c)
      PROVE  IInv'
  BY <1>1, SMTT(60) DEF Save, Published
<1>2. ASSUME NEW p \in Path, NEW c \in Content, WriteInPlace(p, c)
      PROVE  IInv'
  BY <1>2, SMTT(60) DEF WriteInPlace, Published
<1>3. ASSUME NEW p \in Path, NEW c \in Content, WriteDisplaced(p, c)
      PROVE  IInv'
  BY <1>3, WriteDisplacedInv
<1>4. ASSUME NEW p \in Path, Remove(p)
      PROVE  IInv'
  BY <1>4, SMTT(60) DEF Remove, Published
<1>5. ASSUME NEW p \in Path, OpenFile(p)
      PROVE  IInv'
  BY <1>5, SMTT(60) DEF OpenFile
<1> QED
  BY <1>1, <1>2, <1>3, <1>4, <1>5 DEF Editor

\* Each step of recover, those on the disk by the lemmas above.
LEMMA RecoveryInv ==
  ASSUME IInv, Recovery
  PROVE  IInv'
<1>1. CASE Open
  BY <1>1, SMTT(60) DEF Open, StartRecover
<1>2. ASSUME NEW i \in Id, RecoverPick(i)
      PROVE  IInv'
  BY <1>2, SMTT(60) DEF RecoverPick
<1>3. CASE RecoverPublish
  BY <1>3, SMTT(60) DEF RecoverPublish, Shut
<1>4. CASE RecoverCheck
  BY <1>4, SMTT(60) DEF RecoverCheck, Explained, Shut
<1>5. CASE RecoverSettle
  BY <1>5, RecoverSettleInv
<1>6. CASE RecoverDone
  BY <1>6, SMTT(60) DEF RecoverDone, Shut
<1> QED
  BY <1>1, <1>2, <1>3, <1>4, <1>5, <1>6 DEF Recovery

\* Each step of an installation that has begun.
LEMMA InstallStepInv ==
  ASSUME IInv, InstallStep
  PROVE  IInv'
<1>1. ASSUME NEW i \in Id, InstallRecord(i)
      PROVE  IInv'
  BY <1>1, InstallRecordInv
<1>2. CASE InstallRead
  BY <1>2, SMTT(60) DEF InstallRead, Shut
<1>3. CASE InstallDisplace
  BY <1>3, SMTT(60) DEF InstallDisplace, Shut
<1>4. CASE InstallVerify
  BY <1>4, SMTT(60) DEF InstallVerify, StartRecover
<1>5. CASE InstallPublish
  BY <1>5, SMTT(60) DEF InstallPublish, StartRecover
<1>6. CASE InstallConfirm
  BY <1>6, SMTT(60) DEF InstallConfirm, Shut
<1>7. CASE InstallFinish
  BY <1>7, InstallFinishInv
<1>8. CASE InstallReturn
  BY <1>8, SMTT(60) DEF InstallReturn, Shut
<1> QED
  BY <1>1, <1>2, <1>3, <1>4, <1>5, <1>6, <1>7, <1>8 DEF InstallStep

\* Each of the user's answers.
LEMMA UserInv ==
  ASSUME IInv, User
  PROVE  IInv'
<1>1. CASE Resolve
  BY <1>1, ResolveInv
<1>2. CASE CleanupRecord
  BY <1>2, SMTT(60) DEF CleanupRecord, Shut
<1>3. ASSUME NEW i \in Id, Keep(i)
      PROVE  IInv'
  BY <1>3, KeepInv
<1>4. ASSUME NEW i \in Id, Restore(i)
      PROVE  IInv'
  BY <1>4, SMTT(60) DEF Restore, OpRecord, FreeId
<1>5. ASSUME NEW i \in Id, CleanupBackup(i)
      PROVE  IInv'
  BY <1>5, SMTT(60) DEF CleanupBackup
<1> QED
  BY <1>1, <1>2, <1>3, <1>4, <1>5 DEF User

\* The invariant is inductive.
LEMMA NextInv == IInv /\ [Next]_vars => IInv'
<1> SUFFICES ASSUME IInv, [Next]_vars
             PROVE  IInv'
  OBVIOUS
<1>1. CASE Editor
  BY <1>1, EditorInv
<1>2. CASE Recovery
  BY <1>2, RecoveryInv
<1>3. ASSUME NEW p \in Path, NEW e \in MaybeContent, NEW n \in Content, Install(p, e, n)
      PROVE  IInv'
  BY <1>3, SMTT(60) DEF Install, OpRecord, FreeId
<1>4. CASE InstallStep
  BY <1>4, InstallStepInv
<1>5. CASE Close
  BY <1>5, SMTT(60) DEF Close, Shut
<1>6. CASE Crash
  BY <1>6, SMTT(60) DEF Crash, Shut
<1>7. CASE User
  BY <1>7, UserInv
<1>8. CASE UNCHANGED vars
  BY <1>8, SMTT(60)
<1> QED
  BY <1>1, <1>2, <1>3, <1>4, <1>5, <1>6, <1>7, <1>8 DEF Next, Store, Installation

-----------------------------------------------------------------------------
(* What every reachable state of the store and its journal satisfies.      *)
THEOREM Invariance == Spec => []IInv
<1> USE InitInv, NextInv
<1> HIDE DEF IInv
<1> QED
  BY PTL DEF Spec

(* The variables stay within their types.                                  *)
THEOREM TypeCorrect == Spec => []TypeOK
<1>1. IInv => TypeOK
  OBVIOUS
<1> HIDE DEF IInv, TypeOK
<1> QED
  BY <1>1, Invariance, PTL

(* A replacement nobody interferes with is atomic at every crash point.    *)
THEOREM Atomicity == Spec => []ReplaceIsAtomic
<1>1. IInv => ReplaceIsAtomic
  OBVIOUS
<1> HIDE DEF IInv, ReplaceIsAtomic
<1> QED
  BY <1>1, Invariance, PTL

(* A crash alone never makes recover refuse a record.                      *)
THEOREM CrashNeverBlocks == Spec => []BlockedOnlyIfTouched
<1>1. IInv => BlockedOnlyIfTouched
  OBVIOUS
<1> HIDE DEF IInv, BlockedOnlyIfTouched
<1> QED
  BY <1>1, Invariance, PTL

(* install_file supersedes only the version it was asked to supersede.     *)
THEOREM ConditionalReplace == Spec => []SupersedesOnlyExpected
<1>1. IInv => SupersedesOnlyExpected
  OBVIOUS
<1> HIDE DEF IInv, SupersedesOnlyExpected
<1> QED
  BY <1>1, Invariance, PTL

(* No scan or installation runs over an unfinished record.                 *)
THEOREM SettledFirst == Spec => []SettledBeforeUse
<1>1. IInv => SettledBeforeUse
  OBVIOUS
<1> HIDE DEF IInv, SettledBeforeUse
<1> QED
  BY <1>1, Invariance, PTL

(* A backup always has the record by which the user finds it, also when a  *)
(* cleanup_recovery is interrupted.                                        *)
THEOREM ListedBackups == Spec => []BackupIsListed
<1>1. IInv => BackupIsListed
  OBVIOUS
<1> HIDE DEF IInv, BackupIsListed
<1> QED
  BY <1>1, Invariance, PTL

-----------------------------------------------------------------------------
(* Most steps of the store leave the disk alone; these lemmas are about    *)
(* the ones that do not.                                                   *)
LEMMA SettleKeeps ==
  ASSUME IInv, NEW i \in Recorded, journal' = [journal EXCEPT ![i] = Settled(@)],
         UNCHANGED <<target, backup>>
  PROVE  \A p \in Path : Kept(p) \subseteq Kept(p)'
<1>1. Recorded' = Recorded /\ \A k \in Recorded : journal'[k].path = journal[k].path
  <2> HIDE DEF IInv, Recorded
  <2> QED
    BY SettleRecord
<1> HIDE DEF IInv, Recorded
<1> QED
  BY <1>1 DEF Kept

\* A new record leads to no backup yet and hides none.
LEMMA RecordKeeps ==
  ASSUME IInv, NEW i \in Id, InstallRecord(i)
  PROVE  \A p \in Path : Kept(p) \subseteq Kept(p)'
<1>1. /\ UNCHANGED <<target, backup>>
      /\ \A k \in Id \ {i} : journal'[k] = journal[k]
      /\ journal[i] = NoJournal
  BY DEF InstallRecord
<1> QED
  BY <1>1 DEF Kept

\* The displaced version moves to a backup that was free and is recorded.
LEMMA DisplaceKeeps ==
  ASSUME IInv, InstallDisplace
  PROVE  \A p \in Path : Kept(p) \subseteq Kept(p)'
<1>1. CASE target[op.path] = Absent
  BY <1>1 DEF InstallDisplace, Shut, Kept
<1>2. CASE target[op.path] # Absent
  <2>1. /\ op.id \in Recorded /\ journal[op.id].path = op.path /\ op.path \in Path
        /\ backup[op.id] = Absent
    BY DEF InstallDisplace
  <2>2. /\ journal' = journal
        /\ backup'[op.id] = target[op.path]
        /\ \A k \in Id \ {op.id} : backup'[k] = backup[k]
        /\ \A p \in Path \ {op.path} : target'[p] = target[p]
    BY <1>2 DEF InstallDisplace
  <2>3. Recorded' = Recorded
    BY <2>2
  <2> QED
    BY <2>1, <2>2, <2>3 DEF Kept
<1> QED
  BY <1>1, <1>2

\* persist_noclobber fills a path that was empty.
LEMMA PublishKeeps ==
  ASSUME IInv, InstallPublish \/ RecoverPublish
  PROVE  \A p \in Path : Kept(p) \subseteq Kept(p)'
<1>1. UNCHANGED <<backup, journal>>
  BY DEF InstallPublish, RecoverPublish, Shut
<1>2. \A p \in Path : target[p] # Absent => target'[p] = target[p]
  BY DEF InstallPublish, RecoverPublish, Shut
<1>3. Recorded' = Recorded
  BY <1>1
<1> QED
  BY <1>1, <1>2, <1>3 DEF Kept

\* Every step of the store keeps what can still be got back.
LEMMA StoreKeeps ==
  ASSUME IInv, Store \/ Resolve
  PROVE  \A p \in Path : Kept(p) \subseteq Kept(p)'
<1>1. ASSUME UNCHANGED disk
      PROVE  \A p \in Path : Kept(p) \subseteq Kept(p)'
  BY <1>1 DEF Kept
<1>2. CASE InstallDisplace
  BY <1>2, DisplaceKeeps
<1>3. CASE InstallPublish \/ RecoverPublish
  BY <1>3, PublishKeeps
<1>4. ASSUME NEW i \in Id, InstallRecord(i)
      PROVE  \A p \in Path : Kept(p) \subseteq Kept(p)'
  BY <1>4, RecordKeeps
<1>5. CASE RecoverSettle
  BY <1>5, SettleKeeps DEF RecoverSettle
<1>6. CASE InstallFinish
  BY <1>6, SettleKeeps DEF InstallFinish
<1>7. CASE Resolve
  BY <1>7, SettleKeeps DEF Resolve
<1>8. ASSUME NEW i \in Id, RecoverPick(i)
      PROVE  UNCHANGED disk
  BY <1>8 DEF RecoverPick
<1>9. ASSUME NEW p \in Path, NEW e \in MaybeContent, NEW n \in Content, Install(p, e, n)
      PROVE  UNCHANGED disk
  BY <1>9 DEF Install
<1>10. CASE Open \/ RecoverCheck \/ RecoverDone \/ InstallRead \/ InstallVerify
            \/ InstallConfirm \/ InstallReturn \/ Close \/ Crash
  <2>1. UNCHANGED disk
    BY <1>10 DEF Open, RecoverCheck, RecoverDone, InstallRead, InstallVerify,
                 InstallConfirm, InstallReturn, Close, Crash
  <2> QED
    BY <1>1, <2>1
<1> QED
  BY <1>1, <1>2, <1>3, <1>4, <1>5, <1>6, <1>7, <1>8, <1>9, <1>10
  DEF Store, Recovery, Installation, InstallStep

(* No step of install_file, recover or a crash loses a version: it stays   *)
(* at its path or in a backup that recovery_entries lists.                 *)
THEOREM Preservation == Spec => NothingLost
<1>1. IInv /\ [Next]_vars =>
        [(Store \/ Resolve) => \A p \in Path : Kept(p) \subseteq Kept(p)']_vars
  <2> HIDE DEF IInv, vars
  <2> QED
    BY StoreKeeps
<1> HIDE DEF IInv
<1> QED
  BY <1>1, Invariance, PTL DEF Spec, NothingLost

-----------------------------------------------------------------------------
(***************************************************************************)
(* install_file implements ConditionalReplace.                             *)
(***************************************************************************)

\* A backup written late is still open; a file that was not expected to be
\* there was not displaced.
LateInv ==
  /\ \A i \in late : i \in Unfinished => handle[journal[i].path] = i
  /\ pc = "publish" /\ op.expected = Absent => backup[op.id] = Absent

HIDE DEF IInv, TypeOK, AtRest, RecoverInv, DisplaceInv, HandleInv,
        ReplaceIsAtomic, BlockedOnlyIfTouched, SupersedesOnlyExpected,
        SettledBeforeUse, BackupIsListed,
        Recorded, Unfinished, PendingAt, MaybeContent, Journal, Operation,
        disk, work, vars, Recovering, Displacing

-----------------------------------------------------------------------------
\* No backup has been written to yet.
LEMMA LateInit == Init => LateInv
BY DEF Init, LateInv

\* Steps that leave the records, the descriptors and the backups alone keep
\* LateInv when they do not start a publication.
LEMMA LateFrame ==
  ASSUME LateInv, pc' # "publish", UNCHANGED <<journal, handle, late>>
  PROVE  LateInv'
BY DEF LateInv, Unfinished, Recorded

\* Settling a record takes it off the unfinished ones.
LEMMA LateSettle ==
  ASSUME IInv, LateInv, pc' # "publish", UNCHANGED <<handle, late>>,
         NEW i \in Recorded, journal' = [journal EXCEPT ![i] = Settled(@)]
  PROVE  LateInv'
<1>1. /\ Unfinished' = Unfinished \ {i} 
      /\ \A k \in Recorded : journal'[k].path = journal[k].path
  BY SettleRecord
<1>2. Unfinished \subseteq Recorded
  BY DEF Unfinished
<1> QED
  BY <1>1, <1>2 DEF LateInv

\* The editor: only a write through a descriptor makes a backup late.
LEMMA LateEditor == IInv /\ LateInv /\ Editor => LateInv'
<1> SUFFICES ASSUME IInv, LateInv, Editor PROVE LateInv'
  OBVIOUS
<1> USE DEF LateInv, IInv, TypeOK, Unfinished, Recorded, work, disk
<1> PICK p \in Path :
      \/ \E c \in Content : Save(p, c) \/ WriteInPlace(p, c) \/ WriteDisplaced(p, c)
      \/ Remove(p)
      \/ OpenFile(p)
  BY DEF Editor
<1>1. ASSUME NEW c \in Content, Save(p, c)
      PROVE  LateInv'
  BY <1>1, MarkersAssumption DEF Save
<1>2. ASSUME NEW c \in Content, WriteInPlace(p, c)
      PROVE  LateInv'
  BY <1>2, MarkersAssumption DEF WriteInPlace
<1>3. ASSUME NEW c \in Content, WriteDisplaced(p, c)
      PROVE  LateInv'
  <2>1. /\ handle[p] \in Recorded
        /\ journal[handle[p]].path = p
        /\ backup[handle[p]] # Absent
    BY <1>3 DEF WriteDisplaced, HandleInv
  <2> QED
    BY <1>3, <2>1 DEF WriteDisplaced
<1>4. CASE Remove(p)
  BY <1>4, MarkersAssumption DEF Remove
<1>5. CASE OpenFile(p)
  BY <1>5, MarkersAssumption DEF OpenFile, disk, work
<1> QED
  BY <1>1, <1>2, <1>3, <1>4, <1>5

\* The store and its user.
LEMMA LateNext == IInv /\ LateInv /\ [Next]_vars => LateInv'
<1> SUFFICES ASSUME IInv, LateInv, [Next]_vars
             PROVE  LateInv'
  OBVIOUS
<1> USE DEF disk, work
<1>0. /\ cur \in Id \/ pc \notin {"settle", "cleanup"}
      /\ pc = "settle" => cur \in Recorded
      /\ pc = "finish" => op.id \in Recorded
      /\ pc = "resolve" => op.restoring \in Recorded
  BY DEF IInv, TypeOK, AtRest, RecoverInv, DisplaceInv, Unfinished, Recorded, Displacing
<1>1. CASE Editor
  BY <1>1, LateEditor
<1>2. CASE \/ Open \/ RecoverPublish \/ RecoverCheck \/ RecoverDone \/ Close \/ Crash
           \/ \E i \in Id : RecoverPick(i) \/ Restore(i)
  BY <1>2, LateFrame DEF Open, RecoverPublish, RecoverCheck, RecoverDone, Close, Crash,
                         RecoverPick, Restore, Shut, StartRecover
<1>3. CASE \/ InstallRead \/ InstallConfirm \/ InstallReturn
           \/ \E p \in Path, e \in MaybeContent, n \in Content : Install(p, e, n)
  BY <1>3, LateFrame DEF InstallRead, InstallConfirm, InstallReturn, Install, Shut
<1>4. CASE RecoverSettle
  BY <1>0, <1>4, LateSettle DEF RecoverSettle
<1>5. CASE InstallFinish
  BY <1>0, <1>5, LateSettle DEF InstallFinish
<1>6. CASE Resolve
  BY <1>0, <1>6, LateSettle DEF Resolve, Shut
<1>7. ASSUME NEW i \in Id, Keep(i)
      PROVE  LateInv'
  BY <1>7, LateSettle DEF Keep, Unfinished
<1>8. CASE InstallPublish
  BY <1>8, LateFrame DEF InstallPublish, StartRecover
<1>9. CASE InstallVerify
  BY <1>9 DEF InstallVerify, StartRecover, LateInv, Unfinished, Recorded
<1>10. CASE InstallDisplace
  BY <1>10, MarkersAssumption
  DEF InstallDisplace, Shut, LateInv, IInv, TypeOK, Unfinished, Recorded, Journal
<1>11. ASSUME NEW i \in Id, InstallRecord(i)
       PROVE  LateInv'
  <2>1. backup[i] = Absent
    BY <1>11 DEF InstallRecord, IInv, BackupIsListed, Recorded
  <2>2. op'.expected = op.expected /\ op'.id = i
    BY <1>11 DEF InstallRecord, OpRecord
  <2> QED
    BY <1>11, <2>1, <2>2 DEF InstallRecord, LateInv, IInv, TypeOK, Unfinished, Recorded
<1>12. ASSUME NEW i \in Id, CleanupBackup(i)
       PROVE  LateInv'
  BY <1>12, MarkersAssumption
  DEF CleanupBackup, LateInv, IInv, TypeOK, Unfinished, Recorded, Journal
<1>13. CASE CleanupRecord
  BY <1>0, <1>13 DEF CleanupRecord, Shut, LateInv, IInv, TypeOK, Unfinished, Recorded
<1>14. CASE UNCHANGED vars
  BY <1>14 DEF vars, LateInv, Unfinished, Recorded
<1> QED
  BY <1>1, <1>2, <1>3, <1>4, <1>5, <1>6, <1>7, <1>8, <1>9, <1>10, <1>11, <1>12, <1>13, <1>14
  DEF Next, Store, Recovery, Installation, InstallStep, User

\* Bytes written late have an open descriptor, whatever happens.
THEOREM LateIsOpen == Spec => []LateInv
<1>1. Init => LateInv
  BY LateInit
<1>2. IInv /\ LateInv /\ [Next]_vars => LateInv'
  BY LateNext
<1> QED
  BY <1>1, <1>2, Invariance, PTL DEF Spec

-----------------------------------------------------------------------------
\* What counts at a path depends on the file, the unfinished records and
\* their backups only.
LEMMA SeenFrame ==
  ASSUME NEW p \in Path, target'[p] = target[p], PendingAt(p)' = PendingAt(p),
         \A i \in PendingAt(p) : backup'[i] = backup[i]
  PROVE  Seen(p)' = Seen(p)
<1>1. Displaced(p)' = Displaced(p)
  BY DEF Displaced
<1>2. \A i \in Displaced(p) : backup'[i] = backup[i]
  BY DEF Displaced
<1>3. Displaced(p) # {} => (CHOOSE i \in Displaced(p) : TRUE) \in Displaced(p)
  OBVIOUS
<1> QED
  BY <1>1, <1>2, <1>3 DEF Seen

\* What counts is a content or nothing.
LEMMA SeenType == TypeOK => \A p \in Path : Seen(p) \in Content \cup {Absent}
<1> SUFFICES ASSUME TypeOK, NEW p \in Path
             PROVE  Seen(p) \in Content \cup {Absent}
  OBVIOUS
<1>1. Displaced(p) \subseteq Id
  BY DEF Displaced, PendingAt, Unfinished, Recorded
<1>2. Displaced(p) # {} => (CHOOSE i \in Displaced(p) : TRUE) \in Displaced(p)
  OBVIOUS
<1> QED
  BY <1>1, <1>2 DEF Seen, TypeOK, MaybeContent

\* A step about one path only is somebody's edit of it.
LEMMA EditOfOne ==
  ASSUME IInv', NEW q \in Path,
         \A p \in Path \ {q} : Seen(p)' = Seen(p) /\ handle'[p] = handle[p],
         UNCHANGED <<Stage, Job>>
  PROVE  Replacement!Next
<1> DEFINE file == [p \in Path |-> Seen(p)]
           open == [p \in Path |-> handle[p] # "shut"]
<1>0. TypeOK'
  BY DEF IInv
<1>1. (\A p \in Path : Seen(p) \in Content \cup {Absent})'
  BY <1>0, SeenType, PTL
<1>2. file' = [file EXCEPT ![q] = Seen(q)']
  OBVIOUS
<1>3. open' = [open EXCEPT ![q] = (handle'[q] # "shut")]
  OBVIOUS
<1>4. (handle'[q] # "shut") \in BOOLEAN
  OBVIOUS
<1>5. Replacement!Edit(q)
  BY <1>1, <1>2, <1>3, <1>4 DEF Replacement!Edit
<1> QED
  BY <1>5 DEF Replacement!Next

\* A step that leaves the disk alone changes nothing that counts.
LEMMA DiskKeepsSeen ==
  ASSUME UNCHANGED disk
  PROVE  \A p \in Path : Seen(p)' = Seen(p)
BY DEF disk, Seen, Displaced, PendingAt, Unfinished, Recorded

\* Nor does it change a file if it leaves the descriptors alone too.
LEMMA DiskFrame ==
  ASSUME UNCHANGED <<disk, handle>>
  PROVE  UNCHANGED <<[p \in Path |-> Seen(p)], [p \in Path |-> handle[p] # "shut"]>>
BY DiskKeepsSeen

\* Settling a record is about its path only.
LEMMA SettleIsEdit ==
  ASSUME IInv, IInv', UNCHANGED <<target, backup, handle, Stage, Job>>,
         NEW i \in Recorded, journal' = [journal EXCEPT ![i] = Settled(@)]
  PROVE  Replacement!Next
<1>1. /\ Unfinished' = Unfinished \ {i}
      /\ \A k \in Recorded : journal'[k].path = journal[k].path
  BY SettleRecord
<1>2. Unfinished \subseteq Recorded
  BY DEF Unfinished
<1>3. journal[i].path \in Path
  BY DEF IInv, TypeOK, Recorded, Journal
<1>4. \A p \in Path \ {journal[i].path} : PendingAt(p)' = PendingAt(p)
  BY <1>1, <1>2 DEF PendingAt
<1>5. \A p \in Path \ {journal[i].path} : Seen(p)' = Seen(p)
  BY <1>4, SeenFrame
<1> QED
  BY <1>3, <1>5, EditOfOne

\* The store going down, without a change on disk, is a Stop.
LEMMA ShutIsStop ==
  ASSUME Shut, UNCHANGED <<disk, handle>>
  PROVE  Replacement!Next
<1>1. Stage' = "down" /\ Job' = Idle
  BY DEF Shut, Stage, Job, Serving
<1> QED
  BY <1>1, DiskFrame DEF Replacement!Next, Replacement!Stop

\* What the program counter and the operation leave alone is a stutter.
LEMMA LocalIsStutter ==
  ASSUME UNCHANGED <<disk, handle, Stage, Job>>
  PROVE  UNCHANGED Replacement!vars
BY DiskFrame DEF Replacement!vars

\* The editor changes one path at a time.
LEMMA EditorRefines ==
  ASSUME IInv, IInv', Editor
  PROVE  Replacement!Next
<1> USE DEF work, disk
<1>1. PICK p \in Path :
        \/ \E c \in Content : Save(p, c) \/ WriteInPlace(p, c) \/ WriteDisplaced(p, c)
        \/ Remove(p)
        \/ OpenFile(p)
  BY DEF Editor
<1>2. UNCHANGED <<journal, pc, op>>
  BY <1>1 DEF Save, WriteInPlace, WriteDisplaced, Remove, OpenFile
<1>3. UNCHANGED <<Stage, Job>>
  BY <1>2 DEF Stage, Job, Serving
<1>4. \A q \in Path \ {p} : target'[q] = target[q] /\ handle'[q] = handle[q]
  BY <1>1 DEF Save, WriteInPlace, WriteDisplaced, Remove, OpenFile, IInv, TypeOK
<1>5. \A q \in Path : PendingAt(q)' = PendingAt(q)
  BY <1>2 DEF PendingAt, Unfinished, Recorded
<1>6. \A q \in Path \ {p} : \A i \in PendingAt(q) : backup'[i] = backup[i]
  <2>1. CASE UNCHANGED backup
    BY <2>1
  <2>2. ASSUME NEW c \in Content, WriteDisplaced(p, c)
        PROVE  \A q \in Path \ {p} : \A i \in PendingAt(q) : backup'[i] = backup[i]
    <3>1. journal[handle[p]].path = p
      BY <2>2 DEF WriteDisplaced, IInv, HandleInv
    <3>2. \A q \in Path \ {p} : \A i \in PendingAt(q) : i \in Id /\ i # handle[p]
      BY <3>1 DEF PendingAt, Unfinished, Recorded
    <3> QED
      BY <2>2, <3>2 DEF WriteDisplaced, IInv, TypeOK
  <2> QED
    BY <1>1, <2>1, <2>2 DEF Save, WriteInPlace, Remove, OpenFile
<1>7. \A q \in Path \ {p} : Seen(q)' = Seen(q)
  BY <1>4, <1>5, <1>6, SeenFrame
<1> QED
  BY <1>3, <1>4, <1>7, EditOfOne

\* recover works on one record, before or after the request it answers.
LEMMA RecoveryRefines ==
  ASSUME IInv, IInv', Recovery
  PROVE  [Replacement!Next]_(Replacement!vars)
<1>0. pc \in {"closed", "cleanup"} => op = Idle
  BY DEF IInv, AtRest
<1>1. CASE Open
  <2>1. UNCHANGED <<disk, handle, Stage, Job>>
    BY <1>0, <1>1 DEF Open, StartRecover, Stage, Job, Serving
  <2> QED
    BY <2>1, LocalIsStutter
<1>2. ASSUME NEW i \in Id, RecoverPick(i)
      PROVE  [Replacement!Next]_(Replacement!vars)
  <2>1. UNCHANGED <<disk, handle, Stage, Job>>
    BY <1>2 DEF RecoverPick, Stage, Job, Serving
  <2> QED
    BY <2>1, LocalIsStutter
<1>3. CASE RecoverPublish
  <2>1. CASE Shut /\ UNCHANGED <<disk, handle>>
    BY <2>1, ShutIsStop
  <2>2. CASE /\ target' = [target EXCEPT ![journal[cur].path] = copy]
             /\ pc = "copied" /\ pc' = "check"
             /\ UNCHANGED <<backup, journal, handle, op>>
    <3>1. journal[cur].path \in Path
      BY <2>2 DEF IInv, TypeOK, RecoverInv, Unfinished, Recorded, Journal
    <3>2. UNCHANGED <<Stage, Job>>
      BY <2>2 DEF Stage, Job, Serving
    <3>3. \A p \in Path : PendingAt(p)' = PendingAt(p)
      BY <2>2 DEF PendingAt, Unfinished, Recorded
    <3>4. \A p \in Path \ {journal[cur].path} : target'[p] = target[p]
      BY <2>2 DEF IInv, TypeOK
    <3>5. \A p \in Path \ {journal[cur].path} : Seen(p)' = Seen(p)
      BY <2>2, <3>3, <3>4, SeenFrame
    <3> QED
      BY <2>2, <3>1, <3>2, <3>5, EditOfOne
  <2> QED
    BY <1>3, <2>1, <2>2 DEF RecoverPublish
<1>4. CASE RecoverCheck
  <2>1. CASE Shut
    BY <1>4, <2>1, ShutIsStop DEF RecoverCheck
  <2>2. CASE pc = "check" /\ pc' = "settle" /\ UNCHANGED work
    <3>1. UNCHANGED <<disk, handle, Stage, Job>>
      BY <1>4, <2>2 DEF RecoverCheck, work, Stage, Job, Serving
    <3> QED
      BY <3>1, LocalIsStutter
  <2> QED
    BY <1>4, <2>1, <2>2 DEF RecoverCheck
<1>5. CASE RecoverSettle
  <2>1. cur \in Recorded
    BY <1>5 DEF RecoverSettle, IInv, RecoverInv, Unfinished
  <2>2. UNCHANGED <<target, backup, handle, Stage, Job>>
    BY <1>5 DEF RecoverSettle, Stage, Job, Serving
  <2> QED
    BY <1>5, <2>1, <2>2, SettleIsEdit DEF RecoverSettle
<1>6. CASE RecoverDone
  <2>1. CASE Shut
    BY <1>6, <2>1, ShutIsStop DEF RecoverDone
  <2>2. CASE pc = "recover" /\ op = Idle /\ pc' = "ready" /\ UNCHANGED work
    <3>1. Stage = "down" /\ Stage' = "up" /\ UNCHANGED Job
      BY <2>2 DEF Stage, Job, Serving, work
    <3> QED
      BY <1>6, <3>1, DiskFrame DEF RecoverDone, Replacement!Next, Replacement!Start
  <2> QED
    BY <1>6, <2>1, <2>2 DEF RecoverDone
<1> QED
  BY <1>1, <1>2, <1>3, <1>4, <1>5, <1>6 DEF Recovery

\* An installation asked for by a round publishes over what was expected,
\* or over a file that is still open.
LEMMA PublishOver ==
  ASSUME IInv, LateInv, pc = "publish", Serving, target[op.path] = Absent
  PROVE  Seen(op.path) = op.expected \/ handle[op.path] # "shut"
<1>1. op # Idle /\ op.id \in Unfinished /\ journal[op.id].path = op.path
  BY DEF IInv, DisplaceInv, Displacing, Serving
<1>2. Unfinished = {op.id}
  BY <1>1 DEF IInv, SettledBeforeUse, Serving
<1>3. Displaced(op.path) = IF backup[op.id] # Absent THEN {op.id} ELSE {}
  BY <1>1, <1>2 DEF Displaced, PendingAt
<1>4. Seen(op.path) = IF backup[op.id] # Absent THEN backup[op.id] ELSE Absent
  BY <1>3 DEF Seen
<1>5. CASE op.expected = Absent
  BY <1>4, <1>5 DEF LateInv
<1>6. CASE op.expected # Absent
  <2>1. backup[op.id] = op.expected \/ op.id \in late
    BY <1>6 DEF IInv, SupersedesOnlyExpected
  <2>2. op.id \in late => handle[op.path] = op.id
    BY <1>1 DEF LateInv
  <2>3. op.id \in Id
    BY <1>1 DEF Unfinished, Recorded
  <2> QED
    BY <1>4, <1>6, <2>1, <2>2, <2>3, MarkersAssumption
<1> QED
  BY <1>5, <1>6

\* A publication changes one path, to the new version.
LEMMA PublishChange ==
  ASSUME IInv, InstallPublish, target[op.path] = Absent
  PROVE  /\ op.path \in Path /\ op.new \in Content
         /\ pc = "publish" /\ pc' = "confirm"
         /\ UNCHANGED <<backup, journal, handle, op>>
         /\ Seen(op.path)' = op.new
         /\ \A p \in Path \ {op.path} : Seen(p)' = Seen(p)
<1>1. op.path \in Path /\ op.new \in Content
  BY DEF InstallPublish, IInv, TypeOK, AtRest, Displacing, Operation
<1>2. /\ pc = "publish" /\ pc' = "confirm"
      /\ target' = [target EXCEPT ![op.path] = op.new]
      /\ UNCHANGED <<backup, journal, handle, op>>
  BY DEF InstallPublish
<1>3. \A p \in Path : PendingAt(p)' = PendingAt(p)
  BY <1>2 DEF PendingAt, Unfinished, Recorded
<1>4. \A p \in Path \ {op.path} : target'[p] = target[p]
  BY <1>2 DEF IInv, TypeOK
<1>5. \A p \in Path \ {op.path} : Seen(p)' = Seen(p)
  BY <1>2, <1>3, <1>4, SeenFrame
<1>6. target'[op.path] = op.new /\ op.new # Absent
  BY <1>1, <1>2, MarkersAssumption DEF IInv, TypeOK
<1>7. Seen(op.path)' = op.new
  BY <1>2, <1>6 DEF Seen
<1> QED
  BY <1>1, <1>2, <1>5, <1>7

\* For a round, it is where the request takes effect.
LEMMA PublishApplies ==
  ASSUME IInv, LateInv, InstallPublish, target[op.path] = Absent, Serving
  PROVE  Replacement!Apply
<1> DEFINE file == [p \in Path |-> Seen(p)]
           open == [p \in Path |-> handle[p] # "shut"]
<1>1. /\ op.path \in Path
      /\ pc = "publish" /\ pc' = "confirm"
      /\ UNCHANGED <<handle, op>>
      /\ Seen(op.path)' = op.new
      /\ \A p \in Path \ {op.path} : Seen(p)' = Seen(p)
  BY PublishChange
<1>2. Stage = "asked" /\ Stage' = "done" /\ UNCHANGED Job
  BY <1>1 DEF Stage, Job, Serving
<1>3. Job.path = op.path /\ Job.expected = op.expected /\ Job.new = op.new
  BY DEF Job
<1>4. file' = [file EXCEPT ![op.path] = op.new]
  BY <1>1
<1>5. UNCHANGED open
  BY <1>1
<1>6. file[op.path] = op.expected \/ open[op.path]
  BY <1>1, PublishOver
<1> QED
  BY <1>2, <1>3, <1>4, <1>5, <1>6 DEF Replacement!Apply

\* For a restore, it is the user's edit.
LEMMA PublishRefines ==
  ASSUME IInv, IInv', LateInv, InstallPublish
  PROVE  [Replacement!Next]_(Replacement!vars)
<1>1. CASE target[op.path] # Absent
  <2>1. UNCHANGED <<disk, handle, Stage, Job>>
    BY <1>1 DEF InstallPublish, StartRecover, disk, Stage, Job, Serving
  <2> QED
    BY <2>1, LocalIsStutter
<1>2. CASE target[op.path] = Absent /\ Serving
  BY <1>2, PublishApplies DEF Replacement!Next
<1>3. CASE target[op.path] = Absent /\ ~Serving
  <2>1. /\ op.path \in Path
        /\ pc = "publish" /\ pc' = "confirm"
        /\ UNCHANGED <<handle, op>>
        /\ \A p \in Path \ {op.path} : Seen(p)' = Seen(p)
    BY <1>3, PublishChange
  <2>2. UNCHANGED <<Stage, Job>>
    BY <1>3, <2>1 DEF Stage, Job, Serving
  <2> QED
    BY <2>1, <2>2, EditOfOne
<1> QED
  BY <1>1, <1>2, <1>3

\* A file that already is the requested version is a request applied to it.
LEMMA ReadRefines ==
  ASSUME IInv, InstallRead
  PROVE  [Replacement!Next]_(Replacement!vars)
<1>0. op \in Operation /\ op.path \in Path
  BY DEF InstallRead, IInv, TypeOK, AtRest, Operation
<1>1. CASE Shut
  BY <1>1, ShutIsStop DEF InstallRead
<1>2. CASE pc' = "record" /\ UNCHANGED work
  <2>1. UNCHANGED <<disk, handle, Stage, Job>>
    BY <1>2 DEF InstallRead, work, Stage, Job, Serving
  <2> QED
    BY <2>1, LocalIsStutter
<1>3. CASE target[op.path] = op.new /\ pc' = "return" /\ UNCHANGED work
  <2>1. pc = "read" /\ UNCHANGED <<disk, handle, op>>
    BY <1>3 DEF InstallRead, work
  <2>2. CASE ~Serving
    <3>1. UNCHANGED <<Stage, Job>>
      BY <1>3, <2>1, <2>2 DEF Stage, Job, Serving
    <3> QED
      BY <2>1, <3>1, LocalIsStutter
  <2>3. CASE Serving
    <3> DEFINE file == [p \in Path |-> Seen(p)]
               open == [p \in Path |-> handle[p] # "shut"]
    <3>1. Stage = "asked" /\ Stage' = "done" /\ UNCHANGED Job
      BY <1>3, <2>1, <2>3 DEF Stage, Job, Serving
    <3>2. Job.path = op.path /\ Job.new = op.new
      BY <2>3 DEF Job
    <3>3. UNCHANGED <<file, open>>
      BY <2>1, DiskFrame
    <3>4. file[op.path] = op.new
      BY <1>0, <1>3, MarkersAssumption DEF Seen, Operation
    <3>5. file = [file EXCEPT ![op.path] = op.new]
      BY <1>0, <3>4
    <3>6. Replacement!Apply
      BY <3>1, <3>2, <3>3, <3>4, <3>5 DEF Replacement!Apply
    <3> QED
      BY <3>6 DEF Replacement!Next
  <2> QED
    BY <2>2, <2>3
<1> QED
  BY <1>1, <1>2, <1>3 DEF InstallRead

\* The remaining steps of an installation.
LEMMA InstallationRefines ==
  ASSUME IInv, IInv', LateInv, Installation
  PROVE  [Replacement!Next]_(Replacement!vars)
<1>0. pc \in {"record", "displace", "verify", "confirm", "finish", "return"} =>
        op \in Operation /\ op.path \in Path
  BY DEF IInv, TypeOK, AtRest, Displacing, Operation
<1>1. ASSUME NEW p \in Path, NEW e \in MaybeContent, NEW n \in Content, Install(p, e, n)
      PROVE  Replacement!Next
  <2>1. /\ op' # Idle /\ op'.restoring = Nobody
        /\ op'.path = p /\ op'.expected = e /\ op'.new = n
    <3>1. OpRecord(p, e, n, Nobody, Nobody) \in Operation
      BY DEF OpRecord, Operation
    <3> QED
      BY <1>1, <3>1, MarkersAssumption DEF Install, OpRecord
  <2>2. Stage = "up" /\ Stage' = "asked"
    BY <1>1, <2>1 DEF Install, Stage, Serving
  <2>3. Job' = Replacement!Request(p, e, n)
    BY <2>1 DEF Job, Serving, Replacement!Request
  <2>4. Replacement!Ask(p, e, n)
    BY <1>1, <2>2, <2>3, DiskFrame DEF Install, Replacement!Ask
  <2> QED
    BY <2>4 DEF Replacement!Next, MaybeContent
<1>2. ASSUME NEW i \in Id, InstallRecord(i)
      PROVE  Replacement!Next
  <2>1. op' # Idle /\ op # Idle
    <3>1. OpRecord(op.path, op.expected, op.new, i, op.restoring) \in Operation
      BY <1>0, <1>2 DEF InstallRecord, OpRecord, Operation
    <3> QED
      BY <1>2, <3>1, MarkersAssumption DEF InstallRecord, IInv, AtRest
  <2>2. /\ op'.path = op.path /\ op'.expected = op.expected
        /\ op'.new = op.new /\ op'.restoring = op.restoring
    BY <1>2 DEF InstallRecord, OpRecord
  <2>3. UNCHANGED <<Stage, Job>>
    BY <1>2, <2>1, <2>2 DEF InstallRecord, Stage, Job, Serving
  <2>4. op.path \in Path /\ UNCHANGED <<target, backup, handle>>
    BY <1>0, <1>2 DEF InstallRecord
  <2>5. journal'[i].path = op.path /\ journal[i] = NoJournal
    BY <1>2 DEF InstallRecord, IInv, TypeOK
  <2>6. \A k \in Id \ {i} : journal'[k] = journal[k]
    BY <1>2 DEF InstallRecord, IInv, TypeOK
  <2>7. \A p \in Path \ {op.path} : PendingAt(p)' = PendingAt(p)
    BY <2>5, <2>6 DEF PendingAt, Unfinished, Recorded
  <2>8. \A p \in Path \ {op.path} : Seen(p)' = Seen(p)
    BY <2>4, <2>7, SeenFrame
  <2> QED
    BY <2>3, <2>4, <2>8, EditOfOne
<1>3. CASE InstallDisplace
  <2>1. CASE Shut /\ UNCHANGED <<disk, handle>>
    BY <2>1, ShutIsStop
  <2>2. CASE /\ backup' = [backup EXCEPT ![op.id] = target[op.path]]
             /\ target' = [target EXCEPT ![op.path] = Absent]
             /\ handle' = [handle EXCEPT ![op.path] = IF @ = "target" THEN op.id ELSE @]
             /\ pc = "displace" /\ pc' = "verify"
             /\ UNCHANGED <<journal, op>>
    <3>1. UNCHANGED <<Stage, Job>>
      BY <2>2 DEF Stage, Job, Serving
    <3>2. \A p \in Path : PendingAt(p)' = PendingAt(p)
      BY <2>2 DEF PendingAt, Unfinished, Recorded
    <3>3. \A p \in Path \ {op.path} : target'[p] = target[p] /\ handle'[p] = handle[p]
      BY <2>2 DEF IInv, TypeOK
    <3>4. journal[op.id].path = op.path
      BY <2>2 DEF IInv, DisplaceInv, Displacing
    <3>5. \A p \in Path \ {op.path} : \A i \in PendingAt(p) : i \in Id /\ i # op.id
      BY <3>4 DEF PendingAt, Unfinished, Recorded
    <3>6. \A p \in Path \ {op.path} : \A i \in PendingAt(p) : backup'[i] = backup[i]
      BY <2>2, <3>5 DEF IInv, TypeOK
    <3>7. \A p \in Path \ {op.path} : Seen(p)' = Seen(p)
      BY <3>2, <3>3, <3>6, SeenFrame
    <3> QED
      BY <1>0, <2>2, <3>1, <3>3, <3>7, EditOfOne
  <2> QED
    BY <1>3, <2>1, <2>2 DEF InstallDisplace, work
<1>4. CASE InstallVerify
  <2>1. UNCHANGED <<disk, handle, Stage, Job>>
    BY <1>4 DEF InstallVerify, StartRecover, Stage, Job, Serving
  <2> QED
    BY <2>1, LocalIsStutter
<1>5. CASE InstallConfirm
  <2>1. CASE Shut
    BY <1>5, <2>1, ShutIsStop DEF InstallConfirm
  <2>2. CASE pc' = "finish" /\ UNCHANGED work
    <3>1. UNCHANGED <<disk, handle, Stage, Job>>
      BY <1>5, <2>2 DEF InstallConfirm, work, Stage, Job, Serving
    <3> QED
      BY <3>1, LocalIsStutter
  <2> QED
    BY <1>5, <2>1, <2>2 DEF InstallConfirm
<1>6. CASE InstallFinish
  <2>1. op.id \in Recorded
    BY <1>6 DEF InstallFinish, IInv, DisplaceInv, Displacing, Unfinished
  <2>2. UNCHANGED <<target, backup, handle, Stage, Job>>
    BY <1>6 DEF InstallFinish, work, Stage, Job, Serving
  <2> QED
    BY <1>6, <2>1, <2>2, SettleIsEdit DEF InstallFinish
<1>7. CASE InstallReturn
  <2>0. op # Idle
    BY <1>7 DEF InstallReturn, IInv, AtRest
  <2>1. CASE Shut
    BY <1>7, <2>1, ShutIsStop DEF InstallReturn
  <2>2. CASE op.restoring = Nobody /\ pc' = "ready" /\ op' = Idle
    <3>1. Stage = "done" /\ Stage' = "up" /\ Job' = Idle
      BY <1>7, <2>0, <2>2 DEF InstallReturn, Stage, Job, Serving
    <3> QED
      BY <1>7, <3>1, DiskFrame DEF InstallReturn, Replacement!Next, Replacement!Answer
  <2>3. CASE op.restoring # Nobody /\ pc' = "resolve" /\ UNCHANGED op
    <3>1. UNCHANGED <<disk, handle, Stage, Job>>
      BY <1>7, <2>3 DEF InstallReturn, Stage, Job, Serving
    <3> QED
      BY <3>1, LocalIsStutter
  <2> QED
    BY <1>7, <2>1, <2>2, <2>3 DEF InstallReturn
<1> QED
  BY <1>1, <1>2, <1>3, <1>4, <1>5, <1>6, <1>7, ReadRefines, PublishRefines
  DEF Installation, InstallStep

\* An answer of the user is an edit of the path it is about.
LEMMA UserRefines ==
  ASSUME IInv, IInv', User
  PROVE  [Replacement!Next]_(Replacement!vars)
<1>0. /\ pc \in {"closed", "cleanup"} => op = Idle
      /\ pc = "resolve" => op.restoring # Nobody /\ op.restoring \in Recorded
  BY DEF IInv, AtRest
<1>1. ASSUME NEW i \in Id, Keep(i)
      PROVE  Replacement!Next
  <2>1. i \in Recorded /\ UNCHANGED <<target, backup, handle, Stage, Job>>
    BY <1>1 DEF Keep, work, Unfinished, Stage, Job, Serving
  <2> QED
    BY <1>1, <2>1, SettleIsEdit DEF Keep
<1>2. ASSUME NEW i \in Id, Restore(i)
      PROVE  [Replacement!Next]_(Replacement!vars)
  <2>1. op'.restoring = i /\ i # Nobody /\ op = Idle
    BY <1>0, <1>2, MarkersAssumption DEF Restore, OpRecord
  <2>2. UNCHANGED <<disk, handle, Stage, Job>>
    BY <1>2, <2>1 DEF Restore, Stage, Job, Serving
  <2> QED
    BY <2>2, LocalIsStutter
<1>3. CASE Resolve
  <2>1. UNCHANGED <<target, backup, handle, Stage, Job>>
    BY <1>0, <1>3 DEF Resolve, Shut, Stage, Job, Serving
  <2> QED
    BY <1>0, <1>3, <2>1, SettleIsEdit DEF Resolve
<1>4. ASSUME NEW i \in Id, CleanupBackup(i)
      PROVE  Replacement!Next
  <2>1. i \in Recorded /\ i \notin Unfinished /\ journal[i].path \in Path
    BY <1>4 DEF CleanupBackup, IInv, TypeOK, Recorded, Journal
  <2>2. UNCHANGED <<target, journal, Stage, Job>>
    BY <1>0, <1>4 DEF CleanupBackup, Stage, Job, Serving
  <2>3. \A p \in Path : PendingAt(p)' = PendingAt(p) /\ i \notin PendingAt(p)
    BY <2>1, <2>2 DEF PendingAt, Unfinished, Recorded
  <2>4. \A p \in Path : \A k \in PendingAt(p) : backup'[k] = backup[k]
    BY <1>4, <2>3 DEF CleanupBackup, IInv, TypeOK
  <2>5. \A p \in Path : Seen(p)' = Seen(p)
    BY <2>2, <2>3, <2>4, SeenFrame
  <2>6. \A p \in Path \ {journal[i].path} : handle'[p] = handle[p]
    BY <1>4 DEF CleanupBackup, IInv, HandleInv
  <2> QED
    BY <2>1, <2>2, <2>5, <2>6, EditOfOne
<1>5. CASE CleanupRecord
  <2>1. cur \in Recorded /\ backup[cur] = Absent /\ pc = "cleanup"
    BY <1>5 DEF CleanupRecord, IInv, AtRest
  <2>2. journal[cur].path \in Path
    BY <2>1 DEF IInv, TypeOK, Recorded, Journal
  <2>3. UNCHANGED <<target, backup, handle, Stage, Job>>
    BY <1>0, <1>5 DEF CleanupRecord, Shut, Stage, Job, Serving
  <2>4. \A k \in Id \ {cur} : journal'[k] = journal[k]
    BY <1>5 DEF CleanupRecord, IInv, TypeOK
  <2>5. journal'[cur] = NoJournal
    BY <1>5, <2>1 DEF CleanupRecord, IInv, TypeOK, Recorded
  <2>6. \A p \in Path \ {journal[cur].path} : PendingAt(p)' = PendingAt(p)
    BY <2>4, <2>5 DEF PendingAt, Unfinished, Recorded
  <2>7. \A p \in Path \ {journal[cur].path} : Seen(p)' = Seen(p)
    BY <2>3, <2>6, SeenFrame
  <2> QED
    BY <2>2, <2>3, <2>7, EditOfOne
<1> QED
  BY <1>1, <1>2, <1>3, <1>4, <1>5 DEF User

-----------------------------------------------------------------------------
\* A Share with no record and a closed store has nothing asked of it.
LEMMA InitRefines == Init => Replacement!Init
<1> SUFFICES ASSUME Init PROVE Replacement!Init
  OBVIOUS
<1>1. IInv
  BY InitInv
<1>2. [p \in Path |-> Seen(p)] \in [Path -> Content \cup {Absent}]
  BY <1>1, SeenType DEF IInv
<1>3. [p \in Path |-> handle[p] # "shut"] = [p \in Path |-> FALSE]
  BY DEF Init
<1>4. Stage = "down" /\ Job = Idle
  BY DEF Init, Stage, Job, Serving
<1> QED
  BY <1>2, <1>3, <1>4 DEF Replacement!Init

\* Every step is a step of the abstract specification or a stutter.
LEMMA NextRefines ==
  IInv /\ IInv' /\ LateInv /\ [Next]_vars => [Replacement!Next]_(Replacement!vars)
<1> SUFFICES ASSUME IInv, IInv', LateInv, [Next]_vars
             PROVE  [Replacement!Next]_(Replacement!vars)
  OBVIOUS
<1>1. CASE Close \/ Crash
  BY <1>1, ShutIsStop DEF Close, Crash
<1>2. CASE UNCHANGED vars
  <2>1. UNCHANGED <<disk, handle, Stage, Job>>
    BY <1>2 DEF vars, work, Stage, Job, Serving
  <2> QED
    BY <2>1, LocalIsStutter
<1> QED
  BY <1>1, <1>2, EditorRefines, RecoveryRefines, InstallationRefines, UserRefines
  DEF Next, Store

(* install_file, with its displacement, its journal, its crashes and its   *)
(* recoveries, is a conditional replacement in one step: whatever a round  *)
(* is told has been installed was put, once, over the version it compared  *)
(* (or over one that some program still had open).                         *)
THEOREM Refinement == Spec => ImplementsReplacement
<1>1. Init => Replacement!Init
  BY InitRefines
<1>2. IInv /\ IInv' /\ LateInv /\ [Next]_vars => [Replacement!Next]_(Replacement!vars)
  BY NextRefines
<1> QED
  BY <1>1, <1>2, Invariance, LateIsOpen, PTL
  DEF Spec, ImplementsReplacement, Replacement!Spec

-----------------------------------------------------------------------------
(* The store on its own.  A file that nobody else touches is in one place: *)
(* at its path, or in the backup of one unfinished record.                 *)
PlaceInv ==
  /\ \A i, k \in Unfinished \ touched :
       journal[i].path = journal[k].path /\ backup[i] # Absent /\ backup[k] # Absent => i = k
  /\ pc = "settle" /\ cur \notin touched /\ backup[cur] # Absent =>
       target[journal[cur].path] # Absent
  /\ pc \in {"confirm", "finish"} /\ op.id \notin touched => target[op.path] # Absent

\* There is no record yet.
LEMMA PlaceInit == Init => PlaceInv
BY DEF Init, PlaceInv, Unfinished, Recorded

\* Settling a record leaves fewer of them.
LEMMA PlaceSettle ==
  ASSUME IInv, PlaceInv, UNCHANGED <<target, backup, touched>>,
         pc' \notin {"settle", "confirm", "finish"},
         NEW i \in Recorded, journal' = [journal EXCEPT ![i] = Settled(@)]
  PROVE  PlaceInv'
<1>1. /\ Unfinished' = Unfinished \ {i}
      /\ \A k \in Recorded : journal'[k].path = journal[k].path
  BY SettleRecord
<1>2. Unfinished \subseteq Recorded
  BY DEF Unfinished
<1> QED
  BY <1>1, <1>2 DEF PlaceInv

\* The editor touches the records of the path it changes.
LEMMA PlaceEditor == IInv /\ PlaceInv /\ Editor => PlaceInv'
<1> SUFFICES ASSUME IInv, PlaceInv, Editor PROVE PlaceInv'
  OBVIOUS
<1> USE DEF disk, work
<1>1. PICK p \in Path :
        \/ \E c \in Content : Save(p, c) \/ WriteInPlace(p, c) \/ WriteDisplaced(p, c)
        \/ Remove(p)
        \/ OpenFile(p)
  BY DEF Editor
<1>2. UNCHANGED <<journal, pc, op, cur>> /\ Unfinished' = Unfinished
  BY <1>1 DEF Save, WriteInPlace, WriteDisplaced, Remove, OpenFile, Unfinished, Recorded
<1>3. touched \subseteq touched'
  BY <1>1 DEF Save, WriteInPlace, WriteDisplaced, Remove, OpenFile
<1>4. \A i \in Unfinished \ touched' : backup'[i] = backup[i]
  <2>1. CASE UNCHANGED backup
    BY <2>1
  <2>2. ASSUME NEW c \in Content, WriteDisplaced(p, c)
        PROVE  \A i \in Unfinished \ touched' : backup'[i] = backup[i]
    BY <2>2 DEF WriteDisplaced, IInv, TypeOK, Unfinished, Recorded
  <2> QED
    BY <1>1, <2>1, <2>2 DEF Save, WriteInPlace, Remove, OpenFile
<1>5. \A i \in Unfinished \ touched' : target'[journal[i].path] = target[journal[i].path]
  <2>1. \A i \in Unfinished : journal[i].path \in Path
    BY DEF IInv, TypeOK, Unfinished, Recorded, Journal
  <2>2. CASE UNCHANGED target
    BY <2>2
  <2>3. CASE /\ touched' = touched \cup PendingAt(p)
             /\ \A q \in Path \ {p} : target'[q] = target[q]
    BY <2>1, <2>3 DEF PendingAt
  <2> QED
    BY <1>1, <2>2, <2>3
    DEF Save, WriteInPlace, WriteDisplaced, Remove, OpenFile, IInv, TypeOK
<1>6. pc = "settle" => cur \in Unfinished
  BY DEF IInv, RecoverInv
<1>7. pc \in {"confirm", "finish"} => op.id \in Unfinished /\ journal[op.id].path = op.path
  BY DEF IInv, DisplaceInv, Displacing
<1> QED
  BY <1>2, <1>3, <1>4, <1>5, <1>6, <1>7 DEF PlaceInv

\* Every step keeps a file in one place.
LEMMA PlaceNext == IInv /\ PlaceInv /\ [Next]_vars => PlaceInv'
<1> SUFFICES ASSUME IInv, PlaceInv, [Next]_vars
             PROVE  PlaceInv'
  OBVIOUS
<1> USE DEF disk, work
<1>0. /\ pc = "settle" => cur \in Recorded
      /\ pc = "finish" => op.id \in Recorded
      /\ pc = "resolve" => op.restoring \in Recorded
      /\ pc = "cleanup" => cur \in Recorded
  BY DEF IInv, TypeOK, AtRest, RecoverInv, DisplaceInv, Unfinished, Recorded, Displacing
<1>1. CASE Editor
  BY <1>1, PlaceEditor
<1>2. CASE \/ Open \/ RecoverDone \/ Close \/ Crash \/ InstallRead \/ InstallVerify \/ InstallReturn
           \/ \E i \in Id : RecoverPick(i) \/ Restore(i)
           \/ \E p \in Path, e \in MaybeContent, n \in Content : Install(p, e, n)
  BY <1>2 DEF Open, RecoverDone, Close, Crash, InstallRead, InstallVerify, InstallReturn,
              RecoverPick, Restore, Install, Shut, StartRecover, PlaceInv, Unfinished, Recorded
<1>3. CASE RecoverPublish
  <2>1. pc' \notin {"settle", "confirm", "finish"}
    BY <1>3 DEF RecoverPublish, Shut
  <2>2. touched \subseteq touched' /\ UNCHANGED <<journal, backup>>
    BY <1>3 DEF RecoverPublish
  <2> QED
    BY <2>1, <2>2 DEF PlaceInv, Unfinished, Recorded
<1>4. CASE RecoverCheck
  <2>1. pc' = "settle" => pc = "check" /\ cur' = cur
    BY <1>4 DEF RecoverCheck, Shut
  <2>2. pc = "check" /\ cur \notin touched /\ backup[cur] # Absent =>
          target[journal[cur].path] # Absent
    BY DEF IInv, RecoverInv
  <2>3. UNCHANGED <<target, backup, journal, touched>> /\ pc' \notin {"confirm", "finish"}
    BY <1>4 DEF RecoverCheck, Shut
  <2> QED
    BY <2>1, <2>2, <2>3 DEF PlaceInv, Unfinished, Recorded
<1>5. CASE RecoverSettle
  BY <1>0, <1>5, PlaceSettle DEF RecoverSettle
<1>6. CASE InstallFinish
  BY <1>0, <1>6, PlaceSettle DEF InstallFinish
<1>7. CASE Resolve
  BY <1>0, <1>7, PlaceSettle DEF Resolve, Shut
<1>8. ASSUME NEW i \in Id, Keep(i)
      PROVE  PlaceInv'
  BY <1>8, PlaceSettle DEF Keep, Unfinished
<1>9. ASSUME NEW i \in Id, InstallRecord(i)
      PROVE  PlaceInv'
  <2>1. backup[i] = Absent /\ UNCHANGED backup
    BY <1>9 DEF InstallRecord, IInv, BackupIsListed, Recorded
  <2>2. \A k \in Id \ {i} : journal'[k] = journal[k] /\ (k \in touched' <=> k \in touched)
    BY <1>9 DEF InstallRecord, IInv, TypeOK
  <2>3. pc' \in {"publish", "displace"}
    BY <1>9 DEF InstallRecord
  <2> QED
    BY <2>1, <2>2, <2>3 DEF PlaceInv, Unfinished, Recorded
<1>10. CASE InstallDisplace
  <2>1. pc' \in {"verify", "closed"} /\ touched \subseteq touched' /\ UNCHANGED journal
    BY <1>10 DEF InstallDisplace, Shut
  <2>2. op.id \in Unfinished /\ journal[op.id].path = op.path
    BY <1>10 DEF InstallDisplace, IInv, DisplaceInv, Displacing
  <2>3. CASE UNCHANGED backup
    BY <2>1, <2>3 DEF PlaceInv, Unfinished, Recorded
  <2>4. CASE /\ touched' = touched \cup (PendingAt(op.path) \ {op.id})
             /\ backup' = [backup EXCEPT ![op.id] = target[op.path]]
    BY <2>1, <2>2, <2>4 DEF PlaceInv, IInv, TypeOK, PendingAt, Unfinished, Recorded
  <2> QED
    BY <1>10, <2>3, <2>4 DEF InstallDisplace
<1>11. CASE InstallPublish
  <2>1. UNCHANGED <<backup, journal, op>> /\ touched \subseteq touched'
    BY <1>11 DEF InstallPublish
  <2>2. pc' = "confirm" => target'[op.path] # Absent
    BY <1>11, MarkersAssumption
    DEF InstallPublish, StartRecover, IInv, TypeOK, AtRest, Displacing, Operation
  <2>3. pc' \in {"confirm", "recover"}
    BY <1>11 DEF InstallPublish, StartRecover
  <2> QED
    BY <2>1, <2>2, <2>3 DEF PlaceInv, Unfinished, Recorded
<1>12. CASE InstallConfirm
  BY <1>12 DEF InstallConfirm, Shut, PlaceInv, Unfinished, Recorded
<1>13. ASSUME NEW i \in Id, CleanupBackup(i)
       PROVE  PlaceInv'
  BY <1>13 DEF CleanupBackup, PlaceInv, IInv, TypeOK, Unfinished, Recorded
<1>14. CASE CleanupRecord
  BY <1>0, <1>14 DEF CleanupRecord, Shut, PlaceInv, IInv, TypeOK, Unfinished, Recorded
<1>15. CASE UNCHANGED vars
  BY <1>15 DEF vars, PlaceInv, Unfinished, Recorded
<1> QED
  BY <1>1, <1>2, <1>3, <1>4, <1>5, <1>6, <1>7, <1>8, <1>9, <1>10, <1>11, <1>12, <1>13, <1>14, <1>15
  DEF Next, Store, Recovery, Installation, InstallStep, User

\* One place per file, whatever happens.
THEOREM OnePlace == Spec => []PlaceInv
<1>1. Init => PlaceInv
  BY PlaceInit
<1>2. IInv /\ PlaceInv /\ [Next]_vars => PlaceInv'
  BY PlaceNext
<1> QED
  BY <1>1, <1>2, Invariance, PTL DEF Spec

\* Settling the record of a file that is at its path moves nothing.
LEMMA SettleKeepsSeen ==
  ASSUME IInv, UNCHANGED <<target, backup>>,
         NEW i \in Recorded, journal' = [journal EXCEPT ![i] = Settled(@)],
         target[journal[i].path] # Absent \/ backup[i] = Absent
  PROVE  \A p \in Path : Seen(p)' = Seen(p)
<1>1. /\ Unfinished' = Unfinished \ {i}
      /\ \A k \in Recorded : journal'[k].path = journal[k].path
  BY SettleRecord
<1>2. Unfinished \subseteq Recorded
  BY DEF Unfinished
<1>3. \A p \in Path : PendingAt(p)' = PendingAt(p) \ {i}
  BY <1>1, <1>2 DEF PendingAt
<1>4. \A p \in Path : p # journal[i].path => i \notin PendingAt(p)
  BY DEF PendingAt
<1>5. ASSUME NEW p \in Path
      PROVE  Seen(p)' = Seen(p)
  <2>1. CASE target[p] # Absent
    BY <2>1 DEF Seen
  <2>2. CASE target[p] = Absent
    <3>1. Displaced(p)' = Displaced(p)
      BY <1>3, <1>4, <2>2 DEF Displaced
    <3> QED
      BY <3>1 DEF Seen
  <2> QED
    BY <2>1, <2>2
<1> QED
  BY <1>5

\* recover puts a file back where it was.
LEMMA RecoveryKeepsSeen ==
  ASSUME IInv, PlaceInv, Unfinished \cap touched = {}, Recovery
  PROVE  \A p \in Path : Seen(p)' = Seen(p)
<1>1. CASE UNCHANGED disk
  BY <1>1, DiskKeepsSeen
<1>2. CASE RecoverPublish /\ target[journal[cur].path] = Absent
  <2>1. cur \in Unfinished /\ cur \notin touched /\ cur \in Id
    BY <1>2 DEF RecoverPublish, IInv, RecoverInv, Unfinished, Recorded
  <2>2. PICK q \in Path : q = journal[cur].path
    BY <2>1 DEF IInv, TypeOK, Unfinished, Recorded, Journal
  <2>3. copy = journal[cur].old /\ copy # Absent /\ backup[cur] # Absent
    BY <1>2, <2>1 DEF RecoverPublish, IInv, RecoverInv
  <2>4. backup[cur] = copy
    BY <2>1, <2>3 DEF IInv, ReplaceIsAtomic
  <2>5. Displaced(q) = {cur}
    BY <2>1, <2>3, <2>2 DEF PlaceInv, Displaced, PendingAt
  <2>6. Seen(q) = copy
    BY <1>2, <2>3, <2>4, <2>5, <2>2 DEF Seen
  <2>7. target' = [target EXCEPT ![q] = copy] /\ UNCHANGED <<backup, journal>>
    BY <1>2, <2>2 DEF RecoverPublish, Shut, disk
  <2>8. Seen(q)' = copy
    BY <2>3, <2>7, <2>2 DEF Seen, IInv, TypeOK
  <2>9. \A p \in Path \ {q} : target'[p] = target[p] /\ PendingAt(p)' = PendingAt(p)
    BY <2>7 DEF IInv, TypeOK, PendingAt, Unfinished, Recorded
  <2>10. \A p \in Path \ {q} : Seen(p)' = Seen(p)
    BY <2>7, <2>9, SeenFrame
  <2> QED
    BY <2>6, <2>8, <2>10
<1>3. CASE RecoverSettle
  <2>1. cur \in Unfinished /\ cur \notin touched /\ cur \in Recorded
    BY <1>3 DEF RecoverSettle, IInv, RecoverInv, Unfinished
  <2>2. target[journal[cur].path] # Absent \/ backup[cur] = Absent
    BY <1>3, <2>1 DEF RecoverSettle, PlaceInv
  <2> QED
    BY <1>3, <2>1, <2>2, SettleKeepsSeen DEF RecoverSettle
<1> QED
  BY <1>1, <1>2, <1>3
  DEF Recovery, Open, RecoverPick, RecoverPublish, RecoverCheck, RecoverDone, disk

\* Until a round's request is applied, its steps leave the file in place.
LEMMA InstallationKeepsSeen ==
  ASSUME IInv, PlaceInv, LateInv, op = Idle \/ Serving, Unfinished \cap touched = {},
         Installation
  PROVE  Replacement!Apply \/ \A p \in Path : Seen(p)' = Seen(p)
<1>1. CASE UNCHANGED disk
  BY <1>1, DiskKeepsSeen
<1>2. ASSUME NEW i \in Id, InstallRecord(i)
      PROVE  \A p \in Path : Seen(p)' = Seen(p)
  <2>1. backup[i] = Absent /\ UNCHANGED <<target, backup>>
    BY <1>2 DEF InstallRecord, IInv, BackupIsListed, Recorded
  <2>2. \A k \in Id \ {i} : journal'[k] = journal[k]
    BY <1>2 DEF InstallRecord, IInv, TypeOK
  <2>3. ASSUME NEW p \in Path
        PROVE  Seen(p)' = Seen(p)
    <3>1. Displaced(p)' = Displaced(p)
      BY <2>1, <2>2 DEF Displaced, PendingAt, Unfinished, Recorded
    <3> QED
      BY <2>1, <3>1 DEF Seen
  <2> QED
    BY <2>3
<1>3. CASE InstallDisplace
  <2>1. /\ op # Idle /\ op.path \in Path /\ op.id \in Unfinished
        /\ journal[op.id].path = op.path
    BY <1>3 DEF InstallDisplace, IInv, TypeOK, AtRest, DisplaceInv, Displacing, Operation
  <2>2. PICK q \in Path, i \in Id : q = op.path /\ i = op.id
    BY <2>1 DEF Unfinished, Recorded
  <2>3. Unfinished = {i}
    BY <2>1, <2>2 DEF IInv, SettledBeforeUse, Serving, Unfinished, Recorded
  <2>4. CASE target[q] = Absent
    BY <1>1, <1>3, <2>2, <2>4 DEF InstallDisplace
  <2>5. CASE target[q] # Absent
    <3>1. /\ UNCHANGED journal
          /\ backup' = [backup EXCEPT ![i] = target[q]]
          /\ target' = [target EXCEPT ![q] = Absent]
      BY <1>3, <2>2, <2>5 DEF InstallDisplace
    <3>2. Unfinished' = {i} /\ \A p \in Path : PendingAt(p)' = PendingAt(p)
      BY <2>3, <3>1 DEF PendingAt, Unfinished, Recorded
    <3>3. backup'[i] = target[q] /\ target'[q] = Absent
      BY <2>1, <2>2, <2>3, <3>1 DEF IInv, TypeOK
    <3>4. PendingAt(q)' = {i}
      BY <2>1, <2>2, <2>3, <3>2 DEF PendingAt
    <3>5. Displaced(q)' = {i}
      BY <2>5, <3>3, <3>4 DEF Displaced
    <3>6. Seen(q)' = backup'[i]
      BY <3>3, <3>5 DEF Seen
    <3>7. Seen(q) = target[q]
      BY <2>5 DEF Seen
    <3>8. \A p \in Path \ {q} :
            target'[p] = target[p] /\ \A k \in PendingAt(p) : backup'[k] = backup[k]
      BY <2>1, <2>2, <2>3, <3>1 DEF IInv, TypeOK, PendingAt
    <3>9. \A p \in Path \ {q} : Seen(p)' = Seen(p)
      BY <3>2, <3>8, SeenFrame
    <3> QED
      BY <3>3, <3>6, <3>7, <3>9
  <2> QED
    BY <2>4, <2>5
<1>4. CASE InstallPublish
  <2>1. op # Idle
    BY <1>4 DEF InstallPublish, IInv, AtRest, Displacing
  <2>2. CASE target[op.path] = Absent
    BY <1>4, <2>1, <2>2, PublishApplies
  <2>3. CASE target[op.path] # Absent
    BY <1>1, <1>4, <2>3 DEF InstallPublish, disk
  <2> QED
    BY <2>2, <2>3
<1>5. CASE InstallFinish
  <2>1. op.id \in Unfinished /\ op.id \in Recorded /\ journal[op.id].path = op.path
    BY <1>5 DEF InstallFinish, IInv, DisplaceInv, Displacing, Unfinished
  <2>2. target[op.path] # Absent
    BY <1>5, <2>1 DEF InstallFinish, PlaceInv
  <2> QED
    BY <1>5, <2>1, <2>2, SettleKeepsSeen DEF InstallFinish
<1> QED
  BY <1>1, <1>2, <1>3, <1>4, <1>5
  DEF Installation, InstallStep, Install, InstallRead, InstallVerify, InstallConfirm,
      InstallReturn, disk

(* What counts at a path is changed by the store only where a request      *)
(* takes effect: neither a displacement, nor a crash, nor what recover     *)
(* does later is ever visible as another version of a file that nobody     *)
(* else touches.                                                           *)
THEOREM OnlyApplies == Spec => StoreOnlyApplies
<1>1. ASSUME IInv, PlaceInv, LateInv, Store, op = Idle \/ Serving, Unfinished \cap touched = {}
      PROVE  Replacement!Apply \/ \A p \in Path : Seen(p)' = Seen(p)
  <2>1. CASE Close \/ Crash
    BY <2>1, DiskKeepsSeen DEF Close, Crash
  <2> QED
    BY <1>1, <2>1, RecoveryKeepsSeen, InstallationKeepsSeen DEF Store
<1>2. IInv /\ PlaceInv /\ LateInv /\ [Next]_vars =>
        [Store /\ (op = Idle \/ Serving) /\ Unfinished \cap touched = {} =>
           Replacement!Apply \/ \A p \in Path : Seen(p)' = Seen(p)]_vars
  BY <1>1
<1> QED
  BY <1>2, Invariance, OnePlace, LateIsOpen, PTL DEF Spec, StoreOnlyApplies

=============================================================================
