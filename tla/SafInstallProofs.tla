--------------------------- MODULE SafInstallProofs ---------------------------
(***************************************************************************)
(* Proofs about SafInstall for any set of paths, contents, fragments and   *)
(* identifiers.  One inductive invariant says, beside the properties, what *)
(* the running installation knows of its record and its document.          *)
(***************************************************************************)
EXTENDS SafInstall, TLAPS

Recorded_pc == {"recheck", "withdraw", "create", "write", "writing", "verify", "finish"}
Installing == {"compare", "replay", "copy", "record"} \cup Recorded_pc

\* The locals belong to the installation that runs, if one runs.
AtRest ==
  /\ pc \in {"closed", "idle", "recover", "settle", "round"} => op = Idle
  /\ pc \in Installing \cup {"resolve"} => op # Idle
  /\ pc \in {"compare", "replay", "copy", "record"} => op.id = Nobody
  /\ pc = "resolve" => op.restoring # Nobody
  /\ op # Idle /\ op.restoring # Nobody =>
       /\ op.restoring \in Recorded
       /\ journal[op.restoring].path = op.path
       /\ journal[op.restoring].old = op.new
  /\ begun \subseteq Recorded

\* Its record is unfinished and says what it was asked.
OwnRecord ==
  /\ pc \in Recorded_pc =>
       /\ op.id \in Unfinished
       /\ journal[op.id].path = op.path
       /\ journal[op.id].old = op.expected
       /\ journal[op.id].new = op.new
  /\ pc \in {"copy", "record"} \cup Recorded_pc => op.expected # op.new
  /\ pc = "create" => op.expected = Absent
  /\ pc \in {"recheck", "withdraw", "create"} => op.id \notin begun
  /\ pc = "write" /\ op.expected # Absent => op.id \notin begun
  /\ pc \in {"writing", "verify"} => op.id \in begun

\* recoverPending still owes exactly the unfinished records.
RecoverInv ==
  /\ pc \in {"recover", "settle"} => todo = Unfinished
  /\ pc = "settle" =>
       /\ cur \in Unfinished
       /\ torn[journal[cur].path] =>
            file[journal[cur].path] \in {journal[cur].old, journal[cur].new}

\* A torn file has a record whose write has begun and that is not settled.
TornInv ==
  \A p \in Path : torn[p] =>
    \E i \in PendingAt(p) \cap begun : file[p] \notin {journal[i].old, journal[i].new}

\* Where a torn file may be while an installation runs.
WholeInv ==
  /\ FullRoundReadsWhole
  /\ full /\ op # Idle /\ op.restoring = Nobody =>
       \A p \in Path : torn[p] => p = op.path /\ op.id \in begun
  /\ pc \in {"create", "write", "writing", "verify"} /\ torn[op.path] =>
       file[op.path] # op.new
  /\ pc = "finish" /\ torn[op.path] => op.id \notin begun /\ file[op.path] = op.new
  /\ pc = "resolve" /\ torn[op.path] => file[op.path] = op.new

\* A record before its write says what is at its path.
UndisturbedSettles ==
  \A i \in Unfinished \ (touched \cup begun) :
    file[journal[i].path] \in {journal[i].old, journal[i].new}

\* What the last comparison saw is there until somebody else changes it.
TruncateInv ==
  /\ TruncatesOnlyExpected
  /\ pc \in {"create", "write"} /\ ~edited =>
       IF op.id \in begun THEN over = op.expected ELSE file[op.path] = op.expected
  /\ pc \in {"write", "writing"} /\ ~edited /\ op.id \in begun =>
       torn[op.path] \/ file[op.path] \in {op.expected, op.new}

IInv ==
  /\ TypeOK
  /\ AtRest
  /\ OwnRecord
  /\ RecoverInv
  /\ TornInv
  /\ WholeInv
  /\ UndisturbedSettles
  /\ BlockedOnlyIfDisturbed
  /\ TruncateInv

-----------------------------------------------------------------------------
(* Every step below is about what the invariant's parts say, so they are   *)
(* expanded throughout; the actions are cited where they are used.         *)
USE SafAssumption
    DEF IInv, TypeOK, AtRest, OwnRecord, RecoverInv, TornInv, WholeInv,
        UndisturbedSettles, BlockedOnlyIfDisturbed, TruncateInv,
        FullRoundReadsWhole, TruncatesOnlyExpected,
        Recorded, Unfinished, PendingAt, MaybeContent, Journal, Operation,
        disk, work, ghosts, vars, Recorded_pc, Installing

\* Nothing is recorded or torn to begin with.
LEMMA InitInv == Init => IInv
BY DEF Init

(* Writing a record back as finished changes neither what is recorded nor  *)
(* what the record says, and takes exactly that record off the unfinished. *)
LEMMA SettleRecord ==
  ASSUME IInv, NEW i \in Recorded, journal' = [journal EXCEPT ![i] = Settled(@)]
  PROVE  /\ Recorded' = Recorded
         /\ Unfinished' = Unfinished \ {i}
         /\ journal' \in [Id -> Journal \cup {NoJournal}]
         /\ \A k \in Recorded : /\ journal'[k].path = journal[k].path
                               /\ journal'[k].old = journal[k].old
                               /\ journal'[k].new = journal[k].new
<1>1. journal[i] \in Journal
  OBVIOUS
<1>2. Settled(journal[i]) \in Journal
  BY <1>1 DEF Settled
<1>3. /\ journal' \in [Id -> Journal \cup {NoJournal}]
      /\ journal'[i] = Settled(journal[i])
      /\ \A k \in Id \ {i} : journal'[k] = journal[k]
  BY <1>1, <1>2
<1>4. /\ Settled(journal[i]).finished
      /\ Settled(journal[i]).path = journal[i].path
      /\ Settled(journal[i]).old = journal[i].old
      /\ Settled(journal[i]).new = journal[i].new
  BY DEF Settled
<1>5. Recorded' = Recorded
  BY <1>1, <1>2, <1>3
<1> QED
  BY <1>2, <1>3, <1>4, <1>5

\* Recovery settles a record that explains its document.
LEMMA RecoverSettleInv ==
  ASSUME IInv, RecoverSettle
  PROVE  IInv'
<1>1. cur \in Recorded /\ cur \in Id
  BY DEF RecoverSettle
<1>2. journal' = [journal EXCEPT ![cur] = Settled(@)]
  BY DEF RecoverSettle
<1>3. /\ Recorded' = Recorded
      /\ Unfinished' = Unfinished \ {cur}
      /\ journal' \in [Id -> Journal \cup {NoJournal}]
      /\ \A k \in Recorded : /\ journal'[k].path = journal[k].path
                            /\ journal'[k].old = journal[k].old
                            /\ journal'[k].new = journal[k].new
  BY <1>1, <1>2, SettleRecord
<1>4. Recorded \subseteq Id /\ Unfinished \subseteq Recorded
  OBVIOUS
<1> HIDE DEF Recorded, Unfinished
<1>11. TypeOK'
  BY <1>1, <1>3, <1>4 DEF RecoverSettle
<1>12. AtRest'
  BY <1>1, <1>3, <1>4 DEF RecoverSettle
<1>13. OwnRecord'
  BY <1>1, <1>3, <1>4 DEF RecoverSettle
<1>14. RecoverInv'
  BY <1>1, <1>3, <1>4 DEF RecoverSettle
<1>15. TornInv'
  BY <1>1, <1>3, <1>4 DEF RecoverSettle
<1>16. WholeInv'
  BY <1>1, <1>3, <1>4 DEF RecoverSettle
<1>17. UndisturbedSettles'
  BY <1>1, <1>3, <1>4 DEF RecoverSettle
<1>18. BlockedOnlyIfDisturbed'
  BY <1>1, <1>3, <1>4 DEF RecoverSettle
<1>19. TruncateInv'
  BY <1>1, <1>3, <1>4 DEF RecoverSettle
<1> QED
  BY <1>11, <1>12, <1>13, <1>14, <1>15, <1>16, <1>17, <1>18, <1>19

\* A refused installation settles its own record.
LEMMA InstallWithdrawInv ==
  ASSUME IInv, InstallWithdraw
  PROVE  IInv'
<1>1. op.id \in Recorded /\ op.id \in Id
  BY DEF InstallWithdraw
<1>2. journal' = [journal EXCEPT ![op.id] = Settled(@)]
  BY DEF InstallWithdraw
<1>3. /\ Recorded' = Recorded
      /\ Unfinished' = Unfinished \ {op.id}
      /\ journal' \in [Id -> Journal \cup {NoJournal}]
      /\ \A k \in Recorded : /\ journal'[k].path = journal[k].path
                            /\ journal'[k].old = journal[k].old
                            /\ journal'[k].new = journal[k].new
  BY <1>1, <1>2, SettleRecord
<1>4. Recorded \subseteq Id /\ Unfinished \subseteq Recorded
  OBVIOUS
<1> HIDE DEF Recorded, Unfinished
<1>11. TypeOK'
  BY <1>1, <1>3, <1>4 DEF InstallWithdraw, Throw, Rest
<1>12. AtRest'
  BY <1>1, <1>3, <1>4 DEF InstallWithdraw, Throw, Rest
<1>13. OwnRecord'
  BY <1>1, <1>3, <1>4 DEF InstallWithdraw, Throw, Rest
<1>14. RecoverInv'
  BY <1>1, <1>3, <1>4 DEF InstallWithdraw, Throw, Rest
<1>15. TornInv'
  BY <1>1, <1>3, <1>4 DEF InstallWithdraw, Throw, Rest
<1>16. WholeInv'
  BY <1>1, <1>3, <1>4 DEF InstallWithdraw, Throw, Rest
<1>17. UndisturbedSettles'
  BY <1>1, <1>3, <1>4 DEF InstallWithdraw, Throw, Rest
<1>18. BlockedOnlyIfDisturbed'
  BY <1>1, <1>3, <1>4 DEF InstallWithdraw, Throw, Rest
<1>19. TruncateInv'
  BY <1>1, <1>3, <1>4 DEF InstallWithdraw, Throw, Rest
<1> QED
  BY <1>11, <1>12, <1>13, <1>14, <1>15, <1>16, <1>17, <1>18, <1>19

\* An installation ends by settling its own record.
LEMMA InstallFinishInv ==
  ASSUME IInv, InstallFinish
  PROVE  IInv'
<1>1. op.id \in Recorded /\ op.id \in Id
  BY DEF InstallFinish
<1>2. journal' = [journal EXCEPT ![op.id] = Settled(@)]
  BY DEF InstallFinish
<1>3. /\ Recorded' = Recorded
      /\ Unfinished' = Unfinished \ {op.id}
      /\ journal' \in [Id -> Journal \cup {NoJournal}]
      /\ \A k \in Recorded : /\ journal'[k].path = journal[k].path
                            /\ journal'[k].old = journal[k].old
                            /\ journal'[k].new = journal[k].new
  BY <1>1, <1>2, SettleRecord
<1>4. Recorded \subseteq Id /\ Unfinished \subseteq Recorded
  OBVIOUS
<1> HIDE DEF Recorded, Unfinished
<1>11. TypeOK'
  BY <1>1, <1>3, <1>4 DEF InstallFinish, Answer, Rest
<1>12. AtRest'
  BY <1>1, <1>3, <1>4 DEF InstallFinish, Answer, Rest
<1>13. OwnRecord'
  BY <1>1, <1>3, <1>4 DEF InstallFinish, Answer, Rest
<1>14. RecoverInv'
  BY <1>1, <1>3, <1>4 DEF InstallFinish, Answer, Rest
<1>15. TornInv'
  BY <1>1, <1>3, <1>4 DEF InstallFinish, Answer, Rest
<1>16. WholeInv'
  BY <1>1, <1>3, <1>4 DEF InstallFinish, Answer, Rest
<1>17. UndisturbedSettles'
  BY <1>1, <1>3, <1>4 DEF InstallFinish, Answer, Rest
<1>18. BlockedOnlyIfDisturbed'
  BY <1>1, <1>3, <1>4 DEF InstallFinish, Answer, Rest
<1>19. TruncateInv'
  BY <1>1, <1>3, <1>4 DEF InstallFinish, Answer, Rest
<1> QED
  BY <1>11, <1>12, <1>13, <1>14, <1>15, <1>16, <1>17, <1>18, <1>19

\* The user's "keep" settles a record and adopts what is at its path.
LEMMA KeepInv ==
  ASSUME IInv, NEW i \in Id, Keep(i)
  PROVE  IInv'
<1>1. i \in Recorded /\ i \in Id
  BY DEF Keep
<1>2. journal' = [journal EXCEPT ![i] = Settled(@)]
  BY DEF Keep
<1>3. /\ Recorded' = Recorded
      /\ Unfinished' = Unfinished \ {i}
      /\ journal' \in [Id -> Journal \cup {NoJournal}]
      /\ \A k \in Recorded : /\ journal'[k].path = journal[k].path
                            /\ journal'[k].old = journal[k].old
                            /\ journal'[k].new = journal[k].new
  BY <1>1, <1>2, SettleRecord
<1>4. Recorded \subseteq Id /\ Unfinished \subseteq Recorded
  OBVIOUS
<1> HIDE DEF Recorded, Unfinished
<1>11. TypeOK'
  BY <1>1, <1>3, <1>4 DEF Keep
<1>12. AtRest'
  BY <1>1, <1>3, <1>4 DEF Keep
<1>13. OwnRecord'
  BY <1>1, <1>3, <1>4 DEF Keep
<1>14. RecoverInv'
  BY <1>1, <1>3, <1>4 DEF Keep
<1>15. TornInv'
  BY <1>1, <1>3, <1>4 DEF Keep
<1>16. WholeInv'
  BY <1>1, <1>3, <1>4 DEF Keep
<1>17. UndisturbedSettles'
  BY <1>1, <1>3, <1>4 DEF Keep
<1>18. BlockedOnlyIfDisturbed'
  BY <1>1, <1>3, <1>4 DEF Keep
<1>19. TruncateInv'
  BY <1>1, <1>3, <1>4 DEF Keep
<1> QED
  BY <1>11, <1>12, <1>13, <1>14, <1>15, <1>16, <1>17, <1>18, <1>19

\* A restore ends by settling the record that it answered.
LEMMA ResolveInv ==
  ASSUME IInv, Resolve
  PROVE  IInv'
<1>1. op.restoring \in Recorded /\ op.restoring \in Id
  BY DEF Resolve
<1>2. journal' = [journal EXCEPT ![op.restoring] = Settled(@)]
  BY DEF Resolve
<1>3. /\ Recorded' = Recorded
      /\ Unfinished' = Unfinished \ {op.restoring}
      /\ journal' \in [Id -> Journal \cup {NoJournal}]
      /\ \A k \in Recorded : /\ journal'[k].path = journal[k].path
                            /\ journal'[k].old = journal[k].old
                            /\ journal'[k].new = journal[k].new
  BY <1>1, <1>2, SettleRecord
<1>4. Recorded \subseteq Id /\ Unfinished \subseteq Recorded
  OBVIOUS
<1> HIDE DEF Recorded, Unfinished
<1>11. TypeOK'
  BY <1>1, <1>3, <1>4 DEF Resolve, Rest
<1>12. AtRest'
  BY <1>1, <1>3, <1>4 DEF Resolve, Rest
<1>13. OwnRecord'
  BY <1>1, <1>3, <1>4 DEF Resolve, Rest
<1>14. RecoverInv'
  BY <1>1, <1>3, <1>4 DEF Resolve, Rest
<1>15. TornInv'
  BY <1>1, <1>3, <1>4 DEF Resolve, Rest
<1>16. WholeInv'
  BY <1>1, <1>3, <1>4 DEF Resolve, Rest
<1>17. UndisturbedSettles'
  BY <1>1, <1>3, <1>4 DEF Resolve, Rest
<1>18. BlockedOnlyIfDisturbed'
  BY <1>1, <1>3, <1>4 DEF Resolve, Rest
<1>19. TruncateInv'
  BY <1>1, <1>3, <1>4 DEF Resolve, Rest
<1> QED
  BY <1>11, <1>12, <1>13, <1>14, <1>15, <1>16, <1>17, <1>18, <1>19

\* Another app replaces a document with one of its own.
LEMMA EditorInv ==
  ASSUME IInv, NEW p \in Path, NEW c \in MaybeContent, Save(p, c)
  PROVE  IInv'
<1>11. TypeOK'
  BY DEF Save
<1>12. AtRest'
  BY DEF Save
<1>13. OwnRecord'
  BY DEF Save
<1>14. RecoverInv'
  BY DEF Save
<1>15. TornInv'
  BY DEF Save
<1>16. WholeInv'
  BY DEF Save
<1>17. UndisturbedSettles'
  BY DEF Save
<1>18. BlockedOnlyIfDisturbed'
  BY DEF Save
<1>19. TruncateInv'
  <2>1. CASE pc \in {"create", "write", "writing"} /\ op.path = p
    BY <2>1 DEF Save
  <2>2. CASE pc \in {"create", "write", "writing"} /\ op.path # p
    <3>1. op.path \in Path
      BY <2>2
    <3>2. file'[op.path] = file[op.path] /\ torn'[op.path] = torn[op.path]
      BY <2>2, <3>1 DEF Save
    <3>3. edited' = edited
      BY <2>2 DEF Save
    <3> QED
      BY <2>2, <3>2, <3>3 DEF Save
  <2>3. CASE pc \notin {"create", "write", "writing"}
    BY <2>3 DEF Save
  <2> QED
    BY <2>1, <2>2, <2>3
<1> QED
  BY <1>11, <1>12, <1>13, <1>14, <1>15, <1>16, <1>17, <1>18, <1>19

\* A session starts.
LEMMA StartServiceInv ==
  ASSUME IInv, StartService
  PROVE  IInv'
<1>11. TypeOK'
  BY DEF StartService
<1>12. AtRest'
  BY DEF StartService
<1>13. OwnRecord'
  BY DEF StartService
<1>14. RecoverInv'
  BY DEF StartService
<1>15. TornInv'
  BY DEF StartService
<1>16. WholeInv'
  BY DEF StartService
<1>17. UndisturbedSettles'
  BY DEF StartService
<1>18. BlockedOnlyIfDisturbed'
  BY DEF StartService
<1>19. TruncateInv'
  BY DEF StartService
<1> QED
  BY <1>11, <1>12, <1>13, <1>14, <1>15, <1>16, <1>17, <1>18, <1>19

\* The service ends, or is killed between two steps.
LEMMA StopServiceInv ==
  ASSUME IInv, StopService
  PROVE  IInv'
<1>11. TypeOK'
  BY DEF StopService, Rest
<1>12. AtRest'
  BY DEF StopService, Rest
<1>13. OwnRecord'
  BY DEF StopService, Rest
<1>14. RecoverInv'
  BY DEF StopService, Rest
<1>15. TornInv'
  BY DEF StopService, Rest
<1>16. WholeInv'
  BY DEF StopService, Rest
<1>17. UndisturbedSettles'
  BY DEF StopService, Rest
<1>18. BlockedOnlyIfDisturbed'
  BY DEF StopService, Rest
<1>19. TruncateInv'
  BY DEF StopService, Rest
<1> QED
  BY <1>11, <1>12, <1>13, <1>14, <1>15, <1>16, <1>17, <1>18, <1>19

\* A step fails.
LEMMA FailInv ==
  ASSUME IInv, Fail
  PROVE  IInv'
<1>11. TypeOK'
  BY DEF Fail, Throw, Rest
<1>12. AtRest'
  BY DEF Fail, Throw, Rest
<1>13. OwnRecord'
  BY DEF Fail, Throw, Rest
<1>14. RecoverInv'
  BY DEF Fail, Throw, Rest
<1>15. TornInv'
  BY DEF Fail, Throw, Rest
<1>16. WholeInv'
  BY DEF Fail, Throw, Rest
<1>17. UndisturbedSettles'
  BY DEF Fail, Throw, Rest
<1>18. BlockedOnlyIfDisturbed'
  BY DEF Fail, Throw, Rest
<1>19. TruncateInv'
  BY DEF Fail, Throw, Rest
<1> QED
  BY <1>11, <1>12, <1>13, <1>14, <1>15, <1>16, <1>17, <1>18, <1>19

\* A full scan begins.
LEMMA FullScanInv ==
  ASSUME IInv, FullScan
  PROVE  IInv'
<1>11. TypeOK'
  BY DEF FullScan
<1>12. AtRest'
  BY DEF FullScan
<1>13. OwnRecord'
  BY DEF FullScan
<1>14. RecoverInv'
  BY DEF FullScan
<1>15. TornInv'
  BY DEF FullScan
<1>16. WholeInv'
  BY DEF FullScan
<1>17. UndisturbedSettles'
  BY DEF FullScan
<1>18. BlockedOnlyIfDisturbed'
  BY DEF FullScan
<1>19. TruncateInv'
  BY DEF FullScan
<1> QED
  BY <1>11, <1>12, <1>13, <1>14, <1>15, <1>16, <1>17, <1>18, <1>19

\* Recovery looks at one record.
LEMMA RecoverCheckInv ==
  ASSUME IInv, NEW i \in Id, RecoverCheck(i)
  PROVE  IInv'
<1>11. TypeOK'
  BY DEF RecoverCheck, Throw, Rest
<1>12. AtRest'
  BY DEF RecoverCheck, Throw, Rest
<1>13. OwnRecord'
  BY DEF RecoverCheck, Throw, Rest
<1>14. RecoverInv'
  BY DEF RecoverCheck, Throw, Rest
<1>15. TornInv'
  BY DEF RecoverCheck, Throw, Rest
<1>16. WholeInv'
  BY DEF RecoverCheck, Throw, Rest
<1>17. UndisturbedSettles'
  BY DEF RecoverCheck, Throw, Rest
<1>18. BlockedOnlyIfDisturbed'
  BY DEF RecoverCheck, Throw, Rest
<1>19. TruncateInv'
  BY DEF RecoverCheck, Throw, Rest
<1> QED
  BY <1>11, <1>12, <1>13, <1>14, <1>15, <1>16, <1>17, <1>18, <1>19

\* Recovery owes no record: no torn file is left.
LEMMA RecoverDoneInv ==
  ASSUME IInv, RecoverDone
  PROVE  IInv'
<1>11. TypeOK'
  BY DEF RecoverDone
<1>12. AtRest'
  BY DEF RecoverDone
<1>13. OwnRecord'
  BY DEF RecoverDone
<1>14. RecoverInv'
  BY DEF RecoverDone
<1>15. TornInv'
  BY DEF RecoverDone
<1>16. WholeInv'
  BY DEF RecoverDone
<1>17. UndisturbedSettles'
  BY DEF RecoverDone
<1>18. BlockedOnlyIfDisturbed'
  BY DEF RecoverDone
<1>19. TruncateInv'
  BY DEF RecoverDone
<1> QED
  BY <1>11, <1>12, <1>13, <1>14, <1>15, <1>16, <1>17, <1>18, <1>19

\* The hash stream ends.
LEMMA StreamEndInv ==
  ASSUME IInv, StreamEnd
  PROVE  IInv'
<1>11. TypeOK'
  BY DEF StreamEnd
<1>12. AtRest'
  BY DEF StreamEnd
<1>13. OwnRecord'
  BY DEF StreamEnd
<1>14. RecoverInv'
  BY DEF StreamEnd
<1>15. TornInv'
  BY DEF StreamEnd
<1>16. WholeInv'
  BY DEF StreamEnd
<1>17. UndisturbedSettles'
  BY DEF StreamEnd
<1>18. BlockedOnlyIfDisturbed'
  BY DEF StreamEnd
<1>19. TruncateInv'
  BY DEF StreamEnd
<1> QED
  BY <1>11, <1>12, <1>13, <1>14, <1>15, <1>16, <1>17, <1>18, <1>19

\* A delta scan.
LEMMA DeltaScanInv ==
  ASSUME IInv, DeltaScan
  PROVE  IInv'
<1>11. TypeOK'
  BY DEF DeltaScan
<1>12. AtRest'
  BY DEF DeltaScan
<1>13. OwnRecord'
  BY DEF DeltaScan
<1>14. RecoverInv'
  BY DEF DeltaScan
<1>15. TornInv'
  BY DEF DeltaScan
<1>16. WholeInv'
  BY DEF DeltaScan
<1>17. UndisturbedSettles'
  BY DEF DeltaScan
<1>18. BlockedOnlyIfDisturbed'
  BY DEF DeltaScan
<1>19. TruncateInv'
  BY DEF DeltaScan
<1> QED
  BY <1>11, <1>12, <1>13, <1>14, <1>15, <1>16, <1>17, <1>18, <1>19

\* A round ends.
LEMMA DoneInv ==
  ASSUME IInv, Done
  PROVE  IInv'
<1>11. TypeOK'
  BY DEF Done
<1>12. AtRest'
  BY DEF Done
<1>13. OwnRecord'
  BY DEF Done
<1>14. RecoverInv'
  BY DEF Done
<1>15. TornInv'
  BY DEF Done
<1>16. WholeInv'
  BY DEF Done
<1>17. UndisturbedSettles'
  BY DEF Done
<1>18. BlockedOnlyIfDisturbed'
  BY DEF Done
<1>19. TruncateInv'
  BY DEF Done
<1> QED
  BY <1>11, <1>12, <1>13, <1>14, <1>15, <1>16, <1>17, <1>18, <1>19

\* An installation begins.
LEMMA InstallInv ==
  ASSUME IInv, NEW p \in Path, NEW e \in MaybeContent, NEW n \in Content, Install(p, e, n)
  PROVE  IInv'
<1>1. OpRecord(p, e, n, Nobody, Nobody) \in Operation
  BY DEF OpRecord
<1>2. /\ op' \in Operation /\ op' # Idle
      /\ op'.path = p /\ op'.expected = e /\ op'.new = n
      /\ op'.id = Nobody /\ op'.restoring = Nobody
  BY <1>1 DEF Install, OpRecord
<1>11. TypeOK'
  BY <1>2 DEF Install
<1>12. AtRest'
  BY <1>2 DEF Install
<1>13. OwnRecord'
  BY <1>2 DEF Install
<1>14. RecoverInv'
  BY <1>2 DEF Install
<1>15. TornInv'
  BY <1>2 DEF Install
<1>16. WholeInv'
  BY <1>2 DEF Install
<1>17. UndisturbedSettles'
  BY <1>2 DEF Install
<1>18. BlockedOnlyIfDisturbed'
  BY <1>2 DEF Install
<1>19. TruncateInv'
  BY <1>2 DEF Install
<1> QED
  BY <1>11, <1>12, <1>13, <1>14, <1>15, <1>16, <1>17, <1>18, <1>19

\* The user's "restore" begins an installation.
LEMMA RestoreInv ==
  ASSUME IInv, NEW i \in Id, Restore(i)
  PROVE  IInv'
<1>1. /\ i \in Recorded /\ journal[i] \in Journal /\ journal[i].old \in Content
      /\ file[journal[i].path] \in MaybeContent
  BY DEF Restore
<1>2. OpRecord(journal[i].path, file[journal[i].path], journal[i].old, Nobody, i) \in Operation
  BY <1>1 DEF OpRecord
<1>3. /\ op' \in Operation /\ op' # Idle
      /\ op'.path = journal[i].path /\ op'.expected = file[journal[i].path]
      /\ op'.new = journal[i].old
      /\ op'.id = Nobody /\ op'.restoring = i
  BY <1>2 DEF Restore, OpRecord
<1>11. TypeOK'
  BY <1>1, <1>3 DEF Restore
<1>12. AtRest'
  BY <1>1, <1>3 DEF Restore
<1>13. OwnRecord'
  BY <1>1, <1>3 DEF Restore
<1>14. RecoverInv'
  BY <1>1, <1>3 DEF Restore
<1>15. TornInv'
  BY <1>1, <1>3 DEF Restore
<1>16. WholeInv'
  BY <1>1, <1>3 DEF Restore
<1>17. UndisturbedSettles'
  BY <1>1, <1>3 DEF Restore
<1>18. BlockedOnlyIfDisturbed'
  BY <1>1, <1>3 DEF Restore
<1>19. TruncateInv'
  BY <1>1, <1>3 DEF Restore
<1> QED
  BY <1>11, <1>12, <1>13, <1>14, <1>15, <1>16, <1>17, <1>18, <1>19

\* The first comparison.
LEMMA InstallCompareInv ==
  ASSUME IInv, InstallCompare
  PROVE  IInv'
<1>11. TypeOK'
  BY DEF InstallCompare, Throw, Rest
<1>12. AtRest'
  BY DEF InstallCompare, Throw, Rest
<1>13. OwnRecord'
  BY DEF InstallCompare, Throw, Rest
<1>14. RecoverInv'
  BY DEF InstallCompare, Throw, Rest
<1>15. TornInv'
  BY DEF InstallCompare, Throw, Rest
<1>16. WholeInv'
  BY DEF InstallCompare, Throw, Rest
<1>17. UndisturbedSettles'
  BY DEF InstallCompare, Throw, Rest
<1>18. BlockedOnlyIfDisturbed'
  BY DEF InstallCompare, Throw, Rest
<1>19. TruncateInv'
  BY DEF InstallCompare, Throw, Rest
<1> QED
  BY <1>11, <1>12, <1>13, <1>14, <1>15, <1>16, <1>17, <1>18, <1>19

\* The version was already there.
LEMMA InstallReplayInv ==
  ASSUME IInv, InstallReplay
  PROVE  IInv'
<1>11. TypeOK'
  BY DEF InstallReplay, Answer, Throw, Rest
<1>12. AtRest'
  BY DEF InstallReplay, Answer, Throw, Rest
<1>13. OwnRecord'
  BY DEF InstallReplay, Answer, Throw, Rest
<1>14. RecoverInv'
  BY DEF InstallReplay, Answer, Throw, Rest
<1>15. TornInv'
  BY DEF InstallReplay, Answer, Throw, Rest
<1>16. WholeInv'
  BY DEF InstallReplay, Answer, Throw, Rest
<1>17. UndisturbedSettles'
  BY DEF InstallReplay, Answer, Throw, Rest
<1>18. BlockedOnlyIfDisturbed'
  BY DEF InstallReplay, Answer, Throw, Rest
<1>19. TruncateInv'
  BY DEF InstallReplay, Answer, Throw, Rest
<1> QED
  BY <1>11, <1>12, <1>13, <1>14, <1>15, <1>16, <1>17, <1>18, <1>19

\* The copies are made.
LEMMA InstallCopyInv ==
  ASSUME IInv, InstallCopy
  PROVE  IInv'
<1>11. TypeOK'
  BY DEF InstallCopy, Throw, Rest
<1>12. AtRest'
  BY DEF InstallCopy, Throw, Rest
<1>13. OwnRecord'
  BY DEF InstallCopy, Throw, Rest
<1>14. RecoverInv'
  BY DEF InstallCopy, Throw, Rest
<1>15. TornInv'
  BY DEF InstallCopy, Throw, Rest
<1>16. WholeInv'
  BY DEF InstallCopy, Throw, Rest
<1>17. UndisturbedSettles'
  BY DEF InstallCopy, Throw, Rest
<1>18. BlockedOnlyIfDisturbed'
  BY DEF InstallCopy, Throw, Rest
<1>19. TruncateInv'
  BY DEF InstallCopy, Throw, Rest
<1> QED
  BY <1>11, <1>12, <1>13, <1>14, <1>15, <1>16, <1>17, <1>18, <1>19

\* A new record, with a fresh identifier, whose write has not begun.
LEMMA InstallRecordInv ==
  ASSUME IInv, NEW i \in Id, InstallRecord(i)
  PROVE  IInv'
<1> DEFINE r == [path |-> op.path, old |-> op.expected, new |-> op.new, finished |-> FALSE]
<1>1. op \in Operation /\ op # Idle
  BY DEF InstallRecord
<1>2. /\ op' \in Operation /\ op' # Idle
      /\ op'.id = i /\ op'.path = op.path /\ op'.expected = op.expected
      /\ op'.new = op.new /\ op'.restoring = op.restoring
  BY <1>1 DEF InstallRecord, OpRecord
<1>3. /\ r \in Journal /\ ~r.finished
      /\ r.path = op.path /\ r.old = op.expected /\ r.new = op.new
  BY <1>1
<1>4. /\ journal' \in [Id -> Journal \cup {NoJournal}]
      /\ journal'[i] = r
      /\ \A k \in Id \ {i} : journal'[k] = journal[k]
  BY <1>3 DEF InstallRecord
<1> HIDE DEF r
<1>5. i \notin Recorded
  BY DEF InstallRecord
<1>6. Recorded' = Recorded \cup {i}
  BY <1>3, <1>4
<1>7. Unfinished' = Unfinished \cup {i}
  BY <1>3, <1>4, <1>5, <1>6
<1>8. Unfinished \subseteq Recorded /\ Recorded \subseteq Id /\ i \notin begun
  BY <1>5
<1> HIDE DEF Recorded, Unfinished
<1>11. TypeOK'
  BY <1>1, <1>2, <1>3, <1>4, <1>5, <1>6, <1>7, <1>8 DEF InstallRecord
<1>12. AtRest'
  BY <1>1, <1>2, <1>3, <1>4, <1>5, <1>6, <1>7, <1>8 DEF InstallRecord
<1>13. OwnRecord'
  BY <1>1, <1>2, <1>3, <1>4, <1>5, <1>6, <1>7, <1>8 DEF InstallRecord
<1>14. RecoverInv'
  BY <1>1, <1>2, <1>3, <1>4, <1>5, <1>6, <1>7, <1>8 DEF InstallRecord
<1>15. TornInv'
  BY <1>1, <1>2, <1>3, <1>4, <1>5, <1>6, <1>7, <1>8 DEF InstallRecord
<1>16. WholeInv'
  BY <1>1, <1>2, <1>3, <1>4, <1>5, <1>6, <1>7, <1>8 DEF InstallRecord
<1>17. UndisturbedSettles'
  BY <1>1, <1>2, <1>3, <1>4, <1>5, <1>6, <1>7, <1>8 DEF InstallRecord
<1>18. BlockedOnlyIfDisturbed'
  BY <1>1, <1>2, <1>3, <1>4, <1>5, <1>6, <1>7, <1>8 DEF InstallRecord
<1>19. TruncateInv'
  BY <1>1, <1>2, <1>3, <1>4, <1>5, <1>6, <1>7, <1>8 DEF InstallRecord
<1> QED
  BY <1>11, <1>12, <1>13, <1>14, <1>15, <1>16, <1>17, <1>18, <1>19

\* The second comparison.
LEMMA InstallRecheckInv ==
  ASSUME IInv, InstallRecheck
  PROVE  IInv'
<1>11. TypeOK'
  BY DEF InstallRecheck
<1>12. AtRest'
  BY DEF InstallRecheck
<1>13. OwnRecord'
  BY DEF InstallRecheck
<1>14. RecoverInv'
  BY DEF InstallRecheck
<1>15. TornInv'
  BY DEF InstallRecheck
<1>16. WholeInv'
  BY DEF InstallRecheck
<1>17. UndisturbedSettles'
  BY DEF InstallRecheck
<1>18. BlockedOnlyIfDisturbed'
  BY DEF InstallRecheck
<1>19. TruncateInv'
  BY DEF InstallRecheck
<1> QED
  BY <1>11, <1>12, <1>13, <1>14, <1>15, <1>16, <1>17, <1>18, <1>19

\* What a write of the installation leaves at its path, and only there.
LEMMA LeaveFacts ==
  ASSUME IInv, pc \in {"create", "write", "writing"}, NEW f \in Content, Leave(f)
  PROVE  /\ file' \in [Path -> MaybeContent]
         /\ file'[op.path] = f
         /\ torn' \in [Path -> BOOLEAN]
         /\ f \notin {op.expected, op.new} => torn'[op.path]
         /\ f = op.expected /\ f # file[op.path] => ~torn'[op.path]
         /\ over' \in MaybeContent /\ begun' \subseteq Id /\ touched' \subseteq Id
         /\ op.id \in begun'
         /\ over' = IF op.id \in begun THEN over ELSE file[op.path]
<1>1. op \in Operation /\ op.path \in Path /\ op.id \in Id /\ file[op.path] \in MaybeContent
  OBVIOUS
<1>2. file' \in [Path -> MaybeContent] /\ file'[op.path] = f
  BY <1>1 DEF Leave
<1>3. /\ torn' \in [Path -> BOOLEAN]
      /\ f \notin {op.expected, op.new} => torn'[op.path]
      /\ f = op.expected /\ f # file[op.path] => ~torn'[op.path]
  <2> DEFINE b == f \notin {op.expected, op.new} \/ (torn[op.path] /\ f = file[op.path])
  <2>1. b \in BOOLEAN /\ torn \in [Path -> BOOLEAN]
    OBVIOUS
  <2>2. torn' = [torn EXCEPT ![op.path] = b]
    BY DEF Leave
  <2>3. torn' \in [Path -> BOOLEAN] /\ torn'[op.path] = b
    <3> HIDE DEF b
    <3> QED
      BY <1>1, <2>1, <2>2
  <2> QED
    BY <2>3
<1>4. over' \in MaybeContent /\ begun' \subseteq Id /\ touched' \subseteq Id
  BY <1>1 DEF Leave
<1> QED
  BY <1>1, <1>2, <1>3, <1>4 DEF Leave

\* The new document is created.
LEMMA InstallCreateInv ==
  ASSUME IInv, InstallCreate
  PROVE  IInv'
<1>11. TypeOK'
  <2>1. CASE file[op.path] = Absent
    <3>1. Empty \in Content /\ Leave(Empty)
      BY <2>1 DEF InstallCreate
    <3> QED
      BY <2>1, <3>1, LeaveFacts DEF InstallCreate
  <2>2. CASE ~(file[op.path] = Absent)
    BY <2>2 DEF InstallCreate, Throw, Rest
  <2> QED
    BY <2>1, <2>2
<1>12. AtRest'
  BY DEF InstallCreate, Leave, Throw, Rest
<1>13. OwnRecord'
  BY DEF InstallCreate, Leave, Throw, Rest
<1>14. RecoverInv'
  BY DEF InstallCreate, Leave, Throw, Rest
<1>15. TornInv'
  BY DEF InstallCreate, Leave, Throw, Rest
<1>16. WholeInv'
  BY DEF InstallCreate, Leave, Throw, Rest
<1>17. UndisturbedSettles'
  BY DEF InstallCreate, Leave, Throw, Rest
<1>18. BlockedOnlyIfDisturbed'
  BY DEF InstallCreate, Leave, Throw, Rest
<1>19. TruncateInv'
  <2>1. CASE file[op.path] = Absent
    <3>1. Empty \in Content /\ Leave(Empty)
      BY <2>1 DEF InstallCreate
    <3> QED
      BY <2>1, <3>1, LeaveFacts DEF InstallCreate
  <2>2. CASE ~(file[op.path] = Absent)
    BY <2>2 DEF InstallCreate, Throw, Rest
  <2> QED
    BY <2>1, <2>2
<1> QED
  BY <1>11, <1>12, <1>13, <1>14, <1>15, <1>16, <1>17, <1>18, <1>19

\* The write begins.
LEMMA InstallTruncateInv ==
  ASSUME IInv, InstallTruncate
  PROVE  IInv'
<1>11. TypeOK'
  <2>1. CASE file[op.path] # Absent
    <3>1. PICK f \in Fragment : Leave(f)
      BY <2>1 DEF InstallTruncate
    <3> QED
      BY <2>1, <3>1, LeaveFacts DEF InstallTruncate
  <2>2. CASE file[op.path] = Absent
    BY <2>2 DEF InstallTruncate, Throw, Rest
  <2> QED
    BY <2>1, <2>2
<1>12. AtRest'
  BY DEF InstallTruncate, Leave, Throw, Rest
<1>13. OwnRecord'
  BY DEF InstallTruncate, Leave, Throw, Rest
<1>14. RecoverInv'
  BY DEF InstallTruncate, Leave, Throw, Rest
<1>15. TornInv'
  BY DEF InstallTruncate, Leave, Throw, Rest
<1>16. WholeInv'
  BY DEF InstallTruncate, Leave, Throw, Rest
<1>17. UndisturbedSettles'
  BY DEF InstallTruncate, Leave, Throw, Rest
<1>18. BlockedOnlyIfDisturbed'
  BY DEF InstallTruncate, Leave, Throw, Rest
<1>19. TruncateInv'
  <2>1. CASE file[op.path] # Absent
    <3>1. PICK f \in Fragment : Leave(f)
      BY <2>1 DEF InstallTruncate
    <3> QED
      BY <2>1, <3>1, LeaveFacts DEF InstallTruncate
  <2>2. CASE file[op.path] = Absent
    BY <2>2 DEF InstallTruncate, Throw, Rest
  <2> QED
    BY <2>1, <2>2
<1> QED
  BY <1>11, <1>12, <1>13, <1>14, <1>15, <1>16, <1>17, <1>18, <1>19

\* The write ends.
LEMMA InstallWriteInv ==
  ASSUME IInv, InstallWrite
  PROVE  IInv'
<1>11. TypeOK'
  BY DEF InstallWrite, Leave, Throw, Rest
<1>12. AtRest'
  BY DEF InstallWrite, Leave, Throw, Rest
<1>13. OwnRecord'
  BY DEF InstallWrite, Leave, Throw, Rest
<1>14. RecoverInv'
  BY DEF InstallWrite, Leave, Throw, Rest
<1>15. TornInv'
  BY DEF InstallWrite, Leave, Throw, Rest
<1>16. WholeInv'
  BY DEF InstallWrite, Leave, Throw, Rest
<1>17. UndisturbedSettles'
  BY DEF InstallWrite, Leave, Throw, Rest
<1>18. BlockedOnlyIfDisturbed'
  BY DEF InstallWrite, Leave, Throw, Rest
<1>19. TruncateInv'
  BY DEF InstallWrite, Leave, Throw, Rest
<1> QED
  BY <1>11, <1>12, <1>13, <1>14, <1>15, <1>16, <1>17, <1>18, <1>19

\* The document is read back.
LEMMA InstallVerifyInv ==
  ASSUME IInv, InstallVerify
  PROVE  IInv'
<1>11. TypeOK'
  BY DEF InstallVerify, Throw, Rest
<1>12. AtRest'
  BY DEF InstallVerify, Throw, Rest
<1>13. OwnRecord'
  BY DEF InstallVerify, Throw, Rest
<1>14. RecoverInv'
  BY DEF InstallVerify, Throw, Rest
<1>15. TornInv'
  BY DEF InstallVerify, Throw, Rest
<1>16. WholeInv'
  BY DEF InstallVerify, Throw, Rest
<1>17. UndisturbedSettles'
  BY DEF InstallVerify, Throw, Rest
<1>18. BlockedOnlyIfDisturbed'
  BY DEF InstallVerify, Throw, Rest
<1>19. TruncateInv'
  BY DEF InstallVerify, Throw, Rest
<1> QED
  BY <1>11, <1>12, <1>13, <1>14, <1>15, <1>16, <1>17, <1>18, <1>19

(* Every step keeps the invariant: one lemma per action, above.            *)
LEMMA NextInv == IInv /\ [Next]_vars => IInv'
<1> SUFFICES ASSUME IInv, [Next]_vars
             PROVE  IInv'
  OBVIOUS
<1>1. CASE StartService \/ StopService \/ Fail
  BY <1>1, StartServiceInv, StopServiceInv, FailInv
<1>2. CASE Round
  <2>1. CASE \E i \in Id : RecoverCheck(i)
    BY <2>1, RecoverCheckInv
  <2>2. CASE FullScan \/ RecoverSettle \/ RecoverDone \/ StreamEnd
             \/ DeltaScan \/ Done
    BY <2>2, FullScanInv, RecoverSettleInv, RecoverDoneInv, StreamEndInv,
       DeltaScanInv, DoneInv
  <2> QED
    BY <1>2, <2>1, <2>2 DEF Round
<1>3. CASE Installation
  <2>1. CASE \E p \in Path, e \in MaybeContent, n \in Content : Install(p, e, n)
    BY <2>1, InstallInv
  <2>2. CASE \E i \in Id : InstallRecord(i)
    BY <2>2, InstallRecordInv
  <2>3. CASE InstallCompare \/ InstallReplay \/ InstallCopy \/ InstallRecheck
             \/ InstallWithdraw
    BY <2>3, InstallCompareInv, InstallReplayInv, InstallCopyInv, InstallRecheckInv,
       InstallWithdrawInv
  <2>4. CASE InstallCreate \/ InstallTruncate \/ InstallWrite \/ InstallVerify
             \/ InstallFinish
    BY <2>4, InstallCreateInv, InstallTruncateInv, InstallWriteInv, InstallVerifyInv,
       InstallFinishInv
  <2> QED
    BY <1>3, <2>1, <2>2, <2>3, <2>4 DEF Installation
<1>4. CASE User
  BY <1>4, KeepInv, RestoreInv, ResolveInv DEF User
<1>5. CASE Editor
  <2>1. PICK p \in Path, c \in MaybeContent : Save(p, c)
    BY <1>5 DEF Editor
  <2> QED
    BY <2>1, EditorInv
<1>6. CASE UNCHANGED vars
  <2>1. TypeOK' /\ AtRest' /\ OwnRecord' /\ RecoverInv'
    BY <1>6
  <2>2. TornInv' /\ WholeInv'
    BY <1>6
  <2>3. UndisturbedSettles' /\ BlockedOnlyIfDisturbed' /\ TruncateInv'
    BY <1>6
  <2> QED
    BY <2>1, <2>2, <2>3
<1> QED
  BY <1>1, <1>2, <1>3, <1>4, <1>5, <1>6 DEF Next, Service

\* The invariant holds in every reachable state of the phone's store.
THEOREM Inductive == Spec => []IInv
<1> HIDE DEF IInv, vars
<1> QED
  BY InitInv, NextInv, PTL DEF Spec

-----------------------------------------------------------------------------
(* Every variable keeps its type: a record always names an old version, a  *)
(* new one and a path, whatever interrupted the steps that wrote it.       *)
THEOREM TypeCorrect == Spec => []TypeOK
<1>1. IInv => TypeOK
  OBVIOUS
<1> HIDE DEF IInv, TypeOK
<1> QED
  BY <1>1, Inductive, PTL

(* A document that a write of Rowd left unfinished has an unfinished       *)
(* record that recoverPending refuses, until the user answers it or        *)
(* somebody replaces the document.                                         *)
THEOREM TornStaysRecorded == Spec => []TornIsRecorded
<1>1. IInv => TornIsRecorded
  BY DEF TornIsRecorded
<1> HIDE DEF IInv
<1> QED
  BY <1>1, Inductive, PTL

(* A round that began with startScanJson or startNamespaceJson reads no    *)
(* unfinished document, before or after the installations of the round.    *)
THEOREM FullRoundIsWhole == Spec => []FullRoundReadsWhole
<1>1. IInv => FullRoundReadsWhole
  OBVIOUS
<1> HIDE DEF IInv, FullRoundReadsWhole
<1> QED
  BY <1>1, Inductive, PTL

(* Only a record whose write began or whose path somebody else changed     *)
(* makes recoverPending refuse: a kill before the write blocks nothing.    *)
THEOREM BlockedIfDisturbed == Spec => []BlockedOnlyIfDisturbed
<1>1. IInv => BlockedOnlyIfDisturbed
  OBVIOUS
<1> HIDE DEF IInv, BlockedOnlyIfDisturbed
<1> QED
  BY <1>1, Inductive, PTL

(* What openFileDescriptor("rwt") truncates is the version the PC expected *)
(* unless somebody saved after the second comparison of install.           *)
THEOREM TruncatesExpected == Spec => []TruncatesOnlyExpected
<1>1. IInv => TruncatesOnlyExpected
  OBVIOUS
<1> HIDE DEF IInv, TruncatesOnlyExpected
<1> QED
  BY <1>1, Inductive, PTL

-----------------------------------------------------------------------------
(* What can be got back for a path can still be got back if no record is   *)
(* forgotten and the document stays, or is named by a record.              *)
LEMMA KeptStays ==
  ASSUME IInv, NEW p \in Path,
         \A k \in Recorded : /\ k \in Recorded'
                             /\ journal'[k].path = journal[k].path
                             /\ journal'[k].old = journal[k].old
                             /\ journal'[k].new = journal[k].new,
         \/ file'[p] = file[p] /\ (torn'[p] => torn[p])
         \/ torn[p]
         \/ \E k \in Recorded : /\ journal[k].path = p
                                /\ file[p] \in {journal[k].old, journal[k].new}
  PROVE  Kept(p) \subseteq Kept(p)'
<1> SUFFICES ASSUME NEW x \in Kept(p)
             PROVE  x \in Kept(p)'
  OBVIOUS
<1> HIDE DEF Recorded
<1>1. x # Absent
  BY DEF Kept
<1>2. CASE \E k \in Recorded : journal[k].path = p /\ x \in {journal[k].old, journal[k].new}
  BY <1>1, <1>2 DEF Kept
<1>3. CASE x = file[p] /\ x \notin {f \in MaybeContent : torn[p]}
  <2>1. x \in MaybeContent /\ ~torn[p]
    BY <1>3
  <2> QED
    BY <1>1, <1>3, <2>1 DEF Kept
<1> QED
  BY <1>2, <1>3 DEF Kept

\* Steps that leave the Share and its records alone take nothing away.
LEMMA QuietKeeps ==
  ASSUME IInv, UNCHANGED disk, NEW p \in Path
  PROVE  Kept(p) \subseteq Kept(p)'
BY KeptStays

\* Settling a record keeps its copies.
LEMMA SettleKeeps ==
  ASSUME IInv, NEW i \in Recorded, journal' = [journal EXCEPT ![i] = Settled(@)],
         UNCHANGED <<file, torn>>, NEW p \in Path
  PROVE  Kept(p) \subseteq Kept(p)'
<1>1. \A k \in Recorded : /\ k \in Recorded'
                          /\ journal'[k].path = journal[k].path
                          /\ journal'[k].old = journal[k].old
                          /\ journal'[k].new = journal[k].new
  BY SettleRecord
<1> QED
  BY <1>1, KeptStays

\* A new record replaces none.
LEMMA RecordKeeps ==
  ASSUME IInv, NEW i \in Id, InstallRecord(i), NEW p \in Path
  PROVE  Kept(p) \subseteq Kept(p)'
<1>1. \A k \in Recorded : k \in Id \ {i} /\ journal'[k] = journal[k]
  BY DEF InstallRecord
<1>2. \A k \in Recorded : /\ k \in Recorded'
                          /\ journal'[k].path = journal[k].path
                          /\ journal'[k].old = journal[k].old
                          /\ journal'[k].new = journal[k].new
  BY <1>1
<1>3. UNCHANGED <<file, torn>>
  BY DEF InstallRecord
<1> QED
  BY <1>2, <1>3, KeptStays

(* Before and while install writes, its own record names the version that  *)
(* is at the path, unless that is torn or somebody saved after the second  *)
(* comparison.                                                             *)
LEMMA WriteKeeps ==
  ASSUME IInv, ~edited, InstallCreate \/ InstallTruncate \/ InstallWrite, NEW p \in Path
  PROVE  Kept(p) \subseteq Kept(p)'
<1>1. /\ op.id \in Recorded /\ op.path \in Path /\ journal' = journal
      /\ journal[op.id].path = op.path
      /\ journal[op.id].old = op.expected
      /\ journal[op.id].new = op.new
  BY DEF InstallCreate, InstallTruncate, InstallWrite
<1>2. \/ torn[op.path]
      \/ file[op.path] \in {op.expected, op.new}
  BY DEF InstallCreate, InstallTruncate, InstallWrite
<1>3. CASE p # op.path
  <2>1. UNCHANGED <<file, torn>> \/ \E f \in Content : Leave(f)
    BY DEF InstallCreate, InstallTruncate, InstallWrite
  <2>2. file'[p] = file[p] /\ torn'[p] = torn[p]
    BY <1>1, <1>3, <2>1 DEF Leave
  <2> QED
    BY <1>1, <2>2, KeptStays
<1>4. CASE p = op.path
  BY <1>1, <1>2, <1>4, KeptStays
<1> QED
  BY <1>3, <1>4

(* No step of the service, and no stop or error between two, makes a       *)
(* version unrecoverable that was in the Share or in a record, unless      *)
(* somebody saved it between the second comparison and the write.          *)
THEOREM NothingIsLost == Spec => NothingLost
<1>1. ASSUME IInv, Service \/ Resolve, ~edited, NEW p \in Path
      PROVE  Kept(p) \subseteq Kept(p)'
  <2>1. CASE StartService \/ StopService \/ Fail \/ FullScan \/ RecoverDone
             \/ StreamEnd \/ DeltaScan \/ Done \/ \E i \in Id : RecoverCheck(i)
    <3>1. UNCHANGED disk
      BY <2>1 DEF StartService, StopService, Fail, FullScan, RecoverDone,
                  StreamEnd, DeltaScan, Done, RecoverCheck
    <3> QED
      BY <1>1, <3>1, QuietKeeps
  <2>2. CASE (\E q \in Path, e \in MaybeContent, n \in Content : Install(q, e, n))
             \/ InstallCompare \/ InstallReplay \/ InstallCopy \/ InstallRecheck
             \/ InstallVerify
    <3>1. UNCHANGED disk
      BY <2>2 DEF Install, InstallCompare, InstallReplay, InstallCopy,
                  InstallRecheck, InstallVerify
    <3> QED
      BY <1>1, <3>1, QuietKeeps
  <2>3. CASE RecoverSettle
    <3>1. cur \in Recorded /\ journal' = [journal EXCEPT ![cur] = Settled(@)]
          /\ UNCHANGED <<file, torn>>
      BY <1>1, <2>3 DEF RecoverSettle
    <3> QED
      BY <1>1, <3>1, SettleKeeps
  <2>4. CASE InstallWithdraw \/ InstallFinish
    <3>1. op.id \in Recorded /\ journal' = [journal EXCEPT ![op.id] = Settled(@)]
          /\ UNCHANGED <<file, torn>>
      BY <1>1, <2>4 DEF InstallWithdraw, InstallFinish
    <3> QED
      BY <1>1, <3>1, SettleKeeps
  <2>5. CASE Resolve
    <3>1. op.restoring \in Recorded
          /\ journal' = [journal EXCEPT ![op.restoring] = Settled(@)]
          /\ UNCHANGED <<file, torn>>
      BY <1>1, <2>5 DEF Resolve
    <3> QED
      BY <1>1, <3>1, SettleKeeps
  <2>6. CASE \E i \in Id : InstallRecord(i)
    BY <1>1, <2>6, RecordKeeps
  <2>7. CASE InstallCreate \/ InstallTruncate \/ InstallWrite
    BY <1>1, <2>7, WriteKeeps
  <2> QED
    BY <1>1, <2>1, <2>2, <2>3, <2>4, <2>5, <2>6, <2>7
    DEF Service, Round, Installation
<1>2. IInv /\ [Next]_vars =>
        [(Service \/ Resolve) /\ ~edited => \A p \in Path : Kept(p) \subseteq Kept(p)']_vars
  <2> HIDE DEF IInv, vars
  <2> QED
    BY <1>1
<1> HIDE DEF IInv
<1> QED
  BY <1>2, Inductive, PTL DEF Spec, NothingLost

=============================================================================
