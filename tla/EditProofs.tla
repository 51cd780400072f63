------------------------------- MODULE EditProofs -------------------------------
(***************************************************************************)
(* Proofs that no change of a file is forgotten on its way: in the first   *)
(* part (WatchHints) from the folder to a scan that reads it, for any      *)
(* paths and bounds of the queues; in the second (Schedule) from the hint  *)
(* on disk, or the phone's observer, to a round, for any Shares, audits,   *)
(* requests by hand and faults.                                            *)
(***************************************************************************)
EXTENDS WatchHints, TLAPS

\* Schedule takes over the hints where WatchHints ends: its constants and
\* variables, under their own names.
CONSTANTS
  Share, Rotation, Broken, None, PcEdited, PhoneWoken, Requested, FaultMax

VARIABLES
  pcSide, phoneSide, faults, narrowed, collected, urgent, newer, channel,
  preempted, request, wire, online, due, mark, all, auditDue, auditDeferred,
  cursor, step, kind, focus, excluded, remaining, current, completed, attempt,
  told

Rounds == INSTANCE Schedule

\* What Rowd installs it knows.
OwnKnown == \A p \in Path : file[p] \in Received => seen[p] = file[p]

\* The event under comparison names a path of the Share.
Compared == checking.entry # Nothing => checking.event.path \in Path

\* Only a running loop watches.
WatchedUp == watched => up

\* A path that does not need the hint on disk.
Safe(p) == file[p] = seen[p] \/ OnTheWay(p) \/ Unwatched

\* What a full scan has read is safe: the hint may go.
ScanKnows == phase = "hash" => \A p \in Path \ scope : Safe(p)

\* An installation under way names its path.
Placed == installing.step # "none" => installing.path \in Path

HInv ==
  /\ TypeOK /\ ChangeRemembered
  /\ OwnKnown /\ Compared /\ WatchedUp /\ Placed /\ ScanKnows

-----------------------------------------------------------------------------
(* Queues of events.                                                       *)

Rescan == [path |-> Tree, structural |-> FALSE]

LEMMA AppendCarries ==
  ASSUME NEW s \in Seq(Event), NEW e \in Event
  PROVE  /\ Append(s, e) \in Seq(Event) /\ Len(Append(s, e)) = Len(s) + 1
         /\ \A p : Carries(s, p) => Carries(Append(s, e), p)
         /\ \A p : e.path \in {p, Tree} => Carries(Append(s, e), p)
<1>1. Append(s, e) \in Seq(Event) /\ Len(Append(s, e)) = Len(s) + 1
  OBVIOUS
<1>2. DOMAIN s = 1 .. Len(s) /\ DOMAIN Append(s, e) = 1 .. Len(s) + 1 /\ Len(s) \in Nat
  OBVIOUS
<1>3. ASSUME NEW p, Carries(s, p) PROVE Carries(Append(s, e), p)
  <2>1. PICK i \in DOMAIN s : s[i].path \in {p, Tree}
    BY <1>3 DEF Carries
  <2>2. i \in DOMAIN Append(s, e) /\ Append(s, e)[i] = s[i]
    BY <1>2
  <2> QED
    BY <2>1, <2>2 DEF Carries
<1>4. ASSUME NEW p, e.path \in {p, Tree} PROVE Carries(Append(s, e), p)
  <2>1. Len(s) + 1 \in DOMAIN Append(s, e) /\ Append(s, e)[Len(s) + 1] = e
    BY <1>2
  <2> QED
    BY <2>1, <1>4 DEF Carries
<1> QED
  BY <1>1, <1>3, <1>4

LEMMA TailCarries ==
  ASSUME NEW s \in Seq(Event), s # <<>>
  PROVE  /\ Head(s) \in Event /\ Tail(s) \in Seq(Event) /\ Len(Tail(s)) = Len(s) - 1
         /\ \A p : Carries(s, p) => Head(s).path \in {p, Tree} \/ Carries(Tail(s), p)
<1>1. Head(s) \in Event /\ Tail(s) \in Seq(Event) /\ Len(Tail(s)) = Len(s) - 1
  OBVIOUS
<1>2. ASSUME NEW p, Carries(s, p) PROVE Head(s).path \in {p, Tree} \/ Carries(Tail(s), p)
  <2>1. PICK i \in DOMAIN s : s[i].path \in {p, Tree}
    BY <1>2 DEF Carries
  <2>2. CASE i = 1
    BY <2>1, <2>2
  <2>3. CASE i # 1
    <3>1. i - 1 \in DOMAIN Tail(s) /\ Tail(s)[i - 1] = s[i]
      BY <2>1, <2>3
    <3> QED
      BY <3>1, <2>1 DEF Carries
  <2> QED
    BY <2>2, <2>3
<1> QED
  BY <1>1, <1>2

\* The kernel's queue loses events only to one that names them all.
LEMMA ReportCarries ==
  ASSUME TypeOK, NEW e \in Event, Report(e)
  PROVE  /\ raw' \in Seq(Event) /\ Len(raw') <= EventMax
         /\ \A p : Carries(raw, p) => Carries(raw', p)
         /\ Observed => Carries(raw', e.path)
<1> USE WatchAssumption DEF TypeOK
<1>1. CASE ~Observed
  BY <1>1 DEF Report
<1>2. CASE Observed /\ Len(raw) < EventMax
  BY <1>2, AppendCarries DEF Report
<1>3. CASE Observed /\ ~(Len(raw) < EventMax)
  <2>1. raw' = <<Rescan>>
    BY <1>3 DEF Report, Rescan
  <2>2. Rescan \in Event
    BY DEF Rescan, Event
  <2>3. 1 \in DOMAIN raw' /\ raw'[1].path = Tree /\ Len(raw') = 1 /\ raw' \in Seq(Event)
    BY <2>1, <2>2 DEF Rescan
  <2> QED
    BY <2>3 DEF Carries
<1> QED
  BY <1>1, <1>2, <1>3

\* An event the bounded channel has no room for leaves the recovery mark.
LEMMA EnqueueCarries ==
  ASSUME TypeOK, NEW e \in Event, Enqueue(e)
  PROVE  /\ queue' \in Seq(Event) /\ Len(queue') <= QueueMax /\ recovery' \in BOOLEAN
         /\ recovery => recovery'
         /\ \A p : Carries(queue, p) => Carries(queue', p)
         /\ \A p : e.path \in {p, Tree} => Carries(queue', p) \/ recovery'
<1> USE WatchAssumption DEF TypeOK
<1>1. CASE Len(queue) < QueueMax
  <2>1. queue' = Append(queue, e) /\ recovery' = recovery
    BY <1>1 DEF Enqueue
  <2>2. Len(queue) \in Nat /\ recovery' \in BOOLEAN
    BY <2>1
  <2>3. queue' \in Seq(Event) /\ Len(queue') <= QueueMax
    BY <1>1, <2>1, <2>2, AppendCarries
  <2>4. \A p : Carries(queue, p) => Carries(queue', p)
    BY <2>1, AppendCarries
  <2>5. \A p : e.path \in {p, Tree} => Carries(queue', p)
    BY <2>1, AppendCarries
  <2> QED
    BY <2>1, <2>2, <2>3, <2>4, <2>5
<1>2. CASE ~(Len(queue) < QueueMax)
  BY <1>2 DEF Enqueue
<1> QED
  BY <1>1, <1>2

LEMMA MarkedNames ==
  ASSUME NEW S, NEW p PROVE Names(S, p) <=> Names(Marked(S), p)
BY DEF Names, Marked

-----------------------------------------------------------------------------
(* Types.                                                                  *)

LEMMA TypeStep == TypeOK /\ Compared /\ Placed /\ [Next]_vars => TypeOK'
<1> SUFFICES ASSUME TypeOK /\ Compared /\ Placed, [Next]_vars PROVE TypeOK'
  OBVIOUS
<1> USE WatchAssumption DEF TypeOK, Content, folder, ingress, serve, store
<1>1. ASSUME NEW p \in Path, NEW v \in Version, Save(p, v) PROVE TypeOK'
  <2>1. [path |-> p, structural |-> FALSE] \in Event
    BY DEF Event
  <2> QED
    BY <1>1, <2>1, ReportCarries DEF Save
<1>2. ASSUME NEW p \in Path, Remove(p) PROVE TypeOK'
  <2>1. [path |-> p, structural |-> TRUE] \in Event
    BY DEF Event
  <2> QED
    BY <1>2, <2>1, ReportCarries DEF Remove
<1>3. CASE Receive
  <2>1. Head(raw) \in Event /\ Tail(raw) \in Seq(Event) /\ Len(Tail(raw)) <= EventMax
    BY <1>3, TailCarries DEF Receive
  <2> QED
    BY <1>3, <2>1, EnqueueCarries DEF Receive
<1>4. CASE Suspect
  <2>1. Head(raw) \in Event /\ Tail(raw) \in Seq(Event) /\ Len(Tail(raw)) <= EventMax
    BY <1>4, TailCarries DEF Suspect
  <2>2. registry[Head(raw).path].entry \in Received
    BY <1>4, <2>1 DEF Suspect, Known, Event
  <2> QED
    BY <1>4, <2>1, <2>2 DEF Suspect, Checked
<1>5. CASE Compare
  <2>1. checking' \in [event : Event, entry : Received \cup {Nothing}]
    BY <1>5 DEF Compare, NoCheck, Checked, Event
  <2>2. registry' \in [Path -> [entry : Received \cup {Nothing}, finished : BOOLEAN]]
    <3>1. checking.event.path \in Path
      BY <1>5 DEF Compare, Compared
    <3>2. NoWrite \in [entry : Received \cup {Nothing}, finished : BOOLEAN]
      BY DEF NoWrite
    <3>3. registry' \in {registry, [registry EXCEPT ![checking.event.path] = NoWrite]}
      BY <1>5 DEF Compare
    <3> QED
      BY <3>1, <3>2, <3>3
  <2>3. queue' \in Seq(Event) /\ Len(queue') <= QueueMax /\ recovery' \in BOOLEAN
    BY <1>5, EnqueueCarries DEF Compare
  <2> QED
    BY <1>5, <2>1, <2>2, <2>3 DEF Compare
<1>6. ASSUME NEW p \in Path, Expire(p) PROVE TypeOK'
  BY <1>6 DEF Expire, NoWrite
<1>7. CASE Disable
  BY <1>7 DEF Disable
<1>8. CASE Enable
  BY <1>8 DEF Enable
<1>9. CASE Reload
  BY <1>9 DEF Reload
<1>10. CASE Register
  BY <1>10 DEF Register
<1>11. CASE Consume
  <2>1. Head(queue) \in Event /\ Tail(queue) \in Seq(Event) /\ Len(Tail(queue)) <= QueueMax
    BY <1>11, TailCarries DEF Consume
  <2>2. Head(queue).path \in Path \cup {Tree}
    BY <2>1 DEF Event
  <2>3. dirty' \subseteq Path \cup {Tree}
    BY <1>11, <2>2 DEF Consume, Marked
  <2>4. registry' \in [Path -> [entry : Received \cup {Nothing}, finished : BOOLEAN]]
    BY <1>11, <2>2 DEF Consume, NoWrite
  <2> QED
    BY <1>11, <2>1, <2>3, <2>4 DEF Consume
<1>12. CASE Recover
  BY <1>12 DEF Recover
<1>13. CASE FullDue
  BY <1>13 DEF FullDue
<1>14. CASE Flush
  BY <1>14 DEF Flush, Marked
<1>15. CASE Stop
  <2>1. checking' \in [event : Event, entry : Received \cup {Nothing}]
    BY <1>15 DEF Stop, NoCheck, Checked, Event
  <2>2. registry' \in [Path -> [entry : Received \cup {Nothing}, finished : BOOLEAN]]
    BY <1>15 DEF Stop, NoWrite
  <2>3. raw' \in Seq(Event) /\ Len(raw') <= EventMax
    BY <1>15 DEF Stop
  <2>4. queue' \in Seq(Event) /\ Len(queue') <= QueueMax
    BY <1>15 DEF Stop
  <2> QED
    BY <1>15, <2>1, <2>2, <2>3, <2>4 DEF Stop, NoInstall
<1>16. CASE Start
  BY <1>16 DEF Start
<1>17. ASSUME NEW audit \in BOOLEAN, NEW asked \in SUBSET Path, Open(audit, asked) PROVE TypeOK'
  BY <1>17 DEF Open
<1>18. ASSUME NEW p \in Path, Hash(p) PROVE TypeOK'
  BY <1>18 DEF Hash
<1>19. CASE DeltaDone
  BY <1>19 DEF DeltaDone
<1>20. CASE ScanDone
  BY <1>20 DEF ScanDone
<1>21. CASE Close
  BY <1>21 DEF Close, NoWrite, NoInstall
<1>22. ASSUME NEW p \in Path, NEW c \in Received, InstallRegister(p, c) PROVE TypeOK'
  BY <1>22 DEF InstallRegister
<1>23. CASE InstallPublish
  <2>1. installing.path \in Path /\ registry[installing.path].entry \in Received
    BY <1>23 DEF InstallPublish, Placed
  <2>2. [path |-> installing.path, structural |-> FALSE] \in Event
    BY <2>1 DEF Event
  <2>3. file' \in [Path -> Content] /\ seen' \in [Path -> Content]
    BY <1>23, <2>1 DEF InstallPublish
  <2> QED
    BY <1>23, <2>2, <2>3, ReportCarries DEF InstallPublish
<1>24. CASE InstallComplete
  <2>1. installing.path \in Path
    BY <1>24 DEF InstallComplete, Placed
  <2>2. registry' \in [Path -> [entry : Received \cup {Nothing}, finished : BOOLEAN]]
    <3> DEFINE write == registry[installing.path]
    <3>1. write \in [entry : Received \cup {Nothing}, finished : BOOLEAN]
      BY <2>1
    <3>2. [write EXCEPT !.finished = TRUE] \in [entry : Received \cup {Nothing}, finished : BOOLEAN]
      BY <3>1
    <3>3. registry' \in {[registry EXCEPT ![installing.path] = write],
                      [registry EXCEPT ![installing.path] = [write EXCEPT !.finished = TRUE]]}
      BY <1>24 DEF InstallComplete
    <3>4. CASE registry' = [registry EXCEPT ![installing.path] = write]
      BY <2>1, <3>1, <3>4
    <3>5. CASE registry' = [registry EXCEPT ![installing.path] = [write EXCEPT !.finished = TRUE]]
      BY <2>1, <3>2, <3>5
    <3> QED
      BY <3>3, <3>4, <3>5
  <2>3. installing' \in [path : Path \cup {Nothing},
                       step : {"none", "registered", "published", "completed"}]
    BY <1>24 DEF InstallComplete
  <2> QED
    BY <1>24, <2>2, <2>3 DEF InstallComplete
<1>25. CASE InstallHint
  <2>1. hint' \subseteq Path \cup {Tree}
    BY <1>25 DEF InstallHint, Marked, Placed
  <2> QED
    BY <1>25, <2>1 DEF InstallHint, NoInstall
<1>26. CASE UNCHANGED vars
  BY <1>26 DEF vars
<1> QED
  BY <1>1, <1>2, <1>3, <1>4, <1>5, <1>6, <1>7, <1>8, <1>9, <1>10, <1>11, <1>12, <1>13,
    <1>14, <1>15, <1>16, <1>17, <1>18, <1>19, <1>20, <1>21, <1>22, <1>23, <1>24, <1>25,
    <1>26
  DEF Next, User, NotifyThread, ServeLoop, Round

-----------------------------------------------------------------------------
(* What Rowd wrote, and where its threads are.                             *)

LEMMA OwnStep == TypeOK /\ OwnKnown /\ [Next]_vars => OwnKnown'
<1> SUFFICES ASSUME TypeOK /\ OwnKnown, [Next]_vars PROVE OwnKnown'
  OBVIOUS
<1> USE WatchAssumption DEF OwnKnown, folder, ingress, serve, store
<1>1. ASSUME NEW p \in Path, NEW v \in Version, Save(p, v) PROVE OwnKnown'
  <2>1. file \in [Path -> Content]
    BY DEF TypeOK
  <2> QED
    BY <1>1, <2>1 DEF Save
<1>2. ASSUME NEW p \in Path, Remove(p) PROVE OwnKnown'
  <2>1. file \in [Path -> Content] /\ Absent \notin Received
    BY DEF TypeOK
  <2> QED
    BY <1>2, <2>1 DEF Remove
<1>3. CASE Receive
  BY <1>3 DEF Receive
<1>4. CASE Suspect
  BY <1>4 DEF Suspect
<1>5. CASE Compare
  BY <1>5 DEF Compare
<1>6. ASSUME NEW p \in Path, Expire(p) PROVE OwnKnown'
  BY <1>6 DEF Expire
<1>7. CASE Disable
  BY <1>7 DEF Disable
<1>8. CASE Enable
  BY <1>8 DEF Enable
<1>9. CASE Reload
  BY <1>9 DEF Reload
<1>10. CASE Register
  BY <1>10 DEF Register
<1>11. CASE Consume
  BY <1>11 DEF Consume
<1>12. CASE Recover
  BY <1>12 DEF Recover
<1>13. CASE FullDue
  BY <1>13 DEF FullDue
<1>14. CASE Flush
  BY <1>14 DEF Flush
<1>15. CASE Stop
  BY <1>15 DEF Stop
<1>16. CASE Start
  BY <1>16 DEF Start
<1>17. ASSUME NEW audit \in BOOLEAN, NEW asked \in SUBSET Path, Open(audit, asked) PROVE OwnKnown'
  BY <1>17 DEF Open
<1>18. ASSUME NEW p \in Path, Hash(p) PROVE OwnKnown'
  <2>1. seen \in [Path -> Content]
    BY DEF TypeOK
  <2> QED
    BY <1>18, <2>1 DEF Hash
<1>19. CASE DeltaDone
  BY <1>19 DEF DeltaDone
<1>20. CASE ScanDone
  BY <1>20 DEF ScanDone
<1>21. CASE Close
  BY <1>21 DEF Close
<1>22. ASSUME NEW p \in Path, NEW c \in Received, InstallRegister(p, c) PROVE OwnKnown'
  BY <1>22 DEF InstallRegister
<1>23. CASE InstallPublish
  <2>1. file \in [Path -> Content] /\ seen \in [Path -> Content]
    BY DEF TypeOK
  <2> QED
    BY <1>23, <2>1 DEF InstallPublish
<1>24. CASE InstallComplete
  BY <1>24 DEF InstallComplete
<1>25. CASE InstallHint
  BY <1>25 DEF InstallHint
<1>26. CASE UNCHANGED vars
  BY <1>26 DEF vars
<1> QED
  BY <1>1, <1>2, <1>3, <1>4, <1>5, <1>6, <1>7, <1>8, <1>9, <1>10, <1>11, <1>12, <1>13,
    <1>14, <1>15, <1>16, <1>17, <1>18, <1>19, <1>20, <1>21, <1>22, <1>23, <1>24, <1>25,
    <1>26
  DEF Next, User, NotifyThread, ServeLoop, Round

LEMMA PlaceStep == TypeOK /\ Compared /\ WatchedUp /\ Placed /\ [Next]_vars => Compared' /\ WatchedUp' /\ Placed'
<1> SUFFICES ASSUME TypeOK /\ Compared /\ WatchedUp /\ Placed, [Next]_vars PROVE Compared' /\ WatchedUp' /\ Placed'
  OBVIOUS
<1> USE WatchAssumption DEF Compared, WatchedUp, Placed, folder, ingress, serve, store
<1>1. ASSUME NEW p \in Path, NEW v \in Version, Save(p, v) PROVE Compared' /\ WatchedUp' /\ Placed'
  BY <1>1 DEF Save
<1>2. ASSUME NEW p \in Path, Remove(p) PROVE Compared' /\ WatchedUp' /\ Placed'
  BY <1>2 DEF Remove
<1>3. CASE Receive
  BY <1>3 DEF Receive
<1>4. CASE Suspect
  <2>1. Head(raw).path \in Path \cup {Tree}
    BY <1>4, TailCarries DEF Suspect, TypeOK, Event
  <2> QED
    BY <1>4, <2>1 DEF Suspect, Known, Checked
<1>5. CASE Compare
  BY <1>5 DEF Compare, NoCheck, Checked
<1>6. ASSUME NEW p \in Path, Expire(p) PROVE Compared' /\ WatchedUp' /\ Placed'
  BY <1>6 DEF Expire
<1>7. CASE Disable
  BY <1>7 DEF Disable
<1>8. CASE Enable
  BY <1>8 DEF Enable
<1>9. CASE Reload
  BY <1>9 DEF Reload
<1>10. CASE Register
  BY <1>10 DEF Register
<1>11. CASE Consume
  BY <1>11 DEF Consume
<1>12. CASE Recover
  BY <1>12 DEF Recover
<1>13. CASE FullDue
  BY <1>13 DEF FullDue
<1>14. CASE Flush
  BY <1>14 DEF Flush
<1>15. CASE Stop
  BY <1>15 DEF Stop, NoCheck, Checked, NoInstall
<1>16. CASE Start
  BY <1>16 DEF Start
<1>17. ASSUME NEW audit \in BOOLEAN, NEW asked \in SUBSET Path, Open(audit, asked) PROVE Compared' /\ WatchedUp' /\ Placed'
  BY <1>17 DEF Open
<1>18. ASSUME NEW p \in Path, Hash(p) PROVE Compared' /\ WatchedUp' /\ Placed'
  BY <1>18 DEF Hash
<1>19. CASE DeltaDone
  BY <1>19 DEF DeltaDone
<1>20. CASE ScanDone
  BY <1>20 DEF ScanDone
<1>21. CASE Close
  BY <1>21 DEF Close, NoInstall
<1>22. ASSUME NEW p \in Path, NEW c \in Received, InstallRegister(p, c) PROVE Compared' /\ WatchedUp' /\ Placed'
  BY <1>22 DEF InstallRegister
<1>23. CASE InstallPublish
  BY <1>23 DEF InstallPublish
<1>24. CASE InstallComplete
  BY <1>24 DEF InstallComplete
<1>25. CASE InstallHint
  BY <1>25 DEF InstallHint, NoInstall
<1>26. CASE UNCHANGED vars
  BY <1>26 DEF vars
<1> QED
  BY <1>1, <1>2, <1>3, <1>4, <1>5, <1>6, <1>7, <1>8, <1>9, <1>10, <1>11, <1>12, <1>13,
    <1>14, <1>15, <1>16, <1>17, <1>18, <1>19, <1>20, <1>21, <1>22, <1>23, <1>24, <1>25,
    <1>26
  DEF Next, User, NotifyThread, ServeLoop, Round

-----------------------------------------------------------------------------
(* Memory.                                                                 *)

LEMMA Kept ==
  ASSUME ChangeRemembered, ScanKnows,
         \A p \in Path : Safe(p) => Safe(p)' \/ (phase' # "hash" /\ Names(hint, p)'),
         \A p \in Path : Names(hint, p) => Names(hint, p)' \/ Safe(p)',
         phase' = "hash" => phase = "hash" /\ scope' = scope
  PROVE  ChangeRemembered' /\ ScanKnows'
<1>1. ChangeRemembered'
  <2>1. \A p \in Path : Safe(p) \/ Names(hint, p)
    BY DEF ChangeRemembered, Safe
  <2>2. \A p \in Path : Safe(p)' \/ Names(hint, p)'
    BY <2>1
  <2> QED
    BY <2>2 DEF ChangeRemembered, Safe
<1>2. ScanKnows'
  BY DEF ScanKnows
<1> QED
  BY <1>1, <1>2

LEMMA MemoryStep == HInv /\ [Next]_vars => ChangeRemembered' /\ ScanKnows'
<1> SUFFICES ASSUME HInv, [Next]_vars PROVE ChangeRemembered' /\ ScanKnows'
  OBVIOUS
<1> USE DEF HInv, folder, ingress, serve, store
<1>1. ASSUME NEW p \in Path, NEW v \in Version, Save(p, v) PROVE ChangeRemembered' /\ ScanKnows'
  <2> DEFINE e == [path |-> p, structural |-> FALSE]
  <2>0. e \in Event /\ e.path = p
    BY DEF Event
  <2>3. Report(e)
    BY <1>1 DEF Save
  <2>4. (\A q : Carries(raw, q) => Carries(raw', q)) /\ (Observed => Carries(raw', p))
    BY <2>0, <2>3, ReportCarries
  <2>5. file \in [Path -> Content]
    BY DEF TypeOK
  <2>1. ASSUME NEW q \in Path, Safe(q) PROVE Safe(q)'
    BY <1>1, <2>1, <2>4, <2>5 DEF Save, Safe, OnTheWay, Unwatched, Observed, Names
  <2>2. \A q : Names(hint, q) => Names(hint, q)'
    BY <1>1 DEF Save, Names
  <2> QED
    BY <1>1, <2>1, <2>2, Kept DEF Save
<1>2. ASSUME NEW p \in Path, Remove(p) PROVE ChangeRemembered' /\ ScanKnows'
  <2> DEFINE e == [path |-> p, structural |-> TRUE]
  <2>0. e \in Event /\ e.path = p
    BY DEF Event
  <2>3. Report(e)
    BY <1>2 DEF Remove
  <2>4. (\A q : Carries(raw, q) => Carries(raw', q)) /\ (Observed => Carries(raw', p))
    BY <2>0, <2>3, ReportCarries
  <2>5. file \in [Path -> Content]
    BY DEF TypeOK
  <2>1. ASSUME NEW q \in Path, Safe(q) PROVE Safe(q)'
    BY <1>2, <2>1, <2>4, <2>5 DEF Remove, Safe, OnTheWay, Unwatched, Observed, Names
  <2>2. \A q : Names(hint, q) => Names(hint, q)'
    BY <1>2 DEF Remove, Names
  <2> QED
    BY <1>2, <2>1, <2>2, Kept DEF Remove
<1>3. CASE Receive
  <2>3. Head(raw) \in Event /\ \A q : Carries(raw, q) => Head(raw).path \in {q, Tree} \/ Carries(Tail(raw), q)
    BY <1>3, TailCarries DEF Receive, TypeOK
  <2>4. /\ recovery => recovery'
        /\ \A q : Carries(queue, q) => Carries(queue', q)
        /\ \A q : Head(raw).path \in {q, Tree} => Carries(queue', q) \/ recovery'
    BY <1>3, <2>3, EnqueueCarries DEF Receive
  <2>1. ASSUME NEW q \in Path, Safe(q) PROVE Safe(q)'
    BY <1>3, <2>1, <2>3, <2>4 DEF Receive, Safe, OnTheWay, Unwatched, Names
  <2>2. \A q : Names(hint, q) => Names(hint, q)'
    BY <1>3 DEF Receive, Names
  <2> QED
    BY <1>3, <2>1, <2>2, Kept DEF Receive
<1>4. CASE Suspect
  <2>3. Head(raw) \in Event /\ \A q : Carries(raw, q) => Head(raw).path \in {q, Tree} \/ Carries(Tail(raw), q)
    BY <1>4, TailCarries DEF Suspect, TypeOK
  <2>4. Head(raw).path # Tree /\ registry[Head(raw).path].entry # Nothing
    BY <1>4 DEF Suspect, Known
  <2>1. ASSUME NEW q \in Path, Safe(q) PROVE Safe(q)'
    BY <1>4, <2>1, <2>3, <2>4 DEF Suspect, Checked, Safe, OnTheWay, Unwatched, Names
  <2>2. \A q : Names(hint, q) => Names(hint, q)'
    BY <1>4 DEF Suspect, Names
  <2> QED
    BY <1>4, <2>1, <2>2, Kept DEF Suspect
<1>5. CASE Compare
  <2> DEFINE own == checking.event.path
  <2>3. own \in Path /\ checking.event \in Event /\ checking.entry \in Received
    BY <1>5 DEF Compare, Compared, TypeOK
  <2>4. CASE file[own] = checking.entry
    <3>1. file[own] = seen[own]
      BY <2>3, <2>4 DEF OwnKnown
    <3>2. ASSUME NEW q \in Path, Safe(q) PROVE Safe(q)'
      BY <1>5, <2>4, <3>1, <3>2 DEF Compare, Safe, OnTheWay, Unwatched, Names
    <3>3. \A q : Names(hint, q) => Names(hint, q)'
      BY <1>5 DEF Compare
    <3> QED
      BY <1>5, <3>2, <3>3, Kept DEF Compare
  <2>5. CASE file[own] # checking.entry
    <3>1. /\ recovery => recovery'
          /\ \A q : Carries(queue, q) => Carries(queue', q)
          /\ \A q : own \in {q, Tree} => Carries(queue', q) \/ recovery'
      BY <1>5, <2>3, <2>5, EnqueueCarries DEF Compare
    <3>2. ASSUME NEW q \in Path, Safe(q) PROVE Safe(q)'
      BY <1>5, <3>1, <3>2 DEF Compare, Safe, OnTheWay, Unwatched, Names
    <3>3. \A q : Names(hint, q) => Names(hint, q)'
      BY <1>5 DEF Compare
    <3> QED
      BY <1>5, <3>2, <3>3, Kept DEF Compare
  <2> QED
    BY <2>4, <2>5
<1>6. ASSUME NEW p \in Path, Expire(p) PROVE ChangeRemembered' /\ ScanKnows'
  <2>1. ASSUME NEW q \in Path, Safe(q) PROVE Safe(q)'
    BY <1>6, <2>1 DEF Expire, Safe, OnTheWay, Unwatched, Names
  <2>2. \A q : Names(hint, q) => Names(hint, q)'
    BY <1>6 DEF Expire, Names
  <2> QED
    BY <1>6, <2>1, <2>2, Kept DEF Expire
<1>7. CASE Disable
  <2>1. ASSUME NEW q \in Path, Safe(q) PROVE Safe(q)'
    BY <1>7, <2>1 DEF Disable, Safe, OnTheWay, Unwatched, Names
  <2>2. \A q : Names(hint, q) => Names(hint, q)'
    BY <1>7 DEF Disable, Names
  <2> QED
    BY <1>7, <2>1, <2>2, Kept DEF Disable
<1>8. CASE Enable
  <2>1. ASSUME NEW q \in Path, Safe(q) PROVE Safe(q)'
    BY <1>8, <2>1 DEF Enable, Safe, OnTheWay, Unwatched, Names
  <2>2. \A q : Names(hint, q) => Names(hint, q)'
    BY <1>8 DEF Enable, Names
  <2> QED
    BY <1>8, <2>1, <2>2, Kept DEF Enable
<1>9. CASE Reload
  <2>1. ASSUME NEW q \in Path, Safe(q) PROVE Safe(q)'
    BY <1>9, <2>1 DEF Reload, Safe, OnTheWay, Unwatched, Names
  <2>2. \A q : Names(hint, q) => Names(hint, q)'
    BY <1>9 DEF Reload, Names
  <2> QED
    BY <1>9, <2>1, <2>2, Kept DEF Reload
<1>10. CASE Register
  <2>1. \A q : Names(hint, q)'
    BY <1>10 DEF Register, Names
  <2> QED
    BY <1>10, <2>1, Kept DEF Register, LockFree
<1>11. CASE Consume
  <2> DEFINE e == Head(queue)
  <2>3. e \in Event /\ \A q : Carries(queue, q) => e.path \in {q, Tree} \/ Carries(Tail(queue), q)
    BY <1>11, TailCarries DEF Consume, TypeOK
  <2>4. CASE ~watched
    <3>1. ASSUME NEW q \in Path PROVE Safe(q)'
      BY <1>11, <2>4 DEF Consume, Safe, Unwatched
    <3> QED
      BY <1>11, <3>1, Kept DEF Consume
  <2>5. CASE watched /\ e.path # Tree /\ Internal(e.path)
    <3>1. e.path \in Path /\ registry[e.path].entry \in Received
      BY <2>3, <2>5 DEF Event, Internal, Known, TypeOK
    <3>2. file[e.path] = seen[e.path]
      BY <3>1, <2>5 DEF Internal, OwnKnown
    <3>3. ASSUME NEW q \in Path, Safe(q) PROVE Safe(q)'
      BY <1>11, <2>3, <2>5, <3>2, <3>3 DEF Consume, Safe, OnTheWay, Unwatched, Names
    <3>4. \A q : Names(hint, q) => Names(hint, q)'
      BY <1>11 DEF Consume
    <3> QED
      BY <1>11, <3>3, <3>4, Kept DEF Consume
  <2>6. CASE watched /\ ~(e.path # Tree /\ Internal(e.path))
    <3>1. dirty' = IF e.structural THEN {Tree} ELSE Marked(dirty \cup {e.path})
      BY <1>11, <2>6 DEF Consume
    <3>2. \A q : Names(dirty, q) \/ e.path \in {q, Tree} => Names(dirty', q)
      BY <3>1 DEF Names, Marked
    <3>3. ASSUME NEW q \in Path, Safe(q) PROVE Safe(q)'
      BY <1>11, <2>3, <3>2, <3>3 DEF Consume, Safe, OnTheWay, Unwatched, Names
    <3>4. \A q : Names(hint, q) => Names(hint, q)'
      BY <1>11 DEF Consume
    <3> QED
      BY <1>11, <3>3, <3>4, Kept DEF Consume
  <2> QED
    BY <2>4, <2>5, <2>6
<1>12. CASE Recover
  <2>1. ASSUME NEW q \in Path, Safe(q) PROVE Safe(q)'
    BY <1>12, <2>1 DEF Recover, Safe, OnTheWay, Unwatched, Names
  <2>2. \A q : Names(hint, q) => Names(hint, q)'
    BY <1>12 DEF Recover, Names
  <2> QED
    BY <1>12, <2>1, <2>2, Kept DEF Recover
<1>13. CASE FullDue
  <2>1. ASSUME NEW q \in Path, Safe(q) PROVE Safe(q)'
    BY <1>13, <2>1 DEF FullDue, Safe, OnTheWay, Unwatched, Names
  <2>2. \A q : Names(hint, q) => Names(hint, q)'
    BY <1>13 DEF FullDue, Names
  <2> QED
    BY <1>13, <2>1, <2>2, Kept DEF FullDue
<1>14. CASE Flush
  <2>1. \A q : Names(hint, q) \/ Names(dirty, q) => Names(hint, q)'
    BY <1>14 DEF Flush, Names, Marked
  <2>2. ASSUME NEW q \in Path, Safe(q) PROVE Safe(q)' \/ Names(hint, q)'
    BY <1>14, <2>1, <2>2 DEF Flush, Safe, OnTheWay, Unwatched
  <2> QED
    BY <1>14, <2>1, <2>2, Kept DEF Flush, LockFree
<1>15. CASE Stop
  <2>1. ASSUME NEW q \in Path, Safe(q) PROVE Safe(q)'
    BY <1>15, <2>1 DEF Stop, Safe, OnTheWay, Unwatched, Names
  <2>2. \A q : Names(hint, q) => Names(hint, q)'
    BY <1>15 DEF Stop, Names
  <2> QED
    BY <1>15, <2>1, <2>2, Kept DEF Stop
<1>16. CASE Start
  <2>1. ASSUME NEW q \in Path, Safe(q) PROVE Safe(q)'
    BY <1>16, <2>1 DEF Start, Safe, OnTheWay, Unwatched, Names, WatchedUp
  <2>2. \A q : Names(hint, q) => Names(hint, q)'
    BY <1>16 DEF Start, Names
  <2> QED
    BY <1>16, <2>1, <2>2, Kept DEF Start
<1>17. ASSUME NEW audit \in BOOLEAN, NEW asked \in SUBSET Path, Open(audit, asked) PROVE ChangeRemembered' /\ ScanKnows'
  <2>1. \A q \in Path : (Safe(q) => Safe(q)') /\ (Names(hint, q) => Names(hint, q)')
    BY <1>17 DEF Open, Safe, OnTheWay, Unwatched, Names
  <2>2. ChangeRemembered'
    BY <2>1 DEF ChangeRemembered, Safe
  <2>3. ScanKnows'
    BY <1>17 DEF Open, ScanKnows
  <2> QED
    BY <2>2, <2>3
<1>18. ASSUME NEW p \in Path, Hash(p) PROVE ChangeRemembered' /\ ScanKnows'
  <2>0. seen \in [Path -> Content]
    BY DEF TypeOK
  <2>1. \A q \in Path : Safe(q) \/ q = p => Safe(q)'
    BY <1>18, <2>0 DEF Hash, Safe, OnTheWay, Unwatched, Names
  <2>2. ChangeRemembered'
    BY <1>18, <2>1 DEF Hash, ChangeRemembered, Safe, Names
  <2>3. ScanKnows'
    BY <1>18, <2>1 DEF Hash, ScanKnows
  <2> QED
    BY <2>2, <2>3
<1>19. CASE DeltaDone
  <2>1. ASSUME NEW q \in Path, Safe(q) PROVE Safe(q)'
    BY <1>19, <2>1 DEF DeltaDone, Safe, OnTheWay, Unwatched, Names
  <2>2. \A q : Names(hint, q) => Names(hint, q)'
    BY <1>19 DEF DeltaDone, Names
  <2> QED
    BY <1>19, <2>1, <2>2, Kept DEF DeltaDone
<1>20. CASE ScanDone
  <2>1. \A q \in Path : Safe(q)
    BY <1>20 DEF ScanDone, ScanKnows
  <2>2. \A q \in Path : Safe(q)'
    BY <1>20, <2>1 DEF ScanDone, Safe, OnTheWay, Unwatched, Names
  <2> QED
    BY <1>20, <2>2 DEF ScanDone, ChangeRemembered, ScanKnows, Safe
<1>21. CASE Close
  <2>1. ASSUME NEW q \in Path, Safe(q) PROVE Safe(q)'
    BY <1>21, <2>1 DEF Close, Safe, OnTheWay, Unwatched, Names
  <2>2. \A q : Names(hint, q) => Names(hint, q)'
    BY <1>21 DEF Close, Names
  <2> QED
    BY <1>21, <2>1, <2>2, Kept DEF Close
<1>22. ASSUME NEW p \in Path, NEW c \in Received, InstallRegister(p, c) PROVE ChangeRemembered' /\ ScanKnows'
  <2>1. ASSUME NEW q \in Path, Safe(q) PROVE Safe(q)'
    BY <1>22, <2>1 DEF InstallRegister, Safe, OnTheWay, Unwatched, Names
  <2>2. \A q : Names(hint, q) => Names(hint, q)'
    BY <1>22 DEF InstallRegister, Names
  <2> QED
    BY <1>22, <2>1, <2>2, Kept DEF InstallRegister
<1>23. CASE InstallPublish
  <2> DEFINE e == [path |-> installing.path, structural |-> FALSE]
  <2>0. installing.path \in Path /\ e \in Event
    BY <1>23 DEF InstallPublish, Placed, Event
  <2>3. Report(e)
    BY <1>23 DEF InstallPublish
  <2>4. \A q : Carries(raw, q) => Carries(raw', q)
    BY <2>0, <2>3, ReportCarries
  <2>5. file \in [Path -> Content] /\ seen \in [Path -> Content]
    BY DEF TypeOK
  <2>1. ASSUME NEW q \in Path, Safe(q) PROVE Safe(q)'
    BY <1>23, <2>0, <2>1, <2>4, <2>5 DEF InstallPublish, Safe, OnTheWay, Unwatched, Names
  <2>2. \A q : Names(hint, q) => Names(hint, q)'
    BY <1>23 DEF InstallPublish, Names
  <2> QED
    BY <1>23, <2>1, <2>2, Kept DEF InstallPublish
<1>24. CASE InstallComplete
  <2>1. ASSUME NEW q \in Path, Safe(q) PROVE Safe(q)'
    BY <1>24, <2>1 DEF InstallComplete, Safe, OnTheWay, Unwatched, Names
  <2>2. \A q : Names(hint, q) => Names(hint, q)'
    BY <1>24 DEF InstallComplete, Names
  <2> QED
    BY <1>24, <2>1, <2>2, Kept DEF InstallComplete
<1>25. CASE InstallHint
  <2>1. ASSUME NEW q \in Path, Safe(q) PROVE Safe(q)'
    BY <1>25, <2>1 DEF InstallHint, Safe, OnTheWay, Unwatched, Names
  <2>2. \A q : Names(hint, q) => Names(hint, q)'
    BY <1>25 DEF InstallHint, Names, Marked
  <2> QED
    BY <1>25, <2>1, <2>2, Kept DEF InstallHint
<1>26. CASE UNCHANGED vars
  <2>1. ASSUME NEW q \in Path PROVE (Safe(q) => Safe(q)') /\ (Names(hint, q) => Names(hint, q)')
    BY <1>26 DEF vars, Safe, OnTheWay, Unwatched, Names
  <2> QED
    BY <1>26, <2>1, Kept DEF vars
<1> QED
  BY <1>1, <1>2, <1>3, <1>4, <1>5, <1>6, <1>7, <1>8, <1>9, <1>10, <1>11, <1>12, <1>13,
    <1>14, <1>15, <1>16, <1>17, <1>18, <1>19, <1>20, <1>21, <1>22, <1>23, <1>24, <1>25,
    <1>26
  DEF Next, User, NotifyThread, ServeLoop, Round

LEMMA HInit == Init => HInv
<1> SUFFICES ASSUME Init PROVE HInv
  OBVIOUS
<1> USE WatchAssumption DEF Init
<1>1. TypeOK
  <2>1. file \in [Path -> Content] /\ seen \in [Path -> Content] /\ unsaved \subseteq Version
    BY DEF Content
  <2>2. raw \in Seq(Event) /\ Len(raw) <= EventMax /\ queue \in Seq(Event) /\ Len(queue) <= QueueMax
    OBVIOUS
  <2>3. checking \in [event : Event, entry : Received \cup {Nothing}]
    BY DEF NoCheck, Checked, Event
  <2>4. registry \in [Path -> [entry : Received \cup {Nothing}, finished : BOOLEAN]]
    BY DEF NoWrite
  <2> QED
    BY <2>1, <2>2, <2>3, <2>4 DEF TypeOK, NoInstall
<1>2. OwnKnown /\ Compared /\ WatchedUp /\ Placed
  BY DEF OwnKnown, Compared, WatchedUp, Placed, NoCheck, Checked, NoInstall
<1>3. ChangeRemembered /\ ScanKnows
  BY DEF ChangeRemembered, Unwatched, ScanKnows
<1> QED
  BY <1>1, <1>2, <1>3 DEF HInv

LEMMA HAlways == Spec => []HInv
<1>1. HInv /\ [Next]_vars => HInv'
  BY TypeStep, OwnStep, PlaceStep, MemoryStep DEF HInv
<1> HIDE DEF HInv
<1> QED
  BY <1>1, HInit, PTL DEF Spec

\* Types: queues within their bounds, hints and marks that name paths.
THEOREM WatchTypes == Spec => []TypeOK
<1>1. HInv => TypeOK
  BY DEF HInv
<1> QED
  BY <1>1, HAlways, PTL

\* No change is forgotten before a scan has read it, whatever the queues
\* lose, whoever holds the lock and however often the loop stops
\* (Ingress::send, internal_writes::matches, queue_cache_invalidation).
THEOREM ChangesAreRemembered == Spec => []ChangeRemembered
<1>1. HInv => ChangeRemembered
  BY DEF HInv
<1> QED
  BY <1>1, HAlways, PTL

-----------------------------------------------------------------------------
\* The type invariant of Schedule, in parts.
Flags ==
  /\ narrowed \in BOOLEAN /\ preempted \in BOOLEAN /\ online \in BOOLEAN
  /\ due \in BOOLEAN /\ auditDue \in BOOLEAN /\ auditDeferred \in BOOLEAN

ShareSets ==
  /\ collected \subseteq Share /\ newer \subseteq Share
  /\ channel \subseteq Share /\ wire \subseteq Share
  /\ focus \subseteq Share /\ excluded \subseteq Share /\ remaining \subseteq Share
  /\ completed \subseteq Share /\ told \subseteq Share

Maps ==
  /\ pcSide \in [Share -> SUBSET {"hinted", "read"}]
  /\ phoneSide \in [Share -> {"same", "read", "changed"}]
  /\ urgent \in [Share -> {"none", "pending", "delivered"}]
  /\ mark \in [Share -> {"none", "old", "new"}]

Others ==
  /\ faults \in 0 .. FaultMax
  /\ request \in Rounds!Request \cup {None} /\ attempt \in Rounds!Request \cup {None}
  /\ all \in {"none", "old", "new"} /\ cursor \in DOMAIN Rotation
  /\ step \in {"idle", "asked", "ready", "gate", "work", "done", "deferred"}
  /\ kind \in {"focused", "periodic", "all"} /\ current \in Share \cup {None}

\* Together they are all of it.
LEMMA TypeParts == Rounds!TypeOK <=> Flags /\ ShareSets /\ Maps /\ Others
BY DEF Rounds!TypeOK, Flags, ShareSets, Maps, Others

\* A round is accepted and the pass has not taken note of its end.
InRound == step \in {"ready", "gate", "work", "done", "deferred"}

Visiting == step \in {"gate", "work"}

\* What is read is of the Share being visited, and an old order for all of
\* them makes the pass one over all.
Settled ==
  /\ Visiting => current \in Share /\ pcSide[current] \subseteq {"read"}
  /\ ~Visiting => current = None
  /\ step \in {"idle", "asked"} => told = {}
  /\ \A s \in Share : "read" \in pcSide[s] \/ phoneSide[s] = "read" => Visiting /\ current = s
  /\ step # "idle" /\ all = "old" => kind = "all" /\ focus = Share

\* A change on the phone is marked, as new if a visit came before it.
PhoneOwed ==
  /\ \A s \in Share : phoneSide[s] # "same" => mark[s] # "none"
  /\ \A s \in completed : mark[s] = "old" => phoneSide[s] = "same"
  /\ Visiting /\ phoneSide[current] = "changed" => mark[current] = "new"

\* A Share delivered to the phone is told of until its mark is there.
Delivered ==
  /\ step \in {"ready", "gate", "work", "done"} => Rounds!Committed
  /\ faults = 0 => \A s \in Share : urgent[s] = "delivered" =>
       IF step = "deferred" THEN s \in told ELSE mark[s] # "none"

\* Before the first fault, only the first session has not begun yet.
Faultless ==
  faults = 0 =>
    /\ InRound => online
    /\ ~online => all # "none"
    /\ excluded = {}
    /\ step = "asked" => completed = {}

\* Neither a fault nor a request that narrowed a round has lost anything.
Calm == faults = 0 /\ ~narrowed

\* A round divides the Shares of its pass into visited, being visited and
\* still to visit.
Divided ==
  Calm =>
    /\ InRound /\ step # "deferred" => focus \subseteq completed \cup remaining \cup {current}
    /\ remaining \cap completed = {} /\ current \notin remaining \cup completed
    /\ step = "done" => remaining = {}

\* A change on the PC, read or not, is announced or marked; after its Share
\* was visited it is announced again.
PcOwed ==
  Calm =>
    /\ \A s \in Share : pcSide[s] # {} =>
         \/ s \in channel \cup wire \cup told
         \/ mark[s] # "none" \/ all # "none"
    /\ \A s \in completed : InRound /\ pcSide[s] # {} => s \in channel \cup wire \cup told

SInv == Rounds!TypeOK /\ Settled /\ PhoneOwed /\ Delivered /\ Faultless /\ Divided /\ PcOwed

\* serve collects a change; no visit has read anything else for it.
LEMMA PcEditKeeps ==
  ASSUME Rounds!ScheduleAssumption, SInv, NEW s \in Share, Rounds!PcEdit(s)
  PROVE  SInv'
<1>. USE DEF Rounds!folders, Rounds!server, Rounds!phone, Rounds!round
<1>1. Rounds!TypeOK'
  <2>1. collected' \subseteq Share
    BY DEF SInv, Rounds!TypeOK, Rounds!PcEdit, Rounds!Locked
  <2>2. newer' \subseteq Share
    BY DEF SInv, Rounds!TypeOK, Rounds!PcEdit, Rounds!Locked
  <2>3. Flags'
    BY <2>1, <2>2 DEF SInv, Rounds!TypeOK, Flags, Rounds!PcEdit, Rounds!Locked
  <2>4. ShareSets'
    BY <2>1, <2>2 DEF SInv, Rounds!TypeOK, ShareSets, Rounds!PcEdit, Rounds!Locked
  <2>5. Maps'
    BY <2>1, <2>2 DEF SInv, Rounds!TypeOK, Maps, Rounds!PcEdit, Rounds!Locked
  <2>6. Others'
    BY <2>1, <2>2 DEF SInv, Rounds!TypeOK, Others, Rounds!PcEdit, Rounds!Locked
  <2>. QED
    BY <2>3, <2>4, <2>5, <2>6 DEF Rounds!TypeOK, Flags, ShareSets, Maps, Others
<1>2. Settled'
  BY DEF SInv, Rounds!TypeOK, Settled, Visiting, Rounds!PcEdit, Rounds!Locked
<1>3. PhoneOwed'
  BY DEF SInv, Rounds!TypeOK, Settled, PhoneOwed, Visiting, Rounds!PcEdit, Rounds!Locked
<1>4. Delivered'
  BY DEF SInv, Rounds!TypeOK, Settled, Delivered, Faultless, Rounds!Committed,
    Rounds!PcEdit, Rounds!Locked
<1>5. Faultless'
  BY DEF SInv, Rounds!TypeOK, Settled, Faultless, InRound, Rounds!PcEdit, Rounds!Locked
<1>6. Divided'
  BY DEF SInv, Rounds!TypeOK, Settled, Faultless, Divided, Calm, InRound, Visiting,
    Rounds!PcEdit, Rounds!Locked
<1>7. PcOwed'
  BY DEF SInv, Rounds!TypeOK, Settled, Delivered, Faultless, Divided, PcOwed, Calm,
    InRound, Visiting, Rounds!Committed, Rounds!PcEdit, Rounds!Locked
<1>. QED
  BY <1>1, <1>2, <1>3, <1>4, <1>5, <1>6, <1>7 DEF SInv

\* A change on the phone is marked as new at once.
LEMMA PhoneEditKeeps ==
  ASSUME Rounds!ScheduleAssumption, SInv, NEW s \in Share, Rounds!PhoneEdit(s)
  PROVE  SInv'
<1>. USE DEF Rounds!folders, Rounds!server, Rounds!phone, Rounds!round
<1>1. Rounds!TypeOK'
  <2>1. mark' \in [Share -> {"none", "old", "new"}]
    BY DEF SInv, Rounds!TypeOK, Rounds!PhoneEdit, Rounds!Wake
  <2>2. Flags'
    BY <2>1 DEF SInv, Rounds!TypeOK, Flags, Rounds!PhoneEdit, Rounds!Wake
  <2>3. ShareSets'
    BY <2>1 DEF SInv, Rounds!TypeOK, ShareSets, Rounds!PhoneEdit, Rounds!Wake
  <2>4. Maps'
    BY <2>1 DEF SInv, Rounds!TypeOK, Maps, Rounds!PhoneEdit, Rounds!Wake
  <2>5. Others'
    BY <2>1 DEF SInv, Rounds!TypeOK, Others, Rounds!PhoneEdit, Rounds!Wake
  <2>. QED
    BY <2>2, <2>3, <2>4, <2>5 DEF Rounds!TypeOK, Flags, ShareSets, Maps, Others
<1>2. Settled'
  BY DEF SInv, Rounds!TypeOK, Settled, Visiting, Rounds!PhoneEdit, Rounds!Wake
<1>3. PhoneOwed'
  BY DEF SInv, Rounds!TypeOK, Settled, PhoneOwed, Visiting, Rounds!PhoneEdit, Rounds!Wake
<1>4. Delivered'
  BY DEF SInv, Rounds!TypeOK, Settled, Delivered, Faultless, Rounds!Committed,
    Rounds!PhoneEdit, Rounds!Wake
<1>5. Faultless'
  BY DEF SInv, Rounds!TypeOK, Settled, Faultless, InRound, Rounds!PhoneEdit, Rounds!Wake
<1>6. Divided'
  BY DEF SInv, Rounds!TypeOK, Settled, Faultless, Divided, Calm, InRound, Visiting,
    Rounds!PhoneEdit, Rounds!Wake
<1>7. PcOwed'
  <2>. SUFFICES ASSUME Calm PROVE PcOwed'
    BY DEF PcOwed, Calm, Rounds!PhoneEdit
  <2>1. UNCHANGED <<pcSide, channel, wire, told, all, completed, step>>
    BY DEF Rounds!PhoneEdit
  <2>2. \A q \in Share : mark[q] # "none" => mark'[q] # "none"
    BY DEF SInv, Rounds!TypeOK, Rounds!PhoneEdit, Rounds!Wake
  <2>. QED
    BY <2>1, <2>2 DEF SInv, PcOwed, InRound
<1>. QED
  BY <1>1, <1>2, <1>3, <1>4, <1>5, <1>6, <1>7 DEF SInv

\* Waking all of them owes nothing less.
LEMMA WakeAllKeeps ==
  ASSUME Rounds!ScheduleAssumption, SInv, Rounds!WakeAll
  PROVE  SInv'
<1>. USE DEF Rounds!folders, Rounds!server, Rounds!phone, Rounds!round
<1>1. Rounds!TypeOK'
  <2>1. Flags'
    BY DEF SInv, Rounds!TypeOK, Flags, Rounds!WakeAll
  <2>2. ShareSets'
    BY DEF SInv, Rounds!TypeOK, ShareSets, Rounds!WakeAll
  <2>3. Maps'
    BY DEF SInv, Rounds!TypeOK, Maps, Rounds!WakeAll
  <2>4. Others'
    BY DEF SInv, Rounds!TypeOK, Others, Rounds!WakeAll
  <2>. QED
    BY <2>1, <2>2, <2>3, <2>4 DEF Rounds!TypeOK, Flags, ShareSets, Maps, Others
<1>2. Settled'
  BY DEF SInv, Rounds!TypeOK, Settled, Visiting, Rounds!WakeAll
<1>3. PhoneOwed'
  BY DEF SInv, Rounds!TypeOK, Settled, PhoneOwed, Visiting, Rounds!WakeAll
<1>4. Delivered'
  BY DEF SInv, Rounds!TypeOK, Settled, Delivered, Faultless, Rounds!Committed,
    Rounds!WakeAll
<1>5. Faultless'
  BY DEF SInv, Rounds!TypeOK, Settled, Faultless, InRound, Rounds!WakeAll
<1>6. Divided'
  BY DEF SInv, Rounds!TypeOK, Settled, Faultless, Divided, Calm, InRound, Visiting,
    Rounds!WakeAll
<1>7. PcOwed'
  BY DEF SInv, Rounds!TypeOK, Settled, Delivered, Faultless, Divided, PcOwed, Calm,
    InRound, Visiting, Rounds!Committed, Rounds!WakeAll
<1>. QED
  BY <1>1, <1>2, <1>3, <1>4, <1>5, <1>6, <1>7 DEF SInv

\* The audit's clock moves no change.
LEMMA AuditTickKeeps ==
  ASSUME Rounds!ScheduleAssumption, SInv, Rounds!AuditTick
  PROVE  SInv'
<1>. USE DEF Rounds!folders, Rounds!server, Rounds!phone, Rounds!round
<1>1. Rounds!TypeOK'
  <2>1. Flags'
    BY DEF SInv, Rounds!TypeOK, Flags, Rounds!AuditTick
  <2>2. ShareSets'
    BY DEF SInv, Rounds!TypeOK, ShareSets, Rounds!AuditTick
  <2>3. Maps'
    BY DEF SInv, Rounds!TypeOK, Maps, Rounds!AuditTick
  <2>4. Others'
    BY DEF SInv, Rounds!TypeOK, Others, Rounds!AuditTick
  <2>. QED
    BY <2>1, <2>2, <2>3, <2>4 DEF Rounds!TypeOK, Flags, ShareSets, Maps, Others
<1>2. Settled'
  BY DEF SInv, Rounds!TypeOK, Settled, Visiting, Rounds!AuditTick
<1>3. PhoneOwed'
  BY DEF SInv, Rounds!TypeOK, Settled, PhoneOwed, Visiting, Rounds!AuditTick
<1>4. Delivered'
  BY DEF SInv, Rounds!TypeOK, Settled, Delivered, Faultless, Rounds!Committed,
    Rounds!AuditTick
<1>5. Faultless'
  BY DEF SInv, Rounds!TypeOK, Settled, Faultless, InRound, Rounds!AuditTick
<1>6. Divided'
  BY DEF SInv, Rounds!TypeOK, Settled, Faultless, Divided, Calm, InRound, Visiting,
    Rounds!AuditTick
<1>7. PcOwed'
  BY DEF SInv, Rounds!TypeOK, Settled, Delivered, Faultless, Divided, PcOwed, Calm,
    InRound, Visiting, Rounds!Committed, Rounds!AuditTick
<1>. QED
  BY <1>1, <1>2, <1>3, <1>4, <1>5, <1>6, <1>7 DEF SInv

\* A request by hand moves no change.
LEMMA ManualRequestKeeps ==
  ASSUME Rounds!ScheduleAssumption, SInv, NEW s \in Share, Rounds!ManualRequest(s)
  PROVE  SInv'
<1>. USE DEF Rounds!folders, Rounds!server, Rounds!phone, Rounds!round
<1>1. Rounds!TypeOK'
  <2>1. request' \in Rounds!Request \cup {None}
    BY DEF SInv, Rounds!TypeOK, Rounds!ManualRequest, Rounds!Request
  <2>2. Flags'
    BY <2>1 DEF SInv, Rounds!TypeOK, Flags, Rounds!ManualRequest, Rounds!Request
  <2>3. ShareSets'
    BY <2>1 DEF SInv, Rounds!TypeOK, ShareSets, Rounds!ManualRequest, Rounds!Request
  <2>4. Maps'
    BY <2>1 DEF SInv, Rounds!TypeOK, Maps, Rounds!ManualRequest, Rounds!Request
  <2>5. Others'
    BY <2>1 DEF SInv, Rounds!TypeOK, Others, Rounds!ManualRequest, Rounds!Request
  <2>. QED
    BY <2>2, <2>3, <2>4, <2>5 DEF Rounds!TypeOK, Flags, ShareSets, Maps, Others
<1>2. Settled'
  BY DEF SInv, Rounds!TypeOK, Settled, Visiting, Rounds!ManualRequest, Rounds!Request
<1>3. PhoneOwed'
  BY DEF SInv, Rounds!TypeOK, Settled, PhoneOwed, Visiting, Rounds!ManualRequest,
    Rounds!Request
<1>4. Delivered'
  BY DEF SInv, Rounds!TypeOK, Settled, Delivered, Faultless, Rounds!Committed,
    Rounds!ManualRequest, Rounds!Request
<1>5. Faultless'
  BY DEF SInv, Rounds!TypeOK, Settled, Faultless, InRound, Rounds!ManualRequest,
    Rounds!Request
<1>6. Divided'
  BY DEF SInv, Rounds!TypeOK, Settled, Faultless, Divided, Calm, InRound, Visiting,
    Rounds!ManualRequest, Rounds!Request
<1>7. PcOwed'
  BY DEF SInv, Rounds!TypeOK, Settled, Delivered, Faultless, Divided, PcOwed, Calm,
    InRound, Visiting, Rounds!Committed, Rounds!ManualRequest, Rounds!Request
<1>. QED
  BY <1>1, <1>2, <1>3, <1>4, <1>5, <1>6, <1>7 DEF SInv

\* A Share becomes urgent only while a session holds the lock.
LEMMA MarkUrgentKeeps ==
  ASSUME Rounds!ScheduleAssumption, SInv, NEW s \in Share, Rounds!MarkUrgent(s)
  PROVE  SInv'
<1>. USE DEF Rounds!folders, Rounds!server, Rounds!phone, Rounds!round
<1>1. Rounds!TypeOK'
  <2>1. urgent' \in [Share -> {"none", "pending", "delivered"}]
    BY DEF SInv, Rounds!TypeOK, Rounds!MarkUrgent, Rounds!Locked
  <2>2. Flags'
    BY <2>1 DEF SInv, Rounds!TypeOK, Flags, Rounds!MarkUrgent, Rounds!Locked
  <2>3. ShareSets'
    BY <2>1 DEF SInv, Rounds!TypeOK, ShareSets, Rounds!MarkUrgent, Rounds!Locked
  <2>4. Maps'
    BY <2>1 DEF SInv, Rounds!TypeOK, Maps, Rounds!MarkUrgent, Rounds!Locked
  <2>5. Others'
    BY <2>1 DEF SInv, Rounds!TypeOK, Others, Rounds!MarkUrgent, Rounds!Locked
  <2>. QED
    BY <2>2, <2>3, <2>4, <2>5 DEF Rounds!TypeOK, Flags, ShareSets, Maps, Others
<1>2. Settled'
  BY DEF SInv, Rounds!TypeOK, Settled, Visiting, Rounds!MarkUrgent, Rounds!Locked
<1>3. PhoneOwed'
  BY DEF SInv, Rounds!TypeOK, Settled, PhoneOwed, Visiting, Rounds!MarkUrgent, Rounds!Locked
<1>4. Delivered'
  BY DEF SInv, Rounds!TypeOK, Settled, Delivered, Faultless, Rounds!Committed,
    Rounds!MarkUrgent, Rounds!Locked
<1>5. Faultless'
  BY DEF SInv, Rounds!TypeOK, Settled, Faultless, InRound, Rounds!MarkUrgent, Rounds!Locked
<1>6. Divided'
  BY DEF SInv, Rounds!TypeOK, Settled, Faultless, Divided, Calm, InRound, Visiting,
    Rounds!MarkUrgent, Rounds!Locked
<1>7. PcOwed'
  BY DEF SInv, Rounds!TypeOK, Settled, Delivered, Faultless, Divided, PcOwed, Calm,
    InRound, Visiting, Rounds!Committed, Rounds!MarkUrgent, Rounds!Locked
<1>. QED
  BY <1>1, <1>2, <1>3, <1>4, <1>5, <1>6, <1>7 DEF SInv

\* A hint that gets to the disk is announced, marked, or told at the end of
\* the round that delivered it.
LEMMA FlushKeeps ==
  ASSUME Rounds!ScheduleAssumption, SInv, NEW s \in Share, Rounds!Flush(s)
  PROVE  SInv'
<1>. USE DEF Rounds!folders, Rounds!server, Rounds!phone, Rounds!round
<1>1. Rounds!TypeOK'
  <2>1. pcSide' \in [Share -> SUBSET {"hinted", "read"}]
    BY DEF SInv, Rounds!TypeOK, Settled, Visiting, Rounds!Flush, Rounds!Locked
  <2>2. urgent' \in [Share -> {"none", "pending", "delivered"}]
    BY DEF SInv, Rounds!TypeOK, Rounds!Flush, Rounds!Locked
  <2>3. collected' \subseteq Share
    BY DEF SInv, Rounds!TypeOK, Rounds!Flush, Rounds!Locked
  <2>4. channel' \subseteq Share
    BY DEF SInv, Rounds!TypeOK, Rounds!Flush, Rounds!Locked
  <2>5. Flags'
    BY <2>1, <2>2, <2>3, <2>4 DEF SInv, Rounds!TypeOK, Flags, Rounds!Flush, Rounds!Locked
  <2>6. ShareSets'
    BY <2>1, <2>2, <2>3, <2>4
    DEF SInv, Rounds!TypeOK, ShareSets, Rounds!Flush, Rounds!Locked
  <2>7. Maps'
    BY <2>1, <2>2, <2>3, <2>4 DEF SInv, Rounds!TypeOK, Maps, Rounds!Flush, Rounds!Locked
  <2>8. Others'
    BY <2>1, <2>2, <2>3, <2>4 DEF SInv, Rounds!TypeOK, Others, Rounds!Flush, Rounds!Locked
  <2>. QED
    BY <2>5, <2>6, <2>7, <2>8 DEF Rounds!TypeOK, Flags, ShareSets, Maps, Others
<1>2. Settled'
  BY DEF SInv, Rounds!TypeOK, Settled, Visiting, Rounds!Flush, Rounds!Locked
<1>3. PhoneOwed'
  BY DEF SInv, Rounds!TypeOK, Settled, PhoneOwed, Visiting, Rounds!Flush, Rounds!Locked
<1>4. Delivered'
  BY DEF SInv, Rounds!TypeOK, Settled, Delivered, Faultless, Rounds!Committed,
    Rounds!Flush, Rounds!Locked
<1>5. Faultless'
  BY DEF SInv, Rounds!TypeOK, Settled, Faultless, InRound, Rounds!Flush, Rounds!Locked
<1>6. Divided'
  BY DEF SInv, Rounds!TypeOK, Settled, Faultless, Divided, Calm, InRound, Visiting,
    Rounds!Flush, Rounds!Locked
<1>7. PcOwed'
  <2>. SUFFICES ASSUME Calm PROVE PcOwed'
    BY DEF PcOwed, Calm, Rounds!Flush
  <2>1. \A q \in Share : q # s => pcSide'[q] = pcSide[q]
    BY DEF SInv, Rounds!TypeOK, Rounds!Flush
  <2>2. channel \subseteq channel' /\ (online /\ urgent[s] # "delivered" => s \in channel')
    BY DEF Rounds!Flush
  <2>3. UNCHANGED <<wire, told, mark, all, completed, step>>
    BY DEF Rounds!Flush
  <2>4. s \in channel' \cup wire \cup told \/ ((mark[s] # "none" \/ all # "none") /\ ~InRound)
    <3>1. CASE ~online
      BY <3>1 DEF SInv, Faultless, Calm
    <3>2. CASE online /\ urgent[s] # "delivered"
      BY <2>2, <3>2
    <3>3. CASE urgent[s] = "delivered"
      BY <3>3 DEF SInv, Delivered, Rounds!Committed, Calm, InRound
    <3>. QED
      BY <3>1, <3>2, <3>3
  <2>5. completed \subseteq Share
    BY DEF SInv, Rounds!TypeOK
  <2>6. \A q \in Share : q # s /\ pcSide'[q] # {} =>
          /\ q \in channel' \cup wire' \cup told' \/ mark'[q] # "none" \/ all' # "none"
          /\ q \in completed' /\ InRound' => q \in channel' \cup wire' \cup told'
    BY <2>1, <2>2, <2>3 DEF SInv, PcOwed, InRound
  <2>7. ~InRound => ~InRound'
    BY <2>3 DEF InRound
  <2>. QED
    BY <2>3, <2>4, <2>5, <2>6, <2>7 DEF PcOwed
<1>. QED
  BY <1>1, <1>2, <1>3, <1>4, <1>5, <1>6, <1>7 DEF SInv

\* Wakes leave the channel for the wire.
LEMMA SendWakesKeeps ==
  ASSUME Rounds!ScheduleAssumption, SInv, Rounds!SendWakes
  PROVE  SInv'
<1>. USE DEF Rounds!folders, Rounds!server, Rounds!phone, Rounds!round
<1>1. Rounds!TypeOK'
  <2>1. wire' \subseteq Share
    BY DEF SInv, Rounds!TypeOK, Rounds!SendWakes, Rounds!Locked
  <2>2. channel' \subseteq Share
    BY DEF SInv, Rounds!TypeOK, Rounds!SendWakes, Rounds!Locked
  <2>3. Flags'
    BY <2>1, <2>2 DEF SInv, Rounds!TypeOK, Flags, Rounds!SendWakes, Rounds!Locked
  <2>4. ShareSets'
    BY <2>1, <2>2 DEF SInv, Rounds!TypeOK, ShareSets, Rounds!SendWakes, Rounds!Locked
  <2>5. Maps'
    BY <2>1, <2>2 DEF SInv, Rounds!TypeOK, Maps, Rounds!SendWakes, Rounds!Locked
  <2>6. Others'
    BY <2>1, <2>2 DEF SInv, Rounds!TypeOK, Others, Rounds!SendWakes, Rounds!Locked
  <2>. QED
    BY <2>3, <2>4, <2>5, <2>6 DEF Rounds!TypeOK, Flags, ShareSets, Maps, Others
<1>2. Settled'
  BY DEF SInv, Rounds!TypeOK, Settled, Visiting, Rounds!SendWakes, Rounds!Locked
<1>3. PhoneOwed'
  BY DEF SInv, Rounds!TypeOK, Settled, PhoneOwed, Visiting, Rounds!SendWakes, Rounds!Locked
<1>4. Delivered'
  BY DEF SInv, Rounds!TypeOK, Settled, Delivered, Faultless, Rounds!Committed,
    Rounds!SendWakes, Rounds!Locked
<1>5. Faultless'
  BY DEF SInv, Rounds!TypeOK, Settled, Faultless, InRound, Rounds!SendWakes, Rounds!Locked
<1>6. Divided'
  BY DEF SInv, Rounds!TypeOK, Settled, Faultless, Divided, Calm, InRound, Visiting,
    Rounds!SendWakes, Rounds!Locked
<1>7. PcOwed'
  BY DEF SInv, Rounds!TypeOK, Settled, Delivered, Faultless, Divided, PcOwed, Calm,
    InRound, Visiting, Rounds!Committed, Rounds!SendWakes, Rounds!Locked
<1>. QED
  BY <1>1, <1>2, <1>3, <1>4, <1>5, <1>6, <1>7 DEF SInv

\* A wake that arrives becomes a mark.
LEMMA ReceiveWakeKeeps ==
  ASSUME Rounds!ScheduleAssumption, SInv, NEW s \in Share, Rounds!ReceiveWake(s)
  PROVE  SInv'
<1>. USE DEF Rounds!folders, Rounds!server, Rounds!phone, Rounds!round
<1>1. Rounds!TypeOK'
  <2>1. mark' \in [Share -> {"none", "old", "new"}]
    BY DEF SInv, Rounds!TypeOK, Rounds!ReceiveWake, Rounds!Wake
  <2>2. Flags'
    BY <2>1 DEF SInv, Rounds!TypeOK, Flags, Rounds!ReceiveWake, Rounds!Wake
  <2>3. ShareSets'
    BY <2>1 DEF SInv, Rounds!TypeOK, ShareSets, Rounds!ReceiveWake, Rounds!Wake
  <2>4. Maps'
    BY <2>1 DEF SInv, Rounds!TypeOK, Maps, Rounds!ReceiveWake, Rounds!Wake
  <2>5. Others'
    BY <2>1 DEF SInv, Rounds!TypeOK, Others, Rounds!ReceiveWake, Rounds!Wake
  <2>. QED
    BY <2>2, <2>3, <2>4, <2>5 DEF Rounds!TypeOK, Flags, ShareSets, Maps, Others
<1>2. Settled'
  BY DEF SInv, Rounds!TypeOK, Settled, Visiting, Rounds!ReceiveWake, Rounds!Wake
<1>3. PhoneOwed'
  BY DEF SInv, Rounds!TypeOK, Settled, PhoneOwed, Visiting, Rounds!ReceiveWake, Rounds!Wake
<1>4. Delivered'
  BY DEF SInv, Rounds!TypeOK, Settled, Delivered, Faultless, Rounds!Committed,
    Rounds!ReceiveWake, Rounds!Wake
<1>5. Faultless'
  BY DEF SInv, Rounds!TypeOK, Settled, Faultless, InRound, Rounds!ReceiveWake, Rounds!Wake
<1>6. Divided'
  BY DEF SInv, Rounds!TypeOK, Settled, Faultless, Divided, Calm, InRound, Visiting,
    Rounds!ReceiveWake, Rounds!Wake
<1>7. PcOwed'
  BY DEF SInv, Rounds!TypeOK, Settled, Delivered, Faultless, Divided, PcOwed, Calm,
    InRound, Visiting, Rounds!Committed, Rounds!ReceiveWake, Rounds!Wake
<1>. QED
  BY <1>1, <1>2, <1>3, <1>4, <1>5, <1>6, <1>7 DEF SInv

\* A pass only makes the marks old.
LEMMA BeginPassKeeps ==
  ASSUME Rounds!ScheduleAssumption, SInv, Rounds!BeginPass
  PROVE  SInv'
<1>. USE DEF Rounds!folders, Rounds!server, Rounds!phone, Rounds!round
<1>1. Rounds!TypeOK'
  <2>1. mark' \in [Share -> {"none", "old", "new"}]
    BY DEF SInv, Rounds!TypeOK, Rounds!BeginPass, Rounds!Marked, Rounds!AuditShare,
      Rounds!Aged, Rounds!FocusedFirst
  <2>2. all' \in {"none", "old", "new"}
    BY DEF SInv, Rounds!TypeOK, Rounds!BeginPass, Rounds!Marked, Rounds!AuditShare,
      Rounds!Aged, Rounds!FocusedFirst
  <2>3. kind' \in {"focused", "periodic", "all"}
    BY DEF SInv, Rounds!TypeOK, Rounds!BeginPass, Rounds!Marked, Rounds!AuditShare,
      Rounds!Aged, Rounds!FocusedFirst
  <2>4. focus' \subseteq Share
    BY DEF SInv, Rounds!TypeOK, Rounds!BeginPass, Rounds!Marked, Rounds!AuditShare,
      Rounds!Aged, Rounds!FocusedFirst
  <2>5. Flags'
    BY <2>1, <2>2, <2>3, <2>4
    DEF SInv, Rounds!TypeOK, Flags, Rounds!BeginPass, Rounds!Marked, Rounds!AuditShare,
      Rounds!Aged, Rounds!FocusedFirst
  <2>6. ShareSets'
    BY <2>1, <2>2, <2>3, <2>4
    DEF SInv, Rounds!TypeOK, ShareSets, Rounds!BeginPass, Rounds!Marked,
      Rounds!AuditShare, Rounds!Aged, Rounds!FocusedFirst
  <2>7. Maps'
    BY <2>1, <2>2, <2>3, <2>4
    DEF SInv, Rounds!TypeOK, Maps, Rounds!BeginPass, Rounds!Marked, Rounds!AuditShare,
      Rounds!Aged, Rounds!FocusedFirst
  <2>8. Others'
    BY <2>1, <2>2, <2>3, <2>4
    DEF SInv, Rounds!TypeOK, Others, Rounds!BeginPass, Rounds!Marked, Rounds!AuditShare,
      Rounds!Aged, Rounds!FocusedFirst
  <2>. QED
    BY <2>5, <2>6, <2>7, <2>8 DEF Rounds!TypeOK, Flags, ShareSets, Maps, Others
<1>2. Settled'
  BY DEF SInv, Rounds!TypeOK, Settled, Visiting, Rounds!BeginPass, Rounds!Marked,
    Rounds!AuditShare, Rounds!Aged, Rounds!FocusedFirst
<1>3. PhoneOwed'
  BY DEF SInv, Rounds!TypeOK, Settled, PhoneOwed, Visiting, Rounds!BeginPass,
    Rounds!Marked, Rounds!AuditShare, Rounds!Aged, Rounds!FocusedFirst
<1>4. Delivered'
  BY DEF SInv, Rounds!TypeOK, Settled, Delivered, Faultless, Rounds!Committed,
    Rounds!BeginPass, Rounds!Marked, Rounds!AuditShare, Rounds!Aged, Rounds!FocusedFirst
<1>5. Faultless'
  BY DEF SInv, Rounds!TypeOK, Settled, Faultless, InRound, Rounds!BeginPass,
    Rounds!Marked, Rounds!AuditShare, Rounds!Aged, Rounds!FocusedFirst
<1>6. Divided'
  BY DEF SInv, Rounds!TypeOK, Settled, Faultless, Divided, Calm, InRound, Visiting,
    Rounds!BeginPass, Rounds!Marked, Rounds!AuditShare, Rounds!Aged, Rounds!FocusedFirst
<1>7. PcOwed'
  BY DEF SInv, Rounds!TypeOK, Settled, Delivered, Faultless, Divided, PcOwed, Calm,
    InRound, Visiting, Rounds!Committed, Rounds!BeginPass, Rounds!Marked,
    Rounds!AuditShare, Rounds!Aged, Rounds!FocusedFirst
<1>. QED
  BY <1>1, <1>2, <1>3, <1>4, <1>5, <1>6, <1>7 DEF SInv

\* A session replaced without a fault is the first one: all are still to come.
LEMMA ConnectKeeps ==
  ASSUME Rounds!ScheduleAssumption, SInv, Rounds!Connect
  PROVE  SInv'
<1>. USE DEF Rounds!folders, Rounds!server, Rounds!phone, Rounds!round
<1>1. Rounds!TypeOK'
  <2>1. Flags'
    BY DEF SInv, Rounds!TypeOK, Flags, Rounds!Connect
  <2>2. ShareSets'
    BY DEF SInv, Rounds!TypeOK, ShareSets, Rounds!Connect
  <2>3. Maps'
    BY DEF SInv, Rounds!TypeOK, Maps, Rounds!Connect
  <2>4. Others'
    BY DEF SInv, Rounds!TypeOK, Others, Rounds!Connect
  <2>. QED
    BY <2>1, <2>2, <2>3, <2>4 DEF Rounds!TypeOK, Flags, ShareSets, Maps, Others
<1>2. Settled'
  BY DEF SInv, Rounds!TypeOK, Settled, Visiting, Rounds!Connect
<1>3. PhoneOwed'
  BY DEF SInv, Rounds!TypeOK, Settled, PhoneOwed, Visiting, Rounds!Connect
<1>4. Delivered'
  BY DEF SInv, Rounds!TypeOK, Settled, Delivered, Faultless, Rounds!Committed,
    Rounds!Connect
<1>5. Faultless'
  BY DEF SInv, Rounds!TypeOK, Settled, Faultless, InRound, Rounds!Connect
<1>6. Divided'
  BY DEF SInv, Rounds!TypeOK, Settled, Faultless, Divided, Calm, InRound, Visiting,
    Rounds!Connect
<1>7. PcOwed'
  BY DEF SInv, Rounds!TypeOK, Settled, Delivered, Faultless, Divided, PcOwed, Calm,
    InRound, Visiting, Rounds!Committed, Rounds!Connect
<1>. QED
  BY <1>1, <1>2, <1>3, <1>4, <1>5, <1>6, <1>7 DEF SInv

\* The wakes met before Shares are kept; unless a request narrows the round
\* it has all the pass asked for.
LEMMA AcceptKeeps ==
  ASSUME Rounds!ScheduleAssumption, SInv, Rounds!Accept
  PROVE  SInv'
<1>. USE DEF Rounds!folders, Rounds!server, Rounds!phone, Rounds!round
<1>1. Rounds!TypeOK'
  <2>1. remaining' \subseteq Share
    BY DEF SInv, Rounds!TypeOK, Rounds!Accept
  <2>2. told' \subseteq Share /\ wire' \subseteq Share /\ newer' \subseteq Share
    BY DEF SInv, Rounds!TypeOK, Rounds!Accept
  <2>3. request' \in Rounds!Request \cup {None}
    BY DEF SInv, Rounds!TypeOK, Rounds!Accept
  <2>4. Flags'
    BY <2>1, <2>2, <2>3 DEF SInv, Rounds!TypeOK, Flags, Rounds!Accept
  <2>5. ShareSets'
    BY <2>1, <2>2, <2>3 DEF SInv, Rounds!TypeOK, ShareSets, Rounds!Accept
  <2>6. Maps'
    BY <2>1, <2>2, <2>3 DEF SInv, Rounds!TypeOK, Maps, Rounds!Accept
  <2>7. Others'
    BY <2>1, <2>2, <2>3 DEF SInv, Rounds!TypeOK, Others, Rounds!Accept
  <2>. QED
    BY <2>4, <2>5, <2>6, <2>7 DEF Rounds!TypeOK, Flags, ShareSets, Maps, Others
<1>2. Settled'
  BY DEF SInv, Rounds!TypeOK, Settled, Visiting, Rounds!Accept
<1>3. PhoneOwed'
  BY DEF SInv, Rounds!TypeOK, Settled, PhoneOwed, Visiting, Rounds!Accept
<1>4. Delivered'
  BY DEF SInv, Rounds!TypeOK, Settled, Delivered, Faultless, Rounds!Committed, Rounds!Accept
<1>5. Faultless'
  BY DEF SInv, Rounds!TypeOK, Settled, Faultless, InRound, Rounds!Accept
<1>6. Divided'
  <2>. SUFFICES ASSUME faults = 0, ~narrowed' PROVE Divided'
    BY DEF Divided, Calm, Rounds!Accept
  <2>1. completed' = {} /\ excluded = {} /\ current' = None /\ step' = "ready" /\ focus' = focus
    BY DEF SInv, Settled, Visiting, Faultless, Rounds!Accept
  <2>2. remaining' = focus /\ None \notin focus
    BY <2>1 DEF SInv, Rounds!TypeOK, Rounds!ScheduleAssumption, Rounds!Accept
  <2>. QED
    BY <2>1, <2>2 DEF Divided
<1>7. PcOwed'
  BY DEF SInv, Rounds!TypeOK, Settled, Delivered, Faultless, Divided, PcOwed, Calm,
    InRound, Visiting, Rounds!Committed, Rounds!Accept
<1>. QED
  BY <1>1, <1>2, <1>3, <1>4, <1>5, <1>6, <1>7 DEF SInv

\* Preempted before a Share, the round tells the urgent ones.
LEMMA PreemptBeforeKeeps ==
  ASSUME Rounds!ScheduleAssumption, SInv, Rounds!PreemptBefore
  PROVE  SInv'
<1>. USE DEF Rounds!folders, Rounds!server, Rounds!phone, Rounds!round
<1>1. Rounds!TypeOK'
  <2>1. Flags'
    BY DEF SInv, Rounds!TypeOK, Flags, Rounds!PreemptBefore, Rounds!DeferTo,
      Rounds!UrgentFirst, Rounds!Audit, Rounds!Urgent
  <2>2. ShareSets'
    BY DEF SInv, Rounds!TypeOK, ShareSets, Rounds!PreemptBefore, Rounds!DeferTo,
      Rounds!UrgentFirst, Rounds!Audit, Rounds!Urgent
  <2>3. Maps'
    BY DEF SInv, Rounds!TypeOK, Maps, Rounds!PreemptBefore, Rounds!DeferTo,
      Rounds!UrgentFirst, Rounds!Audit, Rounds!Urgent
  <2>4. Others'
    BY DEF SInv, Rounds!TypeOK, Others, Rounds!PreemptBefore, Rounds!DeferTo,
      Rounds!UrgentFirst, Rounds!Audit, Rounds!Urgent
  <2>. QED
    BY <2>1, <2>2, <2>3, <2>4 DEF Rounds!TypeOK, Flags, ShareSets, Maps, Others
<1>2. Settled'
  BY DEF SInv, Rounds!TypeOK, Settled, Visiting, Rounds!PreemptBefore, Rounds!DeferTo,
    Rounds!UrgentFirst, Rounds!Audit, Rounds!Urgent
<1>3. PhoneOwed'
  BY DEF SInv, Rounds!TypeOK, Settled, PhoneOwed, Visiting, Rounds!PreemptBefore,
    Rounds!DeferTo, Rounds!UrgentFirst, Rounds!Audit, Rounds!Urgent
<1>4. Delivered'
  BY DEF SInv, Rounds!TypeOK, Settled, Delivered, Faultless, Rounds!Committed,
    Rounds!PreemptBefore, Rounds!DeferTo, Rounds!UrgentFirst, Rounds!Audit, Rounds!Urgent
<1>5. Faultless'
  BY DEF SInv, Rounds!TypeOK, Settled, Faultless, InRound, Rounds!PreemptBefore,
    Rounds!DeferTo, Rounds!UrgentFirst, Rounds!Audit, Rounds!Urgent
<1>6. Divided'
  BY DEF SInv, Rounds!TypeOK, Settled, Faultless, Divided, Calm, InRound, Visiting,
    Rounds!PreemptBefore, Rounds!DeferTo, Rounds!UrgentFirst, Rounds!Audit, Rounds!Urgent
<1>7. PcOwed'
  BY DEF SInv, Rounds!TypeOK, Settled, Delivered, Faultless, Divided, PcOwed, Calm,
    InRound, Visiting, Rounds!Committed, Rounds!PreemptBefore, Rounds!DeferTo,
    Rounds!UrgentFirst, Rounds!Audit, Rounds!Urgent
<1>. QED
  BY <1>1, <1>2, <1>3, <1>4, <1>5, <1>6, <1>7 DEF SInv

\* A Share selected is being read.
LEMMA SelectKeeps ==
  ASSUME Rounds!ScheduleAssumption, SInv, NEW s \in Share, Rounds!Select(s)
  PROVE  SInv'
<1>. USE DEF Rounds!folders, Rounds!server, Rounds!phone, Rounds!round
<1>1. Rounds!TypeOK'
  <2>1. pcSide' \in [Share -> SUBSET {"hinted", "read"}]
    BY DEF SInv, Rounds!TypeOK, Settled, Visiting, Rounds!Select
  <2>2. phoneSide' \in [Share -> {"same", "read", "changed"}]
    BY DEF SInv, Rounds!TypeOK, Settled, Visiting, Rounds!Select
  <2>3. Flags'
    BY <2>1, <2>2 DEF SInv, Rounds!TypeOK, Flags, Rounds!Select
  <2>4. ShareSets'
    BY <2>1, <2>2 DEF SInv, Rounds!TypeOK, ShareSets, Rounds!Select
  <2>5. Maps'
    BY <2>1, <2>2 DEF SInv, Rounds!TypeOK, Maps, Rounds!Select
  <2>6. Others'
    BY <2>1, <2>2 DEF SInv, Rounds!TypeOK, Others, Rounds!Select
  <2>. QED
    BY <2>3, <2>4, <2>5, <2>6 DEF Rounds!TypeOK, Flags, ShareSets, Maps, Others
<1>2. Settled'
  BY DEF SInv, Rounds!TypeOK, Settled, Visiting, Rounds!Select
<1>3. PhoneOwed'
  BY DEF SInv, Rounds!TypeOK, Settled, PhoneOwed, Visiting, Rounds!Select
<1>4. Delivered'
  BY DEF SInv, Rounds!TypeOK, Settled, Delivered, Faultless, Rounds!Committed, Rounds!Select
<1>5. Faultless'
  BY DEF SInv, Rounds!TypeOK, Settled, Faultless, InRound, Rounds!Select
<1>6. Divided'
  BY DEF SInv, Rounds!TypeOK, Settled, Faultless, Divided, Calm, InRound, Visiting,
    Rounds!Select
<1>7. PcOwed'
  <2>. SUFFICES ASSUME Calm PROVE PcOwed'
    BY DEF PcOwed, Calm, Rounds!Select
  <2>1. \A q \in Share : pcSide'[q] # {} => pcSide[q] # {}
    BY DEF SInv, Rounds!TypeOK, Rounds!Select
  <2>2. UNCHANGED <<channel, wire, told, mark, all, completed>> /\ InRound
    BY DEF Rounds!Select, InRound
  <2>3. completed \subseteq Share
    BY DEF SInv, Rounds!TypeOK
  <2>. QED
    BY <2>1, <2>2, <2>3 DEF SInv, PcOwed
<1>. QED
  BY <1>1, <1>2, <1>3, <1>4, <1>5, <1>6, <1>7 DEF SInv

\* Preempted during the scan, the Share owes its change again.
LEMMA PreemptScanKeeps ==
  ASSUME Rounds!ScheduleAssumption, SInv, Rounds!PreemptScan
  PROVE  SInv'
<1>. USE DEF Rounds!folders, Rounds!server, Rounds!phone, Rounds!round
<1>1. Rounds!TypeOK'
  <2>1. current \in Share
    BY DEF SInv, Rounds!TypeOK, Settled, Visiting, Rounds!PreemptScan, Rounds!DeferTo,
      Rounds!Unread, Rounds!Urgent
  <2>2. pcSide' \in [Share -> SUBSET {"hinted", "read"}]
    BY <2>1
    DEF SInv, Rounds!TypeOK, Settled, Visiting, Rounds!PreemptScan, Rounds!DeferTo,
      Rounds!Unread, Rounds!Urgent
  <2>3. phoneSide' \in [Share -> {"same", "read", "changed"}]
    BY <2>1
    DEF SInv, Rounds!TypeOK, Settled, Visiting, Rounds!PreemptScan, Rounds!DeferTo,
      Rounds!Unread, Rounds!Urgent
  <2>4. Flags'
    BY <2>1, <2>2, <2>3
    DEF SInv, Rounds!TypeOK, Flags, Rounds!PreemptScan, Rounds!DeferTo, Rounds!Unread,
      Rounds!Urgent
  <2>5. ShareSets'
    BY <2>1, <2>2, <2>3
    DEF SInv, Rounds!TypeOK, ShareSets, Rounds!PreemptScan, Rounds!DeferTo, Rounds!Unread,
      Rounds!Urgent
  <2>6. Maps'
    BY <2>1, <2>2, <2>3
    DEF SInv, Rounds!TypeOK, Maps, Rounds!PreemptScan, Rounds!DeferTo, Rounds!Unread,
      Rounds!Urgent
  <2>7. Others'
    BY <2>1, <2>2, <2>3
    DEF SInv, Rounds!TypeOK, Others, Rounds!PreemptScan, Rounds!DeferTo, Rounds!Unread,
      Rounds!Urgent
  <2>. QED
    BY <2>4, <2>5, <2>6, <2>7 DEF Rounds!TypeOK, Flags, ShareSets, Maps, Others
<1>2. Settled'
  BY DEF SInv, Rounds!TypeOK, Settled, Visiting, Rounds!PreemptScan, Rounds!DeferTo,
    Rounds!Unread, Rounds!Urgent
<1>3. PhoneOwed'
  BY DEF SInv, Rounds!TypeOK, Settled, PhoneOwed, Visiting, Rounds!PreemptScan,
    Rounds!DeferTo, Rounds!Unread, Rounds!Urgent
<1>4. Delivered'
  BY DEF SInv, Rounds!TypeOK, Settled, Delivered, Faultless, Rounds!Committed,
    Rounds!PreemptScan, Rounds!DeferTo, Rounds!Unread, Rounds!Urgent
<1>5. Faultless'
  BY DEF SInv, Rounds!TypeOK, Settled, Faultless, InRound, Rounds!PreemptScan,
    Rounds!DeferTo, Rounds!Unread, Rounds!Urgent
<1>6. Divided'
  BY DEF SInv, Rounds!TypeOK, Settled, Faultless, Divided, Calm, InRound, Visiting,
    Rounds!PreemptScan, Rounds!DeferTo, Rounds!Unread, Rounds!Urgent
<1>7. PcOwed'
  <2>. SUFFICES ASSUME Calm PROVE PcOwed'
    BY DEF PcOwed, Calm, Rounds!PreemptScan
  <2>1. \A q \in Share : pcSide'[q] # {} => pcSide[q] # {}
    BY DEF SInv, Rounds!TypeOK, Rounds!PreemptScan, Rounds!Unread
  <2>2. UNCHANGED <<channel, wire, mark, all,
                    completed>> /\ told \subseteq told' /\ InRound
    BY DEF Rounds!PreemptScan, Rounds!DeferTo, InRound
  <2>3. completed \subseteq Share
    BY DEF SInv, Rounds!TypeOK
  <2>. QED
    BY <2>1, <2>2, <2>3 DEF SInv, PcOwed
<1>. QED
  BY <1>1, <1>2, <1>3, <1>4, <1>5, <1>6, <1>7 DEF SInv

\* So it does if the phone's scan ends early.
LEMMA ScanAbortedKeeps ==
  ASSUME Rounds!ScheduleAssumption, SInv, Rounds!ScanAborted
  PROVE  SInv'
<1>. USE DEF Rounds!folders, Rounds!server, Rounds!phone, Rounds!round
<1>1. Rounds!TypeOK'
  <2>1. current \in Share
    BY DEF SInv, Rounds!TypeOK, Settled, Visiting, Rounds!ScanAborted, Rounds!DeferTo,
      Rounds!Unread, Rounds!Urgent
  <2>2. pcSide' \in [Share -> SUBSET {"hinted", "read"}]
    BY <2>1
    DEF SInv, Rounds!TypeOK, Settled, Visiting, Rounds!ScanAborted, Rounds!DeferTo,
      Rounds!Unread, Rounds!Urgent
  <2>3. phoneSide' \in [Share -> {"same", "read", "changed"}]
    BY <2>1
    DEF SInv, Rounds!TypeOK, Settled, Visiting, Rounds!ScanAborted, Rounds!DeferTo,
      Rounds!Unread, Rounds!Urgent
  <2>4. Flags'
    BY <2>1, <2>2, <2>3
    DEF SInv, Rounds!TypeOK, Flags, Rounds!ScanAborted, Rounds!DeferTo, Rounds!Unread,
      Rounds!Urgent
  <2>5. ShareSets'
    BY <2>1, <2>2, <2>3
    DEF SInv, Rounds!TypeOK, ShareSets, Rounds!ScanAborted, Rounds!DeferTo, Rounds!Unread,
      Rounds!Urgent
  <2>6. Maps'
    BY <2>1, <2>2, <2>3
    DEF SInv, Rounds!TypeOK, Maps, Rounds!ScanAborted, Rounds!DeferTo, Rounds!Unread,
      Rounds!Urgent
  <2>7. Others'
    BY <2>1, <2>2, <2>3
    DEF SInv, Rounds!TypeOK, Others, Rounds!ScanAborted, Rounds!DeferTo, Rounds!Unread,
      Rounds!Urgent
  <2>. QED
    BY <2>4, <2>5, <2>6, <2>7 DEF Rounds!TypeOK, Flags, ShareSets, Maps, Others
<1>2. Settled'
  BY DEF SInv, Rounds!TypeOK, Settled, Visiting, Rounds!ScanAborted, Rounds!DeferTo,
    Rounds!Unread, Rounds!Urgent
<1>3. PhoneOwed'
  BY DEF SInv, Rounds!TypeOK, Settled, PhoneOwed, Visiting, Rounds!ScanAborted,
    Rounds!DeferTo, Rounds!Unread, Rounds!Urgent
<1>4. Delivered'
  BY DEF SInv, Rounds!TypeOK, Settled, Delivered, Faultless, Rounds!Committed,
    Rounds!ScanAborted, Rounds!DeferTo, Rounds!Unread, Rounds!Urgent
<1>5. Faultless'
  BY DEF SInv, Rounds!TypeOK, Settled, Faultless, InRound, Rounds!ScanAborted,
    Rounds!DeferTo, Rounds!Unread, Rounds!Urgent
<1>6. Divided'
  BY DEF SInv, Rounds!TypeOK, Settled, Faultless, Divided, Calm, InRound, Visiting,
    Rounds!ScanAborted, Rounds!DeferTo, Rounds!Unread, Rounds!Urgent
<1>7. PcOwed'
  <2>. SUFFICES ASSUME Calm PROVE PcOwed'
    BY DEF PcOwed, Calm, Rounds!ScanAborted
  <2>1. \A q \in Share : pcSide'[q] # {} => pcSide[q] # {}
    BY DEF SInv, Rounds!TypeOK, Rounds!ScanAborted, Rounds!Unread
  <2>2. UNCHANGED <<channel, wire, mark, all,
                    completed>> /\ told \subseteq told' /\ InRound
    BY DEF Rounds!ScanAborted, Rounds!DeferTo, InRound
  <2>3. completed \subseteq Share
    BY DEF SInv, Rounds!TypeOK
  <2>. QED
    BY <2>1, <2>2, <2>3 DEF SInv, PcOwed
<1>. QED
  BY <1>1, <1>2, <1>3, <1>4, <1>5, <1>6, <1>7 DEF SInv

\* Going on with the visit moves no change.
LEMMA ContinueKeeps ==
  ASSUME Rounds!ScheduleAssumption, SInv, Rounds!Continue
  PROVE  SInv'
<1>. USE DEF Rounds!folders, Rounds!server, Rounds!phone, Rounds!round
<1>1. Rounds!TypeOK'
  <2>1. Flags'
    BY DEF SInv, Rounds!TypeOK, Flags, Rounds!Continue
  <2>2. ShareSets'
    BY DEF SInv, Rounds!TypeOK, ShareSets, Rounds!Continue
  <2>3. Maps'
    BY DEF SInv, Rounds!TypeOK, Maps, Rounds!Continue
  <2>4. Others'
    BY DEF SInv, Rounds!TypeOK, Others, Rounds!Continue
  <2>. QED
    BY <2>1, <2>2, <2>3, <2>4 DEF Rounds!TypeOK, Flags, ShareSets, Maps, Others
<1>2. Settled'
  BY DEF SInv, Rounds!TypeOK, Settled, Visiting, Rounds!Continue
<1>3. PhoneOwed'
  BY DEF SInv, Rounds!TypeOK, Settled, PhoneOwed, Visiting, Rounds!Continue
<1>4. Delivered'
  BY DEF SInv, Rounds!TypeOK, Settled, Delivered, Faultless, Rounds!Committed,
    Rounds!Continue
<1>5. Faultless'
  BY DEF SInv, Rounds!TypeOK, Settled, Faultless, InRound, Rounds!Continue
<1>6. Divided'
  BY DEF SInv, Rounds!TypeOK, Settled, Faultless, Divided, Calm, InRound, Visiting,
    Rounds!Continue
<1>7. PcOwed'
  BY DEF SInv, Rounds!TypeOK, Settled, Delivered, Faultless, Divided, PcOwed, Calm,
    InRound, Visiting, Rounds!Committed, Rounds!Continue
<1>. QED
  BY <1>1, <1>2, <1>3, <1>4, <1>5, <1>6, <1>7 DEF SInv

\* A completed visit has served what it had read.
LEMMA CompleteKeeps ==
  ASSUME Rounds!ScheduleAssumption, SInv, Rounds!Complete
  PROVE  SInv'
<1>. USE DEF Rounds!folders, Rounds!server, Rounds!phone, Rounds!round
<1>1. Rounds!TypeOK'
  <2>1. current \in Share
    BY DEF SInv, Rounds!TypeOK, Settled, Visiting, Rounds!Complete, Rounds!Served
  <2>2. pcSide' \in [Share -> SUBSET {"hinted", "read"}]
    BY <2>1 DEF SInv, Rounds!TypeOK, Settled, Visiting, Rounds!Complete, Rounds!Served
  <2>3. phoneSide' \in [Share -> {"same", "read", "changed"}]
    BY <2>1 DEF SInv, Rounds!TypeOK, Settled, Visiting, Rounds!Complete, Rounds!Served
  <2>4. request' \in Rounds!Request \cup {None}
    BY <2>1 DEF SInv, Rounds!TypeOK, Rounds!Complete, Rounds!Served
  <2>5. completed' \subseteq Share
    BY <2>1 DEF SInv, Rounds!TypeOK, Rounds!Complete, Rounds!Served
  <2>6. Flags'
    BY <2>1, <2>2, <2>3, <2>4, <2>5
    DEF SInv, Rounds!TypeOK, Flags, Rounds!Complete, Rounds!Served
  <2>7. ShareSets'
    BY <2>1, <2>2, <2>3, <2>4, <2>5
    DEF SInv, Rounds!TypeOK, ShareSets, Rounds!Complete, Rounds!Served
  <2>8. Maps'
    BY <2>1, <2>2, <2>3, <2>4, <2>5
    DEF SInv, Rounds!TypeOK, Maps, Rounds!Complete, Rounds!Served
  <2>9. Others'
    BY <2>1, <2>2, <2>3, <2>4, <2>5
    DEF SInv, Rounds!TypeOK, Others, Rounds!Complete, Rounds!Served
  <2>. QED
    BY <2>6, <2>7, <2>8, <2>9 DEF Rounds!TypeOK, Flags, ShareSets, Maps, Others
<1>2. Settled'
  BY DEF SInv, Rounds!TypeOK, Settled, Visiting, Rounds!Complete, Rounds!Served
<1>3. PhoneOwed'
  <2>1. current \in Share
    BY DEF SInv, Settled, Visiting, Rounds!Complete
  <2>2. \A q \in Share : q # current => phoneSide'[q] = phoneSide[q]
    BY DEF SInv, Rounds!TypeOK, Rounds!Complete
  <2>3. phoneSide'[current] \in {"same", "changed"}
        /\ (phoneSide'[current] = "changed" => phoneSide[current] = "changed")
    BY <2>1 DEF SInv, Rounds!TypeOK, Rounds!Complete
  <2>4. completed' = completed \cup {current} /\ UNCHANGED mark /\ Visiting /\ ~Visiting'
    BY DEF Rounds!Complete, Visiting
  <2>. QED
    BY <2>1, <2>2, <2>3, <2>4 DEF SInv, Rounds!TypeOK, PhoneOwed
<1>4. Delivered'
  BY DEF SInv, Rounds!TypeOK, Settled, Delivered, Faultless, Rounds!Committed,
    Rounds!Complete, Rounds!Served
<1>5. Faultless'
  BY DEF SInv, Rounds!TypeOK, Settled, Faultless, InRound, Rounds!Complete, Rounds!Served
<1>6. Divided'
  BY DEF SInv, Rounds!TypeOK, Settled, Faultless, Divided, Calm, InRound, Visiting,
    Rounds!Complete, Rounds!Served
<1>7. PcOwed'
  <2>. SUFFICES ASSUME Calm PROVE PcOwed'
    BY DEF PcOwed, Calm, Rounds!Complete
  <2>1. \A q \in Share : q # current => pcSide'[q] = pcSide[q]
    BY DEF SInv, Rounds!TypeOK, Rounds!Complete
  <2>2. pcSide'[current] = {}
    BY DEF SInv, Rounds!TypeOK, Settled, Visiting, Rounds!Complete
  <2>3. UNCHANGED <<channel, wire, told, mark,
                    all>> /\ completed' = completed \cup {current}
        /\ InRound
    BY DEF Rounds!Complete, InRound
  <2>. QED
    BY <2>1, <2>2, <2>3 DEF SInv, Rounds!TypeOK, PcOwed
<1>. QED
  BY <1>1, <1>2, <1>3, <1>4, <1>5, <1>6, <1>7 DEF SInv

\* A Share that fails counts as a fault; the phone's marks stay.
LEMMA ShareFailsKeeps ==
  ASSUME Rounds!ScheduleAssumption, SInv, Rounds!ShareFails
  PROVE  SInv'
<1>. USE DEF Rounds!folders, Rounds!server, Rounds!phone, Rounds!round
<1>1. Rounds!TypeOK'
  <2>1. current \in Share
    BY DEF SInv, Rounds!TypeOK, Settled, Visiting, Rounds!ShareFails, Rounds!Break,
      Rounds!Unread, Rounds!Served
  <2>2. faults' \in 0 .. FaultMax
    BY <2>1
    DEF SInv, Rounds!TypeOK, Rounds!ScheduleAssumption, Rounds!ShareFails, Rounds!Break,
      Rounds!Unread, Rounds!Served
  <2>3. pcSide' \in [Share -> SUBSET {"hinted", "read"}]
    BY <2>1
    DEF SInv, Rounds!TypeOK, Settled, Visiting, Rounds!ShareFails, Rounds!Break,
      Rounds!Unread, Rounds!Served
  <2>4. phoneSide' \in [Share -> {"same", "read", "changed"}]
    BY <2>1
    DEF SInv, Rounds!TypeOK, Settled, Visiting, Rounds!ShareFails, Rounds!Break,
      Rounds!Unread, Rounds!Served
  <2>5. request' \in Rounds!Request \cup {None}
    BY <2>1
    DEF SInv, Rounds!TypeOK, Rounds!ShareFails, Rounds!Break, Rounds!Unread, Rounds!Served
  <2>6. excluded' \subseteq Share
    BY <2>1
    DEF SInv, Rounds!TypeOK, Rounds!ShareFails, Rounds!Break, Rounds!Unread, Rounds!Served
  <2>7. Flags'
    BY <2>1, <2>2, <2>3, <2>4, <2>5, <2>6
    DEF SInv, Rounds!TypeOK, Flags, Rounds!ShareFails, Rounds!Break, Rounds!Unread,
      Rounds!Served
  <2>8. ShareSets'
    BY <2>1, <2>2, <2>3, <2>4, <2>5, <2>6
    DEF SInv, Rounds!TypeOK, ShareSets, Rounds!ShareFails, Rounds!Break, Rounds!Unread,
      Rounds!Served
  <2>9. Maps'
    BY <2>1, <2>2, <2>3, <2>4, <2>5, <2>6
    DEF SInv, Rounds!TypeOK, Maps, Rounds!ShareFails, Rounds!Break, Rounds!Unread,
      Rounds!Served
  <2>10. Others'
    BY <2>1, <2>2, <2>3, <2>4, <2>5, <2>6
    DEF SInv, Rounds!TypeOK, Others, Rounds!ShareFails, Rounds!Break, Rounds!Unread,
      Rounds!Served
  <2>. QED
    BY <2>7, <2>8, <2>9, <2>10 DEF Rounds!TypeOK, Flags, ShareSets, Maps, Others
<1>2. Settled'
  BY DEF SInv, Rounds!TypeOK, Settled, Visiting, Rounds!ShareFails, Rounds!Break,
    Rounds!Unread, Rounds!Served
<1>3. PhoneOwed'
  BY DEF SInv, Rounds!TypeOK, Settled, PhoneOwed, Visiting, Rounds!ShareFails,
    Rounds!Break, Rounds!Unread, Rounds!Served
<1>4. Delivered'
  BY DEF SInv, Rounds!TypeOK, Settled, Delivered, Faultless, Rounds!Committed,
    Rounds!ShareFails, Rounds!Break, Rounds!Unread, Rounds!Served
<1>5. Faultless'
  BY DEF SInv, Rounds!TypeOK, Settled, Faultless, InRound, Rounds!ShareFails,
    Rounds!Break, Rounds!Unread, Rounds!Served
<1>6. Divided'
  BY DEF SInv, Rounds!TypeOK, Settled, Faultless, Divided, Calm, InRound, Visiting,
    Rounds!ShareFails, Rounds!Break, Rounds!Unread, Rounds!Served
<1>7. PcOwed'
  BY DEF SInv, Rounds!TypeOK, Settled, Delivered, Faultless, Divided, PcOwed, Calm,
    InRound, Visiting, Rounds!Committed, Rounds!ShareFails, Rounds!Break, Rounds!Unread,
    Rounds!Served
<1>. QED
  BY <1>1, <1>2, <1>3, <1>4, <1>5, <1>6, <1>7 DEF SInv

\* So does one that cannot be opened.
LEMMA ShareSkippedKeeps ==
  ASSUME Rounds!ScheduleAssumption, SInv, NEW s \in Share, Rounds!ShareSkipped(s)
  PROVE  SInv'
<1>. USE DEF Rounds!folders, Rounds!server, Rounds!phone, Rounds!round
<1>1. Rounds!TypeOK'
  <2>1. faults' \in 0 .. FaultMax
    BY DEF SInv, Rounds!TypeOK, Rounds!ScheduleAssumption, Rounds!ShareSkipped
  <2>2. excluded' \subseteq Share
    BY DEF SInv, Rounds!TypeOK, Rounds!ShareSkipped
  <2>3. Flags'
    BY <2>1, <2>2 DEF SInv, Rounds!TypeOK, Flags, Rounds!ShareSkipped
  <2>4. ShareSets'
    BY <2>1, <2>2 DEF SInv, Rounds!TypeOK, ShareSets, Rounds!ShareSkipped
  <2>5. Maps'
    BY <2>1, <2>2 DEF SInv, Rounds!TypeOK, Maps, Rounds!ShareSkipped
  <2>6. Others'
    BY <2>1, <2>2 DEF SInv, Rounds!TypeOK, Others, Rounds!ShareSkipped
  <2>. QED
    BY <2>3, <2>4, <2>5, <2>6 DEF Rounds!TypeOK, Flags, ShareSets, Maps, Others
<1>2. Settled'
  BY DEF SInv, Rounds!TypeOK, Settled, Visiting, Rounds!ShareSkipped
<1>3. PhoneOwed'
  BY DEF SInv, Rounds!TypeOK, Settled, PhoneOwed, Visiting, Rounds!ShareSkipped
<1>4. Delivered'
  BY DEF SInv, Rounds!TypeOK, Settled, Delivered, Faultless, Rounds!Committed,
    Rounds!ShareSkipped
<1>5. Faultless'
  BY DEF SInv, Rounds!TypeOK, Settled, Faultless, InRound, Rounds!ShareSkipped
<1>6. Divided'
  BY DEF SInv, Rounds!TypeOK, Settled, Faultless, Divided, Calm, InRound, Visiting,
    Rounds!ShareSkipped
<1>7. PcOwed'
  BY DEF SInv, Rounds!TypeOK, Settled, Delivered, Faultless, Divided, PcOwed, Calm,
    InRound, Visiting, Rounds!Committed, Rounds!ShareSkipped
<1>. QED
  BY <1>1, <1>2, <1>3, <1>4, <1>5, <1>6, <1>7 DEF SInv

\* A broken connection is a fault; what was being read is owed again.
LEMMA DisconnectKeeps ==
  ASSUME Rounds!ScheduleAssumption, SInv, Rounds!Disconnect
  PROVE  SInv'
<1>. USE DEF Rounds!folders, Rounds!server, Rounds!phone, Rounds!round
<1>1. Rounds!TypeOK'
  <2>1. faults' \in 0 .. FaultMax
    BY DEF SInv, Rounds!TypeOK, Rounds!ScheduleAssumption, Rounds!Disconnect,
      Rounds!Break, Rounds!Unread, Rounds!Idle
  <2>2. pcSide' \in [Share -> SUBSET {"hinted", "read"}]
    <3>1. CASE current = None
      BY <3>1 DEF SInv, Rounds!TypeOK, Rounds!Disconnect
    <3>2. CASE current # None
      <4>1. current \in Share /\ Rounds!Unread
        BY <3>2 DEF SInv, Rounds!TypeOK, Rounds!Disconnect
      <4>. QED
        BY <4>1 DEF SInv, Rounds!TypeOK, Rounds!Unread
    <3>. QED
      BY <3>1, <3>2
  <2>3. phoneSide' \in [Share -> {"same", "read", "changed"}]
    <3>1. CASE current = None
      BY <3>1 DEF SInv, Rounds!TypeOK, Rounds!Disconnect
    <3>2. CASE current # None
      <4>1. current \in Share /\ Rounds!Unread
        BY <3>2 DEF SInv, Rounds!TypeOK, Rounds!Disconnect
      <4>. QED
        BY <4>1 DEF SInv, Rounds!TypeOK, Rounds!Unread
    <3>. QED
      BY <3>1, <3>2
  <2>4. Flags'
    BY <2>1, <2>2, <2>3
    DEF SInv, Rounds!TypeOK, Flags, Rounds!Disconnect, Rounds!Break, Rounds!Unread,
      Rounds!Idle
  <2>5. ShareSets'
    BY <2>1, <2>2, <2>3
    DEF SInv, Rounds!TypeOK, ShareSets, Rounds!Disconnect, Rounds!Break, Rounds!Unread,
      Rounds!Idle
  <2>6. Maps'
    BY <2>1, <2>2, <2>3
    DEF SInv, Rounds!TypeOK, Maps, Rounds!Disconnect, Rounds!Break, Rounds!Unread,
      Rounds!Idle
  <2>7. Others'
    BY <2>1, <2>2, <2>3
    DEF SInv, Rounds!TypeOK, Others, Rounds!Disconnect, Rounds!Break, Rounds!Unread,
      Rounds!Idle
  <2>. QED
    BY <2>4, <2>5, <2>6, <2>7 DEF Rounds!TypeOK, Flags, ShareSets, Maps, Others
<1>2. Settled'
  <2>1. step' = "idle" /\ current' = None /\ told' = {}
    BY DEF Rounds!Disconnect, Rounds!Idle
  <2>2. ASSUME NEW s \in Share PROVE "read" \notin pcSide'[s] /\ phoneSide'[s] # "read"
    <3>1. CASE current = None
      BY <3>1 DEF SInv, Settled, Visiting, Rounds!ScheduleAssumption, Rounds!Disconnect
    <3>2. CASE current # None
      <4>1. current \in Share /\ Rounds!Unread
        BY <3>2 DEF SInv, Rounds!TypeOK, Rounds!Disconnect
      <4>2. s # current => pcSide'[s] = pcSide[s] /\ phoneSide'[s] = phoneSide[s]
        BY <4>1 DEF SInv, Rounds!TypeOK, Rounds!Unread
      <4>3. "read" \notin pcSide'[current] /\ phoneSide'[current] # "read"
        BY <4>1 DEF SInv, Rounds!TypeOK, Rounds!Unread
      <4>. QED
        BY <4>2, <4>3 DEF SInv, Settled
    <3>. QED
      BY <3>1, <3>2
  <2>. QED
    BY <2>1, <2>2 DEF Settled, Visiting
<1>3. PhoneOwed'
  BY DEF SInv, Rounds!TypeOK, Settled, PhoneOwed, Visiting, Rounds!Disconnect,
    Rounds!Break, Rounds!Unread, Rounds!Idle
<1>4. Delivered'
  BY DEF SInv, Rounds!TypeOK, Settled, Delivered, Faultless, Rounds!Committed,
    Rounds!Disconnect, Rounds!Break, Rounds!Unread, Rounds!Idle
<1>5. Faultless'
  BY DEF SInv, Rounds!TypeOK, Settled, Faultless, InRound, Rounds!Disconnect,
    Rounds!Break, Rounds!Unread, Rounds!Idle
<1>6. Divided'
  BY DEF SInv, Rounds!TypeOK, Settled, Faultless, Divided, Calm, InRound, Visiting,
    Rounds!Disconnect, Rounds!Break, Rounds!Unread, Rounds!Idle
<1>7. PcOwed'
  BY DEF SInv, Rounds!TypeOK, Settled, Delivered, Faultless, Divided, PcOwed, Calm,
    InRound, Visiting, Rounds!Committed, Rounds!Disconnect, Rounds!Break, Rounds!Unread,
    Rounds!Idle
<1>. QED
  BY <1>1, <1>2, <1>3, <1>4, <1>5, <1>6, <1>7 DEF SInv

\* A round ends when no Share remains.
LEMMA EndRoundKeeps ==
  ASSUME Rounds!ScheduleAssumption, SInv, Rounds!EndRound
  PROVE  SInv'
<1>. USE DEF Rounds!folders, Rounds!server, Rounds!phone, Rounds!round
<1>1. Rounds!TypeOK'
  <2>1. Flags'
    BY DEF SInv, Rounds!TypeOK, Flags, Rounds!EndRound, Rounds!Audit
  <2>2. ShareSets'
    BY DEF SInv, Rounds!TypeOK, ShareSets, Rounds!EndRound, Rounds!Audit
  <2>3. Maps'
    BY DEF SInv, Rounds!TypeOK, Maps, Rounds!EndRound, Rounds!Audit
  <2>4. Others'
    BY DEF SInv, Rounds!TypeOK, Others, Rounds!EndRound, Rounds!Audit
  <2>. QED
    BY <2>1, <2>2, <2>3, <2>4 DEF Rounds!TypeOK, Flags, ShareSets, Maps, Others
<1>2. Settled'
  BY DEF SInv, Rounds!TypeOK, Settled, Visiting, Rounds!EndRound, Rounds!Audit
<1>3. PhoneOwed'
  BY DEF SInv, Rounds!TypeOK, Settled, PhoneOwed, Visiting, Rounds!EndRound, Rounds!Audit
<1>4. Delivered'
  BY DEF SInv, Rounds!TypeOK, Settled, Delivered, Faultless, Rounds!Committed,
    Rounds!EndRound, Rounds!Audit
<1>5. Faultless'
  BY DEF SInv, Rounds!TypeOK, Settled, Faultless, InRound, Rounds!EndRound, Rounds!Audit
<1>6. Divided'
  BY DEF SInv, Rounds!TypeOK, Settled, Faultless, Divided, Calm, InRound, Visiting,
    Rounds!EndRound, Rounds!Audit
<1>7. PcOwed'
  BY DEF SInv, Rounds!TypeOK, Settled, Delivered, Faultless, Divided, PcOwed, Calm,
    InRound, Visiting, Rounds!Committed, Rounds!EndRound, Rounds!Audit
<1>. QED
  BY <1>1, <1>2, <1>3, <1>4, <1>5, <1>6, <1>7 DEF SInv

\* A pass that failed keeps its marks.
LEMMA PassFailsKeeps ==
  ASSUME Rounds!ScheduleAssumption, SInv, Rounds!PassFails
  PROVE  SInv'
<1>. USE DEF Rounds!folders, Rounds!server, Rounds!phone, Rounds!round
<1>1. Rounds!TypeOK'
  <2>1. Flags'
    BY DEF SInv, Rounds!TypeOK, Flags, Rounds!PassFails, Rounds!Idle
  <2>2. ShareSets'
    BY DEF SInv, Rounds!TypeOK, ShareSets, Rounds!PassFails, Rounds!Idle
  <2>3. Maps'
    BY DEF SInv, Rounds!TypeOK, Maps, Rounds!PassFails, Rounds!Idle
  <2>4. Others'
    BY DEF SInv, Rounds!TypeOK, Others, Rounds!PassFails, Rounds!Idle
  <2>. QED
    BY <2>1, <2>2, <2>3, <2>4 DEF Rounds!TypeOK, Flags, ShareSets, Maps, Others
<1>2. Settled'
  BY DEF SInv, Rounds!TypeOK, Settled, Visiting, Rounds!PassFails, Rounds!Idle
<1>3. PhoneOwed'
  BY DEF SInv, Rounds!TypeOK, Settled, PhoneOwed, Visiting, Rounds!PassFails, Rounds!Idle
<1>4. Delivered'
  BY DEF SInv, Rounds!TypeOK, Settled, Delivered, Faultless, Rounds!Committed,
    Rounds!PassFails, Rounds!Idle
<1>5. Faultless'
  BY DEF SInv, Rounds!TypeOK, Settled, Faultless, InRound, Rounds!PassFails, Rounds!Idle
<1>6. Divided'
  BY DEF SInv, Rounds!TypeOK, Settled, Faultless, Divided, Calm, InRound, Visiting,
    Rounds!PassFails, Rounds!Idle
<1>7. PcOwed'
  BY DEF SInv, Rounds!TypeOK, Settled, Delivered, Faultless, Divided, PcOwed, Calm,
    InRound, Visiting, Rounds!Committed, Rounds!PassFails, Rounds!Idle
<1>. QED
  BY <1>1, <1>2, <1>3, <1>4, <1>5, <1>6, <1>7 DEF SInv

\* A pass that ends removes the marks of Shares it completed, and all of them
\* only after a round over all.
LEMMA PassEndsKeeps ==
  ASSUME Rounds!ScheduleAssumption, SInv, Rounds!PassEnds
  PROVE  SInv'
<1>. USE DEF Rounds!folders, Rounds!server, Rounds!phone, Rounds!round
<1>1. Rounds!TypeOK'
  <2>1. mark' \in [Share -> {"none", "old", "new"}]
    BY DEF SInv, Rounds!TypeOK, Rounds!PassEnds, Rounds!Idle, Rounds!MarkAfter,
      Rounds!Consumed, Rounds!Audit, Rounds!NextAudit
  <2>2. all' \in {"none", "old", "new"}
    BY DEF SInv, Rounds!TypeOK, Rounds!PassEnds, Rounds!Idle, Rounds!MarkAfter,
      Rounds!Consumed, Rounds!Audit, Rounds!NextAudit
  <2>3. cursor' \in DOMAIN Rotation
    BY DEF SInv, Rounds!TypeOK, Rounds!PassEnds, Rounds!Idle, Rounds!MarkAfter,
      Rounds!Consumed, Rounds!Audit, Rounds!NextAudit
  <2>4. Flags'
    BY <2>1, <2>2, <2>3
    DEF SInv, Rounds!TypeOK, Flags, Rounds!PassEnds, Rounds!Idle, Rounds!MarkAfter,
      Rounds!Consumed, Rounds!Audit, Rounds!NextAudit
  <2>5. ShareSets'
    BY <2>1, <2>2, <2>3
    DEF SInv, Rounds!TypeOK, ShareSets, Rounds!PassEnds, Rounds!Idle, Rounds!MarkAfter,
      Rounds!Consumed, Rounds!Audit, Rounds!NextAudit
  <2>6. Maps'
    BY <2>1, <2>2, <2>3
    DEF SInv, Rounds!TypeOK, Maps, Rounds!PassEnds, Rounds!Idle, Rounds!MarkAfter,
      Rounds!Consumed, Rounds!Audit, Rounds!NextAudit
  <2>7. Others'
    BY <2>1, <2>2, <2>3
    DEF SInv, Rounds!TypeOK, Others, Rounds!PassEnds, Rounds!Idle, Rounds!MarkAfter,
      Rounds!Consumed, Rounds!Audit, Rounds!NextAudit
  <2>. QED
    BY <2>4, <2>5, <2>6, <2>7 DEF Rounds!TypeOK, Flags, ShareSets, Maps, Others
<1>2. Settled'
  BY DEF SInv, Rounds!TypeOK, Settled, Visiting, Rounds!PassEnds, Rounds!Idle,
    Rounds!MarkAfter, Rounds!Consumed, Rounds!Audit, Rounds!NextAudit
<1>3. PhoneOwed'
  BY DEF SInv, Rounds!TypeOK, Settled, PhoneOwed, Visiting, Rounds!PassEnds, Rounds!Idle,
    Rounds!MarkAfter, Rounds!Consumed, Rounds!Audit, Rounds!NextAudit
<1>4. Delivered'
  BY DEF SInv, Rounds!TypeOK, Settled, Delivered, Faultless, Rounds!Committed,
    Rounds!PassEnds, Rounds!Idle, Rounds!MarkAfter, Rounds!Consumed, Rounds!Audit,
    Rounds!NextAudit
<1>5. Faultless'
  BY DEF SInv, Rounds!TypeOK, Settled, Faultless, InRound, Rounds!PassEnds, Rounds!Idle,
    Rounds!MarkAfter, Rounds!Consumed, Rounds!Audit, Rounds!NextAudit
<1>6. Divided'
  BY DEF SInv, Rounds!TypeOK, Settled, Faultless, Divided, Calm, InRound, Visiting,
    Rounds!PassEnds, Rounds!Idle, Rounds!MarkAfter, Rounds!Consumed, Rounds!Audit,
    Rounds!NextAudit
<1>7. PcOwed'
  <2>. SUFFICES ASSUME Calm, NEW s \in Share, pcSide[s] # {}
                PROVE  \/ s \in channel \cup wire
                       \/ mark'[s] # "none" \/ all' # "none"
    BY DEF PcOwed, Calm, Rounds!PassEnds, Rounds!Idle
  <2>1. mark'[s] = Rounds!MarkAfter(s) /\ step \in {"done", "deferred"}
    BY DEF Rounds!PassEnds
  <2>2. CASE s \in told
    BY <2>1, <2>2 DEF Rounds!MarkAfter
  <2>3. CASE s \in completed
    BY <2>2, <2>3, <2>1 DEF SInv, PcOwed, InRound
  <2>4. CASE s \notin told /\ s \notin completed
    <3>1. mark'[s] = mark[s]
      BY <2>1, <2>4 DEF Rounds!MarkAfter, Rounds!Consumed
    <3>2. CASE all # "none" /\ all' = "none"
      <4>1. all = "old" /\ step = "done"
        BY <3>2 DEF Rounds!PassEnds
      <4>2. s \in completed \cup remaining \cup {current} /\ remaining = {} /\ current = None
        BY <4>1 DEF SInv, Settled, Divided, InRound, Visiting
      <4>. QED
        BY <2>4, <4>2 DEF Rounds!ScheduleAssumption
    <3>. QED
      BY <2>4, <3>1, <3>2 DEF SInv, PcOwed
  <2>. QED
    BY <2>2, <2>3, <2>4
<1>. QED
  BY <1>1, <1>2, <1>3, <1>4, <1>5, <1>6, <1>7 DEF SInv

\* The service has just started.
LEMMA StartHolds ==
  ASSUME Rounds!ScheduleAssumption, Rounds!Init
  PROVE  SInv
<1>1. Rounds!TypeOK
  <2>1. Flags
    BY DEF Flags, Rounds!Init
  <2>2. ShareSets
    BY DEF ShareSets, Rounds!Init
  <2>3. cursor \in DOMAIN Rotation
    BY DEF Rounds!Init, Rounds!ScheduleAssumption
  <2>4. Others
    BY <2>3 DEF Others, Rounds!Init, Rounds!ScheduleAssumption
  <2>5. Maps
    BY DEF Maps, Rounds!Init
  <2>. QED
    BY <2>1, <2>2, <2>4, <2>5, TypeParts
<1>2. Settled /\ PhoneOwed
  BY DEF Settled, PhoneOwed, Visiting, Rounds!Init
<1>3. Delivered /\ Faultless
  BY DEF Delivered, Faultless, InRound, Rounds!Init
<1>4. Divided /\ PcOwed
  BY DEF Divided, PcOwed, InRound, Rounds!Init
<1>. QED
  BY <1>1, <1>2, <1>3, <1>4 DEF SInv

\* Steps of the others change nothing.
LEMMA StutterKeeps ==
  ASSUME SInv, UNCHANGED Rounds!vars
  PROVE  SInv'
<1>. USE DEF Rounds!vars, Rounds!folders, Rounds!server, Rounds!phone, Rounds!round
<1>1. Rounds!TypeOK'
  <2>1. Flags' /\ ShareSets'
    BY DEF SInv, Rounds!TypeOK, Flags, ShareSets
  <2>2. Maps' /\ Others'
    BY DEF SInv, Rounds!TypeOK, Maps, Others
  <2>. QED
    BY <2>1, <2>2 DEF Rounds!TypeOK, Flags, ShareSets, Maps, Others
<1>2. Settled' /\ PhoneOwed'
  BY DEF SInv, Settled, PhoneOwed, Visiting
<1>3. Delivered' /\ Faultless'
  BY DEF SInv, Delivered, Faultless, Rounds!Committed, InRound
<1>4. Divided' /\ PcOwed'
  BY DEF SInv, Divided, PcOwed, Calm, InRound
<1>. QED
  BY <1>1, <1>2, <1>3, <1>4 DEF SInv

\* Every step keeps it.
LEMMA StepKeeps ==
  ASSUME Rounds!ScheduleAssumption, SInv, [Rounds!Next]_(Rounds!vars)
  PROVE  SInv'
<1>1. ASSUME Rounds!Visit PROVE SInv'
  BY <1>1, PreemptBeforeKeeps, PreemptScanKeeps, ContinueKeeps, CompleteKeeps,
    EndRoundKeeps,
     SelectKeeps DEF Rounds!Visit
<1>2. ASSUME NEW s \in Share,
             \/ Rounds!PcEdit(s) \/ Rounds!PhoneEdit(s) \/ Rounds!ManualRequest(s)
             \/ Rounds!MarkUrgent(s) \/ Rounds!Flush(s)
             \/ Rounds!ReceiveWake(s) \/ Rounds!ShareSkipped(s)
      PROVE  SInv'
  BY <1>2, PcEditKeeps, PhoneEditKeeps, ManualRequestKeeps, MarkUrgentKeeps, FlushKeeps,
     ReceiveWakeKeeps, ShareSkippedKeeps
<1>. QED
  BY <1>1, <1>2, WakeAllKeeps, AuditTickKeeps, SendWakesKeeps, BeginPassKeeps, ConnectKeeps,
     AcceptKeeps, PassEndsKeeps, PassFailsKeeps, ScanAbortedKeeps, ShareFailsKeeps,
     DisconnectKeeps, StutterKeeps DEF Rounds!Next

(* The inductive invariant of Schedule holds of every behaviour.           *)
THEOREM SInvariance ==
  ASSUME Rounds!ScheduleAssumption
  PROVE  Rounds!Spec => []SInv
<1>1. Rounds!Init => SInv
  BY StartHolds
<1>2. SInv /\ [Rounds!Next]_(Rounds!vars) => SInv'
  BY StepKeeps
<1>. QED
  BY <1>1, <1>2, PTL DEF Rounds!Spec

(* Types of the folders, the wakes, the requests and the pass.             *)
THEOREM RoundTypes ==
  ASSUME Rounds!ScheduleAssumption
  PROVE  Rounds!Spec => []Rounds!TypeOK
<1>1. SInv => Rounds!TypeOK
  BY DEF SInv
<1>. QED
  BY <1>1, SInvariance, PTL

(* No change is owed by nobody: until a round has read it, a change on the *)
(* phone is marked there whatever fails, and one on the PC is announced or *)
(* marked unless a fault or a narrowed round took its announcement.        *)
THEOREM ChangesAreOwed ==
  ASSUME Rounds!ScheduleAssumption
  PROVE  Rounds!Spec => []Rounds!ChangeOwed
<1>1. SInv => Rounds!ChangeOwed
  BY DEF SInv, PhoneOwed, PcOwed, Calm, Rounds!ChangeOwed
<1>. QED
  BY <1>1, SInvariance, PTL

(* A manual request is removed when it was served or refused, and never    *)
(* because an older one ended.                                             *)
THEOREM NewerRequestsAreKept ==
  ASSUME Rounds!ScheduleAssumption
  PROVE  Rounds!Spec => Rounds!NewerRequestKept
<1>. DEFINE OlderEnds == request # None /\ request' = None => step = "asked" \/ attempt = request
<1>1. ASSUME SInv, [Rounds!Next]_(Rounds!vars) PROVE [OlderEnds]_(Rounds!vars)
  <2>. USE DEF Rounds!folders, Rounds!server, Rounds!phone, Rounds!round, Rounds!vars
  <2>1. ASSUME NEW s \in Share, Rounds!ManualRequest(s) PROVE OlderEnds
    <3>1. request' \in Rounds!Request
      BY <1>1, <2>1 DEF SInv, Rounds!TypeOK, Rounds!ManualRequest, Rounds!Request
    <3>. QED
      BY <3>1 DEF Rounds!ScheduleAssumption
  <2>2. ASSUME NEW s \in Share,
               \/ Rounds!PcEdit(s) \/ Rounds!PhoneEdit(s) \/ Rounds!MarkUrgent(s)
               \/ Rounds!Flush(s) \/ Rounds!ReceiveWake(s)
               \/ Rounds!ShareSkipped(s) \/ Rounds!Select(s)
        PROVE OlderEnds
    BY <2>2
    DEF Rounds!PcEdit, Rounds!PhoneEdit, Rounds!MarkUrgent, Rounds!Flush,
      Rounds!ReceiveWake, Rounds!ShareSkipped, Rounds!Select
  <2>3. CASE Rounds!Accept \/ Rounds!Complete \/ Rounds!ShareFails
    BY <2>3 DEF Rounds!Accept, Rounds!Complete, Rounds!ShareFails, Rounds!Served
  <2>4. CASE Rounds!WakeAll \/ Rounds!AuditTick \/ Rounds!SendWakes
          \/ Rounds!BeginPass \/ Rounds!Connect \/ Rounds!PassEnds
          \/ Rounds!PassFails
    BY <2>4
    DEF Rounds!WakeAll, Rounds!AuditTick, Rounds!SendWakes, Rounds!BeginPass,
      Rounds!Connect, Rounds!PassEnds, Rounds!PassFails
  <2>5. CASE Rounds!PreemptBefore \/ Rounds!PreemptScan \/ Rounds!ScanAborted
          \/ Rounds!Continue \/ Rounds!EndRound \/ Rounds!Disconnect
    BY <2>5
    DEF Rounds!PreemptBefore, Rounds!PreemptScan, Rounds!ScanAborted, Rounds!Continue,
      Rounds!EndRound, Rounds!Disconnect
  <2>. QED
    BY <1>1, <2>1, <2>2, <2>3, <2>4, <2>5 DEF Rounds!Next, Rounds!Visit
<1>. QED
  BY <1>1, SInvariance, PTL DEF Rounds!Spec, Rounds!NewerRequestKept
=============================================================================
