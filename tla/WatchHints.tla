----------------------------- MODULE WatchHints -----------------------------
(***************************************************************************)
(* What the PC remembers of a change in a Share until a scan has read it.  *)
(* The notify thread filters events (watcher.rs) and drops those of Rowd's *)
(* own installations (internal_writes.rs); the serve loop of rowd-app      *)
(* collects the rest and, whenever no session holds the lock, writes them  *)
(* to cache-dirty.json; the next round reads that hint and trusts its      *)
(* cache for every other path. SyncRound takes for granted that a change   *)
(* is either noticed or hinted: this module is why it may.                 *)
(***************************************************************************)
EXTENDS Naturals, Sequences, FiniteSets

CONSTANTS
  Path,        \* relative paths of the Share
  Version,     \* contents a user saves, each once
  Received,    \* contents a round installs
  Absent,
  Tree,        \* "": anything in the Share may have changed
  Nothing,
  QueueMax,    \* sync_channel(1024) between the notify thread and serve
  EventMax     \* bound of the instance: events on their way from the kernel

ASSUME WatchAssumption ==
  /\ Version \cap Received = {} /\ Absent \notin Version \cup Received
  /\ Tree \notin Path /\ Nothing \notin Path
  /\ QueueMax \in Nat \ {0} /\ EventMax \in Nat \ {0}

Content == Version \cup Received \cup {Absent}

\* A queued event: the path it names (Tree: an event that lost others, or an
\* error) and whether it is structural (Remove, a rename, a new folder).
Event == [path : Path \cup {Tree}, structural : BOOLEAN]

VARIABLES
  file,         \* the folder
  seen,         \* ghost: what the last scan or installation knew of a path
  unsaved,      \* bound of the instance: versions no user has saved yet
  raw,          \* events on their way to the notify thread
  checking,     \* the event and the entry matches() compares outside the lock
  queue,        \* the bounded channel
  recovery,     \* Ingress.recovery: the Share lost events to a full queue
  registry,     \* INTERNAL_WRITES
  up,           \* the serve loop runs
  enabled,      \* the Share is enabled in config.json
  watched,      \* serve knows the Share and watches its root
  registering,  \* pending_watch_registration
  dirty,        \* dirty: the paths of the Share that are not on disk yet
  hint,         \* cache-dirty.json; Tree also for a cache of other rules
  phase,        \* of the session that holds the lock
  scope,        \* paths the round still has to read
  installing    \* the installation under way

folder  == <<file, seen, unsaved>>
ingress == <<raw, checking, queue, recovery, registry>>
serve   == <<up, enabled, watched, registering, dirty>>
store   == <<hint, phase, scope, installing>>
vars    == <<folder, ingress, serve, store>>

NoWrite == [entry |-> Nothing, finished |-> FALSE]
Checked(event, entry) == [event |-> event, entry |-> entry]
NoCheck == Checked([path |-> Tree, structural |-> FALSE], Nothing)
NoInstall == [path |-> Nothing, step |-> "none"]

TypeOK ==
  /\ file \in [Path -> Content] /\ seen \in [Path -> Content]
  /\ unsaved \subseteq Version
  /\ raw \in Seq(Event) /\ Len(raw) <= EventMax
  /\ checking \in [event : Event, entry : Received \cup {Nothing}]
  /\ queue \in Seq(Event) /\ Len(queue) <= QueueMax
  /\ recovery \in BOOLEAN
  /\ registry \in [Path -> [entry : Received \cup {Nothing}, finished : BOOLEAN]]
  /\ up \in BOOLEAN /\ enabled \in BOOLEAN /\ watched \in BOOLEAN
  /\ registering \in BOOLEAN
  /\ dirty \subseteq Path \cup {Tree} /\ hint \subseteq Path \cup {Tree}
  /\ phase \in {"none", "delta", "hash", "work"}
  /\ scope \subseteq Path
  /\ installing \in [path : Path \cup {Nothing},
                     step : {"none", "registered", "published", "completed"}]

\* The daemon starts over a Share somebody edited while it was down.
Init ==
  /\ file \in [Path -> {Absent} \cup Version]
  /\ \A p, q \in Path : p # q => file[p] = Absent \/ file[p] # file[q]
  /\ seen = [p \in Path |-> Absent]
  /\ unsaved = {v \in Version : \A p \in Path : file[p] # v}
  /\ raw = <<>> /\ checking = NoCheck /\ queue = <<>> /\ recovery = FALSE
  /\ registry = [p \in Path |-> NoWrite]
  /\ up = TRUE /\ enabled = TRUE /\ watched = FALSE
  /\ registering = FALSE /\ dirty = {}
  /\ hint \in {{}, {Tree}}
  /\ phase = "none" /\ scope = {} /\ installing = NoInstall

-----------------------------------------------------------------------------
(* The user and the kernel.                                                *)

Observed == up /\ watched

\* The kernel reports to a live watch; a queue of its own that is full is
\* reported as one Rescan event.
Report(event) ==
  raw' = IF ~Observed THEN raw
         ELSE IF Len(raw) < EventMax THEN Append(raw, event)
         ELSE <<[path |-> Tree, structural |-> FALSE]>>

Save(p, v) ==
  /\ v \in unsaved
  /\ unsaved' = unsaved \ {v}
  /\ file' = [file EXCEPT ![p] = v]
  /\ Report([path |-> p, structural |-> FALSE])
  /\ UNCHANGED <<seen, checking, queue, recovery, registry, serve, store>>

\* Renames and removals are structural.
Remove(p) ==
  /\ file[p] # Absent
  /\ file' = [file EXCEPT ![p] = Absent]
  /\ Report([path |-> p, structural |-> TRUE])
  /\ UNCHANGED <<seen, unsaved, checking, queue, recovery, registry, serve, store>>

-----------------------------------------------------------------------------
(* internal_writes and Ingress::send, on the notify thread.                *)

\* Mutant: an event the queue has no room for is dropped.
EnqueueDrops(event) ==
  IF Len(queue) < QueueMax
  THEN queue' = Append(queue, event) /\ UNCHANGED recovery
  ELSE UNCHANGED <<queue, recovery>>

\* try_send; without room the Share is marked for recovery.
Enqueue(event) ==
  IF Len(queue) < QueueMax
  THEN queue' = Append(queue, event) /\ UNCHANGED recovery
  ELSE recovery' = TRUE /\ UNCHANGED queue

Known(p) == p # Tree /\ registry[p].entry # Nothing

\* matches() waits two seconds for an unfinished write, then gives up; a
\* path without an entry is of interest at once.
Receive ==
  /\ raw # <<>> /\ checking.entry = Nothing
  /\ Enqueue(Head(raw))
  /\ raw' = Tail(raw)
  /\ ~(Known(Head(raw).path) /\ registry[Head(raw).path].finished)
  /\ UNCHANGED <<folder, checking, registry, serve, store>>

\* The entry is copied under the lock ...
Suspect ==
  /\ raw # <<>> /\ checking.entry = Nothing
  /\ Known(Head(raw).path) /\ registry[Head(raw).path].finished
  /\ checking' = Checked(Head(raw), registry[Head(raw).path].entry)
  /\ raw' = Tail(raw)
  /\ UNCHANGED <<folder, queue, recovery, registry, serve, store>>

\* Mutant: an event of a path Rowd has just written is Rowd's.
CompareTrusts ==
  /\ checking.entry # Nothing
  /\ checking' = NoCheck
  /\ UNCHANGED <<folder, raw, queue, recovery, registry, serve, store>>

\* ... and the file compared outside it; a mismatch ends the entry.
Compare ==
  /\ checking.entry # Nothing
  /\ checking' = NoCheck
  /\ LET p == checking.event.path IN
       IF file[p] = checking.entry
       THEN UNCHANGED <<queue, recovery, registry>>
       ELSE registry' = [registry EXCEPT ![p] = NoWrite] /\ Enqueue(checking.event)
  /\ UNCHANGED <<folder, raw, serve, store>>

\* Finished entries expire after thirty seconds.
Expire(p) ==
  /\ registry[p].finished
  /\ registry' = [registry EXCEPT ![p] = NoWrite]
  /\ UNCHANGED <<folder, raw, checking, queue, recovery, serve, store>>

-----------------------------------------------------------------------------
(* The serve loop.                                                         *)

Marked(S) == IF Tree \in S THEN {Tree} ELSE S

Disable ==
  /\ enabled /\ phase = "none"
  /\ enabled' = FALSE
  /\ UNCHANGED <<folder, ingress, up, watched, registering, dirty, store>>

Enable ==
  /\ ~enabled /\ phase = "none"
  /\ enabled' = TRUE
  /\ UNCHANGED <<folder, ingress, up, watched, registering, dirty, store>>

\* The configuration is read every second: a Share that became enabled is
\* watched and registered, one that is not is forgotten.
Reload ==
  /\ up /\ watched # enabled
  /\ watched' = enabled
  /\ registering' = enabled
  /\ UNCHANGED <<folder, ingress, up, enabled, dirty, store>>

LockFree == phase = "none"

\* try_invalidate_share_cache_serialized(full): trust begins with a hint.
Register ==
  /\ up /\ watched /\ registering /\ LockFree
  /\ registering' = FALSE
  /\ hint' = {Tree}
  /\ UNCHANGED <<folder, ingress, up, enabled, watched, dirty,
                 phase, scope, installing>>

\* The second filter of an event, as it leaves the queue.
Internal(p) ==
  Known(p) /\ registry[p].finished /\ file[p] = registry[p].entry

\* An event without a path, or an error, marks every Share in full.
Consume ==
  /\ up /\ queue # <<>>
  /\ queue' = Tail(queue)
  /\ LET e == Head(queue)
         ours == e.path # Tree /\ Internal(e.path) IN
       /\ dirty' = IF ~watched \/ ours THEN dirty
                   ELSE IF e.structural THEN {Tree} ELSE Marked(dirty \cup {e.path})
       /\ registry' = IF ~watched \/ ours \/ e.path = Tree \/ ~registry[e.path].finished
                      THEN registry ELSE [registry EXCEPT ![e.path] = NoWrite]
  /\ UNCHANGED <<folder, raw, checking, recovery, up, enabled, watched, registering, store>>

\* Once a second: take_recovery.
Recover ==
  /\ up /\ recovery
  /\ recovery' = FALSE
  /\ dirty' = {Tree}
  /\ UNCHANGED <<folder, raw, checking, queue, registry,
                 up, enabled, watched, registering, store>>

\* Fifteen minutes, or sixty seconds with an untrusted watcher.
FullDue ==
  /\ up /\ watched
  /\ dirty' = {Tree}
  /\ UNCHANGED <<folder, ingress, up, enabled, watched, registering, store>>

\* Mutant: the paths are forgotten although a session holds the lock.
FlushImpatient ==
  /\ up /\ watched /\ dirty # {}
  /\ dirty' = {}
  /\ hint' = IF LockFree THEN Marked(hint \cup dirty) ELSE hint
  /\ UNCHANGED <<folder, ingress, up, enabled, watched, registering,
                 phase, scope, installing>>

\* 150 ms after the last event: queue_cache_invalidation, if no session
\* holds the lock.
Flush ==
  /\ up /\ watched /\ dirty # {} /\ LockFree
  /\ dirty' = {}
  /\ hint' = Marked(hint \cup dirty)
  /\ UNCHANGED <<folder, ingress, up, enabled, watched, registering,
                 phase, scope, installing>>

\* An error of the loop, or the process: what it holds in memory is gone.
Stop ==
  /\ up
  /\ up' = FALSE /\ watched' = FALSE /\ registering' = FALSE
  /\ dirty' = {} /\ recovery' = FALSE /\ raw' = <<>> /\ queue' = <<>>
  /\ checking' = NoCheck
  /\ registry' = [p \in Path |-> NoWrite]
  /\ phase' = "none" /\ scope' = {} /\ installing' = NoInstall
  /\ UNCHANGED <<folder, enabled, hint>>

Start ==
  /\ ~up
  /\ up' = TRUE
  /\ UNCHANGED <<folder, ingress, enabled, watched, registering, dirty, store>>

-----------------------------------------------------------------------------
(* A session's round on the Share.                                         *)

\* open_impl and delta_paths: a hint that names paths, and no more,
\* makes a delta of these paths (and of those the phone names), anything
\* else a full scan. An audit is a full scan by its own right.
Open(audit, asked) ==
  /\ up /\ LockFree /\ enabled
  /\ IF Tree \notin hint /\ ~audit
     THEN phase' = "delta" /\ scope' = hint \cup asked
     ELSE phase' = "hash" /\ scope' = Path
  /\ UNCHANGED <<folder, ingress, serve, hint, installing>>

\* scan_paths and hash_paths: one file after the other.
Hash(p) ==
  /\ phase \in {"delta", "hash"} /\ p \in scope
  /\ seen' = [seen EXCEPT ![p] = file[p]]
  /\ scope' = scope \ {p}
  /\ UNCHANGED <<file, unsaved, ingress, serve, hint, phase, installing>>

\* A delta leaves the hint where it is; the next full scan removes it.
DeltaDone ==
  /\ phase = "delta" /\ scope = {}
  /\ phase' = "work"
  /\ UNCHANGED <<folder, ingress, serve, hint, scope, installing>>

\* scan(): cache.json first, then the hint.
ScanDone ==
  /\ phase = "hash" /\ scope = {}
  /\ hint' = {}
  /\ phase' = "work"
  /\ UNCHANGED <<folder, ingress, serve, scope, installing>>

\* Any step of a round may fail, and a round ends.
Close ==
  /\ phase # "none"
  /\ phase' = "none" /\ scope' = {}
  /\ registry' = [p \in Path |-> IF registry[p].finished THEN registry[p] ELSE NoWrite]
  /\ installing' = NoInstall
  /\ UNCHANGED <<folder, raw, checking, queue, recovery, serve, hint>>

\* install_file: the write is registered, ...
InstallRegister(p, c) ==
  /\ phase = "work" /\ installing.step = "none"
  /\ \A q \in Path : file[q] # c /\ seen[q] # c
  /\ registry' = [registry EXCEPT ![p] = [entry |-> c, finished |-> FALSE]]
  /\ installing' = [path |-> p, step |-> "registered"]
  /\ UNCHANGED <<folder, raw, checking, queue, recovery, serve, hint, phase, scope>>

\* ... published over the version that was compared, ...
InstallPublish ==
  /\ installing.step = "registered"
  /\ LET p == installing.path
         c == registry[p].entry IN
       /\ c # Nothing
       /\ file[p] = seen[p]
       /\ file' = [file EXCEPT ![p] = c] /\ seen' = [seen EXCEPT ![p] = c]
       /\ Report([path |-> p, structural |-> FALSE])
  /\ installing' = [installing EXCEPT !.step = "published"]
  /\ UNCHANGED <<unsaved, checking, queue, recovery, registry, serve,
                 hint, phase, scope>>

\* ... marked finished, ...
InstallComplete ==
  /\ installing.step = "published"
  /\ registry' = [registry EXCEPT ![installing.path] =
                    IF @.entry = Nothing THEN @ ELSE [@ EXCEPT !.finished = TRUE]]
  /\ installing' = [installing EXCEPT !.step = "completed"]
  /\ UNCHANGED <<folder, raw, checking, queue, recovery, serve, hint, phase, scope>>

\* ... and hinted, because its events are not.
InstallHint ==
  /\ installing.step = "completed"
  /\ hint' = Marked(hint \cup {installing.path})
  /\ installing' = NoInstall
  /\ UNCHANGED <<folder, ingress, serve, phase, scope>>

-----------------------------------------------------------------------------
User == \E p \in Path : Remove(p) \/ \E v \in Version : Save(p, v)

NotifyThread == Receive \/ Suspect \/ Compare

ServeLoop == Reload \/ Register \/ Consume \/ Recover

Round ==
  \/ \E p \in Path : Hash(p)
  \/ DeltaDone \/ ScanDone
  \/ InstallPublish \/ InstallComplete \/ InstallHint

Next ==
  \/ User
  \/ NotifyThread \/ \E p \in Path : Expire(p)
  \/ Disable \/ Enable \/ ServeLoop \/ FullDue \/ Flush \/ Stop \/ Start
  \/ \E audit \in BOOLEAN, asked \in SUBSET Path : Open(audit, asked)
  \/ Round \/ Close
  \/ \E p \in Path, c \in Received : InstallRegister(p, c)

Spec == Init /\ [][Next]_vars

\* The threads take their next step, a round that began ends, and the loop
\* finds the lock free between two rounds again and again.
Fairness ==
  /\ WF_vars(NotifyThread)
  /\ WF_vars(Reload) /\ WF_vars(Consume) /\ WF_vars(Recover)
  /\ WF_vars(Close)
  /\ SF_vars(Register) /\ SF_vars(Flush)

FairSpec == Spec /\ Fairness

-----------------------------------------------------------------------------
(* Where a change of a path is remembered.                                 *)

Names(S, p) == p \in S \/ Tree \in S

Carries(events, p) == \E i \in DOMAIN events : events[i].path \in {p, Tree}

OnTheWay(p) ==
  \/ Carries(raw, p)
  \/ checking.entry # Nothing /\ checking.event.path = p
  \/ Carries(queue, p)
  \/ recovery \/ Names(dirty, p)

\* A Share that serve does not watch, or has only begun to, is hinted as a
\* whole before the next round on it.
Unwatched == ~up \/ ~watched \/ registering

(* No change is forgotten: as long as no scan has read what is in the      *)
(* folder, the path is on its way to serve, collected there, or hinted on  *)
(* disk. (Ingress::send,                                                   *)
(* internal_writes::matches, take_recovery, queue_cache_invalidation.)     *)
ChangeRemembered ==
  \A p \in Path : file[p] # seen[p] =>
    OnTheWay(p) \/ Unwatched \/ Names(hint, p)

(* A change reaches cache-dirty.json although rounds hold the lock, unless *)
(* a scan reads it, the Share is disabled or the loop stops.               *)
HintReachesDisk ==
  \A p \in Path : file[p] # seen[p] ~>
    Names(hint, p) \/ file[p] = seen[p] \/ ~up \/ ~enabled

=============================================================================
