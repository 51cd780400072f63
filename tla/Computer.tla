------------------------------ MODULE Computer -------------------------------
(***************************************************************************)
(* What the computer must never do, stated of its parts together: pairing  *)
(* (Pairing), the daemon and its commands (DaemonControl), the hash cache  *)
(* of a scan (ScanCache), the configuration on disk (ConfigStore), and the *)
(* way of a change from the kernel to the disk (WatchHints) and from there *)
(* to a round with the phone (Schedule). Each part has its own state.      *)
(***************************************************************************)
EXTENDS Pairing

\* The daemon and the commands that ask it (DaemonControl).
CONSTANTS Proc, Cmd, NoProc, Unit, Given, LineMax, CrashMax
VARIABLES lock, path, daemon, cmd, conn, log, emitting, sub, crashes

Daemon == INSTANCE DaemonControl

\* A scan of a Share and its cache (ScanCache).
CONSTANTS Path, Node, Piece, Absent, EditMax
VARIABLES file, content, changed, edits, quiet, phase, kind, job, prepared, cache,
  disk, manifest, copy

Cache == INSTANCE ScanCache

\* The configuration and the Shares' state on disk (ConfigStore).
CONSTANTS Writer, ImportMax, LossMax
VARIABLES store_dir, store_may, store_at, store_copy, store_lock, store_session,
  store_done, store_raced, store_losses

Store == INSTANCE ConfigStore WITH
  dir <- store_dir, may <- store_may, at <- store_at, copy <- store_copy,
  lock <- store_lock, session <- store_session, done <- store_done,
  raced <- store_raced, losses <- store_losses

\* The watcher of a Share and its hints (WatchHints).
CONSTANTS Watched, Version, Received, Tree, Nothing, QueueMax, NoticeMax
VARIABLES hint_file, hint_seen, hint_unsaved, hint_raw, hint_checking, hint_queue,
  hint_recovery, hint_registry, hint_up, hint_enabled, hint_watched, hint_registering,
  hint_dirty, hint_hint, hint_phase, hint_scope, hint_installing

Noticed == INSTANCE WatchHints WITH
  Path <- Watched, EventMax <- NoticeMax,
  file <- hint_file, seen <- hint_seen, unsaved <- hint_unsaved,
  raw <- hint_raw, checking <- hint_checking, queue <- hint_queue,
  recovery <- hint_recovery, registry <- hint_registry, up <- hint_up,
  enabled <- hint_enabled, watched <- hint_watched,
  registering <- hint_registering, dirty <- hint_dirty, hint <- hint_hint,
  phase <- hint_phase, scope <- hint_scope, installing <- hint_installing

\* The rounds with the phone (Schedule).
CONSTANTS Share, Rotation, Broken, None, PcEdited, PhoneWoken, Requested, FaultMax
VARIABLES round_pcSide, round_phoneSide, round_faults, round_narrowed,
  round_collected, round_urgent, round_newer, round_channel, round_preempted,
  round_request, round_wire, round_online, round_due, round_mark, round_all,
  round_auditDue, round_auditDeferred, round_cursor, round_step, round_kind,
  round_focus, round_excluded, round_remaining, round_current,
  round_completed, round_attempt, round_told

Rounds == INSTANCE Schedule WITH
  pcSide <- round_pcSide, phoneSide <- round_phoneSide,
  faults <- round_faults, narrowed <- round_narrowed,
  collected <- round_collected, urgent <- round_urgent, newer <- round_newer,
  channel <- round_channel, preempted <- round_preempted,
  request <- round_request, wire <- round_wire, online <- round_online,
  due <- round_due, mark <- round_mark, all <- round_all,
  auditDue <- round_auditDue, auditDeferred <- round_auditDeferred,
  cursor <- round_cursor, step <- round_step, kind <- round_kind,
  focus <- round_focus, excluded <- round_excluded,
  remaining <- round_remaining, current <- round_current,
  completed <- round_completed, attempt <- round_attempt, told <- round_told

ASSUME PartsAssumption ==
  /\ Daemon!DaemonAssumption
  /\ Cache!ScanCacheAssumption
  /\ Store!ConfigStoreAssumption
  /\ Noticed!WatchAssumption
  /\ Rounds!ScheduleAssumption

\* The parts run side by side: each behaves as its module says, whatever the
\* others do.
ComputerSpec ==
  Spec /\ Daemon!Spec /\ Cache!Spec /\ Store!Spec /\ Noticed!Spec /\ Rounds!Spec

-----------------------------------------------------------------------------
PartsTypeOK ==
  TypeOK /\ Rounds!TypeOK /\ Daemon!TypeOK /\ Store!TypeOK /\ Noticed!TypeOK /\ Cache!TypeOK

\* A change on the PC is remembered on its way to the disk (WatchHints), then
\* until a round has covered it (Schedule).
EditsRemembered == PartsTypeOK /\ Rounds!ChangeOwed /\ Noticed!ChangeRemembered

\* The socket's path names the listener of the daemon that holds the lock, a
\* command that reports a start has seen its own process ready, and a follower
\* misses no line (DaemonControl).
CommandsTellTruth == Daemon!CommandsTellTruth

\* The Shares' state always belongs to the configuration, a round never works
\* across an import, and a saved change stays (ConfigStore).
ConfigurationHolds == Store!ConfigurationHolds

\* A manual request is removed when it was served or refused, and never
\* because an older one ended (Schedule: finish_manual_request).
NewerRequestKept == Rounds!NewerRequestKept

\* No cached hash is of another version than its fingerprint, a scan nobody
\* disturbs is exact, and a copy made ahead is sent only while it is current
\* (ScanCache: scan_paths, PhysicalHashCache of the PC, SnapshotPrefetch).
CacheTellsTruth == Cache!CacheTellsTruth

=============================================================================
