# Rowd: specifications, model checking and proofs

Rowd keeps folders ("Shares") equal between one Linux PC and one Android phone.
The PC coordinates: a session server visits the Shares one after another over
one TLS connection, compares both folders with the base of the last round, and
moves whole files, identified by their BLAKE3 hash. Nothing is deleted by a
round; concurrent edits keep both versions.

This directory holds TLA+ modules of the parts whose behaviour is hard to test,
the TLC configurations that check them on small instances, and proofs that TLAPS
checks for every instance. `PROJECT.json` lists components, runs, the code each
definition stands for, mutants, hazards, findings and theorems.

## 1. The system

### 1.1 Components

| component | code | state it keeps | what makes it correct | module |
|---|---|---|---|---|
| PC store, replacement and recovery | `rowd-core/storage.rs` 820-1470 | files, `.rowd/recovery/<id>` backups and records, the store's lock | a replacement is atomic at every crash point and conditional on the version compared; no version disappears | `InstallJournal`, `ConditionalReplace` |
| PC store, scan, cache, hints | `storage.rs` 1134-1160, 1600-2070 | `cache-dirty.json`, hash cache, prepared scans and copies | a hint is dropped only when its change was compared; no hash of another version is trusted | `ScanCache`, `WatchHints`, `SyncRound` |
| Round of a Share | `sync.rs`, `model.rs` | base, tokens, retry paths, candidate base | no update is lost; the base is a version both sides had; directions are respected; both sides converge | `SyncRound` |
| The conversation of a round | `sync.rs`, `managed.rs`, `protocol.rs` | what each side waits for, the two streams, the budget of overlapping Gets | nobody reads a frame it does not handle; preemption and deferral may cross | `Exchange`, `GetOverlap` |
| SAF store of the phone | `FolderAccess.kt` | observers' flags, scan in progress, its own journal | a write that is not atomic is recognised and recovered | `SafInstall` |
| Session server and scheduling | `rowd-app/lib.rs` | urgent Shares, wakes, manual request, deferrals | every change is served by a round that began after it | `Schedule` |
| Managed client, native bridge | `managed.rs`, `rowd-android/*.rs` | the kept connection, errors of the Shares | a Share's error stays the Share's, a connection's error the connection's | `ClientRound`, `IdleWake` |
| Android service | `SyncService.kt`, `WakeState.kt` | wake generations, audit rotation, the worker | a wake during a session is not cleared by it; the worker never sleeps over work | `IdleWake`, `Schedule` |
| Watcher, internal writes | `watcher.rs`, `internal_writes.rs` | bounded queue, hints in memory, registry of own writes | an external change is always known somewhere | `WatchHints` |
| Admission of local work | `resources.rs` | tickets, weights | never above the limit, everybody served | `Admission` |
| Requests for Shares | `rowd-app/lib.rs`, `managed.rs`, `FolderAccess.kt` | requests, refusals, bindings | a verdict reaches the phone once and for good | `ShareRequests` |
| Pairing and identity | `pairing.rs`, `tls.rs`, `rowd-app/lib.rs`, `rowd-android/lib.rs` | mode, pending request, identity, peer | only a phone the user agreed to is obeyed | `Pairing` |
| Discovery | `discovery.rs` | memberships, last verified address | the phone comes back after a change of network | `Endpoint` |
| Daemon control | `rowd-daemon/unix.rs` | lock, socket, readiness, log followers | one daemon; commands tell the truth | `DaemonControl` |
| Configuration and import | `config.rs`, `rowd-app/lib.rs` | `device.json`, the Shares' state, the import's marker | an import happens as a whole or not at all | `ConfigStore` |
| Ignore rules, user interfaces, tracing | `ignore.rs`, `rowd`, `MainActivity.kt`, `trace.rs` | - | - | not modelled |

### 1.2 How they interact

A change in the PC's folder reaches the notify thread, a bounded queue, the
serve loop and, between sessions, `cache-dirty.json`. While a session holds the
lock the Share is marked urgent instead, and the session tells the phone when it
preempts an audit. A change on the phone reaches the observers' flags and
`WakeState`, and through a socketpair the worker that sleeps in `poll` over the
kept connection. The worker runs a pass: one call of the native bridge, which
connects if it must (through the resolver), asks for the Shares that are marked
or whose audit is due, and serves the sessions' rounds. The PC visits these
Shares under its session lock: it opens the store (lock, then `recover`), decides
on a **delta** or a **full scan**, decides each path by `reconcile(base, pc,
phone)`, and works on it with `Get`, `Put`, `StagePut` or the three
installations of a conflict; results go into a candidate base. In the end `Done`
with a new token is sent and the candidate is renamed over the base. Any error
ends the round: nothing of it stays except what was installed.

Beside it, the phone's requests for new Shares travel in the negotiation of a
session, the daemon's commands come over a local socket, and the interface and
the command line change the configuration under a lock of its own.

### 1.3 What is hard

Editors never take the store's lock, so every check of a file can be stale when
it is used. Rounds stop anywhere: crash, lost connection, timeout, preemption by
urgent work. Several pieces of trust (hint, flags, tokens, base, wakes) live on
two machines, partly on disk and partly in memory, and are updated at different
moments. Transfers overlap with the hash stream, and preemption with the frames
already on their way. Threads wake each other through bytes, bits and condition
variables. `PROJECT.json` lists these hazards at the lines where they bite, with
the properties that cover them or the reason why none does.

## 2. Modules

| module | what it is | abstracts from |
|---|---|---|
| `InstallJournal`, `ConditionalReplace`, `InstallReplaces` | the PC's replacement of a file, what it promises, and the refinement mapping | hashing, temporary files, directory syncs |
| `SafInstall` | the phone's `install`, `recoverPending`, `resolveRecovery` with torn writes | several Shares, directories, the scan itself |
| `SyncRound` | a Share round after round | installations (one step), framing, budgets |
| `Exchange` | the frames of a round, both readers, preemption and deferral | the folders: a file is only received, installed or not |
| `GetOverlap` | two Get windows, receiver and installer under one budget | the content of the files |
| `Admission` | permits of hash and file work | the work |
| `Schedule` | which Shares a pass asks for, a round visits, and what preempts it | what a visit does |
| `ClientRound` | one call of the native bridge, its errors and what is kept | what a visit does |
| `IdleWake` | the worker between two rounds and the threads that wake it | the frames it reads |
| `WatchHints` | a change from the kernel to the scan that reads it | contents, the round's own logic |
| `ScanCache` | fingerprints, hash cache, prepared scans, copies made ahead | directories, hidden names |
| `ShareRequests` | a request for a Share, on both sides | the pairing, the folders |
| `Pairing` | mode, decision, authentication, promotion, revocation | cryptography |
| `Endpoint` | the resolver and the responder's memberships | packets |
| `DaemonControl` | daemons, commands, readiness, followers | queries that only read |
| `ConfigStore` | the configuration, locked updates, the import and its recovery | the fields |
| `Computer` | the computer's parts side by side, and what they promise together | nothing more: the parts share no variable |
| `InstallJournalProofs`, `SafInstallProofs`, `SyncRoundProofs`, `EditProofs`, `PhoneProofs`, `ConfigurationProofs`, `ComputerProofs`, `SessionProofs` | the theorems of section 4 | |
| `MCInstallJournal`, `MCSafInstall`, `MCSyncRound`, `MCWatch`, `MCSchedule`, `MCPairing` | constants and symmetry for TLC | |
| `MCRounds` | six instances of `SyncRound` in one run: one under the module's own names, five beside it | |
| `MCPhone`, `MCSession`, `MCComputer`, `MCComputerLive` | several modules checked in one run | |

The last five are *bundles*: the variable `instance` or `which` is chosen in the
initial state and never changes; only that part moves, the others stay in one of
their initial states. A bundle's state space is the sum of its parts' and not
their product, so a bundle says nothing of how its parts interact and is meant
to say nothing. Invariants of a parked part hold in its initial state; what must
happen is stated as `Part!Fairness => ...`, because the specification of the
bundle has no fairness of its own.

`MCComputer` extends `Computer`, where the same parts all move: `ComputerSpec` is
the conjunction of their specifications, and the theorems of section 4 are about
that one. A behaviour of the bundle is one of its behaviours, with every part but
one stuttering, so the run checks the invariants of each part on an instance and
the theorems prove them of all parts for every instance.

Where parts do interact, one module promises what another takes as one step:
`SyncRound`'s installation is `InstallJournal` (proved to implement
`ConditionalReplace`) and `SafInstall`; `SyncRound`'s hints and notices are
`WatchHints`; its round seen as frames is `Exchange`, whose windows are
`GetOverlap`; `Schedule` and `ClientRound` take a visit of a Share as one step
that completes, is put off or fails, which is what `SyncRound` and `Exchange`
show; `Schedule`'s wakes reach the worker by `IdleWake`, the connection it takes
for granted is `Endpoint`'s and `Pairing`'s.

For the PC's store the link is checked and proved: steps of the store, crashes
and recoveries included, change what counts at a path only where a request takes
effect. For the phone there is no such link, because the code does not give it:
the Storage Access Framework cannot compare and replace. `SafInstall` says what
holds instead (`TruncatesOnlyExpected`): a version is overwritten unseen only if
it was saved between the second comparison and the write, and a write that stops
in the middle is refused by every full scan until the user answers. `SyncRound`'s
`WriteOnPhone` leaves that window and torn writes out.

### 2.1 InstallJournal and the code

`target`, `backup` and `journal` are the disk. `pc` names the next statement of
whichever function holds the store's lock; `op`, `todo`, `cur`, `copy` are its
arguments and locals. `handle` is an editor's descriptor: it follows the inode
when `rename(target, backup)` displaces it, which is how a version verified a
moment ago can still change in the backup. `fresh` summarises the identity check
of `remember_installed`: whether the file just published is still that inode,
and unchanged.

| action | code |
|---|---|
| `Open`, `RecoverPick`, `RecoverPublish`, `RecoverCheck`, `RecoverSettle`, `RecoverDone` | `open_impl`, `recover` |
| `Install`, `InstallRead` ... `InstallReturn` | `install_file`, `current`, `remember_installed` |
| `Keep`, `Restore`, `Resolve` | `resolve_recovery` |
| `CleanupBackup`, `CleanupRecord` | `cleanup_recovery` |
| `Save`, `Remove`, `OpenFile`, `WriteInPlace`, `WriteDisplaced` | any other program (external) |
| `Crash` | a stop at any point; an I/O error that makes a function return early leaves the same disk |

`touched` and `late` are ghosts: which unfinished records somebody else has
interfered with, and which backups were written after displacement.

### 2.2 ConditionalReplace and its refinement

What counts at a path (`Seen`) is the document, or the displaced old version
while a record is unfinished and nothing is at the path: `recover` puts it back,
so for the outside world it never left. The abstract `Apply` is
`InstallPublish` (or the confirmation that the new version is already there),
`Stop` a crash or an error at any earlier step, after which the request has had
no effect; a restore is a request of its own.

### 2.3 SafInstall and the code

`file` is the document of each path, `journal` the records `recovery/<id>.json`.
A record stands for its private copies `<id>.old` and `<id>.new`: both are
verified and synced before `persist` writes the record, and only the user's
"erase everything" (`MainActivity.kt:444`, not modelled) deletes them later. `pc`, `op`, `todo`, `cur` are the running function, its arguments and
locals. `full` and `trust` say what kind of round runs and whether a delta is
possible: the token lives in the process, the scan cache in the service's
`FolderAccess`, and both are needed. Ghosts: `torn` (what is there is what a
write of Rowd left unfinished), `over` (the version the write truncated),
`edited` (somebody saved after the second comparison), `touched` and `begun`
(records somebody else interfered with, and records whose write has begun).

| action | code |
|---|---|
| `StartService`, `StopService`, `Throw`, `Fail` | `SyncService` and its `busy` flag, which also keeps the user's commands out; exceptions of any step |
| `FullScan`, `RecoverCheck`, `RecoverSettle`, `RecoverDone` | `startScanJson`, `startNamespaceJson`, `recoverPending` |
| `StreamEnd`, `DeltaScan`, `Done` | end of the hash stream, `startDeltaScanJson`, the token of a round that succeeded |
| `Install` ... `InstallRecord` | `install` up to `persist(journalFile, ...)` |
| `InstallRecheck`, `InstallWithdraw` | the second comparison and its three outcomes |
| `InstallCreate`, `InstallTruncate`, `InstallWrite` | `createFile`, `writeDocument`: opening truncates, the bytes follow |
| `InstallVerify`, `InstallFinish` | reading the document back, the settled record |
| `Keep`, `Restore`, `Resolve` | `resolveRecovery` |
| `Save` | any other app (external) |

A delta round may read a torn file: `startDeltaScanJson` does not run
`recoverPending`. The model has these rounds, and installations over such a file
with them; `TornIsRecorded` and `NothingLost` hold in them too. The old record
then blocks the next full scan until the user answers, although the file is
whole again.

### 2.4 SyncRound and the code

`file` are the folders, `base` the committed base, `cand` the clone the round
works on. `at[l]` says how far the round is with location `l` (a path, or the
conflict copy of a path and a hash). `hint`/`noticed` are the PC's knowledge of
changes on disk and in memory, `phoneDirty`/`taken` the phone's flags and the ones
a full scan has taken until it is confirmed, `pcToken`/`phoneToken` the two ends of
the trust a delta needs. The ghosts `held` and `over` remember which versions a
side has had at a path, and over which versions each version was written.

| action | code |
|---|---|
| `Edit`, `Remove` with `NoticeOnPc` / `NoticeOnPhone` | users (external); watcher callback, observers |
| `FlushHint` | watcher loop, `LocalStore::invalidate` |
| `AuditDue` | `scheduleAudit`, `SyncService` clock |
| `Begin`, `DeltaScan`, `DeltaFallback` | first part of `coordinate_candidate`, `DeltaScan` arm of `respond_share` |
| `Enumerate`, `ScanPc`, `HashNext`, `HashEnd` | full scan: names, `store.scan()`, hash stream, `commit_scan` |
| `Defer`, `Skip`, `Agree`, `Offer`, `Fetch` | the loop over decisions: `reconcile`, direction policy, windows |
| `Blob`, `InstallGet`, `InstallPut`, `DrainPuts`, `InstallStaged` | Get and Put pipelines, both ends |
| `Conflict`, `CopyOnPc`, `CopyOnPhone`, `Replace` | `conflict` arm: snapshots, two preserved copies, the replacement |
| `Finish`, `Commit`, `PhoneDone`, `LoseDone` | `Done`, candidate and token on either side |
| `Refuse`, `Lose`, `CrashPc`, `CrashPhone` | errors, lost connections, preemption; process stops |

What is left out on purpose, and why it does not matter to the properties:

- one installation is one step (see above); an installation on the phone that
  fails in the middle of its write is `SafInstall`'s subject;
- big files are a window of one; the budget of overlapping Gets is `GetOverlap`,
  the draining barrier after a deferred Get `Exchange`;
- several phone files hashed between two looks at the queue are one `HashNext`;
- an accept and its record are one step where they run serially;
- locations are taken in any order; the code takes them in the order of their
  names, so the model allows more;
- both sides give up a round in one step; the phone's half may come later in
  the code, but no new round reaches it earlier;
- more than 1024 dirty paths are the flag `Tree`;
- migration of old hash formats, the remapping bootstrap, ignore rules and
  symlinks are not modelled.

### 2.5 Exchange, GetOverlap and Admission

`Exchange` has a program counter for either side (`pc`, `phone`), their locals
(`co`, `re`) and the two FIFO streams. Every receive is a predicate of the frames
the reader handles there (`PcReads`, `PhoneReads`); a frame at the head of the
stream that it does not handle is `PcMisreads` / `PhoneMisreads`, and the side is
in `"error"`.

| action | code |
|---|---|
| `Select`, `BeginScan`, `Open`, `StartScan`, `GateOpens`, `GateReady` | the beginning of a round, the gate of `receive_scan_gate` |
| `UrgentWake`, `TickPreempts`, `BoundaryPreempts`, `PreemptStream`, `LatePreempt` | urgent work seen at the gate, between items and in the stream |
| `Preempted`, `ScanDefers`, `Defers`, `DeferGet`, `RoundDeferred`, `EndDeferred` | either side puts the round off, and the crossings |
| `ReadsDelta`, `FallsBack`, `ReadsNamespace`, `HashNext`, `SendChunk`, `ReadsChunk`, `EndStream`, `ReadsStreamEnd` | delta or full scan, the hash stream |
| `SendGet`, `AwaitWindow`, `ServeGet`, `ReadsBlob`, `ReadsGetDeferral`, `WindowEnd` | windows of Gets; `finish_deferred_gets` |
| `SendPut`, `EndBatch`, `ReadsPut`, `Install`, `ReadsAccept`, `StagePut`, `ReceiveStage`, `InstallStaged` | batches of Puts, files staged during the stream |
| `Done`, `ReadsDone` | the end |

`GetOverlap` is `drain_get_pair`: `Acquire` / `Room` / `Wakes` is
`GetBudget::acquire` with its condition variable, `Release` and `Cancel` the two
ways the installer wakes it, `Reply` and `Barrier` what the phone answers and how
a deferred Get is drained. `Admission` is `admit` with tickets: `Sleep`, `Enter`
(`WaitsFor`, `Fits`), `AcquireIo`, `Release` with its `Notify`.

### 2.6 Schedule and ClientRound

`Schedule` follows a change from the watcher or the observer to the round that
reads it. `collected`, `urgent`, `newer`, `channel`, `request` are the PC's;
`mark`, `all`, `due`, `auditDue`, `auditDeferred`, `cursor` are `WakeState` and the
audit clock; `focus`, `remaining`, `completed`, `told` are the pass and its round.
The ghosts `pcSide` and `phoneSide` say which changes a round has not read yet.

| action | code |
|---|---|
| `PcEdit`, `MarkUrgent`, `Flush` | `serve`: events, urgent Shares, hints and wakes |
| `PhoneEdit`, `WakeAll`, `ReceiveWake`, `AuditTick` | `WakeState.wake`, the 60-second clock |
| `ManualRequest`, `Served` | `request_share_sync`, `finish_manual_request` |
| `BeginPass`, `Connect`, `Accept`, `PassEnds`, `PassFails` | the worker's pass, `session_loop`, negotiation |
| `PreemptBefore`, `PreemptScan`, `ScanAborted`, `DeferTo` | `session_round`: what puts a round off |
| `Select`, `Continue`, `Complete`, `ShareSkipped`, `ShareFails`, `Disconnect`, `EndRound` | a visit and its ends |

`ClientRound` is one call of `sync` in `rowd-android`: `Start`, `Negotiate`,
`ShareSkipped`, `SelectShare`, `Respond`, `EndSession` are
`client_round_session`, with an error possible at every one (`Raw`); `Judge` is
what the bridge makes of it (`Classify`, `Invalidates`, `RequiresReconnect`,
`SkippedWith`), `Kept` whether the connection survives. `stream` is the truth
about the connection, which the code only infers from the error.

### 2.7 IdleWake and WatchHints

`IdleWake`: `Wake`, `Queue`, `Write` are the three statements of a thread that
wakes (mark under the monitor, add the reason, write the byte if there was none);
`Drain`, `Swap` the worker's two in the order of `take`; `NetworkChanged`,
`Shutdown` the network callback; `Go`, `Enter`, `Readable`, `FrameBegins`,
`FrameEnds`, `StreamEnds`, `Report`, `Check`, `Backoff` the worker; `Sync`,
`Connected`, `ConnectFails`, `Register`, `Recheck`, `Round` the call that
connects, with the generations compared before and after the registration of the
socket; `Stop`, `Start` the service.

`WatchHints`: `Receive`, `Compare`, `Enqueue` are the notify thread (filter,
`internal_writes::matches`, the bounded queue with its recovery flag); `Consume`,
`Recover`, `Reload`, `Register`, `FullDue`, `Flush` the serve loop; `Open`, `Hash`,
`DeltaDone`, `ScanDone`, `Close` a session; `InstallRegister`, `InstallPublish`,
`InstallHint`, `InstallComplete`, `Expire` an installation and its registration;
`Stop`, `Start` the process. `seen` is a ghost: the version the store last
compared.

### 2.8 ScanCache and ConfigStore

`ScanCache`: `Prepare`, `Prepared`, `Consume` are the scan prepared ahead; `List`,
`Reuse`, `OpenFile`, `Read`, `Check`, `Join` the walk and the hashing of one file
piece by piece with the fingerprint before and after; `Stale` the change that
ends a scan; `StartCopy`, `ReadCopy`, `FinishCopy` the file to send, ahead or not;
editors replace, overwrite in place and remove at any moment. The branch of
`scan()` that patches an earlier scan (`storage.rs` 1825-1860) is left out: a
session of the PC calls `require_full_scan` before it scans (`sync.rs` 1787), and
the scan of the command line never allows increments, so neither takes it.

`ConfigStore`: `Lock`, `Load`, `Save` are a guarded update of any process;
`ReadLegacy`, `SaveMigrated` the load that migrates an old file; `StartImport`,
`Mark`, `MoveAway`, `Place`, `SaveImported`, `CommitFails`, `EndImport` the import;
`Recover` what any later process makes of a marker; `StartRound`,
`RecoverFirst`, `Recovered`, `ReadForRound`, `EndRound` a round; `Die` and
`PowerLoss` end a process anywhere or lose a suffix of the changes not yet
synchronized (`may` is the set of directories that could be found).

### 2.9 ShareRequests, Pairing and Endpoint

`ShareRequests`: `Request`, `Cancel` on the phone, `Accept`, `Reject`,
`RemoveShare`, `EditShare` on the PC, and one round's messages in their order:
`StartRound`, `Configure`, `Report` (or `RefuseRound`), `Register`,
`Acknowledge`, each of which may be the last (`Lose`).

`Pairing`: a number stands for `pair_id`, certificate and secret. `OpenMode`,
`CloseMode`, `ExpireMode`, `Show`, `Decide`, `Invite`, `Unlink`, `Restart` are the
PC's user and process; `Begin`, `Connect`, `Ready`, `UnlinkPhone`, `Drop`, `GiveUp`,
`Unreachable` the phones; `Ask`, `AskFails`, `Settle`, `Authenticate`, `Promote`,
`Round`, `EndRound`, `End` the PC's thread of each connection. `consent` is a
ghost: the phones the user agreed to under the present identity. A phone has one
connection at a time.

`Endpoint`: `TryCache`, `Discover`, `Candidates`, `TryNext`, `Verified` are
`EndpointResolver::connect`; `Refresh`, `ResponderFails` the responder's
memberships; `PcMoves`, `NetworkChanged`, `Lost`, `Repair` what happens to it.

### 2.10 DaemonControl

`RunStep` is the daemon (`Lock`, `Bind`, `Ready`, `Accept`, `LoopEnds`,
`WorkerEnds`, `Drop` in the order of `DropOrder`, `Leave`, `Exit`), `HandlerStep` a
handler thread (`HandleStatus`, `HandleStop`, `SetStop`, `Subscribe`, `Stream`,
`StreamEnds`), `CommandStep` a command (`Begin`, `Spawn`, `Send`, `React`,
`TimesOut`), `EmitWrite` and `EmitSend` the log's bus, `Crash` a killed daemon.

## 3. Properties and runs

| run | instance | properties | what it shows |
|---|---|---|---|
| `journal` | `InstallJournal`: 2 paths, 3 contents, 2 records | its type invariant and six safety properties | every order of an editor's steps against installation, recovery, restore and cleanup, with crashes |
| `journal_live` | 1 path, 3 contents, 2 records | `UndisturbedOpens`, `ImplementsReplacement`, `StoreOnlyApplies` | a crash alone never needs a user; the store implements the conditional replacement |
| `saf` | `SafInstall`: 2 paths, a fragment and 2 versions, 2 records | its type invariant and five safety properties | every order of another app's saves against the phone's installation, stops, recovery and restore |
| `round` | `MCRounds`: six instances of `SyncRound` | `BaseSound`, `ChangesRemembered`, `NoLostUpdate`, `FullCommitCoversPc`, `OtherRoundsHold` | safety of rounds |
| `session` | `MCSession`: `Exchange`, `GetOverlap`, `Admission`, `ShareRequests`, `SyncRound` | `FramesAgree`, `BudgetsServeAll`, `RequestsSettle`, `FoldersConverge` | the two sides of a session agree and end |
| `watch` | `WatchHints`: 1 path with installations | `ChangeRemembered`, `HintReachesDisk` | no change is forgotten beside Rowd's own writes |
| `phone` | `MCPhone`: `IdleWake`, `ClientRound`, `Endpoint` | `NoSleepOverWake`, `WorkerServes`, `FailuresStayLocal`, `Reconnects` | the phone keeps its connection and serves its wakes |
| `computer` | `MCComputer`: the parts of `Computer` (`Pairing`, `Schedule`, `DaemonControl`, `ConfigStore`, `WatchHints`, `ScanCache`), and `Schedule` once more | `EditsRemembered`, `PeerConsented`, `CommandsTellTruth`, `ConfigurationHolds`, `NewerRequestKept`, `CacheTellsTruth` | what the computer must never do |
| `computer_live` | `MCComputerLive`: `Schedule`, `Pairing`, `DaemonControl` | `DaemonEnds`, `PairingHeals`, `ChangesAreServed` | what it must do in the end |
| `round_trust` | `SyncRound` | `DeltaCommitCoversPc` (violated) | section 5 |
| `starved` | `Schedule` | `OthersProgress` (violated) | section 5 |
| `unlink` | `Pairing` | `UnlinkReaches` (violated) | section 5 |

The properties, in words:

- **ReplaceIsAtomic**: for a record nobody interfered with, the path and its
  backup always show one of the states from which `recover` reaches old or new.
- **BlockedOnlyIfTouched**: `RECOVERY_REQUIRED` is never the result of crashes alone.
- **SupersedesOnlyExpected**: only the compared version is superseded, except
  for bytes written through a descriptor after displacement.
- **SettledBeforeUse**: no scan and no installation over unsettled records.
- **BackupIsListed**: every backup has a record, also in the middle of a cleanup.
- **NothingLost** (of either store): no step of the store takes a version away
  from the documents and the recorded copies; on the phone, except in the window
  SAF leaves open.
- **UndisturbedOpens**: if crashes and commands cease, the Share opens again.
- **ImplementsReplacement**, **StoreOnlyApplies**: `InstallJournal` implements
  `ConditionalReplace`; while nobody interferes, a step of the store changes what
  counts at a path only where a request takes effect.
- **TornIsRecorded**, **FullRoundReadsWhole**, **BlockedOnlyIfDisturbed**,
  **TruncatesOnlyExpected**: what an unfinished write left has a record that
  `recoverPending` refuses; no full round reads it; a record whose write had not
  begun and which nobody disturbed never blocks; the write truncates the
  expected version, or one saved after the second comparison.
- **BaseSound**: a committed base is a version both sides have had.
- **NoLostUpdate**: a round replaces a version only by one written over it, or
  after preserving it on both sides.
- **ChangesRemembered**: while the phone would answer a delta,
  its flags cover everything on it that differs from the base.
- **FullCommitCoversPc**: a full round that commits leaves no path of the PC
  behind unnoticed.
- **OtherRoundsHold**: all this in the other five instances (without the last for
  the one-way ones), and one-way Shares never write on the leading side.
- **FoldersConverge**: when users rest and nothing fails any more, the folders agree.
- **FramesAgree**: neither side reads a frame it does not handle, nothing of a
  round that was put off is left for the next, an announced preemption is never
  followed by a commit, every round ends.
- **BudgetsServeAll**: the credits of overlapping Gets are those of the files in
  memory, the worker never sleeps for ever, a deferral leaves whole frames;
  permits never exceed the limit and every job gets its own.
- **RequestsSettle**: the folder is bound before its request is forgotten, a
  refusal is final, every verdict reaches the phone.
- **ChangeRemembered**, **HintReachesDisk**: a version the store has not compared
  is known to somebody, and its hint reaches the disk although rounds hold the
  lock.
- **NoSleepOverWake**: the worker does not sleep over a mark, a cancellation or a
  stale connection once all signals are through.
- **WorkerServes**: every wake is served, a stop gets the worker back, a round over
  a stale connection is shut.
- **FailuresStayLocal**: a session never begins among the frames of the last,
  only a Share's own error leaves it out, every other Share is tried.
- **Reconnects**: the phone gets its connection back once the network has settled.
- **EditsRemembered**: no change is owed by nobody between the kernel and the
  round that reads it, on either side (`ChangeOwed`, `ChangeRemembered`).
- **PeerConsented**: the phone the computer obeys is one its user agreed to under
  the present identity.
- **CommandsTellTruth**: the socket's path names the daemon that holds the lock, a
  reported start is of its own process, a follower misses no line.
- **ConfigurationHolds**: the Shares' state belongs to the configuration at every
  point a process or the power may fail, a round never works across an import, a
  saved change stays.
- **NewerRequestKept**: the end of an older manual request never removes a newer one.
- **CacheTellsTruth**: no hash of another version than its fingerprint is kept, an
  undisturbed scan is exact, a copy made ahead is sent only while it is current.
- **DaemonEnds**, **PairingHeals**, **ChangesAreServed**: a daemon told to stop
  ends and frees lock and path; no pairing request blocks the next and half a
  pairing heals; changes are read without help from the audits, audits complete
  and repair what a fault made the PC forget to announce.

Several of them are conjunctions of properties the component's module states one
by one, with their comments there.

### 3.1 Bounds

All properties compare contents, paths, Shares, phones, tokens and identifiers
for equality only (symmetry is used where no liveness is checked).

*Stores and rounds.* `Content` bounds the edits of a path: a user writes only
what the path has never had, on either side. Two contents reach every case of
`reconcile` together with the missing file except the chain of an edit during a
conflict, for which the instance `conflict` has a third. Three tokens are enough
because a round only needs one that neither side holds. Two journal identifiers
let one record wait for its user while another installation runs. `Events`
switches deletions, missed notices, overflows and stops per instance: `mixed` has
deletions, overflow and crashes; `down` and `up` the two one-way modes with
deletions; `missed` observers that miss a change; `windows` two paths in one
window with deletions; `conflict` a third content and a window of two. There is no
bound on the number of rounds, aborted rounds, crashes or audits. In `session` the
convergence is checked with missed notices, the only thing audits are needed for.

*Exchange*: one hash stream of two chunks (of two and one files), one file only the PC
has, windows of two: enough for a chunk boundary inside and at the end of a
window and for a staged file beside a Get. *GetOverlap*: all windows of at most
three files and five bytes. *Admission*: four jobs of both kinds and weights, a
limit of one or two. *ShareRequests*: two requests, because the rounds carry
lists and a refused round concerns all; rounds are not bounded.

*Schedule*: two Shares (one served, one to be overtaken); `FaultMax` = 1 in the
safety run, 2 in the liveness run; requests by hand and requests of the phone as
a whole are two instances. In `computer_live` changes come from the PC only: a
user who presses "synchronize now" again and again starts every pass anew, which
is not a fault of the scheduler. *IdleWake*: two waker threads beside the main
one. *ClientRound*: two Shares. *Endpoint*: four addresses, three tries,
`EventMax` = 2 disturbances, `SlowPc` = FALSE (a PC that answers within 800 ms,
see 6).

*WatchHints*: a queue of one, so that the second change overflows it; `EventMax`
events on their way from the kernel: 2 with installations on one path (`watch`), 1
with two paths and two versions each and no installations (`computer`).
*ScanCache*: one path, two inodes of two pieces, two edits: one
between the pieces and one before the use. *ConfigStore*: two writers, one
import, `LossMax` = 2 processes ended or power losses. *DaemonControl*: two
processes and two commands (start/start, start/restart, follow/stop), two lines,
one kill. *Pairing*: two phones, two identities and two requests or disturbances
for safety; one phone, two identities, three events for liveness.

Excluded by the content bound: a user who restores an earlier version. After an
aborted round, restoring on one side the version that is still the base makes
that side look unchanged and the other side's file replaces it. Users do not edit
conflict copies either; an edited copy makes later rounds with the same pair of
versions fail. Both are hazards listed in `PROJECT.json` and not covered.

### 3.2 Fairness

Nowhere is anything assumed of users, editors, faults, crashes, networks or
clocks, except where a property says so in its own formula (`[]<>auditDue` in
`FaultsRecover`). Steps of sequential code and of threads are weakly fair. Steps
that need a lock or a moment between two rounds, and that poll for it, are
strongly fair, because they are enabled again and again but not continuously:

- `InstallJournal`: weak, of recovery, of an installation that has begun and of
  the last step of a user's command; the daemon opens every Share again in each
  round.
- `SyncRound`: weak for `Begin`, `Advance`, `PhoneDone`; strong for `FlushHint`
  and `AuditDue`, which poll but act only between the rounds of their Share.
- `Exchange`, `GetOverlap`, `Admission`, `ClientRound`: weak fairness of the
  threads. A peer that does not answer is a timeout, which ends the round.
- `IdleWake`: weak for signalling threads and the worker; strong for `Shutdown`,
  `Check`, `Backoff` and `Report`, which enter a monitor that others take for a few
  statements, and for `FrameEnds` (a frame has a deadline of its own).
- `WatchHints`: weak for threads and the loop; strong for `Register` and `Flush`,
  which the loop tries in every turn and which need the session lock.
- `Schedule`: weak for the pass and the round; strong for `Flush` and `SendWakes`
  for the same reason.
- `ShareRequests`: weak for `StartRound` (the phone keeps holding rounds); strong
  for the message steps: rounds that are tried again and again are not lost at
  the same point for ever.
- `Pairing`: weak for the PC's threads and the phone's code; strong for `Promote`:
  an authentication that is tried again and again reaches its end.
- `Endpoint`: weak for the responder and the attempts; strong for `FindsPc`: where
  the LAN carries multicast, it does not lose every question or answer for ever.
- `DaemonControl`: weak for the loops, the handlers, the bus and the end of a
  worker that was told to stop.

## 4. Proofs

A theorem holds for any sets of paths, contents, identifiers, Shares, threads,
jobs, processes and phones, any window, mode, queue length and bound, under the
assumptions of the module it is about (`ConstantsAssumption`, `WatchAssumption`,
`ScheduleAssumption`, `ClientAssumption`, `ConfigStoreAssumption`,
`DaemonAssumption`, `ScanCacheAssumption`, `ExchangeAssumption`,
`AdmissionAssumption`, `WindowsAssumption` and so on; `PartsAssumption` of `Computer` is their
conjunction for its parts): the markers (`Absent`, `NoToken`, `Tree`, `"none"`,
...) are not values, bounds are natural numbers. TLC evaluates them in the runs,
and checked every inductive invariant below on small instances before it was
proved. The properties themselves are seldom inductive: what each invariant adds
is where the code under way is and what it relies on there.

A proof module may speak of several components: those beside the one it extends
are instances, and their theorems name the instance (`Permits!Spec`).

`InstallJournalProofs` - the PC's store. `IInv`: `AtRest` ties `pc` to the locals,
`RecoverInv` says that recover owes exactly the unfinished records and that the
copy it is about to publish is the old version, `DisplaceInv` relates the record
of the running installation to path and backup at each step, `HandleInv` says that
a descriptor leads to a listed backup only. Gives `TypeCorrect`, `Atomicity`,
`CrashNeverBlocks`, `ConditionalReplace`, `SettledFirst`, `ListedBackups`, and
`Preservation` (an action property). Its second half is the refinement: every step
maps to a step of `ConditionalReplace` or to a stutter (`Refinement`). That needs
`LateInv` (the new version is published only for the request that is open) and
`PlaceInv` (one displaced version per path counts). `OnlyApplies` is the action
property from the same facts.

`SafInstallProofs` - the phone's store. `IInv`: `AtRest` and `OwnRecord` tie the
running installation to its record, `RecoverInv` says that recovery owes exactly
the unfinished records, `TornInv` strengthens `TornIsRecorded` (the record's write
has begun, so that no withdrawal settles it), `WholeInv` says where a torn file may
be while an installation of a full round runs, `UndisturbedSettles` what an
untouched record says before its write, `TruncateInv` what the second comparison
saw until somebody saves. Theorems: `TypeCorrect`, `TornStaysRecorded`,
`FullRoundIsWhole`, `BlockedIfDisturbed`, `TruncatesExpected`, and `NothingIsLost` (an
action property).

`SyncRoundProofs` - the round, in three invariants.

- `IInv == TypeOK /\ Remembered /\ Justified`. `Remembered`: what is in a folder,
  what a scan has seen and what base and candidate record has been on the sides
  that they speak of; needed because the candidate becomes the base. `Justified`:
  a location is in transfer only if there is a version to transfer and the mode
  allows the direction; needed because the decision is taken long before the
  write. Gives `TypeCorrect`, `SharedBase` and `LeadingSide`.
- `UInv == History /\ Copies`, relative to `IInv`. `History`: each folder's version
  was written by somebody who had the base (and the candidate, and the scan once
  it is taken), and the decision that brought a location to a transfer implies
  which side still had the base. `Copies`: a conflict copy holds the version it is
  named for, and from its step on is in place. Then every step that overwrites a
  file either supersedes by history or preserves by copy: `UpdatesSurvive`.
- `TInv`, for a Share kept equal in both directions, says what a round may leave
  out. `Progress`: which variables of a round are set in which phase.
  `PhoneKept`: while the tokens agree, or will when the `Done` on its way arrives,
  every location whose version on the phone is not the base's is flagged there or
  in the report being worked on; from the names and hashes on, every location left
  out is in the candidate as it is on the phone, or flagged. It presupposes
  observers that miss nothing (`"miss" \notin Events`): a missed change is what the
  full scans are for. `PcKept`: the same of the PC's folder in a full round, whose
  scan is compared with what installations of this round have put there. Gives
  `PhoneDeltasLeaveNothingOut` and `FullRoundsCoverPc`. The first is about the
  phone's side alone. Nothing like it holds of a focused round and the PC's
  watcher: run `round_trust` refutes that (section 5).

`EditProofs` - a change on its way. `WatchHints`, by `HInv`: `ChangeRemembered`
together with `OwnKnown` (what Rowd installs it knows), `Compared` and `Placed` (the
event under comparison and the installation under way name a path of the Share),
`WatchedUp` (only a running loop watches) and `ScanKnows` (what a full scan has
read may lose its hint). `Schedule`, by `SInv`: `Settled` (a change is read only by
the visit under way), `PhoneOwed` (a change on the phone is marked, as new if a
visit came before it), `Delivered` (an urgent Share handed to the session is told
to the phone until its mark is there), `Faultless` and `Divided` (before the first
fault a round's Shares are visited, being visited, or still to visit) and `PcOwed`
(a change on the PC is announced or marked, and announced again if its Share was
visited already). Theorems: `WatchTypes`, `ChangesAreRemembered`; `RoundTypes`,
`ChangesAreOwed`, `NewerRequestsAreKept`.

`PhoneProofs` - `IdleWake`: `WInv` knows where every reason is on its way:
`Announced` (a queued reason has its byte in the pair, or the byte is about to be
written, or the reasons are about to be taken), `Signals` (what a waiting worker
has to see is among the reasons, or a thread is about to add it), `Wanted` (a
service that runs has not cancelled its worker); it gives `NeverSleepsOverWake`.
`SInv`: `Monitored` (the monitor belongs to a thread that signals), `Reachable` (a
connection can be shut as soon as it can be used) and `Pursued` (the network
callback has still to shut a stale one) give `StaleRoundIsShut`. `ClientRound`:
`CInv` with `StreamHeld` (what the connection is at each point of a call), `Visited`
(whose an error is) and `Owes` (a session still owes a visit to every Share it was
asked for, unless it was cut short) gives `FailuresAreLocal`. `ShareRequests`:
`RInv` with `Read` (what a round has read of the requests is still so, or was
withdrawn), `Asked` (a queued request is no Share yet), `Remembered` (a refusal
stays until the phone has stopped asking) and `Binding` (an acceptance on its way
has its folder bound) gives `VerdictsHold`.

`ConfigurationProofs` - the import. `IInv`: `Holding` (who has which lock where),
`Dated` (no marker, configuration or copy is of a generation to come), `Durable`
(every directory a power failure may leave has the present marker and
configuration) and, while no unlocked migration has raced, `Sound`: `Found` of every
such directory, that is, without a marker state and configuration belong
together, and with one the directory alone tells how far the import is and the
state to go back to is in place or archived; and what the import and a writer rely
on between their steps. Theorems: `StoreTypes`, `ImportsAreAtomic`.

`ComputerProofs` - `Pairing`, by `PInv`: `Past` (no invitation or session is of an
identity to come), `Invited` (who holds the present identity's invitation was given
it), `Trusted` (a thread past the decision serves a phone that was agreed to, or is
of an older identity), `Waiting` (a thread that waits, waits for the decision on
its own request): `PairingTypes`, `PeerIsConsented`. `DaemonControl`, by `DInv`:
`Owned` (lock and path are of the same daemon), `Asking` (a request is the one its
command asks now, at a daemon that listens), `Told` (success was told by a ready
daemon), `Following` (a follower has every line from its first to the last written,
but for the one being sent): `DaemonTells`. `ScanCache`, by `CaInv`: `Truthful` (an
entry whose fingerprint is still its inode's has the hash of its content),
`Follows` (while the path has the fingerprint taken before, what was read through
the handle is the file), `Exact` (what an undisturbed scan has returned):
`CacheTells`. Its last part is about the whole `Computer`:
`EditsAreRemembered`, `CommandsAreTold`, `ImportsAreAtomic`, `NewerRequestsAreKept`
and `CachesAreTrue` follow from `ComputerSpec`. They take the watcher, the rounds
and the configuration from `EditProofs` and `ConfigurationProofs` by `INSTANCE`; the
lemmas between say that a component under the composition's names is the
component those theorems are about.

`SessionProofs` - `Exchange`, by `XInv`. `Conversation` has one predicate for each
place of the coordinator (`AtGate`, `AtHashWait`, `AtBlobs`, ...): which frames may be
on their way to the phone and back, where the phone is, and how the counters of
both sides differ by the frames between them. Preemptions and deferrals that
cross, which may appear almost anywhere, are `Hushed`, `OnlyPre`, `LatePre` and
`Deferral` within them. `Streams` relates the two ends of the hash stream, `Begun`
says that its first frame is the next the phone reads, `Kept` what of the locals is
still fresh. Theorems: `FramesAreUnderstood` (nobody reads a frame it does not
handle; after a round both agree on what was installed), `PreemptionsHold` (an
action property), for windows and hash streams of any length. `Admission`, by
`AInv`: `Counted` (tickets issued are those of the jobs that took one), `Turns` (each
ticket between serving and issued is one waiting job's), `Asleep` (nobody sleeps
through its turn) and the balance of permits: `PermitsAreServed`. `GetOverlap`, by
`OInv`: `Owed` (every file of the first window not yet installed and every file of
the second asked for holds its credits, also after a cancellation or a lost
connection), `Threads` and `Sleeping` (the worker sleeps only while its file does not
fit): `CreditsHold`, with which a worker that sleeps has an installer that still
owes it credits. The bytes of a window are a recursive function; that it is
defined, and grows, is proved by the least counterexample (`Least`), for which the
library's well-founded relations are enough.

What stays with TLC:

- liveness under fairness, everywhere: the prover does not reach it. `FramesAgree`,
  `BudgetsServeAll`, `RequestsSettle`, `FailuresStayLocal` and `WorkerServes` mix it
  with safety; their safety parts are theorems (`FramesAreUnderstood`,
  `PreemptionsHold`, `PermitsAreServed`, `CreditsHold`, `VerdictsHold`, `FailuresAreLocal`,
  `StaleRoundIsShut`), so these name no property of a run.
- `Endpoint`, whose only property is liveness.
- `OtherRoundsHold` speaks of five instances of `SyncRound`; the theorems of
  `SyncRoundProofs` are about the module and so about each of them.
- `ConfigurationHolds` and the others leave out what their ghosts name (`raced`,
  `narrowed`, `edited`); section 6 says what happens there.

## 5. Findings

**A given-up audit forgets the hint (`round_trust`).** `README.md:68`: "Missed event or lost scan trust | Rowd falls back to an audit."
The full scan that answers a lost-trust hint deletes `cache-dirty.json` as soon as
the PC's own files are hashed (`storage.rs:1938-1941`), long before its round
commits; the full path records nothing in `retry_paths` (`sync.rs:1603`), and the
phone keeps its token. If the round is then given up (preemption, a change on the
phone, a lost connection), the next focused round runs as a delta, commits and
sends a new token although the change the hint stood for was never compared.
`round_trust` shows the sequence. The change waits for the next periodic audit
(60 s in `SyncService.kt:341`, 15 minutes in `rowd-app/lib.rs:3228`), so
`FoldersConverge` holds.

**One failing Share stops the audits of the others (`starved`).**
`docs/REGRESSION_ANALYSIS_2026-10-05.md:173` asks for progress of the others when
one Share fails, and a test is named `one_share_failure_does_not_starve_another_share`
(`crates/rowd/tests/v2.rs:591`). A pass that fails ends in the catch block of
`SyncService.kt:423-435` and never reaches `audits.complete`, `lastAudit` and
`auditDeferred` (404-412). The next pass audits the same Share; while it keeps
failing the rotation never comes to the others. A wake that reaches the phone
still has its Share visited: what is lost is the audit, the only thing that finds
a change whose wake was lost with a session.

**The phone's unlink never reaches the PC (`unlink`).** `MainActivity.kt:290`
announces that the revocation on the PC will be tried next. `revokeRemotePairing`
authenticates and waits for `Shares`, which the PC sends only after `StartRound`,
which it never gets; after five seconds the phone gives up, on a connection that
works. The PC keeps its peer until its own user unlinks it.

## 6. Observations

Met while modelling, each outside what a run refutes:

- A focused round narrowed by a manual request leaves the other selected Shares
  marked, but no pass is due for them before the next wake or audit; a round of
  all Shares narrowed by a manual request still counts as a completed audit. The
  ghost `narrowed` excludes both from `ChangeServed`.
- A wake lost with a session or with a skipped Share is recovered by the audits
  only (`FaultsRecover`).
- A pass that fails after a completed session drops the wakes that session told
  (`rowd-android/src/lib.rs:1152-1157`, `managed.rs:562-569`).
- A Share accepted for the phone and then renamed or changed in its mode before
  the phone learned the verdict makes every later round fail
  (`rowd-app/src/lib.rs:2244-2246`), for every Share, until it is renamed back or
  the phone cancels. `VerdictLearned` excludes it (`edited`).
- A Share accepted and removed before the phone learned of it is asked for again.
- `DeviceConfig::load` migrates and saves an old file without `config.lock`
  (`config.rs:156-240`) and can overwrite a concurrent change or import; the ghost
  `raced` excludes it from `ConfigurationHolds`.
- An address verified under the present network generation is always tried with
  800 ms, also when discovery or the invitation returns it: with a PC that needs
  longer (`SlowPc` = TRUE) `Reconnects` fails.
- `stop` returns as soon as a ping fails, while the old process still joins its
  handlers; `restart` then starts and may report that the daemon already runs.
- A silent loss of TCP shows as a read timeout, which is not classified as a
  transport loss, so the Share is left out of the pass.
- The comment at `rowd-app/src/lib.rs:3292` gives each accept five seconds;
  `tls::accept` sets 90.
- A lost `Ready` leaves a PC paired with a phone that has no credentials; its user
  has to unlink it.

## 7. Not modelled

- **Ignore rules**: a pure match of patterns; only which files a scan lists
  depends on it.
- **Wire encoding, size limits, cryptography**: validation and primitives without
  a state of their own. Authentication is a comparison of identities.
- **User interfaces**: presentation and dispatch; a command's effect is an action
  of the module whose state it changes.
- **Tracing and metrics**: observe only.
- **Migration of old hash formats, the bootstrap of a remapped Share, profiles,
  erasure, recovery listings**: run once or only read.
- **`PhysicalHashCache` and the scan cache of `FolderAccess`**: keyed by what other
  apps' document providers report, which is not this repository's code.
- **The Windows daemon and the trace commands of the Unix one.**

What the project could still gain: versions that remember their edit, to cover
the two hazards of section 3.1; the wakes' journey as one composition of
`IdleWake`, `Schedule` and `ClientRound`.
