----------------------------- MODULE SyncRound -----------------------------
(***************************************************************************)
(* One Share kept equal on the PC and the phone, round after round.  The   *)
(* PC drives a round (coordinate_candidate in crates/rowd-core/src/sync.rs)*)
(* and the phone answers (respond_share): a focused delta or a full scan   *)
(* that streams hashes while transfers already run, a three-way comparison *)
(* with the committed base for every path, windows of Put and Get, the     *)
(* three installations of a conflict, and Done, which both sides need to   *)
(* trust the next delta.  Around the round, users edit both folders, the   *)
(* observers remember what changed, and either process may stop.           *)
(*                                                                         *)
(* One installation is one step here; InstallJournal takes it apart.       *)
(***************************************************************************)
EXTENDS Naturals, FiniteSets

CONSTANTS
  Path,        \* relative paths of the user's files
  Content,     \* file contents, told apart by their BLAKE3 hash
  Token,       \* base tokens (random_id)
  Absent,      \* no file, or no committed base
  NoToken,     \* no token
  Tree,        \* the hint for "anything may have changed"
  Mode,        \* SyncMode of the Share
  Window,      \* MAX_IN_FLIGHT_FILES
  Events       \* bound of the instance: what else may happen in it

Side == {"pc", "phone"}

\* conflict_path names a copy by its path and by the hash it preserves.
Copy == Path \X Content
Loc  == Path \cup Copy
MaybeContent == Content \cup {Absent}
MaybeToken   == Token \cup {NoToken}

ASSUME ConstantsAssumption ==
  /\ Absent \notin Content
  /\ NoToken \notin Token
  /\ Tree \notin Loc
  /\ Path \cap Copy = {}
  /\ Mode \in {"Bidirectional", "ToAndroid", "ToPc"}
  /\ Window \in Nat \ {0}
  /\ Events \subseteq {"delete", "miss", "overflow", "crash"}

VARIABLES
  file,        \* file[side][loc]: the two folders
  base,        \* State.files: the committed base, on the PC's disk
  hint,        \* cache-dirty.json: what the PC watcher has put on disk
  noticed,     \* what the PC watcher still holds in memory
  phoneDirty,  \* dirtyPaths and fullScanShares (Tree) of FolderAccess
  taken,       \* the same, taken by a full scan until it is confirmed
  pcToken,     \* session_tokens: the token of the last round, or none
  phoneToken,  \* base_tokens: the token of the last Done received
  retry,       \* retry_paths: what the last delta was about
  done,        \* a Done on its way to the phone
  phase,       \* where the round is
  full,        \* the round rests on a full scan
  pcScan,      \* pc: the PC's manifest of this round
  phoneScan,   \* android: the phone's manifest, as far as it is known
  cand,        \* the candidate base, a clone that replaces base on success
  at,          \* how far the round is with each location
  received,    \* stream_installed: locations this round wrote on the PC
  tok,         \* the token sent in Done
  held,        \* ghost: contents each side has had at a path
  over         \* ghost: contents the author of a content had at that path

disk   == <<file, held, over>>
trust  == <<hint, noticed, phoneDirty, taken>>
tokens == <<pcToken, phoneToken, retry, done>>
round  == <<phase, full, pcScan, phoneScan, cand, at, received, tok>>
vars   == <<disk, base, trust, tokens, round>>

Nothing == [l \in Loc |-> Absent]
Idle    == [l \in Loc |-> "out"]   \* not, or no longer, in the round
Was(S)  == {l \in Loc : at[l] \in S}

\* The first session of a Share: no base, no tokens, nothing trusted.
Init ==
  /\ file \in {f \in [Side -> [Loc -> MaybeContent]] :
                 \A s \in Side, l \in Copy : f[s][l] = Absent}
  /\ held = [s \in Side |-> [p \in Path |-> {file[s][p]} \ {Absent}]]
  /\ over = [p \in Path |-> [c \in Content |-> {}]]
  /\ base = Nothing
  /\ hint = {Tree} /\ noticed = {}
  /\ phoneDirty = {Tree} /\ taken = {}
  /\ pcToken = NoToken /\ phoneToken = NoToken /\ retry = {} /\ done = NoToken
  /\ phase = "idle" /\ full = FALSE
  /\ pcScan = Nothing /\ phoneScan = Nothing /\ cand = Nothing
  /\ at = Idle /\ received = {} /\ tok = NoToken

-----------------------------------------------------------------------------
(* The users and what is remembered of their changes.                      *)

\* A hint for everything makes the named ones superfluous.
Hints(S) == IF Tree \in S THEN {Tree} ELSE S

\* The PC watcher reports a path, or gives up on paths (overflow, rename
\* of a directory); internal changes of Rowd itself are suppressed.
NoticeOnPc(l) ==
  /\ \/ noticed' = Hints(noticed \cup {l})
     \/ "overflow" \in Events /\ noticed' = {Tree}
  /\ UNCHANGED phoneDirty

NoticeOnPhone(l) ==
  /\ \/ phoneDirty' = Hints(phoneDirty \cup {l})
     \/ "miss" \in Events /\ UNCHANGED phoneDirty
  /\ UNCHANGED noticed

Changed(s, l) ==
  /\ IF s = "pc" THEN NoticeOnPc(l) ELSE NoticeOnPhone(l)
  /\ UNCHANGED <<base, hint, taken, tokens, round>>

\* Bound of the instance: a user writes content the path has never had, so
\* at most Content many edits per path, and leaves conflict copies alone.
Edit(s, p, c) ==
  /\ \A t \in Side : c \notin held[t][p]
  /\ file' = [file EXCEPT ![s][p] = c]
  /\ over' = [over EXCEPT ![p][c] = held[s][p]]
  /\ held' = [held EXCEPT ![s][p] = @ \cup {c}]
  /\ Changed(s, p)

\* Rowd does not propagate a deletion.
Remove(s, p) ==
  /\ "delete" \in Events
  /\ file[s][p] # Absent
  /\ file' = [file EXCEPT ![s][p] = Absent]
  /\ UNCHANGED <<held, over>>
  /\ Changed(s, p)

\* One invalidation absorbs the other; written between sessions only.
FlushHint ==
  /\ phase = "idle"
  /\ noticed # {}
  /\ hint' = Hints(hint \cup noticed)
  /\ noticed' = {}
  /\ UNCHANGED <<disk, base, phoneDirty, taken, tokens, round>>

\* Mutant: asks for an audit only when an observer has seen something.
AuditDueIfDirty ==
  /\ phase = "idle"
  /\ phoneDirty \notin {{}, {Tree}}
  /\ phoneDirty' = {Tree}
  /\ UNCHANGED <<disk, base, hint, noticed, taken, tokens, round>>

\* scheduleAudit: between sessions the phone's clock asks for a full scan.
AuditDue ==
  /\ phase = "idle"
  /\ Tree \notin phoneDirty
  /\ phoneDirty' = {Tree}
  /\ UNCHANGED <<disk, base, hint, noticed, taken, tokens, round>>

-----------------------------------------------------------------------------
(* How a round starts and what it knows.                                   *)

\* reconcile(base, pc, android).
Reconcile(b, p, a) ==
  IF p = a THEN "None"
  ELSE IF a = Absent THEN "ToAndroid"
  ELSE IF p = Absent \/ p = b THEN "ToPc"
  ELSE IF a = b THEN "ToAndroid"
  ELSE "Conflict"

Decision(l) == Reconcile(cand[l], pcScan[l], phoneScan[l])

\* Mutant: only conflicts are held back.
ProhibitedConflict(action) == Mode # "Bidirectional" /\ action = "Conflict"

Prohibited(action) ==
  \/ Mode = "ToAndroid" /\ action \in {"ToPc", "Conflict"}
  \/ Mode = "ToPc" /\ action \in {"ToAndroid", "Conflict"}

\* A delta needs a token and a hint that names paths.  The phone is in a
\* new session: a Done of the last one has arrived or never will.
Begin ==
  /\ phase = "idle"
  /\ done = NoToken
  /\ IF pcToken # NoToken /\ Tree \notin hint
     THEN phase' = "delta" /\ retry' = retry \cup hint
     ELSE phase' = "full" /\ UNCHANGED retry
  /\ UNCHANGED <<disk, base, trust, pcToken, phoneToken, done,
                 full, pcScan, phoneScan, cand, at, received, tok>>

DeltaScope == retry \cup phoneDirty

\* A committed path that is missing on a side needs the whole namespace.
MissingKnown ==
  \E l \in DeltaScope : base[l] # Absent /\ \E s \in Side : file[s][l] = Absent

\* DeltaScan and DeltaManifest: both sides hash the paths either one names.
DeltaScan ==
  /\ phase = "delta"
  /\ phoneToken = pcToken
  /\ Tree \notin phoneDirty
  /\ ~MissingKnown
  /\ pcScan' = [l \in Loc |-> IF l \in DeltaScope THEN file["pc"][l] ELSE Absent]
  /\ phoneScan' = [l \in Loc |-> IF l \in DeltaScope THEN file["phone"][l] ELSE Absent]
  /\ at' = [l \in Loc |-> IF l \in DeltaScope THEN "todo" ELSE "out"]
  /\ retry' = DeltaScope
  /\ phase' = "work"
  /\ UNCHANGED <<disk, base, trust, pcToken, phoneToken, done, full, cand, received, tok>>

\* NeedFullScan, a missing known path, or a path that changed meanwhile.
DeltaFallback ==
  /\ phase = "delta"
  /\ phase' = "full"
  /\ UNCHANGED <<disk, base, trust, tokens, full, pcScan, phoneScan, cand, at, received, tok>>

\* Scan: the phone takes its flags and sends the names it has.
Enumerate ==
  /\ phase = "full"
  /\ taken' = phoneDirty
  /\ phoneDirty' = {}
  /\ at' = [l \in Loc |-> IF file["phone"][l] # Absent THEN "hash" ELSE "out"]
  /\ phase' = "named"
  /\ UNCHANGED <<disk, base, hint, noticed, tokens, full, pcScan, phoneScan, cand, received, tok>>

\* store.scan(): hashes every file and drops the hints on disk.  What the
\* phone has no name for needs no hash of it.
ScanPc ==
  /\ phase = "named"
  /\ pcScan' = file["pc"]
  /\ hint' = {}
  /\ at' = [l \in Loc |->
       IF at[l] = "out" /\ (file["pc"][l] # Absent \/ base[l] # Absent) THEN "todo" ELSE at[l]]
  /\ full' = TRUE
  /\ phase' = "stream"
  /\ UNCHANGED <<disk, base, noticed, phoneDirty, taken, tokens, phoneScan, cand, received, tok>>

-----------------------------------------------------------------------------
(* The stream of hashes.                                                   *)

Puts     == Was({"put", "stored"})
Gets     == Was({"get", "fetched"})
Copying  == Was({"snapshot", "copied", "kept"})
Drained  == Puts = {} /\ Gets = {} /\ Copying = {}

\* checkStream: a change noticed since the names were taken defers the scan.
ScanStands == phoneDirty = {}

HashNext(S) ==
  /\ phase = "stream"
  /\ Was({"todo"}) = {} /\ Drained
  /\ ScanStands
  /\ \A l \in S : file["phone"][l] # Absent
  /\ phoneScan' = [l \in Loc |-> IF l \in S THEN file["phone"][l] ELSE phoneScan[l]]
  /\ at' = [l \in Loc |-> IF l \in S THEN "todo" ELSE at[l]]
  /\ UNCHANGED <<disk, base, trust, tokens, phase, full, pcScan, cand, received, tok>>

\* Mutant: what was put off is forgotten.
HashEndForgets ==
  /\ phase = "stream"
  /\ Was({"todo", "hash"}) = {} /\ Drained
  /\ ScanStands
  /\ taken' = {}
  /\ phoneToken' = NoToken
  /\ phase' = "work"
  /\ UNCHANGED <<disk, base, hint, noticed, phoneDirty, pcToken, retry, done,
                 full, pcScan, phoneScan, cand, at, received, tok>>

\* commit_scan: the phone's flags are spent and its token with them.
HashEnd ==
  /\ phase = "stream"
  /\ Was({"todo", "hash"}) = {} /\ Drained
  /\ ScanStands
  /\ taken' = {}
  /\ phoneToken' = NoToken
  /\ at' = [l \in Loc |-> IF at[l] = "deferred" THEN "todo" ELSE at[l]]
  /\ phase' = "work"
  /\ UNCHANGED <<disk, base, hint, noticed, phoneDirty, pcToken, retry, done,
                 full, pcScan, phoneScan, cand, received, tok>>

-----------------------------------------------------------------------------
(* The work on one location.                                               *)

\* store.snapshot: the source must still be what was compared.
Fresh(s, l) == file[s][l] = IF s = "pc" THEN pcScan[l] ELSE phoneScan[l]

\* Staged files are installed before any other work once the stream ended.
Working(l) ==
  /\ at[l] = "todo"
  /\ Copying = {}
  /\ phase = "stream" \/ (phase = "work" /\ Was({"staged"}) = {})

Step(l, to) == at' = [at EXCEPT ![l] = to]

Defer(l) ==
  /\ phase = "stream"
  /\ Working(l)
  /\ \/ Decision(l) = "Conflict"
     \/ Decision(l) = "ToAndroid" /\ Cardinality(Was({"staged"})) >= Window
  /\ Step(l, "deferred")
  /\ UNCHANGED <<disk, base, trust, tokens, phase, full, pcScan, phoneScan, cand, received, tok>>

\* The direction policy: reported as a conflict, the base stays.
Skip(l) ==
  /\ Working(l) /\ Drained
  /\ phase = "stream" => Decision(l) # "Conflict"
  /\ Prohibited(Decision(l))
  /\ Step(l, "out")
  /\ UNCHANGED <<disk, base, trust, tokens, phase, full, pcScan, phoneScan, cand, received, tok>>

Agree(l) ==
  /\ Working(l) /\ Drained
  /\ Decision(l) = "None"
  /\ cand' = [cand EXCEPT ![l] = pcScan[l]]
  /\ Step(l, "out")
  /\ UNCHANGED <<disk, base, trust, tokens, phase, full, pcScan, phoneScan, received, tok>>

\* StagePut while the phone still hashes, Put afterwards.
Offer(l) ==
  /\ Working(l) /\ Gets = {}
  /\ Decision(l) = "ToAndroid" /\ ~Prohibited("ToAndroid")
  /\ Fresh("pc", l)
  /\ \/ /\ phase = "stream"
        /\ Cardinality(Was({"staged"})) < Window
        /\ Step(l, "staged")
     \/ /\ phase = "work"
        /\ Cardinality(Puts) < Window
        /\ Step(l, "put")
  /\ UNCHANGED <<disk, base, trust, tokens, phase, full, pcScan, phoneScan, cand, received, tok>>

Fetch(l) ==
  /\ Working(l) /\ Puts = {}
  /\ Decision(l) = "ToPc" /\ ~Prohibited("ToPc")
  /\ Cardinality(Gets) < Window
  /\ Step(l, "get")
  /\ UNCHANGED <<disk, base, trust, tokens, phase, full, pcScan, phoneScan, cand, received, tok>>

\* The phone answers a Get with the version that was compared.
Blob(l) ==
  /\ at[l] = "get"
  /\ Fresh("phone", l)
  /\ Step(l, "fetched")
  /\ UNCHANGED <<disk, base, trust, tokens, phase, full, pcScan, phoneScan, cand, received, tok>>

\* install: the target must be the version compared, or already the new one.
Write(s, l, expected, new) ==
  /\ file[s][l] \in {expected, new}
  /\ file' = [file EXCEPT ![s][l] = new]
  /\ held' = IF l \in Path THEN [held EXCEPT ![s][l] = @ \cup {new}] ELSE held
  /\ UNCHANGED over

\* The PC hints what it has installed, unless it was there already; the
\* phone marks the path dirty in any case.
WriteOnPc(l, expected, new) ==
  /\ Write("pc", l, expected, new)
  /\ hint' = IF file["pc"][l] = new THEN hint ELSE Hints(hint \cup {l})
  /\ received' = received \cup {l}
  /\ UNCHANGED <<noticed, phoneDirty, taken>>

WriteOnPhone(l, expected, new) ==
  /\ Write("phone", l, expected, new)
  /\ phoneDirty' = Hints(phoneDirty \cup {l})
  /\ UNCHANGED <<hint, noticed, taken>>

\* A window of Gets is installed only after all of it was received.
InstallGet(l) ==
  /\ at[l] = "fetched"
  /\ Was({"get"}) = {}
  /\ WriteOnPc(l, pcScan[l], phoneScan[l])
  /\ cand' = [cand EXCEPT ![l] = phoneScan[l]]
  /\ Step(l, "out")
  /\ UNCHANGED <<base, tokens, phase, full, pcScan, phoneScan, tok>>

InstallPut(l) ==
  /\ at[l] = "put"
  /\ WriteOnPhone(l, phoneScan[l], pcScan[l])
  /\ Step(l, "stored")
  /\ UNCHANGED <<base, tokens, phase, full, pcScan, phoneScan, cand, received, tok>>

\* PutBatchEnd: one Accept for each file, only after the whole batch.
DrainPuts ==
  /\ Was({"stored"}) # {} /\ Was({"put"}) = {}
  /\ cand' = [l \in Loc |-> IF at[l] = "stored" THEN pcScan[l] ELSE cand[l]]
  /\ at' = [l \in Loc |-> IF at[l] = "stored" THEN "out" ELSE at[l]]
  /\ UNCHANGED <<disk, base, trust, tokens, phase, full, pcScan, phoneScan, received, tok>>

InstallStaged(l) ==
  /\ phase = "work"
  /\ at[l] = "staged"
  /\ WriteOnPhone(l, phoneScan[l], pcScan[l])
  /\ cand' = [cand EXCEPT ![l] = pcScan[l]]
  /\ Step(l, "out")
  /\ UNCHANGED <<base, tokens, phase, full, pcScan, phoneScan, received, tok>>

\* A conflict: both versions are read first, then the phone's is preserved
\* on both sides, and only then the PC's takes its place.
Conflict(l) ==
  /\ phase = "work"
  /\ Working(l) /\ Drained
  /\ Decision(l) = "Conflict" /\ ~Prohibited("Conflict")
  /\ Fresh("pc", l) /\ Fresh("phone", l)
  /\ Step(l, "snapshot")
  /\ UNCHANGED <<disk, base, trust, tokens, phase, full, pcScan, phoneScan, cand, received, tok>>

\* Mutant: preserves the phone's version on the PC alone.
CopyOnPcOnly(p) ==
  /\ at[p] = "snapshot"
  /\ WriteOnPc(<<p, phoneScan[p]>>, Absent, phoneScan[p])
  /\ Step(p, "kept")
  /\ UNCHANGED <<base, tokens, phase, full, pcScan, phoneScan, cand, tok>>

CopyOnPc(p) ==
  /\ at[p] = "snapshot"
  /\ WriteOnPc(<<p, phoneScan[p]>>, Absent, phoneScan[p])
  /\ Step(p, "copied")
  /\ UNCHANGED <<base, tokens, phase, full, pcScan, phoneScan, cand, tok>>

CopyOnPhone(p) ==
  /\ at[p] = "copied"
  /\ WriteOnPhone(<<p, phoneScan[p]>>, Absent, phoneScan[p])
  /\ Step(p, "kept")
  /\ UNCHANGED <<base, tokens, phase, full, pcScan, phoneScan, cand, received, tok>>

\* Mutant: records the version that was preserved, not the one that stays.
ReplaceRecordsCopy(p) ==
  /\ at[p] = "kept"
  /\ WriteOnPhone(p, phoneScan[p], pcScan[p])
  /\ cand' = [cand EXCEPT ![p] = phoneScan[p], ![<<p, phoneScan[p]>>] = phoneScan[p]]
  /\ Step(p, "out")
  /\ UNCHANGED <<base, tokens, phase, full, pcScan, phoneScan, received, tok>>

Replace(p) ==
  /\ at[p] = "kept"
  /\ WriteOnPhone(p, phoneScan[p], pcScan[p])
  /\ cand' = [cand EXCEPT ![p] = pcScan[p], ![<<p, phoneScan[p]>>] = phoneScan[p]]
  /\ Step(p, "out")
  /\ UNCHANGED <<base, tokens, phase, full, pcScan, phoneScan, received, tok>>

-----------------------------------------------------------------------------
(* The end of a round.                                                     *)

\* validate_scan_snapshot: after a full scan the PC must still have what it
\* scanned and what this round put there.
Undisturbed(l) ==
  \/ l \notin received /\ Fresh("pc", l)
  \/ l \in received /\ file["pc"][l] = IF l \in Path THEN phoneScan[l] ELSE l[2]

\* The candidate is written beside the base and Done is sent.
Finish(t) ==
  /\ phase = "work"
  /\ Was({"todo", "staged"}) = {} /\ Drained
  /\ full => \A l \in Loc : Undisturbed(l)
  /\ t \notin {pcToken, phoneToken}
  /\ tok' = t
  /\ done' = t
  /\ phase' = "sent"
  /\ pcScan' = Nothing /\ phoneScan' = Nothing /\ received' = {}
  /\ UNCHANGED <<disk, base, trust, pcToken, phoneToken, retry, full, cand, at>>

\* Whatever ends a round leaves nothing of it but base and tokens.
EndRound(b) ==
  /\ phase' = "idle" /\ full' = FALSE
  /\ pcScan' = Nothing /\ phoneScan' = Nothing /\ cand' = b
  /\ at' = Idle /\ received' = {} /\ tok' = NoToken

\* rename(next, state.json), then the token.
Commit ==
  /\ phase = "sent"
  /\ base' = cand
  /\ pcToken' = tok
  /\ retry' = {}
  /\ EndRound(cand)
  /\ UNCHANGED <<disk, trust, phoneToken, done>>

PhoneDone ==
  /\ done # NoToken
  /\ phoneToken' = done
  /\ done' = NoToken
  /\ UNCHANGED <<disk, base, trust, pcToken, retry, round>>

LoseDone ==
  /\ done # NoToken
  /\ done' = NoToken
  /\ UNCHANGED <<disk, base, trust, pcToken, phoneToken, retry, round>>

\* Mutant: the flags of an unfinished scan are spent.
AbandonForgets ==
  /\ phase # "idle"
  /\ EndRound(base)
  /\ taken' = {}
  /\ UNCHANGED <<disk, base, hint, noticed, phoneDirty, tokens>>

\* discard_scan on the phone gives back the flags of an unfinished scan.
Abandon ==
  /\ phase # "idle"
  /\ EndRound(base)
  /\ phoneDirty' = Hints(phoneDirty \cup taken)
  /\ taken' = {}
  /\ UNCHANGED <<disk, base, hint, noticed, tokens>>

\* Some check of the round fails: STALE_SOURCE, STALE_TARGET, AUDIT_DEFERRED.
Stale ==
  \/ phase = "stream" /\ ~ScanStands
  \/ phase = "stream" /\ \E l \in Was({"hash"}) : file["phone"][l] = Absent
  \/ \E l \in Was({"todo"}) :
       /\ Decision(l) \in {"ToAndroid", "Conflict"}
       /\ ~Prohibited(Decision(l))
       /\ ~Fresh("pc", l) \/ (Decision(l) = "Conflict" /\ ~Fresh("phone", l))
  \/ \E l \in Was({"get"}) : ~Fresh("phone", l)
  \/ \E l \in Was({"fetched"}) : file["pc"][l] \notin {pcScan[l], phoneScan[l]}
  \/ \E l \in Was({"put", "staged", "kept"}) : file["phone"][l] \notin {pcScan[l], phoneScan[l]}
  \/ phase = "work" /\ full /\ \E l \in Loc : ~Undisturbed(l)

Refuse == Stale /\ Abandon

\* A lost connection, a timeout, an I/O error, or a scan that gives way to
\* more urgent work.
Lose == Abandon

CrashPc ==
  /\ "crash" \in Events
  /\ EndRound(base)
  /\ pcToken' = NoToken /\ retry' = {}
  /\ noticed' = {} /\ hint' = {Tree}
  /\ phoneDirty' = Hints(phoneDirty \cup taken) /\ taken' = {}
  /\ UNCHANGED <<disk, base, phoneToken, done>>

CrashPhone ==
  /\ "crash" \in Events
  /\ EndRound(base)
  /\ phoneToken' = NoToken /\ done' = NoToken
  /\ phoneDirty' = {Tree} /\ taken' = {}
  /\ UNCHANGED <<disk, base, hint, noticed, pcToken, retry>>

-----------------------------------------------------------------------------
Users ==
  \E s \in Side, p \in Path : Remove(s, p) \/ \E c \in Content : Edit(s, p, c)

Process(l) ==
  \/ Defer(l) \/ Skip(l) \/ Agree(l) \/ Offer(l) \/ Fetch(l) \/ Blob(l)
  \/ InstallGet(l) \/ InstallPut(l) \/ InstallStaged(l)

Resolve(p) == Conflict(p) \/ CopyOnPc(p) \/ CopyOnPhone(p) \/ Replace(p)

\* What the code does once a round has begun.
Advance ==
  \/ DeltaScan \/ DeltaFallback \/ Enumerate \/ ScanPc \/ HashEnd \/ DrainPuts
  \/ \E S \in SUBSET Was({"hash"}) : S # {} /\ HashNext(S)
  \/ \E l \in Loc : Process(l)
  \/ \E p \in Path : Resolve(p)
  \/ \E t \in Token : Finish(t)
  \/ Commit
  \/ Refuse

Environment == Users \/ Lose \/ CrashPc \/ CrashPhone \/ LoseDone

Next == Environment \/ FlushHint \/ AuditDue \/ Begin \/ Advance \/ PhoneDone

Spec == Init /\ [][Next]_vars

\* Sessions follow one another and a round that has begun moves on until it
\* ends.  The watcher loop and the audit clock look again after every round
\* and find the Share idle, though not for long: strong fairness.
Fairness ==
  /\ WF_vars(Begin) /\ WF_vars(Advance) /\ WF_vars(PhoneDone)
  /\ SF_vars(FlushHint) /\ SF_vars(AuditDue)

FairSpec == Spec /\ Fairness

-----------------------------------------------------------------------------
TypeOK ==
  /\ file \in [Side -> [Loc -> MaybeContent]]
  /\ base \in [Loc -> MaybeContent] /\ cand \in [Loc -> MaybeContent]
  /\ hint \subseteq Loc \cup {Tree} /\ noticed \subseteq Loc \cup {Tree}
  /\ phoneDirty \subseteq Loc \cup {Tree} /\ taken \subseteq Loc \cup {Tree}
  /\ pcToken \in MaybeToken /\ phoneToken \in MaybeToken
  /\ done \in MaybeToken /\ tok \in MaybeToken
  /\ retry \subseteq Loc /\ received \subseteq Loc
  /\ phase \in {"idle", "delta", "full", "named", "stream", "work", "sent"}
  /\ full \in BOOLEAN
  /\ pcScan \in [Loc -> MaybeContent] /\ phoneScan \in [Loc -> MaybeContent]
  /\ at \in [Loc -> {"out", "hash", "todo", "deferred", "staged", "put", "stored",
                     "get", "fetched", "snapshot", "copied", "kept"}]
  /\ held \in [Side -> [Path -> SUBSET Content]]
  /\ over \in [Path -> [Content -> SUBSET Content]]

(* The committed base of a path is a version both folders have had: the    *)
(* three-way comparison may take a side that still has it for unchanged.   *)
BaseSound ==
  \A p \in Path : base[p] # Absent => \A s \in Side : base[p] \in held[s][p]

\* The conflict copy of a version is on both sides.
Preserved(p, c) ==
  \A s \in Side : file[s][<<p, c>>] = c

(* A round replaces a version only by one whose author had that version    *)
(* before him, or after preserving it as a conflict copy on both sides     *)
(* (README.md: concurrent edits preserve both versions).                   *)
KeepsVersions ==
  ~Users => \A s \in Side, p \in Path :
    file[s][p] \notin {Absent, file'[s][p]} =>
      file[s][p] \in over[p][file'[s][p]] \/ Preserved(p, file[s][p])

NoLostUpdate == [][KeepsVersions]_vars

(* In a one-way Share no step of a round writes on the side that leads.    *)
SpareLeader ==
  ~Users => /\ Mode = "ToAndroid" => file'["pc"] = file["pc"]
            /\ Mode = "ToPc" => file'["phone"] = file["phone"]

OneWay == [][SpareLeader]_vars

(* When the phone would answer a delta, it still remembers every change    *)
(* its observers noticed since the base was committed: a scan that was     *)
(* given up gives its flags back, one that was confirmed drops the token.  *)
PhoneRemembers ==
  pcToken = phoneToken /\ pcToken # NoToken =>
    \A l \in Loc : file["phone"][l] # base[l] => (phoneDirty \cup taken) \cap {l, Tree} # {}

\* A Share in one direction keeps differences, and a missed change is missed.
ChangesRemembered == Mode = "Bidirectional" /\ "miss" \notin Events => PhoneRemembers

Covered(l) == base'[l] = file["pc"][l] \/ (noticed \cup hint \cup phoneDirty) \cap {l, Tree} # {}

(* A full round that commits leaves no path of the PC behind: each is as   *)
(* the base says, or its change is still noticed, hinted or asked for. One *)
(* direction alone leaves what the other would have to bring.              *)
CommitCovers ==
  Mode = "Bidirectional" /\ Commit /\ full => \A l \in Loc : Covered(l)

FullCommitCoversPc == [][CommitCovers]_vars

(* A round that rests on a delta does so as well: scan trust once lost is  *)
(* restored by an audit before the next focused round may succeed.         *)
DeltaCommitCoversPc ==
  [][Commit /\ ~full => \A l \in Loc : Covered(l)]_vars

(* Once the users leave the folders alone and nothing fails any more, both *)
(* sides come to hold the same files, also after changes nobody noticed.   *)
Converges ==
  <>[][~Environment]_vars => <>[](\A l \in Loc : file["pc"][l] = file["phone"][l])

=============================================================================
