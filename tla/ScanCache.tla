------------------------------- MODULE ScanCache -------------------------------
(***************************************************************************)
(* What the PC's store believes about the contents of a Share while editors *)
(* write into it. A file is hashed piece by piece; a hash is trusted only   *)
(* if the file's fingerprint (device, inode, size, times) did not move      *)
(* meanwhile, and a cached hash only while the fingerprint is still the     *)
(* same. A Share's scan may be prepared by another thread before its turn,  *)
(* and the next file to send may be copied while the one before is sent.    *)
(* Every edit moves the fingerprint: the file system's clock is taken to be *)
(* fine enough.                                                             *)
(***************************************************************************)
EXTENDS Integers, Sequences, FiniteSets

CONSTANTS
  Path,
  Node,      \* inodes
  Piece,     \* what a piece of a file can contain
  Absent,
  EditMax    \* bound of the instance: edits

ScanCacheAssumption == Absent \notin Node /\ EditMax \in Nat

VARIABLES
  file,      \* the inode at each path
  content,   \* what each inode holds: two pieces
  changed,   \* the times of each inode
  edits, quiet,   \* bound of the instance; ghost: no edit since the scan began
  phase,     \* the round of the Share
  kind,      \* how paths are hashed: "prepare", "walk", "batch", "delta"
  job,       \* the hashing of each path
  prepared,  \* PreparedScan.files
  cache,     \* LocalStore.cache
  disk,      \* cache.json
  manifest,  \* what the scan returned, or collects
  copy       \* SnapshotWork, or the copy that snapshot makes

world == <<file, content, changed, edits, quiet>>
vars == <<world, phase, kind, job, prepared, cache, disk, manifest, copy>>

Contents == Piece \X Piece
Unknown == "unknown"

Fingerprint(n) == <<n, changed[n]>>
At(p) == IF file[p] = Absent THEN <<Absent, 0>> ELSE Fingerprint(file[p])
Is(p) == content[file[p]]

\* CachedEntry
Cached(fingerprint, hash) == [fingerprint |-> fingerprint, hash |-> hash]
NoEntry == Cached(<<Absent, 0>>, <<>>)
NoFiles == [p \in Path |-> NoEntry]

Waiting == [step |-> "wait", before |-> <<Absent, 0>>, handle |-> Absent, read |-> <<>>]
NoCopy == [step |-> "none", path |-> CHOOSE p \in Path : TRUE, ahead |-> FALSE,
           evidence |-> <<Absent, 0>>, handle |-> Absent, read |-> <<>>]

Marks == (Node \cup {Absent}) \X (0 .. EditMax)
Reads == {<<>>} \cup {<<x>> : x \in Piece} \cup Contents
Entries == [fingerprint : Marks, hash : {<<>>} \cup Contents]

TypeOK ==
  /\ file \in [Path -> Node \cup {Absent}]
  /\ content \in [Node -> Contents]
  /\ changed \in [Node -> 0 .. EditMax]
  /\ edits \in 0 .. EditMax /\ quiet \in BOOLEAN
  /\ phase \in {"closed", "prepare", "prepared", "open", "scan", "sending"}
  /\ kind \in {"prepare", "walk", "batch", "delta"}
  /\ \A p \in Path : /\ job[p].step \in {"wait", "list", "open", "read", "check", "join", "done"}
                     /\ job[p].before \in Marks /\ job[p].read \in Reads
                     /\ job[p].handle \in Node \cup {Absent}
  /\ prepared \in [Path -> Entries] /\ cache \in [Path -> Entries] /\ disk \in [Path -> Entries]
  /\ manifest \in [Path -> {<<>>} \cup Contents]
  /\ copy.step \in {"none", "read", "check", "sent"} /\ copy.read \in Reads

Init ==
  /\ \E n \in [Path -> Node] :
       /\ \A p, q \in Path : n[p] = n[q] => p = q
       /\ file = n
  /\ content \in [Node -> {<<x, x>> : x \in Piece}] /\ changed = [n \in Node |-> 0]
  /\ edits = 0 /\ quiet = FALSE
  /\ phase = "closed" /\ kind = "walk"
  /\ job = [p \in Path |-> Waiting]
  /\ prepared = NoFiles /\ cache = NoFiles /\ disk = NoFiles
  /\ manifest = [p \in Path |-> <<>>]
  /\ copy = NoCopy

-----------------------------------------------------------------------------
(* Editors.                                                                *)

Edit ==
  /\ edits < EditMax
  /\ edits' = edits + 1 /\ quiet' = FALSE
  /\ UNCHANGED <<phase, kind, job, prepared, cache, disk, manifest, copy>>

\* One piece is written in place.
Overwrite(p) ==
  /\ Edit /\ file[p] # Absent
  /\ \E i \in 1 .. 2, x \in Piece : content' = [content EXCEPT ![file[p]][i] = x]
  /\ changed' = [changed EXCEPT ![file[p]] = edits']
  /\ UNCHANGED file

\* A new file is renamed over the path, or appears at it.
Replace(p) ==
  /\ Edit
  /\ \E n \in Node, c \in Contents :
       /\ \A q \in Path : file[q] # n
       /\ changed' = [changed EXCEPT ![n] = edits']
       /\ content' = [content EXCEPT ![n] = c]
       /\ file' = [file EXCEPT ![p] = n]

Remove(p) ==
  /\ Edit /\ file[p] # Absent
  /\ file' = [file EXCEPT ![p] = Absent]
  /\ UNCHANGED <<content, changed>>

Editors == \E p \in Path : Overwrite(p) \/ Replace(p) \/ Remove(p)

-----------------------------------------------------------------------------
(* The round of a Share.                                                   *)

Starts(how, scope) ==
  /\ kind' = how
  /\ job' = [p \in Path |-> IF p \in scope THEN [Waiting EXCEPT !.step = "list"] ELSE Waiting]

\* ScanPreparations: the hash of a Share that waits for its turn.
Prepare ==
  /\ phase = "closed"
  /\ phase' = "prepare" /\ Starts("prepare", Path) /\ prepared' = NoFiles
  /\ UNCHANGED <<world, cache, disk, manifest, copy>>

\* It is taken when the Share's turn comes; a preparation that failed is
\* none (ScanPreparations::take).
Prepared ==
  /\ phase = "prepare" /\ \A p \in Path : job[p].step = "done"
  /\ phase' = "prepared"
  /\ UNCHANGED <<world, kind, job, prepared, cache, disk, manifest, copy>>

\* open_impl loads cache.json and forgets the paths of the watcher's hint;
\* without a live watcher everything is forgotten.
Open ==
  /\ phase \in {"closed", "prepared"}
  /\ \E forgotten \in SUBSET Path :
       cache' = [p \in Path |-> IF p \in forgotten \/ phase = "prepared" THEN NoEntry ELSE disk[p]]
  /\ phase' = "open"
  /\ UNCHANGED <<world, kind, job, prepared, disk, manifest, copy>>

Fresh(p) == prepared[p].fingerprint = At(p)

\* consume_prepared_scan: the same files, every one with its fingerprint.
Consume ==
  /\ phase = "open" /\ prepared # NoFiles
  /\ IF \A p \in Path : Fresh(p)
     THEN cache' = [p \in Path |-> IF prepared[p] = NoEntry THEN cache[p] ELSE prepared[p]]
     ELSE UNCHANGED cache
  /\ prepared' = NoFiles
  /\ UNCHANGED <<world, phase, kind, job, disk, manifest, copy>>

StartScan ==
  /\ phase = "open" /\ prepared = NoFiles
  /\ \/ \E how \in {"walk", "batch"} : Starts(how, Path)
     \/ \E dirty \in SUBSET Path : Starts("delta", dirty)
  /\ manifest' = [p \in Path |-> <<>>] /\ quiet' = TRUE
  /\ phase' = "scan"
  /\ UNCHANGED <<file, content, changed, edits, prepared, cache, disk, copy>>

-----------------------------------------------------------------------------
(* Hashing one path.                                                       *)

Hashing(p, step) == phase \in {"prepare", "scan"} /\ job[p].step = step

Job(p, record) == job' = [job EXCEPT ![p] = record]

Collect(p, fingerprint, hash) ==
  IF kind = "prepare"
  THEN prepared' = [prepared EXCEPT ![p] = Cached(fingerprint, hash)] /\ UNCHANGED <<cache, manifest>>
  ELSE /\ cache' = [cache EXCEPT ![p] = Cached(fingerprint, hash)]
       /\ manifest' = [manifest EXCEPT ![p] = hash]
       /\ UNCHANGED prepared

\* The path is listed, with its fingerprint; a path that is gone is not.
List(p) ==
  /\ Hashing(p, "list")
  /\ IF file[p] = Absent
     THEN /\ Job(p, [Waiting EXCEPT !.step = "done"])
          /\ cache' = IF kind = "delta" THEN [cache EXCEPT ![p] = NoEntry] ELSE cache
     ELSE Job(p, [Waiting EXCEPT !.step = "open", !.before = At(p)]) /\ UNCHANGED cache
  /\ UNCHANGED <<world, phase, kind, prepared, disk, manifest, copy>>

Known(p) == IF kind = "prepare" THEN disk[p] ELSE cache[p]

\* The fingerprint still stands and the cache knows it: no hash is needed.
Reuse(p) ==
  /\ Hashing(p, "open") /\ kind # "delta"
  /\ At(p) = job[p].before /\ Known(p).fingerprint = At(p)
  /\ Collect(p, At(p), Known(p).hash)
  /\ Job(p, [Waiting EXCEPT !.step = "done"])
  /\ UNCHANGED <<world, phase, kind, disk, copy>>

\* The walk and the delta do not compare the handle with the path.
OpenFile(p) ==
  /\ Hashing(p, "open") /\ file[p] # Absent
  /\ kind = "delta" \/ Known(p).fingerprint # At(p)
  /\ kind \in {"walk", "delta"} \/ At(p) = job[p].before
  /\ Job(p, [job[p] EXCEPT !.step = "read", !.handle = file[p]])
  /\ UNCHANGED <<world, phase, kind, prepared, cache, disk, manifest, copy>>

\* hash_reader
Read(p) ==
  /\ Hashing(p, "read")
  /\ LET read == Append(job[p].read, content[job[p].handle][Len(job[p].read) + 1]) IN
       Job(p, [job[p] EXCEPT !.read = read, !.step = IF Len(read) = 2 THEN "check" ELSE "read"])
  /\ UNCHANGED <<world, phase, kind, prepared, cache, disk, manifest, copy>>

\* Mutant: the fingerprint taken after the hash is not compared.
CheckTrusts(p) ==
  /\ Hashing(p, "check") /\ file[p] # Absent
  /\ IF kind = "batch"
     THEN /\ Job(p, [job[p] EXCEPT !.step = "join"])
          /\ UNCHANGED <<prepared, cache, manifest>>
     ELSE /\ Job(p, [Waiting EXCEPT !.step = "done"])
          /\ Collect(p, At(p), job[p].read)
  /\ UNCHANGED <<world, phase, kind, disk, copy>>

\* The path must have the fingerprint it had before,
Check(p) ==
  /\ Hashing(p, "check") /\ At(p) = job[p].before
  /\ IF kind = "batch"
     THEN /\ Job(p, [job[p] EXCEPT !.step = "join"])
          /\ UNCHANGED <<prepared, cache, manifest>>
     ELSE /\ Job(p, [Waiting EXCEPT !.step = "done"])
          /\ Collect(p, At(p), job[p].read)
  /\ UNCHANGED <<world, phase, kind, disk, copy>>

\* and, of a batch, once more when its workers have been joined.
Join(p) ==
  /\ Hashing(p, "join") /\ At(p) = job[p].before
  /\ Collect(p, job[p].before, job[p].read)
  /\ Job(p, [Waiting EXCEPT !.step = "done"])
  /\ UNCHANGED <<world, phase, kind, disk, copy>>

\* STALE_SOURCE, or a file that is gone: a preparation is dropped, a scan
\* ends the round, which saves the cache (discard_scan).
Stale(p) ==
  /\ \/ Hashing(p, "open") /\ (file[p] = Absent \/ (kind \in {"prepare", "batch"} /\ At(p) # job[p].before))
     \/ \E step \in {"check", "join"} : Hashing(p, step) /\ At(p) # job[p].before
  /\ job' = [q \in Path |-> Waiting]
  /\ prepared' = NoFiles
  /\ IF phase = "prepare"
     THEN phase' = "prepared" /\ UNCHANGED <<cache, disk, manifest, copy>>
     ELSE /\ phase' = "closed" /\ cache' = NoFiles /\ copy' = NoCopy
          /\ disk' = cache /\ manifest' = [q \in Path |-> <<>>]
  /\ UNCHANGED <<world, kind>>

\* A full scan keeps the entries of its manifest and saves them; a delta
\* leaves cache.json and the hint alone.
ScanDone ==
  /\ phase = "scan" /\ \A p \in Path : job[p].step \in {"wait", "done"}
  /\ IF kind = "delta" THEN UNCHANGED <<cache, disk>>
     ELSE /\ cache' = [p \in Path |-> IF manifest[p] = <<>> THEN NoEntry ELSE cache[p]]
          /\ disk' = cache'
  /\ phase' = "sending"
  /\ UNCHANGED <<world, kind, job, prepared, manifest, copy>>

-----------------------------------------------------------------------------
(* Copies of the files to send.                                            *)

\* snapshot, or prepare_snapshot_work for the file after the one being sent.
StartCopy(p, ahead) ==
  /\ phase = "sending" /\ copy.step \in {"none", "sent"} /\ manifest[p] # <<>> /\ file[p] # Absent
  /\ copy' = [step |-> "read", path |-> p, ahead |-> ahead, evidence |-> At(p),
              handle |-> file[p], read |-> <<>>]
  /\ UNCHANGED <<world, phase, kind, job, prepared, cache, disk, manifest>>

\* copy_and_hash
ReadCopy ==
  /\ copy.step = "read"
  /\ LET read == Append(copy.read, content[copy.handle][Len(copy.read) + 1]) IN
       copy' = [copy EXCEPT !.read = read, !.step = IF Len(read) = 2 THEN "check" ELSE "read"]
  /\ UNCHANGED <<world, phase, kind, job, prepared, cache, disk, manifest>>

\* The copy is the file that was reconciled; one made ahead is also still
\* at its path when its turn comes (finish_snapshot_work).
Current ==
  /\ copy.read = manifest[copy.path]
  /\ copy.ahead => At(copy.path) = copy.evidence

\* A copy that is not forgets the path and fails the file's transfer.
FinishCopy ==
  /\ copy.step = "check"
  /\ IF Current
     THEN copy' = [copy EXCEPT !.step = "sent"] /\ UNCHANGED <<cache, disk>>
     ELSE /\ copy' = NoCopy
          /\ cache' = [cache EXCEPT ![copy.path] = NoEntry]
          /\ disk' = cache'
  /\ UNCHANGED <<world, phase, kind, job, prepared, manifest>>

\* The round ends and saves the cache, whatever its outcome (discard_scan),
\* or the process dies and the disk is what remains.
Close ==
  /\ phase # "closed"
  /\ disk' = disk \/ (phase \in {"scan", "sending"} /\ disk' = cache)
  /\ phase' = "closed" /\ kind' = "walk"
  /\ job' = [p \in Path |-> Waiting] /\ prepared' = NoFiles
  /\ cache' = NoFiles /\ copy' = NoCopy
  /\ manifest' = [p \in Path |-> <<>>]
  /\ quiet' = FALSE
  /\ UNCHANGED <<file, content, changed, edits>>

Next ==
  \/ Editors
  \/ Prepare \/ Prepared \/ Open \/ Consume \/ StartScan \/ ScanDone \/ Close
  \/ \E p \in Path : \/ List(p) \/ Reuse(p) \/ OpenFile(p) \/ Read(p) \/ Check(p)
                     \/ Join(p) \/ Stale(p)
                     \/ \E ahead \in BOOLEAN : StartCopy(p, ahead)
  \/ ReadCopy \/ FinishCopy

Spec == Init /\ [][Next]_vars

-----------------------------------------------------------------------------
(* Properties.                                                             *)

Honest(entries) ==
  \A p \in Path : entries[p] # NoEntry /\ entries[p].fingerprint = At(p) => entries[p].hash = Is(p)

\* No hash that anybody keeps, in memory, on the disk or in a preparation,
\* is that of a mixture of two versions, or of another version than its
\* fingerprint (hash_paths, scan_paths, walk, prepare_scan).
CacheHonest == Honest(cache) /\ Honest(disk) /\ Honest(prepared)

\* A scan during which nobody edited returns exactly what the folder holds,
\* however much of it came from a cache; a delta at the paths it was asked.
ScanExact ==
  phase = "sending" /\ quiet =>
    \A p \in Path : \/ kind = "delta" /\ job[p].step = "wait"
                    \/ file[p] = Absent /\ manifest[p] = <<>>
                    \/ file[p] # Absent /\ manifest[p] = Is(p)

\* A copy that was made ahead is sent only if the path still holds the
\* version that was reconciled (SnapshotWork, SnapshotPrefetch).
PrefetchCurrent ==
  [][copy.step = "check" /\ copy'.step = "sent" /\ copy.ahead =>
       file[copy.path] # Absent /\ Is(copy.path) = manifest[copy.path]]_vars

\* What the computer believes of its files is true: no hash is of another
\* version than its fingerprint, an undisturbed scan is exact, and a copy made
\* ahead is sent only while it is current (scan_paths, SnapshotPrefetch).
CacheTellsTruth == [](CacheHonest /\ ScanExact) /\ PrefetchCurrent

=============================================================================
