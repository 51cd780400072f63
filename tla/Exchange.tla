------------------------------ MODULE Exchange ------------------------------
(***************************************************************************)
(* The conversation of one Share between the coordinator on the PC         *)
(* (coordinate_candidate) and the responder on the phone (respond_share),  *)
(* over two FIFO streams: the delta or full scan behind its gate, the hash *)
(* stream with files staged while it runs, windows of Gets, batches of     *)
(* Puts, and the two ways a round is put off: an urgent wake on the PC     *)
(* preempts it, and the phone defers it by itself. The two may cross on    *)
(* the wire, and no frame of a round that ended may be read in the next.   *)
(* A frame its reader does not handle ends the session (pc or phone is     *)
(* "error"). A transfer that fails ends the session too and is left to     *)
(* SyncRound, which models what it leaves on the disks. A conflict is made *)
(* of the same exchanges, one Get and two batches, after the stream.       *)
(***************************************************************************)
EXTENDS Naturals, Sequences

CONSTANTS
  Chunks,    \* the number of files in each frame of the hash stream
  PcOnly,    \* the number of files only the PC has
  Window     \* MAX_IN_FLIGHT_FILES

ExchangeAssumption ==
  Chunks \in Seq(Nat \ {0}) /\ PcOnly \in Nat /\ Window \in Nat \ {0}

VARIABLES
  toPhone, toPc,   \* the two directions of the connection
  urgent,          \* audit_control(Tick) names urgent Shares
  pc,              \* where the coordinator is
  co,              \* its round
  outcome,         \* how its last round ended
  phone,           \* where the responder is
  re,              \* its round
  deferredShare    \* the session of the phone deferred a round of this Share

vars == <<toPhone, toPc, urgent, pc, co, outcome, phone, re, deferredShare>>
pcVars == <<pc, co, outcome, urgent>>
phoneVars == <<phone, re, deferredShare>>

\* The messages of a round, to the phone and to the PC.
Message ==
  {"SelectShare", "RoundDeferred", "AckBatch", "Scan", "DeltaScan", "ScanContinue",
   "AuditPreempt", "HashStreamBegin", "HashRelease", "HashNext", "StagePut",
   "InstallStaged", "Get", "Put", "PutBatchEnd", "Done"} \cup
  {"Ready", "ScanAlive", "ScanReady", "ScanDeferred", "Namespace", "DeltaManifest",
   "NeedFullScan", "HashChunk", "HashStreamEnd", "StageReceived", "Blob", "Accept"}

Item == {"unknown", "none", "get", "put", "later"}

Coordinator ==
  [sent : BOOLEAN,       \* an AuditPreempt that names Shares went out
   stream : {"none", "open", "ended"},
   seq : Nat,            \* ScanStream.sequence
   release : BOOLEAN,    \* last_chunk_paths is not empty
   work : Nat,           \* files left to reconcile
   later : Nat,          \* deferred: files put off to the end of the stream
   item : Item,          \* what the file at hand needs
   puts : 0 .. Window, gets : 0 .. Window,   \* pending_puts, pending_gets
   staged : 0 .. Window, \* staged_puts
   confirmed : 0 .. Window,   \* of them installed
   deferring : BOOLEAN,  \* a reply of the window was ScanDeferred
   recorded : Nat]       \* files the round recorded as received by the phone

Responder ==
  [delta : BOOLEAN,      \* it scans the paths of a delta
   stream : {"none", "named", "hashing", "deferred"},   \* ResponderStream
   completed : BOOLEAN,  \* stream_completed
   seq : Nat,            \* ResponderStream.sequence
   deferred : 0 .. Window,   \* deferred_gets
   stages : 0 .. Window, \* incoming_stages
   batch : 0 .. Window,  \* puts of the open batch
   installed : Nat]      \* files installed on the phone in this round

TypeOK ==
  /\ toPhone \in Seq([type : Message, n : Nat]) /\ toPc \in Seq([type : Message, n : Nat])
  /\ urgent \in BOOLEAN
  /\ pc \in {"dispatch", "selected", "gate", "gated", "manifest", "reconcile", "hashWait",
             "boundary", "stage", "install", "confirm", "accepts", "blobs", "barrier", "deferred", "error"}
  /\ co \in Coordinator
  /\ outcome \in {"none", "committed", "deferred"}
  /\ phone \in {"dispatch", "loop", "scan", "gate", "hash", "batch", "error"}
  /\ re \in Responder
  /\ deferredShare \in BOOLEAN

FreshCoordinator ==
  [sent |-> FALSE, stream |-> "none", seq |-> 0, release |-> FALSE, work |-> 0, later |-> 0,
   item |-> "unknown", puts |-> 0, gets |-> 0, staged |-> 0, confirmed |-> 0,
   deferring |-> FALSE, recorded |-> 0]

FreshResponder ==
  [delta |-> FALSE, stream |-> "none", completed |-> FALSE, seq |-> 0, deferred |-> 0,
   stages |-> 0, batch |-> 0, installed |-> 0]

Init ==
  /\ toPhone = <<>> /\ toPc = <<>> /\ urgent = FALSE
  /\ pc = "dispatch" /\ co = FreshCoordinator /\ outcome = "none"
  /\ phone = "dispatch" /\ re = FreshResponder /\ deferredShare = FALSE

-----------------------------------------------------------------------------
(* Frames. A file's body follows its header in the same stream and is part *)
(* of the frame.                                                           *)

Frame(type, n) == [type |-> type, n |-> n]
F(type) == <<Frame(type, 0)>>

Says(frames) == toPhone' = toPhone \o frames /\ UNCHANGED toPc
Answers(frames) == toPc' = toPc \o frames /\ UNCHANGED toPhone

Heard(type) == toPc # <<>> /\ Head(toPc).type = type
Asked(type) == toPhone # <<>> /\ Head(toPhone).type = type

\* Read the first frame and send some.
PcReads(type, frames) ==
  Heard(type) /\ toPc' = Tail(toPc) /\ toPhone' = toPhone \o frames
PhoneReads(type, frames) ==
  Asked(type) /\ toPhone' = Tail(toPhone) /\ toPc' = toPc \o frames

-----------------------------------------------------------------------------
(* The coordinator: the session and the gate.                              *)

\* An urgent wake while a round is under way: its generation is newer than
\* the round.
UrgentWake ==
  /\ ~urgent
  /\ urgent' = TRUE
  /\ UNCHANGED <<toPhone, toPc, pc, co, outcome, phoneVars>>

SelectShare ==
  /\ pc = "dispatch"
  /\ Says(F("SelectShare"))
  /\ pc' = "selected" /\ co' = FreshCoordinator /\ outcome' = "none" /\ urgent' = FALSE
  /\ UNCHANGED phoneVars

\* A delta if the token of the session and the dirty paths are known.
BeginScan ==
  /\ pc = "selected"
  /\ \E scan \in {"DeltaScan", "Scan"} : PcReads("Ready", F(scan))
  /\ pc' = "gate"
  /\ UNCHANGED <<co, outcome, urgent, phoneVars>>

\* A tick of the 50 ms read timeout preempts once.
TickPreempts ==
  /\ pc \in {"gate", "hashWait"} /\ urgent /\ ~co.sent
  /\ Says(F("AuditPreempt"))
  /\ co' = [co EXCEPT !.sent = TRUE]
  /\ UNCHANGED <<pc, outcome, urgent, phoneVars>>

PcAlive ==
  /\ pc \in {"gate", "hashWait"}
  /\ PcReads("ScanAlive", <<>>)
  /\ UNCHANGED <<pcVars, phoneVars>>

\* ScanReady looks at the urgent Shares a last time; after a preemption only
\* ScanDeferred may follow.
GateReady ==
  /\ pc = "gate"
  /\ LET preempts == co.sent \/ urgent IN
       /\ PcReads("ScanReady", IF ~preempts THEN F("ScanContinue")
                               ELSE IF co.sent THEN <<>> ELSE F("AuditPreempt"))
       /\ co' = [co EXCEPT !.sent = preempts]
       /\ pc' = IF preempts THEN "gated" ELSE "manifest"
  /\ UNCHANGED <<outcome, urgent, phoneVars>>

\* The round is put off: whatever the phone still answers is ScanDeferred.
ReadsDeferral ==
  /\ pc \in {"gate", "gated", "hashWait", "boundary", "barrier"}
  /\ PcReads("ScanDeferred", <<>>)
  /\ pc' = "deferred"
  /\ UNCHANGED <<co, outcome, urgent, phoneVars>>

\* RoundDeferred carries every urgent Share to the phone.
RoundDeferred ==
  /\ pc = "deferred"
  /\ Says(F("RoundDeferred"))
  /\ pc' = "dispatch" /\ outcome' = "deferred"
  /\ UNCHANGED <<co, urgent, phoneVars>>

\* What the phone found: a delta, no usable delta, or the namespace of a full
\* scan, whose hashes follow one frame at a time.
ReadsDelta ==
  /\ pc = "manifest"
  /\ PcReads("DeltaManifest", <<>>)
  /\ \E files \in 0 .. Window + 1 : co' = [co EXCEPT !.work = files]
  /\ pc' = "reconcile"
  /\ UNCHANGED <<outcome, urgent, phoneVars>>

FallsBack ==
  /\ pc = "manifest"
  /\ \/ PcReads("NeedFullScan", F("Scan"))
     \/ PcReads("DeltaManifest", F("Scan"))
  /\ pc' = "gate"
  /\ UNCHANGED <<co, outcome, urgent, phoneVars>>

ReadsNamespace ==
  /\ pc = "manifest"
  /\ PcReads("Namespace", F("HashStreamBegin"))
  /\ co' = [co EXCEPT !.stream = "open", !.work = PcOnly]
  /\ pc' = "reconcile"
  /\ UNCHANGED <<outcome, urgent, phoneVars>>

-----------------------------------------------------------------------------
(* The coordinator: reconciliation and transfers.                          *)

Streaming == co.stream = "open"
Reconciling == pc = "reconcile"

\* The next file; while the hash stream runs, a conflict or a file over the
\* staging limit waits for its end.
TakeItem ==
  /\ Reconciling /\ co.item = "unknown" /\ co.work > 0
  /\ \E item \in Item \ {"unknown"} :
       /\ item = "later" => Streaming
       /\ item = "put" /\ Streaming => co.staged < Window
       /\ co' = [co EXCEPT !.item = item, !.work = @ - 1]
  /\ UNCHANGED <<toPhone, toPc, pc, outcome, urgent, phoneVars>>

\* A preemption seen between two files drops the files at hand.
BoundaryPreempts ==
  /\ Reconciling /\ Streaming /\ urgent /\ co.item = "unknown" /\ co.work > 0
  /\ co' = [co EXCEPT !.work = 0]
  /\ UNCHANGED <<toPhone, toPc, pc, outcome, urgent, phoneVars>>

\* drain_puts and drain_gets: before another kind of file, when the window
\* is full, and before the hash stream, Done or a preemption.
MustDrainPuts ==
  co.puts > 0 /\ (co.puts = Window \/ co.item \in {"none", "get"} \/ (co.item = "unknown" /\ co.work = 0))
MustDrainGets ==
  co.gets > 0 /\ (co.gets = Window \/ co.item \in {"none", "put"} \/ (co.item = "unknown" /\ co.work = 0))
Drained == ~MustDrainPuts /\ ~MustDrainGets

EndBatch ==
  /\ Reconciling /\ MustDrainPuts
  /\ Says(F("PutBatchEnd"))
  /\ pc' = "accepts"
  /\ UNCHANGED <<co, outcome, urgent, phoneVars>>

ReadsAccept ==
  /\ pc = "accepts"
  /\ PcReads("Accept", <<>>)
  /\ co' = [co EXCEPT !.puts = @ - 1, !.recorded = @ + 1]
  /\ pc' = IF co.puts = 1 THEN "reconcile" ELSE "accepts"
  /\ UNCHANGED <<outcome, urgent, phoneVars>>

AwaitWindow ==
  /\ Reconciling /\ ~MustDrainPuts /\ MustDrainGets
  /\ pc' = "blobs"
  /\ UNCHANGED <<toPhone, toPc, co, outcome, urgent, phoneVars>>

\* receive_get_window: every reply is read before anything is installed; one
\* deferral puts the round off, behind a barrier.
WindowEnd(deferring) ==
  IF co.gets > 1 THEN "blobs" ELSE IF deferring THEN "barrier" ELSE "reconcile"

ReadsBlob ==
  /\ pc = "blobs" /\ ~co.deferring
  /\ \/ PcReads("Blob", <<>>)
     \/ co.gets = 1 /\ PcReads("Blob", F("AckBatch"))
  /\ co' = [co EXCEPT !.gets = @ - 1]
  /\ pc' = WindowEnd(FALSE)
  /\ UNCHANGED <<outcome, urgent, phoneVars>>

\* Mutant: the replies behind a deferral are left in the stream.
GetDeferralStops ==
  /\ pc = "blobs"
  /\ PcReads("ScanDeferred", F("AuditPreempt"))
  /\ co' = [co EXCEPT !.gets = 0, !.deferring = TRUE]
  /\ pc' = "barrier"
  /\ UNCHANGED <<outcome, urgent, phoneVars>>

ReadsGetDeferral ==
  /\ pc = "blobs"
  /\ PcReads("ScanDeferred", IF co.gets = 1 THEN F("AuditPreempt") ELSE <<>>)
  /\ co' = [co EXCEPT !.gets = @ - 1, !.deferring = TRUE]
  /\ pc' = WindowEnd(TRUE)
  /\ UNCHANGED <<outcome, urgent, phoneVars>>

\* A file both sides have, or one put off.
Skip ==
  /\ Reconciling /\ Drained /\ co.item \in {"none", "later"}
  /\ Says(<<>>) \/ (co.item = "none" /\ Says(F("AckBatch")))
  /\ co' = [co EXCEPT !.item = "unknown", !.later = IF co.item = "later" THEN @ + 1 ELSE @]
  /\ UNCHANGED <<pc, outcome, urgent, phoneVars>>

SendGet ==
  /\ Reconciling /\ Drained /\ co.item = "get"
  /\ Says(F("Get"))
  /\ co' = [co EXCEPT !.item = "unknown", !.gets = @ + 1]
  /\ UNCHANGED <<pc, outcome, urgent, phoneVars>>

SendPut ==
  /\ Reconciling /\ Drained /\ co.item = "put" /\ ~Streaming
  /\ Says(F("Put"))
  /\ co' = [co EXCEPT !.item = "unknown", !.puts = @ + 1]
  /\ UNCHANGED <<pc, outcome, urgent, phoneVars>>

\* remote_stage: the file goes to the phone while the stream runs, and is
\* installed at its end.
StagePut ==
  /\ Reconciling /\ Drained /\ co.item = "put" /\ Streaming
  /\ Says(<<Frame("StagePut", co.staged)>>)
  /\ pc' = "stage"
  /\ UNCHANGED <<co, outcome, urgent, phoneVars>>

ReadsStaged ==
  /\ pc = "stage" /\ Heard("StageReceived") /\ Head(toPc).n = co.staged
  /\ PcReads("StageReceived", <<>>)
  /\ co' = [co EXCEPT !.item = "unknown", !.staged = @ + 1]
  /\ pc' = "reconcile"
  /\ UNCHANGED <<outcome, urgent, phoneVars>>

AtBoundary ==
  Reconciling /\ co.item = "unknown" /\ co.work = 0 /\ co.puts = 0 /\ co.gets = 0

Released == IF co.release THEN F("HashRelease") ELSE <<>>

\* Between two frames of the stream an urgent wake puts the round off,
PreemptStream ==
  /\ AtBoundary /\ Streaming /\ urgent
  /\ \E acks \in {<<>>, F("AckBatch")} : Says(Released \o acks \o F("AuditPreempt"))
  /\ co' = [co EXCEPT !.sent = TRUE, !.release = FALSE]
  /\ pc' = "boundary"
  /\ UNCHANGED <<outcome, urgent, phoneVars>>

\* otherwise it asks for the next one (ScanStream::next_with_control).
HashNext ==
  /\ AtBoundary /\ Streaming
  /\ Says(Released \o <<Frame("HashNext", co.seq)>>)
  /\ co' = [co EXCEPT !.release = FALSE]
  /\ pc' = "hashWait"
  /\ UNCHANGED <<outcome, urgent, phoneVars>>

\* After a preemption the frames of the stream are ignored.
IgnoresStream ==
  /\ pc = "hashWait" /\ co.sent
  /\ PcReads("HashChunk", <<>>) \/ PcReads("HashStreamEnd", <<>>)
  /\ UNCHANGED <<pcVars, phoneVars>>

ReadsChunk ==
  /\ pc = "hashWait" /\ ~co.sent /\ Heard("HashChunk") /\ Head(toPc).n = co.seq
  /\ PcReads("HashChunk", <<>>)
  /\ co' = [co EXCEPT !.seq = @ + 1, !.work = Chunks[co.seq + 1], !.release = TRUE]
  /\ pc' = "reconcile"
  /\ UNCHANGED <<outcome, urgent, phoneVars>>

\* The staged files are installed first, then the files put off.
ReadsStreamEnd ==
  /\ pc = "hashWait" /\ ~co.sent /\ Heard("HashStreamEnd") /\ Head(toPc).n = co.seq
  /\ PcReads("HashStreamEnd", <<>>)
  /\ co' = [co EXCEPT !.stream = "ended", !.work = co.later, !.later = 0]
  /\ pc' = IF co.staged > 0 THEN "install" ELSE "reconcile"
  /\ UNCHANGED <<outcome, urgent, phoneVars>>

\* install_remote_stages, one at a time.
InstallStaged ==
  /\ pc = "install"
  /\ Says(<<Frame("InstallStaged", co.confirmed)>>)
  /\ pc' = "confirm"
  /\ UNCHANGED <<co, outcome, urgent, phoneVars>>

ReadsInstalled ==
  /\ pc = "confirm"
  /\ PcReads("Accept", <<>>)
  /\ co' = [co EXCEPT !.confirmed = @ + 1, !.recorded = @ + 1]
  /\ pc' = IF co.confirmed + 1 = co.staged THEN "reconcile" ELSE "install"
  /\ UNCHANGED <<outcome, urgent, phoneVars>>

\* The base is committed; the phone learns the token.
Done ==
  /\ AtBoundary /\ ~Streaming
  /\ \E acks \in {<<>>, F("AckBatch")} : Says(acks \o F("Done"))
  /\ pc' = "dispatch" /\ outcome' = "committed"
  /\ UNCHANGED <<co, urgent, phoneVars>>

\* Any other frame ends the session.
PcExpects ==
  CASE pc = "selected" -> {"Ready"}
    [] pc = "gate" -> {"ScanAlive", "ScanReady", "ScanDeferred"}
    [] pc \in {"gated", "boundary", "barrier"} -> {"ScanDeferred"}
    [] pc = "manifest" -> {"DeltaManifest", "NeedFullScan", "Namespace"}
    [] pc = "hashWait" -> {"ScanAlive", "HashChunk", "HashStreamEnd", "ScanDeferred"}
    [] pc = "stage" -> {"StageReceived"}
    [] pc \in {"confirm", "accepts"} -> {"Accept"}
    [] pc = "blobs" -> IF co.deferring THEN {"ScanDeferred"} ELSE {"Blob", "ScanDeferred"}
    [] OTHER -> {}

PcWaits == pc \notin {"dispatch", "reconcile", "install", "deferred", "error"}

PcMisreads ==
  /\ PcWaits /\ toPc # <<>>
  /\ \/ Head(toPc).type \notin PcExpects
     \/ /\ pc = "hashWait" /\ ~co.sent /\ Head(toPc).n # co.seq
        /\ Head(toPc).type \in {"HashChunk", "HashStreamEnd"}
     \/ pc = "stage" /\ Head(toPc).n # co.staged
  /\ pc' = "error"
  /\ UNCHANGED <<toPhone, toPc, co, outcome, urgent, phoneVars>>

Coordinate ==
  \/ SelectShare \/ BeginScan \/ PcAlive \/ GateReady \/ ReadsDeferral \/ RoundDeferred
  \/ ReadsDelta \/ FallsBack \/ ReadsNamespace
  \/ TakeItem \/ EndBatch \/ ReadsAccept \/ AwaitWindow \/ ReadsBlob \/ ReadsGetDeferral
  \/ Skip \/ SendGet \/ SendPut \/ StagePut \/ ReadsStaged
  \/ PreemptStream \/ HashNext \/ IgnoresStream \/ ReadsChunk \/ ReadsStreamEnd
  \/ InstallStaged \/ ReadsInstalled \/ Done

-----------------------------------------------------------------------------
(* The responder. Its handlers run to completion, but a scan and the wait  *)
(* for the next hashes poll the connection and may be preempted.           *)

\* The round ends without touching the tree, and the session remembers it.
Defers(frames) ==
  /\ phone' = "dispatch" /\ re' = FreshResponder /\ deferredShare' = TRUE
  /\ Answers(frames)

Select ==
  /\ phone = "dispatch"
  /\ PhoneReads("SelectShare", F("Ready"))
  /\ phone' = "loop" /\ re' = FreshResponder
  /\ UNCHANGED <<pcVars, deferredShare>>

\* A preemption that crossed the phone's own deferral.
LatePreempt ==
  /\ phone = "dispatch" /\ deferredShare
  /\ PhoneReads("AuditPreempt", <<>>)
  /\ UNCHANGED <<pcVars, phoneVars>>

EndDeferred ==
  /\ phone = "dispatch"
  /\ PhoneReads("RoundDeferred", <<>>)
  /\ deferredShare' = FALSE
  /\ UNCHANGED <<pcVars, phone, re>>

\* Once a Get was deferred only Gets and the barrier are handled.
Open == phone = "loop" /\ re.deferred = 0

StartScan ==
  /\ Open /\ re.stream = "none" /\ re.stages = 0
  /\ \/ PhoneReads("Scan", <<>>) /\ re' = [re EXCEPT !.delta = FALSE, !.completed = FALSE]
     \/ PhoneReads("DeltaScan", <<>>) /\ re' = [re EXCEPT !.delta = TRUE]
  /\ phone' = "scan"
  /\ UNCHANGED <<pcVars, deferredShare>>

\* One heartbeat at a time is enough here.
PhoneAlive ==
  /\ phone \in {"scan", "hash"} /\ toPc = <<>>
  /\ Answers(F("ScanAlive"))
  /\ UNCHANGED <<pcVars, phoneVars>>

ScanEnds ==
  /\ phone = "scan"
  /\ Answers(F("ScanReady"))
  /\ phone' = "gate"
  /\ UNCHANGED <<pcVars, re, deferredShare>>

\* The scan failed, or the folder changed under it.
ScanDefers ==
  /\ phone \in {"scan", "hash"}
  /\ Defers(F("ScanDeferred"))
  /\ UNCHANGED pcVars

\* A preemption while the phone polls, at the gate, or in the loop while the
\* stream is open, over, or closed by the barrier of a deferred Get.
Preempted ==
  /\ \/ phone \in {"scan", "gate", "hash"}
     \/ phone = "loop" /\ (re.stream # "none" \/ re.completed \/ re.deferred > 0)
  /\ PhoneReads("AuditPreempt", F("ScanDeferred"))
  /\ phone' = "dispatch" /\ re' = FreshResponder /\ deferredShare' = TRUE
  /\ UNCHANGED pcVars

\* ScanContinue: the delta, the demand for a full scan, or the namespace.
GateOpens ==
  /\ phone = "gate"
  /\ IF re.delta
     THEN /\ \/ PhoneReads("ScanContinue", F("DeltaManifest"))
             \/ PhoneReads("ScanContinue", F("NeedFullScan"))
          /\ UNCHANGED re
     ELSE /\ PhoneReads("ScanContinue", F("Namespace"))
          /\ re' = [re EXCEPT !.stream = "named", !.seq = 0]
  /\ phone' = "loop"
  /\ UNCHANGED <<pcVars, deferredShare>>

\* A deferral here has no reply of its own: the first HashNext gets it.
BeginHashes ==
  /\ Open /\ re.stream = "named"
  /\ PhoneReads("HashStreamBegin", <<>>)
  /\ \E stream \in {"hashing", "deferred"} : re' = [re EXCEPT !.stream = stream]
  /\ UNCHANGED <<pcVars, phone, deferredShare>>

Hashing == Open /\ re.stream \in {"hashing", "deferred"}

ReleaseHashes ==
  /\ Hashing
  /\ PhoneReads("HashRelease", <<>>)
  /\ UNCHANGED <<pcVars, phoneVars>>

ReadsNext ==
  /\ Hashing /\ Asked("HashNext") /\ Head(toPhone).n = re.seq
  /\ IF re.stream = "deferred"
     THEN /\ PhoneReads("HashNext", F("ScanDeferred"))
          /\ phone' = "dispatch" /\ re' = FreshResponder /\ deferredShare' = TRUE
     ELSE /\ PhoneReads("HashNext", <<>>)
          /\ phone' = "hash"
          /\ UNCHANGED <<re, deferredShare>>
  /\ UNCHANGED pcVars

SendChunk ==
  /\ phone = "hash" /\ re.seq < Len(Chunks)
  /\ Answers(<<Frame("HashChunk", re.seq)>>)
  /\ re' = [re EXCEPT !.seq = @ + 1]
  /\ phone' = "loop"
  /\ UNCHANGED <<pcVars, deferredShare>>

\* Every file was hashed: commit_scan, then the end of the stream.
EndStream ==
  /\ phone = "hash" /\ re.seq = Len(Chunks)
  /\ Answers(<<Frame("HashStreamEnd", re.seq)>>)
  /\ re' = [re EXCEPT !.stream = "none", !.completed = TRUE]
  /\ phone' = "loop"
  /\ UNCHANGED <<pcVars, deferredShare>>

ReceiveStage ==
  /\ Hashing /\ Asked("StagePut") /\ re.stages < Window /\ Head(toPhone).n = re.stages
  /\ PhoneReads("StagePut", <<Frame("StageReceived", re.stages)>>)
  /\ re' = [re EXCEPT !.stages = @ + 1]
  /\ UNCHANGED <<pcVars, phone, deferredShare>>

Install ==
  /\ Open /\ re.stream = "none" /\ re.completed /\ Asked("InstallStaged")
  /\ re.stages > 0 /\ Head(toPhone).n = re.installed
  /\ PhoneReads("InstallStaged", F("Accept"))
  /\ re' = [re EXCEPT !.stages = @ - 1, !.installed = @ + 1]
  /\ UNCHANGED <<pcVars, phone, deferredShare>>

\* The snapshot of a Get succeeds, or defers: then every later Get of the
\* window is answered the same way.
ServeGet ==
  /\ Open
  /\ PhoneReads("Get", F("Blob"))
  /\ UNCHANGED <<pcVars, phoneVars>>

DeferGet ==
  /\ phone = "loop" /\ re.deferred < Window
  /\ PhoneReads("Get", F("ScanDeferred"))
  /\ re' = [re EXCEPT !.deferred = @ + 1]
  /\ UNCHANGED <<pcVars, phone, deferredShare>>

\* receive_put_batch: files are installed as they come, and confirmed
\* together at its end.
ReadsPut ==
  /\ (Open /\ re.stream = "none") \/ phone = "batch"
  /\ re.batch < Window
  /\ PhoneReads("Put", <<>>)
  /\ re' = [re EXCEPT !.batch = @ + 1, !.installed = @ + 1]
  /\ phone' = "batch"
  /\ UNCHANGED <<pcVars, deferredShare>>

EndsBatch ==
  /\ phone = "batch"
  /\ PhoneReads("PutBatchEnd", [i \in 1 .. re.batch |-> Frame("Accept", 0)])
  /\ re' = [re EXCEPT !.batch = 0]
  /\ phone' = "loop"
  /\ UNCHANGED <<pcVars, deferredShare>>

Acknowledged ==
  /\ Open
  /\ PhoneReads("AckBatch", <<>>)
  /\ UNCHANGED <<pcVars, phoneVars>>

ReadsDone ==
  /\ Open /\ re.stream = "none" /\ re.stages = 0
  /\ PhoneReads("Done", <<>>)
  /\ phone' = "dispatch" /\ re' = FreshResponder
  /\ UNCHANGED <<pcVars, deferredShare>>

Respond ==
  \/ Select \/ LatePreempt \/ EndDeferred \/ StartScan \/ ScanEnds \/ ScanDefers \/ Preempted
  \/ GateOpens \/ BeginHashes \/ ReleaseHashes \/ ReadsNext \/ SendChunk \/ EndStream
  \/ ReceiveStage \/ Install \/ ServeGet \/ DeferGet \/ ReadsPut \/ EndsBatch
  \/ Acknowledged \/ ReadsDone

\* What the handlers above accept, by the frame at the head.
PhoneHandles(f) ==
  \/ phone = "dispatch" /\ f.type \in {"SelectShare", "RoundDeferred"}
  \/ phone = "dispatch" /\ f.type = "AuditPreempt" /\ deferredShare
  \/ phone \in {"scan", "hash"} /\ f.type = "AuditPreempt"
  \/ phone = "gate" /\ f.type \in {"AuditPreempt", "ScanContinue"}
  \/ phone = "batch" /\ f.type = "PutBatchEnd"
  \/ phone = "batch" /\ f.type = "Put" /\ re.batch < Window
  \/ phone = "loop" /\ f.type = "AuditPreempt"
       /\ (re.stream # "none" \/ re.completed \/ re.deferred > 0)
  \/ phone = "loop" /\ f.type = "Get" /\ re.deferred < Window
  \/ Open /\ f.type = "AckBatch"
  \/ Open /\ f.type \in {"Scan", "DeltaScan", "Done"} /\ re.stream = "none" /\ re.stages = 0
  \/ Open /\ f.type = "HashStreamBegin" /\ re.stream = "named"
  \/ Hashing /\ f.type = "HashRelease"
  \/ Hashing /\ f.type = "HashNext" /\ f.n = re.seq
  \/ Hashing /\ f.type = "StagePut" /\ f.n = re.stages /\ re.stages < Window
  \/ Open /\ re.stream = "none" /\ f.type = "Put"
  \/ Open /\ re.stream = "none" /\ re.completed /\ f.type = "InstallStaged"
       /\ re.stages > 0 /\ f.n = re.installed

PhoneMisreads ==
  /\ phone # "error" /\ toPhone # <<>> /\ ~PhoneHandles(Head(toPhone))
  /\ phone' = "error"
  /\ UNCHANGED <<toPhone, toPc, pcVars, re, deferredShare>>

-----------------------------------------------------------------------------
Next ==
  \/ UrgentWake \/ TickPreempts \/ BoundaryPreempts \/ PhoneAlive
  \/ Coordinate \/ Respond
  \/ PcMisreads \/ PhoneMisreads

Spec == Init /\ [][Next]_vars

\* Both sides run; a scan ends, and the wakes and heartbeats need not come.
Fairness == WF_vars(Coordinate) /\ WF_vars(Respond)

FairSpec == Spec /\ Fairness

-----------------------------------------------------------------------------
(* Properties.                                                             *)

\* Neither side ever reads a frame it does not handle: preemptions, the
\* deferrals they cross, the barrier of a deferred Get and the leftovers of
\* a round that was put off never reach a reader that would end the session
\* (receive_scan_gate, finish_deferred_gets, respond_share, managed.rs).
Understood == pc # "error" /\ phone # "error"

\* Between two rounds the phone owes the PC nothing, and every file the PC
\* recorded as received is installed on the phone.
Aligned ==
  /\ pc \in {"dispatch", "deferred"} => toPc = <<>>
  /\ phone = "loop" => co.recorded <= re.installed
  /\ pc = "dispatch" /\ outcome = "committed" /\ phone # "dispatch" =>
       co.recorded = re.installed

\* A round that announced a preemption is put off, never committed.
PreemptionHolds == [][pc' = "dispatch" /\ pc # "dispatch" /\ co.sent => outcome' = "deferred"]_vars

\* Every round that begins ends, whichever side puts it off.
RoundEnds == pc = "selected" ~> pc = "dispatch"

=============================================================================
