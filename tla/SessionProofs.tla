---------------------------- MODULE SessionProofs ----------------------------
(***************************************************************************)
(* Proofs about a session of the computer with its phone: neither side     *)
(* ever reads a frame it does not handle, and no preempted round is        *)
(* committed, for any window, any hashes and any files of the round        *)
(* (Exchange); the permits for hash and file work are neither lost nor     *)
(* doubled, for any set of jobs and any limits (Admission); and two        *)
(* overlapping windows of Gets never hold more than one may, for any files *)
(* (GetOverlap). The inductive invariant of Exchange says, for each place  *)
(* of the coordinator, which frames may be on their way to the phone and   *)
(* from it and what both sides then hold.                                  *)
(***************************************************************************)
EXTENDS Exchange, Integers, TLAPS, FiniteSetTheorems, WellFoundedInduction

\* The work of the rounds, and the permits it waits for (Admission).
CONSTANTS Job, Hashers, Large, Limits
VARIABLES limit, issued, serving, active, step, ticket, asleep

Permits == INSTANCE Admission WITH Hashing <- Hashers

-----------------------------------------------------------------------------
(* The frames on their way to the phone, and to the PC.                    *)

Asks == Len(toPhone)
Ask(i) == toPhone[i].type
AskNo(i) == toPhone[i].n

Tells == Len(toPc)
Tell(i) == toPc[i].type
TellNo(i) == toPc[i].n

\* A frame the phone reads without a reply, where it is in the stream.
Quiet(i) ==
  \/ Ask(i) = "AckBatch"
  \/ Ask(i) = "HashRelease" /\ re.stream = "hashing"
  \/ i = 1 /\ Ask(i) = "HashStreamBegin" /\ re.stream = "named"

\* All frames but the last n are quiet;
Hushed(n) == Asks >= n /\ \A i \in 1 .. Asks - n : Quiet(i)

\* or there are w frames of one kind behind the quiet ones.
Quietly(w, kind, n) ==
  /\ Asks >= w + n
  /\ \A i \in 1 .. Asks - n - w : Quiet(i)
  /\ \A i \in 1 .. Asks - n : i > Asks - n - w => Ask(i) = kind

\* The preemption a tick has sent: still on its way,
OnlyPre ==
  \/ ~co.sent /\ Asks = 0
  \/ co.sent /\ Asks = 1 /\ Ask(1) = "AuditPreempt"

\* or perhaps read.
LatePre ==
  \/ Asks = 0
  \/ co.sent /\ Asks = 1 /\ Ask(1) = "AuditPreempt"

\* The last request of the PC, behind quiet frames and before the preemption.
LastAsk(type, n) ==
  \/ ~co.sent /\ Hushed(1) /\ Ask(Asks) = type /\ AskNo(Asks) = n
  \/ /\ co.sent /\ Hushed(2) /\ Ask(Asks - 1) = type /\ AskNo(Asks - 1) = n
     /\ Ask(Asks) = "AuditPreempt"

\* What the phone has sent last is a deferral, behind frames of the given kinds.
Deferral(kinds) ==
  /\ phone = "dispatch" /\ deferredShare /\ re = FreshResponder
  /\ Tells > 0 /\ Tell(Tells) = "ScanDeferred"
  /\ \A i \in 1 .. Tells - 1 : Tell(i) \in kinds

Says1(type) ==
  Tells > 0 /\ Tell(Tells) = type /\ \A i \in 1 .. Tells - 1 : Tell(i) = "ScanAlive"
Alives == \A i \in 1 .. Tells : Tell(i) = "ScanAlive"

\* The responder in the middle of a round that stages and installs nothing now.
Level == re.stages = co.staged - co.confirmed /\ re.installed = co.recorded

-----------------------------------------------------------------------------
(* Where both sides are, by what the coordinator waits for.                *)

\* The phone has not read the end of the last round yet.
Ending(n) ==
  /\ phone = "loop" /\ ~deferredShare
  /\ re.stream = "none" /\ re.stages = 0 /\ re.deferred = 0 /\ re.batch = 0
  /\ Hushed(n)

Forgetting ==
  phone = "dispatch" /\ deferredShare

AtDispatch ==
  /\ Tells = 0
  /\ \/ phone = "dispatch" /\ Asks = 0 /\ ~deferredShare
     \/ /\ Forgetting /\ outcome = "deferred"
        /\ \/ Asks = 1 /\ Ask(1) = "RoundDeferred"
           \/ Asks = 2 /\ Ask(1) = "AuditPreempt" /\ Ask(2) = "RoundDeferred"
     \/ /\ outcome = "committed" /\ ~co.sent
        /\ Ending(1) /\ Ask(Asks) = "Done" /\ re.installed = co.recorded

\* The share is selected while the phone still reads the end of the last round.
AtSelected ==
  /\ ~co.sent /\ co = FreshCoordinator
  /\ \/ /\ Tells = 0
        /\ \/ phone = "dispatch" /\ Asks = 1 /\ Ask(1) = "SelectShare" /\ ~deferredShare
           \/ /\ Forgetting /\ Asks = 2 /\ Ask(1) = "RoundDeferred" /\ Ask(2) = "SelectShare"
           \/ /\ Forgetting /\ Asks = 3 /\ Ask(1) = "AuditPreempt"
              /\ Ask(2) = "RoundDeferred" /\ Ask(3) = "SelectShare"
           \/ Ending(2) /\ Ask(Asks - 1) = "Done" /\ Ask(Asks) = "SelectShare"
     \/ /\ phone = "loop" /\ re = FreshResponder /\ Asks = 0 /\ ~deferredShare
        /\ Tells = 1 /\ Tell(1) = "Ready"

NoStages == re.stages = 0 /\ re.deferred = 0 /\ re.batch = 0 /\ re.installed = 0 /\ re.seq = 0
Scanning == re.stream = "none" /\ NoStages

AtGate ==
  \/ /\ phone = "loop" /\ Scanning /\ Tells = 0 /\ Ask(1) \in {"Scan", "DeltaScan"}
     /\ \/ ~co.sent /\ Asks = 1
        \/ co.sent /\ Asks = 2 /\ Ask(2) = "AuditPreempt"
  \/ phone = "scan" /\ Scanning /\ OnlyPre /\ Alives
  \/ phone = "gate" /\ Scanning /\ OnlyPre /\ Says1("ScanReady")
  \/ Deferral({"ScanAlive"}) /\ LatePre
  \/ /\ Deferral({"ScanAlive", "ScanReady"}) /\ co.sent /\ Asks = 0
     /\ \A i \in 1 .. Tells - 2 : Tell(i) = "ScanAlive"

AtGated ==
  /\ co.sent
  /\ \/ phone = "gate" /\ Scanning /\ OnlyPre /\ Tells = 0
     \/ Deferral({}) /\ Tells = 1 /\ Asks = 0

AtManifest ==
  /\ NoStages
  /\ \/ phone = "gate" /\ re.stream = "none" /\ Tells = 0 /\ Asks = 1 /\ Ask(1) = "ScanContinue"
     \/ /\ phone = "loop" /\ Asks = 0 /\ Tells = 1
        /\ \/ Tell(1) = "Namespace" /\ re.stream = "named"
           \/ Tell(1) \in {"DeltaManifest", "NeedFullScan"} /\ re.stream = "none"

\* Gets and their replies. A Get that was deferred defers those behind it.
Deferring ==
  IF co.deferring THEN re.deferred > 0 /\ \A i \in 1 .. Tells : Tell(i) = "ScanDeferred"
  ELSE IF re.deferred > 0
  THEN /\ Tells > 0 /\ Tell(Tells) = "ScanDeferred"
       /\ \A i \in 1 .. Tells : Tell(i) \in {"Blob", "ScanDeferred"}
       /\ \A i, j \in 1 .. Tells : i < j /\ Tell(i) = "ScanDeferred" => Tell(j) = "ScanDeferred"
  ELSE \A i \in 1 .. Tells : Tell(i) = "Blob"

Gets ==
  /\ phone = "loop" /\ co.puts = 0 /\ re.batch = 0
  /\ Tells <= co.gets /\ re.deferred + (co.gets - Tells) <= Window
  /\ Deferring
  /\ Quietly(co.gets - Tells, "Get", 0)
  /\ re.deferred > 0 \/ Tells > 0 => Asks = co.gets - Tells

\* Puts, and the end of their batch once it is sent.
Puts(n) ==
  /\ co.gets = 0 /\ re.deferred = 0 /\ Tells = 0 /\ ~co.deferring
  /\ re.batch <= co.puts /\ Quietly(co.puts - re.batch, "Put", n)
  /\ re.installed = co.recorded + re.batch
  /\ \/ phone = "loop" /\ re.batch = 0
     \/ phone = "batch" /\ re.batch > 0 /\ Asks = co.puts - re.batch + n
  /\ co.puts > 0 => co.stream # "open" /\ re.stream = "none"

AtReconcile ==
  /\ ~co.deferring
  /\ re.stages = co.staged - co.confirmed
  /\ \/ Gets /\ re.installed = co.recorded /\ re.deferred <= Tells
     \/ Puts(0)

AtBlobs == co.gets > 0 /\ Gets /\ Level

AtAccepts ==
  /\ co.puts > 0 /\ ~co.deferring /\ re.stages = co.staged - co.confirmed
  /\ \/ Puts(1) /\ Ask(Asks) = "PutBatchEnd"
     \/ /\ co.gets = 0 /\ phone = "loop" /\ re.batch = 0 /\ re.deferred = 0 /\ re.stream = "none"
        /\ Asks = 0 /\ co.stream # "open"
        /\ Tells = co.puts /\ \A i \in 1 .. Tells : Tell(i) = "Accept"
        /\ re.installed = co.recorded + Tells

Idle == co.gets = 0 /\ co.puts = 0 /\ ~co.deferring

AtBarrier ==
  /\ co.gets = 0 /\ co.deferring
  /\ \/ /\ phone = "loop" /\ re.deferred > 0 /\ Tells = 0 /\ re.installed = co.recorded
        /\ Asks = 1 /\ Ask(1) = "AuditPreempt"
     \/ Deferral({}) /\ Tells = 1 /\ Asks = 0

AtStage ==
  /\ Idle /\ co.item = "put" /\ co.stream = "open" /\ co.staged < Window
  /\ phone = "loop" /\ re.deferred = 0 /\ re.batch = 0 /\ re.installed = co.recorded
  /\ \/ /\ Tells = 0 /\ Level
        /\ Hushed(1) /\ Ask(Asks) = "StagePut" /\ AskNo(Asks) = co.staged
     \/ /\ Asks = 0 /\ re.stages = co.staged + 1
        /\ Tells = 1 /\ Tell(1) = "StageReceived" /\ TellNo(1) = co.staged

Served(k) == phone = "loop" /\ re.deferred = 0 /\ re.batch = 0 /\ Level /\ re.seq = co.seq + k

\* The chunk, or the end, answers the request the coordinator still waits for.
Told(type) ==
  \/ Says1(type) /\ TellNo(Tells) = co.seq
  \/ co.sent /\ Tells = 0

AtHashWait ==
  /\ Idle /\ co.stream = "open"
  /\ \/ /\ Served(0) /\ Tells = 0 /\ LastAsk("HashNext", co.seq)
        /\ re.stream \in {"named", "hashing", "deferred"}
     \/ /\ phone = "hash" /\ re.stream = "hashing" /\ re.deferred = 0 /\ re.batch = 0 /\ Level
        /\ re.seq = co.seq /\ OnlyPre /\ Alives
     \/ Served(1) /\ re.stream = "hashing" /\ OnlyPre /\ Told("HashChunk")
     \/ Served(0) /\ re.stream = "none" /\ re.completed /\ OnlyPre /\ Told("HashStreamEnd")
     \/ Deferral({"ScanAlive"}) /\ LatePre
     \/ Deferral({"ScanAlive", "HashChunk", "HashStreamEnd"}) /\ co.sent /\ LatePre

AtPreempted ==
  /\ Idle /\ co.sent /\ co.stream = "open"
  /\ \/ /\ Served(0) /\ Tells = 0 /\ re.stream \in {"named", "hashing", "deferred"}
        /\ Hushed(1) /\ Ask(Asks) = "AuditPreempt"
     \/ Deferral({}) /\ Tells = 1 /\ Asks = 0

\* The staged files are installed one at a time.
Installing ==
  /\ Idle /\ co.stream = "ended" /\ phone = "loop" /\ re.deferred = 0 /\ re.batch = 0
  /\ re.stream = "none" /\ re.completed
  /\ co.confirmed < co.staged /\ co.recorded = co.confirmed

AtInstall == Installing /\ Asks = 0 /\ Tells = 0 /\ Level

AtConfirm ==
  /\ Installing
  /\ \/ /\ Tells = 0 /\ Level /\ Asks = 1
        /\ Ask(1) = "InstallStaged" /\ AskNo(1) = co.confirmed
     \/ /\ Asks = 0 /\ Tells = 1 /\ Tell(1) = "Accept"
        /\ re.stages = co.staged - co.confirmed - 1 /\ re.installed = co.recorded + 1

AtDeferred == Forgetting /\ Tells = 0 /\ LatePre

Conversation ==
  /\ pc = "dispatch" => AtDispatch
  /\ pc = "selected" => AtSelected
  /\ pc = "gate" => AtGate
  /\ pc = "gated" => AtGated
  /\ pc = "manifest" => AtManifest
  /\ pc = "reconcile" => AtReconcile
  /\ pc = "hashWait" => AtHashWait
  /\ pc = "boundary" => AtPreempted
  /\ pc = "stage" => AtStage
  /\ pc = "install" => AtInstall
  /\ pc = "confirm" => AtConfirm
  /\ pc = "accepts" => AtAccepts
  /\ pc = "blobs" => AtBlobs
  /\ pc = "barrier" => AtBarrier
  /\ pc = "deferred" => AtDeferred

\* The streams of the two sides.
Body == {"reconcile", "hashWait", "boundary",
         "stage", "install", "confirm", "accepts", "blobs", "barrier"}

\* A stream the phone has named is begun before anything else is read.
Begun ==
  re.stream = "named" /\ pc # "manifest" => Asks > 0 /\ Ask(1) = "HashStreamBegin"

Streams ==
  /\ co.stream = "open" /\ phone \in {"loop", "hash"} /\ pc \notin {"hashWait", "dispatch", "selected"} =>
       /\ re.stream \in {"named", "hashing", "deferred"} /\ re.seq = co.seq
  /\ co.stream = "open" => co.recorded = 0 /\ co.confirmed = 0
  /\ co.stream = "none" => co.staged = 0
  /\ co.stream # "open" /\ pc \notin {"manifest"} => re.stream = "none"
  /\ re.seq <= Len(Chunks) /\ co.seq <= Len(Chunks)
  /\ co.release => re.stream = "hashing" \/ phone = "dispatch"
  /\ pc \notin {"install", "confirm"} /\ co.stream = "ended" => co.confirmed = co.staged
  /\ co.confirmed <= co.staged
  /\ pc \in Body /\ co.stream # "open" => phone # "hash"

\* The round the coordinator keeps.
Kept ==
  /\ pc \in {"selected", "gate", "gated", "manifest"} => co = [FreshCoordinator EXCEPT !.sent = co.sent]
  /\ pc \in (Body \cup {"manifest"}) \ {"hashWait", "boundary"} => ~co.sent
  /\ pc \in {"hashWait", "boundary"} => ~co.release
  /\ co.item = "put" /\ co.stream = "open" => co.staged < Window
  /\ deferredShare => phone = "dispatch"
  /\ phone = "dispatch" => re = FreshResponder

XInv == TypeOK /\ Understood /\ Conversation /\ Streams /\ Begun /\ Kept

-----------------------------------------------------------------------------
(* Reading and writing frames.                                             *)

Frames == [type : Message, n : Nat]

\* What a reader of the first frame, and a writer of more, leave in a stream.
LEMMA Appended ==
  ASSUME NEW q \in Seq(Frames), NEW frames \in Seq(Frames)
  PROVE  /\ q \o frames \in Seq(Frames)
         /\ Len(q \o frames) = Len(q) + Len(frames)
         /\ Len(q) \in Nat /\ Len(frames) \in Nat
         /\ \A i \in 1 .. Len(q) : (q \o frames)[i] = q[i]
         /\ \A i \in 1 .. Len(frames), j \in Nat : j = Len(q) + i => (q \o frames)[j] = frames[i]
OBVIOUS

LEMMA Taken ==
  ASSUME NEW q \in Seq(Frames), q # <<>>
  PROVE  /\ Tail(q) \in Seq(Frames)
         /\ Len(q) \in Nat /\ Len(q) > 0 /\ Len(Tail(q)) = Len(q) - 1
         /\ Head(q) = q[1] /\ Head(q) \in Frames
         /\ \A i \in 1 .. Len(q) - 1 : Tail(q)[i] = q[i + 1]
OBVIOUS

LEMMA OneFrame ==
  ASSUME NEW type \in Message, NEW n \in Nat
  PROVE  /\ <<Frame(type, n)>> \in Seq(Frames) /\ Len(<<Frame(type, n)>>) = 1
         /\ <<Frame(type, n)>>[1].type = type /\ <<Frame(type, n)>>[1].n = n
         /\ F(type) = <<Frame(type, 0)>>
         /\ <<>> \in Seq(Frames)
BY DEF Frame, Frames, F

\* The two directions of the connection, before and after a step.
Typed == toPhone \in Seq(Frames) /\ toPc \in Seq(Frames)

PhoneTakes ==
  /\ Asks > 0 /\ Asks' = Asks - 1
  /\ \A i \in 1 .. Asks - 1 : Ask(i)' = Ask(i + 1) /\ AskNo(i)' = AskNo(i + 1)

PhoneKeeps == Asks' = Asks /\ \A i \in Nat : Ask(i)' = Ask(i) /\ AskNo(i)' = AskNo(i)

\* One more frame to the phone.
Adds(type, n) ==
  /\ Asks' = Asks + 1
  /\ \A i \in 1 .. Asks : Ask(i)' = Ask(i) /\ AskNo(i)' = AskNo(i)
  /\ \A i \in Nat : i = Asks + 1 => Ask(i)' = type /\ AskNo(i)' = n

PcTakes ==
  /\ Tells > 0 /\ Tells' = Tells - 1
  /\ \A i \in 1 .. Tells - 1 : Tell(i)' = Tell(i + 1) /\ TellNo(i)' = TellNo(i + 1)

PcKeeps == Tells' = Tells /\ \A i \in Nat : Tell(i)' = Tell(i) /\ TellNo(i)' = TellNo(i)

Replies1(type, n) ==
  /\ Tells' = Tells + 1
  /\ \A i \in 1 .. Tells : Tell(i)' = Tell(i) /\ TellNo(i)' = TellNo(i)
  /\ \A i \in Nat : i = Tells + 1 => Tell(i)' = type /\ TellNo(i)' = n

LEMMA StreamsTyped ==
  ASSUME TypeOK
  PROVE  Typed /\ Asks \in Nat /\ Tells \in Nat /\ (toPhone = <<>> <=> Asks = 0)
    /\ (toPc = <<>> <=> Tells = 0)
<1>1. Typed
  BY DEF TypeOK, Typed, Frames
<1>. QED
  BY <1>1 DEF Typed, Asks, Tells

LEMMA HeadOfPhone ==
  ASSUME TypeOK, toPhone # <<>>
  PROVE  Asks > 0 /\ Head(toPhone).type = Ask(1) /\ Head(toPhone).n = AskNo(1)
<1>1. Len(toPhone) \in Nat /\ Len(toPhone) > 0 /\ Head(toPhone) = toPhone[1]
  BY StreamsTyped, Taken DEF Typed
<1>. QED
  BY <1>1 DEF Asks, Ask, AskNo

LEMMA HeadOfPc ==
  ASSUME TypeOK, toPc # <<>>
  PROVE  Tells > 0 /\ Head(toPc).type = Tell(1) /\ Head(toPc).n = TellNo(1)
<1>1. Len(toPc) \in Nat /\ Len(toPc) > 0 /\ Head(toPc) = toPc[1]
  BY StreamsTyped, Taken DEF Typed
<1>. QED
  BY <1>1 DEF Tells, Tell, TellNo

LEMMA TakeEffect ==
  ASSUME TypeOK, toPhone # <<>>, toPhone' = Tail(toPhone)
  PROVE  PhoneTakes /\ toPhone' \in Seq(Frames)
<1>1. Typed
  BY StreamsTyped
<1>2. /\ toPhone' \in Seq(Frames) /\ Len(toPhone) \in Nat
      /\ Len(toPhone) > 0 /\ Len(toPhone') = Len(toPhone) - 1
      /\ \A i \in 1 .. Len(toPhone) - 1 : toPhone'[i] = toPhone[i + 1]
  BY <1>1, Taken DEF Typed
<1>. QED
  BY <1>2 DEF PhoneTakes, Asks, Ask, AskNo

LEMMA PcTakeEffect ==
  ASSUME TypeOK, toPc # <<>>, toPc' = Tail(toPc)
  PROVE  PcTakes /\ toPc' \in Seq(Frames)
<1>1. Typed
  BY StreamsTyped
<1>2. /\ toPc' \in Seq(Frames) /\ Len(toPc) \in Nat
      /\ Len(toPc) > 0 /\ Len(toPc') = Len(toPc) - 1
      /\ \A i \in 1 .. Len(toPc) - 1 : toPc'[i] = toPc[i + 1]
  BY <1>1, Taken DEF Typed
<1>. QED
  BY <1>2 DEF PcTakes, Tells, Tell, TellNo

LEMMA SendNothing ==
  ASSUME TypeOK, toPhone' = toPhone \/ toPhone' = toPhone \o <<>>
  PROVE  PhoneKeeps /\ toPhone' \in Seq(Frames)
<1>1. Typed
  BY StreamsTyped
<1>2. toPhone' = toPhone
  BY <1>1 DEF Typed
<1>. QED
  BY <1>1, <1>2 DEF Typed, PhoneKeeps, Asks, Ask, AskNo

LEMMA AnswerNothing ==
  ASSUME TypeOK, toPc' = toPc \/ toPc' = toPc \o <<>>
  PROVE  PcKeeps /\ toPc' \in Seq(Frames)
<1>1. Typed
  BY StreamsTyped
<1>2. toPc' = toPc
  BY <1>1 DEF Typed
<1>. QED
  BY <1>1, <1>2 DEF Typed, PcKeeps, Tells, Tell, TellNo

LEMMA SendOne ==
  ASSUME TypeOK, NEW type \in Message, NEW n \in Nat, toPhone' = toPhone \o <<Frame(type, n)>>
  PROVE  Adds(type, n) /\ toPhone' \in Seq(Frames)
<1>1. toPhone \in Seq(Frames) /\ <<Frame(type, n)>> \in Seq(Frames)
  BY StreamsTyped, OneFrame DEF Typed
<1>2. /\ toPhone' \in Seq(Frames) /\ Len(toPhone) \in Nat /\ Len(toPhone') = Len(toPhone) + 1
      /\ \A i \in 1 .. Len(toPhone) : toPhone'[i] = toPhone[i]
      /\ \A j \in Nat : j = Len(toPhone) + 1 => toPhone'[j] = <<Frame(type, n)>>[1]
  BY <1>1, Appended, OneFrame
<1>3. \A j \in Nat : j = Len(toPhone) + 1 => toPhone'[j].type = type /\ toPhone'[j].n = n
  BY <1>2, OneFrame
<1>. QED
  BY <1>2, <1>3 DEF Adds, Asks, Ask, AskNo

LEMMA AnswerOne ==
  ASSUME TypeOK, NEW type \in Message, NEW n \in Nat, toPc' = toPc \o <<Frame(type, n)>>
  PROVE  Replies1(type, n) /\ toPc' \in Seq(Frames)
<1>1. toPc \in Seq(Frames) /\ <<Frame(type, n)>> \in Seq(Frames)
  BY StreamsTyped, OneFrame DEF Typed
<1>2. /\ toPc' \in Seq(Frames) /\ Len(toPc) \in Nat /\ Len(toPc') = Len(toPc) + 1
      /\ \A i \in 1 .. Len(toPc) : toPc'[i] = toPc[i]
      /\ \A j \in Nat : j = Len(toPc) + 1 => toPc'[j] = <<Frame(type, n)>>[1]
  BY <1>1, Appended, OneFrame
<1>3. \A j \in Nat : j = Len(toPc) + 1 => toPc'[j].type = type /\ toPc'[j].n = n
  BY <1>2, OneFrame
<1>. QED
  BY <1>2, <1>3 DEF Replies1, Tells, Tell, TellNo

LEMMA PcReadsNone ==
  ASSUME TypeOK, NEW type, PcReads(type, <<>>)
  PROVE  Tell(1) = type /\ PcTakes /\ PhoneKeeps /\ Typed'
<1>1. toPc # <<>> /\ Head(toPc).type = type /\ toPc' = Tail(toPc) /\ toPhone' = toPhone \o <<>>
  BY DEF PcReads, Heard
<1>. QED
  BY <1>1, HeadOfPc, PcTakeEffect, SendNothing DEF Typed

LEMMA PcReadsOne ==
  ASSUME TypeOK, NEW type, NEW kind \in Message, PcReads(type, F(kind))
  PROVE  Tell(1) = type /\ PcTakes /\ Adds(kind, 0) /\ Typed'
<1>1. /\ toPc # <<>> /\ Head(toPc).type = type /\ toPc' = Tail(toPc)
      /\ toPhone' = toPhone \o <<Frame(kind, 0)>>
  BY DEF PcReads, Heard, F
<1>. QED
  BY <1>1, HeadOfPc, PcTakeEffect, SendOne DEF Typed

LEMMA PhoneReadsNone ==
  ASSUME TypeOK, NEW type, PhoneReads(type, <<>>)
  PROVE  Ask(1) = type /\ PhoneTakes /\ PcKeeps /\ Typed'
<1>1. /\ toPhone # <<>> /\ Head(toPhone).type = type /\ toPhone' = Tail(toPhone)
      /\ toPc' = toPc \o <<>>
  BY DEF PhoneReads, Asked
<1>. QED
  BY <1>1, HeadOfPhone, TakeEffect, AnswerNothing DEF Typed

LEMMA PhoneReadsOne ==
  ASSUME TypeOK, NEW type, NEW kind \in Message, NEW n \in Nat, PhoneReads(type,
         <<Frame(kind, n)>>)
  PROVE  Ask(1) = type /\ PhoneTakes /\ Replies1(kind, n) /\ Typed'
<1>1. /\ toPhone # <<>> /\ Head(toPhone).type = type /\ toPhone' = Tail(toPhone)
      /\ toPc' = toPc \o <<Frame(kind, n)>>
  BY DEF PhoneReads, Asked
<1>. QED
  BY <1>1, HeadOfPhone, TakeEffect, AnswerOne DEF Typed

LEMMA SaysNone ==
  ASSUME TypeOK, Says(<<>>)
  PROVE  PhoneKeeps /\ PcKeeps /\ Typed'
BY SendNothing, AnswerNothing DEF Says, Typed

LEMMA SaysOne ==
  ASSUME TypeOK, NEW type \in Message, NEW n \in Nat, Says(<<Frame(type, n)>>)
  PROVE  Adds(type, n) /\ PcKeeps /\ Typed'
BY SendOne, AnswerNothing DEF Says, Typed

LEMMA SaysF ==
  ASSUME TypeOK, NEW type \in Message, Says(F(type))
  PROVE  Adds(type, 0) /\ PcKeeps /\ Typed'
BY SaysOne DEF F

LEMMA AnswersOne ==
  ASSUME TypeOK, NEW type \in Message, NEW n \in Nat, Answers(<<Frame(type, n)>>)
  PROVE  PhoneKeeps /\ Replies1(type, n) /\ Typed'
BY AnswerOne, SendNothing DEF Answers, Typed

\* The numbers of a round.
LEMMA Numbers ==
  ASSUME ExchangeAssumption, TypeOK
  PROVE  /\ Window \in Nat /\ Window > 0 /\ PcOnly \in Nat /\ Len(Chunks) \in Nat
         /\ \A i \in 1 .. Len(Chunks) : Chunks[i] \in Nat
         /\ co.seq \in Nat /\ co.work \in Nat /\ co.later \in Nat /\ co.recorded \in Nat
         /\ co.puts \in 0 .. Window /\ co.gets \in 0 .. Window
         /\ co.staged \in 0 .. Window /\ co.confirmed \in 0 .. Window
         /\ co.sent \in BOOLEAN /\ co.release \in BOOLEAN /\ co.deferring \in BOOLEAN
         /\ co.stream \in {"none", "open", "ended"} /\ co.item \in Item
         /\ re.seq \in Nat /\ re.installed \in Nat
         /\ re.deferred \in 0 .. Window /\ re.stages \in 0 .. Window /\ re.batch \in 0 .. Window
         /\ re.delta \in BOOLEAN /\ re.completed \in BOOLEAN
         /\ re.stream \in {"none", "named", "hashing", "deferred"}
         /\ Asks \in Nat /\ Tells \in Nat
<1>1. /\ Window \in Nat /\ Window > 0 /\ PcOnly \in Nat /\ Len(Chunks) \in Nat
      /\ \A i \in 1 .. Len(Chunks) : Chunks[i] \in Nat
  BY DEF ExchangeAssumption
<1>2. /\ co.seq \in Nat /\ co.work \in Nat /\ co.later \in Nat /\ co.recorded \in Nat
      /\ co.puts \in 0 .. Window /\ co.gets \in 0 .. Window
      /\ co.staged \in 0 .. Window /\ co.confirmed \in 0 .. Window
      /\ co.sent \in BOOLEAN /\ co.release \in BOOLEAN /\ co.deferring \in BOOLEAN
      /\ co.stream \in {"none", "open", "ended"} /\ co.item \in Item
  BY DEF TypeOK, Coordinator
<1>3. /\ re.seq \in Nat /\ re.installed \in Nat
      /\ re.deferred \in 0 .. Window /\ re.stages \in 0 .. Window /\ re.batch \in 0 .. Window
      /\ re.delta \in BOOLEAN /\ re.completed \in BOOLEAN
      /\ re.stream \in {"none", "named", "hashing", "deferred"}
  BY DEF TypeOK, Responder
<1>. QED
  BY <1>1, <1>2, <1>3, StreamsTyped

LEMMA Consts ==
  ASSUME ExchangeAssumption
  PROVE  Len(Chunks) \in Nat /\ Window \in Nat /\ Window > 0
BY DEF ExchangeAssumption

LEMMA FreshOnes ==
  ASSUME ExchangeAssumption
  PROVE  FreshCoordinator \in Coordinator /\ FreshResponder \in Responder
<1>1. Window \in Nat /\ Window > 0
  BY DEF ExchangeAssumption
<1>. QED
  BY <1>1 DEF FreshCoordinator, Coordinator, FreshResponder, Responder, Item

-----------------------------------------------------------------------------
\* The counters of a round, from the whole invariant.
LEMMA Counters ==
  ASSUME ExchangeAssumption, XInv
  PROVE  /\ Asks \in Nat /\ Tells \in Nat /\ Window \in Nat /\ Len(Chunks) \in Nat
         /\ \A i \in 1 .. Len(Chunks) : Chunks[i] \in Nat
         /\ co.gets \in 0 .. Window /\ co.puts \in 0 .. Window
         /\ co.staged \in 0 .. Window /\ co.confirmed \in 0 .. Window
         /\ re.deferred \in 0 .. Window /\ re.batch \in 0 .. Window /\ re.stages \in 0 .. Window
         /\ co.gets \in Nat /\ co.puts \in Nat /\ co.staged \in Nat /\ co.confirmed \in Nat
         /\ co.seq \in Nat /\ co.work \in Nat /\ co.later \in Nat /\ co.recorded \in Nat
         /\ re.batch \in Nat /\ re.deferred \in Nat /\ re.stages \in Nat
         /\ re.seq \in Nat /\ re.installed \in Nat
<1>1. TypeOK
  BY DEF XInv
<1>2. /\ Window \in Nat /\ Asks \in Nat /\ Tells \in Nat /\ Len(Chunks) \in Nat
      /\ \A i \in 1 .. Len(Chunks) : Chunks[i] \in Nat
      /\ co.gets \in 0 .. Window /\ co.puts \in 0 .. Window
      /\ co.staged \in 0 .. Window /\ co.confirmed \in 0 .. Window
      /\ co.seq \in Nat /\ co.work \in Nat /\ co.later \in Nat /\ co.recorded \in Nat
      /\ re.batch \in 0 .. Window /\ re.deferred \in 0 .. Window /\ re.stages \in 0 .. Window
      /\ re.seq \in Nat /\ re.installed \in Nat
  BY <1>1, Numbers
<1>3. \A n \in 0 .. Window : n \in Nat
  BY <1>2
<1>. QED
  BY <1>2, <1>3

-----------------------------------------------------------------------------
\* What the phone may find first in its stream, by where the coordinator is.
QuietFirst == phone = "loop" /\ Ask(1) \in {"AckBatch", "HashRelease", "HashStreamBegin"} /\ Quiet(1)

Heads ==
  /\ pc = "dispatch" =>
       \/ phone = "dispatch" /\ deferredShare /\ Ask(1) \in {"RoundDeferred", "AuditPreempt"}
       \/ QuietFirst
       \/ phone = "loop" /\ Ask(1) = "Done"
  /\ pc = "selected" =>
       \/ phone = "dispatch" /\ ~deferredShare /\ Ask(1) = "SelectShare"
       \/ phone = "dispatch" /\ deferredShare /\ Ask(1) \in {"RoundDeferred", "AuditPreempt"}
       \/ QuietFirst
       \/ phone = "loop" /\ Ask(1) = "Done"
  /\ pc = "gate" =>
       \/ phone = "loop" /\ Ask(1) \in {"Scan", "DeltaScan"}
       \/ phone \in {"scan", "gate"} /\ Ask(1) = "AuditPreempt"
       \/ phone = "dispatch" /\ deferredShare /\ Ask(1) = "AuditPreempt"
  /\ pc = "gated" => phone = "gate" /\ Ask(1) = "AuditPreempt"
  /\ pc = "manifest" => phone = "gate" /\ Ask(1) = "ScanContinue"
  /\ pc = "reconcile" =>
       \/ QuietFirst
       \/ phone = "loop" /\ Ask(1) \in {"Get", "Put"}
       \/ phone = "batch" /\ Ask(1) = "Put"
  /\ pc = "hashWait" =>
       \/ QuietFirst
       \/ phone = "loop" /\ Ask(1) = "HashNext"
       \/ phone = "loop" /\ Ask(1) = "AuditPreempt" /\ (re.stream = "hashing" \/ re.completed)
       \/ phone = "hash" /\ Ask(1) = "AuditPreempt"
       \/ phone = "dispatch" /\ deferredShare /\ Ask(1) = "AuditPreempt"
  /\ pc = "boundary" => QuietFirst \/ (phone = "loop" /\ Ask(1) = "AuditPreempt")
  /\ pc = "stage" => QuietFirst \/ (phone = "loop" /\ Ask(1) = "StagePut")
  /\ pc = "confirm" => phone = "loop" /\ Ask(1) = "InstallStaged"
  /\ pc = "accepts" =>
       \/ QuietFirst
       \/ phone = "loop" /\ Ask(1) = "Put"
       \/ phone = "batch" /\ Ask(1) \in {"Put", "PutBatchEnd"}
  /\ pc = "blobs" => QuietFirst \/ (phone = "loop" /\ Ask(1) = "Get")
  /\ pc = "barrier" => phone = "loop" /\ Ask(1) = "AuditPreempt"
  /\ pc = "deferred" => phone = "dispatch" /\ deferredShare /\ Ask(1) = "AuditPreempt"
  /\ pc # "install"

\* The first frame is quiet, or there is none before those that follow.
LEMMA HushedOrNot ==
  ASSUME Asks \in Nat, Asks > 0, NEW n \in Nat, Hushed(n)
  PROVE  (Quiet(1) /\ Asks > n) \/ Asks = n
BY DEF Hushed

LEMMA QuietOrNot ==
  ASSUME Asks \in Nat, Asks > 0, NEW w \in Int, NEW n \in Nat, NEW kind, w >= 0, Quietly(w,
         kind, n)
  PROVE  \/ Quiet(1) /\ Asks > w + n
         \/ Asks = w + n /\ (w > 0 => Ask(1) = kind)
BY DEF Quietly

LEMMA FirstFrames ==
  ASSUME ExchangeAssumption, XInv, Asks > 0
  PROVE  Heads
<1>0. Asks \in Nat /\ Tells \in Nat
  BY StreamsTyped DEF XInv
<1>1. Quiet(1) /\ phone = "loop" => QuietFirst
  BY DEF Quiet, QuietFirst
<1>2. Conversation
  BY DEF XInv
<1>3. ASSUME pc = "dispatch"
      PROVE  \/ phone = "dispatch" /\ deferredShare /\ Ask(1) \in {"RoundDeferred", "AuditPreempt"}
             \/ QuietFirst
             \/ phone = "loop" /\ Ask(1) = "Done"
  BY <1>0, <1>1, <1>2, <1>3, HushedOrNot DEF Conversation, AtDispatch, Ending, Forgetting
<1>4. ASSUME pc = "selected"
      PROVE  \/ phone = "dispatch" /\ ~deferredShare /\ Ask(1) = "SelectShare"
             \/ phone = "dispatch" /\ deferredShare /\ Ask(1) \in {"RoundDeferred", "AuditPreempt"}
             \/ QuietFirst
             \/ phone = "loop" /\ Ask(1) = "Done"
  BY <1>0, <1>1, <1>2, <1>4, HushedOrNot DEF Conversation, AtSelected, Ending, Forgetting
<1>5. ASSUME pc = "gate"
      PROVE  \/ phone = "loop" /\ Ask(1) \in {"Scan", "DeltaScan"}
             \/ phone \in {"scan", "gate"} /\ Ask(1) = "AuditPreempt"
             \/ phone = "dispatch" /\ deferredShare /\ Ask(1) = "AuditPreempt"
  BY <1>2, <1>5 DEF Conversation, AtGate, OnlyPre, LatePre, Deferral
<1>6. ASSUME pc = "gated" PROVE phone = "gate" /\ Ask(1) = "AuditPreempt"
  BY <1>2, <1>6 DEF Conversation, AtGated, OnlyPre
<1>7. ASSUME pc = "manifest" PROVE phone = "gate" /\ Ask(1) = "ScanContinue"
  BY <1>2, <1>7 DEF Conversation, AtManifest
<1>8. ASSUME pc = "reconcile"
      PROVE  \/ QuietFirst
             \/ phone = "loop" /\ Ask(1) \in {"Get", "Put"}
             \/ phone = "batch" /\ Ask(1) = "Put"
  <2>0. co.gets \in Nat /\ co.puts \in Nat /\ re.batch \in Nat
    BY Numbers DEF XInv
  <2>1. CASE Gets
    <3>1. PICK w \in Int : w = co.gets - Tells
      BY <1>0, <2>0
    <3>2. w >= 0 /\ Quietly(w, "Get", 0) /\ phone = "loop"
      BY <1>0, <2>0, <2>1, <3>1 DEF Gets
    <3>. QED
      BY <1>0, <1>1, <3>2, QuietOrNot
  <2>2. CASE Puts(0)
    <3>1. PICK w \in Int : w = co.puts - re.batch
      BY <2>0
    <3>2. /\ w >= 0 /\ Quietly(w, "Put", 0) /\ phone \in {"loop", "batch"}
          /\ phone = "batch" => Asks = w
      BY <2>0, <2>2, <3>1 DEF Puts
    <3>. QED
      BY <1>0, <1>1, <3>2, QuietOrNot
  <2>. QED
    BY <1>2, <1>8, <2>1, <2>2 DEF Conversation, AtReconcile
<1>9. ASSUME pc = "hashWait"
      PROVE  \/ QuietFirst
             \/ phone = "loop" /\ Ask(1) = "HashNext"
             \/ phone = "loop" /\ Ask(1) = "AuditPreempt" /\ (re.stream = "hashing" \/ re.completed)
             \/ phone = "hash" /\ Ask(1) = "AuditPreempt"
             \/ phone = "dispatch" /\ deferredShare /\ Ask(1) = "AuditPreempt"
  <2>1. ASSUME phone = "loop", LastAsk("HashNext", co.seq)
        PROVE  QuietFirst \/ Ask(1) = "HashNext"
    BY <1>0, <1>1, <2>1, HushedOrNot DEF LastAsk
  <2>. QED
    BY <1>2, <1>9, <2>1 DEF Conversation, AtHashWait, Served, OnlyPre, LatePre, Deferral
<1>10. ASSUME pc = "boundary" PROVE QuietFirst \/ (phone = "loop" /\ Ask(1) = "AuditPreempt")
  <2>1. phone = "loop" /\ Hushed(1) /\ Ask(Asks) = "AuditPreempt"
    BY <1>2, <1>10 DEF Conversation, AtPreempted, Served
  <2>2. Quiet(1) \/ Asks = 1
    BY <1>0, <2>1, HushedOrNot
  <2>. QED
    BY <1>1, <2>1, <2>2
<1>11. ASSUME pc = "stage" PROVE QuietFirst \/ (phone = "loop" /\ Ask(1) = "StagePut")
  <2>1. phone = "loop" /\ Hushed(1) /\ Ask(Asks) = "StagePut"
    BY <1>2, <1>11 DEF Conversation, AtStage
  <2>2. Quiet(1) \/ Asks = 1
    BY <1>0, <2>1, HushedOrNot
  <2>. QED
    BY <1>1, <2>1, <2>2
<1>12. ASSUME pc = "confirm" PROVE phone = "loop" /\ Ask(1) = "InstallStaged"
  BY <1>2, <1>12 DEF Conversation, AtConfirm, Installing
<1>13. ASSUME pc = "accepts"
       PROVE  \/ QuietFirst
              \/ phone = "loop" /\ Ask(1) = "Put"
              \/ phone = "batch" /\ Ask(1) \in {"Put", "PutBatchEnd"}
  <2>0. co.puts \in Nat /\ re.batch \in Nat
    BY Numbers DEF XInv
  <2>1. Puts(1) /\ Ask(Asks) = "PutBatchEnd" /\ co.puts > 0
    BY <1>2, <1>13 DEF Conversation, AtAccepts
  <2>2. PICK w \in Int : w = co.puts - re.batch
    BY <2>0
  <2>3. /\ w >= 0 /\ Quietly(w, "Put", 1) /\ phone \in {"loop", "batch"}
        /\ phone = "batch" => Asks = w + 1
        /\ phone = "loop" => w > 0
    BY <2>0, <2>1, <2>2 DEF Puts
  <2>. QED
    BY <1>0, <1>1, <2>1, <2>3, QuietOrNot
<1>14. ASSUME pc = "blobs" PROVE QuietFirst \/ (phone = "loop" /\ Ask(1) = "Get")
  <2>0. co.gets \in Nat
    BY Numbers DEF XInv
  <2>1. PICK w \in Int : w = co.gets - Tells
    BY <1>0, <2>0
  <2>2. w >= 0 /\ Quietly(w, "Get", 0) /\ phone = "loop"
    BY <1>0, <1>2, <1>14, <2>0, <2>1 DEF Conversation, AtBlobs, Gets
  <2>3. Quiet(1) \/ Ask(1) = "Get"
    BY <1>0, <2>2, QuietOrNot
  <2>. QED
    BY <1>1, <2>2, <2>3
<1>15. ASSUME pc = "barrier" PROVE phone = "loop" /\ Ask(1) = "AuditPreempt"
  BY <1>2, <1>15 DEF Conversation, AtBarrier
<1>16. ASSUME pc = "deferred"
       PROVE phone = "dispatch" /\ deferredShare /\ Ask(1) = "AuditPreempt"
  BY <1>2, <1>16 DEF Conversation, AtDeferred, LatePre, Forgetting
<1>17. pc # "install"
  BY <1>2 DEF Conversation, AtInstall
<1>. QED
  BY <1>3, <1>4, <1>5, <1>6, <1>7, <1>8, <1>9, <1>10, <1>11, <1>12, <1>13, <1>14, <1>15,
    <1>16, <1>17
     DEF Heads

-----------------------------------------------------------------------------
(* The steps of the coordinator.                                           *)

PhoneSame == phone' = phone /\ re' = re /\ deferredShare' = deferredShare

\* What holds of the phone's side where the PC alone moves.
LEMMA TypeStep ==
  ASSUME TypeOK, Typed', urgent' \in BOOLEAN,
         pc' \in {"dispatch", "selected", "gate", "gated", "manifest", "reconcile", "hashWait",
                  "boundary", "stage", "install", "confirm", "accepts", "blobs", "barrier", "deferred"},
         co' \in Coordinator, outcome' \in {"none", "committed", "deferred"}, PhoneSame
  PROVE  TypeOK'
BY DEF TypeOK, Typed, Frames, PhoneSame

LEMMA SelectShareKeeps ==
  ASSUME ExchangeAssumption, XInv, SelectShare
  PROVE  XInv'
<1>0. Asks \in Nat /\ Tells \in Nat
  BY Counters
<1>. USE DEF XInv
<1>1. PcKeeps /\ Adds("SelectShare", 0) /\ Typed'
  BY SaysF DEF SelectShare, Message
<1>2. /\ pc = "dispatch" /\ pc' = "selected" /\ co' = FreshCoordinator
      /\ outcome' = "none" /\ urgent' = FALSE /\ PhoneSame
  BY DEF SelectShare, phoneVars, PhoneSame
<1>3. AtSelected'
  <2>1. Tells = 0 /\ Tells' = 0
    BY <1>1, <1>2 DEF Conversation, AtDispatch, PcKeeps
  <2>2. CASE phone = "dispatch"
    BY <1>0, <1>1, <1>2, <2>1, <2>2
    DEF Conversation, AtDispatch, AtSelected, Forgetting, Ending, Adds, PhoneSame,
      FreshCoordinator
  <2>3. CASE phone # "dispatch"
    <3>1. Ending(1) /\ Ask(Asks) = "Done"
      BY <1>2, <2>3 DEF Conversation, AtDispatch, Forgetting
    <3>2. Asks' = Asks + 1 /\ Ask(Asks)' = "SelectShare" /\ Ask(Asks - 1)' = "Done"
      BY <1>0, <1>1, <3>1 DEF Adds, Ending, Hushed
    <3>3. Hushed(2)'
      BY <1>0, <1>1, <1>2, <3>1 DEF Adds, Ending, Hushed, Quiet, PhoneSame
    <3>. QED
      BY <1>2, <2>1, <3>1, <3>2, <3>3 DEF AtSelected, Ending, PhoneSame, FreshCoordinator
  <2>. QED
    BY <2>2, <2>3
<1>4. TypeOK'
  BY <1>1, <1>2, TypeStep, FreshOnes
<1>5. Streams'
  BY <1>2, Numbers
  DEF Conversation, AtDispatch, Ending, Forgetting, Streams, PhoneSame, FreshCoordinator,
    FreshResponder, Kept, Body
<1>6. Begun'
  BY <1>0, <1>1, <1>2 DEF Begun, Adds, PhoneSame
<1>7. Kept'
  BY <1>2 DEF Kept, Body, PhoneSame, FreshCoordinator
<1>. QED
  BY <1>2, <1>3, <1>4, <1>5, <1>6, <1>7 DEF Conversation, Understood, PhoneSame

LEMMA FreshFields ==
  ASSUME Kept, pc \in {"selected", "gate", "gated", "manifest"}
  PROVE  /\ co.stream = "none" /\ co.seq = 0 /\ co.release = FALSE /\ co.work = 0 /\ co.later = 0
         /\ co.item = "unknown" /\ co.puts = 0 /\ co.gets = 0 /\ co.staged = 0 /\ co.confirmed = 0
         /\ co.deferring = FALSE /\ co.recorded = 0
         /\ co = [FreshCoordinator EXCEPT !.sent = co.sent]
BY DEF Kept, FreshCoordinator

LEMMA BeginScanKeeps ==
  ASSUME ExchangeAssumption, XInv, BeginScan
  PROVE  XInv'
<1>0. Asks \in Nat /\ Tells \in Nat
  BY Counters
<1>. USE DEF XInv
<1>1. PICK scan \in {"DeltaScan", "Scan"} : PcReads("Ready", F(scan))
  BY DEF BeginScan
<1>2. Tell(1) = "Ready" /\ PcTakes /\ Adds(scan, 0) /\ Typed'
  BY <1>1, PcReadsOne DEF Message
<1>3. pc = "selected" /\ pc' = "gate" /\ co' = co /\ outcome' = outcome /\ urgent' = urgent /\ PhoneSame
  BY DEF BeginScan, phoneVars, PhoneSame
<1>4. /\ ~co.sent /\ phone = "loop" /\ re = FreshResponder /\ Asks = 0 /\ ~deferredShare
      /\ Tells = 1
  BY <1>2, <1>3 DEF Conversation, AtSelected, PcTakes
<1>5. AtGate'
  BY <1>0, <1>2, <1>3, <1>4
  DEF AtGate, Adds, PcTakes, PhoneSame, Scanning, NoStages, FreshResponder
<1>6. TypeOK'
  BY <1>2, <1>3, TypeStep DEF TypeOK
<1>7. Streams' /\ Begun' /\ Kept'
  BY <1>3, <1>4, FreshFields DEF Streams, Begun, Kept, Body, PhoneSame, FreshResponder
<1>. QED
  BY <1>3, <1>5, <1>6, <1>7 DEF Conversation, Understood, PhoneSame

LEMMA TickPreemptsKeeps ==
  ASSUME ExchangeAssumption, XInv, TickPreempts
  PROVE  XInv'
<1>0. Asks \in Nat /\ Tells \in Nat
  BY Counters
<1>. USE DEF XInv
<1>1. Adds("AuditPreempt", 0) /\ PcKeeps /\ Typed'
  BY SaysF DEF TickPreempts, Message
<1>2. /\ pc \in {"gate", "hashWait"} /\ pc' = pc /\ ~co.sent /\ outcome' = outcome
      /\ urgent' = urgent /\ PhoneSame
  BY DEF TickPreempts, phoneVars, PhoneSame
<1>3. /\ co' = [co EXCEPT !.sent = TRUE] /\ co' \in Coordinator /\ co'.sent /\ co'.stream = co.stream
      /\ co'.seq = co.seq /\ co'.release = co.release /\ co'.item = co.item /\ co'.puts = co.puts
      /\ co'.gets = co.gets /\ co'.staged = co.staged /\ co'.confirmed = co.confirmed
      /\ co'.deferring = co.deferring /\ co'.recorded = co.recorded
  BY DEF TickPreempts, TypeOK, Coordinator
<1>4. ASSUME pc = "gate" PROVE AtGate'
  <2>1. AtGate
    BY <1>4 DEF Conversation
  <2>. QED
    BY <1>0, <1>1, <1>2, <1>3, <2>1
       DEF AtGate, Adds, PcKeeps, PhoneSame, Scanning, NoStages, OnlyPre, LatePre, Alives,
         Says1, Deferral
<1>5. ASSUME pc = "hashWait" PROVE AtHashWait'
  <2>1. AtHashWait
    BY <1>5 DEF Conversation
  <2>2. CASE /\ Served(0) /\ Tells = 0 /\ LastAsk("HashNext", co.seq)
             /\ re.stream \in {"named", "hashing", "deferred"}
    <3>1. LastAsk("HashNext", co.seq)'
      BY <1>0, <1>1, <1>2, <1>3, <2>2 DEF LastAsk, Adds, Hushed, Quiet, PhoneSame
    <3>. QED
      BY <1>1, <1>2, <1>3, <2>1, <2>2, <3>1
      DEF AtHashWait, Served, Level, PhoneSame, PcKeeps, Idle
  <2>3. CASE ~(/\ Served(0) /\ Tells = 0 /\ LastAsk("HashNext", co.seq)
               /\ re.stream \in {"named", "hashing", "deferred"})
    BY <1>0, <1>1, <1>2, <1>3, <2>1, <2>3
       DEF AtHashWait, Idle, Served, Level, Told, Adds, PcKeeps, PhoneSame, OnlyPre,
         LatePre, Alives, Says1, Deferral
  <2>. QED
    BY <2>2, <2>3
<1>6. TypeOK'
  BY <1>1, <1>2, <1>3, TypeStep DEF TypeOK
<1>7. Streams' /\ Kept'
  BY <1>2, <1>3, FreshFields DEF Streams, Kept, Body, PhoneSame
<1>8. Begun'
  BY <1>0, <1>1, <1>2, <1>3 DEF Begun, PhoneSame, Adds
<1>. QED
  BY <1>2, <1>4, <1>5, <1>6, <1>7, <1>8 DEF Conversation, Understood, PhoneSame

LEMMA PcAliveKeeps ==
  ASSUME ExchangeAssumption, XInv, PcAlive
  PROVE  XInv'
<1>0. Asks \in Nat /\ Tells \in Nat
  BY Counters
<1>. USE DEF XInv
<1>1. Tell(1) = "ScanAlive" /\ PcTakes /\ PhoneKeeps /\ Typed'
  BY PcReadsNone DEF PcAlive
<1>2. /\ pc \in {"gate", "hashWait"} /\ pc' = pc /\ co' = co /\ outcome' = outcome
      /\ urgent' = urgent /\ PhoneSame
  BY DEF PcAlive, pcVars, phoneVars, PhoneSame
<1>3. \A kinds : Deferral(kinds) => Deferral(kinds)'
  BY <1>0, <1>1, <1>2 DEF Deferral, PcTakes, PhoneSame
<1>4. ASSUME pc = "gate" PROVE AtGate'
  <2>1. AtGate /\ Tells > 0
    BY <1>1, <1>4 DEF Conversation, PcTakes
  <2>. QED
    BY <1>0, <1>1, <1>2, <1>3, <2>1
       DEF AtGate, PhoneKeeps, PcTakes, PhoneSame, Scanning, NoStages, OnlyPre, LatePre,
         Alives, Says1
<1>5. ASSUME pc = "hashWait" PROVE AtHashWait'
  <2>1. AtHashWait /\ Tells > 0
    BY <1>1, <1>5 DEF Conversation, PcTakes
  <2>2. Told("HashChunk") => Told("HashChunk")'
    BY <1>0, <1>1, <1>2, <2>1 DEF Told, Says1, PcTakes
  <2>3. Told("HashStreamEnd") => Told("HashStreamEnd")'
    BY <1>0, <1>1, <1>2, <2>1 DEF Told, Says1, PcTakes
  <2>. QED
    BY <1>0, <1>1, <1>2, <1>3, <2>1, <2>2, <2>3
       DEF AtHashWait, Idle, Served, Level, PcTakes, PhoneKeeps, PhoneSame, OnlyPre,
         LatePre, Alives
<1>6. TypeOK'
  BY <1>1, <1>2, TypeStep DEF TypeOK
<1>7. Streams' /\ Begun' /\ Kept'
  BY <1>1, <1>2 DEF Streams, Begun, Kept, Body, PhoneSame, PhoneKeeps
<1>. QED
  BY <1>2, <1>4, <1>5, <1>6, <1>7 DEF Conversation, Understood, PhoneSame

LEMMA GateReadyKeeps ==
  ASSUME ExchangeAssumption, XInv, GateReady
  PROVE  XInv'
<1>0. Asks \in Nat /\ Tells \in Nat
  BY Counters
<1>. USE DEF XInv
<1>. DEFINE preempts == co.sent \/ urgent
<1>1. /\ pc = "gate" /\ outcome' = outcome /\ urgent' = urgent /\ PhoneSame
      /\ co' = [co EXCEPT !.sent = preempts]
      /\ pc' = IF preempts THEN "gated" ELSE "manifest"
  BY DEF GateReady, phoneVars, PhoneSame
<1>2. /\ Tell(1) = "ScanReady" /\ PcTakes /\ Typed'
      /\ ~preempts => Adds("ScanContinue", 0)
      /\ preempts /\ co.sent => PhoneKeeps
      /\ preempts /\ ~co.sent => Adds("AuditPreempt", 0)
  <2>1. CASE ~preempts
    BY <2>1, PcReadsOne DEF GateReady, Message
  <2>2. CASE co.sent
    BY <2>2, PcReadsNone DEF GateReady
  <2>3. CASE preempts /\ ~co.sent
    BY <2>3, PcReadsOne DEF GateReady, Message
  <2>. QED
    BY <2>1, <2>2, <2>3
<1>3. /\ co' \in Coordinator /\ co'.sent = preempts /\ co' = [FreshCoordinator EXCEPT !.sent = co'.sent]
      /\ co'.stream = "none" /\ co'.staged = 0 /\ co'.seq = 0 /\ ~co'.release /\ co'.confirmed = 0
      /\ co'.item = "unknown"
  <2>1. preempts \in BOOLEAN /\ co \in Coordinator
    BY DEF TypeOK, Coordinator
  <2>. QED
    BY <1>1, <2>1, FreshFields DEF Coordinator, FreshCoordinator
<1>4. \/ phone = "gate" /\ Scanning /\ OnlyPre /\ Tells = 1
      \/ /\ phone = "dispatch" /\ deferredShare /\ re = FreshResponder /\ co.sent /\ Asks = 0
         /\ Tells = 2 /\ Tell(2) = "ScanDeferred"
  <2>1. AtGate /\ Tells > 0
    BY <1>1, <1>2 DEF Conversation, PcTakes
  <2>. QED
    BY <1>0, <1>2, <2>1 DEF AtGate, Alives, Says1, Deferral
<1>5. ASSUME preempts PROVE Conversation'
  <2>1. CASE phone = "gate"
    <3>1. Scanning /\ OnlyPre /\ Tells' = 0
      BY <1>0, <1>2, <1>4, <2>1 DEF PcTakes
    <3>2. Asks' = 1 /\ Ask(1)' = "AuditPreempt"
      BY <1>0, <1>2, <1>5, <3>1 DEF OnlyPre, Adds, PhoneKeeps
    <3>. QED
      BY <1>1, <1>3, <1>5, <2>1, <3>1, <3>2
      DEF Conversation, AtGated, OnlyPre, PhoneSame, Scanning, NoStages
  <2>2. CASE phone # "gate"
    <3>1. /\ Tells' = 1 /\ Tell(1)' = "ScanDeferred" /\ Asks' = 0
          /\ phone' = "dispatch" /\ deferredShare' /\ re' = FreshResponder
      BY <1>0, <1>1, <1>2, <1>4, <1>5, <2>2 DEF PcTakes, PhoneKeeps, PhoneSame
    <3>2. Deferral({})'
      BY <3>1 DEF Deferral
    <3>3. AtGated'
      BY <1>3, <1>5, <3>1, <3>2 DEF AtGated
    <3>. QED
      BY <1>1, <1>5, <3>3 DEF Conversation
  <2>. QED
    BY <2>1, <2>2
<1>6. ASSUME ~preempts PROVE Conversation'
  <2>1. AtManifest'
    BY <1>0, <1>1, <1>2, <1>3, <1>4, <1>6
       DEF AtManifest, Adds, PcTakes, PhoneSame, Scanning, NoStages, OnlyPre
  <2>. QED
    BY <1>1, <1>6, <2>1 DEF Conversation
<1>7. TypeOK'
  BY <1>1, <1>2, <1>3, TypeStep DEF TypeOK
<1>8. Streams' /\ Begun' /\ Kept'
  <2>1. re'.stream = "none" /\ re'.seq = re.seq /\ re' = re
    BY <1>1, <1>4 DEF PhoneSame, Scanning, FreshResponder
  <2>2. pc' \in {"gated", "manifest"} /\ (pc' = "manifest" => ~co'.sent)
    BY <1>1, <1>3
  <2>3. Streams'
    BY <1>3, <2>1, <2>2, Consts DEF Streams, Body
  <2>4. Kept'
    BY <1>1, <1>3, <2>1, <2>2 DEF Kept, Body, PhoneSame
  <2>. QED
    BY <2>1, <2>3, <2>4 DEF Begun
<1>. QED
  BY <1>1, <1>5, <1>6, <1>7, <1>8 DEF Conversation, Understood, PhoneSame

LEMMA ReadsDeferralKeeps ==
  ASSUME ExchangeAssumption, XInv, ReadsDeferral
  PROVE  XInv'
<1>0. Asks \in Nat /\ Tells \in Nat
  BY Counters
<1>. USE DEF XInv
<1>1. Tell(1) = "ScanDeferred" /\ PcTakes /\ PhoneKeeps /\ Typed'
  BY PcReadsNone DEF ReadsDeferral
<1>2. /\ pc \in {"gate", "gated", "hashWait", "boundary", "barrier"} /\ pc' = "deferred"
      /\ co' = co /\ outcome' = outcome /\ urgent' = urgent /\ PhoneSame
  BY DEF ReadsDeferral, phoneVars, PhoneSame
<1>3. Tells > 0 /\ Tells' = Tells - 1
  BY <1>1 DEF PcTakes
<1>4. Forgetting /\ Tells = 1 /\ LatePre /\ re = FreshResponder
  <2>1. CASE pc = "gate"
    BY <1>0, <1>1, <1>3, <2>1
    DEF Conversation, AtGate, Alives, Says1, Deferral, Forgetting, LatePre
  <2>2. CASE pc = "hashWait"
    BY <1>0, <1>1, <1>3, <2>2
       DEF Conversation, AtHashWait, Alives, Told, Says1, Deferral, Forgetting, LatePre
  <2>3. CASE pc \in {"gated", "boundary", "barrier"}
    BY <1>0, <1>1, <1>3, <2>3
       DEF Conversation, AtGated, AtPreempted, AtBarrier, Deferral, Forgetting, LatePre
  <2>. QED
    BY <1>2, <2>1, <2>2, <2>3
<1>5. AtDeferred'
  BY <1>0, <1>1, <1>2, <1>3, <1>4 DEF AtDeferred, Forgetting, LatePre, PhoneKeeps, PhoneSame
<1>6. TypeOK'
  BY <1>1, <1>2, TypeStep DEF TypeOK
<1>7. Streams' /\ Begun' /\ Kept'
  BY <1>1, <1>2, <1>4
  DEF Streams, Begun, Kept, Body, PhoneSame, PhoneKeeps, Forgetting, FreshResponder
<1>. QED
  BY <1>2, <1>5, <1>6, <1>7 DEF Conversation, Understood, PhoneSame

LEMMA RoundDeferredKeeps ==
  ASSUME ExchangeAssumption, XInv, RoundDeferred
  PROVE  XInv'
<1>0. Asks \in Nat /\ Tells \in Nat
  BY Counters
<1>. USE DEF XInv
<1>1. Adds("RoundDeferred", 0) /\ PcKeeps /\ Typed'
  BY SaysF DEF RoundDeferred, Message
<1>2. /\ pc = "deferred" /\ pc' = "dispatch" /\ outcome' = "deferred" /\ co' = co
      /\ urgent' = urgent /\ PhoneSame
  BY DEF RoundDeferred, phoneVars, PhoneSame
<1>3. AtDispatch'
  BY <1>0, <1>1, <1>2
  DEF Conversation, AtDeferred, AtDispatch, Forgetting, LatePre, Adds, PcKeeps, PhoneSame
<1>4. TypeOK'
  BY <1>1, <1>2, TypeStep DEF TypeOK
<1>5. re.stream = "none"
  BY <1>2 DEF Conversation, AtDeferred, Forgetting, Kept, FreshResponder
<1>6. Streams' /\ Begun' /\ Kept'
  BY <1>2, <1>5 DEF Streams, Begun, Kept, Body, PhoneSame
<1>. QED
  BY <1>2, <1>3, <1>4, <1>6 DEF Conversation, Understood, PhoneSame

LEMMA ReadsDeltaKeeps ==
  ASSUME ExchangeAssumption, XInv, ReadsDelta
  PROVE  XInv'
<1>0. Asks \in Nat /\ Tells \in Nat
  BY Counters
<1>. USE DEF XInv
<1>1. Tell(1) = "DeltaManifest" /\ PcTakes /\ PhoneKeeps /\ Typed'
  BY PcReadsNone DEF ReadsDelta
<1>2. /\ pc = "manifest" /\ pc' = "reconcile" /\ outcome' = outcome /\ urgent' = urgent /\ PhoneSame
  BY DEF ReadsDelta, phoneVars, PhoneSame
<1>3. PICK files \in 0 .. Window + 1 : co' = [co EXCEPT !.work = files]
  BY DEF ReadsDelta
<1>4. /\ co.gets = 0 /\ co.puts = 0 /\ ~co.deferring /\ co.staged = 0 /\ co.confirmed = 0
      /\ co.recorded = 0 /\ co.stream = "none" /\ ~co.release /\ co.item = "unknown" /\ co.seq = 0
      /\ ~co.sent
  BY <1>2, FreshFields DEF Kept, Body
<1>5. /\ co' \in Coordinator /\ co'.gets = 0 /\ co'.puts = 0 /\ ~co'.deferring /\ co'.staged = 0
      /\ co'.confirmed = 0 /\ co'.recorded = 0 /\ co'.stream = "none" /\ ~co'.release
      /\ co'.item = "unknown" /\ co'.seq = 0 /\ ~co'.sent
  <2>1. files \in Nat
    BY Consts
  <2>. QED
    BY <1>3, <1>4, <2>1 DEF TypeOK, Coordinator
<1>6. Tells > 0 /\ Tells' = Tells - 1
  BY <1>1 DEF PcTakes
<1>7. phone = "loop" /\ NoStages /\ Asks = 0 /\ Tells = 1 /\ re.stream = "none"
  BY <1>1, <1>2, <1>6 DEF Conversation, AtManifest
<1>8. AtReconcile'
  <2>1. Asks' = 0 /\ Tells' = 0
    BY <1>1, <1>6, <1>7 DEF PhoneKeeps
  <2>. QED
    BY <1>2, <1>5, <1>7, <2>1, Consts
    DEF AtReconcile, Gets, Quietly, Deferring, PhoneSame, NoStages
<1>9. TypeOK'
  BY <1>1, <1>2, <1>5, TypeStep DEF TypeOK
<1>10. Streams' /\ Begun' /\ Kept'
  BY <1>2, <1>5, <1>7, Consts DEF Streams, Begun, Kept, Body, PhoneSame, NoStages
<1>. QED
  BY <1>2, <1>8, <1>9, <1>10 DEF Conversation, Understood, PhoneSame

LEMMA FallsBackKeeps ==
  ASSUME ExchangeAssumption, XInv, FallsBack
  PROVE  XInv'
<1>0. Asks \in Nat /\ Tells \in Nat
  BY Counters
<1>. USE DEF XInv
<1>1. Tell(1) \in {"NeedFullScan", "DeltaManifest"} /\ PcTakes /\ Adds("Scan", 0) /\ Typed'
  BY PcReadsOne DEF FallsBack, Message
<1>2. /\ pc = "manifest" /\ pc' = "gate" /\ co' = co /\ outcome' = outcome /\ urgent' = urgent
      /\ PhoneSame
  BY DEF FallsBack, phoneVars, PhoneSame
<1>3. Tells > 0 /\ Tells' = Tells - 1
  BY <1>1 DEF PcTakes
<1>4. phone = "loop" /\ NoStages /\ Asks = 0 /\ Tells = 1 /\ re.stream = "none" /\ ~co.sent
  BY <1>1, <1>2, <1>3 DEF Conversation, AtManifest, Kept, Body
<1>5. AtGate'
  BY <1>0, <1>1, <1>2, <1>3, <1>4 DEF AtGate, Adds, PhoneSame, Scanning, NoStages
<1>6. TypeOK'
  BY <1>1, <1>2, TypeStep DEF TypeOK
<1>7. Streams' /\ Begun' /\ Kept'
  BY <1>2, <1>4 DEF Streams, Begun, Kept, Body, PhoneSame
<1>. QED
  BY <1>2, <1>5, <1>6, <1>7 DEF Conversation, Understood, PhoneSame

LEMMA ReadsNamespaceKeeps ==
  ASSUME ExchangeAssumption, XInv, ReadsNamespace
  PROVE  XInv'
<1>0. Asks \in Nat /\ Tells \in Nat
  BY Counters
<1>. USE DEF XInv
<1>1. Tell(1) = "Namespace" /\ PcTakes /\ Adds("HashStreamBegin", 0) /\ Typed'
  BY PcReadsOne DEF ReadsNamespace, Message
<1>2. /\ pc = "manifest" /\ pc' = "reconcile" /\ outcome' = outcome /\ urgent' = urgent /\ PhoneSame
      /\ co' = [co EXCEPT !.stream = "open", !.work = PcOnly]
  BY DEF ReadsNamespace, phoneVars, PhoneSame
<1>4. /\ co.gets = 0 /\ co.puts = 0 /\ ~co.deferring /\ co.staged = 0 /\ co.confirmed = 0
      /\ co.recorded = 0 /\ ~co.release /\ co.item = "unknown" /\ co.seq = 0 /\ ~co.sent
  BY <1>2, FreshFields DEF Kept, Body
<1>5. /\ co' \in Coordinator /\ co'.gets = 0 /\ co'.puts = 0 /\ ~co'.deferring /\ co'.staged = 0
      /\ co'.confirmed = 0 /\ co'.recorded = 0 /\ co'.stream = "open" /\ ~co'.release
      /\ co'.item = "unknown" /\ co'.seq = 0 /\ ~co'.sent
  BY <1>2, <1>4 DEF TypeOK, Coordinator, ExchangeAssumption
<1>6. Tells > 0 /\ Tells' = Tells - 1
  BY <1>1 DEF PcTakes
<1>7. phone = "loop" /\ NoStages /\ Asks = 0 /\ Tells = 1 /\ re.stream = "named"
  BY <1>1, <1>2, <1>6 DEF Conversation, AtManifest
<1>8. Tells' = 0 /\ Asks' = 1 /\ Ask(1)' = "HashStreamBegin"
  BY <1>1, <1>6, <1>7 DEF Adds
<1>9. AtReconcile'
  <2>1. \A i \in 1 .. 1 : Quiet(i)'
    BY <1>2, <1>7, <1>8 DEF Quiet, PhoneSame
  <2>. QED
    BY <1>2, <1>5, <1>7, <1>8, <2>1, Consts
    DEF AtReconcile, Gets, Quietly, Deferring, PhoneSame, NoStages
<1>10. TypeOK'
  BY <1>1, <1>2, <1>5, TypeStep DEF TypeOK
<1>11. Streams' /\ Begun' /\ Kept'
  BY <1>2, <1>5, <1>7, <1>8, Consts DEF Streams, Begun, Kept, Body, PhoneSame, NoStages
<1>. QED
  BY <1>2, <1>9, <1>10, <1>11 DEF Conversation, Understood, PhoneSame

-----------------------------------------------------------------------------
\* What a coordinator that reconciles finds, whichever window is open.

Resting ==
  /\ Idle /\ phone = "loop" /\ re.batch = 0 /\ re.deferred = 0 /\ Tells = 0 /\ Level /\ Hushed(0)

LEMMA Rests ==
  ASSUME Asks \in Nat, Tells \in Nat, re.deferred \in Nat, re.batch \in Nat,
         co.recorded \in Nat,
         AtReconcile, co.gets = 0, co.puts = 0
  PROVE  Resting
<1>1. CASE Gets /\ re.installed = co.recorded /\ re.deferred <= Tells
  <2>1. Tells = 0 /\ re.deferred = 0 /\ Quietly(0, "Get", 0)
    BY <1>1 DEF Gets
  <2>. QED
    BY <1>1, <2>1 DEF AtReconcile, Gets, Resting, Idle, Level, Hushed, Quietly
<1>2. CASE Puts(0)
  <2>1. re.batch = 0 /\ phone = "loop" /\ Quietly(0, "Put", 0) /\ re.installed = co.recorded
    BY <1>2 DEF Puts
  <2>2. Hushed(0)
    BY <2>1 DEF Hushed, Quietly
  <2>. QED
    BY <1>2, <2>1, <2>2 DEF AtReconcile, Puts, Resting, Idle, Level
<1>. QED
  BY <1>1, <1>2 DEF AtReconcile

LEMMA RestReconciles ==
  ASSUME Asks' \in Nat, Window \in Nat, Resting'
  PROVE  AtReconcile'
<1>1. PICK asks \in Nat : Asks' = asks
  OBVIOUS
<1>2. Hushed(0)'
  BY DEF Resting
<1>3. Quietly(0, "Get", 0)'
  BY <1>1, <1>2 DEF Hushed, Quietly
<1>. QED
  BY <1>1, <1>3 DEF AtReconcile, Gets, Resting, Idle, Level, Deferring

LEMMA GetsOrRests ==
  ASSUME Asks \in Nat, Tells \in Nat, re.deferred \in Nat, re.batch \in Nat, co.gets \in Nat,
         co.recorded \in Nat, Window \in Nat, AtReconcile, co.puts = 0
  PROVE  Gets /\ Level /\ re.deferred <= Tells
<1>1. CASE Gets /\ re.installed = co.recorded /\ re.deferred <= Tells
  BY <1>1 DEF AtReconcile, Level
<1>2. CASE Puts(0)
  <2>1. Resting /\ co.gets = 0
    BY <1>2, Rests DEF Puts
  <2>2. Quietly(0, "Get", 0)
    BY <2>1 DEF Resting, Hushed, Quietly
  <2>. QED
    BY <2>1, <2>2 DEF Gets, Resting, Idle, Deferring, AtReconcile
<1>. QED
  BY <1>1, <1>2 DEF AtReconcile

LEMMA PutsOrRests ==
  ASSUME Asks \in Nat, Tells \in Nat, re.deferred \in Nat, re.batch \in Nat,
         co.recorded \in Nat, AtReconcile, co.gets = 0, co.puts \in Nat
  PROVE  Puts(0)
<1>1. CASE Gets /\ re.installed = co.recorded /\ re.deferred <= Tells
  <2>1. Resting /\ co.puts = 0
    BY <1>1, Rests DEF Gets
  <2>2. Quietly(0, "Put", 0)
    BY <2>1 DEF Resting, Hushed, Quietly
  <2>. QED
    BY <2>1, <2>2 DEF Puts, Resting, Idle, Level
<1>. QED
  BY <1>1 DEF AtReconcile

\* One more frame behind those of a window.
LEMMA QuietKept ==
  ASSUME NEW i \in Nat, Quiet(i), re' = re, Ask(i)' = Ask(i)
  PROVE  Quiet(i)'
BY DEF Quiet

LEMMA QuietlySame ==
  ASSUME Asks \in Nat, NEW w \in Nat, NEW n \in Nat, NEW kind, Quietly(w, kind, n),
         PhoneKeeps, re' = re
  PROVE  Quietly(w, kind, n)'
<1>1. \A i \in 1 .. Asks - n - w : i \in Nat /\ Quiet(i)'
  BY QuietKept DEF Quietly, PhoneKeeps
<1>. QED
  BY <1>1 DEF Quietly, PhoneKeeps

LEMMA QuietlyMore ==
  ASSUME Asks \in Nat, NEW w \in Nat, NEW kind, NEW n, Quietly(w, kind, 0), Adds(kind, n),
         re' = re
  PROVE  Quietly(w + 1, kind, 0)'
<1>1. \A i \in 1 .. Asks - w : i \in Nat /\ Quiet(i)'
  BY QuietKept DEF Quietly, Adds
<1>. QED
  BY <1>1 DEF Quietly, Adds

LEMMA QuietlyEnds ==
  ASSUME Asks \in Nat, NEW w \in Nat, NEW kind, NEW type, NEW n, Quietly(w, kind, 0),
         Adds(type, n), re' = re
  PROVE  Quietly(w, kind, 1)'
<1>1. \A i \in 1 .. Asks - w : i \in Nat /\ Quiet(i)'
  BY QuietKept DEF Quietly, Adds
<1>. QED
  BY <1>1 DEF Quietly, Adds

LEMMA HushedMore ==
  ASSUME Asks \in Nat, Hushed(0), NEW type, NEW n, Adds(type, n), re' = re
  PROVE  Hushed(1)' /\ Ask(Asks)' = type /\ AskNo(Asks)' = n /\ (type = "AckBatch" => Hushed(0)')
<1>1. \A i \in 1 .. Asks : i \in Nat /\ Quiet(i)'
  BY QuietKept DEF Hushed, Adds
<1>2. Hushed(1)' /\ Ask(Asks)' = type /\ AskNo(Asks)' = n
  BY <1>1 DEF Hushed, Adds
<1>3. ASSUME type = "AckBatch" PROVE Hushed(0)'
  BY <1>1, <1>3 DEF Hushed, Adds, Quiet
<1>. QED
  BY <1>2, <1>3

\* The window is as it was.
CoordinatorSame ==
  /\ co'.gets = co.gets /\ co'.puts = co.puts /\ co'.deferring = co.deferring /\ co'.sent = co.sent
  /\ co'.stream = co.stream /\ co'.seq = co.seq /\ co'.release = co.release
  /\ co'.staged = co.staged /\ co'.confirmed = co.confirmed /\ co'.recorded = co.recorded

LEMMA GetsSame ==
  ASSUME Asks \in Nat, Tells \in Nat, co.gets \in Nat, Gets, PhoneSame, PcKeeps, PhoneKeeps,
         CoordinatorSame
  PROVE  Gets'
<1>1. PICK w \in Int : w = co.gets - Tells
  OBVIOUS
<1>2. w >= 0 /\ Quietly(w, "Get", 0)
  BY <1>1 DEF Gets
<1>3. Quietly(w, "Get", 0)'
  BY <1>2, QuietlySame DEF PhoneSame
<1>4. Deferring'
  BY DEF Gets, Deferring, PcKeeps, PhoneSame, CoordinatorSame
<1>. QED
  BY <1>1, <1>3, <1>4 DEF Gets, PhoneSame, PcKeeps, PhoneKeeps, CoordinatorSame

LEMMA PutsSame ==
  ASSUME Asks \in Nat, Tells \in Nat, co.puts \in Nat, re.batch \in Nat, NEW n \in Nat,
         Puts(n),
         PhoneSame, PcKeeps, PhoneKeeps, CoordinatorSame
  PROVE  Puts(n)'
<1>1. PICK w \in Int : w = co.puts - re.batch
  OBVIOUS
<1>2. w >= 0 /\ Quietly(w, "Put", n)
  BY <1>1 DEF Puts
<1>3. Quietly(w, "Put", n)'
  BY <1>2, QuietlySame DEF PhoneSame
<1>. QED
  BY <1>1, <1>3 DEF Puts, PhoneSame, PcKeeps, PhoneKeeps, CoordinatorSame

LEMMA ReconcileSame ==
  ASSUME Asks \in Nat, Tells \in Nat, co.gets \in Nat, co.puts \in Nat, re.batch \in Nat,
         AtReconcile,
         PhoneSame, PcKeeps, PhoneKeeps, CoordinatorSame
  PROVE  AtReconcile'
<1>1. Gets => Gets'
  BY GetsSame
<1>2. Puts(0) => Puts(0)'
  BY PutsSame
<1>. QED
  BY <1>1, <1>2 DEF AtReconcile, CoordinatorSame, PhoneSame, PcKeeps

\* Nothing the two sides count changes where only frames are added.
LEMMA StreamsSame ==
  ASSUME Streams, PhoneSame, CoordinatorSame, pc \in Body \ {"hashWait", "install",
         "confirm"}, pc' \in Body
  PROVE  Streams'
BY DEF Streams, Body, PhoneSame, CoordinatorSame

LEMMA BegunSame ==
  ASSUME Begun, PhoneSame, pc # "manifest", Asks \in Nat,
         PhoneKeeps \/ \E type, n : Adds(type, n)
  PROVE  Begun'
BY DEF Begun, PhoneSame, PhoneKeeps, Adds

LEMMA Unmoved ==
  ASSUME XInv, UNCHANGED <<toPhone, toPc, pc, co, outcome, phone, re, deferredShare>>,
         urgent' \in BOOLEAN
  PROVE  XInv'
<1>. USE
DEF Asks, Ask, AskNo, Tells, Tell, TellNo, Quiet, Hushed, Quietly, OnlyPre, LatePre,
  LastAsk,
             Deferral, Says1, Alives, Level
<1>1. TypeOK' /\ Understood' /\ Streams' /\ Begun' /\ Kept'
  BY DEF XInv, TypeOK, Understood, Streams, Begun, Kept
<1>2. AtDispatch' = AtDispatch /\ AtSelected' = AtSelected
  BY DEF AtDispatch, AtSelected, Ending, Forgetting
<1>3. AtGate' = AtGate /\ AtGated' = AtGated /\ AtManifest' = AtManifest
  BY DEF AtGate, AtGated, AtManifest, NoStages, Scanning
<1>4. AtReconcile' = AtReconcile /\ AtBlobs' = AtBlobs /\ AtAccepts' = AtAccepts
  BY DEF AtReconcile, AtBlobs, AtAccepts, Gets, Puts, Deferring
<1>5. AtHashWait' = AtHashWait /\ AtPreempted' = AtPreempted /\ AtStage' = AtStage
  BY DEF AtHashWait, AtPreempted, AtStage, Served, Told, Idle
<1>6. AtInstall' = AtInstall /\ AtConfirm' = AtConfirm /\ AtBarrier' = AtBarrier
        /\ AtDeferred' = AtDeferred
  BY DEF AtInstall, AtConfirm, AtBarrier, AtDeferred, Installing, Idle, Forgetting
<1>. QED
  BY <1>1, <1>2, <1>3, <1>4, <1>5, <1>6 DEF XInv, Conversation

LEMMA UrgentWakeKeeps ==
  ASSUME XInv, UrgentWake
  PROVE  XInv'
BY Unmoved DEF UrgentWake, phoneVars

LEMMA TakeItemKeeps ==
  ASSUME ExchangeAssumption, XInv, TakeItem
  PROVE  XInv'
<1>0. /\ Asks \in Nat /\ Tells \in Nat /\ co.gets \in Nat /\ co.puts \in Nat /\ re.batch \in Nat
      /\ co.work \in Nat /\ Window \in Nat /\ co.staged \in Nat
  BY Counters
<1>. USE DEF XInv
<1>1. /\ pc = "reconcile" /\ pc' = pc /\ outcome' = outcome /\ urgent' = urgent /\ PhoneSame
      /\ toPhone' = toPhone /\ toPc' = toPc /\ co.work > 0
  BY DEF TakeItem, phoneVars, PhoneSame, Reconciling
<1>2. PICK item \in Item \ {"unknown"} :
        /\ item = "put" /\ Streaming => co.staged < Window
        /\ co' = [co EXCEPT !.item = item, !.work = @ - 1]
  BY DEF TakeItem
<1>3. PhoneKeeps /\ PcKeeps /\ Typed'
  BY <1>1, SendNothing, AnswerNothing DEF Typed
<1>4. co' \in Coordinator /\ CoordinatorSame /\ co'.item = item
  <2>1. co.work - 1 \in Nat
    BY <1>0, <1>1
  <2>. QED
    BY <1>2, <2>1 DEF TypeOK, Coordinator, CoordinatorSame
<1>5. AtReconcile'
  BY <1>0, <1>1, <1>3, <1>4, ReconcileSame DEF Conversation
<1>6. TypeOK'
  BY <1>1, <1>3, <1>4, TypeStep DEF TypeOK
<1>7. Streams' /\ Begun'
  BY <1>0, <1>1, <1>3, <1>4, StreamsSame, BegunSame DEF Body
<1>8. Kept'
  BY <1>1, <1>2, <1>4 DEF Kept, Body, PhoneSame, CoordinatorSame, Streaming
<1>. QED
  BY <1>1, <1>5, <1>6, <1>7, <1>8 DEF Conversation, Understood, PhoneSame

LEMMA BoundaryPreemptsKeeps ==
  ASSUME ExchangeAssumption, XInv, BoundaryPreempts
  PROVE  XInv'
<1>0. Asks \in Nat /\ Tells \in Nat /\ co.gets \in Nat /\ co.puts \in Nat /\ re.batch \in Nat
  BY Counters
<1>. USE DEF XInv
<1>1. /\ pc = "reconcile" /\ pc' = pc /\ outcome' = outcome /\ urgent' = urgent /\ PhoneSame
      /\ toPhone' = toPhone /\ toPc' = toPc /\ co' = [co EXCEPT !.work = 0]
  BY DEF BoundaryPreempts, phoneVars, PhoneSame, Reconciling
<1>2. PhoneKeeps /\ PcKeeps /\ Typed'
  BY <1>1, SendNothing, AnswerNothing DEF Typed
<1>3. co' \in Coordinator /\ CoordinatorSame /\ co'.item = co.item
  BY <1>1 DEF TypeOK, Coordinator, CoordinatorSame
<1>4. AtReconcile'
  BY <1>0, <1>1, <1>2, <1>3, ReconcileSame DEF Conversation
<1>5. TypeOK'
  BY <1>1, <1>2, <1>3, TypeStep DEF TypeOK
<1>6. Streams' /\ Begun'
  BY <1>0, <1>1, <1>2, <1>3, StreamsSame, BegunSame DEF Body
<1>7. Kept'
  BY <1>1, <1>3 DEF Kept, Body, PhoneSame, CoordinatorSame
<1>. QED
  BY <1>1, <1>4, <1>5, <1>6, <1>7 DEF Conversation, Understood, PhoneSame

LEMMA EndBatchKeeps ==
  ASSUME ExchangeAssumption, XInv, EndBatch
  PROVE  XInv'
<1>0. Asks \in Nat /\ Tells \in Nat /\ co.gets \in Nat /\ co.puts \in Nat /\ re.batch \in Nat
  BY Counters
<1>. USE DEF XInv
<1>1. /\ pc = "reconcile" /\ pc' = "accepts" /\ co' = co /\ outcome' = outcome /\ urgent' = urgent
      /\ PhoneSame /\ co.puts > 0
  BY DEF EndBatch, MustDrainPuts, phoneVars, PhoneSame, Reconciling
<1>2. Adds("PutBatchEnd", 0) /\ PcKeeps /\ Typed'
  BY SaysF DEF EndBatch, Message
<1>3. Puts(0) /\ AtReconcile
  BY <1>0, <1>1 DEF Conversation, AtReconcile, Gets
<1>4. Puts(1)' /\ Ask(Asks)' = "PutBatchEnd"
  <2>1. PICK w \in Int : w = co.puts - re.batch
    BY <1>0
  <2>2. w >= 0 /\ Quietly(w, "Put", 0)
    BY <1>0, <1>3, <2>1 DEF Puts
  <2>3. Quietly(w, "Put", 1)'
    BY <1>0, <1>1, <1>2, <2>2, QuietlyEnds DEF PhoneSame
  <2>4. Asks' = Asks + 1 /\ Ask(Asks)' = "PutBatchEnd" /\ Tells' = Tells
    BY <1>0, <1>2 DEF Adds, PcKeeps
  <2>. QED
    BY <1>0, <1>1, <1>3, <2>1, <2>3, <2>4 DEF Puts, PhoneSame
<1>5. AtAccepts'
  BY <1>1, <1>3, <1>4 DEF AtAccepts, AtReconcile, PhoneSame
<1>6. TypeOK'
  BY <1>1, <1>2, TypeStep DEF TypeOK
<1>7. Streams' /\ Begun'
  BY <1>0, <1>1, <1>2, StreamsSame, BegunSame DEF Body, CoordinatorSame
<1>8. Kept'
  BY <1>1 DEF Kept, Body, PhoneSame
<1>. QED
  BY <1>1, <1>5, <1>6, <1>7, <1>8 DEF Conversation, Understood, PhoneSame

LEMMA ReadsAcceptKeeps ==
  ASSUME ExchangeAssumption, XInv, ReadsAccept
  PROVE  XInv'
<1>0. /\ Asks \in Nat /\ Tells \in Nat /\ co.gets \in Nat /\ co.puts \in 0 .. Window /\ re.batch \in Nat
      /\ co.recorded \in Nat /\ Window \in Nat
  BY Counters
<1>. USE DEF XInv
<1>1. /\ pc = "accepts" /\ outcome' = outcome /\ urgent' = urgent /\ PhoneSame
      /\ pc' = IF co.puts = 1 THEN "reconcile" ELSE "accepts"
      /\ co' = [co EXCEPT !.puts = @ - 1, !.recorded = @ + 1]
  BY DEF ReadsAccept, phoneVars, PhoneSame
<1>2. Tell(1) = "Accept" /\ PcTakes /\ PhoneKeeps /\ Typed'
  BY PcReadsNone DEF ReadsAccept
<1>3. Tells > 0 /\ Tells' = Tells - 1 /\ Asks' = Asks
  BY <1>2 DEF PcTakes, PhoneKeeps
<1>4. /\ co.puts > 0 /\ ~co.deferring /\ re.stages = co.staged - co.confirmed
      /\ co.gets = 0 /\ phone = "loop" /\ re.batch = 0 /\ re.deferred = 0 /\ re.stream = "none"
      /\ Asks = 0 /\ co.stream # "open" /\ Tells = co.puts /\ \A i \in 1 .. Tells : Tell(i) = "Accept"
      /\ re.installed = co.recorded + Tells
  BY <1>1, <1>3 DEF Conversation, AtAccepts, Puts
<1>5. /\ co' \in Coordinator /\ co'.puts = co.puts - 1 /\ co'.recorded = co.recorded + 1
      /\ co'.deferring = co.deferring /\ co'.gets = co.gets /\ co'.staged = co.staged /\ co'.seq = co.seq
      /\ co'.confirmed = co.confirmed /\ co'.stream = co.stream /\ co'.sent = co.sent
      /\ co'.release = co.release /\ co'.item = co.item
  <2>1. co.puts - 1 \in 0 .. Window /\ co.recorded + 1 \in Nat
    BY <1>0, <1>4
  <2>. QED
    BY <1>1, <2>1 DEF TypeOK, Coordinator
<1>6. ASSUME co.puts = 1 PROVE AtReconcile'
  <2>1. Tells' = 0 /\ Asks' = 0
    BY <1>3, <1>4, <1>6
  <2>2. Hushed(0)'
    BY <2>1 DEF Hushed
  <2>3. Resting'
    BY <1>0, <1>1, <1>4, <1>5, <1>6, <2>1, <2>2 DEF Resting, Idle, Level, PhoneSame
  <2>. QED
    BY <1>0, <2>1, <2>3, RestReconciles
<1>7. ASSUME co.puts # 1 PROVE AtAccepts'
  <2>1. Tells' = co'.puts /\ \A i \in 1 .. Tells' : Tell(i)' = "Accept"
    BY <1>0, <1>2, <1>3, <1>4, <1>5 DEF PcTakes
  <2>. QED
    BY <1>0, <1>1, <1>3, <1>4, <1>5, <1>7, <2>1 DEF AtAccepts, PhoneSame
<1>8. TypeOK'
  BY <1>1, <1>2, <1>5, TypeStep DEF TypeOK
<1>9. Streams'
  BY <1>1, <1>4, <1>5 DEF Streams, Body, PhoneSame
<1>10. Begun' /\ Kept'
  BY <1>0, <1>1, <1>2, <1>4, <1>5, BegunSame DEF Kept, Body, PhoneSame
<1>. QED
  BY <1>1, <1>6, <1>7, <1>8, <1>9, <1>10 DEF Conversation, Understood, PhoneSame

LEMMA AwaitWindowKeeps ==
  ASSUME ExchangeAssumption, XInv, AwaitWindow
  PROVE  XInv'
<1>0. /\ Asks \in Nat /\ Tells \in Nat /\ co.gets \in Nat /\ co.puts \in Nat /\ re.batch \in Nat
      /\ co.recorded \in Nat /\ Window \in Nat /\ re.deferred \in Nat
  BY Counters
<1>. USE DEF XInv
<1>1. /\ pc = "reconcile" /\ pc' = "blobs" /\ co' = co /\ outcome' = outcome /\ urgent' = urgent
      /\ PhoneSame /\ toPhone' = toPhone /\ toPc' = toPc /\ co.gets > 0
  BY DEF AwaitWindow, MustDrainGets, phoneVars, PhoneSame, Reconciling
<1>2. PhoneKeeps /\ PcKeeps /\ Typed'
  BY <1>1, SendNothing, AnswerNothing DEF Typed
<1>3. Gets /\ Level
  BY <1>0, <1>1 DEF Conversation, AtReconcile, Puts, Level
<1>4. Gets' /\ Level'
  BY <1>0, <1>1, <1>2, <1>3, GetsSame DEF CoordinatorSame, Level, PhoneSame
<1>5. AtBlobs'
  BY <1>1, <1>4 DEF AtBlobs
<1>6. TypeOK'
  BY <1>1, <1>2, TypeStep DEF TypeOK
<1>7. Streams' /\ Begun'
  BY <1>0, <1>1, <1>2, StreamsSame, BegunSame DEF Body, CoordinatorSame
<1>8. Kept'
  BY <1>1 DEF Kept, Body, PhoneSame
<1>. QED
  BY <1>1, <1>5, <1>6, <1>7, <1>8 DEF Conversation, Understood, PhoneSame

\* The window after a reply was read.
LEMMA BlobsFields ==
  ASSUME ExchangeAssumption, XInv, pc = "blobs", co.gets > 0,
         NEW deferring \in BOOLEAN, co' = [co EXCEPT !.gets = @ - 1, !.deferring = deferring]
  PROVE  /\ co' \in Coordinator /\ co'.gets = co.gets - 1 /\ co'.deferring = deferring
         /\ co'.puts = co.puts /\ co'.sent = co.sent /\ co'.stream = co.stream /\ co'.seq = co.seq
         /\ co'.release = co.release /\ co'.item = co.item
         /\ co'.staged = co.staged /\ co'.confirmed = co.confirmed /\ co'.recorded = co.recorded
<1>1. co.gets \in 0 .. Window /\ Window \in Nat
  BY Numbers DEF XInv
<1>2. co.gets - 1 \in 0 .. Window
  BY <1>1
<1>. QED
  BY <1>2 DEF XInv, TypeOK, Coordinator

LEMMA ReadsBlobKeeps ==
  ASSUME ExchangeAssumption, XInv, ReadsBlob
  PROVE  XInv'
<1>0. /\ Asks \in Nat /\ Tells \in Nat /\ co.gets \in 0 .. Window /\ co.puts \in Nat /\ re.batch \in Nat
      /\ co.recorded \in Nat /\ Window \in Nat /\ re.deferred \in Nat
  BY Counters
<1>. USE DEF XInv
<1>1. /\ pc = "blobs" /\ outcome' = outcome /\ urgent' = urgent /\ PhoneSame /\ ~co.deferring
      /\ pc' = (IF co.gets > 1 THEN "blobs" ELSE "reconcile")
      /\ co' = [co EXCEPT !.gets = @ - 1]
  BY DEF ReadsBlob, phoneVars, PhoneSame, WindowEnd
<1>2. /\ Tell(1) = "Blob" /\ PcTakes /\ Typed'
      /\ PhoneKeeps \/ (co.gets = 1 /\ Adds("AckBatch", 0))
  BY PcReadsNone, PcReadsOne DEF ReadsBlob, Message
<1>3. Tells > 0 /\ Tells' = Tells - 1
  BY <1>2 DEF PcTakes
<1>4. co.gets > 0 /\ Gets /\ Level
  BY <1>1 DEF Conversation, AtBlobs
<1>5. /\ co' \in Coordinator /\ co'.gets = co.gets - 1 /\ ~co'.deferring
      /\ co'.puts = co.puts /\ co'.sent = co.sent /\ co'.stream = co.stream /\ co'.seq = co.seq
      /\ co'.release = co.release /\ co'.item = co.item
      /\ co'.staged = co.staged /\ co'.confirmed = co.confirmed /\ co'.recorded = co.recorded
  <2>1. co.deferring = FALSE /\ co' = [co EXCEPT !.gets = @ - 1, !.deferring = FALSE]
    BY <1>1 DEF TypeOK, Coordinator
  <2>. QED
    BY <1>1, <1>4, <2>1, BlobsFields
<1>6. Deferring'
  BY <1>0, <1>1, <1>2, <1>3, <1>4, <1>5 DEF Gets, Deferring, PcTakes, PhoneSame
<1>7. PICK w \in Int : w = co.gets - Tells
  BY <1>0
<1>8. w >= 0 /\ Quietly(w, "Get", 0) /\ (re.deferred > 0 \/ Tells > 0 => Asks = w)
  BY <1>0, <1>4, <1>7 DEF Gets
<1>9. ASSUME co.gets > 1 PROVE AtBlobs'
  <2>1. PhoneKeeps
    BY <1>2, <1>9
  <2>2. Quietly(w, "Get", 0)' /\ Asks' = Asks
    BY <1>0, <1>1, <1>8, <2>1, QuietlySame DEF PhoneSame, PhoneKeeps
  <2>3. Gets'
    BY <1>0, <1>1, <1>3, <1>4, <1>5, <1>6, <1>7, <1>8, <2>2 DEF Gets, PhoneSame
  <2>. QED
    BY <1>0, <1>1, <1>4, <1>5, <1>9, <2>3 DEF AtBlobs, Level, PhoneSame
<1>10. ASSUME co.gets = 1 PROVE AtReconcile'
  <2>1. Tells = 1 /\ Tells' = 0 /\ Asks = 0 /\ re.deferred = 0
    BY <1>0, <1>1, <1>2, <1>3, <1>4, <1>8, <1>7, <1>10 DEF Gets, Deferring
  <2>2. Asks' \in Nat /\ Hushed(0)'
    BY <1>2, <2>1 DEF Hushed, PhoneKeeps, Adds, Quiet
  <2>3. Resting'
    BY <1>0, <1>1, <1>4, <1>5, <1>10, <2>1, <2>2 DEF Resting, Idle, Level, Gets, PhoneSame
  <2>. QED
    BY <1>0, <2>2, <2>3, RestReconciles
<1>11. TypeOK'
  BY <1>1, <1>2, <1>5, TypeStep DEF TypeOK
<1>12. Streams'
  BY <1>1, <1>5 DEF Streams, Body, PhoneSame
<1>13. Begun' /\ Kept'
  BY <1>0, <1>1, <1>2, <1>5, BegunSame DEF Kept, Body, PhoneSame
<1>. QED
  BY <1>0, <1>1, <1>4, <1>9, <1>10, <1>11, <1>12, <1>13
  DEF Conversation, Understood, PhoneSame

LEMMA ReadsGetDeferralKeeps ==
  ASSUME ExchangeAssumption, XInv, ReadsGetDeferral
  PROVE  XInv'
<1>0. /\ Asks \in Nat /\ Tells \in Nat /\ co.gets \in 0 .. Window /\ co.puts \in Nat /\ re.batch \in Nat
      /\ co.recorded \in Nat /\ Window \in Nat /\ re.deferred \in Nat
  BY Counters
<1>. USE DEF XInv
<1>1. /\ pc = "blobs" /\ outcome' = outcome /\ urgent' = urgent /\ PhoneSame
      /\ pc' = (IF co.gets > 1 THEN "blobs" ELSE "barrier")
      /\ co' = [co EXCEPT !.gets = @ - 1, !.deferring = TRUE]
  BY DEF ReadsGetDeferral, phoneVars, PhoneSame, WindowEnd
<1>2. /\ Tell(1) = "ScanDeferred" /\ PcTakes /\ Typed'
      /\ co.gets # 1 => PhoneKeeps
      /\ co.gets = 1 => Adds("AuditPreempt", 0)
  <2>1. CASE co.gets = 1
    BY <2>1, PcReadsOne DEF ReadsGetDeferral, Message
  <2>2. CASE co.gets # 1
    BY <2>2, PcReadsNone DEF ReadsGetDeferral
  <2>. QED
    BY <2>1, <2>2
<1>3. Tells > 0 /\ Tells' = Tells - 1
  BY <1>2 DEF PcTakes
<1>4. co.gets > 0 /\ Gets /\ Level
  BY <1>1 DEF Conversation, AtBlobs
<1>5. /\ co' \in Coordinator /\ co'.gets = co.gets - 1 /\ co'.deferring
      /\ co'.puts = co.puts /\ co'.sent = co.sent /\ co'.stream = co.stream /\ co'.seq = co.seq
      /\ co'.release = co.release /\ co'.item = co.item
      /\ co'.staged = co.staged /\ co'.confirmed = co.confirmed /\ co'.recorded = co.recorded
  BY <1>1, <1>4, BlobsFields
<1>6. re.deferred > 0 /\ \A i \in 1 .. Tells : Tell(i) = "ScanDeferred"
  BY <1>0, <1>2, <1>3, <1>4 DEF Gets, Deferring
<1>7. \A i \in 1 .. Tells' : Tell(i)' = "ScanDeferred"
  BY <1>0, <1>2, <1>3, <1>6 DEF PcTakes
<1>8. PICK w \in Int : w = co.gets - Tells
  BY <1>0
<1>9. w >= 0 /\ Quietly(w, "Get", 0) /\ Asks = w
  BY <1>0, <1>4, <1>6, <1>8 DEF Gets
<1>10. ASSUME co.gets > 1 PROVE AtBlobs'
  <2>1. PhoneKeeps
    BY <1>0, <1>2, <1>10
  <2>2. Quietly(w, "Get", 0)' /\ Asks' = Asks
    BY <1>0, <1>1, <1>9, <2>1, QuietlySame DEF PhoneSame, PhoneKeeps
  <2>3. Deferring'
    BY <1>1, <1>5, <1>6, <1>7 DEF Deferring, PhoneSame
  <2>4. Gets'
    BY <1>0, <1>1, <1>3, <1>4, <1>5, <1>8, <1>9, <2>2, <2>3 DEF Gets, PhoneSame
  <2>. QED
    BY <1>0, <1>1, <1>4, <1>5, <1>10, <2>4 DEF AtBlobs, Level, PhoneSame
<1>11. ASSUME co.gets = 1 PROVE AtBarrier'
  <2>1. Tells = 1 /\ Tells' = 0 /\ Asks = 0
    BY <1>0, <1>3, <1>4, <1>8, <1>9, <1>11 DEF Gets
  <2>2. Asks' = 1 /\ Ask(1)' = "AuditPreempt"
    BY <1>2, <1>11, <2>1 DEF Adds
  <2>. QED
    BY <1>1, <1>4, <1>5, <1>6, <1>11, <2>1, <2>2 DEF AtBarrier, Gets, Level, PhoneSame
<1>12. TypeOK'
  BY <1>1, <1>2, <1>5, TypeStep DEF TypeOK
<1>13. Streams'
  BY <1>1, <1>5 DEF Streams, Body, PhoneSame
<1>14. Begun' /\ Kept'
  BY <1>0, <1>1, <1>2, <1>5, BegunSame DEF Kept, Body, PhoneSame
<1>. QED
  BY <1>0, <1>1, <1>4, <1>10, <1>11, <1>12, <1>13, <1>14
  DEF Conversation, Understood, PhoneSame

LEMMA SkipKeeps ==
  ASSUME ExchangeAssumption, XInv, Skip
  PROVE  XInv'
<1>0. /\ Asks \in Nat /\ Tells \in Nat /\ co.gets \in Nat /\ co.puts \in Nat /\ re.batch \in Nat
      /\ co.recorded \in Nat /\ Window \in Nat /\ re.deferred \in Nat /\ co.later \in Nat
  BY Counters
<1>. USE DEF XInv
<1>1. /\ pc = "reconcile" /\ pc' = pc /\ outcome' = outcome /\ urgent' = urgent /\ PhoneSame
      /\ Drained
      /\ co' = [co EXCEPT !.item = "unknown", !.later = IF co.item = "later" THEN @ + 1 ELSE @]
  BY DEF Skip, phoneVars, PhoneSame, Reconciling
<1>2. /\ PcKeeps /\ Typed'
      /\ PhoneKeeps \/ (co.item = "none" /\ Adds("AckBatch", 0))
  BY SaysNone, SaysF DEF Skip, Message
<1>3. co' \in Coordinator /\ CoordinatorSame /\ co'.item = "unknown"
  <2>1. PICK later \in Nat : later = IF co.item = "later" THEN co.later + 1 ELSE co.later
    BY <1>0
  <2>2. co' = [co EXCEPT !.item = "unknown", !.later = later]
    BY <1>1, <2>1 DEF TypeOK, Coordinator
  <2>. QED
    BY <2>2 DEF TypeOK, Coordinator, CoordinatorSame, Item
<1>4. AtReconcile /\ AtReconcile'
  <2>1. AtReconcile
    BY <1>1 DEF Conversation
  <2>2. CASE PhoneKeeps
    BY <1>0, <1>1, <1>2, <1>3, <2>1, <2>2, ReconcileSame
  <2>3. CASE co.item = "none" /\ Adds("AckBatch", 0)
    <3>1. co.gets = 0 /\ co.puts = 0
      BY <1>0, <1>1, <2>3 DEF Drained, MustDrainPuts, MustDrainGets
    <3>2. Resting
      BY <1>0, <2>1, <3>1, Rests
    <3>3. Hushed(0)' /\ Asks' \in Nat
      BY <1>0, <1>1, <2>3, <3>2, HushedMore DEF Resting, Adds, PhoneSame
    <3>4. Resting'
      BY <1>1, <1>2, <1>3, <3>2, <3>3
      DEF Resting, Idle, Level, PhoneSame, CoordinatorSame, PcKeeps
    <3>. QED
      BY <1>0, <2>1, <3>3, <3>4, RestReconciles
  <2>. QED
    BY <1>2, <2>2, <2>3
<1>5. TypeOK'
  BY <1>1, <1>2, <1>3, TypeStep DEF TypeOK
<1>6. Streams' /\ Begun'
  BY <1>0, <1>1, <1>2, <1>3, StreamsSame, BegunSame DEF Body
<1>7. Kept'
  BY <1>1, <1>3 DEF Kept, Body, PhoneSame, CoordinatorSame
<1>. QED
  BY <1>1, <1>4, <1>5, <1>6, <1>7 DEF Conversation, Understood, PhoneSame

LEMMA SendGetKeeps ==
  ASSUME ExchangeAssumption, XInv, SendGet
  PROVE  XInv'
<1>0. /\ Asks \in Nat /\ Tells \in Nat /\ co.gets \in 0 .. Window /\ co.puts \in Nat /\ re.batch \in Nat
      /\ co.recorded \in Nat /\ Window \in Nat /\ re.deferred \in Nat
  BY Counters
<1>. USE DEF XInv
<1>1. /\ pc = "reconcile" /\ pc' = pc /\ outcome' = outcome /\ urgent' = urgent /\ PhoneSame
      /\ Drained /\ co.item = "get"
      /\ co' = [co EXCEPT !.item = "unknown", !.gets = @ + 1]
  BY DEF SendGet, phoneVars, PhoneSame, Reconciling
<1>2. Adds("Get", 0) /\ PcKeeps /\ Typed'
  BY SaysF DEF SendGet, Message
<1>3. co.puts = 0 /\ co.gets < Window
  BY <1>0, <1>1, Consts DEF Drained, MustDrainPuts, MustDrainGets
<1>4. Gets /\ Level /\ re.deferred <= Tells /\ AtReconcile
  <2>1. AtReconcile
    BY <1>1 DEF Conversation
  <2>. QED
    BY <1>0, <1>3, <2>1, GetsOrRests
<1>5. /\ co' \in Coordinator /\ co'.gets = co.gets + 1 /\ co'.item = "unknown"
      /\ co'.puts = co.puts /\ co'.sent = co.sent /\ co'.stream = co.stream /\ co'.seq = co.seq
      /\ co'.release = co.release /\ co'.deferring = co.deferring
      /\ co'.staged = co.staged /\ co'.confirmed = co.confirmed /\ co'.recorded = co.recorded
  <2>1. co.gets + 1 \in 0 .. Window
    BY <1>0, <1>3
  <2>. QED
    BY <1>1, <2>1 DEF TypeOK, Coordinator, Item
<1>6. Tells' = Tells /\ Asks' = Asks + 1
  BY <1>2 DEF PcKeeps, Adds
<1>7. Deferring'
  BY <1>0, <1>1, <1>2, <1>4, <1>5 DEF Gets, Deferring, PcKeeps, PhoneSame
<1>8. PICK w \in Int : w = co.gets - Tells
  BY <1>0
<1>9. w >= 0 /\ Quietly(w, "Get", 0) /\ (re.deferred > 0 \/ Tells > 0 => Asks = w)
  BY <1>0, <1>4, <1>8 DEF Gets
<1>10. Quietly(w + 1, "Get", 0)' /\ w + 1 = co'.gets - Tells'
  BY <1>0, <1>1, <1>2, <1>5, <1>6, <1>8, <1>9, QuietlyMore DEF PhoneSame
<1>11. Gets'
  BY <1>0, <1>1, <1>3, <1>4, <1>5, <1>6, <1>7, <1>8, <1>9, <1>10 DEF Gets, PhoneSame
<1>12. AtReconcile'
  BY <1>1, <1>4, <1>5, <1>6, <1>11 DEF AtReconcile, Level, PhoneSame
<1>13. TypeOK'
  BY <1>1, <1>2, <1>5, TypeStep DEF TypeOK
<1>14. Streams' /\ Begun'
  BY <1>0, <1>1, <1>2, <1>5, BegunSame DEF Streams, Body, PhoneSame
<1>15. Kept'
  BY <1>1, <1>5 DEF Kept, Body, PhoneSame
<1>. QED
  BY <1>1, <1>12, <1>13, <1>14, <1>15 DEF Conversation, Understood, PhoneSame

LEMMA SendPutKeeps ==
  ASSUME ExchangeAssumption, XInv, SendPut
  PROVE  XInv'
<1>0. /\ Asks \in Nat /\ Tells \in Nat /\ co.gets \in Nat /\ co.puts \in 0 .. Window /\ re.batch \in Nat
      /\ co.recorded \in Nat /\ Window \in Nat /\ re.deferred \in Nat
  BY Counters
<1>. USE DEF XInv
<1>1. /\ pc = "reconcile" /\ pc' = pc /\ outcome' = outcome /\ urgent' = urgent /\ PhoneSame
      /\ Drained /\ co.item = "put" /\ co.stream # "open"
      /\ co' = [co EXCEPT !.item = "unknown", !.puts = @ + 1]
  BY DEF SendPut, phoneVars, PhoneSame, Reconciling, Streaming
<1>2. Adds("Put", 0) /\ PcKeeps /\ Typed'
  BY SaysF DEF SendPut, Message
<1>3. co.gets = 0 /\ co.puts < Window
  BY <1>0, <1>1, Consts DEF Drained, MustDrainPuts, MustDrainGets
<1>4. Puts(0) /\ AtReconcile
  <2>1. AtReconcile
    BY <1>1 DEF Conversation
  <2>. QED
    BY <1>0, <1>3, <2>1, PutsOrRests
<1>5. /\ co' \in Coordinator /\ co'.puts = co.puts + 1 /\ co'.item = "unknown"
      /\ co'.gets = co.gets /\ co'.sent = co.sent /\ co'.stream = co.stream /\ co'.seq = co.seq
      /\ co'.release = co.release /\ co'.deferring = co.deferring
      /\ co'.staged = co.staged /\ co'.confirmed = co.confirmed /\ co'.recorded = co.recorded
  <2>1. co.puts + 1 \in 0 .. Window
    BY <1>0, <1>3
  <2>. QED
    BY <1>1, <2>1 DEF TypeOK, Coordinator, Item
<1>6. Tells' = Tells /\ Asks' = Asks + 1 /\ re.stream = "none"
  BY <1>1, <1>2 DEF PcKeeps, Adds, Streams
<1>7. PICK w \in Int : w = co.puts - re.batch
  BY <1>0
<1>8. w >= 0 /\ Quietly(w, "Put", 0) /\ (phone = "batch" => Asks = w)
  BY <1>0, <1>4, <1>7 DEF Puts
<1>9. Quietly(w + 1, "Put", 0)' /\ w + 1 = co'.puts - re'.batch
  BY <1>0, <1>1, <1>2, <1>5, <1>7, <1>8, QuietlyMore DEF PhoneSame
<1>10. Puts(0)'
  BY <1>0, <1>1, <1>4, <1>5, <1>6, <1>7, <1>8, <1>9 DEF Puts, PhoneSame
<1>11. AtReconcile'
  BY <1>1, <1>4, <1>5, <1>10 DEF AtReconcile, PhoneSame
<1>12. TypeOK'
  BY <1>1, <1>2, <1>5, TypeStep DEF TypeOK
<1>13. Streams' /\ Begun'
  BY <1>0, <1>1, <1>2, <1>5, BegunSame DEF Streams, Body, PhoneSame
<1>14. Kept'
  BY <1>1, <1>5 DEF Kept, Body, PhoneSame
<1>. QED
  BY <1>1, <1>11, <1>12, <1>13, <1>14 DEF Conversation, Understood, PhoneSame

-----------------------------------------------------------------------------
\* Acknowledgements and a release of hashes go before a request.
AddsBehind(k, type, n) ==
  /\ Asks' = Asks + k + 1
  /\ \A i \in 1 .. Asks : Ask(i)' = Ask(i) /\ AskNo(i)' = AskNo(i)
  /\ \A i \in Nat : i > Asks /\ i <= Asks + k =>
       Ask(i)' = "AckBatch" \/ (co.release /\ Ask(i)' = "HashRelease")
  /\ \A i \in Nat : i = Asks + k + 1 => Ask(i)' = type /\ AskNo(i)' = n

Hushing(frames) ==
  /\ frames \in Seq(Frames)
  /\ \A i \in 1 .. Len(frames) :
       frames[i].type = "AckBatch" \/ (co.release /\ frames[i].type = "HashRelease")

LEMMA SaysBehind ==
  ASSUME TypeOK, NEW first, Hushing(first), NEW type \in Message, NEW n \in Nat,
         Says(first \o <<Frame(type, n)>>)
  PROVE  (\E k \in Nat : AddsBehind(k, type, n)) /\ PcKeeps /\ Typed'
<1>. DEFINE frames == first \o <<Frame(type, n)>>
<1>1. toPhone \in Seq(Frames) /\ first \in Seq(Frames) /\ <<Frame(type, n)>> \in Seq(Frames)
  BY StreamsTyped, OneFrame DEF Typed, Hushing
<1>2. PICK k \in Nat : Len(first) = k
  BY <1>1
<1>3. /\ frames \in Seq(Frames) /\ Len(frames) = k + 1
      /\ \A i \in 1 .. k : frames[i] = first[i]
      /\ \A j \in Nat : j = k + 1 => frames[j] = <<Frame(type, n)>>[1]
  <2>1. PICK one \in Seq(Frames) : one = <<Frame(type, n)>>
    BY <1>1
  <2>2. Len(one) = 1
    BY <2>1, OneFrame
  <2>3. /\ first \o one \in Seq(Frames) /\ Len(first \o one) = Len(first) + Len(one)
        /\ \A i \in 1 .. Len(first) : (first \o one)[i] = first[i]
        /\ \A i \in 1 .. Len(one), j \in Nat : j = Len(first) + i => (first \o one)[j] = one[i]
    BY <1>1, Appended
  <2>4. \A j \in Nat : j = k + 1 => (first \o one)[j] = one[1]
    BY <1>2, <2>2, <2>3
  <2>. QED
    BY <1>2, <2>1, <2>2, <2>3, <2>4
<1>4. /\ \A i \in 1 .. k : frames[i].type = "AckBatch" \/ (co.release /\ frames[i].type = "HashRelease")
      /\ \A j \in Nat : j = k + 1 => frames[j].type = type /\ frames[j].n = n
  BY <1>2, <1>3, OneFrame DEF Hushing
<1>. HIDE DEF frames
<1>5. toPhone' = toPhone \o frames
  BY DEF Says, frames
<1>6. /\ toPhone' \in Seq(Frames) /\ Len(toPhone) \in Nat /\ Len(toPhone') = Len(toPhone) + k + 1
      /\ \A i \in 1 .. Len(toPhone) : toPhone'[i] = toPhone[i]
      /\ \A i \in 1 .. k + 1, j \in Nat : j = Len(toPhone) + i => toPhone'[j] = frames[i]
  BY <1>1, <1>3, <1>5, Appended
<1>7. ASSUME NEW j \in Nat, j > Len(toPhone), j <= Len(toPhone) + k
      PROVE  toPhone'[j].type = "AckBatch" \/ (co.release /\ toPhone'[j].type = "HashRelease")
  <2>1. PICK i \in 1 .. k : j = Len(toPhone) + i
    <3>1. PICK a \in Nat : Len(toPhone) = a
      BY <1>6
    <3>2. j - a \in 1 .. k /\ j = a + (j - a)
      BY <1>7, <3>1
    <3>. QED
      BY <3>1, <3>2
  <2>2. toPhone'[j] = frames[i]
    BY <1>6, <2>1
  <2>. QED
    BY <1>4, <2>1, <2>2
<1>8. ASSUME NEW j \in Nat, j = Len(toPhone) + k + 1
      PROVE  toPhone'[j].type = type /\ toPhone'[j].n = n
  <2>1. PICK i \in 1 .. k + 1 : i = k + 1
    OBVIOUS
  <2>2. toPhone'[j] = frames[i]
    BY <1>6, <1>8, <2>1
  <2>. QED
    BY <1>4, <2>1, <2>2
<1>9. AddsBehind(k, type, n)
  BY <1>6, <1>7, <1>8 DEF AddsBehind, Asks, Ask, AskNo
<1>. QED
  BY <1>1, <1>6, <1>9, AnswerNothing DEF Says, Typed

LEMMA HushingOne ==
  ASSUME NEW type \in Message, type = "AckBatch" \/ (co.release /\ type = "HashRelease")
  PROVE  Hushing(F(type)) /\ Hushing(<<>>)
<1>1. PICK one \in Seq(Frames) : one = <<Frame(type, 0)>>
  BY OneFrame
<1>2. Len(one) = 1 /\ one[1].type = type
  BY <1>1, OneFrame
<1>3. Hushing(one)
  BY <1>2 DEF Hushing
<1>4. Hushing(<<>>)
  BY DEF Hushing
<1>. QED
  BY <1>1, <1>3, <1>4 DEF F

LEMMA Hushings ==
  ASSUME TypeOK, NEW acks \in {<<>>, F("AckBatch")}
  PROVE  Hushing(acks) /\ Hushing(Released) /\ Hushing(Released \o acks)
<1>1. Hushing(acks)
  BY HushingOne DEF Message
<1>2. Hushing(Released)
  <2>1. Hushing(<<>>)
    BY HushingOne DEF Message
  <2>2. co.release => Hushing(F("HashRelease"))
    BY HushingOne DEF Message
  <2>. QED
    BY <2>1, <2>2 DEF Released
<1>3. PICK s \in Seq(Frames) : s = Released
  BY <1>2 DEF Hushing
<1>4. PICK t \in Seq(Frames) : t = acks
  BY <1>1 DEF Hushing
<1>5. /\ s \o t \in Seq(Frames) /\ Len(s \o t) = Len(s) + Len(t) /\ Len(s) \in Nat /\ Len(t) \in Nat
      /\ \A i \in 1 .. Len(s) : (s \o t)[i] = s[i]
      /\ \A i \in 1 .. Len(t), j \in Nat : j = Len(s) + i => (s \o t)[j] = t[i]
  BY Appended
<1>6. Hushing(s) /\ Hushing(t)
  BY <1>1, <1>2, <1>3, <1>4
<1>7. ASSUME NEW j \in 1 .. Len(s \o t)
      PROVE  (s \o t)[j].type = "AckBatch" \/ (co.release /\ (s \o t)[j].type = "HashRelease")
  <2>1. CASE j <= Len(s)
    BY <1>5, <1>6, <2>1 DEF Hushing
  <2>2. CASE j > Len(s)
    <3>1. PICK i \in 1 .. Len(t) : j = Len(s) + i
      <4>1. PICK a \in Nat, b \in Nat : Len(s) = a /\ Len(t) = b
        BY <1>5
      <4>2. j - a \in 1 .. b /\ j = a + (j - a)
        BY <1>5, <2>2, <4>1
      <4>. QED
        BY <4>1, <4>2
    <3>2. (s \o t)[j] = t[i]
      BY <1>5, <3>1
    <3>. QED
      BY <1>6, <3>1, <3>2 DEF Hushing
  <2>. QED
    BY <1>5, <2>1, <2>2
<1>8. Hushing(s \o t)
  BY <1>5, <1>7 DEF Hushing
<1>. QED
  BY <1>1, <1>2, <1>3, <1>4, <1>8

LEMMA HushedBehind ==
  ASSUME Asks \in Nat, Hushed(0), NEW k \in Nat, NEW type, NEW n, AddsBehind(k, type, n),
         re' = re,
         co.release => re.stream = "hashing"
  PROVE  Hushed(1)' /\ Ask(Asks)' = type /\ AskNo(Asks)' = n
<1>1. \A i \in 1 .. Asks : i \in Nat /\ Quiet(i)'
  BY QuietKept DEF Hushed, AddsBehind
<1>2. \A i \in Nat : i > Asks /\ i <= Asks + k => Quiet(i)'
  BY DEF AddsBehind, Quiet
<1>3. \A i \in 1 .. Asks + k : Quiet(i)'
  <2>1. ASSUME NEW i \in 1 .. Asks + k PROVE Quiet(i)'
    <3>1. CASE i <= Asks
      BY <1>1, <3>1
    <3>2. CASE i > Asks
      BY <1>2, <3>2
    <3>. QED
      BY <3>1, <3>2
  <2>. QED
    BY <2>1
<1>4. Asks' = Asks + k + 1 /\ Ask(Asks)' = type /\ AskNo(Asks)' = n
  BY DEF AddsBehind
<1>5. Hushed(1)'
  BY <1>3, <1>4 DEF Hushed
<1>. QED
  BY <1>4, <1>5

LEMMA BegunBehind ==
  ASSUME Begun, PhoneSame, pc # "manifest", Asks \in Nat, NEW k \in Nat, NEW type, NEW n,
         AddsBehind(k, type, n)
  PROVE  Begun'
BY DEF Begun, PhoneSame, AddsBehind

\* At the end of the files at hand the two sides are level.
LEMMA BoundaryRests ==
  ASSUME ExchangeAssumption, XInv, AtBoundary
  PROVE  Resting /\ (co.release => re.stream = "hashing")
<1>1. pc = "reconcile" /\ co.gets = 0 /\ co.puts = 0
  BY DEF AtBoundary, Reconciling
<1>2. Resting
  BY <1>1, Numbers, Rests DEF XInv, Conversation
<1>. QED
  BY <1>2 DEF XInv, Streams, Resting

LEMMA PreemptStreamKeeps ==
  ASSUME ExchangeAssumption, XInv, PreemptStream
  PROVE  XInv'
<1>0. Asks \in Nat /\ Tells \in Nat /\ co.seq \in Nat
  BY Counters
<1>. USE DEF XInv
<1>1. /\ AtBoundary /\ pc = "reconcile" /\ pc' = "boundary" /\ outcome' = outcome /\ urgent' = urgent
      /\ PhoneSame /\ co.stream = "open" /\ co' = [co EXCEPT !.sent = TRUE, !.release = FALSE]
  BY DEF PreemptStream, phoneVars, PhoneSame, Streaming, AtBoundary, Reconciling
<1>2. PICK acks \in {<<>>, F("AckBatch")} : Says(Released \o acks \o F("AuditPreempt"))
  BY DEF PreemptStream
<1>3. "AuditPreempt" \in Message
  BY DEF Message
<1>4. (\E k \in Nat : AddsBehind(k, "AuditPreempt", 0)) /\ PcKeeps /\ Typed'
  BY <1>2, <1>3, SaysBehind, Hushings DEF F
<1>5. PICK k \in Nat : AddsBehind(k, "AuditPreempt", 0)
  BY <1>4
<1>6. Resting /\ (co.release => re.stream = "hashing")
  BY <1>1, BoundaryRests
<1>7. Hushed(1)' /\ Ask(Asks)' = "AuditPreempt"
  BY <1>0, <1>1, <1>5, <1>6, HushedBehind DEF Resting, PhoneSame
<1>8. /\ co' \in Coordinator /\ co'.sent /\ ~co'.release
      /\ co'.gets = co.gets /\ co'.puts = co.puts /\ co'.deferring = co.deferring
      /\ co'.stream = co.stream /\ co'.seq = co.seq /\ co'.item = co.item
      /\ co'.staged = co.staged /\ co'.confirmed = co.confirmed /\ co'.recorded = co.recorded
  BY <1>1 DEF TypeOK, Coordinator
<1>9. re.stream \in {"named", "hashing", "deferred"} /\ re.seq = co.seq
  BY <1>1, <1>6 DEF Streams, Resting
<1>10. AtPreempted'
  BY <1>0, <1>1, <1>4, <1>6, <1>7, <1>8, <1>9
  DEF AtPreempted, Resting, Idle, Served, Level, PhoneSame, PcKeeps
<1>11. TypeOK'
  BY <1>1, <1>4, <1>8, TypeStep DEF TypeOK
<1>12. Streams'
  BY <1>1, <1>8 DEF Streams, Body, PhoneSame
<1>13. Begun' /\ Kept'
  BY <1>0, <1>1, <1>5, <1>8, BegunBehind DEF Kept, Body, PhoneSame
<1>. QED
  BY <1>1, <1>10, <1>11, <1>12, <1>13 DEF Conversation, Understood, PhoneSame

LEMMA HashNextKeeps ==
  ASSUME ExchangeAssumption, XInv, HashNext
  PROVE  XInv'
<1>0. /\ Asks \in Nat /\ Tells \in Nat /\ co.seq \in Nat
  BY Counters
<1>. USE DEF XInv
<1>1. /\ AtBoundary /\ pc = "reconcile" /\ pc' = "hashWait" /\ outcome' = outcome /\ urgent' = urgent
      /\ PhoneSame /\ co.stream = "open" /\ co' = [co EXCEPT !.release = FALSE]
  BY DEF HashNext, phoneVars, PhoneSame, Streaming, AtBoundary, Reconciling
<1>2. Says(Released \o <<Frame("HashNext", co.seq)>>) /\ "HashNext" \in Message
  BY DEF HashNext, Message
<1>3. Hushing(Released)
  BY Hushings
<1>4. (\E k \in Nat : AddsBehind(k, "HashNext", co.seq)) /\ PcKeeps /\ Typed'
  BY <1>0, <1>2, <1>3, SaysBehind
<1>5. PICK k \in Nat : AddsBehind(k, "HashNext", co.seq)
  BY <1>4
<1>6. Resting /\ (co.release => re.stream = "hashing") /\ ~co.sent
  BY <1>1, BoundaryRests DEF Kept, Body
<1>7. Hushed(1)' /\ Ask(Asks)' = "HashNext" /\ AskNo(Asks)' = co.seq
  BY <1>0, <1>1, <1>5, <1>6, HushedBehind DEF Resting, PhoneSame
<1>8. /\ co' \in Coordinator /\ ~co'.sent /\ ~co'.release
      /\ co'.gets = co.gets /\ co'.puts = co.puts /\ co'.deferring = co.deferring
      /\ co'.stream = co.stream /\ co'.seq = co.seq /\ co'.item = co.item
      /\ co'.staged = co.staged /\ co'.confirmed = co.confirmed /\ co'.recorded = co.recorded
  BY <1>1, <1>6 DEF TypeOK, Coordinator
<1>9. re.seq = co.seq /\ re.stream \in {"named", "hashing", "deferred"}
  BY <1>1, <1>6 DEF Streams, Resting
<1>10. LastAsk("HashNext", co.seq)'
  BY <1>7, <1>8 DEF LastAsk
<1>11. AtHashWait'
  BY <1>0, <1>1, <1>4, <1>6, <1>8, <1>9, <1>10
     DEF AtHashWait, Resting, Idle, Served, Level, PhoneSame, PcKeeps
<1>12. TypeOK'
  BY <1>1, <1>4, <1>8, TypeStep DEF TypeOK
<1>13. Streams'
  BY <1>1, <1>8 DEF Streams, Body, PhoneSame
<1>14. Begun' /\ Kept'
  BY <1>0, <1>1, <1>5, <1>8, BegunBehind DEF Kept, Body, PhoneSame
<1>. QED
  BY <1>1, <1>11, <1>12, <1>13, <1>14 DEF Conversation, Understood, PhoneSame

LEMMA DoneKeeps ==
  ASSUME ExchangeAssumption, XInv, Done
  PROVE  XInv'
<1>0. /\ Asks \in Nat /\ Tells \in Nat /\ co.staged \in Nat /\ co.confirmed \in Nat
  BY Counters
<1>. USE DEF XInv
<1>1. /\ AtBoundary /\ pc = "reconcile" /\ pc' = "dispatch" /\ outcome' = "committed" /\ urgent' = urgent
      /\ PhoneSame /\ co.stream # "open" /\ co' = co
  BY DEF Done, phoneVars, PhoneSame, Streaming, AtBoundary, Reconciling
<1>2. PICK acks \in {<<>>, F("AckBatch")} : Says(acks \o F("Done"))
  BY DEF Done
<1>3. "Done" \in Message
  BY DEF Message
<1>4. (\E k \in Nat : AddsBehind(k, "Done", 0)) /\ PcKeeps /\ Typed'
  BY <1>2, <1>3, SaysBehind, Hushings DEF F
<1>5. PICK k \in Nat : AddsBehind(k, "Done", 0)
  BY <1>4
<1>6. Resting /\ (co.release => re.stream = "hashing") /\ ~co.sent
  BY <1>1, BoundaryRests DEF Kept, Body
<1>7. Hushed(1)' /\ Ask(Asks)' = "Done"
  BY <1>0, <1>1, <1>5, <1>6, HushedBehind DEF Resting, PhoneSame
<1>8. co.confirmed = co.staged /\ re.stream = "none"
  BY <1>0, <1>1 DEF Streams, TypeOK, Coordinator
<1>9. re.stages = 0 /\ re.installed = co.recorded
  BY <1>0, <1>6, <1>8 DEF Resting, Level
<1>10. ~deferredShare
  BY <1>6 DEF Resting, Kept
<1>11. AtDispatch'
  BY <1>1, <1>4, <1>6, <1>7, <1>8, <1>9, <1>10
  DEF AtDispatch, Ending, Resting, PhoneSame, PcKeeps
<1>12. TypeOK'
  BY <1>1, <1>4, TypeStep DEF TypeOK
<1>13. Streams'
  BY <1>1, <1>8 DEF Streams, Body, PhoneSame
<1>14. Begun' /\ Kept'
  BY <1>0, <1>1, <1>5, BegunBehind DEF Kept, Body, PhoneSame
<1>. QED
  BY <1>1, <1>11, <1>12, <1>13, <1>14 DEF Conversation, Understood, PhoneSame

LEMMA StagePutKeeps ==
  ASSUME ExchangeAssumption, XInv, StagePut
  PROVE  XInv'
<1>0. /\ Asks \in Nat /\ Tells \in Nat /\ co.gets \in 0 .. Window /\ co.puts \in 0 .. Window
      /\ re.batch \in Nat /\ re.deferred \in Nat /\ co.recorded \in Nat /\ co.staged \in Nat
  BY Counters
<1>. USE DEF XInv
<1>1. /\ pc = "reconcile" /\ pc' = "stage" /\ outcome' = outcome /\ urgent' = urgent
      /\ PhoneSame /\ co.stream = "open" /\ co.item = "put" /\ co' = co /\ Drained
  BY DEF StagePut, phoneVars, PhoneSame, Streaming, Reconciling
<1>2. Adds("StagePut", co.staged) /\ PcKeeps /\ Typed'
  BY <1>0, SaysOne DEF StagePut, Message
<1>3. AtReconcile
  BY <1>1 DEF Conversation
<1>4. co.gets = 0 /\ co.puts = 0
  BY <1>0, <1>1, <1>3, Consts DEF Drained, MustDrainGets, AtReconcile, Gets, Puts
<1>5. Resting /\ co.staged < Window
  BY <1>0, <1>1, <1>3, <1>4, Rests DEF Kept
<1>6. Hushed(1)' /\ Ask(Asks)' = "StagePut" /\ AskNo(Asks)' = co.staged
  BY <1>0, <1>1, <1>2, <1>5, HushedMore DEF Resting, PhoneSame
<1>7. AtStage'
  BY <1>1, <1>2, <1>5, <1>6 DEF AtStage, Resting, Idle, Level, PhoneSame, PcKeeps
<1>8. TypeOK'
  BY <1>1, <1>2, TypeStep DEF TypeOK
<1>9. Streams' /\ Begun'
  BY <1>0, <1>1, <1>2, StreamsSame, BegunSame DEF Body, CoordinatorSame
<1>10. Kept'
  BY <1>1 DEF Kept, Body, PhoneSame
<1>. QED
  BY <1>1, <1>7, <1>8, <1>9, <1>10 DEF Conversation, Understood, PhoneSame

LEMMA ReadsStagedKeeps ==
  ASSUME ExchangeAssumption, XInv, ReadsStaged
  PROVE  XInv'
<1>0. /\ Asks \in Nat /\ Tells \in Nat /\ co.staged \in 0 .. Window /\ co.confirmed \in Nat
      /\ Window \in Nat
  BY Counters
<1>. USE DEF XInv
<1>1. /\ pc = "stage" /\ pc' = "reconcile" /\ outcome' = outcome /\ urgent' = urgent /\ PhoneSame
      /\ co' = [co EXCEPT !.item = "unknown", !.staged = @ + 1]
  BY DEF ReadsStaged, phoneVars, PhoneSame
<1>2. PcTakes /\ PhoneKeeps /\ Typed'
  BY PcReadsNone DEF ReadsStaged
<1>3. Tells > 0 /\ Tells' = Tells - 1 /\ Asks' = Asks
  BY <1>2 DEF PcTakes, PhoneKeeps
<1>4. /\ Idle /\ co.stream = "open" /\ co.staged < Window /\ phone = "loop" /\ re.deferred = 0
      /\ re.batch = 0 /\ re.installed = co.recorded /\ Asks = 0 /\ re.stages = co.staged + 1 /\ Tells = 1
  BY <1>1, <1>3 DEF Conversation, AtStage
<1>5. co.confirmed = 0
  BY <1>4 DEF Streams
<1>6. /\ co' \in Coordinator /\ co'.staged = co.staged + 1 /\ co'.item = "unknown"
      /\ co'.gets = co.gets /\ co'.puts = co.puts /\ co'.deferring = co.deferring /\ co'.sent = co.sent
      /\ co'.stream = co.stream /\ co'.seq = co.seq /\ co'.release = co.release
      /\ co'.confirmed = co.confirmed /\ co'.recorded = co.recorded
  <2>1. co.staged + 1 \in 0 .. Window
    BY <1>0, <1>4
  <2>. QED
    BY <1>1, <2>1 DEF TypeOK, Coordinator, Item
<1>7. Tells' = 0 /\ Asks' = 0
  BY <1>3, <1>4
<1>8. Hushed(0)'
  BY <1>7 DEF Hushed
<1>9. Resting'
  BY <1>0, <1>1, <1>4, <1>5, <1>6, <1>7, <1>8 DEF Resting, Idle, Level, PhoneSame
<1>10. AtReconcile'
  BY <1>0, <1>7, <1>9, RestReconciles
<1>11. TypeOK'
  BY <1>1, <1>2, <1>6, TypeStep DEF TypeOK
<1>12. Streams'
  BY <1>0, <1>1, <1>4, <1>5, <1>6 DEF Streams, Body, PhoneSame
<1>13. Begun' /\ Kept'
  BY <1>0, <1>1, <1>2, <1>6, BegunSame DEF Kept, Body, PhoneSame
<1>. QED
  BY <1>1, <1>10, <1>11, <1>12, <1>13 DEF Conversation, Understood, PhoneSame

LEMMA IgnoresStreamKeeps ==
  ASSUME ExchangeAssumption, XInv, IgnoresStream
  PROVE  XInv'
<1>0. Asks \in Nat /\ Tells \in Nat
  BY Counters
<1>. USE DEF XInv
<1>1. /\ pc = "hashWait" /\ pc' = pc /\ co' = co /\ outcome' = outcome /\ urgent' = urgent
      /\ PhoneSame /\ co.sent
  BY DEF IgnoresStream, pcVars, phoneVars, PhoneSame
<1>2. Tell(1) \in {"HashChunk", "HashStreamEnd"} /\ PcTakes /\ PhoneKeeps /\ Typed'
  BY PcReadsNone DEF IgnoresStream
<1>3. Tells > 0 /\ Tells' = Tells - 1
  BY <1>2 DEF PcTakes
<1>4. AtHashWait
  BY <1>1 DEF Conversation
<1>5. Told("HashChunk") => Told("HashChunk")'
  BY <1>0, <1>1, <1>2, <1>3 DEF Told, Says1
<1>6. Told("HashStreamEnd") => Told("HashStreamEnd")'
  BY <1>0, <1>1, <1>2, <1>3 DEF Told, Says1
<1>7. \A kinds : Deferral(kinds) => Deferral(kinds)'
  BY <1>0, <1>1, <1>2, <1>3 DEF Deferral, PcTakes, PhoneSame
<1>8. ~Alives
  BY <1>0, <1>2, <1>3 DEF Alives
<1>9. AtHashWait'
  BY <1>0, <1>1, <1>2, <1>3, <1>4, <1>5, <1>6, <1>7, <1>8
     DEF AtHashWait, Idle, Served, Level, PhoneKeeps, PhoneSame, OnlyPre, LatePre
<1>10. TypeOK'
  BY <1>1, <1>2, TypeStep DEF TypeOK
<1>11. Streams' /\ Begun' /\ Kept'
  BY <1>1, <1>2 DEF Streams, Begun, Kept, Body, PhoneSame, PhoneKeeps
<1>. QED
  BY <1>1, <1>9, <1>10, <1>11 DEF Conversation, Understood, PhoneSame

LEMMA ReadsChunkKeeps ==
  ASSUME ExchangeAssumption, XInv, ReadsChunk
  PROVE  XInv'
<1>0. /\ Asks \in Nat /\ Tells \in Nat /\ co.seq \in Nat /\ Window \in Nat /\ Len(Chunks) \in Nat
      /\ \A i \in 1 .. Len(Chunks) : Chunks[i] \in Nat
  BY Counters
<1>. USE DEF XInv
<1>1. /\ pc = "hashWait" /\ pc' = "reconcile" /\ outcome' = outcome /\ urgent' = urgent
      /\ PhoneSame /\ ~co.sent
      /\ co' = [co EXCEPT !.seq = @ + 1, !.work = Chunks[co.seq + 1], !.release = TRUE]
  BY DEF ReadsChunk, phoneVars, PhoneSame
<1>2. Tell(1) = "HashChunk" /\ PcTakes /\ PhoneKeeps /\ Typed'
  BY PcReadsNone DEF ReadsChunk
<1>3. Tells > 0 /\ Tells' = Tells - 1 /\ Asks' = Asks
  BY <1>2 DEF PcTakes, PhoneKeeps
<1>4. /\ Idle /\ co.stream = "open" /\ Served(1) /\ re.stream = "hashing" /\ Asks = 0 /\ Tells = 1
  <2>1. AtHashWait /\ ~Alives
    BY <1>0, <1>1, <1>2, <1>3 DEF Conversation, Alives
  <2>2. ~Says1("HashStreamEnd") /\ ~Deferral({"ScanAlive"})
    BY <1>0, <1>2, <1>3 DEF Says1, Deferral
  <2>3. Says1("HashChunk") => Tells = 1
    BY <1>0, <1>2, <1>3 DEF Says1
  <2>. QED
    BY <1>0, <1>1, <1>3, <2>1, <2>2, <2>3 DEF AtHashWait, Told, OnlyPre
<1>5. co.seq + 1 \in 1 .. Len(Chunks)
  BY <1>0, <1>4 DEF Streams, Served
<1>6. /\ co' \in Coordinator /\ co'.seq = co.seq + 1 /\ co'.release
      /\ co'.gets = co.gets /\ co'.puts = co.puts /\ co'.deferring = co.deferring /\ co'.sent = co.sent
      /\ co'.stream = co.stream /\ co'.item = co.item
      /\ co'.staged = co.staged /\ co'.confirmed = co.confirmed /\ co'.recorded = co.recorded
  <2>1. PICK work \in Nat : work = Chunks[co.seq + 1]
    BY <1>0, <1>5
  <2>2. co' = [co EXCEPT !.seq = @ + 1, !.work = work, !.release = TRUE]
    BY <1>1, <2>1
  <2>3. co.seq + 1 \in Nat
    BY <1>0
  <2>. QED
    BY <2>2, <2>3 DEF TypeOK, Coordinator
<1>7. Tells' = 0 /\ Asks' = 0
  BY <1>3, <1>4
<1>8. Hushed(0)'
  BY <1>7 DEF Hushed
<1>9. Resting'
  BY <1>1, <1>4, <1>6, <1>7, <1>8 DEF Resting, Idle, Level, Served, PhoneSame
<1>10. AtReconcile'
  BY <1>0, <1>7, <1>9, RestReconciles
<1>11. TypeOK'
  BY <1>1, <1>2, <1>6, TypeStep DEF TypeOK
<1>12. Streams'
  BY <1>0, <1>1, <1>4, <1>5, <1>6 DEF Streams, Body, PhoneSame, Served
<1>13. Begun' /\ Kept'
  BY <1>0, <1>1, <1>2, <1>6, BegunSame DEF Kept, Body, PhoneSame
<1>. QED
  BY <1>1, <1>10, <1>11, <1>12, <1>13 DEF Conversation, Understood, PhoneSame

LEMMA ReadsStreamEndKeeps ==
  ASSUME ExchangeAssumption, XInv, ReadsStreamEnd
  PROVE  XInv'
<1>0. /\ Asks \in Nat /\ Tells \in Nat /\ co.seq \in Nat /\ Window \in Nat /\ co.later \in Nat
      /\ co.staged \in Nat /\ co.confirmed \in Nat
  BY Counters
<1>. USE DEF XInv
<1>1. /\ pc = "hashWait" /\ pc' = (IF co.staged > 0 THEN "install" ELSE "reconcile")
      /\ outcome' = outcome /\ urgent' = urgent /\ PhoneSame /\ ~co.sent
      /\ co' = [co EXCEPT !.stream = "ended", !.work = co.later, !.later = 0]
  BY DEF ReadsStreamEnd, phoneVars, PhoneSame
<1>2. Tell(1) = "HashStreamEnd" /\ PcTakes /\ PhoneKeeps /\ Typed'
  BY PcReadsNone DEF ReadsStreamEnd
<1>3. Tells > 0 /\ Tells' = Tells - 1 /\ Asks' = Asks
  BY <1>2 DEF PcTakes, PhoneKeeps
<1>4. /\ Idle /\ co.stream = "open" /\ Served(0) /\ re.stream = "none" /\ re.completed
      /\ Asks = 0 /\ Tells = 1
  <2>1. AtHashWait /\ ~Alives
    BY <1>0, <1>1, <1>2, <1>3 DEF Conversation, Alives
  <2>2. ~Says1("HashChunk") /\ ~Deferral({"ScanAlive"})
    BY <1>0, <1>2, <1>3 DEF Says1, Deferral
  <2>3. Says1("HashStreamEnd") => Tells = 1
    BY <1>0, <1>2, <1>3 DEF Says1
  <2>. QED
    BY <1>0, <1>1, <1>3, <2>1, <2>2, <2>3 DEF AtHashWait, Told, OnlyPre
<1>5. co.recorded = 0 /\ co.confirmed = 0 /\ ~co.release
  BY <1>1, <1>4 DEF Streams, Kept
<1>6. /\ co' \in Coordinator /\ co'.stream = "ended" /\ co'.seq = co.seq /\ ~co'.release
      /\ co'.gets = co.gets /\ co'.puts = co.puts /\ co'.deferring = co.deferring /\ co'.sent = co.sent
      /\ co'.item = co.item
      /\ co'.staged = co.staged /\ co'.confirmed = co.confirmed /\ co'.recorded = co.recorded
  BY <1>0, <1>1, <1>5 DEF TypeOK, Coordinator
<1>7. Tells' = 0 /\ Asks' = 0
  BY <1>3, <1>4
<1>8. Hushed(0)'
  BY <1>7 DEF Hushed
<1>9. ASSUME co.staged = 0 PROVE AtReconcile'
  <2>1. Resting'
    BY <1>1, <1>4, <1>6, <1>7, <1>8 DEF Resting, Idle, Level, Served, PhoneSame
  <2>. QED
    BY <1>0, <1>7, <2>1, RestReconciles
<1>10. ASSUME co.staged > 0 PROVE AtInstall'
  BY <1>1, <1>4, <1>5, <1>6, <1>7, <1>10
  DEF AtInstall, Installing, Idle, Level, Served, PhoneSame
<1>11. TypeOK'
  BY <1>1, <1>2, <1>6, TypeStep DEF TypeOK
<1>12. Streams'
  BY <1>0, <1>1, <1>4, <1>5, <1>6 DEF Streams, Body, PhoneSame, Served
<1>13. Begun' /\ Kept'
  BY <1>0, <1>1, <1>2, <1>6, BegunSame DEF Kept, Body, PhoneSame
<1>. QED
  BY <1>0, <1>1, <1>9, <1>10, <1>11, <1>12, <1>13 DEF Conversation, Understood, PhoneSame

LEMMA InstallStagedKeeps ==
  ASSUME ExchangeAssumption, XInv, InstallStaged
  PROVE  XInv'
<1>0. Asks \in Nat /\ Tells \in Nat /\ co.confirmed \in Nat
  BY Counters
<1>. USE DEF XInv
<1>1. /\ pc = "install" /\ pc' = "confirm" /\ outcome' = outcome /\ urgent' = urgent
      /\ PhoneSame /\ co' = co
  BY DEF InstallStaged, phoneVars, PhoneSame
<1>2. Adds("InstallStaged", co.confirmed) /\ PcKeeps /\ Typed'
  BY <1>0, SaysOne DEF InstallStaged, Message
<1>3. AtInstall
  BY <1>1 DEF Conversation
<1>4. Asks' = 1 /\ Ask(1)' = "InstallStaged" /\ AskNo(1)' = co.confirmed /\ Tells' = 0
  BY <1>2, <1>3 DEF AtInstall, Adds, PcKeeps
<1>5. AtConfirm'
  BY <1>1, <1>3, <1>4 DEF AtInstall, AtConfirm, Installing, Idle, Level, PhoneSame
<1>6. TypeOK'
  BY <1>1, <1>2, TypeStep DEF TypeOK
<1>7. Streams' /\ Begun'
  BY <1>0, <1>1, <1>2, BegunSame DEF Streams, Body, PhoneSame
<1>8. Kept'
  BY <1>1 DEF Kept, Body, PhoneSame
<1>. QED
  BY <1>1, <1>5, <1>6, <1>7, <1>8 DEF Conversation, Understood, PhoneSame

LEMMA ReadsInstalledKeeps ==
  ASSUME ExchangeAssumption, XInv, ReadsInstalled
  PROVE  XInv'
<1>0. /\ Asks \in Nat /\ Tells \in Nat /\ Window \in Nat /\ co.recorded \in Nat
      /\ co.staged \in 0 .. Window /\ co.confirmed \in 0 .. Window
  BY Counters
<1>. USE DEF XInv
<1>1. /\ pc = "confirm" /\ pc' = (IF co.confirmed + 1 = co.staged THEN "reconcile" ELSE "install")
      /\ outcome' = outcome /\ urgent' = urgent /\ PhoneSame
      /\ co' = [co EXCEPT !.confirmed = @ + 1, !.recorded = @ + 1]
  BY DEF ReadsInstalled, phoneVars, PhoneSame
<1>2. PcTakes /\ PhoneKeeps /\ Typed'
  BY PcReadsNone DEF ReadsInstalled
<1>3. Tells > 0 /\ Tells' = Tells - 1 /\ Asks' = Asks
  BY <1>2 DEF PcTakes, PhoneKeeps
<1>4. /\ Installing /\ Asks = 0 /\ Tells = 1
      /\ re.stages = co.staged - co.confirmed - 1 /\ re.installed = co.recorded + 1
  BY <1>1, <1>3 DEF Conversation, AtConfirm
<1>5. /\ co' \in Coordinator /\ co'.confirmed = co.confirmed + 1 /\ co'.recorded = co.recorded + 1
      /\ co'.gets = co.gets /\ co'.puts = co.puts /\ co'.deferring = co.deferring /\ co'.sent = co.sent
      /\ co'.stream = co.stream /\ co'.seq = co.seq /\ co'.release = co.release
      /\ co'.item = co.item /\ co'.staged = co.staged
  <2>1. co.confirmed + 1 \in 0 .. Window /\ co.recorded + 1 \in Nat
    BY <1>0, <1>4 DEF Installing
  <2>. QED
    BY <1>1, <2>1 DEF TypeOK, Coordinator
<1>6. Tells' = 0 /\ Asks' = 0
  BY <1>3, <1>4
<1>7. Hushed(0)'
  BY <1>6 DEF Hushed
<1>8. Level'
  BY <1>0, <1>1, <1>4, <1>5 DEF Level, PhoneSame
<1>9. ASSUME co.confirmed + 1 = co.staged PROVE AtReconcile'
  <2>1. Resting'
    BY <1>1, <1>4, <1>5, <1>6, <1>7, <1>8 DEF Resting, Idle, Installing, PhoneSame
  <2>. QED
    BY <1>0, <1>6, <2>1, RestReconciles
<1>10. ASSUME co.confirmed + 1 # co.staged PROVE AtInstall'
  BY <1>0, <1>1, <1>4, <1>5, <1>6, <1>8, <1>10 DEF AtInstall, Installing, Idle, PhoneSame
<1>11. TypeOK'
  BY <1>1, <1>2, <1>5, TypeStep DEF TypeOK
<1>12. Streams'
  BY <1>0, <1>1, <1>4, <1>5 DEF Streams, Body, PhoneSame, Installing
<1>13. Begun' /\ Kept'
  BY <1>0, <1>1, <1>2, <1>5, BegunSame DEF Kept, Body, PhoneSame
<1>. QED
  BY <1>1, <1>9, <1>10, <1>11, <1>12, <1>13 DEF Conversation, Understood, PhoneSame

-----------------------------------------------------------------------------
(* The steps of the responder.                                             *)

PcSame == pc' = pc /\ co' = co /\ outcome' = outcome /\ urgent' = urgent

LEMMA PhoneTypeStep ==
  ASSUME TypeOK, Typed', PcSame, phone' \in {"dispatch", "loop", "scan", "gate", "hash",
         "batch"},
         re' \in Responder, deferredShare' \in BOOLEAN
  PROVE  TypeOK'
BY DEF TypeOK, Typed, Frames, PcSame

LEMMA SelectKeeps ==
  ASSUME ExchangeAssumption, XInv, Select
  PROVE  XInv'
<1>0. Asks \in Nat /\ Tells \in Nat
  BY Counters
<1>. USE DEF XInv
<1>1. Ask(1) = "SelectShare" /\ PhoneTakes /\ Replies1("Ready", 0) /\ Typed'
  BY PhoneReadsOne DEF Select, F, Message
<1>2. /\ PcSame /\ phone = "dispatch" /\ phone' = "loop" /\ re' = FreshResponder
      /\ deferredShare' = deferredShare
  BY DEF Select, pcVars, PcSame
<1>3. pc = "selected" /\ ~deferredShare
  BY <1>1, <1>2, FirstFrames DEF PhoneTakes, Heads, TypeOK, Understood, QuietFirst
<1>4. Tells = 0 /\ Asks = 1 /\ ~co.sent /\ co = FreshCoordinator
  BY <1>1, <1>2, <1>3 DEF Conversation, AtSelected, Forgetting, Ending
<1>5. AtSelected'
  BY <1>1, <1>2, <1>3, <1>4 DEF AtSelected, PhoneTakes, Replies1, PcSame
<1>6. TypeOK'
  BY <1>1, <1>2, PhoneTypeStep, FreshOnes DEF TypeOK
<1>7. Streams' /\ Begun' /\ Kept'
  BY <1>2, <1>3, <1>4, Consts
  DEF Streams, Begun, Kept, Body, PcSame, FreshResponder, FreshCoordinator
<1>. QED
  BY <1>2, <1>3, <1>5, <1>6, <1>7 DEF Conversation, Understood, PcSame

LEMMA LatePreemptKeeps ==
  ASSUME ExchangeAssumption, XInv, LatePreempt
  PROVE  XInv'
<1>0. Asks \in Nat /\ Tells \in Nat
  BY Counters
<1>. USE DEF XInv
<1>1. Ask(1) = "AuditPreempt" /\ PhoneTakes /\ PcKeeps /\ Typed'
  BY PhoneReadsNone DEF LatePreempt
<1>2. PcSame /\ PhoneSame /\ phone = "dispatch" /\ deferredShare
  BY DEF LatePreempt, pcVars, phoneVars, PcSame, PhoneSame
<1>3. \A kinds : Deferral(kinds) => Deferral(kinds)'
  BY <1>0, <1>1, <1>2 DEF Deferral, PcKeeps, PhoneSame
<1>4. pc \in {"dispatch", "selected", "gate", "hashWait", "deferred"}
  BY <1>1, <1>2, FirstFrames DEF PhoneTakes, Heads, TypeOK, Understood, QuietFirst
<1>5. ASSUME pc = "dispatch" PROVE AtDispatch'
  BY <1>0, <1>1, <1>2, <1>5
  DEF Conversation, AtDispatch, Forgetting, Ending, PhoneTakes, PcKeeps, PcSame, PhoneSame
<1>6. ASSUME pc = "selected" PROVE AtSelected'
  BY <1>0, <1>1, <1>2, <1>6
  DEF Conversation, AtSelected, Forgetting, Ending, PhoneTakes, PcKeeps, PcSame, PhoneSame
<1>7. ASSUME pc = "gate" PROVE AtGate'
  <2>1. Deferral({"ScanAlive"}) /\ LatePre
    BY <1>0, <1>1, <1>2, <1>7 DEF Conversation, AtGate, PhoneTakes
  <2>. QED
    BY <1>0, <1>1, <1>3, <2>1 DEF AtGate, LatePre, PhoneTakes
<1>8. ASSUME pc = "hashWait" PROVE AtHashWait'
  <2>1. /\ LatePre /\ Idle /\ co.stream = "open"
        /\ \/ Deferral({"ScanAlive"})
           \/ Deferral({"ScanAlive", "HashChunk", "HashStreamEnd"}) /\ co.sent
    BY <1>0, <1>1, <1>2, <1>8 DEF Conversation, AtHashWait, Served
  <2>2. LatePre' /\ Idle'
    BY <1>0, <1>1, <1>2, <2>1 DEF LatePre, PhoneTakes, Idle, PcSame
  <2>. QED
    BY <1>2, <1>3, <2>1, <2>2 DEF AtHashWait, PcSame
<1>9. ASSUME pc = "deferred" PROVE AtDeferred'
  BY <1>0, <1>1, <1>2, <1>9
  DEF Conversation, AtDeferred, LatePre, Forgetting, PhoneTakes, PcKeeps, PhoneSame
<1>10. TypeOK'
  BY <1>1, <1>2, PhoneTypeStep DEF TypeOK, PhoneSame
<1>11. Streams' /\ Begun' /\ Kept'
  BY <1>2 DEF Streams, Begun, Kept, Body, PcSame, PhoneSame, FreshResponder
<1>. QED
  BY <1>2, <1>4, <1>5, <1>6, <1>7, <1>8, <1>9, <1>10, <1>11
  DEF Conversation, Understood, PcSame, PhoneSame

LEMMA EndDeferredKeeps ==
  ASSUME ExchangeAssumption, XInv, EndDeferred
  PROVE  XInv'
<1>0. Asks \in Nat /\ Tells \in Nat
  BY Counters
<1>. USE DEF XInv
<1>1. Ask(1) = "RoundDeferred" /\ PhoneTakes /\ PcKeeps /\ Typed'
  BY PhoneReadsNone DEF EndDeferred
<1>2. PcSame /\ phone = "dispatch" /\ phone' = phone /\ re' = re /\ deferredShare' = FALSE
  BY DEF EndDeferred, pcVars, phoneVars, PcSame
<1>3. pc \in {"dispatch", "selected"}
  BY <1>1, <1>2, FirstFrames DEF PhoneTakes, Heads, TypeOK, Understood, QuietFirst
<1>4. ASSUME pc = "dispatch" PROVE AtDispatch'
  BY <1>0, <1>1, <1>2, <1>4
  DEF Conversation, AtDispatch, Forgetting, Ending, PhoneTakes, PcKeeps, PcSame
<1>5. ASSUME pc = "selected" PROVE AtSelected'
  BY <1>0, <1>1, <1>2, <1>5
  DEF Conversation, AtSelected, Forgetting, Ending, PhoneTakes, PcKeeps, PcSame
<1>6. TypeOK'
  BY <1>1, <1>2, PhoneTypeStep DEF TypeOK
<1>7. Streams' /\ Begun' /\ Kept'
  BY <1>2 DEF Streams, Begun, Kept, Body, PcSame, FreshResponder
<1>. QED
  BY <1>2, <1>3, <1>4, <1>5, <1>6, <1>7 DEF Conversation, Understood, PcSame

LEMMA StartScanKeeps ==
  ASSUME ExchangeAssumption, XInv, StartScan
  PROVE  XInv'
<1>0. Asks \in Nat /\ Tells \in Nat
  BY Counters
<1>. USE DEF XInv
<1>1. Ask(1) \in {"Scan", "DeltaScan"} /\ PhoneTakes /\ PcKeeps /\ Typed'
  BY PhoneReadsNone DEF StartScan
<1>2. /\ PcSame /\ phone = "loop" /\ phone' = "scan" /\ deferredShare' = deferredShare
  BY DEF StartScan, Open, pcVars, PcSame
<1>3. /\ re' \in Responder /\ re'.stream = re.stream /\ re'.seq = re.seq /\ re'.deferred = re.deferred
      /\ re'.stages = re.stages /\ re'.batch = re.batch /\ re'.installed = re.installed
  BY DEF StartScan, TypeOK, Responder
<1>4. pc = "gate"
  BY <1>1, <1>2, FirstFrames DEF PhoneTakes, Heads, TypeOK, Understood, QuietFirst
<1>5. /\ Scanning /\ Tells = 0
      /\ \/ ~co.sent /\ Asks = 1
         \/ co.sent /\ Asks = 2 /\ Ask(2) = "AuditPreempt"
  BY <1>1, <1>2, <1>4 DEF Conversation, AtGate, Deferral
<1>6. AtGate'
  BY <1>0, <1>1, <1>2, <1>3, <1>5
  DEF AtGate, Scanning, NoStages, OnlyPre, Alives, PhoneTakes, PcKeeps, PcSame
<1>7. TypeOK'
  BY <1>1, <1>2, <1>3, PhoneTypeStep DEF TypeOK
<1>8. Streams' /\ Begun' /\ Kept'
  BY <1>2, <1>3, <1>4, <1>5, FreshFields DEF Streams, Begun, Kept, Body, PcSame, Scanning
<1>. QED
  BY <1>2, <1>4, <1>6, <1>7, <1>8 DEF Conversation, Understood, PcSame

\* While it scans or hashes, the PC waits at the gate or for the hashes.
LEMMA PhoneWorks ==
  ASSUME ExchangeAssumption, XInv, phone \in {"scan", "hash"}
  PROVE  \/ /\ pc = "gate" /\ phone = "scan" /\ Scanning /\ OnlyPre /\ Alives
         \/ /\ pc = "hashWait" /\ phone = "hash" /\ re.stream = "hashing" /\ re.deferred = 0 /\ re.batch = 0
            /\ Level /\ re.seq = co.seq /\ OnlyPre /\ Alives /\ Idle /\ co.stream = "open"
<1>. USE DEF XInv
<1>1. pc \in {"dispatch", "selected", "gate", "gated", "manifest", "reconcile", "hashWait", "boundary",
              "stage", "install", "confirm", "accepts", "blobs", "barrier", "deferred"}
  BY DEF TypeOK, Understood
<1>2. pc \notin {"dispatch", "selected", "gated", "manifest", "reconcile", "boundary", "stage", "install",
                 "confirm", "accepts", "blobs", "barrier", "deferred"}
  BY DEF Conversation, AtDispatch, AtSelected, AtGated, AtManifest, AtReconcile,
    AtPreempted, AtStage,
         AtInstall, AtConfirm, AtAccepts, AtBlobs, AtBarrier, AtDeferred, Ending,
         Forgetting, Gets, Puts,
         Served, Installing, Deferral
<1>3. pc = "gate" => phone = "scan" /\ Scanning /\ OnlyPre /\ Alives
  BY DEF Conversation, AtGate, Deferral
<1>4. pc = "hashWait" =>
        /\ phone = "hash" /\ re.stream = "hashing" /\ re.deferred = 0 /\ re.batch = 0
        /\ Level /\ re.seq = co.seq /\ OnlyPre /\ Alives /\ Idle /\ co.stream = "open"
  BY DEF Conversation, AtHashWait, Served, Deferral
<1>. QED
  BY <1>1, <1>2, <1>3, <1>4

LEMMA PhoneAliveKeeps ==
  ASSUME ExchangeAssumption, XInv, PhoneAlive
  PROVE  XInv'
<1>0. Asks \in Nat /\ Tells \in Nat
  BY Counters
<1>. USE DEF XInv
<1>1. Replies1("ScanAlive", 0) /\ PhoneKeeps /\ Typed'
  BY AnswersOne DEF PhoneAlive, F, Message
<1>2. PcSame /\ PhoneSame /\ phone \in {"scan", "hash"}
  BY DEF PhoneAlive, pcVars, phoneVars, PcSame, PhoneSame
<1>3. Alives => Alives'
  BY <1>0, <1>1 DEF Alives, Replies1
<1>4. OnlyPre => OnlyPre'
  BY <1>0, <1>1, <1>2 DEF OnlyPre, PhoneKeeps, PcSame
<1>5. ASSUME pc = "gate" PROVE AtGate'
  BY <1>2, <1>3, <1>4, <1>5, PhoneWorks DEF AtGate, Scanning, NoStages, PhoneSame
<1>6. ASSUME pc = "hashWait" PROVE AtHashWait'
  BY <1>2, <1>3, <1>4, <1>6, PhoneWorks DEF AtHashWait, Level, Idle, PhoneSame, PcSame
<1>7. TypeOK'
  BY <1>1, <1>2, PhoneTypeStep DEF TypeOK, PhoneSame
<1>8. Streams' /\ Begun' /\ Kept'
  BY <1>1, <1>2 DEF Streams, Begun, Kept, Body, PcSame, PhoneSame, PhoneKeeps
<1>. QED
  BY <1>2, <1>5, <1>6, <1>7, <1>8, PhoneWorks
  DEF Conversation, Understood, PcSame, PhoneSame

LEMMA ScanEndsKeeps ==
  ASSUME ExchangeAssumption, XInv, ScanEnds
  PROVE  XInv'
<1>0. Asks \in Nat /\ Tells \in Nat
  BY Counters
<1>. USE DEF XInv
<1>1. Replies1("ScanReady", 0) /\ PhoneKeeps /\ Typed'
  BY AnswersOne DEF ScanEnds, F, Message
<1>2. PcSame /\ phone = "scan" /\ phone' = "gate" /\ re' = re /\ deferredShare' = deferredShare
  BY DEF ScanEnds, pcVars, PcSame
<1>3. pc = "gate" /\ Scanning /\ OnlyPre /\ Alives
  BY <1>2, PhoneWorks
<1>4. Says1("ScanReady")'
  BY <1>0, <1>1, <1>3 DEF Alives, Says1, Replies1
<1>5. OnlyPre'
  BY <1>0, <1>1, <1>2, <1>3 DEF OnlyPre, PhoneKeeps, PcSame
<1>6. AtGate'
  BY <1>2, <1>3, <1>4, <1>5 DEF AtGate, Scanning, NoStages
<1>7. TypeOK'
  BY <1>1, <1>2, PhoneTypeStep DEF TypeOK
<1>8. Streams' /\ Begun' /\ Kept'
  BY <1>1, <1>2, <1>3 DEF Streams, Begun, Kept, Body, PcSame, PhoneKeeps
<1>. QED
  BY <1>2, <1>3, <1>6, <1>7, <1>8 DEF Conversation, Understood, PcSame

\* A deferral leaves nothing of the round.
LEMMA DeferralStep ==
  ASSUME ExchangeAssumption, XInv, PcSame, Typed', phone' = "dispatch", re' = FreshResponder,
         deferredShare' = TRUE, Conversation', pc \in Body \cup {"gate", "gated"}
  PROVE  XInv'
<1>1. TypeOK'
  BY PhoneTypeStep, FreshOnes DEF XInv
<1>2. Streams' /\ Begun' /\ Kept'
  BY Consts DEF XInv, Streams, Begun, Kept, Body, PcSame, FreshResponder
<1>. QED
  BY <1>1, <1>2 DEF XInv, Understood, PcSame

LEMMA ScanDefersKeeps ==
  ASSUME ExchangeAssumption, XInv, ScanDefers
  PROVE  XInv'
<1>0. Asks \in Nat /\ Tells \in Nat
  BY Counters
<1>. USE DEF XInv
<1>1. Replies1("ScanDeferred", 0) /\ PhoneKeeps /\ Typed'
  BY AnswersOne DEF ScanDefers, Defers, F, Message
<1>2. /\ PcSame /\ phone \in {"scan", "hash"} /\ phone' = "dispatch" /\ re' = FreshResponder
      /\ deferredShare' = TRUE
  BY DEF ScanDefers, Defers, pcVars, PcSame
<1>3. Alives /\ OnlyPre
  BY <1>2, PhoneWorks
<1>4. Deferral({"ScanAlive"})'
  BY <1>0, <1>1, <1>2, <1>3 DEF Deferral, Alives, Replies1
<1>5. LatePre'
  BY <1>0, <1>1, <1>2, <1>3 DEF OnlyPre, LatePre, PhoneKeeps, PcSame
<1>6. Conversation'
  BY <1>2, <1>4, <1>5, PhoneWorks DEF Conversation, AtGate, AtHashWait, Idle, PcSame
<1>. QED
  BY <1>1, <1>2, <1>6, PhoneWorks, DeferralStep DEF Body

LEMMA PreemptedKeeps ==
  ASSUME ExchangeAssumption, XInv, Preempted
  PROVE  XInv'
<1>0. Asks \in Nat /\ Tells \in Nat
  BY Counters
<1>. USE DEF XInv
<1>1. Ask(1) = "AuditPreempt" /\ PhoneTakes /\ Replies1("ScanDeferred", 0) /\ Typed'
  BY PhoneReadsOne DEF Preempted, F, Message
<1>2. /\ PcSame /\ phone \in {"scan", "gate", "hash", "loop"} /\ phone' = "dispatch"
      /\ re' = FreshResponder /\ deferredShare' = TRUE
  BY DEF Preempted, pcVars, PcSame
<1>3. Asks > 0 /\ Asks' = Asks - 1 /\ Tells' = Tells + 1
  BY <1>1 DEF PhoneTakes, Replies1
<1>4. \A kinds : (\A i \in 1 .. Tells : Tell(i) \in kinds) => Deferral(kinds)'
  BY <1>0, <1>1, <1>2, <1>3 DEF Deferral, Replies1
<1>5. pc \in {"gate", "gated", "hashWait", "boundary", "barrier"}
  BY <1>1, <1>2, <1>3, FirstFrames DEF Heads, TypeOK, Understood, QuietFirst
<1>6. ASSUME pc = "gate" PROVE AtGate'
  <2>1. AtGate
    BY <1>6 DEF Conversation
  <2>2. CASE phone = "scan"
    <3>1. OnlyPre /\ Alives
      BY <1>2, <2>1, <2>2 DEF AtGate, Deferral
    <3>2. Asks' = 0 /\ Deferral({"ScanAlive"})'
      BY <1>0, <1>3, <1>4, <3>1 DEF OnlyPre, Alives
    <3>. QED
      BY <3>2 DEF AtGate, LatePre
  <2>3. CASE phone = "gate"
    <3>1. OnlyPre /\ Says1("ScanReady")
      BY <1>2, <2>1, <2>3 DEF AtGate, Deferral
    <3>2. Asks' = 0 /\ co.sent
      BY <1>0, <1>3, <3>1 DEF OnlyPre
    <3>3. Deferral({"ScanAlive", "ScanReady"})'
      BY <1>0, <1>4, <3>1 DEF Says1
    <3>4. (\A i \in 1 .. Tells - 2 : Tell(i) = "ScanAlive")'
      BY <1>0, <1>1, <1>3, <3>1 DEF Says1, Replies1
    <3>. QED
      BY <1>2, <3>2, <3>3, <3>4 DEF AtGate, PcSame
  <2>. QED
    BY <1>1, <1>2, <2>1, <2>2, <2>3 DEF AtGate, Deferral
<1>7. ASSUME pc = "gated" PROVE AtGated'
  <2>1. Tells = 0 /\ OnlyPre /\ co.sent
    BY <1>2, <1>7 DEF Conversation, AtGated, Deferral
  <2>2. Asks' = 0 /\ Tells' = 1 /\ Deferral({})'
    BY <1>0, <1>3, <1>4, <2>1 DEF OnlyPre
  <2>. QED
    BY <1>2, <2>1, <2>2 DEF AtGated, PcSame
<1>8. ASSUME pc = "hashWait" PROVE AtHashWait'
  <2>1. AtHashWait /\ Idle /\ co.stream = "open"
    BY <1>8 DEF Conversation, AtHashWait
  <2>2. ~LastAsk("HashNext", co.seq)
    <3>1. Quiet(1) => FALSE
      BY <1>1 DEF Quiet
    <3>. QED
      BY <1>0, <1>1, <1>3, <3>1, HushedOrNot DEF LastAsk
  <2>3. OnlyPre /\ (Alives \/ Told("HashChunk") \/ Told("HashStreamEnd"))
    BY <1>2, <2>1, <2>2 DEF AtHashWait, Deferral
  <2>4. Asks' = 0 /\ co.sent
    BY <1>0, <1>3, <2>3 DEF OnlyPre
  <2>5. \A i \in 1 .. Tells : Tell(i) \in {"ScanAlive", "HashChunk", "HashStreamEnd"}
    BY <1>0, <2>3 DEF Alives, Told, Says1
  <2>6. Deferral({"ScanAlive", "HashChunk", "HashStreamEnd"})'
    BY <1>4, <2>5
  <2>. QED
    BY <1>2, <2>1, <2>4, <2>6 DEF AtHashWait, Idle, LatePre, PcSame
<1>9. ASSUME pc = "boundary" PROVE AtPreempted'
  <2>1. /\ Tells = 0 /\ Hushed(1) /\ Idle /\ co.sent /\ co.stream = "open"
    BY <1>2, <1>9 DEF Conversation, AtPreempted, Deferral
  <2>2. Asks = 1
    BY <1>0, <1>1, <1>3, <2>1, HushedOrNot DEF Quiet
  <2>3. Asks' = 0 /\ Tells' = 1 /\ Deferral({})'
    BY <1>0, <1>3, <1>4, <2>1, <2>2
  <2>. QED
    BY <1>2, <2>1, <2>3 DEF AtPreempted, Idle, PcSame
<1>10. ASSUME pc = "barrier" PROVE AtBarrier'
  <2>1. Tells = 0 /\ Asks = 1 /\ co.gets = 0 /\ co.deferring
    BY <1>2, <1>10 DEF Conversation, AtBarrier, Deferral
  <2>2. Asks' = 0 /\ Tells' = 1 /\ Deferral({})'
    BY <1>0, <1>3, <1>4, <2>1
  <2>. QED
    BY <1>2, <2>1, <2>2 DEF AtBarrier, PcSame
<1>11. Conversation'
  BY <1>2, <1>5, <1>6, <1>7, <1>8, <1>9, <1>10 DEF Conversation, PcSame
<1>. QED
  BY <1>1, <1>2, <1>5, <1>11, DeferralStep DEF Body

LEMMA GateOpensKeeps ==
  ASSUME ExchangeAssumption, XInv, GateOpens
  PROVE  XInv'
<1>0. Asks \in Nat /\ Tells \in Nat
  BY Counters
<1>. USE DEF XInv
<1>1. /\ PcSame /\ phone = "gate" /\ phone' = "loop" /\ deferredShare' = deferredShare
  BY DEF GateOpens, pcVars, PcSame
<1>2. PICK kind \in {"DeltaManifest", "NeedFullScan", "Namespace"} :
        /\ PhoneReads("ScanContinue", F(kind))
        /\ kind # "Namespace" => re' = re
        /\ kind = "Namespace" => re' = [re EXCEPT !.stream = "named", !.seq = 0]
  BY DEF GateOpens
<1>3. Ask(1) = "ScanContinue" /\ PhoneTakes /\ Replies1(kind, 0) /\ Typed'
  BY <1>2, PhoneReadsOne DEF F, Message
<1>4. Asks > 0 /\ Asks' = Asks - 1 /\ Tells' = Tells + 1
  BY <1>3 DEF PhoneTakes, Replies1
<1>5. pc = "manifest"
  BY <1>1, <1>3, <1>4, FirstFrames DEF Heads, TypeOK, Understood, QuietFirst
<1>6. NoStages /\ re.stream = "none" /\ Tells = 0 /\ Asks = 1
  BY <1>1, <1>5 DEF Conversation, AtManifest
<1>7. /\ re' \in Responder /\ re'.stages = 0 /\ re'.deferred = 0 /\ re'.batch = 0 /\ re'.installed = 0
      /\ re'.seq = 0 /\ re'.stream = IF kind = "Namespace" THEN "named" ELSE "none"
  BY <1>2, <1>6 DEF TypeOK, Responder, NoStages
<1>8. Tells' = 1 /\ Tell(1)' = kind /\ Asks' = 0
  BY <1>3, <1>4, <1>6 DEF Replies1
<1>9. AtManifest'
  BY <1>1, <1>7, <1>8 DEF AtManifest, NoStages
<1>10. TypeOK'
  BY <1>1, <1>3, <1>7, PhoneTypeStep DEF TypeOK
<1>11. Streams' /\ Begun' /\ Kept'
  BY <1>1, <1>5, <1>7, Consts, FreshFields DEF Streams, Begun, Kept, Body, PcSame
<1>. QED
  BY <1>1, <1>5, <1>9, <1>10, <1>11 DEF Conversation, Understood, PcSame

-----------------------------------------------------------------------------
\* The phone reads a frame that asks for nothing.
QuietRead ==
  /\ PcSame /\ PcKeeps /\ PhoneTakes /\ Typed' /\ Quiet(1)
  /\ phone = "loop" /\ phone' = "loop" /\ deferredShare' = deferredShare
  /\ re.deferred = 0
  /\ \/ re' = re /\ re.stream # "named"
     \/ /\ re.stream = "named" /\ re'.stream \in {"hashing", "deferred"}
        /\ re' = [re EXCEPT !.stream = re'.stream]

LEMMA QuietReads ==
  ASSUME ExchangeAssumption, XInv, QuietRead
  PROVE  /\ re' \in Responder /\ re'.seq = re.seq /\ re'.deferred = re.deferred
         /\ re'.stages = re.stages /\ re'.batch = re.batch /\ re'.installed = re.installed
         /\ re'.completed = re.completed /\ re'.stream # "named"
         /\ re'.stream = re.stream \/ (re.stream = "named" /\ re'.stream \in {"hashing", "deferred"})
         /\ \A i \in Nat : 0 < i /\ i < Asks /\ Quiet(i + 1) => Quiet(i)'
         /\ Asks > 0 /\ Asks' = Asks - 1
         /\ \A i \in 1 .. Asks - 1 : Ask(i)' = Ask(i + 1) /\ AskNo(i)' = AskNo(i + 1)
<1>1. Asks \in Nat
  BY Numbers DEF XInv
<1>2. /\ Asks > 0 /\ Asks' = Asks - 1
      /\ \A i \in 1 .. Asks - 1 : Ask(i)' = Ask(i + 1) /\ AskNo(i)' = AskNo(i + 1)
  BY DEF QuietRead, PhoneTakes
<1>3. re \in Responder
  BY DEF XInv, TypeOK
<1>4. /\ re' \in Responder /\ re'.seq = re.seq /\ re'.deferred = re.deferred
      /\ re'.stages = re.stages /\ re'.batch = re.batch /\ re'.installed = re.installed
      /\ re'.completed = re.completed /\ re'.stream # "named"
      /\ re'.stream = re.stream \/ (re.stream = "named" /\ re'.stream \in {"hashing", "deferred"})
  <2>1. CASE re' = re /\ re.stream # "named"
    BY <1>3, <2>1
  <2>2. CASE /\ re.stream = "named" /\ re'.stream \in {"hashing", "deferred"}
             /\ re' = [re EXCEPT !.stream = re'.stream]
    BY <1>3, <2>2 DEF Responder
  <2>. QED
    BY <2>1, <2>2 DEF QuietRead
<1>5. ASSUME NEW i \in Nat, 0 < i, i < Asks, Quiet(i + 1)
      PROVE  Quiet(i)'
  <2>1. Ask(i)' = Ask(i + 1)
    BY <1>1, <1>2, <1>5
  <2>2. \/ Ask(i + 1) = "AckBatch"
        \/ Ask(i + 1) = "HashRelease" /\ re.stream = "hashing"
    BY <1>5 DEF Quiet
  <2>. QED
    BY <1>4, <2>1, <2>2 DEF Quiet
<1>. QED
  BY <1>2, <1>4, <1>5

\* What is quiet stays so, one place nearer.
LEMMA QuietlyReads ==
  ASSUME ExchangeAssumption, XInv, QuietRead, NEW w \in Nat, NEW n \in Nat, NEW kind,
         Quietly(w, kind, n), Asks > w + n
  PROVE  Quietly(w, kind, n)'
<1>1. Asks \in Nat
  BY Numbers DEF XInv
<1>2. /\ \A i \in Nat : 0 < i /\ i < Asks /\ Quiet(i + 1) => Quiet(i)'
      /\ Asks' = Asks - 1 /\ \A i \in 1 .. Asks - 1 : Ask(i)' = Ask(i + 1)
  BY QuietReads
<1>3. \A i \in 1 .. Asks - 1 - n - w : Quiet(i)'
  BY <1>1, <1>2 DEF Quietly
<1>4. \A i \in 1 .. Asks - 1 - n : i > Asks - 1 - n - w => Ask(i)' = kind
  BY <1>1, <1>2 DEF Quietly
<1>. QED
  BY <1>1, <1>2, <1>3, <1>4 DEF Quietly

LEMMA HushedReads ==
  ASSUME ExchangeAssumption, XInv, QuietRead, NEW n \in Nat, n > 0, Hushed(n), Asks > n
  PROVE  Hushed(n)' /\ Ask(Asks)' = Ask(Asks) /\ AskNo(Asks)' = AskNo(Asks)
         /\ (n = 2 => Ask(Asks - 1)' = Ask(Asks - 1) /\ AskNo(Asks - 1)' = AskNo(Asks - 1))
<1>1. Asks \in Nat
  BY Numbers DEF XInv
<1>2. /\ \A i \in Nat : 0 < i /\ i < Asks /\ Quiet(i + 1) => Quiet(i)'
      /\ Asks' = Asks - 1 /\ \A i \in 1 .. Asks - 1 : Ask(i)' = Ask(i + 1) /\ AskNo(i)' = AskNo(i + 1)
  BY QuietReads
<1>3. \A i \in 1 .. Asks - 1 - n : Quiet(i)'
  BY <1>1, <1>2 DEF Hushed
<1>4. Hushed(n)'
  BY <1>1, <1>2, <1>3 DEF Hushed
<1>5. Ask(Asks)' = Ask(Asks) /\ AskNo(Asks)' = AskNo(Asks)
  BY <1>1, <1>2
<1>6. n = 2 => Ask(Asks - 1)' = Ask(Asks - 1) /\ AskNo(Asks - 1)' = AskNo(Asks - 1)
  BY <1>1, <1>2
<1>. QED
  BY <1>4, <1>5, <1>6

LEMMA QuietReadKeeps ==
  ASSUME ExchangeAssumption, XInv, QuietRead
  PROVE  XInv'
<1>0. /\ Asks \in Nat /\ Tells \in Nat /\ co.gets \in Nat /\ co.puts \in Nat /\ re.batch \in Nat
      /\ Window \in Nat
  BY Counters
<1>. USE DEF XInv
<1>1. /\ PcSame /\ PcKeeps /\ Typed' /\ Quiet(1)
      /\ phone = "loop" /\ phone' = "loop" /\ deferredShare' = deferredShare /\ re.deferred = 0
  BY DEF QuietRead
<1>2. /\ re' \in Responder /\ re'.seq = re.seq /\ re'.deferred = re.deferred
      /\ re'.stages = re.stages /\ re'.batch = re.batch /\ re'.installed = re.installed
      /\ re'.completed = re.completed /\ re'.stream # "named"
      /\ re'.stream = re.stream \/ (re.stream = "named" /\ re'.stream \in {"hashing", "deferred"})
  BY QuietReads
<1>3. Asks > 0 /\ Asks' = Asks - 1
  BY QuietReads
<1>4. Ask(1) \in {"AckBatch", "HashRelease", "HashStreamBegin"}
  BY <1>1 DEF Quiet
<1>5. pc \in {"dispatch", "selected", "reconcile", "hashWait", "boundary", "stage", "accepts", "blobs"}
  BY <1>1, <1>3, <1>4, FirstFrames DEF Heads, TypeOK, Understood
<1>6. \A n \in Nat : Hushed(n) => Asks >= n
  BY DEF Hushed
<1>7. ASSUME pc = "dispatch" PROVE AtDispatch'
  <2>1. Tells = 0 /\ outcome = "committed" /\ ~co.sent /\ Ending(1) /\ Ask(Asks) = "Done"
        /\ re.installed = co.recorded
    BY <1>1, <1>7 DEF Conversation, AtDispatch, Forgetting
  <2>2. Asks > 1
    BY <1>0, <1>3, <1>4, <2>1
  <2>3. Hushed(1)' /\ Ask(Asks)' = "Done"
    BY <2>1, <2>2, HushedReads DEF Ending
  <2>4. Ending(1)'
    BY <1>1, <1>2, <2>1, <2>3 DEF Ending
  <2>. QED
    BY <1>1, <1>2, <2>1, <2>3, <2>4 DEF AtDispatch, PcSame, PcKeeps
<1>8. ASSUME pc = "selected" PROVE AtSelected'
  <2>1. Tells = 0 /\ ~co.sent /\ co = FreshCoordinator
        /\ Ending(2) /\ Ask(Asks - 1) = "Done" /\ Ask(Asks) = "SelectShare"
    BY <1>1, <1>3, <1>8 DEF Conversation, AtSelected, Forgetting
  <2>2. Asks > 2
    BY <1>0, <1>3, <1>4, <1>6, <2>1 DEF Ending
  <2>3. Hushed(2)' /\ Ask(Asks)' = "SelectShare" /\ Ask(Asks - 1)' = "Done"
    BY <2>1, <2>2, HushedReads DEF Ending
  <2>4. Ending(2)'
    BY <1>1, <1>2, <2>1, <2>3 DEF Ending
  <2>. QED
    BY <1>1, <1>2, <2>1, <2>3, <2>4 DEF AtSelected, PcSame, PcKeeps
<1>9. Gets => Gets'
  <2>1. SUFFICES ASSUME Gets PROVE Gets'
    OBVIOUS
  <2>2. PICK w \in Int : w = co.gets - Tells
    BY <1>0
  <2>3. w >= 0 /\ Quietly(w, "Get", 0) /\ (re.deferred > 0 \/ Tells > 0 => Asks = w)
    BY <1>0, <2>1, <2>2 DEF Gets
  <2>4. Asks > w
    BY <1>0, <1>3, <1>4, <2>3, QuietOrNot
  <2>5. Quietly(w, "Get", 0)'
    BY <2>3, <2>4, QuietlyReads
  <2>6. Deferring'
    BY <1>0, <1>1, <1>2, <2>1 DEF Gets, Deferring, PcSame, PcKeeps
  <2>7. Tells = 0 /\ Tells' = 0
    BY <1>0, <1>1, <2>3, <2>4 DEF PcKeeps
  <2>. QED
    BY <1>0, <1>1, <1>2, <2>1, <2>2, <2>5, <2>6, <2>7 DEF Gets, PcSame
<1>10. ASSUME NEW n \in {0, 1}, Puts(n), n = 1 => Ask(Asks) = "PutBatchEnd"
       PROVE  Puts(n)' /\ (n = 1 => Ask(Asks)' = "PutBatchEnd")
  <2>1. PICK w \in Int : w = co.puts - re.batch
    BY <1>0
  <2>2. w >= 0 /\ Quietly(w, "Put", n)
    BY <1>0, <1>10, <2>1 DEF Puts
  <2>3. Asks > w + n
    BY <1>0, <1>3, <1>4, <1>10, <2>2, QuietOrNot
  <2>4. Quietly(w, "Put", n)'
    BY <2>2, <2>3, QuietlyReads
  <2>5. ASSUME n = 1 PROVE Ask(Asks)' = "PutBatchEnd"
    <3>1. Asks > 1
      BY <1>0, <2>2, <2>3, <2>5
    <3>2. \A i \in 1 .. Asks - 1 : Ask(i)' = Ask(i + 1)
      BY QuietReads
    <3>. QED
      BY <1>0, <1>3, <1>10, <2>5, <3>1, <3>2
  <2>6. Puts(n)'
    BY <1>0, <1>1, <1>2, <1>10, <2>1, <2>4 DEF Puts, PcSame, PcKeeps
  <2>. QED
    BY <2>5, <2>6
<1>11. ASSUME pc = "reconcile" PROVE AtReconcile'
  BY <1>1, <1>2, <1>9, <1>10, <1>11 DEF Conversation, AtReconcile, PcSame, PcKeeps
<1>12. ASSUME pc = "blobs" PROVE AtBlobs'
  BY <1>1, <1>2, <1>9, <1>12 DEF Conversation, AtBlobs, Level, PcSame
<1>13. ASSUME pc = "accepts" PROVE AtAccepts'
  <2>1. Puts(1) /\ Ask(Asks) = "PutBatchEnd" /\ co.puts > 0 /\ ~co.deferring
        /\ re.stages = co.staged - co.confirmed
    BY <1>3, <1>13 DEF Conversation, AtAccepts
  <2>2. Puts(1)' /\ Ask(Asks)' = "PutBatchEnd"
    BY <1>10, <2>1
  <2>. QED
    BY <1>1, <1>2, <2>1, <2>2 DEF AtAccepts, PcSame
<1>14. ASSUME pc = "boundary" PROVE AtPreempted'
  <2>1. /\ Served(0) /\ Tells = 0 /\ re.stream \in {"named", "hashing", "deferred"}
        /\ Hushed(1) /\ Ask(Asks) = "AuditPreempt" /\ Idle /\ co.sent /\ co.stream = "open"
    BY <1>1, <1>3, <1>14 DEF Conversation, AtPreempted
  <2>2. Asks > 1
    BY <1>0, <1>3, <1>4, <2>1
  <2>3. Hushed(1)' /\ Ask(Asks)' = "AuditPreempt"
    BY <2>1, <2>2, HushedReads
  <2>. QED
    BY <1>1, <1>2, <2>1, <2>3 DEF AtPreempted, Idle, Served, Level, PcSame, PcKeeps
<1>15. ASSUME pc = "stage" PROVE AtStage'
  <2>1. /\ Idle /\ co.item = "put" /\ co.stream = "open" /\ co.staged < Window
        /\ re.deferred = 0 /\ re.batch = 0 /\ re.installed = co.recorded
        /\ Tells = 0 /\ Level
        /\ Hushed(1) /\ Ask(Asks) = "StagePut" /\ AskNo(Asks) = co.staged
    BY <1>3, <1>15 DEF Conversation, AtStage
  <2>2. Asks > 1
    BY <1>0, <1>3, <1>4, <2>1
  <2>3. Hushed(1)' /\ Ask(Asks)' = "StagePut" /\ AskNo(Asks)' = co.staged
    BY <2>1, <2>2, HushedReads
  <2>. QED
    BY <1>1, <1>2, <2>1, <2>3 DEF AtStage, Idle, Level, PcSame, PcKeeps
<1>16. ASSUME pc = "hashWait" PROVE AtHashWait'
  <2>1. /\ Idle /\ co.stream = "open" /\ Served(0) /\ Tells = 0 /\ LastAsk("HashNext", co.seq)
        /\ re.stream \in {"named", "hashing", "deferred"}
    BY <1>0, <1>1, <1>3, <1>4, <1>16 DEF Conversation, AtHashWait, OnlyPre, Deferral
  <2>2. LastAsk("HashNext", co.seq)'
    <3>1. CASE ~co.sent
      <4>1. Hushed(1) /\ Ask(Asks) = "HashNext" /\ AskNo(Asks) = co.seq
        BY <2>1, <3>1 DEF LastAsk
      <4>2. Asks > 1
        BY <1>0, <1>3, <1>4, <4>1
      <4>3. Hushed(1)' /\ Ask(Asks)' = "HashNext" /\ AskNo(Asks)' = co.seq
        BY <4>1, <4>2, HushedReads
      <4>. QED
        BY <1>1, <3>1, <4>3 DEF LastAsk, PcSame
    <3>2. CASE co.sent
      <4>1. Hushed(2) /\ Ask(Asks - 1) = "HashNext" /\ AskNo(Asks - 1) = co.seq
            /\ Ask(Asks) = "AuditPreempt"
        BY <2>1, <3>2 DEF LastAsk
      <4>2. Asks > 2
        BY <1>0, <1>3, <1>4, <1>6, <4>1
      <4>3. Hushed(2)' /\ Ask(Asks - 1)' = "HashNext" /\ AskNo(Asks - 1)' = co.seq
            /\ Ask(Asks)' = "AuditPreempt"
        BY <4>1, <4>2, HushedReads
      <4>. QED
        BY <1>1, <3>2, <4>3 DEF LastAsk, PcSame
    <3>. QED
      BY <3>1, <3>2
  <2>. QED
    BY <1>1, <1>2, <2>1, <2>2 DEF AtHashWait, Idle, Served, Level, PcSame, PcKeeps
<1>17. TypeOK'
  BY <1>1, <1>2, PhoneTypeStep DEF TypeOK
<1>18. Streams'
  BY <1>1, <1>2, <1>5 DEF Streams, Body, PcSame
<1>19. Begun' /\ Kept'
  BY <1>1, <1>2 DEF Begun, Kept, Body, PcSame
<1>. QED
  BY <1>1, <1>5, <1>7, <1>8, <1>11, <1>12, <1>13, <1>14, <1>15, <1>16, <1>17, <1>18, <1>19
     DEF Conversation, Understood, PcSame

LEMMA ReadsQuietly ==
  ASSUME ExchangeAssumption, XInv, BeginHashes \/ ReleaseHashes \/ Acknowledged
  PROVE  QuietRead
<1>. USE DEF XInv
<1>1. CASE BeginHashes
  <2>1. Ask(1) = "HashStreamBegin" /\ PhoneTakes /\ PcKeeps /\ Typed'
    BY <1>1, PhoneReadsNone DEF BeginHashes
  <2>. QED
    BY <1>1, <2>1 DEF BeginHashes, Open, QuietRead, Quiet, pcVars, PcSame, TypeOK, Responder
<1>2. CASE ReleaseHashes
  <2>1. Ask(1) = "HashRelease" /\ PhoneTakes /\ PcKeeps /\ Typed'
    BY <1>2, PhoneReadsNone DEF ReleaseHashes
  <2>2. PcSame /\ PhoneSame /\ Hashing
    BY <1>2 DEF ReleaseHashes, pcVars, phoneVars, PcSame, PhoneSame
  <2>3. QuietFirst
    BY <2>1, <2>2, FirstFrames DEF PhoneTakes, Heads, Hashing, Open, TypeOK, Understood
  <2>. QED
    BY <2>1, <2>2, <2>3 DEF QuietRead, QuietFirst, Quiet, Hashing, Open, PhoneSame
<1>3. CASE Acknowledged
  <2>1. Ask(1) = "AckBatch" /\ PhoneTakes /\ PcKeeps /\ Typed'
    BY <1>3, PhoneReadsNone DEF Acknowledged
  <2>2. PcSame /\ PhoneSame /\ Open
    BY <1>3 DEF Acknowledged, pcVars, phoneVars, PcSame, PhoneSame
  <2>3. pc # "manifest"
    BY <2>1, <2>2, FirstFrames DEF PhoneTakes, Heads, Open
  <2>4. re.stream # "named"
    BY <2>1, <2>3 DEF Begun
  <2>. QED
    BY <2>1, <2>2, <2>4 DEF QuietRead, Quiet, Open, PhoneSame
<1>. QED
  BY <1>1, <1>2, <1>3

-----------------------------------------------------------------------------
\* The hash stream and the staged files.

LEMMA ReadsNextKeeps ==
  ASSUME ExchangeAssumption, XInv, ReadsNext
  PROVE  XInv'
<1>0. Asks \in Nat /\ Tells \in Nat
  BY Counters
<1>. USE DEF XInv
<1>1. PcSame /\ Hashing /\ phone = "loop" /\ re.deferred = 0
  BY DEF ReadsNext, Hashing, Open, pcVars, PcSame
<1>2. Ask(1) = "HashNext" /\ PhoneTakes /\ Typed'
  BY PhoneReadsNone, PhoneReadsOne DEF ReadsNext, F, Message
<1>3. Asks > 0 /\ Asks' = Asks - 1
  BY <1>2 DEF PhoneTakes
<1>4. pc = "hashWait"
  BY <1>1, <1>2, <1>3, FirstFrames DEF Heads, TypeOK, Understood, QuietFirst
<1>5. Idle /\ co.stream = "open" /\ Served(0) /\ Tells = 0 /\ LastAsk("HashNext", co.seq)
  BY <1>0, <1>1, <1>2, <1>3, <1>4 DEF Conversation, AtHashWait, OnlyPre, Deferral
<1>6. OnlyPre'
  <2>1. ~Quiet(1)
    BY <1>2 DEF Quiet
  <2>2. CASE ~co.sent
    <3>1. Asks = 1
      BY <1>0, <1>3, <1>5, <2>1, <2>2, HushedOrNot DEF LastAsk
    <3>. QED
      BY <1>1, <1>3, <2>2, <3>1 DEF OnlyPre, PcSame
  <2>3. CASE co.sent
    <3>1. Asks = 2 /\ Ask(2) = "AuditPreempt"
      BY <1>0, <1>3, <1>5, <2>1, <2>3, HushedOrNot DEF LastAsk
    <3>. QED
      BY <1>1, <1>2, <1>3, <2>3, <3>1 DEF OnlyPre, PcSame, PhoneTakes
  <2>. QED
    BY <2>2, <2>3
<1>7. CASE re.stream = "deferred"
  <2>1. PhoneReads("HashNext", F("ScanDeferred")) /\ phone' = "dispatch" /\ re' = FreshResponder
        /\ deferredShare' = TRUE
    BY <1>7 DEF ReadsNext
  <2>2. Replies1("ScanDeferred", 0)
    BY <2>1, PhoneReadsOne DEF F, Message
  <2>3. Deferral({"ScanAlive"})'
    BY <1>0, <1>5, <2>1, <2>2 DEF Deferral, Replies1
  <2>4. AtHashWait'
    BY <1>1, <1>5, <1>6, <2>3 DEF AtHashWait, OnlyPre, LatePre, Idle, PcSame
  <2>. QED
    BY <1>1, <1>2, <1>4, <2>1, <2>4, DeferralStep DEF Conversation, Body, PcSame
<1>8. CASE re.stream # "deferred"
  <2>1. PhoneReads("HashNext", <<>>) /\ phone' = "hash" /\ re' = re /\ deferredShare' = deferredShare
    BY <1>8 DEF ReadsNext
  <2>2. PcKeeps
    BY <2>1, PhoneReadsNone
  <2>3. re.stream = "hashing"
    BY <1>1, <1>2, <1>4, <1>8 DEF Begun, Hashing
  <2>4. AtHashWait'
    BY <1>0, <1>1, <1>5, <1>6, <2>1, <2>2, <2>3, Numbers
       DEF AtHashWait, Alives, Idle, Served, Level, PcSame, PcKeeps
  <2>5. TypeOK'
    BY <1>1, <1>2, <2>1, PhoneTypeStep DEF TypeOK
  <2>6. Streams' /\ Begun' /\ Kept'
    BY <1>1, <1>4, <1>5, <2>1, <2>3 DEF Streams, Begun, Kept, Body, PcSame
  <2>. QED
    BY <1>1, <1>4, <2>1, <2>4, <2>5, <2>6 DEF Conversation, Understood, PcSame
<1>. QED
  BY <1>7, <1>8

LEMMA SendChunkKeeps ==
  ASSUME ExchangeAssumption, XInv, SendChunk
  PROVE  XInv'
<1>0. Asks \in Nat /\ Tells \in Nat /\ re.seq \in Nat /\ Len(Chunks) \in Nat
  BY Counters
<1>. USE DEF XInv
<1>1. /\ PcSame /\ phone = "hash" /\ phone' = "loop" /\ deferredShare' = deferredShare
      /\ re' = [re EXCEPT !.seq = @ + 1] /\ re.seq < Len(Chunks)
  BY DEF SendChunk, pcVars, PcSame
<1>2. Replies1("HashChunk", re.seq) /\ PhoneKeeps /\ Typed'
  BY <1>0, AnswersOne DEF SendChunk, Message
<1>3. /\ pc = "hashWait" /\ re.stream = "hashing" /\ re.deferred = 0 /\ re.batch = 0
      /\ Level /\ re.seq = co.seq /\ OnlyPre /\ Alives /\ Idle /\ co.stream = "open"
  BY <1>1, PhoneWorks
<1>4. /\ re' \in Responder /\ re'.seq = re.seq + 1 /\ re'.stream = re.stream
      /\ re'.deferred = re.deferred /\ re'.stages = re.stages /\ re'.batch = re.batch
      /\ re'.installed = re.installed
  <2>1. re.seq + 1 \in Nat
    BY <1>0
  <2>. QED
    BY <1>1, <2>1 DEF TypeOK, Responder
<1>5. Told("HashChunk")'
  <2>1. Says1("HashChunk")'
    BY <1>0, <1>2, <1>3 DEF Says1, Alives, Replies1
  <2>2. TellNo(Tells)' = re.seq
    BY <1>0, <1>2 DEF Replies1
  <2>. QED
    BY <1>1, <1>3, <2>1, <2>2 DEF Told, PcSame
<1>6. OnlyPre'
  BY <1>0, <1>1, <1>2, <1>3 DEF OnlyPre, PhoneKeeps, PcSame
<1>7. AtHashWait'
  BY <1>1, <1>3, <1>4, <1>5, <1>6 DEF AtHashWait, Idle, Served, Level, PcSame
<1>8. TypeOK'
  BY <1>1, <1>2, <1>4, PhoneTypeStep DEF TypeOK
<1>9. Streams' /\ Begun' /\ Kept'
  BY <1>0, <1>1, <1>3, <1>4 DEF Streams, Begun, Kept, Body, PcSame
<1>. QED
  BY <1>1, <1>3, <1>7, <1>8, <1>9 DEF Conversation, Understood, PcSame

LEMMA EndStreamKeeps ==
  ASSUME ExchangeAssumption, XInv, EndStream
  PROVE  XInv'
<1>0. Asks \in Nat /\ Tells \in Nat /\ re.seq \in Nat /\ co.seq \in Nat
  BY Counters
<1>. USE DEF XInv
<1>1. /\ PcSame /\ phone = "hash" /\ phone' = "loop" /\ deferredShare' = deferredShare
      /\ re' = [re EXCEPT !.stream = "none", !.completed = TRUE]
  BY DEF EndStream, pcVars, PcSame
<1>2. Replies1("HashStreamEnd", re.seq) /\ PhoneKeeps /\ Typed'
  BY <1>0, AnswersOne DEF EndStream, Message
<1>3. /\ pc = "hashWait" /\ re.stream = "hashing" /\ re.deferred = 0 /\ re.batch = 0
      /\ Level /\ re.seq = co.seq /\ OnlyPre /\ Alives /\ Idle /\ co.stream = "open"
  BY <1>1, PhoneWorks
<1>4. /\ re' \in Responder /\ re'.seq = re.seq /\ re'.stream = "none" /\ re'.completed
      /\ re'.deferred = re.deferred /\ re'.stages = re.stages /\ re'.batch = re.batch
      /\ re'.installed = re.installed
  BY <1>1 DEF TypeOK, Responder
<1>5. Told("HashStreamEnd")'
  <2>1. Says1("HashStreamEnd")'
    BY <1>0, <1>2, <1>3 DEF Says1, Alives, Replies1
  <2>2. TellNo(Tells)' = re.seq
    BY <1>0, <1>2 DEF Replies1
  <2>. QED
    BY <1>1, <1>3, <2>1, <2>2 DEF Told, PcSame
<1>6. OnlyPre'
  BY <1>0, <1>1, <1>2, <1>3 DEF OnlyPre, PhoneKeeps, PcSame
<1>7. AtHashWait'
  BY <1>0, <1>1, <1>3, <1>4, <1>5, <1>6 DEF AtHashWait, Idle, Served, Level, PcSame
<1>8. TypeOK'
  BY <1>1, <1>2, <1>4, PhoneTypeStep DEF TypeOK
<1>9. Streams' /\ Begun' /\ Kept'
  BY <1>0, <1>1, <1>3, <1>4 DEF Streams, Begun, Kept, Body, PcSame
<1>. QED
  BY <1>1, <1>3, <1>7, <1>8, <1>9 DEF Conversation, Understood, PcSame

LEMMA ReceiveStageKeeps ==
  ASSUME ExchangeAssumption, XInv, ReceiveStage
  PROVE  XInv'
<1>0. /\ Asks \in Nat /\ Tells \in Nat /\ Window \in Nat /\ re.stages \in 0 .. Window
      /\ co.staged \in Nat /\ co.confirmed \in Nat
  BY Counters
<1>. USE DEF XInv
<1>1. /\ PcSame /\ phone = "loop" /\ phone' = "loop" /\ deferredShare' = deferredShare
      /\ re.stages < Window /\ re' = [re EXCEPT !.stages = @ + 1]
  BY DEF ReceiveStage, Hashing, Open, pcVars, PcSame
<1>. re.stages \in Nat
  BY <1>0
<1>2. Ask(1) = "StagePut" /\ PhoneTakes /\ Replies1("StageReceived", re.stages) /\ Typed'
  BY <1>0, PhoneReadsOne DEF ReceiveStage, Message
<1>3. Asks > 0 /\ Asks' = Asks - 1 /\ Tells' = Tells + 1
  BY <1>2 DEF PhoneTakes, Replies1
<1>4. pc = "stage"
  BY <1>1, <1>2, <1>3, FirstFrames DEF Heads, TypeOK, Understood, QuietFirst
<1>5. /\ Idle /\ co.item = "put" /\ co.stream = "open" /\ co.staged < Window
      /\ re.deferred = 0 /\ re.batch = 0 /\ re.installed = co.recorded
      /\ Tells = 0 /\ Level /\ Hushed(1)
  BY <1>3, <1>4 DEF Conversation, AtStage
<1>6. Asks = 1
  BY <1>0, <1>2, <1>3, <1>5, HushedOrNot DEF Quiet
<1>7. re.stages = co.staged
  BY <1>0, <1>5 DEF Level, Streams
<1>8. /\ re' \in Responder /\ re'.stages = re.stages + 1 /\ re'.stream = re.stream
      /\ re'.deferred = re.deferred /\ re'.seq = re.seq /\ re'.batch = re.batch
      /\ re'.installed = re.installed
  <2>1. re.stages + 1 \in 0 .. Window
    BY <1>0, <1>1
  <2>. QED
    BY <1>1, <2>1 DEF TypeOK, Responder
<1>9. Tells' = 1 /\ Tell(1)' = "StageReceived" /\ TellNo(1)' = co.staged /\ Asks' = 0
  BY <1>2, <1>3, <1>5, <1>6, <1>7 DEF Replies1
<1>10. AtStage'
  BY <1>1, <1>5, <1>7, <1>8, <1>9 DEF AtStage, Idle, PcSame
<1>11. TypeOK'
  BY <1>1, <1>2, <1>8, PhoneTypeStep DEF TypeOK
<1>12. re.stream # "named"
  BY <1>2, <1>4 DEF Begun
<1>13. Streams' /\ Begun' /\ Kept'
  BY <1>1, <1>4, <1>8, <1>12 DEF Streams, Begun, Kept, Body, PcSame
<1>. QED
  BY <1>1, <1>4, <1>10, <1>11, <1>13 DEF Conversation, Understood, PcSame

LEMMA InstallKeeps ==
  ASSUME ExchangeAssumption, XInv, Install
  PROVE  XInv'
<1>0. /\ Asks \in Nat /\ Tells \in Nat /\ Window \in Nat /\ re.stages \in 0 .. Window
      /\ re.installed \in Nat /\ co.staged \in Nat /\ co.confirmed \in Nat
  BY Counters
<1>. USE DEF XInv
<1>1. /\ PcSame /\ phone = "loop" /\ phone' = "loop" /\ deferredShare' = deferredShare
      /\ re.stages > 0 /\ re' = [re EXCEPT !.stages = @ - 1, !.installed = @ + 1]
  BY DEF Install, Open, pcVars, PcSame
<1>2. Ask(1) = "InstallStaged" /\ PhoneTakes /\ Replies1("Accept", 0) /\ Typed'
  BY PhoneReadsOne DEF Install, F, Message
<1>3. Asks > 0 /\ Asks' = Asks - 1 /\ Tells' = Tells + 1
  BY <1>2 DEF PhoneTakes, Replies1
<1>4. pc = "confirm"
  BY <1>1, <1>2, <1>3, FirstFrames DEF Heads, TypeOK, Understood, QuietFirst
<1>5. Installing /\ Tells = 0 /\ Level /\ Asks = 1
  BY <1>3, <1>4 DEF Conversation, AtConfirm
<1>6. /\ re' \in Responder /\ re'.stages = re.stages - 1 /\ re'.installed = re.installed + 1
      /\ re'.stream = re.stream /\ re'.completed = re.completed
      /\ re'.deferred = re.deferred /\ re'.seq = re.seq /\ re'.batch = re.batch
  <2>1. re.stages - 1 \in 0 .. Window /\ re.installed + 1 \in Nat
    BY <1>0, <1>1
  <2>. QED
    BY <1>1, <2>1 DEF TypeOK, Responder
<1>7. Tells' = 1 /\ Tell(1)' = "Accept" /\ Asks' = 0
  BY <1>2, <1>3, <1>5 DEF Replies1
<1>8. AtConfirm'
  BY <1>0, <1>1, <1>5, <1>6, <1>7 DEF AtConfirm, Installing, Idle, Level, PcSame
<1>9. TypeOK'
  BY <1>1, <1>2, <1>6, PhoneTypeStep DEF TypeOK
<1>10. Streams' /\ Begun' /\ Kept'
  BY <1>1, <1>4, <1>5, <1>6 DEF Streams, Begun, Kept, Body, PcSame, Installing
<1>. QED
  BY <1>1, <1>4, <1>8, <1>9, <1>10 DEF Conversation, Understood, PcSame

-----------------------------------------------------------------------------
\* Gets and Puts.

\* The Gets that are left once the first one was answered.
LEMMA QuietlyServes ==
  ASSUME Asks \in Nat, Asks > 0, NEW w \in Int, w >= 0, NEW n \in Nat, NEW kind, Quietly(w,
         kind, n),
         ~Quiet(1), PhoneTakes, w > 0
  PROVE  Asks = w + n /\ Quietly(w - 1, kind, n)'
<1>1. Asks = w + n
  BY QuietOrNot
<1>2. Asks' = w + n - 1 /\ \A i \in 1 .. w - 1 : Ask(i)' = Ask(i + 1)
  BY <1>1 DEF PhoneTakes
<1>3. \A i \in 1 .. w - 1 : Ask(i)' = kind
  BY <1>1, <1>2 DEF Quietly
<1>. QED
  BY <1>1, <1>2, <1>3 DEF Quietly

LEMMA ServesGet ==
  ASSUME ExchangeAssumption, XInv, phone = "loop", Ask(1) = "Get", PhoneTakes
  PROVE  /\ pc \in {"reconcile", "blobs"} /\ Gets /\ Level /\ Asks = co.gets - Tells /\ Tells < co.gets
         /\ pc = "reconcile" => ~co.deferring /\ re.deferred <= Tells
         /\ pc = "blobs" => co.gets > 0
         /\ \A w \in Int : w = co.gets - Tells => Quietly(w - 1, "Get", 0)'
<1>0. Asks \in Nat /\ Tells \in Nat /\ co.gets \in Nat /\ co.puts \in Nat /\ re.batch \in Nat
  BY Counters
<1>. USE DEF XInv
<1>1. Asks > 0 /\ ~Quiet(1)
  BY DEF PhoneTakes, Quiet
<1>2. pc \in {"reconcile", "blobs"}
  BY <1>1, FirstFrames DEF Heads, TypeOK, Understood, QuietFirst
<1>3. ~Puts(0)
  <2>1. SUFFICES ASSUME Puts(0) PROVE FALSE
    OBVIOUS
  <2>2. PICK w \in Int : w = co.puts - re.batch
    BY <1>0
  <2>3. w >= 0 /\ Quietly(w, "Put", 0)
    BY <1>0, <2>1, <2>2 DEF Puts
  <2>. QED
    BY <1>0, <1>1, <2>3, QuietOrNot
<1>4. /\ Gets /\ Level /\ (pc = "reconcile" => ~co.deferring /\ re.deferred <= Tells)
      /\ (pc = "blobs" => co.gets > 0)
  BY <1>2, <1>3 DEF Conversation, AtReconcile, AtBlobs, Level
<1>5. PICK w \in Int : w = co.gets - Tells
  BY <1>0
<1>6. w >= 0 /\ Quietly(w, "Get", 0)
  BY <1>0, <1>4, <1>5 DEF Gets
<1>7. w > 0
  BY <1>0, <1>1, <1>6, QuietOrNot
<1>8. Asks = w /\ Quietly(w - 1, "Get", 0)'
  BY <1>0, <1>1, <1>6, <1>7, QuietlyServes
<1>. QED
  BY <1>0, <1>2, <1>4, <1>5, <1>7, <1>8

LEMMA ServeGetKeeps ==
  ASSUME ExchangeAssumption, XInv, ServeGet
  PROVE  XInv'
<1>0. /\ Asks \in Nat /\ Tells \in Nat /\ Window \in Nat /\ co.gets \in 0 .. Window
      /\ re.deferred \in Nat
  BY Counters
<1>. USE DEF XInv
<1>1. PcSame /\ PhoneSame /\ phone = "loop" /\ re.deferred = 0
  BY DEF ServeGet, Open, pcVars, phoneVars, PcSame, PhoneSame
<1>2. Ask(1) = "Get" /\ PhoneTakes /\ Replies1("Blob", 0) /\ Typed'
  BY PhoneReadsOne DEF ServeGet, F, Message
<1>3. Asks > 0 /\ Asks' = Asks - 1 /\ Tells' = Tells + 1
  BY <1>2 DEF PhoneTakes, Replies1
<1>4. /\ pc \in {"reconcile", "blobs"} /\ Gets /\ Level /\ Asks = co.gets - Tells /\ Tells < co.gets
      /\ pc = "reconcile" => ~co.deferring /\ re.deferred <= Tells
      /\ pc = "blobs" => co.gets > 0
      /\ \A w \in Int : w = co.gets - Tells => Quietly(w - 1, "Get", 0)'
  BY <1>1, <1>2, ServesGet
<1>5. PICK w \in Int : w = co.gets - Tells
  BY <1>0
<1>6. Quietly(w - 1, "Get", 0)' /\ w - 1 = co'.gets - Tells' /\ Asks' = w - 1
  BY <1>0, <1>1, <1>3, <1>4, <1>5 DEF PcSame
<1>7. ~co.deferring /\ Deferring'
  BY <1>0, <1>1, <1>2, <1>3, <1>4 DEF Gets, Deferring, Replies1, PcSame, PhoneSame
<1>8. Gets'
  BY <1>0, <1>1, <1>3, <1>4, <1>5, <1>6, <1>7 DEF Gets, PcSame, PhoneSame
<1>9. pc = "reconcile" => AtReconcile'
  BY <1>0, <1>1, <1>3, <1>4, <1>8 DEF AtReconcile, Level, PcSame, PhoneSame
<1>10. pc = "blobs" => AtBlobs'
  BY <1>1, <1>4, <1>8 DEF AtBlobs, Level, PcSame, PhoneSame
<1>11. TypeOK'
  BY <1>1, <1>2, PhoneTypeStep DEF TypeOK, PhoneSame
<1>12. re.stream # "named"
  BY <1>2, <1>4 DEF Begun
<1>13. Streams' /\ Begun' /\ Kept'
  BY <1>1, <1>12 DEF Streams, Begun, Kept, Body, PcSame, PhoneSame
<1>. QED
  BY <1>1, <1>4, <1>9, <1>10, <1>11, <1>13 DEF Conversation, Understood, PcSame, PhoneSame

LEMMA DeferGetKeeps ==
  ASSUME ExchangeAssumption, XInv, DeferGet
  PROVE  XInv'
<1>0. /\ Asks \in Nat /\ Tells \in Nat /\ Window \in Nat /\ co.gets \in 0 .. Window
      /\ re.deferred \in 0 .. Window
  BY Counters
<1>. USE DEF XInv
<1>1. /\ PcSame /\ phone = "loop" /\ phone' = "loop" /\ deferredShare' = deferredShare
      /\ re.deferred < Window /\ re' = [re EXCEPT !.deferred = @ + 1]
  BY DEF DeferGet, pcVars, PcSame
<1>2. Ask(1) = "Get" /\ PhoneTakes /\ Replies1("ScanDeferred", 0) /\ Typed'
  BY PhoneReadsOne DEF DeferGet, F, Message
<1>3. Asks > 0 /\ Asks' = Asks - 1 /\ Tells' = Tells + 1
  BY <1>2 DEF PhoneTakes, Replies1
<1>4. /\ pc \in {"reconcile", "blobs"} /\ Gets /\ Level /\ Asks = co.gets - Tells /\ Tells < co.gets
      /\ pc = "reconcile" => ~co.deferring /\ re.deferred <= Tells
      /\ pc = "blobs" => co.gets > 0
      /\ \A w \in Int : w = co.gets - Tells => Quietly(w - 1, "Get", 0)'
  BY <1>1, <1>2, ServesGet
<1>5. PICK w \in Int : w = co.gets - Tells
  BY <1>0
<1>6. Quietly(w - 1, "Get", 0)' /\ w - 1 = co'.gets - Tells' /\ Asks' = w - 1
  BY <1>0, <1>1, <1>3, <1>4, <1>5 DEF PcSame
<1>7. /\ re' \in Responder /\ re'.deferred = re.deferred + 1 /\ re'.stages = re.stages
      /\ re'.installed = re.installed /\ re'.stream = re.stream /\ re'.completed = re.completed
      /\ re'.seq = re.seq /\ re'.batch = re.batch
  <2>1. re.deferred + 1 \in 0 .. Window
    BY <1>0, <1>1
  <2>. QED
    BY <1>1, <2>1 DEF TypeOK, Responder
<1>8. Deferring'
  <2>1. /\ \A i \in Nat : i >= 1 /\ i <= Tells => Tell(i)' = Tell(i)
        /\ \A i \in Nat : i = Tells + 1 => Tell(i)' = "ScanDeferred"
    BY <1>0, <1>2 DEF Replies1
  <2>2. CASE co.deferring
    BY <1>0, <1>1, <1>3, <1>4, <1>7, <2>1, <2>2 DEF Gets, Deferring, PcSame
  <2>3. CASE ~co.deferring
    <3>1. /\ \A i \in 1 .. Tells : Tell(i) \in {"Blob", "ScanDeferred"}
          /\ \A i, j \in 1 .. Tells : i < j /\ Tell(i) = "ScanDeferred" => Tell(j) = "ScanDeferred"
      BY <1>0, <1>4, <2>3 DEF Gets, Deferring
    <3>2. \A i \in 1 .. Tells + 1 : Tell(i)' \in {"Blob", "ScanDeferred"}
      BY <1>0, <2>1, <3>1
    <3>3. ASSUME NEW i \in 1 .. Tells + 1, NEW j \in 1 .. Tells + 1, i < j,
                 Tell(i)' = "ScanDeferred"
          PROVE  Tell(j)' = "ScanDeferred"
      <4>1. CASE j = Tells + 1
        BY <1>0, <2>1, <4>1
      <4>2. CASE j # Tells + 1
        <5>1. i \in 1 .. Tells /\ j \in 1 .. Tells
          BY <1>0, <3>3, <4>2
        <5>. QED
          BY <1>0, <2>1, <3>1, <3>3, <5>1
      <4>. QED
        BY <4>1, <4>2
    <3>4. Tells' > 0 /\ Tell(Tells)' = "ScanDeferred"
      BY <1>0, <1>3, <2>1
    <3>5. re'.deferred > 0 /\ ~co'.deferring
      BY <1>0, <1>1, <1>7, <2>3 DEF PcSame
    <3>. QED
      BY <1>3, <3>2, <3>3, <3>4, <3>5 DEF Deferring
  <2>. QED
    BY <2>2, <2>3
<1>9. Gets'
  BY <1>0, <1>1, <1>3, <1>4, <1>5, <1>6, <1>7, <1>8 DEF Gets, PcSame
<1>10. pc = "reconcile" => AtReconcile'
  BY <1>0, <1>1, <1>3, <1>4, <1>7, <1>9 DEF AtReconcile, Level, PcSame
<1>11. pc = "blobs" => AtBlobs'
  BY <1>1, <1>4, <1>7, <1>9 DEF AtBlobs, Level, PcSame
<1>12. TypeOK'
  BY <1>1, <1>2, <1>7, PhoneTypeStep DEF TypeOK
<1>13. re.stream # "named"
  BY <1>2, <1>4 DEF Begun
<1>14. Streams' /\ Begun' /\ Kept'
  BY <1>1, <1>7, <1>13 DEF Streams, Begun, Kept, Body, PcSame
<1>. QED
  BY <1>1, <1>4, <1>10, <1>11, <1>12, <1>14 DEF Conversation, Understood, PcSame

LEMMA ReadsPutKeeps ==
  ASSUME ExchangeAssumption, XInv, ReadsPut
  PROVE  XInv'
<1>0. /\ Asks \in Nat /\ Tells \in Nat /\ Window \in Nat /\ co.puts \in Nat /\ co.gets \in Nat
      /\ re.batch \in 0 .. Window /\ re.installed \in Nat /\ co.recorded \in Nat
  BY Counters
<1>. USE DEF XInv
<1>1. /\ PcSame /\ phone \in {"loop", "batch"} /\ phone' = "batch" /\ deferredShare' = deferredShare
      /\ re.batch < Window /\ re' = [re EXCEPT !.batch = @ + 1, !.installed = @ + 1]
  BY DEF ReadsPut, Open, pcVars, PcSame
<1>2. Ask(1) = "Put" /\ PhoneTakes /\ PcKeeps /\ Typed'
  BY PhoneReadsNone DEF ReadsPut
<1>3. Asks > 0 /\ Asks' = Asks - 1 /\ Tells' = Tells /\ ~Quiet(1)
  BY <1>2 DEF PhoneTakes, PcKeeps, Quiet
<1>4. pc \in {"reconcile", "accepts"}
  BY <1>1, <1>2, <1>3, FirstFrames DEF Heads, TypeOK, Understood, QuietFirst
<1>5. /\ re' \in Responder /\ re'.batch = re.batch + 1 /\ re'.installed = re.installed + 1
      /\ re'.deferred = re.deferred /\ re'.stages = re.stages
      /\ re'.stream = re.stream /\ re'.completed = re.completed /\ re'.seq = re.seq
  <2>1. re.batch + 1 \in 0 .. Window /\ re.installed + 1 \in Nat
    BY <1>0, <1>1
  <2>. QED
    BY <1>1, <2>1 DEF TypeOK, Responder
<1>6. ASSUME NEW n \in {0, 1}, Puts(n), n = 1 => Ask(Asks) = "PutBatchEnd"
      PROVE  Puts(n)' /\ (n = 1 => Ask(Asks)' = "PutBatchEnd") /\ co.puts > 0
  <2>1. PICK w \in Int : w = co.puts - re.batch
    BY <1>0
  <2>2. w >= 0 /\ Quietly(w, "Put", n)
    BY <1>0, <1>6, <2>1 DEF Puts
  <2>3. w > 0
    BY <1>0, <1>2, <1>3, <1>6, <2>2, QuietOrNot
  <2>4. Asks = w + n /\ Quietly(w - 1, "Put", n)'
    BY <1>0, <1>2, <1>3, <2>2, <2>3, QuietlyServes
  <2>5. w - 1 = co'.puts - re'.batch /\ Asks' = w - 1 + n
    BY <1>0, <1>1, <1>3, <1>5, <2>1, <2>4 DEF PcSame
  <2>6. n = 1 => Ask(Asks)' = "PutBatchEnd"
    BY <1>0, <1>2, <1>3, <1>6, <2>3, <2>4 DEF PhoneTakes
  <2>7. Puts(n)'
    <3>1. /\ co.gets = 0 /\ re.deferred = 0 /\ Tells = 0 /\ ~co.deferring
          /\ re.installed = co.recorded + re.batch
          /\ co.puts > 0 => co.stream # "open" /\ re.stream = "none"
      BY <1>6 DEF Puts
    <3>2. re.batch + 1 <= co.puts /\ co.puts > 0 /\ re.batch + 1 > 0
          /\ re.installed + 1 = co.recorded + (re.batch + 1)
      BY <1>0, <2>1, <2>3, <3>1
    <3>3. Quietly(co.puts - re.batch, "Put", n)'
      BY <2>4, <2>5
    <3>. QED
      BY <1>1, <1>3, <1>5, <2>5, <3>1, <3>2, <3>3 DEF Puts, PcSame
  <2>. QED
    BY <1>0, <2>1, <2>3, <2>6, <2>7
<1>7. ASSUME pc = "reconcile" PROVE AtReconcile' /\ re.stream = "none"
  <2>1. ~Gets
    <3>1. SUFFICES ASSUME Gets PROVE FALSE
      OBVIOUS
    <3>2. PICK w \in Int : w = co.gets - Tells
      BY <1>0
    <3>3. w >= 0 /\ Quietly(w, "Get", 0)
      BY <1>0, <3>1, <3>2 DEF Gets
    <3>. QED
      BY <1>0, <1>2, <1>3, <3>3, QuietOrNot
  <2>2. Puts(0) /\ AtReconcile
    BY <1>7, <2>1 DEF Conversation, AtReconcile
  <2>3. Puts(0)' /\ co.puts > 0
    BY <1>6, <2>2
  <2>. QED
    BY <1>1, <1>5, <2>2, <2>3 DEF AtReconcile, Puts, PcSame
<1>8. ASSUME pc = "accepts" PROVE AtAccepts' /\ re.stream = "none"
  <2>1. /\ Puts(1) /\ Ask(Asks) = "PutBatchEnd" /\ co.puts > 0 /\ ~co.deferring
        /\ re.stages = co.staged - co.confirmed
    BY <1>3, <1>8 DEF Conversation, AtAccepts
  <2>2. Puts(1)' /\ Ask(Asks)' = "PutBatchEnd"
    BY <1>6, <2>1
  <2>. QED
    BY <1>1, <1>5, <2>1, <2>2 DEF AtAccepts, Puts, PcSame
<1>9. TypeOK'
  BY <1>1, <1>2, <1>5, PhoneTypeStep DEF TypeOK
<1>10. ~deferredShare
  BY <1>1 DEF Kept
<1>11. Streams' /\ Begun' /\ Kept'
  BY <1>1, <1>4, <1>5, <1>7, <1>8, <1>10 DEF Streams, Begun, Kept, Body, PcSame
<1>. QED
  BY <1>1, <1>4, <1>7, <1>8, <1>9, <1>11 DEF Conversation, Understood, PcSame

\* The answers of a batch.
LEMMA AnswersBatch ==
  ASSUME TypeOK, NEW b \in Nat, NEW frames, frames = [i \in 1 .. b |-> Frame("Accept", 0)],
         toPc' = toPc \o frames
  PROVE  toPc' \in Seq(Frames) /\ Tells' = Tells + b
         /\ \A j \in Nat : j > Tells /\ j <= Tells + b => Tell(j)' = "Accept"
<1>1. /\ frames \in Seq(Frames) /\ Len(frames) = b
      /\ \A i \in 1 .. b : frames[i] = Frame("Accept", 0)
  <2>1. Frame("Accept", 0) \in Frames
    BY DEF Frame, Frames, Message
  <2>2. PICK f \in Frames : f = Frame("Accept", 0)
    BY <2>1
  <2>3. frames = [i \in 1 .. b |-> f]
    BY <2>2
  <2>. QED
    BY <2>2, <2>3
<1>2. toPc \in Seq(Frames)
  BY StreamsTyped DEF Typed
<1>3. /\ toPc' \in Seq(Frames) /\ Len(toPc) \in Nat /\ Len(toPc') = Len(toPc) + b
      /\ \A i \in 1 .. b, j \in Nat : j = Len(toPc) + i => toPc'[j] = frames[i]
  BY <1>1, <1>2, Appended
<1>4. ASSUME NEW j \in Nat, j > Len(toPc), j <= Len(toPc) + b
      PROVE  toPc'[j].type = "Accept"
  <2>1. PICK a \in Nat : Len(toPc) = a
    BY <1>3
  <2>2. PICK i \in 1 .. b : i = j - a
    BY <1>4, <2>1
  <2>3. toPc'[j] = Frame("Accept", 0)
    BY <1>1, <1>3, <2>1, <2>2
  <2>4. Frame("Accept", 0).type = "Accept"
    BY DEF Frame
  <2>. QED
    BY <2>3, <2>4
<1>. QED
  BY <1>3, <1>4 DEF Tells, Tell

LEMMA EndsBatchKeeps ==
  ASSUME ExchangeAssumption, XInv, EndsBatch
  PROVE  XInv'
<1>0. /\ Asks \in Nat /\ Tells \in Nat /\ Window \in Nat /\ co.puts \in Nat /\ co.gets \in Nat
      /\ re.batch \in Nat /\ re.installed \in Nat /\ co.recorded \in Nat
  BY Counters
<1>. USE DEF XInv
<1>1. /\ PcSame /\ phone = "batch" /\ phone' = "loop" /\ deferredShare' = deferredShare
      /\ re' = [re EXCEPT !.batch = 0]
  BY DEF EndsBatch, pcVars, PcSame
<1>2. /\ toPhone # <<>> /\ Head(toPhone).type = "PutBatchEnd" /\ toPhone' = Tail(toPhone)
      /\ toPc' = toPc \o [i \in 1 .. re.batch |-> Frame("Accept", 0)]
  BY DEF EndsBatch, PhoneReads, Asked
<1>3. Ask(1) = "PutBatchEnd" /\ PhoneTakes /\ toPhone' \in Seq(Frames)
  BY <1>2, HeadOfPhone, TakeEffect
<1>4. /\ toPc' \in Seq(Frames) /\ Tells' = Tells + re.batch
      /\ \A j \in Nat : j > Tells /\ j <= Tells + re.batch => Tell(j)' = "Accept"
  BY <1>0, <1>2, AnswersBatch
<1>5. Asks > 0 /\ Asks' = Asks - 1 /\ ~Quiet(1)
  BY <1>3 DEF PhoneTakes, Quiet
<1>6. pc = "accepts"
  BY <1>1, <1>3, <1>5, FirstFrames DEF Heads, TypeOK, Understood, QuietFirst
<1>7. /\ Puts(1) /\ co.puts > 0 /\ ~co.deferring /\ re.stages = co.staged - co.confirmed
  BY <1>5, <1>6 DEF Conversation, AtAccepts
<1>8. re.batch = co.puts /\ Asks = 1 /\ Tells = 0
  <2>1. PICK w \in Int : w = co.puts - re.batch
    BY <1>0
  <2>2. w >= 0 /\ Quietly(w, "Put", 1) /\ Asks = w + 1 /\ Tells = 0
    BY <1>0, <1>1, <1>7, <2>1 DEF Puts
  <2>3. w = 0
    BY <1>0, <1>3, <1>5, <2>2, QuietOrNot
  <2>. QED
    BY <1>0, <2>1, <2>2, <2>3
<1>9. /\ re' \in Responder /\ re'.batch = 0 /\ re'.installed = re.installed
      /\ re'.deferred = re.deferred /\ re'.stages = re.stages
      /\ re'.stream = re.stream /\ re'.completed = re.completed /\ re'.seq = re.seq
  <2>1. 0 \in 0 .. Window
    BY <1>0
  <2>. QED
    BY <1>1, <2>1 DEF TypeOK, Responder
<1>10. Asks' = 0 /\ Tells' = co.puts /\ \A i \in 1 .. Tells' : Tell(i)' = "Accept"
  BY <1>0, <1>4, <1>5, <1>8
<1>11. AtAccepts'
  BY <1>0, <1>1, <1>7, <1>8, <1>9, <1>10 DEF AtAccepts, Puts, PcSame
<1>12. TypeOK'
  BY <1>1, <1>3, <1>4, <1>9, PhoneTypeStep DEF TypeOK, Typed
<1>13. Streams' /\ Begun' /\ Kept'
  BY <1>1, <1>6, <1>7, <1>9 DEF Streams, Begun, Kept, Body, PcSame, Puts
<1>. QED
  BY <1>1, <1>6, <1>11, <1>12, <1>13 DEF Conversation, Understood, PcSame

LEMMA ReadsDoneKeeps ==
  ASSUME ExchangeAssumption, XInv, ReadsDone
  PROVE  XInv'
<1>0. Asks \in Nat /\ Tells \in Nat
  BY Counters
<1>. USE DEF XInv
<1>1. PcSame /\ phone = "loop" /\ phone' = "dispatch" /\ re' = FreshResponder
        /\ deferredShare' = deferredShare
  BY DEF ReadsDone, Open, pcVars, PcSame
<1>2. Ask(1) = "Done" /\ PhoneTakes /\ PcKeeps /\ Typed'
  BY PhoneReadsNone DEF ReadsDone
<1>3. Asks > 0 /\ Asks' = Asks - 1 /\ Tells' = Tells /\ ~Quiet(1) /\ ~deferredShare
  BY <1>1, <1>2 DEF PhoneTakes, PcKeeps, Quiet, Kept
<1>4. pc \in {"dispatch", "selected"}
  BY <1>1, <1>2, <1>3, FirstFrames DEF Heads, TypeOK, Understood, QuietFirst
<1>5. ASSUME pc = "dispatch" PROVE AtDispatch'
  <2>1. Tells = 0 /\ Hushed(1)
    BY <1>1, <1>5 DEF Conversation, AtDispatch, Forgetting, Ending
  <2>2. Asks = 1
    BY <1>0, <1>3, <2>1, HushedOrNot
  <2>. QED
    BY <1>1, <1>3, <2>1, <2>2 DEF AtDispatch
<1>6. ASSUME pc = "selected" PROVE AtSelected'
  <2>1. Tells = 0 /\ ~co.sent /\ co = FreshCoordinator /\ Hushed(2) /\ Ask(Asks) = "SelectShare"
    BY <1>1, <1>3, <1>6 DEF Conversation, AtSelected, Forgetting, Ending
  <2>2. Asks = 2
    BY <1>0, <1>3, <2>1, HushedOrNot
  <2>3. Asks' = 1 /\ Ask(1)' = "SelectShare"
    BY <1>2, <1>3, <2>1, <2>2 DEF PhoneTakes
  <2>. QED
    BY <1>1, <1>3, <2>1, <2>3 DEF AtSelected, PcSame
<1>7. TypeOK'
  BY <1>1, <1>2, PhoneTypeStep, FreshOnes DEF TypeOK
<1>8. Streams' /\ Begun' /\ Kept'
  BY <1>1, <1>3, <1>4, Consts DEF Streams, Begun, Kept, Body, PcSame, FreshResponder
<1>. QED
  BY <1>1, <1>4, <1>5, <1>6, <1>7, <1>8 DEF Conversation, Understood, PcSame

-----------------------------------------------------------------------------
(* No frame is one its reader does not handle.                             *)

LEMMA QuietIsOpen ==
  ASSUME ExchangeAssumption, XInv, Asks > 0, QuietFirst
  PROVE  re.deferred = 0
<1>0. /\ Asks \in Nat /\ Tells \in Nat /\ co.gets \in Nat /\ re.deferred \in Nat
  BY Counters
<1>. USE DEF XInv
<1>1. Quiet(1) /\ phone = "loop" /\ Ask(1) \in {"AckBatch", "HashRelease", "HashStreamBegin"}
  BY DEF QuietFirst
<1>2. pc \in {"dispatch", "selected", "reconcile", "hashWait", "boundary", "stage", "accepts", "blobs"}
  BY <1>1, FirstFrames DEF Heads, TypeOK, Understood
<1>3. Gets => re.deferred = 0
  <2>1. SUFFICES ASSUME Gets, re.deferred > 0 PROVE FALSE
    BY <1>0
  <2>2. PICK w \in Int : w = co.gets - Tells
    BY <1>0
  <2>3. w >= 0 /\ Quietly(w, "Get", 0) /\ Asks = w
    BY <1>0, <2>1, <2>2 DEF Gets
  <2>4. Ask(1) = "Get"
    BY <1>0, <2>3 DEF Quietly
  <2>. QED
    BY <1>1, <2>4
<1>4. \A n \in {0, 1} : Puts(n) => re.deferred = 0
  BY DEF Puts
<1>5. pc \in {"reconcile", "blobs", "accepts"} => re.deferred = 0
  BY <1>3, <1>4 DEF Conversation, AtReconcile, AtBlobs, AtAccepts
<1>6. pc = "dispatch" => re.deferred = 0
  BY <1>1 DEF Conversation, AtDispatch, Forgetting, Ending
<1>7. pc = "selected" => re.deferred = 0
  BY <1>1 DEF Conversation, AtSelected, Forgetting, Ending, FreshResponder
<1>8. pc \in {"hashWait", "boundary", "stage"} => re.deferred = 0
  BY <1>1 DEF Conversation, AtHashWait, AtPreempted, AtStage, Served, Deferral
<1>. QED
  BY <1>2, <1>5, <1>6, <1>7, <1>8

LEMMA PhoneUnderstands ==
  ASSUME ExchangeAssumption, XInv, toPhone # <<>>
  PROVE  PhoneHandles(Head(toPhone))
<1>. USE DEF XInv
<1>. DEFINE f == Head(toPhone)
<1>0. /\ Asks \in Nat /\ Tells \in Nat /\ Window \in Nat /\ co.gets \in Nat /\ co.puts \in 0 .. Window
      /\ re.deferred \in Nat /\ re.batch \in Nat /\ re.stages \in Nat
      /\ co.staged \in Nat /\ co.confirmed \in Nat /\ co.recorded \in Nat /\ co.seq \in Nat
  <2>1. /\ Window \in Nat /\ co.puts \in 0 .. Window /\ co.gets \in 0 .. Window
        /\ co.staged \in 0 .. Window /\ co.confirmed \in 0 .. Window
    BY Numbers
  <2>2. re.deferred \in 0 .. Window /\ re.batch \in 0 .. Window /\ re.stages \in 0 .. Window
    BY Numbers
  <2>3. Asks \in Nat /\ Tells \in Nat /\ co.recorded \in Nat /\ co.seq \in Nat
    BY Numbers
  <2>. QED
    BY <2>1, <2>2, <2>3
<1>1. Asks > 0 /\ f.type = Ask(1) /\ f.n = AskNo(1)
  BY HeadOfPhone
<1>. HIDE DEF f
<1>2. Heads
  BY <1>1, FirstFrames
<1>3. CASE QuietFirst
  BY <1>1, <1>3, QuietIsOpen DEF PhoneHandles, QuietFirst, Quiet, Open, Hashing, f
<1>4. CASE pc = "dispatch" /\ ~QuietFirst
  BY <1>1, <1>2, <1>4
  DEF Heads, Conversation, AtDispatch, Ending, Forgetting, PhoneHandles, Open, f
<1>5. CASE pc = "selected" /\ ~QuietFirst
  BY <1>1, <1>2, <1>5
  DEF Heads, Conversation, AtSelected, Ending, Forgetting, PhoneHandles, Open, f
<1>6. CASE pc = "gate"
  BY <1>1, <1>2, <1>6
  DEF Heads, Conversation, AtGate, Scanning, NoStages, Deferral, PhoneHandles, Open, f
<1>7. CASE pc \in {"gated", "manifest", "deferred"}
  BY <1>1, <1>2, <1>7 DEF Heads, PhoneHandles, f
<1>8. CASE phone = "loop" /\ Ask(1) = "Get" /\ pc \in {"reconcile", "blobs"}
  <2>1. ~Quiet(1)
    BY <1>8 DEF Quiet
  <2>2. Gets
    <3>1. ~Puts(0)
      <4>1. SUFFICES ASSUME Puts(0) PROVE FALSE
        OBVIOUS
      <4>2. PICK w \in Int : w = co.puts - re.batch
        BY <1>0
      <4>3. w >= 0 /\ Quietly(w, "Put", 0)
        BY <1>0, <4>1, <4>2 DEF Puts
      <4>. QED
        BY <1>0, <1>1, <1>8, <2>1, <4>3, QuietOrNot
    <3>. QED
      BY <1>8, <3>1 DEF Conversation, AtReconcile, AtBlobs
  <2>3. PICK w \in Int : w = co.gets - Tells
    BY <1>0
  <2>4. w >= 0 /\ Quietly(w, "Get", 0) /\ re.deferred + w <= Window
    BY <1>0, <2>2, <2>3 DEF Gets
  <2>5. w > 0
    BY <1>0, <1>1, <2>1, <2>4, QuietOrNot
  <2>6. re.deferred < Window
    BY <1>0, <2>4, <2>5
  <2>. QED
    BY <1>1, <1>8, <2>6 DEF PhoneHandles, f
<1>9. CASE Ask(1) = "Put" /\ pc \in {"reconcile", "accepts"}
  <2>1. ~Quiet(1)
    BY <1>9 DEF Quiet
  <2>2. phone \in {"loop", "batch"}
    BY <1>2, <1>9 DEF Heads, QuietFirst
  <2>3. PICK n \in {0, 1} : Puts(n) /\ (n = 1 => Ask(Asks) = "PutBatchEnd")
    <3>1. ~Gets
      <4>1. SUFFICES ASSUME Gets PROVE FALSE
        OBVIOUS
      <4>2. PICK w \in Int : w = co.gets - Tells
        BY <1>0
      <4>3. w >= 0 /\ Quietly(w, "Get", 0)
        BY <1>0, <4>1, <4>2 DEF Gets
      <4>. QED
        BY <1>0, <1>1, <1>9, <2>1, <4>3, QuietOrNot
    <3>. QED
      BY <1>1, <1>9, <3>1 DEF Conversation, AtReconcile, AtAccepts
  <2>4. PICK w \in Int : w = co.puts - re.batch
    BY <1>0
  <2>5. w >= 0 /\ Quietly(w, "Put", n)
    BY <1>0, <2>3, <2>4 DEF Puts
  <2>6. w > 0
    BY <1>0, <1>1, <1>9, <2>1, <2>3, <2>5, QuietOrNot
  <2>7. re.batch < Window /\ re.deferred = 0 /\ re.stream = "none"
    BY <1>0, <2>3, <2>4, <2>6 DEF Puts
  <2>. QED
    BY <1>1, <1>9, <2>2, <2>7 DEF PhoneHandles, Open, f
<1>10. CASE phone = "batch" /\ Ask(1) = "PutBatchEnd"
  BY <1>1, <1>10 DEF PhoneHandles, f
<1>11. CASE pc = "hashWait" /\ phone = "loop" /\ Ask(1) = "HashNext"
  <2>1. /\ Served(0) /\ LastAsk("HashNext", co.seq) /\ re.stream \in {"named", "hashing", "deferred"}
    BY <1>1, <1>11 DEF Conversation, AtHashWait, OnlyPre, Deferral
  <2>2. ~Quiet(1)
    BY <1>11 DEF Quiet
  <2>3. AskNo(1) = co.seq
    BY <1>0, <1>1, <2>1, <2>2, HushedOrNot DEF LastAsk
  <2>4. re.stream # "named"
    BY <1>11 DEF Begun
  <2>. QED
    BY <1>0, <1>1, <1>11, <2>1, <2>3, <2>4 DEF PhoneHandles, Hashing, Open, Served, f
<1>12. CASE pc = "hashWait" /\ Ask(1) = "AuditPreempt"
  BY <1>1, <1>2, <1>12 DEF Heads, QuietFirst, PhoneHandles, f
<1>13. CASE pc \in {"boundary", "barrier"} /\ ~QuietFirst
  BY <1>1, <1>2, <1>13
  DEF Heads, Conversation, AtPreempted, AtBarrier, Deferral, PhoneHandles, f
<1>14. CASE pc = "stage" /\ ~QuietFirst
  <2>1. phone = "loop" /\ Ask(1) = "StagePut" /\ ~Quiet(1)
    BY <1>2, <1>14 DEF Heads, Quiet
  <2>2. /\ Hushed(1) /\ AskNo(Asks) = co.staged /\ Level /\ co.staged < Window /\ co.stream = "open"
        /\ re.deferred = 0
    BY <1>1, <1>14 DEF Conversation, AtStage
  <2>3. Asks = 1
    BY <1>0, <1>1, <2>1, <2>2, HushedOrNot
  <2>4. re.stream \in {"named", "hashing", "deferred"} /\ co.confirmed = 0
    BY <1>14, <2>1, <2>2 DEF Streams
  <2>5. re.stream # "named"
    BY <1>14, <2>1 DEF Begun
  <2>6. AskNo(1) = re.stages /\ re.stages < Window
    BY <1>0, <2>2, <2>3, <2>4 DEF Level
  <2>. QED
    BY <1>1, <2>1, <2>2, <2>4, <2>5, <2>6 DEF PhoneHandles, Hashing, Open, f
<1>15. CASE pc = "confirm"
  <2>1. /\ Installing /\ Level /\ AskNo(1) = co.confirmed /\ Ask(1) = "InstallStaged"
    BY <1>1, <1>15 DEF Conversation, AtConfirm
  <2>2. re.stages > 0 /\ re.installed = co.confirmed
    BY <1>0, <2>1 DEF Installing, Level
  <2>. QED
    BY <1>1, <2>1, <2>2 DEF PhoneHandles, Installing, Open, f
<1>16. pc \in {"dispatch", "selected", "gate", "gated", "manifest", "reconcile", "hashWait", "boundary",
               "stage", "confirm", "accepts", "blobs", "barrier", "deferred"}
  BY <1>2 DEF Heads, TypeOK, Understood
<1>17. CASE pc \in {"reconcile", "blobs", "accepts", "hashWait"} /\ ~QuietFirst
  BY <1>2, <1>8, <1>9, <1>10, <1>11, <1>12, <1>17 DEF Heads
<1>. QED
  BY <1>3, <1>4, <1>5, <1>6, <1>7, <1>13, <1>14, <1>15, <1>16, <1>17

LEMMA PcUnderstands ==
  ASSUME ExchangeAssumption, XInv, toPc # <<>>, PcWaits
  PROVE  /\ Head(toPc).type \in PcExpects
         /\ pc = "hashWait" /\ ~co.sent /\ Head(toPc).type \in {"HashChunk", "HashStreamEnd"} =>
              Head(toPc).n = co.seq
         /\ pc = "stage" => Head(toPc).n = co.staged
<1>0. Asks \in Nat /\ Tells \in Nat
  BY Counters
<1>. USE DEF XInv
<1>1. Tells > 0 /\ Head(toPc).type = Tell(1) /\ Head(toPc).n = TellNo(1)
  BY HeadOfPc
<1>2. pc \in {"selected", "gate", "gated", "manifest", "hashWait", "boundary", "stage", "confirm",
              "accepts", "blobs", "barrier"}
  BY DEF PcWaits, TypeOK
<1>3. pc = "selected" => Tell(1) = "Ready"
  BY <1>1 DEF Conversation, AtSelected
<1>4. pc = "gate" => Tell(1) \in {"ScanAlive", "ScanReady", "ScanDeferred"}
  BY <1>0, <1>1 DEF Conversation, AtGate, Alives, Says1, Deferral
<1>5. pc \in {"gated", "boundary", "barrier"} => Tell(1) = "ScanDeferred"
  BY <1>0, <1>1 DEF Conversation, AtGated, AtPreempted, AtBarrier, Deferral
<1>6. pc = "manifest" => Tell(1) \in {"DeltaManifest", "NeedFullScan", "Namespace"}
  BY <1>1 DEF Conversation, AtManifest
<1>7. pc = "hashWait" =>
        /\ Tell(1) \in {"ScanAlive", "HashChunk", "HashStreamEnd", "ScanDeferred"}
        /\ ~co.sent /\ Tell(1) \in {"HashChunk", "HashStreamEnd"} => TellNo(1) = co.seq
  BY <1>0, <1>1 DEF Conversation, AtHashWait, Alives, Told, Says1, Deferral
<1>8. pc = "stage" => Tell(1) = "StageReceived" /\ TellNo(1) = co.staged
  BY <1>1 DEF Conversation, AtStage
<1>9. pc = "confirm" => Tell(1) = "Accept"
  BY <1>1 DEF Conversation, AtConfirm
<1>10. pc = "accepts" => Tell(1) = "Accept"
  BY <1>0, <1>1 DEF Conversation, AtAccepts, Puts
<1>11. pc = "blobs" =>
         IF co.deferring THEN Tell(1) = "ScanDeferred" ELSE Tell(1) \in {"Blob", "ScanDeferred"}
  BY <1>0, <1>1 DEF Conversation, AtBlobs, Gets, Deferring
<1>12. Tell(1) \in PcExpects
  BY <1>2, <1>3, <1>4, <1>5, <1>6, <1>7, <1>8, <1>9, <1>10, <1>11 DEF PcExpects
<1>. QED
  BY <1>1, <1>7, <1>8, <1>12

-----------------------------------------------------------------------------
LEMMA XInit ==
  ASSUME ExchangeAssumption, Init
  PROVE  XInv
<1>1. Asks = 0 /\ Tells = 0
  BY DEF Init, Asks, Tells
<1>2. TypeOK
  <2>1. co \in Coordinator /\ re \in Responder
    BY Consts DEF Init, Coordinator, Responder, FreshCoordinator, FreshResponder, Item
  <2>2. toPhone \in Seq(Frames) /\ toPc \in Seq(Frames)
    BY DEF Init
  <2>. QED
    BY <2>1, <2>2 DEF Init, TypeOK, Frames
<1>3. Conversation
  BY <1>1 DEF Init, Conversation, AtDispatch
<1>4. Streams /\ Begun /\ Kept
  BY Consts DEF Init, Streams, Begun, Kept, Body, FreshCoordinator, FreshResponder
<1>. QED
  BY <1>2, <1>3, <1>4 DEF XInv, Understood, Init

LEMMA XStep ==
  ASSUME ExchangeAssumption, XInv, [Next]_vars
  PROVE  XInv'
<1>1. CASE UrgentWake \/ TickPreempts \/ BoundaryPreempts \/ PhoneAlive
  BY <1>1, UrgentWakeKeeps, TickPreemptsKeeps, BoundaryPreemptsKeeps, PhoneAliveKeeps
<1>2. CASE Coordinate
  BY <1>2, SelectShareKeeps, BeginScanKeeps, PcAliveKeeps, GateReadyKeeps,
    ReadsDeferralKeeps,
     RoundDeferredKeeps, ReadsDeltaKeeps, FallsBackKeeps, ReadsNamespaceKeeps,
     TakeItemKeeps,
     EndBatchKeeps, ReadsAcceptKeeps, AwaitWindowKeeps, ReadsBlobKeeps,
     ReadsGetDeferralKeeps,
     SkipKeeps, SendGetKeeps, SendPutKeeps, StagePutKeeps, ReadsStagedKeeps,
     PreemptStreamKeeps,
     HashNextKeeps, IgnoresStreamKeeps, ReadsChunkKeeps, ReadsStreamEndKeeps,
     InstallStagedKeeps,
     ReadsInstalledKeeps, DoneKeeps
     DEF Coordinate
<1>3. CASE Respond
  BY <1>3, SelectKeeps, LatePreemptKeeps, EndDeferredKeeps, StartScanKeeps, ScanEndsKeeps,
     ScanDefersKeeps, PreemptedKeeps, GateOpensKeeps, ReadsQuietly, QuietReadKeeps,
     ReadsNextKeeps,
     SendChunkKeeps, EndStreamKeeps, ReceiveStageKeeps, InstallKeeps, ServeGetKeeps,
     DeferGetKeeps,
     ReadsPutKeeps, EndsBatchKeeps, ReadsDoneKeeps
     DEF Respond
<1>4. CASE PcMisreads
  BY <1>4, PcUnderstands DEF PcMisreads
<1>5. CASE PhoneMisreads
  BY <1>5, PhoneUnderstands DEF PhoneMisreads
<1>6. CASE UNCHANGED vars
  BY <1>6, Unmoved DEF vars, XInv, TypeOK
<1>. QED
  BY <1>1, <1>2, <1>3, <1>4, <1>5, <1>6 DEF Next

\* In every state the two sides are where the other expects them: the frames
\* still on their way are those of one point of the conversation.
THEOREM ExchangeInvariance ==
  ASSUME ExchangeAssumption
  PROVE  Spec => []XInv
<1>1. Init => XInv
  BY XInit
<1>2. XInv /\ [Next]_vars => XInv'
  BY XStep
<1>. QED
  BY <1>1, <1>2, PTL DEF Spec

LEMMA InvAligned ==
  ASSUME ExchangeAssumption, XInv
  PROVE  Aligned
<1>. USE DEF XInv
<1>0. /\ co.recorded \in Nat /\ re.batch \in Nat /\ Tells \in Nat /\ (toPc = <<>> <=> Tells = 0)
      /\ co.staged \in Nat /\ co.confirmed \in Nat /\ re.installed \in Nat
  BY Numbers, StreamsTyped
<1>1. pc \in {"dispatch", "deferred"} => toPc = <<>>
  BY <1>0 DEF Conversation, AtDispatch, AtDeferred
<1>2. pc = "dispatch" /\ outcome = "committed" /\ phone # "dispatch" => co.recorded = re.installed
  BY DEF Conversation, AtDispatch, Forgetting
<1>3. ASSUME phone = "loop" PROVE co.recorded <= re.installed
  <2>1. pc = "dispatch" => co.recorded = re.installed
    BY <1>3 DEF Conversation, AtDispatch, Forgetting
  <2>2. pc \in {"selected", "gate", "gated", "manifest"} => co.recorded = 0
    BY FreshFields
  <2>3. Gets /\ re.installed = co.recorded => co.recorded <= re.installed
    BY <1>0
  <2>4. \A n \in {0, 1} : Puts(n) => co.recorded <= re.installed
    BY <1>0 DEF Puts
  <2>5. pc \in {"reconcile", "blobs", "accepts"} => co.recorded <= re.installed
    BY <1>0, <2>3, <2>4 DEF Conversation, AtReconcile, AtBlobs, AtAccepts, Level
  <2>6. pc \in {"hashWait", "boundary", "stage", "barrier", "install", "confirm"} =>
          co.recorded <= re.installed
    BY <1>0, <1>3
    DEF Conversation, AtHashWait, AtPreempted, AtStage, AtBarrier, AtInstall, AtConfirm,
                      Served, Level, Deferral
  <2>7. pc # "deferred"
    BY <1>3 DEF Conversation, AtDeferred, Forgetting
  <2>. QED
    BY <1>0, <2>1, <2>2, <2>5, <2>6, <2>7 DEF TypeOK, Understood
<1>. QED
  BY <1>1, <1>2, <1>3 DEF Aligned

\* Neither side ever reads a frame it does not handle, and between two rounds
\* the two agree on what was installed (coordinate_candidate, respond_share).
THEOREM FramesAreUnderstood ==
  ASSUME ExchangeAssumption
  PROVE  Spec => [](TypeOK /\ Understood /\ Aligned)
<1>1. XInv => TypeOK /\ Understood /\ Aligned
  BY InvAligned DEF XInv
<1>. QED
  BY <1>1, ExchangeInvariance, PTL

\* A round that announced its preemption is never committed.
THEOREM PreemptionsHold ==
  ASSUME ExchangeAssumption
  PROVE  Spec => PreemptionHolds
<1>1. ASSUME XInv, [Next]_vars, pc' = "dispatch", pc # "dispatch", co.sent
      PROVE  outcome' = "deferred"
  <2>1. ~Done
    BY <1>1 DEF XInv, Kept, Body, Done, AtBoundary, Reconciling
  <2>2. ASSUME RoundDeferred PROVE outcome' = "deferred"
    BY <2>2 DEF RoundDeferred
  <2>3. ASSUME Coordinate PROVE RoundDeferred \/ Done
    BY <1>1, <2>3
       DEF Coordinate, SelectShare, BeginScan, PcAlive, GateReady, ReadsDeferral,
         ReadsDelta, FallsBack,
           ReadsNamespace, TakeItem, EndBatch, ReadsAccept, AwaitWindow, ReadsBlob,
           ReadsGetDeferral,
           WindowEnd, Skip, SendGet, SendPut, StagePut, ReadsStaged, PreemptStream,
           HashNext,
           IgnoresStream, ReadsChunk, ReadsStreamEnd, InstallStaged, ReadsInstalled, pcVars
  <2>4. ASSUME Respond PROVE pc' = pc
    BY <2>4
       DEF Respond, Select, LatePreempt, EndDeferred, StartScan, ScanEnds, ScanDefers,
         Preempted,
           GateOpens, BeginHashes, ReleaseHashes, ReadsNext, SendChunk, EndStream,
           ReceiveStage, Install,
           ServeGet, DeferGet, ReadsPut, EndsBatch, Acknowledged, ReadsDone, pcVars
  <2>5. ~(UrgentWake \/ TickPreempts \/ BoundaryPreempts \/ PhoneAlive \/ PcMisreads \/ PhoneMisreads
          \/ UNCHANGED vars)
    BY <1>1
    DEF UrgentWake, TickPreempts, BoundaryPreempts, PhoneAlive, PcMisreads, PhoneMisreads,
      vars, pcVars
  <2>. QED
    BY <1>1, <2>1, <2>2, <2>3, <2>4, <2>5 DEF Next
<1>2. XInv /\ [Next]_vars =>
        [pc' = "dispatch" /\ pc # "dispatch" /\ co.sent => outcome' = "deferred"]_vars
  BY <1>1
<1>. QED
  BY <1>2, ExchangeInvariance, PTL DEF Spec, PreemptionHolds

-----------------------------------------------------------------------------
\* The tickets of the jobs that wait are those issued and not served yet, each
\* held by one job.
Turns ==
  \A b \in Permits!Budget :
    /\ \A j \in Job : Permits!WaitsFor(j, b) => serving[b] <= ticket[j] /\ ticket[j] < issued[b]
    /\ \A j, k \in Job :
         Permits!WaitsFor(j, b) /\ Permits!WaitsFor(k, b) /\ ticket[j] = ticket[k] => j = k
    /\ \A t \in serving[b] .. issued[b] - 1 : \E j \in Job : Permits!WaitsFor(j, b) /\ ticket[j] = t

\* Only a job that waits sleeps, and never through its turn; only a job that
\* hashes goes by way of the hash budget.
Asleep ==
  /\ \A j \in asleep : Permits!WaitsFor(j, "hash") \/ Permits!WaitsFor(j, "io")
  /\ \A j \in asleep, b \in Permits!Budget : Permits!WaitsFor(j, b) => ~Permits!Fits(j, b)
  /\ \A j \in Job : step[j] \in {"hash", "hashed", "drop"} => j \in Hashers

\* The jobs that have taken a ticket of the budget.
Took(b) ==
  IF b = "hash" THEN {j \in Hashers : step[j] # "start"}
  ELSE {j \in Job : step[j] \in {"io", "work", "drop", "ended"}}

Counted ==
  /\ \A b \in Permits!Budget : issued[b] = Cardinality(Took(b)) /\ serving[b] <= issued[b]
  /\ limit \in [Permits!Budget -> Limits]
  /\ issued \in [Permits!Budget -> Nat] /\ serving \in [Permits!Budget -> Nat]
  /\ active \in [Permits!Budget -> Nat]
  /\ step \in [Job -> {"start", "hash", "hashed", "io", "work", "drop", "ended"}]
  /\ ticket \in [Job -> Nat]
  /\ \A j \in Job : ticket[j] <= Cardinality(Job)
  /\ asleep \subseteq Job

AInv == Counted /\ Turns /\ Asleep /\ Permits!PermitsBalance

\* FiniteSets, as Admission sees it and as the theorems about it do.
LEMMA SameCount == \A S : Permits!Cardinality(S) = Cardinality(S)
BY DEF Cardinality, Permits!Cardinality

LEMMA SameFinite == \A S : Permits!IsFiniteSet(S) = IsFiniteSet(S)
BY DEF IsFiniteSet, Permits!IsFiniteSet

-----------------------------------------------------------------------------
\* The sets counted are sets of jobs.
LEMMA FiniteJobs ==
  ASSUME Permits!AdmissionAssumption, NEW b
  PROVE  /\ IsFiniteSet(Took(b)) /\ IsFiniteSet(Took(b)')
         /\ IsFiniteSet(Permits!Holders(b)) /\ IsFiniteSet(Permits!Holders(b)')
         /\ Cardinality(Took(b)) \in Nat /\ Cardinality(Took(b)') \in Nat
         /\ Cardinality(Took(b)) <= Cardinality(Job) /\ Cardinality(Took(b)') <= Cardinality(Job)
         /\ Cardinality(Permits!Holders(b)) \in Nat /\ Cardinality(Permits!Holders(b)') \in Nat
         /\ Cardinality(Job) \in Nat
<1>1. Took(b) \in SUBSET Job /\ Took(b)' \in SUBSET Job
  BY DEF Took, Permits!AdmissionAssumption
<1>2. Permits!Holders(b) \in SUBSET Job /\ Permits!Holders(b)' \in SUBSET Job
  BY DEF Permits!Holders
<1>. QED
  BY <1>1, <1>2, FS_Subset, FS_CardinalityType, SameFinite DEF Permits!AdmissionAssumption

\* The typed facts of the state.
LEMMA Facts ==
  ASSUME Permits!AdmissionAssumption, AInv
  PROVE  /\ \A b \in Permits!Budget : /\ issued[b] \in Nat /\ serving[b] \in Nat /\ active[b] \in Nat
                              /\ limit[b] \in Nat /\ limit[b] > 0
         /\ \A j \in Job : ticket[j] \in Nat
         /\ \A j \in Job, b \in Permits!Budget : Permits!Weight(j, b) \in Nat /\ Permits!Weight(j, b) > 0
<1>1. \A b \in Permits!Budget : /\ issued[b] \in Nat /\ serving[b] \in Nat /\ active[b] \in Nat
                        /\ limit[b] \in Limits
  BY DEF AInv, Counted
<1>2. \A n \in Limits : n \in Nat /\ n > 0
  <2>1. \A n \in Nat \ {0} : n \in Nat /\ n > 0
    OBVIOUS
  <2>. QED
    BY <2>1 DEF Permits!AdmissionAssumption
<1>3. \A b \in Permits!Budget : limit[b] \in Nat /\ limit[b] > 0
  BY <1>1, <1>2
<1>4. \A j \in Job : ticket[j] \in Nat
  BY DEF AInv, Counted
<1>5. \A j \in Job, b \in Permits!Budget : Permits!Weight(j, b) \in Nat /\ Permits!Weight(j, b) > 0
  BY <1>3 DEF Permits!Weight, Permits!Budget
<1>. QED
  BY <1>1, <1>3, <1>4, <1>5

LEMMA AInit ==
  ASSUME Permits!AdmissionAssumption, Permits!Init
  PROVE  AInv
<1>1. \A b \in Permits!Budget : Took(b) = {} /\ Permits!Holders(b) = {}
  BY DEF Permits!Init, Took, Permits!Holders, Permits!Budget, Permits!AdmissionAssumption
<1>2. Counted
  BY <1>1, FS_EmptySet, FiniteJobs DEF Permits!Init, Counted
<1>3. \A b \in Permits!Budget : limit[b] \in Nat /\ limit[b] > 0
  <2>1. \A n \in Nat \ {0} : n \in Nat /\ n > 0
    OBVIOUS
  <2>2. \A b \in Permits!Budget : limit[b] \in Limits
    BY DEF Permits!Init
  <2>. QED
    BY <2>1, <2>2 DEF Permits!AdmissionAssumption
<1>4. Permits!PermitsBalance
  BY <1>1, <1>3, FS_EmptySet, SameCount
  DEF Permits!Init, Permits!PermitsBalance, Permits!Load, Permits!Budget
<1>5. Turns
  BY DEF Permits!Init, Turns, Permits!WaitsFor, Permits!Budget
<1>6. Asleep
  BY DEF Permits!Init, Asleep
<1>. QED
  BY <1>2, <1>4, <1>5, <1>6 DEF AInv

\* Jobs that hold no permit and those that hold one more or one less.
LEMMA LoadKept ==
  ASSUME Permits!AdmissionAssumption, AInv, NEW b \in Permits!Budget,
         Permits!Holders(b)' = Permits!Holders(b), limit' = limit, active'[b] = active[b]
  PROVE  active'[b] = Permits!Load(b)' /\ active'[b] <= limit'[b]
BY DEF AInv, Permits!PermitsBalance, Permits!Load

\* The next ticket goes to the job at the end of the queue.
LEMMA TicketKeeps ==
  ASSUME Permits!AdmissionAssumption, AInv, NEW j \in Job, NEW b \in Permits!Budget,
         Permits!Ticket(j, b),
         j \notin asleep, ~Permits!WaitsFor(j, "hash"), ~Permits!WaitsFor(j, "io"), j \notin Took(b),
         b = "hash" => j \in Hashers,
         Took(b)' = Took(b) \cup {j},
         \A c \in Permits!Budget \ {b} : Took(c)' = Took(c),
         \A c \in Permits!Budget : Permits!Holders(c)' = Permits!Holders(c)
  PROVE  AInv'
<1>. USE DEF AInv
<1>1. Cardinality(Took(b)') = Cardinality(Took(b)) + 1
  BY FS_AddElement, FiniteJobs
<1>2. Cardinality(Took(b)) < Cardinality(Job) /\ Cardinality(Job) \in Nat
  BY <1>1, FiniteJobs
<1>3. /\ issued' = [issued EXCEPT ![b] = issued[b] + 1]
      /\ ticket' = [ticket EXCEPT ![j] = issued[b]]
      /\ step' = [step EXCEPT ![j] = b]
      /\ UNCHANGED <<limit, serving, active, asleep>>
  BY DEF Permits!Ticket
<1>4. Counted'
  BY <1>1, <1>2, <1>3, Facts DEF Counted, Permits!Budget
<1>5. /\ \A k \in Job : ticket'[k] = IF k = j THEN issued[b] ELSE ticket[k]
      /\ \A k \in Job : step'[k] = IF k = j THEN b ELSE step[k]
      /\ \A c \in Permits!Budget : issued'[c] = IF c = b THEN issued[b] + 1 ELSE issued[c]
  BY <1>3 DEF Counted
<1>6. \A k \in Job, c \in Permits!Budget :
        Permits!WaitsFor(k, c)' <=> (k = j /\ c = b) \/ (k # j /\ Permits!WaitsFor(k, c))
  BY <1>5 DEF Permits!WaitsFor, Permits!Budget
<1>7. Turns'
  <2>. SUFFICES ASSUME NEW c \in Permits!Budget
       PROVE /\ \A k \in Job :
                  Permits!WaitsFor(k, c)' => serving'[c] <= ticket'[k] /\ ticket'[k] < issued'[c]
             /\ \A k, l \in Job :
                  Permits!WaitsFor(k, c)' /\ Permits!WaitsFor(l, c)' /\ ticket'[k] = ticket'[l] => k = l
             /\ \A t \in serving'[c] .. issued'[c] - 1 :
                  \E k \in Job : Permits!WaitsFor(k, c)' /\ ticket'[k] = t
    BY DEF Turns
  <2>0. serving'[c] = serving[c] /\ issued[c] \in Nat /\ serving[c] \in Nat /\ serving[c] <= issued[c]
    BY <1>3, Facts DEF Counted
  <2>1. /\ \A k \in Job : Permits!WaitsFor(k, c) => serving[c] <= ticket[k] /\ ticket[k] < issued[c]
        /\ \A k, l \in Job :
             Permits!WaitsFor(k, c) /\ Permits!WaitsFor(l, c) /\ ticket[k] = ticket[l] => k = l
        /\ \A t \in serving[c] .. issued[c] - 1 : \E k \in Job : Permits!WaitsFor(k, c) /\ ticket[k] = t
    BY DEF Turns
  <2>2. ~Permits!WaitsFor(j, c)
    BY DEF Permits!Budget
  <2>3. \A k \in Job : Permits!WaitsFor(k, c)' => serving'[c] <= ticket'[k] /\ ticket'[k] < issued'[c]
    BY <1>5, <1>6, <2>0, <2>1, Facts
  <2>4. \A k, l \in Job :
          Permits!WaitsFor(k, c)' /\ Permits!WaitsFor(l, c)' /\ ticket'[k] = ticket'[l] => k = l
    <3>. SUFFICES ASSUME NEW k \in Job, NEW l \in Job, Permits!WaitsFor(k, c)',
      Permits!WaitsFor(l, c)',
                         ticket'[k] = ticket'[l], k # l
         PROVE  FALSE
      OBVIOUS
    <3>1. CASE k # j /\ l # j
      BY <3>1, <1>5, <1>6, <2>1
    <3>2. CASE k = j
      <4>1. ticket[l] = issued[c] /\ Permits!WaitsFor(l, c)
        BY <3>2, <1>5, <1>6
      <4>. QED
        BY <4>1, <2>1, <2>0
    <3>3. CASE l = j
      <4>1. ticket[k] = issued[c] /\ Permits!WaitsFor(k, c)
        BY <3>3, <1>5, <1>6
      <4>. QED
        BY <4>1, <2>1, <2>0
    <3>. QED
      BY <3>1, <3>2, <3>3
  <2>5. ASSUME NEW t \in serving'[c] .. issued'[c] - 1
        PROVE  \E k \in Job : Permits!WaitsFor(k, c)' /\ ticket'[k] = t
    <3>1. CASE c = b /\ t = issued[b]
      BY <3>1, <1>5, <1>6
    <3>2. CASE ~(c = b /\ t = issued[b])
      <4>1. t \in serving[c] .. issued[c] - 1
        BY <3>2, <1>5, <2>0, <2>5
      <4>2. PICK k \in Job : Permits!WaitsFor(k, c) /\ ticket[k] = t
        BY <4>1, <2>1
      <4>. QED
        BY <4>2, <2>2, <1>5, <1>6
    <3>. QED
      BY <3>1, <3>2
  <2>. QED
    BY <2>3, <2>4, <2>5
<1>8. Asleep'
  BY <1>3, <1>5, <1>6 DEF Asleep, Permits!Fits, Permits!Weight, Counted, Permits!Budget
<1>9. Permits!PermitsBalance'
  BY <1>3, LoadKept DEF Permits!PermitsBalance, Permits!Budget
<1>. QED
  BY <1>4, <1>7, <1>8, <1>9

\* A job begins, or takes its place in the queue of the device.
LEMMA BeginKeeps ==
  ASSUME Permits!AdmissionAssumption, AInv, NEW j \in Job, Permits!Begin(j)
  PROVE  AInv'
<1>. USE DEF AInv
<1>. DEFINE b == IF j \in Hashers THEN "hash" ELSE "io"
<1>1. step[j] = "start" /\ Permits!Ticket(j, b)
  BY DEF Permits!Begin
<1>2. \A k \in Job : step'[k] = IF k = j THEN b ELSE step[k]
  BY <1>1 DEF Permits!Ticket, Counted
<1>3. /\ j \notin asleep /\ ~Permits!WaitsFor(j, "hash") /\ ~Permits!WaitsFor(j, "io")
      /\ b \in Permits!Budget /\ (b = "hash" => j \in Hashers)
  BY <1>1 DEF Asleep, Permits!WaitsFor, Permits!Budget
<1>4. /\ j \notin Took(b) /\ Took(b)' = Took(b) \cup {j}
      /\ \A c \in Permits!Budget \ {b} : Took(c)' = Took(c)
  BY <1>1, <1>2 DEF Took, Permits!Budget, Permits!AdmissionAssumption
<1>5. \A c \in Permits!Budget : Permits!Holders(c)' = Permits!Holders(c)
  BY <1>1, <1>2 DEF Permits!Holders, Permits!Budget
<1>. QED
  BY <1>1, <1>3, <1>4, <1>5, TicketKeeps

LEMMA AcquireIoKeeps ==
  ASSUME Permits!AdmissionAssumption, AInv, NEW j \in Job, Permits!AcquireIo(j)
  PROVE  AInv'
<1>. USE DEF AInv
<1>1. step[j] = "hashed" /\ Permits!Ticket(j, "io") /\ j \in Hashers
  BY DEF Permits!AcquireIo, Asleep
<1>2. \A k \in Job : step'[k] = IF k = j THEN "io" ELSE step[k]
  BY <1>1 DEF Permits!Ticket, Counted
<1>3. /\ j \notin asleep /\ ~Permits!WaitsFor(j, "hash") /\ ~Permits!WaitsFor(j, "io")
  BY <1>1 DEF Asleep, Permits!WaitsFor
<1>4. /\ j \notin Took("io") /\ Took("io")' = Took("io") \cup {j}
      /\ \A c \in Permits!Budget \ {"io"} : Took(c)' = Took(c)
  BY <1>1, <1>2 DEF Took, Permits!Budget, Permits!AdmissionAssumption
<1>5. \A c \in Permits!Budget : Permits!Holders(c)' = Permits!Holders(c)
  BY <1>1, <1>2 DEF Permits!Holders, Permits!Budget
<1>6. "io" \in Permits!Budget
  BY DEF Permits!Budget
<1>. QED
  BY <1>1, <1>3, <1>4, <1>5, <1>6, TicketKeeps

\* A job that may not enter sleeps.
LEMMA SleepKeeps ==
  ASSUME Permits!AdmissionAssumption, AInv, NEW j \in Job, NEW b \in Permits!Budget,
         Permits!Sleep(j, b)
  PROVE  AInv'
<1>. USE DEF AInv, Permits!Sleep
<1>1. Counted' /\ Turns' /\ Permits!PermitsBalance'
  <2>1. /\ \A c : Took(c)' = Took(c) /\ Permits!Holders(c)' = Permits!Holders(c)
        /\ \A k, c : Permits!WaitsFor(k, c)' <=> Permits!WaitsFor(k, c)
    BY DEF Took, Permits!Holders, Permits!WaitsFor
  <2>2. Counted'
    BY <2>1 DEF Counted
  <2>3. Turns'
    BY <2>1 DEF Turns
  <2>4. Permits!PermitsBalance'
    <3>1. \A c : Permits!Load(c)' = Permits!Load(c)
      BY <2>1 DEF Permits!Load
    <3>. QED
      BY <2>1, <3>1 DEF Permits!PermitsBalance
  <2>. QED
    BY <2>2, <2>3, <2>4
<1>2. Asleep'
  BY DEF Asleep, Permits!Fits, Permits!Weight, Permits!WaitsFor, Permits!Budget
<1>. QED
  BY <1>1, <1>2

\* Whoever is woken is asleep no more: nobody of the budget sleeps.
LEMMA Woken ==
  ASSUME AInv, NEW b \in Permits!Budget, Permits!Notify(b), NEW j \in Job,
         \A k \in Job : k # j => step'[k] = step[k], j \notin asleep,
         step'[j] \in {"hash", "hashed", "drop"} => j \in Hashers,
         limit' = limit, ticket' = ticket,
         \A c \in Permits!Budget \ {b} : serving'[c] = serving[c] /\ active'[c] = active[c]
  PROVE  Asleep'
<1>1. asleep' = {k \in asleep : step[k] # b} /\ asleep \subseteq Job
  BY DEF Permits!Notify, Permits!WaitsFor, AInv, Counted
<1>2. \A k \in asleep' : k # j /\ k \in Job /\ step'[k] = step[k] /\ step[k] # b
  BY <1>1
<1>3. \A k \in asleep' : Permits!WaitsFor(k, "hash")' \/ Permits!WaitsFor(k, "io")'
  BY <1>1, <1>2 DEF AInv, Asleep, Permits!WaitsFor
<1>4. ASSUME NEW k \in asleep', NEW c \in Permits!Budget, Permits!WaitsFor(k, c)'
      PROVE  ~Permits!Fits(k, c)'
  <2>1. c # b /\ k \in asleep /\ Permits!WaitsFor(k, c)
    BY <1>1, <1>2, <1>4 DEF Permits!WaitsFor
  <2>2. ~Permits!Fits(k, c)
    BY <2>1 DEF AInv, Asleep
  <2>3. serving'[c] = serving[c] /\ active'[c] = active[c]
    BY <2>1
  <2>. QED
    BY <2>2, <2>3 DEF Permits!Fits, Permits!Weight
<1>5. \A k \in Job : step'[k] \in {"hash", "hashed", "drop"} => k \in Hashers
  BY DEF AInv, Asleep
<1>. QED
  BY <1>3, <1>4, <1>5 DEF Asleep

\* The job whose turn it is enters, and the next ticket is served.
LEMMA EnterKeeps ==
  ASSUME Permits!AdmissionAssumption, AInv, NEW j \in Job, NEW b \in Permits!Budget,
         Permits!Enter(j, b)
  PROVE  AInv'
<1>. USE DEF AInv
<1>1. /\ step[j] = b /\ j \notin asleep /\ ticket[j] = serving[b]
      /\ active[b] + Permits!Weight(j, b) <= limit[b]
      /\ serving' = [serving EXCEPT ![b] = serving[b] + 1]
      /\ active' = [active EXCEPT ![b] = active[b] + Permits!Weight(j, b)]
      /\ step' = [step EXCEPT ![j] = IF b = "hash" THEN "hashed" ELSE "work"]
      /\ asleep' = {k \in asleep : ~Permits!WaitsFor(k, b)} /\ Permits!Notify(b)
      /\ UNCHANGED <<limit, issued, ticket>>
  BY DEF Permits!Enter, Permits!Fits, Permits!WaitsFor, Permits!Notify
<1>2. /\ \A k \in Job : step'[k] = IF k = j THEN (IF b = "hash" THEN "hashed" ELSE "work") ELSE step[k]
      /\ \A c \in Permits!Budget : serving'[c] = IF c = b THEN serving[b] + 1 ELSE serving[c]
      /\ \A c \in Permits!Budget :
           active'[c] = IF c = b THEN active[b] + Permits!Weight(j, b) ELSE active[c]
  BY <1>1 DEF Counted
<1>3. b = "hash" => j \in Hashers
  BY <1>1 DEF Asleep
<1>4. \A c \in Permits!Budget : Took(c)' = Took(c)
  BY <1>1, <1>2 DEF Took, Permits!Budget, Permits!AdmissionAssumption
<1>5. serving[b] < issued[b]
  BY <1>1 DEF Turns, Permits!WaitsFor
<1>6. Counted'
  <2>1. \A c \in Permits!Budget : issued'[c] = Cardinality(Took(c)') /\ serving'[c] <= issued'[c]
    BY <1>1, <1>2, <1>4, <1>5, Facts DEF Counted
  <2>2. /\ serving' \in [Permits!Budget -> Nat] /\ active' \in [Permits!Budget -> Nat]
        /\ step' \in [Job -> {"start", "hash", "hashed", "io", "work", "drop", "ended"}]
    BY <1>1, Facts DEF Counted
  <2>. QED
    BY <1>1, <2>1, <2>2 DEF Counted
<1>7. \A k \in Job, c \in Permits!Budget : Permits!WaitsFor(k, c)' <=> k # j /\ Permits!WaitsFor(k, c)
  BY <1>1, <1>2 DEF Permits!WaitsFor, Permits!Budget
<1>8. Turns'
  <2>. SUFFICES ASSUME NEW c \in Permits!Budget
       PROVE /\ \A k \in Job :
                  Permits!WaitsFor(k, c)' => serving'[c] <= ticket'[k] /\ ticket'[k] < issued'[c]
             /\ \A k, l \in Job :
                  Permits!WaitsFor(k, c)' /\ Permits!WaitsFor(l, c)' /\ ticket'[k] = ticket'[l] => k = l
             /\ \A t \in serving'[c] .. issued'[c] - 1 :
                  \E k \in Job : Permits!WaitsFor(k, c)' /\ ticket'[k] = t
    BY DEF Turns
  <2>1. /\ \A k \in Job : Permits!WaitsFor(k, c) => serving[c] <= ticket[k] /\ ticket[k] < issued[c]
        /\ \A k, l \in Job :
             Permits!WaitsFor(k, c) /\ Permits!WaitsFor(l, c) /\ ticket[k] = ticket[l] => k = l
        /\ \A t \in serving[c] .. issued[c] - 1 : \E k \in Job : Permits!WaitsFor(k, c) /\ ticket[k] = t
        /\ issued[c] \in Nat /\ serving[c] \in Nat /\ issued'[c] = issued[c] /\ ticket' = ticket
    BY <1>1, Facts DEF Turns
  <2>2. CASE c = b
    <3>1. Permits!WaitsFor(j, c) /\ ticket[j] = serving[c] /\ serving'[c] = serving[c] + 1
      BY <2>2, <1>1, <1>2 DEF Permits!WaitsFor
    <3>2. \A k \in Job : k # j /\ Permits!WaitsFor(k, c) => ticket[k] # serving[c]
      BY <3>1, <2>1
    <3>3. \A k \in Job : Permits!WaitsFor(k, c)' => serving'[c] <= ticket'[k] /\ ticket'[k] < issued'[c]
      BY <3>1, <3>2, <2>1, <1>7, Facts
    <3>4. ASSUME NEW t \in serving'[c] .. issued'[c] - 1
          PROVE  \E k \in Job : Permits!WaitsFor(k, c)' /\ ticket'[k] = t
      <4>1. t \in serving[c] .. issued[c] - 1 /\ t # serving[c]
        BY <3>1, <2>1, <3>4
      <4>2. PICK k \in Job : Permits!WaitsFor(k, c) /\ ticket[k] = t
        BY <4>1, <2>1
      <4>. QED
        BY <4>1, <4>2, <3>1, <2>1, <1>7
    <3>. QED
      BY <3>3, <3>4, <2>1, <1>7
  <2>3. CASE c # b
    <3>1. serving'[c] = serving[c] /\ ~Permits!WaitsFor(j, c)
      BY <2>3, <1>1, <1>2 DEF Permits!WaitsFor
    <3>. QED
      BY <3>1, <2>1, <1>7
  <2>. QED
    BY <2>2, <2>3
<1>9. Asleep'
  BY <1>1, <1>2, <1>3, Woken
<1>10. Permits!PermitsBalance'
  <2>1. /\ j \notin Permits!Holders(b) /\ Permits!Holders(b)' = Permits!Holders(b) \cup {j}
        /\ \A c \in Permits!Budget \ {b} : Permits!Holders(c)' = Permits!Holders(c)
    BY <1>1, <1>2, <1>3 DEF Permits!Holders, Permits!Budget
  <2>2. \A c \in Permits!Budget \ {b} : active'[c] = Permits!Load(c)' /\ active'[c] <= limit'[c]
    BY <2>1, <1>1, <1>2, LoadKept
  <2>3. Cardinality(Permits!Holders(b)') = Cardinality(Permits!Holders(b)) + 1
    BY <2>1, FS_AddElement, FiniteJobs
  <2>4. /\ active'[b] = active[b] + Permits!Weight(j, b) /\ limit'[b] = limit[b]
        /\ active[b] = Permits!Load(b) /\ active[b] <= limit[b]
        /\ active[b] \in Nat /\ limit[b] \in Nat /\ Permits!Weight(j, b) \in Nat
        /\ Permits!Weight(j, b) > 0
    BY <1>1, <1>2, Facts DEF Permits!PermitsBalance
  <2>5. ~(b = "io" /\ Permits!Holders(b) \cap Large # {})
    BY <2>4, <1>1 DEF Permits!Load
  <2>6. active[b] = Cardinality(Permits!Holders(b))
    BY <2>4, <2>5, SameCount DEF Permits!Load
  <2>7. CASE b = "io" /\ j \in Large
    <3>1. Permits!Weight(j, b) = limit[b]
      BY <2>7 DEF Permits!Weight
    <3>2. active[b] = 0
      BY <3>1, <2>4, <1>1
    <3>3. Permits!Holders(b) = {}
      BY <3>2, <2>6, FS_EmptySet, FiniteJobs
    <3>4. Permits!Holders(b)' = {j} /\ j \in Permits!Holders(b)' \cap Large
      BY <3>3, <2>1, <2>7
    <3>5. active'[b] = Permits!Load(b)' /\ active'[b] <= limit'[b]
      BY <3>1, <3>2, <3>4, <2>4, <2>7 DEF Permits!Load
    <3>. QED
      BY <3>4, <3>5, <2>2, <2>7 DEF Permits!PermitsBalance
  <2>8. CASE ~(b = "io" /\ j \in Large)
    <3>1. Permits!Weight(j, b) = 1
      BY <2>8 DEF Permits!Weight
    <3>2. ~(b = "io" /\ Permits!Holders(b)' \cap Large # {})
      BY <2>1, <2>5, <2>8
    <3>3. active'[b] = Permits!Load(b)' /\ active'[b] <= limit'[b]
      BY <3>1, <3>2, <2>3, <2>4, <2>6, <1>1, SameCount DEF Permits!Load
    <3>4. \A k \in Permits!Holders("io")' \cap Large : Permits!Holders("io")' = {k}
      BY <3>2, <2>1 DEF Permits!PermitsBalance, Permits!Budget
    <3>. QED
      BY <3>3, <3>4, <2>2 DEF Permits!PermitsBalance
  <2>. QED
    BY <2>7, <2>8
<1>. QED
  BY <1>6, <1>8, <1>9, <1>10

\* A permit is given back.
LEMMA ReleaseKeeps ==
  ASSUME Permits!AdmissionAssumption, AInv, NEW j \in Job, Permits!Release(j)
  PROVE  AInv'
<1>. USE DEF AInv
<1>0. PICK b \in Permits!Budget : b = Permits!Holds(j)
  BY DEF Permits!Holds, Permits!Budget
<1>1. /\ step[j] \in {"work", "drop"} /\ b \in Permits!Budget
      /\ active' = [active EXCEPT ![b] = active[b] - Permits!Weight(j, b)]
      /\ step' = [step EXCEPT ![j] = IF b = "io" /\ j \in Hashers THEN "drop" ELSE "ended"]
      /\ Permits!Notify(b)
      /\ UNCHANGED <<limit, issued, serving, ticket>>
  BY <1>0 DEF Permits!Release, Permits!Holds
<1>2. /\ \A k \in Job :
           step'[k] = IF k = j THEN (IF b = "io" /\ j \in Hashers THEN "drop" ELSE "ended") ELSE step[k]
      /\ \A c \in Permits!Budget :
           active'[c] = IF c = b THEN active[b] - Permits!Weight(j, b) ELSE active[c]
  BY <1>1 DEF Counted
<1>3. step[j] = "drop" => j \in Hashers
  BY DEF Asleep
<1>4. /\ j \in Permits!Holders(b) /\ Permits!Holders(b)' = Permits!Holders(b) \ {j}
      /\ \A c \in Permits!Budget \ {b} : Permits!Holders(c)' = Permits!Holders(c)
  <2>1. CASE step[j] = "work"
    <3>1. b = "io"
      BY <1>0, <2>1 DEF Permits!Holds
    <3>2. Permits!Holders("hash")' = Permits!Holders("hash")
      BY <2>1, <3>1, <1>2 DEF Permits!Holders
    <3>3. j \in Permits!Holders("io") /\ Permits!Holders("io")' = Permits!Holders("io") \ {j}
      BY <2>1, <3>1, <1>2 DEF Permits!Holders
    <3>. QED
      BY <3>1, <3>2, <3>3 DEF Permits!Budget
  <2>2. CASE step[j] = "drop"
    <3>1. b = "hash" /\ j \in Hashers
      BY <1>0, <2>2, <1>3 DEF Permits!Holds
    <3>2. Permits!Holders("io")' = Permits!Holders("io")
      BY <2>2, <3>1, <1>2 DEF Permits!Holders
    <3>3. j \in Permits!Holders("hash") /\ Permits!Holders("hash")' = Permits!Holders("hash") \ {j}
      BY <2>2, <3>1, <1>2 DEF Permits!Holders
    <3>. QED
      BY <3>1, <3>2, <3>3 DEF Permits!Budget
  <2>. QED
    BY <1>1, <2>1, <2>2
<1>5. Cardinality(Permits!Holders(b)') = Cardinality(Permits!Holders(b)) - 1
  BY <1>4, FS_RemoveElement, FiniteJobs
<1>6. /\ active[b] = Permits!Load(b) /\ active[b] <= limit[b]
      /\ active[b] \in Nat /\ limit[b] \in Nat /\ limit'[b] = limit[b]
      /\ active'[b] = active[b] - Permits!Weight(j, b)
      /\ Cardinality(Permits!Holders(b)) \in Nat /\ Cardinality(Permits!Holders(b)') \in Nat
  BY <1>1, <1>2, Facts, FiniteJobs DEF Permits!PermitsBalance
<1>7. active'[b] = Permits!Load(b)' /\ active'[b] <= limit'[b] /\ active'[b] \in Nat
  <2>1. CASE b = "io" /\ j \in Large
    <3>1. Permits!Holders(b) = {j}
      BY <1>4, <2>1 DEF Permits!PermitsBalance
    <3>2. Permits!Holders(b)' = {} /\ Permits!Load(b) = limit[b] /\ Permits!Weight(j, b) = limit[b]
      BY <1>4, <2>1, <3>1 DEF Permits!Load, Permits!Weight
    <3>3. Permits!Load(b)' = 0
      BY <2>1, <3>2, FS_EmptySet, SameCount DEF Permits!Load
    <3>. QED
      BY <1>6, <3>2, <3>3
  <2>2. CASE ~(b = "io" /\ j \in Large)
    <3>1. ~(b = "io" /\ Permits!Holders(b) \cap Large # {})
      BY <1>4, <2>2 DEF Permits!PermitsBalance
    <3>2. Permits!Load(b) = Cardinality(Permits!Holders(b)) /\ Permits!Weight(j, b) = 1
      BY <2>2, <3>1, SameCount DEF Permits!Load, Permits!Weight
    <3>3. Permits!Load(b)' = Cardinality(Permits!Holders(b)')
      <4>1. ~(b = "io" /\ Permits!Holders(b)' \cap Large # {})
        BY <1>4, <3>1
      <4>. QED
        BY <4>1, SameCount DEF Permits!Load
    <3>. QED
      BY <1>5, <1>6, <3>2, <3>3
  <2>. QED
    BY <2>1, <2>2
<1>8. Permits!PermitsBalance'
  <2>1. \A c \in Permits!Budget \ {b} : active'[c] = Permits!Load(c)' /\ active'[c] <= limit'[c]
    BY <1>1, <1>2, <1>4, LoadKept
  <2>2. Permits!Holders("io")' \subseteq Permits!Holders("io")
    <3>1. CASE b = "io"
      BY <1>4, <3>1
    <3>2. CASE b # "io"
      <4>1. "io" \in Permits!Budget \ {b}
        BY <3>2 DEF Permits!Budget
      <4>. QED
        BY <1>4, <4>1
    <3>. QED
      BY <3>1, <3>2
  <2>3. \A k \in Permits!Holders("io")' \cap Large : Permits!Holders("io")' = {k}
    BY <2>2 DEF Permits!PermitsBalance
  <2>4. \A c \in Permits!Budget : active'[c] = Permits!Load(c)' /\ active'[c] <= limit'[c]
    <3>. SUFFICES ASSUME NEW c \in Permits!Budget PROVE active'[c] = Permits!Load(c)'
           /\ active'[c] <= limit'[c]
      OBVIOUS
    <3>1. CASE c = b
      BY <1>7, <3>1
    <3>2. CASE c # b
      BY <2>1, <3>2
    <3>. QED
      BY <3>1, <3>2
  <2>. QED
    BY <2>3, <2>4 DEF Permits!PermitsBalance
<1>9. \A c \in Permits!Budget : Took(c)' = Took(c)
  BY <1>0, <1>1, <1>2, <1>3
  DEF Took, Permits!Budget, Permits!AdmissionAssumption, Permits!Holds
<1>10. Counted'
  <2>1. active' \in [Permits!Budget -> Nat]
    BY <1>1, <1>7 DEF Counted
  <2>2. step' \in [Job -> {"start", "hash", "hashed", "io", "work", "drop", "ended"}]
    BY <1>1 DEF Counted
  <2>3. asleep' \subseteq Job
    BY <1>1 DEF Counted, Permits!Notify
  <2>. QED
    BY <1>1, <1>9, <2>1, <2>2, <2>3 DEF Counted
<1>11. \A k \in Job, c \in Permits!Budget : Permits!WaitsFor(k, c)' <=> Permits!WaitsFor(k, c)
  BY <1>1, <1>2 DEF Permits!WaitsFor, Permits!Budget
<1>12. Turns'
  BY <1>1, <1>11 DEF Turns
<1>13. j \notin asleep
  BY <1>1 DEF Asleep, Permits!WaitsFor
<1>14. Asleep'
  BY <1>0, <1>1, <1>2, <1>13, Woken DEF Asleep, Permits!Holds
<1>. QED
  BY <1>8, <1>10, <1>12, <1>14

LEMMA ANext ==
  ASSUME Permits!AdmissionAssumption, AInv, Permits!Next
  PROVE  AInv'
BY BeginKeeps, AcquireIoKeeps, ReleaseKeeps, SleepKeeps, EnterKeeps DEF Permits!Next

LEMMA AStutter ==
  ASSUME AInv, UNCHANGED Permits!vars
  PROVE  AInv'
<1>. USE DEF AInv, Permits!vars
<1>1. /\ \A c : Took(c)' = Took(c) /\ Permits!Holders(c)' = Permits!Holders(c)
      /\ \A k, c :
           (Permits!WaitsFor(k, c)' <=> Permits!WaitsFor(k, c)) /\ (Permits!Fits(k, c)' <=> Permits!Fits(k, c))
  BY DEF Took, Permits!Holders, Permits!WaitsFor, Permits!Fits, Permits!Weight
<1>2. \A c : Permits!Load(c)' = Permits!Load(c)
  BY <1>1 DEF Permits!Load
<1>3. Counted'
  BY <1>1 DEF Counted
<1>4. Turns'
  BY <1>1 DEF Turns
<1>5. Asleep'
  BY <1>1 DEF Asleep
<1>6. Permits!PermitsBalance'
  BY <1>1, <1>2 DEF Permits!PermitsBalance
<1>. QED
  BY <1>3, <1>4, <1>5, <1>6

\* Permits are counted and tickets are served in order, for every number of
\* jobs, whatever they weigh.
THEOREM PermitsInvariance ==
  ASSUME Permits!AdmissionAssumption
  PROVE  Permits!Spec => []AInv
<1>1. Permits!Init => AInv
  BY AInit
<1>2. AInv /\ [Permits!Next]_(Permits!vars) => AInv'
  BY ANext, AStutter
<1>. QED
  BY <1>1, <1>2, PTL DEF Permits!Spec

\* The invariant leaves somebody to go on.
LEMMA Runs ==
  ASSUME Permits!AdmissionAssumption, AInv
  PROVE  Permits!SomeoneRuns
<1>. USE DEF AInv
<1>1. \A j \in asleep, b \in Permits!Budget : Permits!WaitsFor(j, b) => ~Permits!Fits(j, b)
  BY DEF Asleep
<1>. SUFFICES ASSUME \E j \in Job : step[j] # "ended",
                     \A j \in Job : step[j] \notin {"start", "hashed", "work", "drop"}
     PROVE  \E j \in Job : \E b \in Permits!Budget :
              Permits!WaitsFor(j, b) /\ Permits!Fits(j, b) /\ j \notin asleep
  BY <1>1 DEF Permits!SomeoneRuns
<1>2. \A j \in Job : step[j] \in {"hash", "io", "ended"}
  BY DEF Counted
\* The device is free, and so is the hash budget when nobody waits for the device.
<1>3. \E b \in Permits!Budget : Permits!Holders(b) = {} /\ \E j \in Job : Permits!WaitsFor(j, b)
  <2>1. Permits!Holders("io") = {}
    BY <1>2 DEF Permits!Holders
  <2>2. CASE \E j \in Job : step[j] = "io"
    BY <2>1, <2>2 DEF Permits!WaitsFor, Permits!Budget
  <2>3. CASE \A j \in Job : step[j] # "io"
    <3>1. Permits!Holders("hash") = {}
      BY <1>2, <2>3 DEF Permits!Holders
    <3>2. \E j \in Job : step[j] = "hash"
      BY <1>2, <2>3
    <3>. QED
      BY <3>1, <3>2 DEF Permits!WaitsFor, Permits!Budget
  <2>. QED
    BY <2>2, <2>3
<1>4. PICK b \in Permits!Budget : Permits!Holders(b) = {} /\ \E j \in Job : Permits!WaitsFor(j, b)
  BY <1>3
<1>5. active[b] = 0
  BY <1>4, FS_EmptySet, SameCount DEF Permits!PermitsBalance, Permits!Load
<1>6. serving[b] \in serving[b] .. issued[b] - 1
  BY <1>4, Facts DEF Turns
<1>7. PICK j \in Job : Permits!WaitsFor(j, b) /\ ticket[j] = serving[b]
  BY <1>6 DEF Turns
<1>8. Permits!Fits(j, b)
  BY <1>5, <1>7, Facts DEF Permits!Fits, Permits!Weight
<1>. QED
  BY <1>1, <1>7, <1>8

\* No limit is exceeded, a heavy file is alone on its device, nobody sleeps
\* through its turn, and the jobs never all wait for one another.
THEOREM PermitsAreServed ==
  ASSUME Permits!AdmissionAssumption
  PROVE  Permits!Spec => [](Permits!TypeOK /\ Permits!PermitsBalance /\ Permits!SomeoneRuns)
<1>1. AInv => Permits!TypeOK
  <2>. SUFFICES ASSUME AInv PROVE Permits!TypeOK
    OBVIOUS
  <2>1. \A b \in Permits!Budget :
          issued[b] \in 0 .. Cardinality(Job) /\ serving[b] \in 0 .. Cardinality(Job)
    BY FiniteJobs, Facts DEF AInv, Counted
  <2>2. \A j \in Job : ticket[j] \in 0 .. Cardinality(Job)
    BY FiniteJobs, Facts DEF AInv, Counted
  <2>. QED
    BY <2>1, <2>2, SameCount DEF AInv, Counted, Permits!TypeOK
<1>2. AInv => Permits!PermitsBalance /\ Permits!SomeoneRuns
  BY Runs DEF AInv
<1>. QED
  BY <1>1, <1>2, PermitsInvariance, PTL

-----------------------------------------------------------------------------
\* Two windows of Gets that overlap (GetOverlap).
CONSTANTS Windows, MaxFiles, MaxBytes
VARIABLES first, second, installing, next, files, bytes, cancelled, asking, job, putOff,
  received, result

Overlap == INSTANCE GetOverlap WITH deferred <- putOff

\* A set of numbers has a least one: the induction behind the sums of a window.
LEMMA Before == \A m, n \in Nat : <<m, n>> \in OpToRel(<, Nat) <=> m < n
BY SMT DEF OpToRel

LEMMA Least ==
  ASSUME NEW T, T \subseteq Nat, T # {}
  PROVE  \E n \in T : \A m \in T : m >= n
<1>1. IsWellFoundedOn(OpToRel(<, Nat), Nat)
  BY NatLessThanWellFounded
<1>2. PICK n \in T : \A m \in T : ~(<<m, n>> \in OpToRel(<, Nat))
  BY <1>1, WFMin
<1>3. \A m \in T : ~(m < n)
  BY <1>2, Before
<1>. QED
  BY <1>3

\* Sums of the sizes up to each file, as Bytes computes them.
Sums(g, w, k) ==
  /\ g \in [0 .. k -> Nat] /\ g[0] = 0
  /\ \A i \in 1 .. k : g[i] = g[i - 1] + w[i]

LEMMA SumsExist ==
  ASSUME NEW w \in Seq(Nat)
  PROVE  \E g : Sums(g, w, Len(w))
<1>. DEFINE Bad == {k \in 0 .. Len(w) : ~ \E g : Sums(g, w, k)}
<1>1. SUFFICES ASSUME Bad # {} PROVE FALSE
  <2>1. Len(w) \in 0 .. Len(w)
    OBVIOUS
  <2>. QED
    BY <2>1
<1>2. Bad \subseteq Nat
  OBVIOUS
<1>3. PICK k \in Bad : \A m \in Bad : m >= k
  BY <1>1, <1>2, Least
<1>4. k # 0
  <2>1. Sums([i \in 0 .. 0 |-> 0], w, 0)
    BY DEF Sums
  <2>. QED
    BY <2>1, <1>3
<1>5. PICK g : Sums(g, w, k - 1)
  BY <1>3, <1>4
<1>. DEFINE h == [i \in 0 .. k |-> IF i = k THEN g[k - 1] + w[k] ELSE g[i]]
<1>6. Sums(h, w, k)
  <2>1. k \in Nat /\ k > 0 /\ k <= Len(w) /\ w[k] \in Nat
    BY <1>3, <1>4
  <2>2. g \in [0 .. k - 1 -> Nat] /\ g[0] = 0 /\ \A i \in 1 .. k - 1 : g[i] = g[i - 1] + w[i]
    BY <1>5 DEF Sums
  <2>3. h \in [0 .. k -> Nat] /\ h[0] = 0
    BY <2>1, <2>2
  <2>4. ASSUME NEW i \in 1 .. k PROVE h[i] = h[i - 1] + w[i]
    <3>1. h[i - 1] = g[i - 1]
      BY <2>1
    <3>2. CASE i = k
      BY <2>1, <3>1, <3>2
    <3>3. CASE i # k
      <4>1. h[i] = g[i] /\ i \in 1 .. k - 1
        BY <2>1, <3>3
      <4>. QED
        BY <2>2, <3>1, <4>1
    <3>. QED
      BY <3>2, <3>3
  <2>. QED
    BY <2>3, <2>4 DEF Sums
<1>. QED
  BY <1>3, <1>6

LEMMA BytesSum ==
  ASSUME NEW w \in Seq(Nat)
  PROVE  Sums(Overlap!Bytes(w), w, Len(w))
<1>. DEFINE Step(f) == [n \in 0 .. Len(w) |-> IF n = 0 THEN 0 ELSE f[n - 1] + w[n]]
            sum == CHOOSE f : f = Step(f)
<1>1. PICK g : Sums(g, w, Len(w))
  BY SumsExist
<1>2. g = Step(g)
  BY <1>1 DEF Sums
<1>3. sum = Step(sum)
  BY <1>2
<1>4. Overlap!Bytes(w) = sum
  BY DEF Overlap!Bytes
<1>. DEFINE b == Overlap!Bytes(w)
<1>5. b = [n \in 0 .. Len(w) |-> IF n = 0 THEN 0 ELSE b[n - 1] + w[n]]
  BY <1>3, <1>4
<1>. HIDE DEF b, sum
<1>6. b[0] = 0 /\ \A i \in 1 .. Len(w) : b[i] = b[i - 1] + w[i]
  BY <1>5
<1>7. ASSUME NEW k \in 0 .. Len(w), b[k] \notin Nat PROVE FALSE
  <2>. DEFINE Bad == {n \in 0 .. Len(w) : b[n] \notin Nat}
  <2>1. PICK n \in Bad : \A m \in Bad : m >= n
    <3>1. Bad \subseteq Nat /\ Bad # {}
      BY <1>7
    <3>. QED
      BY <3>1, Least
  <2>2. n # 0
    BY <1>6, <2>1
  <2>3. n - 1 \in 0 .. Len(w) /\ n - 1 \notin Bad /\ w[n] \in Nat
    BY <2>1, <2>2
  <2>. QED
    BY <1>6, <2>1, <2>2, <2>3
<1>8. b \in [0 .. Len(w) -> Nat]
  BY <1>5, <1>7
<1>. QED
  BY <1>6, <1>8 DEF Sums, b

\* Later sums are no smaller.
LEMMA BytesGrow ==
  ASSUME NEW w \in Seq(Nat), NEW k \in 0 .. Len(w), NEW l \in k .. Len(w)
  PROVE  Overlap!Bytes(w)[k] <= Overlap!Bytes(w)[l]
<1>. DEFINE b == Overlap!Bytes(w)
<1>1. b \in [0 .. Len(w) -> Nat] /\ \A i \in 1 .. Len(w) : b[i] = b[i - 1] + w[i]
  BY BytesSum DEF Sums
<1>. HIDE DEF b
<1>. DEFINE Bad == {n \in k .. Len(w) : ~(b[k] <= b[n])}
<1>2. ASSUME Bad # {} PROVE FALSE
  <2>1. PICK n \in Bad : \A m \in Bad : m >= n
    <3>1. Bad \subseteq Nat
      OBVIOUS
    <3>. QED
      BY <1>2, <3>1, Least
  <2>2. n # k
    BY <1>1, <2>1
  <2>3. n - 1 \in k .. Len(w) /\ n - 1 \notin Bad /\ w[n] \in Nat /\ n \in 1 .. Len(w)
    BY <2>1, <2>2
  <2>4. b[n] = b[n - 1] + w[n] /\ b[k] <= b[n - 1] /\ b[k] \in Nat /\ b[n - 1] \in Nat /\ b[n] \in Nat
    <3>1. n - 1 \in 0 .. Len(w) /\ n \in 0 .. Len(w) /\ k \in 0 .. Len(w)
      BY <2>3
    <3>2. b[k] \in Nat /\ b[n - 1] \in Nat /\ b[n] \in Nat
      BY <1>1, <3>1
    <3>. QED
      BY <1>1, <2>3, <3>2
  <2>5. ~(b[k] <= b[n])
    BY <2>1
  <2>. QED
    BY <2>3, <2>4, <2>5
<1>. QED
  BY <1>2 DEF b

-----------------------------------------------------------------------------
\* The files of the second window that hold credits.
Held == IF asking = "reply" \/ (received = "lost" /\ job <= Len(second)) THEN job ELSE job - 1

\* Every file that was not installed yet, or was asked for, holds its credits.
Owed ==
  /\ files = (Len(first) - next + 1) + Held
  /\ bytes = (Overlap!Total(first) - Overlap!Bytes(first)[next - 1]) + Overlap!Bytes(second)[Held]

\* Where the two threads are.
Threads ==
  /\ installing \in {"release", "failed"} => next <= Len(first)
  /\ installing = "joining" => cancelled \/ next = Len(first) + 1
  /\ asking \in {"reply", "asleep"} => job <= Len(second)
  /\ asking = "barrier" \/ received = "deferred" => putOff /\ job = Len(second) + 1
  /\ received = "window" => ~putOff /\ job = Len(second) + 1
  /\ received = "cancelled" => cancelled
  /\ received = "none" <=> asking # "done"
  /\ installing = "done" \/ result # "none" => asking = "done"
  /\ result = "done" => received = "window"
  /\ result = "deferred" => received = "deferred"

\* The worker sleeps only while its file does not fit, or nobody is cancelled.
Sleeping == asking = "asleep" => ~cancelled /\ ~Overlap!Room(second[job])

\* Who sleeps has still to be given credits back.
SleeperIsWoken == asking = "asleep" => installing \in {"install", "release", "failed"}

OInv == Overlap!TypeOK /\ Owed /\ Threads /\ Sleeping

\* Sizes and sums of the windows.
LEMMA Sizes ==
  ASSUME Overlap!WindowsAssumption, first \in Windows, second \in Windows
  PROVE  /\ MaxFiles \in Nat /\ MaxBytes \in Nat
         /\ first \in Seq(Nat) /\ second \in Seq(Nat)
         /\ Len(first) \in 1 .. MaxFiles /\ Len(second) \in 1 .. MaxFiles
         /\ Sums(Overlap!Bytes(first), first, Len(first))
         /\ Sums(Overlap!Bytes(second), second, Len(second))
         /\ Overlap!Total(first) = Overlap!Bytes(first)[Len(first)] /\ Overlap!Total(first) <= MaxBytes
         /\ Overlap!Total(second) = Overlap!Bytes(second)[Len(second)] /\ Overlap!Total(second) <= MaxBytes
<1>1. /\ MaxFiles \in Nat /\ MaxBytes \in Nat
      /\ first \in Seq(Nat) /\ second \in Seq(Nat)
      /\ Len(first) \in 1 .. MaxFiles /\ Len(second) \in 1 .. MaxFiles
      /\ Overlap!Total(first) <= MaxBytes /\ Overlap!Total(second) <= MaxBytes
  BY DEF Overlap!WindowsAssumption
<1>2. /\ Overlap!Total(first) = Overlap!Bytes(first)[Len(first)]
      /\ Overlap!Total(second) = Overlap!Bytes(second)[Len(second)]
  BY DEF Overlap!Total
<1>. QED
  BY <1>1, <1>2, BytesSum

\* The credits of the files still in memory, one by one.
LEMMA Credits ==
  ASSUME Overlap!WindowsAssumption, OInv
  PROVE  /\ MaxFiles \in Nat /\ MaxBytes \in Nat
         /\ Len(first) \in Nat /\ Len(second) \in Nat /\ next \in 1 .. Len(first) + 1
         /\ job \in 1 .. Len(second) + 1
         /\ files \in 0 .. MaxFiles /\ bytes \in 0 .. MaxBytes
         /\ Held \in 0 .. Len(second) /\ Overlap!Bytes(second)[Held] \in Nat
         /\ Overlap!Total(first) \in Nat
         /\ Overlap!Bytes(first)[next - 1] \in Nat /\ Overlap!Bytes(first)[next - 1] <= Overlap!Total(first)
         /\ next <= Len(first) =>
              /\ first[next] \in Nat
              /\ Overlap!Bytes(first)[next] = Overlap!Bytes(first)[next - 1] + first[next]
              /\ Overlap!Bytes(first)[next] <= Overlap!Total(first)
         /\ job <= Len(second) =>
              /\ second[job] \in Nat
              /\ Overlap!Bytes(second)[job] = Overlap!Bytes(second)[job - 1] + second[job]
              /\ Overlap!Bytes(second)[job - 1] \in Nat
              /\ Overlap!Bytes(second)[job] <= Overlap!Total(second)
              /\ Overlap!Total(second) <= MaxBytes /\ Len(second) <= MaxFiles
<1>1. /\ MaxFiles \in Nat /\ MaxBytes \in Nat
      /\ first \in Seq(Nat) /\ second \in Seq(Nat)
      /\ Len(first) \in 1 .. MaxFiles /\ Len(second) \in 1 .. MaxFiles
      /\ Overlap!Bytes(first) \in [0 .. Len(first) -> Nat]
      /\ Overlap!Bytes(second) \in [0 .. Len(second) -> Nat]
      /\ \A i \in 1 .. Len(first) : Overlap!Bytes(first)[i] = Overlap!Bytes(first)[i - 1] + first[i]
      /\ \A i \in 1 .. Len(second) : Overlap!Bytes(second)[i] = Overlap!Bytes(second)[i - 1] + second[i]
      /\ Overlap!Total(first) = Overlap!Bytes(first)[Len(first)]
      /\ Overlap!Total(second) = Overlap!Bytes(second)[Len(second)] /\ Overlap!Total(second) <= MaxBytes
  BY Sizes DEF OInv, Overlap!TypeOK, Sums
<1>2. /\ next \in 1 .. Len(first) + 1 /\ job \in 1 .. Len(second) + 1
      /\ files \in 0 .. MaxFiles /\ bytes \in 0 .. MaxBytes
  BY DEF OInv, Overlap!TypeOK
<1>3. Held \in 0 .. Len(second)
  BY <1>1, <1>2 DEF OInv, Threads, Held
<1>4. /\ \A k \in 0 .. Len(first) : Overlap!Bytes(first)[k] <= Overlap!Total(first)
      /\ \A k \in 0 .. Len(second) : Overlap!Bytes(second)[k] <= Overlap!Total(second)
  <2>1. ASSUME NEW w \in Seq(Nat), NEW k \in 0 .. Len(w)
        PROVE  Overlap!Bytes(w)[k] <= Overlap!Bytes(w)[Len(w)]
    <3>1. Len(w) \in k .. Len(w)
      OBVIOUS
    <3>. QED
      BY <3>1, BytesGrow
  <2>. QED
    BY <1>1, <2>1
<1>5. next - 1 \in 0 .. Len(first) /\ (next <= Len(first) => next \in 1 .. Len(first))
  BY <1>1, <1>2
<1>6. job <= Len(second) => job \in 1 .. Len(second) /\ job - 1 \in 0 .. Len(second)
  BY <1>1, <1>2
<1>7. /\ Len(first) \in Nat /\ Len(second) \in Nat /\ Len(second) <= MaxFiles
      /\ 0 \in 0 .. Len(first) /\ Len(first) \in 0 .. Len(first)
      /\ \A i \in 1 .. Len(first) : i \in 0 .. Len(first) /\ first[i] \in Nat
      /\ \A i \in 1 .. Len(second) : i \in 0 .. Len(second) /\ second[i] \in Nat
  BY <1>1
<1>8. /\ Overlap!Bytes(second)[Held] \in Nat /\ Overlap!Total(first) \in Nat
      /\ Overlap!Bytes(first)[next - 1] \in Nat /\ Overlap!Bytes(first)[next - 1] <= Overlap!Total(first)
  BY <1>1, <1>3, <1>4, <1>5, <1>7
<1>9. ASSUME next <= Len(first)
      PROVE  /\ first[next] \in Nat
             /\ Overlap!Bytes(first)[next] = Overlap!Bytes(first)[next - 1] + first[next]
             /\ Overlap!Bytes(first)[next] <= Overlap!Total(first)
  BY <1>1, <1>4, <1>5, <1>7, <1>9
<1>10. ASSUME job <= Len(second)
       PROVE  /\ second[job] \in Nat
              /\ Overlap!Bytes(second)[job] = Overlap!Bytes(second)[job - 1] + second[job]
              /\ Overlap!Bytes(second)[job - 1] \in Nat
              /\ Overlap!Bytes(second)[job] <= Overlap!Total(second)
  BY <1>1, <1>4, <1>6, <1>7, <1>10
<1>. QED
  BY <1>1, <1>2, <1>3, <1>7, <1>8, <1>9, <1>10

LEMMA OInit ==
  ASSUME Overlap!WindowsAssumption
  PROVE  Overlap!Init => OInv
<1>. SUFFICES ASSUME Overlap!Init PROVE OInv
  OBVIOUS
<1>1. first \in Windows /\ second \in Windows
  BY DEF Overlap!Init
<1>2. /\ MaxFiles \in Nat /\ MaxBytes \in Nat
      /\ Len(first) \in 1 .. MaxFiles /\ Len(second) \in 1 .. MaxFiles
      /\ Overlap!Bytes(first)[0] = 0 /\ Overlap!Bytes(second)[0] = 0
      /\ Overlap!Total(first) \in Nat /\ Overlap!Total(first) <= MaxBytes
  BY <1>1, Sizes DEF Sums
<1>3. /\ installing = "install" /\ next = 1 /\ result = "none"
      /\ files = Len(first) /\ bytes = Overlap!Total(first) /\ cancelled = FALSE
      /\ asking = "acquire" /\ job = 1 /\ putOff = FALSE /\ received = "none"
  BY DEF Overlap!Init
<1>4. Held = 0
  BY <1>3 DEF Held
<1>5. Overlap!TypeOK
  <2>1. /\ next \in 1 .. Len(first) + 1 /\ job \in 1 .. Len(second) + 1
        /\ files \in 0 .. MaxFiles /\ bytes \in 0 .. MaxBytes
    BY <1>2, <1>3
  <2>. QED
    BY <1>1, <1>3, <2>1 DEF Overlap!TypeOK
<1>6. Owed
  BY <1>2, <1>3, <1>4 DEF Owed
<1>7. Threads /\ Sleeping
  BY <1>3 DEF Threads, Sleeping
<1>. QED
  BY <1>5, <1>6, <1>7 DEF OInv

\* A file is installed, or not, and its credits are given back.
LEMMA GivesBackKeeps ==
  ASSUME Overlap!WindowsAssumption, OInv, Overlap!Release
  PROVE  OInv'
<1>1. /\ installing = "release" /\ files' = files - 1 /\ bytes' = bytes - first[next]
      /\ installing' = (IF cancelled THEN "joining" ELSE "install") /\ next' = next + 1
      /\ asking' = (IF asking = "asleep" THEN "acquire" ELSE asking)
      /\ cancelled' = cancelled /\ result' = result /\ job' = job /\ putOff' = putOff
      /\ received' = received /\ first' = first /\ second' = second
  BY DEF Overlap!Release, Overlap!Wakes, Overlap!windows
<1>2. next <= Len(first)
  BY <1>1 DEF OInv, Threads
<1>3. Held' = Held
  BY <1>1 DEF Held
<1>10. Owed
  BY DEF OInv
<1>11. /\ MaxFiles \in Nat /\ MaxBytes \in Nat /\ Len(first) \in Nat /\ next \in 1 .. Len(first) + 1
       /\ files \in 0 .. MaxFiles /\ bytes \in 0 .. MaxBytes
       /\ Held \in Nat /\ Overlap!Bytes(second)[Held] \in Nat /\ Overlap!Total(first) \in Nat
       /\ Overlap!Bytes(first)[next - 1] \in Nat /\ first[next] \in Nat
       /\ Overlap!Bytes(first)[next] = Overlap!Bytes(first)[next - 1] + first[next]
       /\ Overlap!Bytes(first)[next] <= Overlap!Total(first)
  <2>1. Len(second) \in Nat /\ Held \in 0 .. Len(second)
    BY Credits
  <2>. QED
    BY <1>2, <2>1, Credits
<1>12. /\ bytes - first[next]
           = (Overlap!Total(first) - Overlap!Bytes(first)[next]) + Overlap!Bytes(second)[Held]
       /\ bytes - first[next] \in 0 .. MaxBytes
  <2>. DEFINE whole == Overlap!Total(first)
              before == Overlap!Bytes(first)[next - 1]
              after == Overlap!Bytes(first)[next]
              held == Overlap!Bytes(second)[Held]
              size == first[next]
  <2>1. bytes = (whole - before) + held
    BY <1>10 DEF Owed
  <2>2. /\ whole \in Nat /\ before \in Nat /\ held \in Nat /\ size \in Nat
        /\ after = before + size /\ after <= whole /\ MaxBytes \in Nat /\ bytes \in 0 .. MaxBytes
    BY <1>11
  <2>. HIDE DEF whole, before, after, held, size
  <2>3. bytes - size = (whole - after) + held /\ bytes - size \in 0 .. MaxBytes
    BY <2>1, <2>2
  <2>. QED
    BY <2>3 DEF whole, after, held, size
<1>4. Owed'
  <2>1. files' = (Len(first) - next' + 1) + Held
    BY <1>1, <1>10, <1>11 DEF Owed
  <2>2. next' - 1 = next
    BY <1>1, <1>11
  <2>3. bytes' = (Overlap!Total(first) - Overlap!Bytes(first)[next]) + Overlap!Bytes(second)[Held]
    BY <1>1, <1>12
  <2>. QED
    BY <1>1, <1>3, <2>1, <2>2, <2>3 DEF Owed
<1>5. files' \in 0 .. MaxFiles /\ bytes' \in 0 .. MaxBytes
  <2>1. files = (Len(first) - next + 1) + Held
    BY <1>10 DEF Owed
  <2>2. /\ files' = files - 1 /\ Len(first) \in Nat /\ next \in Nat /\ Held \in Nat
        /\ MaxFiles \in Nat /\ files \in 0 .. MaxFiles
    BY <1>1, <1>11
  <2>3. files' \in 0 .. MaxFiles
    BY <1>2, <2>1, <2>2
  <2>. QED
    BY <1>1, <1>12, <2>3
<1>6. next' \in 1 .. Len(first') + 1
  BY <1>1, <1>2, <1>11
<1>7. Overlap!TypeOK'
  BY <1>1, <1>5, <1>6 DEF OInv, Overlap!TypeOK
<1>8. Threads'
  BY <1>1 DEF OInv, Threads
<1>9. Sleeping'
  BY <1>1 DEF Sleeping
<1>. QED
  BY <1>4, <1>7, <1>8, <1>9 DEF OInv

\* The worker takes the credits of its next file, sleeps or gives up.
LEMMA TakesKeeps ==
  ASSUME Overlap!WindowsAssumption, OInv, Overlap!Acquire
  PROVE  OInv'
<1>1. /\ asking = "acquire" /\ job <= Len(second)
      /\ cancelled' = cancelled /\ job' = job /\ putOff' = putOff
      /\ installing' = installing /\ next' = next /\ result' = result
      /\ first' = first /\ second' = second
  BY DEF Overlap!Acquire, Overlap!installer, Overlap!windows
<1>2. received = "none"
  BY <1>1 DEF OInv, Threads
<1>3. CASE cancelled
  <2>1. asking' = "done" /\ received' = "cancelled" /\ files' = files /\ bytes' = bytes
    BY <1>3 DEF Overlap!Acquire, Overlap!Ends
  <2>2. Held' = Held
    BY <1>1, <1>2, <2>1 DEF Held
  <2>3. Overlap!TypeOK'
    BY <1>1, <2>1 DEF OInv, Overlap!TypeOK
  <2>4. Owed'
    BY <1>1, <2>1, <2>2 DEF OInv, Owed
  <2>5. Threads' /\ Sleeping'
    BY <1>1, <1>2, <1>3, <2>1 DEF OInv, Threads, Sleeping
  <2>. QED
    BY <2>3, <2>4, <2>5 DEF OInv
<1>4. CASE ~cancelled /\ Overlap!Room(second[job])
  <2>1. /\ asking' = "reply" /\ received' = received
        /\ files' = files + 1 /\ bytes' = bytes + second[job]
    BY <1>4 DEF Overlap!Acquire
  <2>2. Held' = Held + 1 /\ Held = job - 1 /\ Held' = job
    BY <1>1, <1>2, <2>1, Credits DEF Held
  <2>0. /\ MaxFiles \in Nat /\ MaxBytes \in Nat /\ files \in 0 .. MaxFiles /\ bytes \in 0 .. MaxBytes
        /\ second[job] \in Nat /\ Len(first) \in Nat /\ next \in Nat /\ Held \in Nat
        /\ Overlap!Bytes(second)[job] = Overlap!Bytes(second)[job - 1] + second[job]
        /\ Overlap!Bytes(second)[job - 1] \in Nat
        /\ Overlap!Total(first) \in Nat /\ Overlap!Bytes(first)[next - 1] \in Nat
    <3>1. Len(second) \in Nat /\ Held \in 0 .. Len(second) /\ Len(first) \in Nat /\ next \in 1 .. Len(first) + 1
      BY Credits
    <3>. QED
      BY <1>1, <3>1, Credits
  <2>3. files' \in 0 .. MaxFiles /\ bytes' \in 0 .. MaxBytes
    BY <2>0, <1>4, <2>1 DEF Overlap!Room
  <2>4. Overlap!TypeOK'
    BY <1>1, <2>1, <2>3 DEF OInv, Overlap!TypeOK
  <2>5. Owed'
    <3>1. files' = (Len(first) - next + 1) + Held'
      BY <2>0, <2>1, <2>2 DEF OInv, Owed
    <3>2. bytes' = (Overlap!Total(first) - Overlap!Bytes(first)[next - 1]) + Overlap!Bytes(second)[Held']
      <4>1. bytes = (Overlap!Total(first) - Overlap!Bytes(first)[next - 1]) + Overlap!Bytes(second)[job - 1]
        BY <2>2 DEF OInv, Owed
      <4>2. bytes + second[job]
              = (Overlap!Total(first) - Overlap!Bytes(first)[next - 1]) + Overlap!Bytes(second)[job]
        <5>. DEFINE rest == Overlap!Total(first) - Overlap!Bytes(first)[next - 1]
                    held == Overlap!Bytes(second)[job - 1]
                    after == Overlap!Bytes(second)[job]
                    size == second[job]
        <5>1. /\ bytes = rest + held /\ after = held + size
              /\ rest \in Int /\ held \in Nat /\ size \in Nat
          BY <2>0, <4>1
        <5>. HIDE DEF rest, held, after, size
        <5>2. bytes + size = rest + after
          BY <5>1
        <5>. QED
          BY <5>2 DEF rest, after, size
      <4>. QED
        BY <2>1, <2>2, <4>2
    <3>. QED
      BY <1>1, <3>1, <3>2 DEF Owed
  <2>6. Threads' /\ Sleeping'
    BY <1>1, <1>2, <2>1 DEF OInv, Threads, Sleeping
  <2>. QED
    BY <2>4, <2>5, <2>6 DEF OInv
<1>5. CASE ~cancelled /\ ~Overlap!Room(second[job])
  <2>1. asking' = "asleep" /\ received' = received /\ files' = files /\ bytes' = bytes
    BY <1>5 DEF Overlap!Acquire
  <2>2. Held' = Held
    BY <1>1, <1>2, <2>1 DEF Held
  <2>3. Overlap!TypeOK'
    BY <1>1, <2>1 DEF OInv, Overlap!TypeOK
  <2>4. Owed'
    BY <1>1, <2>1, <2>2 DEF OInv, Owed
  <2>5. Threads'
    BY <1>1, <1>2, <2>1 DEF OInv, Threads
  <2>6. Sleeping'
    BY <1>1, <1>5, <2>1 DEF Sleeping, Overlap!Room
  <2>. QED
    BY <2>3, <2>4, <2>5, <2>6 DEF OInv
<1>. QED
  BY <1>3, <1>4, <1>5

\* A reply counts the file that was asked for; the connection may be lost instead.
LEMMA RepliesKeep ==
  ASSUME Overlap!WindowsAssumption, OInv,
         Overlap!Reply \/ Overlap!Complete \/ Overlap!Barrier \/ Overlap!Lost
  PROVE  OInv'
<1>1. /\ files' = files /\ bytes' = bytes /\ cancelled' = cancelled
      /\ installing' = installing /\ next' = next /\ result' = result
      /\ first' = first /\ second' = second
  BY DEF Overlap!Reply, Overlap!Complete, Overlap!Barrier, Overlap!Lost, Overlap!budget,
    Overlap!installer, Overlap!windows
<1>2. asking \in {"acquire", "reply", "barrier"} /\ received = "none"
  BY DEF OInv, Threads, Overlap!Reply, Overlap!Complete, Overlap!Barrier, Overlap!Lost
<1>3. ASSUME Held' = Held, asking' \in {"acquire", "barrier", "done"}, job' \in 1 .. Len(second) + 1,
             putOff' \in BOOLEAN, received' \in {"none", "window", "deferred", "lost"}, Threads'
      PROVE  OInv'
  <2>1. Overlap!TypeOK'
    BY <1>1, <1>3 DEF OInv, Overlap!TypeOK
  <2>2. Owed'
    BY <1>1, <1>3 DEF OInv, Owed
  <2>3. Sleeping'
    BY <1>3 DEF Sleeping
  <2>. QED
    BY <1>3, <2>1, <2>2, <2>3 DEF OInv
<1>4. CASE Overlap!Reply
  <2>1. /\ asking = "reply" /\ asking' = "acquire" /\ job' = job + 1 /\ putOff' \in BOOLEAN
        /\ received' = received
    BY <1>4 DEF Overlap!Reply, Overlap!budget
  <2>2. job <= Len(second)
    BY <2>1 DEF OInv, Threads
  <2>0. Len(second) \in Nat /\ job \in 1 .. Len(second) + 1
    BY Credits
  <2>3. Held' = Held /\ job' \in 1 .. Len(second) + 1
    BY <1>1, <1>2, <2>0, <2>1, <2>2 DEF Held
  <2>4. Threads'
    BY <1>1, <1>2, <2>1, <2>2 DEF OInv, Threads
  <2>. QED
    BY <1>2, <1>3, <2>1, <2>3, <2>4
<1>5. CASE Overlap!Complete
  <2>1. /\ asking = "acquire" /\ job > Len(second) /\ job' = job /\ putOff' = putOff
        /\ IF putOff THEN asking' = "barrier" /\ received' = received
           ELSE asking' = "done" /\ received' = "window"
    BY <1>5 DEF Overlap!Complete, Overlap!Ends
  <2>2. job = Len(second) + 1 /\ putOff \in BOOLEAN
    BY <2>1, Credits DEF OInv, Overlap!TypeOK
  <2>3. Held' = Held
    BY <1>1, <1>2, <2>1 DEF Held
  <2>4. Threads'
    BY <1>1, <1>2, <2>1, <2>2 DEF OInv, Threads
  <2>. QED
    BY <1>2, <1>3, <2>1, <2>2, <2>3, <2>4, Credits
<1>6. CASE Overlap!Barrier
  <2>1. /\ asking = "barrier" /\ asking' = "done" /\ received' = "deferred"
        /\ job' = job /\ putOff' = putOff
    BY <1>6 DEF Overlap!Barrier, Overlap!Ends
  <2>2. putOff = TRUE /\ job = Len(second) + 1
    BY <2>1 DEF OInv, Threads, Overlap!TypeOK
  <2>3. Held' = Held
    BY <1>1, <1>2, <2>1 DEF Held
  <2>4. Threads'
    BY <1>1, <1>2, <2>1, <2>2 DEF OInv, Threads
  <2>. QED
    BY <1>3, <2>1, <2>2, <2>3, <2>4, Credits
<1>7. CASE Overlap!Lost
  <2>1. /\ asking \in {"reply", "barrier"} /\ asking' = "done" /\ received' = "lost"
        /\ job' = job /\ putOff' = putOff
    BY <1>7 DEF Overlap!Lost, Overlap!Ends
  <2>2. putOff \in BOOLEAN
    BY DEF OInv, Overlap!TypeOK
  <2>3. /\ asking = "reply" => job <= Len(second)
        /\ asking = "barrier" => job = Len(second) + 1
    BY DEF OInv, Threads
  <2>4. Held' = Held
    BY <1>1, <1>2, <2>1, <2>3, Credits DEF Held
  <2>5. Threads'
    BY <1>1, <1>2, <2>1 DEF OInv, Threads
  <2>. QED
    BY <1>3, <2>1, <2>2, <2>4, <2>5, Credits
<1>. QED
  BY <1>4, <1>5, <1>6, <1>7

\* The installer's other steps leave the credits alone.
LEMMA InstallsKeep ==
  ASSUME Overlap!WindowsAssumption, OInv,
         Overlap!Install \/ Overlap!InstallFails \/ Overlap!Cancel \/ Overlap!Join
  PROVE  OInv'
<1>1. /\ files' = files /\ bytes' = bytes /\ next' = next
      /\ job' = job /\ putOff' = putOff /\ received' = received
      /\ first' = first /\ second' = second
  BY DEF Overlap!Install, Overlap!InstallFails, Overlap!Cancel, Overlap!Join, Overlap!budget,
    Overlap!worker, Overlap!windows
<1>2. CASE Overlap!Install
  <2>1. /\ installing = "install" /\ installing' = (IF next > Len(first) THEN "joining" ELSE "release")
        /\ cancelled' = cancelled /\ result' = result /\ asking' = asking
    BY <1>2 DEF Overlap!Install, Overlap!budget, Overlap!worker
  <2>2. next \in 1 .. Len(first) + 1 /\ Len(first) \in Nat
    BY Credits
  <2>3. Overlap!TypeOK' /\ Owed' /\ Sleeping'
    BY <1>1, <2>1 DEF OInv, Overlap!TypeOK, Owed, Held, Sleeping, Overlap!Room
  <2>4. Threads'
    BY <1>1, <2>1, <2>2 DEF OInv, Threads
  <2>. QED
    BY <2>3, <2>4 DEF OInv
<1>3. CASE Overlap!InstallFails
  <2>1. /\ next <= Len(first) /\ installing' = "failed"
        /\ cancelled' = cancelled /\ result' = result /\ asking' = asking
    BY <1>3 DEF Overlap!InstallFails, Overlap!budget, Overlap!worker
  <2>2. Overlap!TypeOK' /\ Owed' /\ Sleeping'
    BY <1>1, <2>1 DEF OInv, Overlap!TypeOK, Owed, Held, Sleeping, Overlap!Room
  <2>3. Threads'
    BY <1>1, <2>1 DEF OInv, Threads
  <2>. QED
    BY <2>2, <2>3 DEF OInv
<1>4. CASE Overlap!Cancel
  <2>1. /\ installing = "failed" /\ installing' = "release" /\ cancelled' = TRUE /\ result' = result
        /\ asking' = (IF asking = "asleep" THEN "acquire" ELSE asking)
    BY <1>4 DEF Overlap!Cancel, Overlap!Wakes
  <2>2. Overlap!TypeOK'
    BY <1>1, <2>1 DEF OInv, Overlap!TypeOK
  <2>3. Owed' /\ Sleeping'
    BY <1>1, <2>1 DEF OInv, Owed, Held, Sleeping
  <2>4. Threads'
    BY <1>1, <2>1 DEF OInv, Threads
  <2>. QED
    BY <2>2, <2>3, <2>4 DEF OInv
<1>5. CASE Overlap!Join
  <2>1. /\ installing = "joining" /\ installing' = "done" /\ asking = "done" /\ asking' = asking
        /\ cancelled' = cancelled
        /\ result' = (CASE received = "lost" -> "lost"
                        [] cancelled -> "failed"
                        [] received = "deferred" -> "deferred"
                        [] OTHER -> "done")
    BY <1>5 DEF Overlap!Join, Overlap!budget, Overlap!worker
  <2>2. /\ received \in {"none", "window", "deferred", "cancelled", "lost"}
        /\ received # "none" /\ (received = "cancelled" => cancelled) /\ cancelled \in BOOLEAN
    BY <2>1 DEF OInv, Overlap!TypeOK, Threads
  <2>3. \/ received = "lost" /\ result' = "lost"
        \/ result' = "failed"
        \/ received = "deferred" /\ result' = "deferred"
        \/ received = "window" /\ result' = "done"
    BY <2>1, <2>2
  <2>4. Overlap!TypeOK' /\ Owed' /\ Sleeping'
    BY <1>1, <2>1, <2>3 DEF OInv, Overlap!TypeOK, Owed, Held, Sleeping
  <2>5. Threads'
    BY <1>1, <2>1, <2>3 DEF OInv, Threads
  <2>. QED
    BY <2>4, <2>5 DEF OInv
<1>. QED
  BY <1>2, <1>3, <1>4, <1>5

LEMMA OStutter ==
  ASSUME OInv, UNCHANGED Overlap!vars
  PROVE  OInv'
BY DEF OInv, Overlap!vars, Overlap!TypeOK, Owed, Held, Threads, Sleeping, Overlap!Room

(* Which files hold credits, and where the two threads of a pair are.      *)
THEOREM CreditsInvariance ==
  ASSUME Overlap!WindowsAssumption
  PROVE  Overlap!Spec => []OInv
<1>1. OInv /\ [Overlap!Next]_(Overlap!vars) => OInv'
  BY GivesBackKeeps, TakesKeeps, RepliesKeep, InstallsKeep, OStutter
     DEF Overlap!Next, Overlap!InstallerStep, Overlap!WorkerStep
<1>. QED
  BY <1>1, OInit, PTL DEF Overlap!Spec

(* Two overlapping windows hold the credits of the files in memory and no  *)
(* more than one window may; a session goes on only between two frames;    *)
(* and a worker that sleeps has credits still to come (drain_get_pair).    *)
THEOREM CreditsHold ==
  ASSUME Overlap!WindowsAssumption
  PROVE  Overlap!Spec =>
           [](Overlap!TypeOK /\ Overlap!CreditsMatch /\ Overlap!FramesWhole /\ SleeperIsWoken)
<1>1. ASSUME OInv PROVE Overlap!CreditsMatch
  <2>1. ~(received = "lost") => Held = (IF asking = "reply" THEN job ELSE job - 1)
    BY DEF Held
  <2>. QED
    BY <1>1, <2>1 DEF OInv, Owed, Overlap!CreditsMatch
<1>2. ASSUME OInv PROVE Overlap!FramesWhole
  BY <1>2 DEF OInv, Threads, Overlap!FramesWhole
<1>3. ASSUME OInv PROVE SleeperIsWoken
  <2>. SUFFICES ASSUME asking = "asleep", installing \notin {"install", "release", "failed"} PROVE FALSE
    BY DEF SleeperIsWoken
  <2>1. installing = "joining" /\ ~cancelled /\ next = Len(first) + 1 /\ job <= Len(second)
    <3>1. installing # "done"
      BY <1>3 DEF OInv, Threads
    <3>. QED
      BY <1>3, <3>1 DEF OInv, Overlap!TypeOK, Threads, Sleeping
  <2>2. Held = job - 1
    BY <1>3 DEF OInv, Threads, Held
  <2>3. files = job - 1 /\ bytes = Overlap!Bytes(second)[job - 1]
    BY <1>3, <2>1, <2>2, Credits DEF OInv, Owed, Overlap!Total
  <2>4. /\ MaxFiles \in Nat /\ MaxBytes \in Nat /\ Len(second) \in Nat /\ job \in 1 .. Len(second) + 1
        /\ second[job] \in Nat /\ Overlap!Bytes(second)[job - 1] \in Nat
        /\ Overlap!Bytes(second)[job] = Overlap!Bytes(second)[job - 1] + second[job]
        /\ Overlap!Bytes(second)[job] <= Overlap!Total(second)
        /\ Overlap!Total(second) <= MaxBytes /\ Len(second) <= MaxFiles
    BY <1>3, <2>1, Credits
  <2>5. Overlap!Total(second) \in Int
    <3>1. second \in Seq(Nat) /\ Overlap!Total(second) = Overlap!Bytes(second)[Len(second)]
      BY <1>3, Sizes DEF OInv, Overlap!TypeOK
    <3>2. Overlap!Bytes(second) \in [0 .. Len(second) -> Nat]
      BY <3>1, BytesSum DEF Sums
    <3>. QED
      BY <2>4, <3>1, <3>2
  <2>6. Overlap!Room(second[job])
    BY <2>1, <2>3, <2>4, <2>5 DEF Overlap!Room
  <2>. QED
    BY <1>3, <2>6 DEF OInv, Sleeping
<1>4. OInv => Overlap!TypeOK
  BY DEF OInv
<1>. QED
  BY <1>1, <1>2, <1>3, <1>4, CreditsInvariance, PTL
=============================================================================
