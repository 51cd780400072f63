----------------------------- MODULE MCSession -----------------------------
(***************************************************************************)
(* TLC instance of the parts of a session between the two sides: the order *)
(* of its frames (Exchange), two overlapping Get windows (GetOverlap), the *)
(* permits of local work (Admission), the Shares the phone asks for        *)
(* (ShareRequests) and whole rounds that have to converge (SyncRound). One *)
(* behaviour is of one part; what must happen is stated under the fairness *)
(* of its module.                                                          *)
(***************************************************************************)
EXTENDS SyncRound, Functions, TLC

CONSTANTS
  Job, Hashes, Large, Ask

SmallWindows ==
  {w \in UNION {[1 .. n -> 1 .. 3] : n \in 1 .. 3} :
     FoldFunction(LAMBDA size, sum : size + sum, 0, w) <= 5}

VARIABLES
  which,      \* the part this behaviour is of
  frame_toPhone, frame_toPc, frame_urgent, frame_pc, frame_co, frame_outcome,
  frame_phone, frame_re, frame_deferredShare, gets_first, gets_second,
  gets_installing, gets_next, gets_files, gets_bytes, gets_cancelled,
  gets_asking, gets_job, gets_deferred, gets_received, gets_result,
  permit_limit, permit_issued, permit_serving, permit_active, permit_step,
  permit_ticket, permit_asleep, ask_phone, ask_bound, ask_learned, ask_queue,
  ask_rejected, ask_share, ask_edited, ask_refused, ask_round

Frames == INSTANCE Exchange WITH
  Chunks <- <<2, 1>>, PcOnly <- 1, Window <- 2, toPhone <- frame_toPhone,
  toPc <- frame_toPc, urgent <- frame_urgent, pc <- frame_pc, co <- frame_co,
  outcome <- frame_outcome, phone <- frame_phone, re <- frame_re,
  deferredShare <- frame_deferredShare

Overlap == INSTANCE GetOverlap WITH
  Windows <- SmallWindows, MaxFiles <- 3, MaxBytes <- 5, first <- gets_first,
  second <- gets_second, installing <- gets_installing, next <- gets_next,
  files <- gets_files, bytes <- gets_bytes, cancelled <- gets_cancelled,
  asking <- gets_asking, job <- gets_job, deferred <- gets_deferred,
  received <- gets_received, result <- gets_result

Permits == INSTANCE Admission WITH
  Job <- Job, Hashing <- Hashes, Large <- Large, Limits <- {1, 2},
  limit <- permit_limit, issued <- permit_issued, serving <- permit_serving,
  active <- permit_active, step <- permit_step, ticket <- permit_ticket,
  asleep <- permit_asleep

Requests == INSTANCE ShareRequests WITH
  Ask <- Ask, phone <- ask_phone, bound <- ask_bound, learned <- ask_learned,
  queue <- ask_queue, rejected <- ask_rejected, share <- ask_share,
  edited <- ask_edited, refused <- ask_refused, round <- ask_round

frameVars == <<
  frame_toPhone, frame_toPc, frame_urgent, frame_pc, frame_co, frame_outcome,
  frame_phone, frame_re, frame_deferredShare>>

getsVars == <<
  gets_first, gets_second, gets_installing, gets_next, gets_files,
  gets_bytes, gets_cancelled, gets_asking, gets_job, gets_deferred,
  gets_received, gets_result>>

permitVars == <<
  permit_limit, permit_issued, permit_serving, permit_active, permit_step,
  permit_ticket, permit_asleep>>

askVars == <<
  ask_phone, ask_bound, ask_learned, ask_queue, ask_rejected, ask_share,
  ask_edited, ask_refused, ask_round>>

ASSUME PartsAssumption == Frames!ExchangeAssumption /\ Overlap!WindowsAssumption /\ Permits!AdmissionAssumption

parts == <<which, vars, frameVars, getsVars, permitVars, askVars>>

\* The parts that do not run stay in one of their initial states.
PartsInit ==
  /\ which \in {"folders", "frames", "gets", "permits", "requests"}
  /\ Init
  /\ which # "folders" => \A s \in Side, l \in Loc : file[s][l] = Absent
  /\ Frames!Init
  /\ Overlap!Init
  /\ which # "gets" => gets_first = <<1>> /\ gets_second = <<1>>
  /\ Permits!Init
  /\ which # "permits" => \A b \in Permits!Budget : permit_limit[b] = 1
  /\ Requests!Init

PartsNext ==
  \/ which = "folders" /\ Next /\ UNCHANGED <<which, frameVars, getsVars, permitVars, askVars>>
  \/ which = "frames" /\ Frames!Next
     /\ UNCHANGED <<which, vars, getsVars, permitVars, askVars>>
  \/ which = "gets" /\ Overlap!Next
     /\ UNCHANGED <<which, vars, frameVars, permitVars, askVars>>
  \/ which = "permits" /\ Permits!Next
     /\ UNCHANGED <<which, vars, frameVars, getsVars, askVars>>
  \/ which = "requests" /\ Requests!Next
     /\ UNCHANGED <<which, vars, frameVars, getsVars, permitVars>>

PartsSpec == PartsInit /\ [][PartsNext]_parts

-----------------------------------------------------------------------------
\* Neither side reads a frame it does not handle, nothing of a round that was
\* put off is left for the next one, an announced preemption holds, and every
\* round ends (Exchange: receive_scan_gate, finish_deferred_gets).
FramesAgree ==
  /\ [](Frames!TypeOK /\ Frames!Understood /\ Frames!Aligned)
  /\ Frames!PreemptionHolds
  /\ Frames!Fairness => Frames!RoundEnds

\* Two Get windows that overlap share one budget: its credits are those of
\* the files in memory, a deferral leaves whole frames behind, and neither
\* thread waits for the other for ever (GetOverlap: GetBudget). Permits out
\* never exceed the limit, no job sleeps through its turn, and every job gets
\* its permits, however heavy those before it are (Admission: admit, Permit::drop).
BudgetsServeAll ==
  /\ [](Overlap!TypeOK /\ Overlap!CreditsMatch /\ Overlap!FramesWhole)
  /\ Overlap!Fairness => Overlap!PairEnds
  /\ [](Permits!TypeOK /\ Permits!PermitsBalance /\ Permits!SomeoneRuns)
  /\ Permits!Fairness => Permits!EveryJobServed

\* A folder is bound before its request is forgotten, a refusal is final, and
\* every verdict reaches the phone (ShareRequests).
RequestsSettle ==
  /\ [](Requests!TypeOK /\ Requests!AcceptedIsBound /\ Requests!RefusedForGood)
  /\ Requests!Fairness => Requests!VerdictLearned

\* Once users and failures cease, both folders become equal (SyncRound).
FoldersConverge == Fairness => Converges

=============================================================================
