----------------------------- MODULE GetOverlap -----------------------------
(***************************************************************************)
(* Two windows of Gets that overlap (drain_get_pair): the first is read    *)
(* and installed file by file, while a worker already asks the phone for   *)
(* the files of the second. Both hold credits of one budget, the limits of *)
(* a single window; the worker sleeps on a condition variable until the    *)
(* installer gives credits back or cancels. The phone may defer a Get and  *)
(* then defers every later one until the barrier; an installation and the  *)
(* connection may fail.                                                    *)
(***************************************************************************)
EXTENDS Integers, Sequences

CONSTANTS
  Windows,         \* sizes of the files of the windows to try
  MaxFiles,        \* MAX_IN_FLIGHT_FILES
  MaxBytes         \* MAX_STAGED_BYTES

\* The bytes of the first n files of a window.
Bytes(sizes) ==
  LET sum[n \in 0 .. Len(sizes)] == IF n = 0 THEN 0 ELSE sum[n - 1] + sizes[n]
  IN  sum

Total(sizes) == Bytes(sizes)[Len(sizes)]

\* plan_get_window admits no other.
WindowsAssumption ==
  /\ MaxFiles \in Nat /\ MaxBytes \in Nat
  /\ \A w \in Windows : w \in Seq(Nat) /\ Len(w) \in 1 .. MaxFiles /\ Total(w) <= MaxBytes

VARIABLES
  first, second,   \* the sizes of the files of the two windows
  installing,  \* the installer: "install", "release", "failed", "joining", "second", "done"
  next,        \* the file of the first window it installs
  files, bytes, cancelled,   \* GetCredits
  asking,      \* the worker: "acquire", "asleep", "reply", "barrier", "closing", "done"
  job,         \* the file of the second window it asks for
  deferred,    \* the phone deferred a Get of this window
  received,    \* what the worker returns: "none", "window", "deferred", "cancelled", "lost"
  result       \* what drain_get_pair returns: "none", "done", "deferred", "failed", "lost"

vars == <<first, second, installing, next, files, bytes, cancelled, asking, job, deferred, received, result>>
budget == <<files, bytes, cancelled>>
windows == <<first, second>>
worker == <<asking, job, deferred, received>>
installer == <<installing, next, result>>

TypeOK ==
  /\ first \in Windows /\ second \in Windows
  /\ installing \in {"install", "release", "failed", "joining", "done"}
  /\ next \in 1 .. Len(first) + 1
  /\ files \in 0 .. MaxFiles /\ bytes \in 0 .. MaxBytes /\ cancelled \in BOOLEAN
  /\ asking \in {"acquire", "asleep", "reply", "barrier", "done"}
  /\ job \in 1 .. Len(second) + 1
  /\ deferred \in BOOLEAN
  /\ received \in {"none", "window", "deferred", "cancelled", "lost"}
  /\ result \in {"none", "done", "deferred", "failed", "lost"}

\* The first window has been read completely; its files hold their credits.
Init ==
  /\ first \in Windows /\ second \in Windows
  /\ installing = "install" /\ next = 1 /\ result = "none"
  /\ files = Len(first) /\ bytes = Total(first) /\ cancelled = FALSE
  /\ asking = "acquire" /\ job = 1 /\ deferred = FALSE /\ received = "none"

\* Condvar::notify_all.
Wakes == asking' = IF asking = "asleep" THEN "acquire" ELSE asking

-----------------------------------------------------------------------------
(* The installer.                                                          *)

Install ==
  /\ installing = "install"
  /\ installing' = IF next > Len(first) THEN "joining" ELSE "release"
  /\ UNCHANGED <<next, result, budget, worker, windows>>

InstallFails ==
  /\ installing = "install" /\ next <= Len(first)
  /\ installing' = "failed"
  /\ UNCHANGED <<next, result, budget, worker, windows>>

Cancel ==
  /\ installing = "failed"
  /\ cancelled' = TRUE
  /\ Wakes
  /\ installing' = "release"
  /\ UNCHANGED <<next, result, files, bytes, job, deferred, received, windows>>

\* Mutant: a credit is given back and nobody is told.
ReleaseSilently ==
  /\ installing = "release"
  /\ files' = files - 1 /\ bytes' = bytes - first[next]
  /\ installing' = IF cancelled THEN "joining" ELSE "install"
  /\ next' = next + 1
  /\ UNCHANGED <<cancelled, result, worker, windows>>

\* An installation that failed gives its own credit back and no other.
Release ==
  /\ installing = "release"
  /\ files' = files - 1 /\ bytes' = bytes - first[next]
  /\ Wakes
  /\ installing' = IF cancelled THEN "joining" ELSE "install"
  /\ next' = next + 1
  /\ UNCHANGED <<cancelled, result, job, deferred, received, windows>>

\* The worker is joined; lost framing is never hidden behind the failure of
\* an installation. A complete second window is installed in its turn.
Join ==
  /\ installing = "joining" /\ asking = "done"
  /\ result' = CASE received = "lost" -> "lost"
                 [] cancelled -> "failed"
                 [] received = "deferred" -> "deferred"
                 [] OTHER -> "done"
  /\ installing' = "done"
  /\ UNCHANGED <<next, budget, worker, windows>>

-----------------------------------------------------------------------------
(* The worker.                                                             *)

Room(size) == files < MaxFiles /\ bytes + size <= MaxBytes

Ends(how) == asking' = "done" /\ received' = how

\* GetBudget::acquire; the Get follows at once.
Acquire ==
  /\ asking = "acquire" /\ job <= Len(second)
  /\ IF cancelled THEN Ends("cancelled") /\ UNCHANGED <<files, bytes>>
     ELSE IF Room(second[job])
     THEN /\ files' = files + 1 /\ bytes' = bytes + second[job]
          /\ asking' = "reply" /\ UNCHANGED received
     ELSE asking' = "asleep" /\ UNCHANGED <<files, bytes, received>>
  /\ UNCHANGED <<cancelled, job, deferred, installer, windows>>

\* The reply: the file, or a deferral, after which only deferrals follow.
Reply ==
  /\ asking = "reply"
  /\ \E put_off \in BOOLEAN : (deferred => put_off) /\ deferred' = put_off
  /\ job' = job + 1
  /\ asking' = "acquire"
  /\ UNCHANGED <<received, budget, installer, windows>>

\* Every Get has its reply. The barrier of a deferred window ends the round
\* on the phone as well.
Complete ==
  /\ asking = "acquire" /\ job > Len(second)
  /\ IF deferred THEN asking' = "barrier" /\ UNCHANGED received ELSE Ends("window")
  /\ UNCHANGED <<job, deferred, budget, installer, windows>>

Barrier ==
  /\ asking = "barrier"
  /\ Ends("deferred")
  /\ UNCHANGED <<job, deferred, budget, installer, windows>>

\* The connection breaks inside a frame.
Lost ==
  /\ asking \in {"reply", "barrier"}
  /\ Ends("lost")
  /\ UNCHANGED <<job, deferred, budget, installer, windows>>

InstallerStep == Install \/ Cancel \/ Release \/ Join
WorkerStep == Acquire \/ Reply \/ Complete \/ Barrier

Next == InstallerStep \/ InstallFails \/ WorkerStep \/ Lost

Spec == Init /\ [][Next]_vars

\* Both threads run, the phone answers or the connection breaks.
Fairness == WF_vars(InstallerStep) /\ WF_vars(WorkerStep)

FairSpec == Spec /\ Fairness

-----------------------------------------------------------------------------
(* Properties.                                                             *)

\* The credits are those of the files in memory, so both windows together
\* never hold more than one window may.
CreditsMatch ==
  ~cancelled /\ received # "lost" =>
    /\ files = (Len(first) - next + 1) + (IF asking = "reply" THEN job ELSE job - 1)
    /\ bytes = (Total(first) - Bytes(first)[next - 1])
               + Bytes(second)[IF asking = "reply" THEN job ELSE job - 1]

\* The session goes on, or reports a failure to the phone, only between two
\* frames and never with half a deferred window behind it.
FramesWhole ==
  result \in {"done", "deferred"} => (result = "deferred" <=> deferred) /\ job = Len(second) + 1

\* The pair ends: the worker never sleeps on credits nobody will give back.
PairEnds == <>(result # "none")

=============================================================================
