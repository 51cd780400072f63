------------------------- MODULE ConditionalReplace -------------------------
(***************************************************************************)
(* What a sync round relies on when it asks a store to replace a file: the *)
(* new version takes effect in one step, at most once, and only over the   *)
(* version that was compared (or over itself); a request that is answered  *)
(* has taken effect; one that fails closes the store and may or may not    *)
(* have.  Whatever else happens to a file is somebody else's edit.         *)
(*                                                                         *)
(* The one reservation: while another program has the file open for        *)
(* writing, its last bytes cannot be compared any more.                    *)
(***************************************************************************)
CONSTANTS
  Path,
  Content,
  Absent,
  Idle

VARIABLES
  file,    \* the version that counts at each path
  open,    \* a program has the file open for writing
  stage,   \* "down", "up", a request "asked" of the store, or "done"
  job      \* the request, or Idle

vars == <<file, open, stage, job>>

Request(p, expected, new) == [path |-> p, expected |-> expected, new |-> new]

Init ==
  /\ file \in [Path -> Content \cup {Absent}]
  /\ open = [p \in Path |-> FALSE]
  /\ stage = "down"
  /\ job = Idle

Edit(p) ==
  /\ \E v \in Content \cup {Absent} : file' = [file EXCEPT ![p] = v]
  /\ \E o \in BOOLEAN : open' = [open EXCEPT ![p] = o]
  /\ UNCHANGED <<stage, job>>

Start ==
  /\ stage = "down"
  /\ stage' = "up"
  /\ UNCHANGED <<file, open, job>>

Ask(p, expected, new) ==
  /\ stage = "up"
  /\ stage' = "asked"
  /\ job' = Request(p, expected, new)
  /\ UNCHANGED <<file, open>>

Apply ==
  /\ stage = "asked"
  /\ file[job.path] \in {job.expected, job.new} \/ open[job.path]
  /\ file' = [file EXCEPT ![job.path] = job.new]
  /\ stage' = "done"
  /\ UNCHANGED <<open, job>>

Answer ==
  /\ stage = "done"
  /\ stage' = "up"
  /\ job' = Idle
  /\ UNCHANGED <<file, open>>

\* An error, a crash, or the end of the round.
Stop ==
  /\ stage' = "down"
  /\ job' = Idle
  /\ UNCHANGED <<file, open>>

Next ==
  \/ \E p \in Path : Edit(p)
  \/ \E p \in Path, e \in Content \cup {Absent}, n \in Content : Ask(p, e, n)
  \/ Start \/ Apply \/ Answer \/ Stop

Spec == Init /\ [][Next]_vars

=============================================================================
