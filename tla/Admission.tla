------------------------------- MODULE Admission -------------------------------
(***************************************************************************)
(* Admission of local file work (resources.rs). A job that hashes takes a  *)
(* permit of the hash budget, then one of the budget of its file's device, *)
(* and gives both back in the opposite order; walks and installations take *)
(* the device's permit only. A file over 8 MiB takes the whole device.     *)
(* Permits are handed out in the order of tickets, under a condition       *)
(* variable, so a heavy job holds up the light ones behind it but is not   *)
(* overtaken by them.                                                      *)
(***************************************************************************)
EXTENDS Integers, FiniteSets

CONSTANTS
  Job,
  Hashing,    \* the jobs that hash; the others walk or install
  Large,      \* the jobs whose file has more than 8 MiB
  Limits      \* the limits to try: ROWD_HASH_WORKERS and ROWD_IO_WORKERS, both 1 .. 4

AdmissionAssumption ==
  /\ IsFiniteSet(Job) /\ Hashing \subseteq Job /\ Large \subseteq Job
  /\ Limits \subseteq Nat \ {0}

Budget == {"hash", "io"}

VARIABLES
  limit,      \* Budget.limit
  issued, serving, active,    \* State of each budget
  step,       \* what the job waits for or holds
  ticket,     \* the ticket of the job in the budget it waits for
  asleep      \* jobs in Condvar::wait

vars == <<limit, issued, serving, active, step, ticket, asleep>>

TypeOK ==
  /\ limit \in [Budget -> Limits]
  /\ issued \in [Budget -> 0 .. Cardinality(Job)]
  /\ serving \in [Budget -> 0 .. Cardinality(Job)]
  /\ active \in [Budget -> Nat]
  /\ step \in [Job -> {"start", "hash", "hashed", "io", "work", "drop", "ended"}]
  /\ ticket \in [Job -> 0 .. Cardinality(Job)]
  /\ asleep \subseteq Job

Init ==
  /\ limit \in [Budget -> Limits]
  /\ issued = [b \in Budget |-> 0] /\ serving = issued /\ active = issued
  /\ step = [j \in Job |-> "start"]
  /\ ticket = [j \in Job |-> 0]
  /\ asleep = {}

Weight(j, b) == IF b = "io" /\ j \in Large THEN limit["io"] ELSE 1

WaitsFor(j, b) == step[j] = b

\* Condvar::notify_all on the condition variable of one budget.
Notify(b) == asleep' = {j \in asleep : ~WaitsFor(j, b)}

-----------------------------------------------------------------------------
\* admit takes the next ticket of the budget, under its lock.
Ticket(j, b) ==
  /\ ticket' = [ticket EXCEPT ![j] = issued[b]]
  /\ issued' = [issued EXCEPT ![b] = @ + 1]
  /\ step' = [step EXCEPT ![j] = b]
  /\ UNCHANGED <<limit, serving, active, asleep>>

Begin(j) ==
  /\ step[j] = "start"
  /\ Ticket(j, IF j \in Hashing THEN "hash" ELSE "io")

AcquireIo(j) ==
  /\ step[j] = "hashed"
  /\ Ticket(j, "io")

Fits(j, b) == ticket[j] = serving[b] /\ active[b] + Weight(j, b) <= limit[b]

\* The condition of the wait is evaluated when the job has the lock: it
\* sleeps,
Sleep(j, b) ==
  /\ WaitsFor(j, b) /\ j \notin asleep /\ ~Fits(j, b)
  /\ asleep' = asleep \cup {j}
  /\ UNCHANGED <<limit, issued, serving, active, step, ticket>>

\* or enters, and wakes whoever holds the next ticket.
Enter(j, b) ==
  /\ WaitsFor(j, b) /\ j \notin asleep /\ Fits(j, b)
  /\ serving' = [serving EXCEPT ![b] = @ + 1]
  /\ active' = [active EXCEPT ![b] = @ + Weight(j, b)]
  /\ Notify(b)
  /\ step' = [step EXCEPT ![j] = IF b = "hash" THEN "hashed" ELSE "work"]
  /\ UNCHANGED <<limit, issued, ticket>>

\* The permits are dropped in the opposite order: the device's, then the hash.
Holds(j) == IF step[j] = "work" THEN "io" ELSE "hash"

Release(j) ==
  /\ step[j] \in {"work", "drop"}
  /\ LET b == Holds(j) IN
       /\ active' = [active EXCEPT ![b] = @ - Weight(j, b)]
       /\ Notify(b)
       /\ step' = [step EXCEPT ![j] = IF b = "io" /\ j \in Hashing THEN "drop" ELSE "ended"]
  /\ UNCHANGED <<limit, issued, serving, ticket>>

Next ==
  \E j \in Job :
    \/ Begin(j) \/ AcquireIo(j) \/ Release(j)
    \/ \E b \in Budget : Sleep(j, b) \/ Enter(j, b)

Spec == Init /\ [][Next]_vars

\* Every thread runs.
Step(j) == Begin(j) \/ AcquireIo(j) \/ Release(j) \/ \E b \in Budget : Enter(j, b)

Fairness == \A j \in Job : WF_vars(Step(j))

FairSpec == Spec /\ Fairness

-----------------------------------------------------------------------------
(* Properties.                                                             *)

Holders(b) ==
  {j \in Job : step[j] = "work" /\ (b = "io" \/ j \in Hashing)}
    \cup (IF b = "hash" THEN {j \in Job : step[j] \in {"hashed", "io", "drop"} /\ j \in Hashing} ELSE {})

\* What the jobs hold of a budget: a heavy job holds the whole device.
Load(b) ==
  IF b = "io" /\ Holders(b) \cap Large # {} THEN limit[b] ELSE Cardinality(Holders(b))

\* The permits out are those the jobs hold, and never more than the limit,
\* and a file that takes the whole device is alone on it (Permit::drop).
PermitsBalance ==
  /\ \A b \in Budget : active[b] = Load(b) /\ active[b] <= limit[b]
  /\ \A j \in Holders("io") \cap Large : Holders("io") = {j}

\* No job sleeps through its turn, and unless every job has ended there is one
\* that can go on: a job that waits for the device while it holds the hash
\* permit never leaves all of them waiting (admit, notify_all).
SomeoneRuns ==
  /\ \A j \in asleep, b \in Budget : WaitsFor(j, b) => ~Fits(j, b)
  /\ \/ \A j \in Job : step[j] = "ended"
     \/ \E j \in Job :
          \/ step[j] \in {"start", "hashed", "work", "drop"}
          \/ \E b \in Budget : WaitsFor(j, b) /\ Fits(j, b) /\ j \notin asleep

\* Every job gets its permits, whatever the weights of the jobs before it: a
\* heavy job is not overtaken for ever, and holding the hash permit while
\* it waits for the device stops nobody for good (admit, acquire_hash).
EveryJobServed == \A j \in Job : <>(step[j] = "ended")

=============================================================================
