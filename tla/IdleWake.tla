------------------------------ MODULE IdleWake ------------------------------
(***************************************************************************)
(* The phone's sync worker between two rounds: it blocks in one poll of    *)
(* the connection and of a socketpair that other threads write one byte    *)
(* to (idle.rs). A wake first marks the work under the monitor of          *)
(* SyncService, then signals: the signal writes the byte only if no reason *)
(* was queued, and the worker drains the bytes before it takes the         *)
(* reasons. A change of network invalidates the connection at any moment,  *)
(* also while one is being made.                                           *)
(***************************************************************************)
EXTENDS FiniteSets

CONSTANTS
  Waker,     \* threads that call SyncService.wake (observers, activity, ...)
  Main,      \* the main thread: start, stop and the network callback
  Nobody     \* the monitor is free

ASSUME WakersAssumption == Main \notin Waker /\ Nobody \notin Waker \cup {Main}

Thread == Waker \cup {Main}
Reason == {"local", "network", "cancel"}

VARIABLES
  reasons,    \* IdleWake.reasons: signalled and not yet taken
  readable,   \* the socketpair holds at least one byte
  dirty,      \* WakeState.dirty || reconnectRequested
  holder,     \* who is inside synchronized(changes) while it signals
  doing,      \* the next step of each signalling thread
  why,        \* the reason each thread signals
  cancelled,  \* CANCELLED
  active,     \* SyncService.active: the service wants the worker to run
  pc,         \* the worker
  frame,      \* a remote frame has begun (IdleFrameSocket)
  kept,       \* IdleFrameSocket.pending
  outcome,    \* the result of pollWake
  conn,       \* the installed connection, and whether its network still exists
  attempt,    \* the connection being made
  socket      \* ACTIVE_SOCKET: none, registered, or shut down

wakeVars == <<reasons, readable, dirty, holder, doing, why, cancelled, active>>
pollVars == <<frame, kept, outcome>>
connVars == <<conn, attempt, socket>>
vars == <<wakeVars, pc, pollVars, connVars>>

TypeOK ==
  /\ reasons \subseteq Reason
  /\ readable \in BOOLEAN
  /\ dirty \in BOOLEAN
  /\ holder \in Thread \cup {Nobody}
  /\ doing \in [Thread -> {"idle", "queue", "write", "shutdown"}]
  /\ why \in [Thread -> Reason]
  /\ cancelled \in BOOLEAN
  /\ active \in BOOLEAN
  /\ pc \in {"stopped", "check", "sync", "register", "connected", "recheck", "round", "backoff",
             "enter", "poll", "drain", "swap", "drop", "dropwrite", "report"}
  /\ frame \in BOOLEAN
  /\ kept \subseteq Reason
  /\ outcome \in {"local", "cancelled", "invalid", "share"}
  /\ conn \in {"none", "live", "stale"}
  /\ attempt \in {"none", "live", "stale"}
  /\ socket \in {"none", "open", "shut"}

Init ==
  /\ reasons = {} /\ readable = FALSE
  /\ dirty = FALSE
  /\ holder = Nobody
  /\ doing = [t \in Thread |-> "idle"] /\ why = [t \in Thread |-> "local"]
  /\ cancelled = FALSE /\ active = FALSE
  /\ pc = "stopped"
  /\ frame = FALSE /\ kept = {} /\ outcome = "local"
  /\ conn = "none" /\ attempt = "none" /\ socket = "none"

-----------------------------------------------------------------------------
(* Signalling threads.                                                     *)

Begin(t, reason) ==
  /\ doing' = [doing EXCEPT ![t] = "queue"]
  /\ why' = [why EXCEPT ![t] = reason]

\* After its signal the network callback goes on to the socket; a wake, and
\* the reconnect that ends the callback, leave the monitor.
Signalled(t) ==
  LET next == IF why[t] = "network" /\ holder # t THEN "shutdown" ELSE "idle" IN
    /\ doing' = [doing EXCEPT ![t] = next]
    /\ holder' = IF holder = t THEN Nobody ELSE holder

\* SyncService.wake: the mark, then the signal, inside the monitor.
Wake(t) ==
  /\ doing[t] = "idle" /\ holder = Nobody
  /\ holder' = t
  /\ dirty' = TRUE
  /\ Begin(t, "local")
  /\ UNCHANGED <<reasons, readable, cancelled, active, pc, pollVars, connVars>>

\* IdleWake::signal: fetch_or of the reason; the byte only if none was queued.
Queue(t) ==
  /\ doing[t] = "queue"
  /\ reasons' = reasons \cup {why[t]}
  /\ IF reasons = {}
     THEN doing' = [doing EXCEPT ![t] = "write"] /\ UNCHANGED holder
     ELSE Signalled(t)
  /\ UNCHANGED <<readable, dirty, why, cancelled, active, pc, pollVars, connVars>>

Write(t) ==
  /\ doing[t] = "write"
  /\ readable' = TRUE
  /\ Signalled(t)
  /\ UNCHANGED <<reasons, dirty, why, cancelled, active, pc, pollVars, connVars>>

\* The network callback: networkChanged raises the generation and signals.
NetworkChanged ==
  /\ doing[Main] = "idle"
  /\ conn' = IF conn = "live" THEN "stale" ELSE conn
  /\ attempt' = IF attempt = "live" THEN "stale" ELSE attempt
  /\ Begin(Main, "network")
  /\ UNCHANGED <<reasons, readable, dirty, holder, cancelled, active, pc, pollVars, socket>>

\* It shuts the active socket down, drops the connection if the worker does
\* not hold it, and asks for a reconnect.
Shutdown ==
  /\ doing[Main] = "shutdown" /\ holder = Nobody
  /\ IF pc \in {"stopped", "check", "sync", "enter", "backoff"}
     THEN conn' = "none" /\ socket' = "none"
     ELSE socket' = (IF socket = "open" THEN "shut" ELSE socket) /\ UNCHANGED conn
  /\ holder' = Main
  /\ dirty' = TRUE
  /\ Begin(Main, "network")
  /\ UNCHANGED <<reasons, readable, cancelled, active, pc, pollVars, attempt>>

\* Mutant: the service stops without a signal.
StopSilent ==
  /\ doing[Main] = "idle" /\ active
  /\ active' = FALSE /\ cancelled' = TRUE
  /\ UNCHANGED <<reasons, readable, dirty, holder, doing, why, pc, pollVars, connVars>>

\* STOP, onTimeout and onDestroy: the flag, then NativeBridge.cancel.
Stop ==
  /\ doing[Main] = "idle" /\ active
  /\ active' = FALSE /\ cancelled' = TRUE
  /\ Begin(Main, "cancel")
  /\ UNCHANGED <<reasons, readable, dirty, holder, pc, pollVars, connVars>>

\* onStartCommand when no worker is busy: resetCancellation, the STARTUP
\* wake, the worker's thread.
Start ==
  /\ doing[Main] = "idle" /\ pc = "stopped" /\ holder = Nobody
  /\ cancelled' = FALSE /\ active' = TRUE
  /\ reasons' = reasons \ {"cancel"}
  /\ dirty' = TRUE /\ holder' = Main
  /\ Begin(Main, "local")
  /\ pc' = "check"
  /\ UNCHANGED <<readable, pollVars, connVars>>

-----------------------------------------------------------------------------
(* The worker.                                                             *)

Go(step) == pc' = step

\* The idle loop looks at the mark inside the monitor; a round takes it.
Check ==
  /\ pc = "check" /\ holder = Nobody
  /\ Go(IF ~active THEN "stopped" ELSE IF dirty THEN "sync" ELSE "enter")
  /\ dirty' = (dirty /\ ~active)
  /\ UNCHANGED <<reasons, readable, holder, doing, why, cancelled, active, pollVars, connVars>>

\* poll_connection refuses when cancelled, and without a connection of the
\* present network.
Enter ==
  /\ pc = "enter"
  /\ Go(IF ~cancelled /\ conn = "live" THEN "poll" ELSE "report")
  /\ outcome' = IF cancelled THEN "cancelled" ELSE IF conn = "live" THEN "local" ELSE "invalid"
  /\ UNCHANGED <<wakeVars, frame, kept, connVars>>

\* The audit became due before the poll: a round without a wake.
AuditDue ==
  /\ pc \in {"check", "poll"} /\ ~frame /\ active /\ holder = Nobody
  /\ Go("sync")
  /\ dirty' = FALSE
  /\ UNCHANGED <<reasons, readable, holder, doing, why, cancelled, active, pollVars, connVars>>

Cleared == /\ conn' = "none" /\ socket' = "none"

\* NativeBridge.sync keeps a connection of the present network, otherwise
\* it makes one under the generation it read.
Sync ==
  /\ pc = "sync"
  /\ \/ conn = "live" /\ Go("round") /\ UNCHANGED connVars
     \/ conn # "live" /\ Cleared /\ attempt' = "live" /\ Go("register")
  /\ UNCHANGED <<wakeVars, pollVars>>

\* Attempts fail; one that spans a change of network is given up.
ConnectFails ==
  /\ pc = "register"
  /\ attempt' = "none"
  /\ Go("backoff")
  /\ UNCHANGED <<wakeVars, pollVars, conn, socket>>

\* The generation is compared when the connection is made,
Connected ==
  /\ pc = "register" /\ attempt = "live"
  /\ Go("connected")
  /\ UNCHANGED <<wakeVars, pollVars, connVars>>

Register ==
  /\ pc = "connected"
  /\ socket' = "open"
  /\ Go("recheck")
  /\ UNCHANGED <<wakeVars, pollVars, conn, attempt>>

\* and once more after the socket can be shut down.
Recheck ==
  /\ pc = "recheck"
  /\ attempt' = "none"
  /\ IF attempt = "live"
     THEN conn' = "live" /\ UNCHANGED socket /\ Go("round")
     ELSE Cleared /\ Go("backoff")
  /\ UNCHANGED <<wakeVars, pollVars>>

\* client_round_on_excluding and what the worker makes of its result; a
\* change of network or an unusable stream drops the connection.
Round ==
  /\ pc = "round"
  /\ \/ conn = "live" /\ Go("check") /\ UNCHANGED connVars
     \/ Cleared /\ Go("backoff") /\ UNCHANGED attempt
  /\ UNCHANGED <<wakeVars, pollVars>>

\* A failed pass waits out a delay (or a notification) and tries again.
Backoff ==
  /\ pc = "backoff" /\ holder = Nobody
  /\ IF active THEN Go("sync") /\ dirty' = FALSE ELSE Go("stopped") /\ UNCHANGED dirty
  /\ UNCHANGED <<reasons, readable, holder, doing, why, cancelled, active, pollVars, connVars>>

\* IdleWake::wait sees the byte, drains the pair, takes the reasons.
Readable ==
  /\ pc = "poll" /\ readable
  /\ Go("drain")
  /\ UNCHANGED <<wakeVars, pollVars, connVars>>

Drain ==
  /\ pc = "drain"
  /\ readable' = FALSE
  /\ Go("swap")
  /\ UNCHANGED <<reasons, dirty, holder, doing, why, cancelled, active, pollVars, connVars>>

\* Mutant: a local reason never ends the wait.
SwapKeepsLocal ==
  /\ pc = "swap"
  /\ reasons' = {}
  /\ Go(IF reasons \subseteq {"local"} THEN "poll" ELSE "drop")
  /\ outcome' = IF cancelled THEN "cancelled" ELSE "invalid"
  /\ kept' = IF reasons \subseteq {"local"} THEN kept \cup reasons ELSE kept
  /\ UNCHANGED <<readable, dirty, holder, doing, why, cancelled, active, frame, connVars>>

\* Without a reason the wait goes on; a frame that has begun keeps a local
\* reason for later and ends on the others.
Swap ==
  /\ pc = "swap"
  /\ reasons' = {}
  /\ IF ~frame
     THEN /\ Go(IF reasons = {} THEN "poll" ELSE "report")
          /\ outcome' = IF "cancel" \in reasons THEN "cancelled"
                        ELSE IF "network" \in reasons THEN "invalid" ELSE "local"
          /\ UNCHANGED kept
     ELSE /\ Go(IF reasons \subseteq {"local"} THEN "poll" ELSE "drop")
          /\ outcome' = IF cancelled THEN "cancelled" ELSE "invalid"
          /\ kept' = IF reasons \subseteq {"local"} THEN kept \cup reasons ELSE kept
  /\ UNCHANGED <<readable, dirty, holder, doing, why, cancelled, active, frame, connVars>>

\* The first byte of a frame; the frame's end, its 90 s deadline, or the
\* end of the stream (which a shut socket gives at once).
FrameBegins ==
  /\ pc = "poll" /\ ~frame
  /\ frame' = TRUE
  /\ UNCHANGED <<wakeVars, pc, kept, outcome, connVars>>

FrameEnds ==
  /\ pc = "poll" /\ frame
  /\ \/ outcome' = "share"
     \/ outcome' = IF cancelled THEN "cancelled" ELSE "invalid"
  /\ Go("drop")
  /\ UNCHANGED <<wakeVars, frame, kept, connVars>>

StreamEnds ==
  /\ pc = "poll" /\ ~frame
  /\ outcome' = "invalid"
  /\ Go("report")
  /\ UNCHANGED <<wakeVars, frame, kept, connVars>>

\* Drop of IdleFrameSocket: the reasons it kept are signalled again.
Drop ==
  /\ pc = "drop"
  /\ frame' = FALSE /\ kept' = {}
  /\ reasons' = reasons \cup kept
  /\ Go(IF kept # {} /\ reasons = {} THEN "dropwrite" ELSE "report")
  /\ UNCHANGED <<readable, dirty, holder, doing, why, cancelled, active, outcome, connVars>>

DropWrite ==
  /\ pc = "dropwrite"
  /\ readable' = TRUE
  /\ Go("report")
  /\ UNCHANGED <<reasons, dirty, holder, doing, why, cancelled, active, pollVars, connVars>>

\* The end of poll_connection, WakeState.pollResult: a connection that is
\* gone asks for a reconnect, a remote wake marks its Share.
Report ==
  /\ pc = "report" /\ holder = Nobody
  /\ LET invalid == outcome = "invalid" \/ conn = "stale" IN
       /\ dirty' = (dirty \/ invalid \/ outcome = "share")
       /\ IF invalid THEN Cleared ELSE UNCHANGED <<conn, socket>>
  /\ Go("check")
  /\ UNCHANGED <<reasons, readable, holder, doing, why, cancelled, active, pollVars, attempt>>

Worker ==
  \/ Check \/ Enter \/ Sync \/ ConnectFails \/ Connected \/ Register \/ Recheck \/ Round \/ Backoff
  \/ Readable \/ Drain \/ Swap \/ FrameEnds \/ Drop \/ DropWrite \/ Report

Next ==
  \/ \E t \in Thread : Wake(t) \/ Queue(t) \/ Write(t)
  \/ NetworkChanged \/ Shutdown \/ Stop \/ Start
  \/ AuditDue \/ FrameBegins \/ StreamEnds
  \/ Worker

Spec == Init /\ [][Next]_vars

\* Threads take their next step, and the monitor is not refused for ever to
\* one that asks for it again and again (Shutdown, and the three steps of the
\* worker); frames end. The audit's deadline is not needed.
Fairness ==
  /\ \A t \in Thread : WF_vars(Queue(t) \/ Write(t))
  /\ SF_vars(Shutdown)
  /\ WF_vars(StreamEnds /\ socket = "shut") /\ SF_vars(FrameEnds)
  /\ SF_vars(Check \/ Backoff \/ Report)
  /\ WF_vars(Worker)

FairSpec == Spec /\ Fairness

-----------------------------------------------------------------------------
(* Properties.                                                             *)

Quiet == \A t \in Thread : doing[t] = "idle"

\* The worker never sleeps over work: when no signal is on its way, a worker
\* that waits for the first byte of a frame over a mark, a cancellation or a
\* connection whose network is gone will be woken by the pair or by the
\* socket (the queued-byte rule of signal, the order of take).
NoSleepOverWake ==
  pc = "poll" /\ ~frame /\ Quiet /\ (dirty \/ cancelled \/ conn = "stale")
    => readable \/ socket = "shut"

\* A round never begins over a connection older than the network it was
\* made in, unless the network changed after the last comparison.
\* (EndpointResolver::connect, ACTIVE_SOCKET, the second comparison.)
StaleIsShut ==
  pc = "round" /\ conn = "stale" /\ Quiet => socket = "shut"

\* Every wake is served by a round, without help from the audit's clock.
WakeServed == dirty ~> (pc = "sync" \/ ~active)

\* A service that stops gets its worker back.
StopEnds == ~active ~> (pc = "stopped" \/ active)

=============================================================================
