------------------------------ MODULE Schedule ------------------------------
(***************************************************************************)
(* Which Shares a round visits, and when. On the PC the serve loop collects *)
(* the Shares the watcher names, marks them urgent while a session holds    *)
(* the lock and sends the rest as wakes; session_round visits the Shares    *)
(* the phone asked for and lets urgent ones preempt an audit. On the phone  *)
(* WakeState and AuditRotation choose what the next pass asks for. What a   *)
(* visit does to the files is SyncRound's subject.                          *)
(***************************************************************************)
EXTENDS Naturals, Sequences, FiniteSets

CONSTANTS
  Share,
  Rotation,    \* AuditRotation: the Shares in the order of their identifiers
  Broken,      \* Shares whose visits may fail again and again
  None,
  PcEdited,    \* bounds of the instance: the Shares that change on the PC,
  PhoneWoken,  \* those woken on the phone (None: all of them at once),
  Requested,   \* those requested by hand,
  FaultMax     \* and how many connections break and Shares fail

Request == [share : Share, id : {0, 1}]

ASSUME ScheduleAssumption ==
  /\ Rotation \in Seq(Share) /\ Len(Rotation) > 0
  /\ \A s \in Share : \E i \in 1 .. Len(Rotation) : Rotation[i] = s
  /\ PcEdited \cup Requested \cup Broken \subseteq Share
  /\ PhoneWoken \subseteq Share \cup {None} /\ None \notin Share \cup Request
  /\ FaultMax \in Nat /\ (Broken # {} => FaultMax > 0)

VARIABLES
  pcSide,       \* ghost: changes in the PC's hint, still to read or being read
  phoneSide,    \* ghost: the phone's folder against what rounds have read of it
  faults,       \* bound of the instance: faults so far (a broken Share is one)
  narrowed,     \* ghost: a manual request has narrowed a round
  collected,    \* serve's dirty /\ watcher_changes: not yet on disk
  urgent,       \* urgent: pending, or already delivered to the phone
  newer,        \* Shares of audit_events younger than the round
  channel,      \* wakes of the active session
  preempted,    \* audit_preempted of the session
  request,      \* next-share.json
  wire,         \* WakeShare messages on their way to the phone
  online,       \* a session is registered as active
  due,          \* dirty, reconnectRequested, or a failed pass to try again
  mark,         \* dirtyShares; old since a pass selected it
  all,          \* dirtyAllGeneration against completedAllGeneration
  auditDue,     \* a minute since lastAudit
  auditDeferred,
  cursor,       \* of AuditRotation
  step,         \* of the pass and of its round
  kind,         \* what the pass asks for
  focus,        \* the Shares it asks for
  excluded,     \* Shares that failed in this pass
  remaining,    \* ready: Shares the round has not visited
  current,      \* the Share being visited
  completed,    \* completed_shares
  attempt,      \* manual_attempt
  told          \* pending_wakes of the phone

folders == <<pcSide, phoneSide>>
server  == <<collected, urgent, newer, channel, preempted, request>>
phone   == <<due, mark, all, auditDue, auditDeferred, cursor>>
round   == <<step, kind, focus, excluded, remaining, current,
             completed, attempt, told>>
vars    == <<folders, faults, narrowed, server, wire, online, phone, round>>

TypeOK ==
  /\ pcSide \in [Share -> SUBSET {"hinted", "read"}]
  /\ phoneSide \in [Share -> {"same", "read", "changed"}]
  /\ faults \in 0 .. FaultMax /\ narrowed \in BOOLEAN
  /\ collected \subseteq Share /\ newer \subseteq Share
  /\ channel \subseteq Share /\ wire \subseteq Share
  /\ urgent \in [Share -> {"none", "pending", "delivered"}]
  /\ preempted \in BOOLEAN /\ online \in BOOLEAN
  /\ request \in Request \cup {None} /\ attempt \in Request \cup {None}
  /\ due \in BOOLEAN /\ auditDue \in BOOLEAN /\ auditDeferred \in BOOLEAN
  /\ mark \in [Share -> {"none", "old", "new"}] /\ all \in {"none", "old", "new"}
  /\ cursor \in DOMAIN Rotation
  /\ step \in {"idle", "asked", "ready", "gate", "work", "done", "deferred"}
  /\ kind \in {"focused", "periodic", "all"}
  /\ focus \subseteq Share /\ excluded \subseteq Share /\ remaining \subseteq Share
  /\ completed \subseteq Share /\ told \subseteq Share
  /\ current \in Share \cup {None}

\* The service has just started: the STARTUP wake, and no audit yet.
Init ==
  /\ pcSide = [s \in Share |-> {}] /\ phoneSide = [s \in Share |-> "same"]
  /\ faults = 0 /\ narrowed = FALSE
  /\ collected = {} /\ newer = {} /\ channel = {} /\ wire = {}
  /\ urgent = [s \in Share |-> "none"]
  /\ preempted = FALSE /\ online = FALSE /\ request = None
  /\ due = TRUE /\ mark = [s \in Share |-> "none"] /\ all = "new"
  /\ auditDue = TRUE /\ auditDeferred = FALSE /\ cursor = 1
  /\ step = "idle" /\ kind = "all" /\ focus = {} /\ excluded = {}
  /\ remaining = {} /\ current = None /\ completed = {}
  /\ attempt = None /\ told = {}

\* The session's round holds the lock of the PC's stores.
Locked == step \in {"ready", "gate", "work"}

-----------------------------------------------------------------------------
(* The users, the clock and the watcher.                                   *)

\* An event that passes the filters; audit_events numbers it.
PcEdit(s) ==
  /\ s \in PcEdited
  /\ collected' = collected \cup {s}
  /\ newer' = IF Locked THEN newer \cup {s} ELSE newer
  /\ UNCHANGED <<folders, faults, narrowed, urgent, channel, preempted, request,
                 wire, online, phone, round>>

Wake(s) ==
  /\ mark' = [mark EXCEPT ![s] = "new"]
  /\ due' = TRUE

\* An observer burst is flushed: WakeState.wake of one Share.
PhoneEdit(s) ==
  /\ s \in PhoneWoken
  /\ phoneSide' = [phoneSide EXCEPT ![s] = "changed"]
  /\ Wake(s)
  /\ UNCHANGED <<pcSide, faults, narrowed, server, wire, online, all, auditDue,
                 auditDeferred, cursor, round>>

\* "Synchronize now", a new binding, a restart: WakeState.wake without a Share.
WakeAll ==
  /\ None \in PhoneWoken /\ all # "new"
  /\ all' = "new" /\ due' = TRUE
  /\ UNCHANGED <<folders, faults, narrowed, server, wire, online, mark, auditDue,
                 auditDeferred, cursor, round>>

AuditTick ==
  /\ ~auditDue
  /\ auditDue' = TRUE
  /\ UNCHANGED <<folders, faults, narrowed, server, wire, online, due, mark, all,
                 auditDeferred, cursor, round>>

\* request_share_sync: a new request replaces the one before.
ManualRequest(s) ==
  /\ s \in Requested
  /\ request' = [share |-> s, id |-> IF attempt = None THEN 0 ELSE 1 - attempt.id]
  /\ UNCHANGED <<folders, faults, narrowed, collected, urgent, newer, channel, preempted,
                 wire, online, phone, round>>

-----------------------------------------------------------------------------
(* The serve loop and the idle session.                                    *)

Urgent == {s \in Share : urgent[s] # "none"}

\* While a session holds the lock the Share stays collected and is urgent.
MarkUrgent(s) ==
  /\ s \in collected /\ online /\ Locked /\ urgent[s] = "none"
  /\ urgent' = [urgent EXCEPT ![s] = "pending"]
  /\ UNCHANGED <<folders, faults, narrowed, collected, newer, channel, preempted, request,
                 wire, online, phone, round>>

\* With the lock the hint is written; a Share whose change the phone was
\* not told of wakes the active session.
Flush(s) ==
  /\ s \in collected /\ ~Locked
  /\ collected' = collected \ {s}
  /\ pcSide' = [pcSide EXCEPT ![s] = @ \cup {"hinted"}]
  /\ urgent' = [urgent EXCEPT ![s] = "none"]
  /\ channel' = IF online /\ urgent[s] # "delivered" THEN channel \cup {s} ELSE channel
  /\ UNCHANGED <<phoneSide, faults, narrowed, newer, preempted, request, wire, online, phone, round>>

\* The session serves nothing before the hints of delivered Shares are on disk.
Committed == \A s \in Share : urgent[s] # "delivered"

SendWakes ==
  /\ online /\ ~Locked /\ Committed /\ channel # {}
  /\ wire' = wire \cup channel
  /\ channel' = {}
  /\ UNCHANGED <<folders, faults, narrowed, collected, urgent, newer, preempted, request,
                 online, phone, round>>

\* pollWake returns the Share of a WakeShare.
ReceiveWake(s) ==
  /\ step = "idle" /\ s \in wire
  /\ wire' = wire \ {s}
  /\ Wake(s)
  /\ UNCHANGED <<folders, faults, narrowed, server, online, all, auditDue, auditDeferred,
                 cursor, round>>

-----------------------------------------------------------------------------
(* A pass of the phone's worker.                                           *)

\* What a pass knows ends with it.
Idle ==
  /\ step' = "idle" /\ kind' = "all" /\ focus' = {} /\ excluded' = {}
  /\ remaining' = {} /\ current' = None /\ completed' = {}
  /\ attempt' = None /\ told' = {}

Marked == {s \in Share : mark[s] # "none"}

AuditShare == Rotation[cursor]

Aged(m) == IF m = "none" THEN "none" ELSE "old"

\* A known Share goes first; the overdue audit runs on the next pass.
FocusedFirst == auditDue /\ Marked # {} /\ ~auditDeferred /\ all = "none"

BeginPass ==
  /\ step = "idle" /\ (due \/ auditDue)
  /\ due' = FALSE
  /\ mark' = [s \in Share |-> Aged(mark[s])] /\ all' = Aged(all)
  /\ auditDeferred' = (auditDeferred \/ FocusedFirst)
  /\ kind' = IF all # "none" THEN "all"
             ELSE IF auditDue /\ ~FocusedFirst THEN "periodic" ELSE "focused"
  /\ focus' = CASE kind' = "all" -> Share
                [] kind' = "periodic" -> {AuditShare}
                [] kind' = "focused" -> Marked
  /\ excluded' = {} /\ completed' = {}
  /\ step' = "asked"
  /\ UNCHANGED <<folders, faults, narrowed, server, wire, online, auditDue, cursor,
                 remaining, current, attempt, told>>

\* NativeBridge.sync connects; the session before it is replaced.
Connect ==
  /\ step = "asked" /\ ~online
  /\ online' = TRUE
  /\ channel' = {} /\ wire' = {} /\ preempted' = FALSE
  /\ UNCHANGED <<folders, faults, narrowed, collected, urgent, newer, request, phone, round>>

\* StartRound, Shares, Capabilities: the wakes the phone meets before Shares
\* are kept for the end; a request for a Share the phone asked for narrows
\* the round to it, another is rejected.
Accept ==
  /\ step = "asked" /\ online /\ Committed
  /\ told' = wire /\ wire' = {} /\ newer' = {}
  /\ LET wanted == focus \ excluded
         granted == request # None /\ request.share \in wanted IN
       /\ remaining' = IF granted THEN {request.share} ELSE wanted
       /\ attempt' = IF granted THEN request ELSE None
       /\ request' = IF granted THEN request ELSE None
       /\ narrowed' = (narrowed \/ (granted /\ wanted # {request.share}))
  /\ step' = "ready"
  /\ UNCHANGED <<folders, faults, collected, urgent, channel, preempted, online, phone,
                 kind, focus, excluded, current, completed>>

Audit == kind # "focused"

\* RoundDeferred names the Shares the phone must come back for.
DeferTo(shares) ==
  /\ told' = told \cup shares
  /\ urgent' = [s \in Share |-> IF urgent[s] = "none" THEN "none" ELSE "delivered"]
  /\ preempted' = TRUE
  /\ step' = "deferred" /\ remaining' = {} /\ attempt' = None

UrgentFirst == Audit /\ ~preempted /\ Urgent # {}

\* Before a Share of an audit urgent ones are looked for, once.
PreemptBefore ==
  /\ step = "ready" /\ remaining # {} /\ UrgentFirst
  /\ DeferTo(Urgent)
  /\ UNCHANGED <<folders, faults, narrowed, collected, newer, channel, request, wire, online,
                 phone, kind, focus, excluded, current, completed>>

\* The store is opened with the hint on disk, the phone scans.
Select(s) ==
  /\ step = "ready" /\ s \in remaining /\ ~UrgentFirst
  /\ current' = s /\ remaining' = remaining \ {s}
  /\ phoneSide' = IF phoneSide[s] = "changed" THEN [phoneSide EXCEPT ![s] = "read"] ELSE phoneSide
  /\ pcSide' = [pcSide EXCEPT ![s] = IF @ = {} THEN {} ELSE {"read"}]
  /\ step' = "gate"
  /\ UNCHANGED <<faults, narrowed, server, wire, online, phone, kind, focus, excluded,
                 completed, attempt, told>>

\* What was read counts only if the visit completes.
Unread ==
  /\ pcSide' = [pcSide EXCEPT ![current] = IF @ = {} THEN {} ELSE {"hinted"}]
  /\ phoneSide' = [phoneSide EXCEPT ![current] = IF @ = "read" THEN "changed" ELSE @]

\* While the phone scans, and once more when it is ready, the PC looks for
\* events younger than the round: AuditPreempt and ScanDeferred.
PreemptScan ==
  /\ step = "gate" /\ ~preempted /\ newer # {}
  /\ DeferTo(newer \cup Urgent)
  /\ Unread
  /\ current' = None
  /\ UNCHANGED <<faults, narrowed, collected, newer, channel, request, wire, online, phone,
                 kind, focus, excluded, completed>>

\* The phone's scan ends when its generation has moved on: ScanDeferred.
ScanAborted ==
  /\ step = "gate" /\ (mark[current] = "new" \/ all = "new")
  /\ DeferTo(newer \cup Urgent)
  /\ Unread
  /\ current' = None
  /\ UNCHANGED <<faults, narrowed, collected, newer, channel, request, wire, online,
                 phone, kind, focus, excluded, completed>>

Continue ==
  /\ step = "gate" /\ (preempted \/ newer = {})
  /\ step' = "work"
  /\ UNCHANGED <<folders, faults, narrowed, server, wire, online, phone, kind, focus, excluded,
                 remaining, current, completed, attempt, told>>

\* Mutant: the request file is removed, whichever request it holds.
ServedAny(r) == None

\* finish_manual_request: only the request that was served is removed.
Served(r) == IF request = r THEN None ELSE request

Complete ==
  /\ step = "work"
  /\ pcSide' = [pcSide EXCEPT ![current] = @ \ {"read"}]
  /\ phoneSide' = [phoneSide EXCEPT ![current] = IF @ = "read" THEN "same" ELSE @]
  /\ completed' = completed \cup {current}
  /\ request' = IF attempt = None THEN request ELSE Served(attempt)
  /\ attempt' = None
  /\ current' = None /\ step' = "ready"
  /\ UNCHANGED <<faults, narrowed, collected, urgent, newer, channel, preempted, wire, online,
                 phone, kind, focus, excluded, remaining, told>>

Break ==
  /\ online' = FALSE /\ channel' = {} /\ wire' = {}

\* A selected Share fails: the error ends the session, and with it a request;
\* the pass begins a new round without the Share.
ShareFails ==
  /\ step \in {"gate", "work"}
  /\ current \in Broken \/ faults < FaultMax
  /\ faults' = IF current \in Broken /\ faults > 0 THEN faults ELSE faults + 1
  /\ Break /\ Unread
  /\ excluded' = excluded \cup {current}
  /\ request' = IF attempt = None THEN request ELSE Served(attempt)
  /\ attempt' = None /\ current' = None /\ remaining' = {} /\ told' = {}
  /\ step' = "asked"
  /\ UNCHANGED <<narrowed, collected, urgent, newer, preempted, phone, kind, focus, completed>>

\* A Share the PC cannot open is skipped, unless it was requested.
ShareSkipped(s) ==
  /\ step = "ready" /\ s \in remaining /\ ~UrgentFirst /\ attempt = None
  /\ faults < FaultMax /\ faults' = faults + 1
  /\ remaining' = remaining \ {s} /\ excluded' = excluded \cup {s}
  /\ UNCHANGED <<folders, narrowed, server, wire, online, phone, step, kind, focus, current,
                 completed, attempt, told>>

\* The connection breaks; a pass under way fails and is tried again.
Disconnect ==
  /\ online /\ faults < FaultMax /\ faults' = faults + 1
  /\ Break
  /\ due' = TRUE
  /\ IF current = None THEN UNCHANGED folders ELSE Unread
  /\ Idle
  /\ UNCHANGED <<narrowed, collected, urgent, newer, preempted, request, mark, all, auditDue,
                 auditDeferred, cursor>>

\* SessionDone.
EndRound ==
  /\ step = "ready" /\ remaining = {}
  /\ preempted' = (preempted /\ ~Audit)
  /\ step' = "done"
  /\ UNCHANGED <<folders, faults, narrowed, collected, urgent, newer, channel, request, wire,
                 online, phone, kind, focus, excluded, remaining, current,
                 completed, attempt, told>>

\* A Share that failed makes the pass fail; its marks and its audit stay.
PassFails ==
  /\ step \in {"done", "deferred"} /\ excluded # {}
  /\ due' = TRUE
  /\ Idle
  /\ UNCHANGED <<folders, faults, narrowed, server, wire, online, mark, all, auditDue,
                 auditDeferred, cursor>>

\* The wakes of the round first; then WakeState.complete removes a mark only
\* if the Share was completed and not woken since it was selected.
Consumed(s) == s \in completed /\ mark[s] = "old"

MarkAfter(s) ==
  IF s \in told THEN "new" ELSE IF Consumed(s) THEN "none" ELSE mark[s]

\* Mutant: the rotation does not advance.
NextStays == cursor

NextAudit == IF cursor = Len(Rotation) THEN 1 ELSE cursor + 1

PassEnds ==
  /\ step \in {"done", "deferred"} /\ excluded = {}
  /\ mark' = [s \in Share |-> MarkAfter(s)]
  /\ due' = \/ due \/ told # {}
            \/ (kind = "periodic" \/ step = "deferred") /\ \E s \in Share : mark'[s] = "old"
  /\ IF step = "done" /\ Audit
     THEN auditDue' = FALSE /\ auditDeferred' = FALSE /\ all' = IF all = "old" THEN "none" ELSE all
     ELSE auditDeferred' = (auditDeferred /\ step = "done") /\ UNCHANGED <<auditDue, all>>
  /\ cursor' = IF step = "done" /\ kind = "periodic" THEN NextAudit ELSE cursor
  /\ Idle
  /\ UNCHANGED <<folders, faults, narrowed, server, wire, online>>

-----------------------------------------------------------------------------
Visit ==
  \/ PreemptBefore \/ PreemptScan \/ Continue \/ Complete \/ EndRound
  \/ \E s \in Share : Select(s)

Next ==
  \/ \E s \in Share : \/ PcEdit(s) \/ PhoneEdit(s) \/ ManualRequest(s)
                      \/ MarkUrgent(s) \/ Flush(s) \/ ReceiveWake(s) \/ ShareSkipped(s)
  \/ WakeAll \/ AuditTick \/ SendWakes
  \/ BeginPass \/ Connect \/ Accept \/ Visit \/ PassEnds \/ PassFails
  \/ ScanAborted \/ ShareFails \/ Disconnect

Spec == Init /\ [][Next]_vars

\* Threads take their next step; serve finds the lock free between two
\* rounds again and again, and an idle session reaches its channel.
Fairness ==
  /\ WF_vars(BeginPass) /\ WF_vars(Connect) /\ WF_vars(Accept)
  /\ WF_vars(Visit)
  /\ WF_vars(PassEnds) /\ WF_vars(PassFails)
  /\ \A s \in Share : SF_vars(Flush(s)) /\ WF_vars(ReceiveWake(s))
  /\ SF_vars(SendWakes)

FairSpec == Spec /\ Fairness

-----------------------------------------------------------------------------
(* Properties.                                                             *)

(* No change is owed by nobody. A change on the PC that no round has read  *)
(* is collected by serve, announced to the phone, or marked there, as long *)
(* as no fault took an announcement with it (urgent/delivered, the wakes   *)
(* met before Shares, RoundDeferred); a change on the phone is marked      *)
(* there whatever fails (WakeState.complete).                              *)
ChangeOwed ==
  \A s \in Share :
    /\ "hinted" \in pcSide[s] /\ faults = 0 /\ ~narrowed =>
         \/ s \in channel \cup wire \cup told
         \/ mark[s] # "none" \/ all # "none"
    /\ phoneSide[s] # "same" => mark[s] # "none"

(* A manual request is removed when it was served or refused, and never    *)
(* because an older one ended (finish_manual_request).                     *)
NewerRequestKept ==
  [][request # None /\ request' = None => step = "asked" \/ attempt = request]_vars

Hinted(s) == "hinted" \in pcSide[s]

Reads(s) == step = "work" /\ current = s /\ "read" \in pcSide[s]

(* A change on the PC is read by a round without help from the phone's     *)
(* audit clock, although other changes and audits keep coming.             *)
ChangeServed ==
  \A s \in Share : Hinted(s) ~> Reads(s) \/ faults > 0 \/ narrowed

(* Wakes do not put an audit off for ever (audit_preempted).               *)
AuditCompletes == auditDue ~> ~auditDue

(* What a fault made the PC forget to announce is found by the audits, as  *)
(* time goes on (AuditRotation).                                           *)
FaultsRecover == []<>auditDue => \A s \in Share : Hinted(s) ~> Reads(s)

(* A Share that fails does not keep the others from being synchronized,    *)
(* as time goes on (one_share_failure_does_not_starve_another_share).      *)
OthersProgress ==
  []<>auditDue => \A s \in Share \ Broken : Hinted(s) ~> Reads(s)

=============================================================================
