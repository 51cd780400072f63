----------------------------- MODULE PhoneProofs -----------------------------
(***************************************************************************)
(* Proofs about the phone: the worker of its service never sleeps over a   *)
(* wake, for any set of threads that signal (IdleWake); a failure in one   *)
(* call of the managed client costs the Share it belongs to and no other,  *)
(* for any set of Shares (ClientRound); and the two sides agree on what it *)
(* asked to share, for any set of requests (ShareRequests).                *)
(***************************************************************************)
EXTENDS IdleWake, TLAPS

\* A call of the client, which the worker makes (ClientRound).
CONSTANTS Share, None
VARIABLES stream, moved, callCancelled, call, asked, skipped, blamed, queue, failed,
  session, completed, error

Client == INSTANCE ClientRound WITH cancelled <- callCancelled

\* The requests for Shares, which the two sides agree on (ShareRequests).
CONSTANT Ask
VARIABLES phone, bound, learned, asking, rejected, share, edited, refused, round

Requests == INSTANCE ShareRequests WITH queue <- asking

-----------------------------------------------------------------------------
\* The rule of signal: a queued reason has its byte in the pair, or the byte
\* is about to be written, or the reasons are about to be taken.
Announced ==
  reasons # {} =>
    readable \/ (\E t \in Thread : doing[t] = "write") \/ pc \in {"swap", "dropwrite"}

\* Every thread marks before it signals: work a waiting worker has to see is
\* among the reasons, or the thread is about to add its own.
Signals ==
  /\ pc = "enter" /\ (dirty \/ cancelled)
       => reasons # {} \/ \E t \in Thread : doing[t] = "queue"
  /\ pc \in {"poll", "drain", "swap"} /\ ~frame /\ (dirty \/ cancelled \/ conn = "stale")
       => reasons # {} \/ \E t \in Thread : doing[t] = "queue"

\* A service that wants its worker has not cancelled it.
Wanted == active => ~cancelled

WInv == TypeOK /\ Announced /\ Signals /\ Wanted

\* The monitor belongs to a thread that is signalling.
Monitored == \A t \in Thread : holder = t => doing[t] \in {"queue", "write"}

\* A connection can be shut down from the moment it can be used.
Reachable ==
  /\ conn # "none" => socket # "none"
  /\ pc = "recheck" => socket # "none"

\* The network callback has still to shut a connection it made stale.
Pursued ==
  pc = "round" /\ conn = "stale" /\ socket # "shut" =>
    \/ doing[Main] = "shutdown"
    \/ doing[Main] \in {"queue", "write"} /\ why[Main] = "network" /\ holder # Main

SInv == TypeOK /\ Monitored /\ Reachable /\ Pursued

-----------------------------------------------------------------------------
(* A worker that waits.                                                   *)

LEMMA WInit == Init => WInv
BY DEF Init, WInv, TypeOK, Announced, Signals, Wanted, Thread, Reason

\* The types of the flags, and of the rest.
Flags ==
  /\ readable \in BOOLEAN /\ dirty \in BOOLEAN /\ cancelled \in BOOLEAN
  /\ active \in BOOLEAN /\ frame \in BOOLEAN

Ranges ==
  /\ reasons \subseteq Reason /\ kept \subseteq Reason
  /\ holder \in Thread \cup {Nobody}
  /\ doing \in [Thread -> {"idle", "queue", "write", "shutdown"}]
  /\ why \in [Thread -> Reason]
  /\ pc \in {"stopped", "check", "sync", "register", "connected", "recheck", "round", "backoff",
             "enter", "poll", "drain", "swap", "drop", "dropwrite", "report"}
  /\ outcome \in {"local", "cancelled", "invalid", "share"}
  /\ conn \in {"none", "live", "stale"} /\ attempt \in {"none", "live", "stale"}
  /\ socket \in {"none", "open", "shut"}

\* Flags stay flags.
LEMMA FlagsStep == Flags /\ [Next]_vars => Flags'
<1> SUFFICES ASSUME Flags, [Next]_vars PROVE Flags'
  OBVIOUS
<1> USE WakersAssumption DEF Flags, Thread, Reason, wakeVars, pollVars, connVars
<1>1. ASSUME NEW t \in Thread, Wake(t) PROVE Flags'
  BY <1>1 DEF Wake, Begin
<1>2. ASSUME NEW t \in Thread, Queue(t) PROVE Flags'
  BY <1>2 DEF Queue, Signalled
<1>3. ASSUME NEW t \in Thread, Write(t) PROVE Flags'
  BY <1>3 DEF Write, Signalled
<1>4. CASE NetworkChanged
  BY <1>4 DEF NetworkChanged, Begin
<1>5. CASE Shutdown
  BY <1>5 DEF Shutdown, Begin
<1>6. CASE Stop
  BY <1>6 DEF Stop, Begin
<1>7. CASE Start
  BY <1>7 DEF Start, Begin
<1>8. CASE AuditDue
  BY <1>8 DEF AuditDue, Go
<1>9. CASE FrameBegins
  BY <1>9 DEF FrameBegins
<1>10. CASE StreamEnds
  BY <1>10 DEF StreamEnds, Go
<1>11. CASE Check
  BY <1>11 DEF Check, Go
<1>12. CASE Enter
  BY <1>12 DEF Enter, Go
<1>13. CASE Sync
  BY <1>13 DEF Sync, Cleared, Go
<1>14. CASE ConnectFails
  BY <1>14 DEF ConnectFails, Go
<1>15. CASE Connected
  BY <1>15 DEF Connected, Go
<1>16. CASE Register
  BY <1>16 DEF Register, Go
<1>17. CASE Recheck
  BY <1>17 DEF Recheck, Cleared, Go
<1>18. CASE Round
  BY <1>18 DEF Round, Cleared, Go
<1>19. CASE Backoff
  BY <1>19 DEF Backoff, Go
<1>20. CASE Readable
  BY <1>20 DEF Readable, Go
<1>21. CASE Drain
  BY <1>21 DEF Drain, Go
<1>22. CASE Swap
  BY <1>22 DEF Swap, Go
<1>23. CASE FrameEnds
  BY <1>23 DEF FrameEnds, Go
<1>24. CASE Drop
  BY <1>24 DEF Drop, Go
<1>25. CASE DropWrite
  BY <1>25 DEF DropWrite, Go
<1>26. CASE Report
  BY <1>26 DEF Report, Cleared, Go
<1>27. CASE UNCHANGED vars
  BY <1>27 DEF vars
<1> QED
  BY <1>1, <1>2, <1>3, <1>4, <1>5, <1>6, <1>7, <1>8, <1>9, <1>10, <1>11, <1>12, <1>13,
    <1>14, <1>15, <1>16, <1>17, <1>18, <1>19, <1>20, <1>21, <1>22, <1>23, <1>24, <1>25,
    <1>26, <1>27 DEF Next, Worker

\* The rest stays in its range.
LEMMA RangesStep == Ranges /\ [Next]_vars => Ranges'
<1> SUFFICES ASSUME Ranges, [Next]_vars PROVE Ranges'
  OBVIOUS
<1> USE WakersAssumption DEF Ranges, Thread, Reason, wakeVars, pollVars, connVars
<1>1. ASSUME NEW t \in Thread, Wake(t) PROVE Ranges'
  BY <1>1 DEF Wake, Begin
<1>2. ASSUME NEW t \in Thread, Queue(t) PROVE Ranges'
  <2>1. reasons' \subseteq Reason
    BY <1>2 DEF Queue
  <2>2. doing' \in [Thread -> {"idle", "queue", "write", "shutdown"}]
    BY <1>2 DEF Queue, Signalled
  <2>3. holder' \in Thread \cup {Nobody}
    BY <1>2 DEF Queue, Signalled
  <2> QED
    BY <1>2, <2>1, <2>2, <2>3 DEF Queue
<1>3. ASSUME NEW t \in Thread, Write(t) PROVE Ranges'
  BY <1>3 DEF Write, Signalled
<1>4. CASE NetworkChanged
  BY <1>4 DEF NetworkChanged, Begin
<1>5. CASE Shutdown
  BY <1>5 DEF Shutdown, Begin
<1>6. CASE Stop
  BY <1>6 DEF Stop, Begin
<1>7. CASE Start
  BY <1>7 DEF Start, Begin
<1>8. CASE AuditDue
  BY <1>8 DEF AuditDue, Go
<1>9. CASE FrameBegins
  BY <1>9 DEF FrameBegins
<1>10. CASE StreamEnds
  BY <1>10 DEF StreamEnds, Go
<1>11. CASE Check
  BY <1>11 DEF Check, Go
<1>12. CASE Enter
  BY <1>12 DEF Enter, Go
<1>13. CASE Sync
  BY <1>13 DEF Sync, Cleared, Go
<1>14. CASE ConnectFails
  BY <1>14 DEF ConnectFails, Go
<1>15. CASE Connected
  BY <1>15 DEF Connected, Go
<1>16. CASE Register
  BY <1>16 DEF Register, Go
<1>17. CASE Recheck
  BY <1>17 DEF Recheck, Cleared, Go
<1>18. CASE Round
  BY <1>18 DEF Round, Cleared, Go
<1>19. CASE Backoff
  BY <1>19 DEF Backoff, Go
<1>20. CASE Readable
  BY <1>20 DEF Readable, Go
<1>21. CASE Drain
  BY <1>21 DEF Drain, Go
<1>22. CASE Swap
  BY <1>22 DEF Swap, Go
<1>23. CASE FrameEnds
  BY <1>23 DEF FrameEnds, Go
<1>24. CASE Drop
  BY <1>24 DEF Drop, Go
<1>25. CASE DropWrite
  BY <1>25 DEF DropWrite, Go
<1>26. CASE Report
  BY <1>26 DEF Report, Cleared, Go
<1>27. CASE UNCHANGED vars
  BY <1>27 DEF vars
<1> QED
  BY <1>1, <1>2, <1>3, <1>4, <1>5, <1>6, <1>7, <1>8, <1>9, <1>10, <1>11, <1>12, <1>13,
    <1>14, <1>15, <1>16, <1>17, <1>18, <1>19, <1>20, <1>21, <1>22, <1>23, <1>24, <1>25,
    <1>26, <1>27 DEF Next, Worker

LEMMA TypeStep == TypeOK /\ [Next]_vars => TypeOK'
<1>1. TypeOK <=> Flags /\ Ranges
  BY DEF TypeOK, Flags, Ranges
<1>2. TypeOK' <=> Flags' /\ Ranges'
  BY DEF TypeOK, Flags, Ranges
<1> QED
  BY <1>1, <1>2, FlagsStep, RangesStep

\* Every step keeps the rules of signal, take and poll.
LEMMA WStep == WInv /\ [Next]_vars => WInv'
<1> SUFFICES ASSUME WInv, [Next]_vars PROVE WInv'
  OBVIOUS
<1>t. TypeOK'
  BY TypeStep DEF WInv
<1>d. doing \in [Thread -> {"idle", "queue", "write", "shutdown"}] /\ why \in [Thread -> Reason]
  BY DEF WInv, TypeOK
<1> USE <1>t, <1>d, WakersAssumption DEF WInv, Announced, Signals, Wanted, Thread, Reason, wakeVars, pollVars, connVars
<1>1. ASSUME NEW t \in Thread, Wake(t) PROVE WInv'
  BY <1>1 DEF Wake, Begin
<1>2. ASSUME NEW t \in Thread, Queue(t) PROVE WInv'
  <2>1. Announced'
    BY <1>2 DEF Queue, Signalled
  <2>2. Signals'
    BY <1>2 DEF Queue, Signalled
  <2>3. Wanted'
    BY <1>2 DEF Queue, Signalled
  <2> QED
    BY <2>1, <2>2, <2>3
<1>3. ASSUME NEW t \in Thread, Write(t) PROVE WInv'
  BY <1>3 DEF Write, Signalled
<1>4. CASE NetworkChanged
  BY <1>4 DEF NetworkChanged, Begin
<1>5. CASE Shutdown
  BY <1>5 DEF Shutdown, Begin
<1>6. CASE Stop
  <2>1. Announced'
    BY <1>6 DEF Stop, Begin
  <2>2. Signals'
    BY <1>6 DEF Stop, Begin
  <2>3. Wanted'
    BY <1>6 DEF Stop, Begin
  <2> QED
    BY <2>1, <2>2, <2>3
<1>7. CASE Start
  BY <1>7 DEF Start, Begin
<1>8. CASE AuditDue
  BY <1>8 DEF AuditDue, Go
<1>9. CASE FrameBegins
  BY <1>9 DEF FrameBegins
<1>10. CASE StreamEnds
  BY <1>10 DEF StreamEnds, Go
<1>11. CASE Check
  BY <1>11 DEF Check, Go
<1>12. CASE Enter
  BY <1>12 DEF Enter, Go
<1>13. CASE Sync
  BY <1>13 DEF Sync, Cleared, Go
<1>14. CASE ConnectFails
  BY <1>14 DEF ConnectFails, Go
<1>15. CASE Connected
  BY <1>15 DEF Connected, Go
<1>16. CASE Register
  BY <1>16 DEF Register, Go
<1>17. CASE Recheck
  BY <1>17 DEF Recheck, Cleared, Go
<1>18. CASE Round
  BY <1>18 DEF Round, Cleared, Go
<1>19. CASE Backoff
  <2>1. Announced'
    BY <1>19 DEF Backoff, Go
  <2>2. Signals'
    BY <1>19 DEF Backoff, Go
  <2>3. Wanted'
    BY <1>19 DEF Backoff, Go
  <2> QED
    BY <2>1, <2>2, <2>3
<1>20. CASE Readable
  BY <1>20 DEF Readable, Go
<1>21. CASE Drain
  <2>1. Announced'
    BY <1>21 DEF Drain, Go
  <2>2. Signals'
    BY <1>21 DEF Drain, Go
  <2>3. Wanted'
    BY <1>21 DEF Drain, Go
  <2> QED
    BY <2>1, <2>2, <2>3
<1>22. CASE Swap
  <2>1. Announced'
    BY <1>22 DEF Swap, Go
  <2>2. Signals'
    BY <1>22 DEF Swap, Go
  <2>3. Wanted'
    BY <1>22 DEF Swap, Go
  <2> QED
    BY <2>1, <2>2, <2>3
<1>23. CASE FrameEnds
  BY <1>23 DEF FrameEnds, Go
<1>24. CASE Drop
  <2>1. Announced'
    BY <1>24 DEF Drop, Go
  <2>2. Signals'
    BY <1>24 DEF Drop, Go
  <2>3. Wanted'
    BY <1>24 DEF Drop, Go
  <2> QED
    BY <2>1, <2>2, <2>3
<1>25. CASE DropWrite
  BY <1>25 DEF DropWrite, Go
<1>26. CASE Report
  BY <1>26 DEF Report, Cleared, Go
<1>27. CASE UNCHANGED vars
  BY <1>27 DEF vars
<1> QED
  BY <1>1, <1>2, <1>3, <1>4, <1>5, <1>6, <1>7, <1>8, <1>9, <1>10, <1>11, <1>12, <1>13,
    <1>14, <1>15, <1>16, <1>17, <1>18, <1>19, <1>20, <1>21, <1>22, <1>23, <1>24, <1>25,
    <1>26, <1>27 DEF Next, Worker

LEMMA WAlways == Spec => []WInv
<1> HIDE DEF WInv
<1> QED
  BY WInit, WStep, PTL DEF Spec

\* Types: every variable of the worker and of the threads stays in range.
THEOREM WorkerTypes == Spec => []TypeOK
<1>1. WInv => TypeOK
  BY DEF WInv
<1> QED
  BY <1>1, WAlways, PTL

\* A worker that waits for a frame over a wake, a cancellation or a stale
\* connection has a byte in the pair (IdleWake::signal and take), however
\* many threads signal.
THEOREM NeverSleepsOverWake == Spec => []NoSleepOverWake
<1>1. WInv => NoSleepOverWake
  BY DEF WInv, Announced, Signals, NoSleepOverWake, Quiet
<1> QED
  BY <1>1, WAlways, PTL

-----------------------------------------------------------------------------
(* A round and its socket.                                                 *)

LEMMA SInit == Init => SInv
BY WakersAssumption DEF Init, SInv, TypeOK, Monitored, Reachable, Pursued, Thread, Reason

\* Every step keeps the callback after the connection it made stale.
LEMMA SStep == SInv /\ [Next]_vars => SInv'
<1> SUFFICES ASSUME SInv, [Next]_vars PROVE SInv'
  OBVIOUS
<1>t. TypeOK'
  BY TypeStep DEF SInv
<1>d. doing \in [Thread -> {"idle", "queue", "write", "shutdown"}] /\ why \in [Thread -> Reason]
  BY DEF SInv, TypeOK
<1> USE <1>t, <1>d, WakersAssumption DEF SInv, Monitored, Reachable, Pursued, Thread, Reason, wakeVars, pollVars, connVars
<1>1. ASSUME NEW t \in Thread, Wake(t) PROVE SInv'
  BY <1>1 DEF Wake, Begin
<1>2. ASSUME NEW t \in Thread, Queue(t) PROVE SInv'
  <2>1. Monitored'
    BY <1>2 DEF Queue, Signalled
  <2>2. Reachable'
    BY <1>2 DEF Queue, Signalled
  <2>3. Pursued'
    BY <1>2 DEF Queue, Signalled
  <2> QED
    BY <2>1, <2>2, <2>3
<1>3. ASSUME NEW t \in Thread, Write(t) PROVE SInv'
  BY <1>3 DEF Write, Signalled
<1>4. CASE NetworkChanged
  BY <1>4 DEF NetworkChanged, Begin
<1>5. CASE Shutdown
  <2>1. Monitored'
    BY <1>5 DEF Shutdown, Begin
  <2>2. Reachable'
    BY <1>5 DEF Shutdown
  <2>3. socket \in {"none", "open", "shut"}
    BY DEF TypeOK
  <2>4. Pursued'
    BY <1>5, <2>3 DEF Shutdown
  <2> QED
    BY <2>1, <2>2, <2>4
<1>6. CASE Stop
  <2>1. Monitored'
    BY <1>6 DEF Stop, Begin
  <2>2. Reachable'
    BY <1>6 DEF Stop, Begin
  <2>3. Pursued'
    BY <1>6 DEF Stop, Begin
  <2> QED
    BY <2>1, <2>2, <2>3
<1>7. CASE Start
  BY <1>7 DEF Start, Begin
<1>8. CASE AuditDue
  BY <1>8 DEF AuditDue, Go
<1>9. CASE FrameBegins
  BY <1>9 DEF FrameBegins
<1>10. CASE StreamEnds
  BY <1>10 DEF StreamEnds, Go
<1>11. CASE Check
  BY <1>11 DEF Check, Go
<1>12. CASE Enter
  BY <1>12 DEF Enter, Go
<1>13. CASE Sync
  BY <1>13 DEF Sync, Cleared, Go
<1>14. CASE ConnectFails
  BY <1>14 DEF ConnectFails, Go
<1>15. CASE Connected
  BY <1>15 DEF Connected, Go
<1>16. CASE Register
  BY <1>16 DEF Register, Go
<1>17. CASE Recheck
  BY <1>17 DEF Recheck, Cleared, Go
<1>18. CASE Round
  BY <1>18 DEF Round, Cleared, Go
<1>19. CASE Backoff
  <2>1. Monitored'
    BY <1>19 DEF Backoff, Go
  <2>2. Reachable'
    BY <1>19 DEF Backoff, Go
  <2>3. Pursued'
    BY <1>19 DEF Backoff, Go
  <2> QED
    BY <2>1, <2>2, <2>3
<1>20. CASE Readable
  BY <1>20 DEF Readable, Go
<1>21. CASE Drain
  <2>1. Monitored'
    BY <1>21 DEF Drain, Go
  <2>2. Reachable'
    BY <1>21 DEF Drain, Go
  <2>3. Pursued'
    BY <1>21 DEF Drain, Go
  <2> QED
    BY <2>1, <2>2, <2>3
<1>22. CASE Swap
  <2>1. Monitored'
    BY <1>22 DEF Swap, Go
  <2>2. Reachable'
    BY <1>22 DEF Swap, Go
  <2>3. Pursued'
    BY <1>22 DEF Swap, Go
  <2> QED
    BY <2>1, <2>2, <2>3
<1>23. CASE FrameEnds
  BY <1>23 DEF FrameEnds, Go
<1>24. CASE Drop
  <2>1. Monitored'
    BY <1>24 DEF Drop, Go
  <2>2. Reachable'
    BY <1>24 DEF Drop, Go
  <2>3. Pursued'
    BY <1>24 DEF Drop, Go
  <2> QED
    BY <2>1, <2>2, <2>3
<1>25. CASE DropWrite
  BY <1>25 DEF DropWrite, Go
<1>26. CASE Report
  BY <1>26 DEF Report, Cleared, Go
<1>27. CASE UNCHANGED vars
  BY <1>27 DEF vars
<1> QED
  BY <1>1, <1>2, <1>3, <1>4, <1>5, <1>6, <1>7, <1>8, <1>9, <1>10, <1>11, <1>12, <1>13,
    <1>14, <1>15, <1>16, <1>17, <1>18, <1>19, <1>20, <1>21, <1>22, <1>23, <1>24, <1>25,
    <1>26, <1>27 DEF Next, Worker

LEMMA SAlways == Spec => []SInv
<1> HIDE DEF SInv
<1> QED
  BY SInit, SStep, PTL DEF Spec

\* A round over the connection of a network that is gone has its socket shut
\* once the network callback has ended (ACTIVE_SOCKET, the comparison of the
\* generation after the socket can be shut down).
THEOREM StaleRoundIsShut == Spec => []StaleIsShut
<1>1. SInv => StaleIsShut
  BY DEF SInv, Pursued, StaleIsShut, Quiet, Thread
<1> QED
  BY <1>1, SAlways, PTL

-----------------------------------------------------------------------------
\* Where the connection is while a call is at each point.
StreamHeld ==
  /\ call \in {"idle", "connect"} => stream # "mid"
  /\ call = "connect" => stream = "none"
  /\ call = "start" => stream \in {"clean", "cut"}
  /\ call \in {"shares", "loop", "visit"} => stream \in {"mid", "cut"}
  /\ call \in {"ended", "failed"} => stream # "mid"
  /\ call = "judge" => (stream = "mid" => error.inRound /\ ~error.reusable)
  /\ stream = "clean" /\ call = "judge" => error.inRound /\ error.reusable
  /\ moved => stream = "cut"

\* The Share of a visit, and of the error being judged.
Visited ==
  /\ call \in {"shares", "loop"} => failed = None
  /\ call = "visit" => failed \in Share
  /\ call = "judge" /\ error.raw \notin {"lost", "connect"} /\ failed # None => failed \in blamed
  /\ skipped \subseteq blamed

\* A session owes a visit to every Share of the call, unless it was cut short.
Owed(shares) == session.deferred \/ asked \subseteq shares \cup skipped \cup completed \cup session.errors
Owes ==
  /\ call = "loop" => Owed(queue)
  /\ call = "visit" => Owed(queue \cup {failed})
  /\ call \in {"judge", "ended", "failed"} /\ stream = "clean" => session.narrowed \/ Owed({})

CInv == Client!TypeOK /\ StreamHeld /\ Visited /\ Owes


-----------------------------------------------------------------------------
\* The fields of a session.
Session == [errors : SUBSET Share, scan : SUBSET Share, wakes : SUBSET Share,
            deferred : BOOLEAN, narrowed : BOOLEAN]

LEMMA Sessions ==
  /\ Client!NewSession \in Session /\ Client!NewSession.errors = {} /\ Client!NewSession.deferred = FALSE
  /\ Client!NoError \in [raw : Client!Raw, reusable : BOOLEAN, inRound : BOOLEAN] /\ Client!NoError.raw = "shares"
BY DEF Client!NewSession, Session, Client!NoError, Client!Raw

Error == [raw : Client!Raw, reusable : BOOLEAN, inRound : BOOLEAN]

LEMMA Errors ==
  /\ Client!Whole("shares") \in Error /\ Client!Whole("cancelled") \in Error /\ Client!Whole("local") \in Error
  /\ [raw |-> "generation", reusable |-> TRUE, inRound |-> FALSE] \in Error
BY DEF Error, Client!Raw, Client!Whole

LEMMA CInit == Client!Init => CInv
<1>. SUFFICES ASSUME Client!Init PROVE CInv
  OBVIOUS
<1>1. Client!TypeOK
  BY Sessions DEF Client!Init, Client!TypeOK, Session
<1>. QED
  BY <1>1 DEF Client!Init, CInv, StreamHeld, Visited, Owes

\* A cancellation is only noticed later.
LEMMA CancelKeeps ==
  ASSUME Client!ClientAssumption, CInv, Client!Cancel
  PROVE  CInv'
<1>. USE DEF Client!ClientAssumption, CInv, Client!Cancel, Client!round
<1>1. Client!TypeOK'
  BY DEF Client!TypeOK
<1>2. StreamHeld'
  BY DEF Client!TypeOK, StreamHeld
<1>3. Visited'
  BY DEF Client!TypeOK, Visited, StreamHeld
<1>4. Owes'
  BY DEF Client!TypeOK, StreamHeld, Visited, Owes, Owed
<1>. QED
  BY <1>1, <1>2, <1>3, <1>4

\* A network that changes shuts the connection down.
LEMMA NetworkChangedKeeps ==
  ASSUME Client!ClientAssumption, CInv, Client!NetworkChanged
  PROVE  CInv'
<1>. USE DEF Client!ClientAssumption, CInv, Client!NetworkChanged, Client!round
<1>1. Client!TypeOK'
  BY DEF Client!TypeOK
<1>2. StreamHeld'
  BY DEF Client!TypeOK, StreamHeld
<1>3. Visited'
  BY DEF Client!TypeOK, Visited, StreamHeld
<1>4. Owes'
  BY DEF Client!TypeOK, StreamHeld, Visited, Owes, Owed
<1>. QED
  BY <1>1, <1>2, <1>3, <1>4

\* A connection is lost.
LEMMA CutKeeps ==
  ASSUME Client!ClientAssumption, CInv, Client!Cut
  PROVE  CInv'
<1>. USE DEF Client!ClientAssumption, CInv, Client!Cut, Client!round
<1>1. Client!TypeOK'
  BY DEF Client!TypeOK
<1>2. StreamHeld'
  BY DEF Client!TypeOK, StreamHeld
<1>3. Visited'
  BY DEF Client!TypeOK, Visited, StreamHeld
<1>4. Owes'
  BY DEF Client!TypeOK, StreamHeld, Visited, Owes, Owed
<1>. QED
  BY <1>1, <1>2, <1>3, <1>4

\* A call starts from the connection the last one left.
LEMMA CallKeeps ==
  ASSUME Client!ClientAssumption, CInv, NEW shares \in SUBSET Share, Client!Call(shares)
  PROVE  CInv'
<1>. USE
DEF Client!ClientAssumption, CInv, Client!Call, Client!round, Client!NewSession,
  Client!NoError, Client!Raw
<1>1. Client!TypeOK'
  BY DEF Client!TypeOK
<1>2. StreamHeld'
  BY DEF Client!TypeOK, StreamHeld
<1>3. Visited'
  BY DEF Client!TypeOK, Visited, StreamHeld
<1>4. Owes'
  BY DEF Client!TypeOK, StreamHeld, Visited, Owes, Owed
<1>. QED
  BY <1>1, <1>2, <1>3, <1>4

\* A new connection.
LEMMA ConnectKeeps ==
  ASSUME Client!ClientAssumption, CInv, Client!Connect
  PROVE  CInv'
<1>. USE DEF Client!ClientAssumption, CInv, Client!Connect, Client!round
<1>1. Client!TypeOK'
  BY DEF Client!TypeOK
<1>2. StreamHeld'
  BY DEF Client!TypeOK, StreamHeld
<1>3. Visited'
  BY DEF Client!TypeOK, Visited, StreamHeld
<1>4. Owes'
  BY DEF Client!TypeOK, StreamHeld, Visited, Owes, Owed
<1>. QED
  BY <1>1, <1>2, <1>3, <1>4

\* A session begins.
LEMMA StartKeeps ==
  ASSUME Client!ClientAssumption, CInv, Client!Start
  PROVE  CInv'
<1>. USE DEF Client!ClientAssumption, CInv, Client!Start, Client!round, Client!NewSession
<1>1. Client!TypeOK'
  BY DEF Client!TypeOK
<1>2. StreamHeld'
  BY DEF Client!TypeOK, StreamHeld
<1>3. Visited'
  BY DEF Client!TypeOK, Visited, StreamHeld
<1>4. Owes'
  BY DEF Client!TypeOK, StreamHeld, Visited, Owes, Owed
<1>. QED
  BY <1>1, <1>2, <1>3, <1>4

\* The session is for every Share that has not failed.
LEMMA NegotiateKeeps ==
  ASSUME Client!ClientAssumption, CInv, NEW wakes \in SUBSET Share, Client!Negotiate(wakes)
  PROVE  CInv'
<1>. USE DEF Client!ClientAssumption, CInv, Client!Negotiate, Client!round
<1>1. Client!TypeOK'
  BY DEF Client!TypeOK
<1>2. StreamHeld'
  BY DEF Client!TypeOK, StreamHeld
<1>3. Visited'
  BY DEF Client!TypeOK, Visited, StreamHeld
<1>4. Owes'
  BY DEF Client!TypeOK, StreamHeld, Visited, Owes, Owed
<1>. QED
  BY <1>1, <1>2, <1>3, <1>4

\* The computer cannot serve the Share.
LEMMA ShareSkippedKeeps ==
  ASSUME Client!ClientAssumption, CInv, NEW s \in Share, Client!ShareSkipped(s)
  PROVE  CInv'
<1>. USE DEF Client!ClientAssumption, CInv, Client!ShareSkipped, Client!round
<1>1. Client!TypeOK'
  BY DEF Client!TypeOK
<1>2. StreamHeld'
  BY DEF Client!TypeOK, StreamHeld
<1>3. Visited'
  BY DEF Client!TypeOK, Visited, StreamHeld
<1>4. Owes'
  BY DEF Client!TypeOK, StreamHeld, Visited, Owes, Owed
<1>. QED
  BY <1>1, <1>2, <1>3, <1>4

\* A Share is visited.
LEMMA SelectShareKeeps ==
  ASSUME Client!ClientAssumption, CInv, NEW s \in Share, Client!SelectShare(s)
  PROVE  CInv'
<1>. USE DEF Client!ClientAssumption, CInv, Client!SelectShare, Client!round
<1>1. Client!TypeOK'
  BY DEF Client!TypeOK
<1>2. StreamHeld'
  BY DEF Client!TypeOK, StreamHeld
<1>3. Visited'
  BY DEF Client!TypeOK, Visited, StreamHeld
<1>4. Owes'
  BY DEF Client!TypeOK, StreamHeld, Visited, Owes, Owed
<1>. QED
  BY <1>1, <1>2, <1>3, <1>4

\* A visit ends.
LEMMA RespondKeeps ==
  ASSUME Client!ClientAssumption, CInv, NEW ends \in {"done", "deferred", "unreadable"},
         Client!Respond(ends)
  PROVE  CInv'
<1>. USE DEF Client!ClientAssumption, CInv, Client!Respond, Client!round
<1>1. Client!TypeOK'
  <2>1. session \in Session /\ failed \in Share \cup {None}
    BY DEF Client!TypeOK, Session
  <2>2. failed \in Share
    BY <2>1 DEF Visited, Client!TypeOK
  <2>. QED
    BY <2>1, <2>2 DEF Client!TypeOK
<1>2. StreamHeld'
  BY DEF Client!TypeOK, StreamHeld
<1>3. Visited'
  BY DEF Client!TypeOK, Visited, StreamHeld
<1>4. Owes'
  BY DEF Client!TypeOK, StreamHeld, Visited, Owes, Owed
<1>. QED
  BY <1>1, <1>2, <1>3, <1>4

\* A session is complete.
LEMMA EndSessionKeeps ==
  ASSUME Client!ClientAssumption, CInv, NEW wakes \in SUBSET Share,
         NEW narrowed \in BOOLEAN, Client!EndSession(wakes, narrowed)
  PROVE  CInv'
<1>. USE
DEF Client!ClientAssumption, CInv, Client!EndSession, Client!round, Client!Fails,
  Client!Whole, Client!Raw
<1>1. Client!TypeOK'
  <2>1. session' \in Session
    BY DEF Client!TypeOK, Session
  <2>2. /\ call' \in {"judge", "ended"}
        /\ error' \in {error, Client!Whole("shares"), Client!Whole("cancelled"), Client!Whole("local")}
    OBVIOUS
  <2>3. error' \in Error
    <3>1. error \in Error
      BY DEF Client!TypeOK, Error
    <3>. HIDE DEF Client!Whole, Client!Raw
    <3>. QED
      BY <2>2, <3>1, Errors
  <2>. QED
    BY <2>1, <2>2, <2>3 DEF Client!TypeOK, Session, Error
<1>2. StreamHeld'
  BY DEF Client!TypeOK, StreamHeld
<1>3. Visited'
  BY DEF Client!TypeOK, Visited, StreamHeld
<1>4. Owes'
  BY DEF Client!TypeOK, StreamHeld, Visited, Owes, Owed
<1>. QED
  BY <1>1, <1>2, <1>3, <1>4

\* A session breaks off.
LEMMA BreaksKeeps ==
  ASSUME Client!ClientAssumption, CInv, NEW raw \in Client!Raw \ {"connect", "shares",
         "generation"}, Client!Breaks(raw)
  PROVE  CInv'
<1>. USE
DEF Client!ClientAssumption, CInv, Client!Breaks, Client!round, Client!Fails,
  Client!Broken, Client!Raw
<1>1. Client!TypeOK'
  BY DEF Client!TypeOK
<1>2. StreamHeld'
  BY DEF Client!TypeOK, StreamHeld
<1>3. Visited'
  BY DEF Client!TypeOK, Visited, StreamHeld
<1>4. Owes'
  BY DEF Client!TypeOK, StreamHeld, Visited, Owes, Owed
<1>. QED
  BY <1>1, <1>2, <1>3, <1>4

\* No connection.
LEMMA ConnectFailsKeeps ==
  ASSUME Client!ClientAssumption, CInv, Client!ConnectFails
  PROVE  CInv'
<1>. USE
DEF Client!ClientAssumption, CInv, Client!ConnectFails, Client!round, Client!Fails,
  Client!Raw
<1>1. Client!TypeOK'
  BY DEF Client!TypeOK
<1>2. StreamHeld'
  BY DEF Client!TypeOK, StreamHeld
<1>3. Visited'
  BY DEF Client!TypeOK, Visited, StreamHeld
<1>4. Owes'
  BY DEF Client!TypeOK, StreamHeld, Visited, Owes, Owed
<1>. QED
  BY <1>1, <1>2, <1>3, <1>4

\* The error decides over the connection and the Share.
LEMMA JudgeKeeps ==
  ASSUME Client!ClientAssumption, CInv, Client!Judge
  PROVE  CInv'
<1>. USE
DEF Client!ClientAssumption, CInv, Client!Judge, Client!round, Client!Raw,
  Client!Classify, Client!Kept, Client!RequiresReconnect, Client!Invalidates,
  Client!EndsCall, Client!SkippedWith
<1>1. Client!TypeOK'
  <2>1. stream' \in {"none", stream} /\ moved' \in BOOLEAN
    BY DEF Client!TypeOK
  <2>2. call' \in {"connect", "start", "failed"} /\ skipped' \subseteq Share
    BY DEF Client!TypeOK
  <2>3. error' \in {error, [raw |-> "generation", reusable |-> TRUE, inRound |-> FALSE]}
    OBVIOUS
  <2>4. error' \in Error
    <3>1. error \in Error
      BY DEF Client!TypeOK, Error
    <3>. QED
      BY <2>3, <3>1, Errors
  <2>. QED
    BY <2>1, <2>2, <2>4 DEF Client!TypeOK, Error
<1>2. StreamHeld'
  BY DEF Client!TypeOK, StreamHeld
<1>3. Visited'
  BY DEF Client!TypeOK, Visited, StreamHeld
<1>4. Owes'
  BY DEF Client!TypeOK, StreamHeld, Visited, Owes, Owed
<1>. QED
  BY <1>1, <1>2, <1>3, <1>4

\* A call that met errors fails.
LEMMA ReportKeeps ==
  ASSUME Client!ClientAssumption, CInv, Client!Report
  PROVE  CInv'
<1>. USE DEF Client!ClientAssumption, CInv, Client!Report, Client!round, Client!Raw
<1>1. Client!TypeOK'
  BY DEF Client!TypeOK
<1>2. StreamHeld'
  BY DEF Client!TypeOK, StreamHeld
<1>3. Visited'
  BY DEF Client!TypeOK, Visited, StreamHeld
<1>4. Owes'
  BY DEF Client!TypeOK, StreamHeld, Visited, Owes, Owed
<1>. QED
  BY <1>1, <1>2, <1>3, <1>4

LEMMA CStutter == CInv /\ UNCHANGED Client!vars => CInv'
BY DEF CInv, Client!vars, Client!round, Client!TypeOK, StreamHeld, Visited, Owes, Owed

LEMMA CNext == Client!ClientAssumption /\ CInv /\ [Client!Next]_(Client!vars) => CInv'
<1>. SUFFICES ASSUME Client!ClientAssumption, CInv, [Client!Next]_(Client!vars) PROVE CInv'
  OBVIOUS
<1>1. CASE Client!Cancel \/ Client!NetworkChanged \/ Client!Cut
  BY <1>1, CancelKeeps, NetworkChangedKeeps, CutKeeps
<1>2. ASSUME NEW shares \in SUBSET Share, Client!Call(shares) PROVE CInv'
  BY <1>2, CallKeeps
<1>3. CASE Client!Round
  <2>1. CASE Client!Connect \/ Client!Start \/ Client!Judge \/ Client!Report \/ Client!ConnectFails
    BY <2>1, ConnectKeeps, StartKeeps, JudgeKeeps, ReportKeeps, ConnectFailsKeeps
  <2>2. ASSUME NEW wakes \in SUBSET Share, NEW narrowed \in BOOLEAN,
               Client!Negotiate(wakes) \/ Client!EndSession(wakes, narrowed)
        PROVE  CInv'
    BY <2>2, NegotiateKeeps, EndSessionKeeps
  <2>3. ASSUME NEW s \in Share, Client!ShareSkipped(s) \/ Client!SelectShare(s) PROVE CInv'
    BY <2>3, ShareSkippedKeeps, SelectShareKeeps
  <2>4. ASSUME NEW ends \in {"done", "deferred", "unreadable"}, Client!Respond(ends)
        PROVE CInv'
    BY <2>4, RespondKeeps
  <2>5. ASSUME NEW raw \in Client!Raw \ {"connect", "shares", "generation"},
               Client!Breaks(raw) PROVE CInv'
    BY <2>5, BreaksKeeps
  <2>. QED
    BY <1>3, <2>1, <2>2, <2>3, <2>4, <2>5 DEF Client!Round
<1>4. CASE UNCHANGED Client!vars
  BY <1>4, CStutter
<1>. QED
  BY <1>1, <1>2, <1>3, <1>4 DEF Client!Next

\* At each point of a call the connection is where the code takes it to be, a
\* Share that failed met an error of its own, and every Share not yet visited
\* is still owed (client_round, client_round_session).
THEOREM CallInvariance ==
  ASSUME Client!ClientAssumption
  PROVE  Client!Spec => []CInv
<1>1. CInv /\ [Client!Next]_(Client!vars) => CInv'
  BY CNext
<1>. QED
  BY <1>1, CInit, PTL DEF Client!Spec

\* A session never begins among the frames of the last one, no Share is left
\* out for a connection that was lost, and a call that ends in good order has
\* tried every Share it was for, however many fail.
THEOREM FailuresAreLocal ==
  ASSUME Client!ClientAssumption
  PROVE  Client!Spec => [](Client!CleanStart /\ Client!LossSkipsNone /\ Client!EveryShareTried)
<1>1. CInv => Client!CleanStart /\ Client!LossSkipsNone
  BY DEF CInv, StreamHeld, Visited, Client!CleanStart, Client!LossSkipsNone
<1>2. CInv => Client!EveryShareTried
  BY DEF CInv, Visited, Owes, Owed, Client!EveryShareTried, Client!Complete
<1>. QED
  BY <1>1, <1>2, CallInvariance, PTL

-----------------------------------------------------------------------------
\* What a round has read is still so: Shares are only made between rounds, and
\* a request that is no longer pending never is again.
Read ==
  /\ round.at = "shares" => Requests!Live \subseteq round.offered
  /\ \A r \in round.pending : phone[r] # "none"
  /\ \A r \in round.cancelled : phone[r] \in {"cancelled", "gone"}
  /\ round.pending \cap round.cancelled = {}
  /\ round.at \in {"no", "shares", "bound"} => round.pending = {} /\ round.cancelled = {}
  /\ round.at # "status" => \A r \in Ask : round.status[r] = "none"

\* A request in the queue of the computer is not a Share, and like every Share
\* it came from the phone.
Asked ==
  /\ \A r \in asking : share[r] # "live"
  /\ \A r \in Ask : r \in asking \/ share[r] # "none" => phone[r] # "none"

\* A refused request is remembered until the phone has stopped asking.
Remembered ==
  \A r \in refused :
    /\ r \notin asking /\ share[r] # "live"
    /\ phone[r] # "none"
    /\ round.at = "report" /\ phone[r] = "pending" => r \in round.pending
    /\ r \in rejected \/ (phone[r] \in {"cancelled", "gone"} /\ r \notin round.pending)

\* On its way to the phone an acceptance has the folder bound.
Binding ==
  /\ round.at = "bound" => \A r \in Requests!Live : phone[r] = "pending" => r \in bound
  /\ round.at = "report" => \A r \in Requests!Live : r \in round.pending => r \in bound
  /\ \A r \in Ask : round.status[r] = "accepted" =>
       /\ r \notin asking
       /\ share[r] = "live" => r \in bound
  /\ \A r \in Ask : learned[r] = "accepted" =>
       /\ phone[r] = "gone" /\ r \notin asking /\ r \notin round.pending
       /\ share[r] = "live" => r \in bound

RInv == Requests!TypeOK /\ Read /\ Asked /\ Remembered /\ Binding


-----------------------------------------------------------------------------
RoundState == [at : {"no", "shares", "bound", "report", "status"},
          offered : SUBSET Ask, pending : SUBSET Ask,
          cancelled : SUBSET Ask, status : [Ask -> Requests!Verdict]]

\* A round that is over carries nothing.
LEMMA NothingCarried ==
  /\ Requests!NoRound \in RoundState
  /\ Requests!NoRound.at = "no" /\ Requests!NoRound.pending = {} /\ Requests!NoRound.cancelled = {}
  /\ \A r \in Ask : Requests!NoRound.status[r] = "none"
BY DEF Requests!NoRound, RoundState, Requests!Verdict

LEMMA RInit == Requests!Init => RInv
<1>. SUFFICES ASSUME Requests!Init PROVE RInv
  OBVIOUS
<1>1. Requests!TypeOK
  BY NothingCarried DEF Requests!Init, Requests!TypeOK, RoundState, Requests!Verdict
<1>. QED
  BY <1>1, NothingCarried
  DEF Requests!Init, RInv, Read, Asked, Remembered, Binding, Requests!Live

\* The phone asks.
LEMMA RequestKeeps ==
  ASSUME RInv, NEW r \in Ask, Requests!Request(r)
  PROVE  RInv'
<1>. USE DEF RInv, Requests!Request
<1>1. Requests!TypeOK'
  BY DEF Requests!TypeOK, Requests!Verdict, RoundState
<1>2. Read'
  BY DEF Requests!TypeOK, Read, Requests!Live, RoundState
<1>3. Asked'
  BY DEF Requests!TypeOK, Read, Asked, RoundState
<1>4. Remembered'
  BY DEF Requests!TypeOK, Read, Asked, Remembered, RoundState
<1>5. Binding'
  BY DEF Requests!TypeOK, Read, Asked, Binding, Requests!Live, RoundState
<1>. QED
  BY <1>1, <1>2, <1>3, <1>4, <1>5

\* The phone withdraws a request.
LEMMA CancelHolds ==
  ASSUME RInv, NEW r \in Ask, Requests!Cancel(r)
  PROVE  RInv'
<1>. USE DEF RInv, Requests!Cancel
<1>1. Requests!TypeOK'
  BY DEF Requests!TypeOK, Requests!Verdict, RoundState
<1>2. Read'
  BY DEF Requests!TypeOK, Read, Requests!Live, RoundState
<1>3. Asked'
  BY DEF Requests!TypeOK, Read, Asked, RoundState
<1>4. Remembered'
  BY DEF Requests!TypeOK, Read, Asked, Remembered, RoundState
<1>5. Binding'
  BY DEF Requests!TypeOK, Read, Asked, Binding, Requests!Live, RoundState
<1>. QED
  BY <1>1, <1>2, <1>3, <1>4, <1>5

\* A request becomes a Share: between rounds, and never one that was refused.
LEMMA AcceptKeeps ==
  ASSUME RInv, NEW r \in Ask, Requests!Accept(r)
  PROVE  RInv'
<1>. USE DEF RInv, Requests!Accept, Requests!SessionGuard
<1>1. Requests!TypeOK'
  BY DEF Requests!TypeOK, Requests!Verdict, RoundState
<1>2. Read'
  BY DEF Requests!TypeOK, Read, Requests!Live, RoundState
<1>3. Asked'
  BY DEF Requests!TypeOK, Read, Asked, RoundState
<1>4. Remembered'
  BY DEF Requests!TypeOK, Read, Asked, Remembered, RoundState
<1>5. Binding'
  BY DEF Requests!TypeOK, Read, Asked, Binding, Requests!Live, RoundState
<1>. QED
  BY <1>1, <1>2, <1>3, <1>4, <1>5

\* A request is refused.
LEMMA RejectKeeps ==
  ASSUME RInv, NEW r \in Ask, Requests!Reject(r)
  PROVE  RInv'
<1>. USE DEF RInv, Requests!Reject, Requests!SessionGuard
<1>1. Requests!TypeOK'
  BY DEF Requests!TypeOK, Requests!Verdict, RoundState
<1>2. Read'
  BY DEF Requests!TypeOK, Read, Requests!Live, RoundState
<1>3. Asked'
  BY DEF Requests!TypeOK, Read, Asked, RoundState
<1>4. Remembered'
  BY DEF Requests!TypeOK, Read, Asked, Remembered, RoundState
<1>5. Binding'
  BY DEF Requests!TypeOK, Read, Asked, Binding, Requests!Live, RoundState
<1>. QED
  BY <1>1, <1>2, <1>3, <1>4, <1>5

\* A Share is removed.
LEMMA RemoveShareKeeps ==
  ASSUME RInv, NEW r \in Ask, Requests!RemoveShare(r)
  PROVE  RInv'
<1>. USE DEF RInv, Requests!RemoveShare
<1>1. Requests!TypeOK'
  BY DEF Requests!TypeOK, Requests!Verdict, RoundState
<1>2. Read'
  BY DEF Requests!TypeOK, Read, Requests!Live, RoundState
<1>3. Asked'
  BY DEF Requests!TypeOK, Read, Asked, RoundState
<1>4. Remembered'
  BY DEF Requests!TypeOK, Read, Asked, Remembered, RoundState
<1>5. Binding'
  BY DEF Requests!TypeOK, Read, Asked, Binding, Requests!Live, RoundState
<1>. QED
  BY <1>1, <1>2, <1>3, <1>4, <1>5

\* A Share is edited.
LEMMA EditShareKeeps ==
  ASSUME RInv, NEW r \in Ask, Requests!EditShare(r)
  PROVE  RInv'
<1>. USE DEF RInv, Requests!EditShare
<1>1. Requests!TypeOK'
  BY DEF Requests!TypeOK, Requests!Verdict, RoundState
<1>2. Read'
  BY DEF Requests!TypeOK, Read, Requests!Live, RoundState
<1>3. Asked'
  BY DEF Requests!TypeOK, Read, Asked, RoundState
<1>4. Remembered'
  BY DEF Requests!TypeOK, Read, Asked, Remembered, RoundState
<1>5. Binding'
  BY DEF Requests!TypeOK, Read, Asked, Binding, Requests!Live, RoundState
<1>. QED
  BY <1>1, <1>2, <1>3, <1>4, <1>5

\* A round begins with the Shares of the moment.
LEMMA RoundStartKeeps ==
  ASSUME RInv, Requests!StartRound
  PROVE  RInv'
<1>. USE DEF RInv, Requests!StartRound, Requests!SessionGuard
<1>1. Requests!TypeOK'
  BY NothingCarried DEF Requests!TypeOK, Requests!Verdict, RoundState, Requests!Live
<1>2. Read'
  BY NothingCarried DEF Requests!TypeOK, Read, Requests!Live, RoundState
<1>3. Asked'
  BY NothingCarried DEF Requests!TypeOK, Read, Asked, RoundState
<1>4. Remembered'
  BY NothingCarried DEF Requests!TypeOK, Read, Asked, Remembered, RoundState
<1>5. Binding'
  BY NothingCarried DEF Requests!TypeOK, Read, Asked, Binding, Requests!Live, RoundState
<1>. QED
  BY <1>1, <1>2, <1>3, <1>4, <1>5

\* The folder of a pending request becomes the binding of its Share.
LEMMA ConfigureKeeps ==
  ASSUME RInv, Requests!Configure
  PROVE  RInv'
<1>. USE DEF RInv, Requests!Configure, Requests!Holding
<1>1. Requests!TypeOK'
  BY NothingCarried DEF Requests!TypeOK, Requests!Verdict, RoundState, Requests!Live
<1>2. Read'
  BY NothingCarried DEF Requests!TypeOK, Read, Requests!Live, RoundState
<1>3. Asked'
  BY NothingCarried DEF Requests!TypeOK, Read, Asked, RoundState
<1>4. Remembered'
  BY NothingCarried DEF Requests!TypeOK, Read, Asked, Remembered, RoundState
<1>5. Binding'
  BY NothingCarried DEF Requests!TypeOK, Read, Asked, Binding, Requests!Live, RoundState
<1>. QED
  BY <1>1, <1>2, <1>3, <1>4, <1>5

\* The phone reports what it asks for.
LEMMA ReportHolds ==
  ASSUME RInv, Requests!Report
  PROVE  RInv'
<1>. USE DEF RInv, Requests!Report, Requests!Holding
<1>1. Requests!TypeOK'
  BY NothingCarried DEF Requests!TypeOK, Requests!Verdict, RoundState, Requests!Live
<1>2. Read'
  BY NothingCarried DEF Requests!TypeOK, Read, Requests!Live, RoundState
<1>3. Asked'
  BY NothingCarried DEF Requests!TypeOK, Read, Asked, RoundState
<1>4. Remembered'
  BY NothingCarried DEF Requests!TypeOK, Read, Asked, Remembered, RoundState
<1>5. Binding'
  BY NothingCarried DEF Requests!TypeOK, Read, Asked, Binding, Requests!Live, RoundState
<1>. QED
  BY <1>1, <1>2, <1>3, <1>4, <1>5

\* A round fails.
LEMMA RefuseRoundKeeps ==
  ASSUME RInv, Requests!RefuseRound
  PROVE  RInv'
<1>. USE DEF RInv, Requests!RefuseRound
<1>1. Requests!TypeOK'
  BY NothingCarried DEF Requests!TypeOK, Requests!Verdict, RoundState
<1>2. Read'
  BY NothingCarried DEF Requests!TypeOK, Read, Requests!Live, RoundState
<1>3. Asked'
  BY NothingCarried DEF Requests!TypeOK, Read, Asked, RoundState
<1>4. Remembered'
  BY NothingCarried DEF Requests!TypeOK, Read, Asked, Remembered, RoundState
<1>5. Binding'
  BY NothingCarried DEF Requests!TypeOK, Read, Asked, Binding, Requests!Live, RoundState
<1>. QED
  BY <1>1, <1>2, <1>3, <1>4, <1>5

\* The computer takes the requests and answers.
LEMMA RegisterKeeps ==
  ASSUME RInv, Requests!Register
  PROVE  RInv'
<1>. USE DEF RInv, Requests!Register, Requests!Kept
<1>1. Requests!TypeOK'
  BY DEF Requests!TypeOK, Requests!Verdict, RoundState, Requests!StatusOf
<1>2. Read'
  BY DEF Requests!TypeOK, Read, Requests!Live, RoundState, Requests!StatusOf
<1>3. Asked'
  BY DEF Requests!TypeOK, Read, Asked, RoundState
<1>4. Remembered'
  BY DEF Requests!TypeOK, Read, Asked, Remembered, RoundState
<1>5. Binding'
  BY DEF Requests!TypeOK, Read, Asked, Binding, Requests!Live, RoundState, Requests!StatusOf
<1>. QED
  BY <1>1, <1>2, <1>3, <1>4, <1>5

\* The phone forgets the requests it was told of.
LEMMA AcknowledgeKeeps ==
  ASSUME RInv, Requests!Acknowledge
  PROVE  RInv'
<1>. USE DEF RInv, Requests!Acknowledge
<1>1. Requests!TypeOK'
  BY NothingCarried DEF Requests!TypeOK, Requests!Verdict, RoundState
<1>2. Read'
  BY NothingCarried DEF Requests!TypeOK, Read, Requests!Live, RoundState
<1>3. Asked'
  BY NothingCarried DEF Requests!TypeOK, Read, Asked, RoundState
<1>4. Remembered'
  BY NothingCarried DEF Requests!TypeOK, Read, Asked, Remembered, RoundState
<1>5. Binding'
  BY NothingCarried DEF Requests!TypeOK, Read, Asked, Binding, Requests!Live, RoundState
<1>. QED
  BY <1>1, <1>2, <1>3, <1>4, <1>5

\* A round is lost.
LEMMA LoseKeeps ==
  ASSUME RInv, Requests!Lose
  PROVE  RInv'
<1>. USE DEF RInv, Requests!Lose
<1>1. Requests!TypeOK'
  BY NothingCarried DEF Requests!TypeOK, Requests!Verdict, RoundState
<1>2. Read'
  BY NothingCarried DEF Requests!TypeOK, Read, Requests!Live, RoundState
<1>3. Asked'
  BY NothingCarried DEF Requests!TypeOK, Read, Asked, RoundState
<1>4. Remembered'
  BY NothingCarried DEF Requests!TypeOK, Read, Asked, Remembered, RoundState
<1>5. Binding'
  BY NothingCarried DEF Requests!TypeOK, Read, Asked, Binding, Requests!Live, RoundState
<1>. QED
  BY <1>1, <1>2, <1>3, <1>4, <1>5

LEMMA RNext ==
  ASSUME RInv, Requests!Next
  PROVE  RInv'
<1>1. ASSUME NEW r \in Ask,
             Requests!Request(r) \/ Requests!Cancel(r) \/ Requests!Accept(r) \/ Requests!Reject(r) \/ Requests!RemoveShare(r) \/ Requests!EditShare(r)
      PROVE  RInv'
  BY <1>1, RequestKeeps, CancelHolds, AcceptKeeps, RejectKeeps, RemoveShareKeeps,
    EditShareKeeps
<1>. QED
  BY <1>1, RoundStartKeeps, ConfigureKeeps, ReportHolds, RefuseRoundKeeps, RegisterKeeps,
     AcknowledgeKeeps, LoseKeeps DEF Requests!Next

LEMMA RStutter ==
  ASSUME RInv, UNCHANGED Requests!vars
  PROVE  RInv'
BY DEF RInv, Requests!TypeOK, Read, Asked, Remembered, Binding, Requests!Live, Requests!vars

\* Whatever is lost, and whoever acts in between, what is asked for, refused
\* and accepted stays consistent on the two sides.
THEOREM RequestsInvariance == Requests!Spec => []RInv
<1>1. RInv /\ [Requests!Next]_(Requests!vars) => RInv'
  BY RNext, RStutter
<1>. QED
  BY RInit, <1>1, PTL DEF Requests!Spec

\* A phone told of an acceptance has the folder bound, and what was refused is
\* not asked of the user again.
THEOREM VerdictsHold == Requests!Spec => [](Requests!AcceptedIsBound /\ Requests!RefusedForGood)
<1>1. RInv => Requests!AcceptedIsBound /\ Requests!RefusedForGood
  BY DEF RInv, Binding, Remembered, Requests!AcceptedIsBound, Requests!RefusedForGood
<1>. QED
  BY <1>1, RequestsInvariance, PTL
=============================================================================
