---------------------------- MODULE DaemonControl ----------------------------
(***************************************************************************)
(* The daemon of the computer and the commands that control it: the lock   *)
(* and the socket of ROWD_HOME, start, stop, restart and follow, and the   *)
(* bus that hands the lines of a log to its followers.                     *)
(*                                                                         *)
(* A command is a process of its own.  A request is sent to the listener   *)
(* behind the socket's path, waits there until the accept loop takes it,   *)
(* and is answered by a handler thread; every wait of a command may time   *)
(* out.  Requests that only read (the trace commands) are left out.  Lines *)
(* are numbered in the order they are written.                             *)
(***************************************************************************)
EXTENDS Naturals, Sequences, SequencesExt

CONSTANTS
    Proc,      \* processes that may run the daemon
    Cmd,       \* commands
    NoProc,
    Unit,      \* the process of the service manager
    Given,     \* what the commands are, functions from Cmd to Op
    LineMax,   \* lines written
    CrashMax   \* processes killed

DaemonAssumption ==
    /\ NoProc \notin Proc /\ Unit \in Proc
    /\ Given \subseteq [Cmd -> {"start", "stop", "restart", "follow"}]
    /\ LineMax \in Nat /\ CrashMax \in Nat

VARIABLES
    lock,      \* holder of daemon.lock
    path,      \* the process whose listener the socket's path names
    daemon,    \* per process
    cmd,       \* per command: where it is, the process it started or asked
    conn,      \* per command: its request
    log,       \* the lines of the current log file
    emitting,  \* the line written and not yet sent, 0 if none: the bus is locked
    sub,       \* per command: lines queued for it and lines it was sent
    crashes

vars == <<lock, path, daemon, cmd, conn, log, emitting, sub, crashes>>

Op == {"start", "stop", "restart", "follow"}
Ends == {"started", "stopped", "failed", "followed"}
Request == {"status", "stop", "ping", "subscribe"}
NoConn == [to |-> NoProc, what |-> "ping", at |-> "none"]
Line == 1..LineMax

TypeOK ==
    /\ lock \in Proc \cup {NoProc} /\ path \in Proc \cup {NoProc}
    /\ daemon \in [Proc -> [at : {"new", "run", "locked", "serving", "stopping", "leaving", "gone"},
                            ready : BOOLEAN, stop : BOOLEAN,
                            worker : {"none", "running", "ended"}]]
    /\ cmd \in [Cmd -> [op : Op, child : Proc \cup {NoProc},
                        at : {"idle", "mode", "ask", "ping", "spawn", "wait", "follow"} \cup Ends]]
    /\ conn \in [Cmd -> [to : Proc \cup {NoProc}, what : Request,
                         at : {"none", "sent", "handled", "answered", "half",
                               "streaming", "ok", "err"}]]
    /\ log.from \in 1..(LineMax + 1) /\ log.to \in 0..LineMax
    /\ emitting \in 0..LineMax
    /\ \A c \in Cmd : sub[c].queue \in Seq(Line) /\ sub[c].got \subseteq Line
    /\ crashes \in 0..CrashMax

Init ==
    /\ lock = NoProc /\ path = NoProc
    /\ \E managed \in {{}, {Unit}} :   \* the service manager has started the unit
          daemon = [p \in Proc |-> [at |-> IF p \in managed THEN "run" ELSE "new",
                                    ready |-> FALSE, stop |-> FALSE, worker |-> "none"]]
    /\ \E op \in Given : cmd = [c \in Cmd |-> [op |-> op[c], child |-> NoProc, at |-> "idle"]]
    /\ conn = [c \in Cmd |-> NoConn]
    /\ log = [from |-> 1, to |-> 0]
    /\ emitting = 0
    /\ sub = [c \in Cmd |-> [queue |-> <<>>, got |-> {}]]
    /\ crashes = 0

Alive(p) == daemon[p].at \in {"serving", "stopping"}
Listening == path # NoProc /\ Alive(path)

busVars == <<log, emitting, sub>>

-----------------------------------------------------------------------------
(* run: the process of the daemon.                                         *)

Lock(p) ==
    /\ daemon[p].at = "run"
    /\ IF lock = NoProc
       THEN lock' = p /\ daemon' = [daemon EXCEPT ![p].at = "locked"]
       ELSE daemon' = [daemon EXCEPT ![p].at = "gone"] /\ UNCHANGED lock
    /\ UNCHANGED <<path, cmd, conn, busVars, crashes>>

\* A path nobody listens on is left by a killed process and is removed; then
\* the socket is bound and the App's worker started.
Bind(p) ==
    /\ daemon[p].at = "locked" /\ ~Listening
    /\ path' = p
    /\ daemon' = [daemon EXCEPT ![p].at = "serving", ![p].worker = "running"]
    /\ UNCHANGED <<lock, cmd, conn, busVars, crashes>>

Ready(p) ==
    /\ daemon[p].worker = "running" /\ ~daemon[p].ready
    /\ daemon' = [daemon EXCEPT ![p].ready = TRUE]
    /\ UNCHANGED <<lock, path, cmd, conn, busVars, crashes>>

\* serve_observed returns: it was told to stop, or it failed.
WorkerEnds(p) ==
    /\ daemon[p].worker = "running"
    /\ daemon' = [daemon EXCEPT ![p].worker = "ended"]
    /\ UNCHANGED <<lock, path, cmd, conn, busVars, crashes>>

Accept(p, c) ==
    /\ daemon[p].at = "serving"
    /\ conn[c].to = p /\ conn[c].at = "sent"
    /\ conn' = [conn EXCEPT ![c].at = "handled"]
    /\ UNCHANGED <<lock, path, daemon, cmd, busVars, crashes>>

\* The accept loop ends; stop is set for the handlers and the worker.
LoopEnds(p) ==
    /\ daemon[p].at = "serving"
    /\ daemon[p].stop \/ daemon[p].worker = "ended"
    /\ daemon' = [daemon EXCEPT ![p].at = "stopping", ![p].stop = TRUE]
    /\ UNCHANGED <<lock, path, cmd, conn, busVars, crashes>>

Handled(p) == {c \in Cmd : /\ conn[c].to = p
                           /\ conn[c].at \in {"handled", "answered", "half", "streaming"}}

\* Mutant: the lock is released before the socket's path is removed.
LockFirst == <<"lock", "socket">>

\* What run's locals drop, last declared first.
DropOrder == <<"socket", "lock">>

Drop(what) ==
    /\ path' = IF what = "socket" THEN NoProc ELSE path
    /\ lock' = IF what = "lock" THEN NoProc ELSE lock

\* Handlers and worker joined, the socket's path is removed, the listener closed.
Leave(p) ==
    /\ daemon[p].at = "stopping"
    /\ Handled(p) = {} /\ daemon[p].worker = "ended"
    /\ Drop(DropOrder[1])
    /\ daemon' = [daemon EXCEPT ![p].at = "leaving"]
    /\ conn' = [c \in Cmd |-> IF conn[c].to = p /\ conn[c].at = "sent"
                              THEN [conn[c] EXCEPT !.at = "err"] ELSE conn[c]]
    /\ UNCHANGED <<cmd, busVars, crashes>>

Exit(p) ==
    /\ daemon[p].at = "leaving"
    /\ Drop(DropOrder[2])
    /\ daemon' = [daemon EXCEPT ![p].at = "gone"]
    /\ UNCHANGED <<cmd, conn, busVars, crashes>>

Crash(p) ==
    /\ crashes < CrashMax
    /\ daemon[p].at \notin {"new", "gone"}
    /\ crashes' = crashes + 1
    /\ daemon' = [daemon EXCEPT ![p].at = "gone", ![p].worker = "ended"]
    /\ lock' = IF lock = p THEN NoProc ELSE lock
    /\ emitting' = IF lock = p THEN 0 ELSE emitting
    /\ conn' = [c \in Cmd |-> IF conn[c].to = p /\ conn[c].at \notin {"none", "ok", "err"}
                              THEN [conn[c] EXCEPT !.at = "err"] ELSE conn[c]]
    /\ UNCHANGED <<path, cmd, log, sub>>

-----------------------------------------------------------------------------
(* The handlers and the bus.                                               *)

Answer(c, reply) == conn' = [conn EXCEPT ![c].at = reply]

HandleStatus(c) ==
    /\ conn[c].at = "handled" /\ conn[c].what \in {"status", "ping"}
    /\ Answer(c, IF daemon[conn[c].to].ready THEN "ok" ELSE "err")
    /\ UNCHANGED <<lock, path, daemon, cmd, busVars, crashes>>

\* The reply is sent first: the command may read it before stop is set.
HandleStop(c) ==
    /\ conn[c].at = "handled" /\ conn[c].what = "stop"
    /\ Answer(c, "answered")
    /\ UNCHANGED <<lock, path, daemon, cmd, busVars, crashes>>

SetStop(c) ==
    /\ conn[c].at = "answered"
    /\ daemon' = [daemon EXCEPT ![conn[c].to].stop = TRUE]
    /\ Answer(c, "ok")
    /\ UNCHANGED <<lock, path, cmd, busVars, crashes>>

History == log.from .. log.to

\* The follower is registered under the bus's lock, then the log's last lines read.
SubscribeOrder == <<"register", "history">>

SubscribeStep(c, what) ==
    /\ what = "register" => emitting = 0
    /\ sub' = IF what = "history" THEN [sub EXCEPT ![c].got = History] ELSE sub

Subscribe(c) ==
    /\ conn[c].what = "subscribe"
    /\ \/ conn[c].at = "handled" /\ SubscribeStep(c, SubscribeOrder[1]) /\ Answer(c, "half")
       \/ conn[c].at = "half" /\ SubscribeStep(c, SubscribeOrder[2]) /\ Answer(c, "streaming")
    /\ UNCHANGED <<lock, path, daemon, cmd, log, emitting, crashes>>

Subscribed == {c \in Cmd : \/ conn[c].at = "streaming"
                           \/ conn[c].at = "half" /\ SubscribeOrder[1] = "register"}

Stream(c) ==
    /\ conn[c].at = "streaming" /\ sub[c].queue # <<>>
    /\ ~daemon[conn[c].to].stop
    /\ sub' = [sub EXCEPT ![c] = [queue |-> Tail(@.queue), got |-> @.got \cup {Head(@.queue)}]]
    /\ UNCHANGED <<lock, path, daemon, cmd, conn, log, emitting, crashes>>

\* Mutant: a follower without a new line never looks at stop.
StreamForever(c) == sub[c].queue # <<>> /\ daemon[conn[c].to].stop

\* The loop looks at stop between lines and every 200 ms without one.
StreamOver(c) == daemon[conn[c].to].stop

StreamEnds(c) ==
    /\ conn[c].at = "streaming" /\ StreamOver(c)
    /\ Answer(c, "err")
    /\ UNCHANGED <<lock, path, daemon, cmd, busVars, crashes>>

\* Bus::emit holds the lock from the write to the last send.
EmitWrite(p) ==
    /\ daemon[p].at \in {"serving", "stopping"} /\ lock = p
    /\ emitting = 0 /\ log.to < LineMax
    /\ \E c \in Cmd : cmd[c].op = "follow"   \* other lines are left out
    /\ emitting' = log.to + 1
    /\ \E from \in {log.from, log.to + 1} :   \* the file is rotated at its limit
          log' = [from |-> from, to |-> log.to + 1]
    /\ UNCHANGED <<lock, path, daemon, cmd, conn, sub, crashes>>

EmitSend ==
    /\ emitting # 0
    /\ sub' = [c \in Cmd |-> IF c \in Subscribed
                             THEN [sub[c] EXCEPT !.queue = Append(@, emitting)] ELSE sub[c]]
    /\ emitting' = 0
    /\ UNCHANGED <<lock, path, daemon, cmd, conn, log, crashes>>

-----------------------------------------------------------------------------
(* The commands.                                                           *)

Goes(c, at) == cmd' = [cmd EXCEPT ![c].at = at]

First == [start |-> "spawn", stop |-> "ask", restart |-> "mode", follow |-> "follow"]

Begin(c) ==
    /\ cmd[c].at = "idle"
    /\ Goes(c, First[cmd[c].op])
    /\ UNCHANGED <<lock, path, daemon, conn, busVars, crashes>>

Asks == [mode |-> "status", ask |-> "stop", ping |-> "ping", wait |-> "status", follow |-> "subscribe"]

Send(c) ==
    /\ cmd[c].at \in DOMAIN Asks /\ conn[c].at = "none"
    /\ conn' = [conn EXCEPT ![c] = IF Listening
                    THEN [to |-> path, what |-> Asks[cmd[c].at], at |-> "sent"]
                    ELSE [NoConn EXCEPT !.at = "err"]]
    /\ UNCHANGED <<lock, path, daemon, cmd, busVars, crashes>>

\* request gives up after three seconds without an answer; the handler goes on.
TimesOut(c) ==
    /\ conn[c].at = "sent" /\ cmd[c].at # "follow"
    /\ daemon[conn[c].to].at = "stopping"
    /\ conn' = [conn EXCEPT ![c].at = "err"]
    /\ UNCHANGED <<lock, path, daemon, cmd, busVars, crashes>>

\* start: a listening socket refuses it, whoever listens.
Spawn(c) ==
    /\ cmd[c].at = "spawn"
    /\ IF Listening
       THEN Goes(c, "failed") /\ UNCHANGED daemon
       ELSE \E p \in Proc :
              /\ daemon[p].at = "new"
              /\ daemon' = [daemon EXCEPT ![p].at = "run"]
              /\ cmd' = [cmd EXCEPT ![c].at = "wait", ![c].child = p]
    /\ UNCHANGED <<lock, path, conn, busVars, crashes>>

\* The pid of the status is the child's.
IsMine(c) == conn[c].to = cmd[c].child

\* Where a command goes with the answer to its request.
Reacts(c) ==
    LET ok == conn[c].at = "ok"
    IN  CASE cmd[c].at = "mode" -> IF ok THEN {"ask"} ELSE {"failed"}
          [] cmd[c].at = "ask" -> IF ok THEN {"ping"} ELSE {"failed"}
          [] cmd[c].at = "ping" -> IF ok THEN {"ping", "failed"}
                                   ELSE {IF cmd[c].op = "restart" THEN "spawn" ELSE "stopped"}
          [] cmd[c].at = "wait" ->
                IF ok THEN {IF IsMine(c) THEN "started" ELSE "failed"}
                ELSE IF daemon[cmd[c].child].at = "gone" THEN {"failed"}
                ELSE {"wait", "failed"}
          [] cmd[c].at = "follow" -> {"followed"}

React(c) ==
    /\ conn[c].at \in {"ok", "err"}
    /\ \E at \in Reacts(c) : Goes(c, at)
    /\ conn' = [conn EXCEPT ![c] = NoConn]
    /\ UNCHANGED <<lock, path, daemon, busVars, crashes>>

-----------------------------------------------------------------------------
RunStep(p) ==
    \/ Lock(p) \/ Bind(p) \/ Ready(p) \/ WorkerEnds(p)
    \/ LoopEnds(p) \/ Leave(p) \/ Exit(p) \/ EmitWrite(p)
    \/ \E c \in Cmd : Accept(p, c)

HandlerStep(c) ==
    \/ HandleStatus(c) \/ HandleStop(c) \/ SetStop(c)
    \/ Subscribe(c) \/ Stream(c) \/ StreamEnds(c)

CommandStep(c) == Begin(c) \/ Send(c) \/ TimesOut(c) \/ Spawn(c) \/ React(c)

Next ==
    \/ \E p \in Proc : RunStep(p) \/ Crash(p)
    \/ \E c \in Cmd : HandlerStep(c) \/ CommandStep(c)
    \/ EmitSend

Spec == Init /\ [][Next]_vars

\* Threads run; the worker (serve) returns once it is told to stop: it looks at
\* its stop flag in every turn of its loop.
Fairness ==
    /\ \A p \in Proc : /\ WF_vars(LoopEnds(p))
                       /\ WF_vars(daemon[p].stop /\ WorkerEnds(p))
                       /\ WF_vars(Leave(p)) /\ WF_vars(Exit(p))
    /\ \A c \in Cmd : /\ WF_vars(HandleStatus(c)) /\ WF_vars(HandleStop(c))
                      /\ WF_vars(SetStop(c)) /\ WF_vars(Subscribe(c))
                      /\ WF_vars(StreamEnds(c))
    /\ WF_vars(EmitSend)

FairSpec == Spec /\ Fairness

-----------------------------------------------------------------------------
\* The socket's path always names the listener of the daemon that holds the
\* lock: a daemon on its way out never takes the path of its successor away.
SocketIsOwners == \A p \in Proc : Alive(p) => path = p /\ lock = p

\* A command that reports a start has seen its own process ready.
StartedIsMine ==
    \A c \in Cmd : cmd[c].at = "started" => daemon[cmd[c].child].ready

\* A follower misses no line after the first it was sent: none falls between
\* the history and the stream.
Sent(c) == sub[c].got \cup ToSet(sub[c].queue)

NoGap ==
    \A c \in Cmd : conn[c].at = "streaming" =>
        \A first \in Sent(c) : \A line \in first..log.to :
            line \in Sent(c) \/ line = emitting

\* What a user of the commands relies on, together.
CommandsTellTruth == SocketIsOwners /\ StartedIsMine /\ NoGap

\* A daemon told to stop ends, its followers included, and frees lock and path.
StopCompletes ==
    \A p \in Proc : (daemon[p].stop /\ daemon[p].at = "serving")
                       ~> (daemon[p].at = "gone" /\ lock # p)
=============================================================================
