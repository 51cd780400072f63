--------------------------- MODULE MCComputerLive ---------------------------
(***************************************************************************)
(* TLC instance of what the computer must do in the end: the scheduling of *)
(* rounds with the phone (Schedule), pairing (Pairing) and the daemon with *)
(* its commands (DaemonControl). One behaviour is of one part; what must   *)
(* happen is stated under the fairness of its module.                      *)
(***************************************************************************)
EXTENDS Schedule, TLC

CONSTANTS
  s1, s2, c1, c2, d1, d2, NoProc, Paired

TwoShares == {s1, s2}
Order == <<s1, s2>>
Following == [c \in {c1, c2} |-> IF c = c1 THEN "follow" ELSE "stop"]

VARIABLES
  which,      \* the part this behaviour is of
  dmn_lock, dmn_path, dmn_daemon, dmn_cmd, dmn_conn, dmn_log, dmn_emitting,
  dmn_sub, dmn_crashes, pair_config, pair_mode, pair_shown, pair_session,
  pair_phone, pair_active, pair_consent, pair_events

Daemon == INSTANCE DaemonControl WITH
  Proc <- {d1, d2}, Cmd <- {c1, c2}, NoProc <- NoProc, Unit <- d1,
  Given <- {Following}, LineMax <- 1, CrashMax <- 0, lock <- dmn_lock,
  path <- dmn_path, daemon <- dmn_daemon, cmd <- dmn_cmd, conn <- dmn_conn,
  log <- dmn_log, emitting <- dmn_emitting, sub <- dmn_sub,
  crashes <- dmn_crashes

Pair == INSTANCE Pairing WITH
  Phone <- Paired, IdMax <- 2, EventMax <- 3, config <- pair_config,
  mode <- pair_mode, shown <- pair_shown, session <- pair_session,
  phone <- pair_phone, active <- pair_active, consent <- pair_consent,
  events <- pair_events

daemonVars == <<
  dmn_lock, dmn_path, dmn_daemon, dmn_cmd, dmn_conn, dmn_log, dmn_emitting,
  dmn_sub, dmn_crashes>>

pairVars == <<
  pair_config, pair_mode, pair_shown, pair_session, pair_phone, pair_active,
  pair_consent, pair_events>>

ASSUME PartsAssumption == Daemon!DaemonAssumption /\ Pair!PairingAssumption

parts == <<which, vars, daemonVars, pairVars>>

\* The parts that do not run stay in one of their initial states.
PartsInit ==
  /\ which \in {"rounds", "daemon", "pairing"}
  /\ Init
  /\ Daemon!Init
  /\ which # "daemon" => \A p \in {d1, d2} : dmn_daemon[p].at = "new"
  /\ which # "daemon" => \A c \in {c1, c2} : dmn_cmd[c].op = Following[c]
  /\ Pair!Init

PartsNext ==
  \/ which = "rounds" /\ Next /\ UNCHANGED <<which, daemonVars, pairVars>>
  \/ which = "daemon" /\ Daemon!Next
     /\ UNCHANGED <<which, vars, pairVars>>
  \/ which = "pairing" /\ Pair!Next
     /\ UNCHANGED <<which, vars, daemonVars>>

PartsSpec == PartsInit /\ [][PartsNext]_parts

-----------------------------------------------------------------------------
\* A daemon told to stop ends, its followers included, and frees the lock and
\* the socket's path (DaemonControl).
DaemonEnds == Daemon!Fairness => Daemon!StopCompletes

\* No pairing request blocks the next, and a pairing that stopped half-way
\* heals (Pairing).
PairingHeals == Pair!Fairness => Pair!RequestEnds /\ Pair!HalfPairHeals

\* A change on the PC is read without help from the audits, audits complete,
\* and they find what a fault made the PC forget to announce (Schedule).
ChangesAreServed == Fairness => ChangeServed /\ AuditCompletes /\ FaultsRecover

=============================================================================
