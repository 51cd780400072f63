----------------------------- MODULE MCComputer -----------------------------
(***************************************************************************)
(* TLC instance of Computer: each of its parts on its own, the scheduling  *)
(* of rounds with two sorts of requests, and the watcher with two paths    *)
(* and without installations. One behaviour is of one part.                *)
(***************************************************************************)
EXTENDS Computer, TLC

CONSTANTS s1, s2, c1, c2

Order == <<s1, s2>>

Pairs == {[c \in {c1, c2} |-> IF c = c1 THEN a ELSE b] :
            <<a, b>> \in {<<"start", "start">>, <<"start", "restart">>, <<"follow", "stop">>}}

VARIABLE which      \* the part this behaviour is of

\* Rounds, with requests of the phone as a whole instead of those by hand.
Waking == INSTANCE Schedule WITH
  PhoneWoken <- PhoneWoken \cup {None}, Requested <- {},
  pcSide <- round_pcSide, phoneSide <- round_phoneSide,
  faults <- round_faults, narrowed <- round_narrowed,
  collected <- round_collected, urgent <- round_urgent, newer <- round_newer,
  channel <- round_channel, preempted <- round_preempted,
  request <- round_request, wire <- round_wire, online <- round_online,
  due <- round_due, mark <- round_mark, all <- round_all,
  auditDue <- round_auditDue, auditDeferred <- round_auditDeferred,
  cursor <- round_cursor, step <- round_step, kind <- round_kind,
  focus <- round_focus, excluded <- round_excluded,
  remaining <- round_remaining, current <- round_current,
  completed <- round_completed, attempt <- round_attempt, told <- round_told

roundVars == <<
  round_pcSide, round_phoneSide, round_faults, round_narrowed,
  round_collected, round_urgent, round_newer, round_channel, round_preempted,
  round_request, round_wire, round_online, round_due, round_mark, round_all,
  round_auditDue, round_auditDeferred, round_cursor, round_step, round_kind,
  round_focus, round_excluded, round_remaining, round_current,
  round_completed, round_attempt, round_told>>

daemonVars == <<lock, path, daemon, cmd, conn, log, emitting, sub, crashes>>

storeVars == <<
  store_dir, store_may, store_at, store_copy, store_lock, store_session,
  store_done, store_raced, store_losses>>

hintVars == <<
  hint_file, hint_seen, hint_unsaved, hint_raw, hint_checking, hint_queue,
  hint_recovery, hint_registry, hint_up, hint_enabled, hint_watched,
  hint_registering, hint_dirty, hint_hint, hint_phase, hint_scope,
  hint_installing>>

cacheVars == <<
  file, content, changed, edits, quiet, phase, kind, job, prepared, cache, disk,
  manifest, copy>>

parts == <<which, vars, roundVars, daemonVars, storeVars, hintVars, cacheVars>>

\* The parts that do not run stay in one of their initial states.
PartsInit ==
  /\ which \in {"pairing", "rounds", "wakes", "daemon", "store", "hints", "cache"}
  /\ Init
  /\ Rounds!Init
  /\ Daemon!Init
  /\ which # "daemon" => \A p \in Proc : daemon[p].at = "new"
  /\ which # "daemon" => \A c \in Cmd : cmd[c].op = "start"
  /\ Store!Init
  /\ which # "store" => store_dir = Store!Begins(FALSE, 0)
  /\ Noticed!Init
  /\ which # "hints" => hint_file = [p \in Watched |-> Absent] /\ hint_hint = {}
  /\ Cache!Init
  /\ which # "cache" => file = [p \in Path |-> CHOOSE n \in Node : TRUE]
  /\ which # "cache" => content = [n \in Node |-> LET c == CHOOSE d \in Piece : TRUE IN <<c, c>>]

PartsNext ==
  \/ which = "pairing" /\ Next /\ UNCHANGED <<which, roundVars, daemonVars, storeVars, hintVars, cacheVars>>
  \/ which = "rounds" /\ Rounds!Next
     /\ UNCHANGED <<which, vars, daemonVars, storeVars, hintVars, cacheVars>>
  \/ which = "wakes" /\ Waking!Next
     /\ UNCHANGED <<which, vars, daemonVars, storeVars, hintVars, cacheVars>>
  \/ which = "daemon" /\ Daemon!Next
     /\ UNCHANGED <<which, vars, roundVars, storeVars, hintVars, cacheVars>>
  \/ which = "store" /\ Store!Next
     /\ UNCHANGED <<which, vars, roundVars, daemonVars, hintVars, cacheVars>>
  \/ which = "hints" /\ Noticed!Next
     /\ UNCHANGED <<which, vars, roundVars, daemonVars, storeVars, cacheVars>>
  \/ which = "cache" /\ Cache!Next
     /\ UNCHANGED <<which, vars, roundVars, daemonVars, storeVars, hintVars>>

PartsSpec == PartsInit /\ [][PartsNext]_parts

=============================================================================
