------------------------------ MODULE MCPhone ------------------------------
(***************************************************************************)
(* TLC instance of the parts of the phone that keep the connection: the    *)
(* idle wait (IdleWake), one call of the native bridge (ClientRound) and the *)
(* way to an address (Endpoint). One behaviour is of one part; what must   *)
(* happen is stated under the fairness of its module.                      *)
(***************************************************************************)
EXTENDS IdleWake, TLC

CONSTANTS
  Share, None, Addr, NoAddr

VARIABLES
  which,      \* the part this behaviour is of
  call_stream, call_moved, call_cancelled, call_call, call_asked,
  call_skipped, call_blamed, call_queue, call_failed, call_session,
  call_completed, call_error, addr_pc, addr_multicast, addr_invite, addr_net,
  addr_resolver, addr_attempt, addr_linked, addr_events

Call == INSTANCE ClientRound WITH
  Share <- Share, None <- None, stream <- call_stream, moved <- call_moved,
  cancelled <- call_cancelled, call <- call_call, asked <- call_asked,
  skipped <- call_skipped, blamed <- call_blamed, queue <- call_queue,
  failed <- call_failed, session <- call_session,
  completed <- call_completed, error <- call_error

Address == INSTANCE Endpoint WITH
  Addr <- Addr, NoAddr <- NoAddr, FoundMax <- 1, TryMax <- 3, EventMax <- 2,
  SlowPc <- FALSE, pc <- addr_pc, multicast <- addr_multicast,
  invite <- addr_invite, net <- addr_net, resolver <- addr_resolver,
  attempt <- addr_attempt, linked <- addr_linked, events <- addr_events

callVars == <<
  call_stream, call_moved, call_cancelled, call_call, call_asked,
  call_skipped, call_blamed, call_queue, call_failed, call_session,
  call_completed, call_error>>

addrVars == <<
  addr_pc, addr_multicast, addr_invite, addr_net, addr_resolver,
  addr_attempt, addr_linked, addr_events>>

ASSUME PartsAssumption == Call!ClientAssumption /\ Address!EndpointAssumption

parts == <<which, vars, callVars, addrVars>>

\* The parts that do not run stay in one of their initial states.
PartsInit ==
  /\ which \in {"idle", "call", "address"}
  /\ Init
  /\ Call!Init
  /\ Address!Init
  /\ which # "address" => addr_multicast /\ addr_pc.addr = addr_invite.addr /\ addr_pc.addr = CHOOSE a \in Addr : TRUE

PartsNext ==
  \/ which = "idle" /\ Next /\ UNCHANGED <<which, callVars, addrVars>>
  \/ which = "call" /\ Call!Next
     /\ UNCHANGED <<which, vars, addrVars>>
  \/ which = "address" /\ Address!Next
     /\ UNCHANGED <<which, vars, callVars>>

PartsSpec == PartsInit /\ [][PartsNext]_parts

-----------------------------------------------------------------------------
PartsTypeOK == TypeOK /\ Call!TypeOK /\ Address!TypeOK

\* Every wake is served by a round, a service that stops gets its worker back,
\* and no round begins over the connection of a network that is gone
\* (IdleWake: WakeState, IdleWake::signal, ACTIVE_SOCKET).
WorkerServes ==
  /\ [](PartsTypeOK /\ StaleIsShut)
  /\ Fairness => WakeServed /\ StopEnds

\* One call of the native bridge: a session never begins among the frames of
\* the last one, only a Share's own error leaves it out, every other Share is
\* tried, and the call ends (ClientRound: client_round).
FailuresStayLocal ==
  /\ [](Call!CleanStart /\ Call!LossSkipsNone /\ Call!EveryShareTried)
  /\ Call!Fairness => Call!CallEnds

\* The phone gets its connection back once the network has settled
\* (Endpoint: EndpointResolver::connect, the responder).
Reconnects == Address!Fairness => Address!Reconnects

=============================================================================
