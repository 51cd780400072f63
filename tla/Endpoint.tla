------------------------------- MODULE Endpoint -------------------------------
(***************************************************************************)
(* How the phone finds the computer again: the computer's responder joins  *)
(* the multicast group on its current address, the phone's                 *)
(* EndpointResolver remembers the last address it authenticated, asks the  *)
(* network and falls back on the address of the invitation.                *)
(*                                                                         *)
(* A key stands for pair_id, certificate and secret.  Trying an address    *)
(* (TCP, TLS and client_auth) is one step; it succeeds at the computer's   *)
(* address, with its key, when the computer answers within the time        *)
(* allowed: "short" is 800 ms, "long" three seconds.                       *)
(***************************************************************************)
EXTENDS Naturals, Sequences, FiniteSets, SequencesExt

CONSTANTS
    Addr,      \* IPv4 addresses of the LAN
    NoAddr,
    FoundMax,  \* answers a discovery takes (8)
    TryMax,    \* addresses an attempt tries (10)
    EventMax,  \* moves of the computer, changes of network, lost connections
    SlowPc     \* the computer answers within the long time only

EndpointAssumption ==
    /\ NoAddr \notin Addr
    /\ FoundMax \in Nat /\ TryMax = FoundMax + 2
    /\ EventMax \in Nat /\ SlowPc \in BOOLEAN

VARIABLES
    pc,        \* the computer: address, key, addresses it joined the group on
    multicast, \* the LAN carries multicast
    invite,    \* the phone's invitation
    net,       \* NETWORK_GENERATION
    resolver,  \* EndpointResolver: last, generation
    attempt,   \* the connection attempt in progress
    linked,    \* the phone has its connection
    events

vars == <<pc, multicast, invite, net, resolver, attempt, linked, events>>

Gen == 0..(EventMax + 1)
NoLast == [addr |-> NoAddr, key |-> 0, gen |-> 0]
Verified == {NoLast} \cup [addr : Addr, key : Gen, gen : Gen]
NoAttempt == [at |-> "idle", gen |-> 0, invite |-> [addr |-> NoAddr, key |-> 0],
              changed |-> FALSE, left |-> <<>>]

TypeOK ==
    /\ pc \in [addr : Addr, key : Gen, joined : SUBSET Addr]
    /\ multicast \in BOOLEAN /\ linked \in BOOLEAN
    /\ invite \in [addr : Addr, key : Gen]
    /\ net \in Gen
    /\ resolver \in [last : Verified, gen : Gen]
    /\ attempt.at \in {"idle", "cache", "discover", "try", "check"}
    /\ attempt.left \in Seq(Addr) /\ Len(attempt.left) <= TryMax
    /\ events \in 0..EventMax

Init ==
    /\ \E home, published \in Addr :
          /\ pc = [addr |-> home, key |-> 0, joined |-> {}]
          /\ invite = [addr |-> published, key |-> 0]
    /\ multicast \in BOOLEAN
    /\ net = 1
    /\ resolver = [last |-> NoLast, gen |-> 0]
    /\ attempt = NoAttempt
    /\ linked = FALSE
    /\ events = 0

-----------------------------------------------------------------------------
(* The computer and the network.                                           *)

\* Mutant: the group is joined once and never again on another address.
RefreshOnce ==
    /\ pc.joined = {}
    /\ pc' = [pc EXCEPT !.joined = {pc.addr}]
    /\ UNCHANGED <<multicast, invite, net, resolver, attempt, linked, events>>

\* The responder's refresh, once a second: memberships follow the interfaces.
Refresh ==
    /\ pc.joined # {pc.addr}
    /\ pc' = [pc EXCEPT !.joined = {pc.addr}]
    /\ UNCHANGED <<multicast, invite, net, resolver, attempt, linked, events>>

Happens ==
    /\ events < EventMax
    /\ events' = events + 1

\* The responder's socket fails: it is restarted with no membership.
ResponderFails ==
    /\ pc.joined # {}
    /\ Happens
    /\ pc' = [pc EXCEPT !.joined = {}]
    /\ UNCHANGED <<multicast, invite, net, resolver, attempt, linked>>

PcMoves ==
    /\ Happens
    /\ \E a \in Addr \ {pc.addr} : pc' = [pc EXCEPT !.addr = a]
    /\ linked' = FALSE
    /\ UNCHANGED <<multicast, invite, net, resolver, attempt>>

Lost ==
    /\ linked
    /\ Happens
    /\ linked' = FALSE
    /\ UNCHANGED <<pc, multicast, invite, net, resolver, attempt>>

NetworkChanged ==
    /\ Happens
    /\ net' = net + 1
    /\ linked' = FALSE
    /\ UNCHANGED <<pc, multicast, invite, resolver, attempt>>

\* The computer gets a new identity and the phone a new invitation.
Repair ==
    /\ Happens
    /\ pc' = [pc EXCEPT !.key = @ + 1]
    /\ \E a \in Addr : invite' = [addr |-> a, key |-> pc.key + 1]
    /\ linked' = FALSE
    /\ UNCHANGED <<multicast, net, resolver, attempt>>

-----------------------------------------------------------------------------
(* EndpointResolver::connect.                                              *)

Answers(a, time) ==
    /\ a = pc.addr
    /\ attempt.invite.key = pc.key
    /\ SlowPc => time = "long"

\* An address verified under another identity is forgotten.
Kept(key) == IF resolver.last.key = key THEN resolver.last ELSE NoLast

Begin ==
    /\ ~linked /\ attempt.at = "idle"
    /\ LET last    == Kept(invite.key)
           changed == resolver.gen # net
       IN  /\ resolver' = [last |-> last, gen |-> net]
           /\ attempt' = [at |-> IF changed \/ last = NoLast THEN "discover" ELSE "cache",
                          gen |-> net, invite |-> invite, changed |-> changed, left |-> <<>>]
    /\ UNCHANGED <<pc, multicast, invite, net, linked, events>>

TryCache ==
    /\ attempt.at = "cache"
    /\ attempt' = [attempt EXCEPT !.at =
           IF Answers(resolver.last.addr, "short") THEN "check" ELSE "discover"]
    /\ UNCHANGED <<pc, multicast, invite, net, resolver, linked, events>>

\* Every address once, at its first place; TryMax of them.
Tried(addresses) ==
    LET first(i) == \A j \in 1..(i - 1) : addresses[j] # addresses[i]
        once     == [i \in DOMAIN addresses |->
                        IF first(i) THEN <<addresses[i]>> ELSE <<>>]
        distinct == FlattenSeq(once)
    IN  SubSeq(distinct, 1, IF Len(distinct) < TryMax THEN Len(distinct) ELSE TryMax)

\* Candidates in order: answers, the cached address of another network, the
\* address of the invitation.
Candidates(found) ==
    found \o (IF attempt.changed /\ resolver.last # NoLast
              THEN <<resolver.last.addr>> ELSE <<>>)
          \o <<attempt.invite.addr>>

Discover(found) ==
    /\ attempt.at = "discover"
    /\ attempt' = [attempt EXCEPT !.at = "try", !.left = Tried(Candidates(found))]
    /\ UNCHANGED <<pc, multicast, invite, net, resolver, linked, events>>

\* The answers that name this identity: the computer's, if its responder hears
\* the question, and those of other addresses, in any order.
Heard == multicast /\ pc.addr \in pc.joined
Replies == {found \in UNION {[1..n -> Addr] : n \in 0..FoundMax} :
              /\ IsInjective(found)
              /\ ~Heard => \A i \in DOMAIN found : found[i] # pc.addr}

FindsPc == \E found \in Replies :
    /\ \E i \in DOMAIN found : found[i] = pc.addr
    /\ Discover(found)

\* The address verified under this generation gets the short time.
Time(a) == IF resolver.last.gen = attempt.gen /\ resolver.last.addr = a
           THEN "short" ELSE "long"

TryNext ==
    /\ attempt.at = "try"
    /\ IF attempt.left = <<>>
       THEN attempt' = NoAttempt /\ UNCHANGED resolver
       ELSE LET a == Head(attempt.left)
            IN  IF Answers(a, Time(a))
                THEN /\ attempt' = [attempt EXCEPT !.at = "check"]
                     /\ resolver' = [resolver EXCEPT !.last =
                           [addr |-> a, key |-> attempt.invite.key, gen |-> attempt.gen]]
                ELSE /\ attempt' = [attempt EXCEPT !.left = Tail(@)]
                     /\ UNCHANGED resolver
    /\ UNCHANGED <<pc, multicast, invite, net, linked, events>>

\* The generation is compared again before and after the connection is kept.
Check ==
    /\ attempt.at = "check"
    /\ linked' = (attempt.gen = net /\ attempt.invite = invite)
    /\ attempt' = NoAttempt
    /\ UNCHANGED <<pc, multicast, invite, net, resolver, events>>

Attempt ==
    \/ Begin \/ TryCache \/ TryNext \/ Check
    \/ \E found \in Replies : Discover(found)

Next ==
    \/ Refresh \/ Attempt
    \/ ResponderFails \/ PcMoves \/ Lost \/ NetworkChanged \/ Repair

Spec == Init /\ [][Next]_vars

\* The responder and the phone's worker keep running, and multicast, where the
\* LAN carries it, does not lose every question or every answer for ever.
Fairness ==
    /\ WF_vars(Refresh)
    /\ WF_vars(Attempt)
    /\ SF_vars(FindsPc)

FairSpec == Spec /\ Fairness

-----------------------------------------------------------------------------
\* The phone gets its connection back, by multicast or by the invitation's
\* address, once the network has settled.
Reachable == multicast \/ invite.addr = pc.addr

Reconnects == Reachable ~> (linked \/ ~Reachable)
=============================================================================
