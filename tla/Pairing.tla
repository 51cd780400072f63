------------------------------ MODULE Pairing -------------------------------
(***************************************************************************)
(* Pairing, authentication and revocation between the computer and phones: *)
(* the pairing mode kept by the process (PairingState: open, the pending   *)
(* request, the user's decision), the identity the configuration holds     *)
(* (pair_id with its certificate and secret, and peer_device), one session *)
(* thread per accepted connection, and each phone's stored invitation.     *)
(*                                                                         *)
(* A pair_id, its certificate and its secret always change together, so    *)
(* one number stands for the three; TLS pinning and the HMAC exchange      *)
(* succeed exactly when both sides hold the same number.  A phone has one  *)
(* connection at a time and reconnects after the computer's thread for the *)
(* old one has ended.                                                      *)
(***************************************************************************)
EXTENDS Naturals

CONSTANTS
    Phone,
    IdMax,       \* identities the configuration may go through
    EventMax     \* pairing requests, lost connections, restarts of the computer
                 \* and unlinks by a phone, together

ASSUME PairingAssumption ==
    /\ "none" \notin Phone
    /\ IdMax \in Nat \ {0}
    /\ EventMax \in Nat

VARIABLES
    config,   \* DeviceConfig: id (pair_id, cert, secret) and peer
    mode,     \* PairingState: open (until), pending, decision
    shown,    \* the pending request the user of the computer looks at
    session,  \* the computer's thread for each phone's connection
    phone,    \* each phone: invitation, unlink to report, what it does
    active,   \* the socket promoted by the last authenticated session
    consent,  \* history: phones its user agreed to under this identity
    events    \* requests and disturbances so far

vars == <<config, mode, shown, session, phone, active, consent, events>>

Id == 1..IdMax
NoId == 0
NoPhone == "none"
NoRequest == [by |-> NoPhone, n |-> 0]
Request == {NoRequest} \cup [by : Phone, n : 1..EventMax]

\* Session thread: "first" a first message is awaited, "wait" the decision,
\* "auth" the proof, "promote" it sent Ready, "idle" between rounds, "shares"
\* Shares were sent.  `whole` is FALSE once the phone's end is gone.
Thread == [at : {"none", "first", "wait", "auth", "promote", "idle", "shares"},
           id : Id \cup {NoId}, request : Request, whole : BOOLEAN]
NoThread == [at |-> "none", id |-> NoId, request |-> NoRequest, whole |-> FALSE]

\* What the phone does on its connection.
Activity == {"off", "joining", "linked"}
Purpose == {"none", "pair", "sync", "revoke"}

TypeOK ==
    /\ config \in [id : Id, peer : Phone \cup {NoPhone}]
    /\ mode \in [open : BOOLEAN, pending : Request, decision : {"none", "yes", "no"}]
    /\ shown \in Request
    /\ session \in [Phone -> Thread]
    /\ phone \in [Phone -> [invite : Id \cup {NoId},
                            revoke : Id \cup {NoId}, at : Activity, why : Purpose]]
    /\ active \in Phone \cup {NoPhone}
    /\ consent \subseteq Phone
    /\ events \in 0..EventMax

Init ==
    /\ config = [id |-> 1, peer |-> NoPhone]
    /\ mode = [open |-> FALSE, pending |-> NoRequest, decision |-> "none"]
    /\ shown = NoRequest
    /\ session = [p \in Phone |-> NoThread]
    /\ phone = [p \in Phone |-> [invite |-> NoId, revoke |-> NoId,
                                 at |-> "off", why |-> "none"]]
    /\ active = NoPhone
    /\ consent = {}
    /\ events = 0

-----------------------------------------------------------------------------
(* The user of the computer.                                               *)

\* session_guard is held by a round.
InRound == \E p \in Phone : session[p].at = "shares"

OpenMode ==
    /\ config.peer = NoPhone
    /\ ~mode.open
    /\ mode' = [mode EXCEPT !.open = TRUE]
    /\ UNCHANGED <<config, shown, session, phone, active, consent, events>>

CloseMode ==
    /\ mode.open
    /\ mode' = [mode EXCEPT !.open = FALSE, !.decision = "no"]
    /\ UNCHANGED <<config, shown, session, phone, active, consent, events>>

\* The two minutes pass.
ExpireMode ==
    /\ mode.open
    /\ mode' = [mode EXCEPT !.open = FALSE]
    /\ UNCHANGED <<config, shown, session, phone, active, consent, events>>

Show ==
    /\ shown # mode.pending
    /\ shown' = mode.pending
    /\ UNCHANGED <<config, mode, session, phone, active, consent, events>>

\* decide_pairing: the decision is taken for the request on the screen.
Answers == mode.open /\ mode.pending = shown /\ shown # NoRequest

Decide(accept) ==
    /\ Answers
    /\ mode' = [mode EXCEPT !.decision = IF accept THEN "yes" ELSE "no"]
    /\ consent' = IF /\ accept
                     /\ session[shown.by].id = config.id
                  THEN consent \cup {shown.by}
                  ELSE consent
    /\ UNCHANGED <<config, shown, session, phone, active, events>>

\* The invitation is shown as a QR code or a file and read by the phone.
Invite(p) ==
    /\ phone[p].invite = NoId /\ phone[p].at = "off"
    /\ phone' = [phone EXCEPT ![p].invite = config.id]
    /\ consent' = consent \cup {p}
    /\ UNCHANGED <<config, mode, shown, session, active, events>>

\* revoke_device_unlocked: a new identity, and nobody is the peer.
Revoked == [id |-> config.id + 1, peer |-> NoPhone]

Unlink ==
    /\ ~InRound
    /\ config.id < IdMax
    /\ config' = Revoked /\ consent' = {}
    /\ UNCHANGED <<mode, shown, session, phone, active, events>>

\* The process of the computer restarts; only the configuration survives.
Restart ==
    /\ \E p \in Phone : session[p].at # "none"
    /\ events < EventMax
    /\ events' = events + 1
    /\ mode' = [open |-> FALSE, pending |-> NoRequest, decision |-> "none"]
    /\ shown' = NoRequest
    /\ session' = [p \in Phone |-> NoThread]
    /\ phone' = [p \in Phone |->
                    [phone[p] EXCEPT !.at = "off", !.why = "none",
                        !.revoke = IF phone[p].why = "revoke" THEN NoId ELSE @]]
    /\ active' = NoPhone
    /\ UNCHANGED <<config, consent>>

-----------------------------------------------------------------------------
(* The phone.                                                              *)

\* The phone lets go of its connection (an error, a timeout, a completed task).
HangUp(p) == [phone EXCEPT ![p].at = "off", ![p].why = "none",
                           ![p].revoke = IF phone[p].why = "revoke" THEN NoId ELSE @]
Cut(p) == [session EXCEPT ![p].whole = FALSE]

Opened(p) == [session EXCEPT ![p] =
    [at |-> "first", id |-> config.id, request |-> NoRequest, whole |-> TRUE]]

\* An Announce or an Offer reaches the phone while the mode is advertised, and
\* the phone connects with the certificate it names and sends PairRequest.
Begin(p) ==
    /\ mode.open /\ mode.pending = NoRequest /\ config.peer = NoPhone
    /\ phone[p].invite = NoId /\ phone[p].at = "off" /\ session[p].at = "none"
    /\ events < EventMax
    /\ events' = events + 1
    /\ session' = [Opened(p) EXCEPT ![p].request = [by |-> p, n |-> events + 1]]
    /\ phone' = [phone EXCEPT ![p].at = "joining", ![p].why = "pair"]
    /\ UNCHANGED <<config, mode, shown, active, consent>>

\* The service, or the thread that tells the computer of an unlink, connects
\* with the certificate of its invitation and begins the authentication.
Connect(p, why) ==
    /\ phone[p].at = "off" /\ session[p].at = "none"
    /\ LET id == IF why = "revoke" THEN phone[p].revoke ELSE phone[p].invite
       IN  id # NoId /\ id = config.id
    /\ why = "sync" => phone[p].revoke = NoId
    /\ session' = [Opened(p) EXCEPT ![p].at = "auth"]
    /\ phone' = [phone EXCEPT ![p].at = "joining", ![p].why = why]
    /\ UNCHANGED <<config, mode, shown, active, consent, events>>

\* Ready arrives.  A finished pairing is stored and its connection dropped.
Ready(p) ==
    /\ phone[p].at = "joining" /\ session[p].whole
    /\ session[p].at \in {"promote", "idle"}
    /\ IF phone[p].why = "pair"
       THEN /\ phone' = [HangUp(p) EXCEPT ![p].invite = session[p].id]
            /\ session' = Cut(p)
       ELSE /\ phone' = [phone EXCEPT ![p].at = "linked"]
            /\ UNCHANGED session
    /\ UNCHANGED <<config, mode, shown, active, consent, events>>

\* The service asks for a round once it is connected.  revokeRemotePairing
\* never does: it waits for the Shares as soon as it is authenticated.
AsksRound(p) == phone[p].at = "linked" /\ phone[p].why = "sync"

\* The user unlinks the phone: the invitation goes at once, and a thread is
\* left to tell the computer.
UnlinkPhone(p) ==
    /\ phone[p].invite # NoId
    /\ events < EventMax
    /\ events' = events + 1
    /\ phone' = [HangUp(p) EXCEPT ![p].revoke = phone[p].invite, ![p].invite = NoId]
    /\ session' = Cut(p)
    /\ UNCHANGED <<config, mode, shown, active, consent>>

\* The connection is lost, or the phone's process ends.
Drop(p) ==
    /\ phone[p].at # "off"
    /\ events < EventMax
    /\ events' = events + 1
    /\ phone' = HangUp(p)
    /\ session' = Cut(p)
    /\ UNCHANGED <<config, mode, shown, active, consent>>

\* The computer ended the session, or five seconds passed without Shares.
GiveUp(p) ==
    /\ phone[p].at # "off"
    /\ \/ session[p].at = "none"
       \/ ~session[p].whole
       \/ phone[p].why = "revoke" /\ phone[p].at = "linked" /\ session[p].at = "idle"
    /\ phone' = HangUp(p)
    /\ session' = Cut(p)
    /\ UNCHANGED <<config, mode, shown, active, consent, events>>

\* The computer no longer answers to the certificate of the unlinked phone.
Unreachable(p) ==
    /\ phone[p].at = "off" /\ phone[p].revoke \notin {NoId, config.id}
    /\ phone' = [phone EXCEPT ![p].revoke = NoId]
    /\ UNCHANGED <<config, mode, shown, session, active, consent, events>>

-----------------------------------------------------------------------------
(* The session threads of the computer.                                    *)

Ended(p) ==
    /\ session' = [session EXCEPT ![p] = NoThread]
    /\ active' = IF active = p THEN NoPhone ELSE active

\* Mutant: a decision nobody took in time is left for the next request.
PendStale(p) == [mode EXCEPT !.pending = session[p].request]

\* PairRequest: it becomes the pending request, or it is rejected.  The
\* decision left by an earlier request is forgotten.
Pend(p) == [mode EXCEPT !.pending = session[p].request, !.decision = "none"]

Ask(p) ==
    /\ session[p].at = "first"
    /\ IF config.peer = NoPhone /\ mode.open /\ mode.pending = NoRequest
       THEN /\ mode' = Pend(p)
            /\ session' = [session EXCEPT ![p].at = "wait"]
            /\ UNCHANGED active
       ELSE /\ Ended(p)
            /\ UNCHANGED mode
    /\ UNCHANGED <<config, shown, phone, consent, events>>

\* PairPending cannot be sent: the error path takes its own request back.
TakenBack(p) == IF mode.pending = session[p].request THEN NoRequest ELSE mode.pending

AskFails(p) ==
    /\ session[p].at = "wait" /\ ~session[p].whole
    /\ mode' = [mode EXCEPT !.pending = TakenBack(p)]
    /\ Ended(p)
    /\ UNCHANGED <<config, shown, phone, consent, events>>

\* The wait ends: the mode closed or the minute passed, or a decision is there.
\* A decision is consumed only when it is what ended the wait.
Settle(p) ==
    /\ session[p].at = "wait"
    /\ \E late \in BOOLEAN :
          /\ ~late => mode.decision # "none"
          /\ LET closed   == ~mode.open \/ late
                 accepted == ~closed /\ mode.decision = "yes"
             IN  /\ mode' = [mode EXCEPT !.pending = NoRequest,
                               !.decision = IF closed THEN @ ELSE "none"]
                 /\ IF accepted /\ config.peer = NoPhone
                    THEN /\ session' = [session EXCEPT ![p].at = "auth"]
                         /\ UNCHANGED active
                    ELSE Ended(p)
    /\ UNCHANGED <<config, shown, phone, consent, events>>

\* The invitation of PairAccepted, or the stored one, holds the secret of this
\* identity: server_auth verifies the proof and sends Ready.
Authenticate(p) ==
    /\ session[p].at = "auth" /\ session[p].whole
    /\ session' = [session EXCEPT ![p].at = "promote"]
    /\ UNCHANGED <<config, mode, shown, phone, active, consent, events>>

\* Mutant: only a phone that is already the peer is let in.
MayPairKnown(p) == config = [id |-> session[p].id, peer |-> p]

\* Under the configuration guard: the identity the session began with is still
\* the one of the configuration, and no other phone is the peer.
MayPair(p) ==
    /\ config.id = session[p].id
    /\ config.peer \in {NoPhone, p}

Promote(p) ==
    /\ session[p].at = "promote"
    /\ IF MayPair(p)
       THEN /\ config' = [config EXCEPT !.peer = p]
            /\ active' = p
            /\ session' = [q \in Phone |->
                  IF q = p THEN [session[q] EXCEPT !.at = "idle"]
                  ELSE IF q = active THEN [session[q] EXCEPT !.whole = FALSE]
                  ELSE session[q]]
       ELSE Ended(p) /\ UNCHANGED config
    /\ UNCHANGED <<mode, shown, phone, consent, events>>

\* session_round: under the session guard the identity and the peer are
\* compared again before the Shares are sent.
Round(p) ==
    /\ session[p].at = "idle" /\ session[p].whole /\ AsksRound(p)
    /\ ~InRound
    /\ IF config = [id |-> session[p].id, peer |-> p]
       THEN /\ session' = [session EXCEPT ![p].at = "shares"]
            /\ UNCHANGED active
       ELSE Ended(p)
    /\ UNCHANGED <<config, mode, shown, phone, consent, events>>

\* The Capabilities the phone answers with arrive: the rest of the round, or the revocation they ask for.
EndRound(p) ==
    /\ session[p].at = "shares" /\ session[p].whole
    /\ phone[p].why = "revoke" => config.id < IdMax
    /\ config' = IF phone[p].why = "revoke" THEN Revoked ELSE config
    /\ consent' = IF phone[p].why = "revoke" THEN {} ELSE consent
    /\ session' = [session EXCEPT ![p].at = "idle"]
    /\ UNCHANGED <<mode, shown, phone, active, events>>

\* The thread notices that the phone's end is gone.
End(p) ==
    /\ session[p].at \in {"first", "auth", "idle", "shares"} /\ ~session[p].whole
    /\ Ended(p)
    /\ UNCHANGED <<config, mode, shown, phone, consent, events>>

-----------------------------------------------------------------------------
ThreadStep(p) ==
    \/ Ask(p) \/ AskFails(p) \/ Settle(p) \/ Authenticate(p)
    \/ Promote(p) \/ Round(p) \/ EndRound(p) \/ End(p)

PhoneStep(p) ==
    \/ Connect(p, "sync") \/ Connect(p, "revoke")
    \/ Ready(p) \/ GiveUp(p) \/ Unreachable(p)

UserStep ==
    \/ OpenMode \/ CloseMode \/ ExpireMode \/ Show \/ Unlink \/ Restart
    \/ \E accept \in BOOLEAN : Decide(accept)
    \/ \E p \in Phone : Invite(p) \/ Begin(p) \/ UnlinkPhone(p) \/ Drop(p)

Next == UserStep \/ \E p \in Phone : ThreadStep(p) \/ PhoneStep(p)

Spec == Init /\ [][Next]_vars

\* Threads and the phone's own code keep running; users owe nothing.
Fairness ==
    \A p \in Phone :
        /\ WF_vars(ThreadStep(p))
        /\ WF_vars(PhoneStep(p))
        /\ SF_vars(Promote(p))

FairSpec == Spec /\ Fairness

-----------------------------------------------------------------------------
\* The phone the computer obeys is one its user agreed to, by the code of that
\* very request or by an invitation, since the identity was last renewed.
PeerConsented == config.peer # NoPhone => config.peer \in consent

\* A pairing request never stays in the way of the next one.
RequestEnds == mode.pending # NoRequest ~> mode.pending = NoRequest

\* A phone that holds the invitation of a computer without a peer is paired
\* in the end, whatever the pairing that gave it the invitation came to.
HalfPaired == config.peer = NoPhone /\ \E p \in Phone : phone[p].invite = config.id

HalfPairHeals == HalfPaired ~> ~HalfPaired

\* A phone that its user unlinked tells the computer, which forgets it.
UnlinkReaches == \A p \in Phone :
    (phone[p].revoke = config.id /\ config.peer = p /\ config.id < IdMax)
        ~> config.peer # p
=============================================================================
