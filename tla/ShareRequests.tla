---------------------------- MODULE ShareRequests ----------------------------
(***************************************************************************)
(* Shares asked for by the phone.  The phone keeps each request, with the  *)
(* folder chosen for it, until a round brings the computer's verdict; the  *)
(* computer keeps the requests to decide (share_requests), those refused   *)
(* (rejected_requests) and, for an accepted one, the Share that carries    *)
(* its request_id.  A round is the messages Shares, Capabilities and       *)
(* ShareRequestStatus under the computer's session guard; it may be lost   *)
(* at any point, and the user of either side may act meanwhile.            *)
(***************************************************************************)
EXTENDS Naturals, FiniteSets

CONSTANT Ask  \* the requests the phone may make, each with its own request_id

VARIABLES
    phone,    \* the phone's record of each request
    bound,    \* Shares, by request, whose folder the phone has bound
    learned,  \* the verdict the phone was told
    queue,    \* share_requests of the computer
    rejected, \* rejected_requests of the computer
    share,    \* the Share made for each request
    edited,   \* Shares whose name or mode is no longer the request's
    refused,  \* history: requests the user of the computer refused
    round     \* the round in progress and what its messages carry

vars == <<phone, bound, learned, queue, rejected, share, edited, refused, round>>

Verdict == {"none", "accepted", "rejected", "cancelled"}
NoRound == [at |-> "no", offered |-> {}, pending |-> {}, cancelled |-> {},
            status |-> [r \in Ask |-> "none"]]

TypeOK ==
    /\ phone \in [Ask -> {"none", "pending", "cancelled", "gone"}]
    /\ bound \subseteq Ask /\ refused \subseteq Ask /\ edited \subseteq Ask
    /\ learned \in [Ask -> Verdict]
    /\ queue \subseteq Ask /\ rejected \subseteq Ask
    /\ share \in [Ask -> {"none", "live", "removed"}]
    /\ round \in [at : {"no", "shares", "bound", "report", "status"},
                  offered : SUBSET Ask, pending : SUBSET Ask,
                  cancelled : SUBSET Ask, status : [Ask -> Verdict]]

Init ==
    /\ phone = [r \in Ask |-> "none"] /\ bound = {}
    /\ learned = [r \in Ask |-> "none"]
    /\ queue = {} /\ rejected = {} /\ refused = {} /\ edited = {}
    /\ share = [r \in Ask |-> "none"]
    /\ round = NoRound

Live == {r \in Ask : share[r] = "live"}
Holding(state) == {r \in Ask : phone[r] = state}

-----------------------------------------------------------------------------
(* Users.                                                                  *)

Request(r) ==
    /\ phone[r] = "none"
    /\ phone' = [phone EXCEPT ![r] = "pending"]
    /\ UNCHANGED <<bound, learned, queue, rejected, share, edited, refused, round>>

\* The folder goes with the record's pending state.
Cancel(r) ==
    /\ phone[r] = "pending"
    /\ phone' = [phone EXCEPT ![r] = "cancelled"]
    /\ UNCHANGED <<bound, learned, queue, rejected, share, edited, refused, round>>

\* Mutant: the verdict is saved without waiting for the session guard.
AnyTime == TRUE

\* session_guard: no round is in progress.
SessionGuard == round.at = "no"

Accept(r) ==
    /\ SessionGuard /\ r \in queue
    /\ queue' = queue \ {r}
    /\ share' = [share EXCEPT ![r] = "live"]
    /\ UNCHANGED <<phone, bound, learned, rejected, edited, refused, round>>

Reject(r) ==
    /\ SessionGuard /\ r \in queue
    /\ queue' = queue \ {r}
    /\ rejected' = rejected \cup {r}
    /\ refused' = refused \cup {r}
    /\ UNCHANGED <<phone, bound, learned, share, edited, round>>

\* remove_share takes the configuration guard only.
RemoveShare(r) ==
    /\ share[r] = "live"
    /\ share' = [share EXCEPT ![r] = "removed"]
    /\ UNCHANGED <<phone, bound, learned, queue, rejected, edited, refused, round>>

\* edit_share and patch_share rename a Share or change its mode.
EditShare(r) ==
    /\ share[r] = "live" /\ r \notin edited
    /\ edited' = edited \cup {r}
    /\ UNCHANGED <<phone, bound, learned, queue, rejected, share, refused, round>>

-----------------------------------------------------------------------------
(* A round.                                                                *)

StartRound ==
    /\ SessionGuard
    /\ round' = [NoRound EXCEPT !.at = "shares", !.offered = Live]
    /\ UNCHANGED <<phone, bound, learned, queue, rejected, share, edited, refused>>

\* configureShares: bindings of Shares that are no longer offered go, and the
\* folder of a pending request becomes the binding of its Share.
Configure ==
    /\ round.at = "shares"
    /\ bound' = round.offered \cap (bound \cup Holding("pending"))
    /\ round' = [round EXCEPT !.at = "bound"]
    /\ UNCHANGED <<phone, learned, queue, rejected, share, edited, refused>>

\* session_state: the records as they are now, sent as Capabilities.
Report ==
    /\ round.at = "bound"
    /\ round' = [round EXCEPT !.at = "report", !.pending = Holding("pending"),
                              !.cancelled = Holding("cancelled")]
    /\ UNCHANGED <<phone, bound, learned, queue, rejected, share, edited, refused>>

\* The verdict on each request reported, from the saved configuration.
StatusOf(r) ==
    IF r \in round.cancelled THEN "cancelled"
    ELSE IF r \notin round.pending THEN "none"
    ELSE IF share[r] = "live" THEN "accepted"
    ELSE IF r \in rejected THEN "rejected"
    ELSE "none"

\* A refusal is kept for as long as the phone still asks.
Kept == (rejected \ round.cancelled) \cap round.pending

\* The Share made for a request must still have the request's name and mode:
\* otherwise the whole round fails, for every Share.
Mismatch == \E r \in Live \cap edited : r \in round.pending

RefuseRound ==
    /\ round.at = "report" /\ Mismatch
    /\ round' = NoRound
    /\ UNCHANGED <<phone, bound, learned, queue, rejected, share, edited, refused>>

\* update_runtime on the Capabilities: one saved change of the configuration.
Register ==
    /\ round.at = "report" /\ ~Mismatch
    /\ LET new == {r \in round.pending : share[r] # "live" /\ r \notin rejected}
       IN  queue' = (queue \ round.cancelled) \cup new
    /\ rejected' = Kept
    /\ round' = [round EXCEPT !.at = "status",
                              !.status = [r \in Ask |-> StatusOf(r)]]
    /\ UNCHANGED <<phone, bound, learned, share, edited, refused>>

\* acknowledgeShareRequests: a request with a verdict is forgotten.
Acknowledge ==
    /\ round.at = "status"
    /\ LET told == {r \in Ask : round.status[r] # "none"}
       IN  /\ phone' = [r \in Ask |-> IF r \in told THEN "gone" ELSE phone[r]]
           /\ learned' = [r \in Ask |->
                 IF r \in told /\ phone[r] # "gone" THEN round.status[r] ELSE learned[r]]
    /\ round' = NoRound
    /\ UNCHANGED <<bound, queue, rejected, share, edited, refused>>

\* The connection is lost or a process ends: the round is over where it was.
Lose ==
    /\ round.at # "no"
    /\ round' = NoRound
    /\ UNCHANGED <<phone, bound, learned, queue, rejected, share, edited, refused>>

Next ==
    \/ \E r \in Ask : \/ Request(r) \/ Cancel(r)
                      \/ Accept(r) \/ Reject(r) \/ RemoveShare(r) \/ EditShare(r)
    \/ StartRound \/ Configure \/ Report \/ RefuseRound \/ Register \/ Acknowledge \/ Lose

Spec == Init /\ [][Next]_vars

\* The phone keeps holding rounds, and rounds tried again and again are not
\* lost at the same point for ever.
Fairness ==
    /\ WF_vars(StartRound)
    /\ SF_vars(Configure) /\ SF_vars(Report) /\ WF_vars(RefuseRound)
    /\ SF_vars(Register) /\ SF_vars(Acknowledge)

FairSpec == Spec /\ Fairness

-----------------------------------------------------------------------------
\* The folder chosen with a request is bound to its Share before the phone
\* forgets the request: the user is not asked for it a second time.
AcceptedIsBound == \A r \in Ask :
    learned[r] = "accepted" /\ share[r] = "live" => r \in bound

\* What the user of the computer refused is not asked of them again, and
\* never becomes a Share.
RefusedForGood == \A r \in refused : r \notin queue /\ share[r] # "live"

Decided(r) == phone[r] = "pending" /\ (r \in rejected \/ share[r] = "live")
Settled(r) == phone[r] # "pending" \/ share[r] = "removed"

\* A verdict reaches the phone, however many rounds are lost on the way,
\* unless the user of the computer edits a Share the phone still asks for.
VerdictLearned == \A r \in Ask :
    Decided(r) ~> (Settled(r) \/ \E q \in Live \cap edited : phone[q] = "pending")
=============================================================================
