----------------------------- MODULE ClientRound -----------------------------
(***************************************************************************)
(* One call of NativeBridge.sync: the phone's connection, kept from call   *)
(* to call, the rounds run on it, and what becomes of connection, Share    *)
(* and hints when a round fails.                                           *)
(*                                                                         *)
(* stream is the truth about the connection: "clean" when the next frame   *)
(* begins a session, "mid" while a session's frames are owed on it, "cut"  *)
(* when it is lost.  The code never sees it: it judges by the error it     *)
(* got.  The computer's part is what it may answer at each point; a visit  *)
(* of a Share is one step (module SyncRound), the order of the visits is   *)
(* module Schedule's subject.                                              *)
(***************************************************************************)
EXTENDS FiniteSets

CONSTANTS Share, None

ClientAssumption == None \notin Share

VARIABLES
    stream,     \* "none", "clean", "mid" or "cut"
    moved,      \* CONNECTION_GENERATION # NETWORK_GENERATION
    cancelled,  \* CANCELLED
    call,       \* where the call is
    asked,      \* the Shares it is for
    skipped,    \* Shares that failed in it
    blamed,     \* ghost: Shares whose own visit met an error, not a lost connection
    queue,      \* the Shares of the session's Capabilities still to visit
    failed,     \* the Share being visited
    session,    \* errors, scan_errors, pending wakes and deferral of the session, and
                \* whether the computer narrowed it to a Share requested by hand
    completed,  \* completed_shares
    error       \* the error being judged

round == <<queue, failed, session>>
vars == <<stream, moved, cancelled, call, asked, skipped, blamed, round, completed, error>>

Raw == {"connect", "lost", "timeout", "remote", "remoteTransport", "remoteProtocol", "local",
        "cancelled", "unexpected", "shares", "generation"}
Kind == {"transport", "protocol", "share", "filesystem", "cancelled", "generation"}
NoError == [raw |-> "shares", reusable |-> TRUE, inRound |-> FALSE]
NewSession == [errors |-> {}, scan |-> {}, wakes |-> {}, deferred |-> FALSE,
               narrowed |-> FALSE]

TypeOK ==
    /\ stream \in {"none", "clean", "mid", "cut"}
    /\ moved \in BOOLEAN /\ cancelled \in BOOLEAN
    /\ call \in {"idle", "connect", "start", "shares", "loop", "visit", "judge", "ended", "failed"}
    /\ asked \subseteq Share /\ skipped \subseteq Share /\ blamed \subseteq Share
    /\ queue \subseteq Share /\ failed \in Share \cup {None}
    /\ session \in [errors : SUBSET Share, scan : SUBSET Share, wakes : SUBSET Share,
                    deferred : BOOLEAN, narrowed : BOOLEAN]
    /\ completed \subseteq Share
    /\ error \in [raw : Raw, reusable : BOOLEAN, inRound : BOOLEAN]

Init ==
    /\ stream = "none" /\ moved = FALSE /\ cancelled = FALSE
    /\ call = "idle" /\ asked = {} /\ skipped = {} /\ blamed = {}
    /\ queue = {} /\ failed = None /\ session = NewSession
    /\ completed = {} /\ error = NoError

-----------------------------------------------------------------------------
(* Around the call: the user, the network.                                 *)

Cancel ==
    /\ ~cancelled /\ cancelled' = TRUE
    /\ UNCHANGED <<stream, moved, call, asked, skipped, blamed, round, completed, error>>

\* networkChanged also shuts the socket down.
NetworkChanged ==
    /\ stream # "none" /\ ~moved
    /\ moved' = TRUE /\ stream' = "cut"
    /\ UNCHANGED <<cancelled, call, asked, skipped, blamed, round, completed, error>>

\* The connection is lost; the phone notices when it next uses it.
Cut ==
    /\ stream \in {"clean", "mid"}
    /\ stream' = "cut"
    /\ UNCHANGED <<moved, cancelled, call, asked, skipped, blamed, round, completed, error>>

Call(shares) ==
    /\ call \in {"idle", "ended", "failed"}
    /\ asked' = shares /\ skipped' = {} /\ blamed' = {} /\ completed' = {}
    /\ cancelled' = FALSE
    /\ stream' = IF moved THEN "none" ELSE stream
    /\ moved' = FALSE
    /\ call' = IF stream' = "none" THEN "connect" ELSE "start"
    /\ queue' = {} /\ failed' = None /\ session' = NewSession /\ error' = NoError

Connect ==
    /\ call = "connect"
    /\ stream' = "clean" /\ moved' = FALSE
    /\ call' = "start"
    /\ UNCHANGED <<cancelled, asked, skipped, blamed, round, completed, error>>

-----------------------------------------------------------------------------
(* client_round_session.                                                   *)

Start ==
    /\ call = "start"
    /\ stream' = IF stream = "cut" THEN "cut" ELSE "mid"
    /\ call' = "shares"
    /\ queue' = {} /\ failed' = None /\ session' = NewSession
    /\ UNCHANGED <<moved, cancelled, asked, skipped, blamed, completed, error>>

\* Shares, Capabilities and ShareRequestStatus; wakes may come before the Shares.
Negotiate(wakes) ==
    /\ call = "shares" /\ stream = "mid"
    /\ queue' = asked \ skipped
    /\ session' = [session EXCEPT !.wakes = wakes]
    /\ call' = "loop"
    /\ UNCHANGED <<stream, moved, cancelled, asked, skipped, blamed, failed, completed, error>>

ShareSkipped(s) ==
    /\ call = "loop" /\ stream = "mid" /\ s \in queue
    /\ queue' = queue \ {s}
    /\ session' = [session EXCEPT !.errors = @ \cup {s}]
    /\ UNCHANGED <<stream, moved, cancelled, call, asked, skipped, blamed, failed, completed, error>>

SelectShare(s) ==
    /\ call = "loop" /\ stream = "mid" /\ s \in queue
    /\ queue' = queue \ {s}
    /\ failed' = s
    /\ call' = "visit"
    /\ UNCHANGED <<stream, moved, cancelled, asked, skipped, blamed, session, completed, error>>

\* respond_share returns: completed, or its scan deferred - by the phone whose
\* folder cannot be read, or by either side for a change.
Respond(outcome) ==
    /\ call = "visit" /\ stream = "mid"
    /\ completed' = IF outcome = "done" THEN completed \cup {failed} ELSE completed
    /\ session' = IF outcome = "unreadable"
                  THEN [session EXCEPT !.scan = @ \cup {failed}, !.deferred = TRUE]
                  ELSE [session EXCEPT !.deferred = @ \/ outcome = "deferred"]
    /\ failed' = None
    /\ call' = "loop"
    /\ UNCHANGED <<stream, moved, cancelled, asked, skipped, blamed, queue, error>>

Fails(e) == call' = "judge" /\ error' = e

Whole(raw) == [raw |-> raw, reusable |-> TRUE, inRound |-> TRUE]
Broken(raw) == [raw |-> raw, reusable |-> FALSE, inRound |-> TRUE]

\* SessionDone or RoundDeferred: the session is complete.  Shares that were
\* skipped, a cancellation or a folder that could not be read still fail it.
EndSession(wakes, narrowed) ==
    /\ call = "loop" /\ stream = "mid"
    /\ queue = {} \/ session.deferred \/ wakes # {} \/ narrowed
    /\ stream' = "clean"
    /\ session' = [session EXCEPT !.wakes = @ \cup wakes, !.deferred = @ \/ wakes # {},
                                !.narrowed = narrowed]
    /\ queue' = {}
    /\ CASE session.errors # {} -> Fails(Whole("shares"))
         [] session.errors = {} /\ cancelled -> Fails(Whole("cancelled"))
         [] session.errors = {} /\ ~cancelled /\ session.scan # {} -> Fails(Whole("local"))
         [] OTHER -> call' = "ended" /\ UNCHANGED error
    /\ UNCHANGED <<moved, cancelled, asked, skipped, blamed, failed, completed>>

\* The session ends unfinished: the stream is lost or silent, an answer makes
\* no sense, the computer reports an error, the phone meets one of its own.
Breaks(raw) ==
    /\ call \in {"shares", "loop", "visit"}
    /\ raw = "lost" => stream = "cut"
    /\ stream = "cut" => raw \in {"lost", "local", "cancelled"}
    /\ raw = "local" => call = "visit"
    /\ raw = "cancelled" => cancelled /\ call = "visit"
    /\ blamed' = IF raw = "lost" \/ failed = None THEN blamed ELSE blamed \cup {failed}
    /\ Fails(Broken(raw))
    /\ UNCHANGED <<stream, moved, cancelled, asked, skipped, round, completed>>

ConnectFails ==
    /\ call = "connect"
    /\ Fails([raw |-> "connect", reusable |-> TRUE, inRound |-> FALSE])
    /\ UNCHANGED <<stream, moved, cancelled, asked, skipped, blamed, round, completed>>

-----------------------------------------------------------------------------
(* What the error means.                                                   *)

Classify(e, generationChanged) ==
    CASE generationChanged -> "generation"
      [] ~generationChanged /\ e.raw \in {"connect", "lost", "remoteTransport"} -> "transport"
      [] ~generationChanged /\ e.raw = "remoteProtocol" -> "protocol"
      [] ~generationChanged /\ e.raw = "remote" -> "share"
      [] OTHER -> IF e.inRound /\ ~e.reusable THEN "protocol"
                  ELSE IF cancelled \/ e.raw = "cancelled" THEN "cancelled"
                  ELSE IF e.raw = "local" THEN "filesystem" ELSE "share"

Invalidates(kind) == kind \in {"transport", "protocol", "generation"}

RequiresReconnect(e, kind) == Invalidates(kind) \/ (e.inRound /\ ~e.reusable)

Kept(e, kind) == IF RequiresReconnect(e, kind) THEN "none" ELSE stream

\* A connection that is lost ends the call: its Shares are tried again as they are.
EndsCall(kind) == kind \in {"transport", "generation"}

\* Mutant: what was left is not tried.
SkipRest(s) == skipped \cup {s} \cup queue

SkippedWith(s) == skipped \cup {s}

\* The generation is compared first: a round of another network says nothing.
Judge ==
    /\ call = "judge"
    /\ IF moved
       THEN /\ stream' = "none" /\ call' = "failed"
            /\ error' = [raw |-> "generation", reusable |-> TRUE, inRound |-> FALSE]
            /\ UNCHANGED skipped
       ELSE LET kind == Classify(error, FALSE)
            IN  /\ stream' = Kept(error, kind)
                /\ IF EndsCall(kind) \/ failed = None \/ failed \in skipped
                   THEN call' = "failed" /\ UNCHANGED skipped
                   ELSE /\ skipped' = SkippedWith(failed)
                        /\ call' = IF stream' = "none" THEN "connect" ELSE "start"
                /\ UNCHANGED error
    /\ moved' = (moved /\ stream' # "none")
    /\ UNCHANGED <<cancelled, asked, blamed, round, completed>>

\* A round that succeeded after another failed: the call fails all the same.
Report ==
    /\ call = "ended" /\ (moved \/ skipped # {})
    /\ error' = [raw |-> IF moved THEN "generation" ELSE "shares", reusable |-> TRUE,
                 inRound |-> FALSE]
    /\ stream' = IF moved THEN "none" ELSE stream
    /\ moved' = FALSE
    /\ call' = "failed"
    /\ UNCHANGED <<cancelled, asked, skipped, blamed, round, completed>>

-----------------------------------------------------------------------------
Round ==
    \/ Connect \/ Start \/ Judge \/ Report \/ ConnectFails
    \/ \E wakes \in SUBSET Share :
          Negotiate(wakes) \/ \E narrowed \in BOOLEAN : EndSession(wakes, narrowed)
    \/ \E s \in Share : ShareSkipped(s) \/ SelectShare(s)
    \/ \E outcome \in {"done", "deferred", "unreadable"} : Respond(outcome)
    \/ \E raw \in Raw \ {"connect", "shares", "generation"} : Breaks(raw)

Next ==
    \/ Cancel \/ NetworkChanged \/ Cut
    \/ \E shares \in (SUBSET Share) \ {{}} : Call(shares)
    \/ Round

Spec == Init /\ [][Next]_vars

\* Sockets have timeouts: a session goes on or breaks.
Fairness == WF_vars(Round)

FairSpec == Spec /\ Fairness

-----------------------------------------------------------------------------
\* StartRound is never sent where frames of an unfinished session are owed.
CleanStart == call = "start" => stream \in {"clean", "cut"}

\* A Share is left out of a pass for an error its own visit met, never for a
\* connection that was lost under it.
LossSkipsNone == skipped \subseteq blamed

\* A call whose last session was complete has tried every Share it was for,
\* whatever the others did, unless the round was deferred or narrowed.
Complete == /\ call \in {"ended", "failed"} /\ stream = "clean"
            /\ error.raw \notin {"connect", "generation"}
            /\ ~session.deferred /\ ~session.narrowed

EveryShareTried == Complete => asked \subseteq completed \cup blamed \cup session.errors

\* A call ends, however many of its Shares fail.
CallEnds == call = "connect" ~> call \in {"ended", "failed"}
=============================================================================
