--------------------------- MODULE ComputerProofs ----------------------------
(***************************************************************************)
(* Proofs about the computer: it obeys only a phone its user agreed to,    *)
(* for any number of phones, identities and pairing requests (Pairing);    *)
(* its commands are told the truth, for any number of processes, commands, *)
(* lines and kills (DaemonControl), where the inductive invariant ties     *)
(* each request to the command that sent it and to a listening daemon,     *)
(* each listening daemon to lock and path, and the lines of a follower to  *)
(* the lines written; and the hashes a scan reports are those of the       *)
(* content, for any number of paths, inodes and contents (ScanCache). The  *)
(* last part takes the watcher, the rounds and the configuration from      *)
(* their own proofs and says of all parts together what Computer states.   *)
(***************************************************************************)
EXTENDS Computer, TLAPS, SequenceTheorems

-----------------------------------------------------------------------------
\* No invitation or session is of an identity to come.
Past ==
  \A p \in Phone : phone[p].invite <= config.id /\ phone[p].revoke <= config.id
                   /\ session[p].id <= config.id

\* Who holds the invitation of the present identity was given it.
Invited ==
  \A p \in Phone : config.id \in {phone[p].invite, phone[p].revoke} => p \in consent

\* A thread past the decision serves a phone that was agreed to.
Trusted ==
  \A p \in Phone :
    session[p].at \in {"auth", "promote", "idle", "shares"} /\ session[p].id = config.id
      => p \in consent

\* The one thread that waits for a decision waits for that on its request.
Waiting ==
  /\ \A p \in Phone : session[p].at \in {"first", "wait"} => session[p].request.by = p
  /\ \A p \in Phone : session[p].at = "wait" => mode.pending = session[p].request
  /\ \A p \in Phone :
       session[p].at = "wait" /\ mode.decision = "yes" /\ session[p].id = config.id
         => p \in consent

PInv == TypeOK /\ Past /\ Invited /\ Trusted /\ Waiting /\ PeerConsented

-----------------------------------------------------------------------------
LEMMA NoThreadOK == NoThread \in Thread
BY DEF NoThread, Thread, NoId, Request

LEMMA MoveOK ==
  ASSUME session \in [Phone -> Thread], NEW p \in Phone,
         NEW at \in {"none", "first", "wait", "auth", "promote", "idle", "shares"}
  PROVE  [session EXCEPT ![p].at = at] \in [Phone -> Thread]
<1>1. [session[p] EXCEPT !.at = at] \in Thread
  BY DEF Thread
<1>2. [session EXCEPT ![p].at = at] = [session EXCEPT ![p] = [session[p] EXCEPT !.at = at]]
  OBVIOUS
<1> QED
  BY <1>1, <1>2

LEMMA CutOK ==
  ASSUME session \in [Phone -> Thread], NEW p \in Phone
  PROVE  Cut(p) \in [Phone -> Thread]
<1>1. [session[p] EXCEPT !.whole = FALSE] \in Thread
  BY DEF Thread
<1>2. Cut(p) = [session EXCEPT ![p] = [session[p] EXCEPT !.whole = FALSE]]
  BY DEF Cut
<1> QED
  BY <1>1, <1>2

LEMMA RequestOK ==
  ASSUME NEW f \in [Phone -> Thread], NEW p \in Phone, NEW r \in Request
  PROVE  [f EXCEPT ![p].request = r] \in [Phone -> Thread]
<1>1. [f[p] EXCEPT !.request = r] \in Thread
  BY DEF Thread
<1>2. [f EXCEPT ![p].request = r] = [f EXCEPT ![p] = [f[p] EXCEPT !.request = r]]
  OBVIOUS
<1> QED
  BY <1>1, <1>2

Holder == [invite : Id \cup {NoId}, revoke : Id \cup {NoId}, at : Activity, why : Purpose]

LEMMA StartOK ==
  ASSUME phone \in [Phone -> Holder], NEW p \in Phone, NEW at \in Activity,
         NEW why \in Purpose
  PROVE  [phone EXCEPT ![p].at = at, ![p].why = why] \in [Phone -> Holder]
<1>1. [phone[p] EXCEPT !.at = at, !.why = why] \in Holder
  BY DEF Holder
<1>2. [phone EXCEPT ![p].at = at, ![p].why = why]
        = [phone EXCEPT ![p] = [phone[p] EXCEPT !.at = at, !.why = why]]
  OBVIOUS
<1> QED
  BY <1>1, <1>2

LEMMA HangUpOK ==
  ASSUME phone \in [Phone -> Holder], NEW p \in Phone
  PROVE  HangUp(p) \in [Phone -> Holder]
<1> DEFINE left == IF phone[p].why = "revoke" THEN NoId ELSE phone[p].revoke
<1>1. [phone[p] EXCEPT !.at = "off", !.why = "none", !.revoke = left] \in Holder
  BY DEF Holder, Activity, Purpose
<1>2. HangUp(p) = [phone EXCEPT ![p] =
                     [phone[p] EXCEPT !.at = "off", !.why = "none", !.revoke = left]]
  BY DEF HangUp
<1> QED
  BY <1>1, <1>2

\* Every step keeps the types.
LEMMA TypeStep == TypeOK /\ [Next]_vars => TypeOK'
<1> SUFFICES ASSUME TypeOK, [Next]_vars PROVE TypeOK'
  OBVIOUS
<1> USE PairingAssumption DEF TypeOK, Id, NoId, Activity, Purpose
<1>1. CASE OpenMode
  BY <1>1 DEF OpenMode
<1>2. CASE CloseMode
  BY <1>2 DEF CloseMode
<1>3. CASE ExpireMode
  BY <1>3 DEF ExpireMode
<1>4. CASE Show
  BY <1>4 DEF Show
<1>5. ASSUME NEW accept \in BOOLEAN, Decide(accept) PROVE TypeOK'
  <2>1. consent' \subseteq Phone
    BY <1>5 DEF Decide, Answers, Request, NoRequest
  <2>2. mode' \in [open : BOOLEAN, pending : Request, decision : {"none", "yes", "no"}]
    BY <1>5 DEF Decide
  <2> QED
    BY <1>5, <2>1, <2>2 DEF Decide
<1>6. ASSUME NEW p \in Phone, Invite(p) PROVE TypeOK'
  BY <1>6 DEF Invite
<1>7. CASE Unlink
  BY <1>7 DEF Unlink, Revoked
<1>8. CASE Restart
  <2>1. session' \in [Phone -> Thread]
    BY <1>8, NoThreadOK DEF Restart
  <2>2. mode' \in [open : BOOLEAN, pending : Request, decision : {"none", "yes", "no"}]
    BY <1>8 DEF Restart, Request
  <2>3. phone' \in [Phone -> [invite : Id \cup {NoId},
                            revoke : Id \cup {NoId}, at : Activity, why : Purpose]]
    <3>1. ASSUME NEW q \in Phone
          PROVE  [phone[q] EXCEPT !.at = "off", !.why = "none",
                     !.revoke = IF phone[q].why = "revoke" THEN NoId ELSE @]
                   \in [invite : Id \cup {NoId}, revoke : Id \cup {NoId},
                        at : Activity, why : Purpose]
      <4>1. phone[q] \in [invite : Id \cup {NoId}, revoke : Id \cup {NoId},
                          at : Activity, why : Purpose]
        OBVIOUS
      <4>2. "off" \in Activity /\ "none" \in Purpose
        BY DEF Activity, Purpose
      <4> QED
        BY <4>1, <4>2
    <3> QED
      BY <1>8, <3>1 DEF Restart
  <2>4. shown' \in Request
    BY <1>8 DEF Restart, Request
  <2>5. events' \in 0 .. EventMax
    <3>1. events < EventMax /\ events' = events + 1
      BY <1>8 DEF Restart
    <3> QED
      BY <3>1
  <2> QED
    BY <1>8, <2>1, <2>2, <2>3, <2>4, <2>5 DEF Restart
<1>9. ASSUME NEW p \in Phone, Begin(p) PROVE TypeOK'
  <2>1. events' \in 1 .. EventMax
    BY <1>9 DEF Begin
  <2>2. session' \in [Phone -> Thread]
    <3>2. [by |-> p, n |-> events + 1] \in Request
      BY <1>9, <2>1 DEF Begin, Request
    <3>3. Opened(p) \in [Phone -> Thread]
      BY DEF Opened, Thread, Request
    <3>4. session' = [Opened(p) EXCEPT ![p].request = [by |-> p, n |-> events + 1]]
      BY <1>9 DEF Begin
    <3> QED
      BY <3>2, <3>3, <3>4, RequestOK
  <2>3. phone' \in [Phone -> [invite : Id \cup {NoId},
                            revoke : Id \cup {NoId}, at : Activity, why : Purpose]]
    BY <1>9, StartOK DEF Begin, Holder
  <2> QED
    BY <1>9, <2>1, <2>2, <2>3 DEF Begin
<1>10. ASSUME NEW p \in Phone, NEW why \in {"sync", "revoke"}, Connect(p, why) PROVE TypeOK'
  BY <1>10 DEF Connect, Opened
<1>11. ASSUME NEW p \in Phone, Ready(p) PROVE TypeOK'
  <2>1. session' \in [Phone -> Thread]
    <3>1. session' \in {Cut(p), session}
      BY <1>11 DEF Ready
    <3> QED
      BY <3>1, CutOK
  <2>2. phone' \in [Phone -> [invite : Id \cup {NoId},
                            revoke : Id \cup {NoId}, at : Activity, why : Purpose]]
    <3>1. CASE phone[p].why = "pair"
      <4>1. phone' = [HangUp(p) EXCEPT ![p].invite = session[p].id]
        BY <1>11, <3>1 DEF Ready
      <4>2. session[p].id \in Id \cup {NoId} /\ HangUp(p) \in [Phone -> Holder]
        BY HangUpOK DEF Thread, Holder
      <4> HIDE DEF NoId, Id, Activity, Purpose
      <4>3. [HangUp(p)[p] EXCEPT !.invite = session[p].id] \in Holder
        BY <4>2 DEF Holder
      <4>4. phone' = [HangUp(p) EXCEPT ![p] = [HangUp(p)[p] EXCEPT !.invite = session[p].id]]
        BY <4>1
      <4> QED
        BY <4>2, <4>3, <4>4 DEF Holder
    <3>2. CASE phone[p].why # "pair"
      <4>1. phone' = [phone EXCEPT ![p] = [phone[p] EXCEPT !.at = "linked"]]
        BY <1>11, <3>2 DEF Ready
      <4> QED
        BY <4>1
    <3> QED
      BY <3>1, <3>2
  <2> QED
    BY <1>11, <2>1, <2>2 DEF Ready
<1>12. ASSUME NEW p \in Phone, UnlinkPhone(p) PROVE TypeOK'
  BY <1>12 DEF UnlinkPhone, HangUp, Cut
<1>13. ASSUME NEW p \in Phone, Drop(p) PROVE TypeOK'
  <2>1. session' \in [Phone -> Thread]
    BY <1>13, CutOK DEF Drop
  <2>2. phone' \in [Phone -> [invite : Id \cup {NoId},
                            revoke : Id \cup {NoId}, at : Activity, why : Purpose]]
    BY <1>13, HangUpOK DEF Drop, Holder
  <2>3. events' \in 0 .. EventMax
    BY <1>13 DEF Drop
  <2> QED
    BY <1>13, <2>1, <2>2, <2>3 DEF Drop
<1>14. ASSUME NEW p \in Phone, GiveUp(p) PROVE TypeOK'
  <2>1. session' \in [Phone -> Thread]
    BY <1>14, CutOK DEF GiveUp
  <2>2. phone' \in [Phone -> [invite : Id \cup {NoId},
                            revoke : Id \cup {NoId}, at : Activity, why : Purpose]]
    BY <1>14, HangUpOK DEF GiveUp, Holder
  <2> QED
    BY <1>14, <2>1, <2>2 DEF GiveUp
<1>15. ASSUME NEW p \in Phone, Unreachable(p) PROVE TypeOK'
  BY <1>15 DEF Unreachable
<1>16. ASSUME NEW p \in Phone, Ask(p) PROVE TypeOK'
  <2>1. session' \in [Phone -> Thread]
    <3>1. session' \in {[session EXCEPT ![p].at = "wait"], [session EXCEPT ![p] = NoThread]}
      BY <1>16 DEF Ask, Ended
    <3>2. [session EXCEPT ![p].at = "wait"] \in [Phone -> Thread]
      BY MoveOK
    <3>3. [session EXCEPT ![p] = NoThread] \in [Phone -> Thread]
      BY NoThreadOK
    <3> QED
      BY <3>1, <3>2, <3>3
  <2>2. session[p].request \in Request
    BY DEF Thread
  <2>3. mode' \in [open : BOOLEAN, pending : Request, decision : {"none", "yes", "no"}]
    BY <1>16, <2>2 DEF Ask, Pend
  <2>4. active' \in Phone \cup {NoPhone}
    BY <1>16 DEF Ask, Ended
  <2> QED
    BY <1>16, <2>1, <2>2, <2>3, <2>4 DEF Ask
<1>17. ASSUME NEW p \in Phone, AskFails(p) PROVE TypeOK'
  <2>1. session' \in [Phone -> Thread]
    BY <1>17, NoThreadOK DEF AskFails, Ended
  <2>2. mode' \in [open : BOOLEAN, pending : Request, decision : {"none", "yes", "no"}]
    BY <1>17 DEF AskFails, TakenBack, Request
  <2>3. active' \in Phone \cup {NoPhone}
    BY <1>17 DEF AskFails, Ended
  <2> QED
    BY <1>17, <2>1, <2>2, <2>3 DEF AskFails
<1>18. ASSUME NEW p \in Phone, Settle(p) PROVE TypeOK'
  <2>1. session' \in [Phone -> Thread]
    <3>1. session' \in {[session EXCEPT ![p].at = "auth"], [session EXCEPT ![p] = NoThread]}
      BY <1>18 DEF Settle, Ended
    <3>2. [session EXCEPT ![p].at = "auth"] \in [Phone -> Thread]
      BY MoveOK
    <3>3. [session EXCEPT ![p] = NoThread] \in [Phone -> Thread]
      BY NoThreadOK
    <3> QED
      BY <3>1, <3>2, <3>3
  <2>2. mode' \in [open : BOOLEAN, pending : Request, decision : {"none", "yes", "no"}]
    BY <1>18 DEF Settle, Request
  <2>3. active' \in Phone \cup {NoPhone}
    BY <1>18 DEF Settle, Ended
  <2> QED
    BY <1>18, <2>1, <2>2, <2>3 DEF Settle
<1>19. ASSUME NEW p \in Phone, Authenticate(p) PROVE TypeOK'
  <2>1. session' \in [Phone -> Thread]
    BY <1>19, MoveOK DEF Authenticate
  <2> QED
    BY <1>19, <2>1 DEF Authenticate
<1>20. ASSUME NEW p \in Phone, Promote(p) PROVE TypeOK'
  <2>1. session' \in [Phone -> Thread]
    <3>0. ASSUME NEW t \in Thread PROVE [t EXCEPT !.whole = FALSE] \in Thread
      BY <3>0 DEF Thread
    <3>5. ASSUME NEW t \in Thread PROVE [t EXCEPT !.at = "idle"] \in Thread
      BY <3>5 DEF Thread
    <3>2. CASE MayPair(p)
      <4>1. session' = [q \in Phone |->
                  IF q = p THEN [session[q] EXCEPT !.at = "idle"]
                  ELSE IF q = active THEN [session[q] EXCEPT !.whole = FALSE]
                  ELSE session[q]]
        BY <1>20, <3>2 DEF Promote
      <4>2. ASSUME NEW q \in Phone PROVE session'[q] \in Thread
        <5>1. session[q] \in Thread
          OBVIOUS
        <5> QED
          BY <4>1, <5>1, <3>0, <3>5
      <4> QED
        BY <4>1, <4>2
    <3>3. CASE ~MayPair(p)
      BY <1>20, <3>3, NoThreadOK DEF Promote, Ended
    <3> QED
      BY <3>2, <3>3
  <2>2. config' \in [id : Id, peer : Phone \cup {NoPhone}] /\ active' \in Phone \cup {NoPhone}
    BY <1>20 DEF Promote, Ended
  <2> QED
    BY <1>20, <2>1, <2>2 DEF Promote
<1>21. ASSUME NEW p \in Phone, Round(p) PROVE TypeOK'
  <2>1. session' \in [Phone -> Thread]
    <3>1. session' \in {[session EXCEPT ![p].at = "shares"], [session EXCEPT ![p] = NoThread]}
      BY <1>21 DEF Round, Ended
    <3>2. [session EXCEPT ![p].at = "shares"] \in [Phone -> Thread]
      BY MoveOK
    <3>3. [session EXCEPT ![p] = NoThread] \in [Phone -> Thread]
      BY NoThreadOK
    <3> QED
      BY <3>1, <3>2, <3>3
  <2>2. active' \in Phone \cup {NoPhone}
    BY <1>21 DEF Round, Ended
  <2> QED
    BY <1>21, <2>1, <2>2 DEF Round
<1>22. ASSUME NEW p \in Phone, EndRound(p) PROVE TypeOK'
  <2>1. session' \in [Phone -> Thread]
    BY <1>22, MoveOK DEF EndRound
  <2>2. config' \in [id : Id, peer : Phone \cup {NoPhone}]
    BY <1>22 DEF EndRound, Revoked
  <2>3. consent' \subseteq Phone
    BY <1>22 DEF EndRound
  <2> QED
    BY <1>22, <2>1, <2>2, <2>3 DEF EndRound
<1>23. ASSUME NEW p \in Phone, End(p) PROVE TypeOK'
  <2>1. session' \in [Phone -> Thread]
    BY <1>23, NoThreadOK DEF End, Ended
  <2>2. active' \in Phone \cup {NoPhone}
    BY <1>23 DEF End, Ended
  <2> QED
    BY <1>23, <2>1, <2>2 DEF End
<1>24. CASE UNCHANGED vars
  BY <1>24 DEF vars
<1> QED
  BY <1>1, <1>2, <1>3, <1>4, <1>5, <1>6, <1>7, <1>8, <1>9, <1>10, <1>11, <1>12, <1>13,
    <1>14, <1>15, <1>16, <1>17, <1>18, <1>19, <1>20, <1>21, <1>22, <1>23, <1>24
  DEF Next, UserStep, ThreadStep, PhoneStep

-----------------------------------------------------------------------------
\* No identity is renewed into one that is known already.
LEMMA PastStep == TypeOK /\ Past /\ [Next]_vars => Past'
<1> SUFFICES ASSUME TypeOK /\ Past, [Next]_vars PROVE Past'
  OBVIOUS
<1> USE PairingAssumption DEF TypeOK, Id, NoId, Past, Thread
<1>1. CASE OpenMode
  BY <1>1 DEF OpenMode
<1>2. CASE CloseMode
  BY <1>2 DEF CloseMode
<1>3. CASE ExpireMode
  BY <1>3 DEF ExpireMode
<1>4. CASE Show
  BY <1>4 DEF Show
<1>5. ASSUME NEW accept \in BOOLEAN, Decide(accept) PROVE Past'
  BY <1>5 DEF Decide, Answers
<1>6. ASSUME NEW p \in Phone, Invite(p) PROVE Past'
  BY <1>6 DEF Invite
<1>7. CASE Unlink
  BY <1>7 DEF Unlink, Revoked
<1>8. CASE Restart
  <2>1. config' = config /\ consent' = consent
    BY <1>8 DEF Restart
  <2>2. \A q \in Phone : /\ phone'[q].invite = phone[q].invite
                        /\ phone'[q].revoke \in {phone[q].revoke, 0}
    BY <1>8, ZenonT(60) DEF Restart
  <2>3. \A q \in Phone : session'[q].id = 0
    BY <1>8 DEF Restart, NoThread
  <2> QED
    BY <2>1, <2>2, <2>3
<1>9. ASSUME NEW p \in Phone, Begin(p) PROVE Past'
  BY <1>9 DEF Begin, Opened
<1>10. ASSUME NEW p \in Phone, NEW why \in {"sync", "revoke"}, Connect(p, why) PROVE Past'
  BY <1>10 DEF Connect, Opened
<1>11. ASSUME NEW p \in Phone, Ready(p) PROVE Past'
  <2>1. \A q \in Phone : session'[q].id = session[q].id
    <3>1. CASE session' = Cut(p)
      BY <3>1 DEF Cut
    <3>2. CASE session' = session
      BY <3>2
    <3> QED
      BY <1>11, <3>1, <3>2 DEF Ready
  <2>2. \A q \in Phone \ {p} : phone'[q] = phone[q]
    BY <1>11 DEF Ready, HangUp
  <2>3. /\ phone'[p].revoke \in {phone[p].revoke, 0}
        /\ phone'[p].invite \in {phone[p].invite, session[p].id}
    BY <1>11 DEF Ready, HangUp
  <2>4. config' = config
    BY <1>11 DEF Ready
  <2> QED
    BY <2>1, <2>2, <2>3, <2>4
<1>12. ASSUME NEW p \in Phone, UnlinkPhone(p) PROVE Past'
  BY <1>12 DEF UnlinkPhone, HangUp, Cut
<1>13. ASSUME NEW p \in Phone, Drop(p) PROVE Past'
  BY <1>13 DEF Drop, HangUp, Cut
<1>14. ASSUME NEW p \in Phone, GiveUp(p) PROVE Past'
  BY <1>14 DEF GiveUp, HangUp, Cut
<1>15. ASSUME NEW p \in Phone, Unreachable(p) PROVE Past'
  BY <1>15 DEF Unreachable
<1>16. ASSUME NEW p \in Phone, Ask(p) PROVE Past'
  <2>1. \A q \in Phone : session'[q].id \in {session[q].id, 0}
    BY <1>16, SMTT(30) DEF Ask, Ended, NoThread
  <2>2. config' = config /\ phone' = phone
    BY <1>16 DEF Ask
  <2> QED
    BY <2>1, <2>2
<1>17. ASSUME NEW p \in Phone, AskFails(p) PROVE Past'
  <2>1. \A q \in Phone : session'[q].id \in {session[q].id, 0}
    BY <1>17 DEF AskFails, Ended, NoThread
  <2>2. config' = config /\ phone' = phone
    BY <1>17 DEF AskFails
  <2> QED
    BY <2>1, <2>2
<1>18. ASSUME NEW p \in Phone, Settle(p) PROVE Past'
  <2>1. \A q \in Phone : session'[q].id \in {session[q].id, 0}
    BY <1>18 DEF Settle, Ended, NoThread
  <2>2. config' = config /\ phone' = phone
    BY <1>18 DEF Settle
  <2> QED
    BY <2>1, <2>2
<1>19. ASSUME NEW p \in Phone, Authenticate(p) PROVE Past'
  BY <1>19 DEF Authenticate
<1>20. ASSUME NEW p \in Phone, Promote(p) PROVE Past'
  <2>1. \A q \in Phone : session'[q].id \in {session[q].id, 0}
    BY <1>20 DEF Promote, Ended, NoThread
  <2>2. config'.id = config.id /\ phone' = phone
    BY <1>20 DEF Promote
  <2> QED
    BY <2>1, <2>2
<1>21. ASSUME NEW p \in Phone, Round(p) PROVE Past'
  BY <1>21, SMTT(30) DEF Round, Ended, NoThread
<1>22. ASSUME NEW p \in Phone, EndRound(p) PROVE Past'
  BY <1>22 DEF EndRound, Revoked
<1>23. ASSUME NEW p \in Phone, End(p) PROVE Past'
  BY <1>23 DEF End, Ended, NoThread
<1>24. CASE UNCHANGED vars
  BY <1>24 DEF vars
<1> QED
  BY <1>1, <1>2, <1>3, <1>4, <1>5, <1>6, <1>7, <1>8, <1>9, <1>10, <1>11, <1>12, <1>13,
    <1>14, <1>15, <1>16, <1>17, <1>18, <1>19, <1>20, <1>21, <1>22, <1>23, <1>24
  DEF Next, UserStep, ThreadStep, PhoneStep

\* Invitations of the present identity are given by its user.
LEMMA InvitedStep == TypeOK /\ Past /\ Invited /\ Trusted /\ [Next]_vars => Invited'
<1> SUFFICES ASSUME TypeOK /\ Past /\ Invited /\ Trusted, [Next]_vars PROVE Invited'
  OBVIOUS
<1> USE PairingAssumption DEF TypeOK, Id, NoId, Past, Invited, Trusted, Thread
<1>1. CASE OpenMode
  BY <1>1 DEF OpenMode
<1>2. CASE CloseMode
  BY <1>2 DEF CloseMode
<1>3. CASE ExpireMode
  BY <1>3 DEF ExpireMode
<1>4. CASE Show
  BY <1>4 DEF Show
<1>5. ASSUME NEW accept \in BOOLEAN, Decide(accept) PROVE Invited'
  BY <1>5 DEF Decide, Answers
<1>6. ASSUME NEW p \in Phone, Invite(p) PROVE Invited'
  <2>1. \A q \in Phone \ {p} : phone'[q] = phone[q]
    BY <1>6 DEF Invite
  <2>2. config' = config /\ consent' = consent \cup {p}
    BY <1>6 DEF Invite
  <2> QED
    BY <2>1, <2>2
<1>7. CASE Unlink
  BY <1>7 DEF Unlink, Revoked
<1>8. CASE Restart
  <2>1. config' = config /\ consent' = consent
    BY <1>8 DEF Restart
  <2>2. \A q \in Phone : /\ phone'[q].invite = phone[q].invite
                        /\ phone'[q].revoke \in {phone[q].revoke, 0}
                        /\ session'[q].id = 0
    BY <1>8, ZenonT(60) DEF Restart, NoThread
  <2> QED
    BY <2>1, <2>2
<1>9. ASSUME NEW p \in Phone, Begin(p) PROVE Invited'
  BY <1>9 DEF Begin, Opened
<1>10. ASSUME NEW p \in Phone, NEW why \in {"sync", "revoke"}, Connect(p, why) PROVE Invited'
  BY <1>10 DEF Connect, Opened
<1>11. ASSUME NEW p \in Phone, Ready(p) PROVE Invited'
  <2>1. \A q \in Phone : session'[q].at = session[q].at /\ session'[q].id = session[q].id
    BY <1>11, SMTT(30) DEF Ready, Cut
  <2>2. \A q \in Phone \ {p} : phone'[q] = phone[q]
    BY <1>11 DEF Ready, HangUp
  <2>3. /\ phone'[p].revoke \in {phone[p].revoke, 0}
        /\ phone'[p].invite \in {phone[p].invite, session[p].id}
    BY <1>11 DEF Ready, HangUp
  <2>4. session[p].at \in {"promote", "idle"} /\ config' = config /\ consent' = consent
    BY <1>11 DEF Ready
  <2> QED
    BY <2>1, <2>2, <2>3, <2>4
<1>12. ASSUME NEW p \in Phone, UnlinkPhone(p) PROVE Invited'
  BY <1>12 DEF UnlinkPhone, HangUp, Cut
<1>13. ASSUME NEW p \in Phone, Drop(p) PROVE Invited'
  BY <1>13 DEF Drop, HangUp, Cut
<1>14. ASSUME NEW p \in Phone, GiveUp(p) PROVE Invited'
  BY <1>14 DEF GiveUp, HangUp, Cut
<1>15. ASSUME NEW p \in Phone, Unreachable(p) PROVE Invited'
  BY <1>15 DEF Unreachable
<1>16. ASSUME NEW p \in Phone, Ask(p) PROVE Invited'
  BY <1>16 DEF Ask, Ended, Pend, NoThread
<1>17. ASSUME NEW p \in Phone, AskFails(p) PROVE Invited'
  BY <1>17 DEF AskFails, Ended, TakenBack, NoThread
<1>18. ASSUME NEW p \in Phone, Settle(p) PROVE Invited'
  BY <1>18 DEF Settle, Ended, NoThread
<1>19. ASSUME NEW p \in Phone, Authenticate(p) PROVE Invited'
  BY <1>19 DEF Authenticate
<1>20. ASSUME NEW p \in Phone, Promote(p) PROVE Invited'
  BY <1>20 DEF Promote, Ended, MayPair, NoThread
<1>21. ASSUME NEW p \in Phone, Round(p) PROVE Invited'
  BY <1>21 DEF Round, Ended, NoThread
<1>22. ASSUME NEW p \in Phone, EndRound(p) PROVE Invited'
  BY <1>22 DEF EndRound, Revoked
<1>23. ASSUME NEW p \in Phone, End(p) PROVE Invited'
  BY <1>23 DEF End, Ended, NoThread
<1>24. CASE UNCHANGED vars
  BY <1>24 DEF vars
<1> QED
  BY <1>1, <1>2, <1>3, <1>4, <1>5, <1>6, <1>7, <1>8, <1>9, <1>10, <1>11, <1>12, <1>13,
    <1>14, <1>15, <1>16, <1>17, <1>18, <1>19, <1>20, <1>21, <1>22, <1>23, <1>24
  DEF Next, UserStep, ThreadStep, PhoneStep

\* A thread gets past the decision only by an agreement.
LEMMA TrustedStep == TypeOK /\ Past /\ Invited /\ Trusted /\ Waiting /\ [Next]_vars => Trusted'
<1> SUFFICES ASSUME TypeOK /\ Past /\ Invited /\ Trusted /\ Waiting, [Next]_vars PROVE Trusted'
  OBVIOUS
<1> USE PairingAssumption DEF TypeOK, Id, NoId, Past, Invited, Trusted, Waiting, Thread
<1>1. CASE OpenMode
  BY <1>1 DEF OpenMode
<1>2. CASE CloseMode
  BY <1>2 DEF CloseMode
<1>3. CASE ExpireMode
  BY <1>3 DEF ExpireMode
<1>4. CASE Show
  BY <1>4 DEF Show
<1>5. ASSUME NEW accept \in BOOLEAN, Decide(accept) PROVE Trusted'
  BY <1>5 DEF Decide, Answers
<1>6. ASSUME NEW p \in Phone, Invite(p) PROVE Trusted'
  BY <1>6 DEF Invite
<1>7. CASE Unlink
  BY <1>7 DEF Unlink, Revoked
<1>8. CASE Restart
  BY <1>8 DEF Restart, NoThread
<1>9. ASSUME NEW p \in Phone, Begin(p) PROVE Trusted'
  BY <1>9 DEF Begin, Opened
<1>10. ASSUME NEW p \in Phone, NEW why \in {"sync", "revoke"}, Connect(p, why) PROVE Trusted'
  BY <1>10 DEF Connect, Opened
<1>11. ASSUME NEW p \in Phone, Ready(p) PROVE Trusted'
  BY <1>11 DEF Ready, HangUp, Cut
<1>12. ASSUME NEW p \in Phone, UnlinkPhone(p) PROVE Trusted'
  BY <1>12 DEF UnlinkPhone, HangUp, Cut
<1>13. ASSUME NEW p \in Phone, Drop(p) PROVE Trusted'
  BY <1>13 DEF Drop, HangUp, Cut
<1>14. ASSUME NEW p \in Phone, GiveUp(p) PROVE Trusted'
  BY <1>14 DEF GiveUp, HangUp, Cut
<1>15. ASSUME NEW p \in Phone, Unreachable(p) PROVE Trusted'
  BY <1>15 DEF Unreachable
<1>16. ASSUME NEW p \in Phone, Ask(p) PROVE Trusted'
  <2>1. \A q \in Phone \ {p} : session'[q] = session[q]
    BY <1>16 DEF Ask, Ended
  <2>2. session'[p].at \in {"wait", "none"} /\ session'[p].id \in {session[p].id, NoId}
    BY <1>16 DEF Ask, Ended, NoThread
  <2>3. config' = config /\ consent' = consent
    BY <1>16 DEF Ask
  <2> QED
    BY <2>1, <2>2, <2>3
<1>17. ASSUME NEW p \in Phone, AskFails(p) PROVE Trusted'
  BY <1>17 DEF AskFails, Ended, TakenBack, NoThread
<1>18. ASSUME NEW p \in Phone, Settle(p) PROVE Trusted'
  <2>1. \A q \in Phone \ {p} : session'[q] = session[q]
    BY <1>18 DEF Settle, Ended
  <2>2. session'[p].at = "none" \/ session'[p] = [session[p] EXCEPT !.at = "auth"]
    BY <1>18 DEF Settle, Ended, NoThread
  <2>3. session'[p].at # "none" => mode.decision = "yes"
    BY <1>18 DEF Settle, Ended, NoThread
  <2>4. session[p].at = "wait" /\ config' = config /\ consent' = consent
    BY <1>18 DEF Settle
  <2> QED
    BY <2>1, <2>2, <2>3, <2>4, SMTT(30)
<1>19. ASSUME NEW p \in Phone, Authenticate(p) PROVE Trusted'
  BY <1>19 DEF Authenticate
<1>20. ASSUME NEW p \in Phone, Promote(p) PROVE Trusted'
  <2>1. CASE MayPair(p)
    <3>1. \A q \in Phone : /\ session'[q].id = session[q].id
                          /\ session'[q].at = IF q = p THEN "idle" ELSE session[q].at
      BY <1>20, <2>1 DEF Promote
    <3>2. session[p].at = "promote" /\ consent' = consent /\ config'.id = config.id
      BY <1>20, <2>1 DEF Promote
    <3> QED
      BY <3>1, <3>2
  <2>2. CASE ~MayPair(p)
    <3>1. \A q \in Phone \ {p} : session'[q] = session[q]
      BY <1>20, <2>2 DEF Promote, Ended
    <3>2. session'[p].at = "none" /\ consent' = consent /\ config' = config
      BY <1>20, <2>2 DEF Promote, Ended, NoThread
    <3> QED
      BY <3>1, <3>2
  <2> QED
    BY <2>1, <2>2
<1>21. ASSUME NEW p \in Phone, Round(p) PROVE Trusted'
  BY <1>21 DEF Round, Ended, NoThread
<1>22. ASSUME NEW p \in Phone, EndRound(p) PROVE Trusted'
  BY <1>22 DEF EndRound, Revoked
<1>23. ASSUME NEW p \in Phone, End(p) PROVE Trusted'
  BY <1>23 DEF End, Ended, NoThread
<1>24. CASE UNCHANGED vars
  BY <1>24 DEF vars
<1> QED
  BY <1>1, <1>2, <1>3, <1>4, <1>5, <1>6, <1>7, <1>8, <1>9, <1>10, <1>11, <1>12, <1>13,
    <1>14, <1>15, <1>16, <1>17, <1>18, <1>19, <1>20, <1>21, <1>22, <1>23, <1>24
  DEF Next, UserStep, ThreadStep, PhoneStep

\* A decision is about the request that waits for it.
LEMMA WaitingStep == TypeOK /\ Past /\ Waiting /\ [Next]_vars => Waiting'
<1> SUFFICES ASSUME TypeOK /\ Past /\ Waiting, [Next]_vars PROVE Waiting'
  OBVIOUS
<1> USE PairingAssumption DEF TypeOK, Id, NoId, Past, Waiting, Thread
<1>1. CASE OpenMode
  BY <1>1 DEF OpenMode
<1>2. CASE CloseMode
  BY <1>2 DEF CloseMode
<1>3. CASE ExpireMode
  BY <1>3 DEF ExpireMode
<1>4. CASE Show
  BY <1>4 DEF Show
<1>5. ASSUME NEW accept \in BOOLEAN, Decide(accept) PROVE Waiting'
  BY <1>5 DEF Decide, Answers
<1>6. ASSUME NEW p \in Phone, Invite(p) PROVE Waiting'
  BY <1>6 DEF Invite
<1>7. CASE Unlink
  BY <1>7 DEF Unlink, Revoked
<1>8. CASE Restart
  BY <1>8 DEF Restart, NoThread
<1>9. ASSUME NEW p \in Phone, Begin(p) PROVE Waiting'
  BY <1>9 DEF Begin, Opened
<1>10. ASSUME NEW p \in Phone, NEW why \in {"sync", "revoke"}, Connect(p, why) PROVE Waiting'
  BY <1>10 DEF Connect, Opened
<1>11. ASSUME NEW p \in Phone, Ready(p) PROVE Waiting'
  BY <1>11 DEF Ready, HangUp, Cut
<1>12. ASSUME NEW p \in Phone, UnlinkPhone(p) PROVE Waiting'
  BY <1>12 DEF UnlinkPhone, HangUp, Cut
<1>13. ASSUME NEW p \in Phone, Drop(p) PROVE Waiting'
  BY <1>13 DEF Drop, HangUp, Cut
<1>14. ASSUME NEW p \in Phone, GiveUp(p) PROVE Waiting'
  BY <1>14 DEF GiveUp, HangUp, Cut
<1>15. ASSUME NEW p \in Phone, Unreachable(p) PROVE Waiting'
  BY <1>15 DEF Unreachable
<1>16. ASSUME NEW p \in Phone, Ask(p) PROVE Waiting'
  <2>1. \A q \in Phone \ {p} : session'[q] = session[q]
    BY <1>16 DEF Ask, Ended
  <2>2. session'[p].at \in {"wait", "none"} /\ session'[p].id \in {session[p].id, NoId}
    BY <1>16 DEF Ask, Ended, NoThread
  <2>3. session'[p].at = "wait" =>
          /\ session'[p].request = session[p].request /\ session[p].at = "first"
          /\ mode.pending = NoRequest
          /\ mode'.pending = session[p].request /\ mode'.decision = "none"
    <3>1. CASE config.peer = NoPhone /\ mode.open /\ mode.pending = NoRequest
      <4>1. mode' = Pend(p) /\ session' = [session EXCEPT ![p].at = "wait"] /\ session[p].at = "first"
        BY <1>16, <3>1 DEF Ask
      <4>2. Pend(p).pending = session[p].request /\ Pend(p).decision = "none"
        BY DEF Pend
      <4>3. session'[p].request = session[p].request
        BY <4>1
      <4> QED
        BY <3>1, <4>1, <4>2, <4>3
    <3>2. CASE ~(config.peer = NoPhone /\ mode.open /\ mode.pending = NoRequest)
      BY <1>16, <3>2 DEF Ask, Ended, NoThread
    <3> QED
      BY <3>1, <3>2
  <2>4. session'[p].at = "none" => mode' = mode
    BY <1>16 DEF Ask, Ended, NoThread
  <2>5. config' = config /\ consent' = consent
    BY <1>16 DEF Ask
  <2>6. ASSUME NEW q \in Phone, session'[q].at = "wait", session'[p].at = "wait" PROVE q = p
    <3>1. CASE q # p
      <4>1. session[q].request.by = q /\ mode.pending = session[q].request
        BY <2>1, <2>6, <3>1
      <4> QED
        BY <2>3, <2>6, <4>1 DEF NoRequest, NoPhone
    <3> QED
      BY <3>1
  <2>7. CASE session'[p].at = "wait"
    <3>1. \A q \in Phone : session'[q].at \in {"first", "wait"} => session'[q].request.by = q
      BY <2>1, <2>3, <2>7
    <3>2. \A q \in Phone : session'[q].at = "wait" => mode'.pending = session'[q].request
      BY <2>3, <2>6, <2>7
    <3>3. mode'.decision # "yes"
      BY <2>3, <2>7
    <3> QED
      BY <3>1, <3>2, <3>3
  <2>8. CASE session'[p].at = "none"
    BY <2>1, <2>2, <2>4, <2>5, <2>8, SMTT(30)
  <2> QED
    BY <2>2, <2>7, <2>8
<1>17. ASSUME NEW p \in Phone, AskFails(p) PROVE Waiting'
  BY <1>17 DEF AskFails, Ended, TakenBack, NoThread
<1>18. ASSUME NEW p \in Phone, Settle(p) PROVE Waiting'
  <2>1. \A q \in Phone \ {p} : session'[q] = session[q]
    BY <1>18 DEF Settle, Ended
  <2>2. session'[p].at \in {"auth", "none"}
    BY <1>18 DEF Settle, Ended, NoThread
  <2>3. \A q \in Phone \ {p} : session[q].at # "wait"
    BY <1>18 DEF Settle
  <2>4. ASSUME NEW q \in Phone, session'[q].at \in {"first", "wait"}
        PROVE q # p /\ session'[q] = session[q]
    BY <2>1, <2>2, <2>4
  <2> QED
    BY <2>3, <2>4
<1>19. ASSUME NEW p \in Phone, Authenticate(p) PROVE Waiting'
  BY <1>19 DEF Authenticate
<1>20. ASSUME NEW p \in Phone, Promote(p) PROVE Waiting'
  <2>1. \A q \in Phone : session'[q].at \in {"first", "wait"} =>
          /\ session[q].at = session'[q].at
          /\ session'[q].request = session[q].request /\ session'[q].id = session[q].id
    <3>1. CASE MayPair(p)
      BY <1>20, <3>1 DEF Promote
    <3>2. CASE ~MayPair(p)
      <4>1. \A q \in Phone \ {p} : session'[q] = session[q]
        BY <1>20, <3>2 DEF Promote, Ended
      <4>2. session'[p].at = "none"
        BY <1>20, <3>2 DEF Promote, Ended, NoThread
      <4> QED
        BY <4>1, <4>2
    <3> QED
      BY <3>1, <3>2
  <2>2. mode' = mode /\ consent' = consent /\ config'.id = config.id
    BY <1>20 DEF Promote
  <2> QED
    BY <2>1, <2>2
<1>21. ASSUME NEW p \in Phone, Round(p) PROVE Waiting'
  <2>1. \A q \in Phone \ {p} : session'[q] = session[q]
    BY <1>21 DEF Round, Ended
  <2>2. session'[p].at \in {"shares", "none"} /\ session'[p].id \in {session[p].id, NoId}
    BY <1>21 DEF Round, Ended, NoThread
  <2>3. mode' = mode /\ config' = config /\ consent' = consent
    BY <1>21 DEF Round
  <2>4. ASSUME NEW q \in Phone, session'[q].at \in {"first", "wait"}
        PROVE session'[q] = session[q]
    BY <2>1, <2>2, <2>4
  <2> QED
    BY <2>3, <2>4
<1>22. ASSUME NEW p \in Phone, EndRound(p) PROVE Waiting'
  BY <1>22 DEF EndRound, Revoked
<1>23. ASSUME NEW p \in Phone, End(p) PROVE Waiting'
  BY <1>23 DEF End, Ended, NoThread
<1>24. CASE UNCHANGED vars
  BY <1>24 DEF vars
<1> QED
  BY <1>1, <1>2, <1>3, <1>4, <1>5, <1>6, <1>7, <1>8, <1>9, <1>10, <1>11, <1>12, <1>13,
    <1>14, <1>15, <1>16, <1>17, <1>18, <1>19, <1>20, <1>21, <1>22, <1>23, <1>24
  DEF Next, UserStep, ThreadStep, PhoneStep

\* Only a thread that may pair names a peer.
LEMMA PeerStep == TypeOK /\ Trusted /\ PeerConsented /\ [Next]_vars => PeerConsented'
<1> SUFFICES ASSUME TypeOK /\ Trusted /\ PeerConsented, [Next]_vars PROVE PeerConsented'
  OBVIOUS
<1> USE PairingAssumption DEF TypeOK, Id, NoId, PeerConsented, Trusted, Thread
<1>1. CASE OpenMode
  BY <1>1 DEF OpenMode
<1>2. CASE CloseMode
  BY <1>2 DEF CloseMode
<1>3. CASE ExpireMode
  BY <1>3 DEF ExpireMode
<1>4. CASE Show
  BY <1>4 DEF Show
<1>5. ASSUME NEW accept \in BOOLEAN, Decide(accept) PROVE PeerConsented'
  BY <1>5 DEF Decide, Answers
<1>6. ASSUME NEW p \in Phone, Invite(p) PROVE PeerConsented'
  BY <1>6 DEF Invite
<1>7. CASE Unlink
  BY <1>7 DEF Unlink, Revoked
<1>8. CASE Restart
  BY <1>8 DEF Restart, NoThread
<1>9. ASSUME NEW p \in Phone, Begin(p) PROVE PeerConsented'
  BY <1>9 DEF Begin, Opened
<1>10. ASSUME NEW p \in Phone, NEW why \in {"sync", "revoke"}, Connect(p, why)
       PROVE PeerConsented'
  BY <1>10 DEF Connect, Opened
<1>11. ASSUME NEW p \in Phone, Ready(p) PROVE PeerConsented'
  BY <1>11 DEF Ready, HangUp, Cut
<1>12. ASSUME NEW p \in Phone, UnlinkPhone(p) PROVE PeerConsented'
  BY <1>12 DEF UnlinkPhone, HangUp, Cut
<1>13. ASSUME NEW p \in Phone, Drop(p) PROVE PeerConsented'
  BY <1>13 DEF Drop, HangUp, Cut
<1>14. ASSUME NEW p \in Phone, GiveUp(p) PROVE PeerConsented'
  BY <1>14 DEF GiveUp, HangUp, Cut
<1>15. ASSUME NEW p \in Phone, Unreachable(p) PROVE PeerConsented'
  BY <1>15 DEF Unreachable
<1>16. ASSUME NEW p \in Phone, Ask(p) PROVE PeerConsented'
  BY <1>16 DEF Ask, Ended, Pend, NoThread
<1>17. ASSUME NEW p \in Phone, AskFails(p) PROVE PeerConsented'
  BY <1>17 DEF AskFails, Ended, TakenBack, NoThread
<1>18. ASSUME NEW p \in Phone, Settle(p) PROVE PeerConsented'
  BY <1>18 DEF Settle, Ended, NoThread
<1>19. ASSUME NEW p \in Phone, Authenticate(p) PROVE PeerConsented'
  BY <1>19 DEF Authenticate
<1>20. ASSUME NEW p \in Phone, Promote(p) PROVE PeerConsented'
  BY <1>20 DEF Promote, Ended, MayPair, NoThread
<1>21. ASSUME NEW p \in Phone, Round(p) PROVE PeerConsented'
  BY <1>21 DEF Round, Ended, NoThread
<1>22. ASSUME NEW p \in Phone, EndRound(p) PROVE PeerConsented'
  BY <1>22 DEF EndRound, Revoked
<1>23. ASSUME NEW p \in Phone, End(p) PROVE PeerConsented'
  BY <1>23 DEF End, Ended, NoThread
<1>24. CASE UNCHANGED vars
  BY <1>24 DEF vars
<1> QED
  BY <1>1, <1>2, <1>3, <1>4, <1>5, <1>6, <1>7, <1>8, <1>9, <1>10, <1>11, <1>12, <1>13,
    <1>14, <1>15, <1>16, <1>17, <1>18, <1>19, <1>20, <1>21, <1>22, <1>23, <1>24
  DEF Next, UserStep, ThreadStep, PhoneStep

LEMMA PInit == Init => PInv
<1> SUFFICES ASSUME Init PROVE PInv
  OBVIOUS
<1> USE PairingAssumption DEF Init, Id, NoId, NoThread
<1>1. TypeOK
  BY DEF TypeOK, Thread, Request, Activity, Purpose
<1>2. Past /\ Invited /\ Trusted /\ Waiting /\ PeerConsented
  BY DEF Past, Invited, Trusted, Waiting, PeerConsented
<1> QED
  BY <1>1, <1>2 DEF PInv

LEMMA PAlways == Spec => []PInv
<1>1. PInv /\ [Next]_vars => PInv'
  BY TypeStep, PastStep, InvitedStep, TrustedStep, WaitingStep, PeerStep DEF PInv
<1> HIDE DEF PInv
<1> QED
  BY <1>1, PInit, PTL DEF Spec

\* Types of the configuration, the mode, the threads and the phones.
THEOREM PairingTypes == Spec => []TypeOK
<1>1. PInv => TypeOK
  BY DEF PInv
<1> QED
  BY <1>1, PAlways, PTL

\* The phone the computer obeys is one its user agreed to, whoever asks, hangs
\* up or is unlinked at the same time (PairingState, revoke_device_unlocked).
THEOREM PeerIsConsented == Spec => []PeerConsented
<1>1. PInv => PeerConsented
  BY DEF PInv
<1> QED
  BY <1>1, PAlways, PTL

-----------------------------------------------------------------------------
\* Where run holds daemon.lock.
Inside == {"locked", "serving", "stopping", "leaving"}

\* Lock and path belong together, and only their owner writes lines.
Owned ==
  /\ \A p \in Proc : daemon[p].at \in Inside => lock = p
  /\ \A p \in Proc : Daemon!Alive(p) => path = p
  /\ emitting # 0 => emitting = log.to

\* A request somebody still has to answer.
Live == {"sent", "handled", "answered", "half", "streaming"}

\* The listener exists.
Accepting == {"serving", "stopping"}

\* A request is the one its command's state asks, at a daemon that listens.
Asking ==
  /\ \A c \in Cmd : conn[c].at # "none" => cmd[c].at \in DOMAIN Daemon!Asks
  /\ \A c \in Cmd : conn[c].at \notin {"none", "err"} =>
        /\ conn[c].what = Daemon!Asks[cmd[c].at]
        /\ conn[c].to \in Proc
  /\ \A c \in Cmd : conn[c].at \in Live => Daemon!Alive(conn[c].to)
  /\ \A c \in Cmd : conn[c].at = "answered" => conn[c].what = "stop"
  /\ \A c \in Cmd : conn[c].at \in {"half", "streaming"} => conn[c].what = "subscribe"
  /\ \A c \in Cmd : cmd[c].at \in {"wait", "started"} => cmd[c].child \in Proc

\* Success was only told by a ready daemon.
Told ==
  /\ \A c \in Cmd : conn[c].at = "ok" /\ conn[c].what \in {"status", "ping"} =>
        daemon[conn[c].to].ready
  /\ Daemon!StartedIsMine

\* A follower has every line from its first to the last one written, but for
\* the line being sent: already while it waits for the history.
Following ==
  /\ sub \in [Cmd -> [queue : Seq(Daemon!Line), got : SUBSET Daemon!Line]]
  /\ \A c \in Cmd : sub[c] # [queue |-> <<>>, got |-> {}] =>
        \/ cmd[c].at = "followed"
        \/ cmd[c].at = "follow" /\ conn[c].at \in {"half", "streaming", "err"}
  /\ \A c \in Cmd : conn[c].at = "half" => sub[c].got = {}
  /\ \A c \in Cmd : conn[c].at \in {"half", "streaming"} =>
        \A first \in Daemon!Sent(c) : \A line \in first..log.to : line \in Daemon!Sent(c) \/ line = emitting

DInv == Daemon!TypeOK /\ Owned /\ Asking /\ Told /\ Following

-----------------------------------------------------------------------------
DaemonState ==
  [at : {"new", "run", "locked", "serving", "stopping", "leaving", "gone"},
   ready : BOOLEAN, stop : BOOLEAN, worker : {"none", "running", "ended"}]

CmdState ==
  [op : Daemon!Op, child : Proc \cup {NoProc},
   at : {"idle", "mode", "ask", "ping", "spawn", "wait", "follow"} \cup Daemon!Ends]

ConnState ==
  [to : Proc \cup {NoProc}, what : Daemon!Request,
   at : {"none", "sent", "handled", "answered", "half", "streaming", "ok", "err"}]

\* The type invariant, variable by variable.
LEMMA TypeByVariable ==
  /\ Daemon!TypeOK => /\ lock \in Proc \cup {NoProc} /\ path \in Proc \cup {NoProc}
                      /\ daemon \in [Proc -> DaemonState] /\ cmd \in [Cmd -> CmdState]
                      /\ conn \in [Cmd -> ConnState]
                      /\ log.from \in 1..(LineMax + 1) /\ log.to \in 0..LineMax
                      /\ emitting \in 0..LineMax /\ crashes \in 0..CrashMax
  /\ /\ lock' \in Proc \cup {NoProc} /\ path' \in Proc \cup {NoProc}
     /\ daemon' \in [Proc -> DaemonState] /\ cmd' \in [Cmd -> CmdState]
     /\ conn' \in [Cmd -> ConnState]
     /\ log'.from \in 1..(LineMax + 1) /\ log'.to \in 0..LineMax
     /\ emitting' \in 0..LineMax /\ crashes' \in 0..CrashMax
     /\ sub' \in [Cmd -> [queue : Seq(Daemon!Line), got : SUBSET Daemon!Line]]
     => Daemon!TypeOK'
BY DEF Daemon!TypeOK, DaemonState, CmdState, ConnState

\* A step that neither writes nor sends lines keeps Following, if it moves
\* commands and requests only this far.
LEMMA FollowingFrame ==
  ASSUME DInv, UNCHANGED <<log, emitting, sub>>,
         \A c \in Cmd :
           \/ cmd'[c].at = cmd[c].at /\ conn'[c].at \in {conn[c].at, "err"}
           \/ cmd'[c].at = "followed" /\ conn'[c].at = "none"
           \/ /\ cmd[c].at # "followed" /\ conn[c].at \notin {"half", "streaming", "err"}
              /\ conn'[c].at \notin {"half", "streaming"}
  PROVE  Following'
BY DEF DInv, Following, Daemon!Sent

\* What each state asks.
LEMMA AsksTable ==
  /\ DOMAIN Daemon!Asks = {"mode", "ask", "ping", "wait", "follow"}
  /\ Daemon!Asks["mode"] = "status" /\ Daemon!Asks["ask"] = "stop" /\ Daemon!Asks["ping"] = "ping"
  /\ Daemon!Asks["wait"] = "status" /\ Daemon!Asks["follow"] = "subscribe"
  /\ \A a \in DOMAIN Daemon!Asks : Daemon!Asks[a] \in Daemon!Request
BY DEF Daemon!Asks, Daemon!Request

\* Where each command begins.
LEMMA FirstTable ==
  /\ Daemon!First["start"] = "spawn" /\ Daemon!First["stop"] = "ask" /\ Daemon!First["restart"] = "mode"
  /\ Daemon!First["follow"] = "follow"
BY DEF Daemon!First

\* A queue of lines and what is in it.
LEMMA QueueSets ==
  ASSUME NEW s \in Seq(Daemon!Line)
  PROVE  /\ Daemon!ToSet(s) \subseteq Daemon!Line
         /\ \A x \in Daemon!Line : Append(s, x) \in Seq(Daemon!Line) /\ Daemon!ToSet(Append(s, x)) = Daemon!ToSet(s) \cup {x}
         /\ s # <<>> => /\ Head(s) \in Daemon!Line /\ Tail(s) \in Seq(Daemon!Line)
                        /\ Daemon!ToSet(s) = {Head(s)} \cup Daemon!ToSet(Tail(s))
<1>1. Daemon!ToSet(s) \subseteq Daemon!Line
  BY DEF Daemon!ToSet
<1>2. ASSUME NEW x \in Daemon!Line
      PROVE  Append(s, x) \in Seq(Daemon!Line) /\ Daemon!ToSet(Append(s, x)) = Daemon!ToSet(s) \cup {x}
  <2>1. /\ Append(s, x) \in Seq(Daemon!Line) /\ Len(Append(s, x)) = Len(s) + 1
        /\ \A i \in 1..Len(s) : Append(s, x)[i] = s[i]
        /\ Append(s, x)[Len(s) + 1] = x
    OBVIOUS
  <2>. QED
    BY <2>1 DEF Daemon!ToSet
<1>3. ASSUME s # <<>>
      PROVE  /\ Head(s) \in Daemon!Line /\ Tail(s) \in Seq(Daemon!Line)
             /\ Daemon!ToSet(s) = {Head(s)} \cup Daemon!ToSet(Tail(s))
  <2>1. /\ Len(s) \in Nat \ {0} /\ Head(s) = s[1] /\ Tail(s) \in Seq(Daemon!Line) /\ Head(s) \in Daemon!Line
        /\ Len(Tail(s)) = Len(s) - 1
        /\ \A i \in 1..(Len(s) - 1) : Tail(s)[i] = s[i + 1]
    BY <1>3
  <2>2. \A i \in 2..Len(s) : i - 1 \in 1..(Len(s) - 1) /\ s[i] = Tail(s)[i - 1]
    BY <2>1
  <2>3. DOMAIN s = 1..Len(s) /\ DOMAIN Tail(s) = 1..(Len(s) - 1)
    BY <2>1
  <2>4. ASSUME NEW x \in Daemon!ToSet(s) PROVE x \in {Head(s)} \cup Daemon!ToSet(Tail(s))
    <3>1. PICK i \in 1..Len(s) : s[i] = x
      BY <2>3 DEF Daemon!ToSet
    <3>2. CASE i = 1
      BY <2>1, <3>1, <3>2
    <3>3. CASE i # 1
      <4>1. i \in 2..Len(s)
        BY <2>1, <3>3
      <4>. QED
        BY <2>2, <2>3, <3>1, <4>1 DEF Daemon!ToSet
    <3>. QED
      BY <3>2, <3>3
  <2>5. ASSUME NEW x \in {Head(s)} \cup Daemon!ToSet(Tail(s)) PROVE x \in Daemon!ToSet(s)
    <3>1. CASE x = Head(s)
      BY <2>1, <2>3, <3>1 DEF Daemon!ToSet
    <3>2. CASE x \in Daemon!ToSet(Tail(s))
      <4>1. PICK i \in 1..(Len(s) - 1) : Tail(s)[i] = x
        BY <2>3, <3>2 DEF Daemon!ToSet
      <4>2. i + 1 \in 1..Len(s) /\ s[i + 1] = x
        BY <2>1, <4>1
      <4>. QED
        BY <2>3, <4>2 DEF Daemon!ToSet
    <3>. QED
      BY <3>1, <3>2
  <2>. QED
    BY <2>1, <2>4, <2>5
<1>. QED
  BY <1>1, <1>2, <1>3

\* Whoever still has to answer is listening.
LEMMA LiveRequests ==
  DInv => \A c \in Cmd : conn[c].at \in Live => /\ conn[c].to \in Proc
                                               /\ daemon[conn[c].to].at \in Accepting
BY DEF DInv, Asking, Daemon!Alive, Live, Accepting

\* A step that moves requests along their course keeps Asking, if those not
\* yet answered are at a daemon that listens after it.
LEMMA AskingFrame ==
  ASSUME Asking, UNCHANGED cmd,
         \A c \in Cmd : conn'[c].to = conn[c].to /\ conn'[c].what = conn[c].what,
         \A c \in Cmd :
           \/ conn'[c].at = conn[c].at
           \/ conn[c].at # "none" /\ conn'[c].at = "err"
           \/ conn[c].at \in Live /\ conn'[c].at \in {"handled", "ok"}
           \/ conn[c].at = "handled" /\ conn[c].what = "stop" /\ conn'[c].at = "answered"
           \/ conn[c].at = "handled" /\ conn[c].what = "subscribe" /\ conn'[c].at = "half"
           \/ conn[c].at = "half" /\ conn'[c].at = "streaming",
         \A c \in Cmd : conn'[c].at \in Live => daemon'[conn[c].to].at \in Accepting
  PROVE  Asking'
<1>1. (\A c \in Cmd : conn[c].at # "none" => cmd[c].at \in DOMAIN Daemon!Asks)'
  BY DEF Asking, Live
<1>2. (\A c \in Cmd : conn[c].at \notin {"none", "err"} =>
         conn[c].what = Daemon!Asks[cmd[c].at] /\ conn[c].to \in Proc)'
  BY DEF Asking, Live
<1>3. (\A c \in Cmd : conn[c].at \in Live => Daemon!Alive(conn[c].to))'
  BY DEF Daemon!Alive, Accepting
<1>4. (\A c \in Cmd : conn[c].at = "answered" => conn[c].what = "stop")'
  BY DEF Asking, Live
<1>5. (\A c \in Cmd : conn[c].at \in {"half", "streaming"} => conn[c].what = "subscribe")'
  BY DEF Asking, Live
<1>6. (\A c \in Cmd : cmd[c].at \in {"wait", "started"} => cmd[c].child \in Proc)'
  BY DEF Asking
<1>. QED
  BY <1>1, <1>2, <1>3, <1>4, <1>5, <1>6 DEF Asking

\* Assigning one field of one process, command or request.
LEMMA DaemonGoes ==
  ASSUME daemon \in [Proc -> DaemonState], NEW p \in Proc,
         NEW at \in {"new", "run", "locked", "serving", "stopping", "leaving", "gone"},
         daemon' = [daemon EXCEPT ![p].at = at]
  PROVE  /\ daemon' \in [Proc -> DaemonState]
         /\ \A q \in Proc : daemon'[q].at = IF q = p THEN at ELSE daemon[q].at
         /\ \A q \in Proc : daemon'[q].ready = daemon[q].ready
<1>1. \A q \in Proc : daemon[q] \in DaemonState
  OBVIOUS
<1>2. [daemon[p] EXCEPT !.at = at] \in DaemonState
  BY <1>1 DEF DaemonState
<1>3. daemon' = [daemon EXCEPT ![p] = [daemon[p] EXCEPT !.at = at]]
  OBVIOUS
<1>4. daemon' \in [Proc -> DaemonState]
  BY <1>2, <1>3
<1>5. \A q \in Proc : daemon'[q].at = IF q = p THEN at ELSE daemon[q].at
  BY <1>1 DEF DaemonState
<1>6. \A q \in Proc : daemon'[q].ready = daemon[q].ready
  BY <1>1 DEF DaemonState
<1>. QED
  BY <1>4, <1>5, <1>6

LEMMA CommandGoes ==
  ASSUME cmd \in [Cmd -> CmdState], NEW c \in Cmd, NEW at,
         at \in {"idle", "mode", "ask", "ping", "spawn", "wait", "follow"} \cup Daemon!Ends,
         cmd' = [cmd EXCEPT ![c].at = at]
  PROVE  /\ cmd' \in [Cmd -> CmdState]
         /\ \A k \in Cmd : /\ cmd'[k].at = IF k = c THEN at ELSE cmd[k].at
                           /\ cmd'[k].child = cmd[k].child
<1>1. \A k \in Cmd : cmd[k] \in CmdState
  OBVIOUS
<1>2. [cmd[c] EXCEPT !.at = at] \in CmdState
  BY <1>1 DEF CmdState, Daemon!Ends
<1>3. cmd' = [cmd EXCEPT ![c] = [cmd[c] EXCEPT !.at = at]]
  OBVIOUS
<1>4. cmd' \in [Cmd -> CmdState]
  BY <1>2, <1>3
<1>5. \A k \in Cmd : cmd'[k].at = IF k = c THEN at ELSE cmd[k].at
  BY <1>1 DEF CmdState
<1>6. \A k \in Cmd : cmd'[k].child = cmd[k].child
  BY <1>1 DEF CmdState
<1>. QED
  BY <1>4, <1>5, <1>6

LEMMA ConnectionGoes ==
  ASSUME conn \in [Cmd -> ConnState], NEW c \in Cmd,
         NEW at \in {"none", "sent", "handled", "answered", "half", "streaming", "ok", "err"},
         conn' = [conn EXCEPT ![c].at = at]
  PROVE  /\ conn' \in [Cmd -> ConnState]
         /\ \A k \in Cmd : conn'[k].at = IF k = c THEN at ELSE conn[k].at
         /\ \A k \in Cmd : conn'[k].to = conn[k].to /\ conn'[k].what = conn[k].what
<1>1. \A k \in Cmd : conn[k] \in ConnState
  OBVIOUS
<1>2. [conn[c] EXCEPT !.at = at] \in ConnState
  BY <1>1 DEF ConnState
<1>3. conn' = [conn EXCEPT ![c] = [conn[c] EXCEPT !.at = at]]
  OBVIOUS
<1>4. conn' \in [Cmd -> ConnState]
  BY <1>2, <1>3
<1>5. \A k \in Cmd : conn'[k].at = IF k = c THEN at ELSE conn[k].at
  BY <1>1 DEF ConnState
<1>6. \A k \in Cmd : conn'[k].to = conn[k].to /\ conn'[k].what = conn[k].what
  BY <1>1 DEF ConnState
<1>. QED
  BY <1>4, <1>5, <1>6

-----------------------------------------------------------------------------
\* Only the process that finds the lock free goes on.
LEMMA LockKeeps ==
  ASSUME Daemon!DaemonAssumption, DInv, NEW p \in Proc, Daemon!Lock(p)
  PROVE  DInv'
<1>1. /\ daemon \in [Proc -> DaemonState] /\ conn \in [Cmd -> ConnState]
      /\ cmd \in [Cmd -> CmdState]
      /\ sub \in [Cmd -> [queue : Seq(Daemon!Line), got : SUBSET Daemon!Line]]
      /\ lock \in Proc \cup {NoProc} /\ path \in Proc \cup {NoProc} /\ NoProc \notin Proc
  BY TypeByVariable DEF DInv, Following, Daemon!DaemonAssumption
<1>2. Daemon!TypeOK'
  <2>1. daemon' \in [Proc -> DaemonState]
    <3>1. CASE lock = NoProc
      BY <1>1, <3>1, DaemonGoes DEF Daemon!Lock
    <3>2. CASE lock # NoProc
      BY <1>1, <3>2, DaemonGoes DEF Daemon!Lock
    <3>. QED
      BY <3>1, <3>2
  <2>2. conn' \in [Cmd -> ConnState]
    BY <1>1 DEF Daemon!Lock, ConnState, Daemon!Request, Daemon!NoConn, Daemon!busVars
  <2>3. cmd' \in [Cmd -> CmdState]
    BY <1>1 DEF Daemon!Lock, CmdState, Daemon!Op, Daemon!Ends, Daemon!busVars
  <2>4. sub' \in [Cmd -> [queue : Seq(Daemon!Line), got : SUBSET Daemon!Line]]
    BY <1>1 DEF Daemon!Lock, Daemon!Line, Daemon!busVars
  <2>. QED
    BY <1>1, <2>1, <2>2, <2>3, <2>4, TypeByVariable
    DEF DInv, Daemon!DaemonAssumption, Daemon!Lock, Daemon!busVars
<1>3. /\ daemon[p].at = "run"
      /\ \/ lock = NoProc /\ lock' = p /\ daemon'[p].at = "locked"
         \/ lock' = lock /\ daemon'[p].at = "gone"
      /\ \A q \in Proc : /\ q # p => daemon'[q].at = daemon[q].at
      /\ UNCHANGED <<path, cmd, conn, log, emitting, sub, crashes>>
  BY <1>1
  DEF Daemon!Lock, DaemonState, ConnState, CmdState, Daemon!Op, Daemon!busVars,
    Daemon!NoConn
<1>4. Owned'
  BY <1>1, <1>2, <1>3 DEF DInv, Owned, Inside, Daemon!Alive
<1>5. Asking'
  <2>1. \A k \in Cmd : conn'[k].at \in Live => daemon'[conn[k].to].at \in Accepting
    BY <1>1, <1>3, LiveRequests DEF Live, Accepting
  <2>2. \A k \in Cmd : conn'[k].to = conn[k].to /\ conn'[k].what = conn[k].what
    BY <1>3
  <2>. QED
    BY <1>3, <2>1, <2>2, AskingFrame DEF DInv, Live
<1>6. Told'
  <2>1. \A q \in Proc : daemon[q].ready => daemon'[q].ready
    <3>1. CASE lock = NoProc
      BY <1>1, <3>1, DaemonGoes DEF Daemon!Lock
    <3>2. CASE lock # NoProc
      BY <1>1, <3>2, DaemonGoes DEF Daemon!Lock
    <3>. QED
      BY <3>1, <3>2
  <2>. QED
    BY <1>1, <1>2, <1>3, <2>1, AsksTable DEF DInv, Asking, Told, Daemon!StartedIsMine
<1>7. Following'
  BY <1>1, <1>2, <1>3, FollowingFrame, AsksTable DEF DInv, Asking
<1>. QED
  BY <1>2, <1>4, <1>5, <1>6, <1>7 DEF DInv

\* The owner of the lock takes the path when nobody listens on it.
LEMMA BindKeeps ==
  ASSUME Daemon!DaemonAssumption, DInv, NEW p \in Proc, Daemon!Bind(p)
  PROVE  DInv'
<1>1. /\ daemon \in [Proc -> DaemonState] /\ conn \in [Cmd -> ConnState]
      /\ cmd \in [Cmd -> CmdState]
      /\ sub \in [Cmd -> [queue : Seq(Daemon!Line), got : SUBSET Daemon!Line]]
      /\ lock \in Proc \cup {NoProc} /\ path \in Proc \cup {NoProc}
      /\ NoProc \notin Proc
  BY TypeByVariable DEF DInv, Following, Daemon!DaemonAssumption
<1>2. Daemon!TypeOK'
  <2>1. daemon' \in [Proc -> DaemonState]
    <3>. DEFINE d == [daemon[p] EXCEPT !.at = "serving"]
    <3>1. d \in DaemonState
      BY <1>1 DEF DaemonState
    <3>2. [d EXCEPT !.worker = "running"] \in DaemonState
      BY <3>1 DEF DaemonState
    <3>3. daemon' = [daemon EXCEPT ![p] = [d EXCEPT !.worker = "running"]]
      BY <1>1 DEF Daemon!Bind
    <3>. QED
      BY <1>1, <3>2, <3>3
  <2>2. conn' \in [Cmd -> ConnState]
    BY <1>1
    DEF Daemon!Bind, Daemon!Listening, ConnState, Daemon!Request, Daemon!NoConn,
      Daemon!busVars
  <2>3. cmd' \in [Cmd -> CmdState]
    BY <1>1
    DEF Daemon!Bind, Daemon!Listening, CmdState, Daemon!Op, Daemon!Ends, Daemon!busVars
  <2>4. sub' \in [Cmd -> [queue : Seq(Daemon!Line), got : SUBSET Daemon!Line]]
    BY <1>1 DEF Daemon!Bind, Daemon!Listening, Daemon!Line, Daemon!busVars
  <2>. QED
    BY <1>1, <2>1, <2>2, <2>3, <2>4, TypeByVariable
    DEF DInv, Daemon!DaemonAssumption, Daemon!Bind, Daemon!Listening, Daemon!busVars
<1>3. /\ daemon[p].at = "locked" /\ path' = p /\ daemon'[p].at = "serving"
      /\ \A q \in Proc : /\ q # p => daemon'[q].at = daemon[q].at
      /\ UNCHANGED <<lock, cmd, conn, log, emitting, sub, crashes>>
  BY <1>1
  DEF Daemon!Bind, Daemon!Listening, DaemonState, ConnState, CmdState, Daemon!Op,
    Daemon!busVars, Daemon!NoConn
<1>4. Owned'
  BY <1>1, <1>2, <1>3 DEF DInv, Owned, Inside, Daemon!Alive
<1>5. Asking'
  <2>1. \A k \in Cmd : conn'[k].at \in Live => daemon'[conn[k].to].at \in Accepting
    BY <1>1, <1>3, LiveRequests DEF Live, Accepting
  <2>2. \A k \in Cmd : conn'[k].to = conn[k].to /\ conn'[k].what = conn[k].what
    BY <1>3
  <2>. QED
    BY <1>3, <2>1, <2>2, AskingFrame DEF DInv, Live
<1>6. Told'
  <2>1. \A q \in Proc : daemon[q].ready => daemon'[q].ready
    BY <1>1 DEF Daemon!Bind, Daemon!Listening, DaemonState, Daemon!busVars
  <2>. QED
    BY <1>1, <1>2, <1>3, <2>1, AsksTable DEF DInv, Asking, Told, Daemon!StartedIsMine
<1>7. Following'
  BY <1>1, <1>2, <1>3, FollowingFrame, AsksTable DEF DInv, Asking
<1>. QED
  BY <1>2, <1>4, <1>5, <1>6, <1>7 DEF DInv

\* A daemon once ready stays so.
LEMMA ReadyKeeps ==
  ASSUME Daemon!DaemonAssumption, DInv, NEW p \in Proc, Daemon!Ready(p)
  PROVE  DInv'
<1>1. /\ daemon \in [Proc -> DaemonState] /\ conn \in [Cmd -> ConnState]
      /\ cmd \in [Cmd -> CmdState]
      /\ sub \in [Cmd -> [queue : Seq(Daemon!Line), got : SUBSET Daemon!Line]]
      /\ lock \in Proc \cup {NoProc} /\ path \in Proc \cup {NoProc}
      /\ NoProc \notin Proc
  BY TypeByVariable DEF DInv, Following, Daemon!DaemonAssumption
<1>2. Daemon!TypeOK'
  <2>1. daemon' \in [Proc -> DaemonState]
    BY <1>1 DEF Daemon!Ready, DaemonState, Daemon!busVars
  <2>2. conn' \in [Cmd -> ConnState]
    BY <1>1 DEF Daemon!Ready, ConnState, Daemon!Request, Daemon!NoConn, Daemon!busVars
  <2>3. cmd' \in [Cmd -> CmdState]
    BY <1>1 DEF Daemon!Ready, CmdState, Daemon!Op, Daemon!Ends, Daemon!busVars
  <2>4. sub' \in [Cmd -> [queue : Seq(Daemon!Line), got : SUBSET Daemon!Line]]
    BY <1>1 DEF Daemon!Ready, Daemon!Line, Daemon!busVars
  <2>. QED
    BY <1>1, <2>1, <2>2, <2>3, <2>4, TypeByVariable
    DEF DInv, Daemon!DaemonAssumption, Daemon!Ready, Daemon!busVars
<1>3. /\ \A q \in Proc : /\ daemon'[q].at = daemon[q].at
      /\ UNCHANGED <<lock, path, cmd, conn, log, emitting, sub, crashes>>
  BY <1>1
  DEF Daemon!Ready, DaemonState, ConnState, CmdState, Daemon!Op, Daemon!busVars,
    Daemon!NoConn
<1>4. Owned'
  BY <1>1, <1>2, <1>3 DEF DInv, Owned, Inside, Daemon!Alive
<1>5. Asking'
  <2>1. \A k \in Cmd : conn'[k].at \in Live => daemon'[conn[k].to].at \in Accepting
    BY <1>1, <1>3, LiveRequests DEF Live, Accepting
  <2>2. \A k \in Cmd : conn'[k].to = conn[k].to /\ conn'[k].what = conn[k].what
    BY <1>3
  <2>. QED
    BY <1>3, <2>1, <2>2, AskingFrame DEF DInv, Live
<1>6. Told'
  <2>1. \A q \in Proc : daemon[q].ready => daemon'[q].ready
    BY <1>1 DEF Daemon!Ready, DaemonState, Daemon!busVars
  <2>. QED
    BY <1>1, <1>2, <1>3, <2>1, AsksTable DEF DInv, Asking, Told, Daemon!StartedIsMine
<1>7. Following'
  BY <1>1, <1>2, <1>3, FollowingFrame, AsksTable DEF DInv, Asking
<1>. QED
  BY <1>2, <1>4, <1>5, <1>6, <1>7 DEF DInv

\* The end of the worker changes nothing of who owns what.
LEMMA WorkerEndsKeeps ==
  ASSUME Daemon!DaemonAssumption, DInv, NEW p \in Proc, Daemon!WorkerEnds(p)
  PROVE  DInv'
<1>1. /\ daemon \in [Proc -> DaemonState] /\ conn \in [Cmd -> ConnState]
      /\ cmd \in [Cmd -> CmdState]
      /\ sub \in [Cmd -> [queue : Seq(Daemon!Line), got : SUBSET Daemon!Line]]
      /\ lock \in Proc \cup {NoProc} /\ path \in Proc \cup {NoProc}
      /\ NoProc \notin Proc
  BY TypeByVariable DEF DInv, Following, Daemon!DaemonAssumption
<1>2. Daemon!TypeOK'
  <2>1. daemon' \in [Proc -> DaemonState]
    BY <1>1 DEF Daemon!WorkerEnds, DaemonState, Daemon!busVars
  <2>2. conn' \in [Cmd -> ConnState]
    BY <1>1 DEF Daemon!WorkerEnds, ConnState, Daemon!Request, Daemon!NoConn, Daemon!busVars
  <2>3. cmd' \in [Cmd -> CmdState]
    BY <1>1 DEF Daemon!WorkerEnds, CmdState, Daemon!Op, Daemon!Ends, Daemon!busVars
  <2>4. sub' \in [Cmd -> [queue : Seq(Daemon!Line), got : SUBSET Daemon!Line]]
    BY <1>1 DEF Daemon!WorkerEnds, Daemon!Line, Daemon!busVars
  <2>. QED
    BY <1>1, <2>1, <2>2, <2>3, <2>4, TypeByVariable
    DEF DInv, Daemon!DaemonAssumption, Daemon!WorkerEnds, Daemon!busVars
<1>3. /\ \A q \in Proc : /\ daemon'[q].at = daemon[q].at
      /\ UNCHANGED <<lock, path, cmd, conn, log, emitting, sub, crashes>>
  BY <1>1
  DEF Daemon!WorkerEnds, DaemonState, ConnState, CmdState, Daemon!Op, Daemon!busVars,
    Daemon!NoConn
<1>4. Owned'
  BY <1>1, <1>2, <1>3 DEF DInv, Owned, Inside, Daemon!Alive
<1>5. Asking'
  <2>1. \A k \in Cmd : conn'[k].at \in Live => daemon'[conn[k].to].at \in Accepting
    BY <1>1, <1>3, LiveRequests DEF Live, Accepting
  <2>2. \A k \in Cmd : conn'[k].to = conn[k].to /\ conn'[k].what = conn[k].what
    BY <1>3
  <2>. QED
    BY <1>3, <2>1, <2>2, AskingFrame DEF DInv, Live
<1>6. Told'
  <2>1. \A q \in Proc : daemon[q].ready => daemon'[q].ready
    BY <1>1 DEF Daemon!WorkerEnds, DaemonState, Daemon!busVars
  <2>. QED
    BY <1>1, <1>2, <1>3, <2>1, AsksTable DEF DInv, Asking, Told, Daemon!StartedIsMine
<1>7. Following'
  BY <1>1, <1>2, <1>3, FollowingFrame, AsksTable DEF DInv, Asking
<1>. QED
  BY <1>2, <1>4, <1>5, <1>6, <1>7 DEF DInv

\* A request is accepted by the process it was sent to.
LEMMA AcceptKeeps ==
  ASSUME Daemon!DaemonAssumption, DInv, NEW p \in Proc, NEW c \in Cmd, Daemon!Accept(p, c)
  PROVE  DInv'
<1>1. /\ daemon \in [Proc -> DaemonState] /\ conn \in [Cmd -> ConnState]
      /\ cmd \in [Cmd -> CmdState]
      /\ sub \in [Cmd -> [queue : Seq(Daemon!Line), got : SUBSET Daemon!Line]]
      /\ lock \in Proc \cup {NoProc} /\ path \in Proc \cup {NoProc}
      /\ NoProc \notin Proc
  BY TypeByVariable DEF DInv, Following, Daemon!DaemonAssumption
<1>2. Daemon!TypeOK'
  <2>1. daemon' \in [Proc -> DaemonState]
    BY <1>1 DEF Daemon!Accept, DaemonState, Daemon!busVars
  <2>2. conn' \in [Cmd -> ConnState]
    BY <1>1, ConnectionGoes DEF Daemon!Accept, Daemon!busVars
  <2>3. cmd' \in [Cmd -> CmdState]
    BY <1>1 DEF Daemon!Accept, CmdState, Daemon!Op, Daemon!Ends, Daemon!busVars
  <2>4. sub' \in [Cmd -> [queue : Seq(Daemon!Line), got : SUBSET Daemon!Line]]
    BY <1>1 DEF Daemon!Accept, Daemon!Line, Daemon!busVars
  <2>. QED
    BY <1>1, <2>1, <2>2, <2>3, <2>4, TypeByVariable
    DEF DInv, Daemon!DaemonAssumption, Daemon!Accept, Daemon!busVars
<1>3. /\ conn[c].at = "sent"
      /\ \A k \in Cmd : /\ conn'[k].at = IF k = c THEN "handled" ELSE conn[k].at
                        /\ conn'[k].to = conn[k].to /\ conn'[k].what = conn[k].what
      /\ UNCHANGED <<lock, path, daemon, cmd, log, emitting, sub, crashes>>
  BY <1>1
  DEF Daemon!Accept, DaemonState, ConnState, CmdState, Daemon!Op, Daemon!busVars,
    Daemon!NoConn
<1>4. Owned'
  BY <1>1, <1>2, <1>3 DEF DInv, Owned, Inside, Daemon!Alive
<1>5. Asking'
  <2>1. \A k \in Cmd : conn'[k].at \in Live => daemon'[conn[k].to].at \in Accepting
    BY <1>1, <1>3, LiveRequests DEF Live, Accepting
  <2>2. \A k \in Cmd : conn'[k].to = conn[k].to /\ conn'[k].what = conn[k].what
    BY <1>3
  <2>. QED
    BY <1>3, <2>1, <2>2, AskingFrame DEF DInv, Live
<1>6. Told'
  <2>1. \A q \in Proc : daemon[q].ready => daemon'[q].ready
    BY <1>1 DEF Daemon!Accept, DaemonState, Daemon!busVars
  <2>. QED
    BY <1>1, <1>2, <1>3, <2>1, AsksTable DEF DInv, Asking, Told, Daemon!StartedIsMine
<1>7. Following'
  BY <1>1, <1>2, <1>3, FollowingFrame, AsksTable DEF DInv, Asking
<1>. QED
  BY <1>2, <1>4, <1>5, <1>6, <1>7 DEF DInv

\* A daemon that stops accepting keeps lock and path.
LEMMA LoopEndsKeeps ==
  ASSUME Daemon!DaemonAssumption, DInv, NEW p \in Proc, Daemon!LoopEnds(p)
  PROVE  DInv'
<1>1. /\ daemon \in [Proc -> DaemonState] /\ conn \in [Cmd -> ConnState]
      /\ cmd \in [Cmd -> CmdState]
      /\ sub \in [Cmd -> [queue : Seq(Daemon!Line), got : SUBSET Daemon!Line]]
      /\ lock \in Proc \cup {NoProc} /\ path \in Proc \cup {NoProc}
      /\ NoProc \notin Proc
  BY TypeByVariable DEF DInv, Following, Daemon!DaemonAssumption
<1>2. Daemon!TypeOK'
  <2>1. daemon' \in [Proc -> DaemonState]
    <3>. DEFINE d == [daemon[p] EXCEPT !.at = "stopping"]
    <3>1. d \in DaemonState
      BY <1>1 DEF DaemonState
    <3>2. [d EXCEPT !.stop = TRUE] \in DaemonState
      BY <3>1 DEF DaemonState
    <3>3. daemon' = [daemon EXCEPT ![p] = [d EXCEPT !.stop = TRUE]]
      BY <1>1 DEF Daemon!LoopEnds
    <3>. QED
      BY <1>1, <3>2, <3>3
  <2>2. conn' \in [Cmd -> ConnState]
    BY <1>1 DEF Daemon!LoopEnds, ConnState, Daemon!Request, Daemon!NoConn, Daemon!busVars
  <2>3. cmd' \in [Cmd -> CmdState]
    BY <1>1 DEF Daemon!LoopEnds, CmdState, Daemon!Op, Daemon!Ends, Daemon!busVars
  <2>4. sub' \in [Cmd -> [queue : Seq(Daemon!Line), got : SUBSET Daemon!Line]]
    BY <1>1 DEF Daemon!LoopEnds, Daemon!Line, Daemon!busVars
  <2>. QED
    BY <1>1, <2>1, <2>2, <2>3, <2>4, TypeByVariable
    DEF DInv, Daemon!DaemonAssumption, Daemon!LoopEnds, Daemon!busVars
<1>3. /\ daemon[p].at = "serving" /\ daemon'[p].at = "stopping"
      /\ \A q \in Proc : /\ q # p => daemon'[q].at = daemon[q].at
      /\ UNCHANGED <<lock, path, cmd, conn, log, emitting, sub, crashes>>
  BY <1>1
  DEF Daemon!LoopEnds, DaemonState, ConnState, CmdState, Daemon!Op, Daemon!busVars,
    Daemon!NoConn
<1>4. Owned'
  BY <1>1, <1>2, <1>3 DEF DInv, Owned, Inside, Daemon!Alive
<1>5. Asking'
  <2>1. \A k \in Cmd : conn'[k].at \in Live => daemon'[conn[k].to].at \in Accepting
    BY <1>1, <1>3, LiveRequests DEF Live, Accepting
  <2>2. \A k \in Cmd : conn'[k].to = conn[k].to /\ conn'[k].what = conn[k].what
    BY <1>3
  <2>. QED
    BY <1>3, <2>1, <2>2, AskingFrame DEF DInv, Live
<1>6. Told'
  <2>1. \A q \in Proc : daemon[q].ready => daemon'[q].ready
    BY <1>1 DEF Daemon!LoopEnds, DaemonState, Daemon!busVars
  <2>. QED
    BY <1>1, <1>2, <1>3, <2>1, AsksTable DEF DInv, Asking, Told, Daemon!StartedIsMine
<1>7. Following'
  BY <1>1, <1>2, <1>3, FollowingFrame, AsksTable DEF DInv, Asking
<1>. QED
  BY <1>2, <1>4, <1>5, <1>6, <1>7 DEF DInv

\* It leaves when no handler is left: requests still waiting are refused.
LEMMA LeaveKeeps ==
  ASSUME Daemon!DaemonAssumption, DInv, NEW p \in Proc, Daemon!Leave(p)
  PROVE  DInv'
<1>1. /\ daemon \in [Proc -> DaemonState] /\ conn \in [Cmd -> ConnState]
      /\ cmd \in [Cmd -> CmdState]
      /\ sub \in [Cmd -> [queue : Seq(Daemon!Line), got : SUBSET Daemon!Line]]
      /\ lock \in Proc \cup {NoProc} /\ path \in Proc \cup {NoProc}
      /\ NoProc \notin Proc
  BY TypeByVariable DEF DInv, Following, Daemon!DaemonAssumption
<1>2. Daemon!TypeOK'
  <2>1. daemon' \in [Proc -> DaemonState]
    BY <1>1
    DEF Daemon!Leave, Daemon!Drop, Daemon!DropOrder, Daemon!Handled, DaemonState,
      Daemon!busVars
  <2>2. conn' \in [Cmd -> ConnState]
    <3>1. \A k \in Cmd : conn[k] \in ConnState /\ [conn[k] EXCEPT !.at = "err"] \in ConnState
      BY <1>1 DEF ConnState
    <3>. QED
      BY <3>1 DEF Daemon!Leave
  <2>3. cmd' \in [Cmd -> CmdState]
    BY <1>1
    DEF Daemon!Leave, Daemon!Drop, Daemon!DropOrder, Daemon!Handled, CmdState, Daemon!Op,
      Daemon!Ends, Daemon!busVars
  <2>4. sub' \in [Cmd -> [queue : Seq(Daemon!Line), got : SUBSET Daemon!Line]]
    BY <1>1
    DEF Daemon!Leave, Daemon!Drop, Daemon!DropOrder, Daemon!Handled, Daemon!Line,
      Daemon!busVars
  <2>. QED
    BY <1>1, <2>1, <2>2, <2>3, <2>4, TypeByVariable
    DEF DInv, Daemon!DaemonAssumption, Daemon!Leave, Daemon!Drop, Daemon!DropOrder,
      Daemon!Handled, Daemon!busVars
<1>3. /\ daemon[p].at = "stopping" /\ path' = NoProc /\ daemon'[p].at = "leaving"
      /\ \A q \in Proc : /\ q # p => daemon'[q].at = daemon[q].at
      /\ \A k \in Cmd :
           /\ conn'[k].to = conn[k].to /\ conn'[k].what = conn[k].what
           /\ conn'[k].at = IF conn[k].to = p /\ conn[k].at = "sent" THEN "err" ELSE conn[k].at
           /\ conn[k].to = p => conn[k].at \notin {"handled", "answered", "half", "streaming"}
      /\ UNCHANGED <<lock, cmd, log, emitting, sub, crashes>>
  BY <1>1
  DEF Daemon!Leave, Daemon!Drop, Daemon!DropOrder, Daemon!Handled, DaemonState, ConnState,
    CmdState, Daemon!Op, Daemon!busVars, Daemon!NoConn
<1>4. Owned'
  BY <1>1, <1>2, <1>3 DEF DInv, Owned, Inside, Daemon!Alive
<1>5. Asking'
  <2>1. \A k \in Cmd : conn'[k].at \in Live => daemon'[conn[k].to].at \in Accepting
    BY <1>1, <1>3, LiveRequests DEF Live, Accepting
  <2>2. \A k \in Cmd : conn'[k].to = conn[k].to /\ conn'[k].what = conn[k].what
    BY <1>3
  <2>. QED
    BY <1>3, <2>1, <2>2, AskingFrame DEF DInv, Live
<1>6. Told'
  <2>1. \A q \in Proc : daemon[q].ready => daemon'[q].ready
    BY <1>1
    DEF Daemon!Leave, Daemon!Drop, Daemon!DropOrder, Daemon!Handled, DaemonState,
      Daemon!busVars
  <2>. QED
    BY <1>1, <1>2, <1>3, <2>1, AsksTable DEF DInv, Asking, Told, Daemon!StartedIsMine
<1>7. Following'
  BY <1>1, <1>2, <1>3, FollowingFrame, AsksTable DEF DInv, Asking
<1>. QED
  BY <1>2, <1>4, <1>5, <1>6, <1>7 DEF DInv

\* The lock goes last, when the path is already removed.
LEMMA ExitKeeps ==
  ASSUME Daemon!DaemonAssumption, DInv, NEW p \in Proc, Daemon!Exit(p)
  PROVE  DInv'
<1>1. /\ daemon \in [Proc -> DaemonState] /\ conn \in [Cmd -> ConnState]
      /\ cmd \in [Cmd -> CmdState]
      /\ sub \in [Cmd -> [queue : Seq(Daemon!Line), got : SUBSET Daemon!Line]]
      /\ lock \in Proc \cup {NoProc} /\ path \in Proc \cup {NoProc}
      /\ NoProc \notin Proc
  BY TypeByVariable DEF DInv, Following, Daemon!DaemonAssumption
<1>2. Daemon!TypeOK'
  <2>1. daemon' \in [Proc -> DaemonState]
    BY <1>1 DEF Daemon!Exit, Daemon!Drop, Daemon!DropOrder, DaemonState, Daemon!busVars
  <2>2. conn' \in [Cmd -> ConnState]
    BY <1>1
    DEF Daemon!Exit, Daemon!Drop, Daemon!DropOrder, ConnState, Daemon!Request,
      Daemon!NoConn, Daemon!busVars
  <2>3. cmd' \in [Cmd -> CmdState]
    BY <1>1
    DEF Daemon!Exit, Daemon!Drop, Daemon!DropOrder, CmdState, Daemon!Op, Daemon!Ends,
      Daemon!busVars
  <2>4. sub' \in [Cmd -> [queue : Seq(Daemon!Line), got : SUBSET Daemon!Line]]
    BY <1>1 DEF Daemon!Exit, Daemon!Drop, Daemon!DropOrder, Daemon!Line, Daemon!busVars
  <2>. QED
    BY <1>1, <2>1, <2>2, <2>3, <2>4, TypeByVariable
    DEF DInv, Daemon!DaemonAssumption, Daemon!Exit, Daemon!Drop, Daemon!DropOrder,
      Daemon!busVars
<1>3. /\ daemon[p].at = "leaving" /\ lock' = NoProc /\ daemon'[p].at = "gone"
      /\ \A q \in Proc : /\ q # p => daemon'[q].at = daemon[q].at
      /\ UNCHANGED <<path, cmd, conn, log, emitting, sub, crashes>>
  BY <1>1
  DEF Daemon!Exit, Daemon!Drop, Daemon!DropOrder, DaemonState, ConnState, CmdState,
    Daemon!Op, Daemon!busVars, Daemon!NoConn
<1>4. Owned'
  BY <1>1, <1>2, <1>3 DEF DInv, Owned, Inside, Daemon!Alive
<1>5. Asking'
  <2>1. \A k \in Cmd : conn'[k].at \in Live => daemon'[conn[k].to].at \in Accepting
    BY <1>1, <1>3, LiveRequests DEF Live, Accepting
  <2>2. \A k \in Cmd : conn'[k].to = conn[k].to /\ conn'[k].what = conn[k].what
    BY <1>3
  <2>. QED
    BY <1>3, <2>1, <2>2, AskingFrame DEF DInv, Live
<1>6. Told'
  <2>1. \A q \in Proc : daemon[q].ready => daemon'[q].ready
    BY <1>1 DEF Daemon!Exit, Daemon!Drop, Daemon!DropOrder, DaemonState, Daemon!busVars
  <2>. QED
    BY <1>1, <1>2, <1>3, <2>1, AsksTable DEF DInv, Asking, Told, Daemon!StartedIsMine
<1>7. Following'
  BY <1>1, <1>2, <1>3, FollowingFrame, AsksTable DEF DInv, Asking
<1>. QED
  BY <1>2, <1>4, <1>5, <1>6, <1>7 DEF DInv

\* A killed process ends its requests; the line it was writing is nobody's.
LEMMA CrashKeeps ==
  ASSUME Daemon!DaemonAssumption, DInv, NEW p \in Proc, Daemon!Crash(p)
  PROVE  DInv'
<1>1. /\ daemon \in [Proc -> DaemonState] /\ conn \in [Cmd -> ConnState]
      /\ cmd \in [Cmd -> CmdState]
      /\ sub \in [Cmd -> [queue : Seq(Daemon!Line), got : SUBSET Daemon!Line]]
      /\ lock \in Proc \cup {NoProc} /\ path \in Proc \cup {NoProc} /\ NoProc \notin Proc
  BY TypeByVariable DEF DInv, Following, Daemon!DaemonAssumption
<1>2. Daemon!TypeOK'
  <2>1. daemon' \in [Proc -> DaemonState]
    <3>. DEFINE d == [daemon[p] EXCEPT !.at = "gone"]
    <3>1. d \in DaemonState
      BY <1>1 DEF DaemonState
    <3>2. [d EXCEPT !.worker = "ended"] \in DaemonState
      BY <3>1 DEF DaemonState
    <3>3. daemon' = [daemon EXCEPT ![p] = [d EXCEPT !.worker = "ended"]]
      BY <1>1 DEF Daemon!Crash
    <3>. QED
      BY <1>1, <3>2, <3>3
  <2>2. conn' \in [Cmd -> ConnState]
    BY <1>1 DEF Daemon!Crash, ConnState, Daemon!Request, Daemon!NoConn, Daemon!busVars
  <2>3. cmd' \in [Cmd -> CmdState]
    BY <1>1 DEF Daemon!Crash, CmdState, Daemon!Op, Daemon!Ends, Daemon!busVars
  <2>4. sub' \in [Cmd -> [queue : Seq(Daemon!Line), got : SUBSET Daemon!Line]]
    BY <1>1 DEF Daemon!Crash, Daemon!Line, Daemon!busVars
  <2>. QED
    BY <1>1, <2>1, <2>2, <2>3, <2>4, TypeByVariable
    DEF DInv, Daemon!DaemonAssumption, Daemon!Crash, Daemon!busVars
<1>3. /\ daemon'[p].at = "gone"
      /\ \A q \in Proc : /\ q # p => daemon'[q].at = daemon[q].at
      /\ lock' = IF lock = p THEN NoProc ELSE lock
      /\ emitting' = IF lock = p THEN 0 ELSE emitting
      /\ \A k \in Cmd :
           /\ conn'[k].to = conn[k].to /\ conn'[k].what = conn[k].what
           /\ conn'[k].at = IF conn[k].to = p /\ conn[k].at \notin {"none", "ok", "err"}
                            THEN "err" ELSE conn[k].at
      /\ UNCHANGED <<path, cmd, log, sub>>
  BY <1>1
  DEF Daemon!Crash, DaemonState, ConnState, CmdState, Daemon!Op, Daemon!busVars,
    Daemon!NoConn
<1>4. Owned'
  BY <1>1, <1>2, <1>3 DEF DInv, Owned, Inside, Daemon!Alive
<1>5. Asking'
  <2>1. \A k \in Cmd : conn'[k].at \in Live => daemon'[conn[k].to].at \in Accepting
    BY <1>1, <1>3, LiveRequests DEF Live, Accepting
  <2>2. \A k \in Cmd : conn'[k].to = conn[k].to /\ conn'[k].what = conn[k].what
    BY <1>3
  <2>. QED
    BY <1>3, <2>1, <2>2, AskingFrame DEF DInv, Live
<1>6. Told'
  <2>1. \A q \in Proc : daemon[q].ready => daemon'[q].ready
    BY <1>1 DEF Daemon!Crash, DaemonState, Daemon!busVars
  <2>. QED
    BY <1>1, <1>2, <1>3, <2>1, AsksTable DEF DInv, Asking, Told, Daemon!StartedIsMine
<1>7. Following'
  <2>1. CASE lock # p
    BY <1>3, <2>1, FollowingFrame DEF DInv, Asking
  <2>2. CASE lock = p
    <3>1. \A k \in Cmd : conn'[k].at \notin {"half", "streaming"}
      <4>1. \A k \in Cmd : conn[k].at \in {"half", "streaming"} => conn[k].to = p
        BY <1>1, <2>2 DEF DInv, Owned, Asking, Daemon!Alive, Inside, Live
      <4>. QED
        BY <1>3, <4>1
    <3>2. \A k \in Cmd : conn[k].at \in {"half", "streaming", "err"} =>
                          conn'[k].at \in {"half", "streaming", "err"}
      BY <1>3
    <3>3. UNCHANGED <<cmd, sub>>
      BY <1>3
    <3>4. (\A c \in Cmd : sub[c] # [queue |-> <<>>, got |-> {}] =>
             \/ cmd[c].at = "followed"
             \/ cmd[c].at = "follow" /\ conn[c].at \in {"half", "streaming", "err"})'
      BY <3>2, <3>3 DEF DInv, Following
    <3>. QED
      BY <1>1, <3>1, <3>3, <3>4 DEF Following
  <2>. QED
    BY <2>1, <2>2
<1>. QED
  BY <1>2, <1>4, <1>5, <1>6, <1>7 DEF DInv

\* Only a ready daemon answers a status or a ping with success.
LEMMA HandleStatusKeeps ==
  ASSUME Daemon!DaemonAssumption, DInv, NEW c \in Cmd, Daemon!HandleStatus(c)
  PROVE  DInv'
<1>1. /\ daemon \in [Proc -> DaemonState] /\ conn \in [Cmd -> ConnState]
      /\ cmd \in [Cmd -> CmdState]
      /\ sub \in [Cmd -> [queue : Seq(Daemon!Line), got : SUBSET Daemon!Line]]
      /\ lock \in Proc \cup {NoProc} /\ path \in Proc \cup {NoProc}
      /\ NoProc \notin Proc
  BY TypeByVariable DEF DInv, Following, Daemon!DaemonAssumption
<1>2. Daemon!TypeOK'
  <2>1. daemon' \in [Proc -> DaemonState]
    BY <1>1 DEF Daemon!HandleStatus, Daemon!Answer, DaemonState, Daemon!busVars
  <2>2. conn' \in [Cmd -> ConnState]
    BY <1>1
    DEF Daemon!HandleStatus, Daemon!Answer, ConnState, Daemon!Request, Daemon!NoConn,
      Daemon!busVars
  <2>3. cmd' \in [Cmd -> CmdState]
    BY <1>1
    DEF Daemon!HandleStatus, Daemon!Answer, CmdState, Daemon!Op, Daemon!Ends, Daemon!busVars
  <2>4. sub' \in [Cmd -> [queue : Seq(Daemon!Line), got : SUBSET Daemon!Line]]
    BY <1>1 DEF Daemon!HandleStatus, Daemon!Answer, Daemon!Line, Daemon!busVars
  <2>. QED
    BY <1>1, <2>1, <2>2, <2>3, <2>4, TypeByVariable
    DEF DInv, Daemon!DaemonAssumption, Daemon!HandleStatus, Daemon!Answer, Daemon!busVars
<1>3. /\ conn[c].at = "handled" /\ conn[c].what \in {"status", "ping"}
      /\ \A k \in Cmd : /\ k # c => conn'[k].at = conn[k].at
                        /\ conn'[k].to = conn[k].to /\ conn'[k].what = conn[k].what
      /\ conn'[c].at = IF daemon[conn[c].to].ready THEN "ok" ELSE "err"
      /\ UNCHANGED <<lock, path, daemon, cmd, log, emitting, sub, crashes>>
  BY <1>1
  DEF Daemon!HandleStatus, Daemon!Answer, DaemonState, ConnState, CmdState, Daemon!Op,
    Daemon!busVars, Daemon!NoConn
<1>4. Owned'
  BY <1>1, <1>2, <1>3 DEF DInv, Owned, Inside, Daemon!Alive
<1>5. Asking'
  <2>1. \A k \in Cmd : conn'[k].at \in Live => daemon'[conn[k].to].at \in Accepting
    BY <1>1, <1>3, LiveRequests DEF Live, Accepting
  <2>2. \A k \in Cmd : conn'[k].to = conn[k].to /\ conn'[k].what = conn[k].what
    BY <1>3
  <2>. QED
    BY <1>3, <2>1, <2>2, AskingFrame DEF DInv, Live
<1>6. Told'
  <2>1. \A q \in Proc : daemon[q].ready => daemon'[q].ready
    BY <1>1 DEF Daemon!HandleStatus, Daemon!Answer, DaemonState, Daemon!busVars
  <2>. QED
    BY <1>1, <1>2, <1>3, <2>1, AsksTable DEF DInv, Asking, Told, Daemon!StartedIsMine
<1>7. Following'
  BY <1>1, <1>2, <1>3, FollowingFrame, AsksTable DEF DInv, Asking
<1>. QED
  BY <1>2, <1>4, <1>5, <1>6, <1>7 DEF DInv

\* The reply to a stop goes out
LEMMA HandleStopKeeps ==
  ASSUME Daemon!DaemonAssumption, DInv, NEW c \in Cmd, Daemon!HandleStop(c)
  PROVE  DInv'
<1>1. /\ daemon \in [Proc -> DaemonState] /\ conn \in [Cmd -> ConnState]
      /\ cmd \in [Cmd -> CmdState]
      /\ sub \in [Cmd -> [queue : Seq(Daemon!Line), got : SUBSET Daemon!Line]]
      /\ lock \in Proc \cup {NoProc} /\ path \in Proc \cup {NoProc}
      /\ NoProc \notin Proc
  BY TypeByVariable DEF DInv, Following, Daemon!DaemonAssumption
<1>2. Daemon!TypeOK'
  <2>1. daemon' \in [Proc -> DaemonState]
    BY <1>1 DEF Daemon!HandleStop, Daemon!Answer, DaemonState, Daemon!busVars
  <2>2. conn' \in [Cmd -> ConnState]
    BY <1>1, ConnectionGoes DEF Daemon!HandleStop, Daemon!Answer, Daemon!busVars
  <2>3. cmd' \in [Cmd -> CmdState]
    BY <1>1
    DEF Daemon!HandleStop, Daemon!Answer, CmdState, Daemon!Op, Daemon!Ends, Daemon!busVars
  <2>4. sub' \in [Cmd -> [queue : Seq(Daemon!Line), got : SUBSET Daemon!Line]]
    BY <1>1 DEF Daemon!HandleStop, Daemon!Answer, Daemon!Line, Daemon!busVars
  <2>. QED
    BY <1>1, <2>1, <2>2, <2>3, <2>4, TypeByVariable
    DEF DInv, Daemon!DaemonAssumption, Daemon!HandleStop, Daemon!Answer, Daemon!busVars
<1>3. /\ conn[c].at = "handled" /\ conn[c].what = "stop"
      /\ \A k \in Cmd : /\ conn'[k].at = IF k = c THEN "answered" ELSE conn[k].at
                        /\ conn'[k].to = conn[k].to /\ conn'[k].what = conn[k].what
      /\ UNCHANGED <<lock, path, daemon, cmd, log, emitting, sub, crashes>>
  BY <1>1
  DEF Daemon!HandleStop, Daemon!Answer, DaemonState, ConnState, CmdState, Daemon!Op,
    Daemon!busVars, Daemon!NoConn
<1>4. Owned'
  BY <1>1, <1>2, <1>3 DEF DInv, Owned, Inside, Daemon!Alive
<1>5. Asking'
  <2>1. \A k \in Cmd : conn'[k].at \in Live => daemon'[conn[k].to].at \in Accepting
    BY <1>1, <1>3, LiveRequests DEF Live, Accepting
  <2>2. \A k \in Cmd : conn'[k].to = conn[k].to /\ conn'[k].what = conn[k].what
    BY <1>3
  <2>. QED
    BY <1>3, <2>1, <2>2, AskingFrame DEF DInv, Live
<1>6. Told'
  <2>1. \A q \in Proc : daemon[q].ready => daemon'[q].ready
    BY <1>1 DEF Daemon!HandleStop, Daemon!Answer, DaemonState, Daemon!busVars
  <2>. QED
    BY <1>1, <1>2, <1>3, <2>1, AsksTable DEF DInv, Asking, Told, Daemon!StartedIsMine
<1>7. Following'
  BY <1>1, <1>2, <1>3, FollowingFrame, AsksTable DEF DInv, Asking
<1>. QED
  BY <1>2, <1>4, <1>5, <1>6, <1>7 DEF DInv

\* and stop is set after it.
LEMMA SetStopKeeps ==
  ASSUME Daemon!DaemonAssumption, DInv, NEW c \in Cmd, Daemon!SetStop(c)
  PROVE  DInv'
<1>1. /\ daemon \in [Proc -> DaemonState] /\ conn \in [Cmd -> ConnState]
      /\ cmd \in [Cmd -> CmdState]
      /\ sub \in [Cmd -> [queue : Seq(Daemon!Line), got : SUBSET Daemon!Line]]
      /\ lock \in Proc \cup {NoProc} /\ path \in Proc \cup {NoProc}
      /\ NoProc \notin Proc
  BY TypeByVariable DEF DInv, Following, Daemon!DaemonAssumption
<1>2. Daemon!TypeOK'
  <2>1. daemon' \in [Proc -> DaemonState]
    BY <1>1 DEF Daemon!SetStop, Daemon!Answer, DaemonState, Daemon!busVars
  <2>2. conn' \in [Cmd -> ConnState]
    BY <1>1, ConnectionGoes DEF Daemon!SetStop, Daemon!Answer, Daemon!busVars
  <2>3. cmd' \in [Cmd -> CmdState]
    BY <1>1
    DEF Daemon!SetStop, Daemon!Answer, CmdState, Daemon!Op, Daemon!Ends, Daemon!busVars
  <2>4. sub' \in [Cmd -> [queue : Seq(Daemon!Line), got : SUBSET Daemon!Line]]
    BY <1>1 DEF Daemon!SetStop, Daemon!Answer, Daemon!Line, Daemon!busVars
  <2>. QED
    BY <1>1, <2>1, <2>2, <2>3, <2>4, TypeByVariable
    DEF DInv, Daemon!DaemonAssumption, Daemon!SetStop, Daemon!Answer, Daemon!busVars
<1>3. /\ conn[c].at = "answered"
      /\ \A q \in Proc : /\ daemon'[q].at = daemon[q].at
      /\ \A k \in Cmd : /\ conn'[k].at = IF k = c THEN "ok" ELSE conn[k].at
                        /\ conn'[k].to = conn[k].to /\ conn'[k].what = conn[k].what
      /\ UNCHANGED <<lock, path, cmd, log, emitting, sub, crashes>>
  BY <1>1
  DEF Daemon!SetStop, Daemon!Answer, DaemonState, ConnState, CmdState, Daemon!Op,
    Daemon!busVars, Daemon!NoConn
<1>4. Owned'
  BY <1>1, <1>2, <1>3 DEF DInv, Owned, Inside, Daemon!Alive
<1>5. Asking'
  <2>1. \A k \in Cmd : conn'[k].at \in Live => daemon'[conn[k].to].at \in Accepting
    BY <1>1, <1>3, LiveRequests DEF Live, Accepting
  <2>2. \A k \in Cmd : conn'[k].to = conn[k].to /\ conn'[k].what = conn[k].what
    BY <1>3
  <2>. QED
    BY <1>3, <2>1, <2>2, AskingFrame DEF DInv, Live
<1>6. Told'
  <2>1. \A q \in Proc : daemon[q].ready => daemon'[q].ready
    BY <1>1 DEF Daemon!SetStop, Daemon!Answer, DaemonState, Daemon!busVars
  <2>. QED
    BY <1>1, <1>2, <1>3, <2>1, AsksTable DEF DInv, Asking, Told, Daemon!StartedIsMine
<1>7. Following'
  BY <1>1, <1>2, <1>3, FollowingFrame, AsksTable DEF DInv, Asking
<1>. QED
  BY <1>2, <1>4, <1>5, <1>6, <1>7 DEF DInv

\* A follower is registered with nothing queued; the history then joins the
\* lines queued since.
LEMMA SubscribeKeeps ==
  ASSUME Daemon!DaemonAssumption, DInv, NEW c \in Cmd, Daemon!Subscribe(c)
  PROVE  DInv'
<1>1. /\ daemon \in [Proc -> DaemonState] /\ conn \in [Cmd -> ConnState]
      /\ cmd \in [Cmd -> CmdState]
      /\ sub \in [Cmd -> [queue : Seq(Daemon!Line), got : SUBSET Daemon!Line]]
      /\ log.from \in 1..(LineMax + 1) /\ log.to \in 0..LineMax /\ LineMax \in Nat
  BY TypeByVariable DEF DInv, Following, Daemon!DaemonAssumption
<1>2. /\ conn[c].what = "subscribe"
      /\ UNCHANGED <<lock, path, daemon, cmd, log, emitting, crashes>>
  BY DEF Daemon!Subscribe
<1>3. PICK at \in {"half", "streaming"} :
        /\ conn' = [conn EXCEPT ![c].at = at]
        /\ at = "half" => conn[c].at = "handled" /\ sub' = sub
        /\ at = "streaming" => conn[c].at = "half" /\ sub' = [sub EXCEPT ![c].got = Daemon!History]
  BY DEF Daemon!Subscribe, Daemon!SubscribeStep, Daemon!SubscribeOrder, Daemon!Answer
<1>4. /\ conn' \in [Cmd -> ConnState]
      /\ \A k \in Cmd : conn'[k].at = IF k = c THEN at ELSE conn[k].at
      /\ \A k \in Cmd : conn'[k].to = conn[k].to /\ conn'[k].what = conn[k].what
  <2>1. CASE at = "half"
    BY <1>1, <1>3, <2>1, ConnectionGoes
  <2>2. CASE at = "streaming"
    BY <1>1, <1>3, <2>2, ConnectionGoes
  <2>. QED
    BY <2>1, <2>2
<1>5. /\ sub' \in [Cmd -> [queue : Seq(Daemon!Line), got : SUBSET Daemon!Line]]
      /\ \A k \in Cmd \ {c} : sub'[k] = sub[k]
      /\ at = "streaming" => sub'[c].got = Daemon!History /\ sub'[c].queue = sub[c].queue
  <2>1. Daemon!History \subseteq Daemon!Line
    BY <1>1 DEF Daemon!History, Daemon!Line
  <2>. QED
    BY <1>1, <1>3, <2>1
<1>6. Daemon!TypeOK'
  BY <1>1, <1>2, <1>4, <1>5, TypeByVariable DEF DInv
<1>7. Owned'
  BY <1>2 DEF DInv, Owned, Inside, Daemon!Alive
<1>8. Asking'
  <2>1. \A k \in Cmd : conn'[k].at \in Live => daemon'[conn[k].to].at \in Accepting
    BY <1>2, <1>3, <1>4, LiveRequests DEF Live
  <2>. QED
    BY <1>2, <1>3, <1>4, <2>1, AskingFrame DEF DInv, Live
<1>9. Told'
  <2>1. \A k \in Cmd : conn'[k].at = "ok" => conn[k].at = "ok"
    BY <1>4
  <2>. QED
    BY <1>2, <1>4, <2>1 DEF DInv, Told, Daemon!StartedIsMine
<1>10. Following'
  <2>1. cmd[c].at = "follow"
    BY <1>2, <1>3, AsksTable DEF DInv, Asking
  <2>2. (\A k \in Cmd : sub[k] # [queue |-> <<>>, got |-> {}] =>
           \/ cmd[k].at = "followed"
           \/ cmd[k].at = "follow" /\ conn[k].at \in {"half", "streaming", "err"})'
    BY <1>2, <1>4, <1>5, <2>1 DEF DInv, Following
  <2>3. (\A k \in Cmd : conn[k].at = "half" => sub[k].got = {})'
    <3>1. CASE at = "half"
      <4>1. sub[c] = [queue |-> <<>>, got |-> {}]
        BY <1>3, <2>1, <3>1 DEF DInv, Following
      <4>. QED
        BY <1>3, <1>4, <3>1, <4>1 DEF DInv, Following
    <3>2. CASE at = "streaming"
      BY <1>4, <1>5, <3>2 DEF DInv, Following
    <3>. QED
      BY <3>1, <3>2
  <2>4. ASSUME NEW k \in Cmd, conn'[k].at \in {"half", "streaming"},
               NEW first \in Daemon!Sent(k)',
               NEW line \in first..log.to
        PROVE  line \in Daemon!Sent(k)' \/ line = emitting
    <3>1. CASE k # c
      <4>1. sub'[k] = sub[k] /\ conn[k].at \in {"half", "streaming"}
        BY <1>4, <1>5, <2>4, <3>1
      <4>2. Daemon!Sent(k)' = Daemon!Sent(k)
        BY <4>1 DEF Daemon!Sent
      <4>. QED
        BY <2>4, <4>1, <4>2 DEF DInv, Following
    <3>2. CASE k = c /\ at = "half"
      <4>1. sub'[c] = [queue |-> <<>>, got |-> {}]
        BY <1>3, <2>1, <3>2 DEF DInv, Following
      <4>2. Daemon!Sent(c)' = {}
        BY <4>1 DEF Daemon!Sent, Daemon!ToSet
      <4>. QED
        BY <2>4, <3>2, <4>2
    <3>3. CASE k = c /\ at = "streaming"
      <4>1. sub[c].got = {} /\ conn[c].at = "half"
        BY <1>3, <3>3 DEF DInv, Following
      <4>2. Daemon!Sent(c) = Daemon!ToSet(sub[c].queue)
        BY <4>1 DEF Daemon!Sent
      <4>3. Daemon!Sent(c)' = Daemon!History \cup Daemon!Sent(c)
        BY <1>5, <3>3, <4>2 DEF Daemon!Sent
      <4>4. CASE first \in Daemon!Sent(c)
        BY <2>4, <3>3, <4>1, <4>3, <4>4 DEF DInv, Following
      <4>5. CASE first \in Daemon!History
        BY <1>1, <2>4, <3>3, <4>3, <4>5 DEF Daemon!History
      <4>. QED
        BY <2>4, <3>3, <4>3, <4>4, <4>5
    <3>. QED
      BY <3>1, <3>2, <3>3
  <2>5. (\A k \in Cmd : conn[k].at \in {"half", "streaming"} =>
           \A first \in Daemon!Sent(k) : \A line \in first..log.to : line \in Daemon!Sent(k) \/ line = emitting)'
    BY <1>2, <2>4
  <2>. QED
    BY <1>5, <2>2, <2>3, <2>5 DEF Following
<1>. QED
  BY <1>6, <1>7, <1>8, <1>9, <1>10 DEF DInv

\* Sending moves a line from the queue to the follower.
LEMMA StreamKeeps ==
  ASSUME Daemon!DaemonAssumption, DInv, NEW c \in Cmd, Daemon!Stream(c)
  PROVE  DInv'
<1>1. /\ sub \in [Cmd -> [queue : Seq(Daemon!Line), got : SUBSET Daemon!Line]]
      /\ UNCHANGED <<lock, path, daemon, cmd, conn, log, emitting, crashes>>
      /\ conn[c].at = "streaming"
  BY DEF DInv, Following, Daemon!Stream
<1>2. PICK q \in Seq(Daemon!Line), x \in Daemon!Line, r \in Seq(Daemon!Line) :
        /\ sub[c].queue = q /\ Daemon!ToSet(q) = {x} \cup Daemon!ToSet(r)
        /\ sub' = [sub EXCEPT ![c] = [queue |-> r, got |-> sub[c].got \cup {x}]]
  <2>1. sub[c].queue \in Seq(Daemon!Line) /\ sub[c].queue # <<>>
    BY <1>1 DEF Daemon!Stream
  <2>2. /\ Head(sub[c].queue) \in Daemon!Line /\ Tail(sub[c].queue) \in Seq(Daemon!Line)
        /\ Daemon!ToSet(sub[c].queue) = {Head(sub[c].queue)} \cup Daemon!ToSet(Tail(sub[c].queue))
    BY <2>1, QueueSets
  <2>3. sub' = [sub EXCEPT ![c] = [queue |-> Tail(sub[c].queue),
                                   got |-> sub[c].got \cup {Head(sub[c].queue)}]]
    BY <1>1 DEF Daemon!Stream
  <2>. QED
    BY <2>1, <2>2, <2>3
<1>3. /\ sub' \in [Cmd -> [queue : Seq(Daemon!Line), got : SUBSET Daemon!Line]]
      /\ \A k \in Cmd \ {c} : sub'[k] = sub[k]
      /\ sub'[c].queue = r /\ sub'[c].got = sub[c].got \cup {x}
  BY <1>1, <1>2
<1>4. Daemon!Sent(c)' = Daemon!Sent(c)
  BY <1>2, <1>3 DEF Daemon!Sent
<1>5. \A k \in Cmd : Daemon!Sent(k)' = Daemon!Sent(k)
  <2>1. ASSUME NEW k \in Cmd, k # c PROVE Daemon!Sent(k)' = Daemon!Sent(k)
    BY <1>3, <2>1 DEF Daemon!Sent
  <2>. QED
    BY <1>4, <2>1
<1>6. Daemon!TypeOK'
  BY <1>1, <1>3 DEF DInv, Daemon!TypeOK
<1>7. Owned'
  BY <1>1 DEF DInv, Owned, Daemon!Alive
<1>8. Asking'
  BY <1>1 DEF DInv, Asking, Daemon!Alive
<1>9. Told'
  BY <1>1 DEF DInv, Told, Daemon!StartedIsMine
<1>10. Following'
  <2>1. cmd[c].at = "follow"
    BY <1>1, AsksTable DEF DInv, Asking, Live
  <2>2. (\A k \in Cmd : sub[k] # [queue |-> <<>>, got |-> {}] =>
           \/ cmd[k].at = "followed"
           \/ cmd[k].at = "follow" /\ conn[k].at \in {"half", "streaming", "err"})'
    BY <1>1, <1>3, <2>1 DEF DInv, Following
  <2>3. (\A k \in Cmd : conn[k].at = "half" => sub[k].got = {})'
    BY <1>1, <1>3 DEF DInv, Following
  <2>4. (\A k \in Cmd : conn[k].at \in {"half", "streaming"} =>
           \A first \in Daemon!Sent(k) : \A line \in first..log.to : line \in Daemon!Sent(k) \/ line = emitting)'
    BY <1>1, <1>5 DEF DInv, Following
  <2>. QED
    BY <1>3, <2>2, <2>3, <2>4 DEF Following
<1>. QED
  BY <1>6, <1>7, <1>8, <1>9, <1>10 DEF DInv

\* A follower told to end keeps what it was sent.
LEMMA StreamEndsKeeps ==
  ASSUME Daemon!DaemonAssumption, DInv, NEW c \in Cmd, Daemon!StreamEnds(c)
  PROVE  DInv'
<1>1. /\ daemon \in [Proc -> DaemonState] /\ conn \in [Cmd -> ConnState]
      /\ cmd \in [Cmd -> CmdState]
      /\ sub \in [Cmd -> [queue : Seq(Daemon!Line), got : SUBSET Daemon!Line]]
      /\ lock \in Proc \cup {NoProc} /\ path \in Proc \cup {NoProc}
      /\ NoProc \notin Proc
  BY TypeByVariable DEF DInv, Following, Daemon!DaemonAssumption
<1>2. Daemon!TypeOK'
  <2>1. daemon' \in [Proc -> DaemonState]
    BY <1>1
    DEF Daemon!StreamEnds, Daemon!Answer, Daemon!StreamOver, DaemonState, Daemon!busVars
  <2>2. conn' \in [Cmd -> ConnState]
    BY <1>1, ConnectionGoes
    DEF Daemon!StreamEnds, Daemon!Answer, Daemon!StreamOver, Daemon!busVars
  <2>3. cmd' \in [Cmd -> CmdState]
    BY <1>1
    DEF Daemon!StreamEnds, Daemon!Answer, Daemon!StreamOver, CmdState, Daemon!Op,
      Daemon!Ends, Daemon!busVars
  <2>4. sub' \in [Cmd -> [queue : Seq(Daemon!Line), got : SUBSET Daemon!Line]]
    BY <1>1
    DEF Daemon!StreamEnds, Daemon!Answer, Daemon!StreamOver, Daemon!Line, Daemon!busVars
  <2>. QED
    BY <1>1, <2>1, <2>2, <2>3, <2>4, TypeByVariable
    DEF DInv, Daemon!DaemonAssumption, Daemon!StreamEnds, Daemon!Answer,
      Daemon!StreamOver, Daemon!busVars
<1>3. /\ conn[c].at = "streaming"
      /\ \A k \in Cmd : /\ conn'[k].at = IF k = c THEN "err" ELSE conn[k].at
                        /\ conn'[k].to = conn[k].to /\ conn'[k].what = conn[k].what
      /\ UNCHANGED <<lock, path, daemon, cmd, log, emitting, sub, crashes>>
  BY <1>1
  DEF Daemon!StreamEnds, Daemon!Answer, Daemon!StreamOver, DaemonState, ConnState,
    CmdState, Daemon!Op, Daemon!busVars, Daemon!NoConn
<1>4. Owned'
  BY <1>1, <1>2, <1>3 DEF DInv, Owned, Inside, Daemon!Alive
<1>5. Asking'
  <2>1. \A k \in Cmd : conn'[k].at \in Live => daemon'[conn[k].to].at \in Accepting
    BY <1>1, <1>3, LiveRequests DEF Live, Accepting
  <2>2. \A k \in Cmd : conn'[k].to = conn[k].to /\ conn'[k].what = conn[k].what
    BY <1>3
  <2>. QED
    BY <1>3, <2>1, <2>2, AskingFrame DEF DInv, Live
<1>6. Told'
  <2>1. \A q \in Proc : daemon[q].ready => daemon'[q].ready
    BY <1>1
    DEF Daemon!StreamEnds, Daemon!Answer, Daemon!StreamOver, DaemonState, Daemon!busVars
  <2>. QED
    BY <1>1, <1>2, <1>3, <2>1, AsksTable DEF DInv, Asking, Told, Daemon!StartedIsMine
<1>7. Following'
  BY <1>1, <1>2, <1>3, FollowingFrame, AsksTable DEF DInv, Asking
<1>. QED
  BY <1>2, <1>4, <1>5, <1>6, <1>7 DEF DInv

\* A line that is written is owed to every follower until it is sent.
LEMMA EmitWriteKeeps ==
  ASSUME Daemon!DaemonAssumption, DInv, NEW p \in Proc, Daemon!EmitWrite(p)
  PROVE  DInv'
<1>1. /\ UNCHANGED <<lock, path, daemon, cmd, conn, sub, crashes>>
      /\ emitting = 0 /\ emitting' = log.to + 1 /\ log.to < LineMax
      /\ log'.to = log.to + 1 /\ log'.from \in {log.from, log.to + 1}
  BY DEF Daemon!EmitWrite
<1>2. log.from \in 1..(LineMax + 1) /\ log.to \in 0..LineMax /\ LineMax \in Nat
  BY TypeByVariable DEF DInv, Daemon!DaemonAssumption
<1>3. log'.from \in 1..(LineMax + 1) /\ log'.to \in 0..LineMax /\ emitting' \in 0..LineMax
  BY <1>1, <1>2
<1>4. sub' \in [Cmd -> [queue : Seq(Daemon!Line), got : SUBSET Daemon!Line]]
  BY <1>1 DEF DInv, Following
<1>5. Daemon!TypeOK'
  BY <1>1, <1>3, <1>4 DEF DInv, Daemon!TypeOK
<1>6. Owned'
  BY <1>1 DEF DInv, Owned, Daemon!Alive
<1>7. Asking'
  BY <1>1 DEF DInv, Asking, Daemon!Alive
<1>8. Told'
  BY <1>1 DEF DInv, Told, Daemon!StartedIsMine
<1>9. Following'
  <2>1. \A k \in Cmd : Daemon!Sent(k)' = Daemon!Sent(k) /\ Daemon!Sent(k) \subseteq Daemon!Line
    <3>1. ASSUME NEW k \in Cmd PROVE Daemon!Sent(k) \subseteq Daemon!Line
      <4>1. sub[k].queue \in Seq(Daemon!Line) /\ sub[k].got \subseteq Daemon!Line
        BY DEF DInv, Following
      <4>. QED
        BY <4>1, QueueSets DEF Daemon!Sent
    <3>2. ASSUME NEW k \in Cmd PROVE Daemon!Sent(k)' = Daemon!Sent(k)
      BY <1>1 DEF Daemon!Sent
    <3>. QED
      BY <3>1, <3>2
  <2>2. ASSUME NEW k \in Cmd, conn[k].at \in {"half", "streaming"},
               NEW first \in Daemon!Sent(k),
               NEW line \in first..(log.to + 1)
        PROVE  line \in Daemon!Sent(k) \/ line = log.to + 1
    <3>1. first \in Nat /\ first >= 1 /\ line # 0
      BY <1>2, <2>1, <2>2 DEF Daemon!Line
    <3>2. CASE line \in first..log.to
      <4>1. line \in Daemon!Sent(k) \/ line = emitting
        BY <2>2, <3>2 DEF DInv, Following
      <4>. QED
        BY <1>1, <3>1, <4>1
    <3>3. CASE line \notin first..log.to
      BY <1>2, <2>2, <3>1, <3>3
    <3>. QED
      BY <3>2, <3>3
  <2>3. (\A k \in Cmd : conn[k].at \in {"half", "streaming"} =>
           \A first \in Daemon!Sent(k) : \A line \in first..log.to : line \in Daemon!Sent(k) \/ line = emitting)'
    BY <1>1, <2>1, <2>2
  <2>4. (\A k \in Cmd : sub[k] # [queue |-> <<>>, got |-> {}] =>
           \/ cmd[k].at = "followed"
           \/ cmd[k].at = "follow" /\ conn[k].at \in {"half", "streaming", "err"})'
    BY <1>1 DEF DInv, Following
  <2>5. (\A k \in Cmd : conn[k].at = "half" => sub[k].got = {})'
    BY <1>1 DEF DInv, Following
  <2>. QED
    BY <1>4, <2>3, <2>4, <2>5 DEF Following
<1>. QED
  BY <1>5, <1>6, <1>7, <1>8, <1>9 DEF DInv

\* It is sent to all that have registered.
LEMMA EmitSendKeeps ==
  ASSUME Daemon!DaemonAssumption, DInv, Daemon!EmitSend
  PROVE  DInv'
<1>1. /\ UNCHANGED <<lock, path, daemon, cmd, conn, log, crashes>>
      /\ emitting # 0 /\ emitting' = 0
      /\ sub' = [c \in Cmd |-> IF conn[c].at \in {"half", "streaming"}
                               THEN [sub[c] EXCEPT !.queue = Append(@, emitting)] ELSE sub[c]]
  BY DEF Daemon!EmitSend, Daemon!Subscribed, Daemon!SubscribeOrder
<1>2. /\ sub \in [Cmd -> [queue : Seq(Daemon!Line), got : SUBSET Daemon!Line]]
      /\ emitting \in Daemon!Line /\ LineMax \in Nat /\ log.to \in 0..LineMax
  BY <1>1, TypeByVariable DEF DInv, Following, Daemon!Line, Daemon!DaemonAssumption
<1>3. ASSUME NEW c \in Cmd
      PROVE  /\ sub[c].queue \in Seq(Daemon!Line) /\ sub[c].got \subseteq Daemon!Line
             /\ Append(sub[c].queue, emitting) \in Seq(Daemon!Line)
             /\ Daemon!ToSet(Append(sub[c].queue, emitting)) = Daemon!ToSet(sub[c].queue) \cup {emitting}
  <2>1. sub[c].queue \in Seq(Daemon!Line) /\ sub[c].got \subseteq Daemon!Line
    BY <1>2
  <2>. QED
    BY <1>2, <2>1, QueueSets
<1>4. ASSUME NEW c \in Cmd
      PROVE  /\ conn[c].at \in {"half", "streaming"} =>
                  /\ sub'[c].queue = Append(sub[c].queue, emitting) /\ sub'[c].got = sub[c].got
                  /\ sub'[c] \in [queue : Seq(Daemon!Line), got : SUBSET Daemon!Line]
             /\ conn[c].at \notin {"half", "streaming"} => sub'[c] = sub[c]
  BY <1>1, <1>2, <1>3
<1>5. sub' \in [Cmd -> [queue : Seq(Daemon!Line), got : SUBSET Daemon!Line]]
  <2>1. \A c \in Cmd : sub'[c] \in [queue : Seq(Daemon!Line), got : SUBSET Daemon!Line]
    BY <1>2, <1>4
  <2>2. sub' = [c \in Cmd |-> sub'[c]]
    BY <1>1
  <2>. QED
    BY <2>1, <2>2
<1>6. \A c \in Cmd : Daemon!Sent(c)' = IF conn[c].at \in {"half", "streaming"}
                               THEN Daemon!Sent(c) \cup {emitting} ELSE Daemon!Sent(c)
  <2>1. ASSUME NEW c \in Cmd, conn[c].at \in {"half", "streaming"}
        PROVE  Daemon!Sent(c)' = Daemon!Sent(c) \cup {emitting}
    BY <1>3, <1>4, <2>1 DEF Daemon!Sent
  <2>2. ASSUME NEW c \in Cmd, conn[c].at \notin {"half", "streaming"}
        PROVE  Daemon!Sent(c)' = Daemon!Sent(c)
    BY <1>4, <2>2 DEF Daemon!Sent
  <2>. QED
    BY <2>1, <2>2
<1>7. Daemon!TypeOK'
  BY <1>1, <1>2, <1>5 DEF DInv, Daemon!TypeOK
<1>8. Owned'
  BY <1>1 DEF DInv, Owned, Daemon!Alive
<1>9. Asking'
  BY <1>1 DEF DInv, Asking, Daemon!Alive
<1>10. Told'
  BY <1>1 DEF DInv, Told, Daemon!StartedIsMine
<1>11. Following'
  <2>1. \A c \in Cmd : conn[c].at \in {"half", "streaming"} => cmd[c].at = "follow"
    BY AsksTable DEF DInv, Asking, Live
  <2>2. (\A c \in Cmd : sub[c] # [queue |-> <<>>, got |-> {}] =>
           \/ cmd[c].at = "followed"
           \/ cmd[c].at = "follow" /\ conn[c].at \in {"half", "streaming", "err"})'
    BY <1>1, <1>4, <2>1 DEF DInv, Following
  <2>3. (\A c \in Cmd : conn[c].at = "half" => sub[c].got = {})'
    BY <1>1, <1>4 DEF DInv, Following
  <2>4. ASSUME NEW c \in Cmd, conn[c].at \in {"half", "streaming"},
               NEW first \in Daemon!Sent(c) \cup {emitting}, NEW line \in first..log.to
        PROVE  line \in Daemon!Sent(c) \cup {emitting}
    <3>1. CASE first \in Daemon!Sent(c)
      BY <2>4, <3>1 DEF DInv, Following
    <3>2. CASE first = emitting
      BY <1>1, <1>2, <2>4, <3>2 DEF DInv, Owned, Daemon!Line
    <3>. QED
      BY <2>4, <3>1, <3>2
  <2>5. (\A c \in Cmd : conn[c].at \in {"half", "streaming"} =>
           \A first \in Daemon!Sent(c) : \A line \in first..log.to : line \in Daemon!Sent(c) \/ line = emitting)'
    <3>1. \A c \in Cmd : conn[c].at \in {"half", "streaming"} => Daemon!Sent(c)' = Daemon!Sent(c) \cup {emitting}
      BY <1>6
    <3>. QED
      BY <1>1, <2>4, <3>1
  <2>. QED
    BY <1>5, <2>2, <2>3, <2>5 DEF Following
<1>. QED
  BY <1>7, <1>8, <1>9, <1>10, <1>11 DEF DInv

\* A command starts without a request.
LEMMA BeginKeeps ==
  ASSUME Daemon!DaemonAssumption, DInv, NEW c \in Cmd, Daemon!Begin(c)
  PROVE  DInv'
<1>1. /\ daemon \in [Proc -> DaemonState] /\ conn \in [Cmd -> ConnState]
      /\ cmd \in [Cmd -> CmdState]
      /\ sub \in [Cmd -> [queue : Seq(Daemon!Line), got : SUBSET Daemon!Line]]
      /\ lock \in Proc \cup {NoProc} /\ path \in Proc \cup {NoProc}
      /\ NoProc \notin Proc
  BY TypeByVariable DEF DInv, Following, Daemon!DaemonAssumption
<1>2. Daemon!TypeOK'
  <2>1. daemon' \in [Proc -> DaemonState]
    BY <1>1, FirstTable DEF Daemon!Begin, Daemon!Goes, DaemonState, Daemon!busVars
  <2>2. conn' \in [Cmd -> ConnState]
    BY <1>1, FirstTable
    DEF Daemon!Begin, Daemon!Goes, ConnState, Daemon!Request, Daemon!NoConn, Daemon!busVars
  <2>3. cmd' \in [Cmd -> CmdState]
    BY <1>1, FirstTable
    DEF Daemon!Begin, Daemon!Goes, CmdState, Daemon!Op, Daemon!Ends, Daemon!busVars
  <2>4. sub' \in [Cmd -> [queue : Seq(Daemon!Line), got : SUBSET Daemon!Line]]
    BY <1>1, FirstTable DEF Daemon!Begin, Daemon!Goes, Daemon!Line, Daemon!busVars
  <2>. QED
    BY <1>1, <2>1, <2>2, <2>3, <2>4, TypeByVariable
    DEF DInv, Daemon!DaemonAssumption, Daemon!Begin, Daemon!Goes, Daemon!busVars
<1>3. /\ cmd[c].at = "idle" /\ cmd'[c].at \in {"spawn", "ask", "mode", "follow"}
      /\ \A k \in Cmd : /\ k # c => cmd'[k].at = cmd[k].at
                        /\ cmd'[k].child = cmd[k].child
      /\ UNCHANGED <<lock, path, daemon, conn, log, emitting, sub, crashes>>
  BY <1>1, FirstTable
  DEF Daemon!Begin, Daemon!Goes, DaemonState, ConnState, CmdState, Daemon!Op,
    Daemon!busVars, Daemon!NoConn
<1>4. Owned'
  BY <1>1, <1>2, <1>3 DEF DInv, Owned, Inside, Daemon!Alive
<1>5. Asking'
  <2>1. conn[c].at = "none"
    BY <1>3, AsksTable DEF DInv, Asking
  <2>2. (\A k \in Cmd : conn[k].at # "none" => cmd[k].at \in DOMAIN Daemon!Asks)'
    BY <1>3, <2>1 DEF DInv, Asking
  <2>3. (\A k \in Cmd : conn[k].at \notin {"none", "err"} =>
           conn[k].what = Daemon!Asks[cmd[k].at] /\ conn[k].to \in Proc)'
    BY <1>3, <2>1 DEF DInv, Asking
  <2>4. (\A k \in Cmd : conn[k].at \in Live => Daemon!Alive(conn[k].to))'
    BY <1>3 DEF DInv, Asking, Daemon!Alive
  <2>5. (\A k \in Cmd : conn[k].at = "answered" => conn[k].what = "stop")'
    BY <1>3 DEF DInv, Asking
  <2>6. (\A k \in Cmd : conn[k].at \in {"half", "streaming"} => conn[k].what = "subscribe")'
    BY <1>3 DEF DInv, Asking
  <2>7. (\A k \in Cmd : cmd[k].at \in {"wait", "started"} => cmd[k].child \in Proc)'
    BY <1>3 DEF DInv, Asking
  <2>. QED
    BY <2>2, <2>3, <2>4, <2>5, <2>6, <2>7 DEF Asking
<1>6. Told'
  <2>1. \A q \in Proc : daemon[q].ready => daemon'[q].ready
    BY <1>1 DEF Daemon!Begin, Daemon!Goes, DaemonState, Daemon!busVars
  <2>. QED
    BY <1>1, <1>2, <1>3, <2>1, AsksTable DEF DInv, Asking, Told, Daemon!StartedIsMine
<1>7. Following'
  BY <1>1, <1>2, <1>3, FollowingFrame, AsksTable DEF DInv, Asking
<1>. QED
  BY <1>2, <1>4, <1>5, <1>6, <1>7 DEF DInv

\* A request goes to the owner of the path, and asks what its state asks.
LEMMA SendKeeps ==
  ASSUME Daemon!DaemonAssumption, DInv, NEW c \in Cmd, Daemon!Send(c)
  PROVE  DInv'
<1>1. /\ daemon \in [Proc -> DaemonState] /\ conn \in [Cmd -> ConnState]
      /\ cmd \in [Cmd -> CmdState]
      /\ sub \in [Cmd -> [queue : Seq(Daemon!Line), got : SUBSET Daemon!Line]]
      /\ lock \in Proc \cup {NoProc} /\ path \in Proc \cup {NoProc} /\ NoProc \notin Proc
  BY TypeByVariable DEF DInv, Following, Daemon!DaemonAssumption
<1>2. Daemon!TypeOK'
  <2>1. daemon' \in [Proc -> DaemonState]
    BY <1>1, AsksTable DEF Daemon!Send, Daemon!Listening, DaemonState, Daemon!busVars
  <2>2. conn' \in [Cmd -> ConnState]
    BY <1>1, AsksTable
    DEF Daemon!Send, Daemon!Listening, ConnState, Daemon!Request, Daemon!NoConn,
      Daemon!busVars
  <2>3. cmd' \in [Cmd -> CmdState]
    BY <1>1, AsksTable
    DEF Daemon!Send, Daemon!Listening, CmdState, Daemon!Op, Daemon!Ends, Daemon!busVars
  <2>4. sub' \in [Cmd -> [queue : Seq(Daemon!Line), got : SUBSET Daemon!Line]]
    BY <1>1, AsksTable DEF Daemon!Send, Daemon!Listening, Daemon!Line, Daemon!busVars
  <2>. QED
    BY <1>1, <2>1, <2>2, <2>3, <2>4, TypeByVariable
    DEF DInv, Daemon!DaemonAssumption, Daemon!Send, Daemon!Listening, Daemon!busVars
<1>3. /\ cmd[c].at \in DOMAIN Daemon!Asks /\ conn[c].at = "none"
      /\ \/ /\ conn'[c].at = "sent" /\ conn'[c].to = path /\ conn'[c].what = Daemon!Asks[cmd[c].at]
            /\ path \in Proc /\ Daemon!Alive(path)
         \/ conn'[c].at = "err"
      /\ \A k \in Cmd : k # c => conn'[k] = conn[k]
      /\ UNCHANGED <<lock, path, daemon, cmd, log, emitting, sub, crashes>>
  BY <1>1, AsksTable
  DEF Daemon!Send, Daemon!Listening, DaemonState, ConnState, CmdState, Daemon!Op,
    Daemon!busVars, Daemon!NoConn
<1>4. Owned'
  BY <1>1, <1>2, <1>3 DEF DInv, Owned, Inside, Daemon!Alive
<1>5. Asking'
  <2>1. \A k \in Cmd \ {c} : conn'[k] = conn[k]
    BY <1>3
  <2>2. UNCHANGED <<daemon, cmd>>
    BY <1>3
  <2>3. (\A k \in Cmd : conn[k].at # "none" => cmd[k].at \in DOMAIN Daemon!Asks)'
    BY <1>3, <2>1, <2>2 DEF DInv, Asking
  <2>4. (\A k \in Cmd : conn[k].at \notin {"none", "err"} =>
           conn[k].what = Daemon!Asks[cmd[k].at] /\ conn[k].to \in Proc)'
    BY <1>3, <2>1, <2>2 DEF DInv, Asking
  <2>5. (\A k \in Cmd : conn[k].at \in Live => Daemon!Alive(conn[k].to))'
    BY <1>3, <2>1, <2>2 DEF DInv, Asking, Daemon!Alive, Live
  <2>6. (\A k \in Cmd : conn[k].at = "answered" => conn[k].what = "stop")'
    BY <1>3, <2>1 DEF DInv, Asking
  <2>7. (\A k \in Cmd : conn[k].at \in {"half", "streaming"} => conn[k].what = "subscribe")'
    BY <1>3, <2>1 DEF DInv, Asking
  <2>8. (\A k \in Cmd : cmd[k].at \in {"wait", "started"} => cmd[k].child \in Proc)'
    BY <2>2 DEF DInv, Asking
  <2>. QED
    BY <2>3, <2>4, <2>5, <2>6, <2>7, <2>8 DEF Asking
<1>6. Told'
  <2>1. \A q \in Proc : daemon[q].ready => daemon'[q].ready
    BY <1>1 DEF Daemon!Send, Daemon!Listening, DaemonState, Daemon!busVars
  <2>. QED
    BY <1>1, <1>2, <1>3, <2>1, AsksTable DEF DInv, Asking, Told, Daemon!StartedIsMine
<1>7. Following'
  BY <1>1, <1>2, <1>3, FollowingFrame, AsksTable DEF DInv, Asking
<1>. QED
  BY <1>2, <1>4, <1>5, <1>6, <1>7 DEF DInv

\* A request given up is an error to the command.
LEMMA TimesOutKeeps ==
  ASSUME Daemon!DaemonAssumption, DInv, NEW c \in Cmd, Daemon!TimesOut(c)
  PROVE  DInv'
<1>1. /\ daemon \in [Proc -> DaemonState] /\ conn \in [Cmd -> ConnState]
      /\ cmd \in [Cmd -> CmdState]
      /\ sub \in [Cmd -> [queue : Seq(Daemon!Line), got : SUBSET Daemon!Line]]
      /\ lock \in Proc \cup {NoProc} /\ path \in Proc \cup {NoProc}
      /\ NoProc \notin Proc
  BY TypeByVariable DEF DInv, Following, Daemon!DaemonAssumption
<1>2. Daemon!TypeOK'
  <2>1. daemon' \in [Proc -> DaemonState]
    BY <1>1 DEF Daemon!TimesOut, DaemonState, Daemon!busVars
  <2>2. conn' \in [Cmd -> ConnState]
    BY <1>1, ConnectionGoes DEF Daemon!TimesOut, Daemon!busVars
  <2>3. cmd' \in [Cmd -> CmdState]
    BY <1>1 DEF Daemon!TimesOut, CmdState, Daemon!Op, Daemon!Ends, Daemon!busVars
  <2>4. sub' \in [Cmd -> [queue : Seq(Daemon!Line), got : SUBSET Daemon!Line]]
    BY <1>1 DEF Daemon!TimesOut, Daemon!Line, Daemon!busVars
  <2>. QED
    BY <1>1, <2>1, <2>2, <2>3, <2>4, TypeByVariable
    DEF DInv, Daemon!DaemonAssumption, Daemon!TimesOut, Daemon!busVars
<1>3. /\ conn[c].at = "sent"
      /\ \A k \in Cmd : /\ conn'[k].at = IF k = c THEN "err" ELSE conn[k].at
                        /\ conn'[k].to = conn[k].to /\ conn'[k].what = conn[k].what
      /\ UNCHANGED <<lock, path, daemon, cmd, log, emitting, sub, crashes>>
  BY <1>1
  DEF Daemon!TimesOut, DaemonState, ConnState, CmdState, Daemon!Op, Daemon!busVars,
    Daemon!NoConn
<1>4. Owned'
  BY <1>1, <1>2, <1>3 DEF DInv, Owned, Inside, Daemon!Alive
<1>5. Asking'
  <2>1. \A k \in Cmd : conn'[k].at \in Live => daemon'[conn[k].to].at \in Accepting
    BY <1>1, <1>3, LiveRequests DEF Live, Accepting
  <2>2. \A k \in Cmd : conn'[k].to = conn[k].to /\ conn'[k].what = conn[k].what
    BY <1>3
  <2>. QED
    BY <1>3, <2>1, <2>2, AskingFrame DEF DInv, Live
<1>6. Told'
  <2>1. \A q \in Proc : daemon[q].ready => daemon'[q].ready
    BY <1>1 DEF Daemon!TimesOut, DaemonState, Daemon!busVars
  <2>. QED
    BY <1>1, <1>2, <1>3, <2>1, AsksTable DEF DInv, Asking, Told, Daemon!StartedIsMine
<1>7. Following'
  BY <1>1, <1>2, <1>3, FollowingFrame, AsksTable DEF DInv, Asking
<1>. QED
  BY <1>2, <1>4, <1>5, <1>6, <1>7 DEF DInv

\* A start runs a new process and waits for that one.
LEMMA SpawnKeeps ==
  ASSUME Daemon!DaemonAssumption, DInv, NEW c \in Cmd, Daemon!Spawn(c)
  PROVE  DInv'
<1>1. /\ daemon \in [Proc -> DaemonState] /\ cmd \in [Cmd -> CmdState]
      /\ UNCHANGED <<lock, path, conn, log, emitting, sub, crashes>>
      /\ cmd[c].at = "spawn"
  BY TypeByVariable DEF DInv, Daemon!Spawn, Daemon!busVars
<1>2. /\ daemon' \in [Proc -> DaemonState]
      /\ \A q \in Proc : daemon'[q].at # daemon[q].at => daemon[q].at = "new" /\ daemon'[q].at = "run"
      /\ \A q \in Proc : daemon[q].ready => daemon'[q].ready
  <2>1. CASE UNCHANGED daemon
    BY <1>1, <2>1
  <2>2. ASSUME NEW p \in Proc, daemon[p].at = "new", daemon' = [daemon EXCEPT ![p].at = "run"]
        PROVE  /\ daemon' \in [Proc -> DaemonState]
               /\ \A q \in Proc : daemon'[q].at = IF q = p THEN "run" ELSE daemon[q].at
               /\ \A q \in Proc : daemon'[q].ready = daemon[q].ready
    BY <1>1, <2>2, DaemonGoes
  <2>. QED
    BY <2>1, <2>2 DEF Daemon!Spawn
<1>3. /\ cmd' \in [Cmd -> CmdState]
      /\ \A k \in Cmd \ {c} : cmd'[k] = cmd[k]
      /\ cmd'[c].at = "failed" \/ (cmd'[c].at = "wait" /\ cmd'[c].child \in Proc)
  <2>1. CASE Daemon!Goes(c, "failed")
    <3>1. cmd' = [cmd EXCEPT ![c].at = "failed"]
      BY <2>1 DEF Daemon!Goes
    <3>2. cmd[c] \in CmdState
      BY <1>1
    <3>3. [cmd[c] EXCEPT !.at = "failed"] \in CmdState
      BY <3>2 DEF CmdState, Daemon!Ends
    <3>4. cmd' = [cmd EXCEPT ![c] = [cmd[c] EXCEPT !.at = "failed"]]
      BY <1>1, <3>1
    <3>. QED
      BY <1>1, <3>2, <3>3, <3>4 DEF CmdState
  <2>2. ASSUME NEW p \in Proc, cmd' = [cmd EXCEPT ![c].at = "wait", ![c].child = p]
        PROVE  <1>3!1 /\ <1>3!2 /\ <1>3!3
    <3>1. cmd[c] \in CmdState
      BY <1>1
    <3>2. [cmd[c] EXCEPT !.at = "wait", !.child = p] \in CmdState
      BY <3>1 DEF CmdState
    <3>3. cmd' = [cmd EXCEPT ![c] = [cmd[c] EXCEPT !.at = "wait", !.child = p]]
      BY <1>1, <2>2
    <3>. QED
      BY <1>1, <3>1, <3>2, <3>3 DEF CmdState
  <2>. QED
    BY <2>1, <2>2 DEF Daemon!Spawn
<1>4. sub \in [Cmd -> [queue : Seq(Daemon!Line), got : SUBSET Daemon!Line]]
  BY DEF DInv, Following
<1>5. conn[c].at = "none"
  BY <1>1, AsksTable DEF DInv, Asking
<1>6. Daemon!TypeOK'
  BY <1>1, <1>2, <1>3, <1>4, TypeByVariable DEF DInv
<1>7. Owned'
  BY <1>1, <1>2 DEF DInv, Owned, Daemon!Alive, Inside
<1>8. Asking'
  <2>1. (\A k \in Cmd : conn[k].at # "none" => cmd[k].at \in DOMAIN Daemon!Asks)'
    BY <1>1, <1>3, <1>5 DEF DInv, Asking
  <2>2. (\A k \in Cmd : conn[k].at \notin {"none", "err"} =>
           conn[k].what = Daemon!Asks[cmd[k].at] /\ conn[k].to \in Proc)'
    BY <1>1, <1>3, <1>5 DEF DInv, Asking
  <2>3. (\A k \in Cmd : conn[k].at \in Live => Daemon!Alive(conn[k].to))'
    BY <1>1, <1>2, LiveRequests DEF Daemon!Alive, Accepting
  <2>4. (\A k \in Cmd : conn[k].at = "answered" => conn[k].what = "stop")'
    BY <1>1 DEF DInv, Asking
  <2>5. (\A k \in Cmd : conn[k].at \in {"half", "streaming"} => conn[k].what = "subscribe")'
    BY <1>1 DEF DInv, Asking
  <2>6. (\A k \in Cmd : cmd[k].at \in {"wait", "started"} => cmd[k].child \in Proc)'
    BY <1>3 DEF DInv, Asking
  <2>. QED
    BY <2>1, <2>2, <2>3, <2>4, <2>5, <2>6 DEF Asking
<1>9. Told'
  <2>1. \A k \in Cmd : conn[k].at = "ok" => conn[k].to \in Proc
    BY DEF DInv, Asking
  <2>2. (\A k \in Cmd : conn[k].at = "ok" /\ conn[k].what \in {"status", "ping"} =>
           daemon[conn[k].to].ready)'
    BY <1>1, <1>2, <2>1 DEF DInv, Told
  <2>3. Daemon!StartedIsMine'
    <3>1. \A k \in Cmd : cmd'[k].at = "started" => cmd[k] = cmd'[k] /\ cmd[k].child \in Proc
      BY <1>3 DEF DInv, Asking
    <3>. QED
      BY <1>2, <3>1 DEF DInv, Told, Daemon!StartedIsMine
  <2>. QED
    BY <2>2, <2>3 DEF Told
<1>10. Following'
  <2>1. sub[c] = [queue |-> <<>>, got |-> {}]
    BY <1>1 DEF DInv, Following
  <2>2. (\A k \in Cmd : sub[k] # [queue |-> <<>>, got |-> {}] =>
           \/ cmd[k].at = "followed"
           \/ cmd[k].at = "follow" /\ conn[k].at \in {"half", "streaming", "err"})'
    BY <1>1, <1>3, <2>1 DEF DInv, Following
  <2>3. (\A k \in Cmd : conn[k].at = "half" => sub[k].got = {})'
    BY <1>1 DEF DInv, Following
  <2>4. \A k \in Cmd : Daemon!Sent(k)' = Daemon!Sent(k)
    BY <1>1 DEF Daemon!Sent
  <2>5. (\A k \in Cmd : conn[k].at \in {"half", "streaming"} =>
           \A first \in Daemon!Sent(k) : \A line \in first..log.to : line \in Daemon!Sent(k) \/ line = emitting)'
    BY <1>1, <2>4 DEF DInv, Following
  <2>. QED
    BY <1>1, <1>4, <2>2, <2>3, <2>5 DEF Following
<1>. QED
  BY <1>6, <1>7, <1>8, <1>9, <1>10 DEF DInv

\* A command reports a start only for a ready answer of its child.
LEMMA ReactKeeps ==
  ASSUME Daemon!DaemonAssumption, DInv, NEW c \in Cmd, Daemon!React(c)
  PROVE  DInv'
<1>1. /\ conn \in [Cmd -> ConnState] /\ cmd \in [Cmd -> CmdState]
      /\ UNCHANGED <<lock, path, daemon, log, emitting, sub, crashes>>
      /\ conn[c].at \in {"ok", "err"} /\ conn' = [conn EXCEPT ![c] = Daemon!NoConn]
  BY TypeByVariable DEF DInv, Daemon!React, Daemon!busVars
<1>2. cmd[c].at \in {"mode", "ask", "ping", "wait", "follow"}
  BY <1>1, AsksTable DEF DInv, Asking
<1>3. PICK at \in Daemon!Reacts(c) : cmd' = [cmd EXCEPT ![c].at = at]
  BY DEF Daemon!React, Daemon!Goes
<1>4. /\ at \in {"ask", "ping", "spawn", "wait"} \cup Daemon!Ends
      /\ at = "wait" => cmd[c].at = "wait"
      /\ at = "started" => cmd[c].at = "wait" /\ conn[c].at = "ok" /\ conn[c].to = cmd[c].child
      /\ at = "followed" <=> cmd[c].at = "follow"
  BY <1>2, <1>3 DEF Daemon!Reacts, Daemon!IsMine, Daemon!Ends
<1>5. /\ cmd' \in [Cmd -> CmdState]
      /\ \A k \in Cmd : cmd'[k].at = IF k = c THEN at ELSE cmd[k].at
      /\ \A k \in Cmd : cmd'[k].child = cmd[k].child
  BY <1>1, <1>3, <1>4, CommandGoes
<1>6. /\ conn' \in [Cmd -> ConnState]
      /\ conn'[c].at = "none" /\ \A k \in Cmd \ {c} : conn'[k] = conn[k]
  <2>1. Daemon!NoConn \in ConnState
    BY DEF Daemon!NoConn, ConnState, Daemon!Request
  <2>. QED
    BY <1>1, <2>1 DEF Daemon!NoConn
<1>7. sub \in [Cmd -> [queue : Seq(Daemon!Line), got : SUBSET Daemon!Line]]
  BY DEF DInv, Following
<1>8. Daemon!TypeOK'
  BY <1>1, <1>5, <1>6, <1>7, TypeByVariable DEF DInv
<1>9. Owned'
  BY <1>1 DEF DInv, Owned, Daemon!Alive
<1>10. Asking'
  <2>1. (\A k \in Cmd : conn[k].at # "none" => cmd[k].at \in DOMAIN Daemon!Asks)'
    BY <1>5, <1>6 DEF DInv, Asking
  <2>2. (\A k \in Cmd : conn[k].at \notin {"none", "err"} =>
           conn[k].what = Daemon!Asks[cmd[k].at] /\ conn[k].to \in Proc)'
    BY <1>5, <1>6 DEF DInv, Asking
  <2>3. (\A k \in Cmd : conn[k].at \in Live => Daemon!Alive(conn[k].to))'
    BY <1>1, <1>6 DEF DInv, Asking, Daemon!Alive, Live
  <2>4. (\A k \in Cmd : conn[k].at = "answered" => conn[k].what = "stop")'
    BY <1>6 DEF DInv, Asking
  <2>5. (\A k \in Cmd : conn[k].at \in {"half", "streaming"} => conn[k].what = "subscribe")'
    BY <1>6 DEF DInv, Asking
  <2>6. (\A k \in Cmd : cmd[k].at \in {"wait", "started"} => cmd[k].child \in Proc)'
    BY <1>4, <1>5 DEF DInv, Asking
  <2>. QED
    BY <2>1, <2>2, <2>3, <2>4, <2>5, <2>6 DEF Asking
<1>11. Told'
  <2>1. (\A k \in Cmd : conn[k].at = "ok" /\ conn[k].what \in {"status", "ping"} =>
           daemon[conn[k].to].ready)'
    BY <1>1, <1>6 DEF DInv, Told
  <2>2. at = "started" => daemon[cmd[c].child].ready
    <3>1. at = "started" => conn[c].what = "status"
      BY <1>4, AsksTable DEF DInv, Asking
    <3>. QED
      BY <1>4, <3>1 DEF DInv, Told
  <2>3. Daemon!StartedIsMine'
    BY <1>1, <1>5, <2>2 DEF DInv, Told, Daemon!StartedIsMine
  <2>. QED
    BY <2>1, <2>3 DEF Told
<1>12. Following'
  <2>1. (\A k \in Cmd : sub[k] # [queue |-> <<>>, got |-> {}] =>
           \/ cmd[k].at = "followed"
           \/ cmd[k].at = "follow" /\ conn[k].at \in {"half", "streaming", "err"})'
    BY <1>1, <1>2, <1>4, <1>5, <1>6 DEF DInv, Following
  <2>2. (\A k \in Cmd : conn[k].at = "half" => sub[k].got = {})'
    BY <1>1, <1>6 DEF DInv, Following
  <2>3. \A k \in Cmd : Daemon!Sent(k)' = Daemon!Sent(k)
    BY <1>1 DEF Daemon!Sent
  <2>4. \A k \in Cmd : conn'[k].at \in {"half", "streaming"} => conn[k].at \in {"half", "streaming"}
    BY <1>6
  <2>5. (\A k \in Cmd : conn[k].at \in {"half", "streaming"} =>
           \A first \in Daemon!Sent(k) : \A line \in first..log.to : line \in Daemon!Sent(k) \/ line = emitting)'
    BY <1>1, <2>3, <2>4 DEF DInv, Following
  <2>. QED
    BY <1>1, <1>7, <2>1, <2>2, <2>5 DEF Following
<1>. QED
  BY <1>8, <1>9, <1>10, <1>11, <1>12 DEF DInv

-----------------------------------------------------------------------------
\* At first nothing is held, asked or written.
LEMMA DInit ==
  ASSUME Daemon!DaemonAssumption, Daemon!Init
  PROVE  DInv
<1>1. daemon \in [Proc -> DaemonState] /\ \A p \in Proc : daemon[p].at \in {"run", "new"}
  BY DEF Daemon!Init, DaemonState
<1>2. /\ cmd \in [Cmd -> CmdState]
      /\ \A c \in Cmd : cmd[c].at = "idle"
  BY DEF Daemon!Init, Daemon!DaemonAssumption, CmdState, Daemon!Op
<1>3. /\ conn \in [Cmd -> ConnState]
      /\ \A c \in Cmd : conn[c].at = "none"
  BY DEF Daemon!Init, Daemon!NoConn, ConnState, Daemon!Request
<1>4. <<>> \in Seq(Daemon!Line) /\ Daemon!ToSet(<<>>) = {}
  BY DEF Daemon!ToSet
<1>5. /\ sub \in [Cmd -> [queue : Seq(Daemon!Line), got : SUBSET Daemon!Line]]
      /\ \A c \in Cmd : sub[c] = [queue |-> <<>>, got |-> {}]
  BY <1>4 DEF Daemon!Init
<1>6. /\ lock = NoProc /\ path = NoProc /\ NoProc \notin Proc
      /\ log.from = 1 /\ log.to = 0 /\ emitting = 0 /\ crashes = 0
      /\ LineMax \in Nat /\ CrashMax \in Nat
  BY DEF Daemon!Init, Daemon!DaemonAssumption
<1>7. Daemon!TypeOK
  BY <1>1, <1>2, <1>3, <1>5, <1>6 DEF Daemon!TypeOK, DaemonState, CmdState, ConnState
<1>8. Owned
  BY <1>1, <1>6 DEF Owned, Inside, Daemon!Alive
<1>9. Asking
  BY <1>2, <1>3 DEF Asking, Live
<1>10. Told
  BY <1>2, <1>3 DEF Told, Daemon!StartedIsMine
<1>11. Following
  BY <1>3, <1>5 DEF Following
<1>. QED
  BY <1>7, <1>8, <1>9, <1>10, <1>11 DEF DInv

\* So does a step that changes nothing.
LEMMA DStutter ==
  ASSUME DInv, UNCHANGED Daemon!vars
  PROVE  DInv'
BY DEF DInv, Daemon!TypeOK, Owned, Asking, Told, Following, Daemon!Alive,
  Daemon!StartedIsMine, Daemon!Sent, Daemon!vars

\* Every step keeps it.
LEMMA DNext ==
  ASSUME Daemon!DaemonAssumption, DInv, [Daemon!Next]_(Daemon!vars)
  PROVE  DInv'
<1>1. ASSUME NEW p \in Proc, Daemon!RunStep(p) \/ Daemon!Crash(p)
      PROVE  DInv'
  BY <1>1, LockKeeps, BindKeeps, ReadyKeeps, WorkerEndsKeeps, LoopEndsKeeps, LeaveKeeps,
     ExitKeeps, EmitWriteKeeps, AcceptKeeps, CrashKeeps
     DEF Daemon!RunStep
<1>2. ASSUME NEW c \in Cmd, Daemon!HandlerStep(c)
      PROVE  DInv'
  BY <1>2, HandleStatusKeeps, HandleStopKeeps, SetStopKeeps, SubscribeKeeps, StreamKeeps,
     StreamEndsKeeps
     DEF Daemon!HandlerStep
<1>3. ASSUME NEW c \in Cmd, Daemon!CommandStep(c)
      PROVE  DInv'
  BY <1>3, BeginKeeps, SendKeeps, TimesOutKeeps, SpawnKeeps, ReactKeeps
  DEF Daemon!CommandStep
<1>. QED
  BY <1>1, <1>2, <1>3, EmitSendKeeps, DStutter DEF Daemon!Next

(* The inductive invariant holds of every behaviour.                       *)
THEOREM DaemonInvariance ==
  ASSUME Daemon!DaemonAssumption
  PROVE  Daemon!Spec => []DInv
<1>1. Daemon!Init => DInv
  BY DInit
<1>2. DInv /\ [Daemon!Next]_(Daemon!vars) => DInv'
  BY DNext
<1>. QED
  BY <1>1, <1>2, PTL DEF Daemon!Spec

(* The path names the listener of the daemon that holds the lock, whatever *)
(* stops, restarts and kills overlap; a command that reports a start has   *)
(* seen its own process ready; and a follower misses no line after its     *)
(* first, whether that came from the history or from the stream.           *)
THEOREM DaemonTells ==
  ASSUME Daemon!DaemonAssumption
  PROVE  Daemon!Spec => []Daemon!CommandsTellTruth
<1>1. DInv => Daemon!CommandsTellTruth
  <2>1. DInv => Daemon!SocketIsOwners
    BY DEF DInv, Owned, Daemon!SocketIsOwners, Daemon!Alive, Inside
  <2>2. DInv => Daemon!NoGap
    BY DEF DInv, Following, Daemon!NoGap
  <2>. QED
    BY <2>1, <2>2 DEF DInv, Told, Daemon!CommandsTellTruth
<1>. QED
  BY <1>1, DaemonInvariance, PTL

-----------------------------------------------------------------------------
CopyPath == Path \cup {Cache!NoCopy.path}
Node0 == Node \cup {Absent}
Job0 == [step : {"wait", "list", "open", "read", "check", "join", "done"},
         before : Cache!Marks, handle : Node0, read : Cache!Reads]
Copy0 == [step : {"none", "read", "check", "sent"}, path : CopyPath, ahead : BOOLEAN,
          evidence : Cache!Marks, handle : Node0, read : Cache!Reads]

WorldTyped ==
  /\ file \in [Path -> Node0]
  /\ content \in [Node -> Cache!Contents]
  /\ changed \in [Node -> 0 .. EditMax]
  /\ edits \in 0 .. EditMax /\ quiet \in BOOLEAN
PhaseTyped ==
  /\ phase \in {"closed", "prepare", "prepared", "open", "scan", "sending"}
  /\ kind \in {"prepare", "walk", "batch", "delta"}
JobTyped == job \in [Path -> Job0]
EntriesTyped ==
  prepared \in [Path -> Cache!Entries] /\ cache \in [Path -> Cache!Entries] /\ disk \in [Path -> Cache!Entries]
ManifestTyped == manifest \in [Path -> {<<>>} \cup Cache!Contents]
CopyTyped == copy \in Copy0

Typed == WorldTyped /\ PhaseTyped /\ JobTyped /\ EntriesTyped /\ ManifestTyped /\ CopyTyped

\* An inode is at one path, and no time is later than the last edit.
OneName == \A p, q \in Path : file[p] = file[q] /\ file[p] # Absent => p = q
Clock == \A n \in Node : changed[n] <= edits

\* A fingerprint that was taken of a file, and the hash it goes with.
Taken(m) == m[1] \in Node /\ m[2] \in 0 .. edits /\ m[2] <= changed[m[1]]
Truthful(e) ==
  e # Cache!NoEntry =>
    /\ Taken(e.fingerprint)
    /\ e.hash \in Cache!Contents
    /\ changed[e.fingerprint[1]] = e.fingerprint[2] => e.hash = content[e.fingerprint[1]]
Entered(entries) == \A p \in Path : Truthful(entries[p])

\* As long as the path has the fingerprint m, what was read through the handle
\* is the file: the handle is that of the path, and no piece has been written.
Follows(p, m, handle, read) ==
  Cache!At(p) = m => handle = file[p] /\ \A i \in 1 .. Len(read) : read[i] = content[handle][i]

JobOk(p) ==
  /\ job[p].step \in {"open", "read", "check", "join"} => Taken(job[p].before)
  /\ job[p].step \in {"read", "check", "join"} =>
       /\ job[p].handle \in Node
       /\ Follows(p, job[p].before, job[p].handle, job[p].read)
  /\ job[p].step = "open" => job[p].read = <<>>
  /\ job[p].step = "read" => Len(job[p].read) < 2
  /\ job[p].step \in {"check", "join"} => job[p].read \in Cache!Contents
Jobs == \A p \in Path : JobOk(p)

Copies ==
  /\ copy.step \in {"read", "check"} =>
       /\ copy.path \in Path /\ Taken(copy.evidence) /\ copy.handle \in Node
       /\ Follows(copy.path, copy.evidence, copy.handle, copy.read)
  /\ copy.step = "read" => Len(copy.read) < 2
  /\ copy.step = "check" => copy.read \in Cache!Contents

\* What a scan has returned of a path nobody edited.
Returned(p) ==
  IF file[p] = Absent THEN manifest[p] = <<>> ELSE manifest[p] = Cache!Is(p)
Exact ==
  /\ phase \in {"scan", "sending"} => kind # "prepare"
  /\ phase = "prepare" => kind = "prepare"
  /\ phase \in {"scan", "sending"} => \A p \in Path :
       /\ job[p].step = "wait" => kind = "delta"
       /\ phase = "sending" => job[p].step \in {"wait", "done"}
       /\ job[p].step # "done" => manifest[p] = <<>>
       /\ quiet /\ job[p].step = "done" => Returned(p)

CaInv ==
  /\ Typed /\ OneName /\ Clock
  /\ Entered(cache) /\ Entered(disk) /\ Entered(prepared)
  /\ Jobs /\ Copies /\ Exact

-----------------------------------------------------------------------------
\* A piece that is read extends what was read so far.
LEMMA ReadGrows ==
  ASSUME NEW read \in Cache!Reads, NEW c \in Cache!Contents, Len(read) < 2
  PROVE  LET r == Append(read, c[Len(read) + 1])
         IN  /\ r \in Cache!Reads
             /\ (Len(r) = 1 \/ Len(r) = 2)
             /\ Len(r) = 2 => r \in Cache!Contents
             /\ (\A i \in 1 .. Len(read) : read[i] = c[i]) => \A i \in 1 .. Len(r) : r[i] = c[i]
<1>1. c[1] \in Piece /\ c[2] \in Piece
  BY DEF Cache!Contents
<1>2. CASE read = <<>>
  <2>1. Append(read, c[Len(read) + 1]) = <<c[1]>>
    BY <1>2
  <2>. QED
    BY <1>1, <1>2, <2>1 DEF Cache!Reads
<1>3. CASE \E x \in Piece : read = <<x>>
  <2>1. PICK x \in Piece : read = <<x>>
    BY <1>3
  <2>2. Len(read) = 1 /\ read[1] = x /\ read \in Seq(Piece)
    BY <2>1
  <2>. DEFINE r == Append(read, c[2])
              t == <<x, c[2]>>
  <2>3. r \in Seq(Piece) /\ Len(r) = 2 /\ r[1] = x /\ r[2] = c[2]
    <3>1. c[2] \in Piece /\ read \in Seq(Piece)
      BY <1>1, <2>2
    <3>2. /\ r \in Seq(Piece) /\ Len(r) = Len(read) + 1
          /\ \A i \in 1 .. Len(read) : r[i] = read[i]
          /\ r[Len(read) + 1] = c[2]
      BY <3>1, AppendProperties
    <3>. HIDE DEF r
    <3>. QED
      BY <2>2, <3>2
  <2>4. t \in Cache!Contents /\ t \in Seq(Piece) /\ Len(t) = 2 /\ t[1] = x /\ t[2] = c[2]
    BY <1>1 DEF Cache!Contents
  <2>5. r = t
    <3>. HIDE DEF r, t
    <3>. QED
      BY <2>3, <2>4, SeqEqual
  <2>6. r \in Cache!Contents /\ r \in Cache!Reads
    BY <2>4, <2>5 DEF Cache!Reads
  <2>7. (\A i \in 1 .. Len(read) : read[i] = c[i]) => \A i \in 1 .. Len(r) : r[i] = c[i]
    BY <2>2, <2>3
  <2>. HIDE DEF r, t
  <2>. QED
    BY <2>2, <2>3, <2>6, <2>7 DEF r
<1>4. CASE read \in Cache!Contents
  <2>1. Len(read) = 2
    BY <1>4 DEF Cache!Contents
  <2>. QED
    BY <2>1
<1>. QED
  BY <1>2, <1>3, <1>4 DEF Cache!Reads

\* Two contents that agree piece by piece are the same.
LEMMA WholeRead ==
  ASSUME NEW read \in Cache!Contents, NEW c \in Cache!Contents,
         \A i \in 1 .. Len(read) : read[i] = c[i]
  PROVE  read = c
<1>1. Len(read) = 2 /\ read = <<read[1], read[2]>> /\ c = <<c[1], c[2]>>
  BY DEF Cache!Contents
<1>2. read[1] = c[1] /\ read[2] = c[2]
  BY <1>1
<1>. QED
  BY <1>1, <1>2

LEMMA MarksAre ==
  ASSUME Cache!ScanCacheAssumption, Typed, NEW p \in Path
  PROVE  /\ Cache!At(p) \in Cache!Marks
         /\ file[p] # Absent => /\ file[p] \in Node /\ Cache!At(p)[1] = file[p]
                                /\ Cache!At(p)[2] = changed[file[p]] /\ Cache!Is(p) \in Cache!Contents
         /\ file[p] = Absent => Cache!At(p) = <<Absent, 0>>
<1>1. \/ file[p] = Absent
      \/ file[p] \in Node /\ changed[file[p]] \in 0 .. EditMax /\ content[file[p]] \in Cache!Contents
  BY DEF Typed, WorldTyped, Node0
<1>2. 0 \in 0 .. EditMax
  BY DEF Cache!ScanCacheAssumption
<1>. QED
  BY <1>1, <1>2 DEF Cache!At, Cache!Fingerprint, Cache!Marks, Cache!Is

LEMMA EntriesAre ==
  ASSUME Cache!ScanCacheAssumption
  PROVE  /\ Cache!NoEntry \in Cache!Entries /\ Truthful(Cache!NoEntry)
         /\ Cache!NoFiles \in [Path -> Cache!Entries] /\ Entered(Cache!NoFiles)
<1>1. <<Absent, 0>> \in Cache!Marks
  BY DEF Cache!ScanCacheAssumption, Cache!Marks
<1>2. Cache!NoEntry \in Cache!Entries
  BY <1>1 DEF Cache!NoEntry, Cache!Cached, Cache!Entries
<1>3. \A p \in Path : Cache!NoFiles[p] = Cache!NoEntry
  BY DEF Cache!NoFiles
<1>. QED
  BY <1>2, <1>3 DEF Cache!NoFiles, Entered, Truthful

LEMMA JobsAre ==
  ASSUME Cache!ScanCacheAssumption
  PROVE  Cache!Waiting \in Job0 /\ Cache!Waiting.step = "wait"
<1>1. <<Absent, 0>> \in Cache!Marks
  BY DEF Cache!ScanCacheAssumption, Cache!Marks
<1>. QED
  BY <1>1 DEF Cache!Waiting, Job0, Node0, Cache!Reads

LEMMA JobMoves ==
  ASSUME JobTyped, NEW p \in Path, NEW r \in Job0, Cache!Job(p, r)
  PROVE  JobTyped' /\ job'[p] = r /\ \A q \in Path : q # p => job'[q] = job[q]
BY DEF JobTyped, Cache!Job

LEMMA EntriesMove ==
  ASSUME NEW f \in [Path -> Cache!Entries], NEW p \in Path, NEW e \in Cache!Entries
  PROVE  /\ [f EXCEPT ![p] = e] \in [Path -> Cache!Entries]
         /\ [f EXCEPT ![p] = e][p] = e
         /\ \A q \in Path : q # p => [f EXCEPT ![p] = e][q] = f[q]
OBVIOUS

LEMMA NoCopyIs ==
  ASSUME Cache!ScanCacheAssumption
  PROVE  Cache!NoCopy \in Copy0 /\ Cache!NoCopy.step = "none"
<1>1. Cache!NoCopy.path \in CopyPath /\ <<Absent, 0>> \in Cache!Marks
  BY DEF CopyPath, Cache!ScanCacheAssumption, Cache!Marks
<1>2. Cache!NoCopy.step = "none" /\ Cache!NoCopy.ahead = FALSE /\ Cache!NoCopy.evidence = <<Absent, 0>>
      /\ Cache!NoCopy.handle = Absent /\ Cache!NoCopy.read = <<>>
      /\ Cache!NoCopy = [step |-> Cache!NoCopy.step, path |-> Cache!NoCopy.path, ahead |-> Cache!NoCopy.ahead,
                   evidence |-> Cache!NoCopy.evidence, handle |-> Cache!NoCopy.handle, read |-> Cache!NoCopy.read]
  BY DEF Cache!NoCopy
<1>. QED
  BY <1>1, <1>2 DEF Copy0, Node0, Cache!Reads

-----------------------------------------------------------------------------

\* What an edit does to marks: it gives the file it writes a new one.
Edited ==
  /\ edits' = edits + 1
  /\ \A n \in Node : \/ changed'[n] = changed[n] /\ content'[n] = content[n]
                     \/ changed'[n] = edits + 1
  /\ \A q \in Path : file'[q] \in {file[q], Absent} \/ changed'[file'[q]] = edits + 1

LEMMA EditMarks ==
  ASSUME Cache!ScanCacheAssumption, CaInv, Typed', Edited,
         UNCHANGED <<phase, kind, job, prepared, cache, disk, manifest, copy>>, quiet' = FALSE
  PROVE  Entered(cache)' /\ Entered(disk)' /\ Entered(prepared)' /\ Jobs' /\ Copies' /\ Exact' /\ Clock'
<1>1. \A n \in Node : changed'[n] \in 0 .. edits' /\ changed[n] \in 0 .. edits /\ changed[n] <= changed'[n]
                      /\ content'[n] \in Cache!Contents
  BY DEF CaInv, Typed, WorldTyped, Clock, Edited, Cache!ScanCacheAssumption
<1>2. \A m \in Cache!Marks : Taken(m) =>
        m[1] \in Node /\ m[2] \in 0 .. edits' /\ m[2] <= changed'[m[1]]
  BY <1>1 DEF Taken, CaInv, Typed, WorldTyped, Node0, Edited, Cache!ScanCacheAssumption
<1>3. ASSUME NEW m \in Cache!Marks, Taken(m), changed'[m[1]] = m[2]
      PROVE  changed[m[1]] = m[2] /\ content'[m[1]] = content[m[1]]
  BY <1>1, <1>3
  DEF Taken, CaInv, Typed, WorldTyped, Node0, Edited, Cache!ScanCacheAssumption
<1>4. \A e \in Cache!Entries : Truthful(e) => e = Cache!NoEntry \/
         (/\ e.fingerprint[1] \in Node /\ e.fingerprint[2] \in 0 .. edits'
          /\ e.fingerprint[2] <= changed'[e.fingerprint[1]]
          /\ e.hash \in Cache!Contents
          /\ (changed'[e.fingerprint[1]] = e.fingerprint[2] => e.hash = content'[e.fingerprint[1]]))
  <2>. SUFFICES ASSUME NEW e \in Cache!Entries, Truthful(e), e # Cache!NoEntry
                PROVE  (/\ e.fingerprint[1] \in Node /\ e.fingerprint[2] \in 0 .. edits'
                        /\ e.fingerprint[2] <= changed'[e.fingerprint[1]]
                        /\ e.hash \in Cache!Contents
                        /\ (changed'[e.fingerprint[1]] = e.fingerprint[2] => e.hash = content'[e.fingerprint[1]]))
    OBVIOUS
  <2>1. Taken(e.fingerprint) /\ e.hash \in Cache!Contents /\ e.fingerprint \in Cache!Marks
        /\ (changed[e.fingerprint[1]] = e.fingerprint[2] => e.hash = content[e.fingerprint[1]])
    BY DEF Truthful, Cache!Entries
  <2>. QED
    BY <2>1, <1>2, <1>3
<1>5. ASSUME NEW p \in Path, NEW m \in Cache!Marks, Taken(m), (Cache!At(p))' = m
      PROVE  Cache!At(p) = m /\ file'[p] = file[p] /\ content'[file[p]] = content[file[p]]
  <2>1. file'[p] \in Node /\ m[1] = file'[p] /\ m[2] = changed'[file'[p]]
    BY <1>5, Typed'
    DEF Cache!At, Cache!Fingerprint, Taken, Typed, WorldTyped, Node0,
      Cache!ScanCacheAssumption
  <2>2. m[2] <= edits
    BY <1>5 DEF Taken, CaInv, Typed, WorldTyped, Cache!Marks, Cache!ScanCacheAssumption
  <2>3. file'[p] = file[p]
    BY <2>1, <2>2 DEF Edited, CaInv, Typed, WorldTyped, Node0, Cache!ScanCacheAssumption
  <2>. QED
    BY <1>3, <1>5, <2>1, <2>3
    DEF Cache!At, Cache!Fingerprint, CaInv, Typed, WorldTyped, Node0,
      Cache!ScanCacheAssumption
<1>6. Entered(cache)' /\ Entered(disk)' /\ Entered(prepared)'
  BY <1>4 DEF CaInv, Typed, EntriesTyped, Entered, Truthful, Taken
<1>7. Jobs'
  <2>. SUFFICES ASSUME NEW p \in Path
                PROVE  JobOk(p)'
    BY DEF Jobs
  <2>1. job[p].before \in Cache!Marks
    BY DEF CaInv, Typed, JobTyped, Job0
  <2>2. (job[p].step \in {"open", "read", "check", "join"} => Taken(job[p].before))'
    BY <2>1, <1>2 DEF CaInv, Jobs, JobOk, Taken
  <2>3. (job[p].step \in {"read", "check", "join"} =>
           job[p].handle \in Node /\ Follows(p, job[p].before, job[p].handle, job[p].read))'
    BY <2>1, <1>5 DEF CaInv, Jobs, JobOk, Follows
  <2>. QED
    BY <2>2, <2>3 DEF CaInv, Jobs, JobOk
<1>8. Copies'
  <2>1. copy.evidence \in Cache!Marks
    BY DEF CaInv, Typed, CopyTyped, Copy0
  <2>. QED
    BY <2>1, <1>2, <1>5 DEF CaInv, Copies, Follows, Taken
<1>9. Exact'
  BY DEF CaInv, Exact
<1>. QED
  BY <1>1, <1>6, <1>7, <1>8, <1>9 DEF Clock

LEMMA EditorsKeep ==
  ASSUME Cache!ScanCacheAssumption, CaInv, NEW p \in Path,
         Cache!Overwrite(p) \/ Cache!Replace(p) \/ Cache!Remove(p)
  PROVE  CaInv'
<1>1. edits' = edits + 1 /\ edits' \in 0 .. EditMax /\ quiet' = FALSE
      /\ UNCHANGED <<phase, kind, job, prepared, cache, disk, manifest, copy>>
  BY DEF Cache!Overwrite, Cache!Replace, Cache!Remove, Cache!Edit, CaInv, Typed,
    WorldTyped, Cache!ScanCacheAssumption
<1>2. Typed' /\ OneName' /\ Edited
  <2>1. CASE Cache!Overwrite(p)
    <3>1. PICK i \in 1 .. 2, x \in Piece : content' = [content EXCEPT ![file[p]][i] = x]
      BY <2>1 DEF Cache!Overwrite
    <3>2. file[p] \in Node /\ content[file[p]] \in Cache!Contents
      BY <2>1 DEF Cache!Overwrite, CaInv, Typed, WorldTyped, Node0
    <3>3. [content[file[p]] EXCEPT ![i] = x] \in Cache!Contents
      BY <3>2 DEF Cache!Contents
    <3>4. content' \in [Node -> Cache!Contents]
          /\ \A n \in Node : n # file[p] => content'[n] = content[n]
      BY <3>1, <3>2, <3>3 DEF CaInv, Typed, WorldTyped
    <3>5. file' = file /\ changed' = [changed EXCEPT ![file[p]] = edits + 1]
      BY <1>1, <2>1 DEF Cache!Overwrite
    <3>6. Typed'
      BY <1>1, <3>2, <3>4, <3>5
      DEF CaInv, Typed, WorldTyped, PhaseTyped, JobTyped, EntriesTyped, ManifestTyped,
        CopyTyped
    <3>. QED
      BY <1>1, <3>2, <3>4, <3>5, <3>6 DEF CaInv, Typed, WorldTyped, Node0, OneName, Edited
  <2>2. CASE Cache!Replace(p)
    <3>1. PICK n \in Node, c \in Cache!Contents :
            /\ \A q \in Path : file[q] # n
            /\ changed' = [changed EXCEPT ![n] = edits']
            /\ content' = [content EXCEPT ![n] = c]
            /\ file' = [file EXCEPT ![p] = n]
      BY <2>2 DEF Cache!Replace
    <3>2. Typed'
      BY <1>1, <3>1
      DEF CaInv, Typed, Node0, WorldTyped, PhaseTyped, JobTyped, EntriesTyped,
        ManifestTyped, CopyTyped
    <3>3. OneName'
      BY <3>1 DEF CaInv, Typed, WorldTyped, Node0, OneName
    <3>4. Edited
      BY <1>1, <3>1 DEF CaInv, Typed, WorldTyped, Node0, Edited
    <3>. QED
      BY <3>2, <3>3, <3>4
  <2>3. CASE Cache!Remove(p)
    <3>1. file' = [file EXCEPT ![p] = Absent] /\ UNCHANGED <<content, changed>>
      BY <2>3 DEF Cache!Remove
    <3>2. Typed'
      BY <1>1, <3>1
      DEF CaInv, Typed, Node0, WorldTyped, PhaseTyped, JobTyped, EntriesTyped,
        ManifestTyped, CopyTyped
    <3>. QED
      BY <1>1, <3>1, <3>2 DEF CaInv, Typed, WorldTyped, Node0, OneName, Edited
  <2>. QED
    BY <2>1, <2>2, <2>3
<1>. QED
  BY <1>1, <1>2, EditMarks DEF CaInv


\* A preparation starts from nothing.
LEMMA PrepareKeeps ==
  ASSUME Cache!ScanCacheAssumption, CaInv, Cache!Prepare
  PROVE  CaInv'
<1>1. job' \in [Path -> Job0] /\ \A p \in Path : job'[p].step = "list"
  BY JobsAre DEF Cache!Waiting, Job0, Cache!Reads, Cache!Prepare, Cache!Starts, Cache!world
<1>2. WorldTyped' /\ OneName' /\ Clock'
  BY DEF CaInv, Typed, WorldTyped, OneName, Clock, Cache!Prepare, Cache!Starts, Cache!world
<1>3. PhaseTyped'
  BY DEF CaInv, Typed, PhaseTyped, Cache!Prepare, Cache!Starts, Cache!world
<1>4. JobTyped'
  BY <1>1 DEF JobTyped
<1>5. EntriesTyped'
  BY EntriesAre DEF CaInv, Typed, EntriesTyped, Cache!Prepare, Cache!Starts, Cache!world
<1>6. ManifestTyped'
  BY DEF CaInv, Typed, ManifestTyped, Cache!Prepare, Cache!Starts, Cache!world
<1>7. CopyTyped'
  BY NoCopyIs DEF CaInv, Typed, CopyTyped, Cache!Prepare, Cache!Starts, Cache!world
<1>8. Entered(cache)'
  BY EntriesAre
  DEF CaInv, Entered, Truthful, Taken, Cache!Prepare, Cache!Starts, Cache!world
<1>9. Entered(disk)'
  BY EntriesAre
  DEF CaInv, Entered, Truthful, Taken, Cache!Prepare, Cache!Starts, Cache!world
<1>10. Entered(prepared)'
  BY EntriesAre
  DEF CaInv, Entered, Truthful, Taken, Cache!Prepare, Cache!Starts, Cache!world
<1>11. Jobs'
  BY <1>1 DEF Jobs, JobOk
<1>12. Copies'
  BY NoCopyIs
  DEF CaInv, Copies, Taken, Follows, Cache!At, Cache!Fingerprint, Cache!Prepare,
    Cache!Starts, Cache!world
<1>13. Exact'
  BY DEF CaInv, Exact, Returned, Cache!Is, Cache!Prepare, Cache!Starts, Cache!world
<1>. QED
  BY <1>2, <1>3, <1>4, <1>5, <1>6, <1>7, <1>8, <1>9, <1>10, <1>11, <1>12, <1>13
  DEF CaInv, Typed

\* A preparation that ended is kept as it is.
LEMMA PreparedKeeps ==
  ASSUME Cache!ScanCacheAssumption, CaInv, Cache!Prepared
  PROVE  CaInv'
<1>1. WorldTyped' /\ OneName' /\ Clock'
  BY DEF CaInv, Typed, WorldTyped, OneName, Clock, Cache!Prepared, Cache!world
<1>2. PhaseTyped'
  BY DEF CaInv, Typed, PhaseTyped, Cache!Prepared, Cache!world
<1>3. JobTyped'
  BY JobsAre DEF CaInv, Typed, JobTyped, Cache!Prepared, Cache!world
<1>4. EntriesTyped'
  BY EntriesAre DEF CaInv, Typed, EntriesTyped, Cache!Prepared, Cache!world
<1>5. ManifestTyped'
  BY DEF CaInv, Typed, ManifestTyped, Cache!Prepared, Cache!world
<1>6. CopyTyped'
  BY NoCopyIs DEF CaInv, Typed, CopyTyped, Cache!Prepared, Cache!world
<1>7. Entered(cache)'
  BY EntriesAre DEF CaInv, Entered, Truthful, Taken, Cache!Prepared, Cache!world
<1>8. Entered(disk)'
  BY EntriesAre DEF CaInv, Entered, Truthful, Taken, Cache!Prepared, Cache!world
<1>9. Entered(prepared)'
  BY EntriesAre DEF CaInv, Entered, Truthful, Taken, Cache!Prepared, Cache!world
<1>10. Jobs'
  BY JobsAre
  DEF CaInv, Jobs, JobOk, Taken, Follows, Cache!At, Cache!Fingerprint, Cache!Prepared,
    Cache!world
<1>11. Copies'
  BY NoCopyIs
  DEF CaInv, Copies, Taken, Follows, Cache!At, Cache!Fingerprint, Cache!Prepared,
    Cache!world
<1>12. Exact'
  BY DEF CaInv, Exact, Returned, Cache!Is, Cache!Prepared, Cache!world
<1>. QED
  BY <1>1, <1>2, <1>3, <1>4, <1>5, <1>6, <1>7, <1>8, <1>9, <1>10, <1>11, <1>12
  DEF CaInv, Typed

\* A round starts with what cache.json holds, or with less.
LEMMA OpenKeeps ==
  ASSUME Cache!ScanCacheAssumption, CaInv, Cache!Open
  PROVE  CaInv'
<1>1. WorldTyped' /\ OneName' /\ Clock'
  BY DEF CaInv, Typed, WorldTyped, OneName, Clock, Cache!Open, Cache!world
<1>2. PhaseTyped'
  BY DEF CaInv, Typed, PhaseTyped, Cache!Open, Cache!world
<1>3. JobTyped'
  BY JobsAre DEF CaInv, Typed, JobTyped, Cache!Open, Cache!world
<1>4. EntriesTyped'
  BY EntriesAre DEF CaInv, Typed, EntriesTyped, Cache!Open, Cache!world
<1>5. ManifestTyped'
  BY DEF CaInv, Typed, ManifestTyped, Cache!Open, Cache!world
<1>6. CopyTyped'
  BY NoCopyIs DEF CaInv, Typed, CopyTyped, Cache!Open, Cache!world
<1>7. Entered(cache)'
  BY EntriesAre DEF CaInv, Entered, Truthful, Taken, Cache!Open, Cache!world
<1>8. Entered(disk)'
  BY EntriesAre DEF CaInv, Entered, Truthful, Taken, Cache!Open, Cache!world
<1>9. Entered(prepared)'
  BY EntriesAre DEF CaInv, Entered, Truthful, Taken, Cache!Open, Cache!world
<1>10. Jobs'
  BY JobsAre
  DEF CaInv, Jobs, JobOk, Taken, Follows, Cache!At, Cache!Fingerprint, Cache!Open,
    Cache!world
<1>11. Copies'
  BY NoCopyIs
  DEF CaInv, Copies, Taken, Follows, Cache!At, Cache!Fingerprint, Cache!Open, Cache!world
<1>12. Exact'
  BY DEF CaInv, Exact, Returned, Cache!Is, Cache!Open, Cache!world
<1>. QED
  BY <1>1, <1>2, <1>3, <1>4, <1>5, <1>6, <1>7, <1>8, <1>9, <1>10, <1>11, <1>12
  DEF CaInv, Typed

\* A preparation adds what it hashed.
LEMMA ConsumeKeeps ==
  ASSUME Cache!ScanCacheAssumption, CaInv, Cache!Consume
  PROVE  CaInv'
<1>1. WorldTyped' /\ OneName' /\ Clock'
  BY DEF CaInv, Typed, WorldTyped, OneName, Clock, Cache!Consume, Cache!world
<1>2. PhaseTyped'
  BY DEF CaInv, Typed, PhaseTyped, Cache!Consume, Cache!world
<1>3. JobTyped'
  BY JobsAre DEF CaInv, Typed, JobTyped, Cache!Consume, Cache!world
<1>4. EntriesTyped'
  BY EntriesAre DEF CaInv, Typed, EntriesTyped, Cache!Consume, Cache!world
<1>5. ManifestTyped'
  BY DEF CaInv, Typed, ManifestTyped, Cache!Consume, Cache!world
<1>6. CopyTyped'
  BY NoCopyIs DEF CaInv, Typed, CopyTyped, Cache!Consume, Cache!world
<1>7. Entered(cache)'
  BY EntriesAre DEF CaInv, Entered, Truthful, Taken, Cache!Consume, Cache!world
<1>8. Entered(disk)'
  BY EntriesAre DEF CaInv, Entered, Truthful, Taken, Cache!Consume, Cache!world
<1>9. Entered(prepared)'
  BY EntriesAre DEF CaInv, Entered, Truthful, Taken, Cache!Consume, Cache!world
<1>10. Jobs'
  BY JobsAre
  DEF CaInv, Jobs, JobOk, Taken, Follows, Cache!At, Cache!Fingerprint, Cache!Consume,
    Cache!world
<1>11. Copies'
  BY NoCopyIs
  DEF CaInv, Copies, Taken, Follows, Cache!At, Cache!Fingerprint, Cache!Consume, Cache!world
<1>12. Exact'
  BY DEF CaInv, Exact, Returned, Cache!Is, Cache!Consume, Cache!world
<1>. QED
  BY <1>1, <1>2, <1>3, <1>4, <1>5, <1>6, <1>7, <1>8, <1>9, <1>10, <1>11, <1>12
  DEF CaInv, Typed

\* A scan has returned nothing yet.
LEMMA StartScanKeeps ==
  ASSUME Cache!ScanCacheAssumption, CaInv, Cache!StartScan
  PROVE  CaInv'
<1>1. /\ job' \in [Path -> Job0]
      /\ \A p \in Path : job'[p].step \in {"wait", "list"}
      /\ kind' # "delta" => \A p \in Path : job'[p].step = "list"
  BY JobsAre
  DEF Cache!Waiting, Job0, Cache!Reads, Cache!StartScan, Cache!Starts, Cache!world
<1>2. /\ phase' = "scan" /\ kind' # "prepare"
      /\ \A p \in Path : manifest'[p] = <<>>
  BY DEF Cache!StartScan, Cache!Starts, Cache!world
<1>3. WorldTyped' /\ OneName' /\ Clock'
  BY DEF CaInv, Typed, WorldTyped, OneName, Clock, Cache!StartScan, Cache!Starts,
    Cache!world
<1>4. PhaseTyped'
  BY DEF CaInv, Typed, PhaseTyped, Cache!StartScan, Cache!Starts, Cache!world
<1>5. JobTyped'
  BY <1>1 DEF JobTyped
<1>6. EntriesTyped'
  BY EntriesAre DEF CaInv, Typed, EntriesTyped, Cache!StartScan, Cache!Starts, Cache!world
<1>7. ManifestTyped'
  BY DEF CaInv, Typed, ManifestTyped, Cache!StartScan, Cache!Starts, Cache!world
<1>8. CopyTyped'
  BY NoCopyIs DEF CaInv, Typed, CopyTyped, Cache!StartScan, Cache!Starts, Cache!world
<1>9. Entered(cache)'
  BY EntriesAre
  DEF CaInv, Entered, Truthful, Taken, Cache!StartScan, Cache!Starts, Cache!world
<1>10. Entered(disk)'
  BY EntriesAre
  DEF CaInv, Entered, Truthful, Taken, Cache!StartScan, Cache!Starts, Cache!world
<1>11. Entered(prepared)'
  BY EntriesAre
  DEF CaInv, Entered, Truthful, Taken, Cache!StartScan, Cache!Starts, Cache!world
<1>12. Jobs'
  BY <1>1 DEF Jobs, JobOk
<1>13. Copies'
  BY NoCopyIs
  DEF CaInv, Copies, Taken, Follows, Cache!At, Cache!Fingerprint, Cache!StartScan,
    Cache!Starts, Cache!world
<1>14. Exact'
  BY <1>1, <1>2 DEF Exact, Returned
<1>. QED
  BY <1>3, <1>4, <1>5, <1>6, <1>7, <1>8, <1>9, <1>10, <1>11, <1>12, <1>13, <1>14
  DEF CaInv, Typed

\* The entries of a manifest are entries of the cache.
LEMMA ScanDoneKeeps ==
  ASSUME Cache!ScanCacheAssumption, CaInv, Cache!ScanDone
  PROVE  CaInv'
<1>1. /\ cache' \in [Path -> Cache!Entries] /\ disk' \in {disk, cache'}
      /\ \A p \in Path : cache'[p] \in {cache[p], Cache!NoEntry}
  BY EntriesAre DEF CaInv, Typed, EntriesTyped, Cache!ScanDone, Cache!world
<1>2. WorldTyped' /\ OneName' /\ Clock'
  BY DEF CaInv, Typed, WorldTyped, OneName, Clock, Cache!ScanDone, Cache!world
<1>3. PhaseTyped'
  BY DEF CaInv, Typed, PhaseTyped, Cache!ScanDone, Cache!world
<1>4. JobTyped'
  BY JobsAre DEF CaInv, Typed, JobTyped, Cache!ScanDone, Cache!world
<1>5. EntriesTyped'
  BY <1>1 DEF EntriesTyped, CaInv, Typed, Cache!ScanDone, Cache!world
<1>6. ManifestTyped'
  BY DEF CaInv, Typed, ManifestTyped, Cache!ScanDone, Cache!world
<1>7. CopyTyped'
  BY NoCopyIs DEF CaInv, Typed, CopyTyped, Cache!ScanDone, Cache!world
<1>8. Entered(cache)'
  BY <1>1, EntriesAre DEF CaInv, Entered, Truthful, Taken, Cache!ScanDone, Cache!world
<1>9. Entered(disk)'
  BY <1>8, <1>1 DEF CaInv, Entered, Truthful, Taken, Cache!ScanDone, Cache!world
<1>10. Entered(prepared)'
  BY EntriesAre DEF CaInv, Entered, Truthful, Taken, Cache!ScanDone, Cache!world
<1>11. Jobs'
  BY JobsAre
  DEF CaInv, Jobs, JobOk, Taken, Follows, Cache!At, Cache!Fingerprint, Cache!ScanDone,
    Cache!world
<1>12. Copies'
  BY NoCopyIs
  DEF CaInv, Copies, Taken, Follows, Cache!At, Cache!Fingerprint, Cache!ScanDone,
    Cache!world
<1>13. Exact'
  BY DEF CaInv, Exact, Returned, Cache!Is, Cache!ScanDone, Cache!world
<1>. QED
  BY <1>2, <1>3, <1>4, <1>5, <1>6, <1>7, <1>8, <1>9, <1>10, <1>11, <1>12, <1>13
  DEF CaInv, Typed

\* The end of a round, or of the process.
LEMMA CloseKeeps ==
  ASSUME Cache!ScanCacheAssumption, CaInv, Cache!Close
  PROVE  CaInv'
<1>1. WorldTyped' /\ OneName' /\ Clock'
  BY DEF CaInv, Typed, WorldTyped, OneName, Clock, Cache!Close, Cache!world
<1>2. PhaseTyped'
  BY DEF CaInv, Typed, PhaseTyped, Cache!Close, Cache!world
<1>3. JobTyped'
  BY JobsAre DEF CaInv, Typed, JobTyped, Cache!Close, Cache!world
<1>4. EntriesTyped'
  BY EntriesAre DEF CaInv, Typed, EntriesTyped, Cache!Close, Cache!world
<1>5. ManifestTyped'
  BY DEF CaInv, Typed, ManifestTyped, Cache!Close, Cache!world
<1>6. CopyTyped'
  BY NoCopyIs DEF CaInv, Typed, CopyTyped, Cache!Close, Cache!world
<1>7. Entered(cache)'
  BY EntriesAre DEF CaInv, Entered, Truthful, Taken, Cache!Close, Cache!world
<1>8. Entered(disk)'
  BY EntriesAre DEF CaInv, Entered, Truthful, Taken, Cache!Close, Cache!world
<1>9. Entered(prepared)'
  BY EntriesAre DEF CaInv, Entered, Truthful, Taken, Cache!Close, Cache!world
<1>10. Jobs'
  BY JobsAre
  DEF CaInv, Jobs, JobOk, Taken, Follows, Cache!At, Cache!Fingerprint, Cache!Close,
    Cache!world
<1>11. Copies'
  BY NoCopyIs
  DEF CaInv, Copies, Taken, Follows, Cache!At, Cache!Fingerprint, Cache!Close, Cache!world
<1>12. Exact'
  BY DEF CaInv, Exact, Returned, Cache!Is, Cache!Close, Cache!world
<1>. QED
  BY <1>1, <1>2, <1>3, <1>4, <1>5, <1>6, <1>7, <1>8, <1>9, <1>10, <1>11, <1>12
  DEF CaInv, Typed

\* A path is listed with the fingerprint it has.
LEMMA ListKeeps ==
  ASSUME Cache!ScanCacheAssumption, CaInv, NEW p \in Path, Cache!List(p)
  PROVE  CaInv'
<1>1. LET r == [Cache!Waiting EXCEPT !.step = "open", !.before = Cache!At(p)]
           IN  /\ [Cache!Waiting EXCEPT !.step = "done"] \in Job0 /\ [Cache!Waiting EXCEPT !.step = "done"].step = "done"
               /\ r \in Job0 /\ r.step = "open" /\ r.before = Cache!At(p) /\ r.read = <<>>
  BY JobsAre, MarksAre
  DEF Cache!Waiting, Job0, CaInv, Cache!Reads, Cache!List, Cache!Hashing, Cache!world
<1>2. /\ JobTyped' /\ \A q \in Path : q # p => job'[q] = job[q]
      /\ file[p] = Absent => job'[p].step = "done"
      /\ file[p] # Absent => job'[p].step = "open" /\ job'[p].before = Cache!At(p) /\ job'[p].read = <<>>
  BY <1>1, JobMoves DEF CaInv, Typed, Cache!List, Cache!Hashing, Cache!world
<1>3. /\ job[p].step = "list" /\ (file[p] # Absent => Taken(Cache!At(p)))
      /\ phase \in {"prepare", "scan"} /\ UNCHANGED <<Cache!world, phase, kind, manifest>>
  BY MarksAre
  DEF CaInv, Typed, WorldTyped, Clock, Taken, Cache!List, Cache!Hashing, Cache!world
<1>4. cache' \in [Path -> Cache!Entries] /\ \A q \in Path : cache'[q] \in {cache[q], Cache!NoEntry}
  BY EntriesAre, EntriesMove
  DEF CaInv, Typed, EntriesTyped, Cache!List, Cache!Hashing, Cache!world
<1>5. WorldTyped' /\ OneName' /\ Clock'
  BY DEF CaInv, Typed, WorldTyped, OneName, Clock, Cache!List, Cache!Hashing, Cache!world
<1>6. PhaseTyped'
  BY DEF CaInv, Typed, PhaseTyped, Cache!List, Cache!Hashing, Cache!world
<1>7. JobTyped'
  BY <1>2 DEF CaInv, Typed
<1>8. EntriesTyped'
  BY <1>4 DEF CaInv, Typed, EntriesTyped, Cache!List, Cache!Hashing, Cache!world
<1>9. ManifestTyped'
  BY DEF CaInv, Typed, ManifestTyped, Cache!List, Cache!Hashing, Cache!world
<1>10. CopyTyped'
  BY NoCopyIs DEF CaInv, Typed, CopyTyped, Cache!List, Cache!Hashing, Cache!world
<1>11. Entered(cache)'
  BY <1>4, EntriesAre
  DEF CaInv, Entered, Truthful, Taken, Cache!List, Cache!Hashing, Cache!world
<1>12. Entered(disk)'
  BY EntriesAre DEF CaInv, Entered, Truthful, Taken, Cache!List, Cache!Hashing, Cache!world
<1>13. Entered(prepared)'
  BY EntriesAre DEF CaInv, Entered, Truthful, Taken, Cache!List, Cache!Hashing, Cache!world
<1>14. Jobs'
  <2>1. \A q \in Path : q # p => JobOk(q)'
    BY <1>2, <1>3
    DEF CaInv, Jobs, JobOk, Taken, Follows, Cache!At, Cache!Fingerprint, Cache!world
  <2>2. JobOk(p)'
    BY <1>2, <1>3
    DEF CaInv, Jobs, JobOk, Taken, Follows, Cache!At, Cache!Fingerprint, Cache!world
  <2>. QED
    BY <2>1, <2>2 DEF Jobs
<1>15. Copies'
  BY NoCopyIs
  DEF CaInv, Copies, Taken, Follows, Cache!At, Cache!Fingerprint, Cache!List,
    Cache!Hashing, Cache!world
<1>16. Exact'
  BY <1>2, <1>3 DEF CaInv, Exact, Returned, Cache!Is, Cache!world
<1>. QED
  BY <1>5, <1>6, <1>7, <1>8, <1>9, <1>10, <1>11, <1>12, <1>13, <1>14, <1>15, <1>16
  DEF CaInv, Typed

\* A hash that is collected is that of the file at the path.
LEMMA CollectKeeps ==
  ASSUME Cache!ScanCacheAssumption, CaInv, NEW p \in Path, phase \in {"prepare", "scan"},
         file[p] # Absent, job[p].step \notin {"wait", "done"},
         Cache!Collect(p, Cache!At(p), Cache!Is(p)), Cache!Job(p, [Cache!Waiting EXCEPT !.step = "done"]),
         UNCHANGED <<Cache!world, phase, kind, disk, copy>>
  PROVE  CaInv'
<1>. DEFINE new == Cache!Cached(Cache!At(p), Cache!Is(p))
<1>. USE DEF Cache!world
<1>1. new \in Cache!Entries /\ Truthful(new) /\ Cache!Is(p) \in Cache!Contents
  <2>1. Cache!At(p) \in Cache!Marks /\ Taken(Cache!At(p)) /\ Cache!Is(p) \in Cache!Contents /\ content[Cache!At(p)[1]] = Cache!Is(p)
    BY MarksAre
    DEF CaInv, Taken, Clock, Typed, WorldTyped, Cache!Is, Cache!Fingerprint, Cache!At
  <2>2. new.fingerprint = Cache!At(p) /\ new.hash = Cache!Is(p) /\ new \in Cache!Entries
    BY <2>1 DEF Cache!Cached, Cache!Entries
  <2>. QED
    BY <2>1, <2>2 DEF Truthful
<1>2. [Cache!Waiting EXCEPT !.step = "done"] \in Job0 /\ [Cache!Waiting EXCEPT !.step = "done"].step = "done"
  BY JobsAre DEF Cache!Waiting, Job0
<1>3. JobTyped' /\ job'[p].step = "done" /\ \A q \in Path : q # p => job'[q] = job[q]
  BY <1>2, JobMoves DEF CaInv, Typed
<1>4. Jobs'
  BY <1>3 DEF CaInv, Jobs, JobOk, Taken, Follows, Cache!At, Cache!Fingerprint
<1>5. CASE kind = "prepare"
  <2>1. prepared' = [prepared EXCEPT ![p] = new] /\ UNCHANGED <<cache, manifest>>
    BY <1>5 DEF Cache!Collect
  <2>2. EntriesTyped' /\ \A q \in Path : prepared'[q] \in {prepared[q], new}
    BY <1>1, <2>1, EntriesMove DEF CaInv, Typed, EntriesTyped
  <2>3. Entered(prepared)' /\ Entered(cache)' /\ Entered(disk)'
    BY <1>1, <2>1, <2>2 DEF CaInv, Entered, Truthful, Taken
  <2>4. phase = "prepare"
    BY <1>5 DEF CaInv, Exact
  <2>5. Exact'
    BY <1>5, <2>4 DEF Exact
  <2>6. Typed' /\ OneName' /\ Clock'
    BY <1>3, <2>1, <2>2
    DEF CaInv, Typed, WorldTyped, PhaseTyped, ManifestTyped, CopyTyped, OneName, Clock
  <2>7. Copies'
    BY DEF CaInv, Copies, Taken, Follows, Cache!At, Cache!Fingerprint
  <2>. QED
    BY <1>4, <2>3, <2>5, <2>6, <2>7 DEF CaInv
<1>6. CASE kind # "prepare"
  <2>1. /\ cache' = [cache EXCEPT ![p] = new] /\ UNCHANGED prepared
        /\ manifest' = [manifest EXCEPT ![p] = Cache!Is(p)]
    BY <1>6 DEF Cache!Collect
  <2>2. EntriesTyped' /\ \A q \in Path : cache'[q] \in {cache[q], new}
    BY <1>1, <2>1, EntriesMove DEF CaInv, Typed, EntriesTyped
  <2>3. Entered(prepared)' /\ Entered(cache)' /\ Entered(disk)'
    BY <1>1, <2>1, <2>2 DEF CaInv, Entered, Truthful, Taken
  <2>4. /\ ManifestTyped' /\ manifest'[p] = Cache!Is(p)
        /\ \A q \in Path : q # p => manifest'[q] = manifest[q]
    BY <1>1, <2>1 DEF CaInv, Typed, ManifestTyped
  <2>5. Exact'
    BY <1>3, <2>4 DEF CaInv, Exact, Returned, Cache!Is
  <2>6. Typed' /\ OneName' /\ Clock'
    BY <1>3, <2>2, <2>4 DEF CaInv, Typed, WorldTyped, PhaseTyped, CopyTyped, OneName, Clock
  <2>7. Copies'
    BY DEF CaInv, Copies, Taken, Follows, Cache!At, Cache!Fingerprint
  <2>. QED
    BY <1>4, <2>3, <2>5, <2>6, <2>7 DEF CaInv
<1>. QED
  BY <1>5, <1>6

\* A cached hash whose fingerprint still stands is that of the file.
LEMMA ReuseKeeps ==
  ASSUME Cache!ScanCacheAssumption, CaInv, NEW p \in Path, Cache!Reuse(p)
  PROVE  CaInv'
<1>1. file[p] # Absent
  BY MarksAre
  DEF CaInv, Cache!Reuse, Cache!Hashing, Jobs, JobOk, Taken, Cache!ScanCacheAssumption
<1>2. Cache!Known(p) \in Cache!Entries /\ Truthful(Cache!Known(p)) /\ Cache!Known(p).fingerprint = Cache!At(p)
  BY DEF CaInv, Cache!Known, Typed, EntriesTyped, Entered, Cache!Reuse
<1>3. Cache!Known(p) # Cache!NoEntry
  BY <1>1, <1>2, MarksAre DEF Cache!NoEntry, Cache!Cached, CaInv, Cache!ScanCacheAssumption
<1>4. Cache!Known(p).hash = Cache!Is(p)
  BY <1>1, <1>2, <1>3, MarksAre DEF CaInv, Truthful, Cache!Is
<1>. QED
  BY <1>1, <1>4, CollectKeeps DEF Cache!Reuse, Cache!Hashing

\* What was read of a file whose fingerprint has not moved is the file.
LEMMA ReadWhole ==
  ASSUME Cache!ScanCacheAssumption, CaInv, NEW p \in Path, job[p].step \in {"check", "join"},
         Cache!At(p) = job[p].before
  PROVE  file[p] # Absent /\ job[p].read = Cache!Is(p)
<1>1. file[p] # Absent
  BY MarksAre DEF CaInv, Jobs, JobOk, Taken, Cache!ScanCacheAssumption
<1>2. job[p].read \in Cache!Contents /\ Cache!Is(p) \in Cache!Contents
  BY <1>1, MarksAre DEF CaInv, Jobs, JobOk
<1>3. \A i \in 1 .. Len(job[p].read) : job[p].read[i] = Cache!Is(p)[i]
  BY DEF CaInv, Jobs, JobOk, Follows, Cache!Is
<1>. QED
  BY <1>1, <1>2, <1>3, WholeRead

\* A hash is kept if the path still has its fingerprint.
LEMMA CheckKeeps ==
  ASSUME Cache!ScanCacheAssumption, CaInv, NEW p \in Path, Cache!Check(p)
  PROVE  CaInv'
<1>1. file[p] # Absent /\ job[p].read = Cache!Is(p)
  BY ReadWhole DEF Cache!Check, Cache!Hashing
<1>2. CASE kind = "batch"
  <2>1. [job[p] EXCEPT !.step = "join"] \in Job0
    BY DEF CaInv, Typed, JobTyped, Job0
  <2>2. /\ JobTyped' /\ \A q \in Path : q # p => job'[q] = job[q]
        /\ job'[p] = [job[p] EXCEPT !.step = "join"]
    BY <1>2, <2>1, JobMoves DEF Cache!Check, CaInv, Typed
  <2>3. /\ job'[p].step = "join" /\ job'[p].before = job[p].before
        /\ job'[p].handle = job[p].handle /\ job'[p].read = job[p].read
        /\ job[p].step = "check"
    BY <2>2 DEF CaInv, Typed, JobTyped, Job0, Cache!Check, Cache!Hashing
  <2>4. UNCHANGED <<Cache!world, phase, kind, prepared, cache, manifest, disk, copy>>
    BY <1>2 DEF Cache!Check
  <2>5. Jobs'
    <3>1. \A q \in Path : q # p => JobOk(q)'
      BY <2>2, <2>4
      DEF CaInv, Jobs, JobOk, Taken, Follows, Cache!At, Cache!Fingerprint, Cache!world
    <3>2. JobOk(p)'
      BY <2>3, <2>4
      DEF CaInv, Jobs, JobOk, Taken, Follows, Cache!At, Cache!Fingerprint, Cache!world
    <3>. QED
      BY <3>1, <3>2 DEF Jobs
  <2>6. Exact'
    BY <2>2, <2>3, <2>4 DEF CaInv, Exact, Returned, Cache!Is, Cache!world
  <2>7. Typed' /\ OneName' /\ Clock'
    BY <2>2, <2>4
    DEF CaInv, Typed, WorldTyped, PhaseTyped, EntriesTyped, ManifestTyped, CopyTyped,
      OneName, Clock, Cache!world
  <2>8. Entered(cache)' /\ Entered(disk)' /\ Entered(prepared)'
    BY <2>4 DEF CaInv, Entered, Truthful, Taken, Cache!world
  <2>9. Copies'
    BY <2>4 DEF CaInv, Copies, Taken, Follows, Cache!At, Cache!Fingerprint, Cache!world
  <2>. QED
    BY <2>5, <2>6, <2>7, <2>8, <2>9 DEF CaInv
<1>3. CASE kind # "batch"
  BY <1>1, <1>3, CollectKeeps DEF Cache!Check, Cache!Hashing
<1>. QED
  BY <1>2, <1>3

\* The same once the workers have been joined.
LEMMA JoinKeeps ==
  ASSUME Cache!ScanCacheAssumption, CaInv, NEW p \in Path, Cache!Join(p)
  PROVE  CaInv'
<1>1. file[p] # Absent /\ job[p].read = Cache!Is(p)
  BY ReadWhole DEF Cache!Join, Cache!Hashing
<1>. QED
  BY <1>1, CollectKeeps DEF Cache!Join, Cache!Hashing


\* The handle is the file at the path, whatever was listed.
LEMMA OpenFileKeeps ==
  ASSUME Cache!ScanCacheAssumption, CaInv, NEW p \in Path, Cache!OpenFile(p)
  PROVE  CaInv'
<1>1. [job[p] EXCEPT !.step = "read", !.handle = file[p]] \in Job0
  BY DEF CaInv, Typed, WorldTyped, JobTyped, Job0, Cache!OpenFile, Cache!Hashing,
    Cache!world
<1>2. /\ JobTyped' /\ \A q \in Path : q # p => job'[q] = job[q]
      /\ job'[p] = [job[p] EXCEPT !.step = "read", !.handle = file[p]]
  BY <1>1, JobMoves DEF CaInv, Typed, Cache!OpenFile, Cache!Hashing, Cache!world
<1>3. /\ job[p] \in Job0 /\ job[p].step = "open" /\ file[p] \in Node
      /\ phase \in {"prepare", "scan"} /\ UNCHANGED <<Cache!world, phase, kind, manifest>>
  BY DEF CaInv, Typed, JobTyped, WorldTyped, Node0, Cache!OpenFile, Cache!Hashing,
    Cache!world
<1>4. Taken(job[p].before) /\ job[p].read = <<>>
  BY <1>3 DEF CaInv, Jobs, JobOk, Cache!OpenFile, Cache!Hashing, Cache!world
<1>5. /\ job'[p].step = "read" /\ job'[p].before = job[p].before
      /\ job'[p].handle = file[p] /\ job'[p].read = <<>>
  BY <1>2, <1>3, <1>4 DEF Job0, Cache!OpenFile, Cache!Hashing, Cache!world
<1>6. WorldTyped' /\ OneName' /\ Clock'
  BY DEF CaInv, Typed, WorldTyped, OneName, Clock, Cache!OpenFile, Cache!Hashing,
    Cache!world
<1>7. PhaseTyped'
  BY DEF CaInv, Typed, PhaseTyped, Cache!OpenFile, Cache!Hashing, Cache!world
<1>8. JobTyped'
  BY <1>2 DEF CaInv, Typed
<1>9. EntriesTyped'
  BY EntriesAre DEF CaInv, Typed, EntriesTyped, Cache!OpenFile, Cache!Hashing, Cache!world
<1>10. ManifestTyped'
  BY DEF CaInv, Typed, ManifestTyped, Cache!OpenFile, Cache!Hashing, Cache!world
<1>11. CopyTyped'
  BY NoCopyIs DEF CaInv, Typed, CopyTyped, Cache!OpenFile, Cache!Hashing, Cache!world
<1>12. Entered(cache)'
  BY EntriesAre
  DEF CaInv, Entered, Truthful, Taken, Cache!OpenFile, Cache!Hashing, Cache!world
<1>13. Entered(disk)'
  BY EntriesAre
  DEF CaInv, Entered, Truthful, Taken, Cache!OpenFile, Cache!Hashing, Cache!world
<1>14. Entered(prepared)'
  BY EntriesAre
  DEF CaInv, Entered, Truthful, Taken, Cache!OpenFile, Cache!Hashing, Cache!world
<1>15. Jobs'
  <2>1. \A q \in Path : q # p => JobOk(q)'
    BY <1>2, <1>3
    DEF CaInv, Jobs, JobOk, Taken, Follows, Cache!At, Cache!Fingerprint, Cache!world
  <2>2. JobOk(p)'
    BY <1>3, <1>4, <1>5
    DEF CaInv, Jobs, JobOk, Taken, Follows, Cache!At, Cache!Fingerprint, Cache!world
  <2>. QED
    BY <2>1, <2>2 DEF Jobs
<1>16. Copies'
  BY NoCopyIs
  DEF CaInv, Copies, Taken, Follows, Cache!At, Cache!Fingerprint, Cache!OpenFile,
    Cache!Hashing, Cache!world
<1>17. Exact'
  BY <1>2, <1>3, <1>5 DEF CaInv, Exact, Returned, Cache!Is, Cache!world
<1>. QED
  BY <1>6, <1>7, <1>8, <1>9, <1>10, <1>11, <1>12, <1>13, <1>14, <1>15, <1>16, <1>17
  DEF CaInv, Typed

\* A piece is read through the handle.
LEMMA ReadKeeps ==
  ASSUME Cache!ScanCacheAssumption, CaInv, NEW p \in Path, Cache!Read(p)
  PROVE  CaInv'
<1>1. /\ job[p] \in Job0 /\ job[p].step = "read" /\ job[p].handle \in Node /\ job[p].read \in Cache!Reads
      /\ content[job[p].handle] \in Cache!Contents /\ Len(job[p].read) < 2
  BY DEF CaInv, Typed, JobTyped, Job0, WorldTyped, Jobs, JobOk, Cache!Read, Cache!Hashing,
    Cache!world
<1>2. LET r == Append(job[p].read, content[job[p].handle][Len(job[p].read) + 1])
           IN  /\ r \in Cache!Reads /\ (Len(r) = 1 \/ Len(r) = 2)
               /\ Len(r) = 2 => r \in Cache!Contents
               /\ (\A i \in 1 .. Len(job[p].read) : job[p].read[i] = content[job[p].handle][i])
                    => \A i \in 1 .. Len(r) : r[i] = content[job[p].handle][i]
  BY <1>1, ReadGrows DEF Cache!Read, Cache!Hashing, Cache!world
<1>3. LET r == Append(job[p].read, content[job[p].handle][Len(job[p].read) + 1])
           IN  /\ JobTyped' /\ \A q \in Path : q # p => job'[q] = job[q]
               /\ job'[p] = [job[p] EXCEPT !.read = r, !.step = IF Len(r) = 2 THEN "check" ELSE "read"]
  BY <1>1, <1>2, JobMoves DEF CaInv, Typed, Job0, Cache!Read, Cache!Hashing, Cache!world
<1>4. LET r == Append(job[p].read, content[job[p].handle][Len(job[p].read) + 1])
           IN  /\ job'[p].read = r /\ job'[p].step = (IF Len(r) = 2 THEN "check" ELSE "read")
               /\ job'[p].before = job[p].before /\ job'[p].handle = job[p].handle
  BY <1>1, <1>3 DEF Job0, Cache!Read, Cache!Hashing, Cache!world
<1>5. phase \in {"prepare", "scan"} /\ UNCHANGED <<Cache!world, phase, kind, manifest>>
  BY DEF Cache!Read, Cache!Hashing, Cache!world
<1>6. WorldTyped' /\ OneName' /\ Clock'
  BY DEF CaInv, Typed, WorldTyped, OneName, Clock, Cache!Read, Cache!Hashing, Cache!world
<1>7. PhaseTyped'
  BY DEF CaInv, Typed, PhaseTyped, Cache!Read, Cache!Hashing, Cache!world
<1>8. JobTyped'
  BY <1>3 DEF CaInv, Typed
<1>9. EntriesTyped'
  BY EntriesAre DEF CaInv, Typed, EntriesTyped, Cache!Read, Cache!Hashing, Cache!world
<1>10. ManifestTyped'
  BY DEF CaInv, Typed, ManifestTyped, Cache!Read, Cache!Hashing, Cache!world
<1>11. CopyTyped'
  BY NoCopyIs DEF CaInv, Typed, CopyTyped, Cache!Read, Cache!Hashing, Cache!world
<1>12. Entered(cache)'
  BY EntriesAre DEF CaInv, Entered, Truthful, Taken, Cache!Read, Cache!Hashing, Cache!world
<1>13. Entered(disk)'
  BY EntriesAre DEF CaInv, Entered, Truthful, Taken, Cache!Read, Cache!Hashing, Cache!world
<1>14. Entered(prepared)'
  BY EntriesAre DEF CaInv, Entered, Truthful, Taken, Cache!Read, Cache!Hashing, Cache!world
<1>15. Jobs'
  <2>1. \A q \in Path : q # p => JobOk(q)'
    BY <1>3, <1>5
    DEF CaInv, Jobs, JobOk, Taken, Follows, Cache!At, Cache!Fingerprint, Cache!world
  <2>2. JobOk(p)'
    BY <1>1, <1>2, <1>4, <1>5
    DEF CaInv, Jobs, JobOk, Taken, Follows, Cache!At, Cache!Fingerprint, Cache!world
  <2>. QED
    BY <2>1, <2>2 DEF Jobs
<1>16. Copies'
  BY NoCopyIs
  DEF CaInv, Copies, Taken, Follows, Cache!At, Cache!Fingerprint, Cache!Read,
    Cache!Hashing, Cache!world
<1>17. Exact'
  BY <1>1, <1>3, <1>4, <1>5 DEF CaInv, Exact, Returned, Cache!Is, Cache!world
<1>. QED
  BY <1>6, <1>7, <1>8, <1>9, <1>10, <1>11, <1>12, <1>13, <1>14, <1>15, <1>16, <1>17
  DEF CaInv, Typed

\* A file that moved ends the scan.
LEMMA StaleKeeps ==
  ASSUME Cache!ScanCacheAssumption, CaInv, NEW p \in Path, Cache!Stale(p)
  PROVE  CaInv'
<1>1. WorldTyped' /\ OneName' /\ Clock'
  BY DEF CaInv, Typed, WorldTyped, OneName, Clock, Cache!Stale, Cache!world
<1>2. PhaseTyped'
  BY DEF CaInv, Typed, PhaseTyped, Cache!Stale, Cache!world
<1>3. JobTyped'
  BY JobsAre DEF CaInv, Typed, JobTyped, Cache!Stale, Cache!world
<1>4. EntriesTyped'
  BY EntriesAre DEF CaInv, Typed, EntriesTyped, Cache!Stale, Cache!world
<1>5. ManifestTyped'
  BY DEF CaInv, Typed, ManifestTyped, Cache!Stale, Cache!world
<1>6. CopyTyped'
  BY NoCopyIs DEF CaInv, Typed, CopyTyped, Cache!Stale, Cache!world
<1>7. Entered(cache)'
  BY EntriesAre DEF CaInv, Entered, Truthful, Taken, Cache!Stale, Cache!world
<1>8. Entered(disk)'
  BY EntriesAre DEF CaInv, Entered, Truthful, Taken, Cache!Stale, Cache!world
<1>9. Entered(prepared)'
  BY EntriesAre DEF CaInv, Entered, Truthful, Taken, Cache!Stale, Cache!world
<1>10. Jobs'
  BY JobsAre
  DEF CaInv, Jobs, JobOk, Taken, Follows, Cache!At, Cache!Fingerprint, Cache!Stale,
    Cache!world
<1>11. Copies'
  BY NoCopyIs
  DEF CaInv, Copies, Taken, Follows, Cache!At, Cache!Fingerprint, Cache!Stale, Cache!world
<1>12. Exact'
  BY DEF CaInv, Exact, Returned, Cache!Is, Cache!Stale, Cache!world
<1>. QED
  BY <1>1, <1>2, <1>3, <1>4, <1>5, <1>6, <1>7, <1>8, <1>9, <1>10, <1>11, <1>12
  DEF CaInv, Typed

\* A copy starts with the fingerprint of its file.
LEMMA StartCopyKeeps ==
  ASSUME Cache!ScanCacheAssumption, CaInv, NEW p \in Path, NEW ahead \in BOOLEAN,
         Cache!StartCopy(p, ahead)
  PROVE  CaInv'
<1>1. /\ copy'.step = "read" /\ copy'.path = p /\ copy'.evidence = Cache!At(p)
      /\ copy'.handle = file[p] /\ copy'.read = <<>> /\ file[p] \in Node
  BY DEF CaInv, Typed, WorldTyped, Node0, Cache!StartCopy, Cache!world
<1>2. Taken(Cache!At(p))
  BY MarksAre DEF CaInv, Clock, Typed, WorldTyped, Taken, Cache!StartCopy, Cache!world
<1>3. WorldTyped' /\ OneName' /\ Clock'
  BY DEF CaInv, Typed, WorldTyped, OneName, Clock, Cache!StartCopy, Cache!world
<1>4. PhaseTyped'
  BY DEF CaInv, Typed, PhaseTyped, Cache!StartCopy, Cache!world
<1>5. JobTyped'
  BY JobsAre DEF CaInv, Typed, JobTyped, Cache!StartCopy, Cache!world
<1>6. EntriesTyped'
  BY EntriesAre DEF CaInv, Typed, EntriesTyped, Cache!StartCopy, Cache!world
<1>7. ManifestTyped'
  BY DEF CaInv, Typed, ManifestTyped, Cache!StartCopy, Cache!world
<1>8. CopyTyped'
  BY <1>1, MarksAre
  DEF CaInv, Typed, WorldTyped, CopyTyped, Copy0, CopyPath, Cache!Reads, Node0,
    Cache!StartCopy, Cache!world
<1>9. Entered(cache)'
  BY EntriesAre DEF CaInv, Entered, Truthful, Taken, Cache!StartCopy, Cache!world
<1>10. Entered(disk)'
  BY EntriesAre DEF CaInv, Entered, Truthful, Taken, Cache!StartCopy, Cache!world
<1>11. Entered(prepared)'
  BY EntriesAre DEF CaInv, Entered, Truthful, Taken, Cache!StartCopy, Cache!world
<1>12. Jobs'
  BY JobsAre
  DEF CaInv, Jobs, JobOk, Taken, Follows, Cache!At, Cache!Fingerprint, Cache!StartCopy,
    Cache!world
<1>13. Copies'
  BY <1>1, <1>2
  DEF Copies, Taken, Follows, Cache!At, Cache!Fingerprint, Cache!StartCopy, Cache!world
<1>14. Exact'
  BY DEF CaInv, Exact, Returned, Cache!Is, Cache!StartCopy, Cache!world
<1>. QED
  BY <1>3, <1>4, <1>5, <1>6, <1>7, <1>8, <1>9, <1>10, <1>11, <1>12, <1>13, <1>14
  DEF CaInv, Typed

\* A piece is copied through the handle.
LEMMA ReadCopyKeeps ==
  ASSUME Cache!ScanCacheAssumption, CaInv, Cache!ReadCopy
  PROVE  CaInv'
<1>1. /\ copy \in Copy0 /\ copy.step = "read" /\ copy.handle \in Node /\ copy.read \in Cache!Reads
      /\ content[copy.handle] \in Cache!Contents /\ Len(copy.read) < 2
  BY DEF CaInv, Typed, CopyTyped, Copy0, WorldTyped, Copies, Cache!ReadCopy, Cache!world
<1>2. LET r == Append(copy.read, content[copy.handle][Len(copy.read) + 1])
           IN  /\ r \in Cache!Reads /\ (Len(r) = 1 \/ Len(r) = 2)
               /\ Len(r) = 2 => r \in Cache!Contents
               /\ (\A i \in 1 .. Len(copy.read) : copy.read[i] = content[copy.handle][i])
                    => \A i \in 1 .. Len(r) : r[i] = content[copy.handle][i]
  BY <1>1, ReadGrows DEF Cache!ReadCopy, Cache!world
<1>3. LET r == Append(copy.read, content[copy.handle][Len(copy.read) + 1])
           IN  /\ copy'.read = r /\ copy'.step = (IF Len(r) = 2 THEN "check" ELSE "read")
               /\ copy'.path = copy.path /\ copy'.evidence = copy.evidence /\ copy'.handle = copy.handle
  BY <1>1 DEF Copy0, Cache!ReadCopy, Cache!world
<1>4. WorldTyped' /\ OneName' /\ Clock'
  BY DEF CaInv, Typed, WorldTyped, OneName, Clock, Cache!ReadCopy, Cache!world
<1>5. PhaseTyped'
  BY DEF CaInv, Typed, PhaseTyped, Cache!ReadCopy, Cache!world
<1>6. JobTyped'
  BY JobsAre DEF CaInv, Typed, JobTyped, Cache!ReadCopy, Cache!world
<1>7. EntriesTyped'
  BY EntriesAre DEF CaInv, Typed, EntriesTyped, Cache!ReadCopy, Cache!world
<1>8. ManifestTyped'
  BY DEF CaInv, Typed, ManifestTyped, Cache!ReadCopy, Cache!world
<1>9. CopyTyped'
  BY <1>1, <1>2 DEF CopyTyped, Copy0, Cache!ReadCopy, Cache!world
<1>10. Entered(cache)'
  BY EntriesAre DEF CaInv, Entered, Truthful, Taken, Cache!ReadCopy, Cache!world
<1>11. Entered(disk)'
  BY EntriesAre DEF CaInv, Entered, Truthful, Taken, Cache!ReadCopy, Cache!world
<1>12. Entered(prepared)'
  BY EntriesAre DEF CaInv, Entered, Truthful, Taken, Cache!ReadCopy, Cache!world
<1>13. Jobs'
  BY JobsAre
  DEF CaInv, Jobs, JobOk, Taken, Follows, Cache!At, Cache!Fingerprint, Cache!ReadCopy,
    Cache!world
<1>14. Copies'
  BY <1>1, <1>2, <1>3
  DEF CaInv, Copies, Taken, Follows, Cache!At, Cache!Fingerprint, Cache!ReadCopy,
    Cache!world
<1>15. Exact'
  BY DEF CaInv, Exact, Returned, Cache!Is, Cache!ReadCopy, Cache!world
<1>. QED
  BY <1>4, <1>5, <1>6, <1>7, <1>8, <1>9, <1>10, <1>11, <1>12, <1>13, <1>14, <1>15
  DEF CaInv, Typed

\* A copy that is not the file forgets its path.
LEMMA FinishCopyKeeps ==
  ASSUME Cache!ScanCacheAssumption, CaInv, Cache!FinishCopy
  PROVE  CaInv'
<1>1. copy.path \in Path /\ copy'.step \in {"sent", "none"}
  BY NoCopyIs DEF CaInv, Copies, Typed, CopyTyped, Copy0, Cache!FinishCopy, Cache!world
<1>2. /\ cache' \in [Path -> Cache!Entries] /\ disk' \in {disk, cache'}
      /\ \A q \in Path : cache'[q] \in {cache[q], Cache!NoEntry}
  BY <1>1, EntriesAre, EntriesMove
  DEF CaInv, Typed, EntriesTyped, Cache!FinishCopy, Cache!world
<1>3. WorldTyped' /\ OneName' /\ Clock'
  BY DEF CaInv, Typed, WorldTyped, OneName, Clock, Cache!FinishCopy, Cache!world
<1>4. PhaseTyped'
  BY DEF CaInv, Typed, PhaseTyped, Cache!FinishCopy, Cache!world
<1>5. JobTyped'
  BY JobsAre DEF CaInv, Typed, JobTyped, Cache!FinishCopy, Cache!world
<1>6. EntriesTyped'
  BY <1>2 DEF CaInv, Typed, EntriesTyped, Cache!FinishCopy, Cache!world
<1>7. ManifestTyped'
  BY DEF CaInv, Typed, ManifestTyped, Cache!FinishCopy, Cache!world
<1>8. CopyTyped'
  BY <1>1, NoCopyIs DEF CaInv, Typed, CopyTyped, Copy0, Cache!FinishCopy, Cache!world
<1>9. Entered(cache)'
  BY <1>2, EntriesAre DEF CaInv, Entered, Truthful, Taken, Cache!FinishCopy, Cache!world
<1>10. Entered(disk)'
  BY <1>9, <1>2, EntriesAre
  DEF CaInv, Entered, Truthful, Taken, Cache!FinishCopy, Cache!world
<1>11. Entered(prepared)'
  BY EntriesAre DEF CaInv, Entered, Truthful, Taken, Cache!FinishCopy, Cache!world
<1>12. Jobs'
  BY JobsAre
  DEF CaInv, Jobs, JobOk, Taken, Follows, Cache!At, Cache!Fingerprint, Cache!FinishCopy,
    Cache!world
<1>13. Copies'
  BY <1>1 DEF Copies, Cache!FinishCopy, Cache!world
<1>14. Exact'
  BY DEF CaInv, Exact, Returned, Cache!Is, Cache!FinishCopy, Cache!world
<1>. QED
  BY <1>3, <1>4, <1>5, <1>6, <1>7, <1>8, <1>9, <1>10, <1>11, <1>12, <1>13, <1>14
  DEF CaInv, Typed

-----------------------------------------------------------------------------
LEMMA CaInit ==
  ASSUME Cache!ScanCacheAssumption, Cache!Init
  PROVE  CaInv
<1>. USE DEF Cache!ScanCacheAssumption, Cache!Init
<1>1. Typed
  <2>1. WorldTyped /\ PhaseTyped
    <3>1. content \in [Node -> Cache!Contents]
      BY DEF Cache!Contents
    <3>2. file \in [Path -> Node0]
      BY DEF Node0
    <3>3. 0 \in 0 .. EditMax /\ changed \in [Node -> 0 .. EditMax]
      OBVIOUS
    <3>. QED
      BY <3>1, <3>2, <3>3 DEF WorldTyped, PhaseTyped
  <2>2. JobTyped /\ EntriesTyped /\ ManifestTyped /\ CopyTyped
    BY EntriesAre, JobsAre, NoCopyIs DEF JobTyped, EntriesTyped, ManifestTyped, CopyTyped
  <2>. QED
    BY <2>1, <2>2 DEF Typed
<1>2. Entered(cache) /\ Entered(disk) /\ Entered(prepared)
  BY EntriesAre
<1>3. Jobs /\ Copies /\ Exact
  BY JobsAre, NoCopyIs DEF Jobs, JobOk, Copies, Exact
<1>. QED
  BY <1>1, <1>2, <1>3 DEF CaInv, OneName, Clock

LEMMA CaStutter ==
  ASSUME CaInv, UNCHANGED Cache!vars
  PROVE  CaInv'
<1>. USE DEF Cache!vars, Cache!world, CaInv
<1>1. Typed' /\ OneName' /\ Clock'
  BY DEF Typed, WorldTyped, PhaseTyped, JobTyped, EntriesTyped, ManifestTyped, CopyTyped,
    OneName, Clock
<1>2. Entered(cache)' /\ Entered(disk)' /\ Entered(prepared)'
  BY DEF Entered, Truthful, Taken
<1>3. Jobs' /\ Copies' /\ Exact'
  BY DEF Jobs, JobOk, Taken, Follows, Cache!At, Cache!Fingerprint, Copies, Exact,
    Returned, Cache!Is
<1>. QED
  BY <1>1, <1>2, <1>3

LEMMA CaNext ==
  ASSUME Cache!ScanCacheAssumption, CaInv, [Cache!Next]_(Cache!vars)
  PROVE  CaInv'
<1>1. CASE Cache!Editors
  BY <1>1, EditorsKeep DEF Cache!Editors
<1>2. CASE Cache!Prepare \/ Cache!Prepared \/ Cache!Open \/ Cache!Consume \/ Cache!StartScan \/ Cache!ScanDone \/ Cache!Close
  BY <1>2, PrepareKeeps, PreparedKeeps, OpenKeeps, ConsumeKeeps, StartScanKeeps,
    ScanDoneKeeps, CloseKeeps
<1>3. ASSUME NEW p \in Path,
             \/ Cache!List(p) \/ Cache!Reuse(p) \/ Cache!OpenFile(p) \/ Cache!Read(p) \/ Cache!Check(p) \/ Cache!Join(p) \/ Cache!Stale(p)
             \/ \E ahead \in BOOLEAN : Cache!StartCopy(p, ahead)
      PROVE  CaInv'
  BY <1>3, ListKeeps, ReuseKeeps, OpenFileKeeps, ReadKeeps, CheckKeeps, JoinKeeps,
    StaleKeeps, StartCopyKeeps
<1>4. CASE Cache!ReadCopy \/ Cache!FinishCopy
  BY <1>4, ReadCopyKeeps, FinishCopyKeeps
<1>5. CASE UNCHANGED Cache!vars
  BY <1>5, CaStutter
<1>. QED
  BY <1>1, <1>2, <1>3, <1>4, <1>5 DEF Cache!Next

\* Every fingerprint that is kept was taken of a file, every hash is that of
\* its fingerprint, and a hash or a copy under way is of the file as long as
\* the path has the fingerprint it had at first (hash_paths, copy_and_hash).
THEOREM CacheInvariance ==
  ASSUME Cache!ScanCacheAssumption
  PROVE  Cache!Spec => []CaInv
<1>1. Cache!Init => CaInv
  BY CaInit
<1>2. CaInv /\ [Cache!Next]_(Cache!vars) => CaInv'
  BY CaNext
<1>. QED
  BY <1>1, <1>2, PTL DEF Cache!Spec

LEMMA InvariantTells ==
  ASSUME Cache!ScanCacheAssumption, CaInv
  PROVE  Cache!CacheHonest /\ Cache!ScanExact
<1>1. ASSUME NEW e \in Cache!Entries, NEW p \in Path, Truthful(e), e # Cache!NoEntry,
             e.fingerprint = Cache!At(p)
      PROVE  e.hash = Cache!Is(p)
  <2>1. Taken(Cache!At(p)) /\ (changed[Cache!At(p)[1]] = Cache!At(p)[2] => e.hash = content[Cache!At(p)[1]])
    BY <1>1 DEF Truthful
  <2>2. file[p] # Absent
    BY <2>1, MarksAre DEF Taken, CaInv, Cache!ScanCacheAssumption
  <2>. QED
    BY <2>1, <2>2, MarksAre DEF CaInv, Cache!Is
<1>2. Cache!CacheHonest
  BY <1>1 DEF Cache!CacheHonest, Cache!Honest, CaInv, Entered, Typed, EntriesTyped
<1>3. Cache!ScanExact
  BY DEF Cache!ScanExact, CaInv, Exact, Returned
<1>. QED
  BY <1>2, <1>3

LEMMA SentIsCurrent ==
  ASSUME Cache!ScanCacheAssumption, CaInv, Cache!Next, copy.step = "check",
         copy'.step = "sent", copy.ahead
  PROVE  file[copy.path] # Absent /\ Cache!Is(copy.path) = manifest[copy.path]
<1>0. copy' # copy /\ copy' # Cache!NoCopy
  BY NoCopyIs
<1>1. Cache!FinishCopy
  <2>1. ASSUME Cache!Editors PROVE FALSE
    BY <1>0, <2>1
    DEF Cache!Editors, Cache!Overwrite, Cache!Replace, Cache!Remove, Cache!Edit
  <2>2. ASSUME Cache!Prepare \/ Cache!Prepared \/ Cache!Open \/ Cache!Consume \/ Cache!StartScan \/ Cache!ScanDone \/ Cache!Close PROVE FALSE
    BY <1>0, <2>2
    DEF Cache!Prepare, Cache!Prepared, Cache!Open, Cache!Consume, Cache!StartScan,
      Cache!ScanDone, Cache!Close
  <2>3. ASSUME NEW p \in Path,
          Cache!List(p) \/ Cache!Reuse(p) \/ Cache!OpenFile(p) \/ Cache!Read(p) \/ Cache!Check(p) \/ Cache!Join(p) \/ Cache!Stale(p)
        PROVE FALSE
    BY <1>0, <2>3
    DEF Cache!List, Cache!Reuse, Cache!OpenFile, Cache!Read, Cache!Check, Cache!Join,
      Cache!Stale
  <2>4. ASSUME NEW p \in Path, NEW ahead \in BOOLEAN, Cache!StartCopy(p, ahead) PROVE FALSE
    BY <2>4 DEF Cache!StartCopy
  <2>5. ASSUME Cache!ReadCopy PROVE FALSE
    BY <2>5 DEF Cache!ReadCopy
  <2>. QED
    BY <2>1, <2>2, <2>3, <2>4, <2>5 DEF Cache!Next
<1>2. Cache!Current
  BY <1>0, <1>1 DEF Cache!FinishCopy
<1>3. copy.read = manifest[copy.path] /\ Cache!At(copy.path) = copy.evidence /\ copy.path \in Path
  BY <1>2 DEF Cache!Current, CaInv, Copies
<1>4. file[copy.path] # Absent
  BY <1>3, MarksAre DEF CaInv, Copies, Taken, Cache!ScanCacheAssumption
<1>5. copy.read \in Cache!Contents /\ Cache!Is(copy.path) \in Cache!Contents
  BY <1>3, <1>4, MarksAre DEF CaInv, Copies
<1>6. \A i \in 1 .. Len(copy.read) : copy.read[i] = Cache!Is(copy.path)[i]
  BY <1>3 DEF CaInv, Copies, Follows, Cache!Is
<1>. QED
  BY <1>3, <1>4, <1>5, <1>6, WholeRead

\* No hash that is kept is of another version than its fingerprint, a scan
\* nobody disturbs is exact, and a copy made ahead is sent only while it is
\* current, however many files, editors and rounds there are.
THEOREM CacheTells ==
  ASSUME Cache!ScanCacheAssumption
  PROVE  Cache!Spec => Cache!CacheTellsTruth
<1>1. CaInv => Cache!CacheHonest /\ Cache!ScanExact
  BY InvariantTells
<1>2. CaInv /\ [Cache!Next]_(Cache!vars) =>
        [copy.step = "check" /\ copy'.step = "sent" /\ copy.ahead =>
           file[copy.path] # Absent /\ Cache!Is(copy.path) = manifest[copy.path]]_(Cache!vars)
  BY SentIsCurrent
<1>. QED
  BY <1>1, <1>2, CacheInvariance, PTL
  DEF Cache!Spec, Cache!CacheTellsTruth, Cache!PrefetchCurrent

-----------------------------------------------------------------------------
(* The other parts are proved in modules of their own. What a part is there *)
(* and what Computer calls it are the same definitions under two names:    *)
(* unfolded, they are the same formula.                                    *)

\* The proofs about the watcher and the scheduling of rounds.
Edits == INSTANCE EditProofs WITH
  Path <- Watched, EventMax <- NoticeMax, file <- hint_file,
  seen <- hint_seen, unsaved <- hint_unsaved, raw <- hint_raw,
  checking <- hint_checking, queue <- hint_queue, recovery <- hint_recovery,
  registry <- hint_registry, up <- hint_up, enabled <- hint_enabled,
  watched <- hint_watched, registering <- hint_registering,
  dirty <- hint_dirty, hint <- hint_hint, phase <- hint_phase,
  scope <- hint_scope, installing <- hint_installing, pcSide <- round_pcSide,
  phoneSide <- round_phoneSide, faults <- round_faults,
  narrowed <- round_narrowed, collected <- round_collected,
  urgent <- round_urgent, newer <- round_newer, channel <- round_channel,
  preempted <- round_preempted, request <- round_request, wire <- round_wire,
  online <- round_online, due <- round_due, mark <- round_mark,
  all <- round_all, auditDue <- round_auditDue,
  auditDeferred <- round_auditDeferred, cursor <- round_cursor,
  step <- round_step, kind <- round_kind, focus <- round_focus,
  excluded <- round_excluded, remaining <- round_remaining,
  current <- round_current, completed <- round_completed,
  attempt <- round_attempt, told <- round_told

\* The proofs about the configuration.
Importing == INSTANCE ConfigurationProofs WITH
  dir <- store_dir, may <- store_may, at <- store_at, copy <- store_copy,
  lock <- store_lock, session <- store_session, done <- store_done,
  raced <- store_raced, losses <- store_losses

(* The watcher (WatchHints).                                               *)
LEMMA WatchInit == Noticed!Init => Edits!Init
BY
  DEF Noticed!Init, Edits!Init, Noticed!NoWrite, Edits!NoWrite, Noticed!NoCheck,
    Edits!NoCheck, Noticed!NoInstall, Edits!NoInstall, Noticed!Checked,
    Edits!Checked

LEMMA WatchNext == [Noticed!Next]_(Noticed!vars) => [Edits!Next]_(Edits!vars)
BY
  DEF Noticed!Next, Edits!Next, Noticed!vars, Edits!vars, Noticed!Expire,
    Edits!Expire, Noticed!Disable, Edits!Disable, Noticed!Enable, Edits!Enable,
    Noticed!FullDue, Edits!FullDue, Noticed!Flush, Edits!Flush, Noticed!Stop,
    Edits!Stop, Noticed!Start, Edits!Start, Noticed!Open, Edits!Open,
    Noticed!Close, Edits!Close, Noticed!InstallRegister, Edits!InstallRegister,
    Noticed!User, Edits!User, Noticed!NotifyThread, Edits!NotifyThread,
    Noticed!ServeLoop, Edits!ServeLoop, Noticed!Round, Edits!Round,
    Noticed!folder, Edits!folder, Noticed!ingress, Edits!ingress, Noticed!serve,
    Edits!serve, Noticed!store, Edits!store, Noticed!NoWrite, Edits!NoWrite,
    Noticed!Marked, Edits!Marked, Noticed!LockFree, Edits!LockFree,
    Noticed!NoCheck, Edits!NoCheck, Noticed!NoInstall, Edits!NoInstall,
    Noticed!Save, Edits!Save, Noticed!Remove, Edits!Remove, Noticed!Receive,
    Edits!Receive, Noticed!Suspect, Edits!Suspect, Noticed!Compare, Edits!Compare,
    Noticed!Reload, Edits!Reload, Noticed!Register, Edits!Register,
    Noticed!Consume, Edits!Consume, Noticed!Recover, Edits!Recover, Noticed!Hash,
    Edits!Hash, Noticed!DeltaDone, Edits!DeltaDone, Noticed!ScanDone,
    Edits!ScanDone, Noticed!InstallPublish, Edits!InstallPublish,
    Noticed!InstallComplete, Edits!InstallComplete, Noticed!InstallHint,
    Edits!InstallHint, Noticed!Checked, Edits!Checked, Noticed!Report,
    Edits!Report, Noticed!Enqueue, Edits!Enqueue, Noticed!Known, Edits!Known,
    Noticed!Internal, Edits!Internal, Noticed!Observed, Edits!Observed

LEMMA WatchHolds == Edits!TypeOK /\ Edits!ChangeRemembered => Noticed!TypeOK /\ Noticed!ChangeRemembered
BY
  DEF Noticed!TypeOK, Edits!TypeOK, Noticed!ChangeRemembered,
    Edits!ChangeRemembered, Noticed!Content, Edits!Content, Noticed!Event,
    Edits!Event, Noticed!Names, Edits!Names, Noticed!OnTheWay, Edits!OnTheWay,
    Noticed!Unwatched, Edits!Unwatched, Noticed!Carries, Edits!Carries

(* The rounds (Schedule).                                                  *)
LEMMA RoundsInit == Rounds!Init => Edits!Rounds!Init
BY
  DEF Rounds!Init, Edits!Rounds!Init

LEMMA RoundsNext ==
  [Rounds!Next]_(Rounds!vars) => [Edits!Rounds!Next]_(Edits!Rounds!vars)
BY
  DEF Rounds!Next, Edits!Rounds!Next, Rounds!vars, Edits!Rounds!vars,
    Rounds!PcEdit, Edits!Rounds!PcEdit, Rounds!PhoneEdit, Edits!Rounds!PhoneEdit,
    Rounds!WakeAll, Edits!Rounds!WakeAll, Rounds!AuditTick,
    Edits!Rounds!AuditTick, Rounds!ManualRequest, Edits!Rounds!ManualRequest,
    Rounds!MarkUrgent, Edits!Rounds!MarkUrgent, Rounds!Flush, Edits!Rounds!Flush,
    Rounds!SendWakes, Edits!Rounds!SendWakes, Rounds!ReceiveWake,
    Edits!Rounds!ReceiveWake, Rounds!BeginPass, Edits!Rounds!BeginPass,
    Rounds!Connect, Edits!Rounds!Connect, Rounds!Accept, Edits!Rounds!Accept,
    Rounds!ScanAborted, Edits!Rounds!ScanAborted, Rounds!ShareFails,
    Edits!Rounds!ShareFails, Rounds!ShareSkipped, Edits!Rounds!ShareSkipped,
    Rounds!Disconnect, Edits!Rounds!Disconnect, Rounds!PassFails,
    Edits!Rounds!PassFails, Rounds!PassEnds, Edits!Rounds!PassEnds, Rounds!Visit,
    Edits!Rounds!Visit, Rounds!folders, Edits!Rounds!folders, Rounds!server,
    Edits!Rounds!server, Rounds!phone, Edits!Rounds!phone, Rounds!round,
    Edits!Rounds!round, Rounds!Locked, Edits!Rounds!Locked, Rounds!Wake,
    Edits!Rounds!Wake, Rounds!Committed, Edits!Rounds!Committed, Rounds!Marked,
    Edits!Rounds!Marked, Rounds!AuditShare, Edits!Rounds!AuditShare, Rounds!Aged,
    Edits!Rounds!Aged, Rounds!FocusedFirst, Edits!Rounds!FocusedFirst,
    Rounds!Urgent, Edits!Rounds!Urgent, Rounds!DeferTo, Edits!Rounds!DeferTo,
    Rounds!Unread, Edits!Rounds!Unread, Rounds!Served, Edits!Rounds!Served,
    Rounds!Break, Edits!Rounds!Break, Rounds!UrgentFirst,
    Edits!Rounds!UrgentFirst, Rounds!Idle, Edits!Rounds!Idle, Rounds!Audit,
    Edits!Rounds!Audit, Rounds!MarkAfter, Edits!Rounds!MarkAfter,
    Rounds!NextAudit, Edits!Rounds!NextAudit, Rounds!PreemptBefore,
    Edits!Rounds!PreemptBefore, Rounds!Select, Edits!Rounds!Select,
    Rounds!PreemptScan, Edits!Rounds!PreemptScan, Rounds!Continue,
    Edits!Rounds!Continue, Rounds!Complete, Edits!Rounds!Complete,
    Rounds!EndRound, Edits!Rounds!EndRound, Rounds!Consumed, Edits!Rounds!Consumed

LEMMA RoundsHold ==
  Edits!Rounds!TypeOK /\ Edits!Rounds!ChangeOwed => Rounds!TypeOK /\ Rounds!ChangeOwed
BY
  DEF Rounds!TypeOK, Edits!Rounds!TypeOK, Rounds!ChangeOwed,
    Edits!Rounds!ChangeOwed, Rounds!Request, Edits!Rounds!Request

(* The configuration (ConfigStore).                                        *)
LEMMA StoreInit == Store!Init => Importing!Init
BY
  DEF Store!Init, Importing!Init, Store!Missing, Importing!Missing, Store!Nobody,
    Importing!Nobody, Store!Process, Importing!Process, Store!Begins,
    Importing!Begins, Store!NoMarker, Importing!NoMarker

LEMMA SameImports == Store!Imports = Importing!Imports
BY DEF Store!Imports, Importing!Imports, Store!Cardinality, Importing!Cardinality

LEMMA StoreNext ==
  [Store!Next]_(Store!vars) => [Importing!Next]_(Importing!vars)
<1>1. Store!Imports = Importing!Imports
  BY SameImports
<1>2. ASSUME Store!Imports = Importing!Imports, Store!Next
      PROVE  Importing!Next
  BY <1>2, Zenon
  DEF Store!Next, Importing!Next, Store!Process, Importing!Process, Store!Recover,
    Importing!Recover, Store!Lock, Importing!Lock, Store!Load, Importing!Load,
    Store!Save, Importing!Save, Store!ReadLegacy, Importing!ReadLegacy,
    Store!SaveMigrated, Importing!SaveMigrated, Store!StartRound,
    Importing!StartRound, Store!RecoverFirst, Importing!RecoverFirst,
    Store!Recovered, Importing!Recovered, Store!ReadForRound,
    Importing!ReadForRound, Store!EndRound, Importing!EndRound, Store!StartImport,
    Importing!StartImport, Store!Mark, Importing!Mark, Store!MoveAway,
    Importing!MoveAway, Store!Place, Importing!Place, Store!SaveImported,
    Importing!SaveImported, Store!CommitFails, Importing!CommitFails,
    Store!EndImport, Importing!EndImport, Store!Die, Importing!Die,
    Store!PowerLoss, Importing!PowerLoss, Store!NoMarker, Importing!NoMarker,
    Store!Changed, Importing!Changed, Store!Synced, Importing!Synced,
    Store!Recovery, Importing!Recovery, Store!Goes, Importing!Goes, Store!Guard,
    Importing!Guard, Store!Nobody, Importing!Nobody, Store!Missing,
    Importing!Missing, Store!Placed, Importing!Placed, Store!Committed,
    Importing!Committed
<1>. QED
  BY <1>1, <1>2 DEF Store!vars, Importing!vars

LEMMA StoreHolds ==
  Importing!TypeOK /\ Importing!ConfigurationHolds => Store!TypeOK /\ Store!ConfigurationHolds
BY
  DEF Store!TypeOK, Importing!TypeOK, Store!ConfigurationHolds,
    Importing!ConfigurationHolds, Store!Nobody, Importing!Nobody, Store!Process,
    Importing!Process, Store!Config, Importing!Config, Store!Dir, Importing!Dir,
    Store!ImportAtomic, Importing!ImportAtomic, Store!RoundConsistent,
    Importing!RoundConsistent, Store!ChangesKept, Importing!ChangesKept,
    Store!Gen, Importing!Gen, Store!Content, Importing!Content, Store!Recoverable,
    Importing!Recoverable, Store!Belongs, Importing!Belongs, Store!NoMarker,
    Importing!NoMarker, Store!Missing, Importing!Missing, Store!Committed,
    Importing!Committed

-----------------------------------------------------------------------------
(* The theorems of the parts, for the computer as a whole.                 *)

LEMMA CacheTypes ==
  ASSUME Cache!ScanCacheAssumption, CaInv
  PROVE  Cache!TypeOK
<1>1. \A p \in Path : /\ job[p].step \in {"wait", "list", "open", "read", "check", "join", "done"}
                     /\ job[p].before \in Cache!Marks /\ job[p].read \in Cache!Reads
                     /\ job[p].handle \in Node \cup {Absent}
  BY DEF CaInv, Typed, JobTyped, Job0, Node0
<1>2. copy.step \in {"none", "read", "check", "sent"} /\ copy.read \in Cache!Reads
  BY DEF CaInv, Typed, CopyTyped, Copy0
<1>. QED
  BY <1>1, <1>2
  DEF CaInv, Typed, WorldTyped, PhaseTyped, EntriesTyped, ManifestTyped, Node0, Cache!TypeOK

LEMMA WatchTheorem ==
  ASSUME PartsAssumption
  PROVE  Noticed!Spec => [](Noticed!TypeOK /\ Noticed!ChangeRemembered)
<1>1. Edits!Spec => []Edits!TypeOK
  BY PartsAssumption, Edits!WatchTypes DEF PartsAssumption, Noticed!WatchAssumption
<1>2. Edits!Spec => []Edits!ChangeRemembered
  BY PartsAssumption, Edits!ChangesAreRemembered
  DEF PartsAssumption, Noticed!WatchAssumption
<1>. QED
  BY <1>1, <1>2, WatchInit, WatchNext, WatchHolds, PTL DEF Noticed!Spec, Edits!Spec

LEMMA ScheduleAssumed ==
  ASSUME PartsAssumption
  PROVE  Edits!Rounds!ScheduleAssumption
BY DEF PartsAssumption, Rounds!ScheduleAssumption, Rounds!Request,
  Edits!Rounds!ScheduleAssumption, Edits!Rounds!Request

LEMMA RoundsTheorem ==
  ASSUME PartsAssumption
  PROVE  Rounds!Spec => [](Rounds!TypeOK /\ Rounds!ChangeOwed)
<1>1. Edits!Rounds!Spec => []Edits!Rounds!TypeOK
  BY PartsAssumption, ScheduleAssumed, Edits!RoundTypes
  DEF PartsAssumption, Noticed!WatchAssumption
<1>2. Edits!Rounds!Spec => []Edits!Rounds!ChangeOwed
  BY PartsAssumption, ScheduleAssumed, Edits!ChangesAreOwed
  DEF PartsAssumption, Noticed!WatchAssumption
<1>. QED
  BY <1>1, <1>2, RoundsInit, RoundsNext, RoundsHold, PTL
  DEF Rounds!Spec, Edits!Rounds!Spec

LEMMA StoreTheorem ==
  ASSUME PartsAssumption
  PROVE  Store!Spec => [](Store!TypeOK /\ Store!ConfigurationHolds)
<1>1. Importing!ConfigStoreAssumption
  BY PartsAssumption
  DEF PartsAssumption, Store!ConfigStoreAssumption, Importing!ConfigStoreAssumption
<1>2. Importing!Spec => []Importing!TypeOK
  BY <1>1, Importing!StoreTypes
<1>3. Importing!Spec => []Importing!ConfigurationHolds
  BY <1>1, Importing!ImportsAreAtomic
<1>. QED
  BY <1>2, <1>3, StoreInit, StoreNext, StoreHolds, PTL
  DEF Store!Spec, Importing!Spec

\* A change on the PC is remembered on its way to the disk, then until a round
\* has read it, for any paths, versions and queues, and any Shares, rotation,
\* requests and faults; and all the state of the computer has its types.
THEOREM EditsAreRemembered ==
  ASSUME PartsAssumption
  PROVE  ComputerSpec => []EditsRemembered
<1>1. Spec => []TypeOK
  BY PairingTypes
<1>2. Daemon!Spec => []Daemon!TypeOK
  <2>1. DInv => Daemon!TypeOK
    BY DEF DInv
  <2>. QED
    BY <2>1, DaemonInvariance, PartsAssumption, PTL DEF PartsAssumption
<1>3. Cache!Spec => []Cache!TypeOK
  <2>1. CaInv => Cache!TypeOK
    BY CacheTypes, PartsAssumption DEF PartsAssumption
  <2>. QED
    BY <2>1, CacheInvariance, PartsAssumption, PTL DEF PartsAssumption
<1>. QED
  BY <1>1, <1>2, <1>3, WatchTheorem, RoundsTheorem, StoreTheorem, PTL
  DEF ComputerSpec, EditsRemembered, PartsTypeOK

\* The socket's path is that of the daemon that holds the lock, a start that
\* was reported happened, and a follower misses no line (start, restart, tail).
THEOREM CommandsAreTold ==
  ASSUME PartsAssumption
  PROVE  ComputerSpec => []CommandsTellTruth
BY DaemonTells, PartsAssumption, PTL DEF PartsAssumption, ComputerSpec, CommandsTellTruth

\* Configuration and state are of one import whatever ends, fails or loses
\* power; a round works with both of the same; and a saved change stays.
THEOREM ImportsAreAtomic ==
  ASSUME PartsAssumption
  PROVE  ComputerSpec => []ConfigurationHolds
BY StoreTheorem, PTL DEF ComputerSpec, ConfigurationHolds

\* A request by hand is removed when it was served or refused, never because
\* an older one ended (finish_manual_request).
THEOREM NewerRequestsAreKept ==
  ASSUME PartsAssumption
  PROVE  ComputerSpec => NewerRequestKept
<1>1. Edits!Rounds!Spec => Edits!Rounds!NewerRequestKept
  BY PartsAssumption, ScheduleAssumed, Edits!NewerRequestsAreKept
  DEF PartsAssumption, Noticed!WatchAssumption
<1>2. [round_request # None /\ round_request' = None =>
         round_step = "asked" \/ round_attempt = round_request]_(Edits!Rounds!vars) =>
      [round_request # None /\ round_request' = None =>
         round_step = "asked" \/ round_attempt = round_request]_(Rounds!vars)
  BY DEF Rounds!vars, Rounds!folders, Rounds!server, Rounds!phone, Rounds!round,
    Edits!Rounds!vars, Edits!Rounds!folders, Edits!Rounds!server, Edits!Rounds!phone,
    Edits!Rounds!round
<1>. QED
  BY <1>1, <1>2, RoundsInit, RoundsNext, PTL
  DEF ComputerSpec, NewerRequestKept, Rounds!NewerRequestKept,
    Edits!Rounds!NewerRequestKept, Rounds!Spec, Edits!Rounds!Spec

\* No hash that is kept is of another version than its fingerprint, a scan
\* nobody disturbs is exact, and a copy made ahead is sent only while current.
THEOREM CachesAreTrue ==
  ASSUME PartsAssumption
  PROVE  ComputerSpec => CacheTellsTruth
BY CacheTells, PartsAssumption, PTL DEF PartsAssumption, ComputerSpec, CacheTellsTruth
=============================================================================
