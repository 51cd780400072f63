-------------------------- MODULE SyncRoundProofs --------------------------
(***************************************************************************)
(* What SyncRound guarantees for any number of paths, contents and tokens, *)
(* any window and mode, however often users edit, delete and overflow the  *)
(* observers, and however often a process stops.                           *)
(***************************************************************************)
EXTENDS SyncRound, TLAPS

\* What is at a path has been there, and so has all that a round knows.
Sound(f) ==
  \A p \in Path : f[p] # Absent => \A s \in Side : f[p] \in held[s][p]

Remembered ==
  /\ \A s \in Side, p \in Path : file[s][p] # Absent => file[s][p] \in held[s][p]
  /\ \A p \in Path : pcScan[p] # Absent => pcScan[p] \in held["pc"][p]
  /\ \A p \in Path : phoneScan[p] # Absent => phoneScan[p] \in held["phone"][p]
  /\ \A p \in Path : at[p] = "stored" => pcScan[p] \in held["phone"][p]
  /\ Sound(base) /\ Sound(cand)

Resolving == {"snapshot", "copied", "kept"}
Sending   == {"staged", "put", "stored"}
Receiving == {"get", "fetched"}

\* A location is worked on only while there is a version to be copied, and
\* only in a direction that the mode allows.
Justified ==
  /\ phase \in {"idle", "delta", "full", "named"} =>
       \A l \in Loc : at[l] \in {"out", "hash"}
  /\ \A l \in Loc :
       /\ at[l] \in Sending \cup Resolving =>
            pcScan[l] # Absent /\ Mode # "ToPc"
       /\ at[l] \in Receiving \cup Resolving =>
            phoneScan[l] # Absent /\ Mode # "ToAndroid"
       /\ at[l] \in Resolving => l \in Path

IInv == TypeOK /\ Remembered /\ Justified

-----------------------------------------------------------------------------
\* The decision names a version that exists.
LEMMA DecisionSource ==
  ASSUME NEW l \in Loc
  PROVE  /\ Decision(l) \in {"ToAndroid", "Conflict"} => pcScan[l] # Absent
         /\ Decision(l) \in {"ToPc", "Conflict"} => phoneScan[l] # Absent
         /\ Decision(l) = "None" => pcScan[l] = phoneScan[l]
BY DEF Decision, Reconcile

\* The direction policy holds back what would write on the leading side.
LEMMA Permitted ==
  /\ ~Prohibited("ToAndroid") => Mode # "ToPc"
  /\ ~Prohibited("ToPc") => Mode # "ToAndroid"
  /\ ~Prohibited("Conflict") => Mode \notin {"ToPc", "ToAndroid"}
BY DEF Prohibited

\* Absorbing hints invents none.
LEMMA HintsType ==
  ASSUME NEW S, S \subseteq Loc \cup {Tree}
  PROVE  Hints(S) \subseteq Loc \cup {Tree}
BY DEF Hints

\* Paths and copies are locations, and Tree is not one.
LEMMA Locations ==
  /\ Path \subseteq Loc
  /\ \A p \in Path, c \in Content : <<p, c>> \in Loc /\ <<p, c>> \notin Path
  /\ Tree \notin Loc
BY ConstantsAssumption DEF Loc, Copy

\* To begin with nothing is committed and nobody is at work.
LEMMA Initially == Init => IInv
<1>. SUFFICES ASSUME Init PROVE IInv
  OBVIOUS
<1>. USE DEF Init
<1>1. TypeOK
  <2>1. file \in [Side -> [Loc -> MaybeContent]]
    OBVIOUS
  <2>2. held \in [Side -> [Path -> SUBSET Content]]
    BY <2>1, Locations DEF MaybeContent
  <2>3. over \in [Path -> [Content -> SUBSET Content]]
    OBVIOUS
  <2>4. Nothing \in [Loc -> MaybeContent]
    BY DEF Nothing, MaybeContent
  <2>. QED
    BY <2>1, <2>2, <2>3, <2>4 DEF TypeOK, Idle, MaybeToken
<1>2. Remembered
  <2>1. ASSUME NEW s \in Side, NEW p \in Path, file[s][p] # Absent
        PROVE  file[s][p] \in held[s][p]
    BY <2>1
  <2>. QED
    BY <2>1 DEF Remembered, Sound, Nothing, Idle, Loc
<1>3. Justified
  BY DEF Justified, Idle, Sending, Receiving, Resolving
<1>. QED
  BY <1>1, <1>2, <1>3 DEF IInv

\* An installation adds to what a side has had and takes nothing away.
LEMMA WriteAdds ==
  ASSUME TypeOK, NEW s \in Side, NEW l \in Loc, NEW expected, NEW new \in Content,
         Write(s, l, expected, new)
  PROVE  /\ file' \in [Side -> [Loc -> MaybeContent]]
         /\ held' \in [Side -> [Path -> SUBSET Content]]
         /\ over' \in [Path -> [Content -> SUBSET Content]]
         /\ \A t \in Side, p \in Path : held[t][p] \subseteq held'[t][p]
         /\ l \in Path => new \in held'[s][l]
         /\ \A t \in Side, p \in Loc :
              file'[t][p] = IF t = s /\ p = l THEN new ELSE file[t][p]
<1>. USE DEF TypeOK
<1>1. file' = [file EXCEPT ![s] = [file[s] EXCEPT ![l] = new]]
  BY DEF Write
<1>2. file' \in [Side -> [Loc -> MaybeContent]]
  BY <1>1 DEF MaybeContent
<1>3. \A t \in Side, p \in Loc :
        file'[t][p] = IF t = s /\ p = l THEN new ELSE file[t][p]
  BY <1>1
<1>4. CASE l \in Path
  <2>1. held' = [held EXCEPT ![s] = [held[s] EXCEPT ![l] = held[s][l] \cup {new}]]
    BY <1>4 DEF Write
  <2>. QED
    BY <1>2, <1>3, <1>4, <2>1 DEF Write
<1>5. CASE l \notin Path
  BY <1>2, <1>3, <1>5 DEF Write
<1>. QED
  BY <1>4, <1>5

\* A user adds to what a side has had.
LEMMA EditKeeps ==
  ASSUME IInv, NEW s \in Side, NEW p \in Path, NEW c \in Content, Edit(s, p, c)
  PROVE  IInv'
<1>. USE Locations DEF IInv, Edit
<1>1. /\ file' = [file EXCEPT ![s] = [file[s] EXCEPT ![p] = c]]
      /\ held' = [held EXCEPT ![s] = [held[s] EXCEPT ![p] = held[s][p] \cup {c}]]
      /\ over' = [over EXCEPT ![p] = [over[p] EXCEPT ![c] = held[s][p]]]
  OBVIOUS
<1>2. /\ file' \in [Side -> [Loc -> MaybeContent]]
      /\ held' \in [Side -> [Path -> SUBSET Content]]
      /\ over' \in [Path -> [Content -> SUBSET Content]]
  BY <1>1 DEF TypeOK, MaybeContent
<1>3. /\ noticed' \subseteq Loc \cup {Tree} /\ phoneDirty' \subseteq Loc \cup {Tree}
      /\ UNCHANGED <<base, hint, taken, tokens, round>>
  <2>1. /\ Hints(noticed \cup {p}) \subseteq Loc \cup {Tree}
        /\ Hints(phoneDirty \cup {p}) \subseteq Loc \cup {Tree}
    BY HintsType DEF TypeOK
  <2>2. Changed(s, p)
    OBVIOUS
  <2>. QED
    BY <2>1, <2>2 DEF TypeOK, Changed, NoticeOnPc, NoticeOnPhone
<1>. HIDE DEF Edit
<1>4. TypeOK'
  BY <1>2, <1>3 DEF TypeOK, tokens, round
<1>5. Remembered'
  <2>1. \A t \in Side, q \in Path : held[t][q] \subseteq held'[t][q]
    BY <1>1 DEF TypeOK
  <2>2. \A t \in Side, q \in Path :
          file'[t][q] # Absent => file'[t][q] \in held'[t][q]
    BY <1>1 DEF TypeOK, Remembered
  <2>. QED
    BY <1>3, <2>1, <2>2 DEF Remembered, Sound, Side, round
<1>6. Justified'
  BY <1>3 DEF Justified, round
<1>. QED
  BY <1>4, <1>5, <1>6

\* A deletion takes a file away, not the memory that it was there.
LEMMA RemoveKeeps ==
  ASSUME IInv, NEW s \in Side, NEW p \in Path, Remove(s, p)
  PROVE  IInv'
<1>. USE Locations DEF IInv, Remove
<1>1. file' = [file EXCEPT ![s] = [file[s] EXCEPT ![p] = Absent]]
  OBVIOUS
<1>2. file' \in [Side -> [Loc -> MaybeContent]]
  BY <1>1 DEF TypeOK, MaybeContent
<1>3. /\ noticed' \subseteq Loc \cup {Tree} /\ phoneDirty' \subseteq Loc \cup {Tree}
      /\ UNCHANGED <<held, over, base, hint, taken, tokens, round>>
  <2>1. /\ Hints(noticed \cup {p}) \subseteq Loc \cup {Tree}
        /\ Hints(phoneDirty \cup {p}) \subseteq Loc \cup {Tree}
    BY HintsType DEF TypeOK
  <2>2. Changed(s, p)
    OBVIOUS
  <2>. QED
    BY <2>1, <2>2 DEF TypeOK, Changed, NoticeOnPc, NoticeOnPhone
<1>. HIDE DEF Remove
<1>4. TypeOK'
  BY <1>2, <1>3 DEF TypeOK, tokens, round
<1>5. Remembered'
  <2>1. \A t \in Side, q \in Path :
          file'[t][q] # Absent => file'[t][q] \in held[t][q]
    BY <1>1 DEF TypeOK, Remembered
  <2>. QED
    BY <1>3, <2>1 DEF Remembered, Sound, round
<1>6. Justified'
  BY <1>3 DEF Justified, round
<1>. QED
  BY <1>4, <1>5, <1>6

\* Only the hints move to the disk.
LEMMA FlushHintKeeps ==
  ASSUME IInv, FlushHint
  PROVE  IInv'
<1>. USE HintsType, Locations DEF IInv, FlushHint, vars, disk, trust, tokens, round
<1>1. TypeOK'
  BY DEF TypeOK, MaybeContent, MaybeToken, Idle, Nothing, Side
<1>2. Remembered'
  BY DEF TypeOK, Remembered, Sound, Idle, Nothing, Side, MaybeContent
<1>3. Justified'
  BY DecisionSource, Permitted DEF TypeOK, Justified, Sending, Receiving, Resolving, Idle, Nothing, Was
<1>. QED
  BY <1>1, <1>2, <1>3

\* Only the phone's flags change.
LEMMA AuditDueKeeps ==
  ASSUME IInv, AuditDue
  PROVE  IInv'
<1>. USE HintsType, Locations DEF IInv, AuditDue, vars, disk, trust, tokens, round
<1>1. TypeOK'
  BY DEF TypeOK, MaybeContent, MaybeToken, Idle, Nothing, Side
<1>2. Remembered'
  BY DEF TypeOK, Remembered, Sound, Idle, Nothing, Side, MaybeContent
<1>3. Justified'
  BY DecisionSource, Permitted DEF TypeOK, Justified, Sending, Receiving, Resolving, Idle, Nothing, Was
<1>. QED
  BY <1>1, <1>2, <1>3

\* Only a delta hint that names paths goes into retry.
LEMMA BeginKeeps ==
  ASSUME IInv, Begin
  PROVE  IInv'
<1>. USE HintsType, Locations DEF IInv, Begin, vars, disk, trust, tokens, round
<1>1. TypeOK'
  BY DEF TypeOK, MaybeContent, MaybeToken, Idle, Nothing, Side
<1>2. Remembered'
  BY DEF TypeOK, Remembered, Sound, Idle, Nothing, Side, MaybeContent
<1>3. Justified'
  BY DecisionSource, Permitted DEF TypeOK, Justified, Sending, Receiving, Resolving, Idle, Nothing, Was
<1>. QED
  BY <1>1, <1>2, <1>3

\* A delta reads both folders at the paths in scope.
LEMMA DeltaScanKeeps ==
  ASSUME IInv, DeltaScan
  PROVE  IInv'
<1>. USE HintsType, Locations DEF IInv, DeltaScan, DeltaScope, vars, disk, trust, tokens, round
<1>1. TypeOK'
  BY DEF TypeOK, MaybeContent, MaybeToken, Idle, Nothing, Side
<1>2. Remembered'
  BY DEF TypeOK, Remembered, Sound, Idle, Nothing, Side, MaybeContent
<1>3. Justified'
  BY DecisionSource, Permitted DEF TypeOK, Justified, Sending, Receiving, Resolving, Idle, Nothing, Was
<1>. QED
  BY <1>1, <1>2, <1>3

\* A delta that falls back has read nothing.
LEMMA DeltaFallbackKeeps ==
  ASSUME IInv, DeltaFallback
  PROVE  IInv'
<1>. USE HintsType, Locations DEF IInv, DeltaFallback, vars, disk, trust, tokens, round
<1>1. TypeOK'
  BY DEF TypeOK, MaybeContent, MaybeToken, Idle, Nothing, Side
<1>2. Remembered'
  BY DEF TypeOK, Remembered, Sound, Idle, Nothing, Side, MaybeContent
<1>3. Justified'
  BY DecisionSource, Permitted DEF TypeOK, Justified, Sending, Receiving, Resolving, Idle, Nothing, Was
<1>. QED
  BY <1>1, <1>2, <1>3

\* Enumeration takes names only.
LEMMA EnumerateKeeps ==
  ASSUME IInv, Enumerate
  PROVE  IInv'
<1>. USE HintsType, Locations DEF IInv, Enumerate, vars, disk, trust, tokens, round
<1>1. TypeOK'
  BY DEF TypeOK, MaybeContent, MaybeToken, Idle, Nothing, Side
<1>2. Remembered'
  BY DEF TypeOK, Remembered, Sound, Idle, Nothing, Side, MaybeContent
<1>3. Justified'
  BY DecisionSource, Permitted DEF TypeOK, Justified, Sending, Receiving, Resolving, Idle, Nothing, Was
<1>. QED
  BY <1>1, <1>2, <1>3

\* The scan of the PC takes what is there.
LEMMA ScanPcKeeps ==
  ASSUME IInv, ScanPc
  PROVE  IInv'
<1>. USE DEF IInv, ScanPc, disk, tokens
<1>1. \A l \in Loc : at'[l] \in {"out", "hash", "todo"}
  BY DEF Justified
<1>2. TypeOK'
  BY <1>1 DEF TypeOK, Side
<1>3. Remembered'
  BY <1>1, Locations DEF TypeOK, Remembered, Sound, Side
<1>4. Justified'
  BY <1>1 DEF Justified, Sending, Receiving, Resolving
<1>. QED
  BY <1>2, <1>3, <1>4

\* A hash of the phone's is of a file that is there.
LEMMA HashNextKeeps ==
  ASSUME IInv, NEW S \in SUBSET Was({"hash"}), HashNext(S)
  PROVE  IInv'
<1>. USE HintsType, Locations DEF IInv, HashNext, Was, vars, disk, trust, tokens, round
<1>1. TypeOK'
  BY DEF TypeOK, MaybeContent, MaybeToken, Idle, Nothing, Side
<1>2. Remembered'
  BY DEF TypeOK, Remembered, Sound, Idle, Nothing, Side, MaybeContent
<1>3. Justified'
  BY DecisionSource, Permitted DEF TypeOK, Justified, Sending, Receiving, Resolving, Idle, Nothing, Was
<1>. QED
  BY <1>1, <1>2, <1>3

\* The end of the stream brings deferred locations back to work.
LEMMA HashEndKeeps ==
  ASSUME IInv, HashEnd
  PROVE  IInv'
<1>. USE HintsType, Locations DEF IInv, HashEnd, vars, disk, trust, tokens, round
<1>1. TypeOK'
  BY DEF TypeOK, MaybeContent, MaybeToken, Idle, Nothing, Side
<1>2. Remembered'
  BY DEF TypeOK, Remembered, Sound, Idle, Nothing, Side, MaybeContent
<1>3. Justified'
  BY DecisionSource, Permitted DEF TypeOK, Justified, Sending, Receiving, Resolving, Idle, Nothing, Was
<1>. QED
  BY <1>1, <1>2, <1>3

\* A deferred location keeps what is known of it.
LEMMA DeferKeeps ==
  ASSUME IInv, NEW l \in Loc, Defer(l)
  PROVE  IInv'
<1>. USE HintsType, Locations DEF IInv, Defer, Step, vars, disk, trust, tokens, round
<1>1. TypeOK'
  BY DEF TypeOK, MaybeContent, MaybeToken, Idle, Nothing, Side
<1>2. Remembered'
  BY DEF TypeOK, Remembered, Sound, Idle, Nothing, Side, MaybeContent
<1>3. Justified'
  BY DecisionSource, Permitted DEF TypeOK, Justified, Sending, Receiving, Resolving, Idle, Nothing, Was
<1>. QED
  BY <1>1, <1>2, <1>3

\* A prohibited direction leaves base and folders alone.
LEMMA SkipKeeps ==
  ASSUME IInv, NEW l \in Loc, Skip(l)
  PROVE  IInv'
<1>. USE HintsType, Locations DEF IInv, Skip, Step, vars, disk, trust, tokens, round
<1>1. TypeOK'
  BY DEF TypeOK, MaybeContent, MaybeToken, Idle, Nothing, Side
<1>2. Remembered'
  BY DEF TypeOK, Remembered, Sound, Idle, Nothing, Side, MaybeContent
<1>3. Justified'
  BY DecisionSource, Permitted DEF TypeOK, Justified, Sending, Receiving, Resolving, Idle, Nothing, Was
<1>. QED
  BY <1>1, <1>2, <1>3

\* Where both scans agree, both sides have had the version.
LEMMA AgreeKeeps ==
  ASSUME IInv, NEW l \in Loc, Agree(l)
  PROVE  IInv'
<1>. USE DEF IInv, Agree, Step, disk, trust, tokens
<1>1. TypeOK'
  BY DEF TypeOK
<1>2. Remembered'
  BY DecisionSource, Locations DEF TypeOK, Remembered, Sound, Side
<1>3. Justified'
  BY DEF TypeOK, Justified, Sending, Receiving, Resolving
<1>. QED
  BY <1>1, <1>2, <1>3

\* Only a version that exists is offered, in a permitted direction.
LEMMA OfferKeeps ==
  ASSUME IInv, NEW l \in Loc, Offer(l)
  PROVE  IInv'
<1>. USE HintsType, Locations DEF IInv, Offer, Step, vars, disk, trust, tokens, round
<1>1. TypeOK'
  BY DEF TypeOK, MaybeContent, MaybeToken, Idle, Nothing, Side
<1>2. Remembered'
  BY DEF TypeOK, Remembered, Sound, Idle, Nothing, Side, MaybeContent
<1>3. Justified'
  BY DecisionSource, Permitted DEF TypeOK, Justified, Sending, Receiving, Resolving, Idle, Nothing, Was
<1>. QED
  BY <1>1, <1>2, <1>3

\* Only a version that exists is fetched, in a permitted direction.
LEMMA FetchKeeps ==
  ASSUME IInv, NEW l \in Loc, Fetch(l)
  PROVE  IInv'
<1>1. /\ at' = [at EXCEPT ![l] = "get"]
      /\ phoneScan[l] # Absent /\ Mode # "ToAndroid"
      /\ at[l] = "todo" /\ phase # "named"
  BY DecisionSource, Permitted DEF Fetch, Step, Working
<1>. USE <1>1 DEF IInv, Fetch, disk, trust, tokens
<1>2. TypeOK'
  BY DEF TypeOK
<1>3. Remembered'
  BY DEF TypeOK, Remembered, Sound, Loc
<1>4. Justified'
  BY DEF TypeOK, Justified, Sending, Receiving, Resolving
<1>. QED
  BY <1>2, <1>3, <1>4

\* The phone's answer changes no folder.
LEMMA BlobKeeps ==
  ASSUME IInv, NEW l \in Loc, Blob(l)
  PROVE  IInv'
<1>. USE HintsType, Locations DEF IInv, Blob, Step, vars, disk, trust, tokens, round
<1>1. TypeOK'
  BY DEF TypeOK, MaybeContent, MaybeToken, Idle, Nothing, Side
<1>2. Remembered'
  BY DEF TypeOK, Remembered, Sound, Idle, Nothing, Side, MaybeContent
<1>3. Justified'
  BY DecisionSource, Permitted DEF TypeOK, Justified, Sending, Receiving, Resolving, Idle, Nothing, Was
<1>. QED
  BY <1>1, <1>2, <1>3

\* The candidate takes the phone's version as the PC receives it.
LEMMA InstallGetKeeps ==
  ASSUME IInv, NEW l \in Loc, InstallGet(l)
  PROVE  IInv'
<1>1. phoneScan[l] \in Content /\ l \in Loc
  BY Locations DEF IInv, InstallGet, WriteOnPc, Step, TypeOK, Justified, Sending, Receiving, Resolving, MaybeContent
<1>2. Write("pc", l, pcScan[l], phoneScan[l])
  BY DEF InstallGet, WriteOnPc, Step
<1>3. /\ file' \in [Side -> [Loc -> MaybeContent]]
      /\ held' \in [Side -> [Path -> SUBSET Content]]
      /\ over' \in [Path -> [Content -> SUBSET Content]]
      /\ \A t \in Side, q \in Path : held[t][q] \subseteq held'[t][q]
      /\ l \in Path => phoneScan[l] \in held'["pc"][l]
      /\ \A t \in Side, q \in Loc :
           file'[t][q] = IF t = "pc" /\ q = l THEN phoneScan[l] ELSE file[t][q]
  BY <1>1, <1>2, WriteAdds DEF IInv, Side
<1>. USE HintsType, Locations DEF IInv, InstallGet, WriteOnPc, Step, trust, tokens
<1>4. TypeOK'
  BY <1>1, <1>3 DEF TypeOK, MaybeContent
<1>5. Remembered'
  BY <1>1, <1>3 DEF TypeOK, Remembered, Sound, Side, MaybeContent
<1>6. Justified'
  BY DEF TypeOK, Justified, Sending, Receiving, Resolving
<1>. QED
  BY <1>4, <1>5, <1>6

\* The phone has the PC's version before it is accepted.
LEMMA InstallPutKeeps ==
  ASSUME IInv, NEW l \in Loc, InstallPut(l)
  PROVE  IInv'
<1>1. pcScan[l] \in Content /\ l \in Loc
  BY Locations DEF IInv, InstallPut, WriteOnPhone, Step, TypeOK, Justified, Sending, Receiving, Resolving, MaybeContent
<1>2. Write("phone", l, phoneScan[l], pcScan[l])
  BY DEF InstallPut, WriteOnPhone, Step
<1>3. /\ file' \in [Side -> [Loc -> MaybeContent]]
      /\ held' \in [Side -> [Path -> SUBSET Content]]
      /\ over' \in [Path -> [Content -> SUBSET Content]]
      /\ \A t \in Side, q \in Path : held[t][q] \subseteq held'[t][q]
      /\ l \in Path => pcScan[l] \in held'["phone"][l]
      /\ \A t \in Side, q \in Loc :
           file'[t][q] = IF t = "phone" /\ q = l THEN pcScan[l] ELSE file[t][q]
  BY <1>1, <1>2, WriteAdds DEF IInv, Side
<1>. USE HintsType, Locations DEF IInv, InstallPut, WriteOnPhone, Step, trust, tokens
<1>4. TypeOK'
  BY <1>1, <1>3 DEF TypeOK, MaybeContent
<1>5. Remembered'
  BY <1>1, <1>3 DEF TypeOK, Remembered, Sound, Side, MaybeContent
<1>6. Justified'
  BY DEF TypeOK, Justified, Sending, Receiving, Resolving
<1>. QED
  BY <1>4, <1>5, <1>6

\* The candidate takes the PC's version as the phone receives it.
LEMMA InstallStagedKeeps ==
  ASSUME IInv, NEW l \in Loc, InstallStaged(l)
  PROVE  IInv'
<1>1. pcScan[l] \in Content /\ l \in Loc
  BY Locations DEF IInv, InstallStaged, WriteOnPhone, Step, TypeOK, Justified, Sending, Receiving, Resolving, MaybeContent
<1>2. Write("phone", l, phoneScan[l], pcScan[l])
  BY DEF InstallStaged, WriteOnPhone, Step
<1>3. /\ file' \in [Side -> [Loc -> MaybeContent]]
      /\ held' \in [Side -> [Path -> SUBSET Content]]
      /\ over' \in [Path -> [Content -> SUBSET Content]]
      /\ \A t \in Side, q \in Path : held[t][q] \subseteq held'[t][q]
      /\ l \in Path => pcScan[l] \in held'["phone"][l]
      /\ \A t \in Side, q \in Loc :
           file'[t][q] = IF t = "phone" /\ q = l THEN pcScan[l] ELSE file[t][q]
  BY <1>1, <1>2, WriteAdds DEF IInv, Side
<1>. USE HintsType, Locations DEF IInv, InstallStaged, WriteOnPhone, Step, trust, tokens
<1>4. TypeOK'
  BY <1>1, <1>3 DEF TypeOK, MaybeContent
<1>5. Remembered'
  BY <1>1, <1>3 DEF TypeOK, Remembered, Sound, Side, MaybeContent
<1>6. Justified'
  BY DEF TypeOK, Justified, Sending, Receiving, Resolving
<1>. QED
  BY <1>4, <1>5, <1>6

\* Only what the phone has stored is accepted.
LEMMA DrainPutsKeeps ==
  ASSUME IInv, DrainPuts
  PROVE  IInv'
<1>. USE HintsType, Locations DEF IInv, DrainPuts, vars, disk, trust, tokens, round
<1>1. TypeOK'
  BY DEF TypeOK, MaybeContent, MaybeToken, Idle, Nothing, Side
<1>2. Remembered'
  BY DEF TypeOK, Remembered, Sound, Idle, Nothing, Side, MaybeContent
<1>3. Justified'
  BY DecisionSource, Permitted DEF TypeOK, Justified, Sending, Receiving, Resolving, Idle, Nothing, Was
<1>. QED
  BY <1>1, <1>2, <1>3

\* A conflict has a version on either side and a mode for both ways.
LEMMA ConflictKeeps ==
  ASSUME IInv, NEW p \in Path, Conflict(p)
  PROVE  IInv'
<1>. USE HintsType, Locations DEF IInv, Conflict, Step, vars, disk, trust, tokens, round
<1>1. TypeOK'
  BY DEF TypeOK, MaybeContent, MaybeToken, Idle, Nothing, Side
<1>2. Remembered'
  BY DEF TypeOK, Remembered, Sound, Idle, Nothing, Side, MaybeContent
<1>3. Justified'
  BY DecisionSource, Permitted DEF TypeOK, Justified, Sending, Receiving, Resolving, Idle, Nothing, Was
<1>. QED
  BY <1>1, <1>2, <1>3

\* The copy on the PC holds the phone's version.
LEMMA CopyOnPcKeeps ==
  ASSUME IInv, NEW p \in Path, CopyOnPc(p)
  PROVE  IInv'
<1>1. phoneScan[p] \in Content /\ <<p, phoneScan[p]>> \in Loc
  BY Locations DEF IInv, CopyOnPc, WriteOnPc, Step, TypeOK, Justified, Sending, Receiving, Resolving, MaybeContent
<1>2. Write("pc", <<p, phoneScan[p]>>, Absent, phoneScan[p])
  BY DEF CopyOnPc, WriteOnPc, Step
<1>3. /\ file' \in [Side -> [Loc -> MaybeContent]]
      /\ held' \in [Side -> [Path -> SUBSET Content]]
      /\ over' \in [Path -> [Content -> SUBSET Content]]
      /\ \A t \in Side, q \in Path : held[t][q] \subseteq held'[t][q]
      /\ <<p, phoneScan[p]>> \in Path => phoneScan[p] \in held'["pc"][<<p, phoneScan[p]>>]
      /\ \A t \in Side, q \in Loc :
           file'[t][q] = IF t = "pc" /\ q = <<p, phoneScan[p]>> THEN phoneScan[p] ELSE file[t][q]
  BY <1>1, <1>2, WriteAdds DEF IInv, Side
<1>. USE HintsType, Locations DEF IInv, CopyOnPc, WriteOnPc, Step, trust, tokens
<1>4. TypeOK'
  BY <1>1, <1>3, ZenonT(60) DEF TypeOK, MaybeContent
<1>5. Remembered'
  BY <1>1, <1>3 DEF TypeOK, Remembered, Sound, Side, MaybeContent
<1>6. Justified'
  BY DEF TypeOK, Justified, Sending, Receiving, Resolving
<1>. QED
  BY <1>4, <1>5, <1>6

\* The copy on the phone holds it as well.
LEMMA CopyOnPhoneKeeps ==
  ASSUME IInv, NEW p \in Path, CopyOnPhone(p)
  PROVE  IInv'
<1>1. phoneScan[p] \in Content /\ <<p, phoneScan[p]>> \in Loc
  BY Locations DEF IInv, CopyOnPhone, WriteOnPhone, Step, TypeOK, Justified, Sending, Receiving, Resolving, MaybeContent
<1>2. Write("phone", <<p, phoneScan[p]>>, Absent, phoneScan[p])
  BY DEF CopyOnPhone, WriteOnPhone, Step
<1>3. /\ file' \in [Side -> [Loc -> MaybeContent]]
      /\ held' \in [Side -> [Path -> SUBSET Content]]
      /\ over' \in [Path -> [Content -> SUBSET Content]]
      /\ \A t \in Side, q \in Path : held[t][q] \subseteq held'[t][q]
      /\ <<p, phoneScan[p]>> \in Path => phoneScan[p] \in held'["phone"][<<p, phoneScan[p]>>]
      /\ \A t \in Side, q \in Loc :
           file'[t][q] = IF t = "phone" /\ q = <<p, phoneScan[p]>> THEN phoneScan[p] ELSE file[t][q]
  BY <1>1, <1>2, WriteAdds DEF IInv, Side
<1>. USE HintsType, Locations DEF IInv, CopyOnPhone, WriteOnPhone, Step, trust, tokens
<1>4. TypeOK'
  BY <1>1, <1>3, ZenonT(60) DEF TypeOK, MaybeContent
<1>5. Remembered'
  BY <1>1, <1>3 DEF TypeOK, Remembered, Sound, Side, MaybeContent
<1>6. Justified'
  BY DEF TypeOK, Justified, Sending, Receiving, Resolving
<1>. QED
  BY <1>4, <1>5, <1>6

\* The PC's version stays and is what the candidate records.
LEMMA ReplaceKeeps ==
  ASSUME IInv, NEW p \in Path, Replace(p)
  PROVE  IInv'
<1>1. pcScan[p] \in Content /\ p \in Loc
  BY Locations DEF IInv, Replace, WriteOnPhone, Step, TypeOK, Justified, Sending, Receiving, Resolving, MaybeContent
<1>2. Write("phone", p, phoneScan[p], pcScan[p])
  BY DEF Replace, WriteOnPhone, Step
<1>3. /\ file' \in [Side -> [Loc -> MaybeContent]]
      /\ held' \in [Side -> [Path -> SUBSET Content]]
      /\ over' \in [Path -> [Content -> SUBSET Content]]
      /\ \A t \in Side, q \in Path : held[t][q] \subseteq held'[t][q]
      /\ p \in Path => pcScan[p] \in held'["phone"][p]
      /\ \A t \in Side, q \in Loc :
           file'[t][q] = IF t = "phone" /\ q = p THEN pcScan[p] ELSE file[t][q]
  BY <1>1, <1>2, WriteAdds DEF IInv, Side
<1>a. /\ cand' = [cand EXCEPT ![p] = pcScan[p], ![<<p, phoneScan[p]>>] = phoneScan[p]]
      /\ cand \in [Loc -> MaybeContent]
      /\ <<p, phoneScan[p]>> \notin Path
  <2>1. phoneScan[p] \in Content
    BY Locations DEF IInv, Replace, TypeOK, Justified, Resolving, MaybeContent
  <2>. QED
    BY <2>1, Locations DEF IInv, TypeOK, Replace
<1>b. \A q \in Path : cand'[q] = IF q = p THEN pcScan[p] ELSE cand[q]
  BY <1>a, Locations
<1>. USE HintsType, Locations DEF IInv, Replace, WriteOnPhone, Step, trust, tokens
<1>4. TypeOK'
  BY <1>1, <1>3, ZenonT(60) DEF TypeOK, MaybeContent
<1>5. Remembered'
  <2>2. Sound(cand)'
    BY <1>1, <1>3, <1>b DEF Remembered, Sound, Side
  <2>3. Sound(base)'
    BY <1>3 DEF Remembered, Sound
  <2>4. \A q \in Path : at'[q] = "stored" => at[q] = "stored"
    BY DEF TypeOK
  <2>. QED
    BY <1>1, <1>3, <2>2, <2>3, <2>4 DEF Remembered, Side
<1>6. Justified'
  BY DEF TypeOK, Justified, Sending, Receiving, Resolving
<1>. QED
  BY <1>4, <1>5, <1>6

\* Done changes tokens and forgets the scans.
LEMMA FinishKeeps ==
  ASSUME IInv, NEW t \in Token, Finish(t)
  PROVE  IInv'
<1>. USE DEF IInv, Finish, disk, trust
<1>1. \A l \in Loc : at[l] \notin Sending \cup Receiving \cup Resolving
  BY DEF Drained, Puts, Gets, Copying, Was, Sending, Receiving, Resolving
<1>2. TypeOK'
  BY DEF TypeOK, Nothing, MaybeContent, MaybeToken
<1>3. Remembered'
  BY <1>1, Locations DEF TypeOK, Remembered, Sound, Nothing, Sending
<1>4. Justified'
  BY <1>1 DEF Justified
<1>. QED
  BY <1>2, <1>3, <1>4

\* The committed base is the candidate, which was sound.
LEMMA CommitKeeps ==
  ASSUME IInv, Commit
  PROVE  IInv'
<1>. USE HintsType, Locations DEF IInv, Commit, EndRound, vars, disk, trust, tokens, round
<1>1. TypeOK'
  BY DEF TypeOK, MaybeContent, MaybeToken, Idle, Nothing, Side
<1>2. Remembered'
  BY DEF TypeOK, Remembered, Sound, Idle, Nothing, Side, MaybeContent
<1>3. Justified'
  BY DecisionSource, Permitted DEF TypeOK, Justified, Sending, Receiving, Resolving, Idle, Nothing, Was
<1>. QED
  BY <1>1, <1>2, <1>3

\* Only a token changes hands.
LEMMA PhoneDoneKeeps ==
  ASSUME IInv, PhoneDone
  PROVE  IInv'
<1>. USE HintsType, Locations DEF IInv, PhoneDone, vars, disk, trust, tokens, round
<1>1. TypeOK'
  BY DEF TypeOK, MaybeContent, MaybeToken, Idle, Nothing, Side
<1>2. Remembered'
  BY DEF TypeOK, Remembered, Sound, Idle, Nothing, Side, MaybeContent
<1>3. Justified'
  BY DecisionSource, Permitted DEF TypeOK, Justified, Sending, Receiving, Resolving, Idle, Nothing, Was
<1>. QED
  BY <1>1, <1>2, <1>3

\* Only a token is lost.
LEMMA LoseDoneKeeps ==
  ASSUME IInv, LoseDone
  PROVE  IInv'
<1>. USE HintsType, Locations DEF IInv, LoseDone, vars, disk, trust, tokens, round
<1>1. TypeOK'
  BY DEF TypeOK, MaybeContent, MaybeToken, Idle, Nothing, Side
<1>2. Remembered'
  BY DEF TypeOK, Remembered, Sound, Idle, Nothing, Side, MaybeContent
<1>3. Justified'
  BY DecisionSource, Permitted DEF TypeOK, Justified, Sending, Receiving, Resolving, Idle, Nothing, Was
<1>. QED
  BY <1>1, <1>2, <1>3

\* A round that is given up leaves the base as it was.
LEMMA AbandonKeeps ==
  ASSUME IInv, Abandon
  PROVE  IInv'
<1>. USE HintsType, Locations DEF IInv, Abandon, EndRound, vars, disk, trust, tokens, round
<1>1. TypeOK'
  BY DEF TypeOK, MaybeContent, MaybeToken, Idle, Nothing, Side
<1>2. Remembered'
  BY DEF TypeOK, Remembered, Sound, Idle, Nothing, Side, MaybeContent
<1>3. Justified'
  BY DecisionSource, Permitted DEF TypeOK, Justified, Sending, Receiving, Resolving, Idle, Nothing, Was
<1>. QED
  BY <1>1, <1>2, <1>3

\* A stop of the PC leaves the base as it was.
LEMMA CrashPcKeeps ==
  ASSUME IInv, CrashPc
  PROVE  IInv'
<1>. USE HintsType, Locations DEF IInv, CrashPc, EndRound, vars, disk, trust, tokens, round
<1>1. TypeOK'
  BY DEF TypeOK, MaybeContent, MaybeToken, Idle, Nothing, Side
<1>2. Remembered'
  BY DEF TypeOK, Remembered, Sound, Idle, Nothing, Side, MaybeContent
<1>3. Justified'
  BY DecisionSource, Permitted DEF TypeOK, Justified, Sending, Receiving, Resolving, Idle, Nothing, Was
<1>. QED
  BY <1>1, <1>2, <1>3

\* A stop of the phone leaves the base as it was.
LEMMA CrashPhoneKeeps ==
  ASSUME IInv, CrashPhone
  PROVE  IInv'
<1>. USE HintsType, Locations DEF IInv, CrashPhone, EndRound, vars, disk, trust, tokens, round
<1>1. TypeOK'
  BY DEF TypeOK, MaybeContent, MaybeToken, Idle, Nothing, Side
<1>2. Remembered'
  BY DEF TypeOK, Remembered, Sound, Idle, Nothing, Side, MaybeContent
<1>3. Justified'
  BY DecisionSource, Permitted DEF TypeOK, Justified, Sending, Receiving, Resolving, Idle, Nothing, Was
<1>. QED
  BY <1>1, <1>2, <1>3

-----------------------------------------------------------------------------
\* Users, failures and the code alike keep the invariant.
LEMMA Inductive == IInv /\ [Next]_vars => IInv'
<1>. SUFFICES ASSUME IInv, [Next]_vars PROVE IInv'
  OBVIOUS
<1>1. CASE Environment
  BY <1>1, EditKeeps, RemoveKeeps, AbandonKeeps, CrashPcKeeps, CrashPhoneKeeps, LoseDoneKeeps
  DEF Environment, Users, Lose
<1>2. CASE FlushHint \/ AuditDue \/ Begin \/ PhoneDone
  BY <1>2, FlushHintKeeps, AuditDueKeeps, BeginKeeps, PhoneDoneKeeps
<1>3. CASE Advance
  <2>1. CASE \E l \in Loc : Process(l)
    BY <2>1, DeferKeeps, SkipKeeps, AgreeKeeps, OfferKeeps, FetchKeeps, BlobKeeps,
       InstallGetKeeps, InstallPutKeeps, InstallStagedKeeps DEF Process
  <2>2. CASE \E p \in Path : Resolve(p)
    BY <2>2, ConflictKeeps, CopyOnPcKeeps, CopyOnPhoneKeeps, ReplaceKeeps DEF Resolve
  <2>3. CASE \/ DeltaScan \/ DeltaFallback \/ Enumerate \/ ScanPc \/ HashEnd \/ DrainPuts
             \/ Commit \/ Refuse
    BY <2>3, DeltaScanKeeps, DeltaFallbackKeeps, EnumerateKeeps, ScanPcKeeps, HashEndKeeps,
       DrainPutsKeeps, CommitKeeps, AbandonKeeps DEF Refuse
  <2>4. CASE \/ \E S \in SUBSET Was({"hash"}) : HashNext(S)
             \/ \E t \in Token : Finish(t)
    BY <2>4, HashNextKeeps, FinishKeeps
  <2>. QED
    BY <1>3, <2>1, <2>2, <2>3, <2>4 DEF Advance
<1>4. CASE UNCHANGED vars
  <2>. USE <1>4 DEF IInv, vars, disk, trust, tokens, round
  <2>1. TypeOK'
    BY DEF TypeOK
  <2>2. Remembered'
    BY DEF Remembered, Sound
  <2>3. Justified'
    BY DEF Justified
  <2>. QED
    BY <2>1, <2>2, <2>3
<1>. QED
  BY <1>1, <1>2, <1>3, <1>4 DEF Next

(* What every reachable state of a Share satisfies: coordinate_candidate   *)
(* records in its candidate base only versions that both folders have had. *)
THEOREM Invariance == Spec => []IInv
<1>1. Init => IInv
  BY Initially
<1>2. IInv /\ [Next]_vars => IInv'
  BY Inductive
<1>. QED
  BY <1>1, <1>2, PTL DEF Spec

(* The state of a round has its types: in particular a delta never carries *)
(* the hint for everything (retry names locations only).                   *)
THEOREM TypeCorrect == Spec => []TypeOK
BY Invariance, PTL DEF IInv

(* BaseSound: a committed base is a version that both folders have had,    *)
(* through lost rounds, windows, conflicts and crashes of either side.     *)
THEOREM SharedBase == Spec => []BaseSound
<1>1. IInv => BaseSound
  BY DEF IInv, Remembered, Sound, BaseSound
<1>. QED
  BY <1>1, Invariance, PTL

\* The direction policy, step by step.
LEMMA StepIsOneWay ==
  ASSUME IInv, [Next]_vars, ~Users
  PROVE  /\ Mode = "ToAndroid" => file'["pc"] = file["pc"]
         /\ Mode = "ToPc" => file'["phone"] = file["phone"]
<1>. DEFINE Led == /\ Mode = "ToAndroid" => file'["pc"] = file["pc"]
                   /\ Mode = "ToPc" => file'["phone"] = file["phone"]
<1>1. ASSUME NEW l \in Loc, Process(l) PROVE Led
  <2>1. CASE UNCHANGED file
    BY <2>1
  <2>2. CASE InstallGet(l)
    BY <2>2 DEF IInv, TypeOK, Justified, Receiving, InstallGet, WriteOnPc, Write, Side
  <2>3. CASE InstallPut(l) \/ InstallStaged(l)
    BY <2>3 DEF IInv, TypeOK, Justified, Sending, InstallPut, InstallStaged, WriteOnPhone, Write, Side
  <2>. QED
    BY <1>1, <2>1, <2>2, <2>3
    DEF Process, Defer, Skip, Agree, Offer, Fetch, Blob, disk
<1>2. ASSUME NEW p \in Path, Resolve(p) PROVE Led
  <2>1. CASE Conflict(p)
    BY <2>1 DEF Conflict, disk
  <2>2. CASE CopyOnPc(p) \/ CopyOnPhone(p) \/ Replace(p)
    BY <2>2, Locations DEF IInv, Justified, Resolving, CopyOnPc, CopyOnPhone, Replace
  <2>. QED
    BY <1>2, <2>1, <2>2 DEF Resolve
<1>3. CASE \/ FlushHint \/ AuditDue \/ Begin \/ PhoneDone \/ LoseDone \/ CrashPc \/ CrashPhone
           \/ DeltaScan \/ DeltaFallback \/ Enumerate \/ ScanPc \/ HashEnd \/ DrainPuts
           \/ Commit \/ Abandon \/ UNCHANGED vars
  BY <1>3 DEF FlushHint, AuditDue, Begin, PhoneDone, LoseDone, CrashPc, CrashPhone, DeltaScan,
    DeltaFallback, Enumerate, ScanPc, HashEnd, DrainPuts, Commit, Abandon, vars, disk
<1>4. CASE (\E S \in SUBSET Was({"hash"}) : HashNext(S)) \/ \E t \in Token : Finish(t)
  BY <1>4 DEF HashNext, Finish, disk
<1>. QED
  BY <1>1, <1>2, <1>3, <1>4 DEF Next, Environment, Lose, Advance, Refuse

(* OneWay: a Share that is synchronised in one direction never writes on   *)
(* the side that leads, whatever was scanned, compared or put off.         *)
THEOREM LeadingSide == Spec => OneWay
<1>1. IInv /\ [Next]_vars => [SpareLeader]_vars
  BY StepIsOneWay DEF SpareLeader
<1>. QED
  BY <1>1, Invariance, PTL DEF Spec, OneWay

-----------------------------------------------------------------------------
(***************************************************************************)
(* Why no round loses an update: where a folder differs from the committed *)
(* base, its version was written by somebody who had that base.  So when   *)
(* one side still has the base, the other side's version supersedes it;    *)
(* when neither has, the version that goes is kept as a conflict copy.     *)
(***************************************************************************)

\* Version v of p, unless it is b itself, was written over b.
Follows(b, v, p) == v \notin {Absent, b} /\ b # Absent => b \in over[p][v]

\* The PC's scan stands for p from ScanPc or DeltaScan on, the phone's from
\* its hash on, until the phone has received the PC's version.
PcKnown(p)    == at[p] # "out" /\ phase # "named"
PhoneKnown(p) == at[p] \notin {"out", "hash", "stored"}

HistoryAt(p) ==
  /\ \A s \in Side : Follows(base[p], file[s][p], p) /\ Follows(cand[p], file[s][p], p)
  /\ at[p] # "out" => cand[p] = base[p]
  /\ PcKnown(p) =>
       Follows(base[p], pcScan[p], p) /\ Follows(pcScan[p], file["pc"][p], p)
  /\ PhoneKnown(p) =>
       Follows(base[p], phoneScan[p], p) /\ Follows(phoneScan[p], file["phone"][p], p)
  /\ at[p] = "stored" => Follows(pcScan[p], file["phone"][p], p)
  /\ at[p] \in {"staged", "put"} => phoneScan[p] \in {Absent, base[p]}
  /\ at[p] \in {"get", "fetched"} => pcScan[p] \in {Absent, base[p]}

History ==
  /\ phase \in {"idle", "delta", "full", "named"} =>
       cand = base /\ phoneScan = Nothing
  /\ \A p \in Path : HistoryAt(p)

\* A copy holds the version it is named for, and a conflict that is about
\* to replace the phone's version has it on both sides.
Copies ==
  /\ \A p \in Path, c \in Content :
       /\ \A s \in Side : file[s][<<p, c>>] \in {Absent, c}
       /\ pcScan[<<p, c>>] \in {Absent, c} /\ phoneScan[<<p, c>>] \in {Absent, c}
  /\ \A p \in Path :
       /\ at[p] \in {"copied", "kept"} => file["pc"][<<p, phoneScan[p]>>] = phoneScan[p]
       /\ at[p] = "kept" => file["phone"][<<p, phoneScan[p]>>] = phoneScan[p]

UInv == History /\ Copies

-----------------------------------------------------------------------------
\* A location whose part of the state did not change keeps its history.
LEMMA Elsewhere ==
  ASSUME NEW p \in Path, HistoryAt(p), UNCHANGED <<base, over>>,
         at'[p] = at[p], cand'[p] = cand[p],
         pcScan'[p] = pcScan[p], phoneScan'[p] = phoneScan[p],
         \A s \in Side : file'[s][p] = file[s][p],
         phase = "named" <=> phase' = "named"
  PROVE  HistoryAt(p)'
BY DEF HistoryAt, Follows, PcKnown, PhoneKnown, Side

\* Copies are only ever added.
LEMMA CopiesGrow ==
  ASSUME IInv, Copies, UNCHANGED <<pcScan, phoneScan>>,
         \A s \in Side, p \in Path, c \in Content :
           file'[s][<<p, c>>] \in {file[s][<<p, c>>], c},
         \A p \in Path : at'[p] \in Resolving =>
           /\ phoneScan[p] \in Content
           /\ at'[p] \in {"copied", "kept"} /\ at[p] \notin {"copied", "kept"} =>
                file'["pc"][<<p, phoneScan[p]>>] = phoneScan[p]
           /\ at'[p] = "kept" /\ at[p] # "kept" =>
                file'["phone"][<<p, phoneScan[p]>>] = phoneScan[p]
  PROVE  Copies'
<1>1. ASSUME NEW p \in Path, NEW c \in Content
      PROVE  /\ \A s \in Side : file'[s][<<p, c>>] \in {Absent, c}
             /\ pcScan'[<<p, c>>] \in {Absent, c} /\ phoneScan'[<<p, c>>] \in {Absent, c}
  BY <1>1 DEF Copies
<1>2. ASSUME NEW p \in Path, at'[p] \in {"copied", "kept"}
      PROVE  /\ file'["pc"][<<p, phoneScan'[p]>>] = phoneScan'[p]
             /\ at'[p] = "kept" => file'["phone"][<<p, phoneScan'[p]>>] = phoneScan'[p]
  <2>1. phoneScan[p] \in Content
    BY <1>2 DEF Resolving
  <2>2. ASSUME NEW s \in Side, file[s][<<p, phoneScan[p]>>] = phoneScan[p]
        PROVE  file'[s][<<p, phoneScan[p]>>] = phoneScan[p]
    BY <2>1, <2>2
  <2>. QED
    BY <1>2, <2>1, <2>2 DEF Copies, Resolving, Side
<1>. QED
  BY <1>1, <1>2 DEF Copies

\* What Write does, where the state is typed.
LEMMA Written ==
  ASSUME TypeOK, NEW s \in Side, NEW l \in Loc, NEW expected, NEW new \in Content,
         Write(s, l, expected, new)
  PROVE  /\ \A t \in Side, q \in Loc :
              file'[t][q] = IF t = s /\ q = l THEN new ELSE file[t][q]
         /\ over' = over
         /\ file[s][l] \in {expected, new}
<1>1. over' = over /\ file[s][l] \in {expected, new}
  BY DEF Write
<1>. QED
  BY <1>1, WriteAdds

\* Nothing is committed, so nothing has to follow a base.
LEMMA Starts == Init => UInv
<1>. SUFFICES ASSUME Init PROVE UInv
  OBVIOUS
<1>. USE Locations DEF Init
<1>1. History
  BY DEF History, HistoryAt, Follows, PcKnown, PhoneKnown, Nothing, Idle, Side
<1>2. Copies
  <2>1. \A s \in Side, l \in Copy : file[s][l] = Absent
    OBVIOUS
  <2>2. \A p \in Path, c \in Content : <<p, c>> \in Copy
    BY DEF Copy
  <2>. QED
    BY <2>1, <2>2 DEF Copies, Nothing, Idle
<1>. QED
  BY <1>1, <1>2 DEF UInv

\* A user writes over what is there: the author's version follows it.
LEMMA EditFollows ==
  ASSUME IInv, UInv, NEW s \in Side, NEW p \in Path, NEW c \in Content, Edit(s, p, c)
  PROVE  UInv'
<1>. USE Locations DEF UInv
<1>1. /\ \A t \in Side, q \in Loc :
           file'[t][q] = IF t = s /\ q = p THEN c ELSE file[t][q]
      /\ UNCHANGED <<base, phase, at, cand, pcScan, phoneScan>>
      /\ \A q \in Path, d \in Content :
           over'[q][d] = IF q = p /\ d = c THEN held[s][p] ELSE over[q][d]
      /\ \A t \in Side : c \notin held[t][p]
  BY DEF IInv, TypeOK, Edit, Changed, round
<1>2. ASSUME NEW q \in Path PROVE HistoryAt(q)'
  <2>1. CASE q # p
    BY <1>1, <2>1 DEF IInv, TypeOK, MaybeContent, History, HistoryAt, Follows, PcKnown, PhoneKnown, Side
  <2>2. CASE q = p
    <3>1. /\ base[p] \in held[s][p] \cup {Absent}
          /\ cand[p] \in held[s][p] \cup {Absent}
          /\ s = "pc" => pcScan[p] \in held[s][p] \cup {Absent}
          /\ s = "phone" => phoneScan[p] \in held[s][p] \cup {Absent}
          /\ s = "phone" /\ at[p] = "stored" => pcScan[p] \in held[s][p] \cup {Absent}
      BY DEF IInv, Remembered, Sound, Side
    <3>2. /\ base[p] # c /\ cand[p] # c /\ pcScan[p] # c /\ phoneScan[p] # c
          /\ \A t \in Side : file[t][p] # c
      BY <1>1, ConstantsAssumption DEF IInv, Remembered, Sound, Side
    <3>3. /\ \A d \in Content \ {c} : over'[p][d] = over[p][d]
          /\ over'[p][c] = held[s][p]
      BY <1>1
    <3>4. /\ file'[s][p] = c
          /\ \A t \in Side \ {s} : file'[t][p] = file[t][p]
      BY <1>1
    <3>5. /\ \A t \in Side : file[t][p] \in Content \cup {Absent}
          /\ {base[p], cand[p], pcScan[p], phoneScan[p]} \subseteq Content \cup {Absent}
      BY DEF IInv, TypeOK, MaybeContent
    <3>. QED
      BY <1>1, <2>2, <3>1, <3>2, <3>3, <3>4, <3>5
      DEF History, HistoryAt, Follows, PcKnown, PhoneKnown, Side
  <2>. QED
    BY <2>1, <2>2
<1>3. Copies'
  <2>1. ASSUME NEW t \in Side, NEW q \in Path, NEW d \in Content
        PROVE  file'[t][<<q, d>>] = file[t][<<q, d>>]
    BY <1>1
  <2>2. \A q \in Path : at[q] \in Resolving => phoneScan[q] \in Content
    BY DEF IInv, TypeOK, Justified, MaybeContent
  <2>. QED
    BY <1>1, <2>1, <2>2 DEF Copies, Resolving, Side
<1>. QED
  BY <1>1, <1>2, <1>3 DEF History

\* A missing file follows every version.
LEMMA RemoveFollows ==
  ASSUME IInv, UInv, NEW s \in Side, NEW p \in Path, Remove(s, p)
  PROVE  UInv'
<1>. USE Locations DEF UInv
<1>1. /\ \A t \in Side, q \in Loc :
           file'[t][q] = IF t = s /\ q = p THEN Absent ELSE file[t][q]
      /\ UNCHANGED <<base, phase, at, cand, pcScan, phoneScan>>
      /\ over' = over
  BY DEF IInv, TypeOK, Remove, Changed, round
<1>2. ASSUME NEW q \in Path PROVE HistoryAt(q)'
  <2>1. CASE q # p
    BY <1>1, <2>1, Elsewhere DEF History
  <2>2. CASE q = p
    BY <1>1, <2>2 DEF History, HistoryAt, Follows, PcKnown, PhoneKnown, Side
  <2>. QED
    BY <2>1, <2>2
<1>3. Copies'
  <2>1. ASSUME NEW t \in Side, NEW q \in Path, NEW d \in Content
        PROVE  file'[t][<<q, d>>] = file[t][<<q, d>>]
    BY <1>1
  <2>2. \A q \in Path : at[q] \in Resolving => phoneScan[q] \in Content
    BY DEF IInv, TypeOK, Justified, MaybeContent
  <2>. QED
    BY <1>1, <2>1, <2>2 DEF Copies, Resolving, Side
<1>. QED
  BY <1>1, <1>2, <1>3 DEF History

\* Hints say nothing of versions.
LEMMA FlushHintFollows ==
  ASSUME IInv, UInv, FlushHint
  PROVE  UInv'
<1>. USE Locations DEF IInv, UInv, FlushHint, vars, disk, trust, tokens, round
<1>1. History'
  BY DecisionSource DEF TypeOK, History, HistoryAt, Follows, PcKnown, PhoneKnown, Idle, Nothing, Side
<1>2. Copies'
  BY DEF TypeOK, Copies, Idle, Nothing, Side
<1>. QED
  BY <1>1, <1>2

\* Nor do the flags of the phone.
LEMMA AuditDueFollows ==
  ASSUME IInv, UInv, AuditDue
  PROVE  UInv'
<1>. USE Locations DEF IInv, UInv, AuditDue, vars, disk, trust, tokens, round
<1>1. History'
  BY DecisionSource DEF TypeOK, History, HistoryAt, Follows, PcKnown, PhoneKnown, Idle, Nothing, Side
<1>2. Copies'
  BY DEF TypeOK, Copies, Idle, Nothing, Side
<1>. QED
  BY <1>1, <1>2

\* A round begins with the candidate equal to the base.
LEMMA BeginFollows ==
  ASSUME IInv, UInv, Begin
  PROVE  UInv'
<1>. USE Locations DEF IInv, UInv, Begin, vars, disk, trust, tokens, round
<1>1. History'
  BY DecisionSource DEF TypeOK, History, HistoryAt, Follows, PcKnown, PhoneKnown, Idle, Nothing, Side
<1>2. Copies'
  BY DEF TypeOK, Copies, Idle, Nothing, Side
<1>. QED
  BY <1>1, <1>2

\* What a delta reads follows the base, and both are read at once.
LEMMA DeltaScanFollows ==
  ASSUME IInv, UInv, DeltaScan
  PROVE  UInv'
<1>. USE Locations DEF IInv, UInv, DeltaScan, DeltaScope, vars, disk, trust, tokens, round
<1>1. History'
  BY DecisionSource DEF TypeOK, History, HistoryAt, Follows, PcKnown, PhoneKnown, Idle, Nothing, Side
<1>2. Copies'
  BY DEF TypeOK, Copies, Idle, Nothing, Side
<1>. QED
  BY <1>1, <1>2

\* Nothing was read.
LEMMA DeltaFallbackFollows ==
  ASSUME IInv, UInv, DeltaFallback
  PROVE  UInv'
<1>. USE Locations DEF IInv, UInv, DeltaFallback, vars, disk, trust, tokens, round
<1>1. History'
  BY DecisionSource DEF TypeOK, History, HistoryAt, Follows, PcKnown, PhoneKnown, Idle, Nothing, Side
<1>2. Copies'
  BY DEF TypeOK, Copies, Idle, Nothing, Side
<1>. QED
  BY <1>1, <1>2

\* Names only: no version of the phone's is known yet.
LEMMA EnumerateFollows ==
  ASSUME IInv, UInv, Enumerate
  PROVE  UInv'
<1>. USE Locations DEF IInv, UInv, Enumerate, vars, disk, trust, tokens, round
<1>1. History'
  BY DecisionSource DEF TypeOK, History, HistoryAt, Follows, PcKnown, PhoneKnown, Idle, Nothing, Side
<1>2. Copies'
  BY DEF TypeOK, Copies, Idle, Nothing, Side
<1>. QED
  BY <1>1, <1>2

\* What the PC has follows the base.
LEMMA ScanPcFollows ==
  ASSUME IInv, UInv, ScanPc
  PROVE  UInv'
<1>. USE Locations DEF UInv
<1>1. /\ UNCHANGED <<file, base, cand, over, phoneScan>>
      /\ phase = "named" /\ phase' = "stream"
      /\ pcScan' = file["pc"]
      /\ phoneScan = Nothing
      /\ \A l \in Loc : /\ at[l] \in {"out", "hash"}
                        /\ at'[l] \in {"out", "hash", "todo"}
                        /\ at'[l] = "hash" => at[l] = "hash"
      /\ cand = base
  BY DEF IInv, Justified, ScanPc, disk, History
<1>2. ASSUME NEW p \in Path PROVE HistoryAt(p)'
  BY <1>1 DEF History, HistoryAt, Follows, PcKnown, PhoneKnown, Nothing, Side
<1>3. Copies'
  BY <1>1 DEF Copies, Side
<1>. QED
  BY <1>1, <1>2, <1>3 DEF History

\* What the phone has when it is hashed follows the base.
LEMMA HashNextFollows ==
  ASSUME IInv, UInv, NEW S \in SUBSET Was({"hash"}), HashNext(S)
  PROVE  UInv'
<1>. USE Locations DEF IInv, UInv, HashNext, Was, vars, disk, trust, tokens, round
<1>1. History'
  BY DecisionSource DEF TypeOK, History, HistoryAt, Follows, PcKnown, PhoneKnown, Idle, Nothing, Side
<1>2. Copies'
  BY DEF TypeOK, Copies, Idle, Nothing, Side
<1>. QED
  BY <1>1, <1>2

\* A deferred location keeps its scans.
LEMMA HashEndFollows ==
  ASSUME IInv, UInv, HashEnd
  PROVE  UInv'
<1>. USE Locations DEF IInv, UInv, HashEnd, vars, disk, trust, tokens, round
<1>1. History'
  BY DecisionSource DEF TypeOK, History, HistoryAt, Follows, PcKnown, PhoneKnown, Idle, Nothing, Side
<1>2. Copies'
  BY DEF TypeOK, Copies, Idle, Nothing, Side
<1>. QED
  BY <1>1, <1>2

\* A deferred location keeps its scans.
LEMMA DeferFollows ==
  ASSUME IInv, UInv, NEW l \in Loc, Defer(l)
  PROVE  UInv'
<1>. USE Locations DEF IInv, UInv
<1>1. /\ at' = [at EXCEPT ![l] = "deferred"]
      /\ UNCHANGED <<file, base, cand, over, phase, pcScan, phoneScan>>
      /\ at[l] = "todo" /\ phase # "named"
  BY DEF Defer, Step, Working, disk
<1>2. \A q \in Loc : at'[q] = IF q = l THEN "deferred" ELSE at[q]
  BY <1>1 DEF TypeOK
<1>. HIDE DEF IInv
<1>3. ASSUME NEW p \in Path PROVE HistoryAt(p)'
  <2>1. CASE p # l
    BY <1>1, <1>2, <2>1, Elsewhere DEF History
  <2>2. CASE p = l
    BY <1>1, <1>2, <2>2 DEF History, HistoryAt, Follows, PcKnown, PhoneKnown, Decision, Reconcile
  <2>. QED
    BY <2>1, <2>2
<1>4. Copies'
  BY <1>1, <1>2 DEF Copies
<1>. QED
  BY <1>1, <1>3, <1>4 DEF History

\* A location that is skipped keeps the base it had.
LEMMA SkipFollows ==
  ASSUME IInv, UInv, NEW l \in Loc, Skip(l)
  PROVE  UInv'
<1>. USE Locations DEF IInv, UInv, Skip, Step, vars, disk, trust, tokens, round
<1>1. History'
  BY DecisionSource DEF TypeOK, History, HistoryAt, Follows, PcKnown, PhoneKnown, Idle, Nothing, Side
<1>2. Copies'
  BY DEF TypeOK, Copies, Idle, Nothing, Side
<1>. QED
  BY <1>1, <1>2

\* A version that both scans found is followed by both folders.
LEMMA AgreeFollows ==
  ASSUME IInv, UInv, NEW l \in Loc, Agree(l)
  PROVE  UInv'
<1>. USE Locations DEF IInv, UInv
<1>1. /\ at' = [at EXCEPT ![l] = "out"] /\ cand' = [cand EXCEPT ![l] = pcScan[l]]
      /\ UNCHANGED <<file, base, over, phase, pcScan, phoneScan>>
      /\ at[l] = "todo" /\ phase \in {"stream", "work"} /\ pcScan[l] = phoneScan[l]
  BY DecisionSource DEF Agree, Step, Working, disk
<1>2. \A q \in Loc : /\ at'[q] = IF q = l THEN "out" ELSE at[q]
                     /\ cand'[q] = IF q = l THEN pcScan[l] ELSE cand[q]
  BY <1>1 DEF TypeOK
<1>. HIDE DEF IInv
<1>3. ASSUME NEW p \in Path PROVE HistoryAt(p)'
  <2>1. CASE p # l
    BY <1>1, <1>2, <2>1, Elsewhere DEF History
  <2>2. CASE p = l
    BY <1>1, <1>2, <2>2 DEF History, HistoryAt, Follows, PcKnown, PhoneKnown, Side
  <2>. QED
    BY <2>1, <2>2
<1>4. Copies'
  BY <1>1, <1>2 DEF Copies
<1>. QED
  BY <1>1, <1>3, <1>4 DEF History

\* Without a conflict the phone still had the base, or nothing.
LEMMA OfferFollows ==
  ASSUME IInv, UInv, NEW l \in Loc, Offer(l)
  PROVE  UInv'
<1>. USE Locations DEF IInv, UInv
<1>1. /\ \E to \in {"staged", "put"} : at' = [at EXCEPT ![l] = to]
      /\ UNCHANGED <<file, base, cand, over, phase, pcScan, phoneScan>>
      /\ at[l] = "todo" /\ phase # "named" /\ Decision(l) = "ToAndroid"
  BY DEF Offer, Step, Working, disk
<1>2. \E to \in {"staged", "put"} :
        \A q \in Loc : at'[q] = IF q = l THEN to ELSE at[q]
  BY <1>1 DEF TypeOK
<1>. HIDE DEF IInv
<1>3. ASSUME NEW p \in Path PROVE HistoryAt(p)'
  <2>1. CASE p # l
    BY <1>1, <1>2, <2>1, Elsewhere DEF History
  <2>2. CASE p = l
    BY <1>1, <1>2, <2>2 DEF History, HistoryAt, Follows, PcKnown, PhoneKnown, Decision, Reconcile
  <2>. QED
    BY <2>1, <2>2
<1>4. Copies'
  BY <1>1, <1>2 DEF Copies
<1>. QED
  BY <1>1, <1>3, <1>4 DEF History

\* Without a conflict the PC still had the base, or nothing.
LEMMA FetchFollows ==
  ASSUME IInv, UInv, NEW l \in Loc, Fetch(l)
  PROVE  UInv'
<1>. USE Locations DEF IInv, UInv
<1>1. /\ at' = [at EXCEPT ![l] = "get"]
      /\ UNCHANGED <<file, base, cand, over, phase, pcScan, phoneScan>>
      /\ at[l] = "todo" /\ phase # "named" /\ Decision(l) = "ToPc"
  BY DEF Fetch, Step, Working, disk
<1>2. \A q \in Loc : at'[q] = IF q = l THEN "get" ELSE at[q]
  BY <1>1 DEF TypeOK
<1>. HIDE DEF IInv
<1>3. ASSUME NEW p \in Path PROVE HistoryAt(p)'
  <2>1. CASE p # l
    BY <1>1, <1>2, <2>1, Elsewhere DEF History
  <2>2. CASE p = l
    BY <1>1, <1>2, <2>2 DEF History, HistoryAt, Follows, PcKnown, PhoneKnown, Decision, Reconcile
  <2>. QED
    BY <2>1, <2>2
<1>4. Copies'
  BY <1>1, <1>2 DEF Copies
<1>. QED
  BY <1>1, <1>3, <1>4 DEF History

\* Nothing is written.
LEMMA BlobFollows ==
  ASSUME IInv, UInv, NEW l \in Loc, Blob(l)
  PROVE  UInv'
<1>. USE Locations DEF IInv, UInv, Blob, Step, vars, disk, trust, tokens, round
<1>1. History'
  BY DecisionSource DEF TypeOK, History, HistoryAt, Follows, PcKnown, PhoneKnown, Idle, Nothing, Side
<1>2. Copies'
  BY DEF TypeOK, Copies, Idle, Nothing, Side
<1>. QED
  BY <1>1, <1>2

\* The phone's version follows the base that the PC had.
LEMMA InstallGetFollows ==
  ASSUME IInv, UInv, NEW l \in Loc, InstallGet(l)
  PROVE  UInv'
<1>. USE Locations DEF UInv
<1>1. /\ phoneScan[l] \in Content /\ l \in Loc /\ l \in Loc /\ at[l] = "fetched"
      /\ phase \notin {"idle", "delta", "full", "named"}
  BY DEF IInv, InstallGet, WriteOnPc, Step, TypeOK, Justified, Sending, Receiving, Resolving, MaybeContent
<1>2. Write("pc", l, pcScan[l], phoneScan[l])
  BY DEF InstallGet, WriteOnPc, Step
<1>3. /\ \A t \in Side, q \in Loc :
           file'[t][q] = IF t = "pc" /\ q = l THEN phoneScan[l] ELSE file[t][q]
      /\ file["pc"][l] \in {pcScan[l], phoneScan[l]}
      /\ UNCHANGED <<over, base, phase, pcScan, phoneScan>>
  BY <1>1, <1>2, Written DEF IInv, Side, InstallGet, WriteOnPc, Step
<1>4. /\ \A q \in Loc : at'[q] = IF q = l THEN "out" ELSE at[q]
      /\ \A q \in Path : cand'[q] = IF q = l THEN phoneScan[l] ELSE cand[q]
  BY <1>1 DEF IInv, TypeOK, Step, InstallGet, WriteOnPc, Step
<1>5. ASSUME NEW q \in Path PROVE HistoryAt(q)'
  <2>1. CASE q # l
    BY <1>1, <1>3, <1>4, <2>1, Elsewhere DEF History
  <2>2. CASE q = l
    BY <1>1, <1>3, <1>4, <2>2 DEF History, HistoryAt, Follows, PcKnown, PhoneKnown, Side
  <2>. QED
    BY <2>1, <2>2
<1>6. Copies'
  <2>1. ASSUME NEW t \in Side, NEW q \in Path, NEW c \in Content
        PROVE  file'[t][<<q, c>>] \in {file[t][<<q, c>>], c}
    <3>1. <<q, c>> = l => phoneScan[l] = c
      <4>1. phoneScan[l] \in {pcScan[l], phoneScan[l]} /\ phoneScan[l] # Absent
        BY <1>1, ConstantsAssumption
      <4>2. pcScan[<<q, c>>] \in {Absent, c} /\ phoneScan[<<q, c>>] \in {Absent, c}
        BY DEF Copies
      <4>. QED
        BY <4>1, <4>2
    <3>. QED
      BY <1>3, <3>1
  <2>2. ASSUME NEW q \in Path, at'[q] \in Resolving
        PROVE  /\ phoneScan[q] \in Content
               /\ at'[q] \in {"copied", "kept"} /\ at[q] \notin {"copied", "kept"} =>
                    file'["pc"][<<q, phoneScan[q]>>] = phoneScan[q]
               /\ at'[q] = "kept" /\ at[q] # "kept" =>
                    file'["phone"][<<q, phoneScan[q]>>] = phoneScan[q]
    BY <1>1, <1>3, <1>4, <2>2 DEF IInv, TypeOK, Justified, Resolving, MaybeContent, Side
  <2>. QED
    BY <1>3, <2>1, <2>2, CopiesGrow
<1>. QED
  BY <1>1, <1>3, <1>5, <1>6 DEF History

\* The PC's version follows the base that the phone had.
LEMMA InstallPutFollows ==
  ASSUME IInv, UInv, NEW l \in Loc, InstallPut(l)
  PROVE  UInv'
<1>. USE Locations DEF UInv
<1>1. /\ pcScan[l] \in Content /\ l \in Loc /\ l \in Loc /\ at[l] = "put"
      /\ phase \notin {"idle", "delta", "full", "named"}
  BY DEF IInv, InstallPut, WriteOnPhone, Step, TypeOK, Justified, Sending, Receiving, Resolving, MaybeContent
<1>2. Write("phone", l, phoneScan[l], pcScan[l])
  BY DEF InstallPut, WriteOnPhone, Step
<1>3. /\ \A t \in Side, q \in Loc :
           file'[t][q] = IF t = "phone" /\ q = l THEN pcScan[l] ELSE file[t][q]
      /\ file["phone"][l] \in {phoneScan[l], pcScan[l]}
      /\ UNCHANGED <<over, base, phase, pcScan, phoneScan>>
  BY <1>1, <1>2, Written DEF IInv, Side, InstallPut, WriteOnPhone, Step
<1>4. /\ \A q \in Loc : at'[q] = IF q = l THEN "stored" ELSE at[q]
      /\ \A q \in Path : cand'[q] = cand[q]
  BY <1>1 DEF IInv, TypeOK, Step, InstallPut, WriteOnPhone, Step
<1>5. ASSUME NEW q \in Path PROVE HistoryAt(q)'
  <2>1. CASE q # l
    BY <1>1, <1>3, <1>4, <2>1, Elsewhere DEF History
  <2>2. CASE q = l
    BY <1>1, <1>3, <1>4, <2>2 DEF History, HistoryAt, Follows, PcKnown, PhoneKnown, Side
  <2>. QED
    BY <2>1, <2>2
<1>6. Copies'
  <2>1. ASSUME NEW t \in Side, NEW q \in Path, NEW c \in Content
        PROVE  file'[t][<<q, c>>] \in {file[t][<<q, c>>], c}
    <3>1. <<q, c>> = l => pcScan[l] = c
      <4>1. pcScan[l] \in {pcScan[l], phoneScan[l]} /\ pcScan[l] # Absent
        BY <1>1, ConstantsAssumption
      <4>2. pcScan[<<q, c>>] \in {Absent, c} /\ phoneScan[<<q, c>>] \in {Absent, c}
        BY DEF Copies
      <4>. QED
        BY <4>1, <4>2
    <3>. QED
      BY <1>3, <3>1
  <2>2. ASSUME NEW q \in Path, at'[q] \in Resolving
        PROVE  /\ phoneScan[q] \in Content
               /\ at'[q] \in {"copied", "kept"} /\ at[q] \notin {"copied", "kept"} =>
                    file'["pc"][<<q, phoneScan[q]>>] = phoneScan[q]
               /\ at'[q] = "kept" /\ at[q] # "kept" =>
                    file'["phone"][<<q, phoneScan[q]>>] = phoneScan[q]
    BY <1>1, <1>3, <1>4, <2>2 DEF IInv, TypeOK, Justified, Resolving, MaybeContent, Side
  <2>. QED
    BY <1>3, <2>1, <2>2, CopiesGrow
<1>. QED
  BY <1>1, <1>3, <1>5, <1>6 DEF History

\* The same for a file that was staged during the stream.
LEMMA InstallStagedFollows ==
  ASSUME IInv, UInv, NEW l \in Loc, InstallStaged(l)
  PROVE  UInv'
<1>. USE Locations DEF UInv
<1>1. /\ pcScan[l] \in Content /\ l \in Loc /\ l \in Loc /\ at[l] = "staged"
      /\ phase \notin {"idle", "delta", "full", "named"}
  BY DEF IInv, InstallStaged, WriteOnPhone, Step, TypeOK, Justified, Sending, Receiving, Resolving, MaybeContent
<1>2. Write("phone", l, phoneScan[l], pcScan[l])
  BY DEF InstallStaged, WriteOnPhone, Step
<1>3. /\ \A t \in Side, q \in Loc :
           file'[t][q] = IF t = "phone" /\ q = l THEN pcScan[l] ELSE file[t][q]
      /\ file["phone"][l] \in {phoneScan[l], pcScan[l]}
      /\ UNCHANGED <<over, base, phase, pcScan, phoneScan>>
  BY <1>1, <1>2, Written DEF IInv, Side, InstallStaged, WriteOnPhone, Step
<1>4. /\ \A q \in Loc : at'[q] = IF q = l THEN "out" ELSE at[q]
      /\ \A q \in Path : cand'[q] = IF q = l THEN pcScan[l] ELSE cand[q]
  BY <1>1 DEF IInv, TypeOK, Step, InstallStaged, WriteOnPhone, Step
<1>5. ASSUME NEW q \in Path PROVE HistoryAt(q)'
  <2>1. CASE q # l
    BY <1>1, <1>3, <1>4, <2>1, Elsewhere DEF History
  <2>2. CASE q = l
    BY <1>1, <1>3, <1>4, <2>2 DEF History, HistoryAt, Follows, PcKnown, PhoneKnown, Side
  <2>. QED
    BY <2>1, <2>2
<1>6. Copies'
  <2>1. ASSUME NEW t \in Side, NEW q \in Path, NEW c \in Content
        PROVE  file'[t][<<q, c>>] \in {file[t][<<q, c>>], c}
    <3>1. <<q, c>> = l => pcScan[l] = c
      <4>1. pcScan[l] \in {pcScan[l], phoneScan[l]} /\ pcScan[l] # Absent
        BY <1>1, ConstantsAssumption
      <4>2. pcScan[<<q, c>>] \in {Absent, c} /\ phoneScan[<<q, c>>] \in {Absent, c}
        BY DEF Copies
      <4>. QED
        BY <4>1, <4>2
    <3>. QED
      BY <1>3, <3>1
  <2>2. ASSUME NEW q \in Path, at'[q] \in Resolving
        PROVE  /\ phoneScan[q] \in Content
               /\ at'[q] \in {"copied", "kept"} /\ at[q] \notin {"copied", "kept"} =>
                    file'["pc"][<<q, phoneScan[q]>>] = phoneScan[q]
               /\ at'[q] = "kept" /\ at[q] # "kept" =>
                    file'["phone"][<<q, phoneScan[q]>>] = phoneScan[q]
    BY <1>1, <1>3, <1>4, <2>2 DEF IInv, TypeOK, Justified, Resolving, MaybeContent, Side
  <2>. QED
    BY <1>3, <2>1, <2>2, CopiesGrow
<1>. QED
  BY <1>1, <1>3, <1>5, <1>6 DEF History

\* What the phone stored has been followed since.
LEMMA DrainPutsFollows ==
  ASSUME IInv, UInv, DrainPuts
  PROVE  UInv'
<1>. USE Locations DEF IInv, UInv
<1>1. /\ UNCHANGED <<file, base, over, phase, pcScan, phoneScan>>
      /\ \A q \in Loc : /\ at'[q] = IF at[q] = "stored" THEN "out" ELSE at[q]
                        /\ cand'[q] = IF at[q] = "stored" THEN pcScan[q] ELSE cand[q]
  BY DEF DrainPuts, disk
<1>2. phase \notin {"idle", "delta", "full", "named"}
  <2>1. PICK q \in Loc : at[q] = "stored"
    BY DEF DrainPuts, Was
  <2>. QED
    BY <2>1 DEF Justified
<1>. HIDE DEF IInv
<1>3. ASSUME NEW p \in Path PROVE HistoryAt(p)'
  <2>1. CASE at[p] # "stored"
    BY <1>1, <2>1, Elsewhere DEF History
  <2>2. CASE at[p] = "stored"
    BY <1>1, <1>2, <2>2 DEF History, HistoryAt, Follows, PcKnown, PhoneKnown, Side
  <2>. QED
    BY <2>1, <2>2
<1>4. Copies'
  BY <1>1 DEF Copies
<1>. QED
  BY <1>1, <1>2, <1>3, <1>4 DEF History

\* Both versions are read, neither is replaced.
LEMMA ConflictFollows ==
  ASSUME IInv, UInv, NEW p \in Path, Conflict(p)
  PROVE  UInv'
<1>. USE Locations DEF IInv, UInv
<1>1. /\ at' = [at EXCEPT ![p] = "snapshot"]
      /\ UNCHANGED <<file, base, cand, over, phase, pcScan, phoneScan>>
      /\ at[p] = "todo"
  BY DEF Conflict, Step, Working, disk
<1>2. \A q \in Loc : at'[q] = IF q = p THEN "snapshot" ELSE at[q]
  BY <1>1 DEF TypeOK
<1>. HIDE DEF IInv
<1>3. ASSUME NEW q \in Path PROVE HistoryAt(q)'
  <2>1. CASE q # p
    BY <1>1, <1>2, <2>1, Elsewhere DEF History
  <2>2. CASE q = p
    BY <1>1, <1>2, <2>2 DEF History, HistoryAt, Follows, PcKnown, PhoneKnown, Decision, Reconcile
  <2>. QED
    BY <2>1, <2>2
<1>4. Copies'
  BY <1>1, <1>2 DEF Copies
<1>. QED
  BY <1>1, <1>3, <1>4 DEF History

\* A copy is a new file: no path changes its version.
LEMMA CopyOnPcFollows ==
  ASSUME IInv, UInv, NEW p \in Path, CopyOnPc(p)
  PROVE  UInv'
<1>. USE Locations DEF UInv
<1>1. /\ phoneScan[p] \in Content /\ <<p, phoneScan[p]>> \in Loc /\ p \in Loc /\ at[p] = "snapshot"
      /\ phase \notin {"idle", "delta", "full", "named"}
  BY DEF IInv, CopyOnPc, WriteOnPc, Step, TypeOK, Justified, Sending, Receiving, Resolving, MaybeContent
<1>2. Write("pc", <<p, phoneScan[p]>>, Absent, phoneScan[p])
  BY DEF CopyOnPc, WriteOnPc, Step
<1>3. /\ \A t \in Side, q \in Loc :
           file'[t][q] = IF t = "pc" /\ q = <<p, phoneScan[p]>> THEN phoneScan[p] ELSE file[t][q]
      /\ file["pc"][<<p, phoneScan[p]>>] \in {Absent, phoneScan[p]}
      /\ UNCHANGED <<over, base, phase, pcScan, phoneScan>>
  BY <1>1, <1>2, Written DEF IInv, Side, CopyOnPc, WriteOnPc, Step
<1>4. /\ \A q \in Loc : at'[q] = IF q = p THEN "copied" ELSE at[q]
      /\ \A q \in Path : cand'[q] = cand[q]
  BY <1>1 DEF IInv, TypeOK, Step, CopyOnPc, WriteOnPc, Step
<1>5. ASSUME NEW q \in Path PROVE HistoryAt(q)'
  <2>1. CASE q # p
    BY <1>1, <1>3, <1>4, <2>1, Elsewhere DEF History
  <2>2. CASE q = p
    BY <1>1, <1>3, <1>4, <2>2 DEF History, HistoryAt, Follows, PcKnown, PhoneKnown, Side
  <2>. QED
    BY <2>1, <2>2
<1>6. Copies'
  <2>1. ASSUME NEW t \in Side, NEW q \in Path, NEW c \in Content
        PROVE  file'[t][<<q, c>>] \in {file[t][<<q, c>>], c}
    BY <1>1, <1>3 DEF Copies
  <2>2. ASSUME NEW q \in Path, at'[q] \in Resolving
        PROVE  /\ phoneScan[q] \in Content
               /\ at'[q] \in {"copied", "kept"} /\ at[q] \notin {"copied", "kept"} =>
                    file'["pc"][<<q, phoneScan[q]>>] = phoneScan[q]
               /\ at'[q] = "kept" /\ at[q] # "kept" =>
                    file'["phone"][<<q, phoneScan[q]>>] = phoneScan[q]
    BY <1>1, <1>3, <1>4, <2>2 DEF IInv, TypeOK, Justified, Resolving, MaybeContent, Side
  <2>. QED
    BY <1>3, <2>1, <2>2, CopiesGrow
<1>. QED
  BY <1>1, <1>3, <1>5, <1>6 DEF History

\* The same on the phone.
LEMMA CopyOnPhoneFollows ==
  ASSUME IInv, UInv, NEW p \in Path, CopyOnPhone(p)
  PROVE  UInv'
<1>. USE Locations DEF UInv
<1>1. /\ phoneScan[p] \in Content /\ <<p, phoneScan[p]>> \in Loc /\ p \in Loc /\ at[p] = "copied"
      /\ phase \notin {"idle", "delta", "full", "named"}
  BY DEF IInv, CopyOnPhone, WriteOnPhone, Step, TypeOK, Justified, Sending, Receiving, Resolving, MaybeContent
<1>2. Write("phone", <<p, phoneScan[p]>>, Absent, phoneScan[p])
  BY DEF CopyOnPhone, WriteOnPhone, Step
<1>3. /\ \A t \in Side, q \in Loc :
           file'[t][q] = IF t = "phone" /\ q = <<p, phoneScan[p]>> THEN phoneScan[p] ELSE file[t][q]
      /\ file["phone"][<<p, phoneScan[p]>>] \in {Absent, phoneScan[p]}
      /\ UNCHANGED <<over, base, phase, pcScan, phoneScan>>
  BY <1>1, <1>2, Written DEF IInv, Side, CopyOnPhone, WriteOnPhone, Step
<1>4. /\ \A q \in Loc : at'[q] = IF q = p THEN "kept" ELSE at[q]
      /\ \A q \in Path : cand'[q] = cand[q]
  BY <1>1 DEF IInv, TypeOK, Step, CopyOnPhone, WriteOnPhone, Step
<1>5. ASSUME NEW q \in Path PROVE HistoryAt(q)'
  <2>1. CASE q # p
    BY <1>1, <1>3, <1>4, <2>1, Elsewhere DEF History
  <2>2. CASE q = p
    BY <1>1, <1>3, <1>4, <2>2 DEF History, HistoryAt, Follows, PcKnown, PhoneKnown, Side
  <2>. QED
    BY <2>1, <2>2
<1>6. Copies'
  <2>1. ASSUME NEW t \in Side, NEW q \in Path, NEW c \in Content
        PROVE  file'[t][<<q, c>>] \in {file[t][<<q, c>>], c}
    BY <1>1, <1>3 DEF Copies
  <2>2. ASSUME NEW q \in Path, at'[q] \in Resolving
        PROVE  /\ phoneScan[q] \in Content
               /\ at'[q] \in {"copied", "kept"} /\ at[q] \notin {"copied", "kept"} =>
                    file'["pc"][<<q, phoneScan[q]>>] = phoneScan[q]
               /\ at'[q] = "kept" /\ at[q] # "kept" =>
                    file'["phone"][<<q, phoneScan[q]>>] = phoneScan[q]
    BY <1>1, <1>3, <1>4, <2>2 DEF IInv, TypeOK, Justified, Resolving, MaybeContent, Side
  <2>. QED
    BY <1>3, <2>1, <2>2, CopiesGrow
<1>. QED
  BY <1>1, <1>3, <1>5, <1>6 DEF History

\* The phone's path takes the PC's version, which becomes its base.
LEMMA ReplaceFollows ==
  ASSUME IInv, UInv, NEW p \in Path, Replace(p)
  PROVE  UInv'
<1>. USE Locations DEF UInv
<1>1. /\ pcScan[p] \in Content /\ p \in Loc /\ p \in Loc /\ at[p] = "kept"
      /\ phase \notin {"idle", "delta", "full", "named"}
  BY DEF IInv, Replace, WriteOnPhone, Step, TypeOK, Justified, Sending, Receiving, Resolving, MaybeContent
<1>2. Write("phone", p, phoneScan[p], pcScan[p])
  BY DEF Replace, WriteOnPhone, Step
<1>3. /\ \A t \in Side, q \in Loc :
           file'[t][q] = IF t = "phone" /\ q = p THEN pcScan[p] ELSE file[t][q]
      /\ file["phone"][p] \in {phoneScan[p], pcScan[p]}
      /\ UNCHANGED <<over, base, phase, pcScan, phoneScan>>
  BY <1>1, <1>2, Written DEF IInv, Side, Replace, WriteOnPhone, Step
<1>. DEFINE preserved == <<p, phoneScan[p]>>
<1>c. /\ cand' = [cand EXCEPT ![p] = pcScan[p], ![preserved] = phoneScan[p]]
      /\ cand \in [Loc -> MaybeContent]
  BY DEF IInv, TypeOK, Replace
<1>d. preserved \notin Path
  <2>1. phoneScan[p] \in Content
    BY DEF IInv, Replace, TypeOK, Justified, Resolving, MaybeContent
  <2>. QED
    BY <2>1
<1>. HIDE DEF preserved
<1>e. \A q \in Path : cand'[q] = IF q = p THEN pcScan[p] ELSE cand[q]
  BY <1>c, <1>d
<1>4. /\ \A q \in Loc : at'[q] = IF q = p THEN "out" ELSE at[q]
      /\ \A q \in Path : cand'[q] = IF q = p THEN pcScan[p] ELSE cand[q]
  BY <1>1, <1>e DEF IInv, TypeOK, Step, Replace, WriteOnPhone, Step
<1>5. ASSUME NEW q \in Path PROVE HistoryAt(q)'
  <2>1. CASE q # p
    BY <1>1, <1>3, <1>4, <2>1, Elsewhere DEF History
  <2>2. CASE q = p
    BY <1>1, <1>3, <1>4, <2>2 DEF History, HistoryAt, Follows, PcKnown, PhoneKnown, Side
  <2>. QED
    BY <2>1, <2>2
<1>6. Copies'
  <2>1. ASSUME NEW t \in Side, NEW q \in Path, NEW c \in Content
        PROVE  file'[t][<<q, c>>] \in {file[t][<<q, c>>], c}
    BY <1>1, <1>3 DEF Copies
  <2>2. ASSUME NEW q \in Path, at'[q] \in Resolving
        PROVE  /\ phoneScan[q] \in Content
               /\ at'[q] \in {"copied", "kept"} /\ at[q] \notin {"copied", "kept"} =>
                    file'["pc"][<<q, phoneScan[q]>>] = phoneScan[q]
               /\ at'[q] = "kept" /\ at[q] # "kept" =>
                    file'["phone"][<<q, phoneScan[q]>>] = phoneScan[q]
    BY <1>1, <1>3, <1>4, <2>2 DEF IInv, TypeOK, Justified, Resolving, MaybeContent, Side
  <2>. QED
    BY <1>3, <2>1, <2>2, CopiesGrow
<1>. QED
  BY <1>1, <1>3, <1>5, <1>6 DEF History

\* The scans are not needed any more.
LEMMA FinishFollows ==
  ASSUME IInv, UInv, NEW t \in Token, Finish(t)
  PROVE  UInv'
<1>. USE Locations DEF UInv
<1>1. /\ UNCHANGED <<file, base, cand, over, at>>
      /\ phase' = "sent" /\ pcScan' = Nothing /\ phoneScan' = Nothing
      /\ \A l \in Loc : at[l] \notin Sending \cup Receiving \cup Resolving
  BY DEF Finish, disk, Drained, Puts, Gets, Copying, Was, Sending, Receiving, Resolving
<1>2. ASSUME NEW p \in Path PROVE HistoryAt(p)'
  BY <1>1 DEF History, HistoryAt, Follows, PcKnown, PhoneKnown, Nothing, Sending, Receiving
<1>3. Copies'
  BY <1>1 DEF Copies, Nothing, Resolving
<1>. QED
  BY <1>1, <1>2, <1>3 DEF History

\* The folders follow the candidate, so they follow the new base.
LEMMA CommitFollows ==
  ASSUME IInv, UInv, Commit
  PROVE  UInv'
<1>. USE Locations DEF IInv, UInv, Commit, EndRound, vars, disk, trust, tokens, round
<1>1. History'
  BY DecisionSource DEF TypeOK, History, HistoryAt, Follows, PcKnown, PhoneKnown, Idle, Nothing, Side
<1>2. Copies'
  BY DEF TypeOK, Copies, Idle, Nothing, Side
<1>. QED
  BY <1>1, <1>2

\* Only a token changes hands.
LEMMA PhoneDoneFollows ==
  ASSUME IInv, UInv, PhoneDone
  PROVE  UInv'
<1>. USE Locations DEF IInv, UInv, PhoneDone, vars, disk, trust, tokens, round
<1>1. History'
  BY DecisionSource DEF TypeOK, History, HistoryAt, Follows, PcKnown, PhoneKnown, Idle, Nothing, Side
<1>2. Copies'
  BY DEF TypeOK, Copies, Idle, Nothing, Side
<1>. QED
  BY <1>1, <1>2

\* Only a token is lost.
LEMMA LoseDoneFollows ==
  ASSUME IInv, UInv, LoseDone
  PROVE  UInv'
<1>. USE Locations DEF IInv, UInv, LoseDone, vars, disk, trust, tokens, round
<1>1. History'
  BY DecisionSource DEF TypeOK, History, HistoryAt, Follows, PcKnown, PhoneKnown, Idle, Nothing, Side
<1>2. Copies'
  BY DEF TypeOK, Copies, Idle, Nothing, Side
<1>. QED
  BY <1>1, <1>2

\* The folders follow the old base also where the round has written.
LEMMA AbandonFollows ==
  ASSUME IInv, UInv, Abandon
  PROVE  UInv'
<1>. USE Locations DEF IInv, UInv, Abandon, EndRound, vars, disk, trust, tokens, round
<1>1. History'
  BY DecisionSource DEF TypeOK, History, HistoryAt, Follows, PcKnown, PhoneKnown, Idle, Nothing, Side
<1>2. Copies'
  BY DEF TypeOK, Copies, Idle, Nothing, Side
<1>. QED
  BY <1>1, <1>2

\* As for a round that is given up.
LEMMA CrashPcFollows ==
  ASSUME IInv, UInv, CrashPc
  PROVE  UInv'
<1>. USE Locations DEF IInv, UInv, CrashPc, EndRound, vars, disk, trust, tokens, round
<1>1. History'
  BY DecisionSource DEF TypeOK, History, HistoryAt, Follows, PcKnown, PhoneKnown, Idle, Nothing, Side
<1>2. Copies'
  BY DEF TypeOK, Copies, Idle, Nothing, Side
<1>. QED
  BY <1>1, <1>2

\* As for a round that is given up.
LEMMA CrashPhoneFollows ==
  ASSUME IInv, UInv, CrashPhone
  PROVE  UInv'
<1>. USE Locations DEF IInv, UInv, CrashPhone, EndRound, vars, disk, trust, tokens, round
<1>1. History'
  BY DecisionSource DEF TypeOK, History, HistoryAt, Follows, PcKnown, PhoneKnown, Idle, Nothing, Side
<1>2. Copies'
  BY DEF TypeOK, Copies, Idle, Nothing, Side
<1>. QED
  BY <1>1, <1>2

-----------------------------------------------------------------------------
\* Relative to IInv the history is inductive.
LEMMA UpdatesInductive == IInv /\ UInv /\ [Next]_vars => UInv'
<1>. SUFFICES ASSUME IInv, UInv, [Next]_vars PROVE UInv'
  OBVIOUS
<1>1. CASE Environment
  BY <1>1, EditFollows, RemoveFollows, AbandonFollows, CrashPcFollows, CrashPhoneFollows,
     LoseDoneFollows
  DEF Environment, Users, Lose
<1>2. CASE FlushHint \/ AuditDue \/ Begin \/ PhoneDone
  BY <1>2, FlushHintFollows, AuditDueFollows, BeginFollows, PhoneDoneFollows
<1>3. CASE Advance
  <2>1. CASE \E l \in Loc : Process(l)
    BY <2>1, DeferFollows, SkipFollows, AgreeFollows, OfferFollows, FetchFollows, BlobFollows,
       InstallGetFollows, InstallPutFollows, InstallStagedFollows DEF Process
  <2>2. CASE \E p \in Path : Resolve(p)
    BY <2>2, ConflictFollows, CopyOnPcFollows, CopyOnPhoneFollows, ReplaceFollows DEF Resolve
  <2>3. CASE \/ DeltaScan \/ DeltaFallback \/ Enumerate \/ ScanPc \/ HashEnd \/ DrainPuts
             \/ Commit \/ Refuse
    BY <2>3, DeltaScanFollows, DeltaFallbackFollows, EnumerateFollows, ScanPcFollows,
       HashEndFollows, DrainPutsFollows, CommitFollows, AbandonFollows DEF Refuse
  <2>4. CASE \/ \E S \in SUBSET Was({"hash"}) : HashNext(S)
             \/ \E t \in Token : Finish(t)
    BY <2>4, HashNextFollows, FinishFollows
  <2>. QED
    BY <1>3, <2>1, <2>2, <2>3, <2>4 DEF Advance
<1>4. CASE UNCHANGED vars
  <2>. USE <1>4 DEF UInv, vars, disk, round
  <2>1. History'
    BY DEF History, HistoryAt, Follows, PcKnown, PhoneKnown, Side
  <2>2. Copies'
    BY DEF Copies
  <2>. QED
    BY <2>1, <2>2
<1>. QED
  BY <1>1, <1>2, <1>3, <1>4 DEF Next

(* In every reachable state of a Share each folder holds versions that     *)
(* follow the committed base, and conflict copies are what they are named. *)
THEOREM UpdateInvariance == Spec => [](IInv /\ UInv)
<1>1. Init => IInv /\ UInv
  BY Initially, Starts
<1>2. (IInv /\ UInv) /\ [Next]_vars => (IInv /\ UInv)'
  BY Inductive, UpdatesInductive
<1>. QED
  BY <1>1, <1>2, PTL DEF Spec

\* What the installations of a round replace.
LEMMA Superseded ==
  ASSUME IInv, UInv, NEW l \in Loc, Process(l), NEW s \in Side, NEW p \in Path,
         file[s][p] \notin {Absent, file'[s][p]}
  PROVE  file[s][p] \in over[p][file'[s][p]]
<1>. USE Locations
<1>1. CASE InstallGet(l)
  <2>1. /\ phoneScan[l] \in Content /\ at[l] = "fetched" /\ phase # "named"
        /\ Write("pc", l, pcScan[l], phoneScan[l])
    BY <1>1 DEF IInv, TypeOK, Justified, Receiving, MaybeContent, InstallGet, WriteOnPc
  <2>2. /\ \A t \in Side, q \in Loc :
             file'[t][q] = IF t = "pc" /\ q = l THEN phoneScan[l] ELSE file[t][q]
        /\ file["pc"][l] \in {pcScan[l], phoneScan[l]}
    BY <2>1, Written DEF IInv, Side
  <2>3. s = "pc" /\ p = l /\ file[s][p] = pcScan[p] /\ file'[s][p] = phoneScan[p]
    BY <2>2
  <2>. QED
    BY <2>1, <2>3, ConstantsAssumption DEF UInv, History, HistoryAt, Follows, PhoneKnown
<1>2. CASE InstallPut(l) \/ InstallStaged(l)
  <2>1. /\ pcScan[l] \in Content /\ at[l] \in {"put", "staged"} /\ phase # "named"
        /\ Write("phone", l, phoneScan[l], pcScan[l])
    BY <1>2 DEF IInv, TypeOK, Justified, Sending, MaybeContent, InstallPut, InstallStaged,
                WriteOnPhone
  <2>2. /\ \A t \in Side, q \in Loc :
             file'[t][q] = IF t = "phone" /\ q = l THEN pcScan[l] ELSE file[t][q]
        /\ file["phone"][l] \in {phoneScan[l], pcScan[l]}
    BY <2>1, Written DEF IInv, Side
  <2>3. s = "phone" /\ p = l /\ file[s][p] = phoneScan[p] /\ file'[s][p] = pcScan[p]
    BY <2>2
  <2>. QED
    BY <2>1, <2>3, ConstantsAssumption DEF UInv, History, HistoryAt, Follows, PcKnown
<1>3. CASE UNCHANGED file
  BY <1>3
<1>. QED
  BY <1>1, <1>2, <1>3 DEF Process, Defer, Skip, Agree, Offer, Fetch, Blob, disk

\* A conflict replaces only what it has preserved on both sides.
LEMMA ConflictPreserves ==
  ASSUME IInv, UInv, NEW q \in Path, Resolve(q), NEW s \in Side, NEW p \in Path,
         file[s][p] \notin {Absent, file'[s][p]}
  PROVE  Preserved(p, file[s][p])
<1>. USE Locations
<1>1. CASE Replace(q)
  <2>1. /\ pcScan[q] \in Content /\ at[q] = "kept" /\ q \in Loc
        /\ Write("phone", q, phoneScan[q], pcScan[q])
    BY <1>1 DEF IInv, TypeOK, Justified, Resolving, MaybeContent, Replace, WriteOnPhone
  <2>2. /\ \A t \in Side, l \in Loc :
             file'[t][l] = IF t = "phone" /\ l = q THEN pcScan[q] ELSE file[t][l]
        /\ file["phone"][q] \in {phoneScan[q], pcScan[q]}
    BY <2>1, Written DEF IInv, Side
  <2>3. s = "phone" /\ p = q /\ file[s][p] = phoneScan[p]
    BY <2>2
  <2>. QED
    BY <2>1, <2>3 DEF UInv, Copies, Preserved, Side
<1>2. CASE CopyOnPc(q) \/ CopyOnPhone(q)
  <2>1. phoneScan[q] \in Content
    BY <1>2 DEF IInv, TypeOK, Justified, Resolving, MaybeContent, CopyOnPc, CopyOnPhone
  <2>2. PICK t \in Side : Write(t, <<q, phoneScan[q]>>, Absent, phoneScan[q])
    BY <1>2 DEF CopyOnPc, CopyOnPhone, WriteOnPc, WriteOnPhone, Side
  <2>3. file'[s][p] = file[s][p]
    BY <2>1, <2>2, Written DEF IInv
  <2>. QED
    BY <2>3
<1>3. CASE Conflict(q)
  BY <1>3 DEF Conflict, disk
<1>. QED
  BY <1>1, <1>2, <1>3 DEF Resolve

\* Every step that writes a file supersedes or preserves a version.
LEMMA StepLosesNothing ==
  ASSUME IInv, UInv, [Next]_vars, ~Users, NEW s \in Side, NEW p \in Path,
         file[s][p] \notin {Absent, file'[s][p]}
  PROVE  file[s][p] \in over[p][file'[s][p]] \/ Preserved(p, file[s][p])
<1>1. CASE \E l \in Loc : Process(l)
  BY <1>1, Superseded
<1>2. CASE \E q \in Path : Resolve(q)
  BY <1>2, ConflictPreserves
<1>3. CASE \/ FlushHint \/ AuditDue \/ Begin \/ PhoneDone \/ LoseDone \/ CrashPc \/ CrashPhone
           \/ DeltaScan \/ DeltaFallback \/ Enumerate \/ ScanPc \/ HashEnd \/ DrainPuts
           \/ Commit \/ Abandon \/ UNCHANGED vars
  BY <1>3 DEF FlushHint, AuditDue, Begin, PhoneDone, LoseDone, CrashPc, CrashPhone, DeltaScan,
    DeltaFallback, Enumerate, ScanPc, HashEnd, DrainPuts, Commit, Abandon, vars, disk
<1>4. CASE (\E S \in SUBSET Was({"hash"}) : HashNext(S)) \/ \E t \in Token : Finish(t)
  BY <1>4 DEF HashNext, Finish, disk
<1>. QED
  BY <1>1, <1>2, <1>3, <1>4 DEF Next, Environment, Lose, Advance, Refuse

(* NoLostUpdate: whatever users, rounds, failures and crashes interleave,  *)
(* a round replaces a version of a file only by one written over it, or    *)
(* after both folders hold it as a conflict copy.                          *)
THEOREM UpdatesSurvive == Spec => NoLostUpdate
<1>1. IInv /\ UInv /\ [Next]_vars => [KeepsVersions]_vars
  BY StepLosesNothing DEF KeepsVersions
<1>. QED
  BY <1>1, UpdateInvariance, PTL DEF Spec, NoLostUpdate

-----------------------------------------------------------------------------
(***************************************************************************)
(* Why a delta may leave out what it leaves out, and why a full round does *)
(* not have to be complete: between the scan and the commit every location *)
(* either is in the candidate as the folder has it, or somebody still has  *)
(* it among what changed.                                                  *)
(***************************************************************************)

\* One of the hints is about l.
About(S, l) == l \in S \/ Tree \in S

\* The phone's observers have the location in what they would report next.
Marked(l) == About(phoneDirty, l)

\* Somebody still has it: the PC's watcher, its hint on disk, or the phone.
Noted(l) == About(noticed \cup hint \cup phoneDirty, l)

Compared(l) == at[l] \notin {"out", "hash"}

\* Where a round is, and what it has taken, confirmed or sent by then.
Progress ==
  /\ phase \notin {"idle", "sent"} => done = NoToken
  /\ phase \notin {"named", "stream"} => taken = {}
  /\ phase \in {"idle", "delta", "full", "named"} => ~full
  /\ phase \notin {"stream", "work"} => received = {}
  /\ phase = "delta" => pcToken # NoToken
  /\ phase = "stream" => full
  /\ phase = "work" => \A l \in Loc : at[l] \notin {"hash", "deferred"}
  /\ phase = "sent" => \A l \in Loc : at[l] = "out"

\* The tokens agree, or will when the Done on its way arrives.
Trusted == pcToken # NoToken /\ pcToken \in {phoneToken, done}

\* What the phone's folder may have that the round's candidate does not, it
\* remembers: from the names, the hashes and the transfers on.
PhoneKept ==
  /\ Trusted => \A l \in Loc :
       file["phone"][l] # base[l] => Marked(l) \/ About(taken, l)
  /\ phase = "named" => \A l \in Loc :
       at[l] = "out" => file["phone"][l] = Absent \/ Marked(l)
  /\ phase \in {"stream", "work", "sent"} => \A l \in Loc :
       /\ at[l] = "out" => file["phone"][l] = cand[l] \/ Marked(l)
       /\ Compared(l) => file["phone"][l] = phoneScan[l] \/ Marked(l)
  /\ \A l \in Loc : at[l] = "stored" => Marked(l)
  /\ \A p \in Path : at[p] = "kept" => Marked(<<p, phoneScan[p]>>)

\* A copy that the round has put on the PC will be recorded, or is noted.
CopyKept(p, c) ==
  \/ at[<<p, c>>] = "out" /\ cand[<<p, c>>] = c
  \/ at[p] = "copied" /\ phoneScan[p] = c
  \/ Noted(<<p, c>>)

\* What a full round will record of the PC's folder.
PcKept ==
  /\ full /\ phase \in {"stream", "work"} =>
       /\ \A l \in Loc : at[l] = "out" /\ l \notin received => cand[l] = pcScan[l]
       /\ \A p \in Path :
            /\ p \in received => at[p] = "out" /\ cand[p] = phoneScan[p]
            /\ at[p] \in {"copied", "kept"} => <<p, phoneScan[p]>> \in received
            /\ \A c \in Content : <<p, c>> \in received => CopyKept(p, c)
  /\ full /\ phase = "sent" =>
       \A l \in Loc : cand[l] = file["pc"][l] \/ Noted(l)

\* Of a Share that is kept equal in both directions.
TInv ==
  /\ Progress
  /\ "miss" \notin Events => PhoneKept
  /\ PcKept

-----------------------------------------------------------------------------
\* Absorbing hints changes nothing of what they are about.
LEMMA HintsAreAbout ==
  ASSUME NEW S, NEW l
  PROVE  /\ About(Hints(S), l) <=> About(S, l)
         /\ About(S, l) <=> S \cap {l, Tree} # {}
BY DEF About, Hints

\* A user's change is noticed on either side.
LEMMA EditTrusts ==
  ASSUME IInv, UInv, TInv, Mode = "Bidirectional", NEW s \in Side, NEW p \in Path, NEW c \in Content, Edit(s, p, c)
  PROVE  TInv'
<1>. USE Locations, HintsAreAbout DEF IInv, TypeOK, TInv, Edit
<1>1. Progress'
  BY DEF Progress, Justified, Changed, NoticeOnPc, NoticeOnPhone, tokens, round
<1>2. ASSUME "miss" \notin Events PROVE PhoneKept'
  BY <1>2 DEF Progress, PhoneKept, Compared, Trusted, Marked, About, UInv, History, Justified,
    Changed, NoticeOnPc, NoticeOnPhone, tokens, round
<1>3. PcKept'
  BY DEF Progress, PcKept, CopyKept, Noted, About, UInv, History, Justified, Changed,
    NoticeOnPc, NoticeOnPhone, tokens, round
<1>. QED
  BY <1>1, <1>2, <1>3

\* So is a deletion.
LEMMA RemoveTrusts ==
  ASSUME IInv, UInv, TInv, Mode = "Bidirectional", NEW s \in Side, NEW p \in Path, Remove(s, p)
  PROVE  TInv'
<1>. USE Locations, HintsAreAbout DEF IInv, TypeOK, TInv, Remove
<1>1. Progress'
  BY DEF Progress, Justified, Changed, NoticeOnPc, NoticeOnPhone, tokens, round
<1>2. ASSUME "miss" \notin Events PROVE PhoneKept'
  BY <1>2 DEF Progress, PhoneKept, Compared, Trusted, Marked, About, UInv, History, Justified,
    Changed, NoticeOnPc, NoticeOnPhone, tokens, round
<1>3. PcKept'
  BY DEF Progress, PcKept, CopyKept, Noted, About, UInv, History, Justified, Changed,
    NoticeOnPc, NoticeOnPhone, tokens, round
<1>. QED
  BY <1>1, <1>2, <1>3

\* What was noticed is hinted at instead.
LEMMA FlushHintTrusts ==
  ASSUME IInv, UInv, TInv, Mode = "Bidirectional", FlushHint
  PROVE  TInv'
<1>. USE Locations, HintsAreAbout DEF IInv, TypeOK, TInv, FlushHint
<1>1. Progress'
  BY DEF Progress, Justified, disk, tokens, round
<1>2. ASSUME "miss" \notin Events PROVE PhoneKept'
  BY <1>2 DEF Progress, PhoneKept, Compared, Trusted, Marked, About, UInv, History, Justified,
    disk, tokens, round
<1>3. PcKept'
  BY DEF Progress, PcKept, CopyKept, Noted, About, UInv, History, Justified, disk, tokens, round
<1>. QED
  BY <1>1, <1>2, <1>3

\* An audit is about everything.
LEMMA AuditDueTrusts ==
  ASSUME IInv, UInv, TInv, Mode = "Bidirectional", AuditDue
  PROVE  TInv'
<1>. USE Locations, HintsAreAbout DEF IInv, TypeOK, TInv, AuditDue
<1>1. Progress'
  BY DEF Progress, Justified, disk, tokens, round
<1>2. ASSUME "miss" \notin Events PROVE PhoneKept'
  BY <1>2 DEF Progress, PhoneKept, Compared, Trusted, Marked, About, UInv, History, Justified,
    disk, tokens, round
<1>3. PcKept'
  BY DEF Progress, PcKept, CopyKept, Noted, About, UInv, History, Justified, disk, tokens, round
<1>. QED
  BY <1>1, <1>2, <1>3

\* A delta begins only with a token.
LEMMA BeginTrusts ==
  ASSUME IInv, UInv, TInv, Mode = "Bidirectional", Begin
  PROVE  TInv'
<1>. USE Locations, HintsAreAbout DEF IInv, TypeOK, TInv, Begin
<1>1. Progress'
  BY DEF Progress, Justified, disk, trust
<1>2. ASSUME "miss" \notin Events PROVE PhoneKept'
  BY <1>2 DEF Progress, PhoneKept, Compared, Trusted, Marked, About, UInv, History, Justified,
    disk, trust
<1>3. PcKept'
  BY DEF Progress, PcKept, CopyKept, Noted, About, UInv, History, Justified, disk, trust
<1>. QED
  BY <1>1, <1>2, <1>3

\* What a delta leaves out is as the base has it, or marked since.
LEMMA DeltaScanTrusts ==
  ASSUME IInv, UInv, TInv, Mode = "Bidirectional", DeltaScan
  PROVE  TInv'
<1>. USE Locations, HintsAreAbout DEF IInv, TypeOK, TInv, DeltaScan
<1>1. Progress'
  BY DEF Progress, Justified, DeltaScope, disk, trust
<1>2. ASSUME "miss" \notin Events PROVE PhoneKept'
  BY <1>2 DEF Progress, PhoneKept, Compared, Trusted, Marked, About, UInv, History, Justified,
    DeltaScope, disk, trust
<1>3. PcKept'
  BY DEF Progress, PcKept, CopyKept, Noted, About, UInv, History, Justified, DeltaScope, disk,
    trust
<1>. QED
  BY <1>1, <1>2, <1>3

\* Nothing was taken yet.
LEMMA DeltaFallbackTrusts ==
  ASSUME IInv, UInv, TInv, Mode = "Bidirectional", DeltaFallback
  PROVE  TInv'
<1>. USE Locations, HintsAreAbout DEF IInv, TypeOK, TInv, DeltaFallback
<1>1. Progress'
  BY DEF Progress, Justified, disk, trust, tokens
<1>2. ASSUME "miss" \notin Events PROVE PhoneKept'
  BY <1>2 DEF Progress, PhoneKept, Compared, Trusted, Marked, About, UInv, History, Justified,
    disk, trust, tokens
<1>3. PcKept'
  BY DEF Progress, PcKept, CopyKept, Noted, About, UInv, History, Justified, disk, trust, tokens
<1>. QED
  BY <1>1, <1>2, <1>3

\* The phone has no file it gives no name for.
LEMMA EnumerateTrusts ==
  ASSUME IInv, UInv, TInv, Mode = "Bidirectional", Enumerate
  PROVE  TInv'
<1>. USE Locations, HintsAreAbout DEF IInv, TypeOK, TInv, Enumerate
<1>1. Progress'
  BY DEF Progress, Justified, disk, tokens
<1>2. ASSUME "miss" \notin Events PROVE PhoneKept'
  BY <1>2 DEF Progress, PhoneKept, Compared, Trusted, Marked, About, UInv, History, Justified,
    disk, tokens
<1>3. PcKept'
  BY DEF Progress, PcKept, CopyKept, Noted, About, UInv, History, Justified, disk, tokens
<1>. QED
  BY <1>1, <1>2, <1>3

\* What neither folder nor base has stays out.
LEMMA ScanPcTrusts ==
  ASSUME IInv, UInv, TInv, Mode = "Bidirectional", ScanPc
  PROVE  TInv'
<1>1. /\ \A l \in Loc :
           /\ at'[l] = "out" => at[l] = "out" /\ file["pc"][l] = Absent /\ base[l] = Absent
           /\ at'[l] = "todo" => at[l] = "out"
           /\ at'[l] \in {"out", "hash", "todo"}
      /\ \A l \in Loc : cand[l] = base[l] /\ phoneScan[l] = Absent
      /\ phase = "named" /\ phase' = "stream" /\ full' /\ pcScan' = file["pc"]
      /\ done = NoToken /\ received = {}
      /\ UNCHANGED <<disk, base, noticed, phoneDirty, taken, tokens, phoneScan, cand, received>>
  BY DEF IInv, UInv, TInv, Justified, Progress, History, Nothing, ScanPc
<1>2. Progress'
  BY <1>1 DEF TInv, Progress, tokens
<1>3. ASSUME "miss" \notin Events PROVE PhoneKept'
  BY <1>1, <1>3, Locations DEF TInv, PhoneKept, Compared, Trusted, Marked, disk, tokens
<1>4. PcKept'
  BY <1>1, Locations DEF PcKept
<1>. QED
  BY <1>2, <1>3, <1>4 DEF TInv

\* A hash is of the file that is there.
LEMMA HashNextTrusts ==
  ASSUME IInv, UInv, TInv, Mode = "Bidirectional", NEW S \in SUBSET Was({"hash"}), HashNext(S)
  PROVE  TInv'
<1>. USE Locations, HintsAreAbout DEF IInv, TypeOK, TInv, HashNext
<1>1. Progress'
  BY DEF Progress, Justified, Was, disk, trust, tokens
<1>2. ASSUME "miss" \notin Events PROVE PhoneKept'
  BY <1>2 DEF Progress, PhoneKept, Compared, Trusted, Marked, About, UInv, History, Justified,
    Was, disk, trust, tokens
<1>3. PcKept'
  BY DEF Progress, PcKept, CopyKept, Noted, About, UInv, History, Justified, Was, disk, trust,
    tokens
<1>. QED
  BY <1>1, <1>2, <1>3

\* With the flags the token goes, too.
LEMMA HashEndTrusts ==
  ASSUME IInv, UInv, TInv, Mode = "Bidirectional", HashEnd
  PROVE  TInv'
<1>. USE Locations, HintsAreAbout DEF IInv, TypeOK, TInv, HashEnd
<1>1. Progress'
  BY DEF Progress, Justified, Was, disk
<1>2. ASSUME "miss" \notin Events PROVE PhoneKept'
  BY <1>2 DEF Progress, PhoneKept, Compared, Trusted, Marked, About, UInv, History, Justified,
    Was, disk
<1>3. PcKept'
  BY DEF Progress, PcKept, CopyKept, Noted, About, UInv, History, Justified, Was, disk
<1>. QED
  BY <1>1, <1>2, <1>3

\* A deferred location stays compared.
LEMMA DeferTrusts ==
  ASSUME IInv, UInv, TInv, Mode = "Bidirectional", NEW l \in Loc, Defer(l)
  PROVE  TInv'
<1>. USE Locations, HintsAreAbout DEF IInv, TypeOK, TInv, Defer
<1>1. Progress'
  BY DEF Progress, Justified, Step, Working, Was, disk, trust, tokens
<1>2. ASSUME "miss" \notin Events PROVE PhoneKept'
  BY <1>2 DEF Progress, PhoneKept, Compared, Trusted, Marked, About, UInv, History, Justified,
    Step, Working, Was, disk, trust, tokens
<1>3. PcKept'
  BY DEF Progress, PcKept, CopyKept, Noted, About, UInv, History, Justified, Step, Working, Was,
    disk, trust, tokens
<1>. QED
  BY <1>1, <1>2, <1>3

\* In a Share that is kept equal nothing is skipped.
LEMMA SkipTrusts ==
  ASSUME IInv, UInv, TInv, Mode = "Bidirectional", NEW l \in Loc, Skip(l)
  PROVE  TInv'
BY DEF Skip, Prohibited

\* What both scans found is recorded.
LEMMA AgreeTrusts ==
  ASSUME IInv, UInv, TInv, Mode = "Bidirectional", NEW l \in Loc, Agree(l)
  PROVE  TInv'
<1>1. /\ \A q \in Loc : /\ at'[q] = IF q = l THEN "out" ELSE at[q]
                        /\ cand'[q] = IF q = l THEN pcScan[l] ELSE cand[q]
      /\ at[l] = "todo" /\ phase \in {"stream", "work"} /\ pcScan[l] = phoneScan[l]
      /\ UNCHANGED <<disk, base, trust, tokens, phase, full, pcScan, phoneScan, received>>
  BY DecisionSource DEF IInv, TypeOK, Agree, Step, Working
<1>. USE <1>1, Locations DEF TInv
<1>2. Progress'
  BY DEF Progress, trust, tokens
<1>3. ASSUME "miss" \notin Events PROVE PhoneKept'
  BY <1>3 DEF PhoneKept, Compared, Trusted, Marked, disk, trust, tokens
<1>4. PcKept'
  <2>1. ASSUME NEW p \in Path, NEW c \in Content, CopyKept(p, c) PROVE CopyKept(p, c)'
    <3>1. <<p, c>> \in Loc /\ p \in Loc
      OBVIOUS
    <3>. QED
      BY <2>1, <3>1 DEF CopyKept, Noted, About, trust
  <2>. QED
    BY <2>1 DEF PcKept
<1>. QED
  BY <1>2, <1>3, <1>4

\* An offered location stays compared.
LEMMA OfferTrusts ==
  ASSUME IInv, UInv, TInv, Mode = "Bidirectional", NEW l \in Loc, Offer(l)
  PROVE  TInv'
<1>. USE Locations, HintsAreAbout DEF IInv, TypeOK, TInv, Offer
<1>1. Progress'
  BY DEF Progress, Justified, Step, Working, Was, disk, trust, tokens
<1>2. ASSUME "miss" \notin Events PROVE PhoneKept'
  BY <1>2 DEF Progress, PhoneKept, Compared, Trusted, Marked, About, UInv, History, Justified,
    Step, Working, Was, disk, trust, tokens
<1>3. PcKept'
  BY DEF Progress, PcKept, CopyKept, Noted, About, UInv, History, Justified, Step, Working, Was,
    disk, trust, tokens
<1>. QED
  BY <1>1, <1>2, <1>3

\* A fetched location stays compared.
LEMMA FetchTrusts ==
  ASSUME IInv, UInv, TInv, Mode = "Bidirectional", NEW l \in Loc, Fetch(l)
  PROVE  TInv'
<1>. USE Locations, HintsAreAbout DEF IInv, TypeOK, TInv, Fetch
<1>1. Progress'
  BY DEF Progress, Justified, Step, Working, Was, disk, trust, tokens
<1>2. ASSUME "miss" \notin Events PROVE PhoneKept'
  BY <1>2 DEF Progress, PhoneKept, Compared, Trusted, Marked, About, UInv, History, Justified,
    Step, Working, Was, disk, trust, tokens
<1>3. PcKept'
  BY DEF Progress, PcKept, CopyKept, Noted, About, UInv, History, Justified, Step, Working, Was,
    disk, trust, tokens
<1>. QED
  BY <1>1, <1>2, <1>3

\* An answer of the phone's writes nothing.
LEMMA BlobTrusts ==
  ASSUME IInv, UInv, TInv, Mode = "Bidirectional", NEW l \in Loc, Blob(l)
  PROVE  TInv'
<1>. USE Locations, HintsAreAbout DEF IInv, TypeOK, TInv, Blob
<1>1. Progress'
  BY DEF Progress, Justified, Step, disk, trust, tokens
<1>2. ASSUME "miss" \notin Events PROVE PhoneKept'
  BY <1>2 DEF Progress, PhoneKept, Compared, Trusted, Marked, About, UInv, History, Justified,
    Step, disk, trust, tokens
<1>3. PcKept'
  BY DEF Progress, PcKept, CopyKept, Noted, About, UInv, History, Justified, Step, disk, trust,
    tokens
<1>. QED
  BY <1>1, <1>2, <1>3

\* What the round puts on the PC is in the candidate.
LEMMA InstallGetTrusts ==
  ASSUME IInv, UInv, TInv, Mode = "Bidirectional", NEW l \in Loc, InstallGet(l)
  PROVE  TInv'
<1>1. /\ phoneScan[l] \in Content /\ at[l] = "fetched"
      /\ phase \notin {"idle", "delta", "full", "named"}
      /\ Write("pc", l, pcScan[l], phoneScan[l])
  BY DEF IInv, InstallGet, WriteOnPc, TypeOK, Justified, Receiving, MaybeContent
<1>2. \A t \in Side, q \in Loc :
        file'[t][q] = IF t = "pc" /\ q = l THEN phoneScan[l] ELSE file[t][q]
  BY <1>1, Written DEF IInv, Side
<1>3. /\ \A q \in Loc : /\ at'[q] = IF q = l THEN "out" ELSE at[q]
                        /\ cand'[q] = IF q = l THEN phoneScan[l] ELSE cand[q]
      /\ received' = received \cup {l}
      /\ \A q \in Loc : About(hint, q) => About(hint', q)
      /\ UNCHANGED <<base, noticed, phoneDirty, taken, tokens, phase, full, pcScan, phoneScan>>
  BY HintsAreAbout DEF IInv, TypeOK, InstallGet, WriteOnPc, Step, About
<1>4. phase \in {"stream", "work"}
  BY <1>1 DEF IInv, TypeOK, TInv, Progress
<1>5. Progress'
  BY <1>1, <1>3, <1>4 DEF TInv, Progress, tokens
<1>6. ASSUME "miss" \notin Events PROVE PhoneKept'
  <2>1. \A q \in Loc : file'["phone"][q] = file["phone"][q]
    BY <1>2 DEF Side
  <2>. QED
    BY <1>1, <1>3, <1>4, <1>6, <2>1, Locations
    DEF TInv, PhoneKept, Compared, Trusted, Marked, tokens
<1>7. PcKept'
  <2>1. ASSUME NEW p \in Path, NEW c \in Content, l = <<p, c>>
        PROVE  phoneScan[l] = c
    BY <1>1, <2>1, ConstantsAssumption DEF UInv, Copies
  <2>2. \A q \in Loc : Noted(q) => Noted(q)'
    BY <1>3 DEF Noted, About
  <2>3. ASSUME full, NEW p \in Path, NEW c \in Content, <<p, c>> \in received'
        PROVE  CopyKept(p, c)'
    <3>1. CASE l = <<p, c>>
      BY <1>3, <2>1, <3>1 DEF CopyKept
    <3>2. CASE l # <<p, c>>
      <4>1. CopyKept(p, c) /\ <<p, c>> \in Loc /\ p \in Loc
        BY <1>3, <1>4, <2>3, <3>2, Locations DEF TInv, PcKept
      <4>2. Noted(<<p, c>>) => About(noticed' \cup hint' \cup phoneDirty', <<p, c>>)
        BY <1>3, <4>1 DEF Noted, About
      <4>. QED
        BY <1>1, <1>3, <3>2, <4>1, <4>2 DEF CopyKept, Noted
    <3>. QED
      BY <3>1, <3>2
  <2>. QED
    BY <1>1, <1>3, <1>4, <2>3, Locations DEF TInv, PcKept
<1>. QED
  BY <1>5, <1>6, <1>7 DEF TInv

\* What the round puts on the phone the phone marks.
LEMMA InstallPutTrusts ==
  ASSUME IInv, UInv, TInv, Mode = "Bidirectional", NEW l \in Loc, InstallPut(l)
  PROVE  TInv'
<1>1. /\ pcScan[l] \in Content /\ at[l] = "put"
      /\ phase \notin {"idle", "delta", "full", "named"}
      /\ Write("phone", l, phoneScan[l], pcScan[l])
  BY DEF IInv, InstallPut, WriteOnPhone, TypeOK, Justified, Sending, MaybeContent
<1>2. \A t \in Side, q \in Loc :
        file'[t][q] = IF t = "phone" /\ q = l THEN pcScan[l] ELSE file[t][q]
  BY <1>1, Written DEF IInv, Side
<1>3. /\ \A q \in Loc : at'[q] = IF q = l THEN "stored" ELSE at[q]
      /\ About(phoneDirty', l)
      /\ \A q : About(phoneDirty, q) => About(phoneDirty', q)
      /\ UNCHANGED <<base, hint, noticed, taken, tokens, phase, full, pcScan, phoneScan, cand,
                     received>>
  BY HintsAreAbout DEF IInv, TypeOK, InstallPut, WriteOnPhone, Step, About
<1>4. phase \in {"stream", "work"}
  BY <1>1 DEF IInv, TypeOK, TInv, Progress
<1>5. Progress'
  BY <1>1, <1>3, <1>4 DEF TInv, Progress, tokens
<1>6. ASSUME "miss" \notin Events PROVE PhoneKept'
  <2>1. \A q \in Loc : q # l => file'["phone"][q] = file["phone"][q]
    BY <1>2 DEF Side
  <2>. USE <1>1, <1>3, <1>4, <1>6, <2>1, Locations
       DEF TInv, PhoneKept, Compared, Trusted, Marked, tokens
  <2>2. Trusted' => \A q \in Loc : file'["phone"][q] # base'[q] =>
                      About(phoneDirty', q) \/ About(taken', q)
    OBVIOUS
  <2>3. phase \in {"stream", "work"} => \A q \in Loc :
          /\ at'[q] = "out" => file'["phone"][q] = cand'[q] \/ About(phoneDirty', q)
          /\ at'[q] \notin {"out", "hash"} => file'["phone"][q] = phoneScan'[q] \/ About(phoneDirty', q)
    OBVIOUS
  <2>4. \A q \in Loc : at'[q] = "stored" => About(phoneDirty', q)
    OBVIOUS
  <2>5. \A q \in Path : at'[q] = "kept" => About(phoneDirty', <<q, phoneScan'[q]>>)
    OBVIOUS
  <2>. QED
    BY <2>2, <2>3, <2>4, <2>5
<1>7. PcKept'
  <2>1. \A q \in Loc : file'["pc"][q] = file["pc"][q] /\ (Noted(q) => Noted(q)')
    BY <1>2, <1>3 DEF Side, Noted, About
  <2>. QED
    BY <1>1, <1>3, <1>4, <2>1, Locations DEF TInv, PcKept, CopyKept
<1>. QED
  BY <1>5, <1>6, <1>7 DEF TInv

\* The same for a file that was staged during the stream.
LEMMA InstallStagedTrusts ==
  ASSUME IInv, UInv, TInv, Mode = "Bidirectional", NEW l \in Loc, InstallStaged(l)
  PROVE  TInv'
<1>1. /\ pcScan[l] \in Content /\ at[l] = "staged" /\ phase = "work"
      /\ Write("phone", l, phoneScan[l], pcScan[l])
  BY DEF IInv, InstallStaged, WriteOnPhone, TypeOK, Justified, Sending, MaybeContent
<1>2. \A t \in Side, q \in Loc :
        file'[t][q] = IF t = "phone" /\ q = l THEN pcScan[l] ELSE file[t][q]
  BY <1>1, Written DEF IInv, Side
<1>3. /\ \A q \in Loc : /\ at'[q] = IF q = l THEN "out" ELSE at[q]
                        /\ cand'[q] = IF q = l THEN pcScan[l] ELSE cand[q]
      /\ About(phoneDirty', l)
      /\ \A q : About(phoneDirty, q) => About(phoneDirty', q)
      /\ UNCHANGED <<base, hint, noticed, taken, tokens, phase, full, pcScan, phoneScan, received>>
  BY HintsAreAbout DEF IInv, TypeOK, InstallStaged, WriteOnPhone, Step, About
<1>4. Progress'
  BY <1>1, <1>3 DEF TInv, Progress, tokens
<1>5. ASSUME "miss" \notin Events PROVE PhoneKept'
  <2>1. \A q \in Loc : q # l => file'["phone"][q] = file["phone"][q]
    BY <1>2 DEF Side
  <2>. USE <1>1, <1>3, <1>5, <2>1, Locations
       DEF TInv, PhoneKept, Compared, Trusted, Marked, tokens
  <2>2. Trusted' => \A q \in Loc : file'["phone"][q] # base'[q] =>
                      About(phoneDirty', q) \/ About(taken', q)
    OBVIOUS
  <2>3. phase \in {"stream", "work"} => \A q \in Loc :
          /\ at'[q] = "out" => file'["phone"][q] = cand'[q] \/ About(phoneDirty', q)
          /\ at'[q] \notin {"out", "hash"} => file'["phone"][q] = phoneScan'[q] \/ About(phoneDirty', q)
    OBVIOUS
  <2>4. \A q \in Loc : at'[q] = "stored" => About(phoneDirty', q)
    OBVIOUS
  <2>5. \A q \in Path : at'[q] = "kept" => About(phoneDirty', <<q, phoneScan'[q]>>)
    OBVIOUS
  <2>. QED
    BY <2>2, <2>3, <2>4, <2>5
<1>6. PcKept'
  <2>1. \A q \in Loc : file'["pc"][q] = file["pc"][q] /\ (Noted(q) => Noted(q)')
    BY <1>2, <1>3 DEF Side, Noted, About
  <2>. QED
    BY <1>1, <1>3, <2>1, Locations DEF TInv, PcKept, CopyKept
<1>. QED
  BY <1>4, <1>5, <1>6 DEF TInv

\* What the phone accepted it has marked, and the PC still has.
LEMMA DrainPutsTrusts ==
  ASSUME IInv, UInv, TInv, Mode = "Bidirectional", DrainPuts
  PROVE  TInv'
<1>. USE Locations, HintsAreAbout DEF IInv, TypeOK, TInv, DrainPuts
<1>1. Progress'
  BY DEF Progress, Justified, Was, disk, trust, tokens
<1>2. ASSUME "miss" \notin Events PROVE PhoneKept'
  BY <1>2 DEF Progress, PhoneKept, Compared, Trusted, Marked, About, UInv, History, Justified,
    Was, disk, trust, tokens
<1>3. PcKept'
  BY DEF Progress, PcKept, CopyKept, Noted, About, UInv, History, Justified, Was, disk, trust,
    tokens
<1>. QED
  BY <1>1, <1>2, <1>3

\* Nothing is written yet.
LEMMA ConflictTrusts ==
  ASSUME IInv, UInv, TInv, Mode = "Bidirectional", NEW p \in Path, Conflict(p)
  PROVE  TInv'
<1>. USE Locations, HintsAreAbout DEF IInv, TypeOK, TInv, Conflict
<1>1. Progress'
  BY DEF Progress, Justified, Step, Working, Was, disk, trust, tokens
<1>2. ASSUME "miss" \notin Events PROVE PhoneKept'
  BY <1>2 DEF Progress, PhoneKept, Compared, Trusted, Marked, About, UInv, History, Justified,
    Step, Working, Was, disk, trust, tokens
<1>3. PcKept'
  BY DEF Progress, PcKept, CopyKept, Noted, About, UInv, History, Justified, Step, Working, Was,
    disk, trust, tokens
<1>. QED
  BY <1>1, <1>2, <1>3

\* The copy on the PC is accounted for by the conflict it belongs to.
LEMMA CopyOnPcTrusts ==
  ASSUME IInv, UInv, TInv, Mode = "Bidirectional", NEW p \in Path, CopyOnPc(p)
  PROVE  TInv'
<1>. DEFINE copy == <<p, phoneScan[p]>>
<1>1. /\ phoneScan[p] \in Content /\ copy \in Loc /\ copy \notin Path /\ p \in Loc
      /\ at[p] = "snapshot" /\ phase \notin {"idle", "delta", "full", "named"}
      /\ Write("pc", copy, Absent, phoneScan[p])
  BY Locations DEF IInv, CopyOnPc, WriteOnPc, TypeOK, Justified, Resolving, MaybeContent
<1>. HIDE DEF copy
<1>2. \A t \in Side, q \in Loc :
        file'[t][q] = IF t = "pc" /\ q = copy THEN phoneScan[p] ELSE file[t][q]
  BY <1>1, Written DEF IInv, Side
<1>3. /\ \A q \in Loc : at'[q] = IF q = p THEN "copied" ELSE at[q]
      /\ received' = received \cup {copy}
      /\ \A q \in Loc : About(hint, q) => About(hint', q)
      /\ UNCHANGED <<base, noticed, phoneDirty, taken, tokens, phase, full, pcScan, phoneScan,
                     cand>>
  BY <1>1, HintsAreAbout DEF IInv, TypeOK, CopyOnPc, WriteOnPc, Step, About, copy
<1>4. phase \in {"stream", "work"}
  BY <1>1 DEF IInv, TypeOK, TInv, Progress
<1>5. Progress'
  BY <1>1, <1>3, <1>4 DEF TInv, Progress, tokens
<1>6. ASSUME "miss" \notin Events PROVE PhoneKept'
  <2>1. \A q \in Loc : file'["phone"][q] = file["phone"][q]
    BY <1>2 DEF Side
  <2>. QED
    BY <1>1, <1>3, <1>4, <1>6, <2>1, Locations
    DEF TInv, PhoneKept, Compared, Trusted, Marked, tokens
<1>7. PcKept'
  <2>1. \A q \in Loc : Noted(q) => Noted(q)'
    BY <1>3 DEF Noted, About
  <2>2. ASSUME full, NEW q \in Path, NEW c \in Content, <<q, c>> \in received'
        PROVE  CopyKept(q, c)'
    <3>1. CASE copy = <<q, c>>
      <4>1. q = p /\ c = phoneScan[p]
        BY <3>1 DEF copy
      <4>. QED
        BY <1>1, <1>3, <4>1 DEF CopyKept
    <3>2. CASE copy # <<q, c>>
      <4>1. CopyKept(q, c)
        BY <1>3, <1>4, <2>2, <3>2 DEF TInv, PcKept
      <4>2. <<q, c>> # p /\ <<q, c>> \in Loc
        BY Locations
      <4>. QED
        BY <1>1, <1>3, <2>1, <4>1, <4>2, Locations DEF CopyKept
    <3>. QED
      BY <3>1, <3>2
  <2>3. ASSUME full, NEW q \in Path, at'[q] \in {"copied", "kept"}
        PROVE  <<q, phoneScan[q]>> \in received'
    BY <1>1, <1>3, <1>4, <2>3, Locations DEF TInv, PcKept, copy
  <2>. QED
    BY <1>1, <1>3, <1>4, <2>2, <2>3, Locations DEF TInv, PcKept
<1>. QED
  BY <1>5, <1>6, <1>7 DEF TInv

\* The copy on the phone is marked there.
LEMMA CopyOnPhoneTrusts ==
  ASSUME IInv, UInv, TInv, Mode = "Bidirectional", NEW p \in Path, CopyOnPhone(p)
  PROVE  TInv'
<1>. DEFINE copy == <<p, phoneScan[p]>>
<1>1. /\ phoneScan[p] \in Content /\ copy \in Loc /\ copy \notin Path /\ p \in Loc
      /\ at[p] = "copied" /\ phase \notin {"idle", "delta", "full", "named"}
      /\ Write("phone", copy, Absent, phoneScan[p])
  BY Locations DEF IInv, CopyOnPhone, WriteOnPhone, TypeOK, Justified, Resolving, MaybeContent
<1>. HIDE DEF copy
<1>2. \A t \in Side, q \in Loc :
        file'[t][q] = IF t = "phone" /\ q = copy THEN phoneScan[p] ELSE file[t][q]
  BY <1>1, Written DEF IInv, Side
<1>3. /\ \A q \in Loc : at'[q] = IF q = p THEN "kept" ELSE at[q]
      /\ \A q \in Loc : About(phoneDirty', q) <=> About(phoneDirty, q) \/ About({copy}, q)
      /\ UNCHANGED <<base, hint, noticed, taken, tokens, phase, full, pcScan, phoneScan, cand,
                     received>>
  BY <1>1, HintsAreAbout DEF IInv, TypeOK, CopyOnPhone, WriteOnPhone, Step, About, copy
<1>4. phase \in {"stream", "work"}
  BY <1>1 DEF IInv, TypeOK, TInv, Progress
<1>5. Progress'
  BY <1>1, <1>3, <1>4 DEF TInv, Progress, tokens
<1>6. ASSUME "miss" \notin Events PROVE PhoneKept'
  <2>1. \A q \in Loc : q # copy => file'["phone"][q] = file["phone"][q]
    BY <1>2 DEF Side
  <2>2. About(phoneDirty', copy)
    BY <1>1, <1>3 DEF About
  <2>3. ASSUME NEW q \in Path, at'[q] = "kept" PROVE Marked(<<q, phoneScan[q]>>)'
    <3>1. CASE q = p
      BY <1>3, <2>2, <3>1 DEF Marked, copy
    <3>2. CASE q # p
      <4>1. phoneScan[q] \in Content
        BY <1>3, <2>3, <3>2, Locations DEF IInv, TypeOK, Justified, Resolving, MaybeContent
      <4>. QED
        BY <1>3, <1>6, <2>3, <3>2, <4>1, Locations DEF TInv, PhoneKept, Marked
    <3>. QED
      BY <3>1, <3>2
  <2>. QED
    BY <1>1, <1>3, <1>4, <1>6, <2>1, <2>2, <2>3, Locations
    DEF TInv, PhoneKept, Compared, Trusted, Marked, tokens
<1>7. PcKept'
  <2>1. \A q \in Loc : file'["pc"][q] = file["pc"][q] /\ (Noted(q) => Noted(q)')
    BY <1>2, <1>3 DEF Side, Noted, About
  <2>2. About((noticed \cup hint \cup phoneDirty)', copy)
    BY <1>1, <1>3 DEF About
  <2>3. ASSUME full, NEW q \in Path, NEW c \in Content, <<q, c>> \in received'
        PROVE  CopyKept(q, c)'
    <3>1. CopyKept(q, c)
      BY <1>3, <1>4, <2>3 DEF TInv, PcKept
    <3>2. <<q, c>> # p /\ <<q, c>> \in Loc
      BY Locations
    <3>3. CASE q = p /\ phoneScan[p] = c
      BY <2>2, <3>3 DEF CopyKept, Noted, copy
    <3>4. CASE ~(q = p /\ phoneScan[p] = c)
      BY <1>1, <1>3, <2>1, <3>1, <3>2, <3>4, Locations DEF CopyKept
    <3>. QED
      BY <3>3, <3>4
  <2>. QED
    BY <1>1, <1>3, <1>4, <2>1, <2>3, Locations DEF TInv, PcKept
<1>. QED
  BY <1>5, <1>6, <1>7 DEF TInv

\* With the conflict over, both its versions are in the candidate.
LEMMA ReplaceTrusts ==
  ASSUME IInv, UInv, TInv, Mode = "Bidirectional", NEW p \in Path, Replace(p)
  PROVE  TInv'
<1>. DEFINE copy == <<p, phoneScan[p]>>
<1>1. /\ phoneScan[p] \in Content /\ pcScan[p] \in Content
      /\ copy \in Loc /\ copy \notin Path /\ p \in Loc
      /\ at[p] = "kept" /\ phase \notin {"idle", "delta", "full", "named"}
      /\ Write("phone", p, phoneScan[p], pcScan[p])
  BY Locations DEF IInv, Replace, WriteOnPhone, TypeOK, Justified, Resolving, MaybeContent
<1>. HIDE DEF copy
<1>2. \A t \in Side, q \in Loc :
        file'[t][q] = IF t = "phone" /\ q = p THEN pcScan[p] ELSE file[t][q]
  BY <1>1, Written DEF IInv, Side
<1>3. /\ \A q \in Loc : at'[q] = IF q = p THEN "out" ELSE at[q]
      /\ \A q \in Loc : cand'[q] = IF q = p THEN pcScan[p]
                                   ELSE IF q = copy THEN phoneScan[p] ELSE cand[q]
      /\ \A q \in Loc : About(phoneDirty', q) <=> About(phoneDirty, q) \/ About({p}, q)
      /\ UNCHANGED <<base, hint, noticed, taken, tokens, phase, full, pcScan, phoneScan, received>>
  <2>1. cand' = [cand EXCEPT ![p] = pcScan[p], ![copy] = phoneScan[p]]
    BY DEF Replace, copy
  <2>2. \A q \in Loc : cand'[q] = IF q = p THEN pcScan[p]
                                  ELSE IF q = copy THEN phoneScan[p] ELSE cand[q]
    BY <1>1, <2>1 DEF IInv, TypeOK
  <2>. QED
    BY <1>1, <2>2, HintsAreAbout DEF IInv, TypeOK, Replace, WriteOnPhone, Step, About
<1>4. phase \in {"stream", "work"}
  BY <1>1 DEF IInv, TypeOK, TInv, Progress
<1>5. Progress'
  BY <1>1, <1>3, <1>4 DEF TInv, Progress, tokens
<1>6. ASSUME "miss" \notin Events PROVE PhoneKept'
  <2>1. \A q \in Loc : q # p => file'["phone"][q] = file["phone"][q]
    BY <1>2 DEF Side
  <2>2. About(phoneDirty', p) /\ About(phoneDirty', copy)
    BY <1>1, <1>3, <1>6 DEF About, Marked, TInv, PhoneKept, copy
  <2>3. ASSUME NEW q \in Path, at'[q] = "kept" PROVE Marked(<<q, phoneScan[q]>>)'
    <3>1. phoneScan[q] \in Content /\ at[q] = "kept"
      BY <1>3, <2>3, Locations DEF IInv, TypeOK, Justified, Resolving, MaybeContent
    <3>. QED
      BY <1>3, <1>6, <2>3, <3>1, Locations DEF TInv, PhoneKept, Marked
  <2>4. ASSUME NEW q \in Loc
        PROVE  at'[q] = "out" => file'["phone"][q] = cand'[q] \/ Marked(q)'
    <3>1. CASE q \in {p, copy}
      BY <2>2, <3>1 DEF Marked
    <3>2. CASE q \notin {p, copy}
      BY <1>3, <1>4, <1>6, <2>1, <3>2 DEF TInv, PhoneKept, Marked
    <3>. QED
      BY <3>1, <3>2
  <2>. QED
    BY <1>1, <1>3, <1>4, <1>6, <2>1, <2>2, <2>3, <2>4, Locations
    DEF TInv, PhoneKept, Compared, Trusted, Marked, tokens
<1>7. PcKept'
  <2>1. \A q \in Loc : file'["pc"][q] = file["pc"][q] /\ (Noted(q) => Noted(q)')
    BY <1>2, <1>3 DEF Side, Noted, About
  <2>2. full => copy \in received /\ p \notin received
    BY <1>1, <1>4 DEF TInv, PcKept, copy
  <2>3. ASSUME full, NEW q \in Path, NEW c \in Content, <<q, c>> \in received'
        PROVE  CopyKept(q, c)'
    <3>1. CopyKept(q, c)
      BY <1>3, <1>4, <2>3 DEF TInv, PcKept
    <3>2. <<q, c>> # p /\ <<q, c>> \in Loc
      BY Locations
    <3>3. <<q, c>> = copy => c = phoneScan[p]
      BY DEF copy
    <3>4. at'[<<q, c>>] = at[<<q, c>>]
      BY <1>3, <3>2
    <3>5. cand[<<q, c>>] = c => cand'[<<q, c>>] = c
      BY <1>3, <3>2, <3>3
    <3>6. at[q] = "copied" => at'[q] = "copied"
      BY <1>1, <1>3, Locations
    <3>. QED
      BY <1>3, <2>1, <3>1, <3>2, <3>4, <3>5, <3>6 DEF CopyKept
  <2>. QED
    BY <1>1, <1>3, <1>4, <2>1, <2>2, <2>3, Locations DEF TInv, PcKept
<1>. QED
  BY <1>5, <1>6, <1>7 DEF TInv

\* When Done is sent, the candidate is what the PC's folder has.
LEMMA FinishTrusts ==
  ASSUME IInv, UInv, TInv, Mode = "Bidirectional", NEW t \in Token, Finish(t)
  PROVE  TInv'
<1>1. /\ \A l \in Loc : at[l] = "out"
      /\ phase = "work" /\ phase' = "sent"
      /\ done' = t /\ t # pcToken /\ received' = {} /\ phoneScan' = Nothing
      /\ full => \A l \in Loc : Undisturbed(l)
      /\ UNCHANGED <<disk, base, trust, pcToken, phoneToken, full, cand, at>>
  <2>1. /\ phase = "work" /\ \A l \in Loc : at[l] \notin {"hash", "deferred"}
        /\ \A l \in Loc : at[l] \notin {"todo", "staged"} \cup {"put", "stored"}
             \cup {"get", "fetched"} \cup {"snapshot", "copied", "kept"}
    BY DEF Finish, Drained, Puts, Gets, Copying, Was, TInv, Progress
  <2>. QED
    BY <2>1 DEF Finish, IInv, TypeOK
<1>2. Progress'
  BY <1>1 DEF TInv, Progress, trust
<1>3. ASSUME "miss" \notin Events PROVE PhoneKept'
  BY <1>1, <1>3, Locations DEF TInv, PhoneKept, Compared, Trusted, Marked, About, disk, trust
<1>4. PcKept'
  <2>1. ASSUME full, NEW l \in Loc PROVE cand[l] = file["pc"][l] \/ Noted(l)
    <3>1. Undisturbed(l)
      BY <1>1, <2>1
    <3>2. CASE l \notin received
      BY <1>1, <2>1, <3>1, <3>2 DEF TInv, PcKept, Undisturbed, Fresh
    <3>3. CASE l \in received /\ l \in Path
      BY <1>1, <2>1, <3>1, <3>3 DEF TInv, PcKept, Undisturbed
    <3>4. CASE l \in received /\ l \notin Path
      <4>1. PICK p \in Path, c \in Content : l = <<p, c>>
        BY <3>4 DEF Loc, Copy
      <4>2. CopyKept(p, c)
        BY <1>1, <2>1, <3>4, <4>1 DEF TInv, PcKept
      <4>. QED
        BY <1>1, <3>1, <3>4, <4>1, <4>2, Locations DEF CopyKept, Undisturbed
    <3>. QED
      BY <3>2, <3>3, <3>4
  <2>. QED
    BY <1>1, <2>1 DEF PcKept, Noted, disk, trust
<1>. QED
  BY <1>2, <1>3, <1>4 DEF TInv

\* The candidate becomes the base, and what differs is marked.
LEMMA CommitTrusts ==
  ASSUME IInv, UInv, TInv, Mode = "Bidirectional", Commit
  PROVE  TInv'
<1>. USE Locations, HintsAreAbout DEF IInv, TypeOK, TInv, Commit
<1>1. Progress'
  BY DEF Progress, Justified, EndRound, Idle, Nothing, disk, trust, round
<1>2. ASSUME "miss" \notin Events PROVE PhoneKept'
  BY <1>2 DEF Progress, PhoneKept, Compared, Trusted, Marked, About, UInv, History, Justified,
    EndRound, Idle, Nothing, disk, trust, round
<1>3. PcKept'
  BY DEF Progress, PcKept, CopyKept, Noted, About, UInv, History, Justified, EndRound, Idle,
    Nothing, disk, trust, round
<1>. QED
  BY <1>1, <1>2, <1>3

\* The tokens agree once the Done has arrived.
LEMMA PhoneDoneTrusts ==
  ASSUME IInv, UInv, TInv, Mode = "Bidirectional", PhoneDone
  PROVE  TInv'
<1>. USE Locations, HintsAreAbout DEF IInv, TypeOK, TInv, PhoneDone
<1>1. Progress'
  BY DEF Progress, Justified, disk, trust, round
<1>2. ASSUME "miss" \notin Events PROVE PhoneKept'
  BY <1>2 DEF Progress, PhoneKept, Compared, Trusted, Marked, About, UInv, History, Justified,
    disk, trust, round
<1>3. PcKept'
  BY DEF Progress, PcKept, CopyKept, Noted, About, UInv, History, Justified, disk, trust, round
<1>. QED
  BY <1>1, <1>2, <1>3

\* Without the Done they do not.
LEMMA LoseDoneTrusts ==
  ASSUME IInv, UInv, TInv, Mode = "Bidirectional", LoseDone
  PROVE  TInv'
<1>. USE Locations, HintsAreAbout DEF IInv, TypeOK, TInv, LoseDone
<1>1. Progress'
  BY DEF Progress, Justified, disk, trust, round
<1>2. ASSUME "miss" \notin Events PROVE PhoneKept'
  BY <1>2 DEF Progress, PhoneKept, Compared, Trusted, Marked, About, UInv, History, Justified,
    disk, trust, round
<1>3. PcKept'
  BY DEF Progress, PcKept, CopyKept, Noted, About, UInv, History, Justified, disk, trust, round
<1>. QED
  BY <1>1, <1>2, <1>3

\* A scan that is given up gives back the flags it took.
LEMMA AbandonTrusts ==
  ASSUME IInv, UInv, TInv, Mode = "Bidirectional", Abandon
  PROVE  TInv'
<1>. USE Locations, HintsAreAbout DEF IInv, TypeOK, TInv, Abandon
<1>1. Progress'
  BY DEF Progress, Justified, EndRound, Idle, Nothing, disk, tokens, round
<1>2. ASSUME "miss" \notin Events PROVE PhoneKept'
  BY <1>2 DEF Progress, PhoneKept, Compared, Trusted, Marked, About, UInv, History, Justified,
    EndRound, Idle, Nothing, disk, tokens, round
<1>3. PcKept'
  BY DEF Progress, PcKept, CopyKept, Noted, About, UInv, History, Justified, EndRound, Idle,
    Nothing, disk, tokens, round
<1>. QED
  BY <1>1, <1>2, <1>3

\* So does a stop of the PC, which forgets its token.
LEMMA CrashPcTrusts ==
  ASSUME IInv, UInv, TInv, Mode = "Bidirectional", CrashPc
  PROVE  TInv'
<1>. USE Locations, HintsAreAbout DEF IInv, TypeOK, TInv, CrashPc
<1>1. Progress'
  BY DEF Progress, Justified, EndRound, Idle, Nothing, disk, round
<1>2. ASSUME "miss" \notin Events PROVE PhoneKept'
  BY <1>2 DEF Progress, PhoneKept, Compared, Trusted, Marked, About, UInv, History, Justified,
    EndRound, Idle, Nothing, disk, round
<1>3. PcKept'
  BY DEF Progress, PcKept, CopyKept, Noted, About, UInv, History, Justified, EndRound, Idle,
    Nothing, disk, round
<1>. QED
  BY <1>1, <1>2, <1>3

\* A phone that stopped has no token.
LEMMA CrashPhoneTrusts ==
  ASSUME IInv, UInv, TInv, Mode = "Bidirectional", CrashPhone
  PROVE  TInv'
<1>. USE Locations, HintsAreAbout DEF IInv, TypeOK, TInv, CrashPhone
<1>1. Progress'
  BY DEF Progress, Justified, EndRound, Idle, Nothing, disk, round
<1>2. ASSUME "miss" \notin Events PROVE PhoneKept'
  BY <1>2 DEF Progress, PhoneKept, Compared, Trusted, Marked, About, UInv, History, Justified,
    EndRound, Idle, Nothing, disk, round
<1>3. PcKept'
  BY DEF Progress, PcKept, CopyKept, Noted, About, UInv, History, Justified, EndRound, Idle,
    Nothing, disk, round
<1>. QED
  BY <1>1, <1>2, <1>3

-----------------------------------------------------------------------------
\* To begin with everything is asked for and nobody is trusted.
LEMMA TrustStarts == Init => TInv
<1>. SUFFICES ASSUME Init PROVE TInv
  OBVIOUS
<1>. USE Locations DEF Init, Idle, Nothing
<1>1. Progress
  BY DEF Progress
<1>2. PhoneKept
  BY DEF PhoneKept, Trusted, Compared
<1>3. PcKept
  BY DEF PcKept
<1>. QED
  BY <1>1, <1>2, <1>3 DEF TInv

\* Relative to IInv and UInv, what is remembered is inductive.
LEMMA TrustInductive ==
  ASSUME IInv, UInv, TInv, Mode = "Bidirectional", [Next]_vars
  PROVE  TInv'
<1>1. CASE Environment
  BY <1>1, EditTrusts, RemoveTrusts, AbandonTrusts, CrashPcTrusts, CrashPhoneTrusts,
     LoseDoneTrusts
  DEF Environment, Users, Lose
<1>2. CASE FlushHint \/ AuditDue \/ Begin \/ PhoneDone
  BY <1>2, FlushHintTrusts, AuditDueTrusts, BeginTrusts, PhoneDoneTrusts
<1>3. CASE Advance
  <2>1. CASE \E l \in Loc : Process(l)
    BY <2>1, DeferTrusts, SkipTrusts, AgreeTrusts, OfferTrusts, FetchTrusts, BlobTrusts,
       InstallGetTrusts, InstallPutTrusts, InstallStagedTrusts DEF Process
  <2>2. CASE \E p \in Path : Resolve(p)
    BY <2>2, ConflictTrusts, CopyOnPcTrusts, CopyOnPhoneTrusts, ReplaceTrusts DEF Resolve
  <2>3. CASE \/ DeltaScan \/ DeltaFallback \/ Enumerate \/ ScanPc \/ HashEnd \/ DrainPuts
             \/ Commit \/ Refuse
    BY <2>3, DeltaScanTrusts, DeltaFallbackTrusts, EnumerateTrusts, ScanPcTrusts,
       HashEndTrusts, DrainPutsTrusts, CommitTrusts, AbandonTrusts DEF Refuse
  <2>4. CASE \/ \E S \in SUBSET Was({"hash"}) : HashNext(S)
             \/ \E t \in Token : Finish(t)
    BY <2>4, HashNextTrusts, FinishTrusts
  <2>. QED
    BY <1>3, <2>1, <2>2, <2>3, <2>4 DEF Advance
<1>4. CASE UNCHANGED vars
  <2>. USE <1>4 DEF TInv, vars, disk, trust, tokens, round
  <2>1. Progress'
    BY DEF Progress
  <2>2. PhoneKept' <=> PhoneKept
    BY DEF PhoneKept, Trusted, Compared, Marked, About
  <2>3. PcKept'
    BY DEF PcKept, CopyKept, Noted, About
  <2>. QED
    BY <2>1, <2>2, <2>3
<1>. QED
  BY <1>1, <1>2, <1>3, <1>4 DEF Next

(* In every reachable state of a Share that is kept equal, what a folder   *)
(* has is in the round's candidate, or somebody still knows of it.         *)
THEOREM TrustInvariance ==
  Spec => [](IInv /\ UInv /\ (Mode = "Bidirectional" => TInv))
<1>1. Init => IInv /\ UInv /\ (Mode = "Bidirectional" => TInv)
  BY Initially, Starts, TrustStarts
<1>2. /\ IInv /\ UInv /\ (Mode = "Bidirectional" => TInv)
      /\ [Next]_vars
      => (IInv /\ UInv /\ (Mode = "Bidirectional" => TInv))'
  BY Inductive, UpdatesInductive, TrustInductive
<1>. QED
  BY <1>1, <1>2, PTL DEF Spec

(* ChangesRemembered: a phone whose observers miss nothing and whose token *)
(* is the PC's knows every location of its folder that differs from the    *)
(* base, so a delta that asks it leaves out none (DirtyHints, base_tokens).*)
THEOREM PhoneDeltasLeaveNothingOut == Spec => []ChangesRemembered
<1>1. (Mode = "Bidirectional" => TInv) => ChangesRemembered
  BY HintsAreAbout
  DEF TInv, PhoneKept, ChangesRemembered, PhoneRemembers, Trusted, Marked, About
<1>. QED
  BY <1>1, TrustInvariance, PTL

(* FullCommitCoversPc: when a full round commits, what the PC's folder has *)
(* and the new base does not is still noticed, hinted at or asked for,     *)
(* whatever was edited, deleted or missed since its scan.                  *)
THEOREM FullRoundsCoverPc == Spec => FullCommitCoversPc
<1>1. (Mode = "Bidirectional" => TInv) => [CommitCovers]_vars
  <2>. SUFFICES ASSUME TInv, Commit, full, NEW l \in Loc PROVE Covered(l)
    BY DEF CommitCovers
  <2>1. cand[l] = file["pc"][l] \/ Noted(l)
    BY DEF TInv, PcKept, Commit
  <2>. QED
    BY <2>1, HintsAreAbout DEF Commit, Covered, Noted
<1>. QED
  BY <1>1, TrustInvariance, PTL DEF FullCommitCoversPc

=============================================================================
