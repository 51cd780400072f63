------------------------------ MODULE MCRounds ------------------------------
(***************************************************************************)
(* TLC instances of SyncRound: one path with deletions, overflows of the   *)
(* watcher and crashes, under SyncRound's own names; and by their side one *)
(* path that only the PC changes (down) or only the phone (up), with       *)
(* deletions; one path whose changes the phone's observer may miss         *)
(* (missed); two paths in one window, with deletions (windows); a third    *)
(* version to edit with during and after a conflict (conflict). One        *)
(* behaviour is of one instance, the others wait in an initial state.      *)
(***************************************************************************)
EXTENDS SyncRound, TLC

CONSTANTS
  TwoPaths,    \* the paths of windows
  One, Three   \* the contents of windows and of conflict

VARIABLES
  instance,
  other_file, other_base, other_hint, other_noticed, other_phoneDirty,
  other_taken, other_pcToken, other_phoneToken, other_retry, other_done,
  other_phase, other_full, other_pcScan, other_phoneScan, other_cand,
  other_at, other_received, other_tok, other_held, other_over

Down == INSTANCE SyncRound WITH
  Mode <- "ToAndroid", Window <- 1, Events <- {"delete"},
  file <- other_file, base <- other_base, hint <- other_hint,
  noticed <- other_noticed, phoneDirty <- other_phoneDirty,
  taken <- other_taken, pcToken <- other_pcToken,
  phoneToken <- other_phoneToken, retry <- other_retry, done <- other_done,
  phase <- other_phase, full <- other_full, pcScan <- other_pcScan,
  phoneScan <- other_phoneScan, cand <- other_cand, at <- other_at,
  received <- other_received, tok <- other_tok, held <- other_held,
  over <- other_over

Up == INSTANCE SyncRound WITH
  Mode <- "ToPc", Window <- 2, Events <- {"delete"},
  file <- other_file, base <- other_base, hint <- other_hint,
  noticed <- other_noticed, phoneDirty <- other_phoneDirty,
  taken <- other_taken, pcToken <- other_pcToken,
  phoneToken <- other_phoneToken, retry <- other_retry, done <- other_done,
  phase <- other_phase, full <- other_full, pcScan <- other_pcScan,
  phoneScan <- other_phoneScan, cand <- other_cand, at <- other_at,
  received <- other_received, tok <- other_tok, held <- other_held,
  over <- other_over

Missed == INSTANCE SyncRound WITH
  Mode <- "Bidirectional", Window <- 1, Events <- {"delete", "miss"},
  file <- other_file, base <- other_base, hint <- other_hint,
  noticed <- other_noticed, phoneDirty <- other_phoneDirty,
  taken <- other_taken, pcToken <- other_pcToken,
  phoneToken <- other_phoneToken, retry <- other_retry, done <- other_done,
  phase <- other_phase, full <- other_full, pcScan <- other_pcScan,
  phoneScan <- other_phoneScan, cand <- other_cand, at <- other_at,
  received <- other_received, tok <- other_tok, held <- other_held,
  over <- other_over

Windows == INSTANCE SyncRound WITH
  Path <- TwoPaths, Content <- One, Mode <- "Bidirectional", Window <- 2,
  Events <- {"delete"},
  file <- other_file, base <- other_base, hint <- other_hint,
  noticed <- other_noticed, phoneDirty <- other_phoneDirty,
  taken <- other_taken, pcToken <- other_pcToken,
  phoneToken <- other_phoneToken, retry <- other_retry, done <- other_done,
  phase <- other_phase, full <- other_full, pcScan <- other_pcScan,
  phoneScan <- other_phoneScan, cand <- other_cand, at <- other_at,
  received <- other_received, tok <- other_tok, held <- other_held,
  over <- other_over

Conflict3 == INSTANCE SyncRound WITH
  Content <- Three, Mode <- "Bidirectional", Window <- 2, Events <- {},
  file <- other_file, base <- other_base, hint <- other_hint,
  noticed <- other_noticed, phoneDirty <- other_phoneDirty,
  taken <- other_taken, pcToken <- other_pcToken,
  phoneToken <- other_phoneToken, retry <- other_retry, done <- other_done,
  phase <- other_phase, full <- other_full, pcScan <- other_pcScan,
  phoneScan <- other_phoneScan, cand <- other_cand, at <- other_at,
  received <- other_received, tok <- other_tok, held <- other_held,
  over <- other_over

Interchangeable == Permutations(Content) \cup Permutations(Token)

ASSUME RoundsAssumption ==
  /\ Down!ConstantsAssumption /\ Up!ConstantsAssumption
  /\ Missed!ConstantsAssumption /\ Windows!ConstantsAssumption
  /\ Conflict3!ConstantsAssumption

\* The folders of the instances that wait.
Empty == [s \in Side |-> [l \in Loc |-> Absent]]

RoundsInit ==
  \/ instance = "mixed" /\ Init /\ Down!Init /\ other_file = Empty
  \/ instance = "down" /\ Down!Init /\ Init /\ file = Empty
  \/ instance = "up" /\ Up!Init /\ Init /\ file = Empty
  \/ instance = "missed" /\ Missed!Init /\ Init /\ file = Empty
  \/ instance = "windows" /\ Windows!Init /\ Init /\ file = Empty
  \/ instance = "conflict" /\ Conflict3!Init /\ Init /\ file = Empty

otherVars == <<
  other_file, other_base, other_hint, other_noticed, other_phoneDirty,
  other_taken, other_pcToken, other_phoneToken, other_retry, other_done,
  other_phase, other_full, other_pcScan, other_phoneScan, other_cand,
  other_at, other_received, other_tok, other_held, other_over>>

RoundsNext ==
  \/ instance = "mixed" /\ Next /\ UNCHANGED <<instance, otherVars>>
  \/ instance = "down" /\ Down!Next /\ UNCHANGED <<instance, vars>>
  \/ instance = "up" /\ Up!Next /\ UNCHANGED <<instance, vars>>
  \/ instance = "missed" /\ Missed!Next /\ UNCHANGED <<instance, vars>>
  \/ instance = "windows" /\ Windows!Next /\ UNCHANGED <<instance, vars>>
  \/ instance = "conflict" /\ Conflict3!Next /\ UNCHANGED <<instance, vars>>

roundsVars == <<instance, vars, otherVars>>

RoundsSpec == RoundsInit /\ [][RoundsNext]_roundsVars

-----------------------------------------------------------------------------
\* What SyncRound promises of its own instance holds of the others, with the
\* types of all: the base is shared, and no change the phone noticed is
\* forgotten (DirtyHints) ...
OthersSound ==
  /\ TypeOK
  /\ instance = "down" => Down!TypeOK /\ Down!BaseSound
  /\ instance = "up" => Up!TypeOK /\ Up!BaseSound
  /\ instance = "missed" => Missed!TypeOK /\ Missed!BaseSound
  /\ instance = "windows" => Windows!TypeOK /\ Windows!BaseSound /\ Windows!ChangesRemembered
  /\ instance = "conflict" => Conflict3!TypeOK /\ Conflict3!BaseSound /\ Conflict3!ChangesRemembered

\* ... no version is lost, the side that leads a one-way Share is left alone,
\* and a full round that commits leaves no path of the PC behind.
OthersKeep ==
  /\ instance = "down" => Down!KeepsVersions /\ Down!SpareLeader
  /\ instance = "up" => Up!KeepsVersions /\ Up!SpareLeader
  /\ instance = "missed" => Missed!KeepsVersions /\ Missed!CommitCovers
  /\ instance = "windows" => Windows!KeepsVersions /\ Windows!CommitCovers
  /\ instance = "conflict" => Conflict3!KeepsVersions /\ Conflict3!CommitCovers

\* One-way Shares, missed changes, windows and a third version.
OtherRoundsHold == []OthersSound /\ [][OthersKeep]_roundsVars

=============================================================================
