---------------------------- MODULE MCSyncRound ----------------------------
(* Instances of SyncRound for TLC.                                         *)
EXTENDS SyncRound, TLC

Interchangeable ==
  Permutations(Path) \cup Permutations(Content) \cup Permutations(Token)

=============================================================================
