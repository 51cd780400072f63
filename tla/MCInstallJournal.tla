-------------------------- MODULE MCInstallJournal --------------------------
(* TLC instance of InstallJournal. *)
EXTENDS InstallReplaces, TLC

\* Paths, contents and identifiers are only compared.
Interchangeable == Permutations(Content) \cup Permutations(Id) \cup Permutations(Path)

=============================================================================
