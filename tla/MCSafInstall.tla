---------------------------- MODULE MCSafInstall ----------------------------
EXTENDS SafInstall, TLC

\* Paths and identifiers are only compared, and so are the contents that no
\* write leaves behind.
Interchangeable == Permutations(Path) \cup Permutations(Id) \cup Permutations(Content \ Fragment)

=============================================================================
