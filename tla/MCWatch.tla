---- MODULE MCWatch ----
(* One Share, one path, one version the user saves and one a round installs. *)
EXTENDS WatchHints, TLC
====
