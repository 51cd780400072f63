---- MODULE MCSchedule ----
(* Two Shares, visited by the audits in this order. *)
EXTENDS Schedule, TLC

CONSTANTS s1, s2

TwoShares == {s1, s2}
Order == <<s1, s2>>
NoneBroken == {}
FirstBroken == {s1}
====
