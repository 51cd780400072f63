--------------------------- MODULE InstallReplaces ---------------------------
(***************************************************************************)
(* install_file is a conditional replacement: through all its steps,       *)
(* crashes and recoveries it looks like one of ConditionalReplace.         *)
(***************************************************************************)
EXTENDS InstallJournal

\* Backups that recover would put back.
Displaced(p) == {i \in PendingAt(p) : backup[i] # Absent}

\* A displaced file still counts until a version is published.
Seen(p) ==
  IF target[p] # Absent \/ Displaced(p) = {}
  THEN target[p]
  ELSE backup[CHOOSE i \in Displaced(p) : TRUE]

\* A restore the user asks for counts as the user's edit.
Serving == op # Idle /\ op.restoring = Nobody

Stage ==
  IF pc = "ready" THEN "up"
  ELSE IF ~Serving THEN "down"
  ELSE IF pc \in {"confirm", "finish", "return"} THEN "done" ELSE "asked"

Job == IF Serving THEN [path |-> op.path, expected |-> op.expected, new |-> op.new] ELSE Idle

Replacement == INSTANCE ConditionalReplace
  WITH file <- [p \in Path |-> Seen(p)], open <- [p \in Path |-> handle[p] # "shut"],
       stage <- Stage, job <- Job

(* install_file replaces a file in one step, at most once and only over    *)
(* the version it was asked to replace, and reports success only if it did *)
(* (a file some program has open is the exception).                        *)
ImplementsReplacement == Replacement!Spec

(* Nor does the store itself, crashes and recoveries included, change what *)
(* counts at a path except by applying a request or restoring at the       *)
(* user's, unless somebody else interferes with a file it is replacing.    *)
StoreOnlyApplies ==
  [][Store /\ (op = Idle \/ Serving) /\ Unfinished \cap touched = {} =>
       Replacement!Apply \/ \A p \in Path : Seen(p)' = Seen(p)]_vars

=============================================================================
