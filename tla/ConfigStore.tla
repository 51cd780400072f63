----------------------------- MODULE ConfigStore -----------------------------
(***************************************************************************)
(* The computer's configuration (.rowd/device.json) and the state of its   *)
(* Shares (.rowd/shares), written by several processes: the interface and  *)
(* the command line change the configuration under config.lock, rounds     *)
(* read both under session.lock, and importing a backup replaces both as   *)
(* one transaction with a marker file (import-transaction.json) that any   *)
(* later process finishes or undoes.  Any process may end at any step, and *)
(* power may fail.                                                         *)
(*                                                                         *)
(* Contents are named by the import that brought them (0 is what was there *)
(* before).  Losing power keeps a prefix of the changes made to .rowd since *)
(* it was last synchronized (an ordered journal of directory changes).     *)
(***************************************************************************)
EXTENDS Naturals, FiniteSets

CONSTANTS
    Writer,     \* processes that change the configuration, once each
    ImportMax,  \* imports begun
    LossMax     \* process ends and power failures, together

ConfigStoreAssumption ==
    /\ {"import", "round", "reader", "nobody"} \cap Writer = {}
    /\ ImportMax \in Nat /\ LossMax \in Nat

VARIABLES
    dir,      \* what .rowd holds now
    may,      \* what .rowd may be found to hold after losing power
    at,       \* where each process is
    copy,     \* the configuration a process has read and will save
    lock,     \* owner of config.lock
    session,  \* owner of session.lock
    done,     \* history: changes saved since the configuration was replaced
    raced,    \* history: a migration was saved over a newer configuration
    losses

vars == <<dir, may, at, copy, lock, session, done, raced, losses>>

Gen == 0..ImportMax
Content == Gen \cup {ImportMax + 1}
Missing == ImportMax + 1
Nobody == "nobody"
Process == Writer \cup {"import", "round", "reader"}
Config == [gen : Gen, changes : SUBSET Writer, legacy : BOOLEAN]
NoMarker == [gen |-> 0, had |-> FALSE]
Dir == [config : Config, state : Content, archived : [1..ImportMax -> Content],
        marker : [gen : Gen, had : BOOLEAN]]

TypeOK ==
    /\ dir \in Dir
    /\ dir \in may
    /\ at \in [Process -> {"idle", "recover", "read", "save", "marked", "moved",
                           "placed", "settle", "run"}]
    /\ copy \in [Process -> Config]
    /\ lock \in Process \cup {Nobody} /\ session \in {"import", "round", Nobody}
    /\ done \subseteq Writer /\ raced \in BOOLEAN
    /\ losses \in 0..LossMax

Begins(legacy, state) ==
    [config |-> [gen |-> 0, changes |-> {}, legacy |-> legacy], state |-> state,
     archived |-> [g \in 1..ImportMax |-> Missing], marker |-> NoMarker]

Init ==
    /\ \E legacy \in BOOLEAN, state \in {0, Missing} : dir = Begins(legacy, state)
    /\ may = {dir}
    /\ at = [q \in Process |-> "idle"]
    /\ copy = [q \in Process |-> dir.config]
    /\ lock = Nobody /\ session = Nobody
    /\ done = {} /\ raced = FALSE /\ losses = 0

-----------------------------------------------------------------------------
\* A change of the directory, and one followed by a synchronization of it.
Changed(d) == dir' = d /\ may' = may \cup {d}
Synced(d) == dir' = d /\ may' = {d}

Goes(q, place) == at' = [at EXCEPT ![q] = place]

\* The transaction's configuration was saved: it is finished, not undone.
Committed == dir.config.gen = dir.marker.gen

\* One step of recover_import, decided by what the directory holds, so that a
\* process that finds it half done goes on from there.
Recovery ==
    LET g == dir.marker.gen
    IN  IF Committed THEN [dir EXCEPT !.marker = NoMarker]
        ELSE IF dir.archived[g] # Missing
        THEN IF dir.state # Missing THEN [dir EXCEPT !.state = Missing]
             ELSE [dir EXCEPT !.state = dir.archived[g], !.archived[g] = Missing]
        ELSE IF ~dir.marker.had /\ dir.state # Missing
        THEN [dir EXCEPT !.state = Missing]
        ELSE [dir EXCEPT !.marker = NoMarker]

\* The ensure!s of recover_import: without them it would stop with an error.
Recoverable ==
    dir.marker # NoMarker =>
        /\ Committed => dir.state # Missing
        /\ (~Committed /\ dir.archived[dir.marker.gen] = Missing /\ dir.marker.had)
              => dir.state # Missing

Recover(q) ==
    /\ at[q] \in {"recover", "settle"} /\ lock = q
    /\ dir.marker # NoMarker
    /\ IF Recovery.marker = NoMarker THEN Synced(Recovery) ELSE Changed(Recovery)
    /\ UNCHANGED <<at, copy, lock, session, done, raced, losses>>

-----------------------------------------------------------------------------
(* update and update_runtime: config_guard, load, change, save.            *)

\* Mutant: the guard is not waited for.
GuardIgnored(q) == lock' = lock

Guard(q) == lock = Nobody /\ lock' = q

Lock(w) ==
    /\ at[w] = "idle" /\ w \notin done
    /\ Guard(w)
    /\ Goes(w, "recover")
    /\ UNCHANGED <<dir, may, copy, session, done, raced, losses>>

Load(w) ==
    /\ at[w] = "recover" /\ dir.marker = NoMarker
    /\ copy' = [copy EXCEPT ![w] = [dir.config EXCEPT !.legacy = FALSE]]
    /\ Goes(w, "save")
    /\ UNCHANGED <<dir, may, lock, session, done, raced, losses>>

Save(w) ==
    /\ at[w] = "save"
    /\ Synced([dir EXCEPT !.config = [copy[w] EXCEPT !.changes = @ \cup {w}]])
    /\ done' = done \cup {w}
    /\ lock' = IF lock = w THEN Nobody ELSE lock
    /\ Goes(w, "idle")
    /\ UNCHANGED <<copy, session, raced, losses>>

-----------------------------------------------------------------------------
(* DeviceConfig::load without the guard: status, responders, rounds.       *)

\* A configuration of an older version is migrated and saved by its reader.
ReadLegacy ==
    /\ at["reader"] = "idle" /\ dir.marker = NoMarker /\ dir.config.legacy
    /\ copy' = [copy EXCEPT !["reader"] = dir.config]
    /\ Goes("reader", "save")
    /\ UNCHANGED <<dir, may, lock, session, done, raced, losses>>

SaveMigrated ==
    /\ at["reader"] = "save"
    /\ Synced([dir EXCEPT !.config = [copy["reader"] EXCEPT !.legacy = FALSE]])
    /\ raced' = (raced \/ copy["reader"] # dir.config)
    /\ Goes("reader", "idle")
    /\ UNCHANGED <<copy, lock, session, done, losses>>

\* session_round: the session guard, then load.  A marker is recovered only
\* if nobody holds config.lock; otherwise the round fails.
StartRound ==
    /\ at["round"] = "idle" /\ session = Nobody
    /\ session' = "round"
    /\ Goes("round", "read")
    /\ UNCHANGED <<dir, may, copy, lock, done, raced, losses>>

RecoverFirst ==
    /\ at["round"] = "read" /\ dir.marker # NoMarker
    /\ IF lock = Nobody
       THEN lock' = "round" /\ Goes("round", "recover") /\ UNCHANGED session
       ELSE session' = Nobody /\ Goes("round", "idle") /\ UNCHANGED lock
    /\ UNCHANGED <<dir, may, copy, done, raced, losses>>

Recovered ==
    /\ at["round"] = "recover" /\ dir.marker = NoMarker
    /\ lock' = Nobody
    /\ Goes("round", "read")
    /\ UNCHANGED <<dir, may, copy, session, done, raced, losses>>

ReadForRound ==
    /\ at["round"] = "read" /\ dir.marker = NoMarker
    /\ copy' = [copy EXCEPT !["round"] = dir.config]
    /\ Goes("round", "run")
    /\ UNCHANGED <<dir, may, lock, session, done, raced, losses>>

\* The round works on the Shares' state, creating it where there is none.
EndRound ==
    /\ at["round"] = "run"
    /\ IF dir.state = Missing
       THEN Synced([dir EXCEPT !.state = copy["round"].gen])
       ELSE UNCHANGED <<dir, may>>
    /\ session' = Nobody
    /\ Goes("round", "idle")
    /\ UNCHANGED <<copy, lock, done, raced, losses>>

-----------------------------------------------------------------------------
(* import_backup.                                                          *)

Imports == Cardinality({g \in 1..ImportMax : \/ dir.marker.gen >= g
                                             \/ dir.config.gen >= g
                                             \/ copy["import"].gen >= g})

StartImport ==
    /\ at["import"] = "idle" /\ session = Nobody /\ Imports < ImportMax
    /\ lock = Nobody
    /\ session' = "import" /\ lock' = "import"
    /\ Goes("import", "recover")
    /\ UNCHANGED <<dir, may, copy, done, raced, losses>>

\* The backup's state is staged and synchronized, and the marker is written.
Mark ==
    /\ at["import"] = "recover" /\ dir.marker = NoMarker
    /\ LET g == Imports + 1
       IN  /\ Synced([dir EXCEPT !.marker = [gen |-> g, had |-> dir.state # Missing]])
           /\ copy' = [copy EXCEPT !["import"] =
                          [gen |-> g, changes |-> {}, legacy |-> FALSE]]
    /\ Goes("import", "marked")
    /\ UNCHANGED <<lock, session, done, raced, losses>>

MoveAway ==
    /\ at["import"] = "marked"
    /\ IF dir.marker.had
       THEN Changed([dir EXCEPT !.archived[dir.marker.gen] = dir.state, !.state = Missing])
       ELSE UNCHANGED <<dir, may>>
    /\ Goes("import", "moved")
    /\ UNCHANGED <<copy, lock, session, done, raced, losses>>

\* The staged state takes its place, and .rowd is synchronized.
Placed(d) == Synced(d)

Place ==
    /\ at["import"] = "moved"
    /\ Placed([dir EXCEPT !.state = dir.marker.gen])
    /\ Goes("import", "placed")
    /\ UNCHANGED <<copy, lock, session, done, raced, losses>>

SaveImported ==
    /\ at["import"] = "placed"
    /\ Synced([dir EXCEPT !.config = copy["import"]])
    /\ done' = {}
    /\ Goes("import", "settle")
    /\ UNCHANGED <<copy, lock, session, raced, losses>>

\* A step of the commit fails: what was done is undone by recover_import.
CommitFails ==
    /\ at["import"] \in {"marked", "moved", "placed"}
    /\ Goes("import", "settle")
    /\ UNCHANGED <<dir, may, copy, lock, session, done, raced, losses>>

EndImport ==
    /\ at["import"] = "settle" /\ dir.marker = NoMarker
    /\ lock' = Nobody /\ session' = Nobody
    /\ Goes("import", "idle")
    /\ UNCHANGED <<dir, may, copy, done, raced, losses>>

-----------------------------------------------------------------------------
\* A process ends: its file locks go with it.
Die(q) ==
    /\ at[q] # "idle" /\ losses < LossMax
    /\ losses' = losses + 1
    /\ Goes(q, "idle")
    /\ lock' = IF lock = q THEN Nobody ELSE lock
    /\ session' = IF session = q THEN Nobody ELSE session
    /\ UNCHANGED <<dir, may, copy, done, raced>>

PowerLoss ==
    /\ losses < LossMax
    /\ losses' = losses + 1
    /\ dir' \in may /\ may' = {dir'}
    /\ at' = [q \in Process |-> "idle"]
    /\ lock' = Nobody /\ session' = Nobody
    /\ UNCHANGED <<copy, done, raced>>

Next ==
    \/ \E w \in Writer : Lock(w) \/ Load(w) \/ Save(w)
    \/ \E q \in Process : Recover(q) \/ Die(q)
    \/ ReadLegacy \/ SaveMigrated
    \/ StartRound \/ RecoverFirst \/ Recovered \/ ReadForRound \/ EndRound
    \/ StartImport \/ Mark \/ MoveAway \/ Place \/ SaveImported
    \/ CommitFails \/ EndImport \/ PowerLoss

Spec == Init /\ [][Next]_vars

-----------------------------------------------------------------------------
\* The Shares' state is the one that belongs to the configuration, in every
\* directory a later process may find without a transaction to recover; and a
\* transaction found in progress can be recovered.
Belongs(d) ==
    d.marker = NoMarker =>
        d.state \in IF d.config.gen = 0 THEN {0, Missing} ELSE {d.config.gen}

ImportAtomic == ~raced => (\A d \in may : Belongs(d)) /\ Recoverable

\* A round works with a configuration and a state of the same import.
RoundConsistent ==
    at["round"] = "run" /\ ~raced =>
        dir.marker = NoMarker /\ Belongs([dir EXCEPT !.config.gen = copy["round"].gen])

\* A change a process was told is saved stays saved, until the user imports.
ChangesKept == ~raced => done \subseteq dir.config.changes

\* All three: the configuration and the state of the Shares stay one thing.
ConfigurationHolds == ImportAtomic /\ RoundConsistent /\ ChangesKept
=============================================================================
