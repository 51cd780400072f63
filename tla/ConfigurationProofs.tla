------------------------- MODULE ConfigurationProofs -------------------------
(***************************************************************************)
(* Proofs about the configuration of the computer: what a configuration    *)
(* on disk holds whatever is interrupted, for any number of processes,     *)
(* imports, process ends and power failures (ConfigStore). The inductive   *)
(* invariant says how far an import is from the directory alone, and says  *)
(* it of every directory that losing power may leave behind: that is what  *)
(* recover_import relies on.                                               *)
(***************************************************************************)
EXTENDS ConfigStore, TLAPS, FiniteSetTheorems

-----------------------------------------------------------------------------
\* Who holds which lock, and where each process can be.
Holding ==
  /\ \A w \in Writer : at[w] \in {"idle", "recover", "save"} /\ (at[w] # "idle" => lock = w)
  /\ at["reader"] \in {"idle", "save"}
  /\ at["round"] \in {"idle", "read", "recover", "run"}
  /\ at["round"] # "idle" => session = "round"
  /\ at["round"] = "recover" => lock = "round"
  /\ at["import"] \in {"idle", "recover", "marked", "moved", "placed", "settle"}
  /\ at["import"] # "idle" => lock = "import" /\ session = "import"

\* The newest generation an import has taken.
Newest == copy["import"].gen

\* No marker, configuration or copy is of a newer generation, and an import
\* that has written its marker works on that one.
Dated ==
  /\ dir.marker = NoMarker \/ dir.marker.gen \in 1..Newest
  /\ dir.config.gen <= Newest
  /\ \A q \in Process : copy[q].gen <= Newest
  /\ at["import"] = "recover" => Newest < ImportMax
  /\ at["import"] \in {"marked", "moved", "placed"} =>
       dir.marker.gen = Newest /\ dir.marker # NoMarker

\* Marker and configuration are always synchronized: what losing power may
\* leave behind differs in the states and archives only.
Durable ==
  /\ may \subseteq Dir
  /\ \A d \in may :
       /\ d.marker = dir.marker /\ d.config = dir.config
       /\ \A g \in 1..ImportMax : g > Newest => d.archived[g] = Missing

\* How far an import is, told by the directory: it is finished but for the
\* marker, or the state to go back to is in place or archived.
InTransaction(d) ==
  LET g == d.marker.gen
  IN  IF d.config.gen = g THEN d.state = g
      ELSE /\ d.config.gen < g
           /\ d.marker.had =>
                IF d.archived[g] = Missing THEN d.state = d.config.gen
                ELSE d.archived[g] = d.config.gen
           /\ ~d.marker.had => d.archived[g] = Missing /\ d.config.gen = 0

\* What any process may find there.
Found(d) == IF d.marker = NoMarker THEN Belongs(d) ELSE InTransaction(d)

\* What the import itself relies on between its steps.
Importing ==
  /\ at["import"] \in {"marked", "moved", "placed"} => dir.config.gen < Newest
  /\ at["import"] = "marked" =>
       dir.archived[Newest] = Missing /\ (dir.marker.had <=> dir.state # Missing)
  /\ at["import"] = "moved" =>
       dir.state = Missing /\ (dir.marker.had => dir.archived[Newest] # Missing)
  /\ at["import"] = "placed" =>
       dir.state = Newest /\ (dir.marker.had => dir.archived[Newest] # Missing)

\* While no migration has raced.
Sound ==
  /\ \A d \in may : Found(d)
  /\ Importing
  /\ \A w \in Writer : at[w] = "save" =>
       /\ dir.marker = NoMarker
       /\ copy[w].gen = dir.config.gen /\ copy[w].changes = dir.config.changes
  /\ at["round"] = "run" => dir.marker = NoMarker /\ copy["round"].gen = dir.config.gen
  /\ done \subseteq dir.config.changes

IInv == TypeOK /\ Holding /\ Dated /\ Durable /\ (~raced => Sound)

-----------------------------------------------------------------------------
\* Imports counts the generations up to the newest.
LEMMA ImportsAreDated ==
  ASSUME ConfigStoreAssumption, TypeOK, Dated
  PROVE  Imports = Newest /\ Newest \in 0..ImportMax
<1>1. Newest \in 0..ImportMax
  BY DEF ConfigStoreAssumption, TypeOK, Newest, Process, Config, Gen
<1>2. dir.marker.gen \in Nat /\ dir.marker.gen <= Newest
  BY <1>1 DEF ConfigStoreAssumption, TypeOK, Dated, Dir, NoMarker, Gen
<1>3. {g \in 1..ImportMax : \/ dir.marker.gen >= g
                            \/ dir.config.gen >= g
                            \/ copy["import"].gen >= g} = 1..Newest
  BY <1>1, <1>2 DEF ConfigStoreAssumption, TypeOK, Dated, Dir, Config, Gen, Newest
<1>4. Cardinality(1..Newest) = Newest
  BY <1>1, FS_Interval
<1>. QED
  BY <1>1, <1>3, <1>4 DEF Imports

\* Waiting for config.lock changes nothing that is stored.
LEMMA LockKeeps ==
  ASSUME ConfigStoreAssumption, IInv, NEW w \in Writer, Lock(w)
  PROVE  IInv'
<1>. USE
DEF ConfigStoreAssumption, IInv, TypeOK, Holding, Lock, Guard, Goes, Process, Nobody
<1>1. TypeOK'
  BY DEF Dated, Durable, Dir, Config, Gen, Content, Missing, NoMarker, Newest
<1>2. Holding'
  OBVIOUS
<1>3. Dated'
  BY DEF Dated, Durable, Newest, NoMarker, Dir, Config, Gen
<1>4. Durable'
  BY <1>1 DEF Dated, Durable, Newest, NoMarker, Dir, Config, Gen, Content, Missing
<1>5. ASSUME ~raced' PROVE Sound'
  BY <1>5 DEF Sound, Found, Importing, InTransaction, Belongs, Dated, Durable, Newest,
    Dir, Config, Gen, Content, Missing, NoMarker
<1>. QED
  BY <1>1, <1>2, <1>3, <1>4, <1>5

\* A process that has loaded the configuration under the lock has the current one.
LEMMA LoadKeeps ==
  ASSUME ConfigStoreAssumption, IInv, NEW w \in Writer, Load(w)
  PROVE  IInv'
<1>. USE DEF ConfigStoreAssumption, IInv, TypeOK, Holding, Load, Goes, Process, Nobody
<1>1. TypeOK'
  BY DEF Dated, Durable, Dir, Config, Gen, Content, Missing, NoMarker, Newest
<1>2. Holding'
  OBVIOUS
<1>3. Dated'
  BY DEF Dated, Durable, Newest, NoMarker, Dir, Config, Gen
<1>4. Durable'
  BY <1>1 DEF Dated, Durable, Newest, NoMarker, Dir, Config, Gen, Content, Missing
<1>5. ASSUME ~raced' PROVE Sound'
  BY <1>5 DEF Sound, Found, Importing, InTransaction, Belongs, Dated, Durable, Newest,
    Dir, Config, Gen, Content, Missing, NoMarker
<1>. QED
  BY <1>1, <1>2, <1>3, <1>4, <1>5

\* and saves it with its change, whatever a reader has migrated meanwhile.
LEMMA SaveKeeps ==
  ASSUME ConfigStoreAssumption, IInv, NEW w \in Writer, Save(w)
  PROVE  IInv'
<1>1. dir \in Dir /\ copy[w] \in Config
  BY DEF IInv, TypeOK, Holding, Process, Nobody, ConfigStoreAssumption, Save, Dated, Dir,
    Gen, Config, Newest, NoMarker
<1>2. /\ may' = {dir'}
      /\ dir'.config = [gen |-> copy[w].gen, changes |-> copy[w].changes \cup {w}, legacy |-> copy[w].legacy]
      /\ dir'.state = dir.state
      /\ dir'.marker = dir.marker
      /\ dir'.archived = dir.archived
      /\ UNCHANGED copy
  BY <1>1 DEF IInv, Save, Synced, Dir, Config
<1>3. dir' \in Dir
  BY <1>1, <1>2 DEF IInv, Save, Synced, Dir, Config, Content, Gen, Missing
<1>4. TypeOK'
  BY <1>1, <1>2, <1>3
  DEF IInv, TypeOK, Holding, Process, Nobody, ConfigStoreAssumption, Save, Goes, Config
<1>5. Holding'
  BY DEF IInv, TypeOK, Holding, Process, Nobody, ConfigStoreAssumption, Save, Goes
<1>6. Newest' = Newest /\ Newest \in Nat
  BY <1>1, <1>2
  DEF IInv, TypeOK, Holding, Process, Nobody, ConfigStoreAssumption, Config, Gen, Newest
<1>7. Dated'
  BY <1>1, <1>2, <1>6
  DEF IInv, TypeOK, Holding, Process, Nobody, ConfigStoreAssumption, Save, Goes, Dated,
    Newest, NoMarker, Dir, Config, Gen
<1>8. Durable'
  BY <1>2, <1>3, <1>6 DEF IInv, TypeOK, Durable, Dir
<1>9. ASSUME ~raced' PROVE Sound'
  <2>1. /\ dir.marker = NoMarker /\ copy[w].gen = dir.config.gen
        /\ Belongs(dir)
    BY <1>9
    DEF IInv, TypeOK, Holding, Process, Nobody, ConfigStoreAssumption, Save, Sound, Found,
      Importing, Dated, Durable, Newest, Gen, Dir, Config
  <2>2. Found(dir')
    BY <1>1, <1>2, <1>6, <2>1
    DEF Found, InTransaction, Belongs, Dir, Config, Gen, Missing, NoMarker,
      ConfigStoreAssumption
  <2>3. Importing'
    BY <1>1, <1>2, <1>6, <1>9, <2>1
    DEF IInv, TypeOK, Holding, Process, Nobody, ConfigStoreAssumption, Save, Goes, Sound,
      Importing, Dir, Config
  <2>. QED
    BY <1>1, <1>2, <1>6, <1>9, <2>1, <2>2, <2>3
    DEF IInv, TypeOK, Holding, Process, Nobody, ConfigStoreAssumption, Save, Goes, Sound,
      Newest
<1>. QED
  BY <1>4, <1>5, <1>7, <1>8, <1>9 DEF IInv

\* Each step of recover_import leaves a directory from which the next goes on.
LEMMA RecoverKeeps ==
  ASSUME ConfigStoreAssumption, IInv, NEW q \in Process, Recover(q)
  PROVE  IInv'
<1>. DEFINE g == dir.marker.gen
<1>1. /\ g \in 1..ImportMax /\ g \in Nat
      /\ dir \in Dir /\ dir \in may
      /\ dir.state \in Content /\ dir.archived \in [1..ImportMax -> Content]
      /\ dir.archived[g] \in Content
      /\ dir.marker # NoMarker
  BY DEF IInv, TypeOK, Recover, Dated, Dir, Newest, Config, Gen, Process,
    ConfigStoreAssumption
<1>2. /\ dir' = Recovery
      /\ \/ may' = {dir'}
         \/ may' = may \cup {dir'}
  BY DEF Recover, Synced, Changed
<1>3. /\ dir'.config = dir.config
      /\ \/ /\ dir'.marker = NoMarker /\ dir'.state = dir.state /\ dir'.archived = dir.archived
            /\ \/ dir.config.gen = g
               \/ dir.archived[g] = Missing /\ (dir.marker.had \/ dir.state = Missing)
         \/ /\ dir'.marker = dir.marker /\ dir'.archived = dir.archived
            /\ dir'.state = Missing /\ dir.config.gen # g
            /\ dir.archived[g] # Missing \/ ~dir.marker.had
         \/ /\ dir'.marker = dir.marker /\ dir.config.gen # g
            /\ dir.archived[g] # Missing
            /\ dir'.archived = [dir.archived EXCEPT ![g] = Missing]
            /\ dir'.state = dir.archived[g]
  BY <1>1, <1>2 DEF Recovery, Committed, Dir
<1>4. dir' \in Dir
  <2>. DEFINE With(s, a, m) == [config |-> dir.config, state |-> s, archived |-> a, marker |-> m]
  <2>1. \A s \in Content, a \in [1..ImportMax -> Content], m \in [gen : Gen, had : BOOLEAN] :
          With(s, a, m) \in Dir
    BY <1>1 DEF Dir
  <2>2. /\ Missing \in Content
        /\ NoMarker \in [gen : Gen, had : BOOLEAN]
        /\ dir.marker \in [gen : Gen, had : BOOLEAN]
        /\ [dir.archived EXCEPT ![g] = Missing] \in [1..ImportMax -> Content]
    BY <1>1 DEF Dir, Content, Gen, Missing, NoMarker, ConfigStoreAssumption
  <2>3. dir' = With(dir'.state, dir'.archived, dir'.marker)
    BY <1>1, <1>2 DEF Recovery, Dir
  <2>4. /\ dir'.state \in Content /\ dir'.archived \in [1..ImportMax -> Content]
        /\ dir'.marker \in [gen : Gen, had : BOOLEAN]
    BY <1>1, <1>3, <2>2
  <2>. HIDE DEF With
  <2>. QED
    BY <2>1, <2>3, <2>4
<1>5. \A k \in 1..ImportMax : dir'.archived[k] \in {dir.archived[k], Missing}
  BY <1>1, <1>3
<1>6. TypeOK' /\ Holding' /\ Newest' = Newest
  BY <1>2, <1>4 DEF IInv, TypeOK, Holding, Recover, Newest
<1>7. Dated'
  BY <1>3, <1>6 DEF IInv, Holding, Recover, Dated
<1>8. Durable'
  <2>1. dir'.marker = dir.marker \/ may' = {dir'}
    BY <1>2, <1>3 DEF Recover, Changed, Synced
  <2>. QED
    BY <1>1, <1>2, <1>3, <1>4, <1>5, <1>6, <2>1 DEF IInv, Durable
<1>9. ASSUME ~raced' PROVE Sound'
  <2>1. Sound /\ Found(dir) /\ InTransaction(dir)
    BY <1>1, <1>9 DEF IInv, Recover, Sound, Found
  <2>2. Found(dir')
    BY <1>1, <1>3, <2>1 DEF Found, InTransaction, Belongs, Dir, Gen, Missing, NoMarker
  <2>3. Importing'
    BY <1>9 DEF IInv, Holding, Recover, Sound, Importing
  <2>. QED
    BY <1>1, <1>2, <1>3, <1>9, <2>1, <2>2, <2>3 DEF Recover, Sound
<1>. QED
  BY <1>6, <1>7, <1>8, <1>9 DEF IInv

\* Reading without the lock changes nothing that is stored.
LEMMA ReadLegacyKeeps ==
  ASSUME ConfigStoreAssumption, IInv, ReadLegacy
  PROVE  IInv'
<1>. USE DEF ConfigStoreAssumption, IInv, TypeOK, Holding, ReadLegacy, Goes, Process, Nobody
<1>1. TypeOK'
  BY DEF Dated, Durable, Dir, Config, Gen, Content, Missing, NoMarker, Newest
<1>2. Holding'
  OBVIOUS
<1>3. Dated'
  BY DEF Dated, Durable, Newest, NoMarker, Dir, Config, Gen
<1>4. Durable'
  BY <1>1 DEF Dated, Durable, Newest, NoMarker, Dir, Config, Gen, Content, Missing
<1>5. ASSUME ~raced' PROVE Sound'
  BY <1>5 DEF Sound, Found, Importing, InTransaction, Belongs, Dated, Durable, Newest,
    Dir, Config, Gen, Content, Missing, NoMarker
<1>. QED
  BY <1>1, <1>2, <1>3, <1>4, <1>5

\* Unless it raced, a migration saves the configuration that is there.
LEMMA SaveMigratedKeeps ==
  ASSUME ConfigStoreAssumption, IInv, SaveMigrated
  PROVE  IInv'
<1>1. dir \in Dir /\ copy["reader"] \in Config
  BY DEF IInv, TypeOK, Holding, Process, Nobody, ConfigStoreAssumption, SaveMigrated,
    Dated, Dir, Gen, Config, Newest, NoMarker
<1>2. /\ may' = {dir'}
      /\ dir'.config = [gen |-> copy["reader"].gen, changes |-> copy["reader"].changes, legacy |-> FALSE]
      /\ dir'.state = dir.state
      /\ dir'.marker = dir.marker
      /\ dir'.archived = dir.archived
      /\ UNCHANGED copy
  BY <1>1 DEF IInv, SaveMigrated, Synced, Dir, Config
<1>3. dir' \in Dir
  BY <1>1, <1>2 DEF IInv, SaveMigrated, Synced, Dir, Config, Content, Gen, Missing
<1>4. TypeOK'
  BY <1>1, <1>2, <1>3
  DEF IInv, TypeOK, Holding, Process, Nobody, ConfigStoreAssumption, SaveMigrated, Goes,
    Config
<1>5. Holding'
  BY DEF IInv, TypeOK, Holding, Process, Nobody, ConfigStoreAssumption, SaveMigrated, Goes
<1>6. Newest' = Newest /\ Newest \in Nat
  BY <1>1, <1>2
  DEF IInv, TypeOK, Holding, Process, Nobody, ConfigStoreAssumption, Config, Gen, Newest
<1>7. Dated'
  BY <1>1, <1>2, <1>6
  DEF IInv, TypeOK, Holding, Process, Nobody, ConfigStoreAssumption, SaveMigrated, Goes,
    Dated, Newest, NoMarker, Dir, Config, Gen
<1>8. Durable'
  BY <1>2, <1>3, <1>6 DEF IInv, TypeOK, Durable, Dir
<1>9. ASSUME ~raced' PROVE Sound'
  <2>1. /\ copy["reader"] = dir.config /\ Found(dir)
    BY <1>9
    DEF IInv, TypeOK, Holding, Process, Nobody, ConfigStoreAssumption, SaveMigrated,
      Sound, Found, Importing, Dated, Durable, Newest, Gen, Dir, Config
  <2>2. Found(dir')
    BY <1>1, <1>2, <1>6, <2>1
    DEF Found, InTransaction, Belongs, Dir, Config, Gen, Missing, NoMarker,
      ConfigStoreAssumption
  <2>3. Importing'
    BY <1>1, <1>2, <1>6, <1>9, <2>1
    DEF IInv, TypeOK, Holding, Process, Nobody, ConfigStoreAssumption, SaveMigrated, Goes,
      Sound, Importing, Dir, Config
  <2>. QED
    BY <1>1, <1>2, <1>6, <1>9, <2>1, <2>2, <2>3
    DEF IInv, TypeOK, Holding, Process, Nobody, ConfigStoreAssumption, SaveMigrated, Goes,
      Sound, Newest
<1>. QED
  BY <1>4, <1>5, <1>7, <1>8, <1>9 DEF IInv

\* A round holds session.lock, and with it keeps imports out.
LEMMA StartRoundKeeps ==
  ASSUME ConfigStoreAssumption, IInv, StartRound
  PROVE  IInv'
<1>. USE DEF ConfigStoreAssumption, IInv, TypeOK, Holding, StartRound, Goes, Process, Nobody
<1>1. TypeOK'
  BY DEF Dated, Durable, Dir, Config, Gen, Content, Missing, NoMarker, Newest
<1>2. Holding'
  OBVIOUS
<1>3. Dated'
  BY DEF Dated, Durable, Newest, NoMarker, Dir, Config, Gen
<1>4. Durable'
  BY <1>1 DEF Dated, Durable, Newest, NoMarker, Dir, Config, Gen, Content, Missing
<1>5. ASSUME ~raced' PROVE Sound'
  BY <1>5 DEF Sound, Found, Importing, InTransaction, Belongs, Dated, Durable, Newest,
    Dir, Config, Gen, Content, Missing, NoMarker
<1>. QED
  BY <1>1, <1>2, <1>3, <1>4, <1>5

\* A round that finds a marker recovers it first or gives up.
LEMMA RecoverFirstKeeps ==
  ASSUME ConfigStoreAssumption, IInv, RecoverFirst
  PROVE  IInv'
<1>1. TypeOK'
  BY DEF ConfigStoreAssumption, IInv, TypeOK, Holding, RecoverFirst, Goes, Process,
    Nobody, Dated, Durable, Dir, Config, Gen, Content, Missing, NoMarker, Newest
<1>2. Holding'
  BY DEF ConfigStoreAssumption, IInv, TypeOK, Holding, RecoverFirst, Goes, Process, Nobody
<1>3. Dated'
  BY DEF ConfigStoreAssumption, IInv, TypeOK, Holding, RecoverFirst, Goes, Process,
    Nobody, Dated, Durable, Newest, NoMarker, Dir, Config, Gen
<1>4. Durable'
  BY <1>1
  DEF ConfigStoreAssumption, IInv, TypeOK, Holding, RecoverFirst, Goes, Process, Nobody,
    Dated, Durable, Newest, NoMarker, Dir, Config, Gen, Content, Missing
<1>5. ASSUME ~raced' PROVE Sound'
  <2>1. /\ UNCHANGED <<dir, may, copy, done, raced>> /\ Sound
        /\ \A q \in Process : q # "round" => at'[q] = at[q]
        /\ at'["round"] \in {"recover", "idle"}
    BY <1>5 DEF IInv, TypeOK, RecoverFirst, Goes, Process
  <2>2. "import" \in Process /\ \A w \in Writer : w \in Process /\ w # "round"
    BY DEF Process, ConfigStoreAssumption
  <2>3. Importing'
    BY <2>1, <2>2 DEF Sound, Importing, Newest
  <2>4. (\A d \in may : Found(d))'
    BY <2>1 DEF Sound
  <2>. QED
    BY <2>1, <2>2, <2>3, <2>4 DEF Sound
<1>. QED
  BY <1>1, <1>2, <1>3, <1>4, <1>5 DEF IInv

\* and reads the configuration after that.
LEMMA RecoveredKeeps ==
  ASSUME ConfigStoreAssumption, IInv, Recovered
  PROVE  IInv'
<1>. USE DEF ConfigStoreAssumption, IInv, TypeOK, Holding, Recovered, Goes, Process, Nobody
<1>1. TypeOK'
  BY DEF Dated, Durable, Dir, Config, Gen, Content, Missing, NoMarker, Newest
<1>2. Holding'
  OBVIOUS
<1>3. Dated'
  BY DEF Dated, Durable, Newest, NoMarker, Dir, Config, Gen
<1>4. Durable'
  BY <1>1 DEF Dated, Durable, Newest, NoMarker, Dir, Config, Gen, Content, Missing
<1>5. ASSUME ~raced' PROVE Sound'
  BY <1>5 DEF Sound, Found, Importing, InTransaction, Belongs, Dated, Durable, Newest,
    Dir, Config, Gen, Content, Missing, NoMarker
<1>. QED
  BY <1>1, <1>2, <1>3, <1>4, <1>5

\* What it reads is of the same import as the state it will work on.
LEMMA ReadForRoundKeeps ==
  ASSUME ConfigStoreAssumption, IInv, ReadForRound
  PROVE  IInv'
<1>. USE
DEF ConfigStoreAssumption, IInv, TypeOK, Holding, ReadForRound, Goes, Process, Nobody
<1>1. TypeOK'
  BY DEF Dated, Durable, Dir, Config, Gen, Content, Missing, NoMarker, Newest
<1>2. Holding'
  OBVIOUS
<1>3. Dated'
  BY DEF Dated, Durable, Newest, NoMarker, Dir, Config, Gen
<1>4. Durable'
  BY <1>1 DEF Dated, Durable, Newest, NoMarker, Dir, Config, Gen, Content, Missing
<1>5. ASSUME ~raced' PROVE Sound'
  BY <1>5 DEF Sound, Found, Importing, InTransaction, Belongs, Dated, Durable, Newest,
    Dir, Config, Gen, Content, Missing, NoMarker
<1>. QED
  BY <1>1, <1>2, <1>3, <1>4, <1>5

\* A state it creates belongs to that configuration.
LEMMA EndRoundKeeps ==
  ASSUME ConfigStoreAssumption, IInv, EndRound
  PROVE  IInv'
<1>1. dir \in Dir /\ copy["round"] \in Config /\ dir \in may
  BY DEF IInv, TypeOK, Process
<1>2. /\ dir'.config = dir.config /\ dir'.marker = dir.marker /\ dir'.archived = dir.archived
      /\ \/ dir' = dir /\ may' = may
         \/ may' = {dir'} /\ dir.state = Missing /\ dir'.state = copy["round"].gen
      /\ dir' \in Dir
  BY <1>1 DEF EndRound, Synced, Dir, Config, Content
<1>3. TypeOK' /\ Holding'
  BY <1>1, <1>2
  DEF IInv, TypeOK, Holding, EndRound, Goes, Process, Nobody, ConfigStoreAssumption
<1>4. Newest' = Newest
  BY DEF EndRound, Newest
<1>5. Dated'
  BY <1>2, <1>4 DEF IInv, TypeOK, EndRound, Goes, Dated, Process
<1>6. Durable'
  BY <1>1, <1>2, <1>4 DEF IInv, Durable
<1>7. ASSUME ~raced' PROVE Sound'
  <2>1. /\ Sound /\ Found(dir)
        /\ dir.marker = NoMarker /\ copy["round"].gen = dir.config.gen
    BY <1>1, <1>7 DEF IInv, EndRound, Sound
  <2>2. Found(dir')
    BY <1>1, <1>2, <2>1 DEF Found, Belongs, Dir, Config, Gen
  <2>3. Importing'
    BY <1>7, <2>1 DEF IInv, TypeOK, Holding, EndRound, Goes, Sound, Importing, Process
  <2>. QED
    BY <1>1, <1>2, <1>7, <2>1, <2>2, <2>3 DEF IInv, TypeOK, EndRound, Goes, Sound, Process
<1>. QED
  BY <1>3, <1>5, <1>6, <1>7 DEF IInv

\* An import starts from a directory without a newer generation.
LEMMA StartImportKeeps ==
  ASSUME ConfigStoreAssumption, IInv, StartImport
  PROVE  IInv'
<1>. USE ImportsAreDated
DEF ConfigStoreAssumption, IInv, TypeOK, Holding, StartImport, Goes, Process, Nobody
<1>1. TypeOK'
  BY DEF Dated, Durable, Dir, Config, Gen, Content, Missing, NoMarker, Newest
<1>2. Holding'
  OBVIOUS
<1>3. Dated'
  BY DEF Dated, Durable, Newest, NoMarker, Dir, Config, Gen
<1>4. Durable'
  BY <1>1 DEF Dated, Durable, Newest, NoMarker, Dir, Config, Gen, Content, Missing
<1>5. ASSUME ~raced' PROVE Sound'
  BY <1>5 DEF Sound, Found, Importing, InTransaction, Belongs, Dated, Durable, Newest,
    Dir, Config, Gen, Content, Missing, NoMarker
<1>. QED
  BY <1>1, <1>2, <1>3, <1>4, <1>5

\* Its generation is a new one, for which nothing is archived yet.
LEMMA MarkKeeps ==
  ASSUME ConfigStoreAssumption, IInv, Mark
  PROVE  IInv'
<1>1. dir \in Dir /\ Newest \in Gen /\ Newest + 1 \in Gen
  BY ImportsAreDated
  DEF IInv, TypeOK, Holding, Process, Nobody, ConfigStoreAssumption, Mark, Dated, Dir,
    Gen, Config, Newest, NoMarker
<1>2. /\ may' = {dir'}
      /\ dir'.config = dir.config
      /\ dir'.state = dir.state
      /\ dir'.marker = [gen |-> Newest + 1, had |-> dir.state # Missing]
      /\ dir'.archived = dir.archived
      /\ copy' = [copy EXCEPT !["import"] = [gen |-> Newest + 1, changes |-> {}, legacy |-> FALSE]]
  BY <1>1, ImportsAreDated DEF IInv, Mark, Synced, Dir, Config
<1>3. dir' \in Dir
  BY <1>1, <1>2, ImportsAreDated DEF IInv, Mark, Synced, Dir, Config, Content, Gen, Missing
<1>4. TypeOK'
  BY <1>1, <1>2, <1>3
  DEF IInv, TypeOK, Holding, Process, Nobody, ConfigStoreAssumption, Mark, Goes, Config
<1>5. Holding'
  BY DEF IInv, TypeOK, Holding, Process, Nobody, ConfigStoreAssumption, Mark, Goes
<1>6. Newest' = Newest + 1 /\ Newest \in Nat
  BY <1>1, <1>2
  DEF IInv, TypeOK, Holding, Process, Nobody, ConfigStoreAssumption, Config, Gen, Newest
<1>7. Dated'
  BY <1>1, <1>2, <1>6
  DEF IInv, TypeOK, Holding, Process, Nobody, ConfigStoreAssumption, Mark, Goes, Dated,
    Newest, NoMarker, Dir, Config, Gen
<1>8. Durable'
  BY <1>2, <1>3, <1>6 DEF IInv, TypeOK, Durable, Dir
<1>9. ASSUME ~raced' PROVE Sound'
  <2>1. /\ dir.marker = NoMarker /\ Belongs(dir) /\ dir.config.gen <= Newest
        /\ dir.archived[Newest + 1] = Missing
    BY <1>9
    DEF IInv, TypeOK, Holding, Process, Nobody, ConfigStoreAssumption, Mark, Sound, Found,
      Importing, Dated, Durable, Newest, Gen, Dir, Config
  <2>2. Found(dir')
    <3>1. /\ dir'.marker # NoMarker /\ dir'.marker.gen = Newest + 1
          /\ dir'.config.gen < Newest + 1 /\ dir.config.gen \in Gen
          /\ dir'.archived[Newest + 1] = Missing
      BY <1>1, <1>2, <1>6, <2>1 DEF NoMarker, Dir, Config, Gen, ConfigStoreAssumption
    <3>2. IF dir.state = Missing THEN dir.config.gen = 0 ELSE dir.state = dir.config.gen
      BY <2>1, <3>1 DEF Belongs, Missing, Gen, ConfigStoreAssumption
    <3>3. dir'.marker.had = (dir.state # Missing)
      BY <1>2
    <3>4. /\ dir'.marker.had <=> dir.state # Missing
          /\ dir'.config = dir.config /\ dir'.state = dir.state
      BY <1>2, <3>3
    <3>. QED
      BY <3>1, <3>2, <3>4 DEF Found, InTransaction
  <2>3. Importing'
    <3>1. /\ at'["import"] = "marked" /\ dir'.config.gen < Newest'
          /\ dir'.archived[Newest'] = Missing
      BY <1>1, <1>2, <1>6, <2>1 DEF IInv, TypeOK, Mark, Goes, Process, Dir, Config, Gen
    <3>2. dir'.marker.had = (dir.state # Missing)
      BY <1>2
    <3>3. dir'.state = dir.state
      BY <1>2
    <3>. QED
      BY <3>1, <3>2, <3>3 DEF Importing
  <2>. QED
    BY <1>1, <1>2, <1>6, <1>9, <2>1, <2>2, <2>3
    DEF IInv, TypeOK, Holding, Process, Nobody, ConfigStoreAssumption, Mark, Goes, Sound,
      Newest
<1>. QED
  BY <1>4, <1>5, <1>7, <1>8, <1>9 DEF IInv

\* The old state is archived, under a marker that knows there was one.
LEMMA MoveAwayKeeps ==
  ASSUME ConfigStoreAssumption, IInv, MoveAway
  PROVE  IInv'
<1>. DEFINE g == dir.marker.gen
<1>1. /\ g \in 1..ImportMax /\ g = Newest /\ dir.marker # NoMarker
      /\ dir.state \in Content /\ dir.marker.had \in BOOLEAN
      /\ dir \in Dir /\ dir \in may
  BY DEF IInv, TypeOK, MoveAway, Dated, Dir, Newest, Config, Gen, NoMarker, Process,
    ConfigStoreAssumption
<1>2. CASE ~dir.marker.had
  <2>1. TypeOK' /\ Holding' /\ Dated' /\ Durable'
    BY <1>1, <1>2 DEF IInv, TypeOK, Holding, MoveAway, Goes, Process, Nobody,
      ConfigStoreAssumption, Dated, Durable, Newest
  <2>2. ASSUME ~raced' PROVE Sound'
    BY <1>1, <1>2, <2>2
    DEF IInv, TypeOK, Holding, MoveAway, Goes, Process, Sound, Importing, Newest
  <2>. QED
    BY <2>1, <2>2 DEF IInv
<1>3. CASE dir.marker.had
  <2>1. /\ may' = may \cup {dir'}
        /\ dir'.config = dir.config /\ dir'.marker = dir.marker
        /\ dir'.state = Missing
        /\ \A k \in 1..ImportMax :
             dir'.archived[k] = IF k = g THEN dir.state ELSE dir.archived[k]
        /\ dir' \in Dir
    <3>1. dir' = [config |-> dir.config, state |-> Missing, marker |-> dir.marker,
                  archived |-> [dir.archived EXCEPT ![g] = dir.state]]
      BY <1>1, <1>3 DEF MoveAway, Changed, Dir
    <3>2. /\ Missing \in Content
          /\ [dir.archived EXCEPT ![g] = dir.state] \in [1..ImportMax -> Content]
      BY <1>1 DEF Dir, Content, Missing
    <3>. QED
      BY <1>1, <1>3, <3>1, <3>2 DEF MoveAway, Changed, Dir
  <2>2. TypeOK' /\ Holding' /\ Newest' = Newest
    BY <2>1
    DEF IInv, TypeOK, Holding, MoveAway, Goes, Process, Nobody, ConfigStoreAssumption,
      Newest
  <2>3. Dated'
    BY <2>1, <2>2 DEF IInv, TypeOK, MoveAway, Goes, Dated, Process
  <2>4. Durable'
    BY <1>1, <2>1, <2>2 DEF IInv, Durable
  <2>5. ASSUME ~raced' PROVE Sound'
    <3>1. /\ Sound /\ Found(dir) /\ InTransaction(dir)
          /\ dir.archived[g] = Missing /\ dir.state # Missing /\ dir.config.gen < g
      BY <1>1, <1>3, <2>5 DEF IInv, TypeOK, Sound, Found, Importing, MoveAway
    <3>2. Found(dir') /\ dir'.archived[g] # Missing
      BY <1>1, <1>3, <2>1, <3>1 DEF Found, InTransaction, Dir, Gen
    <3>3. Importing'
      BY <1>1, <2>1, <2>2, <2>5, <3>1, <3>2
      DEF IInv, TypeOK, MoveAway, Goes, Importing, Process
    <3>. QED
      BY <1>1, <2>1, <2>2, <2>5, <3>1, <3>2, <3>3
      DEF IInv, TypeOK, Holding, MoveAway, Goes, Sound, Process
  <2>. QED
    BY <2>2, <2>3, <2>4, <2>5 DEF IInv
<1>. QED
  BY <1>1, <1>2, <1>3

\* The staged state takes its place while the old one can still be put back.
LEMMA PlaceKeeps ==
  ASSUME ConfigStoreAssumption, IInv, Place
  PROVE  IInv'
<1>1. dir \in Dir /\ dir.marker.gen \in Gen
  BY DEF IInv, TypeOK, Holding, Process, Nobody, ConfigStoreAssumption, Place, Dated, Dir,
    Gen, Config, Newest, NoMarker
<1>2. /\ may' = {dir'}
      /\ dir'.config = dir.config
      /\ dir'.state = dir.marker.gen
      /\ dir'.marker = dir.marker
      /\ dir'.archived = dir.archived
      /\ UNCHANGED copy
  BY <1>1 DEF IInv, Place, Placed, Synced, Dir, Config
<1>3. dir' \in Dir
  BY <1>1, <1>2 DEF IInv, Place, Placed, Synced, Dir, Config, Content, Gen, Missing
<1>4. TypeOK'
  BY <1>1, <1>2, <1>3
  DEF IInv, TypeOK, Holding, Process, Nobody, ConfigStoreAssumption, Place, Goes, Config
<1>5. Holding'
  BY DEF IInv, TypeOK, Holding, Process, Nobody, ConfigStoreAssumption, Place, Goes
<1>6. Newest' = Newest /\ Newest \in Nat
  BY <1>1, <1>2
  DEF IInv, TypeOK, Holding, Process, Nobody, ConfigStoreAssumption, Config, Gen, Newest
<1>7. Dated'
  BY <1>1, <1>2, <1>6
  DEF IInv, TypeOK, Holding, Process, Nobody, ConfigStoreAssumption, Place, Goes, Dated,
    Newest, NoMarker, Dir, Config, Gen
<1>8. Durable'
  BY <1>2, <1>3, <1>6 DEF IInv, TypeOK, Durable, Dir
<1>9. ASSUME ~raced' PROVE Sound'
  <2>1. /\ dir.marker # NoMarker /\ dir.marker.gen = Newest /\ InTransaction(dir)
        /\ dir.config.gen < Newest /\ dir.marker.had => dir.archived[Newest] # Missing
    BY <1>9
    DEF IInv, TypeOK, Holding, Process, Nobody, ConfigStoreAssumption, Place, Sound,
      Found, Importing, Dated, Durable, Newest, Gen, Dir, Config
  <2>2. Found(dir')
    BY <1>1, <1>2, <1>6, <2>1
    DEF Found, InTransaction, Belongs, Dir, Config, Gen, Missing, NoMarker,
      ConfigStoreAssumption
  <2>3. Importing'
    BY <1>1, <1>2, <1>6, <1>9, <2>1
    DEF IInv, TypeOK, Holding, Process, Nobody, ConfigStoreAssumption, Place, Goes, Sound,
      Importing, Dir, Config
  <2>. QED
    BY <1>1, <1>2, <1>6, <1>9, <2>1, <2>2, <2>3
    DEF IInv, TypeOK, Holding, Process, Nobody, ConfigStoreAssumption, Place, Goes, Sound,
      Newest
<1>. QED
  BY <1>4, <1>5, <1>7, <1>8, <1>9 DEF IInv

\* Saving the configuration makes the state in place the right one.
LEMMA SaveImportedKeeps ==
  ASSUME ConfigStoreAssumption, IInv, SaveImported
  PROVE  IInv'
<1>1. dir \in Dir /\ copy["import"] \in Config
  BY DEF IInv, TypeOK, Holding, Process, Nobody, ConfigStoreAssumption, SaveImported,
    Dated, Dir, Gen, Config, Newest, NoMarker
<1>2. /\ may' = {dir'}
      /\ dir'.config = copy["import"]
      /\ dir'.state = dir.state
      /\ dir'.marker = dir.marker
      /\ dir'.archived = dir.archived
      /\ UNCHANGED copy
  BY <1>1 DEF IInv, SaveImported, Synced, Dir, Config
<1>3. dir' \in Dir
  BY <1>1, <1>2 DEF IInv, SaveImported, Synced, Dir, Config, Content, Gen, Missing
<1>4. TypeOK'
  BY <1>1, <1>2, <1>3
  DEF IInv, TypeOK, Holding, Process, Nobody, ConfigStoreAssumption, SaveImported, Goes,
    Config
<1>5. Holding'
  BY DEF IInv, TypeOK, Holding, Process, Nobody, ConfigStoreAssumption, SaveImported, Goes
<1>6. Newest' = Newest /\ Newest \in Nat
  BY <1>1, <1>2
  DEF IInv, TypeOK, Holding, Process, Nobody, ConfigStoreAssumption, Config, Gen, Newest
<1>7. Dated'
  BY <1>1, <1>2, <1>6
  DEF IInv, TypeOK, Holding, Process, Nobody, ConfigStoreAssumption, SaveImported, Goes,
    Dated, Newest, NoMarker, Dir, Config, Gen
<1>8. Durable'
  BY <1>2, <1>3, <1>6 DEF IInv, TypeOK, Durable, Dir
<1>9. ASSUME ~raced' PROVE Sound'
  <2>1. /\ dir.marker # NoMarker /\ dir.marker.gen = Newest /\ dir.state = Newest
    BY <1>9
    DEF IInv, TypeOK, Holding, Process, Nobody, ConfigStoreAssumption, SaveImported,
      Sound, Found, Importing, Dated, Durable, Newest, Gen, Dir, Config
  <2>2. Found(dir')
    BY <1>1, <1>2, <1>6, <2>1
    DEF Found, InTransaction, Belongs, Dir, Config, Gen, Missing, NoMarker,
      ConfigStoreAssumption, Newest
  <2>3. Importing'
    BY <1>1, <1>2, <1>6, <1>9, <2>1
    DEF IInv, TypeOK, Holding, Process, Nobody, ConfigStoreAssumption, SaveImported, Goes,
      Sound, Importing, Dir, Config
  <2>. QED
    BY <1>1, <1>2, <1>6, <1>9, <2>1, <2>2, <2>3
    DEF IInv, TypeOK, Holding, Process, Nobody, ConfigStoreAssumption, SaveImported, Goes,
      Sound, Newest
<1>. QED
  BY <1>4, <1>5, <1>7, <1>8, <1>9 DEF IInv

\* A step that fails leaves a transaction to undo.
LEMMA CommitFailsKeeps ==
  ASSUME ConfigStoreAssumption, IInv, CommitFails
  PROVE  IInv'
<1>. USE
DEF ConfigStoreAssumption, IInv, TypeOK, Holding, CommitFails, Goes, Process, Nobody
<1>1. TypeOK'
  BY DEF Dated, Durable, Dir, Config, Gen, Content, Missing, NoMarker, Newest
<1>2. Holding'
  OBVIOUS
<1>3. Dated'
  BY DEF Dated, Durable, Newest, NoMarker, Dir, Config, Gen
<1>4. Durable'
  BY <1>1 DEF Dated, Durable, Newest, NoMarker, Dir, Config, Gen, Content, Missing
<1>5. ASSUME ~raced' PROVE Sound'
  BY <1>5 DEF Sound, Found, Importing, InTransaction, Belongs, Dated, Durable, Newest,
    Dir, Config, Gen, Content, Missing, NoMarker
<1>. QED
  BY <1>1, <1>2, <1>3, <1>4, <1>5

\* An import ends without a transaction in progress.
LEMMA EndImportKeeps ==
  ASSUME ConfigStoreAssumption, IInv, EndImport
  PROVE  IInv'
<1>. USE DEF ConfigStoreAssumption, IInv, TypeOK, Holding, EndImport, Goes, Process, Nobody
<1>1. TypeOK'
  BY DEF Dated, Durable, Dir, Config, Gen, Content, Missing, NoMarker, Newest
<1>2. Holding'
  OBVIOUS
<1>3. Dated'
  BY DEF Dated, Durable, Newest, NoMarker, Dir, Config, Gen
<1>4. Durable'
  BY <1>1 DEF Dated, Durable, Newest, NoMarker, Dir, Config, Gen, Content, Missing
<1>5. ASSUME ~raced' PROVE Sound'
  BY <1>5 DEF Sound, Found, Importing, InTransaction, Belongs, Dated, Durable, Newest,
    Dir, Config, Gen, Content, Missing, NoMarker
<1>. QED
  BY <1>1, <1>2, <1>3, <1>4, <1>5

\* A process that ends lets its locks go and leaves the directory as it is.
LEMMA DieKeeps ==
  ASSUME ConfigStoreAssumption, IInv, NEW q \in Process, Die(q)
  PROVE  IInv'
<1>. USE DEF ConfigStoreAssumption, IInv, TypeOK, Holding, Die, Goes, Process, Nobody
<1>1. TypeOK'
  BY DEF Dated, Durable, Dir, Config, Gen, Content, Missing, NoMarker, Newest
<1>2. Holding'
  OBVIOUS
<1>3. Dated'
  BY DEF Dated, Durable, Newest, NoMarker, Dir, Config, Gen
<1>4. Durable'
  BY <1>1 DEF Dated, Durable, Newest, NoMarker, Dir, Config, Gen, Content, Missing
<1>5. ASSUME ~raced' PROVE Sound'
  BY <1>5 DEF Sound, Found, Importing, InTransaction, Belongs, Dated, Durable, Newest,
    Dir, Config, Gen, Content, Missing, NoMarker
<1>. QED
  BY <1>1, <1>2, <1>3, <1>4, <1>5

\* Any directory that power may leave behind is as good as the current one.
LEMMA PowerLossKeeps ==
  ASSUME ConfigStoreAssumption, IInv, PowerLoss
  PROVE  IInv'
<1>1. TypeOK'
  BY DEF ConfigStoreAssumption, IInv, TypeOK, Holding, PowerLoss, Goes, Process, Nobody,
    Dated, Durable, Dir, Config, Gen, Content, Missing, NoMarker, Newest
<1>2. Holding'
  BY DEF ConfigStoreAssumption, IInv, TypeOK, Holding, PowerLoss, Goes, Process, Nobody
<1>3. Dated'
  BY DEF ConfigStoreAssumption, IInv, TypeOK, Holding, PowerLoss, Goes, Process, Nobody,
    Dated, Durable, Newest, NoMarker, Dir, Config, Gen
<1>4. Durable'
  BY <1>1
  DEF ConfigStoreAssumption, IInv, TypeOK, Holding, PowerLoss, Goes, Process, Nobody,
    Dated, Durable, Newest, NoMarker, Dir, Config, Gen, Content, Missing
<1>5. ASSUME ~raced' PROVE Sound'
  <2>1. /\ dir' \in may /\ may' = {dir'} /\ UNCHANGED <<copy, done, raced>> /\ Sound
        /\ dir'.config = dir.config
        /\ \A q \in Process : at'[q] = "idle"
    BY <1>5 DEF IInv, PowerLoss, Durable
  <2>2. {"import", "round"} \cup Writer \subseteq Process
    BY DEF Process
  <2>3. Importing'
    BY <2>1, <2>2 DEF Importing
  <2>. QED
    BY <2>1, <2>2, <2>3 DEF Sound
<1>. QED
  BY <1>1, <1>2, <1>3, <1>4, <1>5 DEF IInv

-----------------------------------------------------------------------------
\* A fresh directory, with or without Shares.
LEMMA StartHolds == ConfigStoreAssumption /\ Init => IInv
<1>. SUFFICES ASSUME ConfigStoreAssumption, Init
     PROVE  IInv
  OBVIOUS
<1>. PICK legacy \in BOOLEAN, state \in {0, Missing} : dir = Begins(legacy, state)
  BY DEF Init
<1>1. /\ dir \in Dir /\ may = {dir} /\ dir.marker = NoMarker /\ dir.state \in {0, Missing}
      /\ dir.config = [gen |-> 0, changes |-> {}, legacy |-> legacy]
      /\ \A g \in 1..ImportMax : dir.archived[g] = Missing
  <2>1. /\ may = {dir} /\ dir.marker = NoMarker /\ dir.state = state
        /\ dir.config = [gen |-> 0, changes |-> {}, legacy |-> legacy]
        /\ \A g \in 1..ImportMax : dir.archived[g] = Missing
    BY DEF Init, Begins
  <2>2. /\ [gen |-> 0, changes |-> {}, legacy |-> legacy] \in Config
        /\ state \in Content /\ NoMarker \in [gen : Gen, had : BOOLEAN]
        /\ [g \in 1..ImportMax |-> Missing] \in [1..ImportMax -> Content]
    BY DEF Config, Content, Gen, Missing, NoMarker, ConfigStoreAssumption
  <2>3. dir \in Dir
    BY <2>2 DEF Begins, Dir
  <2>. QED
    BY <2>1, <2>3
<1>2. TypeOK /\ Holding
  <2>1. dir.config \in Config
    BY <1>1 DEF Dir
  <2>2. /\ at = [q \in Process |-> "idle"] /\ copy = [q \in Process |-> dir.config]
        /\ lock = Nobody /\ session = Nobody /\ done = {} /\ raced = FALSE /\ losses = 0
    BY DEF Init
  <2>3. TypeOK
    <3>1. raced \in BOOLEAN
      BY <2>2
    <3>2. copy \in [Process -> Config]
      BY <2>1, <2>2
    <3>3. losses \in 0..LossMax
      BY <2>2 DEF ConfigStoreAssumption
    <3>. QED
      BY <1>1, <2>2, <3>1, <3>2, <3>3 DEF TypeOK
  <2>4. Holding
    BY <2>2 DEF Holding, Process, Nobody
  <2>. QED
    BY <2>3, <2>4
<1>3. Dated
  BY <1>1 DEF Init, Dated, Newest, Process
<1>4. Durable
  BY <1>1 DEF Durable
<1>5. Sound
  BY <1>1 DEF Init, Sound, Found, Belongs, Importing, Process
<1>. QED
  BY <1>2, <1>3, <1>4, <1>5 DEF IInv

\* Every step keeps it.
LEMMA NextKeeps ==
  ASSUME ConfigStoreAssumption, IInv, [Next]_vars
  PROVE  IInv'
<1>1. CASE UNCHANGED vars
  BY <1>1 DEF vars, IInv, TypeOK, Holding, Dated, Newest, Durable, Sound, Importing, Found,
    Belongs, InTransaction
<1>2. CASE Next
  BY <1>2, LockKeeps, LoadKeeps, SaveKeeps, RecoverKeeps, ReadLegacyKeeps,
    SaveMigratedKeeps, StartRoundKeeps, RecoverFirstKeeps, RecoveredKeeps,
    ReadForRoundKeeps, EndRoundKeeps, StartImportKeeps, MarkKeeps, MoveAwayKeeps,
    PlaceKeeps, SaveImportedKeeps, CommitFailsKeeps, EndImportKeeps, DieKeeps,
    PowerLossKeeps
  DEF Next
<1>. QED
  BY <1>1, <1>2

\* What the runs check follows from it.
LEMMA InvariantHolds == ConfigStoreAssumption /\ IInv => ConfigurationHolds
<1>. SUFFICES ASSUME ConfigStoreAssumption, IInv, ~raced
     PROVE  /\ (\A d \in may : Belongs(d)) /\ Recoverable
            /\ at["round"] = "run" =>
                 /\ dir.marker = NoMarker
                 /\ Belongs([dir EXCEPT !.config.gen = copy["round"].gen])
            /\ done \subseteq dir.config.changes
  BY DEF ConfigurationHolds, ImportAtomic, RoundConsistent, ChangesKept
<1>1. Sound /\ dir \in may /\ dir \in Dir
  BY DEF IInv, TypeOK
<1>2. \A d \in may : Belongs(d)
  BY <1>1 DEF Sound, Found, Belongs
<1>3. Recoverable
  BY <1>1 DEF IInv, Dated, Sound, Found, InTransaction, Recoverable, Committed,
    Dir, Config, Gen, Missing, NoMarker, ConfigStoreAssumption
<1>4. at["round"] = "run" => [dir EXCEPT !.config.gen = copy["round"].gen] = dir
  BY <1>1 DEF Sound, Dir, Config
<1>. QED
  BY <1>1, <1>2, <1>3, <1>4 DEF Sound

(* The inductive invariant holds of every behaviour.                       *)
THEOREM StoreInvariance ==
  ASSUME ConfigStoreAssumption
  PROVE  Spec => []IInv
<1>1. Init => IInv
  BY StartHolds
<1>2. IInv /\ [Next]_vars => IInv'
  BY NextKeeps
<1>. QED
  BY <1>1, <1>2, PTL DEF Spec

(* Types of the directory, the processes and the locks.                    *)
THEOREM StoreTypes ==
  ASSUME ConfigStoreAssumption
  PROVE  Spec => []TypeOK
<1>1. IInv => TypeOK
  BY DEF IInv
<1>. QED
  BY <1>1, StoreInvariance, PTL

(* Unless a migration raced (see ChangesKept), importing a backup replaces *)
(* configuration and state as one, whatever ends in between; a round works *)
(* with both of the same import; and a change that was saved stays.        *)
THEOREM ImportsAreAtomic ==
  ASSUME ConfigStoreAssumption
  PROVE  Spec => []ConfigurationHolds
<1>1. IInv => ConfigurationHolds
  BY InvariantHolds
<1>. QED
  BY <1>1, StoreInvariance, PTL

=============================================================================
