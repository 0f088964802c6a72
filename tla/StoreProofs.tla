----------------------------- MODULE StoreProofs -----------------------------
(***************************************************************************)
(* The local store, for every value of the bounds: the permits of its read *)
(* pool, the user's words through migration, repair and damage, the bodies *)
(* of the cache, and what a window shows of what is stored.                *)
(***************************************************************************)
EXTENDS ReadPool, StoreOpen, BodyCache, EventStream, FiniteSetTheorems, TLAPS

-----------------------------------------------------------------------------
(***************************************************************************)
(* The read pool, for every number of readers and every size of the pool.  *)
(* With the types the balance is inductive: every step moves a connection  *)
(* between the readers, the idle pool and the semaphore.                   *)
(***************************************************************************)
Reading == {r \in Readers : reader[r] = "reading"}

PoolTypes == /\ available \in Nat /\ idle \in Nat /\ Cardinality(Reading) \in Nat
             /\ reader \in [Readers -> {"away", "acquiring", "reading"}]

PoolInv == PoolTypes /\ PermitsBalance

\* The initial states satisfy the invariant.
LEMMA PoolInvInit == PoolInit => PoolInv
  <1> SUFFICES ASSUME PoolInit PROVE PoolInv OBVIOUS
  <1>1. Reading = {} BY DEF PoolInit, Reading
  <1>2. Cardinality(Reading) = 0 BY <1>1, FS_EmptySet
  <1> QED BY <1>2, PoolAssumption DEF PoolInit, PoolInv, PoolTypes, PermitsBalance, Reading

\* The readers are finitely many.
LEMMA ReadingFinite == IsFiniteSet(Reading)
  BY PoolAssumption, FS_Subset, Reading \in SUBSET Readers DEF Reading

\* A reader that starts to read.
LEMMA ReadingGrows ==
    ASSUME PoolInv, NEW r \in Readers, reader[r] # "reading",
           reader' = [reader EXCEPT ![r] = "reading"]
    PROVE  Cardinality(Reading') = Cardinality(Reading) + 1
  <1>1. Reading' = Reading \cup {r} BY DEF PoolInv, PoolTypes, Reading
  <1>2. r \notin Reading BY DEF Reading
  <1> QED BY <1>1, <1>2, ReadingFinite, FS_AddElement

\* A reader that gives its connection back.
LEMMA ReadingShrinks ==
    ASSUME PoolInv, NEW r \in Readers, reader[r] = "reading",
           reader' = [reader EXCEPT ![r] = "away"]
    PROVE  Cardinality(Reading') = Cardinality(Reading) - 1 /\ Cardinality(Reading') \in Nat
  <1>1. Reading' = Reading \ {r} BY DEF PoolInv, PoolTypes, Reading
  <1>2. r \in Reading BY DEF Reading
  <1>3. IsFiniteSet(Reading \ {r}) /\ Cardinality(Reading \ {r}) = Cardinality(Reading) - 1
    BY <1>2, ReadingFinite, FS_RemoveElement
  <1>4. Cardinality(Reading \ {r}) \in Nat BY <1>3, FS_CardinalityType
  <1> QED BY <1>1, <1>3, <1>4

\* Every step keeps the invariant.
LEMMA PoolInvStep == PoolInv /\ [PoolNext]_poolVars => PoolInv'
  <1> SUFFICES ASSUME PoolInv, [PoolNext]_poolVars PROVE PoolInv' OBVIOUS
  <1> DEFINE Balance == idle + Cardinality(Reading) + available = MAX_READ_CONNECTIONS
  <1>0. (PermitsBalance <=> Balance) /\ (PermitsBalance' <=> Balance') BY DEF PermitsBalance, Reading
  <1> DEFINE reading == Cardinality(Reading)
             States == [Readers -> {"away", "acquiring", "reading"}]
  <1>a. /\ available \in Nat /\ idle \in Nat /\ reading \in Nat /\ reader \in States
        /\ MAX_READ_CONNECTIONS \in Nat /\ idle + reading + available = MAX_READ_CONNECTIONS
    BY <1>0, PoolAssumption DEF PoolInv, PoolTypes
  <1>b. ASSUME reader' \in States, available' \in Nat, idle' \in Nat, reading' \in Nat,
               idle' + reading' + available' = MAX_READ_CONNECTIONS
        PROVE  PoolInv'
    BY <1>0, <1>b DEF PoolInv, PoolTypes
  <1> HIDE DEF reading
  <1>1. CASE UNCHANGED poolVars
    <2>1. reading' = reading BY <1>1 DEF poolVars, Reading, reading
    <2> QED BY <1>a, <1>b, <1>1, <2>1 DEF poolVars
  <1>2. ASSUME NEW r \in Readers, Checkout(r) PROVE PoolInv'
    <2>1. CASE idle > 0
      <3>1. reading' = reading + 1 BY <1>2, <2>1, ReadingGrows DEF Checkout, reading
      <3> QED BY <1>a, <1>b, <1>2, <2>1, <3>1 DEF Checkout
    <2>2. CASE idle = 0
      <3>1. Reading' = Reading BY <1>2, <1>a, <2>2 DEF Checkout, Reading
      <3>2. reading' = reading BY <3>1 DEF reading
      <3> QED BY <1>a, <1>b, <1>2, <2>2, <3>2 DEF Checkout
    <2> QED BY <1>a, <2>1, <2>2
  <1>3. ASSUME NEW r \in Readers, AcquireReader(r) PROVE PoolInv'
    <2>1. reading' = reading + 1 BY <1>3, ReadingGrows DEF AcquireReader, reading
    <2> QED BY <1>a, <1>b, <1>3, <2>1 DEF AcquireReader
  <1>4. ASSUME NEW r \in Readers, FailOpen(r) PROVE PoolInv'
    <2>1. Reading' = Reading BY <1>4, <1>a DEF FailOpen, Reading
    <2>2. reading' = reading BY <2>1 DEF reading
    <2> QED BY <1>a, <1>b, <1>4, <2>2 DEF FailOpen
  <1>5. ASSUME NEW r \in Readers, Return(r) PROVE PoolInv'
    <2>1. reading' = reading - 1 /\ reading' \in Nat
      BY <1>5, ReadingShrinks DEF Return, reading
    <2> QED BY <1>a, <1>b, <1>5, <2>1 DEF Return
  <1>6. CASE ClearPool
    <2>1. Reading' = Reading BY <1>6 DEF ClearPool, Reading
    <2>2. reading' = reading BY <2>1 DEF reading
    <2> QED BY <1>a, <1>b, <1>6, <2>2 DEF ClearPool
  <1> QED BY <1>1, <1>2, <1>3, <1>4, <1>5, <1>6 DEF PoolNext

\* The semaphore is a peak bound: connections in use, connections idle and free
\* permits always add up to MAX_READ_CONNECTIONS, whatever opens failed and
\* whenever the pool was cleared (store.rs ConnectionSemaphore, Drop for
\* ReadConnection).
THEOREM PermitsAlwaysBalance == PoolSpec => []PermitsBalance
  BY PoolInvInit, PoolInvStep, PTL DEF PoolInv, PoolSpec

-----------------------------------------------------------------------------
(***************************************************************************)
(* Opening the database.  The salvage is in hand only between its read and *)
(* the restore; until the quarantine it is a copy of the file's log, from  *)
(* then on it is retained with the quarantined file.  A word that is not   *)
(* excused is in the file's log or in the salvage.                         *)
(***************************************************************************)
Repairing == {"rebuild", "rebuild stamp", "restore"}

StoreTypes ==
    /\ file \in [there : BOOLEAN, version : Nat, log : SUBSET (NewWords \cup {"old", "alone"}),
                 pins : SUBSET PinKinds, health : {"sound", "damaged", "unreadable"}]
    /\ salvaged.rows \subseteq NewWords \cup {"old", "alone"}
    /\ unsent \subseteq NewWords \cup {"old", "alone"}

SalvageInHand ==
    /\ opening = "quarantine" => /\ salvaged.rows \subseteq file.log
                                 /\ file.log \subseteq salvaged.rows \cup excused
    /\ opening \in Repairing => salvaged.rows \subseteq kept
    /\ opening \notin Repairing \cup {"quarantine"} => salvaged.rows = {}
    /\ opening \in {"rebuild", "stamp", "rebuild stamp"} => file.log = {} /\ file.pins = {}

NoFileIsEmpty ==
    /\ ~file.there => file.log = {} /\ file.pins = {}
    /\ opening \in {"stamp", "rebuild stamp", "restore", "open"} => file.there

WordsInLog == \A op \in unsent \ excused : op \in file.log \cup salvaged.rows \/ op = "alone"

StoreInv == StoreTypes /\ SalvageInHand /\ NoFileIsEmpty /\ WordsInLog /\ WordsSurvive

\* The initial states satisfy the invariant.
LEMMA StoreInvInit == StoreInit => StoreInv
  <1> SUFFICES ASSUME StoreInit PROVE StoreInv OBVIOUS
  <1>1. PICK v \in {0, 4, 6, 7} :
            file = [there |-> TRUE, version |-> v, log |-> {"old"},
                    pins |-> IF v < 5 THEN PinKinds ELSE {}, health |-> "sound"]
    BY DEF StoreInit
  <1>2. /\ salvaged.rows = {} /\ opening = "down" /\ excused = {}
        /\ unsent = {"old"} \cup (IF v < 5 THEN {"alone"} ELSE {})
    BY <1>1 DEF StoreInit, EmptySalvage
  <1>3. StoreTypes BY <1>1, <1>2 DEF StoreTypes
  <1>4. SalvageInHand /\ WordsInLog BY <1>1, <1>2 DEF SalvageInHand, WordsInLog, Repairing
  <1>5. NoFileIsEmpty BY <1>1 DEF NoFileIsEmpty
  <1>6. WordsSurvive BY <1>1, <1>2 DEF WordsSurvive, PinKinds
  <1> QED BY <1>3, <1>4, <1>5, <1>6 DEF StoreInv

\* A step that leaves the words where they are.
LEMMA StillStoreKeeps ==
    ASSUME StoreInv, UNCHANGED <<file, kept, salvaged, unsent, excused>>,
           opening' = opening \/ (opening' \in {"down", "salvage", "refused", "schema", "open"}
                                  /\ salvaged.rows = {} /\ (opening' = "open" => file.there))
    PROVE  StoreInv'
  BY DEF StoreInv, StoreTypes, SalvageInHand, NoFileIsEmpty, WordsInLog, WordsSurvive, Repairing

\* The salvage, and the quarantine that makes it the only copy outside the retained file.
LEMMA SalvageKeeps == ASSUME StoreInv, Salvage PROVE StoreInv'
  <1>1. /\ opening = "salvage" /\ opening' = "quarantine" /\ UNCHANGED <<file, kept, unsent>>
        /\ excused' = (excused \cup (IF file.health = "unreadable" THEN file.log ELSE {}))
    BY DEF Salvage
  <1>2. salvaged'.rows = IF file.there /\ file.health # "unreadable" THEN file.log ELSE {}
    BY DEF Salvage, SalvageLog
  <1>3. salvaged.rows = {} BY <1>1 DEF StoreInv, SalvageInHand, Repairing
  <1>4. salvaged'.rows \subseteq file.log /\ file.log \subseteq salvaged'.rows \cup excused'
    BY <1>1, <1>2 DEF StoreInv, NoFileIsEmpty
  <1> QED BY <1>1, <1>3, <1>4 DEF StoreInv, StoreTypes, SalvageInHand, NoFileIsEmpty, WordsInLog,
                                  WordsSurvive, Repairing

\* The damaged file is moved away: its log is in hand and retained.
LEMMA QuarantineKeeps == ASSUME StoreInv, Quarantine PROVE StoreInv'
  <1>1. /\ opening = "quarantine" /\ opening' = "rebuild" /\ UNCHANGED <<salvaged, unsent, excused>>
        /\ kept' = (kept \cup file.log \cup file.pins)
    BY DEF Quarantine, Retained
  <1>2. file' = NoFile /\ file'.log = {} /\ file'.pins = {} BY DEF Quarantine, NoFile
  <1>3. StoreTypes' BY <1>1, <1>2 DEF StoreInv, StoreTypes, NoFile
  <1>4. SalvageInHand' /\ WordsInLog' /\ WordsSurvive'
    BY <1>1, <1>2 DEF StoreInv, SalvageInHand, WordsInLog, WordsSurvive, Repairing
  <1>5. NoFileIsEmpty' BY <1>1, <1>2 DEF NoFileIsEmpty
  <1> QED BY <1>3, <1>4, <1>5 DEF StoreInv

\* The file with the same words in it.
LEMMA SameWordsKeep ==
    ASSUME StoreInv, UNCHANGED <<kept, salvaged, unsent, excused>>,
           file' \in [there : BOOLEAN, version : Nat, log : SUBSET (NewWords \cup {"old", "alone"}),
                      pins : SUBSET PinKinds, health : {"sound", "damaged", "unreadable"}],
           file'.log = file.log, file'.pins = file.pins,
           file.there \/ opening' # opening => file'.there,
           \/ opening' = opening
           \/ opening = "schema" /\ opening' = "stamp" /\ file.log = {} /\ file.pins = {}
           \/ opening = "rebuild" /\ opening' = "rebuild stamp"
           \/ opening = "stamp" /\ opening' = "open"
           \/ opening = "rebuild stamp" /\ opening' = "restore"
    PROVE  StoreInv'
  BY DEF StoreInv, StoreTypes, SalvageInHand, NoFileIsEmpty, WordsInLog, WordsSurvive, Repairing

\* The steps that rewrite the file but not the words in it.
LEMMA FileStepsKeep == ASSUME StoreInv, InitSchema \/ Stamp \/ Damage PROVE StoreInv'
  <1> DEFINE Files == [there : BOOLEAN, version : Nat, log : SUBSET (NewWords \cup {"old", "alone"}),
                       pins : SUBSET PinKinds, health : {"sound", "damaged", "unreadable"}]
  <1>0. file \in Files BY DEF StoreInv, StoreTypes
  <1>1. UNCHANGED <<kept, salvaged, unsent, excused>> BY DEF InitSchema, Stamp, Damage
  <1>2. CASE InitSchema
    <2>1. file.log = {} /\ file.pins = {} BY <1>2 DEF InitSchema, StoreInv, NoFileIsEmpty
    <2>2. file' = [there |-> TRUE, version |-> 0, log |-> {}, pins |-> {}, health |-> "sound"]
      BY <1>2 DEF InitSchema, NoFile
    <2>3. file' \in Files BY <2>2
    <2>4. file'.log = {} /\ file'.pins = {} /\ file'.there BY <2>2
    <2>5. \/ opening = "schema" /\ opening' = "stamp"
          \/ opening = "rebuild" /\ opening' = "rebuild stamp"
      BY <1>2 DEF InitSchema
    <2> QED BY <1>1, <2>1, <2>3, <2>4, <2>5, SameWordsKeep
  <1>3. CASE Stamp
    <2>1. file' = [file EXCEPT !.version = SCHEMA_VERSION] /\ SCHEMA_VERSION \in Nat
      BY <1>3 DEF Stamp, SCHEMA_VERSION
    <2>2. /\ file' \in Files /\ file'.log = file.log /\ file'.pins = file.pins
          /\ file'.there = file.there
      BY <1>0, <2>1
    <2>3. file.there BY <1>3 DEF Stamp, StoreInv, NoFileIsEmpty
    <2>4. \/ opening = "stamp" /\ opening' = "open"
          \/ opening = "rebuild stamp" /\ opening' = "restore"
      BY <1>3 DEF Stamp
    <2> QED BY <1>1, <2>2, <2>3, <2>4, SameWordsKeep
  <1>4. CASE Damage
    <2>1. PICK h \in {"damaged", "unreadable"} : file' = [file EXCEPT !.health = h]
      BY <1>4 DEF Damage
    <2>2. /\ file' \in Files /\ file'.log = file.log /\ file'.pins = file.pins
          /\ file.there => file'.there
      BY <1>0, <2>1
    <2>3. opening' = opening BY <1>4 DEF Damage
    <2> QED BY <1>1, <2>2, <2>3, SameWordsKeep
  <1> QED BY <1>2, <1>3, <1>4

\* A migration: the pins that migration 5 drops hold no word of their own.
LEMMA MigrateKeeps == ASSUME StoreInv, Migrate PROVE StoreInv'
  <1> DEFINE Words == NewWords \cup {"old", "alone"}
             Files == [there : BOOLEAN, version : Nat, log : SUBSET Words,
                       pins : SUBSET PinKinds, health : {"sound", "damaged", "unreadable"}]
             next == ApplyMigration(file, file.version + 1)
  <1>0. file \in Files /\ file.version + 1 \in Nat BY DEF StoreInv, StoreTypes
  <1>1. /\ UNCHANGED <<kept, salvaged, opening, unsent, excused>>
        /\ file' = [next EXCEPT !.version = file.version + 1] /\ file.there /\ opening = "schema"
    BY DEF Migrate
  <1>2. /\ next \in Files /\ next.there = file.there
        /\ file.log \subseteq next.log
        /\ \A p \in file.pins : p = "alone" => p \in next.log \cup next.pins
    <2>1. CASE file.version + 1 = 5
      <3>1. next = [file EXCEPT !.pins = {}, !.log = file.log \cup {p \in file.pins : p = "alone"}]
        BY <2>1 DEF ApplyMigration, ReconcileDebris
      <3> QED BY <1>0, <3>1
    <2>2. CASE file.version + 1 # 5 BY <1>0, <2>2 DEF ApplyMigration
    <2> QED BY <2>1, <2>2
  <1> HIDE DEF next
  <1>3. /\ file' \in Files /\ file'.log = next.log /\ file'.pins = next.pins
        /\ file'.there = file.there
    BY <1>0, <1>1, <1>2
  <1>4. \A op \in unsent : op \in file.pins => op = "alone"
    BY <1>0, WordsAssumption DEF StoreInv, StoreTypes, PinKinds
  <1>5. unsent \subseteq file'.log \cup file'.pins \cup salvaged.rows \cup kept
    BY <1>2, <1>3, <1>4 DEF StoreInv, WordsSurvive
  <1>6. StoreTypes' BY <1>1, <1>3 DEF StoreInv, StoreTypes
  <1>7. SalvageInHand' BY <1>1 DEF StoreInv, SalvageInHand, Repairing
  <1>8. NoFileIsEmpty' BY <1>1, <1>3 DEF NoFileIsEmpty
  <1>9. WordsInLog' BY <1>1, <1>2, <1>3 DEF StoreInv, WordsInLog
  <1>10. WordsSurvive' BY <1>1, <1>5 DEF WordsSurvive
  <1> QED BY <1>6, <1>7, <1>8, <1>9, <1>10 DEF StoreInv

\* The log of the file changes with the words it stands for.
LEMMA LogStepsKeep ==
    ASSUME StoreInv, Restore \/ (\E op \in NewWords : AppendToLog(op))
                     \/ (\E op \in NewWords \cup {"old", "alone"} : AcknowledgeFromLog(op))
    PROVE  StoreInv'
  <1> DEFINE Words == NewWords \cup {"old", "alone"}
             Files == [there : BOOLEAN, version : Nat, log : SUBSET Words,
                       pins : SUBSET PinKinds, health : {"sound", "damaged", "unreadable"}]
  <1>0. file \in Files /\ salvaged.rows \subseteq Words /\ unsent \subseteq Words
    BY DEF StoreInv, StoreTypes
  <1>1. CASE Restore
    <2>1. /\ file' = [file EXCEPT !.log = @ \cup salvaged.rows] /\ opening' = "open"
          /\ salvaged'.rows = {} /\ UNCHANGED <<kept, unsent, excused>>
      BY <1>1 DEF Restore, EmptySalvage
    <2>2. /\ file' \in Files /\ file'.log = file.log \cup salvaged.rows /\ file'.pins = file.pins
          /\ file'.there = file.there
      BY <1>0, <2>1
    <2>3. StoreTypes' BY <1>0, <2>1, <2>2 DEF StoreTypes
    <2>4. SalvageInHand' /\ WordsInLog' /\ WordsSurvive'
      BY <2>1, <2>2 DEF StoreInv, SalvageInHand, WordsInLog, WordsSurvive, Repairing
    <2>5. NoFileIsEmpty' BY <1>1, <2>1, <2>2 DEF NoFileIsEmpty, StoreInv, Restore
    <2> QED BY <2>3, <2>4, <2>5 DEF StoreInv
  <1>2. ASSUME NEW op \in NewWords, AppendToLog(op) PROVE StoreInv'
    <2>1. /\ file' = [file EXCEPT !.log = @ \cup {op}] /\ opening = "open" /\ opening' = "open"
          /\ unsent' = (unsent \cup {op}) /\ UNCHANGED <<kept, salvaged, excused>>
      BY <1>2 DEF AppendToLog
    <2>2. /\ file' \in Files /\ file'.log = file.log \cup {op} /\ file'.pins = file.pins
          /\ file'.there = file.there
      BY <1>0, <2>1
    <2>3. StoreTypes' BY <1>0, <2>1, <2>2 DEF StoreTypes
    <2>4. SalvageInHand' /\ WordsInLog' /\ WordsSurvive'
      BY <2>1, <2>2 DEF StoreInv, SalvageInHand, WordsInLog, WordsSurvive, Repairing
    <2>5. NoFileIsEmpty' BY <2>1, <2>2 DEF StoreInv, NoFileIsEmpty
    <2> QED BY <2>3, <2>4, <2>5 DEF StoreInv
  <1>3. ASSUME NEW op \in Words, AcknowledgeFromLog(op) PROVE StoreInv'
    <2>1. /\ file' = [file EXCEPT !.log = @ \ {op}] /\ opening = "open" /\ opening' = "open"
          /\ unsent' = unsent \ {op} /\ UNCHANGED <<kept, salvaged, excused>>
      BY <1>3 DEF AcknowledgeFromLog
    <2>2. /\ file' \in Files /\ file'.log = file.log \ {op} /\ file'.pins = file.pins
          /\ file'.there = file.there
      BY <1>0, <2>1
    <2>3. StoreTypes' BY <1>0, <2>1, <2>2 DEF StoreTypes
    <2>4. SalvageInHand' /\ WordsInLog' /\ WordsSurvive'
      BY <2>1, <2>2 DEF StoreInv, SalvageInHand, WordsInLog, WordsSurvive, Repairing
    <2>5. NoFileIsEmpty' BY <2>1, <2>2 DEF StoreInv, NoFileIsEmpty
    <2> QED BY <2>3, <2>4, <2>5 DEF StoreInv
  <1> QED BY <1>1, <1>2, <1>3

\* The salvage is lost: before the quarantine the file still has its rows,
\* afterwards the retained file has.
LEMMA SalvageLostKeeps == ASSUME StoreInv, FailRestore \/ StopWhileOpening PROVE StoreInv'
  <1>1. /\ opening' = "down" /\ salvaged'.rows = {} /\ UNCHANGED <<file, kept, unsent>>
    BY DEF FailRestore, StopWhileOpening, EmptySalvage
  <1>2. excused' = excused \cup salvaged.rows
           \/ (opening = "quarantine" /\ excused' = excused)
    BY DEF FailRestore, StopWhileOpening
  <1>3. opening = "quarantine" => salvaged.rows \subseteq file.log BY DEF StoreInv, SalvageInHand
  <1>4. salvaged.rows \subseteq file.log \/ salvaged.rows \subseteq kept
    BY DEF StoreInv, SalvageInHand
  <1>5. StoreTypes' BY <1>1 DEF StoreInv, StoreTypes
  <1>6. SalvageInHand' BY <1>1 DEF SalvageInHand, Repairing
  <1>7. NoFileIsEmpty' BY <1>1 DEF StoreInv, NoFileIsEmpty
  <1>8. WordsInLog' BY <1>1, <1>2, <1>3 DEF StoreInv, WordsInLog
  <1>9. WordsSurvive' BY <1>1, <1>4 DEF StoreInv, WordsSurvive
  <1> QED BY <1>5, <1>6, <1>7, <1>8, <1>9 DEF StoreInv

\* Every step keeps the invariant.
LEMMA StoreInvStep == StoreInv /\ [StoreNext]_storeVars => StoreInv'
  <1> SUFFICES ASSUME StoreInv, [StoreNext]_storeVars PROVE StoreInv' OBVIOUS
  <1>1. CASE UNCHANGED storeVars BY <1>1, StillStoreKeeps DEF storeVars
  <1>2. CASE OpenWithRepair
    <2>1. opening = "down" /\ UNCHANGED <<file, kept, salvaged, unsent, excused>>
      BY <1>2, Zenon DEF OpenWithRepair
    <2>2. opening' \in {"salvage", "refused", "schema"} BY <1>2 DEF OpenWithRepair
    <2>3. salvaged.rows = {} BY <2>1 DEF StoreInv, SalvageInHand, Repairing
    <2> QED BY <2>1, <2>2, <2>3, StillStoreKeeps
  <1>3. CASE Opened \/ RequestRepair \/ Close
    <2>1. /\ opening' \in {"open", "down"} /\ opening \in {"schema", "open"}
          /\ opening' = "open" => file.there
          /\ UNCHANGED <<file, kept, salvaged, unsent, excused>>
      BY <1>3 DEF Opened, RequestRepair, Close, StoreInv, NoFileIsEmpty
    <2>2. salvaged.rows = {} BY <2>1 DEF StoreInv, SalvageInHand, Repairing
    <2> QED BY <2>1, <2>2, StillStoreKeeps
  <1> QED BY <1>1, <1>2, <1>3, SalvageKeeps, QuarantineKeeps, FileStepsKeep, MigrateKeeps,
             LogStepsKeep, SalvageLostKeeps DEF StoreNext

\* For any words and any number of stops: nothing the user wrote and the
\* provider has not acknowledged leaves the disk, and an open store has it in
\* its log unless the salvage was lost in one of the three ways the code knows
\* (open_with_repair, quarantine_database, v5_reconcile_pre_slice3_debris).
THEOREM UserWordsAlwaysSurvive == StoreSpec => []UserWordsSurvive
  <1>1. StoreInv => UserWordsSurvive
    <2> SUFFICES ASSUME StoreInv PROVE UserWordsSurvive OBVIOUS
    <2>1. LogSurvivesRepair
      BY DEF StoreInv, WordsInLog, SalvageInHand, Repairing, LogSurvivesRepair
    <2> QED BY <2>1 DEF StoreInv, UserWordsSurvive
  <1> QED BY <1>1, StoreInvInit, StoreInvStep, PTL DEF StoreSpec

-----------------------------------------------------------------------------
(***************************************************************************)
(* The body cache.  Objects are exactly those of the stored letters, so a  *)
(* fetcher whose letter was deleted meanwhile finds neither row nor        *)
(* object; and its letter cannot come back under it.  Of the files, a      *)
(* rollback removes at most the one its own letter names.                  *)
(***************************************************************************)
ObjectStates == {"none", "wanted", "fetching", "cached", "failed"}

CacheTypes ==
    /\ stored \subseteq Letters /\ bodyRow \subseteq stored /\ rescore \subseteq stored
    /\ object \in [Letters -> ObjectStates]
    /\ fetcher \in [Fetchers -> {"idle", "awaiting", "staged", "applied"}]
    /\ DOMAIN letter = Fetchers /\ DOMAIN wrote = Fetchers
    /\ letter = [f \in Fetchers |-> letter[f]] /\ wrote = [f \in Fetchers |-> wrote[f]]
    /\ \A f \in Fetchers : fetcher[f] # "idle" => letter[f] \in Letters

ObjectsAreStored == \A m \in Letters : m \in stored <=> object[m] # "none"

FetchersAgree ==
    \A f \in Fetchers :
        /\ fetcher[f] = "staged" => /\ wrote[f] \subseteq {Hash(letter[f])}
                                    /\ ~SameBytes /\ letter[f] \in stored => Hash(letter[f]) \in files
        /\ fetcher[f] = "applied" => letter[f] \in bodyRow \/ letter[f] \notin stored

CacheInv == /\ CacheTypes /\ ObjectsAreStored /\ FetchersAgree /\ CachedHasBody
            /\ ~SameBytes => BodyRefsExist

\* The initial states satisfy the invariant.
LEMMA CacheInvInit == CacheInit => CacheInv
  BY DEF CacheInit, CacheInv, CacheTypes, ObjectStates, ObjectsAreStored, FetchersAgree,
         CachedHasBody, BodyRefsExist, Fetchers

\* Letters come, are scored and go.
LEMMA LetterStepsKeep ==
    ASSUME CacheInv, NEW m \in Letters,
           Arrive(m) \/ UpsertCandidate(m) \/ DeleteLetter(m) \/ Rescore(m) \/ QueueStale(m)
    PROVE  CacheInv'
  <1>0. CacheTypes /\ ObjectsAreStored /\ FetchersAgree /\ CachedHasBody BY DEF CacheInv
  <1>1. UNCHANGED <<files, fetcher, letter, wrote>>
    BY DEF Arrive, UpsertCandidate, DeleteLetter, Rescore, QueueStale
  <1>2. CacheTypes'
    BY <1>0, <1>1 DEF CacheTypes, ObjectStates, ObjectsAreStored, Arrive, UpsertCandidate,
                      DeleteLetter, Rescore, QueueStale, Rescored, Ensured
  <1>3. ObjectsAreStored'
    BY <1>0 DEF CacheTypes, ObjectStates, ObjectsAreStored, Arrive, UpsertCandidate,
                DeleteLetter, Rescore, QueueStale, Rescored, Ensured
  <1>4. CachedHasBody'
    BY <1>0 DEF CacheTypes, ObjectStates, CachedHasBody, Arrive, UpsertCandidate,
                DeleteLetter, Rescore, QueueStale, Rescored, Ensured
  <1>5. bodyRow' \subseteq bodyRow
    BY DEF Arrive, UpsertCandidate, DeleteLetter, Rescore, QueueStale
  <1>6. FetchersAgree'
    BY <1>0, <1>1 DEF CacheTypes, FetchersAgree, Hash, Arrive, UpsertCandidate, DeleteLetter,
                      Rescore, QueueStale
  <1>7. ~SameBytes => BodyRefsExist' BY <1>1, <1>5 DEF CacheInv, BodyRefsExist, Hash
  <1> QED BY <1>2, <1>3, <1>4, <1>6, <1>7 DEF CacheInv

\* A fetch begins, or ends without having staged anything.
LEMMA AwaitKeeps ==
    ASSUME CacheInv, \/ \E m \in Letters : BeginFetch(m) \/ OpenLetter(m)
                     \/ \E f \in Fetchers : FetchFails(f)
                     \/ StopFetchers
    PROVE  CacheInv'
  <1>0. CacheTypes /\ ObjectsAreStored /\ FetchersAgree /\ CachedHasBody BY DEF CacheInv
  <1>1. UNCHANGED <<stored, bodyRow, files, wrote>>
    BY DEF BeginFetch, OpenLetter, FetchFails, StopFetchers
  <1>2. /\ fetcher' \in [Fetchers -> {"idle", "awaiting", "staged", "applied"}]
        /\ \A f \in Fetchers : fetcher'[f] \in {"staged", "applied"} =>
                                    fetcher'[f] = fetcher[f] /\ letter'[f] = letter[f]
        /\ DOMAIN letter' = Fetchers /\ letter' = [f \in Fetchers |-> letter'[f]]
        /\ \A f \in Fetchers : fetcher'[f] # "idle" => letter'[f] \in Letters
    BY <1>0 DEF CacheTypes, BeginFetch, OpenLetter, FetchFails, StopFetchers
  <1>3. /\ object' \in [Letters -> ObjectStates] /\ rescore' \subseteq stored
        /\ \A m \in Letters : /\ object'[m] # "none" <=> object[m] # "none"
                              /\ object'[m] = "cached" => object[m] = "cached"
    BY <1>0 DEF CacheTypes, ObjectsAreStored, ObjectStates, BeginFetch, OpenLetter, FetchFails,
                StopFetchers, Marked, Fetchable, Ensured
  <1>4. CacheTypes' BY <1>0, <1>1, <1>2, <1>3 DEF CacheTypes
  <1>5. ObjectsAreStored' /\ CachedHasBody' BY <1>0, <1>1, <1>3 DEF ObjectsAreStored, CachedHasBody
  <1>6. FetchersAgree' BY <1>0, <1>1, <1>2 DEF FetchersAgree, Hash
  <1>7. ~SameBytes => BodyRefsExist' BY <1>1 DEF CacheInv, BodyRefsExist, Hash
  <1> QED BY <1>4, <1>5, <1>6, <1>7 DEF CacheInv

\* The file is staged.
LEMMA StageKeeps == ASSUME CacheInv, NEW f \in Fetchers, Stage(f) PROVE CacheInv'
  <1>0. CacheTypes /\ ObjectsAreStored /\ FetchersAgree /\ CachedHasBody BY DEF CacheInv
  <1>1. /\ wrote' = [wrote EXCEPT ![f] = Registered(letter[f])]
        /\ files' = files \cup {Hash(letter[f])}
        /\ fetcher[f] = "awaiting" /\ fetcher' = [fetcher EXCEPT ![f] = "staged"]
        /\ UNCHANGED <<stored, object, rescore, bodyRow, letter>>
    BY DEF Stage
  <1>2. Registered(letter[f]) \subseteq {Hash(letter[f])} BY DEF Registered
  <1>3. CacheTypes' BY <1>0, <1>1 DEF CacheTypes
  <1>4. ObjectsAreStored' /\ CachedHasBody' BY <1>0, <1>1 DEF ObjectsAreStored, CachedHasBody
  <1>5. FetchersAgree'
    <2>1. wrote'[f] = Registered(letter[f]) /\ \A g \in Fetchers : g # f => wrote'[g] = wrote[g]
      BY <1>0, <1>1 DEF CacheTypes
    <2>2. fetcher'[f] = "staged" /\ \A g \in Fetchers : g # f => fetcher'[g] = fetcher[g]
      BY <1>0, <1>1 DEF CacheTypes
    <2> QED BY <1>0, <1>1, <1>2, <2>1, <2>2 DEF FetchersAgree, Hash
  <1>6. ~SameBytes => BodyRefsExist' BY <1>1 DEF CacheInv, BodyRefsExist, Hash
  <1> QED BY <1>3, <1>4, <1>5, <1>6 DEF CacheInv

\* The body is committed, or marked once more.
LEMMA CommitKeeps ==
    ASSUME CacheInv, (\E f \in Fetchers : CommitBody(f)) \/ MarkCached PROVE CacheInv'
  <1>0. CacheTypes /\ ObjectsAreStored /\ FetchersAgree /\ CachedHasBody BY DEF CacheInv
  <1>1. ASSUME NEW f \in Fetchers, CommitBody(f) PROVE CacheInv'
    <2> DEFINE m == letter[f]
    <2>1. /\ fetcher[f] = "staged" /\ m \in stored /\ bodyRow' = bodyRow \cup {m}
          /\ object' = [object EXCEPT ![m] = "cached"] /\ rescore' = rescore \cup {m}
          /\ fetcher' = [fetcher EXCEPT ![f] = IF f = "worker" THEN "applied" ELSE "idle"]
          /\ UNCHANGED <<stored, files, letter, wrote>>
      BY <1>1 DEF CommitBody, Ensured
    <2>2. CacheTypes' BY <1>0, <2>1 DEF CacheTypes, ObjectStates
    <2>3. ObjectsAreStored' BY <1>0, <2>1 DEF CacheTypes, ObjectsAreStored
    <2>4. CachedHasBody' BY <1>0, <2>1 DEF CacheTypes, CachedHasBody
    <2>5. FetchersAgree' BY <1>0, <2>1 DEF CacheTypes, FetchersAgree, Hash
    <2>6. ~SameBytes => BodyRefsExist'
      BY <1>0, <2>1 DEF CacheInv, BodyRefsExist, FetchersAgree, Hash
    <2> QED BY <2>2, <2>3, <2>4, <2>5, <2>6 DEF CacheInv
  <1>2. CASE MarkCached
    <2> DEFINE m == letter["worker"]
    <2>1. /\ fetcher["worker"] = "applied" /\ fetcher' = [fetcher EXCEPT !["worker"] = "idle"]
          /\ object' = IF object[m] # "none" THEN [object EXCEPT ![m] = "cached"] ELSE object
          /\ UNCHANGED <<stored, rescore, bodyRow, files, letter, wrote>>
      BY <1>2 DEF MarkCached, Marked
    <2>2. "worker" \in Fetchers /\ m \in Letters BY <1>0, <2>1 DEF CacheTypes, Fetchers
    <2>3. object[m] # "none" => m \in bodyRow
      BY <1>0, <2>1, <2>2 DEF FetchersAgree, ObjectsAreStored
    <2>4. CacheTypes' BY <1>0, <2>1, <2>2 DEF CacheTypes, ObjectStates
    <2>5. ObjectsAreStored' BY <1>0, <2>1, <2>2 DEF CacheTypes, ObjectsAreStored
    <2>6. CachedHasBody' BY <1>0, <2>1, <2>2, <2>3 DEF CacheTypes, CachedHasBody
    <2>7. FetchersAgree' BY <1>0, <2>1 DEF CacheTypes, FetchersAgree, Hash
    <2>8. ~SameBytes => BodyRefsExist' BY <2>1 DEF CacheInv, BodyRefsExist, Hash
    <2> QED BY <2>4, <2>5, <2>6, <2>7, <2>8 DEF CacheInv
  <1> QED BY <1>1, <1>2

\* A rollback removes the file of a letter that is gone.
LEMMA RollBackKeeps == ASSUME CacheInv, NEW f \in Fetchers, RollBackBody(f) PROVE CacheInv'
  <1>0. CacheTypes /\ ObjectsAreStored /\ FetchersAgree /\ CachedHasBody BY DEF CacheInv
  <1>1. /\ fetcher[f] = "staged" /\ letter[f] \notin stored /\ files' = files \ wrote[f]
        /\ fetcher' = [fetcher EXCEPT ![f] = "idle"]
        /\ UNCHANGED <<stored, rescore, bodyRow, letter, wrote>>
    BY DEF RollBackBody
  <1>2. letter[f] \in Letters BY <1>0, <1>1 DEF CacheTypes
  <1>3. object' = object BY <1>0, <1>1, <1>2 DEF RollBackBody, Marked, ObjectsAreStored
  <1>4. wrote[f] \subseteq {Hash(letter[f])} BY <1>0, <1>1 DEF FetchersAgree
  <1>5. ~SameBytes => \A m \in stored : Hash(m) \in files => Hash(m) \in files'
    BY <1>1, <1>4 DEF Hash
  <1>6. CacheTypes' BY <1>0, <1>1, <1>3 DEF CacheTypes
  <1>7. ObjectsAreStored' /\ CachedHasBody' BY <1>0, <1>1, <1>3 DEF ObjectsAreStored, CachedHasBody
  <1>8. FetchersAgree' BY <1>0, <1>1, <1>5 DEF CacheTypes, FetchersAgree, Hash
  <1>9. ~SameBytes => BodyRefsExist'
    BY <1>0, <1>1, <1>5 DEF CacheInv, CacheTypes, BodyRefsExist, Hash
  <1> QED BY <1>6, <1>7, <1>8, <1>9 DEF CacheInv

\* Every step keeps the invariant.
LEMMA CacheInvStep == CacheInv /\ [CacheNext]_cacheVars => CacheInv'
  <1> SUFFICES ASSUME CacheInv, [CacheNext]_cacheVars PROVE CacheInv' OBVIOUS
  <1>1. CASE UNCHANGED cacheVars
    BY <1>1 DEF CacheInv, CacheTypes, ObjectsAreStored, FetchersAgree, CachedHasBody,
                BodyRefsExist, Hash, cacheVars
  <1>2. CASE CacheNext
    BY <1>2, LetterStepsKeep, AwaitKeeps, StageKeeps, CommitKeeps, RollBackKeeps DEF CacheNext
  <1> QED BY <1>1, <1>2

\* For any letters: a cached object has its body row, whatever the worker, a
\* reader and a deletion do in between; and as long as no two letters have the
\* same bytes every row names a file that exists.  Without that condition a
\* rollback can remove the file another fetcher found and kept (store_raw_message).
THEOREM BodiesAlwaysBacked == CacheSpec => [](CachedHasBody /\ (~SameBytes => BodiesBacked))
  <1>1. CacheInv => CachedHasBody /\ (~SameBytes => BodiesBacked) BY DEF CacheInv, BodiesBacked
  <1> QED BY <1>1, CacheInvInit, CacheInvStep, PTL DEF CacheSpec

-----------------------------------------------------------------------------
(***************************************************************************)
(* The stream's safety half of the refinement, for every bound on writes,  *)
(* runs, lost connections and the channel: what the window shows is a      *)
(* moment of the store, and never an earlier one than before.  The answer  *)
(* of a refetch lies between what is shown and what is stored (Between);   *)
(* no other step touches the answer or the view.                           *)
(***************************************************************************)
Fetches == {NoFetch, [is |-> "sent"]} \cup [is : {"read"}, data : Nat]

Between == fetch.is = "read" => view <= fetch.data /\ fetch.data <= committed

StreamInv == /\ committed \in Nat /\ view \in Nat /\ fetch \in Fetches
             /\ view <= committed /\ Between

-----------------------------------------------------------------------------
\* The initial states (StreamInit): nothing committed, nothing asked.
LEMMA StreamInvInit == StreamInit => StreamInv
  BY DEF StreamInit, StreamInv, Fetches, Between, NoFetch

\* The steps of the publishing side, of the connection and of the baseline touch
\* neither the store nor the answer.
Apart == PublishWrite \/ FinishCommand \/ Handshake \/ Speak \/ Deliver \/ DropStream

\* Those steps, one by one.
LEMMA ApartLeaves == Apart => UNCHANGED <<committed, view, fetch>>
  BY DEF Apart, PublishWrite, FinishCommand, Handshake, Speak, Deliver, DropStream, Publish,
         backendVars, clientVars

\* The steps that ask again, or lose the question, leave what is shown.
Asking == HearReply \/ Invalidate \/ Reconnect \/ Restart

\* Those steps: the question is sent, dropped, or as it was.
LEMMA AskingLeaves ==
    Asking => /\ UNCHANGED <<committed, view>>
              /\ fetch' = [is |-> "sent"] \/ fetch' = NoFetch \/ fetch' = fetch
  BY DEF Asking, HearReply, Invalidate, Reconnect, Restart, backendVars

\* Every step of the stream is one of these, a write, or a step of the refetch.
LEMMA StreamCases ==
    StreamNext => Apart \/ Asking \/ CommitWrite \/ Evaluate \/ Show
  BY DEF StreamNext, StreamStep, Apart, Asking

\* The answer of a refetch stays between what is shown and what is stored.
LEMMA StreamInvStep == StreamInv /\ [StreamNext]_streamVars => StreamInv'
  <1> SUFFICES ASSUME StreamInv, [StreamNext]_streamVars PROVE StreamInv'
    OBVIOUS
  <1> USE DEF StreamInv, Between, Fetches, NoFetch
  <1>1. CASE Apart BY <1>1, ApartLeaves
  <1>2. CASE Asking BY <1>2, AskingLeaves
  <1>3. CASE CommitWrite BY <1>3 DEF CommitWrite, clientVars
  <1>4. CASE Evaluate BY <1>4 DEF Evaluate, backendVars
  <1>5. CASE Show BY <1>5 DEF Show, backendVars
  <1>6. CASE UNCHANGED streamVars BY <1>6 DEF streamVars
  <1> QED BY <1>1, <1>2, <1>3, <1>4, <1>5, <1>6, StreamCases

\* Every step is one write of the abstract view, one catching up, or neither.
LEMMA StreamStepRefines ==
    StreamInv /\ [StreamNext]_streamVars => [ClientView!ViewNext]_(ClientView!viewVars)
  <1> SUFFICES ASSUME StreamInv, [StreamNext]_streamVars
               PROVE  ClientView!ViewNext \/ UNCHANGED <<committed, view>>
    BY DEF ClientView!viewVars
  <1> USE DEF StreamInv, Between, Fetches, NoFetch, ClientView!ViewNext
  <1>1. CASE Apart BY <1>1, ApartLeaves
  <1>2. CASE Asking BY <1>2, AskingLeaves
  <1>3. CASE CommitWrite BY <1>3 DEF CommitWrite, clientVars, ClientView!CommitOne
  <1>4. CASE Evaluate BY <1>4 DEF Evaluate, backendVars
  <1>5. CASE Show
    <2>1. /\ fetch.data \in Nat /\ view <= fetch.data /\ fetch.data <= committed
          /\ view' = fetch.data /\ committed' = committed
      BY <1>5 DEF Show, backendVars
    <2>2. CASE fetch.data = view BY <2>1, <2>2
    <2>3. CASE fetch.data # view
      <3>1. fetch.data \in (view + 1) .. committed BY <2>1, <2>3
      <3> QED BY <2>1, <3>1 DEF ClientView!CatchUp
    <2> QED BY <2>2, <2>3
  <1>6. CASE UNCHANGED streamVars BY <1>6 DEF streamVars
  <1> QED BY <1>1, <1>2, <1>3, <1>4, <1>5, <1>6, StreamCases

\* The event stream implements the client's view: the answer a window shows is
\* always the store at some moment and never goes back, through lost messages,
\* lagging streams, lost connections, cancelled refetches and backend restarts.
THEOREM StreamRefinesView == StreamSpec => ClientView!ViewSafety
  <1>1. StreamInit => ClientView!ViewInit BY DEF StreamInit, ClientView!ViewInit
  <1> QED
    BY <1>1, StreamInvInit, StreamInvStep, StreamStepRefines, PTL DEF StreamSpec, ClientView!ViewSafety

=============================================================================
