----------------------------- MODULE StoreOpen -----------------------------
(***************************************************************************)
(* Opening the mail database: the schema migrations, the quarantine of a   *)
(* damaged file, the salvage of the operation log out of it and the        *)
(* rebuild (crates/posthaste-store/src/store.rs, db/schema.rs).            *)
(*                                                                         *)
(* The database is a rebuildable projection except for what the user       *)
(* wrote: the rows of the operation log, and in files older than           *)
(* migration 5 the draft pins of the overlay.  The process may stop        *)
(* between any two steps and the file may be damaged while it is down.     *)
(***************************************************************************)
EXTENDS Naturals, FiniteSets

CONSTANTS NewWords,       \* the operations that may be enqueued
          MaxOpenStops    \* bound: process stops while opening

VARIABLES file, repairMarker, kept, salvaged, opening, unsent, excused, openStops

storeVars == <<file, repairMarker, kept, salvaged, opening, unsent, excused, openStops>>

SCHEMA_VERSION == 6

\* The pins of a pre-5 overlay: one whose operation is still in the log, one that the base
\* row repeats column for column, one whose words exist nowhere else.
PinKinds == {"owned", "derived", "alone"}

\* What is enqueued later is none of the words the file begins with.
ASSUME WordsAssumption == NewWords \cap (PinKinds \cup {"old"}) = {}

NoFile == [there |-> FALSE, version |-> 0, log |-> {}, pins |-> {}, health |-> "sound"]

\* A salvage reads SELECT *, so its rows carry the columns of the file's own version; the
\* INSERT names them all, and the rebuilt table lacks depends_on (dropped by migration 3)
\* and whatever a newer build added.
ForeignColumns(version) == version < 3 \/ version > SCHEMA_VERSION

-----------------------------------------------------------------------------
EmptySalvage == [rows |-> {}, foreign |-> FALSE]

\* Fault: the log is read after the file was moved away.
SalvageLogAfterTheMove(f) == EmptySalvage

\* read_salvageable_log: any error yields the empty salvage.
SalvageLog(f) ==
    [rows    |-> IF f.there /\ f.health # "unreadable" THEN f.log ELSE {},
     foreign |-> ForeignColumns(f.version)]

\* open_with_repair: the marker decides before the file is looked at; otherwise try_open
\* answers Corruption for a damaged file, and refuses a newer one without touching it.
OpenWithRepair ==
    /\ opening = "down"
    /\ opening' = CASE repairMarker                              -> "salvage"
                    [] ~repairMarker /\ file.health # "sound"    -> "salvage"
                    [] ~repairMarker /\ file.health = "sound"
                               /\ file.version > SCHEMA_VERSION -> "refused"
                    [] OTHER                               -> "schema"
    /\ UNCHANGED <<file, repairMarker, kept, salvaged, unsent, excused, openStops>>

Salvage ==
    /\ opening = "salvage"
    /\ salvaged' = SalvageLog(file)
    /\ excused' = (excused \cup (IF file.health = "unreadable" THEN file.log ELSE {}))
    /\ opening' = "quarantine"
    /\ UNCHANGED <<file, repairMarker, kept, unsent, openStops>>

\* quarantine_database renames the file and its siblings (the rename succeeds and two repairs
\* are at least a second apart, so no quarantined name is used twice): kept is what the
\* quarantined files still hold.
Retained(f) == f.log \cup f.pins

Quarantine ==
    /\ opening = "quarantine"
    /\ kept' = (kept \cup Retained(file))
    /\ file' = NoFile
    /\ opening' = "rebuild"
    /\ UNCHANGED <<repairMarker, salvaged, unsent, excused, openStops>>

\* prepare_schema on a fresh file: the tables first, the version stamp in a statement of its
\* own, so a stop between them leaves a version-0 file that has every table.
InitSchema ==
    /\ opening \in {"schema", "rebuild"} /\ ~file.there
    /\ file' = [NoFile EXCEPT !.there = TRUE]
    /\ opening' = IF opening = "rebuild" THEN "rebuild stamp" ELSE "stamp"
    /\ UNCHANGED <<repairMarker, kept, salvaged, unsent, excused, openStops>>

Stamp ==
    /\ opening \in {"stamp", "rebuild stamp"}
    /\ file' = [file EXCEPT !.version = SCHEMA_VERSION]
    /\ opening' = IF opening = "rebuild stamp" THEN "restore" ELSE "open"
    /\ UNCHANGED <<repairMarker, kept, salvaged, unsent, excused, openStops>>

\* v5_reconcile_pre_slice3_debris: a pin with a live owning operation is dropped, one that
\* base repeats is deleted, the rest are parked as failed draftCreate operations.
ReconcileDebris(f) ==
    [f EXCEPT !.pins = {},
              !.log = f.log \cup {p \in f.pins : p = "alone"}]

\* apply_migration: the other versions touch counters, states, timestamps and views, none of
\* which holds the user's words.
ApplyMigration(f, version) == IF version = 5 THEN ReconcileDebris(f) ELSE f

\* One migration and its version stamp commit together.
Migrate ==
    /\ opening = "schema" /\ file.there
    /\ file.version < SCHEMA_VERSION
    /\ file' = [ApplyMigration(file, file.version + 1) EXCEPT !.version = file.version + 1]
    /\ UNCHANGED <<repairMarker, kept, salvaged, opening, unsent, excused, openStops>>

Opened ==
    /\ opening = "schema" /\ file.there
    /\ file.version = SCHEMA_VERSION
    /\ opening' = "open"
    /\ UNCHANGED <<file, repairMarker, kept, salvaged, unsent, excused, openStops>>

\* restore_salvaged_log: one transaction; an unknown column fails it and the open with it.
RestoreFails == salvaged.foreign /\ salvaged.rows # {}

Restore ==
    /\ opening = "restore"
    /\ ~RestoreFails
    /\ file' = [file EXCEPT !.log = @ \cup salvaged.rows]
    /\ repairMarker' = FALSE
    /\ salvaged' = EmptySalvage
    /\ opening' = "open"
    /\ UNCHANGED <<kept, unsent, excused, openStops>>

FailRestore ==
    /\ opening = "restore"
    /\ RestoreFails
    /\ excused' = (excused \cup salvaged.rows)
    /\ salvaged' = EmptySalvage
    /\ opening' = "down"
    /\ UNCHANGED <<file, repairMarker, kept, unsent, openStops>>

-----------------------------------------------------------------------------
\* The open store: an operation is appended, settled and removed, or a repair is asked for.
AppendToLog(op) ==
    /\ opening = "open" /\ op \notin unsent /\ op \notin excused
    /\ file' = [file EXCEPT !.log = @ \cup {op}]
    /\ unsent' = (unsent \cup {op})
    /\ UNCHANGED <<repairMarker, kept, salvaged, opening, excused, openStops>>

AcknowledgeFromLog(op) ==
    /\ opening = "open" /\ op \in file.log
    /\ file' = [file EXCEPT !.log = @ \ {op}]
    /\ unsent' = unsent \ {op}
    /\ UNCHANGED <<repairMarker, kept, salvaged, opening, excused, openStops>>

RequestRepair ==
    /\ opening = "open" /\ ~repairMarker
    /\ repairMarker' = TRUE
    /\ UNCHANGED <<file, kept, salvaged, opening, unsent, excused, openStops>>

\* close: the write connection is dropped after a checkpoint; a stop leaves the WAL, which
\* the next open replays, so both keep every committed row.  A stop inside a repair loses
\* the salvage, which lives only in memory.
Close ==
    /\ opening = "open"
    /\ opening' = "down"
    /\ UNCHANGED <<file, repairMarker, kept, salvaged, unsent, excused, openStops>>

StopWhileOpening ==
    /\ opening \notin {"down", "open", "refused"}
    /\ openStops < MaxOpenStops
    /\ openStops' = openStops + 1
    /\ excused' = (excused \cup (IF opening = "quarantine" THEN {} ELSE salvaged.rows))
    /\ salvaged' = EmptySalvage
    /\ opening' = "down"
    /\ UNCHANGED <<file, repairMarker, kept, unsent>>

\* The disk: the damaged file answers Corruption on open; "unreadable" hides its log too.
Damage ==
    /\ opening = "down" /\ file.there /\ file.health = "sound"
    /\ \E h \in {"damaged", "unreadable"} : file' = [file EXCEPT !.health = h]
    /\ UNCHANGED <<repairMarker, kept, salvaged, opening, unsent, excused, openStops>>

StoreInit ==
    /\ \E v \in {0, 4, 6, 7} :
         file = [there |-> TRUE, version |-> v, log |-> {"old"},
                 pins |-> IF v < 5 THEN PinKinds ELSE {}, health |-> "sound"]
    /\ repairMarker = FALSE /\ kept = {} /\ salvaged = EmptySalvage
    /\ opening = "down"
    /\ unsent = {"old"} \cup (IF file.version < 5 THEN {"alone"} ELSE {})
    /\ excused = {} /\ openStops = 0

StoreNext ==
    \/ OpenWithRepair \/ Salvage \/ Quarantine \/ InitSchema \/ Stamp \/ Migrate \/ Opened
    \/ Restore \/ FailRestore
    \/ \E op \in NewWords : AppendToLog(op)
    \/ \E op \in NewWords \cup {"old", "alone"} : AcknowledgeFromLog(op)
    \/ RequestRepair \/ Close \/ StopWhileOpening
    \/ Damage

StoreSpec == StoreInit /\ [][StoreNext]_storeVars

-----------------------------------------------------------------------------
\* Whatever the user wrote and the provider has not acknowledged is in the live file, in the
\* salvage on its way to it, or in a quarantined file that is retained on disk (store.rs:
\* "its bytes survive for manual recovery"), through damage, repairs, migrations and stops.
WordsSurvive ==
    unsent \subseteq (file.log \cup file.pins \cup salvaged.rows \cup kept)

\* An open store has every unacknowledged row of its log, whatever repairs it went through,
\* unless the file's log was unreadable, the rebuild refused the salvaged columns, or the
\* process stopped between the quarantine and the restore: the three ways the salvage is
\* lost (open_with_repair).  The words of a pin are not part of the log before migration 5.
LogSurvivesRepair ==
    opening = "open" =>
        \A op \in unsent \ excused : op \in file.log \/ op = "alone"

\* What the user wrote survives every way of opening the database.
UserWordsSurvive == WordsSurvive /\ LogSurvivesRepair
=============================================================================
