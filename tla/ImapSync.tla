------------------------------ MODULE ImapSync ------------------------------
(***************************************************************************)
(* The IMAP pull of one mailbox of a provider without labels: STATUS       *)
(* preflight and planning, the streamed initial snapshot with its durable  *)
(* resume point, the full snapshot, the CONDSTORE and QRESYNC deltas, and  *)
(* the store transaction with its floor for inferred deletions (crates/    *)
(* posthaste-imap/src/{gateway,sync,fetch}, domain-service imap/planning,  *)
(* store mutations/sync_batch.rs).                                         *)
(*                                                                         *)
(* A message is (epoch, uid), epoch being the UIDVALIDITY its id carries;  *)
(* its version stands for the flags.  The server moves between any two     *)
(* commands, and a cycle may be cut at any of them.                        *)
(***************************************************************************)
EXTENDS Naturals, FiniteSets, FiniteSetsExt

CONSTANTS Uids,           \* 1 .. n
          FirstUids,      \* those in the mailbox at first
          MaxMailboxSteps,\* bound: changes on the server
          MaxEpochs,      \* bound: UIDVALIDITY values used
          MaxImapCycles,  \* bound: sync cycles
          Truncates       \* whether a UID SEARCH may come back short

ASSUME ImapAssumption == /\ Uids \subseteq Nat \ {0} /\ IsFiniteSet(Uids)
                         /\ MaxEpochs \in Nat \ {0}

None == 0                 \* no version, no uid, no modseq, no checkpoint

Epochs == 1 .. MaxEpochs

VARIABLES caps,           \* "qresync", "condstore" or "plain"
          box,            \* the server: epoch, version and stamp of each uid, highest modseq
          stored,         \* imap_message_location and message rows: Epochs -> Uids -> version
          mark,           \* imap_mailbox_sync_state: {} or one record
          cycle,          \* the cycle in flight
          excuse,         \* history: "resumed", "short", "refused" or "shifted"
          cycles

imapVars == <<caps, box, stored, mark, cycle, excuse, cycles>>

Present == {u \in Uids : box.version[u] # None}
StoredKeys == {k \in Epochs \X Uids : stored[k[1]][k[2]] # None}
HasModseq == caps \in {"qresync", "condstore"}
HighestOf(S) == IF S = {} THEN None ELSE Max(S)

NoCycle == [step |-> "idle", plan |-> "none", epoch |-> None, modseq |-> None,
            uids |-> {}, got |-> [u \in Uids |-> None], gone |-> {}, seen |-> None]

-----------------------------------------------------------------------------
\* The server.  Every change takes the next modseq and stamps its uid.
BoxChange(u, version) ==
    /\ box.modseq <= MaxMailboxSteps
    /\ box' = [box EXCEPT !.modseq = @ + 1, !.version[u] = version,
                          !.stamp[u] = box.modseq + 1]
    /\ UNCHANGED <<caps, stored, mark, cycle, excuse, cycles>>

BoxDeliver(u) ==
    /\ box.stamp[u] = None /\ \A v \in Uids : v < u => box.stamp[v] # None
    /\ BoxChange(u, 1)

BoxFlag(u) == box.version[u] = 1 /\ BoxChange(u, 2)

BoxExpunge(u) == box.version[u] # None /\ BoxChange(u, None)

\* The mailbox is rebuilt under a new UIDVALIDITY; its messages keep their order.
BoxRebuild ==
    /\ box.epoch < MaxEpochs
    /\ box' = [box EXCEPT !.epoch = @ + 1, !.modseq = @ + 1,
                          !.stamp = [u \in Uids |-> IF u \in Present THEN box.modseq + 1 ELSE @[u]]]
    /\ excuse' = IF cycle.step = "idle" THEN excuse ELSE excuse \cup {"shifted"}
    /\ UNCHANGED <<caps, stored, mark, cycle, cycles>>

-----------------------------------------------------------------------------
\* mailbox_status_proves_unchanged, on the STATUS of now.
StatusProvesUnchanged ==
    \E m \in mark : /\ m.epoch = box.epoch
                    /\ Cardinality(Present) = Cardinality(StoredKeys)
                    /\ m.modseq # None /\ HasModseq /\ m.modseq = box.modseq

\* plan_imap_mailbox_sync, on the EXAMINE of now.
PlanFor ==
    IF mark = {} THEN "initial"
    ELSE LET m == CHOOSE m \in mark : TRUE
         IN  CASE m.epoch # box.epoch                                 -> "full"
               [] m.epoch = box.epoch /\ m.partial # None             -> "resume"
               [] m.epoch = box.epoch /\ m.partial = None /\ m.modseq # None
                                      /\ HasModseq                    -> caps
               [] OTHER                                               -> "full"

\* plan_mailbox: skip, or a plan.
PlanMailbox ==
    /\ cycle.step = "idle" /\ cycles < MaxImapCycles /\ ~StatusProvesUnchanged
    /\ cycle' = [NoCycle EXCEPT !.step = "examine", !.plan = PlanFor]
    /\ cycles' = cycles + 1
    /\ UNCHANGED <<caps, box, stored, mark, excuse>>

\* examine_selected_mailbox of the fetch: UIDVALIDITY and HIGHESTMODSEQ of the result.
Examine ==
    /\ cycle.step = "examine"
    /\ cycle' = [cycle EXCEPT !.epoch = box.epoch,
                              !.modseq = IF HasModseq THEN box.modseq ELSE None,
                              !.step = IF @ = "examine" /\ cycle.plan = "qresync"
                                       THEN "changes" ELSE "search"]
    /\ UNCHANGED <<caps, box, stored, mark, excuse, cycles>>

\* search_undeleted_uids; a resumed snapshot keeps the uids above its checkpoint (uids_above).
Search ==
    /\ cycle.step = "search"
    /\ \E found \in (IF Truncates THEN SUBSET Present ELSE {Present}) :
        LET above == CHOOSE p \in {m.partial : m \in mark} \cup (IF mark = {} THEN {None} ELSE {}) : TRUE
        IN  /\ cycle' = [cycle EXCEPT
                 !.uids = found, !.seen = HighestOf(found),
                 !.gone = IF cycle.plan = "resume" THEN {u \in found : u <= above} ELSE {},
                 !.step = IF cycle.plan = "condstore" THEN "changes" ELSE "fetch"]
            /\ excuse' = excuse \cup (IF found = Present THEN {} ELSE {"short"})
                                \cup (IF cycle.plan = "resume" THEN {"resumed"} ELSE {})
    /\ UNCHANGED <<caps, box, stored, mark, cycles>>

\* fetch_header_chunk, one uid at a time: nothing comes back for an expunged one.
Pending == cycle.uids \ cycle.gone

FetchChunk ==
    /\ cycle.step = "fetch" /\ cycle.plan = "full" /\ Pending # {}
    /\ LET u == Min(Pending)
       IN  cycle' = [cycle EXCEPT !.got[u] = box.version[u], !.gone = @ \cup {u}]
    /\ UNCHANGED <<caps, box, stored, mark, excuse, cycles>>

\* partial_state / finalized_state: the checkpoint is the uid asked for, fetched or not.
MarkAfter(u) ==
    IF Pending \subseteq {u}
    THEN [epoch |-> cycle.epoch, uid |-> cycle.seen, modseq |-> cycle.modseq, partial |-> None]
    ELSE [epoch |-> cycle.epoch, uid |-> None, modseq |-> None, partial |-> u]

\* One chunk of stream_initial_mailbox_snapshot: its rows and its checkpoint in one transaction.
CommitInitialChunk ==
    /\ cycle.step = "fetch" /\ cycle.plan \in {"initial", "resume"}
    /\ LET u == IF Pending = {} THEN None ELSE Min(Pending)
       IN  /\ stored' = IF u = None THEN stored
                        ELSE [stored EXCEPT ![cycle.epoch][u] =
                                IF box.version[u] = None THEN @ ELSE box.version[u]]
           /\ mark' = {MarkAfter(u)}
           /\ cycle' = IF Pending \subseteq {u} THEN NoCycle
                       ELSE [cycle EXCEPT !.gone = @ \cup {u}]
    /\ UNCHANGED <<caps, box, excuse, cycles>>

\* UID FETCH 1:* (CHANGEDSINCE): headers stamped above the mark, and with QRESYNC what vanished.
FetchChanges ==
    /\ cycle.step = "changes"
    /\ LET since == CHOOSE s \in {m.modseq : m \in mark} : TRUE
           changed == {u \in Present : box.stamp[u] > since}
       IN  cycle' = [cycle EXCEPT
              !.got = [u \in Uids |-> IF u \in changed THEN box.version[u] ELSE None],
              !.gone = {u \in Uids \ Present : box.stamp[u] > since},
              !.seen = HighestOf({box.stamp[u] : u \in changed}),
              !.step = IF cycle.plan = "condstore" THEN "sweep" ELSE "commit"]
    /\ UNCHANGED <<caps, box, stored, mark, excuse, cycles>>

\* The sweep for listed uids above the watermark that CHANGEDSINCE did not return.
SweepMissed ==
    /\ cycle.step = "sweep"
    /\ LET high == CHOOSE h \in {m.uid : m \in mark} : TRUE
           missed == {u \in cycle.uids : u > high /\ cycle.got[u] = None}
       IN  cycle' = [cycle EXCEPT
              !.got = [u \in Uids |-> IF u \in missed THEN box.version[u] ELSE @[u]],
              !.step = "commit"]
    /\ UNCHANGED <<caps, box, stored, mark, excuse, cycles>>

-----------------------------------------------------------------------------
Got == {u \in Uids : cycle.got[u] # None}

\* Removals by plan: a snapshot infers them from the keys it lacks, CONDSTORE from the uids the
\* search lacks (whatever their epoch), QRESYNC is told.
Inferred ==
    CASE cycle.plan = "full"      -> {k \in StoredKeys : ~(k[1] = cycle.epoch /\ k[2] \in Got)}
      [] cycle.plan = "condstore" -> {k \in StoredKeys : k[2] \notin cycle.uids
                                                         /\ ~(k[1] = cycle.epoch /\ k[2] \in Got)}
      [] OTHER                    -> {}

Told == IF cycle.plan = "qresync" THEN {<<cycle.epoch, u>> : u \in cycle.gone} ELSE {}

\* Fault: every inferred removal is applied.
PruneAlwaysAllowed(n) == TRUE

\* imap_absence_prune_allowed_tx, with the carve-out for a single removal.
AbsencePruneAllowed(n) ==
    n <= 1 \/ StoredKeys = {} \/ 2 * n <= Cardinality(StoredKeys)

Removed == Told \cup (IF AbsencePruneAllowed(Cardinality(Inferred)) THEN Inferred ELSE {})

\* Fault: the mark takes the mailbox's modseq of the commit, not of the EXAMINE.
NewMarkAtCommit == [epoch |-> cycle.epoch, uid |-> HighestOf(Got),
                    modseq |-> IF HasModseq THEN box.modseq ELSE None, partial |-> None]

\* imap_mailbox_state_from_header_snapshot / imap_mailbox_state_from_changed_since_snapshot.
NewMark ==
    IF cycle.plan = "full"
    THEN [epoch |-> cycle.epoch, uid |-> HighestOf(Got), modseq |-> cycle.modseq, partial |-> None]
    ELSE LET m == CHOOSE m \in mark : TRUE
         IN  [epoch |-> cycle.epoch, uid |-> HighestOf({m.uid} \cup Got),
              modseq |-> HighestOf({m.modseq, cycle.seen, cycle.modseq}), partial |-> m.partial]

\* apply_sync_batch_tx: removals, rows and mark in one transaction.
CommitBatch ==
    /\ \/ cycle.step = "commit"
       \/ cycle.step = "fetch" /\ cycle.plan = "full" /\ Pending = {}
    /\ stored' = [e \in Epochs |-> [u \in Uids |->
                    IF e = cycle.epoch /\ u \in Got THEN cycle.got[u]
                    ELSE IF <<e, u>> \in Removed THEN None ELSE stored[e][u]]]
    /\ mark' = {NewMark}
    /\ excuse' = excuse \cup (IF AbsencePruneAllowed(Cardinality(Inferred)) THEN {} ELSE {"refused"})
    /\ cycle' = NoCycle
    /\ UNCHANGED <<caps, box, cycles>>

\* A command fails, the budget cuts the cycle or the process stops.
CutCycle ==
    /\ cycle.step # "idle"
    /\ cycle' = NoCycle
    /\ UNCHANGED <<caps, box, stored, mark, excuse, cycles>>

ImapInit ==
    /\ caps \in {"qresync", "condstore", "plain"}
    /\ box = [epoch |-> 1, modseq |-> 1,
              version |-> [u \in Uids |-> IF u \in FirstUids THEN 1 ELSE None],
              stamp |-> [u \in Uids |-> IF u \in FirstUids THEN 1 ELSE None]]
    /\ stored = [e \in Epochs |-> [u \in Uids |-> None]]
    /\ mark = {} /\ cycle = NoCycle /\ excuse = {} /\ cycles = 0

ImapNext ==
    \/ \E u \in Uids : BoxDeliver(u) \/ BoxFlag(u) \/ BoxExpunge(u)
    \/ BoxRebuild
    \/ PlanMailbox \/ Examine \/ Search \/ FetchChunk \/ CommitInitialChunk
    \/ FetchChanges \/ SweepMissed \/ CommitBatch \/ CutCycle

ImapSpec == ImapInit /\ [][ImapNext]_imapVars

-----------------------------------------------------------------------------
Exact == \A e \in Epochs, u \in Uids :
            stored[e][u] = IF e = box.epoch THEN box.version[u] ELSE None

\* When STATUS proves the mailbox unchanged, so that the cycle skips it, the stored rows are
\* the mailbox: every flag change, arrival and expunge between the EXAMINE, the search and the
\* fetches of earlier cycles was caught or leaves the proof failing.  Excepted are a snapshot
\* that was resumed, a floor refusal, a rebuilt mailbox during the cycle and a short search.
StatusSkipIsSound == cycle.step = "idle" /\ StatusProvesUnchanged /\ excuse = {} => Exact

\* A cycle takes at most one message that the mailbox still has, whatever the search returns,
\* unless it is no more than half of what is stored (the floor for inferred removals).
NoMassLoss ==
    [][LET lost == {u \in Present : stored[box.epoch][u] # None /\ stored'[box.epoch][u] = None}
       IN  Cardinality(lost) <= 1 \/ 2 * Cardinality(lost) <= Cardinality(StoredKeys)]_imapVars
=============================================================================
