---------------------------- MODULE Projections ----------------------------
(***************************************************************************)
(* What the store derives from its message rows inside each write: the     *)
(* thread and conversation rows, the full-text index its triggers keep, the*)
(* header columns filled from raw bodies, and the deferred maintenance that*)
(* repairs them after an upgrade.                                          *)
(*                                                                         *)
(* A message is its place in the order of dates and ids.  Threads do not   *)
(* change: both providers give a message one thread for life.              *)
(***************************************************************************)
EXTENDS Naturals, FiniteSets, FiniteSetsExt

CONSTANTS Stored,       \* the messages of the account, 1..n
          FirstThread,  \* the ones in thread "t1"; the others are in "t2"
          Upgraded      \* the index was dropped by migrate_legacy_message_fts

ASSUME ProjectionsAssumption == Stored \subseteq Nat \ {0} /\ Upgraded \in BOOLEAN

VARIABLES rows,        \* message, message_body and message_fts, by message
          torn,        \* an index 'delete' named values that were not indexed
          threadView,  \* thread_view
          convRow,     \* conversation
          backfilled,  \* backfill_message_fts ran in this process
          rederive,    \* rederive_message_metadata: off, or its cursor and page
          marker       \* store_maintenance_marker of the pass

projVars == <<rows, torn, threadView, convRow, backfilled, rederive, marker>>

Threads == {"t1", "t2"}
ThreadOf(m) == IF m \in FirstThread THEN "t1" ELSE "t2"

\* header: 0 for no row, else the version of the indexed columns.  body: the row
\* of message_body exists; text: its body_text, 0 for NULL.  cc: a derived column
\* has its value.  doc: the indexed values, header 0 for no document.
NoDocument == [header |-> 0, text |-> 0]
NoRow == [header |-> 0, read |-> FALSE, body |-> FALSE, text |-> 0, cc |-> FALSE, doc |-> NoDocument]

Held(all) == {m \in Stored : all[m].header > 0}

NoConversation == [latest |-> 0, count |-> 0, unread |-> 0]

\* refresh_thread_projection_tx and refresh_conversation_projection_tx.
ThreadOfRows(all, t) == {m \in Held(all) : ThreadOf(m) = t}
ConversationOfRows(all, t) ==
    LET members == ThreadOfRows(all, t)
    IN  IF members = {} THEN NoConversation
        ELSE [latest |-> Max(members), count |-> Cardinality(members),
              unread |-> Cardinality({m \in members : ~all[m].read})]

-----------------------------------------------------------------------------
\* An index 'delete' takes out the document only with the values it went in with.
Deleted(r, header, text) ==
    [row |-> [r EXCEPT !.doc = NoDocument], ok |-> r.doc = [header |-> header, text |-> text]]
Documented(r, text) == [r EXCEPT !.doc = [header |-> r.header, text |-> text]]

\* message_fts_ai
InsertedRow(r) == [row |-> Documented(r, r.text), ok |-> TRUE]

\* message_fts_au
UpdatedRow(old, new) ==
    [row |-> Documented(new, new.text), ok |-> Deleted(old, old.header, old.text).ok]

\* message_body_fts_ai and _au, under upsert_body_tx
WithBody(r, text) ==
    LET was == IF r.body THEN r.text ELSE 0
    IN  [row |-> Documented([r EXCEPT !.body = TRUE, !.text = text], text),
         ok |-> Deleted(r, r.header, was).ok]

\* message_body_fts_ad, then message_fts_ad: delete_message_tx drops the body first.
DroppedRow(r) ==
    LET bodiless == IF r.body THEN Documented([r EXCEPT !.body = FALSE, !.text = 0], 0) ELSE r
        bodyOk == r.body => Deleted(r, r.header, r.text).ok
    IN  [row |-> NoRow, ok |-> bodyOk /\ Deleted(bodiless, r.header, bodiless.text).ok]

-----------------------------------------------------------------------------
\* upsert_message_record_tx: an empty incoming value means "not carried".
KeptCc(r, carried) == r.cc \/ carried

\* apply_message_record_tx: the row, then the body if the record has one.
Applied1(r, rec) ==
    LET new == [r EXCEPT !.header = rec.header, !.read = rec.read, !.cc = KeptCc(r, rec.cc)]
        first == IF r.header = 0 THEN InsertedRow(new) ELSE UpdatedRow(r, new)
    IN  IF ~rec.body THEN first
        ELSE LET second == WithBody(first.row, rec.text)
             IN  [row |-> second.row, ok |-> first.ok /\ second.ok]

\* The records a provider sends: the message with or without its body, and its
\* second version, read, which carries neither body nor derived header.
FirstRecords == [header : {1}, read : {FALSE}, cc : BOOLEAN, body : BOOLEAN, text : {1}]
SecondRecord == [header |-> 2, read |-> TRUE, cc |-> FALSE, body |-> FALSE, text |-> 0]
Records == FirstRecords \cup {SecondRecord}

\* Fault: only the applied messages' projections are refreshed.
TouchedThreadsApplied(dels, ups) == {ThreadOf(m) : m \in ups}

\* track_applied_message_projection_inputs and delete_message_and_track_...
TouchedThreads(dels, ups) == {ThreadOf(m) : m \in dels \cup ups}

Refreshed(all, touched) ==
    /\ threadView' = [t \in Threads |-> IF t \in touched THEN ThreadOfRows(all, t) ELSE threadView[t]]
    /\ convRow' = [t \in Threads |-> IF t \in touched THEN ConversationOfRows(all, t) ELSE convRow[t]]

\* apply_sync_batch_tx: deletions, then records, then the touched projections.
ApplyBatch == \E dels \in SUBSET Held(rows), m \in Stored, rec \in Records :
    /\ m \notin dels /\ Cardinality(dels) <= 1
    /\ LET dropped == [k \in Stored |-> IF k \in dels THEN DroppedRow(rows[k]) ELSE [row |-> rows[k], ok |-> TRUE]]
           applied == Applied1(dropped[m].row, rec)
           all == [k \in Stored |-> IF k = m THEN applied.row ELSE dropped[k].row]
       IN  /\ rows' = all
           /\ torn' = (torn \/ ~applied.ok \/ \E k \in Stored : ~dropped[k].ok)
           /\ Refreshed(all, TouchedThreads(dels, {m}))
    /\ UNCHANGED <<backfilled, rederive, marker>>

\* fill_derived_metadata_tx: an update of the row like any other.
Filled(r) == IF r.header = 0 \/ r.cc THEN [row |-> r, ok |-> TRUE]
             ELSE UpdatedRow(r, [r EXCEPT !.cc = TRUE])

\* apply_message_body_tx; a message without a row rolls the transaction back.
ApplyBody == \E m \in Held(rows), text \in {0, 1} :
    /\ LET first == WithBody(rows[m], text)
           second == Filled(first.row)
       IN  /\ rows' = [rows EXCEPT ![m] = second.row]
           /\ torn' = (torn \/ ~first.ok \/ ~second.ok)
    /\ UNCHANGED <<threadView, convRow, backfilled, rederive, marker>>

-----------------------------------------------------------------------------
\* backfill_message_fts: a rebuild only when messages exist and no document does.
BackfillIndex ==
    /\ ~backfilled /\ backfilled' = TRUE
    /\ rows' = IF Held(rows) # {} /\ \A m \in Stored : rows[m].doc = NoDocument
               THEN [m \in Stored |-> IF rows[m].header = 0 THEN rows[m]
                                      ELSE Documented(rows[m], rows[m].text)]
               ELSE rows
    /\ UNCHANGED <<torn, threadView, convRow, rederive, marker>>

\* rederive_stale_message_metadata: one page of cached bodies at a time, read
\* outside the write that fills the columns.
NoPass == [at |-> "off", cursor |-> 0, page |-> {}]
BeginRederive == /\ rederive.at = "off" /\ ~marker
                 /\ rederive' = [NoPass EXCEPT !.at = "list"]
                 /\ UNCHANGED <<rows, torn, threadView, convRow, backfilled, marker>>

\* cached_raw_bodies_after, a page of one.
ListPage == /\ rederive.at = "list"
            /\ LET beyond == {m \in Held(rows) : rows[m].body /\ m > rederive.cursor}
               IN  IF beyond = {}
                   THEN rederive' = NoPass /\ marker' = TRUE
                   ELSE /\ rederive' = [at |-> "fill", cursor |-> Min(beyond), page |-> {Min(beyond)}]
                        /\ UNCHANGED marker
            /\ UNCHANGED <<rows, torn, threadView, convRow, backfilled>>

\* apply_rederive_batch
FillPage == /\ rederive.at = "fill"
            /\ LET m == Min(rederive.page)
                   done == Filled(rows[m])
               IN  rows' = [rows EXCEPT ![m] = done.row] /\ torn' = (torn \/ ~done.ok)
            /\ rederive' = [rederive EXCEPT !.at = "list", !.page = {}]
            /\ UNCHANGED <<threadView, convRow, backfilled, marker>>

\* The process ends; the maintenance starts again from its markers.
StopStore == /\ backfilled \/ rederive # NoPass
             /\ backfilled' = FALSE /\ rederive' = NoPass
             /\ UNCHANGED <<rows, torn, threadView, convRow, marker>>

-----------------------------------------------------------------------------
\* An upgraded store has its messages and an empty index.
OldRow == [NoRow EXCEPT !.header = 1, !.body = TRUE, !.text = 1]

ProjInit == /\ rows = [m \in Stored |-> IF Upgraded THEN OldRow ELSE NoRow] /\ torn = FALSE
            /\ threadView = [t \in Threads |-> ThreadOfRows(rows, t)]
            /\ convRow = [t \in Threads |-> ConversationOfRows(rows, t)]
            /\ backfilled = FALSE /\ rederive = NoPass /\ marker = FALSE

ProjNext == ApplyBatch \/ ApplyBody \/ BackfillIndex \/ BeginRederive \/ ListPage \/ FillPage \/ StopStore

ProjSpec == ProjInit /\ [][ProjNext]_projVars

-----------------------------------------------------------------------------
\* The thread and conversation rows are what the message rows say, whichever
\* mixture of deletions and records a batch brings.
ConversationExact == \A t \in Threads : /\ threadView[t] = ThreadOfRows(rows, t)
                                        /\ convRow[t] = ConversationOfRows(rows, t)

\* Once the deferred backfill ran, every message is found by its header and by
\* the body that is cached now, and no index deletion named other values than
\* those indexed (the external-content rule of the schema's comment).  It fails
\* when Upgraded = TRUE: a sync that writes one document before the deferred
\* backfill makes the backfill take the index for built.
IndexExact == backfilled => /\ ~torn
                            /\ \A m \in Stored : rows[m].doc = IF rows[m].header = 0 THEN NoDocument
                                                 ELSE [header |-> rows[m].header, text |-> rows[m].text]

\* What is derived from the message rows equals what recomputing it would give.
DerivedExact == ConversationExact /\ IndexExact
=============================================================================
