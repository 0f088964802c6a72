------------------------------ MODULE Overlay ------------------------------
(***************************************************************************)
(* The derived plane: what the user sees of a message is the replay of the *)
(* operation log over the base row sync owns.  The overlay entry is kept   *)
(* by hand: every handler that changes the log or the base re-derives it   *)
(* in a later transaction, and a completed sync cycle truncates what the   *)
(* sync chain absorbed and re-derives everything.                          *)
(*                                                                         *)
(* Rows do not interact, so one message is modelled, with the provider as  *)
(* its environment.  Commands run beside the account's runtime, which      *)
(* flushes and pulls in turn; the daemon may stop between transactions.    *)
(***************************************************************************)
EXTENDS Naturals

CONSTANTS MaxAsserts,   \* bound on the operation ids an assertion may take
          MaxCycles,    \* bound on the sync cycles begun
          MaxRemote,    \* bound on the changes other clients make
          MaxStops      \* bound on daemon stops and store repairs

ASSUME OverlayAssumption == {MaxAsserts, MaxCycles, MaxRemote, MaxStops} \subseteq Nat

VARIABLES jmap,         \* the account's gateway: JMAP reads back, IMAP does not
          server,       \* the message at the provider: a record, or Gone
          position,     \* the provider's sync position
          baseRow,      \* the base row
          entry,        \* the overlay entry: Gone (none), Tombstone, or a record
          ops,          \* the log: a row is older the smaller its id
          nextOp,       \* the next row's id
          cmdRefresh,   \* the operation whose command still has to re-derive the row
          phase,        \* where the runtime's cycle is
          pushing,      \* the operation the flush holds, or Nobody
          pulled,       \* the record the pull read, not yet applied
          clock, cycleStart, cursor, cycles, remoteEdits, stops,
          observed,     \* the cycle's pull is done: what is left is its second flush
          unswept,      \* the log changed under a step that does not re-derive
          wanted        \* history: the user's destroy stands

overlayVars == <<jmap, server, position, baseRow, entry, ops, nextOp, cmdRefresh, phase, pushing,
                 pulled, clock, cycleStart, cursor, cycles, observed, remoteEdits, stops, unswept,
                 wanted>>
runVars == <<jmap, phase, pushing, pulled, clock, cycleStart, cursor, cycles, observed>>
faultVars == <<remoteEdits, stops>>

Gone == [gone |-> TRUE]
Tombstone == [tombstone |-> TRUE]
Nobody == 0
Record == [flag : BOOLEAN, rev : 0..MaxRemote]

-----------------------------------------------------------------------------
\* is_replayable and list_unsettled_operations: a failed assertion no longer
\* folds; a discard is not a content operation either.
IsReplayable(op) == op.state \in {"pending", "inflight", "applied"}

Folding(log) == {op \in log : IsReplayable(op)}
Has(log, kind) == \E op \in log : op.kind = kind

\* project_record: assertions in log order; a destroy ends the fold.
ProjectRecord(record, log) ==
    IF Has(log, "destroy") THEN Tombstone ELSE [record EXCEPT !.flag = @ \/ log # {}]

\* Fault: a tombstone with no operation left falls back to the base row.
FoldForgettingTombstones(row, log, old) ==
    LET folding == Folding(log)
    IN IF folding = {} THEN Gone
       ELSE IF Has(folding, "discard") THEN IF row = Gone THEN Gone ELSE Tombstone
       ELSE IF row # Gone THEN ProjectRecord(row, folding)
       ELSE IF Has(folding, "destroy") THEN Tombstone ELSE Gone

\* fold_overlay_row: the entry the log and the base row give.  With nothing to
\* replay, a tombstone over a surviving base row keeps hiding it; a discard
\* hides a base row; assertions over no base row fold to nothing, a destroy to
\* a tombstone.
FoldOverlayRow(row, log, old) ==
    LET folding == Folding(log)
    IN IF folding = {} THEN IF old = Tombstone /\ row # Gone THEN Tombstone ELSE Gone
       ELSE IF Has(folding, "discard") THEN IF row = Gone THEN Gone ELSE Tombstone
       ELSE IF row # Gone THEN ProjectRecord(row, folding)
       ELSE IF Has(folding, "destroy") THEN Tombstone ELSE Gone

\* derive_overlay: one transaction reads base, log and entry and writes the entry.
Refresh == entry' = FoldOverlayRow(baseRow, ops, entry)

\* overlay_effective_visible and the effective read.
Shown == CASE entry = Tombstone -> Gone [] entry = Gone -> baseRow [] OTHER -> entry

Active == {op \in ops : op.state \in {"pending", "inflight"}}
Pushed == CHOOSE op \in ops : op.id = pushing
Rewritten(op, as) == (ops \ {op}) \cup {as}

OverlayInit ==
    /\ jmap \in BOOLEAN /\ server = [flag |-> FALSE, rev |-> 0] /\ baseRow = server /\ position = 0
    /\ entry = Gone /\ ops = {} /\ nextOp = 1 /\ cmdRefresh = Nobody
    /\ phase = "idle" /\ pushing = Nobody /\ pulled = Gone
    /\ clock = 1 /\ cycleStart = 0 /\ cursor = 0 /\ cycles = 0 /\ observed = FALSE
    /\ remoteEdits = 0 /\ stops = 0 /\ unswept = FALSE /\ wanted = FALSE

-----------------------------------------------------------------------------
\* coalesce_pending_assertions and enqueue: a destroy supersedes every pending
\* assertion, a keyword change the pending keyword change.
Coalesced(kind) ==
    {op \in ops : ~(op.state = "pending" /\ (kind = "destroy" \/ op.kind = kind))}

NewOp(id, kind) == [id |-> id, kind |-> kind, state |-> "pending", settledAt |-> 0,
                    watermark |-> Nobody]

\* set_keywords and destroy_message up to the overlay write: a destroy of a
\* message no longer shown is refused and its operation taken back.
QueueAssertion(kind) ==
    /\ nextOp <= MaxAsserts /\ cmdRefresh = Nobody /\ Shown # Gone
    /\ ops' = Coalesced(kind) \cup {NewOp(nextOp, kind)}
    /\ nextOp' = nextOp + 1 /\ cmdRefresh' = nextOp
    /\ unswept' = TRUE
    /\ UNCHANGED <<server, position, baseRow, entry, runVars, faultVars, wanted>>

\* apply_assertion_to_overlay: the command's own re-derivation, then its answer.
CommandRefresh ==
    /\ cmdRefresh # Nobody /\ Refresh
    /\ cmdRefresh' = Nobody /\ unswept' = FALSE
    /\ wanted' = (wanted \/ \E op \in Folding(ops) : op.id = cmdRefresh /\ op.kind = "destroy")
    /\ UNCHANGED <<server, position, baseRow, ops, nextOp, runVars, faultVars>>

\* discard_operation and retry_operation: neither re-derives an assertion's row.
DiscardOperation == \E op \in ops :
    /\ cmdRefresh = Nobody /\ op.state \in {"pending", "failed"} /\ op.kind # "discard"
    /\ ops' = ops \ {op}
    /\ wanted' = (wanted /\ op.kind # "destroy") /\ unswept' = TRUE
    /\ UNCHANGED <<server, position, baseRow, entry, nextOp, cmdRefresh, runVars, faultVars>>

RetryOperation == \E op \in ops :
    /\ cmdRefresh = Nobody /\ op.state = "failed"
    /\ ops' = Rewritten(op, [op EXCEPT !.state = "pending"]) /\ unswept' = TRUE
    /\ wanted' = (wanted /\ op.kind = "destroy")
    /\ UNCHANGED <<server, position, baseRow, entry, nextOp, cmdRefresh, runVars, faultVars>>

-----------------------------------------------------------------------------
\* sync_account_with_mode: the cycle's entry stamp, on the same clock as the
\* settlement markers; a cycle may begin within the second of the last one.
BeginCycle == \E now \in {clock, clock + 1} :
    /\ phase = "idle" /\ cycles < MaxCycles
    /\ clock' = now /\ cycleStart' = now /\ cycles' = cycles + 1 /\ phase' = "flush"
    /\ observed' = FALSE
    /\ UNCHANGED <<jmap, server, position, baseRow, entry, ops, nextOp, cmdRefresh, pushing, pulled,
                   cursor, faultVars, unswept, wanted>>

ClaimOp == \E op \in Active :
    /\ phase = "flush" /\ pushing = Nobody /\ \A other \in Active : op.id <= other.id
    /\ ops' = Rewritten(op, [op EXCEPT !.state = "inflight"]) /\ pushing' = op.id
    /\ UNCHANGED <<jmap, server, position, baseRow, entry, nextOp, cmdRefresh, phase, pulled, clock,
                   cycleStart, cursor, cycles, observed, faultVars, unswept, wanted>>

\* The provider takes the operation; a destroy it acknowledges may still be lost.
Applied(op, lost) ==
    IF server = Gone \/ lost THEN server
    ELSE IF op.kind = "flag" THEN [server EXCEPT !.flag = TRUE] ELSE Gone

\* settle_message_operation with a readback: the operation leaves the log, the
\* provider's record becomes the base row, and the row is re-derived, in three
\* transactions.
SettleReadback ==
    /\ jmap /\ server # Gone /\ phase = "flush" /\ pushing # Nobody /\ Pushed.kind # "discard"
    /\ server' = Applied(Pushed, FALSE) /\ position' = position + 1
    /\ ops' = ops \ {Pushed} /\ pulled' = server' /\ phase' = "settling"
    /\ unswept' = TRUE
    /\ UNCHANGED <<jmap, baseRow, entry, nextOp, cmdRefresh, pushing, clock, cycleStart, cursor,
                   cycles, observed, faultVars, wanted>>

\* A rejected assertion settles the same way, with the unchanged record.
SettleRejected ==
    /\ jmap /\ server # Gone /\ phase = "flush" /\ pushing # Nobody /\ Pushed.kind # "discard"
    /\ ops' = ops \ {Pushed} /\ pulled' = server /\ phase' = "settling"
    /\ wanted' = (wanted /\ Pushed.kind # "destroy") /\ unswept' = TRUE
    /\ UNCHANGED <<jmap, server, position, baseRow, entry, nextOp, cmdRefresh, pushing, clock,
                   cycleStart, cursor, cycles, observed, faultVars>>

WriteReadback ==
    /\ phase = "settling"
    /\ baseRow' = pulled /\ phase' = "refreshing"
    /\ UNCHANGED <<jmap, server, position, entry, ops, nextOp, cmdRefresh, pushing, pulled, clock,
                   cycleStart, cursor, cycles, observed, faultVars, unswept, wanted>>

\* A blind settlement rests the operation in the log, marked with the clock and,
\* on JMAP (a keyword change whose readback failed), with the position that
\* includes it.
SettleBlind == \E lost \in BOOLEAN :
    LET mark == [Pushed EXCEPT !.state = "applied", !.settledAt = clock,
                               !.watermark = IF jmap THEN position + 1 ELSE Nobody]
    IN /\ phase = "flush" /\ pushing # Nobody /\ Pushed.kind # "discard"
       /\ jmap => server # Gone /\ Pushed.kind = "flag"
       /\ lost => Pushed.kind = "destroy"
       /\ server' = Applied(Pushed, lost) /\ position' = position + 1
       /\ ops' = Rewritten(Pushed, mark) /\ phase' = "refreshing"
       /\ UNCHANGED <<jmap, baseRow, entry, nextOp, cmdRefresh, pushing, pulled, clock,
                      cycleStart, cursor, cycles, observed, faultVars, unswept, wanted>>

\* A draft delete settles by its removal alone: the row is not re-derived.
SettleDiscard ==
    /\ phase = "flush" /\ pushing # Nobody /\ Pushed.kind = "discard"
    /\ server' = Gone /\ position' = position + 1
    /\ ops' = ops \ {Pushed} /\ pushing' = Nobody /\ unswept' = TRUE
    /\ UNCHANGED <<jmap, baseRow, entry, nextOp, cmdRefresh, phase, pulled, clock, cycleStart,
                   cursor, cycles, observed, faultVars, wanted>>

\* The permanent arm: the operation fails in the log, then the row is re-derived.
FailPermanently ==
    /\ phase = "flush" /\ pushing # Nobody
    /\ ops' = Rewritten(Pushed, [Pushed EXCEPT !.state = "failed"]) /\ phase' = "refreshing"
    /\ wanted' = (wanted /\ Pushed.kind # "destroy") /\ unswept' = TRUE
    /\ UNCHANGED <<jmap, server, position, baseRow, entry, nextOp, cmdRefresh, pushing, pulled, clock,
                   cycleStart, cursor, cycles, observed, faultVars>>

FlushRefresh ==
    /\ phase = "refreshing" /\ Refresh
    /\ phase' = "flush" /\ pushing' = Nobody /\ unswept' = (cmdRefresh # Nobody)
    /\ UNCHANGED <<jmap, server, position, baseRow, ops, nextOp, cmdRefresh, pulled, clock, cycleStart,
                   cursor, cycles, observed, faultVars, wanted>>

\* A cycle flushes before its pull and, for what automation queued, after it.
AfterFlush == IF observed THEN "truncate" ELSE "pull"

\* The transient arm gives the operation back and ends the pass.
FlushStops ==
    /\ phase = "flush" /\ pushing # Nobody
    /\ ops' = Rewritten(Pushed, [Pushed EXCEPT !.state = "pending"])
    /\ phase' = AfterFlush /\ pushing' = Nobody
    /\ UNCHANGED <<jmap, server, position, baseRow, entry, nextOp, cmdRefresh, pulled, clock,
                   cycleStart, cursor, cycles, observed, faultVars, unswept, wanted>>

FlushDone ==
    /\ phase = "flush" /\ pushing = Nobody
    /\ Active = {}
    /\ phase' = AfterFlush
    /\ UNCHANGED <<jmap, server, position, baseRow, entry, ops, nextOp, cmdRefresh, pushing, pulled,
                   clock, cycleStart, cursor, cycles, observed, faultVars, unswept, wanted>>

\* The gateway reads the provider; ServiceSyncSink::emit writes the chunk to
\* base, with the cursor, and replays the written rows before it publishes.
Pull == /\ phase = "pull"
        /\ pulled' = server /\ cursor' = position /\ phase' = "apply"
        /\ UNCHANGED <<jmap, server, position, baseRow, entry, ops, nextOp, cmdRefresh, pushing, clock,
                       cycleStart, cycles, observed, faultVars, unswept, wanted>>

ApplyChunk == /\ phase = "apply"
              /\ baseRow' = pulled /\ phase' = "replay" /\ unswept' = TRUE
              /\ UNCHANGED <<jmap, server, position, entry, ops, nextOp, cmdRefresh, pushing, pulled,
                             clock, cycleStart, cursor, cycles, observed, faultVars, wanted>>

\* Fault: the chunk is published without the replay of what it wrote.
PublishWithoutReplay ==
    /\ phase = "replay" /\ UNCHANGED entry
    /\ phase' = "flush" /\ observed' = TRUE /\ unswept' = (cmdRefresh # Nobody)
    /\ UNCHANGED <<jmap, server, position, baseRow, ops, nextOp, cmdRefresh, pushing, pulled,
                   clock, cycleStart, cursor, cycles, faultVars, wanted>>

\* replay_base_write, over the rows replay_inventory names.
ReplayBaseWrite ==
    /\ phase = "replay"
    /\ IF Folding(ops) # {} \/ entry # Gone THEN Refresh ELSE UNCHANGED entry
    /\ phase' = "flush" /\ observed' = TRUE /\ unswept' = (cmdRefresh # Nobody)
    /\ UNCHANGED <<jmap, server, position, baseRow, ops, nextOp, cmdRefresh, pushing, pulled, clock,
                   cycleStart, cursor, cycles, faultVars, wanted>>

\* truncate_settled_operations: one settled operation the sync chain absorbed
\* leaves the log, with the row's re-derivation in the same transaction.
IsAbsorbed(op) == /\ op.state = "applied"
                  /\ op.settledAt < cycleStart \/ (op.watermark = cursor /\ cursor # Nobody)

Truncate == \E op \in ops :
    /\ phase = "truncate" /\ IsAbsorbed(op)
    /\ \A other \in ops : IsAbsorbed(other) => op.id <= other.id
    /\ ops' = ops \ {op}
    /\ entry' = FoldOverlayRow(baseRow, ops', entry)
    /\ UNCHANGED <<server, position, baseRow, nextOp, cmdRefresh, runVars, faultVars, unswept,
                   wanted>>

TruncateDone ==
    /\ phase = "truncate" /\ \A op \in ops : ~IsAbsorbed(op)
    /\ phase' = "sweep"
    /\ UNCHANGED <<jmap, server, position, baseRow, entry, ops, nextOp, cmdRefresh, pushing, pulled,
                   clock, cycleStart, cursor, cycles, observed, faultVars, unswept, wanted>>

\* sweep_message_overlay: a tombstone over a base row that survived the pull,
\* with no operation of its own, is repaired by one delete; any other row is
\* re-derived.
Repairable == entry = Tombstone /\ baseRow # Gone /\ ops = {}

SweepRow ==
    /\ phase = "sweep" /\ cmdRefresh = Nobody
    /\ ops' = IF Repairable THEN {NewOp(nextOp, "discard")} ELSE ops
    /\ nextOp' = IF Repairable THEN nextOp + 1 ELSE nextOp
    /\ entry' = FoldOverlayRow(baseRow, ops', entry)
    /\ phase' = "idle" /\ unswept' = FALSE
    /\ UNCHANGED <<jmap, server, position, baseRow, cmdRefresh, pushing, pulled, clock,
                   cycleStart, cursor, cycles, observed, faultVars, wanted>>

\* A cycle that fails in its pull returns before the sweep.
AbortPull ==
    /\ phase \in {"pull", "apply"} /\ phase' = "idle"
    /\ UNCHANGED <<jmap, server, position, baseRow, entry, ops, nextOp, cmdRefresh, pushing, pulled,
                   clock, cycleStart, cursor, cycles, observed, faultVars, unswept, wanted>>

-----------------------------------------------------------------------------
RemoteEdit ==
    /\ remoteEdits < MaxRemote /\ server # Gone
    /\ server' \in {[server EXCEPT !.rev = @ + 1], Gone}
    /\ position' = position + 1 /\ remoteEdits' = remoteEdits + 1
    /\ UNCHANGED <<baseRow, entry, ops, nextOp, cmdRefresh, runVars, stops, unswept, wanted>>

\* The daemon stops anywhere between transactions.
Stop == /\ stops < MaxStops /\ stops' = stops + 1
        /\ phase' = "idle" /\ pushing' = Nobody /\ cmdRefresh' = Nobody
        /\ unswept' = (unswept \/ phase # "idle")
        /\ UNCHANGED <<jmap, server, position, baseRow, entry, ops, nextOp, pulled, clock, cycleStart,
                       cursor, cycles, observed, remoteEdits, wanted>>

\* A damaged store is rebuilt from the salvaged log over an empty base, and
\* replay_account_overrides restores the derived plane; a destroy stands as far
\* as the log still hides the row.
Rebuild == /\ stops < MaxStops /\ stops' = stops + 1
           /\ phase' = "idle" /\ pushing' = Nobody /\ cmdRefresh' = Nobody
           /\ baseRow' = Gone /\ cursor' = 0
           /\ entry' = FoldOverlayRow(Gone, ops, Gone) /\ unswept' = FALSE
           /\ wanted' = (wanted /\ entry' = Tombstone)
           /\ UNCHANGED <<jmap, server, position, ops, nextOp, pulled, clock, cycleStart, cycles,
                          observed, remoteEdits>>

Command == QueueAssertion("flag") \/ QueueAssertion("destroy") \/ CommandRefresh \/ DiscardOperation
           \/ RetryOperation
Cycle == \/ BeginCycle \/ ClaimOp \/ SettleReadback \/ SettleRejected \/ WriteReadback
         \/ SettleBlind \/ SettleDiscard \/ FailPermanently \/ FlushRefresh \/ FlushStops \/ FlushDone
         \/ Pull \/ ApplyChunk \/ ReplayBaseWrite \/ Truncate \/ TruncateDone \/ SweepRow
OverlayNext == Command \/ Cycle \/ AbortPull \/ RemoteEdit \/ Stop \/ Rebuild

OverlaySpec == OverlayInit /\ [][OverlayNext]_overlayVars

-----------------------------------------------------------------------------
\* What is served is what the log says: outside a handler's own window, and
\* but for a user's discard or retry and a repair's delete, which wait for the sweep, the overlay
\* entry is the replay of the log over the base row, whatever commands, chunks,
\* settlements and stops came between.
ServedIsReplay ==
    (~unswept /\ phase \in {"idle", "flush", "truncate"} /\ pushing = Nobody) =>
        entry = FoldOverlayRow(baseRow, ops, entry)

\* A message the user destroyed is not shown again while the destroy stands:
\* not by a snapshot of the old base, a truncation that came too early, a lost
\* expunge, or a stop.
DestroyedStaysHidden == wanted => Shown = Gone
=============================================================================
