------------------------------- MODULE Drafts -------------------------------
(***************************************************************************)
(* One compose session: its stable key, the registry that maps the key to  *)
(* the entity holding the draft now, the queued saves, discards and sends, *)
(* and the provider's drafts, whose ids rotate with every save.  Sync      *)
(* writes the registry through with the rows it applies.                   *)
(*                                                                         *)
(* What the user wrote is a body, numbered in the order it was written.    *)
(* The daemon may stop between a provider call and its settlement; JMAP    *)
(* answers a repeated create under the same create id with the same draft  *)
(* (the code's assumption), IMAP appends another.                          *)
(***************************************************************************)
EXTENDS Naturals

CONSTANTS MaxBodies,      \* bound on what the user writes
          MaxMishaps   \* bound on daemon stops, lost answers and retries

ASSUME DraftsAssumption == {MaxBodies, MaxMishaps} \subseteq Nat

VARIABLES onJmap,       \* the account's gateway
          registry,     \* NoEntity, Key, or a provider id
          queue,        \* the session's operations: a row is older the smaller its id
          nextRow,      \* the next row's id
          remoteDrafts, \* provider id -> body, the drafts that carry the key
          createdBy,    \* operation id -> the draft its create id made
          draftRows,    \* provider ids of the drafts in base
          sentBodies,   \* bodies the provider accepted for delivery
          written,      \* the last body written
          nextId,       \* fresh provider ids
          inHand,       \* the operation as the flusher fetched it: id and body
          claimed,      \* the operation being pushed, 0 for none
          undoing,      \* the body of a send taken back, not yet saved, 0 for none
          mishaps,
          givenUp,      \* history: bodies up to this one the user discarded or overwrote
          slipped       \* history: bodies taken in by the known gaps (a stop between an undo
                        \* and its save, a save between the flusher's fetch and its claim)

draftVars == <<onJmap, registry, queue, nextRow, remoteDrafts, createdBy, draftRows, sentBodies,
               written, nextId, inHand, claimed, undoing, mishaps, givenUp, slipped>>
userVars == <<written, undoing, givenUp, slipped>>
flushVars == <<inHand, claimed>>
remoteVars == <<onJmap, remoteDrafts, createdBy, sentBodies, nextId>>

NoEntity == 0
Key == 100           \* the local key standing for itself: no provider has it
EmptyHand == [id |-> 0, body |-> 0]

IsSave(op) == op.kind = "save"
At(id) == CHOOSE op \in queue : op.id = id
Edited(op, now) == (queue \ {op}) \cup {now}

DraftsInit == /\ onJmap \in BOOLEAN /\ registry = NoEntity /\ queue = {} /\ nextRow = 1
              /\ remoteDrafts = << >> /\ createdBy = << >> /\ draftRows = {} /\ sentBodies = {}
              /\ written = 0 /\ nextId = 1 /\ claimed = 0 /\ undoing = 0 /\ mishaps = 0
              /\ givenUp = 0 /\ slipped = {} /\ inHand = EmptyHand

-----------------------------------------------------------------------------
\* Fault: a save rewrites the payload of an operation already claimed.
QueuedSavesClaimed == {op \in queue : IsSave(op) /\ op.state \in {"pending", "inflight"}}

\* The saves replace_operation_payload may still rewrite.
QueuedSaves == {op \in queue : IsSave(op) /\ op.state = "pending"}
LastQueued == CHOOSE op \in QueuedSaves : \A other \in QueuedSaves : other.id <= op.id

NewRow(kind, body) == [id |-> nextRow, kind |-> kind, create |-> registry = NoEntity,
                       state |-> "pending", tried |-> FALSE, body |-> body, held |-> FALSE]

\* save_draft: the last save still pending takes the new body in place, unless
\* the row is fetched already (a slip); any other save is a new operation, an
\* update when the key is known.
Save(body) ==
    IF QueuedSaves # {}
    THEN /\ queue' = Edited(LastQueued, [LastQueued EXCEPT !.body = body])
         /\ slipped' = IF claimed = 0 /\ LastQueued.id = inHand.id
                       THEN slipped \cup {body} ELSE slipped
         /\ UNCHANGED nextRow
    ELSE /\ queue' = queue \cup {NewRow("save", body)}
         /\ nextRow' = nextRow + 1 /\ UNCHANGED slipped

\* Reserve at admission: an unknown key maps to itself.
Reserve == IF registry = NoEntity THEN Key ELSE registry

\* The compose window closes on send and on discard: the session goes on while
\* neither is queued.
Composing == undoing = 0 /\ \A op \in queue : IsSave(op)

SaveDraft ==
    /\ written < MaxBodies /\ Composing
    /\ written' = written + 1
    /\ Save(written') /\ registry' = Reserve
    /\ UNCHANGED <<remoteVars, draftRows, flushVars, undoing, mishaps, givenUp>>

\* discard_draft: queued and failed saves are superseded.  With no base row, no
\* other save and no rotation the discard is local; otherwise the provider's
\* destroy is queued.
DiscardDraft ==
    LET kept == {op \in queue : ~(IsSave(op) /\ op.state \in {"pending", "failed"})}
        reached == \/ registry \in draftRows
                   \/ \E op \in kept : IsSave(op) /\ op.state = "inflight"
                   \/ registry \notin {NoEntity, Key}
    IN /\ registry # NoEntity /\ written > givenUp /\ Composing
       /\ queue' = IF reached THEN kept \cup {NewRow("discard", 0)} ELSE kept
       /\ nextRow' = IF reached THEN nextRow + 1 ELSE nextRow
       /\ registry' = IF reached THEN registry ELSE NoEntity
       /\ givenUp' = written
       /\ UNCHANGED <<remoteVars, draftRows, written, flushVars, undoing, mishaps, slipped>>

\* enqueue_send: the body leaves under a new operation, at once or held; a
\* known key, and a held send's key in any case, is consumed.
QueueSend == \E held \in BOOLEAN :
    /\ written < MaxBodies /\ Composing /\ (held \/ registry # NoEntity)
    /\ written' = written + 1
    /\ queue' = queue \cup {[NewRow("send", written') EXCEPT !.held = held]}
    /\ nextRow' = nextRow + 1
    /\ registry' = IF held THEN Reserve ELSE registry
    /\ UNCHANGED <<remoteVars, draftRows, flushVars, undoing, mishaps, givenUp, slipped>>

\* discard_operation of a send: the operation goes first, then its content is
\* saved again as the draft.
UndoSend == \E op \in queue :
    /\ op.kind = "send" /\ op.state \in {"pending", "failed", "uncertain"}
    /\ queue' = queue \ {op} /\ undoing' = op.body
    /\ UNCHANGED <<remoteVars, registry, nextRow, draftRows, written, flushVars, mishaps, givenUp,
                   slipped>>

RestoreDraft ==
    /\ undoing # 0
    /\ Save(undoing) /\ registry' = Reserve /\ undoing' = 0
    /\ UNCHANGED <<remoteVars, draftRows, written, flushVars, mishaps, givenUp>>

\* retry_operation.  An older save retried is pushed over newer content, and
\* a later save may coalesce into it ahead of one still in flight: the session
\* has given up its order.
RetryDraft == \E op \in queue :
    /\ op.state \in {"failed", "uncertain"}
    /\ mishaps < MaxMishaps /\ mishaps' = mishaps + 1
    /\ queue' = Edited(op, [op EXCEPT !.state = "pending"])
    /\ givenUp' = IF IsSave(op) /\ op.body < written THEN MaxBodies ELSE givenUp
    /\ UNCHANGED <<remoteVars, registry, nextRow, draftRows, written, undoing, slipped, flushVars>>

-----------------------------------------------------------------------------
Flushable(op) == op.state \in {"pending", "inflight"} /\ ~op.held

\* The flusher re-fetches the oldest ready operation; a send found inflight was
\* interrupted and parks.
FetchDraft == \E op \in queue :
    /\ inHand = EmptyHand /\ Flushable(op)
    /\ \A older \in queue : older.id < op.id => ~Flushable(older)
    /\ IF op.kind = "send" /\ op.state = "inflight"
       THEN queue' = Edited(op, [op EXCEPT !.state = "uncertain"]) /\ UNCHANGED inHand
       ELSE inHand' = [id |-> op.id, body |-> op.body] /\ UNCHANGED queue
    /\ UNCHANGED <<remoteVars, registry, nextRow, draftRows, claimed, userVars, mishaps>>

\* claim_operation_for_flush: by id and state; the copy in hand is what is
\* pushed.  An operation taken back in between is skipped.
Claimable(op) == op.id = inHand.id /\ op.state \in {"pending", "inflight"}

ClaimDraft ==
    /\ inHand # EmptyHand /\ claimed = 0
    /\ \/ \E op \in queue : /\ Claimable(op) /\ claimed' = inHand.id
                            /\ queue' = Edited(op, [op EXCEPT !.state = "inflight"])
                            /\ UNCHANGED inHand
       \/ /\ ~\E op \in queue : Claimable(op)
          /\ inHand' = EmptyHand /\ UNCHANGED <<queue, claimed>>
    /\ UNCHANGED <<remoteVars, registry, nextRow, draftRows, userVars, mishaps>>

\* The provider's create: under the operation's create id on JMAP, a new
\* message on IMAP.
Without(f, ids) == [x \in DOMAIN f \ ids |-> f[x]]
With(f, x, v) == [y \in DOMAIN f \cup {x} |-> IF y = x THEN v ELSE f[y]]

\* Email/set under draft_create_id: a repeated create names the draft it made.
JmapDraftId(op) == IF op.id \in DOMAIN createdBy THEN createdBy[op.id] ELSE nextId

\* APPEND: another message each time.
ImapDraftId(op) == nextId

CreateAs(op, replaced, id) ==
    /\ id = IF onJmap THEN JmapDraftId(op) ELSE ImapDraftId(op)
    /\ nextId' = IF id = nextId THEN nextId + 1 ELSE nextId
    /\ createdBy' = With(createdBy, op.id, id)
    /\ remoteDrafts' = With(Without(remoteDrafts, {replaced} \ {id}), id, op.body)
    /\ UNCHANGED <<onJmap, sentBodies>>

\* push_operation and the settlement of a save.  A JMAP update of a target the
\* provider does not have creates the draft and reports the failed destroy,
\* unless this is a redelivery; IMAP tolerates it.  The answer may be lost.
PushSave == \E id \in 1..(2 * MaxBodies + MaxMishaps), answered \in BOOLEAN :
    LET row == At(claimed)
        op == [row EXCEPT !.body = inHand.body]
        target == IF op.create THEN NoEntity ELSE registry
        missing == target # NoEntity /\ target \notin DOMAIN remoteDrafts
        refused == onJmap /\ missing /\ target # id /\ ~op.tried
        outcome == IF ~answered THEN "inflight" ELSE IF refused THEN "failed" ELSE "applied"
    IN /\ claimed # 0 /\ IsSave(op)
       /\ CreateAs(op, target, id)
       /\ answered \/ mishaps < MaxMishaps
       /\ mishaps' = IF answered THEN mishaps ELSE mishaps + 1
       /\ queue' = Edited(row, [row EXCEPT !.state = outcome, !.tried = @ \/ refused])
       /\ registry' = IF answered /\ ~refused THEN id ELSE registry
       /\ inHand' = EmptyHand /\ claimed' = 0
       /\ UNCHANGED <<nextRow, draftRows, userVars>>

\* A discard resolves the key at the push; a forgotten key means it is done.
PushDiscard ==
    /\ claimed # 0 /\ At(claimed).kind = "discard"
    /\ remoteDrafts' = Without(remoteDrafts, {registry})
    /\ queue' = queue \ {At(claimed)} /\ registry' = NoEntity
    /\ inHand' = EmptyHand /\ claimed' = 0
    /\ UNCHANGED <<onJmap, createdBy, sentBodies, nextId, nextRow, draftRows, userVars, mishaps>>

\* A send delivers and consumes its draft; settled, the key is forgotten.  A
\* dispatch that cannot be confirmed parks the send and keeps the key.
PushSend == \E outcome \in {"applied", "uncertain", "failed"} :
    LET op == At(claimed) IN
    /\ claimed # 0 /\ op.kind = "send"
    /\ outcome = "uncertain" => mishaps < MaxMishaps
    /\ mishaps' = IF outcome = "uncertain" THEN mishaps + 1 ELSE mishaps
    /\ sentBodies' = IF outcome = "failed" THEN sentBodies ELSE sentBodies \cup {op.body}
    /\ remoteDrafts' = IF outcome = "failed" THEN remoteDrafts
                       ELSE Without(remoteDrafts, {registry})
    /\ queue' = Edited(op, [op EXCEPT !.state = outcome, !.tried = TRUE])
    /\ registry' = IF outcome = "applied" THEN NoEntity ELSE registry
    /\ inHand' = EmptyHand /\ claimed' = 0
    /\ UNCHANGED <<onJmap, createdBy, nextId, nextRow, draftRows, userVars>>

\* ensure_drafts_for_held_sends: a held send whose key nobody saved becomes a
\* provider draft under the send's own create id.
EnsureDraft == \E op \in queue, id \in 1..(2 * MaxBodies + MaxMishaps) :
    /\ inHand = EmptyHand /\ op.kind = "send" /\ op.held /\ op.state = "pending"
    /\ registry = Key
    /\ ~\E save \in queue : IsSave(save) /\ save.state \in {"pending", "inflight"}
    /\ CreateAs(op, NoEntity, id) /\ registry' = id
    /\ UNCHANGED <<queue, nextRow, draftRows, userVars, flushVars, mishaps>>

HoldEnds == \E op \in queue :
    /\ op.held /\ queue' = Edited(op, [op EXCEPT !.held = FALSE])
    /\ UNCHANGED <<remoteVars, registry, nextRow, draftRows, userVars, flushVars, mishaps>>

-----------------------------------------------------------------------------
\* write_through_draft_registry: a row with the key repoints it; when the row
\* it names is gone, it follows a surviving row, or forgets the key.
WrittenThrough(rows) ==
    LET live == DOMAIN remoteDrafts IN
    IF live \ rows # {} THEN live \ rows
    ELSE IF live # {} THEN live
    ELSE IF registry \in rows THEN {NoEntity} ELSE {registry}

\* A completed pull, and the truncation of the settled saves it absorbed.
SyncDrafts ==
    /\ inHand = EmptyHand /\ draftRows # DOMAIN remoteDrafts
    /\ registry' \in WrittenThrough(draftRows)
    /\ draftRows' = DOMAIN remoteDrafts
    /\ queue' = {op \in queue : op.state # "applied"}
    /\ UNCHANGED <<remoteVars, nextRow, userVars, flushVars, mishaps>>

\* A stop with nothing in hand changes nothing.
DraftStop ==
    /\ inHand # EmptyHand \/ undoing # 0
    /\ mishaps < MaxMishaps /\ mishaps' = mishaps + 1
    /\ inHand' = EmptyHand /\ claimed' = 0 /\ undoing' = 0
    /\ slipped' = IF undoing # 0 THEN slipped \cup {undoing} ELSE slipped
    /\ UNCHANGED <<remoteVars, registry, queue, nextRow, draftRows, written, givenUp>>

DraftsNext == \/ SaveDraft \/ DiscardDraft \/ QueueSend \/ UndoSend \/ RestoreDraft \/ RetryDraft
              \/ FetchDraft \/ ClaimDraft \/ PushSave \/ PushDiscard \/ PushSend \/ EnsureDraft
              \/ HoldEnds \/ SyncDrafts \/ DraftStop

DraftsSpec == DraftsInit /\ [][DraftsNext]_draftVars

-----------------------------------------------------------------------------
\* Authored mail is never lost: the last body the user wrote, unless given up,
\* is in the log, at the provider as a draft, or delivered, through races with
\* the flusher, rotations, undo, redelivery and stops, outside the two known
\* gaps.
ContentNeverLost ==
    (written > givenUp /\ written \notin slipped) =>
        \/ \E op \in queue : op.body = written
        \/ \E id \in DOMAIN remoteDrafts : remoteDrafts[id] = written
        \/ written \in sentBodies \/ undoing = written

\* "The guarded swap races the flusher's claim with exactly one winner": what a
\* claim pushes is what the row it will settle says.
PushedIsStored == claimed # 0 => At(claimed).body = inHand.body
=============================================================================
