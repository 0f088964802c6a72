------------------------------- MODULE RevLog -------------------------------
(***************************************************************************)
(* Undo and redo.  Every reversible mail command records the change it     *)
(* made in the account's append-only log and becomes the cursor step; undo *)
(* applies the inverse of the cursor step and moves the cursor down, redo  *)
(* applies the head of the redo tail and moves it up.  Each command reads, *)
(* applies and writes in separate steps, and commands of different windows *)
(* interleave between them.                                                *)
(*                                                                         *)
(* One message stands for all of them: a step only ever touches its own    *)
(* message, and the log and the cursor are per account.  A facet is a      *)
(* keyword the message carries or a mailbox it is in.                      *)
(***************************************************************************)
EXTENDS Naturals, Sequences, SequencesExt, FiniteSets

CONSTANTS Windows,            \* client windows, one command at a time each
          Keywords, Boxes,    \* the two facets of a message
          MaxRevLogHistory,   \* MAX_REV_LOG_HISTORY
          MaxRevSteps         \* bound on the steps ever recorded

ASSUME RevAssumption == MaxRevLogHistory \in Nat /\ MaxRevSteps \in Nat
                        /\ Keywords \cap Boxes = {}

VARIABLES revLog,       \* the recorded diffs; a step's id and seq are its index
          revCursor,    \* the topmost applied step, 0 for none
          redoTail,     \* the steps redo may apply, in order
          held,         \* the message's effective keywords and mailboxes
          revCmd,       \* the command each window has under way
          unlogged,     \* history: facets changed without a step
          overlapped,   \* history: two commands were under way at once
          truncated,    \* history: steps a forward action cleared from the tail
          replayed      \* history: what replaying the first n - 1 steps makes of the message

revVars == <<revLog, revCursor, redoTail, held, revCmd, unlogged, overlapped,
             truncated, replayed>>

InverseDiff(diff) == [added |-> diff.removed, removed |-> diff.added]

AppliedTo(state, diff) == (state \cup diff.added) \ diff.removed

NoDiff == [added |-> {}, removed |-> {}]

Idle == [do |-> "idle"]

FirstHeld == {CHOOSE b \in Boxes : TRUE}

RevInit == /\ revLog = <<>> /\ revCursor = 0 /\ redoTail = <<>>
           /\ held = FirstHeld
           /\ revCmd = [w \in Windows |-> Idle]
           /\ unlogged = {} /\ overlapped = FALSE /\ truncated = {}
           /\ replayed = <<FirstHeld>>

Others(w) == \E v \in Windows \ {w} : revCmd[v] # Idle

Start(w, cmd) == /\ revCmd[w] = Idle
                 /\ revCmd' = [revCmd EXCEPT ![w] = cmd]
                 /\ overlapped' = (overlapped \/ Others(w))
                 /\ UNCHANGED <<revLog, revCursor, redoTail, held, unlogged, truncated, replayed>>

\* A forward command, while the bound on the log leaves room for its step.
Forward(w, diff, record) ==
    /\ Len(revLog) < MaxRevSteps
    /\ Start(w, [do |-> "mutate", before |-> held, record |-> record, diff |-> diff])

\* set_keywords: the state before the change is read first, so that the step
\* records the effective change; an implicit gesture records nothing.
BeginSetKeywords(w) ==
    \E add, remove \in SUBSET Keywords, record \in BOOLEAN :
        /\ add \cap remove = {} /\ add \cup remove # {}
        /\ Forward(w, [added |-> add, removed |-> remove], record)

\* replace_mailboxes: always recorded.  Every caller moves: it replaces the
\* mailboxes by one.
BeginReplaceMailboxes(w) ==
    \E target \in Boxes :
        Forward(w, [added |-> {target}, removed |-> Boxes \ {target}], TRUE)

\* The change that really happened, given the state read before it.
Effective(diff, before) == [added |-> diff.added \ before,
                            removed |-> diff.removed \cap before]

\* The mutation itself: the store applies it to what the message is now.
Mutate(w) ==
    LET c == revCmd[w] IN
    /\ c.do = "mutate"
    /\ held' = AppliedTo(held, c.diff)
    /\ revCmd' = [revCmd EXCEPT ![w] =
         IF c.record
         THEN [do |-> "record", diff |-> Effective(c.diff, c.before)]
         ELSE Idle]
    /\ unlogged' = IF c.record THEN unlogged ELSE unlogged \cup c.diff.added \cup c.diff.removed
    /\ UNCHANGED <<revLog, revCursor, redoTail, overlapped, truncated, replayed>>

\* Fault: the forward action leaves the redo tail as it is.
AppendKeepingTail(diff) ==
    /\ Len(revLog) < MaxRevSteps
    /\ revLog' = Append(revLog, diff)
    /\ revCursor' = Len(revLog) + 1
    /\ replayed' = Append(replayed, AppliedTo(replayed[Len(replayed)], diff))
    /\ UNCHANGED <<redoTail, truncated>>

\* append_rev_log_step: the step, the cursor and the cleared redo tail in one
\* transaction.
AppendStep(diff) ==
    /\ Len(revLog) < MaxRevSteps
    /\ revLog' = Append(revLog, diff)
    /\ revCursor' = Len(revLog) + 1
    /\ redoTail' = <<>>
    /\ truncated' = truncated \cup ToSet(redoTail)
    /\ replayed' = Append(replayed, AppliedTo(replayed[Len(replayed)], diff))

\* record_step: an empty change records nothing, and a failed append is only
\* logged: the action is then not undoable.
RecordStep(w) ==
    LET c == revCmd[w] IN
    /\ c.do = "record"
    /\ \/ c.diff # NoDiff /\ AppendStep(c.diff) /\ UNCHANGED unlogged
       \/ /\ c.diff = NoDiff
          /\ UNCHANGED <<revLog, revCursor, redoTail, truncated, replayed, unlogged>>
       \/ /\ c.diff # NoDiff
          /\ unlogged' = unlogged \cup c.diff.added \cup c.diff.removed
          /\ UNCHANGED <<revLog, revCursor, redoTail, truncated, replayed>>
    /\ revCmd' = [revCmd EXCEPT ![w] = Idle]
    /\ UNCHANGED <<held, overlapped>>

\* rev_log_snapshot: the first MaxRevLogHistory steps by seq.
Snapshot == 1..(IF Len(revLog) < MaxRevLogHistory THEN Len(revLog) ELSE MaxRevLogHistory)

\* The step before s in the snapshot, 0 when s is the first.
Predecessor(s) == s - 1

\* undo: refused without a cursor, and when the snapshot lacks its step.
BeginUndo(w) ==
    /\ revCursor \in Snapshot
    /\ Start(w, [do |-> "apply", diff |-> InverseDiff(revLog[revCursor]),
                 cursor |-> Predecessor(revCursor),
                 tail |-> <<revCursor>> \o redoTail])

\* redo: the head of the redo tail, refused when it is empty.
BeginRedo(w) ==
    /\ redoTail # <<>> /\ Head(redoTail) \in Snapshot
    /\ Start(w, [do |-> "apply", diff |-> revLog[Head(redoTail)],
                 cursor |-> Head(redoTail), tail |-> Tail(redoTail)])

\* apply_diff: through the ordinary mutation path, against what the message
\* is when it runs.
ApplyDiff(w) ==
    LET c == revCmd[w] IN
    /\ c.do = "apply"
    /\ held' = AppliedTo(held, c.diff)
    /\ revCmd' = [revCmd EXCEPT ![w] = [do |-> "cursor", cursor |-> c.cursor, tail |-> c.tail]]
    /\ UNCHANGED <<revLog, revCursor, redoTail, unlogged, overlapped, truncated, replayed>>

\* set_rev_cursor: the cursor computed from the snapshot, whatever the stored
\* one is by now.
WriteCursor(w) ==
    LET c == revCmd[w] IN
    /\ c.do = "cursor"
    /\ revCursor' = c.cursor
    /\ redoTail' = c.tail
    /\ revCmd' = [revCmd EXCEPT ![w] = Idle]
    /\ UNCHANGED <<revLog, held, unlogged, overlapped, truncated, replayed>>

RevNext == \E w \in Windows :
             \/ BeginSetKeywords(w) \/ BeginReplaceMailboxes(w) \/ Mutate(w)
             \/ RecordStep(w) \/ BeginUndo(w) \/ BeginRedo(w) \/ ApplyDiff(w)
             \/ WriteCursor(w)

RevSpec == RevInit /\ [][RevNext]_revVars

-----------------------------------------------------------------------------
\* Whatever interleaves, the cursor names a recorded step and the redo tail
\* climbs strictly from it: redo never applies a step at or below the cursor,
\* and never applies two steps in the wrong order.
RedoClimbs ==
    /\ revCursor \in 0..Len(revLog)
    /\ \A i \in DOMAIN redoTail :
         /\ redoTail[i] \in DOMAIN revLog
         /\ redoTail[i] > (IF i = 1 THEN revCursor ELSE redoTail[i - 1])

\* While no two commands overlap and no redo tail has been cleared, undo and
\* redo are exact: the message is what replaying the steps up to the cursor
\* makes of the message it started as, in every facet that no unrecorded
\* change touched.
UndoIsExact ==
    (~overlapped /\ truncated = {} /\ \A w \in Windows : revCmd[w] = Idle)
        => replayed[revCursor + 1] \ unlogged = held \ unlogged

\* Undo and redo walk the recorded steps: in order always, exactly while no two
\* commands overlap.
UndoRedoExact == RedoClimbs /\ UndoIsExact
=============================================================================
