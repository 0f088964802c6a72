------------------------------ MODULE Replica ------------------------------
(***************************************************************************)
(* The convergence engine of a link node: a confirmed base, an ordered     *)
(* outbox of optimistic operations, and a visible state that is always the *)
(* fold of the second over the first.  An operation leaves the outbox when *)
(* the authority confirmed it and a base at a strictly higher version than *)
(* the one it was accepted at already carries its effect.                  *)
(*                                                                         *)
(* One message is modelled: the engine treats keys independently.  The     *)
(* far node is the environment: it confirms an operation before the        *)
(* provider has it, and until the provider takes it, which advances the    *)
(* version, it may serve both the echo of the operation and the stale      *)
(* state without it, at one and the same version.                          *)
(***************************************************************************)
EXTENDS Naturals, Sequences

CONSTANTS Tags, Mailboxes,     \* keywords and mailbox ids
          MaxOps,              \* bound on the operations a client makes
          Assertions,          \* the effects it asks for
          MaxTrial             \* bound on the assertion sequences folded

Deltas(set) == [added : SUBSET set, removed : SUBSET set]

MessageChangeDiff == [keywords : Deltas(Tags), mailboxes : Deltas(Mailboxes)]

MessageAssertion ==
    [kind : {"setKeywords"}, add : SUBSET Tags, remove : SUBSET Tags]
        \cup [kind : {"replaceMailboxes"}, mailboxes : SUBSET Mailboxes]
        \cup [kind : {"applyDiff"}, diff : MessageChangeDiff]
        \cup [kind : {"destroy"}]

ASSUME ReplicaAssumption == /\ MaxOps \in Nat /\ MaxTrial \in Nat
                            /\ Mailboxes # {}
                            /\ Assertions \subseteq MessageAssertion

\* MutationId: an operation is known by its place among the accepted ones, so
\* the order of the outbox is that of its ids.
OpIds == 1 .. MaxOps

VARIABLES base,        \* the served message, Absent when it is not held
          baseVersion, \* the version the base was served at
          pending,     \* the outbox
          confirmed,   \* ids the authority confirmed
          acceptedAt,  \* the version each tracked id was accepted at, 0 for none
          provider,    \* the message as the provider has it
          version,     \* the provider's version of it
          onWire,      \* operations under way to the far node
          farOps,      \* operations it confirmed and the provider has not taken
          verdicts,    \* settlements under way back, in order
          issued,      \* the effect of every operation accepted, in order
          failedIds,   \* history: the ids settled as failed
          trial        \* a sequence of assertions, for the fold's laws

coreVars == <<base, baseVersion, pending, confirmed, acceptedAt>>
linkVars == <<provider, version, onWire, farOps, verdicts, issued, failedIds>>
replicaVars == <<coreVars, linkVars, trial>>

MessageFoldState == [keywords : SUBSET Tags, mailboxes : SUBSET Mailboxes]
Absent == [gone |-> TRUE]

Delta(prev, curr) == [added |-> curr \ prev, removed |-> prev \ curr]

\* MessageChangeDiff::from_before_after and inverse.
FromBeforeAfter(prev, curr) ==
    [keywords |-> Delta(prev.keywords, curr.keywords),
     mailboxes |-> Delta(prev.mailboxes, curr.mailboxes)]

Flip(delta) == [added |-> delta.removed, removed |-> delta.added]

InverseOf(diff) == [keywords |-> Flip(diff.keywords), mailboxes |-> Flip(diff.mailboxes)]

Changed(set, delta) == (set \cup delta.added) \ delta.removed

\* apply_message_assertion and replay_message: removal is terminal.
ApplyAssertion(state, a) ==
    IF state = Absent \/ a.kind = "destroy" THEN Absent
    ELSE CASE a.kind = "setKeywords" ->
                [state EXCEPT !.keywords = Changed(@, [added |-> a.add, removed |-> a.remove])]
           [] a.kind = "replaceMailboxes" -> [state EXCEPT !.mailboxes = a.mailboxes]
           [] a.kind = "applyDiff" ->
                [keywords |-> Changed(state.keywords, a.diff.keywords),
                 mailboxes |-> Changed(state.mailboxes, a.diff.mailboxes)]

\* The running states of a fold: after the first i effects, those of ids applied.
Running(state, effects, ids) ==
    LET at[i \in 0 .. Len(effects)] ==
            IF i = 0 THEN state
            ELSE IF i \in ids THEN ApplyAssertion(at[i - 1], effects[i]) ELSE at[i - 1]
    IN at

Replay(state, effects, ids) == Running(state, effects, ids)[Len(effects)]

ReplayMessage(state, assertions) == Replay(state, assertions, DOMAIN assertions)

\* Fault: a later change does not cancel an earlier opposite one.
ToggleKept(merged, a) ==
    IF a.kind = "replaceMailboxes" THEN [merged EXCEPT !.moves = <<a>>]
    ELSE [merged EXCEPT !.add = @ \cup a.add, !.remove = @ \cup a.remove]

\* One step of coalescing: the last mailbox replacement is kept, a keyword
\* change cancels the opposite one.
Toggle(merged, a) ==
    IF a.kind = "replaceMailboxes" THEN [merged EXCEPT !.moves = <<a>>]
    ELSE [merged EXCEPT !.add = (@ \cup a.add) \ a.remove, !.remove = (@ \ a.add) \cup a.remove]

Merging(assertions) ==
    LET at[i \in 0 .. Len(assertions)] ==
            IF i = 0 THEN [add |-> {}, remove |-> {}, moves |-> <<>>]
            ELSE Toggle(at[i - 1], assertions[i])
    IN at

HasKind(assertions, kind) == \E i \in DOMAIN assertions : assertions[i].kind = kind

\* coalesce_message_assertions: a destroy stands for everything, a sequence
\* with a diff is left alone, otherwise one merged keyword change and the
\* last mailbox replacement remain.
Coalesce(assertions) ==
    LET merged == Merging(assertions)[Len(assertions)]
        keywords == IF merged.add \cup merged.remove = {} THEN <<>>
                    ELSE <<[kind |-> "setKeywords", add |-> merged.add, remove |-> merged.remove]>>
    IN IF HasKind(assertions, "destroy") THEN <<[kind |-> "destroy"]>>
       ELSE IF HasKind(assertions, "applyDiff") THEN assertions
       ELSE keywords \o merged.moves

\* project: the fold of the outbox over the base.
Project == Replay(base, issued, pending)

-----------------------------------------------------------------------------
\* Fault: a base at the very version of the accept may retire.
GateOpenAtEqual(id, current) == acceptedAt[id] = 0 \/ current >= acceptedAt[id]

\* The version gate of retire_absorbed_at.
GateOpen(id, current) == acceptedAt[id] = 0 \/ current > acceptedAt[id]

\* retire_absorbed_if: the confirmed operations behind an open gate that the
\* base already carries, each judged at its position in the outbox; a destroy
\* neither changes the state the next is judged against nor is absorbed.
Retire(b, marks, current) ==
    LET lasting == {i \in pending : issued[i].kind # "destroy"}
        before(i) == Running(b, issued, lasting)[i - 1]
    IN {i \in pending \cap marks :
            /\ GateOpen(i, current)
            /\ b = Absent \/ ApplyAssertion(before(i), issued[i]) = before(i)}

\* Operations leave the outbox with their marks.
DropPending(marks, ids) ==
    /\ pending' = pending \ ids
    /\ confirmed' = marks \ ids
    /\ acceptedAt' = [id \in OpIds |-> IF id \in ids THEN 0 ELSE acceptedAt[id]]

RetireAbsorbed(b, marks, current) == DropPending(marks, Retire(b, marks, current))

StartState == [keywords |-> {}, mailboxes |-> {CHOOSE m \in Mailboxes : TRUE}]

ReplicaInit == /\ base = StartState /\ baseVersion = 1 /\ pending = {} /\ confirmed = {}
               /\ acceptedAt = [id \in OpIds |-> 0]
               /\ provider = StartState /\ version = 1
               /\ onWire = {} /\ farOps = {} /\ verdicts = <<>> /\ issued = <<>>
               /\ failedIds = {} /\ trial = <<>>

\* accept_at: the version observed is recorded with the operation.  The gate
\* tells an echo from a provider change only if the base was current at the
\* accept, so the next operation on the message waits for the one before to
\* reach the provider and come back.
Accept == \E effect \in Assertions :
    LET id == Len(issued) + 1 IN
    /\ id \in OpIds /\ Project # Absent /\ onWire = {} /\ farOps = {}
    /\ baseVersion = version
    /\ pending' = pending \cup {id}
    /\ acceptedAt' = [acceptedAt EXCEPT ![id] = baseVersion]
    /\ onWire' = {id} /\ issued' = Append(issued, effect)
    /\ UNCHANGED <<base, baseVersion, confirmed, provider, version, farOps, verdicts,
                   failedIds, trial>>

\* The far node confirms the operation it is sent, or rejects it.
Decide(id, outcome) ==
    /\ onWire' = onWire \ {id}
    /\ farOps' = IF outcome = "confirmed" THEN farOps \cup {id} ELSE farOps
    /\ verdicts' = Append(verdicts, [id |-> id, outcome |-> outcome])
    /\ UNCHANGED <<coreVars, provider, version, issued, failedIds, trial>>

ProviderTakes(id) ==
    /\ provider' = ApplyAssertion(provider, issued[id])
    /\ version' = version + 1
    /\ farOps' = farOps \ {id}
    /\ UNCHANGED <<coreVars, onWire, verdicts, issued, failedIds, trial>>

\* settle: a confirmation marks an operation still held and retires what the
\* base has absorbed, with no current version to open the gate; a failure
\* drops the operation.
SettleConfirmed(v) ==
    /\ v.outcome = "confirmed"
    /\ IF v.id \in pending THEN RetireAbsorbed(base, confirmed \cup {v.id}, 0)
       ELSE UNCHANGED <<pending, confirmed, acceptedAt>>
    /\ UNCHANGED failedIds

SettleFailed(v) ==
    /\ v.outcome = "failed"
    /\ DropPending(confirmed, {v.id})
    /\ failedIds' = failedIds \cup {v.id}

ReplicaSettle ==
    /\ verdicts # <<>>
    /\ SettleConfirmed(Head(verdicts)) \/ SettleFailed(Head(verdicts))
    /\ verdicts' = Tail(verdicts)
    /\ UNCHANGED <<base, baseVersion, provider, version, onWire, farOps, issued, trial>>

\* set_base and retire_absorbed_at: a serve, stale or with the echo.
Serve == \E state \in {provider, Replay(provider, issued, farOps)} \ {Absent} :
    /\ base # Absent
    /\ base' = state /\ baseVersion' = version
    /\ RetireAbsorbed(state, confirmed, version)
    /\ UNCHANGED <<linkVars, trial>>

\* remove_base and remove_pending: an authoritative removal leaves nothing of
\* the message behind.
ServeRemoval == /\ provider = Absent /\ base # Absent
                /\ base' = Absent
                /\ DropPending(confirmed, pending)
                /\ UNCHANGED <<baseVersion, linkVars, trial>>

\* Build the next assertion sequence the laws of the fold are checked on.
Try == /\ issued = <<>> /\ Len(trial) < MaxTrial
       /\ \E a \in Assertions : trial' = Append(trial, a)
       /\ UNCHANGED <<coreVars, linkVars>>

Link == \/ Accept \/ ReplicaSettle \/ Serve \/ ServeRemoval
        \/ \E id \in onWire : Decide(id, "confirmed") \/ Decide(id, "failed")
        \/ \E id \in farOps : ProviderTakes(id)

ReplicaNext == Try \/ (trial = <<>> /\ Link)

ReplicaSpec == ReplicaInit /\ [][ReplicaNext]_replicaVars

-----------------------------------------------------------------------------
\* No flicker: through the local echo, a stale serve, a late confirmation and
\* the operation's own retirement, the message shows every operation the user
\* made and the far node did not reject, in order, as soon as the rejections
\* are heard.
NoFlicker ==
    (base # Absent /\ \A i \in DOMAIN verdicts : verdicts[i].outcome = "confirmed") =>
        Project = Replay(StartState, issued, DOMAIN issued \ failedIds)

\* Coalescing is invisible: whatever the message is, the coalesced sequence
\* folds to the same state as the sequence it replaces.
CoalesceIsInvisible ==
    \A s \in MessageFoldState : ReplayMessage(s, Coalesce(trial)) = ReplayMessage(s, trial)

\* Undo as a diff: the inverse of the change a sequence made takes the message
\* back to exactly what it was.
InverseRestores ==
    \A s \in MessageFoldState :
        LET after == ReplayMessage(s, trial) IN
        after # Absent =>
            ApplyAssertion(after, [kind |-> "applyDiff",
                                   diff |-> InverseOf(FromBeforeAfter(s, after))]) = s

\* The algebra the queue and undo rest on, over every bounded sequence of
\* assertions: coalescing and inverting lose nothing.
AssertionAlgebra == trial # <<>> => CoalesceIsInvisible /\ InverseRestores
=============================================================================
