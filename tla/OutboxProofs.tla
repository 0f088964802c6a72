----------------------------- MODULE OutboxProofs -----------------------------
(***************************************************************************)
(* Proofs about Outbox for every set of operations and commands and every  *)
(* value of the bounds.                                                    *)
(***************************************************************************)
EXTENDS Outbox, FiniteSetTheorems, TLAPS

(***************************************************************************)
(* The store statements and the commands' records keep their types.        *)
(***************************************************************************)
\* Every row a statement writes is a well-formed table.
LEMMA StatementTypes ==
    ASSUME row \in [Ops -> Row], nextRow \in Nat, NEW o \in Ops
    PROVE  /\ \A p \in 0..MaxEdits, h \in BOOLEAN : Enqueued(o, p, h) \in [Ops -> Row]
           /\ \A s \in OperationState, a \in 0..StopThreshold :
                 Updated(o, s, a) \in [Ops -> Row]
           /\ Removed(o) \in [Ops -> Row]
           /\ Settled(o) \in [Ops -> Row]
           /\ Claimed(o) \in [Ops -> Row]
           /\ Due(o) \in [Ops -> Row]
           /\ \A p \in 0..MaxEdits : Swapped(o, p) \in [Ops -> Row]
<1>. USE ConstantsOK DEF Row, OperationState
<1>1. NoRow \in Row
  BY DEF NoRow
<1>2. \A p \in 0..MaxEdits, h \in BOOLEAN : Enqueued(o, p, h) \in [Ops -> Row]
  BY DEF Enqueued
<1>3. \A s \in OperationState, a \in 0..StopThreshold : Updated(o, s, a) \in [Ops -> Row]
  BY DEF Updated
<1>4. Removed(o) \in [Ops -> Row]
  BY <1>1 DEF Removed
<1>5. Settled(o) \in [Ops -> Row]
  BY DEF Settled
<1>6. Claimed(o) \in [Ops -> Row] /\ Due(o) \in [Ops -> Row]
  BY DEF Claimed, Due
<1>7. \A p \in 0..MaxEdits : Swapped(o, p) \in [Ops -> Row]
  <2>. TAKE p \in 0..MaxEdits
  <2>1. row[o] \in Row /\ 0 \in 0..StopThreshold
    OBVIOUS
  <2>2. [row[o] EXCEPT !.payload = p, !.attempts = 0] \in Row
    BY <2>1
  <2>. QED BY <2>2 DEF Swapped
<1>. QED BY <1>2, <1>3, <1>4, <1>5, <1>6, <1>7

\* The saturating attempt counter stays within its range.
LEMMA BumpType == \A a \in 0..StopThreshold : Bump(a) \in 0..StopThreshold
  BY ConstantsOK DEF Bump

\* Every record a command stores is a command state.
LEMMA ClientRecords ==
    /\ Idle \in ClientState
    /\ \A k \in Keys : [pc |-> "requeue", key |-> k] \in ClientState
    /\ \A o \in Ops, t \in Ops \cup {None}, p \in 0..MaxEdits :
         [pc |-> "save", op |-> o, target |-> t, payload |-> p] \in ClientState
    /\ \A o \in Ops, V \in SUBSET Ops, b \in BOOLEAN :
         [pc |-> "undraft", op |-> o, victims |-> V, reached |-> b] \in ClientState
    /\ \A o \in Ops, V \in SUBSET Ops :
         [pc |-> "coalesce", op |-> o, victims |-> V] \in ClientState
    /\ \A o \in Ops : [pc |-> "apply", op |-> o] \in ClientState
    /\ \A o \in Ops, a \in 0..StopThreshold :
         [pc |-> "retry", op |-> o, attempts |-> a] \in ClientState
  BY DEF ClientState, Idle

\* What a command state holds at each program counter.
LEMMA ClientFields ==
    ASSUME NEW x \in ClientState
    PROVE  /\ x.pc = "save" => /\ x.op \in Ops /\ x.payload \in 0..MaxEdits
                               /\ x.target \in Ops \cup {None}
           /\ x.pc = "undraft" => /\ x.op \in Ops /\ x.victims \in SUBSET Ops
                                  /\ x.reached \in BOOLEAN
           /\ x.pc = "coalesce" => x.op \in Ops /\ x.victims \in SUBSET Ops
           /\ x.pc = "apply" => x.op \in Ops
           /\ x.pc = "retry" => x.op \in Ops /\ x.attempts \in 0..StopThreshold
  BY DEF ClientState, Idle

\* Stepping a command's set of victims keeps its shape.
LEMMA ClientShrinks ==
    ASSUME NEW x \in ClientState, NEW v
    PROVE  /\ x.pc = "coalesce" => [x EXCEPT !.victims = @ \ {v}] \in ClientState
           /\ x.pc = "undraft" => \A b \in BOOLEAN :
                [x EXCEPT !.victims = @ \ {v}, !.reached = @ \/ b] \in ClientState
  BY DEF ClientState, Idle

(***************************************************************************)
(* Type correctness                                                        *)
(***************************************************************************)
\* Verdicts are well typed.
LEMMA JudgedType ==
    ASSUME fate \in [Ops -> Fates], NEW o \in Ops, NEW f \in Fates
    PROVE  Judged(o, f) \in [Ops -> Fates]
  BY DEF Judged, Fates

\* The parts of the table other than the rows.
LEMMA Literals ==
    /\ NoRow \in Row
    /\ {"Pending", "Inflight", "DispatchUncertain", "Failed"} \subseteq OperationState
    /\ {"open", "settled", "discarded", "raced"} \subseteq Fates
    /\ \A r \in Row : r.attempts \in 0..StopThreshold /\ r.rowid \in Nat
  BY ConstantsOK DEF NoRow, Row, OperationState, Fates

\* The steps that end a push keep the types.
LEMMA ConcludeTypes ==
    ASSUME TypeOK, NEW r \in [Ops -> Row], NEW b \in BOOLEAN, Conclude(r, b),
           fate' \in [Ops -> Fates], skipped' \subseteq Ops
    PROVE  TypeOK'
  BY Literals DEF TypeOK, Conclude

\* The flusher's own steps keep the types.
LEMMA FlusherTypes == ASSUME TypeOK, Flusher PROVE TypeOK'
<1>. USE Literals DEF TypeOK
<1>a. ASSUME fpc \in {"fetched", "pushing", "reached"}
      PROVE  /\ fop \in Ops
             /\ \A s \in OperationState, a \in 0..StopThreshold :
                   Updated(fop, s, a) \in [Ops -> Row]
             /\ Removed(fop) \in [Ops -> Row] /\ Settled(fop) \in [Ops -> Row]
             /\ Claimed(fop) \in [Ops -> Row]
             /\ Judged(fop, "settled") \in [Ops -> Fates]
  BY <1>a, StatementTypes, JudgedType
<1>1. CASE StartPass
  <2>1. FlushableRows \subseteq Ops \X Nat
    <3>1. \A o \in Ops : <<o, row[o].rowid>> \in Ops \X Nat
      OBVIOUS
    <3>. QED BY <3>1 DEF FlushableRows, Flushable
  <2>. QED BY <1>1, <2>1 DEF StartPass, Drained, table, counts
<1>2. CASE AbortCycle  BY <1>2 DEF AbortCycle, Drained, table, counts
<1>3. CASE Fetch
  <2>1. PICK e \in batch : /\ batch' = batch \ {e}
                           /\ IF IsFlushable(row[e[1]].state)
                              THEN fpc' = "fetched" /\ fop' = e[1] /\ fsnap' = row[e[1]]
                              ELSE UNCHANGED <<fpc, fop, fsnap>>
    BY <1>3 DEF Fetch
  <2>2. e[1] \in Ops
    BY <2>1
  <2>. QED BY <1>3, <2>1, <2>2 DEF Fetch, table, counts
<1>4. CASE Park   BY <1>4, <1>a DEF Park, counts
<1>5. CASE Claim  BY <1>5, <1>a DEF Claim, counts
<1>6. CASE Reach  BY <1>6, <1>a DEF Reach, table
<1>7. CASE Settle BY <1>7, <1>a, ConcludeTypes DEF Settle
<1>8. CASE Reject \/ NothingToAssert
  BY <1>8, <1>a, ConcludeTypes DEF Reject, NothingToAssert
<1>9. CASE Defer \/ Uncertain \/ Permanent
  BY <1>9, <1>a, BumpType, ConcludeTypes DEF Defer, Uncertain, Permanent
<1>10. CASE Transient
  <2>. DEFINE a == Bump(fsnap.attempts)
  <2>1. a \in 0..StopThreshold /\ (a >= StopThreshold) \in BOOLEAN
    BY BumpType
  <2>2. /\ Conclude(Updated(fop, "Pending", a), a >= StopThreshold) /\ UNCHANGED fate
        /\ skipped' \in {skipped, skipped \cup {fop}}
    BY <1>10 DEF Transient
  <2>3. fpc \in {"fetched", "pushing", "reached"}
    BY <1>10 DEF Transient
  <2>. QED BY <2>1, <2>2, <2>3, <1>a, ConcludeTypes
<1>11. CASE BeginSweep BY <1>11 DEF BeginSweep, Drained, table, counts
<1>12. CASE SweepStep
  <2>1. PICK e \in batch : /\ batch' = batch \ {e}
                           /\ row' \in {row, Removed(e[1])}
                           /\ adopted' \in {adopted, adopted \cup {e[1]}}
    BY <1>12 DEF SweepStep
  <2>2. e[1] \in Ops /\ Removed(e[1]) \in [Ops -> Row]
    BY <2>1, StatementTypes
  <2>. QED BY <1>12, <2>1, <2>2 DEF SweepStep, counts
<1>13. CASE EndSweep BY <1>13 DEF EndSweep, table, counts
<1>. QED
  BY <1>1, <1>2, <1>3, <1>4, <1>5, <1>6, <1>7, <1>8, <1>9, <1>10, <1>11, <1>12,
     <1>13 DEF Flusher

\* Crashes and abandoned cycles keep the types.
LEMMA InterruptionTypes == ASSUME TypeOK, DropCycle \/ Crash PROVE TypeOK'
  BY Literals, ClientRecords DEF TypeOK, DropCycle, Crash, DropFlush, table

\* A row that is stored gets a well-formed rowid.
LEMMA InsertedTypes ==
    ASSUME TypeOK, NEW o \in Ops, NEW p \in 0..MaxEdits, NEW h \in BOOLEAN,
           Inserted(o, p, h)
    PROVE  row' \in [Ops -> Row] /\ nextRow' \in Nat
  BY StatementTypes DEF Inserted, TypeOK

\* What reaches the outbox without a command in progress keeps the types.
LEMMA AdmitTypes == ASSUME TypeOK, Admit PROVE TypeOK'
<1>. USE Literals DEF TypeOK
<1>1. PICK o \in Ops : \/ \E h \in BOOLEAN : EnqueueSend(o, h)
                       \/ AnswerReplay(o) \/ ForgetOutcome(o)
                       \/ RepairTombstone(o) \/ HoldExpires(o)
  BY DEF Admit
<1>2. 0 \in 0..MaxEdits
  BY ConstantsOK
<1>3. CASE \E h \in BOOLEAN : EnqueueSend(o, h)
  <2>1. PICK h \in BOOLEAN : EnqueueSend(o, h)
    BY <1>3
  <2>2. row' \in [Ops -> Row] /\ nextRow' \in Nat
    BY <2>1, <1>2, InsertedTypes DEF EnqueueSend
  <2>3. fate' \in [Ops -> Fates]
    <3>1. fate' = fate \/ fate' = Judged(o, "open")
      BY <2>1 DEF EnqueueSend
    <3>. QED BY <3>1, JudgedType
  <2>4. replays' \in [Ops -> Nat]
    <3>1. replays' = replays \/ replays' = [replays EXCEPT ![o] = @ + 1]
      BY <2>1 DEF EnqueueSend
    <3>. QED BY <3>1
  <2>. QED BY <2>1, <2>2, <2>3, <2>4 DEF EnqueueSend, Minted, flush
<1>4. CASE AnswerReplay(o) \/ ForgetOutcome(o)
  BY <1>4 DEF AnswerReplay, ForgetOutcome, flush, counts
<1>5. CASE RepairTombstone(o)
  <2>1. row' \in [Ops -> Row] /\ nextRow' \in Nat
    BY <1>5, <1>2, InsertedTypes DEF RepairTombstone
  <2>. QED BY <1>5, <2>1 DEF RepairTombstone, Minted, flush, counts
<1>6. CASE HoldExpires(o)
  BY <1>6, StatementTypes DEF HoldExpires, flush, counts
<1>. QED BY <1>1, <1>3, <1>4, <1>5, <1>6

\* The steps of the API commands keep the types.
LEMMA CommandTypes ==
    ASSUME TypeOK, NEW c \in Clients, Command(c)
    PROVE  TypeOK'
<1>. USE Literals DEF TypeOK
<1>a. client[c] \in ClientState
  OBVIOUS
<1>b. \A x \in ClientState : [client EXCEPT ![c] = x] \in [Clients -> ClientState]
  OBVIOUS
<1>c. 0 \in 0..MaxEdits
  BY ConstantsOK
<1>1. ASSUME NEW o \in Ops, BeginSave(c, o) PROVE TypeOK'
  <2>1. EntityOf[o] \in Keys
    BY DEF Keys, Entities
  <2>2. edits[EntityOf[o]] + 1 \in 0..MaxEdits
    BY <1>1, <2>1, ConstantsOK DEF BeginSave
  <2>3. PICK t \in Ops \cup {None} : 
          client' = [client EXCEPT ![c] = [pc |-> "save", op |-> o, target |-> t,
                                           payload |-> edits[EntityOf[o]] + 1]]
    BY <1>1 DEF BeginSave
  <2>4. client' \in [Clients -> ClientState]
    BY <1>b, <2>2, <2>3, ClientRecords
  <2>5. edits' \in [Keys -> 0..MaxEdits]
    BY <1>1, <2>1, <2>2 DEF BeginSave
  <2>. QED BY <1>1, <2>4, <2>5 DEF BeginSave, Minted, flush, counts
<1>2. ASSUME NEW o \in Ops, BeginAssert(c, o) PROVE TypeOK'
  <2>1. Victims(o) \in SUBSET Ops
    BY DEF Victims
  <2>2. client' \in [Clients -> ClientState]
    BY <1>2, <1>b, <2>1, ClientRecords DEF BeginAssert
  <2>. QED BY <1>2, <2>2 DEF BeginAssert, Minted, flush, counts
<1>3. ASSUME NEW o \in Ops, BeginRetry(c, o) PROVE TypeOK'
  <2>1. client' \in [Clients -> ClientState]
    BY <1>3, <1>b, ClientRecords DEF BeginRetry
  <2>. QED BY <1>3, <2>1 DEF BeginRetry, table, flush, counts
<1>4. ASSUME NEW o \in Ops, Discard(c, o) PROVE TypeOK'
  <2>1. DraftOf[o] \in Keys
    BY DEF Keys
  <2>2. client' \in [Clients -> ClientState]
    BY <1>4, <1>b, <2>1, ClientRecords DEF Discard
  <2>3. row' \in [Ops -> Row] /\ fate' \in [Ops -> Fates]
    BY <1>4, StatementTypes, JudgedType DEF Discard
  <2>. QED BY <1>4, <2>2, <2>3 DEF Discard, flush
<1>5. ASSUME NEW v \in Ops, RemoveVictim(c, v) PROVE TypeOK'
  <2>1. client' \in [Clients -> ClientState]
    BY <1>5, <1>a, <1>b, ClientShrinks DEF RemoveVictim
  <2>. QED BY <1>5, <2>1, StatementTypes DEF RemoveVictim, flush, counts
<1>6. ASSUME NEW o \in Ops, BeginDraftDiscard(c, o) PROVE TypeOK'
  <2>. DEFINE saves == UnsettledSaves(EntityOf[o])
              queued == {q \in saves : row[q].state \in {"Pending", "Failed"}}
  <2>1. queued \in SUBSET Ops /\ (queued # saves) \in BOOLEAN
    BY DEF UnsettledSaves
  <2>2. client' = [client EXCEPT ![c] = [pc |-> "undraft", op |-> o, victims |-> queued,
                                         reached |-> queued # saves]]
    BY <1>6 DEF BeginDraftDiscard
  <2>3. client' \in [Clients -> ClientState]
    BY <1>b, <2>1, <2>2, ClientRecords
  <2>. QED BY <1>6, <2>3 DEF BeginDraftDiscard, Minted, flush, counts
<1>7. ASSUME NEW v \in Ops, SupersedeSave(c, v) PROVE TypeOK'
  <2>1. (~Discardable(v)) \in BOOLEAN
    BY DEF Discardable
  <2>2. client' \in [Clients -> ClientState]
    BY <1>7, <1>a, <1>b, <2>1, ClientShrinks DEF SupersedeSave
  <2>3. row' \in [Ops -> Row] /\ fate' \in [Ops -> Fates]
    BY <1>7, StatementTypes, JudgedType DEF SupersedeSave
  <2>. QED BY <1>7, <2>2, <2>3 DEF SupersedeSave, flush
<1>8. CASE FinishSave(c)
  <2>1. /\ client[c].op \in Ops /\ client[c].payload \in 0..MaxEdits
    BY <1>8, <1>a, ClientFields DEF FinishSave
  <2>2. row' \in [Ops -> Row] /\ nextRow' \in Nat
    <3>1. CASE Inserted(client[c].op, client[c].payload, FALSE)
      BY <2>1, <3>1, InsertedTypes
    <3>2. CASE /\ client[c].target \in Ops
               /\ row' = Swapped(client[c].target, client[c].payload)
               /\ UNCHANGED nextRow
      BY <2>1, <3>2, StatementTypes
    <3>. QED BY <1>8, <3>1, <3>2 DEF FinishSave
  <2>3. client' \in [Clients -> ClientState]
    BY <1>8, <1>b, ClientRecords DEF FinishSave
  <2>. QED BY <1>8, <2>2, <2>3 DEF FinishSave, flush
<1>9. CASE FinishDraftDiscard(c)
  <2>1. client[c].op \in Ops
    BY <1>9, <1>a, ClientFields DEF FinishDraftDiscard
  <2>2. row' \in [Ops -> Row] /\ nextRow' \in Nat
    BY <1>9, <1>c, <2>1, InsertedTypes DEF FinishDraftDiscard
  <2>3. client' \in [Clients -> ClientState]
    BY <1>9, <1>b, ClientRecords DEF FinishDraftDiscard
  <2>. QED BY <1>9, <2>2, <2>3 DEF FinishDraftDiscard, flush, counts
<1>10. CASE FinishCoalesce(c)
  <2>1. client[c].op \in Ops
    BY <1>10, <1>a, ClientFields DEF FinishCoalesce
  <2>2. row' \in [Ops -> Row] /\ nextRow' \in Nat
    BY <1>10, <1>c, <2>1, InsertedTypes DEF FinishCoalesce
  <2>3. client' \in [Clients -> ClientState]
    BY <1>10, <1>b, <2>1, ClientRecords DEF FinishCoalesce
  <2>. QED BY <1>10, <2>2, <2>3 DEF FinishCoalesce, flush
<1>11. CASE ApplyAssert(c)
  <2>1. client[c].op \in Ops
    BY <1>11, <1>a, ClientFields DEF ApplyAssert
  <2>2. row' \in [Ops -> Row] /\ client' \in [Clients -> ClientState]
    BY <1>11, <1>b, <2>1, StatementTypes, ClientRecords DEF ApplyAssert
  <2>. QED BY <1>11, <2>2 DEF ApplyAssert, flush, counts
<1>12. CASE FinishRetry(c)
  <2>1. client[c].op \in Ops /\ client[c].attempts \in 0..StopThreshold
    BY <1>12, <1>a, ClientFields DEF FinishRetry
  <2>2. row' \in [Ops -> Row] /\ client' \in [Clients -> ClientState]
    BY <1>12, <1>b, <2>1, StatementTypes, ClientRecords DEF FinishRetry
  <2>3. fate' \in [Ops -> Fates]
    <3>. DEFINE f == IF IsTerminal(row[client[c].op].state) THEN "open" ELSE "raced"
    <3>1. fate' = fate \/ fate' = Judged(client[c].op, f)
      BY <1>12 DEF FinishRetry
    <3>2. f \in Fates
      OBVIOUS
    <3>. HIDE DEF f
    <3>. QED BY <2>1, <3>1, <3>2, JudgedType
  <2>4. rearms' \in [Ops -> Nat]
    BY <1>12, <2>1 DEF FinishRetry
  <2>. QED BY <1>12, <2>2, <2>3, <2>4 DEF FinishRetry, flush
<1>. QED
  BY <1>1, <1>2, <1>3, <1>4, <1>5, <1>6, <1>7, <1>8, <1>9, <1>10, <1>11, <1>12
  DEF Command

\* Init, every step and a stuttering step keep the types.
LEMMA InitTypes == Init => TypeOK
  BY ConstantsOK, Literals, ClientRecords DEF Init, TypeOK

\* Type correctness of the outbox: every row, every command's locals and every
\* counter stay in their range, and the flusher has an operation in hand exactly
\* between re-fetching it and writing its outcome.
THEOREM TypeCorrect == Spec => []TypeOK
<1>1. TypeOK /\ [Next]_vars => TypeOK'
  <2>. SUFFICES ASSUME TypeOK, [Next]_vars PROVE TypeOK'
    OBVIOUS
  <2>1. CASE UNCHANGED vars
    BY <2>1 DEF TypeOK, vars, table, flush, counts
  <2>. QED
    BY <2>1, FlusherTypes, InterruptionTypes, AdmitTypes, CommandTypes DEF Next
<1>. QED BY <1>1, InitTypes, PTL DEF Spec

(***************************************************************************)
(* The inductive invariant                                                 *)
(***************************************************************************)
\* A command between handing out an operation id and storing its row.
Fresh(c) == client[c].pc \in {"save", "coalesce", "undraft"}

\* Each command holds an operation of its own kind.
HeldKinds ==
    \A c \in Clients :
        /\ client[c].pc = "save" => IsDraftSave(KindOf[client[c].op])
        /\ client[c].pc = "undraft" => KindOf[client[c].op] = "DraftDelete"
        /\ client[c].pc \in {"coalesce", "apply"} =>
             IsStateAssertion(KindOf[client[c].op])
        /\ client[c].pc = "coalesce" =>
             \A v \in client[c].victims : IsStateAssertion(KindOf[v])

\* An id that is handed out but not stored belongs to one command.
FreshIds ==
    \A c \in Clients : Fresh(c) =>
        /\ client[c].op \in minted
        /\ \A d \in Clients : Fresh(d) /\ client[d].op = client[c].op => d = c

\* An operation that was never stored has no row, no effect and no verdict.
Unborn(o) == o \notin minted \/ \E c \in Clients : Fresh(c) /\ client[c].op = o

UnbornIdle ==
    \A o \in Ops : Unborn(o) =>
        row[o].state = Absent /\ effects[o] = 0 /\ fate[o] = "open" /\ fop # o

\* Between the re-fetch and the claim the row can only have gone, unless a retry
\* raced; in particular nobody else puts it in flight.
Grip ==
    fpc = "fetched" =>
        /\ IsFlushable(fsnap.state)
        /\ fsnap.state = "Pending" => row[fop].state # "Inflight"
        /\ fate[fop] # "raced" =>
             \/ row[fop].state = fsnap.state
             \/ /\ row[fop].state = Absent
                /\ fsnap.state = "Inflight" => IsStateAssertion(KindOf[fop])

\* A verdict is final: the row is gone, or settled, and nothing is pushed.
Verdicts ==
    \A o \in Ops :
        /\ fate[o] = "discarded" => row[o].state = Absent
        /\ fate[o] = "settled" => row[o].state \in {"Applied", Absent}
        /\ fate[o] \in {"discarded", "settled"} => ~Pushing(o)

\* The permits a send still has out: its effects so far, a pending row and a push
\* that has not reached the provider yet each use up one of the user's requests.
One(b) == IF b THEN 1 ELSE 0

Budget ==
    \A o \in Ops : KindOf[o] = "Send" =>
        effects[o] + One(row[o].state = "Pending") + One(fpc = "pushing" /\ fop = o)
            <= 1 + rearms[o] + replays[o]

Safe == /\ HeldKinds /\ FreshIds /\ UnbornIdle /\ Grip /\ Verdicts /\ PushOwnsRow
        /\ Budget

IInv == TypeOK /\ Safe

(***************************************************************************)
(* What each store statement does to the state column.                     *)
(***************************************************************************)
\* A statement writes the state of its own row only.
LEMMA StatementStates ==
    ASSUME row \in [Ops -> Row], NEW o \in Ops, NEW p \in Ops
    PROVE  /\ Removed(o)[p].state = IF p = o THEN Absent ELSE row[p].state
           /\ \A s, a : Updated(o, s, a)[p].state =
                IF p = o /\ row[o].state # Absent THEN s ELSE row[p].state
           /\ Settled(o)[p].state =
                IF p = o /\ row[o].state # Absent THEN "Applied" ELSE row[p].state
           /\ Claimed(o)[p].state = IF p = o THEN "Inflight" ELSE row[p].state
           /\ \A q, h : Enqueued(o, q, h)[p].state =
                IF p = o /\ row[o].state = Absent THEN "Pending" ELSE row[p].state
           /\ \A q : Swapped(o, q)[p].state = row[p].state
           /\ Due(o)[p].state = row[p].state
<1>. USE DEF Row
<1>1. Removed(o)[p].state = IF p = o THEN Absent ELSE row[p].state
  BY DEF Removed, NoRow
<1>2. \A s, a : Updated(o, s, a)[p].state =
        IF p = o /\ row[o].state # Absent THEN s ELSE row[p].state
  BY DEF Updated
<1>3. Settled(o)[p].state =
        IF p = o /\ row[o].state # Absent THEN "Applied" ELSE row[p].state
  BY DEF Settled
<1>4. Claimed(o)[p].state = IF p = o THEN "Inflight" ELSE row[p].state
  BY DEF Claimed
<1>5. \A q, h : Enqueued(o, q, h)[p].state =
        IF p = o /\ row[o].state = Absent THEN "Pending" ELSE row[p].state
  BY DEF Enqueued
<1>6. \A q : Swapped(o, q)[p].state = row[p].state
  BY DEF Swapped
<1>7. Due(o)[p].state = row[p].state
  BY DEF Due
<1>. QED BY <1>1, <1>2, <1>3, <1>4, <1>5, <1>6, <1>7

\* A verdict changes its own operation only, and never one that raced.
LEMMA JudgedValue ==
    ASSUME fate \in [Ops -> Fates], NEW o \in Ops, NEW p \in Ops, NEW f
    PROVE  Judged(o, f)[p] = IF p = o /\ fate[o] # "raced" THEN f ELSE fate[p]
  BY DEF Judged

(***************************************************************************)
(* Steps of the flusher                                                    *)
(***************************************************************************)
InHand == {"fetched", "pushing", "reached"}

\* A step that leaves the flusher empty-handed and at most removes rows.
Quiet ==
    /\ fpc' \notin InHand /\ fop' = None
    /\ \A p \in Ops : row'[p].state \in {row[p].state, Absent}
    /\ client' = client \/ client' = [c \in Clients |-> Idle]
    /\ UNCHANGED <<minted, effects, rearms, replays, fate>>

\* Such a step preserves the invariant.
LEMMA QuietSafe == ASSUME IInv, TypeOK', Quiet PROVE Safe'
<1>. USE DEF IInv, Safe, Quiet, InHand
<1>1. HeldKinds' /\ FreshIds'
  BY DEF HeldKinds, FreshIds, Fresh, Idle
<1>2. \A o \in Ops : Unborn(o)' => Unborn(o)
  BY DEF Unborn, Fresh, Idle
<1>3. UnbornIdle'
  BY <1>2, ConstantsOK DEF UnbornIdle
<1>4. Grip' /\ PushOwnsRow'
  BY DEF Grip, PushOwnsRow, Pushing
<1>5. Verdicts'
  BY DEF Verdicts, Pushing
<1>6. Budget'
  BY DEF Budget, One, Absent, TypeOK
<1>. QED BY <1>1, <1>3, <1>4, <1>5, <1>6

\* A step that writes the outcome of the operation in hand.
Outcome ==
    /\ fpc \in InHand /\ fpc' \notin InHand /\ fop' = None
    /\ \A p \in Ops : p # fop => row'[p].state = row[p].state
    /\ row[fop].state = Absent => row'[fop].state = Absent
    /\ row'[fop].state = "Pending" => fpc = "pushing" \/ KindOf[fop] # "Send"
    /\ \/ fate' = fate
       \/ fate' = Judged(fop, "settled") /\ row'[fop].state \in {"Applied", Absent}
    /\ UNCHANGED <<minted, client, effects, rearms, replays>>

\* Such a step preserves the invariant.
LEMMA OutcomeSafe == ASSUME IInv, TypeOK', Outcome PROVE Safe'
<1>. USE DEF IInv, Safe, Outcome, InHand
<1>0. fop \in Ops
  BY DEF TypeOK
<1>1. HeldKinds' /\ FreshIds'
  BY DEF HeldKinds, FreshIds, Fresh
<1>2. \A o \in Ops : Unborn(o)' <=> Unborn(o)
  BY DEF Unborn, Fresh
<1>3. \A p \in Ops :
        \/ fate'[p] = fate[p]
        \/ p = fop /\ fate'[p] = "settled" /\ row'[p].state \in {"Applied", Absent}
  <2>1. \A p \in Ops :
          Judged(fop, "settled")[p] = IF p = fop /\ fate[fop] # "raced"
                                      THEN "settled" ELSE fate[p]
    BY <1>0, JudgedValue DEF TypeOK
  <2>. QED BY <2>1
<1>4. UnbornIdle'
  BY <1>0, <1>2, <1>3, ConstantsOK DEF UnbornIdle
<1>5. Grip' /\ PushOwnsRow'
  BY DEF Grip, PushOwnsRow, Pushing
<1>6. fate[fop] \in {"discarded", "settled"} => row[fop].state = Absent
  BY <1>0 DEF Verdicts, Pushing, Grip, IsFlushable
<1>7. Verdicts'
  BY <1>0, <1>3, <1>6 DEF Verdicts, Pushing
<1>8. Budget'
  BY <1>0 DEF Budget, One, TypeOK
<1>. QED BY <1>1, <1>4, <1>5, <1>7, <1>8

\* Every step of the flusher preserves the invariant.
LEMMA FlusherSafe == ASSUME IInv, Flusher PROVE Safe'
<1>. TypeOK'
  BY FlusherTypes DEF IInv
<1>. TypeOK /\ Safe
  BY DEF IInv
<1>a. ASSUME fpc \in InHand, NEW p \in Ops
      PROVE  /\ fop \in Ops
             /\ Removed(fop)[p].state = IF p = fop THEN Absent ELSE row[p].state
             /\ \A s, a : Updated(fop, s, a)[p].state =
                  IF p = fop /\ row[fop].state # Absent THEN s ELSE row[p].state
             /\ Settled(fop)[p].state =
                  IF p = fop /\ row[fop].state # Absent THEN "Applied" ELSE row[p].state
  <2>1. fop \in Ops /\ row \in [Ops -> Row]
    BY <1>a DEF TypeOK, InHand
  <2>. QED BY <2>1, StatementStates
<1>b. ASSUME fpc \in InHand PROVE fop \in Ops
  BY <1>b DEF TypeOK, InHand
<1>1. CASE StartPass \/ AbortCycle \/ BeginSweep \/ EndSweep
  <2>1. fpc \notin InHand /\ fop = None
    BY <1>1 DEF StartPass, AbortCycle, BeginSweep, EndSweep, Drained, InHand, TypeOK
  <2>2. Quiet
    BY <1>1, <2>1 DEF StartPass, AbortCycle, BeginSweep, EndSweep, Quiet, InHand,
                      table, counts
  <2>. QED BY <2>2, QuietSafe
<1>2. CASE SweepStep
  <2>1. PICK e \in batch : row' \in {row, Removed(e[1])}
    BY <1>2 DEF SweepStep
  <2>2. \A p \in Ops : row'[p].state \in {row[p].state, Absent}
    <3>1. e[1] \in Ops /\ row \in [Ops -> Row]
      BY <2>1 DEF TypeOK
    <3>2. \A p \in Ops : Removed(e[1])[p].state = IF p = e[1] THEN Absent ELSE row[p].state
      BY <3>1, StatementStates
    <3>. QED BY <2>1, <3>2
  <2>3. Quiet
    BY <1>2, <2>2 DEF SweepStep, Quiet, InHand, TypeOK, counts
  <2>. QED BY <2>3, QuietSafe
<1>3. CASE Fetch
  <2>1. PICK e \in batch : /\ IF IsFlushable(row[e[1]].state)
                              THEN fpc' = "fetched" /\ fop' = e[1] /\ fsnap' = row[e[1]]
                              ELSE UNCHANGED <<fpc, fop, fsnap>>
    BY <1>3 DEF Fetch
  <2>2. e[1] \in Ops /\ fpc = "drain" /\ fop = None
    BY <1>3, <2>1 DEF Fetch, TypeOK
  <2>3. UNCHANGED <<row, minted, client, effects, rearms, replays, fate>>
    BY <1>3 DEF Fetch, table, counts
  <2>4. CASE ~IsFlushable(row[e[1]].state)
    <3>1. Quiet
      BY <2>1, <2>2, <2>3, <2>4 DEF Quiet, InHand
    <3>. QED BY <3>1, QuietSafe
  <2>5. CASE IsFlushable(row[e[1]].state)
    <3>1. HeldKinds' /\ FreshIds'
      BY <2>3 DEF Safe, HeldKinds, FreshIds, Fresh
    <3>2. UnbornIdle'
      BY <2>1, <2>3, <2>5 DEF Safe, UnbornIdle, Unborn, Fresh, IsFlushable, Absent
    <3>3. Grip'
      BY <2>1, <2>3, <2>5 DEF Grip, IsFlushable
    <3>4. Verdicts' /\ PushOwnsRow'
      BY <2>1, <2>3, <2>5 DEF Safe, Verdicts, PushOwnsRow, Pushing
    <3>5. Budget'
      BY <2>1, <2>2, <2>3, <2>5 DEF Safe, Budget, One, TypeOK
    <3>. QED BY <3>1, <3>2, <3>3, <3>4, <3>5 DEF Safe
  <2>. QED BY <2>4, <2>5
<1>4. CASE Park
  <2>1. fpc \in InHand /\ fop \in Ops
    BY <1>4, <1>b DEF Park, InHand
  <2>2. /\ row' = Updated(fop, "DispatchUncertain", fsnap.attempts)
        /\ fpc' = "drain" /\ fop' = None
        /\ UNCHANGED <<minted, client, effects, rearms, replays, fate>>
    BY <1>4 DEF Park, counts
  <2>3. Outcome
    BY <1>a, <2>1, <2>2 DEF Outcome, InHand, Absent
  <2>. QED BY <2>3, OutcomeSafe
<1>5. CASE Claim
  <2>1. fpc = "fetched" /\ fop \in Ops
    BY <1>5, <1>b DEF Claim, InHand
  <2>2. CASE ~IsFlushable(row[fop].state)
    <3>1. Quiet
      BY <1>5, <2>2 DEF Claim, Quiet, InHand, counts
    <3>. QED BY <3>1, QuietSafe
  <2>3. CASE IsFlushable(row[fop].state)
    <3>1. \A p \in Ops : row'[p].state = IF p = fop THEN "Inflight" ELSE row[p].state
      BY <1>5, <2>1, <2>3, StatementStates DEF Claim, TypeOK
    <3>2. /\ fpc' = "pushing"
          /\ UNCHANGED <<minted, client, effects, rearms, replays, fate, fop, fsnap>>
      BY <1>5, <2>3 DEF Claim, counts
    <3>3. HeldKinds' /\ FreshIds'
      BY <3>2 DEF Safe, HeldKinds, FreshIds, Fresh
    <3>4. UnbornIdle'
      BY <3>1, <3>2 DEF Safe, UnbornIdle, Unborn, Fresh
    <3>5. Grip' /\ PushOwnsRow'
      BY <2>1, <3>1, <3>2 DEF Grip, PushOwnsRow, Pushing
    <3>6. fate[fop] \notin {"discarded", "settled"}
      BY <2>1, <2>3 DEF Safe, Verdicts, IsFlushable, Absent
    <3>7. Verdicts'
      BY <2>1, <3>1, <3>2, <3>6 DEF Safe, Verdicts, Pushing
    <3>8. KindOf[fop] = "Send" => row[fop].state = "Pending"
      BY <1>5, <2>1, <2>3 DEF Safe, Grip, Claim, MustPark, IsFlushable
    <3>9. Budget'
      BY <2>1, <3>1, <3>2, <3>8 DEF Safe, Budget, One, TypeOK
    <3>. QED BY <3>3, <3>4, <3>5, <3>7, <3>9 DEF Safe
  <2>. QED BY <2>2, <2>3
<1>6. CASE Reach
  <2>1. fpc = "pushing" /\ fop \in Ops /\ fpc' = "reached"
    BY <1>6, <1>b DEF Reach, InHand
  <2>2. UNCHANGED <<row, minted, client, rearms, replays, fate, fop, fsnap>>
    BY <1>6 DEF Reach, table
  <2>3. \A p \in Ops : effects'[p] = IF p = fop /\ KindOf[p] = "Send" THEN effects[p] + 1
                                      ELSE effects[p]
    BY <1>6, <2>1 DEF Reach, TypeOK
  <2>4. HeldKinds' /\ FreshIds'
    BY <2>2 DEF Safe, HeldKinds, FreshIds, Fresh
  <2>5. UnbornIdle'
    BY <2>1, <2>2, <2>3 DEF Safe, UnbornIdle, Unborn, Fresh
  <2>6. Grip' /\ Verdicts' /\ PushOwnsRow'
    BY <2>1, <2>2 DEF Safe, Grip, Verdicts, PushOwnsRow, Pushing
  <2>7. Budget'
    BY <2>1, <2>2, <2>3 DEF Safe, Budget, One, TypeOK
  <2>. QED BY <2>4, <2>5, <2>6, <2>7 DEF Safe
<1>7. CASE Settle \/ Reject \/ NothingToAssert
  <2>1. fpc \in InHand /\ fop \in Ops
    BY <1>7, <1>b DEF Settle, Reject, NothingToAssert, InHand
  <2>2. /\ row' \in {Settled(fop), Removed(fop)} /\ fpc' = "drain" /\ fop' = None
        /\ fate' = Judged(fop, "settled")
        /\ UNCHANGED <<minted, client, effects, rearms, replays>>
    BY <1>7 DEF Settle, Reject, NothingToAssert, Conclude
  <2>3. Outcome
    BY <1>a, <2>1, <2>2 DEF Outcome, InHand, Absent
  <2>. QED BY <2>3, OutcomeSafe
<1>8. CASE Defer \/ Transient \/ Uncertain \/ Permanent
  <2>1. fpc \in InHand /\ fop \in Ops
    BY <1>8, <1>b DEF Defer, Transient, Uncertain, Permanent, InHand
  <2>2. PICK s, a : /\ row' = Updated(fop, s, a)
                    /\ s = "Pending" => fpc = "pushing" \/ KindOf[fop] # "Send"
    BY <1>8 DEF Defer, Transient, Uncertain, Permanent, Conclude
  <2>3. /\ fpc' = "drain" /\ fop' = None
        /\ UNCHANGED <<minted, client, effects, rearms, replays, fate>>
    BY <1>8 DEF Defer, Transient, Uncertain, Permanent, Conclude
  <2>4. Outcome
    BY <1>a, <2>1, <2>2, <2>3 DEF Outcome, InHand, Absent
  <2>. QED BY <2>4, OutcomeSafe
<1>. QED BY <1>1, <1>2, <1>3, <1>4, <1>5, <1>6, <1>7, <1>8 DEF Flusher

\* Crashes and abandoned cycles preserve the invariant.
LEMMA InterruptionSafe == ASSUME IInv, DropCycle \/ Crash PROVE Safe'
<1>1. Quiet
  BY DEF DropCycle, Crash, DropFlush, Quiet, InHand, table
<1>. QED BY <1>1, InterruptionTypes, QuietSafe DEF IInv

(***************************************************************************)
(* Steps of the commands                                                   *)
(***************************************************************************)
FlusherStays == UNCHANGED <<fpc, fop, fsnap, effects>>

HeldKind(x) ==
    /\ x.pc = "save" => IsDraftSave(KindOf[x.op])
    /\ x.pc = "undraft" => KindOf[x.op] = "DraftDelete"
    /\ x.pc \in {"coalesce", "apply"} => IsStateAssertion(KindOf[x.op])
    /\ x.pc = "coalesce" => \A v \in x.victims : IsStateAssertion(KindOf[v])

\* A command that moves on hands out a new id or keeps the one it has.
LEMMA ClientStep ==
    ASSUME IInv, NEW c \in Clients, NEW x, HeldKind(x),
           client' = [client EXCEPT ![c] = x],
           minted \subseteq minted',
           x.pc \in {"save", "coalesce", "undraft"} =>
               /\ x.op \in minted'
               /\ x.op \notin minted \/ (Fresh(c) /\ client[c].op = x.op)
    PROVE  /\ HeldKinds' /\ FreshIds'
           /\ \A o \in Ops : Unborn(o)' => Unborn(o)
<1>. USE DEF IInv, Safe
<1>1. \A d \in Clients : client'[d] = IF d = c THEN x ELSE client[d]
  BY DEF TypeOK
<1>2. HeldKinds'
  BY <1>1 DEF HeldKinds, HeldKind
<1>3. FreshIds'
  BY <1>1 DEF FreshIds, Fresh
<1>4. \A o \in Ops : Unborn(o)' => Unborn(o)
  BY <1>1 DEF Unborn, Fresh
<1>. QED BY <1>2, <1>3, <1>4

\* A step that at most removes rows, and none in flight but an assertion's,
\* preserves the invariant.
LEMMA RemovalSafe ==
    ASSUME IInv, FlusherStays, UNCHANGED <<rearms, replays>>,
           HeldKinds', FreshIds', \A o \in Ops : Unborn(o)' => Unborn(o),
           \A o \in Ops :
              \/ row'[o].state = row[o].state
              \/ /\ row'[o].state = Absent
                 /\ row[o].state = "Inflight" => IsStateAssertion(KindOf[o]),
           \A o \in Ops :
              \/ fate'[o] = fate[o]
              \/ /\ fate'[o] = "discarded" /\ fate[o] # "raced"
                 /\ row'[o].state = Absent /\ row[o].state \notin {"Inflight", Absent}
    PROVE  Safe'
<1>. USE DEF IInv, Safe, FlusherStays
<1>0. fpc = "fetched" => fop \in Ops
  BY DEF TypeOK
<1>1. UnbornIdle'
  BY DEF UnbornIdle
<1>2. Grip'
  BY <1>0 DEF Grip, IsFlushable, Absent
<1>3. PushOwnsRow'
  BY DEF PushOwnsRow, Pushing
<1>4. Verdicts'
  BY DEF Verdicts, PushOwnsRow, Pushing
<1>5. Budget'
  BY DEF Budget, One, TypeOK, Absent
<1>. QED BY <1>1, <1>2, <1>3, <1>4, <1>5

\* Storing the row of a fresh operation that is not a send preserves the
\* invariant.
LEMMA InsertionSafe ==
    ASSUME IInv, FlusherStays, UNCHANGED <<rearms, replays, fate>>,
           NEW o \in Ops, Unborn(o), KindOf[o] # "Send",
           HeldKinds', FreshIds', \A p \in Ops : Unborn(p)' => Unborn(p) /\ p # o,
           \A p \in Ops : row'[p].state = IF p = o THEN "Pending" ELSE row[p].state
    PROVE  Safe'
<1>. USE DEF IInv, Safe, FlusherStays
<1>0. fop # o /\ fate[o] = "open" /\ (fpc = "fetched" => fop \in Ops)
  BY DEF UnbornIdle, TypeOK
<1>1. UnbornIdle'
  BY DEF UnbornIdle
<1>2. Grip'
  BY <1>0 DEF Grip
<1>3. PushOwnsRow' /\ Verdicts'
  BY <1>0 DEF PushOwnsRow, Verdicts, Pushing
<1>4. Budget'
  BY DEF Budget, One, TypeOK
<1>. QED BY <1>1, <1>2, <1>3, <1>4

\* Queueing an operation without a row leaves it pending and the others alone.
LEMMA InsertedStates ==
    ASSUME row \in [Ops -> Row], NEW o \in Ops, row[o].state = Absent,
           NEW q, NEW h, Inserted(o, q, h)
    PROVE  \A p \in Ops : row'[p].state = IF p = o THEN "Pending" ELSE row[p].state
  BY StatementStates DEF Inserted

\* The send command, whether it queues for the first time or again, preserves
\* the invariant.
LEMMA EnqueueSendSafe ==
    ASSUME IInv, NEW o \in Ops, NEW h \in BOOLEAN, EnqueueSend(o, h)
    PROVE  Safe'
<1>. USE DEF IInv, Safe
<1>1. /\ KindOf[o] = "Send" /\ row[o].state = Absent /\ minted' = minted \cup {o}
      /\ UNCHANGED <<fpc, fop, fsnap, client, effects, rearms>>
  BY DEF EnqueueSend, Minted, flush
<1>2. \A p \in Ops : row'[p].state = IF p = o THEN "Pending" ELSE row[p].state
  BY <1>1, InsertedStates DEF EnqueueSend, TypeOK
<1>3. \A c \in Clients : Fresh(c) => client[c].op # o
  BY <1>1 DEF HeldKinds, Fresh, IsDraftSave, IsStateAssertion
<1>4. HeldKinds' /\ FreshIds'
  BY <1>1 DEF HeldKinds, FreshIds, Fresh
<1>5. \A p \in Ops : Unborn(p)' => Unborn(p) /\ p # o
  BY <1>1, <1>3 DEF Unborn, Fresh
<1>6. /\ \A p \in Ops : p # o => fate'[p] = fate[p] /\ replays'[p] = replays[p]
      /\ fate'[o] \in {"open", "raced"} /\ (fate'[o] = "raced" <=> fate[o] = "raced")
  <2>1. CASE o \notin minted
    BY <2>1 DEF EnqueueSend, UnbornIdle, Unborn
  <2>2. CASE o \in minted
    BY <2>2, JudgedValue DEF EnqueueSend, TypeOK
  <2>. QED BY <2>1, <2>2
<1>7. UnbornIdle'
  BY <1>1, <1>2, <1>5, <1>6 DEF UnbornIdle
<1>8. Grip'
  BY <1>1, <1>2, <1>6 DEF Grip, IsFlushable, IsStateAssertion, TypeOK, Absent
<1>9. PushOwnsRow'
  BY <1>1, <1>2, <1>6 DEF PushOwnsRow, Pushing, IsStateAssertion, Absent
<1>10. Verdicts'
  BY <1>1, <1>2, <1>6 DEF Verdicts, Pushing
<1>11. Budget'
  <2>1. CASE o \notin minted
    <3>1. effects[o] = 0 /\ fop # o /\ replays' = replays
      BY <2>1 DEF EnqueueSend, UnbornIdle, Unborn
    <3>. QED BY <1>1, <1>2, <3>1 DEF Budget, One, TypeOK
  <2>2. CASE o \in minted
    <3>1. replays'[o] = replays[o] + 1
      BY <2>2 DEF EnqueueSend, TypeOK
    <3>. QED BY <1>1, <1>2, <1>6, <3>1 DEF Budget, One, TypeOK, Absent
  <2>. QED BY <2>1, <2>2
<1>. QED BY <1>4, <1>7, <1>8, <1>9, <1>10, <1>11

\* Admissions, repairs and expiring holds preserve the invariant.
LEMMA AdmitSafe == ASSUME IInv, Admit PROVE Safe'
<1>. USE DEF IInv
<1>1. ASSUME NEW o \in Ops, AnswerReplay(o) \/ ForgetOutcome(o) \/ HoldExpires(o)
      PROVE  Safe'
  <2>1. UNCHANGED <<minted, client, rearms, replays, fate>> /\ FlusherStays
    BY <1>1 DEF AnswerReplay, ForgetOutcome, HoldExpires, FlusherStays, flush, counts
  <2>2. \A p \in Ops : row'[p].state = row[p].state
    BY <1>1, StatementStates DEF AnswerReplay, ForgetOutcome, HoldExpires, TypeOK
  <2>3. HeldKinds' /\ FreshIds' /\ \A p \in Ops : Unborn(p)' => Unborn(p)
    BY <2>1 DEF Safe, HeldKinds, FreshIds, Unborn, Fresh
  <2>. QED BY <2>1, <2>2, <2>3, RemovalSafe
<1>2. ASSUME NEW o \in Ops, RepairTombstone(o) PROVE Safe'
  <2>1. /\ UNCHANGED <<client, rearms, replays, fate>> /\ FlusherStays
        /\ minted' = minted \cup {o} /\ o \notin minted /\ KindOf[o] # "Send"
    BY <1>2 DEF RepairTombstone, Minted, FlusherStays, flush, counts
  <2>2. Unborn(o) /\ row[o].state = Absent
    BY <2>1 DEF Unborn, Safe, UnbornIdle
  <2>3. \A p \in Ops : row'[p].state = IF p = o THEN "Pending" ELSE row[p].state
    BY <1>2, <2>2, InsertedStates DEF RepairTombstone, TypeOK
  <2>4. HeldKinds' /\ FreshIds' /\ \A p \in Ops : Unborn(p)' => Unborn(p) /\ p # o
    BY <2>1 DEF Safe, HeldKinds, FreshIds, Unborn, Fresh
  <2>. QED BY <2>1, <2>2, <2>3, <2>4, InsertionSafe
<1>. QED BY <1>1, <1>2, EnqueueSendSafe DEF Admit

\* A command that stores the row of the fresh operation it holds preserves the
\* invariant.
LEMMA StoreSafe ==
    ASSUME IInv, FlusherStays, UNCHANGED <<minted, rearms, replays, fate>>,
           NEW c \in Clients, Fresh(c), NEW x, HeldKind(x),
           x.pc \notin {"save", "coalesce", "undraft"},
           client' = [client EXCEPT ![c] = x],
           NEW q, NEW h, Inserted(client[c].op, q, h)
    PROVE  Safe'
<1>1. PICK o \in Ops : o = client[c].op
  BY ClientFields DEF IInv, TypeOK, Fresh
<1>2. Unborn(o) /\ row[o].state = Absent /\ KindOf[o] # "Send"
  BY <1>1 DEF IInv, Safe, Unborn, UnbornIdle, HeldKinds, Fresh, IsDraftSave,
              IsStateAssertion
<1>3. \A p \in Ops : row'[p].state = IF p = o THEN "Pending" ELSE row[p].state
  BY <1>1, <1>2, InsertedStates DEF IInv, TypeOK
<1>4. HeldKinds' /\ FreshIds' /\ \A p \in Ops : Unborn(p)' => Unborn(p)
  BY ClientStep
<1>5. ~Unborn(o)'
  <2>1. o \in minted
    BY <1>1 DEF IInv, Safe, FreshIds
  <2>2. \A d \in Clients : client'[d] = IF d = c THEN x ELSE client[d]
    BY DEF IInv, TypeOK
  <2>. QED BY <1>1, <2>1, <2>2 DEF IInv, Safe, FreshIds, Unborn, Fresh
<1>6. \A p \in Ops : Unborn(p)' => Unborn(p) /\ p # o
  BY <1>4, <1>5
<1>. QED BY <1>1, <1>2, <1>3, <1>4, <1>6, InsertionSafe

\* A command that hands out an id, or goes on holding the one it has, and leaves
\* the table alone or removes a row it may remove, preserves the invariant.
LEMMA HoldSafe ==
    ASSUME IInv, FlusherStays, UNCHANGED <<rearms, replays>>,
           NEW c \in Clients, NEW x, HeldKind(x),
           client' = [client EXCEPT ![c] = x],
           minted \subseteq minted',
           x.pc \in {"save", "coalesce", "undraft"} =>
               /\ x.op \in minted'
               /\ x.op \notin minted \/ (Fresh(c) /\ client[c].op = x.op),
           \A o \in Ops :
              \/ row'[o].state = row[o].state
              \/ /\ row'[o].state = Absent
                 /\ row[o].state = "Inflight" => IsStateAssertion(KindOf[o]),
           \A o \in Ops :
              \/ fate'[o] = fate[o]
              \/ /\ fate'[o] = "discarded" /\ fate[o] # "raced"
                 /\ row'[o].state = Absent /\ row[o].state \notin {"Inflight", Absent}
    PROVE  Safe'
<1>1. HeldKinds' /\ FreshIds' /\ \A o \in Ops : Unborn(o)' => Unborn(o)
  BY ClientStep
<1>. QED BY <1>1, RemovalSafe

\* The unguarded write of a retry preserves the invariant: it re-arms a terminal
\* row, marks a row it raced with as such, and does nothing to one that is gone.
LEMMA FinishRetrySafe ==
    ASSUME IInv, NEW c \in Clients, FinishRetry(c)
    PROVE  Safe'
<1>. USE DEF IInv, Safe
<1>. DEFINE o == client[c].op
<1>1. o \in Ops
  BY ClientFields DEF FinishRetry, TypeOK
<1>2. FlusherStays /\ UNCHANGED <<minted, replays>>
  BY DEF FinishRetry, FlusherStays, flush
<1>3. client' = [client EXCEPT ![c] = Idle] /\ HeldKind(Idle)
  BY DEF FinishRetry, HeldKind, Idle
<1>4. HeldKinds' /\ FreshIds' /\ \A p \in Ops : Unborn(p)' => Unborn(p)
  <2>1. Idle.pc \notin {"save", "coalesce", "undraft"}
    BY DEF Idle
  <2>. QED BY <1>2, <1>3, <2>1, ClientStep
<1>5. \A p \in Ops : row'[p].state = IF p = o /\ row[o].state # Absent THEN "Pending"
                                      ELSE row[p].state
  BY <1>1, StatementStates DEF FinishRetry, TypeOK
<1>6. \A p \in Ops : rearms'[p] = IF p = o THEN rearms[p] + 1 ELSE rearms[p]
  BY <1>1 DEF FinishRetry, TypeOK
<1>7. /\ \A p \in Ops : p # o => fate'[p] = fate[p]
      /\ row[o].state = Absent => fate'[o] = fate[o]
      /\ row[o].state # Absent =>
           fate'[o] = IF fate[o] # "raced" /\ IsTerminal(row[o].state) THEN "open"
                      ELSE "raced"
  BY <1>1, JudgedValue DEF FinishRetry, TypeOK
<1>. HIDE DEF o
<1>8. UnbornIdle'
  BY <1>1, <1>2, <1>4, <1>5, <1>7 DEF UnbornIdle, FlusherStays
<1>9. Grip'
  BY <1>1, <1>2, <1>5, <1>7
  DEF Grip, FlusherStays, TypeOK, IsTerminal, IsFlushable, Absent
<1>10. PushOwnsRow'
  BY <1>1, <1>2, <1>5, <1>7 DEF PushOwnsRow, Pushing, FlusherStays, IsTerminal, Absent
<1>11. Verdicts'
  BY <1>1, <1>2, <1>5, <1>7 DEF Verdicts, Pushing, FlusherStays
<1>12. Budget'
  BY <1>1, <1>2, <1>5, <1>6 DEF Budget, One, FlusherStays, TypeOK
<1>. QED BY <1>4, <1>8, <1>9, <1>10, <1>11, <1>12

\* Every step of a command preserves the invariant.
LEMMA CommandSafe ==
    ASSUME IInv, NEW c \in Clients, Command(c)
    PROVE  Safe'
<1>. USE DEF IInv
<1>a. client[c] \in ClientState /\ HeldKind(client[c])
  BY DEF TypeOK, Safe, HeldKinds, HeldKind
<1>b. HeldKind(Idle) /\ Idle.pc \notin {"save", "coalesce", "undraft"}
  BY DEF HeldKind, Idle
<1>1. ASSUME NEW o \in Ops, BeginSave(c, o) PROVE Safe'
  <2>1. /\ FlusherStays /\ UNCHANGED <<row, rearms, replays, fate>>
        /\ IsDraftSave(KindOf[o]) /\ o \notin minted /\ minted' = minted \cup {o}
    BY <1>1 DEF BeginSave, Minted, FlusherStays, flush, counts
  <2>2. PICK t : client' = [client EXCEPT ![c] =
                   [pc |-> "save", op |-> o, target |-> t, payload |-> edits[EntityOf[o]] + 1]]
    BY <1>1 DEF BeginSave
  <2>r. PICK x : x = [pc |-> "save", op |-> o, target |-> t,
                      payload |-> edits[EntityOf[o]] + 1]
    OBVIOUS
  <2>3. client' = [client EXCEPT ![c] = x] /\ x.pc = "save" /\ x.op = o
    BY <2>2, <2>r
  <2>4. HeldKind(x)
    BY <2>1, <2>3 DEF HeldKind
  <2>. QED BY <2>1, <2>3, <2>4, HoldSafe
<1>2. ASSUME NEW o \in Ops, BeginAssert(c, o) PROVE Safe'
  <2>1. /\ FlusherStays /\ UNCHANGED <<row, rearms, replays, fate>>
        /\ IsStateAssertion(KindOf[o]) /\ o \notin minted /\ minted' = minted \cup {o}
    BY <1>2 DEF BeginAssert, Minted, FlusherStays, flush, counts
  <2>r. PICK x : x = [pc |-> "coalesce", op |-> o, victims |-> Victims(o)]
    OBVIOUS
  <2>2. /\ client' = [client EXCEPT ![c] = x]
        /\ x.pc = "coalesce" /\ x.op = o /\ x.victims = Victims(o)
    BY <1>2, <2>r DEF BeginAssert
  <2>3. HeldKind(x)
    BY <2>1, <2>2 DEF HeldKind, Victims
  <2>. QED BY <2>1, <2>2, <2>3, HoldSafe
<1>3. ASSUME NEW o \in Ops, BeginRetry(c, o) PROVE Safe'
  <2>1. FlusherStays /\ UNCHANGED <<row, minted, rearms, replays, fate>>
    BY <1>3 DEF BeginRetry, FlusherStays, table, flush, counts
  <2>r. PICK x : x = [pc |-> "retry", op |-> o, attempts |-> row[o].attempts]
    OBVIOUS
  <2>2. client' = [client EXCEPT ![c] = x] /\ x.pc = "retry"
    BY <1>3, <2>r DEF BeginRetry
  <2>3. HeldKind(x)
    BY <2>2 DEF HeldKind
  <2>. QED BY <2>1, <2>2, <2>3, HoldSafe
<1>4. ASSUME NEW o \in Ops, Discard(c, o) PROVE Safe'
  <2>1. FlusherStays /\ UNCHANGED <<minted, rearms, replays>>
    BY <1>4 DEF Discard, FlusherStays, flush
  <2>r. PICK x : x = IF KindOf[o] = "Send" /\ DraftOf[o] # NoKey
                     THEN [pc |-> "requeue", key |-> DraftOf[o]] ELSE Idle
    OBVIOUS
  <2>2. client' = [client EXCEPT ![c] = x] /\ x.pc \in {"requeue", "idle"}
    BY <1>4, <2>r DEF Discard, Idle
  <2>3. HeldKind(x)
    BY <2>2 DEF HeldKind
  <2>4. \A p \in Ops : row'[p].state = IF p = o THEN Absent ELSE row[p].state
    BY <1>4, StatementStates DEF Discard, TypeOK
  <2>5. \A p \in Ops : fate'[p] = IF p = o /\ fate[o] # "raced" THEN "discarded"
                                  ELSE fate[p]
    BY <1>4, JudgedValue DEF Discard, TypeOK
  <2>6. row[o].state \notin {"Inflight", Absent}
    BY <1>4 DEF Discard, Discardable
  <2>. QED BY <2>1, <2>2, <2>3, <2>4, <2>5, <2>6, HoldSafe
<1>5. ASSUME NEW v \in Ops, RemoveVictim(c, v) PROVE Safe'
  <2>1. FlusherStays /\ UNCHANGED <<minted, rearms, replays, fate>>
    BY <1>5 DEF RemoveVictim, FlusherStays, flush, counts
  <2>2. client[c].pc = "coalesce" /\ IsStateAssertion(KindOf[v])
    BY <1>5, <1>a DEF RemoveVictim, HeldKind
  <2>r. PICK x : x = [client[c] EXCEPT !.victims = @ \ {v}]
    OBVIOUS
  <2>3. client' = [client EXCEPT ![c] = x]
    BY <1>5, <2>r DEF RemoveVictim
  <2>4. x.pc = "coalesce" /\ x.op = client[c].op /\ x.victims = client[c].victims \ {v}
    BY <1>a, <2>2, <2>r DEF ClientState, Idle
  <2>5. HeldKind(x)
    BY <1>a, <2>2, <2>4 DEF HeldKind
  <2>6. \A p \in Ops : row'[p].state = IF p = v THEN Absent ELSE row[p].state
    BY <1>5, StatementStates DEF RemoveVictim, TypeOK
  <2>7. Fresh(c) /\ client[c].op \in minted
    BY <2>2 DEF Fresh, Safe, FreshIds
  <2>. QED BY <2>1, <2>2, <2>3, <2>4, <2>5, <2>6, <2>7, HoldSafe
<1>6. ASSUME NEW o \in Ops, BeginDraftDiscard(c, o) PROVE Safe'
  <2>1. /\ FlusherStays /\ UNCHANGED <<row, rearms, replays, fate>>
        /\ KindOf[o] = "DraftDelete" /\ o \notin minted /\ minted' = minted \cup {o}
    BY <1>6 DEF BeginDraftDiscard, Minted, FlusherStays, flush, counts
  <2>r. PICK x : x = LET saves == UnsettledSaves(EntityOf[o])
                         queued == {q \in saves : row[q].state \in {"Pending", "Failed"}}
                     IN  [pc |-> "undraft", op |-> o, victims |-> queued,
                          reached |-> queued # saves]
    OBVIOUS
  <2>2. /\ client' = [client EXCEPT ![c] = x]
        /\ x.pc = "undraft" /\ x.op = o
    BY <1>6, <2>r DEF BeginDraftDiscard
  <2>3. HeldKind(x)
    BY <2>1, <2>2 DEF HeldKind
  <2>. QED BY <2>1, <2>2, <2>3, HoldSafe
<1>7. ASSUME NEW v \in Ops, SupersedeSave(c, v) PROVE Safe'
  <2>1. FlusherStays /\ UNCHANGED <<minted, rearms, replays>>
    BY <1>7 DEF SupersedeSave, FlusherStays, flush
  <2>r. PICK x : x = [client[c] EXCEPT !.victims = @ \ {v},
                                       !.reached = @ \/ ~Discardable(v)]
    OBVIOUS
  <2>2. client' = [client EXCEPT ![c] = x]
    BY <1>7, <2>r DEF SupersedeSave
  <2>3. client[c].pc = "undraft"
    BY <1>7 DEF SupersedeSave
  <2>4. x.pc = "undraft" /\ x.op = client[c].op
    BY <1>a, <2>3, <2>r DEF ClientState, Idle
  <2>5. HeldKind(x)
    BY <1>a, <2>3, <2>4 DEF HeldKind
  <2>6. Fresh(c) /\ client[c].op \in minted
    BY <2>3 DEF Fresh, Safe, FreshIds
  <2>7. \A p \in Ops : row'[p].state = IF p = v /\ Discardable(v) THEN Absent
                                        ELSE row[p].state
    BY <1>7, StatementStates DEF SupersedeSave, TypeOK
  <2>8. \A p \in Ops : fate'[p] = IF p = v /\ Discardable(v) /\ fate[v] # "raced"
                                  THEN "discarded" ELSE fate[p]
    BY <1>7, JudgedValue DEF SupersedeSave, TypeOK
  <2>9. Discardable(v) => row[v].state \notin {"Inflight", Absent}
    BY DEF Discardable
  <2>. QED BY <2>1, <2>2, <2>4, <2>5, <2>6, <2>7, <2>8, <2>9, HoldSafe
<1>8. CASE FinishSave(c)
  <2>1. /\ FlusherStays /\ UNCHANGED <<minted, rearms, replays, fate>>
        /\ client' = [client EXCEPT ![c] = Idle] /\ client[c].pc = "save"
    BY <1>8 DEF FinishSave, FlusherStays, flush
  <2>2. CASE Inserted(client[c].op, client[c].payload, FALSE)
    <3>1. PICK q : q = client[c].payload
      OBVIOUS
    <3>. QED BY <1>b, <2>1, <2>2, <3>1, StoreSafe DEF Fresh
  <2>3. CASE /\ client[c].target \in Ops
             /\ row' = Swapped(client[c].target, client[c].payload)
    <3>1. \A p \in Ops : row'[p].state = row[p].state
      BY <2>3, StatementStates DEF TypeOK
    <3>. QED BY <1>b, <2>1, <3>1, HoldSafe
  <2>. QED BY <1>8, <2>2, <2>3 DEF FinishSave
<1>9. CASE FinishDraftDiscard(c)
  <2>1. /\ FlusherStays /\ UNCHANGED <<minted, rearms, replays, fate>>
        /\ client' = [client EXCEPT ![c] = Idle] /\ client[c].pc = "undraft"
    BY <1>9 DEF FinishDraftDiscard, FlusherStays, flush, counts
  <2>2. CASE Inserted(client[c].op, 0, FALSE)
    BY <1>b, <2>1, <2>2, StoreSafe DEF Fresh
  <2>3. CASE UNCHANGED row
    BY <1>b, <2>1, <2>3, HoldSafe
  <2>. QED BY <1>9, <2>2, <2>3 DEF FinishDraftDiscard
<1>10. CASE FinishCoalesce(c)
  <2>1. /\ FlusherStays /\ UNCHANGED <<minted, rearms, replays, fate>>
        /\ client[c].pc = "coalesce" /\ Inserted(client[c].op, 0, FALSE)
    BY <1>10 DEF FinishCoalesce, FlusherStays, flush
  <2>r. PICK x : x = [pc |-> "apply", op |-> client[c].op]
    OBVIOUS
  <2>2. client' = [client EXCEPT ![c] = x] /\ x.pc = "apply" /\ x.op = client[c].op
    BY <1>10, <2>r DEF FinishCoalesce
  <2>3. HeldKind(x)
    BY <1>a, <2>1, <2>2 DEF HeldKind
  <2>. QED BY <2>1, <2>2, <2>3, StoreSafe DEF Fresh
<1>11. CASE ApplyAssert(c)
  <2>1. /\ FlusherStays /\ UNCHANGED <<minted, rearms, replays, fate>>
        /\ client' = [client EXCEPT ![c] = Idle] /\ client[c].pc = "apply"
    BY <1>11 DEF ApplyAssert, FlusherStays, flush, counts
  <2>2. client[c].op \in Ops /\ IsStateAssertion(KindOf[client[c].op])
    BY <1>a, <2>1, ClientFields DEF HeldKind
  <2>3. \A p \in Ops : \/ row'[p].state = row[p].state
                       \/ p = client[c].op /\ row'[p].state = Absent
    BY <1>11, <2>2, StatementStates DEF ApplyAssert, TypeOK
  <2>. QED BY <1>b, <2>1, <2>2, <2>3, HoldSafe
<1>. QED
  BY <1>1, <1>2, <1>3, <1>4, <1>5, <1>6, <1>7, <1>8, <1>9, <1>10, <1>11,
     FinishRetrySafe DEF Command

(***************************************************************************)
(* The theorems                                                            *)
(***************************************************************************)
\* The invariant holds initially.
LEMMA InitSafe == Init => Safe
<1>. SUFFICES ASSUME Init PROVE Safe
  OBVIOUS
<1>. USE ConstantsOK DEF Init, Idle
<1>1. HeldKinds /\ FreshIds
  BY DEF HeldKinds, FreshIds, Fresh
<1>2. UnbornIdle /\ Grip
  BY DEF UnbornIdle, Unborn, Grip, NoRow, Absent
<1>3. Verdicts /\ PushOwnsRow
  BY DEF Verdicts, PushOwnsRow, Pushing
<1>4. Budget
  BY DEF Budget, One, NoRow, Absent
<1>. QED BY <1>1, <1>2, <1>3, <1>4 DEF Safe

\* Every step preserves the inductive invariant.
LEMMA Inductive == IInv /\ [Next]_vars => IInv'
<1>. SUFFICES ASSUME IInv, [Next]_vars PROVE IInv'
  OBVIOUS
<1>1. TypeOK'
  <2>1. CASE UNCHANGED vars
    BY <2>1 DEF IInv, TypeOK, vars, table, flush, counts
  <2>. QED
    BY <2>1, FlusherTypes, InterruptionTypes, AdmitTypes, CommandTypes DEF Next, IInv
<1>2. Safe'
  <2>1. CASE UNCHANGED vars
    BY <2>1 DEF IInv, Safe, HeldKinds, FreshIds, Fresh, UnbornIdle, Unborn, Grip,
                Verdicts, PushOwnsRow, Pushing, Budget, One, vars, table, flush, counts
  <2>. QED
    BY <2>1, FlusherSafe, InterruptionSafe, AdmitSafe, CommandSafe DEF Next
<1>. QED BY <1>1, <1>2 DEF IInv

\* The inductive invariant holds in every reachable state.
THEOREM InvariantHolds == Spec => []IInv
<1>1. Init => IInv
  BY InitTypes, InitSafe DEF IInv
<1>. QED BY <1>1, Inductive, PTL DEF Spec

\* For any number of operations, commands, crashes and abandoned cycles, the
\* provider takes a send at most once per time the user asked for it.
THEOREM SendsAtMostOnce == Spec => []SendOnce
<1>1. IInv => SendOnce
  BY DEF IInv, Safe, SendOnce, Budget, One, TypeOK
<1>. QED BY <1>1, InvariantHolds, PTL

\* An operation whose discard reported success, or whose settlement was
\* recorded, is never in the flusher's hands.
THEOREM VerdictsAreFinal == Spec => []VerdictsFinal
<1>1. IInv => VerdictsFinal
  BY DEF IInv, Safe, Verdicts, VerdictsFinal
<1>. QED BY <1>1, InvariantHolds, PTL

\* The answer of a provider call finds the row it settles in flight.
THEOREM PushKeepsItsRow == Spec => []PushOwnsRow
<1>1. IInv => PushOwnsRow
  BY DEF IInv, Safe
<1>. QED BY <1>1, InvariantHolds, PTL

(***************************************************************************)
(* The lifecycle                                                           *)
(***************************************************************************)
Legal(o) ==
    /\ fate'[o] # "raced"
    /\ row[o].state # Absent /\ row'[o].state # Absent
    => CanTransition(row[o].state, row'[o].state)

\* What a statement that inserts, removes or leaves the state alone can do.
Plain ==
    \/ UNCHANGED row
    \/ \E p \in Ops : \/ row' = Removed(p) \/ row' = Due(p)
                      \/ \E q, h : row' = Enqueued(p, q, h) \/ row' = Swapped(p, q)

\* Such a statement moves no row from one state to another.
LEMMA PlainStates ==
    ASSUME TypeOK, NEW o \in Ops, Plain
    PROVE  row'[o].state = row[o].state \/ row'[o].state = Absent \/ row[o].state = Absent
<1>1. CASE UNCHANGED row
  BY <1>1
<1>2. ASSUME NEW p \in Ops, NEW q, NEW h,
             row' \in {Removed(p), Due(p), Enqueued(p, q, h), Swapped(p, q)}
      PROVE  row'[o].state = row[o].state \/ row'[o].state = Absent
             \/ row[o].state = Absent
  BY <1>2, StatementStates DEF TypeOK
<1>. QED BY <1>1, <1>2 DEF Plain

\* So it is legal.
LEMMA PlainLegal == ASSUME TypeOK, NEW o \in Ops, Plain PROVE Legal(o)
<1>1. row'[o].state = row[o].state \/ row'[o].state = Absent \/ row[o].state = Absent
  BY PlainStates
<1>. QED BY <1>1 DEF Legal, CanTransition

\* The flusher moves the row in its hands along the lifecycle.
LEMMA FlusherLegal == ASSUME IInv, Flusher, NEW o \in Ops PROVE Legal(o)
<1>. USE DEF IInv
<1>a. fpc \in InHand => fop \in Ops
  BY DEF TypeOK, InHand
<1>1. CASE StartPass \/ AbortCycle \/ Fetch \/ Reach \/ BeginSweep \/ EndSweep
  BY <1>1, PlainLegal
  DEF Plain, StartPass, AbortCycle, Fetch, Reach, BeginSweep, EndSweep, table
<1>2. CASE SweepStep
  <2>1. \A e \in batch : e[1] \in Ops
    BY DEF TypeOK
  <2>. QED BY <1>2, <2>1, PlainLegal DEF Plain, SweepStep
<1>3. CASE Park
  <2>1. fop \in Ops /\ row'[o].state = IF o = fop /\ row[fop].state # Absent
                                       THEN "DispatchUncertain" ELSE row[o].state
    BY <1>3, <1>a, StatementStates DEF Park, TypeOK, InHand
  <2>2. fate' = fate /\ fpc = "fetched" /\ fsnap.state = "Inflight"
    BY <1>3 DEF Park, MustPark, counts
  <2>. QED BY <2>1, <2>2 DEF Safe, Grip, Legal, CanTransition
<1>4. CASE Claim
  <2>1. CASE UNCHANGED row
    BY <2>1, PlainLegal DEF Plain
  <2>2. CASE row' = Claimed(fop) /\ IsFlushable(row[fop].state) /\ fop \in Ops
    <3>1. row'[o].state = IF o = fop THEN "Inflight" ELSE row[o].state
      BY <2>2, StatementStates DEF TypeOK
    <3>. QED BY <2>2, <3>1 DEF Legal, CanTransition, IsFlushable
  <2>. QED BY <1>4, <1>a, <2>1, <2>2 DEF Claim, InHand
<1>5. CASE Reject \/ NothingToAssert
  BY <1>5, <1>a, PlainLegal DEF Plain, Reject, NothingToAssert, Conclude, InHand
<1>6. ASSUME fop \in Ops, fpc \in {"pushing", "reached"},
             NEW s \in {"Applied", "Failed", "Pending", "DispatchUncertain"},
             row'[o].state = IF o = fop /\ row[fop].state # Absent THEN s
                             ELSE row[o].state,
             fate'[o] = fate[o] \/ fate[o] # "raced"
      PROVE  Legal(o)
  <2>1. CASE o = fop /\ fate[o] # "raced"
    BY <1>6, <2>1 DEF Safe, PushOwnsRow, Pushing, Legal, CanTransition
  <2>2. CASE o # fop \/ fate[o] = "raced"
    BY <1>6, <2>2 DEF Legal, CanTransition
  <2>. QED BY <2>1, <2>2
<1>7. CASE Settle
  <2>1. fop \in Ops /\ fpc = "reached"
    BY <1>7, <1>a DEF Settle, InHand
  <2>2. CASE row' = Removed(fop)
    BY <2>1, <2>2, PlainLegal DEF Plain
  <2>3. CASE row' = Settled(fop)
    <3>1. row'[o].state = IF o = fop /\ row[fop].state # Absent THEN "Applied"
                          ELSE row[o].state
      BY <2>1, <2>3, StatementStates DEF TypeOK
    <3>2. fate'[o] = fate[o] \/ fate[o] # "raced"
      BY <1>7, <2>1, JudgedValue DEF Settle, TypeOK
    <3>. QED BY <1>6, <2>1, <3>1, <3>2
  <2>. QED BY <1>7, <2>2, <2>3 DEF Settle, Conclude
<1>8. CASE Defer \/ Transient \/ Uncertain \/ Permanent
  <2>1. /\ fop \in Ops /\ fpc \in {"pushing", "reached"} /\ fate' = fate
        /\ \E a : \E s \in {"Failed", "Pending", "DispatchUncertain"} :
              row' = Updated(fop, s, a)
    BY <1>8, <1>a DEF Defer, Transient, Uncertain, Permanent, Conclude, InHand
  <2>2. PICK s \in {"Failed", "Pending", "DispatchUncertain"} :
          \E a : row' = Updated(fop, s, a)
    BY <2>1
  <2>3. row'[o].state = IF o = fop /\ row[fop].state # Absent THEN s ELSE row[o].state
    BY <2>1, <2>2, StatementStates DEF TypeOK
  <2>. QED BY <1>6, <2>1, <2>2, <2>3
<1>. QED BY <1>1, <1>2, <1>3, <1>4, <1>5, <1>7, <1>8 DEF Flusher

\* Every command but a retry, and whatever reaches the outbox without a command
\* in progress, inserts, removes or leaves the state alone.
LEMMA CommandPlain ==
    ASSUME IInv, NEW c \in Clients, Command(c)
    PROVE  Plain \/ FinishRetry(c)
<1>. USE DEF IInv
<1>a. client[c] \in ClientState
  BY DEF TypeOK
<1>1. ASSUME NEW p \in Ops,
             \/ BeginSave(c, p) \/ BeginAssert(c, p) \/ BeginRetry(c, p) \/ Discard(c, p)
             \/ RemoveVictim(c, p) \/ BeginDraftDiscard(c, p) \/ SupersedeSave(c, p)
      PROVE  Plain
  BY <1>1 DEF Plain, BeginSave, BeginAssert, BeginRetry, Discard, RemoveVictim,
              BeginDraftDiscard, SupersedeSave, table
<1>2. CASE FinishSave(c) \/ FinishDraftDiscard(c) \/ FinishCoalesce(c) \/ ApplyAssert(c)
  <2>1. client[c].op \in Ops
    BY <1>2, <1>a, ClientFields DEF FinishSave, FinishDraftDiscard, FinishCoalesce,
                                    ApplyAssert
  <2>. QED BY <1>2, <2>1 DEF Plain, FinishSave, FinishDraftDiscard, FinishCoalesce,
                             ApplyAssert, Inserted
<1>. QED BY <1>1, <1>2 DEF Command

\* Likewise.
LEMMA AdmitPlain == Admit => Plain
  BY DEF Plain, Admit, EnqueueSend, AnswerReplay, ForgetOutcome, RepairTombstone,
         HoldExpires, Inserted

\* So the commands move a row along the lifecycle too.
LEMMA CommandLegal ==
    ASSUME IInv, NEW c \in Clients, Command(c), NEW o \in Ops
    PROVE  Legal(o)
<1>. USE DEF IInv
<1>1. CASE Plain
  BY <1>1, PlainLegal
<1>2. CASE FinishRetry(c)
  <2>. DEFINE p == client[c].op
  <2>1. p \in Ops
    BY <1>2, ClientFields DEF FinishRetry, TypeOK
  <2>2. row'[o].state = IF o = p /\ row[p].state # Absent THEN "Pending" ELSE row[o].state
    BY <1>2, <2>1, StatementStates DEF FinishRetry, TypeOK
  <2>3. o = p /\ row[p].state # Absent /\ ~IsTerminal(row[p].state) => fate'[o] = "raced"
    BY <1>2, <2>1, JudgedValue DEF FinishRetry, TypeOK
  <2>. HIDE DEF p
  <2>. QED BY <2>1, <2>2, <2>3 DEF Legal, CanTransition
<1>. QED BY <1>1, <1>2, CommandPlain

\* Whatever the flusher, the sweep and the commands race with, a row moves only
\* along the lifecycle table; a retry that raced another one is excepted.
THEOREM MovesAreLegal == Spec => LegalTransitions
<1>1. ASSUME IInv, [Next]_vars
      PROVE  [\A o \in Ops : Legal(o)]_vars
  <2>1. ASSUME Next, NEW o \in Ops PROVE Legal(o)
    <3>1. CASE Admit \/ DropCycle \/ Crash
      <4>1. Plain
        BY <3>1, AdmitPlain DEF Plain, DropCycle, Crash, table
      <4>. QED BY <1>1, <4>1, PlainLegal DEF IInv
    <3>. QED BY <1>1, <2>1, <3>1, FlusherLegal, CommandLegal DEF Next
  <2>. QED BY <1>1, <2>1
<1>. QED BY <1>1, InvariantHolds, PTL DEF Spec, LegalTransitions, Legal

(***************************************************************************)
(* The order of the log                                                    *)
(***************************************************************************)
Stored == {o \in Ops : row[o].state # Absent}

\* Rowids only grow, finitely many rows are stored, and only sends are held.
Rowids ==
    /\ IsFiniteSet(Stored)
    /\ \A o \in Stored : /\ row[o].rowid < nextRow
                         /\ KindOf[o] # "Send" => row[o].held = FALSE

\* A listed operation other than a send is never stored a second time, so its
\* entry names the rowid its row still has.
Listed ==
    fpc # "sweeping" => \A e \in batch :
        /\ e[2] < nextRow
        /\ KindOf[e[1]] # "Send" =>
             /\ ~Unborn(e[1])
             /\ row[e[1]].state # Absent => row[e[1]].rowid = e[2]

\* So does the row of the operation in hand.
Holding ==
    fpc \in InHand =>
        /\ fsnap.rowid < nextRow
        /\ KindOf[fop] # "Send" /\ row[fop].state # Absent => row[fop].rowid = fsnap.rowid
        /\ fpc = "reached" => ~Unadopted(fop)

\* Why an older operation may be behind: given up on, re-armed, or waiting for
\* the copy of the send it is about.
Excused(p) == p \in skipped \/ rearms[p] > 0 \/ Unadopted(p)

\* The operations older than a listed one are listed with it, in hand, or
\* excused; those older than the one in hand are excused.
Turns ==
    /\ fpc # "sweeping" => \A e \in batch : \A p \in Overtaken(e[1], e[2]) :
          Excused(p) \/ p = fop \/ \E f \in batch : f[1] = p
    /\ fpc \in InHand => \A p \in Overtaken(fop, fsnap.rowid) : Excused(p)

Order == Rowids /\ Listed /\ Holding /\ Turns

\* No statement but an insertion and a removal writes a rowid, or sets a hold.
LEMMA StatementColumns ==
    ASSUME row \in [Ops -> Row], NEW o \in Ops, NEW p \in Ops
    PROVE  /\ p # o => Removed(o)[p] = row[p]
           /\ \A s, a : /\ Updated(o, s, a)[p].rowid = row[p].rowid
                        /\ Updated(o, s, a)[p].held = row[p].held
           /\ Settled(o)[p].rowid = row[p].rowid /\ Settled(o)[p].held = row[p].held
           /\ Claimed(o)[p].rowid = row[p].rowid /\ Claimed(o)[p].held = row[p].held
           /\ \A q : Swapped(o, q)[p].rowid = row[p].rowid
                     /\ Swapped(o, q)[p].held = row[p].held
           /\ Due(o)[p].rowid = row[p].rowid /\ Due(o)[p].held \in {row[p].held, FALSE}
<1>. USE DEF Row
<1>1. p # o => Removed(o)[p] = row[p]
  BY DEF Removed
<1>2. \A s, a : /\ Updated(o, s, a)[p].rowid = row[p].rowid
                /\ Updated(o, s, a)[p].held = row[p].held
  BY DEF Updated
<1>3. Settled(o)[p].rowid = row[p].rowid /\ Settled(o)[p].held = row[p].held
  BY DEF Settled
<1>4. Claimed(o)[p].rowid = row[p].rowid /\ Claimed(o)[p].held = row[p].held
  BY DEF Claimed
<1>5. \A q : Swapped(o, q)[p].rowid = row[p].rowid /\ Swapped(o, q)[p].held = row[p].held
  BY DEF Swapped
<1>6. Due(o)[p].rowid = row[p].rowid /\ Due(o)[p].held \in {row[p].held, FALSE}
  BY DEF Due
<1>. QED BY <1>1, <1>2, <1>3, <1>4, <1>5, <1>6

\* A step that stores no row: rows that remain keep their place.
NothingStored ==
    /\ nextRow' = nextRow
    /\ \A p \in Ops : row'[p].state # Absent =>
          /\ row[p].state # Absent
          /\ row'[p].rowid = row[p].rowid /\ row'[p].held \in {row[p].held, FALSE}

\* A step that stores one row, at the end of the log.
OneStored(o) ==
    /\ row[o].state = Absent /\ row'[o].rowid = nextRow /\ nextRow' = nextRow + 1
    /\ KindOf[o] # "Send" => Unborn(o) /\ row'[o].held = FALSE
    /\ \A p \in Ops : p # o => row'[p] = row[p]

RowStep == NothingStored \/ \E o \in Ops : OneStored(o)

\* The statements other than an insertion store no row.
LEMMA StatementStores ==
    ASSUME TypeOK, UNCHANGED nextRow, NEW o \in Ops,
           \/ row' \in {row, Removed(o), Settled(o), Due(o)}
           \/ row' = Claimed(o) /\ row[o].state # Absent
           \/ \E s, a : row' = Updated(o, s, a)
           \/ \E q : row' = Swapped(o, q)
    PROVE  NothingStored
<1>0. row \in [Ops -> Row]
  BY DEF TypeOK
<1>1. ASSUME NEW p \in Ops, row'[p].state # Absent
      PROVE  /\ row[p].state # Absent
             /\ row'[p].rowid = row[p].rowid /\ row'[p].held \in {row[p].held, FALSE}
  <2>a. /\ Settled(o)[p].rowid = row[p].rowid /\ Settled(o)[p].held = row[p].held
        /\ Claimed(o)[p].rowid = row[p].rowid /\ Claimed(o)[p].held = row[p].held
        /\ Due(o)[p].rowid = row[p].rowid /\ Due(o)[p].held \in {row[p].held, FALSE}
        /\ p # o => Removed(o)[p] = row[p]
    BY <1>0, StatementColumns
  <2>b. /\ Removed(o)[p].state = IF p = o THEN Absent ELSE row[p].state
        /\ Settled(o)[p].state =
             IF p = o /\ row[o].state # Absent THEN "Applied" ELSE row[p].state
        /\ Claimed(o)[p].state = IF p = o THEN "Inflight" ELSE row[p].state
        /\ Due(o)[p].state = row[p].state
    BY <1>0, StatementStates
  <2>c. /\ \A s, a : Updated(o, s, a)[p].state =
                       IF p = o /\ row[o].state # Absent THEN s ELSE row[p].state
        /\ \A q : Swapped(o, q)[p].state = row[p].state
    BY <1>0, StatementStates
  <2>d. \A s, a : /\ Updated(o, s, a)[p].rowid = row[p].rowid
                  /\ Updated(o, s, a)[p].held = row[p].held
    BY <1>0, StatementColumns
  <2>e. \A q : Swapped(o, q)[p].rowid = row[p].rowid /\ Swapped(o, q)[p].held = row[p].held
    BY <1>0, StatementColumns
  <2>1. CASE row' = row
    BY <1>1, <2>1
  <2>2. CASE row' = Removed(o)
    BY <1>1, <2>a, <2>b, <2>2
  <2>3. CASE row' = Settled(o)
    BY <1>1, <2>a, <2>b, <2>3
  <2>4. CASE row' = Due(o)
    BY <1>1, <2>a, <2>b, <2>4
  <2>5. CASE row' = Claimed(o) /\ row[o].state # Absent
    BY <1>1, <2>a, <2>b, <2>5
  <2>6. ASSUME NEW s, NEW a, row' = Updated(o, s, a)
        PROVE  /\ row[p].state # Absent
               /\ row'[p].rowid = row[p].rowid /\ row'[p].held \in {row[p].held, FALSE}
    <3>1. row'[p].state = IF p = o /\ row[o].state # Absent THEN s ELSE row[p].state
      BY <2>6, <2>c
    <3>2. row'[p].rowid = row[p].rowid /\ row'[p].held = row[p].held
      BY <2>6, <2>d
    <3>. QED BY <1>1, <3>1, <3>2
  <2>7. ASSUME NEW q, row' = Swapped(o, q)
        PROVE  /\ row[p].state # Absent
               /\ row'[p].rowid = row[p].rowid /\ row'[p].held \in {row[p].held, FALSE}
    BY <1>1, <2>7, <2>c, <2>e
  <2>. QED BY <2>1, <2>2, <2>3, <2>4, <2>5, <2>6, <2>7
<1>. QED BY <1>1 DEF NothingStored

\* An insertion of a fresh operation, or of a send without a row, stores one row.
LEMMA InsertionStores ==
    ASSUME IInv, NEW o \in Ops, NEW q, NEW h, Inserted(o, q, h),
           row[o].state = Absent,
           KindOf[o] # "Send" => Unborn(o) /\ h = FALSE
    PROVE  OneStored(o)
<1>0. row \in [Ops -> Row]
  BY DEF IInv, TypeOK
<1>1. row' = Enqueued(o, q, h) /\ nextRow' = nextRow + 1
  BY DEF Inserted
<1>2. row'[o].rowid = nextRow /\ row'[o].held = h
  BY <1>0, <1>1 DEF Enqueued
<1>3. \A p \in Ops : p # o => row'[p] = row[p]
  BY <1>0, <1>1 DEF Enqueued
<1>. QED BY <1>1, <1>2, <1>3 DEF OneStored

\* A command that stores its row held a fresh id for it.
LEMMA FreshStores ==
    ASSUME IInv, NEW c \in Clients, Fresh(c), NEW q, Inserted(client[c].op, q, FALSE)
    PROVE  \E o \in Ops : OneStored(o)
<1>1. PICK o \in Ops : o = client[c].op
  BY ClientFields DEF IInv, TypeOK, Fresh
<1>2. Unborn(o) /\ row[o].state = Absent
  BY <1>1 DEF IInv, Safe, Unborn, UnbornIdle
<1>. QED BY <1>1, <1>2, InsertionStores

\* Every step stores at most one row, at the end of the log.
LEMMA EveryRowStep == ASSUME IInv, [Next]_vars PROVE RowStep
<1>. USE DEF IInv, RowStep
<1>0. ASSUME UNCHANGED <<row, nextRow>> PROVE NothingStored
  BY <1>0 DEF NothingStored
<1>a. fpc \in InHand => fop \in Ops
  BY DEF TypeOK, InHand
<1>1. CASE Flusher
  <2>1. CASE StartPass \/ AbortCycle \/ Fetch \/ Reach \/ BeginSweep \/ EndSweep
    BY <1>0, <2>1 DEF StartPass, AbortCycle, Fetch, Reach, BeginSweep, EndSweep, table
  <2>2. CASE SweepStep
    <3>1. PICK e \in batch : row' \in {row, Removed(e[1])}
      BY <2>2 DEF SweepStep
    <3>2. e[1] \in Ops /\ UNCHANGED nextRow
      BY <2>2 DEF SweepStep, TypeOK
    <3>. QED BY <3>1, <3>2, StatementStores
  <2>3. CASE Park \/ Defer \/ Transient \/ Uncertain \/ Permanent
    <3>1. \E s, a : row' = Updated(fop, s, a)
      BY <2>3 DEF Park, Defer, Transient, Uncertain, Permanent, Conclude
    <3>2. fop \in Ops /\ UNCHANGED nextRow
      BY <1>a, <2>3 DEF Park, Defer, Transient, Uncertain, Permanent, Conclude, InHand
    <3>. QED BY <3>1, <3>2, StatementStores
  <2>4. CASE Claim
    <3>1. \/ row' = row
          \/ row' = Claimed(fop) /\ row[fop].state # Absent
      BY <2>4 DEF Claim, IsFlushable, Absent
    <3>2. fop \in Ops /\ UNCHANGED nextRow
      BY <1>a, <2>4 DEF Claim, InHand
    <3>. QED BY <3>1, <3>2, StatementStores
  <2>5. CASE Settle \/ Reject \/ NothingToAssert
    <3>1. row' \in {Settled(fop), Removed(fop)}
      BY <2>5 DEF Settle, Reject, NothingToAssert, Conclude
    <3>2. fop \in Ops /\ UNCHANGED nextRow
      BY <1>a, <2>5 DEF Settle, Reject, NothingToAssert, Conclude, InHand
    <3>. QED BY <3>1, <3>2, StatementStores
  <2>. QED BY <1>1, <2>1, <2>2, <2>3, <2>4, <2>5 DEF Flusher
<1>2. CASE DropCycle \/ Crash \/ UNCHANGED vars
  BY <1>0, <1>2 DEF DropCycle, Crash, vars, table
<1>3. CASE Admit
  <2>1. PICK o \in Ops : \/ \E h \in BOOLEAN : EnqueueSend(o, h)
                         \/ AnswerReplay(o) \/ ForgetOutcome(o)
                         \/ RepairTombstone(o) \/ HoldExpires(o)
    BY <1>3 DEF Admit
  <2>2. CASE \E h \in BOOLEAN : EnqueueSend(o, h)
    <3>1. PICK h \in BOOLEAN : EnqueueSend(o, h)
      BY <2>2
    <3>2. KindOf[o] = "Send" /\ row[o].state = Absent /\ Inserted(o, 0, h)
      BY <3>1 DEF EnqueueSend
    <3>. QED BY <3>2, InsertionStores
  <2>3. CASE RepairTombstone(o)
    <3>1. o \notin minted /\ Inserted(o, 0, FALSE)
      BY <2>3 DEF RepairTombstone
    <3>2. Unborn(o) /\ row[o].state = Absent
      BY <3>1 DEF Unborn, Safe, UnbornIdle
    <3>. QED BY <3>1, <3>2, InsertionStores
  <2>4. CASE HoldExpires(o)
    BY <2>4, StatementStores DEF HoldExpires
  <2>5. CASE AnswerReplay(o) \/ ForgetOutcome(o)
    BY <1>0, <2>5 DEF AnswerReplay, ForgetOutcome
  <2>. QED BY <2>1, <2>2, <2>3, <2>4, <2>5
<1>4. ASSUME NEW c \in Clients, Command(c) PROVE RowStep
  <2>a. client[c] \in ClientState
    BY DEF TypeOK
  <2>1. ASSUME NEW o \in Ops,
               BeginSave(c, o) \/ BeginAssert(c, o) \/ BeginRetry(c, o)
                 \/ BeginDraftDiscard(c, o)
        PROVE  NothingStored
    BY <1>0, <2>1 DEF BeginSave, BeginAssert, BeginRetry, BeginDraftDiscard, table
  <2>2. ASSUME NEW o \in Ops, Discard(c, o) \/ RemoveVictim(c, o) \/ SupersedeSave(c, o)
        PROVE  NothingStored
    <3>1. row' \in {row, Removed(o)} /\ UNCHANGED nextRow
      BY <2>2 DEF Discard, RemoveVictim, SupersedeSave
    <3>. QED BY <3>1, StatementStores
  <2>3. CASE FinishSave(c)
    <3>1. CASE Inserted(client[c].op, client[c].payload, FALSE)
      BY <2>3, <3>1, FreshStores DEF FinishSave, Fresh
    <3>2. CASE /\ client[c].target \in Ops
               /\ row' = Swapped(client[c].target, client[c].payload)
               /\ UNCHANGED nextRow
      BY <3>2, StatementStores
    <3>. QED BY <2>3, <3>1, <3>2 DEF FinishSave
  <2>4. CASE FinishDraftDiscard(c)
    <3>1. CASE Inserted(client[c].op, 0, FALSE)
      BY <2>4, <3>1, FreshStores DEF FinishDraftDiscard, Fresh
    <3>. QED BY <1>0, <2>4, <3>1 DEF FinishDraftDiscard
  <2>5. CASE FinishCoalesce(c)
    BY <2>5, FreshStores DEF FinishCoalesce, Fresh
  <2>6. CASE ApplyAssert(c)
    <3>1. client[c].op \in Ops
      BY <2>a, <2>6, ClientFields DEF ApplyAssert
    <3>2. row' \in {row, Removed(client[c].op)} /\ UNCHANGED nextRow
      BY <2>6 DEF ApplyAssert
    <3>. QED BY <3>1, <3>2, StatementStores
  <2>7. CASE FinishRetry(c)
    <3>1. client[c].op \in Ops
      BY <2>a, <2>7, ClientFields DEF FinishRetry
    <3>2. row' = Updated(client[c].op, "Pending", client[c].attempts) /\ UNCHANGED nextRow
      BY <2>7 DEF FinishRetry
    <3>. QED BY <3>1, <3>2, StatementStores
  <2>. QED BY <1>4, <2>1, <2>2, <2>3, <2>4, <2>5, <2>6, <2>7 DEF Command
<1>. QED BY <1>1, <1>2, <1>3, <1>4 DEF Next

\* An operation whose row was stored does not become unstored again.
LEMMA BornStays ==
    ASSUME IInv, [Next]_vars, NEW o \in Ops, Unborn(o)'
    PROVE  Unborn(o)
<1>. USE DEF IInv
<1>1. CASE UNCHANGED <<minted, client>>
  BY <1>1 DEF Unborn, Fresh
<1>2. CASE client' = client /\ minted \subseteq minted'
  BY <1>2 DEF Unborn, Fresh
<1>3. CASE client' = [c \in Clients |-> Idle] /\ minted' = minted
  BY <1>3 DEF Unborn, Fresh, Idle
<1>4. ASSUME NEW c \in Clients, NEW x, client' = [client EXCEPT ![c] = x],
             minted \subseteq minted',
             x.pc \in {"save", "coalesce", "undraft"} =>
                 x.op \notin minted \/ (Fresh(c) /\ client[c].op = x.op)
      PROVE  Unborn(o)
  <2>1. \A d \in Clients : client'[d] = IF d = c THEN x ELSE client[d]
    BY <1>4 DEF TypeOK
  <2>. QED BY <1>4, <2>1 DEF Unborn, Fresh
<1>5. CASE Flusher \/ DropCycle \/ UNCHANGED vars
  BY <1>1, <1>5 DEF Flusher, StartPass, AbortCycle, Fetch, Park, Claim, Reach, Settle, Reject,
     NothingToAssert, Defer, Transient, Uncertain, Permanent, BeginSweep, SweepStep, EndSweep,
     Conclude, DropCycle, table, vars
<1>6. CASE Crash
  BY <1>3, <1>6 DEF Crash
<1>7. CASE Admit
  BY <1>2, <1>7 DEF Admit, EnqueueSend, AnswerReplay, ForgetOutcome, RepairTombstone,
                    HoldExpires, Minted
<1>8. ASSUME NEW c \in Clients, Command(c) PROVE Unborn(o)
  <2>a. client[c] \in ClientState
    BY DEF TypeOK
  <2>1. ASSUME NEW p \in Ops, BeginSave(c, p) PROVE Unborn(o)
    <3>1. PICK t : client' = [client EXCEPT ![c] =
                  [pc |-> "save", op |-> p, target |-> t, payload |-> edits[EntityOf[p]] + 1]]
      BY <2>1 DEF BeginSave
    <3>r. PICK x : x = [pc |-> "save", op |-> p, target |-> t,
                        payload |-> edits[EntityOf[p]] + 1]
      OBVIOUS
    <3>2. client' = [client EXCEPT ![c] = x] /\ x.op = p
      BY <3>1, <3>r
    <3>3. p \notin minted /\ minted \subseteq minted'
      BY <2>1 DEF BeginSave, Minted
    <3>. QED BY <1>4, <3>2, <3>3
  <2>2. ASSUME NEW p \in Ops, BeginAssert(c, p) PROVE Unborn(o)
    <3>r. PICK x : x = [pc |-> "coalesce", op |-> p, victims |-> Victims(p)]
      OBVIOUS
    <3>1. client' = [client EXCEPT ![c] = x] /\ x.op = p
      BY <2>2, <3>r DEF BeginAssert
    <3>2. p \notin minted /\ minted \subseteq minted'
      BY <2>2 DEF BeginAssert, Minted
    <3>. QED BY <1>4, <3>1, <3>2
  <2>3. ASSUME NEW p \in Ops, BeginDraftDiscard(c, p) PROVE Unborn(o)
    <3>r. PICK x : x = LET saves == UnsettledSaves(EntityOf[p])
                           queued == {q \in saves : row[q].state \in {"Pending", "Failed"}}
                       IN  [pc |-> "undraft", op |-> p, victims |-> queued,
                            reached |-> queued # saves]
      OBVIOUS
    <3>1. client' = [client EXCEPT ![c] = x] /\ x.op = p
      BY <2>3, <3>r DEF BeginDraftDiscard
    <3>2. p \notin minted /\ minted \subseteq minted'
      BY <2>3 DEF BeginDraftDiscard, Minted
    <3>. QED BY <1>4, <3>1, <3>2
  <2>4. ASSUME NEW p \in Ops, BeginRetry(c, p) \/ Discard(c, p) PROVE Unborn(o)
    <3>1. \E x : client' = [client EXCEPT ![c] = x] /\ x.pc \in {"retry", "requeue", "idle"}
      BY <2>4 DEF BeginRetry, Discard, Idle
    <3>2. minted' = minted
      BY <2>4 DEF BeginRetry, Discard, table
    <3>. QED BY <1>4, <3>1, <3>2
  <2>5. ASSUME NEW v \in Ops, RemoveVictim(c, v) PROVE Unborn(o)
    <3>r. PICK x : x = [client[c] EXCEPT !.victims = @ \ {v}]
      OBVIOUS
    <3>1. client' = [client EXCEPT ![c] = x] /\ minted' = minted /\ Fresh(c)
      BY <2>5, <3>r DEF RemoveVictim, Fresh
    <3>2. x.op = client[c].op
      BY <2>a, <2>5, <3>r DEF RemoveVictim, ClientState, Idle
    <3>. QED BY <1>4, <3>1, <3>2
  <2>6. ASSUME NEW v \in Ops, SupersedeSave(c, v) PROVE Unborn(o)
    <3>r. PICK x : x = [client[c] EXCEPT !.victims = @ \ {v},
                                         !.reached = @ \/ ~Discardable(v)]
      OBVIOUS
    <3>1. client' = [client EXCEPT ![c] = x] /\ minted' = minted /\ Fresh(c)
      BY <2>6, <3>r DEF SupersedeSave, Fresh
    <3>2. x.op = client[c].op
      BY <2>a, <2>6, <3>r DEF SupersedeSave, ClientState, Idle
    <3>. QED BY <1>4, <3>1, <3>2
  <2>7. CASE FinishSave(c) \/ FinishDraftDiscard(c) \/ ApplyAssert(c) \/ FinishRetry(c)
    <3>1. client' = [client EXCEPT ![c] = Idle] /\ minted' = minted
      BY <2>7 DEF FinishSave, FinishDraftDiscard, ApplyAssert, FinishRetry
    <3>2. Idle.pc = "idle"
      BY DEF Idle
    <3>. QED BY <1>4, <3>1, <3>2
  <2>8. CASE FinishCoalesce(c)
    <3>r. PICK x : x = [pc |-> "apply", op |-> client[c].op]
      OBVIOUS
    <3>1. client' = [client EXCEPT ![c] = x] /\ x.pc = "apply" /\ minted' = minted
      BY <2>8, <3>r DEF FinishCoalesce
    <3>. QED BY <1>4, <3>1
  <2>. QED BY <1>8, <2>1, <2>2, <2>3, <2>4, <2>5, <2>6, <2>7, <2>8 DEF Command
<1>. QED BY <1>5, <1>6, <1>7, <1>8 DEF Next

\* Rowids stay below the next one, and the table stays finite.
LEMMA RowidsStay == ASSUME IInv, TypeOK', Rowids, RowStep PROVE Rowids'
<1>. USE DEF IInv, TypeOK, Rowids
<1>1. CASE NothingStored
  <2>1. Stored' \subseteq Stored
    BY <1>1 DEF NothingStored, Stored
  <2>2. IsFiniteSet(Stored')
    BY <2>1, FS_Subset
  <2>. QED BY <1>1, <2>1, <2>2 DEF NothingStored, Stored
<1>2. ASSUME NEW o \in Ops, OneStored(o) PROVE Rowids'
  <2>1. Stored' \subseteq Stored \cup {o}
    BY <1>2 DEF OneStored, Stored
  <2>2. IsFiniteSet(Stored \cup {o})
    BY FS_AddElement
  <2>3. IsFiniteSet(Stored')
    BY <2>1, <2>2, FS_Subset
  <2>4. ASSUME NEW p \in Stored'
        PROVE  row'[p].rowid < nextRow' /\ (KindOf[p] # "Send" => row'[p].held = FALSE)
    <3>1. CASE p = o
      BY <1>2, <3>1 DEF OneStored
    <3>2. CASE p # o
      <4>1. row'[p] = row[p] /\ p \in Stored
        BY <1>2, <2>4, <3>2 DEF OneStored, Stored
      <4>2. row[p].rowid \in Nat
        BY <4>1 DEF Stored, Row
      <4>. QED BY <1>2, <4>1, <4>2 DEF OneStored
    <3>. QED BY <3>1, <3>2
  <2>. QED BY <2>3, <2>4
<1>. QED BY <1>1, <1>2 DEF RowStep

\* A step that leaves the flusher alone brings no older operation back into the
\* queue but by re-arming it.
LEMMA NoneComesBack ==
    ASSUME IInv, RowStep, NEW o, NEW n \in Nat, n < nextRow,
           NEW p \in Overtaken(o, n)',
           \A q \in Ops : IsFlushable(row'[q].state) /\ row[q].state # Absent =>
               IsFlushable(row[q].state) \/ rearms'[q] > 0
    PROVE  p \in Overtaken(o, n) \/ rearms'[p] > 0
<1>. USE DEF IInv, TypeOK
<1>1. /\ p \in Ops /\ EntityOf[p] = EntityOf[o] /\ "Send" \notin {KindOf[o], KindOf[p]}
      /\ IsFlushable(row'[p].state) /\ row'[p].rowid < n
  BY DEF Overtaken
<1>2. row'[p].state # Absent
  BY <1>1 DEF IsFlushable, Absent
<1>3. row[p].state # Absent /\ row[p].rowid = row'[p].rowid
  <2>1. CASE NothingStored
    BY <1>1, <1>2, <2>1 DEF NothingStored
  <2>2. ASSUME NEW q \in Ops, OneStored(q)
        PROVE  row[p].state # Absent /\ row[p].rowid = row'[p].rowid
    <3>1. p # q
      BY <1>1, <2>2 DEF OneStored
    <3>. QED BY <1>1, <1>2, <2>2, <3>1 DEF OneStored
  <2>. QED BY <2>1, <2>2 DEF RowStep
<1>. QED BY <1>1, <1>3 DEF Overtaken

\* A row that is stored once keeps its rowid while it is stored.
LEMMA RowidStays ==
    ASSUME IInv, RowStep, NEW o \in Ops, KindOf[o] # "Send", ~Unborn(o),
           row'[o].state # Absent
    PROVE  row[o].state # Absent /\ row'[o].rowid = row[o].rowid
<1>1. CASE NothingStored
  BY <1>1 DEF NothingStored
<1>2. ASSUME NEW q \in Ops, OneStored(q)
      PROVE  row[o].state # Absent /\ row'[o].rowid = row[o].rowid
  BY <1>2 DEF OneStored
<1>. QED BY <1>1, <1>2 DEF RowStep

\* Steps that leave the flusher alone keep the order.
LEMMA OthersOrder ==
    ASSUME IInv, TypeOK', Order, RowStep, UNCHANGED <<flush, adopted>>,
           \A o \in Ops : Unborn(o)' => Unborn(o),
           \A q \in Ops :
              /\ rearms[q] > 0 => rearms'[q] > 0
              /\ IsFlushable(row'[q].state) /\ row[q].state # Absent =>
                    IsFlushable(row[q].state) \/ rearms'[q] > 0
    PROVE  Order'
<1>. USE DEF Order
<1>1. Rowids'
  BY RowidsStay
<1>2. nextRow' >= nextRow /\ nextRow \in Nat /\ nextRow' \in Nat
  <2>1. nextRow \in Nat /\ nextRow' \in Nat
    BY DEF IInv, TypeOK
  <2>2. nextRow' \in {nextRow, nextRow + 1}
    BY DEF RowStep, NothingStored, OneStored
  <2>. QED BY <2>1, <2>2
<1>3. ASSUME NEW p \in Ops PROVE Excused(p) => Excused(p)'
  <2>1. UNCHANGED <<skipped, adopted>> /\ (rearms[p] > 0 => rearms'[p] > 0)
    BY DEF flush
  <2>2. Unadopted(p) => Unadopted(p)'
    BY <2>1 DEF Unadopted, SendsOf
  <2>. QED BY <2>1, <2>2 DEF Excused
<1>4. \A e \in batch : e[1] \in Ops /\ e[2] \in Nat
  BY DEF IInv, TypeOK
<1>5. UNCHANGED <<fpc, batch, fop, fsnap, adopted>>
  BY DEF flush
<1>6. Listed'
  <2>. SUFFICES ASSUME fpc # "sweeping", NEW e \in batch
                PROVE  /\ e[2] < nextRow'
                       /\ KindOf[e[1]] # "Send" =>
                            /\ ~Unborn(e[1])'
                            /\ row'[e[1]].state # Absent => row'[e[1]].rowid = e[2]
    BY <1>5 DEF Listed
  <2>1. /\ e[2] < nextRow
        /\ KindOf[e[1]] # "Send" =>
             ~Unborn(e[1]) /\ (row[e[1]].state # Absent => row[e[1]].rowid = e[2])
    BY DEF Listed
  <2>2. e[2] < nextRow'
    BY <1>2, <1>4, <2>1
  <2>. QED BY <1>4, <2>1, <2>2, RowidStays
<1>7. Holding'
  <2>. SUFFICES ASSUME fpc \in InHand
                PROVE  /\ fsnap.rowid < nextRow'
                       /\ KindOf[fop] # "Send" /\ row'[fop].state # Absent =>
                            row'[fop].rowid = fsnap.rowid
                       /\ fpc = "reached" => ~Unadopted(fop)'
    BY <1>5 DEF Holding
  <2>1. fop \in Ops /\ fsnap.rowid \in Nat
    BY DEF IInv, TypeOK, InHand, Row
  <2>2. ~Unborn(fop)
    BY <2>1 DEF IInv, Safe, UnbornIdle
  <2>3. /\ fsnap.rowid < nextRow
        /\ KindOf[fop] # "Send" /\ row[fop].state # Absent => row[fop].rowid = fsnap.rowid
        /\ fpc = "reached" => ~Unadopted(fop)
    BY DEF Holding
  <2>4. fsnap.rowid < nextRow'
    BY <1>2, <2>1, <2>3
  <2>5. Unadopted(fop)' => Unadopted(fop)
    BY <1>5 DEF Unadopted, SendsOf
  <2>. QED BY <2>1, <2>2, <2>3, <2>4, <2>5, RowidStays
<1>8. Turns'
  <2>1. ASSUME fpc # "sweeping", NEW e \in batch, NEW p \in Overtaken(e[1], e[2])'
        PROVE  Excused(p)' \/ p = fop \/ \E f \in batch : f[1] = p
    <3>1. e[2] \in Nat /\ e[2] < nextRow
      BY <1>4, <2>1 DEF Listed
    <3>2. p \in Overtaken(e[1], e[2]) \/ rearms'[p] > 0
      BY <2>1, <3>1, NoneComesBack
    <3>3. p \in Ops
      BY <2>1 DEF Overtaken
    <3>4. p \in Overtaken(e[1], e[2]) =>
            Excused(p) \/ p = fop \/ \E f \in batch : f[1] = p
      BY <2>1 DEF Turns
    <3>. QED BY <1>3, <3>2, <3>3, <3>4 DEF Excused
  <2>2. ASSUME fpc \in InHand, NEW p \in Overtaken(fop, fsnap.rowid)'
        PROVE  Excused(p)'
    <3>1. fsnap.rowid \in Nat /\ fsnap.rowid < nextRow
      BY <2>2 DEF Holding, IInv, TypeOK, Row
    <3>2. p \in Overtaken(fop, fsnap.rowid)' /\ UNCHANGED <<fop, fsnap>>
      BY <1>5, <2>2
    <3>3. \A o, n : p \in Overtaken(o, n)' => p \in Ops
      BY DEF Overtaken
    <3>4. p \in Overtaken(fop, fsnap.rowid) \/ rearms'[p] > 0
      BY <1>5, <2>2, <3>1, NoneComesBack
    <3>5. p \in Overtaken(fop, fsnap.rowid) => Excused(p)
      BY <2>2 DEF Turns
    <3>. QED BY <1>3, <3>2, <3>3, <3>4, <3>5 DEF Excused
  <2>. QED BY <1>5, <2>1, <2>2 DEF Turns
<1>. QED BY <1>1, <1>6, <1>7, <1>8

\* Ending a pass, a sweep, or a cycle keeps the order: nothing is listed any more.
LEMMA RestOrder ==
    ASSUME IInv, TypeOK', Order, RowStep,
           fpc' = "sweeping" \/ (fpc' = "idle" /\ batch' = {})
    PROVE  Order'
<1>1. Rowids'
  BY RowidsStay DEF Order
<1>2. Listed' /\ Holding' /\ Turns'
  BY DEF Listed, Holding, Turns, InHand
<1>. QED BY <1>1, <1>2 DEF Order

\* A pass lists whatever is older on the same entity with each row it lists.
LEMMA StartPassOrder == ASSUME IInv, TypeOK', Order, StartPass PROVE Order'
<1>. USE DEF Order
<1>0. /\ UNCHANGED <<row, nextRow, minted, client, fop>>
      /\ batch' = FlushableRows /\ fpc' = "drain"
  BY DEF StartPass, table, counts
<1>1. Rowids'
  BY <1>0 DEF Rowids, Stored
<1>2. Flushable \subseteq Stored /\ Flushable \subseteq Ops
  BY DEF Flushable, Stored, IsFlushable, Absent
<1>. DEFINE Ahead(p) == {q \in Flushable : row[q].rowid < row[p].rowid}
<1>a. FlushableRows = {<<o, row[o].rowid>> : o \in
                         {p \in Flushable : Cardinality(Ahead(p)) < BatchLimit}}
  BY DEF FlushableRows
<1>b. \A p, q : q \in Ahead(p) <=> q \in Flushable /\ row[q].rowid < row[p].rowid
  OBVIOUS
<1>. HIDE DEF Ahead
<1>3. \A e \in FlushableRows :
        /\ e[1] \in Flushable /\ e[2] = row[e[1]].rowid
        /\ Cardinality(Ahead(e[1])) < BatchLimit
  BY <1>a
<1>4. \A p \in Flushable : Cardinality(Ahead(p)) < BatchLimit =>
         <<p, row[p].rowid>> \in FlushableRows
  BY <1>a
<1>5. \A p \in Flushable : IsFiniteSet(Ahead(p)) /\ Cardinality(Ahead(p)) \in Nat
  <2>. TAKE p \in Flushable
  <2>1. IsFiniteSet(Stored) /\ Ahead(p) \subseteq Stored
    BY <1>2, <1>b DEF Rowids
  <2>2. IsFiniteSet(Ahead(p))
    BY <2>1, FS_Subset
  <2>. QED BY <2>2, FS_CardinalityType
<1>6. \A p \in Flushable : row[p].rowid \in Nat
  BY <1>2 DEF IInv, TypeOK, Row
<1>7. Listed'
  <2>. SUFFICES ASSUME NEW e \in FlushableRows
                PROVE  /\ e[2] < nextRow
                       /\ KindOf[e[1]] # "Send" =>
                            ~Unborn(e[1]) /\ (row[e[1]].state # Absent => row[e[1]].rowid = e[2])
    BY <1>0 DEF Listed, Unborn, Fresh
  <2>1. e[1] \in Stored /\ e[2] = row[e[1]].rowid
    BY <1>2, <1>3
  <2>2. ~Unborn(e[1]) /\ row[e[1]].rowid < nextRow
    BY <2>1 DEF IInv, Safe, UnbornIdle, Rowids, Stored
  <2>. QED BY <2>1, <2>2
<1>8. Holding'
  BY <1>0 DEF Holding, InHand
<1>9. Turns'
  <2>1. ASSUME NEW e \in FlushableRows, NEW p \in Overtaken(e[1], e[2])
        PROVE  \E f \in FlushableRows : f[1] = p
    <3>1. /\ p \in Ops /\ KindOf[p] # "Send" /\ IsFlushable(row[p].state)
          /\ row[p].rowid < e[2]
      BY <2>1 DEF Overtaken
    <3>2. p \in Stored
      BY <3>1 DEF Stored, IsFlushable, Absent
    <3>3. p \in Flushable
      BY <3>1, <3>2 DEF Flushable, Rowids
    <3>4. e[1] \in Flushable /\ row[p].rowid < row[e[1]].rowid
      BY <1>3, <3>1
    <3>5. Ahead(p) \subseteq Ahead(e[1])
      BY <1>6, <1>b, <3>3, <3>4
    <3>6. /\ IsFiniteSet(Ahead(e[1])) /\ Cardinality(Ahead(e[1])) \in Nat
          /\ Cardinality(Ahead(p)) \in Nat /\ Cardinality(Ahead(e[1])) < BatchLimit
      BY <1>3, <1>5, <3>3, <3>4
    <3>7. Cardinality(Ahead(p)) <= Cardinality(Ahead(e[1]))
      BY <3>5, <3>6, FS_Subset
    <3>8. Cardinality(Ahead(p)) < BatchLimit
      BY <3>6, <3>7, ConstantsOK
    <3>9. <<p, row[p].rowid>> \in FlushableRows
      BY <1>4, <3>3, <3>8
    <3>. QED BY <3>9
  <2>2. \A o, n : Overtaken(o, n)' = Overtaken(o, n)
    BY <1>0 DEF Overtaken
  <2>3. fpc' \notin InHand
    BY <1>0 DEF InHand
  <2>4. \A e \in batch' : Overtaken(e[1], e[2])' = Overtaken(e[1], e[2])
    BY <2>2
  <2>5. \A e \in batch' : \A p \in Overtaken(e[1], e[2])' : \E f \in batch' : f[1] = p
    BY <1>0, <2>1, <2>4
  <2>. QED BY <2>3, <2>5 DEF Turns
<1>. QED BY <1>1, <1>7, <1>8, <1>9

\* The entries that are still listed stay sound while no row is stored.
LEMMA ListedStays ==
    ASSUME IInv, Order, NothingStored, UNCHANGED <<minted, client>>,
           fpc # "sweeping", batch' \subseteq batch
    PROVE  Listed'
<1>. SUFFICES ASSUME NEW e \in batch'
              PROVE  /\ e[2] < nextRow'
                     /\ KindOf[e[1]] # "Send" =>
                          /\ ~Unborn(e[1])'
                          /\ row'[e[1]].state # Absent => row'[e[1]].rowid = e[2]
  BY DEF Listed
<1>1. e[1] \in Ops
  BY DEF IInv, TypeOK
<1>2. /\ e[2] < nextRow
      /\ KindOf[e[1]] # "Send" =>
           ~Unborn(e[1]) /\ (row[e[1]].state # Absent => row[e[1]].rowid = e[2])
  BY DEF Order, Listed
<1>3. Unborn(e[1])' <=> Unborn(e[1])
  BY DEF Unborn, Fresh
<1>. QED BY <1>1, <1>2, <1>3 DEF NothingStored

\* The oldest listed row is re-fetched first, so whatever is older than it and
\* still queued is excused.
LEMMA FetchOrder == ASSUME IInv, TypeOK', Order, Fetch PROVE Order'
<1>. USE DEF Order
<1>0. PICK e \in batch :
        /\ IsFirst(e, batch) /\ batch' = batch \ {e}
        /\ IF IsFlushable(row[e[1]].state)
           THEN fpc' = "fetched" /\ fop' = e[1] /\ fsnap' = row[e[1]]
           ELSE UNCHANGED <<fpc, fop, fsnap>>
  BY DEF Fetch
<1>1. /\ UNCHANGED <<row, nextRow, minted, client, adopted, skipped, rearms>>
      /\ fpc = "drain"
  BY DEF Fetch, table, counts
<1>2. fop = None /\ e[1] \in Ops /\ \A f \in batch : f[1] \in Ops /\ f[2] \in Nat
  BY <1>1 DEF IInv, TypeOK
<1>3. Rowids'
  BY <1>1 DEF Rowids, Stored
<1>4. Listed'
  <2>1. NothingStored /\ batch' \subseteq batch
    BY <1>0, <1>1 DEF NothingStored
  <2>. QED BY <1>1, <2>1, ListedStays
<1>5. \A p : Excused(p) => Excused(p)'
  BY <1>1 DEF Excused, Unadopted, SendsOf
<1>6. \A f \in batch : \A p \in Overtaken(f[1], f[2]) :
        /\ p \in Ops /\ KindOf[p] # "Send" /\ IsFlushable(row[p].state)
        /\ row[p].rowid < f[2]
        /\ Excused(p) \/ \E g \in batch : g[1] = p
  <2>1. \A f \in batch : \A p \in Overtaken(f[1], f[2]) :
          Excused(p) \/ p = fop \/ \E g \in batch : g[1] = p
    BY <1>1 DEF Turns
  <2>. QED BY <1>2, <2>1, ConstantsOK DEF Overtaken
<1>7. \A g \in batch : KindOf[g[1]] # "Send" /\ row[g[1]].state # Absent =>
                         row[g[1]].rowid = g[2]
  BY <1>1 DEF Listed
<1>8. \A p \in Overtaken(e[1], e[2]) : Excused(p)
  <2>. TAKE p \in Overtaken(e[1], e[2])
  <2>1. SUFFICES ASSUME NEW g \in batch, g[1] = p PROVE FALSE
    BY <1>6
  <2>2. row[p].rowid = g[2] /\ row[p].rowid < e[2]
    BY <1>6, <1>7, <2>1 DEF IsFlushable, Absent
  <2>3. e[2] <= g[2]
    BY <1>0 DEF IsFirst
  <2>. QED BY <1>2, <2>2, <2>3
<1>9. CASE ~IsFlushable(row[e[1]].state)
  <2>1. UNCHANGED <<fpc, fop, fsnap>> /\ fpc' = "drain"
    BY <1>0, <1>1, <1>9
  <2>2. \A f \in batch' : \A p \in Overtaken(f[1], f[2])' :
          Excused(p)' \/ \E g \in batch' : g[1] = p
    <3>. SUFFICES ASSUME NEW f \in batch', NEW p \in Overtaken(f[1], f[2])
                  PROVE  Excused(p) \/ \E g \in batch' : g[1] = p
      BY <1>1, <1>5 DEF Overtaken
    <3>1. f \in batch
      BY <1>0
    <3>2. Excused(p) \/ \E g \in batch : g[1] = p
      BY <1>6, <3>1
    <3>3. p # e[1]
      BY <1>6, <1>9, <3>1
    <3>. QED BY <1>0, <3>2, <3>3
  <2>. QED BY <1>3, <1>4, <2>1, <2>2 DEF Holding, Turns, InHand
<1>10. CASE IsFlushable(row[e[1]].state)
  <2>1. fpc' = "fetched" /\ fop' = e[1] /\ fsnap' = row[e[1]]
    BY <1>0, <1>10
  <2>2. row[e[1]].state # Absent
    BY <1>10 DEF IsFlushable, Absent
  <2>3. row[e[1]].rowid < nextRow
    BY <1>2, <2>2 DEF Rowids, Stored
  <2>4. Holding'
    BY <1>1, <2>1, <2>3 DEF Holding
  <2>5. \A f \in batch' : \A p \in Overtaken(f[1], f[2])' :
          Excused(p)' \/ p = fop' \/ \E g \in batch' : g[1] = p
    <3>. SUFFICES ASSUME NEW f \in batch', NEW p \in Overtaken(f[1], f[2])
                  PROVE  Excused(p) \/ p = fop' \/ \E g \in batch' : g[1] = p
      BY <1>1, <1>5 DEF Overtaken
    <3>1. f \in batch
      BY <1>0
    <3>. QED BY <1>0, <1>6, <2>1, <3>1
  <2>6. ASSUME NEW p \in Overtaken(fop, fsnap.rowid)' PROVE Excused(p)'
    <3>1. /\ KindOf[e[1]] # "Send"
          /\ p \in Ops /\ EntityOf[p] = EntityOf[e[1]] /\ "Send" \notin {KindOf[e[1]], KindOf[p]}
          /\ IsFlushable(row[p].state) /\ row[p].rowid < row[e[1]].rowid
      BY <1>1, <2>1 DEF Overtaken
    <3>2. row[e[1]].rowid = e[2]
      BY <1>7, <2>2, <3>1
    <3>3. p \in Overtaken(e[1], e[2])
      BY <3>1, <3>2 DEF Overtaken
    <3>. QED BY <1>5, <1>8, <3>3
  <2>. QED BY <1>3, <1>4, <2>1, <2>4, <2>5, <2>6 DEF Turns
<1>. QED BY <1>9, <1>10

\* Claiming the operation in hand, and reaching the provider with it, keep the
\* order: its row stays queued and nobody else's changes.
LEMMA PushOrder ==
    ASSUME IInv, TypeOK', Order, RowStep,
           \/ Claim /\ fpc' = "pushing"
           \/ Reach
    PROVE  Order'
<1>. USE DEF Order
<1>1. /\ UNCHANGED <<nextRow, minted, client, adopted, batch, skipped, rearms, fop, fsnap>>
      /\ fpc \in InHand /\ fpc' \in InHand /\ fpc # "sweeping"
      /\ fpc' = "reached" => ~Unadopted(fop)
  BY DEF Claim, Reach, table, counts, InHand
<1>2. fop \in Ops /\ row \in [Ops -> Row]
  BY <1>1 DEF IInv, TypeOK, InHand
<1>3. \/ row' = row
      \/ row' = Claimed(fop) /\ row[fop].state # Absent
  BY DEF Claim, Reach, table, IsFlushable, Absent
<1>4. NothingStored
  BY <1>1, <1>2, <1>3, StatementStores DEF IInv
<1>5. \A p \in Ops : p # fop => row'[p].state = row[p].state
  BY <1>2, <1>3, StatementStates
<1>6. Rowids' /\ Listed'
  BY <1>1, <1>4, RowidsStay, ListedStays
<1>7. Holding'
  <2>1. /\ fsnap.rowid < nextRow
        /\ KindOf[fop] # "Send" /\ row[fop].state # Absent => row[fop].rowid = fsnap.rowid
    BY <1>1 DEF Holding
  <2>2. row'[fop].state # Absent => row[fop].state # Absent /\ row'[fop].rowid = row[fop].rowid
    BY <1>2, <1>4 DEF NothingStored
  <2>3. Unadopted(fop)' <=> Unadopted(fop)
    BY <1>1 DEF Unadopted, SendsOf
  <2>. QED BY <1>1, <2>1, <2>2, <2>3 DEF Holding
<1>8. ASSUME NEW o, NEW n, NEW p \in Overtaken(o, n)', p # fop
      PROVE  p \in Overtaken(o, n)
  <2>1. /\ p \in Ops /\ EntityOf[p] = EntityOf[o] /\ "Send" \notin {KindOf[o], KindOf[p]}
        /\ IsFlushable(row'[p].state) /\ row'[p].rowid < n
    BY <1>8 DEF Overtaken
  <2>2. row'[p].state = row[p].state /\ row[p].state # Absent
    BY <1>5, <1>8, <2>1 DEF IsFlushable, Absent
  <2>3. row'[p].rowid = row[p].rowid
    BY <1>4, <2>1, <2>2 DEF NothingStored
  <2>. QED BY <2>1, <2>2, <2>3 DEF Overtaken
<1>9. \A p : Excused(p) => Excused(p)'
  BY <1>1 DEF Excused, Unadopted, SendsOf
<1>10. Turns'
  <2>1. ASSUME NEW e \in batch, NEW p \in Overtaken(e[1], e[2])'
        PROVE  Excused(p)' \/ p = fop \/ \E f \in batch : f[1] = p
    BY <1>1, <1>8, <1>9, <2>1 DEF Turns
  <2>2. ASSUME NEW p \in Overtaken(fop, fsnap.rowid)'
        PROVE  Excused(p)'
    <3>1. /\ p \in Ops /\ EntityOf[p] = EntityOf[fop] /\ "Send" \notin {KindOf[fop], KindOf[p]}
          /\ IsFlushable(row'[p].state) /\ row'[p].rowid < fsnap.rowid
      BY <1>1, <2>2 DEF Overtaken
    <3>2. p # fop
      <4>1. SUFFICES ASSUME p = fop PROVE FALSE
        OBVIOUS
      <4>2. row'[fop].state # Absent
        BY <3>1, <4>1 DEF IsFlushable, Absent
      <4>3. row'[fop].rowid = fsnap.rowid
        BY <1>1, <1>7, <3>1, <4>2 DEF Holding
      <4>4. row'[fop].rowid \in Nat
        BY <1>2 DEF TypeOK, Row
      <4>. QED BY <3>1, <4>1, <4>3, <4>4
    <3>3. row'[p].state = row[p].state /\ row[p].state # Absent
      BY <1>5, <3>1, <3>2 DEF IsFlushable, Absent
    <3>4. row'[p].rowid = row[p].rowid
      BY <1>4, <3>1, <3>3 DEF NothingStored
    <3>5. p \in Overtaken(fop, fsnap.rowid)
      BY <3>1, <3>3, <3>4 DEF Overtaken
    <3>. QED BY <1>1, <1>9, <3>5 DEF Turns
  <2>. QED BY <1>1, <2>1, <2>2 DEF Turns
<1>. QED BY <1>6, <1>7, <1>10

\* The operation in hand leaves the queue, is excused, or ends the pass.
LetGo ==
    \/ batch' = {}
    \/ KindOf[fop] = "Send"
    \/ ~IsFlushable(row'[fop].state)
    \/ fop \in skipped' \/ Unadopted(fop)

\* Putting the operation in hand down keeps the order.
LEMMA PutDownOrder ==
    ASSUME IInv, TypeOK', Order, NothingStored, fpc \in InHand, fpc' = "drain",
           UNCHANGED <<minted, client, adopted, rearms>>, batch' \in {batch, {}},
           skipped \subseteq skipped',
           \A p \in Ops : p # fop => row'[p].state = row[p].state,
           LetGo
    PROVE  Order'
<1>. USE DEF Order
<1>1. Rowids'
  BY RowidsStay DEF RowStep
<1>2. Listed'
  BY ListedStays DEF InHand
<1>3. \A p : Excused(p) => Excused(p)'
  BY DEF Excused, Unadopted, SendsOf
<1>4. ASSUME NEW e \in batch', NEW p \in Overtaken(e[1], e[2])'
      PROVE  Excused(p)' \/ \E f \in batch' : f[1] = p
  <2>1. /\ p \in Ops /\ EntityOf[p] = EntityOf[e[1]] /\ "Send" \notin {KindOf[e[1]], KindOf[p]}
        /\ IsFlushable(row'[p].state) /\ row'[p].rowid < e[2]
    BY <1>4 DEF Overtaken
  <2>2. batch' = batch
    BY <1>4
  <2>3. CASE p = fop
    <3>1. fop \in skipped' \/ Unadopted(fop)
      BY <2>1, <2>2, <2>3, <1>4 DEF LetGo
    <3>. QED BY <1>3, <2>3, <3>1 DEF Excused
  <2>4. CASE p # fop
    <3>1. row'[p].state = row[p].state /\ row'[p].state # Absent
      BY <2>1, <2>4 DEF IsFlushable, Absent
    <3>2. row'[p].rowid = row[p].rowid
      BY <2>1, <3>1 DEF NothingStored
    <3>3. p \in Overtaken(e[1], e[2])
      BY <2>1, <3>1, <3>2 DEF Overtaken
    <3>4. Excused(p) \/ p = fop \/ \E f \in batch : f[1] = p
      BY <2>2, <3>3 DEF Turns, InHand
    <3>. QED BY <1>3, <2>2, <2>4, <3>4
  <2>. QED BY <2>3, <2>4
<1>. QED BY <1>1, <1>2, <1>4 DEF Holding, Turns, InHand

\* Every step of the flusher keeps the order.
LEMMA FlusherOrder == ASSUME IInv, TypeOK', Order, RowStep, Flusher PROVE Order'
<1>. USE DEF IInv
<1>1. CASE StartPass \/ Fetch
  BY <1>1, StartPassOrder, FetchOrder
<1>2. CASE AbortCycle \/ BeginSweep \/ SweepStep \/ EndSweep
  <2>1. fpc' = "sweeping" \/ (fpc' = "idle" /\ batch' = {})
    BY <1>2 DEF AbortCycle, BeginSweep, SweepStep, EndSweep, Drained
  <2>. QED BY <2>1, RestOrder
<1>3. CASE Reach \/ (Claim /\ fpc' = "pushing")
  BY <1>3, PushOrder
<1>4. ASSUME fpc \in InHand, fpc' = "drain",
             UNCHANGED <<nextRow, minted, client, adopted, rearms>>,
             batch' \in {batch, {}}, skipped \subseteq skipped',
             \/ row' \in {row, Settled(fop), Removed(fop)}
             \/ \E s, a : row' = Updated(fop, s, a),
             LetGo
      PROVE  Order'
  <2>1. fop \in Ops /\ row \in [Ops -> Row]
    BY <1>4 DEF TypeOK, InHand
  <2>2. NothingStored
    BY <1>4, <2>1, StatementStores
  <2>3. \A p \in Ops : p # fop => row'[p].state = row[p].state
    <3>1. \A p \in Ops : p # fop =>
            /\ Settled(fop)[p].state = row[p].state /\ Removed(fop)[p].state = row[p].state
            /\ \A s, a : Updated(fop, s, a)[p].state = row[p].state
      BY <2>1, StatementStates
    <3>. QED BY <1>4, <3>1
  <2>. QED BY <1>4, <2>2, <2>3, PutDownOrder
<1>a. fpc \in InHand => fop \in Ops /\ row \in [Ops -> Row]
  BY DEF TypeOK, InHand
<1>b. ASSUME fpc \in InHand, NEW s, NEW a, row' = Updated(fop, s, a)
      PROVE  row'[fop].state \in {s, Absent}
  BY <1>a, <1>b, StatementStates
<1>5. CASE Park
  <2>1. LetGo
    BY <1>5 DEF Park, MustPark, LetGo
  <2>2. row' = Updated(fop, "DispatchUncertain", fsnap.attempts)
    BY <1>5 DEF Park
  <2>. QED BY <1>4, <1>5, <2>1, <2>2 DEF Park, InHand, counts
<1>6. CASE Claim /\ fpc' # "pushing"
  <2>1. UNCHANGED row /\ ~IsFlushable(row[fop].state) /\ fpc = "fetched" /\ fpc' = "drain"
    BY <1>6 DEF Claim
  <2>2. LetGo
    BY <2>1 DEF LetGo
  <2>. QED BY <1>4, <1>6, <2>1, <2>2 DEF Claim, InHand, counts
<1>7. CASE Settle \/ Reject \/ NothingToAssert
  <2>1. row' \in {Settled(fop), Removed(fop)} /\ fpc \in InHand
    BY <1>7 DEF Settle, Reject, NothingToAssert, Conclude, InHand
  <2>2. row'[fop].state \in {"Applied", Absent}
    BY <1>a, <2>1, StatementStates
  <2>3. LetGo
    BY <2>2 DEF LetGo, IsFlushable, Absent
  <2>. QED BY <1>4, <1>7, <2>1, <2>3 DEF Settle, Reject, NothingToAssert, Conclude
<1>8. CASE Defer
  <2>1. LetGo /\ row' = Updated(fop, "Pending", fsnap.attempts)
    BY <1>8 DEF Defer, Conclude, LetGo
  <2>. QED BY <1>4, <1>8, <2>1 DEF Defer, Conclude, InHand
<1>9. CASE Transient
  <2>. DEFINE a == Bump(fsnap.attempts)
  <2>1. /\ row' = Updated(fop, "Pending", a)
        /\ batch' = (IF a >= StopThreshold THEN batch ELSE {})
        /\ skipped' = (IF a >= StopThreshold THEN skipped \cup {fop} ELSE skipped)
    BY <1>9 DEF Transient, Conclude
  <2>2. LetGo
    BY <2>1 DEF LetGo
  <2>. HIDE DEF a
  <2>3. batch' \in {batch, {}} /\ skipped \subseteq skipped'
    BY <2>1
  <2>. QED BY <1>4, <1>9, <2>1, <2>2, <2>3 DEF Transient, Conclude, InHand
<1>10. CASE Uncertain
  <2>1. LetGo /\ row' = Updated(fop, "DispatchUncertain", Bump(fsnap.attempts))
    BY <1>10 DEF Uncertain, Conclude, LetGo
  <2>. QED BY <1>4, <1>10, <2>1 DEF Uncertain, Conclude, InHand
<1>11. CASE Permanent
  <2>1. row' = Updated(fop, "Failed", Bump(fsnap.attempts)) /\ fpc \in InHand
    BY <1>11 DEF Permanent, Conclude, InHand
  <2>2. LetGo
    BY <1>b, <2>1 DEF LetGo, IsFlushable, Absent
  <2>. QED BY <1>4, <1>11, <2>1, <2>2 DEF Permanent, Conclude
<1>. QED BY <1>1, <1>2, <1>3, <1>5, <1>6, <1>7, <1>8, <1>9, <1>10, <1>11 DEF Flusher

\* So does every other step.
LEMMA EveryOrder == ASSUME IInv, TypeOK', Order, [Next]_vars PROVE Order'
<1>1. RowStep /\ \A o \in Ops : Unborn(o)' => Unborn(o)
  BY EveryRowStep, BornStays
<1>2. CASE UNCHANGED <<flush, adopted, rearms>> /\ Plain
  <2>1. \A q \in Ops : row'[q].state = row[q].state \/ row'[q].state = Absent
                       \/ row[q].state = Absent
    BY <1>2, PlainStates DEF IInv
  <2>2. \A q \in Ops :
          /\ rearms[q] > 0 => rearms'[q] > 0
          /\ IsFlushable(row'[q].state) /\ row[q].state # Absent =>
                IsFlushable(row[q].state) \/ rearms'[q] > 0
    BY <1>2, <2>1 DEF IsFlushable, Absent
  <2>. QED BY <1>1, <1>2, <2>2, OthersOrder
<1>3. ASSUME NEW c \in Clients, FinishRetry(c) PROVE Order'
  <2>. DEFINE o == client[c].op
  <2>1. o \in Ops
    BY <1>3, ClientFields DEF FinishRetry, IInv, TypeOK
  <2>2. \A q \in Ops : row'[q].state = IF q = o /\ row[o].state # Absent THEN "Pending"
                                        ELSE row[q].state
    BY <1>3, <2>1, StatementStates DEF FinishRetry, IInv, TypeOK
  <2>3. \A q \in Ops : rearms'[q] = IF q = o THEN rearms[q] + 1 ELSE rearms[q]
    BY <1>3, <2>1 DEF FinishRetry, IInv, TypeOK
  <2>. HIDE DEF o
  <2>4. \A q \in Ops :
          /\ rearms[q] > 0 => rearms'[q] > 0
          /\ IsFlushable(row'[q].state) /\ row[q].state # Absent =>
                IsFlushable(row[q].state) \/ rearms'[q] > 0
    BY <2>1, <2>2, <2>3 DEF IInv, TypeOK
  <2>5. UNCHANGED <<flush, adopted>>
    BY <1>3 DEF FinishRetry
  <2>. QED BY <1>1, <2>4, <2>5, OthersOrder
<1>4. ASSUME NEW c \in Clients, Command(c) PROVE Order'
  <2>1. CASE Plain /\ ~FinishRetry(c)
    <3>1. UNCHANGED <<flush, adopted, rearms>>
      BY <1>4, <2>1 DEF Command, BeginSave, BeginAssert, BeginRetry, Discard, RemoveVictim,
         BeginDraftDiscard, SupersedeSave, FinishSave, FinishDraftDiscard, FinishCoalesce,
         ApplyAssert, counts
    <3>. QED BY <1>2, <2>1, <3>1
  <2>. QED BY <1>3, <1>4, <2>1, CommandPlain
<1>5. CASE Admit
  <2>1. UNCHANGED <<flush, adopted, rearms>>
    BY <1>5 DEF Admit, EnqueueSend, AnswerReplay, ForgetOutcome, RepairTombstone,
                HoldExpires, counts
  <2>. QED BY <1>2, <1>5, <2>1, AdmitPlain
<1>6. CASE DropCycle \/ Crash
  <2>1. fpc' = "idle" /\ batch' = {}
    BY <1>6 DEF DropCycle, Crash, DropFlush
  <2>. QED BY <1>1, <2>1, RestOrder
<1>7. CASE UNCHANGED vars
  <2>1. UNCHANGED <<flush, adopted, rearms>> /\ Plain
    BY <1>7 DEF vars, table, counts, Plain
  <2>. QED BY <1>2, <2>1
<1>. QED BY <1>1, <1>4, <1>5, <1>6, <1>7, FlusherOrder DEF Next

\* Nothing is listed, in hand or stored initially.
LEMMA InitOrder == Init => Order
<1>. SUFFICES ASSUME Init PROVE Order
  OBVIOUS
<1>1. Stored = {}
  BY DEF Init, Stored, NoRow
<1>2. Rowids
  BY <1>1, FS_EmptySet DEF Rowids
<1>3. Listed /\ Holding /\ Turns
  BY DEF Init, Listed, Holding, Turns, InHand
<1>. QED BY <1>2, <1>3 DEF Order

\* While the provider has taken an operation it is about no unadopted send, and
\* then neither is any operation on the same entity.
LEMMA OrderIsInOrder == ASSUME IInv, Order PROVE InOrder
<1>. SUFFICES ASSUME fpc = "reached", NEW p \in Overtaken(fop, fsnap.rowid)
              PROVE  p \in skipped \/ rearms[p] > 0
  BY DEF InOrder
<1>1. Excused(p) /\ ~Unadopted(fop)
  BY DEF Order, Turns, Holding, InHand
<1>2. /\ fop \in Ops /\ p \in Ops /\ EntityOf[p] = EntityOf[fop]
      /\ "Send" \notin {KindOf[fop], KindOf[p]}
  BY DEF Overtaken, IInv, TypeOK
<1>3. ASSUME Unadopted(p) PROVE FALSE
  <2>1. PICK s \in SendsOf(p) : TRUE
    BY <1>3 DEF Unadopted
  <2>2. SendsOf(p) = SendsOf(fop)
    BY <1>2 DEF SendsOf
  <2>3. s \in Ops /\ KindOf[s] = "Send" /\ EntityOf[s] = EntityOf[fop]
    BY <1>2, <2>1 DEF SendsOf
  <2>4. KindOf[fop] \in Kinds
    BY <1>2, ConstantsOK
  <2>5. KindOf[fop] \notin {"DraftCreate", "DraftUpdate", "DraftDelete"}
    BY <1>2, <2>3, ConstantsOK
  <2>6. IsStateAssertion(KindOf[fop])
    BY <1>2, <2>4, <2>5 DEF Kinds, IsStateAssertion
  <2>. QED BY <1>1, <1>3, <2>2, <2>6 DEF Unadopted
<1>. QED BY <1>1, <1>3 DEF Excused

\* Per entity the provider takes operations in the order of the log, for any
\* number of operations, commands, passes, crashes and retries: an older one is
\* overtaken only if the pass tried it first and gave up, or the user re-armed it.
THEOREM ProviderSeesLogOrder == Spec => []InOrder
<1>1. Init => Order
  BY InitOrder
<1>2. IInv /\ IInv' /\ Order /\ [Next]_vars => Order'
  BY EveryOrder DEF IInv
<1>3. IInv /\ Order => InOrder
  BY OrderIsInOrder
<1>. QED BY <1>1, <1>2, <1>3, InvariantHolds, PTL DEF Spec

(***************************************************************************)
(* Delivery                                                                *)
(***************************************************************************)
\* The requests for an operation: its first command, retries and redeliveries.
Requests(o) == (IF o \in minted THEN 1 ELSE 0) + rearms[o] + replays[o]

\* A send at the provider was taken.
AttemptTaken == fpc = "reached" /\ KindOf[fop] = "Send" => effects[fop] > 0

Promised == IInv /\ AttemptTaken

\* Nothing a user is told of changes.
Aside == UNCHANGED <<minted, effects, rearms, replays, fate>>

\* Such a step leaves the delivery alone.
LEMMA AsideStands == ASSUME Aside PROVE UNCHANGED Delivery!deliveryVars
  BY DEF Aside, Delivery!deliveryVars

\* One request more.
LEMMA AskStep ==
    ASSUME TypeOK, NEW o \in Ops, effects' = effects,
           \A p \in Ops : Requests(p)' = IF p = o THEN Requests(p) + 1 ELSE Requests(p),
           fate' = fate \/ (fate[o] # "raced" /\ \E f \in {"open", "raced"} : fate' = [fate EXCEPT ![o] = f])
    PROVE  Delivery!Ask(o)
<1>1. [p \in Ops |-> Requests(p)'] = [[p \in Ops |-> Requests(p)] EXCEPT ![o] = @ + 1]
  OBVIOUS
<1>2. fate' = fate \/ (fate[o] # "raced" /\ fate' \in {[fate EXCEPT ![o] = r] : r \in {"open", "raced"}})
  OBVIOUS
<1>. QED BY <1>1, <1>2 DEF Delivery!Ask, Requests

\* An operation is asked for when its id is handed out.
LEMMA MintAsks ==
    ASSUME TypeOK, NEW o \in Ops, o \notin minted, minted' = minted \cup {o},
           UNCHANGED <<effects, rearms, replays, fate>>
    PROVE  Delivery!Ask(o)
<1>1. \A p \in Ops : Requests(p)' = IF p = o THEN Requests(p) + 1 ELSE Requests(p)
  <2>1. \A p \in Ops : rearms[p] \in Nat /\ replays[p] \in Nat
    BY DEF TypeOK
  <2>. QED BY <2>1 DEF Requests
<1>. QED BY <1>1, AskStep

\* A verdict that was judged before stays; another is reported or called off.
LEMMA JudgedStep ==
    ASSUME TypeOK, NEW o \in Ops, NEW f
    PROVE  Judged(o, f) = IF fate[o] = "raced" THEN fate ELSE [fate EXCEPT ![o] = f]
<1>1. fate \in [Ops -> Fates]
  BY DEF TypeOK
<1>. QED BY <1>1 DEF Judged

\* Whatever has a row, or a verdict, was asked for.
LEMMA AskedFirst ==
    ASSUME IInv, NEW o \in Ops, row[o].state # Absent \/ fop = o
    PROVE  o \in minted /\ Requests(o) > 0
<1>1. o \in minted
  BY DEF IInv, Safe, UnbornIdle, Unborn
<1>2. rearms[o] \in Nat /\ replays[o] \in Nat
  BY DEF IInv, TypeOK
<1>. QED BY <1>1, <1>2 DEF Requests

\* An operation is called off only while nothing was reported of it.
LEMMA CalledOff ==
    ASSUME IInv, NEW o \in Ops, Discardable(o), fate' = Judged(o, "discarded"),
           UNCHANGED <<minted, effects, rearms, replays>>
    PROVE  Delivery!CallOff(o) \/ UNCHANGED Delivery!deliveryVars
<1>1. TypeOK /\ fate[o] \in Fates
  BY DEF IInv, TypeOK
<1>2. row[o].state # Absent /\ row[o].state # "Applied"
  BY DEF Discardable
<1>3. fate[o] \in {"open", "raced"}
  BY <1>1, <1>2 DEF Fates, IInv, Safe, Verdicts
<1>4. CASE fate[o] = "raced"
  BY <1>1, <1>4, JudgedStep, AsideStands DEF Aside
<1>5. CASE fate[o] = "open"
  <2>1. fate' = [fate EXCEPT ![o] = "discarded"]
    BY <1>1, <1>5, JudgedStep
  <2>2. Requests(o) > 0
    BY <1>2, AskedFirst
  <2>. QED BY <1>5, <2>1, <2>2 DEF Delivery!CallOff, Requests
<1>. QED BY <1>3, <1>4, <1>5

\* A settlement is reported of an operation in hand, of a send once it was taken.
LEMMA Reported ==
    ASSUME IInv, fop \in Ops, Pushing(fop), fate' = Judged(fop, "settled"),
           KindOf[fop] = "Send" => effects[fop] > 0,
           UNCHANGED <<minted, effects, rearms, replays>>
    PROVE  Delivery!Report(fop) \/ UNCHANGED Delivery!deliveryVars
<1>1. TypeOK /\ fate[fop] \in Fates
  BY DEF IInv, TypeOK
<1>2. fate[fop] \in {"open", "raced"}
  BY <1>1 DEF Fates, IInv, Safe, Verdicts
<1>3. CASE fate[fop] = "raced"
  BY <1>1, <1>3, JudgedStep, AsideStands DEF Aside
<1>4. CASE fate[fop] = "open"
  <2>1. fate' = [fate EXCEPT ![fop] = "settled"]
    BY <1>1, <1>4, JudgedStep
  <2>2. Requests(fop) > 0
    BY AskedFirst
  <2>. QED BY <1>4, <2>1, <2>2 DEF Delivery!Report, Requests
<1>. QED BY <1>2, <1>3, <1>4

Delivers == Delivery!DeliveryNext \/ UNCHANGED Delivery!deliveryVars

\* The flusher takes and reports.
LEMMA FlusherDelivers == ASSUME Promised, Flusher PROVE Delivers
<1>. IInv /\ TypeOK
  BY DEF Promised, IInv
<1>1. CASE \/ StartPass \/ AbortCycle \/ Fetch \/ Park \/ Claim \/ Defer \/ Transient
           \/ Uncertain \/ Permanent \/ BeginSweep \/ SweepStep \/ EndSweep
  <2>1. Aside
    BY <1>1 DEF Aside, StartPass, AbortCycle, Fetch, Park, Claim, Defer, Transient, Uncertain,
                Permanent, BeginSweep, SweepStep, EndSweep, Conclude, table, counts
  <2>. QED BY <2>1, AsideStands DEF Delivers
<1>2. CASE Reach
  <2>1. fop \in Ops /\ fpc = "pushing" /\ UNCHANGED <<minted, rearms, replays, fate>>
    BY <1>2 DEF Reach, TypeOK, table
  <2>2. CASE KindOf[fop] # "Send"
    <3>1. Aside
      BY <1>2, <2>1, <2>2 DEF Aside, Reach
    <3>. QED BY <3>1, AsideStands DEF Delivers
  <2>3. CASE KindOf[fop] = "Send"
    <3>1. effects' = [effects EXCEPT ![fop] = @ + 1]
      BY <1>2, <2>3 DEF Reach
    <3>2. fate[fop] \in {"open", "raced"}
      BY <2>1 DEF IInv, Safe, Verdicts, Pushing, TypeOK, Fates
    <3>3. effects[fop] < Requests(fop)
      <4>1. fop \in minted
        BY <2>1, AskedFirst
      <4>2. /\ effects[fop] \in Nat /\ rearms[fop] \in Nat /\ replays[fop] \in Nat
            /\ effects[fop] + One(row[fop].state = "Pending") + 1 <= 1 + rearms[fop] + replays[fop]
        BY <2>1, <2>3 DEF IInv, Safe, Budget, TypeOK, One
      <4>. QED BY <4>1, <4>2 DEF One, Requests
    <3>4. Delivery!Take(fop)
      BY <2>1, <2>3, <3>1, <3>2, <3>3 DEF Delivery!Take, Requests
    <3>. QED BY <2>1, <3>4 DEF Delivers, Delivery!DeliveryNext
  <2>. QED BY <2>2, <2>3
<1>3. CASE Settle \/ Reject \/ NothingToAssert
  <2>1. /\ fpc \in {"pushing", "reached"} /\ fate' = Judged(fop, "settled")
        /\ UNCHANGED <<minted, effects, rearms, replays>>
    BY <1>3 DEF Settle, Reject, NothingToAssert, Conclude
  <2>2. fop \in Ops /\ Pushing(fop)
    BY <2>1 DEF TypeOK, Pushing
  <2>3. KindOf[fop] = "Send" => effects[fop] > 0
    BY <1>3 DEF Settle, Reject, NothingToAssert, Unadopted, IsStateAssertion, Promised, AttemptTaken
  <2>4. Delivery!Report(fop) \/ UNCHANGED Delivery!deliveryVars
    BY <2>1, <2>2, <2>3, Reported
  <2>. QED BY <2>2, <2>4 DEF Delivers, Delivery!DeliveryNext
<1>. QED BY <1>1, <1>2, <1>3 DEF Flusher

\* The send command asks, first or again; so does the repair of a tombstone.
LEMMA AdmitDelivers == ASSUME Promised, Admit PROVE Delivers
<1>. IInv /\ TypeOK
  BY DEF Promised, IInv
<1>1. ASSUME NEW o \in Ops, AnswerReplay(o) \/ ForgetOutcome(o) \/ HoldExpires(o) PROVE Delivers
  <2>1. Aside
    BY <1>1 DEF Aside, AnswerReplay, ForgetOutcome, HoldExpires, counts
  <2>. QED BY <2>1, AsideStands DEF Delivers
<1>2. ASSUME NEW o \in Ops, RepairTombstone(o) PROVE Delivers
  <2>1. Delivery!Ask(o)
    BY <1>2, MintAsks DEF RepairTombstone, Minted, counts
  <2>. QED BY <2>1 DEF Delivers, Delivery!DeliveryNext
<1>3. ASSUME NEW o \in Ops, NEW h \in BOOLEAN, EnqueueSend(o, h) PROVE Delivers
  <2>1. minted' = minted \cup {o} /\ UNCHANGED <<effects, rearms>>
    BY <1>3 DEF EnqueueSend, Minted
  <2>2. CASE o \notin minted
    <3>1. Delivery!Ask(o)
      BY <1>3, <2>1, <2>2, MintAsks DEF EnqueueSend
    <3>. QED BY <3>1 DEF Delivers, Delivery!DeliveryNext
  <2>3. CASE o \in minted
    <3>1. replays' = [replays EXCEPT ![o] = @ + 1] /\ fate' = Judged(o, "open")
      BY <1>3, <2>3 DEF EnqueueSend
    <3>2. \A p \in Ops : Requests(p)' = IF p = o THEN Requests(p) + 1 ELSE Requests(p)
      <4>1. \A p \in Ops : rearms[p] \in Nat /\ replays[p] \in Nat
        BY DEF TypeOK
      <4>2. \A p \in Ops : replays'[p] = IF p = o THEN replays[p] + 1 ELSE replays[p]
        BY <3>1 DEF TypeOK
      <4>. QED BY <2>1, <2>3, <4>1, <4>2 DEF Requests
    <3>3. fate' = fate \/ (fate[o] # "raced" /\ fate' = [fate EXCEPT ![o] = "open"])
      BY <3>1, JudgedStep
    <3>4. Delivery!Ask(o)
      BY <2>1, <3>2, <3>3, AskStep
    <3>. QED BY <3>4 DEF Delivers, Delivery!DeliveryNext
  <2>. QED BY <2>2, <2>3
<1>. QED BY <1>1, <1>2, <1>3 DEF Admit

\* Commands ask for what they queue, ask again, or call off.
LEMMA CommandDelivers == ASSUME Promised, NEW c \in Clients, Command(c) PROVE Delivers
<1>. IInv /\ TypeOK
  BY DEF Promised, IInv
<1>1. ASSUME NEW o \in Ops, BeginSave(c, o) \/ BeginAssert(c, o) \/ BeginDraftDiscard(c, o)
      PROVE  Delivers
  <2>1. o \notin minted /\ minted' = minted \cup {o} /\ UNCHANGED <<effects, rearms, replays, fate>>
    BY <1>1 DEF BeginSave, BeginAssert, BeginDraftDiscard, Minted, counts
  <2>2. Delivery!Ask(o)
    BY <2>1, MintAsks
  <2>. QED BY <2>2 DEF Delivers, Delivery!DeliveryNext
<1>2. ASSUME NEW o \in Ops, BeginRetry(c, o) \/ RemoveVictim(c, o) PROVE Delivers
  <2>1. Aside
    BY <1>2 DEF Aside, BeginRetry, RemoveVictim, table, counts
  <2>. QED BY <2>1, AsideStands DEF Delivers
<1>3. CASE FinishSave(c) \/ FinishDraftDiscard(c) \/ FinishCoalesce(c) \/ ApplyAssert(c)
  <2>1. Aside
    BY <1>3 DEF Aside, FinishSave, FinishDraftDiscard, FinishCoalesce, ApplyAssert, counts
  <2>. QED BY <2>1, AsideStands DEF Delivers
<1>4. ASSUME NEW o \in Ops, Discard(c, o) PROVE Delivers
  <2>1. Delivery!CallOff(o) \/ UNCHANGED Delivery!deliveryVars
    BY <1>4, CalledOff DEF Discard
  <2>. QED BY <2>1 DEF Delivers, Delivery!DeliveryNext
<1>5. ASSUME NEW o \in Ops, SupersedeSave(c, o) PROVE Delivers
  <2>1. UNCHANGED <<minted, effects, rearms, replays>>
    BY <1>5 DEF SupersedeSave
  <2>2. CASE Discardable(o)
    <3>1. fate' = Judged(o, "discarded")
      BY <1>5, <2>2 DEF SupersedeSave
    <3>2. Delivery!CallOff(o) \/ UNCHANGED Delivery!deliveryVars
      BY <2>1, <2>2, <3>1, CalledOff
    <3>. QED BY <3>2 DEF Delivers, Delivery!DeliveryNext
  <2>3. CASE ~Discardable(o)
    <3>1. Aside
      BY <1>5, <2>1, <2>3 DEF SupersedeSave, Aside
    <3>. QED BY <3>1, AsideStands DEF Delivers
  <2>. QED BY <2>2, <2>3
<1>6. CASE FinishRetry(c)
  <2>1. client[c].op \in Ops
    BY <1>6, ClientFields DEF FinishRetry, TypeOK
  <2>2. PICK o \in Ops : o = client[c].op
    BY <2>1
  <2>3. /\ UNCHANGED <<minted, effects, replays>>
        /\ rearms' = [rearms EXCEPT ![o] = @ + 1]
        /\ fate' = IF row[o].state = Absent THEN fate
                   ELSE Judged(o, IF IsTerminal(row[o].state) THEN "open" ELSE "raced")
    BY <1>6, <2>2 DEF FinishRetry
  <2>4. \A p \in Ops : Requests(p)' = IF p = o THEN Requests(p) + 1 ELSE Requests(p)
    <3>1. \A p \in Ops : rearms[p] \in Nat /\ replays[p] \in Nat
      BY DEF TypeOK
    <3>2. \A p \in Ops : rearms'[p] = IF p = o THEN rearms[p] + 1 ELSE rearms[p]
      BY <2>3 DEF TypeOK
    <3>. QED BY <2>3, <3>1, <3>2 DEF Requests
  <2>5. fate' = fate \/ (fate[o] # "raced" /\ \E f \in {"open", "raced"} : fate' = [fate EXCEPT ![o] = f])
    BY <2>2, <2>3, JudgedStep
  <2>6. Delivery!Ask(o)
    BY <2>2, <2>3, <2>4, <2>5, AskStep
  <2>. QED BY <2>2, <2>6 DEF Delivers, Delivery!DeliveryNext
<1>. QED BY <1>1, <1>2, <1>3, <1>4, <1>5, <1>6 DEF Command

\* A send at the provider stays taken until its outcome is written.
LEMMA AttemptStep == ASSUME Promised, [Next]_vars PROVE AttemptTaken'
<1>. IInv /\ TypeOK
  BY DEF Promised, IInv
<1>1. CASE Reach
  <2>1. fop \in Ops /\ fop' = fop /\ effects \in [Ops -> Nat]
    BY <1>1 DEF Reach, TypeOK
  <2>. QED BY <1>1, <2>1 DEF Reach, AttemptTaken
<1>2. ASSUME fpc' # "reached" PROVE AttemptTaken'
  BY <1>2 DEF AttemptTaken
<1>3. ASSUME UNCHANGED <<fpc, fop, effects>> PROVE AttemptTaken'
  BY <1>3 DEF AttemptTaken, Promised
<1>4. CASE Flusher /\ ~Reach
  <2>1. CASE StartPass \/ AbortCycle \/ Park \/ Claim \/ BeginSweep \/ EndSweep
    BY <1>2, <2>1 DEF StartPass, AbortCycle, Park, Claim, BeginSweep, EndSweep
  <2>2. CASE Fetch
    BY <1>2, <2>2 DEF Fetch
  <2>3. CASE SweepStep
    BY <1>2, <2>3 DEF SweepStep
  <2>4. CASE Settle \/ Reject \/ NothingToAssert \/ Defer \/ Transient \/ Uncertain \/ Permanent
    BY <1>2, <2>4 DEF Settle, Reject, NothingToAssert, Defer, Transient, Uncertain, Permanent, Conclude
  <2>. QED BY <1>4, <2>1, <2>2, <2>3, <2>4 DEF Flusher
<1>5. CASE DropCycle \/ Crash
  BY <1>2, <1>5 DEF DropCycle, Crash, DropFlush
<1>6. CASE Admit
  <2>1. UNCHANGED <<fpc, fop, effects>>
    BY <1>6 DEF Admit, EnqueueSend, AnswerReplay, ForgetOutcome, RepairTombstone, HoldExpires,
                flush, counts
  <2>. QED BY <1>3, <2>1
<1>7. ASSUME NEW c \in Clients, Command(c) PROVE AttemptTaken'
  <2>1. UNCHANGED <<fpc, fop, effects>>
    BY <1>7 DEF Command, BeginSave, BeginAssert, BeginRetry, Discard, RemoveVictim,
                BeginDraftDiscard, SupersedeSave, FinishSave, FinishDraftDiscard, FinishCoalesce,
                ApplyAssert, FinishRetry, flush, counts
  <2>. QED BY <1>3, <2>1
<1>8. CASE UNCHANGED vars
  BY <1>3, <1>8 DEF vars, flush, counts
<1>. QED BY <1>1, <1>4, <1>5, <1>6, <1>7, <1>8 DEF Next

\* The outbox delivers as promised: the provider takes a send at most once per
\* request and only while nothing final was reported of it; a verdict stays until
\* the user asks again; and a send reported as settled was taken (flush_pass,
\* retry_operation, discard_operation, the send command).
THEOREM OutboxDelivers == Spec => DeliveryRefines
<1>1. Init => Promised /\ Delivery!DeliveryInit
  <2>1. Init => IInv
    BY InitTypes, InitSafe DEF IInv
  <2>2. Init => Delivery!DeliveryInit
    BY DEF Init, Delivery!DeliveryInit
  <2>3. Init => AttemptTaken
    BY DEF Init, AttemptTaken
  <2>. QED BY <2>1, <2>2, <2>3 DEF Promised
<1>2. Promised /\ [Next]_vars => Promised'
  BY Inductive, AttemptStep DEF Promised
<1>3. Promised /\ [Next]_vars => [Delivery!DeliveryNext]_(Delivery!deliveryVars)
  <2> SUFFICES ASSUME Promised, [Next]_vars PROVE Delivers
    BY DEF Delivers
  <2>1. CASE DropCycle \/ Crash \/ UNCHANGED vars
    <3>1. Aside
      BY <2>1 DEF Aside, DropCycle, Crash, vars, table, counts
    <3>. QED BY <3>1, AsideStands DEF Delivers
  <2>. QED BY <2>1, FlusherDelivers, AdmitDelivers, CommandDelivers DEF Next
<1>. QED BY <1>1, <1>2, <1>3, PTL DEF Spec, DeliveryRefines, Delivery!DeliverySpec
=============================================================================
