--------------------------- MODULE GatewayProofs ----------------------------
(***************************************************************************)
(* What every provider call relies on, for every value of the bounds: the  *)
(* retry and breaker policy around a request, and the IMAP session that an *)
(* account's operations share with its IDLE watcher.                       *)
(***************************************************************************)
EXTENDS ProviderCall, ImapSession, TLAPS

-----------------------------------------------------------------------------
(***************************************************************************)
(* EnvelopeHolds for every number of callers, threshold and retry bound.   *)
(* A set was applied only if the server's state has moved past the one it  *)
(* was guarded by, so a repeated request finds the guard false: Guarded.   *)
(***************************************************************************)

CallTypes ==
    /\ phase \in {"closed", "open", "halfopen"}
    /\ failures \in Nat /\ streak \in Nat /\ sets \in Nat
    /\ stage \in [Calls -> {"idle", "attempt", "sleep", "answered"}]
    /\ good \in [Calls -> BOOLEAN]
    /\ expect \in [Calls -> Nat] /\ applied \in [Calls -> Nat]

\* What a caller's applied set leaves behind.
Guarded == \A c \in Calls : /\ expect[c] <= sets
                            /\ applied[c] <= 1
                            /\ applied[c] = 1 => expect[c] < sets

CallInv == CallTypes /\ OpenIsEarned /\ Guarded

-----------------------------------------------------------------------------
\* The initial states satisfy the invariant.
LEMMA CallInvInit == CallInit => CallInv
  BY ThresholdAssumption DEF CallInit, CallInv, CallTypes, OpenIsEarned, Guarded

\* A call that is let in takes the server's state as its guard and has applied
\* nothing yet.
LEMMA ExecuteKeeps == ASSUME CallInv, NEW c \in Calls, Execute(c) PROVE CallInv'
  <1> USE DEF CallInv
  <1>1. CallTypes' BY DEF CallTypes, Execute
  <1>2. OpenIsEarned' BY DEF CallTypes, Execute, OpenIsEarned, Admits
  <1>3. Guarded' BY DEF CallTypes, Execute, Guarded
  <1> QED BY <1>1, <1>2, <1>3

\* The server applies a set only in the state it is guarded by, which applying it
\* leaves behind.
LEMMA ReachedKeeps ==
    ASSUME CallTypes, Guarded, NEW c \in Calls, Reached(c) \/ UNCHANGED wireVars
    PROVE  /\ sets' \in Nat /\ expect' \in [Calls -> Nat] /\ applied' \in [Calls -> Nat]
           /\ Guarded'
  <1>1. CASE UNCHANGED wireVars BY <1>1 DEF CallTypes, Guarded, wireVars
  <1>2. CASE Reached(c) /\ Applies(c)
    <2>1. applied[c] = 0 BY <1>2 DEF CallTypes, Guarded, Applies
    <2>2. /\ sets' = sets + 1 /\ expect' = expect
          /\ applied' = [applied EXCEPT ![c] = 1]
      BY <1>2, <2>1 DEF CallTypes, Reached
    <2>3. sets' \in Nat /\ expect' \in [Calls -> Nat] /\ applied' \in [Calls -> Nat]
      BY <2>2 DEF CallTypes
    <2>4. ASSUME NEW d \in Calls
          PROVE  expect'[d] <= sets' /\ applied'[d] <= 1 /\ (applied'[d] = 1 => expect'[d] < sets')
      BY <2>2 DEF CallTypes, Guarded
    <2> QED BY <2>3, <2>4 DEF Guarded
  <1>3. CASE Reached(c) /\ ~Applies(c) BY <1>3 DEF CallTypes, Guarded, Reached, wireVars
  <1> QED BY <1>1, <1>2, <1>3

\* An attempt that reaches the server, fails on the way, or waits for its retry.
LEMMA AttemptKeeps == ASSUME CallInv, NEW c \in Calls, Attempt(c) PROVE CallInv'
  <1> USE DEF CallInv
  <1>1. Reached(c) \/ UNCHANGED wireVars BY DEF Attempt
  <1>2. /\ sets' \in Nat /\ expect' \in [Calls -> Nat] /\ applied' \in [Calls -> Nat] /\ Guarded'
    BY <1>1, ReachedKeeps
  <1>3. CallTypes' BY <1>2 DEF CallTypes, Attempt
  <1>4. OpenIsEarned' BY DEF OpenIsEarned, Attempt
  <1> QED BY <1>2, <1>3, <1>4

\* A recorded failure opens the breaker at the threshold; a success closes it.
LEMMA RecordKeeps == ASSUME CallInv, NEW c \in Calls, Record(c) PROVE CallInv'
  <1> USE DEF CallInv
  <1>1. CallTypes' BY DEF CallTypes, Record, Trip, wireVars
  <1>2. OpenIsEarned'
    BY ThresholdAssumption DEF CallTypes, OpenIsEarned, Record, Trip
  <1>3. Guarded' BY DEF Guarded, Record, wireVars
  <1> QED BY <1>1, <1>2, <1>3

\* The invariant is inductive.
LEMMA CallInvStep == CallInv /\ [CallNext]_callVars => CallInv'
  <1> SUFFICES ASSUME CallInv, [CallNext]_callVars PROVE CallInv'
    OBVIOUS
  <1> USE DEF CallInv
  <1>1. ASSUME NEW c \in Calls, Execute(c) PROVE CallInv' BY <1>1, ExecuteKeeps
  <1>2. ASSUME NEW c \in Calls, CircuitOpen(c) PROVE CallInv'
    BY <1>2 DEF CircuitOpen, CallTypes, OpenIsEarned, Guarded, wireVars
  <1>3. ASSUME NEW c \in Calls, Attempt(c) PROVE CallInv' BY <1>3, AttemptKeeps
  <1>4. ASSUME NEW c \in Calls, Retry(c) PROVE CallInv'
    BY <1>4 DEF Retry, CallTypes, OpenIsEarned, Guarded, wireVars
  <1>5. ASSUME NEW c \in Calls, Record(c) PROVE CallInv' BY <1>5, RecordKeeps
  <1>6. ASSUME NEW c \in Calls, DropCall(c) PROVE CallInv'
    BY <1>6 DEF DropCall, CallTypes, OpenIsEarned, Guarded, wireVars
  <1>7. CASE CooldownElapses
    BY <1>7 DEF CooldownElapses, CallTypes, OpenIsEarned, Guarded, wireVars
  <1>8. CASE UNCHANGED callVars
    BY <1>8 DEF callVars, CallTypes, OpenIsEarned, Guarded
  <1> QED BY <1>1, <1>2, <1>3, <1>4, <1>5, <1>6, <1>7, <1>8 DEF CallNext

\* The breaker opens only after BREAKER_FAILURE_THRESHOLD failures in a row, and a
\* set guarded by ifInState is applied at most once however often the executor
\* repeats it, for any number of overlapping calls.
THEOREM EnvelopeIsSound == CallSpec => []EnvelopeHolds
  <1>1. CallInv => EnvelopeHolds
    BY DEF CallInv, Guarded, EnvelopeHolds, GuardedSetOnce
  <1> QED BY CallInvInit, CallInvStep, <1>1, PTL DEF CallSpec

-----------------------------------------------------------------------------
(***************************************************************************)
(* SessionInStep for every number of operations.  Whoever works over the   *)
(* session stands first at its mutex, and a wire left in mid command is in *)
(* a slot that is still marked dirty or that is empty, so that the next    *)
(* holder connects anew.  The epoch of the last EXAMINE is the current one *)
(* only while the watched mailbox is selected.                             *)
(***************************************************************************)

Users == Leases \cup {Idler}

SessionTypes ==
    /\ lease \in [Leases -> {"ready", "recalled", "waiting", "working", "ended"}]
    /\ idler \in {"loop", "waiting", "holding", "idling", "aborted"}
    /\ slotQueue \in Seq(Users)
    /\ sessionEpoch \in Nat /\ examinedAt \in Nat
    /\ selected \in {"none", "another", "watched"}

Flags == /\ recall \in BOOLEAN /\ sessionUp \in BOOLEAN /\ slotDirty \in BOOLEAN
         /\ backingOff \in BOOLEAN /\ desynced \in BOOLEAN

First(user) == slotQueue # <<>> /\ slotQueue[1] = user

\* What holds of the slot while somebody works over it.
InUse == sessionUp /\ slotDirty /\ ~desynced /\ sessionEpoch > 0

Holding == /\ \A l \in Leases : lease[l] = "working" =>
                    First(l) /\ InUse /\ examinedAt < sessionEpoch
           /\ idler \in {"holding", "idling"} => First(Idler) /\ InUse

DirtyWhenCut == desynced => slotDirty \/ ~sessionUp

ExamineIsCurrent ==
    /\ examinedAt <= sessionEpoch
    /\ examinedAt = sessionEpoch /\ examinedAt > 0 => selected = "watched"

UpHasEpoch == sessionUp => sessionEpoch > 0

SessionInv == /\ SessionTypes /\ Flags /\ Holding /\ DirtyWhenCut /\ ExamineIsCurrent /\ UpHasEpoch
              /\ IdleWatchesItsMailbox

-----------------------------------------------------------------------------
\* The initial states satisfy the invariant.
LEMMA SessionInvInit == SessionInit => SessionInv
  <1> SUFFICES ASSUME SessionInit PROVE SessionInv OBVIOUS
  <1> USE DEF SessionInit
  <1>1. SessionTypes BY DEF SessionTypes
  <1>2. Holding BY DEF Holding
  <1>3. DirtyWhenCut BY Zenon DEF DirtyWhenCut
  <1>4. ExamineIsCurrent BY DEF ExamineIsCurrent
  <1>5. IdleWatchesItsMailbox BY DEF IdleWatchesItsMailbox
  <1>6. UpHasEpoch BY DEF UpHasEpoch
  <1>7. Flags BY Zenon DEF Flags
  <1> QED BY <1>1, <1>2, <1>3, <1>4, <1>5, <1>6, <1>7 DEF SessionInv

\* The holder of the mutex is the first of the queue.
LEMMA HolderIsFirst ==
    ASSUME SessionTypes, NEW user \in Users, SlotHolder = user, user # "nobody"
    PROVE  First(user)
  <1>1. slotQueue # <<>> /\ Head(slotQueue) = user BY DEF SlotHolder
  <1> QED BY <1>1 DEF SessionTypes, First

\* Nobody works while a waiter is first.
LEMMA WaiterIsAlone ==
    ASSUME SessionInv, NEW user \in Users, First(user),
           user \in Leases => lease[user] # "working",
           user = Idler => idler \notin {"holding", "idling"}
    PROVE  (\A l \in Leases : lease[l] # "working") /\ idler \notin {"holding", "idling"}
  BY SessionAssumption DEF SessionInv, Holding, First, Users, Idler

\* At most one party works.
LEMMA OneWorks ==
    ASSUME SessionInv
    PROVE  /\ \A l, k \in Leases : lease[l] = "working" /\ lease[k] = "working" => l = k
           /\ \A l \in Leases : lease[l] = "working" => idler \notin {"holding", "idling"}
  BY SessionAssumption DEF SessionInv, Holding, First, Idler

\* A departure behind the first leaves the first where it is.
LEMMA LeaveKeepsFirst ==
    ASSUME SessionTypes, NEW user \in Users
    PROVE  /\ Leave(user) \in Seq(Users)
           /\ \A other \in Users : other # user /\ First(other)
                  => Leave(user) # <<>> /\ Leave(user)[1] = other
  <1>1. CASE ~\E i \in DOMAIN slotQueue : slotQueue[i] = user
    BY <1>1 DEF Leave, SessionTypes, First
  <1>2. CASE \E i \in DOMAIN slotQueue : slotQueue[i] = user
    <2> DEFINE at == CHOOSE i \in DOMAIN slotQueue : slotQueue[i] = user
               left == [i \in 1 .. Len(slotQueue) - 1 |-> slotQueue[IF i < at THEN i ELSE i + 1]]
    <2>1. at \in 1 .. Len(slotQueue) /\ slotQueue[at] = user /\ Leave(user) = left
      BY <1>2 DEF SessionTypes, Leave
    <2> HIDE DEF at
    <2>2. Len(slotQueue) - 1 \in Nat BY <2>1 DEF SessionTypes
    <2>3. ASSUME NEW i \in 1 .. Len(slotQueue) - 1
          PROVE  slotQueue[IF i < at THEN i ELSE i + 1] \in Users
      <3>1. (IF i < at THEN i ELSE i + 1) \in 1 .. Len(slotQueue) BY <2>1, <2>2 DEF SessionTypes
      <3> QED BY <3>1 DEF SessionTypes
    <2>4. left \in Seq(Users) BY <2>2, <2>3
    <2>5. ASSUME NEW other \in Users, other # user, First(other)
          PROVE  left # <<>> /\ left[1] = other
      <3>1. at > 1 BY <2>1, <2>5 DEF First, SessionTypes
      <3>2. 1 \in 1 .. Len(slotQueue) - 1 BY <2>1, <3>1 DEF SessionTypes
      <3>3. left[1] = slotQueue[1] BY <3>1, <3>2
      <3>4. DOMAIN left # {} BY <3>2
      <3> QED BY <3>3, <3>4, <2>4, <2>5 DEF First
    <2> QED BY <2>1, <2>4, <2>5
  <1> QED BY <1>1, <1>2

\* The slot with its client after the sweep and perhaps a connect: a wire in
\* mid command is gone, and a client that was examined in this epoch is watched.
LEMMA ConnectedIsWhole ==
    ASSUME SessionInv, Connected
    PROVE  /\ sessionUp' = TRUE /\ desynced' = FALSE
           /\ backingOff' \in BOOLEAN /\ examinedAt' \in Nat
           /\ selected' \in {"none", "another", "watched"}
           /\ Connects \in {0, 1} /\ sessionEpoch + Connects > 0
           /\ examinedAt' <= sessionEpoch
           /\ (examinedAt' = sessionEpoch + Connects => selected' = "watched")
  <1> USE DEF SessionInv
  <1>1. CASE SweepDirty(sessionUp)
    <2>1. UNCHANGED <<sessionUp, desynced, selected, examinedAt, backingOff>> /\ Connects = 0
      BY <1>1 DEF Connected, Connects
    <2>2. sessionUp = TRUE /\ slotDirty = FALSE BY <1>1, Zenon DEF SweepDirty, Flags
    <2>3. desynced = FALSE BY <2>2, Zenon DEF DirtyWhenCut, Flags
    <2>4. sessionEpoch > 0 BY <2>2 DEF UpHasEpoch, SessionTypes
    <2>5. sessionUp' = TRUE /\ desynced' = FALSE /\ backingOff' \in BOOLEAN
      BY <2>1, <2>2, <2>3, Zenon DEF Flags
    <2> QED BY <2>1, <2>4, <2>5 DEF SessionTypes, ExamineIsCurrent
  <1>2. CASE ~SweepDirty(sessionUp)
    <2>1. sessionUp' = TRUE /\ desynced' = FALSE /\ backingOff' = FALSE
      BY <1>2, Zenon DEF Connected, ConnectInto
    <2>2. selected' = "none" /\ examinedAt' = 0 /\ Connects = 1
      BY <1>2, Zenon DEF Connected, ConnectInto, Connects
    <2>3. sessionEpoch \in Nat BY DEF SessionTypes
    <2>4. /\ Connects \in {0, 1} /\ sessionEpoch + Connects > 0 /\ examinedAt' <= sessionEpoch
          /\ examinedAt' # sessionEpoch + Connects /\ examinedAt' \in Nat
      BY <2>2, <2>3
    <2> QED BY <2>1, <2>2, <2>4, Zenon
  <1> QED BY <1>1, <1>2

\* An operation that gets the session.
LEMMA AcquireKeeps == ASSUME SessionInv, NEW l \in Leases, Acquire(l) PROVE SessionInv'
  <1>1. First(l) BY SessionAssumption, HolderIsFirst DEF SessionInv, Acquire, Users
  <1>2. (\A k \in Leases : lease[k] # "working") /\ idler \notin {"holding", "idling"}
    BY <1>1, WaiterIsAlone, SessionAssumption DEF Acquire, Users, Idler
  <1>3. /\ sessionUp' = TRUE /\ desynced' = FALSE
        /\ backingOff' \in BOOLEAN /\ examinedAt' \in Nat
        /\ selected' \in {"none", "another", "watched"}
        /\ Connects \in {0, 1} /\ examinedAt' <= sessionEpoch
    BY ConnectedIsWhole DEF Acquire
  <1>4. sessionEpoch' = sessionEpoch + Connects + 1 /\ slotDirty' = TRUE BY DEF Acquire, LeaseEpoch
  <1>5. /\ lease' = [lease EXCEPT ![l] = "working"]
        /\ UNCHANGED <<idler, slotQueue, recall>>
    BY DEF Acquire
  <1>6. SessionTypes' BY <1>3, <1>4, <1>5 DEF SessionInv, SessionTypes
  <1>14. Flags' BY <1>3, <1>4, <1>5, Zenon DEF SessionInv, Flags
  <1>7. examinedAt' < sessionEpoch' /\ sessionEpoch' > 0
    BY <1>3, <1>4 DEF SessionInv, SessionTypes
  <1>8. InUse' BY <1>3, <1>4, <1>7, Zenon DEF InUse
  <1>9. Holding' BY <1>1, <1>2, <1>5, <1>7, <1>8 DEF Holding, First, SessionInv, SessionTypes
  <1>10. DirtyWhenCut' BY <1>3, Zenon DEF DirtyWhenCut
  <1>11. ExamineIsCurrent' BY <1>6, <1>7 DEF ExamineIsCurrent, SessionTypes
  <1>12. UpHasEpoch' BY <1>7 DEF UpHasEpoch
  <1>13. IdleWatchesItsMailbox' BY <1>2, <1>5 DEF IdleWatchesItsMailbox
  <1> QED BY <1>6, <1>9, <1>10, <1>11, <1>12, <1>13, <1>14 DEF SessionInv

\* Steps before the mutex: the recall, joining the queue, a backoff that ends.
LEMMA ApproachKeeps ==
    ASSUME SessionInv,
           (\E l \in Leases : RecallIdle(l) \/ WaitForSlot(l)) \/ IdleQueues \/ BackoffEnds
    PROVE  SessionInv'
  <1>1. UNCHANGED <<sessionUp, slotDirty, sessionEpoch, examinedAt, desynced, selected>>
    BY DEF RecallIdle, WaitForSlot, IdleQueues, BackoffEnds
  <1>2. /\ slotQueue' \in Seq(Users)
        /\ \A user \in Users : First(user) => First(user)'
    BY DEF SessionInv, SessionTypes, First, Users, Idler, QueueForSlot,
           RecallIdle, WaitForSlot, IdleQueues, BackoffEnds
  <1>3. /\ lease' \in [Leases -> {"ready", "recalled", "waiting", "working", "ended"}]
        /\ \A l \in Leases : lease'[l] = "working" => lease[l] = "working"
    BY DEF SessionInv, SessionTypes, RecallIdle, WaitForSlot, IdleQueues, BackoffEnds
  <1>4. idler' = idler \/ idler' = "waiting"
    BY DEF RecallIdle, WaitForSlot, IdleQueues, BackoffEnds
  <1>5. SessionTypes' BY <1>1, <1>2, <1>3, <1>4 DEF SessionInv, SessionTypes
  <1>6. Flags' BY <1>1, Zenon DEF SessionInv, Flags, RecallIdle, WaitForSlot, IdleQueues, BackoffEnds
  <1>7. InUse => InUse' BY <1>1, Zenon DEF InUse
  <1>8. Holding' BY <1>1, <1>2, <1>3, <1>4, <1>7 DEF SessionInv, Holding, Users
  <1>9. DirtyWhenCut' BY <1>1, Zenon DEF SessionInv, DirtyWhenCut
  <1>10. ExamineIsCurrent' /\ UpHasEpoch' BY <1>1 DEF SessionInv, ExamineIsCurrent, UpHasEpoch
  <1>11. IdleWatchesItsMailbox' BY <1>1, <1>4 DEF SessionInv, IdleWatchesItsMailbox
  <1> QED BY <1>5, <1>6, <1>8, <1>9, <1>10, <1>11 DEF SessionInv

\* The first in the queue goes without having got the session.
LEMMA TurnedAwayKeeps ==
    ASSUME SessionInv,
           (\E l \in Leases : ConnectFails(l) \/ ReleaseToWait(l)) \/ IdleCannotConnect
    PROVE  SessionInv'
  <1>1. \E user \in Users : /\ First(user)
                            /\ user \in Leases => lease[user] # "working"
                            /\ user = Idler => idler \notin {"holding", "idling"}
    <2>1. ASSUME NEW l \in Leases, ConnectFails(l) \/ ReleaseToWait(l)
          PROVE  First(l) /\ l \in Users /\ lease[l] # "working" /\ l # Idler
      BY <2>1, SessionAssumption, HolderIsFirst DEF ConnectFails, ReleaseToWait, SessionInv, Users, Idler
    <2>2. ASSUME IdleCannotConnect
          PROVE  /\ First(Idler) /\ Idler \in Users /\ Idler \notin Leases
                 /\ idler \notin {"holding", "idling"}
      BY <2>2, SessionAssumption, HolderIsFirst DEF IdleCannotConnect, SessionInv, Users, Idler
    <2> QED BY <2>1, <2>2
  <1>2. (\A k \in Leases : lease[k] # "working") /\ idler \notin {"holding", "idling"}
    BY <1>1, WaiterIsAlone
  <1>3. /\ sessionUp' = FALSE /\ slotDirty' = FALSE /\ UNCHANGED <<recall, desynced>>
        /\ backingOff' \in BOOLEAN
    BY Zenon DEF ConnectFails, ReleaseToWait, IdleCannotConnect, SessionInv, Flags
  <1>4. examinedAt' = 0 /\ UNCHANGED <<sessionEpoch, selected>> /\ slotQueue' = Tail(slotQueue)
    BY DEF ConnectFails, ReleaseToWait, IdleCannotConnect
  <1>5. /\ lease' \in [Leases -> {"ready", "recalled", "waiting", "working", "ended"}]
        /\ \A k \in Leases : lease'[k] # "working"
        /\ idler' = idler \/ idler' = "loop"
    BY <1>2 DEF ConnectFails, ReleaseToWait, IdleCannotConnect, SessionInv, SessionTypes
  <1>6. slotQueue # <<>> BY <1>1 DEF First
  <1>7. SessionTypes' BY <1>4, <1>5, <1>6 DEF SessionInv, SessionTypes
  <1>8. Flags' BY <1>3, Zenon DEF SessionInv, Flags
  <1>9. Holding' BY <1>2, <1>5 DEF Holding
  <1>10. DirtyWhenCut' BY <1>3, Zenon DEF DirtyWhenCut
  <1>11. ExamineIsCurrent' BY <1>4 DEF SessionInv, SessionTypes, ExamineIsCurrent
  <1>12. UpHasEpoch' BY <1>3, Zenon DEF UpHasEpoch
  <1>13. IdleWatchesItsMailbox' BY <1>2, <1>5 DEF IdleWatchesItsMailbox
  <1> QED BY <1>7, <1>8, <1>9, <1>10, <1>11, <1>12, <1>13 DEF SessionInv

\* A holder lets the session go in order: nobody works, and the wire is whole.
LEMMA FinishKeeps ==
    ASSUME SessionInv,
           (\E l \in Leases : FinishLease(l)) \/ IdleRecalled \/ IdleReturns \/ ReissueTick
    PROVE  SessionInv'
  <1>1. /\ desynced = FALSE
        /\ slotQueue # <<>> /\ slotQueue' = Tail(slotQueue)
        /\ UNCHANGED <<sessionEpoch, backingOff, desynced>>
    <2>1. ASSUME NEW l \in Leases, FinishLease(l)
          PROVE  InUse /\ First(l) /\ slotQueue' = Tail(slotQueue)
                 /\ UNCHANGED <<sessionEpoch, backingOff, desynced>>
      BY <2>1 DEF FinishLease, SessionInv, Holding
    <2>2. ASSUME IdleRecalled \/ IdleReturns \/ ReissueTick
          PROVE  InUse /\ First(Idler) /\ slotQueue' = Tail(slotQueue)
                 /\ UNCHANGED <<sessionEpoch, backingOff, desynced>>
      BY <2>2 DEF IdleRecalled, IdleReturns, ReissueTick, HoldEnds, SessionInv, Holding
    <2>3. ASSUME InUse PROVE desynced = FALSE BY <2>3, Zenon DEF InUse, SessionInv, Flags
    <2> QED BY <2>1, <2>2, <2>3 DEF First
  <1>2. /\ lease' \in [Leases -> {"ready", "recalled", "waiting", "working", "ended"}]
        /\ \A k \in Leases : lease'[k] # "working"
        /\ idler' \in {"loop", "waiting", "aborted"}
    BY OneWorks DEF FinishLease, IdleRecalled, IdleReturns, ReissueTick, HoldEnds, SessionInv,
                    SessionTypes
  <1>3. /\ sessionUp' \in BOOLEAN /\ slotDirty' = FALSE /\ recall' \in BOOLEAN
    BY Zenon DEF FinishLease, IdleRecalled, IdleReturns, ReissueTick, HoldEnds, SessionInv, Flags
  <1>4. /\ examinedAt' \in {0, examinedAt}
        /\ selected' \in {"none", "another", "watched"}
        /\ selected' # selected => examinedAt < sessionEpoch
        /\ sessionEpoch > 0
    <2>1. ASSUME NEW l \in Leases, FinishLease(l)
          PROVE  /\ examinedAt' \in {0, examinedAt} /\ examinedAt < sessionEpoch
                 /\ selected' = "another" /\ sessionEpoch > 0
      BY <2>1 DEF FinishLease, SessionInv, Holding, InUse
    <2>2. ASSUME IdleRecalled \/ IdleReturns \/ ReissueTick
          PROVE  examinedAt' \in {0, examinedAt} /\ selected' = selected /\ sessionEpoch > 0
      BY <2>2 DEF IdleRecalled, IdleReturns, ReissueTick, HoldEnds, SessionInv, Holding, InUse
    <2> QED BY <2>1, <2>2 DEF SessionInv, SessionTypes
  <1>5. SessionTypes' BY <1>1, <1>2, <1>4 DEF SessionInv, SessionTypes
  <1>6. Flags' BY <1>1, <1>3, Zenon DEF SessionInv, Flags
  <1>7. Holding' BY <1>2 DEF Holding
  <1>8. DirtyWhenCut' BY <1>1, Zenon DEF DirtyWhenCut
  <1>9. ExamineIsCurrent' BY <1>1, <1>4 DEF SessionInv, SessionTypes, ExamineIsCurrent
  <1>10. UpHasEpoch' BY <1>1, <1>4 DEF UpHasEpoch
  <1>11. IdleWatchesItsMailbox' BY <1>2 DEF IdleWatchesItsMailbox
  <1> QED BY <1>5, <1>6, <1>7, <1>8, <1>9, <1>10, <1>11 DEF SessionInv

\* A future is dropped: behind the holder nothing changes; the holder's own wire
\* stays in mid command in a slot that keeps its dirty mark.
LEMMA DropKeeps ==
    ASSUME SessionInv, (\E l \in Leases : CancelLease(l)) \/ AbortIdle
    PROVE  SessionInv'
  <1> DEFINE Cut == \/ \E l \in Leases : lease[l] = "working" /\ lease'[l] = "ended"
                    \/ idler \in {"holding", "idling"} /\ idler' = "aborted"
  <1>1. PICK user \in Users :
            /\ slotQueue' = Leave(user)
            /\ \A l \in Leases : lease'[l] = "working" => lease[l] = "working" /\ l # user
            /\ idler' \in {"holding", "idling"} => idler' = idler /\ Idler # user
    <2>1. ASSUME NEW l \in Leases, CancelLease(l)
          PROVE  /\ slotQueue' = Leave(l) /\ idler' = idler /\ Idler # l /\ l \in Users
                 /\ \A k \in Leases : lease'[k] = "working" => lease[k] = "working" /\ k # l
      BY <2>1, SessionAssumption DEF CancelLease, SessionInv, SessionTypes, Users, Idler
    <2>2. ASSUME AbortIdle
          PROVE  /\ slotQueue' = Leave(Idler) /\ idler' = "aborted" /\ lease' = lease
                 /\ Idler \in Users /\ Idler \notin Leases
      BY <2>2, SessionAssumption DEF AbortIdle, Users, Idler
    <2> QED BY <2>1, <2>2
  <1>2. /\ lease' \in [Leases -> {"ready", "recalled", "waiting", "working", "ended"}]
        /\ idler' \in {idler, "aborted"} /\ selected' \in {selected, "another"}
        /\ UNCHANGED <<recall, sessionUp, slotDirty, sessionEpoch, examinedAt, backingOff>>
    BY DEF CancelLease, AbortIdle, SessionInv, SessionTypes
  <1>3. /\ Leave(user) \in Seq(Users)
        /\ \A other \in Users : other # user /\ First(other) => First(other)'
    BY <1>1, LeaveKeepsFirst DEF First, SessionInv
  <1>4. /\ desynced' \in BOOLEAN
        /\ Cut \/ desynced' = desynced
    BY Zenon DEF CancelLease, AbortIdle, SessionInv, SessionTypes, Flags
  <1>5. SessionTypes' BY <1>1, <1>2, <1>3 DEF SessionInv, SessionTypes
  <1>6. Flags' BY <1>2, <1>4, Zenon DEF SessionInv, Flags
  <1>7. Cut => /\ InUse
               /\ \A l \in Leases : lease'[l] # "working"
               /\ idler' \notin {"holding", "idling"}
    BY <1>1, <1>2, OneWorks DEF SessionInv, Holding
  <1>8. ~Cut /\ InUse => InUse' BY <1>2, <1>4, Zenon DEF InUse
  <1>9. Holding'
    <2>1. CASE Cut BY <2>1, <1>7 DEF Holding
    <2>2. CASE ~Cut BY <2>2, <1>1, <1>2, <1>3, <1>8 DEF SessionInv, Holding, Users
    <2> QED BY <2>1, <2>2
  <1>10. DirtyWhenCut' BY <1>2, <1>4, <1>7, Zenon DEF SessionInv, DirtyWhenCut, InUse
  <1>11. selected' # selected => \E l \in Leases : lease[l] = "working"
    BY DEF CancelLease, AbortIdle
  <1>12. ExamineIsCurrent'
    <2>1. selected' = selected \/ examinedAt < sessionEpoch BY <1>11 DEF SessionInv, Holding
    <2> QED BY <2>1, <1>2 DEF SessionInv, SessionTypes, ExamineIsCurrent
  <1>13. UpHasEpoch' BY <1>2 DEF SessionInv, UpHasEpoch
  <1>14. IdleWatchesItsMailbox'
    BY <1>1, <1>2, <1>11, OneWorks DEF SessionInv, IdleWatchesItsMailbox
  <1> QED BY <1>5, <1>6, <1>9, <1>10, <1>12, <1>13, <1>14 DEF SessionInv

\* IDLE gets the session.
LEMMA IdleAcquiresKeeps == ASSUME SessionInv, IdleAcquires PROVE SessionInv'
  <1>1. First(Idler)
    BY SessionAssumption, HolderIsFirst DEF SessionInv, IdleAcquires, Users, Idler
  <1>2. (\A k \in Leases : lease[k] # "working")
    BY <1>1, WaiterIsAlone, SessionAssumption DEF IdleAcquires, Users, Idler
  <1>3. /\ sessionUp' = TRUE /\ desynced' = FALSE
        /\ backingOff' \in BOOLEAN /\ examinedAt' \in Nat
        /\ selected' \in {"none", "another", "watched"}
        /\ Connects \in {0, 1} /\ sessionEpoch + Connects > 0
        /\ examinedAt' <= sessionEpoch
        /\ (examinedAt' = sessionEpoch + Connects => selected' = "watched")
    BY ConnectedIsWhole DEF IdleAcquires
  <1>4. /\ sessionEpoch' = sessionEpoch + Connects /\ slotDirty' = TRUE
        /\ idler' = "holding" /\ UNCHANGED <<lease, slotQueue, recall>>
    BY DEF IdleAcquires
  <1>5. SessionTypes' BY <1>3, <1>4 DEF SessionInv, SessionTypes
  <1>6. Flags' BY <1>3, <1>4, Zenon DEF SessionInv, Flags
  <1>7. InUse' BY <1>3, <1>4, Zenon DEF InUse
  <1>8. Holding' BY <1>1, <1>2, <1>4, <1>7 DEF Holding, First
  <1>9. DirtyWhenCut' BY <1>3, Zenon DEF DirtyWhenCut
  <1>10. ExamineIsCurrent' BY <1>3, <1>4 DEF ExamineIsCurrent, SessionInv, SessionTypes
  <1>11. UpHasEpoch' BY <1>3, <1>4 DEF UpHasEpoch
  <1>12. IdleWatchesItsMailbox' BY <1>4 DEF IdleWatchesItsMailbox
  <1> QED BY <1>5, <1>6, <1>8, <1>9, <1>10, <1>11, <1>12 DEF SessionInv

\* EXAMINE, or the knowledge that the last one still stands.
LEMMA IdleExaminesKeeps == ASSUME SessionInv, IdleExamines PROVE SessionInv'
  <1>1. InUse /\ First(Idler) BY DEF IdleExamines, SessionInv, Holding
  <1>2. sessionEpoch > 0 BY <1>1 DEF InUse
  <1>3. selected' = "watched" /\ examinedAt' = sessionEpoch
    BY <1>2 DEF IdleExamines, SessionInv, SessionTypes, ExamineIsCurrent
  <1>4. /\ UNCHANGED <<lease, slotQueue, recall, sessionUp, slotDirty, sessionEpoch, backingOff,
                        desynced>>
        /\ idler' = "idling"
    BY DEF IdleExamines
  <1>5. \A l \in Leases : lease[l] # "working" BY OneWorks DEF IdleExamines
  <1>6. SessionTypes' BY <1>3, <1>4 DEF SessionInv, SessionTypes
  <1>7. Flags' BY <1>4, Zenon DEF SessionInv, Flags
  <1>8. InUse' BY <1>1, <1>4, Zenon DEF InUse
  <1>9. Holding' BY <1>1, <1>4, <1>5, <1>8 DEF Holding, First
  <1>10. DirtyWhenCut' BY <1>4, Zenon DEF SessionInv, DirtyWhenCut
  <1>11. ExamineIsCurrent' BY <1>3, <1>4 DEF ExamineIsCurrent, SessionInv, SessionTypes
  <1>12. UpHasEpoch' BY <1>2, <1>4 DEF UpHasEpoch
  <1>13. IdleWatchesItsMailbox' BY <1>3 DEF IdleWatchesItsMailbox
  <1> QED BY <1>6, <1>7, <1>9, <1>10, <1>11, <1>12, <1>13 DEF SessionInv

\* Every step keeps the invariant.
LEMMA SessionInvStep == SessionInv /\ [SessionNext]_sessionVars => SessionInv'
  <1> SUFFICES ASSUME SessionInv, [SessionNext]_sessionVars PROVE SessionInv' OBVIOUS
  <1>1. CASE UNCHANGED sessionVars
    <2>1. /\ UNCHANGED <<lease, idler, slotQueue, sessionEpoch, examinedAt, selected>>
          /\ UNCHANGED <<recall, sessionUp, slotDirty, backingOff, desynced>>
      BY <1>1 DEF sessionVars
    <2>2. SessionTypes' BY <2>1 DEF SessionInv, SessionTypes
    <2>3. Flags' /\ DirtyWhenCut' BY <2>1, Zenon DEF SessionInv, Flags, DirtyWhenCut
    <2>4. InUse => InUse' BY <2>1, Zenon DEF InUse
    <2>5. Holding' BY <2>1, <2>4 DEF SessionInv, Holding, First
    <2>6. ExamineIsCurrent' /\ UpHasEpoch' /\ IdleWatchesItsMailbox'
      BY <2>1 DEF SessionInv, ExamineIsCurrent, UpHasEpoch, IdleWatchesItsMailbox
    <2> QED BY <2>2, <2>3, <2>5, <2>6 DEF SessionInv
  <1>2. CASE SessionOps
    BY <1>2, ApproachKeeps, AcquireKeeps, TurnedAwayKeeps, FinishKeeps, DropKeeps DEF SessionOps
  <1>3. CASE SessionIdle
    BY <1>3, ApproachKeeps, IdleAcquiresKeeps, TurnedAwayKeeps, IdleExaminesKeeps, FinishKeeps,
       DropKeeps DEF SessionIdle
  <1>4. CASE BackoffEnds BY <1>4, ApproachKeeps
  <1> QED BY <1>1, <1>2, <1>3, <1>4 DEF SessionNext

\* The session is passed on whole for any number of operations: whoever holds it
\* is in step with the server, and IDLE watches its own mailbox, whatever was
\* dropped, failed or reconnected in between (session.rs acquire, idle_hold).
THEOREM SessionStaysInStep == SessionSpec => []SessionInStep
  <1>1. SessionInv => SessionInStep
    BY DEF SessionInv, Holding, InUse, SessionInStep, WireInStep
  <1> QED BY SessionInvInit, SessionInvStep, <1>1, PTL DEF SessionSpec

=============================================================================
