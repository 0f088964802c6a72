----------------------------- MODULE ImapSession -----------------------------
(***************************************************************************)
(* The one authenticated IMAP session of an account: a slot behind a fair  *)
(* mutex, shared by the account's operations and by the IDLE task.  An     *)
(* operation recalls the IDLE hold, takes the slot, runs its commands and  *)
(* finishes its lease; a holder whose future is dropped leaves the slot    *)
(* dirty, and the next holder discards the client.                         *)
(***************************************************************************)
EXTENDS Naturals, Sequences

CONSTANTS Leases,        \* the operations, each taking the session once
          MaxIdleRounds  \* bound on the IDLE holds that end on their own

ASSUME SessionAssumption == {"idle", "nobody"} \cap Leases = {} /\ MaxIdleRounds \in Nat

VARIABLES lease,       \* where each operation is
          idler,       \* where the IDLE task is
          slotQueue,   \* the mutex: its holder first, then the waiters in order
          recall,      \* the permit of the recall Notify
          sessionUp,   \* the slot holds a client
          slotDirty,   \* a hold is or was in flight
          sessionEpoch,\* acquisitions and reconnects so far
          examinedAt,  \* the epoch of the last EXAMINE for IDLE, 0 for none
          backingOff,  \* next_connect_at lies ahead
          desynced,    \* the wire of this client stopped in mid command
          selected,    \* the mailbox the server has selected for this client
          idleRounds   \* IDLE holds ended on their own

sessionVars == <<lease, idler, slotQueue, recall, sessionUp, slotDirty, sessionEpoch, examinedAt,
                 backingOff, desynced, selected, idleRounds>>

Idler == "idle"
SlotHolder == IF slotQueue = <<>> THEN "nobody" ELSE Head(slotQueue)
\* A waiter or the holder goes, and those behind it move up.
Leave(user) ==
    IF \E i \in DOMAIN slotQueue : slotQueue[i] = user
    THEN LET at == CHOOSE i \in DOMAIN slotQueue : slotQueue[i] = user
         IN  [i \in 1 .. Len(slotQueue) - 1 |-> slotQueue[IF i < at THEN i ELSE i + 1]]
    ELSE slotQueue

SessionInit ==
    /\ lease = [l \in Leases |-> "ready"] /\ idler = "loop" /\ slotQueue = <<>>
    /\ recall = FALSE /\ sessionUp = FALSE /\ slotDirty = FALSE /\ sessionEpoch = 0
    /\ examinedAt = 0 /\ backingOff = FALSE /\ desynced = FALSE /\ selected = "none"
    /\ idleRounds = 0

\* acquire: the recall, then the wait for the mutex; a thread switch may come
\* between the two.
RecallIdle(l) ==
    /\ lease[l] = "ready"
    /\ recall' = TRUE /\ lease' = [lease EXCEPT ![l] = "recalled"]
    /\ UNCHANGED <<idler, slotQueue, sessionUp, slotDirty, sessionEpoch, examinedAt, backingOff,
                   desynced, selected, idleRounds>>

QueueForSlot(user) == slotQueue' = Append(slotQueue, user)

WaitForSlot(l) ==
    /\ lease[l] = "recalled" /\ QueueForSlot(l)
    /\ lease' = [lease EXCEPT ![l] = "waiting"]
    /\ UNCHANGED <<idler, recall, sessionUp, slotDirty, sessionEpoch, examinedAt, backingOff,
                   desynced, selected, idleRounds>>

\* Fault: the dirty mark is cleared and the client kept.
SweepDirtyKeeping(up) == up

\* sweep_dirty: a slot still dirty is discarded.
SweepDirty(up) == up /\ ~slotDirty

\* connect_into: a fresh client, its own epoch, nothing selected or examined.
ConnectInto ==
    /\ sessionUp' = TRUE /\ desynced' = FALSE /\ selected' = "none" /\ examinedAt' = 0
    /\ backingOff' = FALSE

\* The slot has its client, after the sweep and perhaps a connect.
Connected == IF SweepDirty(sessionUp)
             THEN UNCHANGED <<sessionUp, desynced, selected, examinedAt, backingOff>>
             ELSE ~backingOff /\ ConnectInto
Connects == IF SweepDirty(sessionUp) THEN 0 ELSE 1

LeaseEpoch == sessionEpoch' = sessionEpoch + Connects + 1

\* acquire returns the lease.
Acquire(l) ==
    /\ lease[l] = "waiting" /\ SlotHolder = l
    /\ Connected /\ LeaseEpoch /\ slotDirty' = TRUE
    /\ lease' = [lease EXCEPT ![l] = "working"]
    /\ UNCHANGED <<idler, slotQueue, recall, idleRounds>>

\* connect_into fails: the slot stays empty, the next connect waits, and the
\* operation fails.
ConnectFails(l) ==
    /\ lease[l] = "waiting" /\ SlotHolder = l /\ ~SweepDirty(sessionUp) /\ ~backingOff
    /\ sessionUp' = FALSE /\ slotDirty' = FALSE /\ examinedAt' = 0 /\ backingOff' = TRUE
    /\ slotQueue' = Tail(slotQueue) /\ lease' = [lease EXCEPT ![l] = "ended"]
    /\ UNCHANGED <<idler, recall, sessionEpoch, desynced, selected, idleRounds>>

\* A connect not yet due: the sleep is outside the lock, then all over again.
ReleaseToWait(l) ==
    /\ lease[l] = "waiting" /\ SlotHolder = l /\ ~SweepDirty(sessionUp) /\ backingOff
    /\ sessionUp' = FALSE /\ slotDirty' = FALSE /\ examinedAt' = 0
    /\ slotQueue' = Tail(slotQueue) /\ lease' = [lease EXCEPT ![l] = "ready"]
    /\ UNCHANGED <<idler, recall, sessionEpoch, backingOff, desynced, selected, idleRounds>>

BackoffEnds == /\ backingOff /\ backingOff' = FALSE
               /\ UNCHANGED <<lease, idler, slotQueue, recall, sessionUp, slotDirty, sessionEpoch,
                              examinedAt, desynced, selected, idleRounds>>

\* The operation selects mailboxes of its own and finishes its lease: a
\* transport error drops the session, a logical one keeps it.
FinishLease(l) == \E fatal \in BOOLEAN :
    /\ lease[l] = "working"
    /\ slotDirty' = FALSE /\ sessionUp' = ~fatal /\ selected' = "another"
    /\ examinedAt' = IF fatal THEN 0 ELSE examinedAt
    /\ slotQueue' = Tail(slotQueue) /\ lease' = [lease EXCEPT ![l] = "ended"]
    /\ UNCHANGED <<idler, recall, sessionEpoch, backingOff, desynced, idleRounds>>

\* The operation's future is dropped, wherever it is.
CancelLease(l) ==
    /\ lease[l] \in {"recalled", "waiting", "working"}
    /\ lease' = [lease EXCEPT ![l] = "ended"] /\ slotQueue' = Leave(l)
    /\ desynced' = (desynced \/ lease[l] = "working")
    /\ selected' = IF lease[l] = "working" THEN "another" ELSE selected
    /\ UNCHANGED <<idler, recall, sessionUp, slotDirty, sessionEpoch, examinedAt, backingOff,
                   idleRounds>>

-----------------------------------------------------------------------------
\* run_idle_task: the loop around idle_wait.
IdleQueues == /\ idler = "loop" /\ QueueForSlot(Idler) /\ idler' = "waiting"
              /\ UNCHANGED <<lease, recall, sessionUp, slotDirty, sessionEpoch, examinedAt,
                             backingOff, desynced, selected, idleRounds>>

\* idle_wait up to the hold; a connect not yet due sleeps outside the lock, a
\* failed one is trouble, and both come back to the loop.
IdleAcquires ==
    /\ idler = "waiting" /\ SlotHolder = Idler
    /\ Connected /\ sessionEpoch' = sessionEpoch + Connects
    /\ slotDirty' = TRUE /\ idler' = "holding"
    /\ UNCHANGED <<lease, slotQueue, recall, idleRounds>>

IdleCannotConnect ==
    /\ idler = "waiting" /\ SlotHolder = Idler /\ ~SweepDirty(sessionUp)
    /\ sessionUp' = FALSE /\ slotDirty' = FALSE /\ examinedAt' = 0 /\ backingOff' = TRUE
    /\ slotQueue' = Tail(slotQueue) /\ idler' = "loop"
    /\ backingOff \/ idleRounds < MaxIdleRounds
    /\ idleRounds' = IF backingOff THEN idleRounds ELSE idleRounds + 1
    /\ UNCHANGED <<lease, recall, sessionEpoch, desynced, selected>>

\* idle_hold: EXAMINE unless the epoch is the one it was last done at.
IdleExamines ==
    /\ idler = "holding" /\ idler' = "idling"
    /\ IF examinedAt = sessionEpoch THEN UNCHANGED <<selected, examinedAt>>
       ELSE selected' = "watched" /\ examinedAt' = sessionEpoch
    /\ UNCHANGED <<lease, slotQueue, recall, sessionUp, slotDirty, sessionEpoch, backingOff,
                   desynced, idleRounds>>

HoldEnds(up) ==
    /\ idler = "idling"
    /\ slotDirty' = FALSE /\ sessionUp' = up
    /\ examinedAt' = IF up THEN examinedAt ELSE 0
    /\ slotQueue' = Tail(slotQueue) /\ idler' = "loop"
    /\ UNCHANGED <<lease, sessionEpoch, backingOff, desynced, selected>>

\* Recalled: DONE goes through within its deadline, or the hold fails.
IdleRecalled == recall /\ recall' = FALSE /\ \E up \in BOOLEAN : HoldEnds(up)
                /\ UNCHANGED idleRounds

\* Activity, an error, or a dead socket at the ceiling.
IdleReturns == /\ idleRounds < MaxIdleRounds /\ idleRounds' = idleRounds + 1
               /\ \E up \in BOOLEAN : HoldEnds(up) /\ UNCHANGED recall

\* Fault: IDLE is issued again under the lock it holds.
ReissueKeepingSlot == idler = "idling" /\ UNCHANGED sessionVars

\* The re-issue interval passes: DONE, and a fresh hold.
ReissueTick == HoldEnds(TRUE) /\ UNCHANGED <<recall, idleRounds>>

\* The stream is dropped with its connection: the task is aborted.
AbortIdle == /\ idler \in {"waiting", "holding", "idling"} /\ idler' = "aborted"
             /\ slotQueue' = Leave(Idler)
             /\ desynced' = (desynced \/ idler \in {"holding", "idling"})
             /\ UNCHANGED <<lease, recall, sessionUp, slotDirty, sessionEpoch, examinedAt,
                            backingOff, selected, idleRounds>>

SessionOps == \E l \in Leases :
    \/ RecallIdle(l) \/ WaitForSlot(l) \/ Acquire(l) \/ ConnectFails(l) \/ ReleaseToWait(l)
    \/ FinishLease(l) \/ CancelLease(l)
SessionIdle == \/ IdleQueues \/ IdleAcquires \/ IdleCannotConnect \/ IdleExamines \/ IdleRecalled
               \/ IdleReturns \/ ReissueTick \/ AbortIdle
SessionNext == SessionOps \/ SessionIdle \/ BackoffEnds

SessionSpec == SessionInit /\ [][SessionNext]_sessionVars

-----------------------------------------------------------------------------
\* Nobody talks over a wire a cancelled holder left in mid command: every hold
\* at work has a client in step with its server.
WireInStep ==
    /\ \A l \in Leases : lease[l] = "working" => sessionUp /\ ~desynced
    /\ idler \in {"holding", "idling"} => sessionUp /\ ~desynced

\* IDLE watches its own mailbox, whatever was selected between two holds.
IdleWatchesItsMailbox == (idler = "idling") => selected = "watched"

\* The IDLE task never keeps an operation from the session for good: whoever
\* waits for the slot leaves the queue.
LeaseServed == \A l \in Leases : (lease[l] = "waiting") ~> (lease[l] # "waiting")

\* The one session is passed on whole: whoever holds it is in step with the
\* server and, for IDLE, in its own mailbox.
SessionInStep == WireInStep /\ IdleWatchesItsMailbox
=============================================================================
