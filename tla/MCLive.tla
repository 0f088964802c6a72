------------------------------- MODULE MCLive -------------------------------
(***************************************************************************)
(* Components whose progress matters, each on its own instance: a          *)
(* behaviour is one of `part`, the others stand still.                     *)
(***************************************************************************)
EXTENDS EventStream, ReadPool, ProviderCall, ImapSession, Automation, OutboxLive, TLC

CONSTANTS s1, b1, m1, m2

\* A poisoned assertion and a send, queued in either order.
LiveOps == {s1, b1}
LiveKinds == s1 :> "Send" @@ b1 :> "SetKeywords"
LiveEntities == s1 :> m1 @@ b1 :> m2
LiveDrafts == [o \in LiveOps |-> NoKey]

VARIABLE part

suiteVars == <<part, streamVars, poolVars, callVars, sessionVars, autoVars, vars>>

SuiteInit ==
    /\ part \in {"stream", "pool", "call", "session", "backfill", "snooze", "outbox"}
    /\ StreamInit /\ PoolInit /\ CallInit /\ SessionInit /\ AutomationInit /\ Init

NotStream  == UNCHANGED <<part, poolVars, callVars, sessionVars, autoVars, vars>>
NotPool    == UNCHANGED <<part, streamVars, callVars, sessionVars, autoVars, vars>>
NotCall    == UNCHANGED <<part, streamVars, poolVars, sessionVars, autoVars, vars>>
NotSession == UNCHANGED <<part, streamVars, poolVars, callVars, autoVars, vars>>
NotAuto    == UNCHANGED <<part, streamVars, poolVars, callVars, sessionVars, vars>>
NotOutbox  == UNCHANGED <<part, streamVars, poolVars, callVars, sessionVars, autoVars>>

SuiteNext ==
    \/ part = "stream"   /\ StreamNext /\ NotStream
    \/ part = "pool"     /\ PoolNext /\ NotPool
    \/ part = "call"     /\ CallNext /\ NotCall
    \/ part = "session"  /\ SessionNext /\ NotSession
    \/ part = "backfill" /\ BackfillNext /\ UNCHANGED snoozeVars /\ NotAuto
    \/ part = "snooze"   /\ SnoozeNext /\ UNCHANGED backfillVars /\ NotAuto
    \/ part = "outbox"   /\ LiveNext /\ NotOutbox

\* Tasks and timers of both ends go on; writes, losses and restarts need not come.
StreamFairness ==
    /\ WF_streamVars(part = "stream" /\ PublishWrite) /\ WF_streamVars(part = "stream" /\ Handshake)
    /\ WF_streamVars(part = "stream" /\ Speak) /\ WF_streamVars(part = "stream" /\ Deliver)
    /\ WF_streamVars(part = "stream" /\ HearReply) /\ WF_streamVars(part = "stream" /\ Invalidate)
    /\ WF_streamVars(part = "stream" /\ Evaluate) /\ WF_streamVars(part = "stream" /\ Show)
    /\ WF_streamVars(part = "stream" /\ Reconnect)

\* A blocked reader is woken, and a read ends.
PoolFairness == \A r \in Readers : /\ WF_poolVars(part = "pool" /\ AcquireReader(r))
                                   /\ WF_poolVars(part = "pool" /\ Return(r))

\* Every attempt ends, by its deadline if not before.
CallFairness ==
    /\ \A c \in Calls : /\ WF_callVars(part = "call" /\ Attempt(c)) /\ WF_callVars(part = "call" /\ Retry(c))
                        /\ WF_callVars(part = "call" /\ Record(c))
    /\ WF_callVars(part = "call" /\ CooldownElapses)

\* The IDLE task runs on, its re-issue interval elapses, and operations end.
SessionFairness ==
    /\ WF_sessionVars(part = "session" /\ IdleQueues)
    /\ WF_sessionVars(part = "session" /\ (IdleAcquires \/ IdleCannotConnect))
    /\ WF_sessionVars(part = "session" /\ IdleExamines)
    /\ WF_sessionVars(part = "session" /\ (IdleRecalled \/ ReissueTick))
    /\ WF_sessionVars(part = "session" /\ BackoffEnds)
    /\ \A l \in Leases : /\ WF_sessionVars(part = "session" /\ (WaitForSlot(l) \/ RecallIdle(l)))
                         /\ WF_sessionVars(part = "session" /\ (Acquire(l) \/ ConnectFails(l) \/ ReleaseToWait(l)))
                         /\ WF_sessionVars(part = "session" /\ FinishLease(l))

\* The supervisor's backfill and snooze ticks; failed ticks are finitely many.
AutomationFairness ==
    /\ WF_autoVars(/\ part = "backfill" /\ UNCHANGED snoozeVars
                   /\ BeginBatch \/ ScanPage \/ ApplyAction \/ FlushBatch \/ FinishBatch)
    /\ WF_autoVars(part = "snooze" /\ ListDue /\ UNCHANGED backfillVars)
    /\ WF_autoVars(part = "snooze" /\ ReturnOne /\ UNCHANGED backfillVars)
    /\ \A m \in Snoozable :
         WF_autoVars(part = "snooze" /\ ClearRow("scheduler", m) /\ UNCHANGED backfillVars)
    /\ WF_autoVars(part = "snooze" /\ TimePasses /\ UNCHANGED backfillVars)

\* The runtime polls for ever and its task is never starved; a hold's due time
\* passes; a provider that is offered a healthy operation again and again takes
\* it, and answers, in the end.
OutboxFairness ==
    /\ WF_vars(part = "outbox" /\ Flusher /\ NeverTaken)
    /\ \A o \in Ops :
         /\ WF_vars(part = "outbox" /\ HoldExpires(o))
         /\ o \notin Broken => /\ SF_vars(part = "outbox" /\ Reach /\ fop = o)
                               /\ SF_vars(part = "outbox" /\ Settle /\ fop = o)

SuiteSpec == /\ SuiteInit /\ [][SuiteNext]_suiteVars
             /\ StreamFairness /\ PoolFairness /\ CallFairness /\ SessionFairness /\ AutomationFairness
             /\ OutboxFairness
=============================================================================
