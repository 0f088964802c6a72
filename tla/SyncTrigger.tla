----------------------------- MODULE SyncTrigger -----------------------------
(***************************************************************************)
(* How one account's runtime is asked to sync: callers that fire triggers, *)
(* the coalescer they share with the runtime task, the runtime's select    *)
(* loop with its arm budget, and the watchdog that restarts the task.      *)
(*                                                                         *)
(* Every lock, channel operation and await is a step of its own.  Starting *)
(* the account again after a stop builds all of this afresh, so a stop is  *)
(* final here.                                                             *)
(***************************************************************************)
EXTENDS Naturals, Sequences, FiniteSets

CONSTANTS
    Callers,     \* tasks that ask for a sync
    Capacity,    \* COMMAND_CHANNEL_CAPACITY
    MaxRestarts, \* WATCHDOG_MAX_RESTARTS
    MaxCalls,    \* bound: requests per caller
    MaxFaults,   \* bound: panics of the runtime task
    MaxTimeouts  \* bound: arms that exceed their budget

ASSUME TriggerConstants ==
    /\ IsFiniteSet(Callers) /\ Capacity \in Nat \ {0}
    /\ MaxRestarts \in Nat /\ MaxCalls \in Nat
    /\ MaxFaults \in Nat /\ MaxTimeouts \in Nat

VARIABLES
    active, pending, \* the coalescer
    queue,           \* the live command channel
    inc,             \* the live channel's incarnation
    rpc,             \* the runtime task (and, when it is down, the watchdog)
    serving,         \* the manual request whose reply the running cycle holds
    restarts,        \* the watchdog's count
    caller,          \* program counter and permit of each caller
    calls,           \* history: requests made by each caller
    owed,            \* history: accepted triggers no cycle has started after
    crossed,         \* history: the claim was released over a queued trigger
    lost,            \* history: how an accepted trigger was dropped, if it was
    faults, timeouts \* history: panics and timeouts so far

coalescer == <<active, pending>>
ghosts == <<crossed, lost>>
bounds == <<calls, faults, timeouts>>
vars == <<coalescer, queue, inc, rpc, serving, restarts, caller, owed, ghosts, bounds>>

Nobody == "nobody"
Rest == [pc |-> "idle", inc |-> 0]
Down == {"dead", "backoff", "halted", "stopped"}
Open == rpc \notin Down

\* A queued command: a trigger, or a manual request with its reply channel.
Command == [who : Callers, manual : BOOLEAN]
Holders(i) == {c \in Callers : caller[c].pc \in {"reserved", "claimed"} /\ caller[c].inc = i}
Room == Len(queue) + Cardinality(Holders(inc)) < Capacity

Init ==
    /\ active = FALSE /\ pending = FALSE
    /\ queue = <<>> /\ inc = 1 /\ rpc = "starting" /\ serving = Nobody
    /\ restarts = 0
    /\ caller = [c \in Callers |-> Rest] /\ calls = [c \in Callers |-> 0]
    /\ owed = {} /\ crossed = FALSE /\ lost = {}
    /\ faults = 0 /\ timeouts = 0

(***************************************************************************)
(* The callers                                                             *)
(***************************************************************************)
\* Triggers on their way to a cycle: claimed and about to be sent, or queued.
Claimed == {c \in Callers : caller[c].pc = "claimed" /\ caller[c].inc = inc /\ Open}
Queued == {i \in DOMAIN queue : ~queue[i].manual}
Outstanding == Cardinality(Claimed) + Cardinality(Queued)

\* trigger_account_sync takes a permit of the live channel ...
Reserve(c) ==
    /\ caller[c].pc = "idle" /\ calls[c] < MaxCalls
    /\ Open /\ Room
    /\ caller' = [caller EXCEPT ![c] = [pc |-> "reserved", inc |-> inc]]
    /\ calls' = [calls EXCEPT ![c] = @ + 1]
    /\ UNCHANGED <<coalescer, queue, inc, rpc, serving, restarts, owed, ghosts, faults,
                   timeouts>>

\* (fault: the claim is not recorded)
ClaimUnset(c) ==
    /\ caller[c].pc = "reserved"
    /\ owed' = owed \cup {c}
    /\ IF active THEN pending' = TRUE /\ caller' = [caller EXCEPT ![c] = Rest]
       ELSE caller' = [caller EXCEPT ![c].pc = "claimed"] /\ UNCHANGED pending
    /\ UNCHANGED <<active, queue, inc, rpc, serving, restarts, ghosts, bounds>>

\* ... claims the next cycle or coalesces into the admitted one ...
ClaimOrCoalesce(c) ==
    /\ caller[c].pc = "reserved"
    /\ owed' = owed \cup {c}
    /\ IF active
       THEN /\ pending' = TRUE /\ caller' = [caller EXCEPT ![c] = Rest]
            /\ UNCHANGED active
       ELSE /\ active' = TRUE /\ caller' = [caller EXCEPT ![c].pc = "claimed"]
            /\ UNCHANGED pending
    /\ UNCHANGED <<queue, inc, rpc, serving, restarts, ghosts, bounds>>

\* ... and sends on the permit, into whichever channel the permit is of.
Send(c) ==
    /\ caller[c].pc = "claimed"
    /\ caller' = [caller EXCEPT ![c] = Rest]
    /\ IF Open /\ caller[c].inc = inc
       THEN queue' = Append(queue, [who |-> c, manual |-> FALSE]) /\ UNCHANGED lost
       ELSE /\ lost' = IF Open /\ rpc # "starting" /\ owed # {} THEN lost \cup {"permit"}
                       ELSE lost
            /\ UNCHANGED queue
    /\ UNCHANGED <<coalescer, inc, rpc, serving, restarts, owed, crossed, bounds>>

\* sync_account_with_mode queues a manual request and awaits its reply.
Request(c) ==
    /\ caller[c].pc = "idle" /\ calls[c] < MaxCalls
    /\ Open /\ Room
    /\ queue' = Append(queue, [who |-> c, manual |-> TRUE])
    /\ caller' = [caller EXCEPT ![c] = [pc |-> "waiting", inc |-> inc]]
    /\ calls' = [calls EXCEPT ![c] = @ + 1]
    /\ UNCHANGED <<coalescer, inc, rpc, serving, restarts, owed, ghosts, faults, timeouts>>

(***************************************************************************)
(* The runtime task                                                        *)
(***************************************************************************)
\* A caller whose reply sender is used or dropped goes on.
Answered(W) == caller' = [c \in Callers |-> IF c \in W THEN Rest ELSE caller[c]]

\* A fresh incarnation clears the coalescer and starts with a sync.
Boot ==
    /\ rpc = "starting"
    /\ rpc' = "begin" /\ active' = FALSE /\ pending' = FALSE
    /\ crossed' = (Outstanding > 0)
    /\ UNCHANGED <<queue, inc, serving, restarts, caller, owed, lost, bounds>>

\* The command arm of the select loop.
Receive ==
    /\ rpc = "loop" /\ queue # <<>>
    /\ rpc' = "begin" /\ queue' = Tail(queue)
    /\ serving' = IF Head(queue).manual THEN Head(queue).who ELSE Nobody
    /\ UNCHANGED <<coalescer, inc, restarts, caller, owed, ghosts, bounds>>

\* The poll timer, a push notification or a due send starts a cycle directly.
DirectCycle ==
    /\ rpc = "loop"
    /\ rpc' = "begin"
    /\ UNCHANGED <<coalescer, queue, inc, serving, restarts, caller, owed, ghosts, bounds>>

BeginCycle ==
    /\ rpc = "begin"
    /\ rpc' = "cycle" /\ active' = TRUE
    /\ owed' = {} /\ lost' = {}
    /\ UNCHANGED <<pending, queue, inc, serving, restarts, caller, crossed, bounds>>

EndCycle ==
    /\ rpc = "cycle"
    /\ rpc' = "finish" /\ serving' = Nobody /\ Answered({serving})
    /\ UNCHANGED <<coalescer, queue, inc, restarts, owed, ghosts, bounds>>

\* (fault: a trigger that arrives between two reads is stranded)
FinishUnlocked ==
    /\ rpc = "finish"
    /\ active' = FALSE /\ pending' = FALSE
    /\ rpc' = "loop" /\ crossed' = (Outstanding > 0)
    /\ UNCHANGED <<queue, inc, serving, restarts, caller, owed, lost, bounds>>

\* finish_cycle_take_pending: one follow-up cycle, or release the claim.
FinishCycle ==
    /\ rpc = "finish"
    /\ IF pending
       THEN rpc' = "begin" /\ pending' = FALSE /\ UNCHANGED <<active, crossed>>
       ELSE /\ rpc' = "loop" /\ active' = FALSE /\ crossed' = (Outstanding > 0)
            /\ UNCHANGED pending
    /\ UNCHANGED <<queue, inc, serving, restarts, caller, owed, lost, bounds>>

\* An arm exceeds its budget and is dropped: a cycle, or a snooze or backfill tick.
ArmTimeout ==
    /\ timeouts < MaxTimeouts
    /\ rpc \in {"begin", "cycle", "finish", "loop"}
    /\ rpc' = "timedout" /\ serving' = Nobody /\ Answered({serving})
    /\ timeouts' = timeouts + 1
    /\ UNCHANGED <<coalescer, queue, inc, restarts, owed, ghosts, calls, faults>>

\* record_arm_timeout clears the coalescer, a coalesced trigger with it.
RecordArmTimeout ==
    /\ rpc = "timedout"
    /\ rpc' = "loop" /\ active' = FALSE /\ pending' = FALSE
    /\ crossed' = (Outstanding > 0)
    /\ lost' = IF Outstanding = 0 /\ owed # {} THEN lost \cup {"reset"} ELSE lost
    /\ UNCHANGED <<queue, inc, serving, restarts, caller, owed, bounds>>

(***************************************************************************)
(* The watchdog                                                            *)
(***************************************************************************)
Waiting == {c \in Callers : caller[c].pc = "waiting"}

\* The task is gone, and with it the channel's receiver and everything queued.
TaskGone(next) ==
    /\ rpc' = next /\ queue' = <<>> /\ serving' = Nobody /\ Answered(Waiting)
    /\ UNCHANGED <<coalescer, inc, owed, ghosts>>

Panic ==
    /\ faults < MaxFaults /\ Open
    /\ TaskGone("dead")
    /\ faults' = faults + 1
    /\ UNCHANGED <<restarts, calls, timeouts>>

Stop ==
    /\ rpc \notin {"halted", "stopped"}
    /\ TaskGone("stopped")
    /\ UNCHANGED <<restarts, bounds>>

\* A panic after a minute of health opens a fresh restart budget.
Watch ==
    /\ rpc = "dead"
    /\ \E before \in {0, restarts} :
         /\ restarts' = before + 1
         /\ rpc' = IF before + 1 > MaxRestarts THEN "halted" ELSE "backoff"
    /\ UNCHANGED <<coalescer, queue, inc, serving, caller, owed, ghosts, bounds>>

\* The spawner swaps the channel in; the task clears the coalescer when it runs.
Respawn ==
    /\ rpc = "backoff"
    /\ rpc' = "starting" /\ inc' = inc + 1
    /\ UNCHANGED <<coalescer, queue, serving, restarts, caller, owed, ghosts, bounds>>

(***************************************************************************)
(* Specification                                                           *)
(***************************************************************************)
Runtime == Boot \/ Receive \/ BeginCycle \/ EndCycle \/ FinishCycle
           \/ RecordArmTimeout
Watchdog == Watch \/ Respawn
Call(c) == Reserve(c) \/ Request(c) \/ ClaimOrCoalesce(c) \/ Send(c)

Next == \/ Runtime \/ DirectCycle \/ ArmTimeout \/ Watchdog \/ Panic \/ Stop
        \/ \E c \in Callers : Call(c)

Spec == Init /\ [][Next]_vars

(***************************************************************************)
(* Properties                                                              *)
(***************************************************************************)
\* The type invariant; a channel never holds more than its capacity, permits
\* included.
TypeOK ==
    /\ active \in BOOLEAN /\ pending \in BOOLEAN
    /\ queue \in Seq(Command) /\ Len(queue) + Cardinality(Holders(inc)) <= Capacity
    /\ inc \in Nat /\ serving \in Callers \cup {Nobody}
    /\ rpc \in {"starting", "begin", "cycle", "finish", "loop", "timedout"} \cup Down
    /\ restarts \in 0..MaxRestarts + 1
    /\ caller \in [Callers -> [pc : {"idle", "reserved", "claimed", "waiting"}, inc : Nat]]
    /\ calls \in [Callers -> 0..MaxCalls]
    /\ owed \subseteq Callers /\ crossed \in BOOLEAN /\ lost \subseteq {"permit", "reset"}
    /\ faults \in 0..MaxFaults /\ timeouts \in 0..MaxTimeouts

\* A burst of triggers is one cycle: a second one is sent only when the claim was
\* released, by another cycle's end or a reset, over the first.
OneOutstanding == Outstanding > 1 => crossed

\* A manual request returns, with a result or an error, whatever the runtime runs
\* into: panics, timeouts, a stop, a stuck claim.
RequestReturns == \A c \in Callers : c \in Waiting ~> c \notin Waiting

\* Without any help from the poll timer, an accepted trigger is followed by the
\* start of a cycle, unless the account stops, halts, a reset drops the trigger
\* or a permit outlives its channel.
AcceptedIsServed ==
    \A c \in Callers :
        c \in owed ~> c \notin owed \/ rpc \in {"halted", "stopped"} \/ lost # {}

\* Whoever asks for a sync is answered: a trigger by a cycle that starts after
\* it, a manual request by its reply.
RequestsAnswered == AcceptedIsServed /\ RequestReturns
=============================================================================
