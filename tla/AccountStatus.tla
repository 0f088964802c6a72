---------------------------- MODULE AccountStatus ----------------------------
(***************************************************************************)
(* The status the supervisor shows for one account, and everyone who       *)
(* writes it: the runtime task, the progress forwarder of each sync cycle, *)
(* the watchdog, a task that was aborted in the middle of a write, and the *)
(* start and stop of the account.                                          *)
(*                                                                         *)
(* A guarded write holds the generations lock from its check to its        *)
(* commit; it releases the cycle tokens between the two.                   *)
(***************************************************************************)
EXTENDS Naturals

CONSTANTS
    MaxCycles, \* bound: sync-cycle tokens minted
    MaxGens    \* bound: runtime generations minted

ASSUME StatusConstants == MaxCycles \in Nat \ {0} /\ MaxGens \in Nat \ {0}

VARIABLES
    status,   \* AccountRuntimeOverview.status
    progress, \* the cycle whose progress is shown, or 0
    gen,      \* runtime_generations
    token,    \* sync_cycles
    rt,       \* the runtime task: its program counter, generation and cycle
    fwd,      \* the progress forwarder of each cycle
    ghost     \* aborted tasks, each with one write still to land

vars == <<status, progress, gen, token, rt, fwd, ghost>>

Outcomes == {"Ready", "AuthError", "Offline", "Degraded"}
Cycles == 1..MaxCycles
Running == {"idle", "minted", "syncing", "timedout", "abandoned"}

Writing == {"booted", "minted", "syncing", "abandoned"}

NoTask == [pc |-> "off", gen |-> 0, cycle |-> 0]
NoForwarder == [pc |-> "none", gen |-> 0]

\* Nobody holds the generations lock.
Unlocked == \A k \in Cycles : fwd[k].pc # "checked"

\* update_runtime_overview with a generation: a stale task's write is dropped.
Shown(g, s, p) ==
    IF g = gen THEN status' = s /\ progress' = p ELSE UNCHANGED <<status, progress>>

\* set_sync_progress at the Connecting stage: guarded by the cycle token as well.
ShowConnecting(task) ==
    IF task.cycle = token THEN Shown(task.gen, "Syncing", task.cycle)
    ELSE UNCHANGED <<status, progress>>

Init ==
    /\ status = "Offline" /\ progress = 0
    /\ gen = 0 /\ token = 0
    /\ rt = NoTask /\ fwd = [k \in Cycles |-> NoForwarder] /\ ghost = {}

(***************************************************************************)
(* The runtime task                                                        *)
(***************************************************************************)
Spawn ==
    /\ rt.pc \in {"off", "disabled"}
    /\ rt' = [rt EXCEPT !.pc = "spawned"]
    /\ UNCHANGED <<status, progress, gen, token, fwd, ghost>>

\* A fresh incarnation mints its generation, then shows itself.
Boot ==
    /\ rt.pc = "spawned" /\ Unlocked /\ gen < MaxGens
    /\ gen' = gen + 1
    /\ rt' = [rt EXCEPT !.pc = "booted", !.gen = gen + 1]
    /\ UNCHANGED <<status, progress, token, fwd, ghost>>

ShowBooted ==
    /\ rt.pc = "booted"
    /\ Shown(rt.gen, "Offline", 0)
    /\ rt' = [rt EXCEPT !.pc = "idle"]
    /\ UNCHANGED <<gen, token, fwd, ghost>>

MintCycle ==
    /\ rt.pc = "idle" /\ token < MaxCycles
    /\ token' = token + 1
    /\ rt' = [rt EXCEPT !.pc = "minted", !.cycle = token + 1]
    /\ UNCHANGED <<status, progress, gen, fwd, ghost>>

\* The Connecting write, and the forwarder once the connection is up.
Connect ==
    /\ rt.pc = "minted"
    /\ ShowConnecting(rt)
    /\ rt' = [rt EXCEPT !.pc = "syncing"]
    /\ \/ fwd' = [fwd EXCEPT ![rt.cycle] = [pc |-> "open", gen |-> rt.gen]]
       \/ UNCHANGED fwd
    /\ UNCHANGED <<gen, token, ghost>>

SettleCycle ==
    /\ rt.pc = "syncing"
    /\ \E s \in Outcomes : Shown(rt.gen, s, 0)
    /\ rt' = [rt EXCEPT !.pc = "idle"]
    /\ UNCHANGED <<gen, token, fwd, ghost>>

\* An arm exceeds its budget: a cycle, or a tick that runs none.
ArmTimeout ==
    /\ rt.pc \in {"idle", "minted", "syncing"}
    /\ rt' = [rt EXCEPT !.pc = "timedout"]
    /\ UNCHANGED <<status, progress, gen, token, fwd, ghost>>

\* record_arm_timeout first outdates the dropped cycle's progress ...
InvalidateCycle ==
    /\ rt.pc = "timedout" /\ token < MaxCycles
    /\ token' = token + 1
    /\ rt' = [rt EXCEPT !.pc = "abandoned"]
    /\ UNCHANGED <<status, progress, gen, fwd, ghost>>

\* ... then shows the account degraded.
MarkArmTimeout ==
    /\ rt.pc = "abandoned"
    /\ Shown(rt.gen, "Degraded", 0)
    /\ rt' = [rt EXCEPT !.pc = "idle"]
    /\ UNCHANGED <<gen, token, fwd, ghost>>

(***************************************************************************)
(* The progress forwarders                                                 *)
(***************************************************************************)
\* A forwarder has progress to show: it checks its generation and its token ...
CheckProgress(k) ==
    /\ fwd[k].pc = "open"
    /\ fwd[k].gen = gen /\ k = token
    /\ fwd' = [fwd EXCEPT ![k].pc = "checked"]
    /\ UNCHANGED <<status, progress, gen, token, rt, ghost>>

\* (fault: progress is shown whatever the status is)
CommitAlways(k) ==
    /\ fwd[k].pc = "checked"
    /\ status' = "Syncing" /\ progress' = k
    /\ fwd' = [fwd EXCEPT ![k].pc = "open"]
    /\ UNCHANGED <<gen, token, rt, ghost>>

\* ... and commits under the overviews lock, if a sync is still shown.
CommitProgress(k) ==
    /\ fwd[k].pc = "checked"
    /\ progress' = IF status = "Syncing" THEN k ELSE progress
    /\ fwd' = [fwd EXCEPT ![k].pc = "open"]
    /\ UNCHANGED <<status, gen, token, rt, ghost>>

\* The reporter is gone and the channel drained.
CloseForwarder(k) ==
    /\ fwd[k].pc = "open" /\ ~(rt.pc = "syncing" /\ rt.cycle = k)
    /\ fwd' = [fwd EXCEPT ![k] = NoForwarder]
    /\ UNCHANGED <<status, progress, gen, token, rt, ghost>>

(***************************************************************************)
(* The watchdog, and the account's start and stop                          *)
(***************************************************************************)
Panic ==
    /\ rt.pc \in Running \cup {"booted"}
    /\ rt' = [rt EXCEPT !.pc = "dead"]
    /\ UNCHANGED <<status, progress, gen, token, fwd, ghost>>

\* Both of the watchdog's writes are unguarded.
MarkFaulted ==
    /\ rt.pc = "dead"
    /\ \/ status' = "Degraded" /\ rt' = [rt EXCEPT !.pc = "spawned"]
       \/ status' = "Offline" /\ rt' = [rt EXCEPT !.pc = "halted"]
    /\ progress' = 0
    /\ UNCHANGED <<gen, token, fwd, ghost>>

\* The task stops in its loop, or is aborted with its last write under way.  The
\* watchdog leaves no write behind: once cancelled it makes none, and one it is
\* making holds the generations lock that whoever comes next has to take.
StopAccount ==
    /\ rt.pc \in Running \cup {"spawned", "booted", "dead", "halted"}
    /\ rt' = [rt EXCEPT !.pc = "off"]
    /\ \/ UNCHANGED ghost
       \/ rt.pc \in Writing /\ ghost' = ghost \cup {rt}
    /\ UNCHANGED <<status, progress, gen, token, fwd>>

\* What an aborted task was writing.
LastWrite ==
    /\ \E z \in ghost :
         /\ ghost' = ghost \ {z}
         /\ \/ z.pc = "booted" /\ Shown(z.gen, "Offline", 0)
            \/ z.pc = "minted" /\ ShowConnecting(z)
            \/ z.pc = "syncing" /\ \E s \in Outcomes : Shown(z.gen, s, 0)
            \/ z.pc = "abandoned" /\ Shown(z.gen, "Degraded", 0)
    /\ UNCHANGED <<gen, token, rt, fwd>>

\* (fault: the generation is not advanced)
DisableUnminted ==
    /\ rt.pc = "off"
    /\ rt' = [rt EXCEPT !.pc = "disabling"]
    /\ UNCHANGED <<status, progress, gen, token, fwd, ghost>>

\* start_account of a disabled account: a new generation, then the status.
Disable ==
    /\ rt.pc = "off" /\ Unlocked /\ gen < MaxGens
    /\ gen' = gen + 1
    /\ rt' = [rt EXCEPT !.pc = "disabling"]
    /\ UNCHANGED <<status, progress, token, fwd, ghost>>

ShowDisabled ==
    /\ rt.pc = "disabling"
    /\ status' = "Disabled" /\ progress' = 0
    /\ rt' = [rt EXCEPT !.pc = "disabled"]
    /\ UNCHANGED <<gen, token, fwd, ghost>>

Next ==
    \/ Spawn \/ Boot \/ ShowBooted \/ MintCycle \/ Connect \/ SettleCycle
    \/ ArmTimeout \/ InvalidateCycle \/ MarkArmTimeout
    \/ Panic \/ MarkFaulted \/ StopAccount \/ LastWrite \/ Disable \/ ShowDisabled
    \/ \E k \in Cycles : CheckProgress(k) \/ CommitProgress(k) \/ CloseForwarder(k)

Spec == Init /\ [][Next]_vars

(***************************************************************************)
(* Properties                                                              *)
(***************************************************************************)
Tasks == [pc : Running \cup {"off", "spawned", "booted", "dead", "halted", "disabling",
                             "disabled"},
          gen : 0..MaxGens, cycle : 0..MaxCycles]

\* The type invariant: tokens and generations stay within what was minted.
TypeOK ==
    /\ status \in Outcomes \cup {"Syncing", "Disabled"}
    /\ progress \in 0..token /\ gen \in 0..MaxGens /\ token \in 0..MaxCycles
    /\ rt \in Tasks /\ ghost \subseteq Tasks
    /\ fwd \in [Cycles -> [pc : {"none", "open", "checked"}, gen : 0..MaxGens]]

\* No late write revives Syncing: once a cycle has settled, timed out or halted,
\* or the account was disabled, Syncing is not shown until a cycle shows it.
SyncingIsReal ==
    status = "Syncing" => rt.pc \notin {"idle", "minted", "halted", "disabled"}

\* A disabled account is shown as disabled, whatever its old task still writes.
DisabledIsShown == rt.pc = "disabled" => status = "Disabled"
=============================================================================
