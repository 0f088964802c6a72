------------------------------- MODULE MCWork -------------------------------
(***************************************************************************)
(* The runtime's sync triggers and the body cache's worker, each on its    *)
(* own instance: a behaviour is one of `part`, the other stands still.     *)
(***************************************************************************)
EXTENDS SyncTrigger, BodyCache

VARIABLE part

workVars == <<part, vars, cacheVars>>

WorkInit == part \in {"trigger", "cache"} /\ Init /\ CacheInit

WorkNext == \/ part = "trigger" /\ Next /\ UNCHANGED <<part, cacheVars>>
            \/ part = "cache" /\ CacheNext /\ UNCHANGED <<part, vars>>

\* The worker's ticks come for ever; a letter that is a candidate again and again
\* has its turn.
CacheFairness ==
    /\ \A m \in Letters : /\ WF_cacheVars(part = "cache" /\ Rescore(m))
                          /\ WF_cacheVars(part = "cache" /\ QueueStale(m))
                          /\ SF_cacheVars(part = "cache" /\ BeginFetch(m))
    /\ \A f \in Fetchers : WF_cacheVars(part = "cache" /\ (Stage(f) \/ CommitBody(f) \/ RollBackBody(f)))
    /\ WF_cacheVars(part = "cache" /\ MarkCached)

\* The task, the watchdog and a caller that has its permit are scheduled for as
\* long as they can run; a cycle ends because its arm has a budget; select! polls
\* its ready arms in random order, so the command arm is not starved.  Nothing is
\* assumed of the poll timer, of push or of new requests.
TriggerFairness ==
    /\ WF_vars(part = "trigger" /\ Runtime) /\ WF_vars(part = "trigger" /\ Watchdog)
    /\ SF_vars(part = "trigger" /\ Receive)
    /\ \A c \in Callers : /\ WF_vars(part = "trigger" /\ ClaimOrCoalesce(c))
                          /\ WF_vars(part = "trigger" /\ Send(c))

WorkSpec == WorkInit /\ [][WorkNext]_workVars /\ CacheFairness /\ TriggerFairness
=============================================================================
