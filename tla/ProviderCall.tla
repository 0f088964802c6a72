---------------------------- MODULE ProviderCall ----------------------------
(***************************************************************************)
(* The outbound-call envelope of the JMAP gateway: breaker gate, retry     *)
(* loop, outcome classes and the breaker record (crates/posthaste-         *)
(* provider-call, posthaste-call-policy, engine live.rs and the raw        *)
(* Email/set of live_mutation).  All calls are of one account: the breaker *)
(* table is keyed by account.                                              *)
(*                                                                         *)
(* A call is a future: the cycle budget, the body worker's batch deadline  *)
(* or a client that hangs up may drop it between any two steps (DropCall). *)
(***************************************************************************)
EXTENDS Naturals, FiniteSets

CONSTANTS Calls,                     \* concurrent callers
          BREAKER_FAILURE_THRESHOLD, \* consecutive failures that open the breaker
          DEFAULT_MAX_ATTEMPTS,      \* retries before giving up
          MaxProviderCalls,          \* bound: calls made
          MaxDropped                 \* bound: calls dropped in flight

ASSUME ThresholdAssumption == BREAKER_FAILURE_THRESHOLD \in Nat \ {0}
ASSUME CallsAssumption == DEFAULT_MAX_ATTEMPTS \in Nat /\ MaxProviderCalls \in Nat /\ MaxDropped \in Nat

VARIABLES phase,    \* the breaker: "closed", "open" or "halfopen"
          failures, \* the count of Phase::Closed
          cooled,   \* the cooldown of Phase::Open has elapsed
          stage,    \* of each call: "idle", "attempt", "sleep", "answered"
          tries,    \* the attempt number n of its retry loop
          good,     \* of an answered call: outcome.is_ok()
          sets,     \* the server's object state, moved by every applied set
          expect,   \* the ifInState of each call
          applied,  \* how often the server applied the call's set
          streak,   \* history: failed outcomes recorded since the last success
          made, dropped

callVars == <<phase, failures, cooled, stage, tries, good, sets, expect, applied, streak,
              made, dropped>>
wireVars == <<sets, expect, applied>>

-----------------------------------------------------------------------------
\* BreakerRegistry::admit: closed admits, open admits one probe after the cooldown.
Admits == phase = "closed" \/ (phase = "open" /\ cooled)

Execute(c) ==
    /\ stage[c] = "idle" /\ made < MaxProviderCalls /\ Admits
    /\ phase' = IF phase = "open" THEN "halfopen" ELSE phase
    /\ cooled' = IF phase = "open" THEN FALSE ELSE cooled
    /\ stage' = [stage EXCEPT ![c] = "attempt"]
    /\ tries' = [tries EXCEPT ![c] = 0]
    /\ expect' = [expect EXCEPT ![c] = sets] /\ applied' = [applied EXCEPT ![c] = 0]
    /\ made' = made + 1
    /\ UNCHANGED <<failures, good, sets, streak, dropped>>

\* The fast failure of an open breaker: nothing is recorded.
CircuitOpen(c) ==
    /\ stage[c] = "idle" /\ made < MaxProviderCalls /\ ~Admits
    /\ made' = made + 1
    /\ UNCHANGED <<phase, failures, cooled, stage, tries, good, wireVars, streak, dropped>>

\* Fault: the set carries no ifInState.
AppliesUnguarded(c) == TRUE

\* The server's side of one Email/set or Mailbox/set with ifInState.
Applies(c) == expect[c] = sets

\* An attempt reaches the server, whose set either applies or answers stateMismatch.
Reached(c) ==
    IF Applies(c) THEN /\ sets' = sets + 1
                       /\ applied' = [applied EXCEPT ![c] = @ + 1]
                       /\ UNCHANGED expect
    ELSE UNCHANGED wireVars

\* BackoffSchedule::retry_delay: give up once the attempt number reaches the bound.
GivesUp(c) == tries[c] >= DEFAULT_MAX_ATTEMPTS

\* attempt_buffered / attempt_streamed: a 2xx (also one that carries a method error), a
\* permanent 4xx, or a transient failure: transport, deadline, stall, 429, 5xx, any of which
\* may come after the server has done the work.
Attempt(c) ==
    /\ stage[c] = "attempt"
    /\ \/ Reached(c) /\ stage' = [stage EXCEPT ![c] = "answered"]
          /\ good' = [good EXCEPT ![c] = TRUE]
       \/ UNCHANGED wireVars /\ stage' = [stage EXCEPT ![c] = "answered"]
          /\ good' = [good EXCEPT ![c] = FALSE]
       \/ /\ Reached(c) \/ UNCHANGED wireVars
          /\ stage' = [stage EXCEPT ![c] = IF GivesUp(c) THEN "answered" ELSE "sleep"]
          /\ good' = [good EXCEPT ![c] = FALSE]
    /\ UNCHANGED <<phase, failures, cooled, tries, streak, made, dropped>>

\* The backoff sleep ends, Retry-After included.
Retry(c) ==
    /\ stage[c] = "sleep"
    /\ stage' = [stage EXCEPT ![c] = "attempt"] /\ tries' = [tries EXCEPT ![c] = @ + 1]
    /\ UNCHANGED <<phase, failures, cooled, good, wireVars, streak, made, dropped>>

\* Fault: only a closed breaker is tripped.
TripClosedOnly == /\ phase' = IF phase = "closed" /\ failures + 1 >= BREAKER_FAILURE_THRESHOLD
                              THEN "open" ELSE phase
                  /\ failures' = IF phase' = "closed" THEN failures + 1 ELSE 0
                  /\ cooled' = FALSE

\* The failing half of BreakerRegistry::record: a failure while open starts the cooldown again.
Trip == /\ phase' = IF phase # "closed" \/ failures + 1 >= BREAKER_FAILURE_THRESHOLD
                    THEN "open" ELSE "closed"
        /\ failures' = IF phase' = "closed" THEN failures + 1 ELSE 0
        /\ cooled' = FALSE

\* BreakerRegistry::record of the terminal outcome, in the step that returns it.
Record(c) ==
    /\ stage[c] = "answered"
    /\ IF good[c] THEN phase' = "closed" /\ failures' = 0 /\ cooled' = FALSE /\ streak' = 0
       ELSE Trip /\ streak' = streak + 1
    /\ stage' = [stage EXCEPT ![c] = "idle"]
    /\ UNCHANGED <<tries, good, wireVars, made, dropped>>

\* The caller drops the future: nothing is recorded.
DropCall(c) ==
    /\ stage[c] \in {"attempt", "sleep"} /\ dropped < MaxDropped
    /\ stage' = [stage EXCEPT ![c] = "idle"] /\ dropped' = dropped + 1
    /\ UNCHANGED <<phase, failures, cooled, tries, good, wireVars, streak, made>>

CooldownElapses ==
    /\ phase = "open" /\ ~cooled
    /\ cooled' = TRUE
    /\ UNCHANGED <<phase, failures, stage, tries, good, wireVars, streak, made, dropped>>

CallInit ==
    /\ phase = "closed" /\ failures = 0 /\ cooled = FALSE
    /\ stage = [c \in Calls |-> "idle"] /\ tries = [c \in Calls |-> 0]
    /\ good = [c \in Calls |-> FALSE]
    /\ sets = 0 /\ expect = [c \in Calls |-> 0] /\ applied = [c \in Calls |-> 0]
    /\ streak = 0 /\ made = 0 /\ dropped = 0

CallNext ==
    \/ \E c \in Calls : Execute(c) \/ CircuitOpen(c) \/ Attempt(c) \/ Retry(c) \/ Record(c) \/ DropCall(c)
    \/ CooldownElapses

CallSpec == CallInit /\ [][CallNext]_callVars

-----------------------------------------------------------------------------
\* The breaker opens only after the threshold of consecutive failed outcomes with no success
\* recorded since, whatever order the outcomes of overlapping calls and of the probe arrive in;
\* while it is closed its count is that run of failures.
OpenIsEarned ==
    /\ phase # "closed" => streak >= BREAKER_FAILURE_THRESHOLD
    /\ phase = "closed" => failures = streak /\ streak < BREAKER_FAILURE_THRESHOLD

\* A set guarded by ifInState is applied at most once, although the executor repeats a request
\* whose reply was lost after the server had done the work.
GuardedSetOnce == \A c \in Calls : applied[c] <= 1

\* The single half-open probe closes the breaker or re-opens it: a half-open breaker leaves
\* that phase, unless a call was dropped in flight: a dropped probe records no outcome and
\* the breaker stays half-open.
HalfOpenResolves == (phase = "halfopen") ~> (phase # "halfopen" \/ dropped > 0)

\* What the envelope promises its callers: the breaker is neither eager nor
\* forgetful, and a repeated request has one effect.
EnvelopeHolds == OpenIsEarned /\ GuardedSetOnce
=============================================================================
