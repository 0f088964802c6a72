----------------------------- MODULE PushStream -----------------------------
(***************************************************************************)
(* The resilient push stream of a JMAP account and the supervisor that     *)
(* consumes it.  The stream climbs a ladder of a primary transport (a      *)
(* WebSocket) and an optional fallback (server-sent events): it reopens    *)
(* under backoff, changes rung after repeated failures, and parks once the *)
(* last rung is refused permanently.  The supervisor answers a connection  *)
(* and a notification with a sync cycle, and a failed cycle drops gateway  *)
(* and stream together.                                                    *)
(*                                                                         *)
(* The stream is a generator: it runs only while the supervisor polls it,  *)
(* so the event it yields is handled before its next step.                 *)
(***************************************************************************)
EXTENDS Naturals, Sequences

CONSTANTS FallbackThreshold,   \* PUSH_FALLBACK_THRESHOLD
          TerminalAttempts,    \* PUSH_TERMINAL_PERMANENT_ATTEMPTS
          MaxChanges           \* bound on the changes made at the provider

ASSUME PushAssumption == /\ FallbackThreshold \in Nat \ {0}
                         /\ TerminalAttempts \in Nat \ {0}
                         /\ MaxChanges \in Nat

VARIABLES ladder,      \* the rungs the provider advertises
          rung,        \* ActiveTransport
          fails,       \* consecutive_failures
          permanents,  \* permanent_streak
          link,        \* "none" (no gateway), "closed", "greeting", "up" or "parked"
          alive,       \* the open socket still carries traffic
          note,        \* a notification waits to be consumed
          happened,    \* changes made at the provider
          seen,        \* changes the last complete cycle read
          curtailed,   \* a cycle due to push was cut off by its arm budget
          pushShown,   \* the push status the account shows
          attempts     \* history: the last opens, newest first: rung and outcome

pushVars == <<ladder, rung, fails, permanents, link, alive, note, happened, seen,
              curtailed, pushShown, attempts>>
ladderVars == <<rung, fails, permanents>>

\* push_transports: WebSocket first when it is advertised, then events.
Ladders == {<<"ws", "sse">>, <<"sse">>}

PushInit == /\ ladder \in Ladders /\ rung = 1 /\ fails = 0 /\ permanents = 0
            /\ link = "none" /\ alive = FALSE /\ note = FALSE
            /\ happened = 0 /\ seen = 0 /\ curtailed = FALSE
            /\ pushShown = "reconnecting" /\ attempts = <<>>

Remember(outcome) ==
    attempts' = SubSeq(<<<<rung, outcome>>>> \o attempts, 1,
                          IF Len(attempts) < TerminalAttempts THEN Len(attempts) + 1
                                                              ELSE TerminalAttempts)

\* A change reaches an open stream as a notification unless the socket is dead.
ProviderChanges ==
    /\ happened < MaxChanges /\ happened' = happened + 1
    /\ note' = (note \/ (alive /\ link \in {"greeting", "up"}))
    /\ UNCHANGED <<ladder, ladderVars, link, alive, seen, curtailed, pushShown, attempts>>

\* mark_sync_success, mark_sync_failure with the teardown of
\* process_sync_trigger, and the arm budget: how a cycle ends, given the link
\* it leaves when it does not fail and the push status shown before it.
SyncSucceeds(open, shown) ==
    /\ seen' = happened /\ curtailed' = FALSE /\ link' = open
    /\ pushShown' = IF shown = "disabled" THEN "reconnecting" ELSE shown
    /\ UNCHANGED <<ladderVars, attempts>>

SyncFails(shown) ==
    /\ link' = "none" /\ rung' = 1 /\ fails' = 0 /\ permanents' = 0
    /\ attempts' = <<>>
    /\ pushShown' = IF shown \in {"unsupported", "disabled"} THEN shown ELSE "reconnecting"
    /\ UNCHANGED <<seen, curtailed>>

SyncCutOff(open, shown) ==
    /\ curtailed' = TRUE /\ link' = open /\ pushShown' = shown
    /\ UNCHANGED <<ladderVars, seen, attempts>>

TriggeredCycle(open) == SyncSucceeds(open, pushShown) \/ SyncFails(pushShown) \/ SyncCutOff(open, pushShown)

\* ensure_connection and the poll: a missing connection is rebuilt, with a
\* stream that starts over at the primary.
PollCycle ==
    /\ link \in {"none", "up", "closed", "parked"}
    /\ TriggeredCycle(IF link = "none" THEN "closed" ELSE link)
    /\ alive' = (alive /\ link' # "none") /\ note' = (note /\ link' # "none")
    /\ UNCHANGED <<ladder, happened>>

\* The transport opens and the stream yields Connected; a resumed stream may
\* replay what it missed.
OpenStream ==
    /\ link = "closed"
    /\ link' = "greeting" /\ alive' = TRUE /\ note' \in BOOLEAN
    /\ pushShown' = "connected" /\ Remember("opened")
    /\ UNCHANGED <<ladder, ladderVars, happened, seen, curtailed>>

\* Fault: the supervisor shows the connection and waits for notifications.
CatchUpForgotten ==
    /\ link = "greeting" /\ link' = "up"
    /\ UNCHANGED <<ladder, ladderVars, alive, note, happened, seen, curtailed, pushShown, attempts>>

\* handle_push_event, Connected: an unconditional catch-up cycle.
CatchUp == /\ link = "greeting" /\ TriggeredCycle("up")
           /\ alive' = (alive /\ link' = "up") /\ note' = (note /\ link' = "up")
           /\ UNCHANGED <<ladder, happened>>

\* handle_push_event, Notification: a cycle.
Notified == /\ link = "up" /\ note /\ note' = FALSE
            /\ TriggeredCycle("up")
            /\ alive' = (alive /\ link' = "up")
            /\ UNCHANGED <<ladder, happened>>

\* The socket dies in silence: half-open, no error.
GoesSilent == /\ link \in {"greeting", "up"} /\ alive /\ alive' = FALSE
              /\ UNCHANGED <<ladder, ladderVars, link, note, happened, seen, curtailed, pushShown,
                             attempts>>

LastRung == rung = Len(ladder)

\* The tail of the loop after a failure, with the counters it left: terminal,
\* then the other rung, then backoff on this one.
Retreat(f, p, shown) ==
    \/ /\ LastRung /\ p >= TerminalAttempts
       /\ link' = "parked" /\ pushShown' = "unsupported"
       /\ fails' = f /\ permanents' = p /\ UNCHANGED rung
    \/ /\ ~(LastRung /\ p >= TerminalAttempts)
       /\ Len(ladder) = 2 /\ f >= FallbackThreshold
       /\ rung' = 3 - rung /\ fails' = 0 /\ permanents' = 0 /\ link' = "closed"
       /\ pushShown' = IF rung = 1 THEN "reconnecting" ELSE shown
    \/ /\ ~(LastRung /\ p >= TerminalAttempts)
       /\ Len(ladder) = 1 \/ f < FallbackThreshold
       /\ fails' = (IF f > FallbackThreshold THEN FallbackThreshold ELSE f)
       /\ permanents' = p /\ link' = "closed" /\ pushShown' = shown
       /\ UNCHANGED rung

\* The stream ends, errs or trips the read deadline; only a connection held
\* past healthy_reset_after clears the failures first.
StreamEnds ==
    \E healthy \in BOOLEAN :
        /\ link = "up"
        /\ Retreat((IF healthy THEN 0 ELSE fails) + 1, 0, "reconnecting")
        /\ alive' = FALSE /\ note' = FALSE
        /\ UNCHANGED <<ladder, happened, seen, curtailed, attempts>>

\* Ok(None): unsupported by the server, which counts as permanent and is not
\* yielded.
OpenUnsupported ==
    /\ link = "closed" /\ Retreat(fails + 1, permanents + 1, pushShown)
    /\ Remember("refused")
    /\ UNCHANGED <<ladder, alive, note, happened, seen, curtailed>>

\* Err: open_failure_is_permanent decides whether the streak grows or ends.
OpenFails(permanent) ==
    /\ link = "closed"
    /\ Retreat(fails + 1, (IF permanent THEN permanents + 1 ELSE 0), "reconnecting")
    /\ Remember(IF permanent THEN "refused" ELSE "failed")
    /\ UNCHANGED <<ladder, alive, note, happened, seen, curtailed>>

PushNext == \/ ProviderChanges \/ PollCycle \/ OpenStream \/ CatchUp \/ Notified \/ GoesSilent
            \/ StreamEnds \/ OpenUnsupported \/ OpenFails(TRUE) \/ OpenFails(FALSE)

PushSpec == PushInit /\ [][PushNext]_pushVars

-----------------------------------------------------------------------------
\* No change falls between an outage and the stream that follows it: while
\* the stream is up on a live socket, with no notification left and no cycle
\* cut off, everything the provider did has been read.
NoMissedWindow == (link = "up" /\ alive /\ ~note /\ ~curtailed) => seen = happened

\* The account shows push as connected only while a stream is open, through
\* failed cycles, rung changes and parking.
ShownPushIsOpen == (pushShown = "connected") => link \in {"greeting", "up"}

\* A parked stream was refused for good: its last opens were all refusals of
\* the last rung, with no opened stream or transient failure between them.
ParkedIsRefused ==
    link = "parked" => /\ Len(attempts) = TerminalAttempts
                       /\ \A i \in DOMAIN attempts : attempts[i] = <<Len(ladder), "refused">>

\* Push is what it is shown as: connected means open, terminal means refused,
\* and up means that nothing was missed.
PushIsTrue == NoMissedWindow /\ ShownPushIsOpen /\ ParkedIsRefused
=============================================================================
