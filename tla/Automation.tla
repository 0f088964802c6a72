----------------------------- MODULE Automation -----------------------------
(***************************************************************************)
(* The account's background work on its own mail.  Backfill: a durable job *)
(* per rule set, drained one bounded batch per tick through the outbox.    *)
(* Snooze: a message parked in a mailbox with a return time, brought back  *)
(* by the scheduler.                                                       *)
(***************************************************************************)
EXTENDS Naturals, FiniteSets, FiniteSetsExt

CONSTANTS Mail,            \* messages by date, 1..n
          RuleSets,        \* fingerprints of the rules that backfill
          BatchSize,       \* AUTOMATION_BACKFILL_BATCH_SIZE
          RefusedMail,     \* messages whose mutation the provider refuses for good
          MaxFailedTicks,  \* bound on failed batches and stops
          Snoozable,       \* bound: the messages the user snoozes
          Untils           \* the return times, 1..n

ASSUME AutomationAssumption ==
    /\ BatchSize \in Nat \ {0} /\ Cardinality(RefusedMail) < BatchSize
    /\ Mail \subseteq Nat /\ IsFiniteSet(Mail) /\ Snoozable \subseteq Mail /\ Untils \subseteq Nat \ {0}

VARIABLES ruleset,     \* the settings' rules
          job,         \* automation_backfill_job, by fingerprint
          tagged,      \* what the projection says, by fingerprint's tag
          touched,     \* what the overlay says on top of it
          scan,        \* the batch of the tick under way
          everDone,    \* messages a rule set was applied to, or refused for
          failedTicks,
          place,       \* the mailbox of each message
          returnAt,    \* message_snooze, 0 for no row
          snoozing,    \* the return time of a snooze command that has moved its message
          clears,      \* mailbox replaces that are folded and whose delete_snooze is to come
          returning,   \* rows the scheduler listed and has not handled
          now,         \* monotonic_now_secs
          unpaired     \* history: messages whose last moves overlapped or lost their insert

backfillVars == <<ruleset, job, tagged, touched, scan, everDone, failedTicks>>
snoozeVars == <<place, returnAt, snoozing, clears, returning, now, unpaired>>
autoVars == <<backfillVars, snoozeVars>>

NoBatch == [at |-> "idle", rules |-> "none", page |-> {}, remaining |-> 0, more |-> FALSE]

AutomationInit ==
    /\ ruleset = "none" /\ job = [f \in RuleSets |-> "none"] /\ tagged = [f \in RuleSets |-> {}]
    /\ touched = [f \in RuleSets |-> {}] /\ scan = NoBatch /\ everDone = [f \in RuleSets |-> {}]
    /\ failedTicks = 0
    /\ place = [m \in Mail |-> "inbox"] /\ returnAt = [m \in Mail |-> 0]
    /\ snoozing = [m \in Mail |-> 0] /\ clears = {} /\ returning = {} /\ now = 0
    /\ unpaired = {}

-----------------------------------------------------------------------------
\* ensure_automation_backfill_job: a job that exists keeps its status.
EnsuredJob(jobs, f) == [jobs EXCEPT ![f] = IF @ = "none" THEN "pending" ELSE @]

\* mutate_rules: the settings are saved and the job of the new rules ensured.
MutateRules == \E f \in RuleSets \ {ruleset} :
    /\ ruleset' = f /\ job' = EnsuredJob(job, f)
    /\ UNCHANGED <<tagged, touched, scan, everDone, failedTicks>>

\* update_settings with forceBackfill.
ResetBackfill == /\ ruleset # "none" /\ job[ruleset] = "completed"
                 /\ scan.at = "idle" /\ tagged[ruleset] # {}
                 /\ job' = [job EXCEPT ![ruleset] = "pending"]
                 /\ everDone' = [everDone EXCEPT ![ruleset] = {}]
                 /\ \E untagged \in SUBSET tagged[ruleset] : \* what the user undid meanwhile
                       tagged' = [tagged EXCEPT ![ruleset] = @ \ untagged]
                 /\ failedTicks < MaxFailedTicks /\ failedTicks' = failedTicks + 1
                 /\ UNCHANGED <<ruleset, touched, scan>>

\* process_automation_backfill_job_batch up to the scan; the rules are read once.
BeginBatch ==
    /\ scan.at = "idle" /\ ruleset # "none" /\ job' = EnsuredJob(job, ruleset)
    /\ job'[ruleset] = "pending"
    /\ scan' = [NoBatch EXCEPT !.at = "scan", !.rules = ruleset, !.remaining = BatchSize]
    /\ UNCHANGED <<ruleset, tagged, touched, everDone, failedTicks>>

\* The oldest messages of a set, at most n.
Oldest(set, n) == {m \in set : Cardinality({k \in set : k < m}) < n}

PageSaysMore(page, remaining) == Cardinality(page) = remaining

\* automation_query_rule with its precondition, against the projection.
ScanPage ==
    /\ scan.at = "scan"
    /\ LET page == Oldest(Mail \ tagged[scan.rules], scan.remaining)
       IN  scan' = [scan EXCEPT !.at = "apply", !.page = page,
                                  !.more = PageSaysMore(page, scan.remaining)]
    /\ UNCHANGED <<ruleset, job, tagged, touched, everDone, failedTicks>>

\* apply_automation_action: nothing to do if the message as served has the tag.
ApplyAction ==
    /\ scan.at = "apply" /\ scan.page # {} /\ scan.remaining > 0
    /\ LET m == Min(scan.page)
           fresh == m \notin touched[scan.rules]
       IN  /\ touched' = [touched EXCEPT ![scan.rules] = @ \cup {m}]
           /\ scan' = [scan EXCEPT !.page = @ \ {m}, !.remaining = IF fresh THEN @ - 1 ELSE @]
    /\ UNCHANGED <<ruleset, job, tagged, everDone, failedTicks>>

\* flush_and_observe: what the provider took is in the projection, what it
\* refused is back as it was.
FlushBatch ==
    /\ scan.at = "apply" /\ (scan.page = {} \/ scan.remaining = 0)
    /\ tagged' = [f \in RuleSets |-> tagged[f] \cup (touched[f] \ RefusedMail)]
    /\ everDone' = [f \in RuleSets |-> everDone[f] \cup touched[f]]
    /\ touched' = [f \in RuleSets |-> {}]
    /\ scan' = [scan EXCEPT !.at = "flushed", !.page = {}]
    /\ UNCHANGED <<ruleset, job, failedTicks>>

\* complete_automation_backfill_job, under the fingerprint the batch began with.
CompletedJob(jobs, f) == [jobs EXCEPT ![f] = "completed"]

FinishBatch ==
    /\ scan.at = "flushed" /\ scan' = NoBatch
    /\ job' = IF scan.more THEN job ELSE CompletedJob(job, scan.rules)
    /\ UNCHANGED <<ruleset, tagged, touched, everDone, failedTicks>>

\* Fault: a failed batch closes its job.
FailureClosesJob(jobs, f) == [jobs EXCEPT ![f] = "failed"]

\* record_automation_backfill_failure: the job stays pending.
FailureRecorded(jobs, f) == [jobs EXCEPT ![f] = "pending"]

\* The batch fails (or the tick's budget or the process ends); what it queued
\* stays queued.
FailBatch ==
    /\ scan.at \in {"scan", "apply"} /\ failedTicks < MaxFailedTicks
    /\ failedTicks' = failedTicks + 1 /\ scan' = NoBatch
    /\ job' = FailureRecorded(job, scan.rules)
    /\ UNCHANGED <<ruleset, tagged, touched, everDone>>

BackfillNext == \/ MutateRules \/ ResetBackfill \/ BeginBatch \/ ScanPage \/ ApplyAction \/ FlushBatch
                \/ FinishBatch \/ FailBatch

-----------------------------------------------------------------------------
\* replace_mailboxes, first half: the operation is queued and folded.  Whoever
\* moves a message another mover has not finished with crosses it.
Replace(who, m, to) ==
    /\ <<who, m>> \notin clears /\ clears' = clears \cup {<<who, m>>}
    /\ place' = [place EXCEPT ![m] = to]
    /\ unpaired' = IF snoozing[m] > 0 \/ \E other \in clears : other[2] = m
                   THEN unpaired \cup {m} ELSE unpaired \ {m}
    /\ UNCHANGED returnAt

\* delete_snooze.
RowDeleted(m) == [returnAt EXCEPT ![m] = 0]

\* replace_mailboxes, second half: the snooze row goes.
ClearRow(who, m) ==
    /\ <<who, m>> \in clears /\ clears' = clears \ {<<who, m>>} /\ returnAt' = RowDeleted(m)
    /\ UNCHANGED <<place, snoozing, returning, now, unpaired>>

\* snooze: the move first, then the row.  The return time may lie in the past.
SnoozeMove(m) == \E until \in Untils :
    /\ snoozing[m] = 0 /\ Replace("snooze", m, "snoozed")
    /\ snoozing' = [snoozing EXCEPT ![m] = until] /\ UNCHANGED <<returning, now>>

\* insert_snooze.
RowInserted(m) == [returnAt EXCEPT ![m] = snoozing[m]]

InsertDue(m) == snoozing[m] > 0 /\ <<"snooze", m>> \notin clears

SnoozeRow(m) == /\ InsertDue(m) /\ returnAt' = RowInserted(m)
                /\ snoozing' = [snoozing EXCEPT ![m] = 0]
                /\ UNCHANGED <<place, clears, returning, now, unpaired>>

\* The insert fails, or the backend stops before it: the message stays moved.
SnoozeRowLost(m) == /\ InsertDue(m) /\ unpaired' = unpaired \cup {m}
                    /\ snoozing' = [snoozing EXCEPT ![m] = 0]
                    /\ UNCHANGED <<place, returnAt, clears, returning, now>>

\* unsnooze, and any other move the user makes.
MoveOut(m) == /\ place[m] = "snoozed" /\ \E to \in {"inbox", "archive"} : Replace("user", m, to)
              /\ UNCHANGED <<snoozing, returning, now>>

\* Fault: a row counts only while its message is still parked, so that a row
\* another mover left behind stays for good.
DueWhileParked(m) == returnAt[m] > 0 /\ returnAt[m] <= now /\ place[m] = "snoozed"

\* list_due_snoozes.
SnoozeDue(m) == returnAt[m] > 0 /\ returnAt[m] <= now

\* auto_return_snoozed_messages: the due rows, then one move after another.
Returned == {m \in Mail : <<"scheduler", m>> \in clears}
ListDue == /\ returning = {} /\ Returned = {}
           /\ returning' = {m \in Mail : SnoozeDue(m)} /\ returning' # {}
           /\ UNCHANGED <<place, returnAt, snoozing, clears, now, unpaired>>
ReturnOne == \E m \in returning : /\ Returned = {} /\ Replace("scheduler", m, "inbox")
                                  /\ returning' = returning \ {m} /\ UNCHANGED <<snoozing, now>>

TimePasses == /\ now < Cardinality(Untils) /\ now' = now + 1
              /\ UNCHANGED <<place, returnAt, snoozing, clears, returning, unpaired>>

SnoozeNext == \/ \E m \in Snoozable : SnoozeMove(m) \/ SnoozeRow(m) \/ SnoozeRowLost(m) \/ MoveOut(m)
              \/ \E m \in Snoozable : \E who \in {"snooze", "user", "scheduler"} : ClearRow(who, m)
              \/ ListDue \/ ReturnOne \/ TimePasses

AutomationNext == \/ BackfillNext /\ UNCHANGED snoozeVars
                  \/ SnoozeNext /\ UNCHANGED backfillVars

AutomationSpec == AutomationInit /\ [][AutomationNext]_autoVars

-----------------------------------------------------------------------------
\* A completed backfill reached every message, whichever rules were edited while
\* it ran.
CompletedIsDone == \A f \in RuleSets : job[f] = "completed" => Mail \subseteq everDone[f] \cup tagged[f]

\* The backfill of rules that stay is completed, failed batches and refused
\* messages notwithstanding.
BackfillCompletes == \A f \in RuleSets :
    (ruleset = f /\ job[f] = "pending") ~> (ruleset # f \/ job[f] = "completed")

\* A message parked by a snooze has its return time, and no other message has
\* one, once the movers are through with it; unless two of them crossed or the
\* insert was lost.
RowPairsPlace ==
    \A m \in Mail \ unpaired :
        (snoozing[m] = 0 /\ \A mover \in clears : mover[2] # m)
        => (place[m] = "snoozed" <=> returnAt[m] > 0)

\* A message whose return time has come leaves the snooze list.
DueReturns == \A m \in Mail : (returnAt[m] > 0) ~> (returnAt[m] = 0)

\* The backfill is honest and finishes: a job is completed only when every
\* message was reached, and the job of rules that stay does complete.
BackfillSound == []CompletedIsDone /\ BackfillCompletes

\* A snooze is a loan: what is parked, and nothing else, has its return time, and returns.
SnoozeSound == []RowPairsPlace /\ DueReturns
=============================================================================
