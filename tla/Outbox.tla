------------------------------- MODULE Outbox -------------------------------
(***************************************************************************)
(* The durable outbox of one account: the table of operations, the flusher *)
(* that drains it to the provider, and the API commands that write it      *)
(* concurrently with the flusher.                                          *)
(*                                                                         *)
(* Every store call is one SQLite statement and is one step here; whatever *)
(* the service does between two store calls is two steps.  The account's   *)
(* runtime task is the only flusher; API commands run on other threads.    *)
(***************************************************************************)
EXTENDS Naturals, FiniteSets

CONSTANTS
    Ops,           \* operation ids
    Clients,       \* concurrent API commands
    KindOf,        \* the kind each operation id is minted with
    EntityOf,      \* the entity each operation is about
    DraftOf,       \* the compose key a send consumes, or NoKey
    NoKey,
    None,          \* "no operation"
    BatchLimit,    \* OUTBOX_FLUSH_BATCH_LIMIT
    StopThreshold, \* TRANSIENT_STOP_THRESHOLD
    MaxEdits,      \* bound: draft contents the user saves per key
    MaxRetries,    \* bound: retry commands per operation
    MaxReplays,    \* bound: redeliveries of one send command
    MaxCrashes     \* bound: process crashes and abandoned cycles

Kinds == {"SetKeywords", "ReplaceMailboxes", "Destroy",
          "DraftCreate", "DraftUpdate", "DraftDelete", "Send"}
Entities == {EntityOf[o] : o \in Ops}
Keys == Entities \cup {DraftOf[o] : o \in Ops}

ASSUME ConstantsOK ==
    /\ KindOf \in [Ops -> Kinds]
    /\ None \notin Ops
    /\ BatchLimit \in Nat \ {0} /\ StopThreshold \in Nat \ {0}
    /\ MaxEdits \in Nat /\ MaxRetries \in Nat
    /\ MaxReplays \in Nat /\ MaxCrashes \in Nat
    \* A send's provisional id and a draft's compose key are different names.
    /\ \A o, s \in Ops : KindOf[s] = "Send" /\ EntityOf[s] = EntityOf[o] =>
         KindOf[o] \notin {"DraftCreate", "DraftUpdate", "DraftDelete"}

VARIABLES
    row,        \* the outbox_operation table, [Ops -> Row]
    nextRow,    \* the next SQLite rowid
    minted,     \* operation ids handed out so far
    edits,      \* newest content version saved per compose key
    answered,   \* sends whose command outcome this process remembers
    adopted,    \* sends with an adoption alias in the send registry
    fpc,        \* flusher: program counter
    pass,       \* flusher: which of the cycle's two flush passes
    batch,      \* flusher: the listed rows still to visit, {<<op, rowid>>}
    fop,        \* flusher: the operation in hand
    fsnap,      \* flusher: the row as re-fetched
    skipped,    \* history: operations this pass gave up on and went past
    client,     \* program counter and locals of each API command
    effects,    \* history: times the provider took each send
    rearms,     \* history: retry commands carried out on each operation
    replays,    \* history: redelivered send commands that queued again
    fate,       \* history: the last verdict reported on each operation
    crashes     \* history: crashes and abandoned cycles so far

table  == <<row, nextRow, minted, edits, answered>>
flush  == <<fpc, pass, batch, fop, fsnap, skipped>>
counts == <<effects, rearms, replays, fate, crashes>>
vars   == <<table, adopted, flush, client, counts>>

(***************************************************************************)
(* Kinds and states                                                        *)
(***************************************************************************)
OperationState == {"Pending", "Inflight", "Applied", "Failed",
                   "DispatchUncertain"}
Absent == "Absent"

IsFlushable(s) == s \in {"Pending", "Inflight"}
IsTerminal(s)  == s \in {"Failed", "DispatchUncertain"}
IsStateAssertion(k) == k \in {"SetKeywords", "ReplaceMailboxes", "Destroy"}
IsDraftSave(k)      == k \in {"DraftCreate", "DraftUpdate"}
IsContent(k)        == IsDraftSave(k) \/ k = "Send"

CanTransition(s, t) ==
    \/ s = t
    \/ s = "Pending" /\ t = "Inflight"
    \/ s = "Inflight" /\ t \in {"Applied", "Failed", "Pending", "DispatchUncertain"}
    \/ IsTerminal(s) /\ t = "Pending"

\* (fault: attempts are counted past the cap)
BumpUncapped(a) == a + 1

\* Only "zero", "below the threshold" and "at it" are ever told apart.
Bump(a) == IF a < StopThreshold THEN a + 1 ELSE a

Row == [state    : OperationState \cup {Absent},
        attempts : 0..StopThreshold,
        payload  : 0..MaxEdits,
        rowid    : Nat,
        held     : BOOLEAN]

\* A raced operation stays raced: its later verdicts say nothing.
Fates == {"open", "settled", "discarded", "raced"}
Judged(o, f) == [fate EXCEPT ![o] = IF @ = "raced" THEN @ ELSE f]

NoRow == [state |-> Absent, attempts |-> 0, payload |-> 0, rowid |-> 0,
          held |-> FALSE]
Idle  == [pc |-> "idle"]

(***************************************************************************)
(* Store statements                                                        *)
(***************************************************************************)
\* INSERT OR IGNORE: a stored id keeps its row.
Enqueued(o, payload, held) ==
    IF row[o].state = Absent
    THEN [row EXCEPT ![o] = [state |-> "Pending", attempts |-> 0,
                             payload |-> payload, rowid |-> nextRow,
                             held |-> held]]
    ELSE row

\* update_operation_state: no predicate on the current state.
Updated(o, s, a) ==
    IF row[o].state = Absent THEN row
    ELSE [row EXCEPT ![o].state = s, ![o].attempts = a]

\* (fault: the DELETE without its predicate)
DiscardableAlways(o) == row[o].state # Absent

\* remove_operation_unless_inflight: the predicate of the guarded DELETE.
Discardable(o) == row[o].state \notin {"Inflight", "Applied", Absent}

Removed(o) == [row EXCEPT ![o] = NoRow]

\* The columns written by the claim, by a coalescing save and, in effect, by the
\* clock that passes a hold's due time.
Claimed(o) == [row EXCEPT ![o].state = "Inflight"]
Swapped(o, p) == [row EXCEPT ![o].payload = p, ![o].attempts = 0]
Due(o) == [row EXCEPT ![o].held = FALSE]

\* mark_operation_settled: no predicate on the current state either.
Settled(o) == IF row[o].state = Absent THEN row
              ELSE [row EXCEPT ![o].state = "Applied"]

Flushable == {o \in Ops : IsFlushable(row[o].state) /\ ~row[o].held}

\* ORDER BY rowid LIMIT BatchLimit
FlushableRows ==
    {<<o, row[o].rowid>> : o \in
        {p \in Flushable :
            Cardinality({q \in Flushable : row[q].rowid < row[p].rowid})
                < BatchLimit}}

Init ==
    /\ row = [o \in Ops |-> NoRow]
    /\ nextRow = 1
    /\ minted = {}
    /\ edits = [k \in Keys |-> 0]
    /\ answered = {} /\ adopted = {}
    /\ fpc = "idle" /\ pass = 1 /\ batch = {} /\ fop = None /\ fsnap = NoRow
    /\ skipped = {}
    /\ client = [c \in Clients |-> Idle]
    /\ effects = [o \in Ops |-> 0]
    /\ rearms = [o \in Ops |-> 0] /\ replays = [o \in Ops |-> 0]
    /\ fate = [o \in Ops |-> "open"] /\ crashes = 0

(***************************************************************************)
(* The flusher: one sync cycle is flush, observe, flush, sweep.            *)
(***************************************************************************)
Drained == fpc = "drain" /\ batch = {}

StartPass ==
    /\ \/ fpc = "idle" /\ pass' = 1
       \/ Drained /\ pass = 1 /\ pass' = 2
    /\ fpc' = "drain"
    /\ batch' = FlushableRows /\ skipped' = {}
    /\ UNCHANGED <<table, adopted, fop, fsnap, client, counts>>

\* A failed pull ends the cycle before its second pass and its sweep.
AbortCycle ==
    /\ Drained /\ pass = 1
    /\ fpc' = "idle" /\ skipped' = {}
    /\ UNCHANGED <<table, adopted, pass, batch, fop, fsnap, client, counts>>

\* (fault: the batch is drained newest first)
IsNewest(e, b) == \A f \in b : e[2] >= f[2]
IsFirst(e, b) == \A f \in b : e[2] <= f[2]

\* Re-fetch the listed row; one that is gone or no longer flushable is skipped.
Fetch ==
    /\ fpc = "drain"
    /\ \E e \in batch :
         /\ IsFirst(e, batch)
         /\ batch' = batch \ {e}
         /\ IF IsFlushable(row[e[1]].state)
            THEN fpc' = "fetched" /\ fop' = e[1] /\ fsnap' = row[e[1]]
            ELSE UNCHANGED <<fpc, fop, fsnap>>
    /\ UNCHANGED <<table, adopted, pass, skipped, client, counts>>

\* (fault: an interrupted send is pushed again)
NeverPark == fop = None

\* A send found in flight was interrupted: it may already have left.
MustPark == KindOf[fop] = "Send" /\ fsnap.state = "Inflight"

Park ==
    /\ fpc = "fetched" /\ MustPark
    /\ row' = Updated(fop, "DispatchUncertain", fsnap.attempts)
    /\ fpc' = "drain" /\ fop' = None /\ fsnap' = NoRow
    /\ UNCHANGED <<nextRow, minted, edits, answered, adopted, pass, batch, skipped, client,
                   counts>>

\* (fault: the claim is checked but not written)
ClaimUnwritten ==
    /\ fpc = "fetched" /\ ~MustPark
    /\ IsFlushable(row[fop].state)
    /\ fpc' = "pushing"
    /\ UNCHANGED <<table, adopted, pass, batch, fop, fsnap, skipped, client, counts>>

\* The guarded claim; what is pushed is the row as it was re-fetched.
Claim ==
    /\ fpc = "fetched" /\ ~MustPark
    /\ IF IsFlushable(row[fop].state)
       THEN /\ row' = Claimed(fop)
            /\ fpc' = "pushing"
            /\ UNCHANGED <<fop, fsnap>>
       ELSE fpc' = "drain" /\ fop' = None /\ fsnap' = NoRow /\ UNCHANGED row
    /\ UNCHANGED <<nextRow, minted, edits, answered, adopted, pass, batch, skipped, client,
                   counts>>

(***************************************************************************)
(* The provider call and its outcomes.  The provider may take the request  *)
(* and the answer still be lost; a send's gateway reports that as          *)
(* DispatchUncertain and reports a transient error only when nothing left. *)
(***************************************************************************)
\* An assertion about a message still known by its provisional send-<id>.
SendsOf(o) == {s \in Ops : KindOf[s] = "Send" /\ EntityOf[s] = EntityOf[o]}
Unadopted(o) == /\ IsStateAssertion(KindOf[o])
                /\ SendsOf(o) # {}
                /\ SendsOf(o) \cap adopted = {}
SendUnderWay(o) == \E s \in SendsOf(o) : row[s].state # Absent
                                         /\ ~IsTerminal(row[s].state)

Reach ==
    /\ fpc = "pushing" /\ ~Unadopted(fop)
    /\ fpc' = "reached"
    /\ effects' = IF KindOf[fop] = "Send" THEN [effects EXCEPT ![fop] = @ + 1]
                  ELSE effects
    /\ UNCHANGED <<table, adopted, pass, batch, fop, fsnap, skipped, client, rearms, replays,
                   fate, crashes>>

\* The flusher's last store write for the operation in hand; the pass goes on
\* with the next listed row or stops.
Conclude(newRow, goOn) ==
    /\ row' = newRow
    /\ fpc' = "drain" /\ fop' = None /\ fsnap' = NoRow
    /\ batch' = IF goOn THEN batch ELSE {}
    /\ UNCHANGED <<nextRow, minted, edits, answered, adopted, pass, client, effects,
                   rearms, replays, crashes>>

\* Content rests in the log until truncation; an assertion leaves with a
\* readback and rests without one; a draft deletion leaves.
Settle ==
    /\ fpc = "reached"
    /\ \/ KindOf[fop] # "DraftDelete" /\ Conclude(Settled(fop), TRUE)
       \/ ~IsContent(KindOf[fop]) /\ Conclude(Removed(fop), TRUE)
    /\ fate' = Judged(fop, "settled") /\ UNCHANGED skipped

\* The provider refuses a mutation and returns the row as it stands.
Reject ==
    /\ fpc = "pushing" /\ ~Unadopted(fop) /\ IsStateAssertion(KindOf[fop])
    /\ Conclude(Removed(fop), TRUE)
    /\ fate' = Judged(fop, "settled") /\ UNCHANGED skipped

NothingToAssert ==
    /\ fpc = "pushing" /\ Unadopted(fop) /\ ~SendUnderWay(fop)
    /\ Conclude(Removed(fop), TRUE)
    /\ fate' = Judged(fop, "settled") /\ UNCHANGED skipped

Defer ==
    /\ fpc = "pushing" /\ Unadopted(fop) /\ SendUnderWay(fop)
    /\ Conclude(Updated(fop, "Pending", fsnap.attempts), TRUE)
    /\ UNCHANGED <<fate, skipped>>

\* (fault: every transient failure stops the pass)
TransientStops ==
    /\ \/ fpc = "pushing"
       \/ fpc = "reached" /\ KindOf[fop] # "Send"
    /\ ~Unadopted(fop)
    /\ Conclude(Updated(fop, "Pending", Bump(fsnap.attempts)), FALSE)
    /\ UNCHANGED <<fate, skipped>>

Transient ==
    /\ \/ fpc = "pushing"
       \/ fpc = "reached" /\ KindOf[fop] # "Send"
    /\ ~Unadopted(fop)
    /\ LET a == Bump(fsnap.attempts) IN
         /\ Conclude(Updated(fop, "Pending", a), a >= StopThreshold)
         /\ skipped' = IF a >= StopThreshold THEN skipped \cup {fop} ELSE skipped
    /\ UNCHANGED fate

\* (fault: an uncertain send is reported as sent)
UncertainSettles ==
    /\ fpc \in {"pushing", "reached"} /\ KindOf[fop] = "Send"
    /\ Conclude(Settled(fop), FALSE)
    /\ fate' = Judged(fop, "settled") /\ UNCHANGED skipped

Uncertain ==
    /\ fpc \in {"pushing", "reached"} /\ KindOf[fop] = "Send"
    /\ Conclude(Updated(fop, "DispatchUncertain", Bump(fsnap.attempts)), FALSE)
    /\ UNCHANGED <<fate, skipped>>

Permanent ==
    /\ fpc \in {"pushing", "reached"}
    /\ Conclude(Updated(fop, "Failed", Bump(fsnap.attempts)), TRUE)
    /\ UNCHANGED <<fate, skipped>>

(***************************************************************************)
(* The sweep that ends a completed cycle: adopt sent copies, truncate.     *)
(***************************************************************************)
BeginSweep ==
    /\ Drained /\ pass = 2
    /\ fpc' = "sweeping" /\ skipped' = {}
    /\ batch' = {<<o, row[o].rowid>> : o \in {p \in Ops : row[p].state = "Applied"}}
    /\ UNCHANGED <<table, adopted, pass, fop, fsnap, client, counts>>

\* A settled send whose copy arrived is adopted; a settled operation older than
\* the cycle, or whose watermark the cursor reached, is truncated; the rest stay.
SweepStep ==
    /\ fpc = "sweeping"
    /\ \E e \in batch :
         /\ IsFirst(e, batch)
         /\ batch' = batch \ {e}
         /\ \/ row' = Removed(e[1]) /\ UNCHANGED adopted
            \/ /\ KindOf[e[1]] = "Send"
               /\ row' = Removed(e[1]) /\ adopted' = adopted \cup {e[1]}
            \/ UNCHANGED <<row, adopted>>
    /\ UNCHANGED <<nextRow, minted, edits, answered, fpc, pass, fop, fsnap, skipped, client,
                   counts>>

EndSweep ==
    /\ fpc = "sweeping" /\ batch = {}
    /\ fpc' = "idle" /\ pass' = 1
    /\ UNCHANGED <<table, adopted, batch, fop, fsnap, skipped, client, counts>>

(***************************************************************************)
(* Interruptions                                                           *)
(***************************************************************************)
DropFlush == fpc' = "idle" /\ pass' = 1 /\ batch' = {} /\ fop' = None
             /\ fsnap' = NoRow /\ skipped' = {}

\* The arm budget drops the cycle's future, or a failed store call returns
\* early out of it; the process and its API commands go on.
DropCycle ==
    /\ crashes < MaxCrashes
    /\ fpc # "idle"
    /\ DropFlush
    /\ crashes' = crashes + 1
    /\ UNCHANGED <<table, adopted, client, effects, rearms, replays, fate>>

Crash ==
    /\ crashes < MaxCrashes
    /\ DropFlush
    /\ client' = [c \in Clients |-> Idle]
    /\ answered' = {}
    /\ crashes' = crashes + 1
    /\ UNCHANGED <<row, nextRow, minted, edits, adopted, effects, rearms, replays, fate>>

(***************************************************************************)
(* API commands                                                            *)
(***************************************************************************)
Minted(o) == minted' = minted \cup {o}
Inserted(o, payload, held) ==
    /\ row' = Enqueued(o, payload, held)
    /\ nextRow' = IF row[o].state = Absent THEN nextRow + 1 ELSE nextRow

\* The send command, under whose id the operation is queued: its first delivery,
\* or a redelivery that neither the outcome cell nor the outbox remembers.
EnqueueSend(o, held) ==
    /\ KindOf[o] = "Send" /\ o \notin answered
    /\ row[o].state = Absent
    /\ \/ o \notin minted /\ UNCHANGED <<replays, fate>>
       \/ /\ o \in minted /\ replays[o] < MaxReplays
          /\ replays' = [replays EXCEPT ![o] = @ + 1]
          /\ fate' = Judged(o, "open")
    /\ Minted(o) /\ Inserted(o, 0, held)
    /\ answered' = answered \cup {o}
    /\ UNCHANGED <<edits, adopted, flush, client, effects, rearms, crashes>>

\* A redelivery the stored operation answers.
AnswerReplay(o) ==
    /\ KindOf[o] = "Send" /\ o \notin answered
    /\ row[o].state # Absent
    /\ answered' = answered \cup {o}
    /\ UNCHANGED <<row, nextRow, minted, edits, adopted, flush, client, counts>>

\* The outcome cell is evicted, or the command failed once it had queued.
ForgetOutcome(o) ==
    /\ o \in answered
    /\ answered' = answered \ {o}
    /\ UNCHANGED <<row, nextRow, minted, edits, adopted, flush, client, counts>>

\* Time passes a held send's due time.
HoldExpires(o) ==
    /\ row[o].held
    /\ row' = Due(o)
    /\ UNCHANGED <<nextRow, minted, edits, answered, adopted, flush, client, counts>>

\* The sweep repairs a tombstone whose provider delete was lost: one deletion,
\* unless any operation is still keyed to the row.
RepairTombstone(o) ==
    /\ fpc = "sweeping"
    /\ KindOf[o] = "DraftDelete" /\ o \notin minted
    /\ \A p \in Ops : EntityOf[p] = EntityOf[o] => row[p].state = Absent
    /\ Minted(o) /\ Inserted(o, 0, FALSE)
    /\ UNCHANGED <<edits, answered, adopted, flush, client, counts>>

\* save_draft: list, pick the last queued save of the key ...
QueuedSaves(k) == {q \in Ops : /\ IsDraftSave(KindOf[q]) /\ EntityOf[q] = k
                               /\ row[q].state = "Pending"}
IsLast(t, S) == IF S = {} THEN t = None
                ELSE t \in S /\ \A p \in S : row[p].rowid <= row[t].rowid

BeginSave(c, o) ==
    /\ client[c] \in {Idle, [pc |-> "requeue", key |-> EntityOf[o]]}
    /\ IsDraftSave(KindOf[o]) /\ o \notin minted
    /\ edits[EntityOf[o]] < MaxEdits
    /\ Minted(o)
    /\ edits' = [edits EXCEPT ![EntityOf[o]] = @ + 1]
    /\ \E t \in Ops \cup {None} :
         /\ IsLast(t, QueuedSaves(EntityOf[o]))
         /\ client' = [client EXCEPT ![c] = [pc |-> "save", op |-> o, target |-> t,
                                            payload |-> edits[EntityOf[o]] + 1]]
    /\ UNCHANGED <<row, nextRow, answered, adopted, flush, counts>>

\* ... then swap its payload if it is still pending, or queue a fresh save.
FinishSave(c) ==
    /\ client[c].pc = "save"
    /\ LET q == client[c].target IN
         \/ /\ q \in Ops /\ row[q].state = "Pending"
            /\ row' = Swapped(q, client[c].payload)
            /\ UNCHANGED nextRow
         \/ /\ q \in Ops => row[q].state # "Pending"
            /\ Inserted(client[c].op, client[c].payload, FALSE)
    /\ client' = [client EXCEPT ![c] = Idle]
    /\ UNCHANGED <<minted, edits, answered, adopted, flush, effects, rearms, replays, fate,
                   crashes>>

\* discard_draft: list the key's queued saves ...
UnsettledSaves(k) == {q \in Ops : /\ IsDraftSave(KindOf[q]) /\ EntityOf[q] = k
                                  /\ row[q].state \notin {Absent, "Applied"}}

BeginDraftDiscard(c, o) ==
    /\ client[c] = Idle
    /\ KindOf[o] = "DraftDelete" /\ o \notin minted
    /\ Minted(o)
    /\ LET saves == UnsettledSaves(EntityOf[o])
           queued == {q \in saves : row[q].state \in {"Pending", "Failed"}} IN
         client' = [client EXCEPT ![c] = [pc |-> "undraft", op |-> o,
                                          victims |-> queued,
                                          reached |-> queued # saves]]
    /\ UNCHANGED <<row, nextRow, edits, answered, adopted, flush, counts>>

\* ... remove each with the guarded DELETE; one it misses may have been pushed ...
SupersedeSave(c, v) ==
    /\ client[c].pc = "undraft" /\ v \in client[c].victims
    /\ LET gone == Discardable(v) IN
         /\ row' = IF gone THEN Removed(v) ELSE row
         /\ fate' = IF gone THEN Judged(v, "discarded") ELSE fate
         /\ client' = [client EXCEPT ![c].victims = @ \ {v},
                                     ![c].reached = @ \/ ~gone]
    /\ UNCHANGED <<nextRow, minted, edits, answered, adopted, flush, effects, rearms,
                   replays, crashes>>

\* ... and queue the deletion, unless the draft never left this machine (no such
\* save, no base row, no provider id; the last two are not modelled here).
FinishDraftDiscard(c) ==
    /\ client[c].pc = "undraft" /\ client[c].victims = {}
    /\ \/ Inserted(client[c].op, 0, FALSE)
       \/ ~client[c].reached /\ UNCHANGED <<row, nextRow>>
    /\ client' = [client EXCEPT ![c] = Idle]
    /\ UNCHANGED <<minted, edits, answered, adopted, flush, counts>>

\* A new assertion supersedes the pending ones it covers: list them ... (the
\* provisional row of a send can be acted on once the send is queued)
Supersedes(k, old) == k = "Destroy" \/ old = k
Victims(o) == {v \in Ops : /\ EntityOf[v] = EntityOf[o] /\ row[v].state = "Pending"
                           /\ IsStateAssertion(KindOf[v])
                           /\ Supersedes(KindOf[o], KindOf[v])}

BeginAssert(c, o) ==
    /\ client[c] = Idle
    /\ IsStateAssertion(KindOf[o]) /\ o \notin minted
    /\ SendsOf(o) \subseteq minted
    /\ Minted(o)
    /\ client' = [client EXCEPT ![c] =
                    [pc |-> "coalesce", op |-> o, victims |-> Victims(o)]]
    /\ UNCHANGED <<row, nextRow, edits, answered, adopted, flush, counts>>

\* ... remove them one by one, whatever became of them since ...
RemoveVictim(c, v) ==
    /\ client[c].pc = "coalesce" /\ v \in client[c].victims
    /\ row' = Removed(v)
    /\ client' = [client EXCEPT ![c].victims = @ \ {v}]
    /\ UNCHANGED <<nextRow, minted, edits, answered, adopted, flush, counts>>

\* ... and queue the new one.
FinishCoalesce(c) ==
    /\ client[c].pc = "coalesce" /\ client[c].victims = {}
    /\ Inserted(client[c].op, 0, FALSE)
    /\ client' = [client EXCEPT ![c] = [pc |-> "apply", op |-> client[c].op]]
    /\ UNCHANGED <<minted, edits, answered, adopted, flush, effects, rearms, replays, fate,
                   crashes>>

\* Folding the assertion into the overlay succeeds, or fails (the row is gone)
\* and the operation is taken back.
ApplyAssert(c) ==
    /\ client[c].pc = "apply"
    /\ row' \in {row, Removed(client[c].op)}
    /\ client' = [client EXCEPT ![c] = Idle]
    /\ UNCHANGED <<nextRow, minted, edits, answered, adopted, flush, counts>>

\* retry_operation: check ...
BeginRetry(c, o) ==
    /\ client[c] = Idle
    /\ IsTerminal(row[o].state)
    /\ rearms[o] < MaxRetries
    /\ client' = [client EXCEPT ![c] =
                    [pc |-> "retry", op |-> o, attempts |-> row[o].attempts]]
    /\ UNCHANGED <<table, adopted, flush, counts>>

\* ... then write, without a predicate on what was checked.
FinishRetry(c) ==
    /\ client[c].pc = "retry"
    /\ LET o == client[c].op IN
         /\ row' = Updated(o, "Pending", client[c].attempts)
         /\ rearms' = [rearms EXCEPT ![o] = @ + 1]
         /\ fate' = IF row[o].state = Absent THEN fate
                    ELSE Judged(o, IF IsTerminal(row[o].state) THEN "open" ELSE "raced")
    /\ client' = [client EXCEPT ![c] = Idle]
    /\ UNCHANGED <<nextRow, minted, edits, answered, adopted, flush, effects, replays, crashes>>

\* discard_operation: one guarded DELETE; a discarded send's content is saved
\* again as a draft under its compose key.
Discard(c, o) ==
    /\ client[c] = Idle
    /\ Discardable(o)
    /\ row' = Removed(o)
    /\ fate' = Judged(o, "discarded")
    /\ client' = [client EXCEPT ![c] =
                    IF KindOf[o] = "Send" /\ DraftOf[o] # NoKey
                    THEN [pc |-> "requeue", key |-> DraftOf[o]] ELSE Idle]
    /\ UNCHANGED <<nextRow, minted, edits, answered, adopted, flush, effects, rearms, replays,
                   crashes>>

(***************************************************************************)
(* Specification                                                           *)
(***************************************************************************)
Flusher ==
    \/ StartPass \/ AbortCycle \/ Fetch \/ Park \/ Claim \/ Reach
    \/ Settle \/ Reject \/ NothingToAssert \/ Defer \/ Transient \/ Uncertain
    \/ Permanent \/ BeginSweep \/ SweepStep \/ EndSweep

Command(c) ==
    \/ \E o \in Ops : \/ BeginSave(c, o) \/ BeginAssert(c, o) \/ BeginRetry(c, o)
                      \/ Discard(c, o) \/ RemoveVictim(c, o)
                      \/ BeginDraftDiscard(c, o) \/ SupersedeSave(c, o)
    \/ FinishSave(c) \/ FinishDraftDiscard(c) \/ FinishCoalesce(c) \/ ApplyAssert(c) \/ FinishRetry(c)

Admit == \E o \in Ops : \/ \E h \in BOOLEAN : EnqueueSend(o, h)
                        \/ AnswerReplay(o) \/ ForgetOutcome(o)
                        \/ RepairTombstone(o) \/ HoldExpires(o)

Next == Flusher \/ DropCycle \/ Crash \/ Admit \/ \E c \in Clients : Command(c)

Spec == Init /\ [][Next]_vars

(***************************************************************************)
(* Properties                                                              *)
(***************************************************************************)
Pushing(o) == fpc \in {"pushing", "reached"} /\ fop = o

ClientState ==
    {Idle}
    \cup [pc : {"requeue"}, key : Keys]
    \cup [pc : {"save"}, op : Ops, payload : 0..MaxEdits, target : Ops \cup {None}]
    \cup [pc : {"undraft"}, op : Ops, victims : SUBSET Ops, reached : BOOLEAN]
    \cup [pc : {"coalesce"}, op : Ops, victims : SUBSET Ops]
    \cup [pc : {"apply"}, op : Ops]
    \cup [pc : {"retry"}, op : Ops, attempts : 0..StopThreshold]

\* The type invariant: attempt counts stay within the threshold's reach and
\* every record keeps its shape.
TypeOK ==
    /\ row \in [Ops -> Row] /\ nextRow \in Nat
    /\ minted \subseteq Ops /\ edits \in [Keys -> 0..MaxEdits]
    /\ answered \subseteq Ops /\ adopted \subseteq Ops
    /\ fpc \in {"idle", "drain", "fetched", "pushing", "reached", "sweeping"}
    /\ pass \in {1, 2} /\ batch \subseteq Ops \X Nat
    /\ fop \in IF fpc \in {"fetched", "pushing", "reached"} THEN Ops ELSE {None}
    /\ fsnap \in Row /\ skipped \subseteq Ops
    /\ client \in [Clients -> ClientState]
    /\ effects \in [Ops -> Nat] /\ rearms \in [Ops -> Nat] /\ replays \in [Ops -> Nat]
    /\ fate \in [Ops -> Fates]
    /\ crashes \in Nat

\* Send-once: across crashes, abandoned cycles, lost answers and transient
\* failures, the provider takes a send at most once per time the user asked for
\* it: the first command, each retry, each redelivery that found no row.
SendOnce ==
    \A o \in Ops : KindOf[o] = "Send" => effects[o] <= 1 + rearms[o] + replays[o]

\* A verdict is final.  Cancel-vs-flush has one winner: an operation whose discard
\* reported success is not in the flusher's hands, so nothing of it is pushed
\* afterwards.  Nor is one whose settlement was recorded, unless a retry re-armed
\* it out of turn or its command was redelivered.
VerdictsFinal ==
    \A o \in Ops : fate[o] \in {"discarded", "settled"} => ~Pushing(o)

\* The provider call is never orphaned: while an operation is being pushed its
\* row is in flight, so the answer finds the row it settles; only an assertion
\* can have been superseded meanwhile, and then its row is gone.
PushOwnsRow ==
    \A o \in Ops : fate[o] # "raced" /\ Pushing(o) =>
        \/ row[o].state = "Inflight"
        \/ IsStateAssertion(KindOf[o]) /\ row[o].state = Absent

\* The flusher, the sweep and the commands move a row only along the lifecycle
\* table, whatever they raced with; a retry that raced another one is excepted.
LegalTransitions ==
    [][\A o \in Ops :
         /\ fate'[o] # "raced"
         /\ row[o].state # Absent /\ row'[o].state # Absent
         => CanTransition(row[o].state, row'[o].state)]_vars

\* The older queued operations on the same entity as one stored at a given rowid.
Overtaken(o, n) ==
    {p \in Ops : /\ EntityOf[p] = EntityOf[o] /\ "Send" \notin {KindOf[o], KindOf[p]}
                 /\ IsFlushable(row[p].state) /\ row[p].rowid < n}

\* Per entity the provider sees the log's order: an operation it takes overtakes
\* an older one that is still queued only if this pass tried that one first and
\* gave up on it, or the user re-armed it since.
InOrder ==
    fpc = "reached" =>
        \A p \in Overtaken(fop, fsnap.rowid) : p \in skipped \/ rearms[p] > 0

\* What the outbox is for: every operation is delivered as `Delivery` promises,
\* whatever commands, flushes, retries, redeliveries and restarts come between.
Delivery == INSTANCE Delivery
    WITH Orders <- Ops, Mail <- {o \in Ops : KindOf[o] = "Send"}, taken <- effects, told <- fate,
         asked <- [o \in Ops |-> (IF o \in minted THEN 1 ELSE 0) + rearms[o] + replays[o]]
DeliveryRefines == Delivery!DeliverySpec

(***************************************************************************)
(* What the documentation promises without these exceptions.               *)
(***************************************************************************)
\* "The runtime must never push the same settled OperationId twice": a settled
\* row is only ever truncated.
SettledIsFinal ==
    [][\A o \in Ops : row[o].state = "Applied"
                      => row'[o].state \in {"Applied", Absent}]_vars
=============================================================================
