----------------------------- MODULE EventStream -----------------------------
(***************************************************************************)
(* The store generation, the event stream that carries it, and the mirror  *)
(* of query answers a client keeps from it.  A write commits to the store  *)
(* first and advances the generation afterwards; a query is stamped with   *)
(* the generation before it is evaluated; every stream message states the  *)
(* current generation, and a client that hears a newer one refetches all   *)
(* it holds.  The channel drops payloads of a lagging stream, the          *)
(* connection drops messages, and the backend may restart between any two  *)
(* steps, which resets the generation and mints a fresh run id.            *)
(*                                                                         *)
(* Payloads are prompts that no answer is built from, so a message is its  *)
(* generation and, for the handshake, its run id.                          *)
(***************************************************************************)
EXTENDS Naturals, Sequences

CONSTANTS MaxWrites,     \* bound on the writes committed
          MaxRuns,       \* bound on the backend runs
          MaxDrops,      \* bound on the connections lost
          EventCapacity, \* capacity of the broadcast channel
          WireLimit,     \* bound on the messages under way to the client
          EarlyCommands  \* may a command finish before the first handshake?

ASSUME StreamAssumption ==
    /\ {MaxWrites, MaxRuns, MaxDrops, EventCapacity, WireLimit} \subseteq Nat
    /\ EarlyCommands \in BOOLEAN

VARIABLES committed,   \* writes the store holds
          unpublished, \* committed writes whose publish has not run
          generation,  \* the store generation of this run
          runId,       \* the backend run
          backlog,     \* events the stream has not received yet
          lagged,      \* the channel overflowed since the stream last received
          stream,      \* "down", "handshake" or "open"
          wire,        \* messages under way to the client
          reply,       \* the generation of a command reply under way, or NoReply
          latest,      \* latestGeneration: the newest generation heard
          knownRun,    \* the run id of the last handshake heard
          dirty,       \* an invalidation is due
          fetch,       \* the refetch under way: "none", "sent", or what it read
          view,        \* writes the shown answer reflects
          drops        \* history: connections lost

streamVars == <<committed, unpublished, generation, runId, backlog, lagged, stream, wire,
                reply, latest, knownRun, dirty, fetch, view, drops>>
backendVars == <<committed, unpublished, generation, runId, backlog, lagged>>
clientVars == <<latest, knownRun, dirty, fetch, view>>

NoReply == [reply |-> "none"]
NoFetch == [is |-> "none"]

StreamInit == /\ committed = 0 /\ unpublished = 0 /\ generation = 0 /\ runId = 1
              /\ backlog = 0 /\ lagged = FALSE /\ stream = "down" /\ wire = <<>>
              /\ reply = NoReply /\ latest = 0 /\ knownRun = 0 /\ dirty = FALSE
              /\ fetch = NoFetch /\ view = 0 /\ drops = 0

\* A write reaches the store: a command's, a sync cycle's, a worker's.
CommitWrite == /\ committed < MaxWrites
               /\ committed' = committed + 1
               /\ unpublished' = unpublished + 1
               /\ UNCHANGED <<generation, runId, backlog, lagged, stream, wire, reply, drops,
                              clientVars>>

\* EventBus::publish and bump: the generation advances, and the events of a
\* write that has any go to the stream's receiver if it is subscribed.
Publish(events) ==
    /\ unpublished > 0
    /\ unpublished' = unpublished - 1
    /\ generation' = generation + 1
    /\ IF stream = "open" /\ events
       THEN /\ backlog' = IF backlog < EventCapacity THEN backlog + 1 ELSE backlog
            /\ lagged' = (lagged \/ backlog = EventCapacity)
       ELSE UNCHANGED <<backlog, lagged>>

\* The write was a sync cycle's or a worker's.
PublishWrite == /\ \E events \in BOOLEAN : Publish(events)
                /\ UNCHANGED <<committed, runId, stream, wire, reply, drops, clientVars>>

\* finish_mail_command: the reply carries the generation read after the
\* publish, which may count other writes too.  A reply heard before the first
\* handshake leaves a baseline no run id can void.
FinishCommand == /\ reply = NoReply
                 /\ EarlyCommands \/ knownRun # 0
                 /\ \E events \in BOOLEAN : Publish(events)
                 /\ reply' = [reply |-> "sent", generation |-> generation']
                 /\ UNCHANGED <<committed, runId, stream, wire, drops, clientVars>>

Say(message) == Len(wire) < WireLimit /\ wire' = Append(wire, message)

\* handle_events, first message: subscribed, then the generation and run id.
Handshake == /\ stream = "handshake"
             /\ stream' = "open"
             /\ Say([generation |-> generation, run |-> runId])
             /\ UNCHANGED <<backendVars, reply, drops, clientVars>>

\* The loop: a burst of events, a lag, or a silence; whichever it was, the
\* message states the current generation and the receiver is drained.
Speak == /\ stream = "open"
         /\ backlog > 0 \/ lagged \/ wire = <<>>
         /\ Say([generation |-> generation])
         /\ backlog' = 0 /\ lagged' = FALSE
         /\ UNCHANGED <<committed, unpublished, generation, runId, stream, reply, drops,
                        clientVars>>

\* Fault: run ids are not looked at.
HearWithoutRuns(message) ==
    /\ latest' = IF message.generation > latest THEN message.generation ELSE latest
    /\ dirty' = (dirty \/ message.generation > latest)
    /\ UNCHANGED knownRun

\* observeStreamGeneration: a fresh run id voids the baseline; otherwise only
\* a newer generation is news.
Hear(message) ==
    LET named == "run" \in DOMAIN message
        rotated == named /\ knownRun # 0 /\ message.run # knownRun
    IN /\ knownRun' = IF named THEN message.run ELSE knownRun
       /\ latest' = IF rotated \/ message.generation > latest THEN message.generation ELSE latest
       /\ dirty' = (dirty \/ rotated \/ message.generation > latest)

Deliver == /\ wire # <<>> /\ stream # "down"
           /\ Hear(Head(wire))
           /\ wire' = Tail(wire)
           /\ UNCHANGED <<backendVars, stream, reply, fetch, view, drops>>

\* observeGeneration and runCommand: the reply raises the baseline without
\* notifying, and everything held is invalidated at once.
HearReply == /\ reply # NoReply
             /\ latest' = IF reply.generation > latest THEN reply.generation ELSE latest
             /\ fetch' = [is |-> "sent"]
             /\ reply' = NoReply
             /\ UNCHANGED <<backendVars, stream, wire, knownRun, dirty, view, drops>>

\* useStreamInvalidation, the debounce: a refetch under way is cancelled.
Invalidate == /\ dirty
              /\ dirty' = FALSE
              /\ fetch' = [is |-> "sent"]
              /\ UNCHANGED <<backendVars, stream, wire, reply, latest, knownRun, view, drops>>

\* handle_query: stamped, then evaluated over the store.
Evaluate == /\ fetch.is = "sent"
            /\ fetch' = [is |-> "read", data |-> committed]
            /\ UNCHANGED <<backendVars, stream, wire, reply, latest, knownRun, dirty, view, drops>>

Show == /\ fetch.is = "read"
        /\ view' = fetch.data
        /\ fetch' = NoFetch
        /\ UNCHANGED <<backendVars, stream, wire, reply, latest, knownRun, dirty, drops>>

\* connect and onopen: the stream subscribes; coming back up invalidates.
Reconnect == /\ stream = "down"
             /\ stream' = "handshake"
             /\ backlog' = 0 /\ lagged' = FALSE /\ wire' = <<>>
             /\ dirty' = FALSE
             /\ fetch' = [is |-> "sent"]
             /\ UNCHANGED <<committed, unpublished, generation, runId, reply, latest, knownRun,
                            view, drops>>

\* onerror: the connection is lost with what was under way on it.
DropStream == /\ stream # "down" /\ drops < MaxDrops
        /\ stream' = "down" /\ wire' = <<>> /\ backlog' = 0 /\ lagged' = FALSE
        /\ drops' = drops + 1
        /\ UNCHANGED <<committed, unpublished, generation, runId, reply, clientVars>>

\* The backend restarts: committed writes stay, their publishes do not run,
\* and neither the reply nor a query under way is answered (the query retries).
Restart == /\ runId < MaxRuns
           /\ runId' = runId + 1 /\ generation' = 0 /\ unpublished' = 0
           /\ backlog' = 0 /\ lagged' = FALSE
           /\ stream' = "down" /\ wire' = <<>> /\ reply' = NoReply
           /\ fetch' = IF fetch.is = "sent" THEN NoFetch ELSE fetch
           /\ UNCHANGED <<committed, latest, knownRun, dirty, view, drops>>

StreamStep == \/ PublishWrite \/ FinishCommand \/ Handshake \/ Speak \/ Deliver \/ HearReply
              \/ Invalidate \/ Evaluate \/ Show \/ Reconnect

StreamNext == StreamStep \/ CommitWrite \/ DropStream \/ Restart

StreamSpec == StreamInit /\ [][StreamNext]_streamVars

-----------------------------------------------------------------------------
\* What the stream is for: the shown answer is a view of the store that only
\* moves forward, and catches up whatever publishes, messages, connections and
\* backend runs are lost on the way.
ClientView == INSTANCE ClientView WITH store <- committed, shown <- view
ViewRefines == ClientView!ViewSpec
=============================================================================
