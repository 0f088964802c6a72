------------------------------ MODULE OutboxLive ------------------------------
(***************************************************************************)
(* Progress of the outbox against a provider that never accepts some       *)
(* operations: every attempt at a Broken operation fails transiently, as a *)
(* poisoned payload or an endpoint that is always down does.               *)
(***************************************************************************)
EXTENDS Outbox

CONSTANT Broken

ASSUME BrokenOK == Broken \subseteq Ops

\* While a Broken operation is pushed the flusher can only see it fail.
NeverTaken ==
    fpc = "pushing" /\ fop \in Broken
        => Transient \/ UNCHANGED flush \/ fpc' = "idle"

LiveNext == Next /\ NeverTaken

\* No wedge: however often the operations ahead of it fail, a queued operation
\* the provider would accept leaves the queue.
NoWedge ==
    \A o \in Ops \ Broken :
        IsFlushable(row[o].state) ~> ~IsFlushable(row[o].state)
=============================================================================
