------------------------------ MODULE ReadPool ------------------------------
(***************************************************************************)
(* The pool of SQLite read connections (crates/posthaste-store/src/        *)
(* store.rs: ConnectionSemaphore, ReadConnection, read_connection).        *)
(*                                                                         *)
(* A reader first looks into the idle pool; only when it is empty does it  *)
(* queue on the semaphore, and from then on it waits for a permit and no   *)
(* longer looks at the pool.  A connection returned to the idle pool keeps *)
(* its permit and so wakes nobody.                                         *)
(***************************************************************************)
EXTENDS Naturals, FiniteSets

CONSTANTS Readers,
          MAX_READ_CONNECTIONS, MAX_IDLE_READ_CONNECTIONS,
          MaxReads      \* bound: reads one reader makes

ASSUME PoolAssumption ==
    /\ IsFiniteSet(Readers)
    /\ MAX_READ_CONNECTIONS \in Nat /\ MAX_IDLE_READ_CONNECTIONS \in Nat
    /\ MAX_IDLE_READ_CONNECTIONS < MAX_READ_CONNECTIONS

VARIABLES available, idle, reader, reads

poolVars == <<available, idle, reader, reads>>

\* read_connection takes the pool lock, pops, and lets the lock go before it asks the
\* semaphore for a permit.
Checkout(r) ==
    /\ reader[r] = "away" /\ reads[r] < MaxReads
    /\ reads' = [reads EXCEPT ![r] = @ + 1]
    /\ \/ /\ idle > 0
          /\ idle' = idle - 1
          /\ reader' = [reader EXCEPT ![r] = "reading"]
       \/ /\ idle = 0
          /\ idle' = idle
          /\ reader' = [reader EXCEPT ![r] = "acquiring"]
    /\ UNCHANGED available

\* ConnectionSemaphore::acquire, then Connection::open.  An open that fails drops the permit.
AcquireReader(r) ==
    /\ reader[r] = "acquiring" /\ available > 0
    /\ available' = available - 1
    /\ reader' = [reader EXCEPT ![r] = "reading"]
    /\ UNCHANGED <<idle, reads>>

FailOpen(r) ==
    /\ reader[r] = "acquiring" /\ available > 0
    /\ reader' = [reader EXCEPT ![r] = "away"]
    /\ UNCHANGED <<available, idle, reads>>

\* Fault: the idle pool holds one connection more than its limit.
ReturnToPoolAtLimit == idle <= MAX_IDLE_READ_CONNECTIONS

\* Drop for ReadConnection: back into the pool with its permit, or closed and the permit freed.
ReturnToPool == idle < MAX_IDLE_READ_CONNECTIONS

Return(r) ==
    /\ reader[r] = "reading"
    /\ reader' = [reader EXCEPT ![r] = "away"]
    /\ IF ReturnToPool
       THEN idle' = idle + 1 /\ available' = available
       ELSE idle' = idle /\ available' = available + 1
    /\ UNCHANGED reads

\* close() clears the idle pool; each cleared connection frees its permit.
ClearPool ==
    /\ idle > 0
    /\ idle' = 0
    /\ available' = available + idle
    /\ UNCHANGED <<reader, reads>>

PoolInit ==
    /\ available = MAX_READ_CONNECTIONS /\ idle = 0
    /\ reader = [r \in Readers |-> "away"]
    /\ reads = [r \in Readers |-> 0]

PoolNext ==
    \/ \E r \in Readers : Checkout(r) \/ AcquireReader(r) \/ FailOpen(r) \/ Return(r)
    \/ ClearPool

PoolSpec == PoolInit /\ [][PoolNext]_poolVars
-----------------------------------------------------------------------------
\* The bound the semaphore is for: connections in use and connections idle together never
\* exceed MAX_READ_CONNECTIONS ("a true peak-concurrency bound", store.rs), and no permit is
\* lost or made up on any path, the failed open included.
PermitsBalance ==
    LET open == idle + Cardinality({r \in Readers : reader[r] = "reading"})
    IN  open + available = MAX_READ_CONNECTIONS

\* A reader that queued for a permit gets a connection although idle ones may sit in the pool
\* it no longer looks at ("nobody starves", ConnectionSemaphore::acquire), once demand ebbs.
QueuedReaderServed ==
    \A r \in Readers : (reader[r] = "acquiring") ~> (reader[r] # "acquiring")
=============================================================================
