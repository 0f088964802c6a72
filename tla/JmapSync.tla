------------------------------ MODULE JmapSync ------------------------------
(***************************************************************************)
(* The JMAP pull: the delta by Foo/changes, the full snapshot by Foo/query *)
(* and Foo/get in chunks, and the store transactions that apply them       *)
(* (crates/posthaste-engine/src/sync/*, live_sync.rs, crates/              *)
(* posthaste-store/src/mutations/sync_batch.rs, domain-service sync_ops).  *)
(*                                                                         *)
(* One object type is followed at a time, chosen in the initial state: the *)
(* emails, whose listing is paged by anchor under the queryState guard and *)
(* whose cursor is read before the listing, or the mailboxes, listed by    *)
(* position with the cursor of the final get.  The server changes between  *)
(* any two requests; a cycle may fail at any request.                      *)
(***************************************************************************)
EXTENDS Naturals, Sequences, FiniteSets, FiniteSetsExt

CONSTANTS Objects,        \* object ids, 1 .. n: the larger id is the newer object
          OldObjects,     \* those on the server and in the store at first
          QueryPage,      \* ids in one page of Email/query
          DeltaPage,      \* changes in one page of Foo/changes
          MaxServerSteps, \* bound: changes on the server
          MaxPulls        \* bound: sync cycles

ASSUME JmapAssumption == /\ IsFiniteSet(Objects) /\ Objects = 1 .. Cardinality(Objects)
                         /\ DeltaPage \in Nat

VARIABLES type, server, journal, local, cursor, pull, listing, fetched, doubt, pulls

jmapVars == <<type, server, journal, local, cursor, pull, listing, fetched, doubt, pulls>>

Gone == 0        \* versions start at 1

Live(copy) == {o \in Objects : copy[o] # Gone}

\* The object state is the number of changes made; the query state counts those that change
\* the result of an unfiltered query.
ServerState == Len(journal)
QueryState == Cardinality({i \in DOMAIN journal : journal[i].kind # "update"})

\* An empty pull: idle, with nothing listed and nothing fetched.
NoListing == [ids |-> {}, query |-> 0, state |-> 0, complete |-> FALSE]
NoFetch == [upsert |-> [o \in Objects |-> Gone], destroyed |-> {}, at |-> 0]

-----------------------------------------------------------------------------
\* The server: every change is journalled.
ServerChange(o, kind, version) ==
    /\ Len(journal) < MaxServerSteps
    /\ server' = [server EXCEPT ![o] = version]
    /\ journal' = Append(journal, [id |-> o, kind |-> kind])
    /\ UNCHANGED <<type, local, cursor, pull, listing, fetched, doubt, pulls>>

ServerCreate(o) ==
    /\ server[o] = Gone /\ \A i \in 1 .. Len(journal) : journal[i].id # o
    /\ o \notin OldObjects
    /\ ServerChange(o, "create", 1)

ServerUpdate(o) == server[o] = 1 /\ ServerChange(o, "update", 2)

ServerDestroy(o) == server[o] # Gone /\ ServerChange(o, "destroy", Gone)

-----------------------------------------------------------------------------
\* The floor guards of the store: a prune that would take more than half of what is stored,
\* or one against an empty listing, is refused (MAX_ABSENCE_PRUNE_FRACTION).
PruneRefused(copy, remote) ==
    LET stored == Live(copy)
    IN  stored # {} /\ (remote = {} \/ 2 * Cardinality(stored \ remote) > Cardinality(stored))

\* prune_messages_absent_from_remote_tx / prune_mailboxes_absent_from_remote_tx.
Pruned(copy, remote) ==
    IF PruneRefused(copy, remote) THEN copy
    ELSE [o \in Objects |-> IF o \in remote THEN copy[o] ELSE Gone]

\* Fault: the removals of a delta are dropped.
BatchAppliedUpsertsOnly(copy, f) ==
    [o \in Objects |-> IF f.upsert[o] # Gone THEN f.upsert[o] ELSE copy[o]]

\* apply_sync_batch_tx: explicit deletions first, then the upserts.
BatchApplied(copy, f) ==
    [o \in Objects |-> CASE f.upsert[o] # Gone                          -> f.upsert[o]
                         [] f.upsert[o] = Gone /\ o \in f.destroyed     -> Gone
                         [] OTHER                                       -> copy[o]]

\* Foo/get of some ids: what the server has of them now.
GetInto(f, ids) ==
    [f EXCEPT !.upsert = [o \in Objects |-> IF o \in ids /\ server[o] # Gone
                                            THEN server[o] ELSE f.upsert[o]]]

-----------------------------------------------------------------------------
\* sync_account_streamed: a cursor asks for the delta, none (or a full-metadata cycle) for
\* the snapshot; cannotCalculateChanges turns the delta into a snapshot.
StartPull(full) ==
    /\ pull = "idle" /\ pulls < MaxPulls
    /\ pulls' = pulls + 1
    /\ IF full \/ cursor = {}
       THEN pull' = "state" /\ fetched' = NoFetch
       ELSE pull' = "delta" /\ fetched' = [NoFetch EXCEPT !.at = CHOOSE c \in cursor : TRUE]
    /\ listing' = NoListing
    /\ UNCHANGED <<type, server, journal, local, cursor, doubt>>

CannotCalculateChanges ==
    /\ pull = "delta"
    /\ pull' = "state" /\ fetched' = NoFetch
    /\ UNCHANGED <<type, server, journal, local, cursor, listing, doubt, pulls>>

\* One page of fetch_email_delta / fetch_mailbox_delta: the changes after the current state,
\* an object made and destroyed within the page left out, then the get of the rest.
ChangedIn(from, to, kinds) ==
    {o \in Objects : \E i \in from + 1 .. to :
        /\ journal[i].id = o /\ journal[i].kind \in kinds
        /\ \A j \in i + 1 .. to : journal[j].id # o}

MadeIn(from, to) ==
    {o \in Objects : \E i \in from + 1 .. to : journal[i].id = o /\ journal[i].kind = "create"}

DeltaStep ==
    /\ pull = "delta"
    /\ LET from == fetched.at
           to == IF from + DeltaPage < ServerState THEN from + DeltaPage ELSE ServerState
       IN  /\ fetched' = [GetInto(fetched, ChangedIn(from, to, {"create", "update"})) EXCEPT
                            !.destroyed = @ \cup (ChangedIn(from, to, {"destroy"})
                                                    \ MadeIn(from, to)),
                            !.at = to]
           /\ pull' = IF to < ServerState THEN "delta" ELSE "commit"
    /\ UNCHANGED <<type, server, journal, local, cursor, listing, doubt, pulls>>

\* An object that one page of the delta updated and a later page destroyed: the upsert, applied
\* last, brings it back.
Crossed(f) == {o \in f.destroyed : f.upsert[o] # Gone}

\* The self-reconciling chunk: removals, records and cursor in one transaction.
CommitDelta ==
    /\ pull = "commit"
    /\ local' = BatchApplied(local, fetched)
    /\ cursor' = {fetched.at}
    /\ doubt' = (doubt \/ Crossed(fetched) # {})
    /\ pull' = "idle" /\ fetched' = NoFetch
    /\ UNCHANGED <<type, server, journal, listing, pulls>>

-----------------------------------------------------------------------------
\* fetch_email_full_streamed takes the state before the listing; fetch_mailbox_full takes it
\* from the get after it (GetChunk).
SnapshotState ==
    /\ pull = "state"
    /\ listing' = [NoListing EXCEPT !.state = ServerState, !.query = QueryState]
    /\ pull' = "query"
    /\ UNCHANGED <<type, server, journal, local, cursor, fetched, doubt, pulls>>

PageSize == IF type = "email" THEN QueryPage ELSE Cardinality(Objects)

\* The listing goes from the newest object to the oldest and its last id is the anchor of the
\* next page; Email/query answers anchorNotFound when the anchor is gone, and the cycle fails
\* (FailPull).
Remaining == {o \in Live(server) : \A listed \in listing.ids : o < listed}

AnchorLives == listing.ids # {} => server[Min(listing.ids)] # Gone

\* The newest of what remains.
Page == {o \in Remaining : Cardinality({p \in Remaining : p > o}) < PageSize}

\* Fault: the query state of later pages is not compared.
ListingNeverTorn == FALSE

\* The first page fixes the query state; a later page whose state differs ends the listing as
\* incomplete before its ids are taken.
ListingTorn == type = "email" /\ listing.ids # {} /\ listing.query # QueryState

\* One page of fetch_all_remote_email_ids / fetch_all_remote_mailbox_ids, with the server's
\* total: complete as soon as as many ids are known as the total says.
QueryStep ==
    /\ pull = "query" /\ AnchorLives
    /\ IF ListingTorn
       THEN /\ listing' = [listing EXCEPT !.complete = FALSE]
            /\ pull' = "get"
       ELSE LET ids == listing.ids \cup Page
                all == Cardinality(ids) >= Cardinality(Live(server))
            IN  /\ listing' = [listing EXCEPT !.ids = ids, !.query = QueryState, !.complete = all]
                /\ pull' = IF all \/ Cardinality(Page) < PageSize THEN "get" ELSE "query"
    /\ UNCHANGED <<type, server, journal, local, cursor, fetched, doubt, pulls>>

\* A chunk of Email/get is fetched and emitted at once, upserts only.
NextChunk == listing.ids \ fetched.destroyed

GetChunk ==
    /\ pull = "get" /\ type = "email" /\ NextChunk # {}
    /\ LET o == CHOOSE o \in NextChunk : \A p \in NextChunk : o >= p
       IN  /\ local' = BatchApplied(local, [GetInto(NoFetch, {o}) EXCEPT !.destroyed = {}])
           /\ fetched' = [fetched EXCEPT !.destroyed = @ \cup {o}]     \* chunks done
    /\ UNCHANGED <<type, server, journal, cursor, pull, listing, doubt, pulls>>

\* Mailbox/get of every id in one request, whose state becomes the cursor; emitted at once.
GetMailboxes ==
    /\ pull = "get" /\ type = "mailbox"
    /\ local' = BatchApplied(local, GetInto(NoFetch, listing.ids))
    /\ listing' = [listing EXCEPT !.state = ServerState,
                                  !.ids = @ \cap Live(server)]
    /\ pull' = "reconcile"
    /\ UNCHANGED <<type, server, journal, cursor, fetched, doubt, pulls>>

ChunksDone ==
    /\ pull = "get" /\ type = "email" /\ NextChunk = {}
    /\ pull' = "reconcile"
    /\ UNCHANGED <<type, server, journal, local, cursor, listing, fetched, doubt, pulls>>

\* reconcile_sync_tx: prune by absence when the listing was complete, and the cursor.
Reconcile ==
    /\ pull = "reconcile"
    /\ local' = IF listing.complete THEN Pruned(local, listing.ids) ELSE local
    /\ doubt' = (~listing.complete \/ PruneRefused(local, listing.ids))
    /\ cursor' = {listing.state}
    /\ pull' = "idle" /\ fetched' = NoFetch /\ listing' = NoListing
    /\ UNCHANGED <<type, server, journal, pulls>>

\* A request fails, the budget cuts the cycle, or the process stops: committed chunks stay.
FailPull ==
    /\ pull # "idle"
    /\ pull' = "idle" /\ fetched' = NoFetch /\ listing' = NoListing
    /\ UNCHANGED <<type, server, journal, local, cursor, doubt, pulls>>

JmapInit ==
    /\ type \in {"email", "mailbox"}
    /\ server = [o \in Objects |-> IF o \in OldObjects THEN 1 ELSE Gone]
    /\ journal = <<>>
    /\ \/ local = server /\ cursor = {0}
       \/ local = [o \in Objects |-> Gone] /\ cursor = {}
    /\ pull = "idle" /\ listing = NoListing /\ fetched = NoFetch
    /\ doubt = FALSE /\ pulls = 0

JmapNext ==
    \/ \E o \in Objects : ServerCreate(o) \/ ServerUpdate(o) \/ ServerDestroy(o)
    \/ \E full \in BOOLEAN : StartPull(full)
    \/ CannotCalculateChanges \/ DeltaStep \/ CommitDelta
    \/ SnapshotState \/ QueryStep \/ GetChunk \/ GetMailboxes \/ ChunksDone \/ Reconcile
    \/ FailPull

JmapSpec == JmapInit /\ [][JmapNext]_jmapVars

-----------------------------------------------------------------------------
\* A cycle never takes from the store an object the server still has: neither a torn listing,
\* a floor, a failed cycle nor a late chunk makes the store lose live mail (the mail-loss
\* guards DS1 and DP-C2).
LiveMailKept == [][\A o \in Objects : local[o] # Gone /\ local'[o] = Gone => server[o] = Gone]_jmapVars

\* Between cycles, a cursor that equals the server's state means that every email the server
\* has is stored in its current version and that none of the first emails outlives its
\* destruction, after any interleaving of deltas, snapshots, failed cycles and server changes;
\* unless the last snapshot was incomplete or its prune was refused (its cursor is committed
\* all the same), or a delta of several pages has since updated an email on one page and
\* destroyed it on a later one.  An email made and destroyed since the cursor is left out: a snapshot reads
\* its state first and may list such an email, and no later delta names it.
CursorIsExact ==
    type = "email" /\ pull = "idle" /\ cursor = {ServerState} /\ ~doubt
    => \A o \in Objects : server[o] # Gone \/ o \in OldObjects => local[o] = server[o]
=============================================================================
