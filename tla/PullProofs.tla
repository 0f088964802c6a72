----------------------------- MODULE PullProofs -----------------------------
(***************************************************************************)
(* The pulls from the provider, for every value of the bounds.             *)
(***************************************************************************)
EXTENDS ImapSync, JmapSync, FiniteSetTheorems, WellFoundedInduction, TLAPS

-----------------------------------------------------------------------------
(***************************************************************************)
(* The IMAP pull.  The mark of a mailbox promises no more than this: every *)
(* message that is there and was last changed at or before the mark's      *)
(* modseq is stored as it is.  Rows that should be gone may linger below   *)
(* the mark, and it is the count in STATUS that finds them.  A cycle works *)
(* towards the promise for the modseq it will commit, and a change that    *)
(* comes meanwhile is stamped above it.                                    *)
(***************************************************************************)
Caps == {"qresync", "condstore", "plain"}
Seens == Nat \cup {HighestOf(f) : f \in SUBSET Uids}
Boxes == [epoch : Epochs, modseq : Nat \ {0}, version : [Uids -> Nat], stamp : [Uids -> Nat]]
CycleSteps == {"idle", "examine", "search", "fetch", "changes", "sweep", "commit"}
CyclePlans == {"none", "initial", "resume", "full", "qresync", "condstore"}
Cycles == [step : CycleSteps, plan : CyclePlans, epoch : Nat, modseq : Nat, uids : SUBSET Uids,
           got : [Uids -> Nat], gone : SUBSET Uids, seen : Seens]

ImapTypes ==
    /\ caps \in Caps /\ box \in Boxes /\ stored \in [Epochs -> [Uids -> Nat]] /\ cycle \in Cycles
    /\ \A u \in Uids : box.stamp[u] <= box.modseq
    /\ \A m, n \in mark : m = n
    /\ \A m \in mark : /\ m.modseq \in Nat /\ m.modseq <= box.modseq
                       /\ m.epoch \in Nat /\ m.epoch <= box.epoch
    /\ cycle.modseq <= box.modseq /\ cycle.epoch <= box.epoch
    /\ cycle.step \notin {"idle", "examine"} => cycle.epoch \in Epochs

DeltaPlans == {"qresync", "condstore"}

\* A delta cycle has a mark to start from; what it saw is not ahead of the mailbox.
DeltaHasMark ==
    /\ cycle.plan \in DeltaPlans /\ cycle.step # "idle" => mark # {}
    /\ cycle.step = "changes" => cycle.plan \in DeltaPlans
    /\ cycle.step \in {"sweep", "commit"} =>
           cycle.plan \in DeltaPlans /\ cycle.seen \in Nat /\ cycle.seen <= box.modseq

\* A uid told to have vanished does not come back.
GoneForGood == cycle.plan = "qresync" =>
                   \A u \in cycle.gone : box.version[u] = None /\ box.stamp[u] # None

\* Message u is there and was last changed by modseq n.
Settled(u, n) == box.version[u] # None /\ box.stamp[u] <= n

\* The promise of a mark.
Covers(n) == \A u \in Uids : Settled(u, n) => stored[box.epoch][u] = box.version[u]

MarkCovers == \A m \in mark : m.epoch = box.epoch /\ m.modseq # None => Covers(m.modseq)

\* What a cycle has of the promise it will commit.
FullCovers ==
    cycle.plan = "full" /\ cycle.step = "fetch" =>
        \A u \in Uids : Settled(u, cycle.modseq) =>
            u \in cycle.uids /\ (u \in cycle.gone => cycle.got[u] = box.version[u])

InitialCovers ==
    cycle.plan = "initial" /\ cycle.step = "fetch" =>
        \A u \in Uids : Settled(u, cycle.modseq) =>
            u \in cycle.uids /\ (u \in cycle.gone => stored[cycle.epoch][u] = box.version[u])

DeltaCovers ==
    cycle.plan \in DeltaPlans =>
        /\ cycle.step # "idle" => \A m \in mark : m.epoch = box.epoch /\ m.modseq # None
        /\ cycle.step = "changes" /\ cycle.plan = "condstore" =>
             \A u \in Uids, m \in mark : Settled(u, m.modseq) => u \in cycle.uids
        /\ cycle.step \in {"sweep", "commit"} =>
             \A m \in mark : \A n \in {m.modseq, cycle.seen, cycle.modseq} :
                 \A u \in Uids : Settled(u, n) =>
                     \/ cycle.got[u] = box.version[u]
                     \/ /\ cycle.got[u] = None /\ stored[box.epoch][u] = box.version[u]
                        /\ cycle.plan = "condstore" => u \in cycle.uids

SameEpoch == cycle.step \notin {"idle", "examine"} => cycle.epoch = box.epoch

Unresumed == ~(cycle.plan = "resume" /\ cycle.step = "fetch")

SkipInv == excuse = {} =>
    MarkCovers /\ FullCovers /\ InitialCovers /\ DeltaCovers /\ SameEpoch /\ Unresumed

ImapInv == ImapTypes /\ DeltaHasMark /\ GoneForGood /\ SkipInv

\* A nonempty set of numbers has its least: the next uid of a chunked fetch.
LEMMA LeastOf ==
    ASSUME NEW S \in SUBSET Nat, S # {}
    PROVE  Min(S) \in S
  <1> DEFINE R == OpToRel(<, Nat)
  <1>1. IsWellFoundedOn(R, Nat) BY NatLessThanWellFounded, Zenon
  <1>2. \A x, y \in Nat : x < y => <<x, y>> \in R BY DEF OpToRel
  <1> HIDE DEF R
  <1>3. PICK x \in S : \A y \in S : ~(<<y, x>> \in R) BY <1>1, WFMin
  <1>4. \A y \in S : x =< y
    <2> TAKE y \in S
    <2>1. ~(y < x) BY <1>2, <1>3
    <2> QED BY <2>1
  <1> QED BY <1>4 DEF Min

\* A nonempty bounded set of numbers has its greatest.
LEMMA GreatestOf ==
    ASSUME NEW S \in SUBSET Nat, S # {}, NEW b \in Nat, \A x \in S : x <= b
    PROVE  Max(S) \in S /\ \A x \in S : x <= Max(S)
  <1> DEFINE T == {n \in Nat : \E x \in S : n = b - x}
             R == OpToRel(<, Nat)
  <1>1. IsWellFoundedOn(R, Nat) BY NatLessThanWellFounded, Zenon
  <1>2. \A x, y \in Nat : x < y => <<x, y>> \in R BY DEF OpToRel
  <1>3. \A x \in S : b - x \in T OBVIOUS
  <1>4. T # {} /\ T \subseteq Nat BY <1>3
  <1> HIDE DEF R, T
  <1>5. PICK n \in T : \A k \in T : ~(<<k, n>> \in R) BY <1>1, <1>4, WFMin
  <1>6. PICK x \in S : n = b - x BY DEF T
  <1>7. \A y \in S : x >= y
    <2> TAKE y \in S
    <2>1. b - y \in Nat /\ ~(b - y < n) BY <1>2, <1>3, <1>4, <1>5
    <2> QED BY <2>1, <1>6
  <1>8. \E z \in S : \A y \in S : z >= y BY <1>7
  <1>9. Max(S) \in S /\ \A y \in S : Max(S) >= y BY <1>8 DEF Max
  <1> QED BY <1>9

\* HighestOf of a bounded set.
LEMMA HighestOfBounded ==
    ASSUME NEW S \in SUBSET Nat, NEW b \in Nat, \A x \in S : x <= b
    PROVE  /\ HighestOf(S) \in Nat /\ HighestOf(S) <= b
           /\ \A x \in S : x <= HighestOf(S)
           /\ S # {} => HighestOf(S) \in S
  <1>1. CASE S = {} BY <1>1 DEF HighestOf, None
  <1>2. CASE S # {}
    <2>1. Max(S) \in S /\ \A x \in S : x <= Max(S) BY <1>2, GreatestOf
    <2> QED BY <2>1, <1>2 DEF HighestOf
  <1> QED BY <1>1, <1>2

\* The one mark.
LEMMA TheMark ==
    ASSUME ImapTypes, NEW m \in mark
    PROVE  /\ (CHOOSE n \in mark : TRUE) = m
           /\ (CHOOSE s \in {n.modseq : n \in mark} : TRUE) = m.modseq
           /\ mark = {m}
  <1>1. mark = {m} BY DEF ImapTypes
  <1>2. {n.modseq : n \in mark} = {m.modseq} BY <1>1
  <1> QED BY <1>1, <1>2

\* The cycle state between two cycles.
LEMMA NoCycleType ==
    /\ NoCycle \in Cycles /\ NoCycle.step = "idle" /\ NoCycle.plan = "none"
    /\ NoCycle.modseq = 0 /\ NoCycle.epoch = 0 /\ NoCycle.gone = {}
  <1> DEFINE none == [u \in Uids |-> 0]
  <1>1. none \in [Uids -> Nat] /\ 0 \in Seens BY DEF Seens
  <1>2. NoCycle = [step |-> "idle", plan |-> "none", epoch |-> 0, modseq |-> 0,
                   uids |-> {}, got |-> none, gone |-> {}, seen |-> 0]
    BY DEF NoCycle, None
  <1> HIDE DEF none
  <1>3. NoCycle \in Cycles
    <2>1. {} \in SUBSET Uids /\ "idle" \in CycleSteps /\ "none" \in CyclePlans /\ 0 \in Nat
      BY DEF CycleSteps, CyclePlans
    <2> HIDE DEF Seens
    <2> QED BY <1>1, <1>2, <2>1 DEF Cycles
  <1> QED BY <1>2, <1>3

\* With no cycle under way the invariant is the mark's.
LEMMA IdleInv ==
    ASSUME ImapTypes, excuse = {} => MarkCovers, cycle = NoCycle
    PROVE  ImapInv
  <1>1. cycle.step = "idle" /\ cycle.plan = "none" BY NoCycleType
  <1>2. DeltaHasMark /\ GoneForGood BY <1>1 DEF DeltaHasMark, GoneForGood, DeltaPlans
  <1>3. FullCovers /\ InitialCovers /\ DeltaCovers /\ SameEpoch /\ Unresumed
    BY <1>1 DEF FullCovers, InitialCovers, DeltaCovers, DeltaPlans, SameEpoch, Unresumed
  <1> QED BY <1>2, <1>3 DEF ImapInv, SkipInv

\* The same of the state after a step that ends the cycle.
LEMMA EndedInv ==
    ASSUME ImapTypes', excuse' = {} => MarkCovers', cycle' = NoCycle
    PROVE  ImapInv'
  <1>1. cycle'.step = "idle" /\ cycle'.plan = "none" BY NoCycleType
  <1>2. DeltaHasMark' /\ GoneForGood' BY <1>1 DEF DeltaHasMark, GoneForGood, DeltaPlans
  <1>3. FullCovers' /\ InitialCovers' /\ DeltaCovers' /\ SameEpoch' /\ Unresumed'
    BY <1>1 DEF FullCovers, InitialCovers, DeltaCovers, DeltaPlans, SameEpoch, Unresumed
  <1> QED BY <1>2, <1>3 DEF ImapInv, SkipInv

\* The invariant holds of a store that has synced nothing.
LEMMA ImapInvInit == ImapInit => ImapInv
  <1> SUFFICES ASSUME ImapInit PROVE ImapInv OBVIOUS
  <1>1. 1 \in Epochs BY ImapAssumption DEF Epochs
  <1>2. /\ box.epoch = 1 /\ box.modseq = 1
        /\ box.version = [u \in Uids |-> IF u \in FirstUids THEN 1 ELSE None]
        /\ box.stamp = [u \in Uids |-> IF u \in FirstUids THEN 1 ELSE None]
    BY DEF ImapInit
  <1>3. box \in Boxes BY <1>1 DEF ImapInit, Boxes, None
  <1>4. stored \in [Epochs -> [Uids -> Nat]] BY DEF ImapInit, None
  <1>5. ImapTypes
    BY <1>2, <1>3, <1>4, NoCycleType DEF ImapInit, ImapTypes, Caps, None
  <1>6. MarkCovers BY DEF ImapInit, MarkCovers
  <1> QED BY <1>5, <1>6, IdleInv DEF ImapInit

-----------------------------------------------------------------------------
\* A change of one message is stamped above every modseq of before.
LEMMA ChangeIsAbove ==
    ASSUME ImapTypes, NEW u \in Uids, NEW v \in Nat, BoxChange(u, v)
    PROVE  /\ box' \in Boxes /\ box'.modseq = box.modseq + 1 /\ box'.epoch = box.epoch
           /\ box.modseq \in Nat /\ box.epoch \in Nat
           /\ \A w \in Uids : box'.stamp[w] <= box'.modseq
           /\ \A w \in Uids : w # u => box'.version[w] = box.version[w] /\ box'.stamp[w] = box.stamp[w]
           /\ box'.version[u] = v /\ box'.stamp[u] = box.modseq + 1
           /\ \A w \in Uids, n \in Nat : n <= box.modseq /\ Settled(w, n)' =>
                  Settled(w, n) /\ box'.version[w] = box.version[w]
  <1>1. box' = [box EXCEPT !.modseq = @ + 1, !.version[u] = v, !.stamp[u] = box.modseq + 1]
    BY DEF BoxChange
  <1>2. box \in Boxes /\ box.modseq \in Nat /\ box.version \in [Uids -> Nat] /\ box.stamp \in [Uids -> Nat]
        /\ box.epoch \in Nat /\ box.epoch \in Epochs
    BY DEF ImapTypes, Boxes, Epochs
  <1>3. /\ box'.modseq = box.modseq + 1 /\ box'.epoch = box.epoch
        /\ box'.version = [box.version EXCEPT ![u] = v]
        /\ box'.stamp = [box.stamp EXCEPT ![u] = box.modseq + 1]
    BY <1>1, <1>2 DEF Boxes
  <1>4. box' \in Boxes
    <2> DEFINE a == [box.version EXCEPT ![u] = v]
               b == [box.stamp EXCEPT ![u] = box.modseq + 1]
    <2>1. a \in [Uids -> Nat] /\ b \in [Uids -> Nat] BY <1>2
    <2>2. box' = [box EXCEPT !.modseq = box.modseq + 1, !.version = a, !.stamp = b]
      BY <1>1, <1>2 DEF Boxes
    <2>3. box.modseq + 1 \in Nat \ {0} BY <1>2
    <2> HIDE DEF a, b
    <2>4. box' = [epoch |-> box.epoch, modseq |-> box.modseq + 1, version |-> a, stamp |-> b]
      BY <2>2, <1>2 DEF Boxes
    <2> QED BY <1>2, <2>1, <2>3, <2>4 DEF Boxes
  <1>5. /\ \A w \in Uids : w # u => box'.version[w] = box.version[w] /\ box'.stamp[w] = box.stamp[w]
        /\ box'.version[u] = v /\ box'.stamp[u] = box.modseq + 1
    BY <1>2, <1>3
  <1>6. \A w \in Uids : box'.stamp[w] <= box'.modseq
    BY <1>2, <1>3, <1>5 DEF ImapTypes
  <1>7. \A w \in Uids, n \in Nat : n <= box.modseq /\ Settled(w, n)' =>
                  Settled(w, n) /\ box'.version[w] = box.version[w]
    BY <1>2, <1>5 DEF Settled
  <1> QED BY <1>2, <1>3, <1>4, <1>5, <1>6, <1>7

\* Deliveries, flag changes and expunges.
LEMMA ChangeKeeps ==
    ASSUME ImapInv, NEW u \in Uids, NEW v \in Nat, BoxChange(u, v),
           box.stamp[u] = None \/ box.version[u] # None
    PROVE  ImapInv'
  <1> USE DEF ImapInv
  <1>1. UNCHANGED <<caps, stored, mark, cycle, excuse>> BY DEF BoxChange
  <1>2. /\ box' \in Boxes /\ box'.modseq = box.modseq + 1 /\ box'.epoch = box.epoch
        /\ box.modseq \in Nat /\ box.epoch \in Nat
        /\ \A w \in Uids : box'.stamp[w] <= box'.modseq
        /\ \A w \in Uids : w # u => box'.version[w] = box.version[w] /\ box'.stamp[w] = box.stamp[w]
        /\ \A w \in Uids, n \in Nat : n <= box.modseq /\ Settled(w, n)' =>
               Settled(w, n) /\ box'.version[w] = box.version[w]
    BY ChangeIsAbove
  <1>3. cycle.modseq \in Nat /\ cycle.epoch \in Nat /\ cycle.gone \subseteq Uids BY DEF ImapTypes, Cycles
  <1>4. ImapTypes' BY <1>1, <1>2, <1>3 DEF ImapTypes
  <1>5. DeltaHasMark' BY <1>1, <1>2 DEF DeltaHasMark
  <1>6. GoneForGood' BY <1>1, <1>2, <1>3 DEF GoneForGood
  <1>7. ASSUME excuse' = {} PROVE SkipInv'
    <2>1. MarkCovers /\ FullCovers /\ InitialCovers /\ DeltaCovers /\ SameEpoch /\ Unresumed
      BY <1>1, <1>7 DEF SkipInv
    <2>2. cycle.modseq <= box.modseq /\ \A m \in mark : m.modseq \in Nat /\ m.modseq <= box.modseq
      BY DEF ImapTypes
    <2>3. MarkCovers' BY <1>1, <1>2, <2>1, <2>2 DEF MarkCovers, Covers
    <2>4. FullCovers' BY <1>1, <1>2, <1>3, <2>1, <2>2 DEF FullCovers
    <2>5. InitialCovers' BY <1>1, <1>2, <1>3, <2>1, <2>2 DEF InitialCovers
    <2>6. DeltaCovers'
      <3>1. cycle.plan \in DeltaPlans /\ cycle.step # "idle" =>
                \A m \in mark : m.epoch = box'.epoch /\ m.modseq # None
        BY <1>2, <2>1 DEF DeltaCovers
      <3>2. cycle.plan \in DeltaPlans /\ cycle.step = "changes" /\ cycle.plan = "condstore" =>
                \A w \in Uids, m \in mark : Settled(w, m.modseq)' => w \in cycle.uids
        BY <1>1, <1>2, <2>1, <2>2 DEF DeltaCovers
      <3>3. ASSUME cycle.plan \in DeltaPlans, cycle.step \in {"sweep", "commit"}, NEW m \in mark,
                   NEW n \in {m.modseq, cycle.seen, cycle.modseq}, NEW w \in Uids, Settled(w, n)'
            PROVE  \/ cycle.got[w] = box'.version[w]
                   \/ /\ cycle.got[w] = None /\ stored[box'.epoch][w] = box'.version[w]
                      /\ cycle.plan = "condstore" => w \in cycle.uids
        <4>1. n \in Nat /\ n <= box.modseq BY <1>3, <2>2, <3>3 DEF DeltaHasMark
        <4>2. Settled(w, n) /\ box'.version[w] = box.version[w] BY <1>2, <3>3, <4>1
        <4> QED BY <4>2, <3>3, <2>1, <1>2 DEF DeltaCovers
      <3> QED BY <1>1, <3>1, <3>2, <3>3 DEF DeltaCovers
    <2>7. SameEpoch' /\ Unresumed' BY <1>1, <1>2, <2>1 DEF SameEpoch, Unresumed
    <2> QED BY <2>3, <2>4, <2>5, <2>6, <2>7 DEF SkipInv
  <1>8. SkipInv' BY <1>7 DEF SkipInv
  <1> QED BY <1>4, <1>5, <1>6, <1>8

\* The mailbox is rebuilt: the old mark is of another epoch, and a cycle under
\* way has its excuse.
LEMMA RebuildKeeps == ImapInv /\ BoxRebuild => ImapInv'
  <1> SUFFICES ASSUME ImapInv, BoxRebuild PROVE ImapInv' OBVIOUS
  <1> USE DEF ImapInv
  <1> DEFINE st == [u \in Uids |-> IF u \in Present THEN box.modseq + 1 ELSE box.stamp[u]]
  <1>1. /\ UNCHANGED <<caps, stored, mark, cycle>> /\ box.epoch < MaxEpochs
        /\ box' = [box EXCEPT !.epoch = @ + 1, !.modseq = @ + 1, !.stamp = st]
        /\ excuse' = IF cycle.step = "idle" THEN excuse ELSE excuse \cup {"shifted"}
    BY DEF BoxRebuild, ImapTypes, Boxes
  <1>2. box \in Boxes /\ box.modseq \in Nat /\ box.version \in [Uids -> Nat] /\ box.stamp \in [Uids -> Nat]
        /\ box.epoch \in Nat /\ box.epoch \in Epochs /\ box.epoch + 1 \in Epochs
    BY <1>1, ImapAssumption DEF ImapTypes, Boxes, Epochs
  <1>3. st \in [Uids -> Nat] BY <1>2
  <1>4. \A u \in Uids : st[u] = IF u \in Present THEN box.modseq + 1 ELSE box.stamp[u] OBVIOUS
  <1> HIDE DEF st
  <1>5. /\ box'.epoch = box.epoch + 1 /\ box'.modseq = box.modseq + 1 /\ box'.stamp = st
        /\ box'.version = box.version
    BY <1>1, <1>2 DEF Boxes
  <1>6. box.modseq + 1 \in Nat \ {0} BY <1>2
  <1>7. box' = [epoch |-> box.epoch + 1, modseq |-> box.modseq + 1, version |-> box.version, stamp |-> st]
    BY <1>1, <1>2 DEF Boxes
  <1>8. box' \in Boxes BY <1>2, <1>3, <1>6, <1>7 DEF Boxes
  <1>9. \A u \in Uids : box'.stamp[u] <= box'.modseq BY <1>2, <1>4, <1>5 DEF ImapTypes
  <1>10. cycle.modseq \in Nat /\ cycle.epoch \in Nat /\ cycle.gone \subseteq Uids BY DEF ImapTypes, Cycles
  <1>11. ImapTypes' BY <1>1, <1>2, <1>5, <1>8, <1>9, <1>10 DEF ImapTypes
  <1>12. DeltaHasMark' BY <1>1, <1>2, <1>5 DEF DeltaHasMark
  <1>13. GoneForGood'
    <2>1. \A u \in Uids : box.version[u] = None => st[u] = box.stamp[u] BY <1>4 DEF Present
    <2> QED BY <2>1, <1>1, <1>5, <1>10 DEF GoneForGood
  <1>14. ASSUME excuse' = {} PROVE SkipInv'
    <2>1. cycle.step = "idle" /\ excuse = {} BY <1>1, <1>14
    <2>2. \A m \in mark : m.epoch # box'.epoch BY <1>2, <1>5 DEF ImapTypes
    <2>3. MarkCovers' BY <2>2, <1>1 DEF MarkCovers
    <2>4. FullCovers' /\ InitialCovers' /\ DeltaCovers' /\ SameEpoch' /\ Unresumed'
      BY <1>1, <2>1 DEF FullCovers, InitialCovers, DeltaCovers, SameEpoch, Unresumed
    <2> QED BY <2>3, <2>4 DEF SkipInv
  <1>15. SkipInv' BY <1>14 DEF SkipInv
  <1> QED BY <1>11, <1>12, <1>13, <1>15

-----------------------------------------------------------------------------
\* A step of the cycle that writes nothing.
LEMMA ReadOnlyStep ==
    ASSUME ImapInv, UNCHANGED <<caps, box, stored, mark>>, cycle' \in Cycles,
           cycle'.modseq <= box.modseq, cycle'.epoch <= box.epoch,
           cycle'.step \notin {"idle", "examine"} => cycle'.epoch \in Epochs,
           DeltaHasMark', GoneForGood',
           excuse' = {} => /\ excuse = {} /\ FullCovers' /\ InitialCovers' /\ DeltaCovers'
                           /\ SameEpoch' /\ Unresumed'
    PROVE  ImapInv'
  <1>1. ImapTypes' BY DEF ImapInv, ImapTypes
  <1>2. excuse' = {} => MarkCovers' BY DEF ImapInv, SkipInv, MarkCovers, Covers, Settled
  <1> QED BY <1>1, <1>2 DEF ImapInv, SkipInv

\* plan_imap_mailbox_sync plans a delta only from a finished mark of the epoch.
LEMMA PlanTypes ==
    ASSUME ImapTypes
    PROVE  /\ PlanFor \in CyclePlans
           /\ PlanFor \in DeltaPlans => mark # {} /\ \A m \in mark : m.epoch = box.epoch /\ m.modseq # None
  <1>1. CASE mark = {} BY <1>1 DEF PlanFor, CyclePlans, DeltaPlans
  <1>2. CASE mark # {}
    <2>1. PICK m \in mark : TRUE BY <1>2
    <2>2. (CHOOSE n \in mark : TRUE) = m /\ mark = {m} BY <2>1, TheMark
    <2>3. PlanFor = CASE m.epoch # box.epoch                         -> "full"
               [] m.epoch = box.epoch /\ m.partial # None             -> "resume"
               [] m.epoch = box.epoch /\ m.partial = None /\ m.modseq # None
                                      /\ HasModseq                    -> caps
               [] OTHER                                               -> "full"
      BY <1>2, <2>2 DEF PlanFor
    <2>4. \/ PlanFor \in {"full", "resume"}
          \/ PlanFor = caps /\ HasModseq /\ m.epoch = box.epoch /\ m.modseq # None
      BY <2>3
    <2>5. HasModseq => caps \in CyclePlans BY DEF HasModseq, CyclePlans
    <2> QED BY <1>2, <2>2, <2>4, <2>5 DEF CyclePlans, DeltaPlans
  <1> QED BY <1>1, <1>2

\* plan_mailbox
LEMMA PlanKeeps == ImapInv /\ PlanMailbox => ImapInv'
  <1> SUFFICES ASSUME ImapInv, PlanMailbox PROVE ImapInv' OBVIOUS
  <1>1. cycle' = [NoCycle EXCEPT !.step = "examine", !.plan = PlanFor] /\ UNCHANGED <<caps, box, stored, mark, excuse>>
    BY DEF PlanMailbox
  <1>2. PlanFor \in CyclePlans
        /\ (PlanFor \in DeltaPlans => mark # {} /\ \A m \in mark : m.epoch = box.epoch /\ m.modseq # None)
    BY PlanTypes DEF ImapInv
  <1>3. /\ cycle'.step = "examine" /\ cycle'.plan = PlanFor /\ cycle'.modseq = 0 /\ cycle'.epoch = 0
        /\ cycle'.gone = {}
    BY <1>1, NoCycleType DEF Cycles
  <1>4. cycle' \in Cycles
    <2>1. "examine" \in CycleSteps BY DEF CycleSteps
    <2> HIDE DEF Seens
    <2> QED BY <1>1, <1>2, <2>1, NoCycleType DEF Cycles
  <1>5. box.modseq \in Nat /\ box.epoch \in Nat BY DEF ImapInv, ImapTypes, Boxes, Epochs
  <1>6. DeltaHasMark' /\ GoneForGood' BY <1>1, <1>2, <1>3 DEF DeltaHasMark, GoneForGood
  <1>7. FullCovers' /\ InitialCovers' /\ SameEpoch' /\ Unresumed'
    BY <1>3 DEF FullCovers, InitialCovers, SameEpoch, Unresumed
  <1>8. DeltaCovers' BY <1>1, <1>2, <1>3 DEF DeltaCovers
  <1> QED BY <1>1, <1>3, <1>4, <1>5, <1>6, <1>7, <1>8, ReadOnlyStep

\* examine_selected_mailbox
LEMMA ExamineKeeps == ImapInv /\ Examine => ImapInv'
  <1> SUFFICES ASSUME ImapInv, Examine PROVE ImapInv' OBVIOUS
  <1> DEFINE q == IF HasModseq THEN box.modseq ELSE None
             s == IF cycle.plan = "qresync" THEN "changes" ELSE "search"
  <1>1. cycle \in Cycles /\ box.modseq \in Nat /\ box.epoch \in Nat /\ box.epoch \in Epochs
    BY DEF ImapInv, ImapTypes, Boxes, Epochs
  <1>2. cycle' = [cycle EXCEPT !.epoch = box.epoch, !.modseq = q, !.step = s]
        /\ UNCHANGED <<caps, box, stored, mark, excuse>> /\ cycle.step = "examine"
    BY <1>1 DEF Examine, Cycles
  <1>3. q \in Nat /\ q <= box.modseq /\ s \in CycleSteps BY <1>1 DEF None, CycleSteps
  <1>4. s \in {"changes", "search"} /\ (s = "changes" => cycle.plan = "qresync") OBVIOUS
  <1> HIDE DEF q, s
  <1>5. cycle' \in Cycles /\ cycle'.step = s /\ cycle'.plan = cycle.plan /\ cycle'.epoch = box.epoch
        /\ cycle'.modseq = q /\ cycle'.gone = cycle.gone
    <2> HIDE DEF Seens
    <2> QED BY <1>1, <1>2, <1>3 DEF Cycles
  <1>6. DeltaHasMark' BY <1>2, <1>4, <1>5 DEF ImapInv, DeltaHasMark, DeltaPlans
  <1>7. GoneForGood' BY <1>2, <1>5 DEF ImapInv, GoneForGood
  <1>8. FullCovers' /\ InitialCovers' /\ Unresumed' /\ SameEpoch'
    BY <1>2, <1>4, <1>5 DEF FullCovers, InitialCovers, SameEpoch, Unresumed
  <1>9. excuse = {} => DeltaCovers' BY <1>2, <1>4, <1>5 DEF ImapInv, SkipInv, DeltaCovers
  <1> QED BY <1>1, <1>2, <1>3, <1>5, <1>6, <1>7, <1>8, <1>9, ReadOnlyStep

\* search_undeleted_uids
LEMMA SearchKeeps == ImapInv /\ Search => ImapInv'
  <1> SUFFICES ASSUME ImapInv, Search PROVE ImapInv' OBVIOUS
  <1>1. PICK found \in SUBSET Present, gone \in SUBSET Present :
          /\ cycle' = [cycle EXCEPT !.uids = found, !.seen = HighestOf(found), !.gone = gone,
                         !.step = IF cycle.plan = "condstore" THEN "changes" ELSE "fetch"]
          /\ cycle.plan # "resume" => gone = {}
          /\ excuse' = excuse \cup (IF found = Present THEN {} ELSE {"short"})
                              \cup (IF cycle.plan = "resume" THEN {"resumed"} ELSE {})
    <2>1. PICK found \in (IF Truncates THEN SUBSET Present ELSE {Present}) :
        LET above == CHOOSE p \in {m.partial : m \in mark} \cup (IF mark = {} THEN {None} ELSE {}) : TRUE
        IN  /\ cycle' = [cycle EXCEPT
                 !.uids = found, !.seen = HighestOf(found),
                 !.gone = IF cycle.plan = "resume" THEN {u \in found : u <= above} ELSE {},
                 !.step = IF cycle.plan = "condstore" THEN "changes" ELSE "fetch"]
            /\ excuse' = excuse \cup (IF found = Present THEN {} ELSE {"short"})
                                \cup (IF cycle.plan = "resume" THEN {"resumed"} ELSE {})
      BY DEF Search
    <2> DEFINE above == CHOOSE p \in {m.partial : m \in mark} \cup (IF mark = {} THEN {None} ELSE {}) : TRUE
               gone == IF cycle.plan = "resume" THEN {u \in found : u <= above} ELSE {}
    <2>2. found \in SUBSET Present /\ gone \in SUBSET Present /\ (cycle.plan # "resume" => gone = {}) OBVIOUS
    <2>3. cycle' = [cycle EXCEPT !.uids = found, !.seen = HighestOf(found), !.gone = gone,
                         !.step = IF cycle.plan = "condstore" THEN "changes" ELSE "fetch"]
      BY <2>1
    <2> HIDE DEF gone, above
    <2> QED BY <2>1, <2>2, <2>3
  <1> DEFINE s == IF cycle.plan = "condstore" THEN "changes" ELSE "fetch"
  <1>2. cycle \in Cycles /\ found \in SUBSET Uids /\ gone \in SUBSET Uids /\ HighestOf(found) \in Seens
    BY DEF ImapInv, ImapTypes, Present, Seens
  <1>3. UNCHANGED <<caps, box, stored, mark>> /\ cycle.step = "search" BY DEF Search
  <1>4. s \in CycleSteps /\ (cycle.plan = "condstore" => s = "changes") /\ (cycle.plan # "condstore" => s = "fetch")
    BY DEF CycleSteps
  <1>5. cycle' = [cycle EXCEPT !.uids = found, !.seen = HighestOf(found), !.gone = gone, !.step = s]
    BY <1>1
  <1> HIDE DEF s
  <1>6. cycle' \in Cycles /\ cycle'.step = s /\ cycle'.plan = cycle.plan /\ cycle'.epoch = cycle.epoch
        /\ cycle'.modseq = cycle.modseq /\ cycle'.gone = gone /\ cycle'.uids = found
    <2> HIDE DEF Seens
    <2> QED BY <1>2, <1>4, <1>5 DEF Cycles
  <1>7. DeltaHasMark' BY <1>3, <1>4, <1>6 DEF ImapInv, DeltaHasMark, DeltaPlans
  <1>8. GoneForGood' BY <1>1, <1>6 DEF GoneForGood
  <1>9. cycle.modseq <= box.modseq /\ cycle.epoch <= box.epoch /\ cycle.epoch \in Epochs
    BY <1>3 DEF ImapInv, ImapTypes
  <1>10. ASSUME excuse' = {}
         PROVE  excuse = {} /\ FullCovers' /\ InitialCovers' /\ DeltaCovers' /\ SameEpoch' /\ Unresumed'
    <2>1. excuse = {} /\ found = Present /\ cycle.plan # "resume" BY <1>1, <1>10
    <2>2. \A u \in Uids : \A n : Settled(u, n)' => u \in found BY <1>3, <2>1 DEF Settled, Present
    <2>3. gone = {} BY <1>1, <2>1
    <2>4. FullCovers' /\ InitialCovers' BY <1>6, <2>2, <2>3 DEF FullCovers, InitialCovers
    <2>5. SameEpoch' /\ Unresumed' BY <1>3, <1>6, <2>1 DEF ImapInv, SkipInv, SameEpoch, Unresumed
    <2>6. cycle.plan \in DeltaPlans => \A m \in mark : m.epoch = box.epoch /\ m.modseq # None
      BY <1>3, <2>1 DEF ImapInv, SkipInv, DeltaCovers
    <2>7. DeltaCovers' BY <1>3, <1>4, <1>6, <2>2, <2>6 DEF DeltaCovers
    <2> QED BY <2>1, <2>4, <2>5, <2>7
  <1> QED BY <1>3, <1>6, <1>7, <1>8, <1>9, <1>10, ReadOnlyStep

\* fetch_header_chunk of a full snapshot
LEMMA FetchChunkKeeps == ImapInv /\ FetchChunk => ImapInv'
  <1> SUFFICES ASSUME ImapInv, FetchChunk PROVE ImapInv' OBVIOUS
  <1> DEFINE u == Min(Pending)
  <1>1. cycle \in Cycles /\ box \in Boxes /\ cycle.uids \subseteq Uids /\ cycle.gone \subseteq Uids
        /\ cycle.got \in [Uids -> Nat] /\ box.version \in [Uids -> Nat]
    BY DEF ImapInv, ImapTypes, Cycles, Boxes
  <1>2. cycle.step = "fetch" /\ cycle.plan = "full" /\ Pending # {} BY DEF FetchChunk
  <1>3. u \in Pending
    <2>1. Pending \in SUBSET Nat BY <1>1, ImapAssumption DEF Pending
    <2> QED BY <1>2, <2>1, LeastOf
  <1>4. cycle' = [cycle EXCEPT !.got[u] = box.version[u], !.gone = @ \cup {u}]
        /\ UNCHANGED <<caps, box, stored, mark, excuse>>
    BY DEF FetchChunk
  <1> HIDE DEF u
  <1>5. u \in Uids /\ u \in cycle.uids /\ u \notin cycle.gone BY <1>1, <1>3 DEF Pending
  <1> DEFINE g == [cycle.got EXCEPT ![u] = box.version[u]]
             h == cycle.gone \cup {u}
  <1>6. g \in [Uids -> Nat] /\ h \in SUBSET Uids BY <1>1, <1>5
  <1>7. cycle' = [cycle EXCEPT !.got = g, !.gone = h] BY <1>1, <1>4 DEF Cycles
  <1>8. \A w \in Uids : g[w] = IF w = u THEN box.version[u] ELSE cycle.got[w] BY <1>1
  <1>9. \A w \in h : w = u \/ w \in cycle.gone OBVIOUS
  <1> HIDE DEF g, h
  <1>10. cycle' \in Cycles /\ cycle'.step = cycle.step /\ cycle'.plan = cycle.plan /\ cycle'.epoch = cycle.epoch
        /\ cycle'.modseq = cycle.modseq /\ cycle'.gone = h /\ cycle'.got = g /\ cycle'.uids = cycle.uids
    <2> HIDE DEF Seens
    <2> QED BY <1>1, <1>6, <1>7 DEF Cycles
  <1>11. DeltaHasMark' /\ GoneForGood' BY <1>2, <1>4, <1>10 DEF DeltaHasMark, GoneForGood, DeltaPlans
  <1>12. ASSUME excuse' = {}
         PROVE  excuse = {} /\ FullCovers' /\ InitialCovers' /\ DeltaCovers' /\ SameEpoch' /\ Unresumed'
    <2>1. excuse = {} /\ FullCovers /\ SameEpoch BY <1>4, <1>12 DEF ImapInv, SkipInv
    <2>2. FullCovers' BY <1>2, <1>4, <1>8, <1>9, <1>10, <2>1 DEF FullCovers, Settled
    <2>3. InitialCovers' /\ DeltaCovers' /\ Unresumed' /\ SameEpoch'
      BY <1>2, <1>4, <1>10, <2>1 DEF InitialCovers, DeltaCovers, DeltaPlans, Unresumed, SameEpoch
    <2> QED BY <2>1, <2>2, <2>3
  <1>13. cycle.modseq <= box.modseq /\ cycle.epoch <= box.epoch /\ cycle.epoch \in Epochs
    BY <1>2 DEF ImapInv, ImapTypes
  <1> QED BY <1>4, <1>10, <1>11, <1>12, <1>13, ReadOnlyStep

\* One chunk of the initial snapshot, with its checkpoint.
LEMMA InitialChunkKeeps == ImapInv /\ CommitInitialChunk => ImapInv'
  <1> SUFFICES ASSUME ImapInv, CommitInitialChunk PROVE ImapInv' OBVIOUS
  <1> DEFINE u == IF Pending = {} THEN None ELSE Min(Pending)
             final == Pending \subseteq {u}
             v == IF box.version[u] = None THEN stored[cycle.epoch][u] ELSE box.version[u]
  <1>1. /\ cycle \in Cycles /\ box \in Boxes /\ cycle.uids \subseteq Uids /\ cycle.gone \subseteq Uids
        /\ box.version \in [Uids -> Nat] /\ stored \in [Epochs -> [Uids -> Nat]]
        /\ cycle.modseq \in Nat /\ cycle.epoch \in Nat /\ box.modseq \in Nat /\ box.epoch \in Nat
        /\ cycle.modseq <= box.modseq /\ cycle.epoch <= box.epoch
    BY DEF ImapInv, ImapTypes, Cycles, Boxes, Epochs
  <1>2. cycle.step = "fetch" /\ cycle.plan \in {"initial", "resume"} /\ cycle.epoch \in Epochs
    BY DEF CommitInitialChunk, ImapInv, ImapTypes
  <1>3. Pending # {} => u \in Pending /\ u \in Uids /\ u \notin cycle.gone
    <2>1. Pending \in SUBSET Nat BY <1>1, ImapAssumption DEF Pending
    <2>2. Pending # {} => Min(Pending) \in Pending BY <2>1, LeastOf
    <2> QED BY <2>2, <1>1 DEF Pending
  <1>4. /\ stored' = IF u = None THEN stored ELSE [stored EXCEPT ![cycle.epoch][u] = v]
        /\ mark' = {MarkAfter(u)}
        /\ cycle' = IF final THEN NoCycle ELSE [cycle EXCEPT !.gone = @ \cup {u}]
        /\ UNCHANGED <<caps, box, excuse>>
    BY <1>1, <1>2 DEF CommitInitialChunk
  <1>5. Pending = {} => final OBVIOUS
  <1>6. u = None => Pending = {} BY <1>3, ImapAssumption DEF None
  <1>7. MarkAfter(u) = IF final
          THEN [epoch |-> cycle.epoch, uid |-> cycle.seen, modseq |-> cycle.modseq, partial |-> None]
          ELSE [epoch |-> cycle.epoch, uid |-> None, modseq |-> None, partial |-> u]
    BY DEF MarkAfter
  <1>8. final <=> \A w \in Pending : w = u OBVIOUS
  <1>n. Pending = {} => u = None OBVIOUS
  <1> HIDE DEF u, final
  <1>9. /\ MarkAfter(u).epoch = cycle.epoch /\ (final => MarkAfter(u).modseq = cycle.modseq)
        /\ (~final => MarkAfter(u).modseq = 0)
    BY <1>7 DEF None
  <1>10. /\ stored' \in [Epochs -> [Uids -> Nat]]
         /\ \A e \in Epochs, w \in Uids :
              stored'[e][w] = IF u # None /\ e = cycle.epoch /\ w = u THEN v ELSE stored[e][w]
    <2>1. CASE u = None BY <1>1, <1>4, <2>1
    <2>2. CASE u # None
      <3> DEFINE r == [stored[cycle.epoch] EXCEPT ![u] = v]
      <3>1. u \in Uids BY <1>3, <1>n, <2>2
      <3>2. v \in Nat BY <3>1, <1>1, <1>2
      <3> HIDE DEF v
      <3>3. r \in [Uids -> Nat] /\ \A w \in Uids : r[w] = IF w = u THEN v ELSE stored[cycle.epoch][w]
        BY <3>1, <3>2, <1>1, <1>2
      <3>4. stored' = [stored EXCEPT ![cycle.epoch] = r] BY <1>1, <1>2, <1>4, <2>2
      <3> HIDE DEF r
      <3>5. stored' \in [Epochs -> [Uids -> Nat]] BY <1>1, <3>3, <3>4
      <3>6. \A e \in Epochs : stored'[e] = IF e = cycle.epoch THEN r ELSE stored[e] BY <1>1, <3>4
      <3> QED BY <2>2, <3>3, <3>5, <3>6
    <2> QED BY <2>1, <2>2
  <1>11. cycle' \in Cycles /\ cycle'.modseq <= box.modseq /\ cycle'.epoch <= box.epoch
         /\ (cycle'.step \notin {"idle", "examine"} => cycle'.epoch \in Epochs)
    <2>1. CASE final BY <1>1, <1>4, <2>1, NoCycleType
    <2>2. CASE ~final
      <3> DEFINE h == cycle.gone \cup {u}
      <3>1. h \in SUBSET Uids BY <1>1, <1>3, <1>5, <2>2
      <3>2. cycle' = [cycle EXCEPT !.gone = h] BY <1>4, <2>2
      <3> HIDE DEF h, Seens
      <3> QED BY <1>1, <1>2, <3>1, <3>2 DEF Cycles
    <2> QED BY <2>1, <2>2
  <1>12. ImapTypes'
    <2>1. \A m \in mark' : m = MarkAfter(u) BY <1>4
    <2>2. MarkAfter(u).modseq \in Nat /\ MarkAfter(u).modseq <= box.modseq BY <1>1, <1>9
    <2>3. MarkAfter(u).epoch \in Nat /\ MarkAfter(u).epoch <= box.epoch BY <1>1, <1>9
    <2> QED BY <1>4, <1>10, <1>11, <2>1, <2>2, <2>3 DEF ImapInv, ImapTypes
  <1>13. ASSUME excuse' = {}
         PROVE  cycle.plan = "initial" /\ cycle.epoch = box.epoch /\ InitialCovers /\ excuse = {}
    BY <1>2, <1>4, <1>13 DEF ImapInv, SkipInv, Unresumed, SameEpoch
  <1>14. ASSUME excuse' = {}, NEW w \in Uids, Settled(w, cycle.modseq)
         PROVE  /\ w \in cycle.uids
                /\ w \in cycle.gone \/ w = u => stored'[cycle.epoch][w] = box.version[w]
    <2>1. w \in cycle.uids /\ (w \in cycle.gone => stored[cycle.epoch][w] = box.version[w])
      BY <1>2, <1>13, <1>14 DEF InitialCovers
    <2>2. CASE w = u
      <3>1. u # None /\ box.version[u] # None BY <2>2, <1>14, ImapAssumption DEF None, Settled
      <3> QED BY <2>1, <2>2, <3>1, <1>2, <1>10
    <2>3. CASE w # u BY <2>1, <2>3, <1>2, <1>10
    <2> QED BY <2>2, <2>3
  <1>15. \A w \in Uids : \A n : Settled(w, n)' <=> Settled(w, n) BY <1>4 DEF Settled
  <1>16. CASE final
    <2>1. cycle' = NoCycle BY <1>4, <1>16
    <2>2. ASSUME excuse' = {} PROVE MarkCovers'
      <3> SUFFICES ASSUME NEW w \in Uids, Settled(w, cycle.modseq)
                   PROVE  stored'[box.epoch][w] = box.version[w]
        BY <1>4, <1>9, <1>15, <1>16 DEF MarkCovers, Covers
      <3>1. w \in cycle.uids BY <1>14, <2>2
      <3>2. w \in cycle.gone \/ w = u BY <3>1, <1>8, <1>16 DEF Pending
      <3> QED BY <3>2, <1>13, <1>14, <2>2
    <2> QED BY <1>12, <2>1, <2>2, EndedInv
  <1>17. CASE ~final
    <2> DEFINE h == cycle.gone \cup {u}
    <2>1. cycle' = [cycle EXCEPT !.gone = h] BY <1>4, <1>17
    <2>2. \A w \in h : w \in cycle.gone \/ w = u OBVIOUS
    <2> HIDE DEF h
    <2>3. cycle'.step = "fetch" /\ cycle'.plan = cycle.plan /\ cycle'.epoch = cycle.epoch
          /\ cycle'.modseq = cycle.modseq /\ cycle'.gone = h /\ cycle'.uids = cycle.uids
      <3> HIDE DEF Seens
      <3> QED BY <1>1, <1>2, <2>1 DEF Cycles
    <2>4. DeltaHasMark' /\ GoneForGood'
      BY <1>2, <2>3 DEF DeltaHasMark, GoneForGood, DeltaPlans
    <2>5. ASSUME excuse' = {} PROVE SkipInv'
      <3>1. MarkCovers' BY <1>4, <1>9, <1>17 DEF MarkCovers, None
      <3>2. FullCovers' /\ DeltaCovers' /\ SameEpoch' /\ Unresumed'
        BY <1>4, <1>13, <2>3, <2>5 DEF FullCovers, DeltaCovers, DeltaPlans, SameEpoch, Unresumed
      <3>3. InitialCovers' BY <1>4, <1>14, <1>15, <2>2, <2>3, <2>5 DEF InitialCovers
      <3> QED BY <3>1, <3>2, <3>3 DEF SkipInv
    <2>6. SkipInv' BY <2>5 DEF SkipInv
    <2> QED BY <1>12, <2>4, <2>6 DEF ImapInv
  <1> QED BY <1>16, <1>17

\* UID FETCH (CHANGEDSINCE ...)
LEMMA ChangesKeep == ImapInv /\ FetchChanges => ImapInv'
  <1> SUFFICES ASSUME ImapInv, FetchChanges PROVE ImapInv' OBVIOUS
  <1>1. cycle.step = "changes" /\ UNCHANGED <<caps, box, stored, mark, excuse>> BY DEF FetchChanges
  <1>2. cycle.plan \in DeltaPlans /\ mark # {} BY <1>1 DEF ImapInv, DeltaHasMark
  <1>3. PICK m \in mark : TRUE BY <1>2
  <1>4. (CHOOSE s \in {n.modseq : n \in mark} : TRUE) = m.modseq /\ mark = {m} BY <1>3, TheMark DEF ImapInv
  <1>5. /\ cycle \in Cycles /\ box \in Boxes /\ m.modseq \in Nat /\ m.modseq <= box.modseq
        /\ box.version \in [Uids -> Nat] /\ box.stamp \in [Uids -> Nat]
        /\ box.modseq \in Nat /\ cycle.modseq \in Nat
        /\ cycle.modseq <= box.modseq /\ cycle.epoch <= box.epoch /\ cycle.epoch \in Epochs
        /\ \A u \in Uids : box.stamp[u] <= box.modseq
    BY <1>1 DEF ImapInv, ImapTypes, Cycles, Boxes
  <1> DEFINE changed == {u \in Present : box.stamp[u] > m.modseq}
             g == [u \in Uids |-> IF u \in changed THEN box.version[u] ELSE None]
             h == {u \in Uids \ Present : box.stamp[u] > m.modseq}
             seen == HighestOf({box.stamp[u] : u \in changed})
             s == IF cycle.plan = "condstore" THEN "sweep" ELSE "commit"
  <1>6. cycle' = [cycle EXCEPT !.got = g, !.gone = h, !.seen = seen, !.step = s]
    BY <1>4 DEF FetchChanges
  <1>7. g \in [Uids -> Nat] /\ h \in SUBSET Uids /\ s \in CycleSteps BY <1>5 DEF None, CycleSteps
  <1>8. seen \in Nat /\ seen <= box.modseq
    <2> DEFINE S == {box.stamp[u] : u \in changed}
    <2>1. changed \subseteq Uids BY DEF Present
    <2> HIDE DEF changed
    <2>2. S \in SUBSET Nat /\ \A x \in S : x <= box.modseq BY <2>1, <1>5
    <2> HIDE DEF S
    <2>3. HighestOf(S) \in Nat /\ HighestOf(S) <= box.modseq BY <2>2, <1>5, HighestOfBounded
    <2> QED BY <2>3 DEF S, changed
  <1>9. \A u \in h : box.version[u] = None /\ box.stamp[u] # None BY <1>5 DEF Present, None
  <1>10. \A u \in Uids : box.version[u] # None =>
            g[u] = IF box.stamp[u] > m.modseq THEN box.version[u] ELSE None
    BY DEF Present
  <1>11. s \in {"sweep", "commit"} OBVIOUS
  <1> HIDE DEF g, h, seen, s
  <1>12. cycle' \in Cycles /\ cycle'.step = s /\ cycle'.plan = cycle.plan /\ cycle'.epoch = cycle.epoch
         /\ cycle'.modseq = cycle.modseq /\ cycle'.gone = h /\ cycle'.got = g /\ cycle'.uids = cycle.uids
         /\ cycle'.seen = seen
    <2>1. seen \in Seens BY <1>8 DEF Seens
    <2> HIDE DEF Seens
    <2> QED BY <1>5, <1>6, <1>7, <2>1 DEF Cycles
  <1>13. DeltaHasMark' BY <1>1, <1>2, <1>8, <1>11, <1>12 DEF DeltaHasMark
  <1>14. GoneForGood' BY <1>1, <1>9, <1>12 DEF GoneForGood
  <1>15. ASSUME excuse' = {}
         PROVE  excuse = {} /\ FullCovers' /\ InitialCovers' /\ DeltaCovers' /\ SameEpoch' /\ Unresumed'
    <2>1. excuse = {} /\ DeltaCovers /\ SameEpoch /\ MarkCovers BY <1>1, <1>15 DEF ImapInv, SkipInv
    <2>2. m.epoch = box.epoch /\ m.modseq # None /\ Covers(m.modseq)
      BY <1>1, <1>2, <2>1 DEF DeltaCovers, MarkCovers
    <2>3. ASSUME NEW u \in Uids, box.version[u] # None
          PROVE  \/ g[u] = box.version[u]
                 \/ /\ g[u] = None /\ stored[box.epoch][u] = box.version[u]
                    /\ cycle.plan = "condstore" => u \in cycle.uids
      <3>1. CASE box.stamp[u] > m.modseq BY <1>10, <2>3, <3>1
      <3>2. CASE ~(box.stamp[u] > m.modseq)
        <4>1. Settled(u, m.modseq) BY <1>5, <2>3, <3>2 DEF Settled
        <4>2. stored[box.epoch][u] = box.version[u] BY <4>1, <2>2 DEF Covers
        <4>3. cycle.plan = "condstore" => u \in cycle.uids BY <4>1, <1>1, <1>2, <2>1 DEF DeltaCovers
        <4> QED BY <4>2, <4>3, <1>10, <2>3, <3>2
      <3> QED BY <3>1, <3>2
    <2>4. DeltaCovers' BY <1>1, <1>4, <1>11, <1>12, <2>2, <2>3 DEF DeltaCovers, Settled
    <2>5. FullCovers' /\ InitialCovers' /\ SameEpoch' /\ Unresumed'
      BY <1>1, <1>2, <1>11, <1>12, <2>1 DEF FullCovers, InitialCovers, SameEpoch, Unresumed, DeltaPlans
    <2> QED BY <2>1, <2>4, <2>5
  <1> QED BY <1>1, <1>5, <1>12, <1>13, <1>14, <1>15, ReadOnlyStep

\* The sweep for missed uids.
LEMMA SweepKeeps == ImapInv /\ SweepMissed => ImapInv'
  <1> SUFFICES ASSUME ImapInv, SweepMissed PROVE ImapInv' OBVIOUS
  <1>1. cycle.step = "sweep" /\ UNCHANGED <<caps, box, stored, mark, excuse>> BY DEF SweepMissed
  <1> DEFINE high == CHOOSE h \in {m.uid : m \in mark} : TRUE
             missed == {u \in cycle.uids : u > high /\ cycle.got[u] = None}
             g == [u \in Uids |-> IF u \in missed THEN box.version[u] ELSE cycle.got[u]]
  <1>2. /\ cycle \in Cycles /\ box \in Boxes /\ box.version \in [Uids -> Nat] /\ cycle.got \in [Uids -> Nat]
        /\ cycle.modseq <= box.modseq /\ cycle.epoch <= box.epoch /\ cycle.epoch \in Epochs
    BY <1>1 DEF ImapInv, ImapTypes, Cycles, Boxes
  <1>3. cycle' = [cycle EXCEPT !.got = g, !.step = "commit"]
    BY <1>2 DEF SweepMissed, Cycles
  <1>4. g \in [Uids -> Nat] BY <1>2
  <1>5. \A u \in Uids : g[u] = cycle.got[u] \/ g[u] = box.version[u] OBVIOUS
  <1> HIDE DEF g
  <1>6. cycle' \in Cycles /\ cycle'.step = "commit" /\ cycle'.plan = cycle.plan /\ cycle'.epoch = cycle.epoch
         /\ cycle'.modseq = cycle.modseq /\ cycle'.gone = cycle.gone /\ cycle'.got = g
         /\ cycle'.uids = cycle.uids /\ cycle'.seen = cycle.seen
    <2>1. "commit" \in CycleSteps BY DEF CycleSteps
    <2> HIDE DEF Seens
    <2> QED BY <1>2, <1>3, <1>4, <2>1 DEF Cycles
  <1>7. DeltaHasMark' /\ GoneForGood' BY <1>1, <1>6 DEF ImapInv, DeltaHasMark, GoneForGood
  <1>8. ASSUME excuse' = {}
        PROVE  excuse = {} /\ FullCovers' /\ InitialCovers' /\ DeltaCovers' /\ SameEpoch' /\ Unresumed'
    <2>1. excuse = {} /\ DeltaCovers /\ SameEpoch BY <1>1, <1>8 DEF ImapInv, SkipInv
    <2>2. DeltaCovers' BY <1>1, <1>5, <1>6, <2>1 DEF DeltaCovers, Settled
    <2>3. FullCovers' /\ InitialCovers' /\ SameEpoch' /\ Unresumed'
      BY <1>1, <1>6, <2>1 DEF FullCovers, InitialCovers, SameEpoch, Unresumed
    <2> QED BY <2>1, <2>2, <2>3
  <1> QED BY <1>1, <1>2, <1>6, <1>7, <1>8, ReadOnlyStep

\* A command fails, the budget cuts the cycle or the process stops.
LEMMA CutKeeps == ImapInv /\ CutCycle => ImapInv'
  <1> SUFFICES ASSUME ImapInv, CutCycle PROVE ImapInv' OBVIOUS
  <1>1. cycle' = NoCycle /\ UNCHANGED <<caps, box, stored, mark, excuse>> BY DEF CutCycle
  <1>2. ImapTypes /\ box.modseq \in Nat /\ box.epoch \in Nat
    BY DEF ImapInv, ImapTypes, Boxes, Epochs
  <1>3. ImapTypes' BY <1>1, <1>2, NoCycleType DEF ImapTypes
  <1>4. excuse' = {} => MarkCovers'
    BY <1>1 DEF ImapInv, SkipInv, MarkCovers, Covers, Settled
  <1> QED BY <1>1, <1>3, <1>4, EndedInv

\* What the transaction of apply_sync_batch_tx leaves in a row.
LEMMA CommittedRow ==
    ASSUME ImapInv, CommitBatch
    PROVE  /\ stored' \in [Epochs -> [Uids -> Nat]]
           /\ \A e \in Epochs, u \in Uids :
                 stored'[e][u] = IF e = cycle.epoch /\ cycle.got[u] # None THEN cycle.got[u]
                                 ELSE IF <<e, u>> \in Removed THEN None ELSE stored[e][u]
  <1>1. stored \in [Epochs -> [Uids -> Nat]] /\ cycle.got \in [Uids -> Nat]
    BY DEF ImapInv, ImapTypes, Cycles
  <1>2. stored' = [e \in Epochs |-> [u \in Uids |->
                    IF e = cycle.epoch /\ u \in Got THEN cycle.got[u]
                    ELSE IF <<e, u>> \in Removed THEN None ELSE stored[e][u]]]
    BY DEF CommitBatch
  <1>3. \A u \in Uids : u \in Got <=> cycle.got[u] # None BY DEF Got
  <1>4. ASSUME NEW e \in Epochs, NEW u \in Uids
        PROVE  (IF e = cycle.epoch /\ u \in Got THEN cycle.got[u]
                ELSE IF <<e, u>> \in Removed THEN None ELSE stored[e][u]) \in Nat
    BY <1>1 DEF None
  <1>5. \A e \in Epochs, u \in Uids :
           stored'[e][u] = IF e = cycle.epoch /\ u \in Got THEN cycle.got[u]
                           ELSE IF <<e, u>> \in Removed THEN None ELSE stored[e][u]
    BY <1>2
  <1>6. stored' \in [Epochs -> [Uids -> Nat]] BY <1>2, <1>4
  <1> QED BY <1>3, <1>5, <1>6

\* The mark a batch commits is one of the modseqs its cycle works towards.
LEMMA CommittedMark ==
    ASSUME ImapInv, CommitBatch
    PROVE  /\ NewMark.epoch = cycle.epoch /\ NewMark.modseq \in Nat /\ NewMark.modseq <= box.modseq
           /\ cycle.plan = "full" => NewMark.modseq = cycle.modseq
           /\ cycle.plan # "full" =>
                 \A m \in mark : NewMark.modseq \in {m.modseq, cycle.seen, cycle.modseq}
           /\ cycle.plan # "full" => cycle.step = "commit" /\ cycle.plan \in DeltaPlans /\ mark # {}
  <1>1. cycle.modseq \in Nat /\ cycle.modseq <= box.modseq /\ box.modseq \in Nat
    BY DEF ImapInv, ImapTypes, Cycles, Boxes
  <1>2. CASE cycle.plan = "full" BY <1>1, <1>2 DEF NewMark
  <1>3. CASE cycle.plan # "full"
    <2>1. cycle.step = "commit" BY <1>3 DEF CommitBatch
    <2>2. cycle.plan \in DeltaPlans /\ mark # {} /\ cycle.seen \in Nat /\ cycle.seen <= box.modseq
      BY <2>1 DEF ImapInv, DeltaHasMark
    <2>3. PICK m \in mark : TRUE BY <2>2
    <2>4. (CHOOSE n \in mark : TRUE) = m /\ mark = {m} BY <2>3, TheMark DEF ImapInv
    <2>5. m.modseq \in Nat /\ m.modseq <= box.modseq BY DEF ImapInv, ImapTypes
    <2> DEFINE S == {m.modseq, cycle.seen, cycle.modseq}
    <2>6. S \in SUBSET Nat /\ S # {} /\ \A x \in S : x <= box.modseq BY <1>1, <2>2, <2>5
    <2>7. NewMark.epoch = cycle.epoch /\ NewMark.modseq = HighestOf(S) BY <1>3, <2>4 DEF NewMark
    <2> HIDE DEF S
    <2>8. HighestOf(S) \in Nat /\ HighestOf(S) <= box.modseq /\ HighestOf(S) \in S
      BY <1>1, <2>6, HighestOfBounded
    <2>9. \A n \in mark : n = m BY <2>4
    <2> QED BY <1>3, <2>1, <2>2, <2>7, <2>8, <2>9 DEF S
  <1> QED BY <1>2, <1>3

\* Nothing settled at the committed mark is removed or left stale.
LEMMA CommitCovers ==
    ASSUME ImapInv, CommitBatch, excuse = {}, NEW u \in Uids, Settled(u, NewMark.modseq)
    PROVE  stored'[box.epoch][u] = box.version[u]
  <1>1. FullCovers /\ DeltaCovers /\ SameEpoch BY DEF ImapInv, SkipInv
  <1>2. cycle.epoch = box.epoch
    BY <1>1 DEF CommitBatch, SameEpoch
  <1>3. box.epoch \in Epochs /\ cycle.gone \subseteq Uids BY DEF ImapInv, ImapTypes, Boxes, Cycles
  <1>4. box.version[u] # None BY DEF Settled
  <1>5. CASE cycle.got[u] = box.version[u] BY <1>2, <1>3, <1>4, <1>5, CommittedRow
  <1>6. CASE cycle.plan = "full"
    <2>1. cycle.step = "fetch" /\ Pending = {}
      BY <1>6 DEF CommitBatch, ImapInv, DeltaHasMark, DeltaPlans
    <2>2. Settled(u, cycle.modseq) BY <1>6, CommittedMark
    <2>3. u \in cycle.uids /\ (u \in cycle.gone => cycle.got[u] = box.version[u])
      BY <1>1, <1>6, <2>1, <2>2 DEF FullCovers
    <2>4. u \in cycle.gone BY <2>1, <2>3 DEF Pending
    <2> QED BY <2>3, <2>4, <1>5
  <1>7. CASE cycle.plan # "full" /\ cycle.got[u] # box.version[u]
    <2>1. PICK m \in mark : TRUE BY <1>7, CommittedMark
    <2>2. cycle.step = "commit" /\ cycle.plan \in DeltaPlans
          /\ NewMark.modseq \in {m.modseq, cycle.seen, cycle.modseq}
      BY <1>7, <2>1, CommittedMark
    <2>3. /\ cycle.got[u] = None /\ stored[box.epoch][u] = box.version[u]
          /\ cycle.plan = "condstore" => u \in cycle.uids
      BY <1>1, <1>7, <2>2 DEF DeltaCovers
    <2>4. <<box.epoch, u>> \notin Told
      <3> SUFFICES ASSUME <<box.epoch, u>> \in Told PROVE FALSE OBVIOUS
      <3>1. cycle.plan = "qresync" /\ u \in cycle.gone BY DEF Told
      <3> QED BY <3>1, <1>4 DEF ImapInv, GoneForGood
    <2>5. <<box.epoch, u>> \notin Inferred
      BY <1>7, <2>2, <2>3 DEF Inferred, DeltaPlans
    <2>6. <<box.epoch, u>> \notin Removed BY <2>4, <2>5 DEF Removed
    <2> QED BY <1>3, <2>3, <2>6, CommittedRow
  <1> QED BY <1>5, <1>6, <1>7

\* The store transaction of a snapshot or a delta.
LEMMA CommitKeeps == ImapInv /\ CommitBatch => ImapInv'
  <1> SUFFICES ASSUME ImapInv, CommitBatch PROVE ImapInv' OBVIOUS
  <1>1. cycle' = NoCycle /\ mark' = {NewMark} /\ UNCHANGED <<caps, box>>
        /\ excuse \subseteq excuse'
    BY DEF CommitBatch
  <1>2. ImapTypes /\ box.modseq \in Nat /\ box.epoch \in Nat /\ cycle.epoch \in Nat /\ cycle.epoch <= box.epoch
    BY DEF ImapInv, ImapTypes, Boxes, Cycles, Epochs
  <1>3. stored' \in [Epochs -> [Uids -> Nat]] BY CommittedRow
  <1>4. NewMark.epoch = cycle.epoch /\ NewMark.modseq \in Nat /\ NewMark.modseq <= box.modseq
    BY CommittedMark
  <1>5. \A m \in mark' : m = NewMark BY <1>1
  <1>6. ImapTypes' BY <1>1, <1>2, <1>3, <1>4, <1>5, NoCycleType DEF ImapTypes
  <1>7. ASSUME excuse' = {} PROVE MarkCovers'
    <2>1. excuse = {} BY <1>1, <1>7
    <2>2. \A u \in Uids : Settled(u, NewMark.modseq) => stored'[box.epoch][u] = box.version[u]
      BY <2>1, CommitCovers
    <2> SUFFICES ASSUME NEW m \in mark', NEW u \in Uids, Settled(u, m.modseq)'
                 PROVE  stored'[box'.epoch][u] = box'.version[u]
      BY DEF MarkCovers, Covers
    <2>4. m.modseq = NewMark.modseq BY <1>5
    <2>5. Settled(u, NewMark.modseq) BY <1>1, <2>4 DEF Settled
    <2> QED BY <1>1, <2>2, <2>5
  <1> QED BY <1>1, <1>6, <1>7, EndedInv

\* The invariant of the pull.
LEMMA ImapInvAlways == ImapSpec => []ImapInv
  <1>1. ImapInit => ImapInv BY ImapInvInit
  <1>2. ImapInv /\ [ImapNext]_imapVars => ImapInv'
    <2> SUFFICES ASSUME ImapInv, [ImapNext]_imapVars PROVE ImapInv' OBVIOUS
    <2>1. ASSUME NEW u \in Uids, BoxDeliver(u) PROVE ImapInv'
      BY <2>1, ChangeKeeps DEF BoxDeliver
    <2>2. ASSUME NEW u \in Uids, BoxFlag(u) PROVE ImapInv'
      <3>1. box.version[u] # None BY <2>2 DEF BoxFlag, None
      <3> QED BY <2>2, <3>1, ChangeKeeps DEF BoxFlag
    <2>3. ASSUME NEW u \in Uids, BoxExpunge(u) PROVE ImapInv'
      <3>1. None \in Nat BY DEF None
      <3> QED BY <2>3, <3>1, ChangeKeeps DEF BoxExpunge
    <2>4. CASE UNCHANGED imapVars
      BY <2>4 DEF imapVars, ImapInv, ImapTypes, DeltaHasMark, GoneForGood, SkipInv, MarkCovers, Covers,
                  Settled, FullCovers, InitialCovers, DeltaCovers, SameEpoch, Unresumed
    <2> QED BY <2>1, <2>2, <2>3, <2>4, RebuildKeeps, PlanKeeps, ExamineKeeps, SearchKeeps, FetchChunkKeeps,
               InitialChunkKeeps, ChangesKeep, SweepKeeps, CommitKeeps, CutKeeps DEF ImapNext
  <1> QED BY <1>1, <1>2, PTL DEF ImapSpec

\* Equal counts and a mark at the mailbox's modseq leave no room for a row
\* that should be gone.
LEMMA CountsDecide ==
    ASSUME ImapTypes, Cardinality(Present) = Cardinality(StoredKeys),
           \A u \in Present : stored[box.epoch][u] = box.version[u]
    PROVE  Exact
  <1>1. box.epoch \in Epochs /\ IsFiniteSet(Uids) BY ImapAssumption DEF ImapTypes, Boxes
  <1> DEFINE There == {<<box.epoch, u>> : u \in Present}
             f == [u \in Present |-> <<box.epoch, u>>]
  <1>2. There \subseteq StoredKeys
    <2> SUFFICES ASSUME NEW u \in Present PROVE <<box.epoch, u>> \in StoredKeys OBVIOUS
    <2>1. u \in Uids /\ stored[box.epoch][u] # None BY DEF Present
    <2> QED BY <1>1, <2>1 DEF StoredKeys
  <1>3. IsFiniteSet(Present) BY <1>1, FS_Subset DEF Present
  <1>4. f \in Bijection(Present, There) BY DEF Bijection, Injection, IsInjective, Surjection
  <1>5. IsFiniteSet(There) /\ Cardinality(There) = Cardinality(Present)
    BY <1>3, <1>4, FS_Bijection DEF ExistsBijection
  <1>6. IsFiniteSet(Epochs \X Uids)
    <2>1. IsFiniteSet(Epochs) BY FS_Interval, ImapAssumption DEF Epochs
    <2> QED BY <2>1, <1>1, FS_Product
  <1>7. IsFiniteSet(StoredKeys) BY <1>6, FS_Subset DEF StoredKeys
  <1>8. There = StoredKeys BY <1>2, <1>5, <1>7, FS_Subset
  <1> SUFFICES ASSUME NEW e \in Epochs, NEW u \in Uids
               PROVE  stored[e][u] = IF e = box.epoch THEN box.version[u] ELSE None
    BY DEF Exact
  <1>9. stored[e][u] # None <=> <<e, u>> \in There BY <1>8 DEF StoredKeys
  <1>10. <<e, u>> \in There <=> e = box.epoch /\ u \in Present OBVIOUS
  <1> QED BY <1>9, <1>10 DEF Present

\* For every mailbox, every set of uids and every interleaving of server
\* changes with the commands of the cycles: when STATUS proves the mailbox
\* unchanged (mailbox_status_proves_unchanged), the store has it as it is.
THEOREM StatusSkipAlwaysSound == ImapSpec => []StatusSkipIsSound
  <1>1. ImapInv => StatusSkipIsSound
    <2> SUFFICES ASSUME ImapInv, StatusProvesUnchanged, excuse = {} PROVE Exact
      BY DEF StatusSkipIsSound
    <2>1. PICK m \in mark : /\ m.epoch = box.epoch /\ m.modseq # None /\ m.modseq = box.modseq
      BY DEF StatusProvesUnchanged
    <2>2. Cardinality(Present) = Cardinality(StoredKeys) BY DEF StatusProvesUnchanged
    <2>3. Covers(m.modseq) BY <2>1 DEF ImapInv, SkipInv, MarkCovers
    <2>4. \A u \in Present : stored[box.epoch][u] = box.version[u]
      BY <2>1, <2>3 DEF Covers, Settled, Present, ImapInv, ImapTypes
    <2> QED BY <2>2, <2>4, CountsDecide DEF ImapInv
  <1> QED BY <1>1, ImapInvAlways, PTL

\* A step that loses a message the mailbox still has is a commit, and what it
\* loses was inferred and passed the floor.
LEMMA LossIsInferred ==
    ASSUME ImapInv, CommitBatch, NEW u \in Present,
           stored[box.epoch][u] # None, stored'[box.epoch][u] = None
    PROVE  <<box.epoch, u>> \in Inferred /\ AbsencePruneAllowed(Cardinality(Inferred))
  <1>1. box.epoch \in Epochs /\ u \in Uids /\ box.version[u] # None
    BY DEF ImapInv, ImapTypes, Boxes, Present
  <1>2. <<box.epoch, u>> \in Removed BY <1>1, CommittedRow
  <1>3. <<box.epoch, u>> \notin Told
    <2> SUFFICES ASSUME <<box.epoch, u>> \in Told PROVE FALSE OBVIOUS
    <2>1. cycle.plan = "qresync" /\ u \in cycle.gone BY DEF Told
    <2> QED BY <2>1, <1>1 DEF ImapInv, GoneForGood
  <1> QED BY <1>2, <1>3 DEF Removed

\* Steps other than a commit lose nothing.
LEMMA OnlyCommitLoses ==
    ASSUME ImapInv, ImapNext, ~CommitBatch, NEW u \in Present
    PROVE  stored[box.epoch][u] # None => stored'[box.epoch][u] # None
  <1>1. u \in Uids /\ box.version[u] # None BY DEF Present
  <1>2. CASE UNCHANGED stored BY <1>2
  <1>3. CASE CommitInitialChunk
    <2> DEFINE w == IF Pending = {} THEN None ELSE Min(Pending)
               v == IF box.version[w] = None THEN stored[cycle.epoch][w] ELSE box.version[w]
    <2>1. stored \in [Epochs -> [Uids -> Nat]] /\ box.epoch \in Epochs BY DEF ImapInv, ImapTypes, Boxes
    <2>2. cycle.epoch \in Epochs BY <1>3 DEF CommitInitialChunk, ImapInv, ImapTypes
    <2>3. stored' = IF w = None THEN stored ELSE [stored EXCEPT ![cycle.epoch][w] = v]
      BY <1>3, <2>1, <2>2 DEF CommitInitialChunk
    <2>4. w = u => v # None BY <1>1
    <2> HIDE DEF v, w
    <2>5. stored'[box.epoch][u] = stored[box.epoch][u] \/ (w = u /\ stored'[box.epoch][u] = v)
      BY <2>1, <2>2, <2>3, <1>1
    <2> QED BY <2>4, <2>5
  <1> QED BY <1>2, <1>3 DEF ImapNext, BoxDeliver, BoxFlag, BoxExpunge, BoxChange, BoxRebuild, PlanMailbox,
             Examine, Search, FetchChunk, FetchChanges, SweepMissed, CutCycle

\* For every mailbox and whatever a UID SEARCH returns: one transaction takes
\* at most one message the mailbox still has, or at most half of what is
\* stored (imap_absence_prune_allowed_tx).
THEOREM NeverMassLoss == ImapSpec => NoMassLoss
  <1> DEFINE lost == {u \in Present : stored[box.epoch][u] # None /\ stored'[box.epoch][u] = None}
             few == Cardinality(lost) <= 1 \/ 2 * Cardinality(lost) <= Cardinality(StoredKeys)
  <1>1. ASSUME ImapInv, [ImapNext]_imapVars PROVE [few]_imapVars
    <2>1. lost \subseteq Uids /\ IsFiniteSet(Uids) BY ImapAssumption DEF Present
    <2>2. IsFiniteSet(lost) /\ Cardinality(lost) \in Nat BY <2>1, FS_Subset, FS_CardinalityType
    <2>3. CASE UNCHANGED imapVars BY <2>3
    <2>4. CASE lost = {}
      <3>1. Cardinality(lost) = 0 BY <2>4, FS_EmptySet
      <3> QED BY <3>1
    <2>5. CASE ~(UNCHANGED imapVars) /\ lost # {}
      <3>1. CommitBatch BY <1>1, <2>5, OnlyCommitLoses
      <3>2. \A u \in lost : <<box.epoch, u>> \in Inferred BY <1>1, <3>1, LossIsInferred
      <3>3. AbsencePruneAllowed(Cardinality(Inferred)) BY <1>1, <2>5, <3>1, LossIsInferred
      <3>4. IsFiniteSet(StoredKeys)
        <4>1. IsFiniteSet(Epochs) BY FS_Interval, ImapAssumption DEF Epochs
        <4>2. IsFiniteSet(Epochs \X Uids) BY <4>1, <2>1, FS_Product
        <4> QED BY <4>2, FS_Subset DEF StoredKeys
      <3>5. Inferred \subseteq StoredKeys BY DEF Inferred
      <3>6. IsFiniteSet(Inferred) BY <3>4, <3>5, FS_Subset
      <3> DEFINE f == [u \in lost |-> <<box.epoch, u>>]
      <3>7. f \in Injection(lost, Inferred) BY <3>2 DEF Injection, IsInjective
      <3>8. Cardinality(lost) <= Cardinality(Inferred)
        BY <3>6, <3>7, FS_Injection DEF ExistsInjection
      <3>9. Cardinality(Inferred) \in Nat /\ Cardinality(StoredKeys) \in Nat
        BY <3>4, <3>6, FS_CardinalityType
      <3>10. StoredKeys # {} BY <2>5, <3>2, <3>5
      <3> HIDE DEF lost
      <3> QED BY <2>2, <3>3, <3>8, <3>9, <3>10 DEF AbsencePruneAllowed
    <2> QED BY <2>3, <2>4, <2>5
  <1> QED BY <1>1, ImapInvAlways, PTL DEF ImapSpec, NoMassLoss

-----------------------------------------------------------------------------
(***************************************************************************)
(* The JMAP pull.  A cursor vouches for the rows of the objects untouched  *)
(* since: a delta works its pages towards that for the state it has come   *)
(* to, and a snapshot for the state it read before its listing, by a       *)
(* listing that either is the server's or is known to be incomplete.       *)
(***************************************************************************)
Pulls == {"idle", "delta", "commit", "state", "query", "get", "reconcile"}
Changes == [id : Objects, kind : {"create", "update", "destroy"}]
Listings == [ids : SUBSET Objects, query : Nat, state : Nat, complete : BOOLEAN]
Fetches == [upsert : [Objects -> Nat], destroyed : SUBSET Objects, at : Nat]

JmapTypes ==
    /\ type \in {"email", "mailbox"} /\ pull \in Pulls /\ doubt \in BOOLEAN
    /\ server \in [Objects -> Nat] /\ local \in [Objects -> Nat] /\ journal \in Seq(Changes)
    /\ listing \in Listings /\ fetched \in Fetches
    /\ \A c, d \in cursor : c = d
    /\ \A c \in cursor : c \in Nat /\ c <= Len(journal)
    /\ fetched.at <= Len(journal) /\ listing.state <= Len(journal) /\ listing.query <= QueryState

\* No change of o since state n; o has been on the server; a cursor vouches for o.
Untouched(o, n) == \A i \in DOMAIN journal : i > n => journal[i].id # o
Named(o) == o \in OldObjects \/ \E i \in DOMAIN journal : journal[i].id = o
Wanted(o) == server[o] # Gone \/ o \in OldObjects

\* The journal tells what is on the server, and ids are not used again.
JournalTrue ==
    /\ \A i \in DOMAIN journal : journal[i].kind = "destroy" => server[journal[i].id] = Gone
    /\ \A i \in DOMAIN journal : journal[i].kind # "destroy" /\ Untouched(journal[i].id, i) =>
                                     server[journal[i].id] # Gone
    /\ \A i \in DOMAIN journal : journal[i].kind = "create" => journal[i].id \notin OldObjects
    /\ \A o \in Objects : server[o] # Gone \/ local[o] # Gone \/ fetched.upsert[o] # Gone => Named(o)

\* What a delta was told to remove is gone for good.
ToldIsGone == pull \in {"delta", "commit"} =>
                  \A o \in fetched.destroyed : server[o] = Gone /\ Named(o)

CursorHolds ==
    \A c \in cursor, o \in Objects : Untouched(o, c) /\ Wanted(o) => local[o] = server[o]

DeltaHolds ==
    pull \in {"delta", "commit"} =>
        \A o \in Objects : Untouched(o, fetched.at) /\ Wanted(o) =>
            o \in Crossed(fetched) \/ BatchApplied(local, fetched)[o] = server[o]

\* A listing that counts as complete has every stored object the server has.
ListingHolds ==
    /\ pull = "query" /\ type = "email" /\ listing.query = QueryState =>
           listing.ids \subseteq Live(server)
    /\ pull = "query" /\ type = "mailbox" => listing.ids = {}
    /\ pull \in {"state", "query"} => fetched.destroyed = {}
    /\ pull \in {"get", "reconcile"} /\ listing.complete =>
           \A o \in Objects : server[o] # Gone /\ local[o] # Gone => o \in listing.ids

\* What a snapshot of the emails has of the promise of the cursor it will commit.
SnapshotHolds ==
    /\ pull \in {"query", "get", "reconcile"} =>
           \A o \in listing.ids : server[o] = Gone => ~Untouched(o, listing.state)
    /\ pull \in {"get", "reconcile"} =>
           /\ listing.complete =>
                  \A o \in Objects : server[o] # Gone /\ Untouched(o, listing.state) => o \in listing.ids
           /\ \A o \in fetched.destroyed :
                  server[o] # Gone /\ Untouched(o, listing.state) => local[o] = server[o]
    /\ pull = "reconcile" => listing.ids \subseteq fetched.destroyed

JmapInv ==
    /\ JmapTypes /\ JournalTrue /\ ToldIsGone /\ ListingHolds
    /\ type = "email" => /\ SnapshotHolds
                         /\ ~doubt => CursorHolds /\ DeltaHolds

\* The row a batch leaves.
LEMMA BatchRow ==
    ASSUME NEW copy \in [Objects -> Nat], NEW f \in Fetches
    PROVE  /\ BatchApplied(copy, f) \in [Objects -> Nat]
           /\ \A o \in Objects :
                 BatchApplied(copy, f)[o] = IF f.upsert[o] # Gone THEN f.upsert[o]
                                            ELSE IF o \in f.destroyed THEN Gone ELSE copy[o]
  <1>1. f.upsert \in [Objects -> Nat] BY DEF Fetches
  <1>2. ASSUME NEW o \in Objects
        PROVE  BatchApplied(copy, f)[o] = IF f.upsert[o] # Gone THEN f.upsert[o]
                                          ELSE IF o \in f.destroyed THEN Gone ELSE copy[o]
    BY DEF BatchApplied
  <1>3. DOMAIN BatchApplied(copy, f) = Objects /\ BatchApplied(copy, f) = [o \in Objects |-> BatchApplied(copy, f)[o]]
    BY DEF BatchApplied
  <1>4. \A o \in Objects : BatchApplied(copy, f)[o] \in Nat BY <1>1, <1>2 DEF Gone
  <1> QED BY <1>2, <1>3, <1>4

\* A fresh fetch and a fresh listing.
LEMMA NothingFetched ==
    /\ NoFetch \in Fetches /\ NoListing \in Listings
    /\ NoFetch.destroyed = {} /\ NoFetch.at = 0 /\ \A o \in Objects : NoFetch.upsert[o] = Gone
    /\ NoListing.ids = {} /\ NoListing.query = 0 /\ NoListing.state = 0 /\ NoListing.complete = FALSE
  <1> DEFINE none == [o \in Objects |-> Gone]
  <1>1. none \in [Objects -> Nat] /\ \A o \in Objects : none[o] = Gone BY DEF Gone
  <1>2. NoFetch = [upsert |-> none, destroyed |-> {}, at |-> 0] BY DEF NoFetch
  <1> HIDE DEF none
  <1>3. NoFetch \in Fetches BY <1>1, <1>2 DEF Fetches
  <1>4. NoListing \in Listings /\ NoListing.ids = {} /\ NoListing.query = 0 /\ NoListing.state = 0
        /\ NoListing.complete = FALSE
    BY DEF NoListing, Listings
  <1> QED BY <1>1, <1>2, <1>3, <1>4

\* The object and query states are numbers.
LEMMA StatesAreNumbers ==
    ASSUME journal \in Seq(Changes)
    PROVE  /\ Len(journal) \in Nat /\ DOMAIN journal = 1 .. Len(journal)
           /\ QueryState \in Nat
           /\ IsFiniteSet({i \in DOMAIN journal : journal[i].kind # "update"})
           /\ \A i \in DOMAIN journal : journal[i] \in Changes /\ journal[i].id \in Objects
  <1>1. Len(journal) \in Nat /\ DOMAIN journal = 1 .. Len(journal)
        /\ \A i \in DOMAIN journal : journal[i] \in Changes
    OBVIOUS
  <1>2. IsFiniteSet(DOMAIN journal) BY <1>1, FS_Interval
  <1>3. IsFiniteSet({i \in DOMAIN journal : journal[i].kind # "update"}) BY <1>2, FS_Subset
  <1>4. QueryState \in Nat BY <1>3, FS_CardinalityType DEF QueryState
  <1> QED BY <1>1, <1>3, <1>4 DEF Changes

\* What one change on the server does to the journal.
LEMMA JournalGrows ==
    ASSUME JmapTypes, NEW o \in Objects, NEW kind \in {"create", "update", "destroy"}, NEW v \in Nat,
           ServerChange(o, kind, v)
    PROVE  /\ server' \in [Objects -> Nat] /\ server'[o] = v
           /\ \A p \in Objects : p # o => server'[p] = server[p]
           /\ journal' \in Seq(Changes) /\ Len(journal') = Len(journal) + 1
           /\ DOMAIN journal' = DOMAIN journal \cup {Len(journal) + 1}
           /\ journal'[Len(journal) + 1].id = o /\ journal'[Len(journal) + 1].kind = kind
           /\ \A i \in DOMAIN journal : journal'[i] = journal[i] /\ i <= Len(journal) /\ i \in Nat
           /\ \A p \in Objects, n \in Nat :
                 n <= Len(journal) => (Untouched(p, n)' <=> Untouched(p, n) /\ p # o)
           /\ \A p \in Objects : Named(p)' <=> Named(p) \/ p = o
           /\ QueryState' = IF kind = "update" THEN QueryState ELSE QueryState + 1
  <1>1. journal \in Seq(Changes) /\ server \in [Objects -> Nat] BY DEF JmapTypes
  <1> DEFINE c == [id |-> o, kind |-> kind]
             n1 == Len(journal) + 1
  <1>2. c \in Changes /\ c.id = o /\ c.kind = kind BY DEF Changes
  <1>3. journal' = Append(journal, c) /\ server' = [server EXCEPT ![o] = v] BY DEF ServerChange
  <1>4. Len(journal) \in Nat /\ DOMAIN journal = 1 .. Len(journal) BY <1>1, StatesAreNumbers
  <1> HIDE DEF c
  <1>5. /\ journal' \in Seq(Changes) /\ Len(journal') = n1 /\ journal'[n1] = c
        /\ DOMAIN journal' = 1 .. n1
        /\ \A i \in DOMAIN journal : journal'[i] = journal[i]
    BY <1>1, <1>2, <1>3, <1>4
  <1>6. DOMAIN journal' = DOMAIN journal \cup {n1} /\ \A i \in DOMAIN journal : i <= Len(journal) /\ i \in Nat
    BY <1>4, <1>5
  <1>7. server' \in [Objects -> Nat] /\ server'[o] = v /\ \A p \in Objects : p # o => server'[p] = server[p]
    BY <1>1, <1>3
  <1>8. journal'[n1].id = o /\ journal'[n1].kind = kind BY <1>2, <1>5
  <1>9. ASSUME NEW p \in Objects, NEW n \in Nat, n <= Len(journal)
        PROVE  Untouched(p, n)' <=> Untouched(p, n) /\ p # o
    <2>1. n1 > n BY <1>4, <1>9
    <2> HIDE DEF n1
    <2> QED BY <1>5, <1>6, <1>8, <2>1 DEF Untouched
  <1>10. ASSUME NEW p \in Objects PROVE Named(p)' <=> Named(p) \/ p = o
    <2> HIDE DEF n1
    <2> QED BY <1>5, <1>6, <1>8 DEF Named
  <1>11. QueryState' = IF kind = "update" THEN QueryState ELSE QueryState + 1
    <2> DEFINE S == {i \in DOMAIN journal : journal[i].kind # "update"}
               T == {i \in DOMAIN journal' : journal'[i].kind # "update"}
    <2>1. IsFiniteSet(S) BY <1>1, StatesAreNumbers
    <2>2. n1 \notin S BY <1>4
    <2>3. CASE kind = "update"
      <3> HIDE DEF n1
      <3>1. T = S BY <1>5, <1>6, <1>8, <2>3
      <3> QED BY <2>3, <3>1 DEF QueryState
    <2>4. CASE kind # "update"
      <3> HIDE DEF n1
      <3>1. T = S \cup {n1} BY <1>5, <1>6, <1>8, <2>4
      <3>2. Cardinality(T) = Cardinality(S) + 1 BY <2>1, <2>2, <3>1, FS_AddElement
      <3> QED BY <2>4, <3>2 DEF QueryState
    <2> QED BY <2>3, <2>4
  <1> QED BY <1>5, <1>6, <1>7, <1>8, <1>9, <1>10, <1>11

\* The invariant holds of a new and of a synced store.
LEMMA JmapInvInit == JmapInit => JmapInv
  <1> SUFFICES ASSUME JmapInit PROVE JmapInv OBVIOUS
  <1>1. server \in [Objects -> Nat] /\ local \in [Objects -> Nat]
        /\ \A o \in Objects : (server[o] # Gone <=> o \in OldObjects) /\ (local[o] # Gone => o \in OldObjects)
    BY DEF JmapInit, Gone
  <1>2. journal = <<>> /\ journal \in Seq(Changes) /\ Len(journal) = 0 /\ DOMAIN journal = {}
    BY DEF JmapInit
  <1>3. QueryState \in Nat BY <1>2, StatesAreNumbers
  <1>4. cursor \in {{}, {0}} /\ pull = "idle" /\ listing = NoListing /\ fetched = NoFetch /\ doubt = FALSE
        /\ type \in {"email", "mailbox"}
    BY DEF JmapInit
  <1>5. JmapTypes
    <2>1. fetched.at <= Len(journal) /\ listing.state <= Len(journal) /\ listing.query <= QueryState
      BY <1>2, <1>3, <1>4, NothingFetched
    <2>2. \A c \in cursor : c \in Nat /\ c <= Len(journal) BY <1>2, <1>4
    <2>3. \A c, d \in cursor : c = d BY <1>4
    <2>4. doubt \in BOOLEAN BY <1>4
    <2>5. pull \in Pulls /\ listing \in Listings /\ fetched \in Fetches BY <1>4, NothingFetched DEF Pulls
    <2> QED BY <1>1, <1>2, <1>4, <2>1, <2>2, <2>3, <2>4, <2>5 DEF JmapTypes
  <1>6. JournalTrue BY <1>1, <1>2, <1>4, NothingFetched DEF JournalTrue, Named
  <1>7. ToldIsGone /\ ListingHolds /\ SnapshotHolds /\ DeltaHolds
    BY <1>4 DEF ToldIsGone, ListingHolds, SnapshotHolds, DeltaHolds
  <1>8. CursorHolds BY DEF JmapInit, CursorHolds
  <1> QED BY <1>5, <1>6, <1>7, <1>8 DEF JmapInv

\* Any change on the server.
LEMMA ServerChangeKeeps ==
    ASSUME JmapInv, NEW o \in Objects, NEW kind \in {"create", "update", "destroy"}, NEW v \in Nat,
           ServerChange(o, kind, v), v = Gone <=> kind = "destroy",
           IF kind = "create" THEN ~Named(o) ELSE server[o] # Gone
    PROVE  JmapInv'
  <1> DEFINE n1 == Len(journal) + 1
  <1>1. /\ server' \in [Objects -> Nat] /\ server'[o] = v
        /\ \A p \in Objects : p # o => server'[p] = server[p]
        /\ journal' \in Seq(Changes) /\ Len(journal') = n1
        /\ DOMAIN journal' = DOMAIN journal \cup {n1}
        /\ journal'[n1].id = o /\ journal'[n1].kind = kind
        /\ \A i \in DOMAIN journal : journal'[i] = journal[i] /\ i <= Len(journal) /\ i \in Nat
        /\ \A p \in Objects, n \in Nat :
              n <= Len(journal) => (Untouched(p, n)' <=> Untouched(p, n) /\ p # o)
        /\ \A p \in Objects : Named(p)' <=> Named(p) \/ p = o
        /\ QueryState' = IF kind = "update" THEN QueryState ELSE QueryState + 1
    BY JournalGrows DEF JmapInv
  <1>2. /\ JmapTypes /\ JournalTrue /\ ToldIsGone /\ ListingHolds
        /\ (type = "email" => SnapshotHolds) /\ (type = "email" /\ ~doubt => CursorHolds /\ DeltaHolds)
    BY DEF JmapInv
  <1>3. UNCHANGED <<type, local, cursor, pull, listing, fetched, doubt>> BY DEF ServerChange
  <1>4. Len(journal) \in Nat /\ QueryState \in Nat /\ \A i \in DOMAIN journal : journal[i].id \in Objects
    BY <1>2, StatesAreNumbers DEF JmapTypes
  <1>5. /\ listing \in Listings /\ fetched \in Fetches /\ listing.ids \subseteq Objects /\ listing.query \in Nat
        /\ fetched.destroyed \subseteq Objects /\ fetched.at \in Nat /\ fetched.at <= Len(journal)
        /\ listing.query <= QueryState /\ local \in [Objects -> Nat]
        /\ listing.state \in Nat /\ listing.state <= Len(journal)
    BY <1>2 DEF JmapTypes, Listings, Fetches
  <1>6. JmapTypes' BY <1>1, <1>2, <1>3, <1>4, <1>5 DEF JmapTypes
  <1>7. JournalTrue'
    <2>1. \A i \in DOMAIN journal' : journal'[i].kind = "destroy" => server'[journal'[i].id] = Gone
      <3> TAKE i \in DOMAIN journal'
      <3> HAVE journal'[i].kind = "destroy"
      <3>1. CASE i = n1 BY <1>1, <3>1
      <3>2. CASE i \in DOMAIN journal
        <4>1. server[journal[i].id] = Gone /\ Named(journal[i].id) BY <1>1, <1>2, <3>2 DEF JournalTrue, Named
        <4>2. journal[i].id # o BY <4>1
        <4> QED BY <4>1, <4>2, <1>1, <1>4, <3>2
      <3> QED BY <1>1, <3>1, <3>2
    <2>2. ASSUME NEW i \in DOMAIN journal', journal'[i].kind # "destroy",
                 \A k \in DOMAIN journal' : k > i => journal'[k].id # journal'[i].id
          PROVE  server'[journal'[i].id] # Gone
      <3>1. CASE i = n1 BY <1>1, <2>2, <3>1
      <3>2. CASE i \in DOMAIN journal
        <4>1. i \in Nat /\ i <= Len(journal) /\ journal'[i] = journal[i] /\ journal[i].id \in Objects
          BY <1>1, <1>4, <3>2
        <4>2. n1 > i BY <4>1, <1>4
        <4>3. journal[i].id # o BY <1>1, <2>2, <4>1, <4>2
        <4>4. \A k \in DOMAIN journal : k > i => journal[k].id # journal[i].id BY <1>1, <2>2, <4>1
        <4> QED BY <4>1, <4>3, <4>4, <1>1, <1>2, <2>2, <3>2 DEF JournalTrue, Untouched
      <3> QED BY <1>1, <3>1, <3>2
    <2>3. \A i \in DOMAIN journal' : journal'[i].kind = "create" => journal'[i].id \notin OldObjects
      BY <1>1, <1>2 DEF JournalTrue, Named
    <2>4. \A p \in Objects : server'[p] # Gone \/ local[p] # Gone \/ fetched.upsert[p] # Gone => Named(p)'
      BY <1>1, <1>2 DEF JournalTrue
    <2>5. \A i \in DOMAIN journal' : Untouched(journal[i].id, i)' <=>
              (\A k \in DOMAIN journal' : k > i => journal'[k].id # journal'[i].id)
      BY DEF Untouched
    <2> QED BY <1>3, <2>1, <2>2, <2>3, <2>4, <2>5 DEF JournalTrue
  <1>8. ToldIsGone' BY <1>1, <1>2, <1>3, <1>5 DEF ToldIsGone
  <1>9. ASSUME NEW p \in Objects
        PROVE  server'[p] # Gone => p = o \/ (server[p] # Gone /\ server'[p] = server[p])
    BY <1>1
  <1>10. ListingHolds'
    <2>1. ASSUME pull = "query", type = "email", listing.query = QueryState'
          PROVE  listing.ids \subseteq Live(server')
      <3>1. kind = "update" /\ listing.query = QueryState BY <1>1, <1>4, <1>5, <2>1
      <3>2. listing.ids \subseteq Live(server) BY <1>2, <2>1, <3>1 DEF ListingHolds
      <3> QED BY <1>1, <3>1, <3>2 DEF Live
    <2>2. ASSUME pull \in {"get", "reconcile"}, listing.complete, NEW p \in Objects, server'[p] # Gone, local[p] # Gone
          PROVE  p \in listing.ids
      <3>1. Named(p) BY <1>2, <2>2 DEF JournalTrue
      <3>2. server[p] # Gone BY <3>1, <1>1, <2>2
      <3> QED BY <3>2, <1>2, <2>2 DEF ListingHolds
    <2>3. Live(server)' = Live(server') BY DEF Live
    <2>4. /\ (pull = "query" /\ type = "mailbox" => listing.ids = {})
          /\ (pull \in {"state", "query"} => fetched.destroyed = {})
      BY <1>2 DEF ListingHolds
    <2> QED BY <1>3, <2>1, <2>2, <2>3, <2>4 DEF ListingHolds
  <1>11. ASSUME type = "email" PROVE SnapshotHolds'
    <2>1. PICK n \in Nat : n = listing.state BY <1>5
    <2>2. \A p \in Objects : Untouched(p, listing.state)' <=> Untouched(p, n)' BY <1>3, <2>1 DEF Untouched
    <2>3. \A p \in Objects : Untouched(p, listing.state)' <=> Untouched(p, n) /\ p # o
      BY <1>1, <1>5, <2>1, <2>2
    <2>4. SnapshotHolds BY <1>2, <1>11
    <2>5. \A p \in Objects : p # o => server'[p] = server[p] BY <1>1
    <2> QED BY <1>3, <1>5, <2>1, <2>3, <2>4, <2>5 DEF SnapshotHolds
  <1>12. ASSUME type = "email", ~doubt PROVE CursorHolds'
    <2>1. \A c \in cursor : c \in Nat /\ c <= Len(journal) BY <1>2 DEF JmapTypes
    <2> SUFFICES ASSUME NEW c \in cursor, NEW p \in Objects, Untouched(p, c)', Wanted(p)'
                 PROVE  local[p] = server'[p]
      BY <1>3 DEF CursorHolds
    <2>2. Untouched(p, c) /\ p # o BY <1>1, <2>1
    <2>3. Wanted(p) /\ server'[p] = server[p] BY <1>1, <2>2 DEF Wanted
    <2> QED BY <1>2, <1>12, <2>2, <2>3 DEF CursorHolds
  <1>13. ASSUME type = "email", ~doubt PROVE DeltaHolds'
    <2> SUFFICES ASSUME pull \in {"delta", "commit"}, NEW p \in Objects, Untouched(p, fetched.at)', Wanted(p)'
                 PROVE  p \in Crossed(fetched) \/ BatchApplied(local, fetched)[p] = server'[p]
      BY <1>3 DEF DeltaHolds, Crossed, BatchApplied
    <2>1. PICK a \in Nat : a = fetched.at BY <1>5
    <2>2. Untouched(p, fetched.at) /\ p # o
      <3>1. Untouched(p, a)' BY <1>3, <2>1 DEF Untouched
      <3> QED BY <1>1, <1>5, <2>1, <3>1
    <2>3. Wanted(p) /\ server'[p] = server[p] BY <1>1, <2>2 DEF Wanted
    <2> QED BY <1>2, <1>13, <2>2, <2>3 DEF DeltaHolds
  <1> QED BY <1>3, <1>6, <1>7, <1>8, <1>10, <1>11, <1>12, <1>13 DEF JmapInv

\* A step that leaves the server alone keeps the journal true.
LEMMA JournalKept ==
    ASSUME JmapInv, UNCHANGED <<server, journal>>,
           \A o \in Objects : local'[o] # Gone \/ fetched'.upsert[o] # Gone => Named(o)
    PROVE  JournalTrue'
  <1>1. JournalTrue BY DEF JmapInv
  <1>2. \A o \in Objects : server'[o] # Gone => Named(o) BY <1>1 DEF JournalTrue
  <1>3. \A o \in Objects : Named(o)' <=> Named(o) BY DEF Named
  <1>4. \A o \in Objects : server'[o] # Gone \/ local'[o] # Gone \/ fetched'.upsert[o] # Gone => Named(o)'
    BY <1>2, <1>3
  <1> QED BY <1>1, <1>4 DEF JournalTrue, Untouched

\* A row that is kept or read from the server keeps the promise of the cursor.
LEMMA CursorKept ==
    ASSUME CursorHolds, UNCHANGED <<server, journal, cursor>>,
           \A o \in Objects : local'[o] = local[o] \/ local'[o] = server[o]
    PROVE  CursorHolds'
  BY DEF CursorHolds, Untouched, Wanted

\* What the steps between the cycles' ends leave as it is.
LEMMA JmapFacts ==
    ASSUME JmapInv
    PROVE  /\ JmapTypes /\ JournalTrue /\ ToldIsGone /\ ListingHolds
           /\ (type = "email" => SnapshotHolds) /\ (type = "email" /\ ~doubt => CursorHolds /\ DeltaHolds)
           /\ server \in [Objects -> Nat] /\ local \in [Objects -> Nat] /\ journal \in Seq(Changes)
           /\ Len(journal) \in Nat /\ DOMAIN journal = 1 .. Len(journal) /\ QueryState \in Nat
           /\ listing \in Listings /\ listing.ids \subseteq Objects /\ listing.query \in Nat
           /\ listing.state \in Nat /\ listing.state <= Len(journal) /\ listing.query <= QueryState
           /\ fetched \in Fetches /\ fetched.destroyed \subseteq Objects
           /\ fetched.upsert \in [Objects -> Nat] /\ fetched.at \in Nat /\ fetched.at <= Len(journal)
           /\ \A c \in cursor : c \in Nat /\ c <= Len(journal)
  <1>1. /\ JmapTypes /\ JournalTrue /\ ToldIsGone /\ ListingHolds
        /\ (type = "email" => SnapshotHolds) /\ (type = "email" /\ ~doubt => CursorHolds /\ DeltaHolds)
    BY DEF JmapInv
  <1>2. journal \in Seq(Changes) BY <1>1 DEF JmapTypes
  <1>3. Len(journal) \in Nat /\ DOMAIN journal = 1 .. Len(journal) /\ QueryState \in Nat
    BY <1>2, StatesAreNumbers
  <1> QED BY <1>1, <1>2, <1>3 DEF JmapTypes, Listings, Fetches

\* Back to idle with the store, the cursor and the doubt they had, or with what
\* a commit made of them.
LEMMA BackToIdle ==
    ASSUME JmapInv, UNCHANGED <<type, server, journal>>, pull' = "idle", doubt' \in BOOLEAN,
           fetched' = NoFetch, listing' \in Listings,
           listing'.query <= QueryState, listing'.state <= Len(journal),
           local' \in [Objects -> Nat], \A o \in Objects : local'[o] # Gone => Named(o),
           \A c, d \in cursor' : c = d, \A c \in cursor' : c \in Nat /\ c <= Len(journal),
           type = "email" /\ ~doubt' => CursorHolds'
    PROVE  JmapInv'
  <1>1. JmapTypes'
    <2>1. fetched' \in Fetches /\ fetched'.at <= Len(journal) BY NothingFetched, JmapFacts
    <2>2. QueryState' = QueryState BY DEF QueryState
    <2>3. pull' \in Pulls BY DEF Pulls
    <2> QED BY <2>1, <2>2, <2>3, JmapFacts DEF JmapTypes
  <1>2. JournalTrue' BY JournalKept, NothingFetched
  <1>3. ToldIsGone' /\ ListingHolds' /\ SnapshotHolds' /\ DeltaHolds'
    BY DEF ToldIsGone, ListingHolds, SnapshotHolds, DeltaHolds
  <1> QED BY <1>1, <1>2, <1>3 DEF JmapInv

\* sync_account_streamed, and its turn to the snapshot.
LEMMA StartKeeps == ASSUME JmapInv, NEW full \in BOOLEAN, StartPull(full) PROVE JmapInv'
  <1> USE JmapFacts
  <1>1. UNCHANGED <<type, server, journal, local, cursor, doubt>> /\ listing' = NoListing BY DEF StartPull
  <1>2. \/ pull' = "state" /\ fetched' = NoFetch
        \/ \E c \in cursor : pull' = "delta" /\ fetched' = [NoFetch EXCEPT !.at = c]
    <2>1. CASE full \/ cursor = {} BY <2>1 DEF StartPull
    <2>2. CASE ~(full \/ cursor = {})
      <3>1. (CHOOSE c \in cursor : TRUE) \in cursor BY <2>2
      <3> QED BY <2>2, <3>1 DEF StartPull
    <2> QED BY <2>1, <2>2
  <1>3. /\ fetched' \in Fetches /\ fetched'.destroyed = {} /\ fetched'.at <= Len(journal)
        /\ \A o \in Objects : fetched'.upsert[o] = Gone
        /\ pull' \in {"state", "delta"} /\ (pull' = "delta" => fetched'.at \in cursor)
    <2>1. CASE pull' = "state" /\ fetched' = NoFetch BY <2>1, NothingFetched
    <2>2. ASSUME NEW c \in cursor, pull' = "delta", fetched' = [NoFetch EXCEPT !.at = c]
          PROVE  fetched' \in Fetches /\ fetched'.destroyed = {} /\ fetched'.at = c
                 /\ fetched'.upsert = NoFetch.upsert
      BY <2>2, NothingFetched DEF Fetches
    <2> QED BY <1>2, <2>1, <2>2, NothingFetched
  <1>4. JmapTypes'
    <2>1. QueryState' = QueryState BY <1>1 DEF QueryState
    <2>2. pull' \in Pulls /\ doubt' \in BOOLEAN BY <1>1, <1>3 DEF Pulls, JmapTypes
    <2>3. listing' \in Listings /\ listing'.query <= QueryState' /\ listing'.state <= Len(journal)
      BY <1>1, <2>1, NothingFetched
    <2> QED BY <1>1, <1>3, <2>1, <2>2, <2>3 DEF JmapTypes
  <1>5. JournalTrue' BY <1>1, <1>3, JournalKept DEF JournalTrue
  <1>6. ToldIsGone' /\ ListingHolds' /\ SnapshotHolds'
    BY <1>3 DEF ToldIsGone, ListingHolds, SnapshotHolds
  <1>7. ASSUME type = "email", ~doubt PROVE CursorHolds' /\ DeltaHolds'
    <2>1. CursorHolds BY <1>7
    <2>2. CursorHolds' BY <1>1, <2>1 DEF CursorHolds, Untouched, Wanted
    <2>3. DeltaHolds'
      <3> SUFFICES ASSUME pull' = "delta", NEW o \in Objects, Untouched(o, fetched.at)', Wanted(o)'
                   PROVE  BatchApplied(local', fetched')[o] = server'[o]
        BY <1>3 DEF DeltaHolds, BatchApplied
      <3>1. BatchApplied(local', fetched')[o] = local[o]
        <4>1. PICK f \in Fetches : f = fetched' BY <1>3
        <4>2. PICK copy \in [Objects -> Nat] : copy = local' BY <1>1
        <4>3. f.upsert[o] = Gone /\ f.destroyed = {} BY <1>3, <4>1
        <4>4. BatchApplied(copy, f)[o] = IF f.upsert[o] # Gone THEN f.upsert[o]
                                         ELSE IF o \in f.destroyed THEN Gone ELSE copy[o]
          BY BatchRow
        <4> QED BY <1>1, <4>1, <4>2, <4>3, <4>4
      <3>2. Untouched(o, fetched'.at) /\ Wanted(o) BY <1>1 DEF Untouched, Wanted
      <3> QED BY <1>1, <1>3, <2>1, <3>1, <3>2 DEF CursorHolds
    <2> QED BY <2>2, <2>3
  <1> QED BY <1>1, <1>4, <1>5, <1>6, <1>7 DEF JmapInv

\* cannotCalculateChanges.
LEMMA CannotKeeps == JmapInv /\ CannotCalculateChanges => JmapInv'
  <1> SUFFICES ASSUME JmapInv, CannotCalculateChanges PROVE JmapInv' OBVIOUS
  <1> USE JmapFacts
  <1>1. UNCHANGED <<type, server, journal, local, cursor, doubt, listing>> /\ pull' = "state" /\ fetched' = NoFetch
    BY DEF CannotCalculateChanges
  <1>2. JmapTypes'
    <2>1. QueryState' = QueryState BY <1>1 DEF QueryState
    <2>2. pull' \in Pulls /\ doubt' \in BOOLEAN BY <1>1 DEF Pulls, JmapTypes
    <2>3. fetched' \in Fetches /\ fetched'.at <= Len(journal) BY <1>1, NothingFetched
    <2> QED BY <1>1, <2>1, <2>2, <2>3 DEF JmapTypes
  <1>3. JournalTrue' BY <1>1, JournalKept, NothingFetched DEF JournalTrue
  <1>4. ToldIsGone' /\ ListingHolds' /\ SnapshotHolds' /\ DeltaHolds'
    BY <1>1, NothingFetched DEF ToldIsGone, ListingHolds, SnapshotHolds, DeltaHolds
  <1>5. CursorHolds => CursorHolds' BY <1>1, CursorKept
  <1> QED BY <1>1, <1>2, <1>3, <1>4, <1>5 DEF JmapInv

\* A request fails, the budget cuts the cycle, or the process stops.
LEMMA FailKeeps == JmapInv /\ FailPull => JmapInv'
  <1> SUFFICES ASSUME JmapInv, FailPull PROVE JmapInv' OBVIOUS
  <1> USE JmapFacts
  <1>1. /\ UNCHANGED <<type, server, journal, local, cursor, doubt>> /\ pull' = "idle"
        /\ fetched' = NoFetch /\ listing' = NoListing
    BY DEF FailPull
  <1>2. CursorHolds => CursorHolds' BY <1>1, CursorKept
  <1>3. listing' \in Listings /\ listing'.query <= QueryState /\ listing'.state <= Len(journal)
    BY <1>1, NothingFetched
  <1>4. doubt' \in BOOLEAN BY <1>1 DEF JmapTypes
  <1>5. \A o \in Objects : local'[o] # Gone => Named(o) BY <1>1 DEF JournalTrue
  <1>6. \A c, d \in cursor' : c = d BY <1>1 DEF JmapTypes
  <1> QED BY <1>1, <1>2, <1>3, <1>4, <1>5, <1>6, BackToIdle

\* Foo/get into what was fetched.
LEMMA Fetched ==
    ASSUME JmapInv, NEW f \in Fetches, NEW ids \in SUBSET Objects
    PROVE  /\ GetInto(f, ids) \in Fetches
           /\ GetInto(f, ids).destroyed = f.destroyed /\ GetInto(f, ids).at = f.at
           /\ \A o \in Objects : GetInto(f, ids).upsert[o] =
                 IF o \in ids /\ server[o] # Gone THEN server[o] ELSE f.upsert[o]
  <1> DEFINE u == [o \in Objects |-> IF o \in ids /\ server[o] # Gone THEN server[o] ELSE f.upsert[o]]
  <1>1. f.upsert \in [Objects -> Nat] /\ server \in [Objects -> Nat] BY JmapFacts DEF Fetches
  <1>2. u \in [Objects -> Nat] BY <1>1
  <1>3. \A o \in Objects : u[o] = IF o \in ids /\ server[o] # Gone THEN server[o] ELSE f.upsert[o] OBVIOUS
  <1>4. GetInto(f, ids) = [f EXCEPT !.upsert = u] BY DEF GetInto
  <1> HIDE DEF u
  <1> QED BY <1>2, <1>3, <1>4 DEF Fetches

\* An object changed between two states has a last change there.
LEMMA LastChange ==
    ASSUME JmapInv, NEW o \in Objects, NEW from \in Nat, NEW to \in Nat, to <= Len(journal),
           NEW i \in DOMAIN journal, i > from, i <= to, journal[i].id = o
    PROVE  \E k \in from + 1 .. to : journal[k].id = o /\ \A j \in k + 1 .. to : journal[j].id # o
  <1> DEFINE S == {k \in Nat : k > from /\ k <= to /\ journal[k].id = o}
  <1>1. Len(journal) \in Nat /\ DOMAIN journal = 1 .. Len(journal) BY JmapFacts
  <1>2. i \in S BY <1>1
  <1>3. S \in SUBSET Nat /\ S # {} /\ \A x \in S : x <= to BY <1>2
  <1>4. Max(S) \in S /\ \A x \in S : x <= Max(S) BY <1>3, GreatestOf
  <1>5. PICK k \in S : \A x \in S : x <= k BY <1>4
  <1>6. k \in from + 1 .. to /\ journal[k].id = o OBVIOUS
  <1>7. ASSUME NEW j \in k + 1 .. to PROVE journal[j].id # o
    <2>1. j \in Nat /\ j > k /\ j > from /\ j <= to BY <1>6
    <2>2. j \notin S BY <1>5, <2>1
    <2> QED BY <2>1, <2>2
  <1> QED BY <1>6, <1>7

\* One page of a delta.
LEMMA DeltaKeeps == JmapInv /\ DeltaStep => JmapInv'
  <1> SUFFICES ASSUME JmapInv, DeltaStep PROVE JmapInv' OBVIOUS
  <1>0. /\ UNCHANGED <<type, server, journal, local, cursor, listing, doubt>>
        /\ pull = "delta" /\ pull' \in {"delta", "commit"}
    BY DEF DeltaStep
  <1> DEFINE from == fetched.at
             to == IF from + DeltaPage < ServerState THEN from + DeltaPage ELSE ServerState
             ids == ChangedIn(from, to, {"create", "update"})
             dead == ChangedIn(from, to, {"destroy"}) \ MadeIn(from, to)
             g == GetInto(fetched, ids)
  <1>1. fetched' = [g EXCEPT !.destroyed = @ \cup dead, !.at = to] BY DEF DeltaStep
  <1>2. from \in Nat /\ to \in Nat /\ from <= to /\ to <= Len(journal)
    BY JmapFacts, JmapAssumption DEF ServerState
  <1>3. DOMAIN journal = 1 .. Len(journal) /\ Len(journal) \in Nat
        /\ \A i \in DOMAIN journal : journal[i] \in Changes
    BY JmapFacts, StatesAreNumbers
  <1> HIDE DEF from, to
  <1>4. ids \in SUBSET Objects /\ dead \in SUBSET Objects BY DEF ChangedIn
  <1>5. /\ g \in Fetches /\ g.destroyed = fetched.destroyed
        /\ \A o \in Objects : g.upsert[o] = IF o \in ids /\ server[o] # Gone THEN server[o] ELSE fetched.upsert[o]
    BY <1>4, JmapFacts, Fetched
  <1> HIDE DEF ids, dead, g
  <1>6. fetched' \in Fetches /\ fetched'.at = to /\ fetched'.destroyed = fetched.destroyed \cup dead
        /\ fetched'.upsert = g.upsert
    <2> DEFINE d == g.destroyed \cup dead
    <2>1. d \in SUBSET Objects BY <1>4, <1>5, JmapFacts
    <2>2. fetched' = [g EXCEPT !.destroyed = d, !.at = to] BY <1>1, <1>5 DEF Fetches
    <2> HIDE DEF d
    <2>3. fetched' \in Fetches /\ fetched'.at = to /\ fetched'.destroyed = d /\ fetched'.upsert = g.upsert
      BY <1>2, <1>5, <2>1, <2>2 DEF Fetches
    <2> QED BY <2>3, <1>5 DEF d
  <1>7. JmapTypes'
    <2>1. QueryState' = QueryState BY <1>0 DEF QueryState
    <2>2. pull' \in Pulls /\ doubt' \in BOOLEAN BY <1>0, JmapFacts DEF Pulls, JmapTypes
    <2> QED BY <1>0, <1>2, <1>6, <2>1, <2>2, JmapFacts DEF JmapTypes
  <1>8. JournalTrue'
    <2>1. \A o \in Objects : local'[o] # Gone \/ fetched'.upsert[o] # Gone => Named(o)
      BY <1>0, <1>5, <1>6, JmapFacts DEF JournalTrue
    <2> QED BY <1>0, <2>1, JournalKept
  <1>9. ASSUME NEW o \in dead PROVE server[o] = Gone /\ Named(o)
    <2>1. PICK i \in from + 1 .. to : journal[i].id = o /\ journal[i].kind = "destroy"
      BY DEF dead, ChangedIn
    <2>2. i \in DOMAIN journal BY <1>2, <1>3
    <2> QED BY <2>1, <2>2, JmapFacts DEF JournalTrue, Named
  <1>10. ToldIsGone' BY <1>0, <1>6, <1>9, JmapFacts DEF ToldIsGone, Named
  <1>11. ListingHolds' /\ SnapshotHolds' BY <1>0 DEF ListingHolds, SnapshotHolds
  <1>12. CursorHolds => CursorHolds' BY <1>0, CursorKept
  <1>13. ASSUME type = "email", ~doubt, NEW o \in Objects, Untouched(o, to), Wanted(o)
         PROVE  \/ o \in fetched'.destroyed /\ fetched'.upsert[o] # Gone
                \/ BatchApplied(local, fetched')[o] = server[o]
    <2>1. PICK f \in Fetches : f = fetched' BY <1>6
    <2>2. BatchApplied(local, f)[o] = IF f.upsert[o] # Gone THEN f.upsert[o]
                                      ELSE IF o \in f.destroyed THEN Gone ELSE local[o]
      BY BatchRow, JmapFacts
    <2>3. CASE \E i \in DOMAIN journal : i > from /\ i <= to /\ journal[i].id = o
      <3>1. PICK k \in from + 1 .. to : journal[k].id = o /\ \A j \in k + 1 .. to : journal[j].id # o
        BY <1>2, <2>3, LastChange
      <3>2. k \in DOMAIN journal /\ journal[k] \in Changes BY <1>2, <1>3
      <3>3. Untouched(o, k)
        <4> SUFFICES ASSUME NEW j \in DOMAIN journal, j > k PROVE journal[j].id # o BY DEF Untouched
        <4>1. CASE j > to BY <4>1, <1>13 DEF Untouched
        <4>2. CASE ~(j > to) BY <4>2, <1>2, <1>3, <3>1
        <4> QED BY <4>1, <4>2
      <3>4. CASE journal[k].kind = "destroy"
        <4>1. server[o] = Gone BY <3>1, <3>2, <3>4, JmapFacts DEF JournalTrue
        <4>2. o \in OldObjects BY <4>1, <1>13 DEF Wanted
        <4>3. o \notin MadeIn(from, to)
          <5> SUFFICES ASSUME o \in MadeIn(from, to) PROVE FALSE OBVIOUS
          <5>1. PICK i \in from + 1 .. to : journal[i].id = o /\ journal[i].kind = "create" BY DEF MadeIn
          <5>2. i \in DOMAIN journal BY <1>2, <1>3
          <5> QED BY <4>2, <5>1, <5>2, JmapFacts DEF JournalTrue
        <4>4. o \in dead BY <3>1, <3>4, <4>3 DEF dead, ChangedIn
        <4> QED BY <1>6, <2>1, <2>2, <4>1, <4>4
      <3>5. CASE journal[k].kind # "destroy"
        <4>1. server[o] # Gone BY <3>1, <3>2, <3>3, <3>5, JmapFacts DEF JournalTrue
        <4>2. journal[k].kind \in {"create", "update"} BY <3>2, <3>5 DEF Changes
        <4>3. o \in ids BY <3>1, <4>2 DEF ids, ChangedIn
        <4> QED BY <1>5, <1>6, <2>1, <2>2, <4>1, <4>3
      <3> QED BY <3>4, <3>5
    <2>4. CASE ~\E i \in DOMAIN journal : i > from /\ i <= to /\ journal[i].id = o
      <3>1. o \notin ids /\ o \notin dead BY <1>2, <1>3, <2>4 DEF ids, dead, ChangedIn
      <3>2. Untouched(o, from)
        <4> SUFFICES ASSUME NEW j \in DOMAIN journal, j > from PROVE journal[j].id # o BY DEF Untouched
        <4>1. CASE j > to BY <4>1, <1>13 DEF Untouched
        <4>2. CASE ~(j > to) BY <4>2, <1>2, <1>3, <2>4
        <4> QED BY <4>1, <4>2
      <3>3. o \in Crossed(fetched) \/ BatchApplied(local, fetched)[o] = server[o]
        BY <1>0, <1>13, <3>2, JmapFacts DEF DeltaHolds, from
      <3>4. BatchApplied(local, fetched)[o] = IF fetched.upsert[o] # Gone THEN fetched.upsert[o]
                                              ELSE IF o \in fetched.destroyed THEN Gone ELSE local[o]
        BY BatchRow, JmapFacts
      <3>5. f.upsert[o] = fetched.upsert[o] /\ (o \in f.destroyed <=> o \in fetched.destroyed)
        BY <1>5, <1>6, <2>1, <3>1
      <3> QED BY <2>1, <2>2, <3>3, <3>4, <3>5 DEF Crossed
    <2> QED BY <2>3, <2>4
  <1>14. ASSUME type = "email", ~doubt PROVE DeltaHolds'
    <2> SUFFICES ASSUME NEW o \in Objects, Untouched(o, fetched.at)', Wanted(o)'
                 PROVE  o \in Crossed(fetched') \/ BatchApplied(local', fetched')[o] = server'[o]
      BY DEF DeltaHolds, Crossed, BatchApplied
    <2>1. Untouched(o, to) /\ Wanted(o) BY <1>0, <1>6 DEF Untouched, Wanted
    <2> QED BY <1>0, <1>13, <1>14, <2>1 DEF Crossed
  <1> QED BY <1>0, <1>7, <1>8, <1>10, <1>11, <1>12, <1>14, JmapFacts DEF JmapInv

\* The commit of a delta.
LEMMA CommitDeltaKeeps == JmapInv /\ CommitDelta => JmapInv'
  <1> SUFFICES ASSUME JmapInv, CommitDelta PROVE JmapInv' OBVIOUS
  <1> USE JmapFacts
  <1>1. /\ UNCHANGED <<type, server, journal, listing>> /\ pull = "commit" /\ pull' = "idle"
        /\ local' = BatchApplied(local, fetched) /\ cursor' = {fetched.at} /\ fetched' = NoFetch
        /\ doubt' = (doubt \/ Crossed(fetched) # {})
    BY DEF CommitDelta
  <1>2. /\ local' \in [Objects -> Nat]
        /\ \A o \in Objects : local'[o] = IF fetched.upsert[o] # Gone THEN fetched.upsert[o]
                                          ELSE IF o \in fetched.destroyed THEN Gone ELSE local[o]
    <2>1. local \in [Objects -> Nat] /\ fetched \in Fetches OBVIOUS
    <2> HIDE JmapFacts
    <2>2. /\ BatchApplied(local, fetched) \in [Objects -> Nat]
          /\ \A o \in Objects : BatchApplied(local, fetched)[o] =
                IF fetched.upsert[o] # Gone THEN fetched.upsert[o]
                ELSE IF o \in fetched.destroyed THEN Gone ELSE local[o]
      BY <2>1, BatchRow
    <2> QED BY <1>1, <2>2
  <1>3. doubt' \in BOOLEAN BY <1>1
  <1>4. ~doubt' => ~doubt /\ Crossed(fetched) = {} BY <1>1
  <1>5. \A o \in Objects : local'[o] # Gone => Named(o) BY <1>2 DEF JournalTrue
  <1>6. ASSUME type = "email", ~doubt' PROVE CursorHolds'
    <2>1. DeltaHolds BY <1>4, <1>6
    <2> SUFFICES ASSUME NEW o \in Objects, Untouched(o, fetched.at), Wanted(o) PROVE local'[o] = server[o]
      BY <1>1 DEF CursorHolds, Untouched, Wanted
    <2> QED BY <1>1, <1>4, <1>6, <2>1 DEF DeltaHolds
  <1> QED BY <1>1, <1>2, <1>3, <1>5, <1>6, BackToIdle

\* A step of the snapshot that writes at most what it read from the server.
LEMMA SnapshotStep ==
    ASSUME JmapInv, UNCHANGED <<type, server, journal, cursor, doubt>>,
           pull' \in {"query", "get", "reconcile"},
           listing' \in Listings, listing'.query <= QueryState, listing'.state <= Len(journal),
           fetched' \in Fetches, UNCHANGED fetched.at, UNCHANGED fetched.upsert,
           local' \in [Objects -> Nat],
           \A o \in Objects : local'[o] = local[o] \/ (local'[o] = server[o] /\ server[o] # Gone),
           ListingHolds', type = "email" => SnapshotHolds'
    PROVE  JmapInv'
  <1>1. JmapTypes'
    <2>1. QueryState' = QueryState BY DEF QueryState
    <2>2. pull' \in Pulls /\ doubt' \in BOOLEAN BY JmapFacts DEF Pulls, JmapTypes
    <2> QED BY <2>1, <2>2, JmapFacts DEF JmapTypes
  <1>2. JournalTrue'
    <2>1. \A o \in Objects : local'[o] # Gone \/ fetched'.upsert[o] # Gone => Named(o)
      BY JmapFacts DEF JournalTrue
    <2> QED BY <2>1, JournalKept
  <1>3. ToldIsGone' /\ DeltaHolds' BY DEF ToldIsGone, DeltaHolds
  <1>4. CursorHolds => CursorHolds' BY CursorKept
  <1> QED BY <1>1, <1>2, <1>3, <1>4, JmapFacts DEF JmapInv

\* The state of the snapshot is read before its listing.
LEMMA SnapshotStateKeeps == JmapInv /\ SnapshotState => JmapInv'
  <1> SUFFICES ASSUME JmapInv, SnapshotState PROVE JmapInv' OBVIOUS
  <1>1. /\ UNCHANGED <<type, server, journal, local, cursor, fetched, doubt>> /\ pull = "state" /\ pull' = "query"
        /\ listing' = [NoListing EXCEPT !.state = ServerState, !.query = QueryState]
    BY DEF SnapshotState
  <1>2. listing' \in Listings /\ listing'.ids = {} /\ listing'.query = QueryState /\ listing'.state = Len(journal)
    <2>1. ServerState \in Nat /\ QueryState \in Nat /\ ServerState = Len(journal) BY JmapFacts DEF ServerState
    <2> QED BY <1>1, <2>1, NothingFetched DEF Listings
  <1>3. fetched.destroyed = {} BY <1>1, JmapFacts DEF ListingHolds
  <1>4. ListingHolds' BY <1>1, <1>2, <1>3 DEF ListingHolds
  <1>5. SnapshotHolds' BY <1>1, <1>2, <1>3 DEF SnapshotHolds
  <1>6. listing'.query <= QueryState /\ listing'.state <= Len(journal) BY <1>2, JmapFacts
  <1> QED BY <1>1, <1>2, <1>4, <1>5, <1>6, JmapFacts, SnapshotStep

\* The first page of the mailboxes is the last.
LEMMA MailboxesInOnePage ==
    ASSUME JmapInv, type = "mailbox", listing.ids = {}
    PROVE  Page = Live(server)
  <1>1. Remaining = Live(server) BY DEF Remaining
  <1>2. IsFiniteSet(Objects) BY JmapAssumption
  <1>3. ASSUME NEW o \in Live(server) PROVE Cardinality({p \in Remaining : p > o}) < PageSize
    <2> DEFINE S == {p \in Remaining : p > o}
               R == Objects \ {o}
    <2>1. o \in Objects /\ Objects \subseteq Nat BY JmapAssumption, <1>2, FS_CardinalityType DEF Live
    <2>2. S \subseteq R
      <3> SUFFICES ASSUME NEW p \in S PROVE p \in R OBVIOUS
      <3>1. p \in Objects /\ p > o BY <1>1 DEF Live
      <3> QED BY <2>1, <3>1
    <2>3. IsFiniteSet(R) /\ Cardinality(R) = Cardinality(Objects) - 1 BY <1>2, <2>1, FS_RemoveElement
    <2> HIDE DEF S, R
    <2>4. Cardinality(S) <= Cardinality(R) BY <2>2, <2>3, FS_Subset
    <2>5. Cardinality(Objects) \in Nat /\ IsFiniteSet(S) BY <1>2, <2>2, <2>3, FS_Subset, FS_CardinalityType
    <2>6. Cardinality(S) \in Nat BY <2>5, FS_CardinalityType
    <2>7. Cardinality(S) < Cardinality(Objects) BY <2>3, <2>4, <2>5, <2>6
    <2> QED BY <2>7 DEF S, PageSize
  <1> QED BY <1>1, <1>3 DEF Page

\* One page of a listing.
LEMMA QueryKeeps == JmapInv /\ QueryStep => JmapInv'
  <1> SUFFICES ASSUME JmapInv, QueryStep PROVE JmapInv' OBVIOUS
  <1>1. UNCHANGED <<type, server, journal, local, cursor, fetched, doubt>> /\ pull = "query" BY DEF QueryStep
  <1>2. fetched.destroyed = {} BY <1>1, JmapFacts DEF ListingHolds
  <1>3. type \in {"email", "mailbox"} BY JmapFacts DEF JmapTypes
  <1>4. CASE ListingTorn
    <2>1. pull' = "get" /\ listing' = [listing EXCEPT !.complete = FALSE] BY <1>4 DEF QueryStep
    <2>2. listing' \in Listings /\ listing'.ids = listing.ids /\ listing'.query = listing.query
          /\ listing'.state = listing.state /\ listing'.complete = FALSE
      BY <2>1, JmapFacts DEF Listings
    <2>3. ListingHolds' BY <2>1, <2>2 DEF ListingHolds
    <2>4. type = "email" => SnapshotHolds'
      BY <1>1, <1>2, <2>1, <2>2, JmapFacts DEF SnapshotHolds, Untouched
    <2> QED BY <1>1, <2>1, <2>2, <2>3, <2>4, JmapFacts, SnapshotStep
  <1>5. CASE ~ListingTorn
    <2> DEFINE ids == listing.ids \cup Page
               all == Cardinality(ids) >= Cardinality(Live(server))
               last == all \/ Cardinality(Page) < PageSize
    <2>1. /\ listing' = [listing EXCEPT !.ids = ids, !.query = QueryState, !.complete = all]
          /\ pull' = IF last THEN "get" ELSE "query"
      BY <1>5 DEF QueryStep
    <2>2. listing.ids \subseteq Live(server)
      <3>1. CASE listing.ids = {} BY <3>1
      <3>2. CASE listing.ids # {}
        <4>1. type = "email" BY <1>1, <1>3, <3>2, JmapFacts DEF ListingHolds
        <4>2. listing.query = QueryState BY <1>5, <3>2, <4>1 DEF ListingTorn
        <4> QED BY <1>1, <4>1, <4>2, JmapFacts DEF ListingHolds
      <3> QED BY <3>1, <3>2
    <2>3. ids \subseteq Live(server) /\ Live(server) \subseteq Objects BY <2>2 DEF Page, Remaining, Live
    <2>4. IsFiniteSet(Live(server)) BY <2>3, JmapAssumption, FS_Subset
    <2>5. all => ids = Live(server)
      <3>1. Cardinality(ids) \in Nat /\ Cardinality(Live(server)) \in Nat /\ Cardinality(ids) <= Cardinality(Live(server))
        BY <2>3, <2>4, FS_Subset, FS_CardinalityType
      <3>2. all => Cardinality(ids) = Cardinality(Live(server)) BY <3>1
      <3> QED BY <2>3, <2>4, <3>2, FS_Subset
    <2>6. type = "mailbox" => all
      <3> SUFFICES ASSUME type = "mailbox" PROVE all OBVIOUS
      <3>1. listing.ids = {} BY <1>1, JmapFacts DEF ListingHolds
      <3>2. ids = Live(server) BY <3>1, MailboxesInOnePage
      <3>3. Cardinality(Live(server)) \in Nat BY <2>4, FS_CardinalityType
      <3> QED BY <3>2, <3>3
    <2>7. all \in BOOLEAN /\ (all => last) OBVIOUS
    <2>8. ids \in SUBSET Objects BY <2>3
    <2> HIDE DEF all, ids, last
    <2>9. /\ listing' \in Listings /\ listing'.ids = ids /\ listing'.query = QueryState
          /\ listing'.state = listing.state /\ listing'.complete = all
      BY <2>1, <2>7, <2>8, JmapFacts DEF Listings
    <2>10. pull' \in {"get", "query"} /\ (all => pull' = "get") BY <2>1, <2>7
    <2>11. \A o \in Objects : o \in Live(server) <=> server[o] # Gone BY DEF Live
    <2>12. ListingHolds'
      <3>1. pull' = "query" => type = "email" BY <1>3, <2>6, <2>10
      <3>2. Live(server)' = Live(server) BY <1>1 DEF Live
      <3>3. ASSUME listing'.complete, NEW o \in Objects, server'[o] # Gone PROVE o \in listing'.ids
        BY <1>1, <2>5, <2>9, <2>11, <3>3
      <3> QED BY <1>1, <1>2, <2>3, <2>9, <2>10, <3>1, <3>2, <3>3 DEF ListingHolds
    <2>13. type = "email" => SnapshotHolds'
      <3>1. \A o \in listing'.ids : server'[o] # Gone BY <1>1, <2>3, <2>9 DEF Live
      <3>2. ASSUME listing'.complete, NEW o \in Objects, server'[o] # Gone PROVE o \in listing'.ids
        BY <1>1, <2>5, <2>9, <2>11, <3>2
      <3> QED BY <1>1, <1>2, <2>10, <3>1, <3>2 DEF SnapshotHolds
    <2>14. listing'.query <= QueryState /\ listing'.state <= Len(journal) BY <2>9, JmapFacts
    <2>15. pull' \in {"query", "get", "reconcile"} BY <2>10
    <2> QED BY <1>1, <2>9, <2>12, <2>13, <2>14, <2>15, JmapFacts, SnapshotStep
  <1> QED BY <1>4, <1>5

\* What a get writes to the store at once, with nothing to remove.
LEMMA GetRow ==
    ASSUME JmapInv, NEW ids \in SUBSET Objects, NEW f \in Fetches,
           f.upsert = GetInto(NoFetch, ids).upsert, f.destroyed = {}
    PROVE  /\ BatchApplied(local, f) \in [Objects -> Nat]
           /\ \A o \in Objects : BatchApplied(local, f)[o] =
                 IF o \in ids /\ server[o] # Gone THEN server[o] ELSE local[o]
  <1>1. \A o \in Objects : f.upsert[o] = IF o \in ids /\ server[o] # Gone THEN server[o] ELSE Gone
    BY NothingFetched, Fetched
  <1>2. local \in [Objects -> Nat] BY JmapFacts
  <1>3. /\ BatchApplied(local, f) \in [Objects -> Nat]
        /\ \A o \in Objects : BatchApplied(local, f)[o] = IF f.upsert[o] # Gone THEN f.upsert[o]
                                          ELSE IF o \in f.destroyed THEN Gone ELSE local[o]
    BY <1>2, BatchRow
  <1> QED BY <1>1, <1>3

\* The store after a chunk of Email/get.
LEMMA ChunkRow ==
    ASSUME JmapInv, GetChunk
    PROVE  \E c \in NextChunk :
              /\ fetched' = [fetched EXCEPT !.destroyed = @ \cup {c}]
              /\ local' \in [Objects -> Nat]
              /\ \A o \in Objects : local'[o] = IF o = c /\ server[o] # Gone THEN server[o] ELSE local[o]
  <1> DEFINE c == CHOOSE o \in NextChunk : \A p \in NextChunk : o >= p
             f == [GetInto(NoFetch, {c}) EXCEPT !.destroyed = {}]
  <1>1. NextChunk # {} /\ local' = BatchApplied(local, f) /\ fetched' = [fetched EXCEPT !.destroyed = @ \cup {c}]
    BY DEF GetChunk
  <1>2. NextChunk \subseteq Objects BY JmapFacts DEF NextChunk
  <1>3. c \in NextChunk
    <2>1. Cardinality(Objects) \in Nat BY JmapAssumption, FS_CardinalityType
    <2>2. NextChunk \in SUBSET Nat /\ \A x \in NextChunk : x <= Cardinality(Objects)
      BY <1>2, <2>1, JmapAssumption
    <2>3. Max(NextChunk) \in NextChunk /\ \A x \in NextChunk : x <= Max(NextChunk)
      BY <1>1, <2>1, <2>2, GreatestOf
    <2>4. \E o \in NextChunk : \A p \in NextChunk : o >= p BY <2>2, <2>3
    <2> QED BY <2>4
  <1> HIDE DEF c
  <1>4. {c} \in SUBSET Objects BY <1>2, <1>3
  <1>5. GetInto(NoFetch, {c}) \in Fetches BY <1>4, NothingFetched, Fetched
  <1>6. f \in Fetches /\ f.upsert = GetInto(NoFetch, {c}).upsert /\ f.destroyed = {} BY <1>5 DEF Fetches
  <1> HIDE DEF f
  <1>7. /\ local' \in [Objects -> Nat]
        /\ \A o \in Objects : local'[o] = IF o \in {c} /\ server[o] # Gone THEN server[o] ELSE local[o]
    BY <1>1, <1>4, <1>6, GetRow
  <1> QED BY <1>1, <1>3, <1>7

\* The store after Mailbox/get.
LEMMA MailboxRow ==
    ASSUME JmapInv, GetMailboxes
    PROVE  /\ local' \in [Objects -> Nat]
           /\ \A o \in Objects : local'[o] = IF o \in listing.ids /\ server[o] # Gone THEN server[o] ELSE local[o]
  <1> DEFINE f == GetInto(NoFetch, listing.ids)
  <1>1. local' = BatchApplied(local, f) BY DEF GetMailboxes
  <1>2. listing.ids \in SUBSET Objects BY JmapFacts
  <1>3. f \in Fetches /\ f.destroyed = {} BY <1>2, NothingFetched, Fetched
  <1>4. f.upsert = GetInto(NoFetch, listing.ids).upsert OBVIOUS
  <1> HIDE DEF f
  <1> QED BY <1>1, <1>2, <1>3, <1>4, GetRow

\* A chunk of Email/get.
LEMMA ChunkKeeps == JmapInv /\ GetChunk => JmapInv'
  <1> SUFFICES ASSUME JmapInv, GetChunk PROVE JmapInv' OBVIOUS
  <1>1. UNCHANGED <<type, server, journal, cursor, listing, pull, doubt>> /\ pull = "get" /\ type = "email"
    BY DEF GetChunk
  <1>2. PICK c \in NextChunk :
           /\ fetched' = [fetched EXCEPT !.destroyed = @ \cup {c}]
           /\ local' \in [Objects -> Nat]
           /\ \A o \in Objects : local'[o] = IF o = c /\ server[o] # Gone THEN server[o] ELSE local[o]
    BY ChunkRow
  <1>3. c \in listing.ids /\ c \in Objects BY JmapFacts DEF NextChunk
  <1>4. fetched' \in Fetches /\ fetched'.destroyed = fetched.destroyed \cup {c}
        /\ fetched'.at = fetched.at /\ fetched'.upsert = fetched.upsert
    <2> DEFINE d == fetched.destroyed \cup {c}
    <2>1. d \in SUBSET Objects BY <1>3, JmapFacts
    <2>2. fetched' = [fetched EXCEPT !.destroyed = d] BY <1>2
    <2> HIDE DEF d
    <2>3. fetched' \in Fetches /\ fetched'.destroyed = d /\ fetched'.at = fetched.at /\ fetched'.upsert = fetched.upsert
      BY <2>1, <2>2, JmapFacts DEF Fetches
    <2> QED BY <2>3 DEF d
  <1>5. ListingHolds' BY <1>1, <1>2, <1>3, JmapFacts DEF ListingHolds
  <1>6. SnapshotHolds'
    <2>1. SnapshotHolds BY <1>1, JmapFacts
    <2>2. \A o \in Objects : Untouched(o, listing.state)' <=> Untouched(o, listing.state) BY <1>1 DEF Untouched
    <2>3. \A o \in fetched'.destroyed : server[o] # Gone /\ Untouched(o, listing.state) => local'[o] = server[o]
      BY <1>1, <1>2, <1>3, <1>4, <2>1, JmapFacts DEF SnapshotHolds
    <2>4. fetched'.destroyed \subseteq Objects BY <1>3, <1>4, JmapFacts
    <2>5. listing.ids \subseteq Objects BY JmapFacts
    <2> QED BY <1>1, <2>1, <2>2, <2>3, <2>4, <2>5 DEF SnapshotHolds
  <1>7. listing' \in Listings /\ listing'.query <= QueryState /\ listing'.state <= Len(journal)
        /\ pull' \in {"query", "get", "reconcile"}
    BY <1>1, JmapFacts
  <1> QED BY <1>1, <1>2, <1>4, <1>5, <1>6, <1>7, SnapshotStep

\* Mailbox/get.
LEMMA MailboxesKeep == JmapInv /\ GetMailboxes => JmapInv'
  <1> SUFFICES ASSUME JmapInv, GetMailboxes PROVE JmapInv' OBVIOUS
  <1>1. UNCHANGED <<type, server, journal, cursor, fetched, doubt>> /\ pull = "get" /\ type = "mailbox"
        /\ pull' = "reconcile"
        /\ listing' = [listing EXCEPT !.state = ServerState, !.ids = @ \cap Live(server)]
    BY DEF GetMailboxes
  <1>2. /\ local' \in [Objects -> Nat]
        /\ \A o \in Objects : local'[o] = IF o \in listing.ids /\ server[o] # Gone THEN server[o] ELSE local[o]
    BY MailboxRow
  <1> DEFINE d == listing.ids \cap Live(server)
  <1>3. d \in SUBSET Objects /\ ServerState \in Nat /\ ServerState = Len(journal) BY JmapFacts DEF ServerState
  <1>4. listing' = [listing EXCEPT !.state = ServerState, !.ids = d] BY <1>1
  <1> HIDE DEF d
  <1>5. listing' \in Listings /\ listing'.ids = d /\ listing'.query = listing.query
        /\ listing'.state = Len(journal) /\ listing'.complete = listing.complete
    BY <1>3, <1>4, JmapFacts DEF Listings
  <1>6. ListingHolds'
    <2> SUFFICES ASSUME listing.complete, NEW o \in Objects, server[o] # Gone, local'[o] # Gone PROVE o \in d
      BY <1>1, <1>5 DEF ListingHolds
    <2>1. o \in listing.ids BY <1>1, <1>2, JmapFacts DEF ListingHolds
    <2> QED BY <2>1 DEF d, Live
  <1>7. listing'.query <= QueryState /\ listing'.state <= Len(journal) /\ pull' \in {"query", "get", "reconcile"}
    BY <1>1, <1>5, JmapFacts
  <1>8. fetched' \in Fetches /\ fetched'.at = fetched.at /\ fetched'.upsert = fetched.upsert BY <1>1, JmapFacts
  <1> QED BY <1>1, <1>2, <1>5, <1>6, <1>7, <1>8, SnapshotStep

\* The last chunk is in.
LEMMA ChunksDoneKeeps == JmapInv /\ ChunksDone => JmapInv'
  <1> SUFFICES ASSUME JmapInv, ChunksDone PROVE JmapInv' OBVIOUS
  <1>1. /\ UNCHANGED <<type, server, journal, local, cursor, listing, fetched, doubt>>
        /\ pull = "get" /\ type = "email" /\ pull' = "reconcile" /\ listing.ids \subseteq fetched.destroyed
    BY DEF ChunksDone, NextChunk
  <1>2. ListingHolds' BY <1>1, JmapFacts DEF ListingHolds
  <1>3. SnapshotHolds'
    <2>1. SnapshotHolds BY <1>1, JmapFacts
    <2>2. \A o \in Objects : Untouched(o, listing.state)' <=> Untouched(o, listing.state) BY <1>1 DEF Untouched
    <2> QED BY <1>1, <2>1, <2>2, JmapFacts DEF SnapshotHolds
  <1>4. pull' \in {"query", "get", "reconcile"} BY <1>1
  <1>5. fetched'.at = fetched.at /\ fetched'.upsert = fetched.upsert BY <1>1
  <1> QED BY <1>1, <1>2, <1>3, <1>4, <1>5, JmapFacts, SnapshotStep

\* What reconcile_sync_tx leaves of a row.
LEMMA ReconciledRow ==
    ASSUME JmapInv, Reconcile
    PROVE  /\ local' \in [Objects -> Nat]
           /\ \A o \in Objects :
                 local'[o] = IF listing.complete /\ ~PruneRefused(local, listing.ids) /\ o \notin listing.ids
                             THEN Gone ELSE local[o]
  <1> DEFINE refused == PruneRefused(local, listing.ids)
             p == [o \in Objects |-> IF o \in listing.ids THEN local[o] ELSE Gone]
  <1>1. local' = IF listing.complete THEN (IF refused THEN local ELSE p) ELSE local
    BY DEF Reconcile, Pruned
  <1>2. local \in [Objects -> Nat] BY JmapFacts
  <1>3. p \in [Objects -> Nat] /\ \A o \in Objects : p[o] = IF o \in listing.ids THEN local[o] ELSE Gone
    BY <1>2 DEF Gone
  <1> HIDE DEF p, refused
  <1>4. /\ local' \in [Objects -> Nat]
        /\ \A o \in Objects : local'[o] = IF listing.complete /\ ~refused /\ o \notin listing.ids
                                          THEN Gone ELSE local[o]
    BY <1>1, <1>2, <1>3
  <1> QED BY <1>4 DEF refused

\* The reconcile that ends a snapshot.
LEMMA ReconcileKeeps == JmapInv /\ Reconcile => JmapInv'
  <1> SUFFICES ASSUME JmapInv, Reconcile PROVE JmapInv' OBVIOUS
  <1> DEFINE refused == PruneRefused(local, listing.ids)
  <1>1. /\ UNCHANGED <<type, server, journal>> /\ pull = "reconcile" /\ pull' = "idle"
        /\ fetched' = NoFetch /\ listing' = NoListing /\ cursor' = {listing.state}
        /\ doubt' = (~listing.complete \/ refused)
    BY DEF Reconcile
  <1>2. /\ local' \in [Objects -> Nat]
        /\ \A o \in Objects : local'[o] = IF listing.complete /\ ~refused /\ o \notin listing.ids
                                          THEN Gone ELSE local[o]
    BY ReconciledRow
  <1>3. doubt' \in BOOLEAN /\ (~doubt' => listing.complete /\ ~refused) BY <1>1
  <1> HIDE DEF refused
  <1>4. \A o \in Objects : local'[o] # Gone => Named(o) BY <1>2, JmapFacts DEF JournalTrue
  <1>5. listing' \in Listings /\ listing'.query <= QueryState /\ listing'.state <= Len(journal)
    BY <1>1, NothingFetched, JmapFacts
  <1>6. ASSUME type = "email", ~doubt' PROVE CursorHolds'
    <2> SUFFICES ASSUME NEW o \in Objects, Untouched(o, listing.state), Wanted(o) PROVE local'[o] = server[o]
      BY <1>1 DEF CursorHolds, Untouched, Wanted
    <2>1. SnapshotHolds BY <1>6, JmapFacts
    <2>2. local'[o] = IF o \in listing.ids THEN local[o] ELSE Gone BY <1>2, <1>3, <1>6
    <2>3. CASE server[o] # Gone
      <3>1. o \in listing.ids BY <1>1, <1>3, <1>6, <2>1, <2>3 DEF SnapshotHolds
      <3>2. o \in fetched.destroyed BY <1>1, <2>1, <3>1 DEF SnapshotHolds
      <3> QED BY <1>1, <2>1, <2>2, <2>3, <3>1, <3>2 DEF SnapshotHolds
    <2>4. CASE server[o] = Gone
      <3>1. o \notin listing.ids BY <1>1, <2>1, <2>4 DEF SnapshotHolds
      <3> QED BY <2>2, <2>4, <3>1
    <2> QED BY <2>3, <2>4
  <1>7. (\A c, d \in cursor' : c = d) /\ \A c \in cursor' : c \in Nat /\ c <= Len(journal)
    BY <1>1, JmapFacts
  <1> QED BY <1>1, <1>2, <1>3, <1>4, <1>5, <1>6, <1>7, BackToIdle

\* Every step keeps the invariant of the JMAP pull.
LEMMA JmapInvAlways == JmapSpec => []JmapInv
  <1>1. JmapInit => JmapInv BY JmapInvInit
  <1>2. JmapInv /\ [JmapNext]_jmapVars => JmapInv'
    <2> SUFFICES ASSUME JmapInv, [JmapNext]_jmapVars PROVE JmapInv' OBVIOUS
    <2>1. ASSUME NEW o \in Objects, ServerCreate(o) PROVE JmapInv'
      <3>1. ~Named(o) /\ ServerChange(o, "create", 1)
        BY <2>1, JmapFacts DEF ServerCreate, Named
      <3> QED BY <3>1, ServerChangeKeeps DEF Gone
    <2>2. ASSUME NEW o \in Objects, ServerUpdate(o) PROVE JmapInv'
      <3>1. server[o] # Gone /\ ServerChange(o, "update", 2) BY <2>2 DEF ServerUpdate, Gone
      <3> QED BY <3>1, ServerChangeKeeps DEF Gone
    <2>3. ASSUME NEW o \in Objects, ServerDestroy(o) PROVE JmapInv'
      <3>1. server[o] # Gone /\ ServerChange(o, "destroy", 0) BY <2>3 DEF ServerDestroy, Gone
      <3> QED BY <3>1, ServerChangeKeeps DEF Gone
    <2>4. CASE UNCHANGED jmapVars
      <3>1. UNCHANGED <<type, server, journal, local, cursor, pull, listing, fetched, doubt>>
        BY <2>4 DEF jmapVars
      <3> QED BY <3>1 DEF JmapInv, JmapTypes, JournalTrue, ToldIsGone, ListingHolds, SnapshotHolds, CursorHolds,
                  DeltaHolds, Untouched, Named, Wanted, QueryState, Live, Crossed, BatchApplied
    <2> QED BY <2>1, <2>2, <2>3, <2>4, StartKeeps, CannotKeeps, DeltaKeeps, CommitDeltaKeeps,
               SnapshotStateKeeps, QueryKeeps, ChunkKeeps, MailboxesKeep, ChunksDoneKeeps, ReconcileKeeps,
               FailKeeps DEF JmapNext
  <1> QED BY <1>1, <1>2, PTL DEF JmapSpec

\* For every set of objects, every page size and every interleaving of server
\* changes with the requests of the cycles: a cursor that equals the server's
\* state vouches for every row (fetch_email_delta, fetch_email_full_streamed,
\* reconcile_sync_tx), outside the three exceptions the property names.
THEOREM CursorAlwaysExact == JmapSpec => []CursorIsExact
  <1>1. JmapInv => CursorIsExact
    <2> SUFFICES ASSUME JmapInv, type = "email", cursor = {ServerState}, ~doubt,
                        NEW o \in Objects, server[o] # Gone \/ o \in OldObjects
                 PROVE  local[o] = server[o]
      BY DEF CursorIsExact
    <2>1. ServerState \in cursor /\ CursorHolds BY JmapFacts
    <2>2. Untouched(o, ServerState) BY JmapFacts DEF Untouched, ServerState
    <2> QED BY <2>1, <2>2 DEF CursorHolds, Wanted
  <1> QED BY <1>1, JmapInvAlways, PTL

\* For every set of objects, every page size and every interleaving: no step of
\* a cycle takes from the store an object the server still has (the mail-loss
\* guards DS1 and DP-C2).
THEOREM LiveMailAlwaysKept == JmapSpec => LiveMailKept
  <1> DEFINE kept == \A o \in Objects : local[o] # Gone /\ local'[o] = Gone => server[o] = Gone
  <1>1. ASSUME JmapInv, [JmapNext]_jmapVars PROVE [kept]_jmapVars
    <2>1. CASE UNCHANGED local BY <2>1
    <2>2. CASE CommitDelta
      <3>1. local' = BatchApplied(local, fetched) /\ pull = "commit" BY <2>2 DEF CommitDelta
      <3>2. local \in [Objects -> Nat] /\ fetched \in Fetches /\ ToldIsGone BY <1>1, JmapFacts
      <3>3. \A o \in Objects : BatchApplied(local, fetched)[o] =
               IF fetched.upsert[o] # Gone THEN fetched.upsert[o]
               ELSE IF o \in fetched.destroyed THEN Gone ELSE local[o]
        BY <3>2, BatchRow
      <3> QED BY <3>1, <3>2, <3>3 DEF ToldIsGone
    <2>3. CASE GetChunk BY <1>1, <2>3, ChunkRow
    <2>4. CASE GetMailboxes BY <1>1, <2>4, MailboxRow
    <2>5. CASE Reconcile
      <3>1. pull = "reconcile" /\ ListingHolds BY <1>1, <2>5, JmapFacts DEF Reconcile
      <3>2. ASSUME NEW o \in Objects, local[o] # Gone, local'[o] = Gone PROVE server[o] = Gone
        <4>1. listing.complete /\ o \notin listing.ids BY <1>1, <2>5, <3>2, ReconciledRow
        <4> QED BY <3>1, <3>2, <4>1 DEF ListingHolds
      <3> QED BY <3>2
    <2> QED BY <1>1, <2>1, <2>2, <2>3, <2>4, <2>5
        DEF JmapNext, jmapVars, ServerCreate, ServerUpdate, ServerDestroy, ServerChange, StartPull,
            CannotCalculateChanges, DeltaStep, SnapshotState, QueryStep, ChunksDone, FailPull
  <1> QED BY <1>1, JmapInvAlways, PTL DEF JmapSpec, LiveMailKept
=============================================================================
