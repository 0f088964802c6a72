----------------------------- MODULE MailProofs -----------------------------
(***************************************************************************)
(* What happens to mail on this side of the provider, for every value of   *)
(* the bounds.                                                             *)
(***************************************************************************)
EXTENDS RevLog, Projections, Overlay, Drafts, MailQuery, SequenceTheorems, FiniteSetTheorems,
        WellFoundedInduction, TLAPS

-----------------------------------------------------------------------------
(***************************************************************************)
(* Undo and redo.  A cursor with a tail that climbs from it stays one as   *)
(* the log grows, so what a command computed from an old snapshot is still *)
(* in order when it is written.  For exactness every step must have been   *)
(* effective when it was recorded, and the tail must be the whole rest of  *)
(* the log.                                                                *)
(***************************************************************************)
Facets == Keywords \cup Boxes \cup FirstHeld
Diffs == [added : SUBSET Facets, removed : SUBSET Facets]

Commands == {Idle}
    \cup [do : {"mutate"}, before : SUBSET Facets, record : BOOLEAN, diff : Diffs]
    \cup [do : {"record"}, diff : Diffs]
    \cup [do : {"apply"}, diff : Diffs, cursor : Nat, tail : Seq(Nat)]
    \cup [do : {"cursor"}, cursor : Nat, tail : Seq(Nat)]

RevTypes ==
    /\ revLog \in Seq(Diffs) /\ revCursor \in Nat /\ redoTail \in Seq(Nat)
    /\ held \in SUBSET Facets /\ revCmd \in [Windows -> Commands]
    /\ replayed \in Seq(SUBSET Facets) /\ Len(replayed) = Len(revLog) + 1

Climbs(from, tail) ==
    /\ from \in 0 .. Len(revLog)
    /\ \A i \in DOMAIN tail : /\ tail[i] \in DOMAIN revLog
                              /\ tail[i] > (IF i = 1 THEN from ELSE tail[i - 1])

CursorsClimb ==
    /\ Climbs(revCursor, redoTail)
    /\ \A w \in Windows : revCmd[w].do \in {"apply", "cursor"} =>
                              Climbs(revCmd[w].cursor, revCmd[w].tail)

RevInv == RevTypes /\ CursorsClimb

\* A command by what it does.
LEMMA CommandShapes ==
    ASSUME NEW c \in Commands
    PROVE  /\ c.do \in {"idle", "mutate", "record", "apply", "cursor"}
           /\ c.do = "idle" <=> c = Idle
           /\ c.do \in {"mutate", "record", "apply"} => c.diff \in Diffs
           /\ c.do = "mutate" => c.before \in SUBSET Facets /\ c.record \in BOOLEAN
           /\ c.do \in {"apply", "cursor"} => c.cursor \in Nat /\ c.tail \in Seq(Nat)
  BY DEF Commands, Idle

\* Diffs stay diffs.
LEMMA DiffTypes ==
    ASSUME NEW d \in Diffs, NEW s \in SUBSET Facets
    PROVE  /\ InverseDiff(d) \in Diffs /\ Effective(d, s) \in Diffs /\ NoDiff \in Diffs
           /\ AppliedTo(s, d) \in SUBSET Facets
  BY DEF Diffs, InverseDiff, Effective, NoDiff, AppliedTo

\* The initial states satisfy the invariant.
LEMMA RevInvInit == RevInit => RevInv
  <1> SUFFICES ASSUME RevInit PROVE RevInv OBVIOUS
  <1>1. revLog \in Seq(Diffs) /\ redoTail \in Seq(Nat) /\ revCursor = 0 /\ Len(revLog) = 0
    BY DEF RevInit
  <1>2. held \in SUBSET Facets /\ FirstHeld \in SUBSET Facets BY DEF RevInit, Facets
  <1>3. replayed \in Seq(SUBSET Facets) /\ Len(replayed) = 1 BY <1>2 DEF RevInit
  <1>4. revCmd \in [Windows -> Commands] BY DEF RevInit, Commands
  <1>5. CursorsClimb BY <1>1 DEF RevInit, CursorsClimb, Climbs, Idle
  <1> QED BY <1>1, <1>2, <1>3, <1>4, <1>5 DEF RevInv, RevTypes

\* A command starts with the log as it is.
LEMMA StartKeeps ==
    ASSUME RevInv, NEW w \in Windows, NEW c \in Commands, Start(w, c),
           c.do \in {"apply", "cursor"} => Climbs(c.cursor, c.tail)
    PROVE  RevInv'
  <1>1. revCmd' = [revCmd EXCEPT ![w] = c] /\ UNCHANGED <<revLog, revCursor, redoTail, held, replayed>>
    BY DEF Start
  <1>2. RevTypes' BY <1>1 DEF RevInv, RevTypes
  <1>3. \A v \in Windows : revCmd'[v] = IF v = w THEN c ELSE revCmd[v] BY <1>1 DEF RevInv, RevTypes
  <1>4. CursorsClimb' BY <1>1, <1>3 DEF RevInv, CursorsClimb, Climbs
  <1> QED BY <1>2, <1>4 DEF RevInv

\* Undo: the tail grows at its front by the step the cursor leaves.
LEMMA UndoClimbs ==
    ASSUME RevInv, revCursor \in Snapshot
    PROVE  /\ revCursor \in 1 .. Len(revLog)
           /\ <<revCursor>> \o redoTail \in Seq(Nat)
           /\ Len(<<revCursor>> \o redoTail) = Len(redoTail) + 1
           /\ \A i \in 1 .. Len(redoTail) + 1 :
                (<<revCursor>> \o redoTail)[i] = IF i = 1 THEN revCursor ELSE redoTail[i - 1]
           /\ Climbs(revCursor - 1, <<revCursor>> \o redoTail)
  <1> DEFINE tail == <<revCursor>> \o redoTail
  <1>1. redoTail \in Seq(Nat) /\ revCursor \in Nat /\ revLog \in Seq(Diffs) /\ Len(revLog) \in Nat
    BY DEF RevInv, RevTypes
  <1>2. revCursor \in 1 .. Len(revLog) BY <1>1, RevAssumption DEF Snapshot
  <1>3. /\ tail \in Seq(Nat) /\ Len(tail) = Len(redoTail) + 1
        /\ \A i \in 1 .. Len(redoTail) + 1 : tail[i] = IF i = 1 THEN revCursor ELSE redoTail[i - 1]
    BY <1>1
  <1>4. DOMAIN tail = 1 .. Len(redoTail) + 1 /\ DOMAIN redoTail = 1 .. Len(redoTail)
        /\ DOMAIN revLog = 1 .. Len(revLog) /\ Len(redoTail) \in Nat
    BY <1>1, <1>3
  <1>5. \A i \in 1 .. Len(redoTail) :
            redoTail[i] \in 1 .. Len(revLog)
            /\ redoTail[i] > (IF i = 1 THEN revCursor ELSE redoTail[i - 1])
    BY <1>4 DEF RevInv, CursorsClimb, Climbs
  <1> HIDE DEF tail
  <1>6. ASSUME NEW i \in 1 .. Len(redoTail) + 1
        PROVE  /\ tail[i] \in 1 .. Len(revLog)
               /\ tail[i] > (IF i = 1 THEN revCursor - 1 ELSE tail[i - 1])
    <2>1. CASE i = 1 BY <1>2, <1>3, <1>4, <2>1
    <2>2. CASE i # 1
      <3>1. i - 1 \in 1 .. Len(redoTail) /\ i - 1 \in 1 .. Len(redoTail) + 1 BY <2>2, <1>4
      <3>2. tail[i] = redoTail[i - 1] BY <1>3, <2>2
      <3>3. tail[i - 1] = IF i - 1 = 1 THEN revCursor ELSE redoTail[(i - 1) - 1] BY <1>3, <3>1
      <3> QED BY <2>2, <3>1, <3>2, <3>3, <1>5
    <2> QED BY <2>1, <2>2
  <1>7. Climbs(revCursor - 1, tail) BY <1>1, <1>2, <1>4, <1>6 DEF Climbs
  <1> QED BY <1>2, <1>3, <1>7 DEF tail

\* Redo: the tail loses its head to the cursor.
LEMMA RedoTailClimbs ==
    ASSUME RevInv, redoTail # <<>>, Head(redoTail) \in Snapshot
    PROVE  /\ Head(redoTail) = redoTail[1] /\ Head(redoTail) \in 1 .. Len(revLog)
           /\ Tail(redoTail) \in Seq(Nat) /\ Len(Tail(redoTail)) = Len(redoTail) - 1
           /\ \A i \in 1 .. Len(redoTail) - 1 : Tail(redoTail)[i] = redoTail[i + 1]
           /\ Climbs(Head(redoTail), Tail(redoTail))
  <1>1. redoTail \in Seq(Nat) /\ revLog \in Seq(Diffs) /\ Len(revLog) \in Nat /\ Len(redoTail) \in Nat \ {0}
    BY DEF RevInv, RevTypes
  <1>2. /\ Head(redoTail) = redoTail[1] /\ Tail(redoTail) \in Seq(Nat)
        /\ Len(Tail(redoTail)) = Len(redoTail) - 1
        /\ \A i \in 1 .. Len(redoTail) - 1 : Tail(redoTail)[i] = redoTail[i + 1]
    BY <1>1
  <1>3. Head(redoTail) \in 1 .. Len(revLog) BY <1>1, <1>2, RevAssumption DEF Snapshot
  <1>4. DOMAIN Tail(redoTail) = 1 .. Len(redoTail) - 1 /\ DOMAIN redoTail = 1 .. Len(redoTail)
        /\ DOMAIN revLog = 1 .. Len(revLog)
    BY <1>1, <1>2
  <1>5. \A i \in 1 .. Len(redoTail) :
            redoTail[i] \in 1 .. Len(revLog)
            /\ redoTail[i] > (IF i = 1 THEN revCursor ELSE redoTail[i - 1])
    BY <1>4 DEF RevInv, CursorsClimb, Climbs
  <1>6. ASSUME NEW i \in 1 .. Len(redoTail) - 1
        PROVE  /\ redoTail[i + 1] \in 1 .. Len(revLog)
               /\ redoTail[i + 1] > (IF i = 1 THEN redoTail[1] ELSE redoTail[i])
    <2>1. i + 1 \in 1 .. Len(redoTail) /\ i + 1 # 1 /\ (i + 1) - 1 = i BY <1>1
    <2> QED BY <2>1, <1>5
  <1>7. \A i \in 1 .. Len(redoTail) - 1 : i # 1 => i - 1 \in 1 .. Len(redoTail) - 1 /\ (i - 1) + 1 = i
    BY <1>1
  <1>8. Climbs(Head(redoTail), Tail(redoTail)) BY <1>2, <1>3, <1>4, <1>6, <1>7 DEF Climbs
  <1> QED BY <1>2, <1>3, <1>8

\* A command writes its own state only.
LEMMA CommandStepKeeps ==
    ASSUME RevInv, NEW w \in Windows, NEW c \in Commands,
           revCmd' = [revCmd EXCEPT ![w] = c], UNCHANGED revLog, UNCHANGED replayed,
           revCursor' \in Nat, redoTail' \in Seq(Nat), held' \in SUBSET Facets,
           Climbs(revCursor', redoTail'),
           c.do \in {"apply", "cursor"} => Climbs(c.cursor, c.tail)
    PROVE  RevInv'
  <1>1. RevTypes' BY DEF RevInv, RevTypes
  <1>2. \A v \in Windows : revCmd'[v] = IF v = w THEN c ELSE revCmd[v] BY DEF RevInv, RevTypes
  <1>3. CursorsClimb' BY <1>2 DEF RevInv, CursorsClimb, Climbs
  <1> QED BY <1>1, <1>3 DEF RevInv

\* Every action keeps the cursors climbing.
LEMMA RevInvStep ==
    ASSUME RevInv, NEW w \in Windows,
           \/ BeginSetKeywords(w) \/ BeginReplaceMailboxes(w) \/ Mutate(w)
           \/ RecordStep(w) \/ BeginUndo(w) \/ BeginRedo(w) \/ ApplyDiff(w)
           \/ WriteCursor(w)
    PROVE  RevInv'
  <1> USE DEF RevInv
  <1>t. /\ revCmd[w] \in Commands /\ held \in SUBSET Facets /\ revLog \in Seq(Diffs)
        /\ revCursor \in Nat /\ redoTail \in Seq(Nat) /\ Climbs(revCursor, redoTail)
    BY DEF RevTypes, CursorsClimb
  <1>i. Idle \in Commands /\ Idle.do = "idle" BY DEF Commands, Idle
  <1>1. CASE BeginSetKeywords(w)
    <2>1. PICK add \in SUBSET Keywords, remove \in SUBSET Keywords, record \in BOOLEAN :
              Forward(w, [added |-> add, removed |-> remove], record)
      BY <1>1 DEF BeginSetKeywords
    <2> DEFINE c == [do |-> "mutate", before |-> held, record |-> record,
                     diff |-> [added |-> add, removed |-> remove]]
    <2>2. c \in Commands /\ c.do = "mutate" BY <1>t DEF Commands, Diffs, Facets
    <2> QED BY <2>1, <2>2, StartKeeps DEF Forward
  <1>2. CASE BeginReplaceMailboxes(w)
    <2>1. PICK target \in Boxes : Forward(w, [added |-> {target}, removed |-> Boxes \ {target}], TRUE)
      BY <1>2 DEF BeginReplaceMailboxes
    <2> DEFINE c == [do |-> "mutate", before |-> held, record |-> TRUE,
                     diff |-> [added |-> {target}, removed |-> Boxes \ {target}]]
    <2>2. c \in Commands /\ c.do = "mutate" BY <1>t DEF Commands, Diffs, Facets
    <2> QED BY <2>1, <2>2, StartKeeps DEF Forward
  <1>3. CASE Mutate(w)
    <2> DEFINE c == IF revCmd[w].record
                    THEN [do |-> "record", diff |-> Effective(revCmd[w].diff, revCmd[w].before)]
                    ELSE Idle
    <2>1. revCmd[w].diff \in Diffs /\ revCmd[w].before \in SUBSET Facets
      BY <1>t, <1>3, CommandShapes DEF Mutate
    <2>2. c \in Commands /\ c.do \in {"record", "idle"} BY <2>1, <1>i, DiffTypes DEF Commands
    <2>3. held' \in SUBSET Facets BY <2>1, <1>t, <1>3, DiffTypes DEF Mutate
    <2>4. revCmd' = [revCmd EXCEPT ![w] = c] /\ UNCHANGED <<revLog, revCursor, redoTail, replayed>>
      BY <1>3 DEF Mutate
    <2> HIDE DEF c
    <2> QED BY <2>2, <2>3, <2>4, <1>t, CommandStepKeeps
  <1>4. CASE RecordStep(w)
    <2>1. revCmd' = [revCmd EXCEPT ![w] = Idle] /\ UNCHANGED held BY <1>4 DEF RecordStep
    <2>2. CASE UNCHANGED <<revLog, revCursor, redoTail, replayed>>
      BY <2>1, <2>2, <1>t, <1>i, CommandStepKeeps
    <2>3. CASE AppendStep(revCmd[w].diff)
      <3> DEFINE d == revCmd[w].diff
      <3>1. d \in Diffs BY <1>t, <1>4, CommandShapes DEF RecordStep
      <3>2. revLog' = Append(revLog, d) /\ revCursor' = Len(revLog) + 1 /\ redoTail' = <<>>
        BY <2>3 DEF AppendStep
      <3>3. replayed' = Append(replayed, AppliedTo(replayed[Len(replayed)], d)) BY <2>3 DEF AppendStep
      <3>4. replayed \in Seq(SUBSET Facets) /\ Len(replayed) = Len(revLog) + 1 BY DEF RevTypes
      <3> HIDE DEF d
      <3>5. replayed[Len(replayed)] \in SUBSET Facets BY <3>4, <1>t
      <3>6. AppliedTo(replayed[Len(replayed)], d) \in SUBSET Facets BY <3>5, <3>1, DiffTypes
      <3>7. replayed' \in Seq(SUBSET Facets) /\ Len(replayed') = Len(revLog) + 2
        BY <3>3, <3>4, <3>6, <1>t
      <3>8. revLog' \in Seq(Diffs) /\ Len(revLog') = Len(revLog) + 1 /\ Len(revLog) \in Nat
        BY <3>1, <3>2, <1>t
      <3>9. revCmd' \in [Windows -> Commands] BY <2>1, <1>i DEF RevTypes
      <3>10. RevTypes' BY <3>2, <3>7, <3>8, <3>9, <2>1, <1>t DEF RevTypes
      <3>11. Climbs(revCursor, redoTail)' BY <3>2, <3>8 DEF Climbs
      <3>12. ASSUME NEW v \in Windows, revCmd'[v].do \in {"apply", "cursor"}
             PROVE  Climbs(revCmd[v].cursor, revCmd[v].tail)'
        <4>1. revCmd'[v] = revCmd[v] BY <3>12, <2>1, <1>i DEF RevTypes
        <4>2. revCmd[v] \in Commands BY DEF RevTypes
        <4>3. revCmd[v].cursor \in Nat /\ revCmd[v].tail \in Seq(Nat) BY <3>12, <4>1, <4>2, CommandShapes
        <4>4. Climbs(revCmd[v].cursor, revCmd[v].tail) BY <3>12, <4>1 DEF CursorsClimb
        <4> DEFINE cu == revCmd[v].cursor
                   ta == revCmd[v].tail
        <4>6. /\ Len(revLog') = Len(revLog) + 1 /\ DOMAIN revLog' = 1 .. Len(revLog) + 1
              /\ DOMAIN revLog = 1 .. Len(revLog)
          BY <3>8, <1>t
        <4>7. cu \in 0 .. Len(revLog') BY <4>4, <4>6, <3>8 DEF Climbs
        <4>8. \A i \in DOMAIN ta : ta[i] \in DOMAIN revLog' BY <4>4, <4>6, <3>8 DEF Climbs
        <4> QED BY <4>1, <4>4, <4>7, <4>8, <4>3 DEF Climbs
      <3> QED BY <3>10, <3>11, <3>12 DEF CursorsClimb
    <2> QED BY <1>4, <2>2, <2>3 DEF RecordStep
  <1>5. CASE BeginUndo(w)
    <2> DEFINE c == [do |-> "apply", diff |-> InverseDiff(revLog[revCursor]),
                     cursor |-> revCursor - 1, tail |-> <<revCursor>> \o redoTail]
    <2>1. /\ revCursor \in 1 .. Len(revLog) /\ <<revCursor>> \o redoTail \in Seq(Nat)
          /\ Climbs(revCursor - 1, <<revCursor>> \o redoTail)
      BY <1>5, UndoClimbs DEF BeginUndo
    <2>2. revLog[revCursor] \in Diffs /\ revCursor - 1 \in Nat BY <2>1, <1>t
    <2>5. InverseDiff(revLog[revCursor]) \in Diffs BY <2>2, <1>t, DiffTypes
    <2>3. c \in Commands /\ c.cursor = revCursor - 1 /\ c.tail = <<revCursor>> \o redoTail
      BY <2>1, <2>2, <2>5 DEF Commands
    <2>4. Start(w, c) BY <1>5 DEF BeginUndo, Predecessor
    <2> HIDE DEF c
    <2> QED BY <2>1, <2>3, <2>4, StartKeeps
  <1>6. CASE BeginRedo(w)
    <2> DEFINE c == [do |-> "apply", diff |-> revLog[Head(redoTail)],
                     cursor |-> Head(redoTail), tail |-> Tail(redoTail)]
    <2>1. /\ Head(redoTail) \in 1 .. Len(revLog) /\ Tail(redoTail) \in Seq(Nat)
          /\ Climbs(Head(redoTail), Tail(redoTail))
      BY <1>6, RedoTailClimbs DEF BeginRedo
    <2>2. revLog[Head(redoTail)] \in Diffs BY <2>1, <1>t
    <2>3. c \in Commands /\ c.cursor = Head(redoTail) /\ c.tail = Tail(redoTail)
      BY <2>1, <2>2, <1>t DEF Commands
    <2>4. Start(w, c) BY <1>6 DEF BeginRedo
    <2> HIDE DEF c
    <2> QED BY <2>1, <2>3, <2>4, StartKeeps
  <1>7. CASE ApplyDiff(w)
    <2> DEFINE c == [do |-> "cursor", cursor |-> revCmd[w].cursor, tail |-> revCmd[w].tail]
    <2>1. /\ revCmd[w].diff \in Diffs /\ revCmd[w].cursor \in Nat /\ revCmd[w].tail \in Seq(Nat)
          /\ Climbs(revCmd[w].cursor, revCmd[w].tail)
      BY <1>t, <1>7, CommandShapes DEF ApplyDiff, CursorsClimb
    <2>2. c \in Commands /\ c.cursor = revCmd[w].cursor /\ c.tail = revCmd[w].tail
      BY <2>1 DEF Commands
    <2>3. held' \in SUBSET Facets BY <2>1, <1>t, <1>7, DiffTypes DEF ApplyDiff
    <2>4. revCmd' = [revCmd EXCEPT ![w] = c] /\ UNCHANGED <<revLog, revCursor, redoTail, replayed>>
      BY <1>7 DEF ApplyDiff
    <2> HIDE DEF c
    <2> QED BY <2>1, <2>2, <2>3, <2>4, <1>t, CommandStepKeeps
  <1>8. CASE WriteCursor(w)
    <2>1. /\ revCmd[w].cursor \in Nat /\ revCmd[w].tail \in Seq(Nat)
          /\ Climbs(revCmd[w].cursor, revCmd[w].tail)
      BY <1>t, <1>8, CommandShapes DEF WriteCursor, CursorsClimb
    <2>2. /\ revCmd' = [revCmd EXCEPT ![w] = Idle] /\ UNCHANGED <<revLog, held, replayed>>
          /\ revCursor' = revCmd[w].cursor /\ redoTail' = revCmd[w].tail
      BY <1>8 DEF WriteCursor
    <2> QED BY <2>1, <2>2, <1>t, <1>i, CommandStepKeeps
  <1> QED BY <1>1, <1>2, <1>3, <1>4, <1>5, <1>6, <1>7, <1>8

\* The facets no unrecorded change touched, and two states that agree on them.
Logged == Facets \ unlogged
Matches(s, t) == \A x \in Logged : x \in s <=> x \in t

\* A diff leads from s to t and its inverse back: it was effective at s.
Leads(s, d, t) ==
    \A x \in Logged : /\ x \in d.added => x \notin s /\ x \in t /\ x \notin d.removed
                      /\ x \in d.removed => x \in s /\ x \notin t
                      /\ x \notin d.added \cup d.removed => (x \in s <=> x \in t)

\* The tail is the rest of the log.
Straight(from, tail) ==
    /\ from \in 0 .. Len(revLog) /\ Len(tail) = Len(revLog) - from
    /\ \A i \in 1 .. Len(tail) : tail[i] = from + i

\* What a command under way has left to do is what brings the message where the
\* cursor will be.
StageExact(c) ==
    /\ c.do = "mutate" => /\ c.before = held /\ Matches(held, replayed[revCursor + 1])
                          /\ c.diff.added \cap c.diff.removed = {}
    /\ c.do = "record" => Leads(replayed[revCursor + 1], c.diff, held)
    /\ c.do = "apply"  => Straight(c.cursor, c.tail) /\ Leads(held, c.diff, replayed[c.cursor + 1])
    /\ c.do = "cursor" => Straight(c.cursor, c.tail) /\ Matches(held, replayed[c.cursor + 1])

OneCommand == \A v, w \in Windows : revCmd[v] # Idle /\ revCmd[w] # Idle => v = w
AllIdle == \A w \in Windows : revCmd[w] = Idle
StepsLead == \A n \in 1 .. Len(revLog) : Leads(replayed[n], revLog[n], replayed[n + 1])

ExactNow == /\ OneCommand /\ Straight(revCursor, redoTail) /\ StepsLead
            /\ AllIdle => Matches(held, replayed[revCursor + 1])
            /\ \A w \in Windows : StageExact(revCmd[w])

RevExact == (~overlapped /\ truncated = {}) => ExactNow

\* Diffs and the states they lead between: an effective diff leads where it is
\* applied, its inverse leads back, and the effective part of a change is one.
LEMMA DiffsLead ==
    ASSUME NEW s, NEW t, NEW u, NEW d
    PROVE  /\ Leads(s, d, t) => Matches(AppliedTo(s, d), t) /\ Leads(t, InverseDiff(d), s)
           /\ Leads(s, d, t) => Leads(s, d, AppliedTo(s, d))
           /\ Matches(s, t) /\ Leads(t, d, u) => Leads(s, d, u)
           /\ Matches(s, t) /\ d.added \cap d.removed = {} =>
                  Leads(t, Effective(d, s), AppliedTo(s, d))
  <1>1. Leads(s, d, t) => Matches(AppliedTo(s, d), t) BY DEF Leads, Matches, AppliedTo
  <1>2. Leads(s, d, t) => Leads(t, InverseDiff(d), s) BY DEF Leads, InverseDiff
  <1>3. Leads(s, d, t) => Leads(s, d, AppliedTo(s, d)) BY DEF Leads, AppliedTo
  <1>4. Matches(s, t) /\ Leads(t, d, u) => Leads(s, d, u) BY DEF Leads, Matches
  <1>5. Matches(s, t) /\ d.added \cap d.removed = {} => Leads(t, Effective(d, s), AppliedTo(s, d))
    BY DEF Leads, Matches, Effective, AppliedTo
  <1> QED BY <1>1, <1>2, <1>3, <1>4, <1>5

\* While one command is under way no other is.
LEMMA OneAtATime ==
    ASSUME RevInv, ExactNow, NEW w \in Windows, revCmd[w].do # "idle",
           NEW c, revCmd' = [revCmd EXCEPT ![w] = c]
    PROVE  /\ \A v \in Windows : v # w => revCmd[v] = Idle
           /\ \A v \in Windows : revCmd'[v] = IF v = w THEN c ELSE Idle
           /\ OneCommand'
           /\ AllIdle' => c = Idle
  <1>1. revCmd \in [Windows -> Commands] BY DEF RevInv, RevTypes
  <1>2. revCmd[w] # Idle BY DEF Idle
  <1>3. \A v \in Windows : v # w => revCmd[v] = Idle BY <1>2 DEF ExactNow, OneCommand
  <1>4. \A v \in Windows : revCmd'[v] = IF v = w THEN c ELSE Idle BY <1>1, <1>3
  <1> QED BY <1>3, <1>4 DEF OneCommand, AllIdle

\* A command that starts alone.
LEMMA StartExact ==
    ASSUME RevInv, ExactNow, NEW w \in Windows, NEW c, Start(w, c), ~Others(w),
           c.do # "idle", AllIdle => StageExact(c)
    PROVE  ExactNow'
  <1>1. /\ revCmd' = [revCmd EXCEPT ![w] = c] /\ revCmd[w] = Idle
        /\ UNCHANGED <<revLog, revCursor, redoTail, held, replayed, unlogged>>
    BY DEF Start
  <1>2. revCmd \in [Windows -> Commands] BY DEF RevInv, RevTypes
  <1>3. AllIdle BY <1>1 DEF Others, AllIdle
  <1>4. \A v \in Windows : revCmd'[v] = IF v = w THEN c ELSE Idle BY <1>1, <1>2, <1>3 DEF AllIdle
  <1>5. OneCommand' /\ ~AllIdle' BY <1>4 DEF OneCommand, AllIdle, Idle
  <1>6. StepsLead' /\ Straight(revCursor, redoTail)'
    BY <1>1 DEF ExactNow, StepsLead, Straight, Leads, Logged
  <1>7. StageExact(c) BY <1>3
  <1>8. ASSUME NEW v \in Windows PROVE StageExact(revCmd[v])'
    <2>1. CASE v = w
      <3>1. revCmd'[v] = c BY <1>4, <2>1
      <3> QED BY <3>1, <1>1, <1>7 DEF StageExact, Straight, Leads, Matches, Logged
    <2>2. CASE v # w
      <3>1. revCmd'[v].do = "idle" BY <1>4, <2>2 DEF Idle
      <3> QED BY <3>1 DEF StageExact
    <2> QED BY <2>1, <2>2
  <1> QED BY <1>5, <1>6, <1>8 DEF ExactNow

\* The mutation of a command that is alone: what it changed is what it will
\* record, or a facet no step vouches for.
LEMMA MutateExact ==
    ASSUME RevInv, ExactNow, NEW w \in Windows, Mutate(w)
    PROVE  ExactNow'
  <1> DEFINE c == revCmd[w]
             n == IF c.record THEN [do |-> "record", diff |-> Effective(c.diff, c.before)] ELSE Idle
             r == replayed[revCursor + 1]
  <1>1. /\ revCmd' = [revCmd EXCEPT ![w] = n] /\ held' = AppliedTo(held, c.diff) /\ c.do = "mutate"
        /\ unlogged' = IF c.record THEN unlogged ELSE unlogged \cup c.diff.added \cup c.diff.removed
        /\ UNCHANGED <<revLog, revCursor, redoTail, replayed>>
    BY DEF Mutate
  <1>2. c.before = held /\ Matches(held, r) /\ c.diff.added \cap c.diff.removed = {}
    BY <1>1 DEF ExactNow, StageExact
  <1>3. c.diff \in Diffs BY <1>1, CommandShapes DEF RevInv, RevTypes
  <1>4. Logged' \subseteq Logged BY <1>1 DEF Logged
  <1> HIDE DEF n
  <1>5. /\ \A v \in Windows : revCmd'[v] = IF v = w THEN n ELSE Idle
        /\ OneCommand' /\ (AllIdle' => n = Idle)
    BY <1>1, OneAtATime
  <1>6. StepsLead' /\ Straight(revCursor, redoTail)'
    BY <1>1, <1>4 DEF ExactNow, StepsLead, Straight, Leads
  <1>7. CASE c.record
    <2>1. n = [do |-> "record", diff |-> Effective(c.diff, held)] BY <1>2, <1>7 DEF n
    <2>2. Leads(r, Effective(c.diff, held), AppliedTo(held, c.diff)) BY <1>2, DiffsLead
    <2>3. n.do = "record" /\ n.diff = Effective(c.diff, held) BY <2>1
    <2>4. StageExact(revCmd[w])'
      <3>1. revCmd'[w] = n BY <1>5
      <3>2. Leads(replayed[revCursor + 1], revCmd[w].diff, held)'
        BY <1>1, <1>4, <2>2, <2>3, <3>1 DEF Leads
      <3> QED BY <2>3, <3>1, <3>2 DEF StageExact
    <2>5. \A v \in Windows : StageExact(revCmd[v])'
      <3> TAKE v \in Windows
      <3>1. CASE v = w BY <2>4, <3>1
      <3>2. CASE v # w
        <4>1. revCmd'[v].do = "idle" BY <1>5, <3>2 DEF Idle
        <4> QED BY <4>1 DEF StageExact
      <3> QED BY <3>1, <3>2
    <2>6. n # Idle BY <2>3 DEF Idle
    <2> QED BY <1>5, <1>6, <2>5, <2>6 DEF ExactNow
  <1>8. CASE ~c.record
    <2>1. n = Idle BY <1>8 DEF n
    <2>2. \A v \in Windows : StageExact(revCmd[v])'
      <3> TAKE v \in Windows
      <3>1. revCmd'[v].do = "idle" BY <1>5, <2>1 DEF Idle
      <3> QED BY <3>1 DEF StageExact
    <2>3. \A x \in Logged' : x \in Logged /\ x \notin c.diff.added /\ x \notin c.diff.removed
      BY <1>1, <1>8 DEF Logged
    <2>4. Matches(held, replayed[revCursor + 1])'
      BY <1>1, <1>2, <2>3 DEF Matches, AppliedTo
    <2> QED BY <1>5, <1>6, <2>2, <2>4 DEF ExactNow
  <1> QED BY <1>7, <1>8

\* record_step of a command that is alone: the step extends the log where the
\* cursor stands at its end.
LEMMA RecordExact ==
    ASSUME RevInv, ExactNow, NEW w \in Windows, RecordStep(w), truncated' = {}
    PROVE  ExactNow'
  <1> DEFINE d == revCmd[w].diff
             r == replayed[revCursor + 1]
  <1>1. revCmd' = [revCmd EXCEPT ![w] = Idle] /\ revCmd[w].do = "record" /\ UNCHANGED held
    BY DEF RecordStep
  <1>2. d \in Diffs BY <1>1, CommandShapes DEF RevInv, RevTypes
  <1>3. Leads(r, d, held) BY <1>1 DEF ExactNow, StageExact
  <1>9. revCmd[w].do # "idle" BY <1>1
  <1>10. (\A v \in Windows : revCmd'[v] = IF v = w THEN Idle ELSE Idle) /\ OneCommand'
    BY <1>1, <1>9, OneAtATime
  <1>4. (\A v \in Windows : revCmd'[v] = Idle) /\ OneCommand' BY <1>10
  <1>5. \A v \in Windows : StageExact(revCmd[v])'
    <2> TAKE v \in Windows
    <2>1. revCmd'[v].do = "idle" BY <1>4 DEF Idle
    <2> QED BY <2>1 DEF StageExact
  <1>6. /\ revLog \in Seq(Diffs) /\ replayed \in Seq(SUBSET Facets) /\ Len(replayed) = Len(revLog) + 1
        /\ Len(revLog) \in Nat /\ redoTail \in Seq(Nat) /\ revCursor \in 0 .. Len(revLog)
        /\ Len(redoTail) = Len(revLog) - revCursor
    BY DEF RevInv, RevTypes, ExactNow, Straight
  <1>7. CASE d # NoDiff /\ AppendStep(d) /\ UNCHANGED unlogged
    <2> DEFINE a == AppliedTo(replayed[Len(replayed)], d)
    <2>1. /\ revLog' = Append(revLog, d) /\ revCursor' = Len(revLog) + 1 /\ redoTail' = <<>>
          /\ truncated' = truncated \cup ToSet(redoTail) /\ replayed' = Append(replayed, a)
      BY <1>7 DEF AppendStep
    <2>2. Len(redoTail) = 0
      <3>1. \A i \in DOMAIN redoTail : redoTail[i] \in ToSet(redoTail) BY DEF ToSet
      <3>2. DOMAIN redoTail = {} BY <3>1, <2>1
      <3> QED BY <3>2, <1>6
    <2>3. revCursor = Len(revLog) /\ r = replayed[Len(replayed)] BY <2>2, <1>6
    <2>4. Leads(r, d, a) /\ Matches(a, held)
      <3>1. a = AppliedTo(r, d) BY <2>3
      <3> HIDE DEF d, a, r
      <3> QED BY <1>3, <3>1, DiffsLead
    <2> HIDE DEF d, a
    <2>5. /\ Len(revLog') = Len(revLog) + 1 /\ revLog'[Len(revLog) + 1] = d
          /\ \A i \in 1 .. Len(revLog) : revLog'[i] = revLog[i]
      BY <1>2, <1>6, <2>1
    <2>6. a \in SUBSET Facets
      <3>1. replayed[Len(replayed)] \in SUBSET Facets BY <1>6
      <3> QED BY <3>1, <1>2, DiffTypes DEF a
    <2>7. /\ replayed'[Len(revLog) + 2] = a
          /\ \A i \in 1 .. Len(revLog) + 1 : replayed'[i] = replayed[i]
      BY <1>6, <2>1, <2>6
    <2>8. Logged' = Logged BY <1>7 DEF Logged
    <2>9. ASSUME NEW i \in 1 .. Len(revLog')
          PROVE  Leads(replayed[i], revLog[i], replayed[i + 1])'
      <3>1. CASE i = Len(revLog) + 1
        <4>1. replayed'[i] = r /\ revLog'[i] = d /\ replayed'[i + 1] = a
          BY <3>1, <2>3, <2>5, <2>7, <1>6
        <4> QED BY <4>1, <2>4, <2>8 DEF Leads
      <3>2. CASE i # Len(revLog) + 1
        <4>1. i \in 1 .. Len(revLog) /\ i \in 1 .. Len(revLog) + 1 /\ i + 1 \in 1 .. Len(revLog) + 1
          BY <3>2, <2>5, <1>6
        <4>2. replayed'[i] = replayed[i] /\ revLog'[i] = revLog[i] /\ replayed'[i + 1] = replayed[i + 1]
          BY <4>1, <2>5, <2>7
        <4>3. Leads(replayed[i], revLog[i], replayed[i + 1]) BY <4>1 DEF ExactNow, StepsLead
        <4> QED BY <4>2, <4>3, <2>8 DEF Leads
      <3> QED BY <3>1, <3>2
    <2>10. StepsLead' BY <2>9 DEF StepsLead
    <2>11. Straight(revCursor, redoTail)' BY <2>1, <2>5, <1>6 DEF Straight
    <2>12. Matches(held, replayed[revCursor + 1])'
      <3>1. replayed'[revCursor' + 1] = a BY <2>1, <2>7, <1>6
      <3> QED BY <3>1, <2>4, <2>8, <1>1 DEF Matches
    <2> QED BY <1>4, <1>5, <2>10, <2>11, <2>12 DEF ExactNow
  <1>8. CASE /\ UNCHANGED <<revLog, revCursor, redoTail, replayed>>
             /\ \/ d = NoDiff /\ UNCHANGED unlogged
                \/ unlogged' = unlogged \cup d.added \cup d.removed
    <2>1. \A x \in Logged' : x \in Logged /\ x \notin d.added \cup d.removed
      BY <1>8 DEF Logged, NoDiff
    <2>2. StepsLead' /\ Straight(revCursor, redoTail)'
      BY <1>8, <2>1 DEF ExactNow, StepsLead, Straight, Leads
    <2>3. Matches(held, replayed[revCursor + 1])' BY <1>1, <1>8, <1>3, <2>1 DEF Matches, Leads
    <2> QED BY <1>4, <1>5, <2>2, <2>3 DEF ExactNow
  <1> QED BY <1>7, <1>8 DEF RecordStep

\* undo and redo of a command that is alone: the diff applied, then the cursor.
LEMMA ReplayExact ==
    ASSUME RevInv, ExactNow, NEW w \in Windows, ApplyDiff(w) \/ WriteCursor(w)
    PROVE  ExactNow'
  <1> DEFINE c == revCmd[w]
  <1>1. CASE ApplyDiff(w)
    <2> DEFINE n == [do |-> "cursor", cursor |-> c.cursor, tail |-> c.tail]
    <2>1. /\ revCmd' = [revCmd EXCEPT ![w] = n] /\ held' = AppliedTo(held, c.diff) /\ c.do = "apply"
          /\ UNCHANGED <<revLog, revCursor, redoTail, replayed, unlogged>>
      BY <1>1 DEF ApplyDiff
    <2>2. Straight(c.cursor, c.tail) /\ Leads(held, c.diff, replayed[c.cursor + 1])
      BY <2>1 DEF ExactNow, StageExact
    <2>3. Matches(AppliedTo(held, c.diff), replayed[c.cursor + 1]) BY <2>2, DiffsLead
    <2>4. n.do = "cursor" /\ n.cursor = c.cursor /\ n.tail = c.tail /\ n # Idle BY DEF Idle
    <2> HIDE DEF n
    <2>5. /\ \A v \in Windows : revCmd'[v] = IF v = w THEN n ELSE Idle
          /\ OneCommand' /\ (AllIdle' => n = Idle)
      BY <2>1, OneAtATime
    <2>6. StepsLead' /\ Straight(revCursor, redoTail)'
      BY <2>1 DEF ExactNow, StepsLead, Straight, Leads, Logged
    <2>7. ASSUME NEW v \in Windows PROVE StageExact(revCmd[v])'
      <3>1. CASE v = w
        <4>1. revCmd'[v] = n BY <3>1, <2>5
        <4> QED BY <4>1, <2>1, <2>2, <2>3, <2>4 DEF StageExact, Straight, Matches, Logged
      <3>2. CASE v # w
        <4>1. revCmd'[v].do = "idle" BY <2>5, <3>2 DEF Idle
        <4> QED BY <4>1 DEF StageExact
      <3> QED BY <3>1, <3>2
    <2> QED BY <2>4, <2>5, <2>6, <2>7 DEF ExactNow
  <1>2. CASE WriteCursor(w)
    <2>1. /\ revCmd' = [revCmd EXCEPT ![w] = Idle] /\ revCursor' = c.cursor /\ redoTail' = c.tail
          /\ c.do = "cursor" /\ UNCHANGED <<revLog, held, replayed, unlogged>>
      BY <1>2 DEF WriteCursor
    <2>2. Straight(c.cursor, c.tail) /\ Matches(held, replayed[c.cursor + 1])
      BY <2>1 DEF ExactNow, StageExact
    <2>8. revCmd[w].do # "idle" BY <2>1
    <2>9. OneCommand' /\ \A v \in Windows : revCmd'[v] = IF v = w THEN Idle ELSE Idle
      BY <2>1, <2>8, OneAtATime
    <2>3. OneCommand' /\ \A v \in Windows : revCmd'[v] = Idle BY <2>9
    <2>4. StepsLead' BY <2>1 DEF ExactNow, StepsLead, Leads, Logged
    <2>5. Straight(revCursor, redoTail)' BY <2>1, <2>2 DEF Straight
    <2>6. Matches(held, replayed[revCursor + 1])' BY <2>1, <2>2 DEF Matches, Logged
    <2>7. \A v \in Windows : StageExact(revCmd[v])'
      <3> TAKE v \in Windows
      <3>1. revCmd'[v].do = "idle" BY <2>3 DEF Idle
      <3> QED BY <3>1 DEF StageExact
    <2> QED BY <2>3, <2>4, <2>5, <2>6, <2>7 DEF ExactNow
  <1> QED BY <1>1, <1>2

\* What undo and redo will do is exact when they start.
LEMMA UndoLeads ==
    ASSUME RevInv, ExactNow, AllIdle, revCursor \in Snapshot
    PROVE  /\ Straight(revCursor - 1, <<revCursor>> \o redoTail)
           /\ Leads(held, InverseDiff(revLog[revCursor]), replayed[(revCursor - 1) + 1])
  <1> DEFINE tail == <<revCursor>> \o redoTail
  <1>1. /\ revCursor \in 1 .. Len(revLog) /\ Len(tail) = Len(redoTail) + 1
        /\ \A i \in 1 .. Len(redoTail) + 1 : tail[i] = IF i = 1 THEN revCursor ELSE redoTail[i - 1]
    BY UndoClimbs
  <1>2. /\ Len(revLog) \in Nat /\ Len(redoTail) = Len(revLog) - revCursor
        /\ \A i \in 1 .. Len(redoTail) : redoTail[i] = revCursor + i
    BY DEF RevInv, RevTypes, ExactNow, Straight
  <1> HIDE DEF tail
  <1>3. ASSUME NEW i \in 1 .. Len(tail) PROVE tail[i] = (revCursor - 1) + i
    <2>1. CASE i = 1 BY <2>1, <1>1, <1>2
    <2>2. CASE i # 1
      <3>1. i - 1 \in 1 .. Len(redoTail) BY <2>2, <1>1, <1>2
      <3> QED BY <3>1, <2>2, <1>1, <1>2
    <2> QED BY <2>1, <2>2
  <1>4. Straight(revCursor - 1, tail) BY <1>1, <1>2, <1>3 DEF Straight
  <1>5. Matches(held, replayed[revCursor + 1]) BY DEF ExactNow
  <1>6. Leads(replayed[revCursor], revLog[revCursor], replayed[revCursor + 1])
    BY <1>1 DEF ExactNow, StepsLead
  <1>7. Leads(held, InverseDiff(revLog[revCursor]), replayed[revCursor]) BY <1>5, <1>6, DiffsLead
  <1>8. (revCursor - 1) + 1 = revCursor BY <1>1, <1>2
  <1> QED BY <1>4, <1>7, <1>8 DEF tail

\* The same for redo.
LEMMA RedoLeads ==
    ASSUME RevInv, ExactNow, AllIdle, redoTail # <<>>, Head(redoTail) \in Snapshot
    PROVE  /\ Straight(Head(redoTail), Tail(redoTail))
           /\ Leads(held, revLog[Head(redoTail)], replayed[Head(redoTail) + 1])
  <1>1. /\ Head(redoTail) = redoTail[1] /\ Head(redoTail) \in 1 .. Len(revLog)
        /\ Len(Tail(redoTail)) = Len(redoTail) - 1
        /\ \A i \in 1 .. Len(redoTail) - 1 : Tail(redoTail)[i] = redoTail[i + 1]
    BY RedoTailClimbs
  <1>2. /\ Len(revLog) \in Nat /\ Len(redoTail) = Len(revLog) - revCursor
        /\ \A i \in 1 .. Len(redoTail) : redoTail[i] = revCursor + i
        /\ redoTail \in Seq(Nat) /\ revCursor \in 0 .. Len(revLog)
    BY DEF RevInv, RevTypes, ExactNow, Straight
  <1>3. Len(redoTail) \in Nat \ {0} BY <1>2
  <1>4. Head(redoTail) = revCursor + 1 BY <1>1, <1>2, <1>3
  <1>5. ASSUME NEW i \in 1 .. Len(redoTail) - 1 PROVE Tail(redoTail)[i] = Head(redoTail) + i
    <2>1. i + 1 \in 1 .. Len(redoTail) BY <1>3
    <2>2. redoTail[i + 1] = revCursor + (i + 1) BY <2>1, <1>2
    <2>3. Tail(redoTail)[i] = redoTail[i + 1] BY <1>1
    <2> QED BY <2>2, <2>3, <1>4, <1>2
  <1>6. Straight(Head(redoTail), Tail(redoTail))
    BY <1>1, <1>2, <1>3, <1>4, <1>5 DEF Straight
  <1>7. Matches(held, replayed[Head(redoTail)]) BY <1>4 DEF ExactNow
  <1>8. Leads(replayed[Head(redoTail)], revLog[Head(redoTail)], replayed[Head(redoTail) + 1])
    BY <1>1 DEF ExactNow, StepsLead
  <1> QED BY <1>6, <1>7, <1>8, DiffsLead

\* The state of the message a command reads first.
LEMMA ForwardExact ==
    ASSUME RevInv, ExactNow, NEW w \in Windows, NEW d, NEW record,
           Forward(w, d, record), d.added \cap d.removed = {}, ~Others(w)
    PROVE  ExactNow'
  <1> DEFINE c == [do |-> "mutate", before |-> held, record |-> record, diff |-> d]
  <1>1. c.do = "mutate" /\ c.before = held /\ c.diff = d OBVIOUS
  <1>2. Start(w, c) BY DEF Forward
  <1> HIDE DEF c
  <1>3. AllIdle => StageExact(c) BY <1>1 DEF ExactNow, StageExact
  <1> QED BY <1>1, <1>2, <1>3, StartExact

\* Every action keeps undo and redo exact while commands do not overlap and
\* no tail is cleared.
LEMMA ExactStep ==
    ASSUME RevInv, ExactNow, NEW w \in Windows, truncated' = {},
           revCmd[w] = Idle => ~Others(w),
           \/ BeginSetKeywords(w) \/ BeginReplaceMailboxes(w) \/ Mutate(w)
           \/ RecordStep(w) \/ BeginUndo(w) \/ BeginRedo(w) \/ ApplyDiff(w)
           \/ WriteCursor(w)
    PROVE  ExactNow'
  <1>1. CASE BeginSetKeywords(w)
    <2>1. PICK add \in SUBSET Keywords, remove \in SUBSET Keywords, record \in BOOLEAN :
              add \cap remove = {} /\ Forward(w, [added |-> add, removed |-> remove], record)
      BY <1>1 DEF BeginSetKeywords
    <2> DEFINE d == [added |-> add, removed |-> remove]
    <2>2. d.added \cap d.removed = {} /\ Forward(w, d, record) BY <2>1
    <2>3. ~Others(w) BY <2>1 DEF Forward, Start
    <2> HIDE DEF d
    <2> QED BY <2>2, <2>3, ForwardExact
  <1>2. CASE BeginReplaceMailboxes(w)
    <2>1. PICK target \in Boxes : Forward(w, [added |-> {target}, removed |-> Boxes \ {target}], TRUE)
      BY <1>2 DEF BeginReplaceMailboxes
    <2> DEFINE d == [added |-> {target}, removed |-> Boxes \ {target}]
    <2>2. d.added \cap d.removed = {} /\ Forward(w, d, TRUE) BY <2>1
    <2>3. ~Others(w) BY <2>1 DEF Forward, Start
    <2> HIDE DEF d
    <2> QED BY <2>2, <2>3, ForwardExact
  <1>3. CASE Mutate(w) BY <1>3, MutateExact
  <1>4. CASE RecordStep(w) BY <1>4, RecordExact
  <1>5. CASE BeginUndo(w)
    <2> DEFINE c == [do |-> "apply", diff |-> InverseDiff(revLog[revCursor]),
                     cursor |-> revCursor - 1, tail |-> <<revCursor>> \o redoTail]
    <2>1. /\ c.do = "apply" /\ c.diff = InverseDiff(revLog[revCursor])
          /\ c.cursor = revCursor - 1 /\ c.tail = <<revCursor>> \o redoTail
      OBVIOUS
    <2>2. Start(w, c) /\ revCursor \in Snapshot BY <1>5 DEF BeginUndo, Predecessor
    <2>3. ~Others(w) BY <2>2 DEF Start
    <2> HIDE DEF c
    <2>4. AllIdle => StageExact(c) BY <2>1, <2>2, UndoLeads DEF StageExact
    <2> QED BY <2>1, <2>2, <2>3, <2>4, StartExact
  <1>6. CASE BeginRedo(w)
    <2> DEFINE c == [do |-> "apply", diff |-> revLog[Head(redoTail)],
                     cursor |-> Head(redoTail), tail |-> Tail(redoTail)]
    <2>1. /\ c.do = "apply" /\ c.diff = revLog[Head(redoTail)]
          /\ c.cursor = Head(redoTail) /\ c.tail = Tail(redoTail)
      OBVIOUS
    <2>2. Start(w, c) /\ redoTail # <<>> /\ Head(redoTail) \in Snapshot BY <1>6 DEF BeginRedo
    <2>3. ~Others(w) BY <2>2 DEF Start
    <2> HIDE DEF c
    <2>4. AllIdle => StageExact(c) BY <2>1, <2>2, RedoLeads DEF StageExact
    <2> QED BY <2>1, <2>2, <2>3, <2>4, StartExact
  <1>7. CASE ApplyDiff(w) BY <1>7, ReplayExact
  <1>8. CASE WriteCursor(w) BY <1>8, ReplayExact
  <1> QED BY <1>1, <1>2, <1>3, <1>4, <1>5, <1>6, <1>7, <1>8

\* Overlaps and cleared tails are remembered: a step after which there were none
\* began without any, and a command starts there alone.
LEMMA Remembered ==
    ASSUME NEW w \in Windows, ~overlapped', truncated' = {},
           \/ BeginSetKeywords(w) \/ BeginReplaceMailboxes(w) \/ Mutate(w)
           \/ RecordStep(w) \/ BeginUndo(w) \/ BeginRedo(w) \/ ApplyDiff(w)
           \/ WriteCursor(w)
    PROVE  ~overlapped /\ truncated = {} /\ (revCmd[w] = Idle => ~Others(w))
  <1>1. ASSUME NEW c, Start(w, c) PROVE ~overlapped /\ truncated = {} /\ ~Others(w)
    BY <1>1, Zenon DEF Start
  <1>2. CASE BeginSetKeywords(w) BY <1>1, <1>2 DEF BeginSetKeywords, Forward
  <1>3. CASE BeginReplaceMailboxes(w) BY <1>1, <1>3 DEF BeginReplaceMailboxes, Forward
  <1>4. CASE BeginUndo(w) BY <1>1, <1>4 DEF BeginUndo
  <1>5. CASE BeginRedo(w) BY <1>1, <1>5 DEF BeginRedo
  <1>6. CASE Mutate(w)
    <2>1. UNCHANGED <<overlapped, truncated>> /\ revCmd[w].do = "mutate" BY <1>6 DEF Mutate
    <2> QED BY <2>1 DEF Idle
  <1>7. CASE RecordStep(w)
    <2>1. UNCHANGED overlapped /\ truncated = {} /\ revCmd[w].do = "record"
      BY <1>7 DEF RecordStep, AppendStep
    <2> QED BY <2>1 DEF Idle
  <1>8. CASE ApplyDiff(w)
    <2>1. UNCHANGED <<overlapped, truncated>> /\ revCmd[w].do = "apply" BY <1>8 DEF ApplyDiff
    <2> QED BY <2>1 DEF Idle
  <1>9. CASE WriteCursor(w)
    <2>1. UNCHANGED <<overlapped, truncated>> /\ revCmd[w].do = "cursor" BY <1>9 DEF WriteCursor
    <2> QED BY <2>1 DEF Idle
  <1> QED BY <1>2, <1>3, <1>4, <1>5, <1>6, <1>7, <1>8, <1>9

\* Undo and redo (RevLogService::undo, redo and record_step over the store's
\* append_rev_log_step and set_rev_cursor) walk the recorded steps in order
\* whatever interleaves, and exactly while commands do not overlap.
THEOREM UndoRedoAlwaysExact == RevSpec => []UndoRedoExact
  <1>1. RevInit => RevInv /\ RevExact
    <2> SUFFICES ASSUME RevInit PROVE RevInv /\ ExactNow BY DEF RevExact
    <2>1. RevInv BY RevInvInit
    <2>2. /\ revLog = <<>> /\ revCursor = 0 /\ redoTail = <<>> /\ held = replayed[1]
          /\ Len(revLog) = 0 /\ Len(redoTail) = 0 /\ \A w \in Windows : revCmd[w] = Idle
      BY DEF RevInit
    <2>3. StepsLead /\ Straight(revCursor, redoTail) /\ Matches(held, replayed[revCursor + 1])
      BY <2>2 DEF StepsLead, Straight, Matches
    <2>4. OneCommand /\ \A w \in Windows : StageExact(revCmd[w])
      BY <2>2 DEF OneCommand, StageExact, Idle
    <2> QED BY <2>1, <2>3, <2>4 DEF ExactNow
  <1>2. RevInv /\ RevExact /\ [RevNext]_revVars => RevInv' /\ RevExact'
    <2> SUFFICES ASSUME RevInv, RevExact, [RevNext]_revVars PROVE RevInv' /\ RevExact'
      OBVIOUS
    <2>1. CASE RevNext
      <3>1. PICK w \in Windows :
                \/ BeginSetKeywords(w) \/ BeginReplaceMailboxes(w) \/ Mutate(w)
                \/ RecordStep(w) \/ BeginUndo(w) \/ BeginRedo(w) \/ ApplyDiff(w)
                \/ WriteCursor(w)
        BY <2>1 DEF RevNext
      <3>2. RevInv' BY <3>1, RevInvStep
      <3>3. ASSUME ~overlapped', truncated' = {} PROVE ExactNow'
        <4>1. ~overlapped /\ truncated = {} /\ (revCmd[w] = Idle => ~Others(w))
          BY <3>1, <3>3, Remembered
        <4>2. ExactNow BY <4>1 DEF RevExact
        <4> QED BY <3>1, <3>3, <4>1, <4>2, ExactStep
      <3> QED BY <3>2, <3>3 DEF RevExact
    <2>2. CASE UNCHANGED revVars
      BY <2>2 DEF revVars, RevInv, RevTypes, CursorsClimb, Climbs, RevExact, ExactNow, OneCommand,
                  AllIdle, StepsLead, Straight, StageExact, Leads, Matches, Logged
    <2> QED BY <2>1, <2>2
  <1>3. RevInv /\ RevExact => UndoRedoExact
    <2> SUFFICES ASSUME RevInv, RevExact PROVE UndoRedoExact OBVIOUS
    <2>1. RedoClimbs BY DEF RedoClimbs, RevInv, CursorsClimb, Climbs
    <2>2. ASSUME ~overlapped, truncated = {}, \A w \in Windows : revCmd[w] = Idle
          PROVE  replayed[revCursor + 1] \ unlogged = held \ unlogged
      <3>1. Matches(held, replayed[revCursor + 1]) BY <2>2 DEF RevExact, ExactNow, AllIdle
      <3>2. held \in SUBSET Facets /\ replayed \in Seq(SUBSET Facets)
            /\ revCursor \in 0 .. Len(revLog) /\ Len(replayed) = Len(revLog) + 1 /\ Len(revLog) \in Nat
        BY DEF RevInv, RevTypes, CursorsClimb, Climbs
      <3>3. replayed[revCursor + 1] \in SUBSET Facets BY <3>2
      <3> QED BY <3>1, <3>2, <3>3 DEF Matches, Logged
    <2>3. UndoIsExact BY <2>2 DEF UndoIsExact
    <2> QED BY <2>1, <2>3 DEF UndoRedoExact
  <1> QED BY <1>1, <1>2, <1>3, PTL DEF RevSpec

-----------------------------------------------------------------------------
(***************************************************************************)
(* What the store derives.  An index deletion names the values that were   *)
(* indexed because every row is documented as it is; the rows of a thread  *)
(* change only in a write that refreshes its projections.                  *)
(***************************************************************************)
Rows == [header : Nat, read : BOOLEAN, body : BOOLEAN, text : Nat, cc : BOOLEAN,
         doc : [header : Nat, text : Nat]]

\* The document of a row is the row's, and a row without a body has no text.
Documents(r) == r.doc = IF r.header = 0 THEN NoDocument ELSE [header |-> r.header, text |-> r.text]
Sound(r) == Documents(r) /\ (r.header = 0 \/ ~r.body => r.text = 0)

ProjTypes == /\ rows \in [Stored -> Rows]
             /\ rederive.at = "fill" => \E m \in Stored : rederive.page = {m}

ProjInv == /\ ProjTypes /\ ConversationExact
           /\ ~Upgraded => ~torn /\ \A m \in Stored : Sound(rows[m])

\* The triggers keep a row a row.
LEMMA TriggerTypes ==
    ASSUME NEW r \in Rows, NEW new \in Rows, NEW text \in Nat
    PROVE  /\ Documented(r, text) \in Rows
           /\ InsertedRow(r).row \in Rows /\ UpdatedRow(r, new).row \in Rows
           /\ WithBody(r, text).row \in Rows /\ Filled(r).row \in Rows
           /\ DroppedRow(r).row = NoRow /\ NoRow \in Rows
  <1>1. \A s \in Rows, t \in Nat : Documented(s, t) \in Rows BY DEF Documented, Rows
  <1>2. InsertedRow(r).row \in Rows
    <2>1. r.text \in Nat BY DEF Rows
    <2> QED BY <1>1, <2>1 DEF InsertedRow
  <1>3. \A s \in Rows : UpdatedRow(r, s).row \in Rows
    <2> TAKE s \in Rows
    <2>1. s.text \in Nat BY DEF Rows
    <2> QED BY <1>1, <2>1 DEF UpdatedRow
  <1>4. WithBody(r, text).row \in Rows
    <2>1. [r EXCEPT !.body = TRUE, !.text = text] \in Rows BY DEF Rows
    <2> QED BY <1>1, <2>1 DEF WithBody
  <1>5. Filled(r).row \in Rows
    <2>1. [r EXCEPT !.cc = TRUE] \in Rows BY DEF Rows
    <2> QED BY <1>3, <2>1 DEF Filled
  <1>6. NoRow \in Rows BY DEF NoRow, NoDocument, Rows
  <1> QED BY <1>1, <1>2, <1>3, <1>4, <1>5, <1>6 DEF DroppedRow

\* A sound row keeps sound under each trigger, which names what was indexed.
LEMMA TriggersSound ==
    ASSUME NEW r \in Rows, Sound(r), NEW new \in Rows, NEW text \in Nat,
           new.header # 0, new.text = r.text, new.body <=> r.body
    PROVE  /\ r.header = 0 => Sound(InsertedRow(new).row) /\ InsertedRow(new).ok
           /\ r.header # 0 => Sound(UpdatedRow(r, new).row) /\ UpdatedRow(r, new).ok
           /\ r.header # 0 => Sound(WithBody(r, text).row) /\ WithBody(r, text).ok
           /\ r.header # 0 => DroppedRow(r).ok
           /\ Sound(NoRow)
  <1>1. Documented(new, new.text).doc = [header |-> new.header, text |-> new.text]
        /\ Documented(new, new.text).header = new.header /\ Documented(new, new.text).text = new.text
        /\ (Documented(new, new.text).body <=> new.body)
    BY DEF Documented, Rows
  <1>2. Sound(Documented(new, new.text)) BY <1>1 DEF Sound, Documents
  <1>3. r.header = 0 => Sound(InsertedRow(new).row) /\ InsertedRow(new).ok
    BY <1>2 DEF InsertedRow
  <1>4. r.header # 0 => Sound(UpdatedRow(r, new).row) /\ UpdatedRow(r, new).ok
    BY <1>2 DEF UpdatedRow, Sound, Documents, Deleted
  <1>5. ASSUME r.header # 0 PROVE Sound(WithBody(r, text).row) /\ WithBody(r, text).ok
    <2> DEFINE b == [r EXCEPT !.body = TRUE, !.text = text]
               d == [b EXCEPT !.doc = [header |-> b.header, text |-> text]]
    <2>1. d.header = r.header /\ d.body /\ d.text = text /\ d.doc = [header |-> r.header, text |-> text]
      BY DEF Rows
    <2>2. Sound(d) BY <2>1, <1>5 DEF Sound, Documents
    <2>3. WithBody(r, text).row = d BY DEF WithBody, Documented
    <2>4. r.doc = [header |-> r.header, text |-> IF r.body THEN r.text ELSE 0]
      BY <1>5 DEF Sound, Documents
    <2>5. WithBody(r, text).ok BY <2>4 DEF WithBody, Deleted
    <2> QED BY <2>2, <2>3, <2>5
  <1>6. ASSUME r.header # 0 PROVE DroppedRow(r).ok
    <2> DEFINE b == [r EXCEPT !.body = FALSE, !.text = 0]
               d == [b EXCEPT !.doc = [header |-> b.header, text |-> 0]]
    <2>1. d.doc = [header |-> r.header, text |-> 0] /\ d.text = 0 BY DEF Rows
    <2>2. r.doc = [header |-> r.header, text |-> r.text] /\ (~r.body => r.text = 0)
      BY <1>6 DEF Sound, Documents
    <2>3. CASE r.body
      BY <2>1, <2>2, <2>3 DEF DroppedRow, Deleted, Documented
    <2>4. CASE ~r.body
      BY <2>1, <2>2, <2>4 DEF DroppedRow, Deleted, Documented
    <2> QED BY <2>3, <2>4
  <1>7. Sound(NoRow) BY DEF Sound, Documents, NoRow, NoDocument
  <1> QED BY <1>3, <1>4, <1>5, <1>6, <1>7

\* A record applied to a row (apply_message_record_tx).
LEMMA AppliedSound ==
    ASSUME NEW r \in Rows, NEW rec \in Records
    PROVE  /\ Applied1(r, rec).row \in Rows
           /\ Sound(r) => Sound(Applied1(r, rec).row) /\ Applied1(r, rec).ok
  <1>1. /\ rec.header \in Nat \ {0} /\ rec.read \in BOOLEAN /\ rec.cc \in BOOLEAN
        /\ rec.body \in BOOLEAN /\ rec.text \in Nat
    <2>1. CASE rec \in FirstRecords
      <3>1. rec.header \in {1} /\ rec.text \in {1} BY <2>1 DEF FirstRecords
      <3>2. rec.read \in {FALSE} /\ rec.cc \in BOOLEAN /\ rec.body \in BOOLEAN
        BY <2>1, Zenon DEF FirstRecords
      <3>3. rec.read \in BOOLEAN BY <3>2, Zenon
      <3>4. rec.header \in Nat \ {0} /\ rec.text \in Nat BY <3>1
      <3> QED BY <3>2, <3>3, <3>4, Zenon
    <2>2. CASE rec = SecondRecord
      <3>1. rec.header = 2 /\ rec.text = 0 BY <2>2 DEF SecondRecord
      <3>2. rec.read = TRUE /\ rec.cc = FALSE /\ rec.body = FALSE BY <2>2, Zenon DEF SecondRecord
      <3>3. rec.header \in Nat \ {0} /\ rec.text \in Nat BY <3>1
      <3> QED BY <3>2, <3>3, Zenon
    <2> QED BY <2>1, <2>2 DEF Records
  <1> DEFINE new == [r EXCEPT !.header = rec.header, !.read = rec.read, !.cc = KeptCc(r, rec.cc)]
             first == IF r.header = 0 THEN InsertedRow(new) ELSE UpdatedRow(r, new)
             second == WithBody(first.row, rec.text)
  <1>2. KeptCc(r, rec.cc) \in BOOLEAN BY DEF KeptCc
  <1>3. new \in Rows BY <1>1, <1>2 DEF Rows
  <1>4. new.header = rec.header /\ new.text = r.text /\ (new.body <=> r.body) BY DEF Rows
  <1> HIDE DEF new
  <1>5. first.row \in Rows BY <1>3, TriggerTypes
  <1>6. Sound(r) => Sound(first.row) /\ first.ok
    <2>1. 0 \in Nat /\ new.header # 0 BY <1>1, <1>4
    <2>2. CASE r.header = 0 BY <1>3, <1>4, <2>1, <2>2, TriggersSound
    <2>3. CASE r.header # 0 BY <1>3, <1>4, <2>1, <2>3, TriggersSound
    <2> QED BY <2>2, <2>3
  <1>7. first.row.header # 0
    <2>1. new.text \in Nat BY <1>3 DEF Rows
    <2>2. Documented(new, new.text).header = new.header BY <1>3 DEF Documented, Rows
    <2>3. first.row = Documented(new, new.text) BY DEF InsertedRow, UpdatedRow
    <2> QED BY <2>2, <2>3, <1>1, <1>4
  <1> HIDE DEF first
  <1>8. second.row \in Rows BY <1>1, <1>5, TriggerTypes
  <1>9. Sound(first.row) => Sound(second.row) /\ second.ok
    BY <1>1, <1>5, <1>7, TriggersSound
  <1>10. Applied1(r, rec) = IF ~rec.body THEN first
                            ELSE [row |-> second.row, ok |-> first.ok /\ second.ok]
    BY Zenon DEF Applied1, first, new
  <1> HIDE DEF second
  <1>11. CASE ~rec.body
    <2>1. Applied1(r, rec) = first BY <1>10, <1>11
    <2> QED BY <1>5, <1>6, <2>1
  <1>12. CASE rec.body
    <2> DEFINE both == first.ok /\ second.ok
    <2>1. Applied1(r, rec) = [row |-> second.row, ok |-> both] BY <1>10, <1>12
    <2> HIDE DEF both
    <2>2. Applied1(r, rec).row = second.row /\ Applied1(r, rec).ok = both BY <2>1
    <2>3. first.ok /\ second.ok => Applied1(r, rec).ok BY <2>2, Zenon DEF both
    <2> QED BY <2>2, <2>3, <1>6, <1>8, <1>9
  <1> QED BY <1>11, <1>12

\* A body, and the columns derived from it, change neither the header nor the
\* read flag.
LEMMA BodySound ==
    ASSUME NEW r \in Rows, NEW text \in Nat
    PROVE  /\ WithBody(r, text).row.header = r.header
           /\ WithBody(r, text).row.read <=> r.read
           /\ Filled(r).row.header = r.header
           /\ Filled(r).row.read <=> r.read
           /\ Sound(r) => Sound(Filled(r).row) /\ Filled(r).ok
  <1> DEFINE f == [r EXCEPT !.cc = TRUE]
             b == [r EXCEPT !.body = TRUE, !.text = text]
  <1>1. f \in Rows /\ f.header = r.header /\ f.text = r.text /\ (f.body <=> r.body) /\ (f.read <=> r.read)
    BY DEF Rows
  <1>2. b \in Rows /\ b.header = r.header /\ (b.read <=> r.read) BY DEF Rows
  <1> HIDE DEF f, b
  <1>3. \A s \in Rows, t \in Nat : Documented(s, t).header = s.header /\ (Documented(s, t).read <=> s.read)
    BY DEF Documented, Rows
  <1>4. WithBody(r, text).row = Documented(b, text) BY DEF WithBody, b
  <1>5. f.text \in Nat BY <1>1 DEF Rows
  <1>6. CASE r.header = 0 \/ r.cc
    <2>1. Filled(r) = [row |-> r, ok |-> TRUE] BY <1>6, Zenon DEF Filled
    <2> QED BY <2>1, <1>2, <1>3, <1>4
  <1>7. CASE ~(r.header = 0 \/ r.cc)
    <2>1. Filled(r) = UpdatedRow(r, f) BY <1>7 DEF Filled, f
    <2>2. UpdatedRow(r, f).row = Documented(f, f.text) BY DEF UpdatedRow
    <2>3. Sound(r) => Sound(UpdatedRow(r, f).row) /\ UpdatedRow(r, f).ok
      BY <1>1, <1>7, TriggersSound
    <2> QED BY <2>1, <2>2, <2>3, <1>1, <1>2, <1>3, <1>4, <1>5
  <1> QED BY <1>6, <1>7

\* The projections of a thread depend on its members' rows only.
LEMMA ViewsSame ==
    ASSUME NEW all, NEW also, NEW t,
           \A m \in Stored : ThreadOf(m) = t =>
               also[m].header = all[m].header /\ (also[m].read <=> all[m].read)
    PROVE  ThreadOfRows(also, t) = ThreadOfRows(all, t)
           /\ ConversationOfRows(also, t) = ConversationOfRows(all, t)
  <1>1. ThreadOfRows(also, t) = ThreadOfRows(all, t) BY DEF ThreadOfRows, Held
  <1>2. {m \in ThreadOfRows(also, t) : ~also[m].read} = {m \in ThreadOfRows(all, t) : ~all[m].read}
    BY <1>1 DEF ThreadOfRows, Held
  <1> QED BY <1>1, <1>2 DEF ConversationOfRows

\* A nonempty set of numbers has its least.
LEMMA LeastExists ==
    ASSUME NEW S \in SUBSET Nat, S # {}
    PROVE  Min(S) \in S /\ \A x \in S : Min(S) <= x
  <1> DEFINE R == OpToRel(<, Nat)
  <1>1. IsWellFoundedOn(R, Nat) BY NatLessThanWellFounded, Zenon
  <1>2. \A x, y \in Nat : x < y => <<x, y>> \in R BY DEF OpToRel
  <1> HIDE DEF R
  <1>3. PICK x \in S : \A y \in S : ~(<<y, x>> \in R) BY <1>1, WFMin
  <1>4. \A y \in S : x =< y
    <2> TAKE y \in S
    <2>1. ~(y < x) BY <1>2, <1>3
    <2> QED BY <2>1
  <1> QED BY <1>4 DEF Min

\* The initial states.
LEMMA ProjInvInit == ProjInit => ProjInv
  <1> SUFFICES ASSUME ProjInit PROVE ProjInv OBVIOUS
  <1>1. NoRow \in Rows /\ OldRow \in Rows BY DEF NoRow, OldRow, NoDocument, Rows
  <1>2. rows \in [Stored -> Rows] BY <1>1 DEF ProjInit
  <1>3. ConversationExact BY DEF ProjInit, ConversationExact
  <1>4. rederive.at # "fill" BY DEF ProjInit, NoPass
  <1>5. ~Upgraded => ~torn BY DEF ProjInit
  <1>6. ~Upgraded => \A m \in Stored : Sound(rows[m])
    <2> SUFFICES ASSUME ~Upgraded, NEW m \in Stored PROVE Sound(rows[m]) OBVIOUS
    <2>1. rows[m] = NoRow BY DEF ProjInit
    <2> QED BY <2>1 DEF Sound, Documents, NoRow, NoDocument
  <1> QED BY <1>2, <1>3, <1>4, <1>5, <1>6 DEF ProjInv, ProjTypes

\* A write that leaves headers and read flags leaves the conversations exact.
LEMMA ConversationsStand ==
    ASSUME ConversationExact, UNCHANGED <<threadView, convRow>>,
           \A m \in Stored : rows'[m].header = rows[m].header /\ (rows'[m].read <=> rows[m].read)
    PROVE  ConversationExact'
  <1> SUFFICES ASSUME NEW t \in Threads
               PROVE  threadView'[t] = ThreadOfRows(rows', t) /\ convRow'[t] = ConversationOfRows(rows', t)
    BY DEF ConversationExact, ThreadOfRows, ConversationOfRows, Held
  <1>1. /\ ThreadOfRows(rows', t) = ThreadOfRows(rows, t)
        /\ ConversationOfRows(rows', t) = ConversationOfRows(rows, t)
    BY ViewsSame
  <1> QED BY <1>1 DEF ConversationExact

\* apply_sync_batch_tx
LEMMA BatchKeeps == ProjInv /\ ApplyBatch => ProjInv'
  <1> SUFFICES ASSUME ProjInv, ApplyBatch PROVE ProjInv' OBVIOUS
  <1>1. PICK dels \in SUBSET Held(rows), m \in Stored, rec \in Records :
          /\ m \notin dels
          /\ LET dropped == [k \in Stored |-> IF k \in dels THEN DroppedRow(rows[k]) ELSE [row |-> rows[k], ok |-> TRUE]]
                 applied == Applied1(dropped[m].row, rec)
                 all == [k \in Stored |-> IF k = m THEN applied.row ELSE dropped[k].row]
             IN  /\ rows' = all
                 /\ torn' = (torn \/ ~applied.ok \/ \E k \in Stored : ~dropped[k].ok)
                 /\ Refreshed(all, TouchedThreads(dels, {m}))
    BY DEF ApplyBatch
  <1> DEFINE dropped == [k \in Stored |-> IF k \in dels THEN DroppedRow(rows[k]) ELSE [row |-> rows[k], ok |-> TRUE]]
             applied == Applied1(rows[m], rec)
             all == [k \in Stored |-> IF k = m THEN applied.row
                                      ELSE IF k \in dels THEN NoRow ELSE rows[k]]
  <1>2. rows \in [Stored -> Rows] BY DEF ProjInv, ProjTypes
  <1>3. dropped[m].row = rows[m] BY <1>1
  <1>4. \A k \in Stored : dropped[k].row = IF k \in dels THEN NoRow ELSE rows[k] BY DEF DroppedRow
  <1>5. rows' = all BY <1>1, <1>3, <1>4
  <1>6. torn' = (torn \/ ~applied.ok \/ \E k \in Stored : ~dropped[k].ok) BY <1>1, <1>3
  <1>7. Refreshed(rows', TouchedThreads(dels, {m})) BY <1>1
  <1>8. applied.row \in Rows /\ (Sound(rows[m]) => Sound(applied.row) /\ applied.ok)
    BY <1>2, AppliedSound
  <1>9. NoRow \in Rows /\ Sound(NoRow)
    BY DEF NoRow, NoDocument, Rows, Sound, Documents
  <1> HIDE DEF applied
  <1>10. rows' \in [Stored -> Rows] BY <1>2, <1>5, <1>8, <1>9
  <1>11. UNCHANGED rederive BY DEF ApplyBatch
  <1>12. ProjTypes' BY <1>10, <1>11 DEF ProjInv, ProjTypes
  <1>13. ConversationExact'
    <2> SUFFICES ASSUME NEW t \in Threads
                 PROVE  threadView'[t] = ThreadOfRows(rows', t) /\ convRow'[t] = ConversationOfRows(rows', t)
      BY DEF ConversationExact, ThreadOfRows, ConversationOfRows, Held
    <2>1. CASE t \in TouchedThreads(dels, {m}) BY <1>7, <2>1 DEF Refreshed
    <2>2. CASE t \notin TouchedThreads(dels, {m})
      <3>1. \A k \in Stored : ThreadOf(k) = t => k \notin dels /\ k # m
        BY <2>2 DEF TouchedThreads
      <3>2. \A k \in Stored : ThreadOf(k) = t => rows'[k] = rows[k] BY <3>1, <1>5
      <3>3. /\ ThreadOfRows(rows', t) = ThreadOfRows(rows, t)
            /\ ConversationOfRows(rows', t) = ConversationOfRows(rows, t)
        BY <3>2, ViewsSame
      <3>4. threadView'[t] = threadView[t] /\ convRow'[t] = convRow[t]
        BY <1>7, <2>2 DEF Refreshed
      <3> QED BY <3>3, <3>4 DEF ProjInv, ConversationExact
    <2> QED BY <2>1, <2>2
  <1>14. ASSUME ~Upgraded PROVE ~torn' /\ \A k \in Stored : Sound(rows'[k])
    <2>1. ~torn /\ \A k \in Stored : Sound(rows[k]) BY <1>14 DEF ProjInv
    <2>2. \A k \in Stored : Sound(rows'[k]) BY <2>1, <1>5, <1>8, <1>9
    <2>3. ASSUME NEW k \in Stored PROVE dropped[k].ok
      <3>1. CASE k \in dels
        <4>1. rows[k] \in Rows /\ rows[k].header # 0 /\ 0 \in Nat /\ Sound(rows[k])
          BY <1>2, <2>1, <3>1 DEF Held, Rows
        <4>2. DroppedRow(rows[k]).ok
          <5>1. PICK r \in Rows : r = rows[k] BY <4>1
          <5> QED BY <4>1, <5>1, TriggersSound
        <4> QED BY <4>2, <3>1
      <3>2. CASE k \notin dels BY <3>2
      <3> QED BY <3>1, <3>2
    <2>4. applied.ok BY <2>1, <1>8
    <2>5. ~torn' BY <1>6, <2>1, <2>3, <2>4, Zenon
    <2> QED BY <2>2, <2>5
  <1> QED BY <1>12, <1>13, <1>14 DEF ProjInv

\* A write of one row that keeps its header and its read flag.
LEMMA RowKeeps ==
    ASSUME ProjInv, NEW m \in Stored, NEW r \in Rows, rows' = [rows EXCEPT ![m] = r],
           r.header = rows[m].header, r.read <=> rows[m].read, ProjTypes',
           UNCHANGED <<threadView, convRow>>,
           ~Upgraded => ~torn' /\ Sound(r)
    PROVE  ProjInv'
  <1>1. rows \in [Stored -> Rows] BY DEF ProjInv, ProjTypes
  <1>2. \A k \in Stored : rows'[k] = IF k = m THEN r ELSE rows[k] BY <1>1
  <1>3. ConversationExact' BY <1>2, ConversationsStand DEF ProjInv
  <1>4. ~Upgraded => \A k \in Stored : Sound(rows'[k]) BY <1>2 DEF ProjInv
  <1> QED BY <1>3, <1>4 DEF ProjInv

\* apply_message_body_tx
LEMMA BodyKeeps == ProjInv /\ ApplyBody => ProjInv'
  <1> SUFFICES ASSUME ProjInv, ApplyBody PROVE ProjInv' OBVIOUS
  <1>1. PICK m \in Held(rows), text \in {0, 1} :
          /\ rows' = [rows EXCEPT ![m] = Filled(WithBody(rows[m], text).row).row]
          /\ torn' = (torn \/ ~WithBody(rows[m], text).ok \/ ~Filled(WithBody(rows[m], text).row).ok)
    BY DEF ApplyBody
  <1> DEFINE first == WithBody(rows[m], text)
             second == Filled(first.row)
  <1>2. rows \in [Stored -> Rows] /\ m \in Stored /\ text \in Nat BY DEF ProjInv, ProjTypes, Held
  <1>3. rows[m] \in Rows /\ rows[m].header # 0 BY <1>2 DEF Held, Rows
  <1>4. first.row \in Rows /\ first.row.header = rows[m].header /\ (first.row.read <=> rows[m].read)
    <2>1. PICK r \in Rows : r = rows[m] BY <1>3
    <2> QED BY <2>1, <1>2, TriggerTypes, BodySound
  <1>5. Sound(rows[m]) => Sound(first.row) /\ first.ok
    <2>1. PICK r \in Rows : r = rows[m] BY <1>3
    <2> QED BY <2>1, <1>2, <1>3, TriggersSound
  <1> HIDE DEF first
  <1>6. /\ second.row \in Rows /\ second.row.header = first.row.header
        /\ (second.row.read <=> first.row.read)
        /\ (Sound(first.row) => Sound(second.row) /\ second.ok)
    <2>1. PICK r \in Rows : r = first.row BY <1>4
    <2> QED BY <2>1, <1>2, TriggerTypes, BodySound
  <1>7. rows' = [rows EXCEPT ![m] = second.row] /\ torn' = (torn \/ ~first.ok \/ ~second.ok)
    BY <1>1 DEF first
  <1> HIDE DEF second
  <1>8. ProjTypes'
    <2>1. UNCHANGED rederive BY DEF ApplyBody
    <2>2. rows' \in [Stored -> Rows] BY <1>2, <1>6, <1>7
    <2> QED BY <2>1, <2>2 DEF ProjInv, ProjTypes
  <1>9. ASSUME ~Upgraded PROVE ~torn' /\ Sound(second.row)
    <2>1. ~torn /\ Sound(rows[m]) BY <1>2, <1>9 DEF ProjInv
    <2>2. first.ok /\ second.ok /\ Sound(second.row) BY <2>1, <1>5, <1>6
    <2> QED BY <2>1, <2>2, <1>7, Zenon
  <1>10. UNCHANGED <<threadView, convRow>> BY DEF ApplyBody
  <1>11. second.row.header = rows[m].header /\ (second.row.read <=> rows[m].read)
    BY <1>4, <1>6
  <1> QED BY <1>2, <1>6, <1>7, <1>8, <1>9, <1>10, <1>11, RowKeeps

\* apply_rederive_batch: the page may name a message deleted since it was read.
LEMMA FillKeeps == ProjInv /\ FillPage => ProjInv'
  <1> SUFFICES ASSUME ProjInv, FillPage PROVE ProjInv' OBVIOUS
  <1>1. PICK m \in Stored : rederive.page = {m} BY DEF FillPage, ProjInv, ProjTypes
  <1>2. Min(rederive.page) = m
    <2>1. Min({m}) \in {m} BY LeastExists, ProjectionsAssumption
    <2> QED BY <2>1, <1>1
  <1> DEFINE done == Filled(rows[m])
  <1>3. rows' = [rows EXCEPT ![m] = done.row] /\ torn' = (torn \/ ~done.ok) BY <1>2 DEF FillPage
  <1>4. rows \in [Stored -> Rows] /\ rows[m] \in Rows /\ 0 \in Nat BY DEF ProjInv, ProjTypes
  <1>5. /\ done.row \in Rows /\ done.row.header = rows[m].header
        /\ (done.row.read <=> rows[m].read) /\ (Sound(rows[m]) => Sound(done.row) /\ done.ok)
    <2>1. PICK r \in Rows : r = rows[m] BY <1>4
    <2> QED BY <2>1, <1>4, TriggerTypes, BodySound
  <1> HIDE DEF done
  <1>6. ProjTypes'
    <2>1. rederive'.at # "fill"
      <3>1. rederive' = [rederive EXCEPT !.at = "list", !.page = {}] /\ rederive.at = "fill" BY DEF FillPage
      <3> QED BY <3>1
    <2>2. rows' \in [Stored -> Rows] BY <1>3, <1>4, <1>5
    <2> QED BY <2>1, <2>2 DEF ProjTypes
  <1>7. ASSUME ~Upgraded PROVE ~torn' /\ Sound(done.row)
    <2>1. ~torn /\ Sound(rows[m]) BY <1>7 DEF ProjInv
    <2> QED BY <2>1, <1>3, <1>5, Zenon
  <1>8. UNCHANGED <<threadView, convRow>> BY DEF FillPage
  <1> QED BY <1>3, <1>5, <1>6, <1>7, <1>8, RowKeeps

\* backfill_message_fts: a rebuild documents every row as it is.
LEMMA BackfillKeeps == ProjInv /\ BackfillIndex => ProjInv'
  <1> SUFFICES ASSUME ProjInv, BackfillIndex PROVE ProjInv' OBVIOUS
  <1>1. UNCHANGED <<torn, threadView, convRow, rederive>> BY DEF BackfillIndex
  <1>2. rows \in [Stored -> Rows] BY DEF ProjInv, ProjTypes
  <1>3. CASE rows' = rows
    <2>1. ConversationExact'
      BY <1>1, <1>3, ConversationsStand DEF ProjInv
    <2> QED BY <1>1, <1>3, <2>1 DEF ProjInv, ProjTypes
  <1>4. CASE rows' = [m \in Stored |-> IF rows[m].header = 0 THEN rows[m]
                                       ELSE Documented(rows[m], rows[m].text)]
    <2>1. ASSUME NEW m \in Stored
          PROVE  /\ rows'[m] \in Rows /\ rows'[m].header = rows[m].header
                 /\ (rows'[m].read <=> rows[m].read)
                 /\ (Sound(rows[m]) => Sound(rows'[m]))
      <3>1. PICK r \in Rows : r = rows[m] BY <1>2
      <3>2. CASE r.header = 0
        <4>1. rows'[m] = r BY <1>4, <3>1, <3>2
        <4> QED BY <4>1, <3>1
      <3>3. CASE r.header # 0
        <4> DEFINE d == [r EXCEPT !.doc = [header |-> r.header, text |-> r.text]]
        <4>1. rows'[m] = d BY <1>4, <3>1, <3>3 DEF Documented
        <4>2. /\ d \in Rows /\ d.header = r.header /\ (d.read <=> r.read) /\ d.text = r.text
              /\ (d.body <=> r.body) /\ d.doc = [header |-> r.header, text |-> r.text]
          BY DEF Rows
        <4> HIDE DEF d
        <4>3. Sound(r) => Sound(d) BY <4>2, <3>3 DEF Sound, Documents
        <4> QED BY <4>1, <4>2, <4>3, <3>1
      <3> QED BY <3>2, <3>3
    <2>2. ConversationExact' BY <1>1, <2>1, ConversationsStand DEF ProjInv
    <2>3. rows' \in [Stored -> Rows] BY <2>1, <1>4
    <2>4. ProjTypes' BY <1>1, <2>3 DEF ProjInv, ProjTypes
    <2>5. ~Upgraded => ~torn' /\ \A m \in Stored : Sound(rows'[m]) BY <1>1, <2>1 DEF ProjInv
    <2> QED BY <2>2, <2>4, <2>5 DEF ProjInv
  <1> QED BY <1>3, <1>4 DEF BackfillIndex

\* The steps of the deferred pass that read.
LEMMA PassKeeps == ProjInv /\ (BeginRederive \/ ListPage \/ StopStore) => ProjInv'
  <1> SUFFICES ASSUME ProjInv, BeginRederive \/ ListPage \/ StopStore PROVE ProjInv' OBVIOUS
  <1>1. UNCHANGED <<rows, torn, threadView, convRow>> BY DEF BeginRederive, ListPage, StopStore
  <1>2. ConversationExact' BY <1>1, ConversationsStand DEF ProjInv
  <1>3. rederive'.at = "fill" => \E m \in Stored : rederive'.page = {m}
    <2>1. CASE BeginRederive \/ StopStore
      <3>1. rederive'.at # "fill" BY <2>1 DEF BeginRederive, StopStore, NoPass
      <3> QED BY <3>1
    <2>2. CASE ListPage
      <3> DEFINE beyond == {m \in Held(rows) : rows[m].body /\ m > rederive.cursor}
      <3>1. CASE beyond = {}
        <4>1. rederive' = NoPass BY <2>2, <3>1 DEF ListPage
        <4> QED BY <4>1 DEF NoPass
      <3>2. CASE beyond # {}
        <4>1. rederive'.page = {Min(beyond)} BY <2>2, <3>2 DEF ListPage
        <4>2. beyond \subseteq Stored /\ beyond \in SUBSET Nat BY ProjectionsAssumption DEF Held
        <4> HIDE DEF beyond
        <4>3. Min(beyond) \in beyond BY <4>2, <3>2, LeastExists
        <4> QED BY <4>1, <4>2, <4>3
      <3> QED BY <3>1, <3>2
    <2> QED BY <2>1, <2>2
  <1>4. ProjTypes' BY <1>1, <1>3 DEF ProjInv, ProjTypes
  <1> QED BY <1>1, <1>2, <1>4 DEF ProjInv

\* The invariant holds of every behaviour.
LEMMA ProjInvAlways == ProjSpec => []ProjInv
  <1>1. ProjInv /\ [ProjNext]_projVars => ProjInv'
    <2> SUFFICES ASSUME ProjInv, [ProjNext]_projVars PROVE ProjInv' OBVIOUS
    <2>1. CASE UNCHANGED projVars
      <3>1. UNCHANGED <<rows, torn, threadView, convRow, rederive>> BY <2>1 DEF projVars
      <3>2. ConversationExact' BY <3>1, ConversationsStand DEF ProjInv
      <3> QED BY <3>1, <3>2 DEF ProjInv, ProjTypes
    <2> QED BY <2>1, BatchKeeps, BodyKeeps, BackfillKeeps, PassKeeps, FillKeeps DEF ProjNext
  <1> QED BY <1>1, ProjInvInit, PTL DEF ProjSpec

\* The thread and conversation rows (refresh_thread_projection_tx and
\* refresh_conversation_projection_tx) are always what the message rows say.
THEOREM ConversationsAlwaysExact == ProjSpec => []ConversationExact
  <1>1. ProjInv => ConversationExact BY DEF ProjInv
  <1> QED BY <1>1, ProjInvAlways, PTL

\* In a store whose index was not dropped by an upgrade, the triggers of
\* message_fts and the deferred maintenance keep every message found by its
\* header and its cached body, and never delete what was not indexed.
THEOREM DerivedAlwaysExact ==
    ASSUME ~Upgraded
    PROVE  ProjSpec => []DerivedExact
  <1>1. ProjInv => DerivedExact
    BY DEF ProjInv, DerivedExact, IndexExact, Sound, Documents
  <1> QED BY <1>1, ProjInvAlways, PTL

-----------------------------------------------------------------------------
(***************************************************************************)
(* The overlay.  ServedIsReplay holds because deriving a row twice is      *)
(* deriving it once, and every step that moves the log or the base says so *)
(* (unswept) until the row is derived.                                     *)
(*                                                                         *)
(* DestroyedStaysHidden needs the reason why each step keeps the row       *)
(* hidden, Covered: the message is gone for good (SafelyGone); or a        *)
(* tombstone stands because the destroy in the log ends whatever replays   *)
(* beside it (Latest: older, settled first, pushed first, so truncated     *)
(* first); or because a read-back destroy left the log and the next pull   *)
(* takes the base row (Destroyed).                                         *)
(***************************************************************************)
OpRow == [id : Nat \ {0}, kind : {"flag", "destroy", "discard"},
          state : {"pending", "inflight", "applied", "failed"}, settledAt : Nat, watermark : Nat]

\* The log: rows have distinct ids, older than the next; what rests applied was
\* settled in the past, never a draft delete, and on JMAP never a destroy.
LogRows ==
    /\ ops \subseteq OpRow /\ nextOp \in Nat \ {0} /\ clock \in Nat /\ cycleStart \in Nat
    /\ \A op \in ops : op.id < nextOp
    /\ \A op, other \in ops : op.id = other.id => op = other
    /\ cycleStart <= clock

Rested(op) ==
    op.state = "applied" => /\ op.settledAt <= clock /\ op.kind # "discard"
                            /\ jmap => op.kind # "destroy"
                            /\ ~jmap => op.watermark = Nobody

SettledRows == \A op \in ops : Rested(op)

\* The flush holds a row it claimed until it settles it.
FlushHolds ==
    /\ pushing \in Nat /\ cursor \in Nat /\ position \in Nat
    /\ pushing # Nobody => phase \in {"flush", "settling", "refreshing"}
    /\ (pushing # Nobody /\ phase = "flush") =>
          \E op \in ops : op.id = pushing /\ op.state = "inflight"

LogInv == LogRows /\ SettledRows /\ FlushHolds

ReplayKept ==
    (~unswept /\ phase \notin {"settling", "refreshing"}) =>
        entry = FoldOverlayRow(baseRow, ops, entry)

-----------------------------------------------------------------------------
\* fold_overlay_row reads the log only through the kinds that replay.
LEMMA FoldByKinds ==
    ASSUME NEW row, NEW log, NEW other, NEW old,
           Folding(log) = {} <=> Folding(other) = {},
           Has(Folding(log), "destroy") <=> Has(Folding(other), "destroy"),
           Has(Folding(log), "discard") <=> Has(Folding(other), "discard")
    PROVE  FoldOverlayRow(row, log, old) = FoldOverlayRow(row, other, old)
  BY DEF FoldOverlayRow, ProjectRecord

\* derive_overlay is idempotent: a row derived again is the same row.
LEMMA FoldTwice ==
    ASSUME NEW row, NEW log, NEW old
    PROVE  FoldOverlayRow(row, log, FoldOverlayRow(row, log, old)) = FoldOverlayRow(row, log, old)
  BY DEF FoldOverlayRow

\* What fold_overlay_row hides: everything over no base row, and a base row under
\* a destroy, a draft delete, or the tombstone of a destroy that left the log.
LEMMA FoldHides ==
    ASSUME NEW row, NEW log \in SUBSET OpRow, NEW old
    PROVE  /\ row = Gone => FoldOverlayRow(row, log, old) \in {Gone, Tombstone}
           /\ (row # Gone /\ Has(Folding(log), "destroy")) =>
                  FoldOverlayRow(row, log, old) = Tombstone
           /\ (row # Gone /\ old = Tombstone /\ ~Has(Folding(log), "flag")) =>
                  FoldOverlayRow(row, log, old) = Tombstone
           /\ (Has(Folding(log), "destroy") /\ ~Has(Folding(log), "discard")) =>
                  FoldOverlayRow(row, log, old) = Tombstone
  <1>1. row = Gone => FoldOverlayRow(row, log, old) \in {Gone, Tombstone}
    BY DEF FoldOverlayRow
  <1>2. Has(Folding(log), "destroy") => Folding(log) # {}
    BY DEF Has
  <1>3. ~Has(Folding(log), "flag") =>
            \/ Folding(log) = {} \/ Has(Folding(log), "destroy") \/ Has(Folding(log), "discard")
    BY DEF Has, Folding, OpRow
  <1>4. (row # Gone /\ Has(Folding(log), "destroy")) => FoldOverlayRow(row, log, old) = Tombstone
    BY <1>2 DEF FoldOverlayRow, ProjectRecord
  <1>5. (row # Gone /\ old = Tombstone /\ ~Has(Folding(log), "flag")) =>
            FoldOverlayRow(row, log, old) = Tombstone
    <2>1. CASE Folding(log) = {} BY <2>1 DEF FoldOverlayRow
    <2>2. CASE Has(Folding(log), "destroy") BY <1>4, <2>2
    <2>3. CASE Folding(log) # {} /\ Has(Folding(log), "discard") BY <2>3 DEF FoldOverlayRow
    <2> QED BY <1>3, <2>1, <2>2, <2>3
  <1>6. (Has(Folding(log), "destroy") /\ ~Has(Folding(log), "discard")) =>
            FoldOverlayRow(row, log, old) = Tombstone
    <2>1. CASE row # Gone BY <1>4, <2>1
    <2>2. CASE row = Gone BY <1>2, <2>2 DEF FoldOverlayRow
    <2> QED BY <2>1, <2>2
  <1> QED BY <1>1, <1>4, <1>5, <1>6

\* A message that is not there and a row that hides one are told apart.
LEMMA GoneIsNoTombstone == Gone # Tombstone
  <1> SUFFICES ASSUME Gone = Tombstone PROVE FALSE
    OBVIOUS
  <1>1. DOMAIN Gone = {"gone"} BY DEF Gone
  <1>2. DOMAIN Tombstone = {"tombstone"} BY DEF Tombstone
  <1>3. "gone" = "tombstone" BY <1>1, <1>2
  <1> QED BY <1>3, SMT

\* The row the flush holds is in the log, claimed.
LEMMA PushedOp ==
    ASSUME LogInv, phase = "flush", pushing # Nobody
    PROVE  Pushed \in ops /\ Pushed \in OpRow /\ Pushed.id = pushing /\ Pushed.state = "inflight"
  <1>1. PICK op \in ops : op.id = pushing /\ op.state = "inflight"
    BY DEF LogInv, FlushHolds
  <1>2. Pushed \in ops /\ Pushed.id = pushing
    BY <1>1 DEF Pushed
  <1> QED BY <1>1, <1>2 DEF LogInv, LogRows

-----------------------------------------------------------------------------
\* The log keeps its shape in every step.
LEMMA LogInvInit == OverlayInit => LogInv
  BY DEF OverlayInit, LogInv, LogRows, SettledRows, FlushHolds, Nobody

\* A step that leaves the log alone.
LEMMA LogSame ==
    ASSUME LogInv, UNCHANGED <<jmap, ops, nextOp>>, clock' \in Nat, clock <= clock',
           cycleStart' \in Nat, cycleStart' <= clock', FlushHolds'
    PROVE  LogInv'
  BY DEF LogInv, LogRows, SettledRows, Rested, OpRow

\* A row leaves the log.
LEMMA LogDrop ==
    ASSUME LogInv, NEW x \in ops, ops' = ops \ {x}, UNCHANGED <<jmap, nextOp, clock, cycleStart>>,
           FlushHolds'
    PROVE  LogInv'
  BY DEF LogInv, LogRows, SettledRows, Rested

\* A row is rewritten in place.
LEMMA LogRewrite ==
    ASSUME LogInv, NEW x \in ops, NEW y \in OpRow, ops' = Rewritten(x, y), y.id = x.id,
           y.kind = x.kind,
           Rested(y),
           UNCHANGED <<jmap, nextOp, clock, cycleStart>>, FlushHolds'
    PROVE  LogInv'
  <1>1. ops' \subseteq OpRow /\ \A op \in ops' : op.id < nextOp' BY DEF LogInv, LogRows, Rewritten
  <1>2. \A op, other \in ops' : op.id = other.id => op = other
    BY DEF LogInv, LogRows, Rewritten
  <1>3. SettledRows' BY DEF LogInv, LogRows, SettledRows, Rested, Rewritten
  <1> QED BY <1>1, <1>2, <1>3 DEF LogInv, LogRows

\* A row joins the log.
LEMMA LogAdd ==
    ASSUME LogInv, NEW log \in SUBSET ops, NEW kind \in {"flag", "destroy", "discard"},
           ops' = log \cup {NewOp(nextOp, kind)}, nextOp' = nextOp + 1,
           UNCHANGED <<jmap, clock, cycleStart>>, FlushHolds'
    PROVE  LogInv'
  <1> DEFINE new == NewOp(nextOp, kind)
  <1>1. new \in OpRow /\ new.id = nextOp /\ new.state = "pending"
    BY DEF NewOp, OpRow, LogInv, LogRows, Nobody
  <1>2. ops' \subseteq OpRow /\ nextOp' \in Nat \ {0} BY <1>1 DEF LogInv, LogRows
  <1>3. \A op \in log : op.id < nextOp /\ op \in OpRow BY DEF LogInv, LogRows
  <1>a. ops' = log \cup {new} OBVIOUS
  <1> HIDE DEF new
  <1>4. \A op \in ops' : op.id < nextOp' BY <1>1, <1>3, <1>a DEF OpRow, LogInv, LogRows
  <1>5. \A op, other \in ops' : op.id = other.id => op = other
    BY <1>1, <1>3, <1>a DEF OpRow, LogInv, LogRows
  <1>6. SettledRows' BY <1>1, <1>a DEF LogInv, SettledRows, Rested
  <1> QED BY <1>2, <1>4, <1>5, <1>6 DEF LogInv, LogRows

\* The log keeps its shape when the flush or a command rewrites it.
LEMMA LogInvCommand == LogInv /\ Command => LogInv'
  <1> SUFFICES ASSUME LogInv, Command PROVE LogInv'
    OBVIOUS
  <1> USE DEF LogInv
  <1>1. ASSUME NEW kind \in {"flag", "destroy"}, QueueAssertion(kind) PROVE LogInv'
    <2>1. Coalesced(kind) \subseteq ops /\ \A op \in ops : op.state = "inflight" => op \in Coalesced(kind)
      BY DEF Coalesced
    <2>2. FlushHolds' BY <1>1, <2>1 DEF QueueAssertion, runVars, FlushHolds
    <2>3. Coalesced(kind) \in SUBSET ops /\ kind \in {"flag", "destroy", "discard"}
          /\ ops' = Coalesced(kind) \cup {NewOp(nextOp, kind)} /\ nextOp' = nextOp + 1
          /\ UNCHANGED <<jmap, clock, cycleStart>>
      BY <1>1, <2>1 DEF QueueAssertion, runVars
    <2> QED BY <2>2, <2>3, LogAdd
  <1>2. CASE CommandRefresh
    <2>1. UNCHANGED <<ops, nextOp, position, runVars>> BY <1>2 DEF CommandRefresh
    <2> QED BY <2>1 DEF runVars, LogRows, SettledRows, Rested, FlushHolds
  <1>3. CASE DiscardOperation
    <2>1. PICK op \in ops : /\ op.state \in {"pending", "failed"} /\ ops' = ops \ {op}
                            /\ UNCHANGED <<nextOp, runVars, position>>
      BY <1>3 DEF DiscardOperation
    <2>2. FlushHolds' BY <2>1 DEF FlushHolds, runVars
    <2> QED BY <2>1, <2>2, LogDrop DEF runVars
  <1>4. CASE RetryOperation
    <2>1. PICK op \in ops : /\ op.state = "failed"
                            /\ ops' = Rewritten(op, [op EXCEPT !.state = "pending"])
                            /\ UNCHANGED <<nextOp, runVars, position>>
      BY <1>4 DEF RetryOperation
    <2>2. FlushHolds' BY <2>1 DEF FlushHolds, runVars, Rewritten
    <2> DEFINE new == [op EXCEPT !.state = "pending"]
    <2>3. new \in OpRow /\ new.id = op.id /\ new.kind = op.kind /\ Rested(new)
      BY DEF OpRow, LogRows, Rested
    <2>4. ops' = Rewritten(op, new) /\ UNCHANGED <<jmap, nextOp, clock, cycleStart>>
      BY <2>1 DEF runVars
    <2> HIDE DEF new
    <2> QED BY <2>2, <2>3, <2>4, LogRewrite
  <1> QED BY <1>1, <1>2, <1>3, <1>4 DEF Command

\* Rewriting the row the flush holds.
LEMMA LogInvSettle ==
    ASSUME LogInv,
           \/ SettleReadback \/ SettleRejected \/ SettleBlind \/ SettleDiscard \/ FailPermanently
           \/ FlushStops
    PROVE  LogInv'
  <1>0. phase = "flush" /\ pushing # Nobody
    BY DEF SettleReadback, SettleRejected, SettleBlind, SettleDiscard, FailPermanently, FlushStops
  <1>1. PICK op \in ops : op = Pushed /\ op \in OpRow /\ op.id = pushing /\ op.state = "inflight"
    BY <1>0, PushedOp
  <1> USE DEF LogInv
  <1>2. ASSUME ops' = ops \ {op}, UNCHANGED <<jmap, nextOp, clock, cycleStart>>, FlushHolds'
        PROVE  LogInv'
    BY <1>2, LogDrop
  <1>3. ASSUME NEW s \in {"failed", "pending"}, ops' = Rewritten(op, [op EXCEPT !.state = s]),
               UNCHANGED <<jmap, nextOp, clock, cycleStart>>, FlushHolds'
        PROVE  LogInv'
    <2> DEFINE new == [op EXCEPT !.state = s]
    <2>1. new \in OpRow /\ new.id = op.id /\ new.kind = op.kind /\ Rested(new)
      BY <1>1 DEF OpRow, Rested
    <2>2. ops' = Rewritten(op, new) BY <1>3
    <2> HIDE DEF new
    <2> QED BY <1>3, <2>1, <2>2, LogRewrite
  <1>4. CASE SettleReadback
    <2>1. FlushHolds' BY <1>4 DEF SettleReadback, FlushHolds
    <2> QED BY <1>1, <1>2, <1>4, <2>1 DEF SettleReadback
  <1>5. CASE SettleRejected
    <2>1. FlushHolds' BY <1>5 DEF SettleRejected, FlushHolds
    <2> QED BY <1>1, <1>2, <1>5, <2>1 DEF SettleRejected
  <1>6. CASE SettleBlind
    <2>1. FlushHolds' BY <1>6 DEF SettleBlind, FlushHolds
    <2> DEFINE mark == IF jmap THEN position + 1 ELSE Nobody
               new == [op EXCEPT !.state = "applied", !.settledAt = clock, !.watermark = mark]
    <2>a. mark \in Nat /\ (~jmap => mark = Nobody) BY DEF FlushHolds, Nobody
    <2>b. ops' = Rewritten(op, new) /\ UNCHANGED <<jmap, nextOp, clock, cycleStart>>
      BY <1>1, <1>6 DEF SettleBlind
    <2> HIDE DEF mark
    <2>2. new \in OpRow /\ new.id = op.id /\ new.kind = op.kind /\ new.settledAt = clock
          /\ new.watermark = mark
      BY <1>1, <2>a DEF OpRow, LogRows
    <2>3. op.kind # "discard" /\ (jmap => op.kind # "destroy")
      BY <1>1, <1>6 DEF SettleBlind
    <2> HIDE DEF new
    <2>5. Rested(new) BY <2>2, <2>3, <2>a DEF LogRows, Rested
    <2> QED BY <2>1, <2>2, <2>b, <2>5, LogRewrite
  <1>7. CASE SettleDiscard
    <2>1. FlushHolds' BY <1>7 DEF SettleDiscard, FlushHolds, Nobody
    <2> QED BY <1>1, <1>2, <1>7, <2>1 DEF SettleDiscard
  <1>8. CASE FailPermanently
    <2>1. FlushHolds' BY <1>8 DEF FailPermanently, FlushHolds
    <2> QED BY <1>1, <1>3, <1>8, <2>1 DEF FailPermanently
  <1>9. CASE FlushStops
    <2>1. FlushHolds' BY <1>9 DEF FlushStops, FlushHolds, Nobody
    <2> QED BY <1>1, <1>3, <1>9, <2>1 DEF FlushStops
  <1> QED BY <1>4, <1>5, <1>6, <1>7, <1>8, <1>9

\* Truncation and the sweep, which change the log outside a flush.
LEMMA LogInvPrune == LogInv /\ (Truncate \/ SweepRow) => LogInv'
  <1>1. ASSUME LogInv, Truncate PROVE LogInv'
    <2>1. PICK op \in ops : /\ phase = "truncate" /\ ops' = ops \ {op}
                            /\ UNCHANGED <<position, nextOp, runVars>>
      BY <1>1 DEF Truncate
    <2>2. FlushHolds' BY <1>1, <2>1 DEF LogInv, FlushHolds, runVars
    <2> QED BY <1>1, <2>1, <2>2, LogDrop DEF runVars
  <1>2. ASSUME LogInv, SweepRow PROVE LogInv'
    <2>1. FlushHolds' BY <1>2 DEF LogInv, FlushHolds, SweepRow
    <2>2. CASE Repairable
      <3>1. ops = {} /\ ops' = {} \cup {NewOp(nextOp, "discard")} /\ nextOp' = nextOp + 1
            /\ UNCHANGED <<jmap, clock, cycleStart>>
        BY <1>2, <2>2 DEF SweepRow, Repairable
      <3>2. {} \in SUBSET ops /\ "discard" \in {"flag", "destroy", "discard"}
        OBVIOUS
      <3> QED BY <1>2, <2>1, <3>1, <3>2, LogAdd
    <2>3. CASE ~Repairable
      <3>1. UNCHANGED <<jmap, ops, nextOp, clock, cycleStart>> BY <1>2, <2>3 DEF SweepRow
      <3> QED BY <1>2, <2>1, <3>1 DEF LogInv, LogRows, SettledRows, Rested
    <2> QED BY <2>2, <2>3
  <1> QED BY <1>1, <1>2

\* Claiming the oldest row, and every step that leaves the log alone.
LEMMA LogInvRest ==
    ASSUME LogInv,
           \/ BeginCycle \/ ClaimOp \/ WriteReadback \/ FlushRefresh \/ FlushDone \/ Pull
           \/ ApplyChunk \/ ReplayBaseWrite \/ TruncateDone \/ AbortPull \/ RemoteEdit \/ Stop
           \/ Rebuild \/ UNCHANGED overlayVars
    PROVE  LogInv'
  <1>1. CASE ClaimOp
    <2>1. PICK op \in ops : /\ op.state \in {"pending", "inflight"} /\ phase = "flush"
                            /\ ops' = Rewritten(op, [op EXCEPT !.state = "inflight"])
                            /\ pushing' = op.id
                            /\ UNCHANGED <<jmap, position, nextOp, phase, clock, cycleStart, cursor>>
      BY <1>1 DEF ClaimOp, Active
    <2> DEFINE new == [op EXCEPT !.state = "inflight"]
    <2>2. new \in OpRow /\ new.id = op.id /\ new.kind = op.kind /\ new.state = "inflight"
      BY DEF OpRow, LogInv, LogRows
    <2>3. ops' = Rewritten(op, new) BY <2>1
    <2> HIDE DEF new
    <2>4. FlushHolds' BY <2>1, <2>2, <2>3 DEF LogInv, FlushHolds, Rewritten, OpRow
    <2>5. Rested(new) BY <2>2 DEF Rested
    <2> QED BY <2>1, <2>2, <2>3, <2>4, <2>5, LogRewrite
  <1>2. CASE BeginCycle
    <2>1. PICK now \in {clock, clock + 1} :
             /\ phase = "idle" /\ clock' = now /\ cycleStart' = now
             /\ UNCHANGED <<jmap, position, ops, nextOp, pushing, cursor>>
      BY <1>2 DEF BeginCycle
    <2>2. FlushHolds' BY <2>1 DEF LogInv, FlushHolds
    <2>3. clock' \in Nat /\ clock <= clock' /\ cycleStart' \in Nat /\ cycleStart' <= clock'
      BY <2>1 DEF LogInv, LogRows
    <2> QED BY <2>1, <2>2, <2>3, LogSame
  <1>3. ASSUME UNCHANGED <<jmap, ops, nextOp, clock, cycleStart>>, FlushHolds'
        PROVE  LogInv'
    <2>1. clock' \in Nat /\ clock <= clock' /\ cycleStart' \in Nat /\ cycleStart' <= clock'
      BY <1>3 DEF LogInv, LogRows
    <2> QED BY <1>3, <2>1, LogSame
  <1>4. CASE WriteReadback
    BY <1>3, <1>4 DEF WriteReadback, LogInv, FlushHolds
  <1>5. CASE FlushRefresh
    BY <1>3, <1>5 DEF FlushRefresh, LogInv, FlushHolds, Nobody
  <1>6. CASE FlushDone
    BY <1>3, <1>6 DEF FlushDone, LogInv, FlushHolds
  <1>7. CASE Pull
    BY <1>3, <1>7 DEF Pull, LogInv, FlushHolds
  <1>8. CASE ApplyChunk
    BY <1>3, <1>8 DEF ApplyChunk, LogInv, FlushHolds
  <1>9. CASE ReplayBaseWrite
    BY <1>3, <1>9 DEF ReplayBaseWrite, LogInv, FlushHolds
  <1>10. CASE TruncateDone
    BY <1>3, <1>10 DEF TruncateDone, LogInv, FlushHolds
  <1>11. CASE AbortPull
    BY <1>3, <1>11 DEF AbortPull, LogInv, FlushHolds
  <1>12. CASE RemoteEdit
    BY <1>3, <1>12 DEF RemoteEdit, runVars, LogInv, FlushHolds
  <1>13. CASE Stop
    BY <1>3, <1>13 DEF Stop, LogInv, FlushHolds, Nobody
  <1>14. CASE Rebuild
    BY <1>3, <1>14 DEF Rebuild, LogInv, FlushHolds, Nobody
  <1>15. CASE UNCHANGED overlayVars
    BY <1>3, <1>15 DEF overlayVars, LogInv, FlushHolds
  <1> QED BY <1>1, <1>2, <1>4, <1>5, <1>6, <1>7, <1>8, <1>9, <1>10, <1>11, <1>12, <1>13, <1>14, <1>15

\* Every step of the overlay keeps the log's shape.
LEMMA LogInvStep == LogInv /\ [OverlayNext]_overlayVars => LogInv'
  BY LogInvCommand, LogInvSettle, LogInvPrune, LogInvRest DEF OverlayNext, Cycle

-----------------------------------------------------------------------------
\* Moving a row between pending and in flight leaves what replays as it was.
LEMMA FoldOfClaim ==
    ASSUME NEW x \in ops, NEW y, x.state \in {"pending", "inflight"},
           y.state \in {"pending", "inflight"}, y.kind = x.kind,
           ops' = Rewritten(x, y), UNCHANGED <<baseRow, entry>>
    PROVE  FoldOverlayRow(baseRow, ops, entry)' = FoldOverlayRow(baseRow, ops, entry)
  <1>1. x \in Folding(ops) /\ y \in Folding(ops)'
    BY DEF Folding, IsReplayable, Rewritten
  <1>2. \A op \in Folding(ops) : op = x \/ op \in Folding(ops')
    BY DEF Folding, Rewritten
  <1>3. \A op \in Folding(ops') : op = y \/ op \in Folding(ops)
    BY DEF Folding, Rewritten
  <1>4. \A kind : Has(Folding(ops), kind) <=> Has(Folding(ops'), kind)
    BY <1>1, <1>2, <1>3 DEF Has
  <1>5. Folding(ops) # {} /\ Folding(ops') # {} BY <1>1
  <1> QED BY <1>4, <1>5, FoldByKinds

\* Each step keeps the entry the replay of the log, or announces that it does not.
LEMMA ReplayKeptStep == LogInv /\ ReplayKept /\ [OverlayNext]_overlayVars => ReplayKept'
  <1> SUFFICES ASSUME LogInv, ReplayKept, [OverlayNext]_overlayVars PROVE ReplayKept'
    OBVIOUS
  <1>0. ASSUME NEW row, NEW log, NEW old, baseRow' = row, ops' = log,
               entry' = FoldOverlayRow(row, log, old)
        PROVE  ReplayKept'
    BY <1>0, FoldTwice DEF ReplayKept
  <1>1. CASE CommandRefresh
    BY <1>0, <1>1 DEF CommandRefresh, Refresh
  <1>2. CASE ClaimOp
    <2>1. PICK op \in ops : /\ op.state \in {"pending", "inflight"}
                            /\ ops' = Rewritten(op, [op EXCEPT !.state = "inflight"])
      BY <1>2 DEF ClaimOp, Active
    <2> DEFINE new == [op EXCEPT !.state = "inflight"]
    <2>2. new.state = "inflight" /\ new.kind = op.kind BY DEF LogInv, LogRows, OpRow
    <2>3. ops' = Rewritten(op, new) BY <2>1
    <2> HIDE DEF new
    <2>a. UNCHANGED <<baseRow, entry>> BY <1>2 DEF ClaimOp
    <2>b. op.state \in {"pending", "inflight"} /\ new.state \in {"pending", "inflight"}
      BY <2>1, <2>2
    <2>4. FoldOverlayRow(baseRow, ops, entry)' = FoldOverlayRow(baseRow, ops, entry)
      BY <2>2, <2>3, <2>a, <2>b, FoldOfClaim
    <2> QED BY <1>2, <2>4 DEF ClaimOp, ReplayKept
  <1>3. CASE FlushStops
    <2>1. PICK op \in ops : op.state = "inflight" /\ op \in OpRow /\ op = Pushed
      BY <1>3, PushedOp DEF FlushStops
    <2> DEFINE new == [op EXCEPT !.state = "pending"]
    <2>2. new.state = "pending" /\ new.kind = op.kind BY <2>1 DEF OpRow
    <2>3. ops' = Rewritten(op, new) BY <1>3, <2>1 DEF FlushStops
    <2> HIDE DEF new
    <2>a. UNCHANGED <<baseRow, entry>> BY <1>3 DEF FlushStops
    <2>b. op.state \in {"pending", "inflight"} /\ new.state \in {"pending", "inflight"}
      BY <2>1, <2>2
    <2>4. FoldOverlayRow(baseRow, ops, entry)' = FoldOverlayRow(baseRow, ops, entry)
      BY <2>2, <2>3, <2>a, <2>b, FoldOfClaim
    <2> QED BY <1>3, <2>4 DEF FlushStops, ReplayKept
  <1>4. CASE FlushRefresh
    BY <1>0, <1>4 DEF FlushRefresh, Refresh
  <1>5. CASE Truncate
    BY <1>0, <1>5 DEF Truncate
  <1>6. CASE SweepRow
    BY <1>0, <1>6 DEF SweepRow
  <1>7. CASE Rebuild
    BY <1>0, <1>7 DEF Rebuild
  <1>8. CASE ReplayBaseWrite
    <2>1. CASE Folding(ops) = {} /\ entry = Gone
      <3>1. UNCHANGED <<entry, baseRow, ops>> BY <1>8, <2>1 DEF ReplayBaseWrite
      <3>2. FoldOverlayRow(baseRow, ops, entry) = Gone
        BY <2>1, GoneIsNoTombstone DEF FoldOverlayRow
      <3> QED BY <2>1, <3>1, <3>2 DEF ReplayKept
    <2>2. CASE ~(Folding(ops) = {} /\ entry = Gone)
      BY <1>0, <1>8, <2>2 DEF ReplayBaseWrite, Refresh
    <2> QED BY <2>1, <2>2
  <1>9. ASSUME unswept' \/ phase' \in {"settling", "refreshing"} PROVE ReplayKept'
    BY <1>9 DEF ReplayKept
  <1>10. CASE \/ QueueAssertion("flag") \/ QueueAssertion("destroy") \/ DiscardOperation
              \/ RetryOperation \/ SettleReadback \/ SettleRejected \/ WriteReadback
              \/ SettleBlind \/ SettleDiscard \/ FailPermanently \/ ApplyChunk
    BY <1>9, <1>10 DEF QueueAssertion, DiscardOperation, RetryOperation, SettleReadback,
         SettleRejected, WriteReadback, SettleBlind, SettleDiscard, FailPermanently, ApplyChunk
  <1>11. ASSUME UNCHANGED <<baseRow, entry, ops>>, ~unswept' => ~unswept,
                ~unswept' => phase \notin {"settling", "refreshing"}
         PROVE  ReplayKept'
    BY <1>11 DEF ReplayKept
  <1>12. CASE BeginCycle \/ FlushDone \/ Pull \/ TruncateDone \/ AbortPull
    BY <1>11, <1>12 DEF BeginCycle, FlushDone, Pull, TruncateDone, AbortPull
  <1>13. CASE RemoteEdit
    BY <1>13 DEF RemoteEdit, runVars, ReplayKept
  <1>14. CASE Stop
    BY <1>11, <1>14 DEF Stop
  <1>15. CASE UNCHANGED overlayVars
    BY <1>15 DEF overlayVars, ReplayKept
  <1> QED BY <1>1, <1>2, <1>3, <1>4, <1>5, <1>6, <1>7, <1>8, <1>10, <1>12, <1>13, <1>14, <1>15
          DEF OverlayNext, Command, Cycle

\* What is served is the replay of the log over the base row, whatever commands,
\* chunks, settlements, truncations, stops and repairs came between.
THEOREM ServedAlwaysReplay == OverlaySpec => []ServedIsReplay
  <1>1. OverlayInit => LogInv /\ ReplayKept
    <2>1. OverlayInit => ReplayKept
      BY GoneIsNoTombstone DEF OverlayInit, ReplayKept, FoldOverlayRow, Folding
    <2> QED BY <2>1, LogInvInit
  <1>2. LogInv /\ ReplayKept /\ [OverlayNext]_overlayVars => (LogInv /\ ReplayKept)'
    BY LogInvStep, ReplayKeptStep
  <1>3. ReplayKept => ServedIsReplay
    BY DEF ReplayKept, ServedIsReplay
  <1> QED BY <1>1, <1>2, <1>3, PTL DEF OverlaySpec

-----------------------------------------------------------------------------
\* While a chunk or a readback waits to be written, what it carries.
Midway == {"apply", "settling"}

\* The message is gone for good: at the provider, in the base, and in flight.
SafelyGone == baseRow = Gone /\ server = Gone /\ (phase \in Midway => pulled = Gone)

PulledTrue == (phase \in Midway /\ pulled = Gone) => server = Gone

BareEntry == (baseRow = Gone /\ entry \notin {Gone, Tombstone}) => SafelyGone
BareCommand == (cmdRefresh # Nobody /\ baseRow = Gone) => SafelyGone

\* After a pull of this cycle, a missing base row is a message the provider lost.
Pulled == \/ phase \in {"replay", "truncate", "sweep"}
          \/ observed /\ phase \in {"flush", "settling", "refreshing"}

BareObserved == (Pulled /\ baseRow = Gone) => server = Gone

BareInv == PulledTrue /\ BareEntry /\ BareCommand /\ BareObserved

\* The provider never brings a message back.
LEMMA GoneForGood ==
    ASSUME [OverlayNext]_overlayVars, server = Gone
    PROVE  server' = Gone
  <1>1. CASE Command
    BY <1>1 DEF Command, QueueAssertion, CommandRefresh, DiscardOperation, RetryOperation
  <1>2. CASE SettleReadback \/ SettleRejected \/ SettleBlind \/ SettleDiscard
    BY <1>2 DEF SettleReadback, SettleRejected, SettleBlind, SettleDiscard, Applied
  <1>3. CASE \/ BeginCycle \/ ClaimOp \/ WriteReadback \/ FailPermanently \/ FlushRefresh
             \/ FlushStops \/ FlushDone
    BY <1>3 DEF BeginCycle, ClaimOp, WriteReadback, FailPermanently, FlushRefresh, FlushStops, FlushDone
  <1>4. CASE \/ Pull \/ ApplyChunk \/ ReplayBaseWrite \/ Truncate \/ TruncateDone \/ SweepRow
             \/ AbortPull
    BY <1>4 DEF Pull, ApplyChunk, ReplayBaseWrite, Truncate, TruncateDone, SweepRow, AbortPull
  <1>5. CASE RemoteEdit \/ Stop \/ Rebuild \/ UNCHANGED overlayVars
    BY <1>5 DEF RemoteEdit, Stop, Rebuild, overlayVars
  <1> QED BY <1>1, <1>2, <1>3, <1>4, <1>5 DEF OverlayNext, Cycle

\* What a gone message stays: no chunk, readback or repair brings it back.
LEMMA SafelyStays ==
    ASSUME [OverlayNext]_overlayVars, SafelyGone
    PROVE  SafelyGone'
  <1>0. server' = Gone BY GoneForGood DEF SafelyGone
  <1> USE DEF SafelyGone, Midway
  <1>1. CASE Command
    BY <1>0, <1>1 DEF Command, QueueAssertion, CommandRefresh, DiscardOperation, RetryOperation, runVars
  <1>2. CASE SettleReadback \/ SettleRejected \/ SettleBlind \/ SettleDiscard
    BY <1>0, <1>2 DEF SettleReadback, SettleRejected, SettleBlind, SettleDiscard
  <1>3. CASE \/ BeginCycle \/ ClaimOp \/ WriteReadback \/ FailPermanently \/ FlushRefresh
             \/ FlushStops \/ FlushDone
    BY <1>0, <1>3 DEF BeginCycle, ClaimOp, WriteReadback, FailPermanently, FlushRefresh, FlushStops,
       FlushDone, AfterFlush
  <1>4. CASE \/ Pull \/ ApplyChunk \/ ReplayBaseWrite \/ Truncate \/ TruncateDone \/ SweepRow
             \/ AbortPull
    BY <1>0, <1>4 DEF Pull, ApplyChunk, ReplayBaseWrite, Truncate, TruncateDone, SweepRow, AbortPull,
       runVars
  <1>5. CASE RemoteEdit \/ Stop \/ Rebuild \/ UNCHANGED overlayVars
    BY <1>0, <1>5 DEF RemoteEdit, Stop, Rebuild, overlayVars, runVars
  <1> QED BY <1>1, <1>2, <1>3, <1>4, <1>5 DEF OverlayNext, Cycle

\* The base row goes only as the provider lost the message, or with the store.
LEMMA BaseGoes ==
    ASSUME [OverlayNext]_overlayVars, PulledTrue, baseRow # Gone, baseRow' = Gone
    PROVE  SafelyGone' \/ Rebuild
  <1>1. CASE WriteReadback \/ ApplyChunk
    BY <1>1 DEF WriteReadback, ApplyChunk, PulledTrue, SafelyGone, Midway
  <1>2. CASE Command
    BY <1>2 DEF Command, QueueAssertion, CommandRefresh, DiscardOperation, RetryOperation, runVars
  <1>3. CASE SettleReadback \/ SettleRejected \/ SettleBlind \/ SettleDiscard
    BY <1>3 DEF SettleReadback, SettleRejected, SettleBlind, SettleDiscard
  <1>4. CASE \/ BeginCycle \/ ClaimOp \/ FailPermanently \/ FlushRefresh \/ FlushStops \/ FlushDone
    BY <1>4 DEF BeginCycle, ClaimOp, FailPermanently, FlushRefresh, FlushStops, FlushDone
  <1>5. CASE Pull \/ ReplayBaseWrite \/ Truncate \/ TruncateDone \/ SweepRow \/ AbortPull
    BY <1>5 DEF Pull, ReplayBaseWrite, Truncate, TruncateDone, SweepRow, AbortPull, runVars
  <1>6. CASE RemoteEdit \/ Stop \/ UNCHANGED overlayVars
    BY <1>6 DEF RemoteEdit, Stop, overlayVars, runVars
  <1> QED BY <1>1, <1>2, <1>3, <1>4, <1>5, <1>6 DEF OverlayNext, Cycle

\* What is in flight was read from the provider.
LEMMA CarriedIsRead ==
    ASSUME [OverlayNext]_overlayVars, phase' \in Midway
    PROVE  (phase \in Midway /\ pulled' = pulled) \/ pulled' = server'
  <1> USE DEF Midway
  <1>1. CASE Command
    BY <1>1 DEF Command, QueueAssertion, CommandRefresh, DiscardOperation, RetryOperation, runVars
  <1>2. CASE SettleReadback \/ SettleRejected \/ SettleBlind \/ SettleDiscard
    BY <1>2 DEF SettleReadback, SettleRejected, SettleBlind, SettleDiscard
  <1>3. CASE \/ BeginCycle \/ ClaimOp \/ WriteReadback \/ FailPermanently \/ FlushRefresh
             \/ FlushStops \/ FlushDone
    BY <1>3 DEF BeginCycle, ClaimOp, WriteReadback, FailPermanently, FlushRefresh, FlushStops,
       FlushDone, AfterFlush, Refresh
  <1>4. CASE \/ Pull \/ ApplyChunk \/ ReplayBaseWrite \/ Truncate \/ TruncateDone \/ SweepRow
             \/ AbortPull
    BY <1>4 DEF Pull, ApplyChunk, ReplayBaseWrite, Truncate, TruncateDone, SweepRow, AbortPull,
       runVars, Refresh
  <1>5. CASE RemoteEdit \/ Stop \/ Rebuild \/ UNCHANGED overlayVars
    BY <1>5 DEF RemoteEdit, Stop, Rebuild, overlayVars, runVars
  <1> QED BY <1>1, <1>2, <1>3, <1>4, <1>5 DEF OverlayNext, Cycle

\* Once past its pull, a cycle is past it until it ends.
LEMMA PulledFrom ==
    ASSUME [OverlayNext]_overlayVars, Pulled'
    PROVE  Pulled \/ ApplyChunk
  <1> USE DEF Pulled
  <1>1. CASE Command
    BY <1>1 DEF Command, QueueAssertion, CommandRefresh, DiscardOperation, RetryOperation, runVars
  <1>2. CASE SettleReadback \/ SettleRejected \/ SettleBlind \/ SettleDiscard
    BY <1>2 DEF SettleReadback, SettleRejected, SettleBlind, SettleDiscard
  <1>3. CASE \/ BeginCycle \/ ClaimOp \/ WriteReadback \/ FailPermanently \/ FlushRefresh
             \/ FlushStops \/ FlushDone
    BY <1>3 DEF BeginCycle, ClaimOp, WriteReadback, FailPermanently, FlushRefresh, FlushStops,
       FlushDone, AfterFlush, Refresh
  <1>4. CASE \/ Pull \/ ApplyChunk \/ ReplayBaseWrite \/ Truncate \/ TruncateDone \/ SweepRow
             \/ AbortPull
    BY <1>4 DEF Pull, ApplyChunk, ReplayBaseWrite, Truncate, TruncateDone, SweepRow, AbortPull,
       runVars, Refresh
  <1>5. CASE RemoteEdit \/ Stop \/ Rebuild \/ UNCHANGED overlayVars
    BY <1>5 DEF RemoteEdit, Stop, Rebuild, overlayVars, runVars
  <1> QED BY <1>1, <1>2, <1>3, <1>4, <1>5 DEF OverlayNext, Cycle

\* A missing base row shows nothing but what it showed.
LEMMA EntryMoves ==
    ASSUME [OverlayNext]_overlayVars, baseRow' = Gone
    PROVE  entry' = entry \/ entry' \in {Gone, Tombstone}
  <1>0. \A log, old : FoldOverlayRow(Gone, log, old) \in {Gone, Tombstone}
    BY DEF FoldOverlayRow
  <1>1. CASE Command
    BY <1>0, <1>1 DEF Command, QueueAssertion, CommandRefresh, Refresh, DiscardOperation, RetryOperation, runVars
  <1>2. CASE SettleReadback \/ SettleRejected \/ SettleBlind \/ SettleDiscard
    BY <1>0, <1>2 DEF SettleReadback, SettleRejected, SettleBlind, SettleDiscard
  <1>3. CASE \/ BeginCycle \/ ClaimOp \/ WriteReadback \/ FailPermanently \/ FlushRefresh
             \/ FlushStops \/ FlushDone
    BY <1>0, <1>3 DEF BeginCycle, ClaimOp, WriteReadback, FailPermanently, FlushRefresh, FlushStops,
       FlushDone, AfterFlush, Refresh
  <1>4. CASE \/ Pull \/ ApplyChunk \/ ReplayBaseWrite \/ Truncate \/ TruncateDone \/ SweepRow
             \/ AbortPull
    BY <1>0, <1>4 DEF Pull, ApplyChunk, ReplayBaseWrite, Truncate, TruncateDone, SweepRow, AbortPull,
       runVars, Refresh
  <1>5. CASE RemoteEdit \/ Stop \/ Rebuild \/ UNCHANGED overlayVars
    BY <1>0, <1>5 DEF RemoteEdit, Stop, Rebuild, overlayVars, runVars
  <1> QED BY <1>1, <1>2, <1>3, <1>4, <1>5 DEF OverlayNext, Cycle

\* A row waits for its command only once the command shows it.
LEMMA CommandWaits ==
    ASSUME [OverlayNext]_overlayVars, cmdRefresh' # Nobody
    PROVE  cmdRefresh' = cmdRefresh \/ (Shown # Gone /\ UNCHANGED baseRow)
  <1>1. CASE Command
    BY <1>1 DEF Command, QueueAssertion, CommandRefresh, DiscardOperation, RetryOperation, runVars
  <1>2. CASE SettleReadback \/ SettleRejected \/ SettleBlind \/ SettleDiscard
    BY <1>2 DEF SettleReadback, SettleRejected, SettleBlind, SettleDiscard
  <1>3. CASE \/ BeginCycle \/ ClaimOp \/ WriteReadback \/ FailPermanently \/ FlushRefresh
             \/ FlushStops \/ FlushDone
    BY <1>3 DEF BeginCycle, ClaimOp, WriteReadback, FailPermanently, FlushRefresh, FlushStops,
       FlushDone, AfterFlush, Refresh
  <1>4. CASE \/ Pull \/ ApplyChunk \/ ReplayBaseWrite \/ Truncate \/ TruncateDone \/ SweepRow
             \/ AbortPull
    BY <1>4 DEF Pull, ApplyChunk, ReplayBaseWrite, Truncate, TruncateDone, SweepRow, AbortPull,
       runVars, Refresh
  <1>5. CASE RemoteEdit \/ Stop \/ Rebuild \/ UNCHANGED overlayVars
    BY <1>5 DEF RemoteEdit, Stop, Rebuild, overlayVars, runVars
  <1> QED BY <1>1, <1>2, <1>3, <1>4, <1>5 DEF OverlayNext, Cycle

\* Every step keeps what a missing base row means.
LEMMA BareInvStep == BareInv /\ [OverlayNext]_overlayVars => BareInv'
  <1> SUFFICES ASSUME BareInv, [OverlayNext]_overlayVars PROVE BareInv'
    OBVIOUS
  <1> USE DEF BareInv
  <1>1. PulledTrue'
    BY CarriedIsRead, GoneForGood DEF PulledTrue
  <1>2. ASSUME baseRow' = Gone, baseRow = Gone => SafelyGone PROVE SafelyGone' \/ Rebuild
    BY <1>2, SafelyStays, BaseGoes
  <1>3. BareEntry'
    <2> SUFFICES ASSUME baseRow' = Gone, entry' \notin {Gone, Tombstone} PROVE SafelyGone'
      BY DEF BareEntry
    <2>1. entry' = entry BY EntryMoves
    <2>2. Rebuild => entry' \in {Gone, Tombstone} BY DEF Rebuild, FoldOverlayRow
    <2>3. baseRow = Gone => SafelyGone BY <2>1 DEF BareEntry
    <2> QED BY <1>2, <2>2, <2>3
  <1>4. BareCommand'
    <2> SUFFICES ASSUME baseRow' = Gone, cmdRefresh' # Nobody PROVE SafelyGone'
      BY DEF BareCommand
    <2>1. Rebuild => cmdRefresh' = Nobody BY DEF Rebuild
    <2>2. CASE cmdRefresh' = cmdRefresh
      BY <1>2, <2>1, <2>2 DEF BareCommand
    <2>3. CASE Shown # Gone /\ UNCHANGED baseRow
      <3>1. entry \notin {Gone, Tombstone} BY <2>3 DEF Shown
      <3> QED BY <1>2, <2>1, <3>1 DEF BareEntry
    <2> QED BY <2>2, <2>3, CommandWaits
  <1>5. BareObserved'
    <2> SUFFICES ASSUME Pulled', baseRow' = Gone PROVE server' = Gone
      BY DEF BareObserved
    <2>1. Rebuild => ~Pulled' BY DEF Rebuild, Pulled
    <2>2. CASE ApplyChunk
      BY <2>2 DEF ApplyChunk, PulledTrue, Midway
    <2>3. CASE Pulled /\ baseRow = Gone
      BY <2>3, GoneForGood DEF BareObserved
    <2>4. CASE baseRow # Gone
      BY <2>1, <2>4, BaseGoes DEF SafelyGone
    <2> QED BY <2>2, <2>3, <2>4, PulledFrom
  <1> QED BY <1>1, <1>3, <1>4, <1>5

-----------------------------------------------------------------------------
Replays(kind) == Has(Folding(ops), kind)

\* A destroy that ends the fold: every assertion beside it is older, settled
\* first, and was pushed first.
Latest(d) ==
    /\ d \in Folding(ops) /\ d.kind = "destroy"
    /\ \A f \in Folding(ops) : f.kind # "destroy" =>
         /\ f.id < d.id
         /\ d.state = "applied" => f.state = "applied" /\ f.settledAt <= d.settledAt
         /\ (phase = "flush" /\ pushing = d.id) => f.state = "applied"

CommandLatest ==
    \A d \in Folding(ops) : (d.kind = "destroy" /\ d.id = cmdRefresh) => Latest(d)

\* A row leaves the log, or moves in its lifecycle, and what replays follows.
LEMMA KindsOfDrop ==
    ASSUME NEW x \in ops, ops' = ops \ {x}, NEW kind
    PROVE  /\ Replays(kind)' => Replays(kind)
           /\ x.kind # kind => (Replays(kind) => Replays(kind)')
  BY DEF Replays, Has, Folding

\* A row rewritten in place keeps its kind: what replays changes only with its state.
LEMMA KindsOfRewrite ==
    ASSUME NEW x \in ops, NEW y, ops' = Rewritten(x, y), y.kind = x.kind, NEW kind
    PROVE  /\ x.kind # kind => (Replays(kind)' <=> Replays(kind))
           /\ (IsReplayable(y) => IsReplayable(x)) => (Replays(kind)' => Replays(kind))
           /\ (IsReplayable(x) => IsReplayable(y)) => (Replays(kind) => Replays(kind)')
  BY DEF Replays, Has, Folding, Rewritten

\* Rows beside it leaving the log do not disturb the latest destroy.
LEMMA LatestOfDrop ==
    ASSUME NEW d, Latest(d), d \in ops', ops' \subseteq ops,
           (phase' = "flush" /\ pushing' = d.id) => (phase = "flush" /\ pushing = d.id)
    PROVE  Latest(d)'
  BY DEF Latest, Folding

\* Nor does a row that moves in its lifecycle: a claim takes the oldest row, and
\* what settles after it is marked no earlier.
LEMMA LatestOfRewrite ==
    ASSUME LogInv, NEW d, Latest(d), NEW x \in ops, NEW y \in OpRow, ops' = Rewritten(x, y),
           y.id = x.id, y.kind = x.kind, x.state # "applied",
           x.kind # "destroy" => (IsReplayable(y) => IsReplayable(x)),
           y.state = "applied" => y.settledAt = clock /\ phase = "flush" /\ pushing = x.id,
           NEW e \in Folding(ops'), e.id = d.id,
           (phase' = "flush" /\ pushing' = e.id) =>
               \A f \in Folding(ops) : f.kind # "destroy" => f.state = "applied"
    PROVE  Latest(e)'
  <1>1. d \in ops /\ d.kind = "destroy" /\ ops \subseteq OpRow BY DEF Latest, Folding, LogInv, LogRows
  <1>2. (e = d /\ d # x) \/ (e = y /\ d = x)
    <2>1. CASE e = y BY <1>1, <2>1 DEF LogInv, LogRows
    <2>2. CASE e \in ops /\ e # x BY <1>1, <2>2 DEF LogInv, LogRows
    <2> QED BY <2>1, <2>2 DEF Folding, Rewritten
  <1>3. e \in Folding(ops)' /\ e.kind = "destroy" BY <1>1, <1>2
  <1>4. ASSUME NEW f \in Folding(ops'), f.kind # "destroy"
        PROVE  /\ f.id < e.id
               /\ e.state = "applied" => f.state = "applied" /\ f.settledAt <= e.settledAt
               /\ (phase' = "flush" /\ pushing' = e.id) => f.state = "applied"
    <2>1. CASE f = y
      <3>1. x \in Folding(ops) /\ x.kind # "destroy" /\ e = d
        BY <1>1, <1>2, <1>4, <2>1 DEF Folding
      <3>2. d.state # "applied" /\ x.id < d.id BY <3>1 DEF Latest
      <3> QED BY <2>1, <3>1, <3>2
    <2>2. CASE f # y
      <3>1. f \in Folding(ops) /\ f.id < d.id BY <1>4, <2>2 DEF Folding, Rewritten, Latest
      <3>2. CASE e = d
        BY <1>4, <3>1, <3>2 DEF Latest
      <3>3. CASE e = y /\ d = x
        <4>1. e.state = "applied" => f.state = "applied" /\ f.settledAt <= clock /\ e.settledAt = clock
          BY <1>4, <3>1, <3>3 DEF Latest, LogInv, SettledRows, Rested, Folding
        <4> QED BY <1>4, <3>1, <4>1
      <3> QED BY <1>2, <3>2, <3>3
    <2> QED BY <2>1, <2>2
  <1> QED BY <1>3, <1>4 DEF Latest

\* The flush's own steps on the log, seen through the row it holds.
LEMMA FlushRewrites ==
    ASSUME LogInv, SettleBlind \/ FailPermanently \/ FlushStops \/ ClaimOp
    PROVE  \E x \in ops, y \in OpRow :
              /\ ops' = Rewritten(x, y) /\ y.id = x.id /\ y.kind = x.kind
              /\ x.state \in {"pending", "inflight"}
              /\ y.state = "applied" => y.settledAt = clock /\ phase = "flush" /\ pushing = x.id
              /\ ClaimOp => /\ x \in Active /\ pushing' = x.id /\ y.state = "inflight"
                            /\ \A other \in Active : x.id <= other.id
              /\ ~ClaimOp => /\ x = Pushed /\ x.state = "inflight"
                             /\ phase' # "flush" \/ pushing' = Nobody
              /\ FlushStops => y.state = "pending"
              /\ SettleBlind => y.state = "applied" /\ x.kind # "discard"
              /\ FailPermanently => y.state = "failed"
  <1> USE DEF OpRow
  <1>1. CASE ClaimOp
    <2>1. PICK x \in Active : /\ ops' = Rewritten(x, [x EXCEPT !.state = "inflight"])
                              /\ pushing' = x.id /\ pushing = Nobody
                              /\ \A other \in Active : x.id <= other.id
      BY <1>1 DEF ClaimOp
    <2> DEFINE y == [x EXCEPT !.state = "inflight"]
    <2>2. x \in ops /\ y \in OpRow /\ y.id = x.id /\ y.kind = x.kind /\ y.state = "inflight"
      BY <2>1 DEF Active, LogInv, LogRows
    <2>3. x.state \in {"pending", "inflight"} BY DEF Active
    <2>4. ~SettleBlind /\ ~FailPermanently /\ ~FlushStops
      BY <2>1 DEF SettleBlind, FailPermanently, FlushStops
    <2>5. ops' = Rewritten(x, y) BY <2>1
    <2> HIDE DEF y
    <2> QED BY <1>1, <2>1, <2>2, <2>3, <2>4, <2>5
  <1>2. CASE SettleBlind \/ FailPermanently \/ FlushStops
    <2>1. phase = "flush" /\ pushing # Nobody BY <1>2 DEF SettleBlind, FailPermanently, FlushStops
    <2>2. PICK x \in ops : x = Pushed /\ x \in OpRow /\ x.id = pushing /\ x.state = "inflight"
      BY <2>1, PushedOp
    <2>3. ~ClaimOp BY <2>1 DEF ClaimOp
    <2>4. clock \in Nat BY DEF LogInv, LogRows
    <2>5. CASE SettleBlind
      <3> DEFINE mark == IF jmap THEN position + 1 ELSE Nobody
                 y == [x EXCEPT !.state = "applied", !.settledAt = clock, !.watermark = mark]
      <3>1. mark \in Nat BY DEF LogInv, FlushHolds, Nobody
      <3>2. /\ ops' = Rewritten(x, y) /\ x.kind # "discard" /\ phase' # "flush"
        BY <2>2, <2>5 DEF SettleBlind
      <3>3. ~FlushStops /\ ~FailPermanently
        <4>1. position' = position + 1 /\ position \in Nat BY <2>5 DEF SettleBlind, LogInv, FlushHolds
        <4> QED BY <4>1 DEF FlushStops, FailPermanently
      <3> HIDE DEF mark
      <3>4. y \in OpRow /\ y.id = x.id /\ y.kind = x.kind /\ y.state = "applied" /\ y.settledAt = clock
        BY <2>2, <2>4, <3>1
      <3> HIDE DEF y
      <3> QED BY <2>1, <2>2, <2>3, <3>2, <3>3, <3>4
    <2>6. ASSUME NEW s \in {"pending", "failed"}, ops' = Rewritten(x, [x EXCEPT !.state = s]),
                 phase' # "flush", ~SettleBlind, FlushStops => s = "pending",
                 FailPermanently => s = "failed"
          PROVE  \E y \in OpRow : /\ ops' = Rewritten(x, y) /\ y.id = x.id /\ y.kind = x.kind
                                  /\ y.state # "applied" /\ (FlushStops => y.state = "pending")
                                  /\ (FailPermanently => y.state = "failed")
      <3> DEFINE y == [x EXCEPT !.state = s]
      <3>1. y \in OpRow /\ y.id = x.id /\ y.kind = x.kind /\ y.state = s
        BY <2>2
      <3>2. ops' = Rewritten(x, y) BY <2>6
      <3> HIDE DEF y
      <3> QED BY <2>6, <3>1, <3>2
    <2>7. CASE FlushStops /\ ~SettleBlind
      <3>1. ~FailPermanently BY <2>7 DEF FlushStops, FailPermanently, AfterFlush
      <3>2. ops' = Rewritten(x, [x EXCEPT !.state = "pending"]) /\ phase' # "flush"
        BY <2>2, <2>7 DEF FlushStops, AfterFlush
      <3> QED BY <2>1, <2>2, <2>3, <2>6, <2>7, <3>1, <3>2
    <2>8. CASE FailPermanently /\ ~SettleBlind
      <3>1. ~FlushStops BY <2>8 DEF FlushStops, FailPermanently, AfterFlush
      <3>2. ops' = Rewritten(x, [x EXCEPT !.state = "failed"]) /\ phase' # "flush"
        BY <2>2, <2>8 DEF FailPermanently
      <3> QED BY <2>1, <2>2, <2>3, <2>6, <2>8, <3>1, <3>2
    <2> QED BY <1>2, <2>5, <2>7, <2>8
  <1> QED BY <1>1, <1>2

\* The outcomes of a push that take its row out of the log.
LEMMA FlushDrops ==
    ASSUME LogInv, SettleReadback \/ SettleRejected \/ SettleDiscard
    PROVE  /\ Pushed \in ops /\ ops' = ops \ {Pushed} /\ Pushed.state = "inflight"
           /\ phase' # "flush" \/ pushing' = Nobody
  BY PushedOp DEF SettleReadback, SettleRejected, SettleDiscard

\* The latest destroy stays latest as long as it is in the log.
LEMMA LatestInFlush ==
    ASSUME LogInv, NEW d, Latest(d), NEW e \in Folding(ops'), e.id = d.id,
           \/ ClaimOp \/ SettleReadback \/ SettleRejected \/ SettleBlind \/ SettleDiscard
           \/ FailPermanently \/ FlushStops
    PROVE  Latest(e)'
  <1>0. d \in ops /\ d.id \in Nat \ {0} BY DEF Latest, Folding, LogInv, LogRows, OpRow
  <1>1. CASE ClaimOp \/ SettleBlind \/ FailPermanently \/ FlushStops
    <2>1. PICK x \in ops, y \in OpRow :
              /\ ops' = Rewritten(x, y) /\ y.id = x.id /\ y.kind = x.kind
              /\ x.state \in {"pending", "inflight"}
              /\ y.state = "applied" => y.settledAt = clock /\ phase = "flush" /\ pushing = x.id
              /\ ClaimOp => /\ x \in Active /\ pushing' = x.id /\ y.state = "inflight"
                            /\ \A other \in Active : x.id <= other.id
              /\ ~ClaimOp => phase' # "flush" \/ pushing' = Nobody
      BY <1>1, FlushRewrites
    <2>2. x.state # "applied" /\ IsReplayable(x) BY <2>1 DEF IsReplayable
    <2>3. ASSUME phase' = "flush", pushing' = e.id, NEW f \in Folding(ops), f.kind # "destroy"
          PROVE  f.state = "applied"
      <3>1. ClaimOp BY <1>0, <2>1, <2>3 DEF Nobody
      <3>2. x.id = d.id BY <2>1, <2>3, <3>1
      <3>3. f.id < x.id /\ f.id \in Nat /\ x.id \in Nat
        BY <2>3, <3>2 DEF Latest, Folding, LogInv, LogRows, OpRow
      <3>4. f \notin Active BY <2>1, <3>1, <3>3
      <3> QED BY <2>3, <3>4 DEF Folding, IsReplayable, Active
    <2> QED BY <2>1, <2>2, <2>3, LatestOfRewrite
  <1>2. CASE SettleReadback \/ SettleRejected \/ SettleDiscard
    <2>1. ops' \subseteq ops /\ (phase' # "flush" \/ pushing' = Nobody) BY <1>2, FlushDrops
    <2>2. e = d BY <1>0, <2>1 DEF Folding, LogInv, LogRows
    <2>3. d \in ops' BY <2>2 DEF Folding
    <2>4. ~(phase' = "flush" /\ pushing' = d.id) BY <1>0, <2>1 DEF Nobody
    <2> QED BY <2>1, <2>2, <2>3, <2>4, LatestOfDrop
  <1> QED BY <1>1, <1>2

\* The same for the steps outside the flush: commands, pull, truncation, stops.
LEMMA LatestElsewhere ==
    ASSUME LogInv, NEW d, Latest(d), NEW e \in Folding(ops'), e.id = d.id, ops' \subseteq ops,
           pushing' = pushing \/ pushing' = Nobody,
           phase' = "flush" => phase = "flush" \/ pushing' = Nobody
    PROVE  Latest(e)'
  <1>0. d \in ops /\ d.id \in Nat \ {0} BY DEF Latest, Folding, LogInv, LogRows, OpRow
  <1>1. e = d /\ d \in ops' BY <1>0 DEF Folding, LogInv, LogRows
  <1>2. (phase' = "flush" /\ pushing' = d.id) => (phase = "flush" /\ pushing = d.id)
    BY <1>0 DEF Nobody
  <1> QED BY <1>1, <1>2, LatestOfDrop

\* Every other step removes rows at most, and claims none.
LEMMA Elsewhere ==
    ASSUME LogInv,
           \/ CommandRefresh \/ DiscardOperation \/ BeginCycle \/ WriteReadback \/ FlushRefresh
           \/ FlushDone \/ Pull \/ ApplyChunk \/ ReplayBaseWrite \/ Truncate \/ TruncateDone
           \/ AbortPull \/ RemoteEdit \/ Stop \/ Rebuild \/ UNCHANGED overlayVars
    PROVE  /\ ops' \subseteq ops
           /\ pushing' = pushing \/ pushing' = Nobody
           /\ phase' = "flush" => phase = "flush" \/ pushing' = Nobody
  <1> USE DEF LogInv, FlushHolds
  <1>1. CASE CommandRefresh \/ DiscardOperation
    BY <1>1 DEF CommandRefresh, DiscardOperation, runVars
  <1>2. CASE BeginCycle \/ WriteReadback \/ FlushRefresh \/ FlushDone
    BY <1>2 DEF BeginCycle, WriteReadback, FlushRefresh, FlushDone, AfterFlush
  <1>3. CASE Pull \/ ApplyChunk \/ ReplayBaseWrite \/ Truncate \/ TruncateDone \/ AbortPull
    BY <1>3 DEF Pull, ApplyChunk, ReplayBaseWrite, Truncate, TruncateDone, AbortPull, runVars
  <1>4. CASE RemoteEdit \/ Stop \/ Rebuild \/ UNCHANGED overlayVars
    BY <1>4 DEF RemoteEdit, Stop, Rebuild, overlayVars, runVars
  <1> QED BY <1>1, <1>2, <1>3, <1>4

\* A command's destroy is the latest until the command re-derives its row.
LEMMA CommandLatestStep == LogInv /\ CommandLatest /\ [OverlayNext]_overlayVars => CommandLatest'
  <1> SUFFICES ASSUME LogInv, CommandLatest, [OverlayNext]_overlayVars,
                      NEW e \in Folding(ops'), e.kind = "destroy", e.id = cmdRefresh'
               PROVE  Latest(e)'
    BY DEF CommandLatest
  <1>0. e.id \in Nat \ {0} BY LogInvStep DEF Folding, LogInv, LogRows, OpRow
  <1>1. cmdRefresh' # Nobody BY <1>0 DEF Nobody
  <1>2. ASSUME NEW kind \in {"flag", "destroy"}, QueueAssertion(kind) PROVE Latest(e)'
    <2>1. ops' = Coalesced(kind) \cup {NewOp(nextOp, kind)} /\ cmdRefresh' = nextOp
          /\ UNCHANGED <<phase, pushing>>
      BY <1>2 DEF QueueAssertion, runVars
    <2>2. Coalesced(kind) \subseteq ops BY DEF Coalesced
    <2>3. \A op \in ops : op.id < nextOp /\ op.id \in Nat /\ nextOp \in Nat
      BY DEF LogInv, LogRows, OpRow
    <2>4. e = NewOp(nextOp, kind) BY <2>1, <2>2, <2>3 DEF Folding
    <2>5. e.id = nextOp /\ e.state = "pending" /\ kind = "destroy" BY <2>4 DEF NewOp
    <2>6. ~(phase' = "flush" /\ pushing' = e.id)
      BY <2>1, <2>3, <2>5 DEF LogInv, LogRows, FlushHolds, Nobody
    <2>7. ASSUME NEW f \in Folding(ops'), f.kind # "destroy" PROVE f.id < e.id
      <3>1. f \in Coalesced(kind) BY <2>1, <2>4, <2>7 DEF Folding
      <3> QED BY <2>2, <2>3, <2>5, <3>1
    <2>8. e \in Folding(ops)' OBVIOUS
    <2> QED BY <2>5, <2>6, <2>7, <2>8 DEF Latest
  <1>3. ASSUME \E d \in Folding(ops) : d.id = e.id /\ d.kind = "destroy", cmdRefresh' = cmdRefresh
        PROVE  \E d \in Folding(ops) : Latest(d) /\ e.id = d.id
    BY <1>3 DEF CommandLatest
  <1>4. CASE \/ ClaimOp \/ SettleReadback \/ SettleRejected \/ SettleBlind \/ SettleDiscard
             \/ FailPermanently \/ FlushStops
    <2>1. cmdRefresh' = cmdRefresh
      BY <1>4 DEF ClaimOp, SettleReadback, SettleRejected, SettleBlind, SettleDiscard,
         FailPermanently, FlushStops
    <2>2. \E d \in Folding(ops) : d.id = e.id /\ d.kind = "destroy"
      <3>1. CASE ClaimOp \/ SettleBlind \/ FailPermanently \/ FlushStops
        <4>1. PICK x \in ops, y \in OpRow :
                 /\ ops' = Rewritten(x, y) /\ y.id = x.id /\ y.kind = x.kind
                 /\ x.state \in {"pending", "inflight"}
          BY <3>1, FlushRewrites
        <4> QED BY <4>1 DEF Folding, Rewritten, IsReplayable
      <3>2. CASE SettleReadback \/ SettleRejected \/ SettleDiscard
        BY <3>2, FlushDrops DEF Folding
      <3> QED BY <1>4, <3>1, <3>2
    <2>3. PICK d \in Folding(ops) : Latest(d) /\ e.id = d.id BY <1>3, <2>1, <2>2
    <2> QED BY <1>4, <2>3, LatestInFlush
  <1>5. CASE \/ CommandRefresh \/ DiscardOperation \/ BeginCycle \/ WriteReadback \/ FlushRefresh
             \/ FlushDone \/ Pull \/ ApplyChunk \/ ReplayBaseWrite \/ Truncate \/ TruncateDone
             \/ AbortPull \/ RemoteEdit \/ Stop \/ Rebuild \/ UNCHANGED overlayVars
    <2>1. cmdRefresh' = cmdRefresh
      <3>1. CASE CommandRefresh \/ DiscardOperation \/ Stop \/ Rebuild \/ RemoteEdit
                 \/ UNCHANGED overlayVars
        BY <1>1, <3>1 DEF CommandRefresh, DiscardOperation, Stop, Rebuild, RemoteEdit, overlayVars
      <3>2. CASE BeginCycle \/ WriteReadback \/ FlushRefresh \/ FlushDone \/ Pull \/ ApplyChunk
        BY <3>2 DEF BeginCycle, WriteReadback, FlushRefresh, FlushDone, Pull, ApplyChunk
      <3>3. CASE ReplayBaseWrite \/ Truncate \/ TruncateDone \/ AbortPull
        BY <3>3 DEF ReplayBaseWrite, Truncate, TruncateDone, AbortPull
      <3> QED BY <1>5, <3>1, <3>2, <3>3
    <2>2. /\ ops' \subseteq ops
          /\ pushing' = pushing \/ pushing' = Nobody
          /\ phase' = "flush" => phase = "flush" \/ pushing' = Nobody
      BY <1>5, Elsewhere
    <2>3. e \in Folding(ops) BY <2>2 DEF Folding
    <2>4. PICK d \in Folding(ops) : Latest(d) /\ e.id = d.id BY <1>3, <2>1, <2>3
    <2> QED BY <2>2, <2>4, LatestElsewhere
  <1>6. CASE RetryOperation \/ SweepRow
    BY <1>1, <1>6 DEF RetryOperation, SweepRow
  <1> QED BY <1>2, <1>4, <1>5, <1>6 DEF OverlayNext, Command, Cycle

-----------------------------------------------------------------------------
\* Nothing that replays comes after the destroy, and no row is bare but for it.
Undisturbed == (\E d \in ops : Latest(d)) \/ ~Replays("flag")
BareSafe == (baseRow = Gone /\ (~Replays("destroy") \/ Replays("discard"))) => SafelyGone
Standing == Undisturbed /\ BareSafe

\* The destroy was read back and left the log; the base row may linger until the pull.
Unread == \/ phase \in {"settling", "idle", "pull", "apply"}
          \/ phase = "flush" /\ ~observed /\ pushing = Nobody
Destroyed == /\ jmap /\ server = Gone /\ (phase \in Midway => pulled = Gone)
             /\ baseRow # Gone => Replays("destroy") \/ (Active = {} /\ Unread)

Covered == \/ SafelyGone /\ entry \in {Gone, Tombstone}
           \/ entry = Tombstone /\ (Standing \/ Destroyed)

Hidden == wanted => cmdRefresh = Nobody /\ Covered

\* A destroyed row is shown as gone.
LEMMA CoveredShows == Covered => Shown = Gone
  BY GoneIsNoTombstone DEF Covered, SafelyGone, Shown

\* No step changes the kind of gateway the account has.
LEMMA GatewayFixed ==
    ASSUME [OverlayNext]_overlayVars, jmap
    PROVE  jmap'
  <1>1. CASE Command
    BY <1>1 DEF Command, QueueAssertion, CommandRefresh, DiscardOperation, RetryOperation, runVars
  <1>2. CASE SettleReadback \/ SettleRejected \/ SettleBlind \/ SettleDiscard
    BY <1>2 DEF SettleReadback, SettleRejected, SettleBlind, SettleDiscard
  <1>3. CASE \/ BeginCycle \/ ClaimOp \/ WriteReadback \/ FailPermanently \/ FlushRefresh
             \/ FlushStops \/ FlushDone
    BY <1>3 DEF BeginCycle, ClaimOp, WriteReadback, FailPermanently, FlushRefresh, FlushStops, FlushDone
  <1>4. CASE \/ Pull \/ ApplyChunk \/ ReplayBaseWrite \/ Truncate \/ TruncateDone \/ SweepRow
             \/ AbortPull
    BY <1>4 DEF Pull, ApplyChunk, ReplayBaseWrite, Truncate, TruncateDone, SweepRow, AbortPull, runVars
  <1>5. CASE RemoteEdit \/ Stop \/ Rebuild \/ UNCHANGED overlayVars
    BY <1>5 DEF RemoteEdit, Stop, Rebuild, overlayVars, runVars
  <1> QED BY <1>1, <1>2, <1>3, <1>4, <1>5 DEF OverlayNext, Cycle

\* What is gone for good stays covered.
LEMMA GoneStaysCovered ==
    ASSUME [OverlayNext]_overlayVars, SafelyGone, entry \in {Gone, Tombstone}
    PROVE  Covered'
  BY SafelyStays, EntryMoves DEF SafelyGone, Covered

\* What the read-back destroy knows of the provider stays true.
LEMMA DestroyedCarries ==
    ASSUME [OverlayNext]_overlayVars, Destroyed,
           baseRow' # Gone => Replays("destroy")' \/ (Active = {} /\ Unread)'
    PROVE  Destroyed'
  <1>1. server' = Gone BY GoneForGood DEF Destroyed
  <1>2. phase' \in Midway => pulled' = Gone BY <1>1, CarriedIsRead DEF Destroyed
  <1>3. jmap' BY GatewayFixed DEF Destroyed
  <1> QED BY <1>1, <1>2, <1>3 DEF Destroyed

\* A step that leaves the log and the base row alone, outside the flush.
LEMMA StandingElsewhere ==
    ASSUME LogInv, [OverlayNext]_overlayVars, Standing, UNCHANGED <<ops, baseRow>>,
           pushing' = pushing \/ pushing' = Nobody,
           phase' = "flush" => phase = "flush" \/ pushing' = Nobody
    PROVE  Standing'
  <1>1. ops' \subseteq ops /\ Folding(ops') = Folding(ops) BY DEF Folding
  <1>2. ASSUME NEW d \in ops, Latest(d) PROVE Latest(d)'
    <2>1. d \in Folding(ops') BY <1>1, <1>2 DEF Latest
    <2> QED BY <1>1, <1>2, <2>1, LatestElsewhere
  <1>3. \A kind : Replays(kind)' <=> Replays(kind) BY <1>1 DEF Replays, Has
  <1>4. Undisturbed' BY <1>2, <1>3 DEF Standing, Undisturbed
  <1>5. BareSafe' BY <1>3, SafelyStays DEF Standing, BareSafe
  <1> QED BY <1>4, <1>5 DEF Standing

\* The quiet steps of the cycle and of the environment.
LEMMA CoveredQuiet ==
    ASSUME LogInv, [OverlayNext]_overlayVars, entry = Tombstone, Standing \/ Destroyed,
           \/ BeginCycle \/ FlushDone \/ Pull \/ TruncateDone \/ AbortPull \/ RemoteEdit \/ Stop
           \/ UNCHANGED overlayVars
    PROVE  Covered'
  <1>1. UNCHANGED <<ops, baseRow, entry>>
    BY DEF BeginCycle, FlushDone, Pull, TruncateDone, AbortPull, RemoteEdit, Stop, overlayVars
  <1>2. /\ pushing' = pushing \/ pushing' = Nobody
        /\ phase' = "flush" => phase = "flush" \/ pushing' = Nobody
    BY Elsewhere
  <1>3. CASE Standing
    BY <1>1, <1>2, <1>3, StandingElsewhere DEF Covered
  <1>4. CASE Destroyed
    <2>1. Replays("destroy") => Replays("destroy")' BY <1>1 DEF Replays
    <2>2. Active = {} => Active' = {} BY <1>1 DEF Active
    <2>3. Unread => Unread' \/ RemoteEdit \/ UNCHANGED overlayVars
      BY DEF Unread, BeginCycle, FlushDone, AfterFlush, Pull, TruncateDone, AbortPull, Stop, LogInv,
         FlushHolds
    <2>4. RemoteEdit => server # Gone BY DEF RemoteEdit
    <2>5. UNCHANGED overlayVars => (Unread => Unread') BY DEF overlayVars, Unread
    <2>6. Destroyed' BY <1>1, <1>4, <2>1, <2>2, <2>3, <2>4, <2>5, DestroyedCarries DEF Destroyed
    <2> QED BY <1>1, <2>6 DEF Covered
  <1> QED BY <1>3, <1>4

\* A written chunk or readback.
LEMMA CoveredWrite ==
    ASSUME LogInv, BareInv, [OverlayNext]_overlayVars, entry = Tombstone, Standing \/ Destroyed,
           WriteReadback \/ ApplyChunk
    PROVE  Covered'
  <1>1. /\ UNCHANGED <<ops, entry, server>> /\ baseRow' = pulled /\ phase \in Midway
        /\ phase' \notin Midway /\ phase' # "flush" /\ pushing' = pushing
    BY DEF WriteReadback, ApplyChunk, Midway
  <1>2. baseRow' = Gone => SafelyGone' BY <1>1 DEF BareInv, PulledTrue, SafelyGone
  <1>3. CASE Standing
    <2>1. ops' \subseteq ops /\ Folding(ops') = Folding(ops) BY <1>1 DEF Folding
    <2>2. ASSUME NEW d \in ops, Latest(d) PROVE Latest(d)'
      <3>1. d \in Folding(ops') BY <2>1, <2>2 DEF Latest
      <3> QED BY <1>1, <2>1, <2>2, <3>1, LatestElsewhere
    <2>3. Replays("flag")' => Replays("flag") BY <2>1 DEF Replays, Has
    <2>4. Undisturbed' BY <1>1, <1>3, <2>2, <2>3 DEF Standing, Undisturbed
    <2> QED BY <1>1, <1>2, <2>4 DEF Standing, BareSafe, Covered
  <1>4. CASE Destroyed
    <2>1. baseRow' = Gone BY <1>1, <1>4 DEF Destroyed
    <2> QED BY <1>1, <1>2, <2>1 DEF Covered
  <1> QED BY <1>3, <1>4

\* A row derived again under its destroy.
LEMMA CoveredRefresh ==
    ASSUME LogInv, [OverlayNext]_overlayVars, entry = Tombstone, Standing \/ Destroyed,
           FlushRefresh \/ ReplayBaseWrite
    PROVE  Covered'
  <1>1. /\ UNCHANGED <<ops, baseRow>> /\ phase \notin Midway /\ ~Unread
        /\ entry' = entry \/ entry' = FoldOverlayRow(baseRow, ops, entry)
    BY DEF FlushRefresh, ReplayBaseWrite, Refresh, Midway, Unread
  <1>2. /\ pushing' = pushing \/ pushing' = Nobody
        /\ phase' = "flush" => phase = "flush" \/ pushing' = Nobody
    BY Elsewhere
  <1>3. ops \in SUBSET OpRow BY DEF LogInv, LogRows
  <1>4. CASE SafelyGone BY <1>4, GoneStaysCovered
  <1>5. CASE ~SafelyGone
    <2>1. CASE baseRow = Gone
      <3>1. Standing BY <1>1, <1>5, <2>1 DEF Destroyed, SafelyGone
      <3>2. Replays("destroy") /\ ~Replays("discard") BY <1>5, <2>1, <3>1 DEF Standing, BareSafe
      <3>3. entry' = Tombstone BY <1>1, <1>3, <3>2, FoldHides DEF Replays
      <3> QED BY <1>1, <1>2, <3>1, <3>3, StandingElsewhere DEF Covered
    <2>2. CASE baseRow # Gone
      <3>1. Replays("destroy") \/ ~Replays("flag")
        BY <1>1, <2>2 DEF Standing, Undisturbed, Latest, Destroyed, Replays, Has
      <3>2. entry' = Tombstone BY <1>1, <1>3, <2>2, <3>1, FoldHides DEF Replays
      <3>3. CASE Standing BY <1>1, <1>2, <3>2, <3>3, StandingElsewhere DEF Covered
      <3>4. CASE Destroyed
        <4>1. Replays("destroy")' BY <1>1, <2>2, <3>4 DEF Destroyed, Replays
        <4> QED BY <3>2, <3>4, <4>1, DestroyedCarries DEF Covered
      <3> QED BY <3>3, <3>4
    <2> QED BY <2>1, <2>2
  <1> QED BY <1>4, <1>5

\* Undisturbed and BareSafe across a change of one row, from how its kind fares.
LEMMA StandingAcross ==
    ASSUME [OverlayNext]_overlayVars, Standing, UNCHANGED baseRow,
           Replays("flag")' => Replays("flag"), Replays("discard")' => Replays("discard"),
           Replays("destroy") => Replays("destroy")',
           \A d \in ops : Latest(d) => \E e \in ops' : Latest(e)'
    PROVE  Standing'
  <1>1. Undisturbed' BY DEF Standing, Undisturbed
  <1>2. BareSafe' BY SafelyStays DEF Standing, BareSafe
  <1> QED BY <1>1, <1>2 DEF Standing

\* The flush claims, settles blindly, fails or gives back a row.
LEMMA CoveredRewrite ==
    ASSUME LogInv, [OverlayNext]_overlayVars, entry = Tombstone, Standing \/ Destroyed,
           ClaimOp \/ SettleBlind \/ FlushStops \/ (FailPermanently /\ Pushed.kind # "destroy")
    PROVE  Covered'
  <1>1. PICK x \in ops, y \in OpRow :
              /\ ops' = Rewritten(x, y) /\ y.id = x.id /\ y.kind = x.kind
              /\ x.state \in {"pending", "inflight"}
              /\ y.state = "applied" => y.settledAt = clock /\ phase = "flush" /\ pushing = x.id
              /\ ClaimOp => /\ x \in Active /\ pushing' = x.id /\ y.state = "inflight"
                            /\ \A other \in Active : x.id <= other.id
              /\ ~ClaimOp => /\ x = Pushed /\ x.state = "inflight"
                             /\ phase' # "flush" \/ pushing' = Nobody
              /\ FlushStops => y.state = "pending"
              /\ SettleBlind => y.state = "applied" /\ x.kind # "discard"
              /\ FailPermanently => y.state = "failed"
    BY FlushRewrites
  <1>2. IsReplayable(x) /\ (x.kind = "destroy" => IsReplayable(y))
    BY <1>1 DEF IsReplayable
  <1>3. UNCHANGED <<baseRow, entry>>
    BY DEF ClaimOp, SettleBlind, FlushStops, FailPermanently
  <1>4. /\ Replays("flag")' => Replays("flag")
        /\ Replays("discard")' => Replays("discard")
        /\ Replays("destroy") => Replays("destroy")'
    BY <1>1, <1>2, KindsOfRewrite
  <1>5. CASE Standing
    <2>1. ASSUME NEW d \in ops, Latest(d) PROVE \E e \in ops' : Latest(e)'
      <3>1. PICK e \in {d, y} : e \in Folding(ops') /\ e.id = d.id
        <4>1. d \in Folding(ops) /\ d.kind = "destroy" BY <2>1 DEF Latest
        <4>2. CASE d = x BY <1>1, <1>2, <4>1, <4>2 DEF Folding, Rewritten
        <4>3. CASE d # x BY <1>1, <4>1, <4>3 DEF Folding, Rewritten
        <4> QED BY <4>2, <4>3
      <3>2. Latest(e)' BY <2>1, <3>1, LatestInFlush
      <3> QED BY <3>1, <3>2 DEF Folding
    <2>2. Standing' BY <1>3, <1>4, <1>5, <2>1, StandingAcross
    <2> QED BY <1>3, <2>2 DEF Covered
  <1>6. CASE Destroyed
    <2>1. x \in Active BY <1>1 DEF Active
    <2>2. baseRow' # Gone => Replays("destroy")' BY <1>3, <1>4, <1>6, <2>1 DEF Destroyed
    <2> QED BY <1>3, <1>6, <2>2, DestroyedCarries DEF Covered
  <1> QED BY <1>5, <1>6

\* A draft delete or an assertion beside the destroy leaves the log.
LEMMA CoveredDrop ==
    ASSUME LogInv, [OverlayNext]_overlayVars, entry = Tombstone, Standing \/ Destroyed,
           SettleReadback \/ SettleRejected \/ SettleDiscard, Pushed.kind # "destroy"
    PROVE  Covered'
  <1>1. PICK x \in ops : x = Pushed /\ ops' = ops \ {x} /\ x.state = "inflight"
    BY FlushDrops
  <1>2. UNCHANGED <<baseRow, entry>>
    BY DEF SettleReadback, SettleRejected, SettleDiscard
  <1>3. /\ Replays("flag")' => Replays("flag")
        /\ Replays("discard")' => Replays("discard")
        /\ Replays("destroy") => Replays("destroy")'
    BY <1>1, KindsOfDrop
  <1>4. CASE Standing
    <2>1. ASSUME NEW d \in ops, Latest(d) PROVE \E e \in ops' : Latest(e)'
      <3>1. d \in Folding(ops') BY <1>1, <2>1 DEF Latest, Folding
      <3>2. Latest(d)' BY <2>1, <3>1, LatestInFlush
      <3> QED BY <3>1, <3>2 DEF Folding
    <2>2. Standing' BY <1>2, <1>3, <1>4, <2>1, StandingAcross
    <2> QED BY <1>2, <2>2 DEF Covered
  <1>5. CASE Destroyed
    <2>1. x \in Active BY <1>1 DEF Active
    <2>2. baseRow' # Gone => Replays("destroy")' BY <1>2, <1>3, <1>5, <2>1 DEF Destroyed
    <2> QED BY <1>2, <1>5, <2>2, DestroyedCarries DEF Covered
  <1> QED BY <1>4, <1>5

\* The destroy itself is read back: it leaves the log, the message the provider.
LEMMA CoveredReadback ==
    ASSUME LogInv, [OverlayNext]_overlayVars, entry = Tombstone, Standing \/ Destroyed,
           SettleReadback, Pushed.kind = "destroy"
    PROVE  Covered'
  <1>1. PICK x \in ops : /\ x = Pushed /\ ops' = ops \ {x} /\ x.state = "inflight"
                         /\ x.id = pushing /\ phase = "flush"
    BY PushedOp, FlushDrops DEF SettleReadback
  <1>2. /\ UNCHANGED <<baseRow, entry>> /\ server # Gone /\ server' = Gone /\ pulled' = server'
        /\ phase' = "settling" /\ jmap
    BY <1>1 DEF SettleReadback, Applied
  <1>3. jmap' BY <1>2, GatewayFixed
  <1>4. Standing BY <1>2 DEF Destroyed
  <1>5. CASE baseRow = Gone \/ Replays("destroy")'
    BY <1>2, <1>3, <1>5 DEF Destroyed, Covered
  <1>6. CASE baseRow # Gone /\ ~Replays("destroy")'
    <2>1. CASE \E d \in ops : Latest(d)
      <3>1. PICK d \in ops : Latest(d) BY <2>1
      <3>2. d = x BY <1>1, <1>6, <3>1 DEF Latest, Replays, Has, Folding
      <3>3. \A f \in Folding(ops) : f.kind # "destroy" => f.state = "applied"
        BY <1>1, <3>1, <3>2 DEF Latest
      <3>4. ASSUME NEW op \in Active' PROVE FALSE
        <4>1. op \in ops' /\ op \in ops /\ op.state \in {"pending", "inflight"}
          BY <1>1 DEF Active
        <4>2. op \in Folding(ops) /\ op \in Folding(ops') BY <4>1 DEF Folding, IsReplayable
        <4>3. op.kind # "destroy" BY <1>6, <4>2 DEF Replays, Has
        <4> QED BY <3>3, <4>1, <4>2, <4>3
      <3>5. Active' = {} BY <3>4
      <3>6. Unread' BY <1>2 DEF Unread
      <3> QED BY <1>2, <1>3, <3>5, <3>6 DEF Destroyed, Covered
    <2>2. CASE ~Replays("flag")
      <3>1. ~Replays("flag")' BY <1>1, <2>2, KindsOfDrop
      <3>2. Standing' BY <1>2, <1>6, <3>1 DEF Standing, Undisturbed, BareSafe
      <3> QED BY <1>2, <3>2 DEF Covered
    <2> QED BY <1>4, <2>1, <2>2 DEF Standing, Undisturbed
  <1> QED BY <1>5, <1>6

\* The user takes an assertion back, or retries the destroy.
LEMMA CoveredCommand ==
    ASSUME LogInv, [OverlayNext]_overlayVars, entry = Tombstone, Standing \/ Destroyed,
           DiscardOperation \/ RetryOperation, wanted'
    PROVE  Covered'
  <1>1. CASE DiscardOperation
    <2>1. PICK x \in ops : /\ x.kind # "destroy" /\ ops' = ops \ {x}
                           /\ UNCHANGED <<baseRow, entry, runVars>>
      BY <1>1 DEF DiscardOperation
    <2>2. /\ Replays("flag")' => Replays("flag")
          /\ Replays("discard")' => Replays("discard")
          /\ Replays("destroy") => Replays("destroy")'
      BY <2>1, KindsOfDrop
    <2>3. CASE Standing
      <3>1. ASSUME NEW d \in ops, Latest(d) PROVE \E e \in ops' : Latest(e)'
        <4>1. d \in Folding(ops') BY <2>1, <3>1 DEF Latest, Folding
        <4>2. Latest(d)' BY <1>1, <3>1, <4>1, Elsewhere, LatestElsewhere
        <4> QED BY <4>1, <4>2 DEF Folding
      <3>2. Standing' BY <2>1, <2>2, <2>3, <3>1, StandingAcross
      <3> QED BY <2>1, <3>2 DEF Covered
    <2>4. CASE Destroyed
      <3>1. Active = {} => Active' = {} BY <2>1 DEF Active
      <3>2. Unread => Unread' BY <2>1 DEF Unread, runVars
      <3>3. baseRow' # Gone => Replays("destroy")' \/ (Active = {} /\ Unread)'
        BY <2>1, <2>2, <2>4, <3>1, <3>2 DEF Destroyed
      <3> QED BY <2>1, <2>4, <3>3, DestroyedCarries DEF Covered
    <2> QED BY <2>3, <2>4
  <1>2. CASE RetryOperation
    <2>1. PICK x \in ops : /\ x.kind = "destroy" /\ x.state = "failed"
                           /\ ops' = Rewritten(x, [x EXCEPT !.state = "pending"])
                           /\ UNCHANGED <<baseRow, entry, runVars>>
      BY <1>2 DEF RetryOperation
    <2> DEFINE y == [x EXCEPT !.state = "pending"]
    <2>2. y \in OpRow /\ y.id = x.id /\ y.kind = x.kind /\ y.state = "pending"
      BY DEF LogInv, LogRows, OpRow
    <2>3. ops' = Rewritten(x, y) BY <2>1
    <2> HIDE DEF y
    <2>4. IsReplayable(y) /\ ~IsReplayable(x) BY <2>1, <2>2 DEF IsReplayable
    <2>5. /\ Replays("flag")' => Replays("flag")
          /\ Replays("discard")' => Replays("discard")
      BY <2>1, <2>2, <2>3, KindsOfRewrite
    <2>6. Replays("destroy")'
      BY <2>1, <2>2, <2>3, <2>4 DEF Replays, Has, Folding, Rewritten
    <2>7. CASE Standing
      <3>1. ASSUME NEW d \in ops, Latest(d) PROVE \E e \in ops' : Latest(e)'
        <4>1. d # x BY <2>4, <3>1 DEF Latest, Folding
        <4>2. d \in Folding(ops') BY <2>3, <3>1, <4>1 DEF Latest, Folding, Rewritten
        <4>3. (phase' = "flush" /\ pushing' = d.id) =>
                 \A f \in Folding(ops) : f.kind # "destroy" => f.state = "applied"
          BY <2>1, <3>1 DEF Latest, runVars
        <4>4. x.state # "applied" /\ y.state # "applied" BY <2>1, <2>2
        <4>5. Latest(d)' BY <2>1, <2>2, <2>3, <3>1, <4>2, <4>3, <4>4, LatestOfRewrite
        <4> QED BY <4>2, <4>5 DEF Folding
      <3>2. Standing' BY <2>1, <2>5, <2>6, <2>7, <3>1, StandingAcross
      <3> QED BY <2>1, <3>2 DEF Covered
    <2>8. CASE Destroyed
      BY <2>1, <2>6, <2>8, DestroyedCarries DEF Covered
    <2> QED BY <2>7, <2>8
  <1> QED BY <1>1, <1>2

\* Truncation: a settled destroy leaves the log only after everything it ends,
\* and only once the provider lost the message or the tombstone stays.
LEMMA CoveredTruncate ==
    ASSUME LogInv, BareInv, [OverlayNext]_overlayVars, entry = Tombstone, Standing \/ Destroyed,
           Truncate
    PROVE  Covered'
  <1>1. PICK x \in ops : /\ phase = "truncate" /\ IsAbsorbed(x) /\ ops' = ops \ {x}
                         /\ \A other \in ops : IsAbsorbed(other) => x.id <= other.id
                         /\ entry' = FoldOverlayRow(baseRow, ops', entry)
                         /\ UNCHANGED <<baseRow, runVars>>
    BY DEF Truncate
  <1>2. ops' \in SUBSET OpRow /\ x \in OpRow BY <1>1 DEF LogInv, LogRows
  <1>3. x.state = "applied" /\ x.kind # "discard" /\ (jmap => x.kind # "destroy")
        /\ (~jmap => x.settledAt < cycleStart)
    BY <1>1 DEF IsAbsorbed, LogInv, SettledRows, Rested
  <1>4. CASE baseRow = Gone
    <2>1. SafelyGone BY <1>1, <1>4 DEF BareInv, BareObserved, Pulled, SafelyGone, Midway
    <2> QED BY <2>1, GoneStaysCovered
  <1>5. CASE baseRow # Gone
    <2>1. BareSafe' BY <1>1, <1>5 DEF BareSafe
    <2>2. ASSUME Replays("destroy")' \/ ~Replays("flag")' PROVE entry' = Tombstone
      BY <1>1, <1>2, <1>5, <2>2, FoldHides DEF Replays
    <2>3. CASE Destroyed
      <3>1. Replays("destroy") BY <1>1, <1>5, <2>3 DEF Destroyed, Unread
      <3>2. Replays("destroy")' BY <1>1, <1>3, <2>3, <3>1, KindsOfDrop DEF Destroyed
      <3> QED BY <2>2, <2>3, <3>2, DestroyedCarries DEF Covered
    <2>4. CASE Standing /\ ~Replays("flag")
      <3>1. ~Replays("flag")' BY <1>1, <2>4, KindsOfDrop
      <3> QED BY <2>1, <2>2, <3>1 DEF Standing, Undisturbed, Covered
    <2>5. CASE \E d \in ops : Latest(d)
      <3>1. PICK d \in ops : Latest(d) BY <2>5
      <3>2. CASE d # x
        <4>1. d \in Folding(ops') BY <1>1, <3>1, <3>2 DEF Latest, Folding
        <4>2. Latest(d)' BY <3>1, <4>1, Elsewhere, LatestElsewhere
        <4>3. Replays("destroy")' BY <4>2 DEF Latest, Replays, Has
        <4> QED BY <2>1, <2>2, <4>1, <4>2, <4>3 DEF Standing, Undisturbed, Covered, Folding
      <3>3. CASE d = x
        <4>1. x.settledAt < cycleStart BY <1>3, <3>1, <3>3 DEF Latest
        <4>2. ASSUME NEW f \in Folding(ops'), f.kind = "flag" PROVE FALSE
          <5>1. f \in Folding(ops) /\ f \in ops /\ f.id \in Nat /\ x.id \in Nat
                /\ f.settledAt \in Nat /\ x.settledAt \in Nat /\ cycleStart \in Nat
            BY <1>1, <1>2, <4>2 DEF Folding, LogInv, LogRows, OpRow
          <5>2. f.id < x.id /\ f.state = "applied" /\ f.settledAt <= x.settledAt
            BY <1>3, <3>1, <3>3, <4>2, <5>1 DEF Latest
          <5>3. IsAbsorbed(f) BY <4>1, <5>1, <5>2 DEF IsAbsorbed
          <5> QED BY <1>1, <5>1, <5>2, <5>3
        <4>3. ~Replays("flag")' BY <4>2 DEF Replays, Has
        <4> QED BY <2>1, <2>2, <4>3 DEF Standing, Undisturbed, Covered
      <3> QED BY <3>2, <3>3
    <2> QED BY <2>3, <2>4, <2>5 DEF Standing, Undisturbed
  <1> QED BY <1>4, <1>5

\* The sweep: a lingering tombstone gets a delete of its own.
LEMMA CoveredSweep ==
    ASSUME LogInv, BareInv, [OverlayNext]_overlayVars, entry = Tombstone, Standing \/ Destroyed,
           SweepRow
    PROVE  Covered'
  <1>1. /\ phase = "sweep" /\ phase' = "idle" /\ UNCHANGED <<baseRow, pushing>>
        /\ entry' = FoldOverlayRow(baseRow, ops', entry)
    BY DEF SweepRow
  <1>2. ops' \in SUBSET OpRow BY LogInvStep DEF LogInv, LogRows
  <1>3. CASE baseRow = Gone
    <2>1. SafelyGone BY <1>1, <1>3 DEF BareInv, BareObserved, Pulled, SafelyGone, Midway
    <2> QED BY <2>1, GoneStaysCovered
  <1>4. CASE baseRow # Gone
    <2>1. BareSafe' BY <1>1, <1>4 DEF BareSafe
    <2>2. CASE Repairable
      <3>1. ops' = {NewOp(nextOp, "discard")} BY <2>2 DEF SweepRow
      <3>2. ~Replays("flag")' BY <3>1 DEF Replays, Has, Folding, NewOp
      <3>3. entry' = Tombstone BY <1>1, <1>2, <1>4, <3>2, FoldHides DEF Replays
      <3> QED BY <2>1, <3>2, <3>3 DEF Standing, Undisturbed, Covered
    <2>3. CASE ~Repairable
      <3>1. ops' = ops BY <2>3 DEF SweepRow
      <3>2. Replays("destroy") \/ ~Replays("flag")
        BY <1>1, <1>4 DEF Standing, Undisturbed, Latest, Destroyed, Unread, Replays, Has
      <3>3. entry' = Tombstone BY <1>1, <1>2, <1>4, <3>1, <3>2, FoldHides DEF Replays
      <3>4. CASE Standing BY <1>1, <3>1, <3>3, <3>4, StandingElsewhere DEF Covered
      <3>5. CASE Destroyed
        <4>1. Replays("destroy") BY <1>1, <1>4, <3>5 DEF Destroyed, Unread
        <4>2. Replays("destroy")' BY <3>1, <4>1 DEF Replays
        <4> QED BY <3>3, <3>5, <4>2, DestroyedCarries DEF Covered
      <3> QED BY <3>4, <3>5
    <2> QED BY <2>2, <2>3
  <1> QED BY <1>3, <1>4

\* A rebuilt store: what the log still hides stays hidden.
LEMMA CoveredRebuild ==
    ASSUME LogInv, [OverlayNext]_overlayVars, Covered, Rebuild, wanted'
    PROVE  Covered'
  <1>1. /\ baseRow' = Gone /\ phase' = "idle" /\ pushing' = Nobody /\ UNCHANGED <<ops, server>>
        /\ entry' = Tombstone /\ entry' = FoldOverlayRow(Gone, ops, Gone)
    BY DEF Rebuild
  <1>2. CASE server = Gone
    BY <1>1, <1>2 DEF SafelyGone, Midway, Covered
  <1>3. CASE server # Gone
    <2>1. Standing BY <1>3 DEF Covered, SafelyGone, Destroyed
    <2>2. Replays("destroy") /\ ~Replays("discard")
      BY <1>1, GoneIsNoTombstone DEF FoldOverlayRow, Replays
    <2>3. Replays("destroy")' /\ ~Replays("discard")' BY <1>1, <2>2 DEF Replays
    <2>4. BareSafe' BY <2>3 DEF BareSafe
    <2>5. ASSUME NEW d \in ops, Latest(d) PROVE d \in ops' /\ Latest(d)'
      <3>1. d \in Folding(ops') BY <1>1, <2>5 DEF Latest
      <3> QED BY <1>1, <2>5, <3>1, LatestElsewhere
    <2>6. Replays("flag")' => Replays("flag") BY <1>1 DEF Replays
    <2>7. Undisturbed' BY <2>1, <2>5, <2>6 DEF Standing, Undisturbed
    <2> QED BY <1>1, <2>4, <2>7 DEF Standing, Covered
  <1> QED BY <1>2, <1>3

\* The command's own re-derivation hides the row its destroy asked for.
LEMMA CoveredByCommand ==
    ASSUME LogInv, BareInv, CommandLatest, [OverlayNext]_overlayVars, CommandRefresh,
           \E op \in Folding(ops) : op.id = cmdRefresh /\ op.kind = "destroy"
    PROVE  Covered'
  <1>1. PICK d \in Folding(ops) : d.id = cmdRefresh /\ d.kind = "destroy"
    OBVIOUS
  <1>2. Latest(d) BY <1>1 DEF CommandLatest
  <1>3. /\ cmdRefresh # Nobody /\ UNCHANGED <<ops, baseRow, runVars>>
        /\ entry' = FoldOverlayRow(baseRow, ops, entry)
    BY DEF CommandRefresh, Refresh
  <1>4. ops \in SUBSET OpRow /\ Replays("destroy") BY <1>1 DEF LogInv, LogRows, Replays, Has
  <1>5. CASE baseRow = Gone
    <2>1. SafelyGone' BY <1>3, <1>5, SafelyStays DEF BareInv, BareCommand
    <2>2. entry' \in {Gone, Tombstone} BY <1>3, <1>4, <1>5, FoldHides
    <2> QED BY <2>1, <2>2 DEF Covered
  <1>6. CASE baseRow # Gone
    <2>1. entry' = Tombstone BY <1>3, <1>4, <1>6, FoldHides DEF Replays
    <2>2. Standing BY <1>1, <1>2, <1>6 DEF Standing, Undisturbed, BareSafe, Folding
    <2>3. pushing' = pushing /\ phase' = phase BY <1>3 DEF runVars
    <2>4. Standing' BY <1>3, <2>2, <2>3, StandingElsewhere
    <2> QED BY <2>1, <2>4 DEF Covered
  <1> QED BY <1>5, <1>6

\* The destroy stands only as its row stays covered.
LEMMA HiddenStep ==
    LogInv /\ BareInv /\ CommandLatest /\ Hidden /\ [OverlayNext]_overlayVars => Hidden'
  <1> SUFFICES ASSUME LogInv, BareInv, CommandLatest, Hidden, [OverlayNext]_overlayVars, wanted'
               PROVE  cmdRefresh' = Nobody /\ Covered'
    BY DEF Hidden
  <1>1. CASE CommandRefresh
    <2>1. ~wanted BY <1>1 DEF CommandRefresh, Hidden
    <2>2. \E op \in Folding(ops) : op.id = cmdRefresh /\ op.kind = "destroy"
      BY <1>1, <2>1 DEF CommandRefresh
    <2> QED BY <1>1, <2>2, CoveredByCommand DEF CommandRefresh
  <1>2. CASE QueueAssertion("flag") \/ QueueAssertion("destroy")
    BY <1>2, CoveredShows DEF QueueAssertion, Hidden
  <1>3. CASE ~CommandRefresh /\ ~QueueAssertion("flag") /\ ~QueueAssertion("destroy")
    <2>1. wanted
      <3>1. CASE DiscardOperation \/ RetryOperation \/ Stop \/ Rebuild \/ RemoteEdit
                 \/ UNCHANGED overlayVars
        BY <3>1 DEF DiscardOperation, RetryOperation, Stop, Rebuild, RemoteEdit, overlayVars
      <3>2. CASE SettleReadback \/ SettleRejected \/ SettleBlind \/ SettleDiscard \/ FailPermanently
        BY <3>2 DEF SettleReadback, SettleRejected, SettleBlind, SettleDiscard, FailPermanently
      <3>3. CASE BeginCycle \/ ClaimOp \/ WriteReadback \/ FlushRefresh \/ FlushStops \/ FlushDone
        BY <3>3 DEF BeginCycle, ClaimOp, WriteReadback, FlushRefresh, FlushStops, FlushDone
      <3>4. CASE \/ Pull \/ ApplyChunk \/ ReplayBaseWrite \/ Truncate \/ TruncateDone \/ SweepRow
                 \/ AbortPull
        BY <3>4 DEF Pull, ApplyChunk, ReplayBaseWrite, Truncate, TruncateDone, SweepRow, AbortPull
      <3> QED BY <1>3, <3>1, <3>2, <3>3, <3>4 DEF OverlayNext, Command, Cycle
    <2>2. cmdRefresh = Nobody /\ Covered BY <2>1 DEF Hidden
    <2>3. cmdRefresh' = Nobody
      BY <1>3, <2>2, CommandWaits, CoveredShows
    <2>4. CASE SafelyGone /\ entry \in {Gone, Tombstone}
      BY <2>3, <2>4, GoneStaysCovered
    <2>5. CASE entry = Tombstone /\ (Standing \/ Destroyed)
      <3> SUFFICES Covered'
        BY <2>3
      <3>1. CASE \/ BeginCycle \/ FlushDone \/ Pull \/ TruncateDone \/ AbortPull \/ RemoteEdit
                 \/ Stop \/ UNCHANGED overlayVars
        BY <2>5, <3>1, CoveredQuiet
      <3>2. CASE WriteReadback \/ ApplyChunk
        BY <2>5, <3>2, CoveredWrite
      <3>3. CASE FlushRefresh \/ ReplayBaseWrite
        BY <2>5, <3>3, CoveredRefresh
      <3>4. CASE ClaimOp \/ SettleBlind \/ FlushStops
        BY <2>5, <3>4, CoveredRewrite
      <3>5. CASE FailPermanently
        <4>1. Pushed.kind # "destroy" BY <3>5 DEF FailPermanently
        <4> QED BY <2>5, <3>5, <4>1, CoveredRewrite
      <3>6. CASE SettleRejected
        <4>1. Pushed.kind # "destroy" BY <3>6 DEF SettleRejected
        <4> QED BY <2>5, <3>6, <4>1, CoveredDrop
      <3>7. CASE SettleDiscard
        <4>1. Pushed.kind # "destroy" BY <3>7 DEF SettleDiscard
        <4> QED BY <2>5, <3>7, <4>1, CoveredDrop
      <3>8. CASE SettleReadback
        BY <2>5, <3>8, CoveredDrop, CoveredReadback
      <3>9. CASE DiscardOperation \/ RetryOperation
        BY <2>5, <3>9, CoveredCommand
      <3>10. CASE Truncate
        BY <2>5, <3>10, CoveredTruncate
      <3>11. CASE SweepRow
        BY <2>5, <3>11, CoveredSweep
      <3>12. CASE Rebuild
        BY <2>2, <3>12, CoveredRebuild
      <3> QED
        BY <1>3, <3>1, <3>2, <3>3, <3>4, <3>5, <3>6, <3>7, <3>8, <3>9, <3>10, <3>11, <3>12
           DEF OverlayNext, Command, Cycle
    <2> QED BY <2>2, <2>4, <2>5 DEF Covered
  <1> QED BY <1>1, <1>2, <1>3

\* A message the user destroyed is not shown again while the destroy stands: not
\* by a snapshot of the old base, an early truncation, a lost expunge or a stop.
THEOREM DestroyedAlwaysHidden == OverlaySpec => []DestroyedStaysHidden
  <1> DEFINE Inv == LogInv /\ BareInv /\ CommandLatest /\ Hidden
  <1>1. OverlayInit => Inv
    <2> SUFFICES ASSUME OverlayInit PROVE Inv
      OBVIOUS
    <2>1. LogInv BY LogInvInit
    <2>2. BareInv
      BY DEF OverlayInit, BareInv, PulledTrue, BareEntry, BareCommand, BareObserved, Pulled, Midway
    <2>3. CommandLatest BY DEF OverlayInit, CommandLatest, Folding
    <2>4. Hidden BY DEF OverlayInit, Hidden
    <2> QED BY <2>1, <2>2, <2>3, <2>4
  <1>2. Inv /\ [OverlayNext]_overlayVars => Inv'
    BY LogInvStep, BareInvStep, CommandLatestStep, HiddenStep
  <1>3. Inv => DestroyedStaysHidden
    BY CoveredShows DEF Hidden, DestroyedStaysHidden
  <1> QED BY <1>1, <1>2, <1>3, PTL DEF OverlaySpec

-----------------------------------------------------------------------------
(***************************************************************************)
(* The compose session.  The newest row is the only one that may be a send *)
(* or a discard, the saves below it hold older bodies, and nothing newer   *)
(* leaves before a row that is still to leave: so while the session keeps  *)
(* its order, the last body written is in a row that has not settled, or   *)
(* the provider has it and nothing queued would overwrite it.              *)
(***************************************************************************)
DraftRow == [id : Nat \ {0}, kind : {"save", "discard", "send"}, create : BOOLEAN,
             state : {"pending", "inflight", "applied", "failed", "uncertain"},
             tried : BOOLEAN, body : Nat, held : BOOLEAN]

DraftTypes ==
    /\ queue \subseteq DraftRow /\ nextRow \in Nat \ {0} /\ claimed \in Nat
    /\ {written, undoing, givenUp} \subseteq Nat /\ written <= MaxBodies
    /\ inHand \in [id : Nat, body : Nat]

\* Row ids are never taken again, and the flusher's claim is on the row it has
\* in hand.
DraftRows ==
    /\ \A op \in queue : op.id < nextRow
    /\ \A op, other \in queue : op.id = other.id => op = other
    /\ inHand.id < nextRow /\ (inHand.id = 0 => inHand = EmptyHand)
    /\ claimed # 0 => /\ claimed = inHand.id
                      /\ \E op \in queue : op.id = claimed /\ op.state = "inflight"

\* A send or a discard closes the session.
Closing ==
    /\ \A op \in queue : /\ op.kind = "send" => op.body = written
                         /\ op.kind = "discard" => written <= givenUp
                         /\ op.held => op.kind = "send"
                         /\ ~IsSave(op) => \A other \in queue : other.id <= op.id
    /\ undoing # 0 => undoing = written /\ \A op \in queue : IsSave(op)

DraftLog == DraftTypes /\ DraftRows /\ Closing

\* While the session keeps its order, the bodies climb with the rows, and a row
\* leaves only after the older ones.
ToLeave(op) == op.state \in {"pending", "inflight"}
Below(op, newer) == op.id < newer.id /\ newer.kind # "discard"

InSession ==
    /\ \A op \in queue : op.kind # "discard" => op.body <= written
    /\ undoing # 0 => \A op \in queue : op.body < written
    /\ \A op, newer \in queue : Below(op, newer) => op.body < newer.body
    /\ \A op, newer \in queue : Below(op, newer) /\ ToLeave(op) => newer.state = "pending"
    /\ \A op, newer \in queue : Below(op, newer) /\ newer.id = inHand.id => ~Flushable(op)
    /\ \A op \in queue : op.id = inHand.id => op.body = inHand.body \/ op.body \in slipped

OrderKept == givenUp < MaxBodies => InSession

\* Where the last body is.
Unsettled == \E op \in queue : op.body = written /\ op.state # "applied"
AtProvider == /\ \E id \in DOMAIN remoteDrafts : remoteDrafts[id] = written
              /\ \A op \in queue : ToLeave(op) => op.body = written
ContentHeld ==
    (written > givenUp /\ written \notin slipped) =>
        undoing = written \/ written \in sentBodies \/ Unsettled \/ AtProvider

DraftInv == DraftLog /\ OrderKept /\ ContentHeld

\* The row the flusher claimed.
LEMMA ClaimedRow ==
    ASSUME DraftLog, claimed # 0
    PROVE  /\ At(claimed) \in queue /\ At(claimed).id = claimed
           /\ At(claimed).state = "inflight" /\ claimed = inHand.id
           /\ \A op \in queue : op.id = claimed => op = At(claimed)
  <1>1. PICK op \in queue : op.id = claimed /\ op.state = "inflight"
    BY DEF DraftLog, DraftRows
  <1>2. At(claimed) = op BY <1>1 DEF At, DraftLog, DraftRows
  <1> QED BY <1>1, <1>2 DEF DraftLog, DraftRows

\* The save the last one is coalesced into is the newest of those still queued.
LEMMA LastQueuedIsNewest ==
    ASSUME DraftLog, QueuedSaves # {}
    PROVE  /\ LastQueued \in queue /\ IsSave(LastQueued) /\ LastQueued.state = "pending"
           /\ \A op \in QueuedSaves : op.id <= LastQueued.id
  <1> DEFINE Gaps == {nextRow - op.id : op \in QueuedSaves}
  <1>1. QueuedSaves \subseteq queue /\ \A op \in QueuedSaves : op.id \in Nat /\ op.id < nextRow
    BY DEF QueuedSaves, DraftLog, DraftTypes, DraftRows, DraftRow
  <1>2. Gaps \in SUBSET Nat /\ Gaps # {} BY <1>1 DEF DraftLog, DraftTypes
  <1>3. Min(Gaps) \in Gaps /\ \A gap \in Gaps : Min(Gaps) <= gap
    BY <1>2, LeastExists
  <1>4. PICK last \in QueuedSaves : nextRow - last.id = Min(Gaps) BY <1>3
  <1>5. \A op \in QueuedSaves : op.id <= last.id
    <2> TAKE op \in QueuedSaves
    <2>1. nextRow - last.id <= nextRow - op.id BY <1>3, <1>4
    <2> QED BY <1>1, <2>1 DEF DraftLog, DraftTypes
  <1>6. LastQueued \in QueuedSaves /\ \A op \in QueuedSaves : op.id <= LastQueued.id
    BY <1>5 DEF LastQueued
  <1> QED BY <1>6 DEF QueuedSaves

\* A row with another state is the same row.
SameRow(op, now) ==
    /\ now \in DraftRow /\ now.id = op.id /\ now.kind = op.kind /\ now.body = op.body
    /\ now.held => op.held

\* What the flusher may have in hand after a step: what it had, or nothing.
HandKept == \/ UNCHANGED flushVars
            \/ inHand' = EmptyHand /\ claimed' = 0

\* Writing a row's state keeps the log (update_operation_state, the claim).
LEMMA EditKeepsLog ==
    ASSUME DraftLog, NEW op \in queue, NEW now, SameRow(op, now), queue' = Edited(op, now),
           UNCHANGED <<nextRow, written, undoing>>, givenUp' \in Nat,
           written <= givenUp => written <= givenUp',
           HandKept \/ UNCHANGED inHand,
           claimed' = 0 \/ (claimed' = inHand'.id /\ inHand'.id = op.id /\ now.state = "inflight")
             \/ (UNCHANGED claimed /\ UNCHANGED inHand /\ claimed # op.id)
    PROVE  DraftLog'
  <1>1. \A row \in queue' : row = now \/ (row \in queue /\ row # op) BY DEF Edited
  <1>2. now \in queue' BY DEF Edited
  <1>3. now.id \in Nat \ {0} /\ op.id \in Nat BY DEF SameRow, DraftRow, DraftLog, DraftTypes
  <1>4. inHand' \in [id : Nat, body : Nat] /\ claimed' \in Nat /\ inHand'.id < nextRow'
        /\ (inHand'.id = 0 => inHand' = EmptyHand)
    <2>1. CASE inHand' = inHand
      <3>1. inHand'.id \in Nat BY <2>1 DEF DraftLog, DraftTypes
      <3>2. claimed \in Nat /\ 0 \in Nat BY DEF DraftLog, DraftTypes
      <3>3. claimed' \in Nat BY <3>1, <3>2, Zenon
      <3> QED BY <2>1, <3>3 DEF DraftLog, DraftTypes, DraftRows, EmptyHand
    <2>2. CASE inHand' = EmptyHand /\ claimed' = 0
      BY <2>2 DEF DraftLog, DraftTypes, DraftRows, EmptyHand
    <2> QED BY <2>1, <2>2 DEF HandKept, flushVars
  <1>5. DraftTypes'
    <2>1. queue' \subseteq DraftRow BY <1>1 DEF SameRow, DraftLog, DraftTypes
    <2> QED BY <1>4, <2>1 DEF DraftLog, DraftTypes
  <1>6. DraftRows'
    <2>1. \A row \in queue' : row.id < nextRow' BY <1>1 DEF SameRow, DraftLog, DraftRows
    <2>2. \A row, other \in queue' : row.id = other.id => row = other
      <3>1. \A row, other \in queue : row.id = other.id => row = other
        BY DEF DraftLog, DraftRows
      <3>2. now.id = op.id BY DEF SameRow
      <3> QED BY <1>1, <3>1, <3>2
    <2>3. claimed' # 0 =>
            claimed' = inHand'.id /\ \E row \in queue' : row.id = claimed' /\ row.state = "inflight"
      <3> SUFFICES ASSUME claimed' # 0
                   PROVE  claimed' = inHand'.id
                          /\ \E row \in queue' : row.id = claimed' /\ row.state = "inflight"
        OBVIOUS
      <3>1. CASE claimed' = inHand'.id /\ inHand'.id = op.id /\ now.state = "inflight"
        BY <1>2, <3>1 DEF SameRow
      <3>2. CASE UNCHANGED claimed /\ UNCHANGED inHand /\ claimed # op.id
        BY <3>2 DEF Edited, DraftLog, DraftRows
      <3> QED BY <3>1, <3>2
    <2> QED BY <1>4, <2>1, <2>2, <2>3 DEF DraftRows
  <1>7. Closing'
    <2>1. \A row \in queue' : /\ row.kind = "send" => row.body = written'
                              /\ row.kind = "discard" => written' <= givenUp'
                              /\ row.held => row.kind = "send"
      <3>1. \A row \in queue' : \E real \in queue : /\ real.kind = row.kind /\ real.body = row.body
                                                    /\ row.held => real.held
        BY <1>1 DEF SameRow
      <3>2. written' = written /\ (written <= givenUp => written' <= givenUp')
        BY DEF DraftLog, DraftTypes
      <3>3. \A real \in queue : /\ real.kind = "send" => real.body = written
                                /\ real.kind = "discard" => written <= givenUp
                                /\ real.held => real.kind = "send"
        BY DEF DraftLog, Closing
      <3> TAKE row \in queue'
      <3>4. PICK real \in queue :
              real.kind = row.kind /\ real.body = row.body /\ (row.held => real.held)
        BY <3>1
      <3>5. row.held => row.kind = "send" BY <3>3, <3>4, Zenon
      <3>6. row.kind = "send" => row.body = written' BY <3>2, <3>3, <3>4
      <3>7. row.kind = "discard" => written' <= givenUp' BY <3>2, <3>3, <3>4
      <3> QED BY <3>5, <3>6, <3>7
    <2>2. \A row \in queue' : ~IsSave(row) => \A other \in queue' : other.id <= row.id
      BY <1>1, <1>3 DEF SameRow, DraftLog, Closing, IsSave
    <2>3. undoing' # 0 => undoing' = written' /\ \A row \in queue' : IsSave(row)
      BY <1>1 DEF SameRow, DraftLog, Closing, IsSave
    <2> QED BY <2>1, <2>2, <2>3 DEF Closing
  <1> QED BY <1>5, <1>6, <1>7 DEF DraftLog

\* Writing a row's state keeps the order when no newer row is overtaken by it
\* and it overtakes no older one.
LEMMA EditKeepsOrder ==
    ASSUME DraftLog, OrderKept, NEW op \in queue, NEW now, SameRow(op, now),
           queue' = Edited(op, now), UNCHANGED <<written, undoing, slipped>>,
           givenUp' < MaxBodies => givenUp < MaxBodies,
           givenUp' < MaxBodies =>
               /\ \/ (ToLeave(now) => ToLeave(op)) /\ (Flushable(now) => Flushable(op))
                  \/ \A row \in queue : ~Below(op, row)
               /\ now.state = "pending" \/ \A row \in queue : Below(row, op) => ~ToLeave(row),
           HandKept \/ UNCHANGED inHand
    PROVE  OrderKept'
  <1> SUFFICES ASSUME givenUp' < MaxBodies PROVE InSession'
    BY DEF OrderKept
  <1>1. \A row \in queue' : row = now \/ (row \in queue /\ row # op) BY DEF Edited
  <1>2. InSession BY DEF OrderKept
  <1>3. \A row \in queue' : row.kind # "discard" => row.body <= written'
    BY <1>1, <1>2 DEF SameRow, InSession
  <1>4. undoing' # 0 => \A row \in queue' : row.body < written'
    BY <1>1, <1>2 DEF SameRow, InSession
  <1>5. \A row, newer \in queue' : Below(row, newer) => row.body < newer.body
    BY <1>1, <1>2 DEF SameRow, InSession, Below, DraftLog, DraftTypes, DraftRow
  <1>6. \A row, newer \in queue' : Below(row, newer) /\ ToLeave(row) => newer.state = "pending"
    <2> SUFFICES ASSUME NEW row \in queue', NEW newer \in queue', Below(row, newer), ToLeave(row)
                 PROVE  newer.state = "pending"
      OBVIOUS
    <2>1. row.id < newer.id /\ newer.kind # "discard" BY DEF Below
    <2>2. CASE row = now
      <3>1. newer # now
        <4>1. now.id \in Nat BY DEF SameRow, DraftRow
        <4>2. ~(now.id < now.id) BY <4>1
        <4> QED BY <2>1, <2>2, <4>2, Zenon
      <3>2. Below(op, newer) BY <2>1, <2>2 DEF Below, SameRow
      <3> QED BY <1>1, <1>2, <2>2, <3>1, <3>2 DEF InSession
    <2>3. CASE newer = now /\ row \in queue
      BY <1>2, <2>1, <2>3 DEF Below, SameRow
    <2>4. CASE row \in queue /\ newer \in queue
      BY <1>2, <2>4 DEF InSession
    <2> QED BY <1>1, <2>2, <2>3, <2>4
  <1>7. CASE inHand' = inHand
    <2>1. \A row, newer \in queue' : Below(row, newer) /\ newer.id = inHand'.id => ~Flushable(row)
      <3> SUFFICES ASSUME NEW row \in queue', NEW newer \in queue', Below(row, newer),
                          newer.id = inHand'.id, Flushable(row)
                   PROVE  FALSE
        OBVIOUS
      <3>1. row.id < newer.id /\ newer.kind # "discard" BY DEF Below
      <3>2. PICK real \in queue : real.id = newer.id /\ real.kind = newer.kind
        BY <1>1 DEF SameRow
      <3>3. CASE row = now
        <4>1. Below(op, real) BY <3>1, <3>2, <3>3 DEF Below, SameRow
        <4>2. Flushable(op) BY <3>3, <4>1
        <4> QED BY <1>2, <1>7, <3>2, <4>1, <4>2 DEF InSession
      <3>4. CASE row \in queue
        <4>1. Below(row, real) BY <3>1, <3>2 DEF Below
        <4> QED BY <1>2, <1>7, <3>2, <3>4, <4>1 DEF InSession
      <3> QED BY <1>1, <3>3, <3>4
    <2>2. \A row \in queue' :
            row.id = inHand'.id => row.body = inHand'.body \/ row.body \in slipped'
      BY <1>1, <1>2, <1>7 DEF SameRow, InSession
    <2> QED BY <1>3, <1>4, <1>5, <1>6, <2>1, <2>2 DEF InSession
  <1>8. CASE inHand' = EmptyHand
    <2>1. \A row \in queue' : row.id # inHand'.id
      BY <1>1, <1>8 DEF SameRow, EmptyHand, DraftLog, DraftTypes, DraftRow
    <2> QED BY <1>3, <1>4, <1>5, <1>6, <2>1 DEF InSession
  <1> QED BY <1>7, <1>8 DEF HandKept, flushVars

\* A new row is a pending one under the next id.
LEMMA NewRowIsRow ==
    ASSUME DraftTypes, NEW kind \in {"save", "discard", "send"}, NEW body \in Nat
    PROVE  LET row == NewRow(kind, body) IN
           /\ row \in DraftRow /\ row.id = nextRow /\ row.kind = kind /\ row.body = body
           /\ row.state = "pending" /\ row.held = FALSE
  <1> DEFINE create == registry = NoEntity
  <1>1. create \in BOOLEAN OBVIOUS
  <1> HIDE DEF create
  <1>2. [id |-> nextRow, kind |-> kind, create |-> create, state |-> "pending", tried |-> FALSE,
         body |-> body, held |-> FALSE] \in DraftRow
    BY <1>1 DEF DraftTypes, DraftRow
  <1> USE DEF create
  <1> QED BY <1>2 DEF NewRow

\* The row a save writes: the last one still pending, or a new one.
LEMMA SavedRow ==
    ASSUME DraftLog, NEW body \in Nat, Save(body)
    PROVE  \E last, row :
             /\ row \in DraftRow /\ row.kind = "save" /\ row.body = body /\ row.state = "pending"
             /\ ~row.held /\ queue' = (queue \ {last}) \cup {row} /\ slipped \subseteq slipped'
             /\ \/ /\ last \in queue /\ IsSave(last) /\ last.state = "pending"
                   /\ row.id = last.id /\ UNCHANGED nextRow
                   /\ \A op \in QueuedSaves : op.id <= last.id
                   /\ claimed = 0 /\ row.id = inHand.id => body \in slipped'
                \/ /\ last \notin queue /\ row.id = nextRow /\ nextRow' = nextRow + 1
                   /\ QueuedSaves = {}
  <1>1. CASE QueuedSaves # {}
    <2> DEFINE last == LastQueued
               row == [last EXCEPT !.body = body]
    <2>1. /\ last \in queue /\ IsSave(last) /\ last.state = "pending"
          /\ \A op \in QueuedSaves : op.id <= last.id
      BY <1>1, LastQueuedIsNewest
    <2>2. last \in DraftRow BY <2>1 DEF DraftLog, DraftTypes
    <2>3. queue' = (queue \ {last}) \cup {row} /\ UNCHANGED nextRow /\ slipped \subseteq slipped'
          /\ (claimed = 0 /\ last.id = inHand.id => body \in slipped')
      BY <1>1 DEF Save, Edited
    <2> HIDE DEF last
    <2>4. /\ row \in DraftRow /\ row.kind = "save" /\ row.body = body /\ row.state = "pending"
          /\ row.id = last.id /\ row.held = last.held
      BY <2>1, <2>2 DEF DraftRow, IsSave
    <2>5. ~last.held BY <2>1 DEF DraftLog, Closing, IsSave
    <2>6. ~row.held BY <2>4, <2>5, Zenon
    <2> HIDE DEF row
    <2> QED BY <2>1, <2>3, <2>4, <2>6
  <1>2. CASE QueuedSaves = {}
    <2> DEFINE row == NewRow("save", body)
    <2>1. /\ row \in DraftRow /\ row.id = nextRow /\ row.kind = "save" /\ row.body = body
          /\ row.state = "pending" /\ row.held = FALSE
      BY NewRowIsRow DEF DraftLog
    <2>2. queue' = queue \cup {row} /\ nextRow' = nextRow + 1 /\ slipped' = slipped
      BY <1>2 DEF Save
    <2> HIDE DEF row
    <2>3. row \notin queue BY <2>1 DEF DraftLog, DraftTypes, DraftRows
    <2>4. queue' = (queue \ {row}) \cup {row} BY <2>2
    <2>5. ~row.held BY <2>1
    <2> QED BY <1>2, <2>1, <2>2, <2>3, <2>4, <2>5
  <1> QED BY <1>1, <1>2

\* save_draft: the row it writes is the newest, under the newest body.
LEMMA SaveKeeps ==
    ASSUME DraftLog, OrderKept, NEW body \in Nat, Save(body), \A op \in queue : IsSave(op),
           written' = body, written <= body, body <= MaxBodies, undoing' = 0,
           UNCHANGED <<flushVars, givenUp>>,
           givenUp < MaxBodies => \A op \in queue : op.body < body
    PROVE  /\ DraftLog' /\ OrderKept'
           /\ \E op \in queue' : op.body = written' /\ op.state = "pending"
  <1>1. PICK last, row :
             /\ row \in DraftRow /\ row.kind = "save" /\ row.body = body /\ row.state = "pending"
             /\ ~row.held /\ queue' = (queue \ {last}) \cup {row} /\ slipped \subseteq slipped'
             /\ \/ /\ last \in queue /\ IsSave(last) /\ last.state = "pending"
                   /\ row.id = last.id /\ UNCHANGED nextRow
                   /\ \A op \in QueuedSaves : op.id <= last.id
                   /\ claimed = 0 /\ row.id = inHand.id => body \in slipped'
                \/ /\ last \notin queue /\ row.id = nextRow /\ nextRow' = nextRow + 1
                   /\ QueuedSaves = {}
    BY SavedRow
  <1>2. \A op \in queue' : op = row \/ (op \in queue /\ op # last) BY <1>1
  <1>3. row \in queue' BY <1>1
  <1>4. \A op \in queue : op.id \in Nat \ {0} /\ op.body \in Nat /\ op.id < nextRow
    BY DEF DraftLog, DraftTypes, DraftRow, DraftRows
  <1>5. row.id \in Nat \ {0} /\ row.id < nextRow'
    BY <1>1, <1>4 DEF DraftRow, DraftLog, DraftTypes
  <1>6. inHand' = inHand /\ claimed' = claimed /\ givenUp' = givenUp BY DEF flushVars
  <1>7. nextRow' \in Nat \ {0} /\ nextRow <= nextRow' BY <1>1 DEF DraftLog, DraftTypes
  <1>8. \A op \in queue' : IsSave(op) BY <1>1, <1>2 DEF IsSave
  <1>9. DraftTypes'
    <2>1. queue' \subseteq DraftRow BY <1>1, <1>2 DEF DraftLog, DraftTypes
    <2> QED BY <1>6, <1>7, <2>1 DEF DraftLog, DraftTypes
  <1>10. DraftRows'
    <2>1. \A op \in queue' : op.id < nextRow'
      BY <1>2, <1>4, <1>5, <1>7 DEF DraftLog, DraftTypes
    <2>2. \A op, other \in queue' : op.id = other.id => op = other
      <3>1. \A op \in queue : op # last => op.id # row.id
        BY <1>1, <1>4 DEF DraftLog, DraftRows
      <3>2. \A op, other \in queue : op.id = other.id => op = other BY DEF DraftLog, DraftRows
      <3> QED BY <1>2, <3>1, <3>2
    <2>3. inHand'.id < nextRow' /\ (inHand'.id = 0 => inHand' = EmptyHand)
      BY <1>6, <1>7 DEF DraftLog, DraftTypes, DraftRows
    <2>4. claimed' # 0 =>
            claimed' = inHand'.id /\ \E op \in queue' : op.id = claimed' /\ op.state = "inflight"
      BY <1>1, <1>6 DEF DraftLog, DraftRows
    <2> QED BY <2>1, <2>2, <2>3, <2>4 DEF DraftRows
  <1>11. Closing'
    <2>1. \A op \in queue' : op.kind = "save" BY <1>8 DEF IsSave
    <2>2. \A op \in queue' : ~op.held
      <3>1. \A op \in queue : ~op.held
        <4>1. \A op \in queue : op.held => op.kind = "send" BY DEF DraftLog, Closing
        <4> QED BY <4>1 DEF IsSave
      <3>2. ~row.held BY <1>1
      <3> QED BY <1>2, <3>1, <3>2, Zenon
    <2> QED BY <1>8, <2>1, <2>2 DEF Closing
  <1>12. OrderKept'
    <2> SUFFICES ASSUME givenUp' < MaxBodies PROVE InSession'
      BY DEF OrderKept
    <2>1. InSession /\ \A op \in queue : op.body < body BY <1>6 DEF OrderKept
    <2>2. \A op \in queue : op # last => op.id < row.id
      <3> SUFFICES ASSUME NEW op \in queue, op # last, ~(op.id < row.id) PROVE FALSE
        OBVIOUS
      <3>1. /\ last \in queue /\ last.state = "pending" /\ row.id = last.id
            /\ \A save \in QueuedSaves : save.id <= last.id
        BY <1>1, <1>4
      <3>2. op.id # last.id BY <3>1 DEF DraftLog, DraftRows
      <3>3. last.id < op.id BY <1>4, <3>1, <3>2
      <3>4. Below(last, op) /\ ToLeave(last) BY <3>1, <3>3 DEF Below, ToLeave, IsSave
      <3>5. op.state = "pending" BY <2>1, <3>1, <3>4 DEF InSession
      <3>6. op \in QueuedSaves BY <3>5 DEF QueuedSaves
      <3> QED BY <1>4, <3>1, <3>3, <3>6
    <2>3. \A op \in queue' : op.body <= written'
      BY <1>1, <1>2, <1>4, <2>1
    <2>4. \A op, newer \in queue' : Below(op, newer) => op.body < newer.body
      <3> SUFFICES ASSUME NEW op \in queue', NEW newer \in queue', Below(op, newer)
                   PROVE  op.body < newer.body
        OBVIOUS
      <3>1. op.id < newer.id BY DEF Below
      <3>2. op \in queue BY <1>2, <1>4, <1>5, <2>2, <3>1
      <3>3. CASE newer = row BY <1>1, <2>1, <3>2, <3>3
      <3> QED BY <1>2, <2>1, <3>2, <3>3 DEF InSession
    <2>5. \A op, newer \in queue' : Below(op, newer) /\ ToLeave(op) => newer.state = "pending"
      <3> SUFFICES ASSUME NEW op \in queue', NEW newer \in queue', Below(op, newer), ToLeave(op)
                   PROVE  newer.state = "pending"
        OBVIOUS
      <3>1. op.id < newer.id BY DEF Below
      <3>2. op \in queue BY <1>2, <1>4, <1>5, <2>2, <3>1
      <3>3. CASE newer = row BY <1>1, <3>3
      <3> QED BY <1>2, <2>1, <3>2, <3>3 DEF InSession
    <2>6. \A op, newer \in queue' : Below(op, newer) /\ newer.id = inHand'.id => ~Flushable(op)
      <3> SUFFICES ASSUME NEW op \in queue', NEW newer \in queue', Below(op, newer),
                          newer.id = inHand'.id
                   PROVE  ~Flushable(op)
        OBVIOUS
      <3>1. op.id < newer.id BY DEF Below
      <3>2. op \in queue BY <1>2, <1>4, <1>5, <2>2, <3>1
      <3>3. CASE newer = row
        <4>1. row.id # nextRow BY <1>6, <3>3 DEF DraftLog, DraftRows, DraftTypes
        <4>2. last \in queue /\ last.id = newer.id /\ IsSave(last) BY <1>1, <3>3, <4>1
        <4>3. Below(op, last) BY <3>1, <4>2 DEF Below, IsSave
        <4> QED BY <1>6, <2>1, <3>2, <4>2, <4>3 DEF InSession
      <3> QED BY <1>2, <1>6, <2>1, <3>2, <3>3 DEF InSession
    <2>7. \A op \in queue' : op.id = inHand'.id => op.body = inHand'.body \/ op.body \in slipped'
      <3> SUFFICES ASSUME NEW op \in queue', op.id = inHand'.id
                   PROVE  op.body = inHand'.body \/ op.body \in slipped'
        OBVIOUS
      <3>1. CASE op \in queue
        BY <1>1, <1>6, <2>1, <3>1 DEF InSession
      <3>2. CASE op = row
        <4>1. row.id # nextRow BY <1>6, <3>2 DEF DraftLog, DraftRows, DraftTypes
        <4>2. last \in queue /\ last.state = "pending" /\ row.id = last.id BY <1>1, <4>1
        <4>3. claimed = 0
          <5> SUFFICES ASSUME claimed # 0 PROVE FALSE
            OBVIOUS
          <5>1. PICK real \in queue : real.id = claimed /\ real.state = "inflight"
            BY DEF DraftLog, DraftRows
          <5>2. claimed = inHand.id BY DEF DraftLog, DraftRows
          <5>3. real.id = last.id BY <1>6, <3>2, <4>2, <5>1, <5>2
          <5>4. real = last BY <4>2, <5>3 DEF DraftLog, DraftRows
          <5> QED BY <4>2, <5>1, <5>4
        <4> QED BY <1>1, <1>6, <3>2, <4>1, <4>3
      <3> QED BY <1>2, <3>1, <3>2
    <2> QED BY <2>3, <2>4, <2>5, <2>6, <2>7 DEF InSession
  <1> QED BY <1>1, <1>3, <1>9, <1>10, <1>11, <1>12 DEF DraftLog

\* Rows that leave the log: a save superseded, a send taken back, a discard
\* done, a settled save the pull absorbed.
LEMMA DropKeeps ==
    ASSUME DraftLog, OrderKept, queue' \subseteq queue, UNCHANGED <<nextRow, written, slipped>>,
           givenUp' \in Nat, givenUp <= givenUp', givenUp' < MaxBodies => givenUp < MaxBodies,
           HandKept, claimed' # 0 => At(claimed) \in queue',
           \/ undoing' = undoing
           \/ /\ undoing' = written /\ \A op \in queue' : IsSave(op)
              /\ givenUp' < MaxBodies => \A op \in queue' : op.body < written
    PROVE  DraftLog' /\ OrderKept'
  <1>1. DraftTypes'
    <2>1. inHand' \in [id : Nat, body : Nat] /\ claimed' \in Nat
      BY DEF DraftLog, DraftTypes, HandKept, flushVars, EmptyHand
    <2>2. undoing' \in Nat BY DEF DraftLog, DraftTypes
    <2> QED BY <2>1, <2>2 DEF DraftLog, DraftTypes
  <1>2. DraftRows'
    <2>1. inHand'.id < nextRow' /\ (inHand'.id = 0 => inHand' = EmptyHand)
      BY DEF DraftLog, DraftTypes, DraftRows, HandKept, flushVars, EmptyHand
    <2>2. claimed' # 0 =>
            claimed' = inHand'.id /\ \E op \in queue' : op.id = claimed' /\ op.state = "inflight"
      <3> SUFFICES ASSUME claimed' # 0
                   PROVE  claimed' = inHand'.id
                          /\ \E op \in queue' : op.id = claimed' /\ op.state = "inflight"
        OBVIOUS
      <3>1. claimed' = claimed /\ inHand' = inHand BY DEF HandKept, flushVars
      <3>2. claimed # 0 BY <3>1
      <3> QED BY <3>1, <3>2, ClaimedRow
    <2> QED BY <2>1, <2>2 DEF DraftLog, DraftRows
  <1>3. Closing'
    <2>1. \A op \in queue' : /\ op.kind = "send" => op.body = written'
                             /\ op.kind = "discard" => written' <= givenUp'
      BY DEF DraftLog, DraftTypes, Closing
    <2>2. \A op \in queue' : op.held => op.kind = "send"
      <3>1. \A op \in queue : op.held => op.kind = "send" BY DEF DraftLog, Closing
      <3> QED BY <3>1
    <2>3. \A op \in queue' : ~IsSave(op) => \A other \in queue' : other.id <= op.id
      BY DEF DraftLog, Closing
    <2>4. undoing' # 0 => undoing' = written' /\ \A op \in queue' : IsSave(op)
      BY DEF DraftLog, Closing
    <2> QED BY <2>1, <2>2, <2>3, <2>4 DEF Closing
  <1>4. OrderKept'
    <2> SUFFICES ASSUME givenUp' < MaxBodies PROVE InSession'
      BY DEF OrderKept
    <2>1. InSession BY DEF OrderKept
    <2>2. \A op, newer \in queue' : Below(op, newer) /\ newer.id = inHand'.id => ~Flushable(op)
      BY <2>1 DEF InSession, HandKept, flushVars, EmptyHand, DraftLog, DraftTypes, DraftRow
    <2>3. \A op \in queue' : op.id = inHand'.id => op.body = inHand'.body \/ op.body \in slipped'
      BY <2>1 DEF InSession, HandKept, flushVars, EmptyHand, DraftLog, DraftTypes, DraftRow
    <2>4. undoing' # 0 => \A op \in queue' : op.body < written' BY <2>1 DEF InSession
    <2> QED BY <2>1, <2>2, <2>3, <2>4 DEF InSession
  <1> QED BY <1>1, <1>2, <1>3, <1>4 DEF DraftLog

\* The send or the discard that closes the session.
LEMMA CloseKeeps ==
    ASSUME DraftLog, OrderKept, NEW kept \in SUBSET queue, \A op \in kept : IsSave(op),
           NEW row \in DraftRow, row.id = nextRow, row.state = "pending",
           \/ row.kind = "send" /\ row.body = written'
           \/ row.kind = "discard" /\ ~row.held,
           queue' = kept \cup {row}, nextRow' = nextRow + 1,
           written' \in Nat, written' <= MaxBodies, written <= written',
           row.kind = "discard" => written' <= givenUp',
           row.kind = "send" => written < written',
           givenUp' \in Nat, givenUp' < MaxBodies => givenUp < MaxBodies,
           undoing' = 0, UNCHANGED <<flushVars, slipped>>, claimed # 0 => At(claimed) \in kept
    PROVE  DraftLog' /\ OrderKept'
  <1>1. inHand' = inHand /\ claimed' = claimed BY DEF flushVars
  <1>2. \A op \in queue' : op = row \/ (op \in queue /\ op \in kept) OBVIOUS
  <1>3. \A op \in queue : op.id \in Nat \ {0} /\ op.body \in Nat /\ op.id < row.id
    BY DEF DraftLog, DraftTypes, DraftRow, DraftRows
  <1>4. row.id \in Nat \ {0} /\ row.id < nextRow' /\ row.id # inHand.id
    BY DEF DraftRow, DraftLog, DraftTypes, DraftRows
  <1>5. DraftTypes'
    <2>1. queue' \subseteq DraftRow BY <1>2 DEF DraftLog, DraftTypes
    <2> QED BY <1>1, <2>1 DEF DraftLog, DraftTypes
  <1>6. DraftRows'
    <2>1. \A op \in queue' : op.id < nextRow' BY <1>2, <1>3, <1>4 DEF DraftLog, DraftTypes
    <2>2. \A op, other \in queue' : op.id = other.id => op = other
      <3>1. \A op \in queue : op.id # row.id BY <1>3, <1>4
      <3>2. \A op, other \in queue : op.id = other.id => op = other BY DEF DraftLog, DraftRows
      <3> QED BY <1>2, <3>1, <3>2
    <2>3. inHand'.id < nextRow' /\ (inHand'.id = 0 => inHand' = EmptyHand)
      BY <1>1 DEF DraftLog, DraftTypes, DraftRows
    <2>4. claimed' # 0 =>
            claimed' = inHand'.id /\ \E op \in queue' : op.id = claimed' /\ op.state = "inflight"
      BY <1>1, ClaimedRow
    <2> QED BY <2>1, <2>2, <2>3, <2>4 DEF DraftRows
  <1>7. Closing'
    <2>1. \A op \in kept : op.kind = "save" BY DEF IsSave
    <2>2. \A op \in queue' : /\ op.kind = "send" => op.body = written'
                             /\ op.kind = "discard" => written' <= givenUp'
      BY <1>2, <2>1
    <2>3. \A op \in queue' : op.held => op.kind = "send"
      <3>1. \A op \in kept : ~op.held
        <4>1. \A op \in queue : op.held => op.kind = "send" BY DEF DraftLog, Closing
        <4> QED BY <2>1, <4>1
      <3>2. row.held => row.kind = "send" OBVIOUS
      <3> QED BY <1>2, <3>1, <3>2, Zenon
    <2>4. \A op \in queue' : ~IsSave(op) => \A other \in queue' : other.id <= op.id
      BY <1>2, <1>3, <1>4, <2>1 DEF IsSave
    <2> QED BY <2>2, <2>3, <2>4 DEF Closing
  <1>8. OrderKept'
    <2> SUFFICES ASSUME givenUp' < MaxBodies PROVE InSession'
      BY DEF OrderKept
    <2>1. InSession BY DEF OrderKept
    <2>2. \A op \in kept : op.body <= written BY <2>1 DEF InSession, IsSave
    <2>3. written \in Nat BY DEF DraftLog, DraftTypes
    <2>4. \A op \in queue' : op.kind # "discard" => op.body <= written'
      BY <1>2, <1>3, <2>2, <2>3
    <2>5. \A op, newer \in queue' : Below(op, newer) =>
            op \in kept /\ \/ newer \in kept
                           \/ newer = row /\ row.kind = "send"
      BY <1>2, <1>3, <1>4 DEF Below, DraftRow
    <2>6. \A op, newer \in queue' : Below(op, newer) => op.body < newer.body
      <3> SUFFICES ASSUME NEW op \in queue', NEW newer \in queue', Below(op, newer)
                   PROVE  op.body < newer.body
        OBVIOUS
      <3>1. op \in kept BY <2>5
      <3>2. CASE newer \in kept BY <2>1, <3>1, <3>2 DEF InSession
      <3>3. CASE newer = row /\ row.kind = "send" BY <1>3, <2>2, <2>3, <3>1, <3>3
      <3> QED BY <2>5, <3>2, <3>3
    <2>7. \A op, newer \in queue' : Below(op, newer) /\ ToLeave(op) => newer.state = "pending"
      BY <2>1, <2>5 DEF InSession
    <2>8. \A op, newer \in queue' : Below(op, newer) /\ newer.id = inHand'.id => ~Flushable(op)
      BY <1>1, <1>4, <2>1, <2>5 DEF InSession
    <2>9. \A op \in queue' : op.id = inHand'.id => op.body = inHand'.body \/ op.body \in slipped'
      BY <1>1, <1>2, <1>4, <2>1 DEF InSession
    <2> QED BY <2>4, <2>6, <2>7, <2>8, <2>9 DEF InSession
  <1> QED BY <1>5, <1>6, <1>7, <1>8 DEF DraftLog

\* A row's state and its hold may be written without its content.
LEMMA StateRewritten ==
    ASSUME NEW op \in DraftRow,
           NEW state \in {"pending", "inflight", "applied", "failed", "uncertain"}
    PROVE  LET now == [op EXCEPT !.state = state] IN
           SameRow(op, now) /\ now.state = state /\ now.held = op.held
  <1>1. [op EXCEPT !.state = state] \in DraftRow BY DEF DraftRow
  <1> QED BY <1>1 DEF DraftRow, SameRow

\* HoldEnds: the release of a scheduled send.
LEMMA HoldRewritten ==
    ASSUME NEW op \in DraftRow
    PROVE  LET now == [op EXCEPT !.held = FALSE] IN
           SameRow(op, now) /\ now.state = op.state /\ now.held = FALSE
  <1>1. [op EXCEPT !.held = FALSE] \in DraftRow BY DEF DraftRow
  <1> QED BY <1>1 DEF DraftRow, SameRow

\* While content is wanted and not given up, the session has kept its order.
LEMMA WantedInOrder ==
    ASSUME DraftLog, OrderKept, written > givenUp
    PROVE  InSession /\ \A op \in queue : op.kind # "discard" /\ op.body <= written
  <1>1. givenUp < MaxBodies BY DraftsAssumption DEF DraftLog, DraftTypes
  <1>2. InSession BY <1>1 DEF OrderKept
  <1>3. \A op \in queue : op.kind # "discard" BY DEF DraftLog, DraftTypes, Closing
  <1> QED BY <1>2, <1>3 DEF InSession

\* Writing a row's state keeps the content, unless the row settles or another
\* body is to leave.
LEMMA EditKeepsContent ==
    ASSUME DraftLog, ContentHeld, NEW op \in queue, NEW now, SameRow(op, now),
           queue' = Edited(op, now), givenUp' \in Nat, written <= givenUp => written <= givenUp',
           UNCHANGED <<written, undoing, remoteDrafts, sentBodies, slipped>>,
           now.state # "applied",
           ToLeave(now) => ToLeave(op) \/ op.body = written \/ written <= givenUp'
    PROVE  ContentHeld'
  <1> SUFFICES ASSUME written > givenUp', written \notin slipped
               PROVE  undoing' = written \/ written \in sentBodies \/ Unsettled' \/ AtProvider'
    BY DEF ContentHeld
  <1>1. written > givenUp BY DEF DraftLog, DraftTypes
  <1>2. \A row \in queue' : row = now \/ (row \in queue /\ row # op) BY DEF Edited
  <1>3. now \in queue' /\ \A row \in queue : row # op => row \in queue' BY DEF Edited
  <1>4. CASE Unsettled
    <2>1. PICK row \in queue : row.body = written /\ row.state # "applied" BY <1>4 DEF Unsettled
    <2>2. Unsettled' BY <1>3, <2>1 DEF Unsettled, SameRow
    <2> QED BY <2>2
  <1>5. CASE AtProvider
    <2>1. ~(written <= givenUp') BY DEF DraftLog, DraftTypes
    <2>2. \A row \in queue' : ToLeave(row) => row.body = written
      BY <1>2, <1>5, <2>1 DEF AtProvider, SameRow
    <2> QED BY <1>5, <2>2 DEF AtProvider
  <1> QED BY <1>1, <1>4, <1>5 DEF ContentHeld

\* The session's first state.
LEMMA DraftInvInit == DraftsInit => DraftInv
  <1> SUFFICES ASSUME DraftsInit PROVE DraftInv
    OBVIOUS
  <1>1. DraftTypes BY DraftsAssumption DEF DraftsInit, DraftTypes, EmptyHand
  <1>2. DraftRows BY DEF DraftsInit, DraftRows, EmptyHand
  <1>3. Closing BY DEF DraftsInit, Closing
  <1>4. OrderKept BY DEF DraftsInit, OrderKept, InSession
  <1>5. ContentHeld BY DEF DraftsInit, ContentHeld
  <1> QED BY <1>1, <1>2, <1>3, <1>4, <1>5 DEF DraftInv, DraftLog

\* save_draft, and the save that follows an undone send.
LEMMA SavesKeep ==
    ASSUME DraftInv, SaveDraft \/ RestoreDraft
    PROVE  DraftInv'
  <1>1. DraftLog /\ OrderKept BY DEF DraftInv
  <1>2. \E body \in Nat : /\ Save(body) /\ \A op \in queue : IsSave(op)
                          /\ written' = body /\ written <= body /\ body <= MaxBodies
                          /\ undoing' = 0
                          /\ UNCHANGED <<flushVars, givenUp>>
                          /\ givenUp < MaxBodies => \A op \in queue : op.body < body
    <2>1. CASE SaveDraft
      <3>1. \A op \in queue : IsSave(op) BY <2>1 DEF SaveDraft, Composing
      <3>2. written' \in Nat /\ written <= written' /\ written' <= MaxBodies
        BY <1>1, <2>1, DraftsAssumption DEF SaveDraft, DraftLog, DraftTypes
      <3>3. givenUp < MaxBodies => \A op \in queue : op.body < written'
        <4> SUFFICES ASSUME givenUp < MaxBodies, NEW op \in queue PROVE op.body < written'
          OBVIOUS
        <4>1. op.body <= written
          BY <1>1, <3>1 DEF OrderKept, InSession, IsSave
        <4>2. op.body \in Nat BY <1>1 DEF DraftLog, DraftTypes, DraftRow
        <4> QED BY <1>1, <2>1, <4>1, <4>2 DEF SaveDraft, DraftLog, DraftTypes
      <3>4. undoing' = 0 /\ UNCHANGED <<flushVars, givenUp>>
        BY <2>1 DEF SaveDraft, Composing
      <3>5. Save(written') BY <2>1 DEF SaveDraft
      <3>6. PICK body \in Nat : body = written' BY <3>2
      <3>7. Save(body) BY <3>5, <3>6 DEF Save
      <3> QED BY <3>1, <3>2, <3>3, <3>4, <3>6, <3>7
    <2>2. CASE RestoreDraft
      <3>1. undoing = written /\ \A op \in queue : IsSave(op)
        BY <1>1, <2>2 DEF RestoreDraft, DraftLog, Closing
      <3>2. written' = undoing /\ undoing \in Nat /\ written <= undoing /\ undoing <= MaxBodies
        BY <1>1, <2>2, <3>1, DraftsAssumption DEF RestoreDraft, DraftLog, DraftTypes
      <3>3. givenUp < MaxBodies => \A op \in queue : op.body < undoing
        BY <1>1, <2>2, <3>1 DEF RestoreDraft, OrderKept, InSession
      <3>4. undoing' = 0 /\ UNCHANGED <<flushVars, givenUp>> /\ Save(undoing)
        BY <2>2 DEF RestoreDraft
      <3> QED BY <3>1, <3>2, <3>3, <3>4
    <2> QED BY <2>1, <2>2
  <1>3. PICK body \in Nat : /\ Save(body) /\ \A op \in queue : IsSave(op)
                            /\ written' = body /\ written <= body /\ body <= MaxBodies
                            /\ undoing' = 0
                            /\ UNCHANGED <<flushVars, givenUp>>
                            /\ givenUp < MaxBodies => \A op \in queue : op.body < body
    BY <1>2
  <1>4. /\ DraftLog' /\ OrderKept'
        /\ \E op \in queue' : op.body = written' /\ op.state = "pending"
    BY <1>1, <1>3, SaveKeeps
  <1>5. Unsettled' BY <1>4 DEF Unsettled
  <1> QED BY <1>4, <1>5 DEF DraftInv, ContentHeld

\* discard_draft, enqueue_send and a send taken back.
LEMMA ClosingKeeps ==
    ASSUME DraftInv, DiscardDraft \/ QueueSend \/ UndoSend
    PROVE  DraftInv'
  <1>1. DraftLog /\ OrderKept BY DEF DraftInv
  <1>2. CASE DiscardDraft
    <2> DEFINE kept == {op \in queue : ~(IsSave(op) /\ op.state \in {"pending", "failed"})}
               reached == \/ registry \in draftRows
                          \/ \E op \in kept : IsSave(op) /\ op.state = "inflight"
                          \/ registry \notin {NoEntity, Key}
    <2>1. /\ written > givenUp /\ undoing = 0 /\ \A op \in queue : IsSave(op)
          /\ queue' = IF reached THEN kept \cup {NewRow("discard", 0)} ELSE kept
          /\ nextRow' = IF reached THEN nextRow + 1 ELSE nextRow
          /\ givenUp' = written /\ written' = written /\ undoing' = undoing /\ slipped' = slipped
          /\ UNCHANGED flushVars
      BY <1>2 DEF DiscardDraft, Composing
    <2>2. /\ givenUp' \in Nat /\ givenUp <= givenUp' /\ written <= MaxBodies
          /\ givenUp' < MaxBodies => givenUp < MaxBodies
      BY <1>1, <2>1, DraftsAssumption DEF DraftLog, DraftTypes
    <2>3. claimed # 0 => At(claimed) \in kept BY <1>1, ClaimedRow
    <2>4. kept \in SUBSET queue OBVIOUS
    <2> HIDE DEF kept, reached
    <2>5. DraftLog' /\ OrderKept'
      <3>1. CASE reached
        <4> DEFINE row == NewRow("discard", 0)
        <4>1. /\ row \in DraftRow /\ row.id = nextRow /\ row.kind = "discard"
              /\ row.state = "pending" /\ ~row.held
          BY <1>1, NewRowIsRow DEF DraftLog
        <4>2. queue' = kept \cup {row} /\ nextRow' = nextRow + 1 BY <2>1, <3>1
        <4>3. /\ written' \in Nat /\ written' <= MaxBodies /\ written <= written'
              /\ written' <= givenUp' /\ undoing' = 0
          BY <1>1, <2>1 DEF DraftLog, DraftTypes
        <4> HIDE DEF row
        <4> QED BY <1>1, <2>1, <2>2, <2>3, <2>4, <4>1, <4>2, <4>3, CloseKeeps
      <3>2. CASE ~reached
        <4>1. queue' \subseteq queue /\ UNCHANGED <<nextRow, written, slipped>> /\ HandKept
              /\ (claimed' # 0 => At(claimed) \in queue')
          BY <2>1, <2>3, <2>4, <3>2 DEF HandKept, flushVars
        <4> QED BY <1>1, <2>1, <2>2, <4>1, DropKeeps
      <3> QED BY <3>1, <3>2
    <2>6. ContentHeld' BY <1>1, <2>1 DEF ContentHeld, DraftLog, DraftTypes
    <2> QED BY <2>5, <2>6 DEF DraftInv
  <1>3. CASE QueueSend
    <2>1. PICK waits \in BOOLEAN :
            /\ written < MaxBodies /\ undoing = 0 /\ \A op \in queue : IsSave(op)
            /\ written' = written + 1
            /\ queue' = queue \cup {[NewRow("send", written') EXCEPT !.held = waits]}
            /\ nextRow' = nextRow + 1 /\ givenUp' = givenUp /\ undoing' = undoing
            /\ slipped' = slipped /\ UNCHANGED flushVars
      BY <1>3 DEF QueueSend, Composing
    <2> DEFINE new == NewRow("send", written')
               row == [new EXCEPT !.held = waits]
    <2>2. written' \in Nat /\ written' <= MaxBodies /\ written < written' /\ written <= written'
          /\ undoing' = 0
      BY <1>1, <2>1, DraftsAssumption DEF DraftLog, DraftTypes
    <2>3. /\ new \in DraftRow /\ new.id = nextRow /\ new.kind = "send" /\ new.body = written'
          /\ new.state = "pending"
      <3>1. PICK body \in Nat : body = written' BY <2>2
      <3>2. LET made == NewRow("send", body) IN
            /\ made \in DraftRow /\ made.id = nextRow /\ made.kind = "send" /\ made.body = body
            /\ made.state = "pending"
        BY <1>1, NewRowIsRow DEF DraftLog
      <3> QED BY <3>1, <3>2
    <2> HIDE DEF new
    <2>4. /\ row \in DraftRow /\ row.id = nextRow /\ row.kind = "send" /\ row.body = written'
          /\ row.state = "pending"
      BY <2>3 DEF DraftRow
    <2>5. queue' = queue \cup {row} BY <2>1 DEF new
    <2> HIDE DEF row
    <2>6. claimed # 0 => At(claimed) \in queue BY <1>1, ClaimedRow
    <2>7. givenUp' \in Nat /\ (givenUp' < MaxBodies => givenUp < MaxBodies)
      BY <1>1, <2>1 DEF DraftLog, DraftTypes
    <2>8. DraftLog' /\ OrderKept'
      BY <1>1, <2>1, <2>2, <2>4, <2>5, <2>6, <2>7, CloseKeeps
    <2>9. Unsettled' BY <2>4, <2>5 DEF Unsettled
    <2> QED BY <2>8, <2>9 DEF DraftInv, ContentHeld
  <1>4. CASE UndoSend
    <2>1. PICK op \in queue :
            /\ op.kind = "send" /\ op.state \in {"pending", "failed", "uncertain"}
            /\ queue' = queue \ {op} /\ undoing' = op.body
            /\ nextRow' = nextRow /\ written' = written /\ givenUp' = givenUp /\ slipped' = slipped
            /\ UNCHANGED flushVars
      BY <1>4 DEF UndoSend
    <2>2. undoing' = written BY <1>1, <2>1 DEF DraftLog, Closing
    <2>3. \A other \in queue' : other \in queue /\ other.id < op.id
      BY <1>1, <2>1 DEF DraftLog, DraftTypes, DraftRow, DraftRows, Closing, IsSave
    <2>4. op.id \in Nat /\ \A other \in queue : other.id \in Nat
      BY <1>1 DEF DraftLog, DraftTypes, DraftRow
    <2>5. \A other \in queue' : IsSave(other)
      <3>1. \A other \in queue : ~IsSave(other) => op.id <= other.id
        BY <1>1 DEF DraftLog, Closing
      <3> QED BY <2>3, <2>4, <3>1
    <2>6. givenUp' < MaxBodies => \A other \in queue' : other.body < written
      <3> SUFFICES ASSUME givenUp' < MaxBodies, NEW other \in queue' PROVE other.body < written
        OBVIOUS
      <3>1. Below(other, op) BY <2>1, <2>3 DEF Below
      <3>2. other.body < op.body BY <1>1, <2>1, <2>3, <3>1 DEF OrderKept, InSession
      <3> QED BY <1>1, <2>1, <2>2, <3>2
    <2>7. claimed' # 0 => At(claimed) \in queue'
      BY <1>1, <2>1, ClaimedRow DEF flushVars
    <2>8. givenUp' \in Nat /\ givenUp <= givenUp' /\ (givenUp' < MaxBodies => givenUp < MaxBodies)
      BY <1>1, <2>1 DEF DraftLog, DraftTypes
    <2>9. HandKept /\ queue' \subseteq queue /\ UNCHANGED <<nextRow, written, slipped>>
      BY <2>1 DEF HandKept
    <2>10. DraftLog' /\ OrderKept'
      BY <1>1, <2>2, <2>5, <2>6, <2>7, <2>8, <2>9, DropKeeps
    <2> QED BY <2>1, <2>2, <2>10 DEF DraftInv, ContentHeld
  <1> QED BY <1>2, <1>3, <1>4

\* retry_operation, the fetch, the claim, the early draft of a held send and the
\* end of its hold.
LEMMA RewritesKeep ==
    ASSUME DraftInv, RetryDraft \/ FetchDraft \/ ClaimDraft \/ EnsureDraft \/ HoldEnds
    PROVE  DraftInv'
  <1>1. DraftLog /\ OrderKept /\ ContentHeld BY DEF DraftInv
  <1>2. \A op \in queue : /\ op \in DraftRow
                          /\ ~IsSave(op) => \A row \in queue : ~Below(op, row)
    <2>1. \A op \in queue : op \in DraftRow /\ op.id \in Nat
      BY <1>1 DEF DraftLog, DraftTypes, DraftRow
    <2> QED BY <1>1, <2>1 DEF DraftLog, Closing, Below
  <1>3. claimed # 0 => /\ At(claimed) \in queue /\ At(claimed).state = "inflight"
                       /\ claimed = inHand.id
                       /\ \A op \in queue : op.id = claimed => op = At(claimed)
    BY <1>1, ClaimedRow
  <1>4. givenUp \in Nat /\ written \in Nat BY <1>1 DEF DraftLog, DraftTypes
  <1>5. CASE RetryDraft
    <2>1. PICK op \in queue :
            /\ op.state \in {"failed", "uncertain"}
            /\ queue' = Edited(op, [op EXCEPT !.state = "pending"])
            /\ givenUp' = IF IsSave(op) /\ op.body < written THEN MaxBodies ELSE givenUp
            /\ UNCHANGED <<nextRow, written, undoing, slipped, inHand, claimed, remoteDrafts,
                           sentBodies>>
      BY <1>5 DEF RetryDraft, flushVars, remoteVars
    <2> DEFINE now == [op EXCEPT !.state = "pending"]
    <2>2. SameRow(op, now) /\ now.state = "pending" BY <1>2, StateRewritten
    <2>3. queue' = Edited(op, now) BY <2>1
    <2> HIDE DEF now
    <2>4. givenUp' \in Nat /\ (written <= givenUp => written <= givenUp')
          /\ (givenUp' < MaxBodies => givenUp' = givenUp)
      <3>1. written <= MaxBodies /\ MaxBodies \in Nat
        BY <1>1, DraftsAssumption DEF DraftLog, DraftTypes
      <3> QED BY <1>4, <2>1, <3>1
    <2>5. claimed # op.id
      <3>1. op.id # 0 BY <1>2 DEF DraftRow
      <3> QED BY <1>3, <2>1, <3>1
    <2>6. DraftLog'
      BY <1>1, <2>1, <2>2, <2>3, <2>4, <2>5, EditKeepsLog
    <2>7. givenUp' < MaxBodies => ~IsSave(op) \/ op.body = written
      <3> SUFFICES ASSUME givenUp' < MaxBodies, IsSave(op) PROVE op.body = written
        OBVIOUS
      <3>1. ~(op.body < written) BY <2>1, DraftsAssumption
      <3>2. op.body <= written BY <1>1, <2>4 DEF OrderKept, InSession, IsSave
      <3> QED BY <1>2, <1>4, <3>1, <3>2 DEF DraftRow
    <2>8. givenUp' < MaxBodies => \A row \in queue : ~Below(op, row)
      <3> SUFFICES ASSUME givenUp' < MaxBodies, NEW row \in queue, Below(op, row), op.body = written
                   PROVE  FALSE
        BY <1>2, <2>7
      <3>1. op.body < row.body /\ row.body <= written
        BY <1>1, <2>4 DEF OrderKept, InSession, Below
      <3> QED BY <1>2, <1>4, <3>1 DEF DraftRow
    <2>9. OrderKept'
      BY <1>1, <2>1, <2>2, <2>3, <2>4, <2>8, EditKeepsOrder
    <2>10. op.body = written \/ written <= givenUp'
      <3>1. CASE givenUp' < MaxBodies
        <4>1. op.kind = "send" => op.body = written BY <1>1 DEF DraftLog, Closing
        <4>2. op.kind = "discard" => written <= givenUp' BY <1>1, <1>4, <2>4 DEF DraftLog, Closing
        <4> QED BY <1>2, <2>7, <3>1, <4>1, <4>2 DEF DraftRow, IsSave
      <3>2. CASE ~(givenUp' < MaxBodies)
        BY <1>1, <2>4, <3>2, DraftsAssumption DEF DraftLog, DraftTypes
      <3> QED BY <3>1, <3>2
    <2>11. ContentHeld'
      BY <1>1, <2>1, <2>2, <2>3, <2>4, <2>10, EditKeepsContent
    <2> QED BY <2>6, <2>9, <2>11 DEF DraftInv
  <1>6. CASE FetchDraft
    <2>1. PICK op \in queue :
            /\ inHand = EmptyHand /\ Flushable(op)
            /\ \A older \in queue : older.id < op.id => ~Flushable(older)
            /\ IF op.kind = "send" /\ op.state = "inflight"
               THEN queue' = Edited(op, [op EXCEPT !.state = "uncertain"]) /\ UNCHANGED inHand
               ELSE inHand' = [id |-> op.id, body |-> op.body] /\ UNCHANGED queue
            /\ UNCHANGED <<nextRow, written, undoing, givenUp, slipped, claimed, remoteDrafts,
                           sentBodies>>
      BY <1>6 DEF FetchDraft, userVars, remoteVars
    <2>2. claimed = 0
      <3>1. inHand.id = 0 BY <2>1 DEF EmptyHand
      <3> QED BY <1>2, <1>3, <3>1 DEF DraftRow
    <2>3. CASE op.kind = "send" /\ op.state = "inflight"
      <3> DEFINE now == [op EXCEPT !.state = "uncertain"]
      <3>1. SameRow(op, now) /\ now.state = "uncertain" BY <1>2, StateRewritten
      <3>2. queue' = Edited(op, now) /\ inHand' = inHand BY <2>1, <2>3
      <3> HIDE DEF now
      <3>3. ~ToLeave(now) /\ ~Flushable(now) BY <3>1 DEF ToLeave, Flushable
      <3>4. ToLeave(op) /\ now.state # "applied" BY <2>3, <3>1 DEF ToLeave
      <3>5. givenUp' = givenUp /\ givenUp <= givenUp BY <1>4, <2>1
      <3>6. DraftLog'
        BY <1>1, <1>4, <2>1, <2>2, <3>1, <3>2, <3>5, EditKeepsLog
      <3>7. givenUp < MaxBodies => \A row \in queue : Below(row, op) => ~ToLeave(row)
        <4> SUFFICES ASSUME givenUp < MaxBodies, NEW row \in queue, Below(row, op), ToLeave(row)
                     PROVE  FALSE
          OBVIOUS
        <4>1. op.state = "pending" BY <1>1 DEF OrderKept, InSession
        <4> QED BY <2>3, <4>1
      <3>8. OrderKept'
        BY <1>1, <2>1, <3>1, <3>2, <3>3, <3>5, <3>7, EditKeepsOrder
      <3>9. ContentHeld'
        BY <1>1, <1>4, <2>1, <3>1, <3>2, <3>3, <3>4, <3>5, EditKeepsContent
      <3> QED BY <3>6, <3>8, <3>9 DEF DraftInv
    <2>4. CASE ~(op.kind = "send" /\ op.state = "inflight")
      <3>1. inHand' = [id |-> op.id, body |-> op.body] /\ queue' = queue BY <2>1, <2>4
      <3>2. op.id \in Nat \ {0} /\ op.body \in Nat /\ inHand'.id = op.id /\ inHand'.body = op.body
        BY <1>2, <3>1 DEF DraftRow
      <3>3. DraftTypes'
        BY <1>1, <2>1, <3>1, <3>2 DEF DraftLog, DraftTypes
      <3>4. DraftRows'
        <4>1. op.id < nextRow BY <1>1 DEF DraftLog, DraftRows
        <4> QED BY <1>1, <2>1, <2>2, <3>1, <3>2, <4>1 DEF DraftLog, DraftRows
      <3>5. Closing' BY <1>1, <2>1, <3>1 DEF DraftLog, Closing
      <3>6. OrderKept'
        <4> SUFFICES ASSUME givenUp < MaxBodies PROVE InSession'
          BY <2>1 DEF OrderKept
        <4>1. InSession BY <1>1 DEF OrderKept
        <4>2. \A row \in queue : row.id = op.id => row = op BY <1>1 DEF DraftLog, DraftRows
        <4>3. \A row, newer \in queue :
                Below(row, newer) /\ newer.id = inHand'.id => ~Flushable(row)
          BY <2>1, <3>2 DEF Below
        <4> QED BY <2>1, <3>1, <3>2, <4>1, <4>2, <4>3 DEF InSession
      <3>7. ContentHeld'
        BY <1>1, <2>1, <3>1 DEF ContentHeld, Unsettled, AtProvider
      <3> QED BY <3>3, <3>4, <3>5, <3>6, <3>7 DEF DraftInv, DraftLog
    <2> QED BY <2>3, <2>4
  <1>7. CASE ClaimDraft
    <2>1. /\ inHand # EmptyHand /\ claimed = 0
          /\ UNCHANGED <<nextRow, written, undoing, givenUp, slipped, remoteDrafts, sentBodies>>
      BY <1>7 DEF ClaimDraft, userVars, remoteVars
    <2>2. CASE \E op \in queue : /\ Claimable(op) /\ claimed' = inHand.id
                                 /\ queue' = Edited(op, [op EXCEPT !.state = "inflight"])
                                 /\ UNCHANGED inHand
      <3>1. PICK op \in queue : /\ Claimable(op) /\ claimed' = inHand.id
                                /\ queue' = Edited(op, [op EXCEPT !.state = "inflight"])
                                /\ UNCHANGED inHand
        BY <2>2
      <3>2. op.id = inHand.id /\ ToLeave(op) BY <3>1 DEF Claimable, ToLeave
      <3> DEFINE now == [op EXCEPT !.state = "inflight"]
      <3>3. SameRow(op, now) /\ now.state = "inflight" /\ now.held = op.held BY <1>2, StateRewritten
      <3>4. queue' = Edited(op, now) BY <3>1
      <3> HIDE DEF now
      <3>5. Flushable(now) => Flushable(op) BY <3>2, <3>3 DEF Flushable, ToLeave
      <3>6. givenUp' = givenUp /\ givenUp <= givenUp BY <1>4, <2>1
      <3>7. DraftLog'
        BY <1>1, <1>4, <2>1, <3>1, <3>2, <3>3, <3>4, <3>6, EditKeepsLog
      <3>8. givenUp < MaxBodies => \A row \in queue : Below(row, op) => ~ToLeave(row)
        <4> SUFFICES ASSUME givenUp < MaxBodies, NEW row \in queue, Below(row, op), ToLeave(row)
                     PROVE  FALSE
          OBVIOUS
        <4>1. ~Flushable(row) BY <1>1, <3>2 DEF OrderKept, InSession
        <4>2. row.held BY <4>1 DEF Flushable, ToLeave
        <4>3. row.kind = "send" BY <1>1, <4>2 DEF DraftLog, Closing
        <4> QED BY <1>2, <4>3 DEF IsSave
      <3>9. OrderKept'
        BY <1>1, <2>1, <3>1, <3>2, <3>3, <3>4, <3>5, <3>6, <3>8, EditKeepsOrder
      <3>10. ContentHeld'
        BY <1>1, <1>4, <2>1, <3>2, <3>3, <3>4, <3>6, EditKeepsContent
      <3> QED BY <3>7, <3>9, <3>10 DEF DraftInv
    <2>3. CASE inHand' = EmptyHand /\ UNCHANGED <<queue, claimed>>
      <3>1. HandKept /\ (claimed' # 0 => At(claimed) \in queue')
        BY <2>1, <2>3 DEF HandKept
      <3>2. DraftLog' /\ OrderKept'
        BY <1>1, <1>4, <2>1, <2>3, <3>1, DropKeeps
      <3>3. ContentHeld'
        BY <1>1, <2>1, <2>3 DEF ContentHeld, Unsettled, AtProvider
      <3> QED BY <3>2, <3>3 DEF DraftInv
    <2> QED BY <1>7, <2>2, <2>3 DEF ClaimDraft
  <1>8. CASE EnsureDraft
    <2>1. PICK op \in queue : /\ op.kind = "send" /\ op.state = "pending"
                              /\ UNCHANGED <<queue, nextRow, written, undoing, givenUp, slipped,
                                             inHand, claimed>>
      BY <1>8 DEF EnsureDraft, userVars, flushVars
    <2>2. DraftLog' /\ OrderKept'
      BY <1>1, <2>1 DEF DraftLog, DraftTypes, DraftRows, Closing, OrderKept, InSession
    <2>3. Unsettled' BY <1>1, <2>1 DEF Unsettled, DraftLog, Closing
    <2> QED BY <2>2, <2>3 DEF DraftInv, ContentHeld
  <1>9. CASE HoldEnds
    <2>1. PICK op \in queue :
            /\ op.held /\ queue' = Edited(op, [op EXCEPT !.held = FALSE])
            /\ UNCHANGED <<nextRow, written, undoing, givenUp, slipped, inHand, claimed,
                           remoteDrafts, sentBodies>>
      BY <1>9 DEF HoldEnds, userVars, flushVars, remoteVars
    <2> DEFINE now == [op EXCEPT !.held = FALSE]
    <2>2. SameRow(op, now) /\ now.state = op.state BY <1>2, HoldRewritten
    <2>3. queue' = Edited(op, now) BY <2>1
    <2> HIDE DEF now
    <2>4. op.kind = "send" BY <1>1, <2>1 DEF DraftLog, Closing
    <2>5. \A row \in queue : ~Below(op, row) BY <1>2, <2>4 DEF IsSave
    <2>6. givenUp' = givenUp /\ givenUp <= givenUp BY <1>4, <2>1
    <2>7. DraftLog'
      <3>1. CASE claimed # op.id
        BY <1>1, <1>4, <2>1, <2>2, <2>3, <2>6, <3>1, EditKeepsLog
      <3>2. CASE claimed = op.id
        <4>1. claimed # 0 BY <1>2, <3>2 DEF DraftRow
        <4>2. op.state = "inflight" /\ inHand.id = op.id BY <1>3, <3>2, <4>1
        <4> QED BY <1>1, <1>4, <2>1, <2>2, <2>3, <2>6, <3>2, <4>2, EditKeepsLog
      <3> QED BY <3>1, <3>2
    <2>8. givenUp < MaxBodies =>
            now.state = "pending" \/ \A row \in queue : Below(row, op) => ~ToLeave(row)
      BY <1>1, <2>2 DEF OrderKept, InSession
    <2>9. OrderKept'
      BY <1>1, <2>1, <2>2, <2>3, <2>5, <2>6, <2>8, EditKeepsOrder
    <2>10. ContentHeld'
      <3>1. CASE op.state # "applied"
        BY <1>1, <1>4, <2>1, <2>2, <2>3, <2>6, <3>1, EditKeepsContent DEF ToLeave
      <3>2. CASE op.state = "applied"
        <4>1. \A row \in queue' : row = now \/ (row \in queue /\ row # op) BY <2>3 DEF Edited
        <4>2. \A row \in queue : row # op => row \in queue' BY <2>3 DEF Edited
        <4>3. ~ToLeave(now) BY <2>2, <3>2 DEF ToLeave
        <4>4. Unsettled => Unsettled' BY <2>1, <3>2, <4>2 DEF Unsettled
        <4>5. AtProvider => AtProvider' BY <2>1, <4>1, <4>3 DEF AtProvider
        <4> QED BY <1>1, <2>1, <4>4, <4>5 DEF ContentHeld
      <3> QED BY <3>1, <3>2
    <2> QED BY <2>7, <2>9, <2>10 DEF DraftInv
  <1> QED BY <1>5, <1>6, <1>7, <1>8, <1>9

\* A save pushed: the provider holds the body the flusher had in hand.
LEMMA SavedAtProvider ==
    ASSUME NEW op, NEW replaced, NEW id, CreateAs(op, replaced, id)
    PROVE  id \in DOMAIN remoteDrafts' /\ remoteDrafts'[id] = op.body
  <1>1. remoteDrafts' = With(Without(remoteDrafts, {replaced} \ {id}), id, op.body)
    BY DEF CreateAs
  <1> QED BY <1>1 DEF With

\* push_operation and its settlements, for a save, a discard and a send.
LEMMA PushesKeep ==
    ASSUME DraftInv, PushSave \/ PushDiscard \/ PushSend
    PROVE  DraftInv'
  <1>1. DraftLog /\ OrderKept /\ ContentHeld BY DEF DraftInv
  <1>2. claimed # 0 BY DEF PushSave, PushDiscard, PushSend
  <1> DEFINE row == At(claimed)
  <1>3. /\ row \in queue /\ row.id = claimed /\ row.state = "inflight" /\ claimed = inHand.id
        /\ \A op \in queue : op.id = claimed => op = row
    BY <1>1, <1>2, ClaimedRow
  <1>4. row \in DraftRow BY <1>1, <1>3 DEF DraftLog, DraftTypes
  <1>5. givenUp \in Nat /\ written \in Nat BY <1>1 DEF DraftLog, DraftTypes
  <1>6. ToLeave(row) BY <1>3 DEF ToLeave
  <1>7. CASE PushSave
    <2>1. PICK id \in 1 .. (2 * MaxBodies + MaxMishaps), answered \in BOOLEAN,
               tried \in BOOLEAN,
               outcome \in {"inflight", "failed", "applied"} :
            /\ IsSave(row)
            /\ \E target : CreateAs([row EXCEPT !.body = inHand.body], target, id)
            /\ queue' = Edited(row, [row EXCEPT !.state = outcome, !.tried = tried])
            /\ inHand' = EmptyHand /\ claimed' = 0
            /\ UNCHANGED <<nextRow, written, undoing, givenUp, slipped, sentBodies>>
      <3>1. PICK id \in 1 .. (2 * MaxBodies + MaxMishaps), answered \in BOOLEAN :
              LET op == [row EXCEPT !.body = inHand.body]
                  target == IF op.create THEN NoEntity ELSE registry
                  missing == target # NoEntity /\ target \notin DOMAIN remoteDrafts
                  refused == onJmap /\ missing /\ target # id /\ ~op.tried
                  outcome == IF ~answered THEN "inflight"
                             ELSE IF refused THEN "failed" ELSE "applied"
              IN /\ IsSave(op) /\ CreateAs(op, target, id)
                 /\ queue' = Edited(row, [row EXCEPT !.state = outcome, !.tried = @ \/ refused])
                 /\ inHand' = EmptyHand /\ claimed' = 0
                 /\ UNCHANGED <<nextRow, written, undoing, givenUp, slipped>>
        BY <1>7 DEF PushSave, userVars
      <3> DEFINE op == [row EXCEPT !.body = inHand.body]
                 target == IF op.create THEN NoEntity ELSE registry
                 missing == target # NoEntity /\ target \notin DOMAIN remoteDrafts
                 refused == onJmap /\ missing /\ target # id /\ ~op.tried
                 outcome == IF ~answered THEN "inflight"
                            ELSE IF refused THEN "failed" ELSE "applied"
                 tried == row.tried \/ refused
      <3>2. refused \in BOOLEAN /\ outcome \in {"inflight", "failed", "applied"} OBVIOUS
      <3>3. IsSave(row) /\ UNCHANGED sentBodies
        BY <1>4, <3>1 DEF IsSave, CreateAs, DraftRow
      <3>4. CreateAs(op, target, id)
            /\ queue' = Edited(row, [row EXCEPT !.state = outcome, !.tried = tried])
        BY <3>1
      <3>6. tried \in BOOLEAN OBVIOUS
      <3> HIDE DEF target, refused, outcome, op, tried
      <3>5. CreateAs([row EXCEPT !.body = inHand.body], target, id) BY <3>4 DEF op
      <3> QED BY <3>1, <3>2, <3>3, <3>4, <3>5, <3>6
    <2> DEFINE now == [row EXCEPT !.state = outcome, !.tried = tried]
    <2>3. queue' = Edited(row, now) BY <2>1
    <2>4. SameRow(row, now) /\ now.state = outcome /\ now.held = row.held
      <3> HIDE DEF row
      <3>1. now \in DraftRow BY <1>4 DEF DraftRow
      <3> QED BY <1>4, <3>1 DEF DraftRow, SameRow
    <2>5. id \in DOMAIN remoteDrafts' /\ remoteDrafts'[id] = inHand.body
      <3>1. PICK target : CreateAs([row EXCEPT !.body = inHand.body], target, id) BY <2>1
      <3>2. [row EXCEPT !.body = inHand.body].body = inHand.body BY <1>4 DEF DraftRow
      <3> HIDE DEF row
      <3> QED BY <3>1, <3>2, SavedAtProvider
    <2> HIDE DEF now, row
    <2>6. HandKept /\ givenUp' = givenUp BY <2>1 DEF HandKept
    <2>7. DraftLog'
      BY <1>1, <1>3, <1>5, <2>1, <2>3, <2>4, <2>6, EditKeepsLog
    <2>8. givenUp < MaxBodies => \A op \in queue : Below(op, row) => ~ToLeave(op)
      <3> SUFFICES ASSUME givenUp < MaxBodies, NEW op \in queue, Below(op, row), ToLeave(op)
                   PROVE  FALSE
        OBVIOUS
      <3>1. row.state = "pending" BY <1>1, <1>3 DEF OrderKept, InSession
      <3> QED BY <1>3, <3>1
    <2>9. Flushable(now) => Flushable(row)
      BY <1>3, <2>4 DEF Flushable
    <2>10. OrderKept'
      BY <1>1, <1>3, <1>6, <2>1, <2>3, <2>4, <2>6, <2>8, <2>9, EditKeepsOrder
    <2>11. ContentHeld'
      <3> SUFFICES ASSUME written > givenUp, written \notin slipped
                   PROVE  undoing' = written \/ written \in sentBodies' \/ Unsettled' \/ AtProvider'
        BY <2>1 DEF ContentHeld
      <3>1. InSession /\ \A op \in queue : op.kind # "discard" /\ op.body <= written
        BY <1>1, WantedInOrder
      <3>2. \A op \in queue' : op = now \/ (op \in queue /\ op # row) BY <2>3 DEF Edited
      <3>3. now \in queue' /\ \A op \in queue : op # row => op \in queue' BY <2>3 DEF Edited
      <3>4. ASSUME row.body = written PROVE Unsettled' \/ AtProvider'
        <4>1. inHand.body = written BY <1>3, <3>1, <3>4 DEF InSession
        <4>2. CASE outcome # "applied"
          BY <2>1, <2>4, <3>3, <3>4, <4>2 DEF Unsettled, SameRow
        <4>3. CASE outcome = "applied"
          <5>1. \A op \in queue : op # row => ~ToLeave(op)
            <6> SUFFICES ASSUME NEW op \in queue, op # row, ToLeave(op) PROVE FALSE
              OBVIOUS
            <6>1. op.id # row.id BY <1>3
            <6>2. op.id \in Nat /\ row.id \in Nat /\ op.body \in Nat
              BY <1>1, <1>4 DEF DraftLog, DraftTypes, DraftRow
            <6>3. CASE op.id < row.id
              <7>1. Below(op, row) BY <1>3, <3>1, <6>3 DEF Below
              <7> QED BY <1>3, <3>1, <7>1 DEF InSession
            <6>4. CASE row.id < op.id
              <7>1. Below(row, op) BY <3>1, <6>4 DEF Below
              <7>2. row.body < op.body /\ op.body <= written BY <1>3, <3>1, <7>1 DEF InSession
              <7> QED BY <1>5, <3>4, <6>2, <7>2
            <6> QED BY <6>1, <6>2, <6>3, <6>4
          <5>2. \A op \in queue' : ToLeave(op) => op.body = written'
            BY <2>1, <2>4, <3>2, <3>4, <5>1 DEF SameRow
          <5>3. AtProvider' BY <2>1, <2>5, <4>1, <5>2 DEF AtProvider
          <5> QED BY <5>3
        <4> QED BY <4>2, <4>3
      <3>5. CASE undoing = written \/ written \in sentBodies BY <2>1, <3>5
      <3>6. CASE Unsettled
        <4>1. PICK op \in queue : op.body = written /\ op.state # "applied" BY <3>6 DEF Unsettled
        <4>2. CASE op = row BY <3>4, <4>1, <4>2
        <4>3. CASE op # row BY <2>1, <3>3, <4>1, <4>3 DEF Unsettled
        <4> QED BY <4>2, <4>3
      <3>7. CASE AtProvider
        <4>1. row.body = written BY <1>3, <1>6, <3>7 DEF AtProvider
        <4> QED BY <3>4, <4>1
      <3> QED BY <1>1, <3>5, <3>6, <3>7 DEF ContentHeld
    <2> QED BY <2>7, <2>10, <2>11 DEF DraftInv
  <1>8. CASE PushDiscard
    <2>1. /\ row.kind = "discard" /\ queue' = queue \ {row} /\ inHand' = EmptyHand /\ claimed' = 0
          /\ UNCHANGED <<nextRow, written, undoing, givenUp, slipped>>
      BY <1>8 DEF PushDiscard, userVars
    <2> HIDE DEF row
    <2>2. HandKept /\ (claimed' # 0 => At(claimed) \in queue') /\ queue' \subseteq queue
      BY <2>1 DEF HandKept
    <2>3. DraftLog' /\ OrderKept'
      BY <1>1, <1>5, <2>1, <2>2, DropKeeps
    <2>4. written <= givenUp BY <1>1, <1>3, <2>1 DEF DraftLog, Closing
    <2>5. ContentHeld' BY <1>5, <2>1, <2>4 DEF ContentHeld
    <2> QED BY <2>3, <2>5 DEF DraftInv
  <1>9. CASE PushSend
    <2>1. PICK outcome \in {"applied", "uncertain", "failed"} :
            /\ row.kind = "send"
            /\ sentBodies' = IF outcome = "failed" THEN sentBodies ELSE sentBodies \cup {row.body}
            /\ queue' = Edited(row, [row EXCEPT !.state = outcome, !.tried = TRUE])
            /\ inHand' = EmptyHand /\ claimed' = 0
            /\ UNCHANGED <<nextRow, written, undoing, givenUp, slipped>>
      BY <1>9 DEF PushSend, userVars
    <2> DEFINE now == [row EXCEPT !.state = outcome, !.tried = TRUE]
    <2>2. SameRow(row, now) /\ now.state = outcome
      <3> HIDE DEF row
      <3>1. now \in DraftRow BY <1>4 DEF DraftRow
      <3> QED BY <1>4, <3>1 DEF DraftRow, SameRow
    <2>3. queue' = Edited(row, now) BY <2>1
    <2> HIDE DEF now, row
    <2>4. HandKept /\ givenUp' = givenUp BY <2>1 DEF HandKept
    <2>5. DraftLog'
      BY <1>1, <1>3, <1>5, <2>1, <2>2, <2>3, <2>4, EditKeepsLog
    <2>6. ~ToLeave(now) /\ ~Flushable(now) BY <2>1, <2>2 DEF ToLeave, Flushable
    <2>7. givenUp < MaxBodies => \A op \in queue : Below(op, row) => ~ToLeave(op)
      <3> SUFFICES ASSUME givenUp < MaxBodies, NEW op \in queue, Below(op, row), ToLeave(op)
                   PROVE  FALSE
        OBVIOUS
      <3>1. row.state = "pending" BY <1>1, <1>3 DEF OrderKept, InSession
      <3> QED BY <1>3, <3>1
    <2>8. OrderKept'
      BY <1>1, <1>3, <2>1, <2>2, <2>3, <2>4, <2>6, <2>7, EditKeepsOrder
    <2>9. row.body = written BY <1>1, <1>3, <2>1 DEF DraftLog, Closing
    <2>10. written \in sentBodies' \/ Unsettled'
      <3>1. now \in queue' BY <2>3 DEF Edited
      <3>2. CASE outcome = "failed"
        BY <2>1, <2>2, <2>9, <3>1, <3>2 DEF Unsettled, SameRow
      <3>3. CASE outcome # "failed" BY <2>1, <2>9, <3>3
      <3> QED BY <3>2, <3>3
    <2> QED BY <2>1, <2>5, <2>8, <2>10 DEF DraftInv, ContentHeld
  <1> QED BY <1>7, <1>8, <1>9

\* A completed pull, a stop of the daemon, and every step that touches neither
\* the log nor the content.
LEMMA RestKeeps ==
    ASSUME DraftInv, SyncDrafts \/ DraftStop \/ UNCHANGED draftVars
    PROVE  DraftInv'
  <1>1. DraftLog /\ OrderKept /\ ContentHeld BY DEF DraftInv
  <1>2. givenUp \in Nat /\ written \in Nat BY <1>1 DEF DraftLog, DraftTypes
  <1>3. CASE SyncDrafts
    <2>1. /\ inHand = EmptyHand /\ queue' = {op \in queue : op.state # "applied"}
          /\ UNCHANGED <<nextRow, written, undoing, givenUp, slipped, inHand, claimed, sentBodies,
                         remoteDrafts>>
      BY <1>3 DEF SyncDrafts, userVars, flushVars, remoteVars
    <2>2. HandKept BY <2>1 DEF HandKept, flushVars
    <2>3. claimed' # 0 => At(claimed) \in queue' BY <1>1, <2>1, ClaimedRow
    <2>4. queue' \subseteq queue BY <2>1
    <2>5. DraftLog' /\ OrderKept'
      BY <1>1, <1>2, <2>1, <2>2, <2>3, <2>4, DropKeeps
    <2>6. ContentHeld' BY <1>1, <2>1 DEF ContentHeld, Unsettled, AtProvider
    <2> QED BY <2>5, <2>6 DEF DraftInv
  <1>4. CASE DraftStop
    <2>1. /\ inHand' = EmptyHand /\ claimed' = 0 /\ undoing' = 0
          /\ slipped' = IF undoing # 0 THEN slipped \cup {undoing} ELSE slipped
          /\ UNCHANGED <<queue, nextRow, written, givenUp, remoteDrafts, sentBodies>>
      BY <1>4 DEF DraftStop, remoteVars
    <2>2. DraftTypes' BY <1>1, <2>1 DEF DraftLog, DraftTypes, EmptyHand
    <2>3. DraftRows' BY <1>1, <2>1 DEF DraftLog, DraftTypes, DraftRows, EmptyHand
    <2>4. Closing' BY <1>1, <2>1 DEF DraftLog, Closing
    <2>5. OrderKept'
      <3>1. \A op \in queue : op.id # inHand'.id
        BY <1>1, <2>1 DEF DraftLog, DraftTypes, DraftRow, EmptyHand
      <3> QED BY <1>1, <2>1, <3>1 DEF OrderKept, InSession
    <2>6. ContentHeld'
      BY <1>1, <1>2, <2>1 DEF ContentHeld, Unsettled, AtProvider, DraftLog, DraftTypes
    <2> QED BY <2>2, <2>3, <2>4, <2>5, <2>6 DEF DraftInv, DraftLog
  <1>5. CASE UNCHANGED draftVars
    <2>1. DraftLog' BY <1>1, <1>5 DEF draftVars, DraftLog, DraftTypes, DraftRows, Closing
    <2>2. OrderKept' BY <1>1, <1>5 DEF draftVars, OrderKept, InSession
    <2>3. ContentHeld' BY <1>1, <1>5 DEF draftVars, ContentHeld, Unsettled, AtProvider
    <2> QED BY <2>1, <2>2, <2>3 DEF DraftInv
  <1> QED BY <1>3, <1>4, <1>5

\* Authored mail is never lost, through races with the flusher, rotations, undo,
\* redelivery and stops, outside the two known gaps.
THEOREM ContentAlwaysKept == DraftsSpec => []ContentNeverLost
  <1>1. DraftInv /\ [DraftsNext]_draftVars => DraftInv'
    BY SavesKeep, ClosingKeeps, RewritesKeep, PushesKeep, RestKeeps DEF DraftsNext
  <1>2. DraftInv => ContentNeverLost
    BY DEF DraftInv, ContentHeld, Unsettled, AtProvider, ContentNeverLost
  <1> QED BY DraftInvInit, <1>1, <1>2, PTL DEF DraftsSpec

-----------------------------------------------------------------------------
(***************************************************************************)
(* Seek pagination.  The rows of a list are finite in number, carry their  *)
(* own tie key and are linearly ordered, so a page is the rows up to the   *)
(* cursor.  The invariant says of a walk under way that the rows shown are *)
(* exactly those not beyond the cursor, as far as they stayed in place.    *)
(***************************************************************************)
Keys == Nat \X Nat

WalkTypes ==
    /\ inView \in SUBSET Listed
    /\ walk.at \in {"off", "first", "on", "done"} /\ walk.of \in {"messages", "conversations"}
    /\ walk.sort \in {"date", "flag", "size"} /\ walk.desc \in BOOLEAN
    /\ walk.sort = "size" => walk.of = "conversations"
    /\ walk = [at |-> walk.at, of |-> walk.of, sort |-> walk.sort, desc |-> walk.desc,
               cursor |-> walk.cursor, seen |-> walk.seen, twice |-> walk.twice]

\* The rows that are where they were when the walk began.
Stayed == {r \in ListRows(walk, inView, flagged) : r[2] \notin moved}

NothingSeen == walk.at = "first" => walk.seen = {} /\ walk.twice = {}

SeenToCursor ==
    walk.at = "on" =>
        /\ walk.cursor \in Keys
        /\ \A r \in Stayed : /\ r[2] \notin walk.twice
                             /\ r[2] \in walk.seen <=> ~Beyond(walk.desc, walk.cursor, r)

WalkInv == WalkTypes /\ NothingSeen /\ SeenToCursor /\ WalkSeesAll

\* The order of the rows (Before) is linear on keys.
LEMMA KeysInOrder ==
    ASSUME NEW desc \in BOOLEAN, NEW a \in Keys, NEW b \in Keys, NEW c \in Keys
    PROVE  /\ ~Before(desc, a, a)
           /\ a = b \/ Before(desc, a, b) \/ Before(desc, b, a)
           /\ ~(Before(desc, a, b) /\ Before(desc, b, a))
           /\ Before(desc, a, b) /\ Before(desc, b, c) => Before(desc, a, c)
  <1>1. /\ a = <<a[1], a[2]>> /\ b = <<b[1], b[2]>> /\ c = <<c[1], c[2]>>
        /\ a[1] \in Nat /\ a[2] \in Nat /\ b[1] \in Nat /\ b[2] \in Nat /\ c[1] \in Nat /\ c[2] \in Nat
    BY DEF Keys
  <1>2. CASE desc = TRUE BY <1>1, <1>2 DEF Before
  <1>3. CASE desc = FALSE BY <1>1, <1>3 DEF Before
  <1> QED BY <1>2, <1>3

\* The rows in front of a row: finitely many, and fewer than in front of a later one.
LEMMA PlaceClimbs ==
    ASSUME NEW desc \in BOOLEAN, NEW found \in SUBSET Keys, IsFiniteSet(found)
    PROVE  /\ \A r \in found : Place(desc, found, r) \in Nat \ {0}
           /\ \A r, k \in found : Before(desc, k, r) => Place(desc, found, k) < Place(desc, found, r)
           /\ \A r, k \in found : Place(desc, found, k) <= Place(desc, found, r) <=> ~Before(desc, r, k)
  <1> DEFINE Ahead(r) == {k \in found : Before(desc, k, r)}
  <1>1. \A r \in found : IsFiniteSet(Ahead(r)) /\ Cardinality(Ahead(r)) \in Nat
    <2> TAKE r \in found
    <2>1. Ahead(r) \in SUBSET found OBVIOUS
    <2> HIDE DEF Ahead
    <2> QED BY <2>1, FS_Subset, FS_CardinalityType
  <1>2. \A r \in found : Place(desc, found, r) = Cardinality(Ahead(r)) + 1 BY DEF Place
  <1>3. ASSUME NEW r \in found, NEW k \in found, Before(desc, k, r)
        PROVE  Place(desc, found, k) < Place(desc, found, r)
    <2>1. Ahead(k) \in SUBSET Ahead(r)
      <3> SUFFICES ASSUME NEW x \in found, Before(desc, x, k) PROVE Before(desc, x, r) OBVIOUS
      <3> QED BY <1>3, KeysInOrder
    <2>2. k \in Ahead(r) BY <1>3
    <2>3. k \notin Ahead(k) BY KeysInOrder
    <2> HIDE DEF Ahead
    <2>4. Cardinality(Ahead(k)) <= Cardinality(Ahead(r)) /\ Cardinality(Ahead(k)) # Cardinality(Ahead(r))
      BY <1>1, <2>1, <2>2, <2>3, FS_Subset
    <2> QED BY <1>1, <1>2, <2>4
  <1>4. \A r \in found : Place(desc, found, r) \in Nat \ {0}
    <2> HIDE DEF Ahead
    <2> QED BY <1>1, <1>2
  <1>5. ASSUME NEW r \in found, NEW k \in found
        PROVE  Place(desc, found, k) <= Place(desc, found, r) <=> ~Before(desc, r, k)
    <2>1. r = k \/ Before(desc, r, k) \/ Before(desc, k, r) BY KeysInOrder
    <2>2. CASE r = k BY <2>2, <1>4, KeysInOrder
    <2>3. CASE Before(desc, r, k) BY <2>3, <1>3, <1>4
    <2>4. CASE Before(desc, k, r)
      <3>1. ~Before(desc, r, k) BY <2>4, KeysInOrder
      <3> QED BY <3>1, <2>4, <1>3, <1>4
    <2> QED BY <2>1, <2>2, <2>3, <2>4
  <1> QED BY <1>3, <1>4, <1>5

\* Some row is the last one.
LEMMA LastRowExists ==
    ASSUME NEW desc \in BOOLEAN, NEW found \in SUBSET Keys, IsFiniteSet(found), found # {}
    PROVE  \E r \in found : \A k \in found : k = r \/ Before(desc, k, r)
  <1> DEFINE Rest(r) == {k \in found : Before(desc, r, k)}
             sizes == {Cardinality(Rest(r)) : r \in found}
  <1>1. \A r \in found : IsFiniteSet(Rest(r)) /\ Cardinality(Rest(r)) \in Nat
    <2> TAKE r \in found
    <2>1. Rest(r) \in SUBSET found OBVIOUS
    <2> HIDE DEF Rest
    <2> QED BY <2>1, FS_Subset, FS_CardinalityType
  <1>2. sizes \in SUBSET Nat /\ sizes # {}
    <2> HIDE DEF Rest
    <2> QED BY <1>1
  <1>3. Min(sizes) \in sizes /\ \A x \in sizes : Min(sizes) <= x
    <2> HIDE DEF sizes
    <2> QED BY <1>2, LeastExists
  <1>4. PICK r \in found : \A k \in found : Cardinality(Rest(r)) <= Cardinality(Rest(k))
    <2> HIDE DEF Rest
    <2> QED BY <1>3
  <1>5. ASSUME NEW k \in found, Before(desc, r, k) PROVE FALSE
    <2>1. Rest(k) \in SUBSET Rest(r)
      <3> SUFFICES ASSUME NEW x \in found, Before(desc, k, x) PROVE Before(desc, r, x) OBVIOUS
      <3> QED BY <1>5, KeysInOrder
    <2>2. k \in Rest(r) /\ k \notin Rest(k) BY <1>5, KeysInOrder
    <2> HIDE DEF Rest
    <2>3. Cardinality(Rest(k)) <= Cardinality(Rest(r)) /\ Cardinality(Rest(k)) # Cardinality(Rest(r))
      BY <1>1, <2>1, <2>2, FS_Subset
    <2> QED BY <2>3, <1>1, <1>4
  <1>6. \A k \in found : k = r \/ Before(desc, k, r) BY <1>5, KeysInOrder
  <1> QED BY <1>6

\* Places leave no gap: a row beyond the page has one at the page's end in front of it.
LEMMA RowBefore ==
    ASSUME NEW desc \in BOOLEAN, NEW found \in SUBSET Keys, IsFiniteSet(found),
           NEW r \in found, Place(desc, found, r) > 1
    PROVE  \E k \in found : Place(desc, found, r) = Place(desc, found, k) + 1
  <1> DEFINE Ahead(x) == {k \in found : Before(desc, k, x)}
  <1>1. Ahead(r) \in SUBSET Keys /\ IsFiniteSet(Ahead(r)) /\ Cardinality(Ahead(r)) \in Nat
    <2>1. Ahead(r) \in SUBSET found OBVIOUS
    <2> HIDE DEF Ahead
    <2> QED BY <2>1, FS_Subset, FS_CardinalityType
  <1>2. \A x \in found : Place(desc, found, x) = Cardinality(Ahead(x)) + 1 BY DEF Place
  <1>3. Ahead(r) # {}
    <2> HIDE DEF Ahead
    <2> QED BY <1>1, <1>2, FS_EmptySet
  <1>4. PICK k \in Ahead(r) : \A x \in Ahead(r) : x = k \/ Before(desc, x, k)
    <2> HIDE DEF Ahead
    <2> QED BY <1>1, <1>3, LastRowExists
  <1>5. k \in found /\ Before(desc, k, r) BY <1>4
  <1>6. Ahead(k) = Ahead(r) \ {k}
    <2>1. ASSUME NEW x \in found, Before(desc, x, k) PROVE Before(desc, x, r) /\ x # k
      BY <2>1, <1>5, KeysInOrder
    <2> QED BY <2>1, <1>4, <1>5
  <1>7. Cardinality(Ahead(r) \ {k}) = Cardinality(Ahead(r)) - 1
    <2> HIDE DEF Ahead
    <2> QED BY <1>1, <1>4, FS_RemoveElement
  <1>8. Place(desc, found, k) = Cardinality(Ahead(r) \ {k}) + 1 BY <1>2, <1>5, <1>6
  <1>9. Place(desc, found, r) = Cardinality(Ahead(r)) + 1 BY <1>2
  <1> HIDE DEF Ahead
  <1> QED BY <1>1, <1>5, <1>7, <1>8, <1>9

\* query_message_page: the page is the rows up to its last one, and all of them
\* when the query found no row beyond the page.
LEMMA PageEnds ==
    ASSUME NEW desc \in BOOLEAN, NEW found \in SUBSET Keys, IsFiniteSet(found)
    PROVE  LET more == \E r \in found : Place(desc, found, r) = PageLimit + 1
               last == CHOOSE r \in Page(desc, found) : Place(desc, found, r) = PageLimit
           IN  /\ ~more => Page(desc, found) = found
               /\ more => last \in found /\ Page(desc, found) = {r \in found : ~Before(desc, last, r)}
  <1> DEFINE at(r) == Place(desc, found, r)
             more == \E r \in found : at(r) = PageLimit + 1
             last == CHOOSE r \in Page(desc, found) : at(r) = PageLimit
             past == {at(r) : r \in {r \in found : at(r) > PageLimit}}
  <1>1. \A r \in found : at(r) \in Nat \ {0} BY PlaceClimbs
  <1>2. PageLimit \in Nat \ {0} BY WalkAssumption
  <1>3. \A r \in found : at(r) > 1 => \E k \in found : at(r) = at(k) + 1 BY RowBefore
  <1>4. \A r, k \in found : at(k) <= at(r) <=> ~Before(desc, r, k) BY PlaceClimbs
  <1>5. Page(desc, found) = {r \in found : at(r) <= PageLimit} BY DEF Page
  <1> HIDE DEF at
  <1>6. ASSUME NEW r \in found, at(r) > PageLimit PROVE more
    <2>1. past \in SUBSET Nat /\ past # {} BY <1>1, <1>6
    <2>2. Min(past) \in past /\ \A n \in past : Min(past) <= n
      <3> HIDE DEF past
      <3> QED BY <2>1, LeastExists
    <2>3. PICK x \in found : at(x) > PageLimit /\ \A k \in found : at(k) > PageLimit => at(x) <= at(k)
      BY <2>2
    <2>4. PICK k \in found : at(x) = at(k) + 1 BY <1>1, <1>2, <1>3, <2>3
    <2>5. at(k) <= PageLimit BY <1>1, <1>2, <2>3, <2>4
    <2>6. at(x) = PageLimit + 1 BY <1>1, <1>2, <2>3, <2>4, <2>5
    <2> QED BY <2>6
  <1>7. ~more => Page(desc, found) = found BY <1>1, <1>2, <1>5, <1>6
  <1>8. ASSUME more PROVE last \in found /\ at(last) = PageLimit
    <2>1. PICK r \in found : at(r) = PageLimit + 1 BY <1>8
    <2>2. PICK k \in found : at(r) = at(k) + 1 BY <1>2, <1>3, <2>1
    <2>3. at(k) = PageLimit BY <1>1, <1>2, <2>1, <2>2
    <2>4. k \in Page(desc, found) BY <1>2, <1>5, <2>3
    <2>5. last \in Page(desc, found) /\ at(last) = PageLimit BY <2>3, <2>4
    <2> QED BY <2>5, <1>5
  <1>9. ASSUME more PROVE Page(desc, found) = {r \in found : ~Before(desc, last, r)}
    <2>1. last \in found /\ at(last) = PageLimit BY <1>8, <1>9
    <2> HIDE DEF last
    <2> QED BY <2>1, <1>4, <1>5
  <1>10. (~more => Page(desc, found) = found)
         /\ (more => last \in found /\ Page(desc, found) = {r \in found : ~Before(desc, last, r)})
    BY <1>7, <1>8, <1>9
  <1> QED BY <1>10 DEF at

\* The latest of some messages is one of them.
LEMMA LatestIsOne ==
    ASSUME NEW ms \in SUBSET Listed, ms # {}
    PROVE  LatestOf(ms) \in ms
  <1> DEFINE found == {<<DateOf[m], m>> : m \in ms}
             f == [m \in ms |-> <<DateOf[m], m>>]
  <1>1. \A m \in ms : DateOf[m] \in Nat /\ m \in Nat BY WalkAssumption
  <1>2. found \in SUBSET Keys /\ found # {}
    <2>1. found \in SUBSET Keys BY <1>1 DEF Keys
    <2>2. PICK m \in ms : TRUE OBVIOUS
    <2>3. <<DateOf[m], m>> \in found BY <2>2
    <2> QED BY <2>1, <2>3
  <1>3. IsFiniteSet(ms) BY WalkAssumption, FS_Subset
  <1>4. f \in Surjection(ms, found)
    <2>1. f \in [ms -> found] OBVIOUS
    <2>2. \A r \in found : \E m \in ms : f[m] = r OBVIOUS
    <2> HIDE DEF f, found
    <2> QED BY <2>1, <2>2 DEF Surjection
  <1>5. IsFiniteSet(found)
    <2> HIDE DEF f, found
    <2> QED BY <1>3, <1>4, FS_Surjection DEF ExistsSurjection
  <1>6. PICK r \in found : \A k \in found : k = r \/ Before(FALSE, k, r)
    <2> HIDE DEF found
    <2> QED BY <1>2, <1>5, LastRowExists
  <1>7. PICK m \in ms : r = <<DateOf[m], m>> OBVIOUS
  <1>8. \A k \in ms : DateOf[k] < DateOf[m] \/ (DateOf[k] = DateOf[m] /\ k <= m)
    <2> TAKE k \in ms
    <2>1. <<DateOf[k], k>> = <<DateOf[m], m>> \/ Before(FALSE, <<DateOf[k], k>>, <<DateOf[m], m>>)
      BY <1>6, <1>7
    <2> QED BY <2>1, <1>1 DEF Before
  <1> QED BY <1>8 DEF LatestOf

\* The rows of a list are finitely many keys, one to a tie key.
LEMMA RowsAreKeys ==
    ASSUME NEW w, NEW view \in SUBSET Listed, NEW flags,
           w.sort \in {"date", "flag", "size"}, w.sort = "size" => w.of = "conversations"
    PROVE  /\ ListRows(w, view, flags) \in SUBSET Keys
           /\ IsFiniteSet(ListRows(w, view, flags))
           /\ \A a, b \in ListRows(w, view, flags) : a[2] = b[2] => a = b
  <1>1. IsFiniteSet(view) BY WalkAssumption, FS_Subset
  <1>2. \A m \in Listed : m \in Nat /\ DateOf[m] \in Nat /\ ConvOf[m] \in Nat BY WalkAssumption
  <1>3. \A m \in Listed : MessageKey(m, w.sort, flags) \in Nat BY <1>2 DEF MessageKey
  <1>4. CASE w.of = "messages"
    <2> DEFINE found == {<<MessageKey(m, w.sort, flags), m>> : m \in view}
               f == [m \in view |-> <<MessageKey(m, w.sort, flags), m>>]
    <2>1. ListRows(w, view, flags) = found BY <1>4 DEF ListRows, MessageRows
    <2>2. f \in Surjection(view, found) BY DEF Surjection
    <2>3. IsFiniteSet(found)
      <3> HIDE DEF f, found
      <3> QED BY <1>1, <2>2, FS_Surjection DEF ExistsSurjection
    <2>4. found \in SUBSET Keys /\ \A a, b \in found : a[2] = b[2] => a = b BY <1>2, <1>3 DEF Keys
    <2> HIDE DEF found
    <2> QED BY <2>1, <2>3, <2>4
  <1>5. CASE w.of # "messages"
    <2> DEFINE Of(c) == {m \in view : ConvOf[m] = c}
               key(c) == CASE w.sort = "date" -> DateOf[LatestOf(Of(c))]
                           [] w.sort = "flag" -> MessageKey(LatestOf(Of(c)), w.sort, flags)
                           [] w.sort = "size" -> Cardinality(Of(c))
               found == {<<key(c), c>> : c \in {ConvOf[m] : m \in view}}
               f == [m \in view |-> <<key(ConvOf[m]), ConvOf[m]>>]
    <2>1. ListRows(w, view, flags) = found BY <1>5 DEF ListRows, ConversationRows
    <2>2. ASSUME NEW m \in view PROVE key(ConvOf[m]) \in Nat /\ ConvOf[m] \in Nat
      <3>1. Of(ConvOf[m]) \in SUBSET view /\ m \in Of(ConvOf[m]) OBVIOUS
      <3>2. LatestOf(Of(ConvOf[m])) \in Listed
        <4> HIDE DEF Of
        <4> QED BY <3>1, LatestIsOne
      <3>3. Cardinality(Of(ConvOf[m])) \in Nat
        <4> HIDE DEF Of
        <4> QED BY <1>1, <3>1, FS_Subset, FS_CardinalityType
      <3> HIDE DEF Of
      <3>4. CASE w.sort = "date" BY <3>4, <3>2, <1>2
      <3>5. CASE w.sort = "flag" BY <3>5, <3>2, <1>2, <1>3
      <3>6. CASE w.sort = "size" BY <3>6, <3>3, <1>2
      <3> QED BY <3>4, <3>5, <3>6
    <2> HIDE DEF key
    <2>3. f \in Surjection(view, found) BY DEF Surjection
    <2>4. IsFiniteSet(found)
      <3> HIDE DEF f, found
      <3> QED BY <1>1, <2>3, FS_Surjection DEF ExistsSurjection
    <2>5. found \in SUBSET Keys /\ \A a, b \in found : a[2] = b[2] => a = b BY <2>2 DEF Keys
    <2> HIDE DEF found
    <2> QED BY <2>1, <2>4, <2>5
  <1> QED BY <1>4, <1>5

\* The initial states (WalkInit): no walk has begun.
LEMMA WalkInvInit == WalkInit => WalkInv
  BY DEF WalkInit, NoWalk, WalkInv, WalkTypes, NothingSeen, SeenToCursor, WalkSeesAll

\* A walk starts with nothing seen.
LEMMA StartWalkKeeps == ASSUME WalkInv, StartWalk PROVE WalkInv'
  <1>1. PICK of \in {"messages", "conversations"}, sort \in {"date", "flag", "size"}, desc \in BOOLEAN :
            /\ sort = "size" => of = "conversations"
            /\ walk' = [NoWalk EXCEPT !.at = "first", !.of = of, !.sort = sort, !.desc = desc]
    BY DEF StartWalk
  <1>2. walk' = [at |-> "first", of |-> of, sort |-> sort, desc |-> desc,
                 cursor |-> <<0, 0>>, seen |-> {}, twice |-> {}]
    BY <1>1 DEF NoWalk
  <1>3. inView' = inView BY DEF StartWalk
  <1>4. walk'.at = "first" /\ walk'.seen = {} /\ walk'.twice = {} BY <1>2
  <1>5. WalkTypes' BY <1>1, <1>2, <1>3 DEF WalkInv, WalkTypes
  <1>6. NothingSeen' /\ SeenToCursor' /\ WalkSeesAll'
    BY <1>4 DEF NothingSeen, SeenToCursor, WalkSeesAll
  <1> QED BY <1>5, <1>6 DEF WalkInv

\* A page: what it shows is what lies between the cursors, and a row that stayed
\* is on one side of each.
LEMMA NextPageKeeps == ASSUME WalkInv, NextPage PROVE WalkInv'
  <1> DEFINE all == ListRows(walk, inView, flagged)
             found == {r \in all : walk.at = "on" => Beyond(walk.desc, walk.cursor, r)}
             page == Page(walk.desc, found)
             more == \E r \in found : Place(walk.desc, found, r) = PageLimit + 1
             last == CHOOSE r \in page : Place(walk.desc, found, r) = PageLimit
             ids == {r[2] : r \in page}
  <1>1. /\ inView \in SUBSET Listed /\ walk.at \in {"first", "on"} /\ walk.desc \in BOOLEAN
        /\ walk.of \in {"messages", "conversations"} /\ walk.sort \in {"date", "flag", "size"}
        /\ walk.sort = "size" => walk.of = "conversations"
    BY DEF WalkInv, WalkTypes, NextPage
  <1>2. walk' = [walk EXCEPT !.at = IF more THEN "on" ELSE "done",
                             !.cursor = IF more THEN last ELSE walk.cursor,
                             !.seen = walk.seen \cup ids,
                             !.twice = walk.twice \cup (walk.seen \cap ids)]
    BY DEF NextPage
  <1>3. walk' = [at |-> IF more THEN "on" ELSE "done", of |-> walk.of, sort |-> walk.sort,
                 desc |-> walk.desc, cursor |-> IF more THEN last ELSE walk.cursor,
                 seen |-> walk.seen \cup ids, twice |-> walk.twice \cup (walk.seen \cap ids)]
    <2>1. walk = [at |-> walk.at, of |-> walk.of, sort |-> walk.sort, desc |-> walk.desc,
                  cursor |-> walk.cursor, seen |-> walk.seen, twice |-> walk.twice]
      BY DEF WalkInv, WalkTypes
    <2> HIDE DEF more, last, ids
    <2> QED BY <1>2, <2>1
  <1>4. UNCHANGED <<inView, flagged, moved>> BY DEF NextPage
  <1>5. /\ all \in SUBSET Keys /\ IsFiniteSet(all)
        /\ \A a, b \in all : a[2] = b[2] => a = b
    BY <1>1, RowsAreKeys
  <1>6. found \in SUBSET all /\ IsFiniteSet(found)
    <2>1. found \in SUBSET all OBVIOUS
    <2> HIDE DEF found, all
    <2> QED BY <2>1, <1>5, FS_Subset
  <1>7. /\ ~more => page = found
        /\ more => last \in found /\ page = {r \in found : ~Before(walk.desc, last, r)}
    <2> HIDE DEF found, all
    <2> QED BY <1>1, <1>5, <1>6, PageEnds
  <1>8. ListRows(walk', inView', flagged') = all BY <1>3, <1>4 DEF ListRows
  <1>9. WalkTypes' /\ NothingSeen'
    <2> HIDE DEF more, last, ids
    <2> QED BY <1>1, <1>3, <1>4 DEF WalkTypes, NothingSeen
  <1>10. page \in SUBSET found BY DEF Page
  <1>11. ASSUME NEW r \in all, r[2] \notin moved
         PROVE  r[2] \notin walk'.twice /\ (r[2] \in walk'.seen <=> r \notin found \/ r \in page)
    <2>1. r[2] \notin walk.twice /\ (r[2] \in walk.seen <=> r \notin found)
      <3>1. CASE walk.at = "first" BY <3>1, <1>11 DEF WalkInv, NothingSeen
      <3>2. CASE walk.at = "on" BY <3>2, <1>11 DEF WalkInv, SeenToCursor, Stayed
      <3> QED BY <1>1, <3>1, <3>2
    <2>2. r[2] \in ids <=> r \in page
      <3> HIDE DEF page, found, all
      <3> QED BY <1>5, <1>6, <1>10, <1>11
    <2> HIDE DEF page, found, all, more, last, ids
    <2> QED BY <1>3, <1>10, <2>1, <2>2
  <1>12. SeenToCursor'
    <2> SUFFICES ASSUME more
                 PROVE  /\ last \in Keys
                        /\ \A r \in all : r[2] \notin moved =>
                               /\ r[2] \notin walk'.twice
                               /\ r[2] \in walk'.seen <=> ~Beyond(walk.desc, last, r)
      <3> HIDE DEF all, more, last, ids
      <3> QED BY <1>3, <1>4, <1>8 DEF SeenToCursor, Stayed
    <2>1. last \in found /\ last \in Keys
      <3> HIDE DEF all, found, last
      <3> QED BY <1>5, <1>6, <1>7
    <2>2. ASSUME NEW r \in all PROVE (r \notin found \/ r \in page) <=> ~Beyond(walk.desc, last, r)
      <3>1. CASE r \in found
        <4> HIDE DEF all, found, last, page
        <4> QED BY <3>1, <1>7 DEF Beyond
      <3>2. CASE r \notin found
        <4>1. walk.at = "on" /\ ~Before(walk.desc, walk.cursor, r) BY <3>2, <2>2 DEF Beyond
        <4>2. Before(walk.desc, walk.cursor, last) BY <4>1, <2>1 DEF Beyond
        <4>3. walk.cursor \in Keys BY <4>1 DEF WalkInv, SeenToCursor
        <4> HIDE DEF all, found, last, page
        <4>4. ~Before(walk.desc, last, r) BY <1>1, <1>5, <2>1, <2>2, <4>1, <4>2, <4>3, KeysInOrder
        <4> QED BY <3>2, <4>4 DEF Beyond
      <3> QED BY <3>1, <3>2
    <2> HIDE DEF all, found, last, page
    <2> QED BY <1>11, <2>1, <2>2
  <1>13. WalkSeesAll'
    <2> SUFFICES ASSUME ~more, NEW r \in all, r[2] \notin moved
                 PROVE  r[2] \in walk'.seen \ walk'.twice
      <3> HIDE DEF all, more, last, ids
      <3> QED BY <1>3, <1>4, <1>8 DEF WalkSeesAll
    <2> HIDE DEF all, found, last, page, more, ids
    <2> QED BY <1>7, <1>11
  <1> QED BY <1>9, <1>12, <1>13 DEF WalkInv

\* A change of the mail: the rows it touches have moved, the others are as they were.
LEMMA MailMovesKeeps == ASSUME WalkInv, MailMoves PROVE WalkInv'
  <1>1. /\ walk' = walk /\ walk.at \in {"first", "on"} /\ inView' \in SUBSET Listed
        /\ moved' = moved \cup {r[2] : r \in
               (ListRows(walk, inView, flagged) \ ListRows(walk, inView', flagged'))
               \cup (ListRows(walk, inView', flagged') \ ListRows(walk, inView, flagged))}
    BY DEF MailMoves, WalkInv, WalkTypes
  <1>2. Stayed' \in SUBSET Stayed BY <1>1 DEF Stayed
  <1> QED BY <1>1, <1>2 DEF WalkInv, WalkTypes, NothingSeen, SeenToCursor, WalkSeesAll

\* Seek pagination (query_message_page, query_conversations): whatever moves under
\* the cursor, a walk shows every row that stayed where it was exactly once.
THEOREM WalkAlwaysSeesAll == WalkSpec => []WalkSeesAll
  <1>1. WalkInv /\ [WalkNext]_walkVars => WalkInv'
    <2> SUFFICES ASSUME WalkInv, [WalkNext]_walkVars PROVE WalkInv' OBVIOUS
    <2>1. CASE UNCHANGED walkVars
      BY <2>1 DEF walkVars, WalkInv, WalkTypes, NothingSeen, SeenToCursor, Stayed, WalkSeesAll
    <2> QED BY <2>1, StartWalkKeeps, NextPageKeeps, MailMovesKeeps DEF WalkNext
  <1>2. WalkInv => WalkSeesAll BY DEF WalkInv
  <1> QED BY <1>1, <1>2, WalkInvInit, PTL DEF WalkSpec

-----------------------------------------------------------------------------
(***************************************************************************)
(* Search.  What a node selects is fixed by what its own nodes select, so  *)
(* the nodes of every depth, and what each selects, exist: both are built  *)
(* up depth by depth.  A list scoped to a saved rule is then a group of    *)
(* the rule and of the text's node, which shows the mail of both.          *)
(***************************************************************************)
\* A set of numbers has a least one.
LEMMA LeastNumber ==
    ASSUME NEW S \in SUBSET Nat, S # {}
    PROVE  \E n \in S : \A m \in S : n <= m
  BY LeastExists

\* The nodes one level up.
Level(nodes) == Conditions \cup GroupsOf(nodes)

\* f holds the nodes of every depth up to n.
LevelsTo(f, n) == f = [d \in 0 .. n |-> IF d = 0 THEN Conditions ELSE Level(f[d - 1])]

\* The nodes of every depth exist.
LEMMA LevelsExist == ASSUME NEW n \in Nat PROVE \E f : LevelsTo(f, n)
  <1> DEFINE Bad == {k \in Nat : ~ \E f : LevelsTo(f, k)}
  <1> SUFFICES ASSUME Bad # {} PROVE FALSE OBVIOUS
  <1>1. PICK k \in Bad : \A m \in Bad : k <= m BY LeastNumber
  <1>2. CASE k = 0
    <2> DEFINE f == [d \in 0 .. 0 |-> Conditions]
    <2>1. LevelsTo(f, 0) BY DEF LevelsTo
    <2> QED BY <2>1, <1>1, <1>2
  <1>3. CASE k # 0
    <2>1. k - 1 \in Nat /\ k \in Nat BY <1>1, <1>3
    <2>2. k - 1 \notin Bad BY <1>1, <2>1
    <2>3. PICK f : LevelsTo(f, k - 1) BY <2>1, <2>2
    <2> DEFINE g == [d \in 0 .. k |-> IF d = k THEN Level(f[k - 1]) ELSE f[d]]
    <2>4. \A d \in 0 .. k - 1 : g[d] = f[d] BY <2>1
    <2>5. \A d \in 0 .. k - 1 : f[d] = IF d = 0 THEN Conditions ELSE Level(f[d - 1])
      BY <2>1, <2>3 DEF LevelsTo
    <2>6. \A d \in 0 .. k : g[d] = IF d = 0 THEN Conditions ELSE Level(g[d - 1])
      BY <2>1, <2>4, <2>5, <1>3
    <2>7. LevelsTo(g, k) BY <2>6 DEF LevelsTo
    <2> QED BY <2>7, <1>1
  <1> QED BY <1>2, <1>3

\* The nodes of each depth, from those of the depth before.
LEMMA LevelSteps ==
    /\ NodesTo[0] = Conditions
    /\ \A d \in 1 .. MaxDepth : NodesTo[d] = Conditions \cup GroupsOf(NodesTo[d - 1])
  <1>1. MaxDepth \in Nat BY QueryAssumption
  <1>2. PICK f : LevelsTo(f, MaxDepth) BY <1>1, LevelsExist
  <1>3. NodesTo = [d \in 0 .. MaxDepth |-> IF d = 0 THEN Conditions ELSE Level(NodesTo[d - 1])]
    BY <1>2 DEF NodesTo, LevelsTo, Level
  <1>4. NodesTo[0] = Conditions BY <1>1, <1>3
  <1>5. \A d \in 1 .. MaxDepth : NodesTo[d] = Level(NodesTo[d - 1]) BY <1>1, <1>3
  <1> QED BY <1>4, <1>5 DEF Level

\* A group nested less deep is a group.
LEMMA GroupsGrow ==
    ASSUME NEW S, NEW T, S \subseteq T
    PROVE  GroupsOf(S) \subseteq GroupsOf(T)
  <1>1. Seq(S) \subseteq Seq(T) BY SeqMonotonic
  <1> QED BY <1>1 DEF GroupsOf

\* What is nested less deep is among the nodes of a greater depth.
LEMMA LevelsGrow ==
    ASSUME NEW i \in 0 .. MaxDepth, NEW j \in 0 .. MaxDepth, i <= j
    PROVE  NodesTo[i] \subseteq NodesTo[j]
  <1>1. MaxDepth \in Nat BY QueryAssumption
  <1>2. \A d \in 1 .. MaxDepth : NodesTo[d - 1] \subseteq NodesTo[d]
    <2> DEFINE Bad == {d \in 1 .. MaxDepth : ~(NodesTo[d - 1] \subseteq NodesTo[d])}
    <2> SUFFICES ASSUME Bad # {} PROVE FALSE OBVIOUS
    <2>1. Bad \in SUBSET Nat BY <1>1
    <2>2. PICK d \in Bad : \A m \in Bad : d <= m
      <3> HIDE DEF Bad
      <3> QED BY <2>1, LeastNumber
    <2>3. NodesTo[d] = Conditions \cup GroupsOf(NodesTo[d - 1]) BY <2>2, LevelSteps
    <2>4. CASE d = 1
      <3>1. NodesTo[d - 1] = Conditions BY <2>4, LevelSteps
      <3> QED BY <2>2, <2>3, <3>1
    <2>5. CASE d # 1
      <3>1. d - 1 \in 1 .. MaxDepth /\ d - 1 \notin Bad /\ (d - 1) - 1 = d - 2 BY <1>1, <2>2, <2>5
      <3>2. NodesTo[d - 2] \subseteq NodesTo[d - 1] BY <3>1
      <3>3. NodesTo[d - 1] = Conditions \cup GroupsOf(NodesTo[d - 2]) BY <3>1, LevelSteps
      <3>4. GroupsOf(NodesTo[d - 2]) \subseteq GroupsOf(NodesTo[d - 1]) BY <3>2, GroupsGrow
      <3> QED BY <2>2, <2>3, <3>3, <3>4
    <2> QED BY <2>4, <2>5
  <1> DEFINE Bad == {d \in i .. MaxDepth : ~(NodesTo[i] \subseteq NodesTo[d])}
  <1>3. Bad = {}
    <2> SUFFICES ASSUME Bad # {} PROVE FALSE OBVIOUS
    <2>1. Bad \in SUBSET Nat BY <1>1
    <2>2. PICK d \in Bad : \A m \in Bad : d <= m
      <3> HIDE DEF Bad
      <3> QED BY <2>1, LeastNumber
    <2>3. d # i BY <2>2
    <2>4. d - 1 \in i .. MaxDepth /\ d - 1 \notin Bad /\ d \in 1 .. MaxDepth BY <1>1, <2>2, <2>3
    <2> QED BY <1>2, <2>2, <2>4
  <1> QED BY <1>1, <1>3

\* The nodes of a group are nested one level less.
LEMMA GroupNodes ==
    ASSUME NEW d \in 0 .. MaxDepth, NEW node \in NodesTo[d], node.is # "condition"
    PROVE  /\ d - 1 \in 0 .. MaxDepth
           /\ node \in GroupsOf(NodesTo[d - 1])
           /\ \A i \in DOMAIN node.nodes : node.nodes[i] \in NodesTo[d - 1]
  <1>1. MaxDepth \in Nat BY QueryAssumption
  <1>2. node \notin Conditions BY DEF Conditions
  <1>3. d # 0 BY <1>2, LevelSteps
  <1>4. d - 1 \in 0 .. MaxDepth /\ d \in 1 .. MaxDepth BY <1>1, <1>3
  <1>5. node \in GroupsOf(NodesTo[d - 1]) BY <1>2, <1>4, LevelSteps
  <1>6. node.nodes \in Seq(NodesTo[d - 1]) BY <1>5 DEF GroupsOf
  <1> QED BY <1>4, <1>5, <1>6

\* What one node selects, from what the others do.
SelectedBy(f, node) ==
    IF node.is = "condition" THEN {m \in MailSamples : ConditionHolds(node, m)}
    ELSE LET joined == Joined(node, [i \in DOMAIN node.nodes |-> f[node.nodes[i]]])
         IN  IF node.negated THEN MailSamples \ joined ELSE joined

SelectsTo(f, d) == f = [node \in NodesTo[d] |-> SelectedBy(f, node)]

\* What a node selects depends on what its own nodes do.
LEMMA SelectedLocal ==
    ASSUME NEW f, NEW g, NEW d \in 0 .. MaxDepth, NEW node \in NodesTo[d],
           \A e \in 0 .. MaxDepth : e = d - 1 => \A n \in NodesTo[e] : f[n] = g[n]
    PROVE  SelectedBy(f, node) = SelectedBy(g, node)
  <1>1. CASE node.is = "condition" BY <1>1 DEF SelectedBy
  <1>2. CASE node.is # "condition"
    <2>1. d - 1 \in 0 .. MaxDepth /\ \A i \in DOMAIN node.nodes : node.nodes[i] \in NodesTo[d - 1]
      BY <1>2, GroupNodes
    <2>2. \A i \in DOMAIN node.nodes : f[node.nodes[i]] = g[node.nodes[i]] BY <2>1
    <2>3. [i \in DOMAIN node.nodes |-> f[node.nodes[i]]] = [i \in DOMAIN node.nodes |-> g[node.nodes[i]]]
      BY <2>2
    <2> QED BY <1>2, <2>3 DEF SelectedBy
  <1> QED BY <1>1, <1>2

\* Selection is defined at every depth.
LEMMA SelectionExists == ASSUME NEW n \in 0 .. MaxDepth PROVE \E f : SelectsTo(f, n)
  <1>1. MaxDepth \in Nat BY QueryAssumption
  <1> DEFINE Bad == {d \in 0 .. MaxDepth : ~ \E f : SelectsTo(f, d)}
  <1> SUFFICES ASSUME Bad # {} PROVE FALSE OBVIOUS
  <1>2. Bad \in SUBSET Nat BY <1>1
  <1>3. PICK d \in Bad : \A m \in Bad : d <= m
    <2> HIDE DEF Bad
    <2> QED BY <1>2, LeastNumber
  <1>4. d \in 0 .. MaxDepth BY <1>3
  <1>5. PICK f : \A e \in 0 .. MaxDepth : e = d - 1 => SelectsTo(f, e)
    <2>1. CASE d = 0
      <3>1. \A e \in 0 .. MaxDepth : e # d - 1 BY <1>1, <2>1
      <3> QED BY <3>1
    <2>2. CASE d # 0
      <3>1. d - 1 \in 0 .. MaxDepth /\ d - 1 \notin Bad BY <1>1, <1>3, <2>2
      <3>2. PICK f : SelectsTo(f, d - 1) BY <3>1
      <3> QED BY <3>2
    <2> QED BY <2>1, <2>2
  <1> DEFINE g == [node \in NodesTo[d] |-> SelectedBy(f, node)]
  <1>6. ASSUME NEW e \in 0 .. MaxDepth, e = d - 1, NEW n1 \in NodesTo[e] PROVE f[n1] = g[n1]
    <2>1. SelectsTo(f, e) BY <1>5, <1>6
    <2>2. f[n1] = SelectedBy(f, n1) BY <2>1 DEF SelectsTo
    <2>3. n1 \in NodesTo[d]
      <3>1. e <= d BY <1>4, <1>6
      <3>2. NodesTo[e] \subseteq NodesTo[d] BY <1>4, <3>1, LevelsGrow
      <3> QED BY <3>2
    <2> QED BY <2>2, <2>3
  <1>7. \A node \in NodesTo[d] : SelectedBy(f, node) = SelectedBy(g, node)
    <2> HIDE DEF g
    <2> QED BY <1>4, <1>6, SelectedLocal
  <1>8. g = [node \in NodesTo[d] |-> SelectedBy(g, node)] BY <1>7
  <1>9. SelectsTo(g, d)
    <2> HIDE DEF g
    <2> QED BY <1>8 DEF SelectsTo
  <1> QED BY <1>3, <1>9

\* What a node selects.
LEMMA SelectedStep == \A node \in RuleNode : Selected[node] = SelectedBy(Selected, node)
  <1>1. MaxDepth \in 0 .. MaxDepth BY QueryAssumption
  <1>2. PICK f : SelectsTo(f, MaxDepth) BY <1>1, SelectionExists
  <1>3. Selected = [node \in RuleNode |-> SelectedBy(Selected, node)]
    BY <1>2 DEF Selected, SelectsTo, SelectedBy, RuleNode
  <1> QED BY <1>3

\* One node in front of another.
LEMMA TwoInOrder ==
    ASSUME NEW x, NEW y
    PROVE  <<x>> \o <<y>> = <<x, y>>
  <1> DEFINE S == {x, y}
  <1>1. <<x>> \in Seq(S) /\ <<y>> \in Seq(S) /\ <<x, y>> \in Seq(S) OBVIOUS
  <1>2. Len(<<x>>) = 1 /\ Len(<<y>>) = 1 /\ Len(<<x, y>>) = 2 OBVIOUS
  <1>3. /\ <<x>> \o <<y>> \in Seq(S)
        /\ Len(<<x>> \o <<y>>) = 2
        /\ (<<x>> \o <<y>>)[1] = x
        /\ (<<x>> \o <<y>>)[2] = y
    BY <1>1, <1>2
  <1>4. \A i \in 1 .. 2 : (<<x>> \o <<y>>)[i] = <<x, y>>[i]
    <2>1. \A i \in 1 .. 2 : i = 1 \/ i = 2 OBVIOUS
    <2>2. <<x, y>>[1] = x /\ <<x, y>>[2] = y OBVIOUS
    <2> QED BY <1>3, <2>1, <2>2
  <1> HIDE DEF S
  <1> QED BY <1>1, <1>2, <1>3, <1>4, SeqEqual

\* A list holds messages of the store only.
LEMMA SelectedAreMail == ASSUME NEW node \in RuleNode PROVE Selected[node] \subseteq MailSamples
  <1>1. Selected[node] = SelectedBy(Selected, node) BY SelectedStep
  <1> QED BY <1>1 DEF SelectedBy, Joined

\* What a group of all its nodes selects.
LEMMA AllSelect ==
    ASSUME NEW nodes \in Seq(NodesTo[MaxDepth - 1]), nodes # <<>>
    PROVE  /\ Group("all", FALSE, nodes) \in RuleNode
           /\ Selected[Group("all", FALSE, nodes)]
                = {m \in MailSamples : \A i \in DOMAIN nodes : m \in Selected[nodes[i]]}
  <1> DEFINE g == Group("all", FALSE, nodes)
             each == [i \in DOMAIN nodes |-> Selected[nodes[i]]]
  <1>1. MaxDepth \in 1 .. MaxDepth BY QueryAssumption
  <1>2. g \in RuleNode
    <2>1. g \in GroupsOf(NodesTo[MaxDepth - 1]) BY DEF Group, GroupsOf
    <2>2. NodesTo[MaxDepth] = Conditions \cup GroupsOf(NodesTo[MaxDepth - 1]) BY <1>1, LevelSteps
    <2> QED BY <2>1, <2>2 DEF RuleNode
  <1>3. g.is = "group" /\ g.operator = "all" /\ g.negated = FALSE /\ g.nodes = nodes BY DEF Group
  <1> HIDE DEF g
  <1>4. Selected[g] = SelectedBy(Selected, g) BY <1>2, SelectedStep
  <1>5. SelectedBy(Selected, g) = Joined(g, each)
    <2>1. each = [i \in DOMAIN g.nodes |-> Selected[g.nodes[i]]] BY <1>3
    <2> HIDE DEF each
    <2> QED BY <1>3, <2>1 DEF SelectedBy
  <1>6. Joined(g, each) = {m \in MailSamples : \A i \in DOMAIN each : m \in each[i]}
    <2> HIDE DEF each
    <2> QED BY <1>3 DEF Joined
  <1>7. DOMAIN each = DOMAIN nodes /\ \A i \in DOMAIN nodes : each[i] = Selected[nodes[i]] OBVIOUS
  <1> HIDE DEF each
  <1>8. Selected[g] = {m \in MailSamples : \A i \in DOMAIN nodes : m \in Selected[nodes[i]]}
    BY <1>4, <1>5, <1>6, <1>7
  <1> QED BY <1>2, <1>8 DEF g

\* The negation of a node selects the rest.
LEMMA OppositesPart ==
    ASSUME NEW a \in RuleNode, NEW b \in RuleNode, a.is = b.is, ~a.negated, b.negated,
           a.is = "condition" => a.field = b.field /\ a.operator = b.operator /\ a.value = b.value,
           a.is # "condition" => a.operator = b.operator /\ a.nodes = b.nodes
    PROVE  Selected[b] = MailSamples \ Selected[a]
  <1>1. Selected[a] = SelectedBy(Selected, a) /\ Selected[b] = SelectedBy(Selected, b)
    BY SelectedStep
  <1>2. CASE a.is = "condition"
    <2>1. /\ Selected[a] = {m \in MailSamples : ConditionHolds(a, m)}
          /\ Selected[b] = {m \in MailSamples : ConditionHolds(b, m)}
      BY <1>1, <1>2 DEF SelectedBy
    <2>2. \A m : ConditionHolds(b, m) <=> ~ConditionHolds(a, m) BY <1>2 DEF ConditionHolds
    <2> QED BY <2>1, <2>2
  <1>3. CASE a.is # "condition"
    <2> DEFINE each == [i \in DOMAIN a.nodes |-> Selected[a.nodes[i]]]
    <2>1. each = [i \in DOMAIN b.nodes |-> Selected[b.nodes[i]]] BY <1>3
    <2>2. Selected[a] = Joined(a, each) BY <1>1, <1>3 DEF SelectedBy
    <2> HIDE DEF each
    <2>3. Selected[b] = MailSamples \ Joined(b, each) BY <1>1, <1>3, <2>1 DEF SelectedBy
    <2>4. Joined(a, each) = Joined(b, each) BY <1>3 DEF Joined
    <2> QED BY <2>2, <2>3, <2>4
  <1> QED BY <1>2, <1>3

\* A condition on a known field is a node.
LEMMA ConditionType ==
    ASSUME NEW f \in AllFields, NEW op \in QueryOperators, NEW neg \in BOOLEAN, NEW v \in QueryValues
    PROVE  Condition(f, op, neg, v) \in Conditions
  BY DEF Condition, Conditions

\* The values a token is read as.
LEMMA ValueTypes ==
    ASSUME NEW w \in QueryWords
    PROVE  TextValue(w) \in QueryValues /\ BoolValue(w) \in QueryValues
  BY DEF TextValue, BoolValue, QueryValues, Shapes

\* Fields searched with one word.
FieldPairs(fields) ==
    /\ Len(fields) \in Nat
    /\ \A i \in 1 .. Len(fields) : fields[i][1] \in AllFields /\ fields[i][2] \in QueryOperators

\* The group of conditions one word makes.
LEMMA AnyNodeType ==
    ASSUME NEW fields, FieldPairs(fields), NEW w \in QueryWords, NEW neg \in BOOLEAN
    PROVE  AnyNode(fields, w, neg) \in GroupsOf(Conditions)
  <1> DEFINE nodes == [i \in 1 .. Len(fields) |-> Condition(fields[i][1], fields[i][2], FALSE, TextValue(w))]
  <1>1. \A i \in 1 .. Len(fields) :
           Condition(fields[i][1], fields[i][2], FALSE, TextValue(w)) \in Conditions
    BY ConditionType, ValueTypes DEF FieldPairs
  <1>2. nodes \in Seq(Conditions)
    <2>1. Len(fields) \in Nat BY DEF FieldPairs
    <2>2. nodes \in [1 .. Len(fields) -> Conditions] BY <1>1
    <2> HIDE DEF nodes
    <2> QED BY <2>1, <2>2, SeqDef
  <1>3. AnyNode(fields, w, neg) = Group("any", neg, nodes) BY DEF AnyNode
  <1> HIDE DEF nodes
  <1> QED BY <1>2, <1>3 DEF Group, GroupsOf

\* The fields each prefix searches.
LEMMA FieldLists ==
    FieldPairs(FromFields) /\ FieldPairs(MailboxFields) /\ FieldPairs(SourceFields) /\ FieldPairs(FreeFields)
  <1>1. FieldPairs(FromFields)
    BY DEF FieldPairs, FromFields, AllFields, TextFields, IdFields, QueryOperators
  <1>2. FieldPairs(MailboxFields)
    BY DEF FieldPairs, MailboxFields, AllFields, TextFields, IdFields, QueryOperators
  <1>3. FieldPairs(SourceFields)
    BY DEF FieldPairs, SourceFields, AllFields, TextFields, IdFields, QueryOperators
  <1>4. FieldPairs(FreeFields)
    BY DEF FieldPairs, FreeFields, AllFields, TextFields, IdFields, QueryOperators
  <1> QED BY <1>1, <1>2, <1>3, <1>4

\* The node of a token.
LEMMA ParsedType ==
    ASSUME NEW t \in Tokens
    PROVE  ParsePrefixed(t) \in NodesTo[1]
  <1>1. t.negated \in BOOLEAN /\ t.word \in QueryWords BY DEF Tokens
  <1>2. NodesTo[1] = Conditions \cup GroupsOf(Conditions)
    <2>1. 1 \in 1 .. MaxDepth /\ 1 - 1 = 0 BY QueryAssumption
    <2>2. NodesTo[1] = Conditions \cup GroupsOf(NodesTo[1 - 1]) BY <2>1, LevelSteps
    <2> QED BY <2>1, <2>2, LevelSteps
  <1>3. \A fields : FieldPairs(fields) => AnyNode(fields, t.word, t.negated) \in GroupsOf(Conditions)
    BY <1>1, AnyNodeType
  <1>4. \A f \in AllFields, op \in QueryOperators :
          /\ Condition(f, op, t.negated, TextValue(t.word)) \in Conditions
          /\ Condition(f, op, t.negated, BoolValue(t.word)) \in Conditions
    BY <1>1, ConditionType, ValueTypes
  <1>5. /\ "subject" \in AllFields /\ "keyword" \in AllFields /\ "isRead" \in AllFields
        /\ "contains" \in QueryOperators /\ "equals" \in QueryOperators
    BY DEF AllFields, TextFields, IdFields, QueryOperators
  <1>6. t.prefix \in {"from", "in", "source", "none", "subject", "tag", "is"} BY DEF Tokens
  <1>7. CASE t.prefix = "from"
    <2>1. ParsePrefixed(t) = AnyNode(FromFields, t.word, t.negated) BY <1>7 DEF ParsePrefixed
    <2> QED BY <2>1, <1>2, <1>3, FieldLists
  <1>8. CASE t.prefix = "in"
    <2>1. ParsePrefixed(t) = AnyNode(MailboxFields, t.word, t.negated) BY <1>8 DEF ParsePrefixed
    <2> QED BY <2>1, <1>2, <1>3, FieldLists
  <1>9. CASE t.prefix = "source"
    <2>1. ParsePrefixed(t) = AnyNode(SourceFields, t.word, t.negated) BY <1>9 DEF ParsePrefixed
    <2> QED BY <2>1, <1>2, <1>3, FieldLists
  <1>10. CASE t.prefix = "none"
    <2>1. ParsePrefixed(t) = AnyNode(FreeFields, t.word, t.negated) BY <1>10 DEF ParsePrefixed
    <2> QED BY <2>1, <1>2, <1>3, FieldLists
  <1>11. CASE t.prefix \in {"subject", "tag", "is"}
    <2>1. ParsePrefixed(t) \in Conditions BY <1>4, <1>5, <1>11 DEF ParsePrefixed
    <2> QED BY <2>1, <1>2
  <1> QED BY <1>6, <1>7, <1>8, <1>9, <1>10, <1>11

\* The negation of a token is the negation of its node.
LEMMA NegatedToken ==
    ASSUME NEW t \in Tokens
    PROVE  Selected[ParsePrefixed([t EXCEPT !.negated = TRUE])]
             = MailSamples \ Selected[ParsePrefixed([t EXCEPT !.negated = FALSE])]
  <1> DEFINE p == [t EXCEPT !.negated = FALSE]
             q == [t EXCEPT !.negated = TRUE]
             a == ParsePrefixed(p)
             b == ParsePrefixed(q)
  <1>1. /\ p \in Tokens /\ q \in Tokens
        /\ p.negated = FALSE /\ q.negated = TRUE
        /\ p.prefix = q.prefix /\ p.word = q.word
        /\ p.prefix \in {"from", "in", "source", "none", "subject", "tag", "is"}
    BY DEF Tokens
  <1> HIDE DEF p, q
  <1>2. a \in RuleNode /\ b \in RuleNode
    <2>1. a \in NodesTo[1] /\ b \in NodesTo[1] BY <1>1, ParsedType
    <2>2. 1 \in 0 .. MaxDepth /\ MaxDepth \in 0 .. MaxDepth /\ 1 <= MaxDepth BY QueryAssumption
    <2>3. NodesTo[1] \subseteq NodesTo[MaxDepth] BY <2>2, LevelsGrow
    <2> QED BY <2>1, <2>3 DEF RuleNode
  <1>3. /\ a.is = b.is /\ ~a.negated /\ b.negated
        /\ a.is = "condition" => a.field = b.field /\ a.operator = b.operator /\ a.value = b.value
        /\ a.is # "condition" => a.operator = b.operator /\ a.nodes = b.nodes
    <2>1. CASE p.prefix \in {"from", "in", "source", "none"}
      <3>1. \E fields : a = AnyNode(fields, p.word, FALSE) /\ b = AnyNode(fields, p.word, TRUE)
        BY <1>1, <2>1 DEF ParsePrefixed
      <3>2. PICK fields : a = AnyNode(fields, p.word, FALSE) /\ b = AnyNode(fields, p.word, TRUE)
        BY <3>1
      <3> HIDE DEF a, b
      <3>3. PICK nodes : a = Group("any", FALSE, nodes) /\ b = Group("any", TRUE, nodes)
        BY <3>2 DEF AnyNode
      <3> QED BY <3>3 DEF Group
    <2>2. CASE p.prefix \in {"subject", "tag", "is"}
      <3>1. \E f, op, v : a = Condition(f, op, FALSE, v) /\ b = Condition(f, op, TRUE, v)
        BY <1>1, <2>2 DEF ParsePrefixed
      <3> HIDE DEF a, b
      <3> QED BY <3>1 DEF Condition
    <2> QED BY <1>1, <2>1, <2>2
  <1> HIDE DEF a, b
  <1>4. Selected[b] = MailSamples \ Selected[a] BY <1>2, <1>3, OppositesPart
  <1> QED BY <1>4 DEF a, b, p, q

\* The node of a whole text.
LEMMA QueryType ==
    ASSUME NEW text \in Seq(Tokens)
    PROVE  /\ ParseQuery(text) \in NodesTo[2]
           /\ text = <<>> => Selected[ParseQuery(text)] = MailSamples
  <1> DEFINE nodes == [i \in 1 .. Len(text) |-> ParsePrefixed(text[i])]
  <1>1. 2 \in 1 .. MaxDepth /\ 2 - 1 = 1 /\ 2 <= MaxDepth /\ MaxDepth \in 0 .. MaxDepth
    BY QueryAssumption
  <1>2. nodes \in Seq(NodesTo[1])
    <2>1. Len(text) \in Nat /\ \A i \in 1 .. Len(text) : text[i] \in Tokens OBVIOUS
    <2>2. nodes \in [1 .. Len(text) -> NodesTo[1]] BY <2>1, ParsedType
    <2> HIDE DEF nodes
    <2> QED BY <2>1, <2>2, SeqDef
  <1>3. ParseQuery(text) = Group("all", FALSE, nodes) BY DEF ParseQuery
  <1> HIDE DEF nodes
  <1>4. ParseQuery(text) \in GroupsOf(NodesTo[1]) BY <1>2, <1>3 DEF Group, GroupsOf
  <1>5. ParseQuery(text) \in NodesTo[2]
    <2>1. NodesTo[2] = Conditions \cup GroupsOf(NodesTo[2 - 1]) BY <1>1, LevelSteps
    <2> QED BY <1>1, <1>4, <2>1
  <1>6. ASSUME text = <<>> PROVE Selected[ParseQuery(text)] = MailSamples
    <2> DEFINE g == ParseQuery(text)
    <2>1. nodes = <<>>
      <3>1. Len(text) = 0 BY <1>6
      <3>2. nodes = [i \in 1 .. 0 |-> ParsePrefixed(text[i])] BY <3>1 DEF nodes
      <3> QED BY <1>2, <3>2
    <2>2. g \in RuleNode
      <3>1. NodesTo[2] \subseteq NodesTo[MaxDepth] BY <1>1, LevelsGrow
      <3> QED BY <1>5, <3>1 DEF RuleNode
    <2>3. g.is = "group" /\ g.nodes = <<>> /\ g.negated = FALSE BY <1>3, <2>1 DEF Group
    <2> HIDE DEF g
    <2>4. Selected[g] = SelectedBy(Selected, g) BY <2>2, SelectedStep
    <2>5. SelectedBy(Selected, g) = MailSamples BY <2>3 DEF SelectedBy, Joined
    <2> QED BY <2>4, <2>5 DEF g
  <1> QED BY <1>5, <1>6

\* The rule of a scoped list, with its text or without one.
LEMMA ScopedNodes ==
    ASSUME NEW rule, NEW text
    PROVE  ScopedRule(rule, text)
             = Group("all", FALSE, IF text = <<>> THEN <<rule>> ELSE <<rule, ParseQuery(text)>>)
  <1> DEFINE q == ParseQuery(text)
             nodes == IF text = <<>> THEN <<>> ELSE <<q>>
  <1>1. ScopedRule(rule, text) = Group("all", FALSE, <<rule>> \o nodes)
    <2>1. MailListRule(text) = Group("all", FALSE, nodes) BY DEF MailListRule
    <2>2. ScopedRule(rule, text) = [MailListRule(text) EXCEPT !.nodes = <<rule>> \o @]
      BY DEF ScopedRule
    <2> HIDE DEF nodes
    <2>3. ScopedRule(rule, text) = [Group("all", FALSE, nodes) EXCEPT !.nodes = <<rule>> \o @]
      BY <2>1, <2>2
    <2> QED BY <2>3 DEF Group
  <1> HIDE DEF q
  <1>2. <<rule>> \o <<q>> = <<rule, q>> BY TwoInOrder
  <1>3. <<rule>> \o <<>> = <<rule>>
    <2>1. <<rule>> \in Seq({rule}) OBVIOUS
    <2> QED BY <2>1, EmptySeq, ConcatEmptySeq
  <1>4. <<rule>> \o nodes = IF text = <<>> THEN <<rule>> ELSE <<rule, q>>
    <2>1. CASE text = <<>> BY <1>3, <2>1
    <2>2. CASE text # <<>> BY <1>2, <2>2
    <2> QED BY <2>1, <2>2
  <1> QED BY <1>1, <1>4 DEF q

\* A list scoped to a rule shows what the rule and the text both select.
LEMMA ScopedIntersects ==
    ASSUME NEW rule \in GroupsOf(NodesTo[MaxDepth - 2]), NEW text \in Seq(Tokens)
    PROVE  Selected[ScopedRule(rule, text)] = Selected[rule] \cap Selected[ParseQuery(text)]
  <1> DEFINE q == ParseQuery(text)
             nodes == IF text = <<>> THEN <<rule>> ELSE <<rule, q>>
  <1>1. /\ MaxDepth - 1 \in 1 .. MaxDepth /\ (MaxDepth - 1) - 1 = MaxDepth - 2
        /\ 2 \in 0 .. MaxDepth /\ MaxDepth - 1 \in 0 .. MaxDepth /\ MaxDepth \in 0 .. MaxDepth
        /\ 2 <= MaxDepth - 1 /\ MaxDepth - 1 <= MaxDepth
    BY QueryAssumption
  <1>2. rule \in NodesTo[MaxDepth - 1]
    <2>1. NodesTo[MaxDepth - 1] = Conditions \cup GroupsOf(NodesTo[(MaxDepth - 1) - 1])
      BY <1>1, LevelSteps
    <2> QED BY <1>1, <2>1
  <1>3. q \in NodesTo[MaxDepth - 1]
    <2>1. q \in NodesTo[2] BY QueryType
    <2>2. NodesTo[2] \subseteq NodesTo[MaxDepth - 1] BY <1>1, LevelsGrow
    <2> QED BY <2>1, <2>2
  <1>4. Selected[rule] \subseteq MailSamples /\ Selected[q] \subseteq MailSamples
    <2>1. NodesTo[MaxDepth - 1] \subseteq NodesTo[MaxDepth] BY <1>1, LevelsGrow
    <2>2. rule \in RuleNode /\ q \in RuleNode BY <1>2, <1>3, <2>1 DEF RuleNode
    <2> HIDE DEF q
    <2> QED BY <2>2, SelectedAreMail
  <1>5. text = <<>> => Selected[q] = MailSamples BY QueryType
  <1>6. ScopedRule(rule, text) = Group("all", FALSE, nodes) BY ScopedNodes
  <1> HIDE DEF q
  <1>7. CASE text = <<>>
    <2>1. nodes = <<rule>> BY <1>7
    <2> DEFINE below == NodesTo[MaxDepth - 1]
    <2>2. <<rule>> \in Seq(below) /\ <<rule>> # <<>>
      <3>1. rule \in below BY <1>2
      <3> HIDE DEF below
      <3> QED BY <3>1
    <2>3. Selected[Group("all", FALSE, <<rule>>)]
            = {m \in MailSamples : \A i \in DOMAIN <<rule>> : m \in Selected[<<rule>>[i]]}
      BY <2>2, AllSelect
    <2>4. DOMAIN <<rule>> = {1} /\ <<rule>>[1] = rule OBVIOUS
    <2>5. Selected[Group("all", FALSE, <<rule>>)] = {m \in MailSamples : m \in Selected[rule]}
      BY <2>3, <2>4
    <2>6. Selected[ScopedRule(rule, text)] = {m \in MailSamples : m \in Selected[rule]}
      BY <1>6, <2>1, <2>5
    <2> QED BY <1>4, <1>5, <1>7, <2>6 DEF q
  <1>8. CASE text # <<>>
    <2>1. nodes = <<rule, q>> BY <1>8
    <2> DEFINE below == NodesTo[MaxDepth - 1]
    <2>2. <<rule, q>> \in Seq(below) /\ <<rule, q>> # <<>>
      <3>1. rule \in below /\ q \in below BY <1>2, <1>3
      <3> HIDE DEF below
      <3> QED BY <3>1
    <2>3. Selected[Group("all", FALSE, <<rule, q>>)]
            = {m \in MailSamples : \A i \in DOMAIN <<rule, q>> : m \in Selected[<<rule, q>>[i]]}
      BY <2>2, AllSelect
    <2>4. DOMAIN <<rule, q>> = {1, 2} /\ <<rule, q>>[1] = rule /\ <<rule, q>>[2] = q OBVIOUS
    <2>5. Selected[Group("all", FALSE, <<rule, q>>)]
            = {m \in MailSamples : m \in Selected[rule] /\ m \in Selected[q]}
      BY <2>3, <2>4
    <2>6. Selected[ScopedRule(rule, text)] = {m \in MailSamples : m \in Selected[rule] /\ m \in Selected[q]}
      BY <1>6, <2>1, <2>5
    <2> QED BY <1>4, <2>6 DEF q
  <1> QED BY <1>7, <1>8

\* Saved rules are nested no deeper than a submitted rule may be.
QueryInv == /\ saved \in [SmartIds -> SUBSET GroupsOf(NodesTo[MaxDepth - 2])]
            /\ typed \in Seq(Tokens)

\* The defaults are rules too.
LEMMA DefaultsAreRules == DefaultRules \subseteq GroupsOf(NodesTo[MaxDepth - 2])
  <1>1. MaxDepth - 2 \in 0 .. MaxDepth /\ 0 \in 0 .. MaxDepth /\ 0 <= MaxDepth - 2 BY QueryAssumption
  <1>2. Conditions \subseteq NodesTo[MaxDepth - 2]
    <2>1. NodesTo[0] \subseteq NodesTo[MaxDepth - 2] BY <1>1, LevelsGrow
    <2> QED BY <2>1, LevelSteps
  <1>3. GroupsOf(Conditions) \subseteq GroupsOf(NodesTo[MaxDepth - 2]) BY <1>2, GroupsGrow
  <1>4. Group("all", FALSE, <<>>) \in GroupsOf(Conditions) BY DEF Group, GroupsOf
  <1>5. ASSUME NEW role \in QueryWords
        PROVE  Group("all", FALSE, <<Condition("mailboxRole", "equals", FALSE, TextValue(role))>>)
                 \in GroupsOf(Conditions)
    <2> DEFINE c == Condition("mailboxRole", "equals", FALSE, TextValue(role))
    <2>1. "mailboxRole" \in AllFields /\ "equals" \in QueryOperators
      BY DEF AllFields, IdFields, QueryOperators
    <2>2. c \in Conditions BY <2>1, ConditionType, ValueTypes
    <2> HIDE DEF c
    <2>3. Group("all", FALSE, <<c>>) \in GroupsOf(Conditions) BY <2>2 DEF Group, GroupsOf
    <2> QED BY <2>3 DEF c
  <1> QED BY <1>3, <1>4, <1>5 DEF DefaultRules

\* Search is Boolean algebra for every rule, text and message: a list scoped to
\* a smart mailbox is the intersection of the two, and a negated token selects
\* the rest (evaluate_mail_list, parse_query, compile_mail_query_rule).
THEOREM SearchAlwaysBoolean == QuerySpec => []SearchIsBoolean
  <1>1. WalkInit /\ RuleInit => QueryInv BY DEF RuleInit, QueryInv
  <1>2. QueryInv /\ [(WalkNext /\ UNCHANGED ruleVars) \/ (RuleNext /\ UNCHANGED walkVars)]_queryVars
          => QueryInv'
    <2> SUFFICES ASSUME QueryInv,
                        [(WalkNext /\ UNCHANGED ruleVars) \/ (RuleNext /\ UNCHANGED walkVars)]_queryVars
                 PROVE  QueryInv'
      OBVIOUS
    <2>1. CASE UNCHANGED ruleVars BY <2>1 DEF ruleVars, QueryInv
    <2>2. CASE SaveSmartMailbox
      BY <2>2, QueryAssumption DEF SaveSmartMailbox, AcceptedRules, QueryInv
    <2>3. CASE DeleteSmartMailbox BY <2>3 DEF DeleteSmartMailbox, QueryInv
    <2>4. CASE ResetSmartMailboxes BY <2>4, DefaultsAreRules DEF ResetSmartMailboxes, QueryInv
    <2>5. CASE ShowList BY <2>5, QueryAssumption DEF ShowList, QueryInv
    <2> QED BY <2>1, <2>2, <2>3, <2>4, <2>5 DEF RuleNext, queryVars
  <1>3. QueryInv => SearchIsBoolean
    <2> SUFFICES ASSUME QueryInv PROVE ScopedListIsIntersection /\ NegatedSearchIsComplement
      BY DEF SearchIsBoolean
    <2>1. ScopedListIsIntersection
      BY ScopedIntersects DEF ScopedListIsIntersection, QueryInv
    <2>2. NegatedSearchIsComplement
      <3>1. \A i \in DOMAIN typed : typed[i] \in Tokens BY DEF QueryInv
      <3> QED BY <3>1, NegatedToken DEF NegatedSearchIsComplement
    <2> QED BY <2>1, <2>2
  <1> QED BY <1>1, <1>2, <1>3, PTL DEF QuerySpec

=============================================================================
