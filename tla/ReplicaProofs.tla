---------------------------- MODULE ReplicaProofs ----------------------------
(***************************************************************************)
(* The optimistic replica of one message.                                  *)
(***************************************************************************)
EXTENDS Replica, SequenceTheorems, WellFoundedInduction, TLAPS

States == MessageFoldState \cup {Absent}

-----------------------------------------------------------------------------
(***************************************************************************)
(* The fold, unfolded.                                                     *)
(***************************************************************************)

\* A nonempty set of numbers has a least one.
LEMMA LeastNumber ==
    ASSUME NEW S \in SUBSET Nat, S # {}
    PROVE  \E n \in S : \A m \in S : n <= m
  <1> DEFINE R == OpToRel(<, Nat)
  <1>1. IsWellFoundedOn(R, Nat) BY NatLessThanWellFounded, Zenon
  <1>2. \A x, y \in Nat : x < y => <<x, y>> \in R BY DEF OpToRel
  <1> HIDE DEF R
  <1>3. PICK x \in S : \A y \in S : ~(<<y, x>> \in R) BY <1>1, WFMin
  <1>4. \A y \in S : ~(y < x) BY <1>2, <1>3
  <1> QED BY <1>4

\* One step of a fold.
Stepped(prior, a, applies) == IF applies THEN ApplyAssertion(prior, a) ELSE prior

\* f holds the running states of the fold of the first n effects.
RunsTo(f, state, effects, ids, n) ==
    f = [i \in 0 .. n |-> IF i = 0 THEN state ELSE Stepped(f[i - 1], effects[i], i \in ids)]

\* The first n effects can be folded, for every n.
LEMMA RunningExists ==
    ASSUME NEW state, NEW effects, NEW ids, NEW n \in Nat
    PROVE  \E f : RunsTo(f, state, effects, ids, n)
  <1> DEFINE Bad == {k \in Nat : ~ \E f : RunsTo(f, state, effects, ids, k)}
  <1> SUFFICES ASSUME Bad # {} PROVE FALSE OBVIOUS
  <1>1. PICK k \in Bad : \A m \in Bad : k <= m BY LeastNumber
  <1>2. CASE k = 0
    <2> DEFINE f == [i \in 0 .. 0 |-> state]
    <2>1. RunsTo(f, state, effects, ids, 0) BY DEF RunsTo
    <2> QED BY <2>1, <1>1, <1>2
  <1>3. CASE k # 0
    <2>1. k - 1 \in Nat /\ k \in Nat BY <1>1, <1>3
    <2>2. k - 1 \notin Bad BY <1>1, <2>1
    <2>3. PICK f : RunsTo(f, state, effects, ids, k - 1) BY <2>1, <2>2
    <2> DEFINE g == [i \in 0 .. k |-> IF i = k THEN Stepped(f[k - 1], effects[k], k \in ids) ELSE f[i]]
    <2>4. \A i \in 0 .. k - 1 : g[i] = f[i] BY <2>1
    <2>5. \A i \in 0 .. k : g[i] = IF i = 0 THEN state ELSE Stepped(g[i - 1], effects[i], i \in ids)
      BY <2>1, <2>3, <2>4, <1>3 DEF RunsTo
    <2>6. RunsTo(g, state, effects, ids, k) BY <2>5 DEF RunsTo
    <2> QED BY <2>6, <1>1
  <1> QED BY <1>2, <1>3

\* The running states of a fold, one by one.
LEMMA RunningSteps ==
    ASSUME NEW state, NEW effects, Len(effects) \in Nat, NEW ids
    PROVE  /\ Running(state, effects, ids)[0] = state
           /\ \A i \in 1 .. Len(effects) :
                Running(state, effects, ids)[i]
                    = Stepped(Running(state, effects, ids)[i - 1], effects[i], i \in ids)
  <1> DEFINE F == Running(state, effects, ids)
  <1>1. PICK f : RunsTo(f, state, effects, ids, Len(effects)) BY RunningExists
  <1>2. f = [i \in 0 .. Len(effects) |->
               IF i = 0 THEN state
               ELSE IF i \in ids THEN ApplyAssertion(f[i - 1], effects[i]) ELSE f[i - 1]]
    BY <1>1 DEF RunsTo, Stepped
  <1>3. F = [i \in 0 .. Len(effects) |->
               IF i = 0 THEN state
               ELSE IF i \in ids THEN ApplyAssertion(F[i - 1], effects[i]) ELSE F[i - 1]]
    BY <1>2 DEF Running
  <1> HIDE DEF F
  <1>4. F[0] = state BY <1>3
  <1>5. \A i \in 1 .. Len(effects) : F[i] = Stepped(F[i - 1], effects[i], i \in ids)
    BY <1>3 DEF Stepped
  <1> QED BY <1>4, <1>5 DEF F

\* A single assertion keeps a message a message, or removes it.
LEMMA ApplyType ==
    ASSUME NEW s \in States, NEW a \in MessageAssertion
    PROVE  ApplyAssertion(s, a) \in States
  <1>1. CASE s = Absent \/ a.kind = "destroy" BY <1>1 DEF ApplyAssertion, States
  <1>2. CASE s # Absent /\ a.kind = "setKeywords"
    <2>1. s \in MessageFoldState BY <1>2 DEF States
    <2>2. a \in [kind : {"setKeywords"}, add : SUBSET Tags, remove : SUBSET Tags]
      BY <1>2 DEF MessageAssertion
    <2>3. ApplyAssertion(s, a) =
            [s EXCEPT !.keywords = Changed(@, [added |-> a.add, removed |-> a.remove])]
      BY <1>2 DEF ApplyAssertion
    <2>4. Changed(s.keywords, [added |-> a.add, removed |-> a.remove]) \in SUBSET Tags
      BY <2>1, <2>2 DEF Changed, MessageFoldState
    <2> QED BY <2>1, <2>3, <2>4 DEF MessageFoldState, States
  <1>3. CASE s # Absent /\ a.kind = "replaceMailboxes"
    <2>1. s \in MessageFoldState BY <1>3 DEF States
    <2>2. a \in [kind : {"replaceMailboxes"}, mailboxes : SUBSET Mailboxes]
      BY <1>3 DEF MessageAssertion
    <2>3. ApplyAssertion(s, a) = [s EXCEPT !.mailboxes = a.mailboxes] BY <1>3 DEF ApplyAssertion
    <2> QED BY <2>1, <2>2, <2>3 DEF MessageFoldState, States
  <1>4. CASE s # Absent /\ a.kind = "applyDiff"
    <2>1. s \in MessageFoldState BY <1>4 DEF States
    <2>2. a \in [kind : {"applyDiff"}, diff : MessageChangeDiff] BY <1>4 DEF MessageAssertion
    <2>3. ApplyAssertion(s, a) = [keywords |-> Changed(s.keywords, a.diff.keywords),
                                  mailboxes |-> Changed(s.mailboxes, a.diff.mailboxes)]
      BY <1>4 DEF ApplyAssertion
    <2>4. Changed(s.keywords, a.diff.keywords) \in SUBSET Tags
      BY <2>1, <2>2 DEF Changed, MessageFoldState, MessageChangeDiff, Deltas
    <2>5. Changed(s.mailboxes, a.diff.mailboxes) \in SUBSET Mailboxes
      BY <2>1, <2>2 DEF Changed, MessageFoldState, MessageChangeDiff, Deltas
    <2> QED BY <2>3, <2>4, <2>5 DEF MessageFoldState, States
  <1> QED BY <1>1, <1>2, <1>3, <1>4 DEF MessageAssertion

\* Every running state of a fold is a message, or none.
LEMMA RunningType ==
    ASSUME NEW s \in States, NEW e \in Seq(MessageAssertion), NEW X
    PROVE  \A i \in 0 .. Len(e) : Running(s, e, X)[i] \in States
  <1> DEFINE F == Running(s, e, X)
             Bad == {k \in 0 .. Len(e) : F[k] \notin States}
  <1>1. F[0] = s /\ \A i \in 1 .. Len(e) : F[i] = Stepped(F[i - 1], e[i], i \in X)
    BY RunningSteps
  <1> HIDE DEF F
  <1>2. Bad = {}
    <2> SUFFICES ASSUME Bad # {} PROVE FALSE OBVIOUS
    <2>1. Bad \in SUBSET Nat OBVIOUS
    <2>2. PICK k \in Bad : \A m \in Bad : k <= m
      <3> HIDE DEF Bad
      <3> QED BY <2>1, LeastNumber
    <2>3. k \in 1 .. Len(e) /\ k - 1 \in 0 .. Len(e) BY <1>1, <2>2
    <2>4. F[k - 1] \in States BY <2>2, <2>3
    <2>5. e[k] \in MessageAssertion BY <2>3
    <2>6. F[k] \in States BY <1>1, <2>3, <2>4, <2>5, ApplyType DEF Stepped
    <2> QED BY <2>2, <2>6
  <1> QED BY <1>2 DEF F

\* Two folds have the same first n effects.
Agree(e, X, f, Y, n) == \A i \in 1 .. n : e[i] = f[i] /\ (i \in X <=> i \in Y)

\* The running state after n effects depends on the first n effects only.
LEMMA RunningLocal ==
    ASSUME NEW s, NEW e, Len(e) \in Nat, NEW f, Len(f) \in Nat, NEW X, NEW Y,
           NEW n \in Nat, n <= Len(e), n <= Len(f), Agree(e, X, f, Y, n)
    PROVE  Running(s, e, X)[n] = Running(s, f, Y)[n]
  <1> DEFINE F == Running(s, e, X)
             G == Running(s, f, Y)
             Bad == {k \in 0 .. n : F[k] # G[k]}
  <1>1. F[0] = s /\ \A i \in 1 .. Len(e) : F[i] = Stepped(F[i - 1], e[i], i \in X)
    BY RunningSteps
  <1>2. G[0] = s /\ \A i \in 1 .. Len(f) : G[i] = Stepped(G[i - 1], f[i], i \in Y)
    BY RunningSteps
  <1> HIDE DEF F, G
  <1>3. Bad = {}
    <2> SUFFICES ASSUME Bad # {} PROVE FALSE OBVIOUS
    <2>1. Bad \in SUBSET Nat OBVIOUS
    <2>2. PICK k \in Bad : \A m \in Bad : k <= m
      <3> HIDE DEF Bad
      <3> QED BY <2>1, LeastNumber
    <2>3. k \in 1 .. n /\ k - 1 \in 0 .. n BY <1>1, <1>2, <2>2
    <2>4. F[k - 1] = G[k - 1] BY <2>2, <2>3
    <2>5. F[k] = Stepped(F[k - 1], e[k], k \in X) /\ G[k] = Stepped(G[k - 1], f[k], k \in Y)
      BY <1>1, <1>2, <2>3
    <2>6. e[k] = f[k] /\ (k \in X <=> k \in Y) BY <2>3 DEF Agree
    <2>7. F[k] = G[k] BY <2>4, <2>5, <2>6 DEF Stepped
    <2> QED BY <2>2, <2>7
  <1> QED BY <1>3 DEF F, G

\* A fold over the same effects of a list.
LEMMA ReplayLocal ==
    ASSUME NEW s, NEW e, Len(e) \in Nat, NEW X, NEW Y,
           \A i \in 1 .. Len(e) : i \in X <=> i \in Y
    PROVE  Replay(s, e, X) = Replay(s, e, Y)
  <1>1. Agree(e, X, e, Y, Len(e)) BY DEF Agree
  <1>2. Running(s, e, X)[Len(e)] = Running(s, e, Y)[Len(e)] BY <1>1, RunningLocal
  <1> QED BY <1>2 DEF Replay

\* The fold of a list whose last effect applies.
LEMMA ReplayLast ==
    ASSUME NEW s, NEW e, Len(e) \in Nat \ {0}, NEW X, Len(e) \notin X
    PROVE  Replay(s, e, X \cup {Len(e)}) = ApplyAssertion(Replay(s, e, X), e[Len(e)])
  <1> DEFINE n == Len(e)
             Y == X \cup {n}
  <1>1. Running(s, e, Y)[n] = ApplyAssertion(Running(s, e, Y)[n - 1], e[n])
    BY RunningSteps DEF Stepped
  <1>2. Running(s, e, X)[n] = Running(s, e, X)[n - 1] BY RunningSteps DEF Stepped
  <1>3. n \in Nat /\ n - 1 \in Nat /\ n - 1 <= n OBVIOUS
  <1>4. Agree(e, X, e, Y, n - 1)
    <2> HIDE DEF n
    <2> QED BY <1>3 DEF Agree, Y
  <1>5. Running(s, e, Y)[n - 1] = Running(s, e, X)[n - 1]
    <2> HIDE DEF Y
    <2>1. Running(s, e, X)[n - 1] = Running(s, e, Y)[n - 1]
      <3>1. Agree(e, X, e, Y, n - 1) BY <1>4
      <3> QED BY <3>1, <1>3, RunningLocal
    <2> QED BY <2>1
  <1> QED BY <1>1, <1>2, <1>5 DEF Replay

\* The effects of R change nothing where they stand among those of X.
Absorbed(s, e, X, R) ==
    \A i \in R : i \in X /\ i \in 1 .. Len(e) =>
        ApplyAssertion(Running(s, e, X)[i - 1], e[i]) = Running(s, e, X)[i - 1]

\* Effects that change nothing where they stand may go.
LEMMA AbsorbedGo ==
    ASSUME NEW s, NEW e, Len(e) \in Nat, NEW X, NEW R, Absorbed(s, e, X, R)
    PROVE  Replay(s, e, X \ R) = Replay(s, e, X)
  <1> DEFINE F == Running(s, e, X)
             G == Running(s, e, X \ R)
             Bad == {k \in 0 .. Len(e) : F[k] # G[k]}
  <1>1. F[0] = s /\ \A i \in 1 .. Len(e) : F[i] = Stepped(F[i - 1], e[i], i \in X)
    BY RunningSteps
  <1>2. G[0] = s /\ \A i \in 1 .. Len(e) : G[i] = Stepped(G[i - 1], e[i], i \in X \ R)
    BY RunningSteps
  <1>3. \A i \in R : i \in X /\ i \in 1 .. Len(e) => ApplyAssertion(F[i - 1], e[i]) = F[i - 1]
    <2> SUFFICES ASSUME NEW i \in R, i \in X, i \in 1 .. Len(e)
                 PROVE ApplyAssertion(F[i - 1], e[i]) = F[i - 1]
      OBVIOUS
    <2> HIDE DEF F
    <2>1. ApplyAssertion(Running(s, e, X)[i - 1], e[i]) = Running(s, e, X)[i - 1] BY DEF Absorbed
    <2> QED BY <2>1 DEF F
  <1> HIDE DEF F, G
  <1>4. Bad = {}
    <2> SUFFICES ASSUME Bad # {} PROVE FALSE OBVIOUS
    <2>1. Bad \in SUBSET Nat OBVIOUS
    <2>2. PICK k \in Bad : \A m \in Bad : k <= m
      <3> HIDE DEF Bad
      <3> QED BY <2>1, LeastNumber
    <2>3. k \in 1 .. Len(e) /\ k - 1 \in 0 .. Len(e) BY <1>1, <1>2, <2>2
    <2>4. F[k - 1] = G[k - 1] BY <2>2, <2>3
    <2>5. F[k] = Stepped(F[k - 1], e[k], k \in X) /\ G[k] = Stepped(G[k - 1], e[k], k \in X \ R)
      BY <1>1, <1>2, <2>3
    <2>6. F[k] = G[k] BY <1>3, <2>3, <2>4, <2>5 DEF Stepped
    <2> QED BY <2>2, <2>6
  <1>5. F[Len(e)] = G[Len(e)]
    <2>1. Len(e) \in 0 .. Len(e) OBVIOUS
    <2> QED BY <1>4, <2>1
  <1> QED BY <1>5 DEF F, G, Replay

\* Removal is terminal: a fold that leaves a message met no destroy.
LEMMA NoDestroyApplied ==
    ASSUME NEW s, NEW e, Len(e) \in Nat, NEW X, Replay(s, e, X) # Absent
    PROVE  /\ s # Absent
           /\ \A i \in X : i \in 1 .. Len(e) => e[i].kind # "destroy"
  <1> DEFINE F == Running(s, e, X)
             Bad == {k \in Nat : k <= Len(e) /\ F[Len(e) - k] = Absent}
  <1>1. F[0] = s /\ \A i \in 1 .. Len(e) : F[i] = Stepped(F[i - 1], e[i], i \in X)
    BY RunningSteps
  <1>2. F[Len(e)] # Absent BY DEF Replay
  <1> HIDE DEF F
  <1>3. \A i \in 1 .. Len(e) : F[i] # Absent =>
           F[i - 1] # Absent /\ (i \in X => e[i].kind # "destroy")
    BY <1>1 DEF Stepped, ApplyAssertion
  <1>4. Bad = {}
    <2> SUFFICES ASSUME Bad # {} PROVE FALSE OBVIOUS
    <2>1. PICK k \in Bad : \A m \in Bad : k <= m BY LeastNumber
    <2>2. k # 0 BY <1>2, <2>1
    <2>3. k - 1 \in Nat /\ k - 1 \notin Bad BY <2>1, <2>2
    <2>4. F[Len(e) - (k - 1)] # Absent BY <2>1, <2>3
    <2>5. Len(e) - (k - 1) \in 1 .. Len(e) /\ (Len(e) - (k - 1)) - 1 = Len(e) - k
      BY <2>1, <2>2
    <2>6. F[Len(e) - k] # Absent BY <1>3, <2>4, <2>5
    <2> QED BY <2>1, <2>6
  <1>5. \A i \in 0 .. Len(e) : F[i] # Absent
    <2> TAKE i \in 0 .. Len(e)
    <2>1. Len(e) - i \in Nat /\ Len(e) - i <= Len(e) /\ Len(e) - (Len(e) - i) = i OBVIOUS
    <2>2. Len(e) - i \notin Bad BY <1>4
    <2> QED BY <2>1, <2>2
  <1>6. 0 \in 0 .. Len(e) OBVIOUS
  <1>7. s # Absent BY <1>1, <1>5, <1>6
  <1>8. \A i \in X : i \in 1 .. Len(e) => e[i].kind # "destroy" BY <1>3, <1>5
  <1> QED BY <1>7, <1>8

-----------------------------------------------------------------------------
(***************************************************************************)
(* What an assertion writes: the keywords and mailboxes whose presence     *)
(* after it does not depend on the message.                                *)
(***************************************************************************)
Cells == [tags : SUBSET Tags, boxes : SUBSET Mailboxes]

Within(V, W) == V.tags \subseteq W.tags /\ V.boxes \subseteq W.boxes

\* The message with the cells of W overwritten: those of V are there after it.
Over(s, W, V) == [keywords |-> (s.keywords \ W.tags) \cup V.tags,
                  mailboxes |-> (s.mailboxes \ W.boxes) \cup V.boxes]

DeltaCells(delta) == delta.added \cup delta.removed

Written(a) ==
    [tags |-> CASE a.kind = "setKeywords" -> a.add \cup a.remove
                [] a.kind = "applyDiff" -> DeltaCells(a.diff.keywords)
                [] OTHER -> {},
     boxes |-> CASE a.kind = "replaceMailboxes" -> Mailboxes
                 [] a.kind = "applyDiff" -> DeltaCells(a.diff.mailboxes)
                 [] OTHER -> {}]

\* What the first n effects, those of X, write between them.
WrittenBy(e, X, n) ==
    [tags |-> {t \in Tags : \E j \in 1 .. n : j \in X /\ t \in Written(e[j]).tags},
     boxes |-> {m \in Mailboxes : \E j \in 1 .. n : j \in X /\ m \in Written(e[j]).boxes}]

\* No effect of X destroys.
Lasting(e, X) == \A i \in X : i \in 1 .. Len(e) => e[i].kind # "destroy"

LEMMA WrittenCells ==
    ASSUME NEW a \in MessageAssertion
    PROVE  Written(a) \in Cells
  <1>1. CASE a.kind = "setKeywords"
    <2>1. a.add \in SUBSET Tags /\ a.remove \in SUBSET Tags BY <1>1 DEF MessageAssertion
    <2>2. Written(a) = [tags |-> a.add \cup a.remove, boxes |-> {}] BY <1>1 DEF Written
    <2> QED BY <2>1, <2>2 DEF Cells
  <1>2. CASE a.kind = "applyDiff"
    <2>1. a.diff \in MessageChangeDiff BY <1>2 DEF MessageAssertion
    <2>2. Written(a) = [tags |-> DeltaCells(a.diff.keywords), boxes |-> DeltaCells(a.diff.mailboxes)]
      BY <1>2 DEF Written
    <2>3. DeltaCells(a.diff.keywords) \in SUBSET Tags /\ DeltaCells(a.diff.mailboxes) \in SUBSET Mailboxes
      BY <2>1 DEF DeltaCells, MessageChangeDiff, Deltas
    <2> QED BY <2>2, <2>3 DEF Cells
  <1>3. CASE a.kind = "replaceMailboxes"
    <2>1. Written(a) = [tags |-> {}, boxes |-> Mailboxes] BY <1>3 DEF Written
    <2> QED BY <2>1 DEF Cells
  <1>4. CASE a.kind = "destroy"
    <2>1. Written(a) = [tags |-> {}, boxes |-> {}] BY <1>4 DEF Written
    <2> QED BY <2>1 DEF Cells
  <1> QED BY <1>1, <1>2, <1>3, <1>4 DEF MessageAssertion

\* An assertion that does not destroy overwrites what it writes, whatever the
\* message was.
LEMMA ApplyWrites ==
    ASSUME NEW a \in MessageAssertion, a.kind # "destroy"
    PROVE  \E V \in Cells : /\ Within(V, Written(a))
                            /\ \A s \in MessageFoldState :
                                 ApplyAssertion(s, a) = Over(s, Written(a), V)
  <1>0. \A s \in MessageFoldState : /\ s # Absent
                                    /\ s = [keywords |-> s.keywords, mailboxes |-> s.mailboxes]
                                    /\ s.keywords \subseteq Tags /\ s.mailboxes \subseteq Mailboxes
    BY DEF MessageFoldState, Absent
  <1>1. CASE a.kind = "setKeywords"
    <2> DEFINE V == [tags |-> a.add \ a.remove, boxes |-> {}]
    <2>1. a.add \in SUBSET Tags /\ a.remove \in SUBSET Tags BY <1>1 DEF MessageAssertion
    <2>2. Written(a) = [tags |-> a.add \cup a.remove, boxes |-> {}] BY <1>1 DEF Written
    <2>3. V \in Cells /\ Within(V, Written(a)) BY <2>1, <2>2 DEF Cells, Within
    <2>4. ASSUME NEW s \in MessageFoldState PROVE ApplyAssertion(s, a) = Over(s, Written(a), V)
      <3>1. ApplyAssertion(s, a) = [keywords |-> (s.keywords \cup a.add) \ a.remove,
                                    mailboxes |-> s.mailboxes]
        <4>1. ApplyAssertion(s, a) =
                [s EXCEPT !.keywords = Changed(@, [added |-> a.add, removed |-> a.remove])]
          BY <1>0, <1>1 DEF ApplyAssertion
        <4>2. Changed(s.keywords, [added |-> a.add, removed |-> a.remove])
                = (s.keywords \cup a.add) \ a.remove
          BY DEF Changed
        <4> QED BY <4>1, <4>2 DEF MessageFoldState
      <3>2. Over(s, Written(a), V) = [keywords |-> (s.keywords \ (a.add \cup a.remove)) \cup (a.add \ a.remove),
                                      mailboxes |-> (s.mailboxes \ {}) \cup {}]
        BY <2>2 DEF Over
      <3> QED BY <3>1, <3>2
    <2> QED BY <2>3, <2>4
  <1>2. CASE a.kind = "applyDiff"
    <2> DEFINE k == a.diff.keywords
               m == a.diff.mailboxes
               V == [tags |-> k.added \ k.removed, boxes |-> m.added \ m.removed]
    <2>1. /\ k.added \in SUBSET Tags /\ k.removed \in SUBSET Tags
          /\ m.added \in SUBSET Mailboxes /\ m.removed \in SUBSET Mailboxes
      BY <1>2 DEF MessageAssertion, MessageChangeDiff, Deltas
    <2>2. Written(a) = [tags |-> k.added \cup k.removed, boxes |-> m.added \cup m.removed]
      BY <1>2 DEF Written, DeltaCells
    <2>3. V \in Cells /\ Within(V, Written(a)) BY <2>1, <2>2 DEF Cells, Within
    <2>4. ASSUME NEW s \in MessageFoldState PROVE ApplyAssertion(s, a) = Over(s, Written(a), V)
      <3>1. ApplyAssertion(s, a) = [keywords |-> (s.keywords \cup k.added) \ k.removed,
                                    mailboxes |-> (s.mailboxes \cup m.added) \ m.removed]
        BY <1>0, <1>2 DEF ApplyAssertion, Changed
      <3>2. Over(s, Written(a), V) =
              [keywords |-> (s.keywords \ (k.added \cup k.removed)) \cup (k.added \ k.removed),
               mailboxes |-> (s.mailboxes \ (m.added \cup m.removed)) \cup (m.added \ m.removed)]
        BY <2>2 DEF Over
      <3>3. (s.keywords \cup k.added) \ k.removed
              = (s.keywords \ (k.added \cup k.removed)) \cup (k.added \ k.removed)
        OBVIOUS
      <3>4. (s.mailboxes \cup m.added) \ m.removed
              = (s.mailboxes \ (m.added \cup m.removed)) \cup (m.added \ m.removed)
        OBVIOUS
      <3> QED BY <3>1, <3>2, <3>3, <3>4
    <2> QED BY <2>3, <2>4
  <1>3. CASE a.kind = "replaceMailboxes"
    <2> DEFINE V == [tags |-> {}, boxes |-> a.mailboxes]
    <2>1. a.mailboxes \in SUBSET Mailboxes BY <1>3 DEF MessageAssertion
    <2>2. Written(a) = [tags |-> {}, boxes |-> Mailboxes] BY <1>3 DEF Written
    <2>3. V \in Cells /\ Within(V, Written(a)) BY <2>1, <2>2 DEF Cells, Within
    <2>4. ASSUME NEW s \in MessageFoldState PROVE ApplyAssertion(s, a) = Over(s, Written(a), V)
      <3>1. ApplyAssertion(s, a) = [keywords |-> s.keywords, mailboxes |-> a.mailboxes]
        BY <1>0, <1>3 DEF ApplyAssertion
      <3>2. Over(s, Written(a), V) = [keywords |-> (s.keywords \ {}) \cup {},
                                      mailboxes |-> (s.mailboxes \ Mailboxes) \cup a.mailboxes]
        BY <2>2 DEF Over
      <3>3. (s.mailboxes \ Mailboxes) \cup a.mailboxes = a.mailboxes BY <1>0
      <3> QED BY <3>1, <3>2, <3>3
    <2> QED BY <2>3, <2>4
  <1> QED BY <1>1, <1>2, <1>3 DEF MessageAssertion

\* Overwriting twice is overwriting once.
LEMMA OverTwice ==
    ASSUME NEW s, NEW W \in Cells, NEW V \in Cells, NEW Q \in Cells, NEW P \in Cells,
           NEW U \in Cells, U.tags = W.tags \cup Q.tags, U.boxes = W.boxes \cup Q.boxes
    PROVE  Over(Over(s, W, V), Q, P)
             = Over(s, U, [tags |-> (V.tags \ Q.tags) \cup P.tags,
                           boxes |-> (V.boxes \ Q.boxes) \cup P.boxes])
  <1>1. (((s.keywords \ W.tags) \cup V.tags) \ Q.tags) \cup P.tags
          = (s.keywords \ U.tags) \cup ((V.tags \ Q.tags) \cup P.tags)
    OBVIOUS
  <1>2. (((s.mailboxes \ W.boxes) \cup V.boxes) \ Q.boxes) \cup P.boxes
          = (s.mailboxes \ U.boxes) \cup ((V.boxes \ Q.boxes) \cup P.boxes)
    OBVIOUS
  <1> QED BY <1>1, <1>2 DEF Over

\* Set algebra of the two lemmas below, for one facet of a message.
LEMMA FacetEcho ==
    ASSUME NEW S, NEW W, NEW V, NEW Q, NEW P, V \subseteq W, (S \ Q) \cup P = S
    PROVE  (((((S \ W) \cup V) \ Q) \cup P) \ W) \cup V = (S \ W) \cup V
  OBVIOUS

LEMMA FacetFewer ==
    ASSUME NEW S, NEW W, NEW V, NEW Q1, NEW P1, NEW Q2, NEW P2,
           V \subseteq W, P1 \subseteq Q1, P2 \subseteq Q2, Q1 \subseteq Q2,
           (((S \ W) \cup V) \ Q1) \cup P1 = (((S \ W) \cup V) \ Q2) \cup P2,
           (S \ Q2) \cup P2 = S
    PROVE  (S \ Q1) \cup P1 = S
  <1>1. ASSUME NEW x \in (S \ Q1) \cup P1 PROVE x \in S
    <2>1. CASE x \in P1
      <3>1. x \in (((S \ W) \cup V) \ Q2) \cup P2 /\ x \in Q2 BY <2>1
      <3> QED BY <3>1
    <2> QED BY <1>1, <2>1
  <1>2. ASSUME NEW x \in S, x \notin P1, x \in Q1 PROVE FALSE
    <2>1. x \in P2 BY <1>2
    <2>2. x \in (((S \ W) \cup V) \ Q1) \cup P1 BY <2>1
    <2> QED BY <2>2, <1>2
  <1> QED BY <1>1, <1>2

\* A fold that destroys nothing overwrites what its effects write.
LEMMA RunningWrites ==
    ASSUME NEW e \in Seq(MessageAssertion), NEW X, Lasting(e, X)
    PROVE  \A n \in 0 .. Len(e) :
             \E V \in Cells : /\ Within(V, WrittenBy(e, X, n))
                              /\ \A s \in MessageFoldState :
                                   Running(s, e, X)[n] = Over(s, WrittenBy(e, X, n), V)
  <1> DEFINE Works(n) == \E V \in Cells : /\ Within(V, WrittenBy(e, X, n))
                                          /\ \A s \in MessageFoldState :
                                               Running(s, e, X)[n] = Over(s, WrittenBy(e, X, n), V)
             Bad == {n \in 0 .. Len(e) : ~Works(n)}
  <1>1. \A s : /\ Running(s, e, X)[0] = s
               /\ \A i \in 1 .. Len(e) :
                    Running(s, e, X)[i] = Stepped(Running(s, e, X)[i - 1], e[i], i \in X)
    <2> TAKE s
    <2> QED BY RunningSteps
  <1>2. Works(0)
    <2> DEFINE V == [tags |-> {}, boxes |-> {}]
    <2>1. WrittenBy(e, X, 0) = V
      <3>1. \A j : j \notin 1 .. 0 OBVIOUS
      <3>2. {t \in Tags : \E j \in 1 .. 0 : j \in X /\ t \in Written(e[j]).tags} = {} BY <3>1
      <3>3. {m \in Mailboxes : \E j \in 1 .. 0 : j \in X /\ m \in Written(e[j]).boxes} = {} BY <3>1
      <3> QED BY <3>2, <3>3 DEF WrittenBy
    <2>2. \A s \in MessageFoldState : Over(s, V, V) = s
      <3> TAKE s \in MessageFoldState
      <3>1. s = [keywords |-> s.keywords, mailboxes |-> s.mailboxes] BY DEF MessageFoldState
      <3>2. Over(s, V, V) = [keywords |-> (s.keywords \ {}) \cup {}, mailboxes |-> (s.mailboxes \ {}) \cup {}]
        BY DEF Over
      <3>3. (s.keywords \ {}) \cup {} = s.keywords /\ (s.mailboxes \ {}) \cup {} = s.mailboxes OBVIOUS
      <3> QED BY <3>1, <3>2, <3>3
    <2>3. V \in Cells /\ Within(V, V) BY DEF Cells, Within
    <2> QED BY <1>1, <2>1, <2>2, <2>3
  <1>3. ASSUME NEW n \in 1 .. Len(e), Works(n - 1) PROVE Works(n)
    <2>0. n - 1 \in Nat /\ n \in Nat /\ Len(e) \in Nat OBVIOUS
    <2>1. PICK V \in Cells :
            /\ Within(V, WrittenBy(e, X, n - 1))
            /\ \A s \in MessageFoldState : Running(s, e, X)[n - 1] = Over(s, WrittenBy(e, X, n - 1), V)
      BY <1>3
    <2>2. CASE n \notin X
      <3>1. \A j \in 1 .. n : j \in X => j \in 1 .. n - 1 BY <2>0, <2>2
      <3>2. \A j \in 1 .. n - 1 : j \in 1 .. n BY <2>0
      <3>3. WrittenBy(e, X, n) = WrittenBy(e, X, n - 1) BY <3>1, <3>2 DEF WrittenBy
      <3>4. \A s : Running(s, e, X)[n] = Running(s, e, X)[n - 1] BY <1>1, <2>2 DEF Stepped
      <3> QED BY <2>1, <3>3, <3>4
    <2>3. CASE n \in X
      <3> DEFINE A == WrittenBy(e, X, n - 1)
                 B == Written(e[n])
                 U == WrittenBy(e, X, n)
      <3>1. e[n] \in MessageAssertion /\ e[n].kind # "destroy" BY <2>3 DEF Lasting
      <3>2. PICK P \in Cells : /\ Within(P, B)
                               /\ \A s \in MessageFoldState : ApplyAssertion(s, e[n]) = Over(s, B, P)
        BY <3>1, ApplyWrites
      <3>3. B \in Cells BY <3>1, WrittenCells
      <3>4. A \in Cells /\ U \in Cells BY DEF WrittenBy, Cells
      <3>5. \A j : j \in 1 .. n <=> j \in 1 .. n - 1 \/ j = n BY <2>0
      <3>6. U.tags = A.tags \cup B.tags
        <4>1. B.tags \subseteq Tags BY <3>3 DEF Cells
        <4> QED BY <4>1, <3>5, <2>3 DEF WrittenBy
      <3>7. U.boxes = A.boxes \cup B.boxes
        <4>1. B.boxes \subseteq Mailboxes BY <3>3 DEF Cells
        <4> QED BY <4>1, <3>5, <2>3 DEF WrittenBy
      <3> DEFINE O == [tags |-> (V.tags \ B.tags) \cup P.tags, boxes |-> (V.boxes \ B.boxes) \cup P.boxes]
      <3>8. O \in Cells BY DEF Cells
      <3>9. Within(O, U) BY <2>1, <3>2, <3>6, <3>7 DEF Within
      <3>10. ASSUME NEW s \in MessageFoldState PROVE Running(s, e, X)[n] = Over(s, U, O)
        <4>1. Running(s, e, X)[n - 1] = Over(s, A, V) BY <2>1
        <4>2. Over(s, A, V) \in MessageFoldState
          <5>1. s.keywords \subseteq Tags /\ s.mailboxes \subseteq Mailboxes BY DEF MessageFoldState
          <5>2. V.tags \subseteq Tags /\ V.boxes \subseteq Mailboxes BY DEF Cells
          <5>3. /\ (s.keywords \ A.tags) \cup V.tags \in SUBSET Tags
                /\ (s.mailboxes \ A.boxes) \cup V.boxes \in SUBSET Mailboxes
            BY <5>1, <5>2
          <5> QED BY <5>3 DEF Over, MessageFoldState
        <4>3. Running(s, e, X)[n] = ApplyAssertion(Over(s, A, V), e[n])
          BY <1>1, <2>3, <4>1 DEF Stepped
        <4>4. Running(s, e, X)[n] = Over(Over(s, A, V), B, P) BY <3>2, <4>2, <4>3
        <4> HIDE DEF A, B, U
        <4>5. Over(Over(s, A, V), B, P) = Over(s, U, O)
          BY <3>3, <3>4, <3>6, <3>7, OverTwice
        <4> QED BY <4>4, <4>5
      <3> HIDE DEF O, U
      <3>11. \E W \in Cells : Within(W, U) /\ \A s \in MessageFoldState : Running(s, e, X)[n] = Over(s, U, W)
        BY <3>8, <3>9, <3>10
      <3> QED BY <3>11 DEF U
    <2> QED BY <2>2, <2>3
  <1> HIDE DEF Works
  <1>4. Bad = {}
    <2> SUFFICES ASSUME Bad # {} PROVE FALSE OBVIOUS
    <2>1. Bad \in SUBSET Nat OBVIOUS
    <2>2. PICK k \in Bad : \A m \in Bad : k <= m
      <3> HIDE DEF Bad
      <3> QED BY <2>1, LeastNumber
    <2>3. k \in 1 .. Len(e) /\ k - 1 \in 0 .. Len(e) BY <1>2, <2>2
    <2>4. Works(k - 1) BY <2>2, <2>3
    <2> QED BY <1>3, <2>2, <2>3, <2>4
  <1>5. \A n \in 0 .. Len(e) : Works(n) BY <1>4
  <1> QED BY <1>5 DEF Works

\* The whole fold as an overwrite.
LEMMA ReplayWrites ==
    ASSUME NEW e \in Seq(MessageAssertion), NEW X, Lasting(e, X)
    PROVE  \E V \in Cells : /\ Within(V, WrittenBy(e, X, Len(e)))
                            /\ \A s \in MessageFoldState :
                                 Replay(s, e, X) = Over(s, WrittenBy(e, X, Len(e)), V)
  <1>1. Len(e) \in 0 .. Len(e) OBVIOUS
  <1>2. \E V \in Cells : /\ Within(V, WrittenBy(e, X, Len(e)))
                         /\ \A s \in MessageFoldState :
                              Running(s, e, X)[Len(e)] = Over(s, WrittenBy(e, X, Len(e)), V)
    BY <1>1, RunningWrites
  <1> QED BY <1>2 DEF Replay

\* Overwriting the cells of a message gives a message.
LEMMA OverType ==
    ASSUME NEW s \in MessageFoldState, NEW W, NEW V \in Cells
    PROVE  Over(s, W, V) \in MessageFoldState
  <1>1. s.keywords \subseteq Tags /\ s.mailboxes \subseteq Mailboxes BY DEF MessageFoldState
  <1>2. V.tags \subseteq Tags /\ V.boxes \subseteq Mailboxes BY DEF Cells
  <1>3. /\ (s.keywords \ W.tags) \cup V.tags \in SUBSET Tags
        /\ (s.mailboxes \ W.boxes) \cup V.boxes \in SUBSET Mailboxes
    BY <1>1, <1>2
  <1> QED BY <1>3 DEF Over, MessageFoldState

\* The last operation of a list on its own is invisible over a message that
\* already shows it: the operations before it change nothing there either.
LEMMA EchoFold ==
    ASSUME NEW s \in MessageFoldState, NEW e \in Seq(MessageAssertion), Len(e) # 0,
           NEW X, Len(e) \notin X, Lasting(e, X), e[Len(e)].kind # "destroy",
           Replay(s, e, X) = s
    PROVE  LET t == ApplyAssertion(s, e[Len(e)]) IN Replay(t, e, X \cup {Len(e)}) = t
  <1> DEFINE n == Len(e)
             t == ApplyAssertion(s, e[n])
             W == Written(e[n])
             Q == WrittenBy(e, X, n)
  <1>0. n \in Nat \ {0} /\ n \in 1 .. n /\ e[n] \in MessageAssertion OBVIOUS
  <1>1. PICK V \in Cells : /\ Within(V, W)
                           /\ \A r \in MessageFoldState : ApplyAssertion(r, e[n]) = Over(r, W, V)
    BY <1>0, ApplyWrites
  <1>2. PICK P \in Cells : /\ Within(P, Q)
                           /\ \A r \in MessageFoldState : Replay(r, e, X) = Over(r, Q, P)
    BY ReplayWrites
  <1>3. t = Over(s, W, V) /\ t \in MessageFoldState BY <1>1, OverType
  <1>4. Replay(t, e, X) = Over(t, Q, P) /\ Over(t, Q, P) \in MessageFoldState BY <1>2, <1>3, OverType
  <1>5. Replay(t, e, X \cup {n}) = ApplyAssertion(Replay(t, e, X), e[n]) BY <1>0, ReplayLast
  <1>6. Replay(t, e, X \cup {n}) = Over(Over(Over(s, W, V), Q, P), W, V) BY <1>1, <1>3, <1>4, <1>5
  <1>7. Over(s, Q, P) = s BY <1>2
  <1> HIDE DEF Q, W
  <1>8. (s.keywords \ Q.tags) \cup P.tags = s.keywords /\ (s.mailboxes \ Q.boxes) \cup P.boxes = s.mailboxes
    BY <1>7 DEF Over
  <1>9. V.tags \subseteq W.tags /\ V.boxes \subseteq W.boxes BY <1>1 DEF Within
  <1>10. (((((s.keywords \ W.tags) \cup V.tags) \ Q.tags) \cup P.tags) \ W.tags) \cup V.tags
           = (s.keywords \ W.tags) \cup V.tags
    BY <1>8, <1>9, FacetEcho
  <1>11. (((((s.mailboxes \ W.boxes) \cup V.boxes) \ Q.boxes) \cup P.boxes) \ W.boxes) \cup V.boxes
           = (s.mailboxes \ W.boxes) \cup V.boxes
    BY <1>8, <1>9, FacetEcho
  <1>12. Over(Over(Over(s, W, V), Q, P), W, V) = Over(s, W, V) BY <1>10, <1>11 DEF Over
  <1> QED BY <1>3, <1>6, <1>12

\* Operations that changed nothing over the echo of the last one change
\* nothing over the stale message without it.
LEMMA StaleFold ==
    ASSUME NEW s \in MessageFoldState, NEW e \in Seq(MessageAssertion), Len(e) # 0,
           NEW X, NEW Y, Y \subseteq X, Lasting(e, X), e[Len(e)].kind # "destroy",
           Replay(s, e, X) = s,
           Replay(ApplyAssertion(s, e[Len(e)]), e, Y) = Replay(ApplyAssertion(s, e[Len(e)]), e, X)
    PROVE  Replay(s, e, Y) = s
  <1> DEFINE n == Len(e)
             t == ApplyAssertion(s, e[n])
             W == Written(e[n])
             Q1 == WrittenBy(e, Y, n)
             Q2 == WrittenBy(e, X, n)
  <1>0. n \in Nat \ {0} /\ n \in 1 .. n /\ e[n] \in MessageAssertion OBVIOUS
  <1>1. PICK V \in Cells : /\ Within(V, W)
                           /\ \A r \in MessageFoldState : ApplyAssertion(r, e[n]) = Over(r, W, V)
    BY <1>0, ApplyWrites
  <1>2. Lasting(e, Y) BY DEF Lasting
  <1>3. PICK P1 \in Cells : /\ Within(P1, Q1)
                            /\ \A r \in MessageFoldState : Replay(r, e, Y) = Over(r, Q1, P1)
    BY <1>2, ReplayWrites
  <1>4. PICK P2 \in Cells : /\ Within(P2, Q2)
                            /\ \A r \in MessageFoldState : Replay(r, e, X) = Over(r, Q2, P2)
    BY ReplayWrites
  <1>5. Within(Q1, Q2) BY DEF Within, WrittenBy
  <1>6. t = Over(s, W, V) /\ t \in MessageFoldState BY <1>1, OverType
  <1>7. Over(t, Q1, P1) = Over(t, Q2, P2) BY <1>3, <1>4, <1>6
  <1>8. Over(s, Q2, P2) = s /\ Replay(s, e, Y) = Over(s, Q1, P1) BY <1>3, <1>4
  <1>9. s = [keywords |-> s.keywords, mailboxes |-> s.mailboxes] BY DEF MessageFoldState
  <1>10. Over(Over(s, W, V), Q1, P1) = Over(Over(s, W, V), Q2, P2) BY <1>6, <1>7
  <1> HIDE DEF Q1, Q2, W, t
  <1>11. /\ (s.keywords \ Q2.tags) \cup P2.tags = s.keywords
         /\ (s.mailboxes \ Q2.boxes) \cup P2.boxes = s.mailboxes
    BY <1>8 DEF Over
  <1>12. /\ V.tags \subseteq W.tags /\ P1.tags \subseteq Q1.tags
         /\ P2.tags \subseteq Q2.tags /\ Q1.tags \subseteq Q2.tags
         /\ V.boxes \subseteq W.boxes /\ P1.boxes \subseteq Q1.boxes
         /\ P2.boxes \subseteq Q2.boxes /\ Q1.boxes \subseteq Q2.boxes
    BY <1>1, <1>3, <1>4, <1>5 DEF Within
  <1>13. /\ (((s.keywords \ W.tags) \cup V.tags) \ Q1.tags) \cup P1.tags
              = (((s.keywords \ W.tags) \cup V.tags) \ Q2.tags) \cup P2.tags
         /\ (((s.mailboxes \ W.boxes) \cup V.boxes) \ Q1.boxes) \cup P1.boxes
              = (((s.mailboxes \ W.boxes) \cup V.boxes) \ Q2.boxes) \cup P2.boxes
    BY <1>10 DEF Over
  <1>14. (s.keywords \ Q1.tags) \cup P1.tags = s.keywords BY <1>11, <1>12, <1>13, FacetFewer
  <1>15. (s.mailboxes \ Q1.boxes) \cup P1.boxes = s.mailboxes BY <1>11, <1>12, <1>13, FacetFewer
  <1>16. Over(s, Q1, P1) = s BY <1>9, <1>14, <1>15 DEF Over
  <1> QED BY <1>8, <1>16

\* A later effect that does not apply leaves the fold as it was.
LEMMA ReplayAppend ==
    ASSUME NEW s, NEW e \in Seq(MessageAssertion), NEW a \in MessageAssertion,
           NEW X, Len(e) + 1 \notin X
    PROVE  Replay(s, Append(e, a), X) = Replay(s, e, X)
  <1> DEFINE f == Append(e, a)
             n == Len(e)
  <1>1. n \in Nat /\ Len(f) = n + 1 /\ \A i \in 1 .. n : f[i] = e[i] OBVIOUS
  <1>2. Running(s, f, X)[n + 1] = Running(s, f, X)[n]
    <2> HIDE DEF f
    <2>1. Running(s, f, X)[n + 1] = Stepped(Running(s, f, X)[(n + 1) - 1], f[n + 1], n + 1 \in X)
      BY <1>1, RunningSteps
    <2> QED BY <1>1, <2>1 DEF Stepped
  <1>3. Agree(f, X, e, X, n) BY <1>1 DEF Agree
  <1>4. n <= Len(f) /\ n <= Len(e) /\ Len(f) \in Nat /\ Len(e) \in Nat BY <1>1
  <1>5. Running(s, f, X)[n] = Running(s, e, X)[n]
    <2> HIDE DEF f
    <2> QED BY <1>1, <1>3, <1>4, RunningLocal
  <1> QED BY <1>1, <1>2, <1>5 DEF Replay

-----------------------------------------------------------------------------
(***************************************************************************)
(* What the version gate keeps.  The operations that are not rejected fold *)
(* over the start to what the user expects.  Out is the one of them the    *)
(* base may still lack; without it they fold to Before.  The base is       *)
(* Before or its echo with Out, and the other operations still in the      *)
(* outbox change nothing over Before, so retiring any of them, or serving  *)
(* either state, is not seen.                                              *)
(***************************************************************************)
Fly == onWire \cup farOps

Verdict == [id : OpIds, outcome : {"confirmed", "failed"}]

\* Rejections under way.
Unheard == {id \in OpIds : \E i \in DOMAIN verdicts :
               verdicts[i].id = id /\ verdicts[i].outcome = "failed"}

Good == DOMAIN issued \ (failedIds \cup Unheard)

Out == IF baseVersion = version THEN Fly ELSE {Len(issued)}

Before == Replay(StartState, issued, Good \ Out)

ReplicaTypes ==
    /\ base \in States /\ provider \in States
    /\ baseVersion \in Nat \ {0} /\ version \in Nat \ {0}
    /\ issued \in Seq(MessageAssertion) /\ Len(issued) <= MaxOps
    /\ pending \subseteq DOMAIN issued /\ confirmed \subseteq pending
    /\ failedIds \subseteq DOMAIN issued
    /\ acceptedAt \in [OpIds -> Nat]
    /\ verdicts \in Seq(Verdict)
    /\ trial \in Seq(MessageAssertion)

\* At most one operation is on its way, the last one, and a base that is
\* behind the provider is behind by that operation.
OneInFlight ==
    /\ onWire \cap farOps = {}
    /\ Fly \subseteq {Len(issued)} /\ Fly \subseteq Good
    /\ baseVersion # version => /\ Fly = {} /\ version = baseVersion + 1
                                /\ Len(issued) \in Good

\* Verdicts arrive in the order of their operations.
VerdictsInOrder ==
    /\ \A i, j \in DOMAIN verdicts : i < j => verdicts[i].id < verdicts[j].id
    /\ \A i \in DOMAIN verdicts :
         /\ verdicts[i].id \in DOMAIN issued
         /\ verdicts[i].id \notin onWire
         /\ verdicts[i].id \notin failedIds
         /\ \A id \in confirmed : id < verdicts[i].id
    /\ confirmed \cap onWire = {}
    /\ pending \cap failedIds = {}

Gated == \A id \in pending : /\ acceptedAt[id] \in 1 .. baseVersion
                             /\ id \in Fly => acceptedAt[id] = version

Provided == provider = Replay(StartState, issued, Good \ Fly)

Based ==
    base # Absent =>
        /\ Out \subseteq pending
        /\ \/ base = Before
           \/ base = Replay(StartState, issued, Good) /\ onWire = {}
        /\ Replay(Before, issued, (pending \cap Good) \ Out) = Before

ReplicaInv == /\ ReplicaTypes /\ OneInFlight /\ VerdictsInOrder /\ Gated /\ Provided /\ Based

LEMMA StartIsMessage == StartState \in MessageFoldState /\ StartState # Absent
  <1>1. (CHOOSE m \in Mailboxes : TRUE) \in Mailboxes BY ReplicaAssumption
  <1> QED BY <1>1 DEF StartState, MessageFoldState, Absent

\* A whole fold of a message is a message or none.
LEMMA ReplayType ==
    ASSUME NEW s \in States, NEW e \in Seq(MessageAssertion), NEW X
    PROVE  Replay(s, e, X) \in States
  <1>1. Len(e) \in 0 .. Len(e) OBVIOUS
  <1> QED BY <1>1, RunningType DEF Replay

\* Effects apart from the last, and with it.
LEMMA ReplayWithLast ==
    ASSUME NEW s, NEW e \in Seq(MessageAssertion), NEW X, Len(e) \in X, Len(e) # 0
    PROVE  Replay(s, e, X) = ApplyAssertion(Replay(s, e, X \ {Len(e)}), e[Len(e)])
  <1>1. X = (X \ {Len(e)}) \cup {Len(e)} OBVIOUS
  <1>2. Len(e) \in Nat \ {0} /\ Len(e) \notin X \ {Len(e)} OBVIOUS
  <1>3. Replay(s, e, (X \ {Len(e)}) \cup {Len(e)})
          = ApplyAssertion(Replay(s, e, X \ {Len(e)}), e[Len(e)])
    BY <1>2, ReplayLast
  <1> QED BY <1>1, <1>3

\* What is outstanding is the last operation, or nothing.
LEMMA OutIsLast ==
    ASSUME ReplicaInv
    PROVE  /\ Out \subseteq Good
           /\ Out = {} \/ Out = {Len(issued)}
           /\ Out # {} => Len(issued) # 0 /\ Len(issued) \in Good /\ Len(issued) \in DOMAIN issued
           /\ Fly \subseteq Out
  <1>1. Good \subseteq DOMAIN issued BY DEF Good
  <1>2. issued \in Seq(MessageAssertion) BY DEF ReplicaInv, ReplicaTypes
  <1>3. Out \subseteq Good /\ Out \subseteq {Len(issued)} /\ Fly \subseteq Out
    BY DEF ReplicaInv, OneInFlight, Out
  <1> QED BY <1>1, <1>2, <1>3

\* The base with the operations that are not rejected shows all of them.
LEMMA ShowsAll ==
    ASSUME ReplicaInv, base # Absent
    PROVE  Replay(base, issued, pending \cap Good) = Replay(StartState, issued, Good)
  <1> DEFINE n == Len(issued)
             H == pending \cap Good
  <1>1. issued \in Seq(MessageAssertion) BY DEF ReplicaInv, ReplicaTypes
  <1>2. /\ Out \subseteq pending
        /\ base = Before \/ base = Replay(StartState, issued, Good)
        /\ Replay(Before, issued, H \ Out) = Before
    BY DEF ReplicaInv, Based
  <1>3. CASE Out = {}
    <2>1. H \ Out = H /\ Good \ Out = Good BY <1>3
    <2>2. Before = Replay(StartState, issued, Good) BY <2>1 DEF Before
    <2> QED BY <1>2, <2>1, <2>2
  <1>4. CASE Out = {n}
    <2>1. n # 0 /\ n \in Good /\ n \in pending BY <1>2, <1>4, OutIsLast
    <2>2. Replay(StartState, issued, Good) = ApplyAssertion(Before, issued[n])
      BY <1>1, <1>4, <2>1, ReplayWithLast DEF Before
    <2>3. Replay(Before, issued, H \ {n}) = Before BY <1>2, <1>4
    <2>4. CASE base = Before
      <3>1. Replay(Before, issued, H) = ApplyAssertion(Replay(Before, issued, H \ {n}), issued[n])
        BY <1>1, <2>1, ReplayWithLast
      <3> QED BY <2>2, <2>3, <2>4, <3>1
    <2>5. CASE base = ApplyAssertion(Before, issued[n])
      <3>1. Before # Absent /\ issued[n].kind # "destroy" BY <2>5 DEF ApplyAssertion
      <3>2. Before \in States BY <1>1, StartIsMessage, ReplayType DEF Before, States
      <3>3. Before \in MessageFoldState BY <3>1, <3>2 DEF States
      <3>4. \A i \in Good \ Out : i \in 1 .. n => issued[i].kind # "destroy"
        <4>1. Len(issued) \in Nat BY <1>1
        <4>2. Replay(StartState, issued, Good \ Out) # Absent BY <3>1 DEF Before
        <4> QED BY <4>1, <4>2, NoDestroyApplied
      <3>5. Lasting(issued, H \ {n}) BY <1>4, <3>4 DEF Lasting
      <3>6. n \notin H \ {n} OBVIOUS
      <3>7. Replay(base, issued, (H \ {n}) \cup {n}) = base
        BY <1>1, <2>1, <2>3, <2>5, <3>1, <3>3, <3>5, <3>6, EchoFold
      <3>8. (H \ {n}) \cup {n} = H BY <2>1
      <3> QED BY <2>2, <2>5, <3>7, <3>8
    <2> QED BY <1>2, <2>2, <2>4, <2>5
  <1> QED BY <1>3, <1>4, OutIsLast

\* NoFlicker follows: with no rejection under way, every operation held is good.
LEMMA InvShows == ReplicaInv => NoFlicker
  <1> SUFFICES ASSUME ReplicaInv, base # Absent,
                      \A i \in DOMAIN verdicts : verdicts[i].outcome = "confirmed"
               PROVE  Project = Replay(StartState, issued, DOMAIN issued \ failedIds)
    BY DEF NoFlicker
  <1>1. Unheard = {} BY DEF Unheard
  <1>2. Good = DOMAIN issued \ failedIds BY <1>1 DEF Good
  <1>3. pending \cap Good = pending
    BY <1>2 DEF ReplicaInv, ReplicaTypes, VerdictsInOrder
  <1> QED BY <1>2, <1>3, ShowsAll DEF Project

-----------------------------------------------------------------------------
(***************************************************************************)
(* The steps.                                                              *)
(***************************************************************************)

LEMMA ReplicaInvInit == ReplicaInit => ReplicaInv
  <1> SUFFICES ASSUME ReplicaInit PROVE ReplicaInv OBVIOUS
  <1>1. issued = <<>> /\ verdicts = <<>> /\ trial = <<>> /\ Len(issued) = 0 /\ DOMAIN issued = {}
        /\ DOMAIN verdicts = {}
    BY DEF ReplicaInit
  <1>2. ReplicaTypes BY <1>1, StartIsMessage, ReplicaAssumption DEF ReplicaInit, ReplicaTypes, States
  <1>3. Fly = {} /\ Good = {} /\ Out = {} BY <1>1 DEF ReplicaInit, Fly, Good, Out
  <1>4. OneInFlight BY <1>3 DEF ReplicaInit, OneInFlight
  <1>5. VerdictsInOrder /\ Gated BY <1>1 DEF ReplicaInit, VerdictsInOrder, Gated
  <1>6. \A X : Replay(StartState, issued, X) = StartState
    <2> TAKE X
    <2>1. Running(StartState, issued, X)[0] = StartState BY <1>1, RunningSteps
    <2> QED BY <1>1, <2>1 DEF Replay
  <1>7. Provided BY <1>6 DEF ReplicaInit, Provided
  <1>8. Before = StartState BY <1>6 DEF Before
  <1>9. Based BY <1>3, <1>6, <1>8 DEF ReplicaInit, Based
  <1> QED BY <1>2, <1>4, <1>5, <1>7, <1>9 DEF ReplicaInv

\* Rejections are of operations accepted.
LEMMA UnheardIssued == ReplicaInv => Unheard \subseteq DOMAIN issued
  BY DEF ReplicaInv, VerdictsInOrder, Unheard

\* accept_at
LEMMA AcceptKeeps == ReplicaInv /\ Accept => ReplicaInv'
  <1> SUFFICES ASSUME ReplicaInv, Accept PROVE ReplicaInv' OBVIOUS
  <1> DEFINE n == Len(issued) + 1
  <1>1. PICK a \in Assertions :
          /\ n \in OpIds /\ Project # Absent /\ onWire = {} /\ farOps = {}
          /\ baseVersion = version
          /\ pending' = pending \cup {n}
          /\ acceptedAt' = [acceptedAt EXCEPT ![n] = baseVersion]
          /\ onWire' = {n} /\ issued' = Append(issued, a)
          /\ UNCHANGED <<base, baseVersion, confirmed, provider, version, farOps, verdicts,
                         failedIds, trial>>
    BY DEF Accept
  <1>2. a \in MessageAssertion BY ReplicaAssumption
  <1>3. ReplicaTypes BY DEF ReplicaInv
  <1>4. issued \in Seq(MessageAssertion) /\ Len(issued) \in Nat BY <1>3 DEF ReplicaTypes
  <1>5. /\ issued' \in Seq(MessageAssertion) /\ Len(issued') = n
        /\ DOMAIN issued = 1 .. Len(issued) /\ DOMAIN issued' = 1 .. n
        /\ DOMAIN issued' = DOMAIN issued \cup {n} /\ n \notin DOMAIN issued /\ n \in Nat \ {0}
    BY <1>1, <1>2, <1>4
  <1>6. ReplicaTypes'
    <2>1. n <= MaxOps BY <1>1, ReplicaAssumption DEF OpIds
    <2>2. pending' \subseteq DOMAIN issued' BY <1>1, <1>3, <1>5 DEF ReplicaTypes
    <2>3. acceptedAt' \in [OpIds -> Nat] BY <1>1, <1>3 DEF ReplicaTypes
    <2>4. failedIds' \subseteq DOMAIN issued' BY <1>1, <1>3, <1>5 DEF ReplicaTypes
    <2>5. confirmed' \subseteq pending' BY <1>1, <1>3 DEF ReplicaTypes
    <2> QED BY <1>1, <1>3, <1>5, <2>1, <2>2, <2>3, <2>4, <2>5 DEF ReplicaTypes
  <1>7. Unheard' = Unheard BY <1>1 DEF Unheard
  <1>8. n \notin failedIds /\ n \notin Unheard
    BY <1>3, <1>5, UnheardIssued DEF ReplicaTypes
  <1>9. Good' = Good \cup {n} /\ n \notin Good BY <1>1, <1>5, <1>7, <1>8 DEF Good
  <1>10. Fly = {} /\ Out = {} /\ Fly' = {n} /\ Out' = {n} BY <1>1 DEF Fly, Out
  <1>11. OneInFlight' BY <1>1, <1>5, <1>9, <1>10 DEF OneInFlight
  <1>12. VerdictsInOrder'
    <2>1. VerdictsInOrder BY DEF ReplicaInv
    <2>2. \A i \in DOMAIN verdicts : verdicts[i].id # n BY <2>1, <1>5 DEF VerdictsInOrder
    <2>3. n \notin confirmed BY <1>3, <1>5 DEF ReplicaTypes
    <2>4. \A i \in DOMAIN verdicts :
            /\ verdicts[i].id \in DOMAIN issued'
            /\ verdicts[i].id \notin onWire'
            /\ verdicts[i].id \notin failedIds'
            /\ \A id \in confirmed' : id < verdicts[i].id
      BY <1>1, <1>5, <2>1, <2>2 DEF VerdictsInOrder
    <2>5. confirmed' \cap onWire' = {} /\ pending' \cap failedIds' = {}
      BY <1>1, <1>8, <2>1, <2>3 DEF VerdictsInOrder
    <2>6. \A i, j \in DOMAIN verdicts' : i < j => verdicts'[i].id < verdicts'[j].id
      BY <1>1, <2>1 DEF VerdictsInOrder
    <2> QED BY <1>1, <2>4, <2>5, <2>6 DEF VerdictsInOrder
  <1>13. Gated'
    <2>1. Gated BY DEF ReplicaInv
    <2>2. \A id \in pending : id # n /\ acceptedAt'[id] = acceptedAt[id]
      BY <1>1, <1>3, <1>5 DEF ReplicaTypes
    <2>3. acceptedAt'[n] = baseVersion BY <1>1, <1>3 DEF ReplicaTypes
    <2>4. \A id \in pending : acceptedAt'[id] \in 1 .. baseVersion BY <2>1, <2>2 DEF Gated
    <2>5. baseVersion \in 1 .. baseVersion BY <1>3 DEF ReplicaTypes
    <2> QED BY <1>1, <1>10, <2>2, <2>3, <2>4, <2>5 DEF Gated
  <1>14. \A X \in SUBSET Good : Replay(StartState, issued', X) = Replay(StartState, issued, X)
    <2> TAKE X \in SUBSET Good
    <2>1. Len(issued) + 1 \notin X BY <1>9
    <2> QED BY <1>1, <1>2, <1>4, <2>1, ReplayAppend
  <1>15. Good' \ {n} = Good /\ Good \ {} = Good BY <1>9
  <1>16. Provided'
    <2>1. Good' \ Fly' = Good /\ Good \ Fly = Good BY <1>10, <1>15
    <2>2. provider = Replay(StartState, issued, Good) BY <2>1 DEF ReplicaInv, Provided
    <2>3. provider' = Replay(StartState, issued', Good' \ Fly') BY <1>1, <1>14, <2>1, <2>2
    <2> QED BY <2>3, StartIsMessage DEF Provided, StartState
  <1>17. Based'
    <2> SUFFICES ASSUME base # Absent PROVE Based' BY <1>1 DEF Based
    <2>1. Good' \ Out' = Good /\ Good \ Out = Good BY <1>10, <1>15
    <2>2. Before' = Before BY <1>14, <2>1 DEF Before, StartState
    <2>3. /\ base = Before \/ base = Replay(StartState, issued, Good)
          /\ Replay(Before, issued, (pending \cap Good) \ Out) = Before
      BY DEF ReplicaInv, Based
    <2>4. base' = Before' BY <1>1, <2>1, <2>2, <2>3 DEF Before
    <2>5. (pending' \cap Good') \ Out' = (pending \cap Good) \ Out BY <1>1, <1>9, <1>10
    <2>6. Len(issued) + 1 \notin (pending \cap Good) \ Out BY <1>9
    <2>7. Replay(Before, issued', (pending \cap Good) \ Out) = Before
      BY <1>1, <1>2, <1>4, <2>3, <2>6, ReplayAppend
    <2>8. Out' \subseteq pending' BY <1>1, <1>10
    <2>9. Replay(Before', issued', (pending' \cap Good') \ Out') = Before' BY <2>2, <2>5, <2>7
    <2> QED BY <2>4, <2>8, <2>9 DEF Based
  <1> QED BY <1>6, <1>11, <1>12, <1>13, <1>16, <1>17 DEF ReplicaInv

\* The operation on the wire is the last one, alone on its way.
LEMMA WireIsLast ==
    ASSUME ReplicaInv, NEW id \in onWire
    PROVE  /\ id = Len(issued) /\ id \in DOMAIN issued /\ id \in Good
           /\ onWire = {id} /\ farOps = {} /\ Fly = {id} /\ Out = {id}
           /\ baseVersion = version
           /\ \A i \in DOMAIN verdicts : verdicts[i].id < id
           /\ \A c \in confirmed : c < id
  <1>1. ReplicaTypes /\ OneInFlight /\ VerdictsInOrder BY DEF ReplicaInv
  <1>2. id = Len(issued) /\ id \in Good /\ onWire = {id} /\ farOps = {} /\ Fly = {id}
    BY <1>1 DEF OneInFlight, Fly
  <1>3. id \in DOMAIN issued BY <1>2 DEF Good
  <1>4. baseVersion = version BY <1>1, <1>2 DEF OneInFlight
  <1>5. Out = {id} BY <1>2, <1>4 DEF Out
  <1>6. DOMAIN issued = 1 .. id BY <1>1, <1>2 DEF ReplicaTypes
  <1>7. \A i \in DOMAIN verdicts : verdicts[i].id \in 1 .. id /\ verdicts[i].id # id
    BY <1>1, <1>2, <1>6 DEF VerdictsInOrder
  <1>8. \A c \in confirmed : c \in 1 .. id /\ c # id
    BY <1>1, <1>2, <1>6 DEF VerdictsInOrder, ReplicaTypes
  <1>9. id \in Nat BY <1>1, <1>2 DEF ReplicaTypes
  <1> QED BY <1>2, <1>3, <1>4, <1>5, <1>7, <1>8, <1>9

\* The far node's verdict on it.
LEMMA DecideKeeps ==
    ASSUME ReplicaInv, NEW id \in onWire, NEW outcome \in {"confirmed", "failed"},
           Decide(id, outcome)
    PROVE  ReplicaInv'
  <1> DEFINE v == [id |-> id, outcome |-> outcome]
             k == Len(verdicts) + 1
  <1>1. /\ onWire' = onWire \ {id}
        /\ farOps' = IF outcome = "confirmed" THEN farOps \cup {id} ELSE farOps
        /\ verdicts' = Append(verdicts, v)
        /\ UNCHANGED <<base, baseVersion, pending, confirmed, acceptedAt, provider, version,
                       issued, failedIds, trial>>
    BY DEF Decide, coreVars
  <1>2. /\ id = Len(issued) /\ id \in DOMAIN issued /\ id \in Good
        /\ onWire = {id} /\ farOps = {} /\ Fly = {id} /\ Out = {id} /\ baseVersion = version
        /\ \A i \in DOMAIN verdicts : verdicts[i].id < id
        /\ \A c \in confirmed : c < id
    BY WireIsLast
  <1>3. ReplicaTypes /\ OneInFlight /\ VerdictsInOrder /\ Gated /\ Provided /\ Based BY DEF ReplicaInv
  <1>4. id \in OpIds
    <2>1. DOMAIN issued = 1 .. Len(issued) /\ Len(issued) \in Nat BY <1>3 DEF ReplicaTypes
    <2> QED BY <1>2, <1>3, <2>1, ReplicaAssumption DEF ReplicaTypes, OpIds
  <1>5. v \in Verdict BY <1>4 DEF Verdict
  <1>6. verdicts \in Seq(Verdict) BY <1>3 DEF ReplicaTypes
  <1>7. /\ verdicts' \in Seq(Verdict) /\ k \in Nat
        /\ DOMAIN verdicts' = DOMAIN verdicts \cup {k} /\ k \notin DOMAIN verdicts
        /\ verdicts'[k] = v
        /\ \A i \in DOMAIN verdicts : verdicts'[i] = verdicts[i] /\ i \in Nat /\ i < k
    BY <1>1, <1>5, <1>6
  <1>8. v.id = id /\ v.outcome = outcome OBVIOUS
  <1> HIDE DEF v, k
  <1>9. ReplicaTypes' BY <1>1, <1>3, <1>7 DEF ReplicaTypes
  <1>10. id \notin failedIds /\ id \notin Unheard BY <1>2 DEF Good
  <1>11. Unheard' = IF outcome = "failed" THEN Unheard \cup {id} ELSE Unheard
    <2>1. \A x \in OpIds : (\E i \in DOMAIN verdicts' : verdicts'[i].id = x /\ verdicts'[i].outcome = "failed")
             <=> \/ \E i \in DOMAIN verdicts : verdicts[i].id = x /\ verdicts[i].outcome = "failed"
                 \/ x = id /\ outcome = "failed"
      BY <1>7, <1>8
    <2> QED BY <1>4, <2>1 DEF Unheard
  <1>12. VerdictsInOrder'
    <2>1. \A i, j \in DOMAIN verdicts' : i < j => verdicts'[i].id < verdicts'[j].id
      <3> SUFFICES ASSUME NEW i \in DOMAIN verdicts', NEW j \in DOMAIN verdicts', i < j
                   PROVE verdicts'[i].id < verdicts'[j].id
        OBVIOUS
      <3>1. i # k /\ i \in DOMAIN verdicts BY <1>7
      <3>2. CASE j = k BY <1>2, <1>7, <1>8, <3>1, <3>2
      <3>3. CASE j # k
        <4>1. j \in DOMAIN verdicts BY <1>7, <3>3
        <4> QED BY <1>3, <1>7, <3>1, <4>1 DEF VerdictsInOrder
      <3> QED BY <3>2, <3>3
    <2>2. ASSUME NEW i \in DOMAIN verdicts'
          PROVE  /\ verdicts'[i].id \in DOMAIN issued'
                 /\ verdicts'[i].id \notin onWire'
                 /\ verdicts'[i].id \notin failedIds'
                 /\ \A c \in confirmed' : c < verdicts'[i].id
      <3>1. CASE i = k BY <1>1, <1>2, <1>7, <1>8, <1>10, <3>1
      <3>2. CASE i # k
        <4>1. i \in DOMAIN verdicts /\ verdicts'[i] = verdicts[i] BY <1>7, <3>2
        <4> QED BY <1>1, <1>3, <4>1 DEF VerdictsInOrder
      <3> QED BY <3>1, <3>2
    <2>3. confirmed' \cap onWire' = {} /\ pending' \cap failedIds' = {}
      BY <1>1, <1>3 DEF VerdictsInOrder
    <2> QED BY <2>1, <2>2, <2>3 DEF VerdictsInOrder
  <1>13. base # Absent => base = Before BY <1>2, <1>3 DEF Based
  <1>14. CASE outcome = "confirmed"
    <2>1. Good' = Good BY <1>1, <1>11, <1>14 DEF Good
    <2>2. onWire' = {} /\ farOps' = {id} /\ Fly' = {id} /\ Out' = {id}
      BY <1>1, <1>2, <1>14 DEF Fly, Out
    <2>3. OneInFlight' BY <1>1, <1>2, <2>1, <2>2 DEF OneInFlight
    <2>4. Gated' BY <1>1, <1>2, <1>3, <2>2 DEF Gated
    <2>5. Provided' BY <1>1, <1>2, <1>3, <2>1, <2>2 DEF Provided, StartState
    <2>6. Before' = Before BY <1>1, <1>2, <2>1, <2>2 DEF Before, StartState
    <2>7. Based' BY <1>1, <1>2, <1>3, <1>13, <2>1, <2>2, <2>6 DEF Based
    <2> QED BY <1>9, <1>12, <2>3, <2>4, <2>5, <2>7 DEF ReplicaInv
  <1>15. CASE outcome = "failed"
    <2>1. Good' = Good \ {id} BY <1>1, <1>11, <1>15 DEF Good
    <2>2. onWire' = {} /\ farOps' = {} /\ Fly' = {} /\ Out' = {}
      BY <1>1, <1>2, <1>15 DEF Fly, Out
    <2>3. OneInFlight' BY <1>1, <1>2, <2>1, <2>2 DEF OneInFlight
    <2>4. Gated' BY <1>1, <1>2, <1>3, <2>2 DEF Gated
    <2>5. Good' \ Fly' = Good \ Fly /\ Good' \ Out' = Good \ Out BY <1>2, <2>1, <2>2
    <2>6. Provided' BY <1>1, <1>3, <2>5 DEF Provided, StartState
    <2>7. Before' = Before BY <1>1, <2>5 DEF Before, StartState
    <2>8. (pending' \cap Good') \ Out' = (pending \cap Good) \ Out BY <1>1, <1>2, <2>1, <2>2
    <2>9. Based' BY <1>1, <1>3, <1>13, <2>2, <2>7, <2>8 DEF Based
    <2> QED BY <1>9, <1>12, <2>3, <2>4, <2>6, <2>9 DEF ReplicaInv
  <1> QED BY <1>14, <1>15

\* The provider applies the operation.
LEMMA ProviderTakesKeeps ==
    ASSUME ReplicaInv, NEW id \in farOps, ProviderTakes(id)
    PROVE  ReplicaInv'
  <1>1. /\ provider' = ApplyAssertion(provider, issued[id])
        /\ version' = version + 1
        /\ farOps' = farOps \ {id}
        /\ UNCHANGED <<base, baseVersion, pending, confirmed, acceptedAt, onWire, verdicts,
                       issued, failedIds, trial>>
    BY DEF ProviderTakes, coreVars
  <1>2. ReplicaTypes /\ OneInFlight /\ VerdictsInOrder /\ Gated /\ Provided /\ Based BY DEF ReplicaInv
  <1>3. id = Len(issued) /\ id \in Good /\ onWire = {} /\ Fly = {id} /\ baseVersion = version
    BY <1>2 DEF OneInFlight, Fly
  <1>4. issued \in Seq(MessageAssertion) /\ id \in DOMAIN issued /\ id # 0
    BY <1>2, <1>3 DEF ReplicaTypes, Good
  <1>5. Good' = Good BY <1>1 DEF Good, Unheard
  <1>6. version \in Nat \ {0} /\ baseVersion' # version' BY <1>1, <1>2, <1>3 DEF ReplicaTypes
  <1>7. Fly' = {} /\ Out' = {id} /\ Out = {id} BY <1>1, <1>3, <1>6 DEF Fly, Out
  <1>8. ReplicaTypes'
    <2>1. issued[id] \in MessageAssertion BY <1>4
    <2>2. provider' \in States BY <1>1, <1>2, <2>1, ApplyType DEF ReplicaTypes
    <2>3. version' \in Nat \ {0} BY <1>1, <1>6
    <2> QED BY <1>1, <1>2, <2>2, <2>3 DEF ReplicaTypes
  <1>9. OneInFlight' BY <1>1, <1>3, <1>5, <1>6, <1>7 DEF OneInFlight
  <1>10. VerdictsInOrder' BY <1>1, <1>2 DEF VerdictsInOrder
  <1>11. Gated' BY <1>1, <1>2, <1>7 DEF Gated
  <1>12. Provided'
    <2>1. Replay(StartState, issued, Good)
            = ApplyAssertion(Replay(StartState, issued, Good \ {id}), issued[id])
      BY <1>3, <1>4, ReplayWithLast
    <2>2. provider = Replay(StartState, issued, Good \ {id}) BY <1>2, <1>3 DEF Provided
    <2>3. Good' \ Fly' = Good BY <1>5, <1>7
    <2> QED BY <1>1, <2>1, <2>2, <2>3 DEF Provided, StartState
  <1>13. Before' = Before BY <1>1, <1>5, <1>7 DEF Before, StartState
  <1>14. Based' BY <1>1, <1>2, <1>5, <1>7, <1>13 DEF Based, StartState
  <1> QED BY <1>8, <1>9, <1>10, <1>11, <1>12, <1>14 DEF ReplicaInv

\* A step that leaves the base, the provider and what is good alone.
LEMMA LinkStands ==
    ASSUME ReplicaInv, Good' = Good, pending' \cap Good = pending \cap Good,
           UNCHANGED <<base, baseVersion, provider, version, onWire, farOps, issued>>
    PROVE  OneInFlight' /\ Provided' /\ Based'
  <1>1. OneInFlight /\ Provided /\ Based BY DEF ReplicaInv
  <1>2. Fly' = Fly /\ Out' = Out BY DEF Fly, Out
  <1>3. OneInFlight' BY <1>1, <1>2 DEF OneInFlight
  <1>4. Provided' BY <1>1, <1>2 DEF Provided, StartState
  <1>5. Before' = Before BY <1>2 DEF Before, StartState
  <1>6. Based'
    <2>1. base # Absent => Out \subseteq pending /\ Out \subseteq Good BY <1>1, OutIsLast DEF Based
    <2>2. base # Absent => Out \subseteq pending' BY <2>1
    <2> QED BY <1>1, <1>2, <1>5, <2>2 DEF Based, StartState
  <1> QED BY <1>3, <1>4, <1>6

\* The head of the verdicts and the rest.
LEMMA FirstVerdict ==
    ASSUME ReplicaInv, verdicts # <<>>, verdicts' = Tail(verdicts)
    PROVE  /\ Head(verdicts) = verdicts[1] /\ 1 \in DOMAIN verdicts
           /\ verdicts' \in Seq(Verdict)
           /\ \A i \in DOMAIN verdicts' : i + 1 \in DOMAIN verdicts /\ verdicts'[i] = verdicts[i + 1]
           /\ \A i \in DOMAIN verdicts : i # 1 => i - 1 \in DOMAIN verdicts'
                                                  /\ verdicts[i] = verdicts'[i - 1]
           /\ \A i \in DOMAIN verdicts' : Head(verdicts).id < verdicts'[i].id
           /\ \A i, j \in DOMAIN verdicts' : i < j => verdicts'[i].id < verdicts'[j].id
  <1>1. verdicts \in Seq(Verdict) /\ VerdictsInOrder BY DEF ReplicaInv, ReplicaTypes
  <1>2. /\ Head(verdicts) = verdicts[1] /\ 1 \in DOMAIN verdicts
        /\ verdicts' \in Seq(Verdict)
        /\ DOMAIN verdicts = 1 .. Len(verdicts) /\ Len(verdicts) \in Nat \ {0}
        /\ DOMAIN verdicts' = 1 .. Len(verdicts) - 1
        /\ \A i \in 1 .. Len(verdicts) - 1 : verdicts'[i] = verdicts[i + 1]
    BY <1>1
  <1>3. \A i \in DOMAIN verdicts' : i + 1 \in DOMAIN verdicts /\ verdicts'[i] = verdicts[i + 1] /\ 1 < i + 1
    BY <1>2
  <1>4. \A i \in DOMAIN verdicts : i # 1 => i - 1 \in DOMAIN verdicts' /\ verdicts[i] = verdicts'[i - 1]
    <2> SUFFICES ASSUME NEW i \in DOMAIN verdicts, i # 1
                 PROVE i - 1 \in DOMAIN verdicts' /\ verdicts[i] = verdicts'[i - 1]
      OBVIOUS
    <2>1. i - 1 \in 1 .. Len(verdicts) - 1 /\ (i - 1) + 1 = i BY <1>2
    <2> QED BY <1>2, <2>1
  <1>5. \A i \in DOMAIN verdicts' : Head(verdicts).id < verdicts'[i].id
    BY <1>1, <1>2, <1>3 DEF VerdictsInOrder
  <1>6. \A i, j \in DOMAIN verdicts' : i < j => verdicts'[i].id < verdicts'[j].id
    <2> SUFFICES ASSUME NEW i \in DOMAIN verdicts', NEW j \in DOMAIN verdicts', i < j
                 PROVE verdicts'[i].id < verdicts'[j].id
      OBVIOUS
    <2>1. i + 1 < j + 1 BY <1>2
    <2> QED BY <1>1, <1>3, <2>1 DEF VerdictsInOrder
  <1> QED BY <1>2, <1>3, <1>4, <1>5, <1>6

\* settle
LEMMA ReplicaSettleKeeps == ReplicaInv /\ ReplicaSettle => ReplicaInv'
  <1> SUFFICES ASSUME ReplicaInv, ReplicaSettle PROVE ReplicaInv' OBVIOUS
  <1> DEFINE v == Head(verdicts)
  <1>1. /\ verdicts # <<>> /\ verdicts' = Tail(verdicts)
        /\ SettleConfirmed(v) \/ SettleFailed(v)
        /\ UNCHANGED <<base, baseVersion, provider, version, onWire, farOps, issued, trial>>
    BY DEF ReplicaSettle
  <1>2. ReplicaTypes /\ VerdictsInOrder /\ Gated BY DEF ReplicaInv
  <1>3. /\ v = verdicts[1] /\ 1 \in DOMAIN verdicts
        /\ verdicts' \in Seq(Verdict)
        /\ \A i \in DOMAIN verdicts' : i + 1 \in DOMAIN verdicts /\ verdicts'[i] = verdicts[i + 1]
        /\ \A i \in DOMAIN verdicts : i # 1 => i - 1 \in DOMAIN verdicts' /\ verdicts[i] = verdicts'[i - 1]
        /\ \A i \in DOMAIN verdicts' : v.id < verdicts'[i].id
        /\ \A i, j \in DOMAIN verdicts' : i < j => verdicts'[i].id < verdicts'[j].id
    BY <1>1, FirstVerdict
  <1>4. v \in Verdict BY <1>2, <1>3 DEF ReplicaTypes
  <1>5. v.id \in OpIds /\ v.id \in DOMAIN issued /\ v.id \notin onWire /\ v.id \notin failedIds
        /\ v.id \in Nat
    BY <1>2, <1>3, <1>4 DEF Verdict, VerdictsInOrder, OpIds
  <1> HIDE DEF v
  <1>6. Unheard' \subseteq Unheard
    <2> SUFFICES ASSUME NEW x \in Unheard' PROVE x \in Unheard OBVIOUS
    <2>1. PICK i \in DOMAIN verdicts' : verdicts'[i].id = x /\ verdicts'[i].outcome = "failed"
      BY DEF Unheard
    <2>2. i + 1 \in DOMAIN verdicts /\ verdicts[i + 1].id = x /\ verdicts[i + 1].outcome = "failed"
      BY <1>3, <2>1
    <2>3. x \in OpIds BY DEF Unheard
    <2> QED BY <2>2, <2>3 DEF Unheard
  <1>7. \A x \in Unheard : x \in Unheard' \/ (x = v.id /\ v.outcome = "failed")
    <2> TAKE x \in Unheard
    <2>1. PICK i \in DOMAIN verdicts : verdicts[i].id = x /\ verdicts[i].outcome = "failed"
      BY DEF Unheard
    <2>2. x \in OpIds BY DEF Unheard
    <2>3. CASE i = 1 BY <1>3, <2>1, <2>3
    <2>4. CASE i # 1
      <3>1. i - 1 \in DOMAIN verdicts' /\ verdicts'[i - 1].id = x /\ verdicts'[i - 1].outcome = "failed"
        BY <1>3, <2>1, <2>4
      <3> QED BY <2>2, <3>1 DEF Unheard
    <2> QED BY <2>3, <2>4
  <1>8. \A i \in DOMAIN verdicts' :
          /\ verdicts'[i].id \in DOMAIN issued'
          /\ verdicts'[i].id \notin onWire'
          /\ verdicts'[i].id \notin failedIds
          /\ verdicts'[i].id # v.id
          /\ \A c \in confirmed : c < verdicts'[i].id
    <2> TAKE i \in DOMAIN verdicts'
    <2>1. i + 1 \in DOMAIN verdicts /\ verdicts'[i] = verdicts[i + 1] /\ v.id < verdicts'[i].id BY <1>3
    <2>2. verdicts'[i].id # v.id BY <1>5, <2>1
    <2> QED BY <1>1, <1>2, <2>1, <2>2 DEF VerdictsInOrder
  <1>9. CASE SettleConfirmed(v)
    <2>1. v.outcome = "confirmed" /\ failedIds' = failedIds BY <1>9 DEF SettleConfirmed
    <2>2. pending' = pending /\ acceptedAt' = acceptedAt
          /\ (confirmed' = confirmed \/ (v.id \in pending /\ confirmed' = confirmed \cup {v.id}))
      <3>1. CASE v.id \notin pending BY <1>9, <3>1 DEF SettleConfirmed
      <3>2. CASE v.id \in pending
        <4> DEFINE M == confirmed \cup {v.id}
                   R == Retire(base, M, 0)
        <4>1. pending' = pending \ R /\ confirmed' = M \ R
              /\ acceptedAt' = [id \in OpIds |-> IF id \in R THEN 0 ELSE acceptedAt[id]]
          BY <1>9, <3>2 DEF SettleConfirmed, RetireAbsorbed, DropPending
        <4>2. R = {}
          <5>1. \A i \in pending : ~GateOpen(i, 0)
            <6> TAKE i \in pending
            <6>1. acceptedAt[i] \in 1 .. baseVersion BY <1>2 DEF Gated
            <6> QED BY <6>1, <1>2 DEF GateOpen, ReplicaTypes
          <5> QED BY <5>1 DEF Retire
        <4>3. acceptedAt' = acceptedAt BY <4>1, <4>2, <1>2 DEF ReplicaTypes
        <4> QED BY <3>2, <4>1, <4>2, <4>3
      <3> QED BY <3>1, <3>2
    <2>3. Unheard' = Unheard BY <1>6, <1>7, <2>1
    <2>4. Good' = Good BY <1>1, <2>1, <2>3 DEF Good
    <2>5. OneInFlight' /\ Provided' /\ Based' BY <1>1, <2>2, <2>4, LinkStands
    <2>6. ReplicaTypes'
      <3>1. confirmed' \subseteq pending' BY <1>2, <2>2 DEF ReplicaTypes
      <3> QED BY <1>1, <1>2, <1>3, <2>1, <2>2, <3>1 DEF ReplicaTypes
    <2>7. VerdictsInOrder'
      <3>1. \A i \in DOMAIN verdicts' : \A c \in confirmed' : c < verdicts'[i].id
        BY <1>3, <1>8, <2>2
      <3>2. confirmed' \cap onWire' = {} BY <1>1, <1>2, <1>5, <2>2 DEF VerdictsInOrder
      <3>3. pending' \cap failedIds' = {} BY <1>2, <2>1, <2>2 DEF VerdictsInOrder
      <3> QED BY <1>3, <1>8, <2>1, <3>1, <3>2, <3>3 DEF VerdictsInOrder
    <2>8. Gated' BY <1>1, <1>2, <2>2 DEF Gated, Fly
    <2> QED BY <2>5, <2>6, <2>7, <2>8 DEF ReplicaInv
  <1>10. CASE SettleFailed(v)
    <2>1. /\ v.outcome = "failed" /\ failedIds' = failedIds \cup {v.id}
          /\ pending' = pending \ {v.id} /\ confirmed' = confirmed \ {v.id}
          /\ acceptedAt' = [id \in OpIds |-> IF id \in {v.id} THEN 0 ELSE acceptedAt[id]]
      BY <1>10 DEF SettleFailed, DropPending
    <2>2. v.id \in Unheard BY <1>3, <1>5, <2>1 DEF Unheard
    <2>3. failedIds' \cup Unheard' = failedIds \cup Unheard BY <1>6, <1>7, <2>1, <2>2
    <2>4. Good' = Good /\ v.id \notin Good BY <1>1, <2>2, <2>3 DEF Good
    <2>5. OneInFlight' /\ Provided' /\ Based'
      <3>1. pending' \cap Good = pending \cap Good BY <2>1, <2>4
      <3> QED BY <1>1, <2>4, <3>1, LinkStands
    <2>6. ReplicaTypes'
      <3>1. pending' \subseteq DOMAIN issued' /\ confirmed' \subseteq pending' /\ failedIds' \subseteq DOMAIN issued'
        BY <1>1, <1>2, <1>5, <2>1 DEF ReplicaTypes
      <3>2. acceptedAt' \in [OpIds -> Nat] BY <1>2, <2>1 DEF ReplicaTypes
      <3> QED BY <1>1, <1>2, <1>3, <3>1, <3>2 DEF ReplicaTypes
    <2>7. VerdictsInOrder'
      <3>1. \A i \in DOMAIN verdicts' : /\ verdicts'[i].id \notin failedIds'
                                        /\ \A c \in confirmed' : c < verdicts'[i].id
        BY <1>8, <2>1
      <3>2. confirmed' \cap onWire' = {} /\ pending' \cap failedIds' = {}
        BY <1>1, <1>2, <2>1 DEF VerdictsInOrder
      <3> QED BY <1>3, <1>8, <3>1, <3>2 DEF VerdictsInOrder
    <2>8. Gated'
      <3> SUFFICES ASSUME NEW id \in pending'
                   PROVE acceptedAt'[id] \in 1 .. baseVersion /\ (id \in Fly => acceptedAt'[id] = version)
        BY <1>1 DEF Gated, Fly
      <3>1. id \in pending /\ id # v.id BY <2>1
      <3>2. id \in OpIds
        <4>1. DOMAIN issued = 1 .. Len(issued) /\ Len(issued) \in Nat /\ Len(issued) <= MaxOps
          BY <1>2 DEF ReplicaTypes
        <4>2. id \in 1 .. Len(issued) BY <1>2, <3>1, <4>1 DEF ReplicaTypes
        <4> QED BY <4>1, <4>2, ReplicaAssumption DEF OpIds
      <3>3. acceptedAt'[id] = acceptedAt[id] BY <2>1, <3>1, <3>2
      <3> QED BY <1>2, <3>1, <3>3 DEF Gated
    <2> QED BY <2>5, <2>6, <2>7, <2>8 DEF ReplicaInv
  <1> QED BY <1>1, <1>9, <1>10

\* A fold of no effects.
LEMMA ReplayNone ==
    ASSUME NEW s \in States, NEW e \in Seq(MessageAssertion)
    PROVE  Replay(s, e, {}) = s
  <1> DEFINE F == Running(s, e, {})
             Bad == {k \in 0 .. Len(e) : F[k] # s}
  <1>1. F[0] = s /\ \A i \in 1 .. Len(e) : F[i] = F[i - 1]
    <2>1. F[0] = s /\ \A i \in 1 .. Len(e) : F[i] = Stepped(F[i - 1], e[i], i \in {})
      BY RunningSteps
    <2> QED BY <2>1 DEF Stepped
  <1> HIDE DEF F
  <1>2. Bad = {}
    <2> SUFFICES ASSUME Bad # {} PROVE FALSE OBVIOUS
    <2>1. Bad \in SUBSET Nat OBVIOUS
    <2>2. PICK k \in Bad : \A m \in Bad : k <= m
      <3> HIDE DEF Bad
      <3> QED BY <2>1, LeastNumber
    <2>3. k \in 1 .. Len(e) /\ k - 1 \in 0 .. Len(e) BY <1>1, <2>2
    <2>4. F[k - 1] = s BY <2>2, <2>3
    <2> QED BY <1>1, <2>2, <2>3, <2>4
  <1>3. F[Len(e)] = s BY <1>2
  <1> QED BY <1>3 DEF Replay, F

\* What the gate lets a serve retire: operations confirmed, good and taken.
LEMMA RetiredAreSettled ==
    ASSUME ReplicaInv, NEW b
    PROVE  Retire(b, confirmed, version) \subseteq ((pending \cap Good) \cap confirmed) \ Fly
  <1> SUFFICES ASSUME NEW i \in Retire(b, confirmed, version)
               PROVE  i \in Good /\ i \notin Fly /\ i \in pending /\ i \in confirmed
    OBVIOUS
  <1>1. ReplicaTypes /\ VerdictsInOrder /\ Gated BY DEF ReplicaInv
  <1>2. i \in pending /\ i \in confirmed /\ GateOpen(i, version) BY DEF Retire
  <1>3. i \notin Fly
    <2>1. acceptedAt[i] \in 1 .. baseVersion /\ (i \in Fly => acceptedAt[i] = version)
      BY <1>1, <1>2 DEF Gated
    <2>2. ~(version > version) /\ version # 0 BY <1>1 DEF ReplicaTypes
    <2> QED BY <1>2, <2>1, <2>2 DEF GateOpen
  <1>4. i \notin Unheard
    <2>1. i \in Nat BY <1>1, <1>2 DEF ReplicaTypes
    <2>2. \A j \in DOMAIN verdicts : i < verdicts[j].id BY <1>1, <1>2 DEF VerdictsInOrder
    <2> QED BY <2>1, <2>2 DEF Unheard
  <1>5. i \in DOMAIN issued /\ i \notin failedIds
    BY <1>1, <1>2 DEF ReplicaTypes, VerdictsInOrder
  <1> QED BY <1>2, <1>3, <1>4, <1>5 DEF Good

\* The operations still held and already taken change nothing over what the
\* provider has, whichever base is held.
LEMMA TakenAreAbsorbed ==
    ASSUME ReplicaInv, base # Absent, provider # Absent
    PROVE  Replay(provider, issued, (pending \cap Good) \ Fly) = provider
  <1> DEFINE n == Len(issued)
             H == pending \cap Good
  <1>1. ReplicaTypes /\ OneInFlight /\ Provided /\ Based BY DEF ReplicaInv
  <1>2. issued \in Seq(MessageAssertion) BY <1>1 DEF ReplicaTypes
  <1>3. Replay(Before, issued, H \ Out) = Before /\ Out \subseteq pending BY <1>1 DEF Based
  <1>4. CASE baseVersion = version
    <2>1. Out = Fly BY <1>4 DEF Out
    <2>2. Before = provider BY <1>1, <2>1 DEF Before, Provided
    <2> QED BY <1>3, <2>1, <2>2
  <1>5. CASE baseVersion # version
    <2>1. Fly = {} /\ Out = {n} /\ n \in Good BY <1>1, <1>5 DEF OneInFlight, Out
    <2>2. n # 0 /\ n \in H BY <1>3, <2>1, OutIsLast
    <2>3. Good \ Fly = Good BY <2>1
    <2>4. provider = Replay(StartState, issued, Good) BY <1>1, <2>3 DEF Provided
    <2>5. provider = ApplyAssertion(Before, issued[n])
      BY <1>2, <2>1, <2>2, <2>4, ReplayWithLast DEF Before
    <2>6. Before # Absent /\ issued[n].kind # "destroy" BY <2>5 DEF ApplyAssertion
    <2>7. Before \in States BY <1>2, StartIsMessage, ReplayType DEF Before, States
    <2>8. Before \in MessageFoldState BY <2>6, <2>7 DEF States
    <2>9. \A i \in Good \ Out : i \in 1 .. n => issued[i].kind # "destroy"
      <3>1. Len(issued) \in Nat BY <1>2
      <3>2. Replay(StartState, issued, Good \ Out) # Absent BY <2>6 DEF Before
      <3> QED BY <3>1, <3>2, NoDestroyApplied
    <2>10. Lasting(issued, H \ {n}) BY <2>1, <2>9 DEF Lasting
    <2>11. n \notin H \ {n} OBVIOUS
    <2>12. Replay(Before, issued, H \ {n}) = Before BY <1>3, <2>1
    <2>13. Replay(provider, issued, (H \ {n}) \cup {n}) = provider
      BY <1>2, <2>2, <2>5, <2>6, <2>8, <2>10, <2>11, <2>12, EchoFold
    <2>14. (H \ {n}) \cup {n} = H \ Fly BY <2>1, <2>2
    <2> QED BY <2>13, <2>14
  <1> QED BY <1>4, <1>5

\* set_base and retire_absorbed_at
LEMMA ServeKeeps == ReplicaInv /\ Serve => ReplicaInv'
  <1> SUFFICES ASSUME ReplicaInv, Serve PROVE ReplicaInv' OBVIOUS
  <1> DEFINE n == Len(issued)
             Q == (pending \cap Good) \ Fly
  <1>1. PICK b \in {provider, Replay(provider, issued, farOps)} \ {Absent} :
          /\ base # Absent
          /\ base' = b /\ baseVersion' = version
          /\ RetireAbsorbed(b, confirmed, version)
          /\ UNCHANGED <<linkVars, trial>>
    BY DEF Serve
  <1> DEFINE R == Retire(b, confirmed, version)
  <1>2. /\ pending' = pending \ R /\ confirmed' = confirmed \ R
        /\ acceptedAt' = [id \in OpIds |-> IF id \in R THEN 0 ELSE acceptedAt[id]]
        /\ UNCHANGED <<provider, version, onWire, farOps, verdicts, issued, failedIds, trial>>
    BY <1>1 DEF RetireAbsorbed, DropPending, linkVars
  <1>3. ReplicaTypes /\ OneInFlight /\ VerdictsInOrder /\ Gated /\ Provided /\ Based BY DEF ReplicaInv
  <1>4. issued \in Seq(MessageAssertion) /\ n \in Nat /\ DOMAIN issued = 1 .. n
    BY <1>3 DEF ReplicaTypes
  <1>5. R \subseteq ((pending \cap Good) \cap confirmed) \ Fly BY RetiredAreSettled
  <1>6. Good' = Good /\ Fly' = Fly /\ Out' = Fly BY <1>1, <1>2 DEF Good, Unheard, Fly, Out
  <1>7. Before' = provider
    BY <1>2, <1>3, <1>6 DEF Before, Provided, StartState
  <1>8. farOps = {} \/ (farOps = {n} /\ Fly = {n} /\ onWire = {} /\ n \in Good /\ n # 0)
    <2>1. Good \subseteq DOMAIN issued BY DEF Good
    <2> QED BY <1>3, <1>4, <2>1 DEF OneInFlight, Fly
  <1>9. \/ b = provider
        \/ /\ Fly = {n} /\ onWire = {} /\ n \in Good /\ n # 0
           /\ b = ApplyAssertion(provider, issued[n])
    <2>1. CASE farOps = {}
      <3>1. Replay(provider, issued, farOps) = provider
        BY <1>3, <1>4, <2>1, ReplayNone DEF ReplicaTypes
      <3> QED BY <1>1, <3>1
    <2>2. CASE farOps # {}
      <3>1. farOps = {n} /\ Fly = {n} /\ onWire = {} /\ n \in Good /\ n # 0 BY <1>8, <2>2
      <3>2. Replay(provider, issued, farOps)
              = ApplyAssertion(Replay(provider, issued, farOps \ {n}), issued[n])
        BY <1>4, <3>1, ReplayWithLast
      <3>3. farOps \ {n} = {} BY <3>1
      <3>4. Replay(provider, issued, {}) = provider BY <1>3, <1>4, ReplayNone DEF ReplicaTypes
      <3> QED BY <1>1, <3>1, <3>2, <3>3, <3>4
    <2> QED BY <2>1, <2>2
  <1>10. provider # Absent BY <1>1, <1>9 DEF ApplyAssertion
  <1>11. provider \in MessageFoldState BY <1>3, <1>10 DEF ReplicaTypes, States
  <1>12. Replay(provider, issued, Q) = provider BY <1>1, <1>10, TakenAreAbsorbed
  <1>13. \A i \in Good \ Fly : issued[i].kind # "destroy"
    <2>1. Len(issued) \in Nat BY <1>4
    <2>2. Replay(StartState, issued, Good \ Fly) # Absent BY <1>3, <1>10 DEF Provided
    <2>3. \A i \in Good \ Fly : i \in 1 .. Len(issued) => issued[i].kind # "destroy"
      BY <2>1, <2>2, NoDestroyApplied
    <2> QED BY <1>4, <2>3 DEF Good
  <1>14. Lasting(issued, Q) BY <1>13 DEF Lasting
  <1>15. ASSUME NEW i \in R
         PROVE  ApplyAssertion(Running(b, issued, Q)[i - 1], issued[i]) = Running(b, issued, Q)[i - 1]
    <2> DEFINE L == {j \in pending : issued[j].kind # "destroy"}
    <2>1. ApplyAssertion(Running(b, issued, L)[i - 1], issued[i]) = Running(b, issued, L)[i - 1]
      BY <1>1, <1>15 DEF Retire
    <2>2. i \in 1 .. n /\ i - 1 \in Nat /\ i - 1 <= n BY <1>4, <1>5, <1>15 DEF Good
    <2>3. ASSUME NEW j \in 1 .. i - 1 PROVE j \in L <=> j \in Q
      <3>1. j \in 1 .. n /\ j < i /\ j # n
        <4>1. n \in Nat BY <1>4
        <4> HIDE DEF n
        <4> QED BY <4>1, <2>2
      <3>2. j \notin Fly BY <1>3, <3>1 DEF OneInFlight
      <3>3. j \notin Unheard
        <4>1. \A k \in DOMAIN verdicts : i < verdicts[k].id /\ verdicts[k].id \in 1 .. n
          BY <1>3, <1>4, <1>5, <1>15 DEF VerdictsInOrder
        <4> QED BY <4>1, <3>1, <2>2 DEF Unheard
      <3>4. j \in pending => j \in Good BY <1>3, <1>4, <3>1, <3>3 DEF Good, VerdictsInOrder
      <3> QED BY <1>13, <3>2, <3>4
    <2>4. Agree(issued, L, issued, Q, i - 1)
      <3> HIDE DEF L, Q
      <3> QED BY <2>3 DEF Agree
    <2>5. Running(b, issued, L)[i - 1] = Running(b, issued, Q)[i - 1]
      <3> HIDE DEF L, Q, n
      <3>1. Len(issued) \in Nat /\ i - 1 <= Len(issued) BY <1>4, <2>2 DEF n
      <3> QED BY <2>2, <2>4, <3>1, RunningLocal
    <2> HIDE DEF L
    <2> QED BY <2>1, <2>5
  <1>16. Replay(b, issued, Q \ R) = Replay(b, issued, Q)
    <2> HIDE DEF Q, R
    <2>1. Len(issued) \in Nat BY <1>4
    <2>2. Absorbed(b, issued, Q, R) BY <1>15 DEF Absorbed
    <2> QED BY <2>1, <2>2, AbsorbedGo
  <1>17. Replay(provider, issued, Q \ R) = provider
    <2>1. CASE b = provider BY <1>12, <1>16, <2>1
    <2>2. CASE b # provider
      <3>1. /\ Fly = {n} /\ n # 0 /\ b = ApplyAssertion(provider, issued[n]) BY <1>9, <2>2
      <3>2. n \notin Q BY <3>1
      <3>3. issued[n].kind # "destroy" BY <1>1, <3>1 DEF ApplyAssertion
      <3> HIDE DEF Q, R
      <3>4. Q \ R \subseteq Q OBVIOUS
      <3>5. Replay(ApplyAssertion(provider, issued[n]), issued, Q \ R)
              = Replay(ApplyAssertion(provider, issued[n]), issued, Q)
        BY <1>16, <3>1
      <3> QED BY <1>4, <1>11, <1>12, <1>14, <3>1, <3>2, <3>3, <3>4, <3>5, StaleFold
    <2> QED BY <2>1, <2>2
  <1>18. Based'
    <2>1. Out' \subseteq pending'
      <3>1. Fly \subseteq pending BY <1>1, <1>3, OutIsLast DEF Based
      <3> QED BY <1>2, <1>5, <1>6, <3>1
    <2>2. base' = Before' \/ (base' = Replay(StartState, issued', Good') /\ onWire' = {})
      <3>1. CASE b = provider BY <1>1, <1>7, <3>1
      <3>2. CASE b # provider
        <4>1. Fly = {n} /\ onWire = {} /\ n \in Good /\ n # 0 /\ b = ApplyAssertion(provider, issued[n])
          BY <1>9, <3>2
        <4>2. Replay(StartState, issued, Good)
                = ApplyAssertion(Replay(StartState, issued, Good \ {n}), issued[n])
          BY <1>4, <4>1, ReplayWithLast
        <4>3. provider = Replay(StartState, issued, Good \ {n}) BY <1>3, <4>1 DEF Provided
        <4> QED BY <1>1, <1>2, <1>6, <4>1, <4>2, <4>3
      <3> QED BY <3>1, <3>2
    <2>3. (pending' \cap Good') \ Out' = Q \ R BY <1>2, <1>6
    <2>4. Replay(Before', issued', (pending' \cap Good') \ Out') = Before'
      BY <1>2, <1>7, <1>17, <2>3
    <2> QED BY <2>1, <2>2, <2>4 DEF Based, StartState
  <1>19. ReplicaTypes'
    <2>1. base' \in States
      <3>1. Replay(provider, issued, farOps) \in States BY <1>3, <1>4, ReplayType DEF ReplicaTypes
      <3> QED BY <1>1, <1>3, <3>1 DEF ReplicaTypes
    <2>2. acceptedAt' \in [OpIds -> Nat] BY <1>2, <1>3 DEF ReplicaTypes
    <2>3. pending' \subseteq DOMAIN issued' /\ confirmed' \subseteq pending' BY <1>2, <1>3 DEF ReplicaTypes
    <2> QED BY <1>1, <1>2, <1>3, <2>1, <2>2, <2>3 DEF ReplicaTypes
  <1>20. OneInFlight' BY <1>1, <1>2, <1>3, <1>6 DEF OneInFlight
  <1>21. VerdictsInOrder' BY <1>2, <1>3 DEF VerdictsInOrder
  <1>22. Gated'
    <2> SUFFICES ASSUME NEW id \in pending'
                 PROVE acceptedAt'[id] \in 1 .. version /\ (id \in Fly => acceptedAt'[id] = version)
      BY <1>1, <1>2, <1>6 DEF Gated
    <2>1. id \in pending /\ id \notin R BY <1>2
    <2>2. id \in OpIds
      <3>1. id \in 1 .. n /\ n <= MaxOps BY <1>3, <1>4, <2>1 DEF ReplicaTypes
      <3> QED BY <1>4, <3>1, ReplicaAssumption DEF OpIds
    <2>3. acceptedAt'[id] = acceptedAt[id] BY <1>2, <2>1, <2>2
    <2>4. baseVersion <= version /\ version \in Nat /\ baseVersion \in Nat
      BY <1>3 DEF OneInFlight, ReplicaTypes
    <2> QED BY <1>3, <2>1, <2>3, <2>4 DEF Gated
  <1>23. Provided' BY <1>2, <1>3, <1>6 DEF Provided, StartState
  <1> QED BY <1>18, <1>19, <1>20, <1>21, <1>22, <1>23 DEF ReplicaInv

\* remove_base and remove_pending
LEMMA ServeRemovalKeeps == ReplicaInv /\ ServeRemoval => ReplicaInv'
  <1> SUFFICES ASSUME ReplicaInv, ServeRemoval PROVE ReplicaInv' OBVIOUS
  <1>1. /\ base' = Absent
        /\ pending' = pending \ pending /\ confirmed' = confirmed \ pending
        /\ acceptedAt' = [id \in OpIds |-> IF id \in pending THEN 0 ELSE acceptedAt[id]]
        /\ UNCHANGED <<baseVersion, provider, version, onWire, farOps, verdicts, issued,
                       failedIds, trial>>
    BY DEF ServeRemoval, DropPending, linkVars
  <1>2. ReplicaTypes /\ OneInFlight /\ VerdictsInOrder /\ Provided BY DEF ReplicaInv
  <1>3. pending' = {} /\ confirmed' = {} BY <1>1, <1>2 DEF ReplicaTypes
  <1>4. Good' = Good /\ Fly' = Fly BY <1>1 DEF Good, Unheard, Fly
  <1>5. ReplicaTypes'
    <2>1. acceptedAt' \in [OpIds -> Nat] BY <1>1, <1>2 DEF ReplicaTypes
    <2> QED BY <1>1, <1>2, <1>3, <2>1 DEF ReplicaTypes, States
  <1>6. OneInFlight' BY <1>1, <1>2, <1>4 DEF OneInFlight
  <1>7. VerdictsInOrder' BY <1>1, <1>2, <1>3 DEF VerdictsInOrder
  <1>8. Gated' BY <1>3 DEF Gated
  <1>9. Provided' BY <1>1, <1>2, <1>4 DEF Provided, StartState
  <1>10. Based' BY <1>1 DEF Based
  <1> QED BY <1>5, <1>6, <1>7, <1>8, <1>9, <1>10 DEF ReplicaInv

\* The trial sequence is not part of the replica.
LEMMA TryKeeps == ReplicaInv /\ Try => ReplicaInv'
  <1> SUFFICES ASSUME ReplicaInv, Try PROVE ReplicaInv' OBVIOUS
  <1>1. PICK a \in Assertions : trial' = Append(trial, a) BY DEF Try
  <1>2. UNCHANGED <<base, baseVersion, pending, confirmed, acceptedAt, provider, version,
                    onWire, farOps, verdicts, issued, failedIds>>
    BY DEF Try, coreVars, linkVars
  <1>3. trial' \in Seq(MessageAssertion)
    BY <1>1, ReplicaAssumption DEF ReplicaInv, ReplicaTypes
  <1>4. Good' = Good BY <1>2 DEF Good, Unheard
  <1>5. OneInFlight' /\ Provided' /\ Based' BY <1>2, <1>4, LinkStands
  <1>6. ReplicaTypes' BY <1>2, <1>3 DEF ReplicaInv, ReplicaTypes
  <1>7. VerdictsInOrder' BY <1>2 DEF ReplicaInv, VerdictsInOrder
  <1>8. Gated' BY <1>2 DEF ReplicaInv, Gated, Fly
  <1> QED BY <1>5, <1>6, <1>7, <1>8 DEF ReplicaInv

LEMMA ReplicaInvStep == ReplicaInv /\ [ReplicaNext]_replicaVars => ReplicaInv'
  <1> SUFFICES ASSUME ReplicaInv, [ReplicaNext]_replicaVars PROVE ReplicaInv' OBVIOUS
  <1>1. CASE Try BY <1>1, TryKeeps
  <1>2. CASE Accept BY <1>2, AcceptKeeps
  <1>3. CASE ReplicaSettle BY <1>3, ReplicaSettleKeeps
  <1>4. CASE Serve BY <1>4, ServeKeeps
  <1>5. CASE ServeRemoval BY <1>5, ServeRemovalKeeps
  <1>6. CASE \E id \in onWire : Decide(id, "confirmed") \/ Decide(id, "failed")
    BY <1>6, DecideKeeps
  <1>7. CASE \E id \in farOps : ProviderTakes(id) BY <1>7, ProviderTakesKeeps
  <1>8. CASE UNCHANGED replicaVars
    <2>1. UNCHANGED <<base, baseVersion, pending, confirmed, acceptedAt, provider, version,
                      onWire, farOps, verdicts, issued, failedIds, trial>>
      BY <1>8 DEF replicaVars, coreVars, linkVars
    <2>2. Good' = Good BY <2>1 DEF Good, Unheard
    <2>3. OneInFlight' /\ Provided' /\ Based' BY <2>1, <2>2, LinkStands
    <2>4. ReplicaTypes' BY <2>1 DEF ReplicaInv, ReplicaTypes
    <2>5. VerdictsInOrder' BY <2>1 DEF ReplicaInv, VerdictsInOrder
    <2>6. Gated' BY <2>1 DEF ReplicaInv, Gated, Fly
    <2> QED BY <2>3, <2>4, <2>5, <2>6 DEF ReplicaInv
  <1> QED BY <1>1, <1>2, <1>3, <1>4, <1>5, <1>6, <1>7, <1>8 DEF ReplicaNext, Link

\* The replica never flickers: with echoes and stale serves at one version,
\* late verdicts and the retirement of what the base has absorbed, the message
\* shows every operation that was not rejected, in order (project of
\* convergence.rs).
THEOREM NeverFlickers == ReplicaSpec => []NoFlicker
  <1>1. ReplicaSpec => []ReplicaInv
    BY ReplicaInvInit, ReplicaInvStep, PTL DEF ReplicaSpec
  <1> QED BY <1>1, InvShows, PTL

-----------------------------------------------------------------------------
(***************************************************************************)
(* The algebra of assertions.  What coalescing has merged after i          *)
(* assertions stands for the first i of them, over any message.            *)
(***************************************************************************)
Moves == {<<>>} \cup {<<a>> : a \in [kind : {"replaceMailboxes"}, mailboxes : SUBSET Mailboxes]}

MergedStates == [add : SUBSET Tags, remove : SUBSET Tags, moves : Moves]

\* The message a merged change stands for.
MergedOver(s, m) == [keywords |-> (s.keywords \cup m.add) \ m.remove,
                     mailboxes |-> IF m.moves = <<>> THEN s.mailboxes ELSE m.moves[1].mailboxes]

\* f holds what is merged after each of the first n assertions.
MergesTo(f, assertions, n) ==
    f = [i \in 0 .. n |-> IF i = 0 THEN [add |-> {}, remove |-> {}, moves |-> <<>>]
                          ELSE Toggle(f[i - 1], assertions[i])]

\* The first n assertions can be merged, for every n.
LEMMA MergingExists ==
    ASSUME NEW assertions, NEW n \in Nat
    PROVE  \E f : MergesTo(f, assertions, n)
  <1> DEFINE Bad == {k \in Nat : ~ \E f : MergesTo(f, assertions, k)}
             none == [add |-> {}, remove |-> {}, moves |-> <<>>]
  <1> SUFFICES ASSUME Bad # {} PROVE FALSE OBVIOUS
  <1>1. PICK k \in Bad : \A m \in Bad : k <= m BY LeastNumber
  <1>2. CASE k = 0
    <2> DEFINE f == [i \in 0 .. 0 |-> none]
    <2>1. MergesTo(f, assertions, 0) BY DEF MergesTo
    <2> QED BY <2>1, <1>1, <1>2
  <1>3. CASE k # 0
    <2>1. k - 1 \in Nat /\ k \in Nat BY <1>1, <1>3
    <2>2. k - 1 \notin Bad BY <1>1, <2>1
    <2>3. PICK f : MergesTo(f, assertions, k - 1) BY <2>1, <2>2
    <2> DEFINE g == [i \in 0 .. k |-> IF i = k THEN Toggle(f[k - 1], assertions[k]) ELSE f[i]]
    <2> HIDE DEF none
    <2>4. \A i \in 0 .. k - 1 : g[i] = f[i] BY <2>1
    <2>5. \A i \in 0 .. k - 1 : f[i] = IF i = 0 THEN none ELSE Toggle(f[i - 1], assertions[i])
      BY <2>1, <2>3 DEF MergesTo, none
    <2>6. \A i \in 0 .. k : g[i] = IF i = 0 THEN none ELSE Toggle(g[i - 1], assertions[i])
      BY <2>1, <2>4, <2>5, <1>3
    <2>7. MergesTo(g, assertions, k) BY <2>6 DEF MergesTo, none
    <2> QED BY <2>7, <1>1
  <1> QED BY <1>2, <1>3

\* What is merged, one assertion after the other.
LEMMA MergingSteps ==
    ASSUME NEW assertions, Len(assertions) \in Nat
    PROVE  /\ Merging(assertions)[0] = [add |-> {}, remove |-> {}, moves |-> <<>>]
           /\ \A i \in 1 .. Len(assertions) :
                Merging(assertions)[i] = Toggle(Merging(assertions)[i - 1], assertions[i])
  <1> DEFINE F == Merging(assertions)
  <1>1. PICK f : MergesTo(f, assertions, Len(assertions)) BY MergingExists
  <1>2. F = [i \in 0 .. Len(assertions) |->
               IF i = 0 THEN [add |-> {}, remove |-> {}, moves |-> <<>>]
               ELSE Toggle(F[i - 1], assertions[i])]
    BY <1>1 DEF Merging, MergesTo
  <1> DEFINE none == [add |-> {}, remove |-> {}, moves |-> <<>>]
  <1>3. F = [i \in 0 .. Len(assertions) |-> IF i = 0 THEN none ELSE Toggle(F[i - 1], assertions[i])]
    BY <1>2
  <1> HIDE DEF F, none
  <1>4. F[0] = none BY <1>3
  <1>5. \A i \in 1 .. Len(assertions) : F[i] = Toggle(F[i - 1], assertions[i])
    <2> SUFFICES ASSUME NEW i \in 1 .. Len(assertions)
                 PROVE  F[i] = Toggle(F[i - 1], assertions[i])
      OBVIOUS
    <2>1. i \in 0 .. Len(assertions) /\ i # 0 OBVIOUS
    <2> QED BY <1>3, <2>1
  <1> QED BY <1>4, <1>5 DEF F, none

\* One more assertion, merged and applied.
LEMMA ToggleShows ==
    ASSUME NEW m \in MergedStates, NEW a \in MessageAssertion,
           a.kind # "destroy", a.kind # "applyDiff"
    PROVE  /\ Toggle(m, a) \in MergedStates
           /\ \A s \in MessageFoldState :
                ApplyAssertion(MergedOver(s, m), a) = MergedOver(s, Toggle(m, a))
  <1>1. /\ m = [add |-> m.add, remove |-> m.remove, moves |-> m.moves]
        /\ m.add \in SUBSET Tags /\ m.remove \in SUBSET Tags /\ m.moves \in Moves
    BY DEF MergedStates
  <1>2. \A s : /\ MergedOver(s, m) # Absent
               /\ MergedOver(s, m).keywords = (s.keywords \cup m.add) \ m.remove
               /\ MergedOver(s, m).mailboxes = IF m.moves = <<>> THEN s.mailboxes ELSE m.moves[1].mailboxes
    BY DEF MergedOver, Absent
  <1>3. CASE a.kind = "setKeywords"
    <2>1. a.add \in SUBSET Tags /\ a.remove \in SUBSET Tags BY <1>3 DEF MessageAssertion
    <2>2. Toggle(m, a) = [add |-> (m.add \cup a.add) \ a.remove,
                          remove |-> (m.remove \ a.add) \cup a.remove,
                          moves |-> m.moves]
      <3>1. Toggle(m, a) = [m EXCEPT !.add = (@ \cup a.add) \ a.remove,
                                     !.remove = (@ \ a.add) \cup a.remove]
        BY <1>3 DEF Toggle
      <3> QED BY <3>1 DEF MergedStates
    <2>3. Toggle(m, a) \in MergedStates BY <1>1, <2>1, <2>2 DEF MergedStates
    <2>4. ASSUME NEW s \in MessageFoldState
          PROVE  ApplyAssertion(MergedOver(s, m), a) = MergedOver(s, Toggle(m, a))
      <3> DEFINE t == MergedOver(s, m)
      <3>1. t # Absent /\ t.keywords = (s.keywords \cup m.add) \ m.remove BY <1>2
      <3>2. t = [keywords |-> t.keywords, mailboxes |-> t.mailboxes] BY DEF MergedOver
      <3>3. MergedOver(s, Toggle(m, a)) =
              [keywords |-> (s.keywords \cup ((m.add \cup a.add) \ a.remove)) \ ((m.remove \ a.add) \cup a.remove),
               mailboxes |-> t.mailboxes]
        BY <2>2, <1>2 DEF MergedOver
      <3> HIDE DEF t
      <3>4. ApplyAssertion(t, a) = [t EXCEPT !.keywords = (t.keywords \cup a.add) \ a.remove]
        BY <1>3, <3>1 DEF ApplyAssertion, Changed
      <3>5. ApplyAssertion(t, a) = [keywords |-> (t.keywords \cup a.add) \ a.remove,
                                    mailboxes |-> t.mailboxes]
        BY <3>2, <3>4
      <3>6. (((s.keywords \cup m.add) \ m.remove) \cup a.add) \ a.remove
              = (s.keywords \cup ((m.add \cup a.add) \ a.remove)) \ ((m.remove \ a.add) \cup a.remove)
        OBVIOUS
      <3> QED BY <3>1, <3>3, <3>5, <3>6 DEF t
    <2> QED BY <2>3, <2>4
  <1>4. CASE a.kind = "replaceMailboxes"
    <2>1. a \in [kind : {"replaceMailboxes"}, mailboxes : SUBSET Mailboxes]
      BY <1>4 DEF MessageAssertion
    <2>2. Toggle(m, a) = [add |-> m.add, remove |-> m.remove, moves |-> <<a>>]
      <3>1. Toggle(m, a) = [m EXCEPT !.moves = <<a>>] BY <1>4 DEF Toggle
      <3> QED BY <3>1 DEF MergedStates
    <2>3. <<a>> \in Moves BY <2>1 DEF Moves
    <2>4. Toggle(m, a) \in MergedStates BY <1>1, <2>2, <2>3 DEF MergedStates
    <2>5. ASSUME NEW s \in MessageFoldState
          PROVE  ApplyAssertion(MergedOver(s, m), a) = MergedOver(s, Toggle(m, a))
      <3> DEFINE t == MergedOver(s, m)
      <3>1. t # Absent /\ t.keywords = (s.keywords \cup m.add) \ m.remove BY <1>2
      <3>2. t = [keywords |-> t.keywords, mailboxes |-> t.mailboxes] BY DEF MergedOver
      <3>3. <<a>> # <<>> /\ <<a>>[1] = a OBVIOUS
      <3>4. MergedOver(s, Toggle(m, a)) = [keywords |-> t.keywords, mailboxes |-> a.mailboxes]
        BY <2>2, <3>1, <3>3 DEF MergedOver
      <3> HIDE DEF t
      <3>5. ApplyAssertion(t, a) = [t EXCEPT !.mailboxes = a.mailboxes]
        BY <1>4, <3>1 DEF ApplyAssertion
      <3>6. ApplyAssertion(t, a) = [keywords |-> t.keywords, mailboxes |-> a.mailboxes]
        BY <3>2, <3>5
      <3> QED BY <3>4, <3>6 DEF t
    <2> QED BY <2>4, <2>5
  <1> QED BY <1>3, <1>4 DEF MessageAssertion

\* The merged change after i assertions stands for them.
LEMMA MergingShows ==
    ASSUME NEW e \in Seq(MessageAssertion), ~HasKind(e, "destroy"), ~HasKind(e, "applyDiff")
    PROVE  \A i \in 0 .. Len(e) :
             /\ Merging(e)[i] \in MergedStates
             /\ \A s \in MessageFoldState : Running(s, e, DOMAIN e)[i] = MergedOver(s, Merging(e)[i])
  <1> DEFINE Shows(i) == /\ Merging(e)[i] \in MergedStates
                         /\ \A s \in MessageFoldState :
                              Running(s, e, DOMAIN e)[i] = MergedOver(s, Merging(e)[i])
             Bad == {i \in 0 .. Len(e) : ~Shows(i)}
  <1>1. Shows(0)
    <2>1. Merging(e)[0] = [add |-> {}, remove |-> {}, moves |-> <<>>] BY MergingSteps
    <2>2. Merging(e)[0] \in MergedStates BY <2>1 DEF MergedStates, Moves
    <2>3. ASSUME NEW s \in MessageFoldState
          PROVE  Running(s, e, DOMAIN e)[0] = MergedOver(s, Merging(e)[0])
      <3>1. Running(s, e, DOMAIN e)[0] = s BY RunningSteps
      <3>2. MergedOver(s, Merging(e)[0]) = [keywords |-> (s.keywords \cup {}) \ {}, mailboxes |-> s.mailboxes]
        BY <2>1 DEF MergedOver
      <3>3. (s.keywords \cup {}) \ {} = s.keywords OBVIOUS
      <3>4. s = [keywords |-> s.keywords, mailboxes |-> s.mailboxes] BY DEF MessageFoldState
      <3> QED BY <3>1, <3>2, <3>3, <3>4
    <2> QED BY <2>2, <2>3
  <1>2. ASSUME NEW i \in 1 .. Len(e), Shows(i - 1) PROVE Shows(i)
    <2>1. e[i] \in MessageAssertion /\ i \in DOMAIN e OBVIOUS
    <2>2. e[i].kind # "destroy" /\ e[i].kind # "applyDiff" BY <2>1 DEF HasKind
    <2>3. Merging(e)[i] = Toggle(Merging(e)[i - 1], e[i]) BY MergingSteps
    <2>4. Merging(e)[i - 1] \in MergedStates BY <1>2
    <2>5. /\ Merging(e)[i] \in MergedStates
          /\ \A s \in MessageFoldState :
               ApplyAssertion(MergedOver(s, Merging(e)[i - 1]), e[i]) = MergedOver(s, Merging(e)[i])
      BY <2>1, <2>2, <2>3, <2>4, ToggleShows
    <2>6. ASSUME NEW s \in MessageFoldState
          PROVE  Running(s, e, DOMAIN e)[i] = MergedOver(s, Merging(e)[i])
      <3>1. Running(s, e, DOMAIN e)[i] = Stepped(Running(s, e, DOMAIN e)[i - 1], e[i], i \in DOMAIN e)
        BY RunningSteps
      <3>2. Running(s, e, DOMAIN e)[i - 1] = MergedOver(s, Merging(e)[i - 1]) BY <1>2
      <3> QED BY <2>1, <2>5, <3>1, <3>2 DEF Stepped
    <2> QED BY <2>5, <2>6
  <1> HIDE DEF Shows
  <1>3. Bad = {}
    <2> SUFFICES ASSUME Bad # {} PROVE FALSE OBVIOUS
    <2>1. Bad \in SUBSET Nat OBVIOUS
    <2>2. PICK k \in Bad : \A m \in Bad : k <= m
      <3> HIDE DEF Bad
      <3> QED BY <2>1, LeastNumber
    <2>3. k \in 1 .. Len(e) /\ k - 1 \in 0 .. Len(e) BY <1>1, <2>2
    <2>4. Shows(k - 1) BY <2>2, <2>3
    <2> QED BY <1>2, <2>2, <2>3, <2>4
  <1>4. \A i \in 0 .. Len(e) : Shows(i) BY <1>3
  <1> QED BY <1>4 DEF Shows

\* The fold of no assertion, of one, and of two.
LEMMA ReplayShort ==
    ASSUME NEW s
    PROVE  /\ ReplayMessage(s, <<>>) = s
           /\ \A a : ReplayMessage(s, <<a>>) = ApplyAssertion(s, a)
           /\ \A a, b : ReplayMessage(s, <<a, b>>) = ApplyAssertion(ApplyAssertion(s, a), b)
  <1>1. ReplayMessage(s, <<>>) = s
    <2>1. Len(<<>>) = 0 OBVIOUS
    <2>2. Running(s, <<>>, DOMAIN <<>>)[0] = s BY <2>1, RunningSteps
    <2> QED BY <2>1, <2>2 DEF ReplayMessage, Replay
  <1>2. ASSUME NEW a PROVE ReplayMessage(s, <<a>>) = ApplyAssertion(s, a)
    <2> DEFINE e == <<a>>
               X == DOMAIN e
    <2>1. Len(e) = 1 /\ e[1] = a /\ 1 \in X OBVIOUS
    <2> HIDE DEF e, X
    <2>2. /\ Running(s, e, X)[0] = s
          /\ \A i \in 1 .. Len(e) : Running(s, e, X)[i] = Stepped(Running(s, e, X)[i - 1], e[i], i \in X)
      <3>1. Len(e) \in Nat BY <2>1
      <3> QED BY <3>1, RunningSteps
    <2>3. Running(s, e, X)[1] = ApplyAssertion(s, a)
      <3>1. 1 \in 1 .. Len(e) /\ 1 - 1 = 0 BY <2>1
      <3>2. Running(s, e, X)[1] = Stepped(Running(s, e, X)[0], e[1], 1 \in X) BY <2>2, <3>1
      <3> QED BY <2>1, <2>2, <3>2 DEF Stepped
    <2>4. Replay(s, e, X) = ApplyAssertion(s, a) BY <2>1, <2>3 DEF Replay
    <2> QED BY <2>4 DEF ReplayMessage, e, X
  <1>3. ASSUME NEW a, NEW b
        PROVE  ReplayMessage(s, <<a, b>>) = ApplyAssertion(ApplyAssertion(s, a), b)
    <2> DEFINE e == <<a, b>>
               X == DOMAIN e
    <2>1. Len(e) = 2 /\ e[1] = a /\ e[2] = b /\ 1 \in X /\ 2 \in X OBVIOUS
    <2> HIDE DEF e, X
    <2>2. /\ Running(s, e, X)[0] = s
          /\ \A i \in 1 .. Len(e) : Running(s, e, X)[i] = Stepped(Running(s, e, X)[i - 1], e[i], i \in X)
      <3>1. Len(e) \in Nat BY <2>1
      <3> QED BY <3>1, RunningSteps
    <2>3. Running(s, e, X)[1] = ApplyAssertion(s, a)
      <3>1. 1 \in 1 .. Len(e) /\ 1 - 1 = 0 BY <2>1
      <3>2. Running(s, e, X)[1] = Stepped(Running(s, e, X)[0], e[1], 1 \in X) BY <2>2, <3>1
      <3> QED BY <2>1, <2>2, <3>2 DEF Stepped
    <2>4. Running(s, e, X)[2] = ApplyAssertion(ApplyAssertion(s, a), b)
      <3>1. 2 \in 1 .. Len(e) /\ 2 - 1 = 1 BY <2>1
      <3>2. Running(s, e, X)[2] = Stepped(Running(s, e, X)[1], e[2], 2 \in X) BY <2>2, <3>1
      <3> QED BY <2>1, <2>3, <3>2 DEF Stepped
    <2>5. Replay(s, e, X) = ApplyAssertion(ApplyAssertion(s, a), b) BY <2>1, <2>4 DEF Replay
    <2> QED BY <2>5 DEF ReplayMessage, e, X
  <1> QED BY <1>1, <1>2, <1>3

\* A keyword change and a mailbox replacement, on a message given by its fields.
LEMMA ApplyToFields ==
    ASSUME NEW k, NEW b
    PROVE  LET t == [keywords |-> k, mailboxes |-> b] IN
           /\ \A add, remove :
                ApplyAssertion(t, [kind |-> "setKeywords", add |-> add, remove |-> remove])
                    = [keywords |-> (k \cup add) \ remove, mailboxes |-> b]
           /\ \A a : a.kind = "replaceMailboxes" =>
                ApplyAssertion(t, a) = [keywords |-> k, mailboxes |-> a.mailboxes]
  <1> DEFINE t == [keywords |-> k, mailboxes |-> b]
  <1>1. t # Absent BY DEF Absent
  <1>2. ASSUME NEW add, NEW remove
        PROVE  ApplyAssertion(t, [kind |-> "setKeywords", add |-> add, remove |-> remove])
                 = [keywords |-> (k \cup add) \ remove, mailboxes |-> b]
    <2> DEFINE a == [kind |-> "setKeywords", add |-> add, remove |-> remove]
    <2>1. a.kind = "setKeywords" /\ a.add = add /\ a.remove = remove OBVIOUS
    <2> HIDE DEF a
    <2>2. ApplyAssertion(t, a) = [t EXCEPT !.keywords = (t.keywords \cup add) \ remove]
      BY <1>1, <2>1 DEF ApplyAssertion, Changed
    <2>3. ApplyAssertion(t, a) = [keywords |-> (k \cup add) \ remove, mailboxes |-> b] BY <2>2
    <2> QED BY <2>3 DEF a
  <1>3. ASSUME NEW a, a.kind = "replaceMailboxes"
        PROVE  ApplyAssertion(t, a) = [keywords |-> k, mailboxes |-> a.mailboxes]
    <2>1. ApplyAssertion(t, a) = [t EXCEPT !.mailboxes = a.mailboxes]
      BY <1>1, <1>3 DEF ApplyAssertion
    <2> QED BY <2>1
  <1> QED BY <1>2, <1>3

\* Two sequences of one element, one after the other.
LEMMA TwoConcat ==
    ASSUME NEW x, NEW y
    PROVE  <<x>> \o <<y>> = <<x, y>>
  <1> DEFINE S == {x, y}
  <1>1. <<x>> \in Seq(S) /\ <<y>> \in Seq(S) /\ <<x, y>> \in Seq(S) OBVIOUS
  <1>2. Len(<<x>>) = 1 /\ Len(<<y>>) = 1 /\ Len(<<x, y>>) = 2 OBVIOUS
  <1>3. /\ <<x>> \o <<y>> \in Seq(S)
        /\ Len(<<x>> \o <<y>>) = 2
        /\ (<<x>> \o <<y>>)[1] = x
        /\ (<<x>> \o <<y>>)[2] = y
    BY <1>1, <1>2
  <1>4. \A i \in 1 .. 2 : (<<x>> \o <<y>>)[i] = <<x, y>>[i]
    <2>1. \A i \in 1 .. 2 : i = 1 \/ i = 2 OBVIOUS
    <2>2. <<x, y>>[1] = x /\ <<x, y>>[2] = y OBVIOUS
    <2> QED BY <1>3, <2>1, <2>2
  <1> HIDE DEF S
  <1> QED BY <1>1, <1>2, <1>3, <1>4, SeqEqual

\* What coalescing leaves of a merged change folds to that change.
LEMMA MergedFolds ==
    ASSUME NEW m \in MergedStates, NEW s \in MessageFoldState
    PROVE  ReplayMessage(s, (IF m.add \cup m.remove = {} THEN <<>>
                             ELSE <<[kind |-> "setKeywords", add |-> m.add, remove |-> m.remove]>>)
                                \o m.moves) = MergedOver(s, m)
  <1> DEFINE K == [kind |-> "setKeywords", add |-> m.add, remove |-> m.remove]
             keywords == IF m.add \cup m.remove = {} THEN <<>> ELSE <<K>>
             changed == [keywords |-> (s.keywords \cup m.add) \ m.remove, mailboxes |-> s.mailboxes]
  <1>1. s = [keywords |-> s.keywords, mailboxes |-> s.mailboxes] BY DEF MessageFoldState
  <1>2. m.moves = <<>> \/ \E a : m.moves = <<a>> /\ a.kind = "replaceMailboxes"
    BY DEF MergedStates, Moves
  <1>3. ApplyAssertion(s, K) = changed BY <1>1, ApplyToFields
  <1>4. m.add \cup m.remove = {} => changed = s
    <2>1. m.add \cup m.remove = {} => (s.keywords \cup m.add) \ m.remove = s.keywords OBVIOUS
    <2> QED BY <1>1, <2>1
  <1>5. CASE m.moves = <<>>
    <2>1. MergedOver(s, m) = changed BY <1>5 DEF MergedOver
    <2>2. CASE m.add \cup m.remove = {}
      <3>1. keywords \o m.moves = <<>> BY <1>5, <2>2
      <3>2. ReplayMessage(s, keywords \o m.moves) = s BY <3>1, ReplayShort
      <3> QED BY <1>4, <2>1, <2>2, <3>2
    <2>3. CASE m.add \cup m.remove # {}
      <3> HIDE DEF K
      <3>1. keywords \o m.moves = <<K>>
        <4>1. keywords = <<K>> BY <2>3
        <4>2. <<K>> \o <<>> = <<K>> OBVIOUS
        <4> QED BY <1>5, <4>1, <4>2
      <3>2. ReplayMessage(s, keywords \o m.moves) = changed BY <1>3, <3>1, ReplayShort
      <3> QED BY <2>1, <3>2 DEF K
    <2> QED BY <2>2, <2>3
  <1>6. CASE \E a : m.moves = <<a>> /\ a.kind = "replaceMailboxes"
    <2>1. PICK a : m.moves = <<a>> /\ a.kind = "replaceMailboxes" BY <1>6
    <2>2. MergedOver(s, m) = [keywords |-> (s.keywords \cup m.add) \ m.remove, mailboxes |-> a.mailboxes]
      <3>1. <<a>> # <<>> /\ <<a>>[1] = a OBVIOUS
      <3> QED BY <2>1, <3>1 DEF MergedOver
    <2>3. ApplyAssertion(changed, a) = MergedOver(s, m) BY <2>1, <2>2, ApplyToFields
    <2>4. CASE m.add \cup m.remove = {}
      <3>1. keywords \o m.moves = <<a>>
        <4>1. <<>> \o <<a>> = <<a>> OBVIOUS
        <4> QED BY <2>1, <2>4, <4>1
      <3>2. ReplayMessage(s, keywords \o m.moves) = ApplyAssertion(s, a) BY <3>1, ReplayShort
      <3> QED BY <1>4, <2>3, <2>4, <3>2
    <2>5. CASE m.add \cup m.remove # {}
      <3> HIDE DEF K
      <3>1. keywords \o m.moves = <<K, a>>
        <4>1. keywords = <<K>> BY <2>5
        <4>2. <<K>> \o <<a>> = <<K, a>> BY TwoConcat
        <4> QED BY <2>1, <4>1, <4>2
      <3> HIDE DEF keywords, changed
      <3>2. ReplayMessage(s, keywords \o m.moves) = ApplyAssertion(ApplyAssertion(s, K), a)
        BY <3>1, ReplayShort
      <3> QED BY <1>3, <2>3, <3>2 DEF K, keywords
    <2> QED BY <2>4, <2>5
  <1> QED BY <1>2, <1>5, <1>6

\* Coalescing keeps what a sequence of assertions does to any message.
LEMMA CoalesceShows ==
    ASSUME NEW e \in Seq(MessageAssertion), NEW s \in MessageFoldState
    PROVE  ReplayMessage(s, Coalesce(e)) = ReplayMessage(s, e)
  <1>1. CASE HasKind(e, "destroy")
    <2> DEFINE d == [kind |-> "destroy"]
    <2>1. Coalesce(e) = <<d>> BY <1>1 DEF Coalesce
    <2>2. d.kind = "destroy" OBVIOUS
    <2> HIDE DEF d
    <2>3. ReplayMessage(s, Coalesce(e)) = ApplyAssertion(s, d) BY <2>1, ReplayShort
    <2>4. ReplayMessage(s, Coalesce(e)) = Absent BY <2>2, <2>3 DEF ApplyAssertion
    <2>5. ReplayMessage(s, e) = Absent
      <3> SUFFICES ASSUME Replay(s, e, DOMAIN e) # Absent PROVE FALSE BY DEF ReplayMessage
      <3>1. PICK i \in DOMAIN e : e[i].kind = "destroy" BY <1>1 DEF HasKind
      <3>2. Len(e) \in Nat /\ i \in 1 .. Len(e) OBVIOUS
      <3>3. \A j \in DOMAIN e : j \in 1 .. Len(e) => e[j].kind # "destroy"
        BY <3>2, NoDestroyApplied
      <3> QED BY <3>1, <3>2, <3>3
    <2> QED BY <2>4, <2>5
  <1>2. CASE ~HasKind(e, "destroy") /\ HasKind(e, "applyDiff")
    <2>1. Coalesce(e) = e BY <1>2 DEF Coalesce
    <2> QED BY <2>1
  <1>3. CASE ~HasKind(e, "destroy") /\ ~HasKind(e, "applyDiff")
    <2> DEFINE m == Merging(e)[Len(e)]
               left == (IF m.add \cup m.remove = {} THEN <<>>
                        ELSE <<[kind |-> "setKeywords", add |-> m.add, remove |-> m.remove]>>)
                           \o m.moves
    <2>1. Len(e) \in 0 .. Len(e) OBVIOUS
    <2>2. m \in MergedStates /\ Running(s, e, DOMAIN e)[Len(e)] = MergedOver(s, m)
      <3>1. \A i \in 0 .. Len(e) :
               /\ Merging(e)[i] \in MergedStates
               /\ \A t \in MessageFoldState : Running(t, e, DOMAIN e)[i] = MergedOver(t, Merging(e)[i])
        BY <1>3, MergingShows
      <3> QED BY <2>1, <3>1
    <2>3. Coalesce(e) = left BY <1>3 DEF Coalesce
    <2> HIDE DEF m
    <2>4. ReplayMessage(s, left) = MergedOver(s, m) BY <2>2, MergedFolds
    <2>5. ReplayMessage(s, e) = MergedOver(s, m) BY <2>2 DEF ReplayMessage, Replay
    <2> QED BY <2>3, <2>4, <2>5
  <1> QED BY <1>1, <1>2, <1>3

\* The inverse of a change takes a set back to what it was.
LEMMA FlipRestores ==
    ASSUME NEW prev, NEW curr
    PROVE  Changed(curr, Flip(Delta(prev, curr))) = prev
  <1>1. Changed(curr, Flip(Delta(prev, curr))) = (curr \cup (prev \ curr)) \ (curr \ prev)
    BY DEF Changed, Flip, Delta
  <1>2. (curr \cup (prev \ curr)) \ (curr \ prev) = prev OBVIOUS
  <1> QED BY <1>1, <1>2

\* The inverse of what a fold changed takes the message back.
LEMMA InverseShows ==
    ASSUME NEW s \in MessageFoldState, NEW after \in MessageFoldState
    PROVE  ApplyAssertion(after, [kind |-> "applyDiff",
                                  diff |-> InverseOf(FromBeforeAfter(s, after))]) = s
  <1> DEFINE d == InverseOf(FromBeforeAfter(s, after))
             a == [kind |-> "applyDiff", diff |-> d]
  <1>1. after # Absent /\ s = [keywords |-> s.keywords, mailboxes |-> s.mailboxes]
    BY DEF MessageFoldState, Absent
  <1>2. /\ d.keywords = Flip(Delta(s.keywords, after.keywords))
        /\ d.mailboxes = Flip(Delta(s.mailboxes, after.mailboxes))
    BY DEF InverseOf, FromBeforeAfter
  <1>3. a.kind = "applyDiff" /\ a.diff = d OBVIOUS
  <1> HIDE DEF d, a
  <1>4. ApplyAssertion(after, a) = [keywords |-> Changed(after.keywords, d.keywords),
                                    mailboxes |-> Changed(after.mailboxes, d.mailboxes)]
    BY <1>1, <1>3 DEF ApplyAssertion
  <1>5. /\ Changed(after.keywords, d.keywords) = s.keywords
        /\ Changed(after.mailboxes, d.mailboxes) = s.mailboxes
    BY <1>2, FlipRestores
  <1>6. ApplyAssertion(after, a) = s BY <1>1, <1>4, <1>5
  <1> QED BY <1>6 DEF a, d

\* Coalescing is invisible and the inverse of what a sequence changed restores
\* the message, for sequences of any length over any keywords and mailboxes
\* (coalesce_message_assertions, from_before_after and inverse of fold.rs).
THEOREM AlgebraHolds == ReplicaSpec => []AssertionAlgebra
  <1>1. ReplicaSpec => []ReplicaInv
    BY ReplicaInvInit, ReplicaInvStep, PTL DEF ReplicaSpec
  <1>2. ReplicaInv => AssertionAlgebra
    <2> SUFFICES ASSUME ReplicaInv PROVE CoalesceIsInvisible /\ InverseRestores
      BY DEF AssertionAlgebra
    <2>1. trial \in Seq(MessageAssertion) BY DEF ReplicaInv, ReplicaTypes
    <2>2. CoalesceIsInvisible BY <2>1, CoalesceShows DEF CoalesceIsInvisible
    <2>3. InverseRestores
      <3> SUFFICES ASSUME NEW s \in MessageFoldState, ReplayMessage(s, trial) # Absent
                   PROVE  ApplyAssertion(ReplayMessage(s, trial),
                            [kind |-> "applyDiff",
                             diff |-> InverseOf(FromBeforeAfter(s, ReplayMessage(s, trial)))]) = s
        BY DEF InverseRestores
      <3>1. s \in States BY DEF States
      <3>2. ReplayMessage(s, trial) \in States BY <2>1, <3>1, ReplayType DEF ReplayMessage
      <3>3. ReplayMessage(s, trial) \in MessageFoldState BY <3>2 DEF States
      <3> QED BY <3>3, InverseShows
    <2> QED BY <2>2, <2>3
  <1> QED BY <1>1, <1>2, PTL
=============================================================================
