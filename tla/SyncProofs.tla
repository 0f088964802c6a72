----------------------------- MODULE SyncProofs -----------------------------
(***************************************************************************)
(* What an account shows of its provider, and the work it does on its own  *)
(* mail in the background, for every value of the bounds.                  *)
(***************************************************************************)
EXTENDS PushStream, OAuth, SyncTrigger, Automation, FiniteSetTheorems, SequenceTheorems,
        WellFoundedInduction, TLAPS

-----------------------------------------------------------------------------
(***************************************************************************)
(* The push stream.  Parking needs the link between the two counters and   *)
(* the opens they count: while the stream is closed the permanent streak   *)
(* is the length of the run of refusals, of the current rung, that the     *)
(* history begins with.                                                    *)
(***************************************************************************)
Outcomes == {"opened", "refused", "failed"}

PushTypes ==
    /\ ladder \in Ladders /\ rung \in 1 .. Len(ladder)
    /\ fails \in Nat /\ permanents \in Nat
    /\ link \in {"none", "closed", "greeting", "up", "parked"}
    /\ happened \in Nat /\ seen \in Nat
    /\ pushShown \in {"reconnecting", "connected", "unsupported", "disabled"}
    /\ attempts \in Seq((1 .. 2) \X Outcomes) /\ Len(attempts) <= TerminalAttempts

PushFlags == alive \in BOOLEAN /\ note \in BOOLEAN /\ curtailed \in BOOLEAN

StreakIsRefusals ==
    /\ link = "none" => permanents = 0
    /\ link = "closed" =>
         \A i \in 1 .. TerminalAttempts : i <= permanents =>
             i <= Len(attempts) /\ attempts[i] = <<rung, "refused">>

PushInv == PushTypes /\ PushFlags /\ StreakIsRefusals /\ PushIsTrue

\* A ladder has one rung or two.
LEMMA LaddersAreShort ==
    \A l \in Ladders : /\ Len(l) \in {1, 2} /\ 1 \in 1 .. Len(l)
                       /\ \A r \in 1 .. Len(l) : r \in 1 .. 2
  <1>1. Len(<<"ws", "sse">>) = 2 /\ Len(<<"sse">>) = 1 OBVIOUS
  <1>2. \A l \in Ladders : Len(l) \in {1, 2} BY <1>1 DEF Ladders
  <1>3. ASSUME NEW n \in {1, 2} PROVE 1 \in 1 .. n /\ \A r \in 1 .. n : r \in 1 .. 2 BY <1>3
  <1> QED BY <1>2, <1>3, Zenon

\* An open is remembered in front of the ones before it, of which the oldest goes.
LEMMA RememberShifts ==
    ASSUME PushTypes, NEW outcome \in Outcomes, Remember(outcome)
    PROVE  /\ attempts' \in Seq((1 .. 2) \X Outcomes) /\ Len(attempts') <= TerminalAttempts
           /\ Len(attempts') >= 1 /\ attempts'[1] = <<rung, outcome>>
           /\ \A i \in 1 .. Len(attempts) :
                i + 1 <= TerminalAttempts => i + 1 <= Len(attempts')
                                          /\ attempts'[i + 1] = attempts[i]
  <1> DEFINE n == IF Len(attempts) < TerminalAttempts THEN Len(attempts) + 1 ELSE TerminalAttempts
             open == <<rung, outcome>>
             all == <<open>> \o attempts
             S == (1 .. 2) \X Outcomes
  <1>0. rung \in 1 .. 2 BY LaddersAreShort, Zenon DEF PushTypes
  <1>1. open \in S BY <1>0
  <1>2. attempts \in Seq(S) /\ Len(attempts) \in Nat /\ TerminalAttempts \in Nat \ {0}
    BY PushAssumption DEF PushTypes
  <1> HIDE DEF S, open
  <1>3. /\ all \in Seq(S) /\ Len(all) = Len(attempts) + 1
        /\ \A i \in 1 .. Len(all) : all[i] = IF i = 1 THEN open ELSE attempts[i - 1]
    BY <1>1, <1>2
  <1>4. n \in 1 .. Len(all) /\ n <= TerminalAttempts /\ Len(attempts) <= TerminalAttempts
    BY <1>2, <1>3 DEF PushTypes
  <1>5. attempts' = SubSeq(all, 1, n) BY DEF Remember, open
  <1> HIDE DEF all
  <1>6. /\ attempts' \in Seq(S) /\ Len(attempts') = n
        /\ \A i \in 1 .. n : attempts'[i] = all[i]
    BY <1>3, <1>4, <1>5
  <1>7. attempts'[1] = open BY <1>3, <1>4, <1>6
  <1>8. ASSUME NEW i \in 1 .. Len(attempts), i + 1 <= TerminalAttempts
        PROVE  i + 1 <= Len(attempts') /\ attempts'[i + 1] = attempts[i]
    <2>1. i + 1 <= n BY <1>2, <1>8
    <2> QED BY <2>1, <1>3, <1>4, <1>6
  <1> QED BY <1>4, <1>6, <1>7, <1>8 DEF S, open

\* The tail of the loop after a failure: what Retreat may leave behind.
LEMMA RetreatTypes ==
    ASSUME PushTypes, NEW f \in Nat, NEW p \in Nat, NEW shown, Retreat(f, p, shown),
           shown \in {"reconnecting", "connected", "unsupported", "disabled"},
           shown # "connected"
    PROVE  /\ rung' \in 1 .. Len(ladder) /\ fails' \in Nat /\ permanents' \in Nat
           /\ link' \in {"closed", "parked"}
           /\ pushShown' \in {"reconnecting", "unsupported", "disabled"}
           /\ link' = "parked" => LastRung /\ p >= TerminalAttempts /\ rung' = rung
           /\ link' = "closed" => (permanents' = 0) \/ (permanents' = p /\ rung' = rung)
  <1>1. Len(ladder) \in {1, 2} /\ rung \in 1 .. Len(ladder) BY LaddersAreShort, Zenon DEF PushTypes
  <1>2. rung' = rung \/ (Len(ladder) = 2 /\ rung' = 3 - rung) BY DEF Retreat
  <1>3. rung' \in 1 .. Len(ladder)
    <2> DEFINE n == Len(ladder)
    <2>1. n \in {1, 2} /\ rung \in 1 .. n /\ (rung' = rung \/ (n = 2 /\ rung' = 3 - rung))
      BY <1>1, <1>2
    <2> HIDE DEF n
    <2>2. rung' \in 1 .. n BY <2>1
    <2> QED BY <2>2 DEF n
  <1>4. fails' \in Nat /\ permanents' \in Nat BY PushAssumption DEF Retreat
  <1> QED BY <1>3, <1>4 DEF Retreat

\* The initial states satisfy the invariant.
LEMMA PushInvInit == PushInit => PushInv
  <1> SUFFICES ASSUME PushInit PROVE PushInv OBVIOUS
  <1> USE DEF PushInit
  <1>1. 1 \in 1 .. Len(ladder) BY LaddersAreShort, Zenon
  <1>2. PushTypes BY <1>1, PushAssumption DEF PushTypes
  <1>3. PushFlags BY Zenon DEF PushFlags
  <1>4. StreakIsRefusals BY DEF StreakIsRefusals
  <1>5. PushIsTrue BY DEF PushIsTrue, NoMissedWindow, ShownPushIsOpen, ParkedIsRefused
  <1> QED BY <1>2, <1>3, <1>4, <1>5 DEF PushInv

\* How a cycle ends.  Success reads everything; a cycle that is cut off says so;
\* failure takes the stream down with its streak.
LEMMA CycleEnds ==
    ASSUME PushInv, NEW open \in {"closed", "up", "parked"}, TriggeredCycle(open)
    PROVE  /\ rung' \in 1 .. Len(ladder) /\ fails' \in Nat /\ permanents' \in Nat
           /\ seen' \in Nat /\ curtailed' \in BOOLEAN
           /\ pushShown' \in {"reconnecting", "connected", "unsupported", "disabled"}
           /\ pushShown' = "connected" => link' = open /\ pushShown = "connected"
           /\ link' \in {open, "none"}
           /\ attempts' \in Seq((1 .. 2) \X Outcomes) /\ Len(attempts') <= TerminalAttempts
           /\ link' = open =>
                 /\ seen' = happened \/ curtailed' = TRUE
                 /\ UNCHANGED <<rung, fails, permanents, attempts>>
           /\ link' # open => permanents' = 0
  <1> USE DEF PushInv
  <1>1. PushTypes BY Zenon
  <1>4. 1 \in 1 .. Len(ladder)
    BY LaddersAreShort, Zenon DEF PushTypes
  <1>5. TerminalAttempts \in Nat BY PushAssumption
  <1>2. curtailed' \in BOOLEAN
    BY Zenon DEF TriggeredCycle, SyncSucceeds, SyncFails, SyncCutOff, PushFlags
  <1>3. CASE SyncSucceeds(open, pushShown) \/ SyncCutOff(open, pushShown)
    BY <1>1, <1>2, <1>3, <1>4, <1>5, SMT DEF SyncSucceeds, SyncCutOff, PushTypes, ladderVars
  <1>6. CASE SyncFails(pushShown)
    <2>1. <<>> \in Seq((1 .. 2) \X Outcomes) /\ Len(<<>>) = 0 OBVIOUS
    <2> QED BY <2>1, <1>1, <1>2, <1>6, <1>4, <1>5, SMT DEF SyncFails, PushTypes
  <1> QED BY <1>3, <1>6 DEF TriggeredCycle

\* A cycle whose link ends as link' and which leaves socket and notification with it.
LEMMA CycleKeeps ==
    ASSUME PushInv, NEW open \in {"closed", "up", "parked"}, TriggeredCycle(open),
           \/ link = open /\ link # "none"
           \/ link = "none" /\ open = "closed"
           \/ link = "greeting" /\ open = "up",
           alive' \in BOOLEAN, note' \in BOOLEAN, UNCHANGED <<ladder, happened>>
    PROVE  PushInv'
  <1>1. PushTypes'
    BY CycleEnds DEF PushInv, PushTypes
  <1>2. PushFlags'
    <2>1. curtailed' \in BOOLEAN BY CycleEnds, Zenon
    <2> QED BY <2>1, Zenon DEF PushFlags
  <1>3. StreakIsRefusals'
    <2>1. link' = "none" => permanents' = 0 BY CycleEnds
    <2>2. CASE link' = "closed"
      <3>1. open = "closed" /\ UNCHANGED <<rung, permanents, attempts>> /\ link \in {"none", "closed"}
        BY <2>2, CycleEnds
      <3>2. PushTypes /\ StreakIsRefusals BY Zenon DEF PushInv
      <3> QED BY <3>1, <3>2, <2>2, PushAssumption DEF StreakIsRefusals, PushTypes
    <2> QED BY <2>1, <2>2 DEF StreakIsRefusals
  <1>4. NoMissedWindow' BY CycleEnds, Zenon DEF NoMissedWindow
  <1>5. ShownPushIsOpen'
    <2>1. pushShown' = "connected" => link \in {"greeting", "up"} /\ link' = open
      BY CycleEnds DEF PushInv, PushIsTrue, ShownPushIsOpen
    <2> QED BY <2>1 DEF ShownPushIsOpen
  <1>6. ParkedIsRefused'
    <2>1. link' = "parked" => open = "parked" /\ link = "parked" /\ UNCHANGED attempts BY CycleEnds
    <2> QED BY <2>1 DEF PushInv, PushIsTrue, ParkedIsRefused
  <1> QED BY <1>1, <1>2, <1>3, <1>4, <1>5, <1>6 DEF PushInv, PushIsTrue

\* A failure after which the stream reopens or parks.
LEMMA RetreatKeeps ==
    ASSUME PushInv, NEW f \in Nat, NEW p \in Nat, NEW shown, Retreat(f, p, shown),
           shown \in {"reconnecting", "connected", "unsupported", "disabled"},
           shown # "connected",
           alive' \in BOOLEAN, note' \in BOOLEAN, UNCHANGED <<ladder, happened, seen, curtailed>>,
           attempts' \in Seq((1 .. 2) \X Outcomes), Len(attempts') <= TerminalAttempts,
           \A i \in 1 .. TerminalAttempts :
               i <= p => i <= Len(attempts') /\ attempts'[i] = <<rung, "refused">>
    PROVE  PushInv'
  <1>0. PushTypes /\ PushFlags BY Zenon DEF PushInv
  <1>1. PushTypes' BY <1>0, RetreatTypes DEF PushTypes
  <1>2. PushFlags' BY <1>0, Zenon DEF PushFlags
  <1>3. link' \in {"closed", "parked"} /\ pushShown' # "connected" BY <1>0, RetreatTypes
  <1>4. StreakIsRefusals'
    <2>1. CASE link' = "closed"
      <3>1. (permanents' = 0) \/ (permanents' = p /\ rung' = rung) BY <2>1, <1>0, RetreatTypes
      <3> QED BY <3>1, <2>1, PushAssumption DEF StreakIsRefusals
    <2> QED BY <2>1, <1>3 DEF StreakIsRefusals
  <1>5. NoMissedWindow' /\ ShownPushIsOpen' BY <1>3 DEF NoMissedWindow, ShownPushIsOpen
  <1>6. ParkedIsRefused'
    <2>1. CASE link' = "parked"
      <3>1. rung = Len(ladder) /\ p >= TerminalAttempts BY <2>1, <1>0, RetreatTypes DEF LastRung
      <3>2. \A i \in 1 .. TerminalAttempts : i <= p BY <3>1, PushAssumption
      <3>3. \A i \in 1 .. TerminalAttempts :
               i <= Len(attempts') /\ attempts'[i] = <<rung, "refused">>
        BY <3>2
      <3>4. TerminalAttempts \in 1 .. TerminalAttempts BY PushAssumption
      <3>5. Len(attempts') = TerminalAttempts BY <3>3, <3>4, PushAssumption
      <3>6. DOMAIN attempts' = 1 .. TerminalAttempts BY <3>5
      <3> QED BY <3>1, <3>3, <3>5, <3>6 DEF ParkedIsRefused
    <2> QED BY <2>1 DEF ParkedIsRefused
  <1> QED BY <1>1, <1>2, <1>4, <1>5, <1>6 DEF PushInv, PushIsTrue

\* The steps that end in a cycle.
LEMMA PushCyclesKeep == ASSUME PushInv, PollCycle \/ CatchUp \/ Notified PROVE PushInv'
  <1>0. alive \in BOOLEAN /\ note \in BOOLEAN /\ PushTypes BY Zenon DEF PushInv, PushFlags
  <1>1. alive' \in BOOLEAN /\ note' \in BOOLEAN /\ UNCHANGED <<ladder, happened>>
    BY <1>0, Zenon DEF PollCycle, CatchUp, Notified
  <1>2. CASE PollCycle
    <2>1. CASE link = "none" BY <2>1, <1>1, <1>2, CycleKeeps DEF PollCycle
    <2>2. CASE link # "none"
      <3>1. link \in {"up", "closed", "parked"} /\ TriggeredCycle(link) BY <1>2, <2>2 DEF PollCycle
      <3> QED BY <3>1, <1>1, CycleKeeps
    <2> QED BY <2>1, <2>2
  <1>3. CASE CatchUp BY <1>1, <1>3, CycleKeeps DEF CatchUp
  <1>4. CASE Notified BY <1>1, <1>4, CycleKeeps DEF Notified
  <1> QED BY <1>2, <1>3, <1>4

\* The steps of the stream that leave it closed or parked.
LEMMA PushFailuresKeep ==
    ASSUME PushInv,
           StreamEnds \/ OpenUnsupported \/ OpenFails(TRUE) \/ OpenFails(FALSE)
    PROVE  PushInv'
  <1>0. /\ alive \in BOOLEAN /\ note \in BOOLEAN /\ PushTypes /\ StreakIsRefusals
        /\ fails \in Nat /\ permanents \in Nat /\ TerminalAttempts \in Nat \ {0}
    BY PushAssumption, Zenon DEF PushInv, PushFlags, PushTypes
  <1>1. /\ alive' \in BOOLEAN /\ note' \in BOOLEAN
        /\ UNCHANGED <<ladder, happened, seen, curtailed>>
    BY <1>0, Zenon DEF StreamEnds, OpenUnsupported, OpenFails
  <1>2. CASE StreamEnds
    <2>1. PICK healthy \in BOOLEAN : Retreat((IF healthy THEN 0 ELSE fails) + 1, 0, "reconnecting")
      BY <1>2, Zenon DEF StreamEnds
    <2>2. (IF healthy THEN 0 ELSE fails) + 1 \in Nat BY <1>0
    <2>3. attempts' \in Seq((1 .. 2) \X Outcomes) /\ Len(attempts') <= TerminalAttempts
      BY <1>0, <1>2 DEF StreamEnds, PushTypes
    <2>4. \A i \in 1 .. TerminalAttempts :
             i <= 0 => i <= Len(attempts') /\ attempts'[i] = <<rung, "refused">>
      BY <1>0
    <2>5. PICK f \in Nat : Retreat(f, 0, "reconnecting") BY <2>1, <2>2, Zenon
    <2>6. 0 \in Nat OBVIOUS
    <2> QED BY <1>1, <2>3, <2>4, <2>5, <2>6, RetreatKeeps
  <1>3. ASSUME link = "closed", NEW shown \in {"reconnecting", pushShown},
               Retreat(fails + 1, permanents + 1, shown), Remember("refused")
        PROVE  PushInv'
    <2>1. pushShown # "connected" BY <1>3 DEF PushInv, PushIsTrue, ShownPushIsOpen
    <2>2. /\ attempts' \in Seq((1 .. 2) \X Outcomes) /\ Len(attempts') <= TerminalAttempts
          /\ Len(attempts') >= 1 /\ attempts'[1] = <<rung, "refused">>
          /\ \A i \in 1 .. Len(attempts) :
                i + 1 <= TerminalAttempts => i + 1 <= Len(attempts')
                                          /\ attempts'[i + 1] = attempts[i]
      BY <1>0, <1>3, RememberShifts DEF Outcomes
    <2>3. ASSUME NEW i \in 1 .. TerminalAttempts, i <= permanents + 1
          PROVE  i <= Len(attempts') /\ attempts'[i] = <<rung, "refused">>
      <3>1. CASE i = 1 BY <3>1, <2>2
      <3>2. CASE i # 1
        <4>1. i - 1 \in 1 .. TerminalAttempts /\ i - 1 <= permanents BY <3>2, <2>3, <1>0
        <4>2. i - 1 <= Len(attempts) /\ attempts[i - 1] = <<rung, "refused">>
          BY <4>1, <1>0, <1>3 DEF StreakIsRefusals
        <4>3. i - 1 \in 1 .. Len(attempts) /\ (i - 1) + 1 = i /\ i <= TerminalAttempts
          BY <4>1, <4>2, <1>0 DEF PushTypes
        <4> QED BY <4>2, <4>3, <2>2
      <3> QED BY <3>1, <3>2
    <2>4. /\ fails + 1 \in Nat /\ permanents + 1 \in Nat /\ shown # "connected"
          /\ shown \in {"reconnecting", "connected", "unsupported", "disabled"}
      BY <1>0, <1>3, <2>1 DEF PushTypes
    <2> QED BY <1>1, <1>3, <2>2, <2>3, <2>4, RetreatKeeps
  <1>4. CASE OpenUnsupported BY <1>3, <1>4 DEF OpenUnsupported
  <1>5. CASE OpenFails(TRUE) BY <1>3, <1>5 DEF OpenFails
  <1>6. CASE OpenFails(FALSE)
    <2>1. Retreat(fails + 1, 0, "reconnecting") /\ Remember("failed") BY <1>6 DEF OpenFails
    <2>2. attempts' \in Seq((1 .. 2) \X Outcomes) /\ Len(attempts') <= TerminalAttempts
      BY <1>0, <2>1, RememberShifts DEF Outcomes
    <2>3. fails + 1 \in Nat /\ 0 \in Nat BY <1>0
    <2>4. \A i \in 1 .. TerminalAttempts :
             i <= 0 => i <= Len(attempts') /\ attempts'[i] = <<rung, "refused">>
      BY <1>0
    <2> QED BY <1>1, <2>1, <2>2, <2>3, <2>4, RetreatKeeps
  <1> QED BY <1>2, <1>4, <1>5, <1>6

\* A change at the provider, a socket that dies, and a stream that opens.
LEMMA PushSocketKeeps ==
    ASSUME PushInv, ProviderChanges \/ GoesSilent \/ OpenStream PROVE PushInv'
  <1>0. PushTypes /\ PushFlags /\ StreakIsRefusals /\ PushIsTrue BY Zenon DEF PushInv
  <1>1. CASE ProviderChanges
    <2>1. PushTypes' /\ StreakIsRefusals'
      BY <1>0, <1>1 DEF PushTypes, StreakIsRefusals, ProviderChanges, ladderVars
    <2>2. PushFlags' BY <1>0, <1>1, Zenon DEF PushFlags, ProviderChanges
    <2>3. NoMissedWindow'
      <3>1. link' = "up" /\ alive' => note' BY <1>1, Zenon DEF ProviderChanges
      <3> QED BY <3>1, Zenon DEF NoMissedWindow
    <2>4. ShownPushIsOpen' /\ ParkedIsRefused'
      BY <1>0, <1>1 DEF ProviderChanges, PushIsTrue, ShownPushIsOpen, ParkedIsRefused
    <2> QED BY <2>1, <2>2, <2>3, <2>4 DEF PushInv, PushIsTrue
  <1>2. CASE GoesSilent
    <2>1. PushTypes' /\ StreakIsRefusals'
      BY <1>0, <1>2 DEF PushTypes, StreakIsRefusals, GoesSilent, ladderVars
    <2>2. PushFlags' BY <1>0, <1>2, Zenon DEF PushFlags, GoesSilent
    <2>3. NoMissedWindow' BY <1>2, Zenon DEF NoMissedWindow, GoesSilent
    <2>4. ShownPushIsOpen' /\ ParkedIsRefused'
      BY <1>0, <1>2 DEF GoesSilent, PushIsTrue, ShownPushIsOpen, ParkedIsRefused
    <2> QED BY <2>1, <2>2, <2>3, <2>4 DEF PushInv, PushIsTrue
  <1>3. CASE OpenStream
    <2>1. attempts' \in Seq((1 .. 2) \X Outcomes) /\ Len(attempts') <= TerminalAttempts
      BY <1>0, <1>3, RememberShifts DEF Outcomes, OpenStream
    <2>2. /\ link' = "greeting" /\ pushShown' = "connected"
          /\ UNCHANGED <<ladder, rung, fails, permanents, happened, seen>>
      BY <1>3 DEF OpenStream, ladderVars
    <2>3. PushTypes' BY <1>0, <2>1, <2>2 DEF PushTypes
    <2>4. PushFlags' BY <1>0, <1>3, Zenon DEF PushFlags, OpenStream
    <2>5. StreakIsRefusals' /\ PushIsTrue'
      BY <2>2 DEF StreakIsRefusals, PushIsTrue, NoMissedWindow, ShownPushIsOpen, ParkedIsRefused
    <2> QED BY <2>3, <2>4, <2>5 DEF PushInv
  <1> QED BY <1>1, <1>2, <1>3

\* Every step keeps the invariant.
LEMMA PushInvStep == PushInv /\ [PushNext]_pushVars => PushInv'
  <1> SUFFICES ASSUME PushInv, [PushNext]_pushVars PROVE PushInv' OBVIOUS
  <1>1. CASE UNCHANGED pushVars
    <2>1. PushTypes' /\ StreakIsRefusals' /\ ShownPushIsOpen' /\ ParkedIsRefused'
      BY <1>1 DEF PushInv, PushTypes, StreakIsRefusals, PushIsTrue, ShownPushIsOpen,
                  ParkedIsRefused, pushVars
    <2>2. PushFlags' /\ NoMissedWindow'
      BY <1>1, Zenon DEF PushInv, PushFlags, PushIsTrue, NoMissedWindow, pushVars
    <2> QED BY <2>1, <2>2 DEF PushInv, PushIsTrue
  <1>2. CASE PushNext
    BY <1>2, PushCyclesKeep, PushFailuresKeep, PushSocketKeeps DEF PushNext
  <1> QED BY <1>1, <1>2

\* Push is what the account shows, for any thresholds: nothing that happens at
\* the provider is missed while the stream is up, "connected" means open, and a
\* parked stream was refused as often as the code asks (resilient_push_stream,
\* handle_push_event, mark_sync_failure).
THEOREM PushStaysTrue == PushSpec => []PushIsTrue
  <1>1. PushInv => PushIsTrue BY DEF PushInv
  <1> QED BY <1>1, PushInvInit, PushInvStep, PTL DEF PushSpec

-----------------------------------------------------------------------------
(***************************************************************************)
(* Refreshing a token.  In one process at most one resolver is past its    *)
(* read.  What it holds tells where the live grant is: in the store, in    *)
(* the set it read, or in the set it rotated.                              *)
(***************************************************************************)
TokenSets == [grant : Nat, access : Nat]
Stages == {"idle", "exchange", "compare", "write"}

RefreshTypes ==
    /\ resolving \in [Resolvers -> Stages]
    /\ readSet \in [Resolvers -> TokenSets] /\ rotatedSet \in [Resolvers -> TokenSets]
    /\ storedSet \in TokenSets /\ issued \in Nat /\ liveGrants \subseteq Nat
    /\ \A r \in Resolvers : readSet[r].grant <= issued /\ rotatedSet[r].grant <= issued
    /\ storedSet.grant <= issued

OneFlight == \A r, q \in Resolvers : resolving[r] # "idle" /\ resolving[q] # "idle" => r = q

GrantWhereabouts ==
    /\ (\A r \in Resolvers : resolving[r] \notin {"compare", "write"}) => storedSet.grant \in liveGrants
    /\ \A r \in Resolvers :
         /\ resolving[r] = "exchange" =>
               /\ readSet[r].grant \in liveGrants
               /\ storedSet = readSet[r] \/ storedSet.grant # readSet[r].grant
         /\ resolving[r] = "compare" =>
               /\ rotatedSet[r].grant \in liveGrants
               /\ storedSet = readSet[r] \/ storedSet.grant \in liveGrants
         /\ resolving[r] = "write" => rotatedSet[r].grant \in liveGrants

RefreshFlags == together \in BOOLEAN /\ mishap \in BOOLEAN /\ refused \in BOOLEAN

GrantInv == /\ RefreshTypes /\ RefreshFlags
            /\ together => OneFlight
            /\ (together /\ ~mishap) => (GrantWhereabouts /\ ~refused)

\* The initial states satisfy the invariant.
LEMMA GrantInvInit == OAuthInit => GrantInv
  <1> SUFFICES ASSUME OAuthInit PROVE GrantInv OBVIOUS
  <1> USE DEF OAuthInit
  <1>1. RefreshTypes BY DEF RefreshTypes, TokenSets, Stages, NoSet
  <1>2. OneFlight /\ GrantWhereabouts BY DEF OneFlight, GrantWhereabouts
  <1>3. ~refused /\ RefreshFlags BY Zenon DEF RefreshFlags
  <1> QED BY <1>1, <1>2, <1>3, Zenon DEF GrantInv

\* Within a process only one resolver is past its read.
LEMMA FlightsExclude ==
    ASSUME RefreshTypes, OneFlight, together, NEW r \in Resolvers,
           ReadStored(r) \/ Exchange(r) \/ ExchangeRefused(r) \/ ExchangeLost(r)
               \/ CompareStored(r) \/ WriteStored(r) \/ ResolverDies(r)
    PROVE  OneFlight'
  <1>1. CASE ReadStored(r)
    <2>1. \A q \in Resolvers \ {r} : resolving[q] = "idle" BY <1>1, Zenon DEF ReadStored, FlightFree
    <2> QED BY <1>1, <2>1 DEF OneFlight, ReadStored, RefreshTypes
  <1>2. CASE ~ReadStored(r)
    <2>1. \A q \in Resolvers : resolving'[q] # "idle" => resolving[q] # "idle"
      BY <1>2 DEF RefreshTypes, Exchange, ExchangeRefused, ExchangeLost, CompareStored, WriteStored,
                  ResolverDies
    <2> QED BY <2>1 DEF OneFlight
  <1> QED BY <1>1, <1>2

\* What the provider's answer leaves: one more set issued, with a grant not above it.
LEMMA AnswerTypes ==
    ASSUME RefreshTypes, NEW r \in Resolvers, NEW replied, ProviderAnswers(r, replied)
    PROVE  /\ issued' = issued + 1 /\ issued' \in Nat /\ liveGrants' \subseteq Nat
           /\ TokenSetFromResponse(replied, readSet[r].grant) \in TokenSets
           /\ TokenSetFromResponse(replied, readSet[r].grant).grant <= issued'
  <1>1. issued \in Nat /\ issued' = issued + 1 /\ replied \in {0, issued + 1} /\ liveGrants \subseteq Nat
    BY DEF ProviderAnswers, RefreshTypes
  <1>2. readSet[r].grant \in Nat /\ readSet[r].grant <= issued BY DEF RefreshTypes, TokenSets
  <1>3. liveGrants' \subseteq Nat BY <1>1 DEF ProviderAnswers
  <1>4. (IF replied = 0 THEN readSet[r].grant ELSE replied) \in Nat BY <1>1, <1>2
  <1>5. (IF replied = 0 THEN readSet[r].grant ELSE replied) <= issued + 1 BY <1>1, <1>2
  <1> QED BY <1>1, <1>3, <1>4, <1>5 DEF TokenSetFromResponse, TokenSets

\* A step on one resolver with what it reads or rotates, and with more issued.
LEMMA ResolverStepTypes ==
    ASSUME RefreshTypes, NEW r \in Resolvers, NEW stage \in Stages,
           resolving' = [resolving EXCEPT ![r] = stage],
           issued' \in Nat, issued' >= issued, liveGrants' \subseteq Nat,
           \/ readSet' = readSet
           \/ readSet' = [readSet EXCEPT ![r] = storedSet],
           \/ rotatedSet' = rotatedSet
           \/ \E new \in TokenSets : new.grant <= issued' /\ rotatedSet' = [rotatedSet EXCEPT ![r] = new],
           storedSet' \in {storedSet, rotatedSet[r]}
    PROVE  RefreshTypes'
  <1>1. issued \in Nat /\ \A q \in Resolvers : readSet[q].grant \in Nat /\ rotatedSet[q].grant \in Nat
    BY DEF RefreshTypes, TokenSets
  <1>2. /\ readSet' \in [Resolvers -> TokenSets]
        /\ \A q \in Resolvers : readSet'[q] \in {readSet[q], storedSet}
    BY DEF RefreshTypes
  <1>3. storedSet.grant \in Nat BY DEF RefreshTypes, TokenSets
  <1>4. \A q \in Resolvers : readSet'[q].grant <= issued'
    <2> TAKE q \in Resolvers
    <2>1. readSet[q].grant <= issued /\ storedSet.grant <= issued BY DEF RefreshTypes
    <2>2. readSet[q].grant <= issued' /\ storedSet.grant <= issued' BY <1>1, <1>3, <2>1
    <2> QED BY <1>2, <2>2
  <1>5. rotatedSet' \in [Resolvers -> TokenSets] BY DEF RefreshTypes
  <1>6. \A q \in Resolvers : rotatedSet'[q].grant <= issued'
    <2> TAKE q \in Resolvers
    <2>1. rotatedSet[q].grant <= issued' BY <1>1 DEF RefreshTypes
    <2> QED BY <2>1 DEF RefreshTypes
  <1>7. storedSet' \in TokenSets /\ storedSet'.grant <= issued'
    <2>1. storedSet.grant <= issued' /\ rotatedSet[r].grant <= issued' BY <1>1, <1>3 DEF RefreshTypes
    <2> QED BY <2>1 DEF RefreshTypes
  <1>8. resolving' \in [Resolvers -> Stages] BY DEF RefreshTypes
  <1> QED BY <1>2, <1>4, <1>5, <1>6, <1>7, <1>8 DEF RefreshTypes

\* The types, step by step.
LEMMA RefreshTypesKeep == ASSUME RefreshTypes, RefreshNext PROVE RefreshTypes'
  <1>1. issued \in Nat /\ issued >= issued /\ liveGrants \subseteq Nat BY DEF RefreshTypes
  <1>2. ASSUME NEW r \in Resolvers, ReadStored(r) PROVE RefreshTypes'
    BY <1>1, <1>2, ResolverStepTypes DEF ReadStored, Stages
  <1>3. ASSUME NEW r \in Resolvers, Exchange(r) PROVE RefreshTypes'
    <2>1. PICK replied : /\ ProviderAnswers(r, replied)
                         /\ rotatedSet' = [rotatedSet EXCEPT ![r] =
                                               TokenSetFromResponse(replied, readSet[r].grant)]
      BY <1>3 DEF Exchange
    <2> DEFINE new == TokenSetFromResponse(replied, readSet[r].grant)
    <2>2. /\ issued' = issued + 1 /\ liveGrants' \subseteq Nat /\ issued' \in Nat
          /\ new \in TokenSets /\ new.grant <= issued'
      BY <2>1, AnswerTypes
    <2>3. rotatedSet' = [rotatedSet EXCEPT ![r] = new] BY <2>1
    <2> HIDE DEF new
    <2>4. issued' >= issued BY <1>1, <2>2
    <2>5. /\ resolving' = [resolving EXCEPT ![r] = "compare"] /\ "compare" \in Stages
          /\ readSet' = readSet /\ storedSet' = storedSet
      BY <1>3 DEF Exchange, Stages
    <2> QED BY <2>2, <2>3, <2>4, <2>5, ResolverStepTypes
  <1>4. ASSUME NEW r \in Resolvers, ExchangeLost(r) PROVE RefreshTypes'
    <2>1. issued' \in Nat /\ issued' >= issued /\ liveGrants' \subseteq Nat
      <3>1. CASE UNCHANGED <<liveGrants, issued>> BY <3>1, <1>1
      <3>2. ASSUME NEW replied, ProviderAnswers(r, replied)
            PROVE issued' \in Nat /\ issued' >= issued /\ liveGrants' \subseteq Nat
        BY <3>2, <1>1, AnswerTypes
      <3> QED BY <3>1, <3>2, <1>4 DEF ExchangeLost
    <2>2. /\ resolving' = [resolving EXCEPT ![r] = "idle"] /\ "idle" \in Stages
          /\ readSet' = readSet /\ rotatedSet' = rotatedSet /\ storedSet' = storedSet
      BY <1>4 DEF ExchangeLost, Stages
    <2> QED BY <2>1, <2>2, ResolverStepTypes
  <1>5. ASSUME NEW r \in Resolvers,
               ExchangeRefused(r) \/ CompareStored(r) \/ WriteStored(r) \/ ResolverDies(r)
        PROVE  RefreshTypes'
    <2>1. PICK stage \in Stages : resolving' = [resolving EXCEPT ![r] = stage]
      BY <1>5 DEF ExchangeRefused, CompareStored, WriteStored, ResolverDies, Stages
    <2>2. /\ UNCHANGED <<issued, liveGrants, readSet, rotatedSet>>
          /\ storedSet' \in {storedSet, rotatedSet[r]}
      BY <1>5 DEF ExchangeRefused, CompareStored, WriteStored, ResolverDies
    <2> QED BY <1>1, <2>1, <2>2, ResolverStepTypes
  <1>6. CASE SecretReplaced
    <2>1. /\ issued' = issued + 1 /\ liveGrants' = liveGrants \cup {issued + 1}
          /\ storedSet' = [grant |-> issued + 1, access |-> issued + 1]
          /\ UNCHANGED <<resolving, readSet, rotatedSet>>
      BY <1>6 DEF SecretReplaced
    <2>2. storedSet' \in TokenSets /\ storedSet'.grant = issued + 1 BY <1>1, <2>1 DEF TokenSets
    <2>3. \A r \in Resolvers : readSet[r].grant <= issued + 1 /\ rotatedSet[r].grant <= issued + 1
      BY <1>1 DEF RefreshTypes, TokenSets
    <2> QED BY <1>1, <2>1, <2>2, <2>3 DEF RefreshTypes
  <1>7. CASE AccessExpires BY <1>7 DEF AccessExpires, RefreshTypes
  <1> QED BY <1>2, <1>3, <1>4, <1>5, <1>6, <1>7 DEF RefreshNext

\* A step of one resolver leaves the grant where it can be found.
LEMMA WhereaboutsKeep ==
    ASSUME RefreshTypes, OneFlight, together, mishap' = FALSE, mishap = FALSE,
           GrantWhereabouts, RefreshNext
    PROVE  GrantWhereabouts'
  <1>1. ASSUME NEW r \in Resolvers, NEW q \in Resolvers, q # r, resolving[r] # "idle"
        PROVE  resolving[q] = "idle"
    BY <1>1 DEF OneFlight
  <1>2. ASSUME NEW r \in Resolvers, ReadStored(r) PROVE GrantWhereabouts'
    <2>1. \A q \in Resolvers : resolving[q] = "idle" BY <1>2, Zenon DEF ReadStored, FlightFree
    <2> QED BY <1>2, <2>1 DEF ReadStored, GrantWhereabouts, RefreshTypes
  <1>3. ASSUME NEW r \in Resolvers, Exchange(r) PROVE GrantWhereabouts'
    <2>1. PICK replied \in {0, issued + 1} :
              /\ ProviderAnswers(r, replied)
              /\ rotatedSet' = [rotatedSet EXCEPT ![r] = TokenSetFromResponse(replied, readSet[r].grant)]
      BY <1>3 DEF Exchange
    <2>2. /\ resolving[r] = "exchange" /\ resolving' = [resolving EXCEPT ![r] = "compare"]
          /\ UNCHANGED <<readSet, storedSet>>
      BY <1>3 DEF Exchange
    <2>3. \A q \in Resolvers : q # r => resolving[q] = "idle" BY <1>1, <2>2
    <2>4. /\ readSet[r].grant \in liveGrants /\ storedSet.grant \in liveGrants
          /\ storedSet = readSet[r] \/ storedSet.grant # readSet[r].grant
      BY <2>2, <2>3 DEF GrantWhereabouts
    <2>5. rotatedSet'[r] = TokenSetFromResponse(replied, readSet[r].grant) BY <2>1 DEF RefreshTypes
    <2>6. rotatedSet'[r].grant \in liveGrants'
      BY <2>1, <2>4, <2>5 DEF TokenSetFromResponse, ProviderAnswers
    <2>7. storedSet = readSet[r] \/ storedSet.grant \in liveGrants'
      BY <2>1, <2>4 DEF ProviderAnswers
    <2> QED BY <2>2, <2>3, <2>6, <2>7 DEF GrantWhereabouts, RefreshTypes
  <1>4. ASSUME NEW r \in Resolvers, ExchangeLost(r) PROVE GrantWhereabouts'
    <2>1. /\ resolving[r] = "exchange" /\ resolving' = [resolving EXCEPT ![r] = "idle"]
          /\ UNCHANGED <<readSet, rotatedSet, storedSet>>
      BY <1>4 DEF ExchangeLost
    <2>2. \A q \in Resolvers : q # r => resolving[q] = "idle" BY <1>1, <2>1
    <2>3. UNCHANGED liveGrants
      <3>1. ASSUME NEW replied \in {0, issued + 1}, ProviderAnswers(r, replied),
                   mishap' = (mishap \/ replied # 0)
            PROVE  UNCHANGED liveGrants
        <4>1. replied = 0 BY <3>1, Zenon
        <4> QED BY <3>1, <4>1 DEF ProviderAnswers
      <3> QED BY <3>1, <1>4, Zenon DEF ExchangeLost
    <2> QED BY <2>1, <2>2, <2>3 DEF GrantWhereabouts, RefreshTypes
  <1>5. ASSUME NEW r \in Resolvers, ExchangeRefused(r) \/ CompareStored(r) \/ WriteStored(r)
        PROVE  GrantWhereabouts'
    <2>1. \A q \in Resolvers : q # r => resolving[q] = "idle"
      BY <1>1, <1>5 DEF ExchangeRefused, CompareStored, WriteStored
    <2>2. CASE ExchangeRefused(r)
      BY <2>1, <2>2 DEF ExchangeRefused, GrantWhereabouts, RefreshTypes
    <2>3. CASE CompareStored(r)
      BY <2>1, <2>3 DEF CompareStored, GrantWhereabouts, RefreshTypes
    <2>4. CASE WriteStored(r)
      BY <2>1, <2>4 DEF WriteStored, GrantWhereabouts, RefreshTypes
    <2> QED BY <1>5, <2>2, <2>3, <2>4
  <1>6. ASSUME NEW r \in Resolvers, ResolverDies(r) PROVE FALSE
    BY <1>6, Zenon DEF ResolverDies
  <1>7. CASE SecretReplaced
    <2>1. /\ storedSet'.grant = issued + 1 /\ liveGrants' = liveGrants \cup {issued + 1}
          /\ UNCHANGED <<resolving, readSet, rotatedSet>>
      BY <1>7 DEF SecretReplaced
    <2>2. \A r \in Resolvers : readSet[r].grant # issued + 1
      BY DEF RefreshTypes, TokenSets
    <2> QED BY <2>1, <2>2 DEF GrantWhereabouts
  <1>8. CASE AccessExpires BY <1>8 DEF AccessExpires, GrantWhereabouts
  <1> QED BY <1>2, <1>3, <1>4, <1>5, <1>6, <1>7, <1>8 DEF RefreshNext

\* Nothing undoes a mishap, and a refusal needs a consumed grant.
LEMMA MishapStays ==
    ASSUME RefreshNext, GrantInv
    PROVE  /\ RefreshFlags' /\ together' = together
           /\ (together /\ ~mishap') => (mishap = FALSE /\ mishap' = FALSE /\ ~refused')
  <1> DEFINE Kept == /\ mishap' \in BOOLEAN /\ refused' \in BOOLEAN /\ together' = together
                     /\ mishap => mishap'
                     /\ (together /\ ~mishap /\ refused') => refused
  <1>0. together \in BOOLEAN /\ mishap \in BOOLEAN /\ refused \in BOOLEAN
    BY Zenon DEF GrantInv, RefreshFlags
  <1>1. ASSUME NEW r \in Resolvers,
               ReadStored(r) \/ Exchange(r) \/ CompareStored(r) \/ WriteStored(r) \/ ResolverDies(r)
        PROVE  Kept
    <2>1. /\ mishap' = mishap \/ mishap' = TRUE
          /\ UNCHANGED <<refused, together>>
      BY <1>1 DEF ReadStored, Exchange, CompareStored, WriteStored, ResolverDies
    <2> QED BY <1>0, <2>1, Zenon
  <1>2. ASSUME NEW r \in Resolvers, ExchangeLost(r) PROVE Kept
    <2>1. mishap' = mishap \/ \E replied \in {0, issued + 1} : mishap' = (mishap \/ replied # 0)
      BY <1>2, Zenon DEF ExchangeLost
    <2>2. UNCHANGED <<refused, together>> BY <1>2, Zenon DEF ExchangeLost
    <2> QED BY <1>0, <2>1, <2>2, Zenon
  <1>3. ASSUME NEW r \in Resolvers, ExchangeRefused(r) PROVE Kept
    <2>1. ~(together /\ ~mishap)
      <3>1. resolving[r] = "exchange" /\ readSet[r].grant \notin liveGrants
        BY <1>3, Zenon DEF ExchangeRefused
      <3>2. ~GrantWhereabouts BY <3>1 DEF GrantWhereabouts
      <3> QED BY <3>2, Zenon DEF GrantInv
    <2> QED BY <1>0, <1>3, <2>1, Zenon DEF ExchangeRefused
  <1>4. ASSUME SecretReplaced \/ AccessExpires PROVE Kept
    <2>1. UNCHANGED <<mishap, refused, together>> BY <1>4 DEF SecretReplaced, AccessExpires
    <2> QED BY <1>0, <2>1, Zenon
  <1>5. Kept BY <1>1, <1>2, <1>3, <1>4, Zenon DEF RefreshNext
  <1> QED BY <1>0, <1>5, Zenon DEF GrantInv, RefreshFlags

\* Every step keeps the invariant.
LEMMA GrantInvStep == GrantInv /\ [OAuthNext]_oauthVars => GrantInv'
  <1> SUFFICES ASSUME GrantInv, [OAuthNext]_oauthVars PROVE GrantInv' OBVIOUS
  <1>1. CASE UNCHANGED refreshVars
    <2>1. RefreshTypes' BY <1>1 DEF GrantInv, RefreshTypes, refreshVars
    <2>2. (OneFlight => OneFlight') /\ (GrantWhereabouts => GrantWhereabouts')
      BY <1>1 DEF OneFlight, GrantWhereabouts, refreshVars
    <2>3. together' = together /\ mishap' = mishap /\ refused' = refused BY <1>1 DEF refreshVars
    <2>4. RefreshFlags' BY <2>3, Zenon DEF GrantInv, RefreshFlags
    <2>5. together' => OneFlight' BY <2>2, <2>3, Zenon DEF GrantInv
    <2>6. (together' /\ ~mishap') => (GrantWhereabouts' /\ ~refused') BY <2>2, <2>3, Zenon DEF GrantInv
    <2> QED BY <2>1, <2>4, <2>5, <2>6, Zenon DEF GrantInv
  <1>2. CASE RefreshNext
    <2>1. RefreshTypes' BY <1>2, RefreshTypesKeep, Zenon DEF GrantInv
    <2>2. /\ RefreshFlags' /\ together' = together
          /\ (together /\ ~mishap') => (mishap = FALSE /\ mishap' = FALSE /\ ~refused')
      BY <1>2, MishapStays
    <2>3. ASSUME together PROVE OneFlight'
      <3>1. RefreshTypes /\ OneFlight BY <2>3, Zenon DEF GrantInv
      <3>2. CASE SecretReplaced \/ AccessExpires BY <3>1, <3>2 DEF SecretReplaced, AccessExpires, OneFlight
      <3>3. CASE ~(SecretReplaced \/ AccessExpires)
        BY <2>3, <3>1, <3>3, <1>2, FlightsExclude, Zenon DEF RefreshNext
      <3> QED BY <3>2, <3>3
    <2>4. ASSUME together, ~mishap' PROVE GrantWhereabouts'
      <3>1. mishap = FALSE /\ mishap' = FALSE BY <2>2, <2>4, Zenon
      <3>2. RefreshTypes /\ OneFlight /\ GrantWhereabouts BY <2>4, <3>1, Zenon DEF GrantInv
      <3> QED BY <2>4, <3>1, <3>2, <1>2, WhereaboutsKeep, Zenon
    <2> QED BY <2>1, <2>2, <2>3, <2>4, Zenon DEF GrantInv
  <1> QED BY <1>1, <1>2 DEF OAuthNext, oauthVars, refreshVars

\* For any number of resolvers: within a process a refresh never costs the
\* account its grant, and nobody is told the grant is invalid while it is not
\* (resolve_secret with its flights, update_if_unchanged).
THEOREM GrantAlwaysHolds == OAuthSpec => []GrantHolds
  <1>1. GrantInv => GrantHolds
    <2> SUFFICES ASSUME GrantInv PROVE GrantHolds OBVIOUS
    <2>1. NoFalseRefusal BY Zenon DEF GrantInv, NoFalseRefusal
    <2>2. GrantKept
      <3> SUFFICES ASSUME together, ~mishap, \A r \in Resolvers : resolving[r] \notin {"compare", "write"}
                   PROVE  storedSet.grant \in liveGrants
        BY Zenon DEF GrantKept
      <3>1. GrantWhereabouts BY Zenon DEF GrantInv
      <3> QED BY <3>1 DEF GrantWhereabouts
    <2> QED BY <2>1, <2>2, Zenon DEF GrantHolds
  <1> QED BY <1>1, GrantInvInit, GrantInvStep, PTL DEF OAuthSpec

-----------------------------------------------------------------------------
(***************************************************************************)
(* Signing in.  A flow that is still pending was never completed, and one  *)
(* that is missing without having been taken was dropped for its age or    *)
(* for the cap: the flows younger than it fill the numbers up to the last  *)
(* one begun.                                                              *)
(***************************************************************************)
FlowStages == {"none", "unknown", "verify", "retry", "accepted", "rejected"}

FlowTypes ==
    /\ begun \in Nat /\ agedFlows \in Nat /\ pendingFlows \subseteq 1 .. begun
    /\ flowStage \in [FlowIds -> FlowStages] /\ exchanges \in [FlowIds -> Nat]
    /\ tokenKey \in [FlowIds -> Nat] /\ signingKey \in {1, 2}

Gone(f) == f <= agedFlows \/ begun - f >= FLOW_CAP - 1

PendingIsUnused == \A f \in FlowIds : (f \in pendingFlows \/ f > begun) =>
                        exchanges[f] = 0 /\ flowStage[f] = "none"

MissingIsGone == \A f \in FlowIds :
    (f <= begun /\ f \notin pendingFlows /\ flowStage[f] \in {"none", "unknown"}) => Gone(f)

KeyIsPublished == \A f \in FlowIds :
    flowStage[f] \in {"verify", "retry"} => tokenKey[f] \in 1 .. signingKey

FreshKeysExist == keysFresh \in BOOLEAN /\ (keysFresh => cachedKeys # {})

FlowInv == /\ FlowTypes /\ PendingIsUnused /\ MissingIsGone /\ FlowOnce /\ KeyIsPublished
           /\ FreshKeysExist /\ KeyRotationTolerated

\* The initial states satisfy the invariant.
LEMMA FlowInvInit == OAuthInit => FlowInv
  <1> SUFFICES ASSUME OAuthInit PROVE FlowInv OBVIOUS
  <1> USE OAuthAssumption DEF OAuthInit
  <1>1. FlowTypes BY DEF FlowTypes, FlowStages
  <1>2. PendingIsUnused /\ MissingIsGone /\ FlowOnce /\ KeyIsPublished /\ KeyRotationTolerated
    BY DEF PendingIsUnused, MissingIsGone, FlowOnce, KeyIsPublished, KeyRotationTolerated
  <1>3. FreshKeysExist BY Zenon DEF FreshKeysExist
  <1> QED BY <1>1, <1>2, <1>3 DEF FlowInv

\* What prune_flows drops is old, or has FLOW_CAP - 1 newer flows.
LEMMA PrunedIsGone ==
    ASSUME FlowTypes
    PROVE  /\ PruneFlows(pendingFlows) \subseteq pendingFlows
           /\ \A f \in pendingFlows \ PruneFlows(pendingFlows) : Gone(f)
  <1> DEFINE young == {f \in pendingFlows : f > agedFlows}
  <1>1. PruneFlows(pendingFlows) = IF Cardinality(young) >= FLOW_CAP
                                   THEN {f \in young : \E g \in young : g < f} ELSE young
    BY DEF PruneFlows
  <1>2. PruneFlows(pendingFlows) \subseteq pendingFlows BY <1>1
  <1>3. ASSUME NEW f \in pendingFlows, f \notin PruneFlows(pendingFlows) PROVE Gone(f)
    <2>1. /\ f \in 1 .. begun /\ begun \in Nat /\ agedFlows \in Nat /\ FLOW_CAP \in Nat
          /\ pendingFlows \subseteq 1 .. begun
      BY OAuthAssumption DEF FlowTypes
    <2>2. CASE f \notin young BY <2>1, <2>2 DEF Gone
    <2>3. CASE f \in young
      <3>1. Cardinality(young) >= FLOW_CAP /\ \A g \in young : ~(g < f) BY <1>1, <1>3, <2>3
      <3>2. young \in SUBSET (f .. begun)
        <4>1. \A g \in young : g \in 1 .. begun /\ ~(g < f) BY <3>1, <2>1
        <4>2. \A g \in 1 .. begun : ~(g < f) => g \in f .. begun BY <2>1
        <4> QED BY <4>1, <4>2
      <3>3. IsFiniteSet(f .. begun) /\ Cardinality(f .. begun) = begun - f + 1 BY <2>1, FS_Interval
      <3>4. IsFiniteSet(young) /\ Cardinality(young) <= begun - f + 1 BY <3>2, <3>3, FS_Subset
      <3>5. Cardinality(young) \in Nat BY <3>4, FS_CardinalityType
      <3> HIDE DEF young
      <3> QED BY <3>1, <3>4, <3>5, <2>1 DEF Gone
    <2> QED BY <2>2, <2>3
  <1> QED BY <1>2, <1>3

\* A flow begins.
LEMMA StartFlowKeeps == ASSUME FlowInv, StartFlow PROVE FlowInv'
  <1>0. FlowTypes /\ PendingIsUnused /\ MissingIsGone /\ FlowOnce /\ KeyIsPublished
    BY Zenon DEF FlowInv
  <1>1. /\ begun' = begun + 1 /\ begun + 1 \in FlowIds
        /\ pendingFlows' = PruneFlows(pendingFlows) \cup {begun + 1}
        /\ UNCHANGED <<agedFlows, flowStage, exchanges, tokenKey, goodClaims, signingKey>>
    BY DEF StartFlow
  <1>2. begun \in Nat /\ FLOW_CAP \in Nat /\ FlowIds \subseteq Nat \ {0} BY <1>0, OAuthAssumption DEF FlowTypes
  <1>3. FlowTypes'
    <2>1. pendingFlows' \subseteq 1 .. begun'
      <3>1. PruneFlows(pendingFlows) \subseteq 1 .. begun BY <1>0, PrunedIsGone DEF FlowTypes
      <3>2. \A g \in 1 .. begun : g \in 1 .. begun' BY <1>1, <1>2
      <3>3. begun + 1 \in 1 .. begun' BY <1>1, <1>2
      <3> QED BY <1>1, <3>1, <3>2, <3>3
    <2> QED BY <1>0, <1>1, <1>2, <2>1 DEF FlowTypes
  <1>4. \A f \in FlowIds : Gone(f) => Gone(f)'
    BY <1>0, <1>1, <1>2 DEF Gone, FlowTypes
  <1>5. PendingIsUnused'
    <2> SUFFICES ASSUME NEW f \in FlowIds, f \in pendingFlows' \/ f > begun'
                 PROVE  exchanges[f] = 0 /\ flowStage[f] = "none"
      BY <1>1 DEF PendingIsUnused
    <2>1. f \in pendingFlows \/ f > begun BY <1>0, <1>1, <1>2, PrunedIsGone
    <2> QED BY <2>1, <1>0 DEF PendingIsUnused
  <1>6. MissingIsGone'
    <2> SUFFICES ASSUME NEW f \in FlowIds, f <= begun', f \notin pendingFlows',
                        flowStage[f] \in {"none", "unknown"}
                 PROVE  Gone(f)
      BY <1>1, <1>4 DEF MissingIsGone
    <2>1. f <= begun BY <1>1, <1>2
    <2>2. CASE f \in pendingFlows BY <2>2, <1>0, <1>1, PrunedIsGone
    <2>3. CASE f \notin pendingFlows BY <2>1, <2>3, <1>0 DEF MissingIsGone
    <2> QED BY <2>2, <2>3
  <1>7. FlowOnce' /\ KeyIsPublished' BY <1>0, <1>1 DEF FlowOnce, KeyIsPublished
  <1>8. KeyRotationTolerated' BY DEF FlowInv, KeyRotationTolerated, StartFlow
  <1>9. FreshKeysExist'
    <2>1. keysFresh' = keysFresh /\ cachedKeys' = cachedKeys BY DEF StartFlow
    <2> QED BY <2>1, Zenon DEF FlowInv, FreshKeysExist
  <1> QED BY <1>3, <1>5, <1>6, <1>7, <1>8, <1>9 DEF FlowInv

\* A flow is completed: found or not, nothing else is lost by it.
LEMMA CompleteFlowKeeps == ASSUME FlowInv, NEW f \in FlowIds, CompleteFlow(f) PROVE FlowInv'
  <1>0. FlowTypes /\ PendingIsUnused /\ MissingIsGone /\ FlowOnce /\ KeyIsPublished
    BY Zenon DEF FlowInv
  <1> DEFINE flows == PruneFlows(pendingFlows)
  <1>1. /\ f <= begun /\ pendingFlows' = flows \ {f}
        /\ UNCHANGED <<begun, agedFlows, signingKey, unfetched>>
    BY DEF CompleteFlow, FlowTaken
  <1>2. begun \in Nat /\ FlowIds \subseteq Nat \ {0} BY <1>0, OAuthAssumption DEF FlowTypes
  <1>3. flows \subseteq pendingFlows /\ \A g \in pendingFlows \ flows : Gone(g) BY <1>0, PrunedIsGone
  <1>4. \A g \in FlowIds : Gone(g)' <=> Gone(g) BY <1>1 DEF Gone
  <1>7. FreshKeysExist'
    <2>1. keysFresh' = keysFresh /\ cachedKeys' = cachedKeys BY DEF CompleteFlow
    <2> QED BY <2>1, Zenon DEF FlowInv, FreshKeysExist
  <1>5. CASE f \in flows
    <2>1. /\ exchanges' = [exchanges EXCEPT ![f] = @ + 1]
          /\ flowStage' = [flowStage EXCEPT ![f] = "verify"]
          /\ tokenKey' = [tokenKey EXCEPT ![f] = signingKey]
          /\ goodClaims' \in {goodClaims, goodClaims \cup {f}}
      BY <1>5 DEF CompleteFlow
    <2> HIDE DEF flows
    <2>2. exchanges[f] = 0 BY <1>3, <1>5, <1>0 DEF PendingIsUnused
    <2>3. FlowTypes'
      <3>1. pendingFlows' \subseteq 1 .. begun' BY <1>0, <1>1, <1>3 DEF FlowTypes
      <3>2. exchanges' \in [FlowIds -> Nat] /\ tokenKey' \in [FlowIds -> Nat] BY <1>0, <2>1 DEF FlowTypes
      <3>3. flowStage' \in [FlowIds -> FlowStages] BY <1>0, <2>1 DEF FlowTypes, FlowStages
      <3> QED BY <1>0, <1>1, <3>1, <3>2, <3>3 DEF FlowTypes
    <2>4. PendingIsUnused' BY <1>0, <1>1, <1>2, <1>3, <2>1 DEF PendingIsUnused, FlowTypes
    <2>5. MissingIsGone'
      <3> SUFFICES ASSUME NEW g \in FlowIds, g <= begun, g \notin pendingFlows',
                          flowStage'[g] \in {"none", "unknown"}
                   PROVE  Gone(g)
        BY <1>1, <1>4 DEF MissingIsGone
      <3>1. g # f /\ flowStage[g] \in {"none", "unknown"} BY <2>1, <1>0 DEF FlowTypes
      <3>2. g \notin flows BY <3>1, <1>1
      <3> QED BY <3>1, <3>2, <1>0, <1>3 DEF MissingIsGone
    <2>6. FlowOnce' BY <1>0, <2>1, <2>2 DEF FlowOnce, FlowTypes
    <2>7. KeyIsPublished' BY <1>0, <1>1, <2>1 DEF KeyIsPublished, FlowTypes
    <2>8. KeyRotationTolerated' BY <1>0, <1>1, <2>1 DEF FlowInv, KeyRotationTolerated, FlowTypes
    <2> QED BY <1>7, <2>3, <2>4, <2>5, <2>6, <2>7, <2>8 DEF FlowInv
  <1>6. CASE f \notin flows
    <2>1. /\ exchanges' = [exchanges EXCEPT ![f] = @ + 0]
          /\ flowStage' = [flowStage EXCEPT ![f] = IF @ = "none" THEN "unknown" ELSE @]
          /\ tokenKey' = tokenKey /\ goodClaims' = goodClaims
      BY <1>6 DEF CompleteFlow
    <2> HIDE DEF flows
    <2>2. exchanges' = exchanges BY <2>1, <1>0 DEF FlowTypes
    <2>3. FlowTypes' BY <1>0, <1>1, <1>3, <2>1, <2>2 DEF FlowTypes, FlowStages
    <2>4. PendingIsUnused' BY <1>0, <1>1, <1>2, <1>3, <2>1, <2>2 DEF PendingIsUnused, FlowTypes
    <2>5. MissingIsGone'
      <3> SUFFICES ASSUME NEW g \in FlowIds, g <= begun, g \notin pendingFlows',
                          flowStage'[g] \in {"none", "unknown"}
                   PROVE  Gone(g)
        BY <1>1, <1>4 DEF MissingIsGone
      <3>1. flowStage[g] \in {"none", "unknown"} BY <2>1, <1>0 DEF FlowTypes
      <3>2. g \notin flows BY <1>1, <1>6
      <3> QED BY <3>1, <3>2, <1>0, <1>3 DEF MissingIsGone
    <2>6. FlowOnce' BY <1>0, <2>2 DEF FlowOnce
    <2>7. KeyIsPublished' BY <1>0, <1>1, <2>1 DEF KeyIsPublished, FlowTypes
    <2>8. KeyRotationTolerated' BY <1>0, <1>1, <2>1 DEF FlowInv, KeyRotationTolerated, FlowTypes
    <2> QED BY <1>7, <2>3, <2>4, <2>5, <2>6, <2>7, <2>8 DEF FlowInv
  <1> QED BY <1>5, <1>6

\* The keys a lookup leaves: usable, or the flow met a failed fetch.
LEMMA JwksAreUsable ==
    ASSUME FlowInv, NEW f \in FlowIds, NEW force \in BOOLEAN, NEW fetched \in BOOLEAN,
           JwksFor(f, force, fetched), UNCHANGED signingKey
    PROVE  /\ FreshKeysExist'
           /\ unfetched \subseteq unfetched'
           /\ f \notin unfetched' => cachedKeys' # {}
           /\ force /\ f \notin unfetched' => cachedKeys' = 1 .. signingKey
  <1>0. keysFresh \in BOOLEAN /\ (keysFresh => cachedKeys # {}) BY Zenon DEF FlowInv, FreshKeysExist
  <1>1. 1 .. signingKey # {}
    <2>1. signingKey \in {1, 2} BY DEF FlowInv, FlowTypes
    <2> QED BY <2>1
  <1>2. CASE ~force /\ keysFresh
    <2>1. cachedKeys' = cachedKeys /\ keysFresh' = keysFresh /\ unfetched' = unfetched
      BY <1>2, Zenon DEF JwksFor
    <2> QED BY <1>0, <1>2, <2>1, Zenon DEF FreshKeysExist
  <1>3. CASE ~(~force /\ keysFresh) /\ fetched
    <2>1. cachedKeys' = 1 .. signingKey /\ keysFresh' = TRUE /\ unfetched' = unfetched
      BY <1>3, Zenon DEF JwksFor
    <2> QED BY <1>1, <2>1, Zenon DEF FreshKeysExist
  <1>4. CASE ~(~force /\ keysFresh) /\ ~fetched
    <2>1. cachedKeys' = cachedKeys /\ keysFresh' = keysFresh /\ unfetched' = unfetched \cup {f}
      BY <1>4, Zenon DEF JwksFor
    <2> QED BY <1>0, <2>1, Zenon DEF FreshKeysExist
  <1> QED BY <1>2, <1>3, <1>4, Zenon

\* The identity is checked, at once or with fresh keys.
LEMMA IdentityKeeps ==
    ASSUME FlowInv, NEW f \in FlowIds, VerifyIdentity(f) \/ RetryIdentity(f) PROVE FlowInv'
  <1>0. /\ FlowTypes /\ PendingIsUnused /\ MissingIsGone /\ FlowOnce /\ KeyIsPublished
        /\ KeyRotationTolerated
    BY Zenon DEF FlowInv
  <1>1. UNCHANGED <<pendingFlows, begun, agedFlows, exchanges, tokenKey, goodClaims, signingKey>>
    BY DEF VerifyIdentity, RetryIdentity
  <1>2. PICK stage \in {"retry", "accepted", "rejected"} :
            /\ flowStage[f] \in {"verify", "retry"}
            /\ flowStage' = [flowStage EXCEPT ![f] = stage]
            /\ FreshKeysExist' /\ unfetched \subseteq unfetched'
            /\ stage = "rejected" => f \in unfetched' \/ f \notin goodClaims
    <2>1. ASSUME VerifyIdentity(f)
          PROVE  \E stage \in {"retry", "accepted", "rejected"} :
                    /\ flowStage[f] \in {"verify", "retry"}
                    /\ flowStage' = [flowStage EXCEPT ![f] = stage]
                    /\ FreshKeysExist' /\ unfetched \subseteq unfetched'
                    /\ stage = "rejected" => f \in unfetched' \/ f \notin goodClaims
      <3>1. PICK fetched \in BOOLEAN : JwksFor(f, FALSE, fetched) BY <2>1, Zenon DEF VerifyIdentity
      <3>2. /\ FreshKeysExist' /\ unfetched \subseteq unfetched'
            /\ f \notin unfetched' => cachedKeys' # {}
        BY <1>1, <3>1, JwksAreUsable
      <3>3. flowStage[f] = "verify" /\ flowStage' = [flowStage EXCEPT ![f] = AfterFirstLookup(f, cachedKeys')]
        BY <2>1 DEF VerifyIdentity
      <3>4. /\ AfterFirstLookup(f, cachedKeys') \in {"retry", "accepted", "rejected"}
            /\ AfterFirstLookup(f, cachedKeys') = "rejected" => cachedKeys' = {} \/ f \notin goodClaims
        BY DEF AfterFirstLookup, IdentityAccepted
      <3> QED BY <3>2, <3>3, <3>4
    <2>2. ASSUME RetryIdentity(f)
          PROVE  \E stage \in {"retry", "accepted", "rejected"} :
                    /\ flowStage[f] \in {"verify", "retry"}
                    /\ flowStage' = [flowStage EXCEPT ![f] = stage]
                    /\ FreshKeysExist' /\ unfetched \subseteq unfetched'
                    /\ stage = "rejected" => f \in unfetched' \/ f \notin goodClaims
      <3> DEFINE last == IF tokenKey[f] \in cachedKeys' /\ IdentityAccepted(f) THEN "accepted"
                         ELSE "rejected"
      <3>1. PICK fetched \in BOOLEAN : JwksFor(f, TRUE, fetched) BY <2>2, Zenon DEF RetryIdentity
      <3>2. /\ FreshKeysExist' /\ unfetched \subseteq unfetched'
            /\ f \notin unfetched' => cachedKeys' = 1 .. signingKey
        BY <1>1, <3>1, JwksAreUsable
      <3>3. flowStage[f] = "retry" /\ flowStage' = [flowStage EXCEPT ![f] = last]
        BY <2>2 DEF RetryIdentity
      <3>4. tokenKey[f] \in 1 .. signingKey BY <3>3, <1>0 DEF KeyIsPublished
      <3>5. /\ last \in {"retry", "accepted", "rejected"}
            /\ last = "rejected" => f \in unfetched' \/ f \notin goodClaims
        BY <3>2, <3>4 DEF IdentityAccepted
      <3> QED BY <3>2, <3>3, <3>5
    <2> QED BY <2>1, <2>2
  <1>3. f \notin pendingFlows /\ ~(f > begun) BY <1>0, <1>2 DEF PendingIsUnused
  <1>4. FlowTypes' BY <1>0, <1>1, <1>2 DEF FlowTypes, FlowStages
  <1>5. PendingIsUnused' BY <1>0, <1>1, <1>2, <1>3 DEF PendingIsUnused, FlowTypes
  <1>6. MissingIsGone' BY <1>0, <1>1, <1>2 DEF MissingIsGone, FlowTypes, Gone
  <1>7. FlowOnce' BY <1>0, <1>1 DEF FlowOnce
  <1>8. KeyIsPublished' BY <1>0, <1>1, <1>2 DEF KeyIsPublished, FlowTypes
  <1>9. KeyRotationTolerated' BY <1>0, <1>1, <1>2 DEF KeyRotationTolerated, FlowTypes
  <1> QED BY <1>2, <1>4, <1>5, <1>6, <1>7, <1>8, <1>9 DEF FlowInv

\* Time passes: a flow ages, the provider's key changes, the cached keys expire.
LEMMA FlowTimeKeeps == ASSUME FlowInv, FlowAges \/ KeyRotates \/ KeysExpire PROVE FlowInv'
  <1>0. FlowTypes /\ PendingIsUnused /\ MissingIsGone /\ FlowOnce /\ KeyIsPublished
    BY Zenon DEF FlowInv
  <1>1. /\ UNCHANGED <<pendingFlows, begun, flowStage, exchanges, tokenKey, goodClaims, cachedKeys,
                        unfetched>>
        /\ agedFlows' \in {agedFlows, agedFlows + 1} /\ signingKey' \in {signingKey, 2}
    BY DEF FlowAges, KeyRotates, KeysExpire
  <1>2. FlowIds \subseteq Nat BY OAuthAssumption
  <1>3. FlowTypes' BY <1>0, <1>1 DEF FlowTypes
  <1>4. PendingIsUnused' /\ FlowOnce' BY <1>0, <1>1 DEF PendingIsUnused, FlowOnce
  <1>5. \A f \in FlowIds : Gone(f) => Gone(f)' BY <1>0, <1>1, <1>2 DEF Gone, FlowTypes
  <1>6. MissingIsGone' BY <1>0, <1>1, <1>5 DEF MissingIsGone
  <1>7. KeyIsPublished' BY <1>0, <1>1 DEF KeyIsPublished, FlowTypes
  <1>8. KeyRotationTolerated' BY <1>1 DEF FlowInv, KeyRotationTolerated
  <1>9. FreshKeysExist'
    <2>1. keysFresh' = keysFresh \/ keysFresh' = FALSE BY DEF FlowAges, KeyRotates, KeysExpire
    <2>2. cachedKeys' = cachedKeys BY <1>1
    <2>3. FreshKeysExist BY DEF FlowInv
    <2>4. CASE keysFresh' = keysFresh BY <2>2, <2>3, <2>4, Zenon DEF FreshKeysExist
    <2>5. CASE keysFresh' = FALSE BY <2>5, Zenon DEF FreshKeysExist
    <2> QED BY <2>1, <2>4, <2>5
  <1> QED BY <1>3, <1>4, <1>6, <1>7, <1>8, <1>9 DEF FlowInv

\* Every step keeps the invariant.
LEMMA FlowInvStep == FlowInv /\ [OAuthNext]_oauthVars => FlowInv'
  <1> SUFFICES ASSUME FlowInv, [OAuthNext]_oauthVars PROVE FlowInv' OBVIOUS
  <1>1. CASE UNCHANGED flowVars
    <2>1. FlowTypes' /\ PendingIsUnused' /\ MissingIsGone' /\ FlowOnce' /\ KeyIsPublished'
              /\ KeyRotationTolerated'
      BY <1>1 DEF FlowInv, FlowTypes, PendingIsUnused, MissingIsGone, Gone, FlowOnce,
                  KeyIsPublished, KeyRotationTolerated, flowVars
    <2>2. keysFresh' = keysFresh /\ cachedKeys' = cachedKeys BY <1>1 DEF flowVars
    <2>3. FreshKeysExist' BY <2>2, Zenon DEF FlowInv, FreshKeysExist
    <2> QED BY <2>1, <2>3 DEF FlowInv
  <1>2. CASE FlowNext
    BY <1>2, StartFlowKeeps, FlowTimeKeeps, CompleteFlowKeeps, IdentityKeeps, Zenon DEF FlowNext
  <1> QED BY <1>1, <1>2 DEF OAuthNext, oauthVars, flowVars

\* For any number of flows and any cap: a code is exchanged once, a flow is
\* turned away only for its age or for newer ones, and a rotated signing key
\* costs no good identity (prune_flows, complete_flow, verified_identity_email).
THEOREM SignInAlwaysHolds == OAuthSpec => []SignInHolds
  <1>1. FlowInv => SignInHolds
    <2> SUFFICES ASSUME FlowInv PROVE SignInHolds OBVIOUS
    <2>1. FlowKept
      <3> SUFFICES ASSUME NEW f \in FlowIds, flowStage[f] = "unknown" PROVE Gone(f)
        BY DEF FlowKept, Gone
      <3>1. f \notin pendingFlows /\ ~(f > begun) BY DEF FlowInv, PendingIsUnused
      <3>2. f <= begun BY <3>1, OAuthAssumption DEF FlowInv, FlowTypes
      <3> QED BY <3>1, <3>2 DEF FlowInv, MissingIsGone
    <2> QED BY <2>1, Zenon DEF FlowInv, SignInHolds
  <1> QED BY <1>1, FlowInvInit, FlowInvStep, PTL DEF OAuthSpec

-----------------------------------------------------------------------------
(***************************************************************************)
(* The channel's capacity and the coalescing of triggers, for every number *)
(* of callers and every bound.  OneOutstanding is not inductive: a claim   *)
(* adds a trigger, so it needs that a free coalescer has none (FreeIsIdle) *)
(* and the capacity that a dead channel is empty and its permits are of an *)
(* older incarnation (Channels).                                           *)
(***************************************************************************)
CallerState == [pc : {"idle", "reserved", "claimed", "waiting"}, inc : Nat]

TriggerTypes ==
    /\ queue \in Seq(Command) /\ inc \in Nat /\ serving \in Callers \cup {Nobody}
    /\ rpc \in {"starting", "begin", "cycle", "finish", "loop", "timedout"} \cup Down
    /\ restarts \in 0..MaxRestarts + 1
    /\ caller \in [Callers -> CallerState]
    /\ calls \in [Callers -> 0..MaxCalls]
    /\ faults \in 0..MaxFaults /\ timeouts \in 0..MaxTimeouts

TriggerFlags == /\ active \in BOOLEAN /\ pending \in BOOLEAN /\ crossed \in BOOLEAN
                /\ owed \subseteq Callers /\ lost \subseteq {"permit", "reset"}

Channels == /\ ~Open => queue = <<>>
            /\ \A c \in Callers : caller[c].inc <= inc
            /\ restarts = MaxRestarts + 1 => rpc = "halted"

Fits == Len(queue) + Cardinality(Holders(inc)) <= Capacity

ChannelInv == TriggerTypes /\ TriggerFlags /\ Channels /\ Fits

-----------------------------------------------------------------------------
\* Sets of callers are finite.
LEMMA CallersFinite ==
    ASSUME NEW S \in SUBSET Callers
    PROVE  IsFiniteSet(S) /\ Cardinality(S) \in Nat
  BY TriggerConstants, FS_Subset, FS_CardinalityType

\* The initial states satisfy the invariant.
LEMMA ChannelInvInit == Init => ChannelInv
  <1> SUFFICES ASSUME Init PROVE ChannelInv OBVIOUS
  <1>1. TriggerTypes BY TriggerConstants DEF Init, TriggerTypes, CallerState, Rest
  <1>2. TriggerFlags BY Zenon DEF Init, TriggerFlags
  <1>3. Channels BY TriggerConstants DEF Init, Channels, Rest, Open, Down
  <1>4. Holders(inc) = {} BY DEF Init, Holders, Rest
  <1>5. Cardinality(Holders(inc)) = 0 BY <1>4, FS_EmptySet
  <1>6. Len(queue) = 0 BY DEF Init
  <1>7. Fits BY <1>5, <1>6, TriggerConstants DEF Fits
  <1> QED BY <1>1, <1>2, <1>3, <1>7 DEF ChannelInv

\* Queues and callers keep their shape.
LEMMA QueueTyped ==
    ASSUME TriggerTypes, NEW m \in Command
    PROVE  Append(queue, m) \in Seq(Command)
  BY DEF TriggerTypes

\* A caller that rests or holds a claim is a caller.
LEMMA CallerTyped ==
    ASSUME TriggerTypes, NEW c \in Callers, NEW s \in CallerState
    PROVE  /\ [caller EXCEPT ![c] = s] \in [Callers -> CallerState]
           /\ Rest \in CallerState
           /\ [pc |-> "claimed", inc |-> caller[c].inc] \in CallerState
  BY DEF TriggerTypes, CallerState, Rest

\* The two outcomes of a claim, and of sending on a permit.
ClaimOutcome(c) ==
    /\ \/ active' = active /\ caller' = [caller EXCEPT ![c] = Rest]
       \/ /\ active = FALSE /\ active' = TRUE
          /\ caller' = [caller EXCEPT ![c] = [pc |-> "claimed", inc |-> caller[c].inc]]
    /\ caller[c].pc = "reserved"
    /\ UNCHANGED <<queue, inc, rpc, serving, restarts, crossed, calls, faults, timeouts>>

SendOutcome(c) ==
    /\ \/ /\ Open /\ caller[c].inc = inc
          /\ queue' = Append(queue, [who |-> c, manual |-> FALSE])
       \/ ~(Open /\ caller[c].inc = inc) /\ queue' = queue
    /\ caller[c].pc = "claimed" /\ caller' = [caller EXCEPT ![c] = Rest]
    /\ UNCHANGED <<active, inc, rpc, serving, restarts, crossed, calls, faults, timeouts>>

\* A claim and a send have no other outcome.
LEMMA ClaimCases ==
    ASSUME ChannelInv, NEW c \in Callers, ClaimOrCoalesce(c)
    PROVE  ClaimOutcome(c)
  <1>1. /\ \/ active' = active /\ caller' = [caller EXCEPT ![c] = Rest]
           \/ active = FALSE /\ active' = TRUE /\ caller' = [caller EXCEPT ![c].pc = "claimed"]
        /\ caller[c].pc = "reserved"
        /\ UNCHANGED <<queue, inc, rpc, serving, restarts, ghosts, bounds>>
    BY Zenon DEF ClaimOrCoalesce, ChannelInv, TriggerFlags
  <1>2. [caller[c] EXCEPT !.pc = "claimed"] = [pc |-> "claimed", inc |-> caller[c].inc]
    BY DEF ChannelInv, TriggerTypes, CallerState
  <1> QED BY <1>1, <1>2, Zenon DEF ghosts, bounds, ClaimOutcome

\* Of the callers a claim changes one, which keeps its permit or gives it up.
LEMMA ClaimMovesOne ==
    ASSUME ChannelInv, NEW c \in Callers, ClaimOutcome(c)
    PROVE  /\ \A d \in Callers \ {c} : caller'[d] = caller[d]
           /\ \/ caller'[c].pc = "idle" /\ caller'[c].inc = 0
              \/ caller'[c].pc = "claimed" /\ caller'[c].inc = caller[c].inc
  <1>0. caller \in [Callers -> CallerState] BY DEF ChannelInv, TriggerTypes
  <1>1. CASE caller' = [caller EXCEPT ![c] = Rest] BY <1>0, <1>1 DEF Rest
  <1>2. CASE caller' = [caller EXCEPT ![c] = [pc |-> "claimed", inc |-> caller[c].inc]]
    BY <1>0, <1>2
  <1> QED BY <1>1, <1>2, Zenon DEF ClaimOutcome

\* What a send of a claimed trigger does, by the state of the channel.
LEMMA SendCases ==
    ASSUME NEW c \in Callers, Send(c)
    PROVE  SendOutcome(c)
  BY Zenon DEF Send, coalescer, bounds, SendOutcome

\* Flags and sets of the history.
LEMMA FlagsKeep == ASSUME ChannelInv, [Next]_vars PROVE TriggerFlags'
  <1> USE DEF ChannelInv, TriggerFlags
  <1>1. CASE UNCHANGED vars BY <1>1, Zenon DEF vars, coalescer, ghosts
  <1>2. ASSUME NEW c \in Callers, Call(c) PROVE TriggerFlags'
    <2>1. CASE Reserve(c) \/ Request(c)
      BY <2>1, Zenon DEF Reserve, Request, coalescer, ghosts
    <2>2. CASE ClaimOrCoalesce(c) BY <2>2, Zenon DEF ClaimOrCoalesce, ghosts
    <2>3. CASE Send(c) BY <2>3, Zenon DEF Send, coalescer
    <2> QED BY <1>2, <2>1, <2>2, <2>3 DEF Call
  <1>3. CASE Runtime
    <2> DEFINE more == Outstanding > 0
    <2>0. more \in BOOLEAN OBVIOUS
    <2>1. CASE Boot BY <2>0, <2>1, Zenon DEF Boot
    <2>2. CASE Receive \/ BeginCycle \/ EndCycle
      BY <2>2, Zenon DEF Receive, BeginCycle, EndCycle, coalescer, ghosts
    <2>3. CASE FinishCycle
      <3>1. pending' \in BOOLEAN /\ active' \in BOOLEAN /\ crossed' \in {crossed, more}
        BY <2>3, Zenon DEF FinishCycle
      <3> QED BY <2>0, <2>3, <3>1, Zenon DEF FinishCycle
    <2>4. CASE RecordArmTimeout
      <3>1. lost' \in {lost, lost \cup {"reset"}} BY <2>4, Zenon DEF RecordArmTimeout
      <3>2. crossed' = more /\ active' = FALSE /\ pending' = FALSE /\ owed' = owed
        BY <2>4, Zenon DEF RecordArmTimeout
      <3> QED BY <2>0, <3>1, <3>2, Zenon
    <2> QED BY <1>3, <2>1, <2>2, <2>3, <2>4 DEF Runtime
  <1>4. CASE DirectCycle \/ ArmTimeout \/ Watchdog \/ Panic \/ Stop
    BY <1>4, Zenon DEF DirectCycle, ArmTimeout, Watchdog, Watch, Respawn, Panic, Stop, TaskGone,
                       coalescer, ghosts
  <1> QED BY <1>1, <1>2, <1>3, <1>4 DEF Next

\* Callers, queue, task and counters.
LEMMA TypesKeep == ASSUME ChannelInv, [Next]_vars PROVE TriggerTypes'
  <1>0. TriggerTypes BY DEF ChannelInv
  <1> USE TriggerConstants DEF ChannelInv, TriggerTypes, CallerState
  <1>1. CASE UNCHANGED vars BY <1>1 DEF vars, bounds
  <1>2. ASSUME NEW c \in Callers, Call(c) PROVE TriggerTypes'
    <2>1. CASE Reserve(c) BY <2>1 DEF Reserve
    <2>2. CASE Request(c) BY <2>2 DEF Request, Command
    <2>3. CASE ClaimOrCoalesce(c)
      <3>1. ClaimOutcome(c) BY <2>3, ClaimCases, Zenon
      <3>2. caller' \in [Callers -> CallerState]
        BY <3>1, CallerTyped, Zenon DEF ClaimOutcome
      <3> QED BY <3>1, <3>2 DEF ClaimOutcome
    <2>4. CASE Send(c)
      <3>1. SendOutcome(c) BY <2>4, SendCases, Zenon
      <3>2. caller' \in [Callers -> CallerState] BY <3>1, CallerTyped, Zenon DEF SendOutcome
      <3>3. [who |-> c, manual |-> FALSE] \in Command BY DEF Command
      <3>4. queue' \in Seq(Command) BY <3>1, <3>3, QueueTyped, Zenon DEF SendOutcome
      <3> QED BY <3>1, <3>2, <3>4 DEF SendOutcome
    <2> QED BY <1>2, <2>1, <2>2, <2>3, <2>4 DEF Call
  <1>3. CASE Runtime
    <2>1. CASE Boot \/ FinishCycle \/ RecordArmTimeout
      BY <2>1 DEF Boot, FinishCycle, RecordArmTimeout, bounds
    <2>2. CASE Receive
      <3>1. Head(queue) \in Command /\ Tail(queue) \in Seq(Command) BY <2>2 DEF Receive
      <3>2. serving' \in {Head(queue).who, Nobody} BY <2>2 DEF Receive
      <3>3. Head(queue).who \in Callers BY <3>1 DEF Command
      <3> QED BY <2>2, <3>1, <3>2, <3>3 DEF Receive, bounds
    <2>3. CASE BeginCycle BY <2>3 DEF BeginCycle, bounds
    <2>4. CASE EndCycle BY <2>4 DEF EndCycle, Answered, Rest, bounds
    <2> QED BY <1>3, <2>1, <2>2, <2>3, <2>4 DEF Runtime
  <1>4. CASE DirectCycle BY <1>4 DEF DirectCycle, bounds
  <1>5. CASE ArmTimeout BY <1>5 DEF ArmTimeout, Answered, Rest
  <1>6. CASE Watch BY <1>6 DEF Watch, Channels, Down, bounds
  <1>7. CASE Respawn BY <1>7 DEF Respawn, bounds
  <1>8. CASE Panic BY <1>8 DEF Panic, TaskGone, Answered, Rest, Down
  <1>9. CASE Stop BY <1>9 DEF Stop, TaskGone, Answered, Rest, Down, bounds
  <1> QED BY <1>1, <1>2, <1>3, <1>4, <1>5, <1>6, <1>7, <1>8, <1>9 DEF Next, Watchdog

\* A dead channel is empty, a permit is never of a channel to come.
LEMMA ChannelsKeep == ASSUME ChannelInv, [Next]_vars PROVE Channels'
  <1>0. ChannelInv OBVIOUS
  <1> USE TriggerConstants DEF ChannelInv, TriggerTypes, CallerState, Channels, Open, Down
  <1>1. CASE UNCHANGED vars BY <1>1 DEF vars
  <1>2. ASSUME NEW c \in Callers, Call(c) PROVE Channels'
    <2>1. CASE Reserve(c) BY <2>1 DEF Reserve
    <2>2. CASE Request(c) BY <2>2 DEF Request
    <2>3. CASE ClaimOrCoalesce(c)
      <3>1. ClaimOutcome(c) BY <2>3, ClaimCases, Zenon
      <3>2. UNCHANGED <<queue, rpc, inc, restarts>> BY <3>1, Zenon DEF ClaimOutcome
      <3>3. \A d \in Callers : caller'[d].inc = caller[d].inc \/ caller'[d].inc = 0
        BY <3>1, <1>0, ClaimMovesOne, Zenon
      <3>a. inc' = inc /\ inc >= 0 /\ \A d \in Callers : caller[d].inc <= inc BY <3>2
      <3>4. ASSUME NEW d \in Callers PROVE caller'[d].inc <= inc'
        <4>1. CASE caller'[d].inc = caller[d].inc BY <3>a, <4>1
        <4>2. CASE caller'[d].inc = 0 BY <3>a, <4>2
        <4> QED BY <3>3, <4>1, <4>2
      <3> QED BY <3>2, <3>4
    <2>4. CASE Send(c)
      <3>1. SendOutcome(c) BY <2>4, SendCases, Zenon
      <3>2. \A d \in Callers : caller'[d].inc <= inc' BY <3>1 DEF SendOutcome, Rest
      <3>3. /\ ~Open => queue' = queue
            /\ rpc' = rpc /\ restarts' = restarts
        BY <3>1, Zenon DEF SendOutcome
      <3> QED BY <3>2, <3>3
    <2> QED BY <1>2, <2>1, <2>2, <2>3, <2>4 DEF Call
  <1>3. CASE Runtime
    <2>1. CASE Boot \/ FinishCycle \/ RecordArmTimeout
      BY <2>1 DEF Boot, FinishCycle, RecordArmTimeout
    <2>2. CASE Receive BY <2>2 DEF Receive
    <2>3. CASE BeginCycle BY <2>3 DEF BeginCycle
    <2>4. CASE EndCycle BY <2>4 DEF EndCycle, Answered, Rest
    <2> QED BY <1>3, <2>1, <2>2, <2>3, <2>4 DEF Runtime
  <1>4. CASE DirectCycle BY <1>4 DEF DirectCycle
  <1>5. CASE ArmTimeout BY <1>5 DEF ArmTimeout, Answered, Rest
  <1>6. CASE Watch BY <1>6 DEF Watch
  <1>7. CASE Respawn BY <1>7 DEF Respawn
  <1>8. CASE Panic BY <1>8 DEF Panic, TaskGone, Answered, Rest
  <1>9. CASE Stop BY <1>9 DEF Stop, TaskGone, Answered, Rest
  <1> QED BY <1>1, <1>2, <1>3, <1>4, <1>5, <1>6, <1>7, <1>8, <1>9 DEF Next, Watchdog

\* No more commands and no more permits of the channel: the rest fits.
LEMMA FewerFit ==
    ASSUME ChannelInv, inc' = inc, Len(queue') \in Nat, Len(queue') <= Len(queue),
           \A c \in Callers : c \in Holders(inc)' => c \in Holders(inc)
    PROVE  Fits'
  <1>1. Holders(inc)' \subseteq Holders(inc) BY DEF Holders
  <1>2. Holders(inc) \in SUBSET Callers BY DEF Holders
  <1>3. /\ Cardinality(Holders(inc)') \in Nat /\ Cardinality(Holders(inc)) \in Nat
        /\ Cardinality(Holders(inc)') <= Cardinality(Holders(inc))
    BY <1>1, <1>2, CallersFinite, FS_Subset, Holders(inc)' \in SUBSET Callers
  <1>4. Len(queue) \in Nat BY DEF ChannelInv, TriggerTypes
  <1>5. Len(queue) + Cardinality(Holders(inc)) <= Capacity BY DEF ChannelInv, Fits
  <1>6. Len(queue') + Cardinality(Holders(inc)') <= Capacity
    BY <1>3, <1>4, <1>5, TriggerConstants
  <1> QED BY <1>6 DEF Fits

\* Room is taken only where it is.
LEMMA CallFits == ASSUME ChannelInv, NEW c \in Callers, Call(c) PROVE Fits'
  <1> DEFINE H == Holders(inc)
  <1>0. IsFiniteSet(H) /\ Cardinality(H) \in Nat BY CallersFinite, H \in SUBSET Callers DEF Holders
  <1>a. Len(queue) \in Nat /\ Capacity \in Nat BY TriggerConstants DEF ChannelInv, TriggerTypes
  <1>b. Len(queue) + Cardinality(H) <= Capacity BY DEF ChannelInv, Fits
  <1>1. CASE Reserve(c)
    <2>1. Holders(inc)' = H \cup {c} /\ c \notin H
      BY <1>1 DEF Reserve, Holders, ChannelInv, TriggerTypes, CallerState
    <2>2. Cardinality(Holders(inc)') = Cardinality(H) + 1 BY <1>0, <2>1, FS_AddElement
    <2>3. Len(queue) + Cardinality(H) < Capacity /\ queue' = queue BY <1>1 DEF Reserve, Room
    <2> HIDE DEF H
    <2> QED BY <1>0, <1>a, <2>2, <2>3 DEF Fits
  <1>2. CASE Request(c)
    <2>1. Holders(inc)' = H
      BY <1>2 DEF Request, Holders, ChannelInv, TriggerTypes, CallerState
    <2>2. Len(queue') = Len(queue) + 1 BY <1>2 DEF Request, ChannelInv, TriggerTypes, Command
    <2>3. Len(queue) + Cardinality(H) < Capacity BY <1>2 DEF Request, Room
    <2> HIDE DEF H
    <2> QED BY <1>0, <1>a, <2>1, <2>2, <2>3 DEF Fits
  <1>3. CASE ClaimOrCoalesce(c)
    <2>1. ClaimOutcome(c) BY <1>3, ClaimCases
    <2>2. queue' = queue /\ inc' = inc BY <2>1 DEF ClaimOutcome
    <2>3. \A d \in Callers : d \in Holders(inc)' => d \in Holders(inc)
      BY <2>1, <2>2, ClaimMovesOne DEF Holders, ClaimOutcome
    <2> QED BY <1>a, <2>2, <2>3, FewerFit
  <1>4. CASE Send(c)
    <2>1. SendOutcome(c) BY <1>4, SendCases
    <2>2. caller' = [caller EXCEPT ![c] = Rest] /\ inc' = inc /\ caller[c].pc = "claimed"
      BY <2>1 DEF SendOutcome
    <2>3. Holders(inc)' = H \ {c}
      BY <2>2 DEF Holders, Rest, ChannelInv, TriggerTypes, CallerState
    <2>4. CASE queue' = queue BY <1>a, <2>2, <2>3, <2>4, FewerFit
    <2>5. CASE queue' = Append(queue, [who |-> c, manual |-> FALSE]) /\ caller[c].inc = inc
      <3>1. c \in H BY <2>2, <2>5 DEF Holders
      <3>2. Cardinality(Holders(inc)') = Cardinality(H) - 1 BY <1>0, <2>3, <3>1, FS_RemoveElement
      <3>3. Len(queue') = Len(queue) + 1 BY <2>5 DEF ChannelInv, TriggerTypes, Command
      <3> HIDE DEF H
      <3> QED BY <1>0, <1>a, <1>b, <3>2, <3>3 DEF Fits
    <2> QED BY <2>1, <2>4, <2>5 DEF SendOutcome
  <1> QED BY <1>1, <1>2, <1>3, <1>4 DEF Call

\* Every step keeps the channel within its capacity.
LEMMA FitsKeep == ASSUME ChannelInv, [Next]_vars PROVE Fits'
  <1> DEFINE Same == \A c \in Callers : caller'[c] = caller[c] \/ caller'[c] = Rest
  <1>a. Len(queue) \in Nat BY DEF ChannelInv, TriggerTypes
  <1>b. ASSUME Same, inc' = inc, Len(queue') \in Nat, Len(queue') <= Len(queue) PROVE Fits'
    <2>1. \A c \in Callers : c \in Holders(inc)' => c \in Holders(inc)
      BY <1>b DEF Holders, Rest
    <2> QED BY <1>b, <2>1, FewerFit
  <1>1. CASE UNCHANGED vars BY <1>1, <1>a, <1>b DEF vars
  <1>2. CASE \E c \in Callers : Call(c) BY <1>2, CallFits
  <1>3. CASE Boot \/ BeginCycle \/ FinishCycle \/ RecordArmTimeout \/ DirectCycle \/ Watch
    BY <1>3, <1>a, <1>b DEF Boot, BeginCycle, FinishCycle, RecordArmTimeout, DirectCycle, Watch
  <1>4. CASE Receive
    <2>1. Len(queue') \in Nat /\ Len(queue') <= Len(queue)
      BY <1>4 DEF Receive, ChannelInv, TriggerTypes
    <2> QED BY <1>4, <2>1, <1>b DEF Receive
  <1>5. CASE EndCycle \/ ArmTimeout BY <1>5, <1>a, <1>b DEF EndCycle, ArmTimeout, Answered
  <1>6. CASE Panic \/ Stop
    <2>1. queue' = <<>> /\ inc' = inc /\ Same BY <1>6 DEF Panic, Stop, TaskGone, Answered
    <2>2. Len(queue') = 0 BY <2>1
    <2> QED BY <1>a, <1>b, <2>1, <2>2
  <1>7. CASE Respawn
    <2>1. queue' = <<>> BY <1>7 DEF Respawn, ChannelInv, Channels, Open, Down
    <2>2. Holders(inc)' = {}
      BY <1>7 DEF Respawn, Holders, ChannelInv, Channels, TriggerTypes, CallerState
    <2>3. Cardinality(Holders(inc)') = 0 BY <2>2, FS_EmptySet
    <2>4. Len(queue') = 0 BY <2>1
    <2> QED BY <2>3, <2>4, TriggerConstants DEF Fits
  <1> QED BY <1>1, <1>2, <1>3, <1>4, <1>5, <1>6, <1>7 DEF Next, Runtime, Watchdog

\* The channel invariant is inductive.
LEMMA ChannelInvStep == ChannelInv /\ [Next]_vars => ChannelInv'
  BY FlagsKeep, TypesKeep, ChannelsKeep, FitsKeep DEF ChannelInv

\* Every record keeps its shape, the restart count stays within the watchdog's
\* reach, and a channel never holds more commands and permits than
\* COMMAND_CHANNEL_CAPACITY, across restarts that leave permits of dead channels
\* behind (supervisor.rs trigger_account_sync, build_incarnation_spawner).
THEOREM TriggerTypeCorrect == Spec => []TypeOK
  <1>1. ChannelInv => TypeOK
    BY DEF ChannelInv, TriggerTypes, CallerState, TriggerFlags, Fits, TypeOK
  <1> QED BY ChannelInvInit, ChannelInvStep, <1>1, PTL DEF Spec
-----------------------------------------------------------------------------
\* A coalescer that nobody holds has no trigger on its way, unless the claim was
\* released over one.
FreeIsIdle == active = FALSE /\ crossed = FALSE => Outstanding = 0

TriggerInv == ChannelInv /\ FreeIsIdle /\ OneOutstanding

Counted == /\ IsFiniteSet(Claimed) /\ Cardinality(Claimed) \in Nat
           /\ IsFiniteSet(Queued) /\ Cardinality(Queued) \in Nat
           /\ Outstanding \in Nat

\* Both kinds of outstanding triggers are finitely many.
LEMMA OutstandingCounts == TriggerTypes => Counted
  <1> SUFFICES ASSUME TriggerTypes PROVE Counted OBVIOUS
  <1>1. IsFiniteSet(Claimed) /\ Cardinality(Claimed) \in Nat
    BY CallersFinite, Claimed \in SUBSET Callers DEF Claimed
  <1>2. Len(queue) \in Nat /\ DOMAIN queue = 1 .. Len(queue) BY DEF TriggerTypes
  <1>3. IsFiniteSet(1 .. Len(queue)) BY <1>2, FS_Interval
  <1>4. Queued \in SUBSET (1 .. Len(queue)) BY <1>2 DEF Queued
  <1>5. IsFiniteSet(Queued) /\ Cardinality(Queued) \in Nat
    BY <1>3, <1>4, FS_Subset, FS_CardinalityType
  <1> QED BY <1>1, <1>5 DEF Counted, Outstanding

\* Taking the first command leaves no more triggers than there were.
LEMMA TailHasFewer ==
    ASSUME TriggerTypes, queue # <<>>, queue' = Tail(queue)
    PROVE  Cardinality(Queued') <= Cardinality(Queued)
  <1> DEFINE f == [i \in Queued' |-> i + 1]
  <1>1. /\ Len(queue) \in Nat /\ DOMAIN queue = 1 .. Len(queue)
        /\ DOMAIN queue' = 1 .. Len(queue) - 1
        /\ \A i \in DOMAIN queue' : queue'[i] = queue[i + 1]
    BY DEF TriggerTypes
  <1>2. \A i \in Queued' : i \in Int /\ i + 1 \in Queued
    <2> SUFFICES ASSUME NEW i \in Queued' PROVE i \in Int /\ i + 1 \in Queued OBVIOUS
    <2>1. i \in DOMAIN queue' /\ ~queue'[i].manual BY DEF Queued
    <2>2. i \in Int /\ i + 1 \in DOMAIN queue BY <1>1, <2>1
    <2> QED BY <1>1, <2>1, <2>2 DEF Queued
  <1>3. f \in Injection(Queued', Queued)
    BY <1>2 DEF Injection, IsInjective
  <1> QED BY <1>3, FS_Injection, OutstandingCounts DEF Counted

\* A step that sends nothing and keeps the claim, or takes it.
LEMMA ShrinkKeeps ==
    ASSUME TriggerInv, ChannelInv', Claimed' \subseteq Claimed,
           Cardinality(Queued') <= Cardinality(Queued),
           crossed' = crossed, active' = active \/ active' = TRUE
    PROVE  FreeIsIdle' /\ OneOutstanding'
  <1>1. /\ IsFiniteSet(Claimed) /\ Cardinality(Claimed) \in Nat /\ Cardinality(Queued) \in Nat
        /\ Outstanding \in Nat
    BY OutstandingCounts DEF TriggerInv, ChannelInv, Counted
  <1>a. TriggerTypes' BY DEF ChannelInv
  <1>b. Counted' BY <1>a, OutstandingCounts, PTL
  <1>2. /\ Cardinality(Claimed') \in Nat /\ Cardinality(Queued') \in Nat
        /\ Outstanding' \in Nat
    BY <1>b DEF Counted
  <1>3. Cardinality(Claimed') <= Cardinality(Claimed) BY <1>1, FS_Subset
  <1>4. Outstanding' <= Outstanding BY <1>1, <1>2, <1>3 DEF Outstanding
  <1>5. Outstanding = 0 => Outstanding' = 0 BY <1>1, <1>2, <1>4
  <1>6. Outstanding' > 1 => Outstanding > 1 BY <1>1, <1>2, <1>4
  <1>7. FreeIsIdle' BY <1>5, Zenon DEF TriggerInv, FreeIsIdle
  <1>8. OneOutstanding' BY <1>6, Zenon DEF TriggerInv, OneOutstanding
  <1> QED BY <1>7, <1>8

\* A step that releases the claim and notes whether a trigger was on its way.
LEMMA ReleaseKeeps ==
    ASSUME TriggerInv, Claimed' = Claimed, queue' = queue, crossed' = (Outstanding > 0)
    PROVE  FreeIsIdle' /\ OneOutstanding'
  <1>1. Outstanding \in Nat BY OutstandingCounts DEF TriggerInv, ChannelInv, Counted
  <1>2. Outstanding' = Outstanding BY DEF Outstanding, Queued
  <1>3. (~(Outstanding > 0) => Outstanding = 0) /\ (Outstanding > 1 => Outstanding > 0) BY <1>1
  <1>4. FreeIsIdle' BY <1>2, <1>3, Zenon DEF FreeIsIdle
  <1>5. OneOutstanding' BY <1>2, <1>3, Zenon DEF OneOutstanding
  <1> QED BY <1>4, <1>5

\* A caller's step.
LEMMA CallKeeps ==
    ASSUME TriggerInv, ChannelInv', NEW c \in Callers, Call(c)
    PROVE  FreeIsIdle' /\ OneOutstanding'
  <1>0. /\ ChannelInv /\ TriggerTypes /\ caller \in [Callers -> CallerState]
        /\ Counted
    BY OutstandingCounts DEF TriggerInv, ChannelInv, TriggerTypes
  <1>1. CASE Reserve(c)
    <2>1. Claimed' \subseteq Claimed BY <1>0, <1>1 DEF Reserve, Claimed, Open
    <2>2. Queued' = Queued /\ crossed' = crossed /\ active' = active
      BY <1>1 DEF Reserve, Queued, ghosts, coalescer
    <2> QED BY <1>0, <2>1, <2>2, ShrinkKeeps DEF Counted
  <1>2. CASE Request(c)
    <2>1. Claimed' \subseteq Claimed BY <1>0, <1>2 DEF Request, Claimed, Open
    <2>2. Queued' = Queued
      BY <1>0, <1>2 DEF Request, Queued, TriggerTypes, Command
    <2>3. crossed' = crossed /\ active' = active BY <1>2 DEF Request, ghosts, coalescer
    <2> QED BY <1>0, <2>1, <2>2, <2>3, ShrinkKeeps DEF Counted
  <1>3. CASE ClaimOrCoalesce(c)
    <2>1. ClaimOutcome(c) BY <1>0, <1>3, ClaimCases
    <2>2. UNCHANGED <<queue, inc, rpc, crossed>> BY <2>1 DEF ClaimOutcome
    <2>3. Queued' = Queued BY <2>2 DEF Queued
    <2>4. CASE active' = active /\ caller' = [caller EXCEPT ![c] = Rest]
      <3>1. Claimed' \subseteq Claimed BY <1>0, <2>2, <2>4 DEF Claimed, Open, Rest
      <3> QED BY <1>0, <2>2, <2>3, <2>4, <3>1, ShrinkKeeps DEF Counted
    <2>5. CASE active = FALSE /\ active' = TRUE
      <3>1. Claimed' \subseteq Claimed \cup {c}
        BY <1>0, <2>1, <2>2, ClaimMovesOne DEF Claimed, Open
      <3>2. /\ IsFiniteSet(Claimed \cup {c})
            /\ Cardinality(Claimed \cup {c}) \in {Cardinality(Claimed), Cardinality(Claimed) + 1}
        BY <1>0, FS_AddElement DEF Counted
      <3>3. Cardinality(Claimed') <= Cardinality(Claimed \cup {c}) /\ Cardinality(Claimed') \in Nat
        BY <3>1, <3>2, FS_Subset, FS_CardinalityType
      <3>4. Outstanding' <= Outstanding + 1 /\ Outstanding' \in Nat
        BY <1>0, <2>3, <3>2, <3>3 DEF Outstanding, Counted
      <3>5. crossed = FALSE => Outstanding = 0 BY <2>5, Zenon DEF TriggerInv, FreeIsIdle
      <3>6. crossed = FALSE => ~(Outstanding' > 1) BY <3>4, <3>5
      <3>7. crossed' = crossed /\ crossed \in BOOLEAN
        BY <1>0, <2>2, Zenon DEF ChannelInv, TriggerFlags
      <3>8. OneOutstanding' BY <3>6, <3>7, Zenon DEF OneOutstanding
      <3>9. FreeIsIdle' BY <2>5, Zenon DEF FreeIsIdle
      <3> QED BY <3>8, <3>9
    <2> QED BY <2>1, <2>4, <2>5, Zenon DEF ClaimOutcome
  <1>4. CASE Send(c)
    <2>1. SendOutcome(c) BY <1>4, SendCases
    <2>2. /\ UNCHANGED <<active, inc, rpc, crossed>>
          /\ caller[c].pc = "claimed" /\ caller' = [caller EXCEPT ![c] = Rest]
      BY <2>1 DEF SendOutcome
    <2>3. Claimed' = Claimed \ {c} BY <1>0, <2>2 DEF Claimed, Open, Rest
    <2>4. CASE queue' = queue
      <3>1. Queued' = Queued BY <2>4 DEF Queued
      <3> QED BY <1>0, <2>2, <2>3, <3>1, ShrinkKeeps DEF Counted
    <2>5. CASE /\ queue' = Append(queue, [who |-> c, manual |-> FALSE])
               /\ Open /\ caller[c].inc = inc
      <3>1. c \in Claimed BY <2>2, <2>5 DEF Claimed
      <3>2. Cardinality(Claimed') = Cardinality(Claimed) - 1
        BY <1>0, <2>3, <3>1, FS_RemoveElement DEF Counted
      <3>3. Queued' = Queued \cup {Len(queue) + 1} /\ Len(queue) + 1 \notin Queued
        BY <1>0, <2>5 DEF Queued, TriggerTypes, Command
      <3>4. Cardinality(Queued') = Cardinality(Queued) + 1
        BY <1>0, <3>3, FS_AddElement DEF Counted
      <3>5. Outstanding' = Outstanding BY <1>0, <3>2, <3>4 DEF Counted, Outstanding
      <3> QED BY <2>2, <3>5, Zenon DEF TriggerInv, FreeIsIdle, OneOutstanding
    <2> QED BY <2>1, <2>4, <2>5, Zenon DEF SendOutcome
  <1> QED BY <1>1, <1>2, <1>3, <1>4 DEF Call

\* Every step keeps the invariant.
LEMMA TriggerInvStep == TriggerInv /\ [Next]_vars => TriggerInv'
  <1> SUFFICES ASSUME TriggerInv, [Next]_vars PROVE TriggerInv' OBVIOUS
  <1>0. ChannelInv /\ ChannelInv' BY ChannelInvStep DEF TriggerInv
  <1>a. Counted /\ TriggerTypes BY <1>0, OutstandingCounts DEF ChannelInv
  <1> SUFFICES FreeIsIdle' /\ OneOutstanding' BY <1>0 DEF TriggerInv
  <1>b. ASSUME Claimed' \subseteq Claimed, queue' = queue, crossed' = crossed,
               active' = active \/ active' = TRUE
        PROVE  FreeIsIdle' /\ OneOutstanding'
    <2>1. Queued' = Queued BY <1>b DEF Queued
    <2>2. Cardinality(Queued') <= Cardinality(Queued) BY <1>a, <2>1 DEF Counted
    <2> QED BY <1>0, <1>b, <2>2, ShrinkKeeps, Zenon
  <1>1. CASE UNCHANGED vars
    <2>1. Claimed' = Claimed /\ queue' = queue BY <1>1 DEF vars, Claimed, Open
    <2>2. crossed' = crossed /\ active' = active BY <1>1, Zenon DEF vars, ghosts, coalescer
    <2> QED BY <1>b, <2>1, <2>2
  <1>2. CASE \E c \in Callers : Call(c) BY <1>0, <1>2, CallKeeps
  <1>3. CASE Boot \/ RecordArmTimeout
    <2>1. Claimed' = Claimed /\ queue' = queue
      BY <1>3 DEF Boot, RecordArmTimeout, Claimed, Open, Down
    <2>2. crossed' = (Outstanding > 0) BY <1>3, Zenon DEF Boot, RecordArmTimeout
    <2> QED BY <2>1, <2>2, ReleaseKeeps
  <1>4. CASE FinishCycle
    <2>1. Claimed' = Claimed /\ queue' = queue BY <1>4 DEF FinishCycle, Claimed, Open, Down
    <2>2. \/ crossed' = (Outstanding > 0)
          \/ crossed' = crossed /\ active' = active
      BY <1>4, Zenon DEF FinishCycle
    <2> QED BY <1>b, <2>1, <2>2, ReleaseKeeps
  <1>5. CASE DirectCycle \/ BeginCycle \/ Watch
    <2>1. Claimed' = Claimed /\ queue' = queue
      BY <1>5 DEF DirectCycle, BeginCycle, Watch, Claimed, Open, Down
    <2>2. crossed' = crossed /\ (active' = active \/ active' = TRUE)
      BY <1>5, Zenon DEF DirectCycle, BeginCycle, Watch, ghosts, coalescer
    <2> QED BY <1>b, <2>1, <2>2
  <1>6. CASE Receive
    <2>1. Claimed' = Claimed BY <1>6 DEF Receive, Claimed, Open, Down
    <2>2. Cardinality(Queued') <= Cardinality(Queued) BY <1>6, <1>a, TailHasFewer DEF Receive
    <2>3. crossed' = crossed /\ active' = active BY <1>6, Zenon DEF Receive, ghosts, coalescer
    <2> QED BY <1>0, <2>1, <2>2, <2>3, ShrinkKeeps
  <1>7. CASE EndCycle \/ ArmTimeout
    <2>1. Claimed' \subseteq Claimed /\ queue' = queue
      BY <1>7 DEF EndCycle, ArmTimeout, Answered, Rest, Claimed, Open, Down
    <2>2. crossed' = crossed /\ active' = active
      BY <1>7, Zenon DEF EndCycle, ArmTimeout, ghosts, coalescer
    <2> QED BY <1>b, <2>1, <2>2
  <1>8. CASE Panic \/ Stop
    <2>1. Claimed' = {} /\ queue' = <<>>
      BY <1>8 DEF Panic, Stop, TaskGone, Claimed, Open, Down
    <2>2. Queued' = {} BY <2>1 DEF Queued
    <2>3. Cardinality(Queued') <= Cardinality(Queued) BY <1>a, <2>2, FS_EmptySet DEF Counted
    <2>4. crossed' = crossed /\ active' = active
      BY <1>8, Zenon DEF Panic, Stop, TaskGone, ghosts, coalescer
    <2> QED BY <1>0, <2>1, <2>3, <2>4, ShrinkKeeps
  <1>9. CASE Respawn
    <2>1. Claimed' = {} /\ queue' = queue
      BY <1>0, <1>9 DEF Respawn, Claimed, ChannelInv, Channels, TriggerTypes, CallerState
    <2>2. crossed' = crossed /\ active' = active BY <1>9, Zenon DEF Respawn, ghosts, coalescer
    <2> QED BY <1>b, <2>1, <2>2
  <1> QED BY <1>1, <1>2, <1>3, <1>4, <1>5, <1>6, <1>7, <1>8, <1>9 DEF Next, Runtime, Watchdog

\* A burst of triggers is one cycle, for any number of callers and any channel:
\* a second trigger is on its way only when a claim was released over the first
\* (supervisor.rs SyncCoalesceState, trigger_account_sync).
THEOREM TriggersCoalesce == Spec => []OneOutstanding
  <1>1. Init => TriggerInv
    <2> SUFFICES ASSUME Init PROVE TriggerInv OBVIOUS
    <2>1. Claimed = {} /\ Queued = {} BY DEF Init, Claimed, Queued, Rest
    <2>2. Cardinality(Claimed) = 0 /\ Cardinality(Queued) = 0 BY <2>1, FS_EmptySet
    <2>3. Outstanding = 0 BY <2>2 DEF Outstanding
    <2>4. ~(Outstanding > 1) BY <2>3
    <2> QED BY <2>3, <2>4, ChannelInvInit, Zenon DEF TriggerInv, FreeIsIdle, OneOutstanding
  <1>2. TriggerInv => OneOutstanding BY DEF TriggerInv
  <1> QED BY <1>1, <1>2, TriggerInvStep, PTL DEF Spec

-----------------------------------------------------------------------------
(***************************************************************************)
(* Backfill.  A job is completed on the word of one page, so what must     *)
(* hold is that a page which did not fill the batch was the whole rest:    *)
(* from then on every message is tagged, touched, on the page or done      *)
(* until the job is closed, and the batch cannot run out before the page.  *)
(***************************************************************************)
BackfillTypes ==
    /\ ruleset \in RuleSets \cup {"none"}
    /\ job \in [RuleSets -> {"none", "pending", "completed"}]
    /\ tagged \in [RuleSets -> SUBSET Mail] /\ touched \in [RuleSets -> SUBSET Mail]
    /\ everDone \in [RuleSets -> SUBSET Mail]

ScanTypes ==
    /\ scan \in [at : {"idle", "scan", "apply", "flushed"}, rules : RuleSets \cup {"none"},
                 page : SUBSET Mail, remaining : Nat, more : BOOLEAN]
    /\ scan.at # "idle" => scan.rules \in RuleSets
    /\ scan.at = "scan" => scan.remaining > 0

LastPage ==
    ~scan.more =>
        /\ scan.at = "apply" =>
             /\ Mail \subseteq tagged[scan.rules] \cup touched[scan.rules] \cup scan.page
             /\ Cardinality(scan.page) < scan.remaining
        /\ scan.at = "flushed" => Mail \subseteq tagged[scan.rules] \cup everDone[scan.rules]

BackfillInv == BackfillTypes /\ ScanTypes /\ LastPage /\ CompletedIsDone

\* A set of numbers has its least.
LEMMA LeastNumber ==
    ASSUME NEW S \in SUBSET Nat, S # {}
    PROVE  \E x \in S : \A y \in S : x <= y
  <1> DEFINE R == OpToRel(<, Nat)
  <1>1. IsWellFoundedOn(R, Nat) BY NatLessThanWellFounded, Zenon
  <1>2. \A x, y \in Nat : x < y => <<x, y>> \in R BY DEF OpToRel
  <1> HIDE DEF R
  <1>3. PICK x \in S : \A y \in S : ~(<<y, x>> \in R) BY <1>1, WFMin
  <1>4. \A y \in S : ~(y < x) BY <1>2, <1>3
  <1> QED BY <1>4

\* The messages of a set that are older than one.
Before(S, m) == {k \in S : k < m}

\* There are fewer before an earlier message.
LEMMA BeforeGrows ==
    ASSUME NEW S \in SUBSET Nat, IsFiniteSet(S), NEW k \in S, NEW m \in Nat, k < m
    PROVE  /\ Cardinality(Before(S, k)) \in Nat /\ Cardinality(Before(S, m)) \in Nat
           /\ Cardinality(Before(S, k)) < Cardinality(Before(S, m))
  <1> DEFINE b == Before(S, k)
             c == Before(S, m)
  <1>1. b \in SUBSET S /\ c \in SUBSET S BY DEF Before
  <1>2. IsFiniteSet(b) /\ IsFiniteSet(c) BY <1>1, FS_Subset
  <1>3. k \notin b /\ b \cup {k} \in SUBSET c
    <2>1. k \in Nat /\ \A x \in S : x \in Nat OBVIOUS
    <2>2. ~(k < k) BY <2>1
    <2>3. \A x \in b : x \in c BY <2>1 DEF Before
    <2>4. k \in c BY DEF Before
    <2>5. k \notin b BY <2>2 DEF Before
    <2> QED BY <2>3, <2>4, <2>5
  <1> HIDE DEF b, c
  <1>4. Cardinality(b) \in Nat /\ Cardinality(c) \in Nat BY <1>2, FS_CardinalityType
  <1>5. Cardinality(b \cup {k}) = Cardinality(b) + 1 BY <1>2, <1>3, FS_AddElement
  <1>6. Cardinality(b \cup {k}) <= Cardinality(c) BY <1>2, <1>3, FS_Subset
  <1>7. Cardinality(b) < Cardinality(c) BY <1>4, <1>5, <1>6
  <1> QED BY <1>4, <1>7 DEF b, c

\* A finite set of messages has a newest one.
LEMMA NewestExists ==
    ASSUME NEW S \in SUBSET Nat, IsFiniteSet(S), S # {}
    PROVE  \E p \in S : \A k \in S : k <= p
  <1> DEFINE rest(k) == Cardinality(S) - Cardinality(Before(S, k))
             R == {rest(k) : k \in S}
  <1>1. Cardinality(S) \in Nat BY FS_CardinalityType
  <1>2. ASSUME NEW k \in S PROVE Cardinality(Before(S, k)) \in Nat /\ rest(k) \in Nat
    <2>1. Before(S, k) \in SUBSET S BY DEF Before
    <2>2. IsFiniteSet(Before(S, k)) /\ Cardinality(Before(S, k)) <= Cardinality(S)
      BY <2>1, FS_Subset
    <2>3. Cardinality(Before(S, k)) \in Nat BY <2>2, FS_CardinalityType
    <2> QED BY <1>1, <2>2, <2>3
  <1>3. R \in SUBSET Nat /\ R # {} BY <1>2
  <1>4. PICK x \in R : \A y \in R : x <= y
    <2> HIDE DEF R
    <2> QED BY <1>3, LeastNumber
  <1>5. PICK p \in S : x = rest(p) BY <1>4
  <1>6. ASSUME NEW k \in S PROVE k <= p
    <2> SUFFICES ASSUME p < k PROVE FALSE BY <1>5, <1>6
    <2>1. Cardinality(Before(S, p)) < Cardinality(Before(S, k)) BY BeforeGrows
    <2>2. rest(p) <= rest(k) BY <1>4, <1>5
    <2> QED BY <1>1, <1>2, <2>1, <2>2
  <1> QED BY <1>6

\* A page that did not fill the batch is the whole rest.
LEMMA ShortPageIsAll ==
    ASSUME NEW S \in SUBSET Nat, IsFiniteSet(S), NEW n \in Nat, n > 0,
           Cardinality(Oldest(S, n)) # n
    PROVE  Oldest(S, n) = S /\ Cardinality(S) < n
  <1> DEFINE page == Oldest(S, n)
  <1>1. page = {m \in S : Cardinality(Before(S, m)) < n} BY DEF Oldest, Before
  <1>2. ASSUME S \ page # {} PROVE FALSE
    <2>1. S \ page \in SUBSET Nat OBVIOUS
    <2>2. PICK m \in S \ page : \A k \in S \ page : m <= k
      <3> HIDE DEF page
      <3> QED BY <1>2, <2>1, LeastNumber
    <2> DEFINE b == Before(S, m)
    <2>3. b \in SUBSET S /\ IsFiniteSet(b)
      <3>1. b \in SUBSET S BY DEF Before
      <3> QED BY <3>1, FS_Subset
    <2>4. Cardinality(b) \in Nat BY <2>3, FS_CardinalityType
    <2>5. Cardinality(b) >= n BY <1>1, <2>2, <2>4
    <2>6. \A k \in S : k < m => k \in page BY <2>2
    <2>7. \A k \in S : k \in page => k < m
      <3> SUFFICES ASSUME NEW k \in S, k \in page, m <= k PROVE FALSE BY <2>2
      <3>1. Cardinality(Before(S, k)) < n BY <1>1
      <3>2. m # k BY <2>2
      <3>3. m < k /\ m \in S BY <2>2, <3>2
      <3>4. Cardinality(b) < Cardinality(Before(S, k)) /\ Cardinality(Before(S, k)) \in Nat
        BY <3>3, BeforeGrows
      <3> QED BY <2>4, <2>5, <3>1, <3>4
    <2>8. page = b BY <1>1, <2>6, <2>7 DEF Before
    <2>9. b # {}
      <3>1. Cardinality(b) # 0 BY <2>4, <2>5
      <3> QED BY <3>1, FS_EmptySet
    <2>10. PICK p \in b : \A k \in b : k <= p
      <3>1. b \in SUBSET Nat BY <2>3
      <3> HIDE DEF b
      <3> QED BY <2>3, <2>9, <3>1, NewestExists
    <2>11. Before(S, p) = b \ {p}
      <3>1. p \in S /\ p < m /\ \A k \in S : k \in Nat BY <2>10 DEF Before
      <3>2. m \in Nat BY <2>2
      <3>3. \A k \in S : k < p <=> (k < m /\ k # p) BY <2>10, <3>1, <3>2 DEF Before
      <3> QED BY <3>3 DEF Before
    <2>12. Cardinality(b \ {p}) = Cardinality(b) - 1
      <3> HIDE DEF b
      <3> QED BY <2>3, <2>10, FS_RemoveElement
    <2>13. Cardinality(Before(S, p)) < n BY <1>1, <2>8, <2>10
    <2>14. Cardinality(b) = n BY <2>4, <2>5, <2>11, <2>12, <2>13
    <2> QED BY <2>8, <2>14
  <1>3. page = S BY <1>1, <1>2
  <1>4. Cardinality(S) \in Nat /\ Cardinality(S) # n BY <1>3, FS_CardinalityType
  <1>5. Cardinality(S) < n
    <2> SUFFICES ASSUME Cardinality(S) > n PROVE FALSE BY <1>4
    <2>1. S # {} BY <1>4, FS_EmptySet
    <2>2. PICK p \in S : \A k \in S : k <= p BY <2>1, NewestExists
    <2>3. Before(S, p) = S \ {p}
      <3>1. \A k \in S : k \in Nat OBVIOUS
      <3>2. \A k \in S : k < p <=> k # p BY <2>2, <3>1
      <3> QED BY <3>2 DEF Before
    <2>4. Cardinality(S \ {p}) = Cardinality(S) - 1 BY <2>2, FS_RemoveElement
    <2>5. Cardinality(Before(S, p)) < n BY <1>1, <1>3
    <2> QED BY <1>4, <2>3, <2>4, <2>5
  <1> QED BY <1>3, <1>5

\* The initial states.
LEMMA BackfillInit == AutomationInit => BackfillInv
  BY AutomationAssumption
  DEF AutomationInit, BackfillInv, BackfillTypes, ScanTypes, LastPage, CompletedIsDone, NoBatch

\* Editing the rules and asking for them again leave every other job alone.
LEMMA RulesKeep == BackfillInv /\ (MutateRules \/ ResetBackfill) => BackfillInv'
  <1> SUFFICES ASSUME BackfillInv, MutateRules \/ ResetBackfill PROVE BackfillInv' OBVIOUS
  <1> USE DEF BackfillInv
  <1>1. CASE MutateRules
    <2>1. PICK f \in RuleSets : job' = EnsuredJob(job, f) /\ ruleset' = f BY <1>1 DEF MutateRules
    <2>2. UNCHANGED <<tagged, touched, scan, everDone>> BY <1>1 DEF MutateRules
    <2>3. \A g \in RuleSets : /\ job'[g] \in {"none", "pending", "completed"}
                              /\ job'[g] = "completed" => job[g] = "completed"
      BY <2>1 DEF EnsuredJob, BackfillTypes
    <2>4. job' \in [RuleSets -> {"none", "pending", "completed"}]
      BY <2>1, <2>3 DEF EnsuredJob, BackfillTypes
    <2>5. BackfillTypes' BY <2>1, <2>2, <2>4 DEF BackfillTypes
    <2>6. ScanTypes' /\ LastPage' BY <2>2 DEF ScanTypes, LastPage
    <2>7. CompletedIsDone' BY <2>2, <2>3 DEF CompletedIsDone
    <2> QED BY <2>5, <2>6, <2>7
  <1>2. CASE ResetBackfill
    <2>1. /\ ruleset \in RuleSets /\ scan.at = "idle" /\ UNCHANGED <<ruleset, touched, scan>>
          /\ job' = [job EXCEPT ![ruleset] = "pending"]
          /\ everDone' = [everDone EXCEPT ![ruleset] = {}]
      BY <1>2 DEF ResetBackfill, BackfillTypes
    <2>2. PICK untagged \in SUBSET tagged[ruleset] :
             tagged' = [tagged EXCEPT ![ruleset] = @ \ untagged]
      BY <1>2 DEF ResetBackfill
    <2>3. BackfillTypes' BY <2>1, <2>2 DEF BackfillTypes
    <2>4. ScanTypes' /\ LastPage' BY <2>1 DEF ScanTypes, LastPage
    <2>5. CompletedIsDone'
      <3> SUFFICES ASSUME NEW f \in RuleSets, job'[f] = "completed"
                   PROVE  Mail \subseteq everDone'[f] \cup tagged'[f]
        BY DEF CompletedIsDone
      <3>1. f # ruleset /\ job[f] = "completed" BY <2>1 DEF BackfillTypes
      <3>2. everDone'[f] = everDone[f] /\ tagged'[f] = tagged[f]
        BY <2>1, <2>2, <3>1 DEF BackfillTypes
      <3> QED BY <3>1, <3>2 DEF CompletedIsDone
    <2> QED BY <2>3, <2>4, <2>5
  <1> QED BY <1>1, <1>2

\* A batch begins with its whole size before it.
LEMMA BeginKeeps == BackfillInv /\ BeginBatch => BackfillInv'
  <1> SUFFICES ASSUME BackfillInv, BeginBatch PROVE BackfillInv' OBVIOUS
  <1> USE DEF BackfillInv
  <1>1. /\ ruleset \in RuleSets /\ job' = EnsuredJob(job, ruleset)
        /\ scan' = [NoBatch EXCEPT !.at = "scan", !.rules = ruleset, !.remaining = BatchSize]
        /\ UNCHANGED <<ruleset, tagged, touched, everDone>>
    BY DEF BeginBatch, BackfillTypes
  <1>2. scan' = [at |-> "scan", rules |-> ruleset, page |-> {}, remaining |-> BatchSize, more |-> FALSE]
    BY <1>1 DEF NoBatch
  <1>3. \A g \in RuleSets : job'[g] = "completed" => job[g] = "completed"
    BY <1>1 DEF EnsuredJob, BackfillTypes
  <1>4. job' \in [RuleSets -> {"none", "pending", "completed"}]
    BY <1>1 DEF EnsuredJob, BackfillTypes
  <1>5. BackfillTypes' BY <1>1, <1>4 DEF BackfillTypes
  <1>6. ScanTypes'
    <2>1. /\ scan'.at = "scan" /\ scan'.rules = ruleset /\ scan'.page = {}
          /\ scan'.remaining = BatchSize /\ scan'.more = FALSE
      BY <1>2
    <2>2. BatchSize \in Nat /\ BatchSize > 0 BY AutomationAssumption
    <2>3. scan' \in [at : {"idle", "scan", "apply", "flushed"}, rules : RuleSets \cup {"none"},
                     page : SUBSET Mail, remaining : Nat, more : BOOLEAN]
      <3>1. /\ "scan" \in {"idle", "scan", "apply", "flushed"} /\ ruleset \in RuleSets \cup {"none"}
            /\ {} \in SUBSET Mail /\ FALSE \in BOOLEAN
        BY <1>1
      <3> QED BY <1>2, <2>2, <3>1, Zenon
    <2> QED BY <1>1, <2>1, <2>2, <2>3 DEF ScanTypes
  <1>7. LastPage' BY <1>2 DEF LastPage
  <1>8. CompletedIsDone' BY <1>1, <1>3 DEF CompletedIsDone
  <1> QED BY <1>5, <1>6, <1>7, <1>8

\* The scan decides whether there is more.
LEMMA ScanKeeps == BackfillInv /\ ScanPage => BackfillInv'
  <1> SUFFICES ASSUME BackfillInv, ScanPage PROVE BackfillInv' OBVIOUS
  <1> USE DEF BackfillInv
  <1> DEFINE rest == Mail \ tagged[scan.rules]
             page == Oldest(rest, scan.remaining)
  <1>1. scan' = [scan EXCEPT !.at = "apply", !.page = page, !.more = PageSaysMore(page, scan.remaining)]
    BY DEF ScanPage
  <1>2. scan.at = "scan" /\ UNCHANGED <<ruleset, job, tagged, touched, everDone>> BY DEF ScanPage
  <1>3. scan.rules \in RuleSets /\ scan.remaining \in Nat /\ scan.remaining > 0
    BY <1>2 DEF ScanTypes
  <1>4. rest \in SUBSET Nat /\ IsFiniteSet(rest)
    <2>1. rest \in SUBSET Mail OBVIOUS
    <2>2. Mail \subseteq Nat /\ IsFiniteSet(Mail) BY AutomationAssumption
    <2> HIDE DEF rest
    <2>3. IsFiniteSet(rest) BY <2>1, <2>2, FS_Subset
    <2> QED BY <2>1, <2>2, <2>3
  <1>5. page \in SUBSET Mail BY DEF Oldest
  <1>6. PageSaysMore(page, scan.remaining) = (Cardinality(page) = scan.remaining) BY DEF PageSaysMore
  <1>7. Cardinality(page) # scan.remaining => page = rest /\ Cardinality(rest) < scan.remaining
    <2> HIDE DEF rest
    <2> QED BY <1>3, <1>4, ShortPageIsAll
  <1> HIDE DEF page
  <1>8. /\ scan'.at = "apply" /\ scan'.rules = scan.rules /\ scan'.page = page
        /\ scan'.remaining = scan.remaining /\ scan'.more = (Cardinality(page) = scan.remaining)
    BY <1>1, <1>6 DEF ScanTypes
  <1>9. ScanTypes'
    <2>1. scan' \in [at : {"idle", "scan", "apply", "flushed"}, rules : RuleSets \cup {"none"},
                     page : SUBSET Mail, remaining : Nat, more : BOOLEAN]
      BY <1>1, <1>5, <1>6 DEF ScanTypes
    <2> QED BY <1>3, <1>8, <2>1 DEF ScanTypes
  <1>10. LastPage'
    <2> SUFFICES ASSUME ~scan'.more
                 PROVE  /\ Mail \subseteq tagged[scan.rules] \cup touched[scan.rules] \cup page
                        /\ Cardinality(page) < scan.remaining
      BY <1>2, <1>8 DEF LastPage
    <2>1. Cardinality(page) # scan.remaining BY <1>8
    <2> QED BY <1>7, <2>1
  <1> QED BY <1>2, <1>9, <1>10 DEF BackfillTypes, CompletedIsDone

\* A message leaves the page for the touched ones.
LEMMA ApplyKeeps == BackfillInv /\ ApplyAction => BackfillInv'
  <1> SUFFICES ASSUME BackfillInv, ApplyAction PROVE BackfillInv' OBVIOUS
  <1> USE DEF BackfillInv
  <1> DEFINE m == Min(scan.page)
             left == IF m \notin touched[scan.rules] THEN scan.remaining - 1 ELSE scan.remaining
  <1>1. /\ scan.at = "apply" /\ scan.page # {} /\ scan.remaining > 0
        /\ touched' = [touched EXCEPT ![scan.rules] = @ \cup {m}]
        /\ UNCHANGED <<ruleset, job, tagged, everDone>>
    BY DEF ApplyAction
  <1>2. scan' = [scan EXCEPT !.page = @ \ {m}, !.remaining = left]
    BY DEF ApplyAction
  <1>3. scan.rules \in RuleSets /\ scan.page \in SUBSET Mail /\ scan.remaining \in Nat
    BY <1>1 DEF ScanTypes
  <1>4. m \in scan.page
    <2>1. scan.page \in SUBSET Nat BY <1>3, AutomationAssumption
    <2>2. PICK x \in scan.page : \A y \in scan.page : x <= y BY <1>1, <2>1, LeastNumber
    <2> QED BY <2>2 DEF Min
  <1> HIDE DEF m
  <1>5. left \in Nat /\ left >= scan.remaining - 1 BY <1>1, <1>3
  <1> HIDE DEF left
  <1>6. /\ scan'.at = "apply" /\ scan'.rules = scan.rules /\ scan'.page = scan.page \ {m}
        /\ scan'.remaining = left /\ scan'.more = scan.more
    BY <1>1, <1>2 DEF ScanTypes
  <1>7. BackfillTypes' BY <1>1, <1>3, <1>4 DEF BackfillTypes
  <1>8. ScanTypes'
    <2>1. scan' \in [at : {"idle", "scan", "apply", "flushed"}, rules : RuleSets \cup {"none"},
                     page : SUBSET Mail, remaining : Nat, more : BOOLEAN]
      BY <1>2, <1>5 DEF ScanTypes
    <2> QED BY <1>3, <1>6, <2>1 DEF ScanTypes
  <1>9. LastPage'
    <2> SUFFICES ASSUME ~scan.more
                 PROVE  /\ Mail \subseteq tagged[scan.rules] \cup touched'[scan.rules] \cup (scan.page \ {m})
                        /\ Cardinality(scan.page \ {m}) < left
      BY <1>1, <1>6 DEF LastPage
    <2>1. /\ Mail \subseteq tagged[scan.rules] \cup touched[scan.rules] \cup scan.page
          /\ Cardinality(scan.page) < scan.remaining
      BY <1>1 DEF LastPage
    <2>2. touched'[scan.rules] = touched[scan.rules] \cup {m} BY <1>1, <1>3 DEF BackfillTypes
    <2>3. IsFiniteSet(scan.page) BY <1>3, AutomationAssumption, FS_Subset
    <2>4. Cardinality(scan.page) \in Nat BY <2>3, FS_CardinalityType
    <2>5. Cardinality(scan.page \ {m}) = Cardinality(scan.page) - 1
      BY <1>4, <2>3, FS_RemoveElement
    <2>6. Cardinality(scan.page \ {m}) < left BY <1>3, <1>5, <2>1, <2>4, <2>5
    <2> QED BY <2>1, <2>2, <2>6
  <1>10. CompletedIsDone' BY <1>1 DEF CompletedIsDone
  <1> QED BY <1>7, <1>8, <1>9, <1>10

\* What was touched is done, and what was done stays so.
LEMMA FlushKeeps == BackfillInv /\ FlushBatch => BackfillInv'
  <1> SUFFICES ASSUME BackfillInv, FlushBatch PROVE BackfillInv' OBVIOUS
  <1> USE DEF BackfillInv
  <1>1. /\ scan.at = "apply" /\ (scan.page = {} \/ scan.remaining = 0)
        /\ tagged' = [f \in RuleSets |-> tagged[f] \cup (touched[f] \ RefusedMail)]
        /\ everDone' = [f \in RuleSets |-> everDone[f] \cup touched[f]]
        /\ touched' = [f \in RuleSets |-> {}]
        /\ scan' = [scan EXCEPT !.at = "flushed", !.page = {}]
        /\ UNCHANGED <<ruleset, job>>
    BY DEF FlushBatch
  <1>2. scan.rules \in RuleSets /\ scan.page \in SUBSET Mail /\ scan.remaining \in Nat
    BY <1>1 DEF ScanTypes
  <1>3. scan'.at = "flushed" /\ scan'.rules = scan.rules /\ scan'.more = scan.more
    BY <1>1 DEF ScanTypes
  <1>4. \A f \in RuleSets : /\ tagged[f] \subseteq tagged'[f] /\ everDone[f] \subseteq everDone'[f]
                            /\ touched[f] \subseteq everDone'[f]
    BY <1>1
  <1>5. BackfillTypes' BY <1>1 DEF BackfillTypes
  <1>6. ScanTypes'
    <2>1. scan' \in [at : {"idle", "scan", "apply", "flushed"}, rules : RuleSets \cup {"none"},
                     page : SUBSET Mail, remaining : Nat, more : BOOLEAN]
      BY <1>1 DEF ScanTypes
    <2> QED BY <1>2, <1>3, <2>1 DEF ScanTypes
  <1>7. LastPage'
    <2> SUFFICES ASSUME ~scan.more
                 PROVE  Mail \subseteq tagged'[scan.rules] \cup everDone'[scan.rules]
      BY <1>3 DEF LastPage
    <2>1. /\ Mail \subseteq tagged[scan.rules] \cup touched[scan.rules] \cup scan.page
          /\ Cardinality(scan.page) < scan.remaining
      BY <1>1 DEF LastPage
    <2>2. scan.page = {}
      <3>1. IsFiniteSet(scan.page) BY <1>2, AutomationAssumption, FS_Subset
      <3>2. Cardinality(scan.page) \in Nat BY <3>1, FS_CardinalityType
      <3> QED BY <1>1, <1>2, <2>1, <3>2
    <2> QED BY <1>2, <1>4, <2>1, <2>2
  <1>8. CompletedIsDone' BY <1>1, <1>4 DEF CompletedIsDone
  <1> QED BY <1>5, <1>6, <1>7, <1>8

\* Only a batch with nothing left closes its job.
LEMMA CloseKeeps == BackfillInv /\ (FinishBatch \/ FailBatch) => BackfillInv'
  <1> SUFFICES ASSUME BackfillInv, FinishBatch \/ FailBatch PROVE BackfillInv' OBVIOUS
  <1> USE DEF BackfillInv
  <1>1. scan' = NoBatch /\ UNCHANGED <<ruleset, tagged, touched, everDone>>
    BY DEF FinishBatch, FailBatch
  <1>2. scan.rules \in RuleSets BY DEF FinishBatch, FailBatch, ScanTypes
  <1>3. \A f \in RuleSets : /\ job'[f] \in {"none", "pending", "completed"}
                            /\ job'[f] = "completed" =>
                                 \/ job[f] = "completed"
                                 \/ f = scan.rules /\ ~scan.more /\ scan.at = "flushed"
    BY <1>2 DEF FinishBatch, FailBatch, CompletedJob, FailureRecorded, BackfillTypes
  <1>4. job' \in [RuleSets -> {"none", "pending", "completed"}]
    BY <1>2 DEF FinishBatch, FailBatch, CompletedJob, FailureRecorded, BackfillTypes
  <1>5. BackfillTypes' BY <1>1, <1>4 DEF BackfillTypes
  <1>6. ScanTypes' /\ LastPage' BY <1>1 DEF ScanTypes, LastPage, NoBatch
  <1>7. CompletedIsDone' BY <1>1, <1>3 DEF CompletedIsDone, LastPage
  <1> QED BY <1>5, <1>6, <1>7

\* A completed backfill reached every message, whichever rules were edited while
\* it ran and whichever batches failed (process_automation_backfill_job_batch,
\* complete_automation_backfill_job).
THEOREM CompletedAlwaysDone == AutomationSpec => []CompletedIsDone
  <1>1. BackfillInv /\ [AutomationNext]_autoVars => BackfillInv'
    <2> SUFFICES ASSUME BackfillInv, [AutomationNext]_autoVars PROVE BackfillInv' OBVIOUS
    <2>1. CASE BackfillNext
      BY <2>1, RulesKeep, BeginKeeps, ScanKeeps, ApplyKeeps, FlushKeeps, CloseKeeps DEF BackfillNext
    <2>2. CASE UNCHANGED backfillVars
      BY <2>2 DEF backfillVars, BackfillInv, BackfillTypes, ScanTypes, LastPage, CompletedIsDone
    <2> QED BY <2>1, <2>2 DEF AutomationNext, autoVars
  <1>2. BackfillInv => CompletedIsDone BY DEF BackfillInv
  <1> QED BY <1>1, <1>2, BackfillInit, PTL DEF AutomationSpec

-----------------------------------------------------------------------------
(***************************************************************************)
(* Snooze.  A move and its row are two steps, so place and row disagree in *)
(* between.  What keeps the pair is that a message nobody crossed has one  *)
(* mover: while a snooze is under way only the snooze itself has a row to  *)
(* clear, and it inserts its own after that; any other mover has taken the *)
(* message out and has yet to clear the row.                               *)
(***************************************************************************)
SnoozeTypes ==
    /\ place \in [Mail -> {"inbox", "snoozed", "archive"}] /\ returnAt \in [Mail -> Nat]
    /\ snoozing \in [Mail -> Nat] /\ returning \in SUBSET Mail
    /\ clears \in SUBSET ({"snooze", "user", "scheduler"} \X Mail)

\* Who moves a message, and where it is meanwhile.
OneMover(m) ==
    /\ snoozing[m] > 0 => /\ place[m] = "snoozed"
                          /\ \A mover \in clears : mover[2] = m => mover[1] = "snooze"
    /\ snoozing[m] = 0 => \A mover \in clears :
                              mover[2] = m => mover[1] # "snooze" /\ place[m] # "snoozed"

Paired(m) == (snoozing[m] = 0 /\ \A mover \in clears : mover[2] # m)
             => (place[m] = "snoozed" <=> returnAt[m] > 0)

SnoozeInv == SnoozeTypes /\ \A m \in Mail \ unpaired : OneMover(m) /\ Paired(m)

\* A message whose mailbox, row and movers stay as they are stays paired.
LEMMA OthersKeep ==
    ASSUME NEW m, OneMover(m), Paired(m),
           place'[m] = place[m], returnAt'[m] = returnAt[m], snoozing'[m] = snoozing[m],
           \A mover : mover[2] = m => (mover \in clears' <=> mover \in clears)
    PROVE  OneMover(m)' /\ Paired(m)'
  BY DEF OneMover, Paired

\* A move of one message leaves the others alone.
LEMMA MoveElsewhere ==
    ASSUME SnoozeInv, NEW who \in {"snooze", "user", "scheduler"}, NEW m \in Mail,
           NEW to \in {"inbox", "snoozed", "archive"}, Replace(who, m, to),
           \A k \in Mail \ {m} : snoozing'[k] = snoozing[k]
    PROVE  \A k \in Mail \ {m} : k \notin unpaired' => OneMover(k)' /\ Paired(k)'
  <1> SUFFICES ASSUME NEW k \in Mail \ {m}, k \notin unpaired' PROVE OneMover(k)' /\ Paired(k)'
    OBVIOUS
  <1>1. k \notin unpaired BY DEF Replace
  <1>2. OneMover(k) /\ Paired(k) BY <1>1 DEF SnoozeInv
  <1>3. place'[k] = place[k] /\ returnAt'[k] = returnAt[k]
    BY DEF Replace, SnoozeInv, SnoozeTypes
  <1>4. \A mover : mover[2] = k => (mover \in clears' <=> mover \in clears) BY DEF Replace
  <1> QED BY <1>2, <1>3, <1>4, OthersKeep

\* Moves change the mailbox and add a row to clear.
LEMMA MoveTypes ==
    ASSUME SnoozeInv, NEW who \in {"snooze", "user", "scheduler"}, NEW m \in Mail,
           NEW to \in {"inbox", "snoozed", "archive"}, Replace(who, m, to)
    PROVE  /\ place' \in [Mail -> {"inbox", "snoozed", "archive"}] /\ place'[m] = to
           /\ returnAt' \in [Mail -> Nat] /\ returnAt' = returnAt
           /\ clears' \in SUBSET ({"snooze", "user", "scheduler"} \X Mail)
           /\ m \notin unpaired' =>
                snoozing[m] = 0 /\ \A mover \in clears' : mover[2] = m => mover = <<who, m>>
  <1>1. place' \in [Mail -> {"inbox", "snoozed", "archive"}] /\ place'[m] = to
    BY DEF Replace, SnoozeInv, SnoozeTypes
  <1>2. returnAt' \in [Mail -> Nat] /\ returnAt' = returnAt BY DEF Replace, SnoozeInv, SnoozeTypes
  <1>3. clears' = clears \cup {<<who, m>>} BY DEF Replace
  <1>4. clears' \in SUBSET ({"snooze", "user", "scheduler"} \X Mail)
    BY <1>3 DEF SnoozeInv, SnoozeTypes
  <1>5. ASSUME m \notin unpaired'
        PROVE  snoozing[m] = 0 /\ \A mover \in clears' : mover[2] = m => mover = <<who, m>>
    <2>1. ~(snoozing[m] > 0) /\ ~(\E other \in clears : other[2] = m) BY <1>5 DEF Replace
    <2>2. snoozing[m] \in Nat BY DEF SnoozeInv, SnoozeTypes
    <2> QED BY <1>3, <2>1, <2>2
  <1> QED BY <1>1, <1>2, <1>4, <1>5

\* A snooze parks the message first.
LEMMA SnoozeMoveKeeps == ASSUME SnoozeInv, NEW m \in Mail, SnoozeMove(m) PROVE SnoozeInv'
  <1>1. PICK until \in Untils : /\ Replace("snooze", m, "snoozed")
                                /\ snoozing' = [snoozing EXCEPT ![m] = until]
                                /\ UNCHANGED <<returning, now>>
    BY DEF SnoozeMove
  <1>2. until \in Nat /\ until > 0 BY AutomationAssumption
  <1>3. snoozing \in [Mail -> Nat] BY DEF SnoozeInv, SnoozeTypes
  <1>4. /\ snoozing' \in [Mail -> Nat] /\ snoozing'[m] = until
        /\ \A k \in Mail \ {m} : snoozing'[k] = snoozing[k]
    BY <1>1, <1>2, <1>3
  <1>5. /\ place' \in [Mail -> {"inbox", "snoozed", "archive"}] /\ place'[m] = "snoozed"
        /\ returnAt' \in [Mail -> Nat]
        /\ clears' \in SUBSET ({"snooze", "user", "scheduler"} \X Mail)
        /\ m \notin unpaired' =>
                snoozing[m] = 0 /\ \A mover \in clears' : mover[2] = m => mover = <<"snooze", m>>
    BY <1>1, MoveTypes
  <1>6. SnoozeTypes' BY <1>1, <1>4, <1>5 DEF SnoozeInv, SnoozeTypes
  <1>7. m \notin unpaired' => OneMover(m)' /\ Paired(m)'
    BY <1>2, <1>4, <1>5 DEF OneMover, Paired
  <1>8. \A k \in Mail \ {m} : k \notin unpaired' => OneMover(k)' /\ Paired(k)'
    BY <1>1, <1>4, MoveElsewhere
  <1> QED BY <1>6, <1>7, <1>8 DEF SnoozeInv

\* The user and the scheduler take it out first.
LEMMA TakenOutKeeps ==
    ASSUME SnoozeInv, NEW who \in {"user", "scheduler"}, NEW m \in Mail,
           NEW to \in {"inbox", "archive"}, Replace(who, m, to),
           snoozing' = snoozing, returning' \in SUBSET Mail
    PROVE  SnoozeInv'
  <1>1. /\ place' \in [Mail -> {"inbox", "snoozed", "archive"}] /\ place'[m] = to
        /\ returnAt' \in [Mail -> Nat]
        /\ clears' \in SUBSET ({"snooze", "user", "scheduler"} \X Mail)
        /\ m \notin unpaired' =>
                snoozing[m] = 0 /\ \A mover \in clears' : mover[2] = m => mover = <<who, m>>
    BY MoveTypes
  <1>2. SnoozeTypes' BY <1>1 DEF SnoozeInv, SnoozeTypes
  <1>3. <<who, m>> \in clears' BY DEF Replace
  <1>4. m \notin unpaired' => OneMover(m)' /\ Paired(m)'
    <2> SUFFICES ASSUME m \notin unpaired' PROVE OneMover(m)' /\ Paired(m)' OBVIOUS
    <2>1. place'[m] # "snoozed" /\ snoozing'[m] = 0 BY <1>1
    <2>2. \A mover \in clears' : mover[2] = m => mover[1] # "snooze" BY <1>1
    <2>3. \E mover \in clears' : mover[2] = m BY <1>3
    <2> QED BY <2>1, <2>2, <2>3 DEF OneMover, Paired
  <1>5. \A k \in Mail \ {m} : k \notin unpaired' => OneMover(k)' /\ Paired(k)'
    BY MoveElsewhere
  <1> QED BY <1>2, <1>4, <1>5 DEF SnoozeInv

\* The row goes after the move.
LEMMA ClearKeeps ==
    ASSUME SnoozeInv, NEW who \in {"snooze", "user", "scheduler"}, NEW m \in Mail, ClearRow(who, m)
    PROVE  SnoozeInv'
  <1>1. /\ <<who, m>> \in clears /\ clears' = clears \ {<<who, m>>}
        /\ returnAt' = [returnAt EXCEPT ![m] = 0]
        /\ UNCHANGED <<place, snoozing, returning, unpaired>>
    BY DEF ClearRow, RowDeleted
  <1>2. SnoozeTypes' BY <1>1 DEF SnoozeInv, SnoozeTypes
  <1>3. returnAt'[m] = 0 /\ \A k \in Mail \ {m} : returnAt'[k] = returnAt[k]
    BY <1>1 DEF SnoozeInv, SnoozeTypes
  <1>4. ASSUME NEW k \in Mail \ {m}, k \notin unpaired PROVE OneMover(k)' /\ Paired(k)'
    <2>1. OneMover(k) /\ Paired(k) BY <1>4 DEF SnoozeInv
    <2>2. \A mover : mover[2] = k => (mover \in clears' <=> mover \in clears) BY <1>1
    <2> QED BY <1>1, <1>3, <2>1, <2>2, OthersKeep
  <1>5. ASSUME m \notin unpaired PROVE OneMover(m)' /\ Paired(m)'
    <2>1. OneMover(m) BY <1>5 DEF SnoozeInv
    <2>2. OneMover(m)' BY <1>1, <2>1 DEF OneMover
    <2>3. snoozing[m] = 0 => place[m] # "snoozed" BY <1>1, <2>1 DEF OneMover
    <2>4. Paired(m)' BY <1>1, <1>3, <2>3 DEF Paired
    <2> QED BY <2>2, <2>4
  <1> QED BY <1>1, <1>2, <1>4, <1>5 DEF SnoozeInv

\* The row is inserted once the snooze has cleared the old one, or is lost.
LEMMA SnoozeRowKeeps ==
    ASSUME SnoozeInv, NEW m \in Mail, SnoozeRow(m) \/ SnoozeRowLost(m)
    PROVE  SnoozeInv'
  <1>1. /\ snoozing[m] > 0 /\ <<"snooze", m>> \notin clears
        /\ snoozing' = [snoozing EXCEPT ![m] = 0]
        /\ UNCHANGED <<place, clears, returning>>
    BY DEF SnoozeRow, SnoozeRowLost, InsertDue
  <1>2. /\ returnAt' \in [Mail -> Nat]
        /\ \A k \in Mail \ {m} : returnAt'[k] = returnAt[k]
        /\ unpaired \subseteq unpaired'
        /\ m \notin unpaired' => returnAt'[m] = snoozing[m]
    BY DEF SnoozeRow, SnoozeRowLost, RowInserted, SnoozeInv, SnoozeTypes
  <1>3. /\ snoozing' \in [Mail -> Nat] /\ snoozing'[m] = 0
        /\ \A k \in Mail \ {m} : snoozing'[k] = snoozing[k]
    BY <1>1 DEF SnoozeInv, SnoozeTypes
  <1>4. SnoozeTypes' BY <1>1, <1>2, <1>3 DEF SnoozeInv, SnoozeTypes
  <1>5. ASSUME NEW k \in Mail \ {m}, k \notin unpaired' PROVE OneMover(k)' /\ Paired(k)'
    <2>1. OneMover(k) /\ Paired(k) BY <1>2, <1>5 DEF SnoozeInv
    <2> QED BY <1>1, <1>2, <1>3, <2>1, OthersKeep
  <1>6. ASSUME m \notin unpaired' PROVE OneMover(m)' /\ Paired(m)'
    <2>1. OneMover(m) BY <1>2, <1>6 DEF SnoozeInv
    <2>2. place[m] = "snoozed" /\ \A mover \in clears : mover[2] = m => mover[1] = "snooze"
      BY <1>1, <2>1 DEF OneMover
    <2>3. \A mover \in clears : mover = <<mover[1], mover[2]>> BY DEF SnoozeInv, SnoozeTypes
    <2>4. \A mover \in clears : mover[2] # m BY <1>1, <2>2, <2>3
    <2> QED BY <1>1, <1>2, <1>3, <1>6, <2>2, <2>4 DEF OneMover, Paired
  <1> QED BY <1>4, <1>5, <1>6 DEF SnoozeInv

\* Whatever happens, a message nobody crossed is parked exactly as long as it has
\* a return time, once its mover is through (snooze, unsnooze,
\* auto_return_snoozed_messages).
THEOREM RowAlwaysPairsPlace == AutomationSpec => []RowPairsPlace
  <1>1. AutomationInit => SnoozeInv
    BY DEF AutomationInit, SnoozeInv, SnoozeTypes, OneMover, Paired
  <1>2. SnoozeInv /\ [AutomationNext]_autoVars => SnoozeInv'
    <2> SUFFICES ASSUME SnoozeInv, [AutomationNext]_autoVars PROVE SnoozeInv' OBVIOUS
    <2>1. CASE UNCHANGED snoozeVars
      BY <2>1 DEF snoozeVars, SnoozeInv, SnoozeTypes, OneMover, Paired
    <2>2. ASSUME NEW m \in Snoozable, SnoozeMove(m) \/ SnoozeRow(m) \/ SnoozeRowLost(m) \/ MoveOut(m)
          PROVE  SnoozeInv'
      <3>1. m \in Mail BY AutomationAssumption
      <3>2. CASE SnoozeMove(m) BY <3>1, <3>2, SnoozeMoveKeeps
      <3>3. CASE SnoozeRow(m) \/ SnoozeRowLost(m) BY <3>1, <3>3, SnoozeRowKeeps
      <3>4. CASE MoveOut(m)
        <4>1. PICK to \in {"inbox", "archive"} : Replace("user", m, to) BY <3>4 DEF MoveOut
        <4>2. snoozing' = snoozing /\ returning' \in SUBSET Mail
          BY <3>4 DEF MoveOut, SnoozeInv, SnoozeTypes
        <4> QED BY <3>1, <4>1, <4>2, TakenOutKeeps
      <3> QED BY <2>2, <3>2, <3>3, <3>4
    <2>3. ASSUME NEW m \in Snoozable, NEW who \in {"snooze", "user", "scheduler"}, ClearRow(who, m)
          PROVE  SnoozeInv'
      BY <2>3, ClearKeeps, AutomationAssumption
    <2>4. CASE ListDue \/ TimePasses
      <3>1. UNCHANGED <<place, returnAt, snoozing, clears, unpaired>> /\ returning' \in SUBSET Mail
        BY <2>4 DEF ListDue, TimePasses, SnoozeInv, SnoozeTypes
      <3> QED BY <3>1 DEF SnoozeInv, SnoozeTypes, OneMover, Paired
    <2>5. CASE ReturnOne
      <3>1. PICK m \in returning : /\ Replace("scheduler", m, "inbox")
                                   /\ returning' = returning \ {m} /\ UNCHANGED <<snoozing, now>>
        BY <2>5 DEF ReturnOne
      <3>2. m \in Mail /\ returning' \in SUBSET Mail BY <3>1 DEF SnoozeInv, SnoozeTypes
      <3> QED BY <3>1, <3>2, TakenOutKeeps
    <2> QED BY <2>1, <2>2, <2>3, <2>4, <2>5 DEF AutomationNext, SnoozeNext, autoVars
  <1>3. SnoozeInv => RowPairsPlace BY DEF SnoozeInv, Paired, RowPairsPlace
  <1> QED BY <1>1, <1>2, <1>3, PTL DEF AutomationSpec
=============================================================================
