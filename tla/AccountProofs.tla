----------------------------- MODULE AccountProofs --------------------------
(***************************************************************************)
(* An account at home, for every value of the bounds: the status the       *)
(* supervisor shows for it, and its configuration across the files, the    *)
(* snapshot, the secret store and the runtime.                             *)
(***************************************************************************)
EXTENDS AccountStatus, AccountConfig, TLAPS

-----------------------------------------------------------------------------
(***************************************************************************)
(* The status, for every number of cycles and generations.                 *)
(***************************************************************************)

\* A forwarder, and a task about to connect, belong to a minted cycle.
MintedCycles ==
    /\ \A k \in Cycles : fwd[k].pc # "none" => k <= token
    /\ rt.cycle <= token

\* The live task writes under the current generation; an aborted one can share
\* it only until the account is started again.
LiveGen ==
    /\ rt.pc \in Running \cup {"booted"} => rt.gen = gen
    /\ rt.gen <= gen
    /\ \A z \in ghost : z.gen <= gen
    /\ rt.pc \notin {"off", "spawned"} => \A z \in ghost : z.gen < gen

IInv == TypeOK /\ MintedCycles /\ LiveGen /\ SyncingIsReal /\ DisabledIsShown

USE StatusConstants

\* What booting and minting a cycle do to the task's record.
LEMMA TaskRecords ==
    ASSUME NEW t \in Tasks
    PROVE  /\ \A g \in 0..MaxGens :
                LET u == [t EXCEPT !.pc = "booted", !.gen = g] IN
                u \in Tasks /\ u.pc = "booted" /\ u.gen = g /\ u.cycle = t.cycle
           /\ \A k \in 0..MaxCycles :
                LET u == [t EXCEPT !.pc = "minted", !.cycle = k] IN
                u \in Tasks /\ u.pc = "minted" /\ u.gen = t.gen /\ u.cycle = k
  BY DEF Tasks, Running

\* The invariant holds before the account is started.
LEMMA InitInv == Init => IInv
  BY DEF Init, IInv, TypeOK, MintedCycles, LiveGen, SyncingIsReal, DisabledIsShown,
         NoTask, NoForwarder, Tasks, Cycles, Running, Outcomes

\* The steps of the runtime task preserve it.
LEMMA TaskInv ==
    ASSUME IInv, \/ Spawn \/ Boot \/ ShowBooted \/ MintCycle \/ Connect \/ SettleCycle
                 \/ ArmTimeout \/ InvalidateCycle \/ MarkArmTimeout
    PROVE  IInv'
<1>. USE DEF IInv, TypeOK, MintedCycles, LiveGen, SyncingIsReal, DisabledIsShown, Tasks,
             Running, Outcomes, Cycles
<1>1. CASE Spawn           BY <1>1 DEF Spawn
<1>2. CASE Boot
  <2>1. /\ gen' = gen + 1 /\ gen < MaxGens
        /\ rt' = [rt EXCEPT !.pc = "booted", !.gen = gen + 1]
        /\ UNCHANGED <<status, progress, token, fwd, ghost>>
    BY <1>2 DEF Boot
  <2>2. rt' \in Tasks /\ rt'.pc = "booted" /\ rt'.gen = gen' /\ rt'.cycle = rt.cycle
    <3>1. rt \in Tasks /\ gen + 1 \in 0..MaxGens
      BY <2>1
    <3>. QED BY ONLY <2>1, <3>1, TaskRecords
  <2>3. \A z \in ghost : z.gen < gen'
    BY <2>1
  <2>4. TypeOK' /\ MintedCycles'
    BY <2>1, <2>2
  <2>5. LiveGen'
    BY <2>1, <2>2, <2>3
  <2>6. SyncingIsReal' /\ DisabledIsShown'
    BY <2>2
  <2>. QED BY <2>4, <2>5, <2>6
<1>3. CASE ShowBooted      BY <1>3 DEF ShowBooted, Shown
<1>4. CASE MintCycle
  <2>1. /\ rt.pc = "idle" /\ token' = token + 1 /\ token < MaxCycles
        /\ rt' = [rt EXCEPT !.pc = "minted", !.cycle = token + 1]
        /\ UNCHANGED <<status, progress, gen, fwd, ghost>>
    BY <1>4 DEF MintCycle
  <2>2. rt' \in Tasks /\ rt'.pc = "minted" /\ rt'.gen = rt.gen /\ rt'.cycle = token'
    <3>1. rt \in Tasks /\ token + 1 \in 0..MaxCycles
      BY <2>1
    <3>. QED BY ONLY <2>1, <3>1, TaskRecords
  <2>3. TypeOK' /\ MintedCycles'
    BY <2>1, <2>2
  <2>4. LiveGen' /\ SyncingIsReal' /\ DisabledIsShown'
    BY <2>1, <2>2
  <2>. QED BY <2>3, <2>4
<1>5. CASE Connect
  <2>1. /\ rt.pc = "minted" /\ rt' = [rt EXCEPT !.pc = "syncing"]
        /\ UNCHANGED <<gen, token, ghost>> /\ ShowConnecting(rt)
    BY <1>5 DEF Connect
  <2>2. /\ fwd' \in [Cycles -> [pc : {"none", "open", "checked"}, gen : 0..MaxGens]]
        /\ \A k \in Cycles : fwd'[k].pc # "none" => k <= token
    <3>1. CASE UNCHANGED fwd
      BY <3>1
    <3>2. CASE fwd' = [fwd EXCEPT ![rt.cycle] = [pc |-> "open", gen |-> rt.gen]]
      <4>1. [pc |-> "open", gen |-> rt.gen]
              \in [pc : {"none", "open", "checked"}, gen : 0..MaxGens]
        OBVIOUS
      <4>2. \A k \in Cycles : k # rt.cycle => fwd'[k] = fwd[k]
        BY <3>2
      <4>. QED BY <3>2, <4>1, <4>2
    <3>. QED BY <1>5, <3>1, <3>2 DEF Connect
  <2>3. status' \in {status, "Syncing"} /\ progress' \in 0..token
    BY <2>1 DEF ShowConnecting, Shown
  <2>. QED BY <2>1, <2>2, <2>3
<1>6. CASE SettleCycle     BY <1>6 DEF SettleCycle, Shown
<1>7. CASE ArmTimeout      BY <1>7 DEF ArmTimeout
<1>8. CASE InvalidateCycle BY <1>8 DEF InvalidateCycle
<1>9. CASE MarkArmTimeout  BY <1>9 DEF MarkArmTimeout, Shown
<1>. QED BY <1>1, <1>2, <1>3, <1>4, <1>5, <1>6, <1>7, <1>8, <1>9

\* So do the forwarders: they never touch the status.
LEMMA ForwarderInv ==
    ASSUME IInv, NEW k \in Cycles, CheckProgress(k) \/ CommitProgress(k) \/ CloseForwarder(k)
    PROVE  IInv'
<1>. USE DEF IInv, TypeOK, MintedCycles, LiveGen, SyncingIsReal, DisabledIsShown, Tasks,
             Cycles
<1>1. CASE CheckProgress(k)  BY <1>1 DEF CheckProgress
<1>2. CASE CommitProgress(k) BY <1>2 DEF CommitProgress
<1>3. CASE CloseForwarder(k) BY <1>3 DEF CloseForwarder, NoForwarder
<1>. QED BY <1>1, <1>2, <1>3

\* So do the watchdog, the account's start and stop, and the last write of an
\* aborted task, which is stale by the time anybody relies on the status.
LEMMA SupervisorInv ==
    ASSUME IInv, Panic \/ MarkFaulted \/ StopAccount \/ LastWrite \/ Disable \/ ShowDisabled
    PROVE  IInv'
<1>. USE DEF IInv, TypeOK, MintedCycles, LiveGen, SyncingIsReal, DisabledIsShown, Tasks,
             Running, Outcomes, Cycles
<1>1. CASE Panic        BY <1>1 DEF Panic
<1>2. CASE MarkFaulted  BY <1>2 DEF MarkFaulted
<1>3. CASE StopAccount  BY <1>3 DEF StopAccount, Writing
<1>4. CASE LastWrite
  <2>1. PICK z \in ghost :
          /\ ghost' = ghost \ {z}
          /\ \/ z.pc = "booted" /\ Shown(z.gen, "Offline", 0)
             \/ z.pc = "minted" /\ ShowConnecting(z)
             \/ z.pc = "syncing" /\ \E s \in Outcomes : Shown(z.gen, s, 0)
             \/ z.pc = "abandoned" /\ Shown(z.gen, "Degraded", 0)
    BY <1>4 DEF LastWrite
  <2>2. UNCHANGED <<gen, token, rt, fwd>>
    BY <1>4 DEF LastWrite
  <2>3. /\ status' \in Outcomes \cup {"Syncing", "Disabled"} /\ progress' \in 0..token
        /\ z.gen < gen => status' = status
    BY <2>1 DEF Shown, ShowConnecting
  <2>. QED BY <2>1, <2>2, <2>3
<1>5. CASE Disable      BY <1>5 DEF Disable
<1>6. CASE ShowDisabled
  <2>1. /\ rt.pc = "disabling" /\ status' = "Disabled" /\ progress' = 0
        /\ rt' = [rt EXCEPT !.pc = "disabled"] /\ UNCHANGED <<gen, token, fwd, ghost>>
    BY <1>6 DEF ShowDisabled
  <2>2. rt' \in Tasks /\ rt'.pc = "disabled" /\ rt'.gen = rt.gen /\ rt'.cycle = rt.cycle
    BY <2>1
  <2>3. TypeOK' /\ MintedCycles'
    BY <2>1, <2>2
  <2>4. LiveGen' /\ SyncingIsReal' /\ DisabledIsShown'
    BY <2>1, <2>2
  <2>. QED BY <2>3, <2>4
<1>. QED BY <1>1, <1>2, <1>3, <1>4, <1>5, <1>6

\* The inductive invariant holds in every reachable state.
THEOREM StatusInvariant == Spec => []IInv
<1>1. IInv /\ [Next]_vars => IInv'
  <2>. SUFFICES ASSUME IInv, [Next]_vars PROVE IInv'
    OBVIOUS
  <2>1. CASE UNCHANGED vars
    BY <2>1 DEF vars, IInv, TypeOK, MintedCycles, LiveGen, SyncingIsReal, DisabledIsShown
  <2>. QED BY <2>1, TaskInv, ForwarderInv, SupervisorInv DEF Next
<1>. QED BY <1>1, InitInv, PTL DEF Spec

\* Tokens, generations and every task's record stay in range.
THEOREM StatusTypes == Spec => []TypeOK
<1>1. IInv => TypeOK
  BY DEF IInv
<1>. QED BY <1>1, StatusInvariant, PTL

\* However many cycles and restarts there are, a late write never revives Syncing
\* over a settled status.
THEOREM NoStaleSyncing == Spec => []SyncingIsReal
<1>1. IInv => SyncingIsReal
  BY DEF IInv
<1>. QED BY <1>1, StatusInvariant, PTL

\* Nothing an aborted task still writes hides that the account is disabled.
THEOREM DisabledStays == Spec => []DisabledIsShown
<1>1. IInv => DisabledIsShown
  BY DEF IInv
<1>. QED BY <1>1, StatusInvariant, PTL

-----------------------------------------------------------------------------
(***************************************************************************)
(* The configuration, for every number of commands and stops.  Commands    *)
(* are programs of steps; the invariant says, for the step a command is    *)
(* about to take, what it has written so far and what it still carries     *)
(* (Facts).  The secret's part (SecretSafe) holds however commands overlap;*)
(* the rest (Story) while none did, when at most one is under way.         *)
(***************************************************************************)

\* What a command may still have to do, by the kind of command.
Saving == {<<"secret", "insert", "project", "start">>, <<"insert", "project", "start">>,
           <<"secret", "file", "snapshot", "project", "start">>,
           <<"unsecret", "file", "snapshot", "project", "start">>,
           <<"file", "snapshot", "project", "start">>, <<"snapshot", "project", "start">>,
           <<"project", "start">>, <<"start">>}
Picturing == {<<"picture", "file", "snapshot", "project", "unpicture">>,
              <<"file", "snapshot", "project", "unpicture">>,
              <<"snapshot", "project", "unpicture">>, <<"project", "unpicture">>, <<"unpicture">>}
Deleting ==
    {<<"stop", "forget", "unlogo", "undefault", "unfile", "unsnapshot", "unproject", "purge">>,
     <<"forget", "unlogo", "undefault", "unfile", "unsnapshot", "unproject", "purge">>,
     <<"unlogo", "undefault", "unfile", "unsnapshot", "unproject", "purge">>,
     <<"undefault", "unfile", "unsnapshot", "unproject", "purge">>,
     <<"unfile", "unsnapshot", "unproject", "purge">>, <<"unsnapshot", "unproject", "purge">>,
     <<"unproject", "purge">>, <<"purge">>}
Settling == {<<"appfile", "appsnapshot">>, <<"appsnapshot">>,
             <<"viewfile", "viewsnapshot">>, <<"viewsnapshot">>}
Programs == Saving \cup Picturing \cup Deleting \cup Settling

\* The program goes on with one of these steps.
GoesOn(p, steps) == p \in Programs /\ Head(p) \in steps

-----------------------------------------------------------------------------
\* The steps of a save, in their order.
LEMMA SavingOrder ==
  ASSUME NEW p \in Saving
  PROVE  /\ p # <<>> /\ p # <<"new">> /\ p \notin Picturing
         /\ Head(p) \in {"secret", "unsecret", "insert", "file", "snapshot", "project", "start"}
         /\ Head(p) = "secret" => Tail(p) \in Saving /\ Head(Tail(p)) \in {"insert", "file"}
         /\ Head(p) = "unsecret" => Tail(p) \in Saving /\ Head(Tail(p)) = "file"
         /\ Head(p) = "insert" => Tail(p) \in Saving /\ Head(Tail(p)) = "project"
         /\ Head(p) = "file" => Tail(p) \in Saving /\ Head(Tail(p)) = "snapshot"
         /\ Head(p) = "snapshot" => Tail(p) \in Saving /\ Head(Tail(p)) = "project"
         /\ Head(p) = "project" => Tail(p) \in Saving /\ Head(Tail(p)) = "start"
         /\ Head(p) = "start" => Tail(p) = <<>>
  <1>1. CASE p = <<"secret", "insert", "project", "start">> BY <1>1 DEF Saving, Picturing
  <1>2. CASE p = <<"insert", "project", "start">> BY <1>2 DEF Saving, Picturing
  <1>3. CASE p = <<"secret", "file", "snapshot", "project", "start">> BY <1>3 DEF Saving, Picturing
  <1>4. CASE p = <<"unsecret", "file", "snapshot", "project", "start">> BY <1>4 DEF Saving, Picturing
  <1>5. CASE p = <<"file", "snapshot", "project", "start">> BY <1>5 DEF Saving, Picturing
  <1>6. CASE p = <<"snapshot", "project", "start">> BY <1>6 DEF Saving, Picturing
  <1>7. CASE p = <<"project", "start">> BY <1>7 DEF Saving, Picturing
  <1>8. CASE p = <<"start">> BY <1>8 DEF Saving, Picturing
  <1> QED BY <1>1, <1>2, <1>3, <1>4, <1>5, <1>6, <1>7, <1>8 DEF Saving

\* The steps of a new logo, in their order.
LEMMA PicturingOrder ==
  ASSUME NEW p \in Picturing
  PROVE  /\ p # <<>> /\ p # <<"new">>
         /\ Head(p) \in {"picture", "file", "snapshot", "project", "unpicture"}
         /\ Head(p) = "picture" => Tail(p) \in Picturing /\ Head(Tail(p)) = "file"
         /\ Head(p) = "file" => Tail(p) \in Picturing /\ Head(Tail(p)) = "snapshot"
         /\ Head(p) = "snapshot" => Tail(p) \in Picturing /\ Head(Tail(p)) = "project"
         /\ Head(p) = "project" => Tail(p) \in Picturing /\ Head(Tail(p)) = "unpicture"
         /\ Head(p) = "unpicture" => Tail(p) = <<>>
  <1>1. CASE p = <<"picture", "file", "snapshot", "project", "unpicture">> BY <1>1 DEF Picturing
  <1>2. CASE p = <<"file", "snapshot", "project", "unpicture">> BY <1>2 DEF Picturing
  <1>3. CASE p = <<"snapshot", "project", "unpicture">> BY <1>3 DEF Picturing
  <1>4. CASE p = <<"project", "unpicture">> BY <1>4 DEF Picturing
  <1>5. CASE p = <<"unpicture">> BY <1>5 DEF Picturing
  <1> QED BY <1>1, <1>2, <1>3, <1>4, <1>5 DEF Picturing

\* The steps of a deletion, in their order.
LEMMA DeletingOrder ==
  ASSUME NEW p \in Deleting
  PROVE  /\ p # <<>> /\ p # <<"new">> /\ p \notin Picturing
         /\ Head(p) \in {"stop", "forget", "unlogo", "undefault", "unfile", "unsnapshot",
                         "unproject", "purge"}
         /\ Head(p) = "stop" => Tail(p) \in Deleting /\ Head(Tail(p)) = "forget"
         /\ Head(p) = "forget" => Tail(p) \in Deleting /\ Head(Tail(p)) = "unlogo"
         /\ Head(p) = "unlogo" => Tail(p) \in Deleting /\ Head(Tail(p)) = "undefault"
         /\ Head(p) = "undefault" => Tail(p) \in Deleting /\ Head(Tail(p)) = "unfile"
         /\ Head(p) = "unfile" => Tail(p) \in Deleting /\ Head(Tail(p)) = "unsnapshot"
         /\ Head(p) = "unsnapshot" => Tail(p) \in Deleting /\ Head(Tail(p)) = "unproject"
         /\ Head(p) = "unproject" => Tail(p) \in Deleting /\ Head(Tail(p)) = "purge"
         /\ Head(p) = "purge" => Tail(p) = <<>>
  <1>1. CASE p = <<"stop", "forget", "unlogo", "undefault", "unfile", "unsnapshot", "unproject", "purge">> BY <1>1 DEF Deleting, Picturing
  <1>2. CASE p = <<"forget", "unlogo", "undefault", "unfile", "unsnapshot", "unproject", "purge">> BY <1>2 DEF Deleting, Picturing
  <1>3. CASE p = <<"unlogo", "undefault", "unfile", "unsnapshot", "unproject", "purge">> BY <1>3 DEF Deleting, Picturing
  <1>4. CASE p = <<"undefault", "unfile", "unsnapshot", "unproject", "purge">> BY <1>4 DEF Deleting, Picturing
  <1>5. CASE p = <<"unfile", "unsnapshot", "unproject", "purge">> BY <1>5 DEF Deleting, Picturing
  <1>6. CASE p = <<"unsnapshot", "unproject", "purge">> BY <1>6 DEF Deleting, Picturing
  <1>7. CASE p = <<"unproject", "purge">> BY <1>7 DEF Deleting, Picturing
  <1>8. CASE p = <<"purge">> BY <1>8 DEF Deleting, Picturing
  <1> QED BY <1>1, <1>2, <1>3, <1>4, <1>5, <1>6, <1>7, <1>8 DEF Deleting

\* The steps of the settings and of a smart mailbox, in their order.
LEMMA SettlingOrder ==
  ASSUME NEW p \in Settling
  PROVE  /\ p # <<>> /\ p # <<"new">> /\ p \notin Picturing
         /\ Head(p) \in {"appfile", "appsnapshot", "viewfile", "viewsnapshot"}
         /\ Head(p) = "appfile" => Tail(p) \in Settling /\ Head(Tail(p)) = "appsnapshot"
         /\ Head(p) = "viewfile" => Tail(p) \in Settling /\ Head(Tail(p)) = "viewsnapshot"
         /\ Head(p) \in {"appsnapshot", "viewsnapshot"} => Tail(p) = <<>>
  <1>1. CASE p = <<"appfile", "appsnapshot">> BY <1>1 DEF Settling, Picturing
  <1>2. CASE p = <<"appsnapshot">> BY <1>2 DEF Settling, Picturing
  <1>3. CASE p = <<"viewfile", "viewsnapshot">> BY <1>3 DEF Settling, Picturing
  <1>4. CASE p = <<"viewsnapshot">> BY <1>4 DEF Settling, Picturing
  <1> QED BY <1>1, <1>2, <1>3, <1>4 DEF Settling

-----------------------------------------------------------------------------
(* The invariant.                                                          *)

Sources == [there : BOOLEAN, enabled : BOOLEAN, reachable : BOOLEAN, secretRef : BOOLEAN, logo : Nat]
SettingsDocs == [default : BOOLEAN, layout : Nat]

ConfigTypes ==
    /\ program \in [CommandIds -> Programs \cup {<<>>, <<"new">>}]
    /\ document \in [CommandIds -> Sources] /\ settingsDoc \in [CommandIds -> SettingsDocs]
    /\ sourceFile \in Sources /\ sourceSnap \in Sources /\ runningAs \in Sources
    /\ settingsFile \in SettingsDocs /\ settingsSnap \in SettingsDocs
    /\ viewFile \in Nat /\ viewSnap \in Nat

\* The next step of a command that is under way.
Step(c) == Head(program[c])

\* A credential is kept before any document that refers to it is written, and
\* dropped only by commands that were asked to.
Clears == {"unsecret", "stop", "forget", "unlogo", "undefault", "unfile", "unsnapshot",
           "unproject", "purge"}
SecretSafe ==
    /\ \A c \in CommandIds : Steps(c) /\ Step(c) \in Clears => cleared
    /\ ~cleared =>
          /\ (sourceFile.secretRef \/ sourceSnap.secretRef) => secretHeld
          /\ \A c \in CommandIds :
                Steps(c) /\ Step(c) # "secret" /\ document[c].secretRef => secretHeld

\* A stopped backend runs nothing; without an overlap one command runs at most.
OneAtATime ==
    /\ ~assembled => Quiet /\ runningAs = NoSource
    /\ ~overlapped => \A c, d \in CommandIds : Steps(c) /\ Steps(d) => c = d

\* What holds in every state when no two commands overlapped.
LogoKept == (~halfSaved /\ ~cleared /\ sourceFile.logo > 0) => sourceFile.logo \in logoFiles
DefaultKept == settingsFile.default => sourceFile.there
RuntimeKept == runningAs.there => sourceSnap.there

\* File and snapshot, when a command is about to take step s.
Level(s) ==
    /\ s \notin {"snapshot", "unsnapshot"} => sourceSnap = sourceFile
    /\ s # "viewsnapshot" => viewSnap = viewFile
    /\ s # "appsnapshot" => settingsSnap.default = settingsFile.default

\* What a save has to write, and has written.
SaveHolds(s, doc) ==
    /\ s \in {"secret", "unsecret", "insert", "picture", "file", "snapshot", "project", "start"} => doc.there
    /\ s \in {"snapshot", "project", "start", "unpicture"} => sourceFile = doc

\* The logo a save carries: the one the account has, or the next one.
LogoHolds(p, s, doc) ==
    /\ s = "insert" => doc.logo = 0
    /\ (s = "file" /\ p \notin Picturing) \/ s = "unsecret" => doc.logo = sourceFile.logo
    /\ s = "secret" => doc.logo \in {0, sourceFile.logo}
    /\ s = "secret" /\ Head(Tail(p)) = "insert" => doc.logo = 0
    /\ s = "secret" /\ Head(Tail(p)) = "file" => doc.logo = sourceFile.logo
    /\ s \in {"picture", "file"} /\ p \in Picturing => doc.logo = sourceFile.logo + 1
    /\ s = "file" /\ p \in Picturing => doc.logo \in logoFiles

\* What a deletion has taken away.
DeleteHolds(s) ==
    /\ s \in {"forget", "unlogo", "undefault", "unfile", "unsnapshot"} => ~runningAs.there
    /\ s \in {"unfile", "unsnapshot"} => ~settingsFile.default
    /\ s = "unsnapshot" => sourceFile = NoSource

\* What a settings or smart mailbox write has written.
SettleHolds(s, set) ==
    /\ s = "appfile" /\ set.default => sourceFile.there
    /\ s = "appsnapshot" => settingsFile.default = set.default
    /\ s = "viewsnapshot" => viewFile = set.layout

\* Everything that holds of a command with program p, about to take step s.
Facts(p, s, doc, set) == /\ Level(s) /\ SaveHolds(s, doc) /\ LogoHolds(p, s, doc)
                         /\ DeleteHolds(s) /\ SettleHolds(s, set)

Story ==
    ~overlapped =>
       /\ LogoKept /\ DefaultKept /\ RuntimeKept
       /\ assembled /\ Quiet => Level("rest")
       /\ \A c \in CommandIds :
             Steps(c) => Facts(program[c], Step(c), document[c], settingsDoc[c])

ConfigInv == ConfigTypes /\ SecretSafe /\ OneAtATime /\ Story

-----------------------------------------------------------------------------
\* The end is not a program.
LEMMA EmptyIsOver == <<>> \notin Programs
  BY SavingOrder, PicturingOrder, DeletingOrder, SettlingOrder DEF Programs

\* What every program is followed by: another program or the end, and only a
\* command that clears goes on clearing.
LEMMA ProgramOrder ==
  ASSUME NEW p \in Programs
  PROVE  /\ p # <<>> /\ p # <<"new">>
         /\ Tail(p) \in Programs \cup {<<>>}
         /\ Tail(p) \in Programs => Head(Tail(p)) # "secret"
         /\ Tail(p) \in Programs /\ Head(Tail(p)) \in Clears => Head(p) \in Clears
  <1>1. CASE p \in Saving
    <2>1. /\ p # <<>> /\ p # <<"new">> /\ Tail(p) \in Saving \cup {<<>>}
          /\ Tail(p) \in Saving => Head(Tail(p)) # "secret"
          /\ Tail(p) \in Saving /\ Head(Tail(p)) \in Clears => Head(p) \in Clears
      BY <1>1, SavingOrder DEF Clears
    <2> QED BY <2>1, EmptyIsOver DEF Programs
  <1>2. CASE p \in Picturing
    <2>1. /\ p # <<>> /\ p # <<"new">> /\ Tail(p) \in Picturing \cup {<<>>}
          /\ Tail(p) \in Picturing => Head(Tail(p)) # "secret"
          /\ Tail(p) \in Picturing /\ Head(Tail(p)) \in Clears => Head(p) \in Clears
      BY <1>2, PicturingOrder DEF Clears
    <2> QED BY <2>1, EmptyIsOver DEF Programs
  <1>3. CASE p \in Deleting
    <2>1. /\ p # <<>> /\ p # <<"new">> /\ Tail(p) \in Deleting \cup {<<>>}
          /\ Tail(p) \in Deleting => Head(Tail(p)) # "secret"
          /\ Tail(p) \in Deleting /\ Head(Tail(p)) \in Clears => Head(p) \in Clears
      BY <1>3, DeletingOrder DEF Clears
    <2> QED BY <2>1, EmptyIsOver DEF Programs
  <1>4. CASE p \in Settling
    <2>1. /\ p # <<>> /\ p # <<"new">> /\ Tail(p) \in Settling \cup {<<>>}
          /\ Tail(p) \in Settling => Head(Tail(p)) # "secret"
          /\ Tail(p) \in Settling /\ Head(Tail(p)) \in Clears => Head(p) \in Clears
      BY <1>4, SettlingOrder DEF Clears
    <2> QED BY <2>1, EmptyIsOver DEF Programs
  <1> QED BY <1>1, <1>2, <1>3, <1>4 DEF Programs

\* A command under way has a program.
LEMMA UnderWay ==
  ASSUME ConfigTypes, NEW c \in CommandIds
  PROVE  Steps(c) <=> program[c] \in Programs
  BY ProgramOrder DEF ConfigTypes, Steps, Ready

\* The initial states satisfy the invariant.
LEMMA ConfigInvInit == ConfigInit => ConfigInv
  <1> SUFFICES ASSUME ConfigInit PROVE ConfigInv OBVIOUS
  <1> USE DEF ConfigInit
  <1>1. NoSource \in Sources /\ NoSettings \in SettingsDocs
    BY DEF NoSource, Sources, NoSettings, SettingsDocs
  <1>2. ConfigTypes BY <1>1 DEF ConfigTypes
  <1>3. Quiet BY DEF Quiet, Steps, Ready
  <1>4. SecretSafe BY <1>3 DEF SecretSafe, Quiet, NoSource
  <1>5. OneAtATime BY <1>3 DEF OneAtATime, Quiet
  <1>6. LogoKept /\ DefaultKept /\ RuntimeKept
    BY DEF LogoKept, DefaultKept, RuntimeKept, NoSource, NoSettings
  <1>7. Level("rest") BY DEF Level
  <1>8. Story BY <1>3, <1>6, <1>7 DEF Story, Quiet
  <1> QED BY <1>2, <1>4, <1>5, <1>8 DEF ConfigInv

-----------------------------------------------------------------------------
(* Admission.                                                              *)

\* The steps a command may begin with.
Openings == {"secret", "unsecret", "insert", "file", "picture", "stop", "appfile", "viewfile"}

\* A command's admission keeps the invariant when what it carries was read from
\* a snapshot that equals the file, and refers to no secret the snapshot lacks.
LEMMA BeginKeeps ==
  ASSUME ConfigInv, NEW c \in CommandIds, NEW doc \in Sources, NEW set \in SettingsDocs,
         NEW steps \in Programs, Begin(c, doc, set, steps), Head(steps) \in Openings,
         cleared => cleared', Head(steps) \in Clears => cleared',
         Head(steps) # "secret" /\ doc.secretRef => sourceSnap.secretRef,
         sourceSnap = sourceFile => /\ SaveHolds(Head(steps), doc)
                                    /\ LogoHolds(steps, Head(steps), doc)
                                    /\ SettleHolds(Head(steps), set)
  PROVE  ConfigInv'
  <1> DEFINE first == Head(steps)
  <1>0. /\ program' = [program EXCEPT ![c] = steps]
        /\ document' = [document EXCEPT ![c] = doc] /\ settingsDoc' = [settingsDoc EXCEPT ![c] = set]
    BY DEF Begin
  <1>1. ConfigTypes'
    BY <1>0 DEF ConfigInv, ConfigTypes, Begin
  <1>2. /\ program'[c] = steps /\ document'[c] = doc /\ settingsDoc'[c] = set
        /\ \A d \in CommandIds : d # c => /\ program'[d] = program[d] /\ document'[d] = document[d]
                                          /\ settingsDoc'[d] = settingsDoc[d]
    BY <1>0 DEF ConfigInv, ConfigTypes
  <1>3. Steps(c)' /\ \A d \in CommandIds : d # c => (Steps(d)' <=> Steps(d)) /\ Step(d)' = Step(d)
    BY <1>2, ProgramOrder DEF Steps, Ready, Step
  <1>4. Step(c)' = first BY <1>2 DEF Step
  <1>5. ~Steps(c) /\ assembled BY DEF Begin, Steps
  <1>6. UNCHANGED <<sourceFile, sourceSnap, secretHeld, logoFiles, runningAs, settingsFile,
                    settingsSnap, viewFile, viewSnap, assembled, halfSaved>>
    BY DEF Begin
  <1>7. SecretSafe'
    <2>1. \A d \in CommandIds : Steps(d)' /\ Step(d)' \in Clears => cleared'
      BY <1>3, <1>4 DEF ConfigInv, SecretSafe
    <2>2. ASSUME ~cleared' PROVE (sourceFile.secretRef \/ sourceSnap.secretRef)' => secretHeld'
      BY <2>2, <1>6, Zenon DEF ConfigInv, SecretSafe
    <2>3. ASSUME ~cleared', NEW d \in CommandIds, Steps(d)', Step(d)' # "secret", document'[d].secretRef
          PROVE  secretHeld'
      <3>1. CASE d = c BY <3>1, <2>3, <1>2, <1>4, <1>6, Zenon DEF ConfigInv, SecretSafe
      <3>2. CASE d # c BY <3>2, <2>3, <1>2, <1>3, <1>6, Zenon DEF ConfigInv, SecretSafe
      <3> QED BY <3>1, <3>2
    <2> QED BY <2>1, <2>2, <2>3, Zenon DEF SecretSafe
  <1>8. overlapped' <=> (overlapped \/ ~Quiet) BY DEF Begin
  <1>9. OneAtATime'
    <2>1. ~assembled' => Quiet' /\ runningAs' = NoSource BY <1>5, <1>6
    <2>2. ASSUME ~overlapped', NEW d \in CommandIds, NEW e \in CommandIds, Steps(d)', Steps(e)' PROVE d = e
      BY <2>2, <1>3, <1>8 DEF Quiet
    <2> QED BY <2>1, <2>2 DEF OneAtATime, NoSource
  <1>10. Story'
    <2> SUFFICES ASSUME ~overlapped' PROVE
             /\ LogoKept' /\ DefaultKept' /\ RuntimeKept' /\ ~Quiet'
             /\ \A d \in CommandIds : Steps(d)' => Facts(program[d], Step(d), document[d], settingsDoc[d])'
      BY DEF Story
    <2>1. ~overlapped /\ Quiet BY <1>8
    <2>2. LogoKept /\ DefaultKept /\ RuntimeKept /\ Level("rest") BY <2>1, <1>5 DEF ConfigInv, Story
    <2>3. LogoKept' /\ DefaultKept' /\ RuntimeKept'
      <3>1. ~cleared' => ~cleared OBVIOUS
      <3> QED BY <2>2, <1>6, <3>1, Zenon DEF LogoKept, DefaultKept, RuntimeKept
    <2>4. ~Quiet' BY <1>3 DEF Quiet
    <2>5. Facts(steps, first, doc, set)'
      <3>1. sourceSnap = sourceFile BY <2>2 DEF Level
      <3>2. SaveHolds(first, doc)' BY <3>1, <1>6 DEF SaveHolds
      <3>3. LogoHolds(steps, first, doc)' BY <3>1, <1>6 DEF LogoHolds
      <3>4. SettleHolds(first, set)' BY <3>1, <1>6 DEF SettleHolds
      <3>5. Level(first)' BY <2>2, <1>6 DEF Level
      <3>6. DeleteHolds(first)' BY DEF DeleteHolds, Openings
      <3> QED BY <3>2, <3>3, <3>4, <3>5, <3>6 DEF Facts
    <2>6. ASSUME NEW d \in CommandIds, Steps(d)' PROVE d = c BY <2>6, <2>1, <1>3 DEF Quiet
    <2> HIDE DEF first
    <2> QED BY <2>3, <2>4, <2>5, <2>6, <1>2, <1>4
  <1> QED BY <1>1, <1>7, <1>9, <1>10 DEF ConfigInv

\* Each opening is the first step of a program.
LEMMA OpeningPrograms ==
    /\ <<"insert", "project", "start">> \in Saving
    /\ Head(<<"insert", "project", "start">>) = "insert"
    /\ CompleteOauthSteps \in Saving /\ Head(CompleteOauthSteps) = "secret"
    /\ Head(Tail(CompleteOauthSteps)) = "insert"
    /\ <<"file", "snapshot", "project", "start">> \in Saving
    /\ Head(<<"file", "snapshot", "project", "start">>) = "file"
    /\ <<"secret", "file", "snapshot", "project", "start">> \in Saving
    /\ Head(<<"secret", "file", "snapshot", "project", "start">>) = "secret"
    /\ Head(Tail(<<"secret", "file", "snapshot", "project", "start">>)) = "file"
    /\ <<"unsecret", "file", "snapshot", "project", "start">> \in Saving
    /\ Head(<<"unsecret", "file", "snapshot", "project", "start">>) = "unsecret"
    /\ \A n : LogoSteps(n) \in Picturing /\ Head(LogoSteps(n)) = "picture"
    /\ DeleteSteps \in Deleting /\ Head(DeleteSteps) = "stop"
    /\ <<"appfile", "appsnapshot">> \in Settling /\ Head(<<"appfile", "appsnapshot">>) = "appfile"
    /\ <<"viewfile", "viewsnapshot">> \in Settling
    /\ Head(<<"viewfile", "viewsnapshot">>) = "viewfile"
  <1> USE DEF Saving, Picturing, Deleting, Settling, CompleteOauthSteps, LogoSteps, DeleteSteps
  <1>1. /\ <<"insert", "project", "start">> \in Saving
        /\ Head(<<"insert", "project", "start">>) = "insert" OBVIOUS
  <1>2. /\ CompleteOauthSteps \in Saving /\ Head(CompleteOauthSteps) = "secret"
        /\ Head(Tail(CompleteOauthSteps)) = "insert" OBVIOUS
  <1>3. /\ <<"file", "snapshot", "project", "start">> \in Saving
        /\ Head(<<"file", "snapshot", "project", "start">>) = "file" OBVIOUS
  <1>4. /\ <<"secret", "file", "snapshot", "project", "start">> \in Saving
        /\ Head(<<"secret", "file", "snapshot", "project", "start">>) = "secret"
        /\ Head(Tail(<<"secret", "file", "snapshot", "project", "start">>)) = "file" OBVIOUS
  <1>5. /\ <<"unsecret", "file", "snapshot", "project", "start">> \in Saving
        /\ Head(<<"unsecret", "file", "snapshot", "project", "start">>) = "unsecret" OBVIOUS
  <1>6. \A n : LogoSteps(n) \in Picturing /\ Head(LogoSteps(n)) = "picture" OBVIOUS
  <1>7. DeleteSteps \in Deleting /\ Head(DeleteSteps) = "stop" OBVIOUS
  <1>8. <<"appfile", "appsnapshot">> \in Settling /\ Head(<<"appfile", "appsnapshot">>) = "appfile" OBVIOUS
  <1>9. /\ <<"viewfile", "viewsnapshot">> \in Settling
        /\ Head(<<"viewfile", "viewsnapshot">>) = "viewfile" OBVIOUS
  <1> HIDE DEF Saving, Picturing, Deleting, Settling, CompleteOauthSteps, LogoSteps, DeleteSteps
  <1> QED BY <1>1, <1>2, <1>3, <1>4, <1>5, <1>6, <1>7, <1>8, <1>9

\* An account is created, with or without its credential.
LEMMA CreateKeeps ==
  ASSUME ConfigInv, NEW c \in CommandIds, CreateAccount(c) \/ CompleteOauth(c) PROVE ConfigInv'
  <1>1. NoSettings \in SettingsDocs BY DEF NoSettings, SettingsDocs
  <1>2. CASE CreateAccount(c)
    <2> DEFINE steps == <<"insert", "project", "start">>
    <2>1. steps \in Programs /\ Head(steps) = "insert" BY OpeningPrograms DEF Programs
    <2>2. PICK on \in BOOLEAN :
             Begin(c, [NoSource EXCEPT !.there = TRUE, !.enabled = on], NoSettings, steps)
      BY <1>2 DEF CreateAccount
    <2> DEFINE doc == [NoSource EXCEPT !.there = TRUE, !.enabled = on]
    <2>3. doc \in Sources /\ doc.there /\ ~doc.secretRef /\ doc.logo = 0 BY DEF NoSource, Sources
    <2>4. cleared' = cleared BY <1>2 DEF CreateAccount
    <2> HIDE DEF doc, steps
    <2>5. /\ SaveHolds("insert", doc) /\ LogoHolds(steps, "insert", doc)
          /\ SettleHolds("insert", NoSettings)
      BY <2>3 DEF SaveHolds, LogoHolds, SettleHolds
    <2>6. Begin(c, doc, NoSettings, steps) BY <2>2 DEF doc
    <2> QED BY <1>1, <2>1, <2>3, <2>4, <2>5, <2>6, BeginKeeps DEF Openings, Clears
  <1>3. CASE CompleteOauth(c)
    <2> DEFINE doc == [there |-> TRUE, enabled |-> TRUE, reachable |-> TRUE,
                       secretRef |-> TRUE, logo |-> 0]
               steps == CompleteOauthSteps
    <2>1. steps \in Programs /\ Head(steps) = "secret" /\ Head(Tail(steps)) = "insert"
      BY OpeningPrograms DEF Programs
    <2>2. Begin(c, doc, NoSettings, steps) /\ cleared' = cleared BY <1>3 DEF CompleteOauth
    <2>3. doc \in Sources /\ doc.there /\ doc.logo = 0 BY DEF Sources
    <2> HIDE DEF doc, steps
    <2>5. /\ SaveHolds("secret", doc) /\ LogoHolds(steps, "secret", doc)
          /\ SettleHolds("secret", NoSettings)
      BY <2>1, <2>3 DEF SaveHolds, LogoHolds, SettleHolds
    <2> QED BY <1>1, <2>1, <2>2, <2>3, <2>5, BeginKeeps DEF Openings, Clears
  <1> QED BY <1>2, <1>3

\* An account is changed: its flags, its transport, its secret.
LEMMA ChangeKeeps ==
  ASSUME ConfigInv, NEW c \in CommandIds,
         UpdateAccount(c) \/ UpdateAccountTransport(c) \/ ReplaceSecret(c) \/ ClearSecret(c)
  PROVE  ConfigInv'
  <1>1. NoSettings \in SettingsDocs BY DEF NoSettings, SettingsDocs
  <1>2. sourceSnap \in Sources /\ sourceSnap.there
    BY DEF ConfigInv, ConfigTypes, UpdateAccount, UpdateAccountTransport, ReplaceSecret, ClearSecret
  <1>3. CASE UpdateAccount(c) \/ UpdateAccountTransport(c)
    <2> DEFINE steps == <<"file", "snapshot", "project", "start">>
    <2>1. steps \in Programs /\ steps \notin Picturing /\ Head(steps) = "file"
      BY OpeningPrograms, SavingOrder DEF Programs
    <2>2. PICK doc \in Sources : /\ Begin(c, doc, NoSettings, steps) /\ doc.there
                                 /\ doc.secretRef = sourceSnap.secretRef /\ doc.logo = sourceSnap.logo
      <3>1. CASE UpdateAccount(c)
        <4> DEFINE doc == [sourceSnap EXCEPT !.enabled = ~@]
        <4>1. /\ doc \in Sources /\ doc.secretRef = sourceSnap.secretRef
              /\ doc.there = sourceSnap.there /\ doc.logo = sourceSnap.logo
          BY <1>2 DEF Sources
        <4>2. Begin(c, doc, NoSettings, steps) BY <3>1 DEF UpdateAccount
        <4> HIDE DEF doc, steps
        <4> QED BY <1>2, <4>1, <4>2
      <3>2. CASE UpdateAccountTransport(c)
        <4> DEFINE doc == [sourceSnap EXCEPT !.reachable = TRUE]
        <4>1. /\ doc \in Sources /\ doc.secretRef = sourceSnap.secretRef
              /\ doc.there = sourceSnap.there /\ doc.logo = sourceSnap.logo
          BY <1>2 DEF Sources
        <4>2. Begin(c, doc, NoSettings, steps) BY <3>2 DEF UpdateAccountTransport
        <4> HIDE DEF doc, steps
        <4> QED BY <1>2, <4>1, <4>2
      <3> QED BY <1>3, <3>1, <3>2
    <2>3. cleared' = cleared BY <1>3 DEF UpdateAccount, UpdateAccountTransport
    <2>4. ASSUME sourceSnap = sourceFile
          PROVE  SaveHolds("file", doc) /\ LogoHolds(steps, "file", doc) /\ SettleHolds("file", NoSettings)
      BY <2>1, <2>2, <2>4 DEF SaveHolds, LogoHolds, SettleHolds
    <2> HIDE DEF steps
    <2> QED BY <1>1, <2>1, <2>2, <2>3, <2>4, BeginKeeps DEF Openings, Clears
  <1>4. CASE ReplaceSecret(c)
    <2> DEFINE steps == <<"secret", "file", "snapshot", "project", "start">>
               doc == [sourceSnap EXCEPT !.secretRef = TRUE]
    <2>1. steps \in Programs /\ Head(steps) = "secret" /\ Head(Tail(steps)) = "file"
      BY OpeningPrograms DEF Programs
    <2>2. Begin(c, doc, NoSettings, steps) /\ cleared' = cleared BY <1>4 DEF ReplaceSecret
    <2>3. doc \in Sources /\ doc.there /\ doc.logo = sourceSnap.logo BY <1>2 DEF Sources
    <2> HIDE DEF doc, steps
    <2>4. ASSUME sourceSnap = sourceFile
          PROVE  /\ SaveHolds("secret", doc) /\ LogoHolds(steps, "secret", doc)
                 /\ SettleHolds("secret", NoSettings)
      BY <2>1, <2>3, <2>4 DEF SaveHolds, LogoHolds, SettleHolds
    <2> QED BY <1>1, <2>1, <2>2, <2>3, <2>4, BeginKeeps DEF Openings, Clears
  <1>5. CASE ClearSecret(c)
    <2> DEFINE steps == <<"unsecret", "file", "snapshot", "project", "start">>
               doc == [sourceSnap EXCEPT !.secretRef = FALSE]
    <2>1. steps \in Programs /\ Head(steps) = "unsecret" BY OpeningPrograms DEF Programs
    <2>2. Begin(c, doc, NoSettings, steps) /\ cleared' = TRUE BY <1>5 DEF ClearSecret
    <2>3. doc \in Sources /\ doc.there /\ doc.logo = sourceSnap.logo /\ ~doc.secretRef
      BY <1>2 DEF Sources
    <2> HIDE DEF doc, steps
    <2>4. ASSUME sourceSnap = sourceFile
          PROVE  /\ SaveHolds("unsecret", doc) /\ LogoHolds(steps, "unsecret", doc)
                 /\ SettleHolds("unsecret", NoSettings)
      BY <2>1, <2>3, <2>4 DEF SaveHolds, LogoHolds, SettleHolds
    <2> QED BY <1>1, <2>1, <2>2, <2>3, <2>4, BeginKeeps DEF Openings, Clears
  <1> QED BY <1>3, <1>4, <1>5

\* A new logo is asked for, or the account's deletion.
LEMMA LogoOrDeleteKeeps ==
  ASSUME ConfigInv, NEW c \in CommandIds, SetAccountLogo(c) \/ DeleteAccount(c) PROVE ConfigInv'
  <1>1. NoSettings \in SettingsDocs BY DEF NoSettings, SettingsDocs
  <1>2. sourceSnap \in Sources /\ sourceSnap.there
    BY DEF ConfigInv, ConfigTypes, SetAccountLogo, DeleteAccount
  <1>3. CASE SetAccountLogo(c)
    <2> DEFINE steps == LogoSteps(sourceSnap.logo)
               doc == [sourceSnap EXCEPT !.logo = @ + 1]
    <2>1. steps \in Picturing /\ Head(steps) = "picture" BY OpeningPrograms
    <2>2. Begin(c, doc, NoSettings, steps) /\ cleared' = cleared BY <1>3 DEF SetAccountLogo
    <2>3. /\ doc \in Sources /\ doc.there /\ doc.logo = sourceSnap.logo + 1
          /\ doc.secretRef = sourceSnap.secretRef
      BY <1>2 DEF Sources
    <2>4. ASSUME sourceSnap = sourceFile
          PROVE  /\ SaveHolds("picture", doc) /\ LogoHolds(steps, "picture", doc)
                 /\ SettleHolds("picture", NoSettings)
      <3> HIDE DEF doc, steps
      <3> QED BY <2>1, <2>3, <2>4 DEF SaveHolds, LogoHolds, SettleHolds
    <2>5. steps \in Programs BY <2>1 DEF Programs
    <2> HIDE DEF doc, steps
    <2> QED BY <1>1, <2>1, <2>2, <2>3, <2>4, <2>5, BeginKeeps DEF Openings, Clears
  <1>4. CASE DeleteAccount(c)
    <2>1. DeleteSteps \in Programs /\ Head(DeleteSteps) = "stop" BY OpeningPrograms DEF Programs
    <2>2. Begin(c, sourceSnap, NoSettings, DeleteSteps) /\ cleared' = TRUE BY <1>4 DEF DeleteAccount
    <2>3. SaveHolds("stop", sourceSnap) /\ LogoHolds(DeleteSteps, "stop", sourceSnap)
          /\ SettleHolds("stop", NoSettings)
      BY DEF SaveHolds, LogoHolds, SettleHolds
    <2> QED BY <1>1, <1>2, <2>1, <2>2, <2>3, BeginKeeps DEF Openings, Clears
  <1> QED BY <1>3, <1>4

\* The settings or a smart mailbox are saved.
LEMMA SettleKeeps ==
  ASSUME ConfigInv, NEW c \in CommandIds,
         UpdateSettings(c) \/ SaveSmartMailbox(c) \/ ResetSmartMailboxes(c)
  PROVE  ConfigInv'
  <1>1. /\ NoSettings \in SettingsDocs /\ NoSource \in Sources
        /\ ~NoSource.secretRef
    BY DEF NoSettings, SettingsDocs, NoSource, Sources
  <1>2. cleared' = cleared BY DEF UpdateSettings, SaveSmartMailbox, ResetSmartMailboxes
  <1>3. CASE UpdateSettings(c)
    <2> DEFINE steps == <<"appfile", "appsnapshot">>
    <2>1. steps \in Programs /\ Head(steps) = "appfile" BY OpeningPrograms DEF Programs
    <2>2. PICK set \in [default : BOOLEAN, layout : {0, 1}] :
             (set.default => sourceSnap.there) /\ Begin(c, NoSource, set, steps)
      BY <1>3 DEF UpdateSettings
    <2>3. set \in SettingsDocs BY <2>2 DEF SettingsDocs
    <2>4. ASSUME sourceSnap = sourceFile
          PROVE  /\ SaveHolds("appfile", NoSource) /\ LogoHolds(steps, "appfile", NoSource)
                 /\ SettleHolds("appfile", set)
      BY <2>2, <2>4 DEF SaveHolds, LogoHolds, SettleHolds
    <2> HIDE DEF steps
    <2> QED BY <1>1, <1>2, <2>1, <2>2, <2>3, <2>4, BeginKeeps DEF Openings, Clears
  <1>4. CASE SaveSmartMailbox(c) \/ ResetSmartMailboxes(c)
    <2> DEFINE steps == <<"viewfile", "viewsnapshot">>
    <2>1. steps \in Programs /\ Head(steps) = "viewfile" BY OpeningPrograms DEF Programs
    <2>2. viewSnap \in Nat BY DEF ConfigInv, ConfigTypes
    <2>3. PICK set \in SettingsDocs : Begin(c, NoSource, set, steps)
      <3> DEFINE next == [default |-> FALSE, layout |-> viewSnap + 1]
      <3>1. next \in SettingsDocs BY <2>2 DEF SettingsDocs
      <3>2. Begin(c, NoSource, next, steps) \/ Begin(c, NoSource, NoSettings, steps)
        BY <1>4 DEF SaveSmartMailbox, ResetSmartMailboxes
      <3> HIDE DEF next, steps
      <3> QED BY <1>1, <3>1, <3>2
    <2>4. SaveHolds("viewfile", NoSource) /\ LogoHolds(steps, "viewfile", NoSource)
          /\ SettleHolds("viewfile", set)
      BY DEF SaveHolds, LogoHolds, SettleHolds
    <2> HIDE DEF steps
    <2> QED BY <1>1, <1>2, <2>1, <2>3, <2>4, BeginKeeps DEF Openings, Clears
  <1> QED BY <1>3, <1>4

-----------------------------------------------------------------------------
(* The steps of a command under way.                                       *)

\* What every step leaves alone.
Aside == UNCHANGED <<document, settingsDoc, assembled, given, cleared, overlapped, configStops>>

Moves(c) == assembled /\ Steps(c) /\ Next1(c) /\ Aside

\* A step changes one command's program, to what is left of it.
LEMMA MoveFrame ==
  ASSUME ConfigInv, NEW c \in CommandIds, Moves(c)
  PROVE  /\ program[c] \in Programs /\ program'[c] = Tail(program[c])
         /\ program' \in [CommandIds -> Programs \cup {<<>>, <<"new">>}]
         /\ \A d \in CommandIds :
               d # c => (Steps(d)' <=> Steps(d)) /\ Step(d)' = Step(d) /\ program'[d] = program[d]
         /\ Steps(c)' <=> Tail(program[c]) \in Programs
         /\ Step(c)' = Head(Tail(program[c]))
         /\ OneAtATime /\ assembled' /\ (~overlapped => \A d \in CommandIds : Steps(d) => d = c)
  <1>1. program[c] \in Programs BY UnderWay DEF ConfigInv, Moves
  <1>2. program' = [program EXCEPT ![c] = Tail(program[c])]
    BY DEF Moves, Next1
  <1>3. Tail(program[c]) \in Programs \cup {<<>>} BY <1>1, ProgramOrder
  <1>4. /\ program' \in [CommandIds -> Programs \cup {<<>>, <<"new">>}]
        /\ program'[c] = Tail(program[c])
        /\ \A d \in CommandIds : d # c => program'[d] = program[d]
    BY <1>2, <1>3 DEF ConfigInv, ConfigTypes
  <1>5. \A d \in CommandIds : d # c => (Steps(d)' <=> Steps(d)) /\ Step(d)' = Step(d)
    BY <1>4 DEF Steps, Ready, Step
  <1>6. Steps(c)' <=> Tail(program[c]) \in Programs
    <2>1. CASE Tail(program[c]) \in Programs BY <2>1, <1>4, ProgramOrder DEF Steps, Ready
    <2>2. CASE Tail(program[c]) = <<>> BY <2>2, <1>4, EmptyIsOver DEF Steps
    <2> QED BY <2>1, <2>2, <1>3
  <1>7. Step(c)' = Head(Tail(program[c])) BY <1>4 DEF Step
  <1>8. OneAtATime /\ assembled' /\ (~overlapped => \A d \in CommandIds : Steps(d) => d = c)
    BY DEF ConfigInv, OneAtATime, Moves, Aside
  <1> QED BY <1>1, <1>4, <1>5, <1>6, <1>7, <1>8

\* The types after a step that leaves the documents what they may be.
LEMMA MoveTypes ==
  ASSUME ConfigInv, NEW c \in CommandIds, Moves(c),
         sourceFile' \in Sources, sourceSnap' \in Sources, runningAs' \in Sources,
         settingsFile' \in SettingsDocs, settingsSnap' \in SettingsDocs,
         viewFile' \in Nat, viewSnap' \in Nat
  PROVE  ConfigTypes' /\ OneAtATime'
  <1>1. ConfigTypes' BY MoveFrame DEF ConfigInv, ConfigTypes, Moves, Aside
  <1>2. ASSUME ~overlapped', NEW d \in CommandIds, NEW e \in CommandIds, Steps(d)', Steps(e)' PROVE d = e
    <2>1. ~overlapped /\ Steps(c) BY <1>2 DEF Moves, Aside
    <2>2. d = c BY <2>1, <1>2, MoveFrame
    <2>3. e = c BY <2>1, <1>2, MoveFrame
    <2> QED BY <2>2, <2>3
  <1> QED BY <1>1, <1>2, MoveFrame DEF OneAtATime

\* The secret stays behind every document after a step that writes only the
\* command's own document, and that past the keeping of its secret.
LEMMA MoveSecret ==
  ASSUME ConfigInv, NEW c \in CommandIds, Moves(c),
         secretHeld => secretHeld' \/ cleared, Step(c) = "secret" => secretHeld',
         \/ sourceFile' \in {sourceFile, NoSource}
         \/ sourceFile' = document[c] /\ Step(c) # "secret",
         \/ sourceSnap' \in {sourceSnap, NoSource}
         \/ sourceSnap' = document[c] /\ Step(c) # "secret"
  PROVE  SecretSafe'
  <1>1. Steps(c) /\ cleared' = cleared /\ document' = document BY DEF Moves, Aside
  <1>2. \A d \in CommandIds : Steps(d)' /\ Step(d)' \in Clears => cleared'
    BY <1>1, MoveFrame, ProgramOrder DEF ConfigInv, SecretSafe, Step
  <1>3. ~NoSource.secretRef BY DEF NoSource
  <1>4. ~cleared /\ Step(c) # "secret" /\ document[c].secretRef => secretHeld
    BY <1>1, Zenon DEF ConfigInv, SecretSafe
  <1>5. ASSUME ~cleared', sourceFile'.secretRef PROVE secretHeld'
    <2>1. secretHeld => secretHeld' BY <1>1, <1>5
    <2>2. sourceFile.secretRef => secretHeld BY <1>1, <1>5, Zenon DEF ConfigInv, SecretSafe
    <2> QED BY <2>1, <2>2, <1>1, <1>3, <1>4, <1>5, Zenon
  <1>6. ASSUME ~cleared', sourceSnap'.secretRef PROVE secretHeld'
    <2>1. secretHeld => secretHeld' BY <1>1, <1>6
    <2>2. sourceSnap.secretRef => secretHeld BY <1>1, <1>6, Zenon DEF ConfigInv, SecretSafe
    <2> QED BY <2>1, <2>2, <1>1, <1>3, <1>4, <1>6, Zenon
  <1>7. ASSUME ~cleared', NEW d \in CommandIds, Steps(d)', Step(d)' # "secret", document'[d].secretRef
        PROVE  secretHeld'
    <2>1. secretHeld => secretHeld' BY <1>1, <1>7
    <2>2. CASE d = c BY <2>1, <2>2, <1>1, <1>4, <1>7, Zenon
    <2>3. CASE d # c
      <3>1. Steps(d) /\ Step(d) # "secret" /\ document[d].secretRef
        BY <2>3, <1>1, <1>7, MoveFrame, Zenon
      <3> QED BY <3>1, <2>1, <1>1, <1>7, Zenon DEF ConfigInv, SecretSafe
    <2> QED BY <2>2, <2>3
  <1> QED BY <1>2, <1>5, <1>6, <1>7, Zenon DEF SecretSafe

\* The story goes on when it does for the one command there is.
LEMMA MoveStory ==
  ASSUME ConfigInv, NEW c \in CommandIds, Moves(c), NEW p, NEW doc, NEW set,
         p = program[c], doc = document[c], set = settingsDoc[c],
         ~overlapped => /\ LogoKept' /\ DefaultKept' /\ RuntimeKept'
                        /\ Tail(p) = <<>> => Level("rest")'
                        /\ Tail(p) \in Programs => Facts(Tail(p), Head(Tail(p)), doc, set)'
  PROVE  Story'
  <1> SUFFICES ASSUME ~overlapped'
      PROVE  /\ LogoKept' /\ DefaultKept' /\ RuntimeKept' /\ (Quiet' => Level("rest")')
             /\ \A d \in CommandIds :
                   Steps(d)' => Facts(program[d], Step(d), document[d], settingsDoc[d])'
    BY DEF Story
  <1>1. ~overlapped /\ document'[c] = doc /\ settingsDoc'[c] = set BY DEF Moves, Aside
  <1>2. program'[c] = Tail(p) /\ Step(c)' = Head(Tail(p)) BY MoveFrame
  <1>3. Quiet' => Tail(p) = <<>>
    <2>1. Steps(c)' <=> Tail(p) \in Programs BY MoveFrame
    <2>2. Tail(p) \in Programs \cup {<<>>} BY MoveFrame, ProgramOrder
    <2> QED BY <2>1, <2>2 DEF Quiet
  <1>4. ASSUME NEW d \in CommandIds, Steps(d)' PROVE d = c /\ Tail(p) \in Programs
    <2>1. d = c BY <1>1, <1>4, MoveFrame
    <2> QED BY <2>1, <1>4, MoveFrame
  <1> QED BY <1>1, <1>2, <1>3, <1>4

\* What a command without an overlap may rely on.
LEMMA Relies ==
  ASSUME ConfigInv, NEW c \in CommandIds, Steps(c), ~overlapped
  PROVE  /\ LogoKept /\ DefaultKept /\ RuntimeKept
         /\ Facts(program[c], Step(c), document[c], settingsDoc[c])
  BY DEF ConfigInv, Story

-----------------------------------------------------------------------------
\* The kind of program a step belongs to.
LEMMA StepKinds ==
  ASSUME NEW p \in Programs
  PROVE  /\ Head(p) \in {"secret", "unsecret", "insert", "start"} => p \in Saving
         /\ Head(p) \in {"file", "snapshot", "project"} => p \in Saving \cup Picturing
         /\ Head(p) \in {"picture", "unpicture"} => p \in Picturing
         /\ Head(p) \in {"stop", "forget", "unlogo", "undefault", "unfile", "unsnapshot",
                         "unproject", "purge"} => p \in Deleting
         /\ Head(p) \in {"appfile", "appsnapshot", "viewfile", "viewsnapshot"} => p \in Settling
  <1>1. CASE p \in Saving BY <1>1, SavingOrder
  <1>2. CASE p \in Picturing BY <1>2, PicturingOrder
  <1>3. CASE p \in Deleting BY <1>3, DeletingOrder
  <1>4. CASE p \in Settling BY <1>4, SettlingOrder
  <1> QED BY <1>1, <1>2, <1>3, <1>4 DEF Programs

\* insert_source: file and snapshot together, of a document without a logo.
LEMMA InsertKeeps ==
  ASSUME ConfigInv, NEW c \in CommandIds, Moves(c), InsertSource(c), UNCHANGED halfSaved
  PROVE  ConfigInv'
  <1>0. PICK p, doc, set : p = program[c] /\ doc = document[c] /\ set = settingsDoc[c] OBVIOUS
  <1>1. /\ Head(p) = "insert" /\ Step(c) = "insert" /\ Steps(c)
        /\ sourceFile' = doc /\ sourceSnap' = doc
        /\ UNCHANGED <<secretHeld, logoFiles, runningAs, settingsFile, settingsSnap, viewFile, viewSnap>>
    BY <1>0 DEF InsertSource, At, Step
  <1>2. p \in Programs /\ Tail(p) \in Programs /\ Head(Tail(p)) = "project" /\ Tail(p) # <<>>
    <2>1. p \in Programs BY <1>0, MoveFrame
    <2>2. p \in Saving BY <2>1, <1>1, StepKinds
    <2> QED BY <2>1, <2>2, <1>1, SavingOrder, EmptyIsOver DEF Programs
  <1>3. doc \in Sources BY <1>0 DEF ConfigInv, ConfigTypes
  <1>4. ConfigTypes' /\ OneAtATime'
    <2>1. ConfigTypes BY DEF ConfigInv
    <2>2. /\ sourceFile' \in Sources /\ sourceSnap' \in Sources /\ runningAs' \in Sources
          /\ settingsFile' \in SettingsDocs /\ settingsSnap' \in SettingsDocs
          /\ viewFile' \in Nat /\ viewSnap' \in Nat
      BY <2>1, <1>1, <1>3 DEF ConfigTypes
    <2> QED BY <2>2, MoveTypes
  <1>5. SecretSafe'
    <2>1. (secretHeld => secretHeld' \/ cleared) /\ Step(c) # "secret" BY <1>1
    <2>2. sourceFile' = document[c] /\ sourceSnap' = document[c] BY <1>0, <1>1
    <2> QED BY <2>1, <2>2, MoveSecret
  <1>6. ASSUME ~overlapped
        PROVE  /\ LogoKept' /\ DefaultKept' /\ RuntimeKept' /\ Facts(Tail(p), "project", doc, set)'
    <2>1. RuntimeKept /\ Facts(p, "insert", doc, set) BY <1>0, <1>1, <1>6, Relies
    <2>2. doc.there /\ doc.logo = 0 BY <2>1 DEF Facts, SaveHolds, LogoHolds
    <2>3. LogoKept' BY <1>1, <2>2 DEF LogoKept
    <2>4. DefaultKept' /\ RuntimeKept' BY <1>1, <2>2 DEF DefaultKept, RuntimeKept
    <2>5. Level("project")' BY <2>1, <1>1 DEF Facts, Level
    <2>6. SaveHolds("project", doc)' BY <1>1, <2>2 DEF SaveHolds
    <2>7. LogoHolds(Tail(p), "project", doc)' BY DEF LogoHolds
    <2>8. DeleteHolds("project")' /\ SettleHolds("project", set)' BY DEF DeleteHolds, SettleHolds
    <2> QED BY <2>3, <2>4, <2>5, <2>6, <2>7, <2>8 DEF Facts
  <1>7. Story' BY <1>0, <1>2, <1>6, MoveStory
  <1> QED BY <1>4, <1>5, <1>7 DEF ConfigInv

\* save_source writes the file.
LEMMA FileKeeps ==
  ASSUME ConfigInv, NEW c \in CommandIds, Moves(c), Step(c) = "file", UNCHANGED halfSaved,
         sourceFile' = document[c],
         UNCHANGED <<sourceSnap, secretHeld, logoFiles, runningAs, settingsFile, settingsSnap,
                     viewFile, viewSnap>>
  PROVE  ConfigInv'
  <1>0. PICK p, doc, set : p = program[c] /\ doc = document[c] /\ set = settingsDoc[c] OBVIOUS
  <1>1. Head(p) = "file" /\ Steps(c) BY <1>0 DEF Step, Moves
  <1>2. p \in Programs /\ Tail(p) \in Programs /\ Head(Tail(p)) = "snapshot" /\ Tail(p) # <<>>
    <2>1. p \in Programs BY <1>0, MoveFrame
    <2>2. CASE p \in Saving BY <2>1, <2>2, <1>1, SavingOrder, EmptyIsOver DEF Programs
    <2>3. CASE p \in Picturing BY <2>1, <2>3, <1>1, PicturingOrder, EmptyIsOver DEF Programs
    <2> QED BY <2>1, <2>2, <2>3, <1>1, StepKinds
  <1>3. doc \in Sources BY <1>0 DEF ConfigInv, ConfigTypes
  <1>4. ConfigTypes' /\ OneAtATime'
    <2>1. ConfigTypes BY DEF ConfigInv
    <2>2. /\ sourceFile' \in Sources /\ sourceSnap' \in Sources /\ runningAs' \in Sources
          /\ settingsFile' \in SettingsDocs /\ settingsSnap' \in SettingsDocs
          /\ viewFile' \in Nat /\ viewSnap' \in Nat
      BY <2>1, <1>0, <1>3 DEF ConfigTypes
    <2> QED BY <2>2, MoveTypes
  <1>5. SecretSafe'
    <2>1. (secretHeld => secretHeld' \/ cleared) /\ Step(c) # "secret" OBVIOUS
    <2>2. sourceFile' = document[c] /\ sourceSnap' = sourceSnap BY <1>0
    <2> QED BY <2>1, <2>2, MoveSecret
  <1>6. ASSUME ~overlapped
        PROVE  /\ LogoKept' /\ DefaultKept' /\ RuntimeKept' /\ Facts(Tail(p), "snapshot", doc, set)'
    <2>1. LogoKept /\ RuntimeKept /\ Facts(p, "file", doc, set) BY <1>0, <1>1, <1>6, Relies
    <2>2. doc.there /\ SaveHolds("file", doc) BY <2>1 DEF Facts, SaveHolds
    <2>3. LogoKept'
      <3>1. LogoHolds(p, "file", doc) BY <2>1 DEF Facts
      <3>2. doc.logo = sourceFile.logo \/ doc.logo \in logoFiles BY <3>1 DEF LogoHolds
      <3>3. cleared' = cleared BY DEF Moves, Aside
      <3> QED BY <3>2, <3>3, <2>1, <1>0 DEF LogoKept
    <2>4. DefaultKept' /\ RuntimeKept' BY <1>0, <2>1, <2>2 DEF DefaultKept, RuntimeKept
    <2>5. Level("snapshot")' BY <2>1 DEF Facts, Level
    <2>6. SaveHolds("snapshot", doc)' BY <1>0, <2>2 DEF SaveHolds
    <2>7. LogoHolds(Tail(p), "snapshot", doc)' BY DEF LogoHolds
    <2>8. DeleteHolds("snapshot")' /\ SettleHolds("snapshot", set)' BY DEF DeleteHolds, SettleHolds
    <2> QED BY <2>3, <2>4, <2>5, <2>6, <2>7, <2>8 DEF Facts
  <1>7. Story' BY <1>0, <1>2, <1>6, MoveStory
  <1> QED BY <1>4, <1>5, <1>7 DEF ConfigInv

\* save_source puts the entry into the snapshot.
LEMMA SnapshotKeeps ==
  ASSUME ConfigInv, NEW c \in CommandIds, Moves(c), Step(c) = "snapshot", UNCHANGED halfSaved,
         sourceSnap' = document[c],
         UNCHANGED <<sourceFile, secretHeld, logoFiles, runningAs, settingsFile, settingsSnap,
                     viewFile, viewSnap>>
  PROVE  ConfigInv'
  <1>0. PICK p, doc, set : p = program[c] /\ doc = document[c] /\ set = settingsDoc[c] OBVIOUS
  <1>1. Head(p) = "snapshot" /\ Steps(c) BY <1>0 DEF Step, Moves
  <1>2. p \in Programs /\ Tail(p) \in Programs /\ Head(Tail(p)) = "project" /\ Tail(p) # <<>>
    <2>1. p \in Programs BY <1>0, MoveFrame
    <2>2. CASE p \in Saving BY <2>1, <2>2, <1>1, SavingOrder, EmptyIsOver DEF Programs
    <2>3. CASE p \in Picturing BY <2>1, <2>3, <1>1, PicturingOrder, EmptyIsOver DEF Programs
    <2> QED BY <2>1, <2>2, <2>3, <1>1, StepKinds
  <1>3. doc \in Sources BY <1>0 DEF ConfigInv, ConfigTypes
  <1>4. ConfigTypes' /\ OneAtATime'
    <2>1. ConfigTypes BY DEF ConfigInv
    <2>2. /\ sourceFile' \in Sources /\ sourceSnap' \in Sources /\ runningAs' \in Sources
          /\ settingsFile' \in SettingsDocs /\ settingsSnap' \in SettingsDocs
          /\ viewFile' \in Nat /\ viewSnap' \in Nat
      BY <2>1, <1>0, <1>3 DEF ConfigTypes
    <2> QED BY <2>2, MoveTypes
  <1>5. SecretSafe'
    <2>1. (secretHeld => secretHeld' \/ cleared) /\ Step(c) # "secret" OBVIOUS
    <2>2. sourceFile' = sourceFile /\ sourceSnap' = document[c] BY <1>0
    <2> QED BY <2>1, <2>2, MoveSecret
  <1>6. ASSUME ~overlapped
        PROVE  /\ LogoKept' /\ DefaultKept' /\ RuntimeKept' /\ Facts(Tail(p), "project", doc, set)'
    <2>1. LogoKept /\ DefaultKept /\ Facts(p, "snapshot", doc, set) BY <1>0, <1>1, <1>6, Relies
    <2>2. doc.there /\ sourceFile = doc BY <2>1 DEF Facts, SaveHolds
    <2>3. LogoKept' /\ DefaultKept' BY <2>1, Zenon DEF LogoKept, DefaultKept, Moves, Aside
    <2>4. RuntimeKept' BY <1>0, <2>2 DEF RuntimeKept
    <2>5. Level("project")' BY <2>1, <2>2, <1>0 DEF Facts, Level
    <2>6. SaveHolds("project", doc)' BY <2>2 DEF SaveHolds
    <2>7. LogoHolds(Tail(p), "project", doc)' BY DEF LogoHolds
    <2>8. DeleteHolds("project")' /\ SettleHolds("project", set)' BY DEF DeleteHolds, SettleHolds
    <2> QED BY <2>3, <2>4, <2>5, <2>6, <2>7, <2>8 DEF Facts
  <1>7. Story' BY <1>0, <1>2, <1>6, MoveStory
  <1> QED BY <1>4, <1>5, <1>7 DEF ConfigInv

\* The secret is kept, before the document that refers to it is written, or
\* dropped by a command that was asked to.
LEMMA SecretKeeps ==
  ASSUME ConfigInv, NEW c \in CommandIds, Moves(c), KeepSecret(c), UNCHANGED halfSaved
  PROVE  ConfigInv'
  <1>0. PICK p, doc, set : p = program[c] /\ doc = document[c] /\ set = settingsDoc[c] OBVIOUS
  <1> DEFINE next == Head(Tail(p))
  <1>1. /\ Head(p) \in {"secret", "unsecret", "forget"} /\ Step(c) = Head(p) /\ Steps(c)
        /\ Head(p) = "secret" => secretHeld' = TRUE
        /\ UNCHANGED <<sourceFile, sourceSnap, logoFiles, runningAs, settingsFile, settingsSnap,
                       viewFile, viewSnap>>
    BY <1>0 DEF KeepSecret, At, Step
  <1>2. /\ p \in Programs /\ Tail(p) \in Programs /\ Tail(p) # <<>> /\ Tail(p) \notin Picturing
        /\ \/ Head(p) = "secret" /\ next \in {"insert", "file"}
           \/ Head(p) = "unsecret" /\ next = "file"
           \/ Head(p) = "forget" /\ next = "unlogo"
    <2>1. p \in Programs BY <1>0, MoveFrame
    <2>2. CASE p \in Saving
      <3>1. /\ Tail(p) \in Saving
            /\ \/ Head(p) = "secret" /\ next \in {"insert", "file"}
               \/ Head(p) = "unsecret" /\ next = "file"
        BY <2>1, <2>2, <1>1, SavingOrder
      <3> QED BY <3>1, <2>1, SavingOrder DEF Programs
    <2>3. CASE p \in Deleting
      <3>1. Tail(p) \in Deleting /\ Head(p) = "forget" /\ next = "unlogo"
        BY <2>1, <2>3, <1>1, DeletingOrder
      <3> QED BY <3>1, <2>1, DeletingOrder DEF Programs
    <2> QED BY <2>1, <2>2, <2>3, <1>1, StepKinds
  <1>4. ConfigTypes' /\ OneAtATime'
    <2>1. ConfigTypes BY DEF ConfigInv
    <2>2. /\ sourceFile' \in Sources /\ sourceSnap' \in Sources /\ runningAs' \in Sources
          /\ settingsFile' \in SettingsDocs /\ settingsSnap' \in SettingsDocs
          /\ viewFile' \in Nat /\ viewSnap' \in Nat
      BY <2>1, <1>1 DEF ConfigTypes
    <2> QED BY <2>2, MoveTypes
  <1>5. SecretSafe'
    <2>1. Step(c) \in Clears => cleared BY <1>1 DEF ConfigInv, SecretSafe
    <2>2. (secretHeld => secretHeld' \/ cleared) /\ (Step(c) = "secret" => secretHeld')
      BY <1>1, <2>1 DEF Clears
    <2>3. sourceFile' = sourceFile /\ sourceSnap' = sourceSnap BY <1>1
    <2> QED BY <2>2, <2>3, MoveSecret
  <1>6. ASSUME ~overlapped
        PROVE  LogoKept' /\ DefaultKept' /\ RuntimeKept' /\ Facts(Tail(p), next, doc, set)'
    <2>1. LogoKept /\ DefaultKept /\ RuntimeKept /\ Facts(p, Head(p), doc, set)
      BY <1>0, <1>1, <1>6, Relies
    <2>2. LogoKept' /\ DefaultKept' /\ RuntimeKept'
      BY <2>1, <1>1, Zenon DEF LogoKept, DefaultKept, RuntimeKept, Moves, Aside
    <2>3. Level(next)' BY <2>1, <1>1, <1>2 DEF Facts, Level
    <2>4. SaveHolds(next, doc)' BY <2>1, <1>1, <1>2 DEF Facts, SaveHolds
    <2>5. LogoHolds(Tail(p), next, doc)'
      <3>1. LogoHolds(p, Head(p), doc) BY <2>1 DEF Facts
      <3>2. CASE next = "insert"
        <4>1. doc.logo = 0 BY <3>1, <3>2, <1>2 DEF LogoHolds
        <4> QED BY <4>1, <3>2 DEF LogoHolds
      <3>3. CASE next = "file"
        <4>1. doc.logo = sourceFile.logo BY <3>1, <3>3, <1>2 DEF LogoHolds
        <4> QED BY <4>1, <3>3, <1>1, <1>2 DEF LogoHolds
      <3>4. CASE next = "unlogo" BY <3>4 DEF LogoHolds
      <3> QED BY <3>2, <3>3, <3>4, <1>2
    <2>6. DeleteHolds(next)' BY <2>1, <1>1, <1>2 DEF Facts, DeleteHolds
    <2>7. SettleHolds(next, set)' BY <1>2 DEF SettleHolds
    <2> QED BY <2>2, <2>3, <2>4, <2>5, <2>6, <2>7 DEF Facts
  <1>7. Story' BY <1>0, <1>2, <1>6, MoveStory
  <1> QED BY <1>4, <1>5, <1>7 DEF ConfigInv

\* delete_source removes the file, then the entry.
LEMMA DeleteKeeps ==
  ASSUME ConfigInv, NEW c \in CommandIds, Moves(c), DeleteSource(c), UNCHANGED halfSaved
  PROVE  ConfigInv'
  <1>0. PICK p, doc, set : p = program[c] /\ doc = document[c] /\ set = settingsDoc[c] OBVIOUS
  <1> DEFINE next == Head(Tail(p))
  <1>1. /\ Step(c) = Head(p) /\ Steps(c)
        /\ \/ Head(p) = "unfile" /\ sourceFile' = NoSource /\ sourceSnap' = sourceSnap
           \/ Head(p) = "unsnapshot" /\ sourceSnap' = NoSource /\ sourceFile' = sourceFile
        /\ UNCHANGED <<secretHeld, logoFiles, runningAs, settingsFile, settingsSnap, viewFile, viewSnap>>
    BY <1>0 DEF DeleteSource, At, Step
  <1>2. /\ p \in Programs /\ Tail(p) \in Programs /\ Tail(p) # <<>>
        /\ Head(p) = "unfile" => next = "unsnapshot"
        /\ Head(p) = "unsnapshot" => next = "unproject"
    <2>1. p \in Programs BY <1>0, MoveFrame
    <2>2. p \in Deleting BY <2>1, <1>1, StepKinds
    <2>3. /\ Tail(p) \in Deleting
          /\ Head(p) = "unfile" => next = "unsnapshot"
          /\ Head(p) = "unsnapshot" => next = "unproject"
      BY <2>2, <1>1, DeletingOrder
    <2> QED BY <2>1, <2>3, DeletingOrder DEF Programs
  <1>3. NoSource \in Sources /\ ~NoSource.there /\ NoSource.logo = 0 BY DEF NoSource, Sources
  <1>4. ConfigTypes' /\ OneAtATime'
    <2>1. ConfigTypes BY DEF ConfigInv
    <2>2. /\ sourceFile' \in Sources /\ sourceSnap' \in Sources /\ runningAs' \in Sources
          /\ settingsFile' \in SettingsDocs /\ settingsSnap' \in SettingsDocs
          /\ viewFile' \in Nat /\ viewSnap' \in Nat
      BY <2>1, <1>1, <1>3 DEF ConfigTypes
    <2> QED BY <2>2, MoveTypes
  <1>5. SecretSafe'
    <2>1. (secretHeld => secretHeld' \/ cleared) /\ Step(c) # "secret" BY <1>1
    <2>2. sourceFile' \in {sourceFile, NoSource} /\ sourceSnap' \in {sourceSnap, NoSource} BY <1>1
    <2> QED BY <2>1, <2>2, MoveSecret
  <1>6. ASSUME ~overlapped
        PROVE  LogoKept' /\ DefaultKept' /\ RuntimeKept' /\ Facts(Tail(p), next, doc, set)'
    <2>1. LogoKept /\ DefaultKept /\ RuntimeKept /\ Facts(p, Head(p), doc, set)
      BY <1>0, <1>1, <1>6, Relies
    <2>2. ~runningAs.there /\ ~settingsFile.default BY <2>1, <1>1 DEF Facts, DeleteHolds
    <2>3. LogoKept'
      <3>1. CASE sourceFile' = NoSource BY <3>1, <1>3 DEF LogoKept
      <3>2. CASE sourceFile' = sourceFile BY <3>2, <2>1, <1>1, Zenon DEF LogoKept, Moves, Aside
      <3> QED BY <3>1, <3>2, <1>1
    <2>4. DefaultKept' /\ RuntimeKept' BY <2>2, <1>1, Zenon DEF DefaultKept, RuntimeKept
    <2>5. Level(next)'
      <3>1. CASE Head(p) = "unfile" BY <3>1, <2>1, <1>1, <1>2 DEF Facts, Level
      <3>2. CASE Head(p) = "unsnapshot"
        <4>1. sourceFile = NoSource BY <3>2, <2>1 DEF Facts, DeleteHolds
        <4> QED BY <4>1, <3>2, <2>1, <1>1, <1>2 DEF Facts, Level
      <3> QED BY <3>1, <3>2, <1>1
    <2>6. SaveHolds(next, doc)' /\ LogoHolds(Tail(p), next, doc)' /\ SettleHolds(next, set)'
      BY <1>1, <1>2 DEF SaveHolds, LogoHolds, SettleHolds
    <2>7. DeleteHolds(next)'
      <3>1. ~runningAs'.there /\ ~settingsFile'.default BY <2>2, <1>1
      <3>2. next = "unsnapshot" => sourceFile' = NoSource BY <1>1, <1>2
      <3> QED BY <3>1, <3>2, Zenon DEF DeleteHolds
    <2> QED BY <2>3, <2>4, <2>5, <2>6, <2>7 DEF Facts
  <1>7. Story' BY <1>0, <1>2, <1>6, MoveStory
  <1> QED BY <1>4, <1>5, <1>7 DEF ConfigInv

\* The logo images: the new one comes before the document names it, the one it
\* replaces goes when the document does not name it any more.
LEMMA LogoKeeps ==
  ASSUME ConfigInv, NEW c \in CommandIds, Moves(c), MoveLogo(c), UNCHANGED halfSaved
  PROVE  ConfigInv'
  <1>0. PICK p, doc, set : p = program[c] /\ doc = document[c] /\ set = settingsDoc[c] OBVIOUS
  <1> DEFINE next == Head(Tail(p))
  <1>1. /\ Step(c) = Head(p) /\ Steps(c)
        /\ \/ Head(p) = "picture" /\ logoFiles' = logoFiles \cup {doc.logo}
           \/ Head(p) = "unpicture" /\ logoFiles' = logoFiles \ {doc.logo - 1}
           \/ Head(p) = "unlogo" /\ logoFiles' = logoFiles \ {doc.logo}
        /\ UNCHANGED <<sourceFile, sourceSnap, secretHeld, runningAs, settingsFile, settingsSnap,
                       viewFile, viewSnap>>
    BY <1>0 DEF MoveLogo, At, Step
  <1>2. /\ p \in Programs
        /\ Head(p) = "picture" => Tail(p) \in Picturing \cap Programs /\ next = "file"
        /\ Head(p) = "unlogo" => Tail(p) \in Programs /\ next = "undefault"
        /\ Head(p) = "picture" => p \in Picturing
        /\ Head(p) = "unpicture" => Tail(p) = <<>>
    <2>1. p \in Programs BY <1>0, MoveFrame
    <2>2. CASE p \in Picturing BY <2>1, <2>2, <1>1, PicturingOrder DEF Programs
    <2>3. CASE p \in Deleting
      <3>1. Tail(p) \in Deleting /\ Head(p) = "unlogo" /\ next = "undefault"
        BY <2>3, <1>1, DeletingOrder
      <3> QED BY <2>1, <3>1 DEF Programs
    <2> QED BY <2>1, <2>2, <2>3, <1>1, StepKinds
  <1>3. doc \in Sources /\ sourceFile \in Sources BY <1>0 DEF ConfigInv, ConfigTypes
  <1>4. ConfigTypes' /\ OneAtATime'
    <2>1. ConfigTypes BY DEF ConfigInv
    <2>2. /\ sourceFile' \in Sources /\ sourceSnap' \in Sources /\ runningAs' \in Sources
          /\ settingsFile' \in SettingsDocs /\ settingsSnap' \in SettingsDocs
          /\ viewFile' \in Nat /\ viewSnap' \in Nat
      BY <2>1, <1>1 DEF ConfigTypes
    <2> QED BY <2>2, MoveTypes
  <1>5. SecretSafe'
    <2>1. (secretHeld => secretHeld' \/ cleared) /\ Step(c) # "secret" BY <1>1
    <2>2. sourceFile' = sourceFile /\ sourceSnap' = sourceSnap BY <1>1
    <2> QED BY <2>1, <2>2, MoveSecret
  <1>6. ASSUME ~overlapped
        PROVE  /\ LogoKept' /\ DefaultKept' /\ RuntimeKept'
               /\ Head(p) = "unpicture" => Level("rest")'
               /\ Head(p) # "unpicture" => Facts(Tail(p), next, doc, set)'
    <2>1. LogoKept /\ DefaultKept /\ RuntimeKept /\ Facts(p, Head(p), doc, set)
      BY <1>0, <1>1, <1>6, Relies
    <2>2. LogoKept'
      <3>1. cleared' = cleared BY DEF Moves, Aside
      <3>2. CASE Head(p) = "picture" BY <3>1, <3>2, <2>1, <1>1 DEF LogoKept
      <3>3. CASE Head(p) = "unpicture"
        <4>1. sourceFile = doc BY <3>3, <2>1 DEF Facts, SaveHolds
        <4>2. doc.logo \in Nat BY <1>3 DEF Sources
        <4> QED BY <4>1, <4>2, <3>1, <3>3, <2>1, <1>1 DEF LogoKept
      <3>4. CASE Head(p) = "unlogo"
        <4>1. cleared BY <3>4, <1>1 DEF ConfigInv, SecretSafe, Clears
        <4> QED BY <4>1, <3>1, Zenon DEF LogoKept
      <3> QED BY <3>2, <3>3, <3>4, <1>1
    <2>3. DefaultKept' /\ RuntimeKept' BY <2>1, <1>1, Zenon DEF DefaultKept, RuntimeKept
    <2>4. Level("rest")' /\ Level("file")' /\ Level("undefault")' BY <2>1, <1>1 DEF Facts, Level
    <2>5. ASSUME Head(p) # "unpicture" PROVE Facts(Tail(p), next, doc, set)'
      <3>1. next \in {"file", "undefault"} BY <2>5, <1>1, <1>2
      <3>2. SaveHolds(next, doc)' BY <3>1, <2>5, <2>1, <1>1, <1>2 DEF Facts, SaveHolds
      <3>3. LogoHolds(Tail(p), next, doc)'
        <4>1. CASE Head(p) = "picture"
          <5>1. doc.logo = sourceFile.logo + 1 BY <4>1, <2>1, <1>2 DEF Facts, LogoHolds
          <5> QED BY <5>1, <4>1, <1>1, <1>2 DEF LogoHolds
        <4>2. CASE Head(p) = "unlogo" BY <4>2, <1>2 DEF LogoHolds
        <4> QED BY <4>1, <4>2, <2>5, <1>1
      <3>4. DeleteHolds(next)' BY <3>1, <2>5, <2>1, <1>1, <1>2 DEF Facts, DeleteHolds
      <3>5. SettleHolds(next, set)' BY <3>1 DEF SettleHolds
      <3> QED BY <3>1, <3>2, <3>3, <3>4, <3>5, <2>4 DEF Facts
    <2> QED BY <2>2, <2>3, <2>4, <2>5
  <1>7. Story'
    <2>1. /\ Tail(p) = <<>> => Head(p) = "unpicture"
          /\ Tail(p) \in Programs => Head(p) # "unpicture"
      BY <1>1, <1>2, EmptyIsOver
    <2> QED BY <2>1, <1>0, <1>6, MoveStory
  <1> QED BY <1>4, <1>5, <1>7 DEF ConfigInv

\* The projection and the rows of the mail: no other state depends on them.
LEMMA ProjectKeeps ==
  ASSUME ConfigInv, NEW c \in CommandIds, Moves(c), Project(c), UNCHANGED halfSaved
  PROVE  ConfigInv'
  <1>0. PICK p, doc, set : p = program[c] /\ doc = document[c] /\ set = settingsDoc[c] OBVIOUS
  <1> DEFINE next == Head(Tail(p))
  <1>1. /\ Step(c) = Head(p) /\ Steps(c) /\ Head(p) \in {"project", "unproject", "purge"}
        /\ UNCHANGED <<sourceFile, sourceSnap, secretHeld, logoFiles, runningAs, settingsFile,
                       settingsSnap, viewFile, viewSnap>>
    BY <1>0 DEF Project, At, Step
  <1>2. /\ p \in Programs
        /\ Head(p) = "project" => next \in {"start", "unpicture"}
        /\ Head(p) = "unproject" => next = "purge"
        /\ Head(p) = "purge" => Tail(p) = <<>>
    <2>1. p \in Programs BY <1>0, MoveFrame
    <2>2. CASE p \in Saving BY <2>1, <2>2, <1>1, SavingOrder
    <2>3. CASE p \in Picturing BY <2>1, <2>3, <1>1, PicturingOrder
    <2>4. CASE p \in Deleting BY <2>1, <2>4, <1>1, DeletingOrder
    <2> QED BY <2>1, <2>2, <2>3, <2>4, <1>1, StepKinds
  <1>4. ConfigTypes' /\ OneAtATime'
    <2>1. ConfigTypes BY DEF ConfigInv
    <2>2. /\ sourceFile' \in Sources /\ sourceSnap' \in Sources /\ runningAs' \in Sources
          /\ settingsFile' \in SettingsDocs /\ settingsSnap' \in SettingsDocs
          /\ viewFile' \in Nat /\ viewSnap' \in Nat
      BY <2>1, <1>1 DEF ConfigTypes
    <2> QED BY <2>2, MoveTypes
  <1>5. SecretSafe'
    <2>1. (secretHeld => secretHeld' \/ cleared) /\ Step(c) # "secret" BY <1>1
    <2>2. sourceFile' = sourceFile /\ sourceSnap' = sourceSnap BY <1>1
    <2> QED BY <2>1, <2>2, MoveSecret
  <1>6. ASSUME ~overlapped
        PROVE  /\ LogoKept' /\ DefaultKept' /\ RuntimeKept' /\ Level("rest")'
               /\ Tail(p) \in Programs => Facts(Tail(p), next, doc, set)'
    <2>1. LogoKept /\ DefaultKept /\ RuntimeKept /\ Facts(p, Head(p), doc, set)
      BY <1>0, <1>1, <1>6, Relies
    <2>2. LogoKept' /\ DefaultKept' /\ RuntimeKept'
      BY <2>1, <1>1, Zenon DEF LogoKept, DefaultKept, RuntimeKept, Moves, Aside
    <2>3. /\ sourceSnap' = sourceFile' /\ viewSnap' = viewFile'
          /\ settingsSnap'.default = settingsFile'.default
      BY <2>1, <1>1 DEF Facts, Level
    <2>4. ASSUME Tail(p) \in Programs PROVE Facts(Tail(p), next, doc, set)'
      <3>0. Head(p) # "purge" BY <2>4, <1>2, EmptyIsOver
      <3>1. next \in {"start", "unpicture", "purge"} BY <3>0, <1>1, <1>2
      <3>2. SaveHolds(next, doc)'
        <4>1. CASE next = "purge" BY <4>1 DEF SaveHolds
        <4>2. CASE next # "purge"
          <5>1. Head(p) = "project" BY <4>2, <3>0, <1>1, <1>2
          <5>2. doc.there /\ sourceFile' = doc BY <5>1, <2>1, <1>1 DEF Facts, SaveHolds
          <5> HIDE DEF next
          <5> QED BY <5>2 DEF SaveHolds
        <4> QED BY <4>1, <4>2
      <3>3. LogoHolds(Tail(p), next, doc)' /\ DeleteHolds(next)' /\ SettleHolds(next, set)'
        BY <3>1 DEF LogoHolds, DeleteHolds, SettleHolds
      <3>4. Level(next)' BY <2>3 DEF Level
      <3> QED BY <3>2, <3>3, <3>4 DEF Facts
    <2> QED BY <2>2, <2>3, <2>4 DEF Level
  <1>7. Story' BY <1>0, <1>6, MoveStory
  <1> QED BY <1>4, <1>5, <1>7 DEF ConfigInv

\* The runtime starts under a document that file and snapshot both hold; a
\* deletion stops it first.
LEMMA RunKeeps ==
  ASSUME ConfigInv, NEW c \in CommandIds, Moves(c), RunAccount(c), UNCHANGED halfSaved
  PROVE  ConfigInv'
  <1>0. PICK p, doc, set : p = program[c] /\ doc = document[c] /\ set = settingsDoc[c] OBVIOUS
  <1>1. /\ Step(c) = Head(p) /\ Steps(c)
        /\ \/ Head(p) = "start" /\ runningAs' \in {doc, NoSource}
           \/ Head(p) = "stop" /\ runningAs' = NoSource
        /\ UNCHANGED <<sourceFile, sourceSnap, secretHeld, logoFiles, settingsFile, settingsSnap,
                       viewFile, viewSnap>>
    <2>1. CASE document[c].enabled BY <2>1, <1>0 DEF RunAccount, At, Step
    <2>2. CASE ~document[c].enabled BY <2>2, <1>0 DEF RunAccount, At, Step
    <2> QED BY <2>1, <2>2
  <1>2. /\ Head(p) = "start" => Tail(p) = <<>>
        /\ Head(p) = "stop" => Tail(p) \in Programs /\ Head(Tail(p)) = "forget" /\ Tail(p) # <<>>
    <2>1. p \in Programs BY <1>0, MoveFrame
    <2>2. CASE p \in Saving BY <2>1, <2>2, <1>1, SavingOrder
    <2>3. CASE p \in Deleting
      <3>1. Head(p) = "stop" /\ Tail(p) \in Deleting /\ Head(Tail(p)) = "forget"
        BY <2>3, <1>1, DeletingOrder
      <3> QED BY <3>1, DeletingOrder DEF Programs
    <2> QED BY <2>1, <2>2, <2>3, <1>1, StepKinds
  <1>3. doc \in Sources /\ NoSource \in Sources /\ ~NoSource.there
    BY <1>0 DEF ConfigInv, ConfigTypes, NoSource, Sources
  <1>4. ConfigTypes' /\ OneAtATime'
    <2>1. ConfigTypes BY DEF ConfigInv
    <2>2. /\ sourceFile' \in Sources /\ sourceSnap' \in Sources /\ runningAs' \in Sources
          /\ settingsFile' \in SettingsDocs /\ settingsSnap' \in SettingsDocs
          /\ viewFile' \in Nat /\ viewSnap' \in Nat
      BY <2>1, <1>1, <1>3 DEF ConfigTypes
    <2> QED BY <2>2, MoveTypes
  <1>5. SecretSafe'
    <2>1. (secretHeld => secretHeld' \/ cleared) /\ Step(c) # "secret" BY <1>1
    <2>2. sourceFile' = sourceFile /\ sourceSnap' = sourceSnap BY <1>1
    <2> QED BY <2>1, <2>2, MoveSecret
  <1>6. ASSUME ~overlapped
        PROVE  /\ LogoKept' /\ DefaultKept' /\ RuntimeKept' /\ Level("rest")'
               /\ Head(p) = "stop" => Facts(Tail(p), "forget", doc, set)'
    <2>1. LogoKept /\ DefaultKept /\ Facts(p, Head(p), doc, set) BY <1>0, <1>1, <1>6, Relies
    <2>2. LogoKept' /\ DefaultKept' BY <2>1, <1>1, Zenon DEF LogoKept, DefaultKept, Moves, Aside
    <2>3. RuntimeKept'
      <3>1. CASE runningAs' = NoSource BY <3>1, <1>3 DEF RuntimeKept
      <3>2. CASE Head(p) = "start" /\ runningAs' = doc
        <4>1. sourceFile = doc /\ doc.there /\ sourceSnap = sourceFile
          BY <3>2, <2>1 DEF Facts, SaveHolds, Level
        <4> QED BY <4>1, <1>1 DEF RuntimeKept
      <3> QED BY <3>1, <3>2, <1>1
    <2>4. Level("rest")' /\ Level("forget")' BY <2>1, <1>1 DEF Facts, Level
    <2>5. SaveHolds("forget", doc)' /\ LogoHolds(Tail(p), "forget", doc)' /\ SettleHolds("forget", set)'
      BY DEF SaveHolds, LogoHolds, SettleHolds
    <2>6. Head(p) = "stop" => DeleteHolds("forget")' BY <1>1, <1>3 DEF DeleteHolds
    <2> QED BY <2>2, <2>3, <2>4, <2>5, <2>6 DEF Facts
  <1>7. Story'
    <2>1. Tail(p) \in Programs => Head(p) = "stop" BY <1>1, <1>2, EmptyIsOver
    <2>2. Tail(p) \in Programs => Head(Tail(p)) = "forget" BY <2>1, <1>2
    <2> QED BY <2>1, <2>2, <1>0, <1>6, MoveStory
  <1> QED BY <1>4, <1>5, <1>7 DEF ConfigInv

\* put_app_settings: the managed keys to the file, the document to the
\* snapshot; a deletion takes the account's id out of both.
LEMMA AppSettingsKeep ==
  ASSUME ConfigInv, NEW c \in CommandIds, Moves(c), PutAppSettings(c), UNCHANGED halfSaved
  PROVE  ConfigInv'
  <1>0. PICK p, doc, set : p = program[c] /\ doc = document[c] /\ set = settingsDoc[c] OBVIOUS
  <1> DEFINE next == Head(Tail(p))
             cut == [settingsSnap EXCEPT !.default = FALSE]
  <1>t. ConfigTypes /\ set \in SettingsDocs BY <1>0 DEF ConfigInv, ConfigTypes
  <1>1. /\ Step(c) = Head(p) /\ Steps(c)
        /\ \/ Head(p) = "appfile" /\ settingsFile' = Managed(set) /\ settingsSnap' = settingsSnap
           \/ Head(p) = "appsnapshot" /\ settingsSnap' = set /\ settingsFile' = settingsFile
           \/ /\ Head(p) = "undefault" /\ settingsSnap' = cut
              /\ settingsFile' = IF settingsSnap.default THEN Managed(cut) ELSE settingsFile
        /\ UNCHANGED <<sourceFile, sourceSnap, secretHeld, logoFiles, runningAs, viewFile, viewSnap>>
    BY <1>0 DEF PutAppSettings, At, Step, Managed
  <1>2. /\ Head(p) = "appfile" => Tail(p) \in Programs /\ next = "appsnapshot"
        /\ Head(p) = "appsnapshot" => Tail(p) = <<>>
        /\ Head(p) = "undefault" => Tail(p) \in Programs /\ next = "unfile"
    <2>1. p \in Programs BY <1>0, MoveFrame
    <2>2. CASE p \in Settling BY <2>1, <2>2, <1>1, SettlingOrder DEF Programs
    <2>3. CASE p \in Deleting BY <2>1, <2>3, <1>1, DeletingOrder DEF Programs
    <2> QED BY <2>1, <2>2, <2>3, <1>1, StepKinds
  <1>3. /\ Managed(set) \in SettingsDocs /\ Managed(set).default = set.default
        /\ cut \in SettingsDocs /\ cut.default = FALSE
        /\ Managed(cut) \in SettingsDocs /\ Managed(cut).default = FALSE
    BY <1>t DEF Managed, SettingsDocs, ConfigTypes
  <1> HIDE DEF cut
  <1>8. settingsFile' \in SettingsDocs /\ settingsSnap' \in SettingsDocs
    <2>1. CASE settingsSnap.default BY <2>1, <1>t, <1>1, <1>3 DEF ConfigTypes
    <2>2. CASE ~settingsSnap.default BY <2>2, <1>t, <1>1, <1>3 DEF ConfigTypes
    <2> QED BY <2>1, <2>2
  <1>4. ConfigTypes' /\ OneAtATime'
    <2>2. /\ sourceFile' \in Sources /\ sourceSnap' \in Sources /\ runningAs' \in Sources
          /\ viewFile' \in Nat /\ viewSnap' \in Nat
      BY <1>t, <1>1 DEF ConfigTypes
    <2> QED BY <2>2, <1>8, MoveTypes
  <1>5. SecretSafe'
    <2>1. (secretHeld => secretHeld' \/ cleared) /\ Step(c) # "secret" BY <1>1
    <2>2. sourceFile' = sourceFile /\ sourceSnap' = sourceSnap BY <1>1
    <2> QED BY <2>1, <2>2, MoveSecret
  <1>6. ASSUME ~overlapped
        PROVE  /\ LogoKept' /\ DefaultKept' /\ RuntimeKept'
               /\ Tail(p) = <<>> => Level("rest")'
               /\ Tail(p) \in Programs => Facts(Tail(p), next, doc, set)'
    <2>1. LogoKept /\ DefaultKept /\ RuntimeKept /\ Facts(p, Head(p), doc, set)
      BY <1>0, <1>1, <1>6, Relies
    <2>2. LogoKept' /\ RuntimeKept'
      BY <2>1, <1>1, Zenon DEF LogoKept, RuntimeKept, Moves, Aside
    <2>3. /\ sourceSnap' = sourceFile' /\ viewSnap' = viewFile'
          /\ Head(p) # "appsnapshot" => settingsSnap.default = settingsFile.default
      BY <2>1, <1>1 DEF Facts, Level
    <2>4. CASE Head(p) = "appfile"
      <3>1. settingsFile' = Managed(set) /\ settingsFile'.default = set.default BY <2>4, <1>1, <1>3
      <3>2. set.default => sourceFile.there BY <2>4, <2>1 DEF Facts, SettleHolds
      <3>3. DefaultKept' BY <3>1, <3>2, <1>1 DEF DefaultKept
      <3>4. Level("appsnapshot")' BY <2>3 DEF Level
      <3>5. SettleHolds("appsnapshot", set)' BY <3>1 DEF SettleHolds
      <3>6. /\ SaveHolds("appsnapshot", doc)' /\ LogoHolds(Tail(p), "appsnapshot", doc)'
            /\ DeleteHolds("appsnapshot")'
        BY DEF SaveHolds, LogoHolds, DeleteHolds
      <3>7. Tail(p) # <<>> /\ next = "appsnapshot" BY <2>4, <1>2, EmptyIsOver
      <3> QED BY <2>2, <3>3, <3>4, <3>5, <3>6, <3>7 DEF Facts
    <2>5. CASE Head(p) = "appsnapshot"
      <3>1. DefaultKept' BY <2>1, <2>5, <1>1 DEF DefaultKept
      <3>2. settingsFile.default = set.default BY <2>5, <2>1 DEF Facts, SettleHolds
      <3>3. settingsSnap'.default = settingsFile'.default BY <3>2, <2>5, <1>1
      <3>4. Level("rest")' BY <3>3, <2>3 DEF Level
      <3>5. Tail(p) \notin Programs BY <2>5, <1>2, EmptyIsOver
      <3> QED BY <2>2, <3>1, <3>4, <3>5
    <2>6. CASE Head(p) = "undefault"
      <3>1. settingsSnap'.default = FALSE BY <2>6, <1>1, <1>3
      <3>2. settingsFile'.default = FALSE
        <4>1. CASE settingsSnap.default BY <4>1, <2>6, <1>1, <1>3
        <4>2. CASE ~settingsSnap.default
          <5>1. settingsFile' = settingsFile BY <4>2, <2>6, <1>1
          <5>2. settingsFile.default = settingsSnap.default BY <2>3, <2>6
          <5>3. settingsFile.default \in BOOLEAN BY <1>t DEF ConfigTypes, SettingsDocs
          <5> QED BY <4>2, <5>1, <5>2, <5>3
        <4> QED BY <4>1, <4>2
      <3>3. DefaultKept' BY <3>2 DEF DefaultKept
      <3>4. Level("unfile")' BY <3>1, <3>2, <2>3 DEF Level
      <3>5. ~runningAs'.there BY <2>6, <2>1, <1>1 DEF Facts, DeleteHolds
      <3>6. DeleteHolds("unfile")' BY <3>2, <3>5 DEF DeleteHolds
      <3>7. SaveHolds("unfile", doc)' /\ LogoHolds(Tail(p), "unfile", doc)' /\ SettleHolds("unfile", set)'
        BY DEF SaveHolds, LogoHolds, SettleHolds
      <3>8. Tail(p) # <<>> /\ next = "unfile" BY <2>6, <1>2, EmptyIsOver
      <3> QED BY <2>2, <3>3, <3>4, <3>6, <3>7, <3>8 DEF Facts
    <2> QED BY <2>4, <2>5, <2>6, <1>1
  <1>7. Story' BY <1>0, <1>6, MoveStory
  <1> QED BY <1>4, <1>5, <1>7 DEF ConfigInv

\* A smart mailbox: its file, then its entry.
LEMMA SmartMailboxKeeps ==
  ASSUME ConfigInv, NEW c \in CommandIds, Moves(c), PutSmartMailbox(c), UNCHANGED halfSaved
  PROVE  ConfigInv'
  <1>0. PICK p, doc, set : p = program[c] /\ doc = document[c] /\ set = settingsDoc[c] OBVIOUS
  <1> DEFINE next == Head(Tail(p))
  <1>t. ConfigTypes /\ set \in SettingsDocs /\ set.layout \in Nat
    BY <1>0 DEF ConfigInv, ConfigTypes, SettingsDocs
  <1>1. /\ Step(c) = Head(p) /\ Steps(c)
        /\ \/ Head(p) = "viewfile" /\ viewFile' = set.layout /\ viewSnap' = viewSnap
           \/ Head(p) = "viewsnapshot" /\ viewSnap' = set.layout /\ viewFile' = viewFile
        /\ UNCHANGED <<sourceFile, sourceSnap, secretHeld, logoFiles, runningAs, settingsFile, settingsSnap>>
    BY <1>0 DEF PutSmartMailbox, At, Step
  <1>2. /\ Head(p) = "viewfile" => Tail(p) \in Programs /\ next = "viewsnapshot"
        /\ Head(p) = "viewsnapshot" => Tail(p) = <<>>
    <2>1. p \in Programs BY <1>0, MoveFrame
    <2>2. p \in Settling BY <2>1, <1>1, StepKinds
    <2> QED BY <2>2, <1>1, SettlingOrder DEF Programs
  <1>4. ConfigTypes' /\ OneAtATime'
    <2>2. /\ sourceFile' \in Sources /\ sourceSnap' \in Sources /\ runningAs' \in Sources
          /\ settingsFile' \in SettingsDocs /\ settingsSnap' \in SettingsDocs
          /\ viewFile' \in Nat /\ viewSnap' \in Nat
      BY <1>t, <1>1 DEF ConfigTypes
    <2> QED BY <2>2, MoveTypes
  <1>5. SecretSafe'
    <2>1. (secretHeld => secretHeld' \/ cleared) /\ Step(c) # "secret" BY <1>1
    <2>2. sourceFile' = sourceFile /\ sourceSnap' = sourceSnap BY <1>1
    <2> QED BY <2>1, <2>2, MoveSecret
  <1>6. ASSUME ~overlapped
        PROVE  /\ LogoKept' /\ DefaultKept' /\ RuntimeKept'
               /\ Tail(p) = <<>> => Level("rest")'
               /\ Tail(p) \in Programs => Facts(Tail(p), next, doc, set)'
    <2>1. LogoKept /\ DefaultKept /\ RuntimeKept /\ Facts(p, Head(p), doc, set)
      BY <1>0, <1>1, <1>6, Relies
    <2>2. LogoKept' /\ DefaultKept' /\ RuntimeKept'
      BY <2>1, <1>1, Zenon DEF LogoKept, DefaultKept, RuntimeKept, Moves, Aside
    <2>3. /\ sourceSnap' = sourceFile' /\ settingsSnap'.default = settingsFile'.default
          /\ Head(p) = "viewsnapshot" => viewFile = set.layout
      BY <2>1, <1>1 DEF Facts, Level, SettleHolds
    <2>4. CASE Head(p) = "viewfile"
      <3>1. Tail(p) # <<>> /\ next = "viewsnapshot" BY <2>4, <1>2, EmptyIsOver
      <3>2. Level("viewsnapshot")' BY <2>3 DEF Level
      <3>3. SettleHolds("viewsnapshot", set)' BY <2>4, <1>1 DEF SettleHolds
      <3>4. /\ SaveHolds("viewsnapshot", doc)' /\ LogoHolds(Tail(p), "viewsnapshot", doc)'
            /\ DeleteHolds("viewsnapshot")'
        BY DEF SaveHolds, LogoHolds, DeleteHolds
      <3> QED BY <2>2, <3>1, <3>2, <3>3, <3>4 DEF Facts
    <2>5. CASE Head(p) = "viewsnapshot"
      <3>1. Level("rest")' BY <2>3, <2>5, <1>1 DEF Level
      <3>2. Tail(p) \notin Programs BY <2>5, <1>2, EmptyIsOver
      <3> QED BY <2>2, <3>1, <3>2
    <2> QED BY <2>4, <2>5, <1>1
  <1>7. Story' BY <1>0, <1>6, MoveStory
  <1> QED BY <1>4, <1>5, <1>7 DEF ConfigInv

-----------------------------------------------------------------------------
(* Failures, stops and starts.                                             *)

\* The two places where a failed save takes its new logo back.
LEMMA LogoTakenBack ==
    /\ Tail(LogoSteps(0)) \in Picturing /\ Head(Tail(LogoSteps(0))) = "file"
    /\ Tail(Tail(Tail(LogoSteps(0)))) \in Picturing
    /\ Head(Tail(Tail(Tail(LogoSteps(0))))) = "project"
  <1>1. LogoSteps(0) \in Picturing /\ Head(LogoSteps(0)) = "picture" BY OpeningPrograms
  <1>2. Tail(LogoSteps(0)) \in Picturing /\ Head(Tail(LogoSteps(0))) = "file"
    BY <1>1, PicturingOrder
  <1>3. /\ Tail(Tail(LogoSteps(0))) \in Picturing
        /\ Head(Tail(Tail(LogoSteps(0)))) = "snapshot"
    BY <1>2, PicturingOrder
  <1>4. /\ Tail(Tail(Tail(LogoSteps(0)))) \in Picturing
        /\ Head(Tail(Tail(Tail(LogoSteps(0))))) = "project"
    BY <1>3, PicturingOrder
  <1> QED BY <1>2, <1>4

\* A step fails before it changed anything; the command ends there.
LEMMA FailKeeps ==
  ASSUME ConfigInv, NEW c \in CommandIds, StepFails(c), Aside PROVE ConfigInv'
  <1>0. PICK p, doc, set : p = program[c] /\ doc = document[c] /\ set = settingsDoc[c] OBVIOUS
  <1>t. ConfigTypes BY DEF ConfigInv
  <1>1. /\ Steps(c) /\ assembled /\ Step(c) = Head(p) /\ Head(p) \in Fallible
        /\ halfSaved' = (halfSaved \/ Head(p) = "project")
        /\ logoFiles' = IF p \in {Tail(LogoSteps(0)), Tail(Tail(Tail(LogoSteps(0))))}
                        THEN logoFiles \ {doc.logo} ELSE logoFiles
        /\ program' = [program EXCEPT ![c] = <<>>]
        /\ UNCHANGED <<sourceFile, sourceSnap, secretHeld, projected, mailKept, runningAs,
                       settingsFile, settingsSnap, viewFile, viewSnap>>
        /\ UNCHANGED <<document, settingsDoc, assembled, cleared, overlapped>>
    BY <1>0 DEF StepFails, Step, Aside
  <1>2. /\ program'[c] = <<>>
        /\ \A d \in CommandIds : d # c => program'[d] = program[d]
    BY <1>1, <1>t DEF ConfigTypes
  <1>3. /\ ~Steps(c)'
        /\ \A d \in CommandIds : d # c => (Steps(d)' <=> Steps(d)) /\ Step(d)' = Step(d)
    BY <1>2 DEF Steps, Ready, Step
  <1>4. ConfigTypes' BY <1>t, <1>1 DEF ConfigTypes
  <1>5. SecretSafe'
    <2>1. SecretSafe BY DEF ConfigInv
    <2>2. \A d \in CommandIds : Steps(d)' => Steps(d) /\ Step(d)' = Step(d) BY <1>3
    <2> QED BY <2>1, <2>2, <1>1, Zenon DEF SecretSafe
  <1>6. OneAtATime'
    <2>1. OneAtATime BY DEF ConfigInv
    <2>2. \A d \in CommandIds : Steps(d)' => Steps(d) BY <1>3
    <2> QED BY <2>1, <2>2, <1>1 DEF OneAtATime
  <1>7. Story'
    <2> SUFFICES ASSUME ~overlapped'
        PROVE  /\ LogoKept' /\ DefaultKept' /\ RuntimeKept' /\ Level("rest")'
               /\ \A d \in CommandIds : ~Steps(d)'
      BY DEF Story
    <2>1. ~overlapped BY <1>1
    <2>2. LogoKept /\ DefaultKept /\ RuntimeKept /\ Facts(p, Head(p), doc, set)
      BY <2>1, <1>0, <1>1, Relies
    <2>3. DefaultKept' /\ RuntimeKept' BY <2>2, <1>1, Zenon DEF DefaultKept, RuntimeKept
    <2>4. Head(p) \notin {"snapshot", "unsnapshot", "viewsnapshot", "appsnapshot"}
      BY <1>1 DEF Fallible
    <2>5. Level("rest")' BY <2>2, <2>4, <1>1 DEF Facts, Level
    <2>6. \A d \in CommandIds : ~Steps(d)'
      BY <2>1, <1>1, <1>3 DEF ConfigInv, OneAtATime
    <2>7. LogoKept'
      <3>1. CASE p = Tail(LogoSteps(0))
        <4>1. Head(p) = "file" /\ p \in Picturing BY <3>1, LogoTakenBack
        <4>2. doc.logo = sourceFile.logo + 1 BY <4>1, <2>2 DEF Facts, LogoHolds
        <4>3. logoFiles' = logoFiles \ {doc.logo} BY <3>1, <1>1
        <4>4. sourceFile.logo \in Nat BY <1>t DEF ConfigTypes, Sources
        <4>5. ~halfSaved' => ~halfSaved BY <1>1
        <4>6. doc.logo # sourceFile.logo BY <4>2, <4>4
        <4>7. (~halfSaved' /\ ~cleared' /\ sourceFile'.logo > 0) => sourceFile'.logo \in logoFiles
          BY <2>2, <4>5, <1>1 DEF LogoKept
        <4> QED BY <4>3, <4>6, <4>7, <1>1 DEF LogoKept
      <3>2. CASE p = Tail(Tail(Tail(LogoSteps(0))))
        <4>1. Head(p) = "project" BY <3>2, LogoTakenBack
        <4>2. halfSaved' BY <4>1, <1>1
        <4> QED BY <4>2 DEF LogoKept
      <3>3. CASE p \notin {Tail(LogoSteps(0)), Tail(Tail(Tail(LogoSteps(0))))}
        <4>1. logoFiles' = logoFiles BY <3>3, <1>1
        <4>2. ~halfSaved' => ~halfSaved BY <1>1
        <4> QED BY <4>1, <4>2, <2>2, <1>1 DEF LogoKept
      <3> QED BY <3>1, <3>2, <3>3
    <2> QED BY <2>3, <2>5, <2>6, <2>7
  <1> QED BY <1>4, <1>5, <1>6, <1>7 DEF ConfigInv

\* The backend stops: every command under way ends, whatever it had written.
LEMMA StopKeeps == ASSUME ConfigInv, StopBackend PROVE ConfigInv'
  <1>1. /\ program' = [c \in CommandIds |-> IF Ready(c) THEN program[c] ELSE <<>>]
        /\ ~assembled' /\ runningAs' = NoSource
        /\ UNCHANGED <<document, settingsDoc, sourceFile, sourceSnap, secretHeld, logoFiles,
                       settingsFile, settingsSnap, viewFile, viewSnap, cleared, overlapped, halfSaved>>
    BY DEF StopBackend
  <1>2. NoSource \in Sources /\ ~NoSource.there BY DEF NoSource, Sources
  <1>3. ConfigTypes'
    <2>1. program' \in [CommandIds -> Programs \cup {<<>>, <<"new">>}]
      BY <1>1 DEF ConfigInv, ConfigTypes
    <2> QED BY <2>1, <1>1, <1>2 DEF ConfigInv, ConfigTypes
  <1>4. \A c \in CommandIds : ~Steps(c)' BY <1>1 DEF Steps, Ready
  <1>5. SecretSafe'
    <2>1. SecretSafe BY DEF ConfigInv
    <2> QED BY <2>1, <1>1, <1>4, Zenon DEF SecretSafe
  <1>6. OneAtATime' BY <1>1, <1>4 DEF OneAtATime, Quiet, NoSource
  <1>7. Story'
    <2>1. ~overlapped => LogoKept /\ DefaultKept BY DEF ConfigInv, Story
    <2>2. ~overlapped' => LogoKept' /\ DefaultKept' BY <2>1, <1>1, Zenon DEF LogoKept, DefaultKept
    <2>3. RuntimeKept' BY <1>1, <1>2 DEF RuntimeKept
    <2> QED BY <2>2, <2>3, <1>1, <1>4 DEF Story
  <1> QED BY <1>3, <1>5, <1>6, <1>7 DEF ConfigInv

\* The backend assembles again, from what the files hold.
LEMMA AssembleKeeps == ASSUME ConfigInv, Assemble PROVE ConfigInv'
  <1>1. /\ ~assembled /\ assembled' /\ sourceSnap' = sourceFile /\ settingsSnap' = settingsFile
        /\ viewSnap' = viewFile /\ runningAs' \in {sourceFile, NoSource}
        /\ UNCHANGED <<program, document, settingsDoc, sourceFile, secretHeld, logoFiles,
                       settingsFile, viewFile, cleared, overlapped, halfSaved>>
    <2>1. CASE sourceFile.enabled BY <2>1 DEF Assemble
    <2>2. CASE ~sourceFile.enabled BY <2>2 DEF Assemble
    <2> QED BY <2>1, <2>2
  <1>2. NoSource \in Sources /\ ~NoSource.there BY DEF NoSource, Sources
  <1>3. ConfigTypes' BY <1>1, <1>2 DEF ConfigInv, ConfigTypes
  <1>4. Quiet /\ \A c \in CommandIds : (Steps(c)' <=> Steps(c))
    BY <1>1 DEF ConfigInv, OneAtATime, Steps, Ready
  <1>5. SecretSafe'
    <2>1. SecretSafe BY DEF ConfigInv
    <2>2. \A c \in CommandIds : ~Steps(c)' BY <1>4 DEF Quiet
    <2> QED BY <2>1, <2>2, <1>1, Zenon DEF SecretSafe
  <1>6. OneAtATime' BY <1>1, <1>4 DEF OneAtATime, Quiet
  <1>7. Story'
    <2>1. ~overlapped => LogoKept /\ DefaultKept BY DEF ConfigInv, Story
    <2>2. ~overlapped' => LogoKept' /\ DefaultKept' BY <2>1, <1>1, Zenon DEF LogoKept, DefaultKept
    <2>3. RuntimeKept'
      <3>1. CASE runningAs' = NoSource BY <3>1, <1>2 DEF RuntimeKept
      <3>2. CASE runningAs' = sourceFile BY <3>2, <1>1 DEF RuntimeKept
      <3> QED BY <3>1, <3>2, <1>1
    <2>4. Level("rest")' BY <1>1 DEF Level
    <2>5. \A c \in CommandIds : ~Steps(c)' BY <1>4 DEF Quiet
    <2> QED BY <2>2, <2>3, <2>4, <2>5 DEF Story
  <1> QED BY <1>3, <1>5, <1>6, <1>7 DEF ConfigInv

-----------------------------------------------------------------------------
\* Every step of every command, a failure, a stop and a start keep the invariant.
LEMMA ConfigInvStep == ConfigInv /\ [ConfigNext]_configVars => ConfigInv'
  <1> SUFFICES ASSUME ConfigInv, [ConfigNext]_configVars PROVE ConfigInv' OBVIOUS
  <1>1. ASSUME NEW c \in CommandIds,
               \/ CreateAccount(c) \/ CompleteOauth(c) \/ UpdateAccount(c) \/ UpdateAccountTransport(c)
               \/ ReplaceSecret(c) \/ ClearSecret(c) \/ SetAccountLogo(c) \/ DeleteAccount(c)
               \/ UpdateSettings(c) \/ SaveSmartMailbox(c) \/ ResetSmartMailboxes(c)
        PROVE  ConfigInv'
    BY <1>1, CreateKeeps, ChangeKeeps, LogoOrDeleteKeeps, SettleKeeps
  <1>2. ASSUME NEW c \in CommandIds, Act(c), UNCHANGED halfSaved, Aside PROVE ConfigInv'
    <2>1. Moves(c)
      <3>1. assembled /\ Steps(c) /\ Next1(c)
        BY <1>2 DEF Act, At, InsertSource, SaveSource, DeleteSource, KeepSecret, MoveLogo, Project,
                    RunAccount, PutAppSettings, PutSmartMailbox
      <3> QED BY <3>1, <1>2 DEF Moves
    <2>2. CASE SaveSource(c)
      <3>1. CASE Step(c) = "file"
        BY <3>1, <2>1, <2>2, <1>2, FileKeeps DEF SaveSource, At, Step
      <3>2. CASE Step(c) = "snapshot"
        BY <3>2, <2>1, <2>2, <1>2, SnapshotKeeps DEF SaveSource, At, Step
      <3> QED BY <3>1, <3>2, <2>2 DEF SaveSource, At, Step
    <2> QED BY <2>1, <2>2, <1>2, InsertKeeps, DeleteKeeps, SecretKeeps, LogoKeeps, ProjectKeeps,
               RunKeeps, AppSettingsKeep, SmartMailboxKeeps DEF Act
  <1>3. ASSUME NEW c \in CommandIds, StepFails(c), Aside PROVE ConfigInv' BY <1>3, FailKeeps
  <1>4. CASE StopBackend \/ Assemble BY <1>4, StopKeeps, AssembleKeeps
  <1>5. CASE UNCHANGED configVars
    <2>1. ConfigTypes' BY <1>5 DEF configVars, ConfigInv, ConfigTypes
    <2>2. /\ UNCHANGED <<program, document, settingsDoc, sourceFile, sourceSnap, secretHeld, logoFiles,
                         runningAs, settingsFile, settingsSnap, viewFile, viewSnap, assembled,
                         cleared, overlapped, halfSaved>>
          /\ \A c \in CommandIds : (Steps(c)' <=> Steps(c)) /\ Step(c)' = Step(c)
      BY <1>5 DEF configVars, Steps, Ready, Step
    <2>3. SecretSafe' BY <2>2, Zenon DEF ConfigInv, SecretSafe
    <2>4. OneAtATime' BY <2>2 DEF ConfigInv, OneAtATime, Quiet
    <2>5. Story'
      <3>1. \A s : Level(s)' <=> Level(s) BY <2>2 DEF Level
      <3>2. (Quiet' => Quiet) BY <2>2 DEF Quiet
      <3>3. /\ LogoKept => LogoKept'
            /\ DefaultKept => DefaultKept'
            /\ RuntimeKept => RuntimeKept'
        BY <2>2, Zenon DEF LogoKept, DefaultKept, RuntimeKept
      <3>4. \A p, s, doc, set : Facts(p, s, doc, set) => Facts(p, s, doc, set)'
        <4>1. ASSUME NEW p, NEW s, NEW doc, NEW set, Facts(p, s, doc, set)
              PROVE  Facts(p, s, doc, set)'
          BY <4>1, <3>1, <2>2 DEF Facts, SaveHolds, LogoHolds, DeleteHolds, SettleHolds
        <4> QED BY <4>1
      <3> QED BY <3>1, <3>2, <3>3, <3>4, <2>2 DEF ConfigInv, Story
    <2> QED BY <2>1, <2>3, <2>4, <2>5 DEF ConfigInv
  <1>6. \/ \E c \in CommandIds :
              \/ CreateAccount(c) \/ CompleteOauth(c) \/ UpdateAccount(c) \/ UpdateAccountTransport(c)
              \/ ReplaceSecret(c) \/ ClearSecret(c) \/ SetAccountLogo(c) \/ DeleteAccount(c)
              \/ UpdateSettings(c) \/ SaveSmartMailbox(c) \/ ResetSmartMailboxes(c)
        \/ \E c \in CommandIds : Act(c) /\ UNCHANGED halfSaved /\ Aside
        \/ \E c \in CommandIds : StepFails(c) /\ Aside
        \/ StopBackend \/ Assemble \/ UNCHANGED configVars
    BY DEF ConfigNext, Aside
  <1> QED BY <1>1, <1>2, <1>3, <1>4, <1>5, <1>6

\* The parts of ConfigSound.
LEMMA ConfigInvSound == ConfigInv => ConfigSound
  <1> SUFFICES ASSUME ConfigInv PROVE ConfigSound OBVIOUS
  <1>1. SecretBehindRef BY Zenon DEF ConfigInv, SecretSafe, SecretBehindRef
  <1>2. SnapshotIsOnDisk BY DEF ConfigInv, Story, Level, SnapshotIsOnDisk
  <1>3. LogoHasFile BY DEF ConfigInv, Story, LogoKept, LogoHasFile
  <1>4. DefaultExists BY DEF ConfigInv, Story, DefaultKept, DefaultExists
  <1>5. NoOrphanRuntime BY DEF ConfigInv, Story, RuntimeKept, NoOrphanRuntime
  <1> QED BY <1>1, <1>2, <1>3, <1>4, <1>5 DEF ConfigSound

\* The pieces an account's configuration consists of (its file, the snapshot,
\* the secret, the logo, the default account, the runtime) fit together after
\* any step of any command failed or a stop came between, for any number of
\* commands and stops.
THEOREM ConfigAlwaysSound == ConfigSpec => []ConfigSound
  BY ConfigInvInit, ConfigInvStep, ConfigInvSound, PTL DEF ConfigSpec

=============================================================================
