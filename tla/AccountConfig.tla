---------------------------- MODULE AccountConfig ----------------------------
(***************************************************************************)
(* One account's configuration across the places that hold it: the source  *)
(* file and the repository's snapshot, the secret store, the logo files,   *)
(* the store's projection and mail, the supervisor's runtime; and the app  *)
(* settings document and a smart mailbox, kept as file and snapshot the    *)
(* same way.  A command is a program of steps; other commands run between  *)
(* them, a step may fail, and the backend may stop and assemble again.     *)
(***************************************************************************)
EXTENDS Naturals, Sequences

CONSTANTS CommandIds,       \* the commands, 1..n by admission, one after another or at once
          MaxConfigStops    \* bound on backend stops

ASSUME ConfigAssumption == MaxConfigStops \in Nat

VARIABLES program,       \* the steps each command still has to do
          document,      \* the account document each command carries
          settingsDoc,   \* the settings document each command carries
          sourceFile,    \* sources/<id>.toml
          sourceSnap,    \* the snapshot's entry
          secretHeld,    \* the keyring has the account's entry
          logoFiles,     \* logo images on disk
          projected,     \* source_projection
          mailKept,      \* rows of the account's mail
          runningAs,     \* the document the account's runtime was started with
          settingsFile,  \* app.toml
          settingsSnap,
          viewFile,      \* smart-mailboxes/<id>.toml
          viewSnap,
          assembled,     \* the backend is up
          given,         \* the account was created, once
          cleared,       \* a clear or a delete was asked for
          overlapped,    \* two commands were under way at once
          halfSaved,     \* a saved account's projection could not be written
          configStops

configVars == <<program, document, settingsDoc, sourceFile, sourceSnap, secretHeld, logoFiles,
                projected, mailKept, runningAs, settingsFile, settingsSnap, viewFile, viewSnap,
                assembled, given, cleared, overlapped, halfSaved, configStops>>

NoSource == [there |-> FALSE, enabled |-> FALSE, reachable |-> FALSE, secretRef |-> FALSE, logo |-> 0]
NoSettings == [default |-> FALSE, layout |-> 0]
Ready(c) == program[c] = <<"new">>
Steps(c) == ~Ready(c) /\ program[c] # <<>>
Quiet == \A c \in CommandIds : ~Steps(c)

ConfigInit ==
    /\ program = [c \in CommandIds |-> <<"new">>] /\ document = [c \in CommandIds |-> NoSource]
    /\ settingsDoc = [c \in CommandIds |-> NoSettings]
    /\ sourceFile = NoSource /\ sourceSnap = NoSource /\ secretHeld = FALSE /\ logoFiles = {}
    /\ projected = FALSE /\ mailKept = FALSE /\ runningAs = NoSource
    /\ settingsFile = NoSettings /\ settingsSnap = NoSettings /\ viewFile = 0 /\ viewSnap = 0
    /\ assembled = TRUE /\ given = FALSE /\ cleared = FALSE /\ overlapped = FALSE
    /\ halfSaved = FALSE /\ configStops = 0

-----------------------------------------------------------------------------
(* The commands: what each loads or validates, and the steps it takes.     *)

Begin(c, doc, set, steps) ==
    /\ assembled /\ Ready(c) /\ \A d \in CommandIds : d < c => ~Ready(d)
    /\ program' = [program EXCEPT ![c] = steps]
    /\ document' = [document EXCEPT ![c] = doc] /\ settingsDoc' = [settingsDoc EXCEPT ![c] = set]
    /\ overlapped' = (overlapped \/ ~Quiet)
    /\ UNCHANGED <<sourceFile, sourceSnap, secretHeld, logoFiles, projected, mailKept, runningAs,
                   settingsFile, settingsSnap, viewFile, viewSnap, assembled, halfSaved, configStops>>

\* create_account: an account without transport or secret.
CreateAccount(c) == /\ ~given /\ given' = TRUE /\ UNCHANGED cleared
                    /\ \E on \in BOOLEAN : Begin(c, [NoSource EXCEPT !.there = TRUE, !.enabled = on],
                                                 NoSettings, <<"insert", "project", "start">>)

\* complete_oauth after complete_flow: the credential before the account.
CompleteOauthSteps == <<"secret", "insert", "project", "start">>

CompleteOauth(c) == /\ ~given /\ given' = TRUE /\ UNCHANGED cleared
                    /\ Begin(c, [there |-> TRUE, enabled |-> TRUE, reachable |-> TRUE,
                                 secretRef |-> TRUE, logo |-> 0], NoSettings, CompleteOauthSteps)

\* load_account: get_source from the snapshot, or an unknown id.
UpdateAccount(c) == /\ sourceSnap.there /\ UNCHANGED <<given, cleared>>
                    /\ Begin(c, [sourceSnap EXCEPT !.enabled = ~@], NoSettings,
                             <<"file", "snapshot", "project", "start">>)
UpdateAccountTransport(c) == /\ sourceSnap.there /\ UNCHANGED <<given, cleared>>
                             /\ Begin(c, [sourceSnap EXCEPT !.reachable = TRUE], NoSettings,
                                      <<"file", "snapshot", "project", "start">>)
ReplaceSecret(c) == /\ sourceSnap.there /\ UNCHANGED <<given, cleared>>
                    /\ Begin(c, [sourceSnap EXCEPT !.secretRef = TRUE], NoSettings,
                             <<"secret", "file", "snapshot", "project", "start">>)
ClearSecret(c) == /\ sourceSnap.there /\ cleared' = TRUE /\ UNCHANGED given
                  /\ Begin(c, [sourceSnap EXCEPT !.secretRef = FALSE], NoSettings,
                           <<"unsecret", "file", "snapshot", "project", "start">>)

\* set_account_logo: the new image, the account, then the previous image.
LogoSteps(previous) == <<"picture", "file", "snapshot", "project", "unpicture">>

SetAccountLogo(c) == /\ sourceSnap.there /\ sourceSnap.logo < 2 /\ UNCHANGED <<given, cleared>>
                     /\ Begin(c, [sourceSnap EXCEPT !.logo = @ + 1], NoSettings,
                              LogoSteps(sourceSnap.logo))

\* delete_account and the service's delete_source.
DeleteSteps ==
    <<"stop", "forget", "unlogo", "undefault", "unfile", "unsnapshot", "unproject", "purge">>

DeleteAccount(c) == /\ sourceSnap.there /\ cleared' = TRUE /\ UNCHANGED given
                    /\ Begin(c, sourceSnap, NoSettings, DeleteSteps)

\* update_settings: validate_settings_document against the snapshot.
UpdateSettings(c) == \E set \in [default : BOOLEAN, layout : {0, 1}] :
    /\ set # settingsSnap /\ (set.default => sourceSnap.there) /\ UNCHANGED <<given, cleared>>
    /\ Begin(c, NoSource, set, <<"appfile", "appsnapshot">>)

\* create, update or reset a smart mailbox: its file, then its entry.
SaveSmartMailbox(c) == /\ UNCHANGED <<given, cleared>>
                       /\ Begin(c, NoSource, [default |-> FALSE, layout |-> viewSnap + 1],
                                <<"viewfile", "viewsnapshot">>)
ResetSmartMailboxes(c) == /\ viewSnap > 0 /\ UNCHANGED <<given, cleared>>
                          /\ Begin(c, NoSource, NoSettings, <<"viewfile", "viewsnapshot">>)

-----------------------------------------------------------------------------
(* The steps.                                                              *)

Next1(c) == program' = [program EXCEPT ![c] = Tail(@)]
At(c, step) == assembled /\ Steps(c) /\ Head(program[c]) = step

\* insert_source: under the snapshot's lock, refusing an id that exists.
InsertSource(c) == At(c, "insert") /\ Next1(c)
    /\ sourceFile' = document[c] /\ sourceSnap' = document[c]
    /\ UNCHANGED <<secretHeld, logoFiles, projected, mailKept, runningAs, settingsFile, settingsSnap,
                   viewFile, viewSnap>>

\* Fault: a failed write of the file is not reported.
SaveSourceUnreported(c) == (\/ At(c, "file") /\ sourceFile' \in {sourceFile, document[c]} /\ UNCHANGED sourceSnap
                            \/ At(c, "snapshot") /\ sourceSnap' = document[c] /\ UNCHANGED sourceFile)
    /\ Next1(c)
    /\ UNCHANGED <<secretHeld, logoFiles, projected, mailKept, runningAs, settingsFile, settingsSnap,
                   viewFile, viewSnap>>

\* save_source: write_source_toml outside the lock, then the entry, added if it
\* is not there.
SaveSource(c) == (\/ At(c, "file") /\ sourceFile' = document[c] /\ UNCHANGED sourceSnap
                  \/ At(c, "snapshot") /\ sourceSnap' = document[c] /\ UNCHANGED sourceFile)
    /\ Next1(c)
    /\ UNCHANGED <<secretHeld, logoFiles, projected, mailKept, runningAs, settingsFile, settingsSnap,
                   viewFile, viewSnap>>

DeleteSource(c) == (\/ At(c, "unfile") /\ sourceFile' = NoSource /\ UNCHANGED sourceSnap
                    \/ At(c, "unsnapshot") /\ sourceSnap' = NoSource /\ UNCHANGED sourceFile)
    /\ Next1(c)
    /\ UNCHANGED <<secretHeld, logoFiles, projected, mailKept, runningAs, settingsFile, settingsSnap,
                   viewFile, viewSnap>>

\* SecretStore::save and delete; a delete of the account goes on without it.
KeepSecret(c) == (\/ At(c, "secret") /\ secretHeld' = TRUE
                  \/ At(c, "unsecret") /\ secretHeld' = FALSE
                  \/ At(c, "forget") /\ secretHeld' \in {FALSE, secretHeld})
    /\ Next1(c)
    /\ UNCHANGED <<sourceFile, sourceSnap, logoFiles, projected, mailKept, runningAs, settingsFile,
                   settingsSnap, viewFile, viewSnap>>

\* The logo image; the removal of the one it replaces, or of a deleted account's.
MoveLogo(c) == (\/ At(c, "picture") /\ logoFiles' = logoFiles \cup {document[c].logo}
                \/ At(c, "unpicture") /\ logoFiles' = logoFiles \ {document[c].logo - 1}
                \/ At(c, "unlogo") /\ logoFiles' = logoFiles \ {document[c].logo})
    /\ Next1(c)
    /\ UNCHANGED <<sourceFile, sourceSnap, secretHeld, projected, mailKept, runningAs, settingsFile,
                   settingsSnap, viewFile, viewSnap>>

\* upsert_source_projection, delete_source_projection, delete_source_data.
Project(c) == (\/ At(c, "project") /\ projected' = TRUE /\ UNCHANGED mailKept
               \/ At(c, "unproject") /\ projected' = FALSE /\ UNCHANGED mailKept
               \/ At(c, "purge") /\ mailKept' = FALSE /\ UNCHANGED projected)
    /\ Next1(c)
    /\ UNCHANGED <<sourceFile, sourceSnap, secretHeld, logoFiles, runningAs, settingsFile,
                   settingsSnap, viewFile, viewSnap>>

\* Supervisor::start_account under the command's own document; remove_account.
RunAccount(c) == (\/ /\ At(c, "start") /\ runningAs' = IF document[c].enabled THEN document[c] ELSE NoSource
                     /\ mailKept' = (mailKept \/ (document[c].enabled /\ document[c].reachable))
                  \/ At(c, "stop") /\ runningAs' = NoSource /\ UNCHANGED mailKept)
    /\ Next1(c)
    /\ UNCHANGED <<sourceFile, sourceSnap, secretHeld, logoFiles, projected, settingsFile,
                   settingsSnap, viewFile, viewSnap>>

\* write_app_toml: of the document, the keys of APP_TOML_MANAGED_KEYS; the
\* sidebar's order and groups and the compose settings are not among them.
Managed(set) == [settingsFile EXCEPT !.default = set.default]

PutAppSettings(c) == (\/ At(c, "appfile") /\ settingsFile' = Managed(settingsDoc[c]) /\ UNCHANGED settingsSnap
                      \/ At(c, "appsnapshot") /\ settingsSnap' = settingsDoc[c] /\ UNCHANGED settingsFile
                      \/ /\ At(c, "undefault")
                         /\ settingsSnap' = [settingsSnap EXCEPT !.default = FALSE]
                         /\ settingsFile' = IF settingsSnap.default THEN Managed(settingsSnap') ELSE settingsFile)
    /\ Next1(c)
    /\ UNCHANGED <<sourceFile, sourceSnap, secretHeld, logoFiles, projected, mailKept, runningAs,
                   viewFile, viewSnap>>

PutSmartMailbox(c) == (\/ At(c, "viewfile") /\ viewFile' = settingsDoc[c].layout /\ UNCHANGED viewSnap
                       \/ At(c, "viewsnapshot") /\ viewSnap' = settingsDoc[c].layout /\ UNCHANGED viewFile)
    /\ Next1(c)
    /\ UNCHANGED <<sourceFile, sourceSnap, secretHeld, logoFiles, projected, mailKept, runningAs,
                   settingsFile, settingsSnap>>

\* A step's I/O fails: the command ends there; a logo whose account could not be
\* saved is removed again.
Fallible == {"insert", "file", "unfile", "secret", "unsecret", "picture", "project", "unproject",
             "purge", "appfile", "viewfile"}
StepFails(c) ==
    /\ assembled /\ Steps(c) /\ Head(program[c]) \in Fallible
    /\ program' = [program EXCEPT ![c] = <<>>]
    /\ logoFiles' = IF program[c] \in {Tail(LogoSteps(0)), Tail(Tail(Tail(LogoSteps(0))))}
                    THEN logoFiles \ {document[c].logo} ELSE logoFiles
    /\ halfSaved' = (halfSaved \/ Head(program[c]) = "project")
    /\ UNCHANGED <<sourceFile, sourceSnap, secretHeld, projected, mailKept, runningAs, settingsFile,
                   settingsSnap, viewFile, viewSnap>>

Act(c) == \/ InsertSource(c) \/ SaveSource(c) \/ DeleteSource(c) \/ KeepSecret(c) \/ MoveLogo(c)
          \/ Project(c) \/ RunAccount(c) \/ PutAppSettings(c) \/ PutSmartMailbox(c)

-----------------------------------------------------------------------------
\* validate_snapshot and validate_source_settings, when the directory is read.
Loads == /\ sourceFile.there => sourceFile.reachable /\ sourceFile.secretRef
         /\ settingsFile.default => sourceFile.there

StopBackend ==
    /\ assembled /\ configStops < MaxConfigStops /\ configStops' = configStops + 1
    /\ assembled' = FALSE /\ runningAs' = NoSource
    /\ program' = [c \in CommandIds |-> IF Ready(c) THEN program[c] ELSE <<>>]
    /\ UNCHANGED <<document, settingsDoc, sourceFile, sourceSnap, secretHeld, logoFiles, projected,
                   mailKept, settingsFile, settingsSnap, viewFile, viewSnap, given, cleared,
                   overlapped, halfSaved>>

\* assemble: the snapshot from disk, the projections, the enabled accounts.
Assemble ==
    /\ ~assembled /\ Loads /\ assembled' = TRUE
    /\ sourceSnap' = sourceFile /\ settingsSnap' = settingsFile /\ viewSnap' = viewFile
    /\ projected' = (projected \/ sourceFile.there)
    /\ runningAs' = IF sourceFile.enabled THEN sourceFile ELSE NoSource
    /\ UNCHANGED <<program, document, settingsDoc, sourceFile, secretHeld, logoFiles, mailKept,
                   settingsFile, viewFile, given, cleared, overlapped, halfSaved, configStops>>

ConfigNext ==
    \/ \E c \in CommandIds :
          \/ CreateAccount(c) \/ CompleteOauth(c) \/ UpdateAccount(c) \/ UpdateAccountTransport(c)
          \/ ReplaceSecret(c) \/ ClearSecret(c) \/ SetAccountLogo(c) \/ DeleteAccount(c)
          \/ UpdateSettings(c) \/ SaveSmartMailbox(c) \/ ResetSmartMailboxes(c)
          \/ ((Act(c) /\ UNCHANGED halfSaved) \/ StepFails(c))
             /\ UNCHANGED <<document, settingsDoc, assembled, given, cleared, overlapped, configStops>>
    \/ StopBackend \/ Assemble

ConfigSpec == ConfigInit /\ [][ConfigNext]_configVars

-----------------------------------------------------------------------------
\* An account that refers to a secret has it, whatever step failed or stop came
\* between, unless it was asked to be cleared or deleted.
SecretBehindRef == (sourceFile.secretRef /\ ~cleared) => secretHeld

\* What the repository answers is what a restart would read: with no command
\* under way, and none having overlapped another, file and snapshot agree.
SnapshotIsOnDisk == (assembled /\ Quiet /\ ~overlapped) =>
    sourceSnap = sourceFile /\ viewSnap = viewFile /\ settingsSnap.default = settingsFile.default

\* The logo an account shows is on disk, as long as no projection write failed
\* after a save: set_account_logo takes that for a save that did not happen.
LogoHasFile == (~overlapped /\ ~halfSaved /\ ~cleared /\ sourceFile.logo > 0) => sourceFile.logo \in logoFiles

\* The default account exists on disk, so that app.toml always loads.
DefaultExists == (~overlapped /\ settingsFile.default) => sourceFile.there

\* No runtime outlives its account.
NoOrphanRuntime == (Quiet /\ ~overlapped /\ runningAs.there) => sourceSnap.there

\* The pieces an account consists of (file, snapshot, secret, logo, default,
\* runtime) fit together after any step of any command failed or a stop came.
ConfigSound == /\ SecretBehindRef /\ SnapshotIsOnDisk /\ LogoHasFile
               /\ DefaultExists /\ NoOrphanRuntime

-----------------------------------------------------------------------------
\* create_account's comment: an account without its connection details "would
\* only report errors".  Violated: the directory that holds it no longer loads.
ConfigAlwaysLoads == ~assembled => Loads

\* put_app_settings "persists global app settings".  Violated: the keys that are
\* not managed reach the snapshot and never the file.
SettingsSurviveRestart == (assembled /\ Quiet /\ ~overlapped) => settingsSnap = settingsFile
=============================================================================
