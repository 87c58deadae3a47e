---------------------------- MODULE DriveSignIn ----------------------------
(***************************************************************************)
(* Signing in to Google Drive, and config.json, which holds the result:    *)
(* the desktop commands (commands.rs) and the Android bridge               *)
(* (android_jni.rs) read the file, edit one part and write it back through *)
(* profiles::write_config_json_to.  Synchronous commands run on the UI     *)
(* thread, sign-in and connection tests beside it; nothing locks the file. *)
(* A refresh token is the number of the flow that minted it, 0 for none.   *)
(***************************************************************************)
EXTENDS Naturals, FiniteSets

CONSTANTS
    Clients,     \* OAuth client credentials the user may paste
    MaxFlows, MaxEdits,   \* bounds: sign-ins, saves of the forms
    MAX_PENDING  \* MAX_PENDING_DEVICE_FLOWS

ASSUME DriveSignInAssumption ==
    Clients # {} /\ MaxFlows \in Nat /\ MaxEdits \in Nat /\ MAX_PENDING \in Nat

Actors == {"ui", "flow", "check"}
Flows == 1..MaxFlows
Files == [whole : BOOLEAN, client : Clients, token : 0..MaxFlows]

VARIABLES
    dsSide,      \* which application: desktop or android
    dsConfig,    \* config.json
    dsTmp,       \* config.json.tmp: no file ({}), or the one it names
    dsFlow,      \* the sign-in flows: credentials, Google's answer, registered or not
    dsOp,        \* what each thread does, and the file content it is about to write
    dsFd,        \* the file each thread has open for writing
    dsRevoked,   \* tokens Google no longer accepts
    dsEdits,
    dsOverlap    \* two threads have been between their read and their rename at once

dsVars == <<dsSide, dsConfig, dsTmp, dsFlow, dsOp, dsFd, dsRevoked, dsEdits, dsOverlap>>

FirstClient == CHOOSE c \in Clients : TRUE
FirstFile == [whole |-> TRUE, client |-> FirstClient, token |-> 0]
Idle == [pc |-> "idle", arg |-> 0, file |-> FirstFile]

DsInit ==
    /\ dsSide \in {"desktop", "android"}
    /\ dsConfig = FirstFile
    /\ dsTmp = {} /\ dsRevoked = {} /\ dsEdits = 0 /\ dsOverlap = FALSE
    /\ dsFlow = [f \in Flows |-> [client |-> FirstClient, google |-> "none", pending |-> FALSE]]
    /\ dsOp = [a \in Actors |-> Idle]
    /\ dsFd = [a \in Actors |-> "none"]

Writing(a) == dsOp[a].pc \in {"open", "put", "rename"}
StepTo(a, pc, arg) == dsOp' = [dsOp EXCEPT ![a].pc = pc, ![a].arg = arg]

\* The start of every read-modify-write; a file that does not parse makes the command fail.
Edit(a, arg, file) ==
    IF dsConfig.whole
    THEN /\ dsOp' = [dsOp EXCEPT ![a] = [pc |-> "open", arg |-> arg, file |-> file]]
         /\ dsOverlap' = (dsOverlap \/ \E b \in Actors \ {a} : Writing(b))
    ELSE StepTo(a, "idle", 0) /\ UNCHANGED dsOverlap

-----------------------------------------------------------------------------
\* (Mutant: every save signs the user out.)
AlwaysClears(file, client) == TRUE
ShouldClear(file, client) == file.token # 0 /\ file.client # client

\* save_config with the credentials in the form.
Save(c) ==
    /\ dsOp["ui"].pc = "idle" /\ dsEdits < MaxEdits
    /\ dsEdits' = dsEdits + 1
    /\ Edit("ui", 0, [dsConfig EXCEPT !.client = c,
                                      !.token = IF ShouldClear(dsConfig, c) THEN 0 ELSE @])
    /\ UNCHANGED <<dsSide, dsConfig, dsTmp, dsFlow, dsFd, dsRevoked>>

\* save_fronting_groups, save_sni_pool: the drive section goes back as it was read.
SaveSection ==
    /\ dsOp["ui"].pc = "idle" /\ dsEdits < MaxEdits
    /\ dsEdits' = dsEdits + 1
    /\ Edit("ui", 0, dsConfig)
    /\ UNCHANGED <<dsSide, dsConfig, dsTmp, dsFlow, dsFd, dsRevoked>>

-----------------------------------------------------------------------------
Pending == {f \in Flows : dsFlow[f].pending}
RegistryFull == Cardinality(Pending) >= MAX_PENDING

Started(f, c) ==
    /\ dsFlow[f].google = "none" /\ \A g \in 1..(f - 1) : dsFlow[g].google # "none"
    /\ dsFlow' = [dsFlow EXCEPT ![f] = [client |-> c, google |-> "waiting", pending |-> TRUE]]
    /\ UNCHANGED <<dsSide, dsConfig, dsTmp, dsOp, dsFd, dsRevoked, dsEdits, dsOverlap>>

\* drive_oauth_start with the credentials in the form; driveOauthDeviceCodeStart with those it read
\* from the file before it asked Google, which may have been replaced since.
Start(f, c) == dsSide = "desktop" /\ Started(f, c)
DeviceStart(f, c) == dsSide = "android" /\ ~RegistryFull /\ Started(f, c)

Decided(f, answer) ==
    /\ dsFlow[f].google = "waiting"
    /\ dsFlow' = [dsFlow EXCEPT ![f].google = answer]
    /\ UNCHANGED <<dsSide, dsConfig, dsTmp, dsOp, dsFd, dsRevoked, dsEdits, dsOverlap>>

\* The listener got a code with its own state and exchanged it, or the device was approved.
Granted(f) == Decided(f, "granted")
\* The user declined, five minutes passed, or the exchange failed; other requests are ignored.
Refused(f) == Decided(f, "failed")

-----------------------------------------------------------------------------
(* One call that asks for the outcome: drive_oauth_complete takes the      *)
(* receiver out of the map for its duration, driveOauthPollFlow copies its *)
(* entry and leaves it.                                                    *)
Begin(f, side) ==
    /\ dsSide = side /\ dsOp["flow"].pc = "idle" /\ dsFlow[f].pending
    /\ StepTo("flow", "polling", f)
    /\ UNCHANGED <<dsSide, dsConfig, dsTmp, dsFd, dsRevoked, dsEdits, dsOverlap>>
Polling(f, side) == dsSide = side /\ dsOp["flow"].pc = "polling" /\ dsOp["flow"].arg = f

Complete(f) == Begin(f, "desktop") /\ dsFlow' = [dsFlow EXCEPT ![f].pending = FALSE]
PollFlow(f) == Begin(f, "android") /\ UNCHANGED dsFlow

\* Nothing decided yet: the receiver goes back for the next call.
CompletePending(f) ==
    /\ Polling(f, "desktop") /\ dsFlow[f].google = "waiting"
    /\ dsFlow' = [dsFlow EXCEPT ![f].pending = TRUE]
    /\ StepTo("flow", "idle", 0)
    /\ UNCHANGED <<dsSide, dsConfig, dsTmp, dsFd, dsRevoked, dsEdits, dsOverlap>>

\* Nothing decided yet, or a network error.
PollFlowPending(f) ==
    /\ Polling(f, "android")
    /\ StepTo("flow", "idle", 0)
    /\ UNCHANGED <<dsSide, dsConfig, dsTmp, dsFlow, dsFd, dsRevoked, dsEdits, dsOverlap>>

\* driveOauthCancelFlow, and the expiry of an entry; a poll under way is not stopped.
Cancel(f) ==
    /\ dsSide = "android" /\ dsFlow[f].pending
    /\ dsFlow' = [dsFlow EXCEPT ![f].pending = FALSE]
    /\ UNCHANGED <<dsSide, dsConfig, dsTmp, dsOp, dsFd, dsRevoked, dsEdits, dsOverlap>>

\* The outcome is known: a token is persisted, anything else is reported.
Ends(f, may, file) ==
    /\ dsFlow[f].google # "waiting"
    /\ IF dsFlow[f].google = "granted" /\ may
       THEN Edit("flow", f, file) ELSE StepTo("flow", "idle", 0) /\ UNCHANGED dsOverlap
    /\ dsFlow' = [dsFlow EXCEPT ![f].google = "used",
                                ![f].pending = @ /\ dsOp'["flow"].pc = "open"]
    /\ UNCHANGED <<dsSide, dsConfig, dsTmp, dsFd, dsRevoked, dsEdits>>

\* The desktop writes the credentials with the token ...
CompleteEnds(f) ==
    /\ Polling(f, "desktop")
    /\ Ends(f, TRUE, [dsConfig EXCEPT !.client = dsFlow[f].client, !.token = f])

\* (Mutant: persist_drive_refresh_token does not compare the credentials.)
AnyClient(f) == TRUE
SameClient(f) == dsConfig.client = dsFlow[f].client

\* ... Android only where it finds the same ones.
PollFlowEnds(f) ==
    /\ Polling(f, "android")
    /\ Ends(f, SameClient(f), [dsConfig EXCEPT !.token = f])

-----------------------------------------------------------------------------
\* load_drive_config_fields
HasToken == dsConfig.whole /\ dsConfig.token # 0

\* The saved token is read, then refreshed.
Check(side) ==
    /\ dsSide = side /\ dsOp["check"].pc = "idle" /\ HasToken
    /\ StepTo("check", "refreshing", dsConfig.token)
    /\ UNCHANGED <<dsSide, dsConfig, dsTmp, dsFlow, dsFd, dsRevoked, dsEdits, dsOverlap>>

\* drive_test_connection and drive_create_folder, of the desktop and of Android.
TestConnection == Check("desktop")
DeviceTestConnection == Check("android")

\* OAuthError::is_refresh_token_revoked
FoundRevoked == dsOp["check"].arg \in dsRevoked
Cleared(file) == [file EXCEPT !.token = 0]

\* The token on disk, whichever it is by now, is cleared.
CheckAnswered ==
    /\ dsOp["check"].pc = "refreshing"
    /\ IF FoundRevoked
       THEN Edit("check", 0, Cleared(dsConfig))
       ELSE StepTo("check", "idle", 0) /\ UNCHANGED dsOverlap
    /\ UNCHANGED <<dsSide, dsConfig, dsTmp, dsFlow, dsFd, dsRevoked, dsEdits>>

Revoke(f) ==
    /\ dsFlow[f].google = "used" /\ f \notin dsRevoked
    /\ dsRevoked' = dsRevoked \cup {f}
    /\ UNCHANGED <<dsSide, dsConfig, dsTmp, dsFlow, dsOp, dsFd, dsEdits, dsOverlap>>

-----------------------------------------------------------------------------
(* write_config_json_to: fs::write of config.json.tmp (the name is the     *)
(* same for every thread), then the rename over config.json.               *)
Torn(file) == [file EXCEPT !.whole = FALSE]

OpenTmp(a) ==
    /\ dsTmp' = {Torn(dsOp[a].file)}
    /\ dsFd' = [dsFd EXCEPT ![a] = "tmp"]
    /\ UNCHANGED dsConfig

OpenFile(a) ==
    /\ dsOp[a].pc = "open"
    /\ OpenTmp(a)
    /\ StepTo(a, "put", dsOp[a].arg)
    /\ UNCHANGED <<dsSide, dsFlow, dsRevoked, dsEdits, dsOverlap>>

\* What a write leaves in a file: a longer text written before shows through behind a shorter one.
Written(old, new) == IF old.whole THEN {new, Torn(new)} ELSE {new}

WriteText(a) ==
    /\ dsOp[a].pc = "put"
    /\ \/ /\ dsFd[a] = "tmp"
          /\ \E old \in dsTmp : \E new \in Written(old, dsOp[a].file) : dsTmp' = {new}
          /\ UNCHANGED dsConfig
       \/ /\ dsFd[a] = "config"
          /\ dsConfig' \in Written(dsConfig, dsOp[a].file)
          /\ UNCHANGED dsTmp
       \/ dsFd[a] = "gone" /\ UNCHANGED <<dsConfig, dsTmp>>
    /\ dsFd' = [dsFd EXCEPT ![a] = "none"]
    /\ StepTo(a, "rename", dsOp[a].arg)
    /\ UNCHANGED <<dsSide, dsFlow, dsRevoked, dsEdits, dsOverlap>>

\* A file another thread still has open moves with its name; the one it replaces is gone.
Follows(fd) == IF fd = "tmp" THEN "config" ELSE IF fd = "config" THEN "gone" ELSE fd

\* The rename fails when another thread has already moved the file away.  driveOauthPollFlow then
\* drops its flow either way.
Rename(a) ==
    /\ dsOp[a].pc = "rename"
    /\ IF dsTmp # {}
       THEN /\ dsConfig' \in dsTmp /\ dsTmp' = {}
            /\ dsFd' = [b \in Actors |-> Follows(dsFd[b])]
       ELSE UNCHANGED <<dsConfig, dsTmp, dsFd>>
    /\ dsFlow' = [f \in Flows |->
                    [dsFlow[f] EXCEPT !.pending = @ /\ ~(a = "flow" /\ dsOp[a].arg = f)]]
    /\ dsOp' = [dsOp EXCEPT ![a] = Idle]
    /\ UNCHANGED <<dsSide, dsRevoked, dsEdits, dsOverlap>>

\* The application is killed: open files keep what they hold, the flows are forgotten.
Killed ==
    /\ \E a \in Actors : dsOp[a].pc # "idle"
    /\ dsOp' = [a \in Actors |-> Idle]
    /\ dsFd' = [a \in Actors |-> "none"]
    /\ dsFlow' = [f \in Flows |-> [dsFlow[f] EXCEPT !.pending = FALSE]]
    /\ UNCHANGED <<dsSide, dsConfig, dsTmp, dsRevoked, dsEdits, dsOverlap>>

DsNext ==
    \/ (\E c \in Clients : Save(c)) \/ SaveSection
    \/ \E f \in Flows : \/ \E c \in Clients : Start(f, c) \/ DeviceStart(f, c)
                        \/ Granted(f) \/ Refused(f) \/ Revoke(f)
                        \/ Complete(f) \/ CompletePending(f) \/ CompleteEnds(f)
                        \/ PollFlow(f) \/ PollFlowPending(f) \/ PollFlowEnds(f) \/ Cancel(f)
    \/ TestConnection \/ DeviceTestConnection \/ CheckAnswered
    \/ \E a \in Actors : OpenFile(a) \/ WriteText(a) \/ Rename(a)
    \/ Killed

DsSpec == DsInit /\ [][DsNext]_dsVars

-----------------------------------------------------------------------------
(* The types; and Android keeps at most MAX_PENDING_DEVICE_FLOWS flows.    *)
DsTypeOK ==
    /\ dsSide \in {"desktop", "android"} /\ dsConfig \in Files
    /\ dsTmp \subseteq Files /\ Cardinality(dsTmp) <= 1
    /\ dsFlow \in [Flows -> [client : Clients, google : {"none", "waiting", "granted", "failed", "used"},
                             pending : BOOLEAN]]
    /\ dsOp \in [Actors -> [pc : {"idle", "polling", "refreshing", "open", "put", "rename"},
                            arg : 0..MaxFlows, file : Files]]
    /\ dsFd \in [Actors -> {"none", "tmp", "config", "gone"}]
    /\ dsRevoked \subseteq Flows /\ dsEdits \in 0..MaxEdits /\ dsOverlap \in BOOLEAN
    /\ dsSide = "android" => Cardinality(Pending) <= MAX_PENDING

(* The saved refresh token always belongs to the credentials saved beside  *)
(* it ("the on-disk state never has a refresh token bound to a different   *)
(* client", drive_oauth_start), whatever saves, sign-ins and clears        *)
(* interleave, and wherever the application is killed.                     *)
TokenOfItsClient ==
    dsConfig.whole /\ dsConfig.token # 0 => dsFlow[dsConfig.token].client = dsConfig.client

(* config.json is only ever left unreadable by two threads that write it   *)
(* at the same time: they share the name of the temporary file.  A single  *)
(* writer may be killed anywhere (write_config_json_to).                   *)
TornOnlyByTwoWriters == ~dsConfig.whole => dsOverlap

(* A saved sign-in only disappears because the user changed the            *)
(* credentials, because Google revoked a token, or because two threads     *)
(* wrote at once.  (A token revoked earlier is enough: the clear does not  *)
(* look at which token is on disk by then.)                                *)
SignOutHasCause ==
    /\ dsConfig.whole /\ dsConfig'.whole
    /\ dsConfig.token # 0 /\ dsConfig'.token = 0 /\ dsConfig'.client = dsConfig.client
    => dsRevoked # {} \/ dsOverlap

(* The contract of the saved sign-in.                                      *)
SignInSound == DsTypeOK /\ TokenOfItsClient /\ TornOnlyByTwoWriters
=============================================================================
