---------------------------- MODULE UpdateApply ----------------------------
(***************************************************************************)
(* How an update reaches the disk (update_apply.rs, and the download of    *)
(* update_check.rs): download_and_stage verifies the archive and copies    *)
(* the new build to <exe>.new, restart_to_apply moves it into place, and   *)
(* finalize_pending_at_startup finishes what an earlier process began.     *)
(* The disk is three names; what a name holds is all that is told apart.   *)
(***************************************************************************)
EXTENDS Naturals

CONSTANT
    MaxFaults    \* crashes, refused renames and failed copies

ASSUME UpdateApplyAssumption == MaxFaults \in Nat

UpPlatforms == {"file", "bundle", "windows"}   \* Unix binary, macOS .app directory, Windows
Whole == {"v1", "v2", "unsigned"}            \* complete builds: installed, released, of unknown origin
Contents == Whole \cup {"none", "part"}      \* "part": a copy that was not finished

VARIABLES
    upSetup,     \* the platform, and whether a public key was embedded in the build
    upPc,        \* what the process does
    upDisk,      \* what <exe>, <exe>.new and <exe>.old hold
    upArchive,   \* the build in the downloaded archive
    upFaults,
    upTorn       \* some copy to <exe>.new was not finished

upVars == <<upSetup, upPc, upDisk, upArchive, upFaults, upTorn>>

UpInit ==
    /\ upSetup \in [platform : UpPlatforms, key : BOOLEAN]
    /\ upPc = "running" /\ upArchive = "none" /\ upFaults = 0 /\ upTorn = FALSE
    /\ upDisk = [target |-> "v1", new |-> "none", old |-> "none"]

On(p) == upSetup.platform = p
Fault == upFaults < MaxFaults /\ upFaults' = upFaults + 1
Move(disk, from, to) == [disk EXCEPT ![to] = disk[from], ![from] = "none"]

-----------------------------------------------------------------------------
Accepts(sig) == upSetup.key => sig = "good"

\* What the download of the .minisig yields: https_raw_get follows redirects, over the proxy or not.
Signatures == {"good", "bad", "missing"}
\* The build extract_archive and find_binary find in the archive.
Archive(sig) == IF sig = "good" THEN "v2" ELSE "unsigned"

\* download_and_stage up to the copy: the archive with its signature, extraction and find_binary;
\* any of these steps may fail and return, with nothing on disk but a scratch directory.
Download ==
    /\ upPc = "running"
    /\ \E sig \in Signatures : Accepts(sig) /\ upArchive' = Archive(sig)
    /\ upPc' = "extracted"
    /\ UNCHANGED <<upSetup, upDisk, upFaults, upTorn>>

\* (Mutant: the new build is copied over the installed one.)
StagedInPlace == "target"
StagedPath == "new"

\* The previous <exe>.new is removed and the copy begins.
StartCopy ==
    /\ upPc = "extracted"
    /\ upPc' = "copying"
    /\ upDisk' = [upDisk EXCEPT ![StagedPath] = "part"]
    /\ UNCHANGED <<upSetup, upArchive, upFaults, upTorn>>

CopyDone ==
    /\ upPc = "copying"
    /\ upPc' = "staged"
    /\ upDisk' = [upDisk EXCEPT ![StagedPath] = upArchive]
    /\ UNCHANGED <<upSetup, upArchive, upFaults, upTorn>>

AfterCopyError == "running"

\* The copy fails, or a bundle lacks the executable; what was copied stays.
CopyFails ==
    /\ upPc = "copying" /\ Fault
    /\ upPc' = AfterCopyError
    /\ upTorn' = TRUE
    /\ UNCHANGED <<upSetup, upDisk, upArchive>>

-----------------------------------------------------------------------------
\* restart_to_apply for a file: one rename over the running executable, then exec.
SwapFile ==
    /\ upPc = "staged" /\ On("file")
    /\ \/ upDisk' = Move(upDisk, "new", "target") /\ upPc' \in {"boot", "running"} /\ UNCHANGED upFaults
       \/ UNCHANGED upDisk /\ upPc' = "running" /\ Fault
    /\ UNCHANGED <<upSetup, upArchive, upTorn>>

\* The first half of a directory swap: the stale backup goes, the bundle becomes the backup.
BackedUp(disk) ==
    IF disk.target = "none" THEN [disk EXCEPT !.old = "none"] ELSE Move(disk, "target", "old")

Backup(from, to) ==
    /\ upPc = from /\ On("bundle")
    /\ \/ upDisk' = BackedUp(upDisk) /\ upPc' = to /\ UNCHANGED upFaults
       \/ upDisk' = [upDisk EXCEPT !.old = "none"] /\ upPc' = "running" /\ Fault
    /\ UNCHANGED <<upSetup, upArchive, upTorn>>

\* The second half in restart_to_apply: an error returns with the bundle still moved away.
SwapBundle ==
    /\ upPc = "swap" /\ On("bundle")
    /\ \/ upDisk' = Move(upDisk, "new", "target") /\ upPc' \in {"boot", "running"} /\ UNCHANGED upFaults
       \/ UNCHANGED upDisk /\ upPc' = "running" /\ Fault
    /\ UNCHANGED <<upSetup, upArchive, upTorn>>

\* restart_to_apply on Windows: the staged build is started, this process ends.
SpawnNew ==
    /\ upPc = "staged" /\ On("windows")
    /\ upPc' = "as_new"
    /\ UNCHANGED <<upSetup, upDisk, upArchive, upFaults, upTorn>>

\* finalize_pending_at_startup in the process that runs from <exe>.new: up to thirty attempts to
\* move the old executable away; when all fail the next rename fails too and it runs as it is.
FinalizeBackup ==
    /\ upPc = "as_new"
    /\ \/ upDisk' = BackedUp(upDisk) /\ upPc' = "as_new_swap" /\ UNCHANGED upFaults
       \/ upDisk' = [upDisk EXCEPT !.old = "none"] /\ upPc' = "stays_new" /\ Fault
    /\ UNCHANGED <<upSetup, upArchive, upTorn>>

FinalizeSwap ==
    /\ upPc = "as_new_swap"
    /\ \/ upDisk' = Move(upDisk, "new", "target") /\ upPc' \in {"boot", "down"} /\ UNCHANGED upFaults
       \/ UNCHANGED upDisk /\ upPc' = "stays_new" /\ Fault
    /\ UNCHANGED <<upSetup, upArchive, upTorn>>

-----------------------------------------------------------------------------
\* The user starts what is installed; a build of which a part is missing does not start.
Launch ==
    /\ upPc = "down" /\ upDisk.target \in Whole
    /\ upPc' = "boot"
    /\ UNCHANGED <<upSetup, upDisk, upArchive, upFaults, upTorn>>

\* cleanup_stale_old looks beside the executable, which inside a bundle is not beside the bundle.
Cleaned(disk) == IF On("bundle") THEN disk ELSE [disk EXCEPT !.old = "none"]

\* finalize_pending_at_startup in the installed process: Unix picks up a pending <exe>.new.
Boot ==
    /\ upPc = "boot"
    /\ IF On("windows") \/ upDisk.new = "none"
       THEN upDisk' = Cleaned(upDisk) /\ upPc' = "running" /\ UNCHANGED upFaults
       ELSE IF On("bundle") THEN upPc' = "late" /\ UNCHANGED <<upDisk, upFaults>>
       ELSE \/ upDisk' = Move(Cleaned(upDisk), "new", "target") /\ upPc' = "running" /\ UNCHANGED upFaults
            \/ upDisk' = Cleaned(upDisk) /\ upPc' = "running" /\ Fault
    /\ UNCHANGED <<upSetup, upArchive, upTorn>>

\* (Mutant: the backup stays where it is.)
NoRollback(disk) == disk
Rollback(disk) == IF disk.old # "none" THEN Move(disk, "old", "target") ELSE disk

\* late_apply_macos_bundle: its second rename, and the way back when that is refused.
LateSwap ==
    /\ upPc = "late_swap"
    /\ \/ upDisk' = Move(upDisk, "new", "target") /\ UNCHANGED upFaults
       \/ upDisk' = Rollback(upDisk) /\ Fault
       \/ UNCHANGED upDisk /\ upFaults + 2 <= MaxFaults /\ upFaults' = upFaults + 2
    /\ upPc' = "running"
    /\ UNCHANGED <<upSetup, upArchive, upTorn>>

\* The process is closed by its user, or dies between any two steps.
Quit ==
    /\ upPc \in {"running", "staged", "stays_new"}
    /\ upPc' = "down"
    /\ UNCHANGED <<upSetup, upDisk, upArchive, upFaults, upTorn>>

Dies ==
    /\ upPc \notin {"down", "running", "staged", "stays_new"} /\ Fault
    /\ upPc' = "down"
    /\ upTorn' = (upTorn \/ upPc = "copying")
    /\ UNCHANGED <<upSetup, upDisk, upArchive>>

UpNext ==
    \/ Download \/ StartCopy \/ CopyDone \/ CopyFails
    \/ SwapFile \/ Backup("staged", "swap") \/ SwapBundle
    \/ SpawnNew \/ FinalizeBackup \/ FinalizeSwap
    \/ Launch \/ Boot \/ Backup("late", "late_swap") \/ LateSwap
    \/ Quit \/ Dies

UpSpec == UpInit /\ [][UpNext]_upVars

-----------------------------------------------------------------------------
(* The types; and restart_to_apply is only reached with a finished copy,   *)
(* as download_and_stage returns the error of the copy.                    *)
UpTypeOK ==
    /\ upSetup \in [platform : UpPlatforms, key : BOOLEAN]
    /\ upPc \in {"running", "extracted", "copying", "staged", "swap", "as_new", "as_new_swap",
                 "stays_new", "boot", "late", "late_swap", "down"}
    /\ upDisk \in [target : Contents, new : Contents, old : Contents]
    /\ upArchive \in {"none", "v2", "unsigned"}
    /\ upFaults \in 0..MaxFaults /\ upTorn \in BOOLEAN
    /\ upPc = "staged" => upDisk.new \in Whole

(* A build with a public key never leaves a build on disk, staged, put     *)
(* into place or kept as a backup, whose archive was not verified,         *)
(* whatever was interrupted in between (download_and_stage).               *)
SignedOnly == upSetup.key => \A f \in DOMAIN upDisk : upDisk[f] # "unsigned"

(* No single crash, refused rename or failed copy leaves the user without  *)
(* a complete build under one of the three names: stage first, back up,    *)
(* then swap.  The exception is real: on Unix a copy that was not          *)
(* finished is taken for a pending update at the next start.               *)
OneFaultRecoverable ==
    \/ upFaults > 1
    \/ \E f \in DOMAIN upDisk : upDisk[f] \in Whole
    \/ On("file") /\ upTorn

(* A pending bundle that cannot be moved into place at start-up leaves the *)
(* running bundle where it was (late_apply_macos_bundle).                  *)
LateApplyKeepsTarget ==
    upPc = "late_swap" /\ upPc' = "running" /\ upFaults' < 2 => upDisk'.target # "none"

(* The contract of an update: only verified builds, and always one to run. *)
UpdateSound == UpTypeOK /\ SignedOnly /\ OneFaultRecoverable
=============================================================================
