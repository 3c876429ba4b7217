--------------------------- MODULE ConfigDeployment ---------------------------
(***************************************************************************)
(* The installation of one core configuration: singbox.Installer.Install   *)
(* over singbox.FileDeployment and the core controller.                    *)
(*                                                                         *)
(* A step is one call that changes the disk or the core.  Each may fail,   *)
(* the process may stop between any two, and the container runtime may     *)
(* restart the core at any moment (restart: unless-stopped), which then    *)
(* reads the active file whatever it holds.                                *)
(***************************************************************************)
CONSTANTS Config,  \* the configurations the worker may build
          NoConfig \* no file, or a core that found no file

ASSUME NoConfigAssumption == NoConfig \notin Config

VARIABLES
    pc,          \* the step Install is at, "idle" between installations
    target,      \* the configuration being installed
    active,      \* content of the active file
    candidate,   \* content of the candidate file
    backup,      \* content of the backup file of this promotion
    hadPrevious, \* filePromotion.HadPrevious
    orphans,     \* contents of files no code will touch again
    core,        \* the configuration the core runs
    outcome,     \* of the last installation
    lastUsable,  \* history: the configuration of the last restart that succeeded
    failed,      \* history: a step of this installation has failed
    unlucky,     \* history: a crash, or two failures in one installation
    fileBefore,  \* history: active when this installation started
    coreBefore   \* history: core when this installation started

disk == <<active, candidate, backup, orphans>>
history == <<fileBefore, coreBefore>>
vars == <<pc, target, disk, hadPrevious, core, outcome, lastUsable, failed, unlucky, history>>

Content == Config \union {NoConfig}
Step == {"idle", "check", "discard", "backup", "swap", "restore active", "restart",
         "remove active", "restore previous", "restart previous", "finalize",
         "finalize previous"}

TypeOK ==
    /\ pc \in Step
    /\ target \in Content
    /\ active \in Content
    /\ candidate \in Content
    /\ backup \in Content
    /\ hadPrevious \in BOOLEAN
    /\ orphans \subseteq Config
    /\ core \in Content
    /\ outcome \in {"none", "installed", "failed"}
    /\ lastUsable \in Content
    /\ failed \in BOOLEAN
    /\ unlucky \in BOOLEAN
    /\ fileBefore \in Content
    /\ coreBefore \in Content

Init ==
    /\ pc = "idle"
    /\ target = NoConfig
    /\ active = NoConfig
    /\ candidate = NoConfig
    /\ backup = NoConfig
    /\ hadPrevious = FALSE
    /\ orphans = {}
    /\ core = NoConfig
    /\ outcome = "none"
    /\ lastUsable = NoConfig
    /\ failed = FALSE
    /\ unlucky = FALSE
    /\ fileBefore = NoConfig
    /\ coreBefore = NoConfig
-----------------------------------------------------------------------------
\* Seeded error: what is left over is cleaned up, the backup included.
LeftOverWithoutBackup == orphans \union ({candidate} \ {NoConfig})

\* Files left on disk when their names are forgotten.
LeftOver == orphans \union ({candidate, backup} \ {NoConfig})

Succeeded == UNCHANGED <<failed, unlucky>>
Failed ==
    /\ failed' = TRUE
    /\ unlucky' = (unlucky \/ failed)

\* Install returns.
Return(result) ==
    /\ pc' = "idle"
    /\ outcome' = result
    /\ UNCHANGED <<target, hadPrevious, lastUsable, history>>

GoTo(step) ==
    /\ pc' = step
    /\ UNCHANGED <<target, outcome, history>>

\* The names of the candidate and the backup are local to Install.
Forget ==
    /\ candidate' = NoConfig
    /\ backup' = NoConfig
    /\ orphans' = LeftOver

Stage(c) ==
    /\ pc = "idle"
    /\ target' = c
    /\ candidate' = c
    /\ hadPrevious' = FALSE
    /\ failed' = FALSE
    /\ fileBefore' = active
    /\ coreBefore' = core
    /\ pc' = "check"
    /\ UNCHANGED <<active, backup, orphans, core, outcome, lastUsable, unlucky>>

\* Any error removes the candidate again.
StageFails(c) ==
    /\ pc = "idle"
    /\ outcome' = "failed"
    /\ target' = c
    /\ UNCHANGED <<pc, disk, hadPrevious, core, lastUsable, failed, unlucky, history>>

CheckPasses ==
    /\ pc = "check"
    /\ GoTo("backup")
    /\ Succeeded
    /\ UNCHANGED <<disk, hadPrevious, core, lastUsable>>

CheckFails ==
    /\ pc = "check"
    /\ GoTo("discard")
    /\ Failed
    /\ UNCHANGED <<disk, hadPrevious, core, lastUsable>>

\* Install returns an error whether the candidate could be removed or not.
Discard ==
    /\ pc = "discard"
    /\ \/ Succeeded /\ orphans' = orphans \union ({backup} \ {NoConfig})
       \/ Failed /\ orphans' = LeftOver
    /\ candidate' = NoConfig
    /\ backup' = NoConfig
    /\ UNCHANGED <<active, core>>
    /\ Return("failed")

\* Promote: the active file, if there is one, becomes the backup.
BackupActive ==
    /\ pc = "backup"
    /\ hadPrevious' = (active # NoConfig)
    /\ backup' = active
    /\ active' = NoConfig
    /\ GoTo("swap")
    /\ Succeeded
    /\ UNCHANGED <<candidate, orphans, core, lastUsable>>

BackupFails ==
    /\ pc = "backup"
    /\ GoTo("discard")
    /\ Failed
    /\ UNCHANGED <<disk, hadPrevious, core, lastUsable>>

\* Promote: the candidate becomes the active file.
Swap ==
    /\ pc = "swap"
    /\ active' = candidate
    /\ candidate' = NoConfig
    /\ GoTo("restart")
    /\ Succeeded
    /\ UNCHANGED <<backup, orphans, hadPrevious, core, lastUsable>>

\* Seeded error: Promote does not put the backup back.
SwapFailsKeepsGap ==
    /\ pc = "swap"
    /\ GoTo("discard")
    /\ Failed
    /\ UNCHANGED <<disk, hadPrevious, core, lastUsable>>

SwapFails ==
    /\ pc = "swap"
    /\ GoTo(IF hadPrevious THEN "restore active" ELSE "discard")
    /\ Failed
    /\ UNCHANGED <<disk, hadPrevious, core, lastUsable>>

\* Promote puts the backup back; an error of that is ignored.
RestoreActive ==
    /\ pc = "restore active"
    /\ \/ Succeeded /\ active' = backup /\ backup' = NoConfig
       \/ Failed /\ UNCHANGED <<active, backup>>
    /\ GoTo("discard")
    /\ UNCHANGED <<candidate, orphans, hadPrevious, core, lastUsable>>

\* The controller restarts the container; the core reads the active file.
CoreReadsActive ==
    /\ core' = active
    /\ lastUsable' = active

\* The call failed, or its reply came too late: the core runs on, has
\* restarted, or did not come up.
CoreUnknown ==
    /\ core' \in {core, active, NoConfig}
    /\ UNCHANGED lastUsable

Restart ==
    /\ pc = "restart"
    /\ CoreReadsActive
    /\ GoTo("finalize")
    /\ Succeeded
    /\ UNCHANGED <<disk, hadPrevious>>

RestartFails ==
    /\ pc = "restart"
    /\ CoreUnknown
    /\ GoTo("remove active")
    /\ Failed
    /\ UNCHANGED <<disk, hadPrevious>>

\* Rollback
RemoveActive ==
    /\ pc = "remove active"
    /\ active' = NoConfig
    /\ GoTo(IF hadPrevious THEN "restore previous" ELSE "restart previous")
    /\ Succeeded
    /\ UNCHANGED <<candidate, backup, orphans, hadPrevious, core, lastUsable>>

RestorePrevious ==
    /\ pc = "restore previous"
    /\ active' = backup
    /\ backup' = NoConfig
    /\ GoTo("restart previous")
    /\ Succeeded
    /\ UNCHANGED <<candidate, orphans, hadPrevious, core, lastUsable>>

RollbackFails ==
    /\ pc \in {"remove active", "restore previous"}
    /\ Failed
    /\ Forget
    /\ UNCHANGED <<active, core>>
    /\ Return("failed")

RestartPrevious ==
    /\ pc = "restart previous"
    /\ CoreReadsActive
    /\ GoTo("finalize previous")
    /\ Succeeded
    /\ UNCHANGED <<disk, hadPrevious>>

RestartPreviousFails ==
    /\ pc = "restart previous"
    /\ core' \in {core, active, NoConfig}
    /\ Failed
    /\ Forget
    /\ UNCHANGED active
    /\ Return("failed")

\* Seeded error: the error of the first restart is forgotten.
FinalizePreviousReportsSuccess ==
    /\ pc = "finalize previous"
    /\ Succeeded
    /\ UNCHANGED <<disk, core>>
    /\ Return("installed")

\* Finalize after a rollback finds no backup file, and Install reports the
\* restart that failed.
FinalizePrevious ==
    /\ pc = "finalize previous"
    /\ Succeeded
    /\ UNCHANGED <<disk, core>>
    /\ Return("failed")

\* Finalize removes the backup.
Finalize ==
    /\ pc = "finalize"
    /\ backup' = NoConfig
    /\ Succeeded
    /\ UNCHANGED <<active, candidate, orphans, core>>
    /\ Return("installed")

FinalizeFails ==
    /\ pc = "finalize"
    /\ Failed
    /\ Forget
    /\ UNCHANGED <<active, core>>
    /\ Return("failed")

\* The process stops inside Install; nothing is cleaned up when it starts.
Crash ==
    /\ pc # "idle"
    /\ Forget
    /\ unlucky' = TRUE
    /\ UNCHANGED <<active, core, failed>>
    /\ Return("failed")

CoreRestarts ==
    /\ core # active
    /\ core' = active
    /\ UNCHANGED <<pc, target, disk, hadPrevious, outcome, lastUsable, failed, unlucky, history>>

Promote == BackupActive \/ BackupFails \/ Swap \/ SwapFails \/ RestoreActive
Rollback == RemoveActive \/ RestorePrevious \/ RollbackFails

Next ==
    \/ \E c \in Config : Stage(c) \/ StageFails(c)
    \/ CheckPasses \/ CheckFails \/ Discard
    \/ Promote
    \/ Restart \/ RestartFails
    \/ Rollback
    \/ RestartPrevious \/ RestartPreviousFails \/ FinalizePrevious
    \/ Finalize \/ FinalizeFails
    \/ Crash
    \/ CoreRestarts

Spec == Init /\ [][Next]_vars
-----------------------------------------------------------------------------
(***************************************************************************)
(* Properties.                                                             *)
(***************************************************************************)

\* After an installation that met at most one failure the last usable
\* configuration is the active file, whichever step failed (question.md:94),
\* and so it is after every one of a series of them.  The core runs it, or
\* was restarted by its runtime in the instant without a file and will read
\* it at its next start.
KeepsLastUsable ==
    (pc = "idle" /\ ~unlucky) => active = lastUsable /\ core \in {lastUsable, NoConfig}

\* Crashes and double failures may take the active file away, but the last
\* usable configuration is never destroyed: it stays on disk under one name.
LastUsableOnDisk ==
    lastUsable # NoConfig => lastUsable \in {active, backup} \union orphans

\* Between installations the caller sees the file and the core as they are,
\* during one as they were when it started.
InstallPromise ==
    INSTANCE InstallPromise
      WITH file <- IF pc = "idle" THEN active ELSE fileBefore,
           core <- IF pc = "idle" THEN core ELSE coreBefore

\* Install keeps the promise its caller relies on.
KeepsPromise == InstallPromise!Spec
=============================================================================
