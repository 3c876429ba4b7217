---------------------------- MODULE InstallPromise ----------------------------
(***************************************************************************)
(* What Installer.Install promises its caller, the core worker.            *)
(*                                                                         *)
(* If it returns nil, the active file and the core both hold the new       *)
(* configuration.  If it returns an error, or the process stops inside it, *)
(* the file and the core hold what they held before or the new             *)
(* configuration, each by itself, or nothing at all.  In between the core  *)
(* may be restarted by its container runtime and reads the active file.    *)
(* ConfigDeployment implements this; CoreSync relies on it.                *)
(***************************************************************************)
CONSTANTS Config,  \* the configurations that may be installed
          NoConfig \* no file, or a core that serves nobody

VARIABLES file,    \* the active configuration file
          core,    \* the configuration the core runs
          outcome  \* of the last installation

vars == <<file, core, outcome>>

Init == file = NoConfig /\ core = NoConfig /\ outcome = "none"

\* Install(c) returns nil.
Succeeds(c) ==
    /\ file' = c
    /\ core' = c
    /\ outcome' = "installed"

\* Install(c) returns an error or is cut short.
CutShort(c) ==
    /\ file' \in {file, c, NoConfig}
    /\ core' \in {core, file, c, NoConfig}
    /\ outcome' = "failed"

CoreRestarts ==
    /\ core' = file
    /\ UNCHANGED <<file, outcome>>

Next ==
    \/ \E c \in Config : Succeeds(c) \/ CutShort(c)
    \/ CoreRestarts

Spec == Init /\ [][Next]_vars
=============================================================================
