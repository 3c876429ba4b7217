------------------------ MODULE ConfigDeploymentProofs ------------------------
(***************************************************************************)
(* Proofs about ConfigDeployment for every set of configurations: Install  *)
(* keeps its promise, keeps the last usable configuration active through a *)
(* failure, and never destroys it.                                         *)
(***************************************************************************)
EXTENDS ConfigDeployment, TLAPS

Promoting == {"swap", "restore active", "restart", "remove active", "restore previous"}

\* Where the contents of the files are at each step.
FilesInv ==
    /\ pc # "idle" => /\ target \in Config
                      /\ active \in {fileBefore, target, NoConfig}
                      /\ core \in {coreBefore, fileBefore, target, NoConfig}
    /\ pc \in {"idle", "check", "backup", "restart previous", "finalize previous"} =>
         backup = NoConfig
    /\ pc \in {"check", "backup"} => active = fileBefore
    /\ pc \in {"check", "backup", "swap", "restore active"} => candidate = target
    /\ pc \in {"swap", "restore active", "restore previous"} => active = NoConfig
    /\ pc \in Promoting =>
         backup = fileBefore /\ (hadPrevious <=> backup # NoConfig)
    /\ pc \in {"restart", "remove active", "finalize"} => active = target
    /\ pc = "finalize" => core = target /\ lastUsable = target

\* While the active file is replaced the backup takes its place.
OnDiskInv ==
    /\ LastUsableOnDisk
    /\ pc \in Promoting /\ lastUsable # NoConfig => lastUsable \in {backup} \union orphans

\* Without bad luck the backup, then the active file, is the last usable one.
LuckInv ==
    ~unlucky =>
      /\ pc \in {"idle", "check", "backup", "discard", "restart previous"} => active = lastUsable
      /\ pc \in {"idle", "check", "backup", "discard", "swap", "restore active"} =>
           core \in {lastUsable, NoConfig}
      /\ pc \in Promoting => backup = lastUsable
      /\ pc \in {"check", "backup", "swap", "restart"} => ~failed
      /\ pc \in {"discard", "restore active", "remove active", "restore previous",
                 "restart previous"} => failed
      /\ pc \in {"finalize", "finalize previous"} => active = lastUsable /\ core = lastUsable

IInv == TypeOK /\ FilesInv /\ OnDiskInv /\ LuckInv
-----------------------------------------------------------------------------
LEMMA InitIInv == Init => IInv
<1> SUFFICES ASSUME Init PROVE IInv
  OBVIOUS
<1>1. TypeOK
  <2>1. failed \in BOOLEAN /\ unlucky \in BOOLEAN /\ hadPrevious \in BOOLEAN
    BY DEF Init
  <2>2. QED
    BY <2>1 DEF Init, TypeOK, Step, Content
<1>2. pc = "idle" /\ "idle" \notin Promoting
  BY DEF Init, Promoting
<1>3. FilesInv /\ OnDiskInv
  BY <1>2 DEF Init, FilesInv, OnDiskInv, LastUsableOnDisk
<1>4. LuckInv
  BY <1>2 DEF Init, LuckInv
<1>5. QED
  BY <1>1, <1>3, <1>4 DEF IInv

LEMMA CountTypes ==
  ASSUME TypeOK, Succeeded \/ Failed
  PROVE  failed' \in BOOLEAN /\ unlucky' \in BOOLEAN
BY DEF TypeOK, Succeeded, Failed

\* A second failure makes an installation unlucky.
LEMMA CountLuck ==
  /\ Succeeded => (failed' <=> failed) /\ (unlucky' <=> unlucky)
  /\ Failed => failed' /\ (unlucky' <=> unlucky \/ failed)
<1>1. Succeeded => (failed' <=> failed) /\ (unlucky' <=> unlucky)
  BY DEF Succeeded
<1>2. ASSUME Failed PROVE failed' /\ (unlucky' <=> unlucky \/ failed)
  <2>1. failed' = TRUE /\ unlucky' = (unlucky \/ failed)
    BY <1>2 DEF Failed
  <2>2. CASE unlucky \/ failed
    BY <2>1, <2>2
  <2>3. CASE ~(unlucky \/ failed)
    BY <2>1, <2>3
  <2>4. QED
    BY <2>1, <2>2, <2>3
<1>3. QED
  BY <1>1, <1>2

LEMMA TypeStep ==
  ASSUME TypeOK, Next
  PROVE  TypeOK'
<1> USE CountTypes DEF TypeOK, Step, Content
<1>1. ASSUME NEW c \in Config, Stage(c)
      PROVE  TypeOK'
  <2>1. failed' \in BOOLEAN /\ unlucky' \in BOOLEAN /\ hadPrevious' \in BOOLEAN
    BY <1>1 DEF Stage
  <2>2. QED
    BY <1>1, <2>1 DEF Stage, disk
<1>2. ASSUME NEW c \in Config, StageFails(c)
      PROVE  TypeOK'
  BY <1>2 DEF StageFails, disk, history
<1>3. CASE CheckPasses
  BY <1>3 DEF CheckPasses, GoTo, disk, history
<1>4. CASE CheckFails
  BY <1>4 DEF CheckFails, GoTo, disk, history
<1>5. CASE Discard
  BY <1>5 DEF Discard, LeftOver, Return, history
<1>6. CASE BackupActive
  <2>1. hadPrevious' \in BOOLEAN
    BY <1>6 DEF BackupActive
  <2>2. QED
    BY <1>6, <2>1 DEF BackupActive, GoTo, history
<1>7. CASE BackupFails
  BY <1>7 DEF BackupFails, GoTo, disk, history
<1>8. CASE Swap
  BY <1>8 DEF Swap, GoTo, history
<1>9. CASE SwapFails
  BY <1>9 DEF SwapFails, GoTo, disk, history
<1>10. CASE RestoreActive
  BY <1>10 DEF RestoreActive, GoTo, history
<1>11. CASE Restart
  BY <1>11 DEF Restart, CoreReadsActive, GoTo, disk, history
<1>12. CASE RestartFails
  BY <1>12 DEF RestartFails, CoreUnknown, GoTo, disk, history
<1>13. CASE RemoveActive
  BY <1>13 DEF RemoveActive, GoTo, history
<1>14. CASE RestorePrevious
  BY <1>14 DEF RestorePrevious, GoTo, history
<1>15. CASE RollbackFails
  BY <1>15 DEF RollbackFails, Forget, LeftOver, Return, history
<1>16. CASE RestartPrevious
  BY <1>16 DEF RestartPrevious, CoreReadsActive, GoTo, disk, history
<1>17. CASE RestartPreviousFails
  BY <1>17 DEF RestartPreviousFails, Forget, LeftOver, Return, history
<1>18. CASE FinalizePrevious
  BY <1>18 DEF FinalizePrevious, Return, disk, history
<1>19. CASE Finalize
  BY <1>19 DEF Finalize, Return, history
<1>20. CASE FinalizeFails
  BY <1>20 DEF FinalizeFails, Forget, LeftOver, Return, history
<1>21. CASE Crash
  BY <1>21 DEF Crash, Forget, LeftOver, Return, history
<1>22. CASE CoreRestarts
  <2>1. failed' \in BOOLEAN /\ unlucky' \in BOOLEAN
    BY <1>22, CountTypes DEF CoreRestarts, Succeeded
  <2>2. hadPrevious' \in BOOLEAN
    BY <1>22 DEF CoreRestarts
  <2>3. QED
    BY <1>22, <2>1, <2>2 DEF CoreRestarts, disk, history
<1>23. QED
  BY <1>1, <1>2, <1>3, <1>4, <1>5, <1>6, <1>7, <1>8, <1>9, <1>10, <1>11, <1>12,
     <1>13, <1>14, <1>15, <1>16, <1>17, <1>18, <1>19, <1>20, <1>21, <1>22
  DEF Next, Promote, Rollback

LEMMA FilesStep ==
  ASSUME TypeOK, FilesInv, Next
  PROVE  FilesInv'
<1> USE NoConfigAssumption DEF FilesInv, Promoting
<1>1. ASSUME NEW c \in Config, Stage(c)
      PROVE  FilesInv'
  BY <1>1 DEF Stage, disk
<1>2. ASSUME NEW c \in Config, StageFails(c)
      PROVE  FilesInv'
  BY <1>2 DEF StageFails, disk, history
<1>3. CASE CheckPasses
  BY <1>3 DEF CheckPasses, GoTo, disk, history
<1>4. CASE CheckFails
  BY <1>4 DEF CheckFails, GoTo, disk, history
<1>5. CASE Discard
  BY <1>5 DEF Discard, LeftOver, Return, history
<1>6. CASE BackupActive
  BY <1>6 DEF BackupActive, GoTo, history
<1>7. CASE BackupFails
  BY <1>7 DEF BackupFails, GoTo, disk, history
<1>8. CASE Swap
  BY <1>8 DEF Swap, GoTo, history
<1>9. CASE SwapFails
  BY <1>9 DEF SwapFails, GoTo, disk, history
<1>10. CASE RestoreActive
  BY <1>10 DEF RestoreActive, GoTo, history
<1>11. CASE Restart
  BY <1>11 DEF Restart, CoreReadsActive, GoTo, disk, history
<1>12. CASE RestartFails
  BY <1>12 DEF RestartFails, CoreUnknown, GoTo, disk, history
<1>13. CASE RemoveActive
  BY <1>13 DEF RemoveActive, GoTo, history
<1>14. CASE RestorePrevious
  BY <1>14 DEF RestorePrevious, GoTo, history
<1>15. CASE RollbackFails
  BY <1>15 DEF RollbackFails, Forget, LeftOver, Return, history
<1>16. CASE RestartPrevious
  BY <1>16 DEF RestartPrevious, CoreReadsActive, GoTo, disk, history
<1>17. CASE RestartPreviousFails
  BY <1>17 DEF RestartPreviousFails, Forget, LeftOver, Return, history
<1>18. CASE FinalizePrevious
  BY <1>18 DEF FinalizePrevious, Return, disk, history
<1>19. CASE Finalize
  BY <1>19 DEF Finalize, Return, history
<1>20. CASE FinalizeFails
  BY <1>20 DEF FinalizeFails, Forget, LeftOver, Return, history
<1>21. CASE Crash
  BY <1>21 DEF Crash, Forget, LeftOver, Return, history
<1>22. CASE CoreRestarts
  BY <1>22 DEF CoreRestarts, disk, history
<1>23. QED
  BY <1>1, <1>2, <1>3, <1>4, <1>5, <1>6, <1>7, <1>8, <1>9, <1>10, <1>11, <1>12,
     <1>13, <1>14, <1>15, <1>16, <1>17, <1>18, <1>19, <1>20, <1>21, <1>22
  DEF Next, Promote, Rollback

LEMMA OnDiskStep ==
  ASSUME TypeOK, FilesInv, OnDiskInv, Next
  PROVE  OnDiskInv'
<1> USE DEF FilesInv, OnDiskInv, LastUsableOnDisk, Promoting
<1>1. ASSUME NEW c \in Config, Stage(c)
      PROVE  OnDiskInv'
  BY <1>1 DEF Stage, disk
<1>2. ASSUME NEW c \in Config, StageFails(c)
      PROVE  OnDiskInv'
  BY <1>2 DEF StageFails, disk, history
<1>3. CASE CheckPasses
  BY <1>3 DEF CheckPasses, GoTo, disk, history
<1>4. CASE CheckFails
  BY <1>4 DEF CheckFails, GoTo, disk, history
<1>5. CASE Discard
  BY <1>5 DEF Discard, LeftOver, Return, history
<1>6. CASE BackupActive
  BY <1>6 DEF BackupActive, GoTo, history
<1>7. CASE BackupFails
  BY <1>7 DEF BackupFails, GoTo, disk, history
<1>8. CASE Swap
  BY <1>8 DEF Swap, GoTo, history
<1>9. CASE SwapFails
  BY <1>9 DEF SwapFails, GoTo, disk, history
<1>10. CASE RestoreActive
  BY <1>10 DEF RestoreActive, GoTo, history
<1>11. CASE Restart
  BY <1>11 DEF Restart, CoreReadsActive, GoTo, disk, history
<1>12. CASE RestartFails
  BY <1>12 DEF RestartFails, CoreUnknown, GoTo, disk, history
<1>13. CASE RemoveActive
  BY <1>13 DEF RemoveActive, GoTo, history
<1>14. CASE RestorePrevious
  BY <1>14 DEF RestorePrevious, GoTo, history
<1>15. CASE RollbackFails
  BY <1>15 DEF RollbackFails, Forget, LeftOver, Return, history
<1>16. CASE RestartPrevious
  BY <1>16 DEF RestartPrevious, CoreReadsActive, GoTo, disk, history
<1>17. CASE RestartPreviousFails
  BY <1>17 DEF RestartPreviousFails, Forget, LeftOver, Return, history
<1>18. CASE FinalizePrevious
  BY <1>18 DEF FinalizePrevious, Return, disk, history
<1>19. CASE Finalize
  BY <1>19 DEF Finalize, Return, history
<1>20. CASE FinalizeFails
  BY <1>20 DEF FinalizeFails, Forget, LeftOver, Return, history
<1>21. CASE Crash
  BY <1>21 DEF Crash, Forget, LeftOver, Return, history
<1>22. CASE CoreRestarts
  BY <1>22 DEF CoreRestarts, disk, history
<1>23. QED
  BY <1>1, <1>2, <1>3, <1>4, <1>5, <1>6, <1>7, <1>8, <1>9, <1>10, <1>11, <1>12,
     <1>13, <1>14, <1>15, <1>16, <1>17, <1>18, <1>19, <1>20, <1>21, <1>22
  DEF Next, Promote, Rollback

LEMMA LuckStep ==
  ASSUME TypeOK, FilesInv, LuckInv, Next
  PROVE  LuckInv'
<1> USE CountLuck DEF FilesInv, LuckInv, Promoting
<1>1. ASSUME NEW c \in Config, Stage(c)
      PROVE  LuckInv'
  BY <1>1 DEF Stage, disk
<1>2. ASSUME NEW c \in Config, StageFails(c)
      PROVE  LuckInv'
  BY <1>2 DEF StageFails, disk, history
<1>3. CASE CheckPasses
  BY <1>3 DEF CheckPasses, GoTo, disk, history
<1>4. CASE CheckFails
  BY <1>4 DEF CheckFails, GoTo, disk, history
<1>5. CASE Discard
  BY <1>5 DEF Discard, LeftOver, Return, history
<1>6. CASE BackupActive
  BY <1>6 DEF BackupActive, GoTo, history
<1>7. CASE BackupFails
  BY <1>7 DEF BackupFails, GoTo, disk, history
<1>8. CASE Swap
  BY <1>8 DEF Swap, GoTo, history
<1>9. CASE SwapFails
  BY <1>9 DEF SwapFails, GoTo, disk, history
<1>10. CASE RestoreActive
  <2>1. CASE Failed
    <3>1. ~unlucky => failed
      BY <1>10 DEF RestoreActive
    <3>2. unlucky'
      BY <2>1, <3>1 DEF Failed
    <3>3. QED
      BY <3>2
  <2>2. CASE Succeeded /\ active' = backup
    BY <1>10, <2>2 DEF RestoreActive, GoTo, history
  <2>3. QED
    BY <1>10, <2>1, <2>2 DEF RestoreActive
<1>11. CASE Restart
  BY <1>11 DEF Restart, CoreReadsActive, GoTo, disk, history
<1>12. CASE RestartFails
  BY <1>12 DEF RestartFails, CoreUnknown, GoTo, disk, history
<1>13. CASE RemoveActive
  BY <1>13 DEF RemoveActive, GoTo, history
<1>14. CASE RestorePrevious
  BY <1>14 DEF RestorePrevious, GoTo, history
<1>15. CASE RollbackFails
  <2>1. ~unlucky => failed
    BY <1>15 DEF RollbackFails
  <2>2. unlucky'
    BY <1>15, <2>1 DEF RollbackFails, Failed
  <2>3. QED
    BY <2>2
<1>16. CASE RestartPrevious
  BY <1>16 DEF RestartPrevious, CoreReadsActive, GoTo, disk, history
<1>17. CASE RestartPreviousFails
  <2>1. ~unlucky => failed
    BY <1>17 DEF RestartPreviousFails
  <2>2. unlucky'
    BY <1>17, <2>1 DEF RestartPreviousFails, Failed
  <2>3. QED
    BY <2>2
<1>18. CASE FinalizePrevious
  BY <1>18 DEF FinalizePrevious, Return, disk, history
<1>19. CASE Finalize
  BY <1>19 DEF Finalize, Return, history
<1>20. CASE FinalizeFails
  BY <1>20 DEF FinalizeFails, Forget, LeftOver, Return, history
<1>21. CASE Crash
  BY <1>21 DEF Crash, Forget, LeftOver, Return, history
<1>22. CASE CoreRestarts
  BY <1>22 DEF CoreRestarts, disk, history
<1>23. QED
  BY <1>1, <1>2, <1>3, <1>4, <1>5, <1>6, <1>7, <1>8, <1>9, <1>10, <1>11, <1>12,
     <1>13, <1>14, <1>15, <1>16, <1>17, <1>18, <1>19, <1>20, <1>21, <1>22
  DEF Next, Promote, Rollback

LEMMA Invariance == Spec => []IInv
<1>1. ASSUME IInv, [Next]_vars
      PROVE  IInv'
  <2>1. CASE Next
    BY <1>1, <2>1, TypeStep, FilesStep, OnDiskStep, LuckStep DEF IInv
  <2>2. CASE UNCHANGED vars
    <3>1. UNCHANGED <<failed, unlucky>>
      BY <2>2 DEF vars
    <3>2. TypeOK'
      BY <1>1, <2>2, <3>1 DEF IInv, TypeOK, vars, disk, history
    <3>3. FilesInv' /\ OnDiskInv'
      BY <1>1, <2>2 DEF IInv, FilesInv, OnDiskInv, LastUsableOnDisk, vars, disk, history
    <3>4. LuckInv'
      BY <1>1, <2>2 DEF IInv, LuckInv, vars, disk, history
    <3>5. QED
      BY <3>2, <3>3, <3>4 DEF IInv
  <2>3. QED
    BY <1>1, <2>1, <2>2
<1>2. QED
  BY InitIInv, <1>1, PTL DEF Spec
-----------------------------------------------------------------------------
(***************************************************************************)
(* The theorems.                                                           *)
(***************************************************************************)

\* The directory, the running core and the install in progress stay of their
\* types, whichever calls fail and whenever the process dies.
THEOREM TypeCorrect == Spec => []TypeOK
<1>1. IInv => TypeOK
  BY DEF IInv
<1> QED
  BY Invariance, <1>1, PTL

\* After an installation with one failure the last usable configuration is
\* the active file.
THEOREM LastUsableKept == Spec => []KeepsLastUsable
<1>1. IInv => KeepsLastUsable
  BY DEF IInv, LuckInv, KeepsLastUsable
<1>2. QED
  BY Invariance, <1>1, PTL

\* Not even crashes destroy the last usable configuration.
THEOREM LastUsableAlwaysOnDisk == Spec => []LastUsableOnDisk
<1>1. IInv => LastUsableOnDisk
  BY DEF IInv, OnDiskInv
<1>2. QED
  BY Invariance, <1>1, PTL

fileSeen == IF pc = "idle" THEN active ELSE fileBefore
coreSeen == IF pc = "idle" THEN core ELSE coreBefore

\* What the caller sees does not change while Install runs.
LEMMA StutterStep ==
  ASSUME UNCHANGED <<fileSeen, coreSeen, outcome>>
  PROVE  [InstallPromise!Next]_(InstallPromise!vars)
BY DEF InstallPromise!vars, fileSeen, coreSeen

\* Install returns an error, or the process stops.
LEMMA CutShortStep ==
  ASSUME TypeOK, FilesInv, pc # "idle", pc' = "idle", outcome' = "failed",
         UNCHANGED active, core' \in {core, active, NoConfig}
  PROVE  [InstallPromise!Next]_(InstallPromise!vars)
<1>1. target \in Config /\ fileSeen = fileBefore /\ coreSeen = coreBefore
  BY DEF FilesInv, fileSeen, coreSeen
<1>2. fileSeen' = active /\ coreSeen' = core'
  BY DEF fileSeen, coreSeen
<1>3. InstallPromise!CutShort(target)
  BY <1>1, <1>2 DEF FilesInv, InstallPromise!CutShort, fileSeen, coreSeen
<1>4. QED
  BY <1>1, <1>3 DEF InstallPromise!Next

\* The installer and the file deployment implement what the worker relies on.
THEOREM DeploymentKeepsPromise == Spec => KeepsPromise
<1>1. Init => InstallPromise!Init
  BY DEF Init, InstallPromise!Init
<1>2. ASSUME IInv, [Next]_vars
      PROVE  [InstallPromise!Next]_(InstallPromise!vars)
  <2>1. TypeOK /\ FilesInv
    BY <1>2 DEF IInv
  <2>2. ASSUME NEW c \in Config, Stage(c)
        PROVE  [InstallPromise!Next]_(InstallPromise!vars)
    BY <2>2, StutterStep DEF Stage, fileSeen, coreSeen
  <2>3. ASSUME NEW c \in Config, StageFails(c)
        PROVE  [InstallPromise!Next]_(InstallPromise!vars)
    <3>1. InstallPromise!CutShort(c)
      BY <2>3 DEF StageFails, InstallPromise!CutShort, disk
    <3>2. QED
      BY <3>1 DEF InstallPromise!Next
  <2>4. CASE CheckPasses \/ CheckFails \/ Promote \/ Restart \/ RestartFails
             \/ RemoveActive \/ RestorePrevious \/ RestartPrevious
    <3>1. pc # "idle" /\ pc' # "idle" /\ UNCHANGED <<history, outcome>>
      BY <2>4 DEF CheckPasses, CheckFails, Promote, BackupActive, BackupFails, Swap, SwapFails,
         RestoreActive, Restart, RestartFails, RemoveActive, RestorePrevious, RestartPrevious, GoTo
    <3>2. QED
      BY <3>1, StutterStep DEF fileSeen, coreSeen, history
  <2>5. CASE Discard \/ RollbackFails \/ RestartPreviousFails \/ FinalizePrevious
             \/ FinalizeFails \/ Crash
    <3>1. pc # "idle" /\ pc' = "idle" /\ outcome' = "failed" /\ UNCHANGED active
      BY <2>5 DEF Discard, RollbackFails, RestartPreviousFails, FinalizePrevious, FinalizeFails,
         Crash, Return, disk
    <3>2. core' \in {core, active, NoConfig}
      BY <2>5 DEF Discard, RollbackFails, RestartPreviousFails, FinalizePrevious, FinalizeFails,
         Crash
    <3>3. QED
      BY <2>1, <3>1, <3>2, CutShortStep
  <2>6. CASE Finalize
    <3>1. target \in Config /\ active' = target /\ core' = target
      BY <2>1, <2>6 DEF FilesInv, Finalize
    <3>2. InstallPromise!Succeeds(target)
      BY <2>6, <3>1 DEF Finalize, Return, InstallPromise!Succeeds
    <3>3. QED
      BY <3>1, <3>2 DEF InstallPromise!Next
  <2>7. CASE CoreRestarts
    <3>1. CASE pc = "idle"
      <4>1. InstallPromise!CoreRestarts
        BY <2>7, <3>1 DEF CoreRestarts, InstallPromise!CoreRestarts, disk
      <4>2. QED
        BY <4>1 DEF InstallPromise!Next
    <3>2. CASE pc # "idle"
      BY <2>7, <3>2, StutterStep DEF CoreRestarts, fileSeen, coreSeen, history
    <3>3. QED
      BY <3>1, <3>2
  <2>8. CASE UNCHANGED vars
    BY <2>8, StutterStep DEF vars, fileSeen, coreSeen, disk, history
  <2>9. QED
    BY <1>2, <2>2, <2>3, <2>4, <2>5, <2>6, <2>7, <2>8 DEF Next, Rollback
<1>3. QED
  BY Invariance, <1>1, <1>2, PTL DEF Spec, KeepsPromise, InstallPromise!Spec
=============================================================================
