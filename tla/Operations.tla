----------------------------- MODULE Operations -----------------------------
(***************************************************************************)
(* The parts of the program around the core: they share no state, so each  *)
(* behaviour follows the steps of one of them while the others stutter.    *)
(* Every property below speaks of one part only and every specification    *)
(* allows stuttering, hence nothing is lost.                               *)
(***************************************************************************)
EXTENDS Administration, LoginRateLimit, BotToken, RealityHealth, RealitySearch, Backup

VARIABLE watched  \* the part whose steps the behaviour follows

operationsVars == <<watched, adminVars, limiterVars, tokenVars, healthVars, searchVars, backupVars>>

Init ==
    /\ watched \in {"admin", "limiter", "token", "health", "search", "backup"}
    /\ AdminInit /\ (watched # "admin" => \A a \in Admin \ {Root} : admins[a].role = "none")
    /\ LimiterInit
    /\ TokenInit
    /\ HealthInit
    /\ SearchInit
    /\ BackupInit

AdminStep == watched = "admin" /\ AdminNext
             /\ UNCHANGED <<watched, limiterVars, tokenVars, healthVars, searchVars, backupVars>>
LimiterStep == watched = "limiter" /\ LimiterNext
             /\ UNCHANGED <<watched, adminVars, tokenVars, healthVars, searchVars, backupVars>>
TokenStep == watched = "token" /\ TokenNext
             /\ UNCHANGED <<watched, adminVars, limiterVars, healthVars, searchVars, backupVars>>
HealthStep == watched = "health" /\ HealthNext
             /\ UNCHANGED <<watched, adminVars, limiterVars, tokenVars, searchVars, backupVars>>
SearchStep == watched = "search" /\ SearchNext
             /\ UNCHANGED <<watched, adminVars, limiterVars, tokenVars, healthVars, backupVars>>
BackupStep == watched = "backup" /\ BackupNext
             /\ UNCHANGED <<watched, adminVars, limiterVars, tokenVars, healthVars, searchVars>>

Next == AdminStep \/ LimiterStep \/ TokenStep \/ HealthStep \/ SearchStep \/ BackupStep

Spec == Init /\ [][Next]_operationsVars /\ SearchFairness
----------------------------------------------------------------------------
TypeOK ==
    /\ AdminTypeOK
    /\ LimiterTypeOK
    /\ TokenTypeOK
    /\ HealthTypeOK
    /\ SearchTypeOK
    /\ BackupTypeOK
=============================================================================
