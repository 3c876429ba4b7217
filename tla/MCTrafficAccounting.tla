------------------------- MODULE MCTrafficAccounting -------------------------
(* Instances of TrafficAccounting for TLC. *)
EXTENDS TrafficAccounting

\* Every user was issued access at the start, and no administrator acts.
IssuedInit ==
    /\ now = 0
    /\ limit \in Limits
    /\ active = [u \in User |-> TRUE]
    /\ accountPeriod = [u \in User |-> 0]
    /\ quotaPeriod = [u \in User |-> 0]
    /\ lastActivity = [u \in User |-> 0]
    /\ used = Nothing
    /\ blocked = [u \in User |-> FALSE]
    /\ ingested = {}
    /\ failureStarted = Never
    /\ failClosed = FALSE
    /\ counter = Nothing
    /\ spool = NoBatch
    /\ phase = "idle"
    /\ stepTime = 0
    /\ batch = NoBatch
    /\ faults = 0
    /\ carried = Nothing
    /\ accounted = Nothing
    /\ lost = Nothing
    /\ failingSince = Never

UnattendedNext ==
    \/ Tick
    \/ \E u \in User : Relay(u)
    \/ AdvanceDueQuotaPeriods
    \/ RunnerProgress

UnattendedSpec ==
    /\ IssuedInit /\ [][UnattendedNext]_vars
    /\ WF_vars(RunnerProgress) /\ WF_vars(Tick)
=============================================================================
