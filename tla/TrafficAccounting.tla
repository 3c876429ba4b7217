-------------------------- MODULE TrafficAccounting --------------------------
(***************************************************************************)
(* How the bytes a user sends through the core reach the user's quota.     *)
(*                                                                         *)
(* trafficrunner.Runner reads and resets the counters of the core, writes  *)
(* them to a spool file, records the batch in one transaction and deletes  *)
(* the file; a batch found in the spool is replayed first.  Service turns  *)
(* the outcome of each step into traffic_health, which fails closed when   *)
(* accounting has failed for too long.  Meanwhile the quota sweep starts   *)
(* new periods and administrators issue, rotate and revoke access and move *)
(* the limit.  What fail-closed and blocked do to the core is CoreSync's   *)
(* subject.                                                                *)
(*                                                                         *)
(* Each file operation, each call and each transaction is a step.  A step  *)
(* of the runner takes the time once, when it starts.                      *)
(***************************************************************************)
EXTENDS Integers, FiniteSets

CONSTANTS User,      \* the Telegram users
          Period,    \* length of a quota period, in ticks
          FailAfter, \* ticks of failure after which accounting fails closed
          Limits,    \* the quota limits an administrator may choose
          MaxTime,   \* bound: the clock
          MaxBytes,  \* bound: units of traffic of one user
          MaxFaults  \* bound: failed calls, lost replies and crashes

ASSUME TimesAssumption == {Period, FailAfter, MaxTime} \subseteq Nat /\ Period > 0 /\ FailAfter > 0
ASSUME LimitsAssumption == Limits # {} /\ Limits \subseteq Nat \ {0}
ASSUME BoundsAssumption == {MaxBytes, MaxFaults} \subseteq Nat

VARIABLES
    now,            \* the clock
    limit,          \* limit_bytes, the same in every window
    active,         \* vpn_users.status = 'active' AND eligible
    accountPeriod,  \* vpn_users.period_started_at
    quotaPeriod,    \* quota_windows.period_started_at
    lastActivity,   \* vpn_users.last_vpn_activity_at
    used,           \* quota_windows.used_bytes
    blocked,        \* quota_windows.blocked
    ingested,       \* traffic_ingestion_batches
    failureStarted, \* traffic_health.failure_started_at
    failClosed,     \* traffic_health.fail_closed
    counter,        \* the counters of the core
    spool,          \* the batch in the spool file
    phase,          \* what Service.Step does next
    stepTime,       \* the time this step took
    batch,          \* the batch this step holds
    faults,         \* faults so far
    carried,        \* history: what each user has sent
    accounted,      \* history: what was added to a quota
    lost,           \* history: what was given up, see Lose
    failingSince    \* history: first failure observed since a recovery

windowVars == <<limit, active, accountPeriod, quotaPeriod, lastActivity, used, blocked>>
healthVars == <<failureStarted, failClosed, failingSince>>
bytesVars  == <<carried, accounted, lost>>
stepVars   == <<phase, stepTime, batch>>
vars == <<now, windowVars, ingested, healthVars, counter, spool, stepVars, faults, bytesVars>>

Never == -1
Time == 0 .. MaxTime
Moment == Time \union {Never}

\* A batch is known by its id, a digest of exactly these two fields.
NoBatch == [at |-> Never, bytes |-> [u \in User |-> 0]]
Batch == [at : Time, bytes : [User -> Nat]]

Phase == {"idle", "load", "collect", "save", "record", "delete", "failed", "succeeded"}

Issued == {u \in User : accountPeriod[u] # Never}

TypeOK ==
    /\ now \in Time
    /\ limit \in Limits
    /\ active \in [User -> BOOLEAN]
    /\ {u \in User : active[u]} \subseteq Issued
    /\ accountPeriod \in [User -> Moment]
    /\ quotaPeriod \in [User -> Moment]
    /\ lastActivity \in [User -> Moment]
    /\ used \in [User -> Nat]
    /\ blocked \in [User -> BOOLEAN]
    /\ ingested \subseteq Batch
    /\ failureStarted \in Moment
    /\ failClosed \in BOOLEAN
    /\ counter \in [User -> Nat]
    /\ spool \in Batch \union {NoBatch}
    /\ phase \in Phase
    /\ stepTime \in Time
    /\ batch \in Batch \union {NoBatch}
    /\ phase \in {"collect", "save"} => spool = NoBatch
    /\ phase \in {"record", "delete"} => spool = batch /\ batch # NoBatch
    /\ faults \in 0 .. MaxFaults
    /\ {carried, accounted, lost} \subseteq [User -> Nat]
    /\ failingSince \in Moment

Nothing == [u \in User |-> 0]

Init ==
    /\ now = 0
    /\ limit \in Limits
    /\ active = [u \in User |-> FALSE]
    /\ accountPeriod = [u \in User |-> Never]
    /\ quotaPeriod = [u \in User |-> Never]
    /\ lastActivity = [u \in User |-> Never]
    /\ used = Nothing
    /\ blocked = [u \in User |-> FALSE]
    /\ ingested = {}
    /\ failureStarted = Never
    /\ failClosed = FALSE
    /\ counter = Nothing
    /\ spool = NoBatch
    /\ phase = "idle"
    /\ stepTime = 0
    /\ batch = NoBatch
    /\ faults = 0
    /\ carried = Nothing
    /\ accounted = Nothing
    /\ lost = Nothing
    /\ failingSince = Never
-----------------------------------------------------------------------------
Plus(f, g) == [u \in User |-> f[u] + g[u]]

Tick ==
    /\ now < MaxTime
    /\ now' = now + 1
    /\ UNCHANGED <<windowVars, ingested, healthVars, counter, spool, stepVars, faults, bytesVars>>

\* The core relays a unit of traffic; it may still serve a user whose access
\* was taken away a moment ago.
Relay(u) ==
    /\ u \in Issued
    /\ carried[u] < MaxBytes
    /\ carried' = [carried EXCEPT ![u] = @ + 1]
    /\ counter' = [counter EXCEPT ![u] = @ + 1]
    /\ UNCHANGED <<now, windowVars, ingested, healthVars, spool, stepVars, faults, accounted, lost>>

\* Bytes nobody will account: counters of a core that restarts, counters
\* that were reset and did not reach the spool, bytes of users without access.
Lose(bytes) == lost' = Plus(lost, bytes)

CoreRestarts ==
    /\ counter # Nothing
    /\ counter' = Nothing
    /\ Lose(counter)
    /\ UNCHANGED <<now, windowVars, ingested, healthVars, spool, stepVars, faults, carried, accounted>>
-----------------------------------------------------------------------------
(***************************************************************************)
(* Administration and the quota sweep.                                     *)
(***************************************************************************)
AdministrationOnly ==
    UNCHANGED <<now, ingested, healthVars, counter, spool, stepVars, faults, bytesVars>>

\* Claim and Approve issue access; Rotate with resetPeriod does the same to
\* the windows of a user who has it.  Rotate without it changes nothing here.
Issue(u) ==
    /\ active' = [active EXCEPT ![u] = TRUE]
    /\ accountPeriod' = [accountPeriod EXCEPT ![u] = now]
    /\ quotaPeriod' = [quotaPeriod EXCEPT ![u] = now]
    /\ lastActivity' = [lastActivity EXCEPT ![u] = now]
    /\ used' = [used EXCEPT ![u] = 0]
    /\ blocked' = [blocked EXCEPT ![u] = FALSE]
    /\ UNCHANGED limit
    /\ AdministrationOnly

\* Revocation, lost eligibility or removal for inactivity.
Revoke(u) ==
    /\ active[u]
    /\ active' = [active EXCEPT ![u] = FALSE]
    /\ UNCHANGED <<limit, accountPeriod, quotaPeriod, lastActivity, used, blocked>>
    /\ AdministrationOnly

\* Seeded error: a limit that is raised unblocks nobody.
AdjustLimitDown(newLimit) ==
    /\ newLimit # limit
    /\ limit' = newLimit
    /\ blocked' = [u \in User |-> blocked[u] \/ (u \in Issued /\ used[u] >= newLimit)]
    /\ UNCHANGED <<active, accountPeriod, quotaPeriod, lastActivity, used>>
    /\ AdministrationOnly

\* ManagementSettingsStore.Update
AdjustLimit(newLimit) ==
    /\ newLimit # limit
    /\ limit' = newLimit
    /\ blocked' = [u \in User |-> u \in Issued /\ used[u] >= newLimit]
    /\ UNCHANGED <<active, accountPeriod, quotaPeriod, lastActivity, used>>
    /\ AdministrationOnly

\* Seeded error: the new period starts at the moment it is noticed.
StartsWhenSeen(start, at) == IF at - start >= Period THEN at ELSE start

\* QuotaWindow.advanceTo: start of the period that moment at falls into, of
\* consecutive periods the first of which began at start.
PeriodStart(start, at) ==
    IF at - start >= Period THEN start + Period * ((at - start) \div Period) ELSE start

\* AdvanceDueQuotaPeriods; windows locked by a transaction are skipped.
AdvanceDueQuotaPeriods ==
    \E due \in SUBSET {u \in Issued : quotaPeriod[u] + Period <= now} :
      /\ due # {}
      /\ quotaPeriod' = [u \in User |-> IF u \in due THEN PeriodStart(quotaPeriod[u], now)
                                                 ELSE quotaPeriod[u]]
      /\ used' = [u \in User |-> IF u \in due THEN 0 ELSE used[u]]
      /\ blocked' = [u \in User |-> blocked[u] /\ u \notin due]
      /\ UNCHANGED <<limit, active, accountPeriod, lastActivity>>
      /\ AdministrationOnly
-----------------------------------------------------------------------------
(***************************************************************************)
(* Runner.Step                                                             *)
(***************************************************************************)
Fault == faults < MaxFaults /\ faults' = faults + 1
StepOnly == UNCHANGED <<now, windowVars, healthVars, stepTime, carried>>

\* Two steps never take the same time.  A step that only replays makes no
\* batch of its time, and may go on when the bounded clock stands still.
StepStarts ==
    /\ phase = "idle"
    /\ now > stepTime \/ spool # NoBatch
    /\ phase' = "load"
    /\ stepTime' = now
    /\ UNCHANGED <<now, windowVars, ingested, healthVars, counter, spool, batch, faults, bytesVars>>

\* Spool.Load: a batch of an earlier step is replayed, and nothing is reset.
Load ==
    /\ phase = "load"
    /\ phase' = IF spool = NoBatch THEN "collect" ELSE "record"
    /\ batch' = spool
    /\ UNCHANGED <<ingested, counter, spool, faults, accounted, lost>>
    /\ StepOnly

\* Seeded error: a spool that cannot be read counts as an empty one.
LoadFailsOpen ==
    /\ phase = "load"
    /\ Fault
    /\ phase' = "collect"
    /\ UNCHANGED <<ingested, counter, spool, batch, accounted, lost>>
    /\ StepOnly

LoadFails ==
    /\ phase = "load"
    /\ Fault
    /\ phase' = "failed"
    /\ UNCHANGED <<ingested, counter, spool, batch, accounted, lost>>
    /\ StepOnly

\* Collector.Collect reads and resets all counters in one request.
Collect ==
    /\ phase = "collect"
    /\ phase' = "save"
    /\ batch' = [at |-> stepTime, bytes |-> counter]
    /\ counter' = Nothing
    /\ UNCHANGED <<ingested, spool, faults, accounted, lost>>
    /\ StepOnly

\* The core reports no users.
CollectNothing ==
    /\ phase = "collect"
    /\ counter = Nothing
    /\ phase' = "succeeded"
    /\ UNCHANGED <<ingested, counter, spool, batch, faults, accounted, lost>>
    /\ StepOnly

\* The call fails before the core has reset its counters, or after.
CollectFails ==
    /\ phase = "collect"
    /\ Fault
    /\ phase' = "failed"
    /\ \/ UNCHANGED <<counter, lost>>
       \/ counter' = Nothing /\ Lose(counter)
    /\ UNCHANGED <<ingested, spool, batch, accounted>>
    /\ StepOnly

Save ==
    /\ phase = "save"
    /\ spool' = batch
    /\ phase' = "record"
    /\ UNCHANGED <<ingested, counter, batch, faults, accounted, lost>>
    /\ StepOnly

\* The batch is gone, or the file was renamed and its directory not synced.
SaveFails ==
    /\ phase = "save"
    /\ Fault
    /\ \/ UNCHANGED spool /\ Lose(batch.bytes)
       \/ spool' = batch /\ UNCHANGED lost
    /\ batch' = NoBatch
    /\ phase' = "failed"
    /\ UNCHANGED <<ingested, counter, accounted>>
    /\ StepOnly

\* Users with a sample whose account lockTrafficAccount finds.
Sampled(b) == {u \in User : b.bytes[u] > 0 /\ active[u]}

\* lockTrafficAccount, recordCounters or RecordVPNActivity refuses the sample.
Refused(b, u) ==
    \/ accountPeriod[u] # quotaPeriod[u]
    \/ b.at < quotaPeriod[u]
    \/ b.at < lastActivity[u]

Accepted(b) == \A u \in Sampled(b) : ~Refused(b, u)

\* recordBatch for a batch it has not seen: usage, activity and blocked of
\* every sampled user, in one transaction.
Ingest(b) ==
    LET start(u) == PeriodStart(quotaPeriod[u], b.at)
        usage(u) == b.bytes[u] + (IF start(u) = quotaPeriod[u] THEN used[u] ELSE 0)
        on(f, g(_)) == [u \in User |-> IF u \in Sampled(b) THEN g(u) ELSE f[u]]
        at(u) == b.at
        over(u) == usage(u) >= limit
        counted(u) == accounted[u] + b.bytes[u]
        skipped == [u \in User |-> IF u \in Sampled(b) THEN 0 ELSE b.bytes[u]]
    IN  /\ ingested' = ingested \union {b}
        /\ quotaPeriod' = on(quotaPeriod, start)
        /\ used' = on(used, usage)
        /\ blocked' = on(blocked, over)
        /\ lastActivity' = on(lastActivity, at)
        /\ accounted' = on(accounted, counted)
        /\ Lose(skipped)
        /\ UNCHANGED <<limit, active, accountPeriod>>

\* Seeded error: the identity of the batch is not looked up.
IngestAgain(b) == b.bytes # Nothing /\ Accepted(b) /\ Ingest(b)

\* The transaction commits.  A batch without traffic is not even recorded.
IngestOnce(b) ==
    \/ /\ b \in ingested \/ b.bytes = Nothing
       /\ UNCHANGED <<windowVars, ingested, accounted, lost>>
    \/ /\ b \notin ingested /\ b.bytes # Nothing
       /\ Accepted(b)
       /\ Ingest(b)

RecordOnly == UNCHANGED <<now, healthVars, counter, spool, stepTime, batch, carried>>

Record ==
    /\ phase = "record"
    /\ IngestOnce(batch)
    /\ phase' = "delete"
    /\ UNCHANGED faults
    /\ RecordOnly

\* One refused sample rolls the whole batch back, and it stays in the spool.
RecordRefuses ==
    /\ phase = "record"
    /\ batch \notin ingested
    /\ ~Accepted(batch)
    /\ phase' = "failed"
    /\ UNCHANGED <<windowVars, ingested, accounted, lost, faults>>
    /\ RecordOnly

\* An error of the database, with or without having committed.
RecordFails ==
    /\ phase = "record"
    /\ Fault
    /\ IngestOnce(batch) \/ UNCHANGED <<windowVars, ingested, accounted, lost>>
    /\ phase' = "failed"
    /\ RecordOnly

Delete ==
    /\ phase = "delete"
    /\ spool' = NoBatch
    /\ batch' = NoBatch
    /\ phase' = "succeeded"
    /\ UNCHANGED <<ingested, counter, faults, accounted, lost>>
    /\ StepOnly

\* Seeded error: a spool that could not be deleted is no failure.
DeleteFailsSilently ==
    /\ phase = "delete"
    /\ Fault
    /\ batch' = NoBatch
    /\ phase' = "succeeded"
    /\ UNCHANGED <<ingested, counter, spool, accounted, lost>>
    /\ StepOnly

DeleteFails ==
    /\ phase = "delete"
    /\ Fault
    /\ spool' \in {spool, NoBatch}
    /\ batch' = NoBatch
    /\ phase' = "failed"
    /\ UNCHANGED <<ingested, counter, accounted, lost>>
    /\ StepOnly

\* The process stops; only the spool file and the database remain.
Crash ==
    /\ Fault
    /\ phase # "idle"
    /\ IF phase = "save" THEN Lose(batch.bytes) ELSE UNCHANGED lost
    /\ phase' = "idle"
    /\ batch' = NoBatch
    /\ UNCHANGED <<ingested, counter, spool, accounted>>
    /\ StepOnly
-----------------------------------------------------------------------------
(***************************************************************************)
(* Service.Step                                                            *)
(***************************************************************************)
ObserveOnly ==
    /\ phase' = "idle"
    /\ batch' = NoBatch
    /\ UNCHANGED <<now, windowVars, ingested, counter, spool, stepTime, bytesVars>>

First(moment) == IF moment = Never THEN stepTime ELSE moment

ObserveFailure ==
    /\ phase = "failed"
    /\ failureStarted' = First(failureStarted)
    /\ failClosed' = (failClosed \/ First(failureStarted) + FailAfter <= stepTime)
    /\ failingSince' = First(failingSince)
    /\ UNCHANGED faults
    /\ ObserveOnly

\* Seeded error: the start of the failure survives the recovery.
ObserveRecoveryKeepsStart ==
    /\ phase = "succeeded"
    /\ failClosed' = FALSE
    /\ failingSince' = Never
    /\ UNCHANGED <<faults, failureStarted>>
    /\ ObserveOnly

ObserveRecovery ==
    /\ phase = "succeeded"
    /\ failureStarted' = Never
    /\ failClosed' = FALSE
    /\ failingSince' = Never
    /\ UNCHANGED faults
    /\ ObserveOnly

\* traffic_health could not be written: the outcome is forgotten.
ObserveFails ==
    /\ phase \in {"failed", "succeeded"}
    /\ Fault
    /\ UNCHANGED healthVars
    /\ ObserveOnly
-----------------------------------------------------------------------------
Administration ==
    \/ \E u \in User : Issue(u) \/ Revoke(u)
    \/ \E newLimit \in Limits : AdjustLimit(newLimit)

RunnerProgress ==
    \/ StepStarts \/ Load \/ Collect \/ CollectNothing \/ Save
    \/ Record \/ RecordRefuses \/ Delete
    \/ ObserveFailure \/ ObserveRecovery

RunnerFault ==
    \/ LoadFails \/ CollectFails \/ SaveFails \/ RecordFails \/ DeleteFails
    \/ ObserveFails \/ Crash

Next ==
    \/ Tick
    \/ \E u \in User : Relay(u)
    \/ CoreRestarts
    \/ Administration
    \/ AdvanceDueQuotaPeriods
    \/ RunnerProgress
    \/ RunnerFault

Spec == Init /\ [][Next]_vars

\* The runner polls every 15 seconds and its calls return; the clock runs.
FairSpec == Spec /\ WF_vars(RunnerProgress) /\ WF_vars(Tick)
-----------------------------------------------------------------------------
(***************************************************************************)
(* Properties.                                                             *)
(***************************************************************************)

\* What the runner holds and has not recorded.
InFlight(u) ==
    IF phase = "save" THEN batch.bytes[u]
    ELSE IF spool # NoBatch /\ spool \notin ingested THEN spool.bytes[u] ELSE 0

\* Every byte is counted exactly once, through replays, lost replies and
\* crashes: it is in the core, in the runner, in the quota, or was given up
\* at one of the named places.
Conserved ==
    \A u \in User : carried[u] = counter[u] + InFlight(u) + accounted[u] + lost[u]

\* The stored blocked flag always is what the usage says: recordBatch refuses
\* a window where it is not, and no window ever reaches that state.
BlockedMatchesUsage ==
    \A u \in User : blocked[u] <=> u \in Issued /\ used[u] >= limit

\* Periods follow each other without gaps from the moment of issue, however
\* the sweep and the runner share the work, and never begin in the future.
PeriodsAreConsecutive ==
    \A u \in Issued :
      /\ accountPeriod[u] <= quotaPeriod[u] /\ quotaPeriod[u] <= now
      /\ (quotaPeriod[u] - accountPeriod[u]) % Period = 0

\* Counters are never read and reset while a batch waits in the spool: the
\* spool holds one batch only (question.md:67).
NoResetWhilePending ==
    [][phase = "collect" /\ phase' = "save" => spool = NoBatch]_vars

\* Accounting is declared recovered only with nothing left to account
\* (question.md:69).
RecoveryAfterAccounting ==
    [][failureStarted # Never /\ failureStarted' = Never => spool = NoBatch]_vars

\* Access fails closed only after a failure that was observed, long enough
\* ago, and not recovered from since.
FailClosedIsEarned ==
    failClosed => failingSince # Never /\ failingSince + FailAfter <= now

\* Accounting that failed closed recovers when its calls succeed
\* (question.md:69, and question.md:70: service returns with the next period).
FailClosedEnds == failClosed ~> ~failClosed
=============================================================================
