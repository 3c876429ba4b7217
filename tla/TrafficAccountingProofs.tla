------------------------ MODULE TrafficAccountingProofs ------------------------
(***************************************************************************)
(* Proofs about TrafficAccounting for any users, periods, limits and       *)
(* bounds.  The windows are written by transactions only, the spool and    *)
(* the counters by the runner only: the two halves are proved apart.       *)
(***************************************************************************)
EXTENDS TrafficAccounting, TLAPS

WindowTypes ==
    /\ limit \in Limits
    /\ active \in [User -> BOOLEAN]
    /\ {u \in User : active[u]} \subseteq Issued
    /\ accountPeriod \in [User -> Moment]
    /\ quotaPeriod \in [User -> Moment]
    /\ lastActivity \in [User -> Moment]
    /\ used \in [User -> Nat]
    /\ blocked \in [User -> BOOLEAN]

RunnerTypes ==
    /\ now \in Time
    /\ ingested \subseteq Batch
    /\ spool \in Batch \union {NoBatch}
    /\ phase \in Phase
    /\ stepTime \in Time
    /\ batch \in Batch \union {NoBatch}
    /\ phase \in {"collect", "save"} => spool = NoBatch
    /\ phase \in {"record", "delete"} => spool = batch /\ batch # NoBatch
    /\ faults \in 0 .. MaxFaults

BytesTypes ==
    /\ counter \in [User -> Nat] /\ carried \in [User -> Nat]
    /\ accounted \in [User -> Nat] /\ lost \in [User -> Nat]

HealthTypes ==
    /\ failureStarted \in Moment
    /\ failClosed \in BOOLEAN
    /\ failingSince \in Moment

\* Nothing is later than the step that made it.
TimeInv ==
    /\ stepTime <= now
    /\ spool # NoBatch => spool.at <= stepTime
    /\ batch # NoBatch => batch.at <= stepTime
    /\ \A b \in ingested : b.at <= stepTime

\* A batch is new when it is made: its step has a time of its own.
FreshInv ==
    /\ phase \in {"collect", "save"} \/ (phase = "load" /\ spool = NoBatch) =>
         \A b \in ingested : b.at < stepTime
    /\ phase = "save" => batch # NoBatch /\ batch.at = stepTime
    /\ phase = "delete" => batch \in ingested \/ batch.bytes = Nothing
    /\ phase = "succeeded" => spool = NoBatch

HealthInv ==
    /\ failureStarted = failingSince
    /\ failingSince # Never => failingSince <= stepTime
    /\ failClosed => failingSince # Never /\ failingSince + FailAfter <= stepTime

IInv ==
    /\ WindowTypes /\ RunnerTypes /\ BytesTypes /\ HealthTypes
    /\ TimeInv /\ FreshInv /\ HealthInv
    /\ BlockedMatchesUsage /\ PeriodsAreConsecutive /\ Conserved
-----------------------------------------------------------------------------
LEMMA TypesTogether ==
  TypeOK <=> WindowTypes /\ RunnerTypes /\ BytesTypes /\ HealthTypes
BY DEF TypeOK, WindowTypes, RunnerTypes, BytesTypes, HealthTypes

LEMMA Constants ==
  /\ Period \in Nat \ {0} /\ FailAfter \in Nat /\ MaxTime \in Nat /\ MaxFaults \in Nat
  /\ Limits \subseteq Nat \ {0}
BY TimesAssumption, LimitsAssumption, BoundsAssumption
-----------------------------------------------------------------------------
(***************************************************************************)
(* Whole periods.                                                          *)
(***************************************************************************)
LEMMA Division ==
  ASSUME NEW x \in Nat, NEW d \in Nat \ {0}
  PROVE  x \div d \in Nat /\ d * (x \div d) \in Nat /\ d * (x \div d) <= x
BY Z3

LEMMA MultipleIsWhole ==
  ASSUME NEW q \in Nat, NEW d \in Nat \ {0}
  PROVE  (d * q) % d = 0
BY Z3

LEMMA WholeIsMultiple ==
  ASSUME NEW x \in Nat, NEW d \in Nat \ {0}, x % d = 0
  PROVE  x = d * (x \div d)
BY Z3

LEMMA WholePlusMultiple ==
  ASSUME NEW x \in Nat, NEW y \in Nat, NEW d \in Nat \ {0}, x % d = 0
  PROVE  (x + d * y) % d = 0
<1> DEFINE q == x \div d
<1>1. q \in Nat
  BY Division
<1>2. x = d * q
  BY WholeIsMultiple
<1> HIDE DEF q
<1>3. x + d * y = d * (q + y) /\ q + y \in Nat
  BY <1>1, <1>2, Z3
<1>4. QED
  BY <1>3, MultipleIsWhole

\* The period that contains a moment begins whole periods after the first one
\* and not after that moment.
LEMMA PeriodStartFits ==
  ASSUME NEW first \in Nat, NEW start \in Nat, NEW at \in Nat,
         first <= start, start <= at, (start - first) % Period = 0
  PROVE  /\ PeriodStart(start, at) \in Nat
         /\ start <= PeriodStart(start, at) /\ PeriodStart(start, at) <= at
         /\ (PeriodStart(start, at) - first) % Period = 0
<1>1. Period \in Nat \ {0}
  BY Constants
<1>2. CASE at - start >= Period
  <2> DEFINE n == (at - start) \div Period
  <2>1. at - start \in Nat /\ start - first \in Nat
    OBVIOUS
  <2>2. n \in Nat /\ Period * n \in Nat /\ Period * n <= at - start
    BY <1>1, <2>1, Division
  <2>3. PeriodStart(start, at) = start + Period * n
    BY <1>2 DEF PeriodStart
  <2>4. ((start - first) + Period * n) % Period = 0
    BY <1>1, <2>1, <2>2, WholePlusMultiple
  <2> HIDE DEF n
  <2>5. PeriodStart(start, at) - first = (start - first) + Period * n
    BY <2>2, <2>3
  <2>6. QED
    BY <2>2, <2>3, <2>4, <2>5
<1>3. CASE ~(at - start >= Period)
  BY <1>3 DEF PeriodStart
<1>4. QED
  BY <1>2, <1>3
-----------------------------------------------------------------------------
(***************************************************************************)
(* The windows.                                                            *)
(***************************************************************************)
WindowInv == WindowTypes /\ BlockedMatchesUsage /\ PeriodsAreConsecutive

\* The only transaction of the runner that writes windows.
Ingests ==
    /\ phase = "record" /\ batch \notin ingested
    /\ Accepted(batch) /\ Ingest(batch) /\ now' = now

LEMMA WindowCases ==
  ASSUME Next
  PROVE  \/ \E u \in User : Issue(u) \/ Revoke(u)
         \/ \E newLimit \in Limits : AdjustLimit(newLimit)
         \/ AdvanceDueQuotaPeriods
         \/ Ingests
         \/ UNCHANGED windowVars /\ now' \in {now, now + 1}
<1>1. CASE Tick \/ (\E u \in User : Relay(u)) \/ CoreRestarts
  BY <1>1 DEF Tick, Relay, CoreRestarts
<1>2. CASE Administration
  BY <1>2 DEF Administration
<1>3. CASE AdvanceDueQuotaPeriods
  BY <1>3
<1>4. CASE Record \/ RecordFails
  BY <1>4 DEF Record, RecordFails, IngestOnce, RecordOnly, Ingests
<1>5. CASE \/ StepStarts \/ Load \/ Collect \/ CollectNothing \/ Save \/ RecordRefuses \/ Delete
           \/ ObserveFailure \/ ObserveRecovery
  BY <1>5 DEF StepStarts, Load, Collect, CollectNothing, Save, RecordRefuses, RecordOnly, Delete,
              ObserveFailure, ObserveRecovery, ObserveOnly, StepOnly
<1>6. CASE LoadFails \/ CollectFails \/ SaveFails \/ DeleteFails \/ ObserveFails \/ Crash
  BY <1>6 DEF LoadFails, CollectFails, SaveFails, DeleteFails, ObserveFails, ObserveOnly, Crash,
              StepOnly
<1>7. QED
  BY <1>1, <1>2, <1>3, <1>4, <1>5, <1>6 DEF Next, RunnerProgress, RunnerFault

\* What the batch that is accepted may assume about each sampled window.
LEMMA SampledFits ==
  ASSUME WindowInv, RunnerTypes, TimeInv, Ingests, NEW u \in Sampled(batch)
  PROVE  /\ u \in User /\ u \in Issued
         /\ batch.at \in Nat /\ batch.at \in Time /\ batch.at <= now
         /\ batch.bytes \in [User -> Nat]
         /\ quotaPeriod[u] \in Nat /\ quotaPeriod[u] <= batch.at
         /\ accountPeriod[u] = quotaPeriod[u]
<1>1. u \in User /\ active[u] /\ u \in Issued
  BY DEF Sampled, WindowInv, WindowTypes
<1>2. batch \in Batch
  BY DEF Ingests, RunnerTypes
<1>3. batch.at \in Time /\ batch.bytes \in [User -> Nat]
  BY <1>2 DEF Batch
<1>4. ~Refused(batch, u)
  BY DEF Ingests, Accepted
<1>5. accountPeriod[u] = quotaPeriod[u] /\ quotaPeriod[u] <= batch.at
  <2>1. quotaPeriod[u] \in Int /\ batch.at \in Int
    BY <1>1, <1>3, Constants DEF WindowInv, WindowTypes, Moment, Time, Never
  <2>2. QED
    BY <1>4, <2>1 DEF Refused
<1>6. accountPeriod[u] \in Time
  BY <1>1 DEF Issued, WindowInv, WindowTypes, Moment
<1>7. batch.at <= now
  <2>1. batch.at <= stepTime /\ stepTime <= now
    BY DEF TimeInv, Ingests, RunnerTypes
  <2>2. QED
    BY <2>1, <1>3, Constants DEF RunnerTypes, Time
<1>8. QED
  BY <1>1, <1>3, <1>5, <1>6, <1>7, Constants DEF Time

LEMMA IssueKeepsWindows ==
  ASSUME WindowInv, now \in Time, NEW u \in User, Issue(u)
  PROVE  WindowInv'
<1>1. now \in Moment /\ 0 \in Nat /\ 0 <= now /\ now # Never
  BY Constants DEF Moment, Time, Never
<1>2. \A v \in User \ {u} :
         /\ active'[v] = active[v] /\ blocked'[v] = blocked[v] /\ used'[v] = used[v]
         /\ accountPeriod'[v] = accountPeriod[v] /\ quotaPeriod'[v] = quotaPeriod[v]
  BY DEF Issue, WindowInv, WindowTypes
<1>3. /\ active'[u] = TRUE /\ blocked'[u] = FALSE /\ used'[u] = 0
      /\ accountPeriod'[u] = now /\ quotaPeriod'[u] = now
  BY DEF Issue, WindowInv, WindowTypes
<1>4. limit' = limit /\ now' = now
  BY DEF Issue, AdministrationOnly
<1>5. u \in Issued' /\ \A v \in User \ {u} : v \in Issued' <=> v \in Issued
  BY <1>1, <1>2, <1>3 DEF Issued
<1>6. WindowTypes'
  <2>1. \A v \in User : active'[v] => v \in Issued'
    BY <1>2, <1>5 DEF WindowInv, WindowTypes
  <2>2. /\ limit' \in Limits /\ accountPeriod' \in [User -> Moment]
        /\ quotaPeriod' \in [User -> Moment] /\ lastActivity' \in [User -> Moment]
    BY <1>1 DEF Issue, WindowInv, WindowTypes
  <2>3. active' \in [User -> BOOLEAN] /\ blocked' \in [User -> BOOLEAN]
    BY DEF Issue, WindowInv, WindowTypes
  <2>4. used' \in [User -> Nat]
    BY <1>1 DEF Issue, WindowInv, WindowTypes
  <2>5. QED
    BY <2>1, <2>2, <2>3, <2>4 DEF WindowTypes
<1>7. BlockedMatchesUsage'
  <2>1. ~(used'[u] >= limit')
    BY <1>3, <1>4, Constants DEF WindowInv, WindowTypes
  <2>2. \A v \in User \ {u} : blocked'[v] <=> v \in Issued' /\ used'[v] >= limit'
    BY <1>2, <1>4, <1>5 DEF WindowInv, BlockedMatchesUsage
  <2>3. QED
    BY <1>3, <2>1, <2>2 DEF BlockedMatchesUsage
<1>8. PeriodsAreConsecutive'
  <2>1. /\ accountPeriod'[u] <= quotaPeriod'[u] /\ quotaPeriod'[u] <= now'
        /\ (quotaPeriod'[u] - accountPeriod'[u]) % Period = 0
    <3>1. now \in Nat
      BY Constants DEF Time
    <3>2. 0 % Period = 0 /\ now - now = 0 /\ now <= now
      BY <3>1, Constants
    <3>3. QED
      BY <1>3, <1>4, <3>2
  <2>2. \A v \in User \ {u} : v \in Issued' =>
           /\ accountPeriod'[v] <= quotaPeriod'[v] /\ quotaPeriod'[v] <= now'
           /\ (quotaPeriod'[v] - accountPeriod'[v]) % Period = 0
    BY <1>2, <1>4, <1>5 DEF WindowInv, PeriodsAreConsecutive
  <2>3. QED
    BY <2>1, <2>2 DEF PeriodsAreConsecutive, Issued
<1>9. QED
  BY <1>6, <1>7, <1>8 DEF WindowInv

LEMMA AdvanceKeepsWindows ==
  ASSUME WindowInv, now \in Time, AdvanceDueQuotaPeriods
  PROVE  WindowInv'
<1>1. PICK due \in SUBSET {u \in Issued : quotaPeriod[u] + Period <= now} :
        /\ quotaPeriod' = [u \in User |-> IF u \in due THEN PeriodStart(quotaPeriod[u], now)
                                                   ELSE quotaPeriod[u]]
        /\ used' = [u \in User |-> IF u \in due THEN 0 ELSE used[u]]
        /\ blocked' = [u \in User |-> blocked[u] /\ u \notin due]
        /\ limit' = limit /\ active' = active /\ accountPeriod' = accountPeriod
        /\ lastActivity' = lastActivity /\ now' = now
  BY DEF AdvanceDueQuotaPeriods, AdministrationOnly
<1>2. Issued' = Issued /\ due \subseteq Issued /\ Issued \subseteq User
  BY <1>1 DEF Issued
<1>3. \A u \in due : /\ PeriodStart(quotaPeriod[u], now) \in Time
                     /\ accountPeriod[u] <= PeriodStart(quotaPeriod[u], now)
                     /\ PeriodStart(quotaPeriod[u], now) <= now
                     /\ (PeriodStart(quotaPeriod[u], now) - accountPeriod[u]) % Period = 0
  <2> SUFFICES ASSUME NEW u \in due
               PROVE  /\ PeriodStart(quotaPeriod[u], now) \in Time
                      /\ accountPeriod[u] <= PeriodStart(quotaPeriod[u], now)
                      /\ PeriodStart(quotaPeriod[u], now) <= now
                      /\ (PeriodStart(quotaPeriod[u], now) - accountPeriod[u]) % Period = 0
    OBVIOUS
  <2>1. u \in User /\ u \in Issued
    BY <1>2
  <2>2. accountPeriod[u] \in Nat /\ now \in Nat /\ now <= MaxTime
    BY <2>1, Constants DEF Issued, WindowInv, WindowTypes, Moment, Time
  <2>3. /\ accountPeriod[u] <= quotaPeriod[u] /\ quotaPeriod[u] <= now
        /\ (quotaPeriod[u] - accountPeriod[u]) % Period = 0
    BY <2>1 DEF WindowInv, PeriodsAreConsecutive
  <2>4. quotaPeriod[u] \in Nat
    <3>1. quotaPeriod[u] \in Int
      BY <2>1, Constants DEF WindowInv, WindowTypes, Moment, Time, Never
    <3>2. QED
      BY <2>2, <2>3, <3>1
  <2>5. /\ PeriodStart(quotaPeriod[u], now) \in Nat
        /\ quotaPeriod[u] <= PeriodStart(quotaPeriod[u], now)
        /\ PeriodStart(quotaPeriod[u], now) <= now
        /\ (PeriodStart(quotaPeriod[u], now) - accountPeriod[u]) % Period = 0
    BY <2>2, <2>3, <2>4, PeriodStartFits
  <2>6. QED
    BY <2>2, <2>3, <2>4, <2>5, Constants DEF Time
<1>4. WindowTypes'
  <2>1. limit' \in Limits /\ accountPeriod' \in [User -> Moment] /\ lastActivity' \in [User -> Moment]
    BY <1>1 DEF WindowInv, WindowTypes
  <2>2. active' \in [User -> BOOLEAN] /\ {u \in User : active'[u]} \subseteq Issued'
    BY <1>1, <1>2 DEF WindowInv, WindowTypes
  <2>3. quotaPeriod' \in [User -> Moment]
    BY <1>1, <1>3 DEF WindowInv, WindowTypes, Moment
  <2>4. used' \in [User -> Nat]
    <3>1. \A u \in User : (IF u \in due THEN 0 ELSE used[u]) \in Nat
      BY DEF WindowInv, WindowTypes
    <3>2. QED
      BY <1>1, <3>1
  <2>5. blocked' \in [User -> BOOLEAN]
    BY <1>1 DEF WindowInv, WindowTypes
  <2>6. QED
    BY <2>1, <2>2, <2>3, <2>4, <2>5 DEF WindowTypes
<1>5. BlockedMatchesUsage'
  <2>1. ~(0 >= limit)
    BY Constants DEF WindowInv, WindowTypes
  <2>2. \A u \in due : ~blocked'[u] /\ ~(used'[u] >= limit')
    BY <1>1, <1>2, <2>1
  <2>3. \A u \in User \ due : (blocked'[u] <=> blocked[u]) /\ used'[u] = used[u]
    BY <1>1
  <2>4. QED
    BY <1>1, <1>2, <2>2, <2>3 DEF WindowInv, BlockedMatchesUsage
<1>6. PeriodsAreConsecutive'
  <2>1. \A u \in due : quotaPeriod'[u] = PeriodStart(quotaPeriod[u], now)
    BY <1>1, <1>2
  <2>2. \A u \in Issued \ due : quotaPeriod'[u] = quotaPeriod[u]
    BY <1>1, <1>2
  <2>3. \A u \in Issued \ due : /\ accountPeriod[u] <= quotaPeriod[u] /\ quotaPeriod[u] <= now
                                /\ (quotaPeriod[u] - accountPeriod[u]) % Period = 0
    BY DEF WindowInv, PeriodsAreConsecutive
  <2>4. QED
    BY <1>1, <1>2, <1>3, <2>1, <2>2, <2>3 DEF PeriodsAreConsecutive
<1>7. QED
  BY <1>4, <1>5, <1>6 DEF WindowInv

LEMMA IngestKeepsWindows ==
  ASSUME WindowInv, RunnerTypes, TimeInv, Ingests
  PROVE  WindowInv'
<1> DEFINE S == Sampled(batch)
           start(u) == PeriodStart(quotaPeriod[u], batch.at)
           usage(u) == batch.bytes[u] + (IF start(u) = quotaPeriod[u] THEN used[u] ELSE 0)
<1>1. /\ quotaPeriod' = [u \in User |-> IF u \in S THEN start(u) ELSE quotaPeriod[u]]
      /\ used' = [u \in User |-> IF u \in S THEN usage(u) ELSE used[u]]
      /\ blocked' = [u \in User |-> IF u \in S THEN usage(u) >= limit ELSE blocked[u]]
      /\ lastActivity' = [u \in User |-> IF u \in S THEN batch.at ELSE lastActivity[u]]
      /\ limit' = limit /\ active' = active /\ accountPeriod' = accountPeriod /\ now' = now
  BY DEF Ingests, Ingest
<1>2. Issued' = Issued /\ S \subseteq Issued /\ Issued \subseteq User
  <2>1. Issued' = Issued /\ Issued \subseteq User
    BY <1>1 DEF Issued
  <2>2. S \subseteq Issued
    BY SampledFits
  <2>3. QED
    BY <2>1, <2>2
<1>3. \A u \in S : /\ start(u) \in Time /\ usage(u) \in Nat /\ batch.at \in Time
                   /\ accountPeriod[u] <= start(u) /\ start(u) <= now
                   /\ (start(u) - accountPeriod[u]) % Period = 0
  <2> SUFFICES ASSUME NEW u \in S
               PROVE  /\ start(u) \in Time /\ usage(u) \in Nat /\ batch.at \in Time
                      /\ accountPeriod[u] <= start(u) /\ start(u) <= now
                      /\ (start(u) - accountPeriod[u]) % Period = 0
    OBVIOUS
  <2>1. /\ u \in User /\ u \in Issued
        /\ batch.at \in Nat /\ batch.at \in Time /\ batch.at <= now
        /\ batch.bytes \in [User -> Nat]
        /\ quotaPeriod[u] \in Nat /\ quotaPeriod[u] <= batch.at
        /\ accountPeriod[u] = quotaPeriod[u]
    BY SampledFits
  <2>2. (quotaPeriod[u] - accountPeriod[u]) % Period = 0
    BY <2>1 DEF WindowInv, PeriodsAreConsecutive
  <2>3. /\ start(u) \in Nat /\ quotaPeriod[u] <= start(u) /\ start(u) <= batch.at
        /\ (start(u) - accountPeriod[u]) % Period = 0
    BY <2>1, <2>2, PeriodStartFits
  <2>4. used[u] \in Nat /\ batch.bytes[u] \in Nat
    BY <2>1 DEF WindowInv, WindowTypes
  <2> HIDE DEF start
  <2>5. usage(u) \in Nat
    BY <2>4
  <2>6. now \in Nat /\ now <= MaxTime
    BY Constants DEF RunnerTypes, Time
  <2>7. start(u) \in Time /\ accountPeriod[u] <= start(u) /\ start(u) <= now
    BY <2>1, <2>3, <2>6, Constants DEF Time
  <2>8. QED
    BY <2>1, <2>3, <2>5, <2>7
<1> HIDE DEF S, start, usage
<1>4. WindowTypes'
  <2>1. limit' \in Limits /\ accountPeriod' \in [User -> Moment]
    BY <1>1 DEF WindowInv, WindowTypes
  <2>2. lastActivity' \in [User -> Moment] /\ quotaPeriod' \in [User -> Moment]
    BY <1>1, <1>3 DEF WindowInv, WindowTypes, Moment
  <2>3. active' \in [User -> BOOLEAN] /\ {u \in User : active'[u]} \subseteq Issued'
    BY <1>1, <1>2 DEF WindowInv, WindowTypes
  <2>4. used' \in [User -> Nat]
    BY <1>1, <1>3 DEF WindowInv, WindowTypes
  <2>5. blocked' \in [User -> BOOLEAN]
    <3>1. \A u \in User : (IF u \in S THEN usage(u) >= limit ELSE blocked[u]) \in BOOLEAN
      <4> SUFFICES ASSUME NEW u \in User
                   PROVE  (IF u \in S THEN usage(u) >= limit ELSE blocked[u]) \in BOOLEAN
        OBVIOUS
      <4>1. blocked[u] \in BOOLEAN
        BY DEF WindowInv, WindowTypes
      <4>2. (usage(u) >= limit) \in BOOLEAN
        BY SMT
      <4>3. QED
        BY <4>1, <4>2, Zenon
    <3>2. QED
      BY <1>1, <3>1, Zenon
  <2>6. QED
    BY <2>1, <2>2, <2>3, <2>4, <2>5 DEF WindowTypes
<1>5. BlockedMatchesUsage'
  <2>1. \A u \in S : (blocked'[u] <=> used'[u] >= limit') /\ u \in Issued'
    BY <1>1, <1>2
  <2>2. \A u \in User \ S : (blocked'[u] <=> blocked[u]) /\ used'[u] = used[u]
    BY <1>1
  <2>3. QED
    BY <1>1, <1>2, <2>1, <2>2 DEF WindowInv, BlockedMatchesUsage
<1>6. PeriodsAreConsecutive'
  <2>1. \A u \in S : quotaPeriod'[u] = start(u)
    BY <1>1, <1>2
  <2>2. \A u \in Issued \ S : /\ quotaPeriod'[u] = quotaPeriod[u]
                              /\ accountPeriod[u] <= quotaPeriod[u] /\ quotaPeriod[u] <= now
                              /\ (quotaPeriod[u] - accountPeriod[u]) % Period = 0
    BY <1>1, <1>2 DEF WindowInv, PeriodsAreConsecutive
  <2>3. QED
    BY <1>1, <1>2, <1>3, <2>1, <2>2 DEF PeriodsAreConsecutive
<1>7. QED
  BY <1>4, <1>5, <1>6 DEF WindowInv

LEMMA WindowStep ==
  ASSUME WindowInv, RunnerTypes, TimeInv, Next
  PROVE  WindowInv'
<1>1. now \in Time
  BY DEF RunnerTypes
<1>2. CASE \E u \in User : Issue(u)
  BY <1>1, <1>2, IssueKeepsWindows
<1>3. CASE \E u \in User : Revoke(u)
  <2>1. PICK u \in User : Revoke(u)
    BY <1>3
  <2>2. /\ active' = [active EXCEPT ![u] = FALSE] /\ now' = now
        /\ limit' = limit /\ accountPeriod' = accountPeriod /\ quotaPeriod' = quotaPeriod
        /\ lastActivity' = lastActivity /\ used' = used /\ blocked' = blocked
    BY <2>1 DEF Revoke, AdministrationOnly
  <2>3. WindowTypes'
    BY <2>2 DEF WindowInv, WindowTypes, Issued
  <2>4. BlockedMatchesUsage' /\ PeriodsAreConsecutive'
    BY <2>2 DEF WindowInv, BlockedMatchesUsage, PeriodsAreConsecutive, Issued
  <2>5. QED
    BY <2>3, <2>4 DEF WindowInv
<1>4. CASE \E newLimit \in Limits : AdjustLimit(newLimit)
  <2>1. PICK newLimit \in Limits : AdjustLimit(newLimit)
    BY <1>4
  <2>2. /\ limit' = newLimit /\ now' = now
        /\ blocked' = [u \in User |-> u \in Issued /\ used[u] >= newLimit]
        /\ active' = active /\ accountPeriod' = accountPeriod /\ quotaPeriod' = quotaPeriod
        /\ lastActivity' = lastActivity /\ used' = used
    BY <2>1 DEF AdjustLimit, AdministrationOnly
  <2>3. Issued' = Issued
    BY <2>2 DEF Issued
  <2>4. WindowTypes'
    BY <2>2, <2>3 DEF WindowInv, WindowTypes
  <2>5. BlockedMatchesUsage'
    BY <2>2, <2>3 DEF BlockedMatchesUsage
  <2>6. PeriodsAreConsecutive'
    BY <2>2, <2>3 DEF WindowInv, PeriodsAreConsecutive
  <2>7. QED
    BY <2>4, <2>5, <2>6 DEF WindowInv
<1>5. CASE AdvanceDueQuotaPeriods
  BY <1>1, <1>5, AdvanceKeepsWindows
<1>6. CASE Ingests
  BY <1>6, IngestKeepsWindows
<1>7. CASE UNCHANGED windowVars /\ now' \in {now, now + 1}
  <2>1. /\ limit' = limit /\ active' = active /\ accountPeriod' = accountPeriod
        /\ quotaPeriod' = quotaPeriod /\ lastActivity' = lastActivity
        /\ used' = used /\ blocked' = blocked
    BY <1>7 DEF windowVars
  <2>2. Issued' = Issued
    BY <2>1 DEF Issued
  <2>3. WindowTypes' /\ BlockedMatchesUsage'
    BY <2>1, <2>2 DEF WindowInv, WindowTypes, BlockedMatchesUsage
  <2>4. \A u \in Issued : quotaPeriod[u] <= now'
    <3> SUFFICES ASSUME NEW u \in Issued PROVE quotaPeriod[u] <= now'
      OBVIOUS
    <3>1. u \in User /\ quotaPeriod[u] <= now
      BY DEF WindowInv, PeriodsAreConsecutive, Issued
    <3>2. quotaPeriod[u] \in Int /\ now \in Int
      BY <1>1, <3>1, Constants DEF WindowInv, WindowTypes, Moment, Time, Never
    <3>3. QED
      BY <1>7, <3>1, <3>2
  <2>5. PeriodsAreConsecutive'
    BY <2>1, <2>2, <2>4 DEF WindowInv, PeriodsAreConsecutive
  <2>6. QED
    BY <2>3, <2>5 DEF WindowInv
<1>8. QED
  BY <1>2, <1>3, <1>4, <1>5, <1>6, <1>7, WindowCases
-----------------------------------------------------------------------------
(***************************************************************************)
(* The runner.                                                             *)
(***************************************************************************)
RunnerInv == RunnerTypes /\ TimeInv /\ FreshInv

LEMMA RunnerNumbers ==
  ASSUME RunnerTypes
  PROVE  /\ now \in Nat /\ stepTime \in Nat /\ MaxFaults \in Nat /\ faults \in Nat
         /\ \A b \in Batch : b.at \in Nat
BY Constants DEF RunnerTypes, Time, Batch

\* What nobody but the runner changes.
LEMMA OthersKeepRunner ==
  ASSUME RunnerInv, Tick \/ (\E u \in User : Relay(u)) \/ CoreRestarts \/ Administration
                         \/ AdvanceDueQuotaPeriods
  PROVE  RunnerInv'
<1>1. UNCHANGED <<ingested, spool, phase, stepTime, batch, faults>>
  BY DEF Tick, Relay, CoreRestarts, Administration, Issue, Revoke, AdjustLimit,
         AdvanceDueQuotaPeriods, AdministrationOnly, stepVars
<1>2. now' = now \/ (now < MaxTime /\ now' = now + 1)
  BY DEF Tick, Relay, CoreRestarts, Administration, Issue, Revoke, AdjustLimit,
         AdvanceDueQuotaPeriods, AdministrationOnly
<1>3. now' \in Time /\ stepTime <= now'
  BY <1>2, RunnerNumbers, Constants DEF RunnerInv, RunnerTypes, TimeInv, Time
<1>4. RunnerTypes'
  BY <1>1, <1>3 DEF RunnerInv, RunnerTypes
<1>5. TimeInv' /\ FreshInv'
  BY <1>1, <1>3 DEF RunnerInv, TimeInv, FreshInv
<1>6. QED
  BY <1>4, <1>5 DEF RunnerInv

LEMMA StartsKeepsRunner ==
  ASSUME RunnerInv, StepStarts
  PROVE  RunnerInv'
<1>1. /\ phase' = "load" /\ stepTime' = now /\ now' = now
      /\ ingested' = ingested /\ spool' = spool /\ batch' = batch /\ faults' = faults
  BY DEF StepStarts
<1>2. RunnerTypes'
  BY <1>1 DEF RunnerInv, RunnerTypes, Phase
<1>3. stepTime \in Int /\ now \in Int /\ stepTime <= now
  BY RunnerNumbers DEF RunnerInv, TimeInv
<1>4. TimeInv'
  <2>1. spool # NoBatch => spool.at <= now
    BY <1>3, RunnerNumbers DEF RunnerInv, RunnerTypes, TimeInv
  <2>2. batch # NoBatch => batch.at <= now
    BY <1>3, RunnerNumbers DEF RunnerInv, RunnerTypes, TimeInv
  <2>3. \A b \in ingested : b.at <= now
    BY <1>3, RunnerNumbers DEF RunnerInv, RunnerTypes, TimeInv
  <2>4. now <= now
    BY <1>3
  <2>5. QED
    BY <1>1, <2>1, <2>2, <2>3, <2>4 DEF TimeInv
<1>5. FreshInv'
  <2>1. spool = NoBatch => \A b \in ingested : b.at < now
    <3> SUFFICES ASSUME spool = NoBatch, NEW b \in ingested PROVE b.at < now
      OBVIOUS
    <3>1. b.at \in Int /\ b.at <= stepTime
      BY RunnerNumbers DEF RunnerInv, RunnerTypes, TimeInv
    <3>2. now > stepTime
      BY DEF StepStarts
    <3>3. QED
      BY <1>3, <3>1, <3>2
  <2>2. QED
    BY <1>1, <2>1 DEF FreshInv
<1>6. QED
  BY <1>2, <1>4, <1>5 DEF RunnerInv

LEMMA CollectKeepsRunner ==
  ASSUME RunnerInv, BytesTypes,
         LoadFails \/ Load \/ Collect \/ CollectNothing \/ CollectFails
  PROVE  RunnerInv'
<1>1. now' = now /\ stepTime' = stepTime /\ ingested' = ingested /\ spool' = spool
  BY DEF LoadFails, Load, Collect, CollectNothing, CollectFails, StepOnly
<1>2. faults' \in 0 .. MaxFaults
  <2>1. faults' = faults \/ (faults < MaxFaults /\ faults' = faults + 1)
    BY DEF LoadFails, Load, Collect, CollectNothing, CollectFails, Fault
  <2>2. QED
    BY <2>1, RunnerNumbers DEF RunnerInv, RunnerTypes
<1>3. CASE LoadFails \/ CollectNothing \/ CollectFails
  <2>1. batch' = batch
    BY <1>3 DEF LoadFails, CollectNothing, CollectFails
  <2>2. phase' = "failed" \/ (phase = "collect" /\ phase' = "succeeded")
    BY <1>3 DEF LoadFails, CollectNothing, CollectFails
  <2>3. RunnerTypes'
    BY <1>1, <1>2, <2>1, <2>2 DEF RunnerInv, RunnerTypes, Phase
  <2>4. TimeInv' /\ FreshInv'
    BY <1>1, <2>1, <2>2 DEF RunnerInv, RunnerTypes, TimeInv, FreshInv
  <2>5. QED
    BY <2>3, <2>4 DEF RunnerInv
<1>4. CASE Load
  <2>1. /\ phase = "load" /\ phase' = IF spool = NoBatch THEN "collect" ELSE "record"
        /\ batch' = spool
    BY <1>4 DEF Load
  <2>2. RunnerTypes'
    BY <1>1, <1>2, <2>1 DEF RunnerInv, RunnerTypes, Phase
  <2>3. TimeInv' /\ FreshInv'
    BY <1>1, <2>1 DEF RunnerInv, RunnerTypes, TimeInv, FreshInv
  <2>4. QED
    BY <2>2, <2>3 DEF RunnerInv
<1>5. CASE Collect
  <2>1. /\ phase = "collect" /\ phase' = "save" /\ batch' = [at |-> stepTime, bytes |-> counter]
    BY <1>5 DEF Collect
  <2>2. batch' \in Batch /\ batch'.at = stepTime
    BY <2>1 DEF RunnerInv, RunnerTypes, BytesTypes, Batch
  <2>3. batch' # NoBatch /\ batch'.at <= stepTime
    BY <2>2, RunnerNumbers DEF RunnerInv, NoBatch, Never
  <2>4. RunnerTypes'
    BY <1>1, <1>2, <2>1, <2>2 DEF RunnerInv, RunnerTypes, Phase
  <2>5. TimeInv' /\ FreshInv'
    BY <1>1, <2>1, <2>2, <2>3 DEF RunnerInv, RunnerTypes, TimeInv, FreshInv
  <2>6. QED
    BY <2>4, <2>5 DEF RunnerInv
<1>6. QED
  BY <1>3, <1>4, <1>5

LEMMA SaveKeepsRunner ==
  ASSUME RunnerInv, Save \/ SaveFails \/ Delete \/ DeleteFails \/ Crash
  PROVE  RunnerInv'
<1>1. now' = now /\ stepTime' = stepTime /\ ingested' = ingested
  BY DEF Save, SaveFails, Delete, DeleteFails, Crash, StepOnly
<1>2. faults' \in 0 .. MaxFaults
  <2>1. faults' = faults \/ (faults < MaxFaults /\ faults' = faults + 1)
    BY DEF Save, SaveFails, Delete, DeleteFails, Crash, Fault
  <2>2. QED
    BY <2>1, RunnerNumbers DEF RunnerInv, RunnerTypes
<1>3. CASE Save
  <2>1. phase = "save" /\ phase' = "record" /\ spool' = batch /\ batch' = batch
    BY <1>3 DEF Save
  <2>2. RunnerTypes'
    BY <1>1, <1>2, <2>1 DEF RunnerInv, RunnerTypes, FreshInv, Phase
  <2>3. TimeInv' /\ FreshInv'
    BY <1>1, <2>1 DEF RunnerInv, RunnerTypes, TimeInv, FreshInv
  <2>4. QED
    BY <2>2, <2>3 DEF RunnerInv
<1>4. CASE SaveFails \/ DeleteFails \/ Crash
  <2>1. /\ spool' \in {spool, batch, NoBatch} /\ batch' = NoBatch
        /\ phase' \in {"failed", "idle"}
    BY <1>4 DEF SaveFails, DeleteFails, Crash
  <2>2. RunnerTypes'
    BY <1>1, <1>2, <2>1 DEF RunnerInv, RunnerTypes, Phase
  <2>3. TimeInv' /\ FreshInv'
    BY <1>1, <2>1 DEF RunnerInv, RunnerTypes, TimeInv, FreshInv
  <2>4. QED
    BY <2>2, <2>3 DEF RunnerInv
<1>5. CASE Delete
  <2>1. spool' = NoBatch /\ batch' = NoBatch /\ phase' = "succeeded"
    BY <1>5 DEF Delete
  <2>2. RunnerTypes'
    BY <1>1, <1>2, <2>1 DEF RunnerInv, RunnerTypes, Phase
  <2>3. TimeInv' /\ FreshInv'
    BY <1>1, <2>1 DEF RunnerInv, RunnerTypes, TimeInv, FreshInv
  <2>4. QED
    BY <2>2, <2>3 DEF RunnerInv
<1>6. QED
  BY <1>3, <1>4, <1>5

LEMMA RecordKeepsRunner ==
  ASSUME RunnerInv, Record \/ RecordRefuses \/ RecordFails
  PROVE  RunnerInv'
<1>1. now' = now /\ stepTime' = stepTime /\ spool' = spool /\ batch' = batch
  BY DEF Record, RecordRefuses, RecordFails, RecordOnly
<1>2. faults' \in 0 .. MaxFaults
  <2>1. faults' = faults \/ (faults < MaxFaults /\ faults' = faults + 1)
    BY DEF Record, RecordRefuses, RecordFails, Fault
  <2>2. QED
    BY <2>1, RunnerNumbers DEF RunnerInv, RunnerTypes
<1>3. /\ phase = "record" /\ spool = batch /\ batch \in Batch /\ batch # NoBatch
  BY DEF Record, RecordRefuses, RecordFails, RunnerInv, RunnerTypes
<1>4. ingested' = ingested \/ ingested' = ingested \union {batch}
  BY DEF Record, RecordRefuses, RecordFails, IngestOnce, Ingest
<1>5. phase' = "failed" \/ (phase' = "delete" /\ (batch \in ingested' \/ batch.bytes = Nothing))
  BY DEF Record, RecordRefuses, RecordFails, IngestOnce, Ingest
<1>6. RunnerTypes'
  BY <1>1, <1>2, <1>3, <1>4, <1>5 DEF RunnerInv, RunnerTypes, Phase
<1>7. TimeInv' /\ FreshInv'
  BY <1>1, <1>3, <1>4, <1>5 DEF RunnerInv, TimeInv, FreshInv, Nothing
<1>8. QED
  BY <1>6, <1>7 DEF RunnerInv

LEMMA ObserveKeepsRunner ==
  ASSUME RunnerInv, ObserveFailure \/ ObserveRecovery \/ ObserveFails
  PROVE  RunnerInv'
<1>1. /\ now' = now /\ stepTime' = stepTime /\ spool' = spool /\ ingested' = ingested
      /\ phase' = "idle" /\ batch' = NoBatch
  BY DEF ObserveFailure, ObserveRecovery, ObserveFails, ObserveOnly
<1>2. faults' \in 0 .. MaxFaults
  <2>1. faults' = faults \/ (faults < MaxFaults /\ faults' = faults + 1)
    BY DEF ObserveFailure, ObserveRecovery, ObserveFails, Fault
  <2>2. QED
    BY <2>1, RunnerNumbers DEF RunnerInv, RunnerTypes
<1>3. RunnerTypes'
  BY <1>1, <1>2 DEF RunnerInv, RunnerTypes, Phase
<1>4. TimeInv' /\ FreshInv'
  BY <1>1 DEF RunnerInv, TimeInv, FreshInv
<1>5. QED
  BY <1>3, <1>4 DEF RunnerInv

LEMMA RunnerStep ==
  ASSUME RunnerInv, BytesTypes, Next
  PROVE  RunnerInv'
BY OthersKeepRunner, StartsKeepsRunner, CollectKeepsRunner, SaveKeepsRunner, RecordKeepsRunner,
   ObserveKeepsRunner DEF Next, RunnerProgress, RunnerFault
-----------------------------------------------------------------------------
(***************************************************************************)
(* traffic_health.                                                         *)
(***************************************************************************)
LEMMA HealthCases ==
  ASSUME Next
  PROVE  \/ ObserveFailure
         \/ ObserveRecovery
         \/ UNCHANGED healthVars /\ stepTime' \in {stepTime, now}
<1>1. CASE Tick \/ (\E u \in User : Relay(u)) \/ CoreRestarts \/ Administration
           \/ AdvanceDueQuotaPeriods
  BY <1>1 DEF Tick, Relay, CoreRestarts, Administration, Issue, Revoke, AdjustLimit,
              AdvanceDueQuotaPeriods, AdministrationOnly, stepVars
<1>2. CASE StepStarts
  BY <1>2 DEF StepStarts
<1>3. CASE Load \/ Collect \/ CollectNothing \/ Save \/ Record \/ RecordRefuses \/ Delete
  BY <1>3 DEF Load, Collect, CollectNothing, Save, Record, RecordRefuses, Delete, StepOnly, RecordOnly
<1>4. CASE RunnerFault
  BY <1>4 DEF RunnerFault, LoadFails, CollectFails, SaveFails, RecordFails, DeleteFails, ObserveFails,
              Crash, StepOnly, RecordOnly, ObserveOnly
<1>5. QED
  BY <1>1, <1>2, <1>3, <1>4 DEF Next, RunnerProgress

LEMMA HealthStep ==
  ASSUME RunnerTypes, TimeInv, HealthTypes, HealthInv, Next
  PROVE  HealthTypes' /\ HealthInv'
<1>1. /\ stepTime \in Nat /\ now \in Nat /\ stepTime <= now /\ FailAfter \in Nat
      /\ failureStarted \in Int /\ failingSince \in Int
  BY RunnerNumbers, Constants DEF TimeInv, HealthTypes, Moment, Time, Never
<1>2. CASE ObserveFailure
  <2> DEFINE first == First(failureStarted)
  <2>1. /\ failureStarted' = first /\ failingSince' = first /\ stepTime' = stepTime
        /\ failClosed' = (failClosed \/ first + FailAfter <= stepTime)
    BY <1>2 DEF ObserveFailure, ObserveOnly, HealthInv
  <2>2. first \in Time /\ first <= stepTime
    BY <1>1 DEF First, HealthTypes, HealthInv, RunnerTypes, Moment
  <2>3. first \in Nat /\ first # Never
    BY <2>2, Constants DEF Time, Never
  <2>4. failClosed => first + FailAfter <= stepTime
    BY DEF HealthInv, First
  <2> HIDE DEF first
  <2>5. failClosed' \in BOOLEAN
    <3>1. failClosed \in BOOLEAN
      BY DEF HealthTypes
    <3>2. QED
      BY <2>1, <3>1, Zenon
  <2>6. HealthTypes'
    BY <2>1, <2>2, <2>5 DEF HealthTypes, Moment
  <2>7. failClosed' => first + FailAfter <= stepTime
    BY <2>1, <2>4
  <2>8. HealthInv'
    BY <2>1, <2>2, <2>3, <2>7 DEF HealthInv
  <2>9. QED
    BY <2>6, <2>8
<1>3. CASE ObserveRecovery
  BY <1>3 DEF ObserveRecovery, HealthTypes, HealthInv, Moment
<1>4. CASE UNCHANGED healthVars /\ stepTime' \in {stepTime, now}
  <2>1. /\ failureStarted' = failureStarted /\ failClosed' = failClosed
        /\ failingSince' = failingSince
    BY <1>4 DEF healthVars
  <2>2. stepTime' \in Nat /\ stepTime <= stepTime'
    BY <1>1, <1>4
  <2>3. failingSince # Never => failingSince <= stepTime'
    BY <1>1, <2>2 DEF HealthInv
  <2>4. failClosed => failingSince + FailAfter <= stepTime'
    BY <1>1, <2>2 DEF HealthInv
  <2>5. HealthTypes'
    BY <2>1 DEF HealthTypes
  <2>6. HealthInv'
    BY <2>1, <2>3, <2>4 DEF HealthInv
  <2>7. QED
    BY <2>5, <2>6
<1>5. QED
  BY <1>2, <1>3, <1>4, HealthCases
-----------------------------------------------------------------------------
(***************************************************************************)
(* The bytes.                                                              *)
(***************************************************************************)
BytesInv == BytesTypes /\ Conserved

\* What is in flight is a number of bytes of the batch or the spool.
LEMMA InFlightIsNat ==
  ASSUME RunnerInv, NEW u \in User
  PROVE  InFlight(u) \in Nat
<1>1. batch.bytes[u] \in Nat /\ spool.bytes[u] \in Nat
  <2>1. NoBatch.bytes[u] \in Nat /\ \A b \in Batch : b.bytes[u] \in Nat
    BY DEF NoBatch, Batch
  <2>2. QED
    BY <2>1 DEF RunnerInv, RunnerTypes
<1>2. QED
  BY <1>1 DEF InFlight

LEMMA NothingInFlight ==
  ASSUME NEW u \in User
  PROVE  NoBatch.bytes[u] = 0 /\ Nothing[u] = 0
BY DEF NoBatch, Nothing

\* Traffic arrives at the core, or a core that restarts gives up its counters.
LEMMA CoreKeepsBytes ==
  ASSUME BytesInv, RunnerInv, (\E u \in User : Relay(u)) \/ CoreRestarts
  PROVE  BytesInv'
<1>1. \A u \in User : InFlight(u)' = InFlight(u) /\ InFlight(u) \in Nat
  BY InFlightIsNat DEF Relay, CoreRestarts, InFlight, stepVars
<1>2. \A u \in User : /\ carried[u] = counter[u] + InFlight(u) + accounted[u] + lost[u]
                      /\ carried[u] \in Nat /\ counter[u] \in Nat
                      /\ accounted[u] \in Nat /\ lost[u] \in Nat
  BY DEF BytesInv, BytesTypes, Conserved
<1>3. CASE \E u \in User : Relay(u)
  <2>1. PICK u \in User : Relay(u)
    BY <1>3
  <2>2. /\ carried' = [carried EXCEPT ![u] = @ + 1] /\ counter' = [counter EXCEPT ![u] = @ + 1]
        /\ accounted' = accounted /\ lost' = lost
    BY <2>1 DEF Relay
  <2>3. /\ carried'[u] = carried[u] + 1 /\ counter'[u] = counter[u] + 1
        /\ \A v \in User \ {u} : carried'[v] = carried[v] /\ counter'[v] = counter[v]
    BY <2>2 DEF BytesInv, BytesTypes
  <2>4. BytesTypes'
    BY <1>2, <2>2 DEF BytesInv, BytesTypes
  <2>5. carried'[u] = counter'[u] + InFlight(u) + accounted[u] + lost[u]
    BY <1>1, <1>2, <2>3
  <2>6. Conserved'
    BY <1>1, <1>2, <2>2, <2>3, <2>5 DEF Conserved
  <2>7. QED
    BY <2>4, <2>6 DEF BytesInv
<1>4. CASE CoreRestarts
  <2>1. /\ counter' = Nothing /\ lost' = [u \in User |-> lost[u] + counter[u]]
        /\ carried' = carried /\ accounted' = accounted
    BY <1>4 DEF CoreRestarts, Lose, Plus
  <2>2. \A u \in User : counter'[u] = 0 /\ lost'[u] = lost[u] + counter[u]
    BY <2>1, NothingInFlight
  <2>3. BytesTypes'
    BY <1>2, <2>1 DEF BytesInv, BytesTypes, Nothing
  <2>4. \A u \in User : carried[u] = 0 + InFlight(u) + accounted[u] + (lost[u] + counter[u])
    BY <1>1, <1>2
  <2>5. Conserved'
    BY <1>1, <2>1, <2>2, <2>4 DEF Conserved
  <2>6. QED
    BY <2>3, <2>5 DEF BytesInv
<1>5. QED
  BY <1>3, <1>4

\* Nothing was sent, and no byte changed the side of the balance.
LEMMA Balance ==
  ASSUME BytesInv, carried' = carried,
         counter' \in [User -> Nat], accounted' \in [User -> Nat], lost' \in [User -> Nat],
         \A u \in User : counter'[u] + InFlight(u)' + accounted'[u] + lost'[u]
                           = counter[u] + InFlight(u) + accounted[u] + lost[u]
  PROVE  BytesInv'
BY DEF BytesInv, BytesTypes, Conserved

\* Nothing moved at all.
LEMMA QuietKeepsBytes ==
  ASSUME BytesInv, UNCHANGED <<bytesVars, counter>>, \A u \in User : InFlight(u)' = InFlight(u)
  PROVE  BytesInv'
BY DEF BytesInv, BytesTypes, Conserved, bytesVars

\* The steps that neither read nor write a byte.
LEMMA CalmKeepsBytes ==
  ASSUME BytesInv, RunnerInv,
         \/ Tick \/ Administration \/ AdvanceDueQuotaPeriods
         \/ StepStarts \/ Load \/ LoadFails \/ CollectNothing \/ RecordRefuses
         \/ ObserveFailure \/ ObserveRecovery \/ ObserveFails
  PROVE  BytesInv'
<1>1. UNCHANGED <<bytesVars, counter, spool, ingested>>
  BY DEF Tick, Administration, Issue, Revoke, AdjustLimit, AdvanceDueQuotaPeriods,
         AdministrationOnly, StepStarts, Load, LoadFails, CollectNothing, RecordRefuses,
         ObserveFailure, ObserveRecovery, ObserveFails, ObserveOnly, StepOnly, RecordOnly, bytesVars
<1>2. \/ phase' = phase /\ batch' = batch
      \/ phase # "save" /\ phase' # "save"
  BY DEF Tick, Administration, Issue, Revoke, AdjustLimit, AdvanceDueQuotaPeriods,
         AdministrationOnly, StepStarts, Load, LoadFails, CollectNothing, RecordRefuses,
         ObserveFailure, ObserveRecovery, ObserveFails, ObserveOnly, stepVars
<1>3. \A u \in User : InFlight(u)' = InFlight(u)
  BY <1>1, <1>2 DEF InFlight
<1>4. QED
  BY <1>1, <1>3, QuietKeepsBytes

\* Counters are reset into the batch, or lost with the reply.
LEMMA CollectKeepsBytes ==
  ASSUME BytesInv, RunnerInv, Collect \/ CollectFails
  PROVE  BytesInv'
<1>1. /\ carried' = carried /\ accounted' = accounted /\ ingested' = ingested /\ spool' = spool
      /\ phase = "collect" /\ spool = NoBatch
  BY DEF Collect, CollectFails, StepOnly, RunnerInv, RunnerTypes
<1>2. /\ Nothing \in [User -> Nat] /\ counter \in [User -> Nat] /\ accounted \in [User -> Nat]
      /\ lost \in [User -> Nat]
  BY DEF Nothing, BytesInv, BytesTypes
<1>3. \A u \in User : InFlight(u) = 0
  BY <1>1 DEF InFlight
<1>4. CASE Collect
  <2>1. counter' = Nothing /\ lost' = lost /\ phase' = "save" /\ batch'.bytes = counter
    BY <1>4 DEF Collect
  <2>2. \A u \in User : InFlight(u)' = counter[u] /\ counter'[u] = 0
    BY <2>1, NothingInFlight DEF InFlight
  <2>3. \A u \in User : 0 + counter[u] + accounted[u] + lost[u] = counter[u] + 0 + accounted[u] + lost[u]
    BY <1>2
  <2>4. QED
    BY <1>1, <1>2, <1>3, <2>1, <2>2, <2>3, Balance
<1>5. CASE CollectFails
  <2>1. /\ phase' = "failed"
        /\ \/ counter' = counter /\ lost' = lost
           \/ counter' = Nothing /\ lost' = [u \in User |-> lost[u] + counter[u]]
    BY <1>5 DEF CollectFails, Lose, Plus
  <2>2. \A u \in User : InFlight(u)' = 0
    BY <1>1, <2>1 DEF InFlight
  <2>3. counter' \in [User -> Nat] /\ lost' \in [User -> Nat]
    BY <1>2, <2>1
  <2>4. \A u \in User : counter'[u] + lost'[u] = counter[u] + lost[u]
    <3>1. \A u \in User : 0 + (lost[u] + counter[u]) = counter[u] + lost[u]
      BY <1>2
    <3>2. QED
      BY <2>1, <3>1, NothingInFlight
  <2>5. \A u \in User : counter'[u] + 0 + accounted[u] + lost'[u]
                          = counter[u] + 0 + accounted[u] + lost[u]
    BY <1>2, <2>3, <2>4
  <2>6. QED
    BY <1>1, <1>2, <1>3, <2>2, <2>3, <2>5, Balance
<1>6. QED
  BY <1>4, <1>5

\* A batch that has just been made is in no database yet.
LEMMA SaveKeepsBytes ==
  ASSUME BytesInv, RunnerInv, Save \/ SaveFails \/ Crash
  PROVE  BytesInv'
<1>1. carried' = carried /\ accounted' = accounted /\ ingested' = ingested /\ counter' = counter
  BY DEF Save, SaveFails, Crash, StepOnly
<1>2. counter \in [User -> Nat] /\ accounted \in [User -> Nat] /\ lost \in [User -> Nat]
  BY DEF BytesInv, BytesTypes
<1>3. ASSUME phase = "save"
      PROVE  /\ batch \in Batch /\ batch # NoBatch /\ batch \notin ingested /\ spool = NoBatch
             /\ batch.bytes \in [User -> Nat]
  <2>1. batch # NoBatch /\ batch.at = stepTime /\ spool = NoBatch /\ \A b \in ingested : b.at < stepTime
    BY <1>3 DEF RunnerInv, RunnerTypes, FreshInv
  <2>2. batch \in Batch
    BY <2>1 DEF RunnerInv, RunnerTypes
  <2>3. ~(stepTime < stepTime)
    BY RunnerNumbers DEF RunnerInv
  <2>4. batch \notin ingested
    BY <2>1, <2>3
  <2>5. QED
    BY <2>1, <2>2, <2>4 DEF Batch
<1>4. CASE phase = "save" /\ spool' = batch /\ phase' # "save" /\ lost' = lost
  <2>1. \A u \in User : InFlight(u)' = batch.bytes[u] /\ InFlight(u) = batch.bytes[u]
    BY <1>1, <1>3, <1>4 DEF InFlight
  <2>2. QED
    BY <1>1, <1>4, <2>1, QuietKeepsBytes DEF bytesVars
<1>5. CASE /\ phase = "save" /\ spool' = spool /\ phase' # "save"
           /\ lost' = [u \in User |-> lost[u] + batch.bytes[u]]
  <2>1. \A u \in User : InFlight(u)' = 0 /\ InFlight(u) = batch.bytes[u]
    BY <1>3, <1>5 DEF InFlight
  <2>2. lost' \in [User -> Nat] /\ \A u \in User : lost'[u] = lost[u] + batch.bytes[u]
    BY <1>2, <1>3, <1>5
  <2>3. \A u \in User : counter[u] + 0 + accounted[u] + (lost[u] + batch.bytes[u])
                          = counter[u] + batch.bytes[u] + accounted[u] + lost[u]
    BY <1>2, <1>3, <1>5
  <2>4. QED
    BY <1>1, <1>2, <2>1, <2>2, <2>3, Balance
<1>6. CASE phase # "save" /\ spool' = spool /\ phase' # "save" /\ lost' = lost
  <2>1. \A u \in User : InFlight(u)' = InFlight(u)
    BY <1>1, <1>6 DEF InFlight
  <2>2. QED
    BY <1>1, <1>6, <2>1, QuietKeepsBytes DEF bytesVars
<1>7. QED
  BY <1>4, <1>5, <1>6 DEF Save, SaveFails, Crash, Lose, Plus

\* Only a batch the database has is deleted from the spool.
LEMMA DeleteKeepsBytes ==
  ASSUME BytesInv, RunnerInv, Delete \/ DeleteFails
  PROVE  BytesInv'
<1>1. /\ phase = "delete" /\ phase' # "save" /\ spool' \in {spool, NoBatch}
      /\ carried' = carried /\ accounted' = accounted /\ lost' = lost
      /\ ingested' = ingested /\ counter' = counter
  BY DEF Delete, DeleteFails, StepOnly
<1>2. spool = batch /\ (batch \in ingested \/ batch.bytes = Nothing)
  BY <1>1 DEF RunnerInv, RunnerTypes, FreshInv
<1>3. \A u \in User : InFlight(u) = 0
  BY <1>1, <1>2, NothingInFlight DEF InFlight
<1>4. \A u \in User : InFlight(u)' = InFlight(u)
  <2>1. CASE spool' = spool
    BY <1>1, <2>1 DEF InFlight
  <2>2. CASE spool' = NoBatch
    BY <1>1, <1>3, <2>2 DEF InFlight
  <2>3. QED
    BY <1>1, <2>1, <2>2
<1>5. QED
  BY <1>1, <1>4, QuietKeepsBytes DEF bytesVars

\* Recording moves a batch to the quota, and what nobody accounts for is lost.
LEMMA RecordKeepsBytes ==
  ASSUME BytesInv, RunnerInv, Record \/ RecordFails
  PROVE  BytesInv'
<1>1. /\ phase = "record" /\ phase' # "save"
      /\ carried' = carried /\ counter' = counter /\ spool' = spool
      /\ spool = batch /\ batch # NoBatch /\ batch \in Batch
  BY DEF Record, RecordFails, RecordOnly, RunnerInv, RunnerTypes
<1>2. CASE UNCHANGED <<ingested, accounted, lost>>
  <2>1. \A u \in User : InFlight(u)' = InFlight(u)
    BY <1>1, <1>2 DEF InFlight
  <2>2. QED
    BY <1>1, <1>2, <2>1, QuietKeepsBytes DEF bytesVars
<1>3. CASE batch \notin ingested /\ Ingest(batch)
  <2> DEFINE S == Sampled(batch)
  <2>1. /\ ingested' = ingested \union {batch}
        /\ accounted' = [u \in User |-> IF u \in S THEN accounted[u] + batch.bytes[u]
                                                   ELSE accounted[u]]
        /\ lost' = [u \in User |-> lost[u] + [v \in User |-> IF v \in S THEN 0
                                                                   ELSE batch.bytes[v]][u]]
    BY <1>3 DEF Ingest, Lose, Plus
  <2> HIDE DEF S
  <2>2. \A u \in User : InFlight(u)' = 0 /\ InFlight(u) = batch.bytes[u]
    BY <1>1, <1>3, <2>1 DEF InFlight
  <2>3. /\ counter \in [User -> Nat] /\ accounted \in [User -> Nat] /\ lost \in [User -> Nat]
        /\ batch.bytes \in [User -> Nat]
    BY <1>1 DEF BytesInv, BytesTypes, Batch
  <2>4. \A u \in User : lost'[u] = lost[u] + (IF u \in S THEN 0 ELSE batch.bytes[u])
    BY <2>1
  <2>5. accounted' \in [User -> Nat]
    BY <2>1, <2>3
  <2>6. lost' \in [User -> Nat]
    BY <2>1, <2>3
  <2>7. \A u \in User : accounted'[u] + lost'[u] = batch.bytes[u] + accounted[u] + lost[u]
    BY <2>1, <2>3, <2>4
  <2>8. \A u \in User : counter[u] + 0 + accounted'[u] + lost'[u]
                          = counter[u] + batch.bytes[u] + accounted[u] + lost[u]
    <3> SUFFICES ASSUME NEW u \in User
                 PROVE  counter[u] + 0 + accounted'[u] + lost'[u]
                          = counter[u] + batch.bytes[u] + accounted[u] + lost[u]
      OBVIOUS
    <3>1. /\ counter[u] \in Nat /\ accounted[u] \in Nat /\ lost[u] \in Nat
          /\ batch.bytes[u] \in Nat
      BY <2>3
    <3>2. accounted'[u] \in Nat /\ lost'[u] \in Nat
      BY <2>5, <2>6
    <3>3. QED
      BY <2>7, <3>1, <3>2
  <2>9. QED
    BY <1>1, <2>2, <2>3, <2>5, <2>6, <2>8, Balance
<1>4. QED
  BY <1>2, <1>3 DEF Record, RecordFails, IngestOnce

LEMMA BytesStep ==
  ASSUME BytesInv, RunnerInv, Next
  PROVE  BytesInv'
BY CoreKeepsBytes, CalmKeepsBytes, CollectKeepsBytes, SaveKeepsBytes, DeleteKeepsBytes,
   RecordKeepsBytes DEF Next, RunnerProgress, RunnerFault
-----------------------------------------------------------------------------
(***************************************************************************)
(* The invariant.                                                          *)
(***************************************************************************)
LEMMA InitIInv == Init => IInv
<1> SUFFICES ASSUME Init PROVE IInv
  OBVIOUS
<1>1. 0 \in Time /\ 0 \in Nat /\ Never \in Moment /\ 0 \in 0 .. MaxFaults /\ 0 # Never
  BY Constants DEF Time, Moment, Never
<1>2. Issued = {}
  BY DEF Init, Issued
<1>3. WindowTypes
  BY <1>1, <1>2 DEF Init, WindowTypes, Nothing
<1>4. RunnerTypes /\ BytesTypes
  BY <1>1 DEF Init, RunnerTypes, BytesTypes, Nothing, Phase
<1>5. HealthTypes /\ HealthInv
  BY <1>1 DEF Init, HealthTypes, HealthInv
<1>6. TimeInv /\ FreshInv
  BY DEF Init, TimeInv, FreshInv
<1>7. BlockedMatchesUsage /\ PeriodsAreConsecutive
  BY <1>2 DEF Init, BlockedMatchesUsage, PeriodsAreConsecutive
<1>8. Conserved
  BY NothingInFlight DEF Init, Conserved, InFlight
<1>9. QED
  BY <1>3, <1>4, <1>5, <1>6, <1>7, <1>8 DEF IInv

LEMMA StepIInv == IInv /\ [Next]_vars => IInv'
<1> SUFFICES ASSUME IInv, [Next]_vars PROVE IInv'
  OBVIOUS
<1>1. CASE Next
  <2>1. WindowInv /\ RunnerInv /\ BytesInv
    BY DEF IInv, WindowInv, RunnerInv, BytesInv
  <2>2. WindowInv' /\ RunnerInv' /\ BytesInv' /\ HealthTypes' /\ HealthInv'
    BY <1>1, <2>1, WindowStep, RunnerStep, BytesStep, HealthStep
       DEF IInv, RunnerInv, BytesInv
  <2>3. QED
    BY <2>2 DEF IInv, WindowInv, RunnerInv, BytesInv
<1>2. CASE UNCHANGED vars
  <2>1. WindowTypes' /\ RunnerTypes' /\ BytesTypes' /\ HealthTypes'
    BY <1>2 DEF IInv, vars, windowVars, healthVars, bytesVars, stepVars,
                WindowTypes, RunnerTypes, BytesTypes, HealthTypes, Issued
  <2>2. TimeInv' /\ FreshInv' /\ HealthInv'
    BY <1>2 DEF IInv, vars, healthVars, stepVars, TimeInv, FreshInv, HealthInv
  <2>3. BlockedMatchesUsage' /\ PeriodsAreConsecutive' /\ Conserved'
    BY <1>2 DEF IInv, vars, windowVars, bytesVars, stepVars, BlockedMatchesUsage,
                PeriodsAreConsecutive, Conserved, InFlight, Issued
  <2>4. QED
    BY <2>1, <2>2, <2>3 DEF IInv
<1>3. QED
  BY <1>1, <1>2

LEMMA Invariance == Spec => []IInv
<1>1. QED
  BY InitIInv, StepIInv, PTL DEF Spec

\* Every step of the runner, the administration and the sweep keeps the types.
THEOREM TypeCorrect == Spec => []TypeOK
<1>1. IInv => TypeOK
  BY TypesTogether DEF IInv
<1>2. QED
  BY Invariance, <1>1, PTL

\* Every byte is counted once or given up at a named place, through replays,
\* lost replies and crashes of Runner.Step.
THEOREM AlwaysConserved == Spec => []Conserved
<1>1. IInv => Conserved
  BY DEF IInv
<1>2. QED
  BY Invariance, <1>1, PTL

\* The stored blocked flag is what the stored usage says, whatever order
\* recordBatch, the sweep and the administration write the window in.
THEOREM BlockedAlwaysMatches == Spec => []BlockedMatchesUsage
<1>1. IInv => BlockedMatchesUsage
  BY DEF IInv
<1>2. QED
  BY Invariance, <1>1, PTL

\* The sweep and recordBatch, which advance the period of a window each on its
\* own, never leave a gap between two periods.
THEOREM PeriodsAlwaysConsecutive == Spec => []PeriodsAreConsecutive
<1>1. IInv => PeriodsAreConsecutive
  BY DEF IInv
<1>2. QED
  BY Invariance, <1>1, PTL

\* traffic_health fails closed only when the failure has lasted long enough.
THEOREM FailClosedAlwaysEarned == Spec => []FailClosedIsEarned
<1>1. IInv => FailClosedIsEarned
  <2> SUFFICES ASSUME IInv, failClosed
               PROVE  failingSince # Never /\ failingSince + FailAfter <= now
    BY DEF FailClosedIsEarned
  <2>1. failingSince # Never /\ failingSince + FailAfter <= stepTime /\ stepTime <= now
    BY DEF IInv, HealthInv, TimeInv
  <2>2. failingSince \in Int /\ FailAfter \in Int /\ stepTime \in Int /\ now \in Int
    BY RunnerNumbers, Constants DEF IInv, HealthTypes, Moment, Time, Never
  <2>3. QED
    BY <2>1, <2>2
<1>2. QED
  BY Invariance, <1>1, PTL

\* Collector.Collect is never reached with a batch in the spool.
THEOREM NeverResetWhilePending == Spec => NoResetWhilePending
<1>1. IInv /\ [Next]_vars => [phase = "collect" /\ phase' = "save" => spool = NoBatch]_vars
  BY DEF IInv, RunnerTypes
<1>2. QED
  BY Invariance, <1>1, PTL DEF Spec, NoResetWhilePending

\* Service.Step declares a recovery only after the spool was emptied.
THEOREM RecoveryOnlyAfterAccounting == Spec => RecoveryAfterAccounting
<1>1. IInv /\ [Next]_vars =>
        [failureStarted # Never /\ failureStarted' = Never => spool = NoBatch]_vars
  <2> SUFFICES ASSUME IInv, Next, failureStarted # Never, failureStarted' = Never
               PROVE  spool = NoBatch
    OBVIOUS
  <2>1. CASE ObserveFailure
    <3>1. failureStarted' = failureStarted
      BY <2>1 DEF ObserveFailure, First
    <3>2. QED
      BY <3>1
  <2>2. CASE ObserveRecovery
    BY <2>2 DEF ObserveRecovery, IInv, FreshInv
  <2>3. CASE UNCHANGED healthVars
    BY <2>3 DEF healthVars
  <2>4. QED
    BY <2>1, <2>2, <2>3, HealthCases
<1>2. QED
  BY Invariance, <1>1, PTL DEF Spec, RecoveryAfterAccounting
=============================================================================
