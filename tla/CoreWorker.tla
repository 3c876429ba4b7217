----------------------------- MODULE CoreWorker -----------------------------
(***************************************************************************)
(* The core worker and its clock: coreworker.Worker over CoreActionStore.  *)
(*                                                                         *)
(* Once per tick the worker polls the outbox, revocations first.  Claimed  *)
(* rows are leased and kept in worker.pending.  A revocation is deployed   *)
(* at once; other changes wait for the notice given to the users and for   *)
(* the distance to the last planned restart, and are merged meanwhile.     *)
(*                                                                         *)
(* Step takes the time once, when it starts, and computes every deadline   *)
(* from it.  Its calls normally take no tick; each tick a call does take   *)
(* is counted in slow.  What a deployment installs is CoreSync's subject:  *)
(* here it either succeeds or fails, with the core restarted or not.       *)
(***************************************************************************)
EXTENDS Integers, Sequences, FiniteSets

CONSTANTS User,       \* the users the outbox rows are for
          Notice,     \* plannedNoticePeriod, in ticks
          Limit,      \* plannedRestartLimit
          Lease,      \* actionLease
          RetryDelay, \* retryDelay, by attempts; the last entry repeats
          BatchLimit, \* actionBatchLimit
          MaxFaults,  \* bound: failed calls, lost replies and restarts
          MaxSlow     \* bound: ticks spent inside calls

ASSUME TimesAssumption ==
    /\ {Notice, Limit, Lease} \subseteq Nat
    /\ 0 < Notice /\ Notice < Limit /\ Limit < Lease
ASSUME UserAssumption == IsFiniteSet(User)
ASSUME RetryAssumption == RetryDelay \in Seq(Nat) /\ Len(RetryDelay) > 0
ASSUME BoundsAssumption == {BatchLimit, MaxFaults, MaxSlow} \subseteq Nat /\ BatchLimit > 0

VARIABLES
    outbox,      \* uncompleted rows <<user, action>>
    wait,        \* ticks until a row's available_at
    attempts,    \* attempts of a row
    pending,     \* worker.pending: attempts of the rows held, 0 of others
    phase,       \* what Worker.Run or Step does next
    stepAge,     \* ticks since Step took the time
    noticeAge,   \* ticks since noticeStartedAt
    plannedAge,  \* ticks since lastPlannedRestart
    installedAge,\* ticks since installedAt
    planned,     \* installedPlanned, and includesPlanned before it
    faults,      \* faults so far
    slow,        \* ticks spent inside calls so far
    age,         \* history: ticks since the row was inserted, or since a full
                 \* batch left the change behind
    warnedAge,   \* history: ticks since the last user was warned of a
                 \* restart that has not happened yet
    unheard,     \* history: the last notice reached nobody
    restartAge,  \* history: ticks since the core was restarted for a plan
    disturbed,   \* history: the worker knows less about the last restart
                 \* than the core (a failed or slow deployment, a restart)
    installed    \* history: rows this process has installed

workerVars == <<pending, noticeAge, plannedAge, installedAge, planned>>
rowVars == <<outbox, wait, attempts, age>>
historyVars == <<warnedAge, unheard, restartAge, disturbed, installed>>
vars == <<rowVars, workerVars, phase, stepAge, faults, slow, historyVars>>

Action == {"revoke", "reconcile"}
Row == User \X Action
Phase == {"sleep", "poll", "notify", "deploy", "complete"}

\* The zero time.Time: the event has not happened.
Zero == -1

\* Ages are kept up to the largest one anything compares them with.
Oldest == Limit + 1
Age == Zero .. Oldest
Older(a) == IF a \in {Zero, Oldest} THEN a ELSE a + 1

MaxAttempts == Len(RetryDelay)
Delay(n) == RetryDelay[IF n < MaxAttempts THEN n ELSE MaxAttempts]

TypeOK ==
    /\ outbox \subseteq Row
    /\ wait \in [Row -> Nat]
    /\ attempts \in [Row -> 0 .. MaxAttempts]
    /\ pending \in [Row -> 0 .. MaxAttempts]
    /\ phase \in Phase
    /\ stepAge \in 0 .. MaxSlow
    /\ {noticeAge, plannedAge, installedAge} \subseteq Age
    /\ planned \in BOOLEAN
    /\ faults \in 0 .. MaxFaults
    /\ slow \in 0 .. MaxSlow
    /\ age \in [Row -> Age]
    /\ {warnedAge, restartAge} \subseteq Age
    /\ {disturbed, unheard} \subseteq BOOLEAN
    /\ installed \subseteq outbox
    /\ \A row \in Row : pending[row] > 0 => row \in outbox
    /\ \A row \in Row : (row \in outbox) <=> (age[row] # Zero)
    /\ \A row \in Row \ outbox : wait[row] = 0 /\ attempts[row] = 0

None == [row \in Row |-> 0]

Init ==
    /\ outbox = {}
    /\ wait = None
    /\ attempts = None
    /\ pending = None
    /\ phase = "sleep"
    /\ stepAge = 0
    /\ noticeAge = Zero
    /\ plannedAge = Zero
    /\ installedAge = Zero
    /\ planned = FALSE
    /\ faults = 0
    /\ slow = 0
    /\ age = [row \in Row |-> Zero]
    /\ warnedAge = Zero
    /\ unheard = FALSE
    /\ restartAge = Zero
    /\ disturbed = FALSE
    /\ installed = {}
-----------------------------------------------------------------------------
Rows(action) == User \X {action}
Held == {row \in Row : pending[row] > 0}
Due == {row \in outbox : wait[row] = 0}

HasRevoke(rows) == rows \intersect Rows("revoke") # {}
HasReconcile(rows) == rows \intersect Rows("reconcile") # {}

Fault == faults < MaxFaults /\ faults' = faults + 1

\* A transaction inserts a row, due at once and never attempted; one that is
\* there already is left alone.
Queue(row) ==
    /\ row \notin outbox
    /\ outbox' = outbox \union {row}
    /\ age' = [age EXCEPT ![row] = 0]
    /\ UNCHANGED <<wait, attempts, workerVars, phase, stepAge, faults, slow, historyVars>>

\* One tick of the clock, for every deadline and every age.
TimePasses ==
    /\ wait' = [row \in Row |-> IF wait[row] > 0 THEN wait[row] - 1 ELSE 0]
    /\ age' = [row \in Row |-> Older(age[row])]
    /\ noticeAge' = Older(noticeAge)
    /\ plannedAge' = Older(plannedAge)
    /\ installedAge' = Older(installedAge)
    /\ warnedAge' = Older(warnedAge)
    /\ restartAge' = Older(restartAge)
    /\ UNCHANGED <<outbox, attempts, pending, planned, faults, unheard, installed>>

\* Run waits and calls Step, which takes the time.
Tick ==
    /\ phase = "sleep"
    /\ phase' = "poll"
    /\ stepAge' = 0
    /\ TimePasses
    /\ UNCHANGED <<slow, disturbed>>

\* A call takes another tick.  A deployment restarts the core later than the
\* time the worker will remember.
SlowTick ==
    /\ phase \in {"notify", "deploy", "complete"}
    /\ slow < MaxSlow
    /\ slow' = slow + 1
    /\ disturbed' = (disturbed \/ phase = "deploy")
    /\ stepAge' = stepAge + 1
    /\ TimePasses
    /\ UNCHANGED phase

\* Step when installedAt is set: no claim, only the completion is repeated.
PollInstalled ==
    /\ phase = "poll"
    /\ installedAge # Zero
    /\ phase' = "complete"
    /\ UNCHANGED <<rowVars, workerVars, stepAge, faults, slow, historyVars>>

\* Seeded error: the batch is taken in any order.
IsUnorderedBatch(rows) ==
    /\ Cardinality(rows) <= BatchLimit
    /\ rows = Due \/ Cardinality(rows) = BatchLimit

\* The rows ClaimDue may return: as many as the limit allows, no change
\* before a revocation.  Among rows of one kind any order is allowed.
IsBatch(rows) ==
    /\ Cardinality(rows) <= BatchLimit
    /\ rows = Due \/ Cardinality(rows) = BatchLimit
    /\ HasReconcile(rows) => Due \intersect Rows("revoke") \subseteq rows

\* Seeded error: the lease is only as long as the notice.
LeasedForNotice(rows) ==
    /\ wait' = [row \in Row |-> IF row \in rows THEN Notice ELSE wait[row]]
    /\ attempts' = [row \in Row |->
                      IF row \in rows /\ attempts[row] < MaxAttempts
                        THEN attempts[row] + 1 ELSE attempts[row]]
    /\ UNCHANGED outbox

Leased(rows) ==
    /\ wait' = [row \in Row |-> IF row \in rows THEN Lease ELSE wait[row]]
    /\ attempts' = [row \in Row |->
                      IF row \in rows /\ attempts[row] < MaxAttempts
                        THEN attempts[row] + 1 ELSE attempts[row]]
    /\ UNCHANGED outbox

\* A full batch leaves other changes due for the next poll, which may be full
\* again: their age counts from the last of these.
LeavesBehind(rows) ==
    age' = [row \in Row |-> IF row \in (Due \ rows) \intersect Rows("reconcile") THEN 0 ELSE age[row]]

\* Seeded error: only the notice is waited for.
ReadyAfterNotice == noticeAge >= Notice

\* The notice and the distance to the last planned restart are over.
Ready ==
    /\ noticeAge >= Notice
    /\ plannedAge = Zero \/ plannedAge >= Limit

\* What Step does with the rows it holds after a claim.
Decide(rows) ==
    \/ /\ rows = {}
       /\ phase' = "sleep"
       /\ UNCHANGED <<planned, noticeAge>>
    \/ /\ HasRevoke(rows)
       /\ phase' = "deploy"
       /\ planned' = HasReconcile(rows)
       /\ UNCHANGED noticeAge
    \/ /\ rows # {} /\ ~HasRevoke(rows)
       /\ noticeAge = Zero
       /\ noticeAge' = 0
       /\ phase' = "notify"
       /\ UNCHANGED planned
    \/ /\ rows # {} /\ ~HasRevoke(rows)
       /\ noticeAge # Zero
       /\ phase' = IF Ready THEN "deploy" ELSE "sleep"
       /\ planned' = Ready
       /\ UNCHANGED noticeAge

\* Seeded error: Step claims and deploys again after a completion failed.
ClaimAgain ==
    /\ phase = "poll"
    /\ \E rows \in SUBSET Due :
         /\ IsBatch(rows)
         /\ Leased(rows)
         /\ LeavesBehind(rows)
         /\ rows \intersect Held = {}
         /\ pending' = [row \in Row |-> IF row \in rows THEN attempts'[row] ELSE pending[row]]
         /\ Decide(Held \union rows)
    /\ UNCHANGED <<plannedAge, installedAge, stepAge, faults, slow, historyVars>>

Claim ==
    /\ phase = "poll"
    /\ installedAge = Zero
    /\ \E rows \in SUBSET Due :
         /\ IsBatch(rows)
         /\ Leased(rows)
         /\ LeavesBehind(rows)
         /\ rows \intersect Held = {}
         /\ pending' = [row \in Row |-> IF row \in rows THEN attempts'[row] ELSE pending[row]]
         /\ Decide(Held \union rows)
    /\ UNCHANGED <<plannedAge, installedAge, stepAge, faults, slow, historyVars>>

\* A batch with a row the worker still holds is refused as a whole, after
\* the store has leased it.
ClaimDuplicate ==
    /\ phase = "poll"
    /\ installedAge = Zero
    /\ \E rows \in SUBSET Due :
         /\ IsBatch(rows)
         /\ Leased(rows)
         /\ rows \intersect Held # {}
    /\ phase' = "sleep"
    /\ UNCHANGED <<age, workerVars, stepAge, faults, slow, historyVars>>

\* ClaimDue reports an error, with or without having committed.
ClaimFails ==
    /\ phase = "poll"
    /\ installedAge = Zero
    /\ Fault
    /\ \E rows \in SUBSET Due : (IsBatch(rows) \/ rows = {}) /\ Leased(rows)
    /\ phase' = "sleep"
    /\ UNCHANGED <<age, workerVars, stepAge, slow, historyVars>>

\* NotifyPlannedRestart returns, having sent its message to the active users
\* that can be reached; the notice cannot be over yet, having started with
\* this Step.
Notified ==
    /\ phase = "notify"
    /\ phase' = "sleep"
    /\ warnedAge' = 0
    /\ unheard' = FALSE
    /\ UNCHANGED <<rowVars, workerVars, stepAge, faults, slow, restartAge, disturbed, installed>>

\* It cannot list the users, or no message gets through.  Step ignores the
\* error: the notice runs on and is not given again.
NoticeFails ==
    /\ phase = "notify"
    /\ Fault
    /\ phase' = "sleep"
    /\ unheard' = TRUE
    /\ UNCHANGED <<rowVars, workerVars, stepAge, slow, warnedAge, restartAge, disturbed, installed>>

CoreIsRestarted ==
    /\ warnedAge' = Zero
    /\ restartAge' = IF planned THEN 0 ELSE restartAge

DeploySucceeds ==
    /\ phase = "deploy"
    /\ CoreIsRestarted
    /\ installedAge' = IF stepAge < Oldest THEN stepAge ELSE Oldest
    /\ installed' = installed \union Held
    /\ phase' = "complete"
    /\ UNCHANGED <<rowVars, pending, noticeAge, plannedAge, planned, stepAge, faults, slow, unheard,
                   disturbed>>

\* A core restarted by a deployment that failed: lastPlannedRestart is not set.
Disturbs(coreRestarted) ==
    /\ IF coreRestarted THEN CoreIsRestarted ELSE UNCHANGED <<warnedAge, restartAge>>
    /\ disturbed' = (disturbed \/ coreRestarted)

\* Seeded error: Worker.fail keeps the notice of the deployment that failed.
FailAndKeepNotice ==
    /\ phase = "deploy"
    /\ Fault
    /\ \E retried \in SUBSET Held :
         wait' = [row \in Row |->
                    IF row \notin retried THEN wait[row]
                    ELSE IF Delay(pending[row]) > stepAge THEN Delay(pending[row]) - stepAge
                    ELSE 0]
    /\ \E coreRestarted \in BOOLEAN : Disturbs(coreRestarted)
    /\ pending' = None
    /\ phase' = "sleep"
    /\ planned' = FALSE
    /\ UNCHANGED <<outbox, attempts, age, noticeAge, plannedAge, installedAge, stepAge, slow, unheard,
                   installed>>

\* Build or Install fails.  Worker.fail gives each row its own delay, counted
\* from the start of Step; a row whose Retry fails keeps its lease.
DeployFails ==
    /\ phase = "deploy"
    /\ Fault
    /\ \E retried \in SUBSET Held :
         wait' = [row \in Row |->
                    IF row \notin retried THEN wait[row]
                    ELSE IF Delay(pending[row]) > stepAge THEN Delay(pending[row]) - stepAge
                    ELSE 0]
    /\ \E coreRestarted \in BOOLEAN : Disturbs(coreRestarted)
    /\ pending' = None
    /\ noticeAge' = Zero
    /\ phase' = "sleep"
    /\ planned' = FALSE
    /\ UNCHANGED <<outbox, attempts, age, plannedAge, installedAge, stepAge, slow, unheard, installed>>

\* Seeded error: worker.pending is not reset after Complete.
CloseHeldRowsKeepPending ==
    /\ outbox' = outbox \ Held
    /\ wait' = [row \in Row |-> IF row \in Held THEN 0 ELSE wait[row]]
    /\ attempts' = [row \in Row |-> IF row \in Held THEN 0 ELSE attempts[row]]
    /\ age' = [row \in Row |-> IF row \in Held THEN Zero ELSE age[row]]
    /\ installed' = installed \ Held
    /\ pending' = pending

\* CoreActionStore.Complete commits: the held rows leave the outbox.
CloseHeldRows ==
    /\ outbox' = outbox \ Held
    /\ wait' = [row \in Row |-> IF row \in Held THEN 0 ELSE wait[row]]
    /\ attempts' = [row \in Row |-> IF row \in Held THEN 0 ELSE attempts[row]]
    /\ age' = [row \in Row |-> IF row \in Held THEN Zero ELSE age[row]]
    /\ installed' = installed \ Held
    /\ pending' = None

CompleteSucceeds ==
    /\ phase = "complete"
    /\ CloseHeldRows
    /\ plannedAge' = IF planned THEN installedAge ELSE plannedAge
    /\ noticeAge' = Zero
    /\ installedAge' = Zero
    /\ planned' = FALSE
    /\ phase' = "sleep"
    /\ UNCHANGED <<stepAge, faults, slow, warnedAge, unheard, restartAge, disturbed>>

\* Complete reports an error, with or without having committed.  The ids in
\* worker.pending are then those of closed rows, which nothing touches again.
CompleteFails ==
    /\ phase = "complete"
    /\ Fault
    /\ CloseHeldRows \/ UNCHANGED <<rowVars, installed, pending>>
    /\ phase' = "sleep"
    /\ UNCHANGED <<noticeAge, plannedAge, installedAge, planned, stepAge, slow, warnedAge, unheard,
                   restartAge, disturbed>>

\* The process restarts: everything the worker remembers is gone.
Restart ==
    /\ Fault
    /\ \/ phase = "deploy" /\ CoreIsRestarted
       \/ UNCHANGED <<warnedAge, restartAge>>
    /\ disturbed' = TRUE
    /\ pending' = None
    /\ noticeAge' = Zero
    /\ plannedAge' = Zero
    /\ installedAge' = Zero
    /\ planned' = FALSE
    /\ installed' = {}
    /\ phase' = "sleep"
    /\ UNCHANGED <<rowVars, stepAge, slow, unheard>>

Next ==
    \/ \E row \in Row : Queue(row)
    \/ Tick \/ SlowTick
    \/ PollInstalled \/ Claim \/ ClaimDuplicate \/ ClaimFails
    \/ Notified \/ NoticeFails
    \/ DeploySucceeds \/ DeployFails
    \/ CompleteSucceeds \/ CompleteFails
    \/ Restart

Spec == Init /\ [][Next]_vars
-----------------------------------------------------------------------------
(***************************************************************************)
(* Properties.                                                             *)
(***************************************************************************)

\* The core is about to be restarted for a plan, not for a revocation.
PlannedRestart == phase = "deploy" /\ ~HasRevoke(Held)

\* Every planned restart has an announcement of its own, through failed
\* deployments, failed completions and restarts of the process; and the
\* users had the whole notice, if no call was slow (question.md:91).  The
\* exception is a notice that reached nobody: it counts as given.
PlannedIsAnnounced ==
    PlannedRestart /\ ~unheard => warnedAge # Zero /\ (slow = 0 => warnedAge >= Notice)

\* Planned restarts keep their distance from the last restart that was
\* planned, also when a revocation was deployed with it or its completion
\* failed, as long as the worker knows when that restart was.
PlannedRestartsSpaced ==
    PlannedRestart /\ ~disturbed => restartAge = Zero \/ restartAge >= Limit

\* What is installed is not installed again because its completion failed
\* (worker_test.go:135), unless the process forgot it.
NotInstalledTwice == phase = "deploy" => Held \intersect installed = {}

\* The lease covers the time the worker holds a row before it deploys it, a
\* notice that is merged with the distance to the last planned restart: the
\* store never hands it out a second time, unless a call was slow or polls
\* failed for the rest of the lease (then ClaimDuplicate refuses it).
HeldIsLeased ==
    (phase = "poll" /\ installedAge = Zero /\ slow = 0 /\ faults < Lease - Limit) =>
        Held \intersect Due = {}

\* If no call fails or is slow, a revocation is deployed at the next poll,
\* however many changes wait, when revocations fit in a batch; and a change at
\* the latest when the distance between planned restarts has passed since it
\* was inserted or a batch full of other rows left it behind.
RowsAreServedInTime ==
    (faults = 0 /\ slow = 0) =>
      /\ Cardinality(User) <= BatchLimit =>
           \A row \in outbox \intersect Rows("revoke") : age[row] <= 1
      /\ \A row \in outbox \intersect Rows("reconcile") : age[row] <= Limit

\* The stages of the worker as the outbox sees them.
Stage == IF installedAge # Zero THEN "deployed"
         ELSE IF phase = "deploy" THEN "deploying" ELSE "collecting"

Outbox == INSTANCE OutboxPromise WITH held <- Held, stage <- Stage

\* The worker with its clock keeps the same promise as CoreSync's worker: with
\* leases that run out, notices, retries and completions whose reply is lost.
KeepsOutboxPromise == Outbox!Spec
=============================================================================
