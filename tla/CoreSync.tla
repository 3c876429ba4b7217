------------------------------ MODULE CoreSync ------------------------------
(***************************************************************************)
(* How a change of a user's VPN access reaches the running sing-box core.  *)
(*                                                                         *)
(* PostgreSQL holds the users (vpn_users, credential_bundles,              *)
(* quota_windows), three global switches (core_settings, traffic_health,   *)
(* tls_settings) and core_action_outbox.  Every operation that changes     *)
(* what the core should serve is one transaction that also inserts outbox  *)
(* rows, with ON CONFLICT DO NOTHING on the unique (telegram_id, action)   *)
(* of the uncompleted rows.  One worker (coreworker.Worker) claims the due *)
(* rows, reads a snapshot of the whole database with two queries, installs *)
(* it as the configuration of the core and completes the rows it claimed.  *)
(*                                                                         *)
(* Transactions are READ COMMITTED.  A transaction is one step, except for *)
(* one that may be open at a time: its statements have decided what to     *)
(* queue, and other transactions and the worker's deployments commit       *)
(* before it does.  It keeps out those that want the rows it has locked.   *)
(*                                                                         *)
(* Time is abstract: a claimed or retried row is "leased" until its        *)
(* available_at passes, and the 30-second notice before a planned restart  *)
(* may end at any poll.  CoreWorker has the same worker with its clock.    *)
(* An installation is one step with the outcomes that InstallPromise       *)
(* allows; ConfigDeployment has its steps.                                 *)
(***************************************************************************)
EXTENDS Naturals, FiniteSets

CONSTANTS User,       \* the Telegram users known to the database
          MaxGen,     \* bound: credential generations issued to one user
          MaxVersion, \* bound: saved versions of core_settings
          MaxFaults   \* bound: failed calls, lost replies, restarts, and
                      \* transactions that others overtake

ASSUME BoundsAssumption == MaxGen \in Nat /\ MaxVersion \in Nat /\ MaxFaults \in Nat

VARIABLES
    eligible,   \* vpn_users.eligible
    status,     \* vpn_users.status
    gen,        \* vpn_users.credential_generation, also that of the bundle
    blocked,    \* quota_windows.blocked
    version,    \* version of core_settings, 0 until it is configured
    failClosed, \* traffic_health.fail_closed
    tls,        \* tls_settings.state, "expired" when issued and past its expiry
    open,       \* the transaction that has not committed yet
    outbox,     \* uncompleted rows <<user, action>> of core_action_outbox
    leased,     \* the rows whose available_at is still to come
    phase,      \* what Worker.Step does next
    held,       \* uncompleted rows in worker.pending
    readVersion,\* settings version read by SnapshotBuilder.Build
    snap,       \* the configuration built, per user
    file,       \* the active configuration file, per user
    core,       \* the configuration the core runs, per user
    deployed,   \* history: generation of each user in the last successful
                \* installation that served the user
    faults,     \* faults so far
    dropped,    \* history: users that the deployment under way does not
                \* repair, although no row was queued after it began to read
    stranded    \* history: users that no row is waiting to repair

dbData     == <<eligible, status, gen, blocked, version, failClosed, tls>>
dbVars     == <<dbData, open>>
workerVars == <<phase, held, readVersion, snap>>
coreVars   == <<file, core, deployed>>
vars == <<dbVars, outbox, leased, workerVars, coreVars, stranded, faults, dropped>>

Status == {"unclaimed", "active", "pending_approval", "approval_rejected",
           "self_service", "permanently_blocked"}
RevokedStatus == {"self_service", "pending_approval", "permanently_blocked"}
Tls    == {"unissued", "issued", "expired", "failed"}
Action == {"revoke", "reconcile"}
Row    == User \X Action
Phase  == {"idle", "load", "list", "install", "complete"}

\* An open transaction: the kind of statement it is in, the vpn_users rows and
\* the quota windows it has locked, the users a new limit blocks, and the rows
\* it has inserted.  Those in the outbox already were left alone.
Kind == {"none", "user", "sweep", "settings", "core", "health", "tls"}
Transaction == [kind : Kind, who : SUBSET User, windows : SUBSET User,
                over : SUBSET User, rows : SUBSET Row]
NoTransaction ==
    [kind |-> "none", who |-> {}, windows |-> {}, over |-> {}, rows |-> {}]

\* What a configuration holds for a user: nothing (generation 0), or the
\* credentials of one generation under one version of the core settings.
\* A core that finds no file does not start: it serves no users either.
Entry   == [gen : Nat, version : Nat]
Absent  == [gen |-> 0, version |-> 0]
NoUsers == [u \in User |-> Absent]

TypeOK ==
    /\ eligible \in [User -> BOOLEAN]
    /\ status \in [User -> Status]
    /\ gen \in [User -> Nat]
    /\ blocked \in [User -> BOOLEAN]
    /\ version \in Nat
    /\ failClosed \in BOOLEAN
    /\ tls \in Tls
    /\ open \in Transaction
    /\ outbox \subseteq Row
    /\ leased \subseteq outbox
    /\ phase \in Phase
    /\ held \subseteq leased
    /\ readVersion \in Nat
    /\ snap \in [User -> Entry]
    /\ file \in [User -> Entry]
    /\ core \in [User -> Entry]
    /\ deployed \in [User -> Nat]
    /\ faults \in Nat
    /\ dropped \subseteq User
    /\ stranded \subseteq User

Init ==
    /\ eligible = [u \in User |-> FALSE]
    /\ status = [u \in User |-> "unclaimed"]
    /\ gen = [u \in User |-> 0]
    /\ blocked = [u \in User |-> FALSE]
    /\ version = 0
    /\ failClosed = FALSE
    /\ tls = "unissued"
    /\ open = NoTransaction
    /\ outbox = {}
    /\ leased = {}
    /\ phase = "idle"
    /\ held = {}
    /\ readVersion = 0
    /\ snap = NoUsers
    /\ file = NoUsers
    /\ core = NoUsers
    /\ deployed = [u \in User |-> 0]
    /\ faults = 0
    /\ dropped = {}
    /\ stranded = {}
-----------------------------------------------------------------------------
(***************************************************************************)
(* Database transactions.                                                  *)
(***************************************************************************)
Active(u) == status[u] = "active" /\ eligible[u]

Issued == {u \in User : gen[u] > 0}

\* The worker has started to read the database for the deployment it is in.
Reading == phase \in {"list", "install", "complete"}

\* A transaction that needs the rows commits with those it has inserted.  The
\* INSERT ... ON CONFLICT (telegram_id, action) WHERE completed_at IS NULL DO
\* NOTHING left a row alone that was there, claimed or not.
Enqueue(needed, inserted) ==
    /\ outbox' = outbox \union inserted
    /\ LET missing == {row[1] : row \in needed \ outbox'}
           claimed == {row[1] : row \in needed \intersect held}
       IN  /\ stranded' = stranded \union missing
           /\ dropped' = IF Reading THEN dropped \union missing \union claimed
                                    ELSE dropped
    /\ UNCHANGED <<leased, workerVars, coreVars, faults>>

\* A transaction that no other commit falls into.  Its inserts wait while the
\* open one has the vpn_users row locked; a row of its own that the open one
\* wants too was there when that one's insert reached it.
EnqueueAtOnce(rows) ==
    /\ \A row \in rows \ outbox : row[1] \notin open.who
    /\ Enqueue(rows, rows)
    /\ open' = [open EXCEPT !.rows = @ \ rows]

\* The open transaction commits.
EnqueueLate(needed, inserted) ==
    /\ Enqueue(needed, inserted)
    /\ open' = NoTransaction

\* A transaction that holds the vpn_users row of u, SELECT ... FOR UPDATE.
EnqueueFor(u, rows) ==
    \/ u \notin open.who /\ EnqueueAtOnce(rows)
    \/ open.who = {u} /\ EnqueueLate(rows, rows \intersect open.rows)

\* It locks the quota window of u as well.
HasWindow(u) == (u \in open.windows) <=> (u \in open.who)

\* A transaction over all users, which holds the row of the switch it sets.
EnqueueForAll(kind, rows) ==
    \/ open.kind # kind /\ EnqueueAtOnce(rows)
    \/ open.kind = kind /\ EnqueueLate(rows, open.rows)

RowsFor(users, action) == {<<u, action>> : u \in users}

QueueNothing ==
    UNCHANGED <<open, outbox, leased, workerVars, coreVars, stranded, faults, dropped>>

ActiveUsers == {u \in User : Active(u)}

\* AccessStore.ApplyQualification with an eligible or an ineligible decision.
SetEligibility(u, decision) ==
    /\ eligible' = [eligible EXCEPT ![u] = decision]
    /\ status' = [status EXCEPT ![u] =
                    IF ~decision /\ @ \in {"active", "self_service"}
                      THEN "pending_approval" ELSE @]
    /\ EnqueueFor(u, IF ~decision /\ status[u] = "active" THEN {<<u, "revoke">>} ELSE {})
    /\ UNCHANGED <<gen, blocked, version, failClosed, tls>>

\* Seeded error: the generation restarts with every new issuance.
IssueFirstGeneration(u) ==
    /\ status' = [status EXCEPT ![u] = "active"]
    /\ gen' = [gen EXCEPT ![u] = 1]
    /\ HasWindow(u)
    /\ blocked' = [blocked EXCEPT ![u] = FALSE]
    /\ EnqueueFor(u, {<<u, "reconcile">>})
    /\ UNCHANGED <<eligible, version, failClosed, tls>>

\* AccessAccount.issue as ProvisioningStore.provision persists it: a new
\* bundle and a new quota window.
Issue(u) ==
    /\ gen[u] < MaxGen
    /\ status' = [status EXCEPT ![u] = "active"]
    /\ gen' = [gen EXCEPT ![u] = @ + 1]
    /\ HasWindow(u)
    /\ blocked' = [blocked EXCEPT ![u] = FALSE]
    /\ EnqueueFor(u, {<<u, "reconcile">>})
    /\ UNCHANGED <<eligible, version, failClosed, tls>>

Claim(u) ==
    /\ eligible[u]
    /\ status[u] \in {"unclaimed", "self_service"}
    /\ Issue(u)

\* Seeded error: an approval that forgets the eligibility check.
ApproveAnyone(u) ==
    /\ status[u] \in {"pending_approval", "approval_rejected"}
    /\ Issue(u)

Approve(u) ==
    /\ eligible[u]
    /\ status[u] \in {"pending_approval", "approval_rejected"}
    /\ Issue(u)

Rotate(u, resetPeriod) ==
    /\ status[u] = "active"
    /\ gen[u] < MaxGen
    /\ gen' = [gen EXCEPT ![u] = @ + 1]
    /\ resetPeriod => HasWindow(u)
    /\ blocked' = [blocked EXCEPT ![u] = @ /\ ~resetPeriod]
    /\ EnqueueFor(u, {<<u, "reconcile">>})
    /\ UNCHANGED <<eligible, status, version, failClosed, tls>>

\* UserManagementStore.Revoke; the mode decides the status that follows.
Revoke(u, next) ==
    /\ status[u] = "active"
    /\ status' = [status EXCEPT ![u] = next]
    /\ EnqueueFor(u, {<<u, "revoke">>})
    /\ UNCHANGED <<eligible, gen, blocked, version, failClosed, tls>>

RejectApproval(u) ==
    /\ status[u] = "pending_approval"
    /\ status' = [status EXCEPT ![u] = "approval_rejected"]
    /\ EnqueueFor(u, {})
    /\ UNCHANGED <<eligible, gen, blocked, version, failClosed, tls>>

\* The quota half of recordBatch: the sample takes the user over the limit,
\* or into a new period in which it is below the limit again.
RecordTraffic(u, nowBlocked) ==
    /\ Active(u)
    /\ blocked[u] # nowBlocked
    /\ HasWindow(u)
    /\ blocked' = [blocked EXCEPT ![u] = nowBlocked]
    /\ EnqueueFor(u, {<<u, IF nowBlocked THEN "revoke" ELSE "reconcile">>})
    /\ UNCHANGED <<eligible, status, gen, version, failClosed, tls>>

\* The sweep queues the users it unblocks, unless accounting is fail-closed:
\* then the recovery is to queue them.
SweepRows(due) == RowsFor({u \in due : blocked[u] /\ Active(u) /\ ~failClosed}, "reconcile")

\* AdvanceDueQuotaPeriods: the sweep gives every due window a new period, but
\* skips the locked ones.
AdvanceDueQuotaPeriods(due) ==
    /\ due # {}
    /\ IF open.kind = "sweep" THEN due = open.windows ELSE due \intersect open.windows = {}
    /\ blocked' = [u \in User |-> blocked[u] /\ u \notin due]
    /\ EnqueueForAll("sweep", SweepRows(due))
    /\ UNCHANGED <<eligible, status, gen, version, failClosed, tls>>

\* Rows the quota statement of ManagementSettingsStore.Update queues for the
\* windows it locks, when the new limit blocks those of over.
LimitRows(windows, over) ==
    RowsFor({u \in over : ~blocked[u] /\ Active(u)}, "revoke")
      \union RowsFor({u \in windows \ over : blocked[u] /\ Active(u) /\ ~failClosed}, "reconcile")

\* Seeded error: the users removed for inactivity are not queued for revocation.
RemovalRowsOfNobody(removed) == {}

\* Rows its removal statement queues.
RemovalRows(removed) == RowsFor(removed, "revoke")

SetLimit(windows, over) ==
    blocked' = [u \in User |-> IF u \in windows THEN u \in over ELSE blocked[u]]

\* ManagementSettingsStore.Update: the new limit is applied to every window,
\* then the users the new threshold finds inactive lose their access.
UpdateManagement(over, removed) ==
    /\ removed \intersect open.who = {}
    /\ status' = [u \in User |-> IF u \in removed THEN "self_service" ELSE status[u]]
    /\ \/ /\ open.kind # "settings" /\ open.windows = {}
          /\ SetLimit(Issued, over)
          /\ EnqueueAtOnce(LimitRows(Issued, over) \union RemovalRows(removed))
       \/ /\ open.kind = "settings" /\ open.over = over
          /\ SetLimit(open.windows, over)
          /\ EnqueueLate(LimitRows(open.windows, over) \union RemovalRows(removed),
                         open.rows \union RemovalRows(removed))
    /\ UNCHANGED <<eligible, gen, version, failClosed, tls>>

\* CoreSettingsManagementStore.UpdateCore
UpdateCore ==
    /\ version < MaxVersion
    /\ version' = version + 1
    /\ EnqueueForAll("core", RowsFor(ActiveUsers, "reconcile"))
    /\ UNCHANGED <<eligible, status, gen, blocked, failClosed, tls>>

\* Seeded error: the condition on quota.blocked is the wrong way round.
HealthRowsOfBlocked ==
    IF failClosed THEN RowsFor({u \in ActiveUsers : blocked[u]}, "reconcile")
                  ELSE RowsFor(ActiveUsers, "revoke")

\* queueTrafficHealthActions, for the recovery and for the failure.
HealthRows ==
    IF failClosed THEN RowsFor({u \in ActiveUsers : ~blocked[u]}, "reconcile")
                  ELSE RowsFor(ActiveUsers, "revoke")

\* ObserveFailure at the moment traffic accounting becomes fail-closed.
FailClosed ==
    /\ ~failClosed
    /\ failClosed' = TRUE
    /\ EnqueueForAll("health", HealthRows)
    /\ UNCHANGED <<eligible, status, gen, blocked, version, tls>>

\* ObserveRecovery when accounting was fail-closed.
RecoverFromFailClosed ==
    /\ failClosed
    /\ failClosed' = FALSE
    /\ EnqueueForAll("health", HealthRows)
    /\ UNCHANGED <<eligible, status, gen, blocked, version, tls>>

RecordIssuance ==
    /\ tls' = "issued"
    /\ EnqueueForAll("tls", RowsFor(ActiveUsers, "reconcile"))
    /\ UNCHANGED <<eligible, status, gen, blocked, version, failClosed>>

\* The certificate passes its expiry; nothing is written and nothing queued.
CertificateExpires ==
    /\ tls = "issued"
    /\ tls' = "expired"
    /\ QueueNothing
    /\ UNCHANGED <<eligible, status, gen, blocked, version, failClosed>>

\* RecordFailure: every CA refused; a certificate still valid stays issued.
RecordFailure ==
    /\ open.kind # "tls"
    /\ tls \in {"unissued", "expired"}
    /\ tls' = "failed"
    /\ QueueNothing
    /\ UNCHANGED <<eligible, status, gen, blocked, version, failClosed>>

Fault == faults < MaxFaults /\ faults' = faults + 1

\* The statements of a transaction have read the database and inserted their
\* rows; it is not committed.
Begin(kind, who, windows, over, rows) ==
    /\ open = NoTransaction
    /\ Fault
    /\ open' = [kind |-> kind, who |-> who, windows |-> windows, over |-> over,
                rows |-> rows \ outbox]
    /\ UNCHANGED <<dbData, outbox, leased, workerVars, coreVars, stranded, dropped>>

BeginTransaction ==
    \/ \E u \in User : \E windows \in {{}, {u}} : Begin("user", {u}, windows, {}, {u} \X Action)
    \/ \E due \in SUBSET Issued \ {{}} : Begin("sweep", {}, due, {}, SweepRows(due))
    \/ \E over \in SUBSET Issued : Begin("settings", {}, Issued, over, LimitRows(Issued, over))
    \/ Begin("health", {}, {}, {}, HealthRows)
    \/ version < MaxVersion /\ Begin("core", {}, {}, {}, RowsFor(ActiveUsers, "reconcile"))
    \/ Begin("tls", {}, {}, {}, RowsFor(ActiveUsers, "reconcile"))

\* It fails, or its connection is lost, before it commits.
Rollback ==
    /\ open # NoTransaction
    /\ open' = NoTransaction
    /\ UNCHANGED <<dbData, outbox, leased, workerVars, coreVars, stranded, faults, dropped>>
-----------------------------------------------------------------------------
(***************************************************************************)
(* The core worker.  Each query and each call is a step of its own.        *)
(***************************************************************************)
\* What the database says the core should serve, under settings version v.
Entitled(u) == Active(u) /\ ~blocked[u] /\ ~failClosed
Snapshot(v) ==
    [u \in User |-> IF Entitled(u) /\ tls = "issued" THEN [gen |-> gen[u], version |-> v]
                                                ELSE Absent]

Due == outbox \ leased
HasRevoke(rows) == \E u \in User : <<u, "revoke">> \in rows

\* Step: ClaimDue returned only reconcile rows and the notice is running.
ClaimAndWait ==
    /\ phase = "idle"
    /\ Due # {}
    /\ ~HasRevoke(held \union Due)
    /\ held' = held \union Due
    /\ leased' = outbox
    /\ UNCHANGED <<dbVars, outbox, phase, readVersion, snap, coreVars, stranded, faults, dropped>>

\* Seeded error: only a revocation ever starts a deployment.
ClaimAndDeployRevocations ==
    /\ phase = "idle"
    /\ HasRevoke(held \union Due)
    /\ held' = held \union Due
    /\ leased' = outbox
    /\ phase' = "load"
    /\ UNCHANGED <<dbVars, outbox, readVersion, snap, coreVars, stranded, faults, dropped>>

\* Step: a revoke row is pending, or the notice and the limit have elapsed.
ClaimAndDeploy ==
    /\ phase = "idle"
    /\ held \union Due # {}
    /\ held' = held \union Due
    /\ leased' = outbox
    /\ phase' = "load"
    /\ UNCHANGED <<dbVars, outbox, readVersion, snap, coreVars, stranded, faults, dropped>>

\* ClaimDue commits and its reply is lost: rows are leased and nobody's.
ClaimReplyLost ==
    /\ phase = "idle"
    /\ Due # {}
    /\ Fault
    /\ leased' = outbox
    /\ UNCHANGED <<dbVars, outbox, workerVars, coreVars, stranded, dropped>>

\* available_at passes.  The rows the worker holds are not claimed again
\* while it holds them (CoreWorker checks that), so theirs may wait.
LeaseExpires(row) ==
    /\ row \in leased \ held
    /\ leased' = leased \ {row}
    /\ UNCHANGED <<dbVars, outbox, workerVars, coreVars, stranded, faults, dropped>>

LoadSettings ==
    /\ phase = "load"
    /\ version > 0
    /\ readVersion' = version
    /\ phase' = "list"
    /\ UNCHANGED <<dbVars, outbox, leased, held, snap, coreVars, stranded, faults, dropped>>

ListActive ==
    /\ phase = "list"
    /\ snap' = Snapshot(readVersion)
    /\ phase' = "install"
    /\ UNCHANGED <<dbVars, outbox, leased, held, readVersion, coreVars, stranded, faults, dropped>>

\* Worker.fail: every claimed row stays, to be retried, and is let go.
LetGo ==
    /\ phase' = "idle"
    /\ held' = {}
    /\ dropped' = {}
    /\ UNCHANGED <<dbVars, outbox, leased, readVersion, snap>>

\* ErrCoreNotConfigured, until core_settings is saved for the first time.
NotConfigured ==
    /\ phase = "load"
    /\ version = 0
    /\ LetGo
    /\ UNCHANGED <<coreVars, stranded, faults>>

BuildFails ==
    /\ phase \in {"load", "list"}
    /\ Fault
    /\ LetGo
    /\ UNCHANGED <<coreVars, stranded>>

\* Installer.Install returns nil: InstallPromise!Succeeds.
InstallSucceeds ==
    /\ phase = "install"
    /\ file' = snap
    /\ core' = snap
    /\ deployed' = [u \in User |-> IF snap[u] = Absent THEN deployed[u] ELSE snap[u].gen]
    /\ stranded' = stranded \intersect dropped
    /\ phase' = "complete"
    /\ UNCHANGED <<dbVars, outbox, leased, held, readVersion, snap, faults, dropped>>

\* Any other end of Install: InstallPromise!CutShort.  The file and the core
\* may be as before, new, rolled back, or gone.
CutShort ==
    /\ file' \in {file, snap, NoUsers}
    /\ core' \in {core, file, snap, NoUsers}
    /\ UNCHANGED <<deployed, stranded>>

InstallFails ==
    /\ phase = "install"
    /\ Fault
    /\ CutShort
    /\ LetGo

\* The container restarts by itself and the core reads the active file.
CoreRestarts ==
    /\ core # file
    /\ core' = file
    /\ UNCHANGED <<dbVars, outbox, leased, workerVars, file, deployed, stranded, faults, dropped>>

\* Seeded error: worker.pending is not reset after Complete.
CloseHeldRowsKeepPending ==
    /\ outbox' = outbox \ held
    /\ leased' = leased \ held
    /\ held' = held
    /\ stranded' = stranded \union dropped
    /\ dropped' = {}
    /\ UNCHANGED <<file, core, deployed>>

\* Seeded error: Complete closes all rows of its users instead of its ids.
CloseRowsOfHeldUsers ==
    /\ outbox' = {row \in outbox : \A other \in held : other[1] # row[1]}
    /\ leased' = leased \intersect outbox'
    /\ held' = {}
    /\ stranded' = stranded \union dropped
    /\ dropped' = {}
    /\ UNCHANGED <<file, core, deployed>>

\* CoreActionStore.Complete commits.
CloseHeldRows ==
    /\ outbox' = outbox \ held
    /\ leased' = leased \ held
    /\ held' = {}
    /\ stranded' = stranded \union dropped
    /\ dropped' = {}
    /\ UNCHANGED <<file, core, deployed>>

CompleteSucceeds ==
    /\ phase = "complete"
    /\ CloseHeldRows
    /\ phase' = "idle"
    /\ UNCHANGED <<dbVars, readVersion, snap, faults>>

\* Complete reports an error, with or without having committed; the worker
\* keeps installedAt and tries again without building a new snapshot.
CompleteFails ==
    /\ phase = "complete"
    /\ Fault
    /\ CloseHeldRows \/ UNCHANGED <<outbox, leased, held, dropped, coreVars, stranded>>
    /\ UNCHANGED <<dbVars, phase, readVersion, snap>>

\* The process stops at any point; worker.pending lives in memory only.
Restart ==
    /\ Fault
    /\ IF phase = "install" THEN CutShort ELSE UNCHANGED <<coreVars, stranded>>
    /\ LetGo
-----------------------------------------------------------------------------
Administration ==
    \/ \E u \in User :
         \/ \E decision \in BOOLEAN : SetEligibility(u, decision)
         \/ Claim(u) \/ Approve(u) \/ RejectApproval(u)
         \/ \E resetPeriod \in BOOLEAN : Rotate(u, resetPeriod)
         \/ \E next \in RevokedStatus : Revoke(u, next)
    \/ \E over \in SUBSET Issued, removed \in SUBSET {u \in User : status[u] = "active"} :
         UpdateManagement(over, removed)
    \/ UpdateCore

Accounting ==
    \/ \E u \in User, nowBlocked \in BOOLEAN : RecordTraffic(u, nowBlocked)
    \/ \E due \in SUBSET Issued : AdvanceDueQuotaPeriods(due)
    \/ FailClosed
    \/ RecoverFromFailClosed

Certificate == RecordIssuance \/ CertificateExpires \/ RecordFailure

WorkerProgress ==
    \/ ClaimAndDeploy \/ LoadSettings \/ NotConfigured
    \/ ListActive \/ InstallSucceeds \/ CompleteSucceeds

WorkerFault == ClaimReplyLost \/ BuildFails \/ InstallFails \/ CompleteFails \/ Restart

Next ==
    \/ Administration
    \/ Accounting
    \/ Certificate
    \/ ClaimAndWait
    \/ WorkerProgress
    \/ WorkerFault
    \/ CoreRestarts
    \/ BeginTransaction \/ Rollback
    \/ \E row \in Row : LeaseExpires(row)

Spec == Init /\ [][Next]_vars

\* The worker polls every second and its calls return; leases run out.
FairSpec ==
    /\ Spec
    /\ WF_vars(WorkerProgress)
    /\ \A row \in Row : WF_vars(LeaseExpires(row))
-----------------------------------------------------------------------------
(***************************************************************************)
(* Properties.                                                             *)
(***************************************************************************)

\* What the core serves user u is what the database grants.  The one thing
\* no transaction announces is an expired certificate: ListActive then drops
\* everybody from the next snapshot, but until that the entry may be any.
Agrees(entry, u) ==
    IF Entitled(u) THEN tls = "issued" => entry = [gen |-> gen[u], version |-> version]
                   ELSE entry = Absent

Queued(u) == \E action \in Action : <<u, action>> \in outbox

\* Whenever config serves a user something else than the database grants, an
\* uncompleted row of that user is waiting to repair it.
Repaired(config) ==
    \/ \A u \in User : Agrees(config[u], u) \/ Queued(u) \/ u \in stranded
    \/ config = NoUsers /\ outbox # {}

\* The database and the outbox never part, through every failure, lost reply,
\* rollback and restart: what the core serves, and what it would serve after
\* a restart of its own, has an uncompleted row wherever it is out of date.
\* The exceptions: a core that a failed installation left without a file
\* waits for the rows of any user; and a stranded user waits for the next
\* successful deployment.  A user is stranded when its row was completed by a
\* deployment that had read the database before the change which needs the
\* row (ON CONFLICT DO NOTHING left the claimed row as it was), or when an
\* open transaction queued nothing for it on account of what it read before
\* others committed.
StaleIsQueued == Repaired(core) /\ Repaired(file)

\* A row the worker does not hold: the next deployment reads the database
\* after it was queued.
Fresh(u) == \E action \in Action : <<u, action>> \in outbox \ held

\* What the worker is about to install is repaired the same way: where the
\* settings and the users it has read no longer agree with the database, a
\* row it does not hold is waiting, or the change came with no row of its own.
InFlightIsQueued ==
    /\ phase = "list" =>
         \A u \in User : Agrees(Snapshot(readVersion)[u], u) \/ Fresh(u) \/ u \in dropped
    /\ phase = "install" =>
         \A u \in User : Agrees(snap[u], u) \/ Fresh(u) \/ u \in dropped
    /\ phase = "complete" =>
         \A u \in User : Agrees(core[u], u) \/ Fresh(u) \/ u \in dropped \/ u \in stranded

\* Every transaction leaves a row that RestoreAccessAccount accepts: active
\* access is eligible, issued access has its issuance state, and a quota
\* window exists for it.  A row it refuses would lock the user out for good.
Restorable ==
    \A u \in User :
      /\ status[u] = "active" => eligible[u]
      /\ (status[u] = "unclaimed") <=> (gen[u] = 0)
      /\ blocked[u] => gen[u] > 0

\* Once an installation with a user's rotated credentials has succeeded, the
\* secrets they replaced never come back while the user is served: not by a
\* rollback, a retried installation or a restart of the core, and the core
\* never serves credentials the database has not issued.
NoOlderCredentials ==
    \A u \in User : \A config \in {core, file} :
      config[u] # Absent => deployed[u] <= config[u].gen /\ config[u].gen <= gen[u]

\* Once the core is configured no row stays in the outbox for ever, when
\* faults are finitely many and the worker keeps polling.
RowsAreCompleted ==
    \A row \in Row : []<>(row \notin outbox \/ version = 0)

\* With no uncompleted row left, the core serves no user whose access was
\* taken away (question.md:93: safety revocations update the core at once).
RevocationReachesCore ==
    outbox = {} => \A u \in User : core[u] # Absent => Entitled(u)

\* With no uncompleted row left, the core serves nobody once the certificate
\* has run out and every CA refused a new one (question.md:113: all four
\* protocols are disabled).
NoServiceWithoutCertificate ==
    (outbox = {} /\ tls = "failed") => core = NoUsers

\* The stages of the worker as the outbox sees them.
Stage == IF phase = "idle" THEN "collecting"
         ELSE IF phase = "complete" THEN "deployed" ELSE "deploying"

Outbox == INSTANCE OutboxPromise WITH stage <- Stage

\* The worker keeps the promise of the outbox, whatever it reads, installs and
\* fails at: no row leaves without a deployment that began with it.
KeepsOutboxPromise == Outbox!Spec
=============================================================================
