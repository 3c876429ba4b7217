# TLA+ models of the S12RYT VPN bot

This directory holds TLA+ specifications of the parts of this repository whose
correctness depends on the order in which things happen: the transactions that
decide who may use the VPN, the outbox and the worker that bring those decisions
to the sing-box core, the installation of a configuration, the accounting of
traffic, the Telegram and certificate machinery around them, and the
administration of all of it.  TLC checks each module on small instances; TLAPS
proves every safety property the passing runs check, with the exceptions each of
them states, for every value of the constants.

## 1. The system

One Go process (`cmd/server`) runs an HTTP server and seven background loops over
one PostgreSQL database; sing-box is a separate container, restarted through a
small controller container.  Any loop that returns stops the process, and the
container runtime starts it again.

| Component | State it keeps | Operations | Talks to |
|---|---|---|---|
| Access (`internal/domain/access.go`, `internal/postgres/*_store.go`) | `vpn_users`, `credential_bundles`, `quota_windows`, `core_settings`, `qualification_settings` | claim, approve, reject, rotate, revoke, apply a qualification decision, change the settings | writes `core_action_outbox` in the same transaction |
| Core worker (`internal/coreworker`, `core_action_store.go`) | the outbox rows with their leases; in memory `pending`, `noticeStartedAt`, `lastPlannedRestart`, `installedAt` | claim, notify, build a snapshot, install, complete, retry | reads the database, calls the installer, sends Telegram messages |
| Deployment (`internal/singbox`, `internal/corecontrol`) | active, candidate and backup file; the running core | stage, check, promote, restart, roll back, finalize | the controller container |
| Traffic accounting (`internal/trafficrunner`, `internal/trafficstats`, `traffic_store.go`, `internal/quotasweep`) | the core's counters, the spool file, `quota_windows`, `traffic_batches`, `traffic_health` | collect and reset, save, record, delete, replay, sweep the periods, fail closed and recover | the core's statistics API, the outbox |
| Qualification (`internal/qualification`) | rules, `vpn_users.eligible`, the recheck schedule | handle a membership event, recheck every known user, trigger a recheck | the Telegram API, access |
| Telegram bot (`internal/telegram`) | the update offset | poll, dispatch, retry, issue login codes | Telegram API |
| Bot token (`cmd/server/bot_token.go`, `telegram/swap_aware_client.go`) | the stored token, the live client | verify, store, swap; choose the token at a start | Telegram API, the database |
| Certificates (`internal/acme`, `internal/tlsrunner`, `tls_settings_store.go`) | `tls_settings`, the certificate and the key file | save settings, obtain, install, record the outcome | certificate authorities, the outbox, subscriptions |
| Administration (`internal/auth`, `internal/httpapi`) | administrators, login codes, sessions, the login rate limiter | issue and consume a code, create a session, authenticate, log out, change roles | the bot, access |
| REALITY target (`internal/reality`) | `reality_health`; the search in progress with its workers and channels | search, hourly health check, notify, acknowledge | DNS, TLS, Telegram |
| Backup and restore (`cmd/backup`, `cmd/restore`) | the retention, encrypted dumps on disk | dump, prune, restore | PostgreSQL tools |

Pure parts (rendering of subscriptions and of the sing-box JSON, encryption,
parsing of the environment, the web pages, statistics queries) change no state
that any other part depends on and are not modelled.

### What is hard here

* **Interleaving.**  Nothing but the database synchronises the loops.  The worker
  reads a snapshot and installs it seconds later, while transactions go on; and
  transactions are READ COMMITTED, so that what one has read without a lock may have
  changed when it commits.
* **Lost and repeated calls.**  A commit whose reply is lost looks like a failure;
  completions and batches are then repeated.
* **Crashes.**  The worker and the traffic runner keep state in memory and files
  between steps; an installation is a dozen steps on disk.
* **Time.**  Leases, notices, minimum distances and quota periods are computed
  from a time taken once at the start of a step whose calls may be slow.
* **Check, then act.**  A request is authorised, a code consumed, a token verified
  and a retention read in one statement, and used in a later one.
* **One failing item stops the rest.**  A batch, a claim and the list of Telegram
  updates are handled as a whole.

`PROJECT.json` lists every hazard at its line, with the properties that cover it.

## 2. Modules

### CoreSync

How a change of access reaches the core.  Each user has `eligible`, `status`,
`gen` (the credential generation) and `blocked`; `version`, `failClosed` and `tls`
are the three global switches that decide what a snapshot contains.  Every
transaction of the stores is one action, `Enqueue` is its insert with
`ON CONFLICT DO NOTHING`, and either it commits at once (`EnqueueAtOnce`) or it is one that
was open while others committed (`open`, `EnqueueLate`).  The worker is five phases (`idle`, `load`, `list`,
`install`, `complete`): the two queries of `SnapshotBuilder.Build` are separate
steps, so that any transaction may come between them.  A configuration is, per
user, the generation and the settings version it was built from.  `file` is the
active file and `core` what the core runs.

Transactions are READ COMMITTED (`transaction_runner.go:30`).  `BeginTransaction`
is a transaction whose statements have run and whose commit is still to come: it has
chosen its rows by what it read, inserted those that met no uncompleted row, and holds
the locks of its kind.  Transactions that want these locks wait for it; the others,
and the worker, go on.  Its commit applies what it does to the locked rows and to
nothing it read without a lock.  One transaction may be open at a time, which is
enough for two to overlap; each opening counts as a fault.

Time is abstract here: a leased row becomes due at some moment, and the notice is
over at some poll.

* `StaleIsQueued`: wherever the core or its file serves something else than the
  database grants, a row that repairs it is waiting.  This is what the outbox
  pattern is for, and it holds through failed installations, rollbacks, lost
  replies and restarts, with two exceptions that are part of the statement: a core
  without a file, and a user who is `stranded`.  Stranded is who was left without a
  row in one of two ways: his insert met a row the worker was already serving
  (`dropped`), or a transaction that was overtaken while open did not queue him, either
  because of what it had read before or because the row its insert met was completed
  before it committed.  He stays so until the next installation.
* `InFlightIsQueued`: the same for what the worker is about to install.
* `Restorable`: no row is stored that `RestoreAccessAccount` refuses to load.
* `NoOlderCredentials`: replaced secrets never come back.
* `RowsAreCompleted` (liveness): no row stays queued for ever once there are settings.
* `KeepsOutboxPromise`: the worker implements `OutboxPromise`, see below.
* `RevocationReachesCore`, `NoServiceWithoutCertificate`: promises of
  `agent/question.md` that the code does not keep (section 5).

### CoreWorker

The same worker with its clock: rows with `wait` (their `available_at`), attempts
and ages, `pending`, and the ages of the notice, the last planned restart and the
installation.  `Tick` is one second of polling; `SlowTick` is a tick spent inside a
call, at most `MaxSlow` of them.  `IsBatch` is the order and limit of `ClaimDue`,
`Decide` the branch in `Step`, `DeployFails` is `Worker.fail` with one retry per row.

* `PlannedIsAnnounced`: the core is never restarted for a plan without the notice,
  unless the notice failed before its first message (`NoticeFails`, `unheard`;
  section 5).
* `PlannedRestartsSpaced`: planned restarts keep the distance as far as the worker
  knows of them.
* `NotInstalledTwice` (proved, not run): a failed completion is repeated, never the
  installation.  `KeepsOutboxPromise` implies it and is run.
* `HeldIsLeased`: the lease of a row covers the time it is held before it is
  deployed.  It speaks of fewer failed calls than the lease has ticks beyond the
  limit: each poll that fails keeps a row waiting for one more tick, a database that
  fails for longer uses the lease up, and `ClaimDuplicate` is what follows.
* `RowsAreServedInTime`: the order and the limit of claims starve nobody: a
  revocation is deployed at the next poll if the revocations of all users fit in one
  batch, and a change within the limit.  The age of a change starts again when a full
  batch leaves it behind (`LeavesBehind`): nothing in `ClaimDue` keeps a change from
  waiting for ever while every poll finds `actionBatchLimit` revocations.
* `KeepsOutboxPromise`: this worker, too, implements `OutboxPromise`.

### OutboxPromise

What the worker promises the transactions, without its clock and without what it
deploys: a row leaves the outbox only after a deployment that began when the worker
already held the row, no row joins a deployment under way, a failed one gives its
rows back, and what is deployed is not deployed again before it is completed.
CoreSync and CoreWorker describe the same worker with different detail; that both
implement this one specification is what their actions have in common, checked.
The promise is about rows: an insert that finds the row of its user claimed already
adds none, which is the finding `RevocationReachesCore`.

### ConfigDeployment and InstallPromise

`Installer.Install` with every file operation and every call as one step; each may
fail, the process may stop between any two of them, and the core may restart by
itself.  `InstallPromise` is the abstract contract: a success puts the new
configuration into the file and the core, and anything else leaves each of them as
before, new or empty.  `KeepsPromise` states that ConfigDeployment implements it
(refinement), and the actions `InstallSucceeds` and `CutShort` of CoreSync are its
two actions.

* `KeepsLastUsable`: after at most one failure per installation the last usable
  configuration is the active one.
* `LastUsableOnDisk`: through any failures and crashes it stays on the disk.

### TrafficAccounting

From the counters of the core to the quota windows: `Collect` reads and resets,
`Save` writes the spool, `Record` is the transaction of `recordBatch`, `Delete`
removes the spool; the next step replays what is left.  Every byte the core ever
carried is in `carried` and every byte given up in `lost`, so that counting twice
and losing silently are both visible.  The sweep, the settings update and the
provisioning write the same windows.  `ObserveFailure` and `ObserveRecovery` are
the fail-closed switch.

* `Conserved`: every byte is in one place exactly.
* `BlockedMatchesUsage`, `PeriodsAreConsecutive`: what the writers of a window keep
  true between them, and what `recordBatch` relies on.
* `FailClosedIsEarned`, `RecoveryAfterAccounting`; and `NoResetWhilePending`, which
  is proved and not run.
* `FailClosedEnds`: does not hold (section 5).

### Qualification

The Telegram bot and the recheck as two threads that write the same column.
`queue` is what Telegram still holds for the bot, `batch` and `done` are the last
response and how far the offset is past it; `Handled` moves the offset and
`Retried` is `continue poll`, which asks for the same updates again.  `job` is the
evaluation a thread is at: the rules are read once (`Evaluation`), one chat after
the other is looked up (`Lookup`), and the decision is written later (`Apply`).
Meanwhile users move, administrators are appointed and removed, change rules and press
the buttons that were sent to them (`asked`).  `sched`, `left` and `wakePending` are
`RecheckScheduler.Run` with a cycle inside; `untriggered` is the moment between the
commit of a changed rule and its `Trigger`.  A commit may take effect and be reported
as an error: of a rule (`ChangeReplyLost`), a decision (`TakePress`), an evaluation
(`ApplyFails`) and a claim (`ClaimFails`).

* `LoyalIsNeverRevoked`: timeouts, errors, restarts and replayed updates never take
  access from a user who never left a chat.
* `ChangeIsRechecked`: a rule that was changed with success always starts a cycle that
  begins after it.  One that was committed but reported as an error is left to the
  timer (section 5), which `EligibilityConverges` covers.
* `EligibilityConverges` (liveness): whatever is written over what, `eligible` comes
  to be what the rules say.
* `OnlyPressesBlock` (liveness): the bot handles every update, except for what
  `EveryEventIsHandled` (section 5) is about: a press that the account does not allow,
  or of an administrator who was removed, and what waits behind it.

### Certificates

`tls_settings` and the two files of `FileInstaller`, each written at a step of its
own, with time as ticks of `Coordinator.Run`.  `wanted` is the domain a round
obtains a certificate for: the settings may be saved again meanwhile.  `expires` is
what the row says, `chainLeft` what the file is worth.  `loadable` is false after a
`Save` that `LoadForIssuance` refuses.

* `RenewedInTime`: fewer failing rounds in a row than the margin has never let a
  certificate expire.
* `ExpiryIsBacked`: the row never promises more than the file.
* `TornPairIsDue`: chain and key that do not match are replaced.
* `DomainConverges` (liveness): the certificate comes to be for the stored domain.
* `IssuedMatchesDomain`: does not hold in the meantime (section 5).  The name clients
  connect with is a setting of its own (`core_settings.tls_server_name`) that nothing
  compares with the certificate's domain; only the latter is modelled.

### Administration

Login codes, sessions and roles.  The bot issues a code (`issuing` is the moment
between reading the administrator and `Replace`), a browser logs in with it in three
statements (`LoginFlow.Exchange`: consume, create, audit), and a request that changes a
role is authorised before its transaction begins and waits for the lock.  `term`
counts the removals of an administrator: it is the history by which a session of an
earlier appointment is told from one of the present.  Lifetimes of codes and
sessions pass with `AdminTick`.

* `SessionsAreEarned`: a code makes one session at most, and a removal ends what was
  given to an administrator.  A session created between the removal's delete and its
  commit survives it like one created after it; the exception `late` is both.
* `RolesChangeByOwners` (action property): whoever changes a role is an active owner
  at that moment, and nobody changes the root owner.

### LoginRateLimit

`LoginRateLimiter` with its three sliding windows (account, address, everybody) and
attempts that are pending while the code is checked.  An attempt's id is its place in
the order of arrival, so a set of ids stands for each of the limiter's lists.

* `GuessesAreLimited`: within any window no more attempts are let in than the limits
  say, however they overlap and whatever a success clears.

### BotToken

Several rotations of the bot token at once, each with the steps verify, save, swap;
Telegram revokes the old token when a new one is issued, and the process stops and
starts in between.

* `WorkingBotStartsAgain`: as long as the live client works, a start would choose its
  token, and it never is another bot's.  The token in the environment is taken not to
  change from one start to the next.

### RealityHealth and RealitySearch

The hourly check reads the target, records the health with the notice it owes, sends
it, and acknowledges it, while the target is changed.  The search hands domains to
its workers over an unbuffered channel and collects results from a buffered one.

* `NoticesMatchHealth`: when no notice is due, the last notice an administrator received
  says what the row says, unless the last one sent reached nobody (`unheard`): sends
  that fail are only counted (section 5).
* `SearchEnds` (liveness): no worker and not the feeder is left blocked.
* `SearchNeverStuck` and `SearchAdvances` (proved, not run): while a search runs one
  of its goroutines can go on, whenever the budget ends, and every step leaves less to
  do, counted by `WorkLeft`.  These are the two halves of `SearchEnds` that do not
  speak of fairness; the run checks the whole.

### Backup

One attempt after the other: the retention is read, a dump takes days or fails, the
archive is written, and expired ones are removed one by one.

* `OnlySupersededPruned` (action property): an archive goes only when a younger one
  is there and a retention that was in force during the attempt has passed.

### Operations

The six modules above share no state, and `Operations` is their common
specification: `watched` names the part whose steps a behaviour follows, and the
others stutter.  Each of their properties speaks of one part, and each specification
allows stuttering, so a property holds of the part alone exactly if it holds here;
one direction of that is the theorem `PartsRunTogether`.

### How the modules fit together

`CoreSync` relies on `InstallPromise` for an installation (its `InstallSucceeds`,
`CutShort` and `CoreRestarts` are that module's steps) and `ConfigDeployment` is
shown to implement it.  `CoreSync` abstracts the clock that `CoreWorker` has, and
`CoreWorker` abstracts what is deployed; both implement `OutboxPromise`.
`RecordTraffic`, `FailClosed` and `RecoverFromFailClosed` of `CoreSync` are what `TrafficAccounting` decides;
`SetEligibility` and `Approve` are what `Qualification` decides; `RecordIssuance`,
`RecordFailure` and `CertificateExpires` are what `Certificates` decides.  In each
case the module that uses the outcome allows it at any moment, so that its
properties hold whatever the other module does.

## 3. Runs

`tlc -config <cfg> <module>` with the modules and files of `PROJECT.json`.

| Run | Bounds | Shows |
|---|---|---|
| `core_sync_one` | 1 user, 2 generations, 1 settings version, 1 fault or overtaken transaction | safety and liveness of CoreSync, and its refinement of OutboxPromise |
| `core_worker_one` | 1 user (2 rows), claim limit 1, notice 2, limit 4, lease 8, 2 faults, 8 slow ticks | the properties of CoreWorker, and its refinement of OutboxPromise |
| `config_deployment` | 3 configurations | every failure at every step, and the refinement |
| `traffic_accounting_one` | 1 user, period 2, clock 4, 2 bytes, 2 faults | the properties of TrafficAccounting |
| `qualification_one` | 1 user, 2 chats, 1 administrator, 2 events, 1 fault | safety and liveness of Qualification |
| `certificates_renewal` | 2 domains, validity 5, margin 3, 2 failures in a row, 3 saves | safety and liveness of Certificates |
| `operations` | see below | the properties of the six modules of Operations |

The five runs of section 5 look for a counterexample and find one.

**Why one user.**  Rows, windows and decisions are per user; users meet in a held
batch, in the order of claims, and in a snapshot.  Two actions of one user
(`revoke` and `reconcile`) already compete for a batch of one row, and the proofs
of section 4 hold for any set of users.  Two generations are enough for an older
and a newer secret, one settings version for "not configured" and "configured", two
faults for a failure while repairing a failure (CoreSync makes do with one, since its
safety properties are proved for any number; an overtaken transaction needs no second
one to do its harm), one administrator who is or is not one, two periods for the sweep to begin
one that the account does not know, two chats for an evaluation with a moment in
between, three configurations for an old one, a new one and the one after it.

**The run `operations`.**  Two administrators, one of them the root owner, two
browsers, two codes and one removal: a second browser tries the same code, and an
administrator is removed and appointed again while his code or session is alive.  Two
accounts, two addresses, limits 1, 2 and 3 and four attempts: each of the three
windows is the one that refuses.  Two rotations and two reissued tokens: the later one
overtakes the earlier one.  Two REALITY targets: the target changes and changes back
during a check.  Two workers and three domains: a worker takes a second one, and one
waits to send while the other probes.  Retentions of one and two days, three archives
and four days: the retention is raised and lowered during a dump, and more than one
archive is expired at once.

**Bounds in guards.**  `MaxGen`, `MaxVersion`, `MaxFaults`, `MaxSlow`, `MaxTime`,
`MaxBytes`, `MaxEvents`, `MaxOutage`, `MaxSaves`, `MaxCodes`, `MaxRemovals`,
`MaxAttempts`, `MaxClock`, `MaxToken`, `MaxArchives` and `MaxAge` count what the environment may
do.  They are constants of the modules, and the theorems hold for all of them.
`CHECK_DEADLOCK FALSE` stands only where these bounds end a behaviour.

**Fairness.**  The worker polls every second, the traffic runner every 15 seconds,
the coordinator every hour and the scheduler after its interval; a call that is
made is assumed to return.  So the steps of each loop that report success or an
ordinary outcome are weakly fair, as is the end of a lease and the clock.  Nothing
is assumed of users, administrators and authorities; faults are finitely many,
because each counts against its bound.  `Trigger` is fair because it is the next
statement after the commit.  `SearchFairness` is the Go scheduler: a goroutine whose
next step is possible takes it, a probe ends because its dialer has a deadline, and
nothing is assumed of the budget.

Each property of a passing run has a mutant: an operator marked "seeded error" next
to the one it replaces, which breaks exactly that property.

## 4. Proofs

Eight modules hold theorems, each about the specifications of the modules it extends
and for every value of their constants.

* **CoreSyncProofs**: `IInv == TypeOK /\ Restorable /\ SyncInv /\ OrderInv`.
  `StaleIsQueued` alone is not inductive: `Complete` removes the very rows that made
  it true.  `SyncInv` therefore adds `InFlightIsQueued` (what is on its way to the
  core is repaired by a row the worker does not hold), `DroppedIsHeld` (an insert is
  dropped only against a held row) and `Deploying`.  The argument is uniform: every
  transaction either leaves what a user is entitled to or announces it, that is, finds
  or inserts a row that repairs it (`...Announces` lemmas), whether it commits at once
  or late; a late one that finds less than it needs strands the difference.  `DbStep`
  turns an announcement into `SyncInv'`, and the
  steps of the worker move an in-flight configuration to the file and the core
  without changing the database.  `OrderInv` adds the order of generations along
  snapshot, file and core.  The refinement needs `Deploying` (a deployment has rows)
  and the types.  Theorems: `TypeCorrect`, `StaleAlwaysQueued`, `InFlightAlwaysQueued`,
  `AlwaysRestorable`, `NeverOlderCredentials`, the refinement `OutboxAlwaysPromised`,
  and `RevocationsReachCore`, the promise of `RevocationReachesCore` for every user
  who is not stranded.
* **ConfigDeploymentProofs**: `IInv == TypeOK /\ FilesInv /\ OnDiskInv /\ LuckInv`
  says where the old and the new configuration are at each step.  Theorems:
  `TypeCorrect`, `LastUsableKept`, `LastUsableAlwaysOnDisk`, and the refinement
  `DeploymentKeepsPromise`.
* **CertificatesProofs**: `BackedInv` and `PairInv` say what the files are at each
  step, `LoadableInv` that stored settings stay, and `InTimeInv` pays each tick
  below the margin with a failure.  Theorems: `TypeCorrect`, `ExpiryAlwaysBacked`,
  `TornPairAlwaysDue`, `AlwaysRenewedInTime`.
* **TrafficAccountingProofs**: the windows are written by transactions only, the
  spool by the runner only, so the invariant is proved in independent parts and put
  together in `StepIInv`.  `WindowInv` needs that an accepted batch is not older than
  the period it is added to (`SampledFits`) and that a period starts whole periods
  after the first (`PeriodStartFits`).  `Conserved` is not inductive: that the batch
  written to the spool is new follows from `FreshInv`, by which no recorded batch
  has the time of the step that makes it, which in turn needs `TimeInv`.
  `HealthInv` ties the stored start of a failure to the first failure observed.
  Theorems: `TypeCorrect`, `AlwaysConserved`, `BlockedAlwaysMatches`,
  `PeriodsAlwaysConsecutive`, `FailClosedAlwaysEarned`, `NeverResetWhilePending`,
  `RecoveryOnlyAfterAccounting`.

* **CoreWorkerProofs**: the types come in parts (`RowTypes`, `RowStates`,
  `ClockTypes`, `FlagTypes`, `CountTypes`), and with them `InstalledInv`: the worker
  claims and deploys only without an installation to complete, and what it installed
  is still held.  `NoticeInv` follows a notice from the Step that gives it: while the
  worker counts one, the users have been warned no later than it believes, or the
  attempt to warn them failed.
  `SpacingInv` says that what the worker remembers of the last planned restart, in one
  of two variables, is what happened.  `HeldIsLeased` needs a ledger of the lease:
  the worker waits on rows only under a notice (`HeldNoticed`), the notice began after
  the last planned restart, so that at the limit it is ready (`NoticeFollows`,
  `ReadyAtLimit`), and a lease loses no more than the notice has lasted, then one tick
  for each poll that failed (`Covered`).
  `RowsAreServedInTime` needs, for the behaviours without faults it speaks of, that an
  installation is completed in its Step (`StepsAreQuick`), that the worker sleeps on
  rows only while it is not ready (`SleepsOnlyUnready`), and the age of each row at
  each phase (`RowsInTime`); `FullBatch` and `LeftBehind` say by cardinalities what
  a claim leaves behind.  Theorems: `TypeCorrect`, `NeverInstalledTwice`,
  `PlannedAlwaysAnnounced`, `PlannedAlwaysSpaced`, `HeldAlwaysLeased`,
  `ServedAlwaysInTime`, and the refinement `OutboxAlwaysPromised`.
* **QualificationProofs**: the types in parts again.  `ChangeIsRechecked` is inductive
  with them.  `LoyalIsNeverRevoked` is not: `LoyalInv` adds that Telegram answers
  "member" for such a user in every chat, that no membership event about him is
  queued, and that no evaluation of him holds a "not_member" or is over without any
  answer; `AccountStep` isolates the one ground of a revocation, and `LoyalDecision`
  shows that it never arises.  Theorems: `TypeCorrect`, `ChangeAlwaysRechecked`,
  `LoyalNeverRevoked`.
* **AdministrationProofs**: `RolesInv` says that what `ValidateRoleChange` found stays
  true while the lock is held.  `EarnedInv` is `OneSessionPerCode` (every code is in
  one place: stored, being used, or in one session) and `PresentTerm` (what is not
  late stems from the present appointment).  Theorems: `AdminTypeCorrect`,
  `SessionsAlwaysEarned`, `RolesAlwaysChangeByOwners`.
* **OperationsProofs**: for RealityHealth, `HealthInv` (what a check is about to do
  agrees with the row it recorded); for BotToken, `TokenInv` with `AgreeInv` (rotations
  past their verification agree on the token as long as none overlapped); for Backup,
  `PruneInv` (while an attempt prunes, its own archive is the youngest); for
  LoginRateLimit, `ListedInv` (every guess that counts is in the lists of its account,
  of its address and of everybody) with `ListsAreShort`, and `PastInv`, by which a
  success ends later than every failure before it and so leaves only what is pending
  to count; for RealitySearch, `SendersHaveRoom`, by which the results delivered and
  those about to be never exceed the domains handed out, so that the buffered channel
  is never full in front of a worker, and the measure `WorkLeft`, a natural number
  below a bound in workers and domains (`SearchWorkBounded`).  Then the composition:
  Operations implements the specification of each of its parts (`PartsRunTogether`),
  so that it has their types (`OperationsTypeCorrect`) and their properties
  (`PartsKeepTheirPromises`).  Theorems besides: `NoticesAlwaysMatch`,
  `WorkingBotAlwaysStartsAgain`, `OnlySupersededEverPruned`, `GuessesAlwaysLimited`,
  `SearchNeverGetsStuck`, `SearchAlwaysAdvances`, and the types of the five.

The assumptions are those the modules name: bounds are natural numbers, `NoConfig`
is no configuration and `NoDomain` no domain, and in Certificates that the margin
is positive and smaller than the validity and that fewer rounds fail in a row than
it has (`OutageAssumption`: thirty days of hourly rounds); in CoreWorker that the
notice is shorter than the limit and the limit shorter than the lease
(`TimesAssumption`) and the users are finitely many; in RealitySearch that there
are workers, finitely many (`Concurrency` is 1 to 5); in Administration that the root owner is an administrator and
`"free"`, the state of the lock, no browser.

Liveness under fairness and `ENABLED` are out of the prover's reach and are
model-checked only; so would be an induction over data, and no module declares a
RECURSIVE operator.  Model-checked only are therefore `RowsAreCompleted`,
`DomainConverges`, `EligibilityConverges`, `OnlyPressesBlock` and `SearchEnds`.  Every
invariant and every other property of the passing runs is also a theorem.

## 5. What the code does not keep

Each has a run with a counterexample and an entry under `findings`.

* `RevocationReachesCore`: an insert that meets a row the worker holds is dropped,
  and that row is completed for the older snapshot.
* `NoServiceWithoutCertificate`: when the certificate has expired and every
  authority fails, nothing is queued and the core goes on serving.
* `FailClosedEnds`: the sweep advances one of two copies of the period; every later
  batch of that user is refused as a whole, and accounting stays closed for all.
* `EveryEventIsHandled`: a button that the account no longer allows, or that an
  administrator presses who was removed, is an error that is retried for ever in front
  of every later update.
* `IssuedMatchesDomain`: saving another domain leaves the gate of the subscriptions
  open with the certificate of the old one.

Seen on the way and stated as an exception in a property, not as a run: the recovery
from fail-closed and a transaction that unblocks a user each leave the row to the other
when they overlap, and the insert of the recovery may meet a row that is completed
before it commits (`stranded`; question.md:69 promises the row); a notice that fails
before its first message is not repeated, and the core is restarted all the same
(`unheard` of CoreWorker; question.md:91); a notice about the REALITY target that reached
no administrator is acknowledged like any other (`unheard` of RealityHealth;
question.md:125); a change of the rules whose commit lost its reply is in force, but no
recheck is triggered (`ChangeReplyLost`; question.md:21); a failed installation that restarted the core is forgotten by the spacing of planned
restarts (`disturbed`); slow messages eat up the notice of those who are told last
(`slow`); settings of mode `custom` with `dns_01` are stored and can then not be
loaded (`neglected`); the chats of an evaluation are looked up one after the other,
so that a user who changes from one accepted chat to another in between may be
found in neither; an administrator removed between two statements of a login or of
the issue of his code keeps a row that a new appointment within its lifetime makes
usable (`late`); two rotations of the bot token that overlap may leave a revoked token
stored, which takes precedence over the environment at every later start
(`overlapped`), while a stored token that cannot be read falls back to the environment
without an error (`main.go:83`); the windows of the login limiter are in memory and a
restart forgets them; a search that runs out of budget drops the targets it had
already confirmed.

## 6. Not modelled, and the plan

* **The restore tool** runs by hand with the services stopped; it replaces the whole
  database and shares no moment with anything else.
* **Rendering** of the sing-box configuration and of subscriptions, **encryption** and
  **parsing** of the environment are functions of their input.  What their results
  contain as far as other parts depend on it is in the models: `Snapshot` of CoreSync
  (which users), `loadable` of Certificates (which settings are accepted).
* **The controller, the ACME client and the statistics RPC** are calls whose outcomes
  are actions of their callers (`ConfigDeployment`, `Certificates`, `Collect`).
* **Web pages, overviews, statistics and the audit log** read, or append within a
  transaction that is modelled.
* **Deadlocks between transactions** are resolved by PostgreSQL, which aborts one; an
  aborted transaction is a failed call, which changes nothing.  Only CoreSync has a
  transaction that is open while others commit; in the other modules a transaction is
  one step, because it decides on rows it has locked (`recordBatch` locks the user and
  the window, `RecordRealityHealth` its row, a change of roles takes an advisory lock).
* **The target search** of REALITY is modelled with its goroutines and limits; which
  domains are sampled and how they are scored is a computation on their answers.

What is worth adding next: a composition of Qualification and CoreSync, so that a
decision is followed into the core in one behaviour; a proof that no step of
CoreSync is lost to stuttering, that is, of what `RowsAreCompleted` does not owe to
fairness (as `SearchNeverStuck` and `SearchAdvances` are of `SearchEnds`); and the
lock order of the transactions, with more than one of them open at a time.
