-------------------------- MODULE CoreWorkerProofs --------------------------
(***************************************************************************)
(* Proofs about CoreWorker, for any users, times, delays and bounds.  The  *)
(* types come in parts that are kept apart: what a row is, what the clock  *)
(* of the worker shows, and the flags.  On them rest the invariants: of    *)
(* the rows the process has installed, of the notice given to the users,   *)
(* of the time of the last planned restart, of the leases of the rows that *)
(* wait, and of the age at which a row is served.                          *)
(***************************************************************************)
EXTENDS CoreWorker, FiniteSetTheorems, TLAPS

RowTypes ==
    /\ outbox \subseteq Row
    /\ wait \in [Row -> Nat]
    /\ attempts \in [Row -> 0 .. MaxAttempts]
    /\ pending \in [Row -> 0 .. MaxAttempts]
    /\ age \in [Row -> Age]

\* Only a row of the outbox is held, ages, waits and counts its attempts.
RowStates ==
    \A row \in Row :
        /\ pending[row] > 0 => row \in outbox
        /\ (row \in outbox) <=> (age[row] # Zero)
        /\ row \notin outbox => wait[row] = 0 /\ attempts[row] = 0

ClockTypes ==
    /\ noticeAge \in Age /\ plannedAge \in Age /\ installedAge \in Age
    /\ warnedAge \in Age /\ restartAge \in Age

FlagTypes ==
    /\ phase \in Phase /\ planned \in BOOLEAN
    /\ disturbed \in BOOLEAN /\ unheard \in BOOLEAN

\* Step is only as old as the calls it made were slow.
CountTypes ==
    /\ stepAge \in Nat /\ slow \in Nat /\ stepAge <= slow /\ slow <= MaxSlow
    /\ faults \in 0 .. MaxFaults

\* The worker claims and deploys only without an installation to complete,
\* and what it has installed is still held.
InstalledInv ==
    /\ installed \subseteq Held
    /\ installedAge = Zero => installed = {}
    /\ phase \in {"notify", "deploy"} => installedAge = Zero
    /\ phase = "complete" => installedAge # Zero

TypeInv == RowTypes /\ RowStates /\ ClockTypes /\ FlagTypes /\ CountTypes /\ InstalledInv
-----------------------------------------------------------------------------
LEMMA Times ==
    /\ Notice \in Nat /\ Limit \in Nat /\ Lease \in Nat
    /\ 0 < Notice /\ Notice < Limit /\ Limit < Lease
    /\ MaxFaults \in Nat /\ MaxSlow \in Nat
    /\ MaxAttempts \in Nat /\ 0 < MaxAttempts
<1>1. /\ Notice \in Nat /\ Limit \in Nat /\ Lease \in Nat
      /\ 0 < Notice /\ Notice < Limit /\ Limit < Lease
  BY TimesAssumption
<1>2. MaxFaults \in Nat /\ MaxSlow \in Nat
  BY BoundsAssumption
<1>3. MaxAttempts \in Nat /\ 0 < MaxAttempts
  BY RetryAssumption DEF MaxAttempts
<1> QED
  BY <1>1, <1>2, <1>3

LEMMA DelayType ==
    ASSUME NEW n \in 0 .. MaxAttempts, n > 0
    PROVE  Delay(n) \in Nat
<1>1. Len(RetryDelay) \in Nat /\ \A i \in 1 .. Len(RetryDelay) : RetryDelay[i] \in Nat
  BY RetryAssumption
<1> QED
  BY <1>1, Times DEF Delay, MaxAttempts

\* Ages: a tick never makes one younger, nor an event happen.
LEMMA AgeFacts ==
    /\ Zero \in Age /\ 0 \in Age /\ Oldest \in Age /\ Zero # 0
    /\ \A a \in Age : /\ a \in Int /\ Older(a) \in Age /\ Older(a) \in Int
                      /\ (Older(a) = Zero) <=> (a = Zero)
                      /\ a <= Older(a)
                      /\ a # Zero => a >= 0
    /\ \A a, b \in Age : a # Zero /\ b # Zero /\ a <= b => Older(a) <= Older(b)
    /\ Oldest \in Int /\ Oldest = Limit + 1 /\ Zero \in Int /\ Zero < 0
<1>1. Oldest \in Nat /\ Oldest = Limit + 1 /\ Zero = -1
  BY Times DEF Oldest, Zero
<1> QED
  BY <1>1, Times DEF Age, Older
-----------------------------------------------------------------------------
LEMMA TypeInit == Init => TypeInv
<1> SUFFICES ASSUME Init
             PROVE  TypeInv
  OBVIOUS
<1>1. RowTypes
  BY Times, AgeFacts DEF Init, None, RowTypes
<1>2. RowStates
  BY Times, AgeFacts DEF Init, None, RowStates
<1>3. ClockTypes
  BY AgeFacts DEF Init, ClockTypes
<1>4. FlagTypes
  BY DEF Init, FlagTypes, Phase
<1>5. CountTypes
  BY Times DEF Init, CountTypes
<1>6. InstalledInv
  BY DEF Init, InstalledInv
<1> QED
  BY <1>1, <1>2, <1>3, <1>4, <1>5, <1>6 DEF TypeInv
-----------------------------------------------------------------------------
(* What each change of the rows does.                                       *)
LEMMA HeldFacts ==
    ASSUME RowTypes, RowStates
    PROVE  /\ Held \subseteq outbox /\ Held \subseteq Row
           /\ \A row \in Held : pending[row] \in 0 .. MaxAttempts /\ pending[row] > 0
           /\ None \in [Row -> 0 .. MaxAttempts] /\ \A row \in Row : None[row] = 0
  BY Times DEF Held, RowTypes, RowStates, None

LEMMA TimeKeeps ==
    ASSUME RowTypes, RowStates, ClockTypes, TimePasses
    PROVE  RowTypes' /\ RowStates' /\ ClockTypes' /\ Held' = Held
<1>1. wait' \in [Row -> Nat] /\ \A row \in Row : wait[row] = 0 => wait'[row] = 0
  BY DEF RowTypes, TimePasses
<1>2. age' \in [Row -> Age] /\ \A row \in Row : (age'[row] = Zero) <=> (age[row] = Zero)
  BY AgeFacts DEF RowTypes, TimePasses
<1>3. UNCHANGED <<outbox, attempts, pending>>
  BY DEF TimePasses
<1>4. ClockTypes'
  BY AgeFacts DEF ClockTypes, TimePasses
<1> QED
  BY <1>1, <1>2, <1>3, <1>4 DEF RowTypes, RowStates, Held

LEMMA LeaseKeeps ==
    ASSUME RowTypes, RowStates, NEW rows \in SUBSET Due, Leased(rows)
    PROVE  /\ wait' \in [Row -> Nat] /\ attempts' \in [Row -> 0 .. MaxAttempts]
           /\ UNCHANGED outbox
           /\ \A row \in Row \ rows : wait'[row] = wait[row] /\ attempts'[row] = attempts[row]
           /\ \A row \in rows : attempts'[row] > 0
           /\ rows \subseteq outbox /\ rows \subseteq Row
<1>1. rows \subseteq outbox /\ rows \subseteq Row
  BY DEF Due, RowTypes
<1>2. wait' \in [Row -> Nat] /\ \A row \in Row \ rows : wait'[row] = wait[row]
  BY Times DEF Leased, RowTypes
<1>3. /\ attempts' \in [Row -> 0 .. MaxAttempts]
      /\ \A row \in Row \ rows : attempts'[row] = attempts[row]
  BY Times DEF Leased, RowTypes
<1>4. \A row \in rows : attempts'[row] > 0
  BY <1>1, Times DEF Leased, RowTypes
<1> QED
  BY <1>1, <1>2, <1>3, <1>4 DEF Leased

LEMMA LeaseStates ==
    ASSUME RowTypes, RowStates, NEW rows \in SUBSET Due, Leased(rows), UNCHANGED <<age, pending>>
    PROVE  RowTypes' /\ RowStates' /\ Held' = Held
<1>1. RowTypes' /\ Held' = Held
  BY LeaseKeeps DEF RowTypes, Held
<1>2. RowStates'
  BY LeaseKeeps DEF RowStates
<1> QED
  BY <1>1, <1>2

\* The claimed rows are held, and those held before still are.
LEMMA ClaimKeeps ==
    ASSUME RowTypes, RowStates, NEW rows \in SUBSET Due, Leased(rows), LeavesBehind(rows),
           pending' = [row \in Row |-> IF row \in rows THEN attempts'[row] ELSE pending[row]]
    PROVE  RowTypes' /\ RowStates' /\ Held' = Held \union rows
<1>0. /\ age' \in [Row -> Age]
      /\ \A row \in Row : (age'[row] = Zero) <=> (age[row] = Zero)
  BY AgeFacts DEF LeavesBehind, RowTypes, RowStates, Due
<1>1. RowTypes'
  BY <1>0, LeaseKeeps DEF RowTypes
<1>2. Held' = Held \union rows
  BY LeaseKeeps DEF RowTypes, Held
<1>3. RowStates'
  <2>1. \A row \in Row : pending'[row] > 0 => row \in outbox
    BY LeaseKeeps DEF RowStates
  <2> QED
    BY <1>0, <2>1, LeaseKeeps DEF RowStates
<1> QED
  BY <1>1, <1>2, <1>3

LEMMA DropKeeps ==
    ASSUME RowTypes, RowStates, wait' \in [Row -> Nat],
           \A row \in Row \ Held : wait'[row] = wait[row],
           UNCHANGED <<outbox, attempts, age>>, pending' = None
    PROVE  RowTypes' /\ RowStates' /\ Held' = {}
<1>1. RowTypes' /\ Held' = {}
  BY HeldFacts DEF RowTypes, Held
<1>2. RowStates'
  BY HeldFacts DEF RowStates
<1> QED
  BY <1>1, <1>2

LEMMA CloseKeeps ==
    ASSUME RowTypes, RowStates, CloseHeldRows
    PROVE  RowTypes' /\ RowStates' /\ Held' = {} /\ installed' = installed \ Held
<1>1. outbox' \subseteq Row /\ wait' \in [Row -> Nat] /\ attempts' \in [Row -> 0 .. MaxAttempts]
  BY Times DEF RowTypes, CloseHeldRows
<1>2. pending' \in [Row -> 0 .. MaxAttempts] /\ (\A row \in Row : pending'[row] = 0) /\ Held' = {}
  BY HeldFacts DEF CloseHeldRows, Held
<1>3. age' \in [Row -> Age]
  BY AgeFacts DEF RowTypes, CloseHeldRows
<1>4. RowStates'
  <2>1. \A row \in Row : (row \in outbox') <=> (age'[row] # Zero)
    BY DEF RowTypes, RowStates, CloseHeldRows
  <2>2. \A row \in Row : row \notin outbox' => wait'[row] = 0 /\ attempts'[row] = 0
    BY DEF RowTypes, RowStates, CloseHeldRows
  <2> QED
    BY <1>2, <2>1, <2>2 DEF RowStates
<1> QED
  BY <1>1, <1>2, <1>3, <1>4 DEF RowTypes, CloseHeldRows
-----------------------------------------------------------------------------
\* The rows, action by action.
LEMMA RowStep == TypeInv /\ [Next]_vars => RowTypes' /\ RowStates'
<1> SUFFICES ASSUME TypeInv, [Next]_vars
             PROVE  RowTypes' /\ RowStates'
  OBVIOUS
<1> USE DEF TypeInv
<1>1. ASSUME UNCHANGED rowVars, UNCHANGED pending
      PROVE  RowTypes' /\ RowStates'
  BY <1>1 DEF rowVars, RowTypes, RowStates
<1>2. ASSUME NEW row \in Row, Queue(row)
      PROVE  RowTypes' /\ RowStates'
  <2>1. UNCHANGED <<wait, attempts, pending>> /\ outbox' = outbox \union {row} /\ row \notin outbox
    BY <1>2 DEF Queue, workerVars
  <2>2. age' = [age EXCEPT ![row] = 0]
    BY <1>2 DEF Queue
  <2>3. RowTypes'
    BY <2>1, <2>2, AgeFacts DEF RowTypes
  <2>4. RowStates'
    BY <2>1, <2>2, AgeFacts DEF RowTypes, RowStates
  <2> QED
    BY <2>3, <2>4
<1>3. CASE Tick \/ SlowTick
  BY <1>3, TimeKeeps DEF Tick, SlowTick
<1>4. CASE PollInstalled \/ Notified \/ NoticeFails \/ DeploySucceeds
  BY <1>1, <1>4 DEF PollInstalled, Notified, NoticeFails, DeploySucceeds, workerVars
<1>5. CASE Claim
  <2>1. PICK rows \in SUBSET Due :
          /\ Leased(rows)
          /\ LeavesBehind(rows)
          /\ pending' = [row \in Row |-> IF row \in rows THEN attempts'[row] ELSE pending[row]]
    BY <1>5 DEF Claim
  <2> QED
    BY <2>1, ClaimKeeps
<1>6. CASE ClaimDuplicate \/ ClaimFails
  <2>1. PICK rows \in SUBSET Due : Leased(rows) /\ UNCHANGED <<age, pending>>
    BY <1>6 DEF ClaimDuplicate, ClaimFails, workerVars
  <2> QED
    BY <2>1, LeaseStates
<1>7. CASE DeployFails
  <2>1. PICK retried \in SUBSET Held :
          wait' = [row \in Row |->
                     IF row \notin retried THEN wait[row]
                     ELSE IF Delay(pending[row]) > stepAge THEN Delay(pending[row]) - stepAge
                     ELSE 0]
    BY <1>7 DEF DeployFails
  <2>2. \A row \in retried : Delay(pending[row]) \in Nat
    BY <2>1, HeldFacts, DelayType
  <2>3. stepAge \in Nat
    BY DEF CountTypes
  <2>4. wait' \in [Row -> Nat]
    BY <2>1, <2>2, <2>3 DEF RowTypes
  <2>5. \A row \in Row \ Held : wait'[row] = wait[row]
    BY <2>1
  <2> QED
    BY <1>7, <2>4, <2>5, DropKeeps DEF DeployFails
<1>8. CASE CompleteSucceeds \/ CompleteFails
  BY <1>1, <1>8, CloseKeeps DEF CompleteSucceeds, CompleteFails
<1>9. CASE Restart
  BY <1>9, DropKeeps DEF Restart, rowVars, RowTypes
<1>10. CASE UNCHANGED vars
  BY <1>1, <1>10 DEF vars, workerVars
<1> QED
  BY <1>2, <1>3, <1>4, <1>5, <1>6, <1>7, <1>8, <1>9, <1>10 DEF Next

LEMMA DecideKeeps ==
    ASSUME ClockTypes, FlagTypes, NEW rows, Decide(rows)
    PROVE  noticeAge' \in Age /\ phase' \in {"sleep", "notify", "deploy"} /\ planned' \in BOOLEAN
<1>1. noticeAge' \in Age
  BY AgeFacts DEF ClockTypes, Decide
<1>2. phase' \in {"sleep", "notify", "deploy"}
  BY DEF Decide
<1>3. planned' \in BOOLEAN
  BY DEF FlagTypes, Decide, Ready, HasReconcile
<1> QED
  BY <1>1, <1>2, <1>3

LEMMA RestartKeeps ==
    ASSUME ClockTypes, CoreIsRestarted
    PROVE  warnedAge' \in Age /\ restartAge' \in Age
  BY AgeFacts DEF ClockTypes, CoreIsRestarted

\* The clock of the worker.
LEMMA ClockStep == TypeInv /\ [Next]_vars => ClockTypes'
<1> SUFFICES ASSUME TypeInv, [Next]_vars
             PROVE  ClockTypes'
  OBVIOUS
<1> USE DEF TypeInv
<1>1. ASSUME UNCHANGED <<noticeAge, plannedAge, installedAge, warnedAge, restartAge>>
      PROVE  ClockTypes'
  BY <1>1 DEF ClockTypes
<1> USE DEF workerVars, historyVars
<1>2. ASSUME NEW row \in Row, Queue(row)
      PROVE  ClockTypes'
  BY <1>1, <1>2 DEF Queue
<1>3. CASE Tick \/ SlowTick
  BY <1>3, TimeKeeps DEF Tick, SlowTick
<1>4. CASE PollInstalled \/ ClaimDuplicate \/ ClaimFails \/ NoticeFails \/ CompleteFails \/ UNCHANGED vars
  BY <1>1, <1>4 DEF PollInstalled, ClaimDuplicate, ClaimFails, NoticeFails, CompleteFails, vars
<1>5. CASE Claim
  <2>1. noticeAge' \in Age
    BY <1>5, DecideKeeps DEF Claim
  <2> QED
    BY <1>5, <2>1 DEF Claim, ClockTypes
<1>6. CASE Notified
  BY <1>6, AgeFacts DEF Notified, ClockTypes
<1>7. CASE DeploySucceeds
  <2>1. installedAge' \in Age
    BY <1>7, AgeFacts, Times DEF DeploySucceeds, CountTypes, Age
  <2> QED
    BY <1>7, <2>1, RestartKeeps DEF DeploySucceeds, ClockTypes
<1>8. CASE DeployFails
  BY <1>8, AgeFacts, RestartKeeps DEF DeployFails, Disturbs, ClockTypes
<1>9. CASE CompleteSucceeds
  BY <1>9, AgeFacts DEF CompleteSucceeds, ClockTypes
<1>10. CASE Restart
  BY <1>10, AgeFacts, RestartKeeps DEF Restart, ClockTypes
<1> QED
  BY <1>2, <1>3, <1>4, <1>5, <1>6, <1>7, <1>8, <1>9, <1>10 DEF Next

LEMMA FlagStep == TypeInv /\ [Next]_vars => FlagTypes'
<1> SUFFICES ASSUME TypeInv, [Next]_vars
             PROVE  FlagTypes'
  OBVIOUS
<1> USE DEF TypeInv, workerVars, historyVars
<1>1. phase' \in Phase
  BY DecideKeeps, Zenon DEF Next, Queue, Tick, SlowTick, PollInstalled, Claim, ClaimDuplicate, ClaimFails,
        Notified, NoticeFails, DeploySucceeds, DeployFails, CompleteSucceeds, CompleteFails, Restart, vars,
        FlagTypes, Phase
<1>2. planned' \in BOOLEAN
  BY DecideKeeps, Zenon DEF Next, Queue, Tick, SlowTick, TimePasses, PollInstalled, Claim, ClaimDuplicate,
        ClaimFails, Notified, NoticeFails, DeploySucceeds, DeployFails, CompleteSucceeds, CompleteFails,
        Restart, vars, FlagTypes
<1>3. disturbed' \in BOOLEAN
  BY Zenon DEF Next, Queue, Tick, SlowTick, PollInstalled, Claim, ClaimDuplicate, ClaimFails,
        Notified, NoticeFails, DeploySucceeds, DeployFails, Disturbs, CompleteSucceeds, CompleteFails,
        Restart, vars, FlagTypes
<1>4. unheard' \in BOOLEAN
  BY Zenon DEF Next, Queue, Tick, SlowTick, TimePasses, PollInstalled, Claim, ClaimDuplicate,
        ClaimFails, Notified, NoticeFails, DeploySucceeds, DeployFails, CompleteSucceeds, CompleteFails,
        Restart, vars, FlagTypes
<1> QED
  BY <1>1, <1>2, <1>3, <1>4 DEF FlagTypes

LEMMA CountStep == TypeInv /\ [Next]_vars => CountTypes'
<1> SUFFICES ASSUME TypeInv, [Next]_vars
             PROVE  CountTypes'
  OBVIOUS
<1> USE DEF TypeInv
<1>1. ASSUME UNCHANGED <<stepAge, slow>>, UNCHANGED faults \/ Fault
      PROVE  CountTypes'
  BY <1>1, Times DEF CountTypes, Fault
<1>2. ASSUME NEW row \in Row, Queue(row)
      PROVE  CountTypes'
  BY <1>1, <1>2 DEF Queue
<1>3. CASE Tick
  BY <1>3 DEF Tick, TimePasses, CountTypes
<1>4. CASE SlowTick
  <2>1. slow < MaxSlow /\ slow' = slow + 1 /\ stepAge' = stepAge + 1 /\ UNCHANGED faults
    BY <1>4 DEF SlowTick, TimePasses
  <2> QED
    BY <2>1, Times DEF CountTypes
<1>5. CASE PollInstalled \/ Claim \/ ClaimDuplicate \/ Notified \/ NoticeFails \/ DeploySucceeds \/ CompleteSucceeds
  BY <1>1, <1>5 DEF PollInstalled, Claim, ClaimDuplicate, Notified, NoticeFails, DeploySucceeds, CompleteSucceeds
<1>6. CASE ClaimFails \/ DeployFails \/ CompleteFails \/ Restart
  BY <1>1, <1>6 DEF ClaimFails, DeployFails, CompleteFails, Restart
<1>7. CASE UNCHANGED vars
  BY <1>1, <1>7 DEF vars
<1> QED
  BY <1>2, <1>3, <1>4, <1>5, <1>6, <1>7 DEF Next
-----------------------------------------------------------------------------
\* What is installed.
LEMMA InstalledStep == TypeInv /\ [Next]_vars => InstalledInv'
<1> SUFFICES ASSUME TypeInv, [Next]_vars
             PROVE  InstalledInv'
  OBVIOUS
<1> USE DEF TypeInv, InstalledInv, workerVars, historyVars
<1>1. CASE \E row \in Row : Queue(row)
  BY <1>1 DEF Queue, Held
<1>2. CASE Tick \/ SlowTick
  <2>1. /\ Held' = Held /\ UNCHANGED installed
        /\ (installedAge' = Zero) <=> (installedAge = Zero)
    BY <1>2, TimeKeeps, AgeFacts DEF Tick, SlowTick, TimePasses, ClockTypes
  <2> QED
    BY <1>2, <2>1 DEF Tick, SlowTick
<1>3. CASE PollInstalled \/ Notified \/ NoticeFails \/ UNCHANGED vars
  BY <1>3 DEF PollInstalled, Notified, NoticeFails, vars, Held
<1>4. CASE Claim
  <2>1. phase' \in {"sleep", "notify", "deploy"}
    BY <1>4, DecideKeeps DEF Claim
  <2>2. installed' = {} /\ installedAge' = Zero
    BY <1>4 DEF Claim
  <2> QED
    BY <2>1, <2>2
<1>5. CASE ClaimDuplicate \/ ClaimFails
  BY <1>5 DEF ClaimDuplicate, ClaimFails, Held
<1>6. CASE DeploySucceeds
  <2>1. installedAge' # Zero
    BY <1>6, AgeFacts, Times DEF DeploySucceeds, CountTypes, Zero
  <2> QED
    BY <1>6, <2>1 DEF DeploySucceeds, Held
<1>7. CASE DeployFails
  BY <1>7 DEF DeployFails
<1>8. CASE CompleteSucceeds
  BY <1>8, CloseKeeps DEF CompleteSucceeds
<1>9. CASE CompleteFails
  <2>1. installed' \subseteq Held'
    BY <1>9, CloseKeeps DEF CompleteFails, Held
  <2> QED
    BY <1>9, <2>1 DEF CompleteFails
<1>10. CASE Restart
  BY <1>10 DEF Restart
<1> QED
  BY <1>1, <1>2, <1>3, <1>4, <1>5, <1>6, <1>7, <1>8, <1>9, <1>10 DEF Next

LEMMA TypeStep == TypeInv /\ [Next]_vars => TypeInv'
  BY RowStep, ClockStep, FlagStep, CountStep, InstalledStep DEF TypeInv

LEMMA TypeAlways == Spec => []TypeInv
  BY TypeInit, TypeStep, PTL DEF Spec

\* Only rows of the outbox are held or installed, a row that is closed loses
\* its delay and its attempts with it, and no Step is older than the calls it
\* made (Worker.pending, core_action_outbox).
THEOREM TypeCorrect == Spec => []TypeOK
<1>1. TypeInv => TypeOK
  <2> SUFFICES ASSUME TypeInv
               PROVE  TypeOK
    OBVIOUS
  <2> USE DEF TypeInv
  <2>1. stepAge \in 0 .. MaxSlow /\ slow \in 0 .. MaxSlow /\ faults \in 0 .. MaxFaults
    BY Times DEF CountTypes
  <2>2. installed \subseteq outbox
    BY HeldFacts DEF InstalledInv
  <2>3. {noticeAge, plannedAge, installedAge} \subseteq Age /\ {warnedAge, restartAge} \subseteq Age
    BY DEF ClockTypes
  <2>4. phase \in Phase /\ planned \in BOOLEAN /\ {disturbed, unheard} \subseteq BOOLEAN
    BY DEF FlagTypes
  <2> QED
    BY <2>1, <2>2, <2>3, <2>4 DEF RowTypes, RowStates, TypeOK
<1> QED
  BY <1>1, TypeAlways, PTL

\* Claiming is only possible when no installation is left to complete, and a
\* completion that reported an error leaves it so: the rows the core already
\* runs are completed, never deployed again (Worker.Step, installedAt).
THEOREM NeverInstalledTwice == Spec => []NotInstalledTwice
<1>1. TypeInv => NotInstalledTwice
  BY DEF TypeInv, InstalledInv, NotInstalledTwice
<1> QED
  BY <1>1, TypeAlways, PTL
-----------------------------------------------------------------------------
(* The notice.                                                              *)

\* While the worker counts a notice that nothing has used up, the users have
\* been warned, unless the notice reached nobody, and no later than the worker
\* believes unless a call was slow.
Warned ==
    noticeAge # Zero /\ installedAge = Zero /\ phase # "notify" /\ ~unheard =>
        warnedAge # Zero /\ (slow = 0 => noticeAge <= warnedAge)

\* It is counted from the Step that gives it, and a plan is only carried out
\* when it is over.
Noticed ==
    /\ phase = "notify" => noticeAge # Zero /\ (slow = 0 => noticeAge = 0)
    /\ PlannedRestart => noticeAge # Zero /\ noticeAge >= Notice

NoticeInv == Warned /\ Noticed

LEMMA NoticeStep == TypeInv /\ NoticeInv /\ [Next]_vars => NoticeInv'
<1> SUFFICES ASSUME TypeInv, NoticeInv, [Next]_vars
             PROVE  NoticeInv'
  OBVIOUS
<1> USE DEF TypeInv, workerVars, historyVars
<1>1. ASSUME UNCHANGED <<phase, noticeAge, installedAge, warnedAge, unheard, slow, pending>>
      PROVE  NoticeInv'
  BY <1>1 DEF NoticeInv, Warned, Noticed, PlannedRestart, Held, HasRevoke
<1>2. ASSUME phase' \notin {"notify", "deploy"},
             noticeAge' = Zero \/ installedAge' # Zero
      PROVE  NoticeInv'
  BY <1>2 DEF NoticeInv, Warned, Noticed, PlannedRestart
<1>3. ASSUME UNCHANGED <<noticeAge, installedAge, warnedAge, unheard, slow>>, phase # "notify",
             phase' \notin {"notify", "deploy"}
      PROVE  NoticeInv'
  BY <1>3 DEF NoticeInv, Warned, Noticed, PlannedRestart
<1>4. CASE \E row \in Row : Queue(row)
  BY <1>1, <1>4 DEF Queue
<1>5. ASSUME TimePasses, phase' = phase \/ phase' = "poll",
             UNCHANGED slow \/ slow' # 0, phase = "notify" => slow' # 0,
             phase' = "poll" => phase # "notify"
      PROVE  NoticeInv'
  <2>1. /\ noticeAge' = Older(noticeAge) /\ installedAge' = Older(installedAge)
        /\ warnedAge' = Older(warnedAge) /\ unheard' = unheard /\ Held' = Held
        /\ noticeAge \in Age /\ warnedAge \in Age /\ installedAge \in Age
    BY <1>5, TimeKeeps DEF TimePasses, ClockTypes
  <2>2. Warned'
    <3>1. /\ (noticeAge' = Zero) <=> (noticeAge = Zero)
          /\ (installedAge' = Zero) <=> (installedAge = Zero)
          /\ (warnedAge' = Zero) <=> (warnedAge = Zero)
          /\ noticeAge # Zero /\ warnedAge # Zero /\ noticeAge <= warnedAge
               => noticeAge' <= warnedAge'
      BY <2>1, AgeFacts
    <3> QED
      BY <1>5, <2>1, <3>1 DEF NoticeInv, Warned
  <2>3. Noticed'
    <3>1. /\ noticeAge # Zero => noticeAge' # Zero
          /\ noticeAge >= Notice => noticeAge' >= Notice
      BY <2>1, AgeFacts, Times
    <3> QED
      BY <1>5, <2>1, <3>1 DEF NoticeInv, Noticed, PlannedRestart, HasRevoke
  <2> QED
    BY <2>2, <2>3 DEF NoticeInv
<1>6. CASE Tick
  BY <1>5, <1>6 DEF Tick
<1>7. CASE SlowTick
  <2>1. slow' # 0
    BY <1>7 DEF SlowTick, CountTypes
  <2> QED
    BY <1>5, <1>7, <2>1 DEF SlowTick
<1>8. CASE PollInstalled \/ ClaimDuplicate \/ ClaimFails \/ CompleteFails
  BY <1>3, <1>8 DEF PollInstalled, ClaimDuplicate, ClaimFails, CompleteFails
<1>9. CASE Claim
  <2>1. PICK rows \in SUBSET Due :
          /\ Leased(rows)
          /\ LeavesBehind(rows)
          /\ pending' = [row \in Row |-> IF row \in rows THEN attempts'[row] ELSE pending[row]]
          /\ Decide(Held \union rows)
    BY <1>9 DEF Claim
  <2>2. Held' = Held \union rows
    BY <2>1, ClaimKeeps
  <2>3. phase = "poll" /\ UNCHANGED <<installedAge, warnedAge, unheard, slow>>
    BY <1>9 DEF Claim
  <2>4. CASE noticeAge = Zero /\ phase' = "notify" /\ noticeAge' = 0
    BY <2>4, AgeFacts DEF NoticeInv, Warned, Noticed, PlannedRestart
  <2>5. CASE UNCHANGED noticeAge /\ phase' = "deploy" /\ HasRevoke(Held')
    BY <2>3, <2>5 DEF NoticeInv, Warned, Noticed, PlannedRestart, HasRevoke
  <2>6. CASE UNCHANGED noticeAge /\ phase' = "sleep"
    BY <1>3, <2>3, <2>6
  <2>7. CASE UNCHANGED noticeAge /\ noticeAge # Zero /\ phase' = "deploy" /\ Ready
    BY <2>3, <2>7 DEF NoticeInv, Warned, Noticed, Ready
  <2> QED
    BY <2>1, <2>2, <2>4, <2>5, <2>6, <2>7 DEF Decide
<1>10. CASE Notified
  <2>1. phase = "notify" /\ phase' = "sleep" /\ warnedAge' = 0 /\ UNCHANGED <<noticeAge, slow>>
    BY <1>10 DEF Notified
  <2>2. slow = 0 => noticeAge = 0
    BY <2>1 DEF NoticeInv, Noticed
  <2> QED
    BY <2>1, <2>2, AgeFacts DEF NoticeInv, Warned, Noticed, PlannedRestart
<1>11. CASE DeploySucceeds
  <2>1. phase' = "complete" /\ installedAge' # Zero
    BY <1>11, InstalledStep DEF DeploySucceeds, InstalledInv
  <2> QED
    BY <1>2, <2>1
<1>12. CASE DeployFails \/ CompleteSucceeds \/ Restart
  BY <1>2, <1>12 DEF DeployFails, CompleteSucceeds, Restart
<1>13. CASE UNCHANGED vars
  BY <1>1, <1>13 DEF vars
<1>14. CASE NoticeFails
  BY <1>14 DEF NoticeFails, NoticeInv, Warned, Noticed, PlannedRestart
<1> QED
  BY <1>4, <1>6, <1>7, <1>8, <1>9, <1>10, <1>11, <1>12, <1>13, <1>14 DEF Next

\* Unless the notice reached nobody, every planned restart has been announced
\* since the last restart of any kind, however many deployments and completions
\* failed before it and however often the process restarted; the announcement
\* is a whole notice old unless a call was slow (Worker.Step,
\* plannedNoticePeriod).
THEOREM PlannedAlwaysAnnounced == Spec => []PlannedIsAnnounced
<1>1. Init => NoticeInv
  BY DEF Init, NoticeInv, Warned, Noticed, PlannedRestart
<1>2. TypeInv /\ NoticeInv => PlannedIsAnnounced
  <2> SUFFICES ASSUME TypeInv, NoticeInv, PlannedRestart, ~unheard
               PROVE  warnedAge # Zero /\ (slow = 0 => warnedAge >= Notice)
    BY DEF PlannedIsAnnounced
  <2>1. installedAge = Zero /\ phase # "notify"
    BY DEF TypeInv, InstalledInv, PlannedRestart
  <2>2. noticeAge # Zero /\ noticeAge >= Notice
    BY DEF NoticeInv, Noticed
  <2>3. warnedAge # Zero /\ (slow = 0 => noticeAge <= warnedAge)
    BY <2>1, <2>2 DEF NoticeInv, Warned
  <2>4. noticeAge \in Int /\ warnedAge \in Int
    BY AgeFacts DEF TypeInv, ClockTypes
  <2> QED
    BY <2>2, <2>3, <2>4, Times
<1>3. TypeInv /\ NoticeInv /\ [Next]_vars => (TypeInv /\ NoticeInv)'
  BY TypeStep, NoticeStep
<1>4. Spec => [](TypeInv /\ NoticeInv)
  BY <1>1, <1>3, TypeInit, PTL DEF Spec
<1> QED
  BY <1>2, <1>4, PTL
-----------------------------------------------------------------------------
(* The distance between planned restarts.                                   *)

\* What the worker remembers of the last planned restart is what happened,
\* as long as nothing disturbed it; a Step deploys the moment it began.
Remembered ==
    ~disturbed =>
        /\ restartAge = IF installedAge # Zero /\ planned THEN installedAge ELSE plannedAge
        /\ phase = "deploy" => stepAge = 0

StepBegins == phase = "poll" => stepAge = 0

Spaced == PlannedRestart => plannedAge = Zero \/ plannedAge >= Limit

SpacingInv == Remembered /\ StepBegins /\ Spaced

LEMMA SpacingStep == TypeInv /\ SpacingInv /\ [Next]_vars => SpacingInv'
<1> SUFFICES ASSUME TypeInv, SpacingInv, [Next]_vars
             PROVE  SpacingInv'
  OBVIOUS
<1> USE DEF TypeInv, workerVars, historyVars
<1>1. ASSUME UNCHANGED <<phase, stepAge, plannedAge, installedAge, planned, disturbed, restartAge, pending>>
      PROVE  SpacingInv'
  BY <1>1 DEF SpacingInv, Remembered, StepBegins, Spaced, PlannedRestart, Held, HasRevoke
<1>2. ASSUME UNCHANGED <<plannedAge, installedAge, planned, disturbed, restartAge>>,
             phase' \notin {"poll", "deploy"}
      PROVE  SpacingInv'
  BY <1>2 DEF SpacingInv, Remembered, StepBegins, Spaced, PlannedRestart
<1>3. CASE \E row \in Row : Queue(row)
  BY <1>1, <1>3 DEF Queue
<1>4. ASSUME TimePasses,
             \/ phase' = "poll" /\ stepAge' = 0 /\ UNCHANGED disturbed
             \/ phase' = phase /\ phase \in {"notify", "complete"} /\ UNCHANGED disturbed
             \/ phase' = phase /\ phase = "deploy" /\ disturbed'
      PROVE  SpacingInv'
  <2>1. /\ plannedAge' = Older(plannedAge) /\ installedAge' = Older(installedAge)
        /\ restartAge' = Older(restartAge) /\ Held' = Held /\ UNCHANGED planned
        /\ plannedAge \in Age /\ installedAge \in Age
    BY <1>4, TimeKeeps DEF TimePasses, ClockTypes
  <2>2. Remembered'
    <3>1. (installedAge' = Zero) <=> (installedAge = Zero)
      BY <2>1, AgeFacts
    <3> QED
      BY <1>4, <2>1, <3>1 DEF SpacingInv, Remembered
  <2>3. StepBegins'
    BY <1>4 DEF StepBegins
  <2>4. Spaced'
    <3>1. /\ plannedAge = Zero => plannedAge' = Zero
          /\ plannedAge >= Limit => plannedAge' >= Limit
      BY <2>1, AgeFacts, Times
    <3> QED
      BY <1>4, <2>1, <3>1 DEF SpacingInv, Spaced, PlannedRestart, HasRevoke
  <2> QED
    BY <2>2, <2>3, <2>4 DEF SpacingInv
<1>5. CASE Tick
  BY <1>4, <1>5 DEF Tick
<1>6. CASE SlowTick
  <2>1. /\ TimePasses /\ phase' = phase /\ phase \in {"notify", "deploy", "complete"}
        /\ phase = "deploy" => disturbed'
        /\ phase # "deploy" => UNCHANGED disturbed
    <3>1. disturbed \in BOOLEAN
      BY DEF FlagTypes
    <3> QED
      BY <1>6, <3>1, Zenon DEF SlowTick
  <2> QED
    BY <1>4, <2>1
<1>7. CASE PollInstalled \/ ClaimDuplicate \/ ClaimFails \/ Notified \/ NoticeFails \/ CompleteFails
  BY <1>2, <1>7 DEF PollInstalled, ClaimDuplicate, ClaimFails, Notified, NoticeFails, CompleteFails
<1>8. CASE Claim
  <2>1. PICK rows \in SUBSET Due :
          /\ Leased(rows)
          /\ LeavesBehind(rows)
          /\ pending' = [row \in Row |-> IF row \in rows THEN attempts'[row] ELSE pending[row]]
          /\ Decide(Held \union rows)
    BY <1>8 DEF Claim
  <2>2. Held' = Held \union rows
    BY <2>1, ClaimKeeps
  <2>3. /\ stepAge' = 0 /\ installedAge = Zero /\ installedAge' = Zero
        /\ UNCHANGED <<plannedAge, disturbed, restartAge>>
    BY <1>8 DEF Claim, SpacingInv, StepBegins
  <2>4. Remembered' /\ StepBegins'
    BY <2>3 DEF SpacingInv, Remembered, StepBegins
  <2>5. phase' # "deploy" \/ HasRevoke(Held') \/ Ready
    BY <2>1, <2>2 DEF Decide
  <2>6. Spaced'
    BY <2>3, <2>5 DEF Spaced, PlannedRestart, HasRevoke, Ready
  <2> QED
    BY <2>4, <2>6 DEF SpacingInv
<1>9. CASE DeploySucceeds
  <2>1. /\ phase = "deploy" /\ phase' = "complete" /\ UNCHANGED <<plannedAge, planned, disturbed>>
        /\ restartAge' = IF planned THEN 0 ELSE restartAge
        /\ installedAge' = IF stepAge < Oldest THEN stepAge ELSE Oldest
    BY <1>9 DEF DeploySucceeds, CoreIsRestarted
  <2>2. installedAge = Zero
    BY <2>1 DEF InstalledInv
  <2>3. ASSUME ~disturbed
        PROVE  restartAge' = IF installedAge' # Zero /\ planned' THEN installedAge' ELSE plannedAge'
    <3>1. restartAge = plannedAge /\ stepAge = 0
      BY <2>1, <2>2, <2>3 DEF SpacingInv, Remembered
    <3>2. installedAge' = 0
      BY <2>1, <3>1, AgeFacts, Times
    <3> QED
      BY <2>1, <3>1, <3>2, AgeFacts
  <2> QED
    BY <2>1, <2>3 DEF SpacingInv, Remembered, StepBegins, Spaced, PlannedRestart
<1>10. CASE DeployFails
  <2>1. /\ phase = "deploy" /\ phase' = "sleep" /\ UNCHANGED <<plannedAge, installedAge>>
        /\ disturbed' \/ (~disturbed /\ UNCHANGED restartAge)
    <3>1. PICK coreRestarted \in BOOLEAN : Disturbs(coreRestarted)
      BY <1>10 DEF DeployFails
    <3>2. CASE coreRestarted
      BY <1>10, <3>1, <3>2, Zenon DEF DeployFails, Disturbs
    <3>3. CASE ~coreRestarted
      BY <1>10, <3>1, <3>3, Zenon DEF DeployFails, Disturbs, FlagTypes
    <3> QED
      BY <3>2, <3>3
  <2>2. installedAge = Zero
    BY <2>1 DEF InstalledInv
  <2> QED
    BY <2>1, <2>2 DEF SpacingInv, Remembered, StepBegins, Spaced, PlannedRestart
<1>11. CASE CompleteSucceeds
  <2>1. /\ phase = "complete" /\ phase' = "sleep" /\ UNCHANGED <<disturbed, restartAge>>
        /\ plannedAge' = IF planned THEN installedAge ELSE plannedAge
        /\ installedAge' = Zero
    BY <1>11 DEF CompleteSucceeds
  <2>2. installedAge # Zero
    BY <2>1 DEF InstalledInv
  <2> QED
    BY <2>1, <2>2 DEF SpacingInv, Remembered, StepBegins, Spaced, PlannedRestart
<1>12. CASE Restart
  BY <1>12 DEF Restart, SpacingInv, Remembered, StepBegins, Spaced, PlannedRestart
<1>13. CASE UNCHANGED vars
  BY <1>1, <1>13 DEF vars
<1> QED
  BY <1>3, <1>5, <1>6, <1>7, <1>8, <1>9, <1>10, <1>11, <1>12, <1>13 DEF Next

\* Two planned restarts are never closer than the limit, also when the later
\* rows were merged into a revocation or the completion between them failed,
\* as long as no restart escaped the worker (Worker.Step, lastPlannedRestart).
THEOREM PlannedAlwaysSpaced == Spec => []PlannedRestartsSpaced
<1>1. Init => SpacingInv
  BY DEF Init, SpacingInv, Remembered, StepBegins, Spaced, PlannedRestart
<1>2. TypeInv /\ SpacingInv => PlannedRestartsSpaced
  BY DEF TypeInv, InstalledInv, SpacingInv, Remembered, Spaced, PlannedRestart, PlannedRestartsSpaced
<1>3. TypeInv /\ SpacingInv /\ [Next]_vars => (TypeInv /\ SpacingInv)'
  BY TypeStep, SpacingStep
<1>4. Spec => [](TypeInv /\ SpacingInv)
  BY <1>1, <1>3, TypeInit, PTL DEF Spec
<1> QED
  BY <1>2, <1>4, PTL
-----------------------------------------------------------------------------
(* The lease.                                                               *)

\* The worker holds rows for a restart it has announced, and waits for it.
Waiting == phase \in {"sleep", "poll", "notify"} /\ installedAge = Zero

HeldNoticed == Waiting /\ Held # {} => noticeAge # Zero

\* A notice begins after the last planned restart.
NoticeFollows == noticeAge # Zero /\ plannedAge # Zero => noticeAge <= plannedAge

\* A row is claimed during the notice at the earliest.  Until the limit is
\* over its lease loses no more than the notice has lasted, then one tick for
\* each poll that failed.
Covered(row) ==
    /\ noticeAge <= Limit => wait[row] + noticeAge >= Lease
    /\ noticeAge >= Limit =>
         wait[row] + Limit + faults >= Lease + (IF phase = "sleep" THEN 1 ELSE 0)

LeaseCovers ==
    slow = 0 /\ faults < Lease - Limit /\ Waiting => \A row \in Held : Covered(row)

LeaseInv == HeldNoticed /\ NoticeFollows /\ LeaseCovers

\* At the limit the worker is ready, whatever it waits for.
LEMMA ReadyAtLimit ==
    ASSUME ClockTypes, NoticeFollows, noticeAge >= Limit
    PROVE  Ready
<1>1. noticeAge \in Int /\ plannedAge \in Int /\ noticeAge # Zero
  BY AgeFacts, Times DEF ClockTypes
<1> QED
  BY <1>1, Times DEF NoticeFollows, Ready

LEMMA LeaseHolds ==
    ASSUME TypeInv, LeaseInv
    PROVE  HeldIsLeased
<1>1. ASSUME phase = "poll", installedAge = Zero, slow = 0, faults < Lease - Limit,
             NEW row \in Held
      PROVE  wait[row] # 0
  <2>1. Covered(row)
    BY <1>1 DEF LeaseInv, LeaseCovers, Waiting
  <2>2. noticeAge \in Int /\ faults \in Int
    BY AgeFacts, Times DEF TypeInv, ClockTypes, CountTypes
  <2> QED
    BY <1>1, <2>1, <2>2, Times DEF Covered
<1> QED
  BY <1>1 DEF HeldIsLeased, Due

\* What a claim does, for the arguments about leases and ages.
LEMMA ClaimFacts ==
    ASSUME TypeInv, Claim
    PROVE  \E rows \in SUBSET Due :
             /\ rows \subseteq Row
             /\ IsBatch(rows) /\ Leased(rows) /\ LeavesBehind(rows) /\ rows \intersect Held = {}
             /\ Decide(Held \union rows) /\ Held' = Held \union rows
             /\ UNCHANGED <<outbox, plannedAge, installedAge, faults, slow>>
             /\ installedAge = Zero /\ phase = "poll"
             /\ \A row \in rows : wait'[row] = Lease
             /\ \A row \in Held : wait'[row] = wait[row]
<1> USE DEF TypeInv
<1>1. PICK rows \in SUBSET Due :
        /\ IsBatch(rows) /\ Leased(rows) /\ LeavesBehind(rows) /\ rows \intersect Held = {}
        /\ pending' = [row \in Row |-> IF row \in rows THEN attempts'[row] ELSE pending[row]]
        /\ Decide(Held \union rows)
  BY DEF Claim
<1>2. rows \subseteq Row /\ UNCHANGED outbox
  BY <1>1, LeaseKeeps
<1>3. Held' = Held \union rows
  BY <1>1, ClaimKeeps
<1>4. \A row \in rows : wait'[row] = Lease
  BY <1>1, <1>2 DEF Leased
<1>5. \A row \in Held : wait'[row] = wait[row]
  BY <1>1, LeaseKeeps, HeldFacts
<1> QED
  BY <1>1, <1>2, <1>3, <1>4, <1>5 DEF Claim

\* After a batch that is not ready, or was announced just now.
LEMMA DecideWaits ==
    ASSUME ClockTypes, NoticeFollows, NEW rows, Decide(rows), phase' # "deploy",
           UNCHANGED plannedAge
    PROVE  /\ phase' \in {"sleep", "notify"}
           /\ rows # {} => noticeAge' # Zero /\ noticeAge' < Limit /\ ~HasRevoke(rows)
           /\ rows # {} /\ noticeAge = Zero => phase' = "notify" /\ noticeAge' = 0
           /\ rows # {} /\ noticeAge # Zero => phase' = "sleep" /\ noticeAge' = noticeAge /\ ~Ready
           /\ rows = {} => phase' = "sleep" /\ noticeAge' = noticeAge
<1>0. noticeAge \in Int
  BY AgeFacts DEF ClockTypes
<1>1. ~Ready => noticeAge < Limit
  BY <1>0, ReadyAtLimit, Times
<1>2. CASE rows = {}
  BY <1>2 DEF Decide, HasRevoke
<1>3. CASE rows # {} /\ noticeAge = Zero
  BY <1>3, AgeFacts, Times DEF Decide
<1>4. CASE rows # {} /\ noticeAge # Zero
  BY <1>1, <1>4 DEF Decide
<1> QED
  BY <1>2, <1>3, <1>4

LEMMA NoticeFollowsStep == TypeInv /\ NoticeFollows /\ [Next]_vars => NoticeFollows'
<1> SUFFICES ASSUME TypeInv, NoticeFollows, [Next]_vars
             PROVE  NoticeFollows'
  OBVIOUS
<1> USE DEF TypeInv, workerVars, historyVars
<1>1. ASSUME UNCHANGED <<noticeAge, plannedAge>>
      PROVE  NoticeFollows'
  BY <1>1 DEF NoticeFollows
<1>2. ASSUME noticeAge' = Zero
      PROVE  NoticeFollows'
  BY <1>2 DEF NoticeFollows
<1>3. CASE Tick \/ SlowTick
  <2>1. /\ noticeAge' = Older(noticeAge) /\ plannedAge' = Older(plannedAge)
        /\ noticeAge \in Age /\ plannedAge \in Age
    BY <1>3 DEF Tick, SlowTick, TimePasses, ClockTypes
  <2>2. /\ (noticeAge' = Zero) <=> (noticeAge = Zero)
        /\ (plannedAge' = Zero) <=> (plannedAge = Zero)
    BY <2>1, AgeFacts
  <2> QED
    BY <2>1, <2>2, AgeFacts DEF NoticeFollows
<1>4. CASE Claim
  <2>1. noticeAge' \in {noticeAge, 0} /\ UNCHANGED plannedAge
    BY <1>4 DEF Claim, Decide
  <2>2. plannedAge # Zero => 0 <= plannedAge
    BY AgeFacts DEF ClockTypes
  <2> QED
    BY <2>1, <2>2 DEF NoticeFollows
<1>5. CASE \E row \in Row : Queue(row)
  BY <1>1, <1>5 DEF Queue
<1>6. CASE PollInstalled \/ ClaimDuplicate \/ ClaimFails \/ Notified \/ NoticeFails \/ DeploySucceeds \/ CompleteFails
           \/ UNCHANGED vars
  BY <1>1, <1>6 DEF PollInstalled, ClaimDuplicate, ClaimFails, Notified, NoticeFails, DeploySucceeds,
                    CompleteFails, vars
<1>7. CASE DeployFails \/ CompleteSucceeds \/ Restart
  BY <1>2, <1>7 DEF DeployFails, CompleteSucceeds, Restart
<1> QED
  BY <1>3, <1>4, <1>5, <1>6, <1>7 DEF Next

\* A step that keeps what is waited for, or waits for nothing after it.
LEMMA HeldNoticedStep == TypeInv /\ LeaseInv /\ [Next]_vars => HeldNoticed'
<1> SUFFICES ASSUME TypeInv, LeaseInv, [Next]_vars
             PROVE  HeldNoticed'
  OBVIOUS
<1> USE DEF TypeInv, LeaseInv, workerVars, historyVars
<1>1. ASSUME Waiting' => Waiting /\ Held' = Held /\ (noticeAge # Zero => noticeAge' # Zero)
      PROVE  HeldNoticed'
  BY <1>1 DEF HeldNoticed
<1>2. ASSUME Held' = {} \/ ~Waiting'
      PROVE  HeldNoticed'
  BY <1>2 DEF HeldNoticed
<1>3. CASE \E row \in Row : Queue(row)
  BY <1>1, <1>3 DEF Queue, Waiting, Held
<1>4. CASE Tick \/ SlowTick
  <2>1. /\ Held' = Held /\ noticeAge' = Older(noticeAge) /\ installedAge' = Older(installedAge)
        /\ noticeAge \in Age /\ installedAge \in Age
    BY <1>4, TimeKeeps DEF Tick, SlowTick, TimePasses, ClockTypes
  <2>2. /\ noticeAge # Zero => noticeAge' # Zero
        /\ installedAge' = Zero => installedAge = Zero
    BY <2>1, AgeFacts
  <2> QED
    BY <1>1, <1>4, <2>1, <2>2 DEF Tick, SlowTick, Waiting
<1>5. CASE PollInstalled \/ DeploySucceeds
  BY <1>2, <1>5 DEF PollInstalled, DeploySucceeds, Waiting
<1>6. CASE Claim
  <2>1. PICK rows \in SUBSET Due : Decide(Held \union rows) /\ Held' = Held \union rows
    BY <1>6, ClaimFacts
  <2>2. UNCHANGED plannedAge
    BY <1>6 DEF Claim
  <2> QED
    BY <2>1, <2>2, DecideWaits DEF HeldNoticed, Waiting
<1>7. CASE ClaimDuplicate \/ ClaimFails \/ Notified \/ NoticeFails \/ UNCHANGED vars
  BY <1>1, <1>7 DEF ClaimDuplicate, ClaimFails, Notified, NoticeFails, vars, Waiting, Held
<1>8. CASE DeployFails \/ Restart
  BY <1>2, <1>8, HeldFacts DEF DeployFails, Restart, Held
<1>9. CASE CompleteSucceeds
  BY <1>2, <1>9, CloseKeeps DEF CompleteSucceeds
<1>10. CASE CompleteFails
  BY <1>2, <1>10 DEF CompleteFails, Waiting, InstalledInv
<1> QED
  BY <1>3, <1>4, <1>5, <1>6, <1>7, <1>8, <1>9, <1>10 DEF Next

LEMMA LeaseCoversStep == TypeInv /\ NoticeInv /\ LeaseInv /\ [Next]_vars => LeaseCovers'
<1> SUFFICES ASSUME TypeInv, NoticeInv, LeaseInv, [Next]_vars,
                    slow' = 0, faults' < Lease - Limit, Waiting'
             PROVE  \A row \in Held' : Covered(row)'
  BY DEF LeaseCovers
<1> USE DEF TypeInv, LeaseInv, workerVars, historyVars
<1>0. /\ noticeAge \in Int /\ faults \in Nat /\ slow \in Nat
      /\ \A row \in Held : row \in Row /\ wait[row] \in Nat
  BY AgeFacts, Times, HeldFacts DEF ClockTypes, CountTypes, RowTypes
<1>1. ASSUME Waiting, slow = 0, UNCHANGED <<noticeAge, faults, phase, wait>>, Held' = Held
      PROVE  \A row \in Held' : Covered(row)'
  BY <1>1 DEF LeaseCovers, Covered
<1>2. ASSUME Held' = {}
      PROVE  \A row \in Held' : Covered(row)'
  BY <1>2
<1>3. CASE \E row \in Row : Queue(row)
  BY <1>1, <1>3 DEF Queue, Waiting, Held
<1>4. CASE Tick
  <2>1. /\ Held' = Held /\ noticeAge' = Older(noticeAge) /\ installedAge' = Older(installedAge)
        /\ noticeAge \in Age /\ installedAge \in Age
        /\ phase = "sleep" /\ phase' = "poll" /\ UNCHANGED <<faults, slow>>
        /\ \A row \in Row : wait'[row] = IF wait[row] > 0 THEN wait[row] - 1 ELSE 0
    BY <1>4, TimeKeeps DEF Tick, TimePasses, ClockTypes
  <2>2. Waiting
    BY <2>1, AgeFacts DEF Waiting
  <2>3. ASSUME NEW row \in Held
        PROVE  Covered(row)'
    <3>1. /\ noticeAge <= Limit => wait[row] + noticeAge >= Lease
          /\ noticeAge >= Limit => wait[row] + Limit + faults >= Lease + 1
          /\ noticeAge # Zero /\ faults < Lease - Limit
      BY <2>1, <2>2, <2>3 DEF LeaseCovers, HeldNoticed, Covered
    <3>2. noticeAge >= 0 /\ noticeAge' = (IF noticeAge = Limit + 1 THEN Limit + 1 ELSE noticeAge + 1)
      BY <2>1, <3>1, AgeFacts, Times DEF Older
    <3>3. noticeAge \in Int /\ noticeAge <= Limit + 1 /\ wait[row] \in Nat
          /\ wait'[row] = IF wait[row] > 0 THEN wait[row] - 1 ELSE 0
      BY <1>0, <2>1, <2>3, AgeFacts, Times DEF Age
    <3>4. wait[row] > 0
      BY <1>0, <3>1, <3>3, Times
    <3>5. /\ noticeAge' <= Limit => wait'[row] + noticeAge' >= Lease
          /\ noticeAge' >= Limit => wait'[row] + Limit + faults >= Lease
      BY <1>0, <3>1, <3>2, <3>3, <3>4, Times
    <3>6. wait'[row] \in Int
      BY <3>3
    <3> QED
      BY <1>0, <2>1, <3>5, <3>6, Times DEF Covered
  <2> QED
    BY <2>1, <2>3
<1>5. CASE SlowTick
  BY <1>0, <1>5 DEF SlowTick
<1>6. CASE PollInstalled \/ DeploySucceeds
  BY <1>6 DEF PollInstalled, DeploySucceeds, Waiting
<1>7. CASE Claim
  <2>1. PICK rows \in SUBSET Due :
          /\ rows \subseteq Row /\ Decide(Held \union rows) /\ Held' = Held \union rows
          /\ \A row \in rows : wait'[row] = Lease
          /\ \A row \in Held : wait'[row] = wait[row]
    BY <1>7, ClaimFacts
  <2>2. UNCHANGED <<plannedAge, faults, slow, installedAge>> /\ Waiting
    BY <1>7 DEF Claim, Waiting
  <2>3. /\ Held' # {} => noticeAge' # Zero /\ noticeAge' < Limit
        /\ Held # {} => noticeAge # Zero
        /\ Held' # {} /\ noticeAge # Zero => noticeAge' = noticeAge
    BY <2>1, <2>2, DecideWaits DEF HeldNoticed, Waiting
  <2>4. noticeAge' \in Age
    BY ClockStep DEF ClockTypes
  <2>5. ASSUME NEW row \in rows
        PROVE  wait'[row] + noticeAge' >= Lease /\ noticeAge' < Limit
    <3>1. noticeAge' >= 0 /\ noticeAge' < Limit /\ noticeAge' \in Int
      BY <2>1, <2>3, <2>4, <2>5, AgeFacts
    <3> QED
      BY <2>1, <2>5, <3>1, Times
  <2>6. ASSUME NEW row \in Held
        PROVE  wait'[row] + noticeAge' >= Lease /\ noticeAge' < Limit
    <3>1. noticeAge' = noticeAge /\ noticeAge < Limit
      BY <2>1, <2>3, <2>6
    <3>2. noticeAge <= Limit
      BY <1>0, <3>1, Times
    <3> QED
      BY <2>1, <2>2, <2>6, <3>1, <3>2 DEF LeaseCovers, Covered
  <2>7. noticeAge' \in Int
    BY <2>4, AgeFacts
  <2> QED
    BY <2>1, <2>5, <2>6, <2>7, Times DEF Covered
<1>8. CASE ClaimDuplicate
  <2>1. Held \intersect Due # {} /\ UNCHANGED <<faults, slow, installedAge>> /\ phase = "poll"
    BY <1>8 DEF ClaimDuplicate
  <2>2. installedAge = Zero
    BY <1>8 DEF ClaimDuplicate
  <2>3. HeldIsLeased
    BY LeaseHolds
  <2> QED
    BY <2>1, <2>2, <2>3 DEF HeldIsLeased
<1>9. CASE ClaimFails
  <2>1. PICK rows \in SUBSET Due : Leased(rows)
    BY <1>9 DEF ClaimFails
  <2>2. /\ phase = "poll" /\ phase' = "sleep" /\ faults' = faults + 1 /\ Held' = Held
        /\ UNCHANGED <<noticeAge, slow>> /\ Waiting
    BY <1>9 DEF ClaimFails, Fault, Waiting, Held
  <2>3. ASSUME NEW row \in Held
        PROVE  Covered(row)'
    <3>0. faults < Lease - Limit
      BY <1>0, <2>2, Times
    <3>1. Covered(row) /\ noticeAge # Zero
      BY <2>2, <2>3, <3>0 DEF LeaseCovers, HeldNoticed
    <3>2. /\ noticeAge <= Limit => wait[row] + noticeAge >= Lease
          /\ noticeAge >= Limit => wait[row] + Limit + faults >= Lease
      BY <1>0, <2>2, <3>1, Times DEF Covered
    <3>3. row \in Row /\ wait[row] \in Nat /\ wait'[row] = IF row \in rows THEN Lease ELSE wait[row]
      BY <1>0, <2>1, <2>3 DEF Leased
    <3>4. noticeAge >= 0
      BY <3>1, AgeFacts DEF ClockTypes
    <3>5. /\ noticeAge <= Limit => wait'[row] + noticeAge >= Lease
          /\ noticeAge >= Limit => wait'[row] + Limit + (faults + 1) >= Lease + 1
      BY <1>0, <3>2, <3>3, <3>4, Times
    <3> QED
      BY <2>2, <3>5 DEF Covered
  <2> QED
    BY <2>2, <2>3
<1>10. CASE Notified \/ NoticeFails
  <2>1. /\ phase = "notify" /\ Waiting /\ Held' = Held
        /\ UNCHANGED <<noticeAge, slow, wait>>
    BY <1>10 DEF Notified, NoticeFails, Waiting, rowVars, Held
  <2>2. faults' = faults \/ faults' = faults + 1
    BY <1>10 DEF Notified, NoticeFails, Fault
  <2>3. SUFFICES ASSUME slow = 0, faults' < Lease - Limit, NEW row \in Held
                 PROVE  Covered(row)'
    BY <2>1 DEF LeaseCovers
  <2>4. faults < Lease - Limit
    BY <2>2, <2>3, Times DEF CountTypes
  <2>5. noticeAge = 0 /\ Covered(row)
    BY <2>1, <2>3, <2>4 DEF NoticeInv, Noticed, LeaseCovers
  <2>6. noticeAge' = 0 /\ wait'[row] = wait[row]
    BY <2>1, <2>5
  <2> QED
    BY <2>5, <2>6, Times DEF Covered
<1>11. CASE DeployFails \/ Restart
  BY <1>2, <1>11, HeldFacts DEF DeployFails, Restart, Held
<1>12. CASE CompleteSucceeds
  BY <1>2, <1>12, CloseKeeps DEF CompleteSucceeds
<1>13. CASE CompleteFails
  BY <1>13 DEF CompleteFails, Waiting, InstalledInv
<1>14. CASE UNCHANGED vars
  BY <1>1, <1>14 DEF vars, rowVars, Waiting, Held
<1> QED
  BY <1>3, <1>4, <1>5, <1>6, <1>7, <1>8, <1>9, <1>10, <1>11, <1>12, <1>13, <1>14 DEF Next

LEMMA LeaseAlways == Spec => [](TypeInv /\ NoticeInv /\ LeaseInv)
<1>1. Init => TypeInv /\ NoticeInv /\ LeaseInv
  <2> SUFFICES ASSUME Init
               PROVE  TypeInv /\ NoticeInv /\ LeaseInv
    OBVIOUS
  <2>1. TypeInv
    BY TypeInit
  <2>2. Held = {}
    BY DEF Init, Held, None
  <2> QED
    BY <2>1, <2>2 DEF Init, NoticeInv, Warned, Noticed, PlannedRestart, LeaseInv, HeldNoticed,
                      NoticeFollows, LeaseCovers
<1>2. TypeInv /\ NoticeInv /\ LeaseInv /\ [Next]_vars => (TypeInv /\ NoticeInv /\ LeaseInv)'
  BY TypeStep, NoticeStep, HeldNoticedStep, NoticeFollowsStep, LeaseCoversStep DEF LeaseInv
<1> QED
  BY <1>1, <1>2, PTL DEF Spec

\* The store hands no row out that the worker still holds, for any notice,
\* limit and lease, as long as no call is slow and fewer polls fail than the
\* lease is longer than the limit (actionLease, core_action_outbox).
THEOREM HeldAlwaysLeased == Spec => []HeldIsLeased
<1>1. TypeInv /\ LeaseInv => HeldIsLeased
  BY LeaseHolds
<1> QED
  BY <1>1, LeaseAlways, PTL
-----------------------------------------------------------------------------
(* The time a row waits.                                                    *)

Fits == Cardinality(User) <= BatchLimit

\* No call has failed or was slow.
Smooth == faults = 0 /\ slow = 0

\* A step takes no time, so an installation is complete when the next one
\* begins, and a planned restart is a tick away.
StepsAreQuick ==
    /\ installedAge # Zero => phase = "complete"
    /\ plannedAge # Zero /\ phase # "sleep" => plannedAge >= 1

\* The worker sleeps on rows only while it has to.
SleepsOnlyUnready == phase \in {"sleep", "notify"} /\ Held # {} => ~Ready

\* A row that is not held was left by the last poll, or came after it.
Fresh(row) ==
    /\ wait[row] = 0
    /\ row \in Rows("reconcile") \/ Fits => age[row] <= IF phase = "poll" THEN 1 ELSE 0

\* A revocation is deployed in the step that claims it.  A change is hardly
\* older than its notice and younger than the last planned restart.
HeldInTime(row) ==
    /\ row \in Rows("revoke") => phase \in {"deploy", "complete"} /\ (Fits => age[row] <= 1)
    /\ row \in Rows("reconcile") =>
         /\ age[row] <= Limit
         /\ Waiting => /\ age[row] <= noticeAge + 1
                       /\ plannedAge # Zero => age[row] <= plannedAge

RowsInTime == (\A row \in outbox \ Held : Fresh(row)) /\ (\A row \in Held : HeldInTime(row))

ServedInv == Smooth => StepsAreQuick /\ SleepsOnlyUnready /\ RowsInTime

\* Revocations that fit in a batch and fill it are all there are.
LEMMA FullBatch ==
    ASSUME Fits, NEW rows \in SUBSET Rows("revoke"), Cardinality(rows) = BatchLimit
    PROVE  rows = Rows("revoke")
<1>1. IsFiniteSet(User) /\ IsFiniteSet({"revoke"}) /\ Cardinality({"revoke"}) = 1
  BY UserAssumption, FS_Singleton
<1>2. /\ IsFiniteSet(User \X {"revoke"})
      /\ Cardinality(User \X {"revoke"}) = Cardinality(User) * Cardinality({"revoke"})
  BY <1>1, FS_Product
<1>3. Cardinality(User) \in Nat
  BY <1>1, FS_CardinalityType
<1>4. IsFiniteSet(Rows("revoke")) /\ Cardinality(Rows("revoke")) = Cardinality(User)
  BY <1>1, <1>2, <1>3 DEF Rows
<1>5. /\ Cardinality(rows) <= Cardinality(Rows("revoke"))
      /\ Cardinality(Rows("revoke")) = Cardinality(rows) => Rows("revoke") = rows
  BY <1>4, FS_Subset
<1>6. Cardinality(Rows("revoke")) = Cardinality(rows)
  BY <1>3, <1>4, <1>5, BoundsAssumption DEF Fits
<1> QED
  BY <1>5, <1>6

LEMMA KindOfRow ==
    /\ \A row \in Row : row \in Rows("revoke") \/ row \in Rows("reconcile")
    /\ Rows("revoke") \intersect Rows("reconcile") = {}
  BY DEF Row, Rows, Action

\* What a poll leaves to the next one has just been left behind.
LEMMA LeftBehind ==
    ASSUME RowTypes, NEW rows \in SUBSET Due, rows \subseteq Row, IsBatch(rows),
           LeavesBehind(rows), NEW row \in Due \ rows,
           row \in Rows("reconcile") \/ Fits
    PROVE  age'[row] = 0
<1>1. row \in Row
  BY DEF Due, RowTypes
<1>2. CASE row \in Rows("reconcile")
  BY <1>1, <1>2 DEF LeavesBehind
<1>3. CASE row \in Rows("revoke") /\ Fits
  <2>1. ~HasReconcile(rows) /\ Cardinality(rows) = BatchLimit
    BY <1>3 DEF IsBatch
  <2>2. rows \subseteq Rows("revoke")
    BY <2>1, KindOfRow DEF HasReconcile
  <2>3. rows = Rows("revoke")
    BY <1>3, <2>1, <2>2, FullBatch
  <2> QED
    BY <1>3, <2>3
<1> QED
  BY <1>1, <1>2, <1>3, KindOfRow

\* With no fault and no slow call, these are the only steps.
LEMMA SmoothSteps ==
    ASSUME TypeInv, LeaseInv, ServedInv, [Next]_vars, Smooth'
    PROVE  /\ Smooth
           /\ \/ \E row \in Row : Queue(row)
              \/ Tick \/ Claim \/ Notified \/ DeploySucceeds \/ CompleteSucceeds
              \/ UNCHANGED vars
<1> USE DEF TypeInv, Smooth, historyVars, workerVars
<1>0. faults \in Nat /\ slow \in Nat
  BY Times DEF CountTypes
<1>1. ~SlowTick
  BY <1>0 DEF SlowTick
<1>2. ~ClaimFails /\ ~NoticeFails /\ ~DeployFails /\ ~CompleteFails /\ ~Restart
  BY <1>0 DEF ClaimFails, NoticeFails, DeployFails, CompleteFails, Restart, Fault
<1>3. Smooth
  <2>1. ASSUME NEW row \in Row, Queue(row)
        PROVE  UNCHANGED <<faults, slow>>
    BY <2>1 DEF Queue
  <2>2. Tick \/ PollInstalled \/ Claim \/ ClaimDuplicate => UNCHANGED <<faults, slow>>
    BY DEF Tick, TimePasses, PollInstalled, Claim, ClaimDuplicate
  <2>3. Notified \/ DeploySucceeds \/ CompleteSucceeds \/ UNCHANGED vars => UNCHANGED <<faults, slow>>
    BY DEF Notified, DeploySucceeds, CompleteSucceeds, vars
  <2> QED
    BY <1>1, <1>2, <2>1, <2>2, <2>3 DEF Next
<1>4. ~PollInstalled
  BY <1>3 DEF PollInstalled, ServedInv, StepsAreQuick
<1>5. ~ClaimDuplicate
  <2> SUFFICES ASSUME ClaimDuplicate
               PROVE  FALSE
    OBVIOUS
  <2>1. phase = "poll" /\ installedAge = Zero /\ Held \intersect Due # {}
    BY DEF ClaimDuplicate
  <2>2. 0 < Lease - Limit
    BY Times
  <2> QED
    BY <1>3, <2>1, <2>2, LeaseHolds DEF HeldIsLeased
<1> QED
  BY <1>1, <1>2, <1>3, <1>4, <1>5 DEF Next

LEMMA QuickStep == TypeInv /\ LeaseInv /\ ServedInv /\ [Next]_vars /\ Smooth' => StepsAreQuick'
<1> SUFFICES ASSUME TypeInv, LeaseInv, ServedInv, [Next]_vars, Smooth'
             PROVE  StepsAreQuick'
  OBVIOUS
<1> USE DEF workerVars, historyVars
<1>0. Smooth /\ StepsAreQuick /\ ClockTypes /\ CountTypes
  BY SmoothSteps DEF ServedInv, TypeInv
<1>1. ASSUME UNCHANGED <<installedAge, plannedAge, phase>>
      PROVE  StepsAreQuick'
  BY <1>0, <1>1 DEF StepsAreQuick
<1>2. CASE \E row \in Row : Queue(row)
  BY <1>1, <1>2 DEF Queue
<1>3. CASE Tick
  <2>1. /\ installedAge' = Older(installedAge) /\ plannedAge' = Older(plannedAge)
        /\ phase = "sleep" /\ installedAge \in Age /\ plannedAge \in Age
    BY <1>0, <1>3 DEF Tick, TimePasses, ClockTypes
  <2>2. installedAge' = Zero
    BY <1>0, <2>1, AgeFacts DEF StepsAreQuick
  <2>3. plannedAge' # Zero => plannedAge' >= 1
    BY <2>1, AgeFacts, Times DEF Older
  <2> QED
    BY <2>2, <2>3 DEF StepsAreQuick
<1>4. CASE Claim \/ Notified
  BY <1>0, <1>4 DEF Claim, Notified, StepsAreQuick
<1>5. CASE DeploySucceeds
  BY <1>0, <1>5 DEF DeploySucceeds, StepsAreQuick
<1>6. CASE CompleteSucceeds
  BY <1>6 DEF CompleteSucceeds, StepsAreQuick
<1>7. CASE UNCHANGED vars
  BY <1>1, <1>7 DEF vars
<1> QED
  BY <1>2, <1>3, <1>4, <1>5, <1>6, <1>7, SmoothSteps

LEMMA UnreadyStep == TypeInv /\ LeaseInv /\ ServedInv /\ [Next]_vars /\ Smooth' => SleepsOnlyUnready'
<1> SUFFICES ASSUME TypeInv, LeaseInv, ServedInv, [Next]_vars, Smooth'
             PROVE  SleepsOnlyUnready'
  OBVIOUS
<1> USE DEF workerVars, historyVars
<1>0. Smooth /\ SleepsOnlyUnready /\ TypeInv /\ NoticeFollows
  BY SmoothSteps DEF ServedInv, LeaseInv
<1>1. ASSUME UNCHANGED <<noticeAge, plannedAge>>, Held' = Held, phase \in {"sleep", "notify"} \/ phase' = phase
      PROVE  SleepsOnlyUnready'
  BY <1>0, <1>1 DEF SleepsOnlyUnready, Ready
<1>2. ASSUME phase' \notin {"sleep", "notify"} \/ Held' = {}
      PROVE  SleepsOnlyUnready'
  BY <1>2 DEF SleepsOnlyUnready
<1>3. CASE (\E row \in Row : Queue(row)) \/ Notified \/ UNCHANGED vars
  BY <1>1, <1>3 DEF Queue, Notified, vars, Held
<1>4. CASE Tick \/ DeploySucceeds
  BY <1>2, <1>4 DEF Tick, DeploySucceeds
<1>5. CASE Claim
  <2>1. PICK rows \in SUBSET Due : Decide(Held \union rows) /\ Held' = Held \union rows
    BY <1>0, <1>5, ClaimFacts
  <2>2. UNCHANGED plannedAge /\ ClockTypes
    BY <1>0, <1>5 DEF Claim, TypeInv
  <2>3. CASE phase' # "deploy" /\ Held' # {} /\ noticeAge = Zero
    <3>1. noticeAge' = 0
      BY <1>0, <2>1, <2>2, <2>3, DecideWaits
    <3> QED
      BY <3>1, Times DEF SleepsOnlyUnready, Ready
  <2>4. CASE phase' # "deploy" /\ Held' # {} /\ noticeAge # Zero
    BY <1>0, <2>1, <2>2, <2>4, DecideWaits DEF SleepsOnlyUnready, Ready
  <2> QED
    BY <1>2, <2>3, <2>4
<1>6. CASE CompleteSucceeds
  BY <1>0, <1>2, <1>6, CloseKeeps DEF CompleteSucceeds, TypeInv
<1> QED
  BY <1>3, <1>4, <1>5, <1>6, SmoothSteps

\* The age a row of the outbox has at most after a tick.
LEMMA OlderFacts ==
    /\ Older(0) = 1
    /\ \A a \in Age : a # Zero => Older(a) <= a + 1
    /\ \A a \in Age : a # Zero /\ a <= Limit => Older(a) = a + 1
  BY AgeFacts, Times DEF Older, Age

LEMMA RowsInTimeTick ==
    ASSUME TypeInv, LeaseInv, Smooth, StepsAreQuick, SleepsOnlyUnready, RowsInTime, Tick
    PROVE  RowsInTime'
<1> USE DEF TypeInv, LeaseInv
<1>1. /\ Held' = Held /\ UNCHANGED outbox /\ phase = "sleep" /\ phase' = "poll"
      /\ noticeAge' = Older(noticeAge) /\ plannedAge' = Older(plannedAge)
      /\ \A row \in Row : age'[row] = Older(age[row]) /\ (wait[row] = 0 => wait'[row] = 0)
      /\ installedAge = Zero
  BY TimeKeeps DEF Tick, TimePasses, StepsAreQuick
<1>2. /\ noticeAge \in Age /\ plannedAge \in Age
      /\ \A row \in outbox : row \in Row /\ age[row] \in Age /\ age[row] # Zero
      /\ Held \subseteq outbox
  BY HeldFacts DEF RowTypes, RowStates, ClockTypes
<1>3. ASSUME NEW row \in outbox \ Held
      PROVE  Fresh(row)'
  <2>1. wait'[row] = 0
    BY <1>1, <1>2, <1>3 DEF RowsInTime, Fresh
  <2>2. ASSUME row \in Rows("reconcile") \/ Fits
        PROVE  age'[row] <= 1
    <3>1. age[row] <= 0
      BY <1>1, <1>3, <2>2 DEF RowsInTime, Fresh
    <3>2. age[row] \in Int /\ age[row] >= 0 /\ row \in Row
      BY <1>2, <1>3, AgeFacts
    <3>3. age[row] = 0
      BY <3>1, <3>2
    <3> QED
      BY <1>1, <3>2, <3>3, OlderFacts
  <2> QED
    BY <1>1, <2>1, <2>2 DEF Fresh, Fits
<1>4. ASSUME NEW row \in Held
      PROVE  HeldInTime(row)'
  <2>1. row \in Row /\ row \notin Rows("revoke") /\ row \in Rows("reconcile") /\ Waiting
    BY <1>1, <1>2, <1>4, KindOfRow DEF RowsInTime, HeldInTime, Waiting
  <2>2. /\ age[row] <= noticeAge + 1
        /\ plannedAge # Zero => age[row] <= plannedAge
        /\ age[row] \in Age /\ age[row] # Zero /\ noticeAge # Zero
    BY <1>2, <1>4, <2>1 DEF RowsInTime, HeldInTime, HeldNoticed
  <2>3. noticeAge < Notice \/ (plannedAge # Zero /\ plannedAge < Limit)
    BY <1>1, <1>2, <1>4, AgeFacts, Times DEF SleepsOnlyUnready, Ready
  <2>4. age[row] \in Int /\ noticeAge \in Int /\ plannedAge \in Int
    BY <1>2, <2>2, AgeFacts
  <2>5. age[row] + 1 <= Limit
    BY <2>2, <2>3, <2>4, Times
  <2>6. age'[row] = age[row] + 1
    BY <1>1, <2>1, <2>2, <2>4, <2>5, OlderFacts, Times
  <2>7. age'[row] <= noticeAge' + 1
    <3>1. noticeAge >= Limit + 1 => noticeAge' = noticeAge
      BY <1>1, <1>2, AgeFacts, Times DEF Older, Age
    <3>2. noticeAge <= Limit => noticeAge' = noticeAge + 1
      BY <1>1, <1>2, <2>2, OlderFacts
    <3> QED
      BY <2>2, <2>4, <2>5, <2>6, <3>1, <3>2, Times
  <2>8. plannedAge' # Zero => age'[row] <= plannedAge'
    <3>1. plannedAge' # Zero => plannedAge # Zero
      BY <1>1, <1>2, AgeFacts
    <3>2. plannedAge # Zero => Older(age[row]) <= Older(plannedAge)
      BY <1>2, <2>2, AgeFacts
    <3> QED
      BY <1>1, <2>1, <3>1, <3>2
  <2>9. age'[row] <= Limit
    BY <2>5, <2>6
  <2> QED
    BY <2>1, <2>7, <2>8, <2>9 DEF HeldInTime, Rows
<1> QED
  BY <1>1, <1>3, <1>4 DEF RowsInTime

LEMMA RowsInTimeClaim ==
    ASSUME TypeInv, LeaseInv, Smooth, StepsAreQuick, SleepsOnlyUnready, RowsInTime, Claim, ClockTypes'
    PROVE  RowsInTime'
<1> USE DEF TypeInv, LeaseInv
<1>1. PICK rows \in SUBSET Due :
        /\ rows \subseteq Row
        /\ IsBatch(rows) /\ Leased(rows) /\ LeavesBehind(rows) /\ rows \intersect Held = {}
        /\ Decide(Held \union rows) /\ Held' = Held \union rows
        /\ UNCHANGED <<outbox, plannedAge, installedAge>>
        /\ installedAge = Zero /\ phase = "poll"
  BY ClaimFacts
<1>2. /\ phase' \in {"sleep", "notify", "deploy"}
      /\ HasRevoke(Held') => phase' = "deploy"
      /\ noticeAge' = noticeAge \/ (noticeAge = Zero /\ noticeAge' = 0)
  <2>1. HasRevoke(Held \union rows) => Held \union rows # {}
    BY DEF HasRevoke
  <2> QED
    BY <1>1, <2>1 DEF Decide
<1>3. /\ Held \subseteq outbox /\ rows \subseteq outbox /\ Held \subseteq Row
      /\ \A row \in outbox : row \in Row /\ age[row] \in Age /\ age[row] # Zero
  BY <1>1, HeldFacts DEF RowTypes, RowStates, Due
<1>4. ASSUME NEW row \in Held'
      PROVE  age'[row] = age[row] /\ row \in Row
  <2>1. row \notin Due \ rows
    <3>1. CASE row \in rows
      BY <3>1
    <3>2. CASE row \in Held
      <4>1. 0 < Lease - Limit
        BY Times
      <4>2. Held \intersect Due = {}
        BY <1>1, <4>1, LeaseHolds DEF HeldIsLeased, Smooth
      <4> QED
        BY <3>2, <4>2
    <3> QED
      BY <1>1, <1>4, <3>1, <3>2
  <2> QED
    BY <1>1, <1>3, <1>4, <2>1 DEF LeavesBehind
<1>5. ASSUME NEW row \in outbox' \ Held'
      PROVE  Fresh(row)'
  <2>1. row \in outbox \ Held /\ row \notin rows /\ row \in Row
    BY <1>1, <1>3, <1>5
  <2>2. wait[row] = 0
    BY <2>1 DEF RowsInTime, Fresh
  <2>3. row \in Due \ rows /\ wait'[row] = 0
    BY <1>1, <2>1, <2>2 DEF Due, Leased
  <2>4. row \in Rows("reconcile") \/ Fits => age'[row] = 0
    BY <1>1, <2>3, LeftBehind
  <2> QED
    BY <1>2, <2>3, <2>4 DEF Fresh, Fits, Rows
<1>6. ASSUME NEW row \in Held'
      PROVE  HeldInTime(row)'
  <2>1. age'[row] = age[row] /\ row \in Row /\ age[row] \in Int /\ noticeAge' \in Int
    BY <1>1, <1>3, <1>4, <1>6, AgeFacts DEF ClockTypes
  <2>2. CASE row \in rows
    <3>1. row \in outbox \ Held
      BY <1>1, <1>3, <2>2
    <3>2. row \in Rows("reconcile") \/ Fits => age[row] <= 1
      BY <1>1, <3>1 DEF RowsInTime, Fresh
    <3>3. Held' # {} /\ phase' # "deploy" => noticeAge' >= 0
      <4>1. Held' # {} /\ phase' # "deploy" => noticeAge' # Zero
        BY <1>1, DecideWaits
      <4> QED
        BY <4>1, AgeFacts DEF ClockTypes
    <3>4. plannedAge # Zero => plannedAge >= 1 /\ plannedAge \in Int
      BY <1>1, AgeFacts DEF StepsAreQuick, ClockTypes
    <3>5. row \in Rows("revoke") => phase' = "deploy"
      BY <1>2, <1>6 DEF HasRevoke
    <3>6. row \in Rows("reconcile") =>
            /\ age[row] <= Limit
            /\ phase' # "deploy" => /\ age[row] <= noticeAge' + 1
                                    /\ plannedAge # Zero => age[row] <= plannedAge
      BY <1>6, <2>1, <3>2, <3>3, <3>4, Times
    <3> QED
      BY <1>1, <2>1, <3>2, <3>5, <3>6 DEF HeldInTime, Waiting, Fits, Rows
  <2>3. CASE row \in Held
    <3>1. HeldInTime(row) /\ Waiting /\ noticeAge # Zero
      BY <1>1, <2>3 DEF RowsInTime, Waiting, HeldNoticed
    <3>2. noticeAge' = noticeAge /\ row \notin Rows("revoke")
      BY <1>1, <1>2, <3>1 DEF HeldInTime
    <3> QED
      BY <1>1, <2>1, <3>1, <3>2 DEF HeldInTime, Rows
  <2> QED
    BY <1>1, <1>6, <2>2, <2>3
<1> QED
  BY <1>5, <1>6 DEF RowsInTime

LEMMA RowsInTimeStep == TypeInv /\ LeaseInv /\ ServedInv /\ [Next]_vars /\ Smooth' => RowsInTime'
<1> SUFFICES ASSUME TypeInv, LeaseInv, ServedInv, [Next]_vars, Smooth'
             PROVE  RowsInTime'
  OBVIOUS
<1> USE DEF workerVars, historyVars, rowVars
<1>0. /\ Smooth /\ StepsAreQuick /\ SleepsOnlyUnready /\ RowsInTime
      /\ RowTypes /\ RowStates /\ ClockTypes /\ ClockTypes' /\ InstalledInv
  BY SmoothSteps, ClockStep DEF ServedInv, TypeInv
<1>1. ASSUME NEW row \in Row, Queue(row)
      PROVE  RowsInTime'
  <2>1. /\ row \notin outbox /\ outbox' = outbox \union {row} /\ Held' = Held /\ row \notin Held
        /\ wait[row] = 0 /\ age' = [age EXCEPT ![row] = 0] /\ age \in [Row -> Age]
        /\ UNCHANGED <<wait, phase, noticeAge, plannedAge, installedAge>>
        /\ Held \subseteq Row /\ outbox \subseteq Row
    BY <1>0, <1>1, HeldFacts DEF Queue, Held, RowStates, RowTypes
  <2>2. \A r \in Row : r # row => age'[r] = age[r]
    BY <2>1
  <2>3. Fresh(row)'
    BY <2>1 DEF Fresh
  <2>4. \A r \in outbox \ Held : Fresh(r)'
    BY <1>0, <2>1, <2>2 DEF RowsInTime, Fresh, Fits, Rows
  <2>5. \A r \in Held : HeldInTime(r)'
    BY <1>0, <2>1, <2>2 DEF RowsInTime, HeldInTime, Waiting, Fits, Rows
  <2> QED
    BY <2>1, <2>3, <2>4, <2>5 DEF RowsInTime
<1>2. CASE Tick
  BY <1>0, <1>2, RowsInTimeTick
<1>3. CASE Claim
  BY <1>0, <1>3, RowsInTimeClaim
<1>4. CASE Notified
  <2>1. /\ phase = "notify" /\ phase' = "sleep" /\ Held' = Held
        /\ UNCHANGED <<outbox, wait, age, noticeAge, plannedAge, installedAge>>
    BY <1>4 DEF Notified, Held
  <2>2. installedAge = Zero /\ Waiting
    BY <1>0, <2>1 DEF InstalledInv, Waiting
  <2>3. \A row \in outbox \ Held : Fresh(row)'
    BY <1>0, <2>1 DEF RowsInTime, Fresh, Fits, Rows
  <2>4. \A row \in Held : HeldInTime(row)'
    BY <1>0, <2>1, <2>2 DEF RowsInTime, HeldInTime, Fits, Rows
  <2> QED
    BY <2>1, <2>3, <2>4 DEF RowsInTime
<1>5. CASE DeploySucceeds
  <2>1. /\ phase = "deploy" /\ phase' = "complete" /\ Held' = Held
        /\ UNCHANGED <<outbox, wait, age>>
    BY <1>5 DEF DeploySucceeds, Held
  <2>2. \A row \in outbox \ Held : Fresh(row)'
    BY <1>0, <2>1 DEF RowsInTime, Fresh, Fits, Rows
  <2>3. \A row \in Held : HeldInTime(row)'
    BY <1>0, <2>1 DEF RowsInTime, HeldInTime, Waiting, Fits, Rows
  <2> QED
    BY <2>1, <2>2, <2>3 DEF RowsInTime
<1>6. CASE CompleteSucceeds
  <2>1. /\ phase = "complete" /\ phase' = "sleep" /\ Held' = {} /\ outbox' = outbox \ Held
        /\ \A row \in Row \ Held : wait'[row] = wait[row] /\ age'[row] = age[row]
        /\ outbox \subseteq Row
    BY <1>0, <1>6, CloseKeeps DEF CompleteSucceeds, CloseHeldRows, RowTypes
  <2>2. \A row \in outbox \ Held : Fresh(row)'
    BY <1>0, <2>1 DEF RowsInTime, Fresh, Fits, Rows
  <2> QED
    BY <2>1, <2>2 DEF RowsInTime
<1>7. CASE UNCHANGED vars
  <2>1. Held' = Held /\ UNCHANGED <<outbox, wait, age, phase, noticeAge, plannedAge, installedAge>>
    BY <1>7 DEF vars, Held
  <2> QED
    BY <1>0, <2>1 DEF RowsInTime, Fresh, HeldInTime, Waiting, Fits, Rows
<1> QED
  BY <1>1, <1>2, <1>3, <1>4, <1>5, <1>6, <1>7, SmoothSteps

\* As long as no call fails or is slow, a revocation is deployed within a tick
\* when all revocations fit in a batch, and a change within the limit, counted
\* from the last full batch that left it behind: for any users, times and
\* batch (Worker.Step, CoreActionStore.ClaimDue).
THEOREM ServedAlwaysInTime == Spec => []RowsAreServedInTime
<1>1. Init => ServedInv
  <2> SUFFICES ASSUME Init
               PROVE  ServedInv
    OBVIOUS
  <2>1. Held = {} /\ outbox = {} /\ installedAge = Zero /\ plannedAge = Zero
    BY DEF Init, Held, None
  <2> QED
    BY <2>1 DEF ServedInv, StepsAreQuick, SleepsOnlyUnready, RowsInTime
<1>2. TypeInv /\ LeaseInv /\ ServedInv /\ [Next]_vars => ServedInv'
  BY QuickStep, UnreadyStep, RowsInTimeStep DEF ServedInv
<1>3. TypeInv /\ ServedInv => RowsAreServedInTime
  <2> SUFFICES ASSUME TypeInv, ServedInv, Smooth
               PROVE  /\ Fits => \A row \in outbox \intersect Rows("revoke") : age[row] <= 1
                      /\ \A row \in outbox \intersect Rows("reconcile") : age[row] <= Limit
    BY DEF RowsAreServedInTime, Smooth, Fits
  <2>1. \A row \in outbox : row \in Row /\ age[row] \in Int
    BY AgeFacts DEF TypeInv, RowTypes
  <2>2. ASSUME NEW row \in outbox \ Held, row \in Rows("reconcile") \/ Fits
        PROVE  age[row] <= 1
    BY <2>1, <2>2 DEF ServedInv, RowsInTime, Fresh
  <2>3. ASSUME NEW row \in Held
        PROVE  HeldInTime(row)
    BY <2>3 DEF ServedInv, RowsInTime
  <2> QED
    BY <2>1, <2>2, <2>3, Times DEF HeldInTime
<1>4. Spec => []ServedInv
  BY <1>1, <1>2, LeaseAlways, PTL DEF Spec
<1> QED
  BY <1>3, <1>4, LeaseAlways, PTL
-----------------------------------------------------------------------------
(* The promise of the outbox.                                               *)

LEMMA ClaimedRows ==
    ASSUME RowTypes, RowStates, NEW rows \in SUBSET Due, Leased(rows), rows \intersect Held = {},
           pending' = [row \in Row |-> IF row \in rows THEN attempts'[row] ELSE pending[row]]
    PROVE  Held' = Held \union rows /\ rows \in SUBSET (outbox \ Held)
<1>1. rows \subseteq outbox /\ rows \subseteq Row /\ \A row \in rows : attempts'[row] > 0
  BY LeaseKeeps
<1> QED
  BY <1>1 DEF Held

\* A queued row is completed only by a deployment that began when the worker
\* held it, through leases that run out, notices, retries and restarts.
THEOREM OutboxAlwaysPromised == Spec => KeepsOutboxPromise
<1>1. Init => Outbox!Init
  BY DEF Init, None, Outbox!Init, Stage, Held
<1>2. ASSUME TypeInv, [Next]_vars
      PROVE  [Outbox!Next]_(Outbox!vars)
  <2>1. RowTypes /\ RowStates /\ ClockTypes /\ InstalledInv /\ Held \subseteq outbox
    BY <1>2, HeldFacts DEF TypeInv
  <2>2. ASSUME NEW row \in Row, Queue(row)
        PROVE  Outbox!Queue({row})
    BY <2>2 DEF Queue, workerVars, Outbox!Queue, Stage, Held
  <2>3. CASE Tick \/ SlowTick
    <3>1. Held' = Held /\ UNCHANGED outbox
      BY <2>1, <2>3, TimeKeeps DEF Tick, SlowTick, TimePasses
    <3>2. (installedAge' = Zero) <=> (installedAge = Zero)
      BY <2>1, <2>3, AgeFacts DEF Tick, SlowTick, TimePasses, ClockTypes
    <3>3. (phase' = "deploy") <=> (phase = "deploy")
      BY <2>3 DEF Tick, SlowTick
    <3> QED
      BY <3>1, <3>2, <3>3 DEF Outbox!vars, Stage
  <2>4. CASE PollInstalled \/ ClaimDuplicate \/ ClaimFails \/ Notified \/ NoticeFails \/ UNCHANGED vars
    BY <2>4 DEF PollInstalled, ClaimDuplicate, ClaimFails, Leased, Notified, NoticeFails, vars, rowVars, workerVars,
       Outbox!vars, Stage, Held
  <2>5. CASE Claim
    <3>1. PICK rows \in SUBSET Due :
            /\ Leased(rows) /\ rows \intersect Held = {} /\ Decide(Held \union rows)
            /\ pending' = [row \in Row |-> IF row \in rows THEN attempts'[row] ELSE pending[row]]
      BY <2>5 DEF Claim
    <3>2. Held' = Held \union rows /\ rows \in SUBSET (outbox \ Held)
      BY <2>1, <3>1, ClaimedRows
    <3>3. phase' = "deploy" => Held \union rows # {}
      BY <3>1 DEF Decide, HasRevoke
    <3>4. Outbox!Claim(rows)
      BY <2>5, <3>1, <3>2, <3>3 DEF Claim, Leased, Outbox!Claim, Stage
    <3> QED
      BY <3>2, <3>4 DEF Outbox!Next
  <2>6. CASE DeploySucceeds
    <3>1. installedAge = Zero /\ installedAge' # Zero
      BY <1>2, <2>1, <2>6, InstalledStep DEF DeploySucceeds, InstalledInv
    <3> QED
      BY <2>6, <3>1 DEF DeploySucceeds, rowVars, Outbox!Next, Outbox!Deploy, Stage, Held
  <2>7. CASE DeployFails \/ Restart
    <3>1. UNCHANGED outbox /\ pending' = None /\ phase' = "sleep" /\ installedAge' = Zero
      BY <2>1, <2>7 DEF DeployFails, Restart, rowVars, InstalledInv
    <3>2. Held' = {}
      BY <2>1, <3>1, HeldFacts DEF Held
    <3> QED
      BY <3>1, <3>2 DEF Outbox!Next, Outbox!Abandon, Stage
  <2>8. CASE CompleteSucceeds \/ CompleteFails
    <3>1. installedAge # Zero
      BY <2>1, <2>8 DEF CompleteSucceeds, CompleteFails, InstalledInv
    <3>2. CASE CloseHeldRows
      <4>1. Held' = {}
        BY <2>1, <3>2, HeldFacts DEF CloseHeldRows, Held
      <4>2. Outbox!Close
        BY <2>8, <3>1, <3>2, <4>1 DEF CompleteSucceeds, CompleteFails, CloseHeldRows, Outbox!Close, Stage
      <4> QED
        BY <4>2 DEF Outbox!Next
    <3>3. CASE CompleteFails /\ UNCHANGED <<rowVars, installed, pending>>
      BY <3>1, <3>3 DEF CompleteFails, rowVars, Outbox!vars, Stage, Held
    <3> QED
      BY <2>8, <3>2, <3>3 DEF CompleteSucceeds, CompleteFails
  <2> QED
    BY <1>2, <2>2, <2>3, <2>4, <2>5, <2>6, <2>7, <2>8 DEF Next, Outbox!Next
<1> QED
  BY TypeAlways, <1>1, <1>2, PTL DEF Spec, KeepsOutboxPromise, Outbox!Spec
=============================================================================
