--------------------------- MODULE CoreSyncProofs ---------------------------
(***************************************************************************)
(* Proofs about CoreSync for every set of users and every bound.           *)
(*                                                                         *)
(* StaleIsQueued is not inductive by itself: a successful Complete closes  *)
(* the rows that made it true.  SyncInv adds what holds of the snapshot    *)
(* while it is on its way to the core, and that a change which came with   *)
(* no row of its own met a row the worker holds, or left its user          *)
(* stranded.  What an open transaction inserts was decided earlier; the    *)
(* proof compares it with what the transaction needs at its commit.        *)
(***************************************************************************)
EXTENDS CoreSync, TLAPS

DroppedIsHeld ==
    \A u \in dropped : u \in stranded \/ \E action \in Action : <<u, action>> \in held

\* A deployment is started by the rows it holds, and the file and the core
\* stay as installed until its rows are completed.
Deploying ==
    /\ phase \in {"load", "list", "install"} => held # {}
    /\ phase = "complete" => core = file

SyncInv == StaleIsQueued /\ InFlightIsQueued /\ DroppedIsHeld /\ Deploying

\* Credentials only move forward on their way to the core.
OrderInv ==
    /\ NoOlderCredentials
    /\ \A u \in User : deployed[u] <= gen[u]
    /\ phase = "install" =>
         \A u \in User : snap[u] # Absent => deployed[u] <= snap[u].gen /\ snap[u].gen <= gen[u]
-----------------------------------------------------------------------------
LEMMA RowsForRow ==
  ASSUME NEW users \in SUBSET User, NEW action \in Action
  PROVE  RowsFor(users, action) \in SUBSET Row
BY DEF RowsFor, Row

\* Every transaction is an Enqueue of what it needs, whether it runs within one
\* step or is the open one.
EnqueuesSome(needed) ==
    open' \in Transaction /\ \E inserted \in SUBSET Row : Enqueue(needed, inserted)

LEMMA OpenType ==
  ASSUME TypeOK
  PROVE  /\ NoTransaction \in Transaction
         /\ open.rows \in SUBSET Row
         /\ \A rows : [open EXCEPT !.rows = @ \ rows] \in Transaction
<1>1. NoTransaction \in Transaction
  BY DEF NoTransaction, Transaction, Kind
<1>2. open \in Transaction
  BY DEF TypeOK
<1>3. ASSUME NEW rows PROVE [open EXCEPT !.rows = @ \ rows] \in Transaction
  <2>1. open.rows \ rows \in SUBSET Row
    BY <1>2 DEF Transaction
  <2>2. QED
    BY <1>2, <2>1 DEF Transaction
<1>4. QED
  BY <1>1, <1>2, <1>3 DEF Transaction

LEMMA AtOnceEnqueues ==
  ASSUME TypeOK, NEW rows \in SUBSET Row, EnqueueAtOnce(rows)
  PROVE  EnqueuesSome(rows)
BY OpenType DEF EnqueueAtOnce, EnqueuesSome

LEMMA LateEnqueues ==
  ASSUME TypeOK, NEW needed, NEW inserted \in SUBSET Row, EnqueueLate(needed, inserted)
  PROVE  EnqueuesSome(needed)
BY OpenType DEF EnqueueLate, EnqueuesSome

LEMMA EnqueueForEnqueues ==
  ASSUME TypeOK, NEW u \in User, NEW rows \in SUBSET Row, EnqueueFor(u, rows)
  PROVE  EnqueuesSome(rows)
BY AtOnceEnqueues, LateEnqueues DEF EnqueueFor

LEMMA EnqueueForAllEnqueues ==
  ASSUME TypeOK, NEW kind, NEW rows \in SUBSET Row, EnqueueForAll(kind, rows)
  PROVE  EnqueuesSome(rows)
BY AtOnceEnqueues, LateEnqueues, OpenType DEF EnqueueForAll

LEMMA NothingEnqueues ==
  ASSUME TypeOK, QueueNothing
  PROVE  EnqueuesSome({})
BY DEF TypeOK, QueueNothing, EnqueuesSome, Enqueue

LEMMA EnqueueType ==
  ASSUME TypeOK, NEW needed \in SUBSET Row, NEW inserted \in SUBSET Row,
         Enqueue(needed, inserted)
  PROVE  /\ outbox' \subseteq Row /\ leased' \subseteq outbox'
         /\ phase' \in Phase /\ held' \subseteq leased' /\ readVersion' \in Nat
         /\ snap' \in [User -> Entry] /\ file' \in [User -> Entry]
         /\ core' \in [User -> Entry] /\ deployed' \in [User -> Nat]
         /\ faults' \in Nat /\ dropped' \subseteq User /\ stranded' \subseteq User
<1>1. \A row \in needed : row[1] \in User
  BY DEF Row
<1>2. dropped' \subseteq User /\ stranded' \subseteq User
  BY <1>1 DEF TypeOK, Enqueue
<1>3. QED
  BY <1>2 DEF TypeOK, Enqueue, workerVars, coreVars

LEMMA SnapshotType ==
  ASSUME TypeOK, NEW v \in Nat
  PROVE  Snapshot(v) \in [User -> Entry]
BY DEF TypeOK, Snapshot, Entry, Absent

LEMMA InitType == Init => TypeOK
<1>1. NoUsers \in [User -> Entry]
  BY DEF NoUsers, Absent, Entry
<1>2. SUFFICES ASSUME Init PROVE TypeOK
  OBVIOUS
<1>3. /\ snap \in [User -> Entry] /\ file \in [User -> Entry]
      /\ core \in [User -> Entry] /\ deployed \in [User -> Nat]
  BY <1>1, <1>2 DEF Init
<1>4. eligible \in [User -> BOOLEAN] /\ blocked \in [User -> BOOLEAN]
  BY <1>2 DEF Init
<1>5. status \in [User -> Status] /\ gen \in [User -> Nat]
  BY <1>2 DEF Init, Status
<1>6. QED
  BY <1>2, <1>3, <1>4, <1>5 DEF Init, TypeOK, Tls, Phase, NoTransaction, Transaction, Kind
-----------------------------------------------------------------------------
(***************************************************************************)
(* A transaction keeps SyncInv when every user is either announced in the  *)
(* outbox, or keeps what the database grants.                              *)
(***************************************************************************)
Announced(rows, u) == \E action \in Action : <<u, action>> \in rows

Kept(u) ==
    /\ Entitled(u)' <=> Entitled(u)
    /\ (Entitled(u)' /\ tls' = "issued") =>
         gen'[u] = gen[u] /\ version' = version /\ tls = "issued"

LEMMA KeptSnapshot ==
  ASSUME NEW u \in User, Kept(u), readVersion' = readVersion,
         Agrees(Snapshot(readVersion)[u], u)
  PROVE  Agrees(Snapshot(readVersion)[u], u)'
BY DEF Kept, Agrees, Snapshot

LEMMA DbStep ==
  ASSUME TypeOK, SyncInv, NEW needed \in SUBSET Row, NEW inserted \in SUBSET Row,
         Enqueue(needed, inserted), \A u \in User : Announced(needed, u) \/ Kept(u)
  PROVE  SyncInv'
<1> USE DEF SyncInv
<1>1. /\ UNCHANGED <<leased, phase, held, readVersion, snap, file, core>>
      /\ outbox' = outbox \union inserted
      /\ dropped \subseteq dropped'
      /\ stranded \subseteq stranded'
  BY DEF Enqueue, workerVars, coreVars
<1>2. ASSUME NEW u \in User, Announced(needed, u)
      PROVE  Queued(u)' \/ u \in stranded'
  <2>1. PICK action \in Action : <<u, action>> \in needed
    BY <1>2 DEF Announced
  <2>2. CASE <<u, action>> \in outbox'
    BY <2>2 DEF Queued
  <2>3. CASE <<u, action>> \notin outbox'
    BY <2>1, <2>3 DEF Enqueue
  <2>4. QED
    BY <2>2, <2>3
<1>3. ASSUME NEW u \in User, Announced(needed, u), Reading
      PROVE  Fresh(u)' \/ u \in dropped'
  <2>1. PICK action \in Action : <<u, action>> \in needed
    BY <1>3 DEF Announced
  <2>2. CASE <<u, action>> \in held \/ <<u, action>> \notin outbox'
    BY <1>3, <2>1, <2>2 DEF Enqueue
  <2>3. CASE <<u, action>> \notin held /\ <<u, action>> \in outbox'
    BY <1>1, <2>1, <2>3 DEF Fresh
  <2>4. QED
    BY <2>2, <2>3
<1>4. ASSUME NEW u \in User, Queued(u)
      PROVE  Queued(u)'
  BY <1>1, <1>4 DEF Queued
<1>5. ASSUME NEW u \in User, Fresh(u)
      PROVE  Fresh(u)'
  BY <1>1, <1>5 DEF Fresh
<1>6. StaleIsQueued'
  <2>1. outbox # {} => outbox' # {}
    BY <1>1
  <2>2. ASSUME NEW u \in User, Agrees(core[u], u) \/ Queued(u) \/ u \in stranded
        PROVE  (Agrees(core[u], u) \/ Queued(u) \/ u \in stranded)'
    <3>1. Agrees(core[u], u) /\ Kept(u) => Agrees(core[u], u)'
      BY <1>1 DEF Kept, Agrees
    <3>2. QED
      BY <1>1, <1>2, <1>4, <2>2, <3>1
  <2>3. ASSUME NEW u \in User, Agrees(file[u], u) \/ Queued(u) \/ u \in stranded
        PROVE  (Agrees(file[u], u) \/ Queued(u) \/ u \in stranded)'
    <3>1. Agrees(file[u], u) /\ Kept(u) => Agrees(file[u], u)'
      BY <1>1 DEF Kept, Agrees
    <3>2. QED
      BY <1>1, <1>2, <1>4, <2>3, <3>1
  <2>4. Repaired(core)'
    BY <1>1, <2>1, <2>2 DEF StaleIsQueued, Repaired, NoUsers
  <2>5. Repaired(file)'
    BY <1>1, <2>1, <2>3 DEF StaleIsQueued, Repaired, NoUsers
  <2>6. QED
    BY <2>4, <2>5 DEF StaleIsQueued
<1>7. InFlightIsQueued'
  <2>1. ASSUME phase' = "list", NEW u \in User
        PROVE  Agrees(Snapshot(readVersion)[u], u)' \/ Fresh(u)' \/ u \in dropped'
    <3>1. phase = "list" /\ Reading
      BY <1>1, <2>1 DEF Reading
    <3>2. Agrees(Snapshot(readVersion)[u], u) \/ Fresh(u) \/ u \in dropped
      BY <3>1 DEF InFlightIsQueued
    <3>3. QED
      BY <1>1, <1>3, <1>5, <3>1, <3>2, KeptSnapshot
  <2>2. ASSUME phase' = "install", NEW u \in User
        PROVE  Agrees(snap[u], u)' \/ Fresh(u)' \/ u \in dropped'
    <3>1. phase = "install" /\ Reading
      BY <1>1, <2>2 DEF Reading
    <3>2. Agrees(snap[u], u) \/ Fresh(u) \/ u \in dropped
      BY <3>1 DEF InFlightIsQueued
    <3>3. Agrees(snap[u], u) /\ Kept(u) => Agrees(snap[u], u)'
      BY <1>1 DEF Kept, Agrees
    <3>4. QED
      BY <1>1, <1>3, <1>5, <3>1, <3>2, <3>3
  <2>3. ASSUME phase' = "complete", NEW u \in User
        PROVE  Agrees(core[u], u)' \/ Fresh(u)' \/ u \in dropped' \/ u \in stranded'
    <3>1. phase = "complete" /\ Reading
      BY <1>1, <2>3 DEF Reading
    <3>2. Agrees(core[u], u) \/ Fresh(u) \/ u \in dropped \/ u \in stranded
      BY <3>1 DEF InFlightIsQueued
    <3>3. Agrees(core[u], u) /\ Kept(u) => Agrees(core[u], u)'
      BY <1>1 DEF Kept, Agrees
    <3>4. QED
      BY <1>1, <1>3, <1>5, <3>1, <3>2, <3>3
  <2>4. QED
    BY <2>1, <2>2, <2>3 DEF InFlightIsQueued
<1>8. DroppedIsHeld'
  <2>1. SUFFICES ASSUME NEW u \in dropped'
                 PROVE  u \in stranded' \/ \E action \in Action : <<u, action>> \in held'
    BY DEF DroppedIsHeld
  <2>2. CASE u \in dropped
    BY <1>1, <2>2 DEF DroppedIsHeld
  <2>3. CASE u \in {row[1] : row \in needed \ outbox'}
    BY <2>3 DEF Enqueue
  <2>4. CASE u \in {row[1] : row \in needed \intersect held}
    <3>1. PICK row \in needed \intersect held : u = row[1]
      BY <2>4
    <3>2. row = <<row[1], row[2]>> /\ row[2] \in Action
      BY DEF Row
    <3>3. QED
      BY <1>1, <3>1, <3>2
  <2>5. QED
    BY <2>1, <2>2, <2>3, <2>4 DEF Enqueue
<1>9. Deploying'
  BY <1>1 DEF Deploying
<1>10. QED
  BY <1>6, <1>7, <1>8, <1>9
-----------------------------------------------------------------------------
(***************************************************************************)
(* Every transaction announces the users whose grant it changes.           *)
(***************************************************************************)
Announces ==
    \E needed \in SUBSET Row :
      EnqueuesSome(needed) /\ \A u \in User : Announced(needed, u) \/ Kept(u)

\* A transaction on one user, which queues a row for that user.
LEMMA OneUser ==
  ASSUME TypeOK, NEW u \in User, NEW action \in Action, EnqueueFor(u, {<<u, action>>}),
         \A v \in User \ {u} : Kept(v)
  PROVE  Announces
<1>1. {<<u, action>>} \in SUBSET Row
  BY DEF Row
<1>2. Announced({<<u, action>>}, u)
  BY DEF Announced
<1>3. EnqueuesSome({<<u, action>>})
  BY <1>1, EnqueueForEnqueues
<1>4. QED
  BY <1>1, <1>2, <1>3 DEF Announces

\* A transaction that takes nothing from anybody and gives nothing.
LEMMA NoUser ==
  ASSUME EnqueuesSome({}), \A v \in User : Kept(v)
  PROVE  Announces
BY DEF Announces

LEMMA NoRow == {} \in SUBSET Row
OBVIOUS

LEMMA IssueAnnounces ==
  ASSUME TypeOK, NEW u \in User, Issue(u)
  PROVE  Announces
<1>1. \A v \in User \ {u} : Kept(v)
  BY DEF TypeOK, Issue, Kept, Entitled, Active
<1>2. "reconcile" \in Action /\ EnqueueFor(u, {<<u, "reconcile">>})
  BY DEF Action, Issue
<1>3. QED
  BY <1>1, <1>2, OneUser

LEMMA SetEligibilityAnnounces ==
  ASSUME TypeOK, Restorable, NEW u \in User, NEW decision \in BOOLEAN,
         SetEligibility(u, decision)
  PROVE  Announces
<1>1. \A v \in User \ {u} : Kept(v)
  BY DEF TypeOK, SetEligibility, Kept, Entitled, Active
<1>2. CASE ~decision /\ status[u] = "active"
  <2>1. EnqueueFor(u, {<<u, "revoke">>})
    BY <1>2 DEF SetEligibility
  <2>2. "revoke" \in Action
    BY DEF Action
  <2>3. QED
    BY <1>1, <2>1, <2>2, OneUser
<1>3. CASE ~(~decision /\ status[u] = "active")
  <2>1. EnqueueFor(u, {})
    BY <1>3 DEF SetEligibility
  <2>2. Kept(u)
    BY <1>3 DEF TypeOK, Restorable, SetEligibility, Kept, Entitled, Active
  <2>3. EnqueuesSome({})
    BY <2>1, NoRow, EnqueueForEnqueues
  <2>4. QED
    BY <1>1, <2>2, <2>3, NoUser
<1>4. QED
  BY <1>2, <1>3

LEMMA RotateAnnounces ==
  ASSUME TypeOK, NEW u \in User, NEW resetPeriod \in BOOLEAN, Rotate(u, resetPeriod)
  PROVE  Announces
<1>1. \A v \in User \ {u} : Kept(v)
  BY DEF TypeOK, Rotate, Kept, Entitled, Active
<1>2. "reconcile" \in Action /\ EnqueueFor(u, {<<u, "reconcile">>})
  BY DEF Action, Rotate
<1>3. QED
  BY <1>1, <1>2, OneUser

LEMMA RevokeAnnounces ==
  ASSUME TypeOK, NEW u \in User, NEW next \in RevokedStatus, Revoke(u, next)
  PROVE  Announces
<1>1. \A v \in User \ {u} : Kept(v)
  BY DEF TypeOK, Revoke, Kept, Entitled, Active
<1>2. "revoke" \in Action /\ EnqueueFor(u, {<<u, "revoke">>})
  BY DEF Action, Revoke
<1>3. QED
  BY <1>1, <1>2, OneUser

LEMMA RejectApprovalAnnounces ==
  ASSUME TypeOK, NEW u \in User, RejectApproval(u)
  PROVE  Announces
<1>1. \A v \in User : Kept(v)
  BY DEF TypeOK, RejectApproval, Kept, Entitled, Active
<1>2. EnqueueFor(u, {})
  BY DEF RejectApproval
<1>3. EnqueuesSome({})
  BY <1>2, NoRow, EnqueueForEnqueues
<1>4. QED
  BY <1>1, <1>3, NoUser

LEMMA RecordTrafficAnnounces ==
  ASSUME TypeOK, NEW u \in User, NEW nowBlocked \in BOOLEAN, RecordTraffic(u, nowBlocked)
  PROVE  Announces
<1>1. \A v \in User \ {u} : Kept(v)
  BY DEF TypeOK, RecordTraffic, Kept, Entitled, Active
<1>2. PICK action \in Action : EnqueueFor(u, {<<u, action>>})
  BY DEF Action, RecordTraffic
<1>3. QED
  BY <1>1, <1>2, OneUser

\* A user in the argument of RowsFor is announced by it.
LEMMA RowsForAnnounces ==
  ASSUME NEW users, NEW action \in Action, NEW u \in users
  PROVE  Announced(RowsFor(users, action), u)
BY DEF Announced, RowsFor

\* A transaction over all users, which queues rows for some of them.
LEMMA ManyUsers ==
  ASSUME TypeOK, NEW kind, NEW action \in Action, NEW users \in SUBSET User,
         EnqueueForAll(kind, RowsFor(users, action)),
         \A u \in User \ users : Kept(u)
  PROVE  Announces
<1>1. RowsFor(users, action) \in SUBSET Row
  BY RowsForRow
<1>2. \A u \in users : Announced(RowsFor(users, action), u)
  BY RowsForAnnounces
<1>3. EnqueuesSome(RowsFor(users, action))
  BY <1>1, EnqueueForAllEnqueues
<1>4. QED
  BY <1>1, <1>2, <1>3 DEF Announces

LEMMA AdvanceAnnounces ==
  ASSUME TypeOK, NEW due \in SUBSET Issued, AdvanceDueQuotaPeriods(due)
  PROVE  Announces
<1> DEFINE users == {u \in due : blocked[u] /\ Active(u) /\ ~failClosed}
<1>1. users \in SUBSET User /\ "reconcile" \in Action
  BY DEF Issued, Action
<1>2. EnqueueForAll("sweep", RowsFor(users, "reconcile"))
  BY DEF AdvanceDueQuotaPeriods, SweepRows
<1>3. \A u \in User \ users : Kept(u)
  BY DEF TypeOK, AdvanceDueQuotaPeriods, Kept, Entitled, Active
<1>4. QED
  BY <1>1, <1>2, <1>3, ManyUsers

LEMMA LimitRowsType ==
  ASSUME NEW over \in SUBSET Issued, NEW windows \in SUBSET User
  PROVE  LimitRows(windows, over) \in SUBSET Row
<1> DEFINE cut  == {u \in over : ~blocked[u] /\ Active(u)}
           back == {u \in windows \ over : blocked[u] /\ Active(u) /\ ~failClosed}
<1>1. /\ cut \in SUBSET User /\ back \in SUBSET User
      /\ "revoke" \in Action /\ "reconcile" \in Action
  BY DEF Issued, Action
<1>2. RowsFor(cut, "revoke") \in SUBSET Row /\ RowsFor(back, "reconcile") \in SUBSET Row
  BY <1>1, RowsForRow
<1>3. QED
  BY <1>2 DEF LimitRows

\* The rows ManagementSettingsStore.Update needs, and the windows it sets.
LEMMA UpdateManagementEnqueues ==
  ASSUME TypeOK, NEW over \in SUBSET Issued,
         NEW removed \in SUBSET {u \in User : status[u] = "active"},
         UpdateManagement(over, removed)
  PROVE  \E windows \in SUBSET User :
           /\ SetLimit(windows, over)
           /\ LimitRows(windows, over) \union RemovalRows(removed) \in SUBSET Row
           /\ EnqueuesSome(LimitRows(windows, over) \union RemovalRows(removed))
<1>1. ASSUME NEW windows \in SUBSET User
      PROVE  LimitRows(windows, over) \union RemovalRows(removed) \in SUBSET Row
  <2>1. removed \in SUBSET User /\ "revoke" \in Action
    BY DEF Action
  <2>2. RowsFor(removed, "revoke") \in SUBSET Row
    BY <2>1, RowsForRow
  <2>3. QED
    BY <2>2, LimitRowsType DEF RemovalRows
<1>2. CASE open.kind # "settings"
  <2>1. Issued \in SUBSET User
    BY DEF Issued
  <2>2. QED
    BY <1>1, <1>2, <2>1, AtOnceEnqueues DEF UpdateManagement
<1>3. CASE open.kind = "settings"
  <2>1. open.windows \in SUBSET User
    BY DEF TypeOK, Transaction
  <2>2. open.rows \union RemovalRows(removed) \in SUBSET Row
    <3>1. "revoke" \in Action /\ removed \in SUBSET User
      BY DEF Action
    <3>2. QED
      BY <3>1, OpenType, RowsForRow DEF RemovalRows
  <2>3. QED
    BY <1>1, <1>3, <2>1, <2>2, LateEnqueues DEF UpdateManagement
<1>4. QED
  BY <1>2, <1>3

LEMMA UpdateManagementAnnounces ==
  ASSUME TypeOK, NEW over \in SUBSET Issued,
         NEW removed \in SUBSET {u \in User : status[u] = "active"},
         UpdateManagement(over, removed)
  PROVE  Announces
<1>1. PICK windows \in SUBSET User :
           /\ SetLimit(windows, over)
           /\ LimitRows(windows, over) \union RemovalRows(removed) \in SUBSET Row
           /\ EnqueuesSome(LimitRows(windows, over) \union RemovalRows(removed))
  BY UpdateManagementEnqueues
<1> DEFINE cut  == {u \in over : ~blocked[u] /\ Active(u)}
           back == {u \in windows \ over : blocked[u] /\ Active(u) /\ ~failClosed}
           rows == LimitRows(windows, over) \union RemovalRows(removed)
<1>2. \A u \in User \ (cut \union back \union removed) : Kept(u)
  <2>1. SUFFICES ASSUME NEW u \in User, u \notin cut, u \notin back, u \notin removed
                 PROVE  Kept(u)
    OBVIOUS
  <2>2. status'[u] = status[u] /\ eligible'[u] = eligible[u]
    BY <2>1 DEF TypeOK, UpdateManagement
  <2>3. blocked'[u] = IF u \in windows THEN u \in over ELSE blocked[u]
    BY <1>1 DEF SetLimit
  <2>4. /\ gen'[u] = gen[u] /\ version' = version
        /\ failClosed' = failClosed /\ tls' = tls
    BY DEF UpdateManagement
  <2>5. Active(u)' <=> Active(u)
    BY <2>2 DEF Active
  <2>6. CASE u \in over
    BY <2>1, <2>3, <2>4, <2>5, <2>6 DEF Kept, Entitled
  <2>7. CASE u \notin over
    BY <2>1, <2>3, <2>4, <2>5, <2>7 DEF Kept, Entitled
  <2>8. QED
    BY <2>6, <2>7
<1>3. \A u \in cut \union back \union removed : Announced(rows, u)
  <2>1. "revoke" \in Action /\ "reconcile" \in Action
    BY DEF Action
  <2>2. /\ \A u \in cut : Announced(RowsFor(cut, "revoke"), u)
        /\ \A u \in back : Announced(RowsFor(back, "reconcile"), u)
        /\ \A u \in removed : Announced(RowsFor(removed, "revoke"), u)
    BY <2>1, RowsForAnnounces
  <2>3. QED
    BY <2>2 DEF Announced, LimitRows, RemovalRows
<1>4. QED
  BY <1>1, <1>2, <1>3 DEF Announces

LEMMA SwitchAnnounces ==
  ASSUME TypeOK, UpdateCore \/ FailClosed \/ RecoverFromFailClosed \/ Certificate
  PROVE  Announces
<1> DEFINE free  == {u \in ActiveUsers : ~blocked[u]}
<1>1. /\ ActiveUsers \in SUBSET User /\ free \in SUBSET User
      /\ "revoke" \in Action /\ "reconcile" \in Action
  BY DEF Action, ActiveUsers
<1>2. CASE UpdateCore
  <2>1. \A u \in User \ ActiveUsers : Kept(u)
    BY <1>2 DEF UpdateCore, Kept, Entitled, Active, ActiveUsers
  <2>2. QED
    BY <1>1, <1>2, <2>1, ManyUsers DEF UpdateCore
<1>3. CASE FailClosed
  <2>1. \A u \in User \ ActiveUsers : Kept(u)
    BY <1>3 DEF FailClosed, Kept, Entitled, Active, ActiveUsers
  <2>2. EnqueueForAll("health", RowsFor(ActiveUsers, "revoke"))
    BY <1>3 DEF FailClosed, HealthRows
  <2>3. QED
    BY <1>1, <2>1, <2>2, ManyUsers
<1>4. CASE RecoverFromFailClosed
  <2>1. \A u \in User \ free : Kept(u)
    BY <1>4 DEF RecoverFromFailClosed, Kept, Entitled, Active, ActiveUsers
  <2>2. EnqueueForAll("health", RowsFor(free, "reconcile"))
    BY <1>4 DEF RecoverFromFailClosed, HealthRows
  <2>3. QED
    BY <1>1, <2>1, <2>2, ManyUsers
<1>5. CASE RecordIssuance
  <2>1. \A u \in User \ ActiveUsers : Kept(u)
    BY <1>5 DEF RecordIssuance, Kept, Entitled, Active, ActiveUsers
  <2>2. QED
    BY <1>1, <1>5, <2>1, ManyUsers DEF RecordIssuance
<1>6. CASE CertificateExpires
  <2>1. \A u \in User : Kept(u)
    BY <1>6 DEF CertificateExpires, Kept, Entitled, Active
  <2>2. QED
    BY <1>6, <2>1, NothingEnqueues, NoUser DEF CertificateExpires
<1>7. CASE RecordFailure
  <2>1. \A u \in User : Kept(u)
    BY <1>7 DEF RecordFailure, Kept, Entitled, Active
  <2>2. QED
    BY <1>7, <2>1, NothingEnqueues, NoUser DEF RecordFailure
<1>8. QED
  BY <1>2, <1>3, <1>4, <1>5, <1>6, <1>7 DEF Certificate

DbTransaction == Administration \/ Accounting \/ Certificate

\* No transaction changes a grant without a row for the user it changes.
LEMMA TransactionAnnounces ==
  ASSUME TypeOK, Restorable, DbTransaction
  PROVE  Announces
<1>1. ASSUME NEW u \in User, NEW decision \in BOOLEAN, SetEligibility(u, decision)
      PROVE  Announces
  BY <1>1, SetEligibilityAnnounces
<1>2. ASSUME NEW u \in User, Claim(u) \/ Approve(u)
      PROVE  Announces
  BY <1>2, IssueAnnounces DEF Claim, Approve
<1>3. ASSUME NEW u \in User, RejectApproval(u)
      PROVE  Announces
  BY <1>3, RejectApprovalAnnounces
<1>4. ASSUME NEW u \in User, NEW resetPeriod \in BOOLEAN, Rotate(u, resetPeriod)
      PROVE  Announces
  BY <1>4, RotateAnnounces
<1>5. ASSUME NEW u \in User, NEW next \in RevokedStatus, Revoke(u, next)
      PROVE  Announces
  BY <1>5, RevokeAnnounces
<1>6. ASSUME NEW over \in SUBSET Issued,
             NEW removed \in SUBSET {u \in User : status[u] = "active"},
             UpdateManagement(over, removed)
      PROVE  Announces
  BY <1>6, UpdateManagementAnnounces
<1>7. CASE Administration
  BY <1>1, <1>2, <1>3, <1>4, <1>5, <1>6, <1>7, SwitchAnnounces DEF Administration
<1>8. ASSUME NEW u \in User, NEW nowBlocked \in BOOLEAN, RecordTraffic(u, nowBlocked)
      PROVE  Announces
  BY <1>8, RecordTrafficAnnounces
<1>9. ASSUME NEW due \in SUBSET Issued, AdvanceDueQuotaPeriods(due)
      PROVE  Announces
  BY <1>9, AdvanceAnnounces
<1>10. CASE Accounting
  BY <1>8, <1>9, <1>10, SwitchAnnounces DEF Accounting
<1>11. QED
  BY <1>7, <1>10, SwitchAnnounces DEF DbTransaction
-----------------------------------------------------------------------------
(***************************************************************************)
(* The types and Restorable through a transaction.                         *)
(***************************************************************************)
DbTypeOK ==
    /\ eligible \in [User -> BOOLEAN]
    /\ status \in [User -> Status]
    /\ gen \in [User -> Nat]
    /\ blocked \in [User -> BOOLEAN]
    /\ version \in Nat
    /\ failClosed \in BOOLEAN
    /\ tls \in Tls

LEMMA IssueKeepsTypes ==
  ASSUME TypeOK, Restorable, NEW u \in User, eligible[u], Issue(u)
  PROVE  DbTypeOK' /\ Restorable'
<1>1. status' \in [User -> Status] /\ gen' \in [User -> Nat] /\ blocked' \in [User -> BOOLEAN]
  BY DEF TypeOK, Issue, Status
<1>2. DbTypeOK'
  BY <1>1 DEF TypeOK, DbTypeOK, Issue
<1>3. Restorable'
  BY DEF TypeOK, Restorable, Issue
<1>4. QED
  BY <1>2, <1>3

LEMMA AdministrationKeepsTypes ==
  ASSUME TypeOK, Restorable, Administration
  PROVE  DbTypeOK' /\ Restorable'
<1>1. ASSUME NEW u \in User, NEW decision \in BOOLEAN, SetEligibility(u, decision)
      PROVE  DbTypeOK' /\ Restorable'
  <2>1. eligible' \in [User -> BOOLEAN] /\ status' \in [User -> Status]
    BY <1>1 DEF TypeOK, SetEligibility, Status
  <2>2. DbTypeOK'
    BY <1>1, <2>1 DEF TypeOK, DbTypeOK, SetEligibility
  <2>3. Restorable'
    BY <1>1 DEF TypeOK, Restorable, SetEligibility
  <2>4. QED
    BY <2>2, <2>3
<1>2. ASSUME NEW u \in User, Claim(u) \/ Approve(u)
      PROVE  DbTypeOK' /\ Restorable'
  BY <1>2, IssueKeepsTypes DEF Claim, Approve
<1>3. ASSUME NEW u \in User, RejectApproval(u)
      PROVE  DbTypeOK' /\ Restorable'
  <2>1. status' \in [User -> Status]
    BY <1>3 DEF TypeOK, RejectApproval, Status
  <2>2. DbTypeOK' /\ Restorable'
    BY <1>3, <2>1 DEF TypeOK, DbTypeOK, Restorable, RejectApproval
  <2>3. QED
    BY <2>2
<1>4. ASSUME NEW u \in User, NEW resetPeriod \in BOOLEAN, Rotate(u, resetPeriod)
      PROVE  DbTypeOK' /\ Restorable'
  <2>1. gen' \in [User -> Nat] /\ blocked' \in [User -> BOOLEAN]
    BY <1>4 DEF TypeOK, Rotate
  <2>2. DbTypeOK'
    BY <1>4, <2>1 DEF TypeOK, DbTypeOK, Rotate
  <2>3. Restorable'
    BY <1>4 DEF TypeOK, Restorable, Rotate
  <2>4. QED
    BY <2>2, <2>3
<1>5. ASSUME NEW u \in User, NEW next \in RevokedStatus, Revoke(u, next)
      PROVE  DbTypeOK' /\ Restorable'
  <2>1. status' \in [User -> Status]
    BY <1>5 DEF TypeOK, Revoke, Status, RevokedStatus
  <2>2. DbTypeOK'
    BY <1>5, <2>1 DEF TypeOK, DbTypeOK, Revoke
  <2>3. Restorable'
    BY <1>5 DEF TypeOK, Restorable, Revoke, RevokedStatus
  <2>4. QED
    BY <2>2, <2>3
<1>6. ASSUME NEW over \in SUBSET Issued,
             NEW removed \in SUBSET {u \in User : status[u] = "active"},
             UpdateManagement(over, removed)
      PROVE  DbTypeOK' /\ Restorable'
  <2>1. PICK windows : SetLimit(windows, over)
    BY <1>6 DEF UpdateManagement
  <2>2. \A u \in User : blocked'[u] \in BOOLEAN /\ (blocked'[u] => blocked[u] \/ u \in over)
    <3>1. SUFFICES ASSUME NEW u \in User
                   PROVE  blocked'[u] \in BOOLEAN /\ (blocked'[u] => blocked[u] \/ u \in over)
      OBVIOUS
    <3>2. blocked[u] \in BOOLEAN
      BY DEF TypeOK
    <3>3. blocked'[u] = IF u \in windows THEN u \in over ELSE blocked[u]
      BY <2>1 DEF SetLimit
    <3>4. CASE u \in windows
      <4>1. (u \in over) \in BOOLEAN
        OBVIOUS
      <4>2. blocked'[u] = (u \in over)
        BY <3>3, <3>4
      <4>3. QED
        BY <4>1, <4>2, Zenon
    <3>5. CASE u \notin windows
      BY <3>2, <3>3, <3>5
    <3>6. QED
      BY <3>4, <3>5
  <2>3. blocked' \in [User -> BOOLEAN]
    BY <2>1, <2>2 DEF SetLimit
  <2>5. status' \in [User -> Status]
    BY <1>6 DEF TypeOK, UpdateManagement, Status
  <2>6. DbTypeOK'
    BY <1>6, <2>3, <2>5 DEF TypeOK, DbTypeOK, UpdateManagement
  <2>7. Restorable'
    BY <1>6, <2>2 DEF TypeOK, Restorable, UpdateManagement, Issued
  <2>8. QED
    BY <2>6, <2>7
<1>7. ASSUME UpdateCore
      PROVE  DbTypeOK' /\ Restorable'
  BY <1>7 DEF TypeOK, DbTypeOK, Restorable, UpdateCore
<1>8. QED
  BY <1>1, <1>2, <1>3, <1>4, <1>5, <1>6, <1>7 DEF Administration

LEMMA AccountingKeepsTypes ==
  ASSUME TypeOK, Restorable, Accounting \/ Certificate
  PROVE  DbTypeOK' /\ Restorable'
<1>1. ASSUME NEW u \in User, NEW nowBlocked \in BOOLEAN, RecordTraffic(u, nowBlocked)
      PROVE  DbTypeOK' /\ Restorable'
  <2>1. blocked' \in [User -> BOOLEAN]
    BY <1>1 DEF TypeOK, RecordTraffic
  <2>2. DbTypeOK'
    BY <1>1, <2>1 DEF TypeOK, DbTypeOK, RecordTraffic
  <2>3. Restorable'
    BY <1>1 DEF TypeOK, Restorable, RecordTraffic, Active
  <2>4. QED
    BY <2>2, <2>3
<1>2. ASSUME NEW due \in SUBSET Issued, AdvanceDueQuotaPeriods(due)
      PROVE  DbTypeOK' /\ Restorable'
  <2>1. \A u \in User : (blocked[u] /\ u \notin due) \in BOOLEAN
    OBVIOUS
  <2>2. blocked' \in [User -> BOOLEAN]
    BY <1>2, <2>1 DEF AdvanceDueQuotaPeriods
  <2>3. DbTypeOK'
    BY <1>2, <2>2 DEF TypeOK, DbTypeOK, AdvanceDueQuotaPeriods
  <2>4. Restorable'
    BY <1>2 DEF TypeOK, Restorable, AdvanceDueQuotaPeriods
  <2>5. QED
    BY <2>3, <2>4
<1>3. ASSUME FailClosed \/ RecoverFromFailClosed
      PROVE  DbTypeOK' /\ Restorable'
  BY <1>3 DEF TypeOK, DbTypeOK, Restorable, FailClosed, RecoverFromFailClosed
<1>4. ASSUME Certificate
      PROVE  DbTypeOK' /\ Restorable'
  BY <1>4 DEF TypeOK, DbTypeOK, Restorable, Certificate, RecordIssuance,
              CertificateExpires, RecordFailure, Tls
<1>5. QED
  BY <1>1, <1>2, <1>3, <1>4 DEF Accounting
-----------------------------------------------------------------------------
(***************************************************************************)
(* Steps of the worker and of the core.                                    *)
(***************************************************************************)
WorkerStep ==
    \/ ClaimAndWait \/ WorkerProgress \/ WorkerFault \/ CoreRestarts
    \/ \E row \in Row : LeaseExpires(row)

\* Only an installation changes the file, and to the configuration built or
\* to none.
LEMMA WorkerCore ==
  ASSUME WorkerStep
  PROVE  /\ UNCHANGED dbVars
         /\ \/ UNCHANGED <<file, core, deployed>>
            \/ CoreRestarts
            \/ phase = "install" /\ CutShort /\ phase' = "idle"
            \/ InstallSucceeds
BY DEF WorkerStep, ClaimAndWait, WorkerProgress, ClaimAndDeploy, LoadSettings, NotConfigured,
       LetGo, ListActive, InstallSucceeds, CompleteSucceeds, CloseHeldRows, WorkerFault,
       ClaimReplyLost, BuildFails, InstallFails, CoreRestarts, CompleteFails,
       Restart, LeaseExpires, workerVars, coreVars

\* The transaction that stays open changes nothing until it commits.
OpenStep == BeginTransaction \/ Rollback

LEMMA BeginType ==
  ASSUME TypeOK, NEW kind \in Kind, NEW who \in SUBSET User, NEW windows \in SUBSET User,
         NEW over \in SUBSET User, NEW rows \in SUBSET Row, Begin(kind, who, windows, over, rows)
  PROVE  /\ open' \in Transaction /\ faults' \in Nat
         /\ UNCHANGED <<dbData, outbox, leased, workerVars, coreVars, stranded, dropped>>
<1>1. rows \ outbox \in SUBSET Row
  OBVIOUS
<1>2. open' \in Transaction
  BY <1>1 DEF Begin, Transaction
<1>3. QED
  BY <1>2 DEF Begin, Fault, TypeOK

LEMMA OpenStepType ==
  ASSUME TypeOK, OpenStep
  PROVE  /\ open' \in Transaction /\ faults' \in Nat
         /\ UNCHANGED <<dbData, outbox, leased, workerVars, coreVars, stranded, dropped>>
<1> DEFINE Result == /\ open' \in Transaction /\ faults' \in Nat
                     /\ UNCHANGED <<dbData, outbox, leased, workerVars, coreVars, stranded, dropped>>
<1>1. {"user", "sweep", "settings", "core", "health", "tls"} \subseteq Kind
  BY DEF Kind
<1>2. {} \in SUBSET User /\ Issued \in SUBSET User /\ Action = {"revoke", "reconcile"}
  BY DEF Issued, Action
<1>3. RowsFor(ActiveUsers, "reconcile") \in SUBSET Row
  BY <1>2, RowsForRow DEF ActiveUsers
<1>4. HealthRows \in SUBSET Row
  <2>1. {u \in ActiveUsers : ~blocked[u]} \in SUBSET User /\ ActiveUsers \in SUBSET User
    BY DEF ActiveUsers
  <2>2. /\ RowsFor({u \in ActiveUsers : ~blocked[u]}, "reconcile") \in SUBSET Row
        /\ RowsFor(ActiveUsers, "revoke") \in SUBSET Row
    BY <1>2, <2>1, RowsForRow
  <2>3. QED
    BY <2>2 DEF HealthRows
<1>5. ASSUME NEW u \in User, NEW windows \in {{}, {u}},
             Begin("user", {u}, windows, {}, {u} \X Action)
      PROVE  Result
  <2>1. {u} \X Action \in SUBSET Row /\ {u} \in SUBSET User /\ windows \in SUBSET User
    BY DEF Row
  <2>2. QED
    BY <1>1, <1>2, <1>5, <2>1, BeginType
<1>6. ASSUME NEW due \in SUBSET Issued, Begin("sweep", {}, due, {}, SweepRows(due))
      PROVE  Result
  <2>1. {u \in due : blocked[u] /\ Active(u) /\ ~failClosed} \in SUBSET User
    BY <1>2
  <2>2. SweepRows(due) \in SUBSET Row
    BY <1>2, <2>1, RowsForRow DEF SweepRows
  <2>3. QED
    BY <1>1, <1>2, <1>6, <2>2, BeginType
<1>7. ASSUME NEW over \in SUBSET Issued, Begin("settings", {}, Issued, over, LimitRows(Issued, over))
      PROVE  Result
  <2>1. over \in SUBSET User
    BY <1>2
  <2>2. LimitRows(Issued, over) \in SUBSET Row
    BY <1>2, LimitRowsType
  <2>3. QED
    BY <1>1, <1>2, <1>7, <2>1, <2>2, BeginType
<1>8. CASE Begin("health", {}, {}, {}, HealthRows)
  BY <1>1, <1>2, <1>4, <1>8, BeginType
<1>9. CASE \/ Begin("core", {}, {}, {}, RowsFor(ActiveUsers, "reconcile"))
           \/ Begin("tls", {}, {}, {}, RowsFor(ActiveUsers, "reconcile"))
  BY <1>1, <1>2, <1>3, <1>9, BeginType
<1>10. CASE Rollback
  BY <1>10, OpenType DEF Rollback, TypeOK
<1>11. QED
  BY <1>5, <1>6, <1>7, <1>8, <1>9, <1>10 DEF OpenStep, BeginTransaction

LEMMA NoUsersType == NoUsers \in [User -> Entry]
BY DEF NoUsers, Absent, Entry

LEMMA WorkerKeepsTypes ==
  ASSUME TypeOK, WorkerStep
  PROVE  TypeOK'
<1>1. DbTypeOK' /\ open' \in Transaction
  BY WorkerCore DEF TypeOK, DbTypeOK, dbVars, dbData
<1>2. file' \in [User -> Entry] /\ core' \in [User -> Entry] /\ deployed' \in [User -> Nat]
  <2>1. CASE UNCHANGED <<file, core, deployed>>
    BY <2>1 DEF TypeOK
  <2>2. CASE CoreRestarts
    BY <2>2 DEF TypeOK, CoreRestarts
  <2>3. CASE CutShort
    BY <2>3, NoUsersType DEF TypeOK, CutShort
  <2>4. CASE InstallSucceeds
    <3>1. \A u \in User : snap[u].gen \in Nat /\ deployed[u] \in Nat
      BY DEF TypeOK, Entry
    <3>2. deployed' \in [User -> Nat]
      BY <2>4, <3>1 DEF InstallSucceeds
    <3>3. QED
      BY <2>4, <3>2 DEF TypeOK, InstallSucceeds
  <2>5. QED
    BY <2>1, <2>2, <2>3, <2>4, WorkerCore
<1>3. snap' \in [User -> Entry]
  <2>1. CASE ListActive
    BY <2>1, SnapshotType DEF TypeOK, ListActive
  <2>2. CASE ~ListActive
    BY <2>2 DEF TypeOK, WorkerStep, ClaimAndWait, WorkerProgress, ClaimAndDeploy, LoadSettings,
       NotConfigured, LetGo, InstallSucceeds, CompleteSucceeds, CloseHeldRows, WorkerFault,
       ClaimReplyLost, BuildFails, InstallFails, CompleteFails, Restart, CoreRestarts,
       LeaseExpires, workerVars
  <2>3. QED
    BY <2>1, <2>2
<1>4. outbox' \subseteq Row /\ leased' \subseteq outbox' /\ held' \subseteq leased'
  BY DEF TypeOK, WorkerStep, ClaimAndWait, WorkerProgress, ClaimAndDeploy, LoadSettings, Due,
       NotConfigured, LetGo, ListActive, InstallSucceeds, CompleteSucceeds, CloseHeldRows,
       WorkerFault, ClaimReplyLost, BuildFails, InstallFails, CompleteFails, Restart,
       CoreRestarts, LeaseExpires, workerVars
<1>5. phase' \in Phase
  BY DEF TypeOK, Phase, WorkerStep, ClaimAndWait, WorkerProgress, ClaimAndDeploy, LoadSettings,
       NotConfigured, LetGo, ListActive, InstallSucceeds, CompleteSucceeds, CloseHeldRows,
       WorkerFault, ClaimReplyLost, BuildFails, InstallFails, CompleteFails, Restart,
       CoreRestarts, LeaseExpires, workerVars
<1>6. readVersion' \in Nat /\ faults' \in Nat
  BY DEF TypeOK, Fault, WorkerStep, ClaimAndWait, WorkerProgress, ClaimAndDeploy, LoadSettings,
       NotConfigured, LetGo, ListActive, InstallSucceeds, CompleteSucceeds, CloseHeldRows,
       WorkerFault, ClaimReplyLost, BuildFails, InstallFails, CompleteFails, Restart,
       CoreRestarts, LeaseExpires, workerVars
<1>7. dropped' \subseteq User /\ stranded' \subseteq User
  BY DEF TypeOK, WorkerStep, ClaimAndWait, WorkerProgress, ClaimAndDeploy, LoadSettings,
       NotConfigured, LetGo, ListActive, InstallSucceeds, CompleteSucceeds, CloseHeldRows,
       WorkerFault, ClaimReplyLost, BuildFails, InstallFails, CutShort,
       CompleteFails, Restart, CoreRestarts, LeaseExpires, workerVars, coreVars
<1>8. QED
  BY <1>1, <1>2, <1>3, <1>4, <1>5, <1>6, <1>7 DEF TypeOK, DbTypeOK

\* A snapshot agrees with the database at the moment it is read.
LEMMA SnapshotAgrees ==
  ASSUME NEW u \in User
  PROVE  Agrees(Snapshot(version)[u], u)
BY DEF Agrees, Snapshot

\* A user whose insert was dropped still has the row that it met, or waits for
\* the next deployment.
LEMMA DroppedIsQueued ==
  ASSUME TypeOK, SyncInv, NEW u \in dropped
  PROVE  Queued(u) \/ u \in stranded
BY DEF TypeOK, SyncInv, DroppedIsHeld, Queued

\* A step that leaves the database and the rows alone keeps the file and the
\* core repaired, whichever of the known configurations they now are.
LEMMA RepairedStays ==
  ASSUME TypeOK, SyncInv, UNCHANGED <<dbData, outbox, stranded>>,
         core' \in {core, file} \/ (phase = "install" /\ core' \in {core, file, snap, NoUsers}),
         file' = file \/ (phase = "install" /\ file' \in {file, snap, NoUsers})
  PROVE  StaleIsQueued'
<1>1. \A u \in User : Queued(u) => Queued(u)'
  BY DEF Queued
<1>2. phase = "install" => \A u \in User : Agrees(snap[u], u) \/ Queued(u) \/ u \in stranded
  <2>1. \A u \in User : Fresh(u) => Queued(u)
    BY DEF Fresh, Queued
  <2>2. QED
    BY <2>1, DroppedIsQueued DEF SyncInv, InFlightIsQueued
<1>3. phase = "install" => outbox # {}
  BY DEF TypeOK, SyncInv, Deploying
<1>4. phase = "install" => Repaired(snap) /\ Repaired(NoUsers)
  BY <1>2, <1>3 DEF Repaired
<1>5. Repaired(core) /\ Repaired(file)
  BY DEF SyncInv, StaleIsQueued
<1>6. ASSUME NEW config, Repaired(config), core' = config
      PROVE  Repaired(core)'
  <2>1. \A u \in User : Agrees(config[u], u) => Agrees(core[u], u)'
    BY <1>6 DEF Agrees, Entitled, Active, dbVars, dbData
  <2>2. QED
    BY <1>1, <1>6, <2>1 DEF Repaired, NoUsers
<1>7. ASSUME NEW config, Repaired(config), file' = config
      PROVE  Repaired(file)'
  <2>1. \A u \in User : Agrees(config[u], u) => Agrees(file[u], u)'
    BY <1>7 DEF Agrees, Entitled, Active, dbVars, dbData
  <2>2. QED
    BY <1>1, <1>7, <2>1 DEF Repaired, NoUsers
<1>8. QED
  BY <1>4, <1>5, <1>6, <1>7 DEF StaleIsQueued

\* The deployment is given up, before or during its installation.
LEMMA LetGoSync ==
  ASSUME TypeOK, SyncInv, LetGo,
         UNCHANGED <<coreVars, stranded>> \/ (phase = "install" /\ CutShort)
  PROVE  SyncInv'
<1>1. StaleIsQueued'
  BY RepairedStays DEF dbVars, LetGo, CutShort, coreVars
<1>2. InFlightIsQueued' /\ DroppedIsHeld' /\ Deploying'
  BY DEF LetGo, InFlightIsQueued, DroppedIsHeld, Deploying
<1>3. QED
  BY <1>1, <1>2 DEF SyncInv

\* Complete closes the rows of the users the core now agrees with; those
\* whose insert was dropped are left without a row.
LEMMA CloseHeldRowsSync ==
  ASSUME TypeOK, SyncInv, phase = "complete", phase' \in {"idle", "complete"},
         CloseHeldRows, UNCHANGED dbData
  PROVE  SyncInv'
<1>1. \A u \in User : Fresh(u) => Queued(u)' /\ Fresh(u)'
  BY DEF Fresh, Queued, CloseHeldRows
<1>2. core = file /\ UNCHANGED <<core, file>>
  BY DEF SyncInv, Deploying, CloseHeldRows
<1>3. \A u \in User : Agrees(core[u], u) => Agrees(core[u], u)'
  BY <1>2 DEF Agrees, Entitled, Active, dbVars, dbData
<1>4. \A u \in User : Agrees(core[u], u) \/ Fresh(u) \/ u \in stranded'
  BY DEF SyncInv, InFlightIsQueued, CloseHeldRows
<1>5. Repaired(core)'
  BY <1>1, <1>3, <1>4 DEF Repaired
<1>6. StaleIsQueued'
  BY <1>2, <1>5 DEF StaleIsQueued
<1>7. InFlightIsQueued'
  BY <1>1, <1>3, <1>4 DEF InFlightIsQueued
<1>8. DroppedIsHeld'
  BY DEF CloseHeldRows, DroppedIsHeld
<1>9. Deploying'
  BY <1>2 DEF Deploying
<1>10. QED
  BY <1>6, <1>7, <1>8, <1>9 DEF SyncInv

\* The worker stands still, but for a claim while it is idle.
LEMMA QuietSync ==
  ASSUME TypeOK, SyncInv, UNCHANGED <<dbData, outbox, file, stranded, dropped>>,
         core' \in {core, file}, held \subseteq held',
         \/ phase = "idle" /\ phase' = "idle"
         \/ phase = "idle" /\ phase' = "load" /\ held' # {}
         \/ UNCHANGED workerVars
  PROVE  SyncInv'
<1>1. StaleIsQueued'
  BY RepairedStays
<1>2. DroppedIsHeld'
  BY DEF SyncInv, DroppedIsHeld
<1>3. CASE phase = "idle" /\ phase' \in {"idle", "load"}
  BY <1>1, <1>2, <1>3 DEF SyncInv, InFlightIsQueued, Deploying, workerVars
<1>4. CASE phase # "idle" /\ UNCHANGED workerVars
  <2>1. Deploying'
    BY <1>4 DEF SyncInv, Deploying, workerVars
  <2>2. phase = "complete" => core' = core
    BY DEF SyncInv, Deploying
  <2>3. \A u \in User : Fresh(u) => Fresh(u)'
    BY <1>4 DEF Fresh, workerVars
  <2>4. \A u \in User :
          Agrees(Snapshot(readVersion)[u], u) => Agrees(Snapshot(readVersion)[u], u)'
    BY <1>4 DEF Agrees, Snapshot, Entitled, Active, dbVars, dbData, workerVars
  <2>5. \A u \in User : Agrees(snap[u], u) => Agrees(snap[u], u)'
    BY <1>4 DEF Agrees, Entitled, Active, dbVars, dbData, workerVars
  <2>6. phase = "complete" => \A u \in User : Agrees(core[u], u) => Agrees(core[u], u)'
    BY <2>2 DEF Agrees, Entitled, Active, dbVars, dbData
  <2>7. phase' = phase
    BY <1>4 DEF workerVars
  <2>8. InFlightIsQueued'
    BY <2>3, <2>4, <2>5, <2>6, <2>7 DEF SyncInv, InFlightIsQueued
  <2>9. QED
    BY <1>1, <1>2, <2>1, <2>8 DEF SyncInv
<1>5. QED
  BY <1>3, <1>4 DEF workerVars

LEMMA WorkerSync ==
  ASSUME TypeOK, SyncInv, WorkerStep
  PROVE  SyncInv'
<1>1. CASE ClaimAndWait \/ ClaimAndDeploy \/ ClaimReplyLost
  BY <1>1, QuietSync DEF ClaimAndWait, ClaimAndDeploy, ClaimReplyLost, workerVars, coreVars, dbVars
<1>2. ASSUME NEW row \in Row, LeaseExpires(row)
      PROVE  SyncInv'
  BY <1>2, QuietSync DEF LeaseExpires, workerVars, coreVars, dbVars
<1>3. CASE CoreRestarts
  BY <1>3, QuietSync DEF CoreRestarts, workerVars, dbVars
<1>4. CASE LoadSettings
  <2>1. \A u \in User : Agrees(Snapshot(readVersion)[u], u)'
    BY <1>4, SnapshotAgrees DEF LoadSettings, Agrees, Snapshot, Entitled, Active, dbVars, dbData
  <2>2. InFlightIsQueued'
    BY <1>4, <2>1 DEF LoadSettings, InFlightIsQueued
  <2>3. StaleIsQueued'
    BY <1>4, RepairedStays DEF LoadSettings, coreVars, dbVars
  <2>4. DroppedIsHeld' /\ Deploying'
    BY <1>4 DEF SyncInv, DroppedIsHeld, Deploying, LoadSettings, coreVars
  <2>5. QED
    BY <2>2, <2>3, <2>4 DEF SyncInv
<1>5. CASE ListActive
  <2>1. \A u \in User : Agrees(Snapshot(readVersion)[u], u) => Agrees(snap[u], u)'
    BY <1>5 DEF ListActive, Agrees, Entitled, Active, dbVars, dbData
  <2>2. \A u \in User : Fresh(u) => Fresh(u)'
    BY <1>5 DEF ListActive, Fresh
  <2>3. \A u \in User : Agrees(Snapshot(readVersion)[u], u) \/ Fresh(u) \/ u \in dropped
    BY <1>5 DEF ListActive, SyncInv, InFlightIsQueued
  <2>4. InFlightIsQueued'
    BY <1>5, <2>1, <2>2, <2>3 DEF ListActive, InFlightIsQueued
  <2>5. StaleIsQueued'
    BY <1>5, RepairedStays DEF ListActive, coreVars, dbVars
  <2>6. DroppedIsHeld' /\ Deploying'
    BY <1>5 DEF SyncInv, DroppedIsHeld, Deploying, ListActive, coreVars
  <2>7. QED
    BY <2>4, <2>5, <2>6 DEF SyncInv
<1>6. CASE InstallSucceeds
  <2>1. \A u \in User : Agrees(snap[u], u) => Agrees(core[u], u)' /\ Agrees(file[u], u)'
    BY <1>6 DEF InstallSucceeds, Agrees, Entitled, Active, dbVars, dbData
  <2>2. \A u \in User : (Fresh(u) => Fresh(u)') /\ (Queued(u) => Queued(u)')
    BY <1>6 DEF InstallSucceeds, Fresh, Queued
  <2>3. \A u \in User : Agrees(snap[u], u) \/ Fresh(u) \/ u \in dropped
    BY <1>6 DEF InstallSucceeds, SyncInv, InFlightIsQueued
  <2>4. InFlightIsQueued'
    BY <1>6, <2>1, <2>2, <2>3 DEF InstallSucceeds, InFlightIsQueued
  <2>5. \A u \in User : Fresh(u) => Queued(u)
    BY DEF Fresh, Queued
  <2>6. \A u \in dropped : Queued(u)' \/ u \in stranded'
    <3>1. SUFFICES ASSUME NEW u \in dropped PROVE Queued(u)' \/ u \in stranded'
      OBVIOUS
    <3>2. u \in User /\ (Queued(u) \/ u \in stranded)
      BY DroppedIsQueued DEF TypeOK
    <3>3. QED
      BY <1>6, <2>2, <3>2 DEF InstallSucceeds
  <2>7. StaleIsQueued'
    <3>1. \A u \in User : Agrees(snap[u], u) \/ Queued(u)' \/ u \in stranded'
      BY <2>2, <2>3, <2>5, <2>6
    <3>2. QED
      BY <2>1, <3>1 DEF StaleIsQueued, Repaired
  <2>8. DroppedIsHeld' /\ Deploying'
    BY <1>6 DEF SyncInv, DroppedIsHeld, Deploying, InstallSucceeds
  <2>9. QED
    BY <2>4, <2>7, <2>8 DEF SyncInv
<1>7. CASE NotConfigured \/ BuildFails \/ InstallFails \/ Restart
  BY <1>7, LetGoSync DEF NotConfigured, BuildFails, InstallFails, Restart
<1>8. CASE CompleteSucceeds
  BY <1>8, CloseHeldRowsSync DEF CompleteSucceeds, dbVars
<1>9. CASE CompleteFails
  <2>1. CASE CloseHeldRows
    BY <1>9, <2>1, CloseHeldRowsSync DEF CompleteFails, dbVars
  <2>2. CASE UNCHANGED <<outbox, leased, held, dropped, coreVars, stranded>>
    BY <1>9, <2>2, QuietSync DEF CompleteFails, coreVars, workerVars, dbVars
  <2>3. QED
    BY <1>9, <2>1, <2>2 DEF CompleteFails
<1>10. QED
  BY <1>1, <1>2, <1>3, <1>4, <1>5, <1>6, <1>7, <1>8, <1>9
  DEF WorkerStep, WorkerProgress, WorkerFault
-----------------------------------------------------------------------------
(***************************************************************************)
(* OrderInv.                                                               *)
(***************************************************************************)

\* Generations and versions never go back.
LEMMA Forward ==
  ASSUME TypeOK, Next
  PROVE  version <= version' /\ \A u \in User : gen[u] <= gen'[u]
<1>1. ASSUME NEW u \in User, Issue(u)
      PROVE  version' = version /\ \A v \in User : gen[v] <= gen'[v]
  BY <1>1 DEF TypeOK, Issue
<1>2. ASSUME NEW u \in User, NEW resetPeriod \in BOOLEAN, Rotate(u, resetPeriod)
      PROVE  version' = version /\ \A v \in User : gen[v] <= gen'[v]
  BY <1>2 DEF TypeOK, Rotate
<1>3. CASE Administration
  <2>1. ASSUME NEW u \in User, Claim(u) \/ Approve(u)
        PROVE  version' = version /\ \A v \in User : gen[v] <= gen'[v]
    BY <1>1, <2>1 DEF Claim, Approve
  <2>2. ASSUME NEW u \in User,
               \/ \E decision \in BOOLEAN : SetEligibility(u, decision)
               \/ RejectApproval(u)
               \/ \E next \in RevokedStatus : Revoke(u, next)
        PROVE  version' = version /\ gen' = gen
    BY <2>2 DEF SetEligibility, RejectApproval, Revoke
  <2>3. ASSUME NEW over, NEW removed, UpdateManagement(over, removed)
        PROVE  version' = version /\ gen' = gen
    BY <2>3 DEF UpdateManagement
  <2>4. ASSUME UpdateCore
        PROVE  version' = version + 1 /\ gen' = gen
    BY <2>4 DEF UpdateCore
  <2>5. \/ version' = version /\ \A v \in User : gen[v] <= gen'[v]
        \/ version' \in {version, version + 1} /\ gen' = gen
    BY <1>2, <1>3, <2>1, <2>2, <2>3, <2>4 DEF Administration
  <2>6. QED
    BY <2>5 DEF TypeOK
<1>4. CASE Accounting \/ Certificate
  <2>1. version' = version /\ gen' = gen
    BY <1>4 DEF Accounting, Certificate, RecordTraffic, AdvanceDueQuotaPeriods, FailClosed,
              RecoverFromFailClosed, RecordIssuance, CertificateExpires, RecordFailure
  <2>2. QED
    BY <2>1 DEF TypeOK
<1>5. CASE WorkerStep
  <2>1. version' = version /\ gen' = gen
    BY <1>5, WorkerCore DEF dbVars, dbData
  <2>2. QED
    BY <2>1 DEF TypeOK
<1>6. CASE OpenStep
  <2>1. version' = version /\ gen' = gen
    BY <1>6, OpenStepType DEF dbData
  <2>2. QED
    BY <2>1 DEF TypeOK
<1>7. QED
  BY <1>3, <1>4, <1>5, <1>6 DEF Next, WorkerStep, OpenStep

LEMMA OrderStep ==
  ASSUME TypeOK, Restorable, OrderInv, Next, DbTypeOK'
  PROVE  OrderInv'
<1>1. \A u \in User : gen[u] \in Nat /\ gen'[u] \in Nat /\ gen[u] <= gen'[u]
  BY Forward DEF TypeOK, DbTypeOK
<1>2. \A u \in User : /\ deployed[u] \in Nat /\ core[u].gen \in Nat
                      /\ file[u].gen \in Nat /\ snap[u].gen \in Nat
  BY DEF TypeOK, Entry
<1>3. CASE DbTransaction \/ OpenStep
  <2>1. UNCHANGED <<phase, snap, file, core, deployed>>
    <3>1. CASE OpenStep
      BY <3>1, OpenStepType DEF workerVars, coreVars
    <3>2. CASE DbTransaction
      <4>1. PICK needed, inserted : Enqueue(needed, inserted)
        BY <3>2, TransactionAnnounces DEF Announces, EnqueuesSome
      <4>2. QED
        BY <4>1 DEF Enqueue, workerVars, coreVars
    <3>3. QED
      BY <1>3, <3>1, <3>2
  <2>2. \A config \in {core, file} : \A u \in User :
          config[u] # Absent => deployed[u] <= config[u].gen /\ config[u].gen <= gen'[u]
    BY <1>1, <1>2 DEF OrderInv, NoOlderCredentials
  <2>3. NoOlderCredentials'
    BY <2>1, <2>2 DEF NoOlderCredentials
  <2>4. \A u \in User : deployed'[u] <= gen'[u]
    BY <1>1, <1>2, <2>1 DEF OrderInv
  <2>5. phase' = "install" =>
         \A u \in User : snap'[u] # Absent => deployed'[u] <= snap'[u].gen /\ snap'[u].gen <= gen'[u]
    BY <1>1, <1>2, <2>1 DEF OrderInv
  <2>6. QED
    BY <2>3, <2>4, <2>5 DEF OrderInv
<1>4. CASE WorkerStep
  <2>1. gen' = gen
    BY <1>4, WorkerCore DEF dbVars, dbData
  <2>2. CASE UNCHANGED <<file, core, deployed>>
    <3>1. NoOlderCredentials' /\ \A u \in User : deployed'[u] <= gen'[u]
      BY <2>1, <2>2 DEF OrderInv, NoOlderCredentials, Absent
    <3>2. ASSUME ListActive, NEW u \in User, snap'[u] # Absent
          PROVE  deployed'[u] <= snap'[u].gen /\ snap'[u].gen <= gen'[u]
      <4>1. snap'[u] = [gen |-> gen[u], version |-> readVersion]
        BY <3>2 DEF ListActive, Snapshot
      <4>2. snap'[u].gen = gen[u]
        BY <4>1
      <4>3. QED
        BY <1>1, <2>1, <2>2, <4>2 DEF OrderInv
    <3>3. phase' = "install" => ListActive \/ UNCHANGED <<phase, snap>>
      BY <1>4 DEF WorkerStep, ClaimAndWait, WorkerProgress, ClaimAndDeploy, LoadSettings,
         NotConfigured, LetGo, InstallSucceeds, CompleteSucceeds, WorkerFault, ClaimReplyLost,
         BuildFails, InstallFails, CompleteFails, Restart, CoreRestarts, LeaseExpires, workerVars
    <3>4. UNCHANGED <<phase, snap>> /\ phase' = "install" =>
            \A u \in User : snap'[u] # Absent => deployed'[u] <= snap'[u].gen /\ snap'[u].gen <= gen'[u]
      BY <2>1, <2>2 DEF OrderInv
    <3>5. QED
      BY <3>1, <3>2, <3>3, <3>4 DEF OrderInv
  <2>3. CASE CoreRestarts
    BY <2>1, <2>3 DEF CoreRestarts, OrderInv, NoOlderCredentials, Absent, workerVars
  <2>4. CASE phase = "install" /\ CutShort /\ phase' = "idle"
    <3>1. \A config \in {core, file, snap, NoUsers} : \A u \in User :
            config[u] # Absent => deployed[u] <= config[u].gen /\ config[u].gen <= gen[u]
      BY <2>4 DEF OrderInv, NoOlderCredentials, NoUsers
    <3>2. NoOlderCredentials'
      BY <2>1, <2>4, <3>1 DEF CutShort, NoOlderCredentials
    <3>3. QED
      BY <2>1, <2>4, <3>2 DEF CutShort, OrderInv
  <2>5. CASE InstallSucceeds
    <3>1. \A u \in User : deployed'[u] = IF snap[u] = Absent THEN deployed[u] ELSE snap[u].gen
      BY <2>5 DEF InstallSucceeds
    <3>2. \A u \in User : snap[u] # Absent => snap[u].gen <= gen[u]
      BY <2>5 DEF InstallSucceeds, OrderInv
    <3>3. \A u \in User : deployed'[u] <= gen'[u]
      BY <2>1, <3>1, <3>2 DEF OrderInv
    <3>4. \A u \in User : snap[u] # Absent => deployed'[u] <= snap[u].gen /\ snap[u].gen <= gen'[u]
      BY <1>2, <2>1, <3>1, <3>2
    <3>5. phase' = "complete" /\ core' = snap /\ file' = snap
      BY <2>5 DEF InstallSucceeds
    <3>6. NoOlderCredentials'
      BY <3>4, <3>5 DEF NoOlderCredentials
    <3>7. QED
      BY <3>3, <3>5, <3>6 DEF OrderInv
  <2>6. QED
    BY <1>4, <2>2, <2>3, <2>4, <2>5, WorkerCore
<1>5. QED
  BY <1>3, <1>4 DEF Next, DbTransaction, WorkerStep, OpenStep
-----------------------------------------------------------------------------
(***************************************************************************)
(* The theorems.                                                           *)
(***************************************************************************)
IInv == TypeOK /\ Restorable /\ SyncInv /\ OrderInv

LEMMA InitIInv == Init => IInv
<1> SUFFICES ASSUME Init PROVE IInv
  OBVIOUS
<1>1. TypeOK
  BY InitType
<1>2. Restorable
  BY DEF Init, Restorable
<1>3. core = file /\ \A u \in User : core[u] = Absent /\ ~Entitled(u)
  BY DEF Init, NoUsers, Entitled, Active
<1>4. SyncInv
  BY <1>3 DEF Init, SyncInv, StaleIsQueued, Repaired, InFlightIsQueued, DroppedIsHeld,
              Deploying, Agrees
<1>5. OrderInv
  <2>1. \A u \in User : deployed[u] = 0 /\ gen[u] = 0
    BY DEF Init
  <2>2. NoOlderCredentials
    BY <1>3 DEF NoOlderCredentials
  <2>3. phase = "idle"
    BY DEF Init
  <2>4. QED
    BY <2>1, <2>2, <2>3 DEF OrderInv
<1>6. QED
  BY <1>1, <1>2, <1>4, <1>5 DEF IInv

LEMMA NextTypes ==
  ASSUME TypeOK, Restorable, Next
  PROVE  TypeOK' /\ Restorable'
<1>1. CASE DbTransaction
  <2>1. DbTypeOK' /\ Restorable'
    BY <1>1, AdministrationKeepsTypes, AccountingKeepsTypes DEF DbTransaction
  <2>2. PICK needed \in SUBSET Row, inserted \in SUBSET Row :
            Enqueue(needed, inserted) /\ open' \in Transaction
    BY <1>1, TransactionAnnounces DEF Announces, EnqueuesSome
  <2>3. TypeOK'
    BY <2>1, <2>2, EnqueueType DEF TypeOK, DbTypeOK
  <2>4. QED
    BY <2>1, <2>3
<1>2. CASE WorkerStep
  <2>1. Restorable'
    BY <1>2, WorkerCore DEF Restorable, dbVars, dbData
  <2>2. QED
    BY <1>2, <2>1, WorkerKeepsTypes
<1>3. CASE OpenStep
  <2>1. /\ open' \in Transaction /\ faults' \in Nat
        /\ UNCHANGED <<dbData, outbox, leased, workerVars, coreVars, stranded, dropped>>
    BY <1>3, OpenStepType
  <2>2. QED
    BY <2>1 DEF TypeOK, Restorable, dbData, workerVars, coreVars
<1>4. QED
  BY <1>1, <1>2, <1>3 DEF Next, DbTransaction, WorkerStep, OpenStep

LEMMA NextIInv ==
  ASSUME IInv, [Next]_vars
  PROVE  IInv'
<1>1. CASE Next
  <2>1. TypeOK' /\ Restorable'
    BY <1>1, NextTypes DEF IInv
  <2>2. SyncInv'
    <3>1. CASE DbTransaction
      <4>1. PICK needed \in SUBSET Row, inserted \in SUBSET Row :
              Enqueue(needed, inserted) /\ \A u \in User : Announced(needed, u) \/ Kept(u)
        BY <3>1, TransactionAnnounces DEF IInv, Announces, EnqueuesSome
      <4>2. QED
        BY <4>1, DbStep DEF IInv
    <3>2. CASE WorkerStep
      BY <3>2, WorkerSync DEF IInv
    <3>3. CASE OpenStep
      BY <3>3, OpenStepType, QuietSync DEF IInv, coreVars, workerVars
    <3>4. QED
      BY <1>1, <3>1, <3>2, <3>3 DEF Next, DbTransaction, WorkerStep, OpenStep
  <2>3. OrderInv'
    BY <1>1, <2>1, OrderStep DEF IInv, TypeOK, DbTypeOK
  <2>4. QED
    BY <2>1, <2>2, <2>3 DEF IInv
<1>2. CASE UNCHANGED vars
  <2>1. TypeOK' /\ Restorable'
    BY <1>2 DEF vars, dbVars, dbData, workerVars, coreVars, IInv, TypeOK, Restorable
  <2>2. SyncInv'
    BY <1>2, QuietSync DEF vars, dbVars, workerVars, coreVars, IInv
  <2>3. OrderInv'
    BY <1>2 DEF vars, dbVars, dbData, workerVars, coreVars, IInv, OrderInv, NoOlderCredentials
  <2>4. QED
    BY <2>1, <2>2, <2>3 DEF IInv
<1>3. QED
  BY <1>1, <1>2

LEMMA Invariance == Spec => []IInv
<1>1. IInv /\ [Next]_vars => IInv'
  BY NextIInv
<1>2. QED
  BY InitIInv, <1>1, PTL DEF Spec

\* Every transaction and every step of the worker keeps the types.
THEOREM TypeCorrect == Spec => []TypeOK
<1>1. IInv => TypeOK
  BY DEF IInv
<1>2. QED
  BY Invariance, <1>1, PTL

\* A user the core serves wrongly always has a row to repair it, or is
\* stranded: by the lost wake-up, or by a transaction that others committed
\* into (READ COMMITTED).  The theorem says that there is no third way.
THEOREM StaleAlwaysQueued == Spec => []StaleIsQueued
<1>1. IInv => StaleIsQueued
  BY DEF IInv, SyncInv
<1>2. QED
  BY Invariance, <1>1, PTL

\* The same of what the worker has read and is about to install: a row that it
\* does not hold is there to repair it, but for a change whose transaction left
\* no such row.
THEOREM InFlightAlwaysQueued == Spec => []InFlightIsQueued
<1>1. IInv => InFlightIsQueued
  BY DEF IInv, SyncInv
<1>2. QED
  BY Invariance, <1>1, PTL

\* No sequence of operations writes an account that cannot be read back.
THEOREM AlwaysRestorable == Spec => []Restorable
<1>1. IInv => Restorable
  BY DEF IInv
<1>2. QED
  BY Invariance, <1>1, PTL

\* A rotated credential never comes back once its successor was installed.
THEOREM NeverOlderCredentials == Spec => []NoOlderCredentials
<1>1. IInv => NoOlderCredentials
  BY DEF IInv, OrderInv
<1>2. QED
  BY Invariance, <1>1, PTL

\* Safety revocations reach the core (question.md:93) unless their user was left
\* stranded: a user without an uncompleted row who is served has access, for any
\* failures of installations and completions.  RevocationReachesCore, without
\* the exception, does not hold.
THEOREM RevocationsReachCore ==
    Spec => [](\A u \in User : Queued(u) \/ u \in stranded \/ core[u] = Absent \/ Entitled(u))
<1>1. StaleIsQueued => \A u \in User : Queued(u) \/ u \in stranded \/ core[u] = Absent \/ Entitled(u)
  BY DEF StaleIsQueued, Repaired, Agrees, NoUsers
<1>2. QED
  BY StaleAlwaysQueued, <1>1, PTL

\* A queued row is completed only by a deployment that read the database after
\* it was queued: the worker of CoreSync implements the promise of the outbox.
THEOREM OutboxAlwaysPromised == Spec => KeepsOutboxPromise
<1>1. Init => Outbox!Init
  BY DEF Init, Outbox!Init, Stage
<1>2. ASSUME IInv, [Next]_vars
      PROVE  [Outbox!Next]_(Outbox!vars)
  <2>1. TypeOK /\ Deploying
    BY <1>2 DEF IInv, SyncInv
  <2>2. CASE DbTransaction
    <3>1. PICK needed, rows \in SUBSET Row : Enqueue(needed, rows)
      BY <2>2, <1>2, TransactionAnnounces DEF IInv, Announces, EnqueuesSome
    <3>2. Outbox!Queue(rows)
      BY <3>1 DEF Enqueue, workerVars, Outbox!Queue, Stage
    <3> QED
      BY <3>1, <3>2 DEF Outbox!Next
  <2>3. CASE ClaimAndWait \/ ClaimAndDeploy
    <3>1. Due \in SUBSET (outbox \ held)
      BY <2>1 DEF Due, TypeOK
    <3>2. Outbox!Claim(Due)
      BY <2>3 DEF ClaimAndWait, ClaimAndDeploy, Outbox!Claim, Stage
    <3> QED
      BY <3>1, <3>2 DEF Outbox!Next
  <2>4. CASE LoadSettings \/ ListActive
    BY <2>4 DEF LoadSettings, ListActive, Outbox!vars, Stage
  <2>5. CASE ClaimReplyLost \/ CoreRestarts \/ (\E row \in Row : LeaseExpires(row)) \/ UNCHANGED vars
    BY <2>5 DEF ClaimReplyLost, CoreRestarts, LeaseExpires, vars, workerVars, Outbox!vars, Stage
  <2>6. CASE NotConfigured \/ BuildFails \/ InstallFails \/ Restart
    <3>1. Outbox!Abandon
      BY <2>6 DEF NotConfigured, BuildFails, InstallFails, Restart, LetGo, Outbox!Abandon, Stage
    <3> QED
      BY <3>1 DEF Outbox!Next
  <2>7. CASE InstallSucceeds
    <3>1. Outbox!Deploy
      BY <2>7 DEF InstallSucceeds, Outbox!Deploy, Stage
    <3> QED
      BY <3>1 DEF Outbox!Next
  <2>8. CASE CompleteSucceeds \/ CompleteFails
    <3>1. CASE CloseHeldRows
      <4>1. Outbox!Close
        BY <2>8, <3>1 DEF CloseHeldRows, CompleteSucceeds, CompleteFails, Outbox!Close, Stage
      <4> QED
        BY <4>1 DEF Outbox!Next
    <3>2. CASE UNCHANGED <<outbox, held, phase>>
      BY <3>2 DEF Outbox!vars, Stage
    <3> QED
      BY <2>8, <3>1, <3>2 DEF CompleteSucceeds, CompleteFails
  <2>9. CASE OpenStep
    BY <2>1, <2>9, OpenStepType DEF workerVars, Outbox!vars, Stage
  <2> QED
    BY <1>2, <2>2, <2>3, <2>4, <2>5, <2>6, <2>7, <2>8, <2>9
       DEF Next, DbTransaction, OpenStep, WorkerProgress, WorkerFault
<1> QED
  BY Invariance, <1>1, <1>2, PTL DEF Spec, KeepsOutboxPromise, Outbox!Spec
=============================================================================
