---------------------------- MODULE OutboxPromise ----------------------------
(***************************************************************************)
(* What the worker promises the transactions that queue rows in            *)
(* core_action_outbox.                                                     *)
(*                                                                         *)
(* A row leaves the outbox only after a deployment that began when the     *)
(* worker already held the row: the deployment has read the database after *)
(* the row was queued.  A deployment that fails gives its rows back, no    *)
(* row is added while one is under way, and the rows of one that succeeded *)
(* are not deployed again before they are completed.  CoreSync and         *)
(* CoreWorker, which see the worker from two sides, both implement this.   *)
(***************************************************************************)
CONSTANT Row \* the rows <<user, action>>

VARIABLES outbox, \* the uncompleted rows
          held,   \* those the worker will complete
          stage   \* of the worker: collecting rows, deploying, or deployed

vars == <<outbox, held, stage>>

Init == outbox = {} /\ held = {} /\ stage = "collecting"

\* A transaction queues rows; those that are there already stay as they are.
Queue(rows) ==
    /\ outbox' = outbox \union rows
    /\ UNCHANGED <<held, stage>>

\* ClaimDue returns rows, and Step waits for more or begins to deploy.
Claim(rows) ==
    /\ stage = "collecting"
    /\ held' = held \union rows
    /\ \/ stage' = "collecting"
       \/ held' # {} /\ stage' = "deploying"
    /\ UNCHANGED outbox

\* Install returns nil.
Deploy ==
    /\ stage = "deploying"
    /\ stage' = "deployed"
    /\ UNCHANGED <<outbox, held>>

\* The deployment fails, or the process stops at any point.
Abandon ==
    /\ held' = {}
    /\ stage' = "collecting"
    /\ UNCHANGED outbox

\* Complete commits; when its reply is lost the worker will ask again.
Close ==
    /\ stage = "deployed"
    /\ outbox' = outbox \ held
    /\ held' = {}
    /\ stage' \in {"deployed", "collecting"}

Next ==
    \/ \E rows \in SUBSET Row : Queue(rows)
    \/ \E rows \in SUBSET (outbox \ held) : Claim(rows)
    \/ Deploy \/ Abandon \/ Close

Spec == Init /\ [][Next]_vars
=============================================================================
