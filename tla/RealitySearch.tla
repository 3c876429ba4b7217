--------------------------- MODULE RealitySearch ----------------------------
(***************************************************************************)
(* The search for REALITY targets the owner starts from the web panel:     *)
(* Service.Start runs at most one in the background, Search hands the      *)
(* sampled domains to a few workers over an unbuffered channel, and reads  *)
(* what they confirmed only after all of them have left.  The budget may   *)
(* run out at any moment.                                                  *)
(***************************************************************************)
EXTENDS Integers, FiniteSets

CONSTANTS Worker,      \* Options.Concurrency goroutines
          SampleLimit  \* Options.SampleLimit

ASSUME WorkerAssumption == IsFiniteSet(Worker) /\ Worker # {}
ASSUME SampleLimitAssumption == SampleLimit \in Nat \ {0}

VARIABLES
    status,  \* Service.status
    targets, \* how many targets the service shows
    feeder,  \* the goroutine of Search: handing out, or waiting to return
    sampled, \* len(sampled)
    handed,  \* domains handed out so far
    worker,  \* the state of each worker
    results, \* targets in the results channel
    spent    \* searchContext is done

searchVars == <<status, targets, feeder, sampled, handed, worker, results, spent>>

SearchTypeOK ==
    /\ status \in {"idle", "running", "completed", "failed"}
    /\ targets \in 0 .. SampleLimit
    /\ feeder \in {"none", "hand out", "give up", "finish"}
    /\ sampled \in 0 .. SampleLimit
    /\ handed \in 0 .. sampled
    /\ worker \in [Worker -> {"none", "ready", "probing", "sending"}]
    /\ results \in 0 .. handed
    /\ spent \in BOOLEAN

SearchInit ==
    /\ status = "idle"
    /\ targets = 0
    /\ feeder = "none"
    /\ sampled = 0
    /\ handed = 0
    /\ worker = [w \in Worker |-> "none"]
    /\ results = 0
    /\ spent = FALSE
----------------------------------------------------------------------------
\* Start, and Search up to its goroutines; ErrSearchRunning otherwise.
StartSearch(n) ==
    /\ status # "running"
    /\ status' = "running"
    /\ targets' = 0
    /\ feeder' = "hand out"
    /\ sampled' = n
    /\ handed' = 0
    /\ worker' = [w \in Worker |-> "ready"]
    /\ results' = 0
    /\ spent' = FALSE

\* The dataset cannot be read.
StartFails ==
    /\ status # "running"
    /\ status' = "failed"
    /\ targets' = 0
    /\ UNCHANGED <<feeder, sampled, handed, worker, results, spent>>

HandOut(w) ==
    /\ feeder = "hand out"
    /\ handed < sampled
    /\ worker[w] = "ready"
    /\ handed' = handed + 1
    /\ worker' = [worker EXCEPT ![w] = "probing"]
    /\ UNCHANGED <<status, targets, feeder, sampled, results, spent>>

BudgetEnds ==
    /\ status = "running"
    /\ ~spent
    /\ spent' = TRUE
    /\ UNCHANGED <<status, targets, feeder, sampled, handed, worker, results>>

\* close(work): the budget ended first, or every domain is handed out.
CloseWork ==
    /\ feeder = "hand out"
    /\ \/ handed < sampled /\ spent /\ feeder' = "give up"
       \/ handed = sampled /\ feeder' = "finish"
    /\ UNCHANGED <<status, targets, sampled, handed, worker, results, spent>>

\* Probe returns within the timeouts of its dial and its handshake.
ProbeEnds(w, confirmed) ==
    /\ worker[w] = "probing"
    /\ worker' = [worker EXCEPT ![w] = IF confirmed THEN "sending" ELSE "ready"]
    /\ UNCHANGED <<status, targets, feeder, sampled, handed, results, spent>>

\* Seeded error: a channel of one place, as if it were read all the time.
OneAtATime == results = 0

\* A send to the results channel does not block while there is room.
Room == results < sampled

Send(w) ==
    /\ worker[w] = "sending"
    /\ Room
    /\ results' = results + 1
    /\ worker' = [worker EXCEPT ![w] = "ready"]
    /\ UNCHANGED <<status, targets, feeder, sampled, handed, spent>>

\* The range over the closed work channel ends.
Leave(w) ==
    /\ worker[w] = "ready"
    /\ feeder \in {"give up", "finish"}
    /\ worker' = [worker EXCEPT ![w] = "none"]
    /\ UNCHANGED <<status, targets, feeder, sampled, handed, results, spent>>

\* workers.Wait() returns and run publishes.  A search that gave up loses what
\* was confirmed: selectConfirmed collects it, run drops it for the error.
Publish ==
    /\ feeder \in {"give up", "finish"}
    /\ \A w \in Worker : worker[w] = "none"
    /\ status' = IF feeder = "finish" THEN "completed" ELSE "failed"
    /\ targets' = IF feeder = "finish" THEN results ELSE 0
    /\ feeder' = "none"
    /\ results' = 0
    /\ UNCHANGED <<sampled, handed, worker, spent>>

\* A new process knows of no search.
SearchRestart ==
    /\ status' = "idle"
    /\ targets' = 0
    /\ feeder' = "none"
    /\ worker' = [w \in Worker |-> "none"]
    /\ results' = 0
    /\ UNCHANGED <<sampled, handed, spent>>

SearchNext ==
    \/ \E n \in 0 .. SampleLimit : StartSearch(n)
    \/ StartFails
    \/ BudgetEnds
    \/ CloseWork
    \/ \E w \in Worker :
        \/ HandOut(w) \/ Send(w) \/ Leave(w)
        \/ \E confirmed \in BOOLEAN : ProbeEnds(w, confirmed)
    \/ Publish
    \/ SearchRestart

\* Goroutines that can go on do so; nothing is assumed of the budget.
SearchFairness ==
    /\ WF_searchVars(CloseWork)
    /\ WF_searchVars(Publish)
    /\ \A w \in Worker :
        /\ WF_searchVars(HandOut(w))
        /\ WF_searchVars(\E confirmed \in BOOLEAN : ProbeEnds(w, confirmed))
        /\ WF_searchVars(Send(w))
        /\ WF_searchVars(Leave(w))

SearchSpec == SearchInit /\ [][SearchNext]_searchVars /\ SearchFairness
----------------------------------------------------------------------------
\* Every search ends, so that the owner can start another one: no worker waits
\* for ever to deliver a result nobody reads yet, nor the feeder for a worker,
\* whether the budget ends before, between or after the last domains, or never.
SearchEnds == (status = "running") ~> (status # "running")

\* While a search runs, one of its goroutines can always go on, whatever the
\* budget does: the results nobody reads before all workers have left fit in
\* their channel (searcher.go:127), and the feeder waits for a worker that is
\* on its way back.
SearchNeverStuck ==
    status = "running" =>
        \/ feeder = "hand out" /\ handed = sampled
        \/ \E w \in Worker :
            \/ worker[w] = "ready" /\ (feeder = "hand out" => handed < sampled)
            \/ worker[w] = "probing"
            \/ worker[w] = "sending" /\ Room
        \/ feeder \in {"give up", "finish"} /\ \A w \in Worker : worker[w] = "none"

\* Each of their steps leaves less to do, down to the one that publishes.
Workers(states) == {w \in Worker : worker[w] \in states}
WorkersLeft ==
    Cardinality(Workers({"probing"}))
    + Cardinality(Workers({"probing", "sending"}))
    + Cardinality(Workers({"probing", "sending", "ready"}))
FeederLeft == (IF feeder = "hand out" THEN 1 ELSE 0) + (IF spent THEN 0 ELSE 1)
WorkLeft == 3 * (sampled - handed) + WorkersLeft + FeederLeft

SearchAdvances ==
    [][status = "running" /\ status' = "running" => WorkLeft' < WorkLeft]_searchVars
=============================================================================
