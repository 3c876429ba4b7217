--------------------------- MODULE LoginRateLimit ---------------------------
(***************************************************************************)
(* How often login codes may be guessed: httpapi.LoginRateLimiter, three   *)
(* sliding windows over the attempts of an account, of a source address    *)
(* and of everybody.  An attempt is pending between Begin and Complete,    *)
(* while the code is checked; many are pending at once.  A success clears  *)
(* its account and its address, but not what others still have pending.    *)
(***************************************************************************)
EXTENDS Naturals, Sequences, FiniteSets

CONSTANTS Account, Address,
          AccountAttempts, AddressAttempts, GlobalAttempts, \* LoginRateLimits
          AccountWindow, AddressWindow, GlobalWindow,       \* in ticks
          MaxAttempts, \* bound: attempts let in
          MaxClock     \* bound: ticks

ASSUME LimitsAssumption ==
    {AccountAttempts, AddressAttempts, GlobalAttempts, AccountWindow, AddressWindow, GlobalWindow}
        \subseteq Nat \ {0}
ASSUME LimiterBounds == {MaxAttempts, MaxClock} \subseteq Nat

VARIABLES
    clock,     \* limiter.now()
    attempts,  \* every attempt let in so far; its index is its id
    byAccount, \* the ids limiter.byAccount holds: arrival is in order of id
    byAddress, \* limiter.byIP
    global     \* limiter.global

limiterVars == <<clock, attempts, byAccount, byAddress, global>>

Attempt == [account : Account, address : Address, at : 0 .. MaxClock,
            state : {"pending", "failed", "succeeded"}, ended : 0 .. MaxAttempts]

LimiterTypeOK ==
    /\ clock \in 0 .. MaxClock
    /\ attempts \in Seq(Attempt)
    /\ Len(attempts) <= MaxAttempts
    /\ byAccount \in [Account -> SUBSET (1 .. Len(attempts))]
    /\ byAddress \in [Address -> SUBSET (1 .. Len(attempts))]
    /\ global \in SUBSET (1 .. Len(attempts))

LimiterInit ==
    /\ clock = 0
    /\ attempts = <<>>
    /\ byAccount = [a \in Account |-> {}]
    /\ byAddress = [i \in Address |-> {}]
    /\ global = {}
----------------------------------------------------------------------------
Recent(at, window, now) == at + window > now

\* pruneEvents and pruneTimes drop from the front, up to the first recent one.
Pruned(ids, window, now) ==
    {i \in ids : \E j \in ids : j <= i /\ Recent(attempts[j].at, window, now)}

\* Begin reads the clock before it takes the mutex: another goroutine may come
\* first, or the clock move on, so `at` may be the tick before.
Begin(account, address, at) ==
    LET accounts == [a \in Account |-> Pruned(byAccount[a], AccountWindow, at)]
        addresses == [i \in Address |-> Pruned(byAddress[i], AddressWindow, at)]
        everybody == Pruned(global, GlobalWindow, at)
        id == Len(attempts) + 1
        allowed == /\ Cardinality(everybody) < GlobalAttempts
                   /\ Cardinality(addresses[address]) < AddressAttempts
                   /\ Cardinality(accounts[account]) < AccountAttempts
    IN /\ id <= MaxAttempts
       /\ IF allowed
             THEN /\ attempts' = Append(attempts, [account |-> account, address |-> address,
                                     at |-> at, state |-> "pending", ended |-> 0])
                  /\ byAccount' = [accounts EXCEPT ![account] = @ \union {id}]
                  /\ byAddress' = [addresses EXCEPT ![address] = @ \union {id}]
                  /\ global' = everybody \union {id}
             ELSE /\ byAccount' = accounts
                  /\ byAddress' = addresses
                  /\ global' = everybody
                  /\ UNCHANGED attempts
       /\ UNCHANGED clock

Completions == Cardinality({i \in DOMAIN attempts : attempts[i].state # "pending"})

Ended(id, state) == [attempts EXCEPT ![id].state = state, ![id].ended = Completions + 1]

\* retainPendingExcept
StillPending(ids, id) == {i \in ids \ {id} : attempts[i].state = "pending"}

Fail(id) ==
    /\ attempts[id].state = "pending"
    /\ attempts' = Ended(id, "failed")
    /\ UNCHANGED <<clock, byAccount, byAddress, global>>

\* Seeded error: a success forgets the attempts that are still pending, too.
SucceedAndForget(id) ==
    /\ attempts[id].state = "pending"
    /\ attempts' = Ended(id, "succeeded")
    /\ byAccount' = [byAccount EXCEPT ![attempts[id].account] = {}]
    /\ byAddress' = [byAddress EXCEPT ![attempts[id].address] = {}]
    /\ UNCHANGED <<clock, global>>

Succeed(id) ==
    /\ attempts[id].state = "pending"
    /\ attempts' = Ended(id, "succeeded")
    /\ byAccount' = [byAccount EXCEPT ![attempts[id].account] = StillPending(@, id)]
    /\ byAddress' = [byAddress EXCEPT ![attempts[id].address] = StillPending(@, id)]
    /\ UNCHANGED <<clock, global>>

LimiterTick ==
    /\ clock < MaxClock
    /\ clock' = clock + 1
    /\ UNCHANGED <<attempts, byAccount, byAddress, global>>

LimiterNext ==
    \/ \E account \in Account, address \in Address, at \in 0 .. clock :
          at + 1 >= clock /\ Begin(account, address, at)
    \/ \E id \in DOMAIN attempts : Fail(id) \/ Succeed(id)
    \/ LimiterTick

LimiterSpec == LimiterInit /\ [][LimiterNext]_limiterVars
----------------------------------------------------------------------------
\* The attempts of `all` that count against a limit: begun within the window
\* and pending, or failed after the last success among them.
Guesses(all, window) ==
    {i \in all :
        /\ Recent(attempts[i].at, window, clock)
        /\ \/ attempts[i].state = "pending"
           \/ /\ attempts[i].state = "failed"
              /\ \A j \in all : attempts[j].state = "succeeded" => attempts[j].ended < attempts[i].ended}

\* However attempts overlap, no account and no address gets more guesses in a
\* window than its limit since its last success, and everybody together no
\* more than the global limit, which no success resets.  An attempt that began
\* before somebody's success and fails after it still counts.
GuessesAreLimited ==
    /\ \A a \in Account :
        Cardinality(Guesses({i \in DOMAIN attempts : attempts[i].account = a}, AccountWindow))
            <= AccountAttempts
    /\ \A p \in Address :
        Cardinality(Guesses({i \in DOMAIN attempts : attempts[i].address = p}, AddressWindow))
            <= AddressAttempts
    /\ Cardinality({i \in DOMAIN attempts : Recent(attempts[i].at, GlobalWindow, clock)})
            <= GlobalAttempts
=============================================================================
