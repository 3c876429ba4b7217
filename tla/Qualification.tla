---------------------------- MODULE Qualification ----------------------------
(***************************************************************************)
(* Who may have access: the Telegram bot and the qualification recheck.    *)
(*                                                                         *)
(* Two threads evaluate the membership of users and write what they found. *)
(* The bot (telegram.Runner) handles the updates one by one: membership    *)
(* events, /vpn and the buttons of an approval request.  The rechecker     *)
(* (qualification.RecheckScheduler) goes through all known users again and *)
(* again.  An evaluation reads the rules once and asks Telegram for one    *)
(* chat after the other; the result is written by a transaction later.     *)
(***************************************************************************)
EXTENDS Integers, Sequences, FiniteSets

CONSTANTS User, Chat,
          Administrator, \* the Telegram ids that are made an administrator
          MaxEvents, \* bound: users joining or leaving a chat, messages and buttons sent
                     \* to the bot, changes of the rules and of the administrators
          MaxFaults  \* bound: failed calls and restarts

ASSUME BoundsAssumption == {MaxEvents, MaxFaults} \subseteq Nat

VARIABLES
    member,      \* the chats a user is in, as Telegram knows it
    rules,       \* chats of the enabled qualification rules
    mode,        \* qualification_settings.mode
    administrators, \* administrators with active = TRUE; both roles may manage approvals
    access,      \* vpn_users.status, "unknown" without a row
    eligible,    \* vpn_users.eligible
    asked,       \* whose approval request was sent to which administrator
    queue,       \* Telegram's updates that no offset has confirmed
    batch,       \* how many of them the last response had
    done,        \* how many of them the offset is past
    job,         \* the evaluation a thread is at
    sched,       \* what RecheckScheduler.Run is doing
    left,        \* users the cycle has yet to check
    wakePending, \* RecheckScheduler.wakePending
    untriggered, \* changes of the rules committed but not triggered yet
    events,      \* events so far
    faults,      \* faults so far
    changed,     \* history: a change since the last cycle started was a success
    loyal,       \* history: users who have been in every chat all the time
    revoked      \* history: users whose access has ever been revoked

telegram == <<member, queue>>
settingsVars == <<rules, mode, administrators, changed>>
accountVars == <<access, eligible, revoked>>
botVars == <<batch, done, asked>>
cycleVars == <<sched, left, wakePending, untriggered>>
bounds == <<events, faults>>
vars == <<telegram, settingsVars, accountVars, botVars, job, cycleVars, bounds, loyal>>

Thread == {"bot", "rechecker"}
Result == {"member", "not_member", "indeterminate"}

Update ==
    [kind : {"membership"}, user : User, chat : Chat, result : Result]
      \union [kind : {"vpn"}, user : User]
      \union [kind : {"approve", "reject"}, user : User, by : Administrator]

Idle == [stage |-> "idle"]
Job == {Idle}
         \union [stage : {"lookup"}, user : User, mode : {"any", "all"},
                 todo : SUBSET Chat, results : SUBSET Result]
         \union [stage : {"claim"}, user : User]

TypeOK ==
    /\ member \in [User -> SUBSET Chat]
    /\ rules \in SUBSET Chat
    /\ mode \in {"any", "all"}
    /\ access \in [User -> {"unknown", "unclaimed", "active", "pending", "rejected"}]
    /\ eligible \in [User -> BOOLEAN]
    /\ administrators \subseteq Administrator
    /\ asked \subseteq User \X Administrator
    /\ \A i \in 1 .. Len(queue) : queue[i] \in Update
    /\ 0 <= done /\ done <= batch /\ batch <= Len(queue)
    /\ job \in [Thread -> Job]
    /\ job["bot"] # Idle => done < batch
    /\ sched \in {"start", "cycle", "waiting", "woken"}
    /\ left \subseteq User
    /\ {wakePending, changed} \subseteq BOOLEAN
    /\ untriggered \in 0 .. MaxEvents
    /\ events \in 0 .. MaxEvents /\ faults \in 0 .. MaxFaults
    /\ {loyal, revoked} \subseteq SUBSET User

\* The rules, applied to what Telegram knows.
Qualifies(u) ==
    IF mode = "any" THEN member[u] \intersect rules # {} ELSE rules \subseteq member[u]

\* The process starts with whatever earlier ones left in the database.
Init ==
    /\ member \in [User -> SUBSET Chat]
    /\ rules = Chat
    /\ mode \in {"any", "all"}
    /\ access \in [User -> {"unknown", "active", "pending"}]
    /\ eligible \in [User -> BOOLEAN]
    /\ \A u \in User : (access[u] = "active" => eligible[u]) /\ (access[u] = "unknown" => ~eligible[u])
    /\ administrators = Administrator
    /\ asked = {u \in User : access[u] = "pending"} \X Administrator
    /\ queue = <<>> /\ batch = 0 /\ done = 0
    /\ job = [t \in Thread |-> Idle]
    /\ sched = "start"
    /\ left = {}
    /\ wakePending = FALSE
    /\ untriggered = 0
    /\ events = 0 /\ faults = 0
    /\ changed = FALSE
    /\ loyal = {u \in User : member[u] = Chat}
    /\ revoked = {}
-----------------------------------------------------------------------------
(***************************************************************************)
(* Telegram, the users and the administrators.                             *)
(***************************************************************************)
Event == events < MaxEvents /\ events' = events + 1 /\ UNCHANGED faults
Fault == faults < MaxFaults /\ faults' = faults + 1 /\ UNCHANGED events

Membership(u, c) == IF c \in member[u] THEN "member" ELSE "not_member"

\* A user joins or leaves a chat, and the bot is to be told.
Move(u, c) ==
    /\ Event
    /\ member' = [member EXCEPT ![u] = IF c \in @ THEN @ \ {c} ELSE @ \union {c}]
    /\ queue' = Append(queue, [kind |-> "membership", user |-> u, chat |-> c,
                               result |-> IF c \in member[u] THEN "not_member" ELSE "member"])
    /\ loyal' = loyal \ {u}
    /\ UNCHANGED <<settingsVars, accountVars, botVars, job, cycleVars>>

Send(update) ==
    /\ Event
    /\ queue' = Append(queue, update)
    /\ UNCHANGED <<member, settingsVars, accountVars, botVars, job, cycleVars, loyal>>

AskForAccess(u) == Send([kind |-> "vpn", user |-> u])

\* The buttons stay in the chat of every administrator who was asked.
Press(kind, u, a) ==
    /\ <<u, a>> \in asked
    /\ Send([kind |-> kind, user |-> u, by |-> a])

\* An owner appoints or removes an administrator.
SetRole(a) ==
    /\ Event
    /\ administrators' = IF a \in administrators THEN administrators \ {a}
                                                 ELSE administrators \union {a}
    /\ UNCHANGED <<telegram, rules, mode, changed, accountVars, botVars, job, cycleVars, loyal>>

\* The transaction that enables or disables a rule, or sets the mode.
SaveRules ==
    /\ \/ /\ \E c \in Chat : rules' = IF c \in rules THEN rules \ {c} ELSE rules \union {c}
          /\ UNCHANGED mode
       \/ mode' \in {"any", "all"} \ {mode} /\ UNCHANGED rules
    /\ UNCHANGED <<telegram, administrators, accountVars, botVars, job, sched, left, wakePending, loyal>>

\* With its success the change is to be triggered ...
ChangeRules ==
    /\ Event
    /\ SaveRules
    /\ changed' = TRUE
    /\ untriggered' = untriggered + 1

\* ... but the reply to Commit may be lost: the caller returns the error first.
ChangeReplyLost ==
    /\ events < MaxEvents /\ events' = events + 1
    /\ faults < MaxFaults /\ faults' = faults + 1
    /\ SaveRules
    /\ UNCHANGED <<changed, untriggered>>

\* Seeded error: only a waiting scheduler is woken.
TriggerIfWaiting ==
    /\ untriggered > 0
    /\ untriggered' = untriggered - 1
    /\ sched' = IF sched = "waiting" THEN "woken" ELSE sched
    /\ UNCHANGED <<telegram, settingsVars, accountVars, botVars, job, left, wakePending, bounds, loyal>>

\* RecheckScheduler.Trigger: wakeCancel is set from before the wait until after it.
Trigger ==
    /\ untriggered > 0
    /\ untriggered' = untriggered - 1
    /\ sched' = IF sched = "waiting" THEN "woken" ELSE sched
    /\ wakePending' = (wakePending \/ sched \notin {"waiting", "woken"})
    /\ UNCHANGED <<telegram, settingsVars, accountVars, botVars, job, left, bounds, loyal>>
-----------------------------------------------------------------------------
(***************************************************************************)
(* The transactions on vpn_users.                                          *)
(***************************************************************************)

\* ApplyQualification: SetEligibility, for a user with or without a row.
SetEligibility(u, value) ==
    /\ eligible' = [eligible EXCEPT ![u] = value]
    /\ access' = [access EXCEPT ![u] = CASE @ = "unknown" -> "unclaimed"
                                         [] @ = "active" /\ ~value -> "pending"
                                         [] OTHER -> @]
    /\ revoked' = IF access[u] = "active" /\ ~value THEN revoked \union {u} ELSE revoked

Issue(u) ==
    /\ access' = [access EXCEPT ![u] = "active"]
    /\ UNCHANGED <<eligible, revoked>>

MayBeApproved(u) == eligible[u] /\ access[u] \in {"pending", "rejected"}

\* An administrator approves in the web pages.
ApproveOnWeb(u) ==
    /\ MayBeApproved(u)
    /\ Issue(u)
    /\ UNCHANGED <<telegram, settingsVars, botVars, job, cycleVars, bounds, loyal>>
-----------------------------------------------------------------------------
(***************************************************************************)
(* Runner.Run.                                                             *)
(***************************************************************************)

\* Seeded error: the offset of the last batch is used with the next one.
PollKeepsOffset ==
    /\ job["bot"] = Idle
    /\ done = batch
    /\ queue' = SubSeq(queue, done + 1, Len(queue))
    /\ batch' = Len(queue')
    /\ UNCHANGED <<done, member, settingsVars, accountVars, asked, job, cycleVars, bounds, loyal>>

\* GetUpdates confirms everything before the offset and returns the rest.
Poll ==
    /\ job["bot"] = Idle
    /\ done = batch
    /\ queue' = SubSeq(queue, done + 1, Len(queue))
    /\ batch' = Len(queue')
    /\ done' = 0
    /\ UNCHANGED <<member, settingsVars, accountVars, asked, job, cycleVars, bounds, loyal>>

\* The update is handled: the offset moves on.
Handled == done' = done + 1 /\ UNCHANGED batch

\* A handler reported an error: continue poll, with the offset as it is.
Retried == batch' = done /\ UNCHANGED done

Current == queue[done + 1]
Takes(kinds) ==
    /\ job["bot"] = Idle
    /\ done < batch
    /\ Current.kind \in kinds

\* Checker: the rules are read once per evaluation.
Evaluation(u, todo, results) ==
    [stage |-> "lookup", user |-> u, mode |-> mode, todo |-> todo, results |-> results]

\* Seeded error: an event of a chat without a rule is an error.
RetryEvent ==
    /\ Takes({"membership"})
    /\ Current.chat \notin rules
    /\ Retried
    /\ UNCHANGED <<telegram, settingsVars, accountVars, asked, job, cycleVars, bounds, loyal>>

IgnoreEvent ==
    /\ Takes({"membership"})
    /\ Current.chat \notin rules
    /\ Handled
    /\ UNCHANGED <<telegram, settingsVars, accountVars, asked, job, cycleVars, bounds, loyal>>

\* EvaluateEvent: the event itself answers for its chat.
TakeEvent ==
    /\ Takes({"membership"})
    /\ Current.chat \in rules
    /\ job' = [job EXCEPT !["bot"] =
                 Evaluation(Current.user, rules \ {Current.chat}, {Current.result})]
    /\ UNCHANGED <<telegram, settingsVars, accountVars, botVars, cycleVars, bounds, loyal>>

\* GetOrClaim; without any rule it fails, and the bot replies so.
TakeCommand ==
    /\ Takes({"vpn"})
    /\ IF rules = {}
         THEN Handled /\ UNCHANGED job
         ELSE /\ job' = [job EXCEPT !["bot"] = Evaluation(Current.user, rules, {})]
              /\ UNCHANGED <<batch, done>>
    /\ UNCHANGED <<telegram, settingsVars, accountVars, asked, cycleVars, bounds, loyal>>

\* The transaction of a press, when the account allows it.
Decide(update) ==
    \/ /\ update.kind = "approve"
       /\ MayBeApproved(update.user)
       /\ Issue(update.user)
    \/ /\ update.kind = "reject"
       /\ access[update.user] = "pending"
       /\ access' = [access EXCEPT ![update.user] = "rejected"]
       /\ UNCHANGED <<eligible, revoked>>

\* HandleCallback; the reply to its commit may be lost.
TakePress ==
    /\ Takes({"approve", "reject"})
    /\ Current.by \in administrators
    /\ Decide(Current)
    /\ \/ Handled /\ UNCHANGED bounds
       \/ Fault /\ Retried
    /\ UNCHANGED <<telegram, settingsVars, asked, job, cycleVars, loyal>>

\* A press of someone who is no administrator any more, or that the account does
\* not allow, is an error of HandleCallback.  (The data of the bot's own buttons
\* always parses.)
Refused(update) ==
    \/ update.by \notin administrators
    \/ update.kind = "approve" /\ ~MayBeApproved(update.user)
    \/ update.kind = "reject" /\ access[update.user] # "pending"

RefusePress ==
    /\ Takes({"approve", "reject"})
    /\ \/ Refused(Current) /\ UNCHANGED bounds
       \/ Fault
    /\ Retried
    /\ UNCHANGED <<telegram, settingsVars, accountVars, asked, job, cycleVars, loyal>>
-----------------------------------------------------------------------------
(***************************************************************************)
(* Checker, and what its callers do with the result.                       *)
(***************************************************************************)
Evaluates(t) == job[t].stage = "lookup"

Answered(t, c, result) ==
    job' = [job EXCEPT ![t].todo = @ \ {c}, ![t].results = @ \union {result}]

Lookup(t, c) ==
    /\ Evaluates(t)
    /\ c \in job[t].todo
    /\ Answered(t, c, Membership(job[t].user, c))
    /\ UNCHANGED <<telegram, settingsVars, accountVars, botVars, cycleVars, bounds, loyal>>

\* A temporary error that outlasts the attempts of RetryingMemberLookup.
LookupTimesOut(t, c) ==
    /\ Evaluates(t)
    /\ c \in job[t].todo
    /\ Fault
    /\ Answered(t, c, "indeterminate")
    /\ UNCHANGED <<telegram, settingsVars, accountVars, botVars, cycleVars, loyal>>

\* What follows an evaluation: a membership event and a command are handled,
\* the rechecker goes on with the next user.
Finish(t) ==
    /\ job' = [job EXCEPT ![t] = Idle]
    /\ IF t = "bot" THEN Handled ELSE UNCHANGED <<batch, done>>
    /\ UNCHANGED left

\* What follows an error: the event is retried, the command is answered, the
\* cycle of the rechecker ends.
Fail(t) ==
    /\ job' = [job EXCEPT ![t] = Idle]
    /\ IF t = "rechecker" THEN left' = {} /\ UNCHANGED <<batch, done>>
       ELSE /\ IF Current.kind = "membership" THEN Retried ELSE Handled
            /\ UNCHANGED left

LookupFails(t) ==
    /\ Evaluates(t)
    /\ job[t].todo # {}
    /\ Fault
    /\ Fail(t)
    /\ UNCHANGED <<telegram, settingsVars, accountVars, asked, sched, wakePending,
                   untriggered, loyal>>

\* Seeded error: what cannot be determined counts as not being a member.
DecisionWithoutDoubt(m, results) ==
    IF IF m = "any" THEN "member" \in results ELSE results = {"member"}
      THEN "eligible" ELSE "ineligible"

\* domain.EvaluateQualification
Decision(m, results) ==
    LET decisive == IF m = "any" THEN "member" ELSE "not_member"
    IN  IF decisive \in results THEN IF m = "any" THEN "eligible" ELSE "ineligible"
        ELSE IF "indeterminate" \in results THEN "indeterminate"
        ELSE IF m = "any" THEN "ineligible" ELSE "eligible"

Decides(t, decisions) ==
    /\ Evaluates(t)
    /\ job[t].todo = {}
    /\ Decision(job[t].mode, job[t].results) \in decisions

\* Nothing is written when the result is open.
LeaveOpen(t) ==
    /\ Decides(t, {"indeterminate"})
    /\ Finish(t)
    /\ UNCHANGED <<telegram, settingsVars, accountVars, asked, sched, wakePending,
                   untriggered, bounds, loyal>>

\* ApplyQualification commits; /vpn goes on to claim for an eligible user.
Apply(t) ==
    /\ Decides(t, {"eligible", "ineligible"})
    /\ LET value == Decision(job[t].mode, job[t].results) = "eligible"
       IN  /\ SetEligibility(job[t].user, value)
           /\ IF t = "bot" /\ Current.kind = "vpn" /\ value
                THEN /\ job' = [job EXCEPT ![t] = [stage |-> "claim", user |-> job[t].user]]
                     /\ UNCHANGED <<batch, done, left>>
                ELSE Finish(t)
    /\ UNCHANGED <<telegram, settingsVars, asked, sched, wakePending, untriggered, bounds, loyal>>

\* It reports an error, with or without having committed.
ApplyFails(t) ==
    /\ Decides(t, {"eligible", "ineligible"})
    /\ Fault
    /\ \/ SetEligibility(job[t].user, Decision(job[t].mode, job[t].results) = "eligible")
       \/ UNCHANGED accountVars
    /\ Fail(t)
    /\ UNCHANGED <<telegram, settingsVars, asked, sched, wakePending, untriggered, loyal>>

\* ProvisioningStore.Claim; a user who needs an approval has the
\* administrators asked for it, those whom the message reaches.
Claim ==
    /\ job["bot"].stage = "claim"
    /\ LET u == job["bot"].user
       IN  \/ eligible[u] /\ access[u] = "unclaimed" /\ Issue(u) /\ UNCHANGED asked
           \/ /\ ~(eligible[u] /\ access[u] = "unclaimed")
              /\ \/ MayBeApproved(u) /\ \E reached \in SUBSET administrators :
                                            asked' = asked \union {u} \X reached
                 \/ ~MayBeApproved(u) /\ UNCHANGED asked
              /\ UNCHANGED accountVars
    /\ Finish("bot")
    /\ UNCHANGED <<telegram, settingsVars, sched, wakePending, untriggered, bounds, loyal>>

\* It reports an error, with or without having committed; the bot replies so.
ClaimFails ==
    /\ job["bot"].stage = "claim"
    /\ Fault
    /\ LET u == job["bot"].user
       IN  \/ eligible[u] /\ access[u] = "unclaimed" /\ Issue(u)
           \/ UNCHANGED accountVars
    /\ Finish("bot")
    /\ UNCHANGED <<telegram, settingsVars, asked, sched, wakePending, untriggered, loyal>>
-----------------------------------------------------------------------------
(***************************************************************************)
(* RecheckScheduler.Run and Rechecker.RunOnce.                             *)
(***************************************************************************)
Known == {u \in User : access[u] # "unknown"}

\* Seeded error: the cycle goes through the users with access only.
StartCycleOfActive ==
    /\ sched = "start"
    /\ sched' = "cycle"
    /\ left' = {u \in User : access[u] = "active"}
    /\ changed' = FALSE
    /\ UNCHANGED <<telegram, rules, mode, administrators, accountVars, botVars, job, wakePending,
                   untriggered, bounds, loyal>>

\* One page of known users.
StartCycle ==
    /\ sched = "start"
    /\ sched' = "cycle"
    /\ left' = Known
    /\ changed' = FALSE
    /\ UNCHANGED <<telegram, rules, mode, administrators, accountVars, botVars, job, wakePending,
                   untriggered, bounds, loyal>>

\* The settings or the page cannot be read, or there is no rule.
CycleFails ==
    /\ sched = "cycle"
    /\ job["rechecker"] = Idle
    /\ left # {}
    /\ \/ rules = {} /\ UNCHANGED bounds
       \/ Fault
    /\ left' = {}
    /\ UNCHANGED <<telegram, settingsVars, accountVars, botVars, job, sched, wakePending,
                   untriggered, loyal>>

Recheck(u) ==
    /\ sched = "cycle"
    /\ job["rechecker"] = Idle
    /\ u \in left
    /\ rules # {}
    /\ left' = left \ {u}
    /\ job' = [job EXCEPT !["rechecker"] = Evaluation(u, rules, {})]
    /\ UNCHANGED <<telegram, settingsVars, accountVars, botVars, sched, wakePending, untriggered,
                   bounds, loyal>>

\* wakePending and wakeCancel are decided on under one lock.
EndCycle ==
    /\ sched = "cycle"
    /\ job["rechecker"] = Idle
    /\ left = {}
    /\ sched' = IF wakePending THEN "start" ELSE "waiting"
    /\ wakePending' = FALSE
    /\ UNCHANGED <<telegram, settingsVars, accountVars, botVars, job, left, untriggered, bounds, loyal>>

\* The interval is over.
TimerFires ==
    /\ sched = "waiting"
    /\ sched' = "woken"
    /\ UNCHANGED <<telegram, settingsVars, accountVars, botVars, job, left, wakePending,
                   untriggered, bounds, loyal>>

Wake ==
    /\ sched = "woken"
    /\ sched' = "start"
    /\ UNCHANGED <<telegram, settingsVars, accountVars, botVars, job, left, wakePending,
                   untriggered, bounds, loyal>>

\* The process restarts; the new one starts from offset 0.
Restart ==
    /\ Fault
    /\ batch' = 0 /\ done' = 0
    /\ job' = [t \in Thread |-> Idle]
    /\ sched' = "start"
    /\ left' = {}
    /\ wakePending' = FALSE
    /\ untriggered' = 0
    /\ UNCHANGED <<telegram, settingsVars, accountVars, asked, loyal>>
-----------------------------------------------------------------------------
BotStep ==
    \/ Poll \/ IgnoreEvent \/ TakeEvent \/ TakeCommand \/ TakePress \/ RefusePress
    \/ Claim \/ ClaimFails
SchedulerStep ==
    \/ StartCycle \/ CycleFails \/ (\E u \in User : Recheck(u)) \/ EndCycle \/ TimerFires \/ Wake
CheckerStep(t) ==
    \/ \E c \in Chat : Lookup(t, c) \/ LookupTimesOut(t, c)
    \/ LookupFails(t) \/ LeaveOpen(t) \/ Apply(t) \/ ApplyFails(t)

Next ==
    \/ \E u \in User, c \in Chat : Move(u, c)
    \/ \E u \in User : AskForAccess(u) \/ ApproveOnWeb(u)
    \/ \E u \in User, a \in Administrator, kind \in {"approve", "reject"} : Press(kind, u, a)
    \/ \E a \in Administrator : SetRole(a)
    \/ ChangeRules \/ ChangeReplyLost \/ Trigger
    \/ BotStep
    \/ SchedulerStep
    \/ \E t \in Thread : CheckerStep(t)
    \/ Restart

Spec == Init /\ [][Next]_vars

\* Both threads keep running, calls return, and the timer of the scheduler
\* fires; nothing is assumed of users, administrators and faults.
FairSpec ==
    /\ Spec
    /\ WF_vars(BotStep \/ CheckerStep("bot"))
    /\ WF_vars(SchedulerStep \/ CheckerStep("rechecker"))
    /\ WF_vars(Trigger)
-----------------------------------------------------------------------------
(***************************************************************************)
(* Properties.                                                             *)
(***************************************************************************)

\* Failed calls, restarts, replayed updates and changes of the rules never
\* take the access of a user who never left a chat (question.md:22).
LoyalIsNeverRevoked == loyal \intersect revoked = {}

\* A change of the rules that was a success is never left to the timer: until a
\* cycle has started after it, the scheduler knows of it (rule_manager.go:96).
\* One that was committed but reported as an error is left to the timer.
ChangeIsRechecked ==
    (changed /\ untriggered = 0) => wakePending \/ sched \in {"woken", "start"}

\* Whatever the two threads wrote over each other, once users, rules and
\* faults rest every known user is what the rules say and stays it.
EligibilityConverges ==
    <>[](rules # {} => \A u \in Known : eligible[u] = Qualifies(u))

\* An update may wait for the one before it, but only a button that the account
\* does not allow, or whose administrator was removed, is waited for without end
\* (runner.go:92).
OnlyPressesBlock ==
    <>[](done < Len(queue) => Current.kind \in {"approve", "reject"} /\ Refused(Current))

\* Membership events are the immediate path for users who leave
\* (question.md:19): whatever was sent to the bot before, each is handled.
EveryEventIsHandled ==
    <>[](\A i \in done + 1 .. Len(queue) : queue[i].kind # "membership")
=============================================================================
