------------------------ MODULE QualificationProofs ------------------------
(***************************************************************************)
(* Proofs about Qualification for any users, chats and bounds.  The        *)
(* invariant comes in parts, one for each group of variables that the bot, *)
(* the rechecker and the transactions write.                               *)
(***************************************************************************)
EXTENDS Qualification, SequenceTheorems, TLAPS

LookupJob == [stage : {"lookup"}, user : User, mode : {"any", "all"},
              todo : SUBSET Chat, results : SUBSET Result]

TelegramTypes ==
    /\ member \in [User -> SUBSET Chat]
    /\ queue \in Seq(Update)
    /\ loyal \subseteq User /\ asked \subseteq User \X Administrator

RulesTypes == rules \in SUBSET Chat /\ mode \in {"any", "all"} /\ administrators \subseteq Administrator

AccountTypes ==
    /\ access \in [User -> {"unknown", "unclaimed", "active", "pending", "rejected"}]
    /\ eligible \in [User -> BOOLEAN]
    /\ revoked \subseteq User

OffsetTypes ==
    /\ done \in Nat /\ batch \in Nat
    /\ done <= batch /\ batch <= Len(queue)
    /\ job["bot"] # Idle => done < batch

JobTypes == job \in [Thread -> Job]

CycleTypes ==
    /\ sched \in {"start", "cycle", "waiting", "woken"}
    /\ left \subseteq User
    /\ wakePending \in BOOLEAN /\ changed \in BOOLEAN

\* Every change that is not triggered yet was an event.
CountTypes ==
    /\ untriggered \in Nat /\ untriggered <= events
    /\ events \in 0 .. MaxEvents /\ faults \in 0 .. MaxFaults

TypeInv ==
    TelegramTypes /\ RulesTypes /\ AccountTypes /\ OffsetTypes /\ JobTypes /\ CycleTypes /\ CountTypes
-----------------------------------------------------------------------------
LEMMA Bounds == MaxEvents \in Nat /\ MaxFaults \in Nat
  BY BoundsAssumption

LEMMA CurrentUpdate ==
    ASSUME TelegramTypes, OffsetTypes, done < batch
    PROVE  /\ done + 1 \in 1 .. Len(queue)
           /\ Current \in Update /\ Current.user \in User
           /\ Current.kind = "membership" => Current.chat \in Chat /\ Current.result \in Result
<1>1. Len(queue) \in Nat /\ done + 1 \in 1 .. Len(queue)
  BY DEF TelegramTypes, OffsetTypes
<1>2. queue[done + 1] \in Update
  BY <1>1 DEF TelegramTypes
<1> QED
  BY <1>1, <1>2 DEF Current, Update

LEMMA Evaluating ==
    ASSUME JobTypes, NEW t \in Thread, Evaluates(t)
    PROVE  /\ job[t] \in LookupJob /\ job[t] # Idle
           /\ job[t].user \in User /\ job[t].todo \in SUBSET Chat /\ job[t].results \in SUBSET Result
           /\ job[t].mode \in {"any", "all"}
<1>1. job[t] \in Job /\ job[t].stage = "lookup"
  BY DEF JobTypes, Evaluates
<1>2. job[t] \in LookupJob
  BY <1>1 DEF Job, Idle, LookupJob
<1> QED
  BY <1>1, <1>2 DEF LookupJob, Idle

LEMMA NewEvaluation ==
    ASSUME RulesTypes, NEW u \in User, NEW todo \in SUBSET Chat, NEW results \in SUBSET Result
    PROVE  LET e == Evaluation(u, todo, results) IN
           /\ e \in Job /\ e # Idle /\ e.stage = "lookup"
           /\ e.user = u /\ e.todo = todo /\ e.results = results
  BY DEF RulesTypes, Evaluation, Job, Idle

\* What a thread is at becomes e, and the other one goes on.
LEMMA JobSet ==
    ASSUME JobTypes, NEW t \in Thread, NEW e \in Job, job' = [job EXCEPT ![t] = e]
    PROVE  JobTypes' /\ job'[t] = e /\ \A s \in Thread \ {t} : job'[s] = job[s]
  BY DEF JobTypes

LEMMA AnswerKeeps ==
    ASSUME JobTypes, NEW t \in Thread, Evaluates(t), NEW c, c \in job[t].todo, NEW result \in Result,
           Answered(t, c, result)
    PROVE  /\ JobTypes'
           /\ job'[t].stage = "lookup" /\ job'[t] # Idle /\ job'[t].user = job[t].user
           /\ job'[t].todo = job[t].todo \ {c}
           /\ job'[t].results = job[t].results \union {result}
           /\ \A s \in Thread \ {t} : job'[s] = job[s]
<1> DEFINE e == [job[t] EXCEPT !.todo = @ \ {c}, !.results = @ \union {result}]
<1>1. job[t] \in LookupJob
  BY Evaluating
<1>2. job' = [job EXCEPT ![t] = e]
  BY <1>1 DEF Answered, JobTypes, LookupJob
<1>3. /\ e \in LookupJob
      /\ e.stage = "lookup" /\ e.user = job[t].user
      /\ e.todo = job[t].todo \ {c} /\ e.results = job[t].results \union {result}
  BY <1>1 DEF LookupJob
<1>4. e \in Job /\ e # Idle
  BY <1>3 DEF Job, LookupJob, Idle
<1> HIDE DEF e
<1> QED
  BY <1>2, <1>3, <1>4, JobSet

LEMMA IdleIsJob == Idle \in Job /\ Idle.stage = "idle"
  BY DEF Job, Idle

LEMMA Threads == "bot" \in Thread /\ "rechecker" \in Thread /\ "bot" # "rechecker"
  BY DEF Thread

LEMMA Memberships == \A u, c : Membership(u, c) \in Result
  BY DEF Membership, Result
-----------------------------------------------------------------------------
(* The initial states.                                                      *)
LEMMA TypeInit == Init => TypeInv
<1> SUFFICES ASSUME Init
             PROVE  TypeInv
  OBVIOUS
<1>1. TelegramTypes
  BY DEF Init, TelegramTypes
<1>2. RulesTypes
  BY DEF Init, RulesTypes
<1>3. AccountTypes
  BY DEF Init, AccountTypes
<1>4. JobTypes /\ job["bot"] = Idle
  BY IdleIsJob, Threads DEF Init, JobTypes
<1>5. OffsetTypes
  BY <1>4 DEF Init, OffsetTypes
<1>6. CycleTypes
  BY DEF Init, CycleTypes
<1>7. CountTypes
  BY Bounds DEF Init, CountTypes
<1> QED
  BY <1>1, <1>2, <1>3, <1>4, <1>5, <1>6, <1>7 DEF TypeInv
-----------------------------------------------------------------------------
(* The actions, in the groups that touch the same parts.                    *)
Quiet ==   \* neither the bot, nor the checker, nor what Telegram holds
    \/ ChangeRules \/ ChangeReplyLost \/ Trigger
    \/ StartCycle \/ CycleFails \/ EndCycle \/ TimerFires \/ Wake
    \/ \E u \in User : ApproveOnWeb(u)
    \/ \E a \in Administrator : SetRole(a)

Taking == \/ Poll \/ IgnoreEvent \/ TakeEvent \/ TakeCommand \/ TakePress \/ RefusePress

Claiming == Claim \/ ClaimFails

Ending(t) == LookupFails(t) \/ LeaveOpen(t) \/ Apply(t) \/ ApplyFails(t)

LEMMA Steps ==
    ASSUME [Next]_vars, NEW P,
           \A u \in User, c \in Chat : Move(u, c) => P,
           \A u \in User : AskForAccess(u) => P,
           \A u \in User, a \in Administrator, kind \in {"approve", "reject"} : Press(kind, u, a) => P,
           Quiet => P,
           Taking => P,
           Claiming => P,
           \A u \in User : Recheck(u) => P,
           \A t \in Thread, c \in Chat : Lookup(t, c) \/ LookupTimesOut(t, c) => P,
           \A t \in Thread : Ending(t) => P,
           Restart => P,
           UNCHANGED vars => P
    PROVE  P
  BY DEF Next, BotStep, SchedulerStep, CheckerStep, Quiet, Taking, Claiming, Ending
-----------------------------------------------------------------------------
LEMMA SendKeeps ==
    ASSUME TelegramTypes, NEW update \in Update, queue' = Append(queue, update)
    PROVE  /\ queue' \in Seq(Update) /\ Len(queue') = Len(queue) + 1
           /\ \A i \in 1 .. Len(queue) : queue'[i] = queue[i]
           /\ queue'[Len(queue')] = update
  BY AppendProperties DEF TelegramTypes

LEMMA PollKeeps ==
    ASSUME TelegramTypes, OffsetTypes, Poll
    PROVE  /\ queue' \in Seq(Update)
           /\ \A i \in 1 .. Len(queue') : i + done \in 1 .. Len(queue) /\ queue'[i] = queue[i + done]
<1>1. Len(queue) \in Nat /\ done \in Nat /\ done <= Len(queue)
  BY DEF TelegramTypes, OffsetTypes
<1>2. \A i \in done + 1 .. Len(queue) : queue[i] \in Update
  BY <1>1 DEF TelegramTypes
<1>3. queue' = SubSeq(queue, done + 1, Len(queue))
  BY DEF Poll
<1>4. /\ queue' \in Seq(Update)
      /\ Len(queue') = IF done + 1 <= Len(queue) THEN Len(queue) - (done + 1) + 1 ELSE 0
      /\ \A i \in 1 .. Len(queue) - (done + 1) + 1 : queue'[i] = queue[done + 1 + i - 1]
  BY <1>1, <1>2, <1>3, SubSeqProperties
<1>5. Len(queue') = Len(queue) - done
  BY <1>1, <1>4
<1> QED
  BY <1>1, <1>4, <1>5

LEMMA Updates ==
    /\ \A u \in User, c \in Chat, r \in Result :
          [kind |-> "membership", user |-> u, chat |-> c, result |-> r] \in Update
    /\ \A u \in User : [kind |-> "vpn", user |-> u] \in Update
    /\ \A u \in User, a \in Administrator, kind \in {"approve", "reject"} :
          [kind |-> kind, user |-> u, by |-> a] \in Update
  BY DEF Update

LEMMA TelegramStep == TypeInv /\ [Next]_vars => TelegramTypes'
<1> SUFFICES ASSUME TypeInv, [Next]_vars
             PROVE  TelegramTypes'
  OBVIOUS
<1> USE DEF TypeInv
<1>1. ASSUME NEW u \in User, NEW c \in Chat, Move(u, c)
      PROVE  TelegramTypes'
  <2> DEFINE update == [kind |-> "membership", user |-> u, chat |-> c,
                        result |-> IF c \in member[u] THEN "not_member" ELSE "member"]
  <2>1. update \in Update
    BY Updates DEF Result
  <2>2. queue' = Append(queue, update)
    BY <1>1 DEF Move
  <2>3. queue' \in Seq(Update)
    <3> HIDE DEF update
    <3> QED
      BY <2>1, <2>2, SendKeeps
  <2>4. member' \in [User -> SUBSET Chat]
    BY <1>1 DEF Move, TelegramTypes
  <2> QED
    BY <1>1, <2>3, <2>4 DEF Move, TelegramTypes, botVars
<1>2. ASSUME NEW update \in Update, Send(update)
      PROVE  TelegramTypes'
  BY <1>2, SendKeeps DEF Send, TelegramTypes, botVars
<1>3. ASSUME NEW u \in User, AskForAccess(u)
      PROVE  TelegramTypes'
  BY <1>2, <1>3, Updates DEF AskForAccess
<1>4. ASSUME NEW u \in User, NEW a \in Administrator, NEW kind \in {"approve", "reject"},
             Press(kind, u, a)
      PROVE  TelegramTypes'
  BY <1>2, <1>4, Updates DEF Press
<1>5. CASE Poll
  BY <1>5, PollKeeps DEF Poll, TelegramTypes
<1>6. CASE Claiming
  <2>1. job["bot"].user \in User
    <3>1. job["bot"] \in Job /\ job["bot"].stage = "claim"
      BY <1>6, Threads DEF Claiming, Claim, ClaimFails, JobTypes
    <3> QED
      BY <3>1 DEF Job, Idle
  <2>2. asked' \subseteq User \X Administrator
    <3> DEFINE u == job["bot"].user
    <3>1. \/ UNCHANGED asked
          \/ \E reached \in SUBSET administrators : asked' = asked \union {u} \X reached
      BY <1>6 DEF Claiming, Claim, ClaimFails
    <3>2. asked \subseteq User \X Administrator /\ administrators \subseteq Administrator
      BY DEF TelegramTypes, RulesTypes
    <3> HIDE DEF u
    <3>3. u \in User
      BY <2>1 DEF u
    <3> QED
      BY <3>1, <3>2, <3>3
  <2> QED
    BY <1>6, <2>2 DEF Claiming, Claim, ClaimFails, TelegramTypes, telegram
<1>7. ASSUME UNCHANGED <<telegram, asked, loyal>>
      PROVE  TelegramTypes'
  BY <1>7 DEF telegram, TelegramTypes
<1>8. ASSUME Quiet
      PROVE  TelegramTypes'
  BY <1>7, <1>8 DEF Quiet, ChangeRules, ChangeReplyLost, SaveRules, SetRole, Trigger, StartCycle, CycleFails, EndCycle, TimerFires, Wake,
                    ApproveOnWeb, botVars
<1>9. ASSUME Taking, ~Poll
      PROVE  TelegramTypes'
  BY <1>7, <1>9 DEF Taking, IgnoreEvent, TakeEvent, TakeCommand, TakePress, RefusePress, botVars
<1>10. ASSUME NEW t \in Thread, NEW c \in Chat, Lookup(t, c) \/ LookupTimesOut(t, c)
       PROVE  TelegramTypes'
  BY <1>7, <1>10 DEF Lookup, LookupTimesOut, botVars
<1>11. ASSUME NEW t \in Thread, Ending(t)
       PROVE  TelegramTypes'
  BY <1>7, <1>11 DEF Ending, LookupFails, LeaveOpen, Apply, ApplyFails
<1>12. ASSUME NEW u \in User, Recheck(u)
       PROVE  TelegramTypes'
  BY <1>7, <1>12 DEF Recheck, botVars
<1>13. ASSUME Restart
       PROVE  TelegramTypes'
  BY <1>7, <1>13 DEF Restart
<1>14. ASSUME UNCHANGED vars
       PROVE  TelegramTypes'
  BY <1>7, <1>14 DEF vars, botVars
<1> QED
  BY <1>1, <1>3, <1>4, <1>5, <1>6, <1>8, <1>9, <1>10, <1>11, <1>12, <1>13, <1>14, Steps

LEMMA RulesStep == TypeInv /\ [Next]_vars => RulesTypes'
<1> SUFFICES ASSUME TypeInv, [Next]_vars
             PROVE  RulesTypes'
  OBVIOUS
<1>1. ASSUME SaveRules
      PROVE  RulesTypes'
  BY <1>1 DEF SaveRules, RulesTypes, TypeInv
<1>2. ASSUME UNCHANGED <<rules, mode, administrators>>
      PROVE  RulesTypes'
  BY <1>2 DEF RulesTypes, TypeInv
<1> USE DEF settingsVars
<1>11. ASSUME NEW a \in Administrator, SetRole(a)
       PROVE  RulesTypes'
  BY <1>11 DEF SetRole, RulesTypes, TypeInv
<1>3. ASSUME Quiet
      PROVE  RulesTypes'
  BY <1>1, <1>2, <1>3, <1>11 DEF Quiet, ChangeRules, ChangeReplyLost, Trigger, StartCycle, CycleFails, EndCycle, TimerFires, Wake, ApproveOnWeb
<1>4. ASSUME Taking \/ Claiming \/ Restart
      PROVE  RulesTypes'
  BY <1>2, <1>4 DEF Taking, Poll, IgnoreEvent, TakeEvent, TakeCommand, TakePress, RefusePress,
                    Claiming, Claim, ClaimFails, Restart
<1>5. ASSUME NEW t \in Thread, NEW c \in Chat, Lookup(t, c) \/ LookupTimesOut(t, c)
      PROVE  RulesTypes'
  BY <1>2, <1>5 DEF Lookup, LookupTimesOut
<1>6. ASSUME NEW t \in Thread, Ending(t)
      PROVE  RulesTypes'
  BY <1>2, <1>6 DEF Ending, LookupFails, LeaveOpen, Apply, ApplyFails
<1>7. ASSUME NEW u \in User, NEW c \in Chat, Move(u, c) \/ AskForAccess(u) \/ Recheck(u)
      PROVE  RulesTypes'
  BY <1>2, <1>7 DEF Move, AskForAccess, Send, Recheck
<1>8. ASSUME NEW u \in User, AskForAccess(u) \/ Recheck(u)
      PROVE  RulesTypes'
  BY <1>2, <1>8 DEF AskForAccess, Send, Recheck
<1>9. ASSUME NEW u \in User, NEW a \in Administrator, NEW kind \in {"approve", "reject"},
             Press(kind, u, a)
      PROVE  RulesTypes'
  BY <1>2, <1>9 DEF Press, Send
<1>10. ASSUME UNCHANGED vars
       PROVE  RulesTypes'
  BY <1>2, <1>10 DEF vars
<1> QED
  BY <1>1, <1>3, <1>4, <1>5, <1>6, <1>7, <1>8, <1>9, <1>10, Steps
-----------------------------------------------------------------------------
LEMMA SetEligibilityKeeps ==
    ASSUME AccountTypes, NEW u \in User, NEW value \in BOOLEAN, SetEligibility(u, value)
    PROVE  AccountTypes' /\ (value => revoked' = revoked) /\ revoked' \subseteq revoked \union {u}
<1>1. eligible' \in [User -> BOOLEAN]
  BY DEF SetEligibility, AccountTypes
<1>2. access' \in [User -> {"unknown", "unclaimed", "active", "pending", "rejected"}]
  BY DEF SetEligibility, AccountTypes
<1>3. revoked' \subseteq User /\ (value => revoked' = revoked) /\ revoked' \subseteq revoked \union {u}
  BY DEF SetEligibility, AccountTypes
<1> QED
  BY <1>1, <1>2, <1>3 DEF AccountTypes

LEMMA IssueKeeps ==
    ASSUME AccountTypes, NEW u, Issue(u)
    PROVE  AccountTypes' /\ revoked' = revoked
  BY DEF Issue, AccountTypes

\* Who is revoked, and on what ground.
LEMMA AccountStep ==
    ASSUME TypeInv, [Next]_vars
    PROVE  /\ AccountTypes'
           /\ \/ revoked' = revoked
              \/ \E t \in Thread :
                    /\ Decides(t, {"ineligible"})
                    /\ revoked' \subseteq revoked \union {job[t].user}
<1> DEFINE Ground == \/ revoked' = revoked
                     \/ \E t \in Thread :
                           /\ Decides(t, {"ineligible"})
                           /\ revoked' \subseteq revoked \union {job[t].user}
           Goal == AccountTypes' /\ Ground
<1> SUFFICES Goal
  OBVIOUS
<1> USE DEF TypeInv
<1>1. ASSUME UNCHANGED accountVars
      PROVE  Goal
  BY <1>1 DEF accountVars, AccountTypes
<1>2. ASSUME NEW u, Issue(u)
      PROVE  Goal
  BY <1>2, IssueKeeps
<1>3. ASSUME NEW t \in Thread, Decides(t, {"eligible", "ineligible"}),
             SetEligibility(job[t].user, Decision(job[t].mode, job[t].results) = "eligible")
      PROVE  Goal
  <2> DEFINE value == Decision(job[t].mode, job[t].results) = "eligible"
  <2>1. job[t].user \in User
    BY <1>3, Evaluating DEF Decides
  <2>2. value \in BOOLEAN
    OBVIOUS
  <2>3. value \/ Decides(t, {"ineligible"})
    BY <1>3 DEF Decides
  <2>4. SetEligibility(job[t].user, value)
    BY <1>3
  <2> HIDE DEF value
  <2>5. AccountTypes' /\ (value => revoked' = revoked) /\ revoked' \subseteq revoked \union {job[t].user}
    BY <2>1, <2>2, <2>4, SetEligibilityKeeps
  <2> QED
    BY <2>3, <2>5
<1> HIDE DEF Goal
<1>4. ASSUME Quiet
      PROVE  Goal
  BY <1>1, <1>2, <1>4 DEF Quiet, ChangeRules, ChangeReplyLost, SaveRules, SetRole, Trigger, StartCycle, CycleFails, EndCycle, TimerFires, Wake,
                          ApproveOnWeb
<1>5. ASSUME Taking, ~TakePress
      PROVE  Goal
  BY <1>1, <1>5 DEF Taking, Poll, IgnoreEvent, TakeEvent, TakeCommand, RefusePress
<1>6. CASE TakePress
  <2>1. CASE Issue(Current.user)
    BY <1>2, <2>1
  <2>2. CASE access' = [access EXCEPT ![Current.user] = "rejected"] /\ UNCHANGED <<eligible, revoked>>
    BY <2>2 DEF AccountTypes, Goal
  <2> QED
    BY <1>6, <2>1, <2>2 DEF TakePress, Decide
<1>7. CASE Claiming
  BY <1>1, <1>2, <1>7 DEF Claiming, Claim, ClaimFails
<1>8. ASSUME NEW t \in Thread, NEW c \in Chat, Lookup(t, c) \/ LookupTimesOut(t, c)
      PROVE  Goal
  BY <1>1, <1>8 DEF Lookup, LookupTimesOut
<1>9. ASSUME NEW t \in Thread, Ending(t)
      PROVE  Goal
  <2>1. CASE LookupFails(t) \/ LeaveOpen(t)
    BY <1>1, <2>1 DEF LookupFails, LeaveOpen
  <2>2. CASE Apply(t)
    BY <1>3, <2>2 DEF Apply
  <2>3. CASE ApplyFails(t)
    BY <1>1, <1>3, <2>3 DEF ApplyFails
  <2> QED
    BY <1>9, <2>1, <2>2, <2>3 DEF Ending
<1>10. ASSUME NEW u \in User, AskForAccess(u) \/ Recheck(u)
       PROVE  Goal
  BY <1>1, <1>10 DEF AskForAccess, Send, Recheck
<1>11. ASSUME NEW u \in User, NEW c \in Chat, Move(u, c)
       PROVE  Goal
  BY <1>1, <1>11 DEF Move
<1>12. ASSUME NEW u \in User, NEW a \in Administrator, NEW kind \in {"approve", "reject"},
             Press(kind, u, a)
       PROVE  Goal
  BY <1>1, <1>12 DEF Press, Send
<1>13. ASSUME Restart \/ UNCHANGED vars
       PROVE  Goal
  BY <1>1, <1>13 DEF Restart, vars
<1> QED
  BY <1>4, <1>5, <1>6, <1>7, <1>8, <1>9, <1>10, <1>11, <1>12, <1>13, Steps
-----------------------------------------------------------------------------
LEMMA CycleStep == TypeInv /\ [Next]_vars => CycleTypes'
<1> SUFFICES ASSUME TypeInv, [Next]_vars
             PROVE  CycleTypes'
  OBVIOUS
<1> USE DEF TypeInv, CycleTypes
<1>1. ASSUME UNCHANGED <<sched, left, wakePending, changed>>
      PROVE  CycleTypes'
  BY <1>1
<1>2. ASSUME UNCHANGED <<sched, wakePending, changed>>, left' = left \/ left' = {}
      PROVE  CycleTypes'
  BY <1>2
<1>3. ASSUME Quiet
      PROVE  CycleTypes'
  <2>1. CASE ChangeRules \/ ChangeReplyLost
    BY <2>1 DEF ChangeRules, ChangeReplyLost, SaveRules
  <2>2. CASE Trigger
    <3>1. wakePending' \in BOOLEAN
      BY <2>2, Zenon DEF Trigger
    <3> QED
      BY <2>2, <3>1 DEF Trigger, settingsVars
  <2>3. CASE StartCycle
    BY <2>3 DEF StartCycle, Known
  <2>4. CASE EndCycle
    BY <2>4 DEF EndCycle, settingsVars
  <2>5. CASE CycleFails \/ TimerFires \/ Wake
    BY <2>5 DEF CycleFails, TimerFires, Wake, settingsVars
  <2>6. ASSUME NEW u \in User, ApproveOnWeb(u)
        PROVE  CycleTypes'
    BY <1>1, <2>6 DEF ApproveOnWeb, settingsVars, cycleVars
  <2>7. ASSUME NEW a \in Administrator, SetRole(a)
        PROVE  CycleTypes'
    BY <1>1, <2>7 DEF SetRole, cycleVars
  <2> QED
    BY <1>3, <2>1, <2>2, <2>3, <2>4, <2>5, <2>6, <2>7 DEF Quiet
<1>4. ASSUME Taking
      PROVE  CycleTypes'
  BY <1>1, <1>4 DEF Taking, Poll, IgnoreEvent, TakeEvent, TakeCommand, TakePress, RefusePress, settingsVars, cycleVars
<1>5. CASE Claiming
  BY <1>1, <1>5 DEF Claiming, Claim, ClaimFails, Finish, settingsVars
<1>6. ASSUME NEW t \in Thread, NEW c \in Chat, Lookup(t, c) \/ LookupTimesOut(t, c)
      PROVE  CycleTypes'
  BY <1>1, <1>6 DEF Lookup, LookupTimesOut, settingsVars, cycleVars
<1>7. ASSUME NEW t \in Thread, Ending(t)
      PROVE  CycleTypes'
  <2>1. left' = left \/ left' = {}
    BY <1>7 DEF Ending, LookupFails, LeaveOpen, Apply, ApplyFails, Finish, Fail
  <2> QED
    BY <1>2, <1>7, <2>1 DEF Ending, LookupFails, LeaveOpen, Apply, ApplyFails, settingsVars
<1>8. ASSUME NEW u \in User, AskForAccess(u) \/ Recheck(u)
      PROVE  CycleTypes'
  BY <1>8 DEF AskForAccess, Send, Recheck, settingsVars, cycleVars
<1>9. ASSUME NEW u \in User, NEW c \in Chat, Move(u, c)
      PROVE  CycleTypes'
  BY <1>1, <1>9 DEF Move, settingsVars, cycleVars
<1>10. ASSUME NEW u \in User, NEW a \in Administrator, NEW kind \in {"approve", "reject"},
             Press(kind, u, a)
       PROVE  CycleTypes'
  BY <1>1, <1>10 DEF Press, Send, settingsVars, cycleVars
<1>11. CASE Restart
  BY <1>11 DEF Restart, settingsVars
<1>12. CASE UNCHANGED vars
  BY <1>1, <1>12 DEF vars, settingsVars, cycleVars
<1> QED
  BY <1>3, <1>4, <1>5, <1>6, <1>7, <1>8, <1>9, <1>10, <1>11, <1>12, Steps
-----------------------------------------------------------------------------
(* The offset of the bot, and what the threads are at.                      *)
LEMMA OffsetKept ==
    ASSUME TelegramTypes, OffsetTypes, UNCHANGED <<batch, done>>,
           Len(queue') \in Nat, Len(queue) <= Len(queue'),
           job'["bot"] # Idle => job["bot"] # Idle \/ done < batch
    PROVE  OffsetTypes'
<1>1. Len(queue) \in Nat
  BY DEF TelegramTypes
<1> QED
  BY <1>1 DEF OffsetTypes

LEMMA OffsetMoved ==
    ASSUME TelegramTypes, OffsetTypes, done < batch, Handled \/ Retried, UNCHANGED queue,
           job'["bot"] = Idle
    PROVE  OffsetTypes'
<1>1. Len(queue) \in Nat
  BY DEF TelegramTypes
<1> QED
  BY <1>1 DEF OffsetTypes, Handled, Retried

LEMMA EndKeeps ==
    ASSUME TypeInv, NEW t \in Thread, job[t] # Idle, Finish(t) \/ Fail(t), UNCHANGED queue
    PROVE  OffsetTypes' /\ JobTypes'
<1> USE DEF TypeInv
<1>1. JobTypes' /\ job'[t] = Idle /\ \A s \in Thread \ {t} : job'[s] = job[s]
  BY JobSet, IdleIsJob DEF Finish, Fail
<1>2. CASE t = "bot"
  <2>1. done < batch
    BY <1>2 DEF OffsetTypes
  <2>2. Handled \/ Retried
    BY <1>2 DEF Finish, Fail
  <2> QED
    BY <1>1, <1>2, <2>1, <2>2, OffsetMoved
<1>3. CASE t = "rechecker"
  <2>1. UNCHANGED <<batch, done>> /\ job'["bot"] = job["bot"]
    BY <1>1, <1>3, Threads DEF Finish, Fail
  <2>2. Len(queue) \in Nat
    BY DEF TelegramTypes
  <2> QED
    BY <1>1, <2>1, <2>2, OffsetKept
<1> QED
  BY <1>2, <1>3 DEF Thread

LEMMA NextJobKeeps ==
    ASSUME TypeInv, NEW t \in Thread, NEW e \in Job, job' = [job EXCEPT ![t] = e],
           UNCHANGED <<batch, done, queue>>, t = "bot" => done < batch
    PROVE  OffsetTypes' /\ JobTypes'
<1> USE DEF TypeInv
<1>1. JobTypes' /\ job'[t] = e /\ \A s \in Thread \ {t} : job'[s] = job[s]
  BY JobSet
<1>2. Len(queue) \in Nat
  BY DEF TelegramTypes
<1>3. job'["bot"] # Idle => job["bot"] # Idle \/ done < batch
  BY <1>1, Threads
<1> QED
  BY <1>1, <1>2, <1>3, OffsetKept

LEMMA JobStep == TypeInv /\ [Next]_vars => OffsetTypes' /\ JobTypes'
<1> SUFFICES ASSUME TypeInv, [Next]_vars
             PROVE  OffsetTypes' /\ JobTypes'
  OBVIOUS
<1> USE DEF TypeInv
<1>0. Len(queue) \in Nat
  BY DEF TelegramTypes
<1>1. ASSUME UNCHANGED <<job, batch, done, queue>>
      PROVE  OffsetTypes' /\ JobTypes'
  BY <1>0, <1>1, OffsetKept DEF JobTypes
<1>2. ASSUME NEW update \in Update, queue' = Append(queue, update), UNCHANGED <<job, batch, done>>
      PROVE  OffsetTypes' /\ JobTypes'
  <2>1. Len(queue') \in Nat /\ Len(queue) <= Len(queue')
    BY <1>0, <1>2, SendKeeps
  <2> QED
    BY <1>2, <2>1, OffsetKept DEF JobTypes
<1>3. ASSUME NEW u \in User, NEW c \in Chat, Move(u, c)
      PROVE  OffsetTypes' /\ JobTypes'
  <2> DEFINE update == [kind |-> "membership", user |-> u, chat |-> c,
                        result |-> IF c \in member[u] THEN "not_member" ELSE "member"]
  <2>1. update \in Update
    BY Updates DEF Result
  <2>2. queue' = Append(queue, update) /\ UNCHANGED <<job, batch, done>>
    BY <1>3 DEF Move, botVars
  <2> HIDE DEF update
  <2> QED
    BY <1>2, <2>1, <2>2
<1>4. ASSUME NEW u \in User, AskForAccess(u)
      PROVE  OffsetTypes' /\ JobTypes'
  BY <1>2, <1>4, Updates DEF AskForAccess, Send, botVars
<1>5. ASSUME NEW u \in User, NEW a \in Administrator, NEW kind \in {"approve", "reject"},
             Press(kind, u, a)
      PROVE  OffsetTypes' /\ JobTypes'
  BY <1>2, <1>5, Updates DEF Press, Send, botVars
<1>6. ASSUME Quiet
      PROVE  OffsetTypes' /\ JobTypes'
  BY <1>1, <1>6 DEF Quiet, ChangeRules, ChangeReplyLost, SaveRules, SetRole, Trigger, StartCycle, CycleFails, EndCycle, TimerFires, Wake,
                    ApproveOnWeb, telegram, botVars
<1>7. ASSUME Taking
      PROVE  OffsetTypes' /\ JobTypes'
  <2>1. CASE Poll
    <3>1. Len(queue') \in Nat
      BY <2>1, PollKeeps
    <3> QED
      BY <2>1, <3>1 DEF Poll, OffsetTypes, JobTypes
  <2>2. CASE IgnoreEvent \/ TakePress \/ RefusePress
    <3>1. /\ done < batch /\ job' = job /\ job["bot"] = Idle /\ (Handled \/ Retried) /\ UNCHANGED queue
      BY <2>2 DEF IgnoreEvent, TakePress, RefusePress, Takes, telegram
    <3> QED
      BY <3>1, OffsetMoved DEF JobTypes
  <2>3. CASE TakeEvent
    <3>1. /\ done < batch /\ UNCHANGED <<batch, done, queue>>
          /\ job' = [job EXCEPT !["bot"] =
                       Evaluation(Current.user, rules \ {Current.chat}, {Current.result})]
          /\ Current.kind = "membership"
      BY <2>3 DEF TakeEvent, Takes, telegram, botVars
    <3>2. Current.user \in User /\ Current.result \in Result
      BY <3>1, CurrentUpdate
    <3>3. Evaluation(Current.user, rules \ {Current.chat}, {Current.result}) \in Job
      BY <3>2, NewEvaluation DEF RulesTypes
    <3> QED
      BY <3>1, <3>3, Threads, NextJobKeeps
  <2>4. CASE TakeCommand
    <3>1. done < batch /\ job["bot"] = Idle /\ UNCHANGED queue
      BY <2>4 DEF TakeCommand, Takes, telegram
    <3>2. CASE rules = {}
      BY <2>4, <3>1, <3>2, OffsetMoved DEF TakeCommand, JobTypes
    <3>3. CASE rules # {}
      <4>1. Evaluation(Current.user, rules, {}) \in Job
        BY <3>1, CurrentUpdate, NewEvaluation DEF RulesTypes
      <4> QED
        BY <2>4, <3>1, <3>3, <4>1, Threads, NextJobKeeps DEF TakeCommand
    <3> QED
      BY <3>2, <3>3
  <2> QED
    BY <1>7, <2>1, <2>2, <2>3, <2>4 DEF Taking
<1>8. CASE Claiming
  <2>1. job["bot"] # Idle /\ Finish("bot") /\ UNCHANGED queue
    BY <1>8, IdleIsJob DEF Claiming, Claim, ClaimFails, telegram
  <2> QED
    BY <2>1, Threads, EndKeeps
<1>9. ASSUME NEW u \in User, Recheck(u)
      PROVE  OffsetTypes' /\ JobTypes'
  <2>1. Evaluation(u, rules, {}) \in Job
    BY NewEvaluation DEF RulesTypes
  <2> QED
    BY <1>9, <2>1, Threads, NextJobKeeps DEF Recheck, telegram, botVars
<1>10. ASSUME NEW t \in Thread, NEW c \in Chat, Lookup(t, c) \/ LookupTimesOut(t, c)
       PROVE  OffsetTypes' /\ JobTypes'
  <2>1. /\ Evaluates(t) /\ c \in job[t].todo /\ UNCHANGED <<batch, done, queue>>
        /\ \E result \in Result : Answered(t, c, result)
    BY <1>10, Memberships DEF Lookup, LookupTimesOut, telegram, botVars, Result
  <2>2. job[t] # Idle
    BY <2>1, Evaluating
  <2>3. JobTypes' /\ \A s \in Thread \ {t} : job'[s] = job[s]
    BY <2>1, AnswerKeeps
  <2>4. job'["bot"] # Idle => job["bot"] # Idle
    BY <2>2, <2>3, Threads
  <2> QED
    BY <1>0, <2>1, <2>3, <2>4, OffsetKept
<1>11. ASSUME NEW t \in Thread, Ending(t)
       PROVE  OffsetTypes' /\ JobTypes'
  <2>1. Evaluates(t) /\ UNCHANGED queue
    BY <1>11 DEF Ending, LookupFails, LeaveOpen, Apply, ApplyFails, Decides, telegram
  <2>2. job[t] # Idle /\ job[t].user \in User
    BY <2>1, Evaluating
  <2>3. CASE Finish(t) \/ Fail(t)
    BY <2>1, <2>2, <2>3, EndKeeps
  <2>4. CASE /\ t = "bot" /\ UNCHANGED <<batch, done>>
             /\ job' = [job EXCEPT ![t] = [stage |-> "claim", user |-> job[t].user]]
    <3>1. [stage |-> "claim", user |-> job[t].user] \in Job
      BY <2>2 DEF Job
    <3>2. done < batch
      BY <2>2, <2>4 DEF OffsetTypes
    <3> QED
      BY <2>1, <2>4, <3>1, <3>2, NextJobKeeps
  <2> QED
    BY <1>11, <2>3, <2>4 DEF Ending, LookupFails, LeaveOpen, Apply, ApplyFails
<1>12. CASE Restart
  <2>1. JobTypes' /\ job'["bot"] = Idle
    BY <1>12, IdleIsJob, Threads DEF Restart, JobTypes
  <2> QED
    BY <1>0, <1>12, <2>1 DEF Restart, OffsetTypes, telegram
<1>13. CASE UNCHANGED vars
  BY <1>1, <1>13 DEF vars, telegram, botVars
<1> QED
  BY <1>3, <1>4, <1>5, <1>6, <1>7, <1>8, <1>9, <1>10, <1>11, <1>12, <1>13, Steps
-----------------------------------------------------------------------------
LEMMA CountStep == TypeInv /\ [Next]_vars => CountTypes'
<1> SUFFICES ASSUME TypeInv, [Next]_vars
             PROVE  CountTypes'
  OBVIOUS
<1> USE DEF TypeInv
<1>1. ASSUME UNCHANGED untriggered, Event \/ Fault \/ UNCHANGED bounds
      PROVE  CountTypes'
  BY <1>1, Bounds DEF CountTypes, Event, Fault, bounds
<1>2. CASE ChangeRules
  BY <1>2, Bounds DEF ChangeRules, Event, CountTypes
<1>3. CASE Trigger
  <2>1. untriggered > 0 /\ untriggered' = untriggered - 1 /\ UNCHANGED bounds
    BY <1>3 DEF Trigger
  <2> QED
    BY <2>1 DEF CountTypes, bounds
<1>14. CASE ChangeReplyLost
  BY <1>14, Bounds DEF ChangeReplyLost, CountTypes
<1>4. ASSUME Quiet, ~ChangeRules, ~Trigger
      PROVE  CountTypes'
  BY <1>1, <1>4, <1>14 DEF Quiet, SetRole, StartCycle, CycleFails, EndCycle, TimerFires, Wake, ApproveOnWeb, cycleVars
<1>5. ASSUME Taking
      PROVE  CountTypes'
  BY <1>1, <1>5 DEF Taking, Poll, IgnoreEvent, TakeEvent, TakeCommand, TakePress, RefusePress, cycleVars
<1>6. CASE Claiming
  BY <1>1, <1>6 DEF Claiming, Claim, ClaimFails
<1>7. ASSUME NEW t \in Thread, NEW c \in Chat, Lookup(t, c) \/ LookupTimesOut(t, c)
      PROVE  CountTypes'
  BY <1>1, <1>7 DEF Lookup, LookupTimesOut, cycleVars
<1>8. ASSUME NEW t \in Thread, Ending(t)
      PROVE  CountTypes'
  BY <1>1, <1>8 DEF Ending, LookupFails, LeaveOpen, Apply, ApplyFails
<1>9. ASSUME NEW u \in User, AskForAccess(u) \/ Recheck(u)
      PROVE  CountTypes'
  BY <1>1, <1>9 DEF AskForAccess, Send, Recheck, cycleVars
<1>10. ASSUME NEW u \in User, NEW c \in Chat, Move(u, c)
       PROVE  CountTypes'
  BY <1>1, <1>10 DEF Move, cycleVars
<1>11. ASSUME NEW u \in User, NEW a \in Administrator, NEW kind \in {"approve", "reject"},
             Press(kind, u, a)
       PROVE  CountTypes'
  BY <1>1, <1>11 DEF Press, Send, cycleVars
<1>12. CASE Restart
  BY <1>12, Bounds DEF Restart, Fault, CountTypes
<1>13. CASE UNCHANGED vars
  BY <1>1, <1>13 DEF vars, cycleVars
<1> QED
  BY <1>2, <1>3, <1>4, <1>5, <1>6, <1>7, <1>8, <1>9, <1>10, <1>11, <1>12, <1>13, Steps

LEMMA TypeStep == TypeInv /\ [Next]_vars => TypeInv'
  BY TelegramStep, RulesStep, AccountStep, JobStep, CycleStep, CountStep DEF TypeInv

LEMMA TypeImplied == TypeInv => TypeOK
<1> SUFFICES ASSUME TypeInv
             PROVE  TypeOK
  OBVIOUS
<1> USE DEF TypeInv
<1>1. /\ member \in [User -> SUBSET Chat] /\ asked \subseteq User \X Administrator
      /\ \A i \in 1 .. Len(queue) : queue[i] \in Update
  BY DEF TelegramTypes
<1>2. 0 <= done /\ done <= batch /\ batch <= Len(queue) /\ (job["bot"] # Idle => done < batch)
  BY DEF OffsetTypes
<1>3. {wakePending, changed} \subseteq BOOLEAN
  BY DEF CycleTypes
<1>4. untriggered \in 0 .. MaxEvents /\ events \in 0 .. MaxEvents /\ faults \in 0 .. MaxFaults
  BY Bounds DEF CountTypes
<1>5. {loyal, revoked} \subseteq SUBSET User
  BY DEF TelegramTypes, AccountTypes
<1>6. /\ sched \in {"start", "cycle", "waiting", "woken"}
      /\ left \subseteq User
  BY DEF CycleTypes
<1> QED
  BY <1>1, <1>2, <1>3, <1>4, <1>5, <1>6 DEF RulesTypes, AccountTypes, JobTypes, TypeOK

\* Every update in the queue, every evaluation and every row has the form the
\* code gives it, and the offset never passes the batch it belongs to: a
\* thread that evaluates for an update still has this update (runner.go).
THEOREM TypeCorrect == Spec => []TypeOK
<1>1. Spec => []TypeInv
  BY TypeInit, TypeStep, PTL DEF Spec
<1> QED
  BY <1>1, TypeImplied, PTL
-----------------------------------------------------------------------------
(* The scheduler and the changes of the rules.                              *)
LEMMA ChangeStep == TypeInv /\ ChangeIsRechecked /\ [Next]_vars => ChangeIsRechecked'
<1> SUFFICES ASSUME TypeInv, ChangeIsRechecked, [Next]_vars
             PROVE  ChangeIsRechecked'
  OBVIOUS
<1> USE DEF ChangeIsRechecked
<1>1. ASSUME UNCHANGED <<changed, untriggered, wakePending, sched>>
      PROVE  ChangeIsRechecked'
  BY <1>1
<1> USE DEF settingsVars, cycleVars
<1>2. ASSUME Quiet
      PROVE  ChangeIsRechecked'
  <2>1. CASE ChangeRules
    <3>1. untriggered \in Nat /\ untriggered' = untriggered + 1
      BY <2>1 DEF ChangeRules, TypeInv, CountTypes
    <3>2. untriggered' # 0
      BY <3>1
    <3> QED
      BY <3>2
  <2>2. CASE Trigger
    <3>1. sched \in {"start", "cycle", "waiting", "woken"}
      BY DEF TypeInv, CycleTypes
    <3> QED
      BY <2>2, <3>1, Zenon DEF Trigger
  <2>3. CASE StartCycle
    BY <2>3 DEF StartCycle
  <2>4. CASE EndCycle
    BY <2>4 DEF EndCycle
  <2>5. CASE TimerFires \/ Wake
    BY <2>5 DEF TimerFires, Wake
  <2>6. CASE CycleFails
    BY <1>1, <2>6 DEF CycleFails
  <2>7. ASSUME NEW u \in User, ApproveOnWeb(u)
        PROVE  ChangeIsRechecked'
    BY <1>1, <2>7 DEF ApproveOnWeb
  <2>8. CASE ChangeReplyLost
    BY <1>1, <2>8 DEF ChangeReplyLost, SaveRules
  <2>9. ASSUME NEW a \in Administrator, SetRole(a)
        PROVE  ChangeIsRechecked'
    BY <1>1, <2>9 DEF SetRole
  <2> QED
    BY <1>2, <2>1, <2>2, <2>3, <2>4, <2>5, <2>6, <2>7, <2>8, <2>9 DEF Quiet
<1>3. ASSUME Taking
      PROVE  ChangeIsRechecked'
  BY <1>1, <1>3 DEF Taking, Poll, IgnoreEvent, TakeEvent, TakeCommand, TakePress, RefusePress
<1>4. CASE Claiming
  BY <1>1, <1>4 DEF Claiming, Claim, ClaimFails
<1>5. ASSUME NEW t \in Thread, NEW c \in Chat, Lookup(t, c) \/ LookupTimesOut(t, c)
      PROVE  ChangeIsRechecked'
  BY <1>1, <1>5 DEF Lookup, LookupTimesOut
<1>6. ASSUME NEW t \in Thread, Ending(t)
      PROVE  ChangeIsRechecked'
  BY <1>1, <1>6 DEF Ending, LookupFails, LeaveOpen, Apply, ApplyFails
<1>7. ASSUME NEW u \in User, AskForAccess(u) \/ Recheck(u)
      PROVE  ChangeIsRechecked'
  BY <1>1, <1>7 DEF AskForAccess, Send, Recheck
<1>8. ASSUME NEW u \in User, NEW c \in Chat, Move(u, c)
      PROVE  ChangeIsRechecked'
  BY <1>1, <1>8 DEF Move
<1>9. ASSUME NEW u \in User, NEW a \in Administrator, NEW kind \in {"approve", "reject"},
             Press(kind, u, a)
      PROVE  ChangeIsRechecked'
  BY <1>1, <1>9 DEF Press, Send
<1>10. CASE Restart
  BY <1>10 DEF Restart
<1>11. CASE UNCHANGED vars
  BY <1>1, <1>11 DEF vars
<1> QED
  BY <1>2, <1>3, <1>4, <1>5, <1>6, <1>7, <1>8, <1>9, <1>10, <1>11, Steps

\* A trigger that comes while a cycle runs, ends, or is about to wait is
\* never lost, however many changes, lost replies and restarts there are: until
\* a cycle has started after a change that was a success, the scheduler does not
\* go to wait for the timer (RecheckScheduler.Trigger and Run).  A change whose
\* commit lost its reply is not triggered and not covered.
THEOREM ChangeAlwaysRechecked == Spec => []ChangeIsRechecked
<1>1. Init => ChangeIsRechecked
  BY DEF Init, ChangeIsRechecked
<1>2. TypeInv /\ ChangeIsRechecked /\ [Next]_vars => (TypeInv /\ ChangeIsRechecked)'
  BY TypeStep, ChangeStep
<1>3. Spec => [](TypeInv /\ ChangeIsRechecked)
  BY <1>1, <1>2, TypeInit, PTL DEF Spec
<1> QED
  BY <1>3, PTL
-----------------------------------------------------------------------------
(* Users who never left a chat: Telegram answers for them, no event is      *)
(* queued about them, and no evaluation of them has found them missing or   *)
(* is over without an answer.                                               *)
LoyalMembers == \A u \in loyal : member[u] = Chat

LoyalQueue == \A i \in 1 .. Len(queue) : queue[i].kind = "membership" => queue[i].user \notin loyal

LoyalJobs ==
    \A t \in Thread :
        job[t].stage = "lookup" /\ job[t].user \in loyal =>
            "not_member" \notin job[t].results /\ (job[t].todo # {} \/ job[t].results # {})

LoyalInv == LoyalMembers /\ LoyalQueue /\ LoyalJobs

\* A user only ever stops being one of them, by leaving or joining a chat.
LEMMA LoyalShrinks ==
    ASSUME TypeInv, [Next]_vars
    PROVE  \/ UNCHANGED <<member, loyal>>
           \/ \E u \in User, c \in Chat : Move(u, c)
<1> DEFINE P == UNCHANGED <<member, loyal>> \/ \E u \in User, c \in Chat : Move(u, c)
<1> SUFFICES P
  OBVIOUS
<1>1. Quiet => P
  BY DEF Quiet, ChangeRules, ChangeReplyLost, SaveRules, SetRole, Trigger, StartCycle, CycleFails, EndCycle, TimerFires, Wake,
         ApproveOnWeb, telegram
<1>2. Taking => P
  BY DEF Taking, Poll, IgnoreEvent, TakeEvent, TakeCommand, TakePress, RefusePress, telegram
<1>3. Claiming \/ Restart \/ UNCHANGED vars => P
  BY DEF Claiming, Claim, ClaimFails, Restart, vars, telegram
<1>4. \A t \in Thread, c \in Chat : Lookup(t, c) \/ LookupTimesOut(t, c) => P
  BY DEF Lookup, LookupTimesOut, telegram
<1>5. \A t \in Thread : Ending(t) => P
  BY DEF Ending, LookupFails, LeaveOpen, Apply, ApplyFails, telegram
<1>6. /\ \A u \in User : AskForAccess(u) \/ Recheck(u) => P
      /\ \A u \in User, a \in Administrator, kind \in {"approve", "reject"} : Press(kind, u, a) => P
  BY DEF AskForAccess, Press, Send, Recheck, telegram
<1>7. \A u \in User, c \in Chat : Move(u, c) => P
  OBVIOUS
<1> HIDE DEF P
<1> QED
  BY <1>1, <1>2, <1>3, <1>4, <1>5, <1>6, <1>7, Steps

LEMMA LoyalMembersStep ==
    ASSUME TypeInv, LoyalMembers, [Next]_vars
    PROVE  LoyalMembers' /\ loyal' \subseteq loyal
<1>1. CASE UNCHANGED <<member, loyal>>
  BY <1>1 DEF LoyalMembers
<1>2. ASSUME NEW u \in User, NEW c \in Chat, Move(u, c)
      PROVE  LoyalMembers' /\ loyal' \subseteq loyal
  BY <1>2 DEF Move, LoyalMembers, TypeInv, TelegramTypes
<1> QED
  BY <1>1, <1>2, LoyalShrinks

LEMMA LoyalQueueStep ==
    ASSUME TypeInv, LoyalInv, [Next]_vars
    PROVE  LoyalQueue'
<1> USE DEF TypeInv
<1>0. loyal' \subseteq loyal /\ Len(queue) \in Nat
  BY LoyalMembersStep DEF LoyalInv, TelegramTypes
<1>1. ASSUME UNCHANGED queue
      PROVE  LoyalQueue'
  BY <1>0, <1>1 DEF LoyalInv, LoyalQueue
<1>2. ASSUME NEW update \in Update, queue' = Append(queue, update),
             update.kind = "membership" => update.user \notin loyal'
      PROVE  LoyalQueue'
  <2>1. /\ Len(queue') = Len(queue) + 1
        /\ \A i \in 1 .. Len(queue) : queue'[i] = queue[i]
        /\ queue'[Len(queue')] = update
    BY <1>2, SendKeeps
  <2>2. \A i \in 1 .. Len(queue') : i \in 1 .. Len(queue) \/ i = Len(queue')
    BY <1>0, <2>1
  <2> QED
    BY <1>0, <1>2, <2>1, <2>2 DEF LoyalInv, LoyalQueue
<1>3. ASSUME NEW u \in User, NEW c \in Chat, Move(u, c)
      PROVE  LoyalQueue'
  <2> DEFINE update == [kind |-> "membership", user |-> u, chat |-> c,
                        result |-> IF c \in member[u] THEN "not_member" ELSE "member"]
  <2>1. update \in Update /\ update.user = u
    BY Updates DEF Result
  <2>2. queue' = Append(queue, update) /\ u \notin loyal'
    BY <1>3 DEF Move
  <2> HIDE DEF update
  <2> QED
    BY <1>2, <2>1, <2>2
<1>4. ASSUME NEW u \in User, AskForAccess(u)
      PROVE  LoyalQueue'
  <2>1. /\ [kind |-> "vpn", user |-> u] \in Update
        /\ [kind |-> "vpn", user |-> u].kind # "membership"
    BY Updates
  <2> QED
    BY <1>2, <1>4, <2>1 DEF AskForAccess, Send
<1>5. ASSUME NEW u \in User, NEW a \in Administrator, NEW kind \in {"approve", "reject"},
             Press(kind, u, a)
      PROVE  LoyalQueue'
  <2>1. /\ [kind |-> kind, user |-> u, by |-> a] \in Update
        /\ [kind |-> kind, user |-> u, by |-> a].kind # "membership"
    BY Updates
  <2> QED
    BY <1>2, <1>5, <2>1 DEF Press, Send
<1> USE DEF telegram
<1>6. Quiet => LoyalQueue'
  BY <1>1 DEF Quiet, ChangeRules, ChangeReplyLost, SaveRules, SetRole, Trigger, StartCycle, CycleFails, EndCycle, TimerFires, Wake,
              ApproveOnWeb
<1>7. ASSUME Taking
      PROVE  LoyalQueue'
  <2>1. CASE Poll
    BY <1>0, <2>1, PollKeeps DEF LoyalInv, LoyalQueue
  <2> QED
    BY <1>1, <1>7, <2>1 DEF Taking, IgnoreEvent, TakeEvent, TakeCommand, TakePress, RefusePress
<1>8. Claiming \/ Restart \/ UNCHANGED vars => LoyalQueue'
  BY <1>1 DEF Claiming, Claim, ClaimFails, Restart, vars
<1>9. \A t \in Thread, c \in Chat : Lookup(t, c) \/ LookupTimesOut(t, c) => LoyalQueue'
  BY <1>1 DEF Lookup, LookupTimesOut
<1>10. \A t \in Thread : Ending(t) => LoyalQueue'
  BY <1>1 DEF Ending, LookupFails, LeaveOpen, Apply, ApplyFails
<1>11. \A u \in User : Recheck(u) => LoyalQueue'
  BY <1>1 DEF Recheck
<1> QED
  BY <1>3, <1>4, <1>5, <1>6, <1>7, <1>8, <1>9, <1>10, <1>11, Steps

\* A thread keeps its evaluation, drops it, or starts one that can be answered.
LEMMA LoyalJobsStep ==
    ASSUME TypeInv, LoyalInv, [Next]_vars
    PROVE  LoyalJobs'
<1> USE DEF TypeInv
<1>0. loyal' \subseteq loyal /\ LoyalJobs
  BY LoyalMembersStep DEF LoyalInv
<1>1. ASSUME UNCHANGED job
      PROVE  LoyalJobs'
  BY <1>0, <1>1 DEF LoyalJobs
<1>2. ASSUME NEW t \in Thread, NEW e \in Job, job' = [job EXCEPT ![t] = e],
             e.stage = "lookup" =>
               \/ e.user \notin loyal
               \/ "not_member" \notin e.results /\ (e.todo # {} \/ e.results # {})
      PROVE  LoyalJobs'
  <2>1. job'[t] = e /\ \A s \in Thread \ {t} : job'[s] = job[s]
    BY <1>2, JobSet
  <2> QED
    BY <1>0, <1>2, <2>1 DEF LoyalJobs
<1>3. ASSUME NEW u \in User, rules # {}, NEW t \in Thread,
             job' = [job EXCEPT ![t] = Evaluation(u, rules, {})]
      PROVE  LoyalJobs'
  <2> DEFINE e == Evaluation(u, rules, {})
  <2>1. e \in Job /\ e.todo = rules /\ e.results = {}
    BY NewEvaluation DEF RulesTypes
  <2>2. job' = [job EXCEPT ![t] = e]
    BY <1>3
  <2> HIDE DEF e
  <2> QED
    BY <1>2, <1>3, <2>1, <2>2
<1>4. ASSUME Taking
      PROVE  LoyalJobs'
  <2>1. CASE TakeEvent
    <3> DEFINE e == Evaluation(Current.user, rules \ {Current.chat}, {Current.result})
    <3>1. /\ done < batch /\ Current.kind = "membership"
          /\ job' = [job EXCEPT !["bot"] = e]
      BY <2>1 DEF TakeEvent, Takes
    <3>2. Current.user \in User /\ Current.result \in Result /\ done + 1 \in 1 .. Len(queue)
      BY <3>1, CurrentUpdate
    <3>3. e \in Job /\ e.user = Current.user
      BY <3>2, NewEvaluation DEF RulesTypes
    <3>4. Current.user \notin loyal
      BY <3>1, <3>2 DEF Current, LoyalInv, LoyalQueue
    <3> HIDE DEF e
    <3> QED
      BY <1>2, <3>1, <3>3, <3>4, Threads
  <2>2. CASE TakeCommand
    <3>1. Current.user \in User
      BY <2>2, CurrentUpdate DEF TakeCommand, Takes
    <3>2. \/ UNCHANGED job
          \/ rules # {} /\ job' = [job EXCEPT !["bot"] = Evaluation(Current.user, rules, {})]
      BY <2>2 DEF TakeCommand
    <3> QED
      BY <1>1, <1>3, <3>1, <3>2, Threads
  <2>3. CASE Poll \/ IgnoreEvent \/ TakePress \/ RefusePress
    BY <1>1, <2>3 DEF Poll, IgnoreEvent, TakePress, RefusePress
  <2> QED
    BY <1>4, <2>1, <2>2, <2>3 DEF Taking
<1>5. ASSUME NEW u \in User, Recheck(u)
      PROVE  LoyalJobs'
  BY <1>3, <1>5, Threads DEF Recheck
<1>6. ASSUME NEW t \in Thread, NEW c \in Chat, Lookup(t, c) \/ LookupTimesOut(t, c)
      PROVE  LoyalJobs'
  <2>1. PICK result \in Result : Answered(t, c, result)
                                 /\ (result = Membership(job[t].user, c) \/ result = "indeterminate")
    BY <1>6, Memberships DEF Lookup, LookupTimesOut, Result
  <2>2. Evaluates(t) /\ c \in job[t].todo
    BY <1>6 DEF Lookup, LookupTimesOut
  <2>3. job[t].user \in loyal => result # "not_member"
    BY <2>1, <2>2 DEF LoyalInv, LoyalMembers, Membership
  <2>4. /\ job'[t].user = job[t].user
        /\ job'[t].results = job[t].results \union {result}
        /\ \A s \in Thread \ {t} : job'[s] = job[s]
    BY <2>1, <2>2, AnswerKeeps
  <2>5. job[t].stage = "lookup"
    BY <2>2 DEF Evaluates
  <2> QED
    BY <1>0, <2>3, <2>4, <2>5 DEF LoyalJobs
<1>7. ASSUME NEW t \in Thread, Ending(t)
      PROVE  LoyalJobs'
  <2>1. job[t].user \in User
    BY <1>7, Evaluating DEF Ending, LookupFails, LeaveOpen, Apply, ApplyFails, Decides
  <2>2. CASE job' = [job EXCEPT ![t] = Idle]
    BY <1>2, <2>2, IdleIsJob
  <2>3. CASE job' = [job EXCEPT ![t] = [stage |-> "claim", user |-> job[t].user]]
    <3> DEFINE e == [stage |-> "claim", user |-> job[t].user]
    <3>1. e \in Job /\ e.stage # "lookup"
      BY <2>1 DEF Job
    <3>2. job' = [job EXCEPT ![t] = e]
      BY <2>3
    <3> HIDE DEF e
    <3> QED
      BY <1>2, <3>1, <3>2
  <2> QED
    BY <1>7, <2>2, <2>3 DEF Ending, LookupFails, LeaveOpen, Apply, ApplyFails, Finish, Fail
<1>8. Quiet => LoyalJobs'
  BY <1>1 DEF Quiet, ChangeRules, ChangeReplyLost, SaveRules, SetRole, Trigger, StartCycle, CycleFails, EndCycle, TimerFires, Wake,
              ApproveOnWeb
<1>9. Claiming => LoyalJobs'
  BY <1>2, IdleIsJob, Threads DEF Claiming, Claim, ClaimFails, Finish
<1>10. Restart => LoyalJobs'
  BY IdleIsJob DEF Restart, LoyalJobs
<1>11. UNCHANGED vars => LoyalJobs'
  BY <1>1 DEF vars
<1>12. /\ \A u \in User, c \in Chat : Move(u, c) => LoyalJobs'
       /\ \A u \in User : AskForAccess(u) => LoyalJobs'
       /\ \A u \in User, a \in Administrator, kind \in {"approve", "reject"} : Press(kind, u, a) => LoyalJobs'
  BY <1>1 DEF Move, AskForAccess, Press, Send
<1> QED
  BY <1>4, <1>5, <1>6, <1>7, <1>8, <1>9, <1>10, <1>11, <1>12, Steps

\* No evaluation of such a user ends as "ineligible".
LEMMA LoyalDecision ==
    ASSUME TypeInv, LoyalInv, NEW t \in Thread, Decides(t, {"ineligible"})
    PROVE  job[t].user \notin loyal
<1>1. /\ job[t].stage = "lookup" /\ job[t].todo = {}
      /\ Decision(job[t].mode, job[t].results) = "ineligible"
  BY DEF Decides, Evaluates
<1>2. job[t].results \in SUBSET Result /\ job[t].mode \in {"any", "all"}
  BY Evaluating DEF TypeInv, Decides
<1>3. "not_member" \in job[t].results \/ job[t].results = {}
  BY <1>1, <1>2 DEF Decision, Result
<1> QED
  BY <1>1, <1>3 DEF LoyalInv, LoyalJobs

LEMMA LoyalStep ==
    ASSUME TypeInv, LoyalInv, LoyalIsNeverRevoked, [Next]_vars
    PROVE  LoyalInv' /\ LoyalIsNeverRevoked'
<1>1. LoyalInv' /\ loyal' \subseteq loyal
  BY LoyalMembersStep, LoyalQueueStep, LoyalJobsStep DEF LoyalInv
<1>2. revoked' \intersect loyal = {}
  BY AccountStep, LoyalDecision DEF LoyalIsNeverRevoked
<1> QED
  BY <1>1, <1>2 DEF LoyalIsNeverRevoked

LEMMA LoyalInit == Init => LoyalInv /\ LoyalIsNeverRevoked
<1> SUFFICES ASSUME Init
             PROVE  LoyalInv /\ LoyalIsNeverRevoked
  OBVIOUS
<1>1. LoyalMembers /\ LoyalIsNeverRevoked
  BY DEF Init, LoyalMembers, LoyalIsNeverRevoked
<1>2. LoyalQueue
  <2>1. queue = <<>> /\ Len(<<>>) = 0
    BY DEF Init
  <2> QED
    BY <2>1 DEF LoyalQueue
<1>3. LoyalJobs
  BY IdleIsJob DEF Init, LoyalJobs
<1> QED
  BY <1>1, <1>2, <1>3 DEF LoyalInv

\* Whatever users, administrators, faults and the other thread do, no
\* evaluation takes the access of a user who is in every chat all the time:
\* a lookup that failed, an update that is replayed and a change of the rules
\* in the middle of an evaluation leave it open or eligible (Checker,
\* ApplyQualification).
THEOREM LoyalNeverRevoked == Spec => []LoyalIsNeverRevoked
<1>1. TypeInv /\ LoyalInv /\ LoyalIsNeverRevoked /\ [Next]_vars
        => (TypeInv /\ LoyalInv /\ LoyalIsNeverRevoked)'
  BY TypeStep, LoyalStep
<1>2. Spec => [](TypeInv /\ LoyalInv /\ LoyalIsNeverRevoked)
  BY <1>1, TypeInit, LoyalInit, PTL DEF Spec
<1> QED
  BY <1>2, PTL
=============================================================================
