--------------------------- MODULE RealityHealth ----------------------------
(***************************************************************************)
(* The hourly check of the REALITY target and what the administrators are  *)
(* told about it: HealthMonitor.Check, the singleton row reality_health    *)
(* and the Telegram notifier.  A change of health is recorded together     *)
(* with the notice that is due, the notice is sent, and only then the due  *)
(* notice is cleared; an error or the end of the process may come before   *)
(* any of these steps, and the owner may change the target meanwhile.  A   *)
(* notice that no administrator could be reached with counts as sent.      *)
(***************************************************************************)
CONSTANTS Target  \* domains the owner may configure

VARIABLES
    configured, \* core_settings.reality_server, or "none"
    row,        \* reality_health
    check,      \* the check in progress
    told,       \* history: the last notice an administrator received about the
                \* row's target, since it became the row's target
    unheard     \* history: the last notice sent about it reached nobody

toldVars == <<told, unheard>>
healthVars == <<configured, row, check, toldVars>>

Notice == {"failed", "recovered"}
NoRow == [target |-> "none", healthy |-> TRUE, pending |-> "none"]
NoCheck == [phase |-> "none", target |-> "none", notice |-> "none"]

HealthTypeOK ==
    /\ configured \in Target \union {"none"}
    /\ row \in {NoRow} \union
               [target : Target, healthy : BOOLEAN, pending : Notice \union {"none"}]
    /\ check \in {NoCheck}
                 \union [phase : {"record"}, target : Target, notice : {"none"}]
                 \union [phase : {"notify", "acknowledge"}, target : Target, notice : Notice]
    /\ told \in Notice \union {"none"}
    /\ unheard \in BOOLEAN

HealthInit ==
    /\ configured = "none"
    /\ row = NoRow
    /\ check = NoCheck
    /\ told = "none"
    /\ unheard = FALSE

\* SettingsStore.Save, by the owner.
Configure(target) ==
    /\ configured' = target
    /\ UNCHANGED <<row, check, toldVars>>
----------------------------------------------------------------------------
\* CurrentRealityTarget; the probe that follows looks at this target.
ReadTarget ==
    /\ check = NoCheck
    /\ configured # "none"
    /\ check' = [phase |-> "record", target |-> configured, notice |-> "none"]
    /\ UNCHANGED <<configured, row, toldVars>>

Adopted(target) == row.target # target

\* The notice that is due after an observation: the one still pending when it
\* brings nothing new.
Due(target, healthy) ==
    CASE Adopted(target) -> IF healthy THEN "none" ELSE "failed"
      [] ~Adopted(target) /\ row.healthy # healthy -> IF healthy THEN "recovered" ELSE "failed"
      [] OTHER -> row.pending

Recorded(target, healthy) == [target |-> target, healthy |-> healthy, pending |-> Due(target, healthy)]

\* Nothing has been said about a new target.
Forgets(target) ==
    IF Adopted(target) THEN told' = "none" /\ unheard' = FALSE ELSE UNCHANGED toldVars

\* Seeded error: an observation that brings nothing new clears what is due.
RecordAndForget(healthy) ==
    LET target == check.target
        due == IF row.target = target /\ row.healthy = healthy THEN "none" ELSE Due(target, healthy)
    IN /\ check.phase = "record"
       /\ row' = [target |-> target, healthy |-> healthy, pending |-> due]
       /\ check' = IF due = "none" THEN NoCheck ELSE [check EXCEPT !.phase = "notify", !.notice = due]
       /\ Forgets(target)
       /\ UNCHANGED configured

\* RecordRealityHealth: one transaction that locks the row.
Record(healthy) ==
    LET target == check.target
        due == Due(target, healthy)
    IN /\ check.phase = "record"
       /\ row' = Recorded(target, healthy)
       /\ check' = IF due = "none" THEN NoCheck ELSE [check EXCEPT !.phase = "notify", !.notice = due]
       /\ Forgets(target)
       /\ UNCHANGED configured

\* The commit takes effect and its reply is lost.
RecordReplyLost(healthy) ==
    /\ check.phase = "record"
    /\ row' = Recorded(check.target, healthy)
    /\ check' = NoCheck
    /\ Forgets(check.target)
    /\ UNCHANGED configured

\* Every active administrator is written to; those who cannot be reached are
\* only counted, even when that is all of them.  Without the audit record of it
\* the notice stays due.
Notify(heard, audited) ==
    /\ check.phase = "notify"
    /\ told' = IF heard THEN check.notice ELSE told
    /\ unheard' = ~heard
    /\ check' = IF audited THEN [check EXCEPT !.phase = "acknowledge"] ELSE NoCheck
    /\ UNCHANGED <<configured, row>>

\* AcknowledgeRealityHealthNotification; its reply may be lost as well, which
\* ends the check in the same way.
Acknowledge ==
    /\ check.phase = "acknowledge"
    /\ row' = IF row.target = check.target /\ row.pending = check.notice
                 THEN [row EXCEPT !.pending = "none"] ELSE row
    /\ check' = NoCheck
    /\ UNCHANGED <<configured, toldVars>>

\* An error before the next step takes effect (the database, or the list of
\* administrators), or a new process: the next check starts from the row.
CheckEnds ==
    /\ check # NoCheck
    /\ check' = NoCheck
    /\ UNCHANGED <<configured, row, toldVars>>

HealthNext ==
    \/ \E target \in Target \union {"none"} : Configure(target)
    \/ ReadTarget
    \/ \E healthy \in BOOLEAN : Record(healthy) \/ RecordReplyLost(healthy)
    \/ \E heard, audited \in BOOLEAN : Notify(heard, audited)
    \/ Acknowledge
    \/ CheckEnds

HealthSpec == HealthInit /\ [][HealthNext]_healthVars
----------------------------------------------------------------------------
\* When no notice is due, the last thing the administrators heard of the
\* target matches its health, unless the last notice reached nobody: whatever
\* step of a check was cut off or repeated and however health changed before
\* the notice went out, there is no other way to lose one.
NoticesMatchHealth ==
    row.pending = "none" => unheard \/ (told = "failed" <=> ~row.healthy)
=============================================================================
