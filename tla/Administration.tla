--------------------------- MODULE Administration ---------------------------
(***************************************************************************)
(* Who administers the bot: the administrators table with its roles, the   *)
(* login codes the bot hands out, and the sessions of the web panel.       *)
(*                                                                         *)
(* A login is three calls of the database (consume the code, create the    *)
(* session, write the audit record), issuing a code is two, and a request  *)
(* is authorised before the transaction that carries it out begins, so an  *)
(* administrator may be removed between any two of them.  Codes and        *)
(* sessions carry what is left of their lifetime; those that ran out can   *)
(* never be used again and are forgotten here, although their rows stay.   *)
(***************************************************************************)
EXTENDS Naturals, FiniteSets

CONSTANTS Admin,      \* Telegram IDs that may be appointed
          Root,       \* the configured root owner; no other row of admins has is_root
          Browser,    \* clients of the web panel, one request at a time each
          CodeLife,   \* loginCodeLifetime, in ticks
          IdleLife,   \* sessionIdleTimeout, in ticks
          SessionLife,\* sessionAbsoluteLifetime, in ticks
          MaxCodes,   \* bound: codes issued
          MaxRemovals \* bound: removals of one administrator

ASSUME RootAssumption == Root \in Admin
ASSUME BrowserAssumption == "free" \notin Browser
ASSUME LifeAssumption == {CodeLife, IdleLife, SessionLife} \subseteq Nat \ {0}
ASSUME AdminBounds == {MaxCodes, MaxRemovals} \subseteq Nat

VARIABLES
    admins,   \* administrators: role ("none" without a row) and active
    codes,    \* admin_login_codes: at most one for each administrator
    sessions, \* admin_sessions: the one each browser was given, if any
    login,    \* the login in progress in each browser
    change,   \* the role change in progress in each browser
    lock,     \* the browser whose transaction holds administratorRoleLockID
    issuing,  \* the command handler between FindActive and Replace
    issued,   \* codes issued so far
    term      \* history: how often each administrator was removed

adminVars == <<admins, codes, sessions, login, change, lock, issuing, issued, term>>

None == [phase |-> "none"]
NoOne == [admin |-> "nobody"]
Role == {"owner", "administrator"}
Life(n) == 1 .. n
Code == [id : 1 .. MaxCodes, left : Life(CodeLife), term : 0 .. MaxRemovals, late : BOOLEAN]
Session == [admin : Admin, code : 1 .. MaxCodes, idle : Life(IdleLife),
            left : Life(SessionLife), term : 0 .. MaxRemovals, late : BOOLEAN, held : BOOLEAN]
Login == [phase : {"create", "audit"}, admin : Admin, code : 1 .. MaxCodes,
          term : 0 .. MaxRemovals, late : BOOLEAN, began : 0 .. MaxRemovals]
Change == [phase : {"wait", "locked"}, actor : Admin, target : Admin, role : Role \union {"none"}]

AdminTypeOK ==
    /\ admins \in [Admin -> [role : Role \union {"none"}, active : BOOLEAN]]
    /\ \A a \in Admin : admins[a].role = "none" => ~admins[a].active
    /\ codes \in [Admin -> Code \union {None}]
    /\ sessions \in [Browser -> Session \union {None}]
    /\ login \in [Browser -> Login \union {None}]
    /\ change \in [Browser -> Change \union {None}]
    /\ lock \in Browser \union {"free"}
    /\ issuing \in [admin : Admin, term : 0 .. MaxRemovals] \union {NoOne}
    /\ issued \in 0 .. MaxCodes
    /\ term \in [Admin -> 0 .. MaxRemovals]

IsOwner(a) == admins[a].active /\ admins[a].role = "owner"

\* Any table an earlier run may have left, after EnsureRootOwner.
AdminInit ==
    /\ admins \in [Admin -> {[role |-> "none", active |-> FALSE]}
                              \union [role : Role, active : BOOLEAN]]
    /\ IsOwner(Root)
    /\ codes = [a \in Admin |-> None]
    /\ sessions = [b \in Browser |-> None]
    /\ login = [b \in Browser |-> None]
    /\ change = [b \in Browser |-> None]
    /\ lock = "free"
    /\ issuing = NoOne
    /\ issued = 0
    /\ term = [a \in Admin |-> 0]
----------------------------------------------------------------------------
(* /adminlogin in the private chat: LoginCodeService.Issue.                *)
FindActive(a) ==
    /\ issuing = NoOne
    /\ issued < MaxCodes
    /\ admins[a].active
    /\ issuing' = [admin |-> a, term |-> term[a]]
    /\ UNCHANGED <<admins, codes, sessions, login, change, lock, issued, term>>

\* A new code replaces the previous one; nothing looks at admins again.
Replace ==
    /\ issuing # NoOne
    /\ LET a == issuing.admin IN
        codes' = [codes EXCEPT ![a] = [id |-> issued + 1, left |-> CodeLife,
                                       term |-> issuing.term, late |-> issuing.term # term[a]]]
    /\ issued' = issued + 1
    /\ issuing' = NoOne
    /\ UNCHANGED <<admins, sessions, login, change, lock, term>>

ReplaceFails ==
    /\ issuing # NoOne
    /\ issuing' = NoOne
    /\ UNCHANGED <<admins, codes, sessions, login, change, lock, issued, term>>
----------------------------------------------------------------------------
(* POST /api/auth/login: LoginFlow.Exchange and adminLoginHandler.         *)

\* Seeded error: the code is looked up, and deleted by a later statement only.
ConsumeAndKeep(b, a) ==
    /\ login[b] = None /\ change[b] = None /\ sessions[b] = None
    /\ codes[a] # None /\ admins[a].active
    /\ login' = [login EXCEPT ![b] = [phase |-> "create", admin |-> a, code |-> codes[a].id,
                    term |-> codes[a].term, late |-> codes[a].late, began |-> term[a]]]
    /\ UNCHANGED <<admins, codes, sessions, change, lock, issuing, issued, term>>

\* One DELETE ... RETURNING: the right digest, not expired, still active.
Consume(b, a) ==
    /\ login[b] = None /\ change[b] = None /\ sessions[b] = None
    /\ codes[a] # None /\ admins[a].active
    /\ codes' = [codes EXCEPT ![a] = None]
    /\ login' = [login EXCEPT ![b] = [phase |-> "create", admin |-> a, code |-> codes[a].id,
                    term |-> codes[a].term, late |-> codes[a].late, began |-> term[a]]]
    /\ UNCHANGED <<admins, sessions, change, lock, issuing, issued, term>>

\* The statement commits and its reply is lost: the code is gone.
ConsumeReplyLost(a) ==
    /\ codes[a] # None /\ admins[a].active
    /\ codes' = [codes EXCEPT ![a] = None]
    /\ UNCHANGED <<admins, sessions, login, change, lock, issuing, issued, term>>

\* The record of the administrator is the one Consume returned.
Create(b) ==
    /\ login[b].phase = "create"
    /\ LET l == login[b] IN
        sessions' = [sessions EXCEPT ![b] =
            [admin |-> l.admin, code |-> l.code, idle |-> IdleLife, left |-> SessionLife,
             term |-> l.term, late |-> l.late \/ l.began # term[l.admin], held |-> FALSE]]
    /\ login' = [login EXCEPT ![b].phase = "audit"]
    /\ UNCHANGED <<admins, codes, change, lock, issuing, issued, term>>

CreateFails(b) ==
    /\ login[b].phase = "create"
    /\ login' = [login EXCEPT ![b] = None]
    /\ UNCHANGED <<admins, codes, sessions, change, lock, issuing, issued, term>>

\* The cookie is set; the session may have been removed in the meantime.
AuditSucceeds(b) ==
    /\ login[b].phase = "audit"
    /\ sessions' = [sessions EXCEPT ![b] =
                        IF sessions[b] = None THEN None ELSE [sessions[b] EXCEPT !.held = TRUE]]
    /\ login' = [login EXCEPT ![b] = None]
    /\ UNCHANGED <<admins, codes, change, lock, issuing, issued, term>>

\* The session is revoked; when that fails too its row stays, and nobody was
\* given the token.
AuditFails(b) ==
    /\ login[b].phase = "audit"
    /\ sessions' = [sessions EXCEPT ![b] = None]
    /\ login' = [login EXCEPT ![b] = None]
    /\ UNCHANGED <<admins, codes, change, lock, issuing, issued, term>>
----------------------------------------------------------------------------
(* Requests with a session: authorize and AuthenticateAndTouch.            *)
Authenticated(b) ==
    /\ sessions[b] # None
    /\ sessions[b].held
    /\ admins[sessions[b].admin].active

Touched(b) == [sessions EXCEPT ![b].idle = IdleLife]

Request(b) ==
    /\ Authenticated(b) /\ change[b] = None
    /\ sessions' = Touched(b)
    /\ UNCHANGED <<admins, codes, login, change, lock, issuing, issued, term>>

Logout(b) ==
    /\ Authenticated(b) /\ change[b] = None
    /\ sessions' = [sessions EXCEPT ![b] = None]
    /\ UNCHANGED <<admins, codes, login, change, lock, issuing, issued, term>>

\* A role of "none" removes the target.
RequestChange(b, target, role) ==
    /\ Authenticated(b) /\ change[b] = None
    /\ admins[sessions[b].admin].role = "owner"
    /\ sessions' = Touched(b)
    /\ change' = [change EXCEPT ![b] = [phase |-> "wait", actor |-> sessions[b].admin,
                                        target |-> target, role |-> role]]
    /\ UNCHANGED <<admins, codes, login, lock, issuing, issued, term>>
----------------------------------------------------------------------------
(* AdministratorStore.change: one transaction under an advisory lock.      *)

\* loadRoleChangeState and ValidateRoleChange.
Permitted(c) ==
    LET weakens == c.role # "owner"
        target == admins[c.target]
    IN /\ IsOwner(c.actor)
       /\ ~(c.role = "none" /\ target.role = "none")
       /\ ~(c.target = Root /\ weakens)
       /\ ~(target.role = "owner" /\ weakens /\ Cardinality({a \in Admin : IsOwner(a)}) <= 1)

\* Seeded error: the transaction does not wait for the lock.
LoadWithoutLock(b) ==
    /\ change[b].phase = "wait"
    /\ change' = [change EXCEPT ![b] = IF Permitted(change[b])
                                          THEN [change[b] EXCEPT !.phase = "locked"] ELSE None]
    /\ lock' = IF Permitted(change[b]) THEN b ELSE lock
    /\ UNCHANGED <<admins, codes, sessions, login, issuing, issued, term>>

Load(b) ==
    /\ change[b].phase = "wait"
    /\ lock = "free"
    /\ change' = [change EXCEPT ![b] = IF Permitted(change[b])
                                          THEN [change[b] EXCEPT !.phase = "locked"] ELSE None]
    /\ lock' = IF Permitted(change[b]) THEN b ELSE lock
    /\ UNCHANGED <<admins, codes, sessions, login, issuing, issued, term>>

SetRole(b) ==
    LET c == change[b] IN
    /\ c.phase = "locked"
    /\ c.role # "none"
    /\ admins' = [admins EXCEPT ![c.target] = [role |-> c.role, active |-> TRUE]]
    /\ change' = [change EXCEPT ![b] = None]
    /\ lock' = "free"
    /\ UNCHANGED <<codes, sessions, login, issuing, issued, term>>

\* Seeded error: the sessions of the removed administrator are left alone.
RemoveAndKeepSessions(b) ==
    LET c == change[b] IN
    /\ c.phase = "locked"
    /\ c.role = "none"
    /\ admins[c.target].active => term[c.target] < MaxRemovals
    /\ admins' = [admins EXCEPT ![c.target].active = FALSE]
    /\ codes' = [codes EXCEPT ![c.target] = None]
    /\ term' = [term EXCEPT ![c.target] = IF admins[c.target].active THEN @ + 1 ELSE @]
    /\ change' = [change EXCEPT ![b] = None]
    /\ lock' = "free"
    /\ UNCHANGED <<sessions, login, issuing, issued>>

Remove(b) ==
    LET c == change[b] IN
    /\ c.phase = "locked"
    /\ c.role = "none"
    /\ admins[c.target].active => term[c.target] < MaxRemovals
    /\ admins' = [admins EXCEPT ![c.target].active = FALSE]
    /\ codes' = [codes EXCEPT ![c.target] = None]
    /\ sessions' = [x \in Browser |->
                       IF sessions[x] # None /\ sessions[x].admin = c.target
                          THEN None ELSE sessions[x]]
    /\ term' = [term EXCEPT ![c.target] = IF admins[c.target].active THEN @ + 1 ELSE @]
    /\ change' = [change EXCEPT ![b] = None]
    /\ lock' = "free"
    /\ UNCHANGED <<login, issuing, issued>>

ChangeFails(b) ==
    /\ change[b] # None
    /\ change' = [change EXCEPT ![b] = None]
    /\ lock' = IF lock = b THEN "free" ELSE lock
    /\ UNCHANGED <<admins, codes, sessions, login, issuing, issued, term>>
----------------------------------------------------------------------------
\* Seeded error: a row may still be used in the tick in which it expires.
RunsOutLate(left) == left = 0

\* A code or a session may be used while expires_at > now.
RunsOut(left) == left = 1

\* One tick of the database's clock.
AdminTick ==
    /\ codes' = [a \in Admin |-> IF codes[a] = None \/ RunsOut(codes[a].left)
                                    THEN None ELSE [codes[a] EXCEPT !.left = @ - 1]]
    /\ sessions' = [b \in Browser |->
                       IF sessions[b] = None \/ RunsOut(sessions[b].left) \/ RunsOut(sessions[b].idle)
                          THEN None
                          ELSE [sessions[b] EXCEPT !.left = @ - 1, !.idle = @ - 1]]
    /\ UNCHANGED <<admins, login, change, lock, issuing, issued, term>>

\* A new process: requests end, open transactions roll back, the tokens of
\* unfinished logins are lost, and EnsureRootOwner repairs the root owner.
AdminRestart ==
    /\ admins' = [admins EXCEPT ![Root] = [role |-> "owner", active |-> TRUE]]
    /\ sessions' = [b \in Browser |->
                       IF sessions[b] # None /\ ~sessions[b].held THEN None ELSE sessions[b]]
    /\ login' = [b \in Browser |-> None]
    /\ change' = [b \in Browser |-> None]
    /\ lock' = "free"
    /\ issuing' = NoOne
    /\ UNCHANGED <<codes, issued, term>>

AdminNext ==
    \/ \E a \in Admin : FindActive(a) \/ ConsumeReplyLost(a)
    \/ Replace \/ ReplaceFails
    \/ \E b \in Browser :
        \/ \E a \in Admin : Consume(b, a)
        \/ Create(b) \/ CreateFails(b)
        \/ AuditSucceeds(b) \/ AuditFails(b)
        \/ Request(b) \/ Logout(b)
        \/ \E target \in Admin, role \in Role \union {"none"} : RequestChange(b, target, role)
        \/ Load(b) \/ SetRole(b) \/ Remove(b) \/ ChangeFails(b)
    \/ AdminTick
    \/ AdminRestart

AdminSpec == AdminInit /\ [][AdminNext]_adminVars
----------------------------------------------------------------------------
\* A login code makes one session at most, and removing an administrator ends
\* what was given to him: a session that is accepted stems from a code of his
\* present appointment.  The exception is a removal that came between two
\* statements, of the bot issuing the code or of the login (late): neither
\* Replace nor Create looks at the administrator again, and a new appointment
\* within the lifetime of the row makes it usable.
SessionsAreEarned ==
    \A b \in Browser : sessions[b] # None =>
        /\ \A x \in Browser \ {b} : sessions[x] # None => sessions[x].code # sessions[b].code
        /\ Authenticated(b) => sessions[b].late \/ sessions[b].term = term[sessions[b].admin]

\* Roles change only by somebody who is an active owner when the change takes
\* effect, not merely when the request was authorised, and nobody takes the
\* root owner's role: owners who remove each other, or one who appoints
\* himself again while he is removed, are decided by the lock.
RolesChangeByOwners ==
    [][admins' # admins =>
        /\ admins'[Root] = admins[Root]
        /\ \E b \in Browser : change[b] # None /\ change'[b] = None /\ IsOwner(change[b].actor)
      ]_adminVars
=============================================================================
